-------------------------------- MODULE Argv --------------------------------
(***************************************************************************)
(* src/argv.rs: split_sentinel takes the launcher's arguments, those       *)
(* between `--` and the subcommand, out of the command line before clap    *)
(* sees it.  `--` as the value of a flag is no sentinel.                   *)
(***************************************************************************)
EXTENDS Naturals, Sequences, SequencesExt

CONSTANTS
    Sentinel,       \* the token "--"
    Subcommands,    \* SUBCOMMAND_NAMES
    ValueFlags,     \* --server, --server-arg, --timeout
    OtherTokens,    \* flags without a value, and everything else
    MaxLen          \* bound on the length of a command line

Tokens == {Sentinel} \cup Subcommands \cup ValueFlags \cup OtherTokens

VARIABLES
    argv,       \* the tokens, the program name first
    i,          \* the next token to look at
    found,      \* at most one position, that of the sentinel
    result      \* at most one pair: what is left for clap, what is taken out

argvVars == <<argv, i, found, result>>

Init ==
    /\ argv \in SeqOf(Tokens, MaxLen)
    /\ i = IF argv = <<>> THEN 1 ELSE 2
    /\ found = {}
    /\ result = <<>>

Scanning == found = {} /\ result = <<>>

(* Mutant: the value of a flag is looked at like any other token.          *)
PassAlways ==
    /\ Scanning
    /\ i <= Len(argv)
    /\ argv[i] # Sentinel
    /\ i' = i + 1
    /\ UNCHANGED <<argv, found, result>>

(* A flag is passed together with its value.                               *)
Pass ==
    /\ Scanning
    /\ i <= Len(argv)
    /\ argv[i] # Sentinel
    /\ i' = IF argv[i] \in ValueFlags THEN i + 2 ELSE i + 1
    /\ UNCHANGED <<argv, found, result>>

Find ==
    /\ Scanning
    /\ i <= Len(argv)
    /\ argv[i] = Sentinel
    /\ found' = {i}
    /\ UNCHANGED <<argv, i, result>>

Unsplit ==
    /\ Scanning
    /\ i > Len(argv)
    /\ result' = <<argv, <<>>>>
    /\ UNCHANGED <<argv, i, found>>

(* Mutant: the search for the subcommand starts one token late.            *)
SplitLate ==
    /\ result = <<>>
    /\ \E sentinel \in found :
        LET from == SelectInSubSeq(argv, sentinel + 2, Len(argv), LAMBDA token : token \in Subcommands)
            next == IF from = 0 THEN Len(argv) + 1 ELSE from
        IN  result' = <<SubSeq(argv, 1, sentinel - 1) \o SubSeq(argv, next, Len(argv)),
                        SubSeq(argv, sentinel + 1, next - 1)>>
    /\ UNCHANGED <<argv, i, found>>

(* Up to the first subcommand after the sentinel, or to the end.           *)
Split ==
    /\ result = <<>>
    /\ \E sentinel \in found :
        LET from == SelectInSubSeq(argv, sentinel + 1, Len(argv), LAMBDA token : token \in Subcommands)
            next == IF from = 0 THEN Len(argv) + 1 ELSE from
        IN  result' = <<SubSeq(argv, 1, sentinel - 1) \o SubSeq(argv, next, Len(argv)),
                        SubSeq(argv, sentinel + 1, next - 1)>>
    /\ UNCHANGED <<argv, i, found>>

Next == Pass \/ Find \/ Unsplit \/ Split

Spec == Init /\ [][Next]_argvVars

-----------------------------------------------------------------------------
(* Positions are told apart by what stands before them, without a scan:    *)
(* an unbroken row of value flags ending just before k pairs up from its   *)
(* first one, so that k is a value exactly when the row is odd.            *)
FlagsBefore(k) ==
    CHOOSE n \in 0 .. k - 2 :
        /\ \A j \in k - n .. k - 1 : argv[j] \in ValueFlags
        /\ n < k - 2 => argv[k - n - 1] \notin ValueFlags

TopLevel(k) == argv[k] = Sentinel /\ FlagsBefore(k) % 2 = 0

TopLevelSentinels == {k \in 2 .. Len(argv) : TopLevel(k)}

(* The sentinel is the first top-level `--`: never the program name, never *)
(* the value of a flag, even when flags are given as values of flags, and  *)
(* it is missed only when there is none (argv.rs:10-15).                   *)
SentinelIsFirstTopLevel ==
    /\ \A k \in found :
        k \in TopLevelSentinels /\ \A j \in TopLevelSentinels : k <= j
    /\ found = {} /\ result # <<>> => TopLevelSentinels = {}

(* Nothing but the sentinel is lost and no order is changed: put back at   *)
(* its place, what was taken out restores the command line; what was taken *)
(* out names no subcommand, and clap goes on with one if there is one      *)
(* (argv.rs:17-19).  Without a sentinel clap sees all there is.            *)
PartsRejoin ==
    result # <<>> =>
        LET cleaned == result[1]
            extra   == result[2]
        IN  /\ found = {} => cleaned = argv /\ extra = <<>>
            /\ \A k \in found :
                LET rest == SubSeq(cleaned, k, Len(cleaned))
                IN  /\ argv = SubSeq(cleaned, 1, k - 1) \o <<Sentinel>> \o extra \o rest
                    /\ ToSet(extra) \cap Subcommands = {}
                    /\ rest = <<>> \/ rest[1] \in Subcommands
=============================================================================
