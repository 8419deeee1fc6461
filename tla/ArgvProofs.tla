----------------------------- MODULE ArgvProofs -----------------------------
(***************************************************************************)
(* What holds of split_sentinel for command lines of any length and any    *)
(* tokens.                                                                 *)
(***************************************************************************)
EXTENDS Argv, NumberLemmas, SequenceTheorems

(* An unbroken row of n value flags ends just before k and starts after    *)
(* the program name.                                                       *)
Row(k, n) ==
    /\ n \in 0 .. k - 2
    /\ \A j \in k - n .. k - 1 : argv[j] \in ValueFlags
    /\ n < k - 2 => argv[k - n - 1] \notin ValueFlags

(* The scan looks at a token only when the row before it is even, and has  *)
(* passed no sentinel by; it stops where it has found one or at the end.   *)
Scanned ==
    /\ argv \in Seq(Tokens)
    /\ i \in Nat \ {0} /\ (i = 1 => argv = <<>>)
    /\ i \in 2 .. Len(argv) => FlagsBefore(i) % 2 = 0
    /\ \A k \in 2 .. Len(argv) : k < i => ~TopLevel(k)
    /\ \A k \in found : k = i /\ i \in 2 .. Len(argv) /\ argv[i] = Sentinel
    /\ found = {} /\ result # <<>> => i > Len(argv)

(* The two parts of a split at k before next, and what there is to say of  *)
(* any two parts, see PartsRejoin.                                         *)
Parts(k, next) ==
    <<SubSeq(argv, 1, k - 1) \o SubSeq(argv, next, Len(argv)), SubSeq(argv, k + 1, next - 1)>>

Rejoin(k, parts) ==
    LET rest == SubSeq(parts[1], k, Len(parts[1]))
    IN  /\ argv = SubSeq(parts[1], 1, k - 1) \o <<Sentinel>> \o parts[2] \o rest
        /\ ToSet(parts[2]) \cap Subcommands = {}
        /\ rest = <<>> \/ rest[1] \in Subcommands

----------------------------------------------------------------------------
(* There is such a row before every position, and only one.                *)
LEMMA RowExists == ASSUME NEW k \in Nat \ {0, 1} PROVE \E n : Row(k, n)
<1> DEFINE S == {n \in 0 .. k - 2 : n < k - 2 => argv[k - n - 1] \notin ValueFlags}
<1>1. S \subseteq Nat /\ k - 2 \in S
  OBVIOUS
<1>2. PICK n \in S : \A m \in S : n <= m
  <2>1. S # {}
    BY <1>1
  <2> HIDE DEF S
  <2>. QED
    BY <1>1, <2>1, SmallestNumber
<1>3. ASSUME NEW j \in k - n .. k - 1 PROVE argv[j] \in ValueFlags
  <2>1. k - j - 1 \in 0 .. k - 2 /\ k - j - 1 < n /\ k - (k - j - 1) - 1 = j
    OBVIOUS
  <2>2. k - j - 1 \notin S
    BY <1>2, <2>1
  <2>. QED
    BY <2>1, <2>2
<1>. QED
  BY <1>3 DEF Row

(* A token has one row of value flags before it.                           *)
LEMMA RowIsOne ==
    ASSUME NEW k \in Nat \ {0, 1}, NEW n, NEW m, Row(k, n), Row(k, m)
    PROVE  n = m
<1>1. \A a, b \in 0 .. k - 2 : Row(k, a) /\ Row(k, b) => ~(a < b)
  <2> SUFFICES ASSUME NEW a \in 0 .. k - 2, NEW b \in 0 .. k - 2, Row(k, a), Row(k, b), a < b
               PROVE  FALSE
    OBVIOUS
  <2>1. argv[k - a - 1] \notin ValueFlags
    BY DEF Row
  <2>2. k - a - 1 \in k - b .. k - 1
    OBVIOUS
  <2>. QED
    BY <2>1, <2>2 DEF Row
<1>2. n \in 0 .. k - 2 /\ m \in 0 .. k - 2
  BY DEF Row
<1>. QED
  BY <1>1, <1>2

(* FlagsBefore is its length,                                              *)
LEMMA FlagsBeforeIsRow ==
    ASSUME NEW k \in Nat \ {0, 1}
    PROVE  Row(k, FlagsBefore(k)) /\ \A n : Row(k, n) => FlagsBefore(k) = n
<1>1. Row(k, FlagsBefore(k))
  BY RowExists DEF Row, FlagsBefore
<1>. QED
  BY <1>1, RowIsOne

(* which starts at 0, grows by one with a flag, and else is 0 again.       *)
LEMMA FlagsBeforeNext ==
    /\ FlagsBefore(2) = 0
    /\ \A k \in Nat \ {0, 1} :
        /\ FlagsBefore(k) \in Nat
        /\ argv[k] \in ValueFlags => FlagsBefore(k + 1) = FlagsBefore(k) + 1
        /\ argv[k] \notin ValueFlags => FlagsBefore(k + 1) = 0
<1>1. FlagsBefore(2) = 0
  <2>1. Row(2, 0)
    BY DEF Row
  <2>. QED
    BY <2>1, FlagsBeforeIsRow
<1>2. ASSUME NEW k \in Nat \ {0, 1}
      PROVE  /\ FlagsBefore(k) \in Nat
             /\ argv[k] \in ValueFlags => FlagsBefore(k + 1) = FlagsBefore(k) + 1
             /\ argv[k] \notin ValueFlags => FlagsBefore(k + 1) = 0
  <2> DEFINE n == FlagsBefore(k)
  <2>1. Row(k, n) /\ n \in 0 .. k - 2
    BY FlagsBeforeIsRow DEF Row
  <2> HIDE DEF n
  <2>2. k + 1 \in Nat \ {0, 1}
    OBVIOUS
  <2>3. ASSUME argv[k] \in ValueFlags PROVE Row(k + 1, n + 1)
    <3>1. \A j \in (k + 1) - (n + 1) .. (k + 1) - 1 : argv[j] \in ValueFlags
      <4>1. \A j \in k - n .. k : j = k \/ j \in k - n .. k - 1
        BY <2>1
      <4>. QED
        BY <2>1, <2>3, <4>1 DEF Row
    <3>2. n + 1 < (k + 1) - 2 => argv[(k + 1) - (n + 1) - 1] \notin ValueFlags
      <4>1. (k + 1) - (n + 1) - 1 = k - n - 1
        BY <2>1
      <4>. QED
        BY <2>1, <4>1 DEF Row
    <3>. QED
      BY <2>1, <3>1, <3>2 DEF Row
  <2>4. ASSUME argv[k] \notin ValueFlags PROVE Row(k + 1, 0)
    BY <2>4 DEF Row
  <2>. QED
    BY <2>1, <2>2, <2>3, <2>4, FlagsBeforeIsRow DEF n
<1>. QED
  BY <1>1, <1>2

----------------------------------------------------------------------------
(* What stands before a position is told by the command line alone, so a   *)
(* step has to show no more of the next state than this.                   *)
LEMMA StepScanned ==
    ASSUME UNCHANGED argv, argv \in Seq(Tokens),
           i' \in Nat \ {0}, i' = 1 => argv = <<>>,
           i' \in 2 .. Len(argv) => FlagsBefore(i') % 2 = 0,
           \A k \in 2 .. Len(argv) : k < i' => ~TopLevel(k),
           \A k \in found' : k = i' /\ i' \in 2 .. Len(argv) /\ argv[i'] = Sentinel,
           found' = {} /\ result' # <<>> => i' > Len(argv)
    PROVE  Scanned'
<1>1. FlagsBefore(i)' = FlagsBefore(i')
  BY DEF FlagsBefore
<1>2. ASSUME NEW k PROVE TopLevel(k)' = TopLevel(k)
  BY DEF TopLevel, FlagsBefore
<1>. QED
  BY <1>1, <1>2 DEF Scanned

(* The scan steps over one token or over a flag and its value, and passes  *)
(* no sentinel by that is not such a value.                                *)
LEMMA PassScanned == ASSUME Scanned, Pass PROVE Scanned'
<1>1. /\ argv \in Seq(Tokens) /\ Len(argv) \in Nat
      /\ found = {} /\ result = <<>> /\ UNCHANGED <<argv, found, result>>
      /\ i \in 2 .. Len(argv) /\ FlagsBefore(i) % 2 = 0
      /\ argv[i] # Sentinel
      /\ \A k \in 2 .. Len(argv) : k < i => ~TopLevel(k)
  <2>1. i # 1
    BY DEF Scanned, Pass
  <2>. QED
    BY <2>1 DEF Scanned, Pass, Scanning
<1>2. ~TopLevel(i)
  BY <1>1 DEF TopLevel
<1>3. FlagsBefore(i) \in Nat
  BY <1>1, FlagsBeforeNext
<1>4. CASE argv[i] \notin ValueFlags
  <2>1. i' = i + 1
    BY <1>4 DEF Pass
  <2>2. FlagsBefore(i + 1) = 0
    BY <1>1, <1>4, FlagsBeforeNext
  <2>3. FlagsBefore(i') % 2 = 0
    BY <2>1, <2>2
  <2>4. \A k \in 2 .. Len(argv) : k < i' => ~TopLevel(k)
    BY <1>1, <1>2, <2>1
  <2>. QED
    BY <1>1, <2>1, <2>3, <2>4, StepScanned
<1>5. CASE argv[i] \in ValueFlags
  <2>1. i' = i + 2
    BY <1>5 DEF Pass
  <2>2. FlagsBefore(i + 1) = FlagsBefore(i) + 1
    BY <1>1, <1>5, FlagsBeforeNext
  <2>3. FlagsBefore(i + 2) = FlagsBefore(i) + 2 \/ FlagsBefore(i + 2) = 0
    <3>1. i + 1 \in Nat \ {0, 1} /\ (i + 1) + 1 = i + 2
      BY <1>1
    <3>2. FlagsBefore((i + 1) + 1) = FlagsBefore(i + 1) + 1 \/ FlagsBefore((i + 1) + 1) = 0
      BY <3>1, FlagsBeforeNext
    <3>. QED
      BY <1>3, <2>2, <3>1, <3>2
  <2>4. FlagsBefore(i') % 2 = 0
    BY <1>1, <1>3, <2>1, <2>3
  <2>5. ~TopLevel(i + 1)
    BY <1>1, <1>3, <2>2 DEF TopLevel
  <2>6. \A k \in 2 .. Len(argv) : k < i' => ~TopLevel(k)
    BY <1>1, <1>2, <2>1, <2>5
  <2>. QED
    BY <1>1, <2>1, <2>4, <2>6, StepScanned
<1>. QED
  BY <1>4, <1>5

(* It starts after the program name, and keeps what it knows.              *)
LEMMA ScannedInitially == Init => Scanned
<1> SUFFICES ASSUME Init PROVE Scanned
  OBVIOUS
<1>1. argv \in Seq(Tokens)
  BY DEF Init, SeqOf
<1>2. FlagsBefore(2) % 2 = 0
  BY FlagsBeforeNext
<1>. QED
  BY <1>1, <1>2 DEF Init, Scanned

(* Every step of the scan leaves behind only tokens it has dealt with.     *)
LEMMA ScannedInductive == Scanned /\ [Next]_argvVars => Scanned'
<1> SUFFICES ASSUME Scanned, [Next]_argvVars PROVE Scanned'
  OBVIOUS
<1>1. CASE Find
  <2>1. UNCHANGED <<argv, i>> /\ FlagsBefore(i') = FlagsBefore(i)
    BY <1>1 DEF Find
  <2>. QED
    BY <1>1, <2>1, StepScanned DEF Find, Scanning, Scanned
<1>2. CASE Unsplit
  <2>1. UNCHANGED <<argv, i>> /\ FlagsBefore(i') = FlagsBefore(i)
    BY <1>2 DEF Unsplit
  <2>. QED
    BY <1>2, <2>1, StepScanned DEF Unsplit, Scanning, Scanned
<1>3. CASE Split
  <2>1. UNCHANGED <<argv, i>> /\ FlagsBefore(i') = FlagsBefore(i)
    BY <1>3 DEF Split
  <2>. QED
    BY <1>3, <2>1, StepScanned DEF Split, Scanning, Scanned
<1>4. CASE UNCHANGED argvVars
  <2>1. UNCHANGED <<argv, i>> /\ FlagsBefore(i') = FlagsBefore(i)
    BY <1>4 DEF argvVars
  <2>. QED
    BY <1>4, <2>1, StepScanned DEF argvVars, Scanning, Scanned
<1>. QED
  BY <1>1, <1>2, <1>3, <1>4, PassScanned DEF Next

(* The sentinel split_sentinel finds is the first `--` that is no value of *)
(* a flag, in a command line of any length (argv.rs:10-15).                *)
THEOREM SentinelFound == Spec => []SentinelIsFirstTopLevel
<1>1. Scanned => SentinelIsFirstTopLevel
  <2> SUFFICES ASSUME Scanned PROVE SentinelIsFirstTopLevel
    OBVIOUS
  <2>1. ASSUME NEW k \in found
        PROVE  k \in TopLevelSentinels /\ \A j \in TopLevelSentinels : k <= j
    BY <2>1 DEF Scanned, TopLevelSentinels, TopLevel
  <2>2. ASSUME found = {}, result # <<>> PROVE TopLevelSentinels = {}
    BY <2>2 DEF Scanned, TopLevelSentinels
  <2>. QED
    BY <2>1, <2>2 DEF SentinelIsFirstTopLevel
<1>. QED
  BY <1>1, ScannedInitially, ScannedInductive, PTL DEF Spec

----------------------------------------------------------------------------
(* A split before a subcommand, or at the end, with no subcommand between  *)
(* it and the sentinel, can be undone.                                     *)
LEMMA SplitRejoins ==
    ASSUME argv \in Seq(Tokens), NEW k \in 2 .. Len(argv), argv[k] = Sentinel,
           NEW next \in k + 1 .. Len(argv) + 1,
           \A j \in k + 1 .. next - 1 : argv[j] \notin Subcommands,
           next <= Len(argv) => argv[next] \in Subcommands
    PROVE  Rejoin(k, Parts(k, next))
<1> DEFINE head == SubSeq(argv, 1, k - 1)
           extra == SubSeq(argv, k + 1, next - 1)
           rest == SubSeq(argv, next, Len(argv))
           cleaned == head \o rest
<1>1. Len(argv) \in Nat /\ \A j \in 1 .. Len(argv) : argv[j] \in Tokens
  BY ElementOfSeq
<1>2. head \in Seq(Tokens) /\ Len(head) = k - 1 /\ head # <<>>
  BY <1>1, SubSeqProperties, EmptySeq
<1>3. /\ extra \in Seq(Tokens) /\ Len(extra) = next - k - 1
      /\ \A j \in 1 .. next - k - 1 : extra[j] = argv[k + j]
  <2>1. \A j \in k + 1 .. next - 1 : argv[j] \in Tokens
    BY <1>1
  <2>2. /\ extra \in Seq(Tokens)
        /\ Len(extra) = IF k + 1 <= next - 1 THEN (next - 1) - (k + 1) + 1 ELSE 0
        /\ \A j \in 1 .. (next - 1) - (k + 1) + 1 : extra[j] = argv[(k + 1) + j - 1]
    BY <2>1, SubSeqProperties
  <2>. QED
    BY <2>2
<1>4. /\ rest \in Seq(Tokens) /\ Len(rest) = Len(argv) + 1 - next
      /\ next <= Len(argv) => rest[1] = argv[next]
  <2>1. \A j \in next .. Len(argv) : argv[j] \in Tokens
    BY <1>1
  <2>2. /\ rest \in Seq(Tokens)
        /\ Len(rest) = IF next <= Len(argv) THEN Len(argv) - next + 1 ELSE 0
        /\ \A j \in 1 .. Len(argv) - next + 1 : rest[j] = argv[next + j - 1]
    BY <1>1, <2>1, SubSeqProperties
  <2>. QED
    BY <1>1, <2>2
<1>5. ((head \o <<Sentinel>>) \o extra) \o rest = argv
  <2>1. SubSeq(argv, k, k) = <<Sentinel>>
    <3>1. \A j \in k .. k : argv[j] \in Tokens
      BY <1>1
    <3>2. /\ SubSeq(argv, k, k) \in Seq(Tokens) /\ Len(SubSeq(argv, k, k)) = 1
          /\ SubSeq(argv, k, k)[1] = Sentinel
      BY <3>1, SubSeqProperties
    <3>3. <<Sentinel>> \in Seq(Tokens) /\ Len(<<Sentinel>>) = 1 /\ <<Sentinel>>[1] = Sentinel
      BY DEF Tokens
    <3>4. \A j \in 1 .. 1 : SubSeq(argv, k, k)[j] = <<Sentinel>>[j]
      BY <3>2, <3>3
    <3> DEFINE one == SubSeq(argv, k, k)
               two == <<Sentinel>>
    <3> HIDE DEF one, two
    <3>5. one = two
      BY <3>2, <3>3, <3>4, SeqEqual DEF one, two
    <3>. QED
      BY <3>5 DEF one, two
  <2>2. head \o SubSeq(argv, k, k) = SubSeq(argv, 1, k)
    BY <1>1, ConcatAdjacentSubSeq
  <2>3. SubSeq(argv, 1, k) \o extra = SubSeq(argv, 1, next - 1)
    BY <1>1, ConcatAdjacentSubSeq
  <2>4. SubSeq(argv, 1, next - 1) \o rest = SubSeq(argv, 1, Len(argv))
    <3>1. /\ next - 1 \in 1 - 1 .. Len(argv) /\ Len(argv) \in next - 1 .. Len(argv)
          /\ (next - 1) + 1 = next /\ 1 \in 1 .. Len(argv) + 1
      BY <1>1
    <3>2. SubSeq(argv, 1, next - 1) \o SubSeq(argv, (next - 1) + 1, Len(argv))
            = SubSeq(argv, 1, Len(argv))
      BY <3>1, ConcatAdjacentSubSeq
    <3>. QED
      BY <3>1, <3>2
  <2>. QED
    BY <2>1, <2>2, <2>3, <2>4, SubSeqFull
<1> HIDE DEF head, extra, rest
<1>6. /\ cleaned \in Seq(Tokens) /\ Len(cleaned) = (k - 1) + Len(rest)
      /\ SubSeq(cleaned, 1, k - 1) = head
  <2>1. SubSeq(cleaned, 1, k - 1) = SubSeq(head, 1, k - 1)
    BY <1>2, <1>4, SubSeqOfConcat1
  <2>2. SubSeq(head, 1, k - 1) = head
    BY <1>2, SubSeqFull
  <2>3. cleaned \in Seq(Tokens) /\ Len(cleaned) = Len(head) + Len(rest)
    BY <1>2, <1>4, ConcatProperties
  <2>. QED
    BY <1>2, <2>1, <2>2, <2>3
<1>7. SubSeq(cleaned, k, Len(cleaned)) = rest
  <2>1. CASE rest = <<>>
    BY <1>1, <1>6, <2>1, SubSeqEmpty
  <2>2. CASE rest # <<>>
    <3>1. Len(rest) \in Nat \ {0}
      BY <1>4, <2>2, EmptySeq
    <3>2. k \in Len(head) + 1 .. Len(head) + Len(rest)
          /\ Len(cleaned) \in Len(head) + 1 .. Len(head) + Len(rest)
      BY <1>2, <1>6, <3>1
    <3>3. SubSeq(cleaned, k, Len(cleaned)) = SubSeq(rest, k - Len(head), Len(cleaned) - Len(head))
      BY <1>2, <1>4, <3>2, SubSeqOfConcat2
    <3>4. k - Len(head) = 1 /\ Len(cleaned) - Len(head) = Len(rest)
      BY <1>2, <1>6, <3>1
    <3>. QED
      BY <1>4, <3>3, <3>4, SubSeqFull
  <2>. QED
    BY <2>1, <2>2
<1>8. ToSet(extra) \cap Subcommands = {}
  <2>1. ASSUME NEW j \in DOMAIN extra PROVE extra[j] \notin Subcommands
    <3>1. j \in 1 .. next - k - 1
      BY <1>3, LenProperties
    <3>2. k + j \in k + 1 .. next - 1 /\ extra[j] = argv[k + j]
      BY <1>3, <3>1
    <3>. QED
      BY <3>2
  <2>. QED
    BY <2>1 DEF ToSet
<1>9. rest = <<>> \/ rest[1] \in Subcommands
  BY <1>1, <1>4, EmptySeq
<1>10. Parts(k, next)[1] = cleaned /\ Parts(k, next)[2] = extra
  BY DEF Parts, head, extra, rest
<1> HIDE DEF cleaned
<1>. QED
  BY <1>5, <1>6, <1>7, <1>8, <1>9, <1>10 DEF Rejoin

(* A split finds the sentinel and the first subcommand after it.           *)
LEMMA SplitIsParts ==
    ASSUME Scanned, Split
    PROVE  \E next \in i + 1 .. Len(argv) + 1 :
              /\ found = {i} /\ i \in 2 .. Len(argv) /\ argv[i] = Sentinel
              /\ \A j \in i + 1 .. next - 1 : argv[j] \notin Subcommands
              /\ next <= Len(argv) => argv[next] \in Subcommands
              /\ result' = Parts(i, next)
<1>1. /\ found = {i} /\ i \in 2 .. Len(argv) /\ argv[i] = Sentinel /\ Len(argv) \in Nat
  BY DEF Scanned, Split
<1> DEFINE S == {j \in i + 1 .. Len(argv) : argv[j] \in Subcommands}
           from == IF S # {} THEN Min(S) ELSE 0
           next == IF from = 0 THEN Len(argv) + 1 ELSE from
<1>2. SelectInSubSeq(argv, i + 1, Len(argv), LAMBDA token : token \in Subcommands) = from
  BY DEF SelectInSubSeq
<1>3. result' = Parts(i, next)
  <2> HIDE DEF from
  <2>. QED
    BY <1>1, <1>2 DEF Split, Parts
<1>4. CASE S = {}
  BY <1>1, <1>3, <1>4
<1>5. CASE S # {}
  <2>1. S \subseteq Nat
    BY <1>1
  <2> HIDE DEF S
  <2>2. from \in S /\ \A j \in S : from <= j
    BY <1>5, <2>1, MinIsSmallest
  <2> USE DEF S
  <2> HIDE DEF from
  <2>3. from \in i + 1 .. Len(argv) /\ argv[from] \in Subcommands /\ next = from
    BY <1>1, <2>2
  <2>4. \A j \in i + 1 .. from - 1 : argv[j] \notin Subcommands
    BY <1>1, <2>2, <2>3
  <2> HIDE DEF next, S
  <2>. QED
    BY <1>1, <1>3, <2>3, <2>4
<1>. QED
  BY <1>4, <1>5

(* Nothing is taken out of a command line without a sentinel, and what is  *)
(* taken out of another can be put back.                                   *)
LEMMA PartsInductive == Scanned /\ PartsRejoin /\ [Next]_argvVars => PartsRejoin'
<1> SUFFICES ASSUME Scanned, PartsRejoin, [Next]_argvVars PROVE PartsRejoin'
  OBVIOUS
<1>1. CASE Pass \/ Find
  BY <1>1 DEF Pass, Find, Scanning, PartsRejoin
<1>2. CASE Unsplit
  BY <1>2 DEF Unsplit, Scanning, PartsRejoin
<1>3. CASE Split
  <2>1. PICK next \in i + 1 .. Len(argv) + 1 :
              /\ found = {i} /\ i \in 2 .. Len(argv) /\ argv[i] = Sentinel
              /\ \A j \in i + 1 .. next - 1 : argv[j] \notin Subcommands
              /\ next <= Len(argv) => argv[next] \in Subcommands
              /\ result' = Parts(i, next)
    BY <1>3, SplitIsParts
  <2>2. Rejoin(i, result')
    BY <2>1, SplitRejoins DEF Scanned
  <2>3. UNCHANGED <<argv, found>> /\ found = {i}
    BY <1>3, <2>1 DEF Split
  <2>. QED
    BY <2>2, <2>3 DEF PartsRejoin, Rejoin
<1>4. CASE UNCHANGED argvVars
  BY <1>4 DEF argvVars, PartsRejoin
<1>. QED
  BY <1>1, <1>2, <1>3, <1>4 DEF Next

(* Whatever the launcher's arguments are, they and what is left for clap   *)
(* are the command line, in its order (argv.rs:17-19).                     *)
THEOREM NothingLostBySplitting == Spec => []PartsRejoin
<1>1. Init => PartsRejoin
  BY DEF Init, PartsRejoin
<1>. QED
  BY <1>1, ScannedInitially, ScannedInductive, PartsInductive, PTL DEF Spec
=============================================================================
