------------------------------ MODULE LiveTests ------------------------------
(***************************************************************************)
(* scripts/run-live-tests.sh: it makes a workspace, sets a trap, starts an *)
(* Emacs daemon in the workspace, waits until the daemon answers, runs the *)
(* live suite against it, and cleans up in the trap.  `set -e` makes any   *)
(* failing command an exit.  One action stands for one command.            *)
(***************************************************************************)
EXTENDS Naturals

CONSTANTS MaxProbes     \* how often the daemon is asked, 60 in the script

ASSUME SomeProbes == MaxProbes \in Nat \ {0}

VARIABLES
    at,         \* the next command: "workspace", "prepare", "trap", "spawn",
                \* "pid", "probe", "launcher", "suite", "stop", "wait",
                \* "remove", or "gone"
    handler,    \* what runs cleanup: "none", "signal", "exit"
    status,     \* $?, and at last the exit status
    rc,         \* cleanup's rc
    workspace,  \* the temporary directory exists
    pid,        \* DAEMON_PID is set
    probes,     \* how often the daemon was asked in vain
    daemon,     \* "none", "starting", "ready", "leaving", "gone"
    suite,      \* "none", "passed", "failed"
    signalled   \* INT or TERM has come

scriptVars == <<at, handler, status, rc, workspace, pid, probes, suite>>
vars == <<scriptVars, daemon, signalled>>

Trapped == at \notin {"workspace", "prepare", "trap"}
CleaningUp == handler # "none"
Running == daemon \in {"starting", "ready", "leaving"}

Ok == 0
Failure == 1
Interrupt == 130

Init ==
    /\ at = "workspace"
    /\ handler = "none"
    /\ status = Ok /\ rc = Ok
    /\ workspace = FALSE
    /\ pid = FALSE
    /\ probes = 0
    /\ daemon = "none"
    /\ suite = "none"
    /\ signalled = FALSE

----------------------------------------------------------------------------
(* Ways to leave.  Before `trap` the shell just ends.                      *)

(* Mutant: set +e comes first, so that rc is its status.                   *)
CleanupAfterSet(by, code) ==
    /\ at' = "stop"
    /\ handler' = by
    /\ rc' = Ok
    /\ status' = Ok

(* cleanup keeps the status it was entered with.                           *)
Cleanup(by, code) ==
    /\ at' = "stop"
    /\ handler' = by
    /\ rc' = code
    /\ status' = code

Leave(by, code) ==
    IF Trapped THEN Cleanup(by, code)
    ELSE at' = "gone" /\ status' = code /\ UNCHANGED <<handler, rc>>

Goes(from, to) ==
    /\ at = from
    /\ at' = to
    /\ status' = Ok
    /\ UNCHANGED <<handler, rc>>

----------------------------------------------------------------------------

(* Missing prerequisites, and any command that fails under set -e.         *)
CommandFails ==
    /\ at \in {"workspace", "prepare", "launcher"}
    /\ Leave("exit", Failure)
    /\ UNCHANGED <<workspace, pid, probes, suite, daemon, signalled>>

MakeWorkspace ==
    /\ Goes("workspace", "prepare")
    /\ workspace' = TRUE
    /\ UNCHANGED <<pid, probes, suite, daemon, signalled>>

(* mkdir, chmod, cp of the fixture.                                        *)
Prepare ==
    /\ Goes("prepare", "trap")
    /\ UNCHANGED <<workspace, pid, probes, suite, daemon, signalled>>

SetTrap ==
    /\ Goes("trap", "spawn")
    /\ UNCHANGED <<workspace, pid, probes, suite, daemon, signalled>>

SpawnDaemon ==
    /\ Goes("spawn", "pid")
    /\ daemon' = "starting"
    /\ UNCHANGED <<workspace, pid, probes, suite, signalled>>

RecordPid ==
    /\ Goes("pid", "probe")
    /\ pid' = TRUE
    /\ UNCHANGED <<workspace, probes, suite, daemon, signalled>>

ProbeAnswered ==
    /\ daemon = "ready"
    /\ Goes("probe", "launcher")
    /\ UNCHANGED <<workspace, pid, probes, suite, daemon, signalled>>

(* Mutant: the probes are not counted out.                                 *)
ProbeOnceMore ==
    /\ daemon = "starting"
    /\ probes < MaxProbes
    /\ Goes("probe", "probe")
    /\ probes' = probes + 1
    /\ UNCHANGED <<workspace, pid, suite, daemon, signalled>>

(* Not yet: sleep and ask again.                                           *)
ProbeAgain ==
    /\ daemon = "starting"
    /\ probes + 1 < MaxProbes
    /\ Goes("probe", "probe")
    /\ probes' = probes + 1
    /\ UNCHANGED <<workspace, pid, suite, daemon, signalled>>

(* The daemon has died, or was asked for the last time.                    *)
ProbeGivesUp ==
    /\ at = "probe"
    /\ \/ daemon = "gone"
       \/ daemon = "starting" /\ probes + 1 = MaxProbes
    /\ Leave("exit", Failure)
    /\ UNCHANGED <<workspace, pid, probes, suite, daemon, signalled>>

WriteLauncher ==
    /\ Goes("launcher", "suite")
    /\ UNCHANGED <<workspace, pid, probes, suite, daemon, signalled>>

(* cargo test; the script ends with it, whatever its outcome.              *)
RunSuite ==
    /\ at = "suite"
    /\ \/ daemon = "ready" /\ suite' = "passed" /\ Leave("exit", Ok)
       \/ suite' = "failed" /\ Leave("exit", Failure)
    /\ UNCHANGED <<workspace, pid, probes, daemon, signalled>>

----------------------------------------------------------------------------
(* cleanup, which runs twice when a signal brought it on: its own exit     *)
(* sets off the EXIT trap.                                                 *)

(* Mutant: the daemon is only looked at.                                   *)
AskNothing ==
    /\ at = "stop"
    /\ at' = IF pid /\ Running THEN "wait" ELSE "remove"
    /\ UNCHANGED <<daemon, handler, status, rc, workspace, pid, probes, suite, signalled>>

(* emacsclient reaches only a daemon that is ready; its failure is ignored.*)
StopDaemon ==
    /\ at = "stop"
    /\ at' = IF pid /\ Running THEN "wait" ELSE "remove"
    /\ daemon' = IF pid /\ daemon = "ready" THEN "leaving" ELSE daemon
    /\ UNCHANGED <<handler, status, rc, workspace, pid, probes, suite, signalled>>

(* Mutant: no wait.                                                        *)
WaitNot ==
    /\ at = "wait"
    /\ at' = "remove"
    /\ UNCHANGED <<handler, status, rc, workspace, pid, probes, suite, daemon, signalled>>

WaitForDaemon ==
    /\ at = "wait"
    /\ ~Running
    /\ at' = "remove"
    /\ UNCHANGED <<handler, status, rc, workspace, pid, probes, suite, daemon, signalled>>

(* rm -rf, then exit "$rc".                                                *)
RemoveWorkspace ==
    /\ at = "remove"
    /\ workspace' = FALSE
    /\ IF handler = "signal" THEN Cleanup("exit", rc)
       ELSE at' = "gone" /\ status' = rc /\ UNCHANGED <<handler, rc>>
    /\ UNCHANGED <<pid, probes, suite, daemon, signalled>>

----------------------------------------------------------------------------
(* The environment.                                                        *)

(* INT or TERM, between two commands: $? is that of the last command, or   *)
(* tells of one that the signal has ended too.  Bound: at most one, none   *)
(* during cleanup.                                                         *)
Signal ==
    /\ ~signalled /\ ~CleaningUp /\ at # "gone"
    /\ signalled' = TRUE
    /\ IF Trapped THEN Leave("signal", status) \/ Leave("signal", Interrupt)
       ELSE Leave("signal", Interrupt)
    /\ UNCHANGED <<workspace, pid, probes, suite, daemon>>

DaemonComesUp ==
    /\ daemon = "starting"
    /\ daemon' = "ready"
    /\ UNCHANGED <<scriptVars, signalled>>

DaemonDies ==
    /\ Running
    /\ daemon' = "gone"
    /\ UNCHANGED <<scriptVars, signalled>>

Script ==
    \/ CommandFails \/ MakeWorkspace \/ Prepare \/ SetTrap \/ SpawnDaemon \/ RecordPid
    \/ ProbeAnswered \/ ProbeAgain \/ ProbeGivesUp \/ WriteLauncher \/ RunSuite
    \/ StopDaemon \/ WaitForDaemon \/ RemoveWorkspace

Next == Script \/ Signal \/ DaemonComesUp \/ DaemonDies

Spec == Init /\ [][Next]_vars

(* Commands end, the suite among them; of the daemon nothing is known.     *)
ScriptSpec == Spec /\ WF_vars(Script)

(* A daemon comes up or dies, and dies when asked to.                      *)
DaemonFairness ==
    /\ WF_vars(DaemonComesUp \/ (daemon = "starting" /\ DaemonDies))
    /\ WF_vars(daemon = "leaving" /\ DaemonDies)

DaemonSpec == ScriptSpec /\ DaemonFairness

----------------------------------------------------------------------------
Gone == at = "gone"

LiveTypeOK ==
    /\ at \in {"workspace", "prepare", "trap", "spawn", "pid", "probe", "launcher", "suite",
               "stop", "wait", "remove", "gone"}
    /\ handler \in {"none", "signal", "exit"}
    /\ status \in {Ok, Failure, Interrupt} /\ rc \in {Ok, Failure, Interrupt}
    /\ workspace \in BOOLEAN /\ pid \in BOOLEAN /\ signalled \in BOOLEAN
    /\ probes \in 0 .. MaxProbes - 1
    /\ daemon \in {"none", "starting", "ready", "leaving", "gone"}
    /\ suite \in {"none", "passed", "failed"}

(* A daemon whose pid was recorded never runs without its workspace, and   *)
(* when cleanup is through neither is left, whatever failed and whenever a *)
(* signal came (the trap, lines 74-89).                                    *)
OwnedTornDown ==
    pid =>
        /\ Running => workspace
        /\ Gone => ~Running /\ ~workspace

(* Exit status 0 is the suite's: it ran against a daemon that answered and *)
(* passed.  No failing step and no part of cleanup turns into success.  A  *)
(* signal is left out: $? can be 0 when TERM comes (line 75).              *)
GreenMeansTested == Gone /\ status = Ok => (suite = "passed" \/ signalled)

(* A daemon that answers, or is gone, while the script probes it: the      *)
(* script ends, with or without a signal, and `wait` in cleanup (line 82)  *)
(* does not keep it.                                                       *)
SettledEnds == (at = "probe" /\ daemon \in {"ready", "gone"}) ~> Gone

(* README.md: the script "tears the daemon and tmpdir down on exit (also   *)
(* on INT / TERM)", "no leftover daemon, no leftover tmpdir".  Two things  *)
(* break it.  Before the trap is set nothing is torn down, nor is a daemon *)
(* between `&` and DAEMON_PID=$!.  And a daemon that comes up only after   *)
(* cleanup's emacsclient has failed is never asked to leave again: `wait`  *)
(* keeps the script from its end.                                          *)
NothingLeft == ~Running /\ ~workspace
TornDown == [](workspace => <>(Gone /\ NothingLeft))
=============================================================================
