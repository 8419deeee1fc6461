-------------------------- MODULE LiveTestsProofs --------------------------
(***************************************************************************)
(* What holds of run-live-tests.sh however often the daemon is asked.      *)
(***************************************************************************)
EXTENDS LiveTests, TLAPS

InCleanup == at \in {"stop", "wait", "remove"}

(* The workspace is there from mktemp to rm, the pid is known only after   *)
(* the trap is set, and rm comes only when a daemon of known pid is gone.  *)
Teardown ==
    /\ at \in {"prepare", "trap", "spawn", "pid"} => workspace
    /\ pid => at \notin {"workspace", "prepare", "trap", "spawn", "pid"}
    /\ pid /\ Running => workspace
    /\ pid /\ at = "remove" => ~Running

(* The status cleanup has kept is success only for the suite's success, or *)
(* because a signal found $? so.                                           *)
Verdict == InCleanup /\ rc = Ok => (suite = "passed" \/ signalled)

(* Type correctness, the first inductive invariant.                        *)
LEMMA LiveTypeInductive == LiveTypeOK /\ [Next]_vars => LiveTypeOK'
<1> SUFFICES ASSUME LiveTypeOK, [Next]_vars PROVE LiveTypeOK'
  OBVIOUS
<1> USE SomeProbes DEF LiveTypeOK, Leave, Cleanup, Goes, Ok, Failure, Interrupt
<1>1. CASE CommandFails
  BY <1>1 DEF CommandFails
<1>2. CASE MakeWorkspace
  BY <1>2 DEF MakeWorkspace
<1>3. CASE Prepare
  BY <1>3 DEF Prepare
<1>4. CASE SetTrap
  BY <1>4 DEF SetTrap
<1>5. CASE SpawnDaemon
  BY <1>5 DEF SpawnDaemon
<1>6. CASE RecordPid
  BY <1>6 DEF RecordPid
<1>7. CASE ProbeAnswered
  BY <1>7 DEF ProbeAnswered
<1>8. CASE ProbeAgain
  BY <1>8 DEF ProbeAgain
<1>9. CASE ProbeGivesUp
  BY <1>9 DEF ProbeGivesUp
<1>10. CASE WriteLauncher
  BY <1>10 DEF WriteLauncher
<1>11. CASE RunSuite
  BY <1>11 DEF RunSuite
<1>12. CASE StopDaemon
  BY <1>12 DEF StopDaemon
<1>13. CASE WaitForDaemon
  BY <1>13 DEF WaitForDaemon
<1>14. CASE RemoveWorkspace
  <2>1. workspace' \in BOOLEAN
    BY <1>14, Zenon DEF RemoveWorkspace
  <2>2. UNCHANGED <<pid, probes, suite, daemon, signalled>>
    BY <1>14 DEF RemoveWorkspace
  <2>3. /\ at' \in {"stop", "gone"}
        /\ handler' \in {"exit", handler}
        /\ status' = rc /\ rc' = rc
    BY <1>14 DEF RemoveWorkspace
  <2>. QED
    BY <2>1, <2>2, <2>3
<1>15. CASE Signal
  BY <1>15 DEF Signal
<1>16. CASE DaemonComesUp \/ DaemonDies
  BY <1>16 DEF DaemonComesUp, DaemonDies, scriptVars
<1>17. CASE UNCHANGED vars
  BY <1>17 DEF vars, scriptVars
<1>. QED
  BY <1>1, <1>2, <1>3, <1>4, <1>5, <1>6, <1>7, <1>8, <1>9, <1>10, <1>11, <1>12, <1>13,
     <1>14, <1>15, <1>16, <1>17 DEF Next, Script

(* In every reachable state the script's variables have their types, and   *)
(* the probes stay below their limit.                                      *)
THEOREM LiveTypeCorrect == Spec => []LiveTypeOK
<1>1. Init => LiveTypeOK
  <2> SUFFICES ASSUME Init PROVE LiveTypeOK
    OBVIOUS
  <2>1. workspace \in BOOLEAN /\ pid \in BOOLEAN /\ signalled \in BOOLEAN
    BY Zenon DEF Init
  <2>2. probes \in 0 .. MaxProbes - 1
    BY SomeProbes DEF Init
  <2>. QED
    BY <2>1, <2>2 DEF Init, LiveTypeOK
<1>. QED
  BY <1>1, LiveTypeInductive, PTL DEF Spec

----------------------------------------------------------------------------
(* Teardown needs nothing of the exit status, the verdict nothing of the   *)
(* workspace.                                                              *)

(* The workspace and the daemon: the part that says who is torn down.      *)
LEMMA TeardownInductive ==
    Teardown /\ OwnedTornDown /\ [Next]_vars => Teardown' /\ OwnedTornDown'
<1> SUFFICES ASSUME Teardown, OwnedTornDown, [Next]_vars PROVE Teardown' /\ OwnedTornDown'
  OBVIOUS
<1> USE DEF Teardown, OwnedTornDown, Running, Gone, Leave, Cleanup, Goes, Trapped
<1>1. CASE CommandFails
  BY <1>1 DEF CommandFails
<1>2. CASE MakeWorkspace
  BY <1>2 DEF MakeWorkspace
<1>3. CASE Prepare
  BY <1>3 DEF Prepare
<1>4. CASE SetTrap
  BY <1>4 DEF SetTrap
<1>5. CASE SpawnDaemon
  BY <1>5 DEF SpawnDaemon
<1>6. CASE RecordPid
  BY <1>6 DEF RecordPid
<1>7. CASE ProbeAnswered
  BY <1>7 DEF ProbeAnswered
<1>8. CASE ProbeAgain
  BY <1>8 DEF ProbeAgain
<1>9. CASE ProbeGivesUp
  BY <1>9 DEF ProbeGivesUp
<1>10. CASE WriteLauncher
  BY <1>10 DEF WriteLauncher
<1>11. CASE RunSuite
  BY <1>11 DEF RunSuite
<1>12. CASE StopDaemon
  BY <1>12 DEF StopDaemon
<1>13. CASE WaitForDaemon
  BY <1>13 DEF WaitForDaemon
<1>14. CASE RemoveWorkspace
  BY <1>14 DEF RemoveWorkspace
<1>15. CASE Signal
  BY <1>15 DEF Signal
<1>16. CASE DaemonComesUp \/ DaemonDies
  BY <1>16 DEF DaemonComesUp, DaemonDies, scriptVars
<1>17. CASE UNCHANGED vars
  BY <1>17 DEF vars, scriptVars
<1>. QED
  BY <1>1, <1>2, <1>3, <1>4, <1>5, <1>6, <1>7, <1>8, <1>9, <1>10, <1>11, <1>12, <1>13,
     <1>14, <1>15, <1>16, <1>17 DEF Next, Script

(* Whatever fails and whenever a signal comes: a daemon whose pid was      *)
(* recorded never runs without its workspace, and the end of the script    *)
(* finds neither (the trap, run-live-tests.sh:74-89).                      *)
THEOREM TornDownIfOwned == Spec => []OwnedTornDown
<1>1. Init => Teardown /\ OwnedTornDown
  BY DEF Init, Teardown, OwnedTornDown
<1>. QED
  BY <1>1, TeardownInductive, PTL DEF Spec

(* The status kept for the exit: the part that says when green is earned.  *)
LEMMA VerdictInductive ==
    Verdict /\ GreenMeansTested /\ [Next]_vars => Verdict' /\ GreenMeansTested'
<1> SUFFICES ASSUME Verdict, GreenMeansTested, [Next]_vars
             PROVE  Verdict' /\ GreenMeansTested'
  OBVIOUS
<1> USE DEF Verdict, GreenMeansTested, InCleanup, Gone, Leave, Cleanup, Goes, Trapped,
            Ok, Failure, Interrupt
<1>1. CASE CommandFails
  BY <1>1 DEF CommandFails
<1>2. CASE MakeWorkspace \/ Prepare \/ SetTrap \/ SpawnDaemon \/ RecordPid \/ WriteLauncher
  BY <1>2 DEF MakeWorkspace, Prepare, SetTrap, SpawnDaemon, RecordPid, WriteLauncher
<1>3. CASE ProbeAnswered \/ ProbeAgain
  BY <1>3 DEF ProbeAnswered, ProbeAgain
<1>4. CASE ProbeGivesUp
  BY <1>4 DEF ProbeGivesUp
<1>5. CASE RunSuite
  BY <1>5 DEF RunSuite
<1>6. CASE StopDaemon \/ WaitForDaemon
  BY <1>6 DEF StopDaemon, WaitForDaemon
<1>7. CASE RemoveWorkspace
  BY <1>7 DEF RemoveWorkspace
<1>8. CASE Signal
  BY <1>8 DEF Signal
<1>9. CASE DaemonComesUp \/ DaemonDies
  BY <1>9 DEF DaemonComesUp, DaemonDies, scriptVars
<1>10. CASE UNCHANGED vars
  BY <1>10 DEF vars, scriptVars
<1>. QED
  BY <1>1, <1>2, <1>3, <1>4, <1>5, <1>6, <1>7, <1>8, <1>9, <1>10 DEF Next, Script

(* No failing step and no part of cleanup turns into exit status 0: but    *)
(* for a signal, 0 means that the suite ran and passed                     *)
(* (run-live-tests.sh:75, 87, 157).                                        *)
THEOREM GreenIsEarned == Spec => []GreenMeansTested
<1>1. Init => Verdict /\ GreenMeansTested
  BY DEF Init, Verdict, GreenMeansTested, InCleanup, Gone
<1>. QED
  BY <1>1, VerdictInductive, PTL DEF Spec
============================================================================
