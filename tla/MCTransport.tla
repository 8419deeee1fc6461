---------------------------- MODULE MCTransport ----------------------------
(***************************************************************************)
(* Transport on a small instance: every caller and every server, within    *)
(* MaxLines lines written and MaxSends messages sent.                      *)
(***************************************************************************)
EXTENDS Transport, TLC

CONSTANTS MaxLines, MaxSends, answer, short, long

MCJson == {answer}
MCMessages == {short, long}
MCSize == (short :> 1) @@ (long :> 2)

MCServerStep ==
    \/ ChildExits \/ CloseStdin \/ CloseStdout
    \/ ServerReads \/ ServerEndsLine
    \/ Len(written) < MaxLines /\ \E line \in Lines : ServerWrites(line)

MCUserStep ==
    \/ \E seconds \in {0, 30} : SpawnServer(seconds)
    \/ SpawnFails
    \/ Len(sent) < MaxSends /\ \E message \in Messages : Send(message)
    \/ Recv
    \/ Drop

MCNext == MainStep \/ ReaderStep \/ KillTakesEffect \/ MCServerStep \/ MCUserStep

MCSpec == Init /\ [][MCNext]_transportVars /\ SystemFairness
============================================================================
