---------------------------- MODULE LineChannel ----------------------------
(***************************************************************************)
(* What Transport promises about the server's output, without threads,     *)
(* pipes or buffers: the lines the server writes are received in order,    *)
(* none skipped, none twice; "end of file" is reported only when the       *)
(* server can write no more and everything was received, or right after a  *)
(* line that cannot be decoded; and nothing is received after it.          *)
(***************************************************************************)
EXTENDS Naturals, Sequences

CONSTANTS Lines,      \* what a line can be
          Invalid     \* the line that is not UTF-8

VARIABLES written,    \* the lines the server wrote, in order
          got,        \* the lines recv returned, in order
          closed,     \* no process can write to the server's stdout any more
          ended       \* recv has reported end of file

vars == <<written, got, closed, ended>>

(* The line that could not be decoded was received: the stream is lost.    *)
Broken == got # <<>> /\ got[Len(got)] = Invalid

Init ==
    /\ written = <<>>
    /\ got = <<>>
    /\ closed = FALSE
    /\ ended = FALSE

Write ==
    /\ ~closed
    /\ \E line \in Lines : written' = Append(written, line)
    /\ UNCHANGED <<got, closed, ended>>

Close ==
    /\ closed' = TRUE
    /\ UNCHANGED <<written, got, ended>>

Receive ==
    /\ ~ended
    /\ ~Broken
    /\ Len(got) < Len(written)
    /\ got' = Append(got, written[Len(got) + 1])
    /\ UNCHANGED <<written, closed, ended>>

End ==
    /\ Broken \/ (closed /\ got = written)
    /\ ended' = TRUE
    /\ UNCHANGED <<written, got, closed>>

Next == Write \/ Close \/ Receive \/ End

Spec == Init /\ [][Next]_vars
============================================================================
