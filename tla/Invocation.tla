----------------------------- MODULE Invocation -----------------------------
(***************************************************************************)
(* What one run of `org` promises its caller about the node it should      *)
(* change: there is at most one effect, and the exit code never says more  *)
(* of it than is true and stays true.  A run that could not say may still  *)
(* have its effect when its process is long gone.                          *)
(***************************************************************************)
EXTENDS Naturals

VARIABLES
    effects,    \* how often the tool call took effect
    told        \* what the exit code says of it

vars == <<effects, told>>

Words == {"nothing", "applied", "unchanged", "unknown"}

(* An effect comes while nobody has excluded it.                           *)
MayTakeEffect(done, word) == done = 0 /\ word \in {"nothing", "unknown"}

MayConclude(done, word) ==
    CASE word = "applied" -> done = 1
      [] word = "unchanged" -> done = 0
      [] word = "unknown" -> TRUE
      [] OTHER -> FALSE

Init == effects = 0 /\ told = "nothing"

TakeEffect ==
    /\ MayTakeEffect(effects, told)
    /\ effects' = 1
    /\ UNCHANGED told

Conclude ==
    /\ told = "nothing"
    /\ \E word \in Words : MayConclude(effects, word) /\ told' = word
    /\ UNCHANGED effects

Next == TakeEffect \/ Conclude

Spec == Init /\ [][Next]_vars
=============================================================================
