------------------------------ MODULE MCDispatch ------------------------------
(***************************************************************************)
(* Dispatch for TLC: one node, two texts, two property keys, and enough    *)
(* words of paths to ask `org schema` for commands it knows and does not.  *)
(***************************************************************************)
EXTENDS Dispatch

MCSegments == {"edit", "body", "query", "run", "inbox"}

===============================================================================
