------------------------------ MODULE MCAgents ------------------------------
(***************************************************************************)
(* Agents for TLC.  With three callers an edit can be outrun twice.        *)
(***************************************************************************)
EXTENDS Agents

=============================================================================
