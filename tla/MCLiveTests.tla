----------------------------- MODULE MCLiveTests -----------------------------
(***************************************************************************)
(* LiveTests for TLC.  MaxProbes is all there is to bound.                 *)
(***************************************************************************)
EXTENDS LiveTests

=============================================================================
