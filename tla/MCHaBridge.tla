----------------------------- MODULE MCHaBridge -----------------------------
(***************************************************************************)
(* Instances of the speech path: the two bridges and the gateway session.  *)
(***************************************************************************)
EXTENDS HaBridge
=============================================================================
