------------------------------- MODULE MCHub -------------------------------
(***************************************************************************)
(* The instance of Hub that TLC checks; liveness rules symmetry out.       *)
(***************************************************************************)
EXTENDS Hub
=============================================================================
