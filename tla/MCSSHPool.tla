----------------------------- MODULE MCSSHPool ------------------------------
(***************************************************************************)
(* Model values and symmetry for the runs of SSHPool.                      *)
(***************************************************************************)
EXTENDS SSHPool, TLC

\* Transports and callers are interchangeable; loops are numbered.
Symmetry == Permutations(Conns) \cup Permutations(Callers)
=============================================================================
