---------------------------- MODULE MCServerDetail ---------------------------
(* The schedules and the servers are interchangeable.                       *)
EXTENDS ServerDetail, TLC

Symmetry == Permutations(Texts) \cup Permutations(Servers)
=============================================================================
