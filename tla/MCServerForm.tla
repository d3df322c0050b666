---------------------------- MODULE MCServerForm ----------------------------
(* Names and hosts are interchangeable; the bounds are in the             *)
(* configuration.                                                          *)
EXTENDS ServerForm, TLC

Symmetry == Permutations(Names) \cup Permutations(Hosts)
=============================================================================
