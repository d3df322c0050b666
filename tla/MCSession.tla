------------------------------ MODULE MCSession ------------------------------
(* Pages and passwords are interchangeable.                                  *)
EXTENDS Session, TLC

Symmetry == Permutations(Pages) \cup Permutations(Passwords)
=============================================================================
