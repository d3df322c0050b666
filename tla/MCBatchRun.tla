----------------------------- MODULE MCBatchRun -----------------------------
(* BatchRun on small instances; the bounds are in the .cfg files.          *)
EXTENDS BatchRun, TLC

Symmetry == Permutations(Runs) \cup Permutations(Servers)
                \cup Permutations(Clients)

=============================================================================
