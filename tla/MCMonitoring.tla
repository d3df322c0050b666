---------------------------- MODULE MCMonitoring ----------------------------
(***************************************************************************)
(* Model values and symmetry for the runs of Monitoring.                   *)
(***************************************************************************)
EXTENDS Monitoring, TLC

\* Servers, syncers and collectors are interchangeable.
Symmetry ==
    Permutations(Servers) \cup Permutations(Syncers) \cup Permutations(Collectors)
=============================================================================
