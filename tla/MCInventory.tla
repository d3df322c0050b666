----------------------------- MODULE MCInventory -----------------------------
(* One group at first: the names and the identities are interchangeable, and *)
(* none or two groups are a mutation away.                                   *)
EXTENDS Inventory

MCInit == Init /\ groups = [g \in {"a"} |-> "a"]
MCSpec == MCInit /\ [][Next]_vars /\ Fairness
=============================================================================
