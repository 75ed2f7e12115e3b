--------------------------- MODULE MC_ReviewQueue ---------------------------
(* Two coaches of one club and an athlete of another, one item.            *)
EXTENDS ReviewQueue, TLC

CONSTANTS c1, c2, a, k1

MCTenantOf == [p \in {c1, c2, a} |-> IF p = a THEN "other" ELSE "club"]
Symmetry == Permutations({c1, c2})
=============================================================================
