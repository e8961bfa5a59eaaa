---------------------------- MODULE MCSaleOrders ----------------------------
(* Small instance of SaleOrders for TLC. *)
EXTENDS SaleOrders, TLC

CONSTANTS o1, o2, s1, s2, w1, w2

OneOrder == {o1}
TwoOrders == {o1, o2}
TwoSales == {s1, s2}
OneWorker == {w1}
TwoWorkers == {w1, w2}
OneOrThree == {1, 3}
OneOrFour == {1, 4}
TwoOrThree == {2, 3}
Three == {3}
Either == BOOLEAN
Collected == {FALSE}
Symmetry == Permutations(TwoOrders) \union Permutations(TwoSales)
=============================================================================
