---- MODULE MCOpsDispatch ----
(* One order of 2 kg and two of 1 kg on one batch. *)
EXTENDS OpsDispatch, TLC

CONSTANTS o1, o2, o3, batch, d1, d2, c1, c2

MCOrders == {o1, o2, o3}
MCBatches == {batch}
MCRequired == (o1 :> 2) @@ (o2 :> 1) @@ (o3 :> 1)
MCAllocations == 1 .. 3
MCLoads == {d1, d2}
MCClerks == {c1, c2}
\* Two orders after the same kilogram, and one order whose requests cross.
MCDays == {[orders |-> {o2, o3}, stock |-> (batch :> 1), rows |-> 2, loads |-> 1, clerks |-> 2],
           [orders |-> {o1}, stock |-> (batch :> 2), rows |-> 3, loads |-> 2, clerks |-> 2]}
Symmetry == Permutations({o2, o3}) \cup Permutations(MCLoads) \cup Permutations(MCClerks)
====
