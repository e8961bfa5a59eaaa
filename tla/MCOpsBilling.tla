---- MODULE MCOpsBilling ----
(* An order of 2 or 3, paid by a slip of 1, a prompt of 2 and a transfer of 2. *)
EXTENDS OpsBilling, TLC

CONSTANTS i1, i2, slip, prompt, transfer, c1, c2

MCInvoices == {i1, i2}
MCSlips == {slip}
MCPrompts == {prompt}
MCTransfers == {transfer}
MCAmount == (slip :> 1) @@ (prompt :> 2) @@ (transfer :> 2)
MCTotals == {2, 3}
MCCases == {[total |-> 3, payments |-> {slip, prompt, transfer}, clerks |-> {c1}, crashes |-> 1],
            [total |-> 2, payments |-> {transfer}, clerks |-> {c1, c2}, crashes |-> 0]}
MCClerks == {c1, c2}
====
