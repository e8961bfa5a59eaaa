------------------------------ MODULE MCLedger ------------------------------
(* Small instances of Ledger for TLC. *)
EXTENDS Ledger, TLC

CONSTANTS t1, t2, a1, a2, s1, cash, sales, stock, cost

OneAdmin == {a1}
TwoAdmins == {a1, a2}
TwoTxs == {t1, t2}
OneSource == {s1}
NoUuids == {}
ThreeUuids == 1..3
FourAccounts == {cash, sales, stock, cost}
Journal(debit, credit) == [a \in FourAccounts |-> IF a = debit THEN 2 ELSE IF a = credit THEN -2 ELSE 0]
Nothing == [a \in FourAccounts |-> 0]
\* Two postings with no account in common, or none.
TwoPostings == {Nothing, Journal(cash, sales), Journal(cost, stock)}
OnePosting == {Nothing, Journal(cash, sales)}
TwoDays == {1, 2}
=============================================================================
