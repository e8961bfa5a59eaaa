-------------------------- MODULE OpsBillingProofs --------------------------
(* Theorems of OpsBilling, for any invoices, payments, amounts, clerks and crashes. *)
EXTENDS OpsBilling, FiniteSetTheorems, TLAPS

PayRow == [inv : Invoices \cup {None}, times : Nat,
           status : {"none", "unneeded", "PENDING", "CONFIRMED", "REJECTED"}]

\* What a request refers to; the money it has added up is left open.
Refers(r) == r.inv \in Invoices \cup {None} /\ r.pay \in Payments \cup {None}

RequestsRefer == DOMAIN tx = Actors /\ \A t \in Actors : Refers(tx[t])

Rows ==
    /\ RequestsRefer
    /\ pay \in [Payments -> PayRow]
    /\ notice \in [Transfers -> Invoices \cup {None}]

PaymentInvariant == Rows /\ EachPaymentCountsOnce

-----------------------------------------------------------------------------
(* Requests *)

LEMMA WriteRequest ==
  ASSUME RequestsRefer, NEW t \in Actors, NEW r, Refers(r), tx' = [tx EXCEPT ![t] = r]
  PROVE  RequestsRefer'
BY DEF RequestsRefer

LEMMA EndRefers == ASSUME RequestsRefer, NEW t \in Actors, End(t) PROVE RequestsRefer'
<1>1. Refers(Idle)
  BY DEF Refers, Idle
<1> QED BY <1>1, WriteRequest DEF End

LEMMA BeginRefers ==
  ASSUME RequestsRefer, NEW t \in Actors, NEW op, NEW i \in Invoices \cup {None},
         NEW p \in Payments \cup {None}, NEW seen, Begin(t, op, i, p, seen)
  PROVE  RequestsRefer'
<1> DEFINE r == [op |-> op, inv |-> i, pay |-> p, seen |-> seen]
<1>1. Refers(r)
  BY DEF Refers
<1>2. tx' = [tx EXCEPT ![t] = r]
  BY DEF Begin
<1> QED BY <1>1, <1>2, WriteRequest

LEMMA LockRefers ==
  ASSUME RequestsRefer, NEW t \in Actors, NEW op, NEW i \in Invoices \cup {None},
         NEW p \in Payments \cup {None}, Lock(t, op, i, p)
  PROVE  RequestsRefer'
<1> DEFINE r == [op |-> op, inv |-> i, pay |-> p, seen |-> Money(i)]
<1>1. Refers(r)
  BY DEF Refers
<1>2. tx' = [tx EXCEPT ![t] = r]
  BY DEF Lock
<1> QED BY <1>1, <1>2, WriteRequest

-----------------------------------------------------------------------------
(* Each payment counts once *)

\* A step that touches no payment keeps the invariant when requests stay well formed.
LEMMA PaymentsUntouched ==
  ASSUME PaymentInvariant, RequestsRefer', pay' = pay, notice' = notice
  PROVE  PaymentInvariant'
BY DEF PaymentInvariant, Rows, EachPaymentCountsOnce

\* A payment's row is written with the count its status calls for.
LEMMA PaymentWritten ==
  ASSUME PaymentInvariant, RequestsRefer', notice' = notice, NEW p \in Payments \cup {None},
         NEW row \in PayRow, row.times = (IF row.status = "CONFIRMED" THEN 1 ELSE 0),
         pay' = [pay EXCEPT ![p] = row]
  PROVE  PaymentInvariant'
<1>1. \A q \in Payments : pay'[q] = IF q = p THEN row ELSE pay[q]
  BY DEF PaymentInvariant, Rows
<1>2. pay' \in [Payments -> PayRow]
  BY DEF PaymentInvariant, Rows
<1>3. EachPaymentCountsOnce'
  BY <1>1 DEF PaymentInvariant, EachPaymentCountsOnce
<1> QED BY <1>2, <1>3 DEF PaymentInvariant, Rows

LEMMA PaymentInit == Init => PaymentInvariant
<1> SUFFICES ASSUME Init PROVE PaymentInvariant
  OBVIOUS
<1>1. RequestsRefer
  BY DEF Init, RequestsRefer, Refers, Idle, Away
<1>2. pay \in [Payments -> PayRow] /\ EachPaymentCountsOnce
  BY DEF Init, PayRow, EachPaymentCountsOnce
<1> QED BY <1>1, <1>2 DEF Init, PaymentInvariant, Rows

LEMMA SalesKeepsPayments ==
  ASSUME PaymentInvariant, NEW t \in Clerks, Sales(t) PROVE PaymentInvariant'
<1> USE DEF Outside, ReadOnly, rows, external
<1>0. t \in Actors /\ RequestsRefer
  BY DEF Actors, PaymentInvariant, Rows
<1>1. RequestsRefer'
  <2>1. CASE UpdateOrder(t)
    BY <1>0, <2>1, BeginRefers DEF UpdateOrder
  <2>2. CASE CancelOrder(t)
    BY <1>0, <2>2, BeginRefers DEF CancelOrder
  <2>3. CASE WriteOrder(t) \/ WriteCancelled(t)
    BY <1>0, <2>3, EndRefers DEF WriteOrder, WriteCancelled
  <2> QED BY <2>1, <2>2, <2>3 DEF Sales
<1>2. pay' = pay /\ notice' = notice
  BY DEF Sales, UpdateOrder, WriteOrder, CancelOrder, WriteCancelled
<1> QED BY <1>1, <1>2, PaymentsUntouched

LEMMA AccountsKeepsPayments ==
  ASSUME PaymentInvariant, NEW t \in Clerks, Accounts(t) PROVE PaymentInvariant'
<1> USE DEF Outside, ReadOnly, rows, external
<1>0. t \in Actors /\ RequestsRefer
  BY DEF Actors, PaymentInvariant, Rows
<1>1. RequestsRefer'
  <2>1. CASE IssueInvoice(t)
    BY <1>0, <2>1, BeginRefers DEF IssueInvoice
  <2>2. CASE \E i \in Invoices : VoidInvoice(t, i)
    BY <1>0, <2>2, BeginRefers DEF VoidInvoice
  <2>3. CASE Authorize(t)
    BY <1>0, <2>3, BeginRefers DEF Authorize
  <2>4. CASE RevokeAuthorization(t)
    BY <1>0, <2>4, BeginRefers DEF RevokeAuthorization
  <2>5. CASE CreateInvoice(t) \/ WriteVoid(t) \/ ClaimAuthorized(t) \/ WriteRevoked(t)
    BY <1>0, <2>5, EndRefers DEF CreateInvoice, WriteVoid, ClaimAuthorized, WriteRevoked
  <2> QED BY <2>1, <2>2, <2>3, <2>4, <2>5 DEF Accounts
<1>2. pay' = pay /\ notice' = notice
  BY DEF Accounts, IssueInvoice, VoidInvoice, Authorize, RevokeAuthorization, CreateInvoice,
         WriteVoid, ClaimAuthorized, WriteRevoked
<1> QED BY <1>1, <1>2, PaymentsUntouched

LEMMA TakeMoneyKeepsPayments ==
  ASSUME PaymentInvariant, NEW t \in Clerks, TakeMoney(t) PROVE PaymentInvariant'
<1> USE DEF Outside, ReadOnly, rows, external
<1>0. t \in Actors /\ RequestsRefer
  BY DEF Actors, PaymentInvariant, Rows
<1>1. CASE \E p \in Slips, i \in Invoices : RecordPayment(t, p, i)
  <2>1. RequestsRefer'
    BY <1>0, <1>1, LockRefers DEF RecordPayment, Payments
  <2> QED BY <1>1, <2>1, PaymentsUntouched DEF RecordPayment, Lock
<1>2. CASE \E p \in Prompts, i \in Invoices : InitiateMobilePayment(t, p, i)
  <2>1. RequestsRefer'
    BY <1>0, <1>2, BeginRefers DEF InitiateMobilePayment, Payments
  <2> QED BY <1>2, <2>1, PaymentsUntouched DEF InitiateMobilePayment
<1>3. CASE \E p \in Prompts : ConfirmPending(t, p)
  <2>1. RequestsRefer'
    BY <1>0, <1>3, LockRefers DEF ConfirmPending, Payments, PaymentInvariant, Rows, PayRow
  <2> QED BY <1>3, <2>1, PaymentsUntouched DEF ConfirmPending, Lock
<1>4. CASE \E p \in Transfers : HandleCallback(t, p)
  <2>1. RequestsRefer'
    BY <1>0, <1>4, LockRefers DEF HandleCallback, Payments, PaymentInvariant, Rows
  <2> QED BY <1>4, <2>1, PaymentsUntouched DEF HandleCallback, Lock
<1>5. CASE CreatePending(t)
  <2>1. RequestsRefer'
    BY <1>0, <1>5, EndRefers DEF CreatePending
  <2> DEFINE row == [inv |-> tx[t].inv, status |-> "PENDING", times |-> 0]
  <2>2. row \in PayRow /\ tx[t].pay \in Payments \cup {None}
    BY <1>0 DEF PayRow, RequestsRefer, Refers
  <2>3. pay' = [pay EXCEPT ![tx[t].pay] = row] /\ notice' = notice
    BY <1>5 DEF CreatePending
  <2> QED BY <2>1, <2>2, <2>3, PaymentWritten
<1> QED BY <1>1, <1>2, <1>3, <1>4, <1>5 DEF TakeMoney

\* A pending payment that is refused.
LEMMA RejectKeepsPayments ==
  ASSUME PaymentInvariant, RequestsRefer', notice' = notice, NEW p \in Payments \cup {None},
         pay[p].status = "PENDING", pay' = [pay EXCEPT ![p].status = "REJECTED"]
  PROVE  PaymentInvariant'
<1>1. CASE p \in Payments
  <2> DEFINE row == [pay[p] EXCEPT !.status = "REJECTED"]
  <2>1. pay[p] \in PayRow /\ pay[p].times = 0
    BY <1>1 DEF PaymentInvariant, Rows, EachPaymentCountsOnce
  <2>2. row \in PayRow /\ row.times = 0 /\ row.status = "REJECTED"
    BY <2>1 DEF PayRow
  <2>3. pay' = [pay EXCEPT ![p] = row]
    OBVIOUS
  <2>4. row.times = IF row.status = "CONFIRMED" THEN 1 ELSE 0
    BY <2>2
  <2> HIDE DEF row
  <2> QED BY <2>2, <2>3, <2>4, PaymentWritten
<1>2. CASE p \notin Payments
  <2>1. pay' = pay
    BY <1>2 DEF PaymentInvariant, Rows
  <2> QED BY <2>1, PaymentsUntouched
<1> QED BY <1>1, <1>2

LEMMA FinishKeepsPayments ==
  ASSUME PaymentInvariant, NEW t \in Actors, Finish(t) PROVE PaymentInvariant'
<1> USE DEF Outside, ReadOnly, rows, external
<1>0. RequestsRefer /\ tx[t].inv \in Invoices \cup {None} /\ tx[t].pay \in Payments \cup {None}
  BY DEF PaymentInvariant, Rows, RequestsRefer, Refers
<1>1. CASE RejectFailed(t)
  <2>1. RequestsRefer' /\ notice' = notice
    BY <1>0, <1>1, EndRefers DEF RejectFailed
  <2>2. CASE pay[tx[t].pay].status = "PENDING"
    BY <1>0, <1>1, <2>1, <2>2, RejectKeepsPayments DEF RejectFailed
  <2>3. CASE pay[tx[t].pay].status # "PENDING"
    BY <1>1, <2>1, <2>3, PaymentsUntouched DEF RejectFailed
  <2> QED BY <2>2, <2>3
<1>2. CASE LockReconciled(t)
  <2>1. RequestsRefer'
    BY <1>0, <1>2, LockRefers DEF LockReconciled
  <2> QED BY <1>2, <2>1, PaymentsUntouched DEF LockReconciled, Lock
<1>3. CASE Settle(t)
  <2> DEFINE p == tx[t].pay
  <2>1. RequestsRefer' /\ notice' = notice
    BY <1>0, <1>3, EndRefers DEF Settle
  <2>2. CASE ~Counts(tx[t].op, p)
    BY <1>3, <2>1, <2>2, PaymentsUntouched DEF Settle
  <2>3. CASE Counts(tx[t].op, p) /\ p \in Payments
    <3> DEFINE row == [inv |-> tx[t].inv, status |-> "CONFIRMED", times |-> pay[p].times + 1]
    <3>1. pay[p] \in PayRow /\ pay[p].times = 0
      BY <2>3 DEF PaymentInvariant, Rows, EachPaymentCountsOnce, Counts
    <3>2. row \in PayRow /\ row.times = 1 /\ row.status = "CONFIRMED"
      BY <1>0, <3>1 DEF PayRow
    <3>3. pay' = [pay EXCEPT ![p] = row]
      BY <1>3, <2>3 DEF Settle
    <3> QED BY <2>1, <2>3, <3>2, <3>3, PaymentWritten
  <2>4. CASE Counts(tx[t].op, p) /\ p \notin Payments
    <3>1. pay' = pay
      BY <1>3, <2>4 DEF Settle, PaymentInvariant, Rows
    <3> QED BY <2>1, <3>1, PaymentsUntouched
  <2> QED BY <2>2, <2>3, <2>4
<1>4. CASE LeaveMismatched(t)
  <2>1. RequestsRefer'
    BY <1>0, <1>4, EndRefers DEF LeaveMismatched
  <2> QED BY <1>4, <2>1, PaymentsUntouched DEF LeaveMismatched
<1> QED BY <1>1, <1>2, <1>3, <1>4 DEF Finish

LEMMA EnvironmentKeepsPayments ==
  ASSUME PaymentInvariant, Environment PROVE PaymentInvariant'
<1> USE DEF rows, external
<1>0. RequestsRefer
  BY DEF PaymentInvariant, Rows
<1>1. CASE \E p \in Prompts : CustomerAnswers(p)
  BY <1>0, <1>1, PaymentsUntouched DEF CustomerAnswers, RequestsRefer
<1>2. CASE \E p \in Transfers, i \in Invoices : BankNotifies(p, i)
  <2>1. RequestsRefer' /\ pay' = pay /\ notice' \in [Transfers -> Invoices \cup {None}]
    BY <1>0, <1>2 DEF BankNotifies, RequestsRefer, PaymentInvariant, Rows
  <2> QED BY <2>1 DEF PaymentInvariant, Rows, EachPaymentCountsOnce
<1>3. CASE \E t \in Actors : Crash(t)
  <2>1. RequestsRefer'
    BY <1>0, <1>3, EndRefers DEF Crash
  <2> QED BY <1>3, <2>1, PaymentsUntouched DEF Crash
<1> QED BY <1>1, <1>2, <1>3 DEF Environment

LEMMA PaymentNext == PaymentInvariant /\ [Next]_vars => PaymentInvariant'
<1> SUFFICES ASSUME PaymentInvariant, [Next]_vars PROVE PaymentInvariant'
  OBVIOUS
<1>0. RequestsRefer
  BY DEF PaymentInvariant, Rows
<1>1. CASE Review \/ Resubmit
  <2>1. tx' = tx /\ pay' = pay /\ notice' = notice
    BY <1>1 DEF Review, Resubmit, Move, Outside, external
  <2> QED BY <1>0, <2>1, PaymentsUntouched DEF RequestsRefer
<1>2. CASE \E t \in Clerks : Sales(t) \/ Accounts(t) \/ TakeMoney(t)
  BY <1>2, SalesKeepsPayments, AccountsKeepsPayments, TakeMoneyKeepsPayments
<1>3. CASE \E p \in Prompts : RejectPending(p)
  <2>1. PICK p \in Prompts : RejectPending(p)
    BY <1>3
  <2>2. RequestsRefer' /\ notice' = notice
    BY <1>0, <2>1 DEF RejectPending, Outside, external, RequestsRefer
  <2> QED BY <2>1, <2>2, RejectKeepsPayments DEF RejectPending, Payments
<1>4. CASE \E t \in Actors, p \in Prompts : Reconcile(t, p)
  <2>1. RequestsRefer'
    BY <1>0, <1>4, BeginRefers DEF Reconcile, Payments, PaymentInvariant, Rows, PayRow
  <2> QED BY <1>4, <2>1, PaymentsUntouched DEF Reconcile, ReadOnly, Outside, rows, external
<1>5. CASE \E t \in Actors : Finish(t)
  BY <1>5, FinishKeepsPayments
<1>6. CASE Environment
  BY <1>6, EnvironmentKeepsPayments
<1>7. CASE UNCHANGED vars
  BY <1>0, <1>7, PaymentsUntouched DEF vars, rows, external, RequestsRefer
<1> QED BY <1>1, <1>2, <1>3, <1>4, <1>5, <1>6, <1>7 DEF Next

\* However the job, webhooks, callbacks and accounts race for a payment, and whatever callbacks
\* are repeated, it is confirmed once or not at all.
THEOREM PaymentsCountOnce == Spec => []EachPaymentCountsOnce
<1>1. PaymentInvariant => EachPaymentCountsOnce
  BY DEF PaymentInvariant
<1> QED BY PaymentInit, PaymentNext, <1>1, PTL DEF Spec

-----------------------------------------------------------------------------
(* One invoice in force *)

InvoiceRows == DOMAIN inv = Invoices /\ \A i \in Invoices : "status" \in DOMAIN inv[i]

Issuing(t) == tx[t].op = "issue"

\* One invoice in force; one request that is about to make one, and only while there is none.
Single ==
    /\ \A i, j \in Invoices : Live(i) /\ Live(j) => i = j
    /\ \A t, u \in Actors : Issuing(t) /\ Issuing(u) => t = u
    /\ \A t \in Actors : Issuing(t) => \A i \in Invoices : ~Live(i)

InvoiceInvariant ==
    /\ PaymentInvariant
    /\ InvoiceRows
    /\ overlapped \/ revived # {} \/ Single

\* Steps that bring no invoice into force, begin no invoice and forget nothing.
LEMMA FewerInForce ==
  ASSUME InvoiceInvariant, PaymentInvariant', InvoiceRows',
         \A i \in Invoices : Live(i)' => Live(i),
         \A t \in Actors : Issuing(t)' => Issuing(t),
         overlapped => overlapped', revived \subseteq revived'
  PROVE  InvoiceInvariant'
<1>1. Single => Single'
  BY DEF Single
<1> QED BY <1>1 DEF InvoiceInvariant

\* The same, of steps that leave the invoices and what has happened alone.
LEMMA InvoicesUntouched ==
  ASSUME InvoiceInvariant, PaymentInvariant', inv' = inv,
         \A t \in Actors : Issuing(t)' => Issuing(t),
         overlapped => overlapped', revived \subseteq revived'
  PROVE  InvoiceInvariant'
<1>1. InvoiceRows' /\ \A i \in Invoices : Live(i)' => Live(i)
  BY DEF InvoiceInvariant, InvoiceRows, Live
<1> QED BY <1>1, FewerInForce

LEMMA EndsNoIssue ==
  ASSUME InvoiceInvariant, NEW t \in Actors, End(t)
  PROVE  \A u \in Actors : Issuing(u)' => u # t /\ Issuing(u)
BY DEF InvoiceInvariant, PaymentInvariant, Rows, RequestsRefer, Issuing, End, Idle

LEMMA BeginsNoIssue ==
  ASSUME InvoiceInvariant, NEW t \in Actors, NEW op, NEW i, NEW p, NEW seen, op # "issue",
         Begin(t, op, i, p, seen)
  PROVE  \A u \in Actors : Issuing(u)' => Issuing(u)
BY DEF InvoiceInvariant, PaymentInvariant, Rows, RequestsRefer, Issuing, Begin

LEMMA LocksNoIssue ==
  ASSUME InvoiceInvariant, NEW t \in Actors, NEW op, NEW i, NEW p, op # "issue", Lock(t, op, i, p)
  PROVE  \A u \in Actors : Issuing(u)' => Issuing(u)
BY DEF InvoiceInvariant, PaymentInvariant, Rows, RequestsRefer, Issuing, Lock

LEMMA InvoiceInit == Init => InvoiceInvariant
<1> SUFFICES ASSUME Init PROVE InvoiceInvariant
  OBVIOUS
<1>1. InvoiceRows
  BY DEF Init, InvoiceRows, Unused
<1>2. Single
  BY DEF Init, Single, Live, Unused, Issuing, Idle, Away
<1> QED BY <1>1, <1>2, PaymentInit DEF InvoiceInvariant

LEMMA SalesKeepsInvoices ==
  ASSUME InvoiceInvariant, PaymentInvariant', NEW t \in Clerks, Sales(t) PROVE InvoiceInvariant'
<1> USE DEF Outside, ReadOnly, rows, history
<1>0. t \in Actors
  BY DEF Actors
<1>1. CASE UpdateOrder(t)
  BY <1>0, <1>1, BeginsNoIssue, InvoicesUntouched DEF UpdateOrder
<1>2. CASE CancelOrder(t)
  BY <1>0, <1>2, BeginsNoIssue, InvoicesUntouched DEF CancelOrder
<1>3. CASE WriteOrder(t)
  BY <1>0, <1>3, EndsNoIssue, InvoicesUntouched DEF WriteOrder
<1>4. CASE WriteCancelled(t)
  <2>1. InvoiceRows' /\ \A i \in Invoices : Live(i)' => Live(i)
    BY <1>4 DEF WriteCancelled, InvoiceInvariant, InvoiceRows, Live
  <2>2. \A u \in Actors : Issuing(u)' => Issuing(u)
    BY <1>0, <1>4, EndsNoIssue DEF WriteCancelled
  <2> QED BY <1>4, <2>1, <2>2, FewerInForce DEF WriteCancelled
<1> QED BY <1>1, <1>2, <1>3, <1>4 DEF Sales

LEMMA AccountsKeepsInvoices ==
  ASSUME InvoiceInvariant, PaymentInvariant', NEW t \in Clerks, Accounts(t) PROVE InvoiceInvariant'
<1> USE DEF Outside, ReadOnly, rows, history
<1>0. t \in Actors
  BY DEF Actors
<1>1. CASE IssueInvoice(t)
  <2>1. inv' = inv /\ revived' = revived /\ \A i \in Invoices : ~Live(i)
    BY <1>1 DEF IssueInvoice
  <2>2. \A u \in Actors : u # t => tx'[u] = tx[u]
    BY <1>0, <1>1 DEF IssueInvoice, Begin, InvoiceInvariant, PaymentInvariant, Rows, RequestsRefer
  <2>3. CASE \E u \in Actors : Issuing(u)
    <3>1. overlapped'
      BY <1>1, <2>3 DEF IssueInvoice, Issuing
    <3> QED BY <2>1, <3>1 DEF InvoiceInvariant, InvoiceRows
  <2>4. CASE \A u \in Actors : ~Issuing(u)
    <3>1. \A u \in Actors : Issuing(u)' => u = t
      BY <2>2, <2>4 DEF Issuing
    <3>2. Single'
      BY <2>1, <3>1 DEF Single, Live
    <3> QED BY <2>1, <3>2 DEF InvoiceInvariant, InvoiceRows
  <2> QED BY <2>3, <2>4
<1>2. CASE CreateInvoice(t)
  <2>1. PICK i \in Invoices : inv' = [inv EXCEPT ![i] = [status |-> "ISSUED", total |-> tx[t].seen, paid |-> 0]]
    BY <1>2 DEF CreateInvoice
  <2>2. Issuing(t) /\ overlapped' = overlapped /\ revived' = revived
    BY <1>2 DEF CreateInvoice, Issuing
  <2>3. \A u \in Actors : Issuing(u)' => u # t /\ Issuing(u)
    BY <1>0, <1>2, EndsNoIssue DEF CreateInvoice
  <2>4. InvoiceRows' /\ \A j \in Invoices : j # i => (Live(j)' <=> Live(j))
    BY <2>1 DEF InvoiceInvariant, InvoiceRows, Live
  <2>5. Single => Single'
    BY <1>0, <2>2, <2>3, <2>4 DEF Single
  <2> QED BY <2>2, <2>4, <2>5 DEF InvoiceInvariant
<1>3. CASE WriteVoid(t)
  <2>1. InvoiceRows' /\ \A i \in Invoices : Live(i)' => Live(i)
    BY <1>3 DEF WriteVoid, InvoiceInvariant, InvoiceRows, Live
  <2>2. \A u \in Actors : Issuing(u)' => Issuing(u)
    BY <1>0, <1>3, EndsNoIssue DEF WriteVoid
  <2> QED BY <1>3, <2>1, <2>2, FewerInForce DEF WriteVoid
<1>4. CASE \E i \in Invoices : VoidInvoice(t, i)
  BY <1>0, <1>4, BeginsNoIssue, InvoicesUntouched DEF VoidInvoice
<1>5. CASE Authorize(t)
  <2>1. (IF order.pay = "PAID" THEN "authorize" ELSE "override") # "issue"
    OBVIOUS
  <2> QED BY <1>0, <1>5, <2>1, BeginsNoIssue, InvoicesUntouched DEF Authorize
<1>6. CASE RevokeAuthorization(t)
  BY <1>0, <1>6, BeginsNoIssue, InvoicesUntouched DEF RevokeAuthorization
<1>7. CASE ClaimAuthorized(t) \/ WriteRevoked(t)
  BY <1>0, <1>7, EndsNoIssue, InvoicesUntouched DEF ClaimAuthorized, WriteRevoked
<1> QED BY <1>1, <1>2, <1>3, <1>4, <1>5, <1>6, <1>7 DEF Accounts

LEMMA TakeMoneyKeepsInvoices ==
  ASSUME InvoiceInvariant, PaymentInvariant', NEW t \in Clerks, TakeMoney(t) PROVE InvoiceInvariant'
<1> USE DEF Outside, ReadOnly, rows, history
<1>0. t \in Actors
  BY DEF Actors
<1>1. CASE \E p \in Slips, i \in Invoices : RecordPayment(t, p, i)
  <2>1. PICK p \in Slips, i \in Invoices : Lock(t, "record", i, p)
    BY <1>1 DEF RecordPayment
  <2> QED BY <1>0, <2>1, LocksNoIssue, InvoicesUntouched DEF Lock
<1>2. CASE \E p \in Prompts, i \in Invoices : InitiateMobilePayment(t, p, i)
  BY <1>0, <1>2, BeginsNoIssue, InvoicesUntouched DEF InitiateMobilePayment
<1>3. CASE \E p \in Prompts : ConfirmPending(t, p)
  <2>1. PICK p \in Prompts : Lock(t, "confirm", pay[p].inv, p)
    BY <1>3 DEF ConfirmPending
  <2> QED BY <1>0, <2>1, LocksNoIssue, InvoicesUntouched DEF Lock
<1>4. CASE \E p \in Transfers : HandleCallback(t, p)
  <2>1. PICK p \in Transfers : Lock(t, "callback", notice[p], p)
    BY <1>4 DEF HandleCallback
  <2> QED BY <1>0, <2>1, LocksNoIssue, InvoicesUntouched DEF Lock
<1>5. CASE CreatePending(t)
  BY <1>0, <1>5, EndsNoIssue, InvoicesUntouched DEF CreatePending
<1> QED BY <1>1, <1>2, <1>3, <1>4, <1>5 DEF TakeMoney

LEMMA FinishKeepsInvoices ==
  ASSUME InvoiceInvariant, PaymentInvariant', NEW t \in Actors, Finish(t) PROVE InvoiceInvariant'
<1> USE DEF Outside, rows, history
<1>1. CASE RejectFailed(t)
  BY <1>1, EndsNoIssue, InvoicesUntouched DEF RejectFailed
<1>2. CASE LockReconciled(t)
  <2>1. Lock(t, "reconcile", tx[t].inv, tx[t].pay)
    BY <1>2 DEF LockReconciled
  <2> QED BY <2>1, LocksNoIssue, InvoicesUntouched DEF Lock
<1>3. CASE Settle(t)
  <2> DEFINE i == tx[t].inv
  <2>1. (\A u \in Actors : Issuing(u)' => Issuing(u)) /\ overlapped' = overlapped
    BY <1>3, EndsNoIssue DEF Settle
  <2>2. CASE inv' = inv /\ revived' = revived
    BY <2>1, <2>2, InvoicesUntouched
  <2>3. CASE /\ inv' = [inv EXCEPT ![i] = Totalled(i, tx[t].seen, Amount[tx[t].pay])]
             /\ revived' = IF Live(i) THEN revived ELSE revived \cup {i}
    <3>1. InvoiceRows'
      BY <2>3 DEF InvoiceInvariant, InvoiceRows, Totalled
    <3>2. \A j \in Invoices : j # i => (Live(j)' <=> Live(j))
      BY <2>3 DEF InvoiceInvariant, InvoiceRows, Live
    <3>3. CASE Live(i)
      BY <2>1, <2>3, <3>1, <3>2, <3>3, FewerInForce
    <3>4. CASE ~Live(i)
      BY <2>3, <3>1, <3>4 DEF InvoiceInvariant
    <3> QED BY <3>3, <3>4
  <2> QED BY <1>3, <2>2, <2>3 DEF Settle
<1>4. CASE LeaveMismatched(t)
  BY <1>4, EndsNoIssue, InvoicesUntouched DEF LeaveMismatched
<1> QED BY <1>1, <1>2, <1>3, <1>4 DEF Finish

LEMMA InvoiceNext == InvoiceInvariant /\ [Next]_vars => InvoiceInvariant'
<1> SUFFICES ASSUME InvoiceInvariant, [Next]_vars PROVE InvoiceInvariant'
  OBVIOUS
<1> USE DEF Outside, rows, history
<1>0. PaymentInvariant'
  BY PaymentNext DEF InvoiceInvariant
<1>1. CASE Review \/ Resubmit
  BY <1>0, <1>1, InvoicesUntouched DEF Review, Resubmit, Move, Issuing
<1>2. CASE \E t \in Clerks : Sales(t) \/ Accounts(t) \/ TakeMoney(t)
  BY <1>0, <1>2, SalesKeepsInvoices, AccountsKeepsInvoices, TakeMoneyKeepsInvoices
<1>3. CASE \E p \in Prompts : RejectPending(p)
  BY <1>0, <1>3, InvoicesUntouched DEF RejectPending, Issuing
<1>4. CASE \E t \in Actors, p \in Prompts : Reconcile(t, p)
  BY <1>0, <1>4, BeginsNoIssue, InvoicesUntouched DEF Reconcile, ReadOnly
<1>5. CASE \E t \in Actors : Finish(t)
  BY <1>0, <1>5, FinishKeepsInvoices
<1>6. CASE Environment
  <2>1. CASE \E p \in Prompts : CustomerAnswers(p)
    BY <1>0, <2>1, InvoicesUntouched DEF CustomerAnswers, Issuing
  <2>2. CASE \E p \in Transfers, i \in Invoices : BankNotifies(p, i)
    BY <1>0, <2>2, InvoicesUntouched DEF BankNotifies, Issuing
  <2>3. CASE \E t \in Actors : Crash(t)
    BY <1>0, <2>3, EndsNoIssue, InvoicesUntouched DEF Crash
  <2> QED BY <1>6, <2>1, <2>2, <2>3 DEF Environment
<1>7. CASE UNCHANGED vars
  BY <1>0, <1>7, InvoicesUntouched DEF vars, Issuing
<1> QED BY <1>1, <1>2, <1>3, <1>4, <1>5, <1>6, <1>7 DEF Next

LEMMA SingleMeansOne == InvoiceInvariant => OneInvoiceInForce
<1> SUFFICES ASSUME InvoiceInvariant, ~overlapped, revived = {}
             PROVE  Cardinality({i \in Invoices : Live(i)}) <= 1
  BY DEF OneInvoiceInForce
<1> DEFINE S == {i \in Invoices : Live(i)}
<1>1. CASE S = {}
  BY <1>1, FS_EmptySet
<1>2. CASE S # {}
  <2>1. PICK i \in Invoices : S = {i}
    BY <1>2 DEF InvoiceInvariant, Single
  <2> QED BY <2>1, FS_Singleton
<1> QED BY <1>1, <1>2

\* An order has two invoices in force only after two requests to invoice it have been under way
\* at once, or money has been confirmed on one that was void.
THEOREM OneInvoice == Spec => []OneInvoiceInForce
BY InvoiceInit, InvoiceNext, SingleMeansOne, PTL DEF Spec
=============================================================================
