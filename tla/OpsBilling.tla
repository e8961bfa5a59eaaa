---- MODULE OpsBilling ----
(***************************************************************************)
(* Review, invoicing, payment and release of one operations order:         *)
(* ops/sales-ops.service.ts and ops/billing.service.ts.  Every request is  *)
(* a transaction that reads first and writes at its end; between the two   *)
(* only the row of the invoice is locked, and only by the operations that  *)
(* take money in.  The mobile-money provider and the bank are external.    *)
(***************************************************************************)
EXTENDS Integers, FiniteSets, Functions

CONSTANTS
    Invoices,    \* bound: invoices that can be issued
    Slips,       \* payments accounts record themselves, by their reference
    Prompts,     \* mobile-money prompts, by their reference
    Transfers,   \* payments a bank or gateway reports, by their reference
    Amount,      \* [Slips \cup Prompts \cup Transfers -> what is paid]
    Totals,      \* the totals an order may be corrected to
    Cases,       \* bound: the orders looked at, as records [total, payments, clerks, crashes]:
                 \* the total asked for, the payments that are made, who works on it, and how
                 \* many requests die
    Clerks, Job, \* people's requests under way, and the ten-minute reconciliation job
    None

Payments == Slips \cup Prompts \cup Transfers
Actors == Clerks \cup {Job}

ASSUME PaymentsAssumption ==
    /\ Slips \cap Prompts = {} /\ Slips \cap Transfers = {} /\ Prompts \cap Transfers = {}
    /\ IsFiniteSet(Invoices) /\ IsFiniteSet(Payments) /\ Amount \in [Payments -> Nat \ {0}]
    /\ Totals \subseteq Nat \ {0}
    /\ None \notin Invoices \cup Payments \cup Actors /\ Job \notin Clerks
    /\ Cases \subseteq [total : Totals, payments : SUBSET Payments, clerks : SUBSET Clerks,
                  crashes : Nat]

VARIABLES
    order,       \* OpsOrder
    inv,         \* OpsInvoice, "unused" before it is issued
    pay,         \* OpsPayment: its row by reference; times is how many rows are confirmed
    books,       \* what the ledger holds of an invoice and of its payments
    lock,        \* who holds the row lock of an invoice
    tx,          \* requests under way, with what they have read
    answer,      \* external: what the customer did with a prompt
    notice,      \* external: the invoice a transfer is reported for
    crashesLeft,
    \* history
    overlapped,  \* two requests to invoice the order have been under way at once
    revived,     \* invoices that were void when money on them was confirmed
    unbooked,    \* invoices voided with their order
    lateEdit     \* the order was corrected after it had left the salesperson

rows == <<order, inv, pay, books>>
external == <<answer, notice>>
history == <<overlapped, revived, unbooked, lateEdit>>
vars == <<rows, lock, tx, external, crashesLeft, history>>

Idle == [op |-> "idle", inv |-> None, pay |-> None, seen |-> 0]
Away == [Idle EXCEPT !.op = "away"]
Unused == [status |-> "unused", total |-> 0, paid |-> 0]

Init ==
    /\ \E case \in Cases :
          /\ order = [status |-> "PENDING", total |-> case.total, paid |-> 0, pay |-> "UNPAID",
                      fulfil |-> "NOT_AUTHORIZED", override |-> FALSE]
          /\ pay = [p \in Payments |-> [inv |-> None, times |-> 0,
                       status |-> IF p \in case.payments THEN "none" ELSE "unneeded"]]
          /\ tx = [t \in Actors |-> IF t \in Clerks \ case.clerks THEN Away ELSE Idle]
          /\ crashesLeft = case.crashes
    /\ inv = [i \in Invoices |-> Unused]
    /\ books = [i \in Invoices |-> [due |-> 0, cash |-> 0]]
    /\ lock = [i \in Invoices |-> None]
    /\ answer = [p \in Prompts |-> "none"] /\ notice = [p \in Transfers |-> None]
    /\ overlapped = FALSE /\ revived = {} /\ unbooked = {} /\ lateEdit = FALSE

----------------------------------------------------------------------------
(* Helpers *)

Live(i) == inv[i].status \notin {"unused", "VOID"}
Balance(i) == inv[i].total - inv[i].paid

\* The confirmed payments of an invoice, added up.
Money(i) == SumFunctionOnSet([p \in Payments |-> pay[p].times * Amount[p]], {p \in Payments : pay[p].inv = i})

\* paymentState
PaymentState(total, paid) ==
    IF paid = 0 THEN "UNPAID" ELSE IF paid >= total THEN "PAID" ELSE "PARTIALLY_PAID"

\* As Booked would be if a void invoice stayed in the books.
BookedAlways(row) == [due |-> row.total, cash |-> row.paid]

\* book: what the books hold of an invoice with these totals and this status.
Booked(row) == [due |-> IF row.status = "VOID" THEN 0 ELSE row.total, cash |-> row.paid]

Begin(t, op, i, p, seen) ==
    /\ tx[t] = Idle
    /\ tx' = [tx EXCEPT ![t] = [op |-> op, inv |-> i, pay |-> p, seen |-> seen]]
End(t) == tx' = [tx EXCEPT ![t] = Idle]

Outside == UNCHANGED <<external, crashesLeft>>
ReadOnly == UNCHANGED <<rows, lock, history>> /\ Outside

\* As LockFree would be without the row lock.
NoRowLock(i) == TRUE
LockFree(i) == lock[i] = None

\* lockInvoice and the reading of what has been paid so far.
Lock(t, op, i, p) ==
    /\ LockFree(i)
    /\ lock' = [lock EXCEPT ![i] = t]
    /\ tx' = [tx EXCEPT ![t] = [op |-> op, inv |-> i, pay |-> p, seen |-> Money(i)]]
    /\ UNCHANGED <<rows, history>> /\ Outside

----------------------------------------------------------------------------
(* Review and correction *)

\* review and resubmit claim the order in the state they expect.
Move(from, to) ==
    /\ order.status = from
    /\ order' = [order EXCEPT !.status = to]
    /\ UNCHANGED <<inv, pay, books, lock, tx, history>> /\ Outside

Review == Move("PENDING", "APPROVED") \/ Move("PENDING", "RETURNED")
Resubmit == Move("RETURNED", "PENDING")

UpdateOrder(t) ==
    /\ order.status = "RETURNED"
    /\ \E total \in Totals : Begin(t, "update", None, None, total)
    /\ ReadOnly

\* The lines and totals are written whatever the order has become.
WriteOrder(t) ==
    /\ tx[t].op = "update" /\ End(t)
    /\ order' = [order EXCEPT !.total = tx[t].seen]
    /\ lateEdit' = (lateEdit \/ order.status # "RETURNED")
    /\ UNCHANGED <<inv, pay, books, lock, overlapped, revived, unbooked>> /\ Outside

CancelOrder(t) ==
    /\ order.status # "CANCELLED" /\ order.paid = 0
    /\ Begin(t, "cancel", None, None, 0)
    /\ ReadOnly

\* Invoices are voided without book.
WriteCancelled(t) ==
    LET live == {i \in Invoices : Live(i)}
    IN /\ tx[t].op = "cancel" /\ \A i \in live : LockFree(i)
       /\ End(t)
       /\ order' = [order EXCEPT !.status = "CANCELLED", !.fulfil = "NOT_AUTHORIZED"]
       /\ inv' = [i \in Invoices |-> IF i \in live THEN [inv[i] EXCEPT !.status = "VOID"] ELSE inv[i]]
       /\ unbooked' = unbooked \cup live
       /\ UNCHANGED <<pay, books, lock, overlapped, revived, lateEdit>> /\ Outside

----------------------------------------------------------------------------
(* Invoices *)

\* As IssueInvoice would be without the count of the order's invoices.
IssueAnother(t) ==
    /\ order.status \in {"APPROVED", "INVOICED"}
    /\ Begin(t, "issue", None, None, order.total)
    /\ overlapped' = (overlapped \/ \E u \in Actors : tx[u].op = "issue")
    /\ UNCHANGED <<rows, lock, revived, unbooked, lateEdit>> /\ Outside

IssueInvoice(t) ==
    /\ order.status = "APPROVED" /\ \A i \in Invoices : ~Live(i)
    /\ Begin(t, "issue", None, None, order.total)
    /\ overlapped' = (overlapped \/ \E u \in Actors : tx[u].op = "issue")
    /\ UNCHANGED <<rows, lock, revived, unbooked, lateEdit>> /\ Outside

CreateInvoice(t) ==
    /\ tx[t].op = "issue" /\ End(t)
    /\ \E i \in Invoices :
          /\ inv[i] = Unused
          /\ inv' = [inv EXCEPT ![i] = [status |-> "ISSUED", total |-> tx[t].seen, paid |-> 0]]
          /\ books' = [books EXCEPT ![i] = Booked(inv'[i])]
    /\ order' = [order EXCEPT !.status = "INVOICED"]
    /\ UNCHANGED <<pay, lock, history>> /\ Outside

VoidInvoice(t, i) ==
    /\ Live(i) /\ inv[i].paid = 0
    /\ Begin(t, "void", i, None, 0)
    /\ ReadOnly

WriteVoid(t) ==
    LET i == tx[t].inv
    IN /\ tx[t].op = "void" /\ LockFree(i) /\ End(t)
       /\ IF Live(i)
          THEN /\ inv' = [inv EXCEPT ![i].status = "VOID"]
               /\ books' = [books EXCEPT ![i] = Booked(inv'[i])]
               /\ order' = IF order.status = "INVOICED"
                           THEN [order EXCEPT !.status = "APPROVED", !.fulfil = "NOT_AUTHORIZED"]
                           ELSE order
          ELSE UNCHANGED <<inv, books, order>>
       /\ UNCHANGED <<pay, lock, history>> /\ Outside

----------------------------------------------------------------------------
(* Payments *)

RecordPayment(t, p, i) ==
    /\ tx[t] = Idle /\ pay[p].status # "unneeded" /\ Live(i) /\ Amount[p] <= Balance(i)
    /\ Lock(t, "record", i, p)

HandleCallback(t, p) ==
    /\ tx[t] = Idle /\ notice[p] # None /\ Live(notice[p])
    /\ Lock(t, "callback", notice[p], p)

\* The prompt goes to the customer's phone before its row exists.
InitiateMobilePayment(t, p, i) ==
    /\ answer[p] = "none" /\ pay[p].status # "unneeded" /\ Live(i) /\ Amount[p] <= Balance(i)
    /\ Begin(t, "prompt", i, p, 0)
    /\ answer' = [answer EXCEPT ![p] = "asked"]
    /\ UNCHANGED <<rows, lock, notice, crashesLeft, history>>

CreatePending(t) ==
    /\ tx[t].op = "prompt" /\ End(t)
    /\ pay' = [pay EXCEPT ![tx[t].pay] = [inv |-> tx[t].inv, status |-> "PENDING", times |-> 0]]
    /\ UNCHANGED <<order, inv, books, lock, history>> /\ Outside

ConfirmPending(t, p) ==
    /\ tx[t] = Idle /\ pay[p].status \notin {"none", "unneeded"} /\ Amount[p] <= Balance(pay[p].inv)
    /\ Lock(t, "confirm", pay[p].inv, p)

RejectPending(p) ==
    /\ pay[p].status = "PENDING"
    /\ pay' = [pay EXCEPT ![p].status = "REJECTED"]
    /\ UNCHANGED <<order, inv, books, lock, tx, history>> /\ Outside

\* As Reconcile would be if it left a failed prompt as it is.
ReconcilePaid(t, p) ==
    /\ pay[p].status = "PENDING" /\ answer[p] \in {"paid", "otherAmount"}
    /\ Begin(t, "query", pay[p].inv, p, 0)
    /\ ReadOnly

\* reconcileClickPesa and reconcilePendingJob: the provider is asked before the invoice is locked.
Reconcile(t, p) ==
    /\ pay[p].status = "PENDING" /\ answer[p] \in {"paid", "otherAmount", "failed"}
    /\ Begin(t, "query", pay[p].inv, p, 0)
    /\ ReadOnly

RejectFailed(t) ==
    LET p == tx[t].pay
    IN /\ tx[t].op = "query" /\ answer[p] = "failed" /\ End(t)
       /\ pay' = IF pay[p].status = "PENDING" THEN [pay EXCEPT ![p].status = "REJECTED"] ELSE pay
       /\ UNCHANGED <<order, inv, books, lock, history>> /\ Outside

\* Another amount than the payment's was collected: people are told, and the payment stays pending.
LeaveMismatched(t) ==
    /\ tx[t].op = "query" /\ answer[tx[t].pay] = "otherAmount" /\ End(t)
    /\ UNCHANGED <<rows, lock, history>> /\ Outside

LockReconciled(t) ==
    /\ tx[t].op = "query" /\ answer[tx[t].pay] = "paid"
    /\ Lock(t, "reconcile", tx[t].inv, tx[t].pay)

\* As Counts would be without the unique index.
CountsAgain(op, p) == op \in {"record", "callback"} \/ pay[p].status = "PENDING"

\* A reference is recorded once (the unique index), a pending payment is claimed once.
Counts(op, p) == IF op \in {"record", "callback"} THEN pay[p].times = 0 ELSE pay[p].status = "PENDING"

\* As Totalled would be without the payments confirmed before.
TotalledAlone(i, seen, amount) == [inv[i] EXCEPT !.paid = amount, !.status = PaymentState(inv[i].total, amount)]

\* applyTotals: what the invoice is after the payments read under the lock and this one.
Totalled(i, seen, amount) ==
    LET paid == seen + amount
        state == PaymentState(inv[i].total, paid)
    IN [inv[i] EXCEPT !.paid = paid, !.status = IF state = "UNPAID" THEN "ISSUED" ELSE state]

\* The end of the transactions that take money in.
Settle(t) ==
    LET i == tx[t].inv
        p == tx[t].pay
    IN /\ tx[t].op \in {"record", "callback", "confirm", "reconcile"} /\ End(t)
       /\ lock' = [lock EXCEPT ![i] = None]
       /\ IF Counts(tx[t].op, p)
          THEN /\ pay' = [pay EXCEPT ![p] = [inv |-> i, status |-> "CONFIRMED", times |-> @.times + 1]]
               /\ inv' = [inv EXCEPT ![i] = Totalled(i, tx[t].seen, Amount[p])]
               /\ order' = [order EXCEPT !.paid = inv'[i].paid,
                                         !.pay = PaymentState(inv[i].total, inv'[i].paid)]
               /\ books' = [books EXCEPT ![i] = Booked(inv'[i])]
               /\ revived' = IF Live(i) THEN revived ELSE revived \cup {i}
          ELSE UNCHANGED <<pay, inv, order, books, revived>>
       /\ UNCHANGED <<overlapped, unbooked, lateEdit>> /\ Outside

----------------------------------------------------------------------------
(* Release to the warehouse *)

\* As Authorize would be if a part payment were enough.
AuthorizeOnAnyPayment(t) ==
    /\ order.status = "INVOICED" /\ order.fulfil = "NOT_AUTHORIZED"
    /\ Begin(t, IF order.pay # "UNPAID" THEN "authorize" ELSE "override", None, None, 0)
    /\ ReadOnly

\* An order that is not fully paid needs a manager's reason.
Authorize(t) ==
    /\ order.status = "INVOICED" /\ order.fulfil = "NOT_AUTHORIZED"
    /\ Begin(t, IF order.pay = "PAID" THEN "authorize" ELSE "override", None, None, 0)
    /\ ReadOnly

ClaimAuthorized(t) ==
    /\ tx[t].op \in {"authorize", "override"} /\ End(t)
    /\ order' = IF order.fulfil = "NOT_AUTHORIZED"
                THEN [order EXCEPT !.fulfil = "AUTHORIZED", !.override = (tx[t].op = "override")]
                ELSE order
    /\ UNCHANGED <<inv, pay, books, lock, history>> /\ Outside

RevokeAuthorization(t) ==
    /\ order.fulfil = "AUTHORIZED"
    /\ Begin(t, "revoke", None, None, 0)
    /\ ReadOnly

WriteRevoked(t) ==
    /\ tx[t].op = "revoke" /\ End(t)
    /\ order' = [order EXCEPT !.fulfil = "NOT_AUTHORIZED", !.override = FALSE]
    /\ UNCHANGED <<inv, pay, books, lock, history>> /\ Outside

----------------------------------------------------------------------------
(* The customer, the provider and the bank; requests that die *)

CustomerAnswers(p) ==
    /\ answer[p] = "asked"
    /\ \E a \in {"paid", "otherAmount", "failed"} : answer' = [answer EXCEPT ![p] = a]
    /\ UNCHANGED <<rows, lock, tx, notice, crashesLeft, history>>

BankNotifies(p, i) ==
    /\ notice[p] = None /\ pay[p].status # "unneeded" /\ Live(i)
    /\ notice' = [notice EXCEPT ![p] = i]
    /\ UNCHANGED <<rows, lock, tx, answer, crashesLeft, history>>

\* As Crash would be if the lock of a dead request stayed.
CrashKeepsLock(t) ==
    /\ tx[t] \notin {Idle, Away} /\ crashesLeft > 0
    /\ crashesLeft' = crashesLeft - 1
    /\ End(t)
    /\ UNCHANGED <<rows, lock, external, history>>

\* The database rolls the transaction back and frees its lock.
Crash(t) ==
    /\ tx[t] \notin {Idle, Away} /\ crashesLeft > 0
    /\ crashesLeft' = crashesLeft - 1
    /\ End(t)
    /\ lock' = [i \in Invoices |-> IF lock[i] = t THEN None ELSE lock[i]]
    /\ UNCHANGED <<rows, external, history>>

----------------------------------------------------------------------------

Sales(t) == UpdateOrder(t) \/ WriteOrder(t) \/ CancelOrder(t) \/ WriteCancelled(t)

Accounts(t) ==
    \/ IssueInvoice(t) \/ CreateInvoice(t) \/ WriteVoid(t)
    \/ \E i \in Invoices : VoidInvoice(t, i)
    \/ Authorize(t) \/ ClaimAuthorized(t) \/ RevokeAuthorization(t) \/ WriteRevoked(t)

TakeMoney(t) ==
    \/ \E p \in Slips, i \in Invoices : RecordPayment(t, p, i)
    \/ \E p \in Prompts, i \in Invoices : InitiateMobilePayment(t, p, i)
    \/ \E p \in Prompts : ConfirmPending(t, p)
    \/ \E p \in Transfers : HandleCallback(t, p)
    \/ CreatePending(t)

Finish(t) == RejectFailed(t) \/ LeaveMismatched(t) \/ LockReconciled(t) \/ Settle(t)

Environment ==
    \/ \E p \in Prompts : CustomerAnswers(p)
    \/ \E p \in Transfers, i \in Invoices : BankNotifies(p, i)
    \/ \E t \in Actors : Crash(t)

Next ==
    \/ Review \/ Resubmit
    \/ \E t \in Clerks : Sales(t) \/ Accounts(t) \/ TakeMoney(t)
    \/ \E p \in Prompts : RejectPending(p)
    \/ \E t \in Actors, p \in Prompts : Reconcile(t, p)
    \/ \E t \in Actors : Finish(t)
    \/ Environment

Spec == Init /\ [][Next]_vars

\* The job runs every ten minutes and asks about each pending prompt, and PostgreSQL grants row locks in the order they are asked for.
FairSpec ==
    /\ Spec
    /\ \A p \in Prompts : SF_vars(Reconcile(Job, p))
    /\ SF_vars(LockReconciled(Job))
    /\ \A t \in Actors : WF_vars(RejectFailed(t) \/ LeaveMismatched(t) \/ Settle(t))

----------------------------------------------------------------------------
(* Properties *)

\* Types; a lock is held exactly by a request that takes money in on that invoice.
TypeOK ==
    /\ order \in [status : {"PENDING", "RETURNED", "APPROVED", "INVOICED", "CANCELLED"},
                  total : Totals, paid : Nat, pay : {"UNPAID", "PARTIALLY_PAID", "PAID"},
                  fulfil : {"NOT_AUTHORIZED", "AUTHORIZED"}, override : BOOLEAN]
    /\ inv \in [Invoices -> [status : {"unused", "ISSUED", "PARTIALLY_PAID", "PAID", "VOID"},
                            total : Totals \cup {0}, paid : Nat]]
    /\ pay \in [Payments -> [inv : Invoices \cup {None},
                            status : {"none", "unneeded", "PENDING", "CONFIRMED", "REJECTED"}, times : Nat]]
    /\ books \in [Invoices -> [due : Totals \cup {0}, cash : Nat]]
    /\ lock \in [Invoices -> Actors \cup {None}]
    /\ tx \in [Actors -> [op : {"idle", "away", "update", "cancel", "issue", "void", "record", "callback",
                               "prompt", "confirm", "query", "reconcile", "authorize",
                               "override", "revoke"},
                         inv : Invoices \cup {None}, pay : Payments \cup {None}, seen : Nat]]
    /\ answer \in [Prompts -> {"none", "asked", "paid", "otherAmount", "failed"}]
    /\ notice \in [Transfers -> Invoices \cup {None}]
    /\ crashesLeft \in Nat /\ overlapped \in BOOLEAN /\ lateEdit \in BOOLEAN
    /\ revived \subseteq Invoices /\ unbooked \subseteq Invoices
    /\ \A t \in Actors, i \in Invoices :
          lock[i] = t <=> tx[t].inv = i /\ tx[t].op \in {"record", "callback", "confirm", "reconcile"}

\* What an invoice shows as paid is its confirmed payments added up, however many requests, jobs
\* and callbacks confirm payments at once (applyTotals under the invoice lock).
TotalsAgree == \A i \in Invoices : inv[i].paid = Money(i)

\* A payment counts once, and a rejected one never, whatever callbacks are repeated and however
\* the job, a callback and accounts race for it ("do not count it twice").
EachPaymentCountsOnce == \A p \in Payments : pay[p].times = IF pay[p].status = "CONFIRMED" THEN 1 ELSE 0

\* The order shows the money it has received, as long as all of it is on one invoice.
OrderShowsItsMoney ==
    LET paid == {i \in Invoices : Money(i) > 0}
    IN Cardinality(paid) <= 1 => order.paid = SumFunctionOnSet([i \in Invoices |-> Money(i)], paid)

\* An order the warehouse may prepare without a manager's override has an invoice paid in full
\* ("Full payment is required"), for the order's total unless it was corrected afterwards.
ReleasedIsPaid ==
    order.fulfil = "AUTHORIZED" /\ ~order.override =>
        \E i \in Invoices : /\ inv[i].status # "unused" /\ Money(i) >= inv[i].total
                            /\ lateEdit \/ inv[i].total = order.total

\* An order has one invoice in force, unless two requests made one each at once, or money was
\* confirmed on one that had been voided.
OneInvoiceInForce ==
    Cardinality({i \in Invoices : Live(i)}) <= 1 \/ overlapped \/ revived # {}

\* The books hold the total of every invoice in force, nothing of a void one, and the money
\* received, except for invoices voided with their order.
BooksFollow ==
    \A i \in Invoices \ unbooked :
        books[i] = [due |-> IF Live(i) THEN inv[i].total ELSE 0, cash |-> Money(i)]

\* A prompt the customer has paid as asked, or refused, is settled in the end, by the job if by
\* nobody else, and whatever other prompts stay pending because another amount was collected.
PendingIsSettled ==
    \A p \in Prompts :
        pay[p].status = "PENDING" /\ answer[p] \in {"paid", "failed"} ~> pay[p].status # "PENDING"
====
