----------------------- MODULE OpsBillingMoneyProofs -----------------------
(* Theorems of OpsBilling about the money: what an invoice and its order show as paid, the books, *)
(* and the release of paid orders.                                                                *)
EXTENDS OpsBillingProofs, FiniteSums

OrderRow == [status : {"PENDING", "RETURNED", "APPROVED", "INVOICED", "CANCELLED"},
             total : Totals, paid : Nat, pay : {"UNPAID", "PARTIALLY_PAID", "PAID"},
             fulfil : {"NOT_AUTHORIZED", "AUTHORIZED"}, override : BOOLEAN]
InvRow == [status : {"unused", "ISSUED", "PARTIALLY_PAID", "PAID", "VOID"},
           total : Totals \cup {0}, paid : Nat]
BookRow == [due : Totals \cup {0}, cash : Nat]
MoneyOps == {"record", "callback", "confirm", "reconcile"}
Request == [op : {"idle", "away", "update", "cancel", "issue", "void", "record", "callback", "prompt",
                  "confirm", "query", "reconcile", "authorize", "override", "revoke"},
            inv : Invoices \cup {None}, pay : Payments \cup {None}, seen : Nat]

Used(i) == inv[i].status # "unused"

Tables ==
    /\ order \in OrderRow
    /\ inv \in [Invoices -> InvRow]
    /\ pay \in [Payments -> PayRow]
    /\ books \in [Invoices -> BookRow]
    /\ lock \in [Invoices -> Actors \cup {None}]
    /\ tx \in [Actors -> Request]
    /\ answer \in [Prompts -> {"none", "asked", "paid", "otherAmount", "failed"}]
    /\ notice \in [Transfers -> Invoices \cup {None}]
    /\ crashesLeft \in Nat /\ overlapped \in BOOLEAN /\ lateEdit \in BOOLEAN
    /\ revived \subseteq Invoices /\ unbooked \subseteq Invoices

\* What a request is about: an invoice that has been issued, a payment of the right kind.
Names(r) ==
    /\ r.op \in MoneyOps \cup {"prompt", "query", "void"} => r.inv \in Invoices /\ Used(r.inv)
    /\ r.op \in {"prompt", "query", "confirm", "reconcile"} => r.pay \in Prompts
    /\ r.op = "record" => r.pay \in Slips
    /\ r.op = "callback" => r.pay \in Transfers
    /\ r.op \in {"update", "issue"} => r.seen \in Totals

\* Payments and notices are of invoices that have been issued.
PaymentsName ==
    /\ \A p \in Payments : pay[p].status \notin {"none", "unneeded"} => pay[p].inv \in Invoices /\ Used(pay[p].inv)
    /\ \A p \in Transfers : notice[p] # None => Used(notice[p])

Shape == Tables /\ PaymentsName /\ \A t \in Actors : Names(tx[t])

\* A lock is held exactly by a request that takes money in on that invoice.
LocksHeld == \A t \in Actors, i \in Invoices : lock[i] = t <=> tx[t].inv = i /\ tx[t].op \in MoneyOps

\* A prompt is sent once, so nothing is written over when its row is created.
PromptsOnce ==
    /\ \A p \in Prompts : answer[p] = "none" => pay[p].status \in {"none", "unneeded"}
    /\ \A t \in Actors : tx[t].op = "prompt" => answer[tx[t].pay] # "none" /\ pay[tx[t].pay].status = "none"
    /\ \A t, u \in Actors : tx[t].op = "prompt" /\ tx[u].op = "prompt" /\ tx[t].pay = tx[u].pay => t = u

\* The confirmed payments of an invoice, of these rows.
MoneyIn(ps, i) ==
    SumFunctionOnSet([p \in Payments |-> ps[p].times * Amount[p]], {p \in Payments : ps[p].inv = i})

\* What a request has added up under the lock is what there is.
SeenUnderLock == \A t \in Actors : tx[t].op \in MoneyOps => tx[t].seen = MoneyIn(pay, tx[t].inv)
PaidIsMoney == \A i \in Invoices : inv[i].paid = MoneyIn(pay, i)

\* An invoice is paid in full, for the order's total unless the order was corrected late.
PaidUp ==
    \E i \in Invoices : /\ Used(i) /\ MoneyIn(pay, i) >= inv[i].total
                        /\ lateEdit \/ inv[i].total = order.total

\* An order under review has no invoice, and none on its way.
NoneInReview ==
    order.status \in {"PENDING", "RETURNED"} =>
        (\A i \in Invoices : ~Used(i)) /\ \A t \in Actors : tx[t].op # "issue"

\* Invoices are for the order's total.
ForTheTotal ==
    lateEdit \/ /\ \A i \in Invoices : Used(i) => inv[i].total = order.total
                /\ \A t \in Actors : tx[t].op = "issue" => tx[t].seen = order.total

\* What is said to be paid, and what is released or about to be released as paid, is.
SaidIsPaid ==
    /\ order.pay = "PAID" => PaidUp
    /\ \A t \in Actors : tx[t].op = "authorize" => PaidUp
    /\ order.fulfil = "AUTHORIZED" /\ ~order.override => PaidUp

Releases == NoneInReview /\ ForTheTotal /\ SaidIsPaid

-----------------------------------------------------------------------------
(* Money *)

LEMMA MoneyIs == \A i : Money(i) = MoneyIn(pay, i)
BY DEF Money, MoneyIn

LEMMA Worths ==
  ASSUME NEW ps \in [Payments -> PayRow]
  PROVE  \A p \in Payments : /\ ps[p].times * Amount[p] \in Nat
                             /\ ps[p].times = 0 => ps[p].times * Amount[p] = 0
                             /\ ps[p].times = 1 => ps[p].times * Amount[p] = Amount[p]
<1> SUFFICES ASSUME NEW p \in Payments
             PROVE  /\ ps[p].times * Amount[p] \in Nat
                    /\ ps[p].times = 0 => ps[p].times * Amount[p] = 0
                    /\ ps[p].times = 1 => ps[p].times * Amount[p] = Amount[p]
  OBVIOUS
<1>1. ps[p].times \in Nat /\ Amount[p] \in Nat
  BY PaymentsAssumption DEF PayRow
<1> DEFINE n == ps[p].times
           m == Amount[p]
<1> HIDE DEF n, m
<1>2. n \in Nat /\ m \in Nat
  BY <1>1 DEF n, m
<1>3. n * m \in Nat /\ (n = 0 => n * m = 0) /\ (n = 1 => n * m = m)
  BY <1>2
<1> QED BY <1>3 DEF n, m

LEMMA MoneyNat == ASSUME NEW ps \in [Payments -> PayRow], NEW i PROVE MoneyIn(ps, i) \in Nat
<1> DEFINE f == [p \in Payments |-> ps[p].times * Amount[p]]
           S == {p \in Payments : ps[p].inv = i}
<1>1. \A p \in S : f[p] \in Nat
  BY Worths
<1>2. IsFiniteSet(S)
  BY PaymentsAssumption, FS_Subset
<1> HIDE DEF f, S
<1>3. SumFunctionOnSet(f, S) \in Nat
  BY <1>1, <1>2, SumNat
<1> QED BY <1>3 DEF MoneyIn, f, S

\* What one payment does to the money of an invoice.
LEMMA MoneyChanges ==
  ASSUME NEW ps \in [Payments -> PayRow], NEW qs \in [Payments -> PayRow], NEW x \in Payments,
         \A p \in Payments \ {x} : qs[p] = ps[p], NEW i
  PROVE  MoneyIn(qs, i) = MoneyIn(ps, i) - (IF ps[x].inv = i THEN ps[x].times * Amount[x] ELSE 0)
                                         + (IF qs[x].inv = i THEN qs[x].times * Amount[x] ELSE 0)
<1> DEFINE f == [p \in Payments |-> ps[p].times * Amount[p]]
           g == [p \in Payments |-> qs[p].times * Amount[p]]
           T == {p \in Payments : ps[p].inv = i}
           U == {p \in Payments : qs[p].inv = i}
<1>1. (\A p \in Payments : f[p] \in Int) /\ (\A p \in Payments : g[p] \in Int)
  <2>1. \A p \in Payments : ps[p].times * Amount[p] \in Nat
    BY Worths
  <2>2. \A p \in Payments : qs[p].times * Amount[p] \in Nat
    BY Worths
  <2> QED BY <2>1, <2>2
<1>2. /\ \A p \in Payments \ {x} : g[p] = f[p]
      /\ T \in SUBSET Payments /\ U \in SUBSET Payments
      /\ \A p \in Payments \ {x} : p \in T <=> p \in U
  OBVIOUS
<1>3. /\ f[x] = ps[x].times * Amount[x] /\ g[x] = qs[x].times * Amount[x]
      /\ (x \in T <=> ps[x].inv = i) /\ (x \in U <=> qs[x].inv = i)
      /\ MoneyIn(ps, i) = SumFunctionOnSet(f, T) /\ MoneyIn(qs, i) = SumFunctionOnSet(g, U)
  BY DEF MoneyIn
<1>4. IsFiniteSet(Payments)
  BY PaymentsAssumption
<1> HIDE DEF f, g, T, U
<1>5. SumFunctionOnSet(g, U) = SumFunctionOnSet(f, T) - (IF x \in T THEN f[x] ELSE 0)
                                                     + (IF x \in U THEN g[x] ELSE 0)
  BY <1>1, <1>2, <1>4, SumOfPartChanges
<1> QED BY <1>3, <1>5

\* A payment that is not confirmed before nor after changes nothing.
LEMMA MoneyStays ==
  ASSUME NEW ps \in [Payments -> PayRow], NEW qs \in [Payments -> PayRow], NEW x \in Payments,
         \A p \in Payments \ {x} : qs[p] = ps[p], ps[x].times = 0, qs[x].times = 0
  PROVE  \A i : MoneyIn(qs, i) = MoneyIn(ps, i)
<1> SUFFICES ASSUME NEW i PROVE MoneyIn(qs, i) = MoneyIn(ps, i)
  OBVIOUS
<1>1. ps[x].times * Amount[x] = 0 /\ qs[x].times * Amount[x] = 0
  <2>1. ps[x].times * Amount[x] = 0
    BY Worths
  <2>2. qs[x].times * Amount[x] = 0
    BY Worths
  <2> QED BY <2>1, <2>2
<1>2. MoneyIn(qs, i) = MoneyIn(ps, i) - 0 + 0
  BY <1>1, MoneyChanges
<1>3. MoneyIn(ps, i) \in Nat
  BY MoneyNat
<1> QED BY <1>2, <1>3

\* One that is confirmed counts once on its invoice.
LEMMA MoneyAdds ==
  ASSUME NEW ps \in [Payments -> PayRow], NEW qs \in [Payments -> PayRow], NEW x \in Payments,
         \A p \in Payments \ {x} : qs[p] = ps[p], ps[x].times = 0, qs[x].times = 1
  PROVE  \A i : MoneyIn(qs, i) = MoneyIn(ps, i) + IF qs[x].inv = i THEN Amount[x] ELSE 0
<1> SUFFICES ASSUME NEW i
             PROVE  MoneyIn(qs, i) = MoneyIn(ps, i) + IF qs[x].inv = i THEN Amount[x] ELSE 0
  OBVIOUS
<1>1. ps[x].times * Amount[x] = 0 /\ qs[x].times * Amount[x] = Amount[x]
  <2>1. ps[x].times * Amount[x] = 0
    BY Worths
  <2>2. qs[x].times * Amount[x] = Amount[x]
    BY Worths
  <2> QED BY <2>1, <2>2
<1>2. MoneyIn(qs, i) = MoneyIn(ps, i) - 0 + IF qs[x].inv = i THEN Amount[x] ELSE 0
  BY <1>1, MoneyChanges
<1>3. MoneyIn(ps, i) \in Nat /\ Amount[x] \in Nat
  BY MoneyNat, PaymentsAssumption
<1> QED BY <1>2, <1>3

-----------------------------------------------------------------------------
(* The steps *)

\* A request begins.
Asked(t, r) ==
    /\ tx[t] = Idle /\ tx' = [tx EXCEPT ![t] = r] /\ r \in Request /\ Names(r)
    /\ r.op \notin MoneyOps \cup {"idle", "away"}
    /\ r.op = "issue" => order.status = "APPROVED" /\ r.seen = order.total
    /\ r.op = "authorize" => order.pay = "PAID"
    /\ r.op = "prompt" => answer[r.pay] = "none" /\ pay[r.pay].status # "unneeded"
    /\ answer' = IF r.op = "prompt" THEN [answer EXCEPT ![r.pay] = "asked"] ELSE answer
    /\ overlapped' \in BOOLEAN
    /\ UNCHANGED <<rows, lock, notice, crashesLeft, revived, unbooked, lateEdit>>

\* A request takes the lock of an invoice and adds up what has been paid.
Locked(t, r) ==
    /\ tx[t].op \in {"idle", "query"} /\ tx' = [tx EXCEPT ![t] = r] /\ r \in Request /\ Names(r)
    /\ r.op \in MoneyOps /\ r.seen = MoneyIn(pay, r.inv)
    /\ lock[r.inv] = None /\ lock' = [lock EXCEPT ![r.inv] = t]
    /\ UNCHANGED <<rows, external, crashesLeft, history>>

\* A request ends that holds no lock.
Wrote(t) ==
    /\ tx[t].op \notin MoneyOps /\ tx[t] # Away /\ End(t)
    /\ UNCHANGED <<lock, external, crashesLeft, overlapped, revived>>
    /\ WriteOrder(t) \/ WriteCancelled(t) \/ CreateInvoice(t) \/ WriteVoid(t) \/ ClaimAuthorized(t)
       \/ WriteRevoked(t) \/ CreatePending(t) \/ RejectFailed(t) \/ LeaveMismatched(t)

LEMMA BeginIsAsked ==
  ASSUME NEW t, NEW op, NEW i, NEW p, NEW seen, Begin(t, op, i, p, seen),
         NEW r, r = [op |-> op, inv |-> i, pay |-> p, seen |-> seen]
  PROVE  tx[t] = Idle /\ tx' = [tx EXCEPT ![t] = r]
BY DEF Begin

LEMMA SalesAsk ==
  ASSUME Shape, NEW t \in Clerks, UpdateOrder(t) \/ CancelOrder(t) PROVE \E r : Asked(t, r)
<1> USE DEF ReadOnly, Outside, external, history
<1>0. overlapped \in BOOLEAN
  BY DEF Shape, Tables
<1>1. ASSUME UpdateOrder(t) PROVE \E r : Asked(t, r)
  <2>1. PICK total \in Totals : Begin(t, "update", None, None, total)
    BY <1>1 DEF UpdateOrder
  <2> DEFINE r == [op |-> "update", inv |-> None, pay |-> None, seen |-> total]
  <2>2. r \in Request /\ Names(r)
    BY PaymentsAssumption DEF Request, Names, MoneyOps
  <2>3. tx[t] = Idle /\ tx' = [tx EXCEPT ![t] = r]
    BY <2>1, BeginIsAsked
  <2>4. Asked(t, r)
    BY <1>0, <1>1, <2>2, <2>3 DEF Asked, UpdateOrder, MoneyOps
  <2> QED BY <2>4
<1>2. ASSUME CancelOrder(t) PROVE \E r : Asked(t, r)
  <2> DEFINE r == [op |-> "cancel", inv |-> None, pay |-> None, seen |-> 0]
  <2>2. r \in Request /\ Names(r)
    BY DEF Request, Names, MoneyOps
  <2>3. tx[t] = Idle /\ tx' = [tx EXCEPT ![t] = r]
    BY <1>2 DEF CancelOrder, Begin
  <2>4. Asked(t, r)
    BY <1>0, <1>2, <2>2, <2>3 DEF Asked, CancelOrder, MoneyOps
  <2> QED BY <2>4
<1> QED BY <1>1, <1>2

LEMMA AccountsAsk ==
  ASSUME Shape, NEW t \in Clerks,
         \/ IssueInvoice(t) \/ Authorize(t) \/ RevokeAuthorization(t)
         \/ \E i \in Invoices : VoidInvoice(t, i)
  PROVE  \E r : Asked(t, r)
<1> USE DEF ReadOnly, Outside, external, history
<1>0. overlapped \in BOOLEAN /\ order.total \in Totals
  BY DEF Shape, Tables, OrderRow
<1>1. ASSUME IssueInvoice(t) PROVE \E r : Asked(t, r)
  <2> DEFINE r == [op |-> "issue", inv |-> None, pay |-> None, seen |-> order.total]
  <2>2. r \in Request /\ Names(r)
    BY <1>0, PaymentsAssumption DEF Request, Names, MoneyOps
  <2>3. tx[t] = Idle /\ tx' = [tx EXCEPT ![t] = r]
    BY <1>1 DEF IssueInvoice, Begin
  <2>5. overlapped' \in BOOLEAN
    BY <1>0, <1>1 DEF IssueInvoice
  <2>4. Asked(t, r)
    BY <1>0, <1>1, <2>2, <2>3, <2>5 DEF Asked, IssueInvoice, MoneyOps
  <2> QED BY <2>4
<1>2. ASSUME NEW op \in {"authorize", "override", "revoke"}, Begin(t, op, None, None, 0), ReadOnly,
             op = "authorize" => order.pay = "PAID"
      PROVE  \E r : Asked(t, r)
  <2> DEFINE r == [op |-> op, inv |-> None, pay |-> None, seen |-> 0]
  <2>2. r \in Request /\ Names(r)
    BY DEF Request, Names, MoneyOps
  <2>3. tx[t] = Idle /\ tx' = [tx EXCEPT ![t] = r]
    BY <1>2, BeginIsAsked
  <2>4. Asked(t, r)
    BY <1>0, <1>2, <2>2, <2>3 DEF Asked, MoneyOps
  <2> QED BY <2>4
<1>3. ASSUME NEW i \in Invoices, VoidInvoice(t, i) PROVE \E r : Asked(t, r)
  <2> DEFINE r == [op |-> "void", inv |-> i, pay |-> None, seen |-> 0]
  <2>2. r \in Request /\ Names(r)
    BY <1>3 DEF Request, Names, MoneyOps, VoidInvoice, Live, Used
  <2>3. tx[t] = Idle /\ tx' = [tx EXCEPT ![t] = r]
    BY <1>3 DEF VoidInvoice, Begin
  <2>4. Asked(t, r)
    BY <1>0, <1>3, <2>2, <2>3 DEF Asked, VoidInvoice, MoneyOps
  <2> QED BY <2>4
<1>4. ASSUME Authorize(t) PROVE \E r : Asked(t, r)
  BY <1>2, <1>4 DEF Authorize
<1>5. ASSUME RevokeAuthorization(t) PROVE \E r : Asked(t, r)
  BY <1>2, <1>5 DEF RevokeAuthorization
<1> QED BY <1>1, <1>3, <1>4, <1>5

LEMMA PromptsAsk ==
  ASSUME Shape, NEW t \in Actors, NEW p \in Prompts,
         (\E i \in Invoices : InitiateMobilePayment(t, p, i)) \/ Reconcile(t, p)
  PROVE  \E r : Asked(t, r)
<1> USE DEF ReadOnly, Outside, external, history
<1>0. overlapped \in BOOLEAN /\ p \in Payments
  BY DEF Shape, Tables, Payments
<1>1. ASSUME NEW i \in Invoices, InitiateMobilePayment(t, p, i) PROVE \E r : Asked(t, r)
  <2> DEFINE r == [op |-> "prompt", inv |-> i, pay |-> p, seen |-> 0]
  <2>2. r \in Request /\ Names(r)
    BY <1>0, <1>1 DEF Request, Names, MoneyOps, InitiateMobilePayment, Live, Used
  <2>3. tx[t] = Idle /\ tx' = [tx EXCEPT ![t] = r]
    BY <1>1 DEF InitiateMobilePayment, Begin
  <2>4. Asked(t, r)
    BY <1>0, <1>1, <2>2, <2>3 DEF Asked, InitiateMobilePayment, MoneyOps
  <2> QED BY <2>4
<1>2. ASSUME Reconcile(t, p) PROVE \E r : Asked(t, r)
  <2> DEFINE r == [op |-> "query", inv |-> pay[p].inv, pay |-> p, seen |-> 0]
  <2>1. pay[p].inv \in Invoices /\ Used(pay[p].inv)
    BY <1>0, <1>2 DEF Reconcile, Shape, PaymentsName
  <2>2. r \in Request /\ Names(r)
    BY <1>0, <2>1 DEF Request, Names, MoneyOps
  <2>3. tx[t] = Idle /\ tx' = [tx EXCEPT ![t] = r]
    BY <1>2 DEF Reconcile, Begin
  <2>4. Asked(t, r)
    BY <1>0, <1>2, <2>2, <2>3 DEF Asked, Reconcile, MoneyOps
  <2> QED BY <2>4
<1> QED BY <1>1, <1>2

LEMMA MoneyLocks ==
  ASSUME Shape, NEW t \in Actors,
         \/ \E p \in Slips, i \in Invoices : RecordPayment(t, p, i)
         \/ \E p \in Prompts : ConfirmPending(t, p)
         \/ \E p \in Transfers : HandleCallback(t, p)
         \/ LockReconciled(t)
  PROVE  \E r : Locked(t, r)
<1>0. pay \in [Payments -> PayRow] /\ Idle.op = "idle"
  BY DEF Shape, Tables, Idle
<1>1. ASSUME NEW op \in MoneyOps, NEW i \in Invoices, Used(i), NEW p \in Payments,
             op = "record" => p \in Slips, op = "callback" => p \in Transfers,
             op \in {"confirm", "reconcile"} => p \in Prompts,
             Lock(t, op, i, p), tx[t].op \in {"idle", "query"}
      PROVE  \E r : Locked(t, r)
  <2> DEFINE r == [op |-> op, inv |-> i, pay |-> p, seen |-> MoneyIn(pay, i)]
  <2>1. MoneyIn(pay, i) \in Nat
    BY <1>0, MoneyNat
  <2>2. r \in Request /\ Names(r)
    BY <1>1, <2>1 DEF Request, Names, MoneyOps
  <2>3. tx' = [tx EXCEPT ![t] = r]
    BY <1>1, MoneyIs DEF Lock
  <2>4. Locked(t, r)
    BY <1>1, <2>2, <2>3 DEF Locked, Lock, LockFree, Outside
  <2> QED BY <2>4
<1>2. ASSUME NEW p \in Slips, NEW i \in Invoices, RecordPayment(t, p, i) PROVE \E r : Locked(t, r)
  BY <1>0, <1>1, <1>2 DEF RecordPayment, Live, Used, Payments, MoneyOps
<1>3. ASSUME NEW p \in Prompts, ConfirmPending(t, p) PROVE \E r : Locked(t, r)
  <2>1. pay[p].inv \in Invoices /\ Used(pay[p].inv)
    BY <1>3 DEF ConfirmPending, Shape, PaymentsName, Payments
  <2> QED BY <1>0, <1>1, <1>3, <2>1 DEF ConfirmPending, Payments, MoneyOps
<1>4. ASSUME NEW p \in Transfers, HandleCallback(t, p) PROVE \E r : Locked(t, r)
  <2>1. notice[p] \in Invoices /\ Used(notice[p])
    BY <1>4 DEF HandleCallback, Shape, Tables, PaymentsName
  <2> QED BY <1>0, <1>1, <1>4, <2>1 DEF HandleCallback, Payments, MoneyOps
<1>5. ASSUME LockReconciled(t) PROVE \E r : Locked(t, r)
  <2>1. tx[t].inv \in Invoices /\ Used(tx[t].inv) /\ tx[t].pay \in Prompts
    BY <1>5 DEF LockReconciled, Shape, Names
  <2> QED BY <1>0, <1>1, <1>5, <2>1 DEF LockReconciled, Payments, MoneyOps
<1> QED BY <1>2, <1>3, <1>4, <1>5

LEMMA RequestsWrite ==
  ASSUME NEW t \in Actors,
         \/ WriteOrder(t) \/ WriteCancelled(t) \/ CreateInvoice(t) \/ WriteVoid(t)
         \/ ClaimAuthorized(t) \/ WriteRevoked(t) \/ CreatePending(t) \/ RejectFailed(t)
         \/ LeaveMismatched(t)
  PROVE  Wrote(t)
<1>1. tx[t].op \notin MoneyOps \cup {"idle", "away"} /\ End(t)
  BY DEF WriteOrder, WriteCancelled, CreateInvoice, WriteVoid, ClaimAuthorized, WriteRevoked, CreatePending,
         RejectFailed, LeaveMismatched, MoneyOps
<1>2. tx[t] # Away
  BY <1>1 DEF Away, Idle
<1>3. UNCHANGED <<lock, external, crashesLeft, overlapped, revived>>
  BY DEF WriteOrder, WriteCancelled, CreateInvoice, WriteVoid, ClaimAuthorized, WriteRevoked, CreatePending,
         RejectFailed, LeaveMismatched, Outside, history
<1> QED BY <1>1, <1>2, <1>3 DEF Wrote

LEMMA Steps ==
  ASSUME Shape, Next
  PROVE  \/ \E t \in Actors : \/ \E r : Asked(t, r) \/ Locked(t, r)
                              \/ Wrote(t) \/ Settle(t) \/ Crash(t)
         \/ Review \/ Resubmit
         \/ \E p \in Prompts : RejectPending(p) \/ CustomerAnswers(p)
         \/ \E p \in Transfers, i \in Invoices : BankNotifies(p, i)
<1>1. Clerks \subseteq Actors
  BY DEF Actors
<1>2. ASSUME NEW t \in Clerks, Sales(t) PROVE (\E r : Asked(t, r)) \/ Wrote(t)
  BY <1>1, <1>2, SalesAsk, RequestsWrite DEF Sales
<1>3. ASSUME NEW t \in Clerks, Accounts(t) PROVE (\E r : Asked(t, r)) \/ Wrote(t)
  BY <1>1, <1>3, AccountsAsk, RequestsWrite DEF Accounts
<1>4. ASSUME NEW t \in Clerks, TakeMoney(t) PROVE (\E r : Asked(t, r) \/ Locked(t, r)) \/ Wrote(t)
  BY <1>1, <1>4, PromptsAsk, MoneyLocks, RequestsWrite DEF TakeMoney
<1>5. ASSUME NEW t \in Actors, Finish(t) PROVE (\E r : Locked(t, r)) \/ Wrote(t) \/ Settle(t)
  BY <1>5, MoneyLocks, RequestsWrite DEF Finish
<1>6. ASSUME NEW t \in Actors, NEW p \in Prompts, Reconcile(t, p) PROVE \E r : Asked(t, r)
  BY <1>6, PromptsAsk
<1> QED BY <1>1, <1>2, <1>3, <1>4, <1>5, <1>6 DEF Next, Environment


-----------------------------------------------------------------------------
(* Types and locks *)

LEMMA IdleRequest == Idle \in Request /\ Names(Idle) /\ Idle.op \notin MoneyOps
BY DEF Idle, Request, Names, MoneyOps

\* One request changes and no invoice is taken back.
LEMMA RequestsKept ==
  ASSUME Shape, NEW t \in Actors, NEW r \in Request, Names(r), tx' = [tx EXCEPT ![t] = r],
         \A i \in Invoices : Used(i) => Used(i)'
  PROVE  tx' \in [Actors -> Request] /\ (\A u \in Actors : Names(tx[u]))'
<1>1. tx' \in [Actors -> Request] /\ \A u \in Actors : tx'[u] = IF u = t THEN r ELSE tx[u]
  BY DEF Shape, Tables
<1>2. \A x : Names(x) => Names(x)'
  BY DEF Names
<1>3. \A u \in Actors : Names(tx'[u])
  BY <1>1 DEF Shape
<1>4. \A u \in Actors : Names(tx[u])'
  <2> SUFFICES ASSUME NEW u \in Actors PROVE Names(tx[u])'
    OBVIOUS
  <2>1. PICK x : x = tx'[u]
    OBVIOUS
  <2>2. Names(x)'
    BY <1>2, <1>3, <2>1
  <2> QED BY <2>1, <2>2 DEF Names
<1> QED BY <1>1, <1>4

\* The request that ends is forgotten.
LEMMA RequestEnds ==
  ASSUME Shape, NEW t \in Actors, End(t), \A i \in Invoices : Used(i) => Used(i)'
  PROVE  tx' \in [Actors -> Request] /\ (\A u \in Actors : Names(tx[u]))'
BY IdleRequest, RequestsKept DEF End

\* Requests that touch no table.
LEMMA RequestKeepsShape ==
  ASSUME Shape, NEW t \in Actors, NEW r \in Request, Names(r), tx' = [tx EXCEPT ![t] = r],
         UNCHANGED <<rows, notice>>, lock' \in [Invoices -> Actors \cup {None}],
         answer' \in [Prompts -> {"none", "asked", "paid", "otherAmount", "failed"}], crashesLeft' \in Nat,
         overlapped' \in BOOLEAN, UNCHANGED <<revived, unbooked, lateEdit>>
  PROVE  Shape'
<1>1. tx' \in [Actors -> Request] /\ (\A u \in Actors : Names(tx[u]))'
  BY RequestsKept DEF rows, Used
<1>2. Tables'
  BY <1>1 DEF Shape, Tables, rows
<1>3. PaymentsName'
  BY DEF Shape, PaymentsName, Used, rows
<1> QED BY <1>1, <1>2, <1>3 DEF Shape

LEMMA AskedKeepsShape == ASSUME Shape, NEW t \in Actors, NEW r, Asked(t, r) PROVE Shape'
<1>1. answer' \in [Prompts -> {"none", "asked", "paid", "otherAmount", "failed"}]
  BY DEF Asked, Shape, Tables
<1> QED BY <1>1, RequestKeepsShape DEF Asked, Shape, Tables

LEMMA LockedKeepsShape == ASSUME Shape, NEW t \in Actors, NEW r, Locked(t, r) PROVE Shape'
<1>1. lock' \in [Invoices -> Actors \cup {None}]
  BY DEF Locked, Shape, Tables
<1> QED BY <1>1, RequestKeepsShape DEF Locked, Shape, Tables, external, history

LEMMA CrashKeepsShape == ASSUME Shape, NEW t \in Actors, Crash(t) PROVE Shape'
<1>1. lock' \in [Invoices -> Actors \cup {None}] /\ crashesLeft' \in Nat
  BY DEF Crash, Shape, Tables
<1> QED BY <1>1, IdleRequest, RequestKeepsShape DEF Crash, End, Shape, Tables, external, history

\* Requests that write the order only.
LEMMA OrderWrittenKeepsShape ==
  ASSUME Shape, NEW t \in Actors, WriteOrder(t) \/ ClaimAuthorized(t) \/ WriteRevoked(t)
  PROVE  Shape'
<1>1. UNCHANGED <<inv, pay, books, lock, external, crashesLeft, overlapped, revived, unbooked>>
  BY DEF WriteOrder, ClaimAuthorized, WriteRevoked, Outside, history
<1>2. tx' \in [Actors -> Request] /\ (\A u \in Actors : Names(tx[u]))'
  BY <1>1, RequestEnds DEF WriteOrder, ClaimAuthorized, WriteRevoked, Used
<1>3. order' \in OrderRow /\ lateEdit' \in BOOLEAN
  <2>0. order \in OrderRow /\ lateEdit \in BOOLEAN /\ (tx[t].op = "update" => tx[t].seen \in Totals)
    BY DEF Shape, Tables, Names
  <2>1. CASE WriteOrder(t)
    <3>1. /\ tx[t].op = "update" /\ order' = [order EXCEPT !.total = tx[t].seen]
          /\ lateEdit' = (lateEdit \/ order.status # "RETURNED")
      BY <2>1 DEF WriteOrder
    <3>2. order' \in OrderRow
      BY <2>0, <3>1 DEF OrderRow
    <3> QED BY <3>1, <3>2, <2>0
  <2>2. CASE ClaimAuthorized(t)
    BY <2>0, <2>2 DEF ClaimAuthorized, OrderRow, history
  <2>3. CASE WriteRevoked(t)
    BY <2>0, <2>3 DEF WriteRevoked, OrderRow, history
  <2> QED BY <2>1, <2>2, <2>3
<1>4. Tables'
  BY <1>1, <1>2, <1>3 DEF Shape, Tables, external
<1>5. PaymentsName'
  BY <1>1 DEF Shape, PaymentsName, Used, external
<1> QED BY <1>2, <1>4, <1>5 DEF Shape

\* A payment's row is written.
LEMMA PayWrittenKeepsShape ==
  ASSUME Shape, NEW t \in Actors, CreatePending(t) \/ RejectFailed(t)
  PROVE  Shape'
<1>1. UNCHANGED <<order, inv, books, lock, external, crashesLeft, history>>
  BY DEF CreatePending, RejectFailed, Outside
<1>2. tx' \in [Actors -> Request] /\ (\A u \in Actors : Names(tx[u]))'
  BY <1>1, RequestEnds DEF CreatePending, RejectFailed, Used
<1>3. tx[t].pay \in Payments /\ tx[t].inv \in Invoices /\ Used(tx[t].inv)
  BY DEF CreatePending, RejectFailed, Shape, Names, Payments
<1>4. /\ pay' \in [Payments -> PayRow]
      /\ \A p \in Payments : pay'[p].status \notin {"none", "unneeded"} => pay'[p].inv \in Invoices /\ Used(pay'[p].inv)
  <2>1. CASE CreatePending(t)
    BY <1>3, <2>1 DEF CreatePending, Shape, Tables, PaymentsName, PayRow
  <2>2. CASE RejectFailed(t)
    <3>1. CASE pay' = pay
      BY <3>1 DEF Shape, Tables, PaymentsName
    <3>2. CASE pay[tx[t].pay].status = "PENDING" /\ pay' = [pay EXCEPT ![tx[t].pay].status = "REJECTED"]
      BY SMTT(40), <1>3, <3>2 DEF Shape, Tables, PaymentsName, PayRow
    <3> QED BY <2>2, <3>1, <3>2 DEF RejectFailed
  <2> QED BY <2>1, <2>2
<1>5. Tables'
  BY <1>1, <1>2, <1>4 DEF Shape, Tables, external, history
<1>6. PaymentsName'
  BY <1>1, <1>4 DEF Shape, PaymentsName, Used, external
<1> QED BY <1>2, <1>5, <1>6 DEF Shape


\* Invoices are written, and with them the order and the books.
LEMMA InvoicesWrittenKeepShape ==
  ASSUME Shape, NEW t \in Actors, WriteCancelled(t) \/ CreateInvoice(t) \/ WriteVoid(t)
  PROVE  Shape' /\ \A i \in Invoices : Used(i) => Used(i)'
<1>1. UNCHANGED <<pay, lock, external, crashesLeft, overlapped, revived, lateEdit>>
  BY DEF WriteCancelled, CreateInvoice, WriteVoid, Outside, history
<1>2. inv' \in [Invoices -> InvRow] /\ \A i \in Invoices : Used(i) => inv'[i].status # "unused"
  <2>1. CASE WriteCancelled(t)
    BY <2>1 DEF WriteCancelled, Shape, Tables, InvRow, Used
  <2>2. CASE CreateInvoice(t)
    <3>1. PICK i \in Invoices :
             /\ inv[i] = Unused
             /\ inv' = [inv EXCEPT ![i] = [status |-> "ISSUED", total |-> tx[t].seen, paid |-> 0]]
      BY <2>2 DEF CreateInvoice
    <3>2. tx[t].seen \in Totals
      BY <2>2 DEF CreateInvoice, Shape, Names
    <3> QED BY <3>1, <3>2 DEF Shape, Tables, InvRow, Used
  <2>3. CASE WriteVoid(t)
    <3>1. PICK i : i = tx[t].inv
      OBVIOUS
    <3>2. inv' = inv \/ inv' = [inv EXCEPT ![i] = [inv[i] EXCEPT !.status = "VOID"]]
      BY <2>3, <3>1 DEF WriteVoid
    <3>3. inv \in [Invoices -> InvRow]
      BY DEF Shape, Tables
    <3>4. CASE i \in Invoices
      <4>1. [inv[i] EXCEPT !.status = "VOID"] \in InvRow
        BY <3>3, <3>4 DEF InvRow
      <4>2. inv' \in [Invoices -> InvRow]
        BY <3>2, <3>3, <4>1
      <4>3. \A j \in Invoices : inv'[j].status \in {inv[j].status, "VOID"}
        BY <3>2, <3>3, <3>4 DEF InvRow
      <4> QED BY <4>2, <4>3 DEF Used
    <3>5. CASE i \notin Invoices
      BY <3>2, <3>3, <3>5 DEF Used
    <3> QED BY <3>4, <3>5
  <2> QED BY <2>1, <2>2, <2>3
<1>3. books' \in [Invoices -> BookRow]
  <2>1. CASE books' = books
    BY <2>1 DEF Shape, Tables
  <2>2. CASE \E i \in Invoices : books' = [books EXCEPT ![i] = Booked(inv'[i])]
    <3>1. \A row \in InvRow : Booked(row) \in BookRow
      BY DEF Booked, InvRow, BookRow
    <3> QED BY <1>2, <2>2, <3>1 DEF Shape, Tables
  <2>3. WriteVoid(t) => tx[t].inv \in Invoices
    BY DEF WriteVoid, Shape, Names
  <2> QED BY <2>1, <2>2, <2>3 DEF WriteCancelled, CreateInvoice, WriteVoid
<1>4. order' \in OrderRow /\ unbooked' \subseteq Invoices
  <2>0. order \in OrderRow /\ unbooked \subseteq Invoices
    BY DEF Shape, Tables
  <2>1. CASE WriteCancelled(t)
    <3>1. /\ order' = [order EXCEPT !.status = "CANCELLED", !.fulfil = "NOT_AUTHORIZED"]
          /\ unbooked' = unbooked \cup {i \in Invoices : Live(i)}
      BY <2>1 DEF WriteCancelled
    <3> QED BY <2>0, <3>1 DEF OrderRow
  <2>2. CASE CreateInvoice(t)
    <3>1. order' = [order EXCEPT !.status = "INVOICED"] /\ unbooked' = unbooked
      BY <2>2 DEF CreateInvoice, history
    <3> QED BY <2>0, <3>1 DEF OrderRow
  <2>3. CASE WriteVoid(t)
    <3>1. /\ \/ order' = [order EXCEPT !.status = "APPROVED", !.fulfil = "NOT_AUTHORIZED"]
             \/ order' = order
          /\ unbooked' = unbooked
      BY <2>3 DEF WriteVoid, history
    <3> QED BY <2>0, <3>1 DEF OrderRow
  <2> QED BY <2>1, <2>2, <2>3
<1>5. \A i \in Invoices : Used(i) => Used(i)'
  BY <1>2 DEF Used
<1>6. tx' \in [Actors -> Request] /\ (\A u \in Actors : Names(tx[u]))'
  BY <1>5, RequestEnds DEF WriteCancelled, CreateInvoice, WriteVoid
<1>7. Tables'
  BY <1>1, <1>2, <1>3, <1>4, <1>6 DEF Shape, Tables, external
<1>8. PaymentsName'
  BY <1>1, <1>2 DEF Shape, Tables, PaymentsName, Used, external
<1> QED BY <1>5, <1>6, <1>7, <1>8 DEF Shape

\* An invoice that shows these payments, and never less than what has just been paid.
LEMMA TotalledRow ==
  ASSUME Shape, NEW i \in Invoices, NEW seen \in Nat, NEW amount \in Nat \ {0}
  PROVE  LET row == Totalled(i, seen, amount)
         IN /\ row \in InvRow /\ row.total = inv[i].total /\ row.paid = seen + amount
            /\ row.status \notin {"unused", "VOID"}
            /\ row.status = PaymentState(row.total, row.paid)
<1> DEFINE paid == seen + amount
           status == PaymentState(inv[i].total, paid)
<1>1. inv[i] \in InvRow
  BY DEF Shape, Tables
<1>2. paid \in Nat /\ paid # 0 /\ status \in {"PARTIALLY_PAID", "PAID"}
  BY DEF PaymentState
<1>3. Totalled(i, seen, amount) = [inv[i] EXCEPT !.paid = paid, !.status = status]
  BY <1>2 DEF Totalled
<1> HIDE DEF paid, status
<1>4. /\ Totalled(i, seen, amount) \in InvRow /\ Totalled(i, seen, amount).total = inv[i].total
      /\ Totalled(i, seen, amount).paid = paid /\ Totalled(i, seen, amount).status = status
  BY <1>1, <1>2, <1>3 DEF InvRow
<1> QED BY <1>2, <1>4 DEF paid, status

\* What the end of a request writes that counts a payment: the row the invoice gets.
Settled(t, i, p, row) ==
    /\ Counts(tx[t].op, p)
    /\ row.total = inv[i].total /\ row.paid = tx[t].seen + Amount[p]
    /\ row.status \notin {"unused", "VOID"}
    /\ pay' = [pay EXCEPT ![p] = [inv |-> i, status |-> "CONFIRMED", times |-> pay[p].times + 1]]
    /\ inv' = [inv EXCEPT ![i] = row]
    /\ order' = [order EXCEPT !.paid = row.paid, !.pay = PaymentState(row.total, row.paid)]
    /\ books' = [books EXCEPT ![i] = Booked(row)]
    /\ revived' = IF Live(i) THEN revived ELSE revived \cup {i}

LEMMA SettleWrites ==
  ASSUME Shape, NEW t \in Actors, Settle(t), NEW i, i = tx[t].inv, NEW p, p = tx[t].pay
  PROVE  /\ i \in Invoices /\ Used(i) /\ p \in Payments /\ tx[t].seen \in Nat /\ Amount[p] \in Nat \ {0}
         /\ tx[t].op \in MoneyOps /\ End(t)
         /\ lock' = [lock EXCEPT ![i] = None]
         /\ UNCHANGED <<external, crashesLeft, overlapped, unbooked, lateEdit>>
         /\ \/ UNCHANGED <<pay, inv, order, books, revived>>
            \/ \E row \in InvRow : Settled(t, i, p, row)
<1>1. i \in Invoices /\ Used(i) /\ p \in Payments /\ tx[t].op \in MoneyOps /\ tx[t].seen \in Nat
  BY DEF Settle, Shape, Tables, Names, MoneyOps, Payments, Request
<1>2. Amount[p] \in Nat \ {0}
  BY <1>1, PaymentsAssumption
<1>3. /\ lock' = [lock EXCEPT ![i] = None] /\ End(t)
      /\ UNCHANGED <<external, crashesLeft, overlapped, unbooked, lateEdit>>
  BY DEF Settle, Outside
<1>4. CASE ~Counts(tx[t].op, p)
  BY <1>1, <1>2, <1>3, <1>4 DEF Settle
<1>5. CASE Counts(tx[t].op, p)
  <2>1. PICK row : row = Totalled(i, tx[t].seen, Amount[p])
    OBVIOUS
  <2>2. /\ row \in InvRow /\ row.total = inv[i].total /\ row.paid = tx[t].seen + Amount[p]
        /\ row.status \notin {"unused", "VOID"}
    <3>1. /\ Totalled(i, tx[t].seen, Amount[p]) \in InvRow
          /\ Totalled(i, tx[t].seen, Amount[p]).total = inv[i].total
          /\ Totalled(i, tx[t].seen, Amount[p]).paid = tx[t].seen + Amount[p]
          /\ Totalled(i, tx[t].seen, Amount[p]).status \notin {"unused", "VOID"}
      BY ZenonT(60), <1>1, <1>2, TotalledRow
    <3> QED BY <2>1, <3>1
  <2>3. /\ pay' = [pay EXCEPT ![p] = [inv |-> i, status |-> "CONFIRMED", times |-> pay[p].times + 1]]
        /\ inv' = [inv EXCEPT ![i] = row]
        /\ order' = [order EXCEPT !.paid = inv'[i].paid, !.pay = PaymentState(inv[i].total, inv'[i].paid)]
        /\ books' = [books EXCEPT ![i] = Booked(inv'[i])]
        /\ revived' = IF Live(i) THEN revived ELSE revived \cup {i}
    BY <1>5, <2>1 DEF Settle
  <2>4. inv'[i] = row
    BY <1>1, <2>3 DEF Shape, Tables
  <2>5. Settled(t, i, p, row)
    BY <1>5, <2>2, <2>3, <2>4 DEF Settled
  <2> QED BY <1>1, <1>2, <1>3, <2>2, <2>5
<1> QED BY <1>4, <1>5

LEMMA SettleKeepsShape ==
  ASSUME Shape, NEW t \in Actors, Settle(t) PROVE Shape' /\ \A i \in Invoices : Used(i) => Used(i)'
<1>0. PICK i, p : i = tx[t].inv /\ p = tx[t].pay
  OBVIOUS
<1>1. /\ i \in Invoices /\ p \in Payments /\ End(t) /\ lock' = [lock EXCEPT ![i] = None]
      /\ UNCHANGED <<external, crashesLeft, overlapped, unbooked, lateEdit>>
  BY <1>0, SettleWrites
<1>2. CASE UNCHANGED <<pay, inv, order, books, revived>>
  <2>1. \A j \in Invoices : Used(j) => Used(j)'
    BY <1>2 DEF Used
  <2>2. tx' \in [Actors -> Request] /\ (\A u \in Actors : Names(tx[u]))'
    BY <1>1, <2>1, RequestEnds
  <2>3. Tables'
    BY <1>1, <1>2, <2>2 DEF Shape, Tables, external
  <2>4. PaymentsName'
    BY <1>1, <1>2 DEF Shape, PaymentsName, Used, external
  <2> QED BY <2>1, <2>2, <2>3, <2>4 DEF Shape
<1>3. ASSUME NEW row \in InvRow, row.status \notin {"unused", "VOID"},
             pay' = [pay EXCEPT ![p] = [inv |-> i, status |-> "CONFIRMED", times |-> pay[p].times + 1]],
             inv' = [inv EXCEPT ![i] = row],
             order' = [order EXCEPT !.paid = row.paid, !.pay = PaymentState(row.total, row.paid)],
             books' = [books EXCEPT ![i] = Booked(row)],
             revived' = IF Live(i) THEN revived ELSE revived \cup {i}
      PROVE  Shape' /\ \A j \in Invoices : Used(j) => Used(j)'
  <2>1. inv' \in [Invoices -> InvRow] /\ \A j \in Invoices : Used(j) => inv'[j].status # "unused"
    BY <1>1, <1>3 DEF Shape, Tables, Used
  <2>2. \A j \in Invoices : Used(j) => Used(j)'
    BY <2>1 DEF Used
  <2>3. tx' \in [Actors -> Request] /\ (\A u \in Actors : Names(tx[u]))'
    BY <1>1, <2>2, RequestEnds
  <2>4. order' \in OrderRow /\ books' \in [Invoices -> BookRow] /\ revived' \subseteq Invoices
    BY <1>1, <1>3 DEF Shape, Tables, OrderRow, InvRow, BookRow, Booked, PaymentState
  <2>5. /\ pay' \in [Payments -> PayRow]
        /\ \A q \in Payments : pay'[q] = IF q = p THEN [inv |-> i, status |-> "CONFIRMED", times |-> pay[p].times + 1]
                                                  ELSE pay[q]
    BY <1>1, <1>3 DEF Shape, Tables, PayRow
  <2>6. Tables'
    BY <1>1, <2>1, <2>3, <2>4, <2>5 DEF Shape, Tables, external
  <2>7. inv'[i].status # "unused"
    BY <1>1, <1>3 DEF Shape, Tables
  <2>8. PaymentsName'
    BY <1>1, <2>1, <2>5, <2>7 DEF Shape, Tables, PaymentsName, Used, external
  <2> QED BY <2>2, <2>3, <2>6, <2>8 DEF Shape
<1>4. ASSUME ~UNCHANGED <<pay, inv, order, books, revived>> PROVE Shape' /\ \A j \in Invoices : Used(j) => Used(j)'
  <2>1. PICK row \in InvRow : Settled(t, i, p, row)
    BY <1>0, <1>4, SettleWrites
  <2> QED BY <2>1, <1>3 DEF Settled
<1> QED BY <1>2, <1>4


LEMMA NothingWrittenKeepsShape == ASSUME Shape, NEW t \in Actors, LeaveMismatched(t) PROVE Shape'
BY IdleRequest, RequestKeepsShape DEF LeaveMismatched, End, Outside, Shape, Tables, external, history

LEMMA WroteKeepsShape == ASSUME Shape, NEW t \in Actors, Wrote(t) PROVE Shape'
BY OrderWrittenKeepsShape, InvoicesWrittenKeepShape, PayWrittenKeepsShape, NothingWrittenKeepsShape DEF Wrote

\* What no request does: review, a refusal by hand, the customer, the bank.
Apart ==
    \/ Review \/ Resubmit \/ UNCHANGED vars
    \/ \E p \in Prompts : RejectPending(p) \/ CustomerAnswers(p)
    \/ \E p \in Transfers, i \in Invoices : BankNotifies(p, i)

LEMMA ApartLeaves ==
  ASSUME Apart PROVE UNCHANGED <<inv, books, lock, tx, crashesLeft, history>>
BY DEF Apart, Review, Resubmit, Move, RejectPending, CustomerAnswers, BankNotifies, vars, rows, Outside

LEMMA ApartKeepsShape == ASSUME Shape, Apart PROVE Shape'
<1> USE DEF rows, external, history
<1>1. UNCHANGED <<inv, books, lock, tx, crashesLeft, history>>
  BY ApartLeaves
<1>2. order' \in OrderRow
  BY DEF Apart, Review, Resubmit, Move, RejectPending, CustomerAnswers, BankNotifies, vars, Shape, Tables, OrderRow
<1>3. answer' \in [Prompts -> {"none", "asked", "paid", "otherAmount", "failed"}]
  BY DEF Apart, Review, Resubmit, Move, RejectPending, CustomerAnswers, BankNotifies, vars, Shape, Tables, Outside
<1>4. /\ notice' \in [Transfers -> Invoices \cup {None}]
      /\ \A p \in Transfers : notice'[p] # None => Used(notice'[p])
  <2>1. CASE \E p \in Transfers, i \in Invoices : BankNotifies(p, i)
    BY <2>1 DEF BankNotifies, Shape, Tables, PaymentsName, Live, Used
  <2>2. CASE notice' = notice
    BY <2>2 DEF Shape, Tables, PaymentsName
  <2> QED BY <2>1, <2>2 DEF Apart, Review, Resubmit, Move, RejectPending, CustomerAnswers, vars, Outside
<1>5. /\ pay' \in [Payments -> PayRow]
      /\ \A p \in Payments : pay'[p].status \notin {"none", "unneeded"} => pay'[p].inv \in Invoices /\ Used(pay'[p].inv)
  <2>1. CASE \E p \in Prompts : RejectPending(p)
    <3>1. PICK p \in Payments : pay[p].status = "PENDING" /\ pay' = [pay EXCEPT ![p].status = "REJECTED"]
      BY <2>1 DEF RejectPending, Payments
    <3> QED BY <3>1 DEF Shape, Tables, PaymentsName, PayRow
  <2>2. CASE pay' = pay
    BY <2>2 DEF Shape, Tables, PaymentsName
  <2> QED BY <2>1, <2>2 DEF Apart, Review, Resubmit, Move, BankNotifies, CustomerAnswers, vars
<1>6. Tables'
  BY <1>1, <1>2, <1>3, <1>4, <1>5 DEF Shape, Tables
<1>7. PaymentsName'
  BY <1>1, <1>4, <1>5 DEF PaymentsName, Used
<1>8. (\A t \in Actors : Names(tx[t]))'
  BY <1>1 DEF Shape, Names, Used
<1> QED BY <1>6, <1>7, <1>8 DEF Shape

\* The steps of the module, as the proofs take them.
LEMMA Kinds ==
  ASSUME Shape, [Next]_vars
  PROVE  \/ \E t \in Actors : \/ \E r : Asked(t, r) \/ Locked(t, r)
                              \/ Wrote(t) \/ Settle(t) \/ Crash(t)
         \/ Apart
BY Steps DEF Apart

LEMMA ShapeInit == Init => Shape
<1> SUFFICES ASSUME Init PROVE Shape
  OBVIOUS
<1>1. PICK case \in Cases :
        /\ order = [status |-> "PENDING", total |-> case.total, paid |-> 0, pay |-> "UNPAID",
                    fulfil |-> "NOT_AUTHORIZED", override |-> FALSE]
        /\ tx = [t \in Actors |-> IF t \in Clerks \ case.clerks THEN Away ELSE Idle]
        /\ crashesLeft = case.crashes
  BY DEF Init
<1>2. case.total \in Totals /\ case.crashes \in Nat
  BY PaymentsAssumption
<1>3. order \in OrderRow /\ crashesLeft \in Nat
  BY <1>1, <1>2 DEF OrderRow
<1>4. tx \in [Actors -> Request] /\ \A t \in Actors : Names(tx[t])
  <2>1. Away \in Request /\ Names(Away)
    BY DEF Away, Idle, Request, Names, MoneyOps
  <2> QED BY <1>1, <2>1, IdleRequest
<1>5. pay \in [Payments -> PayRow] /\ \A p \in Payments : pay[p].status \in {"none", "unneeded"}
  BY DEF Init, PayRow
<1>6. inv \in [Invoices -> InvRow] /\ books \in [Invoices -> BookRow]
  BY DEF Init, Unused, InvRow, BookRow
<1>7. lock \in [Invoices -> Actors \cup {None}] /\ answer \in [Prompts -> {"none", "asked", "paid", "otherAmount", "failed"}]
  BY DEF Init
<1>8. notice \in [Transfers -> Invoices \cup {None}] /\ \A p \in Transfers : notice[p] = None
  BY DEF Init
<1>9. overlapped \in BOOLEAN /\ lateEdit \in BOOLEAN /\ revived \subseteq Invoices /\ unbooked \subseteq Invoices
  BY DEF Init
<1> QED BY <1>3, <1>4, <1>5, <1>6, <1>7, <1>8, <1>9 DEF Shape, Tables, PaymentsName

LEMMA ShapeNext == Shape /\ [Next]_vars => Shape'
BY Kinds, AskedKeepsShape, LockedKeepsShape, WroteKeepsShape, SettleKeepsShape, CrashKeepsShape, ApartKeepsShape

LEMMA NoMoneyIdle == Idle.op \notin MoneyOps /\ Away.op \notin MoneyOps
BY DEF Idle, Away, MoneyOps

LEMMA LocksInit == Init => LocksHeld
<1> SUFFICES ASSUME Init PROVE LocksHeld
  OBVIOUS
<1>1. \A t \in Actors : tx[t] \in {Idle, Away}
  BY DEF Init
<1>2. \A i \in Invoices : lock[i] = None
  BY DEF Init
<1> QED BY <1>1, <1>2, NoMoneyIdle, PaymentsAssumption DEF LocksHeld

\* A request that holds no lock before nor after, or that gives up the one it holds.
LEMMA LocksNext == Shape /\ LocksHeld /\ [Next]_vars => LocksHeld'
<1> SUFFICES ASSUME Shape, LocksHeld, [Next]_vars PROVE LocksHeld'
  OBVIOUS
<1>0. tx \in [Actors -> Request] /\ lock \in [Invoices -> Actors \cup {None}] /\ None \notin Actors
  BY PaymentsAssumption DEF Shape, Tables
<1>1. ASSUME NEW t \in Actors, NEW r, r.op \notin MoneyOps, tx[t].op \notin MoneyOps,
             tx' = [tx EXCEPT ![t] = r], lock' = lock
      PROVE  LocksHeld'
  BY <1>0, <1>1 DEF LocksHeld
<1>2. ASSUME NEW t \in Actors, NEW r, Asked(t, r) PROVE LocksHeld'
  BY <1>1, <1>2, NoMoneyIdle DEF Asked
<1>3. ASSUME NEW t \in Actors, NEW r, Locked(t, r) PROVE LocksHeld'
  <2>1. r.inv \in Invoices /\ r.op \in MoneyOps /\ lock[r.inv] = None /\ tx[t].op \notin MoneyOps
    BY <1>3 DEF Locked, Names, MoneyOps
  <2>2. tx' = [tx EXCEPT ![t] = r] /\ lock' = [lock EXCEPT ![r.inv] = t]
    BY <1>3 DEF Locked
  <2> QED BY <1>0, <2>1, <2>2 DEF LocksHeld
<1>4. ASSUME NEW t \in Actors, Wrote(t) PROVE LocksHeld'
  BY <1>1, <1>4, NoMoneyIdle DEF Wrote, End
<1>5. ASSUME NEW t \in Actors, Settle(t) PROVE LocksHeld'
  <2>1. PICK i : i = tx[t].inv
    OBVIOUS
  <2>2. i \in Invoices /\ lock' = [lock EXCEPT ![i] = None] /\ tx' = [tx EXCEPT ![t] = Idle] /\ tx[t].op \in MoneyOps
    BY <1>5, <2>1, SettleWrites DEF End
  <2> QED BY <1>0, <2>1, <2>2, NoMoneyIdle DEF LocksHeld
<1>6. ASSUME NEW t \in Actors, Crash(t) PROVE LocksHeld'
  <2>1. tx' = [tx EXCEPT ![t] = Idle] /\ lock' = [i \in Invoices |-> IF lock[i] = t THEN None ELSE lock[i]]
    BY <1>6 DEF Crash, End
  <2> QED BY <1>0, <2>1, NoMoneyIdle DEF LocksHeld
<1>7. ASSUME Apart PROVE LocksHeld'
  BY <1>7, ApartLeaves DEF LocksHeld
<1> QED BY <1>2, <1>3, <1>4, <1>5, <1>6, <1>7, Kinds

\* Types, and who holds the lock of an invoice: a request that takes money in on it, and nobody else.
THEOREM TypeCorrect == Spec => []TypeOK
<1>1. Shape /\ LocksHeld => TypeOK
  BY DEF Shape, Tables, LocksHeld, TypeOK, OrderRow, InvRow, PayRow, BookRow, Request, MoneyOps
<1> QED BY ShapeInit, ShapeNext, LocksInit, LocksNext, <1>1, PTL DEF Spec


-----------------------------------------------------------------------------
(* Prompts and money *)

\* What each step does to the payments: most leave them alone; else one that was not confirmed changes.
PayChange(x) ==
    /\ x \in Payments /\ \A p \in Payments \ {x} : pay'[p] = pay[p]
    /\ pay[x].status # "CONFIRMED" /\ pay'[x].status \in {"PENDING", "REJECTED"}
    /\ x \in Prompts /\ answer[x] # "none" /\ answer' = answer
    /\ \A u \in Actors : tx'[u].op = "prompt" => tx'[u] = tx[u] /\ tx[u].pay # x

LEMMA WrotePays ==
  ASSUME Shape, PromptsOnce, NEW t \in Actors, Wrote(t), pay' # pay PROVE \E x : PayChange(x)
<1>0. /\ tx \in [Actors -> Request] /\ pay \in [Payments -> PayRow] /\ answer' = answer
      /\ tx' = [tx EXCEPT ![t] = Idle] /\ Idle.op # "prompt"
  BY DEF Shape, Tables, Wrote, external, End, Idle
<1>1. CreatePending(t) \/ RejectFailed(t)
  BY DEF Wrote, WriteOrder, WriteCancelled, CreateInvoice, WriteVoid, ClaimAuthorized, WriteRevoked,
         LeaveMismatched, rows
<1>2. CASE CreatePending(t)
  <2>1. PICK x, row : /\ x = tx[t].pay /\ row = [inv |-> tx[t].inv, status |-> "PENDING", times |-> 0]
    OBVIOUS
  <2>2. x \in Prompts /\ answer[x] # "none" /\ pay[x].status = "none"
    BY <1>2, <2>1 DEF CreatePending, Shape, Names, PromptsOnce
  <2>3. pay' = [pay EXCEPT ![x] = row] /\ row.status = "PENDING"
    BY <1>2, <2>1 DEF CreatePending
  <2>4. \A u \in Actors : tx'[u].op = "prompt" => tx'[u] = tx[u] /\ tx[u].pay # x
    BY <1>0, <1>2, <2>1 DEF CreatePending, PromptsOnce
  <2>5. PayChange(x)
    BY <1>0, <2>2, <2>3, <2>4 DEF PayChange, Payments
  <2> QED BY <2>5
<1>3. CASE RejectFailed(t)
  <2>1. PICK x : x = tx[t].pay
    OBVIOUS
  <2>2. x \in Prompts /\ pay[x].status = "PENDING" /\ pay' = [pay EXCEPT ![x].status = "REJECTED"]
    BY <1>3, <2>1 DEF RejectFailed, Shape, Names
  <2>3. answer[x] # "none"
    BY <2>2 DEF PromptsOnce
  <2>4. \A u \in Actors : tx'[u].op = "prompt" => tx'[u] = tx[u] /\ tx[u].pay # x
    BY <1>0, <2>2 DEF PromptsOnce
  <2>5. pay'[x].status = "REJECTED"
    BY <1>0, <2>2 DEF PayRow, Payments
  <2>6. PayChange(x)
    BY <1>0, <2>2, <2>3, <2>4, <2>5 DEF PayChange, Payments
  <2> QED BY <2>6
<1> QED BY <1>1, <1>2, <1>3

LEMMA ApartPays == ASSUME Shape, PromptsOnce, Apart, pay' # pay PROVE \E x : PayChange(x)
<1>1. PICK x \in Prompts : RejectPending(x)
  BY DEF Apart, Review, Resubmit, Move, CustomerAnswers, BankNotifies, vars, rows
<1>2. pay[x].status = "PENDING" /\ pay' = [pay EXCEPT ![x].status = "REJECTED"] /\ answer' = answer /\ tx' = tx
  BY <1>1 DEF RejectPending, Outside, external
<1>3. answer[x] # "none" /\ \A u \in Actors : tx[u].op = "prompt" => tx[u].pay # x
  BY <1>2 DEF PromptsOnce
<1>4. pay'[x].status = "REJECTED" /\ x \in Payments /\ \A p \in Payments \ {x} : pay'[p] = pay[p]
  BY <1>2 DEF Shape, Tables, PayRow, Payments
<1>5. PayChange(x)
  BY <1>2, <1>3, <1>4 DEF PayChange
<1> QED BY <1>5

LEMMA PayChangeKeepsPrompts == ASSUME Shape, PromptsOnce, NEW x, PayChange(x) PROVE PromptsOnce'
<1>1. \A p \in Prompts : answer'[p] = "none" => pay'[p].status \in {"none", "unneeded"}
  BY DEF PromptsOnce, PayChange, Payments
<1>2. \A t \in Actors : tx'[t].op = "prompt" => answer'[tx'[t].pay] # "none" /\ pay'[tx'[t].pay].status = "none"
  BY DEF PromptsOnce, PayChange, Payments, Shape, Names
<1>3. \A t, u \in Actors : tx'[t].op = "prompt" /\ tx'[u].op = "prompt" /\ tx'[t].pay = tx'[u].pay => t = u
  BY DEF PromptsOnce, PayChange
<1> QED BY <1>1, <1>2, <1>3 DEF PromptsOnce

\* Payments stay as they are, and no prompt begins.
LEMMA NoPromptKeepsPrompts ==
  ASSUME Shape, PromptsOnce, \A p \in Prompts : pay'[p].status = pay[p].status,
         \A p \in Prompts : answer'[p] = "none" <=> answer[p] = "none",
         \A u \in Actors : tx'[u].op = "prompt" => tx'[u] = tx[u]
  PROVE  PromptsOnce'
<1>1. \A t \in Actors : tx'[t].op = "prompt" => tx'[t].pay \in Prompts
  BY DEF Shape, Names
<1> QED BY <1>1 DEF PromptsOnce

LEMMA AskedKeepsPrompts == ASSUME Shape, PromptsOnce, NEW t \in Actors, NEW r, Asked(t, r) PROVE PromptsOnce'
<1>0. tx \in [Actors -> Request] /\ tx' = [tx EXCEPT ![t] = r] /\ pay' = pay
  BY DEF Asked, Shape, Tables, rows
<1>1. CASE r.op # "prompt"
  <2>1. /\ \A p \in Prompts : answer'[p] = "none" <=> answer[p] = "none"
        /\ \A p \in Prompts : pay'[p].status = pay[p].status
    BY <1>0, <1>1 DEF Asked
  <2>2. \A u \in Actors : tx'[u].op = "prompt" => tx'[u] = tx[u]
    BY <1>0, <1>1
  <2> QED BY <2>1, <2>2, NoPromptKeepsPrompts
<1>2. CASE r.op = "prompt"
  <2>1. /\ r.pay \in Prompts /\ answer[r.pay] = "none" /\ pay[r.pay].status = "none"
        /\ answer' = [answer EXCEPT ![r.pay] = "asked"]
    BY <1>2 DEF Asked, Names, PromptsOnce
  <2>2. \A p \in Prompts : answer'[p] = IF p = r.pay THEN "asked" ELSE answer[p]
    BY <2>1 DEF Shape, Tables
  <2>3. \A u \in Actors : tx[u].op = "prompt" => tx[u].pay \in Prompts /\ tx[u].pay # r.pay
    BY <2>1 DEF PromptsOnce, Shape, Names
  <2>4. \A u \in Actors : tx'[u] = IF u = t THEN r ELSE tx[u]
    BY <1>0
  <2>5. \A p \in Prompts : answer'[p] = "none" => pay'[p].status \in {"none", "unneeded"}
    BY <1>0, <2>2 DEF PromptsOnce
  <2>6. \A u \in Actors : tx'[u].op = "prompt" => answer'[tx'[u].pay] # "none" /\ pay'[tx'[u].pay].status = "none"
    BY <1>0, <2>1, <2>2, <2>3, <2>4 DEF PromptsOnce
  <2>7. \A u, v \in Actors : tx'[u].op = "prompt" /\ tx'[v].op = "prompt" /\ tx'[u].pay = tx'[v].pay => u = v
    BY <2>3, <2>4 DEF PromptsOnce
  <2> QED BY <2>5, <2>6, <2>7 DEF PromptsOnce
<1> QED BY <1>1, <1>2

LEMMA SettleKeepsPrompts == ASSUME Shape, PromptsOnce, NEW t \in Actors, Settle(t) PROVE PromptsOnce'
<1>0. PICK i, x : i = tx[t].inv /\ x = tx[t].pay
  OBVIOUS
<1>1. /\ tx[t].op \in MoneyOps /\ tx' = [tx EXCEPT ![t] = Idle] /\ answer' = answer /\ x \in Payments
      /\ UNCHANGED <<pay, inv, order, books, revived>> \/ \E row \in InvRow : Settled(t, i, x, row)
  BY <1>0, SettleWrites DEF external, End
<1>2. \A u \in Actors : tx'[u].op = "prompt" => tx'[u] = tx[u]
  BY <1>1 DEF Shape, Tables, Idle
<1>3. CASE \A p \in Prompts : pay'[p].status = pay[p].status
  <2>1. \A p \in Prompts : answer'[p] = "none" <=> answer[p] = "none"
    BY <1>1
  <2> QED BY <1>2, <1>3, <2>1, NoPromptKeepsPrompts
<1>4. ASSUME NEW row \in InvRow, Settled(t, i, x, row), x \in Prompts PROVE PromptsOnce'
  <2>1. pay[x].status = "PENDING"
    BY <1>0, <1>1, <1>4, PaymentsAssumption DEF Settled, Counts, Shape, Names, MoneyOps
  <2>2. answer[x] # "none" /\ \A u \in Actors : tx[u].op = "prompt" => tx[u].pay # x
    BY <1>4, <2>1 DEF PromptsOnce
  <2>3. \A p \in Payments \ {x} : pay'[p] = pay[p]
    BY <1>4 DEF Settled, Shape, Tables
  <2>4. \A p \in Prompts : answer'[p] = "none" => pay'[p].status \in {"none", "unneeded"}
    BY <1>1, <2>2, <2>3 DEF PromptsOnce, Payments
  <2>5. \A u \in Actors : tx'[u].op = "prompt" => answer'[tx'[u].pay] # "none" /\ pay'[tx'[u].pay].status = "none"
    BY <1>1, <1>2, <2>2, <2>3 DEF PromptsOnce, Payments, Shape, Names
  <2>6. \A u, v \in Actors : tx'[u].op = "prompt" /\ tx'[v].op = "prompt" /\ tx'[u].pay = tx'[v].pay => u = v
    BY <1>2 DEF PromptsOnce
  <2> QED BY <2>4, <2>5, <2>6 DEF PromptsOnce
<1>5. ASSUME NEW row \in InvRow, Settled(t, i, x, row), x \notin Prompts PROVE \A p \in Prompts : pay'[p].status = pay[p].status
  BY <1>5 DEF Settled, Shape, Tables, Payments
<1> QED BY <1>1, <1>3, <1>4, <1>5

LEMMA PromptsNext == Shape /\ PromptsOnce /\ [Next]_vars => PromptsOnce'
<1> SUFFICES ASSUME Shape, PromptsOnce, [Next]_vars PROVE PromptsOnce'
  OBVIOUS
<1>0. tx \in [Actors -> Request] /\ Idle.op # "prompt"
  BY DEF Shape, Tables, Idle
<1>1. ASSUME NEW t \in Actors, NEW r, r.op # "prompt", tx' = [tx EXCEPT ![t] = r], answer' = answer, pay' = pay
      PROVE  PromptsOnce'
  <2>1. \A u \in Actors : tx'[u].op = "prompt" => tx'[u] = tx[u]
    BY <1>0, <1>1
  <2>2. /\ \A p \in Prompts : answer'[p] = "none" <=> answer[p] = "none"
        /\ \A p \in Prompts : pay'[p].status = pay[p].status
    BY <1>1
  <2> QED BY <2>1, <2>2, NoPromptKeepsPrompts
<1>2. ASSUME NEW t \in Actors, NEW r, Locked(t, r) PROVE PromptsOnce'
  BY <1>2, <1>1 DEF Locked, MoneyOps, rows, external
<1>3. ASSUME NEW t \in Actors, Wrote(t) PROVE PromptsOnce'
  <2>1. CASE pay' = pay
    BY <1>0, <1>3, <1>1, <2>1 DEF Wrote, End, external
  <2>2. CASE pay' # pay
    BY <1>3, <2>2, WrotePays, PayChangeKeepsPrompts
  <2> QED BY <2>1, <2>2
<1>4. ASSUME NEW t \in Actors, Crash(t) PROVE PromptsOnce'
  BY <1>0, <1>4, <1>1 DEF Crash, End, rows, external
<1>5. ASSUME Apart PROVE PromptsOnce'
  <2>1. CASE pay' = pay
    <3>1. tx' = tx
      BY <1>5, ApartLeaves
    <3>2. CASE answer' = answer
      BY <2>1, <3>1, <3>2, NoPromptKeepsPrompts
    <3>3. CASE \E p \in Prompts : CustomerAnswers(p)
      <4>1. \A q \in Prompts : answer'[q] = "none" <=> answer[q] = "none"
        BY <3>3 DEF CustomerAnswers, Shape, Tables
      <4> QED BY <2>1, <3>1, <4>1, NoPromptKeepsPrompts
    <3> QED BY <1>5, <3>2, <3>3 DEF Apart, Review, Resubmit, Move, RejectPending, BankNotifies, vars, Outside,
               external
  <2>2. CASE pay' # pay
    BY <1>5, <2>2, ApartPays, PayChangeKeepsPrompts
  <2> QED BY <2>1, <2>2
<1> QED BY <1>2, <1>3, <1>4, <1>5, AskedKeepsPrompts, SettleKeepsPrompts, Kinds

LEMMA PromptsInit == Init => PromptsOnce
<1> SUFFICES ASSUME Init PROVE PromptsOnce
  OBVIOUS
<1>1. \A t \in Actors : tx[t].op # "prompt"
  BY DEF Init, Idle, Away
<1>2. \A p \in Prompts : pay[p].status \in {"none", "unneeded"}
  BY DEF Init, Payments
<1> QED BY <1>1, <1>2 DEF PromptsOnce


-----------------------------------------------------------------------------
(* What invoices show as paid *)

LEMMA ChangeKeepsMoney ==
  ASSUME Shape, Shape', EachPaymentCountsOnce, EachPaymentCountsOnce', NEW x, PayChange(x)
  PROVE  \A i : MoneyIn(pay', i) = MoneyIn(pay, i)
<1>1. pay \in [Payments -> PayRow] /\ pay' \in [Payments -> PayRow]
  BY DEF Shape, Tables
<1>2. pay[x].times = 0 /\ pay'[x].times = 0
  BY DEF PayChange, EachPaymentCountsOnce
<1> QED BY <1>1, <1>2, MoneyStays DEF PayChange

LEMMA WroteKeepsMoney ==
  ASSUME Shape, Shape', PromptsOnce, EachPaymentCountsOnce, EachPaymentCountsOnce', NEW t \in Actors, Wrote(t)
  PROVE  \A i : MoneyIn(pay', i) = MoneyIn(pay, i)
BY WrotePays, ChangeKeepsMoney

LEMMA ApartKeepsMoney ==
  ASSUME Shape, Shape', PromptsOnce, EachPaymentCountsOnce, EachPaymentCountsOnce', Apart
  PROVE  \A i : MoneyIn(pay', i) = MoneyIn(pay, i)
BY ApartPays, ChangeKeepsMoney

LEMMA SettledAddsMoney ==
  ASSUME Shape, Shape', EachPaymentCountsOnce, NEW t, NEW i \in Invoices, NEW p \in Payments, NEW row \in InvRow,
         Settled(t, i, p, row)
  PROVE  \A j : MoneyIn(pay', j) = MoneyIn(pay, j) + IF i = j THEN Amount[p] ELSE 0
<1>1. pay \in [Payments -> PayRow] /\ pay' \in [Payments -> PayRow]
  BY DEF Shape, Tables
<1>2. pay[p].times = 0
  BY DEF Settled, Counts, EachPaymentCountsOnce
<1>3. /\ \A q \in Payments \ {p} : pay'[q] = pay[q]
      /\ pay'[p].times = 1 /\ pay'[p].inv = i
  BY <1>1, <1>2 DEF Settled
<1> QED BY <1>1, <1>2, <1>3, MoneyAdds

MoneyInvariant == Shape /\ LocksHeld /\ PromptsOnce /\ PaymentInvariant /\ SeenUnderLock /\ PaidIsMoney

\* A step after which no other money is there, and nobody has added anything up.
LEMMA SeenStays ==
  ASSUME Shape, SeenUnderLock, \A i : MoneyIn(pay', i) = MoneyIn(pay, i),
         \A u \in Actors : tx'[u].op \in MoneyOps => tx'[u] = tx[u]
  PROVE  SeenUnderLock'
BY DEF SeenUnderLock

LEMMA SeenNext == MoneyInvariant /\ Shape' /\ PaymentInvariant' /\ [Next]_vars => SeenUnderLock'
<1> SUFFICES ASSUME MoneyInvariant, Shape', PaymentInvariant', [Next]_vars PROVE SeenUnderLock'
  OBVIOUS
<1> USE DEF MoneyInvariant, PaymentInvariant
<1>0. tx \in [Actors -> Request]
  BY DEF Shape, Tables
<1>1. ASSUME NEW t \in Actors, NEW r, r.op \notin MoneyOps, tx' = [tx EXCEPT ![t] = r],
             \A i : MoneyIn(pay', i) = MoneyIn(pay, i)
      PROVE  SeenUnderLock'
  <2>1. \A u \in Actors : tx'[u].op \in MoneyOps => tx'[u] = tx[u]
    BY <1>0, <1>1
  <2> QED BY <1>1, <2>1, SeenStays
<1>2. ASSUME NEW t \in Actors, NEW r, Asked(t, r) PROVE SeenUnderLock'
  BY <1>1, <1>2 DEF Asked, rows
<1>3. ASSUME NEW t \in Actors, NEW r, Locked(t, r) PROVE SeenUnderLock'
  <2>1. tx' = [tx EXCEPT ![t] = r] /\ r.seen = MoneyIn(pay, r.inv) /\ pay' = pay
    BY <1>3 DEF Locked, rows
  <2> QED BY <1>0, <2>1 DEF SeenUnderLock
<1>4. ASSUME NEW t \in Actors, Wrote(t) PROVE SeenUnderLock'
  BY <1>1, <1>4, WroteKeepsMoney, NoMoneyIdle DEF Wrote, End
<1>5. ASSUME NEW t \in Actors, Settle(t) PROVE SeenUnderLock'
  <2>1. PICK i, p : i = tx[t].inv /\ p = tx[t].pay
    OBVIOUS
  <2>2. /\ i \in Invoices /\ p \in Payments /\ tx[t].op \in MoneyOps /\ tx' = [tx EXCEPT ![t] = Idle]
        /\ UNCHANGED <<pay, inv, order, books, revived>> \/ \E row \in InvRow : Settled(t, i, p, row)
    BY <1>5, <2>1, SettleWrites DEF End
  <2>3. CASE pay' = pay
    BY <1>1, <2>2, <2>3, NoMoneyIdle
  <2>4. ASSUME NEW row \in InvRow, Settled(t, i, p, row) PROVE SeenUnderLock'
    <3>1. \A j : j # i => MoneyIn(pay', j) = MoneyIn(pay, j)
      <4>1. \A j : MoneyIn(pay, j) \in Nat
        BY MoneyNat DEF Shape, Tables
      <4> QED BY SMTT(40), <2>2, <2>4, <4>1, SettledAddsMoney
    <3>2. \A u \in Actors : tx'[u].op \in MoneyOps => tx'[u] = tx[u] /\ u # t
      BY <1>0, <2>2, NoMoneyIdle
    <3>3. lock[i] = t
      BY <2>1, <2>2 DEF LocksHeld
    <3>4. \A u \in Actors : tx'[u].op \in MoneyOps => tx[u].inv # i
      BY <2>2, <3>2, <3>3 DEF LocksHeld
    <3> QED BY <3>1, <3>2, <3>4 DEF SeenUnderLock
  <2> QED BY <2>2, <2>3, <2>4
<1>6. ASSUME NEW t \in Actors, Crash(t) PROVE SeenUnderLock'
  BY <1>1, <1>6, NoMoneyIdle DEF Crash, End, rows
<1>7. ASSUME Apart PROVE SeenUnderLock'
  BY <1>7, ApartKeepsMoney, ApartLeaves, SeenStays
<1> QED BY <1>2, <1>3, <1>4, <1>5, <1>6, <1>7, Kinds

\* What a request other than the end of a payment does to invoices.
LEMMA WroteKeepsPaid ==
  ASSUME Shape, NEW t \in Actors, Wrote(t)
  PROVE  \A i \in Invoices : /\ inv'[i].paid = inv[i].paid
                             /\ Used(i) => inv'[i].total = inv[i].total /\ Used(i)'
<1>0. inv \in [Invoices -> InvRow]
  BY DEF Shape, Tables
<1>1. CASE WriteCancelled(t)
  BY <1>0, <1>1 DEF WriteCancelled, InvRow, Used
<1>2. CASE CreateInvoice(t)
  <2>1. PICK i \in Invoices :
          inv[i] = Unused /\ inv' = [inv EXCEPT ![i] = [status |-> "ISSUED", total |-> tx[t].seen, paid |-> 0]]
    BY <1>2 DEF CreateInvoice
  <2> QED BY <1>0, <2>1 DEF Unused, Used
<1>3. CASE WriteVoid(t)
  <2>1. PICK i \in Invoices : i = tx[t].inv
    BY <1>3 DEF WriteVoid, Shape, Names
  <2>2. inv' = inv \/ inv' = [inv EXCEPT ![i] = [inv[i] EXCEPT !.status = "VOID"]]
    BY <1>3, <2>1 DEF WriteVoid
  <2>3. [inv[i] EXCEPT !.status = "VOID"] = [status |-> "VOID", total |-> inv[i].total, paid |-> inv[i].paid]
    BY <1>0, <2>1 DEF InvRow
  <2> QED BY <1>0, <2>2, <2>3 DEF Used
<1>4. CASE inv' = inv
  BY <1>4 DEF Used
<1> QED BY <1>1, <1>2, <1>3, <1>4
        DEF Wrote, WriteOrder, ClaimAuthorized, WriteRevoked, CreatePending, RejectFailed, LeaveMismatched, rows

LEMMA PaidNext == MoneyInvariant /\ Shape' /\ PaymentInvariant' /\ [Next]_vars => PaidIsMoney'
<1> SUFFICES ASSUME MoneyInvariant, Shape', PaymentInvariant', [Next]_vars PROVE PaidIsMoney'
  OBVIOUS
<1> USE DEF MoneyInvariant, PaymentInvariant
<1>1. CASE UNCHANGED <<inv, pay>>
  BY <1>1 DEF PaidIsMoney
<1>2. ASSUME NEW t \in Actors, Wrote(t) PROVE PaidIsMoney'
  BY <1>2, WroteKeepsMoney, WroteKeepsPaid DEF PaidIsMoney
<1>3. ASSUME NEW t \in Actors, Settle(t) PROVE PaidIsMoney'
  <2>1. PICK i, p : i = tx[t].inv /\ p = tx[t].pay
    OBVIOUS
  <2>2. /\ i \in Invoices /\ p \in Payments /\ tx[t].op \in MoneyOps /\ Amount[p] \in Nat \ {0}
        /\ UNCHANGED <<pay, inv, order, books, revived>> \/ \E row \in InvRow : Settled(t, i, p, row)
    BY <1>3, <2>1, SettleWrites
  <2>3. ASSUME NEW row \in InvRow, Settled(t, i, p, row) PROVE PaidIsMoney'
    <3>1. \A j : MoneyIn(pay', j) = MoneyIn(pay, j) + IF i = j THEN Amount[p] ELSE 0
      BY <2>2, <2>3, SettledAddsMoney
    <3>2. row.paid = MoneyIn(pay, i) + Amount[p]
      BY <2>1, <2>2, <2>3 DEF Settled, SeenUnderLock
    <3>3. \A j \in Invoices : inv'[j] = IF j = i THEN row ELSE inv[j]
      BY <2>2, <2>3 DEF Settled, Shape, Tables
    <3>4. \A j : MoneyIn(pay, j) \in Nat
      BY MoneyNat DEF Shape, Tables
    <3> QED BY <3>1, <3>2, <3>3, <3>4 DEF PaidIsMoney
  <2> QED BY <1>1, <2>2, <2>3
<1>4. ASSUME Apart PROVE PaidIsMoney'
  BY <1>4, ApartKeepsMoney, ApartLeaves DEF PaidIsMoney
<1> QED BY <1>1, <1>2, <1>3, <1>4, Kinds DEF Asked, Locked, Crash, rows

LEMMA NoMoneyAtFirst == Init => \A i \in Invoices : MoneyIn(pay, i) = 0
<1> SUFFICES ASSUME Init, NEW i \in Invoices PROVE MoneyIn(pay, i) = 0
  OBVIOUS
<1>1. {p \in Payments : pay[p].inv = i} = {}
  BY PaymentsAssumption DEF Init
<1> QED BY <1>1, SumEmpty DEF MoneyIn

LEMMA MoneyInit == Init => MoneyInvariant
<1> SUFFICES ASSUME Init PROVE MoneyInvariant
  OBVIOUS
<1>1. \A t \in Actors : tx[t] \in {Idle, Away}
  BY DEF Init
<1>2. SeenUnderLock
  BY <1>1, NoMoneyIdle DEF SeenUnderLock
<1>3. PaidIsMoney
  BY NoMoneyAtFirst DEF Init, Unused, PaidIsMoney
<1> QED BY <1>2, <1>3, ShapeInit, LocksInit, PromptsInit, PaymentInit DEF MoneyInvariant

LEMMA MoneyNext == MoneyInvariant /\ [Next]_vars => MoneyInvariant'
<1> SUFFICES ASSUME MoneyInvariant, [Next]_vars PROVE MoneyInvariant'
  OBVIOUS
<1>1. Shape' /\ LocksHeld' /\ PromptsOnce' /\ PaymentInvariant'
  BY ShapeNext, LocksNext, PromptsNext, PaymentNext DEF MoneyInvariant
<1>2. SeenUnderLock' /\ PaidIsMoney'
  BY <1>1, SeenNext, PaidNext
<1> QED BY <1>1, <1>2 DEF MoneyInvariant

\* An invoice shows as paid exactly its confirmed payments added up, however many requests, jobs and
\* callbacks confirm payments on it at once: each adds up what is there under the lock of the invoice.
THEOREM InvoicesShowTheirMoney == Spec => []TotalsAgree
<1>1. MoneyInvariant => TotalsAgree
  BY MoneyIs DEF MoneyInvariant, PaidIsMoney, TotalsAgree
<1> QED BY MoneyInit, MoneyNext, <1>1, PTL DEF Spec


-----------------------------------------------------------------------------
(* What the order shows as paid *)

OrderPaidIsMoney ==
    LET paid == {i \in Invoices : MoneyIn(pay, i) > 0}
    IN Cardinality(paid) <= 1 => order.paid = SumFunctionOnSet([i \in Invoices |-> MoneyIn(pay, i)], paid)

\* The order takes over what the invoice shows that has just been paid.
LEMMA OrderPaidNext ==
  ASSUME MoneyInvariant, MoneyInvariant', OrderPaidIsMoney, [Next]_vars
  PROVE  OrderPaidIsMoney'
<1> USE DEF MoneyInvariant, PaymentInvariant
<1>1. ASSUME order'.paid = order.paid, \A i : MoneyIn(pay', i) = MoneyIn(pay, i) PROVE OrderPaidIsMoney'
  <2>1. [i \in Invoices |-> MoneyIn(pay', i)] = [i \in Invoices |-> MoneyIn(pay, i)]
    BY <1>1
  <2>2. {i \in Invoices : MoneyIn(pay', i) > 0} = {i \in Invoices : MoneyIn(pay, i) > 0}
    BY <1>1
  <2> QED BY <1>1, <2>1, <2>2 DEF OrderPaidIsMoney
<1>2. ASSUME NEW t \in Actors, Wrote(t) PROVE OrderPaidIsMoney'
  <2>0. order \in OrderRow
    BY DEF Shape, Tables
  <2>1. order'.paid = order.paid
    <3>1. CASE WriteOrder(t) \/ WriteCancelled(t)
      BY <2>0, <3>1 DEF WriteOrder, WriteCancelled, OrderRow
    <3>2. CASE CreateInvoice(t) \/ WriteRevoked(t)
      BY <2>0, <3>2 DEF CreateInvoice, WriteRevoked, OrderRow
    <3>3. CASE WriteVoid(t) \/ ClaimAuthorized(t)
      BY <2>0, <3>3 DEF WriteVoid, ClaimAuthorized, OrderRow
    <3>4. CASE CreatePending(t) \/ RejectFailed(t) \/ LeaveMismatched(t)
      BY <3>4 DEF CreatePending, RejectFailed, LeaveMismatched, rows
    <3> QED BY <1>2, <3>1, <3>2, <3>3, <3>4 DEF Wrote
  <2> QED BY <1>1, <1>2, <2>1, WroteKeepsMoney
<1>3. ASSUME NEW t \in Actors, Settle(t) PROVE OrderPaidIsMoney'
  <2>1. PICK i, p : i = tx[t].inv /\ p = tx[t].pay
    OBVIOUS
  <2>2. /\ i \in Invoices /\ p \in Payments /\ Amount[p] \in Nat \ {0} /\ tx[t].seen \in Nat
        /\ UNCHANGED <<pay, inv, order, books, revived>> \/ \E row \in InvRow : Settled(t, i, p, row)
    BY <1>3, <2>1, SettleWrites
  <2>3. ASSUME NEW row \in InvRow, Settled(t, i, p, row) PROVE OrderPaidIsMoney'
    <3> DEFINE f == [j \in Invoices |-> MoneyIn(pay', j)]
               S == {j \in Invoices : MoneyIn(pay', j) > 0}
    <3>1. order'.paid = row.paid /\ row.paid > 0
      <4>1. row.paid = tx[t].seen + Amount[p] /\ order'.paid = row.paid
        BY <2>3 DEF Settled, Shape, Tables, OrderRow
      <4> QED BY <2>2, <4>1
    <3>2. inv'[i].paid = row.paid
      BY <2>2, <2>3 DEF Settled, Shape, Tables
    <3>3. row.paid = MoneyIn(pay', i)
      BY <2>2, <3>2 DEF PaidIsMoney
    <3>4. i \in S /\ f[i] = row.paid /\ f[i] \in Nat
      BY <2>2, <3>1, <3>3 DEF InvRow
    <3>5. IsFiniteSet(S)
      BY PaymentsAssumption, FS_Subset
    <3>6. OrderPaidIsMoney' <=> (Cardinality(S) <= 1 => order'.paid = SumFunctionOnSet(f, S))
      BY DEF OrderPaidIsMoney
    <3> HIDE DEF f, S
    <3>7. ASSUME Cardinality(S) <= 1 PROVE S = {i}
      <4>1. Cardinality({i}) = 1
        BY FS_Singleton
      <4>2. Cardinality(S) = Cardinality({i})
        BY <3>4, <3>5, <3>7, <4>1, FS_Subset, FS_CardinalityType
      <4> QED BY <3>4, <3>5, <4>2, FS_Subset
    <3>8. SumFunctionOnSet(f, {i}) = f[i]
      <4>1. {i} \ {i} = {} /\ IsFiniteSet({i})
        BY FS_Singleton
      <4>2. SumFunctionOnSet(f, {i}) = f[i] + SumFunctionOnSet(f, {})
        BY <3>4, <4>1, SumRemove
      <4> QED BY <3>4, <4>2, SumEmpty
    <3> QED BY <3>1, <3>4, <3>6, <3>7, <3>8
  <2>4. CASE order' = order /\ pay' = pay
    BY <1>1, <2>4
  <2> QED BY <2>2, <2>3, <2>4
<1>4. ASSUME Apart PROVE OrderPaidIsMoney'
  <2>1. order'.paid = order.paid
    BY <1>4 DEF Apart, Review, Resubmit, Move, RejectPending, CustomerAnswers, BankNotifies, vars, rows, Shape, Tables,
           OrderRow
  <2> QED BY <1>1, <1>4, <2>1, ApartKeepsMoney
<1>5. CASE order' = order /\ pay' = pay
  BY <1>1, <1>5
<1> QED BY <1>2, <1>3, <1>4, <1>5, Kinds DEF Asked, Locked, Crash, rows

LEMMA OrderPaidInit == Init => OrderPaidIsMoney
<1> SUFFICES ASSUME Init PROVE OrderPaidIsMoney
  OBVIOUS
<1>1. {i \in Invoices : MoneyIn(pay, i) > 0} = {}
  BY NoMoneyAtFirst
<1>2. order.paid = 0
  BY DEF Init
<1> QED BY <1>1, <1>2, SumEmpty DEF OrderPaidIsMoney

\* The order shows the money it has received, as long as all of it is on one invoice.
THEOREM OrdersShowTheirMoney == Spec => []OrderShowsItsMoney
<1>1. OrderPaidIsMoney => OrderShowsItsMoney
  <2>1. {i \in Invoices : MoneyIn(pay, i) > 0} = {i \in Invoices : Money(i) > 0}
    BY MoneyIs
  <2>2. [i \in Invoices |-> MoneyIn(pay, i)] = [i \in Invoices |-> Money(i)]
    BY MoneyIs
  <2> QED BY <2>1, <2>2 DEF OrderPaidIsMoney, OrderShowsItsMoney
<1>2. MoneyInvariant /\ OrderPaidIsMoney /\ [Next]_vars => MoneyInvariant' /\ OrderPaidIsMoney'
  BY MoneyNext, OrderPaidNext
<1> QED BY MoneyInit, OrderPaidInit, <1>1, <1>2, PTL DEF Spec


-----------------------------------------------------------------------------
(* The books *)

\* What the books hold of an invoice that has not been voided with its order.
BooksHold ==
    \A i \in Invoices \ unbooked : books[i] = [due |-> IF Live(i) THEN inv[i].total ELSE 0, cash |-> inv[i].paid]

LEMMA BookedHolds ==
  ASSUME NEW row \in InvRow, row.status # "unused"
  PROVE  Booked(row) = [due |-> IF row.status \notin {"unused", "VOID"} THEN row.total ELSE 0, cash |-> row.paid]
BY DEF Booked, InvRow

\* The row of one invoice is written, and booked.
LEMMA BookingKeepsBooks ==
  ASSUME Shape, BooksHold, NEW i \in Invoices, NEW row \in InvRow, row.status # "unused",
         inv' = [inv EXCEPT ![i] = row], books' = [books EXCEPT ![i] = Booked(row)], unbooked' = unbooked
  PROVE  BooksHold'
<1>1. /\ \A j \in Invoices : inv'[j] = IF j = i THEN row ELSE inv[j]
      /\ \A j \in Invoices : books'[j] = IF j = i THEN Booked(row) ELSE books[j]
  BY DEF Shape, Tables
<1> QED BY <1>1, BookedHolds DEF BooksHold, Live

LEMMA WroteKeepsBooks == ASSUME Shape, Shape', BooksHold, NEW t \in Actors, Wrote(t) PROVE BooksHold'
<1>0. inv \in [Invoices -> InvRow]
  BY DEF Shape, Tables
<1>1. CASE WriteCancelled(t)
  <2>1. /\ unbooked' = unbooked \cup {i \in Invoices : Live(i)} /\ books' = books
        /\ inv' = [i \in Invoices |-> IF i \in {j \in Invoices : Live(j)} THEN [inv[i] EXCEPT !.status = "VOID"]
                                                                         ELSE inv[i]]
    BY <1>1 DEF WriteCancelled
  <2>2. \A i \in Invoices \ unbooked' : i \notin unbooked /\ inv'[i] = inv[i]
    BY <2>1
  <2> QED BY <2>1, <2>2 DEF BooksHold, Live
<1>2. CASE CreateInvoice(t)
  <2>1. PICK row : row = [status |-> "ISSUED", total |-> tx[t].seen, paid |-> 0]
    OBVIOUS
  <2>2. PICK i \in Invoices : inv' = [inv EXCEPT ![i] = row] /\ books' = [books EXCEPT ![i] = Booked(inv'[i])]
    BY <1>2, <2>1 DEF CreateInvoice
  <2>3. row \in InvRow /\ row.status # "unused" /\ inv'[i] = row /\ unbooked' = unbooked
    BY <1>0, <1>2, <2>1, <2>2 DEF CreateInvoice, Shape, Names, InvRow, history
  <2>4. books' = [books EXCEPT ![i] = Booked(row)]
    BY <2>2, <2>3
  <2> QED BY <2>2, <2>3, <2>4, BookingKeepsBooks
<1>3. CASE WriteVoid(t)
  <2>1. PICK i \in Invoices : i = tx[t].inv
    BY <1>3 DEF WriteVoid, Shape, Names
  <2>2. CASE ~Live(i)
    BY <1>3, <2>1, <2>2 DEF WriteVoid, BooksHold, Live, history
  <2>3. CASE Live(i)
    <3>1. PICK row : row = [inv[i] EXCEPT !.status = "VOID"]
      OBVIOUS
    <3>2. inv' = [inv EXCEPT ![i] = row] /\ books' = [books EXCEPT ![i] = Booked(inv'[i])] /\ unbooked' = unbooked
      BY <1>3, <2>1, <2>3, <3>1 DEF WriteVoid, history
    <3>3. row \in InvRow /\ row.status # "unused" /\ inv'[i] = row
      BY <1>0, <3>1, <3>2 DEF InvRow
    <3>4. books' = [books EXCEPT ![i] = Booked(row)]
      BY <3>2, <3>3
    <3> QED BY <3>2, <3>3, <3>4, BookingKeepsBooks
  <2> QED BY <2>2, <2>3
<1>4. CASE UNCHANGED <<inv, books, unbooked>>
  BY <1>4 DEF BooksHold, Live
<1> QED BY <1>1, <1>2, <1>3, <1>4
        DEF Wrote, WriteOrder, ClaimAuthorized, WriteRevoked, CreatePending, RejectFailed, LeaveMismatched,
            rows, history

LEMMA BooksNext == MoneyInvariant /\ BooksHold /\ [Next]_vars => BooksHold'
<1> SUFFICES ASSUME MoneyInvariant, BooksHold, [Next]_vars PROVE BooksHold'
  OBVIOUS
<1>0. Shape /\ Shape'
  BY ShapeNext DEF MoneyInvariant
<1>1. CASE UNCHANGED <<inv, books, unbooked>>
  BY <1>1 DEF BooksHold, Live
<1>2. ASSUME NEW t \in Actors, Settle(t) PROVE BooksHold'
  <2>1. PICK i, p : i = tx[t].inv /\ p = tx[t].pay
    OBVIOUS
  <2>2. /\ i \in Invoices /\ unbooked' = unbooked
        /\ UNCHANGED <<pay, inv, order, books, revived>> \/ \E row \in InvRow : Settled(t, i, p, row)
    BY <1>0, <1>2, <2>1, SettleWrites
  <2>3. ASSUME NEW row \in InvRow, Settled(t, i, p, row) PROVE BooksHold'
    BY <1>0, <2>2, <2>3, BookingKeepsBooks DEF Settled
  <2> QED BY <1>1, <2>2, <2>3
<1>3. ASSUME Apart PROVE BooksHold'
  BY <1>1, <1>3, ApartLeaves DEF history
<1> QED BY <1>0, <1>1, <1>2, <1>3, WroteKeepsBooks, Kinds DEF Asked, Locked, Crash, rows, history

LEMMA BooksInit == Init => BooksHold
BY DEF Init, BooksHold, Live, Unused

\* The books hold the total of every invoice in force, nothing of a void one, and the money received, for
\* every invoice but those voided with their order.
THEOREM BooksFollowInvoices == Spec => []BooksFollow
<1>1. MoneyInvariant /\ BooksHold => BooksFollow
  BY MoneyIs DEF MoneyInvariant, PaidIsMoney, BooksHold, BooksFollow
<1> QED BY MoneyInit, MoneyNext, BooksInit, BooksNext, <1>1, PTL DEF Spec

-----------------------------------------------------------------------------
(* Release *)

\* An invoice that is paid up stays so: no money is given back, and its total stands.
LEMMA PaidUpStays ==
  ASSUME Shape, Shape', PaidUp, \A i \in Invoices : Used(i) => Used(i)' /\ inv'[i].total = inv[i].total,
         \A i \in Invoices : MoneyIn(pay', i) >= MoneyIn(pay, i),
         lateEdit' \/ (~lateEdit /\ order'.total = order.total)
  PROVE  PaidUp'
<1>1. PICK i \in Invoices : Used(i) /\ MoneyIn(pay, i) >= inv[i].total /\ (lateEdit \/ inv[i].total = order.total)
  BY DEF PaidUp
<1>2. Used(i)' /\ inv'[i].total = inv[i].total
  BY <1>1
<1>3. MoneyIn(pay', i) >= inv'[i].total
  <2>1. MoneyIn(pay, i) \in Nat /\ MoneyIn(pay', i) \in Nat /\ inv[i].total \in Nat
    <3>1. MoneyIn(pay, i) \in Nat
      BY MoneyNat DEF Shape, Tables
    <3>2. MoneyIn(pay', i) \in Nat
      BY MoneyNat DEF Shape, Tables
    <3>3. inv[i].total \in Nat
      <4>1. inv[i].total \in Totals \cup {0}
        BY DEF Shape, Tables, InvRow
      <4>2. Totals \subseteq Nat
        BY PaymentsAssumption
      <4>3. CASE inv[i].total \in Totals
        BY <4>2, <4>3
      <4>4. CASE inv[i].total = 0
        BY <4>4
      <4> QED BY <4>1, <4>3, <4>4
    <3> QED BY <3>1, <3>2, <3>3
  <2>2. MoneyIn(pay', i) >= MoneyIn(pay, i)
    OBVIOUS
  <2> QED BY <1>1, <1>2, <2>1, <2>2
<1>4. lateEdit' \/ inv'[i].total = order'.total
  BY <1>1, <1>2
<1> QED BY <1>2, <1>3, <1>4 DEF PaidUp


LEMMA RequestsNext ==
  ASSUME Shape, [Next]_vars, NEW u \in Actors, tx'[u] # tx[u]
  PROVE  /\ tx'[u].op = "issue" => tx'[u].seen = order.total /\ order.status = "APPROVED" /\ order' = order
         /\ tx'[u].op = "authorize" => order.pay = "PAID"
<1>0. tx \in [Actors -> Request] /\ Idle.op = "idle"
  BY DEF Shape, Tables, Idle
<1>1. ASSUME NEW t \in Actors, NEW r, tx' = [tx EXCEPT ![t] = r] PROVE tx'[u] = r
  BY <1>0, <1>1
<1>2. ASSUME NEW t \in Actors, NEW r, Asked(t, r) PROVE tx'[u] = r
  BY <1>1, <1>2 DEF Asked
<1>3. ASSUME NEW t \in Actors, NEW r, Locked(t, r) PROVE tx'[u].op \in MoneyOps
  BY <1>1, <1>3 DEF Locked
<1>4. ASSUME NEW t \in Actors, Wrote(t) \/ Settle(t) \/ Crash(t) PROVE tx'[u].op = "idle"
  <2>1. End(t)
    BY <1>4 DEF Wrote, Settle, Crash
  <2> QED BY <1>0, <1>1, <2>1 DEF End
<1>5. ~Apart
  BY ApartLeaves
<1>6. ASSUME NEW t \in Actors, NEW r, Asked(t, r)
      PROVE  /\ tx'[u].op = "issue" => tx'[u].seen = order.total /\ order.status = "APPROVED" /\ order' = order
             /\ tx'[u].op = "authorize" => order.pay = "PAID"
  BY <1>2, <1>6 DEF Asked, rows
<1> QED BY <1>3, <1>4, <1>5, <1>6, Kinds DEF MoneyOps

\* Invoices that have been issued keep their total; one that is issued has the total its request read.
LEMMA InvoicesNext ==
  ASSUME Shape, [Next]_vars, NEW i \in Invoices
  PROVE  /\ Used(i) => Used(i)' /\ inv'[i].total = inv[i].total
         /\ ~Used(i) /\ Used(i)' => /\ order'.status = "INVOICED"
                                    /\ \E t \in Actors : tx[t].op = "issue" /\ inv'[i].total = tx[t].seen
<1>0. inv \in [Invoices -> InvRow] /\ order \in OrderRow
  BY DEF Shape, Tables
<1>1. CASE inv' = inv
  BY <1>1 DEF Used
<1>2. ASSUME NEW t \in Actors, Settle(t) PROVE Used(i)' = Used(i) /\ inv'[i].total = inv[i].total
  <2>1. PICK j, p : j = tx[t].inv /\ p = tx[t].pay
    OBVIOUS
  <2>2. j \in Invoices /\ Used(j) /\ (inv' = inv \/ \E row \in InvRow : Settled(t, j, p, row))
    BY <1>2, <2>1, SettleWrites
  <2> QED BY <1>0, <1>1, <2>2 DEF Settled, Used
<1>3. ASSUME NEW t \in Actors, Wrote(t)
      PROVE  ~Used(i) /\ Used(i)' => /\ order'.status = "INVOICED"
                                     /\ tx[t].op = "issue" /\ inv'[i].total = tx[t].seen
  <2>1. CASE CreateInvoice(t)
    BY <1>0, <2>1 DEF CreateInvoice, Used, OrderRow
  <2>2. CASE WriteCancelled(t)
    BY <2>2 DEF WriteCancelled, Used, Live
  <2>3. CASE WriteVoid(t)
    <3>1. PICK j \in Invoices : j = tx[t].inv
      BY <2>3 DEF WriteVoid, Shape, Names
    <3>2. Used(j) /\ (inv' = inv \/ inv' = [inv EXCEPT ![j] = [inv[j] EXCEPT !.status = "VOID"]])
      BY <2>3, <3>1 DEF WriteVoid, Shape, Names
    <3> QED BY <1>0, <3>2 DEF Used
  <2>4. CASE inv' = inv
    BY <2>4 DEF Used
  <2> QED BY <1>3, <2>1, <2>2, <2>3, <2>4
          DEF Wrote, WriteOrder, ClaimAuthorized, WriteRevoked, CreatePending, RejectFailed, LeaveMismatched, rows
<1>4. ASSUME NEW t \in Actors, Wrote(t) PROVE Used(i) => Used(i)' /\ inv'[i].total = inv[i].total
  BY <1>4, WroteKeepsPaid
<1>5. Apart => inv' = inv
  BY ApartLeaves
<1> QED BY <1>1, <1>2, <1>3, <1>4, <1>5, Kinds DEF Asked, Locked, Crash, rows

LEMMA MoneyGrows ==
  ASSUME MoneyInvariant, MoneyInvariant', [Next]_vars, NEW i \in Invoices
  PROVE  MoneyIn(pay', i) >= MoneyIn(pay, i)
<1> USE DEF MoneyInvariant, PaymentInvariant
<1>1. MoneyIn(pay, i) \in Nat
  BY MoneyNat DEF Shape, Tables
<1>2. CASE MoneyIn(pay', i) = MoneyIn(pay, i)
  BY <1>1, <1>2
<1>3. ASSUME NEW t \in Actors, Settle(t) PROVE MoneyIn(pay', i) >= MoneyIn(pay, i)
  <2>1. PICK j, p : j = tx[t].inv /\ p = tx[t].pay
    OBVIOUS
  <2>2. /\ j \in Invoices /\ p \in Payments /\ Amount[p] \in Nat
        /\ pay' = pay \/ \E row \in InvRow : Settled(t, j, p, row)
    BY <1>3, <2>1, SettleWrites
  <2>3. ASSUME NEW row \in InvRow, Settled(t, j, p, row) PROVE MoneyIn(pay', i) >= MoneyIn(pay, i)
    <3>1. MoneyIn(pay', i) = MoneyIn(pay, i) + IF j = i THEN Amount[p] ELSE 0
      BY <2>2, <2>3, SettledAddsMoney
    <3> QED BY <1>1, <2>2, <3>1
  <2> QED BY <1>2, <2>2, <2>3
<1>4. ASSUME NEW t \in Actors, Wrote(t) PROVE MoneyIn(pay', i) = MoneyIn(pay, i)
  BY <1>4, WroteKeepsMoney
<1>5. ASSUME Apart PROVE MoneyIn(pay', i) = MoneyIn(pay, i)
  BY <1>5, ApartKeepsMoney
<1> QED BY <1>2, <1>3, <1>4, <1>5, Kinds DEF Asked, Locked, Crash, rows

\* The total of an order is corrected while it is back with the salesperson, or late.
LEMMA TotalNext ==
  ASSUME Shape, [Next]_vars
  PROVE  \/ lateEdit'
         \/ /\ ~lateEdit
            /\ order'.total = order.total \/ (order.status = "RETURNED" /\ order'.status = "RETURNED")
<1>0. order \in OrderRow /\ lateEdit \in BOOLEAN
  BY DEF Shape, Tables
<1> DEFINE Kept == \/ lateEdit'
                   \/ /\ ~lateEdit
                      /\ order'.total = order.total \/ (order.status = "RETURNED" /\ order'.status = "RETURNED")
<1>1. ASSUME order'.total = order.total, lateEdit' = lateEdit PROVE Kept
  <2>1. CASE lateEdit
    BY <1>1, <2>1
  <2>2. CASE ~lateEdit
    BY <1>1, <2>2
  <2> QED BY <2>1, <2>2
<1>6. CASE order' = order /\ lateEdit' = lateEdit
  BY <1>1, <1>6
<1>2. ASSUME NEW t \in Actors, WriteOrder(t)
      PROVE  Kept
  <2>1. lateEdit' = (lateEdit \/ order.status # "RETURNED") /\ order'.status = order.status
    BY <1>0, <1>2 DEF WriteOrder, OrderRow
  <2>2. CASE lateEdit \/ order.status # "RETURNED"
    BY <2>1, <2>2
  <2>3. CASE ~lateEdit /\ order.status = "RETURNED"
    BY <2>1, <2>3
  <2> QED BY <2>2, <2>3
<1>3. ASSUME NEW t \in Actors, Wrote(t), ~WriteOrder(t) PROVE order'.total = order.total /\ lateEdit' = lateEdit
  BY <1>0, <1>3 DEF Wrote, WriteCancelled, CreateInvoice, WriteVoid, ClaimAuthorized, WriteRevoked, CreatePending,
         RejectFailed, LeaveMismatched, OrderRow, rows, history
<1>4. ASSUME NEW t \in Actors, Settle(t) PROVE order'.total = order.total /\ lateEdit' = lateEdit
  <2>1. PICK i, p : i = tx[t].inv /\ p = tx[t].pay
    OBVIOUS
  <2>2. lateEdit' = lateEdit /\ (order' = order \/ \E row \in InvRow : Settled(t, i, p, row))
    BY <1>4, <2>1, SettleWrites
  <2> QED BY <1>0, <2>2 DEF Settled, OrderRow
<1>5. ASSUME Apart PROVE order'.total = order.total /\ lateEdit' = lateEdit
  BY <1>0, <1>5, ApartLeaves DEF Apart, Review, Resubmit, Move, RejectPending, CustomerAnswers, BankNotifies, vars, rows,
         history, OrderRow
<1>7. ASSUME NEW t \in Actors, Wrote(t) PROVE Kept
  BY <1>1, <1>2, <1>3, <1>7
<1>8. ASSUME NEW t \in Actors, Settle(t) PROVE Kept
  BY <1>1, <1>4, <1>8
<1>9. ASSUME NEW t \in Actors, NEW r, Asked(t, r) \/ Locked(t, r) \/ Crash(t) PROVE Kept
  <2>1. order' = order /\ lateEdit' = lateEdit
    BY <1>9 DEF Asked, Locked, Crash, rows, history
  <2> QED BY <1>6, <2>1
<1>10. ASSUME Apart PROVE Kept
  BY <1>1, <1>5, <1>10
<1> HIDE DEF Kept
<1>11. Kept
  BY <1>7, <1>8, <1>9, <1>10, Kinds
<1> QED BY <1>11 DEF Kept

LEMMA ReviewNext ==
  ASSUME Shape, [Next]_vars, order'.status \in {"PENDING", "RETURNED"}
  PROVE  order.status \in {"PENDING", "RETURNED"}
<1>0. order \in OrderRow
  BY DEF Shape, Tables
<1>1. CASE order' = order
  BY <1>1
<1>2. ASSUME NEW t \in Actors, Wrote(t) PROVE order.status \in {"PENDING", "RETURNED"}
  BY <1>0, <1>2 DEF Wrote, WriteOrder, WriteCancelled, CreateInvoice, WriteVoid, ClaimAuthorized, WriteRevoked,
         CreatePending, RejectFailed, LeaveMismatched, OrderRow, rows
<1>3. ASSUME NEW t \in Actors, Settle(t) PROVE order'.status = order.status
  BY <1>0, <1>3 DEF Settle, OrderRow
<1>4. ASSUME Apart PROVE order.status \in {"PENDING", "RETURNED"}
  BY <1>0, <1>4 DEF Apart, Review, Resubmit, Move, RejectPending, CustomerAnswers, BankNotifies, vars, rows, OrderRow
<1> QED BY <1>1, <1>2, <1>3, <1>4, Kinds DEF Asked, Locked, Crash, rows


LEMMA PaidUpNext ==
  ASSUME MoneyInvariant, MoneyInvariant', NoneInReview, [Next]_vars, PaidUp
  PROVE  PaidUp'
<1>1. Shape /\ Shape'
  BY DEF MoneyInvariant
<1>2. \A i \in Invoices : Used(i) => Used(i)' /\ inv'[i].total = inv[i].total
  BY <1>1, InvoicesNext
<1>3. \A i \in Invoices : MoneyIn(pay', i) >= MoneyIn(pay, i)
  BY MoneyGrows
<1>4. order.status # "RETURNED"
  BY DEF PaidUp, NoneInReview
<1>5. lateEdit' \/ (~lateEdit /\ order'.total = order.total)
  BY <1>1, <1>4, TotalNext
<1> QED BY <1>1, <1>2, <1>3, <1>5, PaidUpStays

LEMMA NoneInReviewNext == ASSUME Shape, NoneInReview, [Next]_vars PROVE NoneInReview'
<1> SUFFICES ASSUME order'.status \in {"PENDING", "RETURNED"}
             PROVE  (\A i \in Invoices : ~Used(i)') /\ \A t \in Actors : tx'[t].op # "issue"
  BY DEF NoneInReview
<1>1. /\ order.status \in {"PENDING", "RETURNED"}
      /\ (\A i \in Invoices : ~Used(i)) /\ \A t \in Actors : tx[t].op # "issue"
  BY ReviewNext DEF NoneInReview
<1>2. \A i \in Invoices : ~Used(i)'
  BY <1>1, InvoicesNext
<1>3. \A t \in Actors : tx'[t].op # "issue"
  BY <1>1, RequestsNext
<1> QED BY <1>2, <1>3

LEMMA ForTheTotalNext == ASSUME Shape, NoneInReview, ForTheTotal, [Next]_vars PROVE ForTheTotal'
<1> SUFFICES ASSUME ~lateEdit'
             PROVE  /\ \A i \in Invoices : Used(i)' => inv'[i].total = order'.total
                    /\ \A t \in Actors : tx'[t].op = "issue" => tx'[t].seen = order'.total
  BY DEF ForTheTotal
<1>1. ~lateEdit
  BY TotalNext
<1>2. CASE order'.status = "RETURNED"
  BY <1>2, NoneInReviewNext DEF NoneInReview
<1>3. CASE order'.total = order.total
  <2>1. \A i \in Invoices : Used(i) => inv[i].total = order.total
    BY <1>1 DEF ForTheTotal
  <2>2. \A t \in Actors : tx[t].op = "issue" => tx[t].seen = order.total
    BY <1>1 DEF ForTheTotal
  <2>3. \A i \in Invoices : Used(i)' => inv'[i].total = order'.total
    BY <1>3, <2>1, <2>2, InvoicesNext
  <2>4. \A t \in Actors : tx'[t].op = "issue" => tx'[t].seen = order'.total
    BY <1>3, <2>2, RequestsNext
  <2> QED BY <2>3, <2>4
<1> QED BY <1>2, <1>3, TotalNext

\* An order begins to show as paid, or to be released as paid, when it is.
LEMMA SaidNext ==
  ASSUME Shape, ForTheTotal, [Next]_vars, MoneyInvariant'
  PROVE  /\ order'.pay = "PAID" => order.pay = "PAID" \/ PaidUp'
         /\ order'.fulfil = "AUTHORIZED" /\ ~order'.override =>
               \/ order.fulfil = "AUTHORIZED" /\ ~order.override
               \/ \E t \in Actors : tx[t].op = "authorize"
<1>0. order \in OrderRow
  BY DEF Shape, Tables
<1> DEFINE Said == /\ order'.pay = "PAID" => order.pay = "PAID" \/ PaidUp'
                   /\ order'.fulfil = "AUTHORIZED" /\ ~order'.override =>
                         \/ order.fulfil = "AUTHORIZED" /\ ~order.override
                         \/ \E t \in Actors : tx[t].op = "authorize"
<1>1. CASE order' = order
  BY <1>1
<1>2. ASSUME NEW t \in Actors, Wrote(t) PROVE Said
  <2>1. CASE ClaimAuthorized(t)
    BY <1>0, <2>1 DEF ClaimAuthorized, OrderRow
  <2>2. CASE ~ClaimAuthorized(t)
    <3>1. /\ order'.pay = order.pay
          /\ \/ order'.fulfil = order.fulfil /\ order'.override = order.override
             \/ order'.fulfil = "NOT_AUTHORIZED"
      BY <1>0, <1>2, <2>2 DEF Wrote, WriteOrder, WriteCancelled, CreateInvoice, WriteVoid, WriteRevoked, CreatePending,
             RejectFailed, LeaveMismatched, OrderRow, rows
    <3> QED BY <3>1
  <2> QED BY <2>1, <2>2
<1>3. ASSUME NEW t \in Actors, Settle(t) PROVE Said
  <2>1. PICK i, p : i = tx[t].inv /\ p = tx[t].pay
    OBVIOUS
  <2>2. /\ i \in Invoices /\ Used(i) /\ lateEdit' = lateEdit
        /\ UNCHANGED <<pay, inv, order, books, revived>> \/ \E row \in InvRow : Settled(t, i, p, row)
    BY <1>3, <2>1, SettleWrites
  <2>3. ASSUME NEW row \in InvRow, Settled(t, i, p, row) PROVE Said
    <3>1. /\ order'.pay = PaymentState(row.total, row.paid) /\ order'.fulfil = order.fulfil
          /\ order'.override = order.override /\ order'.total = order.total
      BY <1>0, <2>3 DEF Settled, OrderRow
    <3>2. inv'[i] = row /\ row.total = inv[i].total /\ row.status # "unused"
      BY <2>2, <2>3 DEF Settled, Shape, Tables
    <3>3. row.paid = MoneyIn(pay', i)
      BY <2>2, <3>2 DEF MoneyInvariant, PaidIsMoney
    <3>4. ASSUME order'.pay = "PAID" PROVE PaidUp'
      <4>1. row.paid >= row.total
        BY <3>1, <3>4 DEF PaymentState
      <4>2. lateEdit' \/ row.total = order'.total
        BY <2>2, <3>1, <3>2 DEF ForTheTotal
      <4> QED BY <2>2, <3>2, <3>3, <4>1, <4>2 DEF PaidUp, Used
    <3> QED BY <3>1, <3>4
  <2> QED BY <1>1, <2>2, <2>3
<1>4. ASSUME Apart PROVE Said
  <2>1. order'.pay = order.pay /\ order'.fulfil = order.fulfil /\ order'.override = order.override
    BY <1>0, <1>4 DEF Apart, Review, Resubmit, Move, RejectPending, CustomerAnswers, BankNotifies, vars, rows, OrderRow
  <2> QED BY <2>1
<1>5. ASSUME NEW t \in Actors, NEW r, Asked(t, r) \/ Locked(t, r) \/ Crash(t) PROVE Said
  BY <1>1, <1>5 DEF Asked, Locked, Crash, rows
<1> HIDE DEF Said
<1>6. Said
  BY <1>2, <1>3, <1>4, <1>5, Kinds
<1> QED BY <1>6 DEF Said

LEMMA SaidIsPaidNext ==
  ASSUME MoneyInvariant, MoneyInvariant', NoneInReview, ForTheTotal, SaidIsPaid, [Next]_vars
  PROVE  SaidIsPaid'
<1>1. Shape /\ (PaidUp => PaidUp')
  BY PaidUpNext DEF MoneyInvariant
<1>2. order'.pay = "PAID" => PaidUp'
  BY <1>1, SaidNext DEF SaidIsPaid
<1>3. \A t \in Actors : tx'[t].op = "authorize" => PaidUp'
  BY <1>1, RequestsNext DEF SaidIsPaid
<1>4. order'.fulfil = "AUTHORIZED" /\ ~order'.override => PaidUp'
  BY <1>1, SaidNext DEF SaidIsPaid
<1> QED BY <1>2, <1>3, <1>4 DEF SaidIsPaid

LEMMA ReleasesInit == Init => Releases
<1> SUFFICES ASSUME Init PROVE Releases
  OBVIOUS
<1>1. \A t \in Actors : tx[t].op \in {"idle", "away"}
  BY DEF Init, Idle, Away
<1>2. \A i \in Invoices : ~Used(i)
  BY DEF Init, Used, Unused
<1>3. order.pay = "UNPAID" /\ order.fulfil = "NOT_AUTHORIZED"
  BY DEF Init
<1> QED BY <1>1, <1>2, <1>3 DEF Releases, NoneInReview, ForTheTotal, SaidIsPaid

\* An order the warehouse may prepare without a manager's override has an invoice paid in full, for the
\* order's total unless it was corrected after it had left the salesperson.
THEOREM ReleasedOrdersArePaid == Spec => []ReleasedIsPaid
<1>1. Releases => ReleasedIsPaid
  BY MoneyIs DEF Releases, SaidIsPaid, PaidUp, Used, ReleasedIsPaid
<1>2. MoneyInvariant /\ Releases /\ [Next]_vars => MoneyInvariant' /\ Releases'
  BY MoneyNext, NoneInReviewNext, ForTheTotalNext, SaidIsPaidNext DEF Releases, MoneyInvariant
<1> QED BY MoneyInit, ReleasesInit, <1>1, <1>2, PTL DEF Spec
=============================================================================
