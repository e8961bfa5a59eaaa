---- MODULE OpsDispatch ----
(***************************************************************************)
(* Setting stock aside for operations orders, loading it and letting it go *)
(* (ops/dispatch.service.ts), with what cancelling an order and revoking   *)
(* its release do to the stock set aside (ops/sales-ops.service.ts,        *)
(* ops/billing.service.ts).  Each order has one line.  Requests read when  *)
(* they begin and write when they end; in between only allocate and        *)
(* release hold a lock, of the batches, and they write right after taking  *)
(* it.                                                                     *)
(***************************************************************************)
EXTENDS Integers, FiniteSets, Functions

CONSTANTS
    Orders, Batches,
    Required,      \* [Orders -> kg]
    Allocations,   \* rows of OrderAllocation; their numbers are their order in time
    Loads,         \* dispatches
    Clerks,        \* requests under way
    Days,          \* the orders a behaviour is about and what is in stock; bounds: how many rows
                   \* and loads there may be, and how many requests at once
    None

ASSUME StockAssumption ==
    /\ Required \in [Orders -> Nat \ {0}]
    /\ Allocations \subseteq Nat /\ IsFiniteSet(Allocations) /\ IsFiniteSet(Loads)
    /\ Days \subseteq [orders : SUBSET Orders, stock : [Batches -> Nat], rows : Nat, loads : Nat, clerks : Nat]
    /\ None \notin Orders \cup Batches \cup Loads \cup Clerks

VARIABLES
    order,     \* OpsOrder with its line's dispatchedQty; paid stands for paymentStatus PAID
    alloc,     \* OrderAllocation: kg set aside, of them sent (dispatchedKg) and freed (releasedKg)
    load,      \* OpsDispatch
    stock,     \* what is physically in a batch
    tx,        \* requests under way, with what they have read
    day,       \* bounds of this behaviour
    raced,     \* history: orders two requests were under way on at once
    short,     \* history: orders closed short
    paidLate   \* history: orders whose payment was confirmed after all was delivered

rows == <<order, alloc, load, stock>>
history == <<raced, short, paidLate>>
vars == <<rows, tx, day, history>>

NoAllocation == [order |-> None, batch |-> None, kg |-> 0, sent |-> 0, freed |-> 0]
NoLoad == [order |-> None, batch |-> None, kg |-> 0, status |-> "unused"]
Idle == [op |-> "idle", order |-> None, batch |-> None, row |-> None, kg |-> 0, seen |-> 0, owed |-> 0]

\* Orders the day is not about have been cancelled before.
Init ==
    /\ day \in Days
    /\ order = [o \in Orders |-> [status |-> IF o \in day.orders THEN "INVOICED" ELSE "CANCELLED",
                                  fulfil |-> "NOT_AUTHORIZED", sent |-> 0, paid |-> FALSE]]
    /\ alloc = [a \in Allocations |-> NoAllocation]
    /\ load = [d \in Loads |-> NoLoad]
    /\ stock = day.stock
    /\ tx = [t \in Clerks |-> Idle]
    /\ raced = {} /\ short = {} /\ paidLate = {}

----------------------------------------------------------------------------
(* Helpers *)

OPEN_STATES == {"AUTHORIZED", "SHORTAGE", "ALLOCATED", "PARTIALLY_DISPATCHED"}
WithWarehouse(o) == order[o].status = "INVOICED" /\ order[o].fulfil \in OPEN_STATES

Left(a) == a.kg - a.sent - a.freed
LeftIn(rs, as) == SumFunctionOnSet([a \in Allocations |-> Left(rs[a])], as)
KgOf(ds) == SumFunctionOnSet([d \in Loads |-> load[d].kg], ds)

SetAside(rs, o) == LeftIn(rs, {a \in Allocations : rs[a].order = o})
SetAsideOf(o, b) == LeftIn(alloc, {a \in Allocations : alloc[a].order = o /\ alloc[a].batch = b})
Reserved(b) == LeftIn(alloc, {a \in Allocations : alloc[a].batch = b})
Loaded(o, b, status) ==
    KgOf({d \in Loads : load[d].order = o /\ load[d].batch = b /\ load[d].status = status})
Prepared(o) == KgOf({d \in Loads : load[d].order = o /\ load[d].status = "PREPARED"})

\* batchBalances under the lock of the batch: what allocate may still take.
FitsPhysically(b, kg) == kg <= stock[b]
Fits(b, kg) == kg <= stock[b] - Reserved(b)

\* statusFor
StatusCountsSetAside(required, sent, aside) ==
    IF sent + aside >= required /\ sent > 0 THEN "DISPATCHED"
    ELSE IF sent > 0 THEN "PARTIALLY_DISPATCHED"
    ELSE IF sent + aside >= required THEN "ALLOCATED" ELSE "SHORTAGE"
StatusFor(required, sent, aside) ==
    IF sent >= required THEN "DISPATCHED"
    ELSE IF sent > 0 THEN "PARTIALLY_DISPATCHED"
    ELSE IF sent + aside >= required THEN "ALLOCATED" ELSE "SHORTAGE"

\* refreshState: the state of an order from its line and these allocations.
Refreshed(o, sent, rs) == StatusFor(Required[o], sent, SetAside(rs, o))

\* Everything an order still has set aside goes back on sale.
FreeUntouched(o) ==
    [a \in Allocations |->
        IF alloc[a].order = o /\ alloc[a].sent = 0 THEN [alloc[a] EXCEPT !.freed = alloc[a].kg] ELSE alloc[a]]
FreeAll(o) ==
    [a \in Allocations |->
        IF alloc[a].order = o /\ Left(alloc[a]) > 0
        THEN [alloc[a] EXCEPT !.freed = @ + Left(alloc[a])] ELSE alloc[a]]

Begin(t, op, o, b, row, kg, seen, owed) ==
    /\ tx[t] = Idle /\ Cardinality({u \in Clerks : tx[u] # Idle}) < day.clerks
    /\ tx' = [tx EXCEPT ![t] = [op |-> op, order |-> o, batch |-> b, row |-> row, kg |-> kg,
                                seen |-> seen, owed |-> owed]]
    /\ raced' = IF \E u \in Clerks : tx[u].order = o THEN raced \cup {o} ELSE raced
    /\ UNCHANGED <<rows, day, short, paidLate>>
End(t) == tx' = [tx EXCEPT ![t] = Idle]

----------------------------------------------------------------------------
(* Setting stock aside *)

\* What the line still needs is read before the batches are locked.
Allocate(t, o, b) ==
    /\ WithWarehouse(o)
    /\ \E kg \in 1 .. Required[o] - order[o].sent - SetAside(alloc, o) :
          Begin(t, "allocate", o, b, None, kg, 0, 0)

\* The automatic choice finds the batch empty.
AllocateNothing(t, o, b) ==
    /\ WithWarehouse(o) /\ Required[o] - order[o].sent - SetAside(alloc, o) > 0
    /\ ~Fits(b, 1)
    /\ Begin(t, "allocate", o, b, None, 0, 0, 0)

\* The rows are created if the batch has the rice, else the request is refused; the automatic
\* choice takes less instead, which is another kg.
WriteAllocation(t) ==
    LET o == tx[t].order
        b == tx[t].batch
    IN /\ tx[t].op = "allocate" /\ End(t)
       /\ IF tx[t].kg = 0
          THEN order' = [order EXCEPT ![o].fulfil = Refreshed(o, order[o].sent, alloc)] /\ UNCHANGED alloc
          ELSE IF Fits(b, tx[t].kg)
          THEN \E a \in Allocations :
                 /\ alloc[a] = NoAllocation /\ a <= day.rows /\ \A x \in Allocations : x < a => alloc[x] # NoAllocation
                 /\ alloc' = [alloc EXCEPT ![a] = [order |-> o, batch |-> b, kg |-> tx[t].kg,
                                                  sent |-> 0, freed |-> 0]]
                 /\ order' = [order EXCEPT ![o].fulfil = Refreshed(o, order[o].sent, alloc')]
          ELSE UNCHANGED <<alloc, order>>
       /\ UNCHANGED <<load, stock, day, history>>

\* releaseAllocation works out what is free from the row it read and writes the new total.
ReleaseLoadedToo(t, a) ==
    /\ alloc[a] # NoAllocation /\ Left(alloc[a]) > 0
    /\ Begin(t, "free", alloc[a].order, alloc[a].batch, a, 0, alloc[a].freed + Left(alloc[a]), 0)
ReleaseAllocation(t, a) ==
    LET r == alloc[a]
        free == Left(r) - Loaded(r.order, r.batch, "PREPARED")
    IN /\ r # NoAllocation /\ free > 0
       /\ Begin(t, "free", r.order, r.batch, a, 0, r.freed + free, 0)

WriteFreed(t) ==
    LET o == tx[t].order
    IN /\ tx[t].op = "free" /\ End(t)
       /\ alloc' = [alloc EXCEPT ![tx[t].row].freed = tx[t].seen]
       /\ order' = [order EXCEPT ![o].fulfil = Refreshed(o, order[o].sent, alloc')]
       /\ UNCHANGED <<load, stock, day, history>>

ReportShortage(t, o) == WithWarehouse(o) /\ Begin(t, "shortage", o, None, None, 0, 0, 0)

WriteShortage(t) ==
    /\ tx[t].op = "shortage" /\ End(t)
    /\ order' = [order EXCEPT ![tx[t].order].fulfil = "SHORTAGE"]
    /\ UNCHANGED <<alloc, load, stock, day, history>>

----------------------------------------------------------------------------
(* Closing, cancelling and revoking *)

CloseShort(t, o) ==
    /\ order[o].status = "INVOICED" /\ order[o].fulfil \in {"PARTIALLY_DISPATCHED", "SHORTAGE"}
    /\ order[o].sent > 0
    /\ Begin(t, "close", o, None, None, 0, 0, 0)

NothingLoaded(o) == \A d \in Loads : load[d].order = o => load[d].status = "CANCELLED"

\* An unpaid order (released by an override) is cancelled.
CancelOrder(t, o) ==
    /\ order[o].status = "INVOICED" /\ ~order[o].paid /\ NothingLoaded(o)
    /\ Begin(t, "cancel", o, None, None, 0, 0, 0)

RevokeAuthorization(t, o) ==
    /\ NothingLoaded(o)
    /\ order[o].fulfil \notin {"NOT_AUTHORIZED", "PARTIALLY_DISPATCHED", "DISPATCHED"}
    /\ Begin(t, "revoke", o, None, None, 0, 0, 0)

\* What each of the three makes of the order.
Ended(op, row) ==
    CASE op = "close"  -> [row EXCEPT !.status = "COMPLETED", !.fulfil = "DISPATCHED"]
      [] op = "cancel" -> [row EXCEPT !.status = "CANCELLED", !.fulfil = "NOT_AUTHORIZED"]
      [] op = "revoke" -> [row EXCEPT !.fulfil = "NOT_AUTHORIZED"]

WriteEnd(t) ==
    LET o == tx[t].order
    IN /\ tx[t].op \in {"close", "cancel", "revoke"} /\ End(t)
       /\ order' = [order EXCEPT ![o] = Ended(tx[t].op, @)]
       /\ alloc' = FreeAll(o)
       /\ short' = IF tx[t].op = "close" THEN short \cup {o} ELSE short
       /\ UNCHANGED <<load, stock, day, raced, paidLate>>

----------------------------------------------------------------------------
(* Loading and letting go *)

\* The order and its allocations are read first.
Prepare(t, o, b) ==
    /\ WithWarehouse(o)
    /\ \E kg \in 1 .. SetAsideOf(o, b) :
          Begin(t, "prepare", o, b, None, kg, SetAsideOf(o, b), Required[o] - order[o].sent)

\* Then what is prepared already: the load must fit what is set aside and what is owed.
CheckLoad(t) ==
    LET o == tx[t].order
        b == tx[t].batch
    IN /\ tx[t].op = "prepare"
       /\ tx' = [tx EXCEPT ![t] =
            IF tx[t].kg <= tx[t].seen - Loaded(o, b, "PREPARED") /\ tx[t].kg <= tx[t].owed - Prepared(o)
            THEN [@ EXCEPT !.op = "load"] ELSE Idle]
       /\ UNCHANGED <<rows, day, history>>

CreateLoad(t) ==
    /\ tx[t].op = "load" /\ End(t)
    /\ \E d \in Loads :
          /\ load[d] = NoLoad /\ Cardinality({x \in Loads : load[x] # NoLoad}) < day.loads
          /\ load' = [load EXCEPT ![d] = [order |-> tx[t].order, batch |-> tx[t].batch,
                                          kg |-> tx[t].kg, status |-> "PREPARED"]]
    /\ UNCHANGED <<order, alloc, stock, day, history>>

Release(t, d) ==
    /\ load[d].status = "PREPARED" /\ WithWarehouse(load[d].order)
    /\ Begin(t, "release", load[d].order, load[d].batch, d, 0, 0, 0)

\* The claim of a dispatch that has not left.
ClaimsAgain(d) == load[d].status # "CANCELLED"
Claims(d) == load[d].status = "PREPARED"

\* The recount of the batch, under its lock.
NoRecount(b, kg) == kg > 0
PhysicallyThere(b, kg) == kg <= stock[b]

\* The kilograms of a load taken from the allocations of its order and batch, oldest first.
Taken(o, b, kg) ==
    LET mine == {a \in Allocations : alloc[a].order = o /\ alloc[a].batch = b /\ Left(alloc[a]) > 0}
        owed(a) == kg - LeftIn(alloc, {x \in mine : x < a})
        take(a) == IF owed(a) <= 0 THEN 0 ELSE IF owed(a) < Left(alloc[a]) THEN owed(a) ELSE Left(alloc[a])
    IN [a \in Allocations |-> IF a \in mine THEN [alloc[a] EXCEPT !.sent = @ + take(a)] ELSE alloc[a]]

WriteReleased(t) ==
    LET d == tx[t].row
        o == tx[t].order
        b == tx[t].batch
        kg == load[d].kg
        sent == order[o].sent + kg
        state == Refreshed(o, sent, Taken(o, b, kg))
    IN /\ tx[t].op = "release" /\ End(t)
       /\ IF Claims(d) /\ PhysicallyThere(b, kg)
          THEN /\ load' = [load EXCEPT ![d].status = "RELEASED"]
               /\ stock' = [stock EXCEPT ![b] = @ - kg]
               /\ alloc' = Taken(o, b, kg)
               /\ order' = [order EXCEPT ![o] =
                     [order[o] EXCEPT !.sent = sent, !.fulfil = state,
                                      !.status = IF state = "DISPATCHED" /\ order[o].paid THEN "COMPLETED" ELSE @]]
          ELSE UNCHANGED <<load, stock, alloc, order>>
       /\ UNCHANGED <<day, history>>

CancelDispatch(d) ==
    /\ load[d].status = "PREPARED"
    /\ load' = [load EXCEPT ![d].status = "CANCELLED"]
    /\ UNCHANGED <<order, alloc, stock, tx, day, history>>

----------------------------------------------------------------------------
(* Accounts, as OpsBilling has them *)

Authorize(o) ==
    /\ order[o].status = "INVOICED" /\ order[o].fulfil = "NOT_AUTHORIZED"
    /\ order' = [order EXCEPT ![o].fulfil = "AUTHORIZED"]
    /\ UNCHANGED <<alloc, load, stock, tx, day, history>>

PaymentConfirmed(o) ==
    /\ ~order[o].paid /\ order[o].status # "CANCELLED"
    /\ order' = [order EXCEPT ![o].paid = TRUE]
    /\ paidLate' = IF order[o].sent >= Required[o] THEN paidLate \cup {o} ELSE paidLate
    /\ UNCHANGED <<alloc, load, stock, tx, day, raced, short>>

----------------------------------------------------------------------------

Warehouse(t) ==
    \/ \E o \in Orders, b \in Batches : Allocate(t, o, b) \/ AllocateNothing(t, o, b) \/ Prepare(t, o, b)
    \/ \E a \in Allocations : ReleaseAllocation(t, a)
    \/ \E d \in Loads : Release(t, d)
    \/ \E o \in Orders : ReportShortage(t, o)
    \/ WriteAllocation(t) \/ WriteFreed(t) \/ WriteShortage(t)
    \/ CheckLoad(t) \/ CreateLoad(t) \/ WriteReleased(t)

Office(t) ==
    \/ \E o \in Orders : CloseShort(t, o) \/ CancelOrder(t, o) \/ RevokeAuthorization(t, o)
    \/ WriteEnd(t)

Next ==
    \/ \E t \in Clerks : Warehouse(t) \/ Office(t)
    \/ \E d \in Loads : CancelDispatch(d)
    \/ \E o \in Orders : Authorize(o) \/ PaymentConfirmed(o)

Spec == Init /\ [][Next]_vars

----------------------------------------------------------------------------
(* Properties *)

\* Types.
TypeOK ==
    /\ order \in [Orders -> [status : {"INVOICED", "COMPLETED", "CANCELLED"},
                            fulfil : OPEN_STATES \cup {"NOT_AUTHORIZED", "DISPATCHED"},
                            sent : Nat, paid : BOOLEAN]]
    /\ alloc \in [Allocations -> [order : Orders \cup {None}, batch : Batches \cup {None},
                                 kg : Nat, sent : Nat, freed : Nat]]
    /\ load \in [Loads -> [order : Orders \cup {None}, batch : Batches \cup {None}, kg : Nat,
                          status : {"unused", "PREPARED", "RELEASED", "CANCELLED"}]]
    /\ stock \in [Batches -> Nat]
    /\ tx \in [Clerks -> [op : {"idle", "allocate", "free", "shortage", "close", "cancel", "revoke",
                               "prepare", "load", "release"},
                         order : Orders \cup {None}, batch : Batches \cup {None},
                         row : Allocations \cup Loads \cup {None}, kg : Nat, seen : Int, owed : Int]]
    /\ day \in Days /\ raced \subseteq Orders /\ short \subseteq Orders /\ paidLate \subseteq Orders

\* Every load that left was taken from the stock once and counted once on its order, however
\* many times its release is asked for ("a repeated call finds it already released and changes
\* nothing").
LoadsLeaveOnce ==
    /\ \A b \in Batches :
          stock[b] + KgOf({d \in Loads : load[d].batch = b /\ load[d].status = "RELEASED"}) = day.stock[b]
    /\ \A o \in Orders :
          order[o].sent = KgOf({d \in Loads : load[d].order = o /\ load[d].status = "RELEASED"})

\* The rice set aside is in the batches, whatever requests of different orders are under way at
\* once ("Stock set aside here cannot be sold, processed or allocated to another order").
SetAsideIsThere == raced = {} => \A b \in Batches : Reserved(b) <= stock[b]

\* An order whose requests came one after the other has never more set aside and delivered than
\* it needs, and what is loaded for it is set aside.
OrderInBounds ==
    \A o \in Orders \ raced :
        /\ order[o].sent + SetAside(alloc, o) <= Required[o]
        /\ order[o].status = "INVOICED" =>
              \A b \in Batches : Loaded(o, b, "PREPARED") <= SetAsideOf(o, b)

\* An order that has been completed or cancelled keeps no rice from being sold.
ClosedHoldsNothing ==
    \A o \in Orders \ raced : order[o].status # "INVOICED" => SetAside(alloc, o) = 0

\* A completed order was delivered in full and paid, or closed short; and one that is delivered
\* in full and was paid before is completed.
CompletedIsDelivered ==
    \A o \in Orders :
        /\ order[o].status = "COMPLETED" => o \in short \/ (order[o].sent >= Required[o] /\ order[o].paid)
        /\ order[o].sent >= Required[o] /\ order[o].paid /\ o \notin raced \cup paidLate =>
              order[o].status = "COMPLETED"
====
