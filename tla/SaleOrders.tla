----------------------------- MODULE SaleOrders -----------------------------
(* The life of a sale order (sale-orders.service.ts) over one warehouse and one lot:
   reserve, confirm, approve, load trucks, deliver, complete, close short, cancel and the
   hourly expiry sweep, with the two operations of the financial sale that act on it
   (sales.service.ts: settle and reduceQuantity) and the operations orders that set the same
   rice aside, prepare loads and let them leave (ops/dispatch.service.ts), as far as the
   warehouse balance sees them.

   A handler awaits between its reads and its transactions.  Every handler whose later steps
   trust an earlier read is a request held by a worker: it reads in one step, keeps a snapshot
   in req[w], and acts in a later step, while other requests run in between.  A transaction is
   one step: the ones that change stock run under lockWarehouse, the others are one statement.
   Kilograms are small integers.  loadedKg[o] is the sum of the order_loads rows of o (their
   weight never changes once written) and trucks[o] the rows' statuses in sequence; held[o] is
   what the stock_movements rows of o add up to and reservedKg what all of them do. *)
EXTENDS Integers, Sequences, FiniteSets, Functions

CONSTANTS
  Orders,      \* rows the sale_orders table may hold
  Sales,       \* rows the sales table may hold
  Workers,     \* requests in progress at one time
  NoSale,      \* saleId = null
  StockKg,     \* kilograms of sellable rice on the floor at the start
  LotKg,       \* lot.totalWeightKg
  OrderKgs,    \* kilograms a buyer asks for
  Carriage,    \* whether a buyer may ask for transport (TRUE), may collect (FALSE), or both
  Weights,     \* kilograms a truck is weighed at
  TolPct,      \* settings.loadTolerancePct
  MaxTrucks,   \* bound: trucks loaded for one order
  MaxErrors,   \* bound: errors thrown inside a confirmation
  MaxDeaths,   \* bound: orders on which a request dies with its process
  MaxOpsKg,    \* bound: kilograms that operations orders set aside, in all
  MaxOpsLoads  \* bound: operations loads of one weight prepared at one time

ASSUME OrdersAssumption == IsFiniteSet(Orders) /\ NoSale \notin Sales
ASSUME KgAssumption == StockKg \in Nat /\ LotKg \in Nat /\ Weights \subseteq Nat \ {0}
                        /\ OrderKgs \subseteq Nat \ {0} /\ Carriage \subseteq BOOLEAN
ASSUME BoundsAssumption == TolPct \in 0..100 /\ MaxTrucks \in Nat /\ MaxErrors \in Nat
                           /\ MaxDeaths \in Nat /\ MaxOpsKg \in Nat /\ MaxOpsLoads \in Nat

VARIABLES
  order,       \* sale_orders: status, quantityKg, sale, credit, override, transport
  sale,        \* sales: order (the confirmation that made it), quantityKg, paid
  loadedKg,    \* order -> kilograms loaded so far
  trucks,      \* order -> statuses of its order_loads rows
  held,        \* order -> RESERVE minus UNRESERVE
  reservedKg,  \* RESERVE minus UNRESERVE over the whole warehouse
  onHandKg,    \* the batch ledger's sum for the warehouse
  allocatedKg, \* order_allocations of operations orders: set aside and not yet gone
  req,         \* worker -> the request it is serving
  errors,      \* confirmations that threw, so far
  opsKg,       \* kilograms operations orders ever set aside
  prepared,    \* weight -> operations loads of that weight prepared and not left
  strayKg,     \* kilograms such loads took beyond what they took off the allocations
  raced,       \* orders on which a request began while another was in progress
  died         \* orders on which a request ended with its process

orderVars == <<order, sale, loadedKg, trucks>>
opsVars == <<allocatedKg, opsKg, prepared, strayKg>>
stockVars == <<held, reservedKg, onHandKg, opsVars>>
vars == <<orderVars, stockVars, req, errors, raced, died>>

-----------------------------------------------------------------------------
Status == {"NONE", "RESERVED", "CONFIRMED", "PARTIALLY_RELEASED", "RELEASED", "COMPLETED", "CANCELLED"}
LIVE == {"RESERVED", "CONFIRMED", "PARTIALLY_RELEASED", "RELEASED", "COMPLETED"}
Loadable == {"CONFIRMED", "PARTIALLY_RELEASED"}
TruckStatus == {"ASSIGNED", "IN_TRANSIT", "DELIVERED"}
Steps == {"idle", "claim", "create", "link", "revert", "approve", "load", "truck",
          "complete", "reduce", "shrink", "close", "settle"}

(* A row of sale_orders; status NONE is a row not inserted yet. *)
OrderRow == [status: Status, quantityKg: Nat, sale: Sales \union {NoSale},
             credit: BOOLEAN, override: BOOLEAN, needsTransport: BOOLEAN]
(* A row of sales; order is {} until the row is inserted, then the one order it was made for. *)
SaleRow == [order: SUBSET Orders, quantityKg: Nat, paid: BOOLEAN]
(* What a request remembers from its reads. *)
Request == [step: Steps, order: SUBSET Orders, sale: Sales \union {NoSale},
            quantityKg: Nat, loadedKg: Nat, truck: Nat, to: TruckStatus]

NoRequest == [step |-> "idle", order |-> {}, sale |-> NoSale, quantityKg |-> 0,
              loadedKg |-> 0, truck |-> 0, to |-> "ASSIGNED"]

-----------------------------------------------------------------------------
(* Readings of the tables. *)
availableKg == onHandKg - (allocatedKg + reservedKg)

\* What batches can still give: their weight less allocations, whatever is reserved.
drawableKg == onHandKg - allocatedKg

\* Sales no order points at count against the lot as if they were direct sales.
Linked(s) == \E o \in Orders: order[o].sale = s
\* Mutant: an order stops counting against its lot once its trucks have left.
lotRemainingOpenKg ==
  LotKg - SumFunctionOnSet([o \in Orders |-> order[o].quantityKg],
                           {o \in Orders: order[o].status \in {"RESERVED"} \union Loadable})

lotRemainingKg ==
  LotKg - SumFunctionOnSet([o \in Orders |-> order[o].quantityKg], {o \in Orders: order[o].status \in LIVE})
        - SumFunctionOnSet([s \in Sales |-> sale[s].quantityKg], {s \in Sales: sale[s].order # {} /\ ~Linked(s)})

Min(a, b) == IF a < b THEN a ELSE b
Positive(a) == IF a > 0 THEN a ELSE 0

PaidOrApproved(o) == \/ sale[order[o].sale].paid
                     \/ order[o].credit
                     \/ order[o].override

-----------------------------------------------------------------------------
(* Requests. *)
Busy(o) == \E w \in Workers: req[w].order = {o}
Goto(w, r) == req' = [req EXCEPT ![w] = r]
Start(w, o, r) == /\ req[w] = NoRequest
                  /\ Goto(w, [r EXCEPT !.order = {o}])
                  /\ raced' = IF Busy(o) THEN raced \union {o} ELSE raced
At(w, o, step) == req[w].step = step /\ req[w].order = {o}
Finish(w) == Goto(w, NoRequest)
Throw(w) == Finish(w) /\ UNCHANGED <<orderVars, stockVars, errors, raced, died>>

\* stock_movements: a RESERVE row of kg for order o (an UNRESERVE row when kg is negative).
Move(o, kg) == /\ held' = [held EXCEPT ![o] = @ + kg]
               /\ reservedKg' = reservedKg + kg

-----------------------------------------------------------------------------
Init ==
  /\ order = [o \in Orders |-> [status |-> "NONE", quantityKg |-> 0, sale |-> NoSale,
                                credit |-> FALSE, override |-> FALSE, needsTransport |-> FALSE]]
  /\ sale = [s \in Sales |-> [order |-> {}, quantityKg |-> 0, paid |-> FALSE]]
  /\ loadedKg = [o \in Orders |-> 0]
  /\ trucks = [o \in Orders |-> <<>>]
  /\ held = [o \in Orders |-> 0]
  /\ reservedKg = 0
  /\ onHandKg = StockKg
  /\ req = [w \in Workers |-> NoRequest]
  /\ errors = 0
  /\ allocatedKg = 0 /\ opsKg = 0 /\ strayKg = 0
  /\ prepared = [kg \in Weights |-> 0]
  /\ raced = {} /\ died = {}

-----------------------------------------------------------------------------
(* reserve: the balance and the lot are checked under the warehouse lock. *)
Reserve(o, kg, t) ==
  /\ order[o].status = "NONE"
  /\ kg <= availableKg
  /\ kg <= lotRemainingKg
  /\ order' = [order EXCEPT ![o] = [@ EXCEPT !.status = "RESERVED", !.quantityKg = kg, !.needsTransport = t]]
  /\ Move(o, kg)
  /\ UNCHANGED <<sale, loadedKg, trucks, onHandKg, opsVars, req, errors, raced, died>>

(* cancel and the sweep both claim RESERVED under the lock and give the reservation back.
   quantityKg cannot change while an order is RESERVED, so the earlier read is not split off. *)
ReleaseReservation(o) ==
  /\ order[o].status = "RESERVED"
  /\ order' = [order EXCEPT ![o].status = "CANCELLED"]
  /\ Move(o, -order[o].quantityKg)
  /\ UNCHANGED <<sale, loadedKg, trucks, onHandKg, opsVars, req, errors, raced, died>>

\* Mutant: a confirmed order can be cancelled.
CancelConfirmed(o) ==
  /\ order[o].status \in {"RESERVED", "CONFIRMED"}
  /\ order' = [order EXCEPT ![o].status = "CANCELLED"]
  /\ Move(o, -order[o].quantityKg)
  /\ UNCHANGED <<sale, loadedKg, trucks, onHandKg, opsVars, req, errors, raced, died>>

Cancel(o) == ReleaseReservation(o)
ExpireStale(o) == ReleaseReservation(o)

-----------------------------------------------------------------------------
(* confirm: claim the row, create the sale in its own transaction, then link the two. *)
ConfirmRead(w, o) ==
  /\ order[o].status = "RESERVED"
  /\ Start(w, o, [NoRequest EXCEPT !.step = "claim", !.quantityKg = order[o].quantityKg])
  /\ UNCHANGED <<orderVars, stockVars, errors, died>>

\* Mutant: the claim is an update by id, without the status it expects.
ConfirmClaimUnguarded(w, o) ==
  /\ At(w, o, "claim")
  /\ order' = [order EXCEPT ![o].status = "CONFIRMED"]
  /\ Goto(w, [req[w] EXCEPT !.step = "create"])
  /\ UNCHANGED <<sale, loadedKg, trucks, stockVars, errors, raced, died>>

ConfirmClaim(w, o) ==
  /\ At(w, o, "claim")
  /\ order[o].status = "RESERVED"
  /\ order' = [order EXCEPT ![o].status = "CONFIRMED"]
  /\ Goto(w, [req[w] EXCEPT !.step = "create"])
  /\ UNCHANGED <<sale, loadedKg, trucks, stockVars, errors, raced, died>>

ConfirmLate(w, o) ==
  /\ At(w, o, "claim")
  /\ order[o].status # "RESERVED"
  /\ Throw(w)

ConfirmCreate(w, o, s) ==
  /\ At(w, o, "create")
  /\ sale[s].order = {}
  /\ sale' = [sale EXCEPT ![s] = [@ EXCEPT !.order = {o}, !.quantityKg = req[w].quantityKg]]
  /\ Goto(w, [req[w] EXCEPT !.step = "link", !.sale = s])
  /\ UNCHANGED <<order, loadedKg, trucks, stockVars, errors, raced, died>>

ConfirmLink(w, o) ==
  /\ At(w, o, "link")
  /\ order' = [order EXCEPT ![o].sale = req[w].sale]
  /\ Finish(w)
  /\ UNCHANGED <<sale, loadedKg, trucks, stockVars, errors, raced, died>>

(* sales.create refuses or fails, before or after its transaction has committed (its ledger
   postings come after it), or the linking transaction fails. *)
ConfirmError(w, o) ==
  /\ At(w, o, "create") \/ At(w, o, "link")
  /\ errors < MaxErrors
  /\ errors' = errors + 1
  /\ Goto(w, [req[w] EXCEPT !.step = "revert"])
  /\ UNCHANGED <<orderVars, stockVars, raced, died>>

\* Mutant: the error is rethrown without putting the order back.
ConfirmRethrow(w, o) == At(w, o, "revert") /\ Throw(w)

ConfirmRevert(w, o) ==
  /\ At(w, o, "revert")
  /\ order' = IF order[o].status = "CONFIRMED" /\ order[o].sale = NoSale
              THEN [order EXCEPT ![o].status = "RESERVED"] ELSE order
  /\ Finish(w)
  /\ UNCHANGED <<sale, loadedKg, trucks, stockVars, errors, raced, died>>

-----------------------------------------------------------------------------
(* approve: a credit term or a one-off override; the write does not look at the status again. *)
ApproveRead(w, o) ==
  /\ order[o].status \in {"RESERVED", "CONFIRMED"}
  /\ Start(w, o, [NoRequest EXCEPT !.step = "approve"])
  /\ UNCHANGED <<orderVars, stockVars, errors, died>>

Approve(w, o) ==
  /\ At(w, o, "approve")
  /\ \/ order' = [order EXCEPT ![o].credit = TRUE]
     \/ order' = [order EXCEPT ![o].override = TRUE]
  /\ Finish(w)
  /\ UNCHANGED <<sale, loadedKg, trucks, stockVars, errors, raced, died>>

-----------------------------------------------------------------------------
(* loadTruck: the order and its payment are read first; the weights are settled under the lock. *)
LoadRead(w, o) ==
  /\ order[o].status \in Loadable
  /\ order[o].sale # NoSale
  /\ PaidOrApproved(o)
  /\ Start(w, o, [NoRequest EXCEPT !.step = "load", !.quantityKg = order[o].quantityKg])
  /\ UNCHANGED <<orderVars, stockVars, errors, died>>

WithinCeiling(kg, total) == total * 100 <= kg * (100 + TolPct)
Complete(kg, total) == total * 100 >= kg * (100 - TolPct)

\* What leaves the reservation, and what must come out of free stock, when a truck takes kg.
FromReserved(w, o, kg) == Min(kg, Positive(req[w].quantityKg - loadedKg[o]))
Extra(w, o, kg) == kg - FromReserved(w, o, kg)
\* Mutant: a short final load keeps its reservation.
NoShortfall(w, o, kg) == 0
Shortfall(w, o, kg) == IF Complete(req[w].quantityKg, loadedKg[o] + kg)
                       THEN Positive(req[w].quantityKg - (loadedKg[o] + kg)) ELSE 0

\* Weighed in by the keeper, or everything still owed when no weight is given.
WeighedKg(w, o) == Weights \union {req[w].quantityKg - loadedKg[o]}

\* Mutant: the ceiling is checked against this truck alone.
CanLoadEachTruck(w, o, kg) ==
  /\ kg > 0
  /\ WithinCeiling(req[w].quantityKg, kg)
  /\ Extra(w, o, kg) > 0 => Extra(w, o, kg) <= availableKg
  /\ kg <= drawableKg
  /\ order[o].status \in Loadable

\* Mutant: what a truck takes beyond the reservation is not checked against the free stock.
CanLoadExtra(w, o, kg) ==
  /\ kg > 0
  /\ WithinCeiling(req[w].quantityKg, loadedKg[o] + kg)
  /\ kg <= drawableKg
  /\ order[o].status \in Loadable

\* Mutant: the draw takes a batch's physical weight, set aside or not.
CanLoadSetAside(w, o, kg) ==
  /\ kg > 0
  /\ WithinCeiling(req[w].quantityKg, loadedKg[o] + kg)
  /\ Extra(w, o, kg) > 0 => Extra(w, o, kg) <= availableKg
  /\ kg <= onHandKg
  /\ order[o].status \in Loadable

CanLoad(w, o, kg) ==
  /\ kg > 0
  /\ WithinCeiling(req[w].quantityKg, loadedKg[o] + kg)
  /\ Extra(w, o, kg) > 0 => Extra(w, o, kg) <= availableKg
  /\ kg <= drawableKg
  /\ order[o].status \in Loadable

LoadTruck(w, o, kg) ==
  /\ At(w, o, "load")
  /\ CanLoad(w, o, kg)
  /\ order' = [order EXCEPT ![o].status = IF Complete(req[w].quantityKg, loadedKg[o] + kg)
                                          THEN "RELEASED" ELSE "PARTIALLY_RELEASED"]
  /\ loadedKg' = [loadedKg EXCEPT ![o] = @ + kg]
  /\ trucks' = [trucks EXCEPT ![o] = Append(@, IF order[o].needsTransport THEN "ASSIGNED" ELSE "DELIVERED")]
  /\ Move(o, -(FromReserved(w, o, kg) + Shortfall(w, o, kg)))
  /\ onHandKg' = onHandKg - kg
  /\ Finish(w)
  /\ UNCHANGED <<sale, opsVars, errors, raced, died>>

LoadRefused(w, o, kg) ==
  /\ At(w, o, "load")
  /\ ~CanLoad(w, o, kg)
  /\ Throw(w)

-----------------------------------------------------------------------------
(* setLoadStatus: the truck's status is read, then written whatever it has become since. *)
TruckRead(w, o, n, to) ==
  /\ n \in DOMAIN trucks[o]
  /\ \/ to = "IN_TRANSIT" /\ trucks[o][n] = "ASSIGNED"
     \/ to = "DELIVERED" /\ trucks[o][n] # "DELIVERED"
  /\ Start(w, o, [NoRequest EXCEPT !.step = "truck", !.truck = n, !.to = to])
  /\ UNCHANGED <<orderVars, stockVars, errors, died>>

SetTruck(w, o) ==
  /\ At(w, o, "truck")
  /\ trucks' = [trucks EXCEPT ![o] = [@ EXCEPT ![req[w].truck] = req[w].to]]
  /\ Finish(w)
  /\ UNCHANGED <<order, sale, loadedKg, stockVars, errors, raced, died>>

(* complete: every truck received and the money in, then the claim. *)
\* Mutant: the trucks are not looked at.
CompletePaidRead(w, o) ==
  /\ order[o].status = "RELEASED"
  /\ sale[order[o].sale].paid
  /\ Start(w, o, [NoRequest EXCEPT !.step = "complete"])
  /\ UNCHANGED <<orderVars, stockVars, errors, died>>

CompleteRead(w, o) ==
  /\ order[o].status = "RELEASED"
  /\ \A n \in DOMAIN trucks[o]: trucks[o][n] = "DELIVERED"
  /\ sale[order[o].sale].paid
  /\ Start(w, o, [NoRequest EXCEPT !.step = "complete"])
  /\ UNCHANGED <<orderVars, stockVars, errors, died>>

CompleteOrder(w, o) ==
  /\ At(w, o, "complete")
  /\ order' = IF order[o].status = "RELEASED" THEN [order EXCEPT ![o].status = "COMPLETED"] ELSE order
  /\ Finish(w)
  /\ UNCHANGED <<sale, loadedKg, trucks, stockVars, errors, raced, died>>

-----------------------------------------------------------------------------
(* closeShort: read the order and its loads, shrink the sale (reduceQuantity: a read that may
   refuse, then its own transaction), and only then claim the order and give the rest back. *)
CloseRead(w, o) ==
  /\ order[o].status = "PARTIALLY_RELEASED"
  /\ order[o].quantityKg > loadedKg[o]
  /\ Start(w, o, [NoRequest EXCEPT !.step = "reduce", !.sale = order[o].sale,
                  !.quantityKg = order[o].quantityKg, !.loadedKg = loadedKg[o]])
  /\ UNCHANGED <<orderVars, stockVars, errors, died>>

ReduceRead(w, o) ==
  /\ At(w, o, "reduce")
  /\ \/ /\ req[w].loadedKg >= sale[req[w].sale].quantityKg
        /\ Goto(w, [req[w] EXCEPT !.step = "close"])
     \/ /\ req[w].loadedKg < sale[req[w].sale].quantityKg
        /\ ~sale[req[w].sale].paid
        /\ Goto(w, [req[w] EXCEPT !.step = "shrink"])
     \/ /\ req[w].loadedKg < sale[req[w].sale].quantityKg
        /\ sale[req[w].sale].paid
        /\ Finish(w)
  /\ UNCHANGED <<orderVars, stockVars, errors, raced, died>>

\* Mutant: the sale is shrunk by what was loaded instead of to it.
ReduceBy(w, o) ==
  /\ At(w, o, "shrink")
  /\ sale' = [sale EXCEPT ![req[w].sale].quantityKg = @ - req[w].loadedKg]
  /\ Goto(w, [req[w] EXCEPT !.step = "close"])
  /\ UNCHANGED <<order, loadedKg, trucks, stockVars, errors, raced, died>>

ReduceWrite(w, o) ==
  /\ At(w, o, "shrink")
  /\ sale' = [sale EXCEPT ![req[w].sale].quantityKg = req[w].loadedKg]
  /\ Goto(w, [req[w] EXCEPT !.step = "close"])
  /\ UNCHANGED <<order, loadedKg, trucks, stockVars, errors, raced, died>>

\* Mutant: the operands of the remaining weight are swapped.
CloseShortSwapped(w, o) ==
  /\ At(w, o, "close")
  /\ order[o].status = "PARTIALLY_RELEASED"
  /\ order' = [order EXCEPT ![o] = [@ EXCEPT !.status = "RELEASED", !.quantityKg = req[w].loadedKg - @]]
  /\ Move(o, req[w].loadedKg - req[w].quantityKg)
  /\ Finish(w)
  /\ UNCHANGED <<sale, loadedKg, trucks, onHandKg, opsVars, errors, raced, died>>

CloseShort(w, o) ==
  /\ At(w, o, "close")
  /\ order[o].status = "PARTIALLY_RELEASED"
  /\ order' = [order EXCEPT ![o] = [@ EXCEPT !.status = "RELEASED", !.quantityKg = req[w].loadedKg]]
  /\ Move(o, -(req[w].quantityKg - req[w].loadedKg))
  /\ Finish(w)
  /\ UNCHANGED <<sale, loadedKg, trucks, onHandKg, opsVars, errors, raced, died>>

CloseLate(w, o) ==
  /\ At(w, o, "close")
  /\ order[o].status # "PARTIALLY_RELEASED"
  /\ Throw(w)

-----------------------------------------------------------------------------
(* settle: the buyer's money is in.  Any sale can be settled, one no order points at too. *)
SettleRead(w, o, s) ==
  /\ sale[s].order = {o}
  /\ ~sale[s].paid
  /\ Start(w, o, [NoRequest EXCEPT !.step = "settle", !.sale = s])
  /\ UNCHANGED <<orderVars, stockVars, errors, died>>

Settle(w, o) ==
  /\ At(w, o, "settle")
  /\ sale' = [sale EXCEPT ![req[w].sale].paid = TRUE]
  /\ Finish(w)
  /\ UNCHANGED <<order, loadedKg, trucks, stockVars, errors, raced, died>>

(* The process dies between two steps of a request: what has committed stays. *)
Crash(w, o) ==
  /\ req[w].order = {o}
  /\ Cardinality(died \union {o}) <= MaxDeaths
  /\ died' = died \union {o}
  /\ Finish(w)
  /\ UNCHANGED <<orderVars, stockVars, errors, raced>>

-----------------------------------------------------------------------------
(* Operations orders on the same floor.  allocate checks what the batches have free: physical
   less other allocations, whatever sale orders have reserved (ops-common.ts, batchBalances). *)
OpsAllocate(kg) ==
  /\ kg <= drawableKg
  /\ opsKg + kg <= MaxOpsKg
  /\ allocatedKg' = allocatedKg + kg
  /\ opsKg' = opsKg + kg
  /\ UNCHANGED <<orderVars, held, reservedKg, onHandKg, prepared, strayKg, req, errors, raced, died>>

(* prepare asks for rice set aside and not in another prepared load, but counts those loads
   before it writes its own and without a lock, so two loads may be prepared from the same rice. *)
OpsPrepare(kg) ==
  /\ kg <= allocatedKg
  /\ prepared[kg] < MaxOpsLoads
  /\ prepared' = [prepared EXCEPT ![kg] = @ + 1]
  /\ UNCHANGED <<orderVars, held, reservedKg, onHandKg, allocatedKg, opsKg, strayKg, req, errors, raced, died>>

(* A prepared load leaves when its weight is on the floor, set aside or not.  It takes what its
   own order line still has set aside, up to its weight: of the allocations of all orders, which
   allocatedKg sums up, that is any part. *)
OpsDispatch(kg, taken) ==
  /\ prepared[kg] > 0
  /\ kg <= onHandKg
  /\ taken <= allocatedKg
  /\ prepared' = [prepared EXCEPT ![kg] = @ - 1]
  /\ onHandKg' = onHandKg - kg
  /\ allocatedKg' = allocatedKg - taken
  /\ strayKg' = strayKg + (kg - taken)
  /\ UNCHANGED <<orderVars, held, reservedKg, opsKg, req, errors, raced, died>>

OpsCancelLoad(kg) ==
  /\ prepared[kg] > 0
  /\ prepared' = [prepared EXCEPT ![kg] = @ - 1]
  /\ UNCHANGED <<orderVars, held, reservedKg, onHandKg, allocatedKg, opsKg, strayKg, req, errors, raced, died>>

\* Set-aside rice is given back (releaseAllocation, voiding and cancelling an order).
OpsRelease(kg) ==
  /\ kg <= allocatedKg
  /\ allocatedKg' = allocatedKg - kg
  /\ UNCHANGED <<orderVars, held, reservedKg, onHandKg, opsKg, prepared, strayKg, req, errors, raced, died>>

(* What operations do to the floor. *)
OpsStep(kg) ==
  \/ OpsAllocate(kg)
  \/ OpsPrepare(kg)
  \/ \E taken \in 0..kg: OpsDispatch(kg, taken)
  \/ OpsCancelLoad(kg)
  \/ OpsRelease(kg)

-----------------------------------------------------------------------------
(* The steps a request takes once it has begun. *)
Proceed(w, o) ==
  \/ ConfirmClaim(w, o)
  \/ ConfirmLate(w, o)
  \/ \E s \in Sales: ConfirmCreate(w, o, s)
  \/ ConfirmLink(w, o)
  \/ ConfirmRevert(w, o)
  \/ Approve(w, o)
  \/ \E kg \in WeighedKg(w, o): LoadTruck(w, o, kg)
  \/ \E kg \in WeighedKg(w, o): LoadRefused(w, o, kg)
  \/ SetTruck(w, o)
  \/ CompleteOrder(w, o)
  \/ ReduceRead(w, o)
  \/ ReduceWrite(w, o)
  \/ CloseShort(w, o)
  \/ CloseLate(w, o)
  \/ Settle(w, o)

Arrive(w, o) ==
  \/ ConfirmRead(w, o)
  \/ ApproveRead(w, o)
  \/ Len(trucks[o]) < MaxTrucks /\ LoadRead(w, o)
  \/ \E n \in 1..MaxTrucks, to \in {"IN_TRANSIT", "DELIVERED"}: TruckRead(w, o, n, to)
  \/ CompleteRead(w, o)
  \/ CloseRead(w, o)
  \/ \E s \in Sales: SettleRead(w, o, s)

Next ==
  \/ \E o \in Orders, kg \in OrderKgs, t \in Carriage: Reserve(o, kg, t)
  \/ \E o \in Orders: Cancel(o)
  \/ \E o \in Orders: ExpireStale(o)
  \/ \E w \in Workers, o \in Orders: Arrive(w, o)
  \/ \E w \in Workers, o \in Orders: Proceed(w, o)
  \/ \E w \in Workers, o \in Orders: ConfirmError(w, o)
  \/ \E w \in Workers, o \in Orders: Crash(w, o)
  \/ \E kg \in Weights: OpsStep(kg)

Spec == Init /\ [][Next]_vars

(* The sweep runs every hour for every order that is still RESERVED, and a request that has
   begun is driven to its end by the event loop.  Nobody has to send a request. *)
FairSpec == /\ Spec
            /\ \A o \in Orders: WF_vars(ExpireStale(o))
            /\ \A w \in Workers: WF_vars(\E o \in Orders: Proceed(w, o))

-----------------------------------------------------------------------------
(* Properties. *)

\* Every table and every request in progress holds values of its columns' types.
TypeOK ==
  /\ order \in [Orders -> OrderRow]
  /\ sale \in [Sales -> SaleRow]
  /\ loadedKg \in [Orders -> Nat]
  /\ trucks \in [Orders -> Seq(TruckStatus)]
  /\ held \in [Orders -> Int]
  /\ reservedKg \in Int /\ onHandKg \in Nat /\ allocatedKg \in Nat /\ opsKg \in Nat
  /\ prepared \in [Weights -> Nat] /\ strayKg \in Nat
  /\ req \in [Workers -> Request]
  /\ errors \in Nat
  /\ raced \subseteq Orders /\ died \subseteq Orders

Open == {"RESERVED", "CONFIRMED", "PARTIALLY_RELEASED"}

(* An order holds on the floor exactly what it has still to load, from the reservation to the
   last truck, the short close, the cancellation or the expiry, and nothing afterwards - also
   when a request dies half way.  Only overlapping requests on the same order can break it. *)
HoldMatchesOrder ==
  \A o \in Orders \ raced:
    held[o] = IF order[o].status \in Open THEN order[o].quantityKg - loadedKg[o] ELSE 0

(* Sale orders never promise rice that is not there: the balance can only go below zero by what
   operations orders set aside without looking at the reservations (warehouses/stock.ts) and by
   what their loads took that was not set aside for them (ops/dispatch.service.ts, release). *)
NeverOversoldBySaleOrders == availableKg + opsKg + strayKg >= 0

(* Trucks of sale orders never take rice set aside for operations orders (batch-draw.ts): an
   allocation loses its cover only to operations loads that left with more than was set aside
   for them. *)
AllocationsStayCovered == allocatedKg <= onHandKg + strayKg

(* The live orders of a lot never add up to more than the lot weighs (lotRemainingKg). *)
LotNotOversold ==
  SumFunctionOnSet([o \in Orders |-> order[o].quantityKg], {o \in Orders: order[o].status \in LIVE}) <= LotKg

(* A sale says what its order says, once a confirmation or a short close has run to its end:
   the buyer is billed for the kilograms that left (confirm, closeShort, reduceQuantity). *)
SaleMatchesOrder ==
  \A o \in Orders \ (raced \union died):
    order[o].sale # NoSale /\ ~Busy(o) => sale[order[o].sale].quantityKg = order[o].quantityKg

(* However many keepers confirm an order at once, every sale of it beyond the first one is the
   trace of a confirmation that failed (the claim in confirm). *)
OneSalePerConfirmation ==
  \A o \in Orders: Cardinality({s \in Sales: sale[s].order = {o}}) <= 1 + errors

(* A completed order has been delivered by every truck and paid (complete). *)
CompletedMeansDelivered ==
  \A o \in Orders \ raced:
    order[o].status = "COMPLETED" =>
      /\ \A n \in DOMAIN trucks[o]: trucks[o][n] = "DELIVERED"
      /\ sale[order[o].sale].paid

(* A cancelled order has no linked sale, no trucks and nothing reserved, however a confirmation,
   a cancellation and the sweep raced for it. *)
CancelledIsClean ==
  \A o \in Orders:
    order[o].status = "CANCELLED" => order[o].sale = NoSale /\ trucks[o] = <<>> /\ held[o] = 0

(* No truck takes an order past its tolerance, and none leaves before the buyer has paid or a
   manager has let it, even when two trucks are loaded at once on what both read earlier. *)
TrucksAreAllowed ==
  [][\A o \in Orders: loadedKg'[o] # loadedKg[o] =>
       WithinCeiling(order[o].quantityKg, loadedKg'[o]) /\ PaidOrApproved(o)]_vars

(* "Refused once money has moved, because a refund is then a finance decision"
   (sales.service.ts:404): reduceQuantity never shrinks a sale that is paid. *)
PaidSaleKeepsWeight ==
  [][\A s \in Sales:
       sale[s].order # {} /\ sale[s].paid => sale'[s].quantityKg = sale[s].quantityKg]_vars

(* "The manager closes the order at what was loaded: the unloaded stock goes back on sale"
   (sale-orders.service.ts:888): a short close leaves the order at the weight its trucks took. *)
ClosedAtWhatWasLoaded ==
  [][\A o \in Orders: order'[o].quantityKg < order[o].quantityKg =>
       order'[o].quantityKg = loadedKg'[o]]_vars

(* "Serialises concurrent stock changes on one warehouse so reservations cannot oversell"
   (warehouses/stock.ts:38): what is reserved and set aside is on the floor. *)
ReservationsCannotOversell == availableKg >= 0

(* "an order nobody confirmed holds stock off the market. After the configured number of days
   it is cancelled and its reservation returned" (sale-orders.service.ts:967). *)
UnconfirmedReturns ==
  \A o \in Orders:
    order[o].status = "RESERVED" ~> order[o].status = "CANCELLED" \/ order[o].sale # NoSale

(* Every reservation ends: it becomes a sale or the sweep returns it, unless the process that
   was confirming it died in between (confirm, expireStale). *)
ReservationsEnd ==
  \A o \in Orders:
    order[o].status = "RESERVED" ~>
      order[o].status = "CANCELLED" \/ order[o].sale # NoSale \/ o \in died

-----------------------------------------------------------------------------
(* Why the stock is never oversold: a short close only ever gives rice back. *)
NeverClosesUpwards == \A w \in Workers: req[w].loadedKg <= req[w].quantityKg

StockInvariant == TypeOK /\ NeverClosesUpwards /\ AllocationsStayCovered /\ NeverOversoldBySaleOrders

-----------------------------------------------------------------------------
(* Why HoldMatchesOrder holds: what the tables and the snapshots of requests keep between steps. *)

\* An order on which requests never overlapped is served by one worker at a time.
ServedAlone ==
  \A o \in Orders \ raced: \A v, w \in Workers:
    req[v].order = {o} /\ req[w].order = {o} => v = w

\* An order that has not been reserved has no trucks, no sale and no requests.
NothingBeforeReserved ==
  \A o \in Orders: order[o].status = "NONE" =>
    trucks[o] = <<>> /\ (\A s \in Sales: sale[s].order # {o}) /\ (\A w \in Workers: req[w].order # {o})

\* A row is loaded only once it is confirmed, and an open order has never been loaded beyond its weight.
LoadedAfterConfirmed ==
  /\ \A o \in Orders: order[o].status \in {"NONE", "RESERVED", "CONFIRMED"} => loadedKg[o] = 0
  /\ \A o \in Orders \ raced: order[o].status \in Open => loadedKg[o] <= order[o].quantityKg

\* What a truck or a short close read is still so when it acts.
SnapshotsHold ==
  \A o \in Orders \ raced, w \in Workers:
    /\ At(w, o, "load") => req[w].quantityKg = order[o].quantityKg
    /\ At(w, o, "reduce") \/ At(w, o, "shrink") \/ At(w, o, "close") =>
         req[w].quantityKg = order[o].quantityKg /\ req[w].loadedKg = loadedKg[o]

HoldInvariant == TypeOK /\ ServedAlone /\ NothingBeforeReserved /\ LoadedAfterConfirmed /\ SnapshotsHold /\ HoldMatchesOrder
=============================================================================
