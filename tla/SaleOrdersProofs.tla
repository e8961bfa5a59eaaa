-------------------------- MODULE SaleOrdersProofs --------------------------
(* Theorems of SaleOrders, for every set of orders, sales and workers and every bound. *)
EXTENDS SaleOrders, SequenceTheorems, TLAPS

-----------------------------------------------------------------------------
(* Lemmas about the pieces the handlers are built from. *)

\* A request that begins is a request, about the order it was sent for.
LEMMA StartIsRequest ==
  ASSUME NEW o \in Orders, NEW r \in Request
  PROVE  [r EXCEPT !.order = {o}] \in Request
BY DEF Request

\* An idle worker's record is well typed.
LEMMA NoRequestIsRequest == NoRequest \in Request
BY DEF Request, NoRequest, Steps, TruckStatus

\* Writing a request of one worker leaves a table of requests.
LEMMA GotoKeepsTypes ==
  ASSUME TypeOK, NEW w \in Workers, NEW r \in Request, Goto(w, r)
  PROVE  req' \in [Workers -> Request]
BY DEF TypeOK, Goto

\* Ending a request leaves the workers well typed.
LEMMA FinishKeepsTypes ==
  ASSUME TypeOK, NEW w \in Workers, Finish(w)
  PROVE  req' \in [Workers -> Request]
BY NoRequestIsRequest, GotoKeepsTypes DEF Finish

\* Beginning a request leaves the workers well typed.
LEMMA StartKeepsTypes ==
  ASSUME TypeOK, NEW w \in Workers, NEW o \in Orders, NEW r \in Request, Start(w, o, r)
  PROVE  req' \in [Workers -> Request] /\ raced' \subseteq Orders
BY StartIsRequest, GotoKeepsTypes DEF Start, TypeOK

\* Moving a request to another step leaves a request.
LEMMA StepIsRequest ==
  ASSUME NEW r \in Request, NEW step \in Steps
  PROVE  [r EXCEPT !.step = step] \in Request
BY DEF Request

\* Moving to another step with a sale remembered leaves a request.
LEMMA SaleIsRequest ==
  ASSUME NEW r \in Request, NEW step \in Steps, NEW s \in Sales
  PROVE  [r EXCEPT !.step = step, !.sale = s] \in Request
BY DEF Request

\* Writing a status, a quantity, a sale or an approval leaves a row of sale_orders.
LEMMA OrderRowWritten ==
  ASSUME NEW row \in OrderRow, NEW st \in Status
  PROVE  /\ [row EXCEPT !.status = st] \in OrderRow
         /\ [row EXCEPT !.credit = TRUE] \in OrderRow
         /\ [row EXCEPT !.override = TRUE] \in OrderRow
         /\ \A kg \in Nat: [row EXCEPT !.status = st, !.quantityKg = kg] \in OrderRow
         /\ \A kg \in Nat, t \in BOOLEAN:
              [row EXCEPT !.status = st, !.quantityKg = kg, !.needsTransport = t] \in OrderRow
         /\ \A s \in Sales \union {NoSale}: [row EXCEPT !.sale = s] \in OrderRow
BY DEF OrderRow

\* Writing one row of sales leaves the table well typed.
LEMMA SaleRowWritten ==
  ASSUME NEW row \in SaleRow, NEW O \in SUBSET Orders, NEW kg \in Nat
  PROVE  /\ [row EXCEPT !.order = O, !.quantityKg = kg] \in SaleRow
         /\ [row EXCEPT !.quantityKg = kg] \in SaleRow
         /\ [row EXCEPT !.paid = TRUE] \in SaleRow
BY DEF SaleRow

\* The columns of a row and of a request.
LEMMA Columns ==
  ASSUME TypeOK, NEW o \in Orders, NEW w \in Workers
  PROVE  /\ order[o] \in OrderRow /\ order[o].quantityKg \in Nat /\ order[o].status \in Status
         /\ order[o].sale \in Sales \union {NoSale}
         /\ req[w] \in Request /\ req[w].quantityKg \in Nat /\ req[w].loadedKg \in Nat
         /\ req[w].to \in TruckStatus /\ req[w].sale \in Sales \union {NoSale}
         /\ req[w].truck \in Nat
         /\ loadedKg[o] \in Nat /\ held[o] \in Int /\ trucks[o] \in Seq(TruckStatus)
BY DEF TypeOK, OrderRow, Request

\* A truck that may be loaded takes a whole number of kilograms that the floor has free.
LEMMA LoadableKg ==
  ASSUME TypeOK, NEW o \in Orders, NEW w \in Workers, NEW kg \in WeighedKg(w, o),
         CanLoad(w, o, kg)
  PROVE  /\ kg \in Nat /\ kg > 0
         /\ kg <= onHandKg - allocatedKg
         /\ FromReserved(w, o, kg) \in Nat
         /\ FromReserved(w, o, kg) <= kg
         /\ Shortfall(w, o, kg) \in Nat
<1>1. kg \in Nat /\ kg > 0
  BY Columns, KgAssumption DEF WeighedKg, CanLoad, drawableKg
<1>2. FromReserved(w, o, kg) \in Nat /\ FromReserved(w, o, kg) <= kg
  BY <1>1, Columns DEF FromReserved, Min, Positive
<1>3. Shortfall(w, o, kg) \in Nat
  BY <1>1, Columns DEF Shortfall, Positive
<1> QED
  BY <1>1, <1>2, <1>3 DEF CanLoad, drawableKg

-----------------------------------------------------------------------------
(* Every step keeps the types (TypeOK). *)
LEMMA TypeStep == TypeOK /\ [Next]_vars => TypeOK'
<1> SUFFICES ASSUME TypeOK, [Next]_vars PROVE TypeOK'
  OBVIOUS
<1> USE DEF orderVars, stockVars, opsVars
<1>1. CASE UNCHANGED vars
  BY <1>1 DEF vars, TypeOK
<1>2. ASSUME NEW o \in Orders, NEW kg \in OrderKgs, NEW t \in Carriage, Reserve(o, kg, t)
      PROVE  TypeOK'
  <2>1. kg \in Nat /\ t \in BOOLEAN /\ "RESERVED" \in Status
    BY KgAssumption DEF Status
  <2>2. [order[o] EXCEPT !.status = "RESERVED", !.quantityKg = kg, !.needsTransport = t] \in OrderRow
    BY <2>1, OrderRowWritten DEF TypeOK
  <2> QED BY SMTT(40), <1>2, <2>1, <2>2 DEF Reserve, Move, TypeOK
<1>3. ASSUME NEW o \in Orders, Cancel(o) \/ ExpireStale(o)
      PROVE  TypeOK'
  <2>1. ReleaseReservation(o)
    BY <1>3 DEF Cancel, ExpireStale
  <2>2. [order[o] EXCEPT !.status = "CANCELLED"] \in OrderRow /\ order[o].quantityKg \in Nat
    <3>1. order[o] \in OrderRow
      BY DEF TypeOK
    <3>2. order[o].quantityKg \in Nat
      BY <3>1 DEF OrderRow
    <3> QED BY <3>1, <3>2, OrderRowWritten DEF Status
  <2>3. -order[o].quantityKg \in Int
    BY <2>2
  <2>4. held' \in [Orders -> Int] /\ reservedKg' \in Int
    BY SMTT(40), <2>1, <2>3 DEF ReleaseReservation, Move, TypeOK
  <2> QED BY <2>1, <2>2, <2>4 DEF ReleaseReservation, TypeOK
<1>4. ASSUME NEW w \in Workers, NEW o \in Orders, Arrive(w, o)
      PROVE  TypeOK'
  <2>0. /\ order[o].quantityKg \in Nat /\ loadedKg[o] \in Nat
        /\ order[o].sale \in Sales \union {NoSale}
    BY Columns
  <2> DEFINE Keeps(r) == Start(w, o, r) /\ UNCHANGED <<orderVars, stockVars, errors, died>>
  <2>1. ASSUME NEW r \in Request, Keeps(r) PROVE TypeOK'
    BY <2>1, StartKeepsTypes DEF TypeOK
  <2>2. CASE ConfirmRead(w, o)
    <3>1. [NoRequest EXCEPT !.step = "claim", !.quantityKg = order[o].quantityKg] \in Request
      BY <2>0 DEF NoRequest, Request, Steps, TruckStatus
    <3> QED BY <2>1, <2>2, <3>1 DEF ConfirmRead
  <2>3. CASE ApproveRead(w, o)
    <3>1. [NoRequest EXCEPT !.step = "approve"] \in Request
      BY DEF NoRequest, Request, Steps, TruckStatus
    <3> QED BY <2>1, <2>3, <3>1 DEF ApproveRead
  <2>4. CASE LoadRead(w, o)
    <3>1. [NoRequest EXCEPT !.step = "load", !.quantityKg = order[o].quantityKg] \in Request
      BY <2>0 DEF NoRequest, Request, Steps, TruckStatus
    <3> QED BY <2>1, <2>4, <3>1 DEF LoadRead
  <2>5. ASSUME NEW n \in 1..MaxTrucks, NEW to \in {"IN_TRANSIT", "DELIVERED"}, TruckRead(w, o, n, to)
        PROVE  TypeOK'
    <3>1. n \in Nat
      BY BoundsAssumption
    <3>2. [NoRequest EXCEPT !.step = "truck", !.truck = n, !.to = to] \in Request
      BY <3>1 DEF NoRequest, Request, Steps, TruckStatus
    <3> QED BY <2>1, <2>5, <3>2 DEF TruckRead
  <2>6. CASE CompleteRead(w, o)
    <3>1. [NoRequest EXCEPT !.step = "complete"] \in Request
      BY DEF NoRequest, Request, Steps, TruckStatus
    <3> QED BY <2>1, <2>6, <3>1 DEF CompleteRead
  <2>7. CASE CloseRead(w, o)
    <3>1. [NoRequest EXCEPT !.step = "reduce", !.sale = order[o].sale,
           !.quantityKg = order[o].quantityKg, !.loadedKg = loadedKg[o]] \in Request
      BY <2>0 DEF NoRequest, Request, Steps, TruckStatus
    <3> QED BY <2>1, <2>7, <3>1 DEF CloseRead
  <2>8. ASSUME NEW s \in Sales, SettleRead(w, o, s)
        PROVE  TypeOK'
    <3>1. [NoRequest EXCEPT !.step = "settle", !.sale = s] \in Request
      BY DEF NoRequest, Request, Steps, TruckStatus
    <3> QED BY <2>1, <2>8, <3>1 DEF SettleRead
  <2> QED BY <1>4, <2>2, <2>3, <2>4, <2>5, <2>6, <2>7, <2>8 DEF Arrive
<1>5. ASSUME NEW w \in Workers, NEW o \in Orders, Proceed(w, o)
      PROVE  TypeOK'
  <2>0. /\ order[o] \in OrderRow /\ req[w] \in Request /\ req[w].quantityKg \in Nat
        /\ req[w].loadedKg \in Nat /\ req[w].sale \in Sales \union {NoSale}
        /\ req[w].to \in TruckStatus
    BY Columns
  <2>1. \A step \in {"create", "link", "close", "shrink"}: [req[w] EXCEPT !.step = step] \in Request
    BY <2>0, StepIsRequest DEF Steps
  <2>2. CASE ConfirmClaim(w, o)
    <3>1. [order[o] EXCEPT !.status = "CONFIRMED"] \in OrderRow
      BY <2>0, OrderRowWritten DEF Status
    <3>2. req' \in [Workers -> Request]
      BY <2>1, <2>2, GotoKeepsTypes DEF ConfirmClaim
    <3> QED BY <2>2, <3>1, <3>2 DEF ConfirmClaim, TypeOK
  <2>3. CASE ConfirmLate(w, o) \/ CloseLate(w, o)
    BY <2>3, FinishKeepsTypes DEF ConfirmLate, CloseLate, Throw, TypeOK
  <2>4. ASSUME NEW s \in Sales, ConfirmCreate(w, o, s) PROVE TypeOK'
    <3>1. [req[w] EXCEPT !.step = "link", !.sale = s] \in Request
      BY <2>0, SaleIsRequest DEF Steps
    <3>2. req' \in [Workers -> Request]
      BY <2>4, <3>1, GotoKeepsTypes DEF ConfirmCreate
    <3>3. [sale[s] EXCEPT !.order = {o}, !.quantityKg = req[w].quantityKg] \in SaleRow
      BY <2>0, SaleRowWritten DEF TypeOK
    <3> QED BY <2>4, <3>2, <3>3 DEF ConfirmCreate, TypeOK
  <2>5. CASE ConfirmLink(w, o)
    <3>1. [order[o] EXCEPT !.sale = req[w].sale] \in OrderRow
      BY <2>0, OrderRowWritten DEF Status
    <3> QED BY <2>5, <3>1, FinishKeepsTypes DEF ConfirmLink, TypeOK
  <2>6. CASE ConfirmRevert(w, o)
    <3>1. [order[o] EXCEPT !.status = "RESERVED"] \in OrderRow
      BY <2>0, OrderRowWritten DEF Status
    <3> QED BY <2>6, <3>1, FinishKeepsTypes DEF ConfirmRevert, TypeOK
  <2>7. CASE Approve(w, o)
    <3>1. /\ [order[o] EXCEPT !.credit = TRUE] \in OrderRow
          /\ [order[o] EXCEPT !.override = TRUE] \in OrderRow
      BY <2>0, OrderRowWritten DEF Status
    <3> QED BY <2>7, <3>1, FinishKeepsTypes DEF Approve, TypeOK
  <2>8. ASSUME NEW kg \in WeighedKg(w, o), LoadTruck(w, o, kg) PROVE TypeOK'
    <3>1. /\ kg \in Nat /\ kg <= onHandKg - allocatedKg
          /\ FromReserved(w, o, kg) \in Nat /\ Shortfall(w, o, kg) \in Nat
      BY <2>8, LoadableKg DEF LoadTruck
    <3>2. /\ [order[o] EXCEPT !.status = "RELEASED"] \in OrderRow
          /\ [order[o] EXCEPT !.status = "PARTIALLY_RELEASED"] \in OrderRow
      BY <2>0, OrderRowWritten DEF Status
    <3>3. order' \in [Orders -> OrderRow]
      BY <2>8, <3>2 DEF LoadTruck, TypeOK
    <3>4. trucks' \in [Orders -> Seq(TruckStatus)]
      <4>1. /\ Append(trucks[o], "ASSIGNED") \in Seq(TruckStatus)
            /\ Append(trucks[o], "DELIVERED") \in Seq(TruckStatus)
        BY DEF TypeOK, TruckStatus
      <4> QED BY <2>8, <4>1 DEF LoadTruck, TypeOK
    <3>5. loadedKg' \in [Orders -> Nat]
      BY SMTT(40), <2>8, <3>1 DEF LoadTruck, TypeOK
    <3>6. onHandKg' \in Nat
      BY SMTT(40), <2>8, <3>1 DEF LoadTruck, TypeOK
    <3>7. -(FromReserved(w, o, kg) + Shortfall(w, o, kg)) \in Int
      BY <3>1
    <3>8. held' \in [Orders -> Int] /\ reservedKg' \in Int
      BY <2>8, <3>7 DEF LoadTruck, Move, TypeOK
    <3> QED BY <2>8, <3>3, <3>4, <3>5, <3>6, <3>8, FinishKeepsTypes DEF LoadTruck, TypeOK
  <2>9. ASSUME NEW kg \in WeighedKg(w, o), LoadRefused(w, o, kg) PROVE TypeOK'
    BY <2>9, FinishKeepsTypes DEF LoadRefused, Throw, TypeOK
  <2>10. CASE SetTruck(w, o)
    <3>1. [trucks[o] EXCEPT ![req[w].truck] = req[w].to] \in Seq(TruckStatus)
      <4>1. trucks[o] \in Seq(TruckStatus)
        BY DEF TypeOK
      <4>2. CASE req[w].truck \in 1..Len(trucks[o])
        BY <2>0, <4>1, <4>2, ExceptSeq
      <4>3. CASE req[w].truck \notin 1..Len(trucks[o])
        <5>1. [trucks[o] EXCEPT ![req[w].truck] = req[w].to] = trucks[o]
          BY <4>1, <4>3
        <5> QED BY <4>1, <5>1
      <4> QED BY <4>2, <4>3
    <3> QED BY <2>10, <3>1, FinishKeepsTypes DEF SetTruck, TypeOK
  <2>11. CASE CompleteOrder(w, o)
    <3>1. [order[o] EXCEPT !.status = "COMPLETED"] \in OrderRow
      BY <2>0, OrderRowWritten DEF Status
    <3> QED BY <2>11, <3>1, FinishKeepsTypes DEF CompleteOrder, TypeOK
  <2>12. CASE ReduceRead(w, o)
    <3>1. req' \in [Workers -> Request]
      BY <2>1, <2>12, GotoKeepsTypes, FinishKeepsTypes DEF ReduceRead
    <3> QED BY <2>12, <3>1 DEF ReduceRead, TypeOK
  <2>13. CASE ReduceWrite(w, o)
    <3>1. \A s \in Sales: [sale[s] EXCEPT !.quantityKg = req[w].loadedKg] \in SaleRow
      BY <2>0, SaleRowWritten DEF TypeOK
    <3>2. req' \in [Workers -> Request]
      BY <2>1, <2>13, GotoKeepsTypes DEF ReduceWrite
    <3> QED BY <2>13, <3>1, <3>2 DEF ReduceWrite, TypeOK
  <2>14. CASE CloseShort(w, o)
    <3>1. [order[o] EXCEPT !.status = "RELEASED", !.quantityKg = req[w].loadedKg] \in OrderRow
      BY <2>0, OrderRowWritten DEF Status
    <3>2. -(req[w].quantityKg - req[w].loadedKg) \in Int
      BY <2>0
    <3>3. held' \in [Orders -> Int] /\ reservedKg' \in Int
      BY <2>14, <3>2 DEF CloseShort, Move, TypeOK
    <3> QED BY <2>14, <3>1, <3>3, FinishKeepsTypes DEF CloseShort, TypeOK
  <2>15. CASE Settle(w, o)
    <3>1. \A s \in Sales: [sale[s] EXCEPT !.paid = TRUE] \in SaleRow
      BY SaleRowWritten DEF TypeOK
    <3> QED BY <2>15, <3>1, FinishKeepsTypes DEF Settle, TypeOK
  <2> QED BY <1>5, <2>2, <2>3, <2>4, <2>5, <2>6, <2>7, <2>8, <2>9, <2>10, <2>11, <2>12, <2>13,
             <2>14, <2>15 DEF Proceed
<1>6. ASSUME NEW w \in Workers, NEW o \in Orders, ConfirmError(w, o)
      PROVE  TypeOK'
  <2>1. [req[w] EXCEPT !.step = "revert"] \in Request
    BY Columns, StepIsRequest DEF Steps
  <2> QED BY SMTT(40), <1>6, <2>1, GotoKeepsTypes DEF ConfirmError, TypeOK
<1>7. ASSUME NEW w \in Workers, NEW o \in Orders, Crash(w, o)
      PROVE  TypeOK'
  BY <1>7, FinishKeepsTypes DEF Crash, TypeOK
<1>8. ASSUME NEW kg \in Weights, OpsStep(kg)
      PROVE  TypeOK'
  <2>1. kg \in Nat
    BY KgAssumption
  <2>2. /\ onHandKg \in Nat /\ allocatedKg \in Nat /\ opsKg \in Nat /\ strayKg \in Nat
        /\ prepared[kg] \in Nat
    BY DEF TypeOK
  <2>3. CASE OpsAllocate(kg)
    BY <2>1, <2>2, <2>3 DEF OpsAllocate, drawableKg, TypeOK
  <2>4. ASSUME NEW taken \in 0..kg, OpsDispatch(kg, taken) PROVE TypeOK'
    <3>1. onHandKg' \in Nat /\ allocatedKg' \in Nat /\ strayKg' \in Nat /\ prepared[kg] - 1 \in Nat
      BY <2>1, <2>2, <2>4 DEF OpsDispatch
    <3>2. prepared' \in [Weights -> Nat]
      BY <2>4, <3>1 DEF OpsDispatch, TypeOK
    <3> QED BY <2>4, <3>1, <3>2 DEF OpsDispatch, TypeOK
  <2>5. CASE OpsRelease(kg)
    BY <2>1, <2>2, <2>5 DEF OpsRelease, TypeOK
  <2>6. CASE OpsPrepare(kg)
    BY <2>2, <2>6 DEF OpsPrepare, TypeOK
  <2>7. CASE OpsCancelLoad(kg)
    <3>1. prepared[kg] - 1 \in Nat
      BY <2>2, <2>7 DEF OpsCancelLoad
    <3> QED BY <2>7, <3>1 DEF OpsCancelLoad, TypeOK
  <2> QED BY <1>8, <2>3, <2>4, <2>5, <2>6, <2>7 DEF OpsStep
<1> QED
  BY <1>1, <1>2, <1>3, <1>4, <1>5, <1>6, <1>7, <1>8 DEF Next

-----------------------------------------------------------------------------
(* The stock: what is set aside is on the floor, and sale orders alone never promise more. *)
LEMMA SnapshotStep == TypeOK /\ NeverClosesUpwards /\ [Next]_vars => NeverClosesUpwards'
<1> SUFFICES ASSUME TypeOK, NeverClosesUpwards, [Next]_vars, NEW v \in Workers
             PROVE  req'[v].loadedKg <= req'[v].quantityKg
  BY DEF NeverClosesUpwards
<1> USE DEF NeverClosesUpwards
<1>0. /\ req \in [Workers -> Request]
      /\ \A o \in Orders: loadedKg[o] \in Nat /\ order[o].quantityKg \in Nat
      /\ \A w \in Workers: req[w].loadedKg \in Nat /\ req[w].quantityKg \in Nat
  BY DEF TypeOK, OrderRow, Request
<1>1. CASE UNCHANGED req
  BY <1>1
<1>2. ASSUME NEW w \in Workers, Finish(w)
      PROVE  req'[v].loadedKg <= req'[v].quantityKg
  BY <1>0, <1>2 DEF Finish, Goto, NoRequest
<1>3. ASSUME NEW w \in Workers, NEW o \in Orders, Arrive(w, o)
      PROVE  req'[v].loadedKg <= req'[v].quantityKg
  <2>1. ASSUME NEW r, r.loadedKg <= r.quantityKg, [r EXCEPT !.order = {o}].loadedKg = r.loadedKg,
               [r EXCEPT !.order = {o}].quantityKg = r.quantityKg, Start(w, o, r)
        PROVE  req'[v].loadedKg <= req'[v].quantityKg
    BY <1>0, <2>1 DEF Start, Goto
  <2>2. CASE ConfirmRead(w, o)
    <3> DEFINE r == [NoRequest EXCEPT !.step = "claim", !.quantityKg = order[o].quantityKg]
    <3>1. Start(w, o, r)
      BY <1>0, <2>2 DEF ConfirmRead
    <3>2. /\ r.loadedKg <= r.quantityKg
          /\ [r EXCEPT !.order = {o}].loadedKg = r.loadedKg
          /\ [r EXCEPT !.order = {o}].quantityKg = r.quantityKg
      BY <1>0 DEF NoRequest
    <3> HIDE DEF r
    <3> QED BY <2>1, <3>1, <3>2
  <2>3. CASE ApproveRead(w, o)
    BY <2>1, <2>3 DEF ApproveRead, NoRequest
  <2>4. CASE LoadRead(w, o)
    <3> DEFINE r == [NoRequest EXCEPT !.step = "load", !.quantityKg = order[o].quantityKg]
    <3>1. Start(w, o, r)
      BY <1>0, <2>4 DEF LoadRead
    <3>2. /\ r.loadedKg <= r.quantityKg
          /\ [r EXCEPT !.order = {o}].loadedKg = r.loadedKg
          /\ [r EXCEPT !.order = {o}].quantityKg = r.quantityKg
      BY <1>0 DEF NoRequest
    <3> HIDE DEF r
    <3> QED BY <2>1, <3>1, <3>2
  <2>5. ASSUME NEW n \in 1..MaxTrucks, NEW to \in {"IN_TRANSIT", "DELIVERED"}, TruckRead(w, o, n, to)
        PROVE  req'[v].loadedKg <= req'[v].quantityKg
    <3> DEFINE r == [NoRequest EXCEPT !.step = "truck", !.truck = n, !.to = to]
    <3>1. Start(w, o, r)
      BY <1>0, <2>5 DEF TruckRead
    <3>2. /\ r.loadedKg <= r.quantityKg
          /\ [r EXCEPT !.order = {o}].loadedKg = r.loadedKg
          /\ [r EXCEPT !.order = {o}].quantityKg = r.quantityKg
      BY <1>0 DEF NoRequest
    <3> HIDE DEF r
    <3> QED BY <2>1, <3>1, <3>2
  <2>6. CASE CompleteRead(w, o)
    BY <2>1, <2>6 DEF CompleteRead, NoRequest
  <2>7. CASE CloseRead(w, o)
    <3> DEFINE r == [NoRequest EXCEPT !.step = "reduce", !.sale = order[o].sale,
                    !.quantityKg = order[o].quantityKg, !.loadedKg = loadedKg[o]]
    <3>1. Start(w, o, r) /\ loadedKg[o] <= order[o].quantityKg
      BY <1>0, <2>7 DEF CloseRead
    <3>2. /\ r.loadedKg <= r.quantityKg
          /\ [r EXCEPT !.order = {o}].loadedKg = r.loadedKg
          /\ [r EXCEPT !.order = {o}].quantityKg = r.quantityKg
      BY <1>0, <3>1 DEF NoRequest
    <3> HIDE DEF r
    <3> QED BY <2>1, <3>1, <3>2
  <2>8. ASSUME NEW s \in Sales, SettleRead(w, o, s)
        PROVE  req'[v].loadedKg <= req'[v].quantityKg
    <3> DEFINE r == [NoRequest EXCEPT !.step = "settle", !.sale = s]
    <3>1. Start(w, o, r)
      BY <1>0, <2>8 DEF SettleRead
    <3>2. /\ r.loadedKg <= r.quantityKg
          /\ [r EXCEPT !.order = {o}].loadedKg = r.loadedKg
          /\ [r EXCEPT !.order = {o}].quantityKg = r.quantityKg
      BY <1>0 DEF NoRequest
    <3> HIDE DEF r
    <3> QED BY <2>1, <3>1, <3>2
  <2> QED BY <1>3, <2>2, <2>3, <2>4, <2>5, <2>6, <2>7, <2>8 DEF Arrive
<1>4. ASSUME NEW w \in Workers, NEW o \in Orders, Proceed(w, o) \/ ConfirmError(w, o) \/ Crash(w, o)
      PROVE  req'[v].loadedKg <= req'[v].quantityKg
  <2>1. ASSUME NEW step \in Steps, Goto(w, [req[w] EXCEPT !.step = step])
        PROVE  req'[v].loadedKg <= req'[v].quantityKg
    BY <1>0, <2>1 DEF Goto, Request
  <2>2. ASSUME NEW s \in Sales, ConfirmCreate(w, o, s)
        PROVE  req'[v].loadedKg <= req'[v].quantityKg
    BY <1>0, <2>2 DEF ConfirmCreate, Goto, Request
  <2>3. CASE ConfirmClaim(w, o) \/ ConfirmError(w, o) \/ ReduceWrite(w, o)
    BY <2>1, <2>3 DEF ConfirmClaim, ConfirmError, ReduceWrite, Steps
  <2>4. CASE ReduceRead(w, o)
    BY <1>2, <2>1, <2>4 DEF ReduceRead, Steps
  <2>5. CASE Finish(w)
    BY <1>2, <2>5
  <2> QED
    BY <1>4, <2>2, <2>3, <2>4, <2>5 DEF Proceed, ConfirmLate, ConfirmLink, ConfirmRevert, Approve,
       LoadTruck, LoadRefused, SetTruck, CompleteOrder, CloseShort, CloseLate, Settle, Throw, Crash
<1> QED
  BY <1>1, <1>3, <1>4 DEF Next, vars, Reserve, Cancel, ExpireStale, ReleaseReservation,
     OpsStep, OpsAllocate, OpsPrepare, OpsDispatch, OpsCancelLoad, OpsRelease

\* Every step keeps the types, the stock and the allocations covered.
LEMMA StockStep == StockInvariant /\ [Next]_vars => StockInvariant'
<1> SUFFICES ASSUME StockInvariant, [Next]_vars PROVE StockInvariant'
  OBVIOUS
<1>0. /\ TypeOK /\ NeverClosesUpwards /\ AllocationsStayCovered /\ NeverOversoldBySaleOrders
      /\ TypeOK' /\ NeverClosesUpwards'
  BY TypeStep, SnapshotStep DEF StockInvariant
<1>1. reservedKg \in Int /\ onHandKg \in Nat /\ allocatedKg \in Nat /\ opsKg \in Nat /\ strayKg \in Nat
  BY <1>0 DEF TypeOK
<1> DEFINE Stock == AllocationsStayCovered /\ NeverOversoldBySaleOrders
<1> USE DEF orderVars, stockVars, opsVars, AllocationsStayCovered, NeverOversoldBySaleOrders, availableKg
<1>2. ASSUME UNCHANGED stockVars PROVE Stock'
  BY <1>0, <1>2
<1>3. CASE UNCHANGED vars
  BY <1>0, <1>2, <1>3 DEF vars, StockInvariant
<1>4. ASSUME NEW o \in Orders, NEW kg \in OrderKgs, NEW t \in Carriage, Reserve(o, kg, t)
      PROVE  Stock'
  <2>1. kg \in Nat
    BY KgAssumption
  <2> QED BY <1>0, <1>1, <1>4, <2>1 DEF Reserve, Move
<1>5. ASSUME NEW o \in Orders, Cancel(o) \/ ExpireStale(o) PROVE Stock'
  <2>1. ReleaseReservation(o)
    BY <1>5 DEF Cancel, ExpireStale
  <2>2. order[o].quantityKg \in Nat
    BY <1>0 DEF TypeOK, OrderRow
  <2>3. reservedKg' = reservedKg - order[o].quantityKg
    BY <1>1, <2>1, <2>2 DEF ReleaseReservation, Move
  <2> QED BY <1>0, <1>1, <2>1, <2>2, <2>3 DEF ReleaseReservation
<1>6. ASSUME NEW w \in Workers, NEW o \in Orders, Arrive(w, o) PROVE Stock'
  BY <1>2, <1>6 DEF Arrive, ConfirmRead, ApproveRead, LoadRead, TruckRead, CompleteRead, CloseRead, SettleRead
<1>7. ASSUME NEW w \in Workers, NEW o \in Orders, Proceed(w, o) PROVE Stock'
  <2>1. ASSUME NEW kg \in WeighedKg(w, o), LoadTruck(w, o, kg) PROVE Stock'
    <3>1. /\ kg \in Nat /\ kg <= onHandKg - allocatedKg /\ CanLoad(w, o, kg)
          /\ FromReserved(w, o, kg) \in Nat /\ Shortfall(w, o, kg) \in Nat
          /\ FromReserved(w, o, kg) <= kg
      BY <1>0, <2>1, LoadableKg DEF LoadTruck
    <3>2. /\ reservedKg' = reservedKg - FromReserved(w, o, kg) - Shortfall(w, o, kg)
          /\ onHandKg' = onHandKg - kg /\ UNCHANGED <<allocatedKg, opsKg, strayKg>>
      BY <1>1, <2>1, <3>1 DEF LoadTruck, Move
    <3>3. kg - FromReserved(w, o, kg) > 0 => kg - FromReserved(w, o, kg) <= availableKg
      BY <3>1 DEF CanLoad, Extra
    <3> QED BY <1>0, <1>1, <3>1, <3>2, <3>3
  <2>2. CASE CloseShort(w, o)
    <3>1. /\ req[w].quantityKg \in Nat /\ req[w].loadedKg \in Nat
          /\ req[w].loadedKg <= req[w].quantityKg
      BY <1>0, Columns DEF NeverClosesUpwards
    <3>2. /\ reservedKg' = reservedKg - (req[w].quantityKg - req[w].loadedKg)
          /\ UNCHANGED <<onHandKg, allocatedKg, opsKg, strayKg>>
      BY <1>1, <2>2, <3>1 DEF CloseShort, Move
    <3> QED BY <1>0, <1>1, <3>1, <3>2
  <2>3. CASE UNCHANGED stockVars
    BY <1>2, <2>3
  <2> QED
    BY <1>7, <2>1, <2>2, <2>3 DEF Proceed, ConfirmClaim, ConfirmLate, ConfirmCreate, ConfirmLink,
       ConfirmRevert, Approve, LoadRefused, SetTruck, CompleteOrder, ReduceRead, ReduceWrite,
       CloseLate, Settle, Throw
<1>8. ASSUME NEW w \in Workers, NEW o \in Orders, ConfirmError(w, o) \/ Crash(w, o) PROVE Stock'
  BY <1>2, <1>8 DEF ConfirmError, Crash
<1>9. ASSUME NEW kg \in Weights, OpsStep(kg) PROVE Stock'
  <2>1. kg \in Nat
    BY KgAssumption
  <2> QED BY <1>0, <1>1, <1>9, <2>1 DEF OpsStep, OpsAllocate, drawableKg, OpsPrepare, OpsDispatch, OpsCancelLoad, OpsRelease
<1> QED
  BY <1>0, <1>3, <1>4, <1>5, <1>6, <1>7, <1>8, <1>9 DEF Next, StockInvariant

-----------------------------------------------------------------------------
(* The reservations: HoldInvariant, stated for one order at a time. *)
HoldAt(p) ==
  /\ p \notin raced => \A v, w \in Workers: req[v].order = {p} /\ req[w].order = {p} => v = w
  /\ order[p].status = "NONE" =>
       trucks[p] = <<>> /\ (\A s \in Sales: sale[s].order # {p}) /\ (\A w \in Workers: req[w].order # {p})
  /\ order[p].status \in {"NONE", "RESERVED", "CONFIRMED"} => loadedKg[p] = 0
  /\ p \notin raced => (order[p].status \in Open => loadedKg[p] <= order[p].quantityKg)
  /\ p \notin raced => \A w \in Workers: req[w].order = {p} =>
       /\ req[w].step = "load" => req[w].quantityKg = order[p].quantityKg
       /\ req[w].step \in {"reduce", "shrink", "close"} =>
            req[w].quantityKg = order[p].quantityKg /\ req[w].loadedKg = loadedKg[p]
  /\ p \notin raced =>
       held[p] = IF order[p].status \in Open THEN order[p].quantityKg - loadedKg[p] ELSE 0

\* The invariant about holds, order by order.
LEMMA HoldPerOrder == HoldInvariant <=> TypeOK /\ \A p \in Orders: HoldAt(p)
BY DEF HoldInvariant, ServedAlone, NothingBeforeReserved, LoadedAfterConfirmed, SnapshotsHold, HoldMatchesOrder, HoldAt, At

RowsKept(p) == order'[p] = order[p] /\ loadedKg'[p] = loadedKg[p] /\ held'[p] = held[p]
RequestsKept(p) == \A w \in Workers: req'[w].order = {p} => req'[w] = req[w] /\ req[w].order = {p}

\* An order keeps its part of the invariant when its rows stay and its requests at most end.
LEMMA HoldFrame ==
  ASSUME NEW p \in Orders, HoldAt(p), RowsKept(p), RequestsKept(p), raced \subseteq raced',
         order[p].status = "NONE" =>
           trucks'[p] = trucks[p] /\ \A s \in Sales: sale'[s].order = sale[s].order \/ sale'[s].order # {p}
  PROVE  HoldAt(p)'
BY DEF HoldAt, RowsKept, RequestsKept

\* What a step does to the request of another order.
LEMMA GotoOther ==
  ASSUME TypeOK, NEW w \in Workers, NEW o \in Orders, NEW p \in Orders, p # o,
         NEW r, Goto(w, r), r.order = {o} \/ r.order = {}
  PROVE  RequestsKept(p)
BY DEF TypeOK, Goto, RequestsKept

\* Ending a request leaves the requests of other orders as they are.
LEMMA FinishRequests ==
  ASSUME TypeOK, NEW w \in Workers, NEW p \in Orders, Finish(w)
  PROVE  /\ RequestsKept(p)
         /\ req'[w].order = {}
         /\ \A v \in Workers: v # w => req'[v] = req[v]
BY DEF TypeOK, Finish, Goto, NoRequest, RequestsKept

\* A request that has begun on an order not raced for is its only one.
LEMMA Alone ==
  ASSUME NEW o \in Orders, HoldAt(o), o \notin raced, NEW w \in Workers, req[w].order = {o}
  PROVE  \A v \in Workers: v # w => req[v].order # {o}
BY DEF HoldAt

\* Orders other than the one an action is about.
LEMMA HoldOthers ==
  ASSUME TypeOK, NEW o \in Orders, NEW p \in Orders, p # o, HoldAt(p), raced \subseteq raced',
         order' = order \/ (\E row: order' = [order EXCEPT ![o] = row]),
         loadedKg' = loadedKg \/ (\E kg: loadedKg' = [loadedKg EXCEPT ![o] = kg]),
         held' = held \/ (\E kg: held' = [held EXCEPT ![o] = kg]),
         trucks' = trucks \/ (\E ts: trucks' = [trucks EXCEPT ![o] = ts]),
         \A s \in Sales: sale'[s].order \in {sale[s].order, {o}},
         RequestsKept(p)
  PROVE  HoldAt(p)'
<1>1. RowsKept(p) /\ trucks'[p] = trucks[p]
  BY DEF TypeOK, RowsKept
<1> QED
  BY <1>1, HoldFrame

\* A tolerance never makes an order complete later than its full weight would.
LEMMA PartialIsShort ==
  ASSUME NEW q \in Nat, NEW total \in Nat, ~Complete(q, total)
  PROVE  total < q
<1>1. q * (100 - TolPct) <= q * 100
  BY BoundsAssumption, Z3
<1>2. q * (100 - TolPct) \in Int /\ q * 100 \in Int /\ total * 100 \in Int
  BY BoundsAssumption
<1>3. total * 100 < q * (100 - TolPct)
  BY <1>2, BoundsAssumption DEF Complete
<1>4. total * 100 < q * 100
  BY <1>1, <1>2, <1>3
<1> QED
  BY <1>4

\* A request that only reads: the rows stay, and the new request is the only one on its order.
LEMMA HoldArrive ==
  ASSUME TypeOK, NEW o \in Orders, NEW p \in Orders, HoldAt(p), NEW w \in Workers, NEW r \in Request,
         Start(w, o, r), UNCHANGED <<orderVars, stockVars>>, order[o].status # "NONE",
         r.step = "load" => r.quantityKg = order[o].quantityKg,
         r.step \in {"reduce", "shrink", "close"} =>
           r.quantityKg = order[o].quantityKg /\ r.loadedKg = loadedKg[o]
  PROVE  HoldAt(p)'
<1>1. UNCHANGED <<order, loadedKg, held, sale, trucks>> /\ raced \subseteq raced'
  BY DEF orderVars, stockVars, opsVars, Start
<1>2. CASE p # o
  <2>1. [r EXCEPT !.order = {o}].order = {o}
    BY DEF Request
  <2>2. RequestsKept(p)
    BY <1>2, <2>1, GotoOther DEF Start
  <2> QED BY <1>1, <1>2, <2>2, HoldOthers
<1>3. CASE p = o
  <2> DEFINE q == [r EXCEPT !.order = {o}]
  <2>1. q.order = {o} /\ q.step = r.step /\ q.quantityKg = r.quantityKg /\ q.loadedKg = r.loadedKg
    BY DEF Request
  <2>2. req'[w] = q /\ \A v \in Workers: v # w => req'[v] = req[v]
    BY DEF Start, Goto, TypeOK
  <2>3. o \notin raced' => o \notin raced /\ \A v \in Workers: req[v].order # {o}
    BY DEF Start, Busy
  <2> HIDE DEF q
  <2> QED BY <1>1, <1>3, <2>1, <2>2, <2>3 DEF HoldAt
<1> QED
  BY <1>2, <1>3

\* A step of a request that leaves what its order holds and owes: the status may move inside the
\* open ones or inside the closed ones, and the request ends or moves on with its snapshot.
LEMMA HoldQuiet ==
  ASSUME TypeOK, NEW o \in Orders, HoldAt(o), NEW w \in Workers, req[w].order = {o},
         raced' = raced, loadedKg' = loadedKg, held' = held,
         order'[o].quantityKg = order[o].quantityKg,
         order'[o].status # "NONE",
         order'[o].status \in Open <=> order[o].status \in Open,
         order'[o].status \in {"RESERVED", "CONFIRMED"} => order[o].status \in {"RESERVED", "CONFIRMED"},
         \A v \in Workers: v # w => req'[v] = req[v],
         \/ req'[w].order = {}
         \/ /\ req'[w].order = {o} /\ req'[w].step # "load"
            /\ req'[w].quantityKg = req[w].quantityKg /\ req'[w].loadedKg = req[w].loadedKg
            /\ req'[w].step \in {"shrink", "close", "reduce"} => req[w].step \in {"shrink", "close", "reduce"}
  PROVE  HoldAt(o)'
<1>1. \A v \in Workers: req'[v].order = {o} => req[v].order = {o}
  OBVIOUS
<1>2. order[o].status # "NONE"
  BY DEF HoldAt
<1>3. /\ o \notin raced' => \A v, x \in Workers: req'[v].order = {o} /\ req'[x].order = {o} => v = x
      /\ order'[o].status \in {"NONE", "RESERVED", "CONFIRMED"} => loadedKg'[o] = 0
      /\ o \notin raced' => (order'[o].status \in Open => loadedKg'[o] <= order'[o].quantityKg)
      /\ o \notin raced' =>
           held'[o] = IF order'[o].status \in Open THEN order'[o].quantityKg - loadedKg'[o] ELSE 0
  BY <1>1, <1>2 DEF HoldAt
<1>4. o \notin raced' => \A v \in Workers: req'[v].order = {o} =>
        /\ req'[v].step = "load" => req'[v].quantityKg = order'[o].quantityKg
        /\ req'[v].step \in {"reduce", "shrink", "close"} =>
             req'[v].quantityKg = order'[o].quantityKg /\ req'[v].loadedKg = loadedKg'[o]
  BY <1>1, <1>2 DEF HoldAt
<1> QED
  BY <1>2, <1>3, <1>4 DEF HoldAt

\* What Goto and Finish leave of the request table.
LEMMA GotoRequests ==
  ASSUME TypeOK, NEW w \in Workers, NEW r, Goto(w, r)
  PROVE  req'[w] = r /\ \A v \in Workers: v # w => req'[v] = req[v]
BY DEF TypeOK, Goto

\* The same for every order at once, for a request of o that moves on to r.
QuietRequest(w, o, r) ==
  \/ r.order = {}
  \/ /\ r.order = {o} /\ r.step # "load"
     /\ r.quantityKg = req[w].quantityKg /\ r.loadedKg = req[w].loadedKg
     /\ r.step \in {"shrink", "close", "reduce"} => req[w].step \in {"shrink", "close", "reduce"}

QuietRow(o) ==
  /\ order' = order \/ (\E row: order' = [order EXCEPT ![o] = row])
  /\ order'[o].quantityKg = order[o].quantityKg
  /\ order'[o].status # "NONE"
  /\ order'[o].status \in Open <=> order[o].status \in Open
  /\ order'[o].status \in {"RESERVED", "CONFIRMED"} => order[o].status \in {"RESERVED", "CONFIRMED"}

QuietTables(o) ==
  /\ raced' = raced /\ loadedKg' = loadedKg /\ held' = held
  /\ trucks' = trucks \/ (\E ts: trucks' = [trucks EXCEPT ![o] = ts])
  /\ \A s \in Sales: sale'[s].order \in {sale[s].order, {o}}

\* A step that leaves every hold and every load alone keeps each order's part of the invariant.
LEMMA HoldQuietly ==
  ASSUME TypeOK, NEW o \in Orders, NEW p \in Orders, HoldAt(o), HoldAt(p),
         NEW w \in Workers, req[w].order = {o},
         NEW r, Goto(w, r), QuietRequest(w, o, r), QuietRow(o), QuietTables(o)
  PROVE  HoldAt(p)'
<1>1. req'[w] = r /\ \A v \in Workers: v # w => req'[v] = req[v]
  BY GotoRequests
<1>2. CASE p = o
  BY <1>1, <1>2, HoldQuiet DEF QuietRequest, QuietRow, QuietTables
<1>3. CASE p # o
  <2>1. RequestsKept(p)
    BY <1>3, GotoOther DEF QuietRequest
  <2> QED BY <1>3, <2>1, HoldOthers DEF QuietRow, QuietTables
<1> QED
  BY <1>2, <1>3

\* A truck: what leaves the floor leaves the reservation, and a last short load frees the rest.
LEMMA HoldLoadTruck ==
  ASSUME TypeOK, NEW o \in Orders, HoldAt(o), NEW w \in Workers,
         NEW kg \in WeighedKg(w, o), LoadTruck(w, o, kg)
  PROVE  HoldAt(o)'
<1> DEFINE q == order[o].quantityKg
           L == loadedKg[o]
           done == Complete(req[w].quantityKg, loadedKg[o] + kg)
<1>1. /\ req[w].order = {o} /\ req[w].step = "load" /\ order[o].status \in Loadable
      /\ kg \in Nat /\ kg > 0 /\ CanLoad(w, o, kg)
      /\ FromReserved(w, o, kg) \in Nat /\ Shortfall(w, o, kg) \in Nat
  BY LoadableKg DEF LoadTruck, At, CanLoad
<1>2. q \in Nat /\ L \in Nat /\ held[o] \in Int /\ req[w].quantityKg \in Nat
  BY Columns
<1>3. /\ order'[o].status = IF done THEN "RELEASED" ELSE "PARTIALLY_RELEASED"
      /\ order'[o].quantityKg = q /\ loadedKg'[o] = L + kg
      /\ held'[o] = held[o] - (FromReserved(w, o, kg) + Shortfall(w, o, kg))
      /\ UNCHANGED <<raced, sale>>
  <2>1. -(FromReserved(w, o, kg) + Shortfall(w, o, kg)) \in Int
    BY <1>1
  <2>2. held'[o] = held[o] - (FromReserved(w, o, kg) + Shortfall(w, o, kg))
    BY <1>1, <1>2, <2>1 DEF LoadTruck, Move, TypeOK
  <2>3. loadedKg'[o] = L + kg
    BY DEF LoadTruck, TypeOK
  <2>4. order'[o].status = (IF done THEN "RELEASED" ELSE "PARTIALLY_RELEASED") /\ order'[o].quantityKg = q
    BY DEF LoadTruck, TypeOK, OrderRow
  <2> QED BY <2>2, <2>3, <2>4 DEF LoadTruck
<1>4. /\ \A v \in Workers: req'[v].order = {o} => req'[v] = req[v] /\ req[v].order = {o} /\ v # w
  BY FinishRequests DEF LoadTruck, RequestsKept
<1>5. CASE o \in raced
  BY <1>3, <1>4, <1>5 DEF HoldAt, Open
<1>6. CASE o \notin raced
  <2>1. req[w].quantityKg = q /\ held[o] = q - L /\ L <= q
    BY <1>1, <1>6 DEF HoldAt, Open, Loadable
  <2>2. \A v \in Workers: req'[v].order # {o}
    BY <1>1, <1>4, <1>6, Alone
  <2>3. CASE ~done
    <3>1. L + kg < q
      BY <1>1, <1>2, <2>1, <2>3, PartialIsShort
    <3>2. FromReserved(w, o, kg) = kg /\ Shortfall(w, o, kg) = 0
      BY <1>1, <1>2, <2>1, <2>3, <3>1 DEF FromReserved, Shortfall, Min, Positive
    <3> QED BY <1>2, <1>3, <1>1, <2>1, <2>2, <2>3, <3>1, <3>2 DEF HoldAt, Open
  <2>4. CASE done
    <3>1. FromReserved(w, o, kg) + Shortfall(w, o, kg) = q - L
      BY <1>1, <1>2, <2>1, <2>4 DEF FromReserved, Shortfall, Min, Positive
    <3>2. held'[o] = 0 /\ order'[o].status = "RELEASED"
      BY <1>1, <1>2, <1>3, <2>1, <2>4, <3>1
    <3> HIDE DEF done, q, L
    <3> QED BY <2>2, <3>2 DEF HoldAt, Open
  <2> QED BY <2>3, <2>4
<1> QED
  BY <1>5, <1>6

\* The short close: what is not loaded goes back, and the order is worth what was.
LEMMA HoldCloseShort ==
  ASSUME TypeOK, NEW o \in Orders, HoldAt(o), NEW w \in Workers, CloseShort(w, o)
  PROVE  HoldAt(o)'
<1>1. /\ req[w].order = {o} /\ req[w].step = "close" /\ order[o].status = "PARTIALLY_RELEASED"
      /\ order'[o].status = "RELEASED" /\ UNCHANGED <<loadedKg, raced>>
  BY DEF CloseShort, At, TypeOK, OrderRow
<1>2. /\ order[o].quantityKg \in Nat /\ loadedKg[o] \in Nat /\ held[o] \in Int
      /\ req[w].quantityKg \in Nat /\ req[w].loadedKg \in Nat
  BY Columns
<1>3. held'[o] = held[o] - (req[w].quantityKg - req[w].loadedKg)
  <2>1. -(req[w].quantityKg - req[w].loadedKg) \in Int
    BY <1>2
  <2> QED BY <1>2, <2>1 DEF CloseShort, Move, TypeOK
<1>4. \A v \in Workers: req'[v].order = {o} => req'[v] = req[v] /\ req[v].order = {o} /\ v # w
  BY FinishRequests DEF CloseShort, RequestsKept
<1>5. CASE o \in raced
  BY <1>1, <1>4, <1>5 DEF HoldAt, Open
<1>6. CASE o \notin raced
  <2>1. /\ req[w].quantityKg = order[o].quantityKg /\ req[w].loadedKg = loadedKg[o]
        /\ held[o] = order[o].quantityKg - loadedKg[o]
    BY <1>1, <1>6 DEF HoldAt, Open
  <2>2. \A v \in Workers: req'[v].order # {o}
    BY <1>1, <1>4, <1>6, Alone
  <2>3. held'[o] = 0
    BY <1>2, <1>3, <2>1
  <2> QED BY <1>1, <2>2, <2>3 DEF HoldAt, Open
<1> QED
  BY <1>5, <1>6

\* Every step keeps every order's part of the invariant.
LEMMA HoldStep ==
  ASSUME TypeOK, TypeOK', \A o \in Orders: HoldAt(o), [Next]_vars, NEW p \in Orders
  PROVE  HoldAt(p)'
<1> USE DEF orderVars, stockVars, opsVars
<1>0. HoldAt(p)
  OBVIOUS
<1>1. CASE UNCHANGED vars
  BY <1>0, <1>1, HoldFrame DEF vars, RowsKept, RequestsKept
<1>2. ASSUME NEW o \in Orders, NEW kg \in OrderKgs, NEW t \in Carriage, Reserve(o, kg, t)
      PROVE  HoldAt(p)'
  <2>1. CASE p # o
    BY <1>0, <1>2, <2>1, HoldOthers DEF Reserve, Move, RequestsKept
  <2>2. CASE p = o
    <3>1. /\ order'[o].status = "RESERVED" /\ order'[o].quantityKg = kg
          /\ held'[o] = held[o] + kg /\ UNCHANGED <<loadedKg, req, raced>>
      BY <1>2 DEF Reserve, Move, TypeOK, OrderRow
    <3>2. kg \in Nat /\ held[o] \in Int
      BY KgAssumption DEF TypeOK
    <3>3. order[o].status = "NONE"
      BY <1>2 DEF Reserve
    <3>4. loadedKg[o] = 0 /\ (o \notin raced => held[o] = 0)
      BY <1>0, <2>2, <3>3 DEF HoldAt, Open
    <3>5. \A w \in Workers: req[w].order # {o}
      BY <1>0, <2>2, <3>3 DEF HoldAt
    <3> QED BY <2>2, <3>1, <3>2, <3>4, <3>5 DEF HoldAt, Open
  <2> QED BY <2>1, <2>2
<1>3. ASSUME NEW o \in Orders, Cancel(o) \/ ExpireStale(o) PROVE HoldAt(p)'
  <2>0. ReleaseReservation(o)
    BY <1>3 DEF Cancel, ExpireStale
  <2>1. CASE p # o
    BY <1>0, <2>0, <2>1, HoldOthers DEF ReleaseReservation, Move, RequestsKept
  <2>2. CASE p = o
    <3>1. /\ order'[o].status = "CANCELLED" /\ order'[o].quantityKg = order[o].quantityKg
          /\ held'[o] = held[o] - order[o].quantityKg /\ UNCHANGED <<loadedKg, req, raced>>
      <4>1. order[o].quantityKg \in Nat /\ held[o] \in Int
        BY DEF TypeOK, OrderRow
      <4> QED BY SMTT(40), <2>0, <4>1 DEF ReleaseReservation, Move, TypeOK, OrderRow
    <3>2. order[o].quantityKg \in Nat /\ held[o] \in Int
      BY DEF TypeOK, OrderRow
    <3>3. loadedKg[o] = 0 /\ (o \notin raced => held[o] = order[o].quantityKg)
      BY <1>0, <2>0, <2>2, <3>2 DEF HoldAt, Open, ReleaseReservation
    <3> QED BY <1>0, <2>2, <3>1, <3>2, <3>3 DEF HoldAt, Open
  <2> QED BY <2>1, <2>2
<1>4. ASSUME NEW w \in Workers, NEW o \in Orders, Arrive(w, o) PROVE HoldAt(p)'
  <2>0. order[o].quantityKg \in Nat /\ loadedKg[o] \in Nat /\ order[o].sale \in Sales \union {NoSale}
    BY Columns
  <2>1. CASE ConfirmRead(w, o)
    <3> DEFINE r == [NoRequest EXCEPT !.step = "claim", !.quantityKg = order[o].quantityKg]
    <3>1. r \in Request /\ r.step = "claim"
      BY <2>0 DEF NoRequest, Request, Steps, TruckStatus
    <3>2. Start(w, o, r) /\ order[o].status # "NONE" /\ UNCHANGED <<orderVars, stockVars>>
      BY <2>1 DEF ConfirmRead
    <3> HIDE DEF r
    <3> QED BY <1>0, <3>1, <3>2, HoldArrive
  <2>2. CASE ApproveRead(w, o)
    <3> DEFINE r == [NoRequest EXCEPT !.step = "approve"]
    <3>1. r \in Request /\ r.step = "approve"
      BY DEF NoRequest, Request, Steps, TruckStatus
    <3>2. Start(w, o, r) /\ order[o].status # "NONE" /\ UNCHANGED <<orderVars, stockVars>>
      BY <2>2 DEF ApproveRead
    <3> HIDE DEF r
    <3> QED BY <1>0, <3>1, <3>2, HoldArrive
  <2>3. CASE LoadRead(w, o)
    <3> DEFINE r == [NoRequest EXCEPT !.step = "load", !.quantityKg = order[o].quantityKg]
    <3>1. r \in Request /\ r.step = "load" /\ r.quantityKg = order[o].quantityKg
      BY <2>0 DEF NoRequest, Request, Steps, TruckStatus
    <3>2. Start(w, o, r) /\ order[o].status # "NONE" /\ UNCHANGED <<orderVars, stockVars>>
      BY <2>3 DEF LoadRead, Loadable
    <3> HIDE DEF r
    <3> QED BY <1>0, <3>1, <3>2, HoldArrive
  <2>4. ASSUME NEW n \in 1..MaxTrucks, NEW to \in {"IN_TRANSIT", "DELIVERED"}, TruckRead(w, o, n, to)
        PROVE  HoldAt(p)'
    <3> DEFINE r == [NoRequest EXCEPT !.step = "truck", !.truck = n, !.to = to]
    <3>0. n \in Nat
      BY BoundsAssumption
    <3>1. r \in Request /\ r.step = "truck"
      BY <3>0 DEF NoRequest, Request, Steps, TruckStatus
    <3>2. Start(w, o, r) /\ UNCHANGED <<orderVars, stockVars>> /\ n \in DOMAIN trucks[o]
      BY <2>4 DEF TruckRead
    <3>3. order[o].status # "NONE"
      BY <3>2 DEF HoldAt
    <3> HIDE DEF r
    <3> QED BY <1>0, <3>1, <3>2, <3>3, HoldArrive
  <2>5. CASE CompleteRead(w, o)
    <3> DEFINE r == [NoRequest EXCEPT !.step = "complete"]
    <3>1. r \in Request /\ r.step = "complete"
      BY DEF NoRequest, Request, Steps, TruckStatus
    <3>2. Start(w, o, r) /\ order[o].status # "NONE" /\ UNCHANGED <<orderVars, stockVars>>
      BY <2>5 DEF CompleteRead
    <3> HIDE DEF r
    <3> QED BY <1>0, <3>1, <3>2, HoldArrive
  <2>6. CASE CloseRead(w, o)
    <3> DEFINE r == [NoRequest EXCEPT !.step = "reduce", !.sale = order[o].sale,
                     !.quantityKg = order[o].quantityKg, !.loadedKg = loadedKg[o]]
    <3>1. /\ r \in Request /\ r.step = "reduce"
          /\ r.quantityKg = order[o].quantityKg /\ r.loadedKg = loadedKg[o]
      BY <2>0 DEF NoRequest, Request, Steps, TruckStatus
    <3>2. Start(w, o, r) /\ order[o].status # "NONE" /\ UNCHANGED <<orderVars, stockVars>>
      BY <2>6 DEF CloseRead
    <3> HIDE DEF r
    <3> QED BY <1>0, <3>1, <3>2, HoldArrive
  <2>7. ASSUME NEW s \in Sales, SettleRead(w, o, s) PROVE HoldAt(p)'
    <3> DEFINE r == [NoRequest EXCEPT !.step = "settle", !.sale = s]
    <3>1. r \in Request /\ r.step = "settle"
      BY DEF NoRequest, Request, Steps, TruckStatus
    <3>2. Start(w, o, r) /\ UNCHANGED <<orderVars, stockVars>> /\ sale[s].order = {o}
      BY <2>7 DEF SettleRead
    <3>3. order[o].status # "NONE"
      BY <3>2 DEF HoldAt
    <3> HIDE DEF r
    <3> QED BY <1>0, <3>1, <3>2, <3>3, HoldArrive
  <2> QED BY <1>4, <2>1, <2>2, <2>3, <2>4, <2>5, <2>6, <2>7 DEF Arrive
<1>5. ASSUME NEW w \in Workers, NEW o \in Orders, Proceed(w, o) \/ ConfirmError(w, o) \/ Crash(w, o)
      PROVE  HoldAt(p)'
  <2>0. HoldAt(o) /\ req[w].order = {o} /\ req[w] \in Request /\ order[o] \in OrderRow
    BY <1>5, Columns DEF Proceed, ConfirmClaim, ConfirmLate, ConfirmCreate, ConfirmLink, ConfirmRevert,
       Approve, LoadTruck, LoadRefused, SetTruck, CompleteOrder, ReduceRead, ReduceWrite, CloseShort,
       CloseLate, Settle, ConfirmError, Crash, At
  <2>1. order[o].status # "NONE"
    BY <2>0 DEF HoldAt
  <2>2. ASSUME Finish(w), QuietRow(o), QuietTables(o) PROVE HoldAt(p)'
    <3>1. QuietRequest(w, o, NoRequest)
      BY DEF QuietRequest, NoRequest
    <3> QED BY <2>0, <2>2, <3>1, HoldQuietly DEF Finish
  <2>3. ASSUME NEW step \in Steps \ {"load"}, Goto(w, [req[w] EXCEPT !.step = step]),
               step \in {"shrink", "close", "reduce"} => req[w].step \in {"shrink", "close", "reduce"},
               QuietRow(o), QuietTables(o)
        PROVE  HoldAt(p)'
    <3>1. QuietRequest(w, o, [req[w] EXCEPT !.step = step])
      BY <2>0, <2>3 DEF QuietRequest, Request
    <3> QED BY <2>0, <2>3, <3>1, HoldQuietly
  <2>4. ASSUME order' = order PROVE QuietRow(o)
    BY <2>1, <2>4 DEF QuietRow
  <2>5. CASE ConfirmClaim(w, o)
    <3>1. QuietRow(o)
      BY <2>0, <2>5 DEF ConfirmClaim, QuietRow, Open, TypeOK, OrderRow
    <3>2. QuietTables(o) /\ Goto(w, [req[w] EXCEPT !.step = "create"])
      BY <2>5 DEF ConfirmClaim, QuietTables
    <3> QED BY <2>3, <3>1, <3>2 DEF Steps
  <2>6. CASE ConfirmLate(w, o) \/ CloseLate(w, o) \/ (\E kg \in WeighedKg(w, o): LoadRefused(w, o, kg))
    BY <2>2, <2>4, <2>6 DEF ConfirmLate, CloseLate, LoadRefused, Throw, QuietTables
  <2>7. ASSUME NEW s \in Sales, ConfirmCreate(w, o, s) PROVE HoldAt(p)'
    <3>1. QuietTables(o) /\ QuietRow(o)
      BY <2>4, <2>7 DEF ConfirmCreate, QuietTables, TypeOK, SaleRow
    <3>2. QuietRequest(w, o, [req[w] EXCEPT !.step = "link", !.sale = s])
      BY <2>0 DEF QuietRequest, Request
    <3> QED BY <2>0, <2>7, <3>1, <3>2, HoldQuietly DEF ConfirmCreate
  <2>8. CASE ConfirmLink(w, o)
    <3>1. QuietRow(o)
      BY <2>0, <2>1, <2>8 DEF ConfirmLink, QuietRow, TypeOK, OrderRow
    <3> QED BY <2>2, <2>8, <3>1 DEF ConfirmLink, QuietTables
  <2>9. CASE ConfirmRevert(w, o)
    <3>1. QuietRow(o)
      BY <2>0, <2>1, <2>9 DEF ConfirmRevert, QuietRow, Open, TypeOK, OrderRow
    <3> QED BY <2>2, <2>9, <3>1 DEF ConfirmRevert, QuietTables
  <2>10. CASE Approve(w, o)
    <3>1. QuietRow(o)
      BY SMTT(40), <2>0, <2>1, <2>10 DEF Approve, QuietRow, TypeOK, OrderRow
    <3> QED BY <2>2, <2>10, <3>1 DEF Approve, QuietTables
  <2>11. CASE SetTruck(w, o)
    BY <2>2, <2>4, <2>11 DEF SetTruck, QuietTables
  <2>12. CASE CompleteOrder(w, o)
    <3>1. QuietRow(o)
      BY <2>0, <2>1, <2>12 DEF CompleteOrder, QuietRow, Open, TypeOK, OrderRow
    <3> QED BY <2>2, <2>12, <3>1 DEF CompleteOrder, QuietTables
  <2>13. CASE ReduceRead(w, o)
    <3>1. QuietRow(o) /\ QuietTables(o) /\ req[w].step = "reduce"
      BY <2>4, <2>13 DEF ReduceRead, At, QuietTables
    <3> QED BY <2>2, <2>3, <2>13, <3>1 DEF ReduceRead, Steps
  <2>14. CASE ReduceWrite(w, o)
    <3>1. /\ QuietRow(o) /\ QuietTables(o) /\ req[w].step = "shrink"
          /\ Goto(w, [req[w] EXCEPT !.step = "close"])
      BY SMTT(40), <2>4, <2>14 DEF ReduceWrite, At, QuietTables, TypeOK, SaleRow
    <3> QED BY <2>3, <3>1 DEF Steps
  <2>15. CASE Settle(w, o)
    <3>1. QuietRow(o) /\ QuietTables(o)
      BY SMTT(40), <2>4, <2>15 DEF Settle, QuietTables, TypeOK, SaleRow
    <3> QED BY <2>2, <2>15, <3>1 DEF Settle
  <2>16. CASE ConfirmError(w, o)
    <3>1. QuietRow(o) /\ QuietTables(o) /\ Goto(w, [req[w] EXCEPT !.step = "revert"])
      BY <2>4, <2>16 DEF ConfirmError, QuietTables
    <3> QED BY <2>3, <3>1 DEF Steps
  <2>17. CASE Crash(w, o)
    BY <2>2, <2>4, <2>17 DEF Crash, QuietTables
  <2>18. ASSUME NEW kg \in WeighedKg(w, o), LoadTruck(w, o, kg) PROVE HoldAt(p)'
    <3>1. CASE p = o
      BY <2>0, <2>18, <3>1, HoldLoadTruck
    <3>2. CASE p # o
      <4>1. RequestsKept(p)
        BY <2>18, FinishRequests DEF LoadTruck
      <4> QED BY <1>0, <2>18, <3>2, <4>1, HoldOthers DEF LoadTruck, Move
    <3> QED BY <3>1, <3>2
  <2>19. CASE CloseShort(w, o)
    <3>1. CASE p = o
      BY <2>0, <2>19, <3>1, HoldCloseShort
    <3>2. CASE p # o
      <4>1. RequestsKept(p)
        BY <2>19, FinishRequests DEF CloseShort
      <4> QED BY <1>0, <2>19, <3>2, <4>1, HoldOthers DEF CloseShort, Move
    <3> QED BY <3>1, <3>2
  <2> QED BY <1>5, <2>5, <2>6, <2>7, <2>8, <2>9, <2>10, <2>11, <2>12, <2>13, <2>14, <2>15, <2>16,
             <2>17, <2>18, <2>19 DEF Proceed
<1>6. ASSUME NEW kg \in Weights, OpsStep(kg) PROVE HoldAt(p)'
  BY <1>0, <1>6, HoldFrame DEF OpsStep, OpsAllocate, OpsPrepare, OpsDispatch, OpsCancelLoad, OpsRelease, RowsKept, RequestsKept
<1> QED
  BY <1>1, <1>2, <1>3, <1>4, <1>5, <1>6 DEF Next

-----------------------------------------------------------------------------
(* The theorems. *)

\* Both invariants hold before the first request.
LEMMA InitHolds == Init => StockInvariant /\ HoldInvariant
<1> SUFFICES ASSUME Init PROVE StockInvariant /\ HoldInvariant
  OBVIOUS
<1>1. TypeOK
  <2>1. /\ order \in [Orders -> OrderRow] /\ sale \in [Sales -> SaleRow]
        /\ loadedKg \in [Orders -> Nat] /\ held \in [Orders -> Int]
        /\ trucks \in [Orders -> Seq(TruckStatus)]
    BY DEF Init, OrderRow, SaleRow, Status
  <2>2. req \in [Workers -> Request]
    BY NoRequestIsRequest DEF Init
  <2>3. /\ reservedKg \in Int /\ onHandKg \in Nat /\ allocatedKg \in Nat /\ opsKg \in Nat /\ errors \in Nat
        /\ prepared \in [Weights -> Nat] /\ strayKg \in Nat
        /\ raced \subseteq Orders /\ died \subseteq Orders
    BY KgAssumption DEF Init
  <2> QED BY <2>1, <2>2, <2>3, Zenon DEF TypeOK
<1>2. NeverClosesUpwards /\ AllocationsStayCovered /\ NeverOversoldBySaleOrders
  BY KgAssumption DEF Init, NeverClosesUpwards, AllocationsStayCovered, NeverOversoldBySaleOrders,
     NoRequest, availableKg
<1>3. \A o \in Orders: HoldAt(o)
  BY DEF Init, HoldAt, NoRequest, Open
<1> QED
  BY <1>1, <1>2, <1>3, HoldPerOrder DEF StockInvariant

(* Every reachable state is well typed, whatever the interleaving, the errors and the deaths. *)
THEOREM TypeCorrect == Spec => []TypeOK
<1>1. StockInvariant /\ [Next]_vars => StockInvariant'
  BY StockStep
<1>2. StockInvariant => TypeOK
  BY DEF StockInvariant
<1> QED
  BY InitHolds, <1>1, <1>2, PTL DEF Spec

(* Sale orders alone never promise rice that is not on the floor (reserve, loadTruck). *)
THEOREM StockNeverOversold == Spec => []NeverOversoldBySaleOrders
<1>1. StockInvariant => NeverOversoldBySaleOrders
  BY DEF StockInvariant
<1> QED
  BY InitHolds, StockStep, <1>1, PTL DEF Spec

(* Trucks of sale orders never take what operations orders set aside (drawFromBatches). *)
THEOREM AllocationsCovered == Spec => []AllocationsStayCovered
<1>1. StockInvariant => AllocationsStayCovered
  BY DEF StockInvariant
<1> QED
  BY InitHolds, StockStep, <1>1, PTL DEF Spec

(* An order not raced for holds exactly what it still has to load, through every lifecycle,
   error and death of a request (reserve, loadTruck, closeShort, cancel, expireStale). *)
THEOREM HoldsMatchOrders == Spec => []HoldMatchesOrder
<1>1. StockInvariant /\ HoldInvariant /\ [Next]_vars => StockInvariant' /\ HoldInvariant'
  <2> SUFFICES ASSUME StockInvariant, HoldInvariant, [Next]_vars PROVE StockInvariant' /\ HoldInvariant'
    OBVIOUS
  <2>1. TypeOK /\ StockInvariant' /\ TypeOK' /\ \A o \in Orders: HoldAt(o)
    BY StockStep, HoldPerOrder DEF StockInvariant
  <2>2. \A p \in Orders: HoldAt(p)'
    BY <2>1, HoldStep
  <2>3. HoldInvariant'
    BY <2>1, <2>2 DEF HoldInvariant, ServedAlone, NothingBeforeReserved, LoadedAfterConfirmed,
       SnapshotsHold, HoldMatchesOrder, HoldAt, At
  <2> QED BY <2>1, <2>3
<1>2. HoldInvariant => HoldMatchesOrder
  BY DEF HoldInvariant
<1> QED
  BY InitHolds, <1>1, <1>2, PTL DEF Spec
=============================================================================
