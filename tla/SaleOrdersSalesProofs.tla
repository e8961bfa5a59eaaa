------------------------ MODULE SaleOrdersSalesProofs ------------------------
(***************************************************************************)
(* Theorems of SaleOrders about sales: which orders have one and how many, *)
(* what it says, when it is completed, cancelled or loaded, and what the   *)
(* lot has promised.                                                       *)
(***************************************************************************)
EXTENDS SaleOrdersProofs, FiniteSums

Confirming(w, o) == req[w].order = {o} /\ req[w].step \in {"create", "link", "revert"}
Closing(w, o) == req[w].order = {o} /\ req[w].step \in {"reduce", "shrink", "close"}

-----------------------------------------------------------------------------
(* Why a cancelled order is clean and a truck is allowed: an order has a sale or it does not. *)

\* An order without a sale is at the beginning or cancelled, and holds its whole weight or nothing.
Unsold(o) ==
  /\ order[o].status \in {"NONE", "RESERVED", "CONFIRMED", "CANCELLED"}
  /\ trucks[o] = <<>>
  /\ held[o] = IF order[o].status \in {"RESERVED", "CONFIRMED"} THEN order[o].quantityKg ELSE 0

\* An order with one is past its confirmation, and the sale is its own.
Sold(o) ==
  /\ order[o].status \in {"CONFIRMED", "PARTIALLY_RELEASED", "RELEASED", "COMPLETED"}
  /\ sale[order[o].sale].order = {o}

\* What a request still finds when it acts, whatever other requests have done to its order.
Trusted(w, o) ==
  /\ req[w].step = "claim" /\ order[o].status \in {"RESERVED", "CONFIRMED"} =>
       req[w].quantityKg = order[o].quantityKg
  /\ req[w].step \in {"create", "link", "revert"} =>
       /\ order[o].status = "CONFIRMED" /\ order[o].sale = NoSale
       /\ req[w].quantityKg = order[o].quantityKg
  /\ req[w].step \in {"link", "settle"} => req[w].sale \in Sales /\ sale[req[w].sale].order = {o}
  /\ req[w].step = "link" => sale[req[w].sale].quantityKg = order[o].quantityKg
  /\ req[w].step \in {"load", "truck", "complete", "reduce", "shrink", "close"} => order[o].sale # NoSale
  /\ req[w].step = "load" =>
       /\ order[o].status \in Loadable => req[w].quantityKg = order[o].quantityKg
       /\ PaidOrApproved(o)
  /\ req[w].step \in {"reduce", "shrink", "close"} =>
       /\ req[w].sale = order[o].sale
       /\ order[o].status # "CONFIRMED"
       /\ order[o].status = "PARTIALLY_RELEASED" => req[w].quantityKg = order[o].quantityKg

\* One request at a time has claimed an order and not linked its sale yet.
OneClaim(o) == \A v, w \in Workers: Confirming(v, o) /\ Confirming(w, o) => v = w

LinkAt(o) ==
  /\ IF order[o].sale = NoSale THEN Unsold(o) ELSE Sold(o)
  /\ OneClaim(o)
  /\ \A w \in Workers: req[w].order = {o} => Trusted(w, o)

Links == \A o \in Orders: LinkAt(o)

-----------------------------------------------------------------------------
(* What the steps do, column by column. *)

Turn(w, o) == req[w].order = {o} /\ \A v \in Workers: v # w => req'[v] = req[v]
Done(w) == req'[w].order = {} /\ req'[w].step = "idle"
Moved(w, o, step) ==
  /\ req'[w].order = {o} /\ req'[w].step = step
  /\ req'[w].quantityKg = req[w].quantityKg /\ req'[w].loadedKg = req[w].loadedKg

Row(o, st, kg, s) ==
  /\ order'[o].status = st /\ order'[o].quantityKg = kg /\ order'[o].sale = s
  /\ order[o].credit => order'[o].credit
  /\ order[o].override => order'[o].override

SameRow(o) == order'[o] = order[o]

\* Ending a request.
LEMMA Ends ==
  ASSUME TypeOK, NEW w \in Workers, Finish(w)
  PROVE  Done(w) /\ \A v \in Workers: v # w => req'[v] = req[v]
BY DEF Finish, Goto, TypeOK, Done, NoRequest

\* Moving one on.
LEMMA Moves ==
  ASSUME TypeOK, NEW w \in Workers, NEW o \in Orders, req[w].order = {o}, NEW step,
         Goto(w, [req[w] EXCEPT !.step = step])
  PROVE  /\ Turn(w, o) /\ Moved(w, o, step) /\ req'[w].sale = req[w].sale
BY DEF Goto, TypeOK, Turn, Moved, Request

LEMMA ClaimDoes ==
  ASSUME TypeOK, NEW w \in Workers, NEW o \in Orders, ConfirmClaim(w, o)
  PROVE  /\ Turn(w, o) /\ Moved(w, o, "create")
         /\ req[w].step = "claim" /\ order[o].status = "RESERVED"
         /\ Row(o, "CONFIRMED", order[o].quantityKg, order[o].sale)
         /\ UNCHANGED <<sale, loadedKg, trucks, held, errors, raced, died>>
<1>1. Row(o, "CONFIRMED", order[o].quantityKg, order[o].sale)
  BY DEF ConfirmClaim, TypeOK, OrderRow, Row
<1> QED BY <1>1, Moves DEF ConfirmClaim, At, stockVars, opsVars

\* A request that gives up, or whose process dies, changes no table.
Quits(w, o) ==
  /\ Turn(w, o) /\ Done(w)
  /\ UNCHANGED <<order, sale, loadedKg, trucks, held, errors, raced>>
  /\ died \subseteq died'

LEMMA QuitDoes ==
  ASSUME TypeOK, NEW w \in Workers, NEW o \in Orders,
         \/ ConfirmLate(w, o) \/ CloseLate(w, o) \/ Crash(w, o)
         \/ \E kg \in WeighedKg(w, o): LoadRefused(w, o, kg)
  PROVE  Quits(w, o)
BY Ends DEF ConfirmLate, CloseLate, LoadRefused, Crash, Throw, At, Quits, Turn, orderVars, stockVars, opsVars

LEMMA CreateDoes ==
  ASSUME TypeOK, NEW w \in Workers, NEW o \in Orders, NEW s \in Sales, ConfirmCreate(w, o, s)
  PROVE  /\ Turn(w, o) /\ Moved(w, o, "link") /\ req'[w].sale = s
         /\ req[w].step = "create" /\ sale[s].order = {}
         /\ sale'[s].order = {o} /\ sale'[s].quantityKg = req[w].quantityKg
         /\ \A x \in Sales: x # s => sale'[x] = sale[x]
         /\ UNCHANGED <<order, loadedKg, trucks, held, errors, raced, died>>
<1>1. /\ sale'[s].order = {o} /\ sale'[s].quantityKg = req[w].quantityKg
      /\ \A x \in Sales: x # s => sale'[x] = sale[x]
  BY DEF ConfirmCreate, TypeOK, SaleRow
<1>2. Turn(w, o) /\ Moved(w, o, "link") /\ req'[w].sale = s
  BY DEF ConfirmCreate, At, Goto, TypeOK, Request, Turn, Moved
<1> QED BY <1>1, <1>2 DEF ConfirmCreate, At, stockVars, opsVars

LEMMA LinkDoes ==
  ASSUME TypeOK, NEW w \in Workers, NEW o \in Orders, ConfirmLink(w, o)
  PROVE  /\ Turn(w, o) /\ Done(w) /\ req[w].step = "link"
         /\ Row(o, order[o].status, order[o].quantityKg, req[w].sale)
         /\ UNCHANGED <<sale, loadedKg, trucks, held, errors, raced, died>>
<1>1. Row(o, order[o].status, order[o].quantityKg, req[w].sale)
  BY DEF ConfirmLink, TypeOK, OrderRow, Row
<1> QED BY <1>1, Ends DEF ConfirmLink, At, Turn, stockVars, opsVars

LEMMA ErrorDoes ==
  ASSUME TypeOK, NEW w \in Workers, NEW o \in Orders, ConfirmError(w, o)
  PROVE  /\ Turn(w, o) /\ Moved(w, o, "revert") /\ req[w].step \in {"create", "link"}
         /\ errors' = errors + 1
         /\ UNCHANGED <<order, sale, loadedKg, trucks, held, raced, died>>
BY Moves DEF ConfirmError, At, orderVars, stockVars, opsVars

LEMMA RevertDoes ==
  ASSUME TypeOK, NEW w \in Workers, NEW o \in Orders, ConfirmRevert(w, o)
  PROVE  /\ Turn(w, o) /\ Done(w) /\ req[w].step = "revert"
         /\ Row(o, IF order[o].status = "CONFIRMED" /\ order[o].sale = NoSale
                   THEN "RESERVED" ELSE order[o].status, order[o].quantityKg, order[o].sale)
         /\ UNCHANGED <<sale, loadedKg, trucks, held, errors, raced, died>>
<1>1. Row(o, IF order[o].status = "CONFIRMED" /\ order[o].sale = NoSale
             THEN "RESERVED" ELSE order[o].status, order[o].quantityKg, order[o].sale)
  BY DEF ConfirmRevert, TypeOK, OrderRow, Row
<1> QED BY <1>1, Ends DEF ConfirmRevert, At, Turn, stockVars, opsVars

LEMMA ApproveDoes ==
  ASSUME TypeOK, NEW w \in Workers, NEW o \in Orders, Approve(w, o)
  PROVE  /\ Turn(w, o) /\ Done(w)
         /\ Row(o, order[o].status, order[o].quantityKg, order[o].sale)
         /\ UNCHANGED <<sale, loadedKg, trucks, held, errors, raced, died>>
<1>1. Row(o, order[o].status, order[o].quantityKg, order[o].sale)
  <2>1. /\ order'[o].status = order[o].status /\ order'[o].quantityKg = order[o].quantityKg
        /\ order'[o].sale = order[o].sale
        /\ order'[o].credit = order[o].credit \/ order'[o].credit = TRUE
        /\ order'[o].override = order[o].override \/ order'[o].override = TRUE
    BY DEF Approve, TypeOK, OrderRow
  <2> QED BY <2>1, Zenon DEF Row
<1> QED BY <1>1, Ends DEF Approve, At, Turn, stockVars, opsVars

LEMMA LoadDoes ==
  ASSUME TypeOK, NEW w \in Workers, NEW o \in Orders, NEW kg \in WeighedKg(w, o), LoadTruck(w, o, kg)
  PROVE  /\ Turn(w, o) /\ Done(w) /\ req[w].step = "load"
         /\ order[o].status \in Loadable
         /\ WithinCeiling(req[w].quantityKg, loadedKg[o] + kg)
         /\ loadedKg'[o] = loadedKg[o] + kg
         /\ \E st \in {"RELEASED", "PARTIALLY_RELEASED"}: Row(o, st, order[o].quantityKg, order[o].sale)
         /\ UNCHANGED <<sale, errors, raced, died>>
<1>1. \E st \in {"RELEASED", "PARTIALLY_RELEASED"}: Row(o, st, order[o].quantityKg, order[o].sale)
  BY DEF LoadTruck, TypeOK, OrderRow, Row
<1>2. loadedKg'[o] = loadedKg[o] + kg
  BY DEF LoadTruck, TypeOK
<1> QED BY <1>1, <1>2, Ends DEF LoadTruck, CanLoad, At, Turn

LEMMA TruckDoes ==
  ASSUME TypeOK, NEW w \in Workers, NEW o \in Orders, SetTruck(w, o)
  PROVE  /\ Turn(w, o) /\ Done(w) /\ req[w].step = "truck"
         /\ trucks'[o] = [trucks[o] EXCEPT ![req[w].truck] = req[w].to]
         /\ UNCHANGED <<order, sale, loadedKg, held, errors, raced, died>>
BY Ends DEF SetTruck, At, Turn, stockVars, opsVars, TypeOK

LEMMA CompleteDoes ==
  ASSUME TypeOK, NEW w \in Workers, NEW o \in Orders, CompleteOrder(w, o)
  PROVE  /\ Turn(w, o) /\ Done(w) /\ req[w].step = "complete"
         /\ Row(o, IF order[o].status = "RELEASED" THEN "COMPLETED" ELSE order[o].status,
                order[o].quantityKg, order[o].sale)
         /\ UNCHANGED <<sale, loadedKg, trucks, held, errors, raced, died>>
<1>1. Row(o, IF order[o].status = "RELEASED" THEN "COMPLETED" ELSE order[o].status,
          order[o].quantityKg, order[o].sale)
  BY DEF CompleteOrder, TypeOK, OrderRow, Row
<1> QED BY <1>1, Ends DEF CompleteOrder, At, Turn, stockVars, opsVars

\* The read of reduceQuantity ends the request, or sends it to shrink the sale or to close.
LEMMA ReduceReadDoes ==
  ASSUME TypeOK, NEW w \in Workers, NEW o \in Orders, ReduceRead(w, o)
  PROVE  \/ Quits(w, o)
         \/ /\ Turn(w, o) /\ req[w].step = "reduce" /\ req'[w].sale = req[w].sale
            /\ UNCHANGED <<order, sale, loadedKg, trucks, held, errors, raced, died>>
            /\ \/ Moved(w, o, "close") /\ req[w].loadedKg >= sale[req[w].sale].quantityKg
               \/ Moved(w, o, "shrink") /\ ~sale[req[w].sale].paid
BY Ends, Moves DEF ReduceRead, At, Quits, Turn, orderVars, stockVars, opsVars

LEMMA ReduceWriteDoes ==
  ASSUME TypeOK, NEW w \in Workers, NEW o \in Orders, ReduceWrite(w, o)
  PROVE  /\ Turn(w, o) /\ Moved(w, o, "close") /\ req[w].step = "shrink" /\ req'[w].sale = req[w].sale
         /\ req[w].sale \in Sales =>
              /\ sale'[req[w].sale].order = sale[req[w].sale].order
              /\ sale'[req[w].sale].paid = sale[req[w].sale].paid
              /\ sale'[req[w].sale].quantityKg = req[w].loadedKg
         /\ \A x \in Sales: x # req[w].sale => sale'[x] = sale[x]
         /\ UNCHANGED <<order, loadedKg, trucks, held, errors, raced, died>>
<1>1. /\ req[w].sale \in Sales =>
           /\ sale'[req[w].sale].order = sale[req[w].sale].order
           /\ sale'[req[w].sale].paid = sale[req[w].sale].paid
           /\ sale'[req[w].sale].quantityKg = req[w].loadedKg
      /\ \A x \in Sales: x # req[w].sale => sale'[x] = sale[x]
  BY DEF ReduceWrite, TypeOK, SaleRow
<1> QED BY <1>1, Moves DEF ReduceWrite, At, stockVars, opsVars

LEMMA CloseDoes ==
  ASSUME TypeOK, NEW w \in Workers, NEW o \in Orders, CloseShort(w, o)
  PROVE  /\ Turn(w, o) /\ Done(w) /\ req[w].step = "close"
         /\ order[o].status = "PARTIALLY_RELEASED"
         /\ Row(o, "RELEASED", req[w].loadedKg, order[o].sale)
         /\ UNCHANGED <<sale, loadedKg, trucks, errors, raced, died>>
<1>1. Row(o, "RELEASED", req[w].loadedKg, order[o].sale)
  BY DEF CloseShort, TypeOK, OrderRow, Row
<1> QED BY <1>1, Ends DEF CloseShort, At, Turn

LEMMA SettleDoes ==
  ASSUME TypeOK, NEW w \in Workers, NEW o \in Orders, Settle(w, o)
  PROVE  /\ Turn(w, o) /\ Done(w) /\ req[w].step = "settle"
         /\ req[w].sale \in Sales =>
              /\ sale'[req[w].sale].order = sale[req[w].sale].order
              /\ sale'[req[w].sale].quantityKg = sale[req[w].sale].quantityKg
              /\ sale'[req[w].sale].paid
         /\ \A x \in Sales: x # req[w].sale => sale'[x] = sale[x]
         /\ UNCHANGED <<order, loadedKg, trucks, held, errors, raced, died>>
<1>1. /\ req[w].sale \in Sales =>
           /\ sale'[req[w].sale].order = sale[req[w].sale].order
           /\ sale'[req[w].sale].quantityKg = sale[req[w].sale].quantityKg
           /\ sale'[req[w].sale].paid
      /\ \A x \in Sales: x # req[w].sale => sale'[x] = sale[x]
  BY DEF Settle, TypeOK, SaleRow
<1> QED BY <1>1, Ends DEF Settle, At, Turn, stockVars, opsVars


\* Beginning a request: nothing changes, and what it has read is so.
Found(w, o, r) ==
  /\ r.step \in {"claim", "approve", "load", "truck", "complete", "reduce", "settle"}
  /\ r.step = "claim" => order[o].status = "RESERVED" /\ r.quantityKg = order[o].quantityKg
  /\ r.step = "load" =>
       /\ order[o].status \in Loadable /\ order[o].sale # NoSale /\ PaidOrApproved(o)
       /\ r.quantityKg = order[o].quantityKg
  /\ r.step = "truck" =>
       r.truck \in DOMAIN trucks[o] /\ trucks[o][r.truck] # "DELIVERED"
  /\ r.step = "complete" =>
       /\ order[o].status = "RELEASED" /\ sale[order[o].sale].paid
       /\ \A n \in DOMAIN trucks[o]: trucks[o][n] = "DELIVERED"
  /\ r.step = "reduce" =>
       /\ order[o].status = "PARTIALLY_RELEASED" /\ loadedKg[o] < order[o].quantityKg
       /\ r.quantityKg = order[o].quantityKg /\ r.loadedKg = loadedKg[o] /\ r.sale = order[o].sale
  /\ r.step = "settle" => r.sale \in Sales /\ sale[r.sale].order = {o} /\ ~sale[r.sale].paid

LEMMA StartDoes ==
  ASSUME TypeOK, NEW w \in Workers, NEW o \in Orders, NEW r \in Request, Start(w, o, r), Found(w, o, r)
  PROVE  /\ req[w].order = {} /\ req'[w].order = {o} /\ Found(w, o, req'[w])
         /\ \A v \in Workers: v # w => req'[v] = req[v]
         /\ raced' = IF Busy(o) THEN raced \union {o} ELSE raced
<1> DEFINE q == [r EXCEPT !.order = {o}]
<1>1. /\ q.order = {o} /\ q.step = r.step /\ q.quantityKg = r.quantityKg /\ q.loadedKg = r.loadedKg
      /\ q.sale = r.sale /\ q.truck = r.truck
  BY DEF Request
<1>2. req'[w] = q /\ \A v \in Workers: v # w => req'[v] = req[v]
  BY DEF Start, Goto, TypeOK
<1>3. req[w].order = {} /\ raced' = IF Busy(o) THEN raced \union {o} ELSE raced
  BY DEF Start, NoRequest
<1>4. Found(w, o, q)
  <2> HIDE DEF q
  <2> QED BY <1>1 DEF Found
<1> QED BY <1>1, <1>2, <1>3, <1>4

LEMMA ArriveDoes ==
  ASSUME TypeOK, NEW w \in Workers, NEW o \in Orders, Arrive(w, o)
  PROVE  /\ req[w].order = {} /\ req'[w].order = {o} /\ Found(w, o, req'[w])
         /\ \A v \in Workers: v # w => req'[v] = req[v]
         /\ raced' = IF Busy(o) THEN raced \union {o} ELSE raced
         /\ UNCHANGED <<order, sale, loadedKg, trucks, held, errors, died>>
<1>0. order[o].quantityKg \in Nat /\ loadedKg[o] \in Nat /\ order[o].sale \in Sales \union {NoSale}
  BY Columns
<1> DEFINE Begins == /\ \E r \in Request: Start(w, o, r) /\ Found(w, o, r)
                     /\ UNCHANGED <<orderVars, stockVars, errors, died>>
<1>1. ASSUME Begins
      PROVE  /\ req[w].order = {} /\ req'[w].order = {o} /\ Found(w, o, req'[w])
             /\ \A v \in Workers: v # w => req'[v] = req[v]
             /\ raced' = IF Busy(o) THEN raced \union {o} ELSE raced
             /\ UNCHANGED <<order, sale, loadedKg, trucks, held, errors, died>>
  BY <1>1, StartDoes DEF orderVars, stockVars, opsVars
<1>2. CASE ConfirmRead(w, o)
  <2> DEFINE r == [NoRequest EXCEPT !.step = "claim", !.quantityKg = order[o].quantityKg]
  <2>1. r \in Request /\ r.step = "claim" /\ r.quantityKg = order[o].quantityKg
    BY <1>0 DEF NoRequest, Request, Steps, TruckStatus
  <2>2. Start(w, o, r) /\ order[o].status = "RESERVED" /\ UNCHANGED <<orderVars, stockVars, errors, died>>
    BY <1>2 DEF ConfirmRead
  <2> HIDE DEF r
  <2>3. Found(w, o, r)
    BY <2>1, <2>2 DEF Found
  <2> QED BY <1>1, <2>1, <2>2, <2>3
<1>3. CASE ApproveRead(w, o)
  <2> DEFINE r == [NoRequest EXCEPT !.step = "approve"]
  <2>1. r \in Request /\ r.step = "approve"
    BY DEF NoRequest, Request, Steps, TruckStatus
  <2>2. Start(w, o, r) /\ UNCHANGED <<orderVars, stockVars, errors, died>>
    BY <1>3 DEF ApproveRead
  <2> HIDE DEF r
  <2>3. Found(w, o, r)
    BY <2>1 DEF Found
  <2> QED BY <1>1, <2>1, <2>2, <2>3
<1>4. CASE LoadRead(w, o)
  <2> DEFINE r == [NoRequest EXCEPT !.step = "load", !.quantityKg = order[o].quantityKg]
  <2>1. r \in Request /\ r.step = "load" /\ r.quantityKg = order[o].quantityKg
    BY <1>0 DEF NoRequest, Request, Steps, TruckStatus
  <2>2. /\ Start(w, o, r) /\ order[o].status \in Loadable /\ order[o].sale # NoSale /\ PaidOrApproved(o)
        /\ UNCHANGED <<orderVars, stockVars, errors, died>>
    BY <1>4 DEF LoadRead
  <2> HIDE DEF r
  <2>3. Found(w, o, r)
    BY <2>1, <2>2 DEF Found
  <2> QED BY <1>1, <2>1, <2>2, <2>3
<1>5. ASSUME NEW n \in 1..MaxTrucks, NEW to \in {"IN_TRANSIT", "DELIVERED"}, TruckRead(w, o, n, to)
      PROVE  Begins
  <2> DEFINE r == [NoRequest EXCEPT !.step = "truck", !.truck = n, !.to = to]
  <2>0. n \in Nat
    BY BoundsAssumption
  <2>1. r \in Request /\ r.step = "truck" /\ r.truck = n
    BY <2>0 DEF NoRequest, Request, Steps, TruckStatus
  <2>2. /\ Start(w, o, r) /\ n \in DOMAIN trucks[o] /\ trucks[o][n] # "DELIVERED"
        /\ UNCHANGED <<orderVars, stockVars, errors, died>>
    BY <1>5 DEF TruckRead
  <2> HIDE DEF r
  <2>3. Found(w, o, r)
    BY <2>1, <2>2 DEF Found
  <2> QED BY <2>1, <2>2, <2>3
<1>6. CASE CompleteRead(w, o)
  <2> DEFINE r == [NoRequest EXCEPT !.step = "complete"]
  <2>1. r \in Request /\ r.step = "complete"
    BY DEF NoRequest, Request, Steps, TruckStatus
  <2>2. /\ Start(w, o, r) /\ order[o].status = "RELEASED" /\ sale[order[o].sale].paid
        /\ \A n \in DOMAIN trucks[o]: trucks[o][n] = "DELIVERED"
        /\ UNCHANGED <<orderVars, stockVars, errors, died>>
    BY <1>6 DEF CompleteRead
  <2> HIDE DEF r
  <2>3. Found(w, o, r)
    BY <2>1, <2>2 DEF Found
  <2> QED BY <1>1, <2>1, <2>2, <2>3
<1>7. CASE CloseRead(w, o)
  <2> DEFINE r == [NoRequest EXCEPT !.step = "reduce", !.sale = order[o].sale,
                   !.quantityKg = order[o].quantityKg, !.loadedKg = loadedKg[o]]
  <2>1. /\ r \in Request /\ r.step = "reduce" /\ r.sale = order[o].sale
        /\ r.quantityKg = order[o].quantityKg /\ r.loadedKg = loadedKg[o]
    BY <1>0 DEF NoRequest, Request, Steps, TruckStatus
  <2>2. /\ Start(w, o, r) /\ order[o].status = "PARTIALLY_RELEASED" /\ loadedKg[o] < order[o].quantityKg
        /\ UNCHANGED <<orderVars, stockVars, errors, died>>
    BY <1>0, <1>7 DEF CloseRead
  <2> HIDE DEF r
  <2>3. Found(w, o, r)
    BY <2>1, <2>2 DEF Found
  <2> QED BY <1>1, <2>1, <2>2, <2>3
<1>8. ASSUME NEW s \in Sales, SettleRead(w, o, s) PROVE Begins
  <2> DEFINE r == [NoRequest EXCEPT !.step = "settle", !.sale = s]
  <2>1. r \in Request /\ r.step = "settle" /\ r.sale = s
    BY DEF NoRequest, Request, Steps, TruckStatus
  <2>2. /\ Start(w, o, r) /\ sale[s].order = {o} /\ ~sale[s].paid
        /\ UNCHANGED <<orderVars, stockVars, errors, died>>
    BY <1>8 DEF SettleRead
  <2> HIDE DEF r
  <2>3. Found(w, o, r)
    BY <2>1, <2>2 DEF Found
  <2> QED BY <2>1, <2>2, <2>3
<1> HIDE DEF Begins
<1> QED BY <1>1, <1>2, <1>3, <1>4, <1>5, <1>6, <1>7, <1>8 DEF Arrive

-----------------------------------------------------------------------------
(* Steps that act on another order. *)
Apart(o) ==
  /\ order'[o] = order[o] /\ trucks'[o] = trucks[o] /\ held'[o] = held[o] /\ loadedKg'[o] = loadedKg[o]
  /\ \A s \in Sales: sale[s].order = {o} \/ sale'[s].order = {o} => sale'[s] = sale[s]
  /\ \A w \in Workers: req[w].order = {o} \/ req'[w].order = {o} => req'[w] = req[w]
  /\ raced \subseteq raced' /\ died \subseteq died' /\ (errors' = errors \/ errors' = errors + 1)

\* What a worker does about an order.
Acts(w, o) == Arrive(w, o) \/ Proceed(w, o) \/ ConfirmError(w, o) \/ Crash(w, o)

\* The tables at other orders.
Elsewhere(o) ==
  \A p \in Orders: p # o =>
    order'[p] = order[p] /\ trucks'[p] = trucks[p] /\ held'[p] = held[p] /\ loadedKg'[p] = loadedKg[p]

LEMMA ActsElsewhere ==
  ASSUME TypeOK, NEW w \in Workers, NEW o \in Orders, Acts(w, o)
  PROVE  Elsewhere(o) /\ raced \subseteq raced' /\ died \subseteq died'
         /\ (errors' = errors \/ errors' = errors + 1)
<1>1. CASE UNCHANGED <<orderVars, stockVars>> /\ raced \subseteq raced' /\ died \subseteq died'
           /\ (errors' = errors \/ errors' = errors + 1)
  BY <1>1 DEF Elsewhere, orderVars, stockVars, opsVars
<1>2. CASE Arrive(w, o)
  BY <1>2, ArriveDoes DEF Elsewhere
<1>3. CASE ConfirmError(w, o) \/ Crash(w, o) \/ ConfirmLate(w, o) \/ CloseLate(w, o) \/ ReduceRead(w, o)
           \/ \E kg \in WeighedKg(w, o): LoadRefused(w, o, kg)
  BY <1>1, <1>3 DEF ConfirmError, Crash, ConfirmLate, CloseLate, LoadRefused, Throw, ReduceRead
<1>4. CASE ConfirmClaim(w, o) \/ ConfirmLink(w, o) \/ ConfirmRevert(w, o) \/ Approve(w, o) \/ CompleteOrder(w, o)
  BY <1>4 DEF ConfirmClaim, ConfirmLink, ConfirmRevert, Approve, CompleteOrder, Elsewhere, TypeOK, stockVars, opsVars
<1>5. CASE (\E s \in Sales: ConfirmCreate(w, o, s)) \/ ReduceWrite(w, o) \/ Settle(w, o) \/ SetTruck(w, o)
  BY <1>5 DEF ConfirmCreate, ReduceWrite, Settle, SetTruck, Elsewhere, TypeOK, stockVars, opsVars
<1>6. CASE CloseShort(w, o) \/ \E kg \in WeighedKg(w, o): LoadTruck(w, o, kg)
  BY <1>6 DEF CloseShort, LoadTruck, Move, Elsewhere, TypeOK
<1> QED BY <1>2, <1>3, <1>4, <1>5, <1>6 DEF Acts, Proceed

\* Requests of other workers, and the sales of other orders.
LEMMA ActsWithin ==
  ASSUME TypeOK, Links, NEW w \in Workers, NEW o \in Orders, Acts(w, o)
  PROVE  /\ \A v \in Workers: v # w => req'[v] = req[v]
         /\ req[w].order \in {{}, {o}} /\ req'[w].order \in {{}, {o}}
         /\ \A s \in Sales: \/ sale'[s] = sale[s]
                            \/ sale[s].order \in {{}, {o}} /\ sale'[s].order = {o}
<1>0. req[w].order = {o} => Trusted(w, o)
  BY DEF Links, LinkAt
<1>1. CASE Arrive(w, o)
  BY <1>1, ArriveDoes
<1>2. CASE ConfirmError(w, o) \/ ConfirmClaim(w, o) \/ ConfirmLink(w, o) \/ ConfirmRevert(w, o)
  BY <1>2, ErrorDoes, ClaimDoes, LinkDoes, RevertDoes DEF Turn, Done, Moved
<1>3. CASE Approve(w, o) \/ CompleteOrder(w, o) \/ CloseShort(w, o) \/ SetTruck(w, o)
           \/ \E kg \in WeighedKg(w, o): LoadTruck(w, o, kg)
  BY <1>3, ApproveDoes, CompleteDoes, CloseDoes, TruckDoes, LoadDoes DEF Turn, Done
<1>4. CASE ConfirmLate(w, o) \/ CloseLate(w, o) \/ Crash(w, o)
           \/ \E kg \in WeighedKg(w, o): LoadRefused(w, o, kg)
  BY <1>4, QuitDoes DEF Quits, Turn, Done
<1>5. CASE ReduceRead(w, o)
  BY <1>5, ReduceReadDoes DEF Quits, Turn, Done, Moved
<1>6. ASSUME NEW s \in Sales, ConfirmCreate(w, o, s)
      PROVE  /\ \A v \in Workers: v # w => req'[v] = req[v]
             /\ req[w].order \in {{}, {o}} /\ req'[w].order \in {{}, {o}}
             /\ \A x \in Sales: \/ sale'[x] = sale[x]
                                \/ sale[x].order \in {{}, {o}} /\ sale'[x].order = {o}
  BY <1>6, CreateDoes DEF Turn, Moved
<1>7. CASE ReduceWrite(w, o)
  <2>1. /\ Turn(w, o) /\ Moved(w, o, "close") /\ req[w].step = "shrink"
        /\ req[w].sale \in Sales => sale'[req[w].sale].order = sale[req[w].sale].order
        /\ \A x \in Sales: x # req[w].sale => sale'[x] = sale[x]
    BY <1>7, ReduceWriteDoes
  <2>2. req[w].order = {o} /\ req[w].sale = order[o].sale /\ order[o].sale # NoSale
    BY <1>0, <2>1 DEF Trusted, Turn
  <2>3. sale[order[o].sale].order = {o}
    BY <2>2 DEF Links, LinkAt, Sold
  <2> QED BY <2>1, <2>2, <2>3 DEF Turn, Moved
<1>8. CASE Settle(w, o)
  <2>1. /\ Turn(w, o) /\ Done(w) /\ req[w].step = "settle"
        /\ req[w].sale \in Sales => sale'[req[w].sale].order = sale[req[w].sale].order
        /\ \A x \in Sales: x # req[w].sale => sale'[x] = sale[x]
    BY <1>8, SettleDoes
  <2>2. req[w].order = {o} /\ sale[req[w].sale].order = {o}
    BY <1>0, <2>1 DEF Trusted, Turn
  <2> QED BY <2>1, <2>2 DEF Turn, Done
<1> QED BY <1>1, <1>2, <1>3, <1>4, <1>5, <1>6, <1>7, <1>8 DEF Acts, Proceed

LEMMA ActsApart ==
  ASSUME TypeOK, Links, NEW w \in Workers, NEW p \in Orders, Acts(w, p), NEW o \in Orders, o # p
  PROVE  Apart(o)
<1>1. {o} # {p} /\ {o} # {}
  OBVIOUS
<1>2. /\ \A v \in Workers: v # w => req'[v] = req[v]
      /\ req[w].order \in {{}, {p}} /\ req'[w].order \in {{}, {p}}
      /\ \A s \in Sales: \/ sale'[s] = sale[s]
                         \/ sale[s].order \in {{}, {p}} /\ sale'[s].order = {p}
  BY ActsWithin
<1>3. \A v \in Workers: req[v].order = {o} \/ req'[v].order = {o} => req'[v] = req[v]
  BY <1>1, <1>2
<1>4. \A s \in Sales: sale[s].order = {o} \/ sale'[s].order = {o} => sale'[s] = sale[s]
  BY <1>1, <1>2
<1> QED BY <1>3, <1>4, ActsElsewhere DEF Apart, Elsewhere

\* A step is about another order, or it is one of these.
LEMMA StepOn ==
  ASSUME TypeOK, Links, [Next]_vars, NEW o \in Orders
  PROVE  \/ Apart(o)
         \/ \E kg \in OrderKgs, t \in Carriage: Reserve(o, kg, t)
         \/ ReleaseReservation(o)
         \/ \E w \in Workers: Acts(w, o)
<1>1. CASE UNCHANGED vars
  BY <1>1 DEF vars, orderVars, stockVars, opsVars, Apart
<1>2. ASSUME NEW p \in Orders, NEW kg \in OrderKgs, NEW t \in Carriage, Reserve(p, kg, t), p # o
      PROVE  Apart(o)
  BY <1>2 DEF Reserve, Move, Apart, TypeOK
<1>3. ASSUME NEW p \in Orders, ReleaseReservation(p), p # o PROVE Apart(o)
  BY <1>3 DEF ReleaseReservation, Move, Apart, TypeOK
<1>4. ASSUME NEW kg \in Weights, OpsStep(kg) PROVE Apart(o)
  BY <1>4 DEF OpsStep, OpsAllocate, OpsPrepare, OpsDispatch, OpsCancelLoad, OpsRelease, orderVars, Apart
<1>5. ASSUME NEW w \in Workers, NEW p \in Orders, Acts(w, p), p # o PROVE Apart(o)
  BY <1>5, ActsApart
<1> QED BY <1>1, <1>2, <1>3, <1>4, <1>5 DEF Next, Cancel, ExpireStale, Acts


-----------------------------------------------------------------------------
(* Links is kept. *)
LEMMA ApartLinks ==
  ASSUME TypeOK, NEW o \in Orders, LinkAt(o), Apart(o)
  PROVE  LinkAt(o)'
<1>1. order[o].sale \in Sales \union {NoSale}
  BY Columns DEF TypeOK, OrderRow
<1>2. (IF order[o].sale = NoSale THEN Unsold(o) ELSE Sold(o))'
  BY <1>1 DEF LinkAt, Apart, Unsold, Sold
<1>3. OneClaim(o)'
  BY DEF LinkAt, OneClaim, Confirming, Apart
<1>4. ASSUME NEW w \in Workers, req'[w].order = {o} PROVE Trusted(w, o)'
  <2>1. req'[w] = req[w] /\ Trusted(w, o) /\ order'[o] = order[o]
    BY <1>4 DEF LinkAt, Apart
  <2>2. order[o].sale # NoSale => sale'[order[o].sale] = sale[order[o].sale]
    BY <1>1 DEF LinkAt, Sold, Apart
  <2>3. req[w].step \in {"link", "settle"} => sale'[req[w].sale] = sale[req[w].sale]
    BY <2>1 DEF Trusted, Apart
  <2>4. req[w].step = "load" => PaidOrApproved(o)'
    BY <2>1, <2>2, Zenon DEF Trusted, PaidOrApproved
  <2> QED BY <2>1, <2>2, <2>3, <2>4 DEF Trusted
<1> QED BY <1>2, <1>3, <1>4 DEF LinkAt

\* What a step about an order does to what other requests on it have read.
Advances(w, o) ==
  /\ order[o].credit => order'[o].credit
  /\ order[o].override => order'[o].override
  /\ order[o].sale # NoSale => order'[o].sale = order[o].sale
  /\ order'[o].quantityKg = order[o].quantityKg \/ order'[o].status = "RELEASED"
  /\ order'[o].status \in {"RESERVED", "CONFIRMED"} => order[o].status \in {"RESERVED", "CONFIRMED"}
  /\ order[o].status = "PARTIALLY_RELEASED" => order'[o].status # "CONFIRMED"
  /\ order[o].sale # NoSale /\ order'[o].status \in Loadable => order[o].status \in Loadable
  /\ order'[o].status = "PARTIALLY_RELEASED" => order[o].status \in Loadable
  /\ order[o].status # "CONFIRMED" /\ order[o].sale # NoSale => order'[o].status # "CONFIRMED"
  /\ order[o].status = "CONFIRMED" /\ order[o].sale = NoSale /\ ~Confirming(w, o) =>
       order'[o].status = "CONFIRMED" /\ order'[o].sale = NoSale /\ order'[o].quantityKg = order[o].quantityKg
  /\ \A s \in Sales: sale[s].order = {o} =>
       /\ sale'[s].order = {o}
       /\ sale[s].paid => sale'[s].paid
       /\ order[o].sale = NoSale => sale'[s].quantityKg = sale[s].quantityKg

\* Every request of an order but the one that acts still finds what it trusts.
LEMMA OthersTrust ==
  ASSUME TypeOK, NEW w \in Workers, NEW o \in Orders, LinkAt(o), Advances(w, o),
         NEW v \in Workers, v # w, req'[v] = req[v], req[v].order = {o},
         order[o].status = "PARTIALLY_RELEASED" =>
           order'[o].status = "RELEASED" \/ order'[o].quantityKg = order[o].quantityKg
  PROVE  Trusted(v, o)'
<1>1. Trusted(v, o) /\ order[o].sale \in Sales \union {NoSale}
  BY Columns DEF LinkAt
<1>2. CASE Confirming(v, o)
  <2>1. ~Confirming(w, o)
    BY <1>2 DEF LinkAt, OneClaim
  <2> QED BY <1>1, <1>2, <2>1 DEF Trusted, Advances, Confirming
<1>3. CASE req[v].step = "load"
  <2>1. PaidOrApproved(o)'
    <3>1. PaidOrApproved(o) /\ order[o].sale # NoSale
      BY <1>1, <1>3 DEF Trusted
    <3>2. order'[o].sale = order[o].sale /\ sale[order[o].sale].order = {o} /\ order[o].sale \in Sales
      BY <1>1, <3>1 DEF LinkAt, Sold, Advances
    <3>3. /\ sale[order[o].sale].paid => sale'[order[o].sale].paid
          /\ order[o].credit => order'[o].credit
          /\ order[o].override => order'[o].override
      BY <3>2 DEF Advances
    <3> QED BY <3>1, <3>2, <3>3, Zenon DEF PaidOrApproved
  <2> QED BY <1>1, <1>3, <2>1 DEF Trusted, Advances, Loadable
<1>4. CASE Closing(v, o)
  BY <1>1, <1>4 DEF Trusted, Advances, Closing, Loadable
<1>5. CASE req[v].step \in {"claim", "settle", "truck", "complete"}
  BY <1>1, <1>5 DEF Trusted, Advances
<1> QED BY <1>2, <1>3, <1>4, <1>5 DEF Trusted, Confirming, Closing

\* A step of a request: the row, the request itself, and the others.
LEMMA ActLinks ==
  ASSUME TypeOK, NEW w \in Workers, NEW o \in Orders, LinkAt(o), Advances(w, o),
         \A v \in Workers: v # w => req'[v] = req[v],
         (IF order[o].sale = NoSale THEN Unsold(o) ELSE Sold(o))',
         req'[w].order = {o} => Trusted(w, o)',
         Confirming(w, o)' => Confirming(w, o) \/ order[o].status = "RESERVED"
  PROVE  LinkAt(o)'
<1>1. ASSUME NEW v \in Workers, req'[v].order = {o} PROVE Trusted(v, o)'
  BY <1>1, OthersTrust DEF Advances
<1>2. ASSUME order[o].status = "RESERVED", NEW v \in Workers PROVE ~Confirming(v, o)
  BY <1>2 DEF LinkAt, Trusted, Confirming
<1>3. OneClaim(o)'
  BY <1>2 DEF LinkAt, OneClaim, Confirming
<1> QED BY <1>1, <1>3 DEF LinkAt


LEMMA ReserveLinks ==
  ASSUME TypeOK, NEW o \in Orders, LinkAt(o), HoldAt(o), NEW kg \in OrderKgs, NEW t \in Carriage,
         Reserve(o, kg, t)
  PROVE  LinkAt(o)'
<1>1. /\ order[o].status = "NONE" /\ order'[o].status = "RESERVED" /\ order'[o].quantityKg = kg
      /\ order'[o].sale = order[o].sale /\ held'[o] = held[o] + kg
      /\ UNCHANGED <<sale, trucks, req>>
  BY DEF Reserve, Move, TypeOK, OrderRow
<1>2. kg \in Nat /\ \A w \in Workers: req[w].order # {o}
  BY <1>1, KgAssumption DEF HoldAt
<1>3. order[o].sale = NoSale /\ trucks[o] = <<>> /\ held[o] = 0
  BY <1>1 DEF LinkAt, Sold, Unsold
<1> QED BY <1>1, <1>2, <1>3 DEF LinkAt, Unsold, OneClaim, Confirming

LEMMA ReleaseLinks ==
  ASSUME TypeOK, NEW o \in Orders, LinkAt(o), ReleaseReservation(o)
  PROVE  LinkAt(o)'
<1>0. order[o].quantityKg \in Nat /\ held[o] \in Int
  BY DEF TypeOK, OrderRow
<1>1. /\ order[o].status = "RESERVED" /\ order'[o].status = "CANCELLED"
      /\ order'[o].quantityKg = order[o].quantityKg
      /\ order'[o].sale = order[o].sale /\ held'[o] = held[o] - order[o].quantityKg
      /\ UNCHANGED <<sale, trucks, req>>
  BY <1>0 DEF ReleaseReservation, Move, TypeOK, OrderRow
<1>2. order[o].sale = NoSale /\ trucks[o] = <<>> /\ held[o] = order[o].quantityKg
  BY <1>1 DEF LinkAt, Sold, Unsold
<1>3. Unsold(o)'
  BY <1>0, <1>1, <1>2 DEF Unsold
<1>4. ASSUME NEW w \in Workers, req'[w].order = {o} PROVE Trusted(w, o)'
  <2>1. Trusted(w, o) /\ req'[w] = req[w]
    BY <1>1, <1>4 DEF LinkAt
  <2> QED BY <1>1, <1>2, <2>1 DEF Trusted
<1>5. OneClaim(o)'
  BY <1>1 DEF LinkAt, OneClaim, Confirming
<1> QED BY <1>1, <1>2, <1>3, <1>4, <1>5 DEF LinkAt

LEMMA ArriveLinks ==
  ASSUME TypeOK, NEW w \in Workers, NEW o \in Orders, LinkAt(o), HoldAt(o), Arrive(w, o)
  PROVE  LinkAt(o)'
<1>1. /\ req'[w].order = {o} /\ Found(w, o, req'[w])
      /\ \A v \in Workers: v # w => req'[v] = req[v]
      /\ UNCHANGED <<order, sale, loadedKg, trucks, held>>
  BY ArriveDoes
<1>2. Advances(w, o)
  BY <1>1 DEF Loadable, Advances
<1>3. (IF order[o].sale = NoSale THEN Unsold(o) ELSE Sold(o))'
  BY <1>1 DEF LinkAt, Unsold, Sold
<1>4. ~Confirming(w, o)'
  BY <1>1 DEF Found, Confirming
<1>5. order[o].sale = NoSale => trucks[o] = <<>> /\ order[o].status \notin {"PARTIALLY_RELEASED", "RELEASED"}
  BY DEF LinkAt, Unsold
<1>6. Trusted(w, o)'
  <2>1. req'[w].step = "truck" => order[o].sale # NoSale
    BY <1>1, <1>5 DEF Found
  <2>2. PaidOrApproved(o)' = PaidOrApproved(o)
    BY <1>1 DEF PaidOrApproved
  <2> QED BY <1>1, <1>5, <2>1, <2>2 DEF Found, Trusted
<1> QED BY <1>1, <1>2, <1>3, <1>4, <1>6, ActLinks

\* A request that only ends.
LEMMA QuitLinks ==
  ASSUME TypeOK, NEW w \in Workers, NEW o \in Orders, LinkAt(o), Quits(w, o)
  PROVE  LinkAt(o)'
<1>1. Advances(w, o) /\ (IF order[o].sale = NoSale THEN Unsold(o) ELSE Sold(o))'
  BY DEF Loadable, Advances, LinkAt, Unsold, Sold, Quits
<1>2. req'[w].order # {o} /\ ~Confirming(w, o)' /\ \A v \in Workers: v # w => req'[v] = req[v]
  BY DEF Quits, Done, Turn, Confirming
<1> QED BY <1>1, <1>2, ActLinks

LEMMA ConfirmLinks ==
  ASSUME TypeOK, Links, NEW w \in Workers, NEW o \in Orders,
         \/ ConfirmClaim(w, o) \/ ConfirmLink(w, o) \/ ConfirmError(w, o) \/ ConfirmRevert(w, o)
         \/ \E s \in Sales: ConfirmCreate(w, o, s)
  PROVE  LinkAt(o)'
<1>0. LinkAt(o) /\ (req[w].order = {o} => Trusted(w, o)) /\ order[o].sale \in Sales \union {NoSale}
  BY Columns DEF Links, LinkAt
<1>1. CASE ConfirmClaim(w, o)
  <2>1. /\ Turn(w, o) /\ Moved(w, o, "create") /\ req[w].step = "claim" /\ order[o].status = "RESERVED"
        /\ Row(o, "CONFIRMED", order[o].quantityKg, order[o].sale)
        /\ UNCHANGED <<sale, trucks, held>>
    BY <1>1, ClaimDoes
  <2>2. order[o].sale = NoSale /\ req[w].quantityKg = order[o].quantityKg
    BY <1>0, <2>1 DEF LinkAt, Sold, Trusted, Turn
  <2>3. Advances(w, o) /\ Unsold(o)' /\ order'[o].sale = NoSale
    BY <1>0, <2>1, <2>2 DEF Advances, LinkAt, Unsold, Row
  <2>4. Trusted(w, o)'
    BY <2>1, <2>2 DEF Trusted, Moved, Row
  <2> QED BY <1>0, <2>1, <2>3, <2>4, ActLinks DEF Turn
<1>2. ASSUME NEW s \in Sales, ConfirmCreate(w, o, s) PROVE LinkAt(o)'
  <2>1. /\ Turn(w, o) /\ Moved(w, o, "link") /\ req'[w].sale = s /\ req[w].step = "create"
        /\ sale[s].order = {} /\ sale'[s].order = {o} /\ sale'[s].quantityKg = req[w].quantityKg
        /\ \A x \in Sales: x # s => sale'[x] = sale[x]
        /\ UNCHANGED <<order, trucks, held>>
    BY <1>2, CreateDoes
  <2>2. /\ order[o].status = "CONFIRMED" /\ order[o].sale = NoSale
        /\ req[w].quantityKg = order[o].quantityKg /\ Confirming(w, o)
    BY <1>0, <2>1 DEF Trusted, Turn, Confirming
  <2>3. \A x \in Sales: sale[x].order = {o} => sale'[x] = sale[x]
    BY <2>1
  <2>4. Advances(w, o) /\ Unsold(o)'
    BY <1>0, <2>1, <2>2, <2>3 DEF Advances, LinkAt, Unsold
  <2>5. Trusted(w, o)'
    BY <2>1, <2>2 DEF Trusted, Moved
  <2> QED BY <1>0, <2>1, <2>2, <2>4, <2>5, ActLinks DEF Turn
<1>3. CASE ConfirmLink(w, o)
  <2>1. /\ Turn(w, o) /\ Done(w) /\ req[w].step = "link"
        /\ Row(o, order[o].status, order[o].quantityKg, req[w].sale)
        /\ UNCHANGED <<sale, trucks, held>>
    BY <1>3, LinkDoes
  <2>2. /\ order[o].status = "CONFIRMED" /\ order[o].sale = NoSale /\ Confirming(w, o)
        /\ req[w].sale \in Sales /\ sale[req[w].sale].order = {o}
    BY <1>0, <2>1 DEF Trusted, Turn, Confirming
  <2>3. Advances(w, o) /\ Sold(o)' /\ order'[o].sale # NoSale
    BY <2>1, <2>2, OrdersAssumption DEF Advances, Sold, Row
  <2> QED BY <1>0, <2>1, <2>3, ActLinks DEF Turn, Done, Confirming
<1>4. CASE ConfirmError(w, o)
  <2>1. /\ Turn(w, o) /\ Moved(w, o, "revert") /\ req[w].step \in {"create", "link"}
        /\ UNCHANGED <<order, sale, trucks, held>>
    BY <1>4, ErrorDoes
  <2>2. /\ order[o].status = "CONFIRMED" /\ order[o].sale = NoSale /\ Confirming(w, o)
        /\ req[w].quantityKg = order[o].quantityKg
    BY <1>0, <2>1 DEF Trusted, Turn, Confirming
  <2>3. Advances(w, o) /\ Unsold(o)'
    BY <1>0, <2>1, <2>2 DEF Advances, LinkAt, Unsold
  <2>4. Trusted(w, o)'
    BY <2>1, <2>2 DEF Trusted, Moved
  <2> QED BY <1>0, <2>1, <2>2, <2>3, <2>4, ActLinks DEF Turn
<1>5. CASE ConfirmRevert(w, o)
  <2>1. /\ Turn(w, o) /\ Done(w) /\ req[w].step = "revert"
        /\ Row(o, IF order[o].status = "CONFIRMED" /\ order[o].sale = NoSale
                  THEN "RESERVED" ELSE order[o].status, order[o].quantityKg, order[o].sale)
        /\ UNCHANGED <<sale, trucks, held>>
    BY <1>5, RevertDoes
  <2>2. order[o].status = "CONFIRMED" /\ order[o].sale = NoSale /\ Confirming(w, o)
    BY <1>0, <2>1 DEF Trusted, Turn, Confirming
  <2>3. Advances(w, o) /\ Unsold(o)' /\ order'[o].sale = NoSale
    BY <1>0, <2>1, <2>2 DEF Advances, LinkAt, Unsold, Row
  <2> QED BY <1>0, <2>1, <2>3, ActLinks DEF Turn, Done, Confirming
<1> QED BY <1>1, <1>2, <1>3, <1>4, <1>5

LEMMA ReleaseStepsLink ==
  ASSUME TypeOK, Links, NEW w \in Workers, NEW o \in Orders,
         \/ Approve(w, o) \/ SetTruck(w, o) \/ CompleteOrder(w, o)
         \/ \E kg \in WeighedKg(w, o): LoadTruck(w, o, kg)
  PROVE  LinkAt(o)'
<1>0. LinkAt(o) /\ (req[w].order = {o} => Trusted(w, o)) /\ order[o].sale \in Sales \union {NoSale}
  BY Columns DEF Links, LinkAt
<1>1. CASE Approve(w, o)
  <2>1. /\ Turn(w, o) /\ Done(w) /\ Row(o, order[o].status, order[o].quantityKg, order[o].sale)
        /\ UNCHANGED <<sale, trucks, held>>
    BY <1>1, ApproveDoes
  <2>2. Advances(w, o) /\ (IF order[o].sale = NoSale THEN Unsold(o) ELSE Sold(o))'
    BY <1>0, <2>1 DEF Loadable, Advances, LinkAt, Unsold, Sold, Row
  <2> QED BY <1>0, <2>1, <2>2, ActLinks DEF Turn, Done, Confirming
<1>2. CASE SetTruck(w, o)
  <2>1. Turn(w, o) /\ Done(w) /\ req[w].step = "truck" /\ UNCHANGED <<order, sale, held>>
    BY <1>2, TruckDoes
  <2>2. order[o].sale # NoSale
    BY <1>0, <2>1 DEF Trusted, Turn
  <2>3. Advances(w, o) /\ Sold(o)'
    BY <1>0, <2>1, <2>2 DEF Loadable, Advances, LinkAt, Sold
  <2> QED BY <1>0, <2>1, <2>2, <2>3, ActLinks DEF Turn, Done, Confirming
<1>3. CASE CompleteOrder(w, o)
  <2>1. /\ Turn(w, o) /\ Done(w) /\ req[w].step = "complete"
        /\ Row(o, IF order[o].status = "RELEASED" THEN "COMPLETED" ELSE order[o].status,
               order[o].quantityKg, order[o].sale)
        /\ UNCHANGED <<sale, trucks, held>>
    BY <1>3, CompleteDoes
  <2>2. order[o].sale # NoSale
    BY <1>0, <2>1 DEF Trusted, Turn
  <2>3. Advances(w, o) /\ Sold(o)' /\ order'[o].sale # NoSale
    BY <1>0, <2>1, <2>2 DEF Advances, LinkAt, Sold, Row, Loadable
  <2> QED BY <1>0, <2>1, <2>3, ActLinks DEF Turn, Done, Confirming
<1>4. ASSUME NEW kg \in WeighedKg(w, o), LoadTruck(w, o, kg) PROVE LinkAt(o)'
  <2>1. /\ Turn(w, o) /\ Done(w) /\ req[w].step = "load" /\ order[o].status \in Loadable
        /\ \E st \in {"RELEASED", "PARTIALLY_RELEASED"}: Row(o, st, order[o].quantityKg, order[o].sale)
        /\ UNCHANGED sale
    BY <1>4, LoadDoes
  <2>2. order[o].sale # NoSale
    BY <1>0, <2>1 DEF Trusted, Turn
  <2>3. Advances(w, o) /\ Sold(o)' /\ order'[o].sale # NoSale
    BY <1>0, <2>1, <2>2 DEF Advances, LinkAt, Sold, Row, Loadable
  <2> QED BY <1>0, <2>1, <2>3, ActLinks DEF Turn, Done, Confirming
<1> QED BY <1>1, <1>2, <1>3, <1>4

LEMMA CloseStepsLink ==
  ASSUME TypeOK, Links, NEW w \in Workers, NEW o \in Orders,
         ReduceRead(w, o) \/ ReduceWrite(w, o) \/ CloseShort(w, o) \/ Settle(w, o)
  PROVE  LinkAt(o)'
<1>0. LinkAt(o) /\ (req[w].order = {o} => Trusted(w, o)) /\ order[o].sale \in Sales \union {NoSale}
  BY Columns DEF Links, LinkAt
<1>1. CASE ReduceRead(w, o)
  <2>1. CASE Quits(w, o)
    BY <1>0, <2>1, QuitLinks
  <2>2. CASE ~Quits(w, o)
    <3>1. /\ Turn(w, o) /\ req[w].step = "reduce" /\ req'[w].sale = req[w].sale
          /\ UNCHANGED <<order, sale, trucks, held>>
          /\ Moved(w, o, "close") \/ Moved(w, o, "shrink")
      BY <1>1, <2>2, ReduceReadDoes
    <3>2. Advances(w, o) /\ (IF order[o].sale = NoSale THEN Unsold(o) ELSE Sold(o))'
      BY <1>0, <3>1 DEF Loadable, Advances, LinkAt, Unsold, Sold
    <3>3. Trusted(w, o)'
      BY <1>0, <3>1 DEF Trusted, Turn, Moved
    <3>4. ~Confirming(w, o)'
      BY <3>1 DEF Moved, Confirming
    <3> QED BY <1>0, <3>1, <3>2, <3>3, <3>4, ActLinks DEF Turn
  <2> QED BY <2>1, <2>2
<1>2. CASE ReduceWrite(w, o)
  <2>1. /\ Turn(w, o) /\ Moved(w, o, "close") /\ req[w].step = "shrink" /\ req'[w].sale = req[w].sale
        /\ req[w].sale \in Sales =>
             /\ sale'[req[w].sale].order = sale[req[w].sale].order
             /\ sale'[req[w].sale].paid = sale[req[w].sale].paid
        /\ \A x \in Sales: x # req[w].sale => sale'[x] = sale[x]
        /\ UNCHANGED <<order, trucks, held>>
    BY <1>2, ReduceWriteDoes
  <2>2. order[o].sale # NoSale /\ order[o].sale \in Sales /\ req[w].sale = order[o].sale
    BY <1>0, <2>1 DEF Trusted, Turn
  <2>3. Advances(w, o) /\ Sold(o)'
    BY <1>0, <2>1, <2>2 DEF Loadable, Advances, LinkAt, Sold
  <2>4. Trusted(w, o)' /\ ~Confirming(w, o)'
    BY <1>0, <2>1, <2>2 DEF Trusted, Turn, Moved, Confirming
  <2> QED BY <1>0, <2>1, <2>2, <2>3, <2>4, ActLinks DEF Turn
<1>3. CASE CloseShort(w, o)
  <2>1. /\ Turn(w, o) /\ Done(w) /\ req[w].step = "close" /\ order[o].status = "PARTIALLY_RELEASED"
        /\ Row(o, "RELEASED", req[w].loadedKg, order[o].sale)
        /\ UNCHANGED sale
    BY <1>3, CloseDoes
  <2>2. order[o].sale # NoSale
    BY <1>0, <2>1 DEF Trusted, Turn
  <2>3. Advances(w, o) /\ Sold(o)' /\ order'[o].sale # NoSale
    BY <1>0, <2>1, <2>2 DEF Advances, LinkAt, Sold, Row, Loadable
  <2> QED BY <1>0, <2>1, <2>3, ActLinks DEF Turn, Done, Confirming
<1>4. CASE Settle(w, o)
  <2>1. /\ Turn(w, o) /\ Done(w) /\ req[w].step = "settle"
        /\ req[w].sale \in Sales =>
             /\ sale'[req[w].sale].order = sale[req[w].sale].order
             /\ sale'[req[w].sale].quantityKg = sale[req[w].sale].quantityKg
             /\ sale'[req[w].sale].paid
        /\ \A x \in Sales: x # req[w].sale => sale'[x] = sale[x]
        /\ UNCHANGED <<order, trucks, held>>
    BY <1>4, SettleDoes
  <2>2. \A x \in Sales: /\ sale'[x].order = sale[x].order
                        /\ sale'[x].quantityKg = sale[x].quantityKg
                        /\ sale[x].paid => sale'[x].paid
    BY <2>1
  <2>3. Advances(w, o) /\ (IF order[o].sale = NoSale THEN Unsold(o) ELSE Sold(o))'
    BY <1>0, <2>1, <2>2 DEF Loadable, Advances, LinkAt, Unsold, Sold
  <2> QED BY <1>0, <2>1, <2>3, ActLinks DEF Turn, Done, Confirming
<1> QED BY <1>1, <1>2, <1>3, <1>4

\* Every step keeps an order with a sale sold and one without unsold.
LEMMA LinkStep ==
  ASSUME TypeOK, Links, \A o \in Orders: HoldAt(o), [Next]_vars
  PROVE  Links'
<1> SUFFICES ASSUME NEW o \in Orders PROVE LinkAt(o)'
  BY DEF Links
<1>0. LinkAt(o) /\ HoldAt(o)
  BY DEF Links
<1>1. ASSUME NEW w \in Workers, Acts(w, o) PROVE LinkAt(o)'
  <2>1. CASE ConfirmLate(w, o) \/ CloseLate(w, o) \/ Crash(w, o)
             \/ \E kg \in WeighedKg(w, o): LoadRefused(w, o, kg)
    BY <1>0, <2>1, QuitDoes, QuitLinks
  <2> QED BY <1>0, <1>1, <2>1, ArriveLinks, ConfirmLinks, ReleaseStepsLink, CloseStepsLink DEF Acts, Proceed
<1> QED BY <1>0, <1>1, StepOn, ApartLinks, ReserveLinks, ReleaseLinks


LEMMA LinksInit == Init => Links
<1> SUFFICES ASSUME Init, NEW o \in Orders PROVE LinkAt(o)
  BY DEF Links
<1>1. /\ order[o].status = "NONE" /\ order[o].sale = NoSale /\ trucks[o] = <<>> /\ held[o] = 0
      /\ \A w \in Workers: req[w].order = {}
  BY DEF Init, NoRequest
<1> QED BY <1>1 DEF LinkAt, Unsold, OneClaim, Confirming

\* The invariant of the sales, with the ones of the stock and of the reservations it needs.
LinkInvariant == StockInvariant /\ HoldInvariant /\ Links

LEMMA LinkInit == Init => LinkInvariant
BY InitHolds, LinksInit DEF LinkInvariant

LEMMA LinkNext ==
  ASSUME LinkInvariant, [Next]_vars
  PROVE  LinkInvariant'
<1>1. TypeOK /\ StockInvariant' /\ TypeOK' /\ \A o \in Orders: HoldAt(o)
  BY StockStep, HoldPerOrder DEF LinkInvariant, StockInvariant
<1>2. HoldInvariant'
  <2>1. \A p \in Orders: HoldAt(p)'
    BY <1>1, HoldStep
  <2> QED BY <1>1, <2>1 DEF HoldInvariant, ServedAlone, NothingBeforeReserved, LoadedAfterConfirmed,
             SnapshotsHold, HoldMatchesOrder, HoldAt, At
<1>3. Links'
  BY <1>1, LinkStep DEF LinkInvariant
<1> QED BY <1>1, <1>2, <1>3 DEF LinkInvariant

LEMMA LinkFacts == LinkInvariant => TypeOK /\ Links /\ NeverClosesUpwards /\ \A o \in Orders: HoldAt(o)
BY HoldPerOrder DEF LinkInvariant, StockInvariant

\* CancelledIsClean (run sale_orders_races): a cancelled order has no sale, no truck and nothing
\* reserved, however a confirmation, a cancellation and the sweep raced for it.
THEOREM CancelledOrdersAreClean == Spec => []CancelledIsClean
<1>1. LinkInvariant => CancelledIsClean
  BY DEF LinkInvariant, Links, LinkAt, Unsold, Sold, CancelledIsClean
<1> QED BY LinkInit, LinkNext, <1>1, PTL DEF Spec

-----------------------------------------------------------------------------
(* Trucks *)
LEMMA TruckAllowed ==
  ASSUME TypeOK, Links, [Next]_vars, NEW o \in Orders, loadedKg'[o] # loadedKg[o]
  PROVE  WithinCeiling(order[o].quantityKg, loadedKg'[o]) /\ PaidOrApproved(o)
<1>1. ~Apart(o) /\ ~ReleaseReservation(o) /\ \A kg \in OrderKgs, t \in Carriage: ~Reserve(o, kg, t)
  BY DEF Apart, ReleaseReservation, Reserve
<1>2. PICK w \in Workers: Acts(w, o)
  BY <1>1, StepOn
<1>3. ~Arrive(w, o)
  BY ArriveDoes
<1>4. PICK kg \in WeighedKg(w, o): LoadTruck(w, o, kg)
  BY <1>2, <1>3 DEF Acts, Proceed, ConfirmClaim, ConfirmLate, ConfirmCreate, ConfirmLink, ConfirmRevert,
     Approve, LoadRefused, SetTruck, CompleteOrder, ReduceRead, ReduceWrite, CloseShort, CloseLate, Settle,
     ConfirmError, Crash, Throw, orderVars
<1>5. /\ Turn(w, o) /\ req[w].step = "load" /\ order[o].status \in Loadable
      /\ WithinCeiling(req[w].quantityKg, loadedKg[o] + kg) /\ loadedKg'[o] = loadedKg[o] + kg
  BY <1>4, LoadDoes
<1>6. req[w].quantityKg = order[o].quantityKg /\ PaidOrApproved(o)
  BY <1>5 DEF Links, LinkAt, Trusted, Turn
<1> QED BY <1>5, <1>6

\* TrucksAreAllowed (run sale_orders_races): no truck takes an order past its tolerance or leaves
\* unpaid and unapproved, although loadTruck read the order and its payment before it took the lock.
THEOREM TrucksLeaveAllowed == Spec => TrucksAreAllowed
<1>1. LinkInvariant /\ [Next]_vars =>
        [\A o \in Orders: loadedKg'[o] # loadedKg[o] =>
           WithinCeiling(order[o].quantityKg, loadedKg'[o]) /\ PaidOrApproved(o)]_vars
  BY LinkFacts, TruckAllowed
<1> QED BY LinkInit, LinkNext, <1>1, PTL DEF Spec, TrucksAreAllowed

-----------------------------------------------------------------------------
(* How many sales an order has *)
SalesOf(o) == {s \in Sales: sale[s].order = {o}}

\* Every sale there is so far is the trace of a failed confirmation.
NoneCounted(o) ==
  \/ order[o].status \in {"NONE", "RESERVED", "CANCELLED"}
  \/ \E w \in Workers: req[w].order = {o} /\ req[w].step \in {"create", "revert"}

CountAt(o) ==
  /\ IsFiniteSet(SalesOf(o))
  /\ Cardinality(SalesOf(o)) <= errors + 1
  /\ NoneCounted(o) => Cardinality(SalesOf(o)) <= errors

LEMMA CountKept ==
  ASSUME TypeOK, NEW o \in Orders, CountAt(o), errors' = errors \/ errors' = errors + 1,
         \A s \in Sales: sale'[s].order = {o} <=> sale[s].order = {o},
         NoneCounted(o)' => NoneCounted(o)
  PROVE  CountAt(o)'
<1>1. SalesOf(o)' = SalesOf(o)
  BY DEF SalesOf
<1>2. Cardinality(SalesOf(o)) \in Nat /\ errors \in Nat
  BY FS_CardinalityType DEF CountAt, TypeOK
<1> QED BY <1>1, <1>2 DEF CountAt

LEMMA CreateCounts ==
  ASSUME TypeOK, Links, NEW w \in Workers, NEW o \in Orders, NEW s \in Sales, ConfirmCreate(w, o, s),
         CountAt(o)
  PROVE  CountAt(o)'
<1>1. /\ Turn(w, o) /\ Moved(w, o, "link") /\ req[w].step = "create"
      /\ sale[s].order = {} /\ sale'[s].order = {o}
      /\ \A x \in Sales: x # s => sale'[x] = sale[x]
      /\ order' = order /\ errors' = errors
  BY CreateDoes
<1>2. SalesOf(o)' = SalesOf(o) \cup {s} /\ s \notin SalesOf(o)
  BY <1>1 DEF SalesOf
<1>3. Cardinality(SalesOf(o)) \in Nat /\ errors \in Nat
  BY FS_CardinalityType DEF CountAt, TypeOK
<1>4. IsFiniteSet(SalesOf(o)') /\ Cardinality(SalesOf(o)') = Cardinality(SalesOf(o)) + 1
  BY <1>2, FS_AddElement DEF CountAt
<1>5. NoneCounted(o) /\ order[o].status = "CONFIRMED" /\ Confirming(w, o)
  BY <1>1 DEF NoneCounted, Turn, Links, LinkAt, Trusted, Confirming
<1>6. ~NoneCounted(o)'
  <2>1. \A v \in Workers: v # w => ~Confirming(v, o)
    BY <1>5 DEF Links, LinkAt, OneClaim
  <2> QED BY <1>1, <1>5, <2>1 DEF NoneCounted, Turn, Moved, Confirming
<1> QED BY <1>1, <1>3, <1>4, <1>5, <1>6 DEF CountAt

LEMMA ErrorCounts ==
  ASSUME TypeOK, NEW w \in Workers, NEW o \in Orders, ConfirmError(w, o), CountAt(o)
  PROVE  CountAt(o)'
<1>1. errors' = errors + 1 /\ sale' = sale
  BY ErrorDoes
<1>2. Cardinality(SalesOf(o)) \in Nat /\ errors \in Nat
  BY FS_CardinalityType DEF CountAt, TypeOK
<1>3. SalesOf(o)' = SalesOf(o)
  BY <1>1 DEF SalesOf
<1> QED BY <1>1, <1>2, <1>3 DEF CountAt

\* Every other step of a request makes no sale and begins no confirmation of a sold order.
LEMMA ActCounts ==
  ASSUME TypeOK, Links, NEW w \in Workers, NEW o \in Orders, Acts(w, o), CountAt(o)
  PROVE  CountAt(o)'
<1> DEFINE SameSales == \A s \in Sales: sale'[s].order = {o} <=> sale[s].order = {o}
           NotNew == NoneCounted(o)' => NoneCounted(o)
           SameErrors == errors' = errors \/ errors' = errors + 1
<1>0. (req[w].order = {o} => Trusted(w, o)) /\ \A v \in Workers: v # w => req'[v] = req[v]
  BY ActsWithin DEF Links, LinkAt
<1>1. ASSUME order'[o].status \in {"NONE", "RESERVED", "CANCELLED"} =>
               order[o].status \in {"NONE", "RESERVED", "CANCELLED"},
             ~(req'[w].order = {o} /\ req'[w].step \in {"create", "revert"})
      PROVE  NotNew
  BY <1>0, <1>1 DEF NoneCounted
<1>2. SameErrors
  BY ActsElsewhere
<1>3. ASSUME NotNew, SameSales PROVE CountAt(o)'
  BY <1>2, <1>3, CountKept
<1>4. CASE Arrive(w, o)
  BY <1>1, <1>3, <1>4, ArriveDoes DEF Found
<1>5. CASE ConfirmClaim(w, o)
  BY <1>3, <1>5, ClaimDoes DEF NoneCounted
<1>6. CASE ConfirmLate(w, o) \/ CloseLate(w, o) \/ Crash(w, o)
           \/ \E kg \in WeighedKg(w, o): LoadRefused(w, o, kg)
  <2>1. Quits(w, o)
    BY <1>6, QuitDoes
  <2> QED BY <1>1, <1>3, <2>1 DEF Quits, Done
<1>7. CASE ConfirmLink(w, o)
  <2>1. Done(w) /\ order'[o].status = order[o].status /\ sale' = sale
    BY <1>7, LinkDoes DEF Row
  <2> QED BY <1>1, <1>3, <2>1 DEF Done
<1>8. CASE ConfirmRevert(w, o)
  <2>1. NoneCounted(o) /\ sale' = sale
    BY <1>8, RevertDoes DEF NoneCounted, Turn
  <2> QED BY <1>3, <2>1
<1>9. CASE Approve(w, o) \/ CompleteOrder(w, o)
  <2>1. /\ Done(w) /\ sale' = sale
        /\ order'[o].status = order[o].status \/ order'[o].status = "COMPLETED"
    BY <1>9, ApproveDoes, CompleteDoes DEF Row
  <2> QED BY <1>1, <1>3, <2>1 DEF Done
<1>10. CASE CloseShort(w, o) \/ \E kg \in WeighedKg(w, o): LoadTruck(w, o, kg)
  <2>1. /\ Done(w) /\ sale' = sale /\ order'[o].status \in {"RELEASED", "PARTIALLY_RELEASED"}
    BY <1>10, CloseDoes, LoadDoes DEF Row
  <2> QED BY <1>1, <1>3, <2>1 DEF Done
<1>11. CASE SetTruck(w, o)
  BY <1>1, <1>3, <1>11, TruckDoes DEF Done
<1>12. CASE ReduceRead(w, o)
  <2>1. /\ order' = order /\ sale' = sale
        /\ Done(w) \/ Moved(w, o, "close") \/ Moved(w, o, "shrink")
    BY <1>12, ReduceReadDoes DEF Quits
  <2> QED BY <1>1, <1>3, <2>1 DEF Done, Moved
<1>13. CASE ReduceWrite(w, o)
  <2>1. /\ Moved(w, o, "close") /\ order' = order
        /\ \A s \in Sales: sale'[s].order = sale[s].order
    BY <1>13, ReduceWriteDoes
  <2> QED BY <1>1, <1>3, <2>1 DEF Moved
<1>14. CASE Settle(w, o)
  <2>1. /\ Done(w) /\ order' = order
        /\ \A s \in Sales: sale'[s].order = sale[s].order
    BY <1>14, SettleDoes
  <2> QED BY <1>1, <1>3, <2>1 DEF Done
<1> QED BY <1>4, <1>5, <1>6, <1>7, <1>8, <1>9, <1>10, <1>11, <1>12, <1>13, <1>14, CreateCounts, ErrorCounts
        DEF Acts, Proceed

LEMMA CountStep ==
  ASSUME TypeOK, Links, [Next]_vars, NEW o \in Orders, CountAt(o)
  PROVE  CountAt(o)'
<1>1. CASE Apart(o)
  <2>1. NoneCounted(o)' => NoneCounted(o)
    BY <1>1 DEF Apart, NoneCounted
  <2>2. \A s \in Sales: sale'[s].order = {o} <=> sale[s].order = {o}
    BY <1>1 DEF Apart
  <2> QED BY <1>1, <2>1, <2>2, CountKept DEF Apart
<1>2. CASE ReleaseReservation(o) \/ \E kg \in OrderKgs, t \in Carriage: Reserve(o, kg, t)
  <2>1. sale' = sale /\ errors' = errors /\ NoneCounted(o)
    BY <1>2 DEF ReleaseReservation, Reserve, NoneCounted
  <2> QED BY <2>1, CountKept
<1> QED BY <1>1, <1>2, StepOn, ActCounts

LEMMA CountInit == Init => \A o \in Orders: CountAt(o)
<1> SUFFICES ASSUME Init, NEW o \in Orders PROVE CountAt(o)
  OBVIOUS
<1>1. SalesOf(o) = {} /\ errors = 0
  BY DEF Init, SalesOf
<1> QED BY <1>1, FS_EmptySet DEF CountAt

\* OneSalePerConfirmation (run sale_orders_races): every sale of an order beyond the first is the
\* trace of a confirmation that failed, however many requests confirm it at once.
THEOREM OneSaleEach == Spec => []OneSalePerConfirmation
<1> DEFINE Counts == \A o \in Orders: CountAt(o)
<1>1. Init => Counts
  BY CountInit
<1>2. LinkInvariant /\ Counts /\ [Next]_vars => Counts'
  BY LinkFacts, CountStep
<1>3. TypeOK /\ Counts => OneSalePerConfirmation
  <2> SUFFICES ASSUME TypeOK, Counts, NEW o \in Orders PROVE Cardinality(SalesOf(o)) <= 1 + errors
    BY DEF OneSalePerConfirmation, SalesOf
  <2> QED BY FS_CardinalityType DEF CountAt, TypeOK
<1> HIDE DEF Counts
<1> QED BY LinkInit, LinkNext, LinkFacts, <1>1, <1>2, <1>3, PTL DEF Spec


-----------------------------------------------------------------------------
(* The lot *)

\* What an order counts against its lot.
LiveKg(row) == IF row.status \in LIVE THEN row.quantityKg ELSE 0
LotKgs(ord) == [o \in Orders |-> LiveKg(ord[o])]

\* The weight of the live orders is what all orders count, added up.
LEMMA LiveSum ==
  ASSUME NEW ord, \A o \in Orders: ord[o].quantityKg \in Nat
  PROVE  SumFunctionOnSet([o \in Orders |-> ord[o].quantityKg], {o \in Orders: ord[o].status \in LIVE})
           = SumFunctionOnSet(LotKgs(ord), Orders)
<1> DEFINE T == {o \in Orders: ord[o].status \in LIVE}
           f == LotKgs(ord)
           g == [o \in Orders |-> ord[o].quantityKg]
<1>1. T \in SUBSET Orders /\ IsFiniteSet(T) /\ IsFiniteSet(Orders)
  BY OrdersAssumption, FS_Subset
<1>2. /\ \A o \in Orders: f[o] \in Int
      /\ \A o \in Orders \ T: f[o] = 0
      /\ \A o \in T: g[o] = f[o]
  BY DEF LotKgs, LiveKg
<1> HIDE DEF T, f, g
<1>3. SumFunctionOnSet(f, T) = SumFunctionOnSet(f, Orders)
  BY <1>1, <1>2, SumSupport
<1>4. SumFunctionOnSet(g, T) = SumFunctionOnSet(f, T)
  BY <1>1, <1>2, SumCongruence
<1> QED BY <1>3, <1>4 DEF T, f, g

LEMMA RowsCount ==
  ASSUME TypeOK
  PROVE  /\ \A o \in Orders: order[o].quantityKg \in Nat
         /\ \A o \in Orders: LotKgs(order)[o] \in Nat
         /\ IsFiniteSet(Orders)
<1>1. \A o \in Orders: order[o].quantityKg \in Nat
  BY DEF TypeOK, OrderRow
<1> QED BY <1>1, OrdersAssumption DEF LotKgs, LiveKg

LEMMA LotIs == ASSUME TypeOK PROVE LotNotOversold <=> SumFunctionOnSet(LotKgs(order), Orders) <= LotKg
BY LiveSum, RowsCount DEF LotNotOversold

\* The table of sales is finite.
SalesMade == {s \in Sales: sale[s].order # {}}

LEMMA OneSaleWritten ==
  ASSUME [Next]_vars
  PROVE  \E s: \A x \in Sales: x # s => sale'[x] = sale[x]
<1> DEFINE P == \E s: \A x \in Sales: x # s => sale'[x] = sale[x]
<1>1. ASSUME sale' = sale PROVE P
  BY <1>1
<1>2. ASSUME NEW s, NEW row, sale' = [sale EXCEPT ![s] = row] PROVE P
  BY <1>2
<1>3. ASSUME NEW w \in Workers, NEW o \in Orders, Proceed(w, o) PROVE P
  <2>1. CASE ReduceWrite(w, o)
    BY <2>1, <1>2 DEF ReduceWrite
  <2>2. CASE Settle(w, o)
    BY <2>2, <1>2 DEF Settle
  <2>3. ASSUME NEW s \in Sales, ConfirmCreate(w, o, s) PROVE P
    BY <2>3, <1>2 DEF ConfirmCreate
  <2>4. CASE sale' = sale
    BY <1>1, <2>4
  <2> HIDE DEF P
  <2> QED BY <1>3, <2>1, <2>2, <2>3, <2>4 DEF Proceed, ConfirmClaim, ConfirmLate, ConfirmLink, ConfirmRevert,
       Approve, LoadTruck, LoadRefused, SetTruck, CompleteOrder, ReduceRead, CloseShort, CloseLate, Throw, orderVars
<1>4. ASSUME NEW w \in Workers, NEW o \in Orders, Arrive(w, o) PROVE sale' = sale
  BY <1>4 DEF Arrive, ConfirmRead, ApproveRead, LoadRead, TruckRead, CompleteRead, CloseRead, SettleRead, orderVars
<1>5. CASE sale' = sale
  BY <1>1, <1>5
<1> HIDE DEF P
<1> QED BY <1>3, <1>4, <1>5 DEF Next, vars, orderVars, Reserve, Cancel, ExpireStale, ReleaseReservation,
     ConfirmError, Crash, OpsStep, OpsAllocate, OpsPrepare, OpsDispatch, OpsCancelLoad, OpsRelease, P

LEMMA SalesStayFinite == ASSUME [Next]_vars, IsFiniteSet(SalesMade) PROVE IsFiniteSet(SalesMade')
<1>1. PICK s: \A x \in Sales: x # s => sale'[x] = sale[x]
  BY OneSaleWritten
<1>2. SalesMade' \subseteq SalesMade \cup {s}
  BY <1>1 DEF SalesMade
<1> QED BY <1>2, FS_AddElement, FS_Subset

\* What the lot has left is never more than it weighs less its live orders.
LEMMA RemainingIs ==
  ASSUME TypeOK, IsFiniteSet(SalesMade)
  PROVE  lotRemainingKg \in Int /\ lotRemainingKg <= LotKg - SumFunctionOnSet(LotKgs(order), Orders)
<1> DEFINE S == {s \in Sales: sale[s].order # {} /\ ~Linked(s)}
           f == [s \in Sales |-> sale[s].quantityKg]
<1>1. IsFiniteSet(S) /\ \A s \in S: f[s] \in Nat
  <2>1. S \subseteq SalesMade
    BY DEF SalesMade
  <2> QED BY <2>1, FS_Subset DEF TypeOK, SaleRow
<1> HIDE DEF f, S
<1>2. SumFunctionOnSet(f, S) \in Nat
  BY <1>1, SumNat
<1>3. SumFunctionOnSet(LotKgs(order), Orders) \in Nat
  BY RowsCount, SumNat
<1>4. lotRemainingKg = LotKg - SumFunctionOnSet(LotKgs(order), Orders) - SumFunctionOnSet(f, S)
  BY LiveSum, RowsCount DEF lotRemainingKg, f, S
<1> QED BY <1>2, <1>3, <1>4, KgAssumption

\* No step but a reservation makes an order count for more.
LEMMA CountsNoMore ==
  ASSUME TypeOK, Links, NeverClosesUpwards, [Next]_vars, NEW o \in Orders,
         \A kg \in OrderKgs, t \in Carriage: ~Reserve(o, kg, t)
  PROVE  LiveKg(order'[o]) <= LiveKg(order[o])
<1>0. order[o].quantityKg \in Nat /\ LiveKg(order[o]) \in Nat /\ order[o] \in OrderRow
  BY DEF TypeOK, OrderRow, LiveKg
<1>1. CASE order'[o] = order[o]
  BY <1>0, <1>1
<1>2. CASE ReleaseReservation(o)
  <2>1. order'[o].status = "CANCELLED"
    BY <1>0, <1>2 DEF ReleaseReservation, TypeOK, OrderRow
  <2> QED BY <1>0, <2>1 DEF LiveKg, LIVE
<1>3. ASSUME NEW w \in Workers, Acts(w, o) PROVE LiveKg(order'[o]) <= LiveKg(order[o])
  <2>0. LinkAt(o) /\ (req[w].order = {o} => Trusted(w, o))
    BY DEF Links, LinkAt
  <2>1. ASSUME order'[o].quantityKg = order[o].quantityKg,
               order'[o].status \in LIVE => order[o].status \in LIVE
        PROVE  LiveKg(order'[o]) <= LiveKg(order[o])
    BY <1>0, <2>1 DEF LiveKg
  <2>2. CASE Arrive(w, o)
    BY <1>1, <2>2, ArriveDoes
  <2>3. CASE ConfirmClaim(w, o)
    BY <2>1, <2>3, ClaimDoes DEF Row, LIVE
  <2>4. CASE ConfirmLate(w, o) \/ CloseLate(w, o) \/ Crash(w, o)
             \/ \E kg \in WeighedKg(w, o): LoadRefused(w, o, kg)
    BY <1>1, <2>4, QuitDoes DEF Quits
  <2>5. CASE ConfirmLink(w, o)
    BY <2>1, <2>5, LinkDoes DEF Row
  <2>6. CASE ConfirmRevert(w, o)
    BY <2>1, <2>6, RevertDoes DEF Row, LIVE
  <2>7. CASE Approve(w, o)
    BY <2>1, <2>7, ApproveDoes DEF Row
  <2>8. CASE CompleteOrder(w, o)
    BY <2>1, <2>8, CompleteDoes DEF Row, LIVE
  <2>9. ASSUME NEW kg \in WeighedKg(w, o), LoadTruck(w, o, kg)
        PROVE  LiveKg(order'[o]) <= LiveKg(order[o])
    BY <2>1, <2>9, LoadDoes DEF Row, LIVE, Loadable
  <2>10. CASE order' = order
    BY <1>1, <2>10
  <2>11. CASE CloseShort(w, o)
    <3>1. /\ Turn(w, o) /\ req[w].step = "close" /\ order[o].status = "PARTIALLY_RELEASED"
          /\ Row(o, "RELEASED", req[w].loadedKg, order[o].sale)
      BY <2>11, CloseDoes
    <3>2. req[w].quantityKg = order[o].quantityKg /\ req[w].loadedKg <= req[w].quantityKg
      BY <2>0, <3>1 DEF Trusted, Turn, NeverClosesUpwards
    <3> QED BY <3>1, <3>2 DEF Row, LiveKg, LIVE
  <2> QED BY <1>3, <2>2, <2>3, <2>4, <2>5, <2>6, <2>7, <2>8, <2>9, <2>10, <2>11
          DEF Acts, Proceed, ConfirmCreate, ConfirmError, SetTruck, ReduceRead, ReduceWrite, Settle, orderVars
<1> QED BY <1>1, <1>2, <1>3, StepOn DEF Apart

LEMMA LotStep ==
  ASSUME TypeOK, TypeOK', Links, NeverClosesUpwards, IsFiniteSet(SalesMade), LotNotOversold, [Next]_vars
  PROVE  LotNotOversold'
<1> DEFINE f == LotKgs(order)
           g == LotKgs(order')
<1>1. /\ \A o \in Orders: order[o].quantityKg \in Nat /\ f[o] = LiveKg(order[o]) /\ f[o] \in Nat
      /\ \A o \in Orders: order'[o].quantityKg \in Nat /\ g[o] = LiveKg(order'[o]) /\ g[o] \in Nat
      /\ IsFiniteSet(Orders)
  <2>1. \A o \in Orders: order[o].quantityKg \in Nat
    BY DEF TypeOK, OrderRow
  <2>2. \A o \in Orders: order'[o].quantityKg \in Nat
    BY DEF TypeOK, OrderRow
  <2> QED BY <2>1, <2>2, OrdersAssumption DEF LotKgs, LiveKg
<1> HIDE DEF f, g
<1>2. SumFunctionOnSet(f, Orders) \in Nat /\ SumFunctionOnSet(g, Orders) \in Nat
  BY <1>1, SumNat
<1>3. /\ LotNotOversold <=> SumFunctionOnSet(f, Orders) <= LotKg
      /\ LotNotOversold' <=> SumFunctionOnSet(g, Orders) <= LotKg
  <2>1. LotNotOversold <=> SumFunctionOnSet(f, Orders) <= LotKg
    BY <1>1, LiveSum DEF f, LotNotOversold
  <2>2. LotNotOversold' <=> SumFunctionOnSet(g, Orders) <= LotKg
    BY <1>1, LiveSum DEF g, LotNotOversold
  <2> QED BY <2>1, <2>2
<1>4. ASSUME NEW o \in Orders, NEW kg \in OrderKgs, NEW t \in Carriage, Reserve(o, kg, t)
      PROVE  LotNotOversold'
  <2>1. /\ order[o].status = "NONE" /\ order'[o].status = "RESERVED" /\ order'[o].quantityKg = kg
        /\ kg <= lotRemainingKg
        /\ \A p \in Orders \ {o}: order'[p] = order[p]
    BY <1>4 DEF Reserve, TypeOK, OrderRow
  <2>2. f[o] = 0 /\ g[o] = kg /\ \A p \in Orders \ {o}: g[p] = f[p]
    BY <1>1, <2>1 DEF LiveKg, LIVE
  <2>3. SumFunctionOnSet(g, Orders) = SumFunctionOnSet(f, Orders) - f[o] + g[o]
    BY <1>1, <2>2, SumChange
  <2>4. lotRemainingKg \in Int /\ lotRemainingKg <= LotKg - SumFunctionOnSet(f, Orders)
    BY RemainingIs DEF f
  <2>5. kg \in Nat /\ LotKg \in Nat
    BY KgAssumption
  <2> QED BY <1>2, <1>3, <2>1, <2>2, <2>3, <2>4, <2>5
<1>5. CASE \A o \in Orders, kg \in OrderKgs, t \in Carriage: ~Reserve(o, kg, t)
  <2>1. \A o \in Orders: g[o] <= f[o]
    BY <1>1, <1>5, CountsNoMore
  <2>2. SumFunctionOnSet(g, Orders) <= SumFunctionOnSet(f, Orders)
    BY <1>1, <2>1, SumMonotone
  <2> QED BY <1>2, <1>3, <2>2, KgAssumption
<1> QED BY <1>4, <1>5

\* LotNotOversold (run sale_orders_stock): the live orders of a lot never add up to more than it
\* weighs, although a short close writes a weight it read before it took the lock.
THEOREM LotStaysWithin == Spec => []LotNotOversold
<1> DEFINE Lot == IsFiniteSet(SalesMade) /\ LotNotOversold
<1>1. Init => Lot
  <2> SUFFICES ASSUME Init PROVE Lot
    OBVIOUS
  <2>1. SalesMade = {}
    BY DEF Init, SalesMade
  <2>2. TypeOK /\ \A o \in Orders: LotKgs(order)[o] = 0
    BY InitHolds DEF Init, LotKgs, LiveKg, LIVE, StockInvariant
  <2>3. SumFunctionOnSet(LotKgs(order), Orders) = 0
    BY <2>2, SumOfZeros, OrdersAssumption
  <2> QED BY <2>1, <2>2, <2>3, LotIs, FS_EmptySet, KgAssumption
<1>2. LinkInvariant /\ LinkInvariant' /\ Lot /\ [Next]_vars => Lot'
  <2> SUFFICES ASSUME LinkInvariant, LinkInvariant', Lot, [Next]_vars PROVE Lot'
    OBVIOUS
  <2>1. TypeOK /\ Links /\ NeverClosesUpwards /\ TypeOK'
    BY LinkFacts DEF LinkInvariant, StockInvariant
  <2> QED BY <2>1, LotStep, SalesStayFinite
<1>3. Lot => LotNotOversold
  OBVIOUS
<1> HIDE DEF Lot
<1> QED BY LinkInit, LinkNext, <1>1, <1>2, <1>3, PTL DEF Spec

-----------------------------------------------------------------------------
(* Orders on which requests never overlapped: what a request read is still so when it acts. *)

\* Every truck has been received and the money is in.
Received(o) ==
  /\ \A n \in DOMAIN trucks[o]: trucks[o][n] = "DELIVERED"
  /\ sale[order[o].sale].paid

StillReads(w, o) ==
  /\ req[w].step = "complete" => Received(o)
  /\ req[w].step = "truck" =>
       req[w].truck \in DOMAIN trucks[o] /\ trucks[o][req[w].truck] # "DELIVERED"
  /\ req[w].step \in {"reduce", "shrink", "close"} =>
       order[o].status = "PARTIALLY_RELEASED" /\ req[w].loadedKg < req[w].quantityKg
  /\ req[w].step = "shrink" => ~sale[order[o].sale].paid

\* While a short close runs between its two transactions the sale is ahead of its order.
ClosingNow(o) == \E w \in Workers: At(w, o, "close")
Billed(o) ==
  /\ \A w \in Workers: At(w, o, "close") => sale[order[o].sale].quantityKg = req[w].loadedKg
  /\ ~ClosingNow(o) => sale[order[o].sale].quantityKg = order[o].quantityKg

UnracedAt(o) ==
  o \notin raced =>
    /\ order[o].status = "COMPLETED" => Received(o)
    /\ \A w \in Workers: req[w].order = {o} => StillReads(w, o)
    /\ o \notin died /\ order[o].sale # NoSale => Billed(o)

\* The same, of an order that at most one worker serves.
BilledBy(w, o) ==
  sale[order[o].sale].quantityKg = IF At(w, o, "close") THEN req[w].loadedKg ELSE order[o].quantityKg
AloneAt(w, o) ==
  /\ \A v \in Workers: v # w => req[v].order # {o}
  /\ order[o].status = "COMPLETED" => Received(o)
  /\ req[w].order = {o} => StillReads(w, o)
  /\ o \notin died /\ order[o].sale # NoSale => BilledBy(w, o)

LEMMA AloneIs ==
  ASSUME NEW o \in Orders, NEW w \in Workers, \A v \in Workers: v # w => req[v].order # {o}
  PROVE  o \notin raced => (UnracedAt(o) <=> AloneAt(w, o))
BY DEF UnracedAt, AloneAt, Billed, BilledBy, ClosingNow, At

\* A worker that acts on an order nobody raced for is the only one on it, before and after.
LEMMA ActsAlone ==
  ASSUME TypeOK, Links, NEW o \in Orders, HoldAt(o), NEW w \in Workers, Acts(w, o), o \notin raced'
  PROVE  /\ o \notin raced
         /\ \A v \in Workers: v # w => req[v].order # {o} /\ req'[v].order # {o}
<1>1. o \notin raced /\ \A v \in Workers: v # w => req'[v] = req[v]
  BY ActsElsewhere, ActsWithin
<1>2. CASE Arrive(w, o)
  <2>1. ~Busy(o)
    BY <1>2, ArriveDoes
  <2> QED BY <1>1, <2>1 DEF Busy
<1>3. CASE ~Arrive(w, o)
  <2>1. req[w].order = {o}
    BY <1>3 DEF Acts, Proceed, ConfirmError, Crash, ConfirmClaim, ConfirmLate, ConfirmCreate, ConfirmLink,
       ConfirmRevert, Approve, LoadTruck, LoadRefused, SetTruck, CompleteOrder, ReduceRead, ReduceWrite,
       CloseShort, CloseLate, Settle, At
  <2> QED BY <1>1, <2>1, Alone
<1> QED BY <1>2, <1>3

LEMMA ApartUnraced ==
  ASSUME TypeOK, NEW o \in Orders, LinkAt(o), UnracedAt(o), Apart(o)
  PROVE  UnracedAt(o)'
<1> SUFFICES ASSUME o \notin raced' PROVE UnracedAt(o)'
  BY DEF UnracedAt
<1>1. /\ o \notin raced /\ (o \notin died' => o \notin died)
      /\ order'[o] = order[o] /\ trucks'[o] = trucks[o]
      /\ \A w \in Workers: req[w].order = {o} \/ req'[w].order = {o} => req'[w] = req[w]
  BY DEF Apart
<1>2. order[o].sale # NoSale => sale'[order[o].sale] = sale[order[o].sale]
  BY DEF LinkAt, Sold, Apart, TypeOK, OrderRow
<1>3. order[o].status = "COMPLETED" => order[o].sale # NoSale
  BY DEF LinkAt, Unsold
<1>4. ASSUME NEW w \in Workers, req'[w].order = {o} PROVE StillReads(w, o)'
  <2>1. req'[w] = req[w] /\ StillReads(w, o) /\ Trusted(w, o)
    BY <1>1, <1>4 DEF UnracedAt, LinkAt
  <2> QED BY <1>1, <1>2, <2>1 DEF StillReads, Trusted, Received
<1>5. order'[o].status = "COMPLETED" => Received(o)'
  BY <1>1, <1>2, <1>3 DEF UnracedAt, Received
<1>6. \A w \in Workers: At(w, o, "close")' <=> At(w, o, "close")
  BY <1>1 DEF At
<1>7. ASSUME o \notin died', order'[o].sale # NoSale PROVE Billed(o)'
  <2>1. Billed(o) /\ sale'[order[o].sale] = sale[order[o].sale]
    BY <1>1, <1>2, <1>7 DEF UnracedAt
  <2> QED BY <1>1, <1>6, <2>1 DEF Billed, ClosingNow, At
<1> QED BY <1>4, <1>5, <1>7 DEF UnracedAt

LEMMA ReserveWrites ==
  ASSUME TypeOK, NEW o \in Orders, NEW kg \in OrderKgs, NEW t \in Carriage, Reserve(o, kg, t)
  PROVE  /\ order[o].status = "NONE" /\ order'[o].status = "RESERVED" /\ order'[o].sale = order[o].sale
         /\ UNCHANGED <<sale, trucks, req, raced, died>>
BY DEF Reserve, TypeOK, OrderRow

\* The steps about an order that are not taken by a request.
LEMMA ReservationUnraced ==
  ASSUME TypeOK, NEW o \in Orders, LinkAt(o), UnracedAt(o),
         ReleaseReservation(o) \/ \E kg \in OrderKgs, t \in Carriage: Reserve(o, kg, t)
  PROVE  UnracedAt(o)'
<1>1. /\ order[o].status \in {"NONE", "RESERVED"} /\ order'[o].status \in {"RESERVED", "CANCELLED"}
      /\ order'[o].sale = order[o].sale
      /\ UNCHANGED <<sale, trucks, req, raced, died>>
  <2>1. CASE ReleaseReservation(o)
    BY <2>1 DEF ReleaseReservation, TypeOK, OrderRow
  <2>2. ASSUME NEW kg \in OrderKgs, NEW t \in Carriage, Reserve(o, kg, t)
        PROVE  /\ order[o].status = "NONE" /\ order'[o].status = "RESERVED"
               /\ order'[o].sale = order[o].sale
               /\ UNCHANGED <<sale, trucks, req, raced, died>>
    BY <2>2, ReserveWrites
  <2> QED BY <2>1, <2>2
<1>2. order[o].sale = NoSale
  BY <1>1 DEF LinkAt, Sold
<1>3. ASSUME o \notin raced, NEW w \in Workers, req[w].order = {o} PROVE StillReads(w, o)'
  <2>1. StillReads(w, o)
    BY <1>3 DEF UnracedAt
  <2> QED BY <1>1, <2>1 DEF StillReads, Received
<1> QED BY <1>1, <1>2, <1>3 DEF UnracedAt

\* A request that ends leaves the tables to say what they said.
LEMMA EndsAlone ==
  ASSUME TypeOK, NEW w \in Workers, NEW o \in Orders, AloneAt(w, o), req'[w].order = {},
         \A v \in Workers: v # w => req'[v].order # {o},
         sale' = sale, order'[o].sale = order[o].sale, order'[o].quantityKg = order[o].quantityKg,
         o \notin died' => o \notin died /\ ~At(w, o, "close"),
         order'[o].status = "COMPLETED" => Received(o)'
  PROVE  AloneAt(w, o)'
BY DEF AloneAt, BilledBy, At

LEMMA AloneArrives ==
  ASSUME TypeOK, Links, NEW w \in Workers, NEW o \in Orders, AloneAt(w, o), Arrive(w, o),
         \A v \in Workers: v # w => req'[v].order # {o}
  PROVE  AloneAt(w, o)'
<1>1. /\ req[w].order = {} /\ req'[w].order = {o} /\ Found(w, o, req'[w])
      /\ UNCHANGED <<order, sale, loadedKg, trucks, died>>
  BY ArriveDoes
<1>2. StillReads(w, o)'
  BY <1>1 DEF StillReads, Found, Received
<1>3. ~At(w, o, "close") /\ ~At(w, o, "close")'
  BY <1>1 DEF At, Found
<1> QED BY <1>1, <1>2, <1>3 DEF AloneAt, Received, BilledBy

\* Until the sale is linked there is nothing to complete and nothing to bill.
LEMMA AloneConfirms ==
  ASSUME TypeOK, Links, NEW w \in Workers, NEW o \in Orders, AloneAt(w, o),
         \A v \in Workers: v # w => req'[v].order # {o},
         \/ ConfirmClaim(w, o) \/ ConfirmLink(w, o) \/ ConfirmError(w, o) \/ ConfirmRevert(w, o)
         \/ \E s \in Sales: ConfirmCreate(w, o, s)
  PROVE  AloneAt(w, o)'
<1>0. LinkAt(o) /\ (req[w].order = {o} => Trusted(w, o))
  BY DEF Links, LinkAt
<1>1. ASSUME order'[o].status # "COMPLETED", order'[o].sale = NoSale, Moved(w, o, "create")
             \/ Moved(w, o, "link") \/ Moved(w, o, "revert") \/ Done(w)
      PROVE  AloneAt(w, o)'
  BY <1>1 DEF AloneAt, Moved, Done, StillReads
<1>2. CASE ConfirmClaim(w, o)
  <2>1. /\ Moved(w, o, "create") /\ order[o].status = "RESERVED"
        /\ order'[o].status = "CONFIRMED" /\ order'[o].sale = order[o].sale
    BY <1>2, ClaimDoes DEF Row
  <2> QED BY <1>0, <1>1, <2>1 DEF LinkAt, Sold
<1>3. ASSUME NEW s \in Sales, ConfirmCreate(w, o, s) PROVE AloneAt(w, o)'
  <2>1. Turn(w, o) /\ Moved(w, o, "link") /\ req[w].step = "create" /\ order' = order
    BY <1>3, CreateDoes
  <2> QED BY <1>0, <1>1, <2>1 DEF Trusted, Turn
<1>4. CASE ConfirmError(w, o)
  <2>1. Turn(w, o) /\ Moved(w, o, "revert") /\ req[w].step \in {"create", "link"} /\ order' = order
    BY <1>4, ErrorDoes
  <2> QED BY <1>0, <1>1, <2>1 DEF Trusted, Turn
<1>5. CASE ConfirmRevert(w, o)
  <2>1. Turn(w, o) /\ Done(w) /\ req[w].step = "revert"
    BY <1>5, RevertDoes
  <2>2. order[o].status = "CONFIRMED" /\ order[o].sale = NoSale
    BY <1>0, <2>1 DEF Trusted, Turn
  <2>3. order'[o].status = "RESERVED" /\ order'[o].sale = NoSale
    BY <1>5, <2>2, RevertDoes DEF Row
  <2> QED BY <1>1, <2>1, <2>3
<1>6. CASE ConfirmLink(w, o)
  <2>1. /\ Turn(w, o) /\ Done(w) /\ req[w].step = "link" /\ sale' = sale
        /\ order'[o].status = order[o].status /\ order'[o].quantityKg = order[o].quantityKg
        /\ order'[o].sale = req[w].sale
    BY <1>6, LinkDoes DEF Row
  <2>2. order[o].status = "CONFIRMED" /\ sale[req[w].sale].quantityKg = order[o].quantityKg
    BY <1>0, <2>1 DEF Trusted, Turn
  <2> QED BY <2>1, <2>2 DEF AloneAt, BilledBy, At, Done
<1> QED BY <1>2, <1>3, <1>4, <1>5, <1>6

\* Trucks leave and arrive, the order is completed.
LEMMA AloneReleases ==
  ASSUME TypeOK, Links, NEW w \in Workers, NEW o \in Orders, AloneAt(w, o),
         \A v \in Workers: v # w => req'[v].order # {o},
         \/ Approve(w, o) \/ SetTruck(w, o) \/ CompleteOrder(w, o)
         \/ \E kg \in WeighedKg(w, o): LoadTruck(w, o, kg)
  PROVE  AloneAt(w, o)'
<1>0. req[w].order = {o} => Trusted(w, o) /\ StillReads(w, o)
  BY DEF Links, LinkAt, AloneAt
<1>1. CASE Approve(w, o)
  <2>1. /\ Turn(w, o) /\ Done(w) /\ UNCHANGED <<sale, trucks, died>>
        /\ order'[o].status = order[o].status /\ order'[o].quantityKg = order[o].quantityKg
        /\ order'[o].sale = order[o].sale
    BY <1>1, ApproveDoes DEF Row
  <2>2. ~At(w, o, "close")
    BY <1>1 DEF Approve, At
  <2>3. order'[o].status = "COMPLETED" => Received(o)'
    BY <2>1 DEF AloneAt, Received
  <2> QED BY <2>1, <2>2, <2>3, EndsAlone DEF Done
<1>2. CASE SetTruck(w, o)
  <2>1. /\ Turn(w, o) /\ Done(w) /\ req[w].step = "truck" /\ UNCHANGED <<order, sale, died>>
    BY <1>2, TruckDoes
  <2>2. ~At(w, o, "close") /\ order[o].status # "COMPLETED"
    BY <1>0, <2>1 DEF At, AloneAt, StillReads, Received, Turn
  <2> QED BY <2>1, <2>2, EndsAlone DEF Done
<1>3. CASE CompleteOrder(w, o)
  <2>1. /\ Turn(w, o) /\ Done(w) /\ req[w].step = "complete" /\ UNCHANGED <<sale, trucks, died>>
        /\ order'[o].quantityKg = order[o].quantityKg /\ order'[o].sale = order[o].sale
    BY <1>3, CompleteDoes DEF Row
  <2>2. ~At(w, o, "close") /\ Received(o)
    BY <1>0, <2>1 DEF At, StillReads, Turn
  <2>3. Received(o)'
    BY <2>1, <2>2 DEF Received
  <2> QED BY <2>1, <2>2, <2>3, EndsAlone DEF Done
<1>4. ASSUME NEW kg \in WeighedKg(w, o), LoadTruck(w, o, kg) PROVE AloneAt(w, o)'
  <2>1. /\ Turn(w, o) /\ Done(w) /\ req[w].step = "load" /\ UNCHANGED <<sale, died>>
        /\ order'[o].status # "COMPLETED"
        /\ order'[o].quantityKg = order[o].quantityKg /\ order'[o].sale = order[o].sale
    BY <1>4, LoadDoes DEF Row
  <2>2. ~At(w, o, "close")
    BY <2>1 DEF At
  <2> QED BY <2>1, <2>2, EndsAlone DEF Done
<1> QED BY <1>1, <1>2, <1>3, <1>4

\* A request that gives up has not shrunk the sale, unless its process died.
LEMMA AloneQuits ==
  ASSUME TypeOK, Links, NEW w \in Workers, NEW o \in Orders, AloneAt(w, o),
         \A v \in Workers: v # w => req'[v].order # {o},
         \/ ConfirmLate(w, o) \/ CloseLate(w, o) \/ Crash(w, o)
         \/ \E kg \in WeighedKg(w, o): LoadRefused(w, o, kg)
  PROVE  AloneAt(w, o)'
<1>1. Quits(w, o)
  BY QuitDoes
<1>2. o \notin died' => o \notin died /\ ~At(w, o, "close")
  <2>1. CASE ConfirmLate(w, o) \/ \E kg \in WeighedKg(w, o): LoadRefused(w, o, kg)
    BY <1>1, <2>1 DEF ConfirmLate, LoadRefused, At, Quits
  <2>2. CASE CloseLate(w, o)
    BY <2>2 DEF CloseLate, At, AloneAt, StillReads
  <2>3. CASE Crash(w, o)
    BY <2>3 DEF Crash
  <2> QED BY <2>1, <2>2, <2>3
<1>3. order'[o].status = "COMPLETED" => Received(o)'
  BY <1>1 DEF Quits, AloneAt, Received
<1> QED BY <1>1, <1>2, <1>3, EndsAlone DEF Quits, Done

\* The short close: the sale follows what was loaded first, the order right after.
LEMMA AloneCloses ==
  ASSUME TypeOK, Links, NEW w \in Workers, NEW o \in Orders, HoldAt(o), o \notin raced, AloneAt(w, o),
         \A v \in Workers: v # w => req'[v].order # {o},
         ReduceRead(w, o) \/ ReduceWrite(w, o) \/ CloseShort(w, o) \/ Settle(w, o)
  PROVE  AloneAt(w, o)'
<1>0. /\ LinkAt(o) /\ (req[w].order = {o} => Trusted(w, o) /\ StillReads(w, o))
      /\ order[o].sale \in Sales \union {NoSale} /\ order[o].quantityKg \in Nat /\ req[w].loadedKg \in Nat
  BY Columns DEF Links, LinkAt, AloneAt
<1>1. CASE ReduceRead(w, o)
  <2>1. At(w, o, "reduce")
    BY <1>1 DEF ReduceRead
  <2>2. /\ order[o].sale # NoSale /\ req[w].sale = order[o].sale /\ order[o].status = "PARTIALLY_RELEASED"
        /\ req[w].quantityKg = order[o].quantityKg /\ req[w].loadedKg < req[w].quantityKg
    BY <1>0, <2>1 DEF At, Trusted, StillReads
  <2>3. CASE Quits(w, o)
    BY <2>1, <2>2, <2>3, EndsAlone DEF Quits, Done, At
  <2>4. CASE ~Quits(w, o)
    <3>1. /\ req'[w].sale = req[w].sale
          /\ UNCHANGED <<order, sale, trucks, died>>
          /\ \/ Moved(w, o, "close") /\ req[w].loadedKg >= sale[req[w].sale].quantityKg
             \/ Moved(w, o, "shrink") /\ ~sale[req[w].sale].paid
      BY <1>1, <2>4, ReduceReadDoes
    <3>2. StillReads(w, o)'
      BY <2>2, <3>1 DEF StillReads, Moved
    <3>3. o \notin died => Moved(w, o, "shrink") /\ BilledBy(w, o)
      <4>1. o \notin died => sale[order[o].sale].quantityKg = order[o].quantityKg /\ BilledBy(w, o)
        BY <2>1, <2>2 DEF AloneAt, BilledBy, At
      <4> QED BY <1>0, <2>2, <3>1, <4>1
    <3>4. o \notin died => BilledBy(w, o)'
      BY <2>1, <3>1, <3>3 DEF BilledBy, At, Moved
    <3> QED BY <2>2, <3>1, <3>2, <3>4 DEF AloneAt
  <2> QED BY <2>3, <2>4
<1>2. CASE ReduceWrite(w, o)
  <2>1. /\ Turn(w, o) /\ Moved(w, o, "close") /\ req[w].step = "shrink"
        /\ req[w].sale \in Sales => sale'[req[w].sale].quantityKg = req[w].loadedKg
        /\ UNCHANGED <<order, died>>
    BY <1>2, ReduceWriteDoes
  <2>2. /\ order[o].sale # NoSale /\ req[w].sale = order[o].sale /\ order[o].status = "PARTIALLY_RELEASED"
        /\ req[w].loadedKg < req[w].quantityKg
    BY <1>0, <2>1 DEF Turn, Trusted, StillReads
  <2>3. StillReads(w, o)' /\ BilledBy(w, o)'
    BY <1>0, <2>1, <2>2 DEF StillReads, Moved, BilledBy, At
  <2> QED BY <2>1, <2>2, <2>3 DEF AloneAt
<1>3. CASE CloseShort(w, o)
  <2>1. /\ Turn(w, o) /\ Done(w) /\ req[w].step = "close" /\ UNCHANGED <<sale, died>>
        /\ order'[o].status = "RELEASED" /\ order'[o].quantityKg = req[w].loadedKg
        /\ order'[o].sale = order[o].sale
    BY <1>3, CloseDoes DEF Row
  <2>2. o \notin died /\ order[o].sale # NoSale => sale[order[o].sale].quantityKg = req[w].loadedKg
    BY <2>1 DEF AloneAt, BilledBy, At, Turn
  <2> QED BY <2>1, <2>2 DEF AloneAt, BilledBy, At, Done
<1>4. CASE Settle(w, o)
  <2>1. /\ Turn(w, o) /\ Done(w) /\ req[w].step = "settle"
        /\ req[w].sale \in Sales =>
             /\ sale'[req[w].sale].quantityKg = sale[req[w].sale].quantityKg
             /\ sale'[req[w].sale].paid
        /\ \A x \in Sales: x # req[w].sale => sale'[x] = sale[x]
        /\ UNCHANGED <<order, trucks, died>>
    BY <1>4, SettleDoes
  <2>2. order[o].sale # NoSale =>
          /\ sale'[order[o].sale].quantityKg = sale[order[o].sale].quantityKg
          /\ sale[order[o].sale].paid => sale'[order[o].sale].paid
    BY <1>0, <2>1
  <2>3. order[o].status = "COMPLETED" => order[o].sale # NoSale
    BY <1>0 DEF LinkAt, Unsold
  <2>4. order'[o].status = "COMPLETED" => Received(o)'
    BY <2>1, <2>2, <2>3 DEF AloneAt, Received
  <2>5. o \notin died /\ order[o].sale # NoSale => BilledBy(w, o)'
    BY <2>1, <2>2 DEF AloneAt, BilledBy, At, Done
  <2> QED BY <2>1, <2>4, <2>5 DEF AloneAt, Done
<1> QED BY <1>1, <1>2, <1>3, <1>4

LEMMA UnracedStep ==
  ASSUME TypeOK, Links, [Next]_vars, NEW o \in Orders, HoldAt(o), UnracedAt(o)
  PROVE  UnracedAt(o)'
<1>0. LinkAt(o)
  BY DEF Links
<1>1. ASSUME NEW w \in Workers, Acts(w, o), o \notin raced' PROVE UnracedAt(o)'
  <2>1. o \notin raced /\ \A v \in Workers: v # w => req[v].order # {o} /\ req'[v].order # {o}
    BY <1>1, ActsAlone
  <2>2. AloneAt(w, o)
    BY <2>1, AloneIs
  <2>3. AloneAt(w, o)'
    BY <1>1, <2>1, <2>2, AloneArrives, AloneConfirms, AloneReleases, AloneQuits, AloneCloses DEF Acts, Proceed
  <2> QED BY <2>3 DEF UnracedAt, AloneAt, Billed, BilledBy, ClosingNow, At
<1>2. CASE o \in raced'
  BY <1>2 DEF UnracedAt
<1> QED BY <1>0, <1>1, <1>2, StepOn, ApartUnraced, ReservationUnraced

\* The invariant of orders on which requests never overlapped, and of the steps that rely on it.
UnracedInvariant == LinkInvariant /\ \A o \in Orders: UnracedAt(o)

LEMMA UnracedInit == Init => UnracedInvariant
<1> SUFFICES ASSUME Init, NEW o \in Orders PROVE UnracedAt(o)
  BY LinkInit DEF UnracedInvariant
<1>1. order[o].status = "NONE" /\ order[o].sale = NoSale /\ \A w \in Workers: req[w].order = {}
  BY DEF Init, NoRequest
<1> QED BY <1>1 DEF UnracedAt

LEMMA UnracedNext == UnracedInvariant /\ [Next]_vars => UnracedInvariant'
BY LinkNext, LinkFacts, UnracedStep DEF UnracedInvariant

\* CompletedMeansDelivered (run sale_orders_races): a completed order has been received from every
\* truck and paid, although complete read both before it claimed the order.
THEOREM CompletedAreDelivered == Spec => []CompletedMeansDelivered
<1>1. UnracedInvariant => CompletedMeansDelivered
  BY DEF UnracedInvariant, UnracedAt, Received, CompletedMeansDelivered
<1> QED BY UnracedInit, UnracedNext, <1>1, PTL DEF Spec

\* SaleMatchesOrder (run sale_orders_races): a sale says what its order says whenever no request is
\* on the order, although a short close writes the two in two transactions.
THEOREM SalesMatchOrders == Spec => []SaleMatchesOrder
<1>1. UnracedInvariant => SaleMatchesOrder
  BY DEF UnracedInvariant, UnracedAt, Billed, ClosingNow, At, Busy, SaleMatchesOrder
<1> QED BY UnracedInit, UnracedNext, <1>1, PTL DEF Spec
=============================================================================
