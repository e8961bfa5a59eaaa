------------------------- MODULE OpsDispatchProofs -------------------------
(* Theorems of OpsDispatch, for any orders, batches, allocations, loads, clerks and days. *)
EXTENDS OpsDispatch, FiniteSums

OrderRow == [status : {"INVOICED", "COMPLETED", "CANCELLED"},
             fulfil : OPEN_STATES \cup {"NOT_AUTHORIZED", "DISPATCHED"},
             sent : Nat, paid : BOOLEAN]
AllocRow == [order : Orders \cup {None}, batch : Batches \cup {None},
             kg : Nat, sent : Nat, freed : Nat]
LoadRow == [order : Orders \cup {None}, batch : Batches \cup {None}, kg : Nat,
            status : {"unused", "PREPARED", "RELEASED", "CANCELLED"}]
Request == [op : {"idle", "allocate", "free", "shortage", "close", "cancel", "revoke",
                  "prepare", "load", "release"},
            order : Orders \cup {None}, batch : Batches \cup {None},
            row : Allocations \cup Loads \cup {None}, kg : Nat, seen : Int, owed : Int]

AllocTable(rs) == rs \in [Allocations -> AllocRow]

\* Rows in use belong to an order and a batch.
RowsRefer ==
    /\ \A a \in Allocations :
          alloc[a] = NoAllocation \/ (alloc[a].order \in Orders /\ alloc[a].batch \in Batches)
    /\ \A d \in Loads :
          \/ load[d] = NoLoad
          \/ load[d].order \in Orders /\ load[d].batch \in Batches /\ load[d].status # "unused"

\* What a request is about.
Refers(r) ==
    /\ r.op = "idle" => r.order = None
    /\ r.op # "idle" => r.order \in Orders
    /\ r.op \in {"allocate", "free", "prepare", "load", "release"} => r.batch \in Batches
    /\ r.op = "free" =>
          /\ r.row \in Allocations /\ r.seen \in Nat
          /\ alloc[r.row].order = r.order /\ alloc[r.row].batch = r.batch
    /\ r.op = "release" =>
          /\ r.row \in Loads /\ load[r.row].status # "unused"
          /\ load[r.row].order = r.order /\ load[r.row].batch = r.batch

Shape == TypeOK /\ RowsRefer /\ \A t \in Clerks : Refers(tx[t])

\* Rows of an order and a batch, what is set aside by them and what is loaded.
RowsOf(rs, o, b) == {a \in Allocations : rs[a].order = o /\ rs[a].batch = b}
AsideOf(rs, o, b) == LeftIn(rs, RowsOf(rs, o, b))
KgIn(ls, ds) == SumFunctionOnSet([d \in Loads |-> ls[d].kg], ds)
LoadsOf(ls, o, b) ==
    {d \in Loads : ls[d].order = o /\ ls[d].batch = b /\ ls[d].status = "PREPARED"}
LoadedIn(ls, o, b) == KgIn(ls, LoadsOf(ls, o, b))

\* What a request has read is still so, as far as it decides by it.
Current(r) ==
    /\ r.op \in {"allocate", "release"} => order[r.order].status = "INVOICED"
    /\ r.op = "allocate" => r.kg <= Required[r.order] - order[r.order].sent - SetAside(alloc, r.order)
    /\ r.op = "free" =>
          /\ alloc[r.row].freed <= r.seen
          /\ r.seen - alloc[r.row].freed <= Left(alloc[r.row]) - LoadedIn(load, r.order, r.batch)
    /\ r.op \in {"cancel", "revoke"} => NothingLoaded(r.order)
    /\ r.op = "prepare" => r.seen = AsideOf(alloc, r.order, r.batch)
    /\ r.op = "load" => r.kg <= AsideOf(alloc, r.order, r.batch) - LoadedIn(load, r.order, r.batch)

LEMMA SumsAre ==
  ASSUME NEW o, NEW b
  PROVE  SetAsideOf(o, b) = AsideOf(alloc, o, b) /\ Loaded(o, b, "PREPARED") = LoadedIn(load, o, b)
BY DEF SetAsideOf, AsideOf, RowsOf, Loaded, LoadedIn, LoadsOf, KgOf, KgIn

-----------------------------------------------------------------------------
(* Sums *)

LEMMA LeftInt ==
  ASSUME NEW rs, AllocTable(rs), NEW as \in SUBSET Allocations
  PROVE  LeftIn(rs, as) \in Int
<1> DEFINE f == [a \in Allocations |-> Left(rs[a])]
<1>1. IsFiniteSet(as) /\ \A a \in as : f[a] \in Int
  <2>1. IsFiniteSet(as)
    BY StockAssumption, FS_Subset
  <2>2. \A a \in as : f[a] \in Int
    <3>1. ASSUME NEW r \in AllocRow PROVE Left(r) \in Int
      BY DEF AllocRow, Left
    <3>2. \A a \in as : rs[a] \in AllocRow
      BY DEF AllocTable
    <3> QED BY <3>1, <3>2
  <2> QED BY <2>1, <2>2
<1> HIDE DEF f
<1>2. SumFunctionOnSet(f, as) \in Int
  BY <1>1, SumInt
<1> QED BY <1>2 DEF LeftIn, f

LEMMA KgNat == ASSUME TypeOK, NEW ds \in SUBSET Loads PROVE KgOf(ds) \in Nat
<1> DEFINE f == [d \in Loads |-> load[d].kg]
<1>1. IsFiniteSet(ds)
  BY StockAssumption, FS_Subset
<1>2. \A d \in ds : f[d] \in Nat
  BY DEF TypeOK
<1> HIDE DEF f
<1>3. SumFunctionOnSet(f, ds) \in Nat
  BY <1>1, <1>2, SumNat
<1> QED BY <1>3 DEF KgOf, f

LEMMA Amounts ==
  ASSUME TypeOK
  PROVE  /\ \A o \in Orders : SetAside(alloc, o) \in Int
         /\ \A o, b : SetAsideOf(o, b) \in Int
         /\ \A b : Reserved(b) \in Int
         /\ \A o, b, s : Loaded(o, b, s) \in Nat
         /\ \A o : Prepared(o) \in Nat
<1>1. AllocTable(alloc)
  BY DEF TypeOK, AllocTable, AllocRow
<1>2. \A o \in Orders : SetAside(alloc, o) \in Int
  BY <1>1, LeftInt DEF SetAside
<1>3. \A o, b : SetAsideOf(o, b) \in Int
  BY <1>1, LeftInt DEF SetAsideOf
<1>4. \A b : Reserved(b) \in Int
  BY <1>1, LeftInt DEF Reserved
<1>5. \A o, b, s : Loaded(o, b, s) \in Nat
  BY KgNat DEF Loaded
<1>6. \A o : Prepared(o) \in Nat
  BY KgNat DEF Prepared
<1> QED BY <1>2, <1>3, <1>4, <1>5, <1>6

-----------------------------------------------------------------------------
(* Requests begin *)

Asked(t, r) ==
    /\ r \in Request /\ r.op # "idle" /\ Refers(r) /\ Current(r)
    /\ tx[t] = Idle /\ tx' = [tx EXCEPT ![t] = r]
    /\ raced' = IF \E u \in Clerks : tx[u].order = r.order THEN raced \cup {r.order} ELSE raced
    /\ UNCHANGED <<rows, day, short, paidLate>>

LEMMA BeginAsks ==
  ASSUME NEW t, NEW op, NEW o, NEW b, NEW row, NEW kg, NEW seen, NEW owed,
         Begin(t, op, o, b, row, kg, seen, owed),
         NEW r, r = [op |-> op, order |-> o, batch |-> b, row |-> row, kg |-> kg, seen |-> seen,
                     owed |-> owed],
         r \in Request, r.op # "idle", Refers(r), Current(r)
  PROVE  Asked(t, r)
BY DEF Begin, Asked

LEMMA WarehouseAsks ==
  ASSUME Shape, NEW t \in Clerks, NEW o \in Orders, NEW b \in Batches,
         Allocate(t, o, b) \/ AllocateNothing(t, o, b) \/ Prepare(t, o, b)
  PROVE  \E r : Asked(t, r)
<1>0. TypeOK
  BY DEF Shape
<1>1. /\ Required[o] \in Nat /\ order[o].sent \in Nat
      /\ SetAside(alloc, o) \in Int /\ SetAsideOf(o, b) \in Int
  BY <1>0, Amounts, StockAssumption DEF TypeOK
<1>2. ASSUME Allocate(t, o, b) PROVE \E r : Asked(t, r)
  <2>1. PICK kg \in 1 .. Required[o] - order[o].sent - SetAside(alloc, o) :
           Begin(t, "allocate", o, b, None, kg, 0, 0)
    BY <1>2 DEF Allocate
  <2> DEFINE r == [op |-> "allocate", order |-> o, batch |-> b, row |-> None, kg |-> kg,
                   seen |-> 0, owed |-> 0]
  <2>2. r \in Request /\ r.op # "idle"
    BY <1>1 DEF Request
  <2>3. Refers(r) /\ Current(r)
    BY <1>1, <1>2 DEF Refers, Current, Allocate, WithWarehouse
  <2> QED BY <2>1, <2>2, <2>3, BeginAsks
<1>3. ASSUME AllocateNothing(t, o, b) PROVE \E r : Asked(t, r)
  <2>1. Begin(t, "allocate", o, b, None, 0, 0, 0)
    BY <1>3 DEF AllocateNothing
  <2> DEFINE r == [op |-> "allocate", order |-> o, batch |-> b, row |-> None, kg |-> 0,
                   seen |-> 0, owed |-> 0]
  <2>2. r \in Request /\ r.op # "idle"
    BY DEF Request
  <2>3. Refers(r) /\ Current(r)
    BY <1>1, <1>3 DEF Refers, Current, AllocateNothing, WithWarehouse
  <2> QED BY <2>1, <2>2, <2>3, BeginAsks
<1>4. ASSUME Prepare(t, o, b) PROVE \E r : Asked(t, r)
  <2>1. PICK kg \in 1 .. SetAsideOf(o, b) :
           Begin(t, "prepare", o, b, None, kg, SetAsideOf(o, b), Required[o] - order[o].sent)
    BY <1>4 DEF Prepare
  <2> DEFINE r == [op |-> "prepare", order |-> o, batch |-> b, row |-> None, kg |-> kg,
                   seen |-> SetAsideOf(o, b), owed |-> Required[o] - order[o].sent]
  <2>2. r \in Request /\ r.op # "idle"
    BY <1>1 DEF Request
  <2>3. Refers(r) /\ Current(r)
    BY SumsAre DEF Refers, Current
  <2> QED BY <2>1, <2>2, <2>3, BeginAsks
<1> QED BY <1>2, <1>3, <1>4

LEMMA ShortageAsks ==
  ASSUME Shape, NEW t \in Clerks, NEW o \in Orders, ReportShortage(t, o)
  PROVE  \E r : Asked(t, r)
<1> DEFINE r == [op |-> "shortage", order |-> o, batch |-> None, row |-> None, kg |-> 0,
                 seen |-> 0, owed |-> 0]
<1>1. Begin(t, "shortage", o, None, None, 0, 0, 0)
  BY DEF ReportShortage
<1>2. r \in Request /\ r.op # "idle"
  BY DEF Request
<1>3. Refers(r) /\ Current(r)
  BY DEF Refers, Current
<1> QED BY <1>1, <1>2, <1>3, BeginAsks

LEMMA OfficeAsks ==
  ASSUME Shape, NEW t \in Clerks, NEW o \in Orders,
         CloseShort(t, o) \/ CancelOrder(t, o) \/ RevokeAuthorization(t, o)
  PROVE  \E r : Asked(t, r)
<1>1. ASSUME NEW op \in {"close", "cancel", "revoke"}, op # "close" => NothingLoaded(o),
             Begin(t, op, o, None, None, 0, 0, 0)
      PROVE  \E r : Asked(t, r)
  <2> DEFINE r == [op |-> op, order |-> o, batch |-> None, row |-> None, kg |-> 0,
                   seen |-> 0, owed |-> 0]
  <2>1. r \in Request /\ r.op # "idle"
    BY DEF Request
  <2>2. Refers(r) /\ Current(r)
    BY <1>1 DEF Refers, Current
  <2> QED BY <1>1, <2>1, <2>2, BeginAsks
<1> QED BY <1>1 DEF CloseShort, CancelOrder, RevokeAuthorization

LEMMA FreeAsks ==
  ASSUME Shape, NEW t \in Clerks, NEW a \in Allocations, ReleaseAllocation(t, a)
  PROVE  \E r : Asked(t, r)
<1> DEFINE free == Left(alloc[a]) - Loaded(alloc[a].order, alloc[a].batch, "PREPARED")
           r == [op |-> "free", order |-> alloc[a].order, batch |-> alloc[a].batch, row |-> a,
                 kg |-> 0, seen |-> alloc[a].freed + free, owed |-> 0]
<1>0. TypeOK /\ RowsRefer
  BY DEF Shape
<1>1. /\ alloc[a].order \in Orders /\ alloc[a].batch \in Batches /\ free > 0
      /\ Begin(t, "free", alloc[a].order, alloc[a].batch, a, 0, alloc[a].freed + free, 0)
  BY <1>0 DEF ReleaseAllocation, RowsRefer
<1>2. free \in Int /\ alloc[a].freed \in Nat
  <2>1. Loaded(alloc[a].order, alloc[a].batch, "PREPARED") \in Nat
    BY <1>0, Amounts
  <2>2. Left(alloc[a]) \in Int /\ alloc[a].freed \in Nat
    BY <1>0 DEF TypeOK, Left
  <2> QED BY <2>1, <2>2
<1>3. alloc[a].freed + free \in Nat /\ alloc[a].freed <= alloc[a].freed + free
      /\ (alloc[a].freed + free) - alloc[a].freed = free
  BY <1>1, <1>2
<1>4. r \in Request /\ r.op # "idle"
  BY <1>1, <1>3 DEF Request
<1>5. Refers(r)
  BY <1>1, <1>3 DEF Refers
<1>6. Current(r)
  BY <1>2, <1>3, SumsAre DEF Current
<1> QED BY <1>1, <1>4, <1>5, <1>6, BeginAsks

LEMMA ReleaseAsks ==
  ASSUME Shape, NEW t \in Clerks, NEW d \in Loads, Release(t, d)
  PROVE  \E r : Asked(t, r)
<1> DEFINE r == [op |-> "release", order |-> load[d].order, batch |-> load[d].batch, row |-> d,
                 kg |-> 0, seen |-> 0, owed |-> 0]
<1>1. load[d].order \in Orders /\ load[d].batch \in Batches /\ load[d].status = "PREPARED"
  BY DEF Shape, RowsRefer, Release, NoLoad
<1>2. r \in Request /\ r.op # "idle"
  BY <1>1 DEF Request
<1>3. Refers(r) /\ Current(r)
  BY <1>1 DEF Refers, Current, Release, WithWarehouse
<1>4. Begin(t, "release", load[d].order, load[d].batch, d, 0, 0, 0)
  BY DEF Release
<1> QED BY <1>2, <1>3, <1>4, BeginAsks

-----------------------------------------------------------------------------
(* Rows and requests keep their shape *)

\* Rows in use stay with their order and batch.
KeepsRows ==
    /\ \A a \in Allocations : alloc[a].order \in Orders =>
          alloc'[a].order = alloc[a].order /\ alloc'[a].batch = alloc[a].batch
    /\ \A d \in Loads : load[d].status # "unused" =>
          /\ load'[d].order = load[d].order /\ load'[d].batch = load[d].batch
          /\ load'[d].status # "unused"

LEMMA StillRefer ==
  ASSUME Shape, KeepsRows, \A t \in Clerks : Refers(tx'[t])
  PROVE  \A t \in Clerks : Refers(tx[t])'
<1> SUFFICES ASSUME NEW t \in Clerks PROVE Refers(tx[t])'
  OBVIOUS
<1> DEFINE r == tx'[t]
<1>1. Refers(r)
  OBVIOUS
<1>2. r.op = "free" => alloc'[r.row].order = r.order /\ alloc'[r.row].batch = r.batch
  BY <1>1 DEF Refers, KeepsRows
<1>3. r.op = "release" => /\ load'[r.row].order = r.order /\ load'[r.row].batch = r.batch
                          /\ load'[r.row].status # "unused"
  BY <1>1 DEF Refers, KeepsRows
<1> QED BY <1>1, <1>2, <1>3 DEF Refers

LEMMA IdleRefers == Idle \in Request /\ Refers(Idle) /\ Idle.order = None
BY DEF Idle, Request, Refers

LEMMA EndTypes ==
  ASSUME Shape, NEW t \in Clerks, End(t)
  PROVE  /\ tx' \in [Clerks -> Request] /\ \A u \in Clerks : Refers(tx'[u])
         /\ tx'[t] = Idle /\ \A u \in Clerks \ {t} : tx'[u] = tx[u]
<1>1. tx \in [Clerks -> Request] /\ \A u \in Clerks : Refers(tx[u])
  BY DEF Shape, TypeOK, Request
<1> QED BY <1>1, IdleRefers DEF End

LEMMA AskedShape == ASSUME Shape, NEW t \in Clerks, NEW r, Asked(t, r) PROVE Shape'
<1>1. TypeOK'
  <2>1. tx' \in [Clerks -> Request] /\ raced' \subseteq Orders
    <3>1. tx \in [Clerks -> Request] /\ raced \subseteq Orders /\ r \in Request /\ r.order \in Orders
      BY DEF Shape, TypeOK, Request, Asked, Refers
    <3> QED BY <3>1 DEF Asked
  <2> QED BY <2>1 DEF Shape, TypeOK, Asked, rows, Request
<1>2. \A u \in Clerks : Refers(tx'[u])
  <2>1. \A u \in Clerks : tx'[u] = IF u = t THEN r ELSE tx[u]
    BY DEF Asked, Shape, TypeOK
  <2> QED BY <2>1 DEF Asked, Shape
<1>3. KeepsRows /\ RowsRefer'
  BY DEF Asked, rows, KeepsRows, Shape, RowsRefer
<1> QED BY <1>1, <1>2, <1>3, StillRefer DEF Shape

\* An order's row is written over.
LEMMA OrderWritten ==
  ASSUME Shape, NEW o \in Orders, NEW row \in OrderRow, order' = [order EXCEPT ![o] = row]
  PROVE  order' \in [Orders -> OrderRow]
BY DEF Shape, TypeOK, OrderRow

LEMMA ShapeKept ==
  ASSUME Shape, AllocTable(alloc'), order' \in [Orders -> OrderRow], load' \in [Loads -> LoadRow],
         stock' \in [Batches -> Nat], tx' \in [Clerks -> Request], \A t \in Clerks : Refers(tx'[t]),
         KeepsRows, RowsRefer', day' = day, raced' = raced,
         short' \subseteq Orders, paidLate' \subseteq Orders
  PROVE  Shape'
<1>1. TypeOK'
  BY DEF Shape, TypeOK, AllocTable, AllocRow, OrderRow, LoadRow, Request
<1> QED BY <1>1, StillRefer DEF Shape

LEMMA ShapeTypes ==
  ASSUME Shape
  PROVE  /\ AllocTable(alloc) /\ order \in [Orders -> OrderRow] /\ load \in [Loads -> LoadRow]
         /\ stock \in [Batches -> Nat] /\ tx \in [Clerks -> Request]
         /\ short \subseteq Orders /\ paidLate \subseteq Orders /\ RowsRefer
BY DEF Shape, TypeOK, AllocTable, AllocRow, OrderRow, LoadRow, Request

LEMMA StatusOf ==
  ASSUME NEW o, NEW sent, NEW rs
  PROVE  Refreshed(o, sent, rs) \in OPEN_STATES \cup {"NOT_AUTHORIZED", "DISPATCHED"}
BY DEF Refreshed, StatusFor, OPEN_STATES

LEMMA FulfilWritten ==
  ASSUME Shape, NEW o \in Orders, NEW s \in OPEN_STATES \cup {"NOT_AUTHORIZED", "DISPATCHED"},
         order' = [order EXCEPT ![o].fulfil = s]
  PROVE  /\ order' \in [Orders -> OrderRow]
         /\ \A x \in Orders : order'[x].sent = order[x].sent /\ order'[x].status = order[x].status
                             /\ order'[x].paid = order[x].paid
BY ShapeTypes DEF OrderRow

LEMMA AllocationShape == ASSUME Shape, NEW t \in Clerks, WriteAllocation(t) PROVE Shape'
<1> DEFINE o == tx[t].order
           b == tx[t].batch
<1>0. /\ tx[t].op = "allocate" /\ End(t) /\ UNCHANGED <<load, stock, day, history>>
      /\ o \in Orders /\ b \in Batches /\ tx[t].kg \in Nat
  BY ShapeTypes DEF WriteAllocation, Shape, Refers, Request
<1>1. CASE order' = [order EXCEPT ![o].fulfil = Refreshed(o, order[o].sent, alloc)] /\ UNCHANGED alloc
  <2>1. order' \in [Orders -> OrderRow]
    BY <1>0, <1>1, StatusOf, FulfilWritten
  <2>2. KeepsRows /\ RowsRefer'
    BY <1>0, <1>1, ShapeTypes DEF KeepsRows, RowsRefer
  <2> QED BY <1>0, <1>1, <2>1, <2>2, ShapeTypes, ShapeKept, EndTypes DEF history
<1>2. CASE \E a \in Allocations :
              /\ alloc[a] = NoAllocation
              /\ alloc' = [alloc EXCEPT ![a] = [order |-> o, batch |-> b, kg |-> tx[t].kg,
                                               sent |-> 0, freed |-> 0]]
              /\ order' = [order EXCEPT ![o].fulfil = Refreshed(o, order[o].sent, alloc')]
  <2>1. PICK a \in Allocations :
           /\ alloc[a] = NoAllocation
           /\ alloc' = [alloc EXCEPT ![a] = [order |-> o, batch |-> b, kg |-> tx[t].kg,
                                            sent |-> 0, freed |-> 0]]
           /\ order' = [order EXCEPT ![o].fulfil = Refreshed(o, order[o].sent, alloc')]
    BY <1>2
  <2>2. order' \in [Orders -> OrderRow]
    BY <1>0, <2>1, StatusOf, FulfilWritten
  <2>3. AllocTable(alloc') /\ \A x \in Allocations \ {a} : alloc'[x] = alloc[x]
    BY <1>0, <2>1, ShapeTypes DEF AllocTable, AllocRow
  <2>4. alloc'[a].order = o /\ alloc'[a].batch = b /\ alloc[a].order \notin Orders
    BY <2>1, ShapeTypes, StockAssumption DEF AllocTable, NoAllocation
  <2>5. KeepsRows /\ RowsRefer'
    BY <1>0, <2>3, <2>4, ShapeTypes DEF KeepsRows, RowsRefer
  <2> QED BY <1>0, <2>2, <2>3, <2>5, ShapeTypes, ShapeKept, EndTypes DEF history
<1>3. CASE UNCHANGED <<alloc, order>>
  <2>1. KeepsRows /\ RowsRefer'
    BY <1>0, <1>3, ShapeTypes DEF KeepsRows, RowsRefer
  <2> QED BY <1>0, <1>3, <2>1, ShapeTypes, ShapeKept, EndTypes DEF history
<1> QED BY <1>1, <1>2, <1>3 DEF WriteAllocation

LEMMA FreedShape == ASSUME Shape, NEW t \in Clerks, WriteFreed(t) PROVE Shape'
<1> DEFINE o == tx[t].order
<1>0. /\ tx[t].op = "free" /\ End(t) /\ UNCHANGED <<load, stock, day, history>>
      /\ o \in Orders /\ tx[t].seen \in Nat /\ tx[t].row \in Allocations
      /\ alloc' = [alloc EXCEPT ![tx[t].row].freed = tx[t].seen]
      /\ order' = [order EXCEPT ![o].fulfil = Refreshed(o, order[o].sent, alloc')]
  BY DEF WriteFreed, Shape, Refers
<1>1. order' \in [Orders -> OrderRow]
  BY <1>0, StatusOf, FulfilWritten
<1>2. /\ AllocTable(alloc')
      /\ \A a \in Allocations : alloc'[a].order = alloc[a].order /\ alloc'[a].batch = alloc[a].batch
      /\ \A a \in Allocations \ {tx[t].row} : alloc'[a] = alloc[a]
  BY <1>0, ShapeTypes DEF AllocTable, AllocRow
<1>3. alloc[tx[t].row].order \in Orders /\ alloc[tx[t].row].batch \in Batches
  BY <1>0 DEF Shape, Refers
<1>4. KeepsRows /\ RowsRefer'
  BY <1>0, <1>2, <1>3, ShapeTypes DEF KeepsRows, RowsRefer
<1> QED BY <1>0, <1>1, <1>2, <1>4, ShapeTypes, ShapeKept, EndTypes DEF history

LEMMA ShortageShape == ASSUME Shape, NEW t \in Clerks, WriteShortage(t) PROVE Shape'
<1>0. /\ End(t) /\ tx[t].order \in Orders /\ UNCHANGED <<alloc, load, stock, day, history>>
      /\ order' = [order EXCEPT ![tx[t].order].fulfil = "SHORTAGE"]
  BY DEF WriteShortage, Shape, Refers
<1>1. order' \in [Orders -> OrderRow]
  BY <1>0, FulfilWritten DEF OPEN_STATES
<1>2. KeepsRows /\ RowsRefer'
  BY <1>0, ShapeTypes DEF KeepsRows, RowsRefer
<1> QED BY <1>0, <1>1, <1>2, ShapeTypes, ShapeKept, EndTypes DEF history

\* Freeing what an order has set aside gives its rows the same order and batch and no less freed.
LEMMA FreeAllRows ==
  ASSUME Shape, NEW o, alloc' = FreeAll(o)
  PROVE  /\ AllocTable(alloc')
         /\ \A a \in Allocations : alloc'[a].order = alloc[a].order /\ alloc'[a].batch = alloc[a].batch
         /\ \A a \in Allocations : alloc[a].order # o => alloc'[a] = alloc[a]
         /\ \A a \in Allocations : alloc[a].order = o =>
               Left(alloc'[a]) = IF Left(alloc[a]) > 0 THEN 0 ELSE Left(alloc[a])
<1>1. ASSUME NEW a \in Allocations
      PROVE  /\ alloc'[a] \in AllocRow
             /\ alloc'[a].order = alloc[a].order /\ alloc'[a].batch = alloc[a].batch
             /\ alloc[a].order # o => alloc'[a] = alloc[a]
             /\ alloc[a].order = o => Left(alloc'[a]) = IF Left(alloc[a]) > 0 THEN 0 ELSE Left(alloc[a])
  <2>1. alloc[a] \in AllocRow
    BY ShapeTypes DEF AllocTable
  <2>2. CASE alloc[a].order = o /\ Left(alloc[a]) > 0
    <3>1. alloc'[a] = [alloc[a] EXCEPT !.freed = @ + Left(alloc[a])]
      BY <2>2 DEF FreeAll
    <3>2. alloc[a].freed + Left(alloc[a]) \in Nat
      BY <2>1, <2>2 DEF AllocRow, Left
    <3> QED BY <2>1, <2>2, <3>1, <3>2 DEF AllocRow, Left
  <2>3. CASE ~(alloc[a].order = o /\ Left(alloc[a]) > 0)
    BY <2>1, <2>3 DEF FreeAll
  <2> QED BY <2>2, <2>3
<1>2. alloc' = [a \in Allocations |-> alloc'[a]]
  BY DEF FreeAll
<1> QED BY <1>1, <1>2 DEF AllocTable

LEMMA EndShape == ASSUME Shape, NEW t \in Clerks, WriteEnd(t) PROVE Shape'
<1> DEFINE o == tx[t].order
<1>0. /\ tx[t].op \in {"close", "cancel", "revoke"} /\ End(t) /\ o \in Orders
      /\ UNCHANGED <<load, stock, day, raced, paidLate>> /\ alloc' = FreeAll(o)
      /\ order' = [order EXCEPT ![o] = Ended(tx[t].op, @)]
      /\ short' = IF tx[t].op = "close" THEN short \cup {o} ELSE short
  BY DEF WriteEnd, Shape, Refers
<1>1. order' \in [Orders -> OrderRow]
  <2>1. order[o] \in OrderRow
    BY <1>0, ShapeTypes
  <2>2. Ended(tx[t].op, order[o]) \in OrderRow
    BY <1>0, <2>1 DEF Ended, OrderRow
  <2> QED BY <1>0, <2>2, OrderWritten
<1>2. KeepsRows /\ RowsRefer'
  BY <1>0, FreeAllRows, ShapeTypes, StockAssumption DEF KeepsRows, RowsRefer, NoAllocation
<1>3. short' \subseteq Orders
  BY <1>0, ShapeTypes
<1> QED BY <1>0, <1>1, <1>2, <1>3, FreeAllRows, ShapeTypes, ShapeKept, EndTypes

LEMMA CheckShape == ASSUME Shape, NEW t \in Clerks, CheckLoad(t) PROVE Shape'
<1>0. tx \in [Clerks -> Request] /\ UNCHANGED <<rows, day, history>> /\ tx[t].op = "prepare" /\ Refers(tx[t])
  BY ShapeTypes DEF CheckLoad, Shape
<1>1. tx' = [tx EXCEPT ![t] = [tx[t] EXCEPT !.op = "load"]] \/ tx' = [tx EXCEPT ![t] = Idle]
  BY DEF CheckLoad
<1>2. [tx[t] EXCEPT !.op = "load"] \in Request /\ Refers([tx[t] EXCEPT !.op = "load"])
  BY <1>0 DEF Request, Refers
<1>3. tx' \in [Clerks -> Request] /\ \A u \in Clerks : Refers(tx'[u])
  BY <1>0, <1>1, <1>2, IdleRefers DEF Shape
<1>4. KeepsRows /\ RowsRefer'
  BY <1>0, ShapeTypes DEF KeepsRows, RowsRefer, rows
<1> QED BY <1>0, <1>3, <1>4, ShapeTypes, ShapeKept DEF rows, history

LEMMA LoadShape == ASSUME Shape, NEW t \in Clerks, CreateLoad(t) PROVE Shape'
<1> DEFINE r == tx[t]
           row == [order |-> r.order, batch |-> r.batch, kg |-> r.kg, status |-> "PREPARED"]
<1>0. /\ End(t) /\ UNCHANGED <<order, alloc, stock, day, history>>
      /\ r.order \in Orders /\ r.batch \in Batches /\ r.kg \in Nat
  BY ShapeTypes DEF CreateLoad, Shape, Refers, Request
<1>1. PICK d \in Loads : load[d] = NoLoad /\ load' = [load EXCEPT ![d] = row]
  BY DEF CreateLoad
<1>2. row \in LoadRow /\ NoLoad.status = "unused"
  BY <1>0 DEF LoadRow, NoLoad
<1>3. load' \in [Loads -> LoadRow] /\ load'[d] = row /\ \A x \in Loads \ {d} : load'[x] = load[x]
  BY <1>1, <1>2, ShapeTypes
<1>4. KeepsRows /\ RowsRefer'
  BY <1>0, <1>1, <1>2, <1>3, ShapeTypes DEF KeepsRows, RowsRefer
<1> QED BY <1>0, <1>3, <1>4, ShapeTypes, ShapeKept, EndTypes DEF history

\* What a load of kg takes from the allocations of its order and batch.
Mine(o, b) ==
    {a \in Allocations : alloc[a].order = o /\ alloc[a].batch = b /\ Left(alloc[a]) > 0}
Owed(o, b, kg, a) == kg - LeftIn(alloc, {x \in Mine(o, b) : x < a})
Takes(o, b, kg) ==
    [a \in Allocations |->
        IF a \notin Mine(o, b) \/ Owed(o, b, kg, a) <= 0 THEN 0
        ELSE IF Owed(o, b, kg, a) < Left(alloc[a]) THEN Owed(o, b, kg, a) ELSE Left(alloc[a])]

LEMMA LeftOfRow == ASSUME NEW r \in AllocRow PROVE Left(r) \in Int
BY DEF AllocRow, Left

LEMMA TakesAmounts ==
  ASSUME AllocTable(alloc), NEW o, NEW b, NEW kg \in Int
  PROVE  /\ \A a \in Allocations :
               /\ Owed(o, b, kg, a) \in Int /\ Takes(o, b, kg)[a] \in Nat
               /\ a \notin Mine(o, b) => Takes(o, b, kg)[a] = 0
               /\ a \in Mine(o, b) => Takes(o, b, kg)[a] <= Left(alloc[a])
<1> SUFFICES ASSUME NEW a \in Allocations
             PROVE  /\ Owed(o, b, kg, a) \in Int /\ Takes(o, b, kg)[a] \in Nat
                    /\ a \notin Mine(o, b) => Takes(o, b, kg)[a] = 0
                    /\ a \in Mine(o, b) => Takes(o, b, kg)[a] <= Left(alloc[a])
  OBVIOUS
<1>1. Owed(o, b, kg, a) \in Int
  <2>1. LeftIn(alloc, {x \in Mine(o, b) : x < a}) \in Int
    <3>1. {x \in Mine(o, b) : x < a} \in SUBSET Allocations
      BY DEF Mine
    <3> QED BY <3>1, LeftInt
  <2> QED BY <2>1 DEF Owed
<1>2. Left(alloc[a]) \in Int
  BY LeftOfRow DEF AllocTable
<1>3. a \in Mine(o, b) => Left(alloc[a]) > 0
  BY DEF Mine
<1> QED BY <1>1, <1>2, <1>3 DEF Takes

LEMMA TakenRows ==
  ASSUME AllocTable(alloc), NEW o, NEW b, NEW kg \in Int, alloc' = Taken(o, b, kg)
  PROVE  /\ AllocTable(alloc')
         /\ \A a \in Allocations :
               /\ alloc'[a].order = alloc[a].order /\ alloc'[a].batch = alloc[a].batch
               /\ Left(alloc'[a]) = Left(alloc[a]) - Takes(o, b, kg)[a]
               /\ alloc[a].order # o => alloc'[a] = alloc[a]
<1>1. ASSUME NEW a \in Allocations
      PROVE  alloc'[a] = IF a \in Mine(o, b)
                         THEN [alloc[a] EXCEPT !.sent = @ + Takes(o, b, kg)[a]] ELSE alloc[a]
  <2>1. CASE a \in Mine(o, b)
    BY <2>1 DEF Taken, Takes, Owed, Mine
  <2>2. CASE a \notin Mine(o, b)
    BY <2>2 DEF Taken, Mine
  <2> QED BY <2>1, <2>2
<1>2. alloc' = [a \in Allocations |-> alloc'[a]]
  BY DEF Taken
<1>3. ASSUME NEW a \in Allocations
      PROVE  /\ alloc'[a] \in AllocRow
             /\ alloc'[a].order = alloc[a].order /\ alloc'[a].batch = alloc[a].batch
             /\ Left(alloc'[a]) = Left(alloc[a]) - Takes(o, b, kg)[a]
             /\ alloc[a].order # o => alloc'[a] = alloc[a]
  <2>1. alloc[a] \in AllocRow
    BY DEF AllocTable
  <2>2. Takes(o, b, kg)[a] \in Nat /\ (a \notin Mine(o, b) => Takes(o, b, kg)[a] = 0)
    BY TakesAmounts
  <2>3. CASE a \in Mine(o, b)
    <3> DEFINE n == Takes(o, b, kg)[a]
    <3>1. alloc'[a] = [alloc[a] EXCEPT !.sent = @ + n] /\ alloc[a].order = o
      BY <1>1, <2>3 DEF Mine
    <3>2. n \in Nat
      BY <2>2
    <3> HIDE DEF n
    <3>3. alloc'[a] \in AllocRow /\ Left(alloc'[a]) = Left(alloc[a]) - n
      BY <2>1, <3>1, <3>2 DEF AllocRow, Left
    <3> QED BY <2>1, <3>1, <3>3 DEF n, AllocRow
  <2>4. CASE a \notin Mine(o, b)
    <3>1. alloc'[a] = alloc[a] /\ Takes(o, b, kg)[a] = 0 /\ Left(alloc[a]) \in Int
      BY <1>1, <2>1, <2>2, <2>4, LeftOfRow
    <3> QED BY <2>1, <3>1
  <2> QED BY <2>3, <2>4
<1> QED BY <1>2, <1>3 DEF AllocTable

LEMMA ReleasedShape == ASSUME Shape, NEW t \in Clerks, WriteReleased(t) PROVE Shape'
<1> DEFINE d == tx[t].row
           o == tx[t].order
           b == tx[t].batch
           kg == load[d].kg
           sent == order[o].sent + kg
           state == Refreshed(o, sent, Taken(o, b, kg))
<1>0. /\ End(t) /\ UNCHANGED <<day, history>> /\ d \in Loads /\ load[d].status # "unused"
      /\ load[d].order = o /\ load[d].batch = b /\ o \in Orders /\ b \in Batches
      /\ kg \in Nat /\ order[o] \in OrderRow /\ stock[b] \in Nat
  BY ShapeTypes DEF WriteReleased, Shape, Refers, LoadRow
<1>1. CASE /\ Claims(d) /\ PhysicallyThere(b, kg)
           /\ load' = [load EXCEPT ![d].status = "RELEASED"] /\ stock' = [stock EXCEPT ![b] = @ - kg]
           /\ alloc' = Taken(o, b, kg)
           /\ order' = [order EXCEPT ![o] =
                 [order[o] EXCEPT !.sent = sent, !.fulfil = state,
                                  !.status = IF state = "DISPATCHED" /\ order[o].paid THEN "COMPLETED" ELSE @]]
  <2>1. /\ load' \in [Loads -> LoadRow] /\ stock' \in [Batches -> Nat]
    BY <1>0, <1>1, ShapeTypes DEF LoadRow, PhysicallyThere
  <2>2. order' \in [Orders -> OrderRow]
    <3>1. state \in OPEN_STATES \cup {"NOT_AUTHORIZED", "DISPATCHED"} /\ sent \in Nat
      BY <1>0, StatusOf DEF OrderRow
    <3> DEFINE row == [order[o] EXCEPT !.sent = sent, !.fulfil = state,
                          !.status = IF state = "DISPATCHED" /\ order[o].paid THEN "COMPLETED" ELSE @]
    <3>2. order' = [order EXCEPT ![o] = row]
      BY <1>1
    <3> HIDE DEF state, sent
    <3>3. row \in OrderRow
      BY <1>0, <3>1 DEF OrderRow
    <3> HIDE DEF row
    <3> QED BY <1>0, <3>2, <3>3, OrderWritten
  <2>3. /\ AllocTable(alloc')
        /\ \A a \in Allocations :
              /\ alloc'[a].order = alloc[a].order /\ alloc'[a].batch = alloc[a].batch
              /\ alloc[a].order # o => alloc'[a] = alloc[a]
    <3>1. kg \in Int
      BY <1>0
    <3> QED BY <1>1, <3>1, TakenRows, ShapeTypes
  <2>4. KeepsRows /\ RowsRefer'
    <3>1. \A x \in Loads : /\ load'[x].order = load[x].order /\ load'[x].batch = load[x].batch
                           /\ x # d => load'[x] = load[x]
                           /\ load'[x].status = IF x = d THEN "RELEASED" ELSE load[x].status
      BY <1>0, <1>1, ShapeTypes DEF LoadRow
    <3> HIDE DEF d, o, b
    <3> QED BY <1>0, <2>3, <3>1, ShapeTypes, StockAssumption DEF KeepsRows, RowsRefer, NoAllocation, NoLoad
  <2> HIDE DEF d, o, b
  <2> QED BY <1>0, <2>1, <2>2, <2>3, <2>4, ShapeTypes, ShapeKept, EndTypes DEF history
<1>2. CASE UNCHANGED <<load, stock, alloc, order>>
  <2>1. KeepsRows /\ RowsRefer'
    BY <1>2, ShapeTypes DEF KeepsRows, RowsRefer
  <2> QED BY <1>0, <1>2, <2>1, ShapeTypes, ShapeKept, EndTypes DEF history
<1> QED BY <1>1, <1>2 DEF WriteReleased

LEMMA AloneShape ==
  ASSUME Shape, (\E d \in Loads : CancelDispatch(d)) \/ (\E o \in Orders : Authorize(o) \/ PaymentConfirmed(o))
  PROVE  Shape'
<1>1. ASSUME NEW d \in Loads, CancelDispatch(d) PROVE Shape'
  <2>1. /\ load[d].status = "PREPARED" /\ load' = [load EXCEPT ![d].status = "CANCELLED"]
        /\ UNCHANGED <<order, alloc, stock, tx, day, history>>
    BY <1>1 DEF CancelDispatch
  <2>2. load' \in [Loads -> LoadRow]
    BY <2>1, ShapeTypes DEF LoadRow
  <2>3. \A x \in Loads : /\ load'[x].order = load[x].order /\ load'[x].batch = load[x].batch
                         /\ x # d => load'[x] = load[x]
                         /\ load'[x].status = IF x = d THEN "CANCELLED" ELSE load[x].status
    BY <2>1, ShapeTypes DEF LoadRow
  <2>4. KeepsRows /\ RowsRefer'
    BY <2>1, <2>3, ShapeTypes DEF KeepsRows, RowsRefer, NoLoad
  <2>5. \A u \in Clerks : Refers(tx'[u])
    BY <2>1 DEF Shape
  <2> QED BY <2>1, <2>2, <2>4, <2>5, ShapeTypes, ShapeKept DEF history
<1>2. ASSUME NEW o \in Orders, Authorize(o) \/ PaymentConfirmed(o) PROVE Shape'
  <2>1. UNCHANGED <<alloc, load, stock, tx, day, raced, short>>
    BY <1>2 DEF Authorize, PaymentConfirmed, history
  <2>2. order' \in [Orders -> OrderRow] /\ paidLate' \subseteq Orders
    <3>1. CASE Authorize(o)
      <4>1. order' = [order EXCEPT ![o].fulfil = "AUTHORIZED"] /\ paidLate' = paidLate
        BY <3>1 DEF Authorize, history
      <4> QED BY <4>1, FulfilWritten, ShapeTypes DEF OPEN_STATES
    <3>2. CASE PaymentConfirmed(o)
      <4>1. order' = [order EXCEPT ![o] = [order[o] EXCEPT !.paid = TRUE]] /\ order[o] \in OrderRow
        BY <3>2, ShapeTypes DEF PaymentConfirmed
      <4>2. [order[o] EXCEPT !.paid = TRUE] \in OrderRow
        BY <4>1 DEF OrderRow
      <4>3. order' \in [Orders -> OrderRow]
        BY <4>1, <4>2, OrderWritten
      <4>4. paidLate' \subseteq Orders
        BY <3>2, ShapeTypes DEF PaymentConfirmed
      <4> QED BY <4>3, <4>4
    <3> QED BY <1>2, <3>1, <3>2
  <2>3. KeepsRows /\ RowsRefer' /\ \A u \in Clerks : Refers(tx'[u])
    BY <2>1, ShapeTypes DEF KeepsRows, RowsRefer, Shape
  <2> QED BY <2>1, <2>2, <2>3, ShapeTypes, ShapeKept
<1> QED BY <1>1, <1>2

LEMMA ShapeInit == Init => Shape
<1> SUFFICES ASSUME Init PROVE Shape
  OBVIOUS
<1>1. NoAllocation \in AllocRow /\ NoLoad \in LoadRow /\ Idle \in Request
  BY IdleRefers DEF NoAllocation, AllocRow, NoLoad, LoadRow
<1>2. stock \in [Batches -> Nat]
  BY StockAssumption DEF Init
<1>3. TypeOK
  BY <1>1, <1>2 DEF Init, TypeOK, AllocRow, LoadRow, Request
<1> QED BY <1>3, IdleRefers DEF Init, Shape, RowsRefer

LEMMA NextAsks ==
  ASSUME Shape, Next
  PROVE  \/ \E t \in Clerks : \/ \E r : Asked(t, r)
                              \/ WriteAllocation(t) \/ WriteFreed(t) \/ WriteShortage(t) \/ WriteEnd(t)
                              \/ CheckLoad(t) \/ CreateLoad(t) \/ WriteReleased(t)
         \/ \E d \in Loads : CancelDispatch(d)
         \/ \E o \in Orders : Authorize(o) \/ PaymentConfirmed(o)
<1>1. ASSUME NEW t \in Clerks, Warehouse(t)
      PROVE  \/ \E r : Asked(t, r)
             \/ WriteAllocation(t) \/ WriteFreed(t) \/ WriteShortage(t)
             \/ CheckLoad(t) \/ CreateLoad(t) \/ WriteReleased(t)
  BY <1>1, WarehouseAsks, ShortageAsks, FreeAsks, ReleaseAsks DEF Warehouse
<1>2. ASSUME NEW t \in Clerks, Office(t) PROVE (\E r : Asked(t, r)) \/ WriteEnd(t)
  BY <1>2, OfficeAsks DEF Office
<1> QED BY <1>1, <1>2 DEF Next

LEMMA ShapeNext == ASSUME Shape, [Next]_vars PROVE Shape'
<1>1. CASE UNCHANGED vars
  BY <1>1 DEF vars, rows, history, Shape, TypeOK, RowsRefer, Refers
<1>2. CASE Next
  BY <1>2, NextAsks, AskedShape, AllocationShape, FreedShape, ShortageShape, EndShape, CheckShape,
     LoadShape, ReleasedShape, AloneShape
<1> QED BY <1>1, <1>2

\* TypeOK (run ops_dispatch): every amount stays a number of kilograms that is not negative, the
\* stock of a batch included, whatever requests cross.
THEOREM TypeCorrect == Spec => []TypeOK
<1>1. Shape => TypeOK
  BY DEF Shape
<1> QED BY ShapeInit, ShapeNext, <1>1, PTL DEF Spec

-----------------------------------------------------------------------------
(* What has left *)

LEMMA KgOfIs == ASSUME NEW ds PROVE KgOf(ds) = KgIn(load, ds)
BY DEF KgOf, KgIn

\* What one load does to a sum over loads.
LEMMA LoadChanges ==
  ASSUME NEW ls \in [Loads -> LoadRow], NEW ms \in [Loads -> LoadRow], NEW x \in Loads,
         \A y \in Loads \ {x} : ms[y] = ls[y],
         NEW T \in SUBSET Loads, NEW U \in SUBSET Loads, \A y \in Loads \ {x} : y \in T <=> y \in U
  PROVE  KgIn(ms, U) = KgIn(ls, T) - (IF x \in T THEN ls[x].kg ELSE 0) + (IF x \in U THEN ms[x].kg ELSE 0)
<1> DEFINE f == [d \in Loads |-> ls[d].kg]
           g == [d \in Loads |-> ms[d].kg]
<1>1. /\ \A y \in Loads : f[y] \in Int /\ g[y] \in Int
      /\ \A y \in Loads \ {x} : g[y] = f[y]
      /\ f[x] = ls[x].kg /\ g[x] = ms[x].kg
  BY DEF LoadRow
<1>2. IsFiniteSet(Loads)
  BY StockAssumption
<1> HIDE DEF f, g
<1>3. SumFunctionOnSet(g, U) = SumFunctionOnSet(f, T) - (IF x \in T THEN f[x] ELSE 0)
                                                     + (IF x \in U THEN g[x] ELSE 0)
  BY <1>1, <1>2, SumOfPartChanges
<1>4. KgIn(ls, T) = SumFunctionOnSet(f, T) /\ KgIn(ms, U) = SumFunctionOnSet(g, U)
  BY DEF KgIn, f, g
<1> QED BY <1>1, <1>3, <1>4

LEMMA KgInNat == ASSUME NEW ls \in [Loads -> LoadRow], NEW ds \in SUBSET Loads PROVE KgIn(ls, ds) \in Nat
<1> DEFINE f == [d \in Loads |-> ls[d].kg]
<1>1. IsFiniteSet(ds) /\ \A d \in ds : f[d] \in Nat
  BY StockAssumption, FS_Subset DEF LoadRow
<1> HIDE DEF f
<1>2. SumFunctionOnSet(f, ds) \in Nat
  BY <1>1, SumNat
<1> QED BY <1>2 DEF KgIn, f

GoneFrom(ls, b) == {d \in Loads : ls[d].batch = b /\ ls[d].status = "RELEASED"}
GoneFor(ls, o) == {d \in Loads : ls[d].order = o /\ ls[d].status = "RELEASED"}

LEMMA LeaveOnceIs ==
  LoadsLeaveOnce <=>
      /\ \A b \in Batches : stock[b] + KgIn(load, GoneFrom(load, b)) = day.stock[b]
      /\ \A o \in Orders : order[o].sent = KgIn(load, GoneFor(load, o))
BY KgOfIs DEF LoadsLeaveOnce, GoneFrom, GoneFor

LEMMA LeaveOnceIsNext ==
  LoadsLeaveOnce' <=>
      /\ \A b \in Batches : stock'[b] + KgIn(load', GoneFrom(load', b)) = day'.stock[b]
      /\ \A o \in Orders : order'[o].sent = KgIn(load', GoneFor(load', o))
BY DEF LoadsLeaveOnce, GoneFrom, GoneFor, KgOf, KgIn

\* A step that lets nothing leave.
LEMMA NothingLeaves ==
  ASSUME Shape, Shape', LoadsLeaveOnce, stock' = stock, day' = day,
         \A o \in Orders : order'[o].sent = order[o].sent,
         load' = load \/ \E d \in Loads :
            /\ \A x \in Loads \ {d} : load'[x] = load[x]
            /\ load[d].status # "RELEASED" /\ load'[d].status # "RELEASED"
  PROVE  LoadsLeaveOnce'
<1>1. load \in [Loads -> LoadRow] /\ load' \in [Loads -> LoadRow]
  BY DEF Shape, TypeOK, LoadRow
<1>2. /\ \A b \in Batches : KgIn(load', GoneFrom(load', b)) = KgIn(load, GoneFrom(load, b))
      /\ \A o \in Orders : KgIn(load', GoneFor(load', o)) = KgIn(load, GoneFor(load, o))
  <2>1. CASE load' = load
    BY <2>1
  <2>2. ASSUME NEW d \in Loads, \A x \in Loads \ {d} : load'[x] = load[x],
               load[d].status # "RELEASED", load'[d].status # "RELEASED"
        PROVE  <1>2
    <3>1. ASSUME NEW T \in SUBSET Loads, NEW U \in SUBSET Loads, d \notin T, d \notin U,
                 \A y \in Loads \ {d} : y \in T <=> y \in U
          PROVE  KgIn(load', U) = KgIn(load, T)
      <4>1. KgIn(load', U) = KgIn(load, T) - 0 + 0
        BY <1>1, <2>2, <3>1, LoadChanges
      <4>2. KgIn(load, T) \in Nat
        BY <1>1, KgInNat
      <4> QED BY <4>1, <4>2
    <3>2. ASSUME NEW b \in Batches PROVE KgIn(load', GoneFrom(load', b)) = KgIn(load, GoneFrom(load, b))
      BY <2>2, <3>1 DEF GoneFrom
    <3>3. ASSUME NEW o \in Orders PROVE KgIn(load', GoneFor(load', o)) = KgIn(load, GoneFor(load, o))
      BY <2>2, <3>1 DEF GoneFor
    <3> QED BY <3>2, <3>3
  <2> QED BY <2>1, <2>2
<1> QED BY <1>2, LeaveOnceIs, LeaveOnceIsNext

\* What a release does when it finds the load still prepared and in the batch.
Leaves(t, d, o, b, kg) ==
    /\ tx[t].op = "release" /\ End(t) /\ UNCHANGED <<day, history>>
    /\ d = tx[t].row /\ o = tx[t].order /\ b = tx[t].batch /\ kg = load[d].kg
    /\ load[d].status = "PREPARED" /\ kg <= stock[b]
    /\ load' = [load EXCEPT ![d].status = "RELEASED"] /\ stock' = [stock EXCEPT ![b] = @ - kg]
    /\ alloc' = Taken(o, b, kg)
    /\ \A x \in Orders \ {o} : order'[x] = order[x]
    /\ order'[o].sent = order[o].sent + kg /\ order'[o].paid = order[o].paid
    /\ order'[o].status = IF Refreshed(o, order[o].sent + kg, alloc') = "DISPATCHED" /\ order[o].paid
                          THEN "COMPLETED" ELSE order[o].status

LEMMA ReleasedLeaves ==
  ASSUME Shape, NEW t \in Clerks, WriteReleased(t)
  PROVE  \/ \E d \in Loads, o \in Orders, b \in Batches, kg \in Nat :
               Leaves(t, d, o, b, kg) /\ load[d].order = o /\ load[d].batch = b
         \/ tx[t].op = "release" /\ End(t) /\ UNCHANGED <<rows, day, history>>
<1> DEFINE d == tx[t].row
           o == tx[t].order
           b == tx[t].batch
           kg == load[d].kg
           state == Refreshed(o, order[o].sent + kg, Taken(o, b, kg))
<1>0. /\ tx[t].op = "release" /\ End(t) /\ UNCHANGED <<day, history>> /\ d \in Loads
      /\ load[d].order = o /\ load[d].batch = b /\ o \in Orders /\ b \in Batches
      /\ kg \in Nat /\ order \in [Orders -> OrderRow]
  BY ShapeTypes DEF WriteReleased, Shape, Refers, LoadRow
<1>1. CASE /\ Claims(d) /\ PhysicallyThere(b, kg)
           /\ load' = [load EXCEPT ![d].status = "RELEASED"] /\ stock' = [stock EXCEPT ![b] = @ - kg]
           /\ alloc' = Taken(o, b, kg)
           /\ order' = [order EXCEPT ![o] =
                 [order[o] EXCEPT !.sent = order[o].sent + kg, !.fulfil = state,
                       !.status = IF state = "DISPATCHED" /\ order[o].paid THEN "COMPLETED" ELSE @]]
  <2>1. state = Refreshed(o, order[o].sent + kg, alloc')
    BY <1>1
  <2>2. order' = [order EXCEPT ![o] =
                 [order[o] EXCEPT !.sent = order[o].sent + kg, !.fulfil = state,
                       !.status = IF state = "DISPATCHED" /\ order[o].paid THEN "COMPLETED" ELSE @]]
    BY <1>1
  <2>3. /\ \A x \in Orders \ {o} : order'[x] = order[x]
        /\ order'[o].sent = order[o].sent + kg /\ order'[o].paid = order[o].paid
        /\ order'[o].status = IF state = "DISPATCHED" /\ order[o].paid THEN "COMPLETED" ELSE order[o].status
    <3> HIDE DEF state, kg, o
    <3> QED BY <1>0, <2>2 DEF OrderRow
  <2>4. Leaves(t, d, o, b, kg)
    <3> HIDE DEF state
    <3> QED BY <1>0, <1>1, <2>1, <2>3 DEF Leaves, Claims, PhysicallyThere
  <2> HIDE DEF d, o, b, kg
  <2> QED BY <1>0, <2>4
<1>2. CASE UNCHANGED <<load, stock, alloc, order>>
  BY <1>0, <1>2 DEF rows
<1> QED BY <1>1, <1>2 DEF WriteReleased

LEMMA LeavesOnce ==
  ASSUME Shape, Shape', LoadsLeaveOnce, NEW t \in Clerks, NEW d \in Loads, NEW o \in Orders,
         NEW b \in Batches, NEW kg \in Nat, Leaves(t, d, o, b, kg), load[d].order = o, load[d].batch = b
  PROVE  LoadsLeaveOnce'
<1>0. /\ kg = load[d].kg /\ load[d].status = "PREPARED" /\ day' = day
      /\ load' = [load EXCEPT ![d].status = "RELEASED"] /\ stock' = [stock EXCEPT ![b] = @ - kg]
      /\ \A x \in Orders \ {o} : order'[x] = order[x]
      /\ order'[o].sent = order[o].sent + kg
  BY DEF Leaves
<1>1. load \in [Loads -> LoadRow] /\ load' \in [Loads -> LoadRow] /\ stock \in [Batches -> Nat]
      /\ order \in [Orders -> OrderRow]
  BY DEF Shape, TypeOK, LoadRow, OrderRow
<1>2. /\ \A x \in Loads \ {d} : load'[x] = load[x]
      /\ load[d].status = "PREPARED" /\ load'[d].status = "RELEASED"
      /\ load'[d].order = o /\ load'[d].batch = b /\ load'[d].kg = kg
  BY <1>0, <1>1 DEF LoadRow
<1>3. ASSUME NEW x \in Batches
      PROVE  KgIn(load', GoneFrom(load', x)) = KgIn(load, GoneFrom(load, x)) + IF x = b THEN kg ELSE 0
  <2>1. GoneFrom(load, x) \in SUBSET Loads /\ GoneFrom(load', x) \in SUBSET Loads
        /\ d \notin GoneFrom(load, x) /\ (d \in GoneFrom(load', x) <=> x = b)
        /\ \A y \in Loads \ {d} : y \in GoneFrom(load, x) <=> y \in GoneFrom(load', x)
    BY <1>2 DEF GoneFrom
  <2>2. KgIn(load', GoneFrom(load', x)) = KgIn(load, GoneFrom(load, x)) - 0 + IF x = b THEN kg ELSE 0
    BY <1>1, <1>2, <2>1, LoadChanges
  <2>3. KgIn(load, GoneFrom(load, x)) \in Nat
    BY <1>1, <2>1, KgInNat
  <2> QED BY <2>2, <2>3
<1>4. ASSUME NEW x \in Orders
      PROVE  KgIn(load', GoneFor(load', x)) = KgIn(load, GoneFor(load, x)) + IF x = o THEN kg ELSE 0
  <2>1. GoneFor(load, x) \in SUBSET Loads /\ GoneFor(load', x) \in SUBSET Loads
        /\ d \notin GoneFor(load, x) /\ (d \in GoneFor(load', x) <=> x = o)
        /\ \A y \in Loads \ {d} : y \in GoneFor(load, x) <=> y \in GoneFor(load', x)
    BY <1>2 DEF GoneFor
  <2>2. KgIn(load', GoneFor(load', x)) = KgIn(load, GoneFor(load, x)) - 0 + IF x = o THEN kg ELSE 0
    BY <1>1, <1>2, <2>1, LoadChanges
  <2>3. KgIn(load, GoneFor(load, x)) \in Nat
    BY <1>1, <2>1, KgInNat
  <2> QED BY <2>2, <2>3
<1>5. ASSUME NEW x \in Batches
      PROVE  stock'[x] + KgIn(load', GoneFrom(load', x)) = day'.stock[x]
  <2>1. stock'[x] = stock[x] - IF x = b THEN kg ELSE 0
    BY <1>0, <1>1
  <2>2. stock[x] + KgIn(load, GoneFrom(load, x)) = day.stock[x] /\ day' = day
    BY <1>0, LeaveOnceIs
  <2>3. KgIn(load, GoneFrom(load, x)) \in Nat
    BY <1>1, KgInNat DEF GoneFrom
  <2> QED BY <1>1, <1>3, <2>1, <2>2, <2>3
<1>6. ASSUME NEW x \in Orders PROVE order'[x].sent = KgIn(load', GoneFor(load', x))
  <2>1. order'[x].sent = order[x].sent + IF x = o THEN kg ELSE 0
    BY <1>0, <1>1 DEF OrderRow
  <2> QED BY <1>4, <2>1, LeaveOnceIs
<1> QED BY <1>5, <1>6, LeaveOnceIsNext

LEMMA OnceInit == Init => LoadsLeaveOnce
<1> SUFFICES ASSUME Init PROVE LoadsLeaveOnce
  OBVIOUS
<1>1. /\ \A b \in Batches : GoneFrom(load, b) = {}
      /\ \A o \in Orders : GoneFor(load, o) = {}
  BY DEF Init, NoLoad, GoneFrom, GoneFor
<1>2. KgIn(load, {}) = 0
  BY SumEmpty DEF KgIn
<1>3. stock = day.stock /\ stock \in [Batches -> Nat] /\ \A o \in Orders : order[o].sent = 0
  BY ShapeInit DEF Init, Shape, TypeOK
<1>4. \A b \in Batches : stock[b] + KgIn(load, GoneFrom(load, b)) = day.stock[b]
  BY <1>1, <1>2, <1>3
<1>5. \A o \in Orders : order[o].sent = KgIn(load, GoneFor(load, o))
  BY <1>1, <1>2, <1>3
<1> QED BY <1>4, <1>5, LeaveOnceIs

LEMMA OnceNext == ASSUME Shape, LoadsLeaveOnce, [Next]_vars PROVE LoadsLeaveOnce'
<1>0. Shape'
  BY ShapeNext
<1>1. CASE UNCHANGED vars
  BY <1>1 DEF vars, rows, LoadsLeaveOnce, KgOf
<1>2. ASSUME NEW t \in Clerks,
             \/ \E r : Asked(t, r)
             \/ WriteAllocation(t) \/ WriteFreed(t) \/ WriteShortage(t) \/ WriteEnd(t) \/ CheckLoad(t)
      PROVE  LoadsLeaveOnce'
  <2>1. load' = load /\ stock' = stock /\ day' = day
    BY <1>2 DEF Asked, rows, WriteAllocation, WriteFreed, WriteShortage, WriteEnd, CheckLoad
  <2>2. order \in [Orders -> OrderRow] /\ (tx[t].op # "idle" => tx[t].order \in Orders)
    BY ShapeTypes DEF Shape, Refers
  <2>3. \A o \in Orders : order'[o].sent = order[o].sent
    <3>1. CASE (\E r : Asked(t, r)) \/ CheckLoad(t)
      BY <3>1 DEF Asked, rows, CheckLoad
    <3>2. CASE WriteAllocation(t) \/ WriteFreed(t) \/ WriteShortage(t)
      <4>1. order' = order \/ \E s : order' = [order EXCEPT ![tx[t].order].fulfil = s]
        BY <3>2 DEF WriteAllocation, WriteFreed, WriteShortage
      <4>2. ASSUME NEW s, order' = [order EXCEPT ![tx[t].order].fulfil = s], NEW o \in Orders
            PROVE  order'[o].sent = order[o].sent
        BY <2>2, <4>2 DEF OrderRow
      <4> QED BY <4>1, <4>2
    <3>3. CASE WriteEnd(t)
      <4>1. /\ order' = [order EXCEPT ![tx[t].order] = Ended(tx[t].op, order[tx[t].order])]
            /\ tx[t].order \in Orders
            /\ tx[t].op \in {"close", "cancel", "revoke"}
        BY <2>2, <3>3 DEF WriteEnd
      <4>2. Ended(tx[t].op, order[tx[t].order]).sent = order[tx[t].order].sent
        BY <2>2, <4>1 DEF Ended, OrderRow
      <4> QED BY <2>2, <4>1, <4>2
    <3> QED BY <1>2, <3>1, <3>2, <3>3
  <2> QED BY <1>0, <2>1, <2>3, NothingLeaves
<1>3. ASSUME NEW t \in Clerks, CreateLoad(t) PROVE LoadsLeaveOnce'
  <2>1. PICK d \in Loads :
           /\ load[d] = NoLoad
           /\ load' = [load EXCEPT ![d] = [order |-> tx[t].order, batch |-> tx[t].batch,
                                          kg |-> tx[t].kg, status |-> "PREPARED"]]
    BY <1>3 DEF CreateLoad
  <2>2. stock' = stock /\ day' = day /\ order' = order
    BY <1>3 DEF CreateLoad
  <2>3. /\ \A x \in Loads \ {d} : load'[x] = load[x]
        /\ load[d].status # "RELEASED" /\ load'[d].status # "RELEASED"
    BY <2>1, ShapeTypes DEF NoLoad
  <2> QED BY <1>0, <2>2, <2>3, NothingLeaves
<1>4. ASSUME NEW d \in Loads, CancelDispatch(d) PROVE LoadsLeaveOnce'
  <2>1. /\ stock' = stock /\ day' = day /\ order' = order /\ load[d].status = "PREPARED"
        /\ load' = [load EXCEPT ![d].status = "CANCELLED"]
    BY <1>4 DEF CancelDispatch
  <2>2. /\ \A x \in Loads \ {d} : load'[x] = load[x]
        /\ load[d].status # "RELEASED" /\ load'[d].status # "RELEASED"
    BY <2>1, ShapeTypes DEF LoadRow
  <2> QED BY <1>0, <2>1, <2>2, NothingLeaves
<1>5. ASSUME NEW o \in Orders, Authorize(o) \/ PaymentConfirmed(o) PROVE LoadsLeaveOnce'
  <2>1. /\ stock' = stock /\ day' = day /\ load' = load
        /\ \/ order' = [order EXCEPT ![o].fulfil = "AUTHORIZED"]
           \/ order' = [order EXCEPT ![o].paid = TRUE]
    BY <1>5 DEF Authorize, PaymentConfirmed
  <2>2. \A x \in Orders : order'[x].sent = order[x].sent
    BY <2>1, ShapeTypes DEF OrderRow
  <2> QED BY <1>0, <2>1, <2>2, NothingLeaves
<1>6. ASSUME NEW t \in Clerks, WriteReleased(t) PROVE LoadsLeaveOnce'
  <2>1. CASE UNCHANGED <<rows, day, history>>
    BY <1>0, <2>1, NothingLeaves DEF rows
  <2>2. CASE \E d \in Loads, o \in Orders, b \in Batches, kg \in Nat :
                Leaves(t, d, o, b, kg) /\ load[d].order = o /\ load[d].batch = b
    BY <1>0, <2>2, LeavesOnce
  <2> QED BY <1>6, <2>1, <2>2, ReleasedLeaves
<1> QED BY <1>1, <1>2, <1>3, <1>4, <1>5, <1>6, NextAsks

\* LoadsLeaveOnce (run ops_dispatch): a load that is released twice, or released while it is being
\* cancelled, leaves the stock once and counts once on its order, for any number of clerks.
THEOREM LeavingOnce == Spec => []LoadsLeaveOnce
<1> QED BY ShapeInit, ShapeNext, OnceInit, OnceNext, PTL DEF Spec

-----------------------------------------------------------------------------
(* What is set aside *)

LEMMA RowsFinite == ASSUME NEW T \in SUBSET Allocations PROVE IsFiniteSet(T)
BY StockAssumption, FS_Subset

LEMMA LeftOfRows == ASSUME NEW rs, AllocTable(rs) PROVE \A a \in Allocations : Left(rs[a]) \in Int
BY LeftOfRow DEF AllocTable

\* What one row does to a sum.
LEMMA RowChanges ==
  ASSUME NEW rs, AllocTable(rs), NEW ss, AllocTable(ss), NEW x \in Allocations,
         \A y \in Allocations \ {x} : ss[y] = rs[y],
         NEW T \in SUBSET Allocations, NEW U \in SUBSET Allocations,
         \A y \in Allocations \ {x} : y \in T <=> y \in U
  PROVE  LeftIn(ss, U) = LeftIn(rs, T) - (IF x \in T THEN Left(rs[x]) ELSE 0)
                                       + (IF x \in U THEN Left(ss[x]) ELSE 0)
<1> DEFINE f == [a \in Allocations |-> Left(rs[a])]
           g == [a \in Allocations |-> Left(ss[a])]
<1>1. /\ \A y \in Allocations : f[y] \in Int /\ g[y] \in Int
      /\ \A y \in Allocations \ {x} : g[y] = f[y]
      /\ f[x] = Left(rs[x]) /\ g[x] = Left(ss[x])
  BY LeftOfRows
<1> HIDE DEF f, g
<1>3. SumFunctionOnSet(g, U) = SumFunctionOnSet(f, T) - (IF x \in T THEN f[x] ELSE 0)
                                                     + (IF x \in U THEN g[x] ELSE 0)
  <2>1. IsFiniteSet(Allocations)
    BY StockAssumption
  <2> QED BY <1>1, <2>1, SumOfPartChanges
<1>4. LeftIn(rs, T) = SumFunctionOnSet(f, T) /\ LeftIn(ss, U) = SumFunctionOnSet(g, U)
  BY DEF LeftIn, f, g
<1> QED BY <1>1, <1>3, <1>4

LEMMA SameRows ==
  ASSUME NEW rs, NEW ss, NEW T \in SUBSET Allocations, \A a \in T : Left(ss[a]) = Left(rs[a])
  PROVE  LeftIn(ss, T) = LeftIn(rs, T)
<1> DEFINE f == [a \in Allocations |-> Left(rs[a])]
           g == [a \in Allocations |-> Left(ss[a])]
<1>1. \A a \in T : g[a] = f[a]
  OBVIOUS
<1> HIDE DEF f, g
<1>2. SumFunctionOnSet(g, T) = SumFunctionOnSet(f, T)
  BY <1>1, RowsFinite, SumCongruence
<1> QED BY <1>2 DEF LeftIn, f, g

LEMMA LeftLower ==
  ASSUME NEW rs, AllocTable(rs), NEW ss, AllocTable(ss), NEW T \in SUBSET Allocations,
         \A a \in T : Left(ss[a]) <= Left(rs[a])
  PROVE  LeftIn(ss, T) <= LeftIn(rs, T)
<1> DEFINE f == [a \in Allocations |-> Left(rs[a])]
           g == [a \in Allocations |-> Left(ss[a])]
<1>1. \A a \in T : g[a] \in Int /\ f[a] \in Int /\ g[a] <= f[a]
  BY LeftOfRows
<1> HIDE DEF f, g
<1>2. SumFunctionOnSet(g, T) <= SumFunctionOnSet(f, T)
  BY <1>1, RowsFinite, SumMonotone
<1> QED BY <1>2 DEF LeftIn, f, g

LEMMA LeftSums ==
  ASSUME NEW rs, AllocTable(rs), NEW T \in SUBSET Allocations, \A a \in T : Left(rs[a]) >= 0
  PROVE  /\ LeftIn(rs, T) \in Nat
         /\ \A a \in T : Left(rs[a]) <= LeftIn(rs, T)
         /\ \A U \in SUBSET T : LeftIn(rs, U) <= LeftIn(rs, T)
         /\ LeftIn(rs, T) = 0 => \A a \in T : Left(rs[a]) = 0
<1> DEFINE f == [a \in Allocations |-> Left(rs[a])]
<1>1. \A a \in T : f[a] \in Nat /\ f[a] = Left(rs[a])
  BY LeftOfRows
<1>2. \A U \in SUBSET T : LeftIn(rs, U) = SumFunctionOnSet(f, U)
  BY DEF LeftIn
<1> HIDE DEF f
<1>3. SumFunctionOnSet(f, T) \in Nat
  BY <1>1, RowsFinite, SumNat
<1>4. \A U \in SUBSET T : SumFunctionOnSet(f, U) <= SumFunctionOnSet(f, T)
  BY <1>1, RowsFinite, SumPart
<1>5. SumFunctionOnSet(f, T) = 0 => \A a \in T : f[a] = 0
  BY <1>1, RowsFinite, SumZero
<1>6. ASSUME NEW a \in T PROVE f[a] <= SumFunctionOnSet(f, T)
  <2>1. SumFunctionOnSet(f, T) = f[a] + SumFunctionOnSet(f, T \ {a})
    BY <1>1, RowsFinite, SumRemove
  <2>2. SumFunctionOnSet(f, T \ {a}) \in Nat
    BY <1>1, RowsFinite, SumNat
  <2> QED BY <1>1, <2>1, <2>2
<1> QED BY <1>1, <1>2, <1>3, <1>4, <1>5, <1>6

LEMMA NothingLeft ==
  ASSUME NEW rs, NEW T \in SUBSET Allocations, \A a \in T : Left(rs[a]) = 0
  PROVE  LeftIn(rs, T) = 0
<1> DEFINE f == [a \in Allocations |-> Left(rs[a])]
<1>1. \A a \in T : f[a] = 0
  OBVIOUS
<1> HIDE DEF f
<1>2. SumFunctionOnSet(f, T) = 0
  BY <1>1, RowsFinite, SumOfZeros
<1> QED BY <1>2 DEF LeftIn, f

\* Taken oldest first, a load that what is set aside covers is taken whole.
LEMMA TakenWhole ==
  ASSUME AllocTable(alloc), NEW o, NEW b, NEW kg \in Nat, kg <= LeftIn(alloc, Mine(o, b))
  PROVE  SumFunctionOnSet(Takes(o, b, kg), Mine(o, b)) = kg
<1> DEFINE M == Mine(o, b)
           f == [a \in Allocations |-> Left(alloc[a])]
           g == Takes(o, b, kg)
           Oldest(T) == \A x \in T, y \in M : y < x => y \in T
           Full(T) == SumFunctionOnSet(g, T) =
                        IF kg <= SumFunctionOnSet(f, T) THEN kg ELSE SumFunctionOnSet(f, T)
           G == {T \in SUBSET M : Oldest(T) => Full(T)}
<1>1. M \in SUBSET Allocations /\ M \in SUBSET Int /\ IsFiniteSet(M)
  <2>1. M \in SUBSET Allocations
    BY DEF Mine
  <2>2. Allocations \subseteq Int
    BY StockAssumption
  <2> HIDE DEF M
  <2> QED BY <2>1, <2>2, RowsFinite
<1>2. \A T \in SUBSET M : LeftIn(alloc, T) = SumFunctionOnSet(f, T)
  BY DEF LeftIn
<1>3. \A a \in M : f[a] \in Nat /\ g[a] \in Nat
  BY <1>1, LeftOfRows, TakesAmounts DEF Mine
<1>4. ASSUME NEW a \in M
      PROVE  LET owed == kg - SumFunctionOnSet(f, {x \in M : x < a})
             IN  g[a] = IF owed <= 0 THEN 0 ELSE IF owed < f[a] THEN owed ELSE f[a]
  <2>1. Owed(o, b, kg, a) = kg - SumFunctionOnSet(f, {x \in M : x < a})
    BY <1>2 DEF Owed
  <2> QED BY <1>1, <2>1 DEF Takes
<1> HIDE DEF M, f, g
<1>5. ASSUME NEW T \in SUBSET M, \A U \in SUBSET T : U # T => U \in G, Oldest(T)
      PROVE  Full(T)
  <2>1. CASE T = {}
    <3>1. SumFunctionOnSet(f, {}) = 0 /\ SumFunctionOnSet(g, {}) = 0
      BY SumEmpty
    <3> QED BY <2>1, <3>1
  <2>2. CASE T # {}
    <3>1. T \in SUBSET Int /\ IsFiniteSet(T)
      BY <1>1, FS_Subset
    <3>2. PICK m \in T : \A x \in T : x <= m
      BY <2>2, <3>1, LargestElement
    <3> DEFINE U == T \ {m}
    <3>3. Oldest(U)
      BY <1>1, <1>5, <3>1, <3>2
    <3>4. U = {x \in M : x < m}
      <4>1. ASSUME NEW x \in U PROVE x \in M /\ x < m
        BY <1>1, <3>1, <3>2
      <4>2. ASSUME NEW x \in M, x < m PROVE x \in U
        BY <1>1, <1>5, <3>1, <3>2, <4>2
      <4> QED BY <4>1, <4>2
    <3>5. U \in SUBSET T /\ U # T /\ U \in SUBSET M /\ IsFiniteSet(U)
      BY <3>1, FS_Subset
    <3>6. Full(U)
      BY <1>5, <3>3, <3>5
    <3>7. /\ SumFunctionOnSet(f, T) = f[m] + SumFunctionOnSet(f, U)
          /\ SumFunctionOnSet(g, T) = g[m] + SumFunctionOnSet(g, U)
      <4>1. \A x \in T : f[x] \in Int /\ g[x] \in Int
        BY <1>3
      <4>2. SumFunctionOnSet(f, T) = f[m] + SumFunctionOnSet(f, U)
        BY <3>1, <4>1, SumRemove
      <4>3. SumFunctionOnSet(g, T) = g[m] + SumFunctionOnSet(g, U)
        BY <3>1, <4>1, SumRemove
      <4> QED BY <4>2, <4>3
    <3>8. SumFunctionOnSet(f, U) \in Nat /\ f[m] \in Nat
      BY <1>3, <3>5, SumNat
    <3> DEFINE owed == kg - SumFunctionOnSet(f, U)
    <3>9. g[m] = IF owed <= 0 THEN 0 ELSE IF owed < f[m] THEN owed ELSE f[m]
      BY <1>4, <3>4
    <3> HIDE DEF U
    <3> QED BY <3>6, <3>7, <3>8, <3>9
  <2> QED BY <2>1, <2>2
<1>6. G = SUBSET M
  <2>1. G \in SUBSET SUBSET M
    OBVIOUS
  <2>2. \A T \in SUBSET M : (\A U \in SUBSET T : U # T => U \in G) => T \in G
    BY <1>5
  <2> HIDE DEF G
  <2> QED BY <1>1, <2>1, <2>2, SmallerSubsets
<1>7. Full(M)
  <2>1. M \in G
    BY <1>6
  <2> QED BY <2>1
<1>8. kg <= SumFunctionOnSet(f, M)
  BY <1>2 DEF M
<1> QED BY <1>7, <1>8 DEF M, g

LEMMA TakenSums ==
  ASSUME AllocTable(alloc), NEW o, NEW b, NEW kg \in Nat, kg <= LeftIn(alloc, Mine(o, b)),
         alloc' = Taken(o, b, kg), NEW T \in SUBSET Allocations
  PROVE  /\ Mine(o, b) \subseteq T => LeftIn(alloc', T) = LeftIn(alloc, T) - kg
         /\ Mine(o, b) \cap T = {} => LeftIn(alloc', T) = LeftIn(alloc, T)
<1> DEFINE f == [a \in Allocations |-> Left(alloc[a])]
           h == [a \in Allocations |-> Left(alloc'[a])]
           g == Takes(o, b, kg)
<1>0. kg \in Int
  OBVIOUS
<1>1. /\ AllocTable(alloc') /\ \A a \in Allocations : Left(alloc'[a]) = Left(alloc[a]) - g[a]
      /\ \A a \in Allocations : g[a] \in Nat /\ (a \notin Mine(o, b) => g[a] = 0)
  BY <1>0, TakenRows, TakesAmounts
<1>2. \A a \in Allocations : Left(alloc[a]) \in Int
  BY LeftOfRows
<1>3. \A a \in T : f[a] \in Int /\ g[a] \in Int /\ h[a] = f[a] - g[a]
  <2> HIDE DEF g
  <2> QED BY <1>1, <1>2
<1>4. SumFunctionOnSet(g, Mine(o, b)) = kg
  BY TakenWhole
<1>5. LeftIn(alloc', T) = SumFunctionOnSet(h, T) /\ LeftIn(alloc, T) = SumFunctionOnSet(f, T)
  BY DEF LeftIn
<1> HIDE DEF f, g, h
<1>6. SumFunctionOnSet(h, T) = SumFunctionOnSet(f, T) - SumFunctionOnSet(g, T)
  BY <1>3, RowsFinite, SumMinus
<1>7. ASSUME Mine(o, b) \subseteq T PROVE SumFunctionOnSet(g, T) = kg
  <2>1. \A a \in T \ Mine(o, b) : g[a] = 0
    BY <1>1
  <2> QED BY <1>3, <1>4, <1>7, <2>1, RowsFinite, SumSupport
<1>8. ASSUME Mine(o, b) \cap T = {} PROVE SumFunctionOnSet(g, T) = 0
  <2>1. \A a \in T : g[a] = 0
    BY <1>1, <1>8
  <2> QED BY <2>1, RowsFinite, SumOfZeros
<1>9. SumFunctionOnSet(f, T) \in Int
  BY <1>3, RowsFinite, SumInt
<1> QED BY <1>5, <1>6, <1>7, <1>8, <1>9

\* What an order has set aside is in its rows that have something left.
LEMMA MineIsAll ==
  ASSUME AllocTable(alloc), NEW o, NEW b, \A a \in Allocations : alloc[a].order = o => Left(alloc[a]) >= 0
  PROVE  LeftIn(alloc, Mine(o, b)) = AsideOf(alloc, o, b)
<1> DEFINE f == [a \in Allocations |-> Left(alloc[a])]
           R == RowsOf(alloc, o, b)
<1>1. R \in SUBSET Allocations /\ Mine(o, b) \in SUBSET R
  BY DEF RowsOf, Mine
<1>2. \A a \in R : f[a] \in Int /\ (a \notin Mine(o, b) => f[a] = 0)
  BY LeftOfRows DEF RowsOf, Mine
<1>3. LeftIn(alloc, Mine(o, b)) = SumFunctionOnSet(f, Mine(o, b))
      /\ AsideOf(alloc, o, b) = SumFunctionOnSet(f, R)
  BY DEF LeftIn, AsideOf
<1> HIDE DEF f, R
<1>4. SumFunctionOnSet(f, Mine(o, b)) = SumFunctionOnSet(f, R)
  BY <1>1, <1>2, RowsFinite, SumSupport
<1> QED BY <1>3, <1>4

-----------------------------------------------------------------------------
(* An order whose requests come one after the other *)

\* The order's line, what is set aside for it and what is loaded agree.
Bounds(o) ==
    /\ \A a \in Allocations : alloc[a].order = o => Left(alloc[a]) >= 0
    /\ order[o].sent + SetAside(alloc, o) <= Required[o]
    /\ order[o].status = "INVOICED" =>
          \A b \in Batches : LoadedIn(load, o, b) <= AsideOf(alloc, o, b)
    /\ order[o].status # "INVOICED" => SetAside(alloc, o) = 0

\* One request at a time is about it, and what that request has read is still so.
OneRequest(o) == \A t, u \in Clerks : tx[t].order = o /\ tx[u].order = o => t = u
UpToDate(o) == \A t \in Clerks : tx[t].order = o => Current(tx[t])

OrdersInTurn == \A o \in Orders \ raced : Bounds(o) /\ OneRequest(o) /\ UpToDate(o)

RowsFor(rs, o) == {a \in Allocations : rs[a].order = o}

LEMMA SetAsideIs == ASSUME NEW rs, NEW o PROVE SetAside(rs, o) = LeftIn(rs, RowsFor(rs, o))
BY DEF SetAside, RowsFor

\* Rows that are another order's, or the same.
RowsAgree(rs, ss, o) == \A a \in Allocations : rs[a].order = o \/ ss[a].order = o => ss[a] = rs[a]
LoadsAgree(ls, ms, o) == \A d \in Loads : ls[d].order = o \/ ms[d].order = o => ms[d] = ls[d]

\* A step that is about another order.
Untouched(o) ==
    /\ order'[o].sent = order[o].sent /\ order'[o].status = order[o].status
    /\ \A a \in Allocations : alloc[a].order = o \/ alloc'[a].order = o => alloc'[a] = alloc[a]
    /\ \A d \in Loads : load[d].order = o \/ load'[d].order = o => load'[d] = load[d]

LEMMA UntouchedRows ==
  ASSUME NEW o, NEW rs, NEW ss, RowsAgree(rs, ss, o)
  PROVE  /\ SetAside(ss, o) = SetAside(rs, o)
         /\ \A b : AsideOf(ss, o, b) = AsideOf(rs, o, b)
<1> USE DEF RowsAgree
<1>1. RowsFor(ss, o) = RowsFor(rs, o) /\ \A b : RowsOf(ss, o, b) = RowsOf(rs, o, b)
  BY DEF RowsFor, RowsOf
<1>2. LeftIn(ss, RowsFor(rs, o)) = LeftIn(rs, RowsFor(rs, o))
  BY SameRows DEF RowsFor
<1>3. ASSUME NEW b PROVE LeftIn(ss, RowsOf(rs, o, b)) = LeftIn(rs, RowsOf(rs, o, b))
  BY SameRows DEF RowsOf
<1> QED BY <1>1, <1>2, <1>3, SetAsideIs DEF AsideOf

LEMMA UntouchedLoads ==
  ASSUME NEW o, NEW ls, NEW ms, LoadsAgree(ls, ms, o)
  PROVE  \A b : LoadedIn(ms, o, b) = LoadedIn(ls, o, b)
<1> USE DEF LoadsAgree
<1> SUFFICES ASSUME NEW b PROVE LoadedIn(ms, o, b) = LoadedIn(ls, o, b)
  OBVIOUS
<1> DEFINE T == LoadsOf(ls, o, b)
           f == [d \in Loads |-> ls[d].kg]
           g == [d \in Loads |-> ms[d].kg]
<1>1. LoadsOf(ms, o, b) = T
  BY DEF LoadsOf
<1>2. T \in SUBSET Loads /\ \A d \in T : g[d] = f[d]
  BY DEF LoadsOf
<1>3. IsFiniteSet(T)
  BY <1>2, StockAssumption, FS_Subset
<1> HIDE DEF T, f, g
<1>4. SumFunctionOnSet(g, T) = SumFunctionOnSet(f, T)
  BY <1>2, <1>3, SumCongruence
<1> QED BY <1>1, <1>4 DEF LoadedIn, KgIn, T, f, g

LEMMA UntouchedSums ==
  ASSUME NEW o, Untouched(o)
  PROVE  /\ SetAside(alloc', o) = SetAside(alloc, o)
         /\ \A b : AsideOf(alloc', o, b) = AsideOf(alloc, o, b)
         /\ \A b : LoadedIn(load', o, b) = LoadedIn(load, o, b)
<1>1. RowsAgree(alloc, alloc', o) /\ LoadsAgree(load, load', o)
  BY DEF Untouched, RowsAgree, LoadsAgree
<1>2. SetAside(alloc', o) = SetAside(alloc, o) /\ \A b : AsideOf(alloc', o, b) = AsideOf(alloc, o, b)
  BY <1>1, UntouchedRows
<1>3. \A b : LoadedIn(load', o, b) = LoadedIn(load, o, b)
  BY <1>1, UntouchedLoads
<1> QED BY <1>2, <1>3

LEMMA UntouchedBounds == ASSUME NEW o, Untouched(o), Bounds(o) PROVE Bounds(o)'
<1>1. \A a \in Allocations : alloc'[a].order = o => Left(alloc'[a]) >= 0
  BY DEF Untouched, Bounds
<1> QED BY <1>1, UntouchedSums DEF Untouched, Bounds

LEMMA UntouchedCurrent ==
  ASSUME Shape, NEW o \in Orders, Untouched(o), NEW u \in Clerks,
         tx[u].order = o, tx'[u] = tx[u], Current(tx[u])
  PROVE  Current(tx[u])'
<1> DEFINE r == tx[u]
<1>1. r.op = "free" => alloc'[r.row] = alloc[r.row]
  BY DEF Shape, Refers, Untouched
<1>2. r.op \in {"cancel", "revoke"} => \A d \in Loads : load'[d].order = o => load'[d].status = "CANCELLED"
  BY DEF Current, NothingLoaded, Untouched
<1> QED BY <1>1, <1>2, UntouchedSums DEF Untouched, Current, NothingLoaded

\* A request on an order ends, and the other orders are as they were.
LEMMA EndKeeps ==
  ASSUME Shape, OrdersInTurn, NEW t \in Clerks, NEW o \in Orders, tx[t].order = o,
         tx' = [tx EXCEPT ![t] = Idle], raced' = raced, \A x \in Orders \ {o} : Untouched(x),
         o \notin raced => Bounds(o)'
  PROVE  OrdersInTurn'
<1> SUFFICES ASSUME NEW x \in Orders \ raced PROVE Bounds(x)' /\ OneRequest(x)' /\ UpToDate(x)'
  BY DEF OrdersInTurn
<1>0. /\ Idle.order # x /\ tx'[t] = Idle /\ \A u \in Clerks \ {t} : tx'[u] = tx[u]
      /\ Bounds(x) /\ OneRequest(x) /\ UpToDate(x)
  BY StockAssumption, ShapeTypes DEF Idle, OrdersInTurn
<1>1. OneRequest(x)'
  BY <1>0 DEF OneRequest
<1>2. CASE x = o
  BY <1>0, <1>1, <1>2 DEF OneRequest, UpToDate
<1>3. CASE x # o
  <2>1. Bounds(x)'
    BY <1>0, <1>3, UntouchedBounds
  <2>2. ASSUME NEW u \in Clerks, tx'[u].order = x PROVE Current(tx[u])'
    <3>1. tx'[u] = tx[u] /\ Current(tx[u])
      BY <1>0, <2>2 DEF UpToDate
    <3> QED BY <1>3, <2>2, <3>1, UntouchedCurrent
  <2>3. UpToDate(x)'
    BY <2>2 DEF UpToDate
  <2> QED BY <1>1, <2>1, <2>3
<1> QED BY <1>2, <1>3

\* No order is touched and the requests stay.
LEMMA QuietKeeps ==
  ASSUME Shape, OrdersInTurn, tx' = tx, raced' = raced, \A x \in Orders : Untouched(x)
  PROVE  OrdersInTurn'
<1> SUFFICES ASSUME NEW x \in Orders \ raced PROVE Bounds(x)' /\ OneRequest(x)' /\ UpToDate(x)'
  BY DEF OrdersInTurn
<1>1. Bounds(x) /\ OneRequest(x) /\ UpToDate(x)
  BY DEF OrdersInTurn
<1>2. Bounds(x)'
  BY <1>1, UntouchedBounds
<1>3. ASSUME NEW u \in Clerks, tx'[u].order = x PROVE Current(tx[u])'
  BY <1>1, <1>3, UntouchedCurrent DEF UpToDate
<1> QED BY <1>1, <1>2, <1>3 DEF OneRequest, UpToDate

LEMMA AskedKeeps ==
  ASSUME Shape, OrdersInTurn, NEW t \in Clerks, NEW r, Asked(t, r) PROVE OrdersInTurn'
<1>0. UNCHANGED <<order, alloc, load>> /\ raced \subseteq raced'
  BY DEF Asked, rows
<1> SUFFICES ASSUME NEW x \in Orders \ raced' PROVE Bounds(x)' /\ OneRequest(x)' /\ UpToDate(x)'
  BY DEF OrdersInTurn
<1>1. Untouched(x) /\ Bounds(x) /\ OneRequest(x) /\ UpToDate(x)
  BY <1>0 DEF Untouched, OrdersInTurn
<1>2. Bounds(x)'
  BY <1>1, UntouchedBounds
<1>3. tx'[t] = r /\ \A u \in Clerks \ {t} : tx'[u] = tx[u]
  BY ShapeTypes DEF Asked
<1>4. r.order = x => \A u \in Clerks : tx[u].order # x
  BY DEF Asked
<1>5. OneRequest(x)'
  BY <1>1, <1>3, <1>4 DEF OneRequest
<1>6. ASSUME NEW u \in Clerks, tx'[u].order = x PROVE Current(tx[u])'
  <2>1. CASE u = t
    <3>1. Current(r) /\ tx'[u] = r
      BY <1>3, <2>1 DEF Asked
    <3> QED BY <1>0, <3>1 DEF Current, NothingLoaded
  <2>2. CASE u # t
    <3>1. tx'[u] = tx[u] /\ tx[u].order = x
      BY <1>3, <1>6, <2>2
    <3> QED BY <1>1, <3>1, UntouchedCurrent DEF UpToDate
  <2> QED BY <2>1, <2>2
<1> QED BY <1>2, <1>5, <1>6 DEF UpToDate

LEMMA CheckKeeps == ASSUME Shape, OrdersInTurn, NEW t \in Clerks, CheckLoad(t) PROVE OrdersInTurn'
<1>0. /\ tx[t].op = "prepare" /\ UNCHANGED <<order, alloc, load, raced>>
      /\ tx[t].order \in Orders /\ tx[t].batch \in Batches
      /\ tx[t] \in Request /\ tx \in [Clerks -> Request]
  BY ShapeTypes DEF CheckLoad, rows, history, Shape, Refers
<1>a. PICK o \in Orders, b \in Batches : o = tx[t].order /\ b = tx[t].batch
  BY <1>0
<1>1. \A x \in Orders : Untouched(x)
  BY <1>0 DEF Untouched
<1>2. CASE tx' = [tx EXCEPT ![t] = Idle]
  <2>1. o \notin raced => Bounds(o)'
    BY <1>1, UntouchedBounds DEF OrdersInTurn
  <2> QED BY <1>0, <1>a, <1>1, <1>2, <2>1, EndKeeps
<1>3. CASE /\ tx[t].kg <= tx[t].seen - Loaded(o, b, "PREPARED")
           /\ tx' = [tx EXCEPT ![t] = [tx[t] EXCEPT !.op = "load"]]
  <2> SUFFICES ASSUME NEW x \in Orders \ raced PROVE Bounds(x)' /\ OneRequest(x)' /\ UpToDate(x)'
    BY <1>0 DEF OrdersInTurn
  <2>1. Untouched(x) /\ Bounds(x) /\ OneRequest(x) /\ UpToDate(x)
    BY <1>1 DEF OrdersInTurn
  <2>2. /\ \A u \in Clerks \ {t} : tx'[u] = tx[u]
        /\ tx'[t].order = o /\ tx'[t].batch = b /\ tx'[t].kg = tx[t].kg /\ tx'[t].op = "load"
    BY <1>0, <1>a, <1>3 DEF Request
  <2>3. OneRequest(x)'
    BY <1>a, <2>1, <2>2 DEF OneRequest
  <2>4. ASSUME NEW u \in Clerks, tx'[u].order = x PROVE Current(tx[u])'
    <3>1. CASE u = t
      <4>1. Current(tx[t])
        BY <1>a, <2>1, <2>2, <2>4, <3>1 DEF UpToDate
      <4>2. tx[t].kg <= AsideOf(alloc, o, b) - LoadedIn(load, o, b)
        BY <1>0, <1>a, <1>3, <4>1, SumsAre DEF Current
      <4> QED BY <1>0, <2>2, <3>1, <4>2 DEF Current
    <3>2. CASE u # t
      BY <2>1, <2>2, <2>4, <3>2, UntouchedCurrent DEF UpToDate
    <3> QED BY <3>1, <3>2
  <2> QED BY <2>1, <2>3, <2>4, UntouchedBounds DEF UpToDate
<1> QED BY <1>a, <1>2, <1>3 DEF CheckLoad

LEMMA BoundsParts ==
  ASSUME Shape, NEW o \in Orders, Bounds(o)
  PROVE  /\ order[o].sent \in Nat /\ Required[o] \in Nat
         /\ SetAside(alloc, o) \in Nat
         /\ \A b : AsideOf(alloc, o, b) \in Nat /\ LoadedIn(load, o, b) \in Nat
<1>1. AllocTable(alloc) /\ load \in [Loads -> LoadRow] /\ order \in [Orders -> OrderRow]
  BY ShapeTypes
<1>2. SetAside(alloc, o) \in Nat
  <2>1. \A a \in RowsFor(alloc, o) : Left(alloc[a]) >= 0
    BY DEF RowsFor, Bounds
  <2>2. RowsFor(alloc, o) \in SUBSET Allocations
    BY DEF RowsFor
  <2> QED BY <1>1, <2>1, <2>2, LeftSums, SetAsideIs
<1>3. ASSUME NEW b PROVE AsideOf(alloc, o, b) \in Nat
  <2>1. \A a \in RowsOf(alloc, o, b) : Left(alloc[a]) >= 0
    BY DEF RowsOf, Bounds
  <2>2. RowsOf(alloc, o, b) \in SUBSET Allocations
    BY DEF RowsOf
  <2> QED BY <1>1, <2>1, <2>2, LeftSums DEF AsideOf
<1>4. ASSUME NEW b PROVE LoadedIn(load, o, b) \in Nat
  <2>1. LoadsOf(load, o, b) \in SUBSET Loads
    BY DEF LoadsOf
  <2> QED BY <1>1, <2>1, KgInNat DEF LoadedIn
<1>5. order[o].sent \in Nat /\ Required[o] \in Nat
  BY <1>1, StockAssumption DEF OrderRow
<1> QED BY <1>2, <1>3, <1>4, <1>5

LEMMA AllocationKeeps ==
  ASSUME Shape, OrdersInTurn, NEW t \in Clerks, WriteAllocation(t) PROVE OrdersInTurn'
<1>0. /\ tx[t].op = "allocate" /\ tx' = [tx EXCEPT ![t] = Idle] /\ load' = load /\ raced' = raced
      /\ tx[t].order \in Orders /\ tx[t].batch \in Batches /\ tx[t].kg \in Nat
  BY ShapeTypes DEF WriteAllocation, End, history, Shape, Refers, Request
<1>1. PICK o \in Orders, b \in Batches, kg \in Nat : o = tx[t].order /\ b = tx[t].batch /\ kg = tx[t].kg
  BY <1>0
<1>2. Shape'
  BY AllocationShape
<1>3. \A x \in Orders : order'[x].sent = order[x].sent /\ order'[x].status = order[x].status
  <2>1. \/ order' = order
        \/ \E rs : order' = [order EXCEPT ![o].fulfil = Refreshed(o, order[o].sent, rs)]
    BY <1>1 DEF WriteAllocation
  <2> QED BY <2>1, StatusOf, FulfilWritten
<1>4. CASE alloc' = alloc
  <2>1. \A x \in Orders : Untouched(x)
    BY <1>0, <1>3, <1>4 DEF Untouched
  <2>2. o \notin raced => Bounds(o)'
    BY <2>1, UntouchedBounds DEF OrdersInTurn
  <2> QED BY <1>0, <1>1, <2>1, <2>2, EndKeeps
<1>5. ASSUME NEW a \in Allocations, alloc[a] = NoAllocation,
             alloc' = [alloc EXCEPT ![a] = [order |-> o, batch |-> b, kg |-> kg, sent |-> 0, freed |-> 0]]
      PROVE  OrdersInTurn'
  <2>0. AllocTable(alloc) /\ AllocTable(alloc')
    BY <1>2, ShapeTypes DEF Shape, TypeOK, AllocTable, AllocRow
  <2>1. /\ \A y \in Allocations \ {a} : alloc'[y] = alloc[y]
        /\ alloc[a].order = None /\ alloc'[a].order = o /\ alloc'[a].batch = b /\ Left(alloc'[a]) = kg
    BY <1>5, <2>0 DEF AllocTable, NoAllocation, Left
  <2>2. \A x \in Orders \ {o} : Untouched(x)
    BY <1>0, <1>3, <2>1, StockAssumption DEF Untouched
  <2>3. ASSUME o \notin raced PROVE Bounds(o)'
    <3>1. Bounds(o) /\ Current(tx[t])
      BY <1>1, <2>3 DEF OrdersInTurn, UpToDate
    <3>2. /\ order[o].status = "INVOICED"
          /\ kg <= Required[o] - order[o].sent - SetAside(alloc, o)
      BY <1>0, <1>1, <3>1 DEF Current
    <3>3. SetAside(alloc', o) = SetAside(alloc, o) + kg
      <4> DEFINE T == RowsFor(alloc, o)
                 U == RowsFor(alloc', o)
      <4>1. /\ T \in SUBSET Allocations /\ U \in SUBSET Allocations /\ a \notin T /\ a \in U
            /\ \A y \in Allocations \ {a} : y \in T <=> y \in U
        BY <2>1, StockAssumption DEF RowsFor
      <4> HIDE DEF T, U
      <4>2. LeftIn(alloc', U) = LeftIn(alloc, T) - 0 + kg
        BY <2>0, <2>1, <4>1, RowChanges
      <4> QED BY <3>1, <4>2, BoundsParts, SetAsideIs DEF T, U
    <3>4. ASSUME NEW x \in Batches PROVE AsideOf(alloc', o, x) >= AsideOf(alloc, o, x)
      <4> DEFINE T == RowsOf(alloc, o, x)
                 U == RowsOf(alloc', o, x)
      <4>1. /\ T \in SUBSET Allocations /\ U \in SUBSET Allocations /\ a \notin T
            /\ \A y \in Allocations \ {a} : y \in T <=> y \in U
        BY <2>1, StockAssumption DEF RowsOf
      <4> HIDE DEF T, U
      <4>2. LeftIn(alloc', U) = LeftIn(alloc, T) - 0 + (IF a \in U THEN kg ELSE 0)
        BY <2>0, <2>1, <4>1, RowChanges
      <4> QED BY <3>1, <4>2, BoundsParts DEF T, U, AsideOf
    <3>5. \A y \in Allocations : alloc'[y].order = o => Left(alloc'[y]) >= 0
      BY <2>1, <3>1 DEF Bounds
    <3>6. order'[o].sent + SetAside(alloc', o) <= Required[o]
      BY <1>3, <3>1, <3>2, <3>3, BoundsParts
    <3>7. ASSUME NEW x \in Batches PROVE LoadedIn(load', o, x) <= AsideOf(alloc', o, x)
      <4>1. LoadedIn(load, o, x) <= AsideOf(alloc, o, x)
        BY <3>1, <3>2 DEF Bounds
      <4>2. AsideOf(alloc', o, x) \in Int
        <5>1. RowsOf(alloc', o, x) \in SUBSET Allocations
          BY DEF RowsOf
        <5> QED BY <2>0, <5>1, LeftInt DEF AsideOf
      <4> QED BY <1>0, <3>1, <3>4, <4>1, <4>2, BoundsParts
    <3> QED BY <1>3, <3>2, <3>5, <3>6, <3>7 DEF Bounds
  <2> QED BY <1>0, <1>1, <2>2, <2>3, EndKeeps
<1> QED BY <1>1, <1>4, <1>5 DEF WriteAllocation

LEMMA FreedKeeps ==
  ASSUME Shape, OrdersInTurn, NEW t \in Clerks, WriteFreed(t) PROVE OrdersInTurn'
<1>0. /\ tx[t].op = "free" /\ tx' = [tx EXCEPT ![t] = Idle] /\ load' = load /\ raced' = raced
      /\ tx[t].order \in Orders /\ tx[t].batch \in Batches /\ tx[t].row \in Allocations /\ tx[t].seen \in Nat
      /\ alloc[tx[t].row].order = tx[t].order /\ alloc[tx[t].row].batch = tx[t].batch
      /\ alloc' = [alloc EXCEPT ![tx[t].row].freed = tx[t].seen]
  BY DEF WriteFreed, End, history, Shape, Refers
<1>1. PICK o \in Orders, b \in Batches, a \in Allocations, seen \in Nat :
         o = tx[t].order /\ b = tx[t].batch /\ a = tx[t].row /\ seen = tx[t].seen
  BY <1>0
<1>2. AllocTable(alloc) /\ AllocTable(alloc')
  BY FreedShape, ShapeTypes DEF Shape, TypeOK, AllocTable, AllocRow
<1>3. \A x \in Orders : order'[x].sent = order[x].sent /\ order'[x].status = order[x].status
  <2>1. order' = [order EXCEPT ![o].fulfil = Refreshed(o, order[o].sent, alloc')]
    BY <1>1 DEF WriteFreed
  <2> QED BY <2>1, StatusOf, FulfilWritten
<1>4. /\ \A y \in Allocations \ {a} : alloc'[y] = alloc[y]
      /\ \A y \in Allocations : alloc'[y].order = alloc[y].order /\ alloc'[y].batch = alloc[y].batch
      /\ alloc[a].order = o /\ alloc[a].batch = b /\ alloc[a].freed \in Nat
      /\ Left(alloc[a]) \in Int
      /\ Left(alloc'[a]) = Left(alloc[a]) - (seen - alloc[a].freed)
  <2>1. /\ alloc' = [alloc EXCEPT ![a].freed = seen] /\ alloc[a] \in AllocRow
        /\ alloc[a].order = o /\ alloc[a].batch = b
    BY <1>0, <1>1, <1>2 DEF AllocTable
  <2>2. alloc'[a] = [alloc[a] EXCEPT !.freed = seen]
    BY <1>2, <2>1 DEF AllocTable
  <2>3. Left(alloc[a]) \in Int /\ Left(alloc'[a]) = Left(alloc[a]) - (seen - alloc[a].freed)
    BY <2>1, <2>2 DEF AllocRow, Left
  <2>4. alloc'[a].order = alloc[a].order /\ alloc'[a].batch = alloc[a].batch /\ alloc[a].freed \in Nat
    BY <2>1, <2>2 DEF AllocRow
  <2>5. \A y \in Allocations \ {a} : alloc'[y] = alloc[y]
    BY <1>2, <2>1 DEF AllocTable
  <2> QED BY <2>1, <2>3, <2>4, <2>5
<1>5. \A x \in Orders \ {o} : Untouched(x)
  BY <1>0, <1>3, <1>4 DEF Untouched
<1>6. ASSUME o \notin raced PROVE Bounds(o)'
  <2>1. Bounds(o) /\ Current(tx[t])
    BY <1>1, <1>6 DEF OrdersInTurn, UpToDate
  <2> DEFINE n == seen - alloc[a].freed
  <2>2. 0 <= n /\ n <= Left(alloc[a]) - LoadedIn(load, o, b) /\ n \in Int
    BY SMTT(40), <1>0, <1>1, <1>4, <2>1 DEF Current
  <2>3. Left(alloc'[a]) = Left(alloc[a]) - n
    BY <1>4
  <2> HIDE DEF n
  <2>4. \A x : RowsOf(alloc', o, x) = RowsOf(alloc, o, x)
    BY <1>4 DEF RowsOf
  <2>5. RowsFor(alloc', o) = RowsFor(alloc, o) /\ a \in RowsFor(alloc, o)
    BY <1>4 DEF RowsFor
  <2>6. SetAside(alloc', o) = SetAside(alloc, o) - n
    <3>1. RowsFor(alloc, o) \in SUBSET Allocations
      BY DEF RowsFor
    <3>2. LeftIn(alloc', RowsFor(alloc, o)) = LeftIn(alloc, RowsFor(alloc, o)) - Left(alloc[a]) + Left(alloc'[a])
      BY <1>2, <1>4, <2>5, <3>1, RowChanges
    <3>3. LeftIn(alloc', RowsFor(alloc, o)) = SetAside(alloc', o)
          /\ LeftIn(alloc, RowsFor(alloc, o)) = SetAside(alloc, o)
      BY <2>5, SetAsideIs
    <3>4. SetAside(alloc, o) \in Nat
      BY <2>1, BoundsParts
    <3> QED BY <1>4, <2>2, <2>3, <3>2, <3>3, <3>4
  <2>7. \A y \in Allocations : alloc'[y].order = o => Left(alloc'[y]) >= 0
    <3>1. LoadedIn(load, o, b) \in Nat
      BY <2>1, BoundsParts
    <3>2. Left(alloc'[a]) >= 0
      BY <1>4, <2>2, <2>3, <3>1
    <3> QED BY <1>4, <2>1, <3>2 DEF Bounds
  <2>8. ASSUME order[o].status = "INVOICED", NEW x \in Batches
        PROVE  LoadedIn(load', o, x) <= AsideOf(alloc', o, x)
    <3> DEFINE T == RowsOf(alloc, o, x)
    <3>1. T \in SUBSET Allocations /\ RowsOf(alloc', o, x) = T /\ (a \in T <=> x = b)
      BY <1>4, <2>4 DEF RowsOf
    <3>2. LoadedIn(load, o, x) <= AsideOf(alloc, o, x) /\ LoadedIn(load, o, x) \in Nat
      BY <2>1, <2>8, BoundsParts DEF Bounds
    <3>3. CASE x = b
      <4>1. \A y \in T : Left(alloc'[y]) >= 0
        BY <1>4, <2>7 DEF RowsOf
      <4>2. Left(alloc'[a]) <= LeftIn(alloc', T) /\ LeftIn(alloc', T) \in Nat
        BY <1>2, <3>1, <3>3, <4>1, LeftSums
      <4>3. LoadedIn(load, o, x) <= Left(alloc'[a])
        BY <1>4, <2>2, <2>3, <3>2, <3>3
      <4>4. Left(alloc'[a]) \in Int
        BY <1>4, <2>2, <2>3
      <4>5. AsideOf(alloc', o, x) = LeftIn(alloc', T)
        BY <3>1 DEF AsideOf
      <4> HIDE DEF T
      <4> QED BY <1>0, <3>2, <4>2, <4>3, <4>4, <4>5
    <3>4. CASE x # b
      <4>1. \A y \in T : Left(alloc'[y]) = Left(alloc[y])
        BY <1>4, <3>1, <3>4
      <4>2. LeftIn(alloc', T) = LeftIn(alloc, T)
        BY <3>1, <4>1, SameRows
      <4>3. AsideOf(alloc', o, x) = AsideOf(alloc, o, x)
        BY <3>1, <4>2 DEF AsideOf
      <4> QED BY <1>0, <3>2, <4>3
    <3> QED BY <3>3, <3>4
  <2>9. order[o].status # "INVOICED" => n = 0
    <3>1. ASSUME order[o].status # "INVOICED" PROVE Left(alloc[a]) = 0
      <4>1. LeftIn(alloc, RowsFor(alloc, o)) = 0
        BY <2>1, <3>1, SetAsideIs DEF Bounds
      <4>2. RowsFor(alloc, o) \in SUBSET Allocations /\ \A y \in RowsFor(alloc, o) : Left(alloc[y]) >= 0
        BY <2>1 DEF Bounds, RowsFor
      <4> QED BY <1>2, <2>5, <4>1, <4>2, LeftSums
    <3>2. LoadedIn(load, o, b) \in Nat
      BY <2>1, BoundsParts
    <3> QED BY <2>2, <3>1, <3>2
  <2>10. order'[o].sent + SetAside(alloc', o) <= Required[o]
    <3>1. order[o].sent + SetAside(alloc, o) <= Required[o]
      BY <2>1 DEF Bounds
    <3> QED BY <1>3, <2>1, <2>2, <2>6, <3>1, BoundsParts
  <2>11. order[o].status # "INVOICED" => SetAside(alloc', o) = 0
    BY <2>1, <2>6, <2>9 DEF Bounds
  <2> QED BY <1>3, <2>7, <2>8, <2>10, <2>11 DEF Bounds
<1> QED BY <1>0, <1>1, <1>5, <1>6, EndKeeps

LEMMA ShortageKeeps ==
  ASSUME Shape, OrdersInTurn, NEW t \in Clerks, WriteShortage(t) PROVE OrdersInTurn'
<1>0. /\ tx' = [tx EXCEPT ![t] = Idle] /\ tx[t].order \in Orders /\ UNCHANGED <<alloc, load, raced>>
      /\ order' = [order EXCEPT ![tx[t].order].fulfil = "SHORTAGE"]
  BY DEF WriteShortage, End, history, Shape, Refers
<1>1. PICK o \in Orders : o = tx[t].order
  BY <1>0
<1>2. \A x \in Orders : Untouched(x)
  BY <1>0, FulfilWritten DEF OPEN_STATES, Untouched
<1>3. o \notin raced => Bounds(o)'
  BY <1>2, UntouchedBounds DEF OrdersInTurn
<1> QED BY <1>0, <1>1, <1>2, <1>3, EndKeeps

LEMMA EndingKeeps ==
  ASSUME Shape, OrdersInTurn, NEW t \in Clerks, WriteEnd(t) PROVE OrdersInTurn'
<1>0. /\ tx[t].op \in {"close", "cancel", "revoke"} /\ tx' = [tx EXCEPT ![t] = Idle]
      /\ tx[t].order \in Orders /\ load' = load /\ raced' = raced /\ alloc' = FreeAll(tx[t].order)
      /\ order' = [order EXCEPT ![tx[t].order] = Ended(tx[t].op, order[tx[t].order])]
      /\ order \in [Orders -> OrderRow]
  BY ShapeTypes DEF WriteEnd, End, Shape, Refers
<1>1. PICK o \in Orders : o = tx[t].order
  BY <1>0
<1>2. /\ AllocTable(alloc) /\ AllocTable(alloc')
      /\ \A a \in Allocations : alloc'[a].order = alloc[a].order /\ alloc'[a].batch = alloc[a].batch
      /\ \A a \in Allocations : alloc[a].order # o => alloc'[a] = alloc[a]
      /\ \A a \in Allocations : alloc[a].order = o =>
               Left(alloc'[a]) = IF Left(alloc[a]) > 0 THEN 0 ELSE Left(alloc[a])
  BY <1>0, <1>1, FreeAllRows, ShapeTypes
<1>3. /\ \A x \in Orders \ {o} : order'[x] = order[x]
      /\ order'[o].sent = order[o].sent
      /\ order'[o].status = "INVOICED" => tx[t].op = "revoke"
  BY <1>0, <1>1 DEF Ended, OrderRow
<1>4. \A x \in Orders \ {o} : Untouched(x)
  BY <1>0, <1>2, <1>3 DEF Untouched
<1>5. ASSUME o \notin raced PROVE Bounds(o)'
  <2>1. Bounds(o) /\ Current(tx[t])
    BY <1>1, <1>5 DEF OrdersInTurn, UpToDate
  <2>2. \A a \in Allocations : alloc'[a].order = o => Left(alloc'[a]) = 0
    <3>1. \A a \in Allocations : Left(alloc[a]) \in Int
      BY <1>2, LeftOfRows
    <3> QED BY <1>2, <2>1, <3>1 DEF Bounds
  <2>3. SetAside(alloc', o) = 0
    BY <2>2, NothingLeft, SetAsideIs DEF RowsFor
  <2>4. ASSUME NEW b \in Batches PROVE AsideOf(alloc', o, b) = 0
    BY <2>2, NothingLeft DEF AsideOf, RowsOf
  <2>5. ASSUME order'[o].status = "INVOICED", NEW b \in Batches PROVE LoadedIn(load', o, b) = 0
    <3>1. NothingLoaded(o)
      BY <1>1, <1>3, <2>1, <2>5 DEF Current
    <3>2. LoadsOf(load', o, b) = {}
      BY <1>0, <3>1 DEF NothingLoaded, LoadsOf
    <3> QED BY <3>2, SumEmpty DEF LoadedIn, KgIn
  <2>6. order'[o].sent + SetAside(alloc', o) <= Required[o]
    <3>1. order[o].sent + SetAside(alloc, o) <= Required[o]
      BY <2>1 DEF Bounds
    <3> QED BY <1>3, <2>1, <2>3, <3>1, BoundsParts
  <2>7. \A a \in Allocations : alloc'[a].order = o => Left(alloc'[a]) >= 0
    BY <2>2
  <2> QED BY <2>3, <2>4, <2>5, <2>6, <2>7 DEF Bounds
<1> QED BY <1>0, <1>1, <1>4, <1>5, EndKeeps

LEMMA LoadKeeps ==
  ASSUME Shape, OrdersInTurn, NEW t \in Clerks, CreateLoad(t) PROVE OrdersInTurn'
<1>0. /\ tx[t].op = "load" /\ tx' = [tx EXCEPT ![t] = Idle] /\ UNCHANGED <<order, alloc, raced>>
      /\ tx[t].order \in Orders /\ tx[t].batch \in Batches /\ tx[t].kg \in Nat
  BY ShapeTypes DEF CreateLoad, End, history, Shape, Refers, Request
<1>1. PICK o \in Orders, b \in Batches, kg \in Nat : o = tx[t].order /\ b = tx[t].batch /\ kg = tx[t].kg
  BY <1>0
<1>2. PICK d \in Loads :
         /\ load[d] = NoLoad
         /\ load' = [load EXCEPT ![d] = [order |-> o, batch |-> b, kg |-> kg, status |-> "PREPARED"]]
  BY <1>1 DEF CreateLoad
<1>3. /\ load \in [Loads -> LoadRow] /\ load' \in [Loads -> LoadRow]
      /\ \A x \in Loads \ {d} : load'[x] = load[x]
      /\ load[d].order = None /\ load'[d].order = o /\ load'[d].batch = b
      /\ load'[d].kg = kg /\ load'[d].status = "PREPARED"
  BY <1>2, ShapeTypes, LoadShape DEF Shape, TypeOK, LoadRow, NoLoad
<1>4. \A x \in Orders \ {o} : Untouched(x)
  BY <1>0, <1>3, StockAssumption DEF Untouched
<1>5. ASSUME o \notin raced PROVE Bounds(o)'
  <2>1. Bounds(o) /\ Current(tx[t])
    BY <1>1, <1>5 DEF OrdersInTurn, UpToDate
  <2>2. kg <= AsideOf(alloc, o, b) - LoadedIn(load, o, b)
    BY <1>0, <1>1, <2>1 DEF Current
  <2>3. ASSUME NEW x \in Batches
        PROVE  LoadedIn(load', o, x) = LoadedIn(load, o, x) + IF x = b THEN kg ELSE 0
    <3> DEFINE T == LoadsOf(load, o, x)
               U == LoadsOf(load', o, x)
    <3>1. /\ T \in SUBSET Loads /\ U \in SUBSET Loads /\ d \notin T /\ (d \in U <=> x = b)
          /\ \A y \in Loads \ {d} : y \in T <=> y \in U
      BY <1>3, StockAssumption DEF LoadsOf
    <3> HIDE DEF T, U
    <3>2. KgIn(load', U) = KgIn(load, T) - 0 + IF x = b THEN kg ELSE 0
      BY <1>3, <3>1, LoadChanges
    <3> QED BY <2>1, <3>2, BoundsParts DEF T, U, LoadedIn
  <2>4. ASSUME order[o].status = "INVOICED", NEW x \in Batches
        PROVE  LoadedIn(load', o, x) <= AsideOf(alloc', o, x)
    <3>1. LoadedIn(load, o, x) <= AsideOf(alloc, o, x)
      BY <2>1, <2>4 DEF Bounds
    <3> QED BY <1>0, <2>1, <2>2, <2>3, <3>1, BoundsParts
  <2> QED BY <1>0, <2>1, <2>4 DEF Bounds
<1> QED BY <1>0, <1>1, <1>4, <1>5, EndKeeps

LEMMA LeavingKeeps ==
  ASSUME Shape, OrdersInTurn, NEW t \in Clerks, NEW d \in Loads, NEW o \in Orders, NEW b \in Batches,
         NEW kg \in Nat, Leaves(t, d, o, b, kg), load[d].order = o, load[d].batch = b, Shape'
  PROVE  /\ OrdersInTurn'
         /\ o \notin raced => kg <= LeftIn(alloc, Mine(o, b))
<1>0. /\ tx[t].op = "release" /\ tx' = [tx EXCEPT ![t] = Idle] /\ raced' = raced
      /\ tx[t].order = o /\ alloc' = Taken(o, b, kg) /\ kg \in Int
      /\ load' = [load EXCEPT ![d].status = "RELEASED"] /\ load[d].kg = kg /\ load[d].status = "PREPARED"
      /\ \A x \in Orders \ {o} : order'[x] = order[x]
      /\ order'[o].sent = order[o].sent + kg
      /\ order'[o].status = IF Refreshed(o, order[o].sent + kg, alloc') = "DISPATCHED" /\ order[o].paid
                            THEN "COMPLETED" ELSE order[o].status
  <2>1. tx' = [tx EXCEPT ![t] = Idle] /\ raced' = raced
    BY DEF Leaves, End, history
  <2>2. kg \in Int
    OBVIOUS
  <2> QED BY <2>1, <2>2 DEF Leaves
<1>1. AllocTable(alloc) /\ load \in [Loads -> LoadRow] /\ load' \in [Loads -> LoadRow]
  BY ShapeTypes DEF Shape, TypeOK, LoadRow
<1>2. /\ AllocTable(alloc')
      /\ \A a \in Allocations :
            /\ alloc'[a].order = alloc[a].order /\ alloc'[a].batch = alloc[a].batch
            /\ Left(alloc'[a]) = Left(alloc[a]) - Takes(o, b, kg)[a]
            /\ alloc[a].order # o => alloc'[a] = alloc[a]
  BY <1>0, <1>1, TakenRows
<1>3. /\ \A x \in Loads \ {d} : load'[x] = load[x]
      /\ load'[d].order = o /\ load'[d].batch = b /\ load'[d].status = "RELEASED"
  BY <1>0, <1>1 DEF LoadRow
<1>4. \A x \in Orders \ {o} : Untouched(x)
  BY <1>0, <1>2, <1>3 DEF Untouched
<1>5. ASSUME o \notin raced PROVE Bounds(o)' /\ kg <= LeftIn(alloc, Mine(o, b))
  <2>1. Bounds(o) /\ Current(tx[t]) /\ order[o].status = "INVOICED"
    BY <1>0, <1>5 DEF OrdersInTurn, UpToDate, Current
  <2>2. ASSUME NEW x \in Batches
        PROVE  LoadedIn(load', o, x) = LoadedIn(load, o, x) - IF x = b THEN kg ELSE 0
    <3> DEFINE T == LoadsOf(load, o, x)
               U == LoadsOf(load', o, x)
    <3>1. /\ T \in SUBSET Loads /\ U \in SUBSET Loads /\ d \notin U /\ (d \in T <=> x = b)
          /\ \A y \in Loads \ {d} : y \in T <=> y \in U
      BY <1>0, <1>3 DEF LoadsOf
    <3> HIDE DEF T, U
    <3>2. KgIn(load', U) = KgIn(load, T) - (IF x = b THEN kg ELSE 0) + 0
      <4>1. KgIn(load', U) = KgIn(load, T) - (IF d \in T THEN load[d].kg ELSE 0) + 0
        BY <1>1, <1>3, <3>1, LoadChanges
      <4> QED BY <1>0, <3>1, <4>1
    <3> QED BY <2>1, <3>2, BoundsParts DEF T, U, LoadedIn
  <2>3. kg <= LoadedIn(load, o, b) /\ LoadedIn(load, o, b) <= AsideOf(alloc, o, b)
    <3>1. LoadedIn(load', o, b) \in Nat
      BY <1>1, KgInNat DEF LoadedIn, LoadsOf
    <3> QED BY <2>1, <2>2, <3>1, BoundsParts DEF Bounds
  <2>4. LeftIn(alloc, Mine(o, b)) = AsideOf(alloc, o, b)
    BY <1>1, <2>1, MineIsAll DEF Bounds
  <2>5. kg <= LeftIn(alloc, Mine(o, b))
    BY <2>1, <2>3, <2>4, BoundsParts
  <2>6. SetAside(alloc', o) = SetAside(alloc, o) - kg
    <3>1. RowsFor(alloc', o) = RowsFor(alloc, o)
      BY <1>2 DEF RowsFor
    <3>2. RowsFor(alloc, o) \in SUBSET Allocations /\ Mine(o, b) \subseteq RowsFor(alloc, o)
      BY DEF RowsFor, Mine
    <3>3. LeftIn(alloc', RowsFor(alloc, o)) = LeftIn(alloc, RowsFor(alloc, o)) - kg
      BY <1>0, <1>1, <2>5, <3>2, TakenSums
    <3> QED BY <3>1, <3>3, SetAsideIs
  <2>7. ASSUME NEW x \in Batches
        PROVE  AsideOf(alloc', o, x) = AsideOf(alloc, o, x) - IF x = b THEN kg ELSE 0
    <3> DEFINE T == RowsOf(alloc, o, x)
    <3>1. RowsOf(alloc', o, x) = T /\ T \in SUBSET Allocations
      BY <1>2 DEF RowsOf
    <3>2. (x = b => Mine(o, b) \subseteq T) /\ (x # b => Mine(o, b) \cap T = {})
      BY DEF RowsOf, Mine
    <3> HIDE DEF T
    <3>3. /\ x = b => LeftIn(alloc', T) = LeftIn(alloc, T) - kg
          /\ x # b => LeftIn(alloc', T) = LeftIn(alloc, T)
      BY <1>0, <1>1, <2>5, <3>1, <3>2, TakenSums
    <3> QED BY <2>1, <3>1, <3>3, BoundsParts DEF AsideOf, T
  <2>8. ASSUME NEW a \in Allocations, alloc'[a].order = o PROVE Left(alloc'[a]) >= 0
    <3>1. /\ Takes(o, b, kg)[a] \in Nat
          /\ a \notin Mine(o, b) => Takes(o, b, kg)[a] = 0
          /\ a \in Mine(o, b) => Takes(o, b, kg)[a] <= Left(alloc[a])
      BY <1>0, <1>1, TakesAmounts
    <3>2. Left(alloc[a]) \in Int /\ Left(alloc[a]) >= 0
      BY <1>1, <1>2, <2>1, <2>8, LeftOfRows DEF Bounds
    <3>3. Left(alloc'[a]) = Left(alloc[a]) - Takes(o, b, kg)[a]
      BY <1>2
    <3> QED BY <3>1, <3>2, <3>3
  <2>9. SetAside(alloc', o) \in Nat
    <3>1. RowsFor(alloc', o) \in SUBSET Allocations /\ \A a \in RowsFor(alloc', o) : Left(alloc'[a]) >= 0
      BY <2>8 DEF RowsFor
    <3> QED BY <1>2, <3>1, LeftSums, SetAsideIs
  <2>10. order'[o].sent + SetAside(alloc', o) <= Required[o]
    <3>1. order[o].sent + SetAside(alloc, o) <= Required[o]
      BY <2>1 DEF Bounds
    <3> QED BY <1>0, <2>1, <2>6, <3>1, BoundsParts
  <2>11. order'[o].status # "INVOICED" => SetAside(alloc', o) = 0
    <3>1. SUFFICES ASSUME order'[o].status # "INVOICED" PROVE SetAside(alloc', o) = 0
      OBVIOUS
    <3>2. StatusFor(Required[o], order[o].sent + kg, SetAside(alloc', o)) = "DISPATCHED"
      BY <1>0, <2>1, <3>1 DEF Refreshed
    <3>3. order[o].sent + kg >= Required[o]
      BY <3>2 DEF StatusFor
    <3> QED BY <1>0, <2>1, <2>9, <2>10, <3>3, BoundsParts
  <2>12. ASSUME NEW x \in Batches PROVE LoadedIn(load', o, x) <= AsideOf(alloc', o, x)
    <3>1. LoadedIn(load, o, x) <= AsideOf(alloc, o, x)
      BY <2>1 DEF Bounds
    <3> QED BY <2>1, <2>2, <2>7, <3>1, BoundsParts
  <2> QED BY <2>5, <2>8, <2>10, <2>11, <2>12 DEF Bounds
<1>6. OrdersInTurn'
  BY <1>0, <1>4, <1>5, EndKeeps
<1> QED BY <1>5, <1>6

LEMMA ReleasedKeeps ==
  ASSUME Shape, OrdersInTurn, NEW t \in Clerks, WriteReleased(t) PROVE OrdersInTurn'
<1>1. CASE tx[t].op = "release" /\ End(t) /\ UNCHANGED <<rows, day, history>>
  <2>1. PICK o \in Orders : tx[t].order = o
    BY <1>1 DEF Shape, Refers
  <2>2. \A x \in Orders : Untouched(x)
    BY <1>1 DEF Untouched, rows
  <2>3. o \notin raced => Bounds(o)'
    BY <2>2, UntouchedBounds DEF OrdersInTurn
  <2> QED BY <1>1, <2>1, <2>2, <2>3, EndKeeps DEF End, history
<1>2. Shape'
  BY ReleasedShape
<1> QED BY <1>1, <1>2, ReleasedLeaves, LeavingKeeps

LEMMA CancelledLoadKeeps ==
  ASSUME Shape, OrdersInTurn, NEW d \in Loads, CancelDispatch(d) PROVE OrdersInTurn'
<1>0. /\ load[d].status = "PREPARED" /\ load' = [load EXCEPT ![d].status = "CANCELLED"]
      /\ UNCHANGED <<order, alloc, tx, raced>>
  BY DEF CancelDispatch, history
<1>1. load \in [Loads -> LoadRow] /\ load' \in [Loads -> LoadRow]
  BY <1>0, ShapeTypes DEF LoadRow
<1>2. /\ \A y \in Loads \ {d} : load'[y] = load[y]
      /\ load'[d].order = load[d].order /\ load'[d].batch = load[d].batch /\ load'[d].status = "CANCELLED"
  BY <1>0, <1>1 DEF LoadRow
<1> SUFFICES ASSUME NEW x \in Orders \ raced PROVE Bounds(x)' /\ OneRequest(x)' /\ UpToDate(x)'
  BY <1>0 DEF OrdersInTurn
<1>3. Bounds(x) /\ OneRequest(x) /\ UpToDate(x)
  BY DEF OrdersInTurn
<1>4. ASSUME NEW b PROVE LoadedIn(load', x, b) <= LoadedIn(load, x, b)
  <2> DEFINE T == LoadsOf(load, x, b)
             U == LoadsOf(load', x, b)
  <2>1. /\ T \in SUBSET Loads /\ U \in SUBSET Loads /\ d \notin U
        /\ \A y \in Loads \ {d} : y \in T <=> y \in U
    BY <1>2 DEF LoadsOf
  <2> HIDE DEF T, U
  <2>2. KgIn(load', U) = KgIn(load, T) - (IF d \in T THEN load[d].kg ELSE 0) + 0
    BY <1>1, <1>2, <2>1, LoadChanges
  <2>3. load[d].kg \in Nat /\ KgIn(load, T) \in Nat
    BY <1>1, <2>1, KgInNat DEF LoadRow
  <2> QED BY <2>2, <2>3 DEF T, U, LoadedIn
<1>5. \A b : LoadedIn(load', x, b) \in Nat
  BY <1>1, KgInNat DEF LoadedIn, LoadsOf
<1>6. Bounds(x)'
  <2>1. ASSUME order[x].status = "INVOICED", NEW b \in Batches
        PROVE  LoadedIn(load', x, b) <= AsideOf(alloc, x, b)
    <3>1. LoadedIn(load, x, b) <= AsideOf(alloc, x, b)
      BY <1>3, <2>1 DEF Bounds
    <3> QED BY <1>3, <1>4, <1>5, <3>1, BoundsParts
  <2> QED BY <1>0, <1>3, <2>1 DEF Bounds
<1>7. ASSUME NEW u \in Clerks, tx[u].order = x PROVE Current(tx[u])'
  <2> DEFINE r == tx[u]
  <2>1. Current(r) /\ Refers(r) /\ r \in Request
    BY <1>3, <1>7, ShapeTypes DEF UpToDate, Shape
  <2>2. r.op \in {"cancel", "revoke"} => \A y \in Loads : load'[y].order = x => load'[y].status = "CANCELLED"
    BY <1>2, <1>7, <2>1 DEF Current, NothingLoaded
  <2>3. r.op = "free" =>
           r.seen - alloc[r.row].freed <= Left(alloc[r.row]) - LoadedIn(load', r.order, r.batch)
    <3>1. SUFFICES ASSUME r.op = "free"
                   PROVE  r.seen - alloc[r.row].freed <= Left(alloc[r.row]) - LoadedIn(load', r.order, r.batch)
      OBVIOUS
    <3>2. r.row \in Allocations /\ r.seen \in Nat
      BY <2>1, <3>1 DEF Refers
    <3>3. alloc[r.row].freed \in Nat /\ Left(alloc[r.row]) \in Int
      BY <3>2, ShapeTypes, LeftOfRows DEF AllocTable, AllocRow
    <3>4. r.seen - alloc[r.row].freed <= Left(alloc[r.row]) - LoadedIn(load, r.order, r.batch)
      BY <2>1, <3>1 DEF Current
    <3>5. /\ LoadedIn(load, r.order, r.batch) \in Nat /\ LoadedIn(load', r.order, r.batch) \in Nat
          /\ LoadedIn(load', r.order, r.batch) <= LoadedIn(load, r.order, r.batch)
      BY <1>3, <1>4, <1>5, <1>7, BoundsParts
    <3> HIDE DEF r
    <3> QED BY <3>2, <3>3, <3>4, <3>5
  <2>4. r.op = "load" => r.kg <= AsideOf(alloc, r.order, r.batch) - LoadedIn(load', r.order, r.batch)
    <3>1. /\ LoadedIn(load, r.order, r.batch) \in Nat /\ LoadedIn(load', r.order, r.batch) \in Nat
          /\ LoadedIn(load', r.order, r.batch) <= LoadedIn(load, r.order, r.batch)
          /\ AsideOf(alloc, r.order, r.batch) \in Nat /\ r.kg \in Nat
      BY <1>3, <1>4, <1>5, <1>7, <2>1, BoundsParts DEF Request
    <3>2. r.op = "load" => r.kg <= AsideOf(alloc, r.order, r.batch) - LoadedIn(load, r.order, r.batch)
      BY <2>1 DEF Current
    <3> HIDE DEF r
    <3> QED BY <3>1, <3>2
  <2> QED BY <1>0, <1>7, <2>1, <2>2, <2>3, <2>4 DEF Current, NothingLoaded
<1> QED BY <1>0, <1>3, <1>6, <1>7 DEF OneRequest, UpToDate

LEMMA AccountsKeep ==
  ASSUME Shape, OrdersInTurn, NEW o \in Orders, Authorize(o) \/ PaymentConfirmed(o) PROVE OrdersInTurn'
<1>1. /\ UNCHANGED <<alloc, load, tx, raced>>
      /\ \/ order' = [order EXCEPT ![o].fulfil = "AUTHORIZED"]
         \/ order' = [order EXCEPT ![o].paid = TRUE]
  BY DEF Authorize, PaymentConfirmed, history
<1>2. \A x \in Orders : Untouched(x)
  BY <1>1, ShapeTypes DEF Untouched, OrderRow
<1> QED BY <1>1, <1>2, QuietKeeps

LEMMA TurnInit == Init => OrdersInTurn
<1> SUFFICES ASSUME Init PROVE OrdersInTurn
  OBVIOUS
<1> SUFFICES ASSUME NEW o \in Orders PROVE Bounds(o) /\ OneRequest(o) /\ UpToDate(o)
  BY DEF OrdersInTurn
<1>1. \A a \in Allocations : alloc[a].order # o
  BY StockAssumption DEF Init, NoAllocation
<1>2. RowsFor(alloc, o) = {} /\ \A b : LoadsOf(load, o, b) = {} /\ RowsOf(alloc, o, b) = {}
  BY <1>1 DEF Init, NoLoad, RowsFor, LoadsOf, RowsOf
<1>3. SetAside(alloc, o) = 0 /\ \A b : LoadedIn(load, o, b) = 0 /\ AsideOf(alloc, o, b) = 0
  BY <1>2, SumEmpty, SetAsideIs DEF LoadedIn, AsideOf, KgIn, LeftIn
<1>4. order[o].sent = 0 /\ Required[o] \in Nat
  BY StockAssumption DEF Init
<1>5. Bounds(o)
  BY <1>1, <1>3, <1>4 DEF Bounds
<1>6. \A t \in Clerks : tx[t].order # o
  BY StockAssumption DEF Init, Idle
<1> QED BY <1>5, <1>6 DEF OneRequest, UpToDate

LEMMA TurnNext == ASSUME Shape, OrdersInTurn, [Next]_vars PROVE OrdersInTurn'
<1>1. CASE UNCHANGED vars
  <2>1. tx' = tx /\ raced' = raced /\ \A x \in Orders : Untouched(x)
    BY <1>1 DEF vars, rows, history, Untouched
  <2> QED BY <2>1, QuietKeeps
<1>2. CASE Next
  BY <1>2, NextAsks, AskedKeeps, AllocationKeeps, FreedKeeps, ShortageKeeps, EndingKeeps, CheckKeeps,
     LoadKeeps, ReleasedKeeps, CancelledLoadKeeps, AccountsKeep
<1> QED BY <1>1, <1>2

LEMMA InTurn == Spec => [](Shape /\ OrdersInTurn)
<1> QED BY ShapeInit, ShapeNext, TurnInit, TurnNext, PTL DEF Spec

\* OrderInBounds (run ops_dispatch): an order whose requests come one after the other never has
\* more set aside and delivered than it needs, nor more loaded from a batch than is set aside there.
THEOREM BoundedOrders == Spec => []OrderInBounds
<1>1. Shape /\ OrdersInTurn => OrderInBounds
  <2> SUFFICES ASSUME Shape, OrdersInTurn, NEW o \in Orders \ raced
               PROVE  /\ order[o].sent + SetAside(alloc, o) <= Required[o]
                      /\ order[o].status = "INVOICED" =>
                            \A b \in Batches : Loaded(o, b, "PREPARED") <= SetAsideOf(o, b)
    BY DEF OrderInBounds
  <2> QED BY SumsAre DEF OrdersInTurn, Bounds
<1> QED BY <1>1, InTurn, PTL

\* ClosedHoldsNothing (run ops_dispatch): such an order, once completed or cancelled, keeps no rice
\* from being sold.
THEOREM NothingHeldAfterwards == Spec => []ClosedHoldsNothing
<1>1. OrdersInTurn => ClosedHoldsNothing
  BY DEF OrdersInTurn, Bounds, ClosedHoldsNothing
<1> QED BY <1>1, InTurn, PTL

-----------------------------------------------------------------------------
(* What is set aside is there *)

RowsIn(rs, b) == {a \in Allocations : rs[a].batch = b}
InStock(rs, in) == \A b \in Batches : LeftIn(rs, RowsIn(rs, b)) <= in[b]

LEMMA ThereIs == SetAsideIsThere <=> (raced = {} => InStock(alloc, stock))
BY DEF SetAsideIsThere, Reserved, InStock, RowsIn

LEMMA RowsInInt ==
  ASSUME NEW rs, AllocTable(rs) PROVE \A b : LeftIn(rs, RowsIn(rs, b)) \in Int
BY LeftInt DEF RowsIn

LEMMA LessThere ==
  ASSUME AllocTable(alloc), AllocTable(alloc'), stock \in [Batches -> Nat], stock' = stock,
         \A a \in Allocations : alloc'[a].batch = alloc[a].batch /\ Left(alloc'[a]) <= Left(alloc[a]),
         InStock(alloc, stock)
  PROVE  InStock(alloc', stock')
<1> SUFFICES ASSUME NEW b \in Batches PROVE LeftIn(alloc', RowsIn(alloc', b)) <= stock[b]
  BY DEF InStock
<1>1. RowsIn(alloc', b) = RowsIn(alloc, b) /\ RowsIn(alloc, b) \in SUBSET Allocations
  BY DEF RowsIn
<1>2. LeftIn(alloc', RowsIn(alloc, b)) <= LeftIn(alloc, RowsIn(alloc, b))
  BY <1>1, LeftLower
<1>3. LeftIn(alloc, RowsIn(alloc, b)) <= stock[b] /\ stock[b] \in Int
  BY DEF InStock
<1>4. LeftIn(alloc, RowsIn(alloc, b)) \in Int /\ LeftIn(alloc', RowsIn(alloc, b)) \in Int
  BY <1>1, LeftInt
<1> QED BY <1>1, <1>2, <1>3, <1>4

LEMMA AllocationThere ==
  ASSUME Shape, InStock(alloc, stock), NEW t \in Clerks, WriteAllocation(t)
  PROVE  InStock(alloc', stock')
<1>0. stock' = stock /\ tx[t].batch \in Batches /\ tx[t].kg \in Nat /\ tx[t].op = "allocate"
  BY ShapeTypes DEF WriteAllocation, Shape, Refers, Request
<1>1. PICK b \in Batches, kg \in Nat : b = tx[t].batch /\ kg = tx[t].kg
  BY <1>0
<1>2. CASE alloc' = alloc
  BY <1>0, <1>2 DEF InStock
<1>3. ASSUME NEW a \in Allocations, alloc[a] = NoAllocation, Fits(b, kg),
             alloc' = [alloc EXCEPT ![a] = [order |-> tx[t].order, batch |-> b, kg |-> kg,
                                           sent |-> 0, freed |-> 0]],
             NEW x \in Batches
      PROVE  LeftIn(alloc', RowsIn(alloc', x)) <= stock'[x]
  <2>0. AllocTable(alloc) /\ AllocTable(alloc')
    BY AllocationShape, ShapeTypes DEF Shape, TypeOK, AllocTable, AllocRow
  <2>1. /\ \A y \in Allocations \ {a} : alloc'[y] = alloc[y]
        /\ Left(alloc[a]) = 0 /\ alloc'[a].batch = b /\ Left(alloc'[a]) = kg
    BY <1>3, <2>0 DEF AllocTable, NoAllocation, Left
  <2> DEFINE T == RowsIn(alloc, x) \ {a}
             U == RowsIn(alloc', x)
  <2>2. /\ T \in SUBSET Allocations /\ U \in SUBSET Allocations /\ a \notin T /\ (a \in U <=> x = b)
        /\ \A y \in Allocations \ {a} : y \in T <=> y \in U
    BY <2>1 DEF RowsIn
  <2>3. LeftIn(alloc, RowsIn(alloc, x)) = LeftIn(alloc, T) - 0 + 0
    <3>1. RowsIn(alloc, x) \in SUBSET Allocations
          /\ \A y \in Allocations \ {a} : y \in T <=> y \in RowsIn(alloc, x)
      BY DEF RowsIn
    <3> DEFINE W == RowsIn(alloc, x)
    <3> HIDE DEF T, W
    <3>2. LeftIn(alloc, W) = LeftIn(alloc, T) - 0 + (IF a \in W THEN Left(alloc[a]) ELSE 0)
      BY <2>0, <2>2, <3>1, RowChanges DEF W
    <3> QED BY <2>1, <3>2 DEF W
  <2> HIDE DEF T, U
  <2>4. LeftIn(alloc', U) = LeftIn(alloc, T) - 0 + (IF x = b THEN kg ELSE 0)
    <3>1. LeftIn(alloc', U) = LeftIn(alloc, T) - 0 + (IF a \in U THEN Left(alloc'[a]) ELSE 0)
      BY <2>0, <2>1, <2>2, RowChanges
    <3> QED BY <2>1, <2>2, <3>1
  <2>5. LeftIn(alloc, T) \in Int /\ LeftIn(alloc, RowsIn(alloc, x)) \in Int /\ stock[x] \in Int
    BY <2>0, <2>2, LeftInt, RowsInInt, ShapeTypes
  <2>6. kg <= stock[b] - LeftIn(alloc, RowsIn(alloc, b))
    BY <1>3 DEF Fits, Reserved, RowsIn
  <2>7. LeftIn(alloc, RowsIn(alloc, x)) <= stock[x]
    BY DEF InStock
  <2> QED BY <1>0, <2>3, <2>4, <2>5, <2>6, <2>7 DEF U
<1>4. ASSUME NEW a \in Allocations, alloc[a] = NoAllocation, Fits(b, kg),
             alloc' = [alloc EXCEPT ![a] = [order |-> tx[t].order, batch |-> b, kg |-> kg,
                                           sent |-> 0, freed |-> 0]]
      PROVE  InStock(alloc', stock')
  BY <1>3, <1>4 DEF InStock
<1> QED BY <1>1, <1>2, <1>4 DEF WriteAllocation

LEMMA FreedThere ==
  ASSUME Shape, OrdersInTurn, raced = {}, InStock(alloc, stock), NEW t \in Clerks, WriteFreed(t)
  PROVE  InStock(alloc', stock')
<1> DEFINE a == tx[t].row
           seen == tx[t].seen
<1>0. /\ stock' = stock /\ tx[t].op = "free" /\ a \in Allocations /\ seen \in Nat /\ tx[t].order \in Orders
      /\ alloc' = [alloc EXCEPT ![a].freed = seen]
  BY DEF WriteFreed, Shape, Refers
<1>1. AllocTable(alloc) /\ AllocTable(alloc') /\ stock \in [Batches -> Nat]
  BY FreedShape, ShapeTypes DEF Shape, TypeOK, AllocTable, AllocRow
<1>2. alloc[a].freed <= seen
  BY <1>0 DEF OrdersInTurn, UpToDate, Current
<1>3. ASSUME NEW x \in Allocations
      PROVE  alloc'[x].batch = alloc[x].batch /\ Left(alloc'[x]) <= Left(alloc[x])
  <2>1. alloc[x] \in AllocRow
    BY <1>1 DEF AllocTable
  <2>2. CASE x = a
    <3>1. alloc'[x] = [alloc[x] EXCEPT !.freed = seen]
      BY <1>0, <1>1, <2>2 DEF AllocTable
    <3>2. alloc[x].freed <= seen /\ seen \in Nat
      BY <1>0, <1>2, <2>2
    <3> HIDE DEF a, seen
    <3> QED BY <2>1, <3>1, <3>2 DEF AllocRow, Left
  <2>3. CASE x # a
    <3>1. alloc'[x] = alloc[x] /\ Left(alloc[x]) \in Int
      BY <1>0, <1>1, <2>1, <2>3, LeftOfRow DEF AllocTable
    <3> QED BY <3>1
  <2> QED BY <2>2, <2>3
<1> HIDE DEF a, seen
<1> QED BY <1>0, <1>1, <1>3, LessThere

LEMMA EndingThere ==
  ASSUME Shape, InStock(alloc, stock), NEW t \in Clerks, WriteEnd(t)
  PROVE  InStock(alloc', stock')
<1>0. stock' = stock /\ alloc' = FreeAll(tx[t].order)
  BY DEF WriteEnd
<1>1. AllocTable(alloc) /\ AllocTable(alloc') /\ stock \in [Batches -> Nat]
  BY <1>0, FreeAllRows, ShapeTypes
<1>2. ASSUME NEW x \in Allocations
      PROVE  alloc'[x].batch = alloc[x].batch /\ Left(alloc'[x]) <= Left(alloc[x])
  <2>1. Left(alloc[x]) \in Int
    BY <1>1, LeftOfRows
  <2>2. CASE alloc[x].order = tx[t].order
    BY <1>0, <2>1, <2>2, FreeAllRows
  <2>3. CASE alloc[x].order # tx[t].order
    BY <1>0, <2>1, <2>3, FreeAllRows
  <2> QED BY <2>2, <2>3
<1> QED BY <1>0, <1>1, <1>2, LessThere

LEMMA LeavingThere ==
  ASSUME Shape, InStock(alloc, stock), NEW t \in Clerks, NEW d \in Loads, NEW o \in Orders,
         NEW b \in Batches, NEW kg \in Nat, Leaves(t, d, o, b, kg), kg <= LeftIn(alloc, Mine(o, b))
  PROVE  InStock(alloc', stock')
<1>0. alloc' = Taken(o, b, kg) /\ stock' = [stock EXCEPT ![b] = @ - kg] /\ kg \in Int
  BY SMTT(40) DEF Leaves
<1>1. AllocTable(alloc) /\ stock \in [Batches -> Nat]
  BY ShapeTypes
<1> SUFFICES ASSUME NEW x \in Batches PROVE LeftIn(alloc', RowsIn(alloc', x)) <= stock'[x]
  BY DEF InStock
<1>2. RowsIn(alloc', x) = RowsIn(alloc, x)
  BY <1>0, <1>1, TakenRows DEF RowsIn
<1> DEFINE T == RowsIn(alloc, x)
<1>3. T \in SUBSET Allocations /\ (x = b => Mine(o, b) \subseteq T) /\ (x # b => Mine(o, b) \cap T = {})
  BY DEF RowsIn, Mine
<1> HIDE DEF T
<1>4. /\ x = b => LeftIn(alloc', T) = LeftIn(alloc, T) - kg
      /\ x # b => LeftIn(alloc', T) = LeftIn(alloc, T)
  BY <1>0, <1>1, <1>3, TakenSums
<1>5. LeftIn(alloc, T) <= stock[x] /\ LeftIn(alloc, T) \in Int /\ stock[x] \in Int
  BY <1>1, <1>3, LeftInt DEF InStock, T
<1>6. stock'[x] = stock[x] - IF x = b THEN kg ELSE 0
  BY <1>0, <1>1
<1> QED BY <1>2, <1>4, <1>5, <1>6 DEF T

LEMMA ThereInit == Init => SetAsideIsThere
<1> SUFFICES ASSUME Init, NEW b \in Batches PROVE LeftIn(alloc, RowsIn(alloc, b)) <= stock[b]
  BY ThereIs DEF InStock
<1>1. \A a \in RowsIn(alloc, b) : Left(alloc[a]) = 0
  BY DEF Init, NoAllocation, Left, RowsIn
<1>2. LeftIn(alloc, RowsIn(alloc, b)) = 0
  <2>1. RowsIn(alloc, b) \in SUBSET Allocations
    BY DEF RowsIn
  <2> QED BY <1>1, <2>1, NothingLeft
<1>3. stock[b] \in Nat
  BY ShapeInit, ShapeTypes
<1> QED BY <1>2, <1>3

LEMMA ThereNext ==
  ASSUME Shape, OrdersInTurn, SetAsideIsThere, [Next]_vars PROVE SetAsideIsThere'
<1> SUFFICES ASSUME raced' = {} PROVE InStock(alloc', stock')
  BY DEF SetAsideIsThere, Reserved, InStock, RowsIn
<1>1. raced \subseteq raced'
  <2>1. CASE UNCHANGED vars
    BY <2>1 DEF vars, history
  <2>2. CASE Next
    BY <2>2, NextAsks DEF Asked, WriteAllocation, WriteFreed, WriteShortage, WriteEnd, CheckLoad, CreateLoad,
       WriteReleased, CancelDispatch, Authorize, PaymentConfirmed, history
  <2> QED BY <2>1, <2>2
<1>2. raced = {} /\ InStock(alloc, stock)
  BY <1>1, ThereIs
<1>3. ASSUME alloc' = alloc, stock' = stock PROVE InStock(alloc', stock')
  BY <1>2, <1>3 DEF InStock
<1>4. CASE UNCHANGED vars
  BY <1>3, <1>4 DEF vars, rows
<1>5. ASSUME NEW t \in Clerks, WriteReleased(t) PROVE InStock(alloc', stock')
  <2>1. ASSUME NEW d \in Loads, NEW o \in Orders, NEW b \in Batches, NEW kg \in Nat,
               Leaves(t, d, o, b, kg), load[d].order = o, load[d].batch = b
        PROVE  InStock(alloc', stock')
    <3>1. Shape'
      BY <1>5, ReleasedShape
    <3>2. kg <= LeftIn(alloc, Mine(o, b))
      BY <1>2, <2>1, <3>1, LeavingKeeps
    <3> QED BY <1>2, <2>1, <3>2, LeavingThere
  <2>2. CASE UNCHANGED <<rows, day, history>>
    BY <1>3, <2>2 DEF rows
  <2> QED BY <1>5, <2>1, <2>2, ReleasedLeaves
<1>6. ASSUME NEW t \in Clerks,
             (\E r : Asked(t, r)) \/ WriteShortage(t) \/ CheckLoad(t) \/ CreateLoad(t)
      PROVE  InStock(alloc', stock')
  BY <1>3, <1>6 DEF Asked, rows, WriteShortage, CheckLoad, CreateLoad
<1>7. ASSUME \/ \E d \in Loads : CancelDispatch(d)
             \/ \E o \in Orders : Authorize(o) \/ PaymentConfirmed(o)
      PROVE  InStock(alloc', stock')
  BY <1>3, <1>7 DEF CancelDispatch, Authorize, PaymentConfirmed
<1> QED BY <1>2, <1>4, <1>5, <1>6, <1>7, NextAsks, AllocationThere, FreedThere, EndingThere

\* SetAsideIsThere (run ops_dispatch): as long as the requests about each order come one after the
\* other, the rice set aside is in the batches, however requests of different orders cross.
THEOREM SetAsideStaysThere == Spec => []SetAsideIsThere
<1> QED BY ShapeInit, ShapeNext, TurnInit, TurnNext, ThereInit, ThereNext, PTL DEF Spec

-----------------------------------------------------------------------------
(* Completed orders *)

Delivered(o) ==
    /\ order[o].status = "COMPLETED" => o \in short \/ (order[o].sent >= Required[o] /\ order[o].paid)
    /\ order[o].sent >= Required[o] /\ order[o].paid /\ o \notin raced \cup paidLate =>
          order[o].status = "COMPLETED"

\* A step that changes neither what was sent, nor the status, nor the payment of an order.
LEMMA SameDelivered ==
  ASSUME NEW o, Delivered(o), order'[o].sent = order[o].sent, order'[o].status = order[o].status,
         order'[o].paid = order[o].paid, raced \subseteq raced', short \subseteq short',
         paidLate \subseteq paidLate'
  PROVE  Delivered(o)'
BY DEF Delivered

LEMMA DeliveredInit == Init => CompletedIsDelivered
<1> SUFFICES ASSUME Init, NEW o \in Orders PROVE Delivered(o)
  BY DEF CompletedIsDelivered, Delivered
<1>1. order[o].sent = 0 /\ order[o].status # "COMPLETED" /\ Required[o] \in Nat \ {0}
  BY StockAssumption DEF Init
<1> QED BY <1>1 DEF Delivered

LEMMA EndingDelivered ==
  ASSUME Shape, OrdersInTurn, LoadsLeaveOnce, NEW t \in Clerks, WriteEnd(t), NEW x \in Orders, Delivered(x)
  PROVE  Delivered(x)'
<1>0. /\ tx[t].op \in {"close", "cancel", "revoke"} /\ tx[t].order \in Orders
      /\ order' = [order EXCEPT ![tx[t].order] = Ended(tx[t].op, order[tx[t].order])]
      /\ order \in [Orders -> OrderRow] /\ raced' = raced /\ paidLate' = paidLate
      /\ short' = IF tx[t].op = "close" THEN short \cup {tx[t].order} ELSE short
  BY ShapeTypes DEF WriteEnd, Shape, Refers
<1>1. CASE x # tx[t].order
  <2>1. order'[x] = order[x] /\ short \subseteq short'
    BY <1>0, <1>1
  <2> QED BY <1>0, <2>1, SameDelivered
<1>2. CASE x = tx[t].order
  <2>1. order'[x] = Ended(tx[t].op, order[x]) /\ order[x] \in OrderRow
    BY <1>0, <1>2
  <2>2. CASE tx[t].op = "close"
    <3>1. order'[x].status = "COMPLETED" /\ x \in short'
      BY <1>0, <1>2, <2>1, <2>2 DEF Ended, OrderRow
    <3> QED BY <3>1 DEF Delivered
  <2>3. CASE tx[t].op = "revoke"
    <3>1. /\ order'[x].status = order[x].status /\ order'[x].sent = order[x].sent
          /\ order'[x].paid = order[x].paid
      BY <2>1, <2>3 DEF Ended, OrderRow
    <3> QED BY <1>0, <2>3, <3>1, SameDelivered
  <2>4. CASE tx[t].op = "cancel"
    <3>1. order'[x].status = "CANCELLED" /\ order'[x].sent = order[x].sent
      BY <2>1, <2>4 DEF Ended, OrderRow
    <3>2. ASSUME x \notin raced PROVE order[x].sent = 0
      <4>1. NothingLoaded(x)
        BY <1>2, <2>4, <3>2 DEF OrdersInTurn, UpToDate, Current
      <4>2. GoneFor(load, x) = {}
        BY <4>1 DEF NothingLoaded, GoneFor
      <4> QED BY <4>2, LeaveOnceIs, SumEmpty DEF KgIn
    <3>3. Required[x] \in Nat \ {0}
      BY StockAssumption
    <3> QED BY <1>0, <3>1, <3>2, <3>3 DEF Delivered
  <2> QED BY <1>0, <2>2, <2>3, <2>4
<1> QED BY <1>1, <1>2

LEMMA LeavingDelivered ==
  ASSUME Shape, NEW t \in Clerks, NEW d \in Loads, NEW o \in Orders, NEW b \in Batches,
         NEW kg \in Nat, Leaves(t, d, o, b, kg), NEW x \in Orders, Delivered(x)
  PROVE  Delivered(x)'
<1>0. /\ raced' = raced /\ short' = short /\ paidLate' = paidLate
      /\ \A y \in Orders \ {o} : order'[y] = order[y]
      /\ order'[o].sent = order[o].sent + kg /\ order'[o].paid = order[o].paid
      /\ order'[o].status = IF Refreshed(o, order[o].sent + kg, alloc') = "DISPATCHED" /\ order[o].paid
                            THEN "COMPLETED" ELSE order[o].status
  BY DEF Leaves, history
<1>1. CASE x # o
  BY <1>0, <1>1, SameDelivered
<1>2. CASE x = o
  <2>1. order[o].sent \in Nat /\ Required[o] \in Nat
    BY ShapeTypes, StockAssumption DEF OrderRow
  <2>2. Refreshed(o, order[o].sent + kg, alloc') = "DISPATCHED" <=> order[o].sent + kg >= Required[o]
    BY DEF Refreshed, StatusFor
  <2> QED BY <1>0, <1>2, <2>1, <2>2 DEF Delivered
<1> QED BY <1>1, <1>2

LEMMA PaidDelivered ==
  ASSUME Shape, NEW o \in Orders, PaymentConfirmed(o), NEW x \in Orders, Delivered(x)
  PROVE  Delivered(x)'
<1>0. /\ raced' = raced /\ short' = short /\ ~order[o].paid
      /\ order' = [order EXCEPT ![o].paid = TRUE]
      /\ paidLate' = IF order[o].sent >= Required[o] THEN paidLate \cup {o} ELSE paidLate
  BY DEF PaymentConfirmed
<1>1. /\ order'[x].sent = order[x].sent /\ order'[x].status = order[x].status
      /\ x # o => order'[x] = order[x]
  BY <1>0, ShapeTypes DEF OrderRow
<1>2. CASE x # o
  <2>1. paidLate \subseteq paidLate' /\ order'[x] = order[x]
    BY <1>0, <1>1, <1>2
  <2> QED BY <1>0, <2>1, SameDelivered
<1>3. CASE x = o
  BY <1>0, <1>1, <1>3 DEF Delivered
<1> QED BY <1>2, <1>3

LEMMA DeliveredNext ==
  ASSUME Shape, OrdersInTurn, LoadsLeaveOnce, CompletedIsDelivered, [Next]_vars
  PROVE  CompletedIsDelivered'
<1> SUFFICES ASSUME NEW x \in Orders PROVE Delivered(x)'
  BY DEF CompletedIsDelivered, Delivered
<1>0. Delivered(x)
  BY DEF CompletedIsDelivered, Delivered
<1>1. CASE UNCHANGED vars
  BY <1>0, <1>1 DEF vars, rows, history, Delivered
<1>2. ASSUME NEW t \in Clerks,
             (\E r : Asked(t, r)) \/ CheckLoad(t) \/ CreateLoad(t)
      PROVE  Delivered(x)'
  <2>1. order' = order /\ raced \subseteq raced' /\ short' = short /\ paidLate' = paidLate
    BY <1>2 DEF Asked, rows, history, CheckLoad, CreateLoad
  <2> QED BY <1>0, <2>1, SameDelivered
<1>3. ASSUME NEW t \in Clerks, WriteAllocation(t) \/ WriteFreed(t) \/ WriteShortage(t)
      PROVE  Delivered(x)'
  <2>1. tx[t].order \in Orders /\ raced' = raced /\ short' = short /\ paidLate' = paidLate
    BY <1>3 DEF WriteAllocation, WriteFreed, WriteShortage, Shape, Refers, history
  <2>2. \/ order' = order
        \/ \E s \in OPEN_STATES \cup {"NOT_AUTHORIZED", "DISPATCHED"} :
              order' = [order EXCEPT ![tx[t].order].fulfil = s]
    BY <1>3, StatusOf DEF WriteAllocation, WriteFreed, WriteShortage, OPEN_STATES
  <2>3. /\ order'[x].sent = order[x].sent /\ order'[x].status = order[x].status
        /\ order'[x].paid = order[x].paid
    BY <2>1, <2>2, FulfilWritten
  <2> QED BY <1>0, <2>1, <2>3, SameDelivered
<1>4. ASSUME NEW t \in Clerks, WriteReleased(t) PROVE Delivered(x)'
  <2>1. CASE UNCHANGED <<rows, day, history>>
    BY <1>0, <2>1, SameDelivered DEF rows, history
  <2> QED BY <1>0, <1>4, <2>1, ReleasedLeaves, LeavingDelivered
<1>5. ASSUME NEW d \in Loads, CancelDispatch(d) PROVE Delivered(x)'
  BY <1>0, <1>5, SameDelivered DEF CancelDispatch, history
<1>6. ASSUME NEW o \in Orders, Authorize(o) PROVE Delivered(x)'
  <2>1. /\ raced' = raced /\ short' = short /\ paidLate' = paidLate
        /\ order' = [order EXCEPT ![o].fulfil = "AUTHORIZED"]
    BY <1>6 DEF Authorize, history
  <2> QED BY <1>0, <2>1, FulfilWritten, SameDelivered DEF OPEN_STATES
<1> QED BY <1>0, <1>1, <1>2, <1>3, <1>4, <1>5, <1>6, NextAsks, EndingDelivered, PaidDelivered

\* CompletedIsDelivered (run ops_dispatch): an order is completed when it has been delivered in full
\* and paid for, or closed short, and then only.
THEOREM CompletedAreDelivered == Spec => []CompletedIsDelivered
<1> QED BY ShapeInit, ShapeNext, OnceInit, OnceNext, TurnInit, TurnNext, DeliveredInit, DeliveredNext, PTL
        DEF Spec
=============================================================================
