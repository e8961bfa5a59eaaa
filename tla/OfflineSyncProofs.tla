------------------------- MODULE OfflineSyncProofs -------------------------
(* Theorems of OfflineSync, for any writes, requests at a time and mishaps. *)
EXTENDS OfflineSync, SequenceTheorems, FiniteSetTheorems, WellFoundedInduction, TLAPS

Working == {"running", "handled"}

\* Requests are rows; what they carry is left open.
Requests ==
    req = [a \in Slots |-> [m |-> req[a].m, at |-> req[a].at, by |-> req[a].by]]

Server ==
    /\ pending \in [Writes -> Slots \cup {None}]
    /\ receipt \in [Writes -> Nat] /\ handled \in [Writes -> Nat] /\ gaps \in [Writes -> Nat]

\* The map of running work holds whoever works on a write, so that one request does, and only
\* while the write has no receipt.
WorkIsPending ==
    \A a \in Slots :
        req[a].m \in Writes /\ req[a].at \in Working =>
            pending[req[a].m] = a /\ receipt[req[a].m] = 0

\* A write is handled once for each gap, and once more when it has a receipt or its work is
\* at the receipt.
Counted(m) == handled[m] = gaps[m] + IF receipt[m] # 0 \/ AtReceipt(m) THEN 1 ELSE 0

HandledOnce == \A m \in Writes : Counted(m)

ReceiptInvariant == Requests /\ Server /\ WorkIsPending /\ HandledOnce

-----------------------------------------------------------------------------
(* The phone *)

\* A request that is at the server stays there, and no other gets there.
SameWork(a) ==
    req[a].at \in Working \/ req'[a].at \in Working =>
        req'[a].at = req[a].at /\ req'[a].m = req[a].m

LEMMA PhoneKeeps ==
  ASSUME ReceiptInvariant, Requests', UNCHANGED <<server, gaps>>, \A a \in Slots : SameWork(a)
  PROVE  ReceiptInvariant'
<1> USE DEF ReceiptInvariant, server
<1>1. Server'
  BY DEF Server
<1>2. WorkIsPending'
  BY DEF WorkIsPending, SameWork
<1>3. ASSUME NEW m \in Writes PROVE Counted(m)'
  <2>1. Counted(m)
    BY DEF HandledOnce
  <2>2. \A a \in Slots :
           (req[a].m = m /\ req[a].at = "handled") <=> (req'[a].m = m /\ req'[a].at = "handled")
    BY DEF SameWork, Working
  <2>3. AtReceipt(m)' = AtReceipt(m)
    BY <2>2 DEF AtReceipt
  <2> QED BY <2>1, <2>3 DEF Counted
<1>4. HandledOnce'
  BY <1>3 DEF HandledOnce
<1> QED BY <1>1, <1>2, <1>4

IsRow(r) == r = [m |-> r.m, at |-> r.at, by |-> r.by]

LEMMA RequestWritten ==
  ASSUME Requests, NEW a \in Slots, NEW r, IsRow(r), req' = [req EXCEPT ![a] = r]
  PROVE  Requests' /\ req'[a] = r /\ \A b \in Slots \ {a} : req'[b] = req[b]
<1>1. req' = [b \in Slots |-> IF b = a THEN r ELSE req[b]]
  BY DEF Requests
<1>2. \A b \in Slots : req'[b] = [m |-> req'[b].m, at |-> req'[b].at, by |-> req'[b].by]
  BY <1>1 DEF Requests, IsRow
<1>3. Requests'
  BY <1>1, <1>2 DEF Requests
<1> QED BY <1>1, <1>3

LEMMA SendKeeps ==
  ASSUME ReceiptInvariant, NEW m, NEW by, Send(m, by), UNCHANGED <<server, gaps>>
  PROVE  ReceiptInvariant'
<1>1. PICK a \in Slots : req[a] = Free /\ req' = [req EXCEPT ![a] = [m |-> m, at |-> "sent", by |-> by]]
  BY DEF Send
<1> DEFINE r == [m |-> m, at |-> "sent", by |-> by]
<1>2. IsRow(r) /\ r.at = "sent" /\ req' = [req EXCEPT ![a] = r]
  BY <1>1 DEF IsRow
<1> HIDE DEF r
<1>3. Requests' /\ req'[a].at = "sent" /\ \A b \in Slots \ {a} : req'[b] = req[b]
  BY <1>1, <1>2, RequestWritten DEF ReceiptInvariant
<1>4. \A b \in Slots : SameWork(b)
  BY <1>1, <1>3 DEF SameWork, Working, Free
<1> QED BY <1>3, <1>4, PhoneKeeps

LEMMA FreedKeeps ==
  ASSUME ReceiptInvariant, NEW a \in Slots, req[a].at \notin Working,
         req' = [req EXCEPT ![a] = Free], UNCHANGED <<server, gaps>>
  PROVE  ReceiptInvariant'
<1>1. IsRow(Free) /\ Free.at = "free"
  BY DEF IsRow, Free
<1>2. Requests' /\ req'[a].at = "free" /\ \A b \in Slots \ {a} : req'[b] = req[b]
  BY <1>1, RequestWritten DEF ReceiptInvariant
<1>3. \A b \in Slots : SameWork(b)
  BY <1>2 DEF SameWork, Working
<1> QED BY <1>2, <1>3, PhoneKeeps

\* A request the phone no longer waits for keeps its place at the server.
LEMMA AbandonedRow ==
  ASSUME Requests, NEW a \in Slots
  PROVE  /\ IsRow(Abandoned(a))
         /\ req[a].at \in Working \/ Abandoned(a).at \in Working =>
               Abandoned(a).at = req[a].at /\ Abandoned(a).m = req[a].m
BY DEF Requests, IsRow, Abandoned, Free, Working

LEMMA GivesUpKeeps ==
  ASSUME ReceiptInvariant, NEW a \in Slots, NEW by, GivesUp(a, by), UNCHANGED <<server, gaps>>
  PROVE  ReceiptInvariant'
<1>1. CASE req[a].at = "dead" /\ req' = [req EXCEPT ![a] = Free]
  BY <1>1, FreedKeeps DEF Working
<1>2. CASE req' = [req EXCEPT ![a] = Abandoned(a)]
  <2>1. Requests
    BY DEF ReceiptInvariant
  <2>2. req'[a] = Abandoned(a) /\ \A b \in Slots \ {a} : req'[b] = req[b]
    BY <1>2, <2>1 DEF Requests
  <2>3. Requests'
    BY <1>2, <2>1, AbandonedRow, RequestWritten
  <2>4. \A b \in Slots : SameWork(b)
    BY <2>1, <2>2, AbandonedRow DEF SameWork
  <2> QED BY <2>3, <2>4, PhoneKeeps
<1> QED BY <1>1, <1>2 DEF GivesUp

LEMMA IdleKeeps ==
  ASSUME ReceiptInvariant, UNCHANGED <<req, server, gaps>> PROVE ReceiptInvariant'
<1>1. Requests' /\ \A a \in Slots : SameWork(a)
  BY DEF ReceiptInvariant, Requests, SameWork
<1> QED BY <1>1, PhoneKeeps

LEMMA UserKeeps ==
  ASSUME ReceiptInvariant, UserSaves \/ UserDiscards \/ SignOut \/ SignIn
  PROVE  ReceiptInvariant'
<1> USE DEF history
<1>1. ASSUME NEW m \in Writes, SaveOnline(m) PROVE ReceiptInvariant'
  <2>1. Send(m, "direct") /\ UNCHANGED <<server, gaps>>
    BY <1>1 DEF SaveOnline
  <2> QED BY <2>1, SendKeeps
<1>2. ASSUME NEW m \in Writes, SaveOffline(m) \/ AskDiscard(m) PROVE UNCHANGED <<req, server, gaps>>
  BY <1>2 DEF SaveOffline, AskDiscard
<1>3. ASSUME AskClear \/ SignOut \/ SignIn PROVE UNCHANGED <<req, server, gaps>>
  BY <1>3 DEF AskClear, SignOut, SignIn
<1> QED BY <1>1, <1>2, <1>3, IdleKeeps DEF UserSaves, UserDiscards

LEMMA PhoneWorksKeeps == ASSUME ReceiptInvariant, PhoneWorks PROVE ReceiptInvariant'
<1> USE DEF history
<1>1. ASSUME NEW a \in Slots, DirectOk(a) \/ DirectRefused(a) \/ ReplayOk(a) PROVE ReceiptInvariant'
  <2>1. /\ req[a].at \in {"ok", "error"} /\ req' = [req EXCEPT ![a] = Free]
        /\ UNCHANGED <<server, gaps>>
    BY <1>1 DEF DirectOk, DirectRefused, ReplayOk
  <2> QED BY <2>1, FreedKeeps DEF Working
<1>2. ASSUME NEW a \in Slots, DirectGivesUp(a) PROVE ReceiptInvariant'
  BY <1>2, GivesUpKeeps DEF DirectGivesUp
<1>3. ASSUME NEW a \in Slots, ReplayFails(a) PROVE ReceiptInvariant'
  <2>1. CASE req[a].at = "error" /\ req' = [req EXCEPT ![a] = Free]
    BY <1>3, <2>1, FreedKeeps DEF ReplayFails, Working
  <2>2. CASE GivesUp(a, "replay")
    BY <1>3, <2>2, GivesUpKeeps DEF ReplayFails
  <2> QED BY <1>3, <2>1, <2>2 DEF ReplayFails
<1>4. ASSUME NEW m \in Writes, Stage(m) PROVE ReceiptInvariant'
  BY <1>4, IdleKeeps DEF Stage, server
<1>5. ASSUME ReplaySend PROVE ReceiptInvariant'
  <2>1. Send(Head(flush.todo), "replay") /\ UNCHANGED <<server, gaps>>
    BY <1>5 DEF ReplaySend
  <2> QED BY <2>1, SendKeeps
<1>6. ASSUME StartFlush \/ FlushStops \/ RemoveSynced \/ DiscardRow \/ Discard
      PROVE  UNCHANGED <<req, server, gaps>>
  BY <1>6 DEF StartFlush, FlushStops, RemoveSynced, DiscardRow, Discard
<1> QED BY <1>1, <1>2, <1>3, <1>4, <1>5, <1>6, IdleKeeps DEF PhoneWorks

LEMMA PhoneDiesKeeps == ASSUME ReceiptInvariant, PhoneDies PROVE ReceiptInvariant'
<1>1. Requests /\ req' = [a \in Slots |-> Abandoned(a)] /\ UNCHANGED <<server, gaps>>
  BY DEF PhoneDies, ReceiptInvariant, history
<1>2. \A a \in Slots : SameWork(a)
  BY <1>1, AbandonedRow DEF SameWork
<1>3. Requests'
  BY <1>1, AbandonedRow DEF Requests, IsRow
<1> QED BY <1>1, <1>2, <1>3, PhoneKeeps
-----------------------------------------------------------------------------
(* The server *)

\* A waiting request is answered; whoever works stays at work.
LEMMA AnsweredRow ==
  ASSUME Requests, NEW a \in Slots, NEW outcome \in {"ok", "error"}
  PROVE  IsRow(Answered(a, outcome)) /\ Answered(a, outcome).at \notin Working
BY DEF Requests, IsRow, Answered, Free, Working

LEMMA ArriveKeeps == ASSUME ReceiptInvariant, NEW a \in Slots, Arrive(a) PROVE ReceiptInvariant'
<1> DEFINE m == req[a].m
<1>0. Requests /\ Server /\ req[a].at = "sent" /\ UNCHANGED <<receipt, handled, gaps>>
  BY DEF ReceiptInvariant, Arrive
<1>1. CASE pending[m] # None /\ req' = [req EXCEPT ![a].at = "behind"] /\ UNCHANGED pending
  <2>1. Requests' /\ req'[a].at = "behind" /\ \A b \in Slots \ {a} : req'[b] = req[b]
    BY <1>0, <1>1 DEF Requests
  <2>2. \A b \in Slots : SameWork(b)
    BY <1>0, <2>1 DEF SameWork, Working
  <2> QED BY <1>0, <1>1, <2>1, <2>2, PhoneKeeps DEF server
<1>2. CASE req' = [req EXCEPT ![a] = Answered(a, "ok")] /\ UNCHANGED pending
  <2>1. Requests' /\ req'[a] = Answered(a, "ok") /\ \A b \in Slots \ {a} : req'[b] = req[b]
    BY <1>0, <1>2, AnsweredRow, RequestWritten
  <2>2. \A b \in Slots : SameWork(b)
    BY <1>0, <2>1, AnsweredRow DEF SameWork, Working
  <2> QED BY <1>0, <1>2, <2>1, <2>2, PhoneKeeps DEF server
<1>3. CASE /\ pending[m] = None /\ receipt[m] = 0
           /\ req' = [req EXCEPT ![a].at = "running"] /\ pending' = [pending EXCEPT ![m] = a]
  <2>1. /\ Requests' /\ req'[a].at = "running" /\ req'[a].m = m
        /\ \A b \in Slots \ {a} : req'[b] = req[b]
    BY <1>0, <1>3 DEF Requests
  <2>2. Server'
    BY <1>0, <1>3 DEF Server
  <2>3. WorkIsPending'
    <3> SUFFICES ASSUME NEW b \in Slots, req'[b].m \in Writes, req'[b].at \in Working
                 PROVE  pending'[req'[b].m] = b /\ receipt'[req'[b].m] = 0
      BY DEF WorkIsPending
    <3>1. CASE b = a
      BY <1>0, <1>3, <2>1, <3>1 DEF Server
    <3>2. CASE b # a
      <4>1. pending[req[b].m] = b /\ receipt[req[b].m] = 0 /\ req'[b] = req[b]
        BY <2>1, <3>2 DEF ReceiptInvariant, WorkIsPending
      <4>2. b # None
        BY BoundsAssumption
      <4> QED BY <1>0, <1>3, <4>1, <4>2 DEF Server
    <3> QED BY <3>1, <3>2
  <2>4. \A b \in Slots, w \in Writes :
           (req[b].m = w /\ req[b].at = "handled") <=> (req'[b].m = w /\ req'[b].at = "handled")
    BY <1>0, <2>1
  <2>5. \A w \in Writes : AtReceipt(w)' = AtReceipt(w)
    BY <2>4 DEF AtReceipt
  <2>6. HandledOnce'
    BY <1>0, <2>5 DEF ReceiptInvariant, HandledOnce, Counted
  <2> QED BY <2>1, <2>2, <2>3, <2>6 DEF ReceiptInvariant
<1> QED BY <1>1, <1>2, <1>3 DEF Arrive

\* When work ends the others stay at theirs, which is of other writes.
LEMMA FinishLeaves ==
  ASSUME ReceiptInvariant, NEW a \in Slots, req[a].at \in Working,
         NEW outcome \in {"ok", "error"}, Finish(a, outcome)
  PROVE  /\ Requests' /\ pending' \in [Writes -> Slots \cup {None}]
         /\ req'[a].at \notin Working
         /\ \A b \in Slots : req'[b].at \in Working => req'[b] = req[b]
         /\ \A b \in Slots \ {a} : req[b].at \in Working => req'[b] = req[b]
         /\ \A b \in Slots \ {a} : req[b].m \in Writes /\ req[b].at \in Working =>
               req[b].m # req[a].m /\ pending'[req[b].m] = b
<1> DEFINE done(b) == b = a \/ (req[b].at = "behind" /\ req[b].m = req[a].m)
<1>0. Requests /\ Server /\ WorkIsPending
  BY DEF ReceiptInvariant
<1>1. /\ req' = [b \in Slots |-> IF done(b) THEN Answered(b, outcome) ELSE req[b]]
      /\ pending' = [pending EXCEPT ![req[a].m] = None]
  BY DEF Finish
<1>2. \A b \in Slots : IsRow(req[b]) /\ IsRow(Answered(b, outcome))
  BY <1>0, AnsweredRow DEF Requests, IsRow
<1>3. Requests'
  BY <1>1, <1>2 DEF Requests, IsRow
<1>4. pending' \in [Writes -> Slots \cup {None}]
  BY <1>0, <1>1 DEF Server
<1>5. \A b \in Slots : done(b) => req'[b].at \notin Working
  BY <1>0, <1>1, AnsweredRow
<1>6. \A b \in Slots : ~done(b) => req'[b] = req[b]
  BY <1>1
<1>7. \A b \in Slots \ {a} : req[b].at \in Working => ~done(b)
  BY DEF Working
<1>8. \A b \in Slots \ {a} : req[b].m \in Writes /\ req[b].at \in Working =>
         req[b].m # req[a].m /\ pending'[req[b].m] = b
  BY <1>0, <1>1 DEF WorkIsPending, Server
<1> HIDE DEF done
<1>9. done(a)
  BY DEF done
<1> QED BY <1>3, <1>4, <1>5, <1>6, <1>7, <1>8, <1>9

LEMMA HandleKeeps == ASSUME ReceiptInvariant, NEW a \in Slots, Handle(a) PROVE ReceiptInvariant'
<1> DEFINE m == req[a].m
<1>0. /\ Requests /\ Server /\ WorkIsPending /\ HandledOnce
      /\ req[a].at = "running" /\ UNCHANGED <<receipt, gaps>>
  BY DEF ReceiptInvariant, Handle
<1>1. CASE /\ handled' = [handled EXCEPT ![m] = @ + 1]
           /\ req' = [req EXCEPT ![a].at = "handled"] /\ UNCHANGED pending
  <2>1. /\ Requests' /\ req'[a].at = "handled" /\ req'[a].m = m
        /\ \A b \in Slots \ {a} : req'[b] = req[b]
    BY <1>0, <1>1 DEF Requests
  <2>2. Server'
    <3>1. \A w \in Writes : handled'[w] = IF w = m THEN handled[w] + 1 ELSE handled[w]
      BY <1>0, <1>1 DEF Server
    <3>2. DOMAIN handled' = Writes /\ handled' = [w \in Writes |-> handled'[w]]
      BY <1>0, <1>1 DEF Server
    <3>3. \A w \in Writes : handled'[w] \in Nat
      BY <1>0, <3>1 DEF Server
    <3> QED BY <1>0, <1>1, <3>2, <3>3 DEF Server
  <2>3. WorkIsPending'
    BY <1>0, <1>1, <2>1 DEF WorkIsPending, Working
  <2>4. ASSUME NEW w \in Writes PROVE Counted(w)'
    <3>1. Counted(w)
      BY <1>0 DEF HandledOnce
    <3>2. CASE w = m
      <4>1. pending[w] = a /\ receipt[w] = 0
        BY <1>0, <3>2 DEF WorkIsPending, Working
      <4>2. \A b \in Slots : ~(req[b].m = w /\ req[b].at = "handled")
        BY <1>0, <4>1 DEF WorkIsPending, Working
      <4>3. handled[w] = gaps[w]
        BY <1>0, <3>1, <4>1, <4>2 DEF Counted, AtReceipt, Server
      <4>4. handled'[w] = gaps'[w] + 1
        BY <1>0, <1>1, <3>2, <4>3 DEF Server
      <4>5. AtReceipt(w)'
        BY <2>1, <3>2 DEF AtReceipt
      <4> QED BY <4>4, <4>5 DEF Counted
    <3>3. CASE w # m
      <4>1. handled'[w] = handled[w] /\ receipt'[w] = receipt[w] /\ gaps'[w] = gaps[w]
        BY <1>0, <1>1, <3>3 DEF Server
      <4>2. \A b \in Slots :
               (req[b].m = w /\ req[b].at = "handled") <=> (req'[b].m = w /\ req'[b].at = "handled")
        BY <2>1, <3>3
      <4>3. AtReceipt(w)' = AtReceipt(w)
        BY <4>2 DEF AtReceipt
      <4> QED BY <3>1, <4>1, <4>3 DEF Counted
    <3> QED BY <3>2, <3>3
  <2>5. HandledOnce'
    BY <1>0, <2>4 DEF HandledOnce
  <2> QED BY <2>1, <2>2, <2>3, <2>5 DEF ReceiptInvariant
<1>2. CASE Finish(a, "error") /\ UNCHANGED handled
  <2>1. /\ Requests' /\ pending' \in [Writes -> Slots \cup {None}]
        /\ \A b \in Slots : req'[b].at \in Working => req'[b] = req[b] /\ b # a
        /\ \A b \in Slots \ {a} : req[b].at \in Working => req'[b] = req[b]
        /\ \A b \in Slots \ {a} : req[b].m \in Writes /\ req[b].at \in Working =>
              pending'[req[b].m] = b
    BY <1>0, <1>2, FinishLeaves DEF Working
  <2>2. Server'
    BY <1>0, <1>2, <2>1 DEF Server
  <2>3. WorkIsPending'
    BY <1>0, <2>1 DEF WorkIsPending
  <2>4. \A b \in Slots, w \in Writes :
           (req[b].m = w /\ req[b].at = "handled") <=> (req'[b].m = w /\ req'[b].at = "handled")
    BY <1>0, <2>1 DEF Working
  <2>5. \A w \in Writes : AtReceipt(w)' = AtReceipt(w)
    BY <2>4 DEF AtReceipt
  <2>6. HandledOnce'
    BY <1>0, <1>2, <2>5 DEF HandledOnce, Counted
  <2> QED BY <2>1, <2>2, <2>3, <2>6 DEF ReceiptInvariant
<1> QED BY <1>1, <1>2 DEF Handle

\* The work of a is over: no one else works on its write.
LEMMA NoneAtReceipt ==
  ASSUME ReceiptInvariant, NEW a \in Slots, req[a].at = "handled", NEW m, m = req[a].m,
         NEW outcome \in {"ok", "error"}, Finish(a, outcome), UNCHANGED handled,
         \A w \in Writes \ {m} : receipt'[w] = receipt[w] /\ gaps'[w] = gaps[w],
         Server'
  PROVE  /\ Requests' /\ (\A w \in Writes \ {m} : Counted(w)')
         /\ m \in Writes => ~AtReceipt(m)'
         /\ \A b \in Slots : req'[b].m \in Writes /\ req'[b].at \in Working =>
               pending'[req'[b].m] = b /\ req'[b].m # m /\ receipt'[req'[b].m] = 0
<1>0. Requests /\ Server /\ WorkIsPending /\ HandledOnce
  BY DEF ReceiptInvariant
<1>1. /\ Requests'
      /\ \A b \in Slots : req'[b].at \in Working => req'[b] = req[b] /\ b # a
      /\ \A b \in Slots \ {a} : req[b].at \in Working => req'[b] = req[b]
      /\ \A b \in Slots \ {a} : req[b].m \in Writes /\ req[b].at \in Working =>
            req[b].m # m /\ pending'[req[b].m] = b
  BY <1>0, FinishLeaves DEF Working
<1>2. ASSUME NEW w \in Writes \ {m} PROVE Counted(w)'
  <2>1. \A b \in Slots :
           (req[b].m = w /\ req[b].at = "handled") <=> (req'[b].m = w /\ req'[b].at = "handled")
    BY <1>1, <1>2 DEF Working
  <2>2. AtReceipt(w)' = AtReceipt(w) /\ Counted(w)
    BY <1>0, <2>1 DEF AtReceipt, HandledOnce
  <2> QED BY <1>2, <2>2 DEF Counted
<1>3. ASSUME NEW b \in Slots, req'[b].m \in Writes, req'[b].at \in Working
      PROVE  pending'[req'[b].m] = b /\ req'[b].m # m /\ receipt'[req'[b].m] = 0
  BY <1>0, <1>1, <1>3 DEF WorkIsPending
<1>4. ASSUME m \in Writes PROVE ~AtReceipt(m)'
  BY <1>3, <1>4 DEF AtReceipt, Working
<1> QED BY <1>1, <1>2, <1>3, <1>4

LEMMA OneMore ==
  ASSUME NEW f \in [Writes -> Nat], NEW m
  PROVE  /\ [f EXCEPT ![m] = @ + 1] \in [Writes -> Nat]
         /\ \A w \in Writes : [f EXCEPT ![m] = @ + 1][w] = IF w = m THEN f[w] + 1 ELSE f[w]
<1> DEFINE g == [f EXCEPT ![m] = @ + 1]
<1>1. g = [w \in Writes |-> g[w]] /\ \A w \in Writes : g[w] = IF w = m THEN f[w] + 1 ELSE f[w]
  OBVIOUS
<1> HIDE DEF g
<1>2. \A w \in Writes : g[w] \in Nat
  BY <1>1
<1> QED BY <1>1, <1>2 DEF g

LEMMA RecordKeeps == ASSUME ReceiptInvariant, NEW a \in Slots, Record(a) PROVE ReceiptInvariant'
<1> PICK m : m = req[a].m
  OBVIOUS
<1>0. /\ Requests /\ Server /\ WorkIsPending /\ HandledOnce
      /\ req[a].at = "handled" /\ UNCHANGED handled
  BY DEF ReceiptInvariant, Record
<1>1. ASSUME m \in Writes PROVE receipt[m] = 0 /\ handled[m] = gaps[m] + 1
  <2>1. receipt[m] = 0 /\ AtReceipt(m)
    BY <1>0, <1>1 DEF WorkIsPending, Working, AtReceipt
  <2> QED BY <1>0, <1>1, <2>1 DEF HandledOnce, Counted
<1>2. CASE receipt' = [receipt EXCEPT ![m] = handled[m]] /\ Finish(a, "ok") /\ UNCHANGED gaps
  <2>1. Server'
    BY <1>0, <1>2, FinishLeaves DEF Server, Working
  <2>2. \A w \in Writes \ {m} : receipt'[w] = receipt[w] /\ gaps'[w] = gaps[w]
    BY <1>0, <1>2 DEF Server
  <2>3. /\ Requests' /\ (\A w \in Writes \ {m} : Counted(w)')
        /\ \A b \in Slots : req'[b].m \in Writes /\ req'[b].at \in Working =>
              pending'[req'[b].m] = b /\ receipt'[req'[b].m] = 0
    BY <1>0, <1>2, <2>1, <2>2, NoneAtReceipt
  <2>4. ASSUME m \in Writes PROVE Counted(m)'
    <3>1. receipt'[m] = handled[m] /\ handled[m] # 0
      BY <1>0, <1>1, <1>2, <2>4 DEF Server
    <3> QED BY <1>0, <1>1, <1>2, <2>4, <3>1 DEF Counted
  <2>5. HandledOnce'
    BY <2>3, <2>4 DEF HandledOnce
  <2> QED BY <2>1, <2>3, <2>5 DEF ReceiptInvariant, WorkIsPending
<1>3. CASE gaps' = [gaps EXCEPT ![m] = @ + 1] /\ Finish(a, "error") /\ UNCHANGED receipt
  <2>1. gaps' \in [Writes -> Nat] /\ \A w \in Writes : gaps'[w] = IF w = m THEN gaps[w] + 1 ELSE gaps[w]
    BY <1>0, <1>3, OneMore DEF Server
  <2>2. Server'
    BY <1>0, <1>3, <2>1, FinishLeaves DEF Server, Working
  <2>3. \A w \in Writes \ {m} : receipt'[w] = receipt[w] /\ gaps'[w] = gaps[w]
    BY <1>3, <2>1
  <2>4. /\ Requests' /\ (\A w \in Writes \ {m} : Counted(w)')
        /\ m \in Writes => ~AtReceipt(m)'
        /\ \A b \in Slots : req'[b].m \in Writes /\ req'[b].at \in Working =>
              pending'[req'[b].m] = b /\ receipt'[req'[b].m] = 0
    BY <1>0, <1>3, <2>2, <2>3, NoneAtReceipt
  <2>5. ASSUME m \in Writes PROVE Counted(m)'
    BY <1>0, <1>1, <1>3, <2>1, <2>4, <2>5 DEF Counted, Server
  <2>6. HandledOnce'
    BY <2>4, <2>5 DEF HandledOnce
  <2> QED BY <2>2, <2>4, <2>6 DEF ReceiptInvariant, WorkIsPending
<1> QED BY <1>2, <1>3 DEF Record

LEMMA LoseKeeps == ASSUME ReceiptInvariant, NEW a \in Slots, Lose(a) PROVE ReceiptInvariant'
<1>1. /\ req[a].at \notin Working /\ req' = [req EXCEPT ![a] = Free]
      /\ UNCHANGED <<server, gaps>>
  BY DEF Lose, Working
<1> QED BY <1>1, FreedKeeps

\* Work whose process dies leaves no row, and a gap when its handler had committed.
LEMMA ServerDiesKeeps == ASSUME ReceiptInvariant, ServerDies PROVE ReceiptInvariant'
<1>0. /\ Requests /\ Server /\ WorkIsPending /\ HandledOnce /\ UNCHANGED <<receipt, handled>>
      /\ pending' = [m \in Writes |-> None]
      /\ gaps' = [m \in Writes |-> gaps[m] + IF AtReceipt(m) THEN 1 ELSE 0]
  BY DEF ReceiptInvariant, ServerDies
<1>1. req' = [a \in Slots |-> IF ~(req[a].at \in {"behind", "running", "handled"}) THEN req[a]
                              ELSE IF req[a].by = "nobody" THEN Free
                              ELSE [req[a] EXCEPT !.at = "dead"]]
  BY DEF ServerDies
<1>2. \A a \in Slots : IsRow(req'[a]) /\ req'[a].at \notin Working
  BY <1>0, <1>1 DEF Requests, IsRow, Free, Working
<1>3. Requests'
  BY <1>1, <1>2 DEF Requests, IsRow
<1>4. Server' /\ WorkIsPending'
  <2>1. gaps' \in [Writes -> Nat] /\ pending' \in [Writes -> Slots \cup {None}]
    BY <1>0 DEF Server
  <2> QED BY <1>0, <1>2, <2>1 DEF Server, WorkIsPending
<1>5. ASSUME NEW w \in Writes PROVE Counted(w)'
  <2>1. Counted(w) /\ ~AtReceipt(w)'
    BY <1>0, <1>2 DEF HandledOnce, AtReceipt, Working
  <2>2. AtReceipt(w) => receipt[w] = 0
    BY <1>0 DEF AtReceipt, WorkIsPending, Working
  <2>3. gaps'[w] = gaps[w] + IF AtReceipt(w) THEN 1 ELSE 0
    BY <1>0
  <2> QED BY <1>0, <2>1, <2>2, <2>3 DEF Counted, Server
<1>6. HandledOnce'
  BY <1>5 DEF HandledOnce
<1> QED BY <1>3, <1>4, <1>6 DEF ReceiptInvariant

-----------------------------------------------------------------------------

LEMMA ReceiptInit == Init => ReceiptInvariant
<1> SUFFICES ASSUME Init PROVE ReceiptInvariant
  OBVIOUS
<1>1. Requests /\ \A a \in Slots : req[a].at = "free"
  BY DEF Init, Requests, Free
<1>2. Server /\ \A m \in Writes : handled[m] = 0 /\ gaps[m] = 0 /\ receipt[m] = 0
  BY DEF Init, Server
<1> QED BY <1>1, <1>2 DEF ReceiptInvariant, WorkIsPending, Working, HandledOnce, Counted, AtReceipt

LEMMA ReceiptNext == ReceiptInvariant /\ [Next]_vars => ReceiptInvariant'
<1> SUFFICES ASSUME ReceiptInvariant, [Next]_vars PROVE ReceiptInvariant'
  OBVIOUS
<1>1. CASE UserSaves \/ UserDiscards \/ SignOut \/ SignIn
  BY <1>1, UserKeeps
<1>2. CASE PhoneWorks \/ PhoneDies
  BY <1>2, PhoneWorksKeeps, PhoneDiesKeeps
<1>3. CASE ServerWorks
  BY <1>3, ArriveKeeps, HandleKeeps, RecordKeeps, LoseKeeps DEF ServerWorks
<1>4. CASE ServerDies
  BY <1>4, ServerDiesKeeps
<1>5. CASE UNCHANGED vars
  BY <1>5, IdleKeeps DEF vars, history
<1> QED BY <1>1, <1>2, <1>3, <1>4, <1>5 DEF Next

\* AppearsOnce (run offline_sync): the idempotency interceptor and its receipts carry a write
\* out once however often the phone sends it, and once more only for each receipt that could not
\* be written after the commit (the process died, or the database failed); for any writes, any
\* number of requests at a time and any mishaps.
THEOREM WritesAppearOnce == Spec => []AppearsOnce
<1>1. ReceiptInvariant => AppearsOnce
  BY DEF ReceiptInvariant, Server, HandledOnce, Counted, AppearsOnce
<1> QED BY ReceiptInit, ReceiptNext, <1>1, PTL DEF Spec

-----------------------------------------------------------------------------
(* Taking writes out of the queue *)

\* Induction up to a number, over the numbers with a property.
LEMMA CountUp ==
  ASSUME NEW N \in Nat, NEW G, 0 \in G, \A n \in 0..(N - 1) : n \in G => n + 1 \in G
  PROVE  \A n \in 0..N : n \in G
<1> DEFINE bad == {n \in 0..N : n \notin G}
<1> SUFFICES ASSUME bad # {} PROVE FALSE
  OBVIOUS
<1>1. bad \subseteq Nat
  OBVIOUS
<1>2. PICK n \in bad : \A k \in bad : ~ (k < n)
  <2> HIDE DEF bad
  <2>1. PICK n \in bad : \A k \in bad : <<k, n>> \notin OpToRel(<, Nat)
    BY <1>1, NatLessThanWellFounded, WFMin
  <2>2. ASSUME NEW k \in bad, k < n PROVE FALSE
    <3>1. <<k, n>> \in Nat \X Nat
      BY <1>1
    <3>2. <<k, n>> \in OpToRel(<, Nat)
      BY <2>2, <3>1, Zenon DEF OpToRel
    <3> QED BY <2>1, <3>2
  <2> QED BY <2>2
<1>3. n \in 1..N /\ n - 1 \in 0..(N - 1)
  OBVIOUS
<1>4. (n - 1) + 1 = n /\ n - 1 < n
  BY <1>3
<1>5. n - 1 \in bad
  BY <1>3, <1>4
<1> QED BY <1>2, <1>4, <1>5

\* The filter of the first n elements, for every n.
Filtered(q, ms, n, k) ==
    k = [i \in 0..n |-> IF i = 0 THEN <<>>
                        ELSE IF q[i] \in ms THEN k[i - 1] ELSE Append(k[i - 1], q[i])]

LEMMA FilterExists ==
  ASSUME NEW q, NEW ms, NEW N \in Nat PROVE \E k : Filtered(q, ms, N, k)
<1> DEFINE G == {n \in 0..N : \E k : Filtered(q, ms, n, k)}
<1>1. 0 \in G
  <2>1. Filtered(q, ms, 0, [i \in 0..0 |-> <<>>])
    BY DEF Filtered
  <2> QED BY <2>1
<1>2. ASSUME NEW n \in 0..(N - 1), n \in G PROVE n + 1 \in G
  <2>1. PICK k : Filtered(q, ms, n, k)
    BY <1>2
  <2> DEFINE h == [i \in 0..(n + 1) |->
                     IF i = n + 1 THEN IF q[i] \in ms THEN k[n] ELSE Append(k[n], q[i]) ELSE k[i]]
  <2>2. \A i \in 0..n : h[i] = k[i]
    OBVIOUS
  <2>3. h[n + 1] = IF q[n + 1] \in ms THEN h[n] ELSE Append(h[n], q[n + 1])
    BY <2>2
  <2>4. \A i \in 0..n : h[i] = IF i = 0 THEN <<>>
                               ELSE IF q[i] \in ms THEN h[i - 1] ELSE Append(h[i - 1], q[i])
    <3> SUFFICES ASSUME NEW i \in 0..n
                 PROVE  h[i] = IF i = 0 THEN <<>>
                               ELSE IF q[i] \in ms THEN h[i - 1] ELSE Append(h[i - 1], q[i])
      OBVIOUS
    <3>1. k[i] = IF i = 0 THEN <<>> ELSE IF q[i] \in ms THEN k[i - 1] ELSE Append(k[i - 1], q[i])
      BY <2>1 DEF Filtered
    <3>2. h[i] = k[i] /\ (i # 0 => h[i - 1] = k[i - 1])
      <4>1. i # 0 => i - 1 \in 0..n
        OBVIOUS
      <4> QED BY <2>2, <4>1
    <3> HIDE DEF h
    <3> QED BY <3>1, <3>2
  <2>5. h = [i \in 0..(n + 1) |-> h[i]]
    OBVIOUS
  <2> HIDE DEF h
  <2>6. \A i \in 0..(n + 1) : h[i] = IF i = 0 THEN <<>>
                               ELSE IF q[i] \in ms THEN h[i - 1] ELSE Append(h[i - 1], q[i])
    BY <2>3, <2>4
  <2>7. Filtered(q, ms, n + 1, h)
    BY <2>5, <2>6 DEF Filtered
  <2> QED BY <2>7
<1> HIDE DEF G
<1>3. \A n \in 0..N : n \in G
  BY <1>1, <1>2, CountUp
<1> QED BY <1>3 DEF G

\* A sequence made of the elements of q up to n that are not among ms, in the order of q.
PartOf(s, q, ms, n) ==
    /\ s \in Seq(Writes)
    /\ \A i \in 1..Len(s) : s[i] \notin ms /\ \E a \in 1..n : q[a] = s[i]
    /\ \A a \in 1..n : q[a] \notin ms => \E i \in 1..Len(s) : s[i] = q[a]
    /\ \A i, j \in 1..Len(s) : i < j => \E a, b \in 1..n : a < b /\ q[a] = s[i] /\ q[b] = s[j]

LEMMA PartGrows ==
  ASSUME NEW q \in Seq(Writes), NEW ms, NEW n \in 0..(Len(q) - 1), NEW s, PartOf(s, q, ms, n)
  PROVE  PartOf(IF q[n + 1] \in ms THEN s ELSE Append(s, q[n + 1]), q, ms, n + 1)
<1>0. n + 1 \in 1..Len(q) /\ q[n + 1] \in Writes /\ n \in Nat /\ s \in Seq(Writes) /\ Len(s) \in Nat
  BY DEF PartOf
<1>1. CASE q[n + 1] \in ms
  <2>1. \A i \in 1..Len(s) : s[i] \notin ms /\ \E a \in 1..(n + 1) : q[a] = s[i]
    BY <1>0 DEF PartOf
  <2>2. \A a \in 1..(n + 1) : q[a] \notin ms => a \in 1..n
    BY <1>0, <1>1
  <2>3. \A i, j \in 1..Len(s) : i < j =>
           \E a, b \in 1..(n + 1) : a < b /\ q[a] = s[i] /\ q[b] = s[j]
    BY <1>0 DEF PartOf
  <2>4. \A a \in 1..(n + 1) : q[a] \notin ms => \E i \in 1..Len(s) : s[i] = q[a]
    BY <2>2 DEF PartOf
  <2>5. PartOf(s, q, ms, n + 1)
    BY <1>0, <2>1, <2>3, <2>4 DEF PartOf
  <2> QED BY <1>1, <2>5
<1>2. CASE q[n + 1] \notin ms
  <2> DEFINE t == Append(s, q[n + 1])
  <2>1. /\ t \in Seq(Writes) /\ Len(t) = Len(s) + 1 /\ t[Len(s) + 1] = q[n + 1]
        /\ \A i \in 1..Len(s) : t[i] = s[i]
    BY <1>0, AppendProperties
  <2> HIDE DEF t
  <2>2. ASSUME NEW i \in 1..Len(t) PROVE t[i] \notin ms /\ \E a \in 1..(n + 1) : q[a] = t[i]
    <3>1. CASE i \in 1..Len(s)
      <4>1. t[i] = s[i] /\ s[i] \notin ms
        BY <2>1, <3>1 DEF PartOf
      <4>2. PICK a \in 1..n : q[a] = s[i]
        BY <3>1 DEF PartOf
      <4> QED BY <1>0, <4>1, <4>2
    <3>2. CASE i = Len(s) + 1
      <4>1. t[i] = q[n + 1] /\ n + 1 \in 1..(n + 1)
        BY <1>0, <2>1, <3>2
      <4> QED BY <1>2, <4>1
    <3> QED BY <1>0, <2>1, <3>1, <3>2
  <2>3. ASSUME NEW a \in 1..(n + 1), q[a] \notin ms PROVE \E i \in 1..Len(t) : t[i] = q[a]
    <3>1. CASE a \in 1..n
      <4>1. PICK i \in 1..Len(s) : s[i] = q[a]
        BY <2>3, <3>1 DEF PartOf
      <4> QED BY <1>0, <2>1, <4>1
    <3>2. CASE a = n + 1
      <4>1. t[Len(s) + 1] = q[a] /\ Len(s) + 1 \in 1..Len(t)
        BY <1>0, <2>1, <3>2
      <4> QED BY <4>1
    <3> QED BY <1>0, <3>1, <3>2
  <2>4. ASSUME NEW i \in 1..Len(t), NEW j \in 1..Len(t), i < j
        PROVE  \E a, b \in 1..(n + 1) : a < b /\ q[a] = t[i] /\ q[b] = t[j]
    <3>1. i \in 1..Len(s)
      BY <1>0, <2>1, <2>4
    <3>2. CASE j \in 1..Len(s)
      <4>1. PICK a \in 1..n, b \in 1..n : a < b /\ q[a] = s[i] /\ q[b] = s[j]
        BY <2>4, <3>1, <3>2 DEF PartOf
      <4> QED BY <1>0, <2>1, <3>1, <3>2, <4>1
    <3>3. CASE j = Len(s) + 1
      <4>1. PICK a \in 1..n : q[a] = s[i]
        BY <3>1 DEF PartOf
      <4> QED BY <1>0, <2>1, <3>1, <3>3, <4>1
    <3> QED BY <1>0, <2>1, <3>2, <3>3
  <2>5. PartOf(t, q, ms, n + 1)
    BY <2>1, <2>2, <2>3, <2>4 DEF PartOf
  <2> QED BY <1>2, <2>5 DEF t
<1> QED BY <1>1, <1>2

\* Without(ms) has the writes of the queue that are not among ms, in their order.
LEMMA WithoutIs == ASSUME queue \in Seq(Writes), NEW ms PROVE PartOf(Without(ms), queue, ms, Len(queue))
<1> DEFINE N == Len(queue)
           k == CHOOSE f : Filtered(queue, ms, N, f)
           G == {n \in 0..N : PartOf(k[n], queue, ms, n)}
<1>1. N \in Nat
  OBVIOUS
<1>2. Filtered(queue, ms, N, k)
  BY <1>1, FilterExists
<1>3. Without(ms) = k[N]
  BY DEF Without, Filtered
<1> HIDE DEF k, N
<1>4. k[0] = <<>> /\ \A n \in 0..(N - 1) :
        k[n + 1] = IF queue[n + 1] \in ms THEN k[n] ELSE Append(k[n], queue[n + 1])
  <2>1. \A i \in 0..N : k[i] = IF i = 0 THEN <<>> ELSE IF queue[i] \in ms THEN k[i - 1]
                                                     ELSE Append(k[i - 1], queue[i])
    BY <1>2 DEF Filtered
  <2>2. k[0] = <<>>
    BY <1>1, <2>1
  <2>3. ASSUME NEW n \in 0..(N - 1)
        PROVE  k[n + 1] = IF queue[n + 1] \in ms THEN k[n] ELSE Append(k[n], queue[n + 1])
    <3>1. n + 1 \in 0..N /\ n + 1 # 0 /\ (n + 1) - 1 = n
      BY <1>1
    <3> QED BY <2>1, <3>1
  <2> QED BY <2>2, <2>3
<1>5. 0 \in G
  <2>1. <<>> \in Seq(Writes) /\ Len(<<>>) = 0 /\ 1..0 = {} /\ 0 \in 0..N
    BY <1>1
  <2> QED BY <1>4, <2>1 DEF PartOf
<1>6. ASSUME NEW n \in 0..(N - 1), n \in G PROVE n + 1 \in G
  <2>1. PartOf(k[n], queue, ms, n) /\ n \in 0..(Len(queue) - 1) /\ n + 1 \in 0..N
    BY <1>1, <1>6 DEF N
  <2>2. PartOf(k[n + 1], queue, ms, n + 1)
    BY <1>4, <2>1, PartGrows
  <2> QED BY <2>1, <2>2
<1> HIDE DEF G
<1>7. \A n \in 0..N : n \in G
  BY <1>1, <1>5, <1>6, CountUp
<1>8. N \in G
  BY <1>1, <1>7
<1> QED BY <1>3, <1>8 DEF G, N

\* x stands before y in the sequence s.
Before(s, x, y) == \E i, j \in DOMAIN s : i < j /\ s[i] = x /\ s[j] = y

LEMMA QueueShrinks ==
  ASSUME queue \in Seq(Writes), IsInjective(queue), NEW ms
  PROVE  /\ Without(ms) \in Seq(Writes) /\ IsInjective(Without(ms))
         /\ Range(Without(ms)) = Queued \ ms
         /\ \A x, y : Before(Without(ms), x, y) => Before(queue, x, y)
<1> DEFINE s == Without(ms)
<1>1. PartOf(s, queue, ms, Len(queue))
  BY WithoutIs
<1> HIDE DEF s
<1>2. /\ s \in Seq(Writes) /\ DOMAIN s = 1..Len(s) /\ Len(s) \in Nat
      /\ DOMAIN queue = 1..Len(queue) /\ Len(queue) \in Nat
  BY <1>1 DEF PartOf
<1>3. Range(s) = Queued \ ms
  <2>1. ASSUME NEW i \in 1..Len(s) PROVE s[i] \in Queued \ ms
    <3>1. PICK a \in 1..Len(queue) : queue[a] = s[i]
      BY <1>1, <2>1 DEF PartOf
    <3>2. s[i] \notin ms
      BY <1>1, <2>1 DEF PartOf
    <3> QED BY <1>2, <3>1, <3>2 DEF Range, Queued
  <2>2. ASSUME NEW a \in 1..Len(queue), queue[a] \notin ms PROVE queue[a] \in Range(s)
    <3>1. PICK i \in 1..Len(s) : s[i] = queue[a]
      BY <1>1, <2>2 DEF PartOf
    <3> QED BY <1>2, <3>1 DEF Range
  <2> QED BY <1>2, <2>1, <2>2 DEF Range, Queued
<1>4. ASSUME NEW x, NEW y, Before(s, x, y) PROVE Before(queue, x, y)
  <2>1. PICK i \in 1..Len(s), j \in 1..Len(s) : i < j /\ s[i] = x /\ s[j] = y
    BY <1>2, <1>4 DEF Before
  <2>2. PICK a \in 1..Len(queue), b \in 1..Len(queue) : a < b /\ queue[a] = s[i] /\ queue[b] = s[j]
    BY <1>1, <2>1 DEF PartOf
  <2> QED BY <1>2, <2>1, <2>2 DEF Before
<1>5. ASSUME NEW i \in 1..Len(s), NEW j \in 1..Len(s), i < j PROVE s[i] # s[j]
  <2>1. PICK a \in 1..Len(queue), b \in 1..Len(queue) : a < b /\ queue[a] = s[i] /\ queue[b] = s[j]
    BY <1>1, <1>5 DEF PartOf
  <2> QED BY <1>2, <2>1 DEF IsInjective
<1>6. IsInjective(s)
  <2> SUFFICES ASSUME NEW i \in DOMAIN s, NEW j \in DOMAIN s, s[i] = s[j] PROVE i = j
    BY DEF IsInjective
  <2>1. ~(i < j) /\ ~(j < i)
    BY <1>2, <1>5
  <2> QED BY <1>2, <2>1
<1> QED BY <1>2, <1>3, <1>4, <1>6 DEF s

LEMMA QueueGrows ==
  ASSUME queue \in Seq(Writes), IsInjective(queue), NEW m \in Writes \ Queued
  PROVE  /\ Append(queue, m) \in Seq(Writes) /\ IsInjective(Append(queue, m))
         /\ Range(Append(queue, m)) = Queued \cup {m}
         /\ \A x, y : Before(Append(queue, m), x, y) => Before(queue, x, y) \/ y = m
<1> DEFINE s == Append(queue, m)
<1>1. /\ s \in Seq(Writes) /\ Len(s) = Len(queue) + 1 /\ s[Len(queue) + 1] = m
      /\ \A i \in 1..Len(queue) : s[i] = queue[i]
  BY AppendProperties
<1> HIDE DEF s
<1>2. /\ DOMAIN s = 1..(Len(queue) + 1) /\ DOMAIN queue = 1..Len(queue) /\ Len(queue) \in Nat
  BY <1>1
<1>3. \A i \in DOMAIN s : i = Len(queue) + 1 \/ (i \in DOMAIN queue /\ s[i] = queue[i])
  BY <1>1, <1>2
<1>4. \A i \in DOMAIN queue : i \in DOMAIN s /\ s[i] = queue[i] /\ queue[i] # m
  BY <1>1, <1>2 DEF Queued, Range
<1>5. Range(s) = Queued \cup {m}
  <2>1. Len(queue) + 1 \in DOMAIN s
    BY <1>2
  <2>2. \A x \in Range(s) : x \in Queued \cup {m}
    BY <1>1, <1>3 DEF Range, Queued
  <2>3. \A x \in Queued \cup {m} : x \in Range(s)
    BY <1>1, <1>4, <2>1 DEF Range, Queued
  <2> QED BY <2>2, <2>3
<1>6. IsInjective(s)
  BY <1>1, <1>2, <1>3, <1>4 DEF IsInjective
<1>7. ASSUME NEW x, NEW y, Before(s, x, y), y # m PROVE Before(queue, x, y)
  <2>1. PICK i \in DOMAIN s, j \in DOMAIN s : i < j /\ s[i] = x /\ s[j] = y
    BY <1>7 DEF Before
  <2>2. j \in DOMAIN queue
    BY <1>1, <1>3, <1>7, <2>1
  <2>3. i \in DOMAIN queue
    BY <1>2, <2>1, <2>2
  <2> QED BY <1>4, <2>1, <2>2, <2>3 DEF Before
<1> QED BY <1>1, <1>5, <1>6, <1>7 DEF s

LEMMA TodoAdvances ==
  ASSUME NEW s \in Seq(Writes), IsInjective(s), s # <<>>
  PROVE  /\ Head(s) \in Writes /\ Head(s) \in Range(s)
         /\ Tail(s) \in Seq(Writes) /\ IsInjective(Tail(s))
         /\ Range(Tail(s)) \subseteq Range(s)
         /\ \A x : ~Before(s, x, Head(s))
         /\ \A x, y : Before(s, x, y) /\ x # Head(s) => Before(Tail(s), x, y)
<1>1. /\ Len(s) \in Nat \ {0} /\ DOMAIN s = 1..Len(s) /\ Head(s) = s[1] /\ Head(s) \in Writes
      /\ Tail(s) \in Seq(Writes) /\ Len(Tail(s)) = Len(s) - 1 /\ DOMAIN Tail(s) = 1..(Len(s) - 1)
      /\ \A i \in 1..(Len(s) - 1) : Tail(s)[i] = s[i + 1]
  OBVIOUS
<1> DEFINE t == Tail(s)
<1> HIDE DEF t
<1>2. \A i \in DOMAIN t : i + 1 \in DOMAIN s /\ t[i] = s[i + 1] /\ i \in Nat
  BY <1>1 DEF t
<1>3. \A i \in DOMAIN s : i = 1 \/ (i - 1 \in DOMAIN t /\ t[i - 1] = s[i])
  <2> SUFFICES ASSUME NEW i \in DOMAIN s, i # 1 PROVE i - 1 \in DOMAIN t /\ t[i - 1] = s[i]
    OBVIOUS
  <2>1. i - 1 \in 1..(Len(s) - 1) /\ (i - 1) + 1 = i
    BY <1>1
  <2> QED BY <1>1, <2>1 DEF t
<1>4. IsInjective(t)
  <2> SUFFICES ASSUME NEW i \in DOMAIN t, NEW j \in DOMAIN t, t[i] = t[j] PROVE i = j
    BY DEF IsInjective
  <2>1. i + 1 = j + 1
    BY <1>2 DEF IsInjective
  <2> QED BY <1>2, <2>1
<1>5. Range(t) \subseteq Range(s)
  BY <1>2 DEF Range
<1>6. ASSUME NEW x, Before(s, x, Head(s)) PROVE FALSE
  BY <1>1, <1>6 DEF Before, IsInjective
<1>7. ASSUME NEW x, NEW y, Before(s, x, y), x # Head(s) PROVE Before(t, x, y)
  <2>1. PICK i \in DOMAIN s, j \in DOMAIN s : i < j /\ s[i] = x /\ s[j] = y
    BY <1>7 DEF Before
  <2>2. i # 1 /\ j # 1 /\ i - 1 < j - 1
    BY <1>1, <1>7, <2>1
  <2> QED BY <1>3, <2>1, <2>2 DEF Before
<1>8. Head(s) \in Range(s)
  BY <1>1 DEF Range
<1> QED BY <1>1, <1>4, <1>5, <1>6, <1>7, <1>8 DEF t

-----------------------------------------------------------------------------
(* What holds of the phone and of the server together *)

UserTypes ==
    /\ signedIn \in BOOLEAN /\ mishapsLeft \in Nat
    /\ write \in [Writes -> Stages]
    /\ discarding \in [ms : SUBSET Writes, all : BOOLEAN, rows : Seq(Writes)]

QueueTypes == queue \in Seq(Writes) /\ IsInjective(queue) /\ byLocalId \subseteq Writes

RowTypes ==
    /\ ids \in [Creates -> Nat]
    /\ offline \in [Creates -> Writes \cup {None}]
    /\ copy \in [Creates -> Writes \cup {None, Synced}]

FlushTypes ==
    /\ flush \in [on : BOOLEAN, todo : Seq(Writes), at : {"next", "waiting", "synced"}]
    /\ IsInjective(flush.todo)

RequestRows ==
    [m : Writes \cup {None},
     at : {"free", "sent", "behind", "running", "handled", "ok", "error", "dead"},
     by : {"direct", "replay", "nobody"}]

ReqTypes == req \in [Slots -> RequestRows]

HistoryTypes == overtaken \subseteq Writes /\ crossed \subseteq Writes /\ direct \subseteq Writes

Types ==
    UserTypes /\ QueueTypes /\ RowTypes /\ FlushTypes /\ ReqTypes /\ Server /\ HistoryTypes

\* What the user is told of a write that has been in the queue.
Begun == {"staging", "kept", "synced", "discarded"}

\* Everything the phone still holds in front of m has been carried out.
FrontIsDone(m) == \A x \in Writes : Before(queue, x, m) => handled[x] > 0

\* A write is queued from the moment the user is told that it is kept, and only then; the flush
\* works on writes that have been in the queue.
WriteAt(m) ==
    /\ m \in Queued => write[m] \in {"staging", "kept"}
    /\ write[m] \in {"staging", "kept"} => m \in Queued \cup overtaken
    /\ write[m] \in {"saved", "synced"} => handled[m] > 0
    /\ receipt[m] # 0 => handled[m] > 0
    /\ m \in Range(flush.todo) => write[m] \in Begun

\* A request carries a write of the user's; the one the flush waits for carries the first write
\* of its snapshot.  One that came from the queue has nothing undone in front of it.
SlotAt(a) ==
    /\ req[a].at # "free" => req[a].m \in Writes
    /\ req[a].at = "free" => req[a].by = "nobody"
    /\ req[a].by = "direct" => req[a].m \in direct /\ write[req[a].m] = "sending"
    /\ req[a].by = "replay" => flush.at = "waiting" /\ req[a].m = Head(flush.todo)
    /\ req[a].at \in {"handled", "ok"} => handled[req[a].m] > 0
    /\ req[a].at # "free" /\ req[a].m \notin direct =>
          write[req[a].m] \in Begun /\ FrontIsDone(req[a].m)

\* Two answers the phone waits for are about different writes, and one at most is of the flush.
OneEach == \A a, b \in Slots : a # b =>
    /\ req[a].by = "direct" /\ req[b].by = "direct" => req[a].m # req[b].m
    /\ req[a].by = "replay" => req[b].by # "replay"

\* A pending row is under the record its write is about, and the write is on its way, overtaken
\* or crossed; the write just synchronized has left the rows.
RowAt(c) ==
    /\ offline[c] # None =>
          /\ RecordOf(offline[c]) = c /\ offline[c] \in Creates \cup byLocalId
          /\ offline[c] \in Queued \cup overtaken \cup crossed
    /\ copy[c] \in Writes =>
          /\ RecordOf(copy[c]) = c /\ copy[c] \in Edits
          /\ \/ copy[c] \in Queued \cup overtaken \cup crossed
             \/ copy[c] \in byLocalId /\ write[copy[c]] = "discarded"
    /\ flush.at = "synced" /\ Head(flush.todo) \notin overtaken =>
          offline[c] # Head(flush.todo) /\ copy[c] # Head(flush.todo)

\* A flush that waits has its request; the write it has synchronized was carried out; and what
\* the queue holds in front of a write of the snapshot is done or in front of it there too.
FlushOrder ==
    \A x \in Writes, y \in Range(flush.todo) :
        Before(queue, x, y) => handled[x] > 0 \/ Before(flush.todo, x, y)

FlushState ==
    /\ flush.at # "next" => flush.on /\ flush.todo # <<>>
    /\ flush.at = "waiting" => \E a \in Slots : req[a].by = "replay"
    /\ flush.at = "synced" =>
          /\ handled[Head(flush.todo)] > 0
          /\ write[Head(flush.todo)] = "staging" => Head(flush.todo) \in overtaken
    /\ FlushOrder

\* No row is left that discarding m should take with it.
RowGone(m) == \A c \in Creates : offline[c] # m /\ (copy[c] = m => m \in byLocalId)

\* A write being discarded has lost its rows, or is still to lose them, or something has crossed
\* its discarding, as every flush does.
DiscardState ==
    /\ flush.on => discarding.ms \subseteq crossed
    /\ \A m \in discarding.ms : m \in Range(discarding.rows) \cup crossed \/ RowGone(m)

PhoneInv ==
    /\ Types
    /\ \A m \in Writes : WriteAt(m)
    /\ \A a \in Slots : SlotAt(a)
    /\ OneEach
    /\ \A c \in Creates : RowAt(c)
    /\ FlushState /\ DiscardState

\* A step that starts no flush and writes no row of a write being discarded, but for those it
\* crosses, leaves the discarding as it was.
LEMMA DiscardStays ==
  ASSUME DiscardState, UNCHANGED discarding, crossed \subseteq crossed', byLocalId \subseteq byLocalId',
         flush'.on => flush.on \/ discarding.ms \subseteq crossed',
         \A c \in Creates :
            /\ offline'[c] \in discarding.ms \ crossed' => offline'[c] = offline[c]
            /\ copy'[c] \in discarding.ms \ crossed' => copy'[c] = copy[c]
  PROVE  DiscardState'
<1>1. flush'.on => discarding.ms \subseteq crossed'
  BY DEF DiscardState
<1>2. ASSUME NEW m \in discarding.ms, m \notin Range(discarding.rows) \cup crossed' PROVE RowGone(m)'
  <2>1. RowGone(m)
    BY <1>2 DEF DiscardState
  <2> QED BY <1>2, <2>1 DEF RowGone
<1> QED BY <1>1, <1>2 DEF DiscardState

\* What a phone step leaves of a request that it does not send: nothing changes, or the phone
\* does not wait for it any longer.
LeftAlone(a) ==
    \/ req'[a] = req[a]
    \/ req'[a].by = "nobody" /\ req'[a].at = "free"
    \/ /\ req'[a].by = "nobody" /\ req[a].at # "free"
       /\ req'[a].at = req[a].at /\ req'[a].m = req[a].m

\* A step of the phone that sends nothing keeps what holds of the requests, when the writes
\* begun stay begun and none gets a write in front of it.
LEMMA SlotsKept ==
  ASSUME PhoneInv, UNCHANGED handled, direct \subseteq direct',
         \A a \in Slots : LeftAlone(a),
         \A m \in Writes : write[m] \in Begun => write'[m] \in Begun,
         \A a \in Slots : req'[a].by = "direct" => write'[req[a].m] = "sending",
         \A a \in Slots : req'[a].by = "replay" =>
             flush'.at = "waiting" /\ Head(flush'.todo) = Head(flush.todo),
         \A x, m \in Writes : write[m] \in Begun /\ Before(queue', x, m) => Before(queue, x, m)
  PROVE  (\A a \in Slots : SlotAt(a)') /\ OneEach'
<1>1. ASSUME NEW a \in Slots PROVE SlotAt(a)'
  <2>1. SlotAt(a) /\ LeftAlone(a)
    BY DEF PhoneInv
  <2>2. CASE req'[a] = req[a]
    <3>1. \A m \in Writes : write[m] \in Begun /\ FrontIsDone(m) => FrontIsDone(m)'
      BY DEF FrontIsDone
    <3> QED BY <2>1, <2>2, <3>1 DEF SlotAt
  <2>3. CASE req'[a].by = "nobody" /\ req'[a].at = "free"
    BY <2>3 DEF SlotAt
  <2>4. CASE /\ req'[a].by = "nobody" /\ req[a].at # "free"
             /\ req'[a].at = req[a].at /\ req'[a].m = req[a].m
    <3>1. \A m \in Writes : write[m] \in Begun /\ FrontIsDone(m) => FrontIsDone(m)'
      BY DEF FrontIsDone
    <3> QED BY <2>1, <2>4, <3>1 DEF SlotAt
  <2> QED BY <2>1, <2>2, <2>3, <2>4 DEF LeftAlone
<1>2. OneEach'
  <2>1. \A a \in Slots : req'[a].by \in {"direct", "replay"} => req'[a] = req[a]
    BY DEF LeftAlone
  <2> QED BY <2>1 DEF PhoneInv, OneEach
<1> QED BY <1>1, <1>2

\* What a step keeps that changes neither the writes nor the rows, the requests or the flush.
LEMMA TalkKeeps ==
  ASSUME PhoneInv, UserTypes', DiscardState',
         UNCHANGED <<write, queue, byLocalId, ids, offline, copy, flush, req, server, history>>
  PROVE  PhoneInv'
<1> USE DEF history, server
<1>1. Types'
  BY DEF PhoneInv, Types, QueueTypes, RowTypes, FlushTypes, ReqTypes, Server, HistoryTypes
<1>2. \A m \in Writes : WriteAt(m)'
  BY DEF PhoneInv, WriteAt, Queued
<1>3. (\A a \in Slots : SlotAt(a)') /\ OneEach'
  BY DEF PhoneInv, SlotAt, OneEach, FrontIsDone
<1>4. \A c \in Creates : RowAt(c)'
  BY DEF PhoneInv, RowAt, Queued
<1>5. FlushState'
  BY DEF PhoneInv, FlushState, FlushOrder
<1> QED BY <1>1, <1>2, <1>3, <1>4, <1>5 DEF PhoneInv

LEMMA MishapCounts == ASSUME mishapsLeft \in Nat, Mishap PROVE mishapsLeft' \in Nat
BY DEF Mishap

LEMMA Reversed ==
  ASSUME NEW s \in Seq(Writes) PROVE Reverse(s) \in Seq(Writes) /\ Range(Reverse(s)) = Range(s)
<1> DEFINE t == Reverse(s)
<1>1. /\ Len(s) \in Nat /\ DOMAIN s = 1..Len(s) /\ DOMAIN t = 1..Len(s)
      /\ \A i \in 1..Len(s) : s[i] \in Writes /\ t[i] = s[(Len(s) - i) + 1]
  BY DEF Reverse
<1>2. \A i \in 1..Len(s) : (Len(s) - i) + 1 \in 1..Len(s)
  BY <1>1
<1>3. t \in Seq(Writes)
  BY <1>1, <1>2 DEF Reverse
<1> HIDE DEF t
<1>4. ASSUME NEW i \in 1..Len(s) PROVE s[i] \in Range(t) /\ t[i] \in Range(s)
  <2>1. (Len(s) - ((Len(s) - i) + 1)) + 1 = i
    BY <1>1
  <2>2. t[(Len(s) - i) + 1] = s[i]
    BY <1>1, <1>2, <2>1
  <2> QED BY <1>1, <1>2, <2>2 DEF Range
<1>5. Range(t) = Range(s)
  BY <1>1, <1>4 DEF Range
<1> QED BY <1>3, <1>5 DEF t

LEMMA TalksKeep ==
  ASSUME PhoneInv, SignOut \/ SignIn \/ AskClear \/ \E m \in Writes : AskDiscard(m) PROVE PhoneInv'
<1>0. UserTypes /\ Queued \subseteq Writes /\ queue \in Seq(Writes)
  BY DEF PhoneInv, Types, QueueTypes, Queued, Range
<1>1. UserTypes'
  <2>1. CASE SignOut
    <3>1. mishapsLeft' \in Nat /\ signedIn' = FALSE /\ UNCHANGED <<write, discarding>>
      BY <1>0, <2>1, MishapCounts DEF SignOut, UserTypes
    <3> QED BY <1>0, <3>1 DEF UserTypes
  <2>2. CASE SignIn
    BY <1>0, <2>2 DEF SignIn, UserTypes
  <2>3. CASE AskClear
    BY <1>0, <2>3, Reversed DEF AskClear, UserTypes
  <2>4. CASE \E m \in Writes : AskDiscard(m)
    BY <1>0, <2>4 DEF AskDiscard, UserTypes
  <2> QED BY <2>1, <2>2, <2>3, <2>4
<1>2. UNCHANGED <<write, queue, byLocalId, ids, offline, copy, flush, req, server, history>>
  BY DEF SignOut, SignIn, AskClear, AskDiscard
<1>3. DiscardState'
  <2>1. CASE AskClear
    <3>1. ~flush.on /\ UNCHANGED flush /\ discarding' = [ms |-> Queued, all |-> TRUE, rows |-> Reverse(queue)]
      BY <2>1 DEF AskClear
    <3> QED BY <1>0, <3>1, Reversed DEF DiscardState, Queued
  <2>2. CASE \E m \in Writes : AskDiscard(m)
    <3>1. PICK m \in Writes : AskDiscard(m)
      BY <2>2
    <3>2. ~flush.on /\ UNCHANGED flush /\ discarding' = [ms |-> {m}, all |-> FALSE, rows |-> <<m>>]
      BY <3>1 DEF AskDiscard
    <3>3. m \in Range(<<m>>)
      BY DEF Range
    <3> QED BY <3>2, <3>3 DEF DiscardState
  <2>3. CASE SignOut \/ SignIn
    <3>1. UNCHANGED <<discarding, crossed, byLocalId, flush, offline, copy>>
      BY <2>3 DEF SignOut, SignIn, history
    <3> QED BY <3>1, DiscardStays DEF PhoneInv
  <2> QED BY <2>1, <2>2, <2>3
<1> QED BY <1>1, <1>2, <1>3, TalkKeeps

\* The same of a step that changes only where the flush is.
LEMMA FlushMoves ==
  ASSUME PhoneInv, FlushTypes', flush.at = "next", flush'.at = "next", FlushOrder',
         \A m \in Range(flush'.todo) : m \in Queued \cup Range(flush.todo),
         crossed \subseteq crossed', crossed' \subseteq Writes,
         flush'.on => discarding.ms \subseteq crossed',
         UNCHANGED <<signedIn, write, queue, byLocalId, ids, offline, copy, discarding, req, server,
                     gaps, overtaken, direct, mishapsLeft>>
  PROVE  PhoneInv'
<1> USE DEF history, server
<1>1. Types'
  BY DEF PhoneInv, Types, UserTypes, QueueTypes, RowTypes, ReqTypes, Server, HistoryTypes
<1>2. \A m \in Writes : WriteAt(m)'
  BY DEF PhoneInv, WriteAt, Queued, Begun
<1>3. \A a \in Slots : req[a].by # "replay"
  BY DEF PhoneInv, SlotAt
<1>4. (\A a \in Slots : SlotAt(a)') /\ OneEach'
  BY <1>3 DEF PhoneInv, SlotAt, OneEach, FrontIsDone
<1>5. \A c \in Creates : RowAt(c)'
  BY DEF PhoneInv, RowAt, Queued
<1>6. FlushState'
  BY DEF FlushState
<1>7. DiscardState'
  BY DiscardStays DEF PhoneInv
<1> QED BY <1>1, <1>2, <1>4, <1>5, <1>6, <1>7 DEF PhoneInv

LEMMA NothingInEmpty ==
  /\ <<>> \in Seq(Writes) /\ IsInjective(<<>>) /\ Range(<<>>) = {}
BY DEF IsInjective, Range

LEMMA StopKeeps == ASSUME PhoneInv, FlushStops PROVE PhoneInv'
<1>1. flush.at = "next" /\ flush' = Idle
  BY DEF FlushStops
<1>2. FlushTypes' /\ FlushOrder' /\ Range(flush'.todo) = {} /\ flush'.at = "next"
  BY <1>1, NothingInEmpty DEF FlushTypes, FlushOrder, Idle
<1>3. crossed' = crossed /\ crossed \subseteq Writes /\ ~flush'.on
  BY <1>1 DEF FlushStops, history, Idle, PhoneInv, Types, HistoryTypes
<1> QED BY <1>1, <1>2, <1>3, FlushMoves DEF FlushStops, history

LEMMA StartKeeps == ASSUME PhoneInv, StartFlush PROVE PhoneInv'
<1>1. flush.at = "next" /\ flush' = [on |-> TRUE, todo |-> queue, at |-> "next"] /\ UNCHANGED queue
  BY DEF StartFlush, PhoneInv, FlushState
<1>2. QueueTypes
  BY DEF PhoneInv, Types
<1>3. FlushTypes' /\ FlushOrder' /\ Range(flush'.todo) = Queued /\ flush'.at = "next"
  BY <1>1, <1>2 DEF FlushTypes, FlushOrder, QueueTypes, Queued
<1>4. crossed' = crossed \cup discarding.ms /\ crossed' \subseteq Writes
  BY DEF StartFlush, PhoneInv, Types, HistoryTypes, UserTypes
<1> QED BY <1>1, <1>3, <1>4, FlushMoves DEF StartFlush

-----------------------------------------------------------------------------
(* The user's writes *)

\* A request that is answered or given up.
LEMMA SlotEnds ==
  ASSUME ReqTypes, NEW a \in Slots,
         req' = [req EXCEPT ![a] = Free] \/ req' = [req EXCEPT ![a] = Abandoned(a)]
  PROVE  /\ ReqTypes' /\ req'[a].by = "nobody" /\ \A b \in Slots \ {a} : req'[b] = req[b]
         /\ \A b \in Slots : LeftAlone(b)
<1> USE DEF RequestRows
<1>1. Free \in RequestRows /\ Free.by = "nobody" /\ Free.at = "free"
  BY DEF Free
<1>2. req[a] \in RequestRows
  BY DEF ReqTypes
<1>3. /\ Abandoned(a) \in RequestRows /\ Abandoned(a).by = "nobody"
      /\ \/ Abandoned(a).at = "free"
         \/ req[a].at # "free" /\ Abandoned(a).at = req[a].at /\ Abandoned(a).m = req[a].m
  BY <1>1, <1>2 DEF Abandoned
<1>4. PICK r \in RequestRows :
         /\ req' = [req EXCEPT ![a] = r] /\ r.by = "nobody"
         /\ r.at = "free" \/ (req[a].at # "free" /\ r.at = req[a].at /\ r.m = req[a].m)
  BY <1>1, <1>3
<1>5. req'[a] = r /\ \A b \in Slots \ {a} : req'[b] = req[b]
  BY <1>4 DEF ReqTypes
<1>6. ReqTypes'
  BY <1>4 DEF ReqTypes
<1>7. \A b \in Slots : LeftAlone(b)
  BY <1>4, <1>5 DEF LeftAlone
<1> QED BY <1>4, <1>5, <1>6, <1>7

LEMMA GivenUp ==
  ASSUME ReqTypes, mishapsLeft \in Nat, NEW a \in Slots, NEW by, GivesUp(a, by)
  PROVE  /\ req[a].by = by /\ ReqTypes' /\ req'[a].by = "nobody" /\ mishapsLeft' \in Nat
         /\ \A b \in Slots \ {a} : req'[b] = req[b]
         /\ \A b \in Slots : LeftAlone(b)
<1>1. /\ req[a].by = by
      /\ req' = [req EXCEPT ![a] = Free] \/ req' = [req EXCEPT ![a] = Abandoned(a)]
      /\ UNCHANGED mishapsLeft \/ Mishap
  BY DEF GivesUp
<1>2. mishapsLeft' \in Nat
  BY <1>1, MishapCounts
<1> QED BY <1>1, <1>2, SlotEnds

\* The answer to a write sent at once: it is saved, or refused and forgotten.
LEMMA DirectEnds ==
  ASSUME PhoneInv, NEW a \in Slots, req[a].by = "direct", NEW v \in {"saved", "refused"},
         v = "saved" => handled[req[a].m] > 0,
         write' = [write EXCEPT ![req[a].m] = v], mishapsLeft' \in Nat,
         ReqTypes', req'[a].by = "nobody", \A b \in Slots \ {a} : req'[b] = req[b],
         \A b \in Slots : LeftAlone(b),
         RowTypes', \A c \in Creates : copy'[c] = copy[c] \/ copy'[c] = Synced,
         UNCHANGED <<signedIn, queue, byLocalId, offline, flush, discarding, server, history>>
  PROVE  PhoneInv'
<1> DEFINE m == req[a].m
<1> USE DEF server, history
<1>0. m \in Writes /\ write[m] = "sending"
  BY DEF PhoneInv, SlotAt
<1>1. write'[m] = v /\ (\A w \in Writes \ {m} : write'[w] = write[w]) /\ write' \in [Writes -> Stages]
  BY <1>0 DEF PhoneInv, Types, UserTypes, Stages
<1>2. Types'
  BY <1>1 DEF PhoneInv, Types, UserTypes, QueueTypes, FlushTypes, Server, HistoryTypes
<1>3. ASSUME NEW w \in Writes PROVE WriteAt(w)'
  <2>1. WriteAt(w)
    BY DEF PhoneInv
  <2>2. CASE w = m
    BY <1>0, <1>1, <2>1, <2>2 DEF WriteAt, Queued, Begun
  <2>3. CASE w # m
    BY <1>1, <2>1, <2>3 DEF WriteAt, Queued
  <2> QED BY <2>2, <2>3
<1>4. (\A b \in Slots : SlotAt(b)') /\ OneEach'
  <2>1. \A w \in Writes : write[w] \in Begun => write'[w] \in Begun
    BY <1>0, <1>1 DEF Begun
  <2>2. ASSUME NEW b \in Slots, req'[b].by = "direct" PROVE write'[req[b].m] = "sending"
    <3>1. b # a /\ req[b].by = "direct"
      BY <2>2
    <3>2. req[b].m # m /\ write[req[b].m] = "sending" /\ req[b].m \in Writes
      BY <3>1 DEF PhoneInv, OneEach, SlotAt
    <3> QED BY <1>1, <3>2
  <2>3. \A b \in Slots : req'[b].by = "replay" => flush.at = "waiting"
    BY DEF PhoneInv, SlotAt
  <2>4. UNCHANGED <<handled, direct, flush, queue>>
    OBVIOUS
  <2> QED BY <2>1, <2>2, <2>3, <2>4, SlotsKept
<1>5. ASSUME NEW c \in Creates PROVE RowAt(c)'
  <2>1. /\ RowAt(c) /\ Synced \notin Writes
        /\ (copy[c] \in Writes /\ write[copy[c]] = "discarded" => write'[copy[c]] = "discarded")
    BY <1>0, <1>1, WritesAssumption DEF PhoneInv
  <2>2. flush.at = "synced" => Head(flush.todo) \in Writes
    BY TodoAdvances DEF PhoneInv, FlushState, Types, FlushTypes
  <2> QED BY <2>1, <2>2 DEF RowAt, Queued
<1>6. FlushState'
  <2>1. flush.at = "waiting" => \E b \in Slots : req'[b].by = "replay"
    BY DEF PhoneInv, FlushState
  <2>2. flush.at = "synced" => Head(flush.todo) \in Writes
    BY TodoAdvances DEF PhoneInv, FlushState, Types, FlushTypes
  <2>3. flush.at = "synced" /\ write'[Head(flush.todo)] = "staging" => Head(flush.todo) \in overtaken
    BY <1>1, <2>2 DEF PhoneInv, FlushState
  <2> QED BY <2>1, <2>3 DEF PhoneInv, FlushState, FlushOrder
<1>7. DiscardState'
  <2>1. Synced \notin discarding.ms
    BY WritesAssumption DEF PhoneInv, Types, UserTypes
  <2> QED BY <2>1, DiscardStays DEF PhoneInv
<1> QED BY <1>2, <1>3, <1>4, <1>5, <1>6, <1>7 DEF PhoneInv

\* A write that enters the queue.
LEMMA EnqueueKeeps ==
  ASSUME PhoneInv, NEW m \in Writes, write[m] \in {"unsaved", "sending"}, Enqueue(m),
         mishapsLeft' \in Nat, ReqTypes', \A a \in Slots : LeftAlone(a),
         \A a \in Slots : req'[a].by = "direct" => req[a].m # m,
         \A a \in Slots : req[a].by = "replay" => req'[a] = req[a],
         UNCHANGED <<signedIn, ids, offline, copy, flush, discarding, server, history>>
  PROVE  PhoneInv'
<1> USE DEF server, history
<1>0. /\ m \notin Queued /\ m \notin Range(flush.todo) /\ queue' = Append(queue, m)
      /\ byLocalId \subseteq byLocalId' /\ byLocalId' \subseteq byLocalId \cup {m}
      /\ write' = [write EXCEPT ![m] = "staging"]
  BY DEF PhoneInv, WriteAt, Enqueue, Begun
<1>1. /\ write'[m] = "staging" /\ \A w \in Writes \ {m} : write'[w] = write[w]
      /\ write' \in [Writes -> Stages]
  BY <1>0 DEF PhoneInv, Types, UserTypes, Stages
<1>2. /\ QueueTypes' /\ Queued' = Queued \cup {m}
      /\ \A x, y : Before(queue', x, y) => Before(queue, x, y) \/ y = m
  <2>1. QueueTypes
    BY DEF PhoneInv, Types
  <2> QED BY <1>0, <2>1, QueueGrows DEF QueueTypes, Queued
<1>3. Types'
  BY <1>1, <1>2 DEF PhoneInv, Types, UserTypes, RowTypes, FlushTypes, Server, HistoryTypes
<1>4. ASSUME NEW w \in Writes PROVE WriteAt(w)'
  <2>1. WriteAt(w)
    BY DEF PhoneInv
  <2>2. CASE w = m
    BY <1>0, <1>1, <1>2, <2>1, <2>2 DEF WriteAt
  <2>3. CASE w # m
    BY <1>1, <1>2, <2>1, <2>3 DEF WriteAt
  <2> QED BY <2>2, <2>3
<1>5. (\A a \in Slots : SlotAt(a)') /\ OneEach'
  <2>1. \A w \in Writes : write[w] \in Begun => w # m /\ write'[w] \in Begun
    BY <1>1 DEF Begun
  <2>2. ASSUME NEW a \in Slots, req'[a].by = "direct" PROVE write'[req[a].m] = "sending"
    <3>1. req[a].by = "direct" /\ req[a].m # m
      BY <2>2 DEF LeftAlone
    <3>2. write[req[a].m] = "sending" /\ req[a].m \in Writes
      BY <3>1 DEF PhoneInv, SlotAt
    <3> QED BY <1>1, <3>1, <3>2
  <2>3. \A a \in Slots : req'[a].by = "replay" => flush.at = "waiting"
    BY DEF PhoneInv, SlotAt, LeftAlone
  <2>4. \A x, w \in Writes : write[w] \in Begun /\ Before(queue', x, w) => Before(queue, x, w)
    BY <1>2, <2>1
  <2>5. UNCHANGED <<handled, direct, flush>>
    OBVIOUS
  <2> QED BY <2>1, <2>2, <2>3, <2>4, <2>5, SlotsKept
<1>6. ASSUME NEW c \in Creates PROVE RowAt(c)'
  <2>1. RowAt(c) /\ (copy[c] \in Writes /\ write[copy[c]] = "discarded" => write'[copy[c]] = "discarded")
    BY <1>1 DEF PhoneInv
  <2> QED BY <1>0, <1>2, <2>1 DEF RowAt
<1>7. FlushState'
  <2>1. flush.at = "waiting" => \E b \in Slots : req'[b].by = "replay"
    BY DEF PhoneInv, FlushState
  <2>2. flush.at = "synced" => Head(flush.todo) \in Writes /\ Head(flush.todo) # m
    BY <1>0, TodoAdvances DEF PhoneInv, FlushState, Types, FlushTypes
  <2>3. flush.at = "synced" /\ write'[Head(flush.todo)] = "staging" => Head(flush.todo) \in overtaken
    BY <1>1, <2>2 DEF PhoneInv, FlushState
  <2>4. FlushOrder'
    BY <1>0, <1>2 DEF PhoneInv, FlushState, FlushOrder
  <2> QED BY <2>1, <2>3, <2>4 DEF PhoneInv, FlushState
<1>8. DiscardState'
  BY <1>0, DiscardStays DEF PhoneInv
<1> QED BY <1>3, <1>4, <1>5, <1>6, <1>7, <1>8 DEF PhoneInv

LEMMA SaveOfflineKeeps == ASSUME PhoneInv, NEW m \in Writes, SaveOffline(m) PROVE PhoneInv'
<1>1. /\ write[m] = "unsaved" /\ Enqueue(m)
      /\ UNCHANGED <<signedIn, ids, offline, copy, flush, discarding, req, server, history, mishapsLeft>>
  BY DEF SaveOffline
<1>2. ReqTypes' /\ mishapsLeft' \in Nat /\ \A a \in Slots : LeftAlone(a) /\ req'[a] = req[a]
  BY <1>1 DEF PhoneInv, Types, UserTypes, ReqTypes, LeftAlone
<1>3. \A a \in Slots : req'[a].by = "direct" => req[a].m # m
  BY <1>1, <1>2 DEF PhoneInv, SlotAt
<1> QED BY <1>1, <1>2, <1>3, EnqueueKeeps

LEMMA DirectGivesUpKeeps == ASSUME PhoneInv, NEW a \in Slots, DirectGivesUp(a) PROVE PhoneInv'
<1> DEFINE m == req[a].m
<1>1. /\ req[a].by = "direct" /\ ReqTypes' /\ req'[a].by = "nobody" /\ mishapsLeft' \in Nat
      /\ \A b \in Slots \ {a} : req'[b] = req[b]
      /\ \A b \in Slots : LeftAlone(b)
  BY GivenUp DEF DirectGivesUp, PhoneInv, Types, UserTypes
<1>2. m \in Writes /\ write[m] = "sending"
  BY <1>1 DEF PhoneInv, SlotAt
<1>3. UNCHANGED <<signedIn, ids, offline, copy, flush, discarding, server, history>>
  BY DEF DirectGivesUp
<1>4. CASE Enqueue(m)
  <2>1. \A b \in Slots : req'[b].by = "direct" => req[b].m # m
    BY <1>1 DEF PhoneInv, OneEach
  <2>2. \A b \in Slots : req[b].by = "replay" => req'[b] = req[b]
    BY <1>1
  <2> HIDE DEF m
  <2> QED BY <1>1, <1>2, <1>3, <1>4, <2>1, <2>2, EnqueueKeeps
<1>5. CASE write' = [write EXCEPT ![m] = "refused"] /\ UNCHANGED <<queue, byLocalId>>
  <2>1. RowTypes' /\ \A c \in Creates : copy'[c] = copy[c]
    BY <1>3 DEF PhoneInv, Types, RowTypes
  <2> QED BY <1>1, <1>3, <1>5, <2>1, DirectEnds
<1> QED BY <1>4, <1>5 DEF DirectGivesUp

LEMMA DirectRefusedKeeps == ASSUME PhoneInv, NEW a \in Slots, DirectRefused(a) PROVE PhoneInv'
<1>1. /\ req[a].by = "direct" /\ write' = [write EXCEPT ![req[a].m] = "refused"]
      /\ req' = [req EXCEPT ![a] = Free]
      /\ UNCHANGED <<signedIn, queue, byLocalId, ids, offline, copy, flush, discarding, server,
                     history, mishapsLeft>>
  BY DEF DirectRefused
<1>2. /\ ReqTypes' /\ req'[a].by = "nobody" /\ \A b \in Slots \ {a} : req'[b] = req[b]
      /\ \A b \in Slots : LeftAlone(b)
  BY <1>1, SlotEnds DEF PhoneInv, Types
<1>3. RowTypes' /\ mishapsLeft' \in Nat /\ \A c \in Creates : copy'[c] = copy[c]
  BY <1>1 DEF PhoneInv, Types, UserTypes, RowTypes
<1> QED BY <1>1, <1>2, <1>3, DirectEnds

LEMMA DirectOkKeeps == ASSUME PhoneInv, NEW a \in Slots, DirectOk(a) PROVE PhoneInv'
<1> DEFINE m == req[a].m
<1>1. /\ req[a].by = "direct" /\ req[a].at = "ok" /\ write' = [write EXCEPT ![m] = "saved"]
      /\ req' = [req EXCEPT ![a] = Free]
      /\ UNCHANGED <<signedIn, queue, byLocalId, offline, flush, discarding, server, history, mishapsLeft>>
      /\ ids' = IF signedIn /\ m \in Creates THEN [ids EXCEPT ![m] = receipt[m]] ELSE ids
      /\ copy' = copy \/ copy' = [copy EXCEPT ![RecordOf(m)] = Synced]
  BY DEF DirectOk
<1>2. /\ ReqTypes' /\ req'[a].by = "nobody" /\ \A b \in Slots \ {a} : req'[b] = req[b]
      /\ \A b \in Slots : LeftAlone(b)
  BY <1>1, SlotEnds DEF PhoneInv, Types
<1>3. m \in Writes /\ handled[m] > 0
  BY <1>1 DEF PhoneInv, SlotAt
<1>4. RowTypes /\ Server /\ mishapsLeft \in Nat
  BY DEF PhoneInv, Types, UserTypes
<1>5. RowTypes' /\ mishapsLeft' \in Nat
  <2>1. ids' \in [Creates -> Nat]
    BY <1>1, <1>3, <1>4 DEF RowTypes, Server
  <2>2. copy' \in [Creates -> Writes \cup {None, Synced}]
    BY <1>1, <1>4 DEF RowTypes
  <2> QED BY <1>1, <1>4, <2>1, <2>2 DEF RowTypes
<1>6. \A c \in Creates : copy'[c] = copy[c] \/ copy'[c] = Synced
  BY <1>1, <1>4 DEF RowTypes
<1> QED BY <1>1, <1>2, <1>3, <1>5, <1>6, DirectEnds

\* A request that is sent, by the user's form or by the flush.
LEMMA SlotSent ==
  ASSUME PhoneInv, NEW m \in Writes, NEW by \in {"direct", "replay"}, Send(m, by),
         direct \subseteq direct', UNCHANGED <<handled, queue>>,
         by = "direct" => m \in direct' /\ write'[m] = "sending",
         by = "replay" => flush'.at = "waiting" /\ m = Head(flush.todo) /\ FrontIsDone(m)
                          /\ m \in Range(flush.todo) /\ flush.at = "next",
         by = "direct" => write[m] = "unsaved" /\ flush'.at = flush.at,
         flush'.todo = flush.todo,
         \A w \in Writes \ {m} : write'[w] = write[w],
         by = "replay" => write'[m] = write[m]
  PROVE  /\ ReqTypes' /\ (\A a \in Slots : SlotAt(a)') /\ OneEach'
         /\ \A a \in Slots : req[a].by = "replay" => req'[a].by = "replay"
         /\ by = "replay" => \E a \in Slots : req'[a].by = "replay"
<1> DEFINE r == [m |-> m, at |-> "sent", by |-> by]
<1>1. PICK a \in Slots : req[a] = Free /\ req' = [req EXCEPT ![a] = r]
  BY DEF Send
<1>2. req'[a] = r /\ (\A b \in Slots \ {a} : req'[b] = req[b]) /\ ReqTypes'
  BY <1>1 DEF PhoneInv, Types, ReqTypes, RequestRows
<1>3. \A w \in Writes : FrontIsDone(w) => FrontIsDone(w)'
  BY DEF FrontIsDone
<1>4. SlotAt(a)'
  <2>1. by = "replay" => write'[m] \in Begun
    BY DEF PhoneInv, WriteAt
  <2> QED BY <1>2, <1>3, <2>1 DEF SlotAt
<1>5. ASSUME NEW b \in Slots, b # a PROVE SlotAt(b)'
  <2>1. SlotAt(b) /\ req'[b] = req[b]
    BY <1>2, <1>5 DEF PhoneInv
  <2>2. CASE by = "direct"
    <3>1. ~(req[b].by = "direct" /\ req[b].m = m)
      BY <2>1, <2>2 DEF SlotAt
    <3>2. write[m] \notin Begun
      BY <2>2 DEF Begun
    <3> QED BY <1>3, <2>1, <2>2, <3>1, <3>2 DEF SlotAt
  <2>3. CASE by = "replay"
    BY <1>3, <2>1, <2>3 DEF SlotAt
  <2> QED BY <2>2, <2>3
<1>6. OneEach'
  <2>1. by = "direct" => \A b \in Slots : req[b].by = "direct" => req[b].m # m
    BY DEF PhoneInv, SlotAt
  <2>2. by = "replay" => \A b \in Slots : req[b].by # "replay"
    BY DEF PhoneInv, SlotAt
  <2> QED BY <1>2, <2>1, <2>2 DEF PhoneInv, OneEach
<1> QED BY <1>1, <1>2, <1>4, <1>5, <1>6 DEF Free

LEMMA SaveOnlineKeeps == ASSUME PhoneInv, NEW m \in Writes, SaveOnline(m) PROVE PhoneInv'
<1> USE DEF server
<1>0. /\ write[m] = "unsaved" /\ Send(m, "direct") /\ write' = [write EXCEPT ![m] = "sending"]
      /\ direct' = direct \cup {m}
      /\ UNCHANGED <<signedIn, queue, byLocalId, ids, offline, copy, flush, discarding,
                     server, gaps, overtaken, crossed, mishapsLeft>>
  BY DEF SaveOnline
<1>1. /\ write'[m] = "sending" /\ \A w \in Writes \ {m} : write'[w] = write[w]
      /\ write' \in [Writes -> Stages]
  BY <1>0 DEF PhoneInv, Types, UserTypes, Stages
<1>2. /\ ReqTypes' /\ (\A a \in Slots : SlotAt(a)') /\ OneEach'
      /\ \A a \in Slots : req[a].by = "replay" => req'[a].by = "replay"
  BY <1>0, <1>1, SlotSent
<1>3. Types'
  BY <1>0, <1>1, <1>2 DEF PhoneInv, Types, UserTypes, QueueTypes, RowTypes, FlushTypes, Server, HistoryTypes
<1>4. ASSUME NEW w \in Writes PROVE WriteAt(w)'
  <2>1. WriteAt(w)
    BY DEF PhoneInv
  <2>2. CASE w = m
    BY <1>0, <1>1, <2>1, <2>2 DEF WriteAt, Queued, Begun
  <2>3. CASE w # m
    BY <1>0, <1>1, <2>1, <2>3 DEF WriteAt, Queued
  <2> QED BY <2>2, <2>3
<1>5. ASSUME NEW c \in Creates PROVE RowAt(c)'
  <2>1. RowAt(c) /\ (copy[c] \in Writes /\ write[copy[c]] = "discarded" => write'[copy[c]] = "discarded")
    BY <1>0, <1>1 DEF PhoneInv
  <2> QED BY <1>0, <2>1 DEF RowAt, Queued
<1>6. FlushState'
  <2>1. flush.at = "synced" => Head(flush.todo) \in Writes
    BY TodoAdvances DEF PhoneInv, FlushState, Types, FlushTypes
  <2>2. flush.at = "synced" /\ write'[Head(flush.todo)] = "staging" => Head(flush.todo) \in overtaken
    BY <1>1, <2>1 DEF PhoneInv, FlushState
  <2> QED BY <1>0, <1>2, <2>2 DEF PhoneInv, FlushState, FlushOrder
<1>7. DiscardState'
  BY <1>0, DiscardStays DEF PhoneInv
<1> QED BY <1>2, <1>3, <1>4, <1>5, <1>6, <1>7 DEF PhoneInv

LEMMA ReplaySendKeeps == ASSUME PhoneInv, ReplaySend PROVE PhoneInv'
<1> USE DEF server, history
<1> DEFINE m == Head(flush.todo)
<1>0. /\ flush.on /\ flush.at = "next" /\ flush.todo # <<>> /\ Send(m, "replay")
      /\ flush' = [flush EXCEPT !.at = "waiting"]
      /\ UNCHANGED <<signedIn, write, queue, byLocalId, ids, offline, copy, discarding, server,
                     history, mishapsLeft>>
  BY DEF ReplaySend
<1>1. FlushTypes' /\ flush'.at = "waiting" /\ flush'.todo = flush.todo /\ flush'.on
  BY <1>0 DEF PhoneInv, Types, FlushTypes
<1>2. m \in Writes /\ m \in Range(flush.todo) /\ \A x : ~Before(flush.todo, x, m)
  BY <1>0, TodoAdvances DEF PhoneInv, Types, FlushTypes
<1>3. FrontIsDone(m)
  BY <1>2 DEF PhoneInv, FlushState, FlushOrder, FrontIsDone
<1> HIDE DEF m
<1>4. /\ ReqTypes' /\ (\A a \in Slots : SlotAt(a)') /\ OneEach'
      /\ \E a \in Slots : req'[a].by = "replay"
  BY <1>0, <1>1, <1>2, <1>3, SlotSent DEF m
<1>5. Types'
  BY <1>0, <1>1, <1>4 DEF PhoneInv, Types, UserTypes, QueueTypes, RowTypes, Server, HistoryTypes
<1>6. \A w \in Writes : WriteAt(w)'
  BY <1>0, <1>1 DEF PhoneInv, WriteAt, Queued
<1>7. \A c \in Creates : RowAt(c)'
  BY <1>0, <1>1 DEF PhoneInv, RowAt, Queued
<1>8. FlushState'
  BY <1>0, <1>1, <1>4 DEF PhoneInv, FlushState, FlushOrder
<1>9. DiscardState'
  BY <1>0, DiscardStays DEF PhoneInv
<1> QED BY <1>4, <1>5, <1>6, <1>7, <1>8, <1>9 DEF PhoneInv

\* stageOfflineMutation: the row of a write that is in the queue by then.
LEMMA StageKeeps == ASSUME PhoneInv, NEW m \in Writes, Stage(m) PROVE PhoneInv'
<1> USE DEF server, history
<1> DEFINE c == RecordOf(m)
<1>0. /\ write[m] = "staging" /\ write' = [write EXCEPT ![m] = "kept"]
      /\ UNCHANGED <<signedIn, queue, byLocalId, ids, flush, discarding, req, server, gaps, overtaken,
                     direct, mishapsLeft>>
      /\ crossed' = crossed \cup ({m} \cap discarding.ms)
      /\ offline' = offline \/ (m \in Creates \cup byLocalId /\ offline' = [offline EXCEPT ![c] = m])
      /\ copy' = copy \/ (m \in Edits /\ copy' = [copy EXCEPT ![c] = m])
  BY DEF Stage
<1>1. write'[m] = "kept" /\ (\A w \in Writes \ {m} : write'[w] = write[w]) /\ write' \in [Writes -> Stages]
  BY <1>0 DEF PhoneInv, Types, UserTypes, Stages
<1>2. c \in Creates
  BY WritesAssumption DEF RecordOf, Writes
<1>3. RowTypes'
  <2>1. RowTypes
    BY DEF PhoneInv, Types
  <2> HIDE DEF c
  <2>2. offline' \in [Creates -> Writes \cup {None}] /\ copy' \in [Creates -> Writes \cup {None, Synced}]
    BY <1>0, <1>2, <2>1 DEF RowTypes
  <2> QED BY <1>0, <2>1, <2>2 DEF RowTypes
<1>4. Types'
  BY <1>0, <1>1, <1>3 DEF PhoneInv, Types, UserTypes, QueueTypes, FlushTypes, ReqTypes, Server, HistoryTypes
<1>5. ASSUME NEW w \in Writes PROVE WriteAt(w)'
  <2>1. WriteAt(w)
    BY DEF PhoneInv
  <2>2. CASE w = m
    BY <1>0, <1>1, <2>1, <2>2 DEF WriteAt, Queued, Begun
  <2>3. CASE w # m
    BY <1>0, <1>1, <2>1, <2>3 DEF WriteAt, Queued
  <2> QED BY <2>2, <2>3
<1>6. (\A a \in Slots : SlotAt(a)') /\ OneEach'
  <2>1. \A w \in Writes : write[w] \in Begun => write'[w] \in Begun
    BY <1>1 DEF Begun
  <2>2. ASSUME NEW a \in Slots, req'[a].by = "direct" PROVE write'[req[a].m] = "sending"
    <3>1. write[req[a].m] = "sending" /\ req[a].m \in Writes
      BY <1>0, <2>2 DEF PhoneInv, SlotAt
    <3> QED BY <1>0, <1>1, <3>1
  <2>3. \A a \in Slots : LeftAlone(a) /\ (req'[a].by = "replay" => flush.at = "waiting")
    BY <1>0 DEF PhoneInv, SlotAt, LeftAlone
  <2>4. UNCHANGED <<handled, direct, flush, queue>>
    BY <1>0
  <2> QED BY <2>1, <2>2, <2>3, <2>4, SlotsKept
<1>7. flush.at = "synced" => Head(flush.todo) \in Writes
  BY TodoAdvances DEF PhoneInv, FlushState, Types, FlushTypes
<1>8. ASSUME NEW d \in Creates PROVE RowAt(d)'
  <2>1. RowAt(d) /\ (copy[d] \in Writes /\ write[copy[d]] = "discarded" => write'[copy[d]] = "discarded")
    BY <1>0, <1>1 DEF PhoneInv
  <2>2. m \in Queued \cup overtaken
    BY <1>0 DEF PhoneInv, WriteAt
  <2>3. flush.at = "synced" /\ Head(flush.todo) \notin overtaken => m # Head(flush.todo)
    BY <1>0 DEF PhoneInv, FlushState
  <2>4. offline'[d] = offline[d] \/ (d = c /\ offline'[d] = m /\ m \in Creates \cup byLocalId)
    BY <1>0, <1>2 DEF PhoneInv, Types, RowTypes
  <2>5. copy'[d] = copy[d] \/ (d = c /\ copy'[d] = m /\ m \in Edits)
    BY <1>0, <1>2 DEF PhoneInv, Types, RowTypes
  <2> QED BY <1>0, <2>1, <2>2, <2>3, <2>4, <2>5 DEF RowAt, Queued, RecordOf
<1>9. FlushState'
  <2>1. flush.at = "synced" /\ write'[Head(flush.todo)] = "staging" => Head(flush.todo) \in overtaken
    BY <1>1, <1>7 DEF PhoneInv, FlushState
  <2> QED BY <1>0, <2>1 DEF PhoneInv, FlushState, FlushOrder
<1>10. DiscardState'
  <2>1. \A d \in Creates : /\ offline'[d] = offline[d] \/ offline'[d] = m
                           /\ copy'[d] = copy[d] \/ copy'[d] = m
    BY <1>0, <1>2 DEF PhoneInv, Types, RowTypes
  <2> QED BY <1>0, <2>1, DiscardStays DEF PhoneInv
<1> QED BY <1>4, <1>5, <1>6, <1>8, <1>9, <1>10 DEF PhoneInv

\* What a flush leaves when it ends.
LEMMA FlushIdle ==
  ASSUME flush' = Idle
  PROVE  FlushTypes' /\ FlushOrder' /\ Range(flush'.todo) = {} /\ flush'.at = "next"
BY NothingInEmpty DEF FlushTypes, FlushOrder, Idle

\* The queue and the records are on disk; what was being sent or staged is settled.
LEMMA PhoneDeathKeeps == ASSUME PhoneInv, PhoneDies PROVE PhoneInv'
<1> USE DEF server, history
<1>0. /\ Mishap /\ flush' = Idle /\ discarding' = Nothing /\ req' = [a \in Slots |-> Abandoned(a)]
      /\ write' = [m \in Writes |-> CASE write[m] = "sending" -> "refused"
                                      [] write[m] = "staging" -> "kept"
                                      [] OTHER -> write[m]]
      /\ UNCHANGED <<signedIn, queue, byLocalId, ids, offline, copy, server, history>>
  BY DEF PhoneDies
<1>1. \A m \in Writes : /\ write[m] = "sending" => write'[m] = "refused"
                        /\ write[m] = "staging" => write'[m] = "kept"
                        /\ write[m] \notin {"sending", "staging"} => write'[m] = write[m]
  BY <1>0
<1>2. write' \in [Writes -> Stages]
  <2>1. \A m \in Writes : write'[m] \in Stages
    BY <1>1 DEF PhoneInv, Types, UserTypes, Stages
  <2> QED BY <1>0, <2>1
<1>3. ReqTypes' /\ \A a \in Slots : LeftAlone(a) /\ req'[a].by = "nobody"
  <2>1. ASSUME NEW a \in Slots
        PROVE  /\ Abandoned(a) \in RequestRows
               /\ Abandoned(a).by = "nobody"
               /\ \/ Abandoned(a).at = "free"
                  \/ req[a].at # "free" /\ Abandoned(a).at = req[a].at /\ Abandoned(a).m = req[a].m
    BY DEF Abandoned, Free, PhoneInv, Types, ReqTypes, RequestRows
  <2>2. \A a \in Slots : req'[a] = Abandoned(a)
    BY <1>0
  <2> QED BY <1>0, <2>1, <2>2 DEF ReqTypes, LeftAlone
<1>4. /\ FlushTypes' /\ FlushOrder' /\ Range(flush'.todo) = {} /\ flush'.at = "next"
  BY <1>0, FlushIdle
<1>5. Types'
  <2>1. mishapsLeft' \in Nat /\ discarding' \in [ms : SUBSET Writes, all : BOOLEAN, rows : Seq(Writes)]
    BY <1>0, MishapCounts, NothingInEmpty DEF PhoneInv, Types, UserTypes, Nothing
  <2> QED BY <1>0, <1>2, <1>3, <1>4, <2>1
        DEF PhoneInv, Types, UserTypes, QueueTypes, RowTypes, Server, HistoryTypes
<1>6. ASSUME NEW m \in Writes PROVE WriteAt(m)'
  <2>1. WriteAt(m)
    BY DEF PhoneInv
  <2> QED BY <1>0, <1>1, <1>4, <2>1 DEF WriteAt, Queued
<1>7. (\A a \in Slots : SlotAt(a)') /\ OneEach'
  <2>1. \A w \in Writes : write[w] \in Begun => write'[w] \in Begun
    BY <1>1 DEF Begun
  <2>2. UNCHANGED <<handled, direct, queue>>
    BY <1>0
  <2> QED BY <1>3, <2>1, <2>2, SlotsKept
<1>8. ASSUME NEW c \in Creates PROVE RowAt(c)'
  <2>1. RowAt(c) /\ (copy[c] \in Writes /\ write[copy[c]] = "discarded" => write'[copy[c]] = "discarded")
    BY <1>1 DEF PhoneInv
  <2> QED BY <1>0, <1>4, <2>1 DEF RowAt, Queued
<1>9. FlushState'
  BY <1>4 DEF FlushState
<1>10. DiscardState'
  BY <1>0 DEF DiscardState, Nothing, Idle
<1> QED BY <1>3, <1>5, <1>6, <1>7, <1>8, <1>9, <1>10 DEF PhoneInv

\* The flush ends with the answer its request got, or failed to get.
LEMMA FlushEnds ==
  ASSUME PhoneInv, NEW a \in Slots, req[a].by = "replay", flush' = Idle,
         ReqTypes', req'[a].by = "nobody", \A b \in Slots \ {a} : req'[b] = req[b],
         \A b \in Slots : LeftAlone(b), mishapsLeft' \in Nat,
         UNCHANGED <<signedIn, write, queue, byLocalId, ids, offline, copy, discarding, server, history>>
  PROVE  PhoneInv'
<1> USE DEF server, history
<1>1. /\ FlushTypes' /\ FlushOrder' /\ Range(flush'.todo) = {} /\ flush'.at = "next"
  BY FlushIdle
<1>2. Types'
  BY <1>1 DEF PhoneInv, Types, UserTypes, QueueTypes, RowTypes, Server, HistoryTypes
<1>3. \A m \in Writes : WriteAt(m)'
  BY <1>1 DEF PhoneInv, WriteAt, Queued
<1>4. (\A b \in Slots : SlotAt(b)') /\ OneEach'
  <2>1. \A b \in Slots : req'[b].by # "replay"
    BY DEF PhoneInv, OneEach
  <2>2. \A b \in Slots : req'[b].by = "direct" => write[req[b].m] = "sending"
    BY DEF PhoneInv, SlotAt, LeftAlone
  <2>3. UNCHANGED <<handled, direct, queue>>
    OBVIOUS
  <2> QED BY <2>1, <2>2, <2>3, SlotsKept
<1>5. \A c \in Creates : RowAt(c)'
  BY <1>1 DEF PhoneInv, RowAt, Queued
<1>6. FlushState'
  BY <1>1 DEF FlushState
<1>7. DiscardState'
  <2>1. ~flush'.on
    BY DEF Idle
  <2> QED BY <2>1, DiscardStays DEF PhoneInv
<1> QED BY <1>2, <1>3, <1>4, <1>5, <1>6, <1>7 DEF PhoneInv

LEMMA ReplayFailsKeeps == ASSUME PhoneInv, NEW a \in Slots, ReplayFails(a) PROVE PhoneInv'
<1>0. ReqTypes /\ mishapsLeft \in Nat
  BY DEF PhoneInv, Types, UserTypes
<1>1. /\ req[a].by = "replay" /\ ReqTypes' /\ req'[a].by = "nobody" /\ mishapsLeft' \in Nat
      /\ \A b \in Slots \ {a} : req'[b] = req[b]
      /\ \A b \in Slots : LeftAlone(b)
  <2>1. CASE GivesUp(a, "replay")
    BY <1>0, <2>1, GivenUp
  <2>2. CASE req[a].by = "replay" /\ req' = [req EXCEPT ![a] = Free] /\ UNCHANGED mishapsLeft
    BY <1>0, <2>2, SlotEnds
  <2> QED BY <2>1, <2>2 DEF ReplayFails
<1> QED BY <1>1, FlushEnds DEF ReplayFails

\* reconcileOfflineMutation: the record arrives, and the last edit still queued owns the row.
LEMMA ReplayOkKeeps == ASSUME PhoneInv, NEW a \in Slots, ReplayOk(a) PROVE PhoneInv'
<1> USE DEF server, history
<1> DEFINE m == req[a].m
           c == RecordOf(m)
           later == Without((Writes \ Edits) \cup {m} \cup {e \in Edits : Parent[e] # c})
<1>0. /\ req[a].at = "ok" /\ req[a].by = "replay" /\ req' = [req EXCEPT ![a] = Free]
      /\ UNCHANGED <<signedIn, write, queue, byLocalId, discarding, server, gaps, crossed, direct,
                     mishapsLeft>>
  BY DEF ReplayOk
<1>1. /\ ReqTypes' /\ req'[a].by = "nobody" /\ \A b \in Slots \ {a} : req'[b] = req[b]
      /\ \A b \in Slots : LeftAlone(b)
  BY <1>0, SlotEnds DEF PhoneInv, Types
<1>2. /\ m \in Writes /\ handled[m] > 0 /\ flush.at = "waiting" /\ m = Head(flush.todo)
      /\ flush.on /\ flush.todo # <<>>
  BY <1>0 DEF PhoneInv, SlotAt, FlushState
<1>3. CASE flush' = Idle /\ UNCHANGED <<ids, offline, copy, overtaken>>
  <2>1. mishapsLeft' \in Nat
    BY <1>0 DEF PhoneInv, Types, UserTypes
  <2> QED BY <1>0, <1>1, <1>3, <2>1, FlushEnds
<1>4. CASE Reconcile(m) /\ flush' = [flush EXCEPT !.at = "synced"]
  <2>1. /\ ids' = IF m \in Creates THEN [ids EXCEPT ![m] = receipt[m]] ELSE ids
        /\ offline' = IF m \in Creates \cup byLocalId THEN [offline EXCEPT ![c] = None] ELSE offline
        /\ copy' = [copy EXCEPT ![c] = IF later = <<>> THEN Synced ELSE Last(later)]
        /\ overtaken' = IF write[m] = "staging" THEN overtaken \cup {m} ELSE overtaken
    BY <1>4 DEF Reconcile
  <2>2. c \in Creates
    BY <1>2, WritesAssumption DEF RecordOf, Writes
  <2>3. FlushTypes' /\ flush'.at = "synced" /\ flush'.todo = flush.todo /\ flush'.on
    BY <1>2, <1>4 DEF PhoneInv, Types, FlushTypes
  <2>4. later # <<>> => /\ Last(later) \in Queued \ {m} /\ Last(later) \in Writes
                        /\ Last(later) \in Edits /\ RecordOf(Last(later)) = c
    <3>1. /\ later \in Seq(Writes)
          /\ Range(later) = Queued \ ((Writes \ Edits) \cup {m} \cup {e \in Edits : Parent[e] # c})
      BY QueueShrinks DEF PhoneInv, Types, QueueTypes
    <3> HIDE DEF later
    <3>2. later # <<>> => Last(later) \in Range(later)
      BY <3>1 DEF Last, Range
    <3>3. Range(later) \subseteq Writes
      BY <3>1 DEF Range
    <3>4. \A e \in Range(later) : e \in Edits /\ Parent[e] = c /\ e \in Queued \ {m} /\ e \notin Creates
      BY <3>1, <3>3, WritesAssumption
    <3> QED BY <3>2, <3>3, <3>4 DEF RecordOf
  <2> DEFINE row == IF later = <<>> THEN Synced ELSE Last(later)
  <2>5. /\ copy' = [copy EXCEPT ![c] = row] /\ row # m /\ row \in Writes \cup {Synced}
        /\ row \in Writes => row \in Queued /\ row \in Edits /\ RecordOf(row) = c
    BY <1>2, <2>1, <2>4, WritesAssumption
  <2> HIDE DEF row, later, c
  <2>6. RowTypes /\ Server /\ HistoryTypes
    BY DEF PhoneInv, Types
  <2>7. RowTypes'
    <3>1. ids' \in [Creates -> Nat]
      BY <1>2, <2>1, <2>6 DEF RowTypes, Server
    <3>2. offline' \in [Creates -> Writes \cup {None}] /\ copy' \in [Creates -> Writes \cup {None, Synced}]
      BY <2>1, <2>2, <2>5, <2>6 DEF RowTypes
    <3> QED BY <3>1, <3>2 DEF RowTypes
  <2>8. /\ overtaken \subseteq overtaken' /\ overtaken' \subseteq Writes
        /\ (write[m] = "staging" => m \in overtaken')
        /\ crossed \subseteq Writes
    BY <1>2, <2>1, <2>6 DEF HistoryTypes
  <2>9. Types'
    BY <1>0, <1>1, <2>3, <2>7, <2>8 DEF PhoneInv, Types, UserTypes, QueueTypes, Server, HistoryTypes
  <2>10. \A w \in Writes : WriteAt(w)'
    BY <1>0, <2>3, <2>8 DEF PhoneInv, WriteAt, Queued
  <2>11. (\A b \in Slots : SlotAt(b)') /\ OneEach'
    <3>1. \A b \in Slots : req'[b].by # "replay"
      BY <1>0, <1>1 DEF PhoneInv, OneEach
    <3>2. \A b \in Slots : req'[b].by = "direct" => write'[req[b].m] = "sending"
      BY <1>0, <1>1 DEF PhoneInv, SlotAt, LeftAlone
    <3>3. UNCHANGED <<handled, direct, queue, write>>
      BY <1>0
    <3> QED BY <1>1, <3>1, <3>2, <3>3, SlotsKept
  <2>12. ASSUME NEW d \in Creates PROVE RowAt(d)'
    <3>1. RowAt(d) /\ d \in Creates
      BY DEF PhoneInv
    <3>2. CASE d = c
      <4>1. copy'[d] = row /\ offline'[d] = IF m \in Creates \cup byLocalId THEN None ELSE offline[d]
        BY <2>1, <2>2, <2>5, <2>6, <3>2 DEF RowTypes
      <4>2. None # m
        BY <1>2, WritesAssumption
      <4> QED BY <1>0, <1>2, <2>3, <2>5, <2>8, <3>1, <3>2, <4>1, <4>2, WritesAssumption DEF RowAt, Queued
    <3>3. CASE d # c
      <4>1. copy'[d] = copy[d] /\ offline'[d] = offline[d]
        BY <2>1, <2>5, <2>6, <3>3 DEF RowTypes
      <4>2. copy[d] # m /\ (offline[d] # None => offline[d] # m)
        BY <1>2, <3>1, <3>3 DEF RowAt, c
      <4>3. None # m
        BY <1>2, WritesAssumption
      <4> QED BY <1>0, <1>2, <2>3, <2>8, <3>1, <4>1, <4>2, <4>3 DEF RowAt, Queued
    <3> QED BY <3>2, <3>3
  <2>13. FlushState'
    BY <1>0, <1>2, <2>3, <2>8 DEF PhoneInv, FlushState, FlushOrder
  <2>14. DiscardState'
    <3>1. discarding.ms \subseteq crossed
      BY <1>2 DEF PhoneInv, DiscardState
    <3> QED BY <1>0, <1>2, <3>1, DiscardStays DEF PhoneInv
  <2> QED BY <2>9, <2>10, <2>11, <2>12, <2>13, <2>14 DEF PhoneInv
<1> QED BY <1>3, <1>4 DEF ReplayOk

LEMMA RemoveSyncedKeeps == ASSUME PhoneInv, RemoveSynced PROVE PhoneInv'
<1> USE DEF server, history
<1> DEFINE m == Head(flush.todo)
<1>0. /\ flush.on /\ flush.at = "synced" /\ queue' = Without({m})
      /\ write' = IF write[m] = "kept" THEN [write EXCEPT ![m] = "synced"] ELSE write
      /\ flush' = [flush EXCEPT !.todo = Tail(@), !.at = "next"]
      /\ UNCHANGED <<signedIn, byLocalId, ids, offline, copy, discarding, req, server, history, mishapsLeft>>
  BY DEF RemoveSynced
<1>1. /\ flush.todo # <<>> /\ handled[m] > 0 /\ (write[m] = "staging" => m \in overtaken)
  BY <1>0 DEF PhoneInv, FlushState
<1>2. /\ m \in Writes /\ m \in Range(flush.todo)
      /\ Tail(flush.todo) \in Seq(Writes) /\ IsInjective(Tail(flush.todo))
      /\ Range(Tail(flush.todo)) \subseteq Range(flush.todo)
      /\ \A x, y : Before(flush.todo, x, y) /\ x # m => Before(Tail(flush.todo), x, y)
  BY <1>1, TodoAdvances DEF PhoneInv, Types, FlushTypes
<1>3. FlushTypes' /\ flush'.at = "next" /\ flush'.todo = Tail(flush.todo)
  BY <1>0, <1>2 DEF PhoneInv, Types, FlushTypes
<1>4. /\ QueueTypes' /\ Queued' = Queued \ {m}
      /\ \A x, y : Before(queue', x, y) => Before(queue, x, y)
  <2>1. QueueTypes
    BY DEF PhoneInv, Types
  <2> HIDE DEF m
  <2> QED BY <1>0, <2>1, QueueShrinks DEF QueueTypes, Queued
<1> HIDE DEF m
<1>5. /\ \A w \in Writes : write'[w] = write[w] \/ (w = m /\ write[w] = "kept" /\ write'[w] = "synced")
      /\ write' \in [Writes -> Stages] /\ write'[m] # "kept"
  BY <1>0, <1>2 DEF PhoneInv, Types, UserTypes, Stages
<1>6. Types'
  BY <1>0, <1>3, <1>4, <1>5 DEF PhoneInv, Types, UserTypes, RowTypes, ReqTypes, Server, HistoryTypes
<1>7. ASSUME NEW w \in Writes PROVE WriteAt(w)'
  <2>1. WriteAt(w)
    BY DEF PhoneInv
  <2>2. CASE w = m
    BY <1>0, <1>1, <1>2, <1>3, <1>4, <1>5, <2>1, <2>2 DEF WriteAt, Begun
  <2>3. CASE w # m
    BY <1>0, <1>2, <1>3, <1>4, <1>5, <2>1, <2>3 DEF WriteAt, Begun
  <2> QED BY <2>2, <2>3
<1>8. (\A b \in Slots : SlotAt(b)') /\ OneEach'
  <2>1. \A w \in Writes : write[w] \in Begun => write'[w] \in Begun
    BY <1>5 DEF Begun
  <2>2. \A b \in Slots : req'[b].by # "replay" /\ LeftAlone(b)
    BY <1>0 DEF PhoneInv, SlotAt, LeftAlone
  <2>3. ASSUME NEW b \in Slots, req'[b].by = "direct" PROVE write'[req[b].m] = "sending"
    <3>1. write[req[b].m] = "sending" /\ req[b].m \in Writes
      BY <1>0, <2>3 DEF PhoneInv, SlotAt
    <3> QED BY <1>5, <3>1
  <2>4. UNCHANGED <<handled, direct>>
    BY <1>0
  <2> QED BY <1>4, <2>1, <2>2, <2>3, <2>4, SlotsKept
<1>9. ASSUME NEW c \in Creates PROVE RowAt(c)'
  <2>1. RowAt(c) /\ (copy[c] \in Writes /\ write[copy[c]] = "discarded" => write'[copy[c]] = "discarded")
    BY <1>5 DEF PhoneInv
  <2>2. m \notin overtaken => offline[c] # m /\ copy[c] # m
    BY <1>0, <2>1 DEF RowAt, m
  <2> QED BY <1>0, <1>3, <1>4, <2>1, <2>2 DEF RowAt
<1>10. FlushState'
  <2>1. FlushOrder'
    <3> SUFFICES ASSUME NEW x \in Writes, NEW y \in Range(flush'.todo), Before(queue', x, y)
                 PROVE  handled'[x] > 0 \/ Before(flush'.todo, x, y)
      BY DEF FlushOrder
    <3>1. handled[x] > 0 \/ Before(flush.todo, x, y)
      BY <1>2, <1>3, <1>4 DEF PhoneInv, FlushState, FlushOrder
    <3> QED BY <1>0, <1>1, <1>2, <1>3, <3>1
  <2> QED BY <1>3, <2>1 DEF FlushState
<1>11. DiscardState'
  <2>1. flush'.on = flush.on
    BY <1>0 DEF PhoneInv, Types, FlushTypes
  <2> QED BY <1>0, <2>1, DiscardStays DEF PhoneInv
<1> QED BY <1>6, <1>7, <1>8, <1>9, <1>10, <1>11 DEF PhoneInv

LEMMA RowsAdvance ==
  ASSUME NEW s \in Seq(Writes), s # <<>>
  PROVE  Head(s) \in Writes /\ Tail(s) \in Seq(Writes) /\ Range(s) \subseteq {Head(s)} \cup Range(Tail(s))
<1> DEFINE t == Tail(s)
<1>1. /\ Len(s) \in Nat \ {0} /\ DOMAIN s = 1..Len(s) /\ Head(s) = s[1] /\ Head(s) \in Writes
      /\ t \in Seq(Writes) /\ DOMAIN t = 1..(Len(s) - 1)
      /\ \A i \in 1..(Len(s) - 1) : t[i] = s[i + 1]
  OBVIOUS
<1> HIDE DEF t
<1>2. ASSUME NEW i \in DOMAIN s, i # 1 PROVE s[i] \in Range(t)
  <2>1. i - 1 \in 1..(Len(s) - 1) /\ (i - 1) + 1 = i
    BY <1>1, <1>2
  <2> QED BY <1>1, <2>1 DEF Range
<1>3. Range(s) \subseteq {Head(s)} \cup Range(t)
  BY <1>1, <1>2 DEF Range
<1> QED BY <1>1, <1>3 DEF t

\* discardOfflineMutation: the rows of one write go, unless nobody is signed in.
LEMMA DiscardRowKeeps == ASSUME PhoneInv, DiscardRow PROVE PhoneInv'
<1> USE DEF server
<1> DEFINE m == Head(discarding.rows)
           c == RecordOf(m)
           underLocalId == m \in Creates \cup byLocalId
<1>0. /\ discarding.rows # <<>> /\ discarding' = [discarding EXCEPT !.rows = Tail(@)]
      /\ offline' = IF signedIn /\ underLocalId /\ offline[c] = m
                    THEN [offline EXCEPT ![c] = None] ELSE offline
      /\ copy' = IF signedIn /\ ~underLocalId /\ copy[c] = m THEN [copy EXCEPT ![c] = None] ELSE copy
      /\ crossed' = IF signedIn THEN crossed ELSE crossed \cup {m}
      /\ UNCHANGED <<signedIn, write, queue, byLocalId, ids, flush, req, server, gaps, overtaken,
                     direct, mishapsLeft>>
  BY DEF DiscardRow
<1>1. discarding \in [ms : SUBSET Writes, all : BOOLEAN, rows : Seq(Writes)]
  BY DEF PhoneInv, Types, UserTypes
<1>2. m \in Writes /\ Tail(discarding.rows) \in Seq(Writes)
      /\ Range(discarding.rows) \subseteq {m} \cup Range(Tail(discarding.rows))
  BY <1>0, <1>1, RowsAdvance
<1>3. /\ discarding' \in [ms : SUBSET Writes, all : BOOLEAN, rows : Seq(Writes)]
      /\ discarding'.ms = discarding.ms /\ discarding'.rows = Tail(discarding.rows)
  BY <1>0, <1>1, <1>2
<1>4. c \in Creates
  BY <1>2, WritesAssumption DEF RecordOf, Writes
<1>5. RowTypes /\ HistoryTypes /\ None \notin Writes /\ Synced \notin Writes /\ Creates \cap Edits = {}
  BY WritesAssumption DEF PhoneInv, Types
<1> HIDE DEF c, m
<1>6. /\ RowTypes'
      /\ \A d \in Creates :
           /\ offline'[d] = IF signedIn /\ underLocalId /\ d = c /\ offline[d] = m THEN None ELSE offline[d]
           /\ copy'[d] = IF signedIn /\ ~underLocalId /\ d = c /\ copy[d] = m THEN None ELSE copy[d]
  BY <1>0, <1>4, <1>5 DEF RowTypes
<1>7. crossed \subseteq crossed' /\ crossed' \subseteq Writes
  BY <1>0, <1>2, <1>5 DEF HistoryTypes
<1>8. Types'
  BY <1>0, <1>3, <1>6, <1>7 DEF PhoneInv, Types, UserTypes, QueueTypes, FlushTypes, ReqTypes, Server,
                                HistoryTypes
<1>9. \A w \in Writes : WriteAt(w)'
  BY <1>0 DEF PhoneInv, WriteAt, Queued
<1>10. (\A a \in Slots : SlotAt(a)') /\ OneEach'
  BY <1>0 DEF PhoneInv, SlotAt, OneEach, FrontIsDone
<1>11. ASSUME NEW d \in Creates PROVE RowAt(d)'
  <2>1. RowAt(d)
    BY DEF PhoneInv
  <2>2. flush.at = "synced" => Head(flush.todo) \in Writes
    BY TodoAdvances DEF PhoneInv, FlushState, Types, FlushTypes
  <2>3. (offline'[d] = None \/ offline'[d] = offline[d]) /\ (copy'[d] = None \/ copy'[d] = copy[d])
    BY <1>6
  <2> QED BY <1>0, <1>5, <1>7, <2>1, <2>2, <2>3 DEF RowAt, Queued
<1>12. FlushState'
  BY <1>0 DEF PhoneInv, FlushState, FlushOrder
<1>13. DiscardState'
  <2>1. DiscardState
    BY DEF PhoneInv
  <2>2. ASSUME NEW w \in discarding.ms, w \notin Range(discarding'.rows) \cup crossed' PROVE RowGone(w)'
    <3>1. CASE RowGone(w)
      BY <1>0, <1>1, <1>5, <1>6, <3>1 DEF RowGone
    <3>2. CASE ~RowGone(w)
      <4>1. w = m /\ signedIn
        BY <1>0, <1>2, <1>3, <1>7, <2>1, <2>2, <3>2 DEF DiscardState
      <4>2. ASSUME NEW d \in Creates PROVE offline'[d] # w /\ (copy'[d] = w => w \in byLocalId)
        <5>1. RowAt(d) /\ w \in Writes
          BY <1>2, <4>1 DEF PhoneInv
        <5>2. offline[d] = w => d = c /\ underLocalId
          BY <1>5, <4>1, <5>1 DEF RowAt, c
        <5>3. copy[d] = w => d = c /\ w \in Edits
          BY <4>1, <5>1 DEF RowAt, c
        <5> QED BY <1>5, <1>6, <4>1, <5>1, <5>2, <5>3
      <4> QED BY <1>0, <4>2 DEF RowGone
    <3> QED BY <3>1, <3>2
  <2> QED BY <1>0, <1>3, <1>7, <2>1, <2>2 DEF DiscardState
<1> QED BY <1>8, <1>9, <1>10, <1>11, <1>12, <1>13 DEF PhoneInv

\* The writes leave the queue when their rows are gone; those still being saved are overtaken.
LEMMA DiscardKeeps == ASSUME PhoneInv, Discard PROVE PhoneInv'
<1> USE DEF server
<1> DEFINE ms == discarding.ms
           gone == IF ~signedIn THEN {} ELSE IF discarding.all THEN Queued ELSE ms \cap Queued
<1>0. /\ discarding.rows = <<>> /\ discarding' = Nothing /\ queue' = Without(gone)
      /\ write' = [m \in Writes |-> IF m \in gone \cap ms /\ write[m] = "kept" THEN "discarded" ELSE write[m]]
      /\ overtaken' = overtaken \cup {m \in gone : m \notin ms \/ write[m] = "staging"}
      /\ UNCHANGED <<signedIn, byLocalId, ids, offline, copy, flush, req, server, gaps, crossed,
                     direct, mishapsLeft>>
  BY DEF Discard
<1>1. Queued \subseteq Writes /\ ms \subseteq Writes /\ gone \subseteq Queued
  BY DEF PhoneInv, Types, QueueTypes, UserTypes, Queued, Range
<1> HIDE DEF gone
<1>2. /\ QueueTypes' /\ Queued' = Queued \ gone
      /\ \A x, y : Before(queue', x, y) => Before(queue, x, y)
  BY <1>0, QueueShrinks DEF PhoneInv, Types, QueueTypes, Queued
<1>3. \A m \in ms : m \in crossed \/ RowGone(m)
  BY <1>0, NothingInEmpty DEF PhoneInv, DiscardState
<1> HIDE DEF ms
<1>4. /\ \A w \in Writes : write'[w] = write[w] \/
                           (write[w] = "kept" /\ write'[w] = "discarded" /\ w \in gone \cap ms)
      /\ \A w \in gone : write[w] \in {"staging", "kept"} /\ (w \in overtaken' \/ write'[w] = "discarded")
      /\ \A w \in gone : w \in ms \/ w \in overtaken'
  BY <1>0, <1>1 DEF PhoneInv, WriteAt
<1>5. write' \in [Writes -> Stages]
  <2>1. \A w \in Writes : write'[w] \in Stages
    BY <1>4 DEF PhoneInv, Types, UserTypes, Stages
  <2> QED BY <1>0, <2>1
<1>6. overtaken \subseteq overtaken' /\ overtaken' \subseteq Writes
  BY <1>0, <1>1 DEF PhoneInv, Types, HistoryTypes
<1>7. Types'
  <2>1. discarding' \in [ms : SUBSET Writes, all : BOOLEAN, rows : Seq(Writes)]
    BY <1>0, NothingInEmpty DEF Nothing
  <2> QED BY <1>0, <1>2, <1>5, <1>6, <2>1 DEF PhoneInv, Types, UserTypes, RowTypes, FlushTypes,
                                              ReqTypes, Server, HistoryTypes
<1>8. ASSUME NEW w \in Writes PROVE WriteAt(w)'
  <2>1. WriteAt(w)
    BY DEF PhoneInv
  <2> QED BY <1>0, <1>1, <1>2, <1>4, <1>6, <2>1 DEF WriteAt, Begun
<1>9. (\A b \in Slots : SlotAt(b)') /\ OneEach'
  <2>1. \A w \in Writes : write[w] \in Begun => write'[w] \in Begun
    BY <1>4 DEF Begun
  <2>2. \A b \in Slots : LeftAlone(b) /\ (req'[b].by = "replay" => flush'.at = "waiting")
    BY <1>0 DEF PhoneInv, SlotAt, LeftAlone
  <2>3. ASSUME NEW b \in Slots, req'[b].by = "direct" PROVE write'[req[b].m] = "sending"
    <3>1. write[req[b].m] = "sending" /\ req[b].m \in Writes
      BY <1>0, <2>3 DEF PhoneInv, SlotAt
    <3> QED BY <1>4, <3>1
  <2>4. UNCHANGED <<handled, direct, flush>>
    BY <1>0
  <2> QED BY <1>2, <2>1, <2>2, <2>3, <2>4, SlotsKept
<1>10. ASSUME NEW c \in Creates PROVE RowAt(c)'
  <2>1. RowAt(c) /\ (copy[c] \in Writes /\ write[copy[c]] = "discarded" => write'[copy[c]] = "discarded")
    BY <1>4 DEF PhoneInv
  <2>2. \A w \in Queued \cup overtaken \cup crossed :
           w \in Queued' \cup overtaken' \cup crossed' \/ (RowGone(w) /\ w \in gone)
    BY <1>0, <1>2, <1>3, <1>4, <1>6
  <2>3. offline[c] \in Queued \cup overtaken \cup crossed =>
           offline[c] \in Queued' \cup overtaken' \cup crossed'
    BY <2>2 DEF RowGone
  <2>4. copy[c] \in Queued \cup overtaken \cup crossed =>
           \/ copy[c] \in Queued' \cup overtaken' \cup crossed'
           \/ copy[c] \in byLocalId /\ write'[copy[c]] = "discarded"
    BY <1>4, <2>2 DEF RowGone
  <2> QED BY <1>0, <1>6, <2>1, <2>3, <2>4 DEF RowAt
<1>11. FlushState'
  <2>1. flush.at = "synced" => Head(flush.todo) \in Writes
    BY TodoAdvances DEF PhoneInv, FlushState, Types, FlushTypes
  <2>2. flush.at = "synced" /\ write'[Head(flush.todo)] = "staging" => Head(flush.todo) \in overtaken'
    BY <1>0, <1>4, <1>6, <2>1 DEF PhoneInv, FlushState
  <2>3. FlushOrder'
    BY <1>0, <1>2 DEF PhoneInv, FlushState, FlushOrder
  <2> QED BY <1>0, <2>2, <2>3 DEF PhoneInv, FlushState
<1>12. DiscardState'
  BY <1>0 DEF DiscardState, Nothing
<1> QED BY <1>7, <1>8, <1>9, <1>10, <1>11, <1>12 DEF PhoneInv

-----------------------------------------------------------------------------
(* The server *)

\* What a server step does to a request: it moves on with its write, or is dropped when nobody
\* waits; one that is handled or answered has its write carried out.
Served(a) ==
    \/ req'[a] = req[a]
    \/ req[a].by = "nobody" /\ req'[a] = Free
    \/ /\ req[a].at # "free" /\ req'[a].at # "free"
       /\ req'[a].m = req[a].m /\ req'[a].by = req[a].by
       /\ req'[a].at \in {"handled", "ok"} => handled'[req[a].m] > 0

LEMMA ServedKeeps ==
  ASSUME PhoneInv, ReqTypes', Server', mishapsLeft' \in Nat,
         \A a \in Slots : Served(a), \A m \in Writes : handled[m] > 0 => handled'[m] > 0,
         \A m \in Writes : receipt'[m] # 0 => handled'[m] > 0,
         UNCHANGED <<phone, overtaken, crossed, direct>>
  PROVE  PhoneInv'
<1> USE DEF phone
<1>1. Types'
  BY DEF PhoneInv, Types, UserTypes, QueueTypes, RowTypes, FlushTypes, HistoryTypes
<1>2. \A m \in Writes : WriteAt(m)'
  BY DEF PhoneInv, WriteAt, Queued
<1>3. ASSUME NEW a \in Slots PROVE SlotAt(a)'
  <2>1. SlotAt(a) /\ Served(a)
    BY DEF PhoneInv
  <2>2. \A w \in Writes : FrontIsDone(w) => FrontIsDone(w)'
    BY DEF FrontIsDone
  <2>3. CASE req'[a] = req[a]
    BY <2>1, <2>2, <2>3 DEF SlotAt
  <2>4. CASE req'[a] = Free
    BY <2>4 DEF SlotAt, Free
  <2>5. CASE /\ req[a].at # "free" /\ req'[a].at # "free"
             /\ req'[a].m = req[a].m /\ req'[a].by = req[a].by
             /\ req'[a].at \in {"handled", "ok"} => handled'[req[a].m] > 0
    BY <2>1, <2>2, <2>5 DEF SlotAt
  <2> QED BY <2>1, <2>3, <2>4, <2>5 DEF Served
<1>4. \A a \in Slots : req'[a].by # "nobody" => req'[a].m = req[a].m /\ req'[a].by = req[a].by
  BY DEF Served, Free
<1>5. OneEach'
  BY <1>4 DEF PhoneInv, OneEach
<1>6. \A c \in Creates : RowAt(c)'
  BY DEF PhoneInv, RowAt, Queued
<1>7. FlushState'
  <2>1. flush.at = "waiting" => \E a \in Slots : req'[a].by = "replay"
    BY DEF PhoneInv, FlushState, Served
  <2>2. flush.at = "synced" => Head(flush.todo) \in Writes
    BY TodoAdvances DEF PhoneInv, FlushState, Types, FlushTypes
  <2>3. FlushOrder'
    BY DEF PhoneInv, FlushState, FlushOrder
  <2> QED BY <2>1, <2>2, <2>3 DEF PhoneInv, FlushState
<1>8. DiscardState'
  BY DiscardStays DEF PhoneInv
<1> QED BY <1>1, <1>2, <1>3, <1>5, <1>6, <1>7, <1>8 DEF PhoneInv

LEMMA OneServed ==
  ASSUME ReqTypes, NEW a \in Slots, NEW at \in {"behind", "running", "handled", "ok", "error"},
         req[a].at \notin {"free"}, at \in {"handled", "ok"} => handled'[req[a].m] > 0,
         req' = [req EXCEPT ![a].at = at] \/ req' = [req EXCEPT ![a] = Answered(a, at)]
  PROVE  ReqTypes' /\ \A b \in Slots : Served(b)
<1> USE DEF RequestRows
<1>1. req \in [Slots -> RequestRows] /\ Free \in RequestRows
  BY DEF ReqTypes, Free
<1>2. [req[a] EXCEPT !.at = at] \in RequestRows
  BY <1>1
<1>3. PICK r \in RequestRows :
                     /\ req' = [req EXCEPT ![a] = r]
                     /\ \/ r = [req[a] EXCEPT !.at = at]
                        \/ req[a].by = "nobody" /\ r = Free
  BY <1>1, <1>2 DEF Answered
<1>4. req'[a] = r /\ \A b \in Slots \ {a} : req'[b] = req[b]
  BY <1>1, <1>3
<1>5. ReqTypes'
  BY <1>1, <1>3 DEF ReqTypes
<1>6. Served(a)
  BY <1>1, <1>3, <1>4 DEF Served
<1> QED BY <1>4, <1>5, <1>6 DEF Served

LEMMA FinishServes ==
  ASSUME ReqTypes, Server, NEW a \in Slots, NEW outcome \in {"ok", "error"}, Finish(a, outcome),
         req[a].at # "free", outcome = "ok" => handled'[req[a].m] > 0
  PROVE  /\ ReqTypes' /\ \A b \in Slots : Served(b)
         /\ pending' \in [Writes -> Slots \cup {None}]
<1> USE DEF RequestRows
<1> DEFINE done(b) == b = a \/ (req[b].at = "behind" /\ req[b].m = req[a].m)
<1>1. req \in [Slots -> RequestRows] /\ Free \in RequestRows
  BY DEF ReqTypes, Free
<1>2. ASSUME NEW b \in Slots PROVE Answered(b, outcome) \in RequestRows
  BY <1>1 DEF Answered
<1>3. req' = [b \in Slots |-> IF done(b) THEN Answered(b, outcome) ELSE req[b]]
  BY DEF Finish
<1>4. ReqTypes'
  BY <1>1, <1>2, <1>3 DEF ReqTypes
<1>5. ASSUME NEW b \in Slots PROVE Served(b)
  <2>1. CASE done(b)
    <3>1. req'[b] = Answered(b, outcome) /\ req[b].m = req[a].m /\ req[b].at # "free"
      BY <1>3, <2>1
    <3>2. CASE req[b].by = "nobody"
      BY <3>1, <3>2 DEF Answered, Served
    <3>3. CASE req[b].by # "nobody"
      BY <1>1, <3>1, <3>3 DEF Answered, Served
    <3> QED BY <3>2, <3>3
  <2>2. CASE ~done(b)
    BY <1>3, <2>2 DEF Served
  <2> QED BY <2>1, <2>2
<1>6. pending' \in [Writes -> Slots \cup {None}]
  BY DEF Finish, Server
<1> QED BY <1>4, <1>5, <1>6

LEMMA ServerStepKeeps ==
  ASSUME PhoneInv, NEW a \in Slots, Arrive(a) \/ Handle(a) \/ Record(a) \/ Lose(a)
  PROVE  PhoneInv'
<1> DEFINE m == req[a].m
<1>0. /\ ReqTypes /\ Server /\ mishapsLeft \in Nat /\ SlotAt(a)
      /\ \A w \in Writes : receipt[w] # 0 => handled[w] > 0
  BY DEF PhoneInv, Types, UserTypes, HistoryTypes, WriteAt
<1>1. CASE Arrive(a)
  <2>1. /\ req[a].at = "sent" /\ m \in Writes
        /\ UNCHANGED <<receipt, handled, gaps, mishapsLeft, phone, overtaken, crossed, direct>>
    BY <1>0, <1>1 DEF Arrive, unchangedPhone, SlotAt
  <2>2. ReqTypes' /\ \A b \in Slots : Served(b)
    <3>1. CASE req' = [req EXCEPT ![a].at = "behind"]
      BY <1>0, <2>1, <3>1, OneServed
    <3>2. CASE receipt[m] # 0 /\ req' = [req EXCEPT ![a] = Answered(a, "ok")]
      BY <1>0, <2>1, <3>2, OneServed
    <3>3. CASE req' = [req EXCEPT ![a].at = "running"]
      BY <1>0, <2>1, <3>3, OneServed
    <3> QED BY <1>1, <3>1, <3>2, <3>3 DEF Arrive
  <2>3. Server'
    BY <1>0, <1>1, <2>1 DEF Arrive, Server
  <2> QED BY <1>0, <2>1, <2>2, <2>3, ServedKeeps
<1>2. CASE Handle(a)
  <2>1. /\ req[a].at = "running" /\ m \in Writes
        /\ UNCHANGED <<receipt, gaps, phone, overtaken, crossed, direct>>
    BY <1>0, <1>2 DEF Handle, unchangedPhone, SlotAt
  <2>2. CASE /\ handled' = [handled EXCEPT ![m] = @ + 1] /\ req' = [req EXCEPT ![a].at = "handled"]
             /\ UNCHANGED <<pending, mishapsLeft>>
    <3>1. \A w \in Writes : handled'[w] = IF w = m THEN handled[w] + 1 ELSE handled[w]
      BY <1>0, <2>2 DEF Server
    <3>2. handled' = [w \in Writes |-> handled'[w]]
      BY <1>0, <2>2 DEF Server
    <3>3. \A w \in Writes : handled[w] \in Nat /\ handled'[w] \in Nat
      BY <1>0, <3>1 DEF Server
    <3>4. Server'
      BY <1>0, <2>1, <2>2, <3>2, <3>3 DEF Server
    <3>5. handled'[m] > 0 /\ \A w \in Writes : handled[w] > 0 => handled'[w] > 0
      BY <2>1, <3>1, <3>3
    <3>6. ReqTypes' /\ \A b \in Slots : Served(b)
      BY <1>0, <2>1, <2>2, <3>5, OneServed
    <3> QED BY <1>0, <2>1, <2>2, <3>4, <3>5, <3>6, ServedKeeps
  <2>3. CASE Finish(a, "error") /\ UNCHANGED handled /\ (UNCHANGED mishapsLeft \/ Mishap)
    <3>1. ReqTypes' /\ (\A b \in Slots : Served(b)) /\ pending' \in [Writes -> Slots \cup {None}]
      BY <1>0, <2>1, <2>3, FinishServes
    <3>2. Server' /\ mishapsLeft' \in Nat
      BY <1>0, <2>1, <2>3, <3>1, MishapCounts DEF Server
    <3> QED BY <1>0, <2>1, <2>3, <3>1, <3>2, ServedKeeps
  <2> QED BY <1>2, <2>2, <2>3 DEF Handle
<1>3. CASE Record(a)
  <2>1. /\ req[a].at = "handled" /\ m \in Writes /\ handled[m] > 0
        /\ UNCHANGED <<handled, phone, overtaken, crossed, direct>>
    BY <1>0, <1>3 DEF Record, unchangedPhone, SlotAt
  <2>2. CASE receipt' = [receipt EXCEPT ![m] = handled[m]] /\ Finish(a, "ok") /\ UNCHANGED <<gaps, mishapsLeft>>
    <3>1. ReqTypes' /\ (\A b \in Slots : Served(b)) /\ pending' \in [Writes -> Slots \cup {None}]
      BY <1>0, <2>1, <2>2, FinishServes
    <3>2. Server' /\ \A w \in Writes : receipt'[w] # 0 => handled'[w] > 0
      BY <1>0, <2>1, <2>2, <3>1 DEF Server
    <3> QED BY <1>0, <2>1, <2>2, <3>1, <3>2, ServedKeeps
  <2>3. CASE /\ Mishap /\ Finish(a, "error") /\ UNCHANGED receipt
             /\ gaps' = [gaps EXCEPT ![m] = @ + 1]
    <3>1. ReqTypes' /\ (\A b \in Slots : Served(b)) /\ pending' \in [Writes -> Slots \cup {None}]
      BY <1>0, <2>1, <2>3, FinishServes
    <3>2. gaps' \in [Writes -> Nat]
      BY <1>0, <2>3, OneMore DEF Server
    <3>3. Server' /\ mishapsLeft' \in Nat
      BY <1>0, <2>1, <2>3, <3>1, <3>2, MishapCounts DEF Server
    <3> QED BY <1>0, <2>1, <2>3, <3>1, <3>3, ServedKeeps
  <2> QED BY <1>3, <2>1, <2>2, <2>3 DEF Record
<1>4. CASE Lose(a)
  <2>1. /\ req[a].by = "nobody" /\ req' = [req EXCEPT ![a] = Free]
        /\ UNCHANGED <<pending, receipt, handled, gaps, mishapsLeft, phone, overtaken, crossed, direct>>
    BY <1>4 DEF Lose, unchangedPhone, server
  <2>2. ReqTypes'
    BY <1>0, <2>1, SlotEnds
  <2>3. \A b \in Slots : Served(b)
    BY <1>0, <2>1 DEF Served, ReqTypes
  <2>4. Server'
    BY <1>0, <2>1 DEF Server
  <2> QED BY <1>0, <2>1, <2>2, <2>3, <2>4, ServedKeeps
<1> QED BY <1>1, <1>2, <1>3, <1>4

LEMMA ServerDeathKeeps == ASSUME PhoneInv, ServerDies PROVE PhoneInv'
<1> USE DEF RequestRows
<1> DEFINE dead(a) == req[a].at \in {"behind", "running", "handled"}
           row(a) == IF ~dead(a) THEN req[a] ELSE IF req[a].by = "nobody" THEN Free
                     ELSE [req[a] EXCEPT !.at = "dead"]
<1>0. /\ req \in [Slots -> RequestRows] /\ Free \in RequestRows
      /\ Server /\ mishapsLeft \in Nat
      /\ \A w \in Writes : receipt[w] # 0 => handled[w] > 0
  BY DEF PhoneInv, Types, UserTypes, HistoryTypes, WriteAt, ReqTypes, Free
<1>1. /\ Mishap /\ req' = [a \in Slots |-> row(a)] /\ pending' = [m \in Writes |-> None]
      /\ gaps' = [m \in Writes |-> gaps[m] + IF AtReceipt(m) THEN 1 ELSE 0]
      /\ UNCHANGED <<receipt, handled, phone, overtaken, crossed, direct>>
  BY DEF ServerDies, unchangedPhone
<1>2. ASSUME NEW a \in Slots PROVE row(a) \in RequestRows
  BY <1>0
<1>3. ReqTypes' /\ \A a \in Slots : req'[a] = row(a)
  BY <1>1, <1>2 DEF ReqTypes
<1>4. ASSUME NEW a \in Slots PROVE Served(a)
  <2>1. CASE ~dead(a)
    BY <1>3, <2>1 DEF Served
  <2>2. CASE dead(a) /\ req[a].by = "nobody"
    BY <1>3, <2>2 DEF Served
  <2>3. CASE dead(a) /\ req[a].by # "nobody"
    <3>1. req'[a] = [req[a] EXCEPT !.at = "dead"] /\ req[a].at # "free"
      BY <1>3, <2>3
    <3> QED BY <1>0, <3>1 DEF Served
  <2> QED BY <2>1, <2>2, <2>3
<1>5. gaps' \in [Writes -> Nat]
  BY <1>0, <1>1 DEF Server
<1>6. Server' /\ mishapsLeft' \in Nat
  BY <1>0, <1>1, <1>5, MishapCounts DEF Server
<1> QED BY <1>0, <1>1, <1>3, <1>4, <1>5, <1>6, ServedKeeps

-----------------------------------------------------------------------------

LEMMA PhoneInit == Init => PhoneInv
<1> SUFFICES ASSUME Init PROVE PhoneInv
  OBVIOUS
<1>1. PICK day \in Days : /\ write = [m \in Writes |-> IF m \in day.writes THEN "unsaved" ELSE "unneeded"]
                          /\ mishapsLeft = day.mishaps
  BY DEF Init
<1>2. mishapsLeft \in Nat /\ \A m \in Writes : write[m] \in {"unsaved", "unneeded"}
  BY <1>1, BoundsAssumption
<1>3. UserTypes
  BY <1>1, <1>2, NothingInEmpty DEF Init, UserTypes, Stages, Nothing
<1>4. queue = <<>> /\ Queued = {} /\ flush = Idle /\ Range(flush.todo) = {} /\ flush.at = "next"
  BY NothingInEmpty DEF Init, Idle, Queued
<1>5. QueueTypes /\ FlushTypes
  BY <1>4, NothingInEmpty DEF Init, QueueTypes, FlushTypes, Idle
<1>6. RowTypes /\ Server /\ HistoryTypes
  BY DEF Init, RowTypes, Server, HistoryTypes
<1>7. ReqTypes /\ \A a \in Slots : req[a].at = "free" /\ req[a].by = "nobody"
  BY DEF Init, ReqTypes, RequestRows, Free
<1>8. /\ \A m \in Writes : receipt[m] = 0 /\ handled[m] = 0
      /\ \A c \in Creates : offline[c] = None /\ copy[c] = None
  BY DEF Init
<1>9. \A m \in Writes : WriteAt(m)
  BY <1>2, <1>4, <1>8 DEF WriteAt
<1>10. (\A a \in Slots : SlotAt(a)) /\ OneEach
  BY <1>7 DEF SlotAt, OneEach
<1>11. \A c \in Creates : RowAt(c)
  BY <1>4, <1>8, WritesAssumption DEF RowAt
<1>12. FlushState
  BY <1>4 DEF FlushState, FlushOrder
<1>13. DiscardState
  BY DEF Init, DiscardState, Nothing, Idle
<1> QED BY <1>3, <1>5, <1>6, <1>7, <1>9, <1>10, <1>11, <1>12, <1>13 DEF PhoneInv, Types

LEMMA PhoneNext == PhoneInv /\ [Next]_vars => PhoneInv'
<1> SUFFICES ASSUME PhoneInv, [Next]_vars PROVE PhoneInv'
  OBVIOUS
<1>1. CASE UserSaves
  BY <1>1, SaveOnlineKeeps, SaveOfflineKeeps DEF UserSaves
<1>2. CASE UserDiscards \/ SignOut \/ SignIn
  BY <1>2, TalksKeep DEF UserDiscards
<1>3. CASE PhoneWorks
  <2>1. ASSUME NEW a \in Slots,
               DirectOk(a) \/ DirectRefused(a) \/ ReplayOk(a) \/ ReplayFails(a) \/ DirectGivesUp(a)
        PROVE  PhoneInv'
    BY <2>1, DirectOkKeeps, DirectRefusedKeeps, ReplayOkKeeps, ReplayFailsKeeps, DirectGivesUpKeeps
  <2>2. ASSUME NEW m \in Writes, Stage(m) PROVE PhoneInv'
    BY <2>2, StageKeeps
  <2>3. CASE StartFlush \/ ReplaySend \/ FlushStops \/ RemoveSynced \/ DiscardRow \/ Discard
    BY <2>3, StartKeeps, ReplaySendKeeps, StopKeeps, RemoveSyncedKeeps, DiscardRowKeeps, DiscardKeeps
  <2> QED BY <1>3, <2>1, <2>2, <2>3 DEF PhoneWorks
<1>4. CASE PhoneDies
  BY <1>4, PhoneDeathKeeps
<1>5. CASE ServerWorks
  BY <1>5, ServerStepKeeps DEF ServerWorks
<1>6. CASE ServerDies
  BY <1>6, ServerDeathKeeps
<1>7. CASE UNCHANGED vars
  <2>1. UserTypes'
    BY <1>7 DEF vars, phone, PhoneInv, Types, UserTypes
  <2>2. DiscardState'
    BY <1>7, DiscardStays DEF vars, phone, history, PhoneInv
  <2> QED BY <1>7, <2>1, <2>2, TalkKeeps DEF vars, phone
<1> QED BY <1>1, <1>2, <1>3, <1>4, <1>5, <1>6, <1>7 DEF Next

\* The requests of the flush are one while it waits, and none otherwise.
LEMMA OneReplay ==
  ASSUME PhoneInv
  PROVE  Cardinality({a \in Slots : req[a].by = "replay"}) = IF flush.at = "waiting" THEN 1 ELSE 0
<1> DEFINE A == {a \in Slots : req[a].by = "replay"}
<1>1. CASE flush.at = "waiting"
  <2>1. PICK a \in Slots : req[a].by = "replay"
    BY <1>1 DEF PhoneInv, FlushState
  <2>2. A = {a}
    BY <2>1 DEF PhoneInv, OneEach
  <2> QED BY <1>1, <2>2, FS_Singleton
<1>2. CASE flush.at # "waiting"
  <2>1. A = {}
    BY <1>2 DEF PhoneInv, SlotAt
  <2> QED BY <1>2, <2>1, FS_EmptySet
<1> QED BY <1>1, <1>2

\* TypeOK (run offline_sync): a write is queued once (enqueue's test for its id), one replay is
\* under way at most and only while a flush waits for it (the flag running), for any writes.
THEOREM TypeCorrect == Spec => []TypeOK
<1>1. PhoneInv => TypeOK
  <2> SUFFICES ASSUME PhoneInv PROVE TypeOK
    OBVIOUS
  <2> QED BY OneReplay DEF PhoneInv, Types, UserTypes, QueueTypes, RowTypes, FlushTypes, ReqTypes,
                           RequestRows, Server, HistoryTypes, TypeOK
<1> QED BY PhoneInit, PhoneNext, <1>1, PTL DEF Spec

\* NothingLost (run offline_sync): a write the phone said it keeps is queued, and one it said is
\* saved or synchronized was carried out, for any writes, requests at a time, lost connections,
\* deaths of the app or the server and sign-outs; but for one clearAll empties while it is saved.
THEOREM NothingIsLost == Spec => []NothingLost
<1>1. PhoneInv => NothingLost
  BY DEF PhoneInv, WriteAt, NothingLost
<1> QED BY PhoneInit, PhoneNext, <1>1, PTL DEF Spec

\* PendingRowsAreQueued (run offline_sync): a row shown as pending (stageOfflineMutation) is of a
\* write that is still to be sent, whatever reconcileOfflineMutation and discardOfflineMutation
\* do in between, for any writes; but for the writes overtaken, those whose discarding was crossed and an edit
\* under a local id.
THEOREM PendingRowsStayQueued == Spec => []PendingRowsAreQueued
<1>1. PhoneInv => PendingRowsAreQueued
  BY DEF PhoneInv, RowAt, PendingRowsAreQueued
<1> QED BY PhoneInit, PhoneNext, <1>1, PTL DEF Spec

\* Only the handler of the server carries a write out.
LEMMA HandlerHandles ==
  ASSUME PhoneInv, [Next]_vars, NEW m \in Writes, handled'[m] > handled[m]
  PROVE  \E a \in Slots : req[a].at = "running" /\ req[a].m = m
<1> USE DEF server
<1>0. Server
  BY DEF PhoneInv, Types
<1>1. UNCHANGED handled => FALSE
  BY <1>0 DEF Server
<1>2. CASE UserSaves \/ UserDiscards \/ SignOut \/ SignIn \/ PhoneDies \/ UNCHANGED vars
  BY <1>1, <1>2 DEF UserSaves, SaveOnline, SaveOffline, UserDiscards, AskClear, AskDiscard, SignOut,
                    SignIn, PhoneDies, vars
<1>3. CASE PhoneWorks
  BY <1>1, <1>3 DEF PhoneWorks, DirectOk, DirectRefused, ReplayOk, ReplayFails, DirectGivesUp, Stage,
                    StartFlush, ReplaySend, FlushStops, RemoveSynced, DiscardRow, Discard
<1>4. CASE ServerDies
  BY <1>1, <1>4 DEF ServerDies
<1>5. CASE ServerWorks
  <2>1. PICK a \in Slots : Arrive(a) \/ Handle(a) \/ Record(a) \/ Lose(a)
    BY <1>5 DEF ServerWorks
  <2>2. Handle(a)
    BY <1>1, <2>1 DEF Arrive, Record, Lose
  <2>3. req[a].at = "running" /\ handled' = [handled EXCEPT ![req[a].m] = @ + 1]
    BY <1>1, <2>2 DEF Handle
  <2>4. req[a].m = m
    BY <1>0, <2>3 DEF Server
  <2> QED BY <2>3, <2>4
<1> QED BY <1>2, <1>3, <1>4, <1>5 DEF Next

\* ReplaysInOrder (run offline_sync): the flush carries the queue out in its order ("Preserve
\* every ordered write"), whatever is queued, discarded, lost or repeated while it works, for any
\* writes and any number of requests at a time.
THEOREM ReplayedInOrder == Spec => ReplaysInOrder
<1>1. PhoneInv /\ [Next]_vars =>
        \A m \in Queued \ direct :
          handled'[m] > handled[m] =>
              \A i, j \in DOMAIN queue : i < j /\ queue[j] = m => handled[queue[i]] > 0
  <2> SUFFICES ASSUME PhoneInv, [Next]_vars, NEW m \in Queued \ direct, handled'[m] > handled[m],
                      NEW i \in DOMAIN queue, NEW j \in DOMAIN queue, i < j, queue[j] = m
               PROVE  handled[queue[i]] > 0
    OBVIOUS
  <2>1. Queued \subseteq Writes /\ queue[i] \in Writes
    BY DEF PhoneInv, Types, QueueTypes, Queued, Range
  <2>2. PICK a \in Slots : req[a].at = "running" /\ req[a].m = m
    BY <2>1, HandlerHandles
  <2>3. FrontIsDone(m)
    BY <2>2 DEF PhoneInv, SlotAt
  <2>4. Before(queue, queue[i], m)
    BY DEF Before
  <2> QED BY <2>1, <2>3, <2>4 DEF FrontIsDone
<1> QED BY PhoneInit, PhoneNext, <1>1, PTL DEF Spec, ReplaysInOrder
=============================================================================
