---- MODULE OfflineSync ----
(***************************************************************************)
(* Field records written on a phone without coverage: the mobile client's  *)
(* queue of writes (services/sync-queue.ts), its local copy of the records *)
(* (services/offline-cache.ts), the interceptors that decide between       *)
(* sending and queueing (lib/api.ts), and the server's receipts            *)
(* (common/interceptors/idempotency.interceptor.ts).  One account, one     *)
(* phone, one server process.                                              *)
(***************************************************************************)
EXTENDS Integers, Sequences, FiniteSets, SequencesExt

CONSTANTS
    Creates,     \* writes that POST a new record
    Edits,       \* writes that PATCH a record
    Parent,      \* [Creates \cup Edits -> the create whose record the write names, or None]
    Bad,         \* writes the server's validation refuses
    Slots,       \* bound: requests under way at the same time
    Days,        \* bound: which writes the user makes and how many mishaps (lost connections,
                 \* deaths, failures, sign-outs) there are, as records [writes, mishaps]
    None, Synced

Writes == Creates \cup Edits

ASSUME WritesAssumption ==
    /\ Creates \cap Edits = {}
    /\ Parent \in [Writes -> Creates \cup {None}]
    /\ \A e \in Edits : Parent[e] # None
    /\ {None, Synced} \cap Writes = {} /\ None # Synced
    /\ Bad \subseteq Writes

ASSUME BoundsAssumption ==
    None \notin Slots /\ Days \subseteq [writes : SUBSET Writes, mishaps : Nat]

VARIABLES
    \* the phone
    signedIn,    \* whether there is a session owner
    write,       \* what the user was told of each write
    queue,       \* the pending mutations, oldest first (persistent)
    byLocalId,   \* queued writes whose url or data still name an offline-... id
    ids,         \* mayode.ids: the server's row of each created record, 0 when unknown
    offline,     \* the local row offline-<c>: the write it shows as pending, or None
    copy,        \* the local row under the server's id: None, Synced or the pending write
    flush,       \* the flush in progress: its snapshot of the queue and where it is
    discarding,  \* what the user is discarding: the writes of the request, whether it is all of
                 \* the queue, and those whose rows are still to be removed
    req,         \* requests: on their way, at the server, or answered
    \* the server
    pending,     \* the interceptor's map of running work, by write (its key)
    receipt,     \* sync_receipts: the row answered, 0 when there is none
    handled,     \* how often the handler of each write has committed
    \* history
    gaps,        \* how often a write was handled without leaving a receipt
    overtaken,   \* writes replayed or cleared while the phone was still saving them
    crossed,     \* writes being discarded when a flush started, when the phone was still saving
                 \* them, or when nobody was signed in
    direct,      \* writes that were sent at once, not from the queue
    mishapsLeft

phone == <<signedIn, write, queue, byLocalId, ids, offline, copy, flush, discarding>>
server == <<pending, receipt, handled>>
history == <<gaps, overtaken, crossed, direct>>
vars == <<phone, req, server, history, mishapsLeft>>

Free == [m |-> None, at |-> "free", by |-> "nobody"]
Nothing == [ms |-> {}, all |-> FALSE, rows |-> <<>>]
Idle == [on |-> FALSE, todo |-> <<>>, at |-> "next"]

Init ==
    /\ signedIn = TRUE
    /\ \E day \in Days :
          /\ write = [m \in Writes |-> IF m \in day.writes THEN "unsaved" ELSE "unneeded"]
          /\ mishapsLeft = day.mishaps
    /\ queue = <<>> /\ byLocalId = {} /\ discarding = Nothing /\ flush = Idle
    /\ ids = [c \in Creates |-> 0]
    /\ offline = [c \in Creates |-> None] /\ copy = [c \in Creates |-> None]
    /\ req = [a \in Slots |-> Free]
    /\ pending = [m \in Writes |-> None]
    /\ receipt = [m \in Writes |-> 0] /\ handled = [m \in Writes |-> 0]
    /\ gaps = [m \in Writes |-> 0] /\ overtaken = {} /\ crossed = {} /\ direct = {}

----------------------------------------------------------------------------
(* Helpers *)

Queued == Range(queue)
\* queue.filter(...): the writes that are not among ms, in their order.
Without(ms) ==
    LET kept[n \in 0..Len(queue)] ==
            IF n = 0 THEN <<>>
            ELSE IF queue[n] \in ms THEN kept[n - 1] ELSE Append(kept[n - 1], queue[n])
    IN kept[Len(queue)]

\* The record a write is about.
RecordOf(m) == IF m \in Creates THEN m ELSE Parent[m]
\* resolveReplayUrl, resolveReplayData and hasPendingReferences: every id is the server's.
Resolved(m) == Parent[m] # None => ids[Parent[m]] # 0
\* The parent's record is on the phone's screens.
Visible(m) == Parent[m] # None => offline[Parent[m]] # None \/ copy[Parent[m]] # None

Mishap == mishapsLeft > 0 /\ mishapsLeft' = mishapsLeft - 1

Send(m, by) ==
    \E a \in Slots :
        /\ req[a] = Free
        /\ req' = [req EXCEPT ![a] = [m |-> m, at |-> "sent", by |-> by]]

Abandoned(a) ==
    IF req[a].at \in {"free", "ok", "error", "dead"} THEN Free ELSE [req[a] EXCEPT !.by = "nobody"]

Enqueue(m) ==
    /\ queue' = IF m \in Queued THEN queue ELSE Append(queue, m)
    /\ byLocalId' = IF Resolved(m) THEN byLocalId ELSE byLocalId \cup {m}
    /\ write' = [write EXCEPT ![m] = "staging"]

----------------------------------------------------------------------------
(* The user saves a record *)

SaveOnline(m) ==
    /\ signedIn /\ write[m] = "unsaved" /\ Visible(m) /\ Resolved(m)
    /\ Send(m, "direct")
    /\ write' = [write EXCEPT ![m] = "sending"]
    /\ direct' = direct \cup {m}
    /\ UNCHANGED <<signedIn, queue, byLocalId, ids, offline, copy, flush, discarding,
                   server, gaps, overtaken, crossed, mishapsLeft>>

\* No connection, or the write names a record the server does not know yet.
SaveOffline(m) ==
    /\ signedIn /\ write[m] = "unsaved" /\ Visible(m)
    /\ Enqueue(m)
    /\ UNCHANGED <<signedIn, ids, offline, copy, flush, discarding, req, server, history, mishapsLeft>>

\* The answer 2xx to a request that was sent at once; saveToReadCache spares pending rows.
DirectOk(a) ==
    LET m == req[a].m
        c == RecordOf(m)
    IN /\ req[a].at = "ok" /\ req[a].by = "direct"
       /\ write' = [write EXCEPT ![m] = "saved"]
       /\ ids' = IF signedIn /\ m \in Creates THEN [ids EXCEPT ![m] = receipt[m]] ELSE ids
       /\ copy' = IF signedIn /\ copy[c] \notin Writes THEN [copy EXCEPT ![c] = Synced] ELSE copy
       /\ req' = [req EXCEPT ![a] = Free]
       /\ UNCHANGED <<signedIn, queue, byLocalId, offline, flush, discarding, server, history,
                      mishapsLeft>>

\* The server answered with an error: the form shows it and nothing is kept.
DirectRefused(a) ==
    /\ req[a].at = "error" /\ req[a].by = "direct"
    /\ write' = [write EXCEPT ![req[a].m] = "refused"]
    /\ req' = [req EXCEPT ![a] = Free]
    /\ UNCHANGED <<signedIn, queue, byLocalId, ids, offline, copy, flush, discarding, server,
                   history, mishapsLeft>>

\* The phone stops waiting (15 s, or no connection).  The request may still arrive.  A server
\* that died is noticed at no charge to the bound.
GivesUp(a, by) ==
    /\ req[a].by = by
    /\ \/ req[a].at = "dead" /\ UNCHANGED mishapsLeft /\ req' = [req EXCEPT ![a] = Free]
       \/ req[a].at # "dead" /\ Mishap /\ req' = [req EXCEPT ![a] = Abandoned(a)]

DirectGivesUp(a) ==
    LET m == req[a].m
    IN /\ GivesUp(a, "direct")
       /\ IF signedIn THEN Enqueue(m)
          ELSE /\ write' = [write EXCEPT ![m] = "refused"]
               /\ UNCHANGED <<queue, byLocalId>>
       /\ UNCHANGED <<signedIn, ids, offline, copy, flush, discarding, server, history>>

\* stageOfflineMutation, after the write is in the queue: the row the user sees until then.
Stage(m) ==
    /\ write[m] = "staging"
    /\ write' = [write EXCEPT ![m] = "kept"]
    /\ LET c == RecordOf(m)
           newRow == m \in Creates /\ offline[m] = None
       IN /\ offline' = IF signedIn /\ (newRow \/ m \in byLocalId \cap Edits)
                        THEN [offline EXCEPT ![c] = m] ELSE offline
          /\ copy' = IF signedIn /\ m \in Edits \ byLocalId THEN [copy EXCEPT ![c] = m] ELSE copy
    /\ crossed' = crossed \cup ({m} \cap discarding.ms)
    /\ UNCHANGED <<signedIn, queue, byLocalId, ids, flush, discarding, req, server, gaps, overtaken,
                   direct, mishapsLeft>>

----------------------------------------------------------------------------
(* flush: replay the queue *)

\* As StartFlush would be without the flag that one is running.
NoRunningFlag ==
    /\ signedIn /\ flush.at # "synced" /\ queue # <<>>
    /\ flush' = [on |-> TRUE, todo |-> queue, at |-> "next"]
    /\ crossed' = crossed \cup discarding.ms
    /\ UNCHANGED <<signedIn, write, queue, byLocalId, ids, offline, copy, discarding, req, server,
                   gaps, overtaken, direct, mishapsLeft>>

\* Reconnection, the app coming to the front, or the 30 s timer.
StartFlush ==
    /\ signedIn /\ ~flush.on /\ queue # <<>>
    /\ flush' = [on |-> TRUE, todo |-> queue, at |-> "next"]
    /\ crossed' = crossed \cup discarding.ms
    /\ UNCHANGED <<signedIn, write, queue, byLocalId, ids, offline, copy, discarding, req, server,
                   gaps, overtaken, direct, mishapsLeft>>

ReplaySend ==
    /\ flush.on /\ flush.at = "next" /\ signedIn /\ flush.todo # <<>>
    /\ Resolved(Head(flush.todo))
    /\ Send(Head(flush.todo), "replay")
    /\ flush' = [flush EXCEPT !.at = "waiting"]
    /\ UNCHANGED <<signedIn, write, queue, byLocalId, ids, offline, copy, discarding, server,
                   history, mishapsLeft>>

\* Nothing left, nobody signed in, or "A related record must synchronize first."
FlushStops ==
    /\ flush.on /\ flush.at = "next"
    /\ signedIn /\ flush.todo # <<>> => ~Resolved(Head(flush.todo))
    /\ flush' = Idle
    /\ UNCHANGED <<signedIn, write, queue, byLocalId, ids, offline, copy, discarding, req, server,
                   history, mishapsLeft>>

\* As Reconcile would be if the edits still queued were not staged again.
EditsForgotten(m) ==
    LET c == RecordOf(m)
    IN /\ ids' = IF m \in Creates THEN [ids EXCEPT ![m] = receipt[m]] ELSE ids
       /\ copy' = [copy EXCEPT ![c] = Synced]
       /\ UNCHANGED offline
       /\ overtaken' = IF write[m] = "staging" THEN overtaken \cup {m} ELSE overtaken

\* reconcileOfflineMutation, then the replay handler stages again the edits still queued for
\* the same record: the last of them owns the row.
Reconcile(m) ==
    LET c == RecordOf(m)
        later == Without((Writes \ Edits) \cup {m} \cup {e \in Edits : Parent[e] # c})
    IN /\ ids' = IF m \in Creates THEN [ids EXCEPT ![m] = receipt[m]] ELSE ids
       /\ offline' = IF m \in Creates \cup byLocalId THEN [offline EXCEPT ![c] = None] ELSE offline
       /\ copy' = [copy EXCEPT ![c] = IF later = <<>> THEN Synced ELSE Last(later)]
       /\ overtaken' = IF write[m] = "staging" THEN overtaken \cup {m} ELSE overtaken

ReplayOk(a) ==
    /\ req[a].at = "ok" /\ req[a].by = "replay"
    /\ req' = [req EXCEPT ![a] = Free]
    /\ \/ /\ signedIn
          /\ Reconcile(req[a].m)
          /\ flush' = [flush EXCEPT !.at = "synced"]
       \/ /\ ~signedIn
          /\ flush' = Idle
          /\ UNCHANGED <<ids, offline, copy, overtaken>>
    /\ UNCHANGED <<signedIn, write, queue, byLocalId, discarding, server, gaps, crossed, direct,
                   mishapsLeft>>

RemoveSynced ==
    LET m == Head(flush.todo)
    IN /\ flush.on /\ flush.at = "synced"
       /\ queue' = Without({m})
       /\ write' = IF write[m] = "kept" THEN [write EXCEPT ![m] = "synced"] ELSE write
       /\ flush' = [flush EXCEPT !.todo = Tail(@), !.at = "next"]
       /\ UNCHANGED <<signedIn, byLocalId, ids, offline, copy, discarding, req, server, history,
                      mishapsLeft>>

\* As ReplayFails would be if the flush went on to the writes behind the failed one.
FlushGoesOn(a) ==
    /\ \/ /\ req[a].at = "error" /\ req[a].by = "replay"
          /\ req' = [req EXCEPT ![a] = Free] /\ UNCHANGED mishapsLeft
       \/ GivesUp(a, "replay")
    /\ flush' = [flush EXCEPT !.todo = Tail(@), !.at = "next"]
    /\ UNCHANGED <<signedIn, write, queue, byLocalId, ids, offline, copy, discarding, server, history>>

\* As ReplayFails would be if a write the server refuses were dropped from the queue.
DropsFailed(a) ==
    /\ req[a].at = "error" /\ req[a].by = "replay"
    /\ req' = [req EXCEPT ![a] = Free]
    /\ queue' = Without({req[a].m})
    /\ flush' = Idle
    /\ UNCHANGED <<signedIn, write, byLocalId, ids, offline, copy, discarding, server, history,
                   mishapsLeft>>

\* As ReplayFails would be if the flag running were not reset when an answer fails to come.
StaysRunning(a) ==
    /\ GivesUp(a, "replay")
    /\ UNCHANGED <<signedIn, write, queue, byLocalId, ids, offline, copy, flush, discarding, server,
                   history>>

\* An error answer or no answer: the write stays first and everything behind it waits.
ReplayFails(a) ==
    /\ \/ /\ req[a].at = "error" /\ req[a].by = "replay"
          /\ req' = [req EXCEPT ![a] = Free] /\ UNCHANGED mishapsLeft
       \/ GivesUp(a, "replay")
    /\ flush' = Idle
    /\ UNCHANGED <<signedIn, write, queue, byLocalId, ids, offline, copy, discarding, server, history>>

----------------------------------------------------------------------------
(* The user discards queued writes *)

\* discardItem up to its first await on the local records: the queue is read, and a write that
\* another queued write still names by its local id is refused.
AskDiscard(m) ==
    /\ signedIn /\ ~flush.on /\ discarding = Nothing /\ m \in Queued
    /\ ~\E x \in Queued \ {m} : x \in byLocalId /\ Parent[x] = m
    /\ discarding' = [ms |-> {m}, all |-> FALSE, rows |-> <<m>>]
    /\ UNCHANGED <<signedIn, write, queue, byLocalId, ids, offline, copy, flush, req, server,
                   history, mishapsLeft>>

\* clearAll reads the queue, removes the rows of the writes it found from the last to the first,
\* and then empties the queue, whatever has been added in between.
AskClear ==
    /\ signedIn /\ ~flush.on /\ discarding = Nothing /\ queue # <<>>
    /\ discarding' = [ms |-> Queued, all |-> TRUE, rows |-> Reverse(queue)]
    /\ UNCHANGED <<signedIn, write, queue, byLocalId, ids, offline, copy, flush, req, server,
                   history, mishapsLeft>>

\* discardOfflineMutation removes the row a write is shown in when the row is still its own; an
\* edit queued under a local id looks only under that id.  Signed out, it looks among nobody's.
DiscardRow ==
    LET m == Head(discarding.rows)
        c == RecordOf(m)
        underLocalId == m \in Creates \cup byLocalId
    IN /\ discarding.rows # <<>>
       /\ discarding' = [discarding EXCEPT !.rows = Tail(@)]
       /\ offline' = IF signedIn /\ underLocalId /\ offline[c] = m
                     THEN [offline EXCEPT ![c] = None] ELSE offline
       /\ copy' = IF signedIn /\ ~underLocalId /\ copy[c] = m
                  THEN [copy EXCEPT ![c] = None] ELSE copy
       /\ crossed' = IF signedIn THEN crossed ELSE crossed \cup {m}
       /\ UNCHANGED <<signedIn, write, queue, byLocalId, ids, flush, req, server, gaps, overtaken,
                      direct, mishapsLeft>>

\* The rows gone, the queue is changed: the queue of whoever is signed in now.
Discard ==
    LET ms == discarding.ms
        gone == IF ~signedIn THEN {} ELSE IF discarding.all THEN Queued ELSE ms \cap Queued
    IN /\ ms # {} /\ discarding.rows = <<>>
       /\ discarding' = Nothing
       /\ queue' = Without(gone)
       /\ write' = [m \in Writes |-> IF m \in gone \cap ms /\ write[m] = "kept" THEN "discarded" ELSE write[m]]
       /\ overtaken' = overtaken \cup {m \in gone : m \notin ms \/ write[m] = "staging"}
       /\ UNCHANGED <<signedIn, byLocalId, ids, offline, copy, flush, req, server, gaps, crossed,
                      direct, mishapsLeft>>

----------------------------------------------------------------------------
(* Sessions and the death of the app *)

SignOut ==
    /\ signedIn /\ Mishap /\ signedIn' = FALSE
    /\ UNCHANGED <<write, queue, byLocalId, ids, offline, copy, flush, discarding, req, server, history>>

SignIn ==
    /\ ~signedIn /\ signedIn' = TRUE
    /\ UNCHANGED <<write, queue, byLocalId, ids, offline, copy, flush, discarding, req, server,
                   history, mishapsLeft>>

\* The queue, the records and the id map are on disk; the rest is gone.
PhoneDies ==
    /\ Mishap
    /\ flush' = Idle /\ discarding' = Nothing
    /\ write' = [m \in Writes |-> CASE write[m] = "sending" -> "refused"
                                   [] write[m] = "staging" -> "kept"
                                   [] OTHER -> write[m]]
    /\ req' = [a \in Slots |-> Abandoned(a)]
    /\ UNCHANGED <<signedIn, queue, byLocalId, ids, offline, copy, server, history>>

----------------------------------------------------------------------------
(* The server: IdempotencyInterceptor *)

unchangedPhone == UNCHANGED <<phone, overtaken, crossed, direct>>

\* What a request becomes with its answer: one nobody waits for disappears.
Answered(a, outcome) ==
    IF req[a].by = "nobody" THEN Free ELSE [req[a] EXCEPT !.at = outcome]

\* As Arrive would be without the map of running work.
NoPending(a) ==
    LET m == req[a].m
    IN /\ req[a].at = "sent"
       /\ IF receipt[m] # 0
          THEN req' = [req EXCEPT ![a] = Answered(a, "ok")] /\ UNCHANGED pending
          ELSE /\ req' = [req EXCEPT ![a].at = "running"]
               /\ pending' = [pending EXCEPT ![m] = a]
       /\ UNCHANGED <<receipt, handled, gaps, mishapsLeft>> /\ unchangedPhone

\* A request whose key is being worked on waits behind that work; run answers one whose key has
\* a receipt.
Arrive(a) ==
    LET m == req[a].m
    IN /\ req[a].at = "sent"
       /\ IF pending[m] # None
          THEN req' = [req EXCEPT ![a].at = "behind"] /\ UNCHANGED pending
          ELSE IF receipt[m] # 0
          THEN req' = [req EXCEPT ![a] = Answered(a, "ok")] /\ UNCHANGED pending
          ELSE /\ req' = [req EXCEPT ![a].at = "running"]
               /\ pending' = [pending EXCEPT ![m] = a]
       /\ UNCHANGED <<receipt, handled, gaps, mishapsLeft>> /\ unchangedPhone

\* The work of a ends, and with it the wait of those behind it: they find the receipt of work
\* that succeeded and fail with work that failed.
Finish(a, outcome) ==
    LET done(b) == b = a \/ (req[b].at = "behind" /\ req[b].m = req[a].m)
    IN /\ req' = [b \in Slots |-> IF done(b) THEN Answered(b, outcome) ELSE req[b]]
       /\ pending' = [pending EXCEPT ![req[a].m] = None]

\* The handler commits, or throws: the record is refused, or the database was not reached.
Handle(a) ==
    LET m == req[a].m
    IN /\ req[a].at = "running"
       /\ \/ /\ m \notin Bad
             /\ handled' = [handled EXCEPT ![m] = @ + 1]
             /\ req' = [req EXCEPT ![a].at = "handled"]
             /\ UNCHANGED <<pending, mishapsLeft>>
          \/ /\ IF m \in Bad THEN UNCHANGED mishapsLeft ELSE Mishap
             /\ Finish(a, "error")
             /\ UNCHANGED handled
       /\ UNCHANGED <<receipt, gaps>> /\ unchangedPhone

\* The receipt is written after the handler's commit and on its own: when it cannot be, the
\* request fails although the write has been carried out.
Record(a) ==
    LET m == req[a].m
    IN /\ req[a].at = "handled"
       /\ \/ /\ receipt' = [receipt EXCEPT ![m] = handled[m]]
             /\ Finish(a, "ok")
             /\ UNCHANGED <<gaps, mishapsLeft>>
          \/ /\ Mishap
             /\ Finish(a, "error")
             /\ gaps' = [gaps EXCEPT ![m] = @ + 1]
             /\ UNCHANGED receipt
       /\ UNCHANGED handled /\ unchangedPhone

\* A request the phone has given up on is lost on its way.
Lose(a) ==
    /\ req[a].by = "nobody" /\ req[a].at = "sent"
    /\ req' = [req EXCEPT ![a] = Free]
    /\ UNCHANGED <<server, gaps, mishapsLeft>> /\ unchangedPhone

\* The handler of the write has committed and its receipt is still to be written.
AtReceipt(m) == \E a \in Slots : req[a].m = m /\ req[a].at = "handled"

ServerDies ==
    LET at(a) == req[a].at \in {"behind", "running", "handled"}
    IN /\ Mishap /\ \E a \in Slots : at(a)
       /\ req' = [a \in Slots |-> IF ~at(a) THEN req[a]
                                 ELSE IF req[a].by = "nobody" THEN Free
                                 ELSE [req[a] EXCEPT !.at = "dead"]]
       /\ pending' = [m \in Writes |-> None]
       /\ gaps' = [m \in Writes |-> gaps[m] + IF AtReceipt(m) THEN 1 ELSE 0]
       /\ UNCHANGED <<receipt, handled>> /\ unchangedPhone

----------------------------------------------------------------------------

UserSaves == \E m \in Writes : SaveOnline(m) \/ SaveOffline(m)
UserDiscards == AskClear \/ \E m \in Writes : AskDiscard(m)

PhoneWorks ==
    \/ \E a \in Slots : DirectOk(a) \/ DirectRefused(a) \/ ReplayOk(a) \/ ReplayFails(a) \/ DirectGivesUp(a)
    \/ \E m \in Writes : Stage(m)
    \/ StartFlush \/ ReplaySend \/ FlushStops \/ RemoveSynced \/ DiscardRow \/ Discard

ServerWorks ==
    \E a \in Slots : Arrive(a) \/ Handle(a) \/ Record(a) \/ Lose(a)

Next ==
    \/ UserSaves \/ UserDiscards \/ PhoneWorks
    \/ SignOut \/ SignIn \/ PhoneDies
    \/ ServerWorks \/ ServerDies

Spec == Init /\ [][Next]_vars

\* The phone's timers and promises and the server's both go on while there is work.
FairSpec == Spec /\ WF_vars(PhoneWorks) /\ WF_vars(ServerWorks)

----------------------------------------------------------------------------
(* Properties *)

Stages == {"unneeded", "unsaved", "sending", "staging", "kept", "saved", "synced", "refused", "discarded"}

\* Types; a write is queued once (enqueue's test for its id); one replay is under way, and only
\* while a flush waits for it (the flag running).
TypeOK ==
    /\ signedIn \in BOOLEAN /\ mishapsLeft \in Nat
    /\ write \in [Writes -> Stages]
    /\ queue \in Seq(Writes) /\ IsInjective(queue)
    /\ byLocalId \subseteq Writes
    /\ ids \in [Creates -> Nat]
    /\ offline \in [Creates -> Writes \cup {None}]
    /\ copy \in [Creates -> Writes \cup {None, Synced}]
    /\ flush \in [on : BOOLEAN, todo : Seq(Writes), at : {"next", "waiting", "synced"}]
    /\ Cardinality({a \in Slots : req[a].by = "replay"}) = IF flush.at = "waiting" THEN 1 ELSE 0
    /\ discarding \in [ms : SUBSET Writes, all : BOOLEAN, rows : Seq(Writes)]
    /\ req \in [Slots -> [m : Writes \cup {None},
                         at : {"free", "sent", "behind", "running", "handled", "ok", "error",
                               "dead"},
                         by : {"direct", "replay", "nobody"}]]
    /\ pending \in [Writes -> Slots \cup {None}]
    /\ receipt \in [Writes -> Nat] /\ handled \in [Writes -> Nat]
    /\ gaps \in [Writes -> Nat]
    /\ overtaken \subseteq Writes /\ crossed \subseteq Writes /\ direct \subseteq Writes

\* A write the phone said it keeps is still in its queue, and one it said has been saved or
\* synchronized has been handled by the server, whatever connection, app or server was lost in
\* between; but for one that clearAll empties while it is being saved.
NothingLost ==
    \A m \in Writes :
        /\ write[m] \in {"staging", "kept"} => m \in Queued \cup overtaken
        /\ write[m] \in {"saved", "synced"} => handled[m] > 0

\* However often a write is sent, and whatever answers are lost, the server carries it out once,
\* and once more only for each time that its receipt could not be written after it (the process
\* died or the database failed in between).
AppearsOnce == \A m \in Writes : handled[m] <= 1 + gaps[m]

\* A row shown as pending is the row of a write that is still to be sent, so that it is replaced
\* when the write arrives; but for the writes overtaken, those whose discarding crossed a flush,
\* their own saving or a sign-out, and an edit made under a local id that is discarded after its
\* record has arrived (discardOfflineMutation looks under the local id).
PendingRowsAreQueued ==
    \A c \in Creates :
        /\ offline[c] # None => offline[c] \in Queued \cup overtaken \cup crossed
        /\ copy[c] \in Writes =>
              \/ copy[c] \in Queued \cup overtaken \cup crossed
              \/ copy[c] \in byLocalId /\ write[copy[c]] = "discarded"

\* A replayed write reaches the server after the writes queued before it ("Preserve every
\* ordered write"): nothing the phone still holds in front of it has yet to be carried out.
ReplaysInOrder ==
    [][\A m \in Queued \ direct :
          handled'[m] > handled[m] =>
              \A i, j \in DOMAIN queue : i < j /\ queue[j] = m => handled[queue[i]] > 0]_vars

\* The first write of the queue can be sent and the server accepts it.
Deliverable == Resolved(Head(queue)) /\ Head(queue) \notin Bad

\* Once connections hold and the user stays, the queue empties, unless the write in front is
\* refused by the server or names a record that has been discarded.
QueueDrains == queue # <<>> ~>
    queue = <<>> \/ ~signedIn \/ ~Deliverable
====
