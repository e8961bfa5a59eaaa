------------------------------- MODULE Ledger -------------------------------
(* The general ledger of one cooperative (accounting.service.ts, period-lock.service.ts and the
   triggers of the ledger_integrity migration): postings of business records, manual journals
   and their reversals, and the closing and reopening of periods, as concurrent READ COMMITTED
   transactions.  A transaction t goes through the program counter pc[t]; what it has written
   is seen by others when it commits.  Locks are held to the end of a transaction, so who holds
   one follows from pc.

   Rows are never edited or deleted (migration.sql:154-164), so a source's rows are seen
   through what postToLedger reads of them: journals has one record for each journal_id, with
   the accounts of its lines, and booked[s] is the sum of the lines of all rows of s.  A manual journal or a reversal is its
   own source, named by its journal_id (randomUUID).  Days are small integers. *)
EXTENDS Integers, FiniteSets

CONSTANTS
  Txs,          \* transactions in progress at one time
  Admins,       \* closings and reopenings in progress at one time
  Sources,      \* business records that are posted
  Uuids,        \* journal ids that manual journals and reversals draw
  NoUuid,       \* reversesJournalId = null
  Accounts,     \* ledger accounts (with the money account, for cash)
  Postings,     \* the lines a posting may carry: account -> debit minus credit
  Today,        \* the day it is; days are 1..Today
  MonthEnds,    \* days that are the last of their month
  DaysPerYear,  \* entry numbers start again every so many days
  MaxJournals   \* bound: journals, with those in progress

Days == 1..Today
Years == {(d - 1) \div DaysPerYear: d \in Days}
NoLines == [a \in Accounts |-> 0]

ASSUME NamesAssumption == /\ NoUuid \notin Sources \union Uuids
                          /\ Sources \intersect Uuids = {} /\ Uuids \subseteq Nat
ASSUME LinesAssumption == Postings \subseteq [Accounts -> Int] /\ NoLines \in Postings
ASSUME DaysAssumption == Today \in Nat \ {0} /\ DaysPerYear \in Nat \ {0}
                         /\ MonthEnds \subseteq Days /\ MaxJournals \in Nat

VARIABLES
  journals,       \* committed journals
  booked,         \* source or journal id -> what its committed rows add up to
  lastValue,      \* ledger_counters: year -> last_value
  closedThrough,  \* accounting_locks: the last closed day; 0 when there is no row
  pc,             \* transaction -> how far it is
  job,            \* transaction -> what it is booking
  closing         \* administrator -> the close or reopen it has checked

ledgerVars == <<journals, booked, lastValue>>
lockVars == <<closedThrough, closing>>
vars == <<ledgerVars, lockVars, pc, job>>

-----------------------------------------------------------------------------
Ids == Sources \union Uuids
Kind == {"POSTING", "MANUAL_JOURNAL", "REVERSAL"}
PC == {"idle", "locking", "dating", "numbering", "inserting", "inserted"}
LedgerEntry == [kind: Kind, source: Ids, revision: Nat, day: Days, number: Nat,
                reverses: Uuids \union {NoUuid}, accounts: SUBSET Accounts]
Job == [kind: Kind, source: Ids \union {NoUuid}, revision: Nat, day: Days, number: Nat,
        reverses: Uuids \union {NoUuid},
        desired: [Accounts -> Int], delta: [Accounts -> Int]]
NoJob == [kind |-> "POSTING", source |-> NoUuid, revision |-> 0, day |-> 1, number |-> 0,
          reverses |-> NoUuid, desired |-> NoLines, delta |-> NoLines]
LockDays == {0} \union (MonthEnds \ {Today})
LockChange == [action: {"NONE", "CLOSE", "REOPEN"}, to: LockDays]
NoChange == [action |-> "NONE", to |-> 0]

year(d) == (d - 1) \div DaysPerYear
JournalsOf(s) == {j \in journals: j.source = s}
RevisionsOf(s) == {j.revision: j \in JournalsOf(s)}
NumbersOf(y) == {j.number: j \in {k \in journals: year(k.day) = y}}
Reversals(u) == {j \in journals: j.reverses = u}
minus(x, y) == [a \in Accounts |-> x[a] - y[a]]
plus(x, y) == [a \in Accounts |-> x[a] + y[a]]

\* Past its first read; a posting then holds the advisory lock of its source.
Booking(t) == pc[t] \in {"dating", "numbering", "inserting", "inserted"}
\* Between its upsert of ledger_counters and its end.
Counting(t) == pc[t] \in {"inserting", "inserted"}

\* Mutant: no advisory lock.
NoSourceLock(t) == TRUE
SourceLockFree(t) == \A u \in Txs \ {t}: Booking(u) => job[u].source # job[t].source
\* Mutant: the number is read and written in two statements, without holding the row.
NoCounterLock(t) == TRUE
\* Mutant: a shared lock of the counter is taken first and upgraded when the number is taken.
SharedCounter(t) ==
  \A u \in Txs \ {t}: pc[u] = "numbering" \/ Counting(u) => year(job[u].day) # year(job[t].day)
CounterFree(t) == \A u \in Txs \ {t}: Counting(u) => year(job[u].day) # year(job[t].day)
Unused(u) == JournalsOf(u) = {} /\ \A t \in Txs: pc[t] # "idle" => job[t].source # u
\* randomUUID: ids nobody has are alike, so the least one is drawn.
Fresh(u) == Unused(u) /\ \A v \in Uuids: v < u => ~Unused(v)
Room == Cardinality(journals) + Cardinality({t \in Txs: pc[t] # "idle"}) < MaxJournals

Init ==
  /\ journals = {}
  /\ booked = [s \in Ids |-> NoLines]
  /\ lastValue = [y \in Years |-> 0]
  /\ closedThrough = 0
  /\ pc = [t \in Txs |-> "idle"]
  /\ job = [t \in Txs |-> NoJob]
  /\ closing = [a \in Admins |-> NoChange]

-----------------------------------------------------------------------------
(* Transactions. *)

Goto(t, step, j) == pc' = [pc EXCEPT ![t] = step] /\ job' = [job EXCEPT ![t] = j]

\* The end of a transaction without effect: it had nothing to book, or it was rolled back.
Leave(t) == Goto(t, "idle", NoJob) /\ UNCHANGED <<ledgerVars, lockVars>>

Begin(t, step, j) ==
  /\ pc[t] = "idle" /\ Room
  /\ Goto(t, step, j)
  /\ UNCHANGED <<ledgerVars, lockVars>>

\* postToLedger is called with balanced lines, or none to cancel the source.
PostToLedger(t, s, lines, d) ==
  Begin(t, "locking", [NoJob EXCEPT !.source = s, !.desired = lines, !.day = d])

lastRevision(s) ==
  LET revisions == {0} \union RevisionsOf(s)
  IN CHOOSE r \in revisions: \A q \in revisions: q <= r

\* Mutant: a journal is made even when nothing changed.
ReadSourceAlways(t) ==
  LET s == job[t].source
  IN /\ pc[t] = "locking" /\ SourceLockFree(t)
     /\ Goto(t, "dating", [job[t] EXCEPT !.delta = minus(job[t].desired, booked[s]),
                                         !.revision = lastRevision(s) + 1])
     /\ UNCHANGED <<ledgerVars, lockVars>>

\* Under the advisory lock of the source, its rows are read and only the difference is kept.
ReadSource(t) ==
  LET s == job[t].source
      delta == minus(job[t].desired, booked[s])
  IN /\ pc[t] = "locking" /\ SourceLockFree(t)
     /\ IF delta = NoLines
        THEN Leave(t)
        ELSE /\ Goto(t, "dating", [job[t] EXCEPT !.delta = delta, !.revision = lastRevision(s) + 1])
             /\ UNCHANGED <<ledgerVars, lockVars>>

\* createJournalEntry: two lines or more that are not all zero, under a new journal id.
CreateJournalEntry(t, u, lines, d) ==
  /\ Fresh(u) /\ lines # NoLines
  /\ Begin(t, "dating", [NoJob EXCEPT !.kind = "MANUAL_JOURNAL", !.source = u, !.day = d,
                                      !.revision = 1, !.desired = lines, !.delta = lines])

\* reverseJournal reads the journal and looks for a reversal of it before its transaction.
ReverseJournal(t, j, u, d) ==
  /\ Fresh(u)
  /\ j.kind = "MANUAL_JOURNAL" /\ Reversals(j.source) = {}
  /\ LET mirror == minus(NoLines, booked[j.source])
     IN Begin(t, "dating", [NoJob EXCEPT !.kind = "REVERSAL", !.source = u, !.day = d,
                                         !.reverses = j.source, !.revision = 1,
                                         !.desired = mirror, !.delta = mirror])

\* The day of the journal: a posting in a closed period moves to the first open day ...
BookingDay(t) ==
  IF job[t].kind = "POSTING" /\ job[t].day <= closedThrough
  THEN closedThrough + 1
  ELSE job[t].day

\* ... and a manual journal or a reversal in one is refused.
DateJournal(t) ==
  /\ pc[t] = "dating"
  /\ IF BookingDay(t) <= closedThrough
     THEN Leave(t)
     ELSE /\ Goto(t, "numbering", [job[t] EXCEPT !.day = BookingDay(t)])
          /\ UNCHANGED <<ledgerVars, lockVars>>

\* The upsert of ledger_counters waits for the row and takes the next number of the year.
NextNumber(t) ==
  /\ pc[t] = "numbering" /\ CounterFree(t)
  /\ Goto(t, "inserting", [job[t] EXCEPT !.number = lastValue[year(job[t].day)] + 1])
  /\ UNCHANGED <<ledgerVars, lockVars>>

accountsOf(lines) == {a \in Accounts: lines[a] # 0}
\* The unique indexes: one row of an account for a revision of a source, and one for what a
\* reversal reverses.
SameRevision(j, k, accounts) ==
  j.source = k.source /\ j.revision = k.revision /\ accounts \intersect accountsOf(k.delta) # {}
SameReversal(j, k) == k.kind = "REVERSAL" /\ j.reverses = k.reverses
\* An insert waits for a row of another transaction that would collide with its own ...
IndexFree(t) ==
  \A u \in Txs \ {t}: pc[u] = "inserted" =>
    /\ ~SameRevision(job[u], job[t], accountsOf(job[u].delta))
    /\ ~SameReversal(job[u], job[t])
\* Mutant: the second index is missing.
IndexRefusesRevision(t) == \E j \in journals: SameRevision(j, job[t], j.accounts)
\* ... and is refused when that one is there.
IndexRefuses(t) == \E j \in journals: SameRevision(j, job[t], j.accounts) \/ SameReversal(j, job[t])

\* The rows go in, unless ledger_period_guard or the unique index refuses them.
InsertRows(t) ==
  /\ pc[t] = "inserting" /\ IndexFree(t)
  /\ IF job[t].day <= closedThrough \/ IndexRefuses(t)
     THEN Leave(t)
     ELSE /\ Goto(t, "inserted", job[t])
          /\ UNCHANGED <<ledgerVars, lockVars>>

\* The rows and the counter become visible together.
Commit(t) ==
  LET k == job[t]
  IN /\ pc[t] = "inserted"
     /\ journals' = journals \union
          {[kind |-> k.kind, source |-> k.source, revision |-> k.revision, day |-> k.day,
            number |-> k.number, reverses |-> k.reverses, accounts |-> accountsOf(k.delta)]}
     /\ booked' = [booked EXCEPT ![k.source] = plus(@, k.delta)]
     /\ lastValue' = [lastValue EXCEPT ![year(k.day)] = k.number]
     /\ Goto(t, "idle", NoJob)
     /\ UNCHANGED lockVars

\* A timeout, a lost connection, or the caller's own transaction failing after the posting.
RollBack(t) == pc[t] # "idle" /\ Leave(t)

-----------------------------------------------------------------------------
(* Closing and reopening: the lock row is read and checked, then written with its event. *)

Decide(a, action, to) ==
  /\ closing[a] = NoChange
  /\ closing' = [closing EXCEPT ![a] = [action |-> action, to |-> to]]
  /\ UNCHANGED <<ledgerVars, closedThrough, pc, job>>

\* Mutant: the current month may be closed.
CloseReadAnyMonth(a, through) == through > closedThrough /\ Decide(a, "CLOSE", through)

CloseRead(a, through) ==
  /\ through < Today /\ through > closedThrough
  /\ Decide(a, "CLOSE", through)

ReopenRead(a, to) ==
  /\ to < closedThrough
  /\ Decide(a, "REOPEN", to)

\* The upsert of a close finds a row or makes one; a reopening needs the row it read.
ChangeLock(a) ==
  /\ closing[a] # NoChange
  /\ closing[a].action = "REOPEN" => closedThrough # 0
  /\ closedThrough' = closing[a].to
  /\ closing' = [closing EXCEPT ![a] = NoChange]
  /\ UNCHANGED <<ledgerVars, pc, job>>

\* Update or delete of a missing row throws, and a transaction may fail.
ChangeFails(a) ==
  /\ closing[a] # NoChange
  /\ closing' = [closing EXCEPT ![a] = NoChange]
  /\ UNCHANGED <<ledgerVars, closedThrough, pc, job>>

-----------------------------------------------------------------------------
Request(t) ==
  \/ \E s \in Sources, lines \in Postings, d \in Days: PostToLedger(t, s, lines, d)
  \/ \E u \in Uuids, lines \in Postings, d \in Days: CreateJournalEntry(t, u, lines, d)
  \/ \E j \in journals, u \in Uuids, d \in Days: ReverseJournal(t, j, u, d)

Advance(t) == ReadSource(t) \/ DateJournal(t) \/ NextNumber(t) \/ InsertRows(t) \/ Commit(t)

Administer(a) ==
  \/ \E through \in MonthEnds: CloseRead(a, through)
  \/ \E to \in {0} \union MonthEnds: ReopenRead(a, to)
  \/ ChangeLock(a)
  \/ ChangeFails(a)

Next ==
  \/ \E t \in Txs: Request(t) \/ Advance(t) \/ RollBack(t)
  \/ \E a \in Admins: Administer(a)

Spec == Init /\ [][Next]_vars

\* PostgreSQL serves the waiters of a lock in turn, so a transaction that can go on again and
\* again does go on.
FairSpec == Spec /\ \A t \in Txs: SF_vars(Advance(t))

-----------------------------------------------------------------------------
(* Properties. *)

\* Every variable has the shape of the rows it stands for.
TypeOK ==
  /\ journals \subseteq LedgerEntry
  /\ booked \in [Ids -> [Accounts -> Int]]
  /\ lastValue \in [Years -> Nat]
  /\ closedThrough \in LockDays
  /\ pc \in [Txs -> PC]
  /\ job \in [Txs -> Job]
  /\ closing \in [Admins -> LockChange]

\* Entry numbers have no gap and no duplicate: the journals of a year carry 1, 2, ... up to
\* last_value, each once, although requests number concurrently and roll back (nextNumber).
NumbersGapFree ==
  /\ \A y \in Years: NumbersOf(y) = 1..lastValue[y]
  /\ \A j, k \in journals: year(j.day) = year(k.day) /\ j.number = k.number => j = k

\* The journals of one source are revisions 1, 2, ... of it, each booked once: two requests
\* never book the same revision (the advisory lock of postToLedger).
RevisionsInOrder ==
  \A s \in Ids:
    /\ RevisionsOf(s) = 1..lastRevision(s)
    /\ \A j, k \in JournalsOf(s): j.revision = k.revision => j = k

\* A manual journal is reversed at most once, although reverseJournal looks for an earlier
\* reversal before its transaction, and what was reversed and its reversal cancel.
ReversedAtMostOnce ==
  \A u \in Uuids:
    /\ \A j, k \in Reversals(u): j = k
    /\ \A j \in Reversals(u): plus(booked[u], booked[j.source]) = NoLines

\* postToLedger books the difference from what the ledger holds, and so implements Books:
\* whatever is posted again, concurrently or after a failure, the books hold for every source
\* the lines of one posting of it.
BooksHoldOnePosting == INSTANCE Books WITH booked <- [s \in Sources |-> booked[s]]
ImplementsBooks == BooksHoldOnePosting!Spec

\* Posting what is already there books nothing: a new journal changes what the books hold.
EveryJournalCounts ==
  [][\A j \in journals' \ journals: booked'[j.source] # booked[j.source]]_vars

\* Every posting comes to an end: two of them never wait for each other's locks for ever.
PostingsEnd == \A t \in Txs: pc[t] # "idle" ~> pc[t] = "idle"

\* "Once a period is closed nothing can be posted on or before its last day"
\* (period-lock.service.ts:9).
NothingPostedInClosedPeriod == [][\A j \in journals' \ journals: j.day > closedThrough]_vars

\* "Closing moves forward month by month; reopening needs a reason and is recorded forever"
\* (period-lock.service.ts:9-10): the lock goes back only by a reopening.
ClosingMovesForward ==
  [][closedThrough' < closedThrough =>
       \E a \in Admins: closing[a].action = "REOPEN" /\ closing'[a] = NoChange]_vars
=============================================================================
