---------------------------- MODULE LedgerProofs ----------------------------
(* Theorems of Ledger, for every set of transactions, administrators, records, accounts and
   postings, every calendar and every bound. *)
EXTENDS Ledger, TLAPS

-----------------------------------------------------------------------------
(* The inductive invariant. *)

\* What a request in progress was sent for.
RequestsNamed ==
  \A t \in Txs: pc[t] # "idle" =>
    /\ job[t].source \in Ids
    /\ job[t].kind = "POSTING" <=> job[t].source \in Sources
    /\ pc[t] = "locking" => job[t].kind = "POSTING"
    /\ job[t].kind = "POSTING" => job[t].desired \in Postings
    /\ IF job[t].kind = "REVERSAL" THEN job[t].reverses \in Uuids ELSE job[t].reverses = NoUuid

\* Nobody else books the source a transaction has read.
SourcesExclusive ==
  \A t, u \in Txs: t # u /\ Booking(t) /\ Booking(u) => job[t].source # job[u].source

\* What a transaction has read of its source is still so: the difference, the next revision,
\* that the id of a new journal is new, and what the journal it reverses holds.
ReadsStillHold ==
  \A t \in Txs: Booking(t) =>
    /\ job[t].delta = minus(job[t].desired, booked[job[t].source])
    /\ job[t].delta # NoLines
    /\ job[t].revision >= 1
    /\ RevisionsOf(job[t].source) = 1..(job[t].revision - 1)
    /\ job[t].kind # "POSTING" => JournalsOf(job[t].source) = {}
    /\ job[t].kind = "REVERSAL" =>
         /\ JournalsOf(job[t].reverses) # {}
         /\ job[t].desired = minus(NoLines, booked[job[t].reverses])

\* One transaction numbers in a year at a time, and it has the number after the last.
NumberIsNext ==
  /\ \A t, u \in Txs: t # u /\ Counting(t) /\ Counting(u) => year(job[t].day) # year(job[u].day)
  /\ \A t \in Txs: Counting(t) => job[t].number = lastValue[year(job[t].day)] + 1

\* The revisions of a source are 1 up to some number, each on one journal.
RevisionsContiguous ==
  \A s \in Ids:
    /\ \E n \in Nat: RevisionsOf(s) = 1..n
    /\ \A j, k \in JournalsOf(s): j.revision = k.revision => j = k

\* A source without journals has nothing booked; manual journals and reversals are their own
\* source, what is reversed is on the books, and a manual journal books something.
RowsAddUp ==
  /\ \A s \in Ids: JournalsOf(s) = {} => booked[s] = NoLines
  /\ \A j \in journals: j.reverses # NoUuid \/ j.kind = "MANUAL_JOURNAL" => j.source \in Uuids
  /\ \A j \in journals: j.reverses # NoUuid => JournalsOf(j.reverses) # {}
  /\ \A j \in journals: j.kind = "MANUAL_JOURNAL" => booked[j.source] # NoLines

\* A reversal whose rows are in is the only one of its journal.
ReversalsExclusive ==
  /\ \A t \in Txs: pc[t] = "inserted" /\ job[t].kind = "REVERSAL" => Reversals(job[t].reverses) = {}
  /\ \A t, u \in Txs:
       t # u /\ pc[t] = "inserted" /\ pc[u] = "inserted" /\ job[t].kind = "REVERSAL"
         => job[t].reverses # job[u].reverses

JobInv == RequestsNamed /\ SourcesExclusive /\ ReadsStillHold /\ NumberIsNext /\ ReversalsExclusive
RowInv == NumbersGapFree /\ RevisionsContiguous /\ RowsAddUp /\ ReversedAtMostOnce
IInv == TypeOK /\ JobInv /\ RowInv

-----------------------------------------------------------------------------
(* Lines and days. *)

\* Lines minus lines, and plus lines, are lines.
LEMMA LinesTyped ==
  /\ NoLines \in [Accounts -> Int]
  /\ \A x, y \in [Accounts -> Int]: minus(x, y) \in [Accounts -> Int] /\ plus(x, y) \in [Accounts -> Int]
BY DEF NoLines, minus, plus

\* Adding the difference from what is booked to what is booked gives what was wanted.
LEMMA DifferenceBooked ==
  ASSUME NEW x \in [Accounts -> Int], NEW y \in [Accounts -> Int]
  PROVE  plus(y, minus(x, y)) = x
BY DEF minus, plus

\* The difference from nothing is the whole, and no lines less something cancels it.
LEMMA LinesOfNew ==
  ASSUME NEW x \in [Accounts -> Int]
  PROVE  minus(x, NoLines) = x /\ plus(x, minus(NoLines, x)) = NoLines
BY DEF minus, plus, NoLines

\* No difference means the same lines.
LEMMA SameLines ==
  ASSUME NEW x \in [Accounts -> Int], NEW y \in [Accounts -> Int], minus(x, y) = NoLines
  PROVE  x = y
<1>1. \A a \in Accounts: minus(x, y)[a] = x[a] - y[a] /\ NoLines[a] = 0
  BY DEF minus, NoLines
<1>2. \A a \in Accounts: x[a] = y[a]
  BY <1>1
<1> QED BY <1>2

\* Every day has a year.
LEMMA YearTyped == \A d \in Days: year(d) \in Years
BY DEF year, Years

\* A job at rest is a job.
LEMMA NoJobTyped == NoJob \in Job
BY LinesTyped, DaysAssumption DEF NoJob, Job, Kind, Days

\* Writing what was read, or a number, leaves a job.
LEMMA JobWritten ==
  ASSUME NEW k \in Job, NEW r \in Nat, NEW x \in [Accounts -> Int]
  PROVE  [k EXCEPT !.delta = x, !.revision = r] \in Job /\ [k EXCEPT !.number = r] \in Job
BY DEF Job

\* The first open day is a day, as the current month cannot be closed.
LEMMA BookingDayTyped ==
  ASSUME TypeOK, NEW t \in Txs
  PROVE  BookingDay(t) \in Days
BY DaysAssumption DEF TypeOK, BookingDay, Days, LockDays, Job

\* The highest of the revisions 1 to n is n.
LEMMA LastRevisionIs ==
  ASSUME NEW s, NEW n \in Nat, RevisionsOf(s) = 1..n
  PROVE  lastRevision(s) = n
<1> DEFINE R == {0} \union RevisionsOf(s)
<1>1. n \in R /\ \A q \in R: q \in Int /\ q <= n
  OBVIOUS
<1>2. lastRevision(s) = CHOOSE r \in R: \A q \in R: q <= r
  BY DEF lastRevision
<1> HIDE DEF R
<1>3. lastRevision(s) \in R /\ \A q \in R: q <= lastRevision(s)
  BY <1>1, <1>2
<1>4. lastRevision(s) \in Int /\ lastRevision(s) <= n
  BY <1>1, <1>3
<1>5. n <= lastRevision(s)
  BY <1>1, <1>3
<1> QED BY <1>4, <1>5

-----------------------------------------------------------------------------
(* Types. *)

\* The steps that move one transaction keep the types of pc and job.
LEMMA GotoTyped ==
  ASSUME TypeOK, NEW t \in Txs, NEW step \in PC, NEW j \in Job, Goto(t, step, j)
  PROVE  pc' \in [Txs -> PC] /\ job' \in [Txs -> Job]
BY DEF TypeOK, Goto

\* A transaction that ends without effect keeps the types.
LEMMA LeaveTyped ==
  ASSUME TypeOK, NEW t \in Txs, Leave(t)
  PROVE  TypeOK'
<1>1. "idle" \in PC
  BY DEF PC
<1>2. pc' \in [Txs -> PC] /\ job' \in [Txs -> Job]
  BY <1>1, NoJobTyped, GotoTyped DEF Leave
<1> QED BY <1>2 DEF TypeOK, Leave, ledgerVars, lockVars

\* A transaction that moves on to a step with a job keeps the types.
LEMMA MoveTyped ==
  ASSUME TypeOK, NEW t \in Txs, NEW step \in PC, NEW j \in Job, Goto(t, step, j),
         UNCHANGED <<ledgerVars, lockVars>>
  PROVE  TypeOK'
BY GotoTyped DEF TypeOK, ledgerVars, lockVars

\* A committed transaction leaves well-typed rows.
LEMMA CommitTyped ==
  ASSUME TypeOK, NEW t \in Txs, Commit(t), job[t].source \in Ids
  PROVE  TypeOK'
<1>1. job[t] \in Job
  BY DEF TypeOK
<1>2. journals' \subseteq LedgerEntry
  BY <1>1 DEF TypeOK, Commit, LedgerEntry, Job, accountsOf
<1>3. plus(booked[job[t].source], job[t].delta) \in [Accounts -> Int]
  BY <1>1, LinesTyped DEF TypeOK, Job
<1>4. booked' \in [Ids -> [Accounts -> Int]]
  BY <1>3 DEF TypeOK, Commit
<1>5. lastValue' \in [Years -> Nat]
  BY <1>1, YearTyped DEF TypeOK, Commit, Job
<1>6. "idle" \in PC
  BY DEF PC
<1>7. pc' \in [Txs -> PC] /\ job' \in [Txs -> Job]
  BY <1>6, NoJobTyped, GotoTyped DEF Commit
<1> QED BY <1>2, <1>4, <1>5, <1>7 DEF TypeOK, Commit, lockVars

\* Closing and reopening keep the types.
LEMMA AdministerTyped ==
  ASSUME TypeOK, NEW a \in Admins, Administer(a)
  PROVE  TypeOK'
<1>1. NoChange \in LockChange
  BY DEF NoChange, LockChange, LockDays
<1>2. ASSUME NEW through \in MonthEnds, CloseRead(a, through) PROVE TypeOK'
  <2>1. [action |-> "CLOSE", to |-> through] \in LockChange
    BY <1>2, DaysAssumption DEF CloseRead, LockChange, LockDays
  <2> QED BY <2>1, <1>2 DEF TypeOK, CloseRead, Decide, ledgerVars
<1>3. ASSUME NEW to \in {0} \union MonthEnds, ReopenRead(a, to) PROVE TypeOK'
  <2>1. [action |-> "REOPEN", to |-> to] \in LockChange
    BY <1>3, DaysAssumption DEF TypeOK, ReopenRead, LockChange, LockDays, Days
  <2> QED BY <2>1, <1>3 DEF TypeOK, ReopenRead, Decide, ledgerVars
<1>4. CASE ChangeLock(a)
  BY <1>1, <1>4 DEF TypeOK, ChangeLock, LockChange, ledgerVars
<1>5. CASE ChangeFails(a)
  BY <1>1, <1>5 DEF TypeOK, ChangeFails, ledgerVars
<1> QED BY <1>2, <1>3, <1>4, <1>5 DEF Administer

-----------------------------------------------------------------------------
(* What a step of one transaction leaves of the invariant. *)

\* A step of one transaction leaves the others where they are.
LEMMA GotoFacts ==
  ASSUME TypeOK, NEW t \in Txs, NEW step, NEW j, Goto(t, step, j)
  PROVE  /\ pc'[t] = step /\ job'[t] = j
         /\ \A u \in Txs \ {t}: pc'[u] = pc[u] /\ job'[u] = job[u]
BY DEF TypeOK, Goto

\* Rows that are not written keep their properties.
LEMMA RowsUntouched ==
  ASSUME RowInv, UNCHANGED ledgerVars
  PROVE  RowInv'
BY DEF RowInv, ledgerVars, NumbersGapFree, RevisionsContiguous, RowsAddUp, ReversedAtMostOnce,
       NumbersOf, RevisionsOf, JournalsOf, Reversals

BookingSteps == {"dating", "numbering", "inserting", "inserted"}
CountingSteps == {"inserting", "inserted"}

\* What has to hold of the step and the job a transaction goes on with.
Named(step, j) ==
  /\ j.source \in Ids
  /\ j.kind = "POSTING" <=> j.source \in Sources
  /\ step = "locking" => j.kind = "POSTING"
  /\ j.kind = "POSTING" => j.desired \in Postings
  /\ IF j.kind = "REVERSAL" THEN j.reverses \in Uuids ELSE j.reverses = NoUuid
Alone(t, j) == \A u \in Txs \ {t}: Booking(u) => job[u].source # j.source
Reads(j) ==
  /\ j.delta = minus(j.desired, booked[j.source])
  /\ j.delta # NoLines
  /\ j.revision >= 1
  /\ RevisionsOf(j.source) = 1..(j.revision - 1)
  /\ j.kind # "POSTING" => JournalsOf(j.source) = {}
  /\ j.kind = "REVERSAL" =>
       /\ JournalsOf(j.reverses) # {}
       /\ j.desired = minus(NoLines, booked[j.reverses])
Numbered(t, j) ==
  /\ \A u \in Txs \ {t}: Counting(u) => year(job[u].day) # year(j.day)
  /\ j.number = lastValue[year(j.day)] + 1
OnlyReversal(t, j) ==
  /\ j.kind = "REVERSAL" => Reversals(j.reverses) = {}
  /\ \A u \in Txs \ {t}:
       pc[u] = "inserted" /\ (j.kind = "REVERSAL" \/ job[u].kind = "REVERSAL")
         => job[u].reverses # j.reverses

\* A transaction that moves on without writing a row keeps JobInv when its own job is in order.
LEMMA MoveKeepsJobs ==
  ASSUME TypeOK, JobInv, UNCHANGED ledgerVars,
         NEW t \in Txs, NEW step, NEW j, Goto(t, step, j),
         step # "idle" => Named(step, j),
         step \in BookingSteps => Alone(t, j) /\ Reads(j),
         step \in CountingSteps => Numbered(t, j),
         step = "inserted" => OnlyReversal(t, j)
  PROVE  JobInv'
<1>1. /\ pc'[t] = step /\ job'[t] = j
      /\ \A u \in Txs \ {t}: pc'[u] = pc[u] /\ job'[u] = job[u]
  BY GotoFacts
<1>2. /\ \A u \in Txs \ {t}: (Booking(u))' = Booking(u) /\ (Counting(u))' = Counting(u)
      /\ (Booking(t))' = (step \in BookingSteps) /\ (Counting(t))' = (step \in CountingSteps)
  BY <1>1 DEF Booking, Counting, BookingSteps, CountingSteps
<1>3. /\ \A s: (JournalsOf(s))' = JournalsOf(s) /\ (RevisionsOf(s))' = RevisionsOf(s)
      /\ \A s: (Reversals(s))' = Reversals(s)
      /\ booked' = booked /\ lastValue' = lastValue
  BY DEF ledgerVars, JournalsOf, RevisionsOf, Reversals
<1>4. RequestsNamed'
  BY <1>1 DEF RequestsNamed, JobInv, Named
<1>5. SourcesExclusive'
  <2> SUFFICES ASSUME NEW u \in Txs, NEW v \in Txs, u # v, (Booking(u))', (Booking(v))'
               PROVE  job'[u].source # job'[v].source
    BY DEF SourcesExclusive
  <2>1. CASE u # t /\ v # t
    BY <2>1, <1>1, <1>2 DEF JobInv, SourcesExclusive
  <2>2. CASE u = t
    BY <2>2, <1>1, <1>2 DEF Alone
  <2>3. CASE v = t
    BY <2>3, <1>1, <1>2 DEF Alone
  <2> QED BY <2>1, <2>2, <2>3
<1>6. ReadsStillHold'
  <2>1. ASSUME NEW u \in Txs, (Booking(u))', NEW k, k = job'[u]
        PROVE  (Reads(k))'
    <3>1. Reads(k)
      <4>1. CASE u = t
        BY <4>1, <2>1, <1>1, <1>2
      <4>2. CASE u # t
        <5>1. Booking(u) /\ k = job[u]
          BY <4>2, <2>1, <1>1, <1>2
        <5> QED BY <5>1 DEF JobInv, ReadsStillHold, Reads
      <4> QED BY <4>1, <4>2
    <3> QED BY <3>1, <1>3 DEF Reads
  <2> QED BY <2>1 DEF ReadsStillHold, Reads
<1>7. NumberIsNext'
  <2>1. ASSUME NEW u \in Txs, NEW v \in Txs, u # v, (Counting(u))', (Counting(v))'
        PROVE  year(job'[u].day) # year(job'[v].day)
    <3>1. CASE u # t /\ v # t
      BY <3>1, <2>1, <1>1, <1>2 DEF JobInv, NumberIsNext
    <3>2. CASE u = t
      BY <3>2, <2>1, <1>1, <1>2 DEF Numbered
    <3>3. CASE v = t
      BY <3>3, <2>1, <1>1, <1>2 DEF Numbered
    <3> QED BY <3>1, <3>2, <3>3
  <2>2. ASSUME NEW u \in Txs, (Counting(u))'
        PROVE  job'[u].number = lastValue'[year(job'[u].day)] + 1
    BY <2>2, <1>1, <1>2, <1>3 DEF JobInv, NumberIsNext, Numbered
  <2> QED BY <2>1, <2>2 DEF NumberIsNext
<1>8. ReversalsExclusive'
  <2>1. ASSUME NEW u \in Txs, pc'[u] = "inserted", job'[u].kind = "REVERSAL"
        PROVE  (Reversals(job[u].reverses))' = {}
    BY <2>1, <1>1, <1>3 DEF JobInv, ReversalsExclusive, OnlyReversal
  <2>2. ASSUME NEW u \in Txs, NEW v \in Txs, u # v, pc'[u] = "inserted", pc'[v] = "inserted",
               job'[u].kind = "REVERSAL"
        PROVE  job'[u].reverses # job'[v].reverses
    <3>1. CASE u # t /\ v # t
      BY <3>1, <2>2, <1>1 DEF JobInv, ReversalsExclusive
    <3>2. CASE u = t
      BY <3>2, <2>2, <1>1 DEF OnlyReversal
    <3>3. CASE v = t
      BY <3>3, <2>2, <1>1 DEF OnlyReversal
    <3> QED BY <3>1, <3>2, <3>3
  <2> QED BY <2>1, <2>2 DEF ReversalsExclusive
<1> QED BY <1>4, <1>5, <1>6, <1>7, <1>8 DEF JobInv

\* A transaction that ends without effect keeps the invariant.
LEMMA LeaveKeeps ==
  ASSUME IInv, NEW t \in Txs, Leave(t)
  PROVE  IInv'
<1>1. JobInv'
  BY MoveKeepsJobs DEF IInv, Leave, BookingSteps, CountingSteps
<1> QED BY <1>1, LeaveTyped, RowsUntouched DEF IInv, Leave

\* A move that writes no row keeps the invariant when the types and JobInv are kept.
LEMMA MoveKeeps ==
  ASSUME IInv, TypeOK', JobInv', UNCHANGED ledgerVars
  PROVE  IInv'
BY RowsUntouched DEF IInv

-----------------------------------------------------------------------------
(* Requests. *)

\* Starting a posting keeps the invariant.
LEMMA PostKeeps ==
  ASSUME IInv, NEW t \in Txs, NEW s \in Sources, NEW lines \in Postings, NEW d \in Days,
         PostToLedger(t, s, lines, d)
  PROVE  IInv'
<1> DEFINE j == [NoJob EXCEPT !.source = s, !.desired = lines, !.day = d]
<1>1. Goto(t, "locking", j) /\ UNCHANGED <<ledgerVars, lockVars>>
  BY DEF PostToLedger, Begin
<1>2. j \in Job
  BY NoJobTyped, LinesAssumption DEF Job, Ids
<1>3. /\ j.source = s /\ j.desired = lines /\ j.kind = "POSTING" /\ j.reverses = NoUuid
  BY DEF NoJob
<1>4. Named("locking", j)
  BY <1>3 DEF Named, Ids
<1> HIDE DEF j
<1>5. TypeOK'
  BY <1>1, <1>2, MoveTyped DEF IInv, PC
<1>6. JobInv'
  BY <1>1, <1>4, MoveKeepsJobs DEF IInv, BookingSteps, CountingSteps
<1> QED BY <1>1, <1>5, <1>6, MoveKeeps

\* A journal id that is new belongs to no other transaction and has nothing booked.
LEMMA FreshIsAlone ==
  ASSUME IInv, NEW t \in Txs, NEW u \in Uuids, Fresh(u), NEW j, j.source = u
  PROVE  /\ Alone(t, j)
         /\ JournalsOf(u) = {} /\ RevisionsOf(u) = 1..0 /\ booked[u] = NoLines
<1>1. JournalsOf(u) = {} /\ \A v \in Txs: Booking(v) => job[v].source # u
  BY DEF Fresh, Unused, Booking
<1>2. booked[u] = NoLines
  BY <1>1 DEF IInv, RowInv, RowsAddUp, Ids
<1>3. RevisionsOf(u) = 1..0
  BY <1>1 DEF RevisionsOf
<1> QED BY <1>1, <1>2, <1>3 DEF Alone

\* Starting a manual journal keeps the invariant.
LEMMA CreateKeeps ==
  ASSUME IInv, NEW t \in Txs, NEW u \in Uuids, NEW lines \in Postings, NEW d \in Days,
         CreateJournalEntry(t, u, lines, d)
  PROVE  IInv'
<1> DEFINE j == [NoJob EXCEPT !.kind = "MANUAL_JOURNAL", !.source = u, !.day = d,
                              !.revision = 1, !.desired = lines, !.delta = lines]
<1>1. Fresh(u) /\ lines # NoLines /\ Goto(t, "dating", j) /\ UNCHANGED <<ledgerVars, lockVars>>
  BY DEF CreateJournalEntry, Begin
<1>2. j \in Job
  BY NoJobTyped, LinesAssumption DEF Job, Ids, Kind
<1>3. /\ j.source = u /\ j.desired = lines /\ j.delta = lines /\ j.revision = 1
      /\ j.kind = "MANUAL_JOURNAL" /\ j.reverses = NoUuid
  BY DEF NoJob
<1> HIDE DEF j
<1>4. Named("dating", j)
  BY <1>3, NamesAssumption DEF Named, Ids
<1>5. Alone(t, j) /\ JournalsOf(u) = {} /\ RevisionsOf(u) = 1..0 /\ booked[u] = NoLines
  BY <1>1, <1>3, FreshIsAlone
<1>6. Reads(j)
  BY <1>1, <1>3, <1>5, LinesOfNew, LinesAssumption DEF Reads
<1>7. TypeOK'
  BY <1>1, <1>2, MoveTyped DEF IInv, PC
<1>8. JobInv'
  BY <1>1, <1>4, <1>5, <1>6, MoveKeepsJobs DEF IInv, BookingSteps, CountingSteps
<1> QED BY <1>1, <1>7, <1>8, MoveKeeps

\* Starting a reversal keeps the invariant.
LEMMA ReverseKeeps ==
  ASSUME IInv, NEW t \in Txs, NEW i \in journals, NEW u \in Uuids, NEW d \in Days,
         ReverseJournal(t, i, u, d)
  PROVE  IInv'
<1> DEFINE mirror == minus(NoLines, booked[i.source])
           j == [NoJob EXCEPT !.kind = "REVERSAL", !.source = u, !.day = d,
                              !.reverses = i.source, !.revision = 1,
                              !.desired = mirror, !.delta = mirror]
<1>0. i.source \in Uuids
  BY DEF ReverseJournal, IInv, RowInv, RowsAddUp
<1>1. Fresh(u) /\ Goto(t, "dating", j) /\ UNCHANGED <<ledgerVars, lockVars>>
  BY DEF ReverseJournal, Begin
<1>2. mirror \in [Accounts -> Int]
  BY <1>0, LinesTyped DEF IInv, TypeOK, Ids
<1>3. j \in Job
  BY <1>0, <1>2, NoJobTyped DEF Job, Ids, Kind
<1>4. /\ j.source = u /\ j.desired = mirror /\ j.delta = mirror /\ j.revision = 1
      /\ j.kind = "REVERSAL" /\ j.reverses = i.source
  BY DEF NoJob
<1> HIDE DEF j
<1>5. Named("dating", j)
  BY <1>0, <1>4, NamesAssumption DEF Named, Ids
<1>6. Alone(t, j) /\ JournalsOf(u) = {} /\ RevisionsOf(u) = 1..0 /\ booked[u] = NoLines
  BY <1>1, <1>4, FreshIsAlone
<1>7. JournalsOf(i.source) # {}
  BY DEF JournalsOf
<1>8. minus(mirror, NoLines) = mirror /\ mirror # NoLines
  <2>1. booked[i.source] \in [Accounts -> Int] /\ booked[i.source] # NoLines
    BY <1>0 DEF ReverseJournal, IInv, TypeOK, RowInv, RowsAddUp, Ids
  <2> QED BY <2>1, <1>2, LinesOfNew, LinesTyped, SameLines
<1>9. Reads(j)
  BY <1>4, <1>6, <1>7, <1>8 DEF Reads
<1>10. TypeOK'
  BY <1>1, <1>3, MoveTyped DEF IInv, PC
<1>11. JobInv'
  BY <1>1, <1>5, <1>6, <1>9, MoveKeepsJobs DEF IInv, BookingSteps, CountingSteps
<1> QED BY <1>1, <1>10, <1>11, MoveKeeps

-----------------------------------------------------------------------------
(* The steps of a transaction. *)

\* Reading the source keeps the invariant: what is read holds, and nobody else reads it.
LEMMA ReadSourceKeeps ==
  ASSUME IInv, NEW t \in Txs, ReadSource(t)
  PROVE  IInv'
<1> DEFINE s == job[t].source
           x == minus(job[t].desired, booked[s])
           j == [job[t] EXCEPT !.delta = x, !.revision = lastRevision(s) + 1]
<1>1. CASE x = NoLines
  BY <1>1, LeaveKeeps DEF ReadSource
<1>2. CASE x # NoLines
  <2>1. /\ pc[t] = "locking" /\ SourceLockFree(t)
        /\ Goto(t, "dating", j) /\ UNCHANGED <<ledgerVars, lockVars>>
    BY <1>2 DEF ReadSource
  <2>2. /\ job[t] \in Job /\ s \in Ids /\ job[t].kind = "POSTING" /\ Named("locking", job[t])
    BY <2>1 DEF IInv, TypeOK, JobInv, RequestsNamed, Named
  <2>3. PICK n \in Nat: RevisionsOf(s) = 1..n
    BY <2>2 DEF IInv, RowInv, RevisionsContiguous
  <2>4. lastRevision(s) = n
    BY <2>3, LastRevisionIs
  <2>5. x \in [Accounts -> Int]
    BY <2>2, LinesTyped DEF IInv, TypeOK, Job
  <2>6. j \in Job
    <3>1. lastRevision(s) + 1 \in Nat
      BY <2>4
    <3> HIDE DEF x
    <3> QED BY <3>1, <2>2, <2>5, JobWritten
  <2>7. /\ j.source = s /\ j.kind = "POSTING" /\ j.desired = job[t].desired /\ j.delta = x
        /\ j.revision = n + 1 /\ j.reverses = job[t].reverses
    BY <2>2, <2>4 DEF Job
  <2> HIDE DEF j
  <2>8. Named("dating", j) /\ Alone(t, j) /\ Reads(j)
    BY <1>2, <2>1, <2>2, <2>3, <2>7 DEF Named, Alone, Reads, SourceLockFree
  <2>9. TypeOK'
    BY <2>1, <2>6, MoveTyped DEF IInv, PC
  <2>10. JobInv'
    BY <2>1, <2>8, MoveKeepsJobs DEF IInv, BookingSteps, CountingSteps
  <2> QED BY <2>1, <2>9, <2>10, MoveKeeps
<1> QED BY <1>1, <1>2

\* What a transaction has read stays in order as long as its job names the same lines.
LEMMA ReadsCarryOver ==
  ASSUME IInv, NEW t \in Txs, Booking(t), NEW j,
         j.source = job[t].source, j.kind = job[t].kind, j.reverses = job[t].reverses,
         j.desired = job[t].desired, j.delta = job[t].delta, j.revision = job[t].revision
  PROVE  /\ \A step \in BookingSteps: Named(step, j)
         /\ Alone(t, j) /\ Reads(j)
<1>1. \A step \in BookingSteps: Named(step, j)
  BY DEF IInv, JobInv, RequestsNamed, Named, BookingSteps, Booking
<1>2. Alone(t, j)
  BY DEF IInv, JobInv, SourcesExclusive, Alone
<1>3. Reads(j)
  BY DEF IInv, JobInv, ReadsStillHold, Reads
<1> QED BY <1>1, <1>2, <1>3

\* Dating the journal keeps the invariant.
LEMMA DateKeeps ==
  ASSUME IInv, NEW t \in Txs, DateJournal(t)
  PROVE  IInv'
<1> DEFINE j == [job[t] EXCEPT !.day = BookingDay(t)]
<1>1. CASE BookingDay(t) <= closedThrough
  BY <1>1, LeaveKeeps DEF DateJournal
<1>2. CASE ~(BookingDay(t) <= closedThrough)
  <2>1. pc[t] = "dating" /\ Goto(t, "numbering", j) /\ UNCHANGED <<ledgerVars, lockVars>>
    BY <1>2 DEF DateJournal
  <2>2. job[t] \in Job
    BY DEF IInv, TypeOK
  <2>3. j \in Job
    BY <2>2, BookingDayTyped DEF IInv, Job
  <2>4. Named("numbering", j) /\ Alone(t, j) /\ Reads(j)
    BY <2>1, <2>2, ReadsCarryOver DEF Booking, BookingSteps, Job
  <2> HIDE DEF j
  <2>5. TypeOK'
    BY <2>1, <2>3, MoveTyped DEF IInv, PC
  <2>6. JobInv'
    BY <2>1, <2>4, MoveKeepsJobs DEF IInv, BookingSteps, CountingSteps
  <2> QED BY <2>1, <2>5, <2>6, MoveKeeps
<1> QED BY <1>1, <1>2

\* Taking the next number keeps the invariant, as the counter row is held.
LEMMA NextNumberKeeps ==
  ASSUME IInv, NEW t \in Txs, NextNumber(t)
  PROVE  IInv'
<1> DEFINE j == [job[t] EXCEPT !.number = lastValue[year(job[t].day)] + 1]
<1>1. /\ pc[t] = "numbering" /\ CounterFree(t)
      /\ Goto(t, "inserting", j) /\ UNCHANGED <<ledgerVars, lockVars>>
  BY DEF NextNumber
<1>2. job[t] \in Job
  BY DEF IInv, TypeOK
<1>3. j \in Job
  <2>1. lastValue[year(job[t].day)] + 1 \in Nat
    BY <1>2, YearTyped DEF IInv, TypeOK, Job
  <2> QED BY <2>1, <1>2, LinesTyped, JobWritten
<1>4. j.day = job[t].day /\ j.number = lastValue[year(j.day)] + 1
  BY <1>2 DEF Job
<1>5. Named("inserting", j) /\ Alone(t, j) /\ Reads(j)
  BY <1>1, <1>2, ReadsCarryOver DEF Booking, BookingSteps, Job
<1> HIDE DEF j
<1>6. Numbered(t, j)
  BY <1>1, <1>4 DEF Numbered, CounterFree
<1>7. TypeOK'
  BY <1>1, <1>3, MoveTyped DEF IInv, PC
<1>8. JobInv'
  BY <1>1, <1>5, <1>6, MoveKeepsJobs DEF IInv, BookingSteps, CountingSteps
<1> QED BY <1>1, <1>7, <1>8, MoveKeeps

\* Inserting the rows keeps the invariant: the unique index lets one reversal through.
LEMMA InsertKeeps ==
  ASSUME IInv, NEW t \in Txs, InsertRows(t)
  PROVE  IInv'
<1> DEFINE j == job[t]
<1>1. CASE j.day <= closedThrough \/ IndexRefuses(t)
  BY <1>1, LeaveKeeps DEF InsertRows
<1>2. CASE ~(j.day <= closedThrough \/ IndexRefuses(t))
  <2>1. /\ pc[t] = "inserting" /\ IndexFree(t)
        /\ Goto(t, "inserted", j) /\ UNCHANGED <<ledgerVars, lockVars>>
    BY <1>2 DEF InsertRows
  <2>2. j \in Job
    BY DEF IInv, TypeOK
  <2>3. Named("inserted", j) /\ Alone(t, j) /\ Reads(j)
    BY <2>1, <2>2, ReadsCarryOver DEF Booking, BookingSteps, Job
  <2>4. Numbered(t, j)
    BY <2>1 DEF IInv, JobInv, NumberIsNext, Numbered, Counting
  <2>5. OnlyReversal(t, j)
    <3>1. j.kind = "REVERSAL" => Reversals(j.reverses) = {}
      BY <1>2 DEF IndexRefuses, SameReversal, Reversals
    <3>2. ASSUME NEW u \in Txs \ {t}, pc[u] = "inserted", j.kind = "REVERSAL"
          PROVE  job[u].reverses # j.reverses
      BY <3>2, <2>1 DEF IndexFree, SameReversal
    <3>3. ASSUME NEW u \in Txs \ {t}, pc[u] = "inserted", j.kind # "REVERSAL",
                 job[u].kind = "REVERSAL"
          PROVE  job[u].reverses # j.reverses
      BY <3>3, <2>1, NamesAssumption DEF IInv, JobInv, RequestsNamed
    <3> QED BY <3>1, <3>2, <3>3 DEF OnlyReversal
  <2>6. TypeOK'
    BY <2>1, <2>2, MoveTyped DEF IInv, PC
  <2>7. JobInv'
    BY <2>1, <2>3, <2>4, <2>5, MoveKeepsJobs DEF IInv, BookingSteps, CountingSteps
  <2> QED BY <2>1, <2>6, <2>7, MoveKeeps
<1> QED BY <1>1, <1>2

-----------------------------------------------------------------------------
(* Commit. *)

\* The journal a transaction commits.
entry(k) ==
  [kind |-> k.kind, source |-> k.source, revision |-> k.revision, day |-> k.day,
   number |-> k.number, reverses |-> k.reverses, accounts |-> accountsOf(k.delta)]

\* What a commit does to the rows: one journal more, its source at the desired lines, and its
\* number the last of its year; nothing else is seen to change.
LEMMA CommitFacts ==
  ASSUME IInv, NEW t \in Txs, Commit(t), NEW k, k = job[t]
  PROVE  /\ k \in Job /\ k.source \in Ids /\ year(k.day) \in Years
         /\ pc[t] = "inserted" /\ Booking(t) /\ Counting(t)
         /\ journals' = journals \union {entry(k)}
         /\ booked'[k.source] = k.desired /\ k.desired # booked[k.source]
         /\ \A s \in Ids \ {k.source}: booked'[s] = booked[s]
         /\ lastValue'[year(k.day)] = k.number
         /\ \A y \in Years \ {year(k.day)}: lastValue'[y] = lastValue[y]
         /\ \A s: (JournalsOf(s))' = IF s = k.source THEN JournalsOf(s) \union {entry(k)} ELSE JournalsOf(s)
         /\ \A s: (RevisionsOf(s))' = IF s = k.source THEN RevisionsOf(s) \union {k.revision} ELSE RevisionsOf(s)
         /\ \A y: (NumbersOf(y))' = IF y = year(k.day) THEN NumbersOf(y) \union {k.number} ELSE NumbersOf(y)
         /\ \A u: (Reversals(u))' = IF u = k.reverses THEN Reversals(u) \union {entry(k)} ELSE Reversals(u)
<1>1. k \in Job /\ pc[t] = "inserted" /\ Booking(t) /\ Counting(t)
  BY DEF IInv, TypeOK, Commit, Booking, Counting
<1>2. k.source \in Ids /\ year(k.day) \in Years
  BY <1>1, YearTyped DEF IInv, JobInv, RequestsNamed, Job
<1>3. journals' = journals \union {entry(k)}
  BY DEF Commit, entry
<1>4. k.delta = minus(k.desired, booked[k.source])
  BY <1>1 DEF IInv, JobInv, ReadsStillHold
<1>5. plus(booked[k.source], k.delta) = k.desired
  BY <1>1, <1>2, <1>4, DifferenceBooked DEF IInv, TypeOK, Job
<1>13. k.desired # booked[k.source]
  <2>1. k.delta # NoLines
    BY <1>1 DEF IInv, JobInv, ReadsStillHold
  <2>2. \A x \in [Accounts -> Int]: minus(x, x) = NoLines
    BY DEF minus, NoLines
  <2> QED BY <1>1, <1>4, <2>1, <2>2 DEF Job
<1>6. booked'[k.source] = k.desired /\ \A s \in Ids \ {k.source}: booked'[s] = booked[s]
  <2>1. booked' = [booked EXCEPT ![k.source] = plus(booked[k.source], k.delta)]
    BY DEF Commit
  <2> QED BY <2>1, <1>2, <1>5 DEF IInv, TypeOK
<1>7. /\ lastValue'[year(k.day)] = k.number
      /\ \A y \in Years \ {year(k.day)}: lastValue'[y] = lastValue[y]
  <2>1. lastValue' = [lastValue EXCEPT ![year(k.day)] = k.number]
    BY DEF Commit
  <2> QED BY <2>1, <1>2 DEF IInv, TypeOK
<1>8. /\ entry(k).source = k.source /\ entry(k).revision = k.revision /\ entry(k).day = k.day
      /\ entry(k).number = k.number /\ entry(k).reverses = k.reverses
  BY DEF entry
<1>9. \A s: (JournalsOf(s))' = IF s = k.source THEN JournalsOf(s) \union {entry(k)} ELSE JournalsOf(s)
  BY <1>3, <1>8 DEF JournalsOf
<1>10. \A s: (RevisionsOf(s))' = IF s = k.source THEN RevisionsOf(s) \union {k.revision} ELSE RevisionsOf(s)
  <2> TAKE s
  <2>1. (RevisionsOf(s))' = {j.revision: j \in (JournalsOf(s))'}
    BY DEF RevisionsOf
  <2> QED BY <2>1, <1>8, <1>9 DEF RevisionsOf
<1>11. \A y: (NumbersOf(y))' = IF y = year(k.day) THEN NumbersOf(y) \union {k.number} ELSE NumbersOf(y)
  <2> TAKE y
  <2> DEFINE Y == {i \in journals: year(i.day) = y}
             YP == {i \in journals': year(i.day) = y}
  <2>1. YP = IF y = year(k.day) THEN Y \union {entry(k)} ELSE Y
    BY <1>3, <1>8
  <2>2. NumbersOf(y) = {j.number: j \in Y} /\ (NumbersOf(y))' = {j.number: j \in YP}
    BY DEF NumbersOf
  <2> HIDE DEF Y, YP
  <2> QED BY <2>1, <2>2, <1>8
<1>12. \A u: (Reversals(u))' = IF u = k.reverses THEN Reversals(u) \union {entry(k)} ELSE Reversals(u)
  BY <1>3, <1>8 DEF Reversals
<1> QED BY <1>1, <1>2, <1>3, <1>6, <1>7, <1>9, <1>10, <1>11, <1>12, <1>13

\* The id of a journal that is on the books is not the source a transaction is booking, unless
\* that is a posting's record.
LEMMA NotBeingBooked ==
  ASSUME IInv, NEW t \in Txs, Booking(t), NEW u \in Uuids, JournalsOf(u) # {}
  PROVE  job[t].source # u
BY NamesAssumption DEF IInv, JobInv, RequestsNamed, ReadsStillHold, Booking

\* A commit keeps what the other transactions have read and taken.
LEMMA CommitKeepsJobs ==
  ASSUME IInv, NEW t \in Txs, Commit(t)
  PROVE  JobInv'
<1> DEFINE k == job[t]
<1>1. /\ pc'[t] = "idle"
      /\ \A u \in Txs \ {t}: pc'[u] = pc[u] /\ job'[u] = job[u]
  BY GotoFacts DEF Commit, IInv
<1>2. \A u \in Txs: /\ pc'[u] # "idle" \/ (Booking(u))' \/ (Counting(u))' => u # t
                    /\ (Booking(u))' => Booking(u)
                    /\ (Counting(u))' => Counting(u)
  BY <1>1 DEF Booking, Counting
<1>3. RequestsNamed'
  BY <1>1, <1>2 DEF IInv, JobInv, RequestsNamed
<1>4. SourcesExclusive'
  BY <1>1, <1>2 DEF IInv, JobInv, SourcesExclusive
<1>5. ReadsStillHold'
  <2> SUFFICES ASSUME NEW u \in Txs, (Booking(u))', NEW j, j = job'[u]
               PROVE  (Reads(j))'
    BY DEF ReadsStillHold, Reads
  <2>1. u # t /\ Booking(u) /\ j = job[u]
    BY <1>1, <1>2
  <2>2. Reads(j)
    BY <2>1 DEF IInv, JobInv, ReadsStillHold, Reads
  <2>3. j.source \in Ids /\ j.source # k.source
    BY <2>1, CommitFacts DEF IInv, JobInv, SourcesExclusive, RequestsNamed, Booking
  <2>4. /\ booked'[j.source] = booked[j.source]
        /\ (RevisionsOf(j.source))' = RevisionsOf(j.source)
        /\ (JournalsOf(j.source))' = JournalsOf(j.source)
    BY <2>3, CommitFacts
  <2>5. ASSUME j.kind = "REVERSAL"
        PROVE  (JournalsOf(j.reverses))' # {} /\ booked'[j.reverses] = booked[j.reverses]
    <3>1. j.reverses \in Uuids /\ JournalsOf(j.reverses) # {}
      BY <2>1, <2>2, <2>5 DEF IInv, JobInv, RequestsNamed, Reads, Booking
    <3>2. j.reverses # k.source
      BY <3>1, NotBeingBooked, CommitFacts
    <3> QED BY <3>1, <3>2, CommitFacts DEF Ids
  <2> QED BY <2>2, <2>4, <2>5 DEF Reads
<1>6. NumberIsNext'
  <2>1. ASSUME NEW u \in Txs, (Counting(u))'
        PROVE  job'[u].number = lastValue'[year(job'[u].day)] + 1
    <3>1. u # t /\ Counting(u) /\ job'[u] = job[u]
      BY <2>1, <1>1, <1>2
    <3>2. year(job[u].day) # year(k.day) /\ Counting(t)
      BY <3>1, CommitFacts DEF IInv, JobInv, NumberIsNext
    <3>3. year(job[u].day) \in Years
      BY YearTyped DEF IInv, TypeOK, Job
    <3>4. lastValue'[year(job[u].day)] = lastValue[year(job[u].day)]
      BY <3>2, <3>3, CommitFacts
    <3> QED BY <3>1, <3>4 DEF IInv, JobInv, NumberIsNext
  <2> QED BY <2>1, <1>1, <1>2 DEF IInv, JobInv, NumberIsNext
<1>7. ReversalsExclusive'
  <2>1. ASSUME NEW u \in Txs, pc'[u] = "inserted", job'[u].kind = "REVERSAL", NEW r, r = job'[u].reverses
        PROVE  (Reversals(r))' = {}
    <3>1. u # t /\ pc[u] = "inserted" /\ job[u].kind = "REVERSAL" /\ r = job[u].reverses
      BY <2>1, <1>1
    <3>2. r # k.reverses
      BY <3>1, CommitFacts DEF IInv, JobInv, ReversalsExclusive
    <3>3. Reversals(r) = {}
      BY <3>1 DEF IInv, JobInv, ReversalsExclusive
    <3> QED BY <3>2, <3>3, CommitFacts
  <2>2. \A u, v \in Txs:
          u # v /\ pc'[u] = "inserted" /\ pc'[v] = "inserted" /\ job'[u].kind = "REVERSAL"
            => job'[u].reverses # job'[v].reverses
    BY <1>1 DEF IInv, JobInv, ReversalsExclusive
  <2> QED BY <2>1, <2>2 DEF ReversalsExclusive
<1> QED BY <1>3, <1>4, <1>5, <1>6, <1>7 DEF JobInv

\* A commit keeps the rows in order.
LEMMA CommitKeepsRows ==
  ASSUME IInv, NEW t \in Txs, Commit(t)
  PROVE  RowInv'
<1> DEFINE k == job[t]
           e == entry(k)
<1>1. /\ e.source = k.source /\ e.revision = k.revision /\ e.day = k.day /\ e.number = k.number
      /\ e.reverses = k.reverses /\ e.kind = k.kind
  BY DEF entry
<1>2. k \in Job /\ k.source \in Ids /\ year(k.day) \in Years /\ journals' = journals \union {e}
  BY CommitFacts
<1>3. Named("inserted", k) /\ Reads(k) /\ OnlyReversal(t, k)
  <2>1. pc[t] = "inserted" /\ Booking(t)
    BY CommitFacts
  <2>2. Named("inserted", k)
    BY <2>1 DEF IInv, JobInv, RequestsNamed, Named
  <2>3. Reads(k)
    BY <2>1 DEF IInv, JobInv, ReadsStillHold, Reads
  <2>4. OnlyReversal(t, k)
    BY <2>1 DEF IInv, JobInv, ReversalsExclusive, OnlyReversal
  <2> QED BY <2>2, <2>3, <2>4
<1>4. k.number = lastValue[year(k.day)] + 1 /\ \A y \in Years: lastValue[y] \in Nat
  BY CommitFacts DEF IInv, TypeOK, JobInv, NumberIsNext
<1> HIDE DEF k, e
<1>5. NumbersGapFree'
  <2>1. ASSUME NEW y \in Years PROVE (NumbersOf(y))' = 1..lastValue'[y]
    <3>1. NumbersOf(y) = 1..lastValue[y]
      BY DEF IInv, RowInv, NumbersGapFree
    <3>2. CASE y = year(k.day)
      <4>1. /\ (NumbersOf(y))' = NumbersOf(y) \union {k.number}
            /\ lastValue'[y] = k.number
        BY <3>2, CommitFacts DEF k
      <4> QED BY <4>1, <3>1, <3>2, <1>4
    <3>3. CASE y # year(k.day)
      BY <3>1, <3>3, CommitFacts DEF k
    <3> QED BY <3>2, <3>3
  <2>2. ASSUME NEW j \in journals, year(j.day) = year(k.day) PROVE j.number # k.number
    <3>1. j.number \in NumbersOf(year(k.day))
      BY <2>2 DEF NumbersOf
    <3>2. NumbersOf(year(k.day)) = 1..lastValue[year(k.day)]
      BY <1>2 DEF IInv, RowInv, NumbersGapFree
    <3> QED BY <3>1, <3>2, <1>2, <1>4
  <2>3. ASSUME NEW i \in journals', NEW j \in journals', year(i.day) = year(j.day), i.number = j.number
        PROVE  i = j
    BY <2>2, <2>3, <1>1, <1>2 DEF IInv, RowInv, NumbersGapFree
  <2> QED BY <2>1, <2>3 DEF NumbersGapFree
<1>6. RevisionsContiguous'
  <2> SUFFICES ASSUME NEW s \in Ids
               PROVE  /\ \E n \in Nat: (RevisionsOf(s))' = 1..n
                      /\ \A i, j \in (JournalsOf(s))': i.revision = j.revision => i = j
    BY DEF RevisionsContiguous
  <2>1. CASE s # k.source
    <3>1. (RevisionsOf(s))' = RevisionsOf(s) /\ (JournalsOf(s))' = JournalsOf(s)
      BY <2>1, CommitFacts DEF k
    <3> QED BY <3>1 DEF IInv, RowInv, RevisionsContiguous
  <2>2. CASE s = k.source
    <3>1. RevisionsOf(s) = 1..(k.revision - 1) /\ k.revision >= 1 /\ k.revision \in Nat
      BY <2>2, <1>2, <1>3 DEF Reads, Job
    <3>2. /\ (RevisionsOf(s))' = RevisionsOf(s) \union {k.revision}
          /\ (JournalsOf(s))' = JournalsOf(s) \union {e}
      BY <2>2, CommitFacts DEF k, e
    <3>3. (RevisionsOf(s))' = 1..k.revision
      BY <3>1, <3>2
    <3>4. ASSUME NEW j \in JournalsOf(s) PROVE j.revision # k.revision
      <4>1. j.revision \in RevisionsOf(s)
        BY DEF RevisionsOf
      <4> QED BY <4>1, <3>1
    <3>5. ASSUME NEW i \in (JournalsOf(s))', NEW j \in (JournalsOf(s))', i.revision = j.revision
          PROVE  i = j
      BY <3>2, <3>4, <3>5, <1>1 DEF IInv, RowInv, RevisionsContiguous
    <3> QED BY <3>1, <3>3, <3>5
  <2> QED BY <2>1, <2>2
<1>7. RowsAddUp'
  <2>1. ASSUME NEW s \in Ids, (JournalsOf(s))' = {} PROVE booked'[s] = NoLines
    <3>1. s # k.source /\ JournalsOf(s) = {}
      BY <2>1, CommitFacts DEF k
    <3> QED BY <3>1, CommitFacts DEF k, IInv, RowInv, RowsAddUp
  <2>2. ASSUME NEW j \in journals', j.reverses # NoUuid \/ j.kind = "MANUAL_JOURNAL"
        PROVE  j.source \in Uuids
    BY <2>2, <1>1, <1>2, <1>3 DEF IInv, RowInv, RowsAddUp, Named, Ids
  <2>3. ASSUME NEW j \in journals', j.reverses # NoUuid
        PROVE  (JournalsOf(j.reverses))' # {}
    <3>1. JournalsOf(j.reverses) # {}
      BY <2>3, <1>1, <1>2, <1>3 DEF IInv, RowInv, RowsAddUp, Named, Reads
    <3> QED BY <3>1, CommitFacts
  <2>4. ASSUME NEW j \in journals, j.kind = "MANUAL_JOURNAL" PROVE booked'[j.source] # NoLines
    <3>1. j.source \in Uuids /\ booked[j.source] # NoLines /\ JournalsOf(j.source) # {}
      BY <2>4 DEF IInv, RowInv, RowsAddUp, JournalsOf
    <3>2. j.source # k.source
      BY <3>1, NotBeingBooked, CommitFacts DEF k
    <3> QED BY <3>1, <3>2, CommitFacts DEF k, Ids
  <2>5. e.kind = "MANUAL_JOURNAL" => booked'[e.source] # NoLines
    <3> SUFFICES ASSUME e.kind = "MANUAL_JOURNAL" PROVE booked'[k.source] # NoLines
      BY <1>1
    <3>1. booked[k.source] = NoLines
      BY <1>1, <1>2, <1>3 DEF Reads, IInv, RowInv, RowsAddUp
    <3> QED BY <3>1, CommitFacts DEF k
  <2> QED BY <2>1, <2>2, <2>3, <2>4, <2>5, <1>2 DEF RowsAddUp
<1>8. ReversedAtMostOnce'
  <2> SUFFICES ASSUME NEW u \in Uuids
               PROVE  /\ \A i, j \in (Reversals(u))': i = j
                      /\ \A j \in (Reversals(u))': plus(booked'[u], booked'[j.source]) = NoLines
    BY DEF ReversedAtMostOnce
  <2>1. JournalsOf(u) # {} => u # k.source
    BY NotBeingBooked, CommitFacts DEF k
  <2>2. u \in Ids /\ u # NoUuid
    BY NamesAssumption DEF Ids
  <2>3. CASE u # k.reverses
    <3>1. (Reversals(u))' = Reversals(u)
      BY <2>3, CommitFacts DEF k
    <3>2. ASSUME NEW j \in Reversals(u) PROVE booked'[u] = booked[u] /\ booked'[j.source] = booked[j.source]
      <4>1. j \in journals /\ j.reverses = u
        BY DEF Reversals
      <4>2. j.source \in Uuids /\ JournalsOf(u) # {}
        BY <4>1, <2>2 DEF IInv, RowInv, RowsAddUp
      <4>3. JournalsOf(j.source) # {}
        BY <4>1 DEF JournalsOf
      <4>4. j.source # k.source
        BY <4>2, <4>3, NotBeingBooked, CommitFacts DEF k
      <4> QED BY <4>2, <4>4, <2>1, <2>2, CommitFacts DEF k, Ids
    <3> QED BY <3>1, <3>2 DEF IInv, RowInv, ReversedAtMostOnce
  <2>4. CASE u = k.reverses
    <3>1. k.kind = "REVERSAL"
      BY <2>2, <2>4, <1>3 DEF Named
    <3>2. (Reversals(u))' = {e}
      BY <2>4, <3>1, <1>3, CommitFacts DEF k, e, OnlyReversal
    <3>3. JournalsOf(u) # {} /\ k.desired = minus(NoLines, booked[u])
      BY <2>4, <3>1, <1>3 DEF Reads
    <3>4. booked'[u] = booked[u] /\ booked'[e.source] = minus(NoLines, booked[u])
      BY <3>3, <2>1, <2>2, <1>1, CommitFacts DEF k
    <3>5. plus(booked[u], minus(NoLines, booked[u])) = NoLines
      BY <2>2, LinesOfNew DEF IInv, TypeOK
    <3> QED BY <3>2, <3>4, <3>5
  <2> QED BY <2>3, <2>4
<1> QED BY <1>5, <1>6, <1>7, <1>8 DEF RowInv

-----------------------------------------------------------------------------
(* The invariant holds. *)

\* The empty books satisfy the invariant.
LEMMA InitKeeps == Init => IInv
<1> SUFFICES ASSUME Init PROVE IInv
  OBVIOUS
<1>1. /\ \A s: JournalsOf(s) = {} /\ RevisionsOf(s) = {} /\ Reversals(s) = {}
      /\ \A y: NumbersOf(y) = {}
  BY DEF Init, JournalsOf, RevisionsOf, Reversals, NumbersOf
<1>2. TypeOK
  BY NoJobTyped, LinesTyped DEF Init, TypeOK, PC, LockDays, LockChange, NoChange, LedgerEntry
<1>3. JobInv
  BY DEF Init, JobInv, RequestsNamed, SourcesExclusive, ReadsStillHold, NumberIsNext,
         ReversalsExclusive, Booking, Counting
<1>4. NumbersGapFree
  BY <1>1 DEF Init, NumbersGapFree
<1>5. RevisionsContiguous
  <2>1. {} = 1..0 /\ 0 \in Nat
    OBVIOUS
  <2> QED BY <1>1, <2>1 DEF RevisionsContiguous
<1>6. RowsAddUp /\ ReversedAtMostOnce
  BY <1>1 DEF Init, RowsAddUp, ReversedAtMostOnce
<1> QED BY <1>2, <1>3, <1>4, <1>5, <1>6 DEF IInv, RowInv

\* The ledger and its transactions do not change while the lock is administered.
LEMMA AdministerKeeps ==
  ASSUME IInv, NEW a \in Admins, Administer(a)
  PROVE  IInv'
<1>1. UNCHANGED <<ledgerVars, pc, job>>
  BY DEF Administer, CloseRead, ReopenRead, Decide, ChangeLock, ChangeFails
<1>2. JobInv'
  BY <1>1 DEF IInv, JobInv, RequestsNamed, SourcesExclusive, ReadsStillHold, NumberIsNext,
              ReversalsExclusive, Booking, Counting, RevisionsOf, JournalsOf, Reversals, ledgerVars
<1> QED BY <1>1, <1>2, AdministerTyped, MoveKeeps DEF IInv

\* A commit keeps the invariant.
LEMMA CommitKeeps ==
  ASSUME IInv, NEW t \in Txs, Commit(t)
  PROVE  IInv'
<1>1. TypeOK'
  BY CommitTyped, CommitFacts DEF IInv
<1> QED BY <1>1, CommitKeepsJobs, CommitKeepsRows DEF IInv

\* Nothing happening keeps the invariant.
LEMMA StutterKeeps ==
  ASSUME IInv, UNCHANGED vars
  PROVE  IInv'
<1>1. TypeOK'
  BY DEF IInv, TypeOK, vars, ledgerVars, lockVars
<1>2. JobInv'
  BY DEF IInv, JobInv, RequestsNamed, SourcesExclusive, ReadsStillHold, NumberIsNext, vars,
         ReversalsExclusive, Booking, Counting, RevisionsOf, JournalsOf, Reversals, ledgerVars
<1> QED BY <1>1, <1>2, MoveKeeps DEF vars

\* Every step keeps the invariant.
LEMMA NextKeeps == IInv /\ [Next]_vars => IInv'
<1> SUFFICES ASSUME IInv, [Next]_vars PROVE IInv'
  OBVIOUS
<1>1. ASSUME NEW t \in Txs, Request(t) PROVE IInv'
  BY <1>1, PostKeeps, CreateKeeps, ReverseKeeps DEF Request
<1>2. ASSUME NEW t \in Txs, Advance(t) PROVE IInv'
  BY <1>2, ReadSourceKeeps, DateKeeps, NextNumberKeeps, InsertKeeps, CommitKeeps DEF Advance
<1>3. ASSUME NEW t \in Txs, RollBack(t) PROVE IInv'
  BY <1>3, LeaveKeeps DEF RollBack
<1>4. ASSUME NEW a \in Admins, Administer(a) PROVE IInv'
  BY <1>4, AdministerKeeps
<1>5. CASE UNCHANGED vars
  BY <1>5, StutterKeeps
<1> QED BY <1>1, <1>2, <1>3, <1>4, <1>5 DEF Next

\* The inductive invariant holds in every reachable state.
THEOREM InductiveInvariant == Spec => []IInv
BY InitKeeps, NextKeeps, PTL DEF Spec

\* Every variable keeps the shape of the rows it stands for.
THEOREM TypeCorrect == Spec => []TypeOK
<1>1. IInv => TypeOK
  BY DEF IInv
<1> QED BY <1>1, InductiveInvariant, PTL

\* nextNumber never leaves a gap or gives a number twice, whatever runs at the same time and
\* whatever rolls back.
THEOREM NumbersNeverGap == Spec => []NumbersGapFree
<1>1. IInv => NumbersGapFree
  BY DEF IInv, RowInv
<1> QED BY <1>1, InductiveInvariant, PTL

\* The journals postToLedger makes for a source are its revisions 1, 2, ..., each once.
THEOREM RevisionsStayInOrder == Spec => []RevisionsInOrder
<1>1. IInv => RevisionsInOrder
  <2> SUFFICES ASSUME IInv, NEW s \in Ids
               PROVE  /\ RevisionsOf(s) = 1..lastRevision(s)
                      /\ \A j, k \in JournalsOf(s): j.revision = k.revision => j = k
    BY DEF RevisionsInOrder
  <2>1. PICK n \in Nat: RevisionsOf(s) = 1..n
    BY DEF IInv, RowInv, RevisionsContiguous
  <2>2. lastRevision(s) = n
    BY <2>1, LastRevisionIs
  <2> QED BY <2>1, <2>2 DEF IInv, RowInv, RevisionsContiguous
<1> QED BY <1>1, InductiveInvariant, PTL

\* reverseJournal never reverses a manual journal twice, and a reversal cancels it exactly.
THEOREM ReversalsHappenOnce == Spec => []ReversedAtMostOnce
<1>1. IInv => ReversedAtMostOnce
  BY DEF IInv, RowInv
<1> QED BY <1>1, InductiveInvariant, PTL

-----------------------------------------------------------------------------
(* Steps. *)

\* Rows and sums are written by commits only.
LEMMA OnlyCommitsWrite ==
  ASSUME [Next]_vars
  PROVE  UNCHANGED ledgerVars \/ \E t \in Txs: Commit(t)
BY DEF Next, Request, PostToLedger, CreateJournalEntry, ReverseJournal, Begin, Advance, ReadSource,
       DateJournal, NextNumber, InsertRows, RollBack, Leave, Administer, CloseRead, ReopenRead,
       Decide, ChangeLock, ChangeFails, vars

\* postToLedger, createJournalEntry and reverseJournal never commit a journal that changes
\* nothing.
THEOREM JournalsCount == Spec => EveryJournalCounts
<1>1. IInv /\ [Next]_vars =>
        [\A j \in journals' \ journals: booked'[j.source] # booked[j.source]]_vars
  <2> SUFFICES ASSUME IInv, [Next]_vars, NEW j \in journals' \ journals
               PROVE  booked'[j.source] # booked[j.source]
    OBVIOUS
  <2>1. PICK t \in Txs: Commit(t)
    BY OnlyCommitsWrite DEF ledgerVars
  <2> DEFINE k == job[t]
  <2>2. j.source = k.source
    BY <2>1, CommitFacts DEF entry
  <2>3. booked'[k.source] # booked[k.source]
    BY <2>1, CommitFacts
  <2> QED BY <2>2, <2>3
<1> QED BY <1>1, InductiveInvariant, PTL DEF Spec, EveryJournalCounts

\* Ledger implements Books: a commit of a posting is the posting of its lines, and everything
\* else is not seen there.
THEOREM LedgerImplementsBooks == Spec => ImplementsBooks
<1> DEFINE view == [s \in Sources |-> booked[s]]
<1>1. Init => BooksHoldOnePosting!Init
  BY DEF Init, BooksHoldOnePosting!Init, BooksHoldOnePosting!NoLines, NoLines, Ids
<1>2. IInv /\ [Next]_vars => [BooksHoldOnePosting!Next]_view
  <2> SUFFICES ASSUME IInv, [Next]_vars PROVE [BooksHoldOnePosting!Next]_view
    OBVIOUS
  <2>1. CASE UNCHANGED ledgerVars
    BY <2>1 DEF ledgerVars
  <2>2. ASSUME NEW t \in Txs, Commit(t) PROVE [BooksHoldOnePosting!Next]_view
    <3> DEFINE k == job[t]
    <3>1. /\ booked'[k.source] = k.desired /\ k.source \in Ids
          /\ \A s \in Ids \ {k.source}: booked'[s] = booked[s]
      BY <2>2, CommitFacts
    <3>2. CASE k.source \in Sources
      <4>1. k.desired \in Postings
        BY <2>2, <3>2 DEF IInv, JobInv, RequestsNamed, Commit
      <4>2. view' = [view EXCEPT ![k.source] = k.desired]
        BY <3>1, <3>2 DEF Ids
      <4>3. BooksHoldOnePosting!Next
        <5> HIDE DEF k
        <5> QED BY <3>2, <4>1, <4>2 DEF BooksHoldOnePosting!Next, BooksHoldOnePosting!Post
      <4> QED BY <4>3
    <3>3. CASE k.source \notin Sources
      BY <3>1, <3>3 DEF Ids
    <3> QED BY <3>2, <3>3
  <2> QED BY <2>1, <2>2, OnlyCommitsWrite
<1> QED BY <1>1, <1>2, InductiveInvariant, PTL DEF Spec, ImplementsBooks, BooksHoldOnePosting!Spec
=============================================================================
