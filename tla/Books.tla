------------------------------- MODULE Books -------------------------------
(* What postToLedger promises (accounting.service.ts:151-156): for every business record the
   books hold the lines of one posting, the last one, whatever was posted before and however
   often.  No journals, revisions, dates, locks or transactions: they are how Ledger keeps
   the promise. *)
EXTENDS Naturals

CONSTANTS
  Sources,   \* business records that are posted (sourceType and sourceId)
  Accounts,  \* ledger accounts (with the money account, for cash)
  Postings   \* the lines a posting may carry: account -> debit minus credit; NoLines is one

NoLines == [a \in Accounts |-> 0]

VARIABLE booked  \* source -> account -> debit minus credit

Init == booked = [s \in Sources |-> NoLines]

\* A posting replaces what the books hold for its source; no lines cancel it.
Post(s, lines) == booked' = [booked EXCEPT ![s] = lines]

Next == \E s \in Sources, lines \in Postings: Post(s, lines)

Spec == Init /\ [][Next]_booked
=============================================================================
