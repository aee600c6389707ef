-------------------------------- MODULE Ledger --------------------------------
(***************************************************************************)
(* The ledger of one account: Ledger.ingest of data_store.py, and replay   *)
(* and merge_uncovered of reprocess.py, as operators.                      *)
(*                                                                         *)
(* A payment is what happened at the bank; a transaction [pay, date] is a  *)
(* payment as one answer dates it; an entry is what the ledger keeps of    *)
(* it.  What[p] stands for amount, currency, counterparty and remittance,  *)
(* the parts of fingerprint() besides the date.  Two payments of one What  *)
(* are told apart by their place in the bank's list (Rank).  The bank's    *)
(* ids (Tid) are its own per payment, so `if lid in ids: continue` in      *)
(* prepare never applies.                                                  *)
(*                                                                         *)
(* A window is one answer: the requested start, whether it is known to be  *)
(* incomplete, the booked and the pending transactions.                    *)
(***************************************************************************)
EXTENDS Integers, FiniteSets, SequencesExt

CONSTANTS
  Payments, What, Tid, Rank,
  NoTid,          \* the bank gives the payment no transactionId
  ShortAnswer,    \* SHORT_ANSWER_DAYS
  PendingMatch    \* PENDING_MATCH_DAYS

ASSUME LedgerAssumption ==
  /\ Rank \in [Payments -> Nat] /\ \A p, q \in Payments : Rank[p] = Rank[q] => p = q
  /\ \A p, q \in Payments : Tid[p] = Tid[q] /\ Tid[p] # NoTid => p = q
  /\ ShortAnswer \in Nat /\ PendingMatch \in Nat

Transactions == [pay : Payments, date : Int]

Windows ==
  [from : Int, truncated : BOOLEAN,
   booked : SUBSET Transactions, pending : SUBSET Transactions]

LidsOf(entries) == {e.lid : e \in entries}

Booked(entries) == {e \in entries : e.status = "booked"}

\* The booked entries are told apart by their ids.
Distinct(entries) == \A e, f \in Booked(entries) : e.lid = f.lid => e = f

-----------------------------------------------------------------------------
(* Transaction identity *)

Fingerprint(t) == <<What[t.pay], t.date>>

\* Slip for the mutation runs: identical payments of one answer share an id.
IdByFingerprint(batch, t) ==
  IF Tid[t.pay] # NoTid THEN <<Tid[t.pay]>> ELSE <<Fingerprint(t), 0>>

\* The bank's id, or the fingerprint with the number of equal ones before it.
LedgerId(batch, t) ==
  IF Tid[t.pay] # NoTid THEN <<Tid[t.pay]>>
  ELSE LET twins == {u \in batch : /\ Tid[u.pay] = NoTid
                                   /\ Fingerprint(u) = Fingerprint(t)
                                   /\ Rank[u.pay] < Rank[t.pay]}
       IN <<Fingerprint(t), Cardinality(twins)>>

\* Slip: the status is left in the bank's words.
PrepareVerbatim(batch, status) ==
  {[lid |-> LedgerId(batch, t), what |-> What[t.pay], date |-> t.date,
    status |-> IF status = "booked" THEN "BOOK" ELSE "PDNG"] : t \in batch}

Prepare(batch, status) ==
  {[lid |-> LedgerId(batch, t), what |-> What[t.pay], date |-> t.date,
    status |-> status] : t \in batch}

Settles(pending, booked) ==
  /\ pending.what = booked.what
  /\ booked.date - pending.date \in -PendingMatch..PendingMatch

-----------------------------------------------------------------------------
(* One window *)

\* Slip: every answer is taken as evidence for the whole requested span.
RequestedFrom(from, booked) == from

\* Where the span starts that an answer is evidence for: at the request, or at
\* the first transaction of an answer much shorter than requested.
ReportedFrom(from, booked) ==
  IF \E t \in booked : t.date - from <= ShortAnswer THEN from
  ELSE IF booked = {} THEN from
  ELSE Min({t.date : t \in booked})

\* Slip: an entry before the span stays although the answer has its id.
KeptByDate(entries, w) ==
  LET start == ReportedFrom(w.from, w.booked)
  IN {e \in Booked(entries) : w.truncated \/ e.date < start}

\* Of the old entries stay those booked before the span; all booked ones after
\* a truncated answer, whose silence proves nothing.
Kept(entries, w) ==
  LET ids == LidsOf(Prepare(w.booked, "booked"))
      start == ReportedFrom(w.from, w.booked)
  IN {e \in Booked(entries) : e.lid \notin ids /\ (w.truncated \/ e.date < start)}

Waiting(w) ==
  LET fresh == Prepare(w.booked, "booked")
  IN {p \in Prepare(w.pending, "pending") : \A b \in fresh : ~Settles(p, b)}

Ingest(entries, w) == Kept(entries, w) \cup Prepare(w.booked, "booked") \cup Waiting(w)

-----------------------------------------------------------------------------
(* The rebuild from the archive *)

Replay(windows) ==
  LET after[i \in 0..Len(windows)] ==
        IF i = 0 THEN {} ELSE Ingest(after[i - 1], windows[i])
  IN after[Len(windows)]

Coverage(windows) ==
  Min({ReportedFrom(windows[i].from, windows[i].booked) : i \in DOMAIN windows})

\* Slip: the history before the archive is not carried over.
OnlyReplayed(old, windows) ==
  IF windows = <<>> THEN old ELSE Replay(windows)

\* The archive's account of the past, and before its coverage the old ledger's.
Rebuilt(old, windows) ==
  IF windows = <<>> THEN old
  ELSE LET new == Replay(windows)
           ids == LidsOf(new)
           start == Coverage(windows)
       IN new \cup {e \in Booked(old) : e.lid \notin ids /\ e.date < start}
=============================================================================
