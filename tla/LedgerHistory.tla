----------------------------- MODULE LedgerHistory -----------------------------
(***************************************************************************)
(* The history of one account from the bank to the disk: the fetch window  *)
(* of manager/_refresh.py, the raw archive and the ledger it is kept in,   *)
(* and the rebuild of manager/_persistence.py.                             *)
(*                                                                         *)
(* A round (Refresh models its gate) fetches one window of the account,    *)
(* merges it into the ledger, writes the archive, then the ledger; a       *)
(* rebuild replays the archive.  Both hold the refresh lock, so a rebuild  *)
(* finds no round in progress.  Windows of other accounts share the two    *)
(* writes and nothing else.  The bank moves between rounds only: within    *)
(* one it could not be told from a move before or after.                   *)
(***************************************************************************)
EXTENDS Ledger

CONSTANTS
  FirstDay,      \* the day the integration is set up
  Overlap,       \* INCREMENTAL_OVERLAP_DAYS
  FetchDays,     \* DEFAULT_FETCH_DAYS
  Ladder,        \* HISTORY_BACKFILL_DAYS, the lengths of a full-history request
  Limits,        \* the longest window a bank accepts (422 beyond)
  Depths,        \* how many days back its answers may go
  Asked,         \* `days` of the refresh service, 0 for none
  Legacy         \* payments the plaintext cache of an old version held

ASSUME HistoryAssumption ==
  /\ FirstDay \in Nat \ {0} /\ Overlap \in Nat /\ FetchDays \in Nat
  /\ Ladder \subseteq Nat /\ FetchDays \in Ladder
  /\ Limits \subseteq Nat /\ \A n \in Limits : n >= FetchDays
  /\ Depths \subseteq Nat /\ Asked \subseteq Nat
  /\ Legacy \subseteq Payments /\ IsFiniteSet(Legacy)

VARIABLES
  day, session,    \* today; the consent session (the bank's valid_until)
  bank,            \* external: what the bank knows of each payment
  ledger,          \* the account's entries in memory
  backfilled,      \* meta.history: the session whose full history was fetched
  disk,            \* ledger and backfilled as last saved
  queue, archive,  \* windows recorded by the raw archive, not yet and written
  phase, hit,      \* where the round is; whether the account answered
  lostBatch,       \* history: a batch of the archive was lost
  behind           \* history: the ledger that lacks a window the archive has

vars == <<day, session, bank, ledger, backfilled, disk, queue, archive,
          phase, hit, lostBatch, behind>>

BankStates == [status : {"absent", "pending", "booked", "gone"}, date : Int]

Whats == {What[p] : p \in Payments}

Entries ==
  [lid : {<<Tid[p]>> : p \in Payments} \cup ((Whats \X Int) \X Nat),
   what : Whats, date : Int, status : {"booked", "pending"}]

AtBank(status) ==
  {[pay |-> p, date |-> bank[p].date] : p \in {q \in Payments : bank[q].status = status}}

-----------------------------------------------------------------------------
(* The bank (external) *)

BankMove(p, status, date) ==
  /\ phase = "idle"
  /\ bank' = [bank EXCEPT ![p] = [status |-> status, date |-> date]]
  /\ UNCHANGED <<day, session, ledger, backfilled, disk, queue, archive,
                 phase, hit, lostBatch, behind>>

Announce(p) == bank[p].status = "absent" /\ BankMove(p, "pending", day)

\* Booked today, or dated back within the overlap.
Book(p, date) ==
  /\ bank[p].status \in {"absent", "pending"}
  /\ date \in (day - Overlap)..day
  /\ BankMove(p, "booked", date)

\* A booking is taken back, or dated anew.
Cancel(p) == bank[p].status = "booked" /\ BankMove(p, "gone", bank[p].date)

Redate(p, date) ==
  /\ bank[p].status = "booked" /\ date \in (day - Overlap)..day
  /\ BankMove(p, "booked", date)

NextDay ==
  /\ phase = "idle" /\ day' = day + 1
  /\ UNCHANGED <<session, bank, ledger, backfilled, disk, queue, archive,
                 phase, hit, lostBatch, behind>>

\* The user links the bank again: a new consent, a new session.
Relink ==
  /\ phase = "idle" /\ session' = session + 1
  /\ UNCHANGED <<day, bank, ledger, backfilled, disk, queue, archive,
                 phase, hit, lostBatch, behind>>

-----------------------------------------------------------------------------
(* A round *)

\* The user's own call asks for the full history once per session.
Backfill(attended) == attended /\ backfilled # session

\* _fetch_date_from: the last booked entry less the overlap, within the floor.
IncrementalFrom ==
  LET floor == day - FetchDays
      last == Max({e.date : e \in Booked(ledger)})
  IN IF Booked(ledger) = {} THEN floor ELSE Max({last - Overlap, floor})

\* The full-history request steps down the ladder to a length the bank accepts;
\* only unattended callers ask for a number of days.
RequestFrom(attended, limit, days) ==
  IF Backfill(attended) THEN day - Max({n \in Ladder : n <= limit})
  ELSE IF ~attended /\ days # 0 THEN day - days
  ELSE IncrementalFrom

Since(transactions, from) == {t \in transactions : t.date >= from}

\* The window goes to the archive's queue and into the ledger.
Receive(w, backfill) ==
  /\ queue' = Append(queue, w)
  /\ ledger' = Ingest(ledger, w)
  /\ backfilled' = IF backfill THEN session ELSE backfilled
  /\ hit' = TRUE

\* Slip for the mutation runs: an empty full history is believed.
EmptyHistoryBelieved(backfill, booked) == FALSE

\* An empty answer to a full-history request proves nothing.
EmptyHistory(backfill, booked) == backfill /\ booked = {}

\* The bank answers in full, from the start of the request or as far as it goes.
FetchAll(attended, from, depth) ==
  LET booked == Since(AtBank("booked"), Max({from, day - depth}))
  IN /\ phase = "idle" /\ phase' = "fetched"
     /\ Receive([from |-> from, booked |-> booked, pending |-> AtBank("pending"),
                 truncated |-> EmptyHistory(Backfill(attended), booked)],
                Backfill(attended))
     /\ UNCHANGED <<day, session, bank, disk, archive, lostBatch, behind>>

\* The pages run in circles or exceed their number: part of the answer.
FetchPart(attended, from, part) ==
  /\ phase = "idle" /\ phase' = "fetched"
  /\ part \subseteq Since(AtBank("booked"), from)
  /\ Receive([from |-> from, booked |-> part, pending |-> {}, truncated |-> TRUE],
             Backfill(attended))
  /\ UNCHANGED <<day, session, bank, disk, archive, lostBatch, behind>>

\* A page fails.  After the first one the pages before are in the archive and not
\* in the ledger, and the archive's window is never closed.
FetchBroken(from, part) ==
  /\ phase = "idle" /\ phase' = "fetched"
  /\ part \subseteq Since(AtBank("booked"), from)
  /\ \/ part = {} /\ UNCHANGED queue
     \/ queue' = Append(queue, [from |-> from, booked |-> part, pending |-> {},
                                truncated |-> TRUE])
  /\ hit' = FALSE
  /\ UNCHANGED <<day, session, bank, ledger, backfilled, disk, archive,
                 lostBatch, behind>>

\* The queue is taken and written; when the write fails it is gone.
Flush(written) ==
  /\ phase = "fetched" /\ phase' = "flushed"
  /\ queue' = <<>>
  /\ archive' = IF written THEN archive \o queue ELSE archive
  /\ lostBatch' = (lostBatch \/ ~written)
  /\ behind' = [behind EXCEPT !.disk = @ \/ queue # <<>>]
  /\ UNCHANGED <<day, session, bank, ledger, backfilled, disk, hit>>

Write(saved, entries) ==
  disk' = IF saved THEN [ledger |-> entries, backfilled |-> backfilled] ELSE disk

\* The ledger is written, whether or not the account answered.
Save(saved) ==
  /\ phase = "flushed" /\ phase' = "idle"
  /\ Write(saved, ledger)
  /\ behind' = [behind EXCEPT !.disk = IF saved THEN behind.memory ELSE @]
  /\ hit' = FALSE
  /\ UNCHANGED <<day, session, bank, ledger, backfilled, queue, archive, lostBatch>>

-----------------------------------------------------------------------------
(* Rebuild and restart *)

\* The user's rebuild, under the refresh lock; the ledger in memory is replaced
\* before it is written.
Rebuild(saved) ==
  /\ phase = "idle" /\ archive # <<>>
  /\ ledger' = Rebuilt(ledger, archive)
  /\ Write(saved, ledger')
  /\ behind' = [memory |-> FALSE, disk |-> ~saved /\ behind.disk]
  /\ UNCHANGED <<day, session, bank, backfilled, queue, archive, phase, hit, lostBatch>>

\* Home Assistant stops at any point and comes back with what is on disk; a new
\* processing version rebuilds the ledger before anything else.
Restart(upgraded) ==
  LET loaded == IF upgraded THEN Rebuilt(disk.ledger, archive) ELSE disk.ledger
  IN /\ ledger' = loaded
     /\ backfilled' = disk.backfilled
     /\ disk' = [disk EXCEPT !.ledger = loaded]
     /\ queue' = <<>> /\ phase' = "idle" /\ hit' = FALSE
     /\ LET lacking == behind.disk /\ ~upgraded
        IN behind' = [memory |-> lacking, disk |-> lacking]
     /\ UNCHANGED <<day, session, bank, archive, lostBatch>>

-----------------------------------------------------------------------------
\* The old version's plaintext cache was moved into the ledger, the archive is
\* empty.
LegacyEntries ==
  Prepare({[pay |-> p, date |-> 0] : p \in Legacy}, "booked")

Init ==
  /\ day = FirstDay /\ session = 1
  /\ bank = [p \in Payments |->
               [status |-> IF p \in Legacy THEN "booked" ELSE "absent", date |-> 0]]
  /\ ledger = LegacyEntries /\ backfilled = 0
  /\ disk = [ledger |-> ledger, backfilled |-> 0]
  /\ queue = <<>> /\ archive = <<>>
  /\ phase = "idle" /\ hit = FALSE
  /\ lostBatch = FALSE /\ behind = [memory |-> FALSE, disk |-> FALSE]

BankStep ==
  \/ \E p \in Payments : Announce(p) \/ Cancel(p)
  \/ \E p \in Payments, date \in (day - Overlap)..day : Book(p, date) \/ Redate(p, date)
  \/ NextDay \/ Relink

Fetch ==
  \E attended \in BOOLEAN, limit \in Limits, days \in Asked :
    LET from == RequestFrom(attended, limit, days)
    IN \/ \E depth \in Depths : FetchAll(attended, from, depth)
       \/ \E part \in SUBSET AtBank("booked") :
            FetchPart(attended, from, part) \/ FetchBroken(from, part)

Next ==
  \/ BankStep \/ Fetch
  \/ \E done \in BOOLEAN : Flush(done) \/ Save(done) \/ Rebuild(done) \/ Restart(done)

Spec == Init /\ [][Next]_vars

-----------------------------------------------------------------------------
(* Properties *)

\* The state is well-typed: the manager's fields and what the stores hold.
TypeOK ==
  /\ day \in Nat /\ session \in Nat /\ backfilled \in Nat
  /\ bank \in [Payments -> BankStates]
  /\ ledger \subseteq Entries
  /\ disk \in [ledger : SUBSET Entries, backfilled : Nat]
  /\ queue \in Seq(Windows) /\ archive \in Seq(Windows)
  /\ phase \in {"idle", "fetched", "flushed"} /\ hit \in BOOLEAN
  /\ lostBatch \in BOOLEAN /\ behind \in [memory : BOOLEAN, disk : BOOLEAN]

\* The ids of booked entries are distinct: a payment with the bank's id is booked
\* once whatever dates the bank gives it, and identical ones without are numbered,
\* also across windows that cut their day.  A payment without an id that the bank
\* dates anew is another payment to fingerprint() and may stand under both days.
UniqueBooked == Distinct(ledger)

\* What payment an entry or a transaction is of: the bank's id, or what and when,
\* which identical payments share.
KeyOf(e) == IF Len(e.lid) = 1 THEN e.lid ELSE <<e.what, e.date>>

BankKeyOf(t) == IF Tid[t.pay] # NoTid THEN <<Tid[t.pay]>> ELSE Fingerprint(t)

Copies(entries, key) == Cardinality({e \in Booked(entries) : KeyOf(e) = key})

BankCopies(transactions, key) == Cardinality({t \in transactions : BankKeyOf(t) = key})

\* new has fewer of some booked payment than old had and fewer than the bank books.
Loses(old, new, atBank) ==
  \E key \in {KeyOf(e) : e \in Booked(old)} :
    /\ Copies(new, key) < Copies(old, key)
    /\ Copies(new, key) < BankCopies(atBank, key)

\* What the bank books, but for a payment it dates before the start of a span that
\* has it inside in the ledger.
Unmoved(entries, start) ==
  {t \in AtBank("booked") :
     t.date < start => \A e \in Booked(entries) : KeyOf(e) = BankKeyOf(t) => e.date < start}

\* A complete answer is mirrored over the span it is evidence for: every payment
\* of it as often as the bank has it (two coffees are two coffees), and none that
\* the bank took back.
MirrorsTheBank ==
  [][phase = "idle" /\ phase' = "fetched" /\ hit' =>
       LET w == Last(queue')
       IN ~w.truncated =>
            /\ \A t \in w.booked :
                 Copies(ledger', BankKeyOf(t)) = BankCopies(w.booked, BankKeyOf(t))
            /\ \A e \in Booked(ledger') :
                 e.date >= ReportedFrom(w.from, w.booked) =>
                   BankCopies(w.booked, KeyOf(e)) > 0]_vars

\* What an answer that begins at reach leaves out and reported_from cannot see: the
\* start of the request, when at most ShortAnswer days of it are missing or the
\* answer, not marked as truncated, has nothing at all.
Unsaid(w, reach) ==
  IF w.truncated \/ (reach - w.from > ShortAnswer /\ w.booked # {}) THEN {}
  ELSE {t \in AtBank("booked") : t.date >= w.from /\ t.date < reach}

\* The days an answer may begin on, as far back as the bank goes.
Reaches(w) ==
  {reach \in {Max({w.from, day - depth}) : depth \in Depths} :
     w.booked = Since(AtBank("booked"), reach)}

\* No answer makes the ledger forget a payment that the bank still books: not one
\* that breaks off, that is empty where the history was asked for, or that is far
\* shorter than the request.  Two kinds of payment are exempt, and the code does drop
\* them: those that the bank dated back out of the span the answer is evidence for,
\* and those that an answer which is a little shorter than the request, or empty and
\* not marked as broken, leaves out without a sign (Unsaid).
NeverForgets ==
  [][phase = "idle" /\ phase' = "fetched" /\ hit' =>
       LET w == Last(queue')
           told == Unmoved(ledger, ReportedFrom(w.from, w.booked))
       IN /\ w.truncated => ~Loses(ledger, ledger', told)
          /\ \A reach \in Reaches(w) :
               ~Loses(ledger, ledger', told \ Unsaid(w, reach))]_vars

\* "Raw first, then the ledger": once the archive is written, a crash or a failed
\* ledger write costs no booked payment; a rebuild of what is on disk then has every
\* one that is in memory.  It takes an archive of complete windows without a lost
\* batch; RebuildKeepsHistory shows why.
RestartRecovers ==
  /\ phase # "fetched" /\ ~lostBatch /\ ~behind.memory
  /\ \A i \in DOMAIN archive : ~archive[i].truncated
  => Booked(ledger) \subseteq Rebuilt(disk.ledger, archive)

\* reprocess.py on history the archive does not cover: carried over from the
\* previous ledger, "so a rebuild never shortens the history".
RebuildKeepsHistory ==
  [][\A saved \in BOOLEAN : Rebuild(saved) => ~Loses(ledger, ledger', AtBank("booked"))]_vars
=============================================================================
