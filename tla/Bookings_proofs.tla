---------------------------- MODULE Bookings_proofs ----------------------------
(***************************************************************************)
(* What is proved of the bookings, in two parts that share the lemmas on   *)
(* numbers and lists.                                                      *)
(*                                                                         *)
(* LedgerHistory: what one answer, and one rebuild, do to a ledger, and    *)
(* what every step of the history leaves of it, for any payments, answers, *)
(* faults and days.                                                        *)
(*                                                                         *)
(* Transfers (from "Stages" on): what is found in a book of bookings, for  *)
(* any accounts, bookings, tolerances and windows.  Everything is derived  *)
(* from the whole book, so the invariant TInv says of the state only that  *)
(* the book is a list of bookings; the rest is about the derivation, a     *)
(* recursion over the places.  Each of them (pairs, a string of pairs, the *)
(* list of strings, refunds) is shown to exist stage by stage              *)
(* (StagesExist) and to stay in a set of lists (StagesKeep): PairLists,    *)
(* whose pairs have their outgoing booking at a place already passed, so   *)
(* no id is used twice; Strings and StringLists; RefundLists.              *)
(***************************************************************************)
EXTENDS LedgerHistory, Transfers, FiniteSetTheorems, TLAPS

-----------------------------------------------------------------------------
(* Induction over the natural numbers, for sets of numbers *)

LT == {pair \in Nat \X Nat : pair[1] < pair[2]}

LEMMA Smallest ==
  ASSUME NEW T \in SUBSET Nat, T # {}
  PROVE  \E n \in T : \A m \in T : n <= m
<1>1. IsWellFoundedOn(LT, Nat)
  BY NatLessThanWellFounded DEF OpToRel, LT
<1>2. PICK x \in T : \A y \in T : ~(<<y, x>> \in LT)
  BY <1>1, WFMin
<1>3. \A y \in T : ~(y < x)
  BY <1>2 DEF LT
<1> QED
  BY <1>3

LEMMA SetInduction ==
  ASSUME NEW G, 0 \in G, \A k \in Nat : k \in G => k + 1 \in G
  PROVE  \A n \in Nat : n \in G
<1> SUFFICES ASSUME Nat \ G # {} PROVE FALSE
  OBVIOUS
<1>1. PICK n \in Nat \ G : \A m \in Nat \ G : n <= m
  BY Smallest
<1>2. n # 0 /\ n - 1 \in Nat /\ ~(n <= n - 1)
  BY <1>1
<1>3. n - 1 \in G
  BY <1>1, <1>2
<1> QED
  BY <1>1, <1>2, <1>3

-----------------------------------------------------------------------------
(* One answer *)

\* An answer names a payment once.
Batch(b) ==
  /\ b \subseteq Transactions /\ IsFiniteSet(b)
  /\ \A t, u \in b : t.pay = u.pay => t = u

Twins(b, t) ==
  {u \in b : /\ Tid[u.pay] = NoTid
             /\ Fingerprint(u) = Fingerprint(t)
             /\ Rank[u.pay] < Rank[t.pay]}

-----------------------------------------------------------------------------
\* Of two identical payments without an id the later one has more before it.
LEMMA LaterTwin ==
  ASSUME NEW b, Batch(b), NEW t \in b, NEW u \in b,
         Tid[t.pay] = NoTid, Fingerprint(t) = Fingerprint(u),
         Rank[t.pay] < Rank[u.pay]
  PROVE  Cardinality(Twins(b, t)) # Cardinality(Twins(b, u))
<1>1. IsFiniteSet(Twins(b, u))
  BY FS_Subset DEF Batch, Twins
<1>2. \A v \in b : Rank[v.pay] \in Nat
  BY LedgerAssumption DEF Batch, Transactions
<1>3. Twins(b, t) \subseteq Twins(b, u)
  <2> SUFFICES ASSUME NEW v \in Twins(b, t) PROVE v \in Twins(b, u)
    OBVIOUS
  <2>1. Rank[v.pay] < Rank[u.pay]
    BY <1>2 DEF Twins
  <2> QED
    BY <2>1 DEF Twins
<1>4. t \in Twins(b, u)
  BY DEF Twins
<1>5. t \notin Twins(b, t)
  BY <1>2 DEF Twins
<1> QED
  BY <1>1, <1>3, <1>4, <1>5, FS_Subset

\* Within one answer a ledger id names one transaction.
LEMMA IdsAreDistinct ==
  ASSUME NEW b, Batch(b), NEW t \in b, NEW u \in b,
         LedgerId(b, t) = LedgerId(b, u)
  PROVE  t = u
<1>1. t.pay \in Payments /\ u.pay \in Payments
  BY DEF Batch, Transactions
<1>2. CASE Tid[t.pay] # NoTid /\ Tid[u.pay] # NoTid
  <2>1. <<Tid[t.pay]>> = <<Tid[u.pay]>>
    BY <1>2 DEF LedgerId
  <2> QED
    BY <1>1, <1>2, <2>1, LedgerAssumption DEF Batch
<1>3. CASE Tid[t.pay] # NoTid /\ Tid[u.pay] = NoTid
  <2>1. <<Tid[t.pay]>> = <<Fingerprint(u), Cardinality(Twins(b, u))>>
    BY <1>3 DEF LedgerId, Twins
  <2> QED
    BY <2>1
<1>4. CASE Tid[t.pay] = NoTid /\ Tid[u.pay] # NoTid
  <2>1. <<Tid[u.pay]>> = <<Fingerprint(t), Cardinality(Twins(b, t))>>
    BY <1>4 DEF LedgerId, Twins
  <2> QED
    BY <2>1
<1>5. CASE Tid[t.pay] = NoTid /\ Tid[u.pay] = NoTid
  <2>1. <<Fingerprint(t), Cardinality(Twins(b, t))>>
          = <<Fingerprint(u), Cardinality(Twins(b, u))>>
    BY <1>5 DEF LedgerId, Twins
  <2>2. ~(Rank[t.pay] < Rank[u.pay]) /\ ~(Rank[u.pay] < Rank[t.pay])
    BY <1>5, <2>1, LaterTwin
  <2>3. Rank[t.pay] = Rank[u.pay]
    BY <1>1, <2>2, LedgerAssumption
  <2> QED
    BY <1>1, <2>3, LedgerAssumption DEF Batch
<1> QED
  BY <1>2, <1>3, <1>4, <1>5

\* The entries of one answer have ids of their own.
LEMMA FreshIsDistinct ==
  ASSUME NEW b, Batch(b)
  PROVE  Distinct(Prepare(b, "booked"))
<1> SUFFICES ASSUME NEW e \in Prepare(b, "booked"), NEW f \in Prepare(b, "booked"), e.lid = f.lid
             PROVE  e = f
  BY DEF Distinct, Booked
<1>1. PICK t \in b, u \in b :
        /\ e = [lid |-> LedgerId(b, t), what |-> What[t.pay], date |-> t.date, status |-> "booked"]
        /\ f = [lid |-> LedgerId(b, u), what |-> What[u.pay], date |-> u.date, status |-> "booked"]
  BY DEF Prepare
<1>2. t = u
  BY <1>1, IdsAreDistinct
<1> QED
  BY <1>1, <1>2

\* Of what an answer leaves in the ledger, the booked entries are those kept and
\* those delivered.
LEMMA BookedAfter ==
  ASSUME NEW entries, NEW w
  PROVE  Booked(Ingest(entries, w)) = Kept(entries, w) \cup Prepare(w.booked, "booked")
<1>1. \A e \in Kept(entries, w) \cup Prepare(w.booked, "booked") : e.status = "booked"
  BY DEF Kept, Booked, Prepare
<1>2. \A e \in Waiting(w) : e.status # "booked"
  BY DEF Waiting, Prepare
<1> QED
  BY <1>1, <1>2 DEF Booked, Ingest

\* One answer merged into a ledger leaves no two booked entries of one id: also
\* when identical payments share a fingerprint or a payment is dated anew.
THEOREM IngestKeepsDistinct ==
  ASSUME NEW entries, Distinct(entries), NEW w, Batch(w.booked)
  PROVE  Distinct(Ingest(entries, w))
<1> DEFINE fresh == Prepare(w.booked, "booked")
<1> SUFFICES ASSUME NEW e \in Kept(entries, w) \cup fresh,
                    NEW f \in Kept(entries, w) \cup fresh,
                    e.lid = f.lid
             PROVE  e = f
  BY BookedAfter DEF Distinct
<1>1. CASE e \in Kept(entries, w) /\ f \in Kept(entries, w)
  BY <1>1 DEF Kept, Distinct
<1>2. CASE e \in fresh /\ f \in fresh
  <2>1. Distinct(fresh) /\ e \in Booked(fresh) /\ f \in Booked(fresh)
    BY <1>2, FreshIsDistinct DEF Booked, Prepare
  <2> QED
    BY <2>1 DEF Distinct
<1>3. CASE e \in Kept(entries, w) /\ f \in fresh
  BY <1>3 DEF Kept, LidsOf
<1>4. CASE e \in fresh /\ f \in Kept(entries, w)
  BY <1>4 DEF Kept, LidsOf
<1> QED
  BY <1>1, <1>2, <1>3, <1>4

\* An answer says nothing of what was booked before the span it is evidence for,
\* a truncated one of nothing it does not hold: such a payment stays.
LEMMA IngestKeepsHistory ==
  ASSUME NEW entries, NEW w, NEW e \in Booked(entries),
         w.truncated \/ e.date < ReportedFrom(w.from, w.booked)
  PROVE  \E f \in Booked(Ingest(entries, w)) : f.lid = e.lid
<1> DEFINE ids == LidsOf(Prepare(w.booked, "booked"))
<1>1. CASE e.lid \in ids
  BY <1>1, BookedAfter DEF LidsOf
<1>2. CASE e.lid \notin ids
  BY <1>2, BookedAfter DEF Kept
<1> QED
  BY <1>1, <1>2

-----------------------------------------------------------------------------
(* Finite sets of numbers and of days *)

\* A finite set of numbers has a greatest and a smallest one.
LEMMA Extremes ==
  ASSUME NEW S \in SUBSET Int, IsFiniteSet(S), S # {}
  PROVE  /\ Max(S) \in S /\ \A y \in S : Max(S) >= y
         /\ Min(S) \in S /\ \A y \in S : Min(S) <= y
<1>1. PICK n \in Nat : ExistsSurjection(1 .. n, S)
  BY FS_NatSurjection
<1>2. PICK f \in [1 .. n -> S] : \A y \in S : \E i \in 1 .. n : f[i] = y
  BY <1>1 DEF ExistsSurjection, Surjection
<1>3. n # 0 /\ \A i \in 1 .. n : f[i] \in S /\ f[i] \in Int
  <2>1. PICK i \in 1 .. n : f[i] \in S
    BY <1>2
  <2>2. n # 0
    BY <2>1
  <2> QED
    BY <1>2, <2>2
<1> DEFINE Above(k) == \E x \in S : \A i \in 1 .. k : x >= f[i]
           BoundedBelow(k) == \E x \in S : \A i \in 1 .. k : x <= f[i]
           G == {k \in Nat : k <= n => Above(k) /\ BoundedBelow(k)}
<1>4. 0 \in G
  <2>1. 1 .. 0 = {}
    OBVIOUS
  <2>2. Above(0) /\ BoundedBelow(0)
    BY <2>1
  <2> HIDE DEF Above, BoundedBelow
  <2> QED
    BY <2>2
<1>5. ASSUME NEW k \in Nat, k \in G PROVE k + 1 \in G
  <2> HIDE DEF Above, BoundedBelow
  <2> SUFFICES ASSUME k + 1 <= n PROVE Above(k + 1) /\ BoundedBelow(k + 1)
    OBVIOUS
  <2>1. Above(k) /\ BoundedBelow(k)
    BY <1>5
  <2>2. PICK x \in S : \A i \in 1 .. k : x >= f[i]
    BY <2>1 DEF Above
  <2>3. PICK z \in S : \A i \in 1 .. k : z <= f[i]
    BY <2>1 DEF BoundedBelow
  <2>4. \A i \in 1 .. k : x >= f[i] /\ z <= f[i]
    BY <2>2, <2>3
  <2>5. f[k + 1] \in S /\ x \in Int /\ z \in Int /\ f[k + 1] \in Int
    BY <1>3
  <2>6. \A i \in 1 .. k + 1 : i \in 1 .. k \/ i = k + 1
    OBVIOUS
  <2>7. \E v \in S : \A i \in 1 .. k + 1 : v >= f[i]
    <3>1. CASE x >= f[k + 1]
      BY <2>4, <2>5, <2>6, <3>1
    <3>2. CASE f[k + 1] > x
      <4>1. \A i \in 1 .. k + 1 : f[k + 1] >= f[i]
        BY <1>3, <2>4, <2>5, <2>6, <3>2
      <4> QED
        BY <2>5, <4>1
    <3> QED
      BY <2>5, <3>1, <3>2
  <2>8. \E v \in S : \A i \in 1 .. k + 1 : v <= f[i]
    <3>1. CASE z <= f[k + 1]
      BY <2>4, <2>5, <2>6, <3>1
    <3>2. CASE f[k + 1] < z
      <4>1. \A i \in 1 .. k + 1 : f[k + 1] <= f[i]
        BY <1>3, <2>4, <2>5, <2>6, <3>2
      <4> QED
        BY <2>5, <4>1
    <3> QED
      BY <2>5, <3>1, <3>2
  <2> QED
    BY <2>7, <2>8 DEF Above, BoundedBelow
<1> HIDE DEF G, Above, BoundedBelow
<1>6. n \in G
  BY <1>4, <1>5, SetInduction
<1>7. Above(n) /\ BoundedBelow(n)
  BY <1>6 DEF G
<1>8. PICK x \in S : \A i \in 1 .. n : x >= f[i]
  BY <1>7 DEF Above
<1>9. PICK z \in S : \A i \in 1 .. n : z <= f[i]
  BY <1>7 DEF BoundedBelow
<1>10. \A i \in 1 .. n : x >= f[i] /\ z <= f[i]
  BY <1>8, <1>9
<1>11. (\A y \in S : x >= y) /\ (\A y \in S : z <= y)
  BY <1>2, <1>10
<1> QED
  BY <1>11 DEF Max, Min

\* A function takes finitely many values on a finite set.
LEMMA ImageIsFinite ==
  ASSUME NEW f, IsFiniteSet(DOMAIN f), f \in [DOMAIN f -> Range(f)]
  PROVE  IsFiniteSet(Range(f))
<1>1. f \in Surjection(DOMAIN f, Range(f))
  BY DEF Surjection, Range
<1> QED
  BY <1>1, FS_Surjection

LEMMA DatesAreFinite ==
  ASSUME NEW S, IsFiniteSet(S)
  PROVE  IsFiniteSet({x.date : x \in S})
<1> DEFINE f == [x \in S |-> x.date]
           T == {x.date : x \in S}
<1>1. DOMAIN f = S /\ Range(f) = T /\ f \in [S -> T]
  BY DEF Range
<1> HIDE DEF f, T
<1>2. IsFiniteSet(Range(f))
  BY <1>1, ImageIsFinite
<1> QED
  BY <1>1, <1>2 DEF T

\* The span of an answer starts on a day, not after its first transaction.
LEMMA Span ==
  ASSUME NEW from \in Int, NEW b \in SUBSET Transactions, IsFiniteSet(b)
  PROVE  /\ ReportedFrom(from, b) \in Int
         /\ (\A t \in b : t.date >= from) => \A t \in b : ReportedFrom(from, b) <= t.date
<1> DEFINE dates == {t.date : t \in b}
<1>1. \A t \in b : t.date \in Int
  BY DEF Transactions
<1>2. dates \in SUBSET Int /\ IsFiniteSet(dates)
  BY <1>1, DatesAreFinite
<1>3. b # {} => Min(dates) \in dates /\ \A y \in dates : Min(dates) <= y
  <2>1. b # {} => dates # {}
    OBVIOUS
  <2> HIDE DEF dates
  <2> QED
    BY <1>2, <2>1, Extremes
<1>4. b # {} => Min(dates) \in Int /\ \A t \in b : Min(dates) <= t.date
  BY <1>2, <1>3
<1> HIDE DEF dates
<1>5. \/ ReportedFrom(from, b) = from
      \/ b # {} /\ ReportedFrom(from, b) = Min(dates)
  BY DEF ReportedFrom, dates
<1> QED
  BY <1>1, <1>4, <1>5

LEMMA FirstOfAnswer ==
  ASSUME NEW b \in SUBSET Transactions, IsFiniteSet(b), b # {}
  PROVE  \E t \in b : Min({u.date : u \in b}) = t.date
<1> DEFINE dates == {t.date : t \in b}
<1>1. dates \in SUBSET Int /\ IsFiniteSet(dates) /\ dates # {}
  BY DatesAreFinite DEF Transactions
<1> HIDE DEF dates
<1>2. Min(dates) \in dates
  BY <1>1, Extremes
<1> QED
  BY <1>2 DEF dates

-----------------------------------------------------------------------------
(* Sound ledgers *)

\* The entry a transaction of an answer is prepared into.
Prepared(batch, t, status) ==
  [lid |-> LedgerId(batch, t), what |-> What[t.pay], date |-> t.date, status |-> status]

\* The windows a bank with finitely many payments answers with.
Answers ==
  {w \in Windows : /\ Batch(w.booked) /\ IsFiniteSet(w.pending)
                   /\ \A t \in w.booked : t.date >= w.from}

\* An id that is not the bank's begins with what and when.
Labelled(entries) == \A e \in entries : Len(e.lid) = 1 \/ e.lid[1] = <<e.what, e.date>>

Sound(entries) ==
  entries \subseteq Entries /\ IsFiniteSet(entries) /\ Distinct(entries) /\ Labelled(entries)

\* What an answer is prepared into is typed and no more than the answer.
LEMMA PreparedIsTyped ==
  ASSUME NEW b \in SUBSET Transactions, IsFiniteSet(b), NEW status \in {"booked", "pending"}
  PROVE  /\ Prepare(b, status) \subseteq Entries /\ IsFiniteSet(Prepare(b, status))
         /\ Labelled(Prepare(b, status))
<1> DEFINE f == [t \in b |-> Prepared(b, t, status)]
           T == {Prepared(b, t, status) : t \in b}
<1>1. Prepare(b, status) = T
  BY DEF Prepare, Prepared
<1>2. DOMAIN f = b /\ T = Range(f) /\ f \in [b -> T]
  BY DEF Range
<1>3. IsFiniteSet(T)
  <2> HIDE DEF f, T
  <2>1. IsFiniteSet(Range(f))
    BY <1>2, ImageIsFinite
  <2> QED
    BY <1>2, <2>1
<1>4. ASSUME NEW t \in b PROVE Prepared(b, t, status) \in Entries
  <2>1. t.pay \in Payments /\ t.date \in Int
    BY DEF Transactions
  <2>2. What[t.pay] \in Whats
    BY <2>1 DEF Whats
  <2>3. IsFiniteSet(Twins(b, t))
    BY FS_Subset DEF Twins
  <2>4. Cardinality(Twins(b, t)) \in Nat
    BY <2>3, FS_CardinalityType
  <2>5. \/ LedgerId(b, t) = <<Tid[t.pay]>>
        \/ LedgerId(b, t) = <<<<What[t.pay], t.date>>, Cardinality(Twins(b, t))>>
    BY DEF LedgerId, Twins, Fingerprint
  <2>6. LedgerId(b, t) \in {<<Tid[p]>> : p \in Payments} \cup ((Whats \X Int) \X Nat)
    BY <2>1, <2>2, <2>4, <2>5
  <2> QED
    BY <2>1, <2>2, <2>6 DEF Prepared, Entries
<1>5. Labelled(T)
  <2> SUFFICES ASSUME NEW t \in b
               PROVE  \/ Len(LedgerId(b, t)) = 1
                      \/ LedgerId(b, t)[1] = <<What[t.pay], t.date>>
    BY DEF Labelled, Prepared
  <2>1. \/ LedgerId(b, t) = <<Tid[t.pay]>>
        \/ LedgerId(b, t) = <<<<What[t.pay], t.date>>, Cardinality(Twins(b, t))>>
    BY DEF LedgerId, Twins, Fingerprint
  <2> QED
    BY <2>1
<1> QED
  BY <1>1, <1>3, <1>4, <1>5

\* One answer merged into a sound ledger leaves a sound one.
LEMMA IngestIsSound ==
  ASSUME NEW entries, Sound(entries), NEW w \in Answers
  PROVE  Sound(Ingest(entries, w))
<1>1. /\ w.booked \in SUBSET Transactions /\ w.pending \in SUBSET Transactions
      /\ Batch(w.booked) /\ IsFiniteSet(w.booked) /\ IsFiniteSet(w.pending)
  BY DEF Answers, Windows, Batch
<1>2. Distinct(Ingest(entries, w))
  BY <1>1, IngestKeepsDistinct DEF Sound
<1>3. /\ Prepare(w.booked, "booked") \subseteq Entries
      /\ IsFiniteSet(Prepare(w.booked, "booked")) /\ Labelled(Prepare(w.booked, "booked"))
  BY <1>1, PreparedIsTyped
<1>4. /\ Prepare(w.pending, "pending") \subseteq Entries
      /\ IsFiniteSet(Prepare(w.pending, "pending")) /\ Labelled(Prepare(w.pending, "pending"))
  BY <1>1, PreparedIsTyped
<1>5. Kept(entries, w) \subseteq entries
  BY DEF Kept, Booked
<1>6. Waiting(w) \subseteq Prepare(w.pending, "pending")
  BY DEF Waiting
<1>7. IsFiniteSet(Kept(entries, w)) /\ IsFiniteSet(Waiting(w))
  BY <1>4, <1>5, <1>6, FS_Subset DEF Sound
<1>8. IsFiniteSet(Ingest(entries, w))
  <2>1. IsFiniteSet(Kept(entries, w) \cup Prepare(w.booked, "booked"))
    BY <1>3, <1>7, FS_Union
  <2> QED
    BY <1>7, <2>1, FS_Union DEF Ingest
<1>9. Ingest(entries, w) \subseteq Entries
  BY <1>3, <1>4, <1>5, <1>6 DEF Ingest, Sound
<1>10. Labelled(Ingest(entries, w))
  BY <1>3, <1>4, <1>5, <1>6 DEF Ingest, Sound, Labelled
<1> QED
  BY <1>2, <1>8, <1>9, <1>10 DEF Sound

LEMMA EmptyIsSound == Sound({})
  BY FS_EmptySet DEF Sound, Distinct, Booked, Labelled

LEMMA Appended ==
  ASSUME NEW T, NEW s \in Seq(T), NEW w \in T
  PROVE  /\ Append(s, w) \in Seq(T) /\ Len(Append(s, w)) = Len(s) + 1
         /\ Append(s, w)[Len(s) + 1] = w /\ \A i \in 1 .. Len(s) : Append(s, w)[i] = s[i]
         /\ Len(s) \in Nat /\ DOMAIN Append(s, w) = 1 .. Len(s) + 1
         /\ s \o <<w>> = Append(s, w)
  OBVIOUS

\* The ledgers a replay goes through.
Stages(f, windows) ==
  /\ f[0] = {}
  /\ \A k \in Nat : k + 1 <= Len(windows) => f[k + 1] = Ingest(f[k], windows[k + 1])

\* The archive is replayed window by window.
LEMMA ReplayInStages ==
  ASSUME NEW windows \in Seq(Answers)
  PROVE  \E f : Stages(f, windows) /\ Replay(windows) = f[Len(windows)]
<1> DEFINE body(f, i) == IF i = 0 THEN {} ELSE Ingest(f[i - 1], windows[i])
           Graph(f, k) == f = [i \in 0 .. k |-> body(f, i)]
           after == CHOOSE f : Graph(f, Len(windows))
<1>1. Len(windows) \in Nat
  OBVIOUS
<1>2. Replay(windows) = after[Len(windows)]
  BY DEF Replay
<1>3. \A f, g, i : i # 0 /\ f[i - 1] = g[i - 1] => body(f, i) = body(g, i)
  OBVIOUS
<1>4. \A f, g : body(f, 0) = body(g, 0)
  OBVIOUS
<1>5. \A f : body(f, 0) = {}
  OBVIOUS
<1>6. \A f : \A k \in Nat : body(f, k + 1) = Ingest(f[k], windows[k + 1])
  <2> SUFFICES ASSUME NEW f, NEW k \in Nat
               PROVE  body(f, k + 1) = Ingest(f[k], windows[k + 1])
    OBVIOUS
  <2>1. k + 1 # 0 /\ (k + 1) - 1 = k
    OBVIOUS
  <2> QED
    BY <2>1
<1> HIDE DEF body, after
<1> DEFINE Made == {k \in Nat : \E f : Graph(f, k)}
<1>7. \A k \in Nat : k \in Made
  <2>1. 0 \in Made
    <3> DEFINE g == [i \in 0 .. 0 |-> {}]
    <3>1. \A i \in 0 .. 0 : body(g, i) = {}
      BY <1>5
    <3>2. Graph(g, 0)
      BY <3>1
    <3> QED
      BY <3>2
  <2>2. ASSUME NEW k \in Nat, k \in Made PROVE k + 1 \in Made
    <3>1. PICK f : Graph(f, k)
      BY <2>2
    <3> DEFINE g == [i \in 0 .. k + 1 |-> IF i = k + 1 THEN body(f, i) ELSE f[i]]
    <3>2. ASSUME NEW i \in 0 .. k + 1 PROVE g[i] = body(g, i)
      <4>1. CASE i = k + 1
        <5>1. g[i] = body(f, i) /\ g[i - 1] = f[i - 1] /\ i # 0
          BY <4>1
        <5> HIDE DEF g
        <5> QED
          BY <1>3, <5>1
      <4>2. CASE i # k + 1
        <5>1. i \in 0 .. k /\ g[i] = f[i]
          BY <4>2
        <5>2. f[i] = body(f, i)
          BY <3>1, <5>1
        <5>3. i # 0 => g[i - 1] = f[i - 1]
          BY <5>1
        <5> HIDE DEF g
        <5> QED
          BY <1>3, <1>4, <5>1, <5>2, <5>3
      <4> QED
        BY <4>1, <4>2
    <3>3. g = [i \in 0 .. k + 1 |-> g[i]]
      OBVIOUS
    <3> HIDE DEF g
    <3>4. Graph(g, k + 1)
      BY <3>2, <3>3
    <3> QED
      BY <3>4
  <2> HIDE DEF Made
  <2> QED
    BY <2>1, <2>2, SetInduction
<1>8. Graph(after, Len(windows))
  BY <1>1, <1>7 DEF after
<1>9. \A i \in 0 .. Len(windows) : after[i] = body(after, i)
  BY <1>8
<1>10. Stages(after, windows)
  BY <1>1, <1>5, <1>6, <1>9 DEF Stages
<1> QED
  BY <1>2, <1>10

LEMMA ReplayOfNone == Replay(<<>>) = {}
<1>1. <<>> \in Seq(Answers) /\ Len(<<>>) = 0
  OBVIOUS
<1>2. PICK f : Stages(f, <<>>) /\ Replay(<<>>) = f[0]
  BY <1>1, ReplayInStages
<1> QED
  BY <1>2 DEF Stages

\* One more window is merged into what the others left.
LEMMA ReplayOfOneMore ==
  ASSUME NEW windows \in Seq(Answers), NEW w \in Answers
  PROVE  Replay(Append(windows, w)) = Ingest(Replay(windows), w)
<1> DEFINE more == Append(windows, w)
           n == Len(windows)
<1>1. /\ more \in Seq(Answers) /\ Len(more) = n + 1 /\ n \in Nat
      /\ more[n + 1] = w /\ \A i \in 1 .. n : more[i] = windows[i]
  BY Appended
<1>2. PICK f : Stages(f, windows) /\ Replay(windows) = f[n]
  BY ReplayInStages
<1> HIDE DEF more
<1>3. PICK g : Stages(g, more) /\ Replay(more) = g[n + 1]
  BY <1>1, ReplayInStages
<1> HIDE DEF n
<1> DEFINE Same == {k \in Nat : k <= n => f[k] = g[k]}
<1>4. 0 \in Same
  BY <1>2, <1>3 DEF Stages
<1>5. ASSUME NEW k \in Nat, k \in Same PROVE k + 1 \in Same
  <2> SUFFICES ASSUME k + 1 <= n PROVE f[k + 1] = g[k + 1]
    OBVIOUS
  <2>1. f[k] = g[k] /\ k + 1 <= n + 1 /\ k + 1 \in 1 .. n
    BY <1>1, <1>5
  <2>2. f[k + 1] = Ingest(f[k], windows[k + 1])
    BY <1>2 DEF Stages, n
  <2>3. g[k + 1] = Ingest(g[k], more[k + 1])
    BY <1>1, <1>3, <2>1 DEF Stages
  <2> QED
    BY <1>1, <2>1, <2>2, <2>3
<1> HIDE DEF Same
<1>6. n \in Same
  BY <1>1, <1>4, <1>5, SetInduction
<1>7. f[n] = g[n]
  BY <1>1, <1>6 DEF Same
<1>8. g[n + 1] = Ingest(g[n], w)
  <2>1. n + 1 <= Len(more)
    BY <1>1
  <2> QED
    BY <1>1, <1>3, <2>1 DEF Stages
<1> QED
  BY <1>2, <1>3, <1>7, <1>8 DEF more

\* Each window is merged into a sound ledger.
LEMMA ReplayIsSound ==
  ASSUME NEW windows \in Seq(Answers)
  PROVE  Sound(Replay(windows))
<1>1. Len(windows) \in Nat
  OBVIOUS
<1>2. PICK f : Stages(f, windows) /\ Replay(windows) = f[Len(windows)]
  BY ReplayInStages
<1> DEFINE Good == {k \in Nat : k <= Len(windows) => Sound(f[k])}
<1>3. 0 \in Good
  BY <1>2, EmptyIsSound DEF Stages
<1>4. ASSUME NEW k \in Nat, k \in Good PROVE k + 1 \in Good
  <2> SUFFICES ASSUME k + 1 <= Len(windows) PROVE Sound(f[k + 1])
    OBVIOUS
  <2>1. Sound(f[k])
    BY <1>1, <1>4
  <2>2. windows[k + 1] \in Answers
    BY <1>1
  <2>3. Sound(Ingest(f[k], windows[k + 1]))
    BY <2>1, <2>2, IngestIsSound
  <2> QED
    BY <1>2, <2>3 DEF Stages
<1> HIDE DEF Good
<1>5. Len(windows) \in Good
  BY <1>1, <1>3, <1>4, SetInduction
<1> QED
  BY <1>1, <1>2, <1>5 DEF Good

\* A rebuild adds to the replayed windows what none of them has the id of.
LEMMA RebuiltIsSound ==
  ASSUME NEW old, Sound(old), NEW windows \in Seq(Answers)
  PROVE  Sound(Rebuilt(old, windows))
<1> DEFINE new == Replay(windows)
           carried == {e \in Booked(old) : e.lid \notin LidsOf(new) /\ e.date < Coverage(windows)}
<1>1. CASE windows = <<>>
  BY <1>1 DEF Rebuilt
<1>2. CASE windows # <<>>
  <2>1. Rebuilt(old, windows) = new \cup carried
    BY <1>2 DEF Rebuilt
  <2>2. Sound(new)
    BY ReplayIsSound
  <2>3. carried \subseteq Booked(old) /\ carried \subseteq old
    BY DEF Booked
  <2>4. \A e \in carried, f \in Booked(new) : e.lid # f.lid
    BY DEF Booked, LidsOf
  <2> HIDE DEF new, carried
  <2>5. IsFiniteSet(carried)
    BY <2>3, FS_Subset DEF Sound
  <2>6. IsFiniteSet(new \cup carried)
    BY <2>2, <2>5, FS_Union DEF Sound
  <2>7. Distinct(new \cup carried)
    <3> SUFFICES ASSUME NEW e \in Booked(new) \cup carried, NEW f \in Booked(new) \cup carried,
                        e.lid = f.lid
                 PROVE  e = f
      BY DEF Distinct, Booked
    <3>1. CASE e \in Booked(new) /\ f \in Booked(new)
      BY <2>2, <3>1 DEF Sound, Distinct
    <3>2. CASE e \in carried /\ f \in carried
      BY <2>3, <3>2 DEF Sound, Distinct
    <3> QED
      BY <2>4, <3>1, <3>2
  <2>8. new \cup carried \subseteq Entries /\ Labelled(new \cup carried)
    BY <2>2, <2>3 DEF Sound, Labelled
  <2> QED
    BY <2>1, <2>6, <2>7, <2>8 DEF Sound
<1> QED
  BY <1>1, <1>2

-----------------------------------------------------------------------------
(* The invariant *)

\* The payments the bank ever spoke of.
Known == {p \in Payments : bank[p].status # "absent"}

\* Windows in the archive and in its queue are answers of the bank, the ledgers in
\* memory and on disk are sound: the fetch merges answers, a restart and a rebuild
\* start from the disk and the archive.
HInv ==
  /\ TypeOK
  /\ IsFiniteSet(Known)
  /\ queue \in Seq(Answers) /\ archive \in Seq(Answers)
  /\ Sound(ledger) /\ Sound(disk.ledger)

LEMMA SeqsOfAnswers ==
  ASSUME NEW s \in Seq(Answers)
  PROVE  s \in Seq(Windows)
<1>1. Answers \subseteq Windows
  BY DEF Answers
<1>2. Len(s) \in Nat /\ s \in [1 .. Len(s) -> Answers]
  OBVIOUS
<1>3. s \in [1 .. Len(s) -> Windows]
  BY <1>1, <1>2
<1> QED
  BY <1>2, <1>3

\* At any time the bank's bookings are finitely many and name a payment once.
LEMMA AtBankIsBatch ==
  ASSUME HInv, NEW status, status # "absent"
  PROVE  Batch(AtBank(status))
<1> DEFINE Q == {q \in Payments : bank[q].status = status}
           f == [p \in Q |-> [pay |-> p, date |-> bank[p].date]]
           T == AtBank(status)
<1>1. Q \subseteq Known
  BY DEF Known
<1>2. IsFiniteSet(Q)
  BY <1>1, FS_Subset DEF HInv
<1>3. DOMAIN f = Q /\ T = Range(f) /\ f \in [Q -> T]
  BY DEF AtBank, Range
<1>4. IsFiniteSet(T)
  <2> HIDE DEF T, f, Q
  <2>1. IsFiniteSet(Range(f))
    BY <1>2, <1>3, ImageIsFinite
  <2> QED
    BY <1>3, <2>1
<1>5. \A p \in Payments : bank[p].date \in Int
  BY DEF HInv, TypeOK, BankStates
<1>6. AtBank(status) \subseteq Transactions
  BY <1>5 DEF AtBank, Transactions
<1>7. \A t, u \in AtBank(status) : t.pay = u.pay => t = u
  BY DEF AtBank
<1> QED
  BY <1>4, <1>6, <1>7 DEF Batch

LEMMA PartIsBatch ==
  ASSUME NEW b, Batch(b), NEW part \in SUBSET b
  PROVE  Batch(part)
<1>1. IsFiniteSet(part)
  BY FS_Subset DEF Batch
<1> QED
  BY <1>1 DEF Batch

\* A window of part of the bank's bookings is an answer.
LEMMA WindowIsAnswer ==
  ASSUME HInv, NEW from \in Int, NEW truncated \in BOOLEAN,
         NEW booked \in SUBSET AtBank("booked"), NEW pending \in SUBSET AtBank("pending"),
         \A t \in booked : t.date >= from
  PROVE  [from |-> from, booked |-> booked, pending |-> pending, truncated |-> truncated]
           \in Answers
<1>1. Batch(booked) /\ Batch(pending)
  <2>1. Batch(AtBank("booked")) /\ Batch(AtBank("pending"))
    BY AtBankIsBatch
  <2> QED
    BY <2>1, PartIsBatch
<1> QED
  BY <1>1 DEF Answers, Windows, Batch

LEMMA GreaterOfTwo ==
  ASSUME NEW x \in Int, NEW y \in Int
  PROVE  /\ Max({x, y}) \in Int /\ Max({x, y}) >= x /\ Max({x, y}) >= y
         /\ Max({x, y}) = x \/ Max({x, y}) = y
<1>1. IsFiniteSet({x, y})
  <2>1. IsFiniteSet({x})
    BY FS_Singleton
  <2>2. {x, y} = {x} \cup {y}
    OBVIOUS
  <2> QED
    BY <2>1, <2>2, FS_AddElement
<1>2. {x, y} \in SUBSET Int /\ {x, y} # {}
  OBVIOUS
<1> DEFINE S == {x, y}
<1>3. x \in S /\ y \in S /\ S \subseteq Int /\ \A z \in S : z = x \/ z = y
  OBVIOUS
<1> HIDE DEF S
<1>4. Max(S) \in S /\ \A z \in S : Max(S) >= z
  BY <1>1, <1>2, Extremes DEF S
<1> QED
  BY <1>3, <1>4 DEF S

\* A bank's limit always leaves a step of the ladder.
LEMMA LongestStep ==
  ASSUME NEW limit \in Limits
  PROVE  Max({n \in Ladder : n <= limit}) \in Ladder
<1>1. limit \in Nat /\ FetchDays <= limit /\ FetchDays \in Ladder /\ Ladder \subseteq Nat
  BY HistoryAssumption
<1> DEFINE steps == {n \in Ladder : n <= limit}
<1>2. steps \in SUBSET Nat /\ steps \subseteq Ladder /\ \A n \in steps : n <= limit
  BY <1>1
<1>3. FetchDays \in steps
  BY <1>1
<1> HIDE DEF steps
<1>4. IsFiniteSet(steps)
  BY <1>1, <1>2, FS_BoundedSetOfNaturals
<1>5. steps \in SUBSET Int /\ steps # {}
  BY <1>2, <1>3
<1>6. Max(steps) \in steps
  BY <1>4, <1>5, Extremes
<1> QED
  BY <1>2, <1>6 DEF steps

\* The last booking is the last of finitely many.
LEMMA LastBooking ==
  ASSUME HInv, Booked(ledger) # {}
  PROVE  Max({e.date : e \in Booked(ledger)}) \in Int
<1> DEFINE dates == {e.date : e \in Booked(ledger)}
<1>1. Booked(ledger) \subseteq ledger
  BY DEF Booked
<1>2. IsFiniteSet(Booked(ledger))
  BY <1>1, FS_Subset DEF HInv, Sound
<1>3. IsFiniteSet(dates)
  BY <1>2, DatesAreFinite
<1>4. dates \in SUBSET Int
  BY <1>1 DEF HInv, Sound, Entries
<1>5. dates # {}
  OBVIOUS
<1> HIDE DEF dates
<1>6. Max(dates) \in dates
  BY <1>3, <1>4, <1>5, Extremes
<1> QED
  BY <1>4, <1>6 DEF dates

\* Every request starts on a day.
LEMMA RequestIsADay ==
  ASSUME HInv, NEW attended \in BOOLEAN, NEW limit \in Limits, NEW days \in Asked
  PROVE  RequestFrom(attended, limit, days) \in Int
<1> DEFINE from == RequestFrom(attended, limit, days)
           steps == {n \in Ladder : n <= limit}
           dates == {e.date : e \in Booked(ledger)}
<1>1. /\ day \in Int /\ days \in Int /\ FetchDays \in Int /\ Overlap \in Int
      /\ Max(steps) \in Int
  <2>1. \E longest \in Ladder : Max(steps) = longest
    BY LongestStep
  <2> HIDE DEF steps
  <2>2. /\ Ladder \subseteq Nat /\ Asked \subseteq Nat /\ FetchDays \in Nat /\ Overlap \in Nat
        /\ day \in Nat
    BY HistoryAssumption DEF HInv, TypeOK
  <2>3. Max(steps) \in Int
    <3>1. PICK longest \in Ladder : Max(steps) = longest
      BY <2>1
    <3>2. longest \in Int
      BY <2>2
    <3> QED
      BY <3>1, <3>2
  <2>4. days \in Int
    BY <2>2
  <2>5. day \in Int /\ FetchDays \in Int /\ Overlap \in Int
    BY <2>2
  <2> QED
    BY <2>3, <2>4, <2>5
<1>2. Booked(ledger) # {} => Max(dates) \in Int
  BY LastBooking
<1> HIDE DEF steps, dates
<1>3. IncrementalFrom \in Int
  <2>1. CASE Booked(ledger) = {}
    BY <1>1, <2>1 DEF IncrementalFrom
  <2>2. CASE Booked(ledger) # {}
    <3>1. IncrementalFrom = Max({Max(dates) - Overlap, day - FetchDays})
      BY <2>2 DEF IncrementalFrom, dates
    <3>2. Max(dates) - Overlap \in Int /\ day - FetchDays \in Int
      BY <1>1, <1>2, <2>2
    <3> QED
      BY <3>1, <3>2, GreaterOfTwo
  <2> QED
    BY <2>1, <2>2
<1>4. from = day - Max(steps) \/ from = day - days \/ from = IncrementalFrom
  BY DEF RequestFrom, steps
<1> QED
  BY <1>1, <1>3, <1>4

-----------------------------------------------------------------------------
(* What a fetch brings *)

FullWindow(attended, from, depth) ==
  LET booked == Since(AtBank("booked"), Max({from, day - depth}))
  IN [from |-> from, booked |-> booked, pending |-> AtBank("pending"),
      truncated |-> EmptyHistory(Backfill(attended), booked)]

PartWindow(from, part) ==
  [from |-> from, booked |-> part, pending |-> {}, truncated |-> TRUE]

Answered(w) ==
  /\ w \in Answers /\ w.pending \subseteq AtBank("pending")
  /\ queue' = Append(queue, w) /\ ledger' = Ingest(ledger, w)
  /\ backfilled' \in {session, backfilled} /\ hit' = TRUE

Broken(w) ==
  /\ w \in Answers /\ w.truncated
  /\ queue' \in {queue, Append(queue, w)}
  /\ UNCHANGED <<ledger, backfilled>> /\ hit' = FALSE

LEMMA FullWindowIsAnswer ==
  ASSUME HInv, NEW attended \in BOOLEAN, NEW limit \in Limits, NEW days \in Asked,
         NEW depth \in Depths, NEW from, from = RequestFrom(attended, limit, days)
  PROVE  LET w == FullWindow(attended, from, depth)
         IN w \in Answers /\ w.pending \subseteq AtBank("pending")
<1> DEFINE start == Max({from, day - depth})
           booked == Since(AtBank("booked"), start)
           full == EmptyHistory(Backfill(attended), booked)
           w == [from |-> from, booked |-> booked, pending |-> AtBank("pending"),
                 truncated |-> full]
<1>1. /\ from \in Int /\ day - depth \in Int
  BY RequestIsADay, HistoryAssumption DEF HInv, TypeOK
<1>2. start \in Int /\ start >= from
  BY <1>1, GreaterOfTwo
<1>3. booked \subseteq AtBank("booked") /\ \A t \in booked : t.date >= start
  BY DEF Since
<1>4. \A t \in AtBank("booked") : t.date \in Int
  BY AtBankIsBatch DEF Batch, Transactions
<1>5. full \in BOOLEAN
  BY DEF EmptyHistory
<1>6. w = FullWindow(attended, from, depth)
  BY DEF FullWindow
<1> HIDE DEF start, booked, full
<1>7. \A t \in booked : t.date >= from
  BY <1>1, <1>2, <1>3, <1>4
<1>8. w \in Answers
  BY <1>1, <1>3, <1>5, <1>7, WindowIsAnswer
<1> QED
  BY <1>6, <1>8

LEMMA PartWindowIsAnswer ==
  ASSUME HInv, NEW from \in Int, NEW part \in SUBSET Since(AtBank("booked"), from)
  PROVE  PartWindow(from, part) \in Answers
<1>1. part \in SUBSET AtBank("booked") /\ \A t \in part : t.date >= from
  BY DEF Since
<1>2. {} \in SUBSET AtBank("pending") /\ TRUE \in BOOLEAN
  OBVIOUS
<1> QED
  BY <1>1, <1>2, WindowIsAnswer DEF PartWindow

\* A fetch opens a round with one answer merged and queued for the archive, or with
\* a broken one at most queued.
LEMMA FetchAnswers ==
  ASSUME HInv, Fetch
  PROVE  /\ phase = "idle" /\ phase' = "fetched"
         /\ UNCHANGED <<day, session, bank, disk, archive, lostBatch, behind>>
         /\ \E w : Answered(w) \/ Broken(w)
<1> SUFFICES ASSUME NEW attended \in BOOLEAN, NEW limit \in Limits, NEW days \in Asked,
                    NEW from, from = RequestFrom(attended, limit, days),
                    \/ \E depth \in Depths : FetchAll(attended, from, depth)
                    \/ \E part \in SUBSET AtBank("booked") :
                         FetchPart(attended, from, part) \/ FetchBroken(from, part)
             PROVE  /\ phase = "idle" /\ phase' = "fetched"
                    /\ UNCHANGED <<day, session, bank, disk, archive, lostBatch, behind>>
                    /\ \E w : Answered(w) \/ Broken(w)
  BY DEF Fetch
<1>1. from \in Int
  BY RequestIsADay
<1>2. ASSUME NEW depth \in Depths, FetchAll(attended, from, depth)
      PROVE  \E w : Answered(w)
  <2> DEFINE w == FullWindow(attended, from, depth)
  <2>1. w \in Answers /\ w.pending \subseteq AtBank("pending")
    BY FullWindowIsAnswer
  <2>2. Receive(w, Backfill(attended))
    BY <1>2 DEF FetchAll, FullWindow
  <2> HIDE DEF w
  <2>3. Answered(w)
    BY <2>1, <2>2 DEF Receive, Answered
  <2> QED
    BY <2>3
<1>3. ASSUME NEW part \in SUBSET AtBank("booked"), FetchPart(attended, from, part)
      PROVE  \E w : Answered(w)
  <2> DEFINE w == PartWindow(from, part)
  <2>1. w \in Answers
    BY <1>1, <1>3, PartWindowIsAnswer DEF FetchPart
  <2>2. Receive(w, Backfill(attended))
    BY <1>3 DEF FetchPart, PartWindow
  <2>3. w.truncated /\ w.pending = {}
    BY DEF PartWindow
  <2> HIDE DEF w
  <2>4. Answered(w)
    BY <2>1, <2>2, <2>3 DEF Receive, Answered
  <2> QED
    BY <2>4
<1>4. ASSUME NEW part \in SUBSET AtBank("booked"), FetchBroken(from, part)
      PROVE  \E w : Broken(w)
  <2> DEFINE w == PartWindow(from, part)
  <2>1. w \in Answers
    BY <1>1, <1>4, PartWindowIsAnswer DEF FetchBroken
  <2>2. queue' = queue \/ queue' = Append(queue, w)
    BY <1>4 DEF FetchBroken, PartWindow
  <2>3. w.truncated
    BY DEF PartWindow
  <2> HIDE DEF w
  <2>4. Broken(w)
    BY <1>4, <2>1, <2>2, <2>3 DEF FetchBroken, Broken
  <2> QED
    BY <2>4
<1>5. /\ phase = "idle" /\ phase' = "fetched"
      /\ UNCHANGED <<day, session, bank, disk, archive, lostBatch, behind>>
  BY DEF FetchAll, FetchPart, FetchBroken
<1>6. \E w : Answered(w) \/ Broken(w)
  BY <1>2, <1>3, <1>4
<1> QED
  BY <1>5, <1>6

-----------------------------------------------------------------------------
(* The steps *)

LEMMA InitSound == Init => HInv
<1> SUFFICES ASSUME Init PROVE HInv
  OBVIOUS
<1> DEFINE b == {[pay |-> p, date |-> 0] : p \in Legacy}
           f == [p \in Legacy |-> [pay |-> p, date |-> 0]]
<1>1. IsFiniteSet(b)
  <2>1. DOMAIN f = Legacy /\ b = Range(f) /\ f \in [Legacy -> b] /\ IsFiniteSet(Legacy)
    BY HistoryAssumption DEF Range
  <2> HIDE DEF b, f
  <2>2. IsFiniteSet(Range(f))
    BY <2>1, ImageIsFinite
  <2> QED
    BY <2>1, <2>2
<1>2. Batch(b)
  BY <1>1, HistoryAssumption DEF Batch, Transactions
<1>3. ledger = Prepare(b, "booked")
  BY DEF Init, LegacyEntries
<1> HIDE DEF b
<1>4. Sound(ledger)
  <2>1. ledger \subseteq Entries /\ IsFiniteSet(ledger) /\ Labelled(ledger)
    BY <1>2, <1>3, PreparedIsTyped DEF Batch
  <2>2. Distinct(ledger)
    BY <1>2, <1>3, FreshIsDistinct
  <2> QED
    BY <2>1, <2>2 DEF Sound
<1>5. disk = [ledger |-> ledger, backfilled |-> 0]
  BY DEF Init
<1>6. disk.ledger = ledger /\ disk \in [ledger : SUBSET Entries, backfilled : Nat]
  BY <1>4, <1>5 DEF Sound
<1>7. bank \in [Payments -> BankStates]
  BY DEF Init, BankStates
<1>8. Known = Legacy
  BY HistoryAssumption DEF Init, Known
<1>9. queue \in Seq(Answers) /\ archive \in Seq(Answers)
  BY DEF Init
<1>10. queue \in Seq(Windows) /\ archive \in Seq(Windows)
  BY DEF Init
<1>11. TypeOK
  BY <1>4, <1>6, <1>7, <1>10, HistoryAssumption DEF TypeOK, Init, Sound
<1> QED
  BY <1>4, <1>6, <1>8, <1>9, <1>11, HistoryAssumption DEF HInv

\* The bank's moves change what it knows of one payment.
LEMMA BankMoveIsSound ==
  ASSUME HInv, NEW p \in Payments, NEW status \in {"pending", "booked", "gone"},
         NEW date \in Int, BankMove(p, status, date)
  PROVE  HInv'
<1>1. bank' = [bank EXCEPT ![p] = [status |-> status, date |-> date]]
  BY DEF BankMove
<1>2. bank \in [Payments -> BankStates]
  BY DEF HInv, TypeOK
<1>3. [status |-> status, date |-> date] \in BankStates
  BY DEF BankStates
<1>4. bank' \in [Payments -> BankStates]
  BY <1>1, <1>2, <1>3
<1>5. Known' \subseteq Known \cup {p}
  BY <1>1, <1>2 DEF Known
<1>6. IsFiniteSet(Known')
  <2>1. IsFiniteSet(Known \cup {p})
    BY FS_AddElement DEF HInv
  <2> QED
    BY <1>5, <2>1, FS_Subset
<1>7. UNCHANGED <<day, session, ledger, backfilled, disk, queue, archive,
                  phase, hit, lostBatch, behind>>
  BY DEF BankMove
<1>8. TypeOK'
  BY <1>4, <1>7 DEF HInv, TypeOK
<1> QED
  BY <1>6, <1>7, <1>8 DEF HInv

LEMMA BankStepIsSound ==
  ASSUME HInv, BankStep
  PROVE  HInv'
<1>1. day \in Nat /\ session \in Nat /\ Overlap \in Nat /\ \A p \in Payments : bank[p].date \in Int
  BY HistoryAssumption DEF HInv, TypeOK, BankStates
<1>2. ASSUME NEW p \in Payments, Announce(p) \/ Cancel(p) PROVE HInv'
  BY <1>1, <1>2, BankMoveIsSound DEF Announce, Cancel
<1>3. ASSUME NEW p \in Payments, NEW date \in (day - Overlap)..day, Book(p, date) \/ Redate(p, date)
      PROVE  HInv'
  <2>1. date \in Int
    BY <1>1
  <2> QED
    BY <1>3, <2>1, BankMoveIsSound DEF Book, Redate
<1>4. CASE NextDay \/ Relink
  <2>1. day' \in Nat /\ session' \in Nat
    BY <1>1, <1>4 DEF NextDay, Relink
  <2>2. UNCHANGED <<bank, ledger, backfilled, disk, queue, archive, phase, hit,
                    lostBatch, behind>>
    BY <1>4 DEF NextDay, Relink
  <2>3. TypeOK'
    BY <2>1, <2>2 DEF HInv, TypeOK
  <2>4. Known' = Known
    BY <2>2 DEF Known
  <2> QED
    BY <2>2, <2>3, <2>4 DEF HInv
<1> QED
  BY <1>2, <1>3, <1>4 DEF BankStep

LEMMA FetchIsSound ==
  ASSUME HInv, Fetch
  PROVE  HInv'
<1>1. /\ phase' = "fetched"
      /\ UNCHANGED <<day, session, bank, disk, archive, lostBatch, behind>>
  BY FetchAnswers
<1>2. PICK w : Answered(w) \/ Broken(w)
  BY FetchAnswers
<1>3. w \in Answers
  BY <1>2 DEF Answered, Broken
<1>4. Sound(ledger')
  BY <1>2, <1>3, IngestIsSound DEF Answered, Broken, HInv
<1>5. queue' \in Seq(Answers)
  <2>1. queue \in Seq(Answers) /\ queue' \in {queue, Append(queue, w)}
    BY <1>2 DEF Answered, Broken, HInv
  <2> QED
    BY <1>3, <2>1
<1>6. backfilled' \in Nat /\ hit' \in BOOLEAN
  BY <1>2 DEF Answered, Broken, HInv, TypeOK
<1>7. queue' \in Seq(Windows)
  BY <1>5, SeqsOfAnswers
<1>8. TypeOK'
  BY <1>1, <1>4, <1>6, <1>7 DEF HInv, TypeOK, Sound
<1>9. Known' = Known
  BY <1>1 DEF Known
<1> QED
  BY <1>1, <1>4, <1>5, <1>8, <1>9 DEF HInv

LEMMA FlushIsSound ==
  ASSUME HInv, NEW written \in BOOLEAN, Flush(written)
  PROVE  HInv'
<1>1. queue' = <<>> /\ (archive' = archive \o queue \/ archive' = archive)
  BY DEF Flush
<1>2. queue' \in Seq(Answers) /\ archive' \in Seq(Answers)
  <2>1. queue \in Seq(Answers) /\ archive \in Seq(Answers)
    BY DEF HInv
  <2>2. archive \o queue \in Seq(Answers) /\ <<>> \in Seq(Answers)
    BY <2>1
  <2> QED
    BY <1>1, <2>1, <2>2
<1>3. queue' \in Seq(Windows) /\ archive' \in Seq(Windows)
  BY <1>2, SeqsOfAnswers
<1>4. lostBatch' \in BOOLEAN /\ behind' \in [memory : BOOLEAN, disk : BOOLEAN]
  BY DEF Flush, HInv, TypeOK
<1>5. /\ UNCHANGED <<day, session, bank, ledger, backfilled, disk, hit>>
      /\ phase' = "flushed"
  BY DEF Flush
<1>6. TypeOK' /\ Known' = Known
  BY <1>3, <1>4, <1>5 DEF HInv, TypeOK, Known
<1> QED
  BY <1>2, <1>5, <1>6 DEF HInv

LEMMA WriteIsSound ==
  ASSUME HInv, NEW saved \in BOOLEAN, NEW entries, Sound(entries), Write(saved, entries)
  PROVE  disk' \in [ledger : SUBSET Entries, backfilled : Nat] /\ Sound(disk'.ledger)
<1>1. CASE saved
  <2>1. disk' = [ledger |-> entries, backfilled |-> backfilled]
    BY <1>1 DEF Write
  <2> QED
    BY <2>1 DEF HInv, TypeOK, Sound
<1>2. CASE ~saved
  BY <1>2 DEF Write, HInv, TypeOK
<1> QED
  BY <1>1, <1>2

LEMMA SaveIsSound ==
  ASSUME HInv, NEW saved \in BOOLEAN, Save(saved)
  PROVE  HInv'
<1>1. disk' \in [ledger : SUBSET Entries, backfilled : Nat] /\ Sound(disk'.ledger)
  BY WriteIsSound DEF Save, HInv
<1>2. /\ UNCHANGED <<day, session, bank, ledger, backfilled, queue, archive, lostBatch>>
      /\ phase' = "idle" /\ hit' = FALSE /\ behind' \in [memory : BOOLEAN, disk : BOOLEAN]
  BY DEF Save, HInv, TypeOK
<1>3. TypeOK' /\ Known' = Known
  BY <1>1, <1>2 DEF HInv, TypeOK, Known
<1> QED
  BY <1>1, <1>2, <1>3 DEF HInv

LEMMA RebuildIsSound ==
  ASSUME HInv, NEW saved \in BOOLEAN, Rebuild(saved)
  PROVE  HInv'
<1>1. Sound(ledger')
  BY RebuiltIsSound DEF Rebuild, HInv
<1>2. Write(saved, ledger')
  BY DEF Rebuild
<1>3. disk' \in [ledger : SUBSET Entries, backfilled : Nat] /\ Sound(disk'.ledger)
  BY <1>1, <1>2, WriteIsSound
<1>4. /\ UNCHANGED <<day, session, bank, backfilled, queue, archive, phase, hit, lostBatch>>
      /\ behind' \in [memory : BOOLEAN, disk : BOOLEAN]
  BY DEF Rebuild, HInv, TypeOK
<1>5. TypeOK' /\ Known' = Known
  BY <1>1, <1>3, <1>4 DEF HInv, TypeOK, Known, Sound
<1> QED
  BY <1>1, <1>3, <1>4, <1>5 DEF HInv

LEMMA RestartIsSound ==
  ASSUME HInv, NEW upgraded \in BOOLEAN, Restart(upgraded)
  PROVE  HInv'
<1> DEFINE loaded == IF upgraded THEN Rebuilt(disk.ledger, archive) ELSE disk.ledger
<1>1. Sound(loaded)
  <2>1. Sound(Rebuilt(disk.ledger, archive)) /\ Sound(disk.ledger)
    BY RebuiltIsSound DEF HInv
  <2> QED
    BY <2>1
<1>2. /\ ledger' = loaded /\ backfilled' = disk.backfilled
      /\ disk' = [disk EXCEPT !.ledger = loaded]
      /\ queue' = <<>> /\ phase' = "idle" /\ hit' = FALSE
      /\ behind' \in [memory : BOOLEAN, disk : BOOLEAN]
      /\ UNCHANGED <<day, session, bank, archive, lostBatch>>
  BY DEF Restart, HInv, TypeOK
<1> HIDE DEF loaded
<1>3. disk \in [ledger : SUBSET Entries, backfilled : Nat]
  BY DEF HInv, TypeOK
<1>4. disk' = [ledger |-> loaded, backfilled |-> disk.backfilled]
  BY <1>2, <1>3
<1>5. disk' \in [ledger : SUBSET Entries, backfilled : Nat] /\ disk'.ledger = loaded
  BY <1>1, <1>3, <1>4 DEF Sound
<1>6. queue' \in Seq(Answers) /\ queue' \in Seq(Windows)
  BY <1>2
<1>7. Known' = Known
  BY <1>2 DEF Known
<1>8. backfilled' \in Nat
  BY <1>2, <1>3
<1>9. TypeOK'
  BY <1>1, <1>2, <1>5, <1>6, <1>8 DEF HInv, TypeOK, Sound
<1> QED
  BY <1>1, <1>2, <1>5, <1>6, <1>7, <1>9 DEF HInv

LEMMA StepSound == HInv /\ [Next]_vars => HInv'
<1> SUFFICES ASSUME HInv, [Next]_vars PROVE HInv'
  OBVIOUS
<1>1. CASE UNCHANGED vars
  <2>1. TypeOK' /\ Known' = Known
    BY <1>1 DEF vars, HInv, TypeOK, Known
  <2> QED
    BY <1>1, <2>1 DEF vars, HInv
<1>2. CASE BankStep
  BY <1>2, BankStepIsSound
<1>3. CASE Fetch
  BY <1>3, FetchIsSound
<1>4. ASSUME NEW done \in BOOLEAN, Flush(done) \/ Save(done) \/ Rebuild(done) \/ Restart(done)
      PROVE  HInv'
  BY <1>4, FlushIsSound, SaveIsSound, RebuildIsSound, RestartIsSound
<1> QED
  BY <1>1, <1>2, <1>3, <1>4 DEF Next

\* The invariant holds in every state of the history.
THEOREM AlwaysSound == Spec => []HInv
<1> QED
  BY InitSound, StepSound, PTL DEF Spec

\* The manager's fields, the ledgers and the archive stay typed, whatever the bank
\* answers and whichever write fails.
THEOREM HistoryIsTyped == Spec => []TypeOK
<1>1. HInv => TypeOK
  BY DEF HInv
<1> QED
  BY <1>1, AlwaysSound, PTL

\* No booked payment is counted twice: over fetches, restarts and rebuilds the
\* booked entries keep ids of their own, also when payments are identical or the
\* bank dates one anew.
THEOREM BookedOnce == Spec => []UniqueBooked
<1>1. HInv => UniqueBooked
  BY DEF HInv, Sound, UniqueBooked
<1> QED
  BY <1>1, AlwaysSound, PTL

-----------------------------------------------------------------------------
(* A complete answer is mirrored *)

Mirrored(entries, w) ==
  /\ \A t \in w.booked :
       Copies(entries, BankKeyOf(t)) = BankCopies(w.booked, BankKeyOf(t))
  /\ \A e \in Booked(entries) :
       e.date >= ReportedFrom(w.from, w.booked) => BankCopies(w.booked, KeyOf(e)) > 0

\* An entry has the key of the transaction it was prepared from.
LEMMA KeyOfPrepared ==
  ASSUME NEW b, NEW t \in b
  PROVE  KeyOf(Prepared(b, t, "booked")) = BankKeyOf(t)
<1>1. CASE Tid[t.pay] # NoTid
  <2>1. LedgerId(b, t) = <<Tid[t.pay]>> /\ Len(<<Tid[t.pay]>>) = 1
    BY <1>1 DEF LedgerId
  <2> QED
    BY <1>1, <2>1 DEF KeyOf, BankKeyOf, Prepared
<1>2. CASE Tid[t.pay] = NoTid
  <2>1. LedgerId(b, t) = <<Fingerprint(t), Cardinality(Twins(b, t))>>
    BY <1>2 DEF LedgerId, Twins
  <2>2. Len(LedgerId(b, t)) # 1
    BY <2>1
  <2> QED
    BY <1>2, <2>2 DEF KeyOf, BankKeyOf, Prepared, Fingerprint
<1> QED
  BY <1>1, <1>2

\* No entry that stays has the key of a payment of a complete answer: it has not
\* its id, and is older than what it is evidence for.
LEMMA KeptIsAnotherPayment ==
  ASSUME NEW entries \in SUBSET Entries, NEW w \in Answers, ~w.truncated,
         NEW e \in Kept(entries, w), NEW t \in w.booked
  PROVE  KeyOf(e) # BankKeyOf(t)
<1>1. /\ w.from \in Int /\ w.booked \in SUBSET Transactions /\ IsFiniteSet(w.booked)
      /\ \A u \in w.booked : u.date >= w.from
  BY DEF Answers, Windows, Batch
<1>2. ReportedFrom(w.from, w.booked) \in Int /\ ReportedFrom(w.from, w.booked) <= t.date
  BY <1>1, Span
<1>3. /\ e \in Entries /\ e.date < ReportedFrom(w.from, w.booked)
      /\ e.lid \notin LidsOf(Prepare(w.booked, "booked"))
  BY DEF Kept, Booked
<1>4. e.date \in Int /\ t.date \in Int
  BY <1>1, <1>3 DEF Entries, Transactions
<1>5. e.date # t.date
  BY <1>2, <1>3, <1>4
<1>6. e.lid # LedgerId(w.booked, t)
  <2>1. Prepared(w.booked, t, "booked") \in Prepare(w.booked, "booked")
    BY DEF Prepare, Prepared
  <2>2. Prepared(w.booked, t, "booked").lid = LedgerId(w.booked, t)
    BY DEF Prepared
  <2> QED
    BY <1>3, <2>1, <2>2 DEF LidsOf
<1>7. e.lid \in {<<Tid[p]>> : p \in Payments} \cup ((Whats \X Int) \X Nat)
  BY <1>3 DEF Entries
<1>8. CASE Tid[t.pay] # NoTid
  <2>1. BankKeyOf(t) = <<Tid[t.pay]>> /\ LedgerId(w.booked, t) = <<Tid[t.pay]>>
    BY <1>8 DEF BankKeyOf, LedgerId
  <2>2. <<Tid[t.pay]>> # <<e.what, e.date>>
    OBVIOUS
  <2> QED
    BY <1>6, <2>1, <2>2 DEF KeyOf
<1>9. CASE Tid[t.pay] = NoTid
  <2>1. BankKeyOf(t) = <<What[t.pay], t.date>>
    BY <1>9 DEF BankKeyOf, Fingerprint
  <2>2. <<e.what, e.date>> # <<What[t.pay], t.date>>
    BY <1>5
  <2>3. Len(e.lid) = 1 => e.lid # <<What[t.pay], t.date>>
    OBVIOUS
  <2> QED
    BY <2>1, <2>2, <2>3 DEF KeyOf
<1> QED
  BY <1>8, <1>9

\* Merging a complete answer makes the ledger agree with it over its span.
LEMMA IngestMirrors ==
  ASSUME NEW entries \in SUBSET Entries, NEW w \in Answers, ~w.truncated
  PROVE  Mirrored(Ingest(entries, w), w)
<1> DEFINE fresh == {Prepared(w.booked, t, "booked") : t \in w.booked}
<1>1. Prepare(w.booked, "booked") = fresh
  BY DEF Prepare, Prepared
<1>2. Batch(w.booked)
  BY DEF Answers
<1>3. Booked(Ingest(entries, w)) = Kept(entries, w) \cup fresh
  BY <1>1, BookedAfter
<1>4. ASSUME NEW t \in w.booked
      PROVE  Copies(Ingest(entries, w), BankKeyOf(t)) = BankCopies(w.booked, BankKeyOf(t))
  <2> DEFINE key == BankKeyOf(t)
             theirs == {u \in w.booked : BankKeyOf(u) = key}
             ours == {e \in Booked(Ingest(entries, w)) : KeyOf(e) = key}
             f == [u \in theirs |-> Prepared(w.booked, u, "booked")]
  <2>1. \A e \in Kept(entries, w) : KeyOf(e) # key
    BY KeptIsAnotherPayment
  <2>2. \A u \in w.booked : KeyOf(Prepared(w.booked, u, "booked")) = BankKeyOf(u)
    BY KeyOfPrepared
  <2> HIDE DEF key
  <2>3. ours = {e \in fresh : KeyOf(e) = key}
    BY <1>3, <2>1
  <2>4. f \in [theirs -> ours]
    <3> SUFFICES ASSUME NEW u \in theirs PROVE Prepared(w.booked, u, "booked") \in ours
      OBVIOUS
    <3> QED
      BY <2>2, <2>3
  <2>5. \A e \in ours : \E u \in theirs : f[u] = e
    <3> SUFFICES ASSUME NEW e \in ours PROVE \E u \in theirs : f[u] = e
      OBVIOUS
    <3>1. PICK u \in w.booked : e = Prepared(w.booked, u, "booked")
      BY <2>3
    <3>2. BankKeyOf(u) = key
      BY <2>2, <2>3, <3>1
    <3> QED
      BY <3>1, <3>2
  <2>6. ASSUME NEW u \in theirs, NEW v \in theirs, f[u] = f[v] PROVE u = v
    <3>1. Prepared(w.booked, u, "booked") = Prepared(w.booked, v, "booked")
      BY <2>6
    <3>2. LedgerId(w.booked, u) = LedgerId(w.booked, v)
      BY <3>1 DEF Prepared
    <3> QED
      BY <1>2, <3>2, IdsAreDistinct
  <2>7. IsFiniteSet(theirs)
    BY <1>2, FS_Subset DEF Batch
  <2> HIDE DEF theirs, ours, f
  <2>8. f \in Bijection(theirs, ours)
    BY <2>4, <2>5, <2>6 DEF Bijection, Injection, Surjection, IsInjective
  <2>9. Cardinality(ours) = Cardinality(theirs)
    BY <2>7, <2>8, FS_Bijection DEF ExistsBijection
  <2> QED
    BY <2>9 DEF Copies, BankCopies, key, ours, theirs
<1>5. ASSUME NEW e \in Booked(Ingest(entries, w)), e.date >= ReportedFrom(w.from, w.booked)
      PROVE  BankCopies(w.booked, KeyOf(e)) > 0
  <2>1. e \notin Kept(entries, w)
    <3> SUFFICES ASSUME e \in Kept(entries, w) PROVE FALSE
      OBVIOUS
    <3>1. e.date < ReportedFrom(w.from, w.booked) /\ e.date \in Int
      BY DEF Kept, Booked, Entries
    <3>2. ReportedFrom(w.from, w.booked) \in Int
      BY Span DEF Answers, Windows, Batch
    <3> QED
      BY <1>5, <3>1, <3>2
  <2>2. PICK t \in w.booked : e = Prepared(w.booked, t, "booked")
    BY <1>3, <2>1
  <2> DEFINE S == {u \in w.booked : BankKeyOf(u) = KeyOf(e)}
  <2>3. t \in S
    BY <2>2, KeyOfPrepared
  <2>4. IsFiniteSet(S)
    BY <1>2, FS_Subset DEF Batch
  <2> HIDE DEF S
  <2>5. Cardinality(S) \in Nat /\ Cardinality(S) # 0
    BY <2>3, <2>4, FS_EmptySet, FS_CardinalityType
  <2> QED
    BY <2>5 DEF BankCopies, S
<1> QED
  BY <1>4, <1>5 DEF Mirrored

LEMMA LastAppended ==
  ASSUME NEW s \in Seq(Answers), NEW w \in Answers
  PROVE  Last(Append(s, w)) = w
<1>1. Len(Append(s, w)) = Len(s) + 1 /\ Append(s, w)[Len(s) + 1] = w
  OBVIOUS
<1> QED
  BY <1>1 DEF Last

\* A full answer, merged, is mirrored; a part is marked as one, and a broken answer
\* is no answer.
LEMMA FetchMirrors ==
  ASSUME HInv, Fetch, hit', ~Last(queue').truncated
  PROVE  Mirrored(ledger', Last(queue'))
<1>1. PICK w : Answered(w)
  BY FetchAnswers DEF Broken
<1>2. Last(queue') = w
  BY <1>1, LastAppended DEF Answered, HInv
<1>3. ledger \in SUBSET Entries
  BY DEF HInv, Sound
<1> QED
  BY <1>1, <1>2, <1>3, IngestMirrors DEF Answered

\* The fetch is the only step that opens a round.
LEMMA OnlyFetchOpens ==
  ASSUME Next, phase = "idle", phase' = "fetched"
  PROVE  Fetch
<1>1. ~BankStep
  BY DEF BankStep, Announce, Book, Cancel, Redate, BankMove, NextDay, Relink
<1>2. \A done \in BOOLEAN : ~(Flush(done) \/ Save(done) \/ Rebuild(done) \/ Restart(done))
  BY DEF Flush, Save, Rebuild, Restart
<1> QED
  BY <1>1, <1>2 DEF Next

\* Over the span it is evidence for, a complete answer and the ledger agree: each
\* payment as often as the bank has it, and none that the bank took back.
THEOREM AnswersAreMirrored == Spec => MirrorsTheBank
<1>1. HInv /\ [Next]_vars =>
        [phase = "idle" /\ phase' = "fetched" /\ hit' =>
           LET w == Last(queue')
           IN ~w.truncated =>
                /\ \A t \in w.booked :
                     Copies(ledger', BankKeyOf(t)) = BankCopies(w.booked, BankKeyOf(t))
                /\ \A e \in Booked(ledger') :
                     e.date >= ReportedFrom(w.from, w.booked) =>
                       BankCopies(w.booked, KeyOf(e)) > 0]_vars
  <2> SUFFICES ASSUME HInv, Next, phase = "idle", phase' = "fetched", hit',
                      ~Last(queue').truncated
               PROVE  Mirrored(ledger', Last(queue'))
    BY DEF Mirrored
  <2>1. Fetch
    BY OnlyFetchOpens
  <2> QED
    BY <2>1, FetchMirrors
<1> QED
  BY <1>1, AlwaysSound, PTL DEF Spec, MirrorsTheBank

-----------------------------------------------------------------------------
(* No answer makes the ledger forget *)

\* Entries of one id have one key.
LEMMA SameIdSameKey ==
  ASSUME NEW e \in Entries, NEW f \in Entries, e.lid = f.lid,
         Labelled({e}), Labelled({f})
  PROVE  KeyOf(e) = KeyOf(f)
  BY DEF KeyOf, Labelled

LEMMA CopiesAreFinite ==
  ASSUME NEW entries, Sound(entries), NEW key
  PROVE  /\ IsFiniteSet({e \in Booked(entries) : KeyOf(e) = key})
         /\ Copies(entries, key) \in Nat
<1> DEFINE S == {e \in Booked(entries) : KeyOf(e) = key}
<1>1. S \in SUBSET entries /\ IsFiniteSet(entries)
  BY DEF Booked, Sound
<1>2. IsFiniteSet(S)
  BY <1>1, FS_Subset
<1>3. Cardinality(S) \in Nat
  BY <1>2, FS_CardinalityType
<1> QED
  BY <1>2, <1>3 DEF Copies

\* When every id of a payment survives, so does its number of entries.
LEMMA SurvivorsCount ==
  ASSUME NEW old, NEW new, Sound(old), Sound(new), NEW key,
         \A e \in Booked(old) : KeyOf(e) = key => \E f \in Booked(new) : f.lid = e.lid
  PROVE  Copies(old, key) <= Copies(new, key)
<1> DEFINE S == {e \in Booked(old) : KeyOf(e) = key}
           T == {e \in Booked(new) : KeyOf(e) = key}
           g == [e \in S |-> CHOOSE f \in T : f.lid = e.lid]
<1>1. ASSUME NEW e \in S PROVE \E f \in T : f.lid = e.lid
  <2>1. PICK f \in Booked(new) : f.lid = e.lid
    OBVIOUS
  <2>2. e \in Entries /\ f \in Entries /\ Labelled({e}) /\ Labelled({f})
    BY DEF Booked, Sound, Labelled
  <2>3. KeyOf(f) = key
    BY <2>1, <2>2, SameIdSameKey
  <2> QED
    BY <2>1, <2>3
<1>2. ASSUME NEW e \in S PROVE g[e] \in T /\ g[e].lid = e.lid
  BY <1>1
<1>3. \A e, f \in S : e.lid = f.lid => e = f
  BY DEF Sound, Distinct
<1>4. IsFiniteSet(T)
  BY CopiesAreFinite
<1>5. g \in [S -> T]
  BY <1>2
<1> HIDE DEF S, T, g
<1>6. \A e, f \in S : g[e] = g[f] => e = f
  BY <1>2, <1>3
<1>7. g \in Injection(S, T)
  BY <1>5, <1>6 DEF Injection, IsInjective
<1>8. Cardinality(S) <= Cardinality(T)
  BY <1>4, <1>7, FS_Injection
<1> QED
  BY <1>8 DEF Copies, S, T

\* A part of an answer has no more copies than all of it.
LEMMA FewerOfAPart ==
  ASSUME NEW b, IsFiniteSet(b), NEW c, NEW key,
         \A t \in c : BankKeyOf(t) = key => t \in b
  PROVE  BankCopies(c, key) <= BankCopies(b, key)
<1> DEFINE S == {t \in c : BankKeyOf(t) = key}
           T == {t \in b : BankKeyOf(t) = key}
<1>1. T \in SUBSET b /\ S \in SUBSET T
  OBVIOUS
<1> HIDE DEF S, T
<1>2. IsFiniteSet(T)
  BY <1>1, FS_Subset
<1>3. Cardinality(S) <= Cardinality(T)
  BY <1>1, <1>2, FS_Subset
<1> QED
  BY <1>3 DEF BankCopies, S, T

LEMMA NoneOfNone ==
  ASSUME NEW c, NEW key, \A t \in c : BankKeyOf(t) # key
  PROVE  BankCopies(c, key) = 0
<1>1. {t \in c : BankKeyOf(t) = key} = {}
  OBVIOUS
<1> QED
  BY <1>1, FS_EmptySet DEF BankCopies

\* What the ledger is held against after the answer w, but for what w leaves unsaid.
Told(w, unsaid) == Unmoved(ledger, ReportedFrom(w.from, w.booked)) \ unsaid

\* But for what is left unsaid, the answer has all that the bank books in the span
\* it is evidence for.
Says(w, unsaid) ==
  \A t \in AtBank("booked") \ unsaid :
    t.date >= ReportedFrom(w.from, w.booked) => t \in w.booked

\* What is kept or delivered anew covers the payments of a key; or one of them was
\* inside the span, and the answer has all of them that the bank did not move out.
LEMMA IngestLosesNothing ==
  ASSUME HInv, NEW w \in Answers, NEW unsaid, w.truncated \/ Says(w, unsaid),
         Sound(Ingest(ledger, w)), NEW key
  PROVE  \/ Copies(ledger, key) <= Copies(Ingest(ledger, w), key)
         \/ BankCopies(Told(w, unsaid), key) <= Copies(Ingest(ledger, w), key)
<1> DEFINE new == Ingest(ledger, w)
           start == ReportedFrom(w.from, w.booked)
           theirs == Told(w, unsaid)
<1>1. Sound(ledger) /\ Sound(new)
  BY DEF HInv
<1>2. start \in Int
  BY Span DEF Answers, Windows, Batch
<1>3. \A e \in Booked(ledger) : e.date \in Int
  BY <1>1 DEF Booked, Sound, Entries
<1>4. CASE w.truncated \/ \A e \in Booked(ledger) : KeyOf(e) = key => e.date < start
  <2>1. \A e \in Booked(ledger) : KeyOf(e) = key => \E f \in Booked(new) : f.lid = e.lid
    BY <1>4, IngestKeepsHistory
  <2> HIDE DEF new
  <2>2. Copies(ledger, key) <= Copies(new, key)
    BY <1>1, <2>1, SurvivorsCount
  <2> QED
    BY <2>2 DEF new
<1>5. CASE ~w.truncated /\ \E e \in Booked(ledger) : KeyOf(e) = key /\ ~(e.date < start)
  <2>1. ASSUME NEW t \in theirs, BankKeyOf(t) = key PROVE t \in w.booked
    <3>1. t \in AtBank("booked") /\ t \notin unsaid /\ ~(t.date < start)
      BY <1>5, <2>1 DEF Told, Unmoved
    <3>2. t.date \in Int
      BY <3>1, AtBankIsBatch DEF Batch, Transactions
    <3>3. t.date >= start
      BY <1>2, <3>1, <3>2
    <3> QED
      BY <1>5, <3>1, <3>3 DEF Says
  <2>2. IsFiniteSet(w.booked)
    BY DEF Answers, Batch
  <2>3. ledger \in SUBSET Entries
    BY <1>1 DEF Sound
  <2>4. Mirrored(new, w)
    BY <1>5, <2>3, IngestMirrors
  <2>5. Copies(new, key) \in Nat
    BY <1>1, CopiesAreFinite
  <2>6. CASE \E t \in theirs : BankKeyOf(t) = key
    <3>1. Copies(new, key) = BankCopies(w.booked, key)
      BY <2>1, <2>4, <2>6 DEF Mirrored
    <3> HIDE DEF theirs
    <3>2. BankCopies(theirs, key) <= BankCopies(w.booked, key)
      BY <2>1, <2>2, FewerOfAPart
    <3> QED
      BY <3>1, <3>2 DEF theirs
  <2>7. CASE \A t \in theirs : BankKeyOf(t) # key
    <3> HIDE DEF theirs
    <3>1. BankCopies(theirs, key) = 0
      BY <2>7, NoneOfNone
    <3>2. BankCopies(theirs, key) <= Copies(new, key)
      BY <2>5, <3>1
    <3> QED
      BY <3>2 DEF theirs
  <2> QED
    BY <2>6, <2>7
<1> QED
  BY <1>4, <1>5

\* Whether it begins with the request, far later or a little later: an answer says
\* all that the bank books in its span, but for what it leaves unsaid.
LEMMA AnswerSays ==
  ASSUME HInv, NEW w \in Answers, NEW reach \in Reaches(w), ~w.truncated
  PROVE  Says(w, Unsaid(w, reach))
<1> DEFINE start == ReportedFrom(w.from, w.booked)
<1>1. /\ w.from \in Int /\ w.booked \in SUBSET Transactions /\ IsFiniteSet(w.booked)
      /\ \A t \in w.booked : t.date >= w.from
  BY DEF Answers, Windows, Batch
<1>2. w.booked = Since(AtBank("booked"), reach) /\ reach \in Int
  <2>1. \A depth \in Depths : day - depth \in Int
    BY HistoryAssumption DEF HInv, TypeOK
  <2>2. \A depth \in Depths : Max({w.from, day - depth}) \in Int
    BY <1>1, <2>1, GreaterOfTwo
  <2> QED
    BY <2>2 DEF Reaches
<1>3. ShortAnswer \in Nat
  BY LedgerAssumption
<1>4. start \in Int
  BY <1>1, Span
<1>5. \A t \in AtBank("booked") : t.date \in Int /\ (t.date >= reach => t \in w.booked)
  BY <1>2, AtBankIsBatch DEF Batch, Transactions, Since
<1>6. \A t \in w.booked : t.date \in Int /\ t.date >= reach
  BY <1>2, <1>5 DEF Since
<1>7. CASE reach - w.from > ShortAnswer /\ w.booked # {}
  <2>1. \A t \in w.booked : ~(t.date - w.from <= ShortAnswer)
    BY <1>1, <1>2, <1>3, <1>6, <1>7
  <2>2. start = Min({t.date : t \in w.booked})
    BY <1>7, <2>1 DEF ReportedFrom
  <2>3. PICK first \in w.booked : start = first.date
    BY <1>1, <1>7, <2>2, FirstOfAnswer
  <2>4. start >= reach
    BY <1>6, <2>3
  <2> HIDE DEF start
  <2>5. \A t \in AtBank("booked") : t.date >= start => t \in w.booked
    BY <1>2, <1>4, <1>5, <2>4
  <2> QED
    BY <2>5 DEF Says, start
<1>8. CASE ~(reach - w.from > ShortAnswer /\ w.booked # {})
  <2>1. start >= w.from
    <3>1. CASE start = w.from
      BY <1>1, <3>1
    <3>2. CASE start # w.from
      <4>1. w.booked # {} /\ start = Min({t.date : t \in w.booked})
        BY <3>2 DEF ReportedFrom
      <4>2. \E t \in w.booked : start = t.date
        BY <1>1, <4>1, FirstOfAnswer
      <4> QED
        BY <1>1, <4>2
    <3> QED
      BY <3>1, <3>2
  <2>2. Unsaid(w, reach) =
          {t \in AtBank("booked") : t.date >= w.from /\ t.date < reach}
    BY <1>8 DEF Unsaid
  <2> HIDE DEF start
  <2>3. \A t \in AtBank("booked") \ Unsaid(w, reach) : t.date >= start => t \in w.booked
    BY <1>1, <1>2, <1>4, <1>5, <2>1, <2>2
  <2> QED
    BY <2>3 DEF Says, start
<1> QED
  BY <1>7, <1>8

\* One answer, held against all that it tells.
LEMMA AnswerForgetsNothing ==
  ASSUME HInv, NEW w \in Answers, NEW unsaid, w.truncated \/ Says(w, unsaid),
         Sound(Ingest(ledger, w))
  PROVE  ~Loses(ledger, Ingest(ledger, w), Told(w, unsaid))
<1> DEFINE new == Ingest(ledger, w)
           theirs == Told(w, unsaid)
<1>1. ASSUME NEW key, Copies(new, key) < Copies(ledger, key),
             Copies(new, key) < BankCopies(theirs, key)
      PROVE  FALSE
  <2>1. \/ Copies(ledger, key) <= Copies(new, key)
        \/ BankCopies(theirs, key) <= Copies(new, key)
    BY IngestLosesNothing
  <2>2. Copies(new, key) \in Nat /\ Copies(ledger, key) \in Nat
    BY CopiesAreFinite DEF HInv
  <2>3. BankCopies(theirs, key) \in Nat
    <3>1. IsFiniteSet(AtBank("booked"))
      BY AtBankIsBatch DEF Batch
    <3> DEFINE S == {t \in theirs : BankKeyOf(t) = key}
    <3>2. S \in SUBSET AtBank("booked")
      BY DEF Told, Unmoved
    <3> HIDE DEF S
    <3>3. IsFiniteSet(S)
      BY <3>1, <3>2, FS_Subset
    <3>4. Cardinality(S) \in Nat
      BY <3>3, FS_CardinalityType
    <3> QED
      BY <3>4 DEF BankCopies, S
  <2> HIDE DEF theirs, new
  <2> QED
    BY <1>1, <2>1, <2>2, <2>3
<1> HIDE DEF theirs, new
<1>2. ~Loses(ledger, new, theirs)
  BY <1>1 DEF Loses
<1> QED
  BY <1>2 DEF theirs, new

LEMMA FetchForgetsNothing ==
  ASSUME HInv, Fetch, HInv', hit'
  PROVE  LET w == Last(queue')
             told == Unmoved(ledger, ReportedFrom(w.from, w.booked))
         IN /\ w.truncated => ~Loses(ledger, ledger', told)
            /\ \A reach \in Reaches(w) :
                 ~Loses(ledger, ledger', told \ Unsaid(w, reach))
<1>1. PICK w : Answered(w)
  BY FetchAnswers DEF Broken
<1>2. Last(queue') = w /\ ledger' = Ingest(ledger, w)
  BY <1>1, LastAppended DEF Answered, HInv
<1>3. Sound(Ingest(ledger, w)) /\ w \in Answers
  BY <1>1, <1>2 DEF Answered, HInv
<1> DEFINE told == Unmoved(ledger, ReportedFrom(w.from, w.booked))
<1>4. ASSUME w.truncated PROVE ~Loses(ledger, Ingest(ledger, w), told)
  <2>1. ~Loses(ledger, Ingest(ledger, w), Told(w, {}))
    BY <1>3, <1>4, AnswerForgetsNothing
  <2>2. Told(w, {}) = told
    BY DEF Told
  <2> HIDE DEF told
  <2> QED
    BY <2>1, <2>2
<1>5. ASSUME NEW reach \in Reaches(w)
      PROVE  ~Loses(ledger, Ingest(ledger, w), told \ Unsaid(w, reach))
  <2>1. w.truncated \/ Says(w, Unsaid(w, reach))
    BY <1>3, AnswerSays
  <2>2. ~Loses(ledger, Ingest(ledger, w), Told(w, Unsaid(w, reach)))
    BY <1>3, <2>1, AnswerForgetsNothing
  <2>3. Told(w, Unsaid(w, reach)) = told \ Unsaid(w, reach)
    BY DEF Told
  <2> HIDE DEF told
  <2> QED
    BY <2>2, <2>3
<1> HIDE DEF told
<1> QED
  BY <1>2, <1>4, <1>5 DEF told

\* Whatever a bank answers - all, a part, nothing, less than was asked - no payment
\* that it still books is lost from the ledger, but for those dated back out of the
\* span and those left out without a sign (Unsaid), at every depth a bank may have.
THEOREM AnswersForgetNothing == Spec => NeverForgets
<1> DEFINE Keeps ==
      LET w == Last(queue')
          told == Unmoved(ledger, ReportedFrom(w.from, w.booked))
      IN /\ w.truncated => ~Loses(ledger, ledger', told)
         /\ \A reach \in Reaches(w) :
              ~Loses(ledger, ledger', told \ Unsaid(w, reach))
<1>1. HInv /\ HInv' /\ [Next]_vars =>
        [phase = "idle" /\ phase' = "fetched" /\ hit' => Keeps]_vars
  <2> SUFFICES ASSUME HInv, HInv', Next, phase = "idle", phase' = "fetched", hit'
               PROVE  Keeps
    OBVIOUS
  <2>1. Fetch
    BY OnlyFetchOpens
  <2> QED
    BY <2>1, FetchForgetsNothing
<1> QED
  BY <1>1, AlwaysSound, PTL DEF Spec, NeverForgets

-----------------------------------------------------------------------------
(* What a rebuild brings back *)

Before(e, windows) ==
  \A i \in DOMAIN windows : e.date < ReportedFrom(windows[i].from, windows[i].booked)

Complete(windows) == \A i \in DOMAIN windows : ~windows[i].truncated

\* Each booked entry is of the windows, or older than all of them and not replaced.
Covered(entries, windows) ==
  \A e \in Booked(entries) :
    e \in Replay(windows) \/ (e.lid \notin LidsOf(Replay(windows)) /\ Before(e, windows))

\* What is older than the archive's windows is of the legacy cache: it is neither
\* replaced nor, on disk, ever missing.
OldAreLegacy(entries, windows) ==
  \A e \in Booked(entries) : Before(e, windows) => e \in LegacyEntries

Accounted(entries, windows, lacking) ==
  Complete(windows) => OldAreLegacy(entries, windows) /\ (lacking \/ Covered(entries, windows))

Carries(entries, saved, windows) ==
  Complete(windows) => \A e \in Booked(entries) : Before(e, windows) => e \in saved

RInv ==
  /\ day >= FirstDay
  /\ \A p \in Payments : /\ p \in Legacy => bank[p].status \in {"booked", "gone"}
                         /\ bank[p].status = "pending" => bank[p].date >= FirstDay
  /\ phase # "fetched" => queue = <<>>
  /\ ~lostBatch =>
       /\ Accounted(disk.ledger, archive, behind.disk)
       /\ Accounted(ledger, archive \o queue, behind.memory)
       /\ Carries(ledger, disk.ledger, archive \o queue)

\* Of one more window.
LEMMA BeforeOneMore ==
  ASSUME NEW windows \in Seq(Answers), NEW w \in Answers, NEW e
  PROVE  Before(e, Append(windows, w)) <=>
           /\ Before(e, windows) /\ e.date < ReportedFrom(w.from, w.booked)
<1> DEFINE more == Append(windows, w)
           n == Len(windows)
<1>1. /\ DOMAIN more = 1 .. n + 1 /\ DOMAIN windows = 1 .. n /\ n \in Nat
      /\ more[n + 1] = w /\ \A i \in 1 .. n : more[i] = windows[i]
  BY Appended
<1>2. \A i \in 1 .. n + 1 : i \in 1 .. n \/ i = n + 1
  BY <1>1
<1>3. n + 1 \in 1 .. n + 1 /\ \A i \in 1 .. n : i \in 1 .. n + 1
  BY <1>1
<1> HIDE DEF more, n
<1> QED
  BY <1>1, <1>2, <1>3 DEF Before, more

LEMMA CompleteOneMore ==
  ASSUME NEW windows \in Seq(Answers), NEW w \in Answers
  PROVE  Complete(Append(windows, w)) => Complete(windows) /\ ~w.truncated
<1> DEFINE more == Append(windows, w)
           n == Len(windows)
<1>1. /\ DOMAIN more = 1 .. n + 1 /\ DOMAIN windows = 1 .. n /\ n \in Nat
      /\ more[n + 1] = w /\ \A i \in 1 .. n : more[i] = windows[i]
  BY Appended
<1>2. n + 1 \in 1 .. n + 1 /\ \A i \in 1 .. n : i \in 1 .. n + 1
  BY <1>1
<1> HIDE DEF more, n
<1> QED
  BY <1>1, <1>2 DEF Complete, more

\* What an answer delivers is not older than its span.
LEMMA FreshIsNotBefore ==
  ASSUME NEW w \in Answers, NEW e \in Prepare(w.booked, "booked")
  PROVE  ~(e.date < ReportedFrom(w.from, w.booked))
<1>1. PICK t \in w.booked : e.date = t.date
  BY DEF Prepare
<1>2. /\ w.from \in Int /\ w.booked \in SUBSET Transactions /\ IsFiniteSet(w.booked)
      /\ \A u \in w.booked : u.date >= w.from
  BY DEF Answers, Windows, Batch
<1>3. ReportedFrom(w.from, w.booked) \in Int /\ ReportedFrom(w.from, w.booked) <= t.date
  BY <1>2, Span
<1>4. t.date \in Int
  BY <1>2 DEF Transactions
<1> QED
  BY <1>1, <1>3, <1>4

LEMMA ReplayedIsNotBefore ==
  ASSUME NEW windows \in Seq(Answers), NEW e \in Booked(Replay(windows))
  PROVE  ~Before(e, windows)
<1> DEFINE n == Len(windows)
           From(i) == ReportedFrom(windows[i].from, windows[i].booked)
<1>1. n \in Nat /\ DOMAIN windows = 1 .. n /\ \A i \in 1 .. n : windows[i] \in Answers
  OBVIOUS
<1>2. PICK f : Stages(f, windows) /\ Replay(windows) = f[n]
  BY ReplayInStages
<1> DEFINE Good == {k \in Nat :
             k <= n => \A b \in Booked(f[k]) : \E i \in 1 .. k : ~(b.date < From(i))}
<1>3. 0 \in Good
  <2>1. Booked(f[0]) = {}
    BY <1>2 DEF Stages, Booked
  <2> QED
    BY <2>1
<1>4. ASSUME NEW k \in Nat, k \in Good PROVE k + 1 \in Good
  <2> SUFFICES ASSUME k + 1 <= n, NEW b \in Booked(f[k + 1])
               PROVE  \E i \in 1 .. k + 1 : ~(b.date < From(i))
    OBVIOUS
  <2> DEFINE w == windows[k + 1]
  <2>1. f[k + 1] = Ingest(f[k], w)
    BY <1>2 DEF Stages
  <2>2. k + 1 \in 1 .. k + 1 /\ k + 1 \in 1 .. n /\ \A i \in 1 .. k : i \in 1 .. k + 1
    BY <1>1
  <2>3. w \in Answers
    BY <1>1, <2>2
  <2>4. b \in Kept(f[k], w) \/ b \in Prepare(w.booked, "booked")
    BY <2>1, BookedAfter
  <2>5. CASE b \in Kept(f[k], w)
    <3>1. b \in Booked(f[k])
      BY <2>5 DEF Kept
    <3>2. PICK i \in 1 .. k : ~(b.date < From(i))
      BY <1>1, <1>4, <3>1
    <3> QED
      BY <2>2, <3>2
  <2>6. CASE b \in Prepare(w.booked, "booked")
    <3>1. ~(b.date < From(k + 1))
      BY <2>3, <2>6, FreshIsNotBefore
    <3> QED
      BY <2>2, <3>1
  <2> QED
    BY <2>4, <2>5, <2>6
<1> HIDE DEF Good
<1>5. n \in Good
  BY <1>1, <1>3, <1>4, SetInduction
<1>6. \E i \in 1 .. n : ~(e.date < From(i))
  BY <1>1, <1>2, <1>5 DEF Good
<1> QED
  BY <1>1, <1>6 DEF Before

\* The coverage of an archive is the start of its earliest span.
LEMMA BeforeIsCoverage ==
  ASSUME NEW windows \in Seq(Answers), windows # <<>>, NEW e, e.date \in Int
  PROVE  Before(e, windows) <=> e.date < Coverage(windows)
<1> DEFINE n == Len(windows)
           g == [i \in 1 .. n |-> ReportedFrom(windows[i].from, windows[i].booked)]
           S == {ReportedFrom(windows[i].from, windows[i].booked) : i \in DOMAIN windows}
<1>1. n \in Nat /\ n # 0 /\ DOMAIN windows = 1 .. n /\ \A i \in 1 .. n : windows[i] \in Answers
  OBVIOUS
<1>2. ASSUME NEW i \in 1 .. n PROVE ReportedFrom(windows[i].from, windows[i].booked) \in Int
  <2>1. PICK w \in Answers : w = windows[i]
    BY <1>1
  <2>2. w.from \in Int /\ w.booked \in SUBSET Transactions /\ IsFiniteSet(w.booked)
    BY DEF Answers, Windows, Batch
  <2>3. ReportedFrom(w.from, w.booked) \in Int
    BY <2>2, Span
  <2> QED
    BY <2>1, <2>3
<1>3. IsFiniteSet(S)
  <2>1. DOMAIN g = 1 .. n /\ S = Range(g) /\ g \in [1 .. n -> S]
    BY <1>1 DEF Range
  <2>2. IsFiniteSet(1 .. n)
    BY <1>1, FS_Interval
  <2> HIDE DEF g, S
  <2> QED
    BY <2>1, <2>2, ImageIsFinite
<1>4. S \in SUBSET Int /\ \A i \in 1 .. n : ReportedFrom(windows[i].from, windows[i].booked) \in S
  BY <1>1, <1>2
<1>5. \A x \in S : \E i \in 1 .. n : x = ReportedFrom(windows[i].from, windows[i].booked)
  BY <1>1
<1>6. Coverage(windows) = Min(S)
  BY DEF Coverage
<1> HIDE DEF S, n, g
<1>7. S # {}
  BY <1>1, <1>4
<1>8. Min(S) \in S /\ \A y \in S : Min(S) <= y
  BY <1>3, <1>4, <1>7, Extremes
<1>9. ASSUME Before(e, windows) PROVE e.date < Coverage(windows)
  <2>1. PICK i \in 1 .. n : Min(S) = ReportedFrom(windows[i].from, windows[i].booked)
    BY <1>5, <1>8
  <2> QED
    BY <1>1, <1>6, <1>9, <2>1 DEF Before
<1>10. ASSUME e.date < Coverage(windows) PROVE Before(e, windows)
  <2>1. ASSUME NEW i \in 1 .. n
        PROVE  e.date < ReportedFrom(windows[i].from, windows[i].booked)
    <3> DEFINE start == ReportedFrom(windows[i].from, windows[i].booked)
               least == Min(S)
    <3>1. start \in S /\ start \in Int
      BY <1>2, <1>4
    <3>2. least <= start /\ least \in Int /\ e.date < least
      BY <1>4, <1>6, <1>8, <1>10, <3>1
    <3> HIDE DEF start, least
    <3>3. e.date < start
      BY <3>1, <3>2
    <3> QED
      BY <3>3 DEF start
  <2> QED
    BY <1>1, <2>1 DEF Before
<1> QED
  BY <1>9, <1>10

\* A complete window, merged into a ledger and into the replay of its archive.
LEMMA MergeIsCovered ==
  ASSUME NEW windows \in Seq(Answers), NEW w \in Answers, ~w.truncated, NEW entries,
         LidsOf(Prepare(w.pending, "pending")) \cap LidsOf(LegacyEntries) = {},
         OldAreLegacy(entries, windows), Covered(entries, windows)
  PROVE  Covered(Ingest(entries, w), Append(windows, w))
<1> DEFINE new == Replay(windows)
           start == ReportedFrom(w.from, w.booked)
           fresh == Prepare(w.booked, "booked")
<1>1. Replay(Append(windows, w)) = Ingest(new, w)
  BY ReplayOfOneMore
<1> SUFFICES ASSUME NEW e \in Kept(entries, w) \cup fresh
             PROVE  \/ e \in Ingest(new, w)
                    \/ e.lid \notin LidsOf(Ingest(new, w)) /\ Before(e, Append(windows, w))
  BY <1>1, BookedAfter DEF Covered
<1>2. CASE e \in fresh
  BY <1>2 DEF Ingest
<1>3. CASE e \in Kept(entries, w)
  <2>1. e \in Booked(entries) /\ e.lid \notin LidsOf(fresh) /\ e.date < start
    BY <1>3 DEF Kept
  <2>2. e.status = "booked"
    BY <2>1 DEF Booked
  <2>3. CASE e \in new
    <3>1. e \in Kept(new, w)
      BY <2>1, <2>2, <2>3 DEF Kept, Booked
    <3> QED
      BY <3>1 DEF Ingest
  <2>4. CASE e \notin new
    <3>1. e.lid \notin LidsOf(new) /\ Before(e, windows)
      BY <2>1, <2>4 DEF Covered
    <3>2. Before(e, Append(windows, w))
      BY <2>1, <3>1, BeforeOneMore
    <3>3. e \in LegacyEntries
      BY <2>1, <3>1 DEF OldAreLegacy
    <3>4. e.lid \notin LidsOf(Prepare(w.pending, "pending"))
      BY <3>3 DEF LidsOf
    <3>5. Ingest(new, w) \subseteq new \cup fresh \cup Prepare(w.pending, "pending")
      BY DEF Ingest, Kept, Booked, Waiting
    <3>6. e.lid \notin LidsOf(Ingest(new, w))
      BY <2>1, <3>1, <3>4, <3>5 DEF LidsOf
    <3> QED
      BY <3>2, <3>6
  <2> QED
    BY <2>3, <2>4
<1> QED
  BY <1>2, <1>3

\* What is older than all windows after a merge was in the ledger before it.
LEMMA MergeAddsNothingOld ==
  ASSUME NEW windows \in Seq(Answers), NEW w \in Answers, NEW entries,
         NEW e \in Booked(Ingest(entries, w)), Before(e, Append(windows, w))
  PROVE  e \in Booked(entries) /\ Before(e, windows)
<1>1. Before(e, windows) /\ e.date < ReportedFrom(w.from, w.booked)
  BY BeforeOneMore
<1>2. e \notin Prepare(w.booked, "booked")
  BY <1>1, FreshIsNotBefore
<1>3. e \in Kept(entries, w)
  BY <1>2, BookedAfter
<1> QED
  BY <1>1, <1>3 DEF Kept

LEMMA RebuiltAddsNothingOld ==
  ASSUME NEW windows \in Seq(Answers), NEW old,
         NEW e \in Booked(Rebuilt(old, windows)), Before(e, windows)
  PROVE  e \in Booked(old)
<1>1. CASE windows = <<>>
  BY <1>1 DEF Rebuilt
<1>2. CASE windows # <<>>
  <2>1. e \in Replay(windows) \/ e \in Booked(old)
    BY <1>2 DEF Rebuilt, Booked
  <2>2. e \notin Booked(Replay(windows))
    BY ReplayedIsNotBefore
  <2> QED
    BY <2>1, <2>2 DEF Booked
<1> QED
  BY <1>1, <1>2

\* A rebuilt ledger lacks no window.
LEMMA RebuiltIsAccounted ==
  ASSUME NEW windows \in Seq(Answers), NEW old, Sound(old), NEW lacking, NEW now,
         Accounted(old, windows, lacking)
  PROVE  Accounted(Rebuilt(old, windows), windows, now)
<1> SUFFICES ASSUME Complete(windows)
             PROVE  /\ OldAreLegacy(Rebuilt(old, windows), windows)
                    /\ Covered(Rebuilt(old, windows), windows)
  BY DEF Accounted
<1>1. OldAreLegacy(Rebuilt(old, windows), windows)
  BY RebuiltAddsNothingOld DEF Accounted, OldAreLegacy
<1>2. CASE windows = <<>>
  <2>1. \A e : Before(e, windows) /\ e.lid \notin LidsOf(Replay(windows))
    BY <1>2, ReplayOfNone DEF Before, LidsOf
  <2> QED
    BY <1>1, <2>1 DEF Covered
<1>3. CASE windows # <<>>
  <2> SUFFICES ASSUME NEW e \in Booked(Rebuilt(old, windows)), e \notin Replay(windows)
               PROVE  e.lid \notin LidsOf(Replay(windows)) /\ Before(e, windows)
    BY <1>1 DEF Covered
  <2>1. e \in Booked(old) /\ e.lid \notin LidsOf(Replay(windows)) /\ e.date < Coverage(windows)
    BY <1>3 DEF Rebuilt, Booked
  <2>2. e.date \in Int
    BY <2>1 DEF Booked, Sound, Entries
  <2> QED
    BY <1>3, <2>1, <2>2, BeforeIsCoverage
<1> QED
  BY <1>1, <1>2, <1>3

\* Pending transactions are of the time after the first day, and never payments of
\* the legacy cache: they have no id of an entry of it.
LEMMA PendingIsNotLegacy ==
  ASSUME HInv, RInv, NEW b \in SUBSET AtBank("pending")
  PROVE  LidsOf(Prepare(b, "pending")) \cap LidsOf(LegacyEntries) = {}
<1> DEFINE legacy == {[pay |-> p, date |-> 0] : p \in Legacy}
<1>1. \A l \in LidsOf(Prepare(b, "pending")) : \E t \in b : l = LedgerId(b, t)
  BY DEF LidsOf, Prepare
<1>2. \A l \in LidsOf(LegacyEntries) : \E u \in legacy : l = LedgerId(legacy, u)
  BY DEF LidsOf, Prepare, LegacyEntries
<1> HIDE DEF legacy
<1> SUFFICES ASSUME NEW t \in b, NEW u \in legacy, LedgerId(b, t) = LedgerId(legacy, u)
             PROVE  FALSE
  BY <1>1, <1>2
<1> USE DEF legacy
<1>3. /\ t.pay \in Payments /\ bank[t.pay].status = "pending" /\ t.date = bank[t.pay].date
  BY DEF AtBank
<1>4. u.pay \in Legacy /\ u.date = 0 /\ u.pay \in Payments
  BY HistoryAssumption
<1>5. t.pay # u.pay /\ t.date # u.date
  <2>1. bank[u.pay].status \in {"booked", "gone"} /\ bank[t.pay].date >= FirstDay
    BY <1>3, <1>4 DEF RInv
  <2>2. FirstDay \in Nat /\ FirstDay # 0
    BY HistoryAssumption
  <2>3. t.date # 0
    BY <1>3, <2>1, <2>2
  <2> QED
    BY <1>3, <1>4, <2>1, <2>3
<1> HIDE DEF legacy
<1>6. \/ Tid[t.pay] # NoTid /\ LedgerId(b, t) = <<Tid[t.pay]>>
      \/ /\ Tid[t.pay] = NoTid
         /\ LedgerId(b, t) = <<<<What[t.pay], t.date>>, Cardinality(Twins(b, t))>>
  BY DEF LedgerId, Twins, Fingerprint
<1>7. \/ Tid[u.pay] # NoTid /\ LedgerId(legacy, u) = <<Tid[u.pay]>>
      \/ /\ Tid[u.pay] = NoTid
         /\ LedgerId(legacy, u) = <<<<What[u.pay], u.date>>, Cardinality(Twins(legacy, u))>>
  BY DEF LedgerId, Twins, Fingerprint
<1>8. CASE Tid[t.pay] # NoTid /\ Tid[u.pay] # NoTid
  <2>1. <<Tid[t.pay]>> = <<Tid[u.pay]>>
    BY <1>6, <1>7, <1>8
  <2> QED
    BY <1>3, <1>4, <1>5, <1>8, <2>1, LedgerAssumption
<1>9. CASE Tid[t.pay] = NoTid /\ Tid[u.pay] = NoTid
  <2>1. <<<<What[t.pay], t.date>>, Cardinality(Twins(b, t))>>
          = <<<<What[u.pay], u.date>>, Cardinality(Twins(legacy, u))>>
    BY <1>6, <1>7, <1>9
  <2>2. <<What[t.pay], t.date>> = <<What[u.pay], u.date>>
    BY <2>1
  <2> QED
    BY <1>5, <2>2
<1>10. CASE Tid[t.pay] # NoTid /\ Tid[u.pay] = NoTid
  <2>1. <<Tid[t.pay]>> = <<<<What[u.pay], u.date>>, Cardinality(Twins(legacy, u))>>
    BY <1>6, <1>7, <1>10
  <2> QED
    BY <2>1
<1>11. CASE Tid[t.pay] = NoTid /\ Tid[u.pay] # NoTid
  <2>1. <<<<What[t.pay], t.date>>, Cardinality(Twins(b, t))>> = <<Tid[u.pay]>>
    BY <1>6, <1>7, <1>11
  <2> QED
    BY <2>1
<1> QED
  BY <1>8, <1>9, <1>10, <1>11

-----------------------------------------------------------------------------
(* The steps, for what a rebuild brings back *)

LEMMA NothingAppended ==
  ASSUME NEW s \in Seq(Answers)
  PROVE  s \o <<>> = s
  OBVIOUS

LEMMA InitRecovers == Init => RInv
<1> SUFFICES ASSUME Init PROVE RInv
  OBVIOUS
<1>1. /\ day = FirstDay /\ FirstDay \in Nat /\ queue = <<>> /\ archive = <<>>
      /\ ledger = LegacyEntries /\ disk.ledger = LegacyEntries
  BY HistoryAssumption DEF Init
<1>2. archive \o queue = <<>>
  BY <1>1
<1>3. \A e : Before(e, <<>>) /\ e.lid \notin LidsOf(Replay(<<>>))
  BY ReplayOfNone DEF Before, LidsOf
<1>4. OldAreLegacy(LegacyEntries, <<>>) /\ Covered(LegacyEntries, <<>>)
  BY <1>3 DEF OldAreLegacy, Covered, Booked
<1>5. \A lacking : Accounted(LegacyEntries, <<>>, lacking)
  BY <1>4 DEF Accounted
<1>6. Carries(LegacyEntries, LegacyEntries, <<>>)
  BY DEF Carries, Booked
<1>7. \A p \in Payments : /\ p \in Legacy => bank[p].status \in {"booked", "gone"}
                          /\ bank[p].status # "pending"
  BY DEF Init
<1> QED
  BY <1>1, <1>2, <1>5, <1>6, <1>7 DEF RInv

LEMMA BankMoveRecovers ==
  ASSUME HInv, RInv, NEW p \in Payments, NEW status \in {"pending", "booked", "gone"},
         NEW date, BankMove(p, status, date),
         status = "pending" => p \notin Legacy /\ date >= FirstDay
  PROVE  RInv'
<1>1. bank' = [bank EXCEPT ![p] = [status |-> status, date |-> date]]
  BY DEF BankMove
<1>2. bank \in [Payments -> BankStates]
  BY DEF HInv, TypeOK
<1>3. \A q \in Payments : /\ q \in Legacy => bank'[q].status \in {"booked", "gone"}
                          /\ bank'[q].status = "pending" => bank'[q].date >= FirstDay
  BY <1>1, <1>2 DEF RInv
<1>4. UNCHANGED <<day, session, ledger, backfilled, disk, queue, archive,
                  phase, hit, lostBatch, behind>>
  BY DEF BankMove
<1> QED
  BY <1>3, <1>4 DEF RInv

LEMMA BankStepRecovers ==
  ASSUME HInv, RInv, BankStep
  PROVE  RInv'
<1>1. ASSUME NEW p \in Payments, Announce(p) PROVE RInv'
  <2>1. p \notin Legacy /\ day >= FirstDay
    BY <1>1 DEF Announce, RInv
  <2> QED
    BY <1>1, <2>1, BankMoveRecovers DEF Announce
<1>2. ASSUME NEW p \in Payments, Cancel(p) PROVE RInv'
  BY <1>2, BankMoveRecovers DEF Cancel
<1>3. ASSUME NEW p \in Payments, NEW date, Book(p, date) \/ Redate(p, date) PROVE RInv'
  BY <1>3, BankMoveRecovers DEF Book, Redate
<1>4. CASE NextDay
  <2>1. day' >= FirstDay
    BY <1>4, HistoryAssumption DEF NextDay, RInv, HInv, TypeOK
  <2> QED
    BY <1>4, <2>1 DEF NextDay, RInv
<1>5. CASE Relink
  BY <1>5 DEF Relink, RInv
<1> QED
  BY <1>1, <1>2, <1>3, <1>4, <1>5 DEF BankStep

LEMMA FetchRecovers ==
  ASSUME HInv, RInv, Fetch
  PROVE  RInv'
<1>1. /\ phase = "idle" /\ phase' = "fetched"
      /\ UNCHANGED <<day, session, bank, disk, archive, lostBatch, behind>>
  BY FetchAnswers
<1>2. PICK w : Answered(w) \/ Broken(w)
  BY FetchAnswers
<1>3. w \in Answers /\ archive \in Seq(Answers)
  BY <1>2 DEF Answered, Broken, HInv
<1>4. queue = <<>>
  BY <1>1 DEF RInv
<1>5. archive \o queue = archive /\ archive \o <<w>> = Append(archive, w)
  BY <1>3, <1>4, NothingAppended, Appended
<1>6. queue' = <<w>> \/ (queue' = <<>> /\ Broken(w))
  BY <1>2, <1>4 DEF Answered, Broken
<1>7. ASSUME ~lostBatch
      PROVE  /\ Accounted(ledger', archive \o queue', behind.memory)
             /\ Carries(ledger', disk.ledger, archive \o queue')
  <2>1. /\ Accounted(ledger, archive, behind.memory)
        /\ Carries(ledger, disk.ledger, archive)
    BY <1>5, <1>7 DEF RInv
  <2>2. CASE queue' = <<>> /\ Broken(w)
    <3>1. ledger' = ledger /\ archive \o queue' = archive
      BY <1>3, <2>2, NothingAppended DEF Broken
    <3> QED
      BY <2>1, <3>1
  <2>3. CASE queue' = <<w>>
    <3>1. archive \o queue' = Append(archive, w)
      BY <1>5, <2>3
    <3>2. SUFFICES ASSUME Complete(Append(archive, w))
                   PROVE  /\ OldAreLegacy(ledger', Append(archive, w))
                          /\ behind.memory \/ Covered(ledger', Append(archive, w))
                          /\ \A e \in Booked(ledger') :
                               Before(e, Append(archive, w)) => e \in disk.ledger
      BY <3>1 DEF Accounted, Carries
    <3>3. Complete(archive) /\ ~w.truncated
      BY <1>3, <3>2, CompleteOneMore
    <3>4. Answered(w)
      BY <1>2, <3>3 DEF Broken
    <3>5. ledger' = Ingest(ledger, w) /\ w.pending \subseteq AtBank("pending")
      BY <3>4 DEF Answered
    <3>6. OldAreLegacy(ledger, archive) /\ (behind.memory \/ Covered(ledger, archive))
      BY <2>1, <3>3 DEF Accounted
    <3>7. OldAreLegacy(ledger', Append(archive, w))
      BY <1>3, <3>5, <3>6, MergeAddsNothingOld DEF OldAreLegacy
    <3>8. ASSUME ~behind.memory PROVE Covered(ledger', Append(archive, w))
      <4>1. LidsOf(Prepare(w.pending, "pending")) \cap LidsOf(LegacyEntries) = {}
        BY <3>5, PendingIsNotLegacy
      <4> QED
        BY <1>3, <3>3, <3>5, <3>6, <3>8, <4>1, MergeIsCovered
    <3>9. \A e \in Booked(ledger') : Before(e, Append(archive, w)) => e \in disk.ledger
      BY <1>3, <2>1, <3>3, <3>5, MergeAddsNothingOld DEF Carries
    <3> QED
      BY <3>7, <3>8, <3>9
  <2> QED
    BY <1>6, <2>2, <2>3
<1> QED
  BY <1>1, <1>7 DEF RInv

LEMMA FlushRecovers ==
  ASSUME HInv, RInv, NEW written \in BOOLEAN, Flush(written)
  PROVE  RInv'
<1>1. /\ phase' = "flushed" /\ queue' = <<>>
      /\ archive' = IF written THEN archive \o queue ELSE archive
      /\ lostBatch' = (lostBatch \/ ~written)
      /\ behind' = [behind EXCEPT !.disk = @ \/ queue # <<>>]
      /\ UNCHANGED <<day, session, bank, ledger, backfilled, disk, hit>>
  BY DEF Flush
<1>2. /\ archive \in Seq(Answers) /\ queue \in Seq(Answers)
      /\ behind \in [memory : BOOLEAN, disk : BOOLEAN]
  BY DEF HInv, TypeOK
<1>3. behind'.memory = behind.memory /\ (behind'.disk <=> behind.disk \/ queue # <<>>)
  BY <1>1, <1>2
<1>4. ASSUME ~lostBatch'
      PROVE  /\ Accounted(disk.ledger, archive', behind'.disk)
             /\ Accounted(ledger, archive' \o queue', behind'.memory)
             /\ Carries(ledger, disk.ledger, archive' \o queue')
  <2>1. ~lostBatch /\ archive' = archive \o queue
    BY <1>1, <1>4
  <2>2. archive \o queue \in Seq(Answers)
    BY <1>2
  <2>3. archive' \o queue' = archive \o queue
    BY <1>1, <2>1, <2>2, NothingAppended
  <2>4. CASE queue = <<>>
    <3>1. archive' = archive
      BY <1>2, <2>1, <2>4, NothingAppended
    <3>2. behind'.disk <=> behind.disk
      BY <1>3, <2>4
    <3> QED
      BY <1>3, <2>1, <2>3, <3>1, <3>2 DEF RInv, Accounted
  <2>5. CASE queue # <<>>
    <3>1. Complete(archive \o queue) => Complete(archive)
      BY <1>2 DEF Complete
    <3>2. \A e : Before(e, archive \o queue) => Before(e, archive)
      BY <1>2 DEF Before
    <3>3. Accounted(disk.ledger, archive \o queue, behind'.disk)
      BY <1>3, <2>1, <2>5, <3>1, <3>2 DEF RInv, Accounted, OldAreLegacy
    <3> QED
      BY <1>3, <2>1, <2>3, <3>3 DEF RInv
  <2> QED
    BY <2>4, <2>5
<1> QED
  BY <1>1, <1>4 DEF RInv

LEMMA SaveRecovers ==
  ASSUME HInv, RInv, NEW saved \in BOOLEAN, Save(saved)
  PROVE  RInv'
<1>1. /\ phase = "flushed" /\ phase' = "idle" /\ Write(saved, ledger)
      /\ behind' = [behind EXCEPT !.disk = IF saved THEN behind.memory ELSE @]
      /\ UNCHANGED <<day, session, bank, ledger, backfilled, queue, archive, lostBatch>>
  BY DEF Save
<1>2. archive \in Seq(Answers) /\ behind \in [memory : BOOLEAN, disk : BOOLEAN]
  BY DEF HInv, TypeOK
<1>3. queue = <<>> /\ archive \o queue = archive
  BY <1>1, <1>2, NothingAppended DEF RInv
<1>4. CASE saved
  <2>1. disk'.ledger = ledger /\ behind'.disk = behind.memory /\ behind'.memory = behind.memory
    BY <1>1, <1>2, <1>4 DEF Write
  <2>2. Carries(ledger, ledger, archive)
    BY DEF Carries, Booked
  <2> QED
    BY <1>1, <1>3, <2>1, <2>2 DEF RInv
<1>5. CASE ~saved
  <2>1. disk' = disk /\ behind' = behind
    BY <1>1, <1>2, <1>5 DEF Write
  <2> QED
    BY <1>1, <2>1 DEF RInv
<1> QED
  BY <1>4, <1>5

LEMMA RebuildRecovers ==
  ASSUME HInv, RInv, NEW saved \in BOOLEAN, Rebuild(saved)
  PROVE  RInv'
<1>1. /\ phase = "idle" /\ ledger' = Rebuilt(ledger, archive) /\ Write(saved, ledger')
      /\ behind' = [memory |-> FALSE, disk |-> ~saved /\ behind.disk]
      /\ UNCHANGED <<day, session, bank, backfilled, queue, archive, phase, hit, lostBatch>>
  BY DEF Rebuild
<1>2. archive \in Seq(Answers) /\ Sound(ledger) /\ behind \in [memory : BOOLEAN, disk : BOOLEAN]
  BY DEF HInv, TypeOK
<1>3. queue = <<>> /\ archive \o queue = archive
  BY <1>1, <1>2, NothingAppended DEF RInv
<1>4. ASSUME ~lostBatch, NEW now PROVE Accounted(ledger', archive, now)
  BY <1>1, <1>2, <1>3, <1>4, RebuiltIsAccounted DEF RInv
<1>5. CASE saved
  <2>1. disk'.ledger = ledger' /\ behind'.disk = FALSE /\ behind'.memory = FALSE
    BY <1>1, <1>5 DEF Write
  <2>2. Carries(ledger', ledger', archive)
    BY DEF Carries, Booked
  <2> QED
    BY <1>1, <1>3, <1>4, <2>1, <2>2 DEF RInv
<1>6. CASE ~saved
  <2>1. disk' = disk /\ behind'.disk = behind.disk /\ behind'.memory = FALSE
    BY <1>1, <1>2, <1>6 DEF Write
  <2>2. ASSUME ~lostBatch PROVE Carries(ledger', disk.ledger, archive)
    <3> SUFFICES ASSUME Complete(archive), NEW e \in Booked(ledger'), Before(e, archive)
                 PROVE  e \in disk.ledger
      BY DEF Carries
    <3>1. e \in Booked(ledger)
      BY <1>1, <1>2, RebuiltAddsNothingOld
    <3> QED
      BY <1>3, <2>2, <3>1 DEF RInv, Carries
  <2> QED
    BY <1>1, <1>3, <1>4, <2>1, <2>2 DEF RInv
<1> QED
  BY <1>5, <1>6

LEMMA RestartKeepsRInv ==
  ASSUME HInv, RInv, NEW upgraded \in BOOLEAN, Restart(upgraded)
  PROVE  RInv'
<1> DEFINE loaded == IF upgraded THEN Rebuilt(disk.ledger, archive) ELSE disk.ledger
           lacking == behind.disk /\ ~upgraded
<1>1. /\ ledger' = loaded /\ disk' = [disk EXCEPT !.ledger = loaded]
      /\ queue' = <<>> /\ phase' = "idle"
      /\ behind' = [memory |-> lacking, disk |-> lacking]
      /\ UNCHANGED <<day, session, bank, archive, lostBatch>>
  BY DEF Restart
<1>2. /\ archive \in Seq(Answers) /\ Sound(disk.ledger)
      /\ behind \in [memory : BOOLEAN, disk : BOOLEAN]
      /\ disk \in [ledger : SUBSET Entries, backfilled : Nat]
  BY DEF HInv, TypeOK
<1>3. ASSUME ~lostBatch PROVE Accounted(loaded, archive, lacking)
  <2>1. Accounted(disk.ledger, archive, behind.disk)
    BY <1>3 DEF RInv
  <2>2. CASE upgraded
    <3>1. Accounted(Rebuilt(disk.ledger, archive), archive, lacking)
      BY <1>2, <2>1, RebuiltIsAccounted
    <3> QED
      BY <2>2, <3>1
  <2>3. CASE ~upgraded
    BY <2>1, <2>3 DEF Accounted
  <2> QED
    BY <2>2, <2>3
<1> HIDE DEF loaded, lacking
<1>4. disk'.ledger = loaded /\ behind'.disk = lacking /\ behind'.memory = lacking
  BY <1>1, <1>2
<1>5. archive' \o queue' = archive
  BY <1>1, <1>2, NothingAppended
<1>6. Carries(loaded, loaded, archive)
  BY DEF Carries, Booked
<1> QED
  BY <1>1, <1>3, <1>4, <1>5, <1>6 DEF RInv

LEMMA StepRecovers == HInv /\ RInv /\ [Next]_vars => RInv'
<1> SUFFICES ASSUME HInv, RInv, [Next]_vars PROVE RInv'
  OBVIOUS
<1>1. CASE UNCHANGED vars
  BY <1>1 DEF vars, RInv
<1>2. CASE BankStep
  BY <1>2, BankStepRecovers
<1>3. CASE Fetch
  BY <1>3, FetchRecovers
<1>4. ASSUME NEW done \in BOOLEAN, Flush(done) \/ Save(done) \/ Rebuild(done) \/ Restart(done)
      PROVE  RInv'
  BY <1>4, FlushRecovers, SaveRecovers, RebuildRecovers, RestartKeepsRInv
<1> QED
  BY <1>1, <1>2, <1>3, <1>4 DEF Next

\* A rebuild from disk and archive has what the ledger in memory has.
LEMMA RebuildIsEnough == HInv /\ RInv => RestartRecovers
<1> SUFFICES ASSUME HInv, RInv, phase # "fetched", ~lostBatch, ~behind.memory,
                    \A i \in DOMAIN archive : ~archive[i].truncated,
                    NEW e \in Booked(ledger)
             PROVE  e \in Rebuilt(disk.ledger, archive)
  BY DEF RestartRecovers
<1>1. archive \in Seq(Answers) /\ Complete(archive) /\ queue = <<>> /\ e.date \in Int
  BY DEF HInv, RInv, Complete, Booked, Sound, Entries
<1>2. archive \o queue = archive
  BY <1>1, NothingAppended
<1>3. Covered(ledger, archive) /\ \A f \in Booked(ledger) : Before(f, archive) => f \in disk.ledger
  BY <1>1, <1>2 DEF RInv, Accounted, Carries
<1>4. CASE archive = <<>>
  <2>1. Before(e, archive)
    BY <1>4 DEF Before
  <2> QED
    BY <1>3, <1>4, <2>1 DEF Rebuilt
<1>5. CASE archive # <<>> /\ e \in Replay(archive)
  BY <1>5 DEF Rebuilt
<1>6. CASE archive # <<>> /\ e \notin Replay(archive)
  <2>1. e.lid \notin LidsOf(Replay(archive)) /\ Before(e, archive)
    BY <1>3, <1>6 DEF Covered
  <2>2. e.date < Coverage(archive)
    BY <1>1, <1>6, <2>1, BeforeIsCoverage
  <2>3. e \in Booked(disk.ledger)
    BY <1>3, <2>1 DEF Booked
  <2> QED
    BY <1>6, <2>1, <2>2, <2>3 DEF Rebuilt
<1> QED
  BY <1>4, <1>5, <1>6

\* A crash or a failed write of the ledger costs no payment once the archive is
\* written: the rebuild has every booked entry that was in memory, the exact entry
\* with its id and day, whatever was merged, cancelled or dated anew before.
THEOREM RebuildBringsBack == Spec => []RestartRecovers
<1>1. Spec => []RInv
  BY InitSound, InitRecovers, StepSound, StepRecovers, PTL DEF Spec
<1> QED
  BY <1>1, AlwaysSound, RebuildIsEnough, PTL

-----------------------------------------------------------------------------
(* Stages: functions that are defined from one number to the next *)

\* f has this first value, and this step at every number up to n.
IsStaged(f, n, S, base, step) ==
  /\ f \in [0 .. n -> S]
  /\ f[0] = base
  /\ \A k \in 1 .. n : f[k] = step[k][f[k - 1]]

\* A function of the numbers up to n is given by its first value and its step,
\* as long as the values stay in a set.
LEMMA StagesExist ==
  ASSUME NEW n \in Nat, NEW S, NEW base \in S, NEW step \in [1 .. n -> [S -> S]]
  PROVE  \E f : IsStaged(f, n, S, base, step)
<1> DEFINE Made == {m \in Nat : m <= n =>
                     \E f \in [0 .. m -> S] :
                       f[0] = base /\ \A k \in 1 .. m : f[k] = step[k][f[k - 1]]}
<1>1. 0 \in Made
  <2> DEFINE g == [i \in 0 .. 0 |-> base]
  <2>1. g \in [0 .. 0 -> S] /\ g[0] = base /\ \A k \in 1 .. 0 : FALSE
    OBVIOUS
  <2> QED
    BY <2>1
<1>2. ASSUME NEW m \in Nat, m \in Made PROVE m + 1 \in Made
  <2> SUFFICES ASSUME m + 1 <= n
               PROVE  \E f \in [0 .. m + 1 -> S] :
                        f[0] = base /\ \A k \in 1 .. m + 1 : f[k] = step[k][f[k - 1]]
    OBVIOUS
  <2>1. PICK f \in [0 .. m -> S] :
          f[0] = base /\ \A k \in 1 .. m : f[k] = step[k][f[k - 1]]
    BY <1>2
  <2> DEFINE next == step[m + 1][f[m]]
             g == [i \in 0 .. m + 1 |-> IF i = m + 1 THEN next ELSE f[i]]
  <2>2. next \in S
    BY <2>1
  <2>3. \A i \in 0 .. m + 1 : g[i] = IF i = m + 1 THEN next ELSE f[i]
    OBVIOUS
  <2>4. \A i \in 0 .. m + 1 : i # m + 1 => i \in 0 .. m
    OBVIOUS
  <2>5. g \in [0 .. m + 1 -> S]
    BY <2>1, <2>2, <2>4
  <2> HIDE DEF g
  <2>6. g[0] = base
    BY <2>1, <2>3
  <2>7. ASSUME NEW k \in 1 .. m + 1 PROVE g[k] = step[k][g[k - 1]]
    <3>1. k - 1 \in 0 .. m + 1 /\ k - 1 # m + 1 /\ k \in 0 .. m + 1
      OBVIOUS
    <3>2. g[k - 1] = f[k - 1]
      BY <2>3, <3>1
    <3>3. CASE k = m + 1
      BY <2>3, <3>1, <3>2, <3>3
    <3>4. CASE k # m + 1
      <4>1. k \in 1 .. m /\ g[k] = f[k]
        BY <2>3, <3>1, <3>4
      <4> QED
        BY <2>1, <3>2, <4>1
    <3> QED
      BY <3>3, <3>4
  <2> QED
    BY <2>5, <2>6, <2>7
<1> HIDE DEF Made
<1>3. n \in Made
  BY <1>1, <1>2, SetInduction
<1> QED
  BY <1>3 DEF Made, IsStaged

\* What the first value has and a step keeps, all values have.
LEMMA StagesKeep ==
  ASSUME NEW n \in Nat, NEW f, NEW G, f[0] \in G[0],
         \A k \in 1 .. n : f[k - 1] \in G[k - 1] => f[k] \in G[k]
  PROVE  f[n] \in G[n]
<1> DEFINE Good == {m \in Nat : m <= n => f[m] \in G[m]}
<1>1. 0 \in Good
  OBVIOUS
<1>2. ASSUME NEW m \in Nat, m \in Good PROVE m + 1 \in Good
  <2> SUFFICES ASSUME m + 1 <= n PROVE f[m + 1] \in G[m + 1]
    OBVIOUS
  <2>1. m + 1 \in 1 .. n /\ (m + 1) - 1 = m /\ f[m] \in G[m]
    BY <1>2
  <2> QED
    BY <2>1
<1> HIDE DEF Good
<1>3. n \in Good
  BY <1>1, <1>2, SetInduction
<1> QED
  BY <1>3 DEF Good

\* The smallest and the greatest of some numbers are among them.
LEMMA SmallestIsOne ==
  ASSUME NEW T \in SUBSET Nat, T # {}
  PROVE  Min(T) \in T
BY Smallest DEF Min

LEMMA GreatestOfOne ==
  ASSUME NEW p \in Nat
  PROVE  Max({p}) = p
BY DEF Max

-----------------------------------------------------------------------------
(* The book *)

\* A booking in the book.
Line == [id : Nat, account : Accounts, amount : Int, day : Nat,
         party : SUBSET Accounts, subject : SUBSET Accounts, category : STRING,
         other : STRING, keyword : BOOLEAN, pending : BOOLEAN]

\* What is booked is told apart by its ids.
HasIds(b) == b \in Seq(Line) /\ UniqueIds(b)

LEMMA LinesOf ==
  ASSUME NEW b, HasIds(b)
  PROVE  /\ DOMAIN b = 1 .. Len(b) /\ Len(b) \in Nat /\ b \in Seq(Range(b))
         /\ \A p \in DOMAIN b : b[p].amount \in Int /\ b[p].day \in Nat
<1>1. b \in Seq(Line)
  BY DEF HasIds
<1>2. \A p \in DOMAIN b : b[p] \in Line
  BY <1>1
<1>3. \A t \in Line : t.amount \in Int /\ t.day \in Nat
  BY DEF Line
<1>4. DOMAIN b = 1 .. Len(b) /\ Len(b) \in Nat /\ b \in Seq(Range(b))
  BY <1>1 DEF Range
<1> QED
  BY <1>1, <1>2, <1>3, <1>4

\* However a difference at the limit comes out, it is not over it.
LEMMA WithinIsNear ==
  ASSUME NEW x \in Int, NEW y \in Int, NEW limit \in Nat, Within(x, y, limit)
  PROVE  Distance(x, y) <= limit
BY DEF Within, Distance

\* What is booked is found by its id.
LEMMA FoundById ==
  ASSUME NEW b, HasIds(b), NEW p \in DOMAIN b, ~b[p].pending
  PROVE  Lookup(b, b[p].id) = b[p]
<1> DEFINE found == Positions(b, LAMBDA t : t.id = b[p].id)
<1>1. DOMAIN b = 1 .. Len(b) /\ Len(b) \in Nat
  BY DEF HasIds
<1>2. \A q \in DOMAIN b : ~b[q].pending /\ b[q].id = b[p].id => q = p
  BY DEF HasIds, UniqueIds
<1>3. found = {q \in DOMAIN b : ~b[q].pending /\ b[q].id = b[p].id}
  BY DEF Positions
<1> HIDE DEF found
<1>4. found = {p} /\ p \in Nat
  BY <1>1, <1>2, <1>3
<1>5. Lookup(b, b[p].id) = b[Max(found)]
  BY DEF Lookup, found
<1> QED
  BY <1>4, <1>5, GreatestOfOne

-----------------------------------------------------------------------------
(* Refunds *)

\* What DetectRefunds found after each place.
RefundStages(f, b) ==
  /\ f[0] = <<>>
  /\ \A p \in 1 .. Len(b) : f[p] = Refunded(b, f[p - 1], p)

RefundPairs(b) == [original : {b[p].id : p \in DOMAIN b}, refund : {b[p].id : p \in DOMAIN b}]

\* A refund and its payment.
Refunds(b, r) ==
  \E o, p \in DOMAIN b :
    /\ r.original = b[o].id /\ r.refund = b[p].id /\ IsRefundOf(b[p], b[o])

BothOf(r) == {r.original, r.refund}

RefundLists(b) ==
  {s \in Seq(RefundPairs(b)) :
     /\ \A n \in DOMAIN s : Refunds(b, s[n])
     /\ \A m, n \in DOMAIN s : m # n => BothOf(s[m]) \cap BothOf(s[n]) = {}}

LEMMA RefundedKeeps ==
  ASSUME NEW b, b \in Seq(Line), NEW p \in 1 .. Len(b), NEW s \in RefundLists(b)
  PROVE  Refunded(b, s, p) \in RefundLists(b)
<1> DEFINE used == {s[n].original : n \in DOMAIN s} \cup {s[n].refund : n \in DOMAIN s}
           olds == Originals(b, b[p], used)
           o == Min(olds)
           new == [original |-> b[o].id, refund |-> b[p].id]
<1>1. \/ Refunded(b, s, p) = s
      \/ /\ olds # {} /\ ~b[p].pending /\ MayRefund(b[p]) /\ b[p].id \notin used
         /\ Refunded(b, s, p) = Append(s, new)
  BY DEF Refunded
<1> SUFFICES ASSUME olds # {}, ~b[p].pending, MayRefund(b[p]), b[p].id \notin used
             PROVE  Append(s, new) \in RefundLists(b)
  BY <1>1
<1>2. DOMAIN b = 1 .. Len(b) /\ Len(b) \in Nat
  OBVIOUS
<1>3. olds = {q \in DOMAIN b :
               /\ ~b[q].pending
               /\ b[q].amount < 0 /\ Within(-b[q].amount, b[p].amount, 1)
               /\ b[q].account = b[p].account /\ b[q].other = b[p].other
               /\ b[q].id \notin used
               /\ b[q].day # 0 /\ b[p].day - b[q].day \in 0 .. RefundWindow}
  BY DEF Originals, Positions
<1> HIDE DEF olds
<1>4. o \in olds
  <2>1. olds \in SUBSET Nat
    BY <1>2, <1>3
  <2> QED
    BY <2>1, SmallestIsOne
<1> HIDE DEF o
<1>5. /\ o \in DOMAIN b /\ ~b[o].pending
      /\ b[o].amount < 0 /\ Within(-b[o].amount, b[p].amount, 1)
      /\ b[o].account = b[p].account /\ b[o].other = b[p].other
      /\ b[o].id \notin used /\ b[p].day - b[o].day \in 0 .. RefundWindow
  BY <1>3, <1>4
<1>6. /\ new \in RefundPairs(b) /\ BothOf(new) \cap used = {}
      /\ new.original = b[o].id /\ new.refund = b[p].id
  BY <1>2, <1>5 DEF RefundPairs, BothOf
<1>7. Refunds(b, new)
  <2>1. b[o].amount \in Int /\ b[p].amount \in Int
    <3>1. \A k \in DOMAIN b : b[k] \in Line
      OBVIOUS
    <3>2. b[o] \in Line /\ b[p] \in Line
      BY <1>2, <1>5, <3>1
    <3> QED
      BY <3>2 DEF Line
  <2>2. Distance(-b[o].amount, b[p].amount) <= 1
    BY <1>5, <2>1, WithinIsNear
  <2> QED
    BY <1>2, <1>5, <1>6, <2>2 DEF Refunds, IsRefundOf, MayRefund
<1>8. /\ s \in Seq(RefundPairs(b)) /\ \A n \in DOMAIN s : Refunds(b, s[n])
      /\ \A m, n \in DOMAIN s : m # n => BothOf(s[m]) \cap BothOf(s[n]) = {}
  BY DEF RefundLists
<1>9. \A n \in DOMAIN s : BothOf(s[n]) \subseteq used
  BY DEF BothOf
<1> HIDE DEF new, used
<1> DEFINE more == Append(s, new)
<1>10. /\ more \in Seq(RefundPairs(b)) /\ DOMAIN more = 1 .. Len(s) + 1 /\ Len(s) \in Nat
       /\ more[Len(s) + 1] = new /\ \A i \in 1 .. Len(s) : more[i] = s[i]
  BY <1>6, <1>8, Appended
<1>11. DOMAIN s = 1 .. Len(s)
  BY <1>8
<1> HIDE DEF more
<1>12. \A n \in DOMAIN more : (n \in DOMAIN s /\ more[n] = s[n]) \/ (n = Len(s) + 1 /\ more[n] = new)
  BY <1>10, <1>11
<1>13. \A n \in DOMAIN more : Refunds(b, more[n])
  BY <1>7, <1>8, <1>12
<1>14. \A m, n \in DOMAIN more : m # n => BothOf(more[m]) \cap BothOf(more[n]) = {}
  BY <1>6, <1>8, <1>9, <1>12
<1> QED
  BY <1>10, <1>13, <1>14 DEF RefundLists, more

LEMMA RefundsInStages ==
  ASSUME NEW b, b \in Seq(Line)
  PROVE  \E f : RefundStages(f, b) /\ DetectRefunds(b) = f[Len(b)]
<1> DEFINE n == Len(b)
           S == RefundLists(b)
           step == [k \in 1 .. n |-> [s \in S |-> Refunded(b, s, k)]]
           Graph(f) == f = [p \in 0 .. n |-> IF p = 0 THEN <<>> ELSE Refunded(b, f[p - 1], p)]
           upTo == CHOOSE f : Graph(f)
<1>1. n \in Nat
  OBVIOUS
<1>2. <<>> \in S
  BY DEF RefundLists
<1>3. \A k \in 1 .. n, s \in S : Refunded(b, s, k) \in S
  BY RefundedKeeps
<1>4. step \in [1 .. n -> [S -> S]]
  BY <1>3
<1>5. \A k \in 1 .. n, s \in S : step[k][s] = Refunded(b, s, k)
  OBVIOUS
<1>6. DetectRefunds(b) = upTo[n]
  BY DEF DetectRefunds
<1> HIDE DEF S, step, upTo
<1>7. PICK f : IsStaged(f, n, S, <<>>, step)
  <2> HIDE DEF n
  <2> QED
    BY <1>1, <1>2, <1>4, StagesExist
<1>8. \A k \in 0 .. n : f[k] = IF k = 0 THEN <<>> ELSE Refunded(b, f[k - 1], k)
  <2> SUFFICES ASSUME NEW k \in 0 .. n, k # 0 PROVE f[k] = Refunded(b, f[k - 1], k)
    BY <1>7 DEF IsStaged
  <2>1. k \in 1 .. n /\ k - 1 \in 0 .. n
    BY <1>1
  <2>2. f[k - 1] \in S
    BY <1>7, <2>1 DEF IsStaged
  <2> QED
    BY <1>5, <1>7, <2>1, <2>2 DEF IsStaged
<1>9. Graph(f)
  <2>1. f = [k \in 0 .. n |-> f[k]]
    BY <1>7 DEF IsStaged
  <2> QED
    BY <1>8, <2>1
<1>10. Graph(upTo)
  BY <1>9 DEF upTo
<1>11. \A k \in 0 .. n : upTo[k] = IF k = 0 THEN <<>> ELSE Refunded(b, upTo[k - 1], k)
  BY <1>10
<1>12. RefundStages(upTo, b)
  <2>1. 0 \in 0 .. n /\ \A k \in 1 .. n : k \in 0 .. n /\ k # 0
    BY <1>1
  <2> QED
    BY <1>11, <2>1 DEF RefundStages
<1> QED
  BY <1>6, <1>12

LEMMA RefundsFound ==
  ASSUME NEW b, b \in Seq(Line)
  PROVE  DetectRefunds(b) \in RefundLists(b)
<1>1. PICK f : RefundStages(f, b) /\ DetectRefunds(b) = f[Len(b)]
  BY RefundsInStages
<1> DEFINE G == [k \in 0 .. Len(b) |-> RefundLists(b)]
<1>2. Len(b) \in Nat
  OBVIOUS
<1>3. <<>> \in RefundLists(b)
  BY DEF RefundLists
<1>4. f[0] \in G[0]
  BY <1>1, <1>2, <1>3 DEF RefundStages
<1>5. \A k \in 1 .. Len(b) : f[k - 1] \in G[k - 1] => f[k] \in G[k]
  <2> SUFFICES ASSUME NEW k \in 1 .. Len(b), f[k - 1] \in G[k - 1] PROVE f[k] \in G[k]
    OBVIOUS
  <2>1. f[k - 1] \in RefundLists(b)
    BY <1>2
  <2>2. f[k] = Refunded(b, f[k - 1], k)
    BY <1>1 DEF RefundStages
  <2> QED
    BY <1>2, <2>1, <2>2, RefundedKeeps
<1>6. Len(b) \in 0 .. Len(b)
  BY <1>2
<1> HIDE DEF G
<1>7. f[Len(b)] \in G[Len(b)]
  BY <1>2, <1>4, <1>5, StagesKeep
<1> QED
  BY <1>1, <1>6, <1>7 DEF G

\* What DetectRefunds finds, in any book.
LEMMA RefundsAreApart ==
  ASSUME NEW b, b \in Seq(Line)
  PROVE  RefundsApart(b, DetectRefunds(b))
<1> DEFINE found == DetectRefunds(b)
<1>1. found \in RefundLists(b)
  BY RefundsFound
<1> HIDE DEF found
<1>2. \A n \in DOMAIN found : \E o, p \in DOMAIN b :
        found[n].original = b[o].id /\ found[n].refund = b[p].id /\ IsRefundOf(b[p], b[o])
  BY <1>1 DEF RefundLists, Refunds
<1>3. \A m, n \in DOMAIN found : m # n =>
        {found[m].original, found[m].refund} \cap {found[n].original, found[n].refund} = {}
  BY <1>1 DEF RefundLists, BothOf
<1> QED
  BY <1>2, <1>3 DEF RefundsApart, found

-----------------------------------------------------------------------------
(* Pairs *)

PairSet(b) == {PairOf(b[o], b[i]) : o, i \in DOMAIN b}

\* The pairs after each place.
PairStages(f, b) ==
  /\ f[0] = <<>>
  /\ \A p \in 1 .. Len(b) : f[p] = Paired(b, f[p - 1], p)

LEMMA BestIsIncoming ==
  ASSUME NEW b, b \in Seq(Range(b)), NEW o, NEW used, BestIncoming(b, o, used) # {}
  PROVE  LET p == Min(BestIncoming(b, o, used))
         IN p \in DOMAIN b /\ ~b[p].pending /\ MayPair(o, b[p], used)
<1> DEFINE best == BestIncoming(b, o, used)
           p == Min(best)
<1>1. best \subseteq {q \in DOMAIN b : ~b[q].pending /\ MayPair(o, b[q], used)}
  BY DEF BestIncoming, Positions
<1>2. DOMAIN b \subseteq Nat
  OBVIOUS
<1> HIDE DEF best
<1>3. best \in SUBSET Nat /\ best # {}
  BY <1>1, <1>2 DEF best
<1>4. p \in best
  BY <1>3, SmallestIsOne
<1> HIDE DEF p
<1>5. p \in DOMAIN b /\ ~b[p].pending /\ MayPair(o, b[p], used)
  BY <1>1, <1>4
<1> QED
  BY <1>5 DEF p, best

LEMMA PairedType ==
  ASSUME NEW b, b \in Seq(Range(b)), NEW p \in 1 .. Len(b), NEW s \in Seq(PairSet(b))
  PROVE  Paired(b, s, p) \in Seq(PairSet(b))
<1> DEFINE used == {s[n].in : n \in DOMAIN s}
           best == BestIncoming(b, b[p], used)
           new == PairOf(b[p], b[Min(best)])
<1>1. Paired(b, s, p) = s \/ (best # {} /\ Paired(b, s, p) = Append(s, new))
  BY DEF Paired
<1> HIDE DEF used
<1>2. best # {} => Min(best) \in DOMAIN b
  BY BestIsIncoming
<1> HIDE DEF best
<1>3. best # {} => new \in PairSet(b)
  BY <1>2 DEF PairSet
<1> HIDE DEF new
<1> QED
  BY <1>1, <1>3

LEMMA PairsInStages ==
  ASSUME NEW b, b \in Seq(Range(b))
  PROVE  \E f : PairStages(f, b) /\ FindPairs(b) = f[Len(b)]
<1> DEFINE n == Len(b)
           S == Seq(PairSet(b))
           step == [k \in 1 .. n |-> [s \in S |-> Paired(b, s, k)]]
           Graph(f) == f = [p \in 0 .. n |-> IF p = 0 THEN <<>> ELSE Paired(b, f[p - 1], p)]
           upTo == CHOOSE f : Graph(f)
<1>1. n \in Nat
  OBVIOUS
<1>2. <<>> \in S
  OBVIOUS
<1>3. \A k \in 1 .. n, s \in S : Paired(b, s, k) \in S
  BY PairedType
<1>4. step \in [1 .. n -> [S -> S]]
  BY <1>3
<1>5. \A k \in 1 .. n, s \in S : step[k][s] = Paired(b, s, k)
  OBVIOUS
<1>6. FindPairs(b) = upTo[n]
  BY DEF FindPairs
<1> HIDE DEF S, step, upTo
<1>7. PICK f : IsStaged(f, n, S, <<>>, step)
  <2> HIDE DEF n
  <2> QED
    BY <1>1, <1>2, <1>4, StagesExist
<1>8. \A k \in 0 .. n : f[k] = IF k = 0 THEN <<>> ELSE Paired(b, f[k - 1], k)
  <2> SUFFICES ASSUME NEW k \in 0 .. n, k # 0 PROVE f[k] = Paired(b, f[k - 1], k)
    BY <1>7 DEF IsStaged
  <2>1. k \in 1 .. n /\ k - 1 \in 0 .. n
    BY <1>1
  <2>2. f[k - 1] \in S
    BY <1>7, <2>1 DEF IsStaged
  <2> QED
    BY <1>5, <1>7, <2>1, <2>2 DEF IsStaged
<1>9. Graph(f)
  <2>1. f = [k \in 0 .. n |-> f[k]]
    BY <1>7 DEF IsStaged
  <2> QED
    BY <1>8, <2>1
<1>10. Graph(upTo)
  BY <1>9 DEF upTo
<1>11. \A k \in 0 .. n : upTo[k] = IF k = 0 THEN <<>> ELSE Paired(b, upTo[k - 1], k)
  BY <1>10
<1>12. PairStages(upTo, b)
  <2>1. 0 \in 0 .. n /\ \A k \in 1 .. n : k \in 0 .. n /\ k # 0
    BY <1>1
  <2> QED
    BY <1>11, <2>1 DEF PairStages
<1> QED
  BY <1>6, <1>12

\* A booking out, and one into another account.
Moves(o, i) ==
  /\ ~o.pending /\ ~i.pending
  /\ o.amount < 0 /\ i.amount > 0
  /\ o.account # i.account
  /\ Distance(-o.amount, i.amount) <= AmountTolerance
  /\ Distance(o.day, i.day) <= TimeWindow

\* A pair of the book whose first booking is at one of the first k places.
IsPairUpTo(b, r, k) ==
  \E o \in 1 .. k, i \in DOMAIN b : Moves(b[o], b[i]) /\ r = PairOf(b[o], b[i])

PairLists(b, k) ==
  {s \in Seq(PairSet(b)) :
     /\ \A n \in DOMAIN s : IsPairUpTo(b, s[n], k)
     /\ \A m, n \in DOMAIN s : m # n => s[m].in # s[n].in /\ s[m].out # s[n].out}

LEMMA PairedKeeps ==
  ASSUME NEW b, HasIds(b), NEW p \in 1 .. Len(b), NEW s \in PairLists(b, p - 1)
  PROVE  Paired(b, s, p) \in PairLists(b, p)
<1> DEFINE used == {s[n].in : n \in DOMAIN s}
           best == BestIncoming(b, b[p], used)
           q == Min(best)
           new == PairOf(b[p], b[q])
<1>1. \/ Paired(b, s, p) = s
      \/ /\ best # {} /\ b[p].amount < 0 /\ ~b[p].pending
         /\ Paired(b, s, p) = Append(s, new)
  <2>1. b[p].amount \in Int
    BY LinesOf
  <2>2. ~(b[p].amount >= 0) => b[p].amount < 0
    BY <2>1
  <2>3. \/ b[p].amount >= 0 \/ b[p].pending \/ b[p].day = 0 \/ best = {}
        \/ Paired(b, s, p) = Append(s, new)
    BY DEF Paired
  <2>4. (b[p].amount >= 0 \/ b[p].pending \/ b[p].day = 0 \/ best = {}) => Paired(b, s, p) = s
    BY DEF Paired
  <2> HIDE DEF best, new
  <2> QED
    BY <2>2, <2>3, <2>4
<1>2. DOMAIN b = 1 .. Len(b) /\ Len(b) \in Nat /\ b \in Seq(Range(b)) /\ p \in Nat
  BY DEF HasIds, Range
<1>3. \A n \in DOMAIN s : IsPairUpTo(b, s[n], p)
  <2>1. 1 .. (p - 1) \subseteq 1 .. p
    BY <1>2
  <2>2. \A n \in DOMAIN s : IsPairUpTo(b, s[n], p - 1)
    BY DEF PairLists
  <2> QED
    BY <2>1, <2>2 DEF IsPairUpTo
<1>4. /\ s \in Seq(PairSet(b))
      /\ \A m, n \in DOMAIN s : m # n => s[m].in # s[n].in /\ s[m].out # s[n].out
  BY DEF PairLists
<1>5. CASE Paired(b, s, p) = s
  BY <1>3, <1>4, <1>5 DEF PairLists
<1> SUFFICES ASSUME best # {}, b[p].amount < 0, ~b[p].pending
             PROVE  Append(s, new) \in PairLists(b, p)
  BY <1>1, <1>5
<1>6. q \in DOMAIN b /\ ~b[q].pending /\ MayPair(b[p], b[q], used)
  BY <1>2, BestIsIncoming
<1> HIDE DEF q, best
<1>7. Moves(b[p], b[q]) /\ b[q].id \notin used
  BY <1>6 DEF Moves, MayPair
<1>8. new \in PairSet(b) /\ IsPairUpTo(b, new, p) /\ new.out = b[p].id /\ new.in = b[q].id
  <2>1. p \in 1 .. p /\ p \in DOMAIN b
    BY <1>2
  <2> QED
    BY <1>6, <1>7, <2>1 DEF PairSet, IsPairUpTo, PairOf
<1>9. \A n \in DOMAIN s : s[n].in # new.in
  BY <1>7, <1>8
<1>10. \A n \in DOMAIN s : s[n].out # new.out
  <2> SUFFICES ASSUME NEW n \in DOMAIN s PROVE s[n].out # new.out
    OBVIOUS
  <2>1. IsPairUpTo(b, s[n], p - 1)
    BY DEF PairLists
  <2>2. PICK o \in 1 .. (p - 1), i \in DOMAIN b :
          Moves(b[o], b[i]) /\ s[n] = PairOf(b[o], b[i])
    BY <2>1 DEF IsPairUpTo
  <2>3. s[n].out = b[o].id
    BY <2>2 DEF PairOf
  <2>4. o \in DOMAIN b /\ p \in DOMAIN b /\ o # p /\ o \in Nat
    BY <1>2
  <2>5. b[o].id # b[p].id
    BY <2>2, <2>4 DEF HasIds, UniqueIds, Moves
  <2> QED
    BY <1>8, <2>3, <2>5
<1> HIDE DEF new, used
<1> DEFINE more == Append(s, new)
<1>11. /\ more \in Seq(PairSet(b)) /\ DOMAIN more = 1 .. Len(s) + 1 /\ Len(s) \in Nat
       /\ more[Len(s) + 1] = new /\ \A i \in 1 .. Len(s) : more[i] = s[i]
  BY <1>4, <1>8, Appended
<1>12. DOMAIN s = 1 .. Len(s)
  BY <1>4
<1> HIDE DEF more
<1>13. \A n \in DOMAIN more : (n \in DOMAIN s /\ more[n] = s[n]) \/ (n = Len(s) + 1 /\ more[n] = new)
  BY <1>11, <1>12
<1>14. \A n \in DOMAIN more : IsPairUpTo(b, more[n], p)
  BY <1>3, <1>8, <1>13
<1>15. \A m, n \in DOMAIN more :
         m # n => more[m].in # more[n].in /\ more[m].out # more[n].out
  BY <1>4, <1>9, <1>10, <1>13
<1> QED
  BY <1>11, <1>14, <1>15 DEF PairLists, more

LEMMA PairsFound ==
  ASSUME NEW b, HasIds(b)
  PROVE  FindPairs(b) \in PairLists(b, Len(b))
<1>1. b \in Seq(Range(b)) /\ Len(b) \in Nat
  BY DEF HasIds, Range
<1>2. PICK f : PairStages(f, b) /\ FindPairs(b) = f[Len(b)]
  BY <1>1, PairsInStages
<1> DEFINE G == [k \in 0 .. Len(b) |-> PairLists(b, k)]
<1>3. <<>> \in PairLists(b, 0)
  BY DEF PairLists
<1>4. f[0] \in G[0]
  BY <1>1, <1>2, <1>3 DEF PairStages
<1>5. \A k \in 1 .. Len(b) : f[k - 1] \in G[k - 1] => f[k] \in G[k]
  <2> SUFFICES ASSUME NEW k \in 1 .. Len(b), f[k - 1] \in G[k - 1] PROVE f[k] \in G[k]
    OBVIOUS
  <2>1. f[k - 1] \in PairLists(b, k - 1)
    BY <1>1
  <2>2. f[k] = Paired(b, f[k - 1], k)
    BY <1>2 DEF PairStages
  <2>3. f[k] \in PairLists(b, k)
    BY <2>1, <2>2, PairedKeeps
  <2> QED
    BY <1>1, <2>3
<1>6. Len(b) \in 0 .. Len(b)
  BY <1>1
<1> HIDE DEF G
<1>7. f[Len(b)] \in G[Len(b)]
  BY <1>1, <1>4, <1>5, StagesKeep
<1> QED
  BY <1>2, <1>6, <1>7 DEF G

\* What a pair is, told by the bookings of its ids.
PairIsSound(b, r) ==
  LET o == Lookup(b, r.out)
      i == Lookup(b, r.in)
  IN /\ o.amount \in Int /\ i.amount \in Int /\ o.day \in Nat /\ i.day \in Nat
     /\ o.amount < 0 /\ i.amount > 0
     /\ o.account = r.from /\ i.account = r.to /\ r.from # r.to /\ r.amount = -o.amount
     /\ Distance(-o.amount, i.amount) <= AmountTolerance
     /\ Distance(o.day, i.day) <= TimeWindow

AreSoundPairs(b, pairs) ==
  /\ pairs \in Seq(PairSet(b))
  /\ \A n \in DOMAIN pairs : PairIsSound(b, pairs[n])
  /\ \A m, n \in DOMAIN pairs :
       /\ m # n => pairs[m].in # pairs[n].in /\ pairs[m].out # pairs[n].out
       /\ pairs[m].in # pairs[n].out

\* What FindPairs finds: pairs of bookings that differ, each used once.
LEMMA PairsAreSound ==
  ASSUME NEW b, HasIds(b)
  PROVE  AreSoundPairs(b, FindPairs(b))
<1> DEFINE pairs == FindPairs(b)
<1>1. pairs \in PairLists(b, Len(b))
  BY PairsFound
<1> HIDE DEF pairs
<1>2. ASSUME NEW n \in DOMAIN pairs PROVE PairIsSound(b, pairs[n])
  <2>1. PICK o \in 1 .. Len(b), i \in DOMAIN b :
          Moves(b[o], b[i]) /\ pairs[n] = PairOf(b[o], b[i])
    BY <1>1 DEF PairLists, IsPairUpTo
  <2>2. o \in DOMAIN b
    BY DEF HasIds
  <2>3. Lookup(b, b[o].id) = b[o] /\ Lookup(b, b[i].id) = b[i]
    BY <2>1, <2>2, FoundById DEF Moves
  <2>4. /\ pairs[n].out = b[o].id /\ pairs[n].in = b[i].id /\ pairs[n].from = b[o].account
        /\ pairs[n].to = b[i].account /\ pairs[n].amount = -b[o].amount
    BY <2>1 DEF PairOf
  <2>5. b[o].amount \in Int /\ b[i].amount \in Int /\ b[o].day \in Nat /\ b[i].day \in Nat
    BY <2>2, LinesOf
  <2> QED
    BY <2>1, <2>3, <2>4, <2>5 DEF PairIsSound, Moves
<1>3. \A m, n \in DOMAIN pairs : pairs[m].in # pairs[n].out
  <2> SUFFICES ASSUME NEW m \in DOMAIN pairs, NEW n \in DOMAIN pairs, pairs[m].in = pairs[n].out
               PROVE  FALSE
    OBVIOUS
  <2> DEFINE t == Lookup(b, pairs[m].in)
  <2>1. t.amount > 0 /\ t.amount \in Int
    BY <1>2 DEF PairIsSound
  <2>2. t.amount < 0
    BY <1>2 DEF PairIsSound
  <2> QED
    BY <2>1, <2>2
<1> QED
  BY <1>1, <1>2, <1>3 DEF AreSoundPairs, PairLists, pairs

-----------------------------------------------------------------------------
(* Strings of pairs *)

LEMMA Prepended ==
  ASSUME NEW T, NEW s \in Seq(T), NEW w \in T
  PROVE  /\ <<w>> \o s \in Seq(T) /\ Len(<<w>> \o s) = Len(s) + 1
         /\ (<<w>> \o s)[1] = w /\ \A i \in 1 .. Len(s) : (<<w>> \o s)[i + 1] = s[i]
         /\ Len(s) \in Nat /\ DOMAIN (<<w>> \o s) = 1 .. Len(s) + 1
  OBVIOUS

\* The first of two pairs delivers where the second takes from, about as much and
\* about then.
Linked(b, pairs, i, j) ==
  /\ pairs[i].to = pairs[j].from
  /\ Distance(pairs[i].amount, pairs[j].amount) <= AmountTolerance
  /\ Distance(Lookup(b, pairs[i].in).day, Lookup(b, pairs[j].out).day) <= TimeWindow

IsString(b, pairs, s) ==
  /\ s # <<>> /\ IsInjective(s)
  /\ \A k \in 1 .. Len(s) - 1 : Linked(b, pairs, s[k], s[k + 1])

\* The strings of pairs that are not visited.
Strings(b, pairs, visited) ==
  {s \in Seq(DOMAIN pairs) : IsString(b, pairs, s) /\ Range(s) \cap visited = {}}

LEMMA Neighbours ==
  ASSUME NEW b, NEW pairs, AreSoundPairs(b, pairs), NEW k \in DOMAIN pairs, NEW taken
  PROVE  /\ \A j \in Predecessors(b, pairs, k, taken) :
              j \in DOMAIN pairs \ taken /\ Linked(b, pairs, j, k)
         /\ \A j \in Successors(b, pairs, k, taken) :
              j \in DOMAIN pairs \ taken /\ Linked(b, pairs, k, j)
<1>1. /\ Lookup(b, pairs[k].out).account = pairs[k].from
      /\ Lookup(b, pairs[k].in).account = pairs[k].to
  BY DEF AreSoundPairs, PairIsSound
<1>2. \A n \in DOMAIN pairs : pairs[n].amount \in Int
  BY DEF AreSoundPairs, PairIsSound
<1>3. \A i, j \in DOMAIN pairs :
        Within(pairs[i].amount, pairs[j].amount, AmountTolerance) =>
          Distance(pairs[i].amount, pairs[j].amount) <= AmountTolerance
  <2>1. AmountTolerance \in Nat
    BY TransfersAssumption
  <2> QED
    BY <1>2, <2>1, WithinIsNear
<1>4. ASSUME NEW j \in Predecessors(b, pairs, k, taken)
      PROVE  j \in DOMAIN pairs \ taken /\ Linked(b, pairs, j, k)
  BY <1>1, <1>3 DEF Predecessors, Follows, Linked
<1>5. ASSUME NEW j \in Successors(b, pairs, k, taken)
      PROVE  j \in DOMAIN pairs \ taken /\ Linked(b, pairs, k, j)
  BY <1>1, <1>3 DEF Successors, Follows, Linked
<1> QED
  BY <1>4, <1>5

\* A string with a pair more before its head.
LEMMA HeadAdded ==
  ASSUME NEW b, NEW pairs, NEW visited, NEW s \in Strings(b, pairs, visited),
         NEW j \in DOMAIN pairs, j \notin visited, j \notin Range(s), Linked(b, pairs, j, Head(s))
  PROVE  <<j>> \o s \in Strings(b, pairs, visited)
<1> DEFINE more == <<j>> \o s
           n == Len(s)
<1>1. s \in Seq(DOMAIN pairs) /\ IsString(b, pairs, s) /\ Range(s) \cap visited = {}
  BY DEF Strings
<1>2. s # <<>> /\ n \in Nat /\ DOMAIN s = 1 .. n /\ Head(s) = s[1]
  BY <1>1 DEF IsString
<1>3. /\ more \in Seq(DOMAIN pairs) /\ Len(more) = n + 1 /\ DOMAIN more = 1 .. n + 1
      /\ more[1] = j /\ \A i \in 1 .. n : more[i + 1] = s[i]
  BY <1>1, Prepended
<1> HIDE DEF more
<1>4. \A i \in DOMAIN more : (i = 1 /\ more[i] = j) \/ (i - 1 \in DOMAIN s /\ more[i] = s[i - 1])
  <2> SUFFICES ASSUME NEW i \in 1 .. n + 1, i # 1 PROVE i - 1 \in DOMAIN s /\ more[i] = s[i - 1]
    BY <1>3
  <2>1. i - 1 \in 1 .. n /\ (i - 1) + 1 = i
    BY <1>2
  <2> QED
    BY <1>2, <1>3, <2>1
<1>5. \A i \in DOMAIN s : s[i] # j
  BY DEF Range
<1>6. \A x, y \in DOMAIN s : s[x] = s[y] => x = y
  BY <1>1 DEF IsString, IsInjective
<1>7. \A x, y \in DOMAIN more : more[x] = more[y] => x = y
  <2> SUFFICES ASSUME NEW x \in DOMAIN more, NEW y \in DOMAIN more, more[x] = more[y]
               PROVE  x = y
    OBVIOUS
  <2>1. x \in Int /\ y \in Int
    BY <1>2, <1>3
  <2>2. x - 1 = y - 1 => x = y
    BY <2>1
  <2> QED
    BY <1>4, <1>5, <1>6, <2>2
<1>8. ASSUME NEW k \in 1 .. Len(more) - 1 PROVE Linked(b, pairs, more[k], more[k + 1])
  <2>1. k \in 1 .. n /\ more[k + 1] = s[k] /\ k \in DOMAIN more
    BY <1>2, <1>3
  <2>2. CASE k = 1
    BY <1>2, <1>3, <2>1, <2>2
  <2>3. CASE k # 1
    <3>1. more[k] = s[k - 1] /\ k - 1 \in 1 .. Len(s) - 1 /\ (k - 1) + 1 = k
      BY <1>2, <1>4, <2>1, <2>3
    <3>2. Linked(b, pairs, s[k - 1], s[(k - 1) + 1])
      BY <1>1, <3>1 DEF IsString
    <3> QED
      BY <2>1, <3>1, <3>2
  <2> QED
    BY <2>2, <2>3
<1>9. Range(more) \cap visited = {}
  <2>1. \A i \in DOMAIN s : s[i] \notin visited
    BY <1>1 DEF Range
  <2>2. \A i \in DOMAIN more : more[i] \notin visited
    BY <1>4, <2>1
  <2> QED
    BY <2>2 DEF Range
<1>10. more # <<>>
  BY <1>2, <1>3
<1> QED
  BY <1>3, <1>7, <1>8, <1>9, <1>10 DEF Strings, IsString, IsInjective, more

\* A string with a pair more behind its end.
LEMMA EndAdded ==
  ASSUME NEW b, NEW pairs, NEW visited, NEW s \in Strings(b, pairs, visited),
         NEW j \in DOMAIN pairs, j \notin visited, j \notin Range(s), Linked(b, pairs, Last(s), j)
  PROVE  Append(s, j) \in Strings(b, pairs, visited)
<1> DEFINE more == Append(s, j)
           n == Len(s)
<1>1. s \in Seq(DOMAIN pairs) /\ IsString(b, pairs, s) /\ Range(s) \cap visited = {}
  BY DEF Strings
<1>2. s # <<>> /\ n \in Nat /\ DOMAIN s = 1 .. n /\ Last(s) = s[n]
  BY <1>1 DEF IsString, Last
<1>3. /\ more \in Seq(DOMAIN pairs) /\ Len(more) = n + 1 /\ DOMAIN more = 1 .. n + 1
      /\ more[n + 1] = j /\ \A i \in 1 .. n : more[i] = s[i]
  BY <1>1, Appended
<1> HIDE DEF more
<1>4. \A i \in DOMAIN more : (i = n + 1 /\ more[i] = j) \/ (i \in DOMAIN s /\ more[i] = s[i])
  <2> SUFFICES ASSUME NEW i \in 1 .. n + 1, i # n + 1 PROVE i \in DOMAIN s /\ more[i] = s[i]
    BY <1>3
  <2>1. i \in 1 .. n
    BY <1>2
  <2> QED
    BY <1>2, <1>3, <2>1
<1>5. \A i \in DOMAIN s : s[i] # j
  BY DEF Range
<1>6. \A x, y \in DOMAIN s : s[x] = s[y] => x = y
  BY <1>1 DEF IsString, IsInjective
<1>7. \A x, y \in DOMAIN more : more[x] = more[y] => x = y
  BY <1>4, <1>5, <1>6
<1>8. ASSUME NEW k \in 1 .. Len(more) - 1 PROVE Linked(b, pairs, more[k], more[k + 1])
  <2>1. k \in 1 .. n /\ more[k] = s[k] /\ k + 1 \in DOMAIN more
    BY <1>2, <1>3
  <2>2. CASE k = n
    BY <1>2, <1>3, <2>1, <2>2
  <2>3. CASE k # n
    <3>1. k \in 1 .. n - 1 /\ k + 1 \in 1 .. n
      <4>1. n \in Nat /\ k \in 1 .. n /\ k # n
        BY <1>2, <2>1, <2>3
      <4> HIDE DEF n
      <4> QED
        BY <4>1
    <3>2. more[k + 1] = s[k + 1]
      BY <1>3, <3>1
    <3> QED
      BY <1>1, <2>1, <3>1, <3>2 DEF IsString
  <2> QED
    BY <2>2, <2>3
<1>9. Range(more) \cap visited = {}
  <2>1. \A i \in DOMAIN s : s[i] \notin visited
    BY <1>1 DEF Range
  <2>2. \A i \in DOMAIN more : more[i] \notin visited
    BY <1>4, <2>1
  <2> QED
    BY <2>2 DEF Range
<1>10. more # <<>>
  BY <1>2, <1>3
<1> QED
  BY <1>3, <1>7, <1>8, <1>9, <1>10 DEF Strings, IsString, IsInjective, more

LEMMA LengthenedKeeps ==
  ASSUME NEW b, NEW pairs, AreSoundPairs(b, pairs), NEW visited,
         NEW s \in Strings(b, pairs, visited)
  PROVE  Lengthened(b, pairs, s, visited) \in Strings(b, pairs, visited)
<1> DEFINE taken == visited \cup Range(s)
           before == Predecessors(b, pairs, Head(s), taken)
           after == Successors(b, pairs, Last(s), taken)
<1>1. s \in Seq(DOMAIN pairs) /\ s # <<>>
  BY DEF Strings, IsString
<1>2. Head(s) \in DOMAIN pairs /\ Last(s) \in DOMAIN pairs
  BY <1>1 DEF Last
<1>3. DOMAIN pairs \subseteq Nat
  BY DEF AreSoundPairs
<1>4. /\ \A j \in before : j \in DOMAIN pairs \ taken /\ Linked(b, pairs, j, Head(s))
      /\ \A j \in after : j \in DOMAIN pairs \ taken /\ Linked(b, pairs, Last(s), j)
  <2> HIDE DEF taken
  <2> QED
    BY <1>2, Neighbours
<1>5. \/ Lengthened(b, pairs, s, visited) = s
      \/ before # {} /\ Lengthened(b, pairs, s, visited) = <<Min(before)>> \o s
      \/ after # {} /\ Lengthened(b, pairs, s, visited) = Append(s, Min(after))
  BY DEF Lengthened
<1> HIDE DEF before, after
<1>6. ASSUME before # {} PROVE <<Min(before)>> \o s \in Strings(b, pairs, visited)
  <2>1. before \in SUBSET Nat
    BY <1>3, <1>4
  <2>2. Min(before) \in before
    BY <1>6, <2>1, SmallestIsOne
  <2> QED
    BY <1>4, <2>2, HeadAdded
<1>7. ASSUME after # {} PROVE Append(s, Min(after)) \in Strings(b, pairs, visited)
  <2>1. after \in SUBSET Nat
    BY <1>3, <1>4
  <2>2. Min(after) \in after
    BY <1>7, <2>1, SmallestIsOne
  <2> QED
    BY <1>4, <2>2, EndAdded
<1> QED
  BY <1>5, <1>6, <1>7

\* What Walk gives is a string of pairs not visited before.
LEMMA WalkIsString ==
  ASSUME NEW b, NEW pairs, AreSoundPairs(b, pairs), NEW visited,
         NEW start \in DOMAIN pairs, start \notin visited
  PROVE  Walk(b, pairs, start, visited) \in Strings(b, pairs, visited)
<1> DEFINE n == Len(pairs)
           S == Strings(b, pairs, visited)
           first == <<start>>
           step == [k \in 1 .. n |-> [s \in S |-> Lengthened(b, pairs, s, visited)]]
           Graph(f) == f = [k \in 0 .. n |-> IF k = 0 THEN <<start>>
                                             ELSE Lengthened(b, pairs, f[k - 1], visited)]
           string == CHOOSE f : Graph(f)
<1>1. n \in Nat
  BY DEF AreSoundPairs
<1>2. first \in S
  <2>1. first \in Seq(DOMAIN pairs) /\ first # <<>> /\ Len(first) = 1 /\ first[1] = start
        /\ DOMAIN first = {1}
    OBVIOUS
  <2> HIDE DEF first
  <2>2. IsInjective(first) /\ Range(first) = {start}
    BY <2>1 DEF IsInjective, Range
  <2>3. 1 .. Len(first) - 1 = {}
    BY <2>1
  <2> QED
    BY <2>1, <2>2, <2>3 DEF Strings, IsString
<1>3. \A s \in S : Lengthened(b, pairs, s, visited) \in S
  BY LengthenedKeeps
<1>4. step \in [1 .. n -> [S -> S]]
  BY <1>3
<1>5. \A k \in 1 .. n, s \in S : step[k][s] = Lengthened(b, pairs, s, visited)
  OBVIOUS
<1>6. Walk(b, pairs, start, visited) = string[n]
  BY DEF Walk
<1>7. first = <<start>>
  OBVIOUS
<1> HIDE DEF S, step, string, first
<1>8. PICK f : IsStaged(f, n, S, first, step)
  <2> HIDE DEF n
  <2> QED
    BY <1>1, <1>2, <1>4, StagesExist
<1>9. \A k \in 0 .. n : f[k] = IF k = 0 THEN <<start>> ELSE Lengthened(b, pairs, f[k - 1], visited)
  <2> SUFFICES ASSUME NEW k \in 0 .. n, k # 0
               PROVE  f[k] = Lengthened(b, pairs, f[k - 1], visited)
    BY <1>7, <1>8 DEF IsStaged
  <2>1. k \in 1 .. n /\ k - 1 \in 0 .. n
    BY <1>1
  <2>2. f[k - 1] \in S
    BY <1>8, <2>1 DEF IsStaged
  <2> QED
    BY <1>5, <1>8, <2>1, <2>2 DEF IsStaged
<1>10. Graph(f)
  <2>1. f = [k \in 0 .. n |-> f[k]]
    BY <1>8 DEF IsStaged
  <2> QED
    BY <1>9, <2>1
<1>11. Graph(string)
  BY <1>10 DEF string
<1>12. \A k \in 0 .. n : string[k] = IF k = 0 THEN <<start>>
                                     ELSE Lengthened(b, pairs, string[k - 1], visited)
  BY <1>11
<1> DEFINE G == [k \in 0 .. n |-> S]
<1>13. string[0] \in G[0]
  <2>1. 0 \in 0 .. n
    BY <1>1
  <2> QED
    BY <1>2, <1>7, <1>12, <2>1
<1>14. \A k \in 1 .. n : string[k - 1] \in G[k - 1] => string[k] \in G[k]
  <2> SUFFICES ASSUME NEW k \in 1 .. n, string[k - 1] \in G[k - 1] PROVE string[k] \in G[k]
    OBVIOUS
  <2>1. k \in 0 .. n /\ k - 1 \in 0 .. n /\ k # 0
    BY <1>1
  <2>2. string[k - 1] \in S /\ string[k] = Lengthened(b, pairs, string[k - 1], visited)
    BY <1>12, <2>1
  <2>3. string[k] \in S
    BY <1>3, <2>2
  <2> QED
    BY <2>1, <2>3
<1>15. n \in 0 .. n
  BY <1>1
<1>16. string[n] \in S
  <2>1. string[n] \in G[n]
    <3> HIDE DEF G, n
    <3> QED
      BY <1>1, <1>13, <1>14, StagesKeep
  <2> QED
    BY <1>15, <2>1
<1> QED
  BY <1>6, <1>16 DEF S

\* Lists of strings that have no pair in common.
StringLists(b, pairs) ==
  {ss \in Seq(Seq(DOMAIN pairs)) :
     /\ \A n \in DOMAIN ss : IsString(b, pairs, ss[n])
     /\ \A m, n \in DOMAIN ss : m # n => Range(ss[m]) \cap Range(ss[n]) = {}}

LEMMA ResolvedKeeps ==
  ASSUME NEW b, NEW pairs, AreSoundPairs(b, pairs), NEW k \in 1 .. Len(pairs),
         NEW ss \in StringLists(b, pairs)
  PROVE  Resolved(b, pairs, ss, k) \in StringLists(b, pairs)
<1> DEFINE visited == UNION {Range(ss[n]) : n \in DOMAIN ss}
           new == Walk(b, pairs, k, visited)
<1>1. Resolved(b, pairs, ss, k) = IF k \in visited THEN ss ELSE Append(ss, new)
  BY DEF Resolved
<1>2. \A n \in DOMAIN ss : Range(ss[n]) \subseteq visited
  OBVIOUS
<1> HIDE DEF visited
<1> SUFFICES ASSUME k \notin visited PROVE Append(ss, new) \in StringLists(b, pairs)
  BY <1>1
<1>3. k \in DOMAIN pairs
  BY DEF AreSoundPairs
<1>4. new \in Seq(DOMAIN pairs) /\ IsString(b, pairs, new) /\ Range(new) \cap visited = {}
  <2>1. new \in Strings(b, pairs, visited)
    BY <1>3, WalkIsString
  <2> HIDE DEF new
  <2> QED
    BY <2>1 DEF Strings
<1> HIDE DEF new
<1>5. /\ ss \in Seq(Seq(DOMAIN pairs)) /\ \A n \in DOMAIN ss : IsString(b, pairs, ss[n])
      /\ \A m, n \in DOMAIN ss : m # n => Range(ss[m]) \cap Range(ss[n]) = {}
  BY DEF StringLists
<1> DEFINE more == Append(ss, new)
<1>6. /\ more \in Seq(Seq(DOMAIN pairs)) /\ DOMAIN more = 1 .. Len(ss) + 1 /\ Len(ss) \in Nat
      /\ more[Len(ss) + 1] = new /\ \A i \in 1 .. Len(ss) : more[i] = ss[i]
  <2> DEFINE T == Seq(DOMAIN pairs)
  <2>1. ss \in Seq(T) /\ new \in T
    BY <1>4, <1>5
  <2> HIDE DEF T
  <2>2. /\ more \in Seq(T) /\ DOMAIN more = 1 .. Len(ss) + 1 /\ Len(ss) \in Nat
        /\ more[Len(ss) + 1] = new /\ \A i \in 1 .. Len(ss) : more[i] = ss[i]
    BY <2>1, Appended
  <2> QED
    BY <2>2 DEF T
<1>7. DOMAIN ss = 1 .. Len(ss)
  BY <1>5
<1> HIDE DEF more
<1>8. \A n \in DOMAIN more : (n \in DOMAIN ss /\ more[n] = ss[n]) \/ (n = Len(ss) + 1 /\ more[n] = new)
  BY <1>6, <1>7
<1>9. \A n \in DOMAIN more : IsString(b, pairs, more[n])
  BY <1>4, <1>5, <1>8
<1>10. \A m, n \in DOMAIN more : m # n => Range(more[m]) \cap Range(more[n]) = {}
  BY <1>2, <1>4, <1>5, <1>8
<1> QED
  BY <1>6, <1>9, <1>10 DEF StringLists, more

\* What ResolveChains gives: strings without a common pair.
LEMMA StringsFound ==
  ASSUME NEW b, NEW pairs, AreSoundPairs(b, pairs)
  PROVE  ResolveChains(b, pairs) \in StringLists(b, pairs)
<1> DEFINE n == Len(pairs)
           S == StringLists(b, pairs)
           none == <<>>
           step == [k \in 1 .. n |-> [s \in S |-> Resolved(b, pairs, s, k)]]
           Graph(f) == f = [k \in 0 .. n |-> IF k = 0 THEN <<>> ELSE Resolved(b, pairs, f[k - 1], k)]
           upTo == CHOOSE f : Graph(f)
<1>1. n \in Nat
  BY DEF AreSoundPairs
<1>2. none \in S /\ none = <<>>
  BY DEF StringLists
<1>3. \A k \in 1 .. n, s \in S : Resolved(b, pairs, s, k) \in S
  BY ResolvedKeeps
<1>4. step \in [1 .. n -> [S -> S]]
  BY <1>3
<1>5. \A k \in 1 .. n, s \in S : step[k][s] = Resolved(b, pairs, s, k)
  OBVIOUS
<1>6. ResolveChains(b, pairs) = upTo[n]
  BY DEF ResolveChains
<1> HIDE DEF S, step, upTo, none
<1>7. PICK f : IsStaged(f, n, S, none, step)
  <2> HIDE DEF n
  <2> QED
    BY <1>1, <1>2, <1>4, StagesExist
<1>8. \A k \in 0 .. n : f[k] = IF k = 0 THEN <<>> ELSE Resolved(b, pairs, f[k - 1], k)
  <2> SUFFICES ASSUME NEW k \in 0 .. n, k # 0 PROVE f[k] = Resolved(b, pairs, f[k - 1], k)
    BY <1>2, <1>7 DEF IsStaged
  <2>1. k \in 1 .. n /\ k - 1 \in 0 .. n
    BY <1>1
  <2>2. f[k - 1] \in S
    BY <1>7, <2>1 DEF IsStaged
  <2> QED
    BY <1>5, <1>7, <2>1, <2>2 DEF IsStaged
<1>9. Graph(f)
  <2>1. f = [k \in 0 .. n |-> f[k]]
    BY <1>7 DEF IsStaged
  <2> QED
    BY <1>8, <2>1
<1>10. Graph(upTo)
  BY <1>9 DEF upTo
<1>11. \A k \in 0 .. n : upTo[k] = IF k = 0 THEN <<>> ELSE Resolved(b, pairs, upTo[k - 1], k)
  BY <1>10
<1> DEFINE G == [k \in 0 .. n |-> S]
<1>12. upTo[0] \in G[0]
  <2>1. 0 \in 0 .. n
    BY <1>1
  <2> QED
    BY <1>2, <1>11, <2>1
<1>13. \A k \in 1 .. n : upTo[k - 1] \in G[k - 1] => upTo[k] \in G[k]
  <2> SUFFICES ASSUME NEW k \in 1 .. n, upTo[k - 1] \in G[k - 1] PROVE upTo[k] \in G[k]
    OBVIOUS
  <2>1. k \in 0 .. n /\ k - 1 \in 0 .. n /\ k # 0
    BY <1>1
  <2>2. upTo[k - 1] \in S /\ upTo[k] = Resolved(b, pairs, upTo[k - 1], k)
    BY <1>11, <2>1
  <2>3. upTo[k] \in S
    BY <1>3, <2>2
  <2> QED
    BY <2>1, <2>3
<1>14. upTo[n] \in S
  <2>1. n \in 0 .. n
    BY <1>1
  <2>2. upTo[n] \in G[n]
    <3> HIDE DEF G, n
    <3> QED
      BY <1>1, <1>12, <1>13, StagesKeep
  <2> QED
    BY <2>1, <2>2
<1> QED
  BY <1>6, <1>14 DEF S

-----------------------------------------------------------------------------
(* Chains *)

\* Ids that differ are all kept, in their order.
LEMMA NothingRepeated ==
  ASSUME NEW T, NEW ids \in Seq(T), IsInjective(ids)
  PROVE  WithoutRepeats(ids) = ids
<1> DEFINE L == Len(ids)
           firsts == {k \in DOMAIN ids : \A j \in 1 .. (k - 1) : ids[j] # ids[k]}
           At(n) == CHOOSE k \in firsts : Cardinality(firsts \cap (1 .. k)) = n
<1>1. L \in Nat /\ DOMAIN ids = 1 .. L /\ ids = [k \in 1 .. L |-> ids[k]]
  OBVIOUS
<1>2. firsts = 1 .. L
  <2> SUFFICES ASSUME NEW k \in 1 .. L, NEW j \in 1 .. (k - 1) PROVE ids[j] # ids[k]
    BY <1>1
  <2>1. j \in DOMAIN ids /\ k \in DOMAIN ids /\ j # k
    BY <1>1
  <2> QED
    BY <2>1 DEF IsInjective
<1>3. WithoutRepeats(ids) = [n \in 1 .. Cardinality(firsts) |-> ids[At(n)]]
  BY DEF WithoutRepeats
<1>4. ASSUME NEW n \in 1 .. L PROVE At(n) = n
  <2>1. \A k \in 1 .. L : firsts \cap (1 .. k) = 1 .. k /\ k \in Nat
    BY <1>1, <1>2
  <2>2. \A k \in 1 .. L : Cardinality(1 .. k) = k
    <3> SUFFICES ASSUME NEW k \in 1 .. L PROVE Cardinality(1 .. k) = k
      OBVIOUS
    <3>1. 1 \in Int /\ k \in Int /\ k >= 1
      BY <1>1
    <3>2. Cardinality(1 .. k) = IF 1 > k THEN 0 ELSE k - 1 + 1
      BY <3>1, FS_Interval
    <3> QED
      BY <3>1, <3>2
  <2>3. \A k \in firsts : Cardinality(firsts \cap (1 .. k)) = k
    BY <1>2, <2>1, <2>2
  <2>4. n \in firsts
    BY <1>2
  <2> HIDE DEF firsts
  <2> QED
    BY <2>3, <2>4
<1>5. Cardinality(firsts) = L
  <2>1. 1 \in Int /\ L \in Int
    BY <1>1
  <2>2. Cardinality(1 .. L) = IF 1 > L THEN 0 ELSE L - 1 + 1
    BY <2>1, FS_Interval
  <2>3. Cardinality(firsts) = Cardinality(1 .. L)
    BY <1>2
  <2> HIDE DEF firsts, L
  <2> QED
    BY <1>1, <2>2, <2>3
<1> HIDE DEF firsts, At
<1>6. \A n \in 1 .. L : ids[At(n)] = ids[n]
  BY <1>4
<1> QED
  BY <1>1, <1>3, <1>5, <1>6

LEMMA Halves ==
  ASSUME NEW k \in Nat
  PROVE  \E j \in Nat : \/ k = 2 * j /\ k % 2 = 0
                        \/ k = 2 * j - 1 /\ k % 2 = 1
<1> DEFINE j == (k + 1) \div 2
<1>1. j \in Nat /\ ((k = 2 * j /\ k % 2 = 0) \/ (k = 2 * j - 1 /\ k % 2 = 1))
  OBVIOUS
<1> QED
  BY <1>1

LEMMA HalfOf ==
  ASSUME NEW j \in Nat
  PROVE  /\ (2 * j) % 2 = 0 /\ (2 * j + 1) \div 2 = j
         /\ j > 0 => (2 * j - 1) % 2 = 1 /\ ((2 * j - 1) + 1) \div 2 = j
OBVIOUS

\* The legs of a string: out, in, out, in.
AreLegs(pairs, s, legs) ==
  /\ legs \in Seq(Range(legs)) /\ Len(legs) = 2 * Len(s)
  /\ \A j \in 1 .. Len(s) : legs[2 * j - 1] = pairs[s[j]].out /\ legs[2 * j] = pairs[s[j]].in

LEMMA LegsOfString ==
  ASSUME NEW pairs, NEW s, Len(s) \in Nat, NEW legs,
         legs = [k \in 1 .. (2 * Len(s)) |->
                   LET pair == pairs[s[(k + 1) \div 2]]
                   IN IF k % 2 = 1 THEN pair.out ELSE pair.in]
  PROVE  AreLegs(pairs, s, legs)
<1> DEFINE n == Len(s)
<1>1. DOMAIN legs = 1 .. (2 * n) /\ n \in Nat /\ 2 * n \in Nat
  OBVIOUS
<1>2. \A k \in 1 .. (2 * n) : legs[k] = IF k % 2 = 1 THEN pairs[s[(k + 1) \div 2]].out
                                        ELSE pairs[s[(k + 1) \div 2]].in
  OBVIOUS
<1>3. legs = [k \in 1 .. (2 * n) |-> legs[k]]
  OBVIOUS
<1>4. legs \in Seq(Range(legs)) /\ Len(legs) = 2 * n
  <2>1. \A k \in 1 .. (2 * n) : legs[k] \in Range(legs)
    BY <1>1 DEF Range
  <2> DEFINE m == 2 * n
             R == Range(legs)
  <2>2. legs \in [1 .. m -> R] /\ m \in Nat
    BY <1>1, <1>3, <2>1
  <2> HIDE DEF m, R
  <2>3. legs \in Seq(R)
    BY <2>2
  <2>4. DOMAIN legs = 1 .. m /\ DOMAIN legs = 1 .. Len(legs) /\ Len(legs) \in Nat
    BY <2>2, <2>3
  <2>5. Len(legs) = m
    BY <2>2, <2>4
  <2> QED
    BY <2>3, <2>5 DEF m, R
<1> HIDE DEF n
<1>5. ASSUME NEW j \in 1 .. n
      PROVE  legs[2 * j - 1] = pairs[s[j]].out /\ legs[2 * j] = pairs[s[j]].in
  <2>1. j \in Nat /\ j > 0 /\ 2 * j - 1 \in 1 .. (2 * n) /\ 2 * j \in 1 .. (2 * n)
    BY <1>1
  <2>2. /\ (2 * j) % 2 = 0 /\ (2 * j + 1) \div 2 = j
        /\ (2 * j - 1) % 2 = 1 /\ ((2 * j - 1) + 1) \div 2 = j
    BY <2>1, HalfOf
  <2> DEFINE x == 2 * j - 1
             y == 2 * j
  <2>3. /\ x \in 1 .. (2 * n) /\ y \in 1 .. (2 * n)
        /\ y % 2 = 0 /\ (y + 1) \div 2 = j /\ x % 2 = 1 /\ (x + 1) \div 2 = j
    BY <2>1, <2>2
  <2> HIDE DEF x, y
  <2>4. legs[x] = pairs[s[j]].out
    BY <1>2, <2>3
  <2>5. y % 2 # 1
    BY <2>3
  <2>6. legs[y] = pairs[s[j]].in
    BY <1>2, <2>3, <2>5
  <2> QED
    BY <2>4, <2>6 DEF x, y
<1> QED
  BY <1>4, <1>5 DEF AreLegs, n

LEMMA PlacesOfLegs ==
  ASSUME NEW pairs, NEW s, Len(s) \in Nat, NEW legs, AreLegs(pairs, s, legs)
  PROVE  \A k \in DOMAIN legs : \E j \in 1 .. Len(s) :
           \/ k = 2 * j - 1 /\ k % 2 = 1 /\ legs[k] = pairs[s[j]].out
           \/ k = 2 * j /\ k % 2 = 0 /\ legs[k] = pairs[s[j]].in
<1> DEFINE n == Len(s)
<1> SUFFICES ASSUME NEW k \in DOMAIN legs
             PROVE  \E j \in 1 .. n : \/ k = 2 * j - 1 /\ k % 2 = 1 /\ legs[k] = pairs[s[j]].out
                                      \/ k = 2 * j /\ k % 2 = 0 /\ legs[k] = pairs[s[j]].in
  OBVIOUS
<1>1. n \in Nat /\ k \in Nat /\ k >= 1 /\ k <= 2 * n
  BY DEF AreLegs
<1>2. \A j \in 1 .. n : legs[2 * j - 1] = pairs[s[j]].out /\ legs[2 * j] = pairs[s[j]].in
  BY DEF AreLegs
<1> HIDE DEF n
<1>3. PICK j \in Nat : (k = 2 * j /\ k % 2 = 0) \/ (k = 2 * j - 1 /\ k % 2 = 1)
  BY <1>1, Halves
<1>4. j \in 1 .. n
  BY <1>1, <1>3
<1> QED
  BY <1>2, <1>3, <1>4

LEMMA LegsDiffer ==
  ASSUME NEW b, NEW pairs, AreSoundPairs(b, pairs), NEW s \in Seq(DOMAIN pairs),
         IsInjective(s), NEW legs, AreLegs(pairs, s, legs)
  PROVE  IsInjective(legs)
<1> SUFFICES ASSUME NEW x \in DOMAIN legs, NEW y \in DOMAIN legs, legs[x] = legs[y]
             PROVE  x = y
  BY DEF IsInjective
<1>1. Len(s) \in Nat /\ DOMAIN s = 1 .. Len(s)
  OBVIOUS
<1>2. PICK i \in 1 .. Len(s) : \/ x = 2 * i - 1 /\ legs[x] = pairs[s[i]].out
                               \/ x = 2 * i /\ legs[x] = pairs[s[i]].in
  BY <1>1, PlacesOfLegs
<1>3. PICK j \in 1 .. Len(s) : \/ y = 2 * j - 1 /\ legs[y] = pairs[s[j]].out
                               \/ y = 2 * j /\ legs[y] = pairs[s[j]].in
  BY <1>1, PlacesOfLegs
<1>4. s[i] \in DOMAIN pairs /\ s[j] \in DOMAIN pairs
  BY <1>1
<1>5. /\ s[i] # s[j] => pairs[s[i]].in # pairs[s[j]].in /\ pairs[s[i]].out # pairs[s[j]].out
      /\ pairs[s[i]].in # pairs[s[j]].out /\ pairs[s[j]].in # pairs[s[i]].out
  BY <1>4 DEF AreSoundPairs
<1>6. s[i] = s[j] => i = j
  BY <1>1 DEF IsInjective
<1> QED
  BY <1>2, <1>3, <1>5, <1>6

LEMMA OneAmount ==
  ASSUME NEW o1 \in Int, NEW i1 \in Int, NEW o2 \in Int, NEW tol \in Nat,
         Distance(-o1, i1) <= tol, Distance(-o1, -o2) <= tol
  PROVE  Distance(i1, -o2) <= 2 * tol
BY DEF Distance

LEMMA PairAmount ==
  ASSUME NEW o \in Int, NEW i \in Int, NEW tol \in Nat, Distance(-o, i) <= tol
  PROVE  Distance(o, -i) <= 2 * tol
BY DEF Distance

\* A string of pairs makes a cascade of its legs.
LEMMA ChainIsCascade ==
  ASSUME NEW b, NEW pairs, AreSoundPairs(b, pairs), NEW s \in Seq(DOMAIN pairs),
         IsString(b, pairs, s), NEW number
  PROVE  /\ IsCascadeIn(b, BuildChain(pairs, s, number))
         /\ AreLegs(pairs, s, BuildChain(pairs, s, number).ids)
<1> DEFINE legs == [k \in 1 .. (2 * Len(s)) |->
                     LET pair == pairs[s[(k + 1) \div 2]]
                     IN IF k % 2 = 1 THEN pair.out ELSE pair.in]
           c == BuildChain(pairs, s, number)
           n == Len(s)
<1>1. c = [number |-> number, ids |-> WithoutRepeats(legs),
           source |-> Head(legs), destination |-> Last(legs)]
  BY DEF BuildChain
<1>2. n \in Nat /\ n > 0 /\ DOMAIN s = 1 .. n /\ IsInjective(s)
  BY DEF IsString
<1>3. AreLegs(pairs, s, legs)
  BY <1>2, LegsOfString
<1> HIDE DEF legs, c
<1>4. legs \in Seq(Range(legs)) /\ Len(legs) = 2 * n /\ DOMAIN legs = 1 .. 2 * n
  BY <1>3 DEF AreLegs
<1>5. IsInjective(legs)
  BY <1>2, <1>3, LegsDiffer
<1>6. WithoutRepeats(legs) = legs
  BY <1>4, <1>5, NothingRepeated
<1>7. c.ids = legs /\ c.source = Head(legs) /\ c.destination = Last(legs)
  BY <1>1, <1>6
<1>8. \A j \in 1 .. n : /\ legs[2 * j - 1] = pairs[s[j]].out /\ legs[2 * j] = pairs[s[j]].in
                        /\ PairIsSound(b, pairs[s[j]])
  <2>1. \A j \in 1 .. n : s[j] \in DOMAIN pairs
    BY <1>2
  <2> QED
    BY <1>3, <2>1 DEF AreLegs, AreSoundPairs
<1>9. \A k \in DOMAIN legs : \E j \in 1 .. n :
        \/ k = 2 * j - 1 /\ k % 2 = 1 /\ legs[k] = pairs[s[j]].out
        \/ k = 2 * j /\ k % 2 = 0 /\ legs[k] = pairs[s[j]].in
  BY <1>2, <1>3, PlacesOfLegs
<1>10. ASSUME NEW k \in DOMAIN legs
       PROVE  (Lookup(b, legs[k]).amount < 0) <=> (k % 2 = 1)
  <2>1. PICK j \in 1 .. n : \/ k = 2 * j - 1 /\ k % 2 = 1 /\ legs[k] = pairs[s[j]].out
                            \/ k = 2 * j /\ k % 2 = 0 /\ legs[k] = pairs[s[j]].in
    BY <1>9
  <2>2. /\ Lookup(b, pairs[s[j]].out).amount < 0
        /\ Lookup(b, pairs[s[j]].in).amount > 0 /\ Lookup(b, pairs[s[j]].in).amount \in Int
    BY <1>8 DEF PairIsSound
  <2> QED
    BY <2>1, <2>2
<1>11. ASSUME NEW k \in 1 .. (2 * n - 1)
       PROVE  LET x == Lookup(b, legs[k])
                  y == Lookup(b, legs[k + 1])
              IN /\ Distance(x.day, y.day) <= TimeWindow
                 /\ (k % 2 = 0) <=> (x.account = y.account)
                 /\ Distance(x.amount, -y.amount) <= 2 * AmountTolerance
  <2>1. k \in DOMAIN legs /\ k \in Nat /\ AmountTolerance \in Nat
    BY <1>2, <1>4, TransfersAssumption
  <2>2. PICK j \in 1 .. n : \/ k = 2 * j - 1 /\ k % 2 = 1 /\ legs[k] = pairs[s[j]].out
                            \/ k = 2 * j /\ k % 2 = 0 /\ legs[k] = pairs[s[j]].in
    BY <1>9, <2>1
  <2>3. PairIsSound(b, pairs[s[j]])
    BY <1>8
  <2>4. CASE k = 2 * j - 1 /\ k % 2 = 1 /\ legs[k] = pairs[s[j]].out
    <3>1. k + 1 = 2 * j
      BY <1>2, <2>1, <2>4
    <3>2. legs[k + 1] = pairs[s[j]].in
      BY <1>8, <3>1
    <3> DEFINE x == Lookup(b, pairs[s[j]].out)
               y == Lookup(b, pairs[s[j]].in)
    <3>3. /\ x.amount \in Int /\ y.amount \in Int
          /\ Distance(-x.amount, y.amount) <= AmountTolerance
          /\ Distance(x.day, y.day) <= TimeWindow /\ x.account # y.account
      BY <2>3 DEF PairIsSound
    <3> HIDE DEF x, y
    <3>4. Distance(x.amount, -y.amount) <= 2 * AmountTolerance
      BY <2>1, <3>3, PairAmount
    <3> QED
      BY <2>4, <3>2, <3>3, <3>4 DEF x, y
  <2>5. CASE k = 2 * j /\ k % 2 = 0 /\ legs[k] = pairs[s[j]].in
    <3>1. j + 1 \in 1 .. n /\ j \in 1 .. n - 1 /\ k + 1 = 2 * (j + 1) - 1
      <4> HIDE DEF n
      <4> QED
        BY <1>2, <2>1, <2>5
    <3>2. legs[k + 1] = pairs[s[j + 1]].out /\ PairIsSound(b, pairs[s[j + 1]])
      BY <1>8, <3>1
    <3>3. Linked(b, pairs, s[j], s[j + 1])
      BY <3>1 DEF IsString
    <3> DEFINE w == Lookup(b, pairs[s[j]].out)
               x == Lookup(b, pairs[s[j]].in)
               y == Lookup(b, pairs[s[j + 1]].out)
    <3>4. /\ w.amount \in Int /\ x.amount \in Int
          /\ Distance(-w.amount, x.amount) <= AmountTolerance
          /\ x.account = pairs[s[j]].to /\ pairs[s[j]].amount = -w.amount
      BY <2>3 DEF PairIsSound
    <3>5. /\ y.amount \in Int /\ y.account = pairs[s[j + 1]].from
          /\ pairs[s[j + 1]].amount = -y.amount
      BY <3>2 DEF PairIsSound
    <3>6. /\ pairs[s[j]].to = pairs[s[j + 1]].from
          /\ Distance(pairs[s[j]].amount, pairs[s[j + 1]].amount) <= AmountTolerance
          /\ Distance(x.day, y.day) <= TimeWindow
      BY <3>3 DEF Linked
    <3> HIDE DEF w, x, y
    <3>7. Distance(-w.amount, -y.amount) <= AmountTolerance /\ x.account = y.account
      BY <3>4, <3>5, <3>6
    <3>8. Distance(x.amount, -y.amount) <= 2 * AmountTolerance
      BY <2>1, <3>4, <3>5, <3>7, OneAmount
    <3> QED
      BY <2>5, <3>2, <3>6, <3>7, <3>8 DEF x, y
  <2> QED
    BY <2>2, <2>4, <2>5
<1>12. Len(legs) % 2 = 0
  <2>1. (2 * n) % 2 = 0
    BY <1>2, HalfOf
  <2> QED
    BY <1>4, <2>1
<1>13. Head(legs) = legs[1]
  <2>1. legs # <<>>
    BY <1>2, <1>4
  <2> QED
    BY <1>4, <2>1
<1>14. IsCascadeIn(b, c)
  BY <1>4, <1>5, <1>7, <1>10, <1>11, <1>12, <1>13 DEF IsCascadeIn
<1> QED
  BY <1>3, <1>7, <1>14 DEF c

\* What DetectChains finds, in any book whose bookings have ids.
LEMMA ChainsFound ==
  ASSUME NEW b, HasIds(b), NEW number
  PROVE  AreCascades(b, DetectChains(b, number))
<1> DEFINE pairs == FindPairs(b)
           ss == ResolveChains(b, pairs)
           cs == DetectChains(b, number)
<1>1. AreSoundPairs(b, pairs)
  BY PairsAreSound
<1>2. cs = [n \in DOMAIN ss |-> BuildChain(pairs, ss[n], number + n)]
  BY DEF DetectChains
<1> HIDE DEF pairs, cs
<1>3. ss \in StringLists(b, pairs)
  BY <1>1, StringsFound
<1> HIDE DEF ss
<1>4. /\ \A n \in DOMAIN ss : ss[n] \in Seq(DOMAIN pairs) /\ IsString(b, pairs, ss[n])
      /\ \A m, n \in DOMAIN ss : m # n => Range(ss[m]) \cap Range(ss[n]) = {}
  BY <1>3 DEF StringLists
<1>5. DOMAIN cs = DOMAIN ss /\ \A n \in DOMAIN ss : cs[n] = BuildChain(pairs, ss[n], number + n)
  BY <1>2
<1>6. \A n \in DOMAIN ss : IsCascadeIn(b, cs[n]) /\ AreLegs(pairs, ss[n], cs[n].ids)
  BY <1>1, <1>4, <1>5, ChainIsCascade
<1>7. ASSUME NEW n \in DOMAIN ss, NEW id \in Range(cs[n].ids)
      PROVE  \E i \in Range(ss[n]) : i \in DOMAIN pairs /\ (id = pairs[i].out \/ id = pairs[i].in)
  <2>1. PICK k \in DOMAIN cs[n].ids : id = cs[n].ids[k]
    BY <1>7 DEF Range
  <2>2. ss[n] \in Seq(DOMAIN pairs) /\ Len(ss[n]) \in Nat
    BY <1>4
  <2>3. PICK j \in 1 .. Len(ss[n]) : id = pairs[ss[n][j]].out \/ id = pairs[ss[n][j]].in
    BY <1>6, <2>1, <2>2, PlacesOfLegs
  <2>4. ss[n][j] \in Range(ss[n]) /\ ss[n][j] \in DOMAIN pairs
    BY <2>2 DEF Range
  <2> QED
    BY <2>3, <2>4
<1>8. ASSUME NEW m \in DOMAIN ss, NEW n \in DOMAIN ss, m # n
      PROVE  Range(cs[m].ids) \cap Range(cs[n].ids) = {}
  <2> SUFFICES ASSUME NEW id, id \in Range(cs[m].ids), id \in Range(cs[n].ids) PROVE FALSE
    OBVIOUS
  <2>1. PICK i \in Range(ss[m]) : i \in DOMAIN pairs /\ (id = pairs[i].out \/ id = pairs[i].in)
    BY <1>7
  <2>2. PICK j \in Range(ss[n]) : j \in DOMAIN pairs /\ (id = pairs[j].out \/ id = pairs[j].in)
    BY <1>7
  <2>3. i # j
    BY <1>4, <1>8
  <2>4. /\ pairs[i].in # pairs[j].in /\ pairs[i].out # pairs[j].out
        /\ pairs[i].in # pairs[j].out /\ pairs[j].in # pairs[i].out
    BY <1>1, <2>1, <2>2, <2>3 DEF AreSoundPairs
  <2> QED
    BY <2>1, <2>2, <2>4
<1>9. AreCascades(b, cs)
  BY <1>5, <1>6, <1>8 DEF AreCascades
<1> QED
  BY <1>9 DEF cs

-----------------------------------------------------------------------------
(* The book always *)

\* A booking has no id, or its place from the end.
\* The inductive invariant of Transfers.
TInv ==
  /\ book \in Seq(Line)
  /\ UniqueIds(book) => AreCascades(book, chains)
  /\ RefundsApart(book, refunds)

LEMMA InitTInv == TransfersInit => TInv
<1> SUFFICES ASSUME TransfersInit PROVE TInv
  OBVIOUS
<1>1. book = <<>> /\ chains = <<>> /\ refunds = <<>>
  BY DEF TransfersInit
<1> QED
  BY <1>1 DEF TInv, AreCascades, RefundsApart

LEMMA DerivedHolds ==
  ASSUME NEW b \in Seq(Line), DeriveFrom(b)
  PROVE  TInv'
<1>1. /\ book' = b /\ chains' = DetectChains(b, Max({0} \cup DOMAIN overrides))
      /\ refunds' = DetectRefunds(b)
  BY DEF DeriveFrom
<1>2. UniqueIds(b) => AreCascades(b, chains')
  BY <1>1, ChainsFound DEF HasIds
<1>3. RefundsApart(b, refunds')
  BY <1>1, RefundsAreApart
<1> QED
  BY <1>1, <1>2, <1>3 DEF TInv

LEMMA OneMoreLine ==
  ASSUME NEW b \in Seq(Line), NEW t \in Bookable, NEW id \in Nat
  PROVE  <<[t EXCEPT !.id = id]>> \o b \in Seq(Line)
<1>1. t \in Booking
  BY TransfersAssumption
<1>2. [t EXCEPT !.id = id] \in Line
  BY <1>1 DEF Booking, Line
<1> QED
  BY <1>2, Prepended

LEMMA StepTInv == TInv /\ [TransfersNext]_transferVars => TInv'
<1> SUFFICES ASSUME TInv, [TransfersNext]_transferVars PROVE TInv'
  OBVIOUS
<1>1. book \in Seq(Line)
  BY DEF TInv
<1>2. ASSUME NEW t \in Bookable, NEW id \in 0 .. MaxBook, Arrive(t, id) PROVE TInv'
  <2>1. id \in Nat
    BY TransfersAssumption
  <2>2. <<[t EXCEPT !.id = id]>> \o book \in Seq(Line)
    BY <1>1, <2>1, OneMoreLine
  <2> QED
    BY <1>2, <2>2, DerivedHolds DEF Arrive
<1>3. CASE Rederive
  BY <1>1, <1>3, DerivedHolds DEF Rederive
<1>4. ASSUME NEW n \in DOMAIN chains, NEW confirmed \in BOOLEAN,
             Confirm(chains[n].number, confirmed)
      PROVE  TInv'
  BY <1>4 DEF Confirm, TInv
<1>5. CASE UNCHANGED transferVars
  BY <1>5 DEF transferVars, TInv
<1> QED
  BY <1>2, <1>3, <1>4, <1>5 DEF TransfersNext

LEMMA TransfersHold == TransfersSpec => []TInv
  BY InitTInv, StepTInv, PTL DEF TransfersSpec

\* Whatever is booked under ids that tell it apart, in whatever order within a day:
\* a chain is the way of one amount, up to the tolerance, from account to account,
\* and no booking is in two (transfer_detector.py,
\* _find_transfer_pairs, _resolve_chains, _build_chain).
THEOREM OneAmountEach == TransfersSpec => []ChainsAreCascades
<1>1. TInv => ChainsAreCascades
  BY DEF TInv, ChainsAreCascades
<1> QED
  BY <1>1, TransfersHold, PTL

\* No payment is refunded twice, and a refund is its payment's own up to one cent,
\* whatever ids the banks give (transfer_detector.py, _detect_refunds).
THEOREM RefundedOnce == TransfersSpec => []RefundsAreDisjoint
<1>1. TInv => RefundsAreDisjoint
  BY DEF TInv, RefundsAreDisjoint
<1> QED
  BY <1>1, TransfersHold, PTL

LEMMA CountedIsKept == CountedIsEffective
<1> SUFFICES ASSUME NEW p \in DOMAIN book, Counts(book[p]) PROVE p \in Effective
  BY DEF CountedIsEffective, CountedTransactions
<1>1. CASE InChain(book[p]) /\ ~InRejected(book[p])
  BY <1>1 DEF Counts, Effective
<1>2. CASE InRejected(book[p])
  BY <1>2 DEF Effective
<1>3. CASE ~InChain(book[p])
  BY <1>3 DEF Effective, Role
<1> QED
  BY <1>1, <1>2, <1>3

\* The household figures count nothing that the monthly figures leave out, whatever
\* the chains and the verdicts are (household_summary.counted_transactions).
THEOREM CountedIsNotLeftOut == TransfersSpec => []CountedIsEffective
  BY CountedIsKept, PTL
================================================================================
