----------------------------- MODULE Notices_proofs -----------------------------
(***************************************************************************)
(* What the user sets is what is saved, and nothing is told twice, for any  *)
(* findings, series, deadlines and days.                                   *)
(*                                                                         *)
(* The property speaks of the two files.  It is kept by what is in memory:  *)
(* a run that is not stale holds the user's choice (Held), the contract    *)
(* store has the terms of its file, or is about to read them (Stored), and *)
(* nobody writes a store that was never created (Created).                 *)
(***************************************************************************)
EXTENDS Notices, WellFoundedInduction, TLAPS

\* The records have the fields that are replaced.
Shapes ==
  /\ {"at", "today", "held", "stale"} \subseteq DOMAIN run /\ "enabled" \in DOMAIN run.held
  /\ {"at", "held", "stale"} \subseteq DOMAIN put /\ "enabled" \in DOMAIN put.held
  /\ "enabled" \in DOMAIN file
  /\ {"at", "data", "raw"} \subseteq DOMAIN store
  /\ "terms" \in DOMAIN store.data /\ "terms" \in DOMAIN store.raw
  /\ "terms" \in DOMAIN contractFile
  /\ {"enabled", "terms"} \subseteq DOMAIN wish

Held == run.at # "idle" /\ ~run.stale => run.held.enabled = file.enabled

Created ==
  /\ store.at \in {"none", "loading", "loaded"}
  /\ store.at = "none" => run.at \in {"idle", "loaded"} /\ edit = "idle"
  /\ run.at = "loading" \/ edit = "loading" => store.at = "loading"
  /\ ~(run.at = "loading" /\ edit = "loading")

Stored ==
  ~lost =>
    /\ store.at = "loaded" => store.data.terms = contractFile.terms
    /\ store.at = "loading" => store.data.terms = {} /\ store.raw.terms = contractFile.terms

IInv == Shapes /\ Held /\ Created /\ Stored /\ WishesKept

-----------------------------------------------------------------------------
LEMMA InitKept == Init => IInv
  BY DEF Init, IInv, Shapes, Held, Created, Stored, WishesKept, DefaultState, NoContracts,
     NoStore, IdleRun, IdlePut

\* A stale mark changes nothing else.
LEMMA StaleMarks ==
  ASSUME NEW r, {"at", "held", "stale"} \subseteq DOMAIN r
  PROVE  /\ DOMAIN Stale(r) = DOMAIN r
         /\ Stale(r).at = r.at /\ Stale(r).held = r.held
         /\ "today" \in DOMAIN r => Stale(r).today = r.today
         /\ r.at # "idle" => Stale(r).stale
  BY DEF Stale

\* After its load the store has the terms it has read, and those that came before.
LEMMA Loads == /\ LoadedStore.at = "loaded"
               /\ DOMAIN LoadedStore = {"at", "data", "raw"}
               /\ "terms" \in DOMAIN LoadedStore.data /\ "terms" \in DOMAIN LoadedStore.raw
               /\ LoadedStore.data.terms = store.raw.terms \cup store.data.terms
  BY DEF LoadedStore, NoContracts

\* A run that ends leaves a fresh one.
LEMMA IdleShape ==
  ASSUME NEW d
  PROVE  LET r == [IdleRun EXCEPT !.today = d]
         IN r.at = "idle" /\ DOMAIN r = {"at", "today", "held", "stale"}
            /\ "enabled" \in DOMAIN r.held
  BY DEF IdleRun, DefaultState

\* The digest and the save: the wizard's state as the run holds it.
LEMMA FinishKeeps ==
  ASSUME IInv, Finish(run.held), run.at \in {"store", "digest"},
         UNCHANGED <<contractFile, store, edit, wish>>
  PROVE  IInv'
<1>1. /\ file' = [run.held EXCEPT !.week = Week(run.today)]
      /\ lost' = (lost \/ run.stale)
      /\ run' = [IdleRun EXCEPT !.today = run.today] /\ put' = Stale(put)
  BY DEF Finish, SaveState
<1>2. "enabled" \in DOMAIN file' /\ file'.enabled = run.held.enabled
  BY <1>1 DEF IInv, Shapes
<1>3. run'.at = "idle" /\ Shapes'
  BY <1>1, <1>2, IdleShape, StaleMarks DEF IInv, Shapes
<1>4. Held' /\ Created' /\ Stored'
  BY <1>1, <1>3 DEF IInv, Held, Created, Stored
<1>5. WishesKept'
  BY <1>1, <1>2 DEF IInv, WishesKept, Held
<1> QED
  BY <1>3, <1>4, <1>5 DEF IInv

LEMMA StepKept == IInv /\ [Next]_vars => IInv'
<1> SUFFICES ASSUME IInv, [Next]_vars PROVE IInv'
  OBVIOUS
<1> USE DEF IInv
<1>1. CASE BeginPut
  <2>1. /\ put' = [at |-> "loaded", held |-> file, stale |-> FALSE]
        /\ UNCHANGED <<file, contractFile, store, run, edit, wish, lost>>
    BY <1>1 DEF BeginPut
  <2>2. Shapes'
    BY <2>1 DEF Shapes
  <2> QED
    BY <2>1, <2>2 DEF Held, Created, Stored, WishesKept
<1>2. ASSUME NEW value \in BOOLEAN, FinishPut(value) PROVE IInv'
  <2>1. /\ file' = [put.held EXCEPT !.enabled = value] /\ lost' = (lost \/ put.stale)
        /\ wish' = [wish EXCEPT !.enabled = value]
        /\ put' = IdlePut /\ run' = Stale(run)
        /\ UNCHANGED <<contractFile, store, edit>>
    BY <1>2 DEF FinishPut, SaveState, Applied
  <2>2. /\ "enabled" \in DOMAIN file' /\ file'.enabled = value
        /\ {"enabled", "terms"} \subseteq DOMAIN wish'
        /\ wish'.enabled = value /\ wish'.terms = wish.terms
    BY <2>1 DEF Shapes
  <2>3. /\ run'.at = run.at /\ run'.held = run.held /\ DOMAIN run' = DOMAIN run
        /\ run.at # "idle" => run'.stale
    BY <2>1, StaleMarks DEF Shapes
  <2>4. Shapes'
    BY <2>1, <2>2, <2>3 DEF Shapes, IdlePut, DefaultState
  <2>5. Held' /\ Created' /\ Stored'
    BY <2>1, <2>3 DEF Held, Created, Stored
  <2>6. WishesKept'
    BY <2>1, <2>2 DEF WishesKept
  <2> QED
    BY <2>4, <2>5, <2>6
<1>3. CASE StartRun
  <2>1. /\ run' = [at |-> "loaded", today |-> day, held |-> file, stale |-> FALSE]
        /\ run.at = "idle"
        /\ UNCHANGED <<file, contractFile, store, put, edit, wish, lost>>
    BY <1>3 DEF StartRun
  <2>2. Shapes' /\ run'.at = "loaded" /\ run'.held = file'
    BY <2>1 DEF Shapes
  <2> QED
    BY <2>1, <2>2 DEF Held, Created, Stored, WishesKept
<1>4. CASE Disabled
  <2>1. /\ run' = [IdleRun EXCEPT !.today = run.today]
        /\ UNCHANGED <<file, contractFile, store, put, edit, wish, lost>>
    BY <1>4 DEF Disabled
  <2>2. run'.at = "idle" /\ Shapes'
    BY <2>1, IdleShape DEF Shapes
  <2> QED
    BY <2>1, <2>2 DEF Held, Created, Stored, WishesKept
<1>5. CASE Deliver
  <2>1. /\ run.at = "loaded"
        /\ \E n : run' = [run EXCEPT !.held.notified = n, !.today = day,
                                     !.at = IF store.at = "none" THEN "loading" ELSE "store"]
        /\ UNCHANGED <<file, contractFile, put, edit, wish, lost>>
    BY <1>5 DEF Deliver
  <2>2. /\ run'.at = IF store.at = "none" THEN "loading" ELSE "store"
        /\ run'.stale = run.stale /\ DOMAIN run' = DOMAIN run
        /\ DOMAIN run'.held = DOMAIN run.held /\ run'.held.enabled = run.held.enabled
    BY <2>1 DEF Shapes
  <2>3. CASE store.at = "none"
    <3>1. store' = [at |-> "loading", data |-> NoContracts, raw |-> contractFile]
      BY <1>5, <2>3 DEF Deliver, CreateStore
    <3>2. /\ store'.at = "loading" /\ store'.data.terms = {} /\ store'.raw.terms = contractFile'.terms
          /\ Shapes'
      BY <2>1, <2>2, <3>1 DEF Shapes, NoContracts
    <3> QED
      BY <2>1, <2>2, <2>3, <3>2 DEF Held, Created, Stored, WishesKept
  <2>4. CASE store.at # "none"
    <3>1. store' = store
      BY <1>5, <2>4 DEF Deliver
    <3>2. Shapes'
      BY <2>1, <2>2, <3>1 DEF Shapes
    <3> QED
      BY <2>1, <2>2, <2>4, <3>1, <3>2 DEF Held, Created, Stored, WishesKept
  <2> QED
    BY <2>3, <2>4
<1>6. CASE StoreLoads
  <2>1. /\ run.at = "loading" /\ store' = LoadedStore
        /\ run' = [run EXCEPT !.at = "store"]
        /\ UNCHANGED <<file, contractFile, put, edit, wish, lost>>
    BY <1>6 DEF StoreLoads
  <2>2. /\ run'.at = "store" /\ run'.held = run.held /\ run'.stale = run.stale
        /\ DOMAIN run' = DOMAIN run
    BY <2>1 DEF Shapes
  <2>3. Shapes'
    BY <2>1, <2>2, Loads DEF Shapes
  <2> QED
    BY <2>1, <2>2, <2>3, Loads DEF Held, Created, Stored, WishesKept
<1>7. CASE NothingDue \/ Digest
  BY <1>7, FinishKeeps DEF NothingDue, Digest
<1>8. CASE FireNotices
  <2>1. /\ run.at = "store"
        /\ \E n : LET data == [store.data EXCEPT !.notified = n]
                  IN store' = [store EXCEPT !.data = data] /\ contractFile' = data
        /\ lost' = (lost \/ store.at = "loading")
        /\ run' = [run EXCEPT !.at = "digest"]
        /\ UNCHANGED <<file, put, edit, wish>>
    BY <1>8 DEF FireNotices
  <2>2. /\ run'.at = "digest" /\ run'.held = run.held /\ run'.stale = run.stale
        /\ DOMAIN run' = DOMAIN run
    BY <2>1 DEF Shapes
  <2>3. /\ store'.at = store.at /\ store'.raw = store.raw /\ DOMAIN store' = DOMAIN store
        /\ store'.data = contractFile' /\ "terms" \in DOMAIN contractFile'
        /\ contractFile'.terms = store.data.terms
    BY <2>1 DEF Shapes
  <2>4. Shapes'
    BY <2>1, <2>2, <2>3 DEF Shapes
  <2>5. ~lost' => store.at = "loaded" /\ store.data.terms = contractFile.terms
    BY <2>1 DEF Created, Stored
  <2> QED
    BY <2>1, <2>2, <2>3, <2>4, <2>5 DEF Held, Created, Stored, WishesKept
<1>9. CASE RunFails
  <2>1. /\ run' = [IdleRun EXCEPT !.today = run.today] /\ lost' = TRUE
        /\ UNCHANGED <<file, contractFile, store, put, edit, wish>>
    BY <1>9 DEF RunFails
  <2>2. run'.at = "idle" /\ Shapes'
    BY <2>1, IdleShape DEF Shapes
  <2> QED
    BY <2>1, <2>2 DEF Held, Created, Stored, WishesKept
<1>10. CASE BeginEdit
  <2>1. UNCHANGED <<file, contractFile, run, put, wish, lost>> /\ edit = "idle"
    BY <1>10 DEF BeginEdit
  <2>2. CASE store.at = "none"
    <3>1. /\ store' = [at |-> "loading", data |-> NoContracts, raw |-> contractFile]
          /\ edit' = "loading"
      BY <1>10, <2>2 DEF BeginEdit, CreateStore
    <3>2. /\ store'.at = "loading" /\ store'.data.terms = {} /\ store'.raw.terms = contractFile'.terms
          /\ Shapes'
      BY <2>1, <3>1 DEF Shapes, NoContracts
    <3> QED
      BY <2>1, <2>2, <3>1, <3>2 DEF Held, Created, Stored, WishesKept
  <2>3. CASE store.at # "none"
    <3>1. store' = store /\ edit' = "store"
      BY <1>10, <2>3 DEF BeginEdit
    <3>2. Shapes'
      BY <2>1, <3>1 DEF Shapes
    <3> QED
      BY <2>1, <2>3, <3>1, <3>2 DEF Held, Created, Stored, WishesKept
  <2> QED
    BY <2>2, <2>3
<1>11. CASE EditLoads
  <2>1. /\ edit = "loading" /\ store' = LoadedStore /\ edit' = "store"
        /\ UNCHANGED <<file, contractFile, run, put, wish, lost>>
    BY <1>11 DEF EditLoads
  <2>2. Shapes'
    BY <2>1, Loads DEF Shapes
  <2> QED
    BY <2>1, <2>2, Loads DEF Held, Created, Stored, WishesKept
<1>12. ASSUME NEW s \in Series, Edit(s) PROVE IInv'
  <2> DEFINE data == [store.data EXCEPT !.terms = @ \cup {s}]
  <2>1. /\ edit = "store" /\ edit' = "idle"
        /\ store' = [store EXCEPT !.data = data] /\ contractFile' = data
        /\ wish' = [wish EXCEPT !.terms = @ \cup {s}]
        /\ lost' = (lost \/ store.at = "loading")
        /\ UNCHANGED <<file, run, put>>
    BY <1>12 DEF Edit
  <2>2. data.terms = store.data.terms \cup {s} /\ "terms" \in DOMAIN data
    BY DEF Shapes
  <2> HIDE DEF data
  <2>3. /\ store'.at = store.at /\ store'.raw = store.raw /\ DOMAIN store' = DOMAIN store
        /\ store'.data = data
        /\ wish'.terms = wish.terms \cup {s} /\ wish'.enabled = wish.enabled
        /\ DOMAIN wish' = DOMAIN wish
    BY <2>1 DEF Shapes
  <2>4. Shapes'
    BY <2>1, <2>2, <2>3 DEF Shapes
  <2>5. ~lost' => store.data.terms = contractFile.terms
    BY <2>1 DEF Created, Stored
  <2>6. Held' /\ Created' /\ Stored'
    BY <2>1, <2>3 DEF Held, Created, Stored
  <2>7. WishesKept'
    BY <2>1, <2>2, <2>3, <2>5 DEF WishesKept
  <2> QED
    BY <2>4, <2>6, <2>7
<1>13. CASE Tick \/ UNCHANGED vars
  BY <1>13 DEF Tick, vars, Shapes, Held, Created, Stored, WishesKept
<1>14. CASE Restart
  <2>1. /\ store' = NoStore /\ run' = [IdleRun EXCEPT !.today = run.today]
        /\ put' = IdlePut /\ edit' = "idle"
        /\ lost' = (lost \/ run.at \notin {"idle", "loaded"})
        /\ UNCHANGED <<file, contractFile, wish>>
    BY <1>14 DEF Restart
  <2>2. run'.at = "idle" /\ store'.at = "none" /\ Shapes'
    BY <2>1, IdleShape DEF Shapes, NoStore, NoContracts, IdlePut, DefaultState
  <2> QED
    BY <2>1, <2>2 DEF Held, Created, Stored, WishesKept
<1> QED
  BY <1>1, <1>2, <1>3, <1>4, <1>5, <1>6, <1>7, <1>8, <1>9, <1>10, <1>11, <1>12, <1>13, <1>14
  DEF Next

-----------------------------------------------------------------------------
\* Unless a save was lost, what the user set last is what is saved, whatever runs,
\* loads and restarts came between (setup_wizard.py, contracts.py ContractStore).
THEOREM SettingsAreKept == Spec => []WishesKept
<1>1. IInv => WishesKept
  BY DEF IInv
<1> QED
  BY InitKept, StepKept, <1>1, PTL DEF Spec
-----------------------------------------------------------------------------
(* Arithmetic of deadlines and weeks *)

LEMMA Multiples == ASSUME NEW R \in Nat \ {0}, NEW q \in Int PROVE (R * q) % R = 0
  OBVIOUS

LT == {pair \in Nat \X Nat : pair[1] < pair[2]}

\* A set of numbers has a smallest one: < is well-founded on them.
LEMMA Smallest ==
  ASSUME NEW T \in SUBSET Nat, T # {}
  PROVE  \E n \in T : \A m \in T : n <= m
<1>1. IsWellFoundedOn(LT, Nat)
  BY NatLessThanWellFounded DEF OpToRel, LT
<1>2. PICK x \in T : \A y \in T : ~(<<y, x>> \in LT)
  BY <1>1, WFMin
<1>3. \A y \in T : ~(y < x)
  BY <1>2 DEF LT
<1> QED
  BY <1>3

\* Deadlines recur, so there is a next one, and it is not past.
LEMMA NextIsAhead ==
  ASSUME day \in Days, NEW s \in Series, NEW terms
  PROVE  NextDeadline(s, terms) \in Nat /\ NextDeadline(s, terms) >= day
<1> DEFINE first == IF s \in terms THEN FirstEnd[s] + 1 ELSE FirstEnd[s]
           ahead == {n \in first..(first + LastDay + Renewal) :
                       (n - first) % Renewal = 0 /\ n >= day}
<1>1. first \in Nat /\ day \in Nat /\ day <= LastDay /\ LastDay \in Nat /\ Renewal \in Nat \ {0}
  BY NoticesAssumption DEF Days
<1>2. NextDeadline(s, terms) = CHOOSE n \in ahead : \A m \in ahead : n <= m
  BY DEF NextDeadline
<1> HIDE DEF first
<1>3. ahead # {}
  <2>1. CASE first >= day
    <3>1. (first - first) % Renewal = 0
      BY <1>1
    <3>2. first \in ahead
      BY <1>1, <2>1, <3>1
    <3> QED
      BY <3>2
  <2>2. CASE first < day
    <3> DEFINE q == (day - first) \div Renewal
               n == first + Renewal * (q + 1)
    <3>1. /\ q \in Int
          /\ day - first = Renewal * q + ((day - first) % Renewal)
          /\ (day - first) % Renewal \in 0..(Renewal - 1)
      BY <1>1
    <3> HIDE DEF q
    <3>2. Renewal * (q + 1) = Renewal * q + Renewal /\ Renewal * q \in Int
      BY <1>1, <3>1
    <3>3. n \in Nat /\ n >= day /\ n <= day + Renewal /\ n - first = Renewal * (q + 1)
      BY <1>1, <2>2, <3>1, <3>2
    <3>4. (n - first) % Renewal = 0
      BY <1>1, <3>1, <3>3, Multiples
    <3> HIDE DEF n
    <3>5. n \in ahead
      BY <1>1, <2>2, <3>3, <3>4
    <3> QED
      BY <3>5
  <2> QED
    BY <1>1, <2>1, <2>2
<1>4. ahead \in SUBSET Nat
  BY <1>1
<1>5. \E n \in ahead : \A m \in ahead : n <= m
  BY <1>3, <1>4, Smallest
<1>6. NextDeadline(s, terms) \in ahead
  BY <1>2, <1>5
<1> QED
  BY <1>1, <1>4, <1>6

\* Weeks follow days.
LEMMA Weeks ==
  /\ \A d \in 0..LastDay : Week(d) \in 0..LastDay
  /\ \A d, e \in 0..LastDay : d <= e => Week(d) <= Week(e)
<1>1. WeekDays \in Nat \ {0} /\ LastDay \in Nat
  BY NoticesAssumption
<1>2. (0 - 1) \div WeekDays = 0 - 1
  BY <1>1
<1>3. \A a, b \in Int : a <= b => a \div WeekDays <= b \div WeekDays
  BY <1>1
<1>4. \A a \in Nat : a \div WeekDays \in Nat /\ a \div WeekDays <= a
  BY <1>1
<1>5. ASSUME NEW d \in 0..LastDay PROVE Week(d) \in 0..LastDay
  <2>1. CASE d = 0
    BY <1>1, <1>2, <2>1 DEF Week
  <2>2. CASE d # 0
    <3>1. d - 1 \in Nat
      BY <2>2
    <3>2. (d - 1) \div WeekDays \in Nat /\ (d - 1) \div WeekDays <= d - 1
      BY <1>4, <3>1
    <3> QED
      BY <1>1, <3>2 DEF Week
  <2> QED
    BY <2>1, <2>2
<1>6. ASSUME NEW d \in 0..LastDay, NEW e \in 0..LastDay, d <= e PROVE Week(d) <= Week(e)
  <2>1. (d - 1) \div WeekDays <= (e - 1) \div WeekDays
    BY <1>3, <1>6
  <2>2. (d - 1) \div WeekDays \in Int /\ (e - 1) \div WeekDays \in Int
    BY <1>1
  <2> QED
    BY <2>1, <2>2 DEF Week
<1> QED
  BY <1>5, <1>6

\* What is due are deadlines that are not past, and the store has room for them.
LEMMA DueIsAhead ==
  ASSUME day \in Days
  PROVE  Due \subseteq Markers /\ \A m \in Due : m[2] >= day
<1> SUFFICES ASSUME NEW m \in Due PROVE m \in Markers /\ m[2] >= day
  OBVIOUS
<1>1. PICK s \in Series : /\ m = <<s, NextDeadline(s, store.data.terms)>>
                          /\ NextDeadline(s, store.data.terms) - day <= NoticeWindow
  BY DEF Due
<1>2. NextDeadline(s, store.data.terms) \in Nat /\ NextDeadline(s, store.data.terms) >= day
  BY NextIsAhead
<1>3. day \in Nat /\ day <= LastDay /\ LastDay \in Nat /\ Renewal \in Nat /\ NoticeWindow \in Nat
  BY NoticesAssumption DEF Days
<1>4. NextDeadline(s, store.data.terms) \in 0..(LastDay + Renewal + NoticeWindow)
  BY <1>1, <1>2, <1>3
<1> QED
  BY <1>1, <1>2, <1>4 DEF Markers
-----------------------------------------------------------------------------
(* Every variable keeps its kind *)

\* Nothing was told after today.
ToldBefore == \A f \in Findings : told[f].last <= day

LEMMA InitTyped == Init => TypeOK
<1>1. 1 \in Days /\ 0 \in 0..LastDay
  BY NoticesAssumption DEF Days
<1>2. DefaultState \in State /\ NoContracts \in Contracts
  BY <1>1 DEF DefaultState, NoContracts, State, Contracts
<1>3. SUFFICES ASSUME Init PROVE TypeOK
  OBVIOUS
<1>4. /\ told \in [Findings -> [n : 0..2, gap : 0..LastDay, last : 0..LastDay]]
      /\ digests \in [Days -> 0..2] /\ fired \in [Markers -> 0..2]
      /\ wish \in [enabled : BOOLEAN, terms : SUBSET Series]
  BY <1>1, <1>3 DEF Init
<1> QED
  BY <1>1, <1>2, <1>3, <1>4 DEF Init, TypeOK, NoStore, IdleRun, IdlePut

\* What a day, a load, an idle run and a stale mark are made of.
LEMMA Kinds ==
  ASSUME TypeOK
  PROVE  /\ day \in Nat /\ day \in 1..LastDay /\ day \in 0..LastDay /\ LastDay \in Nat
         /\ DefaultState \in State /\ NoContracts \in Contracts
         /\ LoadedStore \in [at : {"loaded"}, data : Contracts, raw : Contracts]
         /\ [IdleRun EXCEPT !.today = run.today] \in
              [at : {"idle"}, today : 0..LastDay, held : State, stale : BOOLEAN]
         /\ Stale(run) \in [at : {run.at}, today : {run.today}, held : {run.held}, stale : BOOLEAN]
         /\ Stale(put) \in [at : {put.at}, held : {put.held}, stale : BOOLEAN]
<1>1. day \in Nat /\ day \in 1..LastDay /\ day \in 0..LastDay /\ LastDay \in Nat
  BY NoticesAssumption DEF TypeOK, Days
<1>2. DefaultState \in State /\ NoContracts \in Contracts
  BY <1>1 DEF DefaultState, NoContracts, State, Contracts
<1>3. LoadedStore \in [at : {"loaded"}, data : Contracts, raw : Contracts]
  BY <1>2 DEF LoadedStore, TypeOK, Contracts
<1>4. [IdleRun EXCEPT !.today = run.today] \in
        [at : {"idle"}, today : 0..LastDay, held : State, stale : BOOLEAN]
  BY <1>2 DEF IdleRun, TypeOK
<1>5. Stale(run) \in [at : {run.at}, today : {run.today}, held : {run.held}, stale : BOOLEAN]
  BY DEF Stale, TypeOK
<1>6. Stale(put) \in [at : {put.at}, held : {put.held}, stale : BOOLEAN]
  BY DEF Stale, TypeOK
<1> QED
  BY <1>1, <1>2, <1>3, <1>4, <1>5, <1>6

\* The digest and the save keep the kinds.
LEMMA FinishTyped ==
  ASSUME TypeOK, Finish(run.held), UNCHANGED <<day, contractFile, store, edit, wish, told, fired>>,
         edit = "loading" => store.at = "loading"
  PROVE  TypeOK'
<1>1. /\ file' = [run.held EXCEPT !.week = Week(run.today)] /\ lost' = (lost \/ run.stale)
      /\ run' = [IdleRun EXCEPT !.today = run.today] /\ put' = Stale(put)
  BY DEF Finish, SaveState
<1>2. file' \in State
  BY <1>1, Weeks DEF TypeOK, State
<1>3. digests' \in [Days -> 0..2]
  <2> DEFINE week == Week(run.today)
  <2>1. digests' = digests \/ digests' = [digests EXCEPT ![week] = IF @ = 0 THEN 1 ELSE 2]
    BY DEF Finish
  <2> HIDE DEF week
  <2> QED
    BY <2>1 DEF TypeOK
<1>4. /\ run' \in [at : {"idle"}, today : 0..LastDay, held : State, stale : BOOLEAN]
      /\ put' \in [at : {put.at}, held : {put.held}, stale : BOOLEAN] /\ lost' \in BOOLEAN
  BY <1>1, Kinds DEF TypeOK
<1> QED
  BY <1>2, <1>3, <1>4 DEF TypeOK

LEMMA StepTyped == TypeOK /\ Created /\ ToldBefore /\ [Next]_vars => TypeOK'
<1> SUFFICES ASSUME TypeOK, Created, ToldBefore, [Next]_vars PROVE TypeOK'
  OBVIOUS
<1> USE Kinds
<1>1. CASE BeginPut
  BY <1>1 DEF BeginPut, TypeOK
<1>2. ASSUME NEW value \in BOOLEAN, FinishPut(value) PROVE TypeOK'
  <2>1. /\ file' = [put.held EXCEPT !.enabled = value] /\ lost' = (lost \/ put.stale)
        /\ wish' = [wish EXCEPT !.enabled = value]
        /\ put' = IdlePut /\ run' = Stale(run)
        /\ UNCHANGED <<day, contractFile, store, edit, told, digests, fired>>
    BY <1>2 DEF FinishPut, SaveState, Applied
  <2>2. file' \in State /\ wish' \in [enabled : BOOLEAN, terms : SUBSET Series] /\ lost' \in BOOLEAN
    BY <2>1 DEF TypeOK, State
  <2>3. put' \in [at : {"idle"}, held : State, stale : BOOLEAN]
    BY <2>1 DEF IdlePut
  <2> QED
    BY <2>1, <2>2, <2>3 DEF TypeOK
<1>3. CASE StartRun
  BY <1>3 DEF StartRun, TypeOK
<1>4. CASE Disabled
  BY <1>4 DEF Disabled, TypeOK
<1>5. CASE Deliver
  <2> DEFINE known == Remembered(run.held.notified)
             new == {f \in Found : known[f] = 0}
  <2>1. /\ told' = [f \in Findings |->
                      IF f \in new THEN [n |-> IF told[f].n = 0 THEN 1 ELSE 2,
                                         gap |-> IF told[f].n = 0 THEN 0 ELSE day - told[f].last,
                                         last |-> day]
                      ELSE told[f]]
        /\ run' = [run EXCEPT !.held.notified =
                                [f \in Findings |-> IF f \in new THEN day ELSE known[f]],
                              !.today = day,
                              !.at = IF store.at = "none" THEN "loading" ELSE "store"]
    BY <1>5 DEF Deliver
  <2>2. UNCHANGED <<day, file, contractFile, put, edit, wish, digests, fired, lost>>
    BY <1>5 DEF Deliver
  <2>3. known \in [Findings -> 0..LastDay]
    BY DEF Remembered, TypeOK, State
  <2> HIDE DEF known, new
  <2>4. run' \in [at : {IF store.at = "none" THEN "loading" ELSE "store"}, today : 0..LastDay,
                  held : State, stale : BOOLEAN]
    BY <2>1, <2>3 DEF TypeOK, State
  <2>5. told' \in [Findings -> [n : 0..2, gap : 0..LastDay, last : 0..LastDay]]
    <3> SUFFICES ASSUME NEW f \in Findings
                 PROVE  told'[f] \in [n : 0..2, gap : 0..LastDay, last : 0..LastDay]
      BY <2>1
    <3>1. told[f] \in [n : 0..2, gap : 0..LastDay, last : 0..LastDay] /\ told[f].last <= day
      BY DEF TypeOK, ToldBefore
    <3>2. f \in new => told'[f] = [n |-> IF told[f].n = 0 THEN 1 ELSE 2,
                                   gap |-> IF told[f].n = 0 THEN 0 ELSE day - told[f].last,
                                   last |-> day]
      BY <2>1
    <3>3. f \notin new => told'[f] = told[f]
      BY <2>1
    <3> QED
      BY <3>1, <3>2, <3>3
  <2>6. CASE store.at = "none"
    <3>1. store' \in [at : {"loading"}, data : Contracts, raw : Contracts]
      BY <1>5, <2>6 DEF Deliver, CreateStore, TypeOK
    <3> QED
      BY <2>2, <2>4, <2>5, <2>6, <3>1 DEF TypeOK
  <2>7. CASE store.at # "none"
    <3>1. store' = store
      BY <1>5, <2>7 DEF Deliver
    <3> QED
      BY <2>2, <2>4, <2>5, <2>7, <3>1 DEF TypeOK
  <2> QED
    BY <2>6, <2>7
<1>6. CASE StoreLoads
  <2>1. run' \in [at : {"store"}, today : 0..LastDay, held : State, stale : BOOLEAN]
    BY <1>6 DEF StoreLoads, TypeOK
  <2> QED
    BY <1>6, <2>1 DEF StoreLoads, TypeOK, Created
<1>7. CASE NothingDue \/ Digest
  BY <1>7, FinishTyped DEF NothingDue, Digest, TypeOK
<1>8. CASE FireNotices
  <2> DEFINE new == Due \ store.data.notified
             data == [store.data EXCEPT !.notified = Kept(@ \cup new)]
  <2>1. /\ run.at = "store"
        /\ fired' = [m \in Markers |-> IF m \in new THEN (IF fired[m] = 0 THEN 1 ELSE 2) ELSE fired[m]]
        /\ store' = [store EXCEPT !.data = data] /\ contractFile' = data
        /\ lost' = (lost \/ store.at = "loading")
        /\ run' = [run EXCEPT !.at = "digest"]
        /\ UNCHANGED <<day, file, put, edit, wish, told, digests>>
    BY <1>8 DEF FireNotices
  <2>2. new \subseteq Markers
    BY DueIsAhead DEF TypeOK
  <2>3. data \in Contracts
    BY <2>2 DEF TypeOK, Contracts, Kept
  <2>4. fired' \in [Markers -> 0..2]
    BY <2>1 DEF TypeOK
  <2> HIDE DEF data, new
  <2>5. run' \in [at : {"digest"}, today : 0..LastDay, held : State, stale : BOOLEAN]
    BY <2>1 DEF TypeOK
  <2>6. store' \in [at : {store.at}, data : Contracts, raw : Contracts] /\ store.at # "none"
    BY <2>1, <2>3 DEF TypeOK, Created
  <2> QED
    BY <2>1, <2>3, <2>4, <2>5, <2>6 DEF TypeOK
<1>9. CASE RunFails
  BY <1>9 DEF RunFails, TypeOK
<1>10. CASE BeginEdit
  BY <1>10 DEF BeginEdit, CreateStore, TypeOK
<1>11. CASE EditLoads
  BY <1>11 DEF EditLoads, TypeOK, Created
<1>12. ASSUME NEW s \in Series, Edit(s) PROVE TypeOK'
  <2> DEFINE data == [store.data EXCEPT !.terms = @ \cup {s}]
  <2>1. /\ edit = "store" /\ edit' = "idle"
        /\ store' = [store EXCEPT !.data = data] /\ contractFile' = data
        /\ wish' = [wish EXCEPT !.terms = @ \cup {s}]
        /\ lost' = (lost \/ store.at = "loading")
        /\ UNCHANGED <<day, file, run, put, told, digests, fired>>
    BY <1>12 DEF Edit
  <2>2. data \in Contracts /\ wish' \in [enabled : BOOLEAN, terms : SUBSET Series]
    BY <2>1 DEF TypeOK, Contracts
  <2> HIDE DEF data
  <2>3. store' \in [at : {store.at}, data : Contracts, raw : Contracts] /\ store.at # "none"
    BY <2>1, <2>2 DEF TypeOK, Created
  <2> QED
    BY <2>1, <2>2, <2>3 DEF TypeOK
<1>13. CASE Tick
  BY <1>13 DEF Tick, TypeOK, Days
<1>14. CASE Restart
  BY <1>14 DEF Restart, TypeOK, NoStore, IdlePut
<1>15. CASE UNCHANGED vars
  BY <1>15 DEF vars, TypeOK
<1> QED
  BY <1>1, <1>2, <1>3, <1>4, <1>5, <1>6, <1>7, <1>8, <1>9, <1>10, <1>11, <1>12, <1>13, <1>14, <1>15
  DEF Next
-----------------------------------------------------------------------------
(* Nothing is said twice.  Unless a save was lost: what was told is in the   *)
(* memory in force, the run's or the file's, until it runs out               *)
(* (FindingsKept); what was announced is in the store's file until it is     *)
(* past (DeadlinesKept); the digests of later weeks are still to come        *)
(* (DigestsKept).  This needs that a run or a request that is not stale has  *)
(* what the file has (PutFresh, RunFresh).                                   *)

Clock == run.today <= day

PutFresh ==
  put.at = "loaded" /\ ~put.stale =>
    put.held.notified = file.notified /\ put.held.week = file.week

RunFresh ==
  ~lost /\ run.at # "idle" =>
    /\ run.held.week = file.week
    /\ run.at = "loaded" => run.held.notified = file.notified

Memory == IF run.at \in {"idle", "loaded"} THEN file.notified ELSE run.held.notified

FindingKept(f) ==
  /\ told[f].n > 0 => /\ From[f] <= told[f].last
                      /\ Memory[f] = told[f].last \/ told[f].last < day - Retention
  /\ told[f].n = 2 => f \in Standing /\ told[f].gap > Retention

FindingsKept == ~lost => \A f \in Findings : FindingKept(f)

StoreKept ==
  ~lost => /\ store.at = "loaded" => store.data.notified = contractFile.notified
           /\ store.at = "loading" => store.raw.notified = contractFile.notified

DeadlinesKept ==
  ~lost => \A m \in Markers :
             /\ fired[m] <= 1
             /\ fired[m] > 0 => m \in contractFile.notified \/ m[2] < day

DigestsKept ==
  ~lost => /\ file.week <= Week(run.today)
           /\ \A w \in Days : digests[w] <= 1 /\ (digests[w] > 0 => w <= file.week)

SInv == /\ IInv /\ TypeOK /\ ToldBefore /\ Clock /\ PutFresh /\ RunFresh
        /\ FindingsKept /\ StoreKept /\ DeadlinesKept /\ DigestsKept

LEMMA InitSaid == Init => SInv
<1> SUFFICES ASSUME Init PROVE SInv
  OBVIOUS
<1>1. TypeOK /\ IInv
  BY InitTyped, InitKept
<1>2. /\ \A f \in Findings : told[f] = [n |-> 0, gap |-> 0, last |-> 0]
      /\ \A w \in Days : digests[w] = 0
      /\ \A m \in Markers : fired[m] = 0
  BY DEF Init
<1>3. file.week = 0 /\ run.today = 0 /\ day = 1 /\ run.at = "idle" /\ put.at = "idle" /\ store.at = "none"
  BY DEF Init, DefaultState, IdleRun, IdlePut, NoStore
<1>4. 0 <= Week(0)
  BY Weeks, NoticesAssumption
<1>5. FindingsKept
  BY <1>2 DEF FindingsKept, FindingKept
<1>6. DeadlinesKept /\ DigestsKept /\ ToldBefore
  BY <1>2, <1>3, <1>4 DEF DeadlinesKept, DigestsKept, ToldBefore
<1>7. Clock /\ PutFresh /\ RunFresh /\ StoreKept
  BY <1>3 DEF Clock, PutFresh, RunFresh, StoreKept
<1> QED
  BY <1>1, <1>5, <1>6, <1>7 DEF SInv

\* The state of a day: what the arithmetic needs.
LEMMA Numbers ==
  ASSUME TypeOK
  PROVE  /\ day \in Nat /\ Retention \in Nat /\ run.today \in 0..LastDay /\ LastDay \in Nat
         /\ day \in 0..LastDay
         /\ \A f \in Findings : /\ told[f].n \in 0..2 /\ told[f].gap \in Nat /\ told[f].last \in Nat
                                /\ From[f] \in Nat /\ Until[f] \in Nat
         /\ \A m \in Markers : m[2] \in Nat /\ fired[m] \in 0..2
         /\ \A w \in Days : digests[w] \in 0..2 /\ w \in Nat
         /\ file.week \in Nat /\ run.held.week \in Nat /\ Week(run.today) \in Nat
<1>1. day \in Nat /\ Retention \in Nat /\ LastDay \in Nat /\ day \in 0..LastDay
  BY NoticesAssumption DEF TypeOK, Days
<1>2. \A f \in Findings : told[f].n \in 0..2 /\ told[f].gap \in Nat /\ told[f].last \in Nat
  BY DEF TypeOK
<1>3. \A f \in Findings : From[f] \in Nat /\ Until[f] \in Nat
  BY NoticesAssumption
<1>4. \A m \in Markers : m[2] \in Nat /\ fired[m] \in 0..2
  BY DEF TypeOK, Markers
<1>5. \A w \in Days : digests[w] \in 0..2 /\ w \in Nat
  BY DEF TypeOK, Days
<1>6. run.today \in 0..LastDay /\ Week(run.today) \in Nat
  BY Weeks DEF TypeOK
<1>7. file.week \in Nat /\ run.held.week \in Nat
  BY DEF TypeOK, State
<1> QED
  BY <1>1, <1>2, <1>3, <1>4, <1>5, <1>6, <1>7

\* A finding that is told again stands, and its memory has run out.
LEMMA DeliverSaid == ASSUME SInv, Deliver PROVE SInv'
<1> USE DEF SInv
<1> DEFINE known == Remembered(run.held.notified)
           new == {f \in Found : known[f] = 0}
<1>1. /\ run.at = "loaded"
      /\ told' = [f \in Findings |->
                    IF f \in new THEN [n |-> IF told[f].n = 0 THEN 1 ELSE 2,
                                       gap |-> IF told[f].n = 0 THEN 0 ELSE day - told[f].last,
                                       last |-> day]
                    ELSE told[f]]
      /\ run' = [run EXCEPT !.held.notified =
                              [f \in Findings |-> IF f \in new THEN day ELSE known[f]],
                            !.today = day,
                            !.at = IF store.at = "none" THEN "loading" ELSE "store"]
      /\ UNCHANGED <<day, file, contractFile, put, edit, wish, digests, fired, lost>>
  BY DEF Deliver
<1>2. \A f \in Findings : known[f] = IF run.held.notified[f] >= day - Retention
                                     THEN run.held.notified[f] ELSE 0
  BY DEF Remembered
<1>3. \A f \in new : f \in Findings /\ From[f] <= day /\ day <= Until[f] /\ known[f] = 0
  BY DEF Found
<1>4. /\ run'.at = IF store.at = "none" THEN "loading" ELSE "store"
      /\ run'.today = day /\ run'.held.week = run.held.week
      /\ run'.held.notified = [f \in Findings |-> IF f \in new THEN day ELSE known[f]]
  BY <1>1 DEF TypeOK, State
<1> HIDE DEF known, new
<1>5. IInv' /\ TypeOK'
  BY StepKept, StepTyped DEF Next, IInv
<1>6. ASSUME NEW f \in Findings PROVE told'[f].last <= day /\ (~lost => FindingKept(f)')
  <2>1. /\ told[f].n \in 0..2 /\ told[f].last \in Nat /\ told[f].last <= day /\ day \in Nat
        /\ Retention \in Nat /\ From[f] \in Nat /\ Until[f] \in Nat /\ told[f].gap \in Nat
    BY Numbers DEF ToldBefore
  <2>2. Memory' = run'.held.notified
    BY <1>4 DEF Memory
  <2>3. ~lost => Memory = run.held.notified /\ FindingKept(f)
    BY <1>1 DEF Memory, FindingsKept, RunFresh
  <2>4. CASE f \in new
    <3>1. told'[f] = [n |-> IF told[f].n = 0 THEN 1 ELSE 2,
                      gap |-> IF told[f].n = 0 THEN 0 ELSE day - told[f].last,
                      last |-> day]
      BY <1>1, <2>4
    <3>2. Memory'[f] = day
      BY <1>4, <2>2, <2>4
    <3>3. ASSUME ~lost, told[f].n # 0 PROVE f \in Standing /\ day - told[f].last > Retention
      <4>1. told[f].last < day - Retention
        BY <1>2, <1>3, <2>1, <2>3, <2>4, <3>3, NoticesAssumption DEF FindingKept
      <4>2. Until[f] - From[f] > Retention
        BY <1>3, <2>1, <2>3, <2>4, <3>3, <4>1 DEF FindingKept
      <4> QED
        BY <2>1, <4>1, <4>2, NoticesAssumption
    <3> QED
      BY <1>1, <1>3, <2>1, <2>4, <3>1, <3>2, <3>3 DEF FindingKept
  <2>5. CASE f \notin new
    <3>1. told'[f] = told[f]
      BY <1>1, <2>5
    <3>2. Memory'[f] = known[f]
      BY <1>4, <2>2, <2>5
    <3> QED
      BY <1>1, <1>2, <2>1, <2>3, <3>1, <3>2 DEF FindingKept
  <2> QED
    BY <2>4, <2>5
<1>7. ToldBefore' /\ FindingsKept'
  BY <1>1, <1>6 DEF ToldBefore, FindingsKept
<1>8. Clock' /\ PutFresh' /\ RunFresh' /\ DeadlinesKept'
  BY <1>1, <1>4, Numbers DEF Clock, PutFresh, RunFresh, DeadlinesKept
<1>9. DigestsKept'
  <2>1. Week(run.today) <= Week(day)
    BY Weeks, Numbers DEF Clock
  <2>2. Week(day) \in Nat
    BY Weeks, Numbers
  <2> QED
    BY <1>1, <1>4, <2>1, <2>2, Numbers DEF DigestsKept
<1>10. StoreKept'
  <2>1. store' = store \/ store' = [at |-> "loading", data |-> NoContracts, raw |-> contractFile]
    BY DEF Deliver, CreateStore
  <2> QED
    BY <1>1, <2>1 DEF StoreKept
<1> QED
  BY <1>5, <1>7, <1>8, <1>9, <1>10

\* The digest of a week is not there yet when the file's week is an earlier one.
LEMMA FinishSaid ==
  ASSUME SInv, Finish(run.held), run.at \in {"store", "digest"},
         UNCHANGED <<day, contractFile, store, edit, wish, told, fired>>, IInv', TypeOK'
  PROVE  SInv'
<1> USE DEF SInv
<1>1. /\ file' = [run.held EXCEPT !.week = Week(run.today)] /\ lost' = (lost \/ run.stale)
      /\ run' = [IdleRun EXCEPT !.today = run.today] /\ put' = Stale(put)
  BY DEF Finish, SaveState
<1>2. file'.week = Week(run.today) /\ file'.notified = run.held.notified
  BY <1>1 DEF TypeOK, State
<1>3. run'.at = "idle" /\ run'.today = run.today
  BY <1>1, Kinds
<1>4. Clock' /\ RunFresh' /\ ToldBefore' /\ StoreKept' /\ DeadlinesKept'
  BY <1>1, <1>3 DEF Clock, RunFresh, ToldBefore, StoreKept, DeadlinesKept
<1>5. PutFresh'
  <2>1. put'.at = put.at /\ (put.at # "idle" => put'.stale)
    BY <1>1 DEF Stale, TypeOK
  <2> QED
    BY <2>1 DEF PutFresh
<1>6. FindingsKept'
  <2>1. ~lost' => ~lost /\ Memory = Memory'
    BY <1>1, <1>2, <1>3 DEF Memory
  <2> QED
    BY <2>1 DEF FindingsKept, FindingKept
<1>7. DigestsKept'
  <2> SUFFICES ASSUME ~lost' PROVE DigestsKept'
    BY DEF DigestsKept
  <2>1. ~lost /\ file.week <= Week(run.today) /\ run.held.week = file.week
    BY <1>1 DEF DigestsKept, RunFresh
  <2>2. CASE run.held.week = Week(run.today)
    <3>1. digests' = digests
      BY <2>2 DEF Finish
    <3> QED
      BY <1>2, <1>3, <2>1, <2>2, <3>1, Numbers DEF DigestsKept
  <2>3. CASE run.held.week # Week(run.today)
    <3>1. digests' = [digests EXCEPT ![Week(run.today)] = IF @ = 0 THEN 1 ELSE 2]
      BY <2>3 DEF Finish
    <3>2. ASSUME NEW w \in Days PROVE digests'[w] <= 1 /\ (digests'[w] > 0 => w <= Week(run.today))
      <4>1. /\ digests[w] \in 0..2 /\ digests[w] <= 1 /\ (digests[w] > 0 => w <= file.week)
            /\ w \in Nat /\ file.week \in Nat /\ Week(run.today) \in Nat
        BY <2>1, Numbers DEF DigestsKept
      <4>2. CASE w = Week(run.today)
        <5>1. digests[w] = 0
          BY <2>1, <2>3, <4>1, <4>2
        <5>2. digests'[w] = 1
          BY <3>1, <4>2, <5>1 DEF TypeOK
        <5> QED
          BY <4>1, <4>2, <5>2
      <4>3. CASE w # Week(run.today)
        <5>1. digests'[w] = digests[w]
          BY <3>1, <4>3 DEF TypeOK
        <5> QED
          BY <2>1, <4>1, <5>1
      <4> QED
        BY <4>2, <4>3
    <3> QED
      BY <1>2, <1>3, <3>2, Numbers DEF DigestsKept
  <2> QED
    BY <2>2, <2>3
<1> QED
  BY <1>4, <1>5, <1>6, <1>7

\* A deadline that is announced is in the store from then on, and was not before.
LEMMA FireSaid == ASSUME SInv, FireNotices, IInv', TypeOK' PROVE SInv'
<1> USE DEF SInv
<1> DEFINE new == Due \ store.data.notified
           data == [store.data EXCEPT !.notified = Kept(@ \cup new)]
<1>1. /\ run.at = "store"
      /\ fired' = [m \in Markers |-> IF m \in new THEN (IF fired[m] = 0 THEN 1 ELSE 2) ELSE fired[m]]
      /\ store' = [store EXCEPT !.data = data] /\ contractFile' = data
      /\ lost' = (lost \/ store.at = "loading")
      /\ run' = [run EXCEPT !.at = "digest"]
      /\ UNCHANGED <<day, file, put, edit, wish, told, digests>>
  BY DEF FireNotices
<1>2. \A m \in new : m[2] >= day /\ m \notin store.data.notified
  BY DueIsAhead DEF TypeOK
<1>3. data.notified = {m \in store.data.notified \cup new : m[2] >= day}
  BY DEF TypeOK, Contracts, Kept
<1>4. run'.at = "digest" /\ run'.held = run.held /\ run'.today = run.today /\ run'.stale = run.stale
  BY <1>1 DEF TypeOK
<1> HIDE DEF data, new
<1>5. store'.data = data /\ store'.at = store.at /\ store'.raw = store.raw
  BY <1>1 DEF TypeOK
<1>6. store.at # "none"
  BY <1>1 DEF IInv, Created
<1>7. ~lost' => ~lost /\ store.at = "loaded" /\ store.data.notified = contractFile.notified
  BY <1>1, <1>6 DEF StoreKept, TypeOK
<1>8. Clock' /\ PutFresh' /\ RunFresh' /\ ToldBefore' /\ DigestsKept'
  BY <1>1, <1>4, <1>7 DEF Clock, PutFresh, RunFresh, ToldBefore, DigestsKept
<1>9. FindingsKept'
  <2>1. Memory' = Memory
    BY <1>1, <1>4 DEF Memory
  <2> QED
    BY <1>1, <1>7, <2>1 DEF FindingsKept, FindingKept
<1>10. StoreKept'
  BY <1>1, <1>5, <1>7 DEF StoreKept
<1>11. ASSUME ~lost', NEW m \in Markers
       PROVE  fired'[m] <= 1 /\ (fired'[m] > 0 => m \in contractFile'.notified \/ m[2] < day)
  <2>1. /\ fired[m] \in 0..2 /\ fired[m] <= 1 /\ m[2] \in Nat /\ day \in Nat
        /\ fired[m] > 0 => m \in store.data.notified \/ m[2] < day
    BY <1>7, <1>11, Numbers DEF DeadlinesKept
  <2>2. CASE m \in new
    <3>1. fired[m] = 0
      BY <1>2, <2>1, <2>2
    <3> QED
      BY <1>1, <1>2, <1>3, <2>2, <3>1
  <2>3. CASE m \notin new
    BY <1>1, <1>3, <2>1, <2>3
  <2> QED
    BY <2>2, <2>3
<1>12. DeadlinesKept'
  BY <1>1, <1>11 DEF DeadlinesKept
<1> QED
  BY <1>8, <1>9, <1>10, <1>12
LEMMA StepSaid == SInv /\ [Next]_vars => SInv'
<1> SUFFICES ASSUME SInv, [Next]_vars PROVE SInv'
  OBVIOUS
<1> USE DEF SInv
<1>0. IInv' /\ TypeOK'
  BY StepKept, StepTyped DEF IInv
<1>1. CASE BeginPut
  <2>1. /\ put' = [at |-> "loaded", held |-> file, stale |-> FALSE]
        /\ UNCHANGED <<day, file, contractFile, store, run, told, digests, fired, lost>>
    BY <1>1 DEF BeginPut
  <2> QED
    BY <1>0, <2>1 DEF ToldBefore, Clock, PutFresh, RunFresh, FindingsKept, FindingKept, Memory,
       StoreKept, DeadlinesKept, DigestsKept
<1>2. ASSUME NEW value \in BOOLEAN, FinishPut(value) PROVE SInv'
  <2>1. /\ file' = [put.held EXCEPT !.enabled = value] /\ lost' = (lost \/ put.stale)
        /\ put' = IdlePut /\ run' = Stale(run) /\ put.at = "loaded"
        /\ UNCHANGED <<day, contractFile, store, told, digests, fired>>
    BY <1>2 DEF FinishPut, SaveState, Applied
  <2>2. file'.notified = put.held.notified /\ file'.week = put.held.week
    BY <2>1 DEF TypeOK, State
  <2>3. run'.at = run.at /\ run'.held = run.held /\ run'.today = run.today
    BY <2>1, Kinds DEF Stale, TypeOK
  <2>4. ~lost' => ~lost /\ file'.notified = file.notified /\ file'.week = file.week
    BY <2>1, <2>2 DEF PutFresh
  <2>5. ToldBefore' /\ Clock' /\ PutFresh' /\ StoreKept' /\ DeadlinesKept' /\ DigestsKept'
    BY <2>1, <2>3, <2>4 DEF ToldBefore, Clock, PutFresh, StoreKept, DeadlinesKept, DigestsKept, IdlePut
  <2>6. RunFresh'
    BY <2>3, <2>4 DEF RunFresh
  <2>7. ~lost' => Memory' = Memory
    BY <2>3, <2>4 DEF Memory
  <2>8. FindingsKept'
    BY <2>1, <2>4, <2>7 DEF FindingsKept, FindingKept
  <2> QED
    BY <1>0, <2>5, <2>6, <2>8
<1>3. CASE StartRun
  <2>1. /\ run' = [at |-> "loaded", today |-> day, held |-> file, stale |-> FALSE]
        /\ run.at = "idle"
        /\ UNCHANGED <<day, file, contractFile, store, put, told, digests, fired, lost>>
    BY <1>3 DEF StartRun
  <2>2. Memory' = Memory /\ RunFresh' /\ Clock'
    BY <2>1, Numbers DEF Memory, RunFresh, Clock
  <2>3. Week(run.today) <= Week(day) /\ Week(day) \in Nat
    BY Weeks, Numbers DEF Clock
  <2>4. DigestsKept'
    BY <2>1, <2>3, Numbers DEF DigestsKept
  <2> QED
    BY <1>0, <2>1, <2>2, <2>4 DEF ToldBefore, PutFresh, FindingsKept, FindingKept,
       StoreKept, DeadlinesKept
<1>4. CASE Disabled \/ RunFails
  <2>1. /\ run' = [IdleRun EXCEPT !.today = run.today]
        /\ UNCHANGED <<day, file, contractFile, store, put, told, digests, fired>>
        /\ ~lost' => ~lost /\ run.at = "loaded"
        /\ lost => lost'
    BY <1>4 DEF Disabled, RunFails
  <2>2. run'.at = "idle" /\ run'.today = run.today
    BY <2>1, Kinds
  <2>3. ~lost' => Memory' = Memory
    BY <2>1, <2>2 DEF Memory
  <2>4. FindingsKept'
    BY <2>1, <2>3 DEF FindingsKept, FindingKept
  <2> QED
    BY <1>0, <2>1, <2>2, <2>4 DEF ToldBefore, Clock, PutFresh, RunFresh, StoreKept,
       DeadlinesKept, DigestsKept
<1>5. CASE Deliver
  BY <1>5, DeliverSaid
<1>6. CASE StoreLoads
  <2>1. /\ run.at = "loading" /\ run' = [run EXCEPT !.at = "store"] /\ store' = LoadedStore
        /\ UNCHANGED <<day, file, contractFile, put, told, digests, fired, lost>>
    BY <1>6 DEF StoreLoads
  <2>2. run'.at = "store" /\ run'.held = run.held /\ run'.today = run.today
    BY <2>1 DEF TypeOK
  <2>3. Memory' = Memory
    BY <2>1, <2>2 DEF Memory
  <2>4. store'.at = "loaded" /\ store'.data.notified = store.raw.notified /\ store.at = "loading"
    BY <2>1 DEF LoadedStore, IInv, Created
  <2> QED
    BY <1>0, <2>1, <2>2, <2>3, <2>4 DEF ToldBefore, Clock, PutFresh, RunFresh, FindingsKept,
       FindingKept, StoreKept, DeadlinesKept, DigestsKept
<1>7. CASE NothingDue \/ Digest
  BY <1>0, <1>7, FinishSaid DEF NothingDue, Digest
<1>8. CASE FireNotices
  BY <1>0, <1>8, FireSaid
<1>9. CASE BeginEdit
  <2>1. UNCHANGED <<day, file, contractFile, run, put, told, digests, fired, lost>>
    BY <1>9 DEF BeginEdit
  <2>2. store' = store \/ store' = [at |-> "loading", data |-> NoContracts, raw |-> contractFile]
    BY <1>9 DEF BeginEdit, CreateStore
  <2>3. StoreKept'
    BY <2>1, <2>2 DEF StoreKept
  <2> QED
    BY <1>0, <2>1, <2>3 DEF ToldBefore, Clock, PutFresh, RunFresh, FindingsKept,
       FindingKept, Memory, DeadlinesKept, DigestsKept
<1>10. CASE EditLoads
  <2>1. /\ store' = LoadedStore /\ edit = "loading"
        /\ UNCHANGED <<day, file, contractFile, run, put, told, digests, fired, lost>>
    BY <1>10 DEF EditLoads
  <2>2. store'.at = "loaded" /\ store'.data.notified = store.raw.notified /\ store.at = "loading"
    BY <2>1 DEF LoadedStore, IInv, Created
  <2> QED
    BY <1>0, <2>1, <2>2 DEF ToldBefore, Clock, PutFresh, RunFresh, FindingsKept,
       FindingKept, Memory, StoreKept, DeadlinesKept, DigestsKept
<1>11. ASSUME NEW s \in Series, Edit(s) PROVE SInv'
  <2> DEFINE data == [store.data EXCEPT !.terms = @ \cup {s}]
  <2>1. /\ edit = "store" /\ store' = [store EXCEPT !.data = data] /\ contractFile' = data
        /\ lost' = (lost \/ store.at = "loading")
        /\ UNCHANGED <<day, file, run, put, told, digests, fired>>
    BY <1>11 DEF Edit
  <2>2. data.notified = store.data.notified
    BY DEF TypeOK, Contracts
  <2> HIDE DEF data
  <2>3. store'.at = store.at /\ store'.data = data
    BY <2>1 DEF TypeOK
  <2>4. ~lost' => ~lost /\ store.at = "loaded" /\ contractFile'.notified = contractFile.notified
    BY <2>1, <2>2 DEF IInv, Created, StoreKept
  <2>5. StoreKept' /\ DeadlinesKept'
    BY <2>1, <2>3, <2>4 DEF StoreKept, DeadlinesKept
  <2> QED
    BY <1>0, <2>1, <2>4, <2>5 DEF ToldBefore, Clock, PutFresh, RunFresh, FindingsKept,
       FindingKept, Memory, DigestsKept
<1>12. CASE Tick
  <2>1. /\ day' = day + 1
        /\ UNCHANGED <<file, contractFile, store, run, put, told, digests, fired, lost>>
    BY <1>12 DEF Tick
  <2>2. ToldBefore' /\ Clock'
    BY <2>1, Numbers DEF ToldBefore, Clock
  <2>3. PutFresh' /\ RunFresh' /\ StoreKept' /\ DigestsKept' /\ Memory' = Memory
    BY <2>1 DEF PutFresh, RunFresh, StoreKept, DigestsKept, Memory
  <2>4. FindingsKept'
    BY <2>1, <2>3, Numbers DEF FindingsKept, FindingKept
  <2>5. DeadlinesKept'
    BY <2>1, Numbers DEF DeadlinesKept
  <2> QED
    BY <1>0, <2>2, <2>3, <2>4, <2>5
<1>13. CASE Restart
  <2>1. /\ store' = NoStore /\ run' = [IdleRun EXCEPT !.today = run.today] /\ put' = IdlePut
        /\ lost' = (lost \/ run.at \notin {"idle", "loaded"})
        /\ UNCHANGED <<day, file, contractFile, told, digests, fired>>
    BY <1>13 DEF Restart
  <2>2. run'.at = "idle" /\ run'.today = run.today /\ put'.at = "idle" /\ store'.at = "none"
    BY <2>1, Kinds DEF IdlePut, NoStore
  <2>3. ~lost' => ~lost /\ Memory' = Memory
    BY <2>1, <2>2 DEF Memory
  <2>4. FindingsKept'
    BY <2>1, <2>3 DEF FindingsKept, FindingKept
  <2> QED
    BY <1>0, <2>1, <2>2, <2>3, <2>4 DEF ToldBefore, Clock, PutFresh, RunFresh, StoreKept,
       DeadlinesKept, DigestsKept
<1>14. CASE UNCHANGED vars
  <2>1. UNCHANGED <<day, file, contractFile, store, run, put, told, digests, fired, lost>>
    BY <1>14 DEF vars
  <2> QED
    BY <1>0, <2>1 DEF ToldBefore, Clock, PutFresh, RunFresh, FindingsKept, FindingKept, Memory,
       StoreKept, DeadlinesKept, DigestsKept
<1> QED
  BY <1>1, <1>2, <1>3, <1>4, <1>5, <1>6, <1>7, <1>8, <1>9, <1>10, <1>11, <1>12, <1>13, <1>14
  DEF Next

\* Unless a save was lost, a finding that does not stand is told once and a
\* standing one again only when its memory has run out, a deadline is announced
\* once and a digest goes out once a week, whatever runs, requests, edits and
\* restarts come between (notify.py, contracts.py async_fire_notice_due).
THEOREM NothingTwice == Spec => []SaidOnce
<1>1. SInv => SaidOnce
  BY DEF SInv, FindingsKept, FindingKept, DeadlinesKept, DigestsKept, SaidOnce
<1> QED
  BY InitSaid, StepSaid, <1>1, PTL DEF Spec

\* Every part of the state has its kind, the days it counts included.
THEOREM NoticesAreTyped == Spec => []TypeOK
<1>1. SInv => TypeOK
  BY DEF SInv
<1> QED
  BY InitSaid, StepSaid, <1>1, PTL DEF Spec
=============================================================================
