-------------------------------- MODULE Notices --------------------------------
(***************************************************************************)
(* What Finance says of its own accord, and the two files it remembers it  *)
(* in: the exceptions and the weekly digest of notify.py with the wizard's *)
(* state (setup_wizard.py), and the notice deadlines of contracts.py with  *)
(* the contract store.  The run after the daily refresh and the admin's    *)
(* requests (api/setup.py, api/contracts.py) load the wizard's state,      *)
(* change it and save it whole; the contract store is shared by all, from  *)
(* its first use on.                                                       *)
(*                                                                         *)
(* A finding is a thing notify.py would report, on the days it does; a     *)
(* series is a contract with its deadlines.  Of the wizard's state the     *)
(* field "enabled" stands for all that the user sets.  A step ends         *)
(* where the code awaits.  Home Assistant's Store is external: a save is   *)
(* what the next load returns.                                             *)
(***************************************************************************)
EXTENDS Integers, FiniteSets

CONSTANTS
  Findings, From, Until,   \* a finding is there from the one day until the other
  Standing,                \* those that may stay longer: an expired consent
  Series, FirstEnd,        \* the first deadline of a series
  Renewal,                 \* the days to the next
  NoticeWindow,            \* NOTICE_EVENT_WINDOW_DAYS
  Retention,               \* NOTIFIED_RETENTION_DAYS
  WeekDays, LastDay        \* the days of a week; bound: the days

ASSUME NoticesAssumption ==
  /\ From \in [Findings -> 1..LastDay] /\ Until \in [Findings -> Nat]
  /\ Standing \subseteq Findings
  /\ \A f \in Findings \ Standing : Until[f] - From[f] <= Retention
  /\ FirstEnd \in [Series -> Nat] /\ Renewal \in Nat \ {0}
  /\ NoticeWindow \in Nat /\ Retention \in Nat
  /\ WeekDays \in Nat \ {0} /\ LastDay \in Nat \ {0}

VARIABLES
  day,
  file,         \* the wizard's state as saved
  contractFile, \* the contract store as saved
  store,        \* the contract store in memory, with what its load has read
  run,          \* the run after the daily refresh
  put, edit,    \* a request on the wizard's state, one on a contract
  wish,         \* history: what the user last set
  told,         \* history: how often and when last a finding was told
  digests,      \* history: the digests of each week
  fired,        \* history: how often each deadline was announced
  lost          \* history: a save went over another, or never came

vars == <<day, file, contractFile, store, run, put, edit, wish, told, digests, fired, lost>>

Days == 1..LastDay
Week(d) == (d - 1) \div WeekDays + 1
Markers == Series \X (0..(LastDay + Renewal + NoticeWindow))

State == [enabled : BOOLEAN, notified : [Findings -> 0..LastDay],
          week : 0..LastDay]
Contracts == [terms : SUBSET Series, notified : SUBSET Markers]

DefaultState == [enabled |-> TRUE,
                 notified |-> [f \in Findings |-> 0], week |-> 0]
NoContracts == [terms |-> {}, notified |-> {}]
NoStore == [at |-> "none", data |-> NoContracts, raw |-> NoContracts]
IdleRun == [at |-> "idle", today |-> 0, held |-> DefaultState, stale |-> FALSE]
IdlePut == [at |-> "idle", held |-> DefaultState, stale |-> FALSE]

\* Bound: one run a day, as the daily refresh makes it.
Ran == run.today = day

-----------------------------------------------------------------------------
(* What is found on a day *)

Found == {f \in Findings : From[f] <= day /\ day <= Until[f]}

\* Slip for the mutation runs: what was told yesterday is forgotten today.
RememberedShort(notified) == [f \in Findings |-> IF notified[f] >= day THEN notified[f] ELSE 0]

Remembered(notified) ==
  [f \in Findings |-> IF notified[f] >= day - Retention THEN notified[f] ELSE 0]

\* next_notice_deadline: the first that is not past; the user's terms move it.
NextDeadline(s, terms) ==
  LET first == IF s \in terms THEN FirstEnd[s] + 1 ELSE FirstEnd[s]
      ahead == {n \in first..(first + LastDay + Renewal) :
                 (n - first) % Renewal = 0 /\ n >= day}
  IN CHOOSE n \in ahead : \A m \in ahead : n <= m

Due == {<<s, NextDeadline(s, store.data.terms)>> :
         s \in {x \in Series : NextDeadline(x, store.data.terms) - day <= NoticeWindow}}

-----------------------------------------------------------------------------
(* The wizard's state: whoever saves goes over whatever was saved since he  *)
(* loaded.                                                                  *)

Stale(r) == [r EXCEPT !.stale = @ \/ r.at # "idle"]

SaveState(state, stale) ==
  /\ file' = state
  /\ lost' = (lost \/ stale)

BeginPut ==
  /\ put.at = "idle"
  /\ put' = [at |-> "loaded", held |-> file, stale |-> FALSE]
  /\ UNCHANGED <<day, file, contractFile, store, run, edit, wish, told, digests, fired, lost>>

\* apply_update: the one field replaced, the rest as it was loaded.
Applied(held, value) == [held EXCEPT !.enabled = value]

\* FinanceDashboardSetupView.put and FinanceDashboardAiView.put.
FinishPut(value) ==
  /\ put.at = "loaded"
  /\ SaveState(Applied(put.held, value), put.stale)
  /\ wish' = [wish EXCEPT !.enabled = value]
  /\ put' = IdlePut
  /\ run' = Stale(run)
  /\ UNCHANGED <<day, contractFile, store, edit, told, digests, fired>>

-----------------------------------------------------------------------------
(* The contract store.  The first to ask for it creates it and waits for    *)
(* its load; whoever asks meanwhile gets it as it is.                       *)

CreateStore == store' = [at |-> "loading", data |-> NoContracts, raw |-> contractFile]

\* Slip for the mutation runs: the load takes the markers and forgets the terms.
LoadedMarkers ==
  [at |-> "loaded", raw |-> NoContracts,
   data |-> [terms |-> store.data.terms, notified |-> store.raw.notified]]

\* ContractStore.async_load: what was read goes over what came in meanwhile.
LoadedStore ==
  [at |-> "loaded", raw |-> NoContracts,
   data |-> [terms |-> store.raw.terms \cup store.data.terms, notified |-> store.raw.notified]]

Kept(markers) == {m \in markers : m[2] >= day}

-----------------------------------------------------------------------------
(* The run: notify._run *)

StartRun ==
  /\ run.at = "idle" /\ ~Ran
  /\ run' = [at |-> "loaded", today |-> day, held |-> file, stale |-> FALSE]
  /\ UNCHANGED <<day, file, contractFile, store, put, edit, wish, told, digests, fired, lost>>

Disabled ==
  /\ run.at = "loaded" /\ ~run.held.enabled
  /\ run' = [IdleRun EXCEPT !.today = run.today]
  /\ UNCHANGED <<day, file, contractFile, store, put, edit, wish, told, digests, fired, lost>>

\* Every finding that is not remembered is told, to the bus and as a notification.
Deliver ==
  /\ run.at = "loaded" /\ run.held.enabled
  /\ LET known == Remembered(run.held.notified)
         new == {f \in Found : known[f] = 0}
     IN /\ told' = [f \in Findings |->
                      IF f \in new THEN [n |-> IF told[f].n = 0 THEN 1 ELSE 2,
                                         gap |-> IF told[f].n = 0 THEN 0 ELSE day - told[f].last,
                                         last |-> day]
                      ELSE told[f]]
        /\ run' = [run EXCEPT !.held.notified =
                                [f \in Findings |-> IF f \in new THEN day ELSE known[f]],
                              !.today = day,
                              !.at = IF store.at = "none" THEN "loading" ELSE "store"]
  /\ IF store.at = "none" THEN CreateStore ELSE UNCHANGED store
  /\ UNCHANGED <<day, file, contractFile, put, edit, wish, digests, fired, lost>>

StoreLoads ==
  /\ run.at = "loading"
  /\ store' = LoadedStore
  /\ run' = [run EXCEPT !.at = "store"]
  /\ UNCHANGED <<day, file, contractFile, put, edit, wish, told, digests, fired, lost>>

\* The digest, once a week, and the save.
Finish(state) ==
  LET week == Week(run.today)
  IN /\ digests' = IF state.week = week THEN digests
                   ELSE [digests EXCEPT ![week] = IF @ = 0 THEN 1 ELSE 2]
     /\ SaveState([state EXCEPT !.week = week], run.stale)
     /\ run' = [IdleRun EXCEPT !.today = run.today]
     /\ put' = Stale(put)

\* async_fire_notice_due: without a new deadline nothing is awaited.
NothingDue ==
  /\ run.at = "store" /\ Due \subseteq store.data.notified
  /\ Finish(run.held)
  /\ UNCHANGED <<day, contractFile, store, edit, wish, told, fired>>

FireNotices ==
  /\ run.at = "store" /\ ~(Due \subseteq store.data.notified)
  /\ LET new == Due \ store.data.notified
         data == [store.data EXCEPT !.notified = Kept(@ \cup new)]
     IN /\ fired' = [m \in Markers |-> IF m \in new THEN (IF fired[m] = 0 THEN 1 ELSE 2)
                                       ELSE fired[m]]
        /\ store' = [store EXCEPT !.data = data]
        /\ contractFile' = data
  /\ lost' = (lost \/ store.at = "loading")
  /\ run' = [run EXCEPT !.at = "digest"]
  /\ UNCHANGED <<day, file, put, edit, wish, told, digests>>

Digest ==
  /\ run.at = "digest"
  /\ Finish(run.held)
  /\ UNCHANGED <<day, contractFile, store, edit, wish, told, fired>>

\* A contract that cannot be derived, a file that cannot be written: the run ends,
\* async_after_refresh goes on as if nothing was.
RunFails ==
  /\ run.at \in {"store", "digest"}
  /\ run' = [IdleRun EXCEPT !.today = run.today]
  /\ lost' = TRUE
  /\ UNCHANGED <<day, file, contractFile, store, put, edit, wish, told, digests, fired>>

-----------------------------------------------------------------------------
(* A contract is edited: FinanceDashboardContractView.put *)

BeginEdit ==
  /\ edit = "idle"
  /\ IF store.at = "none" THEN CreateStore /\ edit' = "loading"
     ELSE UNCHANGED store /\ edit' = "store"
  /\ UNCHANGED <<day, file, contractFile, run, put, wish, told, digests, fired, lost>>

EditLoads ==
  /\ edit = "loading"
  /\ store' = LoadedStore
  /\ edit' = "store"
  /\ UNCHANGED <<day, file, contractFile, run, put, wish, told, digests, fired, lost>>

Edit(s) ==
  /\ edit = "store"
  /\ LET data == [store.data EXCEPT !.terms = @ \cup {s}]
     IN store' = [store EXCEPT !.data = data] /\ contractFile' = data
  /\ edit' = "idle"
  /\ wish' = [wish EXCEPT !.terms = @ \cup {s}]
  /\ lost' = (lost \/ store.at = "loading")
  /\ UNCHANGED <<day, file, run, put, told, digests, fired>>

-----------------------------------------------------------------------------
Tick ==
  /\ day < LastDay
  /\ day' = day + 1
  /\ UNCHANGED <<file, contractFile, store, run, put, edit, wish, told, digests, fired, lost>>

\* A restart ends what is running and what is in memory.
Restart ==
  /\ store' = NoStore
  /\ run' = [IdleRun EXCEPT !.today = run.today]
  /\ put' = IdlePut /\ edit' = "idle"
  /\ lost' = (lost \/ run.at \notin {"idle", "loaded"})
  /\ UNCHANGED <<day, file, contractFile, wish, told, digests, fired>>

Init ==
  /\ day = 1
  /\ file = DefaultState /\ contractFile = NoContracts
  /\ store = NoStore /\ run = IdleRun /\ put = IdlePut /\ edit = "idle"
  /\ wish = [enabled |-> TRUE, terms |-> {}]
  /\ told = [f \in Findings |-> [n |-> 0, gap |-> 0, last |-> 0]]
  /\ digests = [w \in Days |-> 0]
  /\ fired = [m \in Markers |-> 0]
  /\ lost = FALSE

Next ==
  \/ BeginPut
  \/ \E value \in BOOLEAN : FinishPut(value)
  \/ StartRun \/ Disabled \/ Deliver \/ StoreLoads \/ NothingDue \/ FireNotices \/ Digest
  \/ RunFails
  \/ BeginEdit \/ EditLoads \/ \E s \in Series : Edit(s)
  \/ Tick \/ Restart

Spec == Init /\ [][Next]_vars

-----------------------------------------------------------------------------
(* Properties *)

\* Every part has its kind, a contract store that nobody asked for holds nothing
\* and a run that has not read the wizard's state holds none.
TypeOK ==
  /\ day \in Days
  /\ file \in State /\ contractFile \in Contracts
  /\ store \in [at : {"none", "loading", "loaded"}, data : Contracts, raw : Contracts]
  /\ run \in [at : {"idle", "loaded", "loading", "store", "digest"}, today : 0..LastDay,
              held : State, stale : BOOLEAN]
  /\ put \in [at : {"idle", "loaded"}, held : State, stale : BOOLEAN]
  /\ edit \in {"idle", "loading", "store"}
  /\ wish \in [enabled : BOOLEAN, terms : SUBSET Series]
  /\ told \in [Findings -> [n : 0..2, gap : 0..LastDay, last : 0..LastDay]]
  /\ digests \in [Days -> 0..2]
  /\ fired \in [Markers -> 0..2]
  /\ lost \in BOOLEAN
  /\ store.at = "none" => store = NoStore
  /\ run.at = "loading" \/ edit = "loading" => store.at = "loading"

\* Unless a save was lost, nothing is said twice: a finding once (a standing one
\* again only when its memory has run out), a deadline once, a digest once a week.
\* notify._run, contracts.async_fire_notice_due.
SaidOnce ==
  lost \/ /\ \A f \in Findings : told[f].n = 2 => f \in Standing /\ told[f].gap > Retention
          /\ \A m \in Markers : fired[m] <= 1
          /\ \A w \in Days : digests[w] <= 1

\* Unless a save was lost, what the user set last is what is saved, whatever runs
\* and restarts came between: setup_wizard, contracts.ContractStore.
WishesKept ==
  lost \/ /\ file.enabled = wish.enabled
          /\ contractFile.terms = wish.terms
=============================================================================
