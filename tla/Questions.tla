------------------------------- MODULE Questions -------------------------------
(***************************************************************************)
(* Who places a merchant: the user's answers and the opt-in AI pass of     *)
(* manager/_questions.py, the merchant memory of merchants.py, the monthly *)
(* budget and the cache of ai_provider.py.                                 *)
(*                                                                         *)
(* A pass is a background task of one manager.  A reload does not stop it: *)
(* it goes on with the memory of the manager that was replaced.  All       *)
(* managers share the config file of the AI, which is loaded and saved     *)
(* whole; each has a memory of its own, saved whole to one file.           *)
(*                                                                         *)
(* Of a rule only its source is kept.  Home Assistant's Store is external: *)
(* a save is what the next load returns.                                   *)
(***************************************************************************)
EXTENDS Integers, FiniteSets, SequencesExt

CONSTANTS
  Managers, NoManager,
  Merchants, NoMerchant,
  Bookings,          \* booked expenses that no keyword places
  MerchantOf,
  HardCap,           \* HARD_CAP
  MaxCache,          \* MAX_CACHE
  MaxBookingRules    \* MAX_BOOKING_RULES

ASSUME QuestionsAssumption ==
  /\ NoManager \notin Managers /\ NoMerchant \notin Merchants
  /\ MerchantOf \in [Bookings -> Merchants] /\ IsFiniteSet(Bookings)
  /\ HardCap \in Nat /\ MaxCache \in Nat /\ MaxBookingRules \in Nat \ {0}

VARIABLES
  month, ledger,      \* the calendar month, the bookings in the ledger
  optIn,              \* the wizard's ai_opt_in
  cfg,                \* the AI config file
  live, mgr,          \* the manager in place, the fields of each
  memFile,            \* the memory file
  spent,              \* history: calls of this month
  overlapped          \* history: one of them fell into the asking of a pass

vars == <<month, ledger, optIn, cfg, live, mgr, memFile, spent, overlapped>>

Sources == {"none", "ai", "user"}

Memory == [rule : [Merchants -> Sources], oneOff : Seq(Bookings)]

Config ==
  [cap : 0..HardCap, keyed : BOOLEAN, key : BOOLEAN,
   month : Nat, calls : Nat, cache : SUBSET Merchants]

\* The fields of a manager and the locals of its pass: todo the candidates left,
\* due the open merchants that are cached since it chose them, held the config it
\* saves after the call; asked are the merchants sent.
Fields ==
  [mem : Memory, tried : SUBSET Merchants, other : SUBSET Bookings,
   phase : {"idle", "opt_in", "select", "next", "ask", "send", "wait", "learn"},
   todo : SUBSET Merchants, due : SUBSET Merchants, merchant : Merchants \cup {NoMerchant},
   today : Nat, held : Config, learned : BOOLEAN, asked : SUBSET Merchants]

-----------------------------------------------------------------------------
(* The memory *)

EmptyMemory == [rule |-> [x \in Merchants |-> "none"], oneOff |-> <<>>]

\* Slip for the mutation runs: the source is left out.
LearnSourceless(mem, x, source) == [mem EXCEPT !.rule[x] = ""]

LearnMerchant(mem, x, source) == [mem EXCEPT !.rule[x] = source]

\* Slip: whoever comes last is right.
LearnAiLast(mem, x) == LearnMerchant(mem, x, "ai")

LearnAi(mem, x) ==
  IF mem.rule[x] = "none" THEN LearnMerchant(mem, x, "ai") ELSE mem

\* The oldest one-off answers make room.
LearnBookings(mem, bookings) ==
  LET all == mem.oneOff \o SetToSeq(bookings)
      excess == Len(all) - MaxBookingRules
  IN [mem EXCEPT !.oneOff = IF excess > 0 THEN SubSeq(all, excess + 1, Len(all)) ELSE all]

\* What is still "other" after the chain: a one-off answer, else a rule.
Unplaced(mem, booked) ==
  {b \in booked : b \notin Range(mem.oneOff) /\ mem.rule[MerchantOf[b]] = "none"}

Open(f) == {MerchantOf[b] : b \in f.other}

-----------------------------------------------------------------------------
(* The budget *)

Calls(c, today) == IF c.month = today THEN c.calls ELSE 0

Remaining(c, today) == c.cap - Calls(c, today)

Spend(c, today) == [c EXCEPT !.month = today, !.calls = Calls(c, today) + 1]

Usable(c) == c.keyed => c.key

-----------------------------------------------------------------------------
Gone ==
  [mem |-> EmptyMemory, tried |-> {}, other |-> {}, phase |-> "idle",
   todo |-> {}, due |-> {}, merchant |-> NoMerchant, today |-> 0,
   held |-> [cap |-> 0, keyed |-> FALSE, key |-> FALSE,
             month |-> 0, calls |-> 0, cache |-> {}],
   learned |-> FALSE, asked |-> {}]

Init ==
  /\ month = 0 /\ ledger \in SUBSET Bookings
  /\ optIn = FALSE
  /\ cfg \in [cap : 0..HardCap, keyed : BOOLEAN, key : BOOLEAN,
              month : {0}, calls : {0}, cache : {{}}]
  /\ live = NoManager /\ mgr = [m \in Managers |-> Gone]
  /\ memFile = EmptyMemory
  /\ spent = 0 /\ overlapped = FALSE

Set(m, f) == mgr' = [mgr EXCEPT ![m] = f]

-----------------------------------------------------------------------------
(* The AI pass *)

\* After a derive that follows an import or a rebuild; one pass at a time.
Schedule ==
  /\ live # NoManager /\ mgr[live].phase = "idle"
  /\ Set(live, [mgr[live] EXCEPT !.phase = "opt_in"])
  /\ UNCHANGED <<month, ledger, optIn, cfg, live, memFile, spent, overlapped>>

\* The pass is over, and so is a manager that was replaced.
Over(m, f) ==
  Set(m, IF m # live THEN Gone
         ELSE [f EXCEPT !.phase = "idle", !.todo = {}, !.due = {},
                        !.merchant = NoMerchant, !.today = 0,
                        !.held = Gone.held, !.learned = FALSE])

ReadOptIn(m) ==
  /\ mgr[m].phase = "opt_in"
  /\ IF optIn THEN Set(m, [mgr[m] EXCEPT !.phase = "select"]) ELSE Over(m, mgr[m])
  /\ UNCHANGED <<month, ledger, optIn, cfg, live, memFile, spent, overlapped>>

\* Slip: what is in the cache is thought to be learned.
CandidatesNotCached(f) ==
  {x \in Open(f) : x \notin f.tried \cup cfg.cache /\ f.mem.rule[x] = "none"}

Candidates(f) == {x \in Open(f) : x \notin f.tried /\ f.mem.rule[x] = "none"}

Select(m) ==
  /\ mgr[m].phase = "select"
  /\ LET f == mgr[m]
     IN IF Usable(cfg)
        THEN Set(m, [f EXCEPT !.phase = "next", !.todo = Candidates(f),
                       !.due = {x \in Open(f) \ f.tried : f.mem.rule[x] = "none"} \cap cfg.cache])
        ELSE Over(m, f)
  /\ UNCHANGED <<month, ledger, optIn, cfg, live, memFile, spent, overlapped>>

\* Slip: what was tried is not remembered.
PickAgain(m, x) ==
  /\ mgr[m].phase = "next" /\ x \in mgr[m].todo
  /\ LET f == [mgr[m] EXCEPT !.todo = @ \ {x}]
     IN Set(m, IF x \notin cfg.cache /\ Remaining(cfg, month) <= 0 THEN f
               ELSE [f EXCEPT !.phase = "ask", !.merchant = x, !.today = month])
  /\ UNCHANGED <<month, ledger, optIn, cfg, live, memFile, spent, overlapped>>

\* The next candidate, by euro impact; left out when only a call could place it
\* and the month's calls are used up.
Pick(m, x) ==
  /\ mgr[m].phase = "next" /\ x \in mgr[m].todo
  /\ LET f == [mgr[m] EXCEPT !.todo = @ \ {x}]
     IN Set(m, IF x \notin cfg.cache /\ Remaining(cfg, month) <= 0 THEN f
               ELSE [f EXCEPT !.phase = "ask", !.tried = @ \cup {x},
                              !.merchant = x, !.today = month])
  /\ UNCHANGED <<month, ledger, optIn, cfg, live, memFile, spent, overlapped>>

\* From the pick, which reads the month, to the save after the call.
Asking(m) == mgr[m].phase \in {"ask", "send", "wait"}

NoAnswer(m) == Set(m, [mgr[m] EXCEPT !.phase = "next", !.merchant = NoMerchant])

\* async_categorize: the cache answers, or there is no key or no call left.
AskCache(m) ==
  /\ mgr[m].phase = "ask"
  /\ IF mgr[m].merchant \in cfg.cache THEN Set(m, [mgr[m] EXCEPT !.phase = "learn"])
     ELSE (~Usable(cfg) \/ Remaining(cfg, mgr[m].today) <= 0) /\ NoAnswer(m)
  /\ UNCHANGED <<month, ledger, optIn, cfg, live, memFile, spent, overlapped>>

\* The spend is saved before the call, to the month in which the merchant was picked.
AskProvider(m) ==
  LET f == mgr[m]
  IN /\ f.phase = "ask" /\ f.merchant \notin cfg.cache
     /\ Usable(cfg) /\ Remaining(cfg, f.today) > 0
     /\ cfg' = Spend(cfg, f.today)
     /\ Set(m, [f EXCEPT !.phase = "send", !.held = cfg'])
     /\ spent' = IF f.today = month THEN spent + 1 ELSE spent
     /\ overlapped' = (overlapped \/ \E n \in Managers \ {m} : Asking(n))
     /\ UNCHANGED <<month, ledger, optIn, live, memFile>>

\* The merchant leaves the house.
Send(m) ==
  /\ mgr[m].phase = "send"
  /\ Set(m, [mgr[m] EXCEPT !.phase = "wait", !.asked = @ \cup {mgr[m].merchant}])
  /\ UNCHANGED <<month, ledger, optIn, cfg, live, memFile, spent, overlapped>>

\* The provider answers with a category or none.  The config that was loaded before
\* the call is saved as a whole.
Answered(m, category) ==
  LET f == mgr[m]
      held == f.held
      fits == category /\ Cardinality(held.cache) < MaxCache
  IN /\ f.phase = "wait"
     /\ cfg' = IF fits THEN [held EXCEPT !.cache = @ \cup {f.merchant}] ELSE held
     /\ mgr' = [n \in Managers |->
          IF n # m THEN [mgr[n] EXCEPT !.due = @ \cap cfg'.cache]
          ELSE IF category THEN [f EXCEPT !.phase = "learn", !.held = Gone.held]
          ELSE [f EXCEPT !.phase = "next", !.merchant = NoMerchant, !.held = Gone.held]]
     /\ UNCHANGED <<month, ledger, optIn, live, memFile, spent, overlapped>>

Learn(m) ==
  LET f == mgr[m]
      mem == LearnAi(f.mem, f.merchant)
  IN /\ f.phase = "learn"
     /\ Set(m, [f EXCEPT !.phase = "next", !.merchant = NoMerchant, !.mem = mem,
                         !.learned = @ \/ f.mem.rule[f.merchant] = "none"])
     /\ UNCHANGED <<month, ledger, optIn, cfg, live, memFile, spent, overlapped>>

\* What was learned is saved and the views are derived anew.
Finish(m) ==
  LET f == mgr[m]
  IN /\ f.phase = "next" /\ f.todo = {}
     /\ memFile' = IF f.learned THEN f.mem ELSE memFile
     /\ Over(m, IF f.learned THEN [f EXCEPT !.other = Unplaced(f.mem, ledger)] ELSE f)
     /\ UNCHANGED <<month, ledger, optIn, cfg, live, spent, overlapped>>

-----------------------------------------------------------------------------
(* The user *)

\* An answer for all bookings of a merchant, also for one no question is open of.
AnswerMerchant(x) ==
  /\ live # NoManager
  /\ LET mem == LearnMerchant(mgr[live].mem, x, "user")
     IN /\ Set(live, [mgr[live] EXCEPT !.mem = mem, !.other = Unplaced(mem, ledger)])
        /\ memFile' = mem
  /\ UNCHANGED <<month, ledger, optIn, cfg, live, spent, overlapped>>

\* An answer for the bookings that are open now.
AnswerBookings(x) ==
  LET lids == {b \in mgr[live].other : MerchantOf[b] = x}
      mem == LearnBookings(mgr[live].mem, lids)
  IN /\ live # NoManager /\ lids # {}
     /\ Set(live, [mgr[live] EXCEPT !.mem = mem, !.other = Unplaced(mem, ledger)])
     /\ memFile' = mem
     /\ UNCHANGED <<month, ledger, optIn, cfg, live, spent, overlapped>>

SetOptIn(value) ==
  /\ live # NoManager /\ optIn' = value
  /\ UNCHANGED <<month, ledger, cfg, live, mgr, memFile, spent, overlapped>>

\* The settings are loaded, changed and saved with nothing in between.
ChangeSettings(cap, keyed, key) ==
  /\ live # NoManager
  /\ cfg' = [cfg EXCEPT !.cap = cap, !.keyed = keyed, !.key = key]
  /\ UNCHANGED <<month, ledger, optIn, live, mgr, memFile, spent, overlapped>>

\* Slip: the test is free.
TestForFree ==
  /\ live # NoManager /\ optIn /\ Usable(cfg) /\ Remaining(cfg, month) > 0
  /\ spent' = spent + 1
  /\ overlapped' = (overlapped \/ \E m \in Managers : Asking(m))
  /\ UNCHANGED <<month, ledger, optIn, cfg, live, mgr, memFile>>

\* The connection test sends a made-up merchant and counts as a call.  It loads the
\* config again before it saves its result.
Test ==
  /\ live # NoManager /\ optIn /\ Usable(cfg) /\ Remaining(cfg, month) > 0
  /\ cfg' = Spend(cfg, month)
  /\ spent' = spent + 1
  /\ overlapped' = (overlapped \/ \E m \in Managers : Asking(m))
  /\ UNCHANGED <<month, ledger, optIn, live, mgr, memFile>>

-----------------------------------------------------------------------------
(* The world around *)

\* Bookings come in and the views are derived.
Import(b) ==
  /\ live # NoManager /\ b \notin ledger
  /\ ledger' = ledger \cup {b}
  /\ Set(live, [mgr[live] EXCEPT !.other = Unplaced(mgr[live].mem, ledger')])
  /\ UNCHANGED <<month, optIn, cfg, live, memFile, spent, overlapped>>

NewMonth ==
  /\ month' = month + 1 /\ spent' = 0 /\ overlapped' = FALSE
  /\ UNCHANGED <<ledger, optIn, cfg, live, mgr, memFile>>

\* An unreadable memory starts empty.
LoadMemory(readable) == IF readable THEN memFile ELSE EmptyMemory

Setup(m, readable) ==
  LET mem == LoadMemory(readable)
  IN /\ live = NoManager /\ mgr[m].phase = "idle"
     /\ live' = m
     /\ Set(m, [Gone EXCEPT !.mem = mem, !.other = Unplaced(mem, ledger)])
     /\ UNCHANGED <<month, ledger, optIn, cfg, memFile, spent, overlapped>>

Unload ==
  /\ live # NoManager
  /\ live' = NoManager
  /\ IF mgr[live].phase = "idle" THEN Set(live, Gone) ELSE UNCHANGED mgr
  /\ UNCHANGED <<month, ledger, optIn, cfg, memFile, spent, overlapped>>

Crash ==
  /\ live' = NoManager /\ mgr' = [m \in Managers |-> Gone]
  /\ UNCHANGED <<month, ledger, optIn, cfg, memFile, spent, overlapped>>

-----------------------------------------------------------------------------
PassStep(m) ==
  \/ ReadOptIn(m) \/ Select(m) \/ \E x \in Merchants : Pick(m, x)
  \/ AskCache(m) \/ AskProvider(m) \/ Send(m)
  \/ \E category \in BOOLEAN : Answered(m, category)
  \/ Learn(m) \/ Finish(m)

UserStep ==
  \/ \E x \in Merchants : AnswerMerchant(x) \/ AnswerBookings(x)
  \/ \E value \in BOOLEAN : SetOptIn(value)
  \/ \E cap \in 0..HardCap, keyed \in BOOLEAN, key \in BOOLEAN : ChangeSettings(cap, keyed, key)
  \/ Test

WorldStep ==
  \/ \E b \in Bookings : Import(b)
  \/ NewMonth
  \/ \E m \in Managers, readable \in BOOLEAN : Setup(m, readable)
  \/ Unload \/ Crash

Next == Schedule \/ (\E m \in Managers : PassStep(m)) \/ UserStep \/ WorldStep

Spec == Init /\ [][Next]_vars

-----------------------------------------------------------------------------
(* Properties *)

\* The state is well-typed: the stores, the managers' fields, the pass's locals.
TypeOK ==
  /\ month \in Nat /\ ledger \subseteq Bookings /\ optIn \in BOOLEAN
  /\ cfg \in Config /\ memFile \in Memory
  /\ live \in Managers \cup {NoManager}
  /\ mgr \in [Managers -> Fields]
  /\ spent \in Nat /\ overlapped \in BOOLEAN

\* An answer of the AI, however late, never replaces a rule the user gave meanwhile:
\* not in the memory of a manager, and not in the file, unless the pass of a
\* manager that was replaced is still running.
UserRuleStays ==
  [][\A m \in Managers, x \in Merchants :
       live = m /\ live' = m /\ mgr[m].mem.rule[x] = "user" =>
         /\ mgr'[m].mem.rule[x] = "user"
         /\ (memFile.rule[x] = "user" /\ \A n \in Managers \ {m} : mgr[n].phase = "idle")
              => memFile'.rule[x] = "user"]_vars

\* A failed or unparseable answer is not retried in the same session: a manager
\* sends a merchant once, whatever passes, answers and imports come.
SentOncePerSession ==
  [][\A m \in Managers : Send(m) => mgr[m].merchant \notin mgr[m].asked]_vars

\* The budget holds: in a month in which no call fell between the pick of another
\* merchant and the save of its answer, every call is counted, and there are no more
\* of them than the hard cap, however often the cap, the key and the manager change.
BudgetKept == ~overlapped => spent = Calls(cfg, month) /\ spent <= HardCap

\* A result whose memory save got lost is not stranded: when a pass is through, the
\* open merchants that were cached all the time have a rule.
CachedIsLearned ==
  \A m \in Managers :
    mgr[m].phase = "next" /\ mgr[m].todo = {} =>
      \A x \in mgr[m].due : mgr[m].mem.rule[x] # "none"
=============================================================================
