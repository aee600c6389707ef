---------------------------- MODULE Questions_proofs ----------------------------
(* The budget, the memory and the session of the AI passes, for any number of *)
(* managers, merchants and bookings.                                          *)
EXTENDS Questions, FiniteSetTheorems, SequenceTheorems, TLAPS

-----------------------------------------------------------------------------
(* The inductive invariant *)

\* What one manager relies on, given the config file c.
Sound(f, c) ==
  /\ f.phase \in {"ask", "send", "wait", "learn"} => f.merchant \in Merchants
  /\ f.asked \subseteq f.tried /\ f.todo \cap f.tried = {}
  /\ f.phase \in {"ask", "send"} => f.merchant \in f.tried \ f.asked
  /\ f.due \subseteq c.cache
  /\ f.phase \in {"send", "wait"} => f.due \subseteq f.held.cache
  /\ \A x \in f.due : \/ x \in f.todo \/ f.mem.rule[x] # "none"
                      \/ f.phase \in {"ask", "learn"} /\ x = f.merchant

\* No count is of a later month, and without an overlap the config a pass holds
\* counts what the file counts.
Counted ==
  /\ cfg.month <= month
  /\ \A m \in Managers : mgr[m].held.month <= month /\ mgr[m].today <= month
  /\ ~overlapped =>
       /\ spent = Calls(cfg, month) /\ spent <= HardCap
       /\ \A m \in Managers :
            /\ mgr[m].phase \in {"send", "wait"} => Calls(mgr[m].held, month) = Calls(cfg, month)
            /\ mgr[m].phase = "ask" /\ mgr[m].today # month => Calls(cfg, month) = 0

QuestionsInv == TypeOK /\ (\A m \in Managers : Sound(mgr[m], cfg)) /\ Counted

-----------------------------------------------------------------------------
(* The memory *)

\* The bookings of an answer are a sequence of bookings.
LEMMA SetToSeqType ==
  ASSUME NEW S, IsFiniteSet(S)
  PROVE  SetToSeq(S) \in Seq(S)
<1>1. Cardinality(S) \in Nat /\ ExistsBijection(1..Cardinality(S), S)
  BY FS_CardinalityType
<1>2. PICK f : f \in Bijection(1..Cardinality(S), S)
  BY <1>1 DEF ExistsBijection
<1>3. f \in [1..Cardinality(S) -> S] /\ IsInjective(f)
  BY <1>2, Zenon DEF Bijection, Injection, IsInjective
<1>4. SetToSeq(S) \in [1..Cardinality(S) -> S]
  BY <1>3, Zenon DEF SetToSeq
<1> QED
  BY <1>1, <1>4

\* An answer for bookings leaves the rules of the merchants alone.
LEMMA LearnBookingsType ==
  ASSUME NEW mem \in Memory, NEW lids \in SUBSET Bookings
  PROVE  /\ LearnBookings(mem, lids) \in Memory
         /\ LearnBookings(mem, lids).rule = mem.rule
<1> DEFINE all == mem.oneOff \o SetToSeq(lids)
           excess == Len(all) - MaxBookingRules
           kept == IF excess > 0 THEN SubSeq(all, excess + 1, Len(all)) ELSE all
<1>1. SetToSeq(lids) \in Seq(lids)
  BY SetToSeqType, FS_Subset, QuestionsAssumption
<1>2. SetToSeq(lids) \in Seq(Bookings)
  BY <1>1
<1>3. all \in Seq(Bookings)
  BY <1>2, ConcatProperties DEF Memory
<1>4. kept \in Seq(Bookings)
  <2>1. CASE excess > 0
    <3> HIDE DEF all
    <3>1. Len(all) \in Nat /\ excess \in Int /\ excess + 1 \in 1..Len(all) + 1
      BY <1>3, <2>1, QuestionsAssumption
    <3>2. \A i \in excess + 1 .. Len(all) : all[i] \in Bookings
      BY <1>3, <3>1
    <3>3. SubSeq(all, excess + 1, Len(all)) \in Seq(Bookings)
      BY <3>1, <3>2, SubSeqProperties
    <3> QED
      BY <2>1, <3>3
  <2>2. CASE ~(excess > 0)
    BY <1>3, <2>2
  <2> QED
    BY <2>1, <2>2
<1>5. LearnBookings(mem, lids) = [mem EXCEPT !.oneOff = kept]
  BY DEF LearnBookings
<1> HIDE DEF kept
<1> QED
  BY <1>4, <1>5 DEF Memory

LEMMA LearnMerchantType ==
  ASSUME NEW mem \in Memory, NEW x \in Merchants, NEW source \in Sources \ {"none"}
  PROVE  /\ LearnMerchant(mem, x, source) \in Memory
         /\ LearnMerchant(mem, x, source).rule = [mem.rule EXCEPT ![x] = source]
BY DEF LearnMerchant, Memory, Sources

LEMMA LearnAiType ==
  ASSUME NEW mem \in Memory, NEW x \in Merchants
  PROVE  /\ LearnAi(mem, x) \in Memory
         /\ LearnAi(mem, x).rule[x] # "none"
         /\ \A y \in Merchants : mem.rule[y] # "none" => LearnAi(mem, x).rule[y] = mem.rule[y]
<1>1. CASE mem.rule[x] = "none"
  <2> DEFINE new == LearnMerchant(mem, x, "ai")
  <2>1. new \in Memory /\ new.rule = [mem.rule EXCEPT ![x] = "ai"]
    BY LearnMerchantType DEF Sources
  <2>2. new.rule[x] = "ai" /\ \A y \in Merchants \ {x} : new.rule[y] = mem.rule[y]
    BY <2>1 DEF Memory
  <2>3. LearnAi(mem, x) = new
    BY <1>1 DEF LearnAi
  <2> HIDE DEF new
  <2> QED
    BY <1>1, <2>1, <2>2, <2>3
<1>2. CASE mem.rule[x] # "none"
  BY <1>2 DEF LearnAi
<1> QED
  BY <1>1, <1>2

LEMMA EmptyMemoryType == EmptyMemory \in Memory
BY DEF EmptyMemory, Memory, Sources

LEMMA GoneType == Gone \in Fields /\ (\A c : Sound(Gone, c)) /\ Gone.held \in Config
<1>1. Gone.held \in Config
  BY QuestionsAssumption DEF Gone, Config
<1>2. Gone \in Fields
  BY <1>1, EmptyMemoryType DEF Gone, Fields
<1> QED
  BY <1>1, <1>2 DEF Gone, Sound

-----------------------------------------------------------------------------
(* Sets of one manager *)

\* A step that sets one manager and keeps the cache keeps all managers sound.
LEMMA SetKeepsSound ==
  ASSUME TypeOK, \A n \in Managers : Sound(mgr[n], cfg),
         NEW m \in Managers, NEW f \in Fields, Set(m, f),
         cfg.cache \subseteq cfg'.cache, Sound(f, cfg')
  PROVE  /\ mgr' \in [Managers -> Fields]
         /\ \A n \in Managers : Sound(mgr'[n], cfg')
         /\ mgr'[m] = f /\ \A n \in Managers \ {m} : mgr'[n] = mgr[n]
<1>1. /\ mgr' \in [Managers -> Fields]
      /\ mgr'[m] = f /\ \A n \in Managers \ {m} : mgr'[n] = mgr[n]
  BY DEF TypeOK, Set
<1>2. ASSUME NEW n \in Managers PROVE Sound(mgr'[n], cfg')
  <2>1. CASE n = m
    BY <1>1, <2>1
  <2>2. CASE n # m
    <3>1. mgr'[n] = mgr[n] /\ Sound(mgr[n], cfg)
      BY <1>1, <2>2
    <3> QED
      BY <3>1 DEF Sound
  <2> QED
    BY <2>1, <2>2
<1> QED
  BY <1>1, <1>2

\* Where the budget is not touched, it stays counted when every manager either kept
\* its place in the asking or left it.
LEMMA CountedStays ==
  ASSUME TypeOK, Counted, UNCHANGED <<month, spent, overlapped>>,
         cfg'.month = cfg.month, cfg'.calls = cfg.calls,
         \A n \in Managers :
           /\ mgr'[n].held = mgr[n].held \/ mgr'[n].held.month <= month
           /\ mgr'[n].today = mgr[n].today \/ mgr'[n].today = month \/ mgr'[n].today = 0
           /\ mgr'[n].phase \in {"send", "wait"} =>
                mgr[n].phase \in {"send", "wait"} /\ mgr'[n].held = mgr[n].held
           /\ mgr'[n].phase = "ask" =>
                (mgr'[n].today = month \/ (mgr[n].phase = "ask" /\ mgr'[n].today = mgr[n].today))
  PROVE  Counted'
BY DEF Counted, Calls, TypeOK

\* Where the pass ends.
LEMMA OverKeepsSound ==
  ASSUME TypeOK, \A n \in Managers : Sound(mgr[n], cfg),
         NEW m \in Managers, NEW f \in Fields, f.asked \subseteq f.tried,
         Over(m, f), cfg' = cfg
  PROVE  /\ mgr' \in [Managers -> Fields]
         /\ \A n \in Managers : Sound(mgr'[n], cfg')
         /\ mgr'[m].phase = "idle" /\ (0 <= month => mgr'[m].held.month <= month) /\ mgr'[m].today = 0
         /\ \A n \in Managers \ {m} : mgr'[n] = mgr[n]
         /\ m = live => mgr'[m].mem = f.mem
<1> DEFINE g == [f EXCEPT !.phase = "idle", !.todo = {}, !.due = {},
                          !.merchant = NoMerchant, !.today = 0,
                          !.held = Gone.held, !.learned = FALSE]
<1>1. g \in Fields /\ g.phase = "idle" /\ g.held = Gone.held /\ g.today = 0 /\ g.mem = f.mem
  BY GoneType DEF Fields
<1>2. Sound(g, cfg')
  BY DEF Sound, Fields
<1>3. Gone.phase = "idle" /\ Gone.today = 0 /\ Gone.held.month = 0
  BY DEF Gone
<1> HIDE DEF g
<1>4. CASE m = live
  <2>1. Set(m, g)
    BY <1>4 DEF Over, g
  <2> QED
    BY <1>1, <1>2, <1>3, <2>1, SetKeepsSound
<1>5. CASE m # live
  <2>1. Set(m, Gone)
    BY <1>5 DEF Over
  <2> QED
    BY <1>3, <1>5, <2>1, GoneType, SetKeepsSound
<1> QED
  BY <1>4, <1>5

-----------------------------------------------------------------------------
(* The steps of a pass *)

\* A step of a manager that leaves the budget alone and does not go to the provider.
LEMMA QuietStep ==
  ASSUME QuestionsInv, NEW m \in Managers, NEW f \in Fields, Set(m, f), Sound(f, cfg'),
         UNCHANGED <<month, ledger, optIn, cfg, live, spent, overlapped>>, memFile' \in Memory,
         f.phase \notin {"send", "wait"} \/ (mgr[m].phase \in {"send", "wait"} /\ f.held = mgr[m].held),
         f.held = mgr[m].held \/ f.held.month <= month,
         f.phase = "ask" => f.today = month,
         f.today = mgr[m].today \/ f.today = month
  PROVE  QuestionsInv'
<1>1. /\ mgr' \in [Managers -> Fields] /\ \A n \in Managers : Sound(mgr'[n], cfg')
      /\ mgr'[m] = f /\ \A n \in Managers \ {m} : mgr'[n] = mgr[n]
  BY SetKeepsSound DEF QuestionsInv
<1>2. TypeOK'
  BY <1>1 DEF QuestionsInv, TypeOK
<1>3. \A n \in Managers :
        /\ mgr'[n].held = mgr[n].held \/ mgr'[n].held.month <= month
        /\ mgr'[n].today = mgr[n].today \/ mgr'[n].today = month \/ mgr'[n].today = 0
        /\ mgr'[n].phase \in {"send", "wait"} =>
             mgr[n].phase \in {"send", "wait"} /\ mgr'[n].held = mgr[n].held
        /\ mgr'[n].phase = "ask" =>
             (mgr'[n].today = month \/ (mgr[n].phase = "ask" /\ mgr'[n].today = mgr[n].today))
  <2>1. \A n \in Managers \ {m} : mgr'[n] = mgr[n]
    BY <1>1
  <2> QED
    BY <1>1, <2>1
<1>4. Counted'
  BY <1>3, CountedStays DEF QuestionsInv
<1> QED
  BY <1>1, <1>2, <1>4 DEF QuestionsInv

\* A step that ends the pass of a manager.
LEMMA OverStep ==
  ASSUME QuestionsInv, NEW m \in Managers, NEW f \in Fields, f.asked \subseteq f.tried, Over(m, f),
         UNCHANGED <<month, ledger, optIn, cfg, live, spent, overlapped>>, memFile' \in Memory
  PROVE  QuestionsInv'
<1>1. /\ mgr' \in [Managers -> Fields] /\ \A n \in Managers : Sound(mgr'[n], cfg')
      /\ mgr'[m].phase = "idle" /\ (0 <= month => mgr'[m].held.month <= month) /\ mgr'[m].today = 0
      /\ \A n \in Managers \ {m} : mgr'[n] = mgr[n]
  BY OverKeepsSound DEF QuestionsInv
<1>2. TypeOK'
  BY <1>1 DEF QuestionsInv, TypeOK
<1>3. mgr'[m].held.month <= month
  BY <1>1 DEF QuestionsInv, TypeOK
<1>4. Counted'
  BY <1>1, <1>3, CountedStays DEF QuestionsInv
<1> QED
  BY <1>1, <1>2, <1>4 DEF QuestionsInv

LEMMA ManagersAreSound ==
  ASSUME QuestionsInv, NEW m \in Managers
  PROVE  mgr[m] \in Fields /\ Sound(mgr[m], cfg) /\ cfg \in Config /\ memFile \in Memory
         /\ month \in Nat /\ mgr[m].mem \in Memory /\ ledger \subseteq Bookings
BY DEF QuestionsInv, TypeOK, Fields

LEMMA ScheduleKeeps ==
  ASSUME QuestionsInv, live \in Managers, Schedule
  PROVE  QuestionsInv'
<1> DEFINE f == [mgr[live] EXCEPT !.phase = "opt_in"]
<1>1. f \in Fields /\ Sound(f, cfg')
  BY ManagersAreSound DEF Schedule, Fields, Sound
<1>2. f.phase = "opt_in" /\ f.held = mgr[live].held /\ f.today = mgr[live].today
  BY ManagersAreSound DEF Fields
<1> QED
  BY <1>1, <1>2, QuietStep, ManagersAreSound DEF Schedule

LEMMA ReadOptInKeeps ==
  ASSUME QuestionsInv, NEW m \in Managers, ReadOptIn(m)
  PROVE  QuestionsInv'
<1>1. CASE optIn
  <2> DEFINE f == [mgr[m] EXCEPT !.phase = "select"]
  <2>1. f \in Fields /\ Sound(f, cfg')
    BY ManagersAreSound DEF ReadOptIn, Fields, Sound
  <2>2. f.phase = "select" /\ f.held = mgr[m].held /\ f.today = mgr[m].today
    BY ManagersAreSound DEF Fields
  <2> QED
    BY <1>1, <2>1, <2>2, QuietStep, ManagersAreSound DEF ReadOptIn
<1>2. CASE ~optIn
  BY <1>2, OverStep, ManagersAreSound DEF ReadOptIn, Sound
<1> QED
  BY <1>1, <1>2

LEMMA SelectKeeps ==
  ASSUME QuestionsInv, NEW m \in Managers, Select(m)
  PROVE  QuestionsInv'
<1>1. CASE Usable(cfg)
  <2> DEFINE due == {x \in Open(mgr[m]) \ mgr[m].tried : mgr[m].mem.rule[x] = "none"} \cap cfg.cache
             f == [mgr[m] EXCEPT !.phase = "next", !.todo = Candidates(mgr[m]), !.due = due]
  <2>1. Open(mgr[m]) \subseteq Merchants
    BY ManagersAreSound, QuestionsAssumption DEF Open, Fields
  <2>2. due \subseteq Candidates(mgr[m]) /\ Candidates(mgr[m]) \subseteq Merchants
        /\ Candidates(mgr[m]) \cap mgr[m].tried = {} /\ due \subseteq cfg.cache
    BY <2>1 DEF Candidates
  <2> HIDE DEF due
  <2>3. f \in Fields /\ Sound(f, cfg')
    BY <2>2, ManagersAreSound DEF Select, Fields, Sound
  <2>4. f.phase = "next" /\ f.held = mgr[m].held /\ f.today = mgr[m].today
    BY ManagersAreSound DEF Fields
  <2>5. Set(m, f)
    BY <1>1 DEF Select, due
  <2> HIDE DEF f
  <2> QED
    BY <2>3, <2>4, <2>5, QuietStep, ManagersAreSound DEF Select
<1>2. CASE ~Usable(cfg)
  BY <1>2, OverStep, ManagersAreSound DEF Select, Sound
<1> QED
  BY <1>1, <1>2

LEMMA PickKeeps ==
  ASSUME QuestionsInv, NEW m \in Managers, NEW x \in Merchants, Pick(m, x)
  PROVE  QuestionsInv'
<1> DEFINE f == [mgr[m] EXCEPT !.todo = @ \ {x}]
           g == [f EXCEPT !.phase = "ask", !.tried = @ \cup {x}, !.merchant = x, !.today = month]
<1>1. CASE x \notin cfg.cache /\ Remaining(cfg, month) <= 0
  <2>1. f \in Fields /\ Sound(f, cfg')
    BY <1>1, ManagersAreSound DEF Pick, Fields, Sound
  <2>2. f.phase = "next" /\ f.held = mgr[m].held /\ f.today = mgr[m].today
    BY ManagersAreSound DEF Pick, Fields
  <2>3. Set(m, f)
    BY <1>1 DEF Pick
  <2> HIDE DEF f
  <2> QED
    BY <2>1, <2>2, <2>3, QuietStep, ManagersAreSound DEF Pick
<1>2. CASE ~(x \notin cfg.cache /\ Remaining(cfg, month) <= 0)
  <2>0. g \in Fields
    BY ManagersAreSound DEF Fields
  <2>2. /\ g.phase = "ask" /\ g.held = mgr[m].held /\ g.today = month /\ g.merchant = x
        /\ g.todo = mgr[m].todo \ {x} /\ g.tried = mgr[m].tried \cup {x}
        /\ g.due = mgr[m].due /\ g.mem = mgr[m].mem /\ g.asked = mgr[m].asked
    BY ManagersAreSound DEF Fields
  <2>3. Set(m, g)
    BY <1>2 DEF Pick
  <2> HIDE DEF g
  <2>1. g \in Fields /\ Sound(g, cfg')
    BY <2>0, <2>2, ManagersAreSound DEF Pick, Sound
  <2> QED
    BY <2>1, <2>2, <2>3, QuietStep, ManagersAreSound DEF Pick
<1> QED
  BY <1>1, <1>2

LEMMA AskCacheKeeps ==
  ASSUME QuestionsInv, NEW m \in Managers, AskCache(m)
  PROVE  QuestionsInv'
<1>1. CASE mgr[m].merchant \in cfg.cache
  <2> DEFINE f == [mgr[m] EXCEPT !.phase = "learn"]
  <2>1. f \in Fields /\ Sound(f, cfg')
    BY ManagersAreSound DEF AskCache, Fields, Sound
  <2>2. f.phase = "learn" /\ f.held = mgr[m].held /\ f.today = mgr[m].today
    BY ManagersAreSound DEF Fields
  <2> QED
    BY <1>1, <2>1, <2>2, QuietStep, ManagersAreSound DEF AskCache
<1>2. CASE mgr[m].merchant \notin cfg.cache
  <2> DEFINE f == [mgr[m] EXCEPT !.phase = "next", !.merchant = NoMerchant]
  <2>0. f \in Fields
    BY ManagersAreSound DEF Fields
  <2>2. /\ f.phase = "next" /\ f.held = mgr[m].held /\ f.today = mgr[m].today
        /\ f.todo = mgr[m].todo /\ f.tried = mgr[m].tried
        /\ f.due = mgr[m].due /\ f.mem = mgr[m].mem /\ f.asked = mgr[m].asked
    BY ManagersAreSound DEF Fields
  <2>3. Set(m, f)
    BY <1>2 DEF AskCache, NoAnswer
  <2> HIDE DEF f
  <2>1. f \in Fields /\ Sound(f, cfg')
    BY <1>2, <2>0, <2>2, ManagersAreSound DEF AskCache, Sound
  <2> QED
    BY <2>1, <2>2, <2>3, QuietStep, ManagersAreSound DEF AskCache
<1> QED
  BY <1>1, <1>2

LEMMA SendKeeps ==
  ASSUME QuestionsInv, NEW m \in Managers, Send(m)
  PROVE  QuestionsInv'
<1> DEFINE f == [mgr[m] EXCEPT !.phase = "wait", !.asked = @ \cup {mgr[m].merchant}]
<1>0. mgr[m].merchant \in Merchants /\ mgr[m].phase = "send"
  BY ManagersAreSound DEF Send, Sound
<1>1. f \in Fields
  BY <1>0, ManagersAreSound DEF Fields
<1>2. /\ f.phase = "wait" /\ f.held = mgr[m].held /\ f.today = mgr[m].today
      /\ f.todo = mgr[m].todo /\ f.tried = mgr[m].tried /\ f.merchant = mgr[m].merchant
      /\ f.due = mgr[m].due /\ f.mem = mgr[m].mem /\ f.asked = mgr[m].asked \cup {mgr[m].merchant}
  BY ManagersAreSound DEF Fields
<1>3. Set(m, f)
  BY DEF Send
<1> HIDE DEF f
<1>4. Sound(f, cfg')
  BY <1>0, <1>2, ManagersAreSound DEF Send, Sound
<1> QED
  BY <1>0, <1>1, <1>4, <1>2, <1>3, QuietStep, ManagersAreSound DEF Send

\* What a call does to the count.
LEMMA SpendCounts ==
  ASSUME NEW c \in Config, NEW today \in Nat
  PROVE  /\ Spend(c, today) \in Config /\ Spend(c, today).cache = c.cache
         /\ Spend(c, today).month = today
         /\ Calls(Spend(c, today), today) = Calls(c, today) + 1
<1>1. Calls(c, today) \in Nat
  BY DEF Calls, Config
<1>2. Spend(c, today) \in Config
  <2> DEFINE n == Calls(c, today) + 1
  <2>1. n \in Nat
    BY <1>1
  <2>2. Spend(c, today) = [c EXCEPT !.month = today, !.calls = n]
    BY DEF Spend
  <2> HIDE DEF n
  <2> QED
    BY <2>1, <2>2 DEF Config
<1>3. /\ Spend(c, today).cache = c.cache /\ Spend(c, today).month = today
      /\ Spend(c, today).calls = Calls(c, today) + 1
  BY DEF Spend, Config
<1> QED
  BY <1>2, <1>3 DEF Calls

LEMMA AskProviderKeeps ==
  ASSUME QuestionsInv, NEW m \in Managers, AskProvider(m)
  PROVE  QuestionsInv'
<1> DEFINE today == mgr[m].today
           f == [mgr[m] EXCEPT !.phase = "send", !.held = cfg']
<1>1. today \in Nat /\ today <= month /\ mgr[m].phase = "ask"
  BY ManagersAreSound DEF AskProvider, Fields, QuestionsInv, Counted
<1>2. /\ cfg' \in Config /\ cfg'.cache = cfg.cache /\ cfg'.month = today
      /\ Calls(cfg', today) = Calls(cfg, today) + 1
  BY <1>1, ManagersAreSound, SpendCounts DEF AskProvider
<1>a. f \in Fields
  BY <1>2, ManagersAreSound DEF Fields
<1>4. Set(m, f)
  BY DEF AskProvider
<1>5. /\ f.phase = "send" /\ f.held = cfg' /\ f.today = today
      /\ f.todo = mgr[m].todo /\ f.tried = mgr[m].tried /\ f.merchant = mgr[m].merchant
      /\ f.due = mgr[m].due /\ f.mem = mgr[m].mem /\ f.asked = mgr[m].asked
  BY ManagersAreSound DEF Fields
<1> HIDE DEF f
<1>3. f \in Fields /\ Sound(f, cfg')
  BY <1>a, <1>2, <1>5, ManagersAreSound DEF AskProvider, Sound
<1>6. /\ mgr' \in [Managers -> Fields] /\ \A n \in Managers : Sound(mgr'[n], cfg')
      /\ mgr'[m] = f /\ \A n \in Managers \ {m} : mgr'[n] = mgr[n]
  BY <1>2, <1>3, <1>4, SetKeepsSound DEF QuestionsInv
<1>7. TypeOK'
  BY <1>2, <1>6 DEF QuestionsInv, TypeOK, AskProvider
<1>8. cfg'.month <= month' /\ \A n \in Managers : mgr'[n].held.month <= month' /\ mgr'[n].today <= month'
  BY <1>1, <1>2, <1>5, <1>6 DEF QuestionsInv, Counted, AskProvider
<1>9. ASSUME ~overlapped'
      PROVE  /\ spent' = Calls(cfg', month') /\ spent' <= HardCap
             /\ \A n \in Managers :
                  /\ mgr'[n].phase \in {"send", "wait"} =>
                       Calls(mgr'[n].held, month') = Calls(cfg', month')
                  /\ mgr'[n].phase = "ask" /\ mgr'[n].today # month' => Calls(cfg', month') = 0
  <2>1. ~overlapped /\ month' = month /\ \A n \in Managers \ {m} : ~Asking(n)
    BY <1>9 DEF AskProvider
  <2>2. spent = Calls(cfg, month) /\ (today # month => Calls(cfg, month) = 0) /\ spent <= HardCap
    BY <1>1, <2>1 DEF QuestionsInv, Counted
  <2>3. spent' = Calls(cfg', month) /\ spent' <= HardCap
    <3>1. CASE today = month
      <4>1. spent' = spent + 1 /\ Calls(cfg', month) = Calls(cfg, month) + 1
        BY <1>2, <3>1 DEF AskProvider
      <4>2. Calls(cfg, month) < HardCap
        <5>1. cfg.cap - Calls(cfg, month) > 0 /\ cfg.cap \in 0..HardCap /\ Calls(cfg, month) \in Nat
          BY <3>1, ManagersAreSound DEF AskProvider, Remaining, Calls, Config
        <5> QED
          BY <5>1, QuestionsAssumption
      <4>3. Calls(cfg, month) \in Nat
        BY ManagersAreSound DEF Calls, Config
      <4> QED
        BY <2>2, <4>1, <4>2, <4>3, QuestionsAssumption
    <3>2. CASE today # month
      <4>1. Calls(cfg', month) = 0
        BY <1>2, <3>2 DEF Calls
      <4> QED
        BY <2>2, <3>2, <4>1 DEF AskProvider
    <3> QED
      BY <3>1, <3>2
  <2>4. \A n \in Managers : mgr'[n].phase \in {"ask", "send", "wait"} => n = m
    BY <1>6, <2>1 DEF Asking
  <2> QED
    BY <1>5, <1>6, <2>1, <2>3, <2>4
<1>10. Counted'
  BY <1>8, <1>9 DEF Counted
<1> QED
  BY <1>6, <1>7, <1>10 DEF QuestionsInv

LEMMA AnsweredKeeps ==
  ASSUME QuestionsInv, NEW m \in Managers, NEW category \in BOOLEAN, Answered(m, category)
  PROVE  QuestionsInv'
<1> DEFINE f == mgr[m]
           learning == [f EXCEPT !.phase = "learn", !.held = Gone.held]
           going == [f EXCEPT !.phase = "next", !.merchant = NoMerchant, !.held = Gone.held]
           g == IF category THEN learning ELSE going
           other(n) == [mgr[n] EXCEPT !.due = @ \cap cfg'.cache]
<1>1. f \in Fields /\ Sound(f, cfg) /\ f.held \in Config /\ f.phase = "wait" /\ f.merchant \in Merchants
  BY ManagersAreSound DEF Answered, Fields, Sound
<1>2. /\ cfg' \in Config /\ f.held.cache \subseteq cfg'.cache
      /\ cfg'.month = f.held.month /\ cfg'.calls = f.held.calls
  BY <1>1 DEF Answered, Config
<1>3. g \in Fields /\ Sound(g, cfg')
  <2>1. learning \in Fields /\ going \in Fields
    BY <1>1, GoneType DEF Fields
  <2>2. Sound(learning, cfg')
    BY <1>1, <1>2 DEF Fields, Sound
  <2>3. Sound(going, cfg')
    BY <1>1, <1>2 DEF Fields, Sound
  <2> QED
    BY <2>1, <2>2, <2>3
<1>4. g.phase \notin {"ask", "send", "wait"} /\ g.held = Gone.held /\ g.today = f.today
  BY <1>1 DEF Fields
<1>5. \A n \in Managers : other(n) \in Fields /\ Sound(other(n), cfg')
  BY ManagersAreSound DEF Fields, Sound
<1>6. \A n \in Managers : other(n).phase = mgr[n].phase /\ other(n).held = mgr[n].held
                          /\ other(n).today = mgr[n].today
  BY ManagersAreSound DEF Fields
<1>7. mgr' = [n \in Managers |-> IF n # m THEN other(n) ELSE g]
  BY DEF Answered
<1> HIDE DEF g, other
<1>8. mgr' \in [Managers -> Fields] /\ \A n \in Managers : Sound(mgr'[n], cfg')
  BY <1>3, <1>5, <1>7
<1>9. TypeOK'
  BY <1>2, <1>8 DEF QuestionsInv, TypeOK, Answered
<1>10. /\ month' = month /\ spent' = spent /\ overlapped' = overlapped
       /\ Gone.held.month <= month /\ f.held.month <= month
  BY ManagersAreSound DEF Answered, Gone, QuestionsInv, Counted
<1>11. Calls(cfg', month) = Calls(f.held, month)
  BY <1>2 DEF Calls
<1>12. ~overlapped => Calls(cfg', month) = Calls(cfg, month)
  BY <1>1, <1>11 DEF QuestionsInv, Counted
<1>13. \A n \in Managers : mgr'[n].held.month <= month /\ mgr'[n].today <= month
  BY <1>4, <1>6, <1>7, <1>10 DEF QuestionsInv, Counted
<1>14. \A n \in Managers : mgr'[n].phase \in {"ask", "send", "wait"} =>
         mgr'[n].phase = mgr[n].phase /\ mgr'[n].held = mgr[n].held /\ mgr'[n].today = mgr[n].today
  BY <1>4, <1>6, <1>7
<1>15. Counted'
  BY <1>2, <1>10, <1>12, <1>13, <1>14 DEF QuestionsInv, Counted
<1> QED
  BY <1>8, <1>9, <1>15 DEF QuestionsInv

LEMMA LearnKeeps ==
  ASSUME QuestionsInv, NEW m \in Managers, Learn(m)
  PROVE  QuestionsInv'
<1> DEFINE f == mgr[m]
           mem == LearnAi(f.mem, f.merchant)
           g == [f EXCEPT !.phase = "next", !.merchant = NoMerchant, !.mem = mem,
                          !.learned = @ \/ f.mem.rule[f.merchant] = "none"]
<1>1. f \in Fields /\ Sound(f, cfg) /\ f.mem \in Memory /\ f.merchant \in Merchants /\ f.phase = "learn"
  BY ManagersAreSound DEF Learn, Sound
<1>2. /\ mem \in Memory /\ mem.rule[f.merchant] # "none"
      /\ \A y \in Merchants : f.mem.rule[y] # "none" => mem.rule[y] = f.mem.rule[y]
  BY <1>1, LearnAiType
<1> HIDE DEF mem
<1> DEFINE learned == f.learned \/ f.mem.rule[f.merchant] = "none"
<1>a. learned \in BOOLEAN
  BY <1>1 DEF Fields
<1>5. Set(m, g)
  BY DEF Learn, mem
<1> HIDE DEF learned
<1>b. g \in Fields
  <2>1. g = [f EXCEPT !.phase = "next", !.merchant = NoMerchant, !.mem = mem, !.learned = learned]
    BY DEF learned
  <2> QED
    BY <2>1, <1>1, <1>2, <1>a DEF Fields
<1>4. /\ g.phase = "next" /\ g.held = f.held /\ g.today = f.today
      /\ g.todo = f.todo /\ g.tried = f.tried
      /\ g.due = f.due /\ g.mem = mem /\ g.asked = f.asked
  BY <1>1 DEF Fields
<1>c. f.due \subseteq Merchants
  BY <1>1 DEF Fields
<1> HIDE DEF g
<1>3. g \in Fields /\ Sound(g, cfg')
  BY <1>1, <1>2, <1>b, <1>4, <1>c DEF Learn, Sound
<1> QED
  BY <1>3, <1>4, <1>5, QuietStep, ManagersAreSound DEF Learn

LEMMA FinishKeeps ==
  ASSUME QuestionsInv, NEW m \in Managers, Finish(m)
  PROVE  QuestionsInv'
<1> DEFINE f == mgr[m]
           g == IF f.learned THEN [f EXCEPT !.other = Unplaced(f.mem, ledger)] ELSE f
<1>1. memFile' \in Memory
  BY ManagersAreSound DEF Finish
<1>2. Unplaced(f.mem, ledger) \subseteq Bookings
  BY ManagersAreSound DEF Unplaced
<1>3. g \in Fields /\ g.asked \subseteq g.tried
  BY <1>2, ManagersAreSound DEF Fields, Sound
<1>4. Over(m, g)
  BY DEF Finish
<1> HIDE DEF g
<1> QED
  BY <1>1, <1>3, <1>4, OverStep DEF Finish
-----------------------------------------------------------------------------
(* The steps of the user and of the world *)

\* A new memory of the manager in place that keeps its rules.
LEMMA NewMemoryKeeps ==
  ASSUME QuestionsInv, live \in Managers, NEW mem \in Memory,
         \A x \in Merchants : mgr[live].mem.rule[x] # "none" => mem.rule[x] # "none",
         Set(live, [mgr[live] EXCEPT !.mem = mem, !.other = Unplaced(mem, ledger)]),
         memFile' = mem, UNCHANGED <<month, ledger, optIn, cfg, live, spent, overlapped>>
  PROVE  QuestionsInv'
<1> DEFINE f == mgr[live]
           g == [f EXCEPT !.mem = mem, !.other = Unplaced(mem, ledger)]
<1>1. f \in Fields /\ Sound(f, cfg) /\ ledger \subseteq Bookings
  BY ManagersAreSound
<1>2. Unplaced(mem, ledger) \subseteq Bookings
  BY <1>1 DEF Unplaced
<1>3. g \in Fields
  BY <1>1, <1>2 DEF Fields
<1>4. /\ g.phase = f.phase /\ g.held = f.held /\ g.today = f.today /\ g.merchant = f.merchant
      /\ g.todo = f.todo /\ g.tried = f.tried
      /\ g.due = f.due /\ g.mem = mem /\ g.asked = f.asked /\ f.due \subseteq Merchants
  BY <1>1 DEF Fields
<1>5. Set(live, g)
  OBVIOUS
<1> HIDE DEF g
<1>6. Sound(g, cfg')
  BY <1>1, <1>4 DEF Sound
<1>7. /\ mgr' \in [Managers -> Fields] /\ \A n \in Managers : Sound(mgr'[n], cfg')
      /\ mgr'[live] = g /\ \A n \in Managers \ {live} : mgr'[n] = mgr[n]
  BY <1>3, <1>5, <1>6, SetKeepsSound DEF QuestionsInv
<1>8. TypeOK'
  BY <1>7 DEF QuestionsInv, TypeOK
<1>9. \A n \in Managers : /\ mgr'[n].phase = mgr[n].phase /\ mgr'[n].held = mgr[n].held
                          /\ mgr'[n].today = mgr[n].today
  BY <1>4, <1>7
<1>10. Counted'
  BY <1>9 DEF QuestionsInv, Counted
<1> QED
  BY <1>7, <1>8, <1>10 DEF QuestionsInv

LEMMA AnswerMerchantKeeps ==
  ASSUME QuestionsInv, NEW x \in Merchants, AnswerMerchant(x)
  PROVE  QuestionsInv'
<1> DEFINE mem == LearnMerchant(mgr[live].mem, x, "user")
<1>1. live \in Managers
  BY DEF AnswerMerchant, QuestionsInv, TypeOK
<1>2. mgr[live].mem \in Memory
  BY <1>1, ManagersAreSound
<1>3. mem \in Memory /\ mem.rule = [mgr[live].mem.rule EXCEPT ![x] = "user"]
  BY <1>2, LearnMerchantType DEF Sources
<1>4. \A y \in Merchants : mgr[live].mem.rule[y] # "none" => mem.rule[y] # "none"
  BY <1>2, <1>3 DEF Memory
<1>5. /\ Set(live, [mgr[live] EXCEPT !.mem = mem, !.other = Unplaced(mem, ledger)])
      /\ memFile' = mem /\ UNCHANGED <<month, ledger, optIn, cfg, live, spent, overlapped>>
  BY DEF AnswerMerchant
<1> HIDE DEF mem
<1> QED
  BY <1>1, <1>3, <1>4, <1>5, NewMemoryKeeps

LEMMA AnswerBookingsKeeps ==
  ASSUME QuestionsInv, NEW x \in Merchants, AnswerBookings(x)
  PROVE  QuestionsInv'
<1> DEFINE lids == {b \in mgr[live].other : MerchantOf[b] = x}
           mem == LearnBookings(mgr[live].mem, lids)
<1>1. live \in Managers
  BY DEF AnswerBookings, QuestionsInv, TypeOK
<1>2. mgr[live].mem \in Memory /\ lids \subseteq Bookings
  BY <1>1, ManagersAreSound DEF Fields
<1>3. mem \in Memory /\ mem.rule = mgr[live].mem.rule
  BY <1>2, LearnBookingsType
<1>4. /\ Set(live, [mgr[live] EXCEPT !.mem = mem, !.other = Unplaced(mem, ledger)])
      /\ memFile' = mem /\ UNCHANGED <<month, ledger, optIn, cfg, live, spent, overlapped>>
  BY DEF AnswerBookings
<1> HIDE DEF mem
<1> QED
  BY <1>1, <1>3, <1>4, NewMemoryKeeps

LEMMA SettingsKeep ==
  ASSUME QuestionsInv,
         NEW cap \in 0..HardCap, NEW keyed \in BOOLEAN, NEW key \in BOOLEAN,
         ChangeSettings(cap, keyed, key)
  PROVE  QuestionsInv'
<1>1. /\ cfg' \in Config /\ cfg'.cache = cfg.cache
      /\ cfg'.month = cfg.month /\ cfg'.calls = cfg.calls
  BY DEF ChangeSettings, QuestionsInv, TypeOK, Config
<1>2. UNCHANGED <<month, ledger, optIn, live, mgr, memFile, spent, overlapped>>
  BY DEF ChangeSettings
<1>3. TypeOK'
  BY <1>1, <1>2 DEF QuestionsInv, TypeOK
<1>4. \A m \in Managers : Sound(mgr'[m], cfg')
  BY <1>1, <1>2 DEF QuestionsInv, Sound
<1>5. Counted'
  BY <1>1, <1>2 DEF QuestionsInv, Counted, Calls
<1> QED
  BY <1>3, <1>4, <1>5 DEF QuestionsInv

LEMMA TestKeeps ==
  ASSUME QuestionsInv, Test
  PROVE  QuestionsInv'
<1>1. /\ cfg' \in Config /\ cfg'.cache = cfg.cache /\ cfg'.month = month
      /\ Calls(cfg', month) = Calls(cfg, month) + 1
  BY SpendCounts DEF Test, QuestionsInv, TypeOK
<1>2. UNCHANGED <<month, ledger, optIn, live, mgr, memFile>> /\ spent' = spent + 1
      /\ overlapped' \in BOOLEAN
  BY DEF Test
<1>3. TypeOK'
  BY <1>1, <1>2 DEF QuestionsInv, TypeOK
<1>4. \A m \in Managers : Sound(mgr'[m], cfg')
  BY <1>1, <1>2 DEF QuestionsInv, Sound
<1>5. ASSUME ~overlapped' PROVE ~overlapped /\ \A m \in Managers : ~Asking(m)
  BY <1>5 DEF Test
<1>6. Calls(cfg, month) + 1 <= HardCap
  <2>1. cfg.cap - Calls(cfg, month) > 0 /\ cfg.cap \in 0..HardCap /\ Calls(cfg, month) \in Nat
    BY DEF Test, Remaining, QuestionsInv, TypeOK, Config, Calls
  <2> QED
    BY <2>1, QuestionsAssumption
<1>7. ~overlapped' => spent' = Calls(cfg', month') /\ spent' <= HardCap
  BY <1>1, <1>2, <1>5, <1>6 DEF QuestionsInv, Counted
<1>8. Counted'
  BY <1>1, <1>2, <1>5, <1>7 DEF QuestionsInv, Counted, Asking, TypeOK
<1> QED
  BY <1>3, <1>4, <1>8 DEF QuestionsInv

LEMMA ImportKeeps ==
  ASSUME QuestionsInv, NEW b \in Bookings, Import(b)
  PROVE  QuestionsInv'
<1> DEFINE f == mgr[live]
           g == [f EXCEPT !.other = Unplaced(f.mem, ledger')]
<1>1. live \in Managers /\ ledger' \subseteq Bookings
  BY DEF Import, QuestionsInv, TypeOK
<1>2. f \in Fields /\ Sound(f, cfg)
  BY <1>1, ManagersAreSound
<1>3. Unplaced(f.mem, ledger') \subseteq Bookings
  BY <1>1 DEF Unplaced
<1>4. g \in Fields
  BY <1>2, <1>3 DEF Fields
<1>5. /\ g.phase = f.phase /\ g.held = f.held /\ g.today = f.today /\ g.merchant = f.merchant
      /\ g.todo = f.todo /\ g.tried = f.tried
      /\ g.due = f.due /\ g.mem = f.mem /\ g.asked = f.asked
  BY <1>2 DEF Fields
<1>6. Set(live, g) /\ UNCHANGED <<month, optIn, cfg, live, memFile, spent, overlapped>>
  BY DEF Import
<1> HIDE DEF g
<1>7. Sound(g, cfg')
  BY <1>2, <1>5, <1>6 DEF Sound
<1>8. /\ mgr' \in [Managers -> Fields] /\ \A n \in Managers : Sound(mgr'[n], cfg')
      /\ mgr'[live] = g /\ \A n \in Managers \ {live} : mgr'[n] = mgr[n]
  BY <1>1, <1>4, <1>6, <1>7, SetKeepsSound DEF QuestionsInv
<1>9. TypeOK'
  BY <1>1, <1>6, <1>8 DEF QuestionsInv, TypeOK
<1>10. \A n \in Managers : /\ mgr'[n].phase = mgr[n].phase /\ mgr'[n].held = mgr[n].held
                           /\ mgr'[n].today = mgr[n].today
  BY <1>5, <1>8
<1>11. Counted'
  BY <1>6, <1>10 DEF QuestionsInv, Counted
<1> QED
  BY <1>8, <1>9, <1>11 DEF QuestionsInv

LEMMA NewMonthKeeps ==
  ASSUME QuestionsInv, NewMonth
  PROVE  QuestionsInv'
<1>1. UNCHANGED <<ledger, optIn, cfg, live, mgr, memFile>>
      /\ month' = month + 1 /\ spent' = 0 /\ month \in Nat
  BY DEF NewMonth, QuestionsInv, TypeOK
<1>a. overlapped' \in BOOLEAN
  BY DEF NewMonth
<1>2. TypeOK'
  BY <1>1, <1>a DEF QuestionsInv, TypeOK
<1>3. \A m \in Managers : Sound(mgr'[m], cfg')
  BY <1>1 DEF QuestionsInv
<1>4. cfg.month \in Nat /\ \A m \in Managers : mgr[m].held.month \in Nat /\ mgr[m].today \in Nat
  BY DEF QuestionsInv, TypeOK, Fields, Config
<1>5. \A c : c.month \in Nat /\ c.month <= month => Calls(c, month + 1) = 0 /\ c.month <= month + 1
  BY <1>1 DEF Calls
<1>6. Counted'
  BY <1>1, <1>4, <1>5, QuestionsAssumption DEF QuestionsInv, Counted
<1> QED
  BY <1>2, <1>3, <1>6 DEF QuestionsInv

LEMMA SetupKeeps ==
  ASSUME QuestionsInv, NEW m \in Managers, NEW readable \in BOOLEAN, Setup(m, readable)
  PROVE  QuestionsInv'
<1> DEFINE mem == LoadMemory(readable)
           g == [Gone EXCEPT !.mem = mem, !.other = Unplaced(mem, ledger)]
<1>1. mem \in Memory /\ ledger \subseteq Bookings /\ month \in Nat
  BY EmptyMemoryType DEF LoadMemory, QuestionsInv, TypeOK
<1>2. Unplaced(mem, ledger) \subseteq Bookings
  BY <1>1 DEF Unplaced
<1>3. Set(m, g) /\ live' = m /\ UNCHANGED <<month, ledger, optIn, cfg, memFile, spent, overlapped>>
  BY DEF Setup
<1> HIDE DEF mem
<1>4. g \in Fields
  BY <1>1, <1>2, GoneType DEF Fields
<1>5. /\ g.phase = "idle" /\ g.held = Gone.held /\ g.today = 0 /\ g.todo = {} /\ g.tried = {}
      /\ g.due = {} /\ g.asked = {} /\ Gone.held.month = 0
  BY DEF Gone
<1> HIDE DEF g
<1>6. Sound(g, cfg')
  BY <1>5 DEF Sound
<1>7. /\ mgr' \in [Managers -> Fields] /\ \A n \in Managers : Sound(mgr'[n], cfg')
      /\ mgr'[m] = g /\ \A n \in Managers \ {m} : mgr'[n] = mgr[n]
  BY <1>3, <1>4, <1>6, SetKeepsSound DEF QuestionsInv
<1>8. TypeOK'
  BY <1>3, <1>7 DEF QuestionsInv, TypeOK
<1>9. g.held.month <= month
  BY <1>1, <1>5
<1>10. \A n \in Managers : \/ mgr'[n] = mgr[n]
                           \/ mgr'[n].phase = "idle" /\ mgr'[n].held.month <= month /\ mgr'[n].today = 0
  BY <1>5, <1>7, <1>9
<1>11. Counted'
  BY <1>1, <1>3, <1>10 DEF QuestionsInv, Counted
<1> QED
  BY <1>7, <1>8, <1>11 DEF QuestionsInv

LEMMA UnloadKeeps ==
  ASSUME QuestionsInv, Unload
  PROVE  QuestionsInv'
<1>1. live \in Managers /\ month \in Nat
  BY DEF Unload, QuestionsInv, TypeOK
<1>2. live' = NoManager /\ UNCHANGED <<month, ledger, optIn, cfg, memFile, spent, overlapped>>
  BY DEF Unload
<1>3. CASE mgr[live].phase = "idle"
  <2>1. Set(live, Gone)
    BY <1>3 DEF Unload
  <2>2. /\ mgr' \in [Managers -> Fields] /\ \A n \in Managers : Sound(mgr'[n], cfg')
        /\ mgr'[live] = Gone /\ \A n \in Managers \ {live} : mgr'[n] = mgr[n]
    BY <1>1, <1>2, <2>1, GoneType, SetKeepsSound DEF QuestionsInv
  <2>3. TypeOK'
    BY <1>2, <2>2 DEF QuestionsInv, TypeOK
  <2>4. Gone.phase = "idle" /\ Gone.held.month = 0 /\ Gone.today = 0
    BY DEF Gone
  <2>5. \A n \in Managers : \/ mgr'[n] = mgr[n]
                            \/ mgr'[n].phase = "idle" /\ mgr'[n].held.month <= month /\ mgr'[n].today = 0
    BY <1>1, <2>2, <2>4
  <2>6. Counted'
    BY <1>1, <1>2, <2>5 DEF QuestionsInv, Counted
  <2> QED
    BY <2>2, <2>3, <2>6 DEF QuestionsInv
<1>4. CASE mgr[live].phase # "idle"
  <2>1. UNCHANGED mgr
    BY <1>4 DEF Unload
  <2> QED
    BY <1>2, <2>1 DEF QuestionsInv, TypeOK, Counted
<1> QED
  BY <1>3, <1>4

LEMMA CrashKeeps ==
  ASSUME QuestionsInv, Crash
  PROVE  QuestionsInv'
<1>1. live' = NoManager /\ mgr' = [m \in Managers |-> Gone]
      /\ UNCHANGED <<month, ledger, optIn, cfg, memFile, spent, overlapped>> /\ month \in Nat
  BY DEF Crash, QuestionsInv, TypeOK
<1>2. TypeOK' /\ \A m \in Managers : Sound(mgr'[m], cfg')
  BY <1>1, GoneType DEF QuestionsInv, TypeOK
<1>3. \A m \in Managers : mgr'[m].phase = "idle" /\ mgr'[m].held.month <= month /\ mgr'[m].today = 0
  BY <1>1 DEF Gone
<1>4. Counted'
  BY <1>1, <1>3 DEF QuestionsInv, Counted
<1> QED
  BY <1>2, <1>4 DEF QuestionsInv

-----------------------------------------------------------------------------
(* The theorems *)

LEMMA InitHolds == Init => QuestionsInv
<1> SUFFICES ASSUME Init PROVE QuestionsInv
  OBVIOUS
<1>1. mgr = [m \in Managers |-> Gone] /\ memFile \in Memory
  BY EmptyMemoryType DEF Init
<1>2. cfg \in Config /\ cfg.month = 0 /\ cfg.calls = 0 /\ month = 0 /\ spent = 0
  BY DEF Init, Config
<1>3. TypeOK
  <2>1. /\ ledger \subseteq Bookings /\ optIn \in BOOLEAN /\ overlapped \in BOOLEAN
        /\ live \in Managers \cup {NoManager}
    BY DEF Init
  <2>2. mgr \in [Managers -> Fields]
    BY <1>1, GoneType
  <2> QED
    BY <1>1, <1>2, <2>1, <2>2 DEF TypeOK
<1>4. \A m \in Managers : Sound(mgr[m], cfg)
  BY <1>1, GoneType
<1>5. \A m \in Managers : mgr[m].phase = "idle" /\ mgr[m].held.month = 0 /\ mgr[m].today = 0
  BY <1>1 DEF Gone
<1>6. Counted
  BY <1>2, <1>5, QuestionsAssumption DEF Counted, Calls
<1> QED
  BY <1>3, <1>4, <1>6 DEF QuestionsInv

LEMMA NextKeeps == QuestionsInv /\ [Next]_vars => QuestionsInv'
<1> SUFFICES ASSUME QuestionsInv, [Next]_vars PROVE QuestionsInv'
  OBVIOUS
<1>1. CASE Schedule
  <2>1. live \in Managers
    BY <1>1 DEF Schedule, QuestionsInv, TypeOK
  <2> QED
    BY <1>1, <2>1, ScheduleKeeps
<1>2. ASSUME NEW m \in Managers, PassStep(m) PROVE QuestionsInv'
  BY <1>2, ReadOptInKeeps, SelectKeeps, PickKeeps, AskCacheKeeps, AskProviderKeeps,
     SendKeeps, AnsweredKeeps, LearnKeeps, FinishKeeps DEF PassStep
<1>3. CASE UserStep
  <2>1. ASSUME NEW value \in BOOLEAN, SetOptIn(value) PROVE QuestionsInv'
    <3>1. UNCHANGED <<month, ledger, cfg, live, mgr, memFile, spent, overlapped>>
          /\ optIn' \in BOOLEAN
      BY <2>1 DEF SetOptIn
    <3> QED
      BY <3>1 DEF QuestionsInv, TypeOK, Counted
  <2> QED
    BY <1>3, <2>1, AnswerMerchantKeeps, AnswerBookingsKeeps, SettingsKeep, TestKeeps DEF UserStep
<1>4. CASE WorldStep
  BY <1>4, ImportKeeps, NewMonthKeeps, SetupKeeps, UnloadKeeps, CrashKeeps DEF WorldStep
<1>5. CASE UNCHANGED vars
  BY <1>5 DEF vars, QuestionsInv, TypeOK, Counted
<1> QED
  BY <1>1, <1>2, <1>3, <1>4, <1>5 DEF Next

\* The inductive invariant holds in every state.
THEOREM Invariance == Spec => []QuestionsInv
BY InitHolds, NextKeeps, PTL DEF Spec

\* The state of the passes, the memories and the config file is well-typed.
THEOREM TypeCorrect == Spec => []TypeOK
<1>1. QuestionsInv => TypeOK
  BY DEF QuestionsInv
<1> QED
  BY <1>1, Invariance, PTL

\* In a month without an overlap every call is counted and the hard cap holds, for
\* any number of managers and merchants, any cap and any order of the steps.
THEOREM BudgetHolds == Spec => []BudgetKept
<1>1. QuestionsInv => BudgetKept
  BY DEF QuestionsInv, Counted, BudgetKept
<1> QED
  BY <1>1, Invariance, PTL

\* A merchant whose answer is cached throughout a pass is learned by it.
THEOREM NothingStranded == Spec => []CachedIsLearned
<1>1. QuestionsInv => CachedIsLearned
  BY DEF QuestionsInv, Sound, CachedIsLearned
<1> QED
  BY <1>1, Invariance, PTL

\* No manager sends a merchant twice.
THEOREM SentOnce == Spec => SentOncePerSession
<1>1. QuestionsInv /\ [Next]_vars =>
        [\A m \in Managers : Send(m) => mgr[m].merchant \notin mgr[m].asked]_vars
  BY DEF QuestionsInv, Sound, Send
<1> QED
  BY <1>1, Invariance, PTL DEF Spec, SentOncePerSession

-----------------------------------------------------------------------------
(* The rules of the user *)

\* What UserRuleStays says of one manager and one merchant.
RuleStays(m, x) ==
  /\ mgr'[m].mem.rule[x] = "user"
  /\ (memFile.rule[x] = "user" /\ \A n \in Managers \ {m} : mgr[n].phase = "idle")
       => memFile'.rule[x] = "user"

\* A pass writes a rule only where there is none, and saves only what it has.
LEMMA PassKeepsRule ==
  ASSUME QuestionsInv, NEW m \in Managers, NEW x \in Merchants, live = m,
         mgr[m].mem.rule[x] = "user", NEW n \in Managers, PassStep(n)
  PROVE  RuleStays(m, x)
<1>1. mgr[m] \in Fields /\ mgr[n] \in Fields /\ mgr[m].mem \in Memory /\ mgr \in [Managers -> Fields]
  BY ManagersAreSound DEF QuestionsInv, TypeOK
<1>2. ASSUME NEW f, Set(n, f), n = m => f.mem.rule[x] = "user"
      PROVE  mgr'[m].mem.rule[x] = "user"
  BY <1>1, <1>2 DEF Set
<1>3. ASSUME NEW f \in Fields, Over(n, f), n = m => f.mem.rule[x] = "user"
      PROVE  mgr'[m].mem.rule[x] = "user"
  <2> DEFINE g == [f EXCEPT !.phase = "idle", !.todo = {}, !.due = {},
                            !.merchant = NoMerchant, !.today = 0,
                            !.held = Gone.held, !.learned = FALSE]
  <2>1. g.mem = f.mem
    BY DEF Fields
  <2>2. CASE n = m
    <3>1. Set(n, g)
      BY <1>3, <2>2 DEF Over
    <3> HIDE DEF g
    <3> QED
      BY <1>2, <1>3, <2>1, <3>1
  <2>3. CASE n # m
    <3>1. Set(n, Gone)
      BY <1>3, <2>3 DEF Over
    <3> QED
      BY <1>2, <2>3, <3>1
  <2> QED
    BY <2>2, <2>3
<1>4. CASE ReadOptIn(n)
  <2>1. [mgr[n] EXCEPT !.phase = "select"].mem = mgr[n].mem
    BY <1>1 DEF Fields
  <2>2. memFile' = memFile
    BY <1>4 DEF ReadOptIn
  <2> QED
    BY <1>1, <1>2, <1>3, <1>4, <2>1, <2>2 DEF ReadOptIn, RuleStays
<1>5. CASE Select(n)
  <2> DEFINE due == {y \in Open(mgr[n]) \ mgr[n].tried : mgr[n].mem.rule[y] = "none"} \cap cfg.cache
             g == [mgr[n] EXCEPT !.phase = "next", !.todo = Candidates(mgr[n]), !.due = due]
  <2>1. g.mem = mgr[n].mem
    BY <1>1 DEF Fields
  <2>2. Set(n, g) \/ Over(n, mgr[n])
    BY <1>5 DEF Select
  <2>3. memFile' = memFile
    BY <1>5 DEF Select
  <2> HIDE DEF g
  <2> QED
    BY <1>1, <1>2, <1>3, <2>1, <2>2, <2>3 DEF RuleStays
<1>6. ASSUME NEW y \in Merchants, Pick(n, y) PROVE RuleStays(m, x)
  <2> DEFINE f == [mgr[n] EXCEPT !.todo = @ \ {y}]
             g == [f EXCEPT !.phase = "ask", !.tried = @ \cup {y}, !.merchant = y, !.today = month]
  <2>1. f.mem = mgr[n].mem /\ g.mem = mgr[n].mem
    BY <1>1 DEF Fields
  <2>2. Set(n, f) \/ Set(n, g)
    BY <1>6 DEF Pick
  <2>3. memFile' = memFile
    BY <1>6 DEF Pick
  <2> HIDE DEF f, g
  <2> QED
    BY <1>2, <2>1, <2>2, <2>3 DEF RuleStays
<1>7. CASE AskCache(n)
  <2> DEFINE f == [mgr[n] EXCEPT !.phase = "learn"]
             g == [mgr[n] EXCEPT !.phase = "next", !.merchant = NoMerchant]
  <2>1. f.mem = mgr[n].mem /\ g.mem = mgr[n].mem
    BY <1>1 DEF Fields
  <2>2. Set(n, f) \/ Set(n, g)
    BY <1>7 DEF AskCache, NoAnswer
  <2>3. memFile' = memFile
    BY <1>7 DEF AskCache
  <2> HIDE DEF f, g
  <2> QED
    BY <1>2, <2>1, <2>2, <2>3 DEF RuleStays
<1>8. CASE AskProvider(n)
  <2> DEFINE f == [mgr[n] EXCEPT !.phase = "send", !.held = cfg']
  <2>1. f.mem = mgr[n].mem
    BY <1>1 DEF Fields
  <2>2. Set(n, f) /\ memFile' = memFile
    BY <1>8 DEF AskProvider
  <2> HIDE DEF f
  <2> QED
    BY <1>2, <2>1, <2>2 DEF RuleStays
<1>9. CASE Send(n)
  <2> DEFINE f == [mgr[n] EXCEPT !.phase = "wait", !.asked = @ \cup {mgr[n].merchant}]
  <2>1. f.mem = mgr[n].mem
    BY <1>1 DEF Fields
  <2>2. Set(n, f) /\ memFile' = memFile
    BY <1>9 DEF Send
  <2> HIDE DEF f
  <2> QED
    BY <1>2, <2>1, <2>2 DEF RuleStays
<1>10. ASSUME NEW category \in BOOLEAN, Answered(n, category) PROVE RuleStays(m, x)
  <2> DEFINE learning == [mgr[n] EXCEPT !.phase = "learn", !.held = Gone.held]
             going == [mgr[n] EXCEPT !.phase = "next", !.merchant = NoMerchant, !.held = Gone.held]
             other == [mgr[m] EXCEPT !.due = @ \cap cfg'.cache]
  <2>1. learning.mem = mgr[n].mem /\ going.mem = mgr[n].mem /\ other.mem = mgr[m].mem
    BY <1>1 DEF Fields
  <2>2. /\ mgr'[m] = IF m # n THEN other ELSE IF category THEN learning ELSE going
        /\ memFile' = memFile
    BY <1>10 DEF Answered
  <2> HIDE DEF learning, going, other
  <2> QED
    BY <2>1, <2>2 DEF RuleStays
<1>11. CASE Learn(n)
  <2> DEFINE mem == LearnAi(mgr[n].mem, mgr[n].merchant)
             g == [mgr[n] EXCEPT !.phase = "next", !.merchant = NoMerchant, !.mem = mem,
                     !.learned = @ \/ mgr[n].mem.rule[mgr[n].merchant] = "none"]
  <2>1. mgr[n].merchant \in Merchants /\ mgr[n].mem \in Memory
    BY <1>11, ManagersAreSound DEF Learn, Sound
  <2>2. n = m => mem.rule[x] = "user"
    BY <2>1, LearnAiType
  <2> HIDE DEF mem
  <2>3. g.mem = mem
    BY <1>1 DEF Fields
  <2>4. Set(n, g) /\ memFile' = memFile
    BY <1>11 DEF Learn, mem
  <2> HIDE DEF g
  <2> QED
    BY <1>2, <2>2, <2>3, <2>4 DEF RuleStays
<1>12. CASE Finish(n)
  <2> DEFINE g == IF mgr[n].learned THEN [mgr[n] EXCEPT !.other = Unplaced(mgr[n].mem, ledger)]
                  ELSE mgr[n]
  <2>1. Unplaced(mgr[n].mem, ledger) \subseteq Bookings
    BY DEF Unplaced, QuestionsInv, TypeOK
  <2>2. g \in Fields /\ g.mem = mgr[n].mem
    BY <1>1, <2>1 DEF Fields
  <2>3. Over(n, g) /\ (memFile' = memFile \/ memFile' = mgr[n].mem) /\ mgr[n].phase # "idle"
    BY <1>12 DEF Finish
  <2> HIDE DEF g
  <2>4. mgr'[m].mem.rule[x] = "user"
    BY <1>3, <2>2, <2>3
  <2> QED
    BY <2>3, <2>4 DEF RuleStays
<1> QED
  BY <1>4, <1>5, <1>6, <1>7, <1>8, <1>9, <1>10, <1>11, <1>12 DEF PassStep

\* An answer of the user is saved with what the manager has.
LEMMA UserKeepsRule ==
  ASSUME QuestionsInv, NEW m \in Managers, NEW x \in Merchants, live = m,
         mgr[m].mem.rule[x] = "user", UserStep
  PROVE  RuleStays(m, x)
<1>1. mgr[m] \in Fields /\ mgr[m].mem \in Memory /\ mgr \in [Managers -> Fields]
  BY ManagersAreSound DEF QuestionsInv, TypeOK
<1>2. ASSUME NEW mem \in Memory, mem.rule[x] = "user", memFile' = mem,
             Set(m, [mgr[m] EXCEPT !.mem = mem, !.other = Unplaced(mem, ledger)])
      PROVE  RuleStays(m, x)
  <2> DEFINE g == [mgr[m] EXCEPT !.mem = mem, !.other = Unplaced(mem, ledger)]
  <2>1. g.mem = mem
    BY <1>1 DEF Fields
  <2>2. mgr'[m] = g
    BY <1>1, <1>2 DEF Set
  <2> HIDE DEF g
  <2> QED
    BY <1>2, <2>1, <2>2 DEF RuleStays
<1>3. ASSUME NEW y \in Merchants, AnswerMerchant(y) PROVE RuleStays(m, x)
  <2> DEFINE mem == LearnMerchant(mgr[m].mem, y, "user")
  <2>1. mem \in Memory /\ mem.rule = [mgr[m].mem.rule EXCEPT ![y] = "user"]
    BY <1>1, LearnMerchantType DEF Sources
  <2>2. mem.rule[x] = "user"
    BY <1>1, <2>1 DEF Memory
  <2>3. memFile' = mem /\ Set(m, [mgr[m] EXCEPT !.mem = mem, !.other = Unplaced(mem, ledger)])
    BY <1>3 DEF AnswerMerchant
  <2> HIDE DEF mem
  <2> QED
    BY <1>2, <2>1, <2>2, <2>3
<1>4. ASSUME NEW y \in Merchants, AnswerBookings(y) PROVE RuleStays(m, x)
  <2> DEFINE lids == {b \in mgr[m].other : MerchantOf[b] = y}
             mem == LearnBookings(mgr[m].mem, lids)
  <2>1. lids \subseteq Bookings
    BY <1>1 DEF Fields
  <2>2. mem \in Memory /\ mem.rule = mgr[m].mem.rule
    BY <1>1, <2>1, LearnBookingsType
  <2>3. memFile' = mem /\ Set(m, [mgr[m] EXCEPT !.mem = mem, !.other = Unplaced(mem, ledger)])
    BY <1>4 DEF AnswerBookings
  <2> HIDE DEF mem
  <2> QED
    BY <1>2, <2>2, <2>3
<1>5. ASSUME mgr' = mgr, memFile' = memFile PROVE RuleStays(m, x)
  BY <1>5 DEF RuleStays
<1> QED
  BY <1>3, <1>4, <1>5 DEF UserStep, SetOptIn, ChangeSettings, Test

\* No late answer of the AI replaces a rule the user gave, in any interleaving.
THEOREM UserRules == Spec => UserRuleStays
<1>1. ASSUME QuestionsInv, [Next]_vars
      PROVE  [\A m \in Managers, x \in Merchants :
                live = m /\ live' = m /\ mgr[m].mem.rule[x] = "user" => RuleStays(m, x)]_vars
  <2> SUFFICES ASSUME Next, NEW m \in Managers, NEW x \in Merchants,
                      live = m, live' = m, mgr[m].mem.rule[x] = "user"
               PROVE  RuleStays(m, x)
    BY <1>1
  <2>1. mgr[m] \in Fields /\ mgr \in [Managers -> Fields] /\ m # NoManager
    BY <1>1, ManagersAreSound, QuestionsAssumption DEF QuestionsInv, TypeOK
  <2>2. CASE Schedule
    <3>1. [mgr[m] EXCEPT !.phase = "opt_in"].mem = mgr[m].mem
      BY <2>1 DEF Fields
    <3> QED
      BY <2>1, <2>2, <3>1 DEF Schedule, Set, RuleStays
  <2>3. CASE WorldStep
    <3>1. ASSUME NEW b \in Bookings, Import(b) PROVE RuleStays(m, x)
      <4>1. [mgr[m] EXCEPT !.other = Unplaced(mgr[m].mem, ledger')].mem = mgr[m].mem
        BY <2>1 DEF Fields
      <4> QED
        BY <2>1, <3>1, <4>1 DEF Import, Set, RuleStays
    <3>2. CASE NewMonth
      BY <3>2 DEF NewMonth, RuleStays
    <3> QED
      BY <2>1, <2>3, <3>1, <3>2 DEF WorldStep, Setup, Unload, Crash
  <2> QED
    BY <1>1, <2>2, <2>3, PassKeepsRule, UserKeepsRule DEF Next
<1> QED
  BY <1>1, Invariance, PTL DEF Spec, UserRuleStays, RuleStays

=============================================================================
