--------------------------- MODULE BankLinks_proofs ---------------------------
(* The credential store keeps its promise, for any number of banks, flows,   *)
(* sessions and subentries.                                                   *)
EXTENDS BankLinks, TLAPS

Phases == {"down", "migrate", "migrating", "prune", "pruning", "check",
           "checking", "platforms", "ready"}

\* A flow that has the id of a subentry it has not added yet.
Claiming(f) == flows[f].step \in {"new", "add"}

Given == 1 .. lastId
Fresh == Given \ (Linked \cup known.memory \cup known.saved \cup mgr.prune \cup mgr.current)

\* What a flow has picked up on its way; the id of a new bank is nobody else's.
FlowsOK ==
  /\ \A f \in Flows :
       /\ flows[f].step # "idle" => flows[f].bank \in Banks
       /\ flows[f].step \in {"new", "renew", "add", "update"} =>
            flows[f].session \in Sessions /\ flows[f].id \in Ids
       /\ Claiming(f) => flows[f].id \in Fresh
  /\ \A f, g \in Flows : f # g /\ Claiming(f) /\ Claiming(g) => flows[f].id # flows[g].id

\* Setup prunes only what is linked no more, and migrates one bank.
SetupOK ==
  /\ Linked \cup known.memory \cup known.saved \cup mgr.prune \cup mgr.current \subseteq Given
  /\ mgr.prune \cap (Linked \cup mgr.current) = {}
  /\ mgr.phase # "pruning" => mgr.prune = {}
  /\ mgr.phase = "migrating" => tokens.legacy # 0 /\ \E id \in Ids : mgr.current = {id}

\* An id that is linked no more and will not be linked again.
Over(id) ==
  /\ id \in Given \ (Linked \cup mgr.current)
  /\ \A f \in Flows : Claiming(f) => flows[f].id # id

\* An open operation changes one session at most, and takes one away only from an
\* id that is over.
IoOK ==
  \A a \in Actors : Busy(a) =>
    /\ io[a].new.legacy = tokens.legacy
    /\ \/ io[a].new.sessions = io[a].base.sessions
       \/ \E id \in Ids, s \in Sessions \cup {0} :
            io[a].new.sessions = [io[a].base.sessions EXCEPT ![id] = s]
    /\ \A id \in Ids : io[a].new.sessions[id] = 0 /\ io[a].base.sessions[id] # 0 => Over(id)

\* The session of id is in the file, or about to be by an operation of a.
Secured(a, id) ==
  IF Busy(a) THEN io[a].new.sessions[id] # 0 ELSE overlapped \/ tokens.sessions[id] # 0

\* Whoever is about to link a bank has stored its session.
StoredFirst ==
  /\ \A f \in Flows : flows[f].step = "add" => Secured(f, flows[f].id)
  /\ mgr.phase = "migrating" => \A id \in mgr.current : Secured("setup", id)

Safe == FlowsOK /\ SetupOK /\ IoOK /\ StoredFirst
IInv == TypeOK /\ Safe

-----------------------------------------------------------------------------
LEMMA ActorsAreDistinct ==
  /\ Flows \subseteq Actors /\ "setup" \in Actors /\ "settings" \in Actors
  /\ "setup" \notin Flows /\ "settings" \notin Flows
BY BankLinksAssumption DEF Actors

LEMMA Marks == NoMarks \in [Ids -> 0 .. MaxSession] /\ NoMarks \in [Ids -> Sessions \cup {0}]
BY BankLinksAssumption DEF NoMarks, Sessions

LEMMA NothingIsTyped ==
  /\ NoTokens \in Tokens
  /\ NoIo \in [on : BOOLEAN, base : Tokens, new : Tokens]
  /\ NoFlow \in [step : {"idle", "authorize", "new", "renew", "add", "update"},
                 bank : Banks \cup {NoBank}, id : 0 .. MaxId,
                 session : 0 .. MaxSession, end : 0 .. MaxNow + Lifetime]
  /\ Down \in [phase : Phases,
               prune : SUBSET Ids, current : SUBSET Ids, marks : [Ids -> 0 .. MaxSession]]
  /\ NoRound \in [step : {"off", "fetch", "check"}, marks : [Ids -> 0 .. MaxSession],
                  own : BOOLEAN]
  /\ NoDaily \in [on : BOOLEAN, own : BOOLEAN, beside : BOOLEAN,
                  marks : [Ids -> 0 .. MaxSession]]
  /\ NoReads \in [left : SUBSET Ids, until : [Ids -> 0 .. MaxSession]]
<1>1. NoTokens \in Tokens
  BY DEF NoTokens, Tokens
<1>2. 0 \in 0 .. MaxId /\ 0 \in 0 .. MaxSession /\ 0 \in 0 .. MaxNow + Lifetime
  BY BankLinksAssumption
<1> QED
  BY <1>1, <1>2, Marks DEF NoIo, NoFlow, Down, NoRound, NoDaily, NoReads, Phases

LEMMA WithSessionTyped ==
  ASSUME TypeOK, NEW id \in Ids, NEW s \in Sessions \cup {0}
  PROVE  /\ WithSession(id, s) \in Tokens
         /\ WithSession(id, s).legacy = tokens.legacy
         /\ WithSession(id, s).sessions = [tokens.sessions EXCEPT ![id] = s]
BY DEF TypeOK, Tokens, WithSession

LEMMA OpenTyped ==
  ASSUME TypeOK, NEW a \in Actors, NEW new \in Tokens, Open(a, new)
  PROVE  io' \in [Actors -> [on : BOOLEAN, base : Tokens, new : Tokens]]
BY DEF TypeOK, Open

LEMMA LinkedIsBank == ASSUME TypeOK, NEW id \in Linked
                      PROVE  id \in Ids /\ subs[id].bank \in Banks
BY DEF TypeOK, Linked

LEMMA ConsentTyped == ASSUME TypeOK, NEW id \in Ids
                      PROVE  Consent(id) \in 0 .. MaxSession
<1>1. tokens.sessions[id] \in 0 .. MaxSession
  BY BankLinksAssumption DEF TypeOK, Tokens, Sessions
<1> QED
  BY <1>1 DEF TypeOK, Consent

LEMMA IssuesTyped ==
  ASSUME TypeOK, NEW until, NEW marks
  PROVE  IssuesWith(until, marks) \in [Ids -> {"none", "expiring", "expired"}]
BY DEF TypeOK, IssuesWith, ConsentState

LEMMA WatchTyped ==
  ASSUME TypeOK, Watch
  PROVE  changed' \in [Callers -> SUBSET Ids]
<1>1. \A c \in Callers : changed[c] \subseteq Ids
  BY DEF TypeOK
<1> QED
  BY <1>1 DEF Watch

LEMMA ListTyped ==
  ASSUME TypeOK, NEW c \in Callers, ListBanks(c)
  PROVE  reads' \in [Callers -> [left : SUBSET Ids, until : [Ids -> 0 .. MaxSession]]]
<1>1. [left |-> Linked, until |-> NoMarks] \in [left : SUBSET Ids, until : [Ids -> 0 .. MaxSession]]
  BY Marks DEF Linked
<1> QED
  BY <1>1 DEF ListBanks, TypeOK

LEMMA RaiseTyped ==
  ASSUME TypeOK, NEW c \in Callers, NEW marks, RaiseIssues(c, marks)
  PROVE  /\ reads' \in [Callers -> [left : SUBSET Ids, until : [Ids -> 0 .. MaxSession]]]
         /\ changed' \in [Callers -> SUBSET Ids]
         /\ issues' \in [Ids -> {"none", "expiring", "expired"}]
<1>1. issues' \in [Ids -> {"none", "expiring", "expired"}]
  BY IssuesTyped DEF RaiseIssues
<1> QED
  BY <1>1, NothingIsTyped DEF RaiseIssues, TypeOK

LEMMA ReadTyped ==
  ASSUME TypeOK, NEW c \in Callers, NEW id \in Ids, ReadConsent(c, id)
  PROVE  TypeOK'
<1> DEFINE Reads == [left : SUBSET Ids, until : [Ids -> 0 .. MaxSession]]
           read == [left |-> reads[c].left \ {id},
                    until |-> [reads[c].until EXCEPT ![id] = Consent(id)]]
<1>1. reads \in [Callers -> Reads]
  BY DEF TypeOK
<1>2. read \in Reads
  <2>1. reads[c].left \in SUBSET Ids /\ reads[c].until \in [Ids -> 0 .. MaxSession]
    BY <1>1
  <2>2. [reads[c].until EXCEPT ![id] = Consent(id)] \in [Ids -> 0 .. MaxSession]
    BY <2>1, ConsentTyped
  <2> QED
    BY <2>1, <2>2
<1>3. reads' = [reads EXCEPT ![c] = read]
  BY DEF ReadConsent
<1>4. reads' \in [Callers -> Reads]
  <2> HIDE DEF read, Reads
  <2> QED
    BY <1>1, <1>2, <1>3
<1> QED
  BY <1>4 DEF ReadConsent, TypeOK, entryVars, bankVars, fileVars

-----------------------------------------------------------------------------
(* Types *)

LEMMA InitTyped == Init => TypeOK
<1> SUFFICES ASSUME Init PROVE TypeOK
  OBVIOUS
<1>1. lastSession \in 0 .. MaxSession /\ (lastSession = 0 \/ lastSession \in Sessions)
  BY BankLinksAssumption DEF Init, Sessions
<1>2. tokens \in Tokens
  BY <1>1 DEF Init, Tokens
<1>3. ends \in [Sessions -> 0 .. MaxNow + Lifetime]
  BY BankLinksAssumption DEF Init
<1>4. issues \in [Ids -> {"none", "expiring", "expired"}] /\ subs \in [Ids -> {NoSub}]
  BY DEF Init
<1>5. /\ io \in [Actors -> [on : BOOLEAN, base : Tokens, new : Tokens]]
      /\ flows \in [Flows -> [step : {"idle", "authorize", "new", "renew", "add", "update"},
                              bank : Banks \cup {NoBank}, id : 0 .. MaxId,
                              session : 0 .. MaxSession, end : 0 .. MaxNow + Lifetime]]
  BY NothingIsTyped DEF Init
<1>7. records \subseteq Banks
  BY DEF Init
<1>8. lastId = 0 /\ now = 0 /\ 0 \in 0 .. MaxId /\ 0 \in 0 .. MaxNow
  BY BankLinksAssumption DEF Init
<1>9. refused \subseteq Sessions
  BY <1>1, BankLinksAssumption DEF Init, Sessions
<1>6. lastId \in 0 .. MaxId /\ now \in 0 .. MaxNow
      /\ known \in [memory : SUBSET Ids, saved : SUBSET Ids]
      /\ reload \in BOOLEAN /\ overlapped \in BOOLEAN
      /\ mgr = Down /\ round = NoRound /\ daily = NoDaily
      /\ reads = [c \in Callers |-> NoReads] /\ changed = [c \in Callers |-> {}]
  BY <1>8 DEF Init
<1>10. subs \in [Ids -> [bank : Banks \cup {NoBank}, until : 0 .. MaxSession, unique : BOOLEAN]]
  <2>1. NoSub \in [bank : Banks \cup {NoBank}, until : 0 .. MaxSession, unique : BOOLEAN]
    BY BankLinksAssumption DEF NoSub
  <2> QED
    BY <1>4, <2>1
<1> QED
  BY <1>1, <1>2, <1>3, <1>4, <1>5, <1>6, <1>7, <1>9, <1>10, NothingIsTyped DEF TypeOK, Phases

LEMMA FlowTyped ==
  ASSUME TypeOK, FlowsOK, NEW f \in Flows, FlowStep(f)
  PROVE  TypeOK'
<1> USE DEF TypeOK, checkVars, roundVars
<1> DEFINE Held == [step : {"idle", "authorize", "new", "renew", "add", "update"},
                    bank : Banks \cup {NoBank}, id : 0 .. MaxId,
                    session : 0 .. MaxSession, end : 0 .. MaxNow + Lifetime]
<1>1. ASSUME NEW b \in Banks, PickBank(f, b) PROVE TypeOK'
  <2>1. now + Lifetime \in 0 .. MaxNow + Lifetime
    BY BankLinksAssumption
  <2>2. [NoFlow EXCEPT !.step = "authorize", !.bank = b, !.end = now + Lifetime] \in Held
    BY <2>1, NothingIsTyped DEF NoFlow
  <2>3. flows' \in [Flows -> Held]
    BY <1>1, <2>2 DEF PickBank
  <2> QED
    BY <1>1, <2>3 DEF PickBank, entryVars, bankVars, fileVars
<1>2. ASSUME NEW id \in Ids, Reconfigure(f, id) PROVE TypeOK'
  <2>1. now + Lifetime \in 0 .. MaxNow + Lifetime /\ id \in 0 .. MaxId
    BY BankLinksAssumption DEF Ids
  <2>2. subs[id].bank \in Banks
    BY <1>2, LinkedIsBank DEF Reconfigure
  <2>3. [NoFlow EXCEPT !.step = "authorize", !.bank = subs[id].bank, !.id = id,
                       !.end = now + Lifetime] \in Held
    BY <2>1, <2>2, NothingIsTyped DEF NoFlow
  <2>4. flows' \in [Flows -> Held]
    BY <1>2, <2>3 DEF Reconfigure
  <2> QED
    BY <1>2, <2>4 DEF Reconfigure, entryVars, bankVars, fileVars
<1>3. CASE GiveUp(f)
  BY <1>3, NothingIsTyped DEF GiveUp, entryVars, bankVars, fileVars
<1>4. CASE StoreRecords(f)
  <2>1. lastSession + 1 \in Sessions /\ lastSession + 1 \in 0 .. MaxSession
    BY <1>4 DEF StoreRecords, Sessions
  <2>2. flows[f].id = 0 => lastId + 1 \in 0 .. MaxId
    BY <1>4 DEF StoreRecords, Ids
  <2>3. flows[f].bank \in Banks
    BY <1>4 DEF FlowsOK, StoreRecords
  <2>4. ends' \in [Sessions -> 0 .. MaxNow + Lifetime] /\ lastId' \in 0 .. MaxId
        /\ lastSession' \in 0 .. MaxSession /\ records' \subseteq Banks
    BY <1>4, <2>1, <2>2, <2>3 DEF StoreRecords
  <2>5. flows' \in [Flows -> Held]
    <3> DEFINE id == IF flows[f].id = 0 THEN lastId + 1 ELSE flows[f].id
               step == IF flows[f].id = 0 THEN "new" ELSE "renew"
               g == [flows[f] EXCEPT !.step = step, !.session = lastSession + 1, !.id = id]
    <3>1. id \in 0 .. MaxId
      BY <2>2
    <3>2. step \in {"idle", "authorize", "new", "renew", "add", "update"}
      OBVIOUS
    <3>5. g \in Held
      <4>1. flows[f] \in Held
        OBVIOUS
      <4> DEFINE s == lastSession + 1
      <4>2. s \in 0 .. MaxSession
        BY <2>1
      <4> HIDE DEF TypeOK, id, step, s
      <4>3. [flows[f] EXCEPT !.step = step, !.session = s, !.id = id] \in Held
        BY <3>1, <3>2, <4>1, <4>2
      <4> QED
        BY <4>3 DEF s
    <3>3. flows' = [flows EXCEPT ![f] = g]
      BY <1>4 DEF StoreRecords
    <3> HIDE DEF g
    <3> QED
      BY <3>5, <3>3
  <2>6. reload' \in BOOLEAN
    BY <1>4 DEF StoreRecords, Notify
  <2> QED
    BY <1>4, <2>4, <2>5, <2>6 DEF StoreRecords, fileVars
<1>5. CASE StoreSession(f)
  <2>1. flows[f].id \in Ids /\ flows[f].session \in Sessions
    BY <1>5 DEF FlowsOK, StoreSession
  <2>2. io' \in [Actors -> [on : BOOLEAN, base : Tokens, new : Tokens]]
    BY <1>5, <2>1, WithSessionTyped, OpenTyped, ActorsAreDistinct DEF StoreSession
  <2>3. flows' \in [Flows -> Held]
    <3> DEFINE step == IF flows[f].step = "new" THEN "add" ELSE "update"
    <3>1. flows' = [flows EXCEPT ![f] = [flows[f] EXCEPT !.step = step]]
      BY <1>5 DEF StoreSession
    <3>2. step \in {"idle", "authorize", "new", "renew", "add", "update"}
      OBVIOUS
    <3>4. flows[f] \in Held
      OBVIOUS
    <3>3. [flows[f] EXCEPT !.step = step] \in Held
      <4> HIDE DEF TypeOK, step
      <4> QED
        BY <3>2, <3>4
    <3> HIDE DEF step
    <3> QED
      BY <3>1, <3>3
  <2> QED
    BY <1>5, <2>2, <2>3 DEF StoreSession, entryVars, bankVars
<1>6. CASE AddSubentry(f)
  <2>1. NewSub(f, TRUE) \in [bank : Banks \cup {NoBank}, until : 0 .. MaxSession, unique : BOOLEAN]
    BY DEF NewSub
  <2>2. subs' \in [Ids -> [bank : Banks \cup {NoBank}, until : 0 .. MaxSession, unique : BOOLEAN]]
    BY <1>6, <2>1 DEF AddSubentry
  <2>3. changed' \in [Callers -> SUBSET Ids]
    BY <1>6, WatchTyped DEF AddSubentry
  <2> QED
    BY <1>6, <2>2, <2>3, NothingIsTyped DEF AddSubentry, Notify, bankVars, fileVars
<1>7. CASE AddRefused(f)
  <2>1. flows[f].id \in Ids
    BY <1>7 DEF FlowsOK, AddRefused
  <2>2. io' \in [Actors -> [on : BOOLEAN, base : Tokens, new : Tokens]]
    BY <1>7, <2>1, WithSessionTyped, OpenTyped, ActorsAreDistinct DEF AddRefused
  <2> QED
    BY <1>7, <2>2, NothingIsTyped DEF AddRefused, entryVars, bankVars
<1>8. CASE UpdateSubentry(f)
  <2>1. flows[f].id \in Linked =>
           NewSub(f, subs[flows[f].id].unique)
             \in [bank : Banks \cup {NoBank}, until : 0 .. MaxSession, unique : BOOLEAN]
    BY DEF Linked, NewSub
  <2>2. subs' \in [Ids -> [bank : Banks \cup {NoBank}, until : 0 .. MaxSession, unique : BOOLEAN]]
    BY <1>8, <2>1 DEF UpdateSubentry
  <2>3. changed' \in [Callers -> SUBSET Ids]
    BY <1>8, WatchTyped DEF UpdateSubentry
  <2> QED
    BY <1>8, <2>2, <2>3, NothingIsTyped DEF UpdateSubentry, Notify, bankVars, fileVars
<1> QED
  BY <1>1, <1>2, <1>3, <1>4, <1>5, <1>6, <1>7, <1>8 DEF FlowStep

LEMMA SetupTyped ==
  ASSUME TypeOK, SetupOK, SetupStep
  PROVE  TypeOK'
<1> USE DEF TypeOK, checkVars, roundVars, Phases
<1> DEFINE Managers ==
      [phase : Phases,
       prune : SUBSET Ids, current : SUBSET Ids, marks : [Ids -> 0 .. MaxSession]]
<1>1. CASE Boot
  <2>1. mgr' \in Managers
    BY <1>1, NothingIsTyped DEF Boot
  <2> QED
    BY <1>1, <2>1 DEF Boot, entryVars, bankVars, fileVars
<1>2. CASE Migrate
  <2>1. tokens.legacy \in Sessions
    BY <1>2 DEF Migrate, Tokens
  <2>2. io' \in [Actors -> [on : BOOLEAN, base : Tokens, new : Tokens]]
    BY <1>2, <2>1, WithSessionTyped, OpenTyped, ActorsAreDistinct DEF Migrate
  <2>3. lastId + 1 \in Ids /\ lastId' \in 0 .. MaxId
    BY <1>2 DEF Migrate, Ids
  <2>4. mgr' \in Managers
    BY <1>2, <2>3 DEF Migrate
  <2> QED
    BY <1>2, <2>2, <2>3, <2>4 DEF Migrate, bankVars
<1>3. CASE NothingToMigrate \/ PruneStart
  <2>1. CASE NothingToMigrate
    <3>1. mgr' \in Managers
      BY <2>1 DEF NothingToMigrate
    <3> QED
      BY <2>1, <3>1 DEF NothingToMigrate, entryVars, bankVars, fileVars
  <2>2. CASE PruneStart
    <3>1. Linked \in SUBSET Ids /\ known.memory \ Linked \in SUBSET Ids
      BY DEF Linked
    <3>2. mgr' \in Managers
      BY <2>2, <3>1 DEF PruneStart
    <3> QED
      BY <2>2, <3>2 DEF PruneStart, entryVars, bankVars, fileVars
  <2> QED
    BY <1>3, <2>1, <2>2
<1>4. CASE FinishSetup
  <2>1. mgr' \in Managers
    BY <1>4 DEF FinishSetup
  <2> QED
    BY <1>4, <2>1 DEF FinishSetup, entryVars, bankVars, fileVars
<1>9. CASE StartSetupCheck
  <2>1. mgr' \in Managers
    BY <1>9 DEF StartSetupCheck
  <2>2. reads' \in [Callers -> [left : SUBSET Ids, until : [Ids -> 0 .. MaxSession]]]
    BY <1>9, ListTyped DEF StartSetupCheck, Callers
  <2> QED
    BY <1>9, <2>1, <2>2 DEF StartSetupCheck, entryVars, bankVars, fileVars
<1>10. CASE EndSetupCheck
  <2>1. mgr' \in Managers
    BY <1>10 DEF EndSetupCheck
  <2>2. /\ reads' \in [Callers -> [left : SUBSET Ids, until : [Ids -> 0 .. MaxSession]]]
        /\ changed' \in [Callers -> SUBSET Ids]
        /\ issues' \in [Ids -> {"none", "expiring", "expired"}]
    BY <1>10, RaiseTyped DEF EndSetupCheck, Callers
  <2> QED
    BY <1>10, <2>1, <2>2 DEF EndSetupCheck, entryVars, bankVars, fileVars
<1>11. ASSUME NEW id \in Ids, ReadConsent("setup", id) PROVE TypeOK'
  BY <1>11, ReadTyped DEF Callers
<1>5. ASSUME NEW b \in Banks, AddMigrated(b) PROVE TypeOK'
  <2> DEFINE sub == [bank |-> b, until |-> tokens.legacy, unique |-> FALSE]
  <2>1. tokens.legacy \in 0 .. MaxSession
    BY BankLinksAssumption DEF Tokens, Sessions
  <2>5. sub \in [bank : Banks \cup {NoBank}, until : 0 .. MaxSession, unique : BOOLEAN]
    BY <2>1
  <2>6. subs' = [id \in Ids |-> IF id \in mgr.current THEN sub ELSE subs[id]]
    BY <1>5 DEF AddMigrated
  <2>2. subs' \in [Ids -> [bank : Banks \cup {NoBank}, until : 0 .. MaxSession, unique : BOOLEAN]]
    <3> HIDE DEF sub
    <3> QED
      BY <2>5, <2>6
  <2>4. changed' \in [Callers -> SUBSET Ids]
    BY <1>5, WatchTyped DEF AddMigrated
  <2>3. mgr' \in Managers
    BY <1>5 DEF AddMigrated
  <2> QED
    BY <1>5, <2>2, <2>3, <2>4 DEF AddMigrated, bankVars, fileVars
<1>6. ASSUME NEW id \in Ids, PruneOne(id) PROVE TypeOK'
  <2>1. io' \in [Actors -> [on : BOOLEAN, base : Tokens, new : Tokens]]
    BY <1>6, WithSessionTyped, OpenTyped, ActorsAreDistinct DEF PruneOne
  <2>2. mgr' \in Managers
    <3>1. [mgr.marks EXCEPT ![id] = 0] \in [Ids -> 0 .. MaxSession]
      BY BankLinksAssumption
    <3>2. mgr' = [mgr EXCEPT !.prune = @ \ {id}, !.marks = [mgr.marks EXCEPT ![id] = 0]]
      BY <1>6 DEF PruneOne
    <3> QED
      BY <3>1, <3>2
  <2> QED
    BY <1>6, <2>1, <2>2 DEF PruneOne, entryVars, bankVars
<1>7. ASSUME NEW written \in BOOLEAN, PruneEnd(written) PROVE TypeOK'
  <2>1. mgr' \in Managers /\ known' \in [memory : SUBSET Ids, saved : SUBSET Ids]
    BY <1>7 DEF PruneEnd
  <2> QED
    BY <1>7, <2>1 DEF PruneEnd, entryVars, bankVars, fileVars
<1>8. ASSUME NEW written \in BOOLEAN, Reload(written) PROVE TypeOK'
  <2>1. mgr' \in Managers /\ known' \in [memory : SUBSET Ids, saved : SUBSET Ids]
    BY <1>8, NothingIsTyped DEF Reload
  <2>2. daily' \in [on : BOOLEAN, own : BOOLEAN, beside : BOOLEAN,
                    marks : [Ids -> 0 .. MaxSession]]
    <3>1. mgr.marks \in [Ids -> 0 .. MaxSession] /\ round.own \in BOOLEAN
      OBVIOUS
    <3> QED
      BY <1>8, <3>1 DEF Reload
  <2> QED
    BY <1>8, <2>1, <2>2 DEF Reload, entryVars, bankVars, fileVars
<1> QED
  BY <1>1, <1>2, <1>3, <1>4, <1>5, <1>6, <1>7, <1>8, <1>9, <1>10, <1>11 DEF SetupStep

LEMMA RoundTyped ==
  ASSUME TypeOK, RoundStep \/ DailyStep
  PROVE  TypeOK'
<1> USE DEF TypeOK
<1> DEFINE Managers ==
      [phase : Phases, prune : SUBSET Ids, current : SUBSET Ids, marks : [Ids -> 0 .. MaxSession]]
           Reads == [left : SUBSET Ids, until : [Ids -> 0 .. MaxSession]]
<1>1. CASE StartRound
  <2>1. [id \in Ids |-> IF id \in Linked THEN Consent(id) ELSE 0] \in [Ids -> 0 .. MaxSession]
    <3>1. (\A id \in Ids : Consent(id) \in 0 .. MaxSession) /\ 0 \in 0 .. MaxSession
      BY ConsentTyped, BankLinksAssumption
    <3> HIDE DEF TypeOK
    <3> QED
      BY <3>1
  <2> DEFINE read == [left |-> {}, until |-> [id \in Ids |-> IF id \in Linked THEN Consent(id) ELSE 0]]
  <2>2. read \in Reads
    BY <2>1
  <2>3. reads' = [reads EXCEPT !["round"] = read]
    BY <1>1 DEF StartRound
  <2>4. reads' \in [Callers -> Reads]
    <3> HIDE DEF read
    <3> QED
      BY <2>2, <2>3 DEF Callers
  <2>5. round' \in [step : {"off", "fetch", "check"}, marks : [Ids -> 0 .. MaxSession],
                    own : BOOLEAN]
    BY <1>1 DEF StartRound
  <2> QED
    BY <1>1, <2>4, <2>5 DEF StartRound, entryVars, bankVars, fileVars, Phases
<1>2. ASSUME NEW id \in Ids, Rejected(id) PROVE TypeOK'
  <2> DEFINE s == reads["round"].until[id]
  <2>1. s \in 0 .. MaxSession
    BY DEF Callers
  <2> HIDE DEF s
  <2>2. /\ round' = [round EXCEPT !.marks[id] = s]
        /\ mgr' = IF round.own THEN [mgr EXCEPT !.marks[id] = s] ELSE mgr
        /\ daily' = IF daily.beside THEN [daily EXCEPT !.marks[id] = s] ELSE daily
    BY <1>2 DEF Rejected, s
  <2>3. round' \in [step : {"off", "fetch", "check"}, marks : [Ids -> 0 .. MaxSession],
                    own : BOOLEAN]
    BY <2>1, <2>2
  <2>4. mgr' \in Managers
    BY <2>1, <2>2 DEF Phases
  <2>5. daily' \in [on : BOOLEAN, own : BOOLEAN, beside : BOOLEAN,
                    marks : [Ids -> 0 .. MaxSession]]
    BY <2>1, <2>2
  <2> QED
    BY <1>2, <2>3, <2>4, <2>5 DEF Rejected, entryVars, bankVars, fileVars, Phases
<1>3. CASE StartRoundCheck
  <2>1. reads' \in [Callers -> Reads]
    BY <1>3, ListTyped DEF StartRoundCheck, Callers
  <2> QED
    BY <1>3, <2>1 DEF StartRoundCheck, entryVars, bankVars, fileVars
<1>4. CASE EndRound
  <2>1. /\ reads' \in [Callers -> Reads] /\ changed' \in [Callers -> SUBSET Ids]
        /\ issues' \in [Ids -> {"none", "expiring", "expired"}]
    BY <1>4, RaiseTyped DEF EndRound, Callers
  <2> QED
    BY <1>4, <2>1, NothingIsTyped DEF EndRound, entryVars, bankVars, fileVars
<1>5. CASE StartDaily
  <2>1. reads' \in [Callers -> Reads]
    BY <1>5, ListTyped DEF StartDaily, Callers
  <2> QED
    BY <1>5, <2>1, NothingIsTyped DEF StartDaily, entryVars, bankVars, fileVars
<1>6. CASE EndDaily
  <2>1. /\ reads' \in [Callers -> Reads] /\ changed' \in [Callers -> SUBSET Ids]
        /\ issues' \in [Ids -> {"none", "expiring", "expired"}]
    BY <1>6, RaiseTyped DEF EndDaily, Callers
  <2> QED
    BY <1>6, <2>1, NothingIsTyped DEF EndDaily, entryVars, bankVars, fileVars
<1>7. ASSUME NEW c \in Callers, NEW id \in Ids, ReadConsent(c, id) PROVE TypeOK'
  BY <1>7, ReadTyped
<1> QED
  BY <1>1, <1>2, <1>3, <1>4, <1>5, <1>6, <1>7 DEF RoundStep, DailyStep, Callers

LEMMA OtherTyped ==
  ASSUME TypeOK,
         \/ \E a \in Actors : Save(a)
         \/ \E id \in Ids : RemoveBank(id)
         \/ \E s \in Sessions : Revoke(s)
         \/ StoreCredentials \/ Stop \/ Tick
  PROVE  TypeOK'
<1> USE DEF TypeOK, checkVars, roundVars
<1>1. ASSUME NEW a \in Actors, Save(a) PROVE TypeOK'
  <2>1. io' \in [Actors -> [on : BOOLEAN, base : Tokens, new : Tokens]] /\ tokens' \in Tokens
    BY <1>1, NothingIsTyped DEF Save
  <2>2. overlapped' \in BOOLEAN /\ reload' \in BOOLEAN /\ changed' \in [Callers -> SUBSET Ids]
    BY <1>1, WatchTyped DEF Save
  <2> QED
    BY <1>1, <2>1, <2>2 DEF Save, entryVars, bankVars
<1>2. ASSUME NEW id \in Ids, RemoveBank(id) PROVE TypeOK'
  <2>2. [NoSub EXCEPT !.until = subs[id].until]
           \in [bank : Banks \cup {NoBank}, until : 0 .. MaxSession, unique : BOOLEAN]
    BY DEF NoSub
  <2>3. subs' \in [Ids -> [bank : Banks \cup {NoBank}, until : 0 .. MaxSession, unique : BOOLEAN]]
    BY <1>2, <2>2 DEF RemoveBank
  <2> QED
    BY <1>2, <2>3 DEF RemoveBank, Notify, bankVars, fileVars
<1>4. ASSUME NEW s \in Sessions, Revoke(s) PROVE TypeOK'
  BY <1>4 DEF Revoke, entryVars, fileVars
<1>5. CASE StoreCredentials
  <2>1. [tokens EXCEPT !.api = "new"] \in Tokens
    BY DEF Tokens
  <2>2. io' \in [Actors -> [on : BOOLEAN, base : Tokens, new : Tokens]]
    BY <1>5, <2>1, OpenTyped, ActorsAreDistinct DEF StoreCredentials
  <2> QED
    BY <1>5, <2>2 DEF StoreCredentials, entryVars, bankVars
<1>6. CASE Stop
  <2>1. /\ io' \in [Actors -> [on : BOOLEAN, base : Tokens, new : Tokens]]
        /\ flows' \in [Flows -> [step : {"idle", "authorize", "new", "renew", "add", "update"},
                                 bank : Banks \cup {NoBank}, id : 0 .. MaxId,
                                 session : 0 .. MaxSession, end : 0 .. MaxNow + Lifetime]]
    BY <1>6, NothingIsTyped DEF Stop
  <2>2. mgr' = Down /\ round' = NoRound /\ daily' = NoDaily /\ reload' \in BOOLEAN
        /\ reads' = [c \in Callers |-> NoReads] /\ changed' = [c \in Callers |-> {}]
        /\ UNCHANGED <<entryVars, bankVars, tokens, overlapped, known, seen, issues>>
    BY <1>6 DEF Stop
  <2> QED
    BY <2>1, <2>2, NothingIsTyped DEF entryVars, bankVars, Phases
<1>7. CASE Tick
  BY <1>7, BankLinksAssumption DEF Tick, entryVars, fileVars
<1> QED
  BY <1>1, <1>2, <1>4, <1>5, <1>6, <1>7

-----------------------------------------------------------------------------
(* The order of session, subentry and pruning *)

LEMMA InitSafe == Init => Safe
<1> SUFFICES ASSUME Init PROVE Safe
  OBVIOUS
<1>1. Linked = {}
  BY DEF Init, Linked, NoSub
<1>2. (\A f \in Flows : flows[f].step = "idle") /\ (\A a \in Actors : ~Busy(a))
  BY DEF Init, NoFlow, NoIo, Busy
<1>3. mgr.phase = "down" /\ mgr.prune = {} /\ mgr.current = {}
      /\ known.memory = {} /\ known.saved = {}
  BY DEF Init, Down
<1> QED
  BY <1>1, <1>2, <1>3 DEF Safe, FlowsOK, SetupOK, IoOK, StoredFirst, Claiming

\* Nothing of it changes, or setup goes on between its marked steps.
LEMMA Quiet ==
  ASSUME Safe, UNCHANGED <<lastId, tokens, io, flows, known, overlapped>>, Linked' = Linked,
         mgr'.prune = mgr.prune, mgr'.current = mgr.current,
         \/ mgr'.phase = mgr.phase
         \/ mgr'.phase # "migrating" /\ mgr.phase # "pruning"
  PROVE  Safe'
<1>1. Fresh' = Fresh /\ Given' = Given
  BY DEF Fresh, Given
<1>2. FlowsOK'
  BY <1>1 DEF Safe, FlowsOK, Claiming
<1>3. SetupOK'
  BY <1>1 DEF Safe, SetupOK
<1>4. IoOK'
  BY <1>1 DEF Safe, IoOK, Over, Busy, Claiming
<1>5. StoredFirst'
  BY DEF Safe, StoredFirst, Secured, Busy
<1> QED
  BY <1>2, <1>3, <1>4, <1>5 DEF Safe

\* A flow begins or ends and claims no id from now on; the bank it claimed may be
\* linked by this.
LEMMA FlowLeaves ==
  ASSUME TypeOK, Safe, NEW f \in Flows,
         \A g \in Flows \ {f} : flows'[g] = flows[g],
         flows'[f].step \in {"idle", "authorize"},
         flows'[f].step # "idle" => flows'[f].bank \in Banks,
         UNCHANGED <<lastId, tokens, io, mgr, known, overlapped>>,
         Linked' = Linked \/ (Claiming(f) /\ Linked' = Linked \cup {flows[f].id})
  PROVE  Safe'
<1>1. ASSUME NEW g \in Flows, Claiming(g)' PROVE g # f /\ Claiming(g)
  BY <1>1 DEF Claiming
<1>2. Claiming(f) => flows[f].id \in Fresh
  BY DEF Safe, FlowsOK
<1>3. FlowsOK'
  <2>1. ASSUME NEW g \in Flows, Claiming(g)' PROVE flows'[g].id \in Fresh'
    BY <1>1, <2>1 DEF Safe, FlowsOK, Fresh, Given
  <2>2. ASSUME NEW g \in Flows, NEW h \in Flows, g # h, Claiming(g)', Claiming(h)'
        PROVE  flows'[g].id # flows'[h].id
    BY <1>1, <2>2 DEF Safe, FlowsOK
  <2> QED
    BY <2>1, <2>2 DEF Safe, FlowsOK
<1>4. SetupOK'
  BY <1>2 DEF Safe, SetupOK, Fresh, Given
<1>5. IoOK'
  <2>1. ASSUME NEW id, Over(id) PROVE Over(id)'
    BY <1>1, <2>1 DEF Over, Given
  <2> QED
    BY <2>1 DEF Safe, IoOK, Busy
<1>6. StoredFirst'
  BY DEF Safe, StoredFirst, Secured, Busy
<1> QED
  BY <1>3, <1>4, <1>5, <1>6 DEF Safe

\* A new operation of a, while everything that was over stays over.
LEMMA OpenIo ==
  ASSUME TypeOK, Safe, NEW a \in Actors, NEW id \in Ids, NEW s \in Sessions \cup {0},
         Open(a, WithSession(id, s)), UNCHANGED tokens,
         s = 0 => Over(id)',
         \A i \in Ids : Over(i) => Over(i)'
  PROVE  /\ IoOK'
         /\ io'[a].on /\ io'[a].new.sessions[id] = s
         /\ \A b \in Actors \ {a} : io'[b] = io[b]
<1> DEFINE new == WithSession(id, s)
<1>1. /\ new.legacy = tokens.legacy
      /\ new.sessions = [tokens.sessions EXCEPT ![id] = s]
      /\ tokens.sessions \in [Ids -> Sessions \cup {0}]
  BY WithSessionTyped DEF TypeOK, Tokens
<1> HIDE DEF new
<1>2. io' = [io EXCEPT ![a] = [on |-> TRUE, base |-> tokens, new |-> new]]
  BY DEF Open, new
<1>3. io'[a] = [on |-> TRUE, base |-> tokens, new |-> new]
      /\ \A b \in Actors \ {a} : io'[b] = io[b]
  BY <1>2 DEF TypeOK
<1>4. ASSUME NEW i \in Ids, new.sessions[i] = 0, tokens.sessions[i] # 0 PROVE Over(i)'
  BY <1>1, <1>4
<1>5. ASSUME NEW b \in Actors \ {a}, Busy(b)
      PROVE  /\ io[b].new.legacy = tokens.legacy
             /\ \/ io[b].new.sessions = io[b].base.sessions
                \/ \E i \in Ids, t \in Sessions \cup {0} :
                     io[b].new.sessions = [io[b].base.sessions EXCEPT ![i] = t]
             /\ \A i \in Ids : io[b].new.sessions[i] = 0 /\ io[b].base.sessions[i] # 0 => Over(i)'
  BY <1>5 DEF Safe, IoOK
<1>6. IoOK'
  <2> SUFFICES ASSUME NEW b \in Actors, Busy(b)'
               PROVE  /\ io'[b].new.legacy = tokens'.legacy
                      /\ \/ io'[b].new.sessions = io'[b].base.sessions
                         \/ \E i \in Ids, t \in Sessions \cup {0} :
                              io'[b].new.sessions = [io'[b].base.sessions EXCEPT ![i] = t]
                      /\ \A i \in Ids : io'[b].new.sessions[i] = 0
                                        /\ io'[b].base.sessions[i] # 0 => Over(i)'
    BY DEF IoOK
  <2>1. tokens' = tokens
    OBVIOUS
  <2>2. CASE b = a
    <3>1. io'[b].new = new /\ io'[b].base = tokens
      BY <1>3, <2>2
    <3>2. \E i \in Ids, t \in Sessions \cup {0} :
            io'[b].new.sessions = [io'[b].base.sessions EXCEPT ![i] = t]
      BY <1>1, <3>1
    <3>3. \A i \in Ids : io'[b].new.sessions[i] = 0 /\ io'[b].base.sessions[i] # 0 => Over(i)'
      BY <1>4, <3>1
    <3> QED
      BY <1>1, <2>1, <3>1, <3>2, <3>3
  <2>3. CASE b # a
    <3>1. io'[b] = io[b] /\ Busy(b) /\ b \in Actors \ {a}
      BY <1>3, <2>3 DEF Busy
    <3>2. \A i \in Ids : io[b].new.sessions[i] = 0 /\ io[b].base.sessions[i] # 0 => Over(i)'
      BY <1>5, <3>1
    <3>3. /\ io[b].new.legacy = tokens.legacy
          /\ \/ io[b].new.sessions = io[b].base.sessions
             \/ \E i \in Ids, t \in Sessions \cup {0} :
                  io[b].new.sessions = [io[b].base.sessions EXCEPT ![i] = t]
      BY <1>5, <3>1
    <3> QED
      BY <2>1, <3>1, <3>2, <3>3
  <2> QED
    BY <2>2, <2>3
<1> QED
  BY <1>1, <1>3, <1>6

LEMMA FlowSafe ==
  ASSUME TypeOK, Safe, NEW f \in Flows, FlowStep(f)
  PROVE  Safe'
<1> USE ActorsAreDistinct
<1>1. ASSUME NEW b \in Banks, PickBank(f, b) PROVE Safe'
  <2>1. /\ flows'[f].step = "authorize" /\ flows'[f].bank = b
        /\ \A g \in Flows \ {f} : flows'[g] = flows[g]
    BY <1>1 DEF PickBank, NoFlow, TypeOK
  <2>2. Linked' = Linked /\ UNCHANGED <<lastId, tokens, io, mgr, known, overlapped>>
    BY <1>1 DEF PickBank, entryVars, fileVars, Linked
  <2> QED
    BY <2>1, <2>2, FlowLeaves
<1>2. ASSUME NEW id \in Ids, Reconfigure(f, id) PROVE Safe'
  <2>1. /\ flows'[f].step = "authorize" /\ flows'[f].bank = subs[id].bank
        /\ \A g \in Flows \ {f} : flows'[g] = flows[g]
    BY <1>2 DEF Reconfigure, NoFlow, TypeOK
  <2>2. Linked' = Linked /\ UNCHANGED <<lastId, tokens, io, mgr, known, overlapped>>
    BY <1>2 DEF Reconfigure, entryVars, fileVars, Linked
  <2>3. subs[id].bank \in Banks
    BY <1>2, LinkedIsBank DEF Reconfigure
  <2> QED
    BY <2>1, <2>2, <2>3, FlowLeaves
<1>3. CASE GiveUp(f)
  <2>1. /\ flows'[f].step = "idle" /\ \A g \in Flows \ {f} : flows'[g] = flows[g]
    BY <1>3 DEF GiveUp, NoFlow, TypeOK
  <2>2. Linked' = Linked /\ UNCHANGED <<lastId, tokens, io, mgr, known, overlapped>>
    BY <1>3 DEF GiveUp, entryVars, fileVars, Linked
  <2> QED
    BY <2>1, <2>2, FlowLeaves
<1>4. CASE StoreRecords(f)
  <2> DEFINE id == IF flows[f].id = 0 THEN lastId + 1 ELSE flows[f].id
  <2>1. /\ flows'[f].step = (IF flows[f].id = 0 THEN "new" ELSE "renew")
        /\ flows'[f].id = id /\ flows'[f].session = lastSession + 1
        /\ flows'[f].bank = flows[f].bank
        /\ \A g \in Flows \ {f} : flows'[g] = flows[g]
    BY <1>4 DEF StoreRecords, TypeOK
  <2>2. /\ flows[f].step = "authorize" /\ flows[f].bank \in Banks
        /\ id \in Ids /\ lastSession + 1 \in Sessions
        /\ lastId' = IF flows[f].id = 0 THEN id ELSE lastId
        /\ lastId \in Nat
    BY <1>4, BankLinksAssumption DEF StoreRecords, Safe, FlowsOK, TypeOK
  <2>3. Linked' = Linked /\ UNCHANGED <<tokens, io, mgr, known, overlapped>>
    BY <1>4 DEF StoreRecords, fileVars, Linked
  <2>4. Given \subseteq Given'
    BY <2>2 DEF Given
  <2>5. ASSUME flows[f].id = 0 PROVE id \in Given' \ Given
    BY <2>2, <2>5 DEF Given
  <2>6. FlowsOK'
    <3> HIDE DEF id
    <3>1. ASSUME NEW g \in Flows, Claiming(g)'
          PROVE  flows'[g].id \in Fresh' /\ (g # f => Claiming(g) /\ flows'[g].id \in Given)
      <4>1. CASE g = f
        <5>1. flows[f].id = 0
          BY <2>1, <3>1, <4>1 DEF Claiming
        <5> QED
          BY <2>1, <2>3, <2>5, <4>1, <5>1 DEF Safe, SetupOK, Fresh
      <4>2. CASE g # f
        BY <2>1, <2>3, <2>4, <3>1, <4>2 DEF Safe, FlowsOK, Fresh, Claiming
      <4> QED
        BY <4>1, <4>2
    <3>2. ASSUME NEW g \in Flows, NEW h \in Flows, g # h, Claiming(g)', Claiming(h)'
          PROVE  flows'[g].id # flows'[h].id
      <4>1. Claiming(f)' => flows'[f].id \notin Given
        BY <2>1, <2>5 DEF Claiming
      <4> QED
        BY <2>1, <3>1, <3>2, <4>1 DEF Safe, FlowsOK
    <3> QED
      BY <2>1, <2>2, <3>1, <3>2 DEF Safe, FlowsOK
  <2>7. SetupOK'
    BY <2>3, <2>4 DEF Safe, SetupOK
  <2>8. IoOK'
    <3>1. ASSUME NEW i, Over(i) PROVE Over(i)'
      BY <2>1, <2>2, <2>3, <2>4, <2>5, <3>1 DEF Over, Claiming
    <3> QED
      BY <2>3, <3>1 DEF Safe, IoOK, Busy
  <2>9. StoredFirst'
    BY <2>1, <2>3 DEF Safe, StoredFirst, Secured, Busy
  <2> QED
    BY <2>6, <2>7, <2>8, <2>9 DEF Safe
<1>5. CASE StoreSession(f)
  <2>1. /\ flows'[f] = [flows[f] EXCEPT !.step = IF @ = "new" THEN "add" ELSE "update"]
        /\ \A g \in Flows \ {f} : flows'[g] = flows[g]
    BY <1>5 DEF StoreSession, TypeOK
  <2>2. /\ flows'[f].step = (IF flows[f].step = "new" THEN "add" ELSE "update")
        /\ flows'[f].id = flows[f].id /\ flows'[f].session = flows[f].session
        /\ flows'[f].bank = flows[f].bank
    BY <2>1 DEF TypeOK
  <2>3. /\ flows[f].step \in {"new", "renew"} /\ flows[f].id \in Ids
        /\ flows[f].session \in Sessions /\ flows[f].session # 0 /\ flows[f].bank \in Banks
    BY <1>5 DEF StoreSession, Safe, FlowsOK, Sessions
  <2>4. \A g \in Flows : (Claiming(g)' <=> Claiming(g)) /\ flows'[g].id = flows[g].id
    BY <2>1, <2>2, <2>3 DEF Claiming
  <2>5. Linked' = Linked /\ UNCHANGED <<lastId, tokens, mgr, known, overlapped>>
    BY <1>5 DEF StoreSession, entryVars, Linked
  <2>6. Fresh' = Fresh /\ Given' = Given /\ \A i : Over(i)' <=> Over(i)
    BY <2>4, <2>5 DEF Fresh, Given, Over
  <2>7. /\ IoOK' /\ io'[f].on /\ io'[f].new.sessions[flows[f].id] = flows[f].session
        /\ \A b \in Actors \ {f} : io'[b] = io[b]
    BY <1>5, <2>3, <2>5, <2>6, OpenIo DEF StoreSession
  <2>8. FlowsOK'
    <3>1. ASSUME NEW g \in Flows, Claiming(g)' PROVE flows'[g].id \in Fresh'
      BY <2>4, <2>6, <3>1 DEF Safe, FlowsOK
    <3>2. ASSUME NEW g \in Flows, NEW h \in Flows, g # h, Claiming(g)', Claiming(h)'
          PROVE  flows'[g].id # flows'[h].id
      BY <2>4, <3>2 DEF Safe, FlowsOK
    <3> QED
      BY <2>1, <2>2, <2>3, <3>1, <3>2 DEF Safe, FlowsOK
  <2>9. SetupOK'
    BY <2>5, <2>6 DEF Safe, SetupOK
  <2>10. StoredFirst'
    <3>1. ASSUME NEW g \in Flows, flows'[g].step = "add" PROVE Secured(g, flows[g].id)'
      <4>1. CASE g = f
        BY <2>2, <2>3, <2>7, <4>1 DEF Secured, Busy
      <4>2. CASE g # f
        BY <2>1, <2>5, <2>7, <3>1, <4>2 DEF Safe, StoredFirst, Secured, Busy
      <4> QED
        BY <4>1, <4>2
    <3>2. mgr'.phase = "migrating" => \A id \in mgr'.current : Secured("setup", id)'
      BY <2>5, <2>7 DEF Safe, StoredFirst, Secured, Busy
    <3> QED
      BY <2>4, <3>1, <3>2 DEF StoredFirst, Secured, Busy
  <2> QED
    BY <2>7, <2>8, <2>9, <2>10 DEF Safe
<1>6. CASE AddSubentry(f)
  <2>1. /\ flows'[f].step = "idle" /\ \A g \in Flows \ {f} : flows'[g] = flows[g]
    BY <1>6 DEF AddSubentry, NoFlow, TypeOK
  <2>2. UNCHANGED <<lastId, tokens, io, mgr, known, overlapped>>
    BY <1>6 DEF AddSubentry, fileVars
  <2>3. Claiming(f) /\ flows[f].bank \in Banks /\ flows[f].id \in Ids
    BY <1>6 DEF AddSubentry, Claiming, Safe, FlowsOK
  <2>4. subs' = [subs EXCEPT ![flows[f].id] = NewSub(f, TRUE)]
        /\ NewSub(f, TRUE).bank # NoBank
    BY <1>6, <2>3, BankLinksAssumption DEF AddSubentry, NewSub
  <2>5. Linked' = Linked \cup {flows[f].id}
    <3> HIDE DEF NewSub
    <3>1. ASSUME NEW id \in Ids
          PROVE  subs'[id].bank # NoBank <=> subs[id].bank # NoBank \/ id = flows[f].id
      BY <2>3, <2>4 DEF TypeOK
    <3> QED
      BY <2>3, <3>1 DEF Linked
  <2> QED
    BY <2>1, <2>2, <2>3, <2>5, FlowLeaves
<1>7. CASE AddRefused(f)
  <2> SUFFICES ASSUME NEW id \in Ids, id = flows[f].id PROVE Safe'
    BY <1>7 DEF AddRefused, Safe, FlowsOK
  <2>1. /\ flows'[f].step = "idle" /\ \A g \in Flows \ {f} : flows'[g] = flows[g]
    BY <1>7 DEF AddRefused, NoFlow, TypeOK
  <2>2. Linked' = Linked /\ UNCHANGED <<lastId, tokens, mgr, known, overlapped>>
    BY <1>7 DEF AddRefused, entryVars, Linked
  <2>3. Claiming(f) /\ id \in Fresh
    BY <1>7 DEF AddRefused, Claiming, Safe, FlowsOK
  <2>4. \A g \in Flows : Claiming(g)' => g # f /\ Claiming(g)
    BY <2>1 DEF Claiming
  <2>5. Fresh' = Fresh /\ Given' = Given
    BY <2>2 DEF Fresh, Given
  <2>6. Over(id)'
    BY <2>1, <2>2, <2>3, <2>4 DEF Over, Fresh, Given, Safe, FlowsOK
  <2>7. ASSUME NEW i, Over(i) PROVE Over(i)'
    BY <2>1, <2>2, <2>4, <2>7 DEF Over, Given
  <2>8. /\ IoOK' /\ \A b \in Actors \ {f} : io'[b] = io[b]
    BY <1>7, <2>2, <2>3, <2>6, <2>7, OpenIo DEF AddRefused
  <2>9. FlowsOK'
    BY <2>1, <2>4, <2>5 DEF Safe, FlowsOK
  <2>10. SetupOK'
    BY <2>2, <2>5 DEF Safe, SetupOK
  <2>11. StoredFirst'
    BY <2>1, <2>2, <2>8 DEF Safe, StoredFirst, Secured, Busy
  <2> QED
    BY <2>8, <2>9, <2>10, <2>11 DEF Safe
<1>8. CASE UpdateSubentry(f)
  <2>1. /\ flows'[f].step = "idle" /\ \A g \in Flows \ {f} : flows'[g] = flows[g]
    BY <1>8 DEF UpdateSubentry, NoFlow, TypeOK
  <2>2. UNCHANGED <<lastId, tokens, io, mgr, known, overlapped>>
    BY <1>8 DEF UpdateSubentry, fileVars
  <2>3. NewSub(f, subs[flows[f].id].unique).bank # NoBank
    BY <1>8, BankLinksAssumption DEF UpdateSubentry, NewSub, Safe, FlowsOK
  <2>4. Linked' = Linked
    <3> HIDE DEF NewSub
    <3> QED
      BY <1>8, <2>3 DEF UpdateSubentry, Linked, TypeOK
  <2> QED
    BY <2>1, <2>2, <2>4, FlowLeaves
<1> QED
  BY <1>1, <1>2, <1>3, <1>4, <1>5, <1>6, <1>7, <1>8 DEF FlowStep

LEMMA SetupSafe ==
  ASSUME TypeOK, Safe, SetupStep
  PROVE  Safe'
<1> USE ActorsAreDistinct
<1>1. CASE NothingToMigrate \/ StartSetupCheck \/ EndSetupCheck \/ FinishSetup
  <2>1. /\ Linked' = Linked /\ UNCHANGED <<lastId, tokens, io, flows, known, overlapped>>
        /\ mgr'.prune = mgr.prune /\ mgr'.current = mgr.current
        /\ mgr'.phase # "migrating" /\ mgr.phase # "pruning"
    BY <1>1 DEF NothingToMigrate, StartSetupCheck, EndSetupCheck, FinishSetup,
                entryVars, fileVars, Linked, TypeOK
  <2> QED
    BY <2>1, Quiet
<1>8. ASSUME NEW id \in Ids, ReadConsent("setup", id) PROVE Safe'
  <2>1. /\ Linked' = Linked /\ UNCHANGED <<lastId, tokens, io, flows, known, overlapped, mgr>>
    BY <1>8 DEF ReadConsent, entryVars, fileVars, Linked
  <2> QED
    BY <2>1, Quiet
<1>2. CASE Boot \/ \E written \in BOOLEAN : Reload(written)
  <2>1. /\ Linked' = Linked /\ UNCHANGED <<lastId, tokens, io, flows, overlapped>>
        /\ mgr'.prune = {} /\ mgr'.current = {}
        /\ mgr'.phase \notin {"migrating", "pruning"}
    BY <1>2 DEF Boot, Reload, Down, entryVars, fileVars, Linked
  <2>2. known'.memory \cup known'.saved \subseteq known.memory \cup known.saved
    BY <1>2 DEF Boot, Reload, TypeOK
  <2>3. Given' = Given /\ Fresh \subseteq Fresh'
    BY <2>1, <2>2 DEF Fresh, Given
  <2>4. FlowsOK'
    BY <2>1, <2>3 DEF Safe, FlowsOK, Claiming
  <2>5. SetupOK'
    BY <2>1, <2>2, <2>3 DEF Safe, SetupOK
  <2>6. IoOK'
    BY <2>1, <2>3 DEF Safe, IoOK, Over, Busy, Claiming
  <2>7. StoredFirst'
    BY <2>1 DEF Safe, StoredFirst, Secured, Busy
  <2> QED
    BY <2>4, <2>5, <2>6, <2>7 DEF Safe
<1>3. CASE Migrate
  <2> DEFINE id == lastId + 1
  <2>1. /\ id \in Ids /\ lastId' = id /\ lastId \in Nat
        /\ Linked' = Linked /\ UNCHANGED <<tokens, flows, known, overlapped>>
        /\ mgr'.phase = "migrating" /\ mgr'.current = {id} /\ mgr'.prune = mgr.prune
        /\ mgr.phase = "migrate" /\ mgr.prune = {}
        /\ tokens.legacy \in Sessions /\ tokens.legacy # 0
    BY <1>3 DEF Migrate, Linked, TypeOK, Tokens, Safe, SetupOK
  <2>2. id \in Given' \ Given /\ Given \subseteq Given'
    BY <2>1 DEF Given
  <2> HIDE DEF id
  <2>3. ASSUME NEW i, Over(i) PROVE Over(i)'
    BY <2>1, <2>2, <2>3 DEF Over, Claiming
  <2>4. /\ IoOK' /\ io'["setup"].on /\ io'["setup"].new.sessions[id] = tokens.legacy
        /\ \A b \in Actors \ {"setup"} : io'[b] = io[b]
    <3>1. Open("setup", WithSession(id, tokens.legacy))
      BY <1>3 DEF Migrate, id
    <3> QED
      BY <2>1, <2>3, <3>1, OpenIo
  <2>5. FlowsOK'
    BY <2>1, <2>2 DEF Safe, FlowsOK, Fresh, Claiming
  <2>6. SetupOK'
    BY <2>1, <2>2 DEF Safe, SetupOK
  <2>7. StoredFirst'
    BY <2>1, <2>4 DEF Safe, StoredFirst, Secured, Busy
  <2> QED
    BY <2>4, <2>5, <2>6, <2>7 DEF Safe
<1>4. ASSUME NEW b \in Banks, AddMigrated(b) PROVE Safe'
  <2>1. /\ UNCHANGED <<lastId, tokens, io, flows, known, overlapped>>
        /\ mgr'.phase = "prune" /\ mgr'.current = {} /\ mgr'.prune = mgr.prune
        /\ mgr.phase = "migrating" /\ mgr.prune = {} /\ mgr.current \subseteq Ids
    BY <1>4 DEF AddMigrated, fileVars, TypeOK, Safe, SetupOK
  <2>2. Linked' = Linked \cup mgr.current
    <3>1. ASSUME NEW id \in Ids
          PROVE  subs'[id].bank # NoBank <=> subs[id].bank # NoBank \/ id \in mgr.current
      BY <1>4, BankLinksAssumption DEF AddMigrated
    <3> QED
      BY <2>1, <3>1 DEF Linked
  <2>3. Given' = Given /\ Fresh' = Fresh
    BY <2>1, <2>2 DEF Fresh, Given
  <2>4. FlowsOK'
    BY <2>1, <2>3 DEF Safe, FlowsOK, Claiming
  <2>5. SetupOK'
    BY <2>1, <2>2, <2>3 DEF Safe, SetupOK
  <2>6. IoOK'
    BY <2>1, <2>2, <2>3 DEF Safe, IoOK, Over, Busy, Claiming
  <2>7. StoredFirst'
    BY <2>1 DEF Safe, StoredFirst, Secured, Busy
  <2> QED
    BY <2>4, <2>5, <2>6, <2>7 DEF Safe
<1>5. CASE PruneStart
  <2>1. /\ Linked' = Linked /\ UNCHANGED <<lastId, tokens, io, flows, known, overlapped>>
        /\ mgr'.phase = "pruning" /\ mgr'.prune = known.memory \ Linked /\ mgr'.current = Linked
    BY <1>5 DEF PruneStart, entryVars, fileVars, Linked, TypeOK
  <2>2. Given' = Given /\ Fresh \subseteq Fresh'
    BY <2>1 DEF Fresh, Given
  <2>3. FlowsOK'
    BY <2>1, <2>2 DEF Safe, FlowsOK, Claiming
  <2>4. SetupOK'
    BY <2>1, <2>2 DEF Safe, SetupOK
  <2>5. IoOK'
    BY <2>1, <2>2 DEF Safe, IoOK, Over, Busy, Claiming
  <2>6. StoredFirst'
    BY <2>1 DEF Safe, StoredFirst, Secured, Busy
  <2> QED
    BY <2>3, <2>4, <2>5, <2>6 DEF Safe
<1>6. ASSUME NEW id \in Ids, PruneOne(id) PROVE Safe'
  <2>1. /\ Linked' = Linked /\ UNCHANGED <<lastId, tokens, flows, known, overlapped>>
        /\ mgr'.phase = mgr.phase /\ mgr.phase = "pruning" /\ id \in mgr.prune
        /\ mgr'.prune = mgr.prune \ {id} /\ mgr'.current = mgr.current
    BY <1>6 DEF PruneOne, entryVars, Linked, TypeOK
  <2>2. Given' = Given /\ Fresh \subseteq Fresh'
    BY <2>1 DEF Fresh, Given
  <2>3. \A i : Over(i) <=> Over(i)'
    BY <2>1, <2>2 DEF Over, Claiming
  <2>4. Over(id)
    BY <2>1 DEF Over, Safe, SetupOK, FlowsOK, Fresh
  <2>5. IoOK' /\ \A b \in Actors \ {"setup"} : io'[b] = io[b]
    <3>1. CASE tokens.sessions[id] # 0
      <4>1. Open("setup", WithSession(id, 0))
        BY <1>6, <3>1 DEF PruneOne
      <4> QED
        BY <2>1, <2>3, <2>4, <4>1, OpenIo
    <3>2. CASE tokens.sessions[id] = 0
      <4>1. io' = io
        BY <1>6, <3>2 DEF PruneOne
      <4> QED
        BY <2>1, <2>3, <4>1 DEF Safe, IoOK, Busy
    <3> QED
      BY <3>1, <3>2
  <2>6. FlowsOK'
    BY <2>1, <2>2 DEF Safe, FlowsOK, Claiming
  <2>7. SetupOK'
    BY <2>1, <2>2 DEF Safe, SetupOK
  <2>8. StoredFirst'
    BY <2>1, <2>5 DEF Safe, StoredFirst, Secured, Busy
  <2> QED
    BY <2>5, <2>6, <2>7, <2>8 DEF Safe
<1>7. ASSUME NEW written \in BOOLEAN, PruneEnd(written) PROVE Safe'
  <2>1. /\ Linked' = Linked /\ UNCHANGED <<lastId, tokens, io, flows, overlapped>>
        /\ mgr'.phase = "check" /\ mgr'.prune = {} /\ mgr'.current = {} /\ mgr.prune = {}
    BY <1>7 DEF PruneEnd, entryVars, fileVars, Linked, TypeOK
  <2>2. known'.memory \cup known'.saved \subseteq known.saved \cup mgr.current
    BY <1>7 DEF PruneEnd
  <2>3. Given' = Given /\ Fresh \subseteq Fresh'
    BY <2>1, <2>2 DEF Fresh, Given
  <2>4. FlowsOK'
    BY <2>1, <2>3 DEF Safe, FlowsOK, Claiming
  <2>5. SetupOK'
    BY <2>1, <2>2, <2>3 DEF Safe, SetupOK
  <2>6. IoOK'
    BY <2>1, <2>3 DEF Safe, IoOK, Over, Busy, Claiming
  <2>7. StoredFirst'
    BY <2>1 DEF Safe, StoredFirst, Secured, Busy
  <2> QED
    BY <2>4, <2>5, <2>6, <2>7 DEF Safe
<1> QED
  BY <1>1, <1>2, <1>3, <1>4, <1>5, <1>6, <1>7, <1>8 DEF SetupStep

\* A save leaves the file with what the operation had loaded, but for one session;
\* unless another save came in between, that is all that changes.
LEMMA SaveSafe ==
  ASSUME TypeOK, Safe, NEW a \in Actors, Save(a)
  PROVE  Safe'
<1> USE ActorsAreDistinct
<1>1. /\ Busy(a) /\ tokens' = io[a].new /\ io'[a] = NoIo /\ ~NoIo.on
      /\ \A b \in Actors \ {a} : io'[b] = io[b]
      /\ Linked' = Linked /\ UNCHANGED <<lastId, flows, mgr, known>>
      /\ overlapped' = (overlapped \/ tokens # io[a].base)
  BY DEF Save, entryVars, Linked, NoIo, TypeOK
<1>2. tokens'.legacy = tokens.legacy
  BY <1>1 DEF Safe, IoOK
<1>3. Fresh' = Fresh /\ Given' = Given /\ \A i : Over(i) <=> Over(i)'
  BY <1>1 DEF Fresh, Given, Over, Claiming
<1>4. FlowsOK'
  BY <1>1, <1>3 DEF Safe, FlowsOK, Claiming
<1>5. SetupOK'
  BY <1>1, <1>2, <1>3 DEF Safe, SetupOK
<1>6. IoOK'
  <2>1. \A b \in Actors : Busy(b)' => Busy(b) /\ io'[b] = io[b]
    BY <1>1 DEF Busy
  <2>2. \A b \in Actors : Busy(b) => io[b].new.legacy = tokens'.legacy
    BY <1>2 DEF Safe, IoOK
  <2>3. ASSUME NEW b \in Actors, Busy(b), NEW id \in Ids,
               io[b].new.sessions[id] = 0, io[b].base.sessions[id] # 0
        PROVE  Over(id)'
    BY <1>3, <2>3 DEF Safe, IoOK
  <2>4. \A b \in Actors : Busy(b) =>
           \/ io[b].new.sessions = io[b].base.sessions
           \/ \E id \in Ids, s \in Sessions \cup {0} :
                io[b].new.sessions = [io[b].base.sessions EXCEPT ![id] = s]
    BY DEF Safe, IoOK
  <2>5. ASSUME NEW b \in Actors, Busy(b)'
        PROVE  /\ io'[b].new.legacy = tokens'.legacy
               /\ \/ io'[b].new.sessions = io'[b].base.sessions
                  \/ \E id \in Ids, s \in Sessions \cup {0} :
                       io'[b].new.sessions = [io'[b].base.sessions EXCEPT ![id] = s]
               /\ \A id \in Ids : io'[b].new.sessions[id] = 0
                                 /\ io'[b].base.sessions[id] # 0 => Over(id)'
    <3>1. Busy(b) /\ io'[b] = io[b]
      BY <2>1, <2>5
    <3> HIDE DEF IoOK
    <3> QED
      BY <2>2, <2>3, <2>4, <3>1
  <2> QED
    BY <2>5 DEF IoOK
<1>7. ASSUME NEW b \in Actors, NEW id \in Ids, Secured(b, id), ~Over(id)
      PROVE  Secured(b, id)'
  <2>1. CASE b = a
    BY <1>1, <1>7, <2>1 DEF Secured, Busy
  <2>2. CASE b # a /\ Busy(b)
    BY <1>1, <1>7, <2>2 DEF Secured, Busy
  <2>3. CASE b # a /\ ~Busy(b)
    <3>1. ASSUME ~overlapped' PROVE tokens'.sessions[id] # 0
      <4>1. io[a].base.sessions[id] # 0
        BY <1>1, <1>7, <2>3, <3>1 DEF Secured
      <4> QED
        BY <1>1, <1>7, <4>1 DEF Safe, IoOK
    <3> QED
      BY <1>1, <2>3, <3>1 DEF Secured, Busy
  <2> QED
    BY <2>1, <2>2, <2>3
<1>8. StoredFirst'
  <2>1. ASSUME NEW f \in Flows, flows[f].step = "add" PROVE Secured(f, flows[f].id)'
    <3>1. flows[f].id \in Ids /\ ~Over(flows[f].id) /\ Secured(f, flows[f].id)
      BY <2>1 DEF Safe, FlowsOK, StoredFirst, Over, Claiming
    <3> QED
      BY <1>1, <1>7, <3>1
  <2>2. ASSUME mgr.phase = "migrating", NEW id \in mgr.current PROVE Secured("setup", id)'
    <3>1. id \in Ids /\ ~Over(id) /\ Secured("setup", id)
      BY <2>2 DEF Safe, StoredFirst, Over, TypeOK
    <3> QED
      BY <1>7, <3>1
  <2> QED
    BY <1>1, <2>1, <2>2 DEF StoredFirst
<1> QED
  BY <1>4, <1>5, <1>6, <1>8 DEF Safe

LEMMA RoundSafe ==
  ASSUME TypeOK, Safe, RoundStep \/ DailyStep
  PROVE  Safe'
<1>1. ASSUME NEW id \in Ids, Rejected(id) PROVE Safe'
  <2>1. /\ Linked' = Linked /\ UNCHANGED <<lastId, tokens, io, flows, known, overlapped>>
        /\ mgr'.prune = mgr.prune /\ mgr'.current = mgr.current /\ mgr'.phase = mgr.phase
    BY <1>1 DEF Rejected, entryVars, fileVars, Linked, TypeOK
  <2> QED
    BY <2>1, Quiet
<1>2. CASE StartRound \/ StartRoundCheck \/ EndRound \/ StartDaily \/ EndDaily
  <2>1. Linked' = Linked /\ UNCHANGED <<lastId, tokens, io, flows, known, overlapped, mgr>>
    BY <1>2 DEF StartRound, StartRoundCheck, EndRound, StartDaily, EndDaily,
                entryVars, fileVars, Linked
  <2> QED
    BY <2>1, Quiet
<1>3. ASSUME NEW c \in Callers, NEW id \in Ids, ReadConsent(c, id) PROVE Safe'
  <2>1. Linked' = Linked /\ UNCHANGED <<lastId, tokens, io, flows, known, overlapped, mgr>>
    BY <1>3 DEF ReadConsent, entryVars, fileVars, Linked
  <2> QED
    BY <2>1, Quiet
<1> QED
  BY <1>1, <1>2, <1>3 DEF RoundStep, DailyStep, Callers

LEMMA OtherSafe ==
  ASSUME TypeOK, Safe,
         \/ \E a \in Actors : Save(a)
         \/ \E id \in Ids : RemoveBank(id)
         \/ \E s \in Sessions : Revoke(s)
         \/ StoreCredentials \/ Stop \/ Tick
  PROVE  Safe'
<1>1. ASSUME NEW a \in Actors, Save(a) PROVE Safe'
  BY <1>1, SaveSafe
<1>2. ASSUME NEW id \in Ids, RemoveBank(id) PROVE Safe'
  <2>1. /\ UNCHANGED <<lastId, tokens, io, flows, mgr, known, overlapped>>
        /\ Linked' \subseteq Linked
    BY <1>2 DEF RemoveBank, fileVars, Linked, NoSub, TypeOK
  <2>2. Given' = Given /\ Fresh \subseteq Fresh'
    BY <2>1 DEF Fresh, Given
  <2>3. FlowsOK'
    BY <2>1, <2>2 DEF Safe, FlowsOK, Claiming
  <2>4. SetupOK'
    BY <2>1, <2>2 DEF Safe, SetupOK
  <2>5. IoOK'
    <3>1. ASSUME NEW i, Over(i) PROVE Over(i)'
      BY <2>1, <2>2, <3>1 DEF Over, Claiming
    <3> QED
      BY <2>1, <3>1 DEF Safe, IoOK, Busy
  <2>6. StoredFirst'
    BY <2>1 DEF Safe, StoredFirst, Secured, Busy
  <2> QED
    BY <2>3, <2>4, <2>5, <2>6 DEF Safe
<1>3. CASE StoreCredentials
  <2>1. /\ Linked' = Linked /\ UNCHANGED <<lastId, tokens, flows, mgr, known, overlapped>>
        /\ io' = [io EXCEPT !["settings"] =
                     [on |-> TRUE, base |-> tokens, new |-> [tokens EXCEPT !.api = "new"]]]
    BY <1>3 DEF StoreCredentials, Open, entryVars, Linked
  <2>2. /\ io'["settings"].base = tokens
        /\ io'["settings"].new.sessions = tokens.sessions
        /\ io'["settings"].new.legacy = tokens.legacy
        /\ \A b \in Actors \ {"settings"} : io'[b] = io[b]
    BY <2>1, ActorsAreDistinct DEF TypeOK, Tokens
  <2>3. Fresh' = Fresh /\ Given' = Given /\ \A i : Over(i) <=> Over(i)'
    BY <2>1 DEF Fresh, Given, Over, Claiming
  <2>4. FlowsOK'
    BY <2>1, <2>3 DEF Safe, FlowsOK, Claiming
  <2>5. SetupOK'
    BY <2>1, <2>3 DEF Safe, SetupOK
  <2>6. IoOK'
    <3>1. ASSUME NEW b \in Actors \ {"settings"}, Busy(b)'
          PROVE  /\ io'[b].new.legacy = tokens'.legacy
                 /\ \/ io'[b].new.sessions = io'[b].base.sessions
                    \/ \E i \in Ids, t \in Sessions \cup {0} :
                         io'[b].new.sessions = [io'[b].base.sessions EXCEPT ![i] = t]
                 /\ \A i \in Ids : io'[b].new.sessions[i] = 0
                                   /\ io'[b].base.sessions[i] # 0 => Over(i)'
      BY <2>1, <2>2, <2>3, <3>1 DEF Safe, IoOK, Busy
    <3> QED
      BY <2>1, <2>2, <3>1 DEF IoOK
  <2>7. StoredFirst'
    BY <2>1, <2>2, ActorsAreDistinct DEF Safe, StoredFirst, Secured, Busy
  <2> QED
    BY <2>4, <2>5, <2>6, <2>7 DEF Safe
<1>4. CASE Stop
  <2>1. /\ Linked' = Linked /\ UNCHANGED <<lastId, tokens, known, overlapped>>
        /\ mgr'.prune = {} /\ mgr'.current = {} /\ mgr'.phase = "down"
        /\ \A f \in Flows : flows'[f].step = "idle"
        /\ \A a \in Actors : ~Busy(a)'
    BY <1>4 DEF Stop, Down, NoFlow, NoIo, Busy, entryVars, Linked
  <2>2. Given' = Given
    BY <2>1 DEF Given
  <2> QED
    BY <2>1, <2>2 DEF Safe, FlowsOK, SetupOK, IoOK, StoredFirst, Claiming
<1>5. ASSUME Tick \/ \E s \in Sessions : Revoke(s)
      PROVE  Safe'
  <2>1. /\ Linked' = Linked /\ UNCHANGED <<lastId, tokens, io, flows, known, overlapped>>
        /\ mgr' = mgr
    BY <1>5 DEF Tick, Revoke, entryVars, fileVars, Linked
  <2> QED
    BY <2>1, Quiet
<1> QED
  BY <1>1, <1>2, <1>3, <1>4, <1>5

-----------------------------------------------------------------------------
(* The theorems *)

\* Under the specification the state is well-typed, and whoever is about to link a
\* bank has stored its session: flows, setup and settings of BankLinks.
THEOREM Invariance == Spec => []IInv
<1>1. Init => IInv
  BY InitTyped, InitSafe DEF IInv
<1>2. IInv /\ [Next]_vars => IInv'
  <2> SUFFICES ASSUME IInv, [Next]_vars PROVE IInv'
    OBVIOUS
  <2>1. ASSUME NEW f \in Flows, FlowStep(f) PROVE IInv'
    BY <2>1, FlowTyped, FlowSafe DEF IInv, Safe
  <2>2. CASE SetupStep
    BY <2>2, SetupTyped, SetupSafe DEF IInv, Safe
  <2>5. CASE RoundStep \/ DailyStep
    BY <2>5, RoundTyped, RoundSafe DEF IInv
  <2>3. ASSUME \/ \E a \in Actors : Save(a)
               \/ \E id \in Ids : RemoveBank(id)
               \/ \E s \in Sessions : Revoke(s)
               \/ StoreCredentials \/ Stop \/ Tick
        PROVE  IInv'
    BY <2>3, OtherTyped, OtherSafe DEF IInv
  <2>4. CASE UNCHANGED vars
    <3>1. TypeOK'
      BY <2>4 DEF vars, IInv, TypeOK
    <3>2. Linked' = Linked
      BY <2>4 DEF vars, Linked
    <3> QED
      BY <2>4, <3>1, <3>2, Quiet DEF vars, IInv
  <2> QED
    BY <2>1, <2>2, <2>3, <2>4, <2>5 DEF Next
<1> QED
  BY <1>1, <1>2, PTL DEF Spec

\* The state of BankLinks is well-typed.
THEOREM TypeCorrect == Spec => []TypeOK
<1>1. IInv => TypeOK
  BY DEF IInv
<1> QED
  BY <1>1, Invariance, PTL

\* What a step does to the sessions and the banks, unless saves have overlapped.
LEMMA SaveRefines ==
  ASSUME IInv, IInv', NEW a \in Actors, Save(a)
  PROVE  [Vault!Next]_(Vault!vars)
<1> USE DEF IInv
<1>1. /\ Busy(a) /\ tokens' = io[a].new /\ Linked' = Linked
      /\ overlapped' = (overlapped \/ tokens # io[a].base)
  BY DEF Save, entryVars, Linked
<1>2. tokens'.sessions \in [Ids -> Sessions \cup {0}]
  BY DEF TypeOK, Tokens
<1>3. CASE overlapped'
  BY <1>1, <1>2, <1>3 DEF Vault!Next, Vault!Overlap
<1>4. CASE ~overlapped'
  <2>1. ~overlapped /\ io[a].base = tokens /\ overlapped' = overlapped
    BY <1>1, <1>4 DEF TypeOK
  <2>2. CASE tokens'.sessions = tokens.sessions
    BY <1>1, <2>1, <2>2 DEF Vault!vars
  <2>3. ASSUME NEW id \in Ids, NEW s \in Sessions \cup {0},
               tokens'.sessions = [tokens.sessions EXCEPT ![id] = s],
               tokens'.sessions # tokens.sessions
        PROVE  Vault!Next
    <3>1. tokens.sessions \in [Ids -> Sessions \cup {0}]
      BY DEF TypeOK, Tokens
    <3>2. CASE s \in Sessions
      BY <1>1, <2>1, <2>3, <3>2 DEF Vault!Next, Vault!Store
    <3>3. CASE s = 0
      <4>1. tokens.sessions[id] # 0 /\ tokens'.sessions[id] = 0
        BY <2>3, <3>1, <3>3
      <4>2. id \notin Linked
        BY <1>1, <2>1, <4>1 DEF Safe, IoOK, Over
      <4> QED
        BY <1>1, <2>1, <2>3, <3>3, <4>2 DEF Vault!Next, Vault!Forget
    <3> QED
      BY <3>2, <3>3
  <2> QED
    BY <1>1, <2>1, <2>2, <2>3 DEF Safe, IoOK
<1> QED
  BY <1>3, <1>4

\* The flows, setup and settings of BankLinks together implement SessionVault: unless
\* saves overlap, a bank has a session from before it is linked until it is removed.
THEOREM Refinement == Spec => KeepsSessions
<1>1. Init => Vault!Init
  <2> SUFFICES ASSUME Init PROVE Vault!Init
    OBVIOUS
  <2>1. Linked = {} /\ ~overlapped
    BY DEF Init, Linked, NoSub
  <2>2. tokens.sessions \in [Ids -> Sessions \cup {0}]
    BY DEF Init
  <2> QED
    BY <2>1, <2>2 DEF Init, Vault!Init
<1>2. ASSUME IInv, IInv', [Next]_vars PROVE [Vault!Next]_(Vault!vars)
  <2> USE DEF IInv
  <2>1. ASSUME NEW a \in Actors, Save(a) PROVE [Vault!Next]_(Vault!vars)
    BY <1>2, <2>1, SaveRefines
  <2>2. ASSUME NEW f \in Flows, AddSubentry(f) PROVE [Vault!Next]_(Vault!vars)
    <3>1. flows[f].bank \in Banks /\ flows[f].id \in Ids
      BY <1>2, <2>2 DEF AddSubentry, Safe, FlowsOK
    <3>2. tokens.sessions[flows[f].id] # 0 \/ overlapped
      BY <1>2, <2>2 DEF AddSubentry, Safe, StoredFirst, Secured
    <3>3. Linked' = Linked \cup {flows[f].id}
      <4>1. ASSUME NEW id \in Ids
            PROVE  subs'[id].bank # NoBank <=> subs[id].bank # NoBank \/ id = flows[f].id
        BY <1>2, <2>2, <3>1, BankLinksAssumption DEF AddSubentry, NewSub, TypeOK
      <4> QED
        BY <3>1, <4>1 DEF Linked
    <3> QED
      BY <2>2, <3>1, <3>2, <3>3 DEF AddSubentry, fileVars, Vault!Next, Vault!Link
  <2>3. ASSUME NEW f \in Flows, UpdateSubentry(f) PROVE [Vault!Next]_(Vault!vars)
    <3>1. NewSub(f, subs[flows[f].id].unique).bank # NoBank
      BY <1>2, <2>3, BankLinksAssumption DEF UpdateSubentry, NewSub, Safe, FlowsOK
    <3>2. Linked' = Linked
      <4> HIDE DEF NewSub
      <4> QED
        BY <1>2, <2>3, <3>1 DEF UpdateSubentry, Linked, TypeOK
    <3> QED
      BY <2>3, <3>2 DEF UpdateSubentry, fileVars, Vault!vars
  <2>4. ASSUME NEW b \in Banks, AddMigrated(b) PROVE [Vault!Next]_(Vault!vars)
    <3>1. PICK id \in Ids : mgr.current = {id}
      BY <1>2, <2>4 DEF AddMigrated, Safe, SetupOK
    <3>2. tokens.sessions[id] # 0 \/ overlapped
      BY <1>2, <2>4, <3>1 DEF AddMigrated, Safe, StoredFirst, Secured
    <3>3. Linked' = Linked \cup {id}
      <4>1. ASSUME NEW i \in Ids
            PROVE  subs'[i].bank # NoBank <=> subs[i].bank # NoBank \/ i = id
        BY <2>4, <3>1, BankLinksAssumption DEF AddMigrated
      <4> QED
        BY <4>1 DEF Linked
    <3> QED
      BY <2>4, <3>2, <3>3 DEF AddMigrated, fileVars, Vault!Next, Vault!Link
  <2>5. ASSUME NEW id \in Ids, RemoveBank(id) PROVE [Vault!Next]_(Vault!vars)
    <3>1. Linked' = Linked \ {id}
      BY <1>2, <2>5 DEF RemoveBank, Linked, NoSub, TypeOK
    <3> QED
      BY <2>5, <3>1 DEF RemoveBank, fileVars, Vault!Next, Vault!Unlink
  <2>6. ASSUME \/ \E f \in Flows : \/ \E b \in Banks : PickBank(f, b)
                                   \/ \E id \in Ids : Reconfigure(f, id)
                                   \/ GiveUp(f) \/ StoreRecords(f) \/ StoreSession(f)
                                   \/ AddRefused(f)
        PROVE  [Vault!Next]_(Vault!vars)
    BY <2>6 DEF PickBank, Reconfigure, GiveUp, StoreRecords, StoreSession, AddRefused,
                entryVars, fileVars, Linked, Vault!vars
  <2>7. ASSUME \/ Boot \/ Migrate \/ NothingToMigrate \/ PruneStart
               \/ StartSetupCheck \/ EndSetupCheck \/ FinishSetup
               \/ \E c \in Callers, id \in Ids : ReadConsent(c, id)
               \/ \E id \in Ids : PruneOne(id)
               \/ \E written \in BOOLEAN : PruneEnd(written) \/ Reload(written)
        PROVE  [Vault!Next]_(Vault!vars)
    BY <2>7 DEF Boot, Migrate, NothingToMigrate, PruneStart, StartSetupCheck, EndSetupCheck,
                FinishSetup, ReadConsent, PruneOne, PruneEnd, Reload, entryVars, fileVars, Linked, Vault!vars
  <2>8. ASSUME \/ \E id \in Ids : Rejected(id)
               \/ \E s \in Sessions : Revoke(s)
               \/ StoreCredentials \/ Stop \/ Tick
               \/ StartRound \/ StartRoundCheck \/ EndRound \/ StartDaily \/ EndDaily
               \/ UNCHANGED vars
        PROVE  [Vault!Next]_(Vault!vars)
    BY <2>8 DEF Rejected, Revoke, StoreCredentials, Stop, Tick,
                StartRound, StartRoundCheck, EndRound, StartDaily, EndDaily, vars, entryVars, fileVars, Linked, Vault!vars
  <2> QED
    BY <1>2, <2>1, <2>2, <2>3, <2>4, <2>5, <2>6, <2>7, <2>8 
    DEF Next, FlowStep, SetupStep, RoundStep, DailyStep, Callers
<1> QED
  BY <1>1, <1>2, Invariance, PTL DEF Spec, KeepsSessions, Vault!Spec

-----------------------------------------------------------------------------
(* Expired is true *)

\* A mark names a consent the bank has refused.
True(marks) == \A id \in Ids : marks[id] = 0 \/ marks[id] \in refused

MarksTrue == True(mgr.marks) /\ True(round.marks) /\ True(daily.marks)

\* What a check has read is what the bank still has, unless its consent has changed
\* since the check began.
Watched ==
  \A c \in Callers : Checking(c) =>
    \A id \in Ids : reads[c].until[id] \in {0, Consent(id)} \/ id \in changed[c]

LEMMA InitMarks == Init => MarksTrue /\ Watched
BY DEF Init, MarksTrue, True, Down, NoRound, NoDaily, NoReads, NoMarks, Watched

\* Where an action leaves the marks, or empties them, nothing is to be shown.
LEMMA MarksStay ==
  ASSUME MarksTrue,
         \A s : s \in refused => s \in refused',
         mgr'.marks \in {mgr.marks, NoMarks},
         round'.marks \in {round.marks, mgr.marks, NoMarks},
         daily'.marks \in {daily.marks, mgr.marks, NoMarks}
  PROVE  MarksTrue'
<1>1. \A id \in Ids : NoMarks[id] = 0
  BY DEF NoMarks
<1> QED
  BY <1>1 DEF MarksTrue, True

LEMMA SetupMarks ==
  ASSUME TypeOK, MarksTrue, SetupStep
  PROVE  MarksTrue'
<1> USE DEF checkVars, roundVars, bankVars
<1>1. CASE Boot
  BY <1>1, MarksStay DEF Boot, Down
<1>2. CASE Migrate
  <2>1. mgr'.marks = mgr.marks
    BY <1>2 DEF Migrate, TypeOK
  <2> QED
    BY <1>2, <2>1, MarksStay DEF Migrate
<1>3. CASE NothingToMigrate \/ PruneStart \/ StartSetupCheck \/ EndSetupCheck \/ FinishSetup
  <2>1. mgr'.marks = mgr.marks
    BY <1>3 DEF NothingToMigrate, PruneStart, StartSetupCheck, EndSetupCheck, FinishSetup, TypeOK
  <2> QED
    BY <1>3, <2>1, MarksStay DEF NothingToMigrate, PruneStart, StartSetupCheck, EndSetupCheck,
                                 FinishSetup
<1>4. ASSUME NEW b \in Banks, AddMigrated(b) PROVE MarksTrue'
  <2>1. mgr'.marks = mgr.marks
    BY <1>4 DEF AddMigrated, TypeOK
  <2> QED
    BY <1>4, <2>1, MarksStay DEF AddMigrated
<1>5. ASSUME NEW id \in Ids, PruneOne(id) PROVE MarksTrue'
  <2>1. mgr'.marks = [mgr.marks EXCEPT ![id] = 0]
    BY <1>5 DEF PruneOne, TypeOK
  <2>2. mgr.marks \in [Ids -> 0 .. MaxSession]
    BY DEF TypeOK
  <2>3. True(mgr'.marks)
    BY <2>1, <2>2 DEF MarksTrue, True
  <2> QED
    BY <1>5, <2>3 DEF PruneOne, MarksTrue, True
<1>6. ASSUME NEW written \in BOOLEAN, PruneEnd(written) PROVE MarksTrue'
  <2>1. mgr'.marks = mgr.marks
    BY <1>6 DEF PruneEnd, TypeOK
  <2> QED
    BY <1>6, <2>1, MarksStay DEF PruneEnd
<1>7. ASSUME NEW written \in BOOLEAN, Reload(written) PROVE MarksTrue'
  <2>1. /\ mgr'.marks = NoMarks /\ round'.marks = round.marks
        /\ daily'.marks \in {daily.marks, mgr.marks}
    BY <1>7 DEF Reload, Down, TypeOK
  <2> QED
    BY <1>7, <2>1, MarksStay DEF Reload
<1>8. ASSUME NEW id \in Ids, ReadConsent("setup", id) PROVE MarksTrue'
  BY <1>8, MarksStay DEF ReadConsent
<1> QED
  BY <1>1, <1>2, <1>3, <1>4, <1>5, <1>6, <1>7, <1>8 DEF SetupStep

\* Marks, refused consents, checks and issues are none of a flow's business.
LEMMA FlowLeavesMarks ==
  ASSUME NEW f \in Flows, FlowStep(f)
  PROVE  UNCHANGED <<mgr, round, daily, reads, refused, issues>>
<1> DEFINE Left == UNCHANGED <<mgr, round, daily, reads, refused, issues>>
<1> USE DEF checkVars, roundVars, bankVars
<1>1. ASSUME NEW b \in Banks, PickBank(f, b) PROVE Left
  BY <1>1 DEF PickBank
<1>2. ASSUME NEW id \in Ids, Reconfigure(f, id) PROVE Left
  BY <1>2 DEF Reconfigure
<1>3. CASE GiveUp(f) \/ AddRefused(f)
  BY <1>3 DEF GiveUp, AddRefused
<1>4. CASE StoreRecords(f)
  BY <1>4 DEF StoreRecords
<1>5. CASE StoreSession(f)
  BY <1>5 DEF StoreSession
<1>6. CASE AddSubentry(f)
  BY <1>6 DEF AddSubentry
<1>7. CASE UpdateSubentry(f)
  BY <1>7 DEF UpdateSubentry
<1> QED
  BY <1>1, <1>2, <1>3, <1>4, <1>5, <1>6, <1>7 DEF FlowStep

LEMMA RoundMarks ==
  ASSUME TypeOK, MarksTrue, RoundStep \/ DailyStep
  PROVE  MarksTrue'
<1> USE DEF bankVars
<1>1. ASSUME NEW id \in Ids, Rejected(id) PROVE MarksTrue'
  <2> DEFINE s == reads["round"].until[id]
  <2>1. /\ s \in refused /\ refused' = refused
        /\ round.marks \in [Ids -> 0 .. MaxSession] /\ mgr.marks \in [Ids -> 0 .. MaxSession]
        /\ daily.marks \in [Ids -> 0 .. MaxSession]
    BY <1>1 DEF Rejected, TypeOK
  <2>2. /\ round'.marks = [round.marks EXCEPT ![id] = s]
        /\ mgr'.marks \in {mgr.marks, [mgr.marks EXCEPT ![id] = s]}
        /\ daily'.marks \in {daily.marks, [daily.marks EXCEPT ![id] = s]}
    BY <1>1 DEF Rejected, TypeOK
  <2> HIDE DEF s
  <2> QED
    BY <2>1, <2>2 DEF MarksTrue, True
<1>2. CASE StartRound \/ StartRoundCheck
  <2>1. round'.marks \in {round.marks, mgr.marks} /\ UNCHANGED <<mgr, daily, refused>>
    BY <1>2 DEF StartRound, StartRoundCheck, TypeOK
  <2> QED
    BY <2>1, MarksStay
<1>3. CASE EndRound \/ StartDaily \/ EndDaily
  <2>1. /\ UNCHANGED <<mgr, refused>> /\ round'.marks \in {round.marks, NoMarks}
        /\ daily'.marks \in {daily.marks, NoMarks}
    <3>1. CASE EndRound
      <4>1. daily'.marks = daily.marks
        BY <3>1 DEF EndRound, TypeOK
      <4> QED
        BY <3>1, <4>1 DEF EndRound, NoRound
    <3>2. CASE StartDaily
      <4>1. /\ daily' = [NoDaily EXCEPT !.on = TRUE, !.own = TRUE]
            /\ UNCHANGED <<mgr, refused, round>>
        BY <3>2 DEF StartDaily
      <4> QED
        BY <4>1 DEF NoDaily
    <3>3. CASE EndDaily
      <4>1. daily' = NoDaily /\ UNCHANGED <<mgr, refused, round>>
        BY <3>3 DEF EndDaily
      <4> QED
        BY <4>1 DEF NoDaily
    <3> QED
      BY <1>3, <3>1, <3>2, <3>3
  <2> QED
    BY <2>1, MarksStay
<1>4. ASSUME NEW c \in Callers, NEW id \in Ids, ReadConsent(c, id) PROVE MarksTrue'
  BY <1>4, MarksStay DEF ReadConsent
<1> QED
  BY <1>1, <1>2, <1>3, <1>4 DEF RoundStep, DailyStep, Callers

LEMMA MarksKept ==
  ASSUME TypeOK, MarksTrue, [Next]_vars
  PROVE  MarksTrue'
<1>1. ASSUME NEW f \in Flows, FlowStep(f) PROVE MarksTrue'
  BY <1>1, FlowLeavesMarks, MarksStay
<1>2. CASE SetupStep
  BY <1>2, SetupMarks
<1>3. CASE RoundStep \/ DailyStep
  BY <1>3, RoundMarks
<1>4. CASE \/ \E a \in Actors : Save(a)
           \/ \E id \in Ids : RemoveBank(id)
           \/ StoreCredentials \/ Tick
           \/ UNCHANGED vars
  <2>1. UNCHANGED <<mgr, round, daily, refused>>
    BY <1>4 DEF Save, RemoveBank, StoreCredentials, Tick, bankVars, checkVars, roundVars, vars
  <2> QED
    BY <2>1, MarksStay
<1>5. CASE Stop \/ \E s \in Sessions : Revoke(s)
  BY <1>5, MarksStay DEF Stop, Revoke, Down, NoRound, NoDaily, bankVars, checkVars, roundVars
<1> QED
  BY <1>1, <1>2, <1>3, <1>4, <1>5 DEF Next

\* A step that touches no check: it watches what it does to the consents, or does nothing.
LEMMA WatchKept ==
  ASSUME Watched, reads' = reads,
         \A c \in Callers : Checking(c)' => Checking(c),
         Watch \/ (changed' = changed /\ \A id \in Ids : Consent(id)' = Consent(id))
  PROVE  Watched'
<1> SUFFICES ASSUME NEW c \in Callers, Checking(c)', NEW id \in Ids,
                    reads[c].until[id] # 0, reads[c].until[id] # Consent(id)'
             PROVE  id \in changed'[c]
  BY DEF Watched
<1>1. Checking(c) /\ (reads[c].until[id] = Consent(id) \/ id \in changed[c])
  BY DEF Watched
<1>2. CASE Watch
  <2>1. changed'[c] = changed[c] \cup {i \in Ids : Consent(i)' # Consent(i)}
    BY <1>1, <1>2 DEF Watch
  <2> QED
    BY <1>1, <2>1
<1>3. CASE changed' = changed /\ \A i \in Ids : Consent(i)' = Consent(i)
  BY <1>1, <1>3
<1> QED
  BY <1>2, <1>3

\* A step of the check of c, which leaves the consents and the other checks alone.
LEMMA CheckKept ==
  ASSUME Watched, NEW c \in Callers,
         \A d \in Callers \ {c} : /\ reads'[d] = reads[d] /\ changed'[d] = changed[d]
                                  /\ Checking(d)' => Checking(d),
         \A id \in Ids : Consent(id)' = Consent(id),
         Checking(c)' => \A id \in Ids : reads'[c].until[id] \in {0, Consent(id)}
                                         \/ id \in changed'[c]
  PROVE  Watched'
BY DEF Watched

LEMMA ReadKept ==
  ASSUME TypeOK, Watched, NEW c \in Callers, NEW i \in Ids, ReadConsent(c, i)
  PROVE  Watched'
<1>1. /\ \A d \in Callers : Checking(d)' <=> Checking(d)
      /\ \A id \in Ids : Consent(id)' = Consent(id)
      /\ changed' = changed
  BY DEF ReadConsent, Checking, Consent, entryVars, fileVars
<1>2. \A d \in Callers \ {c} : reads'[d] = reads[d]
  BY DEF ReadConsent, TypeOK
<1>3. reads'[c].until = [reads[c].until EXCEPT ![i] = Consent(i)]
      /\ reads[c].until \in [Ids -> 0 .. MaxSession]
  BY DEF ReadConsent, TypeOK
<1>4. \A id \in Ids : reads'[c].until[id] = IF id = i THEN Consent(i) ELSE reads[c].until[id]
  BY <1>3
<1>5. Checking(c)' => \A id \in Ids : reads'[c].until[id] \in {0, Consent(id)}
                                      \/ id \in changed'[c]
  BY <1>1, <1>4 DEF Watched
<1> QED
  BY <1>1, <1>2, <1>5, CheckKept

LEMMA ListsNothing ==
  ASSUME TypeOK, NEW c \in Callers, ListBanks(c) \/ reads' = [reads EXCEPT ![c] = NoReads]
  PROVE  /\ \A d \in Callers \ {c} : reads'[d] = reads[d]
         /\ \A id \in Ids : reads'[c].until[id] = 0
BY DEF ListBanks, NoReads, NoMarks, TypeOK

LEMMA SetupWatched ==
  ASSUME TypeOK, Watched, SetupStep
  PROVE  Watched'
<1> USE DEF Checking, checkVars, roundVars
<1>1. CASE Boot \/ Migrate \/ NothingToMigrate \/ PruneStart \/ FinishSetup
  <2>1. /\ UNCHANGED <<reads, changed, round, daily>> /\ mgr'.phase # "checking"
        /\ \A id \in Ids : Consent(id)' = Consent(id)
    BY <1>1 DEF Boot, Migrate, NothingToMigrate, PruneStart, FinishSetup, TypeOK, Down, Consent,
                entryVars, fileVars
  <2> QED
    BY <2>1, WatchKept
<1>2. CASE StartSetupCheck
  <2>1. /\ UNCHANGED <<round, daily, changed>> /\ \A id \in Ids : Consent(id)' = Consent(id)
        /\ ListBanks("setup") /\ "setup" \in Callers
    BY <1>2 DEF StartSetupCheck, Consent, entryVars, fileVars, Callers
  <2> QED
    BY <2>1, ListsNothing, CheckKept
<1>3. CASE EndSetupCheck
  <2>1. /\ UNCHANGED <<round, daily>> /\ \A id \in Ids : Consent(id)' = Consent(id)
        /\ reads' = [reads EXCEPT !["setup"] = NoReads] /\ "setup" \in Callers
        /\ \A d \in Callers \ {"setup"} : changed'[d] = changed[d]
        /\ mgr'.phase = "platforms"
    BY <1>3 DEF EndSetupCheck, RaiseIssues, Consent, entryVars, fileVars, Callers, TypeOK
  <2> QED
    BY <2>1, ListsNothing, CheckKept
<1>4. ASSUME NEW b \in Banks, AddMigrated(b) PROVE Watched'
  <2>1. UNCHANGED <<reads, round, daily>> /\ Watch /\ mgr'.phase # "checking"
    BY <1>4 DEF AddMigrated, TypeOK
  <2> QED
    BY <2>1, WatchKept
<1>5. ASSUME NEW id \in Ids, PruneOne(id) PROVE Watched'
  <2>1. /\ UNCHANGED <<reads, changed, round, daily>> /\ mgr'.phase # "checking"
        /\ \A i \in Ids : Consent(i)' = Consent(i)
    BY <1>5 DEF PruneOne, TypeOK, Consent, entryVars
  <2> QED
    BY <2>1, WatchKept
<1>6. ASSUME NEW written \in BOOLEAN, PruneEnd(written) PROVE Watched'
  <2>1. /\ UNCHANGED <<reads, changed, round, daily>> /\ mgr'.phase # "checking"
        /\ \A i \in Ids : Consent(i)' = Consent(i)
    BY <1>6 DEF PruneEnd, TypeOK, Consent, entryVars, fileVars
  <2> QED
    BY <2>1, WatchKept
<1>7. ASSUME NEW written \in BOOLEAN, Reload(written) PROVE Watched'
  <2>1. /\ UNCHANGED <<reads, changed>> /\ mgr'.phase = "down"
        /\ round'.step = round.step /\ daily'.on = daily.on
        /\ \A i \in Ids : Consent(i)' = Consent(i)
    BY <1>7 DEF Reload, Down, TypeOK, Consent, entryVars, fileVars
  <2> QED
    BY <2>1, WatchKept
<1>8. ASSUME NEW id \in Ids, ReadConsent("setup", id) PROVE Watched'
  BY <1>8, ReadKept DEF Callers
<1> QED
  BY <1>1, <1>2, <1>3, <1>4, <1>5, <1>6, <1>7, <1>8 DEF SetupStep

LEMMA RoundWatched ==
  ASSUME TypeOK, Watched, RoundStep \/ DailyStep
  PROVE  Watched'
<1> USE DEF Checking
<1>1. CASE StartRound
  <2>1. /\ UNCHANGED <<mgr, daily, changed>> /\ round'.step = "fetch"
        /\ \A id \in Ids : Consent(id)' = Consent(id)
        /\ \A d \in Callers \ {"round"} : reads'[d] = reads[d]
    BY <1>1 DEF StartRound, Consent, entryVars, fileVars, TypeOK
  <2> QED
    BY <2>1, CheckKept DEF Callers
<1>2. ASSUME NEW id \in Ids, Rejected(id) PROVE Watched'
  <2>1. /\ UNCHANGED <<reads, changed>> /\ mgr'.phase = mgr.phase
        /\ round'.step = round.step /\ daily'.on = daily.on
        /\ \A i \in Ids : Consent(i)' = Consent(i)
    BY <1>2 DEF Rejected, TypeOK, Consent, entryVars, fileVars
  <2> QED
    BY <2>1, WatchKept
<1>3. CASE StartRoundCheck
  <2>1. /\ UNCHANGED <<mgr, daily, changed>> /\ ListBanks("round") /\ "round" \in Callers
        /\ \A id \in Ids : Consent(id)' = Consent(id)
    BY <1>3 DEF StartRoundCheck, Consent, entryVars, fileVars, Callers
  <2> QED
    BY <2>1, ListsNothing, CheckKept
<1>4. CASE EndRound
  <2>1. /\ mgr' = mgr /\ daily'.on = daily.on /\ \A id \in Ids : Consent(id)' = Consent(id)
        /\ reads' = [reads EXCEPT !["round"] = NoReads] /\ "round" \in Callers
        /\ \A d \in Callers \ {"round"} : changed'[d] = changed[d]
    BY <1>4 DEF EndRound, RaiseIssues, Consent, entryVars, fileVars, Callers, TypeOK
  <2>2. round'.step = "off"
    BY <1>4 DEF EndRound, NoRound
  <2> QED
    BY <2>1, <2>2, ListsNothing, CheckKept
<1>5. CASE StartDaily
  <2>1. /\ UNCHANGED <<mgr, round, changed>> /\ ListBanks("daily") /\ "daily" \in Callers
        /\ \A id \in Ids : Consent(id)' = Consent(id)
    BY <1>5 DEF StartDaily, Consent, entryVars, fileVars, Callers
  <2> QED
    BY <2>1, ListsNothing, CheckKept
<1>6. CASE EndDaily
  <2>1. /\ UNCHANGED <<mgr, round>> /\ \A id \in Ids : Consent(id)' = Consent(id)
        /\ reads' = [reads EXCEPT !["daily"] = NoReads] /\ "daily" \in Callers
        /\ \A d \in Callers \ {"daily"} : changed'[d] = changed[d]
    BY <1>6 DEF EndDaily, RaiseIssues, Consent, entryVars, fileVars, Callers, TypeOK
  <2>2. ~daily'.on
    BY <1>6 DEF EndDaily, NoDaily
  <2> QED
    BY <2>1, <2>2, ListsNothing, CheckKept
<1>7. ASSUME NEW c \in Callers, NEW id \in Ids, ReadConsent(c, id) PROVE Watched'
  BY <1>7, ReadKept
<1> QED
  BY <1>1, <1>2, <1>3, <1>4, <1>5, <1>6, <1>7 DEF RoundStep, DailyStep, Callers

LEMMA ChangesWatched ==
  ASSUME TypeOK, Watched, [Next]_vars
  PROVE  Watched'
<1> USE DEF Checking
<1>1. ASSUME NEW f \in Flows, FlowStep(f) PROVE Watched'
  <2>1. UNCHANGED <<mgr, round, daily, reads>>
    BY <1>1, FlowLeavesMarks
  <2>2. CASE AddSubentry(f) \/ UpdateSubentry(f)
    BY <2>1, <2>2, WatchKept DEF AddSubentry, UpdateSubentry
  <2>3. CASE \/ \E b \in Banks : PickBank(f, b)
             \/ \E id \in Ids : Reconfigure(f, id)
             \/ GiveUp(f) \/ StoreRecords(f) \/ StoreSession(f) \/ AddRefused(f)
    <3>1. changed' = changed /\ \A id \in Ids : Consent(id)' = Consent(id)
      BY <2>3 DEF PickBank, Reconfigure, GiveUp, StoreRecords, StoreSession, AddRefused,
                  Consent, entryVars, fileVars, checkVars
    <3> QED
      BY <2>1, <3>1, WatchKept
  <2> QED
    BY <1>1, <2>2, <2>3 DEF FlowStep
<1>2. CASE SetupStep
  BY <1>2, SetupWatched
<1>3. CASE RoundStep \/ DailyStep
  BY <1>3, RoundWatched
<1>4. ASSUME NEW a \in Actors, Save(a) PROVE Watched'
  BY <1>4, WatchKept DEF Save, roundVars
<1>5. ASSUME NEW id \in Ids, RemoveBank(id) PROVE Watched'
  <2>1. UNCHANGED <<mgr, round, daily, reads, changed, tokens>>
    BY <1>5 DEF RemoveBank, checkVars, roundVars, fileVars
  <2>2. \A i \in Ids : subs'[i].until = subs[i].until
    BY <1>5 DEF RemoveBank, NoSub, TypeOK
  <2> QED
    BY <2>1, <2>2, WatchKept DEF Consent
<1>6. CASE Stop
  BY <1>6 DEF Stop, Down, NoRound, NoDaily, Watched
<1>7. CASE StoreCredentials \/ Tick \/ (\E s \in Sessions : Revoke(s)) \/ UNCHANGED vars
  <2>1. UNCHANGED <<mgr, round, daily, reads, changed, tokens, subs>>
    BY <1>7 DEF StoreCredentials, Tick, Revoke, entryVars, fileVars, checkVars, roundVars, vars
  <2> QED
    BY <2>1, WatchKept DEF Consent
<1> QED
  BY <1>1, <1>2, <1>3, <1>4, <1>5, <1>6, <1>7 DEF Next

\* What the check of c says of a bank.
Said(c) ==
  \A id \in Ids :
    issues'[id] = "expired" /\ issues[id] # "expired" =>
      Ended(reads[c].until[id]) /\ (Ended(Consent(id)) \/ id \in changed[c])

\* An issue raised from marks that are true is.
LEMMA IssueIsTrue ==
  ASSUME TypeOK, Watched, NEW c \in Callers, Checking(c), NEW marks, True(marks),
         RaiseIssues(c, marks)
  PROVE  Said(c)
<1> SUFFICES ASSUME NEW id \in Ids, issues'[id] = "expired", issues[id] # "expired"
             PROVE  Ended(reads[c].until[id]) /\ (Ended(Consent(id)) \/ id \in changed[c])
  BY DEF Said
<1> DEFINE s == reads[c].until[id]
<1>1. issues' = IssuesWith(reads[c].until, marks)
  BY DEF RaiseIssues
<1>2. s # 0 /\ (marks[id] = s \/ ConsentState(s) = "expired")
  BY <1>1 DEF IssuesWith
<1>3. Ended(s)
  BY <1>2 DEF Ended, ConsentState, True
<1>4. s = Consent(id) \/ id \in changed[c]
  BY <1>2 DEF Watched
<1> QED
  BY <1>3, <1>4

\* Who is told that a consent has expired is told the truth of what a check has read,
\* which is the bank's own consent unless that changed while the check ran: issues are
\* raised by IssuesWith only, from marks that are true.
THEOREM ExpiredIsSaidTruly == Spec => ExpiredIsTrue
<1> DEFINE SaidTruly == \A id \in Ids :
                     issues'[id] = "expired" /\ issues[id] # "expired" =>
                       \E c \in Callers :
                         /\ Checking(c) /\ ~Checking(c)'
                         /\ Ended(reads[c].until[id])
                         /\ Ended(Consent(id)) \/ id \in changed[c]
<1>1. ASSUME IInv, MarksTrue, Watched, [Next]_vars PROVE SaidTruly
  <2> USE DEF IInv
  <2>1. ASSUME NEW c \in Callers, Checking(c), ~Checking(c)', Said(c) PROVE SaidTruly
    BY <2>1 DEF Said
  <2>2. CASE EndSetupCheck
    <3>1. /\ Checking("setup") /\ ~Checking("setup")' /\ RaiseIssues("setup", mgr.marks)
          /\ "setup" \in Callers
      BY <1>1, <2>2 DEF EndSetupCheck, Checking, Callers, TypeOK
    <3>2. Said("setup")
      BY <1>1, <3>1, IssueIsTrue DEF MarksTrue
    <3> QED
      BY <2>1, <3>1, <3>2
  <2>3. CASE EndRound
    <3>1. /\ Checking("round") /\ ~Checking("round")' /\ RaiseIssues("round", round.marks)
          /\ "round" \in Callers
      BY <2>3 DEF EndRound, Checking, Callers, NoRound
    <3>2. Said("round")
      BY <1>1, <3>1, IssueIsTrue DEF MarksTrue
    <3> QED
      BY <2>1, <3>1, <3>2
  <2>4. CASE EndDaily
    <3>1. PICK marks \in {mgr.marks, daily.marks} : RaiseIssues("daily", marks)
      BY <2>4 DEF EndDaily
    <3>2. Checking("daily") /\ ~Checking("daily")' /\ "daily" \in Callers
      BY <2>4 DEF EndDaily, Checking, Callers, NoDaily
    <3>3. True(marks)
      BY <1>1, <3>1 DEF MarksTrue, True
    <3>4. Said("daily")
      BY <1>1, <3>1, <3>2, <3>3, IssueIsTrue
    <3> QED
      BY <2>1, <3>2, <3>4
  <2>5. ASSUME NEW f \in Flows, FlowStep(f) PROVE issues' = issues
    BY <2>5, FlowLeavesMarks
  <2>6. CASE SetupStep /\ ~EndSetupCheck
    <3> USE DEF checkVars, roundVars
    <3>1. Boot \/ Migrate \/ NothingToMigrate \/ PruneStart \/ StartSetupCheck \/ FinishSetup
            => issues' = issues
      BY DEF Boot, Migrate, NothingToMigrate, PruneStart, StartSetupCheck, FinishSetup
    <3>2. \A b \in Banks : AddMigrated(b) => issues' = issues
      BY DEF AddMigrated
    <3>3. \A id \in Ids : PruneOne(id) \/ ReadConsent("setup", id) => issues' = issues
      BY DEF PruneOne, ReadConsent
    <3>4. \A written \in BOOLEAN : PruneEnd(written) \/ Reload(written) => issues' = issues
      BY DEF PruneEnd, Reload
    <3> QED
      BY <2>6, <3>1, <3>2, <3>3, <3>4 DEF SetupStep
  <2>7. CASE (RoundStep \/ DailyStep) /\ ~EndRound /\ ~EndDaily
    <3>1. issues' = issues
      BY <2>7 DEF RoundStep, DailyStep, StartRound, StartRoundCheck, Rejected, StartDaily, ReadConsent
    <3> QED
      BY <3>1
  <2>8. CASE \/ \E a \in Actors : Save(a)
             \/ \E id \in Ids : RemoveBank(id)
             \/ \E s \in Sessions : Revoke(s)
             \/ StoreCredentials \/ Stop \/ Tick
             \/ UNCHANGED vars
    <3>1. issues' = issues
      BY <2>8 DEF Save, RemoveBank, Revoke, StoreCredentials, Stop, Tick, vars, checkVars, roundVars
    <3> QED
      BY <3>1
  <2> QED
    BY <1>1, <2>2, <2>3, <2>4, <2>5, <2>6, <2>7, <2>8 DEF Next
<1>2. IInv /\ MarksTrue /\ Watched /\ [Next]_vars => MarksTrue' /\ Watched'
  BY MarksKept, ChangesWatched DEF IInv
<1>3. IInv /\ MarksTrue /\ Watched /\ [Next]_vars => [SaidTruly]_vars
  BY <1>1
<1> QED
  BY <1>2, <1>3, InitMarks, Invariance, PTL DEF Spec, ExpiredIsTrue
=============================================================================
