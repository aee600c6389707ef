------------------------------- MODULE BankLinks -------------------------------
(***************************************************************************)
(* Linking, renewing and removing banks: the subentry flows, the token     *)
(* file of the credential store that flows, setup and settings read and    *)
(* write through objects of their own, the setup that turns a legacy       *)
(* session into a bank and prunes the sessions of removed ones, and the    *)
(* repair issues about consents that end.                                  *)
(*                                                                         *)
(* A session is a number; so is the id of a bank subentry, and no id is    *)
(* used twice.  The account records are those of Accounts, reduced to the  *)
(* banks that have some.                                                   *)
(***************************************************************************)
EXTENDS Naturals, FiniteSets

CONSTANTS
  Banks, NoBank,
  Flows,       \* subentry flows that may run at a time
  Lifetime,    \* how long a consent lasts
  WarnTime,    \* how long before its end the user is warned
  MaxSession,  \* bound: sessions issued
  MaxId,       \* bound: subentries created
  MaxNow       \* bound: the clock

ASSUME BankLinksAssumption ==
  /\ NoBank \notin Banks
  /\ "setup" \notin Flows /\ "settings" \notin Flows
  /\ Lifetime \in Nat /\ WarnTime \in Nat
  /\ MaxSession \in Nat \ {0} /\ MaxId \in Nat /\ MaxNow \in Nat

Ids == 1 .. MaxId
Sessions == 1 .. MaxSession
Actors == Flows \cup {"setup", "settings"}
Callers == {"setup", "round", "daily"}   \* who asks for the consents of all banks

VARIABLES
  subs,       \* the bank subentries of the entry
  records,    \* banks with account records in the entry
  lastId, lastSession,
  ends,       \* the end of a session's consent
  now,
  tokens,     \* the token file
  io,         \* what an operation has loaded and is about to save
  flows,      \* the subentry flows
  mgr,        \* the manager: its phase, the banks it migrates or prunes, refused consents
  known,      \* ledger meta known_banks, in memory and saved
  seen,       \* what forces a reload, as of the end of the last setup
  reload,     \* a reload is scheduled
  round,      \* the refresh: how far it is, the marks of its manager
  daily,      \* the check of the consents after the daily refresh, and its marks
  reads,      \* _async_bank_targets: the banks still to be read, the consents read
  refused,    \* sessions the bank has revoked
  issues,     \* repair issues
  overlapped, \* ghost: a save has overwritten another
  changed     \* ghost: the banks whose consent has changed while a check ran

vars == <<subs, records, lastId, lastSession, ends, now, tokens, io, flows, mgr, known, seen,
          reload, round, daily, reads, refused, issues, overlapped, changed>>

entryVars == <<subs, records, lastId>>
bankVars == <<lastSession, ends, now, refused>>
fileVars == <<tokens, io, overlapped>>
roundVars == <<round, daily, reads, issues>>
checkVars == <<roundVars, changed>>

-----------------------------------------------------------------------------
(* Data *)

NoSub == [bank |-> NoBank, until |-> 0, unique |-> FALSE]
Linked == {id \in Ids : subs[id].bank # NoBank}

\* api: the application's credentials; legacy: the session of the time before subentries.
Tokens == [api : {"old", "new"}, legacy : Sessions \cup {0}, sessions : [Ids -> Sessions \cup {0}]]

NoTokens == [api |-> "old", legacy |-> 0, sessions |-> [id \in Ids |-> 0]]
NoIo == [on |-> FALSE, base |-> NoTokens, new |-> NoTokens]
Busy(actor) == io[actor].on

\* Every operation of the store loads the file, changes it and saves it.
Open(actor, new) == io' = [io EXCEPT ![actor] = [on |-> TRUE, base |-> tokens, new |-> new]]

WithSession(id, s) == [tokens EXCEPT !.sessions[id] = s]

\* The consent of a bank as the credential store has it, else as the subentry has it.
Consent(id) == IF tokens.sessions[id] # 0 THEN tokens.sessions[id] ELSE subs[id].until

\* A check of the consents is under way.
Checking(c) ==
  \/ c = "setup" /\ mgr.phase = "checking"
  \/ c = "round" /\ round.step = "check"
  \/ c = "daily" /\ daily.on

Watch ==
  changed' = [c \in Callers |-> IF Checking(c)
                                THEN changed[c] \cup {id \in Ids : Consent(id)' # Consent(id)}
                                ELSE {}]

Save(actor) ==
  /\ Busy(actor)
  /\ tokens' = io[actor].new
  /\ overlapped' = (overlapped \/ tokens # io[actor].base)
  /\ io' = [io EXCEPT ![actor] = NoIo]
  /\ reload' = (reload \/ actor = "settings")
  /\ UNCHANGED <<entryVars, bankVars, flows, mgr, known, seen, roundVars>>
  /\ Watch

\* _structure_signature and its listener.
Structure(s, r) == [subs |-> s, records |-> r]

Notify == reload' = (reload \/ (mgr.phase = "ready" /\ seen # Structure(subs', records')))

NoMarks == [id \in Ids |-> 0]
NoRound == [step |-> "off", marks |-> NoMarks, own |-> FALSE]
NoDaily == [on |-> FALSE, own |-> FALSE, beside |-> FALSE, marks |-> NoMarks]
NoReads == [left |-> {}, until |-> NoMarks]
NoFlow == [step |-> "idle", bank |-> NoBank, id |-> 0, session |-> 0, end |-> 0]
Down == [phase |-> "down", prune |-> {}, current |-> {}, marks |-> NoMarks]

\* A new install, or one with the legacy session and the records of its bank; its
\* consent may be over, or refused.
Init ==
  /\ subs = [id \in Ids |-> NoSub]
  /\ \/ records = {} /\ lastSession = 0
     \/ \E b \in Banks : records = {b} /\ lastSession = 1
  /\ lastId = 0 /\ now = 0
  /\ \E end \in 0 .. Lifetime : ends = [s \in Sessions |-> IF s <= lastSession THEN end ELSE 0]
  /\ refused \in SUBSET (1 .. lastSession)
  /\ tokens = [api |-> "old", legacy |-> lastSession, sessions |-> [id \in Ids |-> 0]]
  /\ io = [actor \in Actors |-> NoIo]
  /\ flows = [f \in Flows |-> NoFlow]
  /\ mgr = Down
  /\ known = [memory |-> {}, saved |-> {}]
  /\ seen = Structure(subs, records)
  /\ reload = FALSE /\ round = NoRound /\ daily = NoDaily
  /\ reads = [c \in Callers |-> NoReads]
  /\ issues = [id \in Ids |-> "none"]
  /\ overlapped = FALSE /\ changed = [c \in Callers |-> {}]

-----------------------------------------------------------------------------
(* The subentry flow *)

\* async_step_user, async_step_bank: a new bank, unless it is linked already.
PickBank(f, b) ==
  /\ flows[f].step = "idle"
  /\ \A id \in Linked : ~(subs[id].unique /\ subs[id].bank = b)
  /\ flows' = [flows EXCEPT ![f] = [NoFlow EXCEPT !.step = "authorize", !.bank = b,
                                                  !.end = now + Lifetime]]
  /\ UNCHANGED <<entryVars, bankVars, fileVars, mgr, known, seen, reload, checkVars>>

\* async_step_reconfigure: the bank of a subentry again.
Reconfigure(f, id) ==
  /\ flows[f].step = "idle" /\ id \in Linked
  /\ flows' = [flows EXCEPT ![f] = [NoFlow EXCEPT !.step = "authorize", !.bank = subs[id].bank,
                                                  !.id = id, !.end = now + Lifetime]]
  /\ UNCHANGED <<entryVars, bankVars, fileVars, mgr, known, seen, reload, checkVars>>

\* The user declines, the bank fails, the test call fails, the flow is closed.
GiveUp(f) ==
  /\ flows[f].step = "authorize"
  /\ flows' = [flows EXCEPT ![f] = NoFlow]
  /\ UNCHANGED <<entryVars, bankVars, fileVars, mgr, known, seen, reload, checkVars>>

\* async_step_finish: the bank issues a session, the account records are stored.
\* A new bank gets the id of its subentry here, which nobody sees before.
StoreRecords(f) ==
  LET s == lastSession + 1
      id == IF flows[f].id = 0 THEN lastId + 1 ELSE flows[f].id
  IN
  /\ flows[f].step = "authorize"
  /\ s \in Sessions /\ id \in Ids
  /\ lastSession' = s
  /\ lastId' = IF flows[f].id = 0 THEN id ELSE lastId
  /\ ends' = [ends EXCEPT ![s] = flows[f].end]
  /\ records' = records \cup {flows[f].bank}
  /\ flows' = [flows EXCEPT ![f].step = IF flows[f].id = 0 THEN "new" ELSE "renew",
                            ![f].session = s, ![f].id = id]
  /\ UNCHANGED <<subs, now, refused, fileVars, mgr, known, seen, checkVars>>
  /\ Notify

\* async_store_bank_session
StoreSession(f) ==
  /\ flows[f].step \in {"new", "renew"} /\ ~Busy(f)
  /\ Open(f, WithSession(flows[f].id, flows[f].session))
  /\ flows' = [flows EXCEPT ![f].step = IF @ = "new" THEN "add" ELSE "update"]
  /\ UNCHANGED <<entryVars, bankVars, tokens, overlapped, mgr, known, seen, reload, checkVars>>

NewSub(f, unique) == [bank |-> flows[f].bank, until |-> flows[f].session, unique |-> unique]

\* The subentry before its session is in the file.
AddBeforeSession(f) ==
  /\ flows[f].step = "add"
  /\ \A id \in Linked : ~(subs[id].unique /\ subs[id].bank = flows[f].bank)
  /\ subs' = [subs EXCEPT ![flows[f].id] = NewSub(f, TRUE)]
  /\ flows' = [flows EXCEPT ![f] = NoFlow]
  /\ UNCHANGED <<records, lastId, bankVars, fileVars, mgr, known, seen, roundVars>>
  /\ Notify /\ Watch

AddSubentry(f) ==
  /\ flows[f].step = "add" /\ ~Busy(f)
  /\ \A id \in Linked : ~(subs[id].unique /\ subs[id].bank = flows[f].bank)
  /\ subs' = [subs EXCEPT ![flows[f].id] = NewSub(f, TRUE)]
  /\ flows' = [flows EXCEPT ![f] = NoFlow]
  /\ UNCHANGED <<records, lastId, bankVars, fileVars, mgr, known, seen, roundVars>>
  /\ Notify /\ Watch

\* Home Assistant refuses a second subentry of that unique id: the session goes again.
AddRefused(f) ==
  /\ flows[f].step = "add" /\ ~Busy(f)
  /\ \E id \in Linked : subs[id].unique /\ subs[id].bank = flows[f].bank
  /\ Open(f, WithSession(flows[f].id, 0))
  /\ flows' = [flows EXCEPT ![f] = NoFlow]
  /\ UNCHANGED <<entryVars, bankVars, tokens, overlapped, mgr, known, seen, reload, checkVars>>

\* async_update_and_abort, which fails when the bank has been removed meanwhile.
UpdateSubentry(f) ==
  /\ flows[f].step = "update" /\ ~Busy(f)
  /\ subs' = IF flows[f].id \in Linked
             THEN [subs EXCEPT ![flows[f].id] = NewSub(f, subs[flows[f].id].unique)]
             ELSE subs
  /\ flows' = [flows EXCEPT ![f] = NoFlow]
  /\ UNCHANGED <<records, lastId, bankVars, fileVars, mgr, known, seen, roundVars>>
  /\ Notify /\ Watch

\* The user removes a bank; its account records stay in the entry, and who has listed
\* the subentry before goes on with it as it was.
RemoveBank(id) ==
  /\ id \in Linked
  /\ subs' = [subs EXCEPT ![id] = [NoSub EXCEPT !.until = subs[id].until]]
  /\ UNCHANGED <<records, lastId, bankVars, fileVars, flows, mgr, known, seen, checkVars>>
  /\ Notify

\* The settings replace the API credentials, in the same file; a reload follows.
StoreCredentials ==
  /\ ~Busy("settings") /\ tokens.api = "old"
  /\ Open("settings", [tokens EXCEPT !.api = "new"])
  /\ UNCHANGED <<entryVars, bankVars, tokens, overlapped, flows, mgr, known, seen, reload, checkVars>>

-----------------------------------------------------------------------------
(* Setup *)

\* async_initialize: the ledger's meta comes from its file.
Boot ==
  /\ mgr.phase = "down"
  /\ mgr' = [Down EXCEPT !.phase = "migrate"]
  /\ known' = [known EXCEPT !.memory = known.saved]
  /\ UNCHANGED <<entryVars, bankVars, fileVars, flows, seen, reload, checkVars>>

\* async_migrate_legacy_session: session first, then the subentry.
Migrate ==
  /\ mgr.phase = "migrate" /\ ~Busy("setup")
  /\ Linked = {} /\ records # {} /\ tokens.legacy # 0
  /\ lastId + 1 \in Ids
  /\ lastId' = lastId + 1
  /\ Open("setup", WithSession(lastId + 1, tokens.legacy))
  /\ mgr' = [mgr EXCEPT !.phase = "migrating", !.current = {lastId + 1}]
  /\ UNCHANGED <<subs, records, bankVars, tokens, overlapped, flows, known, seen, reload, checkVars>>

\* The subentry takes the bank of the first record, and no unique id.
AddMigrated(b) ==
  /\ mgr.phase = "migrating" /\ ~Busy("setup") /\ b \in records
  /\ subs' = [id \in Ids |-> IF id \in mgr.current
                             THEN [bank |-> b, until |-> tokens.legacy, unique |-> FALSE]
                             ELSE subs[id]]
  /\ mgr' = [mgr EXCEPT !.phase = "prune", !.current = {}]
  /\ UNCHANGED <<records, lastId, bankVars, fileVars, flows, known, seen, reload, roundVars>>
  /\ Watch

NothingToMigrate ==
  /\ mgr.phase = "migrate" /\ (Linked # {} \/ records = {} \/ tokens.legacy = 0)
  /\ mgr' = [mgr EXCEPT !.phase = "prune"]
  /\ UNCHANGED <<entryVars, bankVars, fileVars, flows, known, seen, reload, checkVars>>

\* async_prune_orphan_sessions: known banks that are no more.
PruneStart ==
  /\ mgr.phase = "prune"
  /\ mgr' = [mgr EXCEPT !.phase = "pruning", !.prune = known.memory \ Linked, !.current = Linked]
  /\ UNCHANGED <<entryVars, bankVars, fileVars, flows, known, seen, reload, checkVars>>

PruneOne(id) ==
  /\ mgr.phase = "pruning" /\ ~Busy("setup") /\ id \in mgr.prune
  /\ IF tokens.sessions[id] # 0 THEN Open("setup", WithSession(id, 0)) ELSE UNCHANGED io
  /\ mgr' = [mgr EXCEPT !.prune = @ \ {id}, !.marks[id] = 0]
  /\ UNCHANGED <<entryVars, bankVars, tokens, overlapped, flows, known, seen, reload, checkVars>>

\* The write of the ledger may fail, and is logged then.
PruneEnd(written) ==
  /\ mgr.phase = "pruning" /\ ~Busy("setup") /\ mgr.prune = {}
  /\ known' = [memory |-> mgr.current, saved |-> IF written THEN mgr.current ELSE known.saved]
  /\ mgr' = [mgr EXCEPT !.phase = "check", !.current = {}]
  /\ UNCHANGED <<entryVars, bankVars, fileVars, flows, seen, reload, checkVars>>

\* _consent_state
ConsentState(s) ==
  IF now >= ends[s] THEN "expired" ELSE IF ends[s] - now <= WarnTime THEN "expiring" ELSE "none"

\* _async_bank_targets lists the banks, and then waits for the file once for each.
\* They come in the order of the subentries, which is left open here.
ListBanks(c) == reads' = [reads EXCEPT ![c] = [left |-> Linked, until |-> NoMarks]]

ReadConsent(c, id) ==
  /\ id \in reads[c].left
  /\ reads' = [reads EXCEPT ![c] = [left |-> reads[c].left \ {id},
                                    until |-> [reads[c].until EXCEPT ![id] = Consent(id)]]]
  /\ UNCHANGED <<entryVars, bankVars, fileVars, flows, mgr, known, seen, reload,
                 round, daily, issues, changed>>

AllRead(c) == reads[c].left = {}

\* Issues that are raised and never taken back.
IssuesRaised(until, marks) ==
  [id \in Ids |-> IF until[id] = 0 THEN issues[id]
                  ELSE IF marks[id] = until[id] THEN "expired"
                  ELSE IF ConsentState(until[id]) = "none" THEN issues[id]
                  ELSE ConsentState(until[id])]

\* The loop of async_update_consent_issues over the consents read, in a manager that
\* has seen the given ones refused: it asks nobody whether a bank is still there.
IssuesWith(until, marks) ==
  [id \in Ids |-> IF until[id] = 0 THEN issues[id]
                  ELSE IF marks[id] = until[id] THEN "expired" ELSE ConsentState(until[id])]

\* The check of a caller is over.
RaiseIssues(c, marks) ==
  /\ AllRead(c)
  /\ issues' = IssuesWith(reads[c].until, marks)
  /\ reads' = [reads EXCEPT ![c] = NoReads]
  /\ changed' = [changed EXCEPT ![c] = {}]

StartSetupCheck ==
  /\ mgr.phase = "check"
  /\ mgr' = [mgr EXCEPT !.phase = "checking"]
  /\ ListBanks("setup")
  /\ UNCHANGED <<entryVars, bankVars, fileVars, flows, known, seen, reload,
                 round, daily, issues, changed>>

EndSetupCheck ==
  /\ mgr.phase = "checking"
  /\ RaiseIssues("setup", mgr.marks)
  /\ mgr' = [mgr EXCEPT !.phase = "platforms"]
  /\ UNCHANGED <<entryVars, bankVars, fileVars, flows, known, seen, reload, round, daily>>

\* The rest of async_setup_entry, up to the listener.
FinishSetup ==
  /\ mgr.phase = "platforms"
  /\ mgr' = [mgr EXCEPT !.phase = "ready"]
  /\ seen' = Structure(subs, records)
  /\ UNCHANGED <<entryVars, bankVars, fileVars, flows, known, reload, checkVars>>

\* A scheduled reload: async_shutdown writes the ledger; a round and a daily check go
\* on by themselves, with what their manager knows.
Reload(written) ==
  /\ reload /\ mgr.phase = "ready"
  /\ mgr' = Down /\ reload' = FALSE
  /\ known' = [known EXCEPT !.saved = IF written THEN known.memory ELSE @]
  /\ round' = [round EXCEPT !.own = FALSE]
  /\ daily' = IF daily.own
              THEN [daily EXCEPT !.own = FALSE, !.beside = round.own, !.marks = mgr.marks]
              ELSE daily
  /\ UNCHANGED <<entryVars, bankVars, fileVars, flows, seen, reads, issues, changed>>

\* Home Assistant stops: flows, rounds and open operations are lost.
Stop ==
  /\ mgr.phase # "down"
  /\ mgr' = Down /\ reload' = FALSE /\ round' = NoRound /\ daily' = NoDaily
  /\ reads' = [c \in Callers |-> NoReads] /\ changed' = [c \in Callers |-> {}]
  /\ flows' = [f \in Flows |-> NoFlow]
  /\ io' = [actor \in Actors |-> NoIo]
  /\ UNCHANGED <<entryVars, bankVars, tokens, overlapped, known, seen, issues>>

-----------------------------------------------------------------------------
(* Refresh and time *)

\* A round first asks for the consents of all banks, and keeps what it has read.  A bank's
\* answer is compared with its own consent only: they are read in one step here.
StartRound ==
  /\ mgr.phase = "ready" /\ round.step = "off"
  /\ round' = [step |-> "fetch", marks |-> mgr.marks, own |-> TRUE]
  /\ reads' = [reads EXCEPT !["round"] =
                 [left |-> {}, until |-> [id \in Ids |-> IF id \in Linked THEN Consent(id) ELSE 0]]]
  /\ UNCHANGED <<entryVars, bankVars, fileVars, flows, mgr, known, seen, reload, daily, issues, changed>>

\* A 401 or 403: _mark_consent_error, in the manager the round runs in.
Rejected(id) ==
  LET s == reads["round"].until[id] IN
  /\ round.step = "fetch" /\ s \in refused /\ round.marks[id] # s
  /\ round' = [round EXCEPT !.marks[id] = s]
  /\ mgr' = IF round.own THEN [mgr EXCEPT !.marks[id] = s] ELSE mgr
  /\ daily' = IF daily.beside THEN [daily EXCEPT !.marks[id] = s] ELSE daily
  /\ UNCHANGED <<entryVars, bankVars, fileVars, flows, known, seen, reload, reads, issues, changed>>

\* A round that reports what it has read when it began.
StartRoundCheckAsRead ==
  /\ round.step = "fetch"
  /\ round' = [round EXCEPT !.step = "check"]
  /\ UNCHANGED <<entryVars, bankVars, fileVars, flows, mgr, known, seen, reload,
                 daily, reads, issues, changed>>

\* A round ends with a check of its own, which reads the consents anew.
StartRoundCheck ==
  /\ round.step = "fetch"
  /\ round' = [round EXCEPT !.step = "check"]
  /\ ListBanks("round")
  /\ UNCHANGED <<entryVars, bankVars, fileVars, flows, mgr, known, seen, reload, daily, issues, changed>>

EndRound ==
  /\ round.step = "check"
  /\ RaiseIssues("round", round.marks)
  /\ round' = NoRound
  /\ daily' = [daily EXCEPT !.beside = FALSE]
  /\ UNCHANGED <<entryVars, bankVars, fileVars, flows, mgr, known, seen, reload>>

\* The daily refresh checks once more, whatever its round did.
StartDaily ==
  /\ mgr.phase = "ready" /\ ~daily.on
  /\ daily' = [NoDaily EXCEPT !.on = TRUE, !.own = TRUE]
  /\ ListBanks("daily")
  /\ UNCHANGED <<entryVars, bankVars, fileVars, flows, mgr, known, seen, reload,
                 round, issues, changed>>

EndDaily ==
  /\ daily.on
  /\ RaiseIssues("daily", IF daily.own THEN mgr.marks ELSE daily.marks)
  /\ daily' = NoDaily
  /\ UNCHANGED <<entryVars, bankVars, fileVars, flows, mgr, known, seen, reload, round>>

Revoke(s) ==
  /\ s <= lastSession /\ s \notin refused
  /\ refused' = refused \cup {s}
  /\ UNCHANGED <<entryVars, lastSession, ends, now, fileVars, flows, mgr, known, seen, reload, checkVars>>

Tick ==
  /\ now < MaxNow /\ now' = now + 1
  /\ UNCHANGED <<entryVars, lastSession, ends, refused, fileVars, flows, mgr, known, seen, reload, checkVars>>

SetupStep ==
  \/ Boot \/ Migrate \/ NothingToMigrate \/ PruneStart
  \/ StartSetupCheck \/ EndSetupCheck \/ FinishSetup
  \/ \E b \in Banks : AddMigrated(b)
  \/ \E id \in Ids : PruneOne(id) \/ ReadConsent("setup", id)
  \/ \E written \in BOOLEAN : PruneEnd(written) \/ Reload(written)

RoundStep ==
  \/ StartRound \/ StartRoundCheck \/ EndRound
  \/ \E id \in Ids : ReadConsent("round", id) \/ Rejected(id)

DailyStep ==
  \/ StartDaily \/ EndDaily
  \/ \E id \in Ids : ReadConsent("daily", id)

FlowStep(f) ==
  \/ \E b \in Banks : PickBank(f, b)
  \/ \E id \in Ids : Reconfigure(f, id)
  \/ GiveUp(f) \/ StoreRecords(f) \/ StoreSession(f)
  \/ AddSubentry(f) \/ AddRefused(f) \/ UpdateSubentry(f)

Next ==
  \/ SetupStep \/ RoundStep \/ DailyStep
  \/ \E f \in Flows : FlowStep(f)
  \/ \E actor \in Actors : Save(actor)
  \/ \E id \in Ids : RemoveBank(id)
  \/ \E s \in Sessions : Revoke(s)
  \/ StoreCredentials \/ Stop \/ Tick

Spec == Init /\ [][Next]_vars

\* Setup runs on its own, saves end, and the daily refresh comes.
Fairness ==
  /\ WF_vars(SetupStep) /\ WF_vars(DailyStep)
  /\ \A actor \in Actors : WF_vars(Save(actor))

FairSpec == Spec /\ Fairness

-----------------------------------------------------------------------------
(* Properties *)

TypeOK ==
  /\ subs \in [Ids -> [bank : Banks \cup {NoBank}, until : 0 .. MaxSession, unique : BOOLEAN]]
  /\ records \subseteq Banks
  /\ lastId \in 0 .. MaxId /\ lastSession \in 0 .. MaxSession /\ now \in 0 .. MaxNow
  /\ ends \in [Sessions -> 0 .. MaxNow + Lifetime]
  /\ tokens \in Tokens
  /\ io \in [Actors -> [on : BOOLEAN, base : Tokens, new : Tokens]]
  /\ flows \in [Flows -> [step : {"idle", "authorize", "new", "renew", "add", "update"},
                          bank : Banks \cup {NoBank}, id : 0 .. MaxId,
                          session : 0 .. MaxSession, end : 0 .. MaxNow + Lifetime]]
  /\ mgr \in [phase : {"down", "migrate", "migrating", "prune", "pruning", "check",
                        "checking", "platforms", "ready"},
              prune : SUBSET Ids, current : SUBSET Ids, marks : [Ids -> 0 .. MaxSession]]
  /\ known \in [memory : SUBSET Ids, saved : SUBSET Ids]
  /\ reload \in BOOLEAN /\ overlapped \in BOOLEAN
  /\ round \in [step : {"off", "fetch", "check"}, marks : [Ids -> 0 .. MaxSession], own : BOOLEAN]
  /\ daily \in [on : BOOLEAN, own : BOOLEAN, beside : BOOLEAN, marks : [Ids -> 0 .. MaxSession]]
  /\ reads \in [Callers -> [left : SUBSET Ids, until : [Ids -> 0 .. MaxSession]]]
  /\ changed \in [Callers -> SUBSET Ids]
  /\ refused \subseteq Sessions
  /\ issues \in [Ids -> {"none", "expiring", "expired"}]

\* The credential store as flows, setup and settings share it: as long as no two
\* saves overlap, a bank has a session from before it is linked until it is removed.
Vault == INSTANCE SessionVault
           WITH stored <- tokens.sessions, linked <- Linked, lost <- overlapped
KeepsSessions == Vault!Spec

Ended(s) == s \in refused \/ now >= ends[s]

\* A consent is reported expired only when it is over or the bank has refused it, and
\* never for what the bank said of the session before.  async_update_consent_issues waits
\* for the file between its reads and its reports: a bank whose consent changes right
\* then, and only that one, may be reported for what the check has read of it.
ExpiredIsTrue ==
  [][\A id \in Ids :
       issues'[id] = "expired" /\ issues[id] # "expired" =>
         \E c \in Callers :
           /\ Checking(c) /\ ~Checking(c)'
           /\ Ended(reads[c].until[id])
           /\ Ended(Consent(id)) \/ id \in changed[c]]_vars

Healthy(id) ==
  id \in Linked /\ Consent(id) \notin refused /\ ConsentState(Consent(id)) = "none"

\* repairs.py: the issue of a bank goes once a fresh session is stored, whatever
\* late answers to the old session, reloads and removals come in between.
RenewalClearsIssue ==
  \A id \in Ids : Healthy(id) ~> (issues[id] = "none" \/ ~Healthy(id))
=============================================================================
