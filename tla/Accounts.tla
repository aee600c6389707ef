------------------------------- MODULE Accounts -------------------------------
(***************************************************************************)
(* The account list and who writes it: a re-link of a bank, the settings   *)
(* screen, the savings flag, an attended round that fills in what a record *)
(* lacks, the refresh_accounts service, and the setup that adopts what     *)
(* bank subentries list and prunes the entity registry.                    *)
(*                                                                         *)
(* The list exists twice, in the config entry and in a manager.  The       *)
(* writers keep lists and records over awaits, so a record carries the     *)
(* number of its dict object, and in-place changes follow the object.  An  *)
(* account uid is the number of the session that issued it.                *)
(***************************************************************************)
EXTENDS Naturals, Sequences

CONSTANTS
  AccountSeq,  \* payment accounts in the order a subentry lists them
  BankOf,      \* the bank of an account
  Cards,       \* accounts without IBAN whose details do not repeat what identifies them
  Owners,      \* who an account can belong to
  Nobody,      \* not assigned
  Managers, NoManager,
  MaxSession,  \* bound: sessions a bank issues
  MaxObject    \* bound: writes that copy records

Accounts == {AccountSeq[i] : i \in DOMAIN AccountSeq}

ASSUME AccountsAssumption ==
  /\ AccountSeq \in Seq(Accounts)
  /\ \A i, j \in DOMAIN AccountSeq : AccountSeq[i] = AccountSeq[j] => i = j
  /\ Cards \subseteq Accounts
  /\ BankOf \in [Accounts -> {BankOf[a] : a \in Accounts}]
  /\ Nobody \notin Owners /\ NoManager \notin Managers
  /\ MaxSession \in Nat \ {0} /\ MaxObject \in Nat

VARIABLES
  entry,     \* entry.data["accounts"]
  disk,      \* the entry as Home Assistant has last written it
  alias,     \* the manager whose list is the entry's list object
  refs,      \* the uid a bank subentry lists for an account, 0 if none does
  ibans,     \* record objects that hold an IBAN
  objects,   \* number of the newest record object
  live,      \* the manager in hass.data
  mgr,       \* the managers
  signature, \* what forces a reload, as of the end of the last setup
  reload,    \* a reload is scheduled
  link,      \* the link flow between its two writes
  entities,  \* keys that have a balance entity
  assigned,  \* ghost: the owner the user last gave an account
  forgotten, \* ghost: accounts that a link no longer reported, or whose record it did
             \* not recognise, and that the user has not assigned since
  crossed    \* ghost: somebody goes on with a list, or a record of one, that is no
             \* longer the newest, or a stop fell between the two writes of a link

vars == <<entry, disk, alias, refs, ibans, objects, live, mgr, signature, reload, link,
          entities, assigned, forgotten, crossed>>

entryVars == <<entry, disk, alias>>
setupVars == <<live, signature, link, entities>>
ghosts == <<assigned, forgotten>>

-----------------------------------------------------------------------------
(* Records. "link": all a session told.  "bare": uid and key of a subentry. *)
(* "details": what refresh_accounts keeps, without a stored key.            *)

Record == [acct : Accounts, data : {"link", "bare", "details"},
           uid : 1 .. MaxSession, owner : Owners \cup {Nobody}, obj : 0 .. MaxObject]

HasIban(r) == <<r.acct, r.obj>> \in ibans

\* account_key: the stored key, or what the details identify.  An entity of the time
\* before keys is named <<a, "uid">>, by the uid of the first session.
Key(r) == <<r.acct, IF r.data = "details" /\ r.acct \in Cards THEN "details" ELSE "own">>

\* identity_key, blind to the stored key: is the record recognised as its account?
Recognised(r) ==
  CASE r.data = "bare" -> HasIban(r)
    [] r.data = "details" -> r.acct \notin Cards
    [] OTHER -> TRUE

Elements(list) == {list[i] : i \in DOMAIN list}

\* A list comprehension: what of a list is in a set, in the list's order.
Only(list, S) ==
  LET upTo[i \in 0 .. Len(list)] ==
        IF i = 0 THEN <<>>
        ELSE IF list[i] \in S THEN Append(upTo[i - 1], list[i]) ELSE upTo[i - 1]
  IN  upTo[Len(list)]

Keys(list) == {Key(r) : r \in Elements(list)}
KeyCounts(list) == [k \in Keys(list) |-> Len(Only(list, {r \in Elements(list) : Key(r) = k}))]

\* The dict comprehensions by_uid and by_key keep the last of equal keys.
LastWith(list, P(_)) ==
  LET hits == {i \in DOMAIN list : P(list[i])}
  IN  IF hits = {} THEN {} ELSE {list[CHOOSE i \in hits : \A j \in hits : j <= i]}

Bare(a, obj) == [acct |-> a, data |-> "bare", uid |-> refs[a], owner |-> Nobody, obj |-> obj]

\* _accounts_for: by uid, by the subentry's key, or a minimal record.
ForRef(list, a, obj) ==
  LET same == LastWith(list, LAMBDA r : r.acct = a /\ r.uid = refs[a])
      known == LastWith(list, LAMBDA r : Key(r) = <<a, "own">>)
  IN  CHOOSE r \in (IF same # {} THEN same ELSE IF known # {} THEN known ELSE {Bare(a, obj)}) : TRUE

Referenced == {a \in Accounts : refs[a] # 0}

\* A list as it is saved, and whether two lists hold the same whatever objects they have.
Stored(list, held) ==
  [list |-> list, ibans |-> held \cap {<<r.acct, r.obj>> : r \in Elements(list)}]

SameData(s, t, held) ==
  /\ DOMAIN s = DOMAIN t
  /\ \A i \in DOMAIN s :
       /\ [s[i] EXCEPT !.obj = 0] = [t[i] EXCEPT !.obj = 0]
       /\ <<s[i].acct, s[i].obj>> \in held <=> <<t[i].acct, t[i].obj>> \in held

Copies(list, obj) == [i \in DOMAIN list |-> [list[i] EXCEPT !.obj = obj]]
IbansOfCopies(list, obj) == {<<r.acct, obj>> : r \in {q \in Elements(list) : HasIban(q)}}

-----------------------------------------------------------------------------
(* Managers *)

NoRound == [on |-> FALSE, todo |-> {}, mine |-> {}, enriched |-> FALSE]
NoService == [on |-> FALSE, src |-> <<>>, tied |-> FALSE, out |-> <<>>, obj |-> 0]
Gone == [phase |-> "gone", list |-> <<>>, round |-> NoRound, svc |-> NoService]

Rounds == [on : BOOLEAN, todo : SUBSET Accounts, mine : SUBSET Record, enriched : BOOLEAN]
Services == [on : BOOLEAN, src : Seq(Record), tied : BOOLEAN, out : Seq(Record),
             obj : 0 .. MaxObject]
ManagerStates == [phase : {"gone", "loading", "adopted", "reconciled", "ready", "left"},
                  list : Seq(Record), round : Rounds, svc : Services]

Busy(m) == mgr[m].round.on \/ mgr[m].svc.on
InSetup(m) == mgr[m].phase \in {"loading", "adopted", "reconciled"}

\* hass.data has the manager before its entities are reconciled.
Ready(m) == m = live /\ mgr[m].phase \in {"reconciled", "ready"}

\* Somebody else than m holds a list, or records of one, that others may change.
InFlightBut(m) ==
  \/ link.on \/ reload
  \/ \E n \in Managers \ {m} : Busy(n) \/ InSetup(n)

InFlight == InFlightBut(NoManager)

\* A replaced manager is gone once nothing of it runs.
Settle(m, fields) ==
  mgr' = [mgr EXCEPT ![m] =
            IF fields.phase = "left" /\ ~fields.round.on /\ ~fields.svc.on THEN Gone ELSE fields]

\* The signature without what the subentries list.
SignatureOfEntry(listed, list) ==
  [refs |-> <<>>, keys |-> KeyCounts(list)]

\* _structure_signature: what the subentries list, and the keys of the entry.
SignatureOf(listed, list) ==
  [refs |-> listed, keys |-> KeyCounts(list)]

\* _reload_on_structure_change, the listener a finished setup leaves behind.
Notify ==
  reload' = (reload \/ (live \in Managers /\ mgr[live].phase = "ready"
                       /\ signature # SignatureOf(refs', entry')))

\* async_set_accounts by manager m: memory and entry share the list from then on.  But
\* Home Assistant stores nothing, and tells no listener, when the data is what it has:
\* the list has only been changed in place, and nothing else changes with it.  A running
\* service goes on with the list it started with.
SetAccounts(m, fields, list, more) ==
  /\ Settle(m, [fields EXCEPT !.list = list, !.svc.tied = FALSE])
  /\ IF ~more /\ SameData(list, entry, ibans')
     THEN /\ alias' = IF alias = m THEN NoManager ELSE alias
          /\ UNCHANGED <<entry, disk, reload>>
     ELSE /\ entry' = list /\ disk' = Stored(list, ibans') /\ alias' = m
          /\ Notify

Init ==
  /\ entry \in {<<>>, [i \in DOMAIN AccountSeq |->
       [acct |-> AccountSeq[i], data |-> "link", uid |-> 1, owner |-> Nobody, obj |-> 0]]}
  /\ refs = [a \in Accounts |-> 1]
  /\ ibans = {<<r.acct, 0>> : r \in {q \in Elements(entry) : q.acct \notin Cards}}
  /\ objects = 0 /\ disk = Stored(entry, ibans)
  /\ alias = NoManager /\ live = NoManager
  /\ mgr = [m \in Managers |-> Gone]
  /\ signature = SignatureOf(refs, <<>>) /\ reload = FALSE
  /\ link = [on |-> FALSE, accounts |-> {}, uid |-> 0]
  /\ \E named \in {"own", "uid"} : entities = {<<a, named>> : a \in Accounts}
  /\ assigned = [a \in Accounts |-> Nobody] /\ forgotten = {}
  /\ crossed = FALSE

-----------------------------------------------------------------------------
(* Setup and reload *)

\* The constructor takes the entry's list object; loading the stores follows.
Load(m) ==
  /\ live = NoManager /\ mgr[m].phase = "gone"
  /\ live' = m /\ alias' = m
  /\ mgr' = [mgr EXCEPT ![m] = [Gone EXCEPT !.phase = "loading", !.list = entry]]
  /\ UNCHANGED <<entry, disk, refs, ibans, objects, signature, reload, link, entities, ghosts, crossed>>

\* async_adopt_subentry_accounts: records for what only a subentry lists.
Adopted(list, obj) ==
  LET missing == Only(AccountSeq, {a \in Referenced : Key(ForRef(list, a, obj)) \notin Keys(list)})
  IN  [i \in DOMAIN missing |-> ForRef(list, missing[i], obj)]

Adopt(m) ==
  LET new == Adopted(mgr[m].list, objects + 1)
      fields == [mgr[m] EXCEPT !.phase = "adopted"]
  IN
  /\ m = live /\ mgr[m].phase = "loading"
  /\ UNCHANGED <<refs, ibans, setupVars, ghosts, crossed>>
  /\ IF new = <<>>
     THEN Settle(m, fields) /\ UNCHANGED <<entryVars, objects, reload>>
     ELSE /\ objects < MaxObject /\ objects' = objects + 1
          /\ SetAccounts(m, fields, mgr[m].list \o new, FALSE)

\* Entities of no listed account go, also those named by uid.
ReconciledByKey(list) ==
  IF list = <<>> THEN entities ELSE entities \cap Keys(list)

\* async_reconcile_account_entities: an entity named by uid gets the key of its account,
\* entities of no listed account go, and nothing happens while no account is known at all.
Reconciled(list) ==
  LET renamed == {r \in Elements(list) :
                    r.uid = 1 /\ <<r.acct, "uid">> \in entities /\ Key(r) \notin entities}
  IN  IF list = <<>> THEN entities ELSE (entities \cap Keys(list)) \cup {Key(r) : r \in renamed}

\* From the next await of async_setup_entry, which puts the manager into hass.data, on.
Reconcile(m) ==
  /\ m = live /\ mgr[m].phase = "adopted"
  /\ Settle(m, [mgr[m] EXCEPT !.phase = "reconciled"])
  /\ entities' = Reconciled(entry)
  /\ UNCHANGED <<entryVars, refs, ibans, objects, live, signature, reload, link, ghosts, crossed>>

\* The platforms create the entities that are missing, and the update listener comes last.
FinishSetup(m) ==
  /\ m = live /\ mgr[m].phase = "reconciled"
  /\ Settle(m, [mgr[m] EXCEPT !.phase = "ready"])
  /\ entities' = entities \cup {Key(ForRef(mgr[m].list, a, 0)) : a \in Referenced}
  /\ signature' = SignatureOf(refs, entry)
  /\ UNCHANGED <<entryVars, refs, ibans, objects, live, reload, link, ghosts, crossed>>

\* The update listener schedules a reload; the old manager's round goes on.
Reload ==
  /\ reload /\ live \in Managers /\ mgr[live].phase = "ready"
  /\ Settle(live, [mgr[live] EXCEPT !.phase = "left"])
  /\ live' = NoManager /\ reload' = FALSE
  /\ crossed' = (crossed \/ Busy(live))
  /\ UNCHANGED <<entryVars, refs, ibans, objects, signature, link, entities, ghosts>>

\* Home Assistant stops: what runs is lost, also between the writes of a link, and so is
\* what was changed in place, unless another entry had all of them written since.
Stop(written) ==
  /\ live # NoManager
  /\ mgr' = [m \in Managers |-> Gone]
  /\ live' = NoManager /\ alias' = NoManager /\ reload' = FALSE
  /\ link' = [on |-> FALSE, accounts |-> {}, uid |-> 0]
  /\ crossed' = (crossed \/ link.on)
  /\ IF written
     THEN disk' = Stored(entry, ibans) /\ UNCHANGED <<entry, ibans>>
     ELSE entry' = disk.list /\ ibans' = disk.ibans /\ UNCHANGED disk
  /\ UNCHANGED <<refs, objects, signature, entities, ghosts>>

-----------------------------------------------------------------------------
(* A bank is linked again: the records first, the session with the subentry later. *)

\* A merge that looks for the owner under the new uid.
DedupedByUid(list, reported, uid, obj) ==
  LET banks == {BankOf[a] : a \in reported}
      previous(a) == LastWith(list, LAMBDA r : r.acct = a /\ r.uid = uid)
      fresh(a) == [acct |-> a, data |-> "link", uid |-> uid, obj |-> obj,
                   owner |-> IF previous(a) = {} THEN Nobody
                             ELSE (CHOOSE r \in previous(a) : TRUE).owner]
      linked == Only(AccountSeq, reported)
  IN  Copies(Only(list, {r \in Elements(list) : BankOf[r.acct] \notin banks}), obj)
      \o [i \in DOMAIN linked |-> fresh(linked[i])]

\* dedupe_accounts: other banks stay, a recognised record hands on its owner,
\* what the bank no longer reports is dropped.
Deduped(list, reported, uid, obj) ==
  LET banks == {BankOf[a] : a \in reported}
      previous(a) == LastWith(list, LAMBDA r : r.acct = a /\ Recognised(r))
      fresh(a) == [acct |-> a, data |-> "link", uid |-> uid, obj |-> obj,
                   owner |-> IF previous(a) = {} THEN Nobody
                             ELSE (CHOOSE r \in previous(a) : TRUE).owner]
      linked == Only(AccountSeq, reported)
  IN  Copies(Only(list, {r \in Elements(list) : BankOf[r.acct] \notin banks}), obj)
      \o [i \in DOMAIN linked |-> fresh(linked[i])]

\* async_step_finish up to the credential store.
StoreRecords(b, reported, uid) ==
  LET obj == objects + 1
      list == Deduped(entry, reported, uid, obj)
  IN
  /\ ~link.on /\ objects < MaxObject
  /\ uid \in 1 .. MaxSession /\ \A a \in Accounts : refs[a] < uid
  /\ reported # {} /\ \A a \in reported : BankOf[a] = b
  /\ objects' = obj
  /\ ibans' = ibans \cup IbansOfCopies(entry, obj) \cup {<<a, obj>> : a \in reported \ Cards}
  /\ entry' = list
  /\ disk' = Stored(list, ibans')
  /\ alias' = NoManager
  /\ link' = [on |-> TRUE, accounts |-> reported, uid |-> uid]
  /\ forgotten' = forgotten \cup
       {r.acct : r \in {q \in Elements(entry) :
                          BankOf[q.acct] = b /\ ~(q.acct \in reported /\ Recognised(q))}}
  /\ crossed' = (crossed \/ InFlight)
  /\ UNCHANGED <<refs, live, mgr, signature, entities, assigned>>
  /\ Notify

\* The session is stored: async_update_and_abort writes the subentry.
StoreRefs ==
  /\ link.on
  /\ refs' = [a \in Accounts |->
       IF a \in link.accounts THEN link.uid
       ELSE IF \E b \in link.accounts : BankOf[a] = BankOf[b] THEN 0 ELSE refs[a]]
  /\ link' = [on |-> FALSE, accounts |-> {}, uid |-> 0]
  /\ disk' = Stored(entry, ibans)
  /\ crossed' = (crossed \/ reload \/ \E m \in Managers : Busy(m) \/ InSetup(m))
  /\ UNCHANGED <<entry, alias, ibans, objects, live, mgr, signature, entities, ghosts>>
  /\ Notify

-----------------------------------------------------------------------------
(* What the user sets *)

\* async_set_assignments, on copies of the entry's records; more: the persons change, too.
Assign(m, key, owner, more) ==
  LET obj == objects + 1
      list == [i \in DOMAIN entry |->
                 [entry[i] EXCEPT !.obj = obj, !.owner = IF Key(entry[i]) = key THEN owner ELSE @]]
  IN
  /\ Ready(m) /\ objects < MaxObject
  /\ key \in Keys(mgr[m].list) \cap Keys(entry)
  /\ objects' = obj
  /\ ibans' = ibans \cup IbansOfCopies(entry, obj)
  /\ assigned' = [assigned EXCEPT ![key[1]] = owner] /\ forgotten' = forgotten \ {key[1]}
  /\ crossed' = (crossed \/ InFlightBut(m))
  /\ UNCHANGED <<refs, setupVars>>
  /\ SetAccounts(m, mgr[m], list, more)

\* set_account_savings writes copies of what the manager holds; more: the flag changes.
FlagSavings(m, more) ==
  LET obj == objects + 1
      list == Copies(mgr[m].list, obj)
  IN
  /\ Ready(m) /\ objects < MaxObject /\ list # <<>>
  /\ objects' = obj
  /\ ibans' = ibans \cup IbansOfCopies(mgr[m].list, obj)
  /\ crossed' = (crossed \/ InFlightBut(m))
  /\ UNCHANGED <<refs, setupVars, ghosts>>
  /\ SetAccounts(m, mgr[m], list, more)

-----------------------------------------------------------------------------
(* An attended round, and refresh_accounts *)

\* The targets of a round are the manager's own record objects.
StartRound(m) ==
  LET mine == {ForRef(mgr[m].list, a, objects + 1) : a \in Referenced}
      minimal == {r \in mine : r.obj = objects + 1}
  IN
  /\ Ready(m) /\ ~mgr[m].round.on
  /\ minimal # {} => objects < MaxObject
  /\ objects' = IF minimal = {} THEN objects ELSE objects + 1
  /\ mgr' = [mgr EXCEPT ![m].round =
       [on |-> TRUE, mine |-> mine, enriched |-> FALSE,
        todo |-> {r.acct : r \in {q \in mine : ~HasIban(q)}}]]
  /\ crossed' = (crossed \/ InFlightBut(m))
  /\ UNCHANGED <<entryVars, refs, ibans, setupVars, reload, ghosts>>

\* The list has another record of the account by now.
Outdated(m, r) == \E q \in Elements(mgr[m].list) : q.acct = r.acct /\ q.obj # r.obj

\* Enrichment that takes every record for a minimal one.
EnrichAppending(m, r) ==
  LET grown(list) == Append(list, r)
  IN
  /\ mgr[m].round.on /\ r \in mgr[m].round.mine
  /\ r.acct \in mgr[m].round.todo \ Cards
  /\ ibans' = ibans \cup {<<r.acct, r.obj>>}
  /\ mgr' = [mgr EXCEPT ![m].round.todo = @ \ {r.acct}, ![m].round.enriched = TRUE,
                        ![m].list = grown(@),
                        ![m].svc.src = IF mgr[m].svc.tied THEN grown(mgr[m].list) ELSE @]
  /\ entry' = IF alias = m THEN grown(entry) ELSE entry
  /\ crossed' = (crossed \/ Outdated(m, r))
  /\ UNCHANGED <<disk, alias, refs, objects, setupVars, reload, ghosts>>

\* _async_enrich_account: the IBAN goes into the round's object, and the object
\* into the list unless it is there already.
Enrich(m, r) ==
  LET grown(list) == IF \E q \in Elements(list) : q.acct = r.acct /\ q.obj = r.obj
                     THEN list ELSE Append(list, r)
  IN
  /\ mgr[m].round.on /\ r \in mgr[m].round.mine
  /\ r.acct \in mgr[m].round.todo \ Cards
  /\ ibans' = ibans \cup {<<r.acct, r.obj>>}
  /\ mgr' = [mgr EXCEPT ![m].round.todo = @ \ {r.acct}, ![m].round.enriched = TRUE,
                        ![m].list = grown(@),
                        ![m].svc.src = IF mgr[m].svc.tied THEN grown(mgr[m].list) ELSE @]
  /\ entry' = IF alias = m THEN grown(entry) ELSE entry
  /\ crossed' = (crossed \/ Outdated(m, r))
  /\ UNCHANGED <<disk, alias, refs, objects, setupVars, reload, ghosts>>

NotEnriched(m, a) ==
  /\ mgr[m].round.on /\ a \in mgr[m].round.todo
  /\ mgr' = [mgr EXCEPT ![m].round.todo = @ \ {a}]
  /\ UNCHANGED <<entryVars, refs, ibans, objects, setupVars, reload, ghosts, crossed>>

\* Only a round that filled in something mirrors the list to the entry.
EndRound(m) ==
  LET done == [mgr[m] EXCEPT !.round = NoRound]
  IN
  /\ mgr[m].round.on /\ mgr[m].round.todo = {}
  /\ UNCHANGED <<refs, ibans, objects, setupVars, ghosts>>
  /\ IF mgr[m].round.enriched
     THEN /\ SetAccounts(m, done, mgr[m].list, FALSE)
          /\ crossed' = (crossed \/ m # live \/ InFlightBut(m))
     ELSE Settle(m, done) /\ UNCHANGED <<entryVars, reload, crossed>>

\* async_refresh_accounts walks over the manager's list object.
StartService(m) ==
  /\ Ready(m) /\ ~mgr[m].svc.on /\ objects < MaxObject
  /\ objects' = objects + 1
  /\ mgr' = [mgr EXCEPT ![m].svc =
                [on |-> TRUE, src |-> mgr[m].list, tied |-> TRUE, out |-> <<>>, obj |-> objects + 1]]
  /\ crossed' = (crossed \/ InFlightBut(m))
  /\ UNCHANGED <<entryVars, refs, ibans, setupVars, reload, ghosts>>

\* The details of the next account, in a new record; if they fail, the old one.
ServiceStep(m, answered) ==
  LET svc == mgr[m].svc
      r == svc.src[Len(svc.out) + 1]
      detailed == [r EXCEPT !.data = "details", !.obj = svc.obj]
  IN
  /\ svc.on /\ Len(svc.out) < Len(svc.src)
  /\ mgr' = [mgr EXCEPT ![m].svc.out = Append(@, IF answered THEN detailed ELSE r)]
  /\ ibans' = IF answered /\ r.acct \notin Cards THEN ibans \cup {<<r.acct, svc.obj>>} ELSE ibans
  /\ UNCHANGED <<entryVars, refs, objects, setupVars, reload, ghosts, crossed>>

\* The new list replaces the manager's; the entry keeps the old one.
EndService(m) ==
  /\ mgr[m].svc.on /\ Len(mgr[m].svc.out) = Len(mgr[m].svc.src)
  /\ Settle(m, [mgr[m] EXCEPT !.list = mgr[m].svc.out, !.svc = NoService])
  /\ alias' = IF alias = m THEN NoManager ELSE alias
  /\ crossed' = (crossed \/ mgr[m].svc.src # mgr[m].list \/ InFlightBut(m))
  /\ UNCHANGED <<entry, disk, refs, ibans, objects, setupVars, reload, ghosts>>

Next ==
  \/ Reload \/ StoreRefs
  \/ \E written \in BOOLEAN : Stop(written)
  \/ \E b \in {BankOf[a] : a \in Accounts}, reported \in SUBSET Accounts, uid \in 1 .. MaxSession :
       StoreRecords(b, reported, uid)
  \/ \E m \in Managers :
       \/ Load(m) \/ Adopt(m) \/ Reconcile(m) \/ FinishSetup(m)
       \/ \E more \in BOOLEAN :
            \/ FlagSavings(m, more)
            \/ \E key \in Keys(entry), owner \in Owners \cup {Nobody} : Assign(m, key, owner, more)
       \/ StartRound(m) \/ EndRound(m)
       \/ \E r \in mgr[m].round.mine : Enrich(m, r)
       \/ \E a \in Accounts : NotEnriched(m, a)
       \/ StartService(m) \/ EndService(m)
       \/ \E answered \in BOOLEAN : ServiceStep(m, answered)

Spec == Init /\ [][Next]_vars

-----------------------------------------------------------------------------
(* Properties *)

\* Managers, records and flows are well-formed (account_identity.py, manager/__init__.py).
TypeOK ==
  /\ entry \in Seq(Record)
  /\ disk \in [list : Seq(Record), ibans : SUBSET (Accounts \X (0 .. MaxObject))]
  /\ alias \in Managers \cup {NoManager} /\ live \in Managers \cup {NoManager}
  /\ refs \in [Accounts -> 0 .. MaxSession]
  /\ ibans \subseteq (Accounts \X (0 .. MaxObject))
  /\ objects \in 0 .. MaxObject
  /\ mgr \in [Managers -> ManagerStates]
  /\ reload \in BOOLEAN /\ crossed \in BOOLEAN
  /\ link \in [on : BOOLEAN, accounts : SUBSET Accounts, uid : 0 .. MaxSession]
  /\ entities \subseteq (Accounts \X {"own", "details", "uid"})
  /\ assigned \in [Accounts -> Owners \cup {Nobody}] /\ forgotten \subseteq Accounts

Single(list) == \A i, j \in DOMAIN list : list[i].acct = list[j].acct => i = j

\* Re-links, assignments, savings flags, rounds and the refresh service in any order, and
\* beside each other, leave one record per account, in the entry and in the live manager,
\* as long as nobody goes on with a list or a record that is no longer the newest.
OneRecordPerAccount ==
  ~crossed => Single(entry) /\ (live \in Managers => Single(mgr[live].list))

\* What the user assigned is what the entry and the manager hold, whoever wrote the list
\* since: a re-link carries the owner over, a reload and a restart bring it back.  Not for
\* an account that a link did not report or recognise: there the owner is gone until the
\* user assigns it again.
OwnersAsAssigned ==
  ~crossed =>
    /\ \A r \in Elements(entry) : r.acct \in forgotten \/ r.owner = assigned[r.acct]
    /\ live \in Managers /\ ~reload /\ ~link.on =>
         \A r \in Elements(mgr[live].list) : r.acct \in forgotten \/ r.owner = assigned[r.acct]

\* A manager fetches an account with the uid of its newest session, whichever of the two
\* writes of the link its setup saw first and whatever its round and the service do.
FetchesNewestUid ==
  (~crossed /\ live \in Managers /\ Ready(live) /\ ~reload /\ ~link.on) =>
    \A a \in Referenced : ForRef(mgr[live].list, a, 0).uid = refs[a]

\* The bank lists the account, and a running link does not drop it.
Linked(a) ==
  refs[a] # 0 /\ ((link.on /\ \E b \in link.accounts : BankOf[b] = BankOf[a]) => a \in link.accounts)

HasEntity(a) == <<a, "own">> \in entities \/ <<a, "uid">> \in entities

\* Its entity has the account's name, or that of the uid the account still has.
Named(a) ==
  \/ <<a, "own">> \in entities
  \/ <<a, "uid">> \in entities /\ \A r \in Elements(entry) : r.acct = a => r.uid = 1

\* The balance entity of an account with IBAN that a bank lists is never removed, not while
\* it is renamed either, although setups see either write of a link first and records
\* without an IBAN, as long as no stale list has reached the entry (account_identity.py,
\* reconciling).
IbanEntityKept ==
  [][\A a \in Accounts \ Cards :
       ~crossed /\ Linked(a) /\ Named(a) => HasEntity(a)']_vars
=============================================================================
