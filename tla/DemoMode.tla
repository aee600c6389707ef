------------------------------- MODULE DemoMode -------------------------------
(***************************************************************************)
(* The demo and the life of the config entry: set_demo_mode and its two    *)
(* callers, the rounds and rebuilds it does not wait for, and the reload   *)
(* that replaces the manager.                                              *)
(*                                                                         *)
(* Data is reduced to its origin: a view holds a set of "real" and "demo"  *)
(* records, a stamp or a statistics record has one origin or none.  A      *)
(* reload or a crash puts a new manager in place; a reload does not stop   *)
(* the old one's round, so two managers may write the same ledger file     *)
(* (Refresh and LedgerHistory say what they write).                        *)
(***************************************************************************)
EXTENDS Naturals

CONSTANTS
  Managers,   \* FinanceDashboardManager objects
  NoManager

ASSUME DemoAssumption == NoManager \notin Managers

VARIABLES
  live,           \* the manager hass.data points to
  mgr,            \* the fields of each manager
  option,         \* entry.options["demo_mode"]
  entryAccounts,  \* entry.data["accounts"]
  saved           \* meta of the ledger on disk

vars == <<live, mgr, option, entryAccounts, saved>>

Origins == {"real", "demo"}
Stamps == Origins \cup {"none"}

Meta == [balances : SUBSET Origins, stamp : Stamps, stats : Stamps]

Fields ==
  [demo : BOOLEAN, accounts : SUBSET Origins,
   shown : SUBSET Origins, balances : SUBSET Origins, stamp : Stamps, stats : Stamps,
   phase : {"idle", "fetch", "secure", "derive", "conclude", "log"},
   enriched : BOOLEAN, hit : BOOLEAN]

\* A manager nobody refers to any more.
Gone ==
  [demo |-> FALSE, accounts |-> {}, shown |-> {}, balances |-> {},
   stamp |-> "none", stats |-> "none",
   phase |-> "idle", enriched |-> FALSE, hit |-> FALSE]

Init ==
  /\ live = NoManager /\ mgr = [m \in Managers |-> Gone]
  /\ option = FALSE
  /\ entryAccounts = {"real"}
  /\ saved = [balances |-> {"real"}, stamp |-> "real", stats |-> "real"]

Set(m, fields) == mgr' = [mgr EXCEPT ![m] = fields]

\* The round of m is over, its locals are gone, and so is m if it was replaced.
EndRound(m, fields) ==
  Set(m, IF m = live
         THEN [fields EXCEPT !.phase = "idle", !.enriched = FALSE, !.hit = FALSE]
         ELSE Gone)

-----------------------------------------------------------------------------
(* Saving *)

\* Slip for the mutation runs: the demo flag is not looked at.
PersistAnyway(f) ==
  saved' = [balances |-> f.balances, stamp |-> f.stamp, stats |-> f.stats]

\* _persist_transactions: nothing is written in demo mode.
Persist(f) ==
  IF f.demo THEN UNCHANGED saved
  ELSE saved' = [balances |-> f.balances, stamp |-> f.stamp, stats |-> f.stats]

-----------------------------------------------------------------------------
(* set_demo_mode and its callers *)

Enabled(f) ==
  [f EXCEPT !.demo = TRUE, !.accounts = {"demo"}, !.shown = {"demo"},
            !.balances = {"demo"}, !.stamp = "demo", !.stats = "demo"]

\* Slip: only the flag is reset.
DisabledFlag(f) == [f EXCEPT !.demo = FALSE, !.accounts = entryAccounts]

\* The demo views are emptied; the last statistics stay.
Disabled(f) ==
  [f EXCEPT !.demo = FALSE, !.accounts = entryAccounts, !.shown = {},
            !.balances = {}, !.stamp = "none"]

\* The service backs the real views up before, and restores them before it
\* disables: what it restored is emptied at once, so the backup is left out.
ToggleService ==
  /\ live # NoManager
  /\ Set(live, IF mgr[live].demo THEN Disabled(mgr[live]) ELSE Enabled(mgr[live]))
  /\ UNCHANGED <<live, option, entryAccounts, saved>>

\* The HTTP view keeps the mode in the options.
ToggleView ==
  /\ live # NoManager
  /\ Set(live, IF mgr[live].demo THEN Disabled(mgr[live]) ELSE Enabled(mgr[live]))
  /\ option' = ~mgr[live].demo
  /\ UNCHANGED <<live, entryAccounts, saved>>

-----------------------------------------------------------------------------
(* Rounds and rebuilds *)

\* A caller takes the lock.  In demo mode the demo data is made anew and that is
\* all; otherwise the targets are read and the calls begin.
StartRound ==
  /\ live # NoManager /\ mgr[live].phase = "idle"
  /\ LET f == mgr[live]
     IN Set(live, IF f.demo
                  THEN [f EXCEPT !.shown = {"demo"}, !.balances = {"demo"},
                                 !.stamp = "demo", !.stats = "demo"]
                  ELSE [f EXCEPT !.phase = "fetch"])
  /\ UNCHANGED <<live, option, entryAccounts, saved>>

\* An account's details arrive; a record that is not in the list is added to it.
Enrich(m) ==
  /\ mgr[m].phase = "fetch"
  /\ Set(m, [mgr[m] EXCEPT !.enriched = TRUE, !.accounts = @ \cup {"real"}])
  /\ UNCHANGED <<live, option, entryAccounts, saved>>

\* The last answer is in; enriched accounts go to the config entry.
Fetched(m, hit) ==
  /\ mgr[m].phase = "fetch"
  /\ entryAccounts' = IF mgr[m].enriched THEN mgr[m].accounts ELSE entryAccounts
  /\ Set(m, [mgr[m] EXCEPT !.phase = "secure", !.enriched = FALSE, !.hit = hit])
  /\ UNCHANGED <<live, option, saved>>

Secure(m) ==
  /\ mgr[m].phase = "secure"
  /\ IF mgr[m].hit THEN Persist(mgr[m]) ELSE UNCHANGED saved
  /\ Set(m, [mgr[m] EXCEPT !.phase = "derive"])
  /\ UNCHANGED <<live, option, entryAccounts>>

\* The views are built from the ledger, fresh balances are merged, and both are
\* written, without an await in between.  A stamp needs an answered account.
Derive(m) ==
  /\ mgr[m].phase = "derive"
  /\ \E fresh \in BOOLEAN :
       LET f == [mgr[m] EXCEPT
                   !.phase = "conclude", !.shown = {"real"},
                   !.balances = IF fresh THEN @ \cup {"real"} ELSE @,
                   !.stamp = IF mgr[m].hit THEN "real" ELSE @]
       IN (fresh => mgr[m].hit) /\ Set(m, f) /\ Persist(f)
  /\ UNCHANGED <<live, option, entryAccounts>>

Conclude(m) ==
  /\ mgr[m].phase = "conclude"
  /\ LET f == [mgr[m] EXCEPT !.phase = "log", !.stats = "real"]
     IN Set(m, f) /\ Persist(f)
  /\ UNCHANGED <<live, option, entryAccounts>>

\* The round is logged, and the ledger written with the log.
RecordImport(m) ==
  /\ mgr[m].phase = "log"
  /\ Persist(mgr[m])
  /\ EndRound(m, mgr[m])
  /\ UNCHANGED <<live, option, entryAccounts>>

\* There is no client, the round was only debounced, or it raised.
Leave(m) ==
  /\ mgr[m].phase \in {"fetch", "derive", "conclude"} /\ ~mgr[m].enriched
  /\ \E stats \in {mgr[m].stats, "real"} : EndRound(m, [mgr[m] EXCEPT !.stats = stats])
  /\ UNCHANGED <<live, option, entryAccounts, saved>>

\* The rebuild of the ledger, by service or view, derives the views whatever the
\* mode; only the view writes them, the service's rebuild keeps the meta it finds.
Reprocess(byView) ==
  /\ live # NoManager /\ mgr[live].phase = "idle"
  /\ LET f == [mgr[live] EXCEPT !.shown = {"real"}]
     IN Set(live, f) /\ IF byView THEN Persist(f) ELSE UNCHANGED saved
  /\ UNCHANGED <<live, option, entryAccounts>>

-----------------------------------------------------------------------------
(* The config entry *)

\* async_shutdown: the ledger is written unless in demo mode, the balances are
\* cleared.  A round of the manager goes on.
Unload ==
  /\ live # NoManager
  /\ Persist(mgr[live])
  /\ Set(live, IF mgr[live].phase = "idle" THEN Gone ELSE [mgr[live] EXCEPT !.balances = {}])
  /\ live' = NoManager
  /\ UNCHANGED <<option, entryAccounts>>

Crash ==
  /\ live' = NoManager /\ mgr' = [m \in Managers |-> Gone]
  /\ UNCHANGED <<option, entryAccounts, saved>>

\* Slip: a stamp that was not saved becomes the oldest time there is.
LoadedUnstamped ==
  [Gone EXCEPT !.accounts = entryAccounts \cup {"real"}, !.shown = {"real"},
               !.balances = saved.balances,
               !.stamp = IF saved.stamp = "none" THEN "epoch" ELSE saved.stamp,
               !.stats = saved.stats]

\* async_initialize, and the accounts of the bank subentries the list lacks.
Loaded ==
  [Gone EXCEPT !.accounts = entryAccounts \cup {"real"}, !.shown = {"real"},
               !.balances = saved.balances, !.stamp = saved.stamp,
               !.stats = saved.stats]

\* async_setup_entry: a new manager; the option puts it in demo mode.
Setup(m) ==
  /\ live = NoManager /\ mgr[m].phase = "idle"
  /\ live' = m
  /\ Set(m, IF option THEN Enabled(Loaded) ELSE Loaded)
  /\ entryAccounts' = entryAccounts \cup {"real"}
  /\ UNCHANGED <<option, saved>>

-----------------------------------------------------------------------------
Next ==
  \/ ToggleService \/ ToggleView
  \/ StartRound
  \/ \E m \in Managers :
       \/ Enrich(m) \/ \E hit \in BOOLEAN : Fetched(m, hit)
       \/ Secure(m) \/ Derive(m) \/ Conclude(m)
       \/ RecordImport(m) \/ Leave(m)
  \/ \E byView \in BOOLEAN : Reprocess(byView)
  \/ Unload \/ Crash
  \/ \E m \in Managers : Setup(m)

Spec == Init /\ [][Next]_vars

-----------------------------------------------------------------------------
(* Properties *)

\* The state is well-typed: the managers' fields and the ledger's meta.
TypeOK ==
  /\ live \in Managers \cup {NoManager}
  /\ mgr \in [Managers -> Fields]
  /\ option \in BOOLEAN
  /\ entryAccounts \subseteq Origins
  /\ saved \in Meta

\* Invented balances never reach the ledger file, nor the time they were made,
\* whenever the demo starts and ends within a round, a rebuild or a reload.
SavedIsReal == "demo" \notin saved.balances /\ saved.stamp # "demo"

\* A manager that left the demo shows and counts nothing invented, although a
\* round merges its fresh balances with what it finds and may keep the stamp.
NothingInventedStays ==
  \A m \in Managers :
    ~mgr[m].demo => /\ "demo" \notin mgr[m].shown \cup mgr[m].balances
                    /\ mgr[m].stamp # "demo"
=============================================================================
