---------------------------- MODULE DemoMode_proofs ----------------------------
(* What the demo leaves behind, for any number of managers. *)
EXTENDS DemoMode, TLAPS

\* What is saved is copied from a manager outside the demo, and what such a
\* manager holds comes from the bank or from what is saved: the two promises
\* are inductive together.
DemoInv == TypeOK /\ SavedIsReal /\ NothingInventedStays

Clean(f) ==
  f.demo \/ ("demo" \notin f.shown \cup f.balances /\ f.stamp # "demo")

LEMMA GoneIsClean == Gone \in Fields /\ Clean(Gone)
BY DEF Gone, Fields, Clean, Origins, Stamps

\* Only a manager outside the demo is written.
LEMMA PersistSavesReal ==
  ASSUME NEW f \in Fields, Clean(f), saved \in Meta, SavedIsReal, Persist(f)
  PROVE  saved' \in Meta /\ SavedIsReal'
BY DEF Persist, Fields, Clean, Meta, SavedIsReal

\* A step that sets one manager keeps the managers' part of the invariant when
\* the new fields are clean.
LEMMA SetKeepsClean ==
  ASSUME TypeOK, NothingInventedStays,
         NEW m \in Managers, NEW f \in Fields, Clean(f), Set(m, f)
  PROVE  mgr' \in [Managers -> Fields] /\ NothingInventedStays'
BY DEF TypeOK, NothingInventedStays, Set, Clean

LEMMA ManagersAreClean ==
  ASSUME TypeOK, NothingInventedStays, NEW m \in Managers
  PROVE  mgr[m] \in Fields /\ Clean(mgr[m])
BY DEF TypeOK, NothingInventedStays, Clean

LEMMA EndRoundKeepsClean ==
  ASSUME TypeOK, NothingInventedStays,
         NEW m \in Managers, NEW f \in Fields, Clean(f), EndRound(m, f)
  PROVE  mgr' \in [Managers -> Fields] /\ NothingInventedStays'
<1> DEFINE g == [f EXCEPT !.phase = "idle", !.enriched = FALSE, !.hit = FALSE]
<1>1. g \in Fields /\ Clean(g)
  BY DEF Fields, Clean
<1>2. CASE m = live
  BY <1>1, <1>2, SetKeepsClean DEF EndRound
<1>3. CASE m # live
  BY <1>3, GoneIsClean, SetKeepsClean DEF EndRound
<1> QED
  BY <1>2, <1>3

LEMMA EnabledIsClean ==
  ASSUME NEW f \in Fields
  PROVE  Enabled(f) \in Fields /\ Clean(Enabled(f))
BY DEF Enabled, Fields, Clean, Origins, Stamps

LEMMA DisabledIsClean ==
  ASSUME TypeOK, NEW f \in Fields
  PROVE  Disabled(f) \in Fields /\ Clean(Disabled(f))
BY DEF TypeOK, Disabled, Fields, Clean, Origins, Stamps

LEMMA LoadedIsClean ==
  ASSUME TypeOK, SavedIsReal
  PROVE  Loaded \in Fields /\ Clean(Loaded)
BY DEF TypeOK, SavedIsReal, Loaded, Gone, Meta, Fields, Clean, Origins, Stamps

-----------------------------------------------------------------------------
LEMMA InitDemo == Init => DemoInv
<1> SUFFICES ASSUME Init PROVE DemoInv
  OBVIOUS
<1>1. TypeOK
  BY GoneIsClean DEF Init, TypeOK, Meta, Origins, Stamps
<1>2. SavedIsReal /\ NothingInventedStays
  BY DEF Init, SavedIsReal, NothingInventedStays, Gone
<1> QED
  BY <1>1, <1>2 DEF DemoInv

LEMMA StepDemo == DemoInv /\ [Next]_vars => DemoInv'
<1> SUFFICES ASSUME DemoInv, [Next]_vars PROVE DemoInv'
  OBVIOUS
<1> USE DEF DemoInv
<1>0. live # NoManager => /\ live \in Managers
                          /\ mgr[live] \in Fields /\ Clean(mgr[live])
  BY ManagersAreClean DEF TypeOK
<1>1. ASSUME ToggleService \/ ToggleView PROVE DemoInv'
  <2>1. mgr' \in [Managers -> Fields] /\ NothingInventedStays'
    BY <1>0, <1>1, EnabledIsClean, DisabledIsClean, SetKeepsClean
    DEF ToggleService, ToggleView
  <2> QED
    BY <1>0, <1>1, <2>1 DEF ToggleService, ToggleView, TypeOK, SavedIsReal
<1>2. ASSUME StartRound PROVE DemoInv'
  <2> DEFINE again == [mgr[live] EXCEPT !.shown = {"demo"}, !.balances = {"demo"},
                                        !.stamp = "demo", !.stats = "demo"]
             begun == [mgr[live] EXCEPT !.phase = "fetch"]
  <2>1. mgr[live].demo => again \in Fields /\ Clean(again)
    BY <1>0, <1>2 DEF StartRound, Fields, Clean, Origins, Stamps
  <2>2. begun \in Fields /\ Clean(begun)
    BY <1>0, <1>2 DEF StartRound, Fields, Clean
  <2>3. mgr' \in [Managers -> Fields] /\ NothingInventedStays'
    BY <1>0, <1>2, <2>1, <2>2, SetKeepsClean DEF StartRound
  <2> QED
    BY <1>2, <2>3 DEF StartRound, TypeOK, SavedIsReal
<1>3. ASSUME NEW m \in Managers, Enrich(m) PROVE DemoInv'
  <2> DEFINE f == [mgr[m] EXCEPT !.enriched = TRUE, !.accounts = @ \cup {"real"}]
  <2>1. f \in Fields /\ Clean(f)
    BY ManagersAreClean DEF Fields, Clean, Origins
  <2> QED
    BY <1>3, <2>1, SetKeepsClean DEF Enrich, TypeOK, SavedIsReal
<1>4. ASSUME NEW m \in Managers, NEW hit \in BOOLEAN, Fetched(m, hit) PROVE DemoInv'
  <2> DEFINE f == [mgr[m] EXCEPT !.phase = "secure", !.enriched = FALSE, !.hit = hit]
  <2>1. f \in Fields /\ Clean(f)
    BY ManagersAreClean DEF Fields, Clean
  <2>2. entryAccounts' \subseteq Origins
    BY <1>4, ManagersAreClean DEF Fetched, Fields, TypeOK
  <2> QED
    BY <1>4, <2>1, <2>2, SetKeepsClean DEF Fetched, TypeOK, SavedIsReal
<1>5. ASSUME NEW m \in Managers, Secure(m) PROVE DemoInv'
  <2> DEFINE f == [mgr[m] EXCEPT !.phase = "derive"]
  <2>1. f \in Fields /\ Clean(f)
    BY ManagersAreClean DEF Fields, Clean
  <2>2. mgr' \in [Managers -> Fields] /\ NothingInventedStays'
    BY <1>5, <2>1, SetKeepsClean DEF Secure
  <2>3. saved' \in Meta /\ SavedIsReal'
    BY <1>5, ManagersAreClean, PersistSavesReal DEF Secure, TypeOK, SavedIsReal
  <2> QED
    BY <1>5, <2>2, <2>3 DEF Secure, TypeOK
<1>6. ASSUME NEW m \in Managers, Derive(m) PROVE DemoInv'
  <2> DEFINE f(fresh) ==
        [mgr[m] EXCEPT
           !.phase = "conclude", !.shown = {"real"},
           !.balances = IF fresh THEN @ \cup {"real"} ELSE @,
           !.stamp = IF mgr[m].hit THEN "real" ELSE @]
  <2>1. PICK fresh \in BOOLEAN : Set(m, f(fresh)) /\ Persist(f(fresh))
    BY <1>6 DEF Derive
  <2>2. f(fresh) \in Fields /\ Clean(f(fresh))
    BY ManagersAreClean DEF Fields, Clean, Origins, Stamps
  <2>3. mgr' \in [Managers -> Fields] /\ NothingInventedStays'
    BY <2>1, <2>2, SetKeepsClean
  <2>4. saved' \in Meta /\ SavedIsReal'
    BY <2>1, <2>2, PersistSavesReal DEF TypeOK
  <2> QED
    BY <1>6, <2>3, <2>4 DEF Derive, TypeOK
<1>7. ASSUME NEW m \in Managers, Conclude(m) PROVE DemoInv'
  <2> DEFINE f == [mgr[m] EXCEPT !.phase = "log", !.stats = "real"]
  <2>1. f \in Fields /\ Clean(f)
    BY ManagersAreClean DEF Fields, Clean, Origins, Stamps
  <2>2. mgr' \in [Managers -> Fields] /\ NothingInventedStays'
    BY <1>7, <2>1, SetKeepsClean DEF Conclude
  <2>3. saved' \in Meta /\ SavedIsReal'
    BY <1>7, <2>1, PersistSavesReal DEF Conclude, TypeOK
  <2> QED
    BY <1>7, <2>2, <2>3 DEF Conclude, TypeOK
<1>8. ASSUME NEW m \in Managers, RecordImport(m) PROVE DemoInv'
  <2>1. mgr' \in [Managers -> Fields] /\ NothingInventedStays'
    BY <1>8, ManagersAreClean, EndRoundKeepsClean DEF RecordImport
  <2>2. saved' \in Meta /\ SavedIsReal'
    BY <1>8, ManagersAreClean, PersistSavesReal DEF RecordImport, TypeOK
  <2> QED
    BY <1>8, <2>1, <2>2 DEF RecordImport, TypeOK
<1>9. ASSUME NEW m \in Managers, Leave(m) PROVE DemoInv'
  <2> DEFINE f(stats) == [mgr[m] EXCEPT !.stats = stats]
  <2>1. PICK stats \in {mgr[m].stats, "real"} : EndRound(m, f(stats))
    BY <1>9 DEF Leave
  <2>2. f(stats) \in Fields /\ Clean(f(stats))
    BY ManagersAreClean DEF Fields, Clean, Origins, Stamps
  <2>3. mgr' \in [Managers -> Fields] /\ NothingInventedStays'
    BY <2>1, <2>2, EndRoundKeepsClean
  <2> QED
    BY <1>9, <2>3 DEF Leave, TypeOK, SavedIsReal
<1>10. ASSUME NEW byView \in BOOLEAN, Reprocess(byView) PROVE DemoInv'
  <2> DEFINE f == [mgr[live] EXCEPT !.shown = {"real"}]
  <2>1. f \in Fields /\ Clean(f)
    BY <1>0, <1>10 DEF Reprocess, Fields, Clean, Origins
  <2>2. mgr' \in [Managers -> Fields] /\ NothingInventedStays'
    BY <1>0, <1>10, <2>1, SetKeepsClean DEF Reprocess
  <2>3. saved' \in Meta /\ SavedIsReal'
    BY <1>10, <2>1, PersistSavesReal DEF Reprocess, TypeOK, SavedIsReal
  <2> QED
    BY <1>10, <2>2, <2>3 DEF Reprocess, TypeOK
<1>11. ASSUME Unload PROVE DemoInv'
  <2> DEFINE f == [mgr[live] EXCEPT !.balances = {}]
  <2>1. f \in Fields /\ Clean(f)
    BY <1>0, <1>11 DEF Unload, Fields, Clean
  <2>2. mgr' \in [Managers -> Fields] /\ NothingInventedStays'
    BY <1>0, <1>11, <2>1, GoneIsClean, SetKeepsClean DEF Unload
  <2>3. saved' \in Meta /\ SavedIsReal'
    BY <1>0, <1>11, PersistSavesReal DEF Unload, TypeOK
  <2> QED
    BY <1>11, <2>2, <2>3 DEF Unload, TypeOK
<1>12. ASSUME Crash PROVE DemoInv'
  <2>1. mgr' \in [Managers -> Fields] /\ NothingInventedStays'
    BY <1>12, GoneIsClean DEF Crash, NothingInventedStays, Clean
  <2> QED
    BY <1>12, <2>1 DEF Crash, TypeOK, SavedIsReal
<1>13. ASSUME NEW m \in Managers, Setup(m) PROVE DemoInv'
  <2>1. mgr' \in [Managers -> Fields] /\ NothingInventedStays'
    BY <1>13, LoadedIsClean, EnabledIsClean, SetKeepsClean DEF Setup
  <2> QED
    BY <1>13, <2>1 DEF Setup, TypeOK, SavedIsReal, Origins
<1>14. CASE UNCHANGED vars
  BY <1>14 DEF vars, TypeOK, SavedIsReal, NothingInventedStays
<1> QED
  BY <1>1, <1>2, <1>3, <1>4, <1>5, <1>6, <1>7, <1>8, <1>9, <1>10, <1>11, <1>12,
     <1>13, <1>14 DEF Next

-----------------------------------------------------------------------------
\* The managers, the options and what is saved are well-typed.
THEOREM TypeCorrect == Spec => []TypeOK
<1>1. DemoInv => TypeOK
  BY DEF DemoInv
<1> QED
  BY <1>1, InitDemo, StepDemo, PTL DEF Spec

\* No toggle, round, rebuild, reload or crash puts an invented balance or stamp
\* into the ledger file.
THEOREM DemoStaysOut == Spec => []SavedIsReal
<1>1. DemoInv => SavedIsReal
  BY DEF DemoInv
<1> QED
  BY <1>1, InitDemo, StepDemo, PTL DEF Spec

\* A manager outside the demo holds nothing invented, in every interleaving of
\* toggles with rounds.
THEOREM DemoLeaves == Spec => []NothingInventedStays
<1>1. DemoInv => NothingInventedStays
  BY DEF DemoInv
<1> QED
  BY <1>1, InitDemo, StepDemo, PTL DEF Spec
=============================================================================
