------------------------------ MODULE MCBankLinks ------------------------------
(* BankLinks for TLC: two banks, two flows, a bounded number of events that come
   from outside, and of steps that come between the reads and the reports of a
   check; setup, saves, flows under way and the daily refresh go on. *)
EXTENDS BankLinks

CONSTANTS
  MaxMoves,   \* bound: what the user, the banks and the clock do
  MaxSlips    \* bound: what happens while a check of the consents runs

VARIABLES moves, slips

\* Flows and banks are interchangeable: the first one to be used is always the same.
FirstBank == CHOOSE b \in Banks : TRUE
Untouched == records = {} /\ \A f \in Flows : flows[f].step = "idle"
FreeFlows == {f \in Flows : flows[f].step = "idle" /\ ~Busy(f)}
NextFlow == CHOOSE f \in FreeFlows : TRUE

MCInit ==
  /\ Init /\ records \subseteq {FirstBank}
  /\ records # {} => ends[1] = Lifetime
  /\ moves = 0 /\ slips = 0

MCMove ==
  \/ /\ FreeFlows # {}
     /\ \/ \E b \in Banks : (Untouched => b = FirstBank) /\ PickBank(NextFlow, b)
        \/ \E id \in Ids : Reconfigure(NextFlow, id)
  \/ \E id \in Ids : RemoveBank(id)
  \/ \E s \in Sessions : Revoke(s)
  \/ StoreCredentials \/ Stop \/ StartRound \/ Tick

MCReact ==
  \/ Boot \/ Migrate \/ NothingToMigrate \/ PruneStart \/ StartSetupCheck \/ FinishSetup
  \/ \E b \in Banks : AddMigrated(b)
  \/ \E written \in BOOLEAN : PruneEnd(written) \/ Reload(written)
  \/ StartRoundCheck \/ StartDaily
  \/ \E f \in Flows : \/ GiveUp(f) \/ StoreRecords(f) \/ StoreSession(f)
                      \/ AddSubentry(f) \/ AddRefused(f) \/ UpdateSubentry(f)
  \/ \E actor \in Actors : Save(actor)
  \/ \E id \in Ids : PruneOne(id) \/ Rejected(id)

MCCheck ==
  \/ EndSetupCheck \/ EndRound \/ EndDaily
  \/ \E c \in Callers, id \in Ids : ReadConsent(c, id)

Slip ==
  IF \E c \in Callers : Checking(c) THEN slips < MaxSlips /\ slips' = slips + 1
                                    ELSE UNCHANGED slips

MCNext ==
  \/ MCCheck /\ UNCHANGED <<moves, slips>>
  \/ MCReact /\ Slip /\ UNCHANGED moves
  \/ MCMove /\ Slip /\ moves < MaxMoves /\ moves' = moves + 1

MCSpec == MCInit /\ [][MCNext]_<<vars, moves, slips>> /\ Fairness
=============================================================================
