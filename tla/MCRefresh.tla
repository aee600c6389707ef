------------------------------ MODULE MCRefresh ------------------------------
(* Refresh on two banks, the first with two accounts, for TLC. *)
EXTENDS Refresh, TLC

CONSTANTS
  b1, b2, a1, a2, a3,
  MaxTime,    \* the clock stops here
  MaxDay,     \* and so does the calendar
  MaxRounds,  \* callers of one behaviour
  MaxFaults   \* failed writes and restarts of one behaviour

VARIABLES rounds, faults

MCBankOf == (a1 :> b1) @@ (a2 :> b1) @@ (a3 :> b2)

\* One consent runs out while the clock still ticks.
MCConsentUntil == (b1 :> MaxTime + 1) @@ (b2 :> MaxTime)

MCRetryAfters == {NoRetryAfter, 1}

MCPosition == (b1 :> 1) @@ (b2 :> 2) @@ (a1 :> 1) @@ (a2 :> 2) @@ (a3 :> 3)

MCInit == Init /\ rounds = 0 /\ faults = 0

\* A failed write counts when it puts the disk behind; the next round's first
\* write then succeeds.
MCRound ==
  /\ \/ Call /\ rounds < MaxRounds /\ rounds' = rounds + 1
     \/ RoundStep /\ UNCHANGED rounds
  /\ ~(phase = "derive" /\ unsaved /\ unsaved')
  /\ faults' = IF unsaved' /\ ~unsaved THEN faults + 1 ELSE faults
  /\ faults' <= MaxFaults

MCClock ==
  /\ now < MaxTime
  /\ Tick \/ (today < MaxDay /\ Midnight)
  /\ UNCHANGED <<rounds, faults>>

MCRestart ==
  /\ faults < MaxFaults /\ faults' = faults + 1
  /\ \E load \in Loads : Restart(load)
  /\ UNCHANGED rounds

\* The callers may stop coming.
MCQuiet ==
  /\ phase = "idle" /\ rounds = MaxRounds /\ now = MaxTime
  /\ UNCHANGED <<vars, rounds, faults>>

MCNext == MCRound \/ MCClock \/ MCRestart \/ MCQuiet

MCSpec == MCInit /\ [][MCNext]_<<vars, rounds, faults>> /\ WF_vars(RoundStep)
=============================================================================
