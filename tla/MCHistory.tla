------------------------------ MODULE MCHistory ------------------------------
(* LedgerHistory for TLC: a payment with an id from the legacy cache, and two
   identical ones without. *)
EXTENDS LedgerHistory

CONSTANTS
  old, twin1, twin2,
  rent, coffee, id,
  MaxDay, MaxSession,
  MaxMoves,   \* moves of the bank
  MaxRounds,  \* fetches
  MaxFaults   \* failed writes, restarts and rebuilds

VARIABLES moves, rounds, faults

MCWhat == (old :> rent) @@ (twin1 :> coffee) @@ (twin2 :> coffee)

MCTid == (old :> id) @@ (twin1 :> NoTid) @@ (twin2 :> NoTid)

MCRank == (old :> 1) @@ (twin1 :> 2) @@ (twin2 :> 3)

MCInit == Init /\ moves = 0 /\ rounds = 0 /\ faults = 0

\* The twins come in their order, the second without waiting; the payment with an
\* id and the first one without are dated anew.  The day and the session change
\* once there is something to compare.
MCBank ==
  \/ rounds > 0 /\ (NextDay \/ Relink)
  \/ Announce(twin1)
  \/ \E date \in (day - Overlap)..day :
       \/ Redate(old, date) \/ Redate(twin1, date) \/ Book(twin1, date)
       \/ bank[twin1].status # "absent" /\ Book(twin2, date)
  \/ \E p \in Payments : Cancel(p)

\* A partial answer holds the newest payments.
MCFetch ==
  \E attended \in BOOLEAN, limit \in Limits, days \in Asked :
    LET from == RequestFrom(attended, limit, days)
    IN \/ \E depth \in Depths : FetchAll(attended, from, depth)
       \/ \E cut \in from..MaxDay :
            LET part == Since(AtBank("booked"), cut)
            IN FetchPart(attended, from, part) \/ FetchBroken(from, part)

MCNext ==
  \/ /\ rounds < MaxRounds
     /\ MCBank /\ day' <= MaxDay /\ session' <= MaxSession
     /\ bank' # bank => moves < MaxMoves
     /\ moves' = IF bank' # bank THEN moves + 1 ELSE moves
     /\ UNCHANGED <<rounds, faults>>
  \/ rounds < MaxRounds /\ MCFetch /\ rounds' = rounds + 1 /\ UNCHANGED <<moves, faults>>
  \/ (Flush(TRUE) \/ Save(TRUE)) /\ UNCHANGED <<moves, rounds, faults>>
  \/ /\ faults < MaxFaults /\ faults' = faults + 1
     /\ \/ Flush(FALSE) \/ Save(FALSE)
        \/ \E done \in BOOLEAN : Rebuild(done) \/ Restart(done)
     /\ UNCHANGED <<moves, rounds>>

MCSpec == MCInit /\ [][MCNext]_<<vars, moves, rounds, faults>>
=============================================================================
