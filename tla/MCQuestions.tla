------------------------------ MODULE MCQuestions ------------------------------
(* Questions for TLC: a shop with two bookings, a cafe with one. *)
EXTENDS Questions

CONSTANTS
  m1, m2, shop, cafe, s1, s2, c1,
  MaxMonth,
  MaxPasses,  \* AI passes
  MaxMoves    \* moves of the user and the world

VARIABLES passes, moves

MCMerchantOf == (s1 :> shop) @@ (s2 :> shop) @@ (c1 :> cafe)

\* One booking comes later; the key is there.
MCInit ==
  /\ Init /\ ledger = {s1, c1} /\ cfg.cap = HardCap /\ cfg.keyed /\ cfg.key
  /\ passes = 0 /\ moves = 0

\* The user takes the key away, or has Home Assistant's AI instead, or lowers the cap.
MCSettings ==
  \/ ChangeSettings(cfg.cap, TRUE, FALSE)
  \/ ChangeSettings(cfg.cap, FALSE, cfg.key)
  \/ ChangeSettings(1, cfg.keyed, cfg.key)

MCMove ==
  \/ \E x \in Merchants : AnswerMerchant(x) \/ AnswerBookings(x)
  \/ SetOptIn(FALSE) \/ MCSettings \/ Test
  \/ \E b \in Bookings : Import(b)
  \/ month < MaxMonth /\ NewMonth
  \/ \E m \in Managers : Setup(m, FALSE)
  \/ Unload \/ Crash

MCNext ==
  \/ Schedule /\ passes < MaxPasses /\ passes' = passes + 1 /\ UNCHANGED moves
  \/ (\E m \in Managers : PassStep(m)) /\ UNCHANGED <<passes, moves>>
  \/ MCMove /\ moves < MaxMoves /\ moves' = moves + 1 /\ UNCHANGED passes
  \/ (passes = 0 /\ SetOptIn(TRUE)) /\ UNCHANGED <<passes, moves>>
  \/ (\E m \in Managers : Setup(m, TRUE)) /\ UNCHANGED <<passes, moves>>

\* The managers are alike.
MCSymmetry == Permutations(Managers)

MCSpec == MCInit /\ [][MCNext]_<<vars, passes, moves>>
=============================================================================
