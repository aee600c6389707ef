----------------------------- MODULE FetchBudget -----------------------------
(***************************************************************************)
(* The per-bank fetch budget of fetch_budget.py: a pure gate over the      *)
(* persisted state of every bank, with the clock as a parameter.           *)
(*                                                                         *)
(* A budget is a record                                                    *)
(*   used[a]         the day and the count of the account's last unattended *)
(*                   fetch rounds,                                         *)
(*   blockedUntil[b] until when a 429 keeps unattended access out,         *)
(*   lastAttended[b] when the user last had the bank fetched.              *)
(* A time stamp that was never set is a time long past: 0 for a block,     *)
(* Never for an attended fetch.  The text of last_error and the last       *)
(* success are display data and left out.                                  *)
(***************************************************************************)
EXTENDS Integers

CONSTANTS
  Banks,              \* linked banks (config subentries)
  Accounts,           \* account keys
  BankOf,             \* the bank an account belongs to
  Limit,              \* unattended rounds a bank grants an account per day
  ScheduledShare,     \* how many of them the daily refresh may use
  Debounce,           \* attended fetches of a bank lie this far apart
  AttendedBackoff,    \* block after an attended 429
  BackgroundBackoff   \* block after an unattended 429

ASSUME BudgetAssumption ==
  /\ BankOf \in [Accounts -> Banks]
  /\ Limit \in Nat \ {0} /\ ScheduledShare \in Nat \ {0}
  /\ Debounce \in Nat \ {0}
  /\ AttendedBackoff \in Nat /\ BackgroundBackoff \in Nat

Kinds == {"attended", "background", "scheduled"}

Never == -Debounce

NoRetryAfter == -1

AccountsOf(b) == {a \in Accounts : BankOf[a] = b}

Budget ==
  [used : [Accounts -> [day : Nat, count : Nat]],
   blockedUntil : [Banks -> Nat],
   lastAttended : [Banks -> Int]]

EmptyBudget ==
  [used |-> [a \in Accounts |-> [day |-> 0, count |-> 0]],
   blockedUntil |-> [b \in Banks |-> 0],
   lastAttended |-> [b \in Banks |-> Never]]

-----------------------------------------------------------------------------
(* Queries *)

\* A count of an earlier day is worth nothing today.
UsedToday(bg, a, today) ==
  IF bg.used[a].day = today THEN bg.used[a].count ELSE 0

Blocked(bg, b, now) == now < bg.blockedUntil[b]

\* Slip for the mutation runs: every caller has the whole limit.
CapOfAll(kind) == Limit

Cap(kind) ==
  IF kind = "scheduled" /\ ScheduledShare < Limit THEN ScheduledShare ELSE Limit

\* Slip: the cap is noticed one call late.
ExhaustedLate(bg, b, kind, today) ==
  \E a \in AccountsOf(b) : UsedToday(bg, a, today) > Cap(kind)

\* used_today is the count of the bank's busiest account.
Exhausted(bg, b, kind, today) ==
  \E a \in AccountsOf(b) : UsedToday(bg, a, today) >= Cap(kind)

Debounced(bg, b, now) == now - bg.lastAttended[b] < Debounce

Decide(bg, b, kind, now, today) ==
  IF kind = "attended"
  THEN IF Debounced(bg, b, now) THEN "debounced" ELSE "ok"
  ELSE IF Blocked(bg, b, now) THEN "blocked"
       ELSE IF Exhausted(bg, b, kind, today) THEN "budget_exhausted" ELSE "ok"

-----------------------------------------------------------------------------
(* Recording *)

\* The stamp an attended round leaves, before its first call and at each account.
StampAttended(bg, b, now) == [bg EXCEPT !.lastAttended[b] = now]

\* Slip: the first attempt of a new day only resets the count.
CountAttemptAfterReset(bg, a, today) ==
  [bg EXCEPT !.used[a] = [day |-> today,
     count |-> IF bg.used[a].day = today THEN bg.used[a].count + 1 ELSE 0]]

\* One more round of an account; the first of a new day starts over at one.
CountAttempt(bg, a, today) ==
  [bg EXCEPT !.used[a] = [day |-> today, count |-> UsedToday(bg, a, today) + 1]]

RecordAttempt(bg, a, kind, now, today) ==
  IF kind = "attended" THEN StampAttended(bg, BankOf[a], now)
  ELSE CountAttempt(bg, a, today)

\* Slip: a missing Retry-After is used as if it were one.
BackoffOfHeader(kind, retryAfter) == retryAfter

\* Retry-After wins, and the new deadline replaces the old one.
Backoff(kind, retryAfter) ==
  IF retryAfter # NoRetryAfter THEN retryAfter
  ELSE IF kind = "attended" THEN AttendedBackoff ELSE BackgroundBackoff

Block(bg, b, kind, retryAfter, now) ==
  [bg EXCEPT !.blockedUntil[b] = now + Backoff(kind, retryAfter)]
=============================================================================
