------------------------------- MODULE Refresh -------------------------------
(***************************************************************************)
(* The live refresh of manager/_refresh.py around the fetch budget.        *)
(*                                                                         *)
(* Any number of callers ask for a refresh: a click (attended), a service  *)
(* call (background), the daily timer (scheduled).  asyncio.Lock lets one  *)
(* round run at a time; whoever waits for it has no effect before, so the  *)
(* model keeps no queue: an idle lock is taken by a caller of any kind.  A *)
(* round walks the banks; a bank is passed over or opened, and every       *)
(* account of an opened bank costs one attempt, one transactions window    *)
(* and one balances call, each answered by the bank in one of four ways.   *)
(* Every await is a boundary between two steps, so the clock and a restart *)
(* of Home Assistant fall anywhere.                                        *)
(*                                                                         *)
(* budget is the state in memory, disk its copy in the encrypted ledger.   *)
(* calls and lost are history variables: what the banks saw from each      *)
(* account without the user today, and the part of it no counter knows.    *)
(***************************************************************************)
EXTENDS FetchBudget

CONSTANTS
  ConsentUntil,   \* when the consent of a bank expires
  RetryAfters,    \* the Retry-After values banks send, NoRetryAfter for none
  Position,       \* where the config entry lists a bank or an account
  NoBank, NoAccount

ASSUME RefreshAssumption ==
  /\ ConsentUntil \in [Banks -> Nat]
  /\ RetryAfters \subseteq Nat \cup {NoRetryAfter}
  /\ Position \in [Banks \cup Accounts -> Nat]
  /\ NoBank \notin Banks /\ NoAccount \notin Accounts

VARIABLES
  now, today,     \* the clock and the local day
  budget, disk,   \* FetchBudget in memory, and as last saved
  writable,       \* _ledger_writable
  phase, round,   \* where the round that holds the lock is, its locals
  unsaved,        \* a write failed, or the round raised before it
  calls, lost     \* history: unattended attempts today, and those forgotten

vars == <<now, today, budget, disk, writable, phase, round, unsaved,
          calls, lost>>

Phases == {"idle", "banks", "accounts", "window", "balances", "secure",
           "derive", "conclude"}

Answers == {"ok", "rate_limited", "unauthorized", "failed"}

\* The locals of _do_refresh.  answered are the accounts that delivered a
\* window (accounts_hit), done those that delivered both calls.
Rounds ==
  [kind : Kinds,
   banks : SUBSET Banks, bank : Banks \cup {NoBank},
   accounts : SUBSET Accounts, account : Accounts \cup {NoAccount},
   answered : SUBSET Accounts, done : SUBSET Accounts,
   debounced : SUBSET Banks, limited : BOOLEAN, errors : BOOLEAN]

NewRound(kind) ==
  [kind |-> kind,
   banks |-> Banks, bank |-> NoBank, accounts |-> {}, account |-> NoAccount,
   answered |-> {}, done |-> {}, debounced |-> {},
   limited |-> FALSE, errors |-> FALSE]

\* Between rounds the locals are gone.
NoRound == [NewRound("attended") EXCEPT !.banks = {}]

\* Banks and accounts are visited in the order of their list.
Nearest(S) == {x \in S : \A y \in S : Position[x] <= Position[y]}

Zero == [a \in Accounts |-> 0]

Init ==
  /\ now = 0 /\ today = 0
  /\ budget = EmptyBudget /\ disk = EmptyBudget
  /\ writable = TRUE
  /\ phase = "idle" /\ round = NoRound
  /\ unsaved = FALSE
  /\ calls = Zero /\ lost = Zero

-----------------------------------------------------------------------------
(* The clock *)

Tick ==
  /\ now' = now + 1
  /\ UNCHANGED <<today, budget, disk, writable, phase, round, unsaved,
                 calls, lost>>

Midnight ==
  /\ now' = now + 1 /\ today' = today + 1
  /\ calls' = Zero /\ lost' = Zero
  /\ UNCHANGED <<budget, disk, writable, phase, round, unsaved>>

-----------------------------------------------------------------------------
(* Saving *)

\* _persist_transactions: skipped without a writable ledger, a failed write is
\* logged and swallowed.
Persist(saved) ==
  /\ disk' = IF writable /\ saved THEN budget ELSE disk
  /\ unsaved' = ~saved

-----------------------------------------------------------------------------
(* A round *)

\* The lock is free and a caller takes it.
Start(kind) ==
  /\ phase = "idle"
  /\ round' = NewRound(kind)
  /\ phase' = "banks"
  /\ UNCHANGED <<now, today, budget, disk, writable, unsaved, calls, lost>>

\* Without credentials there is no client and the round is logged as an error;
\* an unreadable credential store raises, and nothing is written.
StartWithoutClient ==
  /\ phase = "idle"
  /\ (\E saved \in BOOLEAN : Persist(saved)) \/ UNCHANGED <<disk, unsaved>>
  /\ UNCHANGED <<now, today, budget, writable, phase, round, calls, lost>>

\* An expired consent is reported and the bank not called.
SkipExpired(b) ==
  /\ phase = "banks" /\ b \in Nearest(round.banks)
  /\ now >= ConsentUntil[b]
  /\ round' = [round EXCEPT !.banks = @ \ {b}, !.errors = TRUE]
  /\ UNCHANGED <<now, today, budget, disk, writable, phase, unsaved,
                 calls, lost>>

\* Slip for the mutation runs: a refused bank is asked again in the same round.
RefuseAndWait(b) ==
  /\ phase = "banks" /\ b \in Nearest(round.banks)
  /\ now < ConsentUntil[b]
  /\ Decide(budget, b, round.kind, now, today) # "ok"
  /\ round' = [round EXCEPT !.limited = TRUE, !.errors = TRUE]
  /\ UNCHANGED <<now, today, budget, disk, writable, phase, unsaved,
                 calls, lost>>

\* The gate refuses the bank: a debounced one goes unnoticed, a blocked or
\* spent one makes the round a rate-limited one.
Refuse(b) ==
  LET reason == Decide(budget, b, round.kind, now, today)
  IN /\ phase = "banks" /\ b \in Nearest(round.banks)
     /\ now < ConsentUntil[b]
     /\ reason # "ok"
     /\ round' = [round EXCEPT
          !.banks = @ \ {b},
          !.debounced = IF reason = "debounced" THEN @ \cup {b} ELSE @,
          !.limited = @ \/ reason # "debounced",
          !.errors = @ \/ reason # "debounced"]
     /\ UNCHANGED <<now, today, budget, disk, writable, phase, unsaved,
                    calls, lost>>

\* The gate lets the round in; an attended one is stamped before its first call.
Open(b) ==
  /\ phase = "banks" /\ b \in Nearest(round.banks)
  /\ now < ConsentUntil[b]
  /\ Decide(budget, b, round.kind, now, today) = "ok"
  /\ budget' = IF round.kind = "attended" THEN StampAttended(budget, b, now) ELSE budget
  /\ round' = [round EXCEPT !.banks = @ \ {b}, !.bank = b, !.accounts = AccountsOf(b)]
  /\ phase' = "accounts"
  /\ UNCHANGED <<now, today, disk, writable, unsaved, calls, lost>>

\* The next account is counted, then called.
Attempt(a) ==
  /\ phase = "accounts" /\ a \in Nearest(round.accounts)
  /\ budget' = RecordAttempt(budget, a, round.kind, now, today)
  /\ round' = [round EXCEPT !.accounts = @ \ {a}, !.account = a]
  /\ calls' = IF round.kind = "attended" THEN calls
              ELSE [calls EXCEPT ![a] = @ + 1]
  /\ phase' = "window"
  /\ UNCHANGED <<now, today, disk, writable, unsaved, lost>>

\* Slip: `continue` where the code has `break`.
RateLimitedGoesOn ==
  /\ \E retryAfter \in RetryAfters :
       budget' = Block(budget, round.bank, round.kind, retryAfter, now)
  /\ round' = [round EXCEPT !.account = NoAccount, !.limited = TRUE, !.errors = TRUE]
  /\ phase' = "accounts"

\* A 429 blocks the bank and ends it for this round; the other banks go on.
RateLimited ==
  /\ \E retryAfter \in RetryAfters :
       budget' = Block(budget, round.bank, round.kind, retryAfter, now)
  /\ round' = [round EXCEPT !.bank = NoBank, !.accounts = {}, !.account = NoAccount,
                            !.limited = TRUE, !.errors = TRUE]
  /\ phase' = "banks"

\* Slip: the failure is not added to the errors.
AccountFailedQuietly ==
  /\ round' = [round EXCEPT !.account = NoAccount]
  /\ phase' = "accounts"
  /\ UNCHANGED budget

\* Any other error is the account's own: the bank's next account follows.
AccountFailed ==
  /\ round' = [round EXCEPT !.account = NoAccount, !.errors = TRUE]
  /\ phase' = "accounts"
  /\ UNCHANGED budget

\* The transactions window, and before it an attended details call, come back.
\* Only a delivered window reaches the ledger and asks for the balances.
WindowAnswer(answer) ==
  /\ phase = "window"
  /\ \/ /\ answer = "ok"
        /\ round' = [round EXCEPT !.answered = @ \cup {round.account}]
        /\ phase' = "balances"
        /\ UNCHANGED budget
     \/ answer = "rate_limited" /\ RateLimited
     \/ answer \in {"unauthorized", "failed"} /\ AccountFailed
  /\ UNCHANGED <<now, today, disk, writable, unsaved, calls, lost>>

BalancesAnswer(answer) ==
  /\ phase = "balances"
  /\ \/ /\ answer = "ok"
        /\ round' = [round EXCEPT !.done = @ \cup {round.account}, !.account = NoAccount]
        /\ phase' = "accounts"
        /\ UNCHANGED budget
     \/ answer = "rate_limited" /\ RateLimited
     \/ answer \in {"unauthorized", "failed"} /\ AccountFailed
  /\ UNCHANGED <<now, today, disk, writable, unsaved, calls, lost>>

CloseBank ==
  /\ phase = "accounts" /\ round.accounts = {}
  /\ round' = [round EXCEPT !.bank = NoBank]
  /\ phase' = "banks"
  /\ UNCHANGED <<now, today, budget, disk, writable, unsaved,
                 calls, lost>>

-----------------------------------------------------------------------------
(* The end of a round *)

\* What the banks sent is written before anything is computed from it; with no
\* account answered there is nothing to secure.
Secure ==
  /\ phase = "banks" /\ round.banks = {}
  /\ IF round.answered # {} THEN \E saved \in BOOLEAN : Persist(saved)
     ELSE UNCHANGED <<disk, unsaved>>
  /\ phase' = "derive"
  /\ UNCHANGED <<now, today, budget, writable, round, calls, lost>>

\* Slip: nothing is written when no account answered.
DeriveWritesHits ==
  /\ phase = "derive"
  /\ IF round.answered # {} THEN \E saved \in BOOLEAN : Persist(saved)
     ELSE UNCHANGED <<disk, unsaved>>
  /\ phase' = "conclude"
  /\ UNCHANGED <<now, today, budget, writable, round, calls, lost>>

\* The derived views are rebuilt and the ledger written whatever was fetched.
Derive ==
  /\ phase = "derive"
  /\ \E saved \in BOOLEAN : Persist(saved)
  /\ phase' = "conclude"
  /\ UNCHANGED <<now, today, budget, writable, round, calls, lost>>

\* The overrides store or the audit log raises: the lock is released, and
\* nothing more is written.
Abort ==
  /\ phase \in {"derive", "conclude"}
  /\ phase' = "idle" /\ round' = NoRound
  /\ unsaved' = (unsaved \/ (phase = "derive" /\ round.answered = {}))
  /\ UNCHANGED <<now, today, budget, disk, writable, calls, lost>>

OutcomeOf(r) ==
  IF r.limited THEN "rate_limited"
  ELSE IF r.errors THEN IF r.answered # {} THEN "partial" ELSE "error"
  ELSE "ok"

OnlyDebounced(r) ==
  ~r.limited /\ r.debounced # {} /\ r.answered = {} /\ ~r.errors

\* A round that was only debounced leaves the previous result in place; any
\* other is stamped, logged and saved.
Conclude ==
  /\ phase = "conclude"
  /\ IF OnlyDebounced(round) THEN UNCHANGED <<disk, unsaved>>
     ELSE \E saved \in BOOLEAN : Persist(saved)
  /\ phase' = "idle" /\ round' = NoRound
  /\ UNCHANGED <<now, today, budget, writable, calls, lost>>

-----------------------------------------------------------------------------
(* Restarts *)

Forgotten(after) ==
  [a \in Accounts |->
     lost[a] + UsedToday(budget, a, today) - UsedToday(after, a, today)]

\* Home Assistant stops, wherever the round is, and starts again.  The ledger
\* loads, cannot be decrypted (it is started afresh: its content is gone for
\* every later load too) or fails to load (it is then never written again).
Restart(load) ==
  LET loaded == IF load = "ok" THEN disk ELSE EmptyBudget
  IN /\ budget' = loaded
     /\ disk' = IF load = "undecryptable" THEN EmptyBudget ELSE disk
     /\ writable' = (load # "failed")
     /\ lost' = Forgotten(loaded)
     /\ phase' = "idle" /\ round' = NoRound
     /\ unsaved' = FALSE
     /\ UNCHANGED <<now, today, calls>>

-----------------------------------------------------------------------------
\* A caller comes for the lock.
Call == StartWithoutClient \/ \E kind \in Kinds : Start(kind)

RoundStep ==
  \/ \E b \in Banks : SkipExpired(b) \/ Refuse(b) \/ Open(b)
  \/ \E a \in Accounts : Attempt(a)
  \/ \E answer \in Answers : WindowAnswer(answer) \/ BalancesAnswer(answer)
  \/ CloseBank \/ Secure \/ Derive \/ Abort \/ Conclude

Loads == {"ok", "undecryptable", "failed"}

Next ==
  \/ Call \/ RoundStep
  \/ Tick \/ Midnight
  \/ \E load \in Loads : Restart(load)

Spec == Init /\ [][Next]_vars

\* Every call to a bank has a timeout, so a round that can go on does.
FairSpec == Spec /\ WF_vars(RoundStep)

-----------------------------------------------------------------------------
(* Properties *)

\* The state is well-typed: what fetch_budget.py, the manager's fields and the
\* locals of _do_refresh hold.
TypeOK ==
  /\ now \in Nat /\ today \in Nat
  /\ budget \in Budget /\ disk \in Budget
  /\ writable \in BOOLEAN
  /\ phase \in Phases /\ round \in Rounds
  /\ unsaved \in BOOLEAN
  /\ calls \in [Accounts -> Nat] /\ lost \in [Accounts -> Nat]

\* The counter of an account and what restarts forgot of it add up to what its
\* bank saw today: no path through a round fetches unattended and uncounted.
CallsAccountedFor ==
  \A a \in Accounts : calls[a] = UsedToday(budget, a, today) + lost[a]

\* The cap belongs to the bank: in one day no account is fetched unattended more
\* than Limit times, beyond the attempts a restart forgot.
BackgroundCap == \A a \in Accounts : calls[a] <= Limit + lost[a]

\* As long as writes succeed, a restart in the middle of a round forgets one
\* attempt of an account at most: what earlier rounds counted is on disk.
OneAttemptAtRisk ==
  writable /\ ~unsaved =>
    \A a \in Accounts : UsedToday(budget, a, today) <= UsedToday(disk, a, today) + 1

\* "ok" is said of complete rounds only: each account delivered its window and
\* its balances, or its bank was left out by the debounce.
OkMeansComplete ==
  (phase = "conclude" /\ OutcomeOf(round) = "ok") =>
    \A a \in Accounts : a \in round.done \/ BankOf[a] \in round.debounced

\* While a 429 blocks a bank none of its accounts is fetched unattended, also not
\* the ones left in the round the 429 ended.
NoCallWhileBlocked ==
  [][\A a \in Accounts :
       calls'[a] > calls[a] => ~Blocked(budget, BankOf[a], now)]_vars

\* The refresh keeps the promise of BankQuota: it implements that specification.
Quota == INSTANCE BankQuota
           WITH Accounts <- Accounts, Limit <- Limit, calls <- calls, lost <- lost
KeepsQuota == Quota!Spec

\* The daily refresh leaves the rest of the cap to other callers: no attempt of
\* its takes a count beyond the scheduled share.
ScheduledShareKept ==
  [][\A a \in Accounts :
       round.kind = "scheduled" /\ calls'[a] > calls[a] =>
         UsedToday(budget', a, today') <= ScheduledShare]_vars

\* Whatever the banks answer, the lock is given back.
EveryRoundEnds == (phase # "idle") ~> (phase = "idle")
=============================================================================
