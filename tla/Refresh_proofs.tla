--------------------------- MODULE Refresh_proofs ----------------------------
(***************************************************************************)
(* Proofs about Refresh for any banks, accounts, limits and clocks.        *)
(*                                                                         *)
(* BackgroundCap is not inductive: it follows from the accounting          *)
(* (calls = counter + lost) and from the counters' own bound, and the bound *)
(* survives an attempt because the gate, asked when the bank was opened,    *)
(* still holds for each account the round has left (Admitted).             *)
(***************************************************************************)
EXTENDS Refresh, TLAPS

\* What the gate let in stays let in while the bank's accounts are walked.
Fetching == phase \in {"accounts", "window", "balances"}

Admitted ==
  Fetching =>
    /\ round.bank \in Banks
    /\ \A a \in round.accounts : BankOf[a] = round.bank
    /\ round.kind # "attended" =>
         /\ ~Blocked(budget, round.bank, now)
         /\ \A a \in round.accounts : UsedToday(budget, a, today) < Cap(round.kind)

InFlight == phase \in {"window", "balances"} => round.account \in Accounts

\* Counters in memory and on disk are of today or older, within the limit, and
\* count only calls that were made.
Counted ==
  \A a \in Accounts :
    /\ budget.used[a].day <= today /\ disk.used[a].day <= today
    /\ UsedToday(budget, a, today) <= Limit
    /\ UsedToday(disk, a, today) <= Limit
    /\ UsedToday(disk, a, today) <= calls[a]

IInv == TypeOK /\ InFlight /\ Admitted /\ Counted /\ CallsAccountedFor

-----------------------------------------------------------------------------
(* The operators of FetchBudget *)

\* A cap is a positive number within the limit.
LEMMA CapRange == ASSUME NEW kind PROVE Cap(kind) \in Nat /\ Cap(kind) <= Limit /\ Cap(kind) > 0
  BY BudgetAssumption DEF Cap

\* A count is a number.
LEMMA UsedTodayType ==
  ASSUME NEW bg \in Budget, NEW a \in Accounts, NEW day
  PROVE  UsedToday(bg, a, day) \in Nat
  BY DEF Budget, UsedToday

\* Counting an attempt raises the account's count by one and nothing else.
LEMMA CountAttemptEffect ==
  ASSUME NEW bg \in Budget, NEW a \in Accounts, NEW day \in Nat
  PROVE  LET new == CountAttempt(bg, a, day)
         IN /\ new \in Budget
            /\ new.used[a].day = day
            /\ UsedToday(new, a, day) = UsedToday(bg, a, day) + 1
            /\ \A c \in Accounts \ {a} : new.used[c] = bg.used[c]
            /\ new.blockedUntil = bg.blockedUntil
<1> DEFINE n == UsedToday(bg, a, day) + 1
           u == [bg.used EXCEPT ![a] = [day |-> day, count |-> n]]
<1>1. n \in Nat
  BY UsedTodayType
<1> HIDE DEF n
<1>2. bg = [used |-> bg.used, blockedUntil |-> bg.blockedUntil,
            lastAttended |-> bg.lastAttended]
      /\ bg.used \in [Accounts -> [day : Nat, count : Nat]]
  BY DEF Budget
<1>3. CountAttempt(bg, a, day) = [bg EXCEPT !.used = u]
  BY <1>2 DEF CountAttempt, n
<1>4. u \in [Accounts -> [day : Nat, count : Nat]] /\ u[a] = [day |-> day, count |-> n]
      /\ \A c \in Accounts \ {a} : u[c] = bg.used[c]
  BY <1>1, <1>2
<1> HIDE DEF u
<1>5. [bg EXCEPT !.used = u] \in Budget /\ [bg EXCEPT !.used = u].used = u
      /\ [bg EXCEPT !.used = u].blockedUntil = bg.blockedUntil
  BY <1>4 DEF Budget
<1>6. UsedToday([bg EXCEPT !.used = u], a, day) = n
  BY <1>4, <1>5 DEF UsedToday
<1>7. QED
  BY <1>3, <1>4, <1>5, <1>6 DEF n

\* A stamp touches neither counts nor blocks.
LEMMA StampEffect ==
  ASSUME NEW bg \in Budget, NEW b \in Banks, NEW t \in Nat
  PROVE  LET new == StampAttended(bg, b, t)
         IN new \in Budget /\ new.used = bg.used /\ new.blockedUntil = bg.blockedUntil
  BY DEF StampAttended, Budget

\* A block touches no count.
LEMMA BlockEffect ==
  ASSUME NEW bg \in Budget, NEW b, NEW kind, NEW r \in RetryAfters, NEW t \in Nat
  PROVE  Block(bg, b, kind, r, t) \in Budget /\ Block(bg, b, kind, r, t).used = bg.used
<1>1. t + Backoff(kind, r) \in Nat
  BY BudgetAssumption, RefreshAssumption DEF Backoff, NoRetryAfter
<1>2. QED
  BY <1>1 DEF Block, Budget

LEMMA EmptyBudgetEffect ==
  /\ EmptyBudget \in Budget
  /\ \A a \in Accounts, day \in Nat : EmptyBudget.used[a].day = 0 /\ UsedToday(EmptyBudget, a, day) = 0
  BY BudgetAssumption DEF EmptyBudget, Budget, UsedToday, Never

-----------------------------------------------------------------------------
(* Type correctness *)

LEMMA NewRoundType == ASSUME NEW kind \in Kinds PROVE NewRound(kind) \in Rounds
  BY DEF NewRound, Rounds

LEMMA NoRoundType == NoRound \in Rounds
  BY NewRoundType DEF NoRound, NewRound, Rounds, Kinds

LEMMA InitInv == Init => IInv
<1> SUFFICES ASSUME Init PROVE IInv
  OBVIOUS
<1>1. TypeOK
  BY EmptyBudgetEffect, NoRoundType DEF Init, TypeOK, Phases, Zero
<1>2. InFlight /\ Admitted
  BY DEF Init, InFlight, Admitted, Fetching
<1>3. Counted /\ CallsAccountedFor
  BY EmptyBudgetEffect, BudgetAssumption DEF Init, Counted, CallsAccountedFor, Zero
<1>4. QED
  BY <1>1, <1>2, <1>3 DEF IInv

\* After a 429 the locals are well-typed and the bank is closed.
LEMMA RateLimitedType ==
  ASSUME TypeOK, RateLimited
  PROVE  budget' \in Budget /\ round' \in Rounds
<1>1. round' = [round EXCEPT !.bank = NoBank, !.accounts = {}, !.account = NoAccount,
                             !.limited = TRUE, !.errors = TRUE]
  BY DEF RateLimited
<1>2. round' \in Rounds
  BY <1>1 DEF TypeOK, Rounds
<1>3. budget' \in Budget
  BY BlockEffect DEF RateLimited, TypeOK
<1>4. QED
  BY <1>2, <1>3

\* Each step keeps the types.
LEMMA TypeStep == IInv /\ [Next]_vars => TypeOK' /\ InFlight'
<1> SUFFICES ASSUME IInv, [Next]_vars PROVE TypeOK' /\ InFlight'
  OBVIOUS
<1> USE DEF IInv, TypeOK, InFlight
<1>1. ASSUME NEW kind \in Kinds, Start(kind) PROVE TypeOK' /\ InFlight'
  BY <1>1, NewRoundType DEF Start, Phases
<1>2. CASE StartWithoutClient
  BY <1>2 DEF StartWithoutClient, Persist, Phases
<1>3. ASSUME NEW b \in Banks, SkipExpired(b) PROVE TypeOK' /\ InFlight'
  BY <1>3 DEF SkipExpired, Rounds
<1>4. ASSUME NEW b \in Banks, Refuse(b) PROVE TypeOK' /\ InFlight'
  BY <1>4 DEF Refuse, Rounds
<1>5. ASSUME NEW b \in Banks, Open(b) PROVE TypeOK' /\ InFlight'
  <2>1. budget' \in Budget
    BY <1>5, StampEffect DEF Open
  <2>2. round' \in Rounds
    BY <1>5 DEF Open, Rounds, AccountsOf
  <2>3. QED
    BY <1>5, <2>1, <2>2 DEF Open, Phases
<1>6. ASSUME NEW a \in Accounts, Attempt(a) PROVE TypeOK' /\ InFlight'
  <2>1. budget' \in Budget
    BY <1>6, StampEffect, CountAttemptEffect, BudgetAssumption DEF Attempt, RecordAttempt
  <2>2. round' \in Rounds /\ round'.account \in Accounts
    BY <1>6 DEF Attempt, Rounds
  <2>3. calls' \in [Accounts -> Nat]
    BY <1>6 DEF Attempt
  <2>4. QED
    BY <1>6, <2>1, <2>2, <2>3 DEF Attempt, Phases
<1>7. ASSUME NEW answer \in Answers, WindowAnswer(answer) PROVE TypeOK' /\ InFlight'
  <2>1. CASE RateLimited
    BY <1>7, <2>1, RateLimitedType DEF WindowAnswer, RateLimited, Phases
  <2>2. CASE AccountFailed
    BY <1>7, <2>2 DEF WindowAnswer, AccountFailed, Rounds, Phases
  <2>3. CASE answer = "ok"
    BY <1>7, <2>3 DEF WindowAnswer, Rounds, Phases
  <2>4. QED
    BY <1>7, <2>1, <2>2, <2>3 DEF WindowAnswer
<1>8. ASSUME NEW answer \in Answers, BalancesAnswer(answer) PROVE TypeOK' /\ InFlight'
  <2>1. CASE RateLimited
    BY <1>8, <2>1, RateLimitedType DEF BalancesAnswer, RateLimited, Phases
  <2>2. CASE AccountFailed
    BY <1>8, <2>2 DEF BalancesAnswer, AccountFailed, Rounds, Phases
  <2>3. CASE /\ answer = "ok"
              /\ round' = [round EXCEPT !.done = @ \cup {round.account}, !.account = NoAccount]
              /\ phase' = "accounts"
              /\ UNCHANGED budget
    <3>1. round.account \in Accounts
      BY <1>8 DEF BalancesAnswer
    <3>2. round' \in Rounds
      BY <2>3, <3>1 DEF Rounds
    <3>3. QED
      BY <1>8, <2>3, <3>2 DEF BalancesAnswer, Phases
  <2>4. QED
    BY <1>8, <2>1, <2>2, <2>3 DEF BalancesAnswer
<1>9. CASE CloseBank
  BY <1>9 DEF CloseBank, Rounds, Phases
<1>10. CASE Secure
  BY <1>10 DEF Secure, Persist, Phases
<1>11. CASE Derive
  BY <1>11 DEF Derive, Persist, Phases
<1>12. CASE Abort
  BY <1>12, NoRoundType DEF Abort, Phases
<1>13. CASE Conclude
  BY <1>13, NoRoundType DEF Conclude, Persist, Phases
<1>14. CASE Tick
  BY <1>14 DEF Tick
<1>15. CASE Midnight
  BY <1>15 DEF Midnight, Zero
<1>16. CASE UNCHANGED vars
  BY <1>16 DEF vars
<1>17. ASSUME NEW load \in Loads, Restart(load)
      PROVE  TypeOK' /\ InFlight'
  <2>1. budget' \in Budget /\ disk' \in Budget
    BY <1>17, EmptyBudgetEffect DEF Restart
  <2>2. ASSUME NEW a \in Accounts PROVE lost'[a] \in Nat
    <3>1. lost'[a] = lost[a] + UsedToday(budget, a, today) - UsedToday(budget', a, today)
      BY <1>17 DEF Restart, Forgotten
    <3>2. UsedToday(budget', a, today) <= calls[a]
      BY <1>17, EmptyBudgetEffect DEF Restart, Counted
    <3>3. calls[a] = UsedToday(budget, a, today) + lost[a]
      BY <1>17 DEF CallsAccountedFor
    <3>4. QED
      BY <2>1, <3>1, <3>2, <3>3, UsedTodayType
  <2>3. lost' \in [Accounts -> Nat]
    BY <1>17, <2>2 DEF Restart, Forgotten
  <2>4. QED
    BY <1>17, <2>1, <2>3, NoRoundType DEF Restart, Phases
<1>18. QED
  BY <1>1, <1>2, <1>3, <1>4, <1>5, <1>6, <1>7, <1>8, <1>9, <1>10, <1>11, <1>12,
     <1>13, <1>14, <1>15, <1>16, <1>17 DEF Next, Call, RoundStep

-----------------------------------------------------------------------------
(* What the gate let in stays let in *)

\* Steps that leave the budget, the clock and the open bank alone, or open none.
LEMMA AdmittedStep == IInv /\ [Next]_vars => Admitted'
<1> SUFFICES ASSUME IInv, [Next]_vars PROVE Admitted'
  OBVIOUS
<1> USE DEF IInv, TypeOK, Admitted, Fetching
<1>1. ASSUME NEW kind \in Kinds, Start(kind) PROVE Admitted'
  BY <1>1 DEF Start
<1>2. CASE StartWithoutClient
  BY <1>2 DEF StartWithoutClient
<1>3. ASSUME NEW b \in Banks, SkipExpired(b) \/ Refuse(b) PROVE Admitted'
  BY <1>3 DEF SkipExpired, Refuse
<1>5. ASSUME NEW b \in Banks, Open(b) PROVE Admitted'
  <2>1. round' = [round EXCEPT !.banks = @ \ {b}, !.bank = b, !.accounts = AccountsOf(b)]
        /\ UNCHANGED <<now, today>>
    BY <1>5 DEF Open
  <2>2. round'.bank = b /\ round'.accounts = AccountsOf(b) /\ round'.kind = round.kind
    BY <2>1 DEF Rounds
  <2>3. ASSUME round.kind # "attended"
        PROVE  /\ budget' = budget /\ ~Blocked(budget, b, now)
               /\ \A a \in AccountsOf(b) : UsedToday(budget, a, today) < Cap(round.kind)
    <3>1. budget' = budget /\ Decide(budget, b, round.kind, now, today) = "ok"
      BY <1>5, <2>3 DEF Open
    <3>2. ~Blocked(budget, b, now) /\ ~Exhausted(budget, b, round.kind, today)
      BY <2>3, <3>1 DEF Decide
    <3>3. ASSUME NEW a \in AccountsOf(b) PROVE UsedToday(budget, a, today) < Cap(round.kind)
      BY <3>2, CapRange, UsedTodayType DEF Exhausted, AccountsOf
    <3>4. QED
      BY <3>1, <3>2, <3>3
  <2>4. QED
    BY <2>1, <2>2, <2>3 DEF AccountsOf
<1>6. ASSUME NEW a \in Accounts, Attempt(a) PROVE Admitted'
  <2>1. /\ phase = "accounts" /\ a \in round.accounts
        /\ round' = [round EXCEPT !.accounts = @ \ {a}, !.account = a]
        /\ UNCHANGED <<now, today>>
        /\ budget' = RecordAttempt(budget, a, round.kind, now, today)
    BY <1>6 DEF Attempt, Nearest
  <2>2. /\ round'.bank = round.bank /\ round'.kind = round.kind
        /\ round'.accounts = round.accounts \ {a}
    BY <2>1 DEF Rounds
  <2>3. ASSUME round.kind # "attended"
        PROVE  /\ budget'.blockedUntil = budget.blockedUntil
               /\ \A c \in Accounts \ {a} : budget'.used[c] = budget.used[c]
    BY <2>1, <2>3, CountAttemptEffect DEF RecordAttempt
  <2>4. round.accounts \subseteq Accounts
    BY DEF Rounds
  <2>5. QED
    BY <2>1, <2>2, <2>3, <2>4 DEF Blocked, UsedToday
<1>7. ASSUME NEW answer \in Answers, WindowAnswer(answer) PROVE Admitted'
  <2>1. CASE RateLimited
    BY <2>1 DEF RateLimited
  <2>2. CASE AccountFailed \/ round' = [round EXCEPT !.answered = @ \cup {round.account}]
    <3>1. /\ round'.bank = round.bank /\ round'.kind = round.kind
          /\ round'.accounts = round.accounts
      BY <2>2 DEF AccountFailed, Rounds
    <3>2. Fetching /\ (budget' = budget \/ phase' = "banks") /\ UNCHANGED <<now, today>>
      BY <1>7, <2>2 DEF WindowAnswer, RateLimited, AccountFailed
    <3>3. QED
      BY <3>1, <3>2
  <2>3. QED
    BY <1>7, <2>1, <2>2 DEF WindowAnswer
<1>8. ASSUME NEW answer \in Answers, BalancesAnswer(answer) PROVE Admitted'
  <2>1. CASE RateLimited
    BY <2>1 DEF RateLimited
  <2>2. CASE AccountFailed \/ round' = [round EXCEPT !.done = @ \cup {round.account},
                                                    !.account = NoAccount]
    <3>1. /\ round'.bank = round.bank /\ round'.kind = round.kind
          /\ round'.accounts = round.accounts
      BY <2>2 DEF AccountFailed, Rounds
    <3>2. Fetching /\ (budget' = budget \/ phase' = "banks") /\ UNCHANGED <<now, today>>
      BY <1>8, <2>2 DEF BalancesAnswer, RateLimited, AccountFailed
    <3>3. QED
      BY <3>1, <3>2
  <2>3. QED
    BY <1>8, <2>1, <2>2 DEF BalancesAnswer
<1>9. CASE CloseBank \/ Secure \/ Derive \/ Abort \/ Conclude
  BY <1>9 DEF CloseBank, Secure, Derive, Abort, Conclude
<1>14. CASE Tick
  <2>1. now' = now + 1 /\ UNCHANGED <<today, budget, phase, round>>
    BY <1>14 DEF Tick
  <2>2. ASSUME NEW b \in Banks, ~Blocked(budget, b, now) PROVE ~Blocked(budget', b, now')
    BY <2>1, <2>2 DEF Blocked, Budget
  <2>3. QED
    BY <2>1, <2>2
<1>15. CASE Midnight
  <2>1. now' = now + 1 /\ today' = today + 1 /\ UNCHANGED <<budget, phase, round>>
    BY <1>15 DEF Midnight
  <2>2. ASSUME NEW b \in Banks, ~Blocked(budget, b, now) PROVE ~Blocked(budget', b, now')
    BY <2>1, <2>2 DEF Blocked, Budget
  <2>3. ASSUME NEW a \in Accounts PROVE UsedToday(budget', a, today') < Cap(round.kind)
    BY <2>1, CapRange DEF Counted, UsedToday, Budget
  <2>4. round.accounts \subseteq Accounts
    BY DEF Rounds
  <2>5. QED
    BY <2>1, <2>2, <2>3, <2>4
<1>16. CASE UNCHANGED vars
  BY <1>16 DEF vars
<1>17. ASSUME NEW load \in Loads, Restart(load) PROVE Admitted'
  BY <1>17 DEF Restart
<1>18. QED
  BY <1>1, <1>2, <1>3, <1>5, <1>6, <1>7, <1>8, <1>9, <1>14, <1>15, <1>16, <1>17
  DEF Next, Call, RoundStep

-----------------------------------------------------------------------------
(* The accounting *)

\* Steps that leave memory, disk, the calls and the day alone keep the accounting.
LEMMA CountedIdle ==
  ASSUME IInv, UNCHANGED <<today, budget, disk, calls, lost>>
  PROVE  Counted' /\ CallsAccountedFor'
  BY DEF IInv, Counted, CallsAccountedFor, UsedToday

\* A write copies counts that are accounted for already.
LEMMA CountedSave ==
  ASSUME IInv, NEW saved \in BOOLEAN, Persist(saved), UNCHANGED <<today, budget, calls, lost>>
  PROVE  Counted' /\ CallsAccountedFor'
<1>1. disk' = budget \/ disk' = disk
  BY DEF Persist
<1>2. ASSUME NEW a \in Accounts PROVE UsedToday(budget, a, today) <= calls[a]
  BY UsedTodayType DEF IInv, TypeOK, CallsAccountedFor
<1>3. QED
  BY <1>1, <1>2 DEF IInv, Counted, CallsAccountedFor, UsedToday

\* A step that changes blocks and stamps only changes no count.
LEMMA CountedSameCounts ==
  ASSUME IInv, budget'.used = budget.used, UNCHANGED <<today, disk, calls, lost>>
  PROVE  Counted' /\ CallsAccountedFor'
  BY DEF IInv, Counted, CallsAccountedFor, UsedToday

\* An attempt raises the count and the calls together, and the gate left room.
LEMMA CountedAttempt ==
  ASSUME IInv, NEW a \in Accounts, Attempt(a)
  PROVE  Counted' /\ CallsAccountedFor'
<1> USE DEF IInv, TypeOK
<1>1. CASE round.kind = "attended"
  <2>1. budget'.used = budget.used
    BY <1>1, StampEffect, BudgetAssumption DEF Attempt, RecordAttempt
  <2>2. QED
    BY <1>1, <2>1, CountedSameCounts DEF Attempt
<1>2. CASE round.kind # "attended"
  <2>1. /\ budget' = CountAttempt(budget, a, today)
        /\ calls' = [calls EXCEPT ![a] = @ + 1]
        /\ UNCHANGED <<today, disk, lost>>
    BY <1>2 DEF Attempt, RecordAttempt
  <2>2. /\ budget' \in Budget
        /\ budget'.used[a].day = today
        /\ UsedToday(budget', a, today) = UsedToday(budget, a, today) + 1
        /\ \A c \in Accounts \ {a} : budget'.used[c] = budget.used[c]
    BY <2>1, CountAttemptEffect
  <2>3. UsedToday(budget, a, today) < Limit /\ UsedToday(budget, a, today) \in Nat
    <3>1. a \in round.accounts /\ phase = "accounts"
      BY DEF Attempt, Nearest
    <3>2. UsedToday(budget, a, today) < Cap(round.kind)
      BY <1>2, <3>1 DEF Admitted, Fetching
    <3>3. QED
      BY <3>2, CapRange, UsedTodayType, BudgetAssumption
  <2>4. Counted'
    <3>1. ASSUME NEW c \in Accounts
          PROVE  /\ budget'.used[c].day <= today' /\ disk'.used[c].day <= today'
                 /\ UsedToday(budget', c, today') <= Limit
                 /\ UsedToday(disk', c, today') <= Limit
                 /\ UsedToday(disk', c, today') <= calls'[c]
      <4>1. UsedToday(disk, c, today) \in Nat
        BY UsedTodayType
      <4>2. CASE c = a
        BY <2>1, <2>2, <2>3, <4>1, <4>2, BudgetAssumption DEF Counted
      <4>3. CASE c # a
        BY <2>1, <2>2, <4>3 DEF Counted, UsedToday
      <4>4. QED
        BY <4>2, <4>3
    <3>2. QED
      BY <3>1 DEF Counted
  <2>5. CallsAccountedFor'
    <3>1. ASSUME NEW c \in Accounts
          PROVE  calls'[c] = UsedToday(budget', c, today') + lost'[c]
      <4>1. CASE c = a
        BY <2>1, <2>2, <2>3, <4>1 DEF CallsAccountedFor
      <4>2. CASE c # a
        BY <2>1, <2>2, <4>2 DEF CallsAccountedFor, UsedToday
      <4>3. QED
        BY <4>1, <4>2
    <3>2. QED
      BY <3>1 DEF CallsAccountedFor
  <2>6. QED
    BY <2>4, <2>5
<1>3. QED
  BY <1>1, <1>2

\* After midnight no count is of today, and no call was made today.
LEMMA CountedMidnight == ASSUME IInv, Midnight PROVE Counted' /\ CallsAccountedFor'
<1>1. ASSUME NEW a \in Accounts
      PROVE  /\ budget'.used[a].day < today' /\ disk'.used[a].day < today'
             /\ UsedToday(budget', a, today') = 0 /\ UsedToday(disk', a, today') = 0
  BY DEF IInv, TypeOK, Midnight, Counted, UsedToday, Budget
<1>2. today' \in Nat /\ budget' \in Budget /\ disk' \in Budget
  BY DEF IInv, TypeOK, Midnight
<1>3. Counted'
  BY <1>1, <1>2, BudgetAssumption DEF Midnight, Counted, Zero, Budget
<1>4. CallsAccountedFor'
  BY <1>1 DEF Midnight, CallsAccountedFor, Zero
<1>5. QED
  BY <1>3, <1>4

\* A restart moves what it forgets from the counter to lost.
LEMMA CountedRestart ==
  ASSUME IInv, NEW load \in Loads, Restart(load)
  PROVE  Counted' /\ CallsAccountedFor'
<1> USE DEF IInv, TypeOK
<1>1. /\ budget' \in {disk, EmptyBudget} /\ disk' \in {disk, EmptyBudget}
      /\ UNCHANGED <<today, calls>>
      /\ lost' = Forgotten(budget')
  BY DEF Restart
<1>2. ASSUME NEW a \in Accounts
      PROVE  /\ EmptyBudget.used[a].day <= today
             /\ UsedToday(EmptyBudget, a, today) = 0
  BY EmptyBudgetEffect
<1>3. Counted'
  BY <1>1, <1>2, BudgetAssumption DEF Counted
<1>4. CallsAccountedFor'
  <2>1. ASSUME NEW a \in Accounts
        PROVE  calls'[a] = UsedToday(budget', a, today') + lost'[a]
    <3>1. lost'[a] = lost[a] + UsedToday(budget, a, today) - UsedToday(budget', a, today)
      BY <1>1 DEF Forgotten
    <3>2. UsedToday(budget', a, today) \in Nat
      BY <1>1, UsedTodayType, EmptyBudgetEffect
    <3>3. calls[a] = UsedToday(budget, a, today) + lost[a]
      BY DEF CallsAccountedFor
    <3>4. QED
      BY <1>1, <3>1, <3>2, <3>3, UsedTodayType
  <2>2. QED
    BY <2>1 DEF CallsAccountedFor
<1>5. QED
  BY <1>3, <1>4

\* An answer changes the budget by a block at most.
LEMMA AnswerKeepsCounts ==
  ASSUME IInv, NEW answer \in Answers, WindowAnswer(answer) \/ BalancesAnswer(answer)
  PROVE  budget'.used = budget.used /\ UNCHANGED <<today, disk, calls, lost>>
<1>1. CASE RateLimited
  <2>1. budget'.used = budget.used
    BY <1>1, BlockEffect DEF RateLimited, IInv, TypeOK
  <2>2. QED
    BY <2>1 DEF WindowAnswer, BalancesAnswer
<1>2. CASE ~RateLimited
  BY <1>2 DEF WindowAnswer, BalancesAnswer, AccountFailed
<1>3. QED
  BY <1>1, <1>2

LEMMA CountedStep == IInv /\ [Next]_vars => Counted' /\ CallsAccountedFor'
<1> SUFFICES ASSUME IInv, [Next]_vars PROVE Counted' /\ CallsAccountedFor'
  OBVIOUS
<1>1. ASSUME NEW kind \in Kinds, Start(kind) PROVE Counted' /\ CallsAccountedFor'
  BY <1>1, CountedIdle DEF Start
<1>2. CASE StartWithoutClient
  BY <1>2, CountedIdle, CountedSave DEF StartWithoutClient
<1>3. ASSUME NEW b \in Banks, SkipExpired(b) \/ Refuse(b)
      PROVE  Counted' /\ CallsAccountedFor'
  BY <1>3, CountedIdle DEF SkipExpired, Refuse
<1>4. ASSUME NEW b \in Banks, Open(b) PROVE Counted' /\ CallsAccountedFor'
  <2>1. budget'.used = budget.used
    BY <1>4, StampEffect DEF Open, IInv, TypeOK
  <2>2. QED
    BY <1>4, <2>1, CountedSameCounts DEF Open
<1>5. ASSUME NEW a \in Accounts, Attempt(a) PROVE Counted' /\ CallsAccountedFor'
  BY <1>5, CountedAttempt
<1>6. ASSUME NEW answer \in Answers, WindowAnswer(answer) \/ BalancesAnswer(answer)
      PROVE  Counted' /\ CallsAccountedFor'
  BY <1>6, AnswerKeepsCounts, CountedSameCounts
<1>7. CASE CloseBank \/ Abort
  BY <1>7, CountedIdle DEF CloseBank, Abort
<1>8. CASE Secure \/ Derive \/ Conclude
  BY <1>8, CountedIdle, CountedSave DEF Secure, Derive, Conclude
<1>9. CASE Tick \/ UNCHANGED vars
  BY <1>9, CountedIdle DEF Tick, vars
<1>10. CASE Midnight
  BY <1>10, CountedMidnight
<1>11. ASSUME NEW load \in Loads, Restart(load) PROVE Counted' /\ CallsAccountedFor'
  BY <1>11, CountedRestart
<1>12. QED
  BY <1>1, <1>2, <1>3, <1>4, <1>5, <1>6, <1>7, <1>8, <1>9, <1>10, <1>11
  DEF Next, Call, RoundStep

\* The strengthened invariant holds in every reachable state.
THEOREM Invariance == Spec => []IInv
<1>1. IInv /\ [Next]_vars => IInv'
  BY TypeStep, AdmittedStep, CountedStep DEF IInv
<1>2. QED
  BY InitInv, <1>1, PTL DEF Spec

-----------------------------------------------------------------------------
(* The theorems *)

\* The state is well-typed, for any banks, accounts, limits and times.
THEOREM TypeCorrect == Spec => []TypeOK
  BY Invariance, PTL DEF IInv

\* No path through a round fetches unattended and uncounted.
THEOREM Accounting == Spec => []CallsAccountedFor
  BY Invariance, PTL DEF IInv

\* The daily cap of every bank holds, beyond what a restart forgot.
THEOREM Cap24h == Spec => []BackgroundCap
<1>1. ASSUME IInv PROVE BackgroundCap
  <2>1. ASSUME NEW a \in Accounts PROVE calls[a] <= Limit + lost[a]
    <3>1. /\ UsedToday(budget, a, today) \in Nat /\ UsedToday(budget, a, today) <= Limit
          /\ calls[a] = UsedToday(budget, a, today) + lost[a]
      BY <1>1, UsedTodayType DEF IInv, TypeOK, Counted, CallsAccountedFor
    <3>2. QED
      BY <3>1, BudgetAssumption, <1>1 DEF IInv, TypeOK
  <2>2. QED
    BY <2>1 DEF BackgroundCap
<1>2. QED
  BY Invariance, <1>1, PTL

\* Only an unattended attempt adds to the calls of an account, its own.
LEMMA OnlyAttemptsCall ==
  ASSUME IInv, [Next]_vars, NEW a \in Accounts, calls'[a] > calls[a]
  PROVE  Attempt(a) /\ round.kind # "attended"
<1>0. calls \in [Accounts -> Nat]
  BY DEF IInv, TypeOK
<1>1. CASE UNCHANGED calls
  BY <1>0, <1>1
<1>2. CASE Midnight
  BY <1>0, <1>2 DEF Midnight, Zero
<1>3. ASSUME NEW c \in Accounts, Attempt(c) PROVE Attempt(a) /\ round.kind # "attended"
  <2>1. calls' = IF round.kind = "attended" THEN calls ELSE [calls EXCEPT ![c] = @ + 1]
    BY <1>3 DEF Attempt
  <2>2. c = a /\ round.kind # "attended"
    BY <1>0, <2>1
  <2>3. QED
    BY <1>3, <2>2
<1>4. CASE RoundStep
  BY <1>1, <1>3, <1>4 DEF RoundStep, SkipExpired, Refuse, Open, WindowAnswer,
     BalancesAnswer, CloseBank, Secure, Derive, Abort, Conclude
<1>5. CASE Call \/ Tick \/ (\E load \in Loads : Restart(load)) \/ UNCHANGED vars
  BY <1>1, <1>5 DEF Call, StartWithoutClient, Start, Tick, Restart, vars
<1>6. QED
  BY <1>2, <1>4, <1>5 DEF Next

\* No account of a bank is fetched unattended while a 429 blocks the bank.
THEOREM BlockRespected == Spec => NoCallWhileBlocked
<1>1. ASSUME IInv, [Next]_vars, NEW a \in Accounts, calls'[a] > calls[a]
      PROVE  ~Blocked(budget, BankOf[a], now)
  <2>1. Attempt(a) /\ round.kind # "attended"
    BY <1>1, OnlyAttemptsCall
  <2>2. QED
    BY <1>1, <2>1 DEF IInv, Admitted, Fetching, Attempt, Nearest
<1>2. IInv /\ [Next]_vars =>
        [\A a \in Accounts : calls'[a] > calls[a] => ~Blocked(budget, BankOf[a], now)]_vars
  BY <1>1
<1>3. QED
  BY Invariance, <1>2, PTL DEF Spec, NoCallWhileBlocked

\* The daily refresh leaves the rest of the cap to other callers.
THEOREM ShareRespected == Spec => ScheduledShareKept
<1>1. ASSUME IInv, [Next]_vars, NEW a \in Accounts, calls'[a] > calls[a],
             round.kind = "scheduled"
      PROVE  UsedToday(budget', a, today') <= ScheduledShare
  <2>1. Attempt(a)
    BY <1>1, OnlyAttemptsCall
  <2>2. UsedToday(budget, a, today) < Cap("scheduled")
    BY <1>1, <2>1 DEF IInv, Admitted, Fetching, Attempt, Nearest
  <2>3. Cap("scheduled") <= ScheduledShare
    BY BudgetAssumption DEF Cap
  <2>4. /\ UsedToday(budget', a, today') = UsedToday(budget, a, today) + 1
        /\ UsedToday(budget, a, today) \in Nat
    BY <1>1, <2>1, CountAttemptEffect, UsedTodayType
    DEF IInv, TypeOK, Attempt, RecordAttempt
  <2>5. QED
    BY <2>2, <2>3, <2>4, CapRange, BudgetAssumption
<1>2. IInv /\ [Next]_vars =>
        [\A a \in Accounts : round.kind = "scheduled" /\ calls'[a] > calls[a] =>
           UsedToday(budget', a, today') <= ScheduledShare]_vars
  BY <1>1
<1>3. QED
  BY Invariance, <1>2, PTL DEF Spec, ScheduledShareKept

\* The refresh, with its gate, rounds, clock and restarts, implements BankQuota.
THEOREM Refinement == Spec => KeepsQuota
<1>1. Init => Quota!Init
  BY DEF Init, Quota!Init, Zero
<1>2. ASSUME IInv, IInv', [Next]_vars PROVE [Quota!Next]_(Quota!vars)
  <2>1. ASSUME NEW a \in Accounts, Attempt(a), round.kind # "attended"
        PROVE  Quota!Call(a)
    <3>1. UsedToday(budget, a, today) < Cap(round.kind)
      BY <1>2, <2>1 DEF IInv, Admitted, Fetching, Attempt, Nearest
    <3>2. /\ UsedToday(budget, a, today) \in Nat
          /\ calls[a] = UsedToday(budget, a, today) + lost[a] /\ lost[a] \in Nat
      BY <1>2, UsedTodayType DEF IInv, TypeOK, CallsAccountedFor
    <3>3. calls[a] < Limit + lost[a]
      BY <3>1, <3>2, CapRange, BudgetAssumption
    <3>4. QED
      BY <2>1, <3>3 DEF Attempt, Quota!Call
  <2>2. ASSUME NEW load \in Loads, Restart(load) PROVE Quota!Recount
    <3>1. ASSUME NEW a \in Accounts
          PROVE  0 <= lost'[a] /\ lost'[a] <= calls[a] /\ calls[a] <= Limit + lost'[a]
      <4>1. /\ UsedToday(budget', a, today') \in Nat
            /\ UsedToday(budget', a, today') <= Limit
            /\ calls'[a] = UsedToday(budget', a, today') + lost'[a]
            /\ lost'[a] \in Nat
        BY <1>2, UsedTodayType DEF IInv, TypeOK, Counted, CallsAccountedFor
      <4>2. calls' = calls
        BY <2>2 DEF Restart
      <4>3. QED
        BY <4>1, <4>2, BudgetAssumption
    <3>2. QED
      BY <2>2, <3>1 DEF Restart, Quota!Recount
  <2>3. CASE Midnight
    BY <2>3 DEF Midnight, Zero, Quota!Next, Quota!NextDay
  <2>4. CASE UNCHANGED <<calls, lost>>
    BY <2>4 DEF Quota!vars
  <2>5. CASE RoundStep
    BY <2>1, <2>4, <2>5 DEF RoundStep, SkipExpired, Refuse, Open, Attempt, WindowAnswer,
       BalancesAnswer, CloseBank, Secure, Derive, Abort, Conclude, Quota!Next
  <2>6. CASE Call \/ Tick \/ UNCHANGED vars
    BY <2>4, <2>6 DEF Call, StartWithoutClient, Start, Tick, vars
  <2>7. QED
    BY <1>2, <2>2, <2>3, <2>5, <2>6 DEF Next, Quota!Next
<1>3. QED
  BY Invariance, <1>1, <1>2, PTL DEF Spec, KeepsQuota, Quota!Spec

-----------------------------------------------------------------------------
(* What "ok" says.  OkMeansComplete speaks of the end of a round; on the way *)
(* there each account is delivered, debounced, still to come or in the air,  *)
(* or something has gone wrong.                                              *)

Pending(a) ==
  \/ BankOf[a] \in round.banks
  \/ /\ Fetching /\ BankOf[a] = round.bank
     /\ a \in round.accounts \/ (phase # "accounts" /\ a = round.account)

Walked ==
  phase # "idle" /\ ~round.limited /\ ~round.errors =>
    \A a \in Accounts : a \in round.done \/ BankOf[a] \in round.debounced \/ Pending(a)

Visited ==
  /\ phase \in {"derive", "conclude"} => round.banks = {}
  /\ Fetching => round.bank \notin round.banks

LEMMA WalkedInit == Init => Walked /\ Visited
  BY DEF Init, Walked, Visited, Fetching

LEMMA WalkedStep == TypeOK /\ Walked /\ Visited /\ [Next]_vars => Walked' /\ Visited'
<1> SUFFICES ASSUME TypeOK, Walked, Visited, [Next]_vars PROVE Walked' /\ Visited'
  OBVIOUS
<1> USE DEF TypeOK, Walked, Visited, Pending, Fetching
<1>0. BankOf \in [Accounts -> Banks]
  BY BudgetAssumption
<1>1. ASSUME NEW kind \in Kinds, Start(kind) PROVE Walked' /\ Visited'
  BY <1>0, <1>1 DEF Start, NewRound
<1>2. CASE StartWithoutClient \/ Tick \/ Midnight \/ UNCHANGED vars
  BY <1>2 DEF StartWithoutClient, Tick, Midnight, vars
<1>3. ASSUME NEW b \in Banks, SkipExpired(b) PROVE Walked' /\ Visited'
  BY <1>3 DEF SkipExpired, Rounds
<1>4. ASSUME NEW b \in Banks, Refuse(b) PROVE Walked' /\ Visited'
  <2> DEFINE quiet == Decide(budget, b, round.kind, now, today) = "debounced"
  <2>1. /\ phase = "banks" /\ phase' = phase
        /\ round'.banks = round.banks \ {b} /\ round'.done = round.done
        /\ round'.debounced = IF quiet THEN round.debounced \cup {b} ELSE round.debounced
    BY <1>4 DEF Refuse, Rounds
  <2>2. ~quiet => round'.errors
    BY <1>4 DEF Refuse, Rounds
  <2>3. quiet => (round'.errors <=> round.errors) /\ (round'.limited <=> round.limited)
    BY <1>4 DEF Refuse, Rounds
  <2> HIDE DEF quiet
  <2> QED
    BY <2>1, <2>2, <2>3
<1>5. ASSUME NEW b \in Banks, Open(b) PROVE Walked' /\ Visited'
  BY <1>0, <1>5 DEF Open, Rounds, AccountsOf
<1>6. ASSUME NEW a \in Accounts, Attempt(a) PROVE Walked' /\ Visited'
  BY <1>6 DEF Attempt, Rounds
<1>7. ASSUME NEW answer \in Answers, WindowAnswer(answer) PROVE Walked' /\ Visited'
  BY <1>7 DEF WindowAnswer, RateLimited, AccountFailed, Rounds
<1>8. ASSUME NEW answer \in Answers, BalancesAnswer(answer) PROVE Walked' /\ Visited'
  <2>1. CASE RateLimited \/ AccountFailed
    BY <1>8, <2>1 DEF BalancesAnswer, RateLimited, AccountFailed, Rounds
  <2>2. CASE ~(RateLimited \/ AccountFailed)
    <3>1. /\ phase = "balances" /\ phase' = "accounts"
          /\ round' = [round EXCEPT !.done = @ \cup {round.account}, !.account = NoAccount]
      BY <1>8, <2>2 DEF BalancesAnswer
    <3>2. /\ round'.done = round.done \cup {round.account}
          /\ round'.banks = round.banks /\ round'.bank = round.bank
          /\ round'.accounts = round.accounts /\ round'.debounced = round.debounced
          /\ (round'.limited <=> round.limited) /\ (round'.errors <=> round.errors)
      BY <3>1 DEF Rounds
    <3> QED
      BY <3>1, <3>2
  <2> QED
    BY <2>1, <2>2
<1>9. CASE CloseBank
  BY <1>9 DEF CloseBank, Rounds
<1>10. CASE Secure \/ Derive
  BY <1>10 DEF Secure, Derive
<1>11. CASE Abort \/ Conclude \/ \E load \in Loads : Restart(load)
  BY <1>11 DEF Abort, Conclude, Restart
<1> QED
  BY <1>1, <1>2, <1>3, <1>4, <1>5, <1>6, <1>7, <1>8, <1>9, <1>10, <1>11
  DEF Next, Call, RoundStep

\* "ok" is said of complete rounds only: every account delivered, or its bank was
\* left out by the debounce (_refresh.py, the outcome of _do_refresh).
THEOREM OkIsComplete == Spec => []OkMeansComplete
<1>1. ASSUME Walked, Visited PROVE OkMeansComplete
  BY <1>1 DEF Walked, Visited, Pending, Fetching, OkMeansComplete, OutcomeOf
<1> QED
  BY TypeCorrect, WalkedInit, WalkedStep, <1>1, PTL DEF Spec

-----------------------------------------------------------------------------
(* What a stop can forget.  The file is behind the memory by an attempt of   *)
(* this round at most, and by none before an account is tried and after the  *)
(* first write that follows.                                                 *)

Behind(a) == ~(UsedToday(budget, a, today) <= UsedToday(disk, a, today))

Tried(a) ==
  /\ phase # "idle" /\ BankOf[a] \notin round.banks
  /\ ~(Fetching /\ a \in round.accounts)

Written == phase \in {"idle", "conclude"} \/ (phase = "derive" /\ round.answered # {})

Risk ==
  writable /\ ~unsaved =>
    \A a \in Accounts :
      /\ UsedToday(budget, a, today) <= UsedToday(disk, a, today) + 1
      /\ Behind(a) => Tried(a) /\ ~Written

LEMMA RiskInit == Init => Risk
  BY EmptyBudgetEffect DEF Init, Risk, Behind

\* A step that changes no count, and in which an account that was tried stays so.
LEMMA RiskStays ==
  ASSUME IInv, Risk, budget'.used = budget.used,
         UNCHANGED <<today, disk, writable, unsaved>>,
         \A a \in Accounts : Tried(a) => Tried(a)', Written' => Written
  PROVE  Risk'
  BY DEF Risk, Behind, UsedToday

\* After a write nothing is behind, unless it failed.
LEMMA RiskSaved ==
  ASSUME IInv, NEW saved \in BOOLEAN, Persist(saved), UNCHANGED <<today, budget, writable>>
  PROVE  Risk'
<1>1. CASE writable /\ saved
  <2>1. disk' = budget'
    BY <1>1 DEF Persist
  <2>2. ASSUME NEW a \in Accounts PROVE UsedToday(budget', a, today') \in Nat
    BY UsedTodayType DEF IInv, TypeOK
  <2> QED
    BY <2>1, <2>2 DEF Risk, Behind
<1>2. CASE ~(writable /\ saved)
  BY <1>2 DEF Persist, Risk
<1> QED
  BY <1>1, <1>2

LEMMA RiskStep == IInv /\ Visited /\ Risk /\ [Next]_vars => Risk'
<1> SUFFICES ASSUME IInv, Visited, Risk, [Next]_vars PROVE Risk'
  OBVIOUS
<1>0. TypeOK /\ BankOf \in [Accounts -> Banks]
  BY BudgetAssumption DEF IInv
<1>1. ASSUME NEW kind \in Kinds, Start(kind) PROVE Risk'
  <2>1. \A a \in Accounts : ~Tried(a)
    BY <1>1 DEF Start, Tried
  <2>2. ~Written'
    BY <1>1 DEF Start, Written
  <2> QED
    BY <1>1, <2>1, <2>2, RiskStays DEF Start
<1>2. CASE StartWithoutClient
  <2>1. CASE UNCHANGED <<disk, unsaved>>
    BY <1>2, <2>1, RiskStays DEF StartWithoutClient, Tried, Fetching, Written
  <2> QED
    BY <1>2, <2>1, RiskSaved DEF StartWithoutClient
<1>3. ASSUME NEW b \in Banks, SkipExpired(b) \/ Refuse(b) PROVE Risk'
  <2>1. /\ phase = "banks" /\ phase' = phase
        /\ round'.banks = round.banks \ {b}
        /\ UNCHANGED <<today, budget, disk, writable, unsaved>>
    BY <1>0, <1>3 DEF SkipExpired, Refuse, TypeOK, Rounds
  <2> QED
    BY <2>1, RiskStays DEF Tried, Fetching, Written
<1>4. ASSUME NEW b \in Banks, Open(b) PROVE Risk'
  <2>1. budget'.used = budget.used
    BY <1>0, <1>4, StampEffect DEF Open, TypeOK
  <2>2. /\ phase = "banks" /\ phase' = "accounts" /\ b \in round.banks
        /\ round'.banks = round.banks \ {b} /\ round'.accounts = AccountsOf(b)
        /\ UNCHANGED <<today, disk, writable, unsaved>>
    BY <1>0, <1>4 DEF Open, Nearest, TypeOK, Rounds
  <2>3. \A a \in Accounts : Tried(a) => Tried(a)'
    BY <2>2 DEF Tried, Fetching, AccountsOf
  <2> QED
    BY <2>1, <2>2, <2>3, RiskStays DEF Written
<1>5. ASSUME NEW a \in Accounts, Attempt(a) PROVE Risk'
  <2>1. /\ phase = "accounts" /\ phase' = "window" /\ a \in round.accounts
        /\ round'.banks = round.banks /\ round'.accounts = round.accounts \ {a}
        /\ UNCHANGED <<today, disk, writable, unsaved>>
    BY <1>0, <1>5 DEF Attempt, Nearest, TypeOK, Rounds
  <2>2. /\ \A c \in Accounts \ {a} : budget'.used[c] = budget.used[c]
        /\ UsedToday(budget', a, today) <= UsedToday(budget, a, today) + 1
        /\ UsedToday(budget, a, today) \in Nat
    <3>1. CASE round.kind = "attended"
      <4>1. budget'.used = budget.used
        BY <1>0, <1>5, <3>1, StampEffect DEF Attempt, RecordAttempt, TypeOK
      <4> QED
        BY <1>0, <4>1, UsedTodayType DEF UsedToday, TypeOK
    <3>2. CASE round.kind # "attended"
      <4>1. budget' = CountAttempt(budget, a, today) /\ budget \in Budget /\ today \in Nat
        BY <1>0, <1>5, <3>2 DEF Attempt, RecordAttempt, TypeOK
      <4>2. UsedToday(budget, a, today) \in Nat
        BY <4>1, UsedTodayType
      <4>3. /\ \A c \in Accounts \ {a} : budget'.used[c] = budget.used[c]
            /\ UsedToday(budget', a, today) = UsedToday(budget, a, today) + 1
        BY <4>1, CountAttemptEffect
      <4> QED
        BY <4>2, <4>3
    <3> QED
      BY <3>1, <3>2
  <2>3. \A c \in Accounts : Tried(c) => Tried(c)'
    BY <2>1 DEF Tried, Fetching
  <2>4. ~Tried(a) /\ Tried(a)' /\ ~Written'
    <3>1. BankOf[a] = round.bank
      BY <2>1 DEF IInv, Admitted, Fetching
    <3> QED
      BY <2>1, <3>1 DEF Tried, Fetching, Visited, Written
  <2>5. ASSUME writable, ~unsaved, NEW c \in Accounts
        PROVE  /\ UsedToday(budget', c, today) <= UsedToday(disk, c, today) + 1
               /\ ~(UsedToday(budget', c, today) <= UsedToday(disk, c, today)) => Tried(c)'
    <3>1. CASE c = a
      <4>1. UsedToday(budget, a, today) <= UsedToday(disk, a, today)
        BY <2>4, <2>5 DEF Risk, Behind
      <4>2. UsedToday(disk, a, today) \in Nat /\ UsedToday(budget', a, today) \in Nat
        BY <1>0, <1>5, StampEffect, CountAttemptEffect, UsedTodayType, BudgetAssumption
        DEF Attempt, RecordAttempt, TypeOK
      <4> QED
        BY <2>2, <2>4, <3>1, <4>1, <4>2
    <3>2. CASE c # a
      <4>1. UsedToday(budget', c, today) = UsedToday(budget, c, today)
        BY <2>2, <3>2 DEF UsedToday
      <4> QED
        BY <2>3, <2>5, <4>1 DEF Risk, Behind
    <3> QED
      BY <3>1, <3>2
  <2> QED
    BY <2>1, <2>4, <2>5 DEF Risk, Behind
<1>6. ASSUME NEW answer \in Answers, WindowAnswer(answer) \/ BalancesAnswer(answer) PROVE Risk'
  <2>1. budget'.used = budget.used /\ UNCHANGED <<today, disk, writable, unsaved>>
    BY <1>6, AnswerKeepsCounts DEF WindowAnswer, BalancesAnswer
  <2>2. /\ phase \in {"window", "balances"} /\ phase' \in {"banks", "accounts", "balances"}
        /\ round'.banks = round.banks /\ round'.accounts \in {round.accounts, {}}
    BY <1>0, <1>6 DEF WindowAnswer, BalancesAnswer, RateLimited, AccountFailed, TypeOK, Rounds
  <2> QED
    BY <2>1, <2>2, RiskStays DEF Tried, Fetching, Written
<1>7. CASE CloseBank
  <2>1. /\ phase = "accounts" /\ phase' = "banks"
        /\ round'.banks = round.banks /\ round'.accounts = round.accounts
        /\ UNCHANGED <<today, budget, disk, writable, unsaved>>
    BY <1>0, <1>7 DEF CloseBank, TypeOK, Rounds
  <2> QED
    BY <2>1, RiskStays DEF Tried, Fetching, Written
<1>8. CASE Secure
  <2>1. CASE round.answered # {}
    BY <1>8, <2>1, RiskSaved DEF Secure
  <2>2. CASE round.answered = {}
    BY <1>8, <2>2, RiskStays DEF Secure, Tried, Fetching, Written
  <2> QED
    BY <2>1, <2>2
<1>9. CASE Derive
  BY <1>9, RiskSaved DEF Derive
<1>10. CASE Abort
  <2>1. CASE Written
    BY <1>10, <2>1 DEF Abort, Risk, Behind
  <2>2. CASE ~Written
    BY <1>10, <2>2 DEF Abort, Written, Risk
  <2> QED
    BY <2>1, <2>2
<1>11. CASE Conclude
  <2>1. CASE UNCHANGED <<disk, unsaved>>
    BY <1>11, <2>1 DEF Conclude, Risk, Behind, Written
  <2> QED
    BY <1>11, <2>1, RiskSaved DEF Conclude
<1>12. CASE Midnight
  <2>1. ASSUME NEW a \in Accounts
        PROVE  UsedToday(budget', a, today') = 0 /\ UsedToday(disk', a, today') = 0
    BY <1>0, <1>12 DEF IInv, TypeOK, Midnight, Counted, UsedToday, Budget
  <2> QED
    BY <2>1 DEF Risk, Behind
<1>13. CASE Tick \/ UNCHANGED vars
  BY <1>13, RiskStays DEF Tick, vars, Tried, Fetching, Written
<1>14. ASSUME NEW load \in Loads, Restart(load) PROVE Risk'
  <2>1. writable' => budget' = disk'
    BY <1>14 DEF Restart, Loads
  <2>2. ASSUME NEW a \in Accounts PROVE UsedToday(budget', a, today') \in Nat
    BY <1>0, <1>14, UsedTodayType, EmptyBudgetEffect DEF Restart, TypeOK
  <2> QED
    BY <2>1, <2>2 DEF Risk, Behind
<1> QED
  BY <1>1, <1>2, <1>3, <1>4, <1>5, <1>6, <1>7, <1>8, <1>9, <1>10, <1>11, <1>12, <1>13, <1>14
  DEF Next, Call, RoundStep

\* As long as writes succeed a stop forgets one attempt of an account at most
\* (_refresh.py, the write after the fetch and the one at the end).
THEOREM RestartsForgetOne == Spec => []OneAttemptAtRisk
<1>1. Risk => OneAttemptAtRisk
  BY DEF Risk, OneAttemptAtRisk
<1>2. IInv => TypeOK
  BY DEF IInv
<1> QED
  BY Invariance, WalkedInit, WalkedStep, RiskInit, RiskStep, <1>1, <1>2, PTL DEF Spec
==============================================================================
