# Verification of Finance Dashboard

A TLA+ development for the Home Assistant integration
`custom_components/finance_dashboard`. It models the parts of the program whose
correctness depends on the *order* in which things happen (bank calls against a
hard daily cap, a ledger merged from answers that may be late, short, empty or
broken, files and lists that several coroutines read, change and write whole,
crashes between two writes), and the calculations whose results a household
relies on (transfers, the monthly choreography, budget cycles, pots).

- `*.tla` without prefix: one module per component, with its properties.
- `MC*.tla` and `*.cfg`: instances for TLC.
- `*_proofs.tla`: theorems, checked by TLAPS for every value of the constants.
- `PROJECT.json`: runs, the source lines of every definition, findings, hazards.

All source paths below are relative to `src/custom_components/finance_dashboard/`.

## 1. The system

A single asyncio event loop runs everything. Between two `await`s a coroutine is
alone; at each `await` any other coroutine, a reload of the config entry or the
end of the process may come. One `asyncio.Lock` (`_refresh_lock`) serialises
refresh rounds and rebuilds of **one** manager object; nothing serialises demo
toggles, credential operations, account edits, the wizard's state or a second
manager object.

| component (source) | state | operations | what is hard | what makes it correct | module |
|---|---|---|---|---|---|
| fetch budget (`fetch_budget.py`) | per bank: attempts per account and day, block, last attended fetch | `decide`, `record_attempt`, `record_attended`, `record_rate_limited` | day change, two caps, a block replaced by a later 429 | the bank's cap per account and day holds; a block holds | `FetchBudget`, `Refresh` |
| live refresh (`manager/_refresh.py`) | lock, locals of a round, manager fields | `async_refresh_*`, `_do_refresh` | three kinds of callers, each answer can fail, 429 midway, crash midway | every attempt counted; the outcome tells the truth; the lock is given back | `Refresh`, `LedgerHistory` |
| ledger (`data_store.py`) | entries by ledger id | `Ledger.ingest`, `fingerprint`, `reported_from` | identical payments, moved dates, short answers, reversals | mirrors the bank over the span an answer covers, forgets nothing else | `Ledger`, `LedgerHistory` |
| raw archive (`data_store.py`) | queue and month files of windows | `record_window`, `flush` | the queue is emptied before the write | with the ledger file it can bring every payment back | `LedgerHistory` |
| rebuild (`reprocess.py`, `manager/_persistence.py`) | – | `replay`, `merge_uncovered`, `async_reprocess_ledger` | incomplete windows, failed write after the replacement in memory | never shortens the history | `Ledger`, `LedgerHistory` |
| manager life cycle, demo (`__init__.py`, `manager/__init__.py`, `api/demo.py`) | the live manager, demo flag, views | setup, unload, reload, `set_demo_mode` | toggles inside a round, two managers after a reload | invented data never reaches disk and goes with the demo | `DemoMode` |
| bank subentries, consent (`manager/_banks.py`, `repairs.py`, `config_flow.py`) | banks, consents and their issues | adoption, migration, pruning, flows | renewals during rounds and setups | an expired consent is really over, a renewal takes the issue back | `BankLinks` |
| credentials (`credential_manager.py`) | encrypted token file | load, change, save | read-modify-write over awaits, no lock | a linked bank has its session | `BankLinks`, `SessionVault` |
| accounts (`account_identity.py`, `connect.py`, `api/assignments.py`, `manager/__init__.py`) | account list of the entry and of the manager | link, adopt, assign, enrich, refresh service | list read before an await, written after | one record, one owner, one entity per account | `Accounts` |
| bank client (`enablebanking_client.py`) | JWT, page cursors | `get_transactions`, `get_balances` | pagination that circles or breaks | a partial answer is known to be one | `LedgerHistory` |
| categories, questions, AI (`categorizer.py`, `merchants.py`, `questions.py`, `manager/_questions.py`, `ai_provider.py`) | merchant memory, AI config, opt-in | answer, AI pass, settings, connection test | an AI answer arrives late, two managers, one config file saved whole | the user's answer wins; the budget is kept; nothing is sent twice | `Questions` |
| transfers (`transfer_detector.py`, `manager/_banks.py`, `household_summary.py`) | chains, refunds, verdicts | pair, string, refund, confirm | greedy choices, ids that change | each booking in one chain at most; two figures count alike | `Transfers` |
| notifications, contracts (`notify.py`, `contracts.py`, `setup_wizard.py`) | what was told, the contract store | daily run, digest, deadlines, edits | two files saved whole by several actors | nothing is said twice, no setting is lost | `Notices` |
| budget plan, import (`budget_plan.py`, `spreadsheet_import.py`, `plan_prefill.py`, `household.py`) | positions, incomes | edit, accept, import, split | a name twice in a sheet, persons that come and go | sums survive an import | `BudgetPlan` |
| choreography (`transfer_plan.py`) | – | roles, rows, final balances | accounts that are missing, deficits | what is called balanced adds up, within means | `TransferPlan` |
| cycles and pots (`cycle.py`, `pots.py`, `home.py`) | pots, decisions | cycles, week, carry, year | payday edges, a cycle that ends inside a week | cycles tile the year; week and pots tell one story | `Cycles`, `Pots` |
| freshness log (`freshness.py`) | bounded log | record, summarise | – | bounded | – |
| coordinator, entities, views (`coordinator.py`, `sensor.py`, `api/`) | cache | read, poll | polling during a round | never calls a bank | the callers |
| frontend (`frontend/`) | page | render, poll | – | presentation | – |

How they interact. A caller (view, service, daily timer) calls the manager, the
manager takes the lock, asks the *fetch budget* for each bank of the config
entry, lets the *client* fetch each account, gives each window to the *archive*
and to the *ledger*, writes archive and ledger file, derives views (categories,
transfers, statistics) and writes the ledger file again. The ledger file also holds
budget, balances, last-refresh stamp and statistics (`meta`): one encrypted file,
written whole. Flows write the account list and the bank subentries of the config
entry, whose change reloads it; the setup that follows adopts the accounts, moves a
legacy session to a bank and prunes what removed banks left. After the daily refresh
the notifications run. Coordinator, entities and views read what the manager derived;
`home.py` computes cycles, pots and the year at each request.

`PROJECT.json` lists the hazards at their lines, with the properties that watch them.

## 2. Modules

```
FetchBudget <- Refresh <- MCRefresh           BankQuota    (abstract; Refresh implements it)
                  ^------- Refresh_proofs
Ledger <- LedgerHistory <- MCHistory
                  ^------- Bookings_proofs
DemoMode <- MCDemo
      ^--- DemoMode_proofs
Questions <- MCQuestions
      ^--- Questions_proofs
BankLinks <- MCBankLinks                      SessionVault (abstract; BankLinks implements it)
      ^--- BankLinks_proofs
Accounts <- MCAccounts
      ^--- Accounts_proofs
Transfers <- MCTransfers
        ^--- Bookings_proofs
Notices <- MCNotices
      ^--- Notices_proofs
BudgetPlan <- TransferPlan <- MCPlan
                   ^------ Household_proofs
Cycles <- Pots <- MCPots
            ^--- Household_proofs
```

| module | models | state |
|---|---|---|
| `FetchBudget` | `fetch_budget.py`, pure operators over a budget record; the clock is a parameter, as in the code | none |
| `Refresh` | one refresh round of `_refresh.py` with callers, clock and restarts | `budget` and `disk` (the budget in memory and in the ledger file), `phase`/`round` (position and locals of the round holding the lock), `writable`, `unsaved`, `calls`, `lost` |
| `BankQuota` | what the bank is promised: at most `Limit` unattended fetches per account and day, beyond those a restart forgot | `calls`, `lost` |
| `Ledger` | `fingerprint`, the ledger id, `ingest`, `reported_from`, `replay`, `merge_uncovered` | none |
| `LedgerHistory` | one account from the bank to the disk: window choice, full-history backfill, merge, archive queue, both writes, rebuild, restart | `ledger`, `disk`, `queue`, `archive`, `backfilled`, and the bank |
| `DemoMode` | demo toggles, reload and rounds with several manager objects; data is reduced to its origin (real, demo) | `mgr`, `live`, `option`, `entryAccounts`, `saved` |
| `Questions` | answers of the user, the merchant memory, the AI pass with its budget, cache and settings, over several manager objects | `mgr`, `live`, `cfg` and `memFile` (the two files), `optIn`, `ledger`, `month`, `spent`, `overlapped` |
| `SessionVault` | what the credential store promises: a bank has a session from before it is linked until after it is removed, unless two saves overlapped | `stored`, `linked`, `lost` |
| `BankLinks` | subentry flows, setup and settings on one token file; consents, their issues, the rounds and renewals that write them | `subs`, `records`, `tokens` (file), `io` (an operation between load and save), `flows`, `mgr`, `known`, `round`, `daily`, `reads` (the consents a check has read so far), `refused`, `issues`, `changed` |
| `Accounts` | the account list of the entry, of its file and of the manager, and all its writers; the entities named by it | `entry`, `disk`, `alias`, `refs`, `ibans`, `mgr`, `live`, `signature`, `link`, `entities`, `assigned`, `forgotten`, `crossed` |
| `Transfers` | pairs, chains, refunds, verdicts and the two figures that count | `book`, `chains`, `refunds`, `overrides` |
| `Notices` | the daily run, the wizard's state, the contract store and the requests that change them | `file`, `contractFile`, `store`, `run`, `put`, `edit` |
| `BudgetPlan` | the plan in memory and saved, its edits, import, proposals and split | `plan`, `storedPlan`, `accounts`, `model`, `month` |
| `TransferPlan` | the monthly choreography built from it, pure operators | that of `BudgetPlan` |
| `Cycles` | salary and household cycles, pure operators | none |
| `Pots` | pots, decisions about the carry, week, year | `today`, `bookings`, `pots`, `stored` |

**Refresh.** The waiting callers of an `asyncio.Lock` have no effect before they
hold it, so there is no queue: whenever the lock is free a caller of any kind may
take it. Every `await` of `_do_refresh` ends an action, so the clock, midnight and a
restart fall into every gap: `Open` is the gate and the attended stamp, `Attempt` the
count before the call, `WindowAnswer`/`BalancesAnswer` the two calls with four kinds of
answers each, `Secure`, `Derive` and `Conclude` the three writes at the end (each may
fail; the code logs and goes on). Banks and accounts are visited in the order of the
config entry, which `Position` gives. The model is of real mode; demo rounds are in
`DemoMode`.

**LedgerHistory.** The bank is an environment that announces, books, cancels and
redates payments, and answers in full as deep as it likes (`FetchAll`), in part
(`FetchPart`: pages run in circles) or not at all (`FetchBroken`: some pages reach the
archive, none the ledger). It moves between rounds only: a move within a round cannot
be told from one just before or after it. A round fetches one window of the account;
windows of other accounts only share the writes. `behind` is a history variable: the
ledger, in memory or on disk, that lacks a window which the archive has, after a failed
save or a stop between the two writes. Month files, index and pruning of the
archive are one write. Amount, currency, counterparty and remittance are one value
`What[p]`; identical payments have the same.

**DemoMode.** Each manager has its demo flag, its views, its balances, stamp and
statistics, each reduced to where the data comes from. `Unload` keeps a manager with a
round in progress alive beside the new one, as the code does: nothing cancels it.
`Setup` is one step. The backup the service takes and restores is left out, as
`set_demo_mode` empties what it restored in the same step. `NoManager` is the time
between unload and setup.

**Questions.** An AI pass is a background task that nothing cancels, so a manager that
was replaced goes on with it. Its `await`s end the actions: `ReadOptIn`, `Select`, for
every candidate `Pick`, then `AskCache` or `AskProvider`, `Send`, `Answered`, `Learn`, at
last `Finish`. What is loaded before an await and used after it is a local of the pass
(`todo`, `today`, `held`). A rule is reduced to its source, the bookings to those no
keyword places, the files to what the next load returns. Points, owners, and the
connection test's second half, which loads the config anew before it saves, have no
effect on this state; so the test is one action. A rule is never removed: nothing in
`src/` calls `forget_merchant`. `spent` counts the calls of the month and `overlapped`
says whether one of them fell into another pass's time between pick and save; `asked`
and `due` are histories too.

**BankLinks.** A flow picks a bank (`PickBank`) or renews one (`Reconfigure`), stores the
account records, stores the session through a credential object of its own, and adds
(`AddSubentry`, or `AddRefused` when the bank is there by then) or updates the subentry.
Each credential operation loads the file at one action and writes it at `Save`; what
comes in between is not seen. Setup runs `Boot`, the migration of a legacy session, the
pruning and the check of the consents, each as far as its next await; a subentry that
changes reloads the entry when the setup that compares has ended, new API credentials do
once they are saved. A round that began under an old session may come with its refusals
(`Rejected`) after the renewal. `async_update_consent_issues` has three callers, which may
run beside each other: the setup, the end of a round, the daily refresh. A check lists the banks
(`StartSetupCheck`, `StartRoundCheck`, `StartDaily`, by `ListBanks`), waits for the token file
once per bank (`ReadConsent`), and reports what it has read in one step (`EndSetupCheck`,
`EndRound`, `EndDaily`, by `RaiseIssues`); flows, saves, removals and other checks come in
between. `changed` is a history variable: the banks whose consent has changed since a check
began.

**Accounts.** The code keeps lists and dict objects over awaits, and Python's identity
matters (`_refresh.py:196` finds a record with `is`), so a record carries the number of
its object, an in-place change follows the object through every list that holds it, and
`alias` says whether a manager's list is the entry's list object. `SetAccounts` is
`async_set_accounts`: Home Assistant stores nothing and tells no listener when the new data
compares equal to what it has, which is so after a change in place (`_refresh.py:193`,
`:427`). So `disk` lags behind `entry`, and a `Stop` loses what was changed in place unless
another entry had everything written. A link writes twice, first the records
(`StoreRecords`), then the subentry (`StoreRefs`). `Assign` and `FlagSavings` are the
settings screen, `StartRound`, `Enrich`, `EndRound` the details a round fills in,
`StartService`, `ServiceStep`, `EndService` the refresh service. A setup ends its steps at
its awaits: `Load`, `Adopt`, `Reconcile` (an entity named by an old uid is renamed to the
key of its account, and entities of no listed account go), `FinishSetup` (platforms,
signature, listener). A uid is the number of the session that issued it. Histories:
`assigned`, the owner the user last gave; `forgotten`, the accounts whose record a link did
not report or recognise (the code loses their owner); `crossed`, a stale list.

**Transfers.** The book is newest first, as the manager holds it; `Arrive` and `Rederive`
run the whole detection (`DeriveFrom`), `Confirm` stores a verdict under the id of a
chain. A loop of the code is a recursive function over its list with one operator for its
body: `Paired` takes the next outgoing booking, `Lengthened` puts one pair before or behind a
string, `Resolved` starts the next string, `Refunded` takes the next incoming booking.
A bank's id is its own per account (`IdsFor`): two accounts may give the same one, and
`Lookup` then finds what the code's dictionary holds, the last in the list. Amounts are compared
as the code does, in floats: `Below` and `Within` take the pairs of amounts whose float
difference is off at the limit (`Shrunk`, `Swollen`) as constants.
`Lengthened` looks before the head as long as something fits there and behind the end after
that, like the two loops of the code. Ids are new with each derivation, as `uuid4` makes
them. Names in a text are the set of own accounts that occur in it; confidence is the code's
sum of points. `Effective` and `CountedTransactions` are sets of places in the book.

**Notices.** `BeginPut`/`FinishPut` is a request that loads the wizard's state, changes a
field and saves it whole; the daily run does the same around everything it tells
(`StartRun`, `Deliver`, `NothingDue`, `FireNotices`, `Digest`), or fails in between
(`RunFails`). The contract store is created at the first use and filled by an await
(`StoreLoads`, `EditLoads`), while others already get it. Which finding is due on which
day is an input.

**BudgetPlan, TransferPlan.** One action per call that changes the plan; a position's id
is made of name and owner, or of the row for a name that occurs twice. `RestartPlan` loads
what was saved, or nothing when the file cannot be read. The choreography is computed
in every state: a row is a set of legs (an amount for an account), and the
balances are the sums of the legs. `Contribution` is the own part of each person with the shortfall
distributed.

**Cycles, Pots.** Salaries open the cycles, a second earner's can move them. A booking has
the date the bank gives it, also one ahead of today (`Book`). Everything
derived from a pot is kept multiplied by the days of the cycle, so that the day's share
is a whole number. `SetCarry` is the decision about this week; `NewDay` moves the
week on; `ReplacePot` is the edit that does not know of decisions; a restart may find the
file unreadable.

A definition whose comment begins with "Slip" is a plausible mistake; no other
definition uses it. The mutation runs replace the definition it sits before and expect
the named property to fail.

## 3. Runs

| run | question | states |
|---|---|---|
| `refresh` | does the bank's cap hold, is it implemented as `BankQuota` promises, does a stop forget one attempt at most, and is "ok" true | 3.8 M |
| `refresh_ends` | does every round give the lock back | 0.6 M |
| `history` | does the ledger mirror the bank, what may it forget, is a booking of one id ever counted twice, and does the archive bring it back | 3.9 M |
| `demo` | do invented balances or stamps reach the disk or outlive the demo | 0.85 M |
| `questions` | does the user's answer win, is the budget kept, is anything sent twice, is a cached answer stranded | 2.0 M |
| `accounts` | does an account keep one record, its owner and its entity, and is it fetched with the newest uid | 1.1 M |
| `links` | does the credential store implement `SessionVault`, is "expired" true of what a check has read, does a renewal take the issue back | 0.88 M |
| `transfers` | are chains cascades and disjoint, refunds one to one, do both figures count alike, also with ids that two accounts share | @TRANSFERS@ |
| `notices` | is anything said twice, is a setting lost | 0.84 M |
| `plan` | does what is called balanced add up, is it within means, does an import keep the sums | 0.07 M |
| `pots` | do week and pots agree, do the cycles tile the year, is a decision heard, also with bookings dated ahead | 0.75 M |
| `rebuild` | a statement of a docstring that the code does not keep (section 6) | counterexample |

**Bounds and why they are enough.**

- `MCRefresh`: two banks, one with two accounts, so that a 429 has an account left to
  spare, a sibling to protect and another bank to leave alone. `Limit = 2` and
  `ScheduledShare = 1` so that a cap is reached within a day and the two differ;
  `MaxRounds = 3` is one round more than the cap allows. The clock ticks once
  (`MaxTime`), as a tick or over midnight, which expires one consent, the debounce
  and an attended block, but not an unattended one. `MaxFaults = 1`: one restart or one
  write that puts the disk behind. Rounds and faults are counted in `MCRefresh`, not in
  `Refresh`.
- `MCHistory`: a payment with a bank id from before the integration, and two identical
  payments without. Three moves of the bank, two fetches, one fault (a failed write, a
  restart with or without an upgrade, or a rebuild), the day may change once and the
  consent be renewed once. `Asked = {0, 1}`: the refresh service may ask for one day,
  a window shorter than the overlap that leaves the ledger behind its archive. `ShortAnswer = 2` and the request lengths `{3, 6, 8}`, of
  which the bank accepts up to 7, with a bank that goes back 1, 3 or 20 days (`Depths`), keep the code's order (overlap < short answer <
  incremental window < history ladder) on a short calendar. An answer may fall short of its
  request by one or two days, which `reported_from` does not see, by more, or have nothing. The legacy payment has day 0,
  outside every window, on the first days.
- `MCDemo`: two managers, the one in place and the one being replaced; no other bound,
  the state space is finite. `SYMMETRY` on managers is used with invariants only.
- `MCQuestions`: two managers, a merchant with two bookings, of which one comes later,
  and one with one; a memory of one one-off answer, a cache of one merchant, a cap of two
  calls, so that each limit is reached. Two passes and three moves (an answer, changed
  settings, a test, a booking, a new month, a reload, a crash) let a pass of the old
  manager run beside one of the new. The managers are alike, and no property names one,
  so `SYMMETRY` is sound for its invariants and step properties.
- `MCAccounts`: two accounts with an IBAN at two banks and a card that has none and is
  matched differently; two managers, for a round that outlives a reload; three sessions, so
  that an account a bank dropped may come back; three writes that copy records
  (`MaxObject`). A behaviour is followed up to where a stale list may have been stored
  (`~crossed`), as nothing is claimed beyond; this is what makes the larger bounds
  affordable.
- `MCBankLinks`: two banks and two flows that may both link or renew one; consents of two
  ticks with a warning one tick before, a clock of two; three sessions and two subentries,
  so that one bank is renewed while the other is read. Two events from outside (`MaxMoves`:
  what user, banks and clock do) and two steps of others while a check of the consents runs
  (`MaxSlips`); setup, saves, checks, flows under way and the daily refresh are otherwise not
  bounded, so the liveness property is not cut short.
- `MCTransfers`: a current account, savings and PayPal. Up to six of nine kinds of
  bookings in any order and number: a cascade from savings over the current account to
  PayPal and its purchase, a refund to the cent and one a cent off, a smaller and later
  arrival, a pending line. Equal amounts make the greedy choice matter. One booking may have
  the id of another account's (`MaxShared`), one verdict is stored (`MaxVerdicts`). The windows
  and the tolerance are the code's.
- `MCNotices`: a finding of two days and an expired consent that stands, remembered for
  one day; a contract that renews every two days; weeks of two days, four days in all, so
  that a finding is forgotten, a deadline moves and a week ends while requests run.
- `MCPlan`: three people of whom two earn, so that a person may come with an edit; four
  account configurations with and without joint account, with a second own account, with
  a person without any; two workbooks (a name twice; a buffer with two owners); three
  models of the split; two months, one after a position's end; an
  insurance as a deduction, of zero, and one entered with the wrong sign; four changes.
- `MCPots`: two people, one with a bonus; two pots, five days in weeks of three, and
  cycles of one to several days, so that a cycle ends inside a week and a month inside a
  cycle; a salary and a purchase may be dated a day ahead; one decision kept, so that pruning
  happens; three bookings, three edits.

What is claimed beyond the bounds rests on the proofs of section 4, not on the instances: of
the properties of passing runs only the two liveness properties have no theorem. Where a bound
decides whether a case comes up at all, it is chosen so that it does: an answer
a little shorter than its request (`Depths`), an id shared by two accounts (`MaxShared`), a
renewal between the reads of a check (`MaxSlips`), a salary dated ahead, an insurance of the
wrong sign. Without the exemption each of them asks for, the runs find the
counterexamples of section 6.

Deadlock is checked for `refresh`, `refresh_ends` and `demo`; `MCQuiet` lets the callers
of `MCRefresh` stop coming. In the other instances the bounds end a behaviour.

**Fairness.** `refresh_ends` assumes weak fairness of `RoundStep` only: a round that can
go on does. The code justifies it: every HTTP call has a total timeout of 30 s
(`enablebanking_client.py`), `finally` releases the lock, and writes of files end.
Callers, clock and restarts are not fair. The slip `RefuseAndWait` (a refused bank asked
again in the same round) makes the property fail. `links` assumes weak fairness of
`SetupStep` (Home Assistant runs the setup of an entry to its end), of each actor's
`Save` (a write of a file ends) and of
`DailyStep` (a time trigger that comes every day, and the reads of a file);
flows, rounds, users and the clock are not fair. `RenewalClearsIssue` says a healthy bank
loses its issue or stops being healthy.

## 4. Proofs

TLAPS checks these for every set of banks, accounts, payments, people and managers and
all limits.

**`Refresh_proofs`.** The cap is not inductive: a counter at `Limit` says nothing unless
it agrees with what the bank saw, and an attempt is made without asking the gate again,
which is asked once per bank. The invariant therefore has four parts besides the
types:

- `CallsAccountedFor`: what the bank saw = what is counted + what restarts forgot;
- `Counted`: counts are of today or older, in memory and on disk, within the limit,
  and the disk never counts more than the bank saw (so a restart forgets and never
  invents);
- `Admitted`: while a bank is walked, the gate that let the round in would still let
  in every account left. This needs that no other step counts for or blocks that bank
  while the lock is held;
- `InFlight`: a call in the air has its account.

`Invariance` proves it inductive, one step per action. From it follow `TypeCorrect`,
`Accounting`, `Cap24h` (the cap), `BlockRespected` and `ShareRespected` (action
properties), and `Refinement`: every step of `Refresh` is a step or a stutter of
`BankQuota`. `OkIsComplete` adds what a round has passed so far (`Walked`: an account is
delivered, still to come, or one of the round's flags says why not). `RestartsForgetOne`
adds how far the disk is behind (`Risk`): by nothing while no round runs, by the attempt
of an account once it was tried, by that and no more until the round's write. Assumptions:
`BudgetAssumption` and `RefreshAssumption` of the modules, which TLC evaluates too.

**`Bookings_proofs`, ledger.** All five properties of `history`, for any payments, answers,
ladders, limits, depths, faults and lengths of an archive.

- `AlwaysSound`: the inductive invariant `HInv`. Ledger and saved ledger are finite, their
  booked entries distinct, and an entry without a bank id is labelled with what and when it
  is (`Sound`); queue and archive hold answers, that is, finite batches in which a payment
  occurs once and nothing is older than the request (`Answers`). `HistoryIsTyped` and
  `BookedOnce` follow. The heart of distinctness is `LaterTwin`: of two identical payments
  the later one has more twins before it, so the numbers differ. The first day of the legacy
  cache and every request are whole numbers only because the extremes of finite sets are
  (`Extremes`).
- `AnswersAreMirrored`: `Prepared` is a bijection between the payments of an answer with a
  given key and the booked entries with that key afterwards, as no entry that stays has the
  key of a payment of the answer (`KeptIsAnotherPayment`).
- `AnswersForgetNothing`: either all entries of a key are older than the span or the answer
  is a part, and every id survives (`SurvivorsCount`, an injection by ids); or one of them
  lies in the span, and what the bank still books of that key was in the answer
  (`IngestLosesNothing`). What a bank leaves out is a payment between the start of a request and
  the day the answer begins on; where `reported_from` does not see that gap, the property
  exempts the payment (`Unsaid`). The theorem has no hypothesis of its own.
- `RebuildBringsBack`: a second invariant `RInv` on top of `HInv`, for archives of complete
  windows without a lost batch. A booked entry is one of the replay, or it is older than
  every window and its id is not in the replay (`Covered`); what is older than every window
  is of the legacy cache (`OldAreLegacy`), whose ids no pending transaction can have, and is
  on disk (`Carries`). `MergeIsCovered` is the step for a window: one `Ingest` on the ledger and
  one at the end of the replay keep `Covered`.

The archive is replayed by a recursive function. `ReplayInStages` gives its stages, and
induction over them uses sets of numbers: a set with 0 that is closed under +1 has every
number (`SetInduction`, from the smallest element of its complement, from the
well-foundedness of `<`). Assumptions: `LedgerAssumption` (ranks and bank ids are distinct)
and `HistoryAssumption` (finitely many legacy payments, the integration is set up after day
0). TLC checked both invariants on `history` before they were proved.

**`Bookings_proofs`, transfers.** All three properties of `transfers`, for any accounts,
bookings, tolerance, windows, float errors and bounds, and whatever ids the banks give.
Everything is derived from the whole book, so the invariant `TInv` says of the state only that
the book is a list of bookings, and the two properties (`AreCascades` of a book whose ids tell
its bookings apart, `RefundsApart` of any book). The work is in the derivation, four
recursions over lists (`DerivedHolds`). `StagesExist` constructs a function of the numbers up
to n from its first value and its step, and `StagesKeep` carries a property from stage to
stage.

- `OneAmountEach` (`ChainsAreCascades`): after the place p the pairs found have their
  outgoing bookings at places up to p, one pair each, and no incoming one twice, because
  `MayPair` refuses a used one (`PairLists`). A string has each pair once, each next to one
  that delivers to the account it takes from in time (`Strings`, an invariant of
  `Lengthened` at both ends); a list of strings has each pair in one string
  (`StringLists`). So the legs of a chain are distinct, `WithoutRepeats` leaves them as
  they are, and each is one tolerance from its neighbours in a pair and two from those of
  the next pair. Signs tell an outgoing leg from an incoming one. Only here ids must be unique
  (`UniqueIds`): a leg is looked up by its id.
- `RefundedOnce` (`RefundsAreDisjoint`): the ids used so far are those of the refunds found
  so far (`RefundLists`), and each is of two bookings that fit to a cent (`IsRefundOf`).
- `CountedIsNotLeftOut` (`CountedIsEffective`) holds whatever the chains are: of a chain
  that stands the household figures take the source, which the monthly figures keep.

Assumption: `TransfersAssumption`; the bookings the banks may report are bookings.

**`DemoMode_proofs`.** `TypeCorrect`, `DemoStaysOut` and `DemoLeaves`: what is written
comes from a manager outside the demo, and what such a manager holds comes from the bank
or from what is saved. Neither promise is inductive alone, `DemoInv` is both with the
types.

**`Questions_proofs`.** All five properties of `questions`, for any number of managers,
merchants and bookings. The invariant has, besides the types, `Sound` for each manager
(a picked merchant was tried and not sent; a cached candidate is still to come, being
handled, or learned) and `Counted`: no count is of a later month, and without an overlap
the config that a waiting pass holds counts what the file counts, so saving it changes
nothing. `BudgetHolds`, `NothingStranded` and `TypeCorrect` follow from it; `SentOnce` and
`UserRules` are step properties under it. Assumption: `QuestionsAssumption` (finitely many
bookings, limits that are numbers).

**`BankLinks_proofs`.** `Refinement`: flows, setup and settings on one token file
implement `SessionVault`. Three places could break it: a bank is linked without a session, a
session of a linked bank is pruned, a save carries an old file back. The invariant
`IInv` therefore says, besides the types: a flow that waits to add its subentry has an
id nobody else has or will get (`FlowsOK`); setup prunes ids that are linked no more, and
migrates one bank (`SetupOK`); an open operation changes one session of what it loaded,
and takes one away only from an id that is over (`IoOK`); a linked bank, and a flow about
to add one, has its session in the file unless saves overlapped (`StoredFirst`). With it
each `Save` is a `Store`, a `Forget`, an `Overlap` or nothing, and each subentry action a
`Link` or an `Unlink`. `ExpiredIsSaidTruly` (the property `ExpiredIsTrue`), for any number of
banks and with the reads and the report of a check apart, needs two things more: a mark, in
the manager, in a round or in a daily check that outlives it, names a consent the bank has
refused (`MarksTrue`); and what a check has read of a bank is the bank's consent still, or the
bank is among those that changed (`Watched`).

**`Accounts_proofs`.** All four properties of `accounts` and its types, for any banks,
accounts, owners and managers, any number of sessions and of writes. They are theorems of what
happens without a stale list, as the properties are (`~crossed`): rounds, the service,
assignments and setups after one another and beside each other where that is harmless, not the
overlaps that section 5 lists. The properties look at the entry and at managers at rest; what
keeps them is what somebody will write. The invariant `AInv` therefore says, as long as
nothing `crossed` (`Kept`): the entry has one record per account with owner, but for the
`forgotten`, and uid as they are due (`EntryKept`), and so has its file (`DiskKept`), which a
restart brings back; a link under way has the new session's records (`LinkKept`); only the live
manager has something running (`Alone`), its list is as good as the entry (`LiveKept`), and so
is what its round holds and writes (`RoundKept`) and what the service has collected so far
(`ServiceKept`). `AlwaysKept` proves it inductive, one lemma per action; `OneRecordEach`,
`OwnersSurvive` and `NewestUidIsFetched` follow, `IbanEntitiesStay` is a step property under
it. The lists are sequences: `OnlySifts` says what a filter keeps of one and where, and `Last`
that a set of places has a last one. Assumption: `AccountsAssumption`.

**`Notices_proofs`.** `SettingsAreKept`. Whoever holds a loaded state holds the user's
settings or knows that someone saved meanwhile (`Held`); the contract store in memory is
what was saved, or is still loading (`Created`, `Stored`). `NothingTwice` (the property
`SaidOnce`) adds that whoever holds a state knows everything that was told: a finding told
is among what the file and the run remember, with the day, until `Retention` is over, and
then it is over itself (`FindingsKept`); a deadline told has its marker in the store or in
what the store has yet to read (`DeadlinesKept`, `StoreKept`); the week of the last digest is
in the file (`DigestsKept`); and no run carries a day that is still to come (`Clock`,
`RunFresh`, `PutFresh`). It assumes what the daily run does of its findings: one that ends is
not found for longer than `Retention`.

**`Household_proofs`, pots.** All three properties of `pots`. For `CarryIsHeard`: pots in memory and
in the file are the same when both are readable, no decision is of a later week, so that
pruning the oldest never takes this week's (`PruningKeepsTheWeek`), and the last word of
the week is in the table (`Heard`). The two others hold by what is computed in a state; the
invariants they need only say that bookings have a day and an amount (`Booked`) and that
budgets are numbers (`Priced`).

`YearIsTiled` (`YearCountsOnce`): a person's starts ascend, by induction over the days
(`StartsOfOne`). The household's are moved forward, each to the earliest salary of somebody
else within the anchor window, and stay in order: what is near a later start and before
the earlier one is near the earlier one, too (`MovedInOrder`). Two of them may fall on one
day; the window between them is empty then, and still every day is counted by the last
window that starts no later, and by no other (`TilesCountOnce`). The cycle of today reaches
today, because it runs on when the next salary is overdue (`WindowOfToday`). With a start ahead
of today the current cycle is one of the closed ones (`AheadIsClosed`), so the windows still
tile the year as a set; that the list has each once is proved under `NoneAhead`.

`StripIsThePots` (`WeekAgreesWithPots`): the strip adds over bookings of the categories of
all pots, the pots each over their own. A sum over a finite set is whatever is 0 for the
empty set and grows by each element (`SumIs`), so sums over disjoint parts add up
(`SumByParts`, `PotsShareTheWeek`), and so do budgets, spendings and carries
(`SumOfDifferences`); that today is in the cycle shown (`CycleHasToday`) makes both sides
cut the bookings at the same days (`SpentAddsUp`). Assumptions: `CyclesAssumption` and
`PotsAssumption`: amounts and budgets are whole numbers, the year has at least two cycles
(`YEAR_CYCLES`, 12). The library's sum is a recursive function over the subsets of a set;
`SumTotals` constructs it by induction over their cardinality.

**`Household_proofs`, plan.** All three properties of `plan`, for any persons, drafts,
incomes, workbooks, account configurations, split models and months. The invariant
`Planned` says that plan and file are plans (`IsPlan`): persons are known, there are finitely
many positions and they are made of numbers.
Edits, accepted proposals (a fold, `AcceptedIsPlan`), imports and restarts keep it. The
rest is arithmetic of a state, on the lemmas about sums above and three more: a sum does
not depend on how its terms are named (`SumRenamed`), a sum of sums is a sum
(`SumOfSums`), sums compare as their terms do (`SumsCompare`).

- `ImportAddsUpAlways` (`ImportKeepsTheSums`): the import makes one position per cell. Of
  two cells with the name and owner of each other the lower one has the row in its id, and
  rows are not 0 (`CellsDiffer`); with one formula per name a buffer gets its own factors
  back (`FactorsAreACells`), whose product is the cell. So position and cell correspond, and
  `SumRenamed` does the rest.
- `SharedCostsAreFunded` (`FundedWithinMeans`): `PortionRounds` puts a rounded part within
  half a cent of the exact one, `PortionsAddUp` adds them up: parts of one amount whose
  numerators make the whole are off by half a cent per person at most. Without a
  shortfall the own parts, which are no more than equal portions, pay the cost; with one the
  portions of it are added, and a portion of a shortfall that all surpluses can pay is no
  more than the own surplus.
- `BalancedPlansAddUp` (`PlanAddsUp`): the rows are families of legs, told apart by their
  kind (`Families`). A family of movements adds up to zero (`MovedLegs`), one of single legs
  to the sum of its amounts (`SingleLegs`). The final balances are therefore deposits, tax
  and insurance of the earners less the debits (`RowsAddUp`, `BalancesAreTheRows`). In a
  plan that says it is balanced nothing is unplaced, so the debits are all active costs
  (`ActiveCostsAll`, `NothingIsLost`). The split's sides are summed over persons
  (`CostsByOwner`, `SplitAddsUp`, by split model) and compared (`SettlementsAgree`). Only this
  needs `InsuranceIsDeducted`, the hypothesis of the property.

Assumptions (`BudgetPlanAssumption`): finitely many persons and proposals; amounts, units
and prices that are whole numbers; a cell with a formula shows its product. The sign of an
insurance is not assumed: `PlanAddsUp` says in its hypothesis for which incomes it speaks.

**Only model-checked.** `EveryRoundEnds` and `RenewalClearsIssue` are liveness, which TLAPS
does not prove. Every other property of a passing run is a theorem. `RebuildKeepsHistory` is
false (section 6, 1).

## 5. What the properties say, and their limits

- `BackgroundCap` is relative to `lost`: attempts that a restart in mid-round forgot.
  `OneAttemptAtRisk` bounds the loss (one attempt per account while writes succeed).
  An attempt is one round of one account, as the code counts; pages of a window are not
  counted by the code and not modelled.
- `NeverForgets` compares with what the bank *still books*: a payment it took back may
  leave, one it has may not, whether the answer broke off, was empty or far shorter than the
  request. Two kinds of payment are exempt because the code does drop them:
  - (`Unmoved`) a payment with a bank id that the ledger has inside the span of an answer and
    that the bank has dated back to before it. The next window starts `Overlap` days before
    the last booking, the payment is older than that now, so the answer does not have it and
    the entry is dropped like a reversal. A window that reaches back to it brings it back.
  - (`Unsaid`) what an answer leaves out without a sign: one that begins at most
    `SHORT_ANSWER_DAYS` (31) after the start of its request is taken for the whole span, as is
    an empty one that is not marked as broken (section 6, 14).
- `UniqueBooked` is about the ids of entries: a payment with a bank id is booked once, whatever
  its dates, and identical ones without an id get distinct numbers. It does not say that a
  *payment* without an id is counted once: dated anew into another window, it has another
  fingerprint and may stand twice (section 6, 15). `MCHistory` redates such a payment, too.
- `RestartRecovers` is stated for archives of complete windows without a lost batch (the run
  `rebuild` shows what the others do), between rounds or once the archive is written, and for
  a ledger in memory that lacks no window of the archive: after a stop between the two
  writes the rebuild knows a window more than the ledger, and an entry which that window took
  back or dated anew leaves with it.
- `SavedIsReal` does not speak of the statistics of the last refresh, for which it would
  be false (section 6, 5).
- `BudgetKept` speaks of months in which no call overlaps the asking of a pass. When one
  does, the pass saves the config it loaded before its call over the newer one: the other
  call is no longer counted, and a cap, provider or key changed meanwhile is changed back.
  `ai_provider.py:505` avoids this in the connection test, and `async_categorize` does not.
- `UserRuleStays` exempts the memory *file* while a pass of a replaced manager runs: that
  pass saves its own, older memory.
- `SentOncePerSession` is per manager: a reload forgets what was tried.
- No liveness is claimed for a pass: the call of Home Assistant's own AI has no timeout.
- **Lost updates.** Three components read a file or list, wait, and write it whole without
  a lock. The code does lose updates there, so the properties say what holds without an
  overlap, and a history variable marks one: `crossed` in `Accounts` (a round, the refresh
  service or a link under way while another writes the account list: a stale list undoes
  an assignment, drops a stored key or, when it is stored while a setup runs, takes the
  entity of an account the bank lists; and as records are found by object identity, an
  account may get a second record), `overlapped` in `BankLinks` (two credential operations on
  the token file: a session or a new key is lost), `lost` in `Notices` (a request on the
  wizard's state beside the daily run, an edit while the contract store loads, a run that
  fails before its save). `crossed` is set only where someone goes on with a list, or a record
  of one, that is no longer the newest: a write that merely happens beside another does not
  set it. `OwnersAsAssigned` also leaves out accounts that are `forgotten`: a link that does
  not report an account drops its record, and one that does not recognise a bare record loses
  its owner, until the user assigns it again.
- `ExpiredIsTrue` exempts, in one check, a bank whose consent changed while that very check
  ran, and no other bank: the check reports what it has read (section 6, 18).
  `RenewalClearsIssue` has no exemption; the next daily check corrects it.
- `NoCallWhileBlocked` speaks of the blocked bank; that other banks go on is not claimed.
- `ChainsAreCascades` speaks of books in which ids tell the bookings apart, over all accounts
  (`UniqueIds`): bookings without an id share the id "", and two accounts may share a bank's
  id (section 6, 16). `RefundsAreDisjoint` holds for any ids; a refund is a booking within a
  cent of the payment, as the code has it. `CountedIsEffective` compares two figures of one
  derivation; the chains of the next have other ids, and a stored verdict is then no longer
  found (6, 8).
- `PlanAddsUp` speaks of plans that call themselves balanced, of the incomes of persons
  with an account (6, 11), and of insurances that are negative or zero (6, 17); `FundedWithinMeans` of shared costs that all together can pay:
  beyond that the code asks a person for more than the own means.
- `ImportKeepsTheSums` excludes names with two formulas: a buffer's factors are looked up
  by name and the first column wins.
- `WeekAgreesWithPots` is of one person with pots that share no category: two pots of one
  category both count a purchase, and in the household's view the strip counts purchases
  of a category whosever they are.
- `YearCountsOnce` speaks of the days from the first salary shown on, and says that they are
  in one entry of the *list* of cycles while no salary is dated ahead (6, 19). `Pots` takes an edit
  and its save as one step: the pots change without an await, and Home Assistant's Store
  orders the writes.

## 6. Where the code disagrees with its documentation

Found by a run:

1. `rebuild` (`reprocess.py:111`): "a rebuild never shortens the history". An empty answer
   to a full-history request counts as coverage of ten years, so older entries are not
   carried over.

Met while modelling; the models do what the code does:

2. Once every bank is blocked, `get_refresh_status` and the monthly summary call
   `isoformat()` on a field that is always `None` (`manager/__init__.py:651`); the docstring
   promises a pure read that is safe to poll.
3. "Counters must survive a restart" (`manager/__init__.py:375`). They are written at the
   end of a round, and a stop in its middle forgets the attempts.
4. "An ordinary incremental window keeps its full span and with it reversal detection"
   (`data_store.py:197`). Not when its first booking lies more than 31 days after its
   start.
5. "Demo data is never written" (`_persistence.py:30`). The statistics of the demo are, by
   the first write after it, and a round in progress writes the demo's accounts to the
   config entry. Leaving the demo "reverts to real cached data" (`manager/__init__.py:207`):
   it empties the views, and the next write replaces the cached balances on disk with none.
6. "Opt-in only; nothing is sent otherwise" (`ai_provider.py:5`). A pass reads the opt-in
   once, so merchants are sent after the user has opted out.
7. Rounds find a record by identity (`_refresh.py:196`): when a re-link stored a list
   meanwhile, the enriched record is appended and the account has two. A re-link over a
   minimal adopted record loses its owner; the refresh service (`manager/__init__.py:415`)
   drops the stored key of an account. A round of a replaced manager that ends while the
   next setup has adopted its accounts leaves an entry without them, and the reconciliation,
   which reads the entry (`__init__.py:130`), removes the entity of a linked account until
   the next setup.
8. Chains get new ids with every derivation (`transfer_detector.py:530`), while "rejected
   chains (user said "no") are kept as-is" (`transfer_detector.py:187`) and overrides are
   stored under the old ids (`_persistence.py:211`): a verdict is lost with the next import.
9. The listener that reloads is missing while the entry loads (`__init__.py:177`), a legacy
   session brings a removed bank back (`_banks.py:271`), and issues of removed banks are
   never deleted.
10. The contract store is a "lazily created, loaded store" (`contracts.py:230`), and a second
    user gets it while it loads. A failure in `notify._run` before the save repeats the
    findings every day, and an expired consent is told again after 60 days. The week after
    a dropped carry brings the carry back.
11. A person without an account, with deposit and costs of zero and an insurance, vanishes
    from the choreography while `balanced` is true (`transfer_plan.py:333`). A new owner of
    an existing position is not registered as a person until the next start
    (`budget_plan.py:375`).
12. A plan or pot file that cannot be read leaves an empty store, and the next save
    overwrites the file (`budget_plan.py:456`, `pots.py:160`).
13. "Personal pots are fed only from the owner's accounts" (`home.py:9`); the week's strip
    of the household counts by category alone (`pots.py:377`). The options form defaults the
    split to "proportional" (`config_flow.py:489`), the code to pooled and equal
    (`const.py:259`). `household_summary.py` and `home.py` use different rules of what an
    income is for the same household cycle.
14. An answer shorter than asked must not have what it leaves out "mistaken for reversals"
    (`data_store.py:196`). One that begins up to 31 days after the start of its request counts
    as the whole span (`data_store.py:208`), and booked payments of the days it leaves out are
    dropped like reversals.
15. The fingerprint identifies a payment without a bank id by its date (`data_store.py:346`);
    when the bank dates it anew and the old day is outside the answer, it is counted twice.
16. Transfers are looked up by `transactionId` over all accounts
    (`transfer_detector.py:132`, `:260`, `:407`, `:576`), which a bank makes unique per account: with
    one id in two accounts, pairs are missed or legs of a chain are found in the wrong one. A
    refund matches up to one cent off (`transfer_detector.py:625`).
17. An income is "deposit + insurance (negative) + tax adjustment" (`budget_plan.py:242`), and
    the request that sets it takes either sign (`api/plan.py:216`). A positive insurance is
    added to the net income (`budget_plan.py:243`) and deducted by `abs` in the choreography
    (`transfer_plan.py:366`), so the two disagree about a plan called balanced.
18. `async_update_consent_issues` reads the consents of all banks with an await for each
    (`_banks.py:115`, called at `:205`) and writes the issues afterwards: a bank renewed in
    between is reported expired for its old session until the next check.
19. Booked dates are taken as the bank gives them (`home.py:146`, and a value date or an
    unknown status counts as booked, `enablebanking_client.py:484`). With a salary dated ahead the
    current cycle is closed as well, and `_year_block` (`home.py:342`) lists it twice.
20. "An incoming account replaces the stored record with the same key [...] user-owned fields
    are carried over" (`account_identity.py:120`): the record is looked up by the identity of the
    account (`:165`), which a bare record with a
    stored key and no IBAN does not have, so its owner is lost with a re-link. And an enriched
    record is often not saved: it was changed in place, so the new data equals the old, and Home
    Assistant stores nothing (`_refresh.py:193`, `:427`).

## 7. Not modelled

- *Wire format, signing, encryption, texts, HTML and JavaScript, statistics and page
  assembly*: data or presentation.
- *Only called from tests*: key rotation, registration and validation of OAuth states,
  `clear_all`, session timeouts, the setup calls of the refresh. A model of them would
  describe no behaviour of the running program.
- *Inputs of the models*: keyword rules of the categorizer, detection of recurring series,
  what a finding of `notify.py` is, the cells of a workbook, the demo's data. They are
  heuristics over texts and dates; what depends on them is modelled for every outcome the
  instance lists.
- *Pure figures over the ledger without state*: plan versus actual, the split by booked
  transactions, category totals, the benchmark, savings goals, balance statistics, coverage of pots
  by balances. Custom ratios of the split are never set by the options flow, and the model
  then behaves as equal shares.
- *Freshness log*: a bounded list that is appended, cut and shown; no step depends on it.
- *Reload with two managers on one ledger file*: what the second writer of the transactions
  loses is in `DemoMode` by origin only, not per payment.
- *Frontend*: keeps no state that outlives a page.
- *Small omissions in modelled parts*, without an effect on the properties they belong to:
  `remainder_mode` `equal_split` (`household.py:200`, `:337`; the options flow never sets it)
  and an account's explicit role (`transfer_plan.py:173`; nothing in `src/` stores one);
  `TargetShare` rounds to cents where the code keeps floats (`transfer_plan.py:389`); a cycle
  from a confirmed payday (`home.py:543`); the write of `_record_import`
  (`_refresh.py:104`) and an account without a uid (`_refresh.py:345`) in a round; the order of
  the banks in a check is left open, and `StartRound` reads all consents in one step, as each bank's
  answer is compared with its own only; in `Accounts`, platforms, signature and listener at the
  end of a setup are one step, and a migration or adoption that raises is left out.

`PROJECT.json` says per component what is left out.
