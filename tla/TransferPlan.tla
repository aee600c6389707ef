----------------------------- MODULE TransferPlan -----------------------------
(***************************************************************************)
(* The monthly choreography transfer_plan.py builds from the budget plan:  *)
(* salaries arrive on each person's own account, insurance, shared costs   *)
(* and costs debited elsewhere are moved to the account that pays them,    *)
(* the debits go out, and what is left is compared with the split.         *)
(*                                                                         *)
(* Accounts are named by their place in the configuration, 0 is none.  A   *)
(* row of the plan is a set of legs: an amount for an account; a movement  *)
(* has a leg out and a leg in.                                             *)
(***************************************************************************)
EXTENDS BudgetPlan

CONSTANT ZeroTolerance   \* TRANSFER_PLAN_ZERO_TOLERANCE, in cents

-----------------------------------------------------------------------------
(* The accounts and their roles *)

\* A shared account passes through; a person's first other account is the primary.
RoleOf(k) ==
  LET a == accounts[k]
  IN IF a.type = "shared" THEN "pass_through"
     ELSE IF a.person # None /\ \A j \in 1..(k - 1) :
               accounts[j].type = "shared" \/ accounts[j].person # a.person
       THEN "primary" ELSE "personal"

PrimaryFor(p) ==
  LET own == {k \in DOMAIN accounts : accounts[k].person = p}
      primary == {k \in own : RoleOf(k) = "primary"}
  IN First(IF primary # {} THEN primary ELSE own)

PassThrough == First({k \in DOMAIN accounts : RoleOf(k) = "pass_through"})

ResolveDebitAccount(p) ==
  IF p.debit \in DOMAIN accounts THEN p.debit
  ELSE IF p.owner = OwnerShared THEN PassThrough ELSE PrimaryFor(p.owner)

-----------------------------------------------------------------------------
(* The rows *)

Active == {i \in DOMAIN plan.positions : EffectiveAmount(plan.positions[i], month) # 0}
AmountOf(i) == EffectiveAmount(plan.positions[i], month)
Individual == {i \in Active : plan.positions[i].owner # OwnerShared}

\* Persons with an income entry and an account.
Earners == {p \in plan.persons \cap DOMAIN plan.income : PrimaryFor(p) # 0}

Leg(account, amount, of) == [account |-> account, amount |-> amount, of |-> of]
Moved(from, to, amount, of) == {Leg(from, -amount, of), Leg(to, amount, of)}

Deposits == {Leg(PrimaryFor(p), plan.income[p].deposit, <<"deposit", p>>) : p \in Earners}
TaxMoves == {Leg(PrimaryFor(p), plan.income[p].tax, <<"tax", p>>) : p \in Earners}

InsuranceTarget(p) == IF PassThrough # 0 THEN PassThrough ELSE PrimaryFor(p)
InsuranceMoves ==
  UNION {Moved(PrimaryFor(p), InsuranceTarget(p), Abs(plan.income[p].insurance),
               <<"insurance", p>>) :
           p \in {q \in Earners : InsuranceTarget(q) # PrimaryFor(q)}}
InsuranceDebits ==
  {Leg(InsuranceTarget(p), -Abs(plan.income[p].insurance), <<"insured", p>>) : p \in Earners}

SharedNet == CostTotal(plan, OwnerShared, month)
TargetShare == Portion(SharedNet, 1, Max({1, Cardinality(plan.persons)}))
Means(p) == Pos(IncomeNet(plan, p))

Least(x, y) == IF x < y THEN x ELSE y

OwnPart(p) == Least(TargetShare, Means(p))
Surplus(p) == Pos(IncomeNet(plan, p) - OwnPart(p))

\* The unfunded part is carried by those with a surplus, in proportion to it.
DistributeShortfall(p) ==
  LET shortfall == SharedNet - Sum(plan.persons, OwnPart)
      total == Sum(plan.persons, Surplus)
  IN IF shortfall > 0 /\ total > 0 THEN Portion(shortfall, Surplus(p), total) ELSE 0

\* Slip for the mutation runs: everybody gives the same.
EqualContribution(p) == TargetShare

Contribution(p) == OwnPart(p) + DistributeShortfall(p)

SharedMoves ==
  IF PassThrough = 0 THEN {}
  ELSE UNION {Moved(PrimaryFor(p), PassThrough, Contribution(p), <<"shared", p>>) :
                p \in {q \in plan.persons : PrimaryFor(q) \notin {0, PassThrough}}}

\* A cost debited from an account that is not the owner's own.
Foreign == {i \in Individual :
  LET p == plan.positions[i]
  IN PrimaryFor(p.owner) # 0 /\ ResolveDebitAccount(p) \notin {0, PrimaryFor(p.owner)}}

ForeignMoves ==
  UNION {Moved(PrimaryFor(plan.positions[i].owner), ResolveDebitAccount(plan.positions[i]),
               AmountOf(i), <<"foreign", i>>) : i \in Foreign}

Placed == {i \in Active : ResolveDebitAccount(plan.positions[i]) # 0}
Debits == {Leg(ResolveDebitAccount(plan.positions[i]), -AmountOf(i), <<"debit", i>>) : i \in Placed}

Rows == Deposits \cup TaxMoves \cup InsuranceMoves \cup SharedMoves \cup ForeignMoves
          \cup InsuranceDebits \cup Debits

FinalBalances ==
  LET rows == Rows
  IN [k \in DOMAIN accounts |-> Sum({leg \in rows : leg.account = k}, LAMBDA leg : leg.amount)]

Imbalances(final) == {k \in DOMAIN accounts :
                        RoleOf(k) = "pass_through" /\ Abs(final[k]) > ZeroTolerance}

\* Shared costs without a shared account, persons without any: their deposit and
\* costs, not the insurance.
UnplacedShared == PassThrough = 0 /\ SharedNet # 0
UnplacedPersons ==
  {p \in plan.persons : PrimaryFor(p) = 0
     /\ (IF p \in DOMAIN plan.income THEN plan.income[p].deposit ELSE 0)
          + CostTotal(plan, p, month) # 0}
UnplacedPositions == Active \ Placed

\* Slip for the mutation runs: a position no account can pay is left out in silence.
BalancedAccounts(final) == Imbalances(final) = {} /\ ~UnplacedShared /\ UnplacedPersons = {}

Balanced(final) ==
  Imbalances(final) = {} /\ ~UnplacedShared /\ UnplacedPersons = {} /\ UnplacedPositions = {}

SettlementDelta(final, p) == final[PrimaryFor(p)] - Spielgeld(plan, p, month)

-----------------------------------------------------------------------------
(* Properties *)

Rounding == Cardinality(plan.persons)

\* "A plan that silently drops the shared costs is not a balanced plan" (transfer_plan.py,
\* balanced): when it says it is balanced, what is left on all accounts is what the
\* persons with an account earn less every active cost of the ledger.
NothingVanishes(final) ==
  Balanced(final) =>
    Sum(DOMAIN accounts, LAMBDA k : final[k]) =
      Sum({p \in plan.persons : PrimaryFor(p) # 0},
          LAMBDA p : IncomeNet(plan, p)) - CostGrandTotal(plan, month)

\* The split of household.py and the choreography of transfer_plan.py go different
\* ways to the same money: in a balanced plan of persons who are all known and have an
\* account, what one holds too much the others hold too little, whatever the split.
SettlementsCancel(final) ==
  LET owners == {plan.positions[i].owner : i \in DOMAIN plan.positions} \ {OwnerShared}
      primaries == {PrimaryFor(p) : p \in plan.persons}
  IN (/\ Balanced(final) /\ plan.persons # {} /\ 0 \notin primaries
      /\ owners \subseteq plan.persons)
       => Abs(Sum(plan.persons, LAMBDA p : SettlementDelta(final, p))
              + Sum(DOMAIN accounts \ primaries, LAMBDA k : final[k])) <= Rounding

\* Insurance is kept negative, as the workbook import keeps it.  POST
\* budget_plan/income takes either sign: the ledger's net income adds a positive one,
\* while the choreography deducts what it is by abs.
InsuranceIsDeducted == \A p \in DOMAIN plan.income : plan.income[p].insurance <= 0

\* The two sums above, while every insurance is the deduction it is meant to be.
PlanAddsUp ==
  InsuranceIsDeducted =>
    LET final == FinalBalances IN NothingVanishes(final) /\ SettlementsCancel(final)

\* Shared costs are funded liquidity-aware: if all together can pay them, they are
\* paid in full and nobody gives more than the own net income (transfer_plan.py, step 4).
FundedWithinMeans ==
  (plan.persons # {} /\ SharedNet \in 0..Sum(plan.persons, Means)) =>
    /\ \A p \in plan.persons : Contribution(p) \in 0..Means(p)
    /\ Abs(Sum(plan.persons, Contribution) - SharedNet) <= Rounding

\* An import keeps the sheet's sums, for every owner and month, a name that occurs
\* twice included, and the incomes with insurance as a deduction; the factors of a
\* buffer are found by its name, so a formula of that name must be its own
\* (spreadsheet_import.py, parse_costs_sheet and _restore_buffer_factors).
ImportKeepsTheSums ==
  [][\A w \in Workbooks :
       (/\ ImportWorkbook(w)
        /\ \A c \in CellsOf(w) : w.rows[c[1]].buffer =>
             \A d \in Formulas(w, w.rows[c[1]].name) : d = c)
       => /\ \A o \in Persons \cup {OwnerShared}, m \in 1..LastMonth :
               CostTotal(plan', o, m) =
                 Sum({c \in CellsOf(w) : c[2] = o /\ m \in w.rows[c[1]].from..w.rows[c[1]].until},
                     LAMBDA c : w.rows[c[1]].cells[o].value)
          /\ \A p \in DOMAIN w.income : IncomeNet(plan', p) =
               w.income[p].deposit - Abs(w.income[p].insurance) + w.income[p].tax]_householdVars
=============================================================================
