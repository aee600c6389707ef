------------------------------ MODULE BudgetPlan ------------------------------
(***************************************************************************)
(* The household's budget plan: the ledger of budget_plan.py, the calls of *)
(* the manager and of api/plan.py that change it, the workbook import of   *)
(* spreadsheet_import.py, the proposals from contracts (plan_prefill.py),  *)
(* and the split of household.py.                                          *)
(*                                                                         *)
(* A position's id is <<name, owner, row>>: the slug of name and owner, or *)
(* for a name that occurs twice in a workbook the slug with its row.  It   *)
(* stays when the owner is edited.  Amounts are in cents, months numbered; *)
(* validity is the closed interval from..until.  The list order of         *)
(* positions and persons is only shown, so both are kept as sets.          *)
(***************************************************************************)
EXTENDS Integers, SequencesExt

CONSTANTS
  Persons,      \* the names a plan can speak of
  CostDrafts,   \* what POST budget_plan/position may bring
  Entries,      \* what POST budget_plan/income may bring
  Proposals,    \* the positions detected contracts propose
  Workbooks,    \* the workbooks that may be imported
  Configs,      \* the account configurations: sequences of [id, person, type]
  ValidOwners,  \* the configured persons
  SplitModels,  \* of "pooled_equal", "equal", "proportional", "custom"
  LastMonth,    \* bound: months run from 1
  MaxChanges    \* bound: the changes to the plan

OwnerShared == "__shared__"
None == "none"
NoId == <<>>

\* What is posted is parsed into numbers of any sign, also an insurance that is not
\* the deduction "net income = deposit + insurance (negative) + tax adjustment" says.
IncomeEntry == [person : Persons, deposit : Int, insurance : Int, tax : Int]
IsDraft(d) ==
  /\ d.owner \in Persons \cup {OwnerShared}
  /\ {d.amount, d.units, d.price, d.from, d.until} \subseteq Int

\* A cell that is a formula shows its product.
IsWorkbook(w) ==
  /\ IsFiniteSet(DOMAIN w.rows) /\ DOMAIN w.rows \subseteq Nat \ {0}
  /\ \A r \in DOMAIN w.rows :
       /\ {w.rows[r].from, w.rows[r].until} \subseteq Int
       /\ \A o \in DOMAIN w.rows[r].cells :
            LET cell == w.rows[r].cells[o]
            IN /\ cell.value \in Int
               /\ cell.factors # <<>> =>
                    /\ cell.factors[1] \in Int /\ cell.factors[2] \in Int
                    /\ cell.factors[1] * cell.factors[2] = cell.value
  /\ DOMAIN w.income \subseteq Persons
  /\ \A p \in DOMAIN w.income : w.income[p] \in IncomeEntry

ASSUME BudgetPlanAssumption ==
  /\ IsFiniteSet(Persons) /\ IsFiniteSet(Proposals)
  /\ OwnerShared \notin Persons /\ None \notin Persons /\ ValidOwners \subseteq Persons
  /\ \A d \in CostDrafts \cup Proposals : IsDraft(d)
  /\ \A e \in Entries : e \in IncomeEntry
  /\ \A w \in Workbooks : IsWorkbook(w)
  /\ \A c \in Configs : IsFiniteSet(DOMAIN c) /\ DOMAIN c \subseteq Nat \ {0}
  /\ SplitModels \subseteq {"pooled_equal", "equal", "proportional", "custom"}
  /\ LastMonth \in Nat \ {0} /\ MaxChanges \in Nat

VARIABLES
  plan,      \* the plan in memory: persons, income by person, positions by id
  storedPlan,  \* finance_dashboard budget plan in .storage
  accounts,  \* the account configuration
  model,     \* option split_model
  month,     \* the month looked at
  changes    \* how often the plan was saved

planVars == <<plan, storedPlan, changes>>
viewVars == <<accounts, model, month>>
householdVars == <<planVars, viewVars>>

EmptyPlan == [persons |-> {}, income |-> <<>>, positions |-> <<>>]

Sum(S, Of(_)) == SumFunction([x \in S |-> Of(x)])
First(S) == IF S = {} THEN 0 ELSE Min(S)
Abs(x) == IF x < 0 THEN -x ELSE x
Pos(x) == IF x < 0 THEN 0 ELSE x

\* round(x * part / whole) in cents
Portion(x, part, whole) == (2 * x * part + whole) \div (2 * whole)

-----------------------------------------------------------------------------
(* Positions, incomes and their totals *)

PlannedAmount(p) == IF p.kind = "buffer" THEN p.units * p.price ELSE p.amount
IsActive(p, m) == m \in p.from..p.until
EffectiveAmount(p, m) == IF IsActive(p, m) THEN PlannedAmount(p) ELSE 0

Costs(pl, Counts(_), m) ==
  Sum({i \in DOMAIN pl.positions : Counts(pl.positions[i])},
      LAMBDA i : EffectiveAmount(pl.positions[i], m))

CostTotal(pl, owner, m) == Costs(pl, LAMBDA p : p.owner = owner, m)
CostGrandTotal(pl, m) == Costs(pl, LAMBDA p : TRUE, m)

Net(e) == e.deposit + e.insurance + e.tax
IncomeNet(pl, person) == IF person \in DOMAIN pl.income THEN Net(pl.income[person]) ELSE 0
IncomeNetTotal(pl) == Sum(pl.persons, LAMBDA p : IncomeNet(pl, p))

-----------------------------------------------------------------------------
(* The ledger's operations *)

EnsurePerson(pl, owner) ==
  IF owner = OwnerShared THEN pl ELSE [pl EXCEPT !.persons = @ \cup {owner}]

With(f, k, v) == [x \in DOMAIN f \cup {k} |-> IF x = k THEN v ELSE f[x]]

\* A position that exists is replaced; only a new one registers its owner.
UpsertPosition(pl, id, p) ==
  LET put == [pl EXCEPT !.positions = With(@, id, p)]
  IN IF id \in DOMAIN pl.positions THEN put ELSE EnsurePerson(put, p.owner)

RemovePosition(pl, id) ==
  [pl EXCEPT !.positions = [i \in DOMAIN @ \ {id} |-> @[i]]]

PutIncome(pl, e) == EnsurePerson([pl EXCEPT !.income = With(@, e.person, e)], e.person)

\* CostPosition.from_dict gives a draft without an id its slug.
IdOf(d) == IF d.id = NoId THEN <<d.name, d.owner, 0>> ELSE d.id
PositionOf(d) ==
  [name |-> d.name, owner |-> d.owner, kind |-> d.kind, amount |-> d.amount, units |-> d.units,
   price |-> d.price, from |-> d.from, until |-> d.until, debit |-> d.debit]

\* BudgetPlan.from_dict: whoever owns something is a person again.
Healed(pl) ==
  [pl EXCEPT !.persons = @ \cup DOMAIN pl.income
                \cup ({pl.positions[i].owner : i \in DOMAIN pl.positions} \ {OwnerShared})]

-----------------------------------------------------------------------------
(* The workbook: an income column per person; a cost sheet whose rows have a *)
(* name, a validity and per owner a cell with its value and, when it is a    *)
(* product, its formula.  Buffers are told by their name.                    *)

CellAt(w, c) == w.rows[c[1]].cells[c[2]]
CellsOf(w) == {c \in (DOMAIN w.rows) \X (Persons \cup {OwnerShared}) :
                 c[2] \in DOMAIN w.rows[c[1]].cells /\ CellAt(w, c).value # 0}

Formulas(w, name) ==
  {c \in CellsOf(w) : w.rows[c[1]].name = name /\ CellAt(w, c).factors # <<>>}

\* The factors of a buffer are looked up again by name: of the last row of that name
\* that has a formula, the first one, shared costs being the first column.
RestoredFactors(w, name) ==
  LET row == Max({c[1] : c \in Formulas(w, name)})
      owners == {c[2] : c \in {d \in Formulas(w, name) : d[1] = row}}
      owner == IF OwnerShared \in owners THEN OwnerShared ELSE CHOOSE o \in owners : TRUE
  IN w.rows[row].cells[owner].factors

\* Slip for the mutation runs: a name that occurs twice keeps its slug.
ImportedIdBySlug(w, r, o) == <<w.rows[r].name, o, 0>>

ImportedId(w, r, o) ==
  LET name == w.rows[r].name
      again == \E s \in 1..(r - 1) : <<s, o>> \in CellsOf(w) /\ w.rows[s].name = name
  IN <<name, o, IF again THEN r ELSE 0>>

ImportedPosition(w, r, o) ==
  LET row == w.rows[r]
      value == row.cells[o].value
      factors == IF row.buffer /\ Formulas(w, row.name) # {}
                   THEN RestoredFactors(w, row.name) ELSE <<1, value>>
  IN [name |-> row.name, owner |-> o, kind |-> IF row.buffer THEN "buffer" ELSE "fixed",
      amount |-> value, units |-> factors[1], price |-> factors[2],
      from |-> row.from, until |-> row.until, debit |-> 0]

\* parse_workbook: a fresh plan; incomes first, then the positions one by one, a
\* later one with the same id taking the place of the earlier.
ParseWorkbook(w) ==
  LET income == [p \in DOMAIN w.income |->
                   [w.income[p] EXCEPT !.insurance = -Abs(@)]]
      ids == {ImportedId(w, c[1], c[2]) : c \in CellsOf(w)}
      CellOf(id) == <<Max({c[1] : c \in {d \in CellsOf(w) : ImportedId(w, d[1], d[2]) = id}}),
                      id[2]>>
  IN [persons |-> DOMAIN income \cup ({c[2] : c \in CellsOf(w)} \ {OwnerShared}),
      income |-> income,
      positions |-> [id \in ids |-> ImportedPosition(w, CellOf(id)[1], CellOf(id)[2])]]

Parsed == [w \in Workbooks |-> ParseWorkbook(w)]

-----------------------------------------------------------------------------
(* The split *)

NetOf(pl, p) == IncomeNet(pl, p)

\* The custom ratios of the options are never filled: custom is equal.
SharedPart(pl, p, cost) ==
  LET n == Cardinality(pl.persons)
      positive == Sum(pl.persons, LAMBDA q : Pos(NetOf(pl, q)))
  IN IF model = "proportional" /\ positive > 0
       THEN Portion(cost, Pos(NetOf(pl, p)), positive)
       ELSE Portion(cost, 1, n)

\* What a person is left with.  Pooled: the pool pays the shared costs, the rest is
\* split equally; otherwise each pays a part of them from the own income.
Spielgeld(pl, p, m) ==
  LET n == Cardinality(pl.persons)
      rest == IncomeNetTotal(pl) - CostTotal(pl, OwnerShared, m)
  IN IF model = "pooled_equal" THEN Portion(rest, 1, n) - CostTotal(pl, p, m)
     ELSE NetOf(pl, p) - SharedPart(pl, p, CostTotal(pl, OwnerShared, m)) - CostTotal(pl, p, m)

-----------------------------------------------------------------------------
PlanInit ==
  /\ plan = EmptyPlan /\ storedPlan = EmptyPlan
  /\ accounts \in Configs
  /\ model \in SplitModels
  /\ month = 1
  /\ changes = 0

SavePlan(pl) ==
  /\ changes < MaxChanges /\ changes' = changes + 1
  /\ plan' = pl /\ storedPlan' = pl
  /\ UNCHANGED viewVars

SetCostPosition(d) == SavePlan(UpsertPosition(plan, IdOf(d), PositionOf(d)))

DeleteCostPosition(id) == id \in DOMAIN plan.positions /\ SavePlan(RemovePosition(plan, id))

SetIncome(e) == SavePlan(PutIncome(plan, e))

\* A proposal per contract, each under an owner that is known.
Acceptable(chosen) ==
  /\ chosen # {}
  /\ \A d \in chosen : d.owner \in ValidOwners \cup {OwnerShared}
  /\ \A d, e \in chosen : d # e => IdOf(d) # IdOf(e)

\* POST setup/plan_prefill: a position the user has is never overwritten.
AcceptProposals(chosen) ==
  /\ Acceptable(chosen)
  /\ SavePlan(FoldSet(LAMBDA d, pl : IF IdOf(d) \in DOMAIN plan.positions THEN pl
                                 ELSE UpsertPosition(pl, IdOf(d), PositionOf(d)),
                  plan, chosen))

\* A workbook without either sheet is refused.
ImportWorkbook(w) ==
  /\ w.rows # <<>> \/ w.income # <<>>
  /\ SavePlan(Parsed[w])

\* Restart or reload; a read error leaves an empty plan in memory.
RestartPlan(readable) ==
  /\ plan' = IF readable THEN Healed(storedPlan) ELSE EmptyPlan
  /\ UNCHANGED <<storedPlan, changes, viewVars>>

\* Accounts are assigned, the options changed (both reload), the month turns.
Assign(config) == accounts' = config /\ UNCHANGED <<planVars, model, month>>
SetModel(m) ==
  model' = m /\ plan' = Healed(storedPlan) /\ UNCHANGED <<storedPlan, changes, accounts, month>>
NextMonth == month < LastMonth /\ month' = month + 1 /\ UNCHANGED <<planVars, accounts, model>>

PlanNext ==
  \/ \E d \in CostDrafts : SetCostPosition(d)
  \/ \E id \in DOMAIN plan.positions : DeleteCostPosition(id)
  \/ \E e \in Entries : SetIncome(e)
  \/ \E chosen \in SUBSET Proposals : AcceptProposals(chosen)
  \/ \E w \in Workbooks : ImportWorkbook(w)
  \/ \E readable \in BOOLEAN : RestartPlan(readable)
  \/ \E config \in Configs : Assign(config)
  \/ \E m \in SplitModels : SetModel(m)
  \/ NextMonth

PlanSpec == PlanInit /\ [][PlanNext]_householdVars
=============================================================================
