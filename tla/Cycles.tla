-------------------------------- MODULE Cycles --------------------------------
(***************************************************************************)
(* The budget cycles of cycle.py: from salary to salary, for a person or   *)
(* for the household.  Days are numbered from 1; an income is a record     *)
(* with a day and an amount.                                               *)
(***************************************************************************)
EXTENDS Integers, SequencesExt

CONSTANTS
  SalaryTolerance,    \* SALARY_TOLERANCE_DAYS
  AnchorWindow,       \* HOUSEHOLD_ANCHOR_WINDOW_DAYS
  DefaultCycle,       \* DEFAULT_CYCLE_DAYS
  MonthDays           \* the days of a calendar month

ASSUME CyclesAssumption ==
  /\ {SalaryTolerance, AnchorWindow} \subseteq Nat
  /\ {DefaultCycle, MonthDays} \subseteq Nat \ {0}

TopIncome(incomes) == Max({i.amount : i \in incomes})

\* What is at least 80 % of the highest income is a salary; salaries within the
\* tolerance of a start are the same event.
SalaryDays(incomes) ==
  {i.day : i \in {j \in incomes : 10 * j.amount >= 8 * TopIncome(incomes)}}

SalaryStarts(incomes) ==
  LET days == SalaryDays(incomes)
      upTo[d \in 0..Max(days)] ==
        IF d = 0 THEN <<>>
        ELSE IF d \in days /\ (upTo[d - 1] = <<>> \/ d - Last(upTo[d - 1]) > SalaryTolerance)
             THEN Append(upTo[d - 1], d) ELSE upTo[d - 1]
  IN upTo[Max(days)]

\* The one who earns most opens the cycles; somebody else's salary shortly before
\* moves a start forward.
HouseholdStarts(incomesOf) ==
  LET earners == {p \in DOMAIN incomesOf : incomesOf[p] # {}}
      Top(p) == TopIncome(incomesOf[p])
      main == CHOOSE p \in earners : \A q \in earners : Top(q) <= Top(p)
      others == UNION {Range(SalaryStarts(incomesOf[q])) : q \in earners \ {main}}
      anchors == SalaryStarts(incomesOf[main])
  IN IF earners = {} THEN <<>>
     ELSE [k \in DOMAIN anchors |->
             Min({anchors[k]} \cup {d \in others : anchors[k] - d \in 1..AnchorWindow})]

CalendarCycle(today) ==
  LET first == ((today - 1) \div MonthDays) * MonthDays + 1
  IN [start |-> first, end |-> first + MonthDays - 1]

Steps(starts) == 1..Max({0, Len(starts) - 1})

\* Slip for the mutation runs: a window includes the salary that ends it.
CycleWindowsClosed(starts) ==
  [k \in Steps(starts) |-> [start |-> starts[k], end |-> starts[k + 1]]]

\* The windows between consecutive starts.
CycleWindows(starts) ==
  [k \in Steps(starts) |-> [start |-> starts[k], end |-> starts[k + 1] - 1]]

\* The median of the gaps, a half rounded to the even day.
TypicalLength(starts) ==
  LET gaps == [k \in Steps(starts) |-> starts[k + 1] - starts[k]]
      n == Len(gaps)
      Nth(m) == Min({g \in Range(gaps) : Cardinality({k \in DOMAIN gaps : gaps[k] <= g}) >= m})
      both == Nth(n \div 2) + Nth(n \div 2 + 1)
      half == both \div 2
  IN IF n = 0 THEN DefaultCycle
     ELSE Max({1, IF n % 2 = 1 THEN Nth(n \div 2 + 1)
                  ELSE IF both % 2 = 0 \/ half % 2 = 0 THEN half ELSE half + 1})

\* The cycle of a day, or none when the day is before the first start.  It runs on
\* while the next salary is overdue.  The starts ascend.
Window(starts, today) ==
  LET past == {s \in Range(starts) : s <= today}
      future == {s \in Range(starts) : s > today}
      start == Max(past)
      end == IF future # {} THEN Min(future) - 1 ELSE start + TypicalLength(starts) - 1
  IN IF past = {} THEN CalendarCycle(today)
     ELSE [start |-> start, end |-> Max({end, today})]
=============================================================================
