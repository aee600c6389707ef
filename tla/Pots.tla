--------------------------------- MODULE Pots ---------------------------------
(***************************************************************************)
(* Budget pots and the home screen: the pots of pots.py with what the user *)
(* decides about a week's carry-over, and what home.py shows of them for   *)
(* the cycles that follow from the bookings.                               *)
(*                                                                         *)
(* Bookings are set down with the amount the bank gives, negative for a    *)
(* purchase.  A pot's daily allowance is its budget over the days of the   *)
(* cycle; to stay in whole numbers every amount derived from it is kept    *)
(* multiplied by those days.  A week has WeekDays days, from day 1 on.     *)
(***************************************************************************)
EXTENDS Cycles

CONSTANTS
  People,
  Bookable,      \* what may be booked: [owner, category, amount, ahead]
  Drafts,        \* the pots the user may set up: [owner, name, budget, keys, kind]
  WeekDays,
  MaxDecisions,  \* _MAX_DECISIONS
  YearCycles,    \* YEAR_CYCLES
  LastDay, MaxBookings, MaxPots, MaxEdits  \* bounds

Shared == "shared"

ASSUME PotsAssumption ==
  /\ Shared \notin People
  /\ {WeekDays, MaxDecisions} \subseteq Nat \ {0} /\ YearCycles \in Nat \ {0, 1}
  /\ \A b \in Bookable : b.amount \in Int /\ b.ahead \in Nat
  /\ \A d \in Drafts : d.budget \in Int
  /\ {LastDay, MaxBookings, MaxPots, MaxEdits} \subseteq Nat

VARIABLES
  today,
  bookings,  \* the cached bookings, each with its day and number
  pots,      \* the pots in memory, by id: <<name, owner, n>>
  stored,    \* finance_dashboard pots in .storage
  wish,      \* what the user last said of a pot's carry this week (history)
  edits      \* how often the user changed a pot

vars == <<today, bookings, pots, stored, wish, edits>>

Cost(purchases) == SumFunction([b \in purchases |-> -b.amount])
Budget(ids) == SumFunction([id \in ids |-> pots[id].budget])
Days(cycle) == Max({1, cycle.end - cycle.start + 1})
WeekStart(day) == ((day - 1) \div WeekDays) * WeekDays + 1

-----------------------------------------------------------------------------
(* The cycle of a view: a person's, or the household's, which is named Shared *)

Incomes(owner) ==
  {[day |-> b.day, amount |-> b.amount] :
     b \in {c \in bookings : c.amount > 0 /\ c.category # "transfers" /\ c.owner = owner}}

StartsOf(view) ==
  IF view \in People THEN IF Incomes(view) = {} THEN <<>> ELSE SalaryStarts(Incomes(view))
  ELSE HouseholdStarts([p \in People |-> Incomes(p)])

CycleOf(view) ==
  IF StartsOf(view) = <<>> THEN CalendarCycle(today) ELSE Window(StartsOf(view), today)

\* _year_block: the last closed cycles and the current one.
YearWindows(view) ==
  LET closed == CycleWindows(StartsOf(view))
      from == Max({1, Len(closed) - YearCycles + 2})
  IN Append(SubSeq(closed, from, Len(closed)), CycleOf(view))

-----------------------------------------------------------------------------
(* One pot in a cycle *)

Expense(b) == b.amount < 0 /\ b.category \notin {"income", "transfers"}

\* _pot_bookings: the owner's purchases; _matching: those of the pot's categories.
PotBookings(pot) == {b \in bookings : b.owner = pot.owner /\ Expense(b)}
SpentBetween(pot, from, to) ==
  Cost({b \in PotBookings(pot) : b.category \in pot.keys /\ b.day \in from..to})

Decision(pot, week) == IF week \in DOMAIN pot.decisions THEN pot.decisions[week] ELSE "none"

\* What earlier weeks of the cycle left of the pot, times the days of the cycle.
CarryInWeek(pot, cycle) ==
  LET week == WeekStart(today)
  IN IF week - 1 < cycle.start THEN 0
     ELSE pot.budget * (week - cycle.start)
            - Days(cycle) * SpentBetween(pot, cycle.start, Min({week - 1, cycle.end}))

PotBalance(pot, cycle) ==
  LET elapsed == Min({Max({today, cycle.start - 1}), cycle.end}) - cycle.start + 1
      dropped == Decision(pot, WeekStart(today)) = "drop"
  IN pot.budget * elapsed
       - Days(cycle) * SpentBetween(pot, cycle.start, Min({today, cycle.end}))
       - (IF dropped THEN CarryInWeek(pot, cycle) ELSE 0)

-----------------------------------------------------------------------------
(* The week of a view, which counts by category over all its pots *)

SpendPots(view) == {id \in DOMAIN pots : pots[id].kind = "spend"
                                          /\ (view = Shared \/ pots[id].owner = view)}

Keys(ids) == UNION {pots[id].keys : id \in ids}

\* Every purchase of somebody who has one of the pots.
WeekBookings(ids) == UNION {PotBookings(pots[id]) : id \in ids}

SpentOn(ids, from, to) ==
  Cost({b \in WeekBookings(ids) : b.category \in Keys(ids) /\ b.day \in from..to})

DroppedCarry(ids, cycle) ==
  LET week == WeekStart(today)
      dropped == {id \in ids : Decision(pots[id], week) = "drop"}
  IN SumFunction([id \in dropped |->
       pots[id].budget * (week - cycle.start)
         - Days(cycle) * Cost({b \in WeekBookings(ids) :
                                 b.category \in pots[id].keys
                                   /\ b.day \in cycle.start..(week - 1)})])

\* Slip for the mutation runs: a dropped carry is still in the week's budget.
CarryOverAll(ids, cycle) ==
  LET week == WeekStart(today)
  IN IF week <= cycle.start THEN 0
     ELSE Budget(ids) * (week - cycle.start)
            - Days(cycle) * SpentOn(ids, cycle.start, week - 1)

CarryOver(ids, cycle) ==
  LET week == WeekStart(today)
  IN IF week <= cycle.start THEN 0
     ELSE Budget(ids) * (week - cycle.start)
            - Days(cycle) * SpentOn(ids, cycle.start, week - 1)
            - DroppedCarry(ids, cycle)

SpentThisWeek(ids, cycle) ==
  SpentOn(ids, Max({WeekStart(today), cycle.start}), Min({today, cycle.end}))

-----------------------------------------------------------------------------
Init ==
  /\ today = 1 /\ bookings = {}
  /\ pots = <<>> /\ stored = <<>> /\ wish = <<>> /\ edits = 0

\* A call of the user; "Save" when it changes a pot.
Edit == edits < MaxEdits /\ edits' = edits + 1 /\ UNCHANGED <<today, bookings>>
Save(ps) == pots' = ps /\ stored' = ps

NewDay ==
  /\ today < LastDay /\ today' = today + 1
  /\ wish' = IF WeekStart(today') = WeekStart(today) THEN wish ELSE <<>>
  /\ UNCHANGED <<bookings, pots, stored, edits>>

\* A booking of today, or dated days ahead by the bank: home.py takes a booked date as it
\* comes.  One that arrives late makes no other cache than one in time.
Book(b) ==
  LET New(n) == [owner |-> b.owner, category |-> b.category, amount |-> b.amount,
                 day |-> today + b.ahead, number |-> n]
  IN /\ Cardinality(bookings) < MaxBookings
     /\ bookings' = bookings \cup {New(Min({n \in 1..MaxBookings : New(n) \notin bookings}))}
     /\ UNCHANGED <<today, pots, stored, wish, edits>>

PotOf(d, decisions) == [owner |-> d.owner, budget |-> d.budget, keys |-> d.keys, kind |-> d.kind,
                        decisions |-> decisions]

Put(f, k, v) == [x \in DOMAIN f \cup {k} |-> IF x = k THEN v ELSE f[x]]

\* POST pots: the id is made of name and owner, counted up until it is free.
CreatePot(d) ==
  LET Id(n) == <<d.name, d.owner, n>>
  IN /\ Cardinality(DOMAIN pots) < MaxPots
     /\ \E n \in 1..MaxPots :
          /\ Id(n) \notin DOMAIN pots /\ \A k \in 1..(n - 1) : Id(k) \in DOMAIN pots
          /\ Edit /\ Save(Put(pots, Id(n), PotOf(d, <<>>)))
     /\ UNCHANGED wish

\* Slip for the mutation runs: the sheet's pot replaces the decisions too.
ReplacePotWholly(id, d) ==
  /\ id \in DOMAIN pots
  /\ Edit /\ Save(Put(pots, id, PotOf(d, <<>>)))
  /\ UNCHANGED wish

\* PUT pots, also under another owner; the sheet carries no decisions.
ReplacePot(id, d) ==
  /\ id \in DOMAIN pots
  /\ Edit /\ Save(Put(pots, id, PotOf(d, pots[id].decisions)))
  /\ UNCHANGED wish

\* The newest decisions are kept.
CleanDecisions(f) ==
  [w \in {v \in DOMAIN f : Cardinality({x \in DOMAIN f : x > v}) < MaxDecisions} |-> f[w]]

\* Pot.set_decision: the last word for a week replaces an earlier one.
Decided(pot, week, action) ==
  [pot EXCEPT !.decisions = CleanDecisions(Put(@, week, action))]

\* POST pots/carry, for the week of today.
SetCarry(id, action) ==
  LET week == WeekStart(today)
      pot == pots[id]
  IN /\ id \in DOMAIN pots
     /\ IF Decision(pot, week) = action THEN UNCHANGED <<pots, stored>>
        ELSE Save([pots EXCEPT ![id] = Decided(@, week, action)])
     /\ Edit /\ wish' = Put(wish, id, action)

Without(f, k) == [x \in DOMAIN f \ {k} |-> f[x]]

DeletePot(id) ==
  /\ id \in DOMAIN pots
  /\ Edit /\ Save(Without(pots, id))
  /\ wish' = Without(wish, id)

\* Restart or reload; a read error leaves no pots in memory.
Restart(readable) ==
  /\ pots' = IF ~readable THEN <<>>
             ELSE [id \in DOMAIN stored |->
                     [stored[id] EXCEPT !.decisions = CleanDecisions(@)]]
  /\ wish' = [id \in DOMAIN wish \cap DOMAIN pots' |-> wish[id]]
  /\ UNCHANGED <<today, bookings, stored, edits>>

Next ==
  \/ NewDay
  \/ \E b \in Bookable : Book(b)
  \/ \E d \in Drafts : CreatePot(d)
  \/ \E id \in DOMAIN pots, d \in Drafts : ReplacePot(id, d)
  \/ \E id \in DOMAIN pots, action \in {"accept", "drop"} : SetCarry(id, action)
  \/ \E id \in DOMAIN pots : DeletePot(id)
  \/ \E readable \in BOOLEAN : Restart(readable)

Spec == Init /\ [][Next]_vars

-----------------------------------------------------------------------------
(* Properties *)

\* The week's strip and the pots below it are computed apart.  For one person, whose
\* pots have no category in common, the strip carries over what the pots carry that
\* were not dropped, and has spent what they have spent since the week began
\* (pots.py, week_status and pot_status).
WeekAgreesWithPots ==
  \A view \in People :
    LET ids == SpendPots(view)
        cycle == CycleOf(view)
        week == WeekStart(today)
        kept == {id \in ids : Decision(pots[id], week) # "drop"}
    IN (\A i, j \in ids : i # j => pots[i].keys \cap pots[j].keys = {}) =>
         /\ CarryOver(ids, cycle) = SumFunction([id \in kept |-> CarryInWeek(pots[id], cycle)])
         /\ SumFunction([id \in ids |-> PotBalance(pots[id], cycle)]) =
              CarryOver(ids, cycle)
                + Budget(ids) * (today - Max({week, cycle.start}) + 1)
                - Days(cycle) * SpentThisWeek(ids, cycle)

NoneAhead(view) == \A start \in Range(StartsOf(view)) : start <= today

\* The cycles of the year follow each other without a gap: from the first salary shown
\* to today every day, and so every purchase, is in one of them, also when two people's
\* salaries move a start; and the year lists that one once, unless a salary is dated
\* ahead.  Then the current cycle is closed too, and listed twice (cycle.py, home.py
\* _year_block).
YearCountsOnce ==
  \A view \in People \cup {Shared} :
    LET windows == YearWindows(view)
    IN \A day \in windows[1].start..today :
         /\ Cardinality({w \in Range(windows) : day \in w.start..w.end}) = 1
         /\ NoneAhead(view) =>
              Cardinality({k \in DOMAIN windows : day \in windows[k].start..windows[k].end}) = 1

\* What the user last said of this week's carry is what counts, through edits of the
\* pot, pruning and restarts ("the last action for the week wins", api/home.py).
CarryWishKept ==
  \A id \in DOMAIN wish : Decision(pots[id], WeekStart(today)) = wish[id]
=============================================================================
