-------------------------- MODULE Household_proofs ---------------------------
(***************************************************************************)
(* What is proved of the household's money, in two parts that share the    *)
(* lemmas on numbers, finite sets and sums.                                *)
(*                                                                         *)
(* Pots and Cycles, for any people, drafts, bookings, lengths of a week    *)
(* and of a cycle, tolerance of a salary and anchor window.  CarryWishKept *)
(* is not inductive: a restart takes the pots from the file and prunes     *)
(* their decisions, a repeated action saves nothing, and a decision for a  *)
(* later week would push this week's out.  So IInv says that the file has  *)
(* the pots in memory with what was decided for this week, and that no     *)
(* decision, in memory or in the file, is for a week after this one.  The  *)
(* two others are about what is computed from the bookings and the pots,   *)
(* so their invariants are plain (Booked: bookings are of days and come to *)
(* numbers; Priced: budgets are numbers) and the work is in the operators: *)
(*   - the starts of cycles ascend (StartsOfOne), also when they are moved *)
(*     forward (MovedInOrder), so the windows between them, with the one   *)
(*     of today behind them, count a day once (TilesCountOnce); when a     *)
(*     start is ahead, the one of today is among them (AheadIsClosed);     *)
(*   - a sum over a set is what grows by each element (SumIs), so the sums *)
(*     of the strip, over all pots, are those of the pots (SumByParts,     *)
(*     SumOfDifferences).                                                  *)
(*                                                                         *)
(* BudgetPlan and TransferPlan (from "The plan's invariant" on), for any   *)
(* people, drafts, incomes, workbooks, accounts and months.  Planned says  *)
(* that plan and file are plans: persons that are known, incomes and       *)
(* finitely many positions made of numbers.                                *)
(* The choreography is a function of them, and three arguments carry it:   *)
(*   - an import has one position per cell (CellsDiffer), and a position   *)
(*     has its cell's amount (ImportedAmount);                             *)
(*   - portions of one amount that add up to the whole are off by half a   *)
(*     cent each at most (Rounded, PortionsAddUp), so what the own means   *)
(*     and the shortfall cover is the shared cost (FundingHolds);          *)
(*   - the rows are families of legs with a sum each (Family), a move's    *)
(*     being zero, so the balances add up to what is earned less what is   *)
(*     debited (BalancesAreTheRows, NothingIsLost), and what is left to    *)
(*     each person is the split, but for rounding (SplitAddsUp).           *)
(***************************************************************************)
EXTENDS Pots, TransferPlan, FiniteSetTheorems, TLAPS

This == WeekStart(today)

Table(ps) ==
  /\ ps = [id \in DOMAIN ps |-> ps[id]]
  /\ \A id \in DOMAIN ps :
       /\ "decisions" \in DOMAIN ps[id]
       /\ DOMAIN ps[id].decisions \subseteq Int
       /\ \A w \in DOMAIN ps[id].decisions : w <= This

\* What the file has of a pot in memory.
Same ==
  \A id \in DOMAIN pots :
    /\ id \in DOMAIN stored
    /\ This \in DOMAIN pots[id].decisions <=> This \in DOMAIN stored[id].decisions
    /\ This \in DOMAIN pots[id].decisions =>
         stored[id].decisions[This] = pots[id].decisions[This]

Heard ==
  \A id \in DOMAIN wish :
    /\ id \in DOMAIN pots
    /\ This \in DOMAIN pots[id].decisions
    /\ pots[id].decisions[This] = wish[id]

IInv ==
  /\ today \in Nat
  /\ Table(pots) /\ Table(stored)
  /\ Same /\ Heard

-----------------------------------------------------------------------------
(* Lemmas *)

\* A week begins on a whole day, and no later than the next day's.
LEMMA WeeksGoOn ==
  ASSUME NEW d \in Nat
  PROVE  /\ WeekStart(d) \in Int /\ WeekStart(d) <= d
         /\ WeekStart(d) <= WeekStart(d + 1)
<1> DEFINE w == WeekDays q == (d - 1) \div w r == d \div w
<1>1. w \in Nat /\ w > 0
  BY PotsAssumption
<1> HIDE DEF w
<1>2. q \in Int /\ r \in Int
  BY <1>1
<1>3. w * q <= d - 1 /\ d - 1 < w * q + w /\ w * r <= d /\ d < w * r + w
  BY <1>1, SMTT(30)
<1>4. q <= r
  <2>1. SUFFICES ASSUME r < q PROVE FALSE
    BY <1>2
  <2>2. r + 1 <= q
    BY <1>2, <2>1
  <2>3. w * (r + 1) <= w * q
    BY <1>1, <1>2, <2>2
  <2> QED
    BY <1>1, <1>2, <1>3, <2>3
<1>5. q * w \in Int /\ r * w \in Int /\ q * w <= r * w /\ q * w = w * q
  BY <1>1, <1>2, <1>4
<1>6. WeekStart(d) = q * w + 1 /\ WeekStart(d + 1) = r * w + 1
  <2>1. (d + 1) - 1 = d
    OBVIOUS
  <2> QED
    BY <2>1 DEF WeekStart, w
<1> HIDE DEF q, r
<1> QED
  BY <1>3, <1>5, <1>6

\* Pruning leaves decisions of the same weeks, and this week's among them: no week
\* is newer.
LEMMA PruningKeepsTheWeek ==
  ASSUME NEW f, NEW week \in Int, DOMAIN f \subseteq Int,
         \A w \in DOMAIN f : w <= week
  PROVE  /\ DOMAIN CleanDecisions(f) \subseteq DOMAIN f
         /\ week \in DOMAIN f =>
              week \in DOMAIN CleanDecisions(f) /\ CleanDecisions(f)[week] = f[week]
<1>1. DOMAIN CleanDecisions(f) =
        {v \in DOMAIN f : Cardinality({x \in DOMAIN f : x > v}) < MaxDecisions}
  BY DEF CleanDecisions
<1>2. {x \in DOMAIN f : x > week} = {}
  OBVIOUS
<1>3. Cardinality({x \in DOMAIN f : x > week}) < MaxDecisions
  BY <1>2, FS_EmptySet, PotsAssumption
<1> QED
  BY <1>1, <1>3 DEF CleanDecisions

-----------------------------------------------------------------------------
(* The invariant *)

LEMMA InitWish == Init => IInv
  BY DEF Init, IInv, Table, Same, Heard

LEMMA InvIsWish == IInv => CarryWishKept
  BY DEF IInv, Heard, CarryWishKept, Decision, This

\* A pot put with decisions up to this week, and what was wished of it among them.
LEMMA PutKeeps ==
  ASSUME IInv, NEW id, NEW pot, today' = today, wish' = wish,
         Save(Put(pots, id, pot)),
         "decisions" \in DOMAIN pot, DOMAIN pot.decisions \subseteq Int,
         \A w \in DOMAIN pot.decisions : w <= This,
         id \in DOMAIN wish => This \in DOMAIN pot.decisions /\ pot.decisions[This] = wish[id]
  PROVE  IInv'
<1>1. pots' = Put(pots, id, pot) /\ stored' = pots' /\ This' = This
  BY DEF Save, This
<1>2. Table(pots)' /\ Table(stored)'
  BY <1>1 DEF IInv, Table, Put
<1>3. Same'
  BY <1>1 DEF Same
<1>4. Heard'
  BY <1>1 DEF IInv, Heard, Put
<1> QED
  BY <1>1, <1>2, <1>3, <1>4 DEF IInv

LEMMA StepWish == IInv /\ [Next]_vars => IInv'
<1> SUFFICES ASSUME IInv, [Next]_vars PROVE IInv'
  OBVIOUS
<1>0. today \in Nat /\ This \in Int
  BY WeeksGoOn DEF IInv, This
<1>1. CASE NewDay
  <2>1. today' = today + 1 /\ today' \in Nat /\ pots' = pots /\ stored' = stored
    BY <1>0, <1>1 DEF NewDay
  <2>2. This' = WeekStart(today') /\ This' \in Int /\ This <= This'
    BY <1>0, <2>1, WeeksGoOn DEF This
  <2>3. Table(pots)' /\ Table(stored)'
    <3>1. ASSUME NEW w \in Int, w <= This PROVE w <= This'
      BY <1>0, <2>2, <3>1
    <3> QED
      BY <2>1, <3>1 DEF IInv, Table
  <2>4. CASE This' = This
    <3>1. wish' = wish
      BY <1>1, <2>4 DEF NewDay, This
    <3> QED
      BY <2>1, <2>3, <2>4, <3>1 DEF IInv, Same, Heard
  <2>5. CASE This' # This
    <3>1. wish' = <<>>
      BY <1>1, <2>5 DEF NewDay, This
    <3>2. ASSUME NEW id \in DOMAIN pots
          PROVE  This' \notin DOMAIN pots[id].decisions /\ This' \notin DOMAIN stored[id].decisions
      <4>1. id \in DOMAIN stored
        BY DEF IInv, Same
      <4>2. \A w \in Int : w <= This => w # This'
        BY <1>0, <2>2, <2>5
      <4> QED
        BY <4>1, <4>2 DEF IInv, Table
    <3> QED
      BY <2>1, <2>3, <3>1, <3>2 DEF IInv, Same, Heard
  <2> QED
    BY <2>4, <2>5
<1>2. ASSUME NEW b \in Bookable, Book(b) PROVE IInv'
  <2>1. today' = today /\ pots' = pots /\ stored' = stored /\ wish' = wish
    BY <1>2 DEF Book
  <2> QED
    BY <2>1 DEF IInv, Table, Same, Heard, This
<1>3. ASSUME NEW d \in Drafts, CreatePot(d) PROVE IInv'
  <2>1. PICK n \in 1..MaxPots :
          /\ <<d.name, d.owner, n>> \notin DOMAIN pots
          /\ Edit /\ Save(Put(pots, <<d.name, d.owner, n>>, PotOf(d, <<>>)))
    BY <1>3 DEF CreatePot
  <2>2. today' = today /\ wish' = wish
    BY <1>3, <2>1 DEF CreatePot, Edit
  <2>3. "decisions" \in DOMAIN PotOf(d, <<>>) /\ DOMAIN PotOf(d, <<>>).decisions = {}
    BY DEF PotOf
  <2>4. <<d.name, d.owner, n>> \notin DOMAIN wish
    BY <2>1 DEF IInv, Heard
  <2> QED
    BY <2>1, <2>2, <2>3, <2>4, PutKeeps
<1>4. ASSUME NEW id \in DOMAIN pots, NEW d \in Drafts, ReplacePot(id, d) PROVE IInv'
  <2> DEFINE pot == PotOf(d, pots[id].decisions)
  <2>1. "decisions" \in DOMAIN pot /\ pot.decisions = pots[id].decisions
    BY DEF PotOf
  <2>2. today' = today /\ wish' = wish /\ Save(Put(pots, id, pot))
    BY <1>4 DEF ReplacePot, Edit
  <2>3. /\ DOMAIN pot.decisions \subseteq Int
        /\ \A w \in DOMAIN pot.decisions : w <= This
    BY <2>1 DEF IInv, Table
  <2>4. id \in DOMAIN wish => This \in DOMAIN pot.decisions /\ pot.decisions[This] = wish[id]
    BY <2>1 DEF IInv, Heard
  <2> HIDE DEF pot
  <2> QED
    BY <2>1, <2>2, <2>3, <2>4, PutKeeps
<1>5. ASSUME NEW id \in DOMAIN pots, NEW action \in {"accept", "drop"}, SetCarry(id, action)
      PROVE IInv'
  <2> DEFINE pot == [pots[id] EXCEPT !.decisions = CleanDecisions(Put(@, This, action))]
  <2>1. today' = today /\ wish' = Put(wish, id, action)
    BY <1>5 DEF SetCarry, Edit
  <2>2. /\ DOMAIN wish' = DOMAIN wish \cup {id} /\ wish'[id] = action
        /\ \A x \in DOMAIN wish \ {id} : wish'[x] = wish[x]
    BY <2>1 DEF Put
  <2>3. CASE Decision(pots[id], This) = action
    <3>1. pots' = pots /\ stored' = stored
      BY <1>5, <2>3 DEF SetCarry, This
    <3>2. This \in DOMAIN pots[id].decisions /\ pots[id].decisions[This] = action
      BY <2>3 DEF Decision
    <3>3. Table(pots)' /\ Table(stored)' /\ Same'
      BY <2>1, <3>1 DEF IInv, Table, Same, This
    <3>4. Heard'
      BY <2>1, <2>2, <3>1, <3>2 DEF IInv, Heard, This
    <3> QED
      BY <1>0, <2>1, <3>3, <3>4 DEF IInv
  <2>4. CASE Decision(pots[id], This) # action
    <3>1. Save([pots EXCEPT ![id] = pot])
      BY <1>5, <2>4 DEF SetCarry, This, Decided
    <3>2. "decisions" \in DOMAIN pots[id]
      BY DEF IInv, Table
    <3>3. "decisions" \in DOMAIN pot
          /\ pot.decisions = CleanDecisions(Put(pots[id].decisions, This, action))
      BY <3>2
    <3>4. /\ DOMAIN Put(pots[id].decisions, This, action) \subseteq Int
          /\ \A w \in DOMAIN Put(pots[id].decisions, This, action) : w <= This
          /\ This \in DOMAIN Put(pots[id].decisions, This, action)
          /\ Put(pots[id].decisions, This, action)[This] = action
      BY <1>0 DEF IInv, Table, Put
    <3>5. /\ DOMAIN pot.decisions \subseteq Int
          /\ \A w \in DOMAIN pot.decisions : w <= This
          /\ This \in DOMAIN pot.decisions /\ pot.decisions[This] = action
      BY <1>0, <3>3, <3>4, PruningKeepsTheWeek
    <3>6. [pots EXCEPT ![id] = pot] = Put(pots, id, pot)
      <4> HIDE DEF pot
      <4> QED
        BY DEF Put, IInv, Table
    <3>7. pots' = Put(pots, id, pot) /\ stored' = pots'
      BY <3>1, <3>6 DEF Save
    <3> HIDE DEF pot
    <3>8. Table(pots)' /\ Table(stored)' /\ Same'
      BY <2>1, <3>3, <3>5, <3>7 DEF IInv, Table, Same, This, Put
    <3>9. Heard'
      BY <2>1, <2>2, <3>5, <3>7 DEF IInv, Heard, This, Put
    <3> QED
      BY <1>0, <2>1, <3>8, <3>9 DEF IInv
  <2> QED
    BY <2>3, <2>4
<1>6. ASSUME NEW id \in DOMAIN pots, DeletePot(id) PROVE IInv'
  <2>1. /\ today' = today /\ wish' = Without(wish, id)
        /\ pots' = Without(pots, id) /\ stored' = Without(pots, id)
    BY <1>6 DEF DeletePot, Edit, Save
  <2> QED
    BY <2>1 DEF Without, IInv, Table, Same, Heard, This
<1>7. ASSUME NEW readable \in BOOLEAN, Restart(readable) PROVE IInv'
  <2>1. /\ today' = today /\ stored' = stored
        /\ wish' = [id \in DOMAIN wish \cap DOMAIN pots' |-> wish[id]]
    BY <1>7 DEF Restart
  <2>2. Table(stored)' /\ This' = This
    BY <2>1 DEF IInv, Table, This
  <2>3. CASE ~readable
    <3>1. pots' = <<>>
      BY <1>7, <2>3 DEF Restart
    <3>2. wish' = <<>>
      BY <2>1, <3>1
    <3>3. Table(pots)' /\ Same' /\ Heard'
      BY <3>1, <3>2 DEF Table, Same, Heard
    <3> QED
      BY <2>1, <2>2, <3>3 DEF IInv
  <2>4. CASE readable
    <3> DEFINE Loaded(id) == [stored[id] EXCEPT !.decisions = CleanDecisions(@)]
    <3>1. pots' = [id \in DOMAIN stored |-> Loaded(id)]
      BY <1>7, <2>4 DEF Restart
    <3>2. ASSUME NEW id \in DOMAIN stored
          PROVE  /\ "decisions" \in DOMAIN Loaded(id)
                 /\ Loaded(id).decisions = CleanDecisions(stored[id].decisions)
      BY DEF IInv, Table
    <3> HIDE DEF Loaded
    <3>3. ASSUME NEW id \in DOMAIN stored
          PROVE  /\ DOMAIN Loaded(id).decisions \subseteq DOMAIN stored[id].decisions
                 /\ This \in DOMAIN stored[id].decisions =>
                      /\ This \in DOMAIN Loaded(id).decisions
                      /\ Loaded(id).decisions[This] = stored[id].decisions[This]
      BY <1>0, <3>2, PruningKeepsTheWeek DEF IInv, Table
    <3>4. DOMAIN pots' = DOMAIN stored /\ \A id \in DOMAIN stored : pots'[id] = Loaded(id)
      BY <3>1
    <3>5. Table(pots)'
      BY <2>2, <3>1, <3>2, <3>3, <3>4 DEF IInv, Table
    <3>6. Same'
      BY <2>1, <2>2, <3>3, <3>4 DEF Same
    <3>7. Heard'
      <4>1. ASSUME NEW id \in DOMAIN wish'
            PROVE  /\ id \in DOMAIN pots' /\ This \in DOMAIN pots'[id].decisions
                   /\ pots'[id].decisions[This] = wish'[id]
        <5>1. id \in DOMAIN wish /\ id \in DOMAIN pots' /\ wish'[id] = wish[id]
          BY <2>1
        <5>2. /\ id \in DOMAIN pots /\ This \in DOMAIN pots[id].decisions
              /\ pots[id].decisions[This] = wish[id]
          BY <5>1 DEF IInv, Heard
        <5>3. /\ id \in DOMAIN stored /\ This \in DOMAIN stored[id].decisions
              /\ stored[id].decisions[This] = wish[id]
          BY <5>2 DEF IInv, Same
        <5> QED
          BY <3>3, <3>4, <5>1, <5>3
      <4> QED
        BY <2>2, <4>1 DEF Heard
    <3> QED
      BY <1>0, <2>1, <2>2, <3>5, <3>6, <3>7 DEF IInv
  <2> QED
    BY <2>3, <2>4
<1>8. CASE UNCHANGED vars
  BY <1>8 DEF vars, IInv, Table, Same, Heard, This
<1> QED
  BY <1>1, <1>2, <1>3, <1>4, <1>5, <1>6, <1>7, <1>8 DEF Next

-----------------------------------------------------------------------------
\* What the user last said of this week's carry is what counts, through edits of the
\* pot, pruning and restarts (pots.py set_decision, api/home.py PotCarryView).
THEOREM CarryIsHeard == Spec => []CarryWishKept
  BY InitWish, StepWish, InvIsWish, PTL DEF Spec

-----------------------------------------------------------------------------
(* Induction over the natural numbers, for sets of numbers; finite sets *)

LT == {pair \in Nat \X Nat : pair[1] < pair[2]}

LEMMA Smallest ==
  ASSUME NEW T \in SUBSET Nat, T # {}
  PROVE  \E n \in T : \A m \in T : n <= m
<1>1. IsWellFoundedOn(LT, Nat)
  BY NatLessThanWellFounded DEF OpToRel, LT
<1>2. PICK x \in T : \A y \in T : ~(<<y, x>> \in LT)
  BY <1>1, WFMin
<1>3. \A y \in T : ~(y < x)
  BY <1>2 DEF LT
<1> QED
  BY <1>3

LEMMA SetInduction ==
  ASSUME NEW G, 0 \in G, \A k \in Nat : k \in G => k + 1 \in G
  PROVE  \A n \in Nat : n \in G
<1> SUFFICES ASSUME Nat \ G # {} PROVE FALSE
  OBVIOUS
<1>1. PICK n \in Nat \ G : \A m \in Nat \ G : n <= m
  BY Smallest
<1>2. n # 0 /\ n - 1 \in Nat /\ ~(n <= n - 1)
  BY <1>1
<1>3. n - 1 \in G
  BY <1>1, <1>2
<1> QED
  BY <1>1, <1>2, <1>3

\* A finite set of numbers has a greatest and a smallest one.
LEMMA Extremes ==
  ASSUME NEW S \in SUBSET Int, IsFiniteSet(S), S # {}
  PROVE  /\ Max(S) \in S /\ \A y \in S : Max(S) >= y
         /\ Min(S) \in S /\ \A y \in S : Min(S) <= y
<1>1. PICK n \in Nat : ExistsSurjection(1 .. n, S)
  BY FS_NatSurjection
<1>2. PICK f \in [1 .. n -> S] : \A y \in S : \E i \in 1 .. n : f[i] = y
  BY <1>1 DEF ExistsSurjection, Surjection
<1>3. n # 0 /\ \A i \in 1 .. n : f[i] \in S /\ f[i] \in Int
  <2>1. PICK i \in 1 .. n : f[i] \in S
    BY <1>2
  <2>2. n # 0
    BY <2>1
  <2> QED
    BY <1>2, <2>2
<1> DEFINE Above(k) == \E x \in S : \A i \in 1 .. k : x >= f[i]
           Below(k) == \E x \in S : \A i \in 1 .. k : x <= f[i]
           G == {k \in Nat : k <= n => Above(k) /\ Below(k)}
<1>4. 0 \in G
  <2>1. 1 .. 0 = {}
    OBVIOUS
  <2>2. Above(0) /\ Below(0)
    BY <2>1
  <2> HIDE DEF Above, Below
  <2> QED
    BY <2>2
<1>5. ASSUME NEW k \in Nat, k \in G PROVE k + 1 \in G
  <2> HIDE DEF Above, Below
  <2> SUFFICES ASSUME k + 1 <= n PROVE Above(k + 1) /\ Below(k + 1)
    OBVIOUS
  <2>1. Above(k) /\ Below(k)
    BY <1>5
  <2>2. PICK x \in S : \A i \in 1 .. k : x >= f[i]
    BY <2>1 DEF Above
  <2>3. PICK z \in S : \A i \in 1 .. k : z <= f[i]
    BY <2>1 DEF Below
  <2>4. \A i \in 1 .. k : x >= f[i] /\ z <= f[i]
    BY <2>2, <2>3
  <2>5. f[k + 1] \in S /\ x \in Int /\ z \in Int /\ f[k + 1] \in Int
    BY <1>3
  <2>6. \A i \in 1 .. k + 1 : i \in 1 .. k \/ i = k + 1
    OBVIOUS
  <2>7. \E v \in S : \A i \in 1 .. k + 1 : v >= f[i]
    <3>1. CASE x >= f[k + 1]
      BY <2>4, <2>5, <2>6, <3>1
    <3>2. CASE f[k + 1] > x
      <4>1. \A i \in 1 .. k + 1 : f[k + 1] >= f[i]
        BY <1>3, <2>4, <2>5, <2>6, <3>2
      <4> QED
        BY <2>5, <4>1
    <3> QED
      BY <2>5, <3>1, <3>2
  <2>8. \E v \in S : \A i \in 1 .. k + 1 : v <= f[i]
    <3>1. CASE z <= f[k + 1]
      BY <2>4, <2>5, <2>6, <3>1
    <3>2. CASE f[k + 1] < z
      <4>1. \A i \in 1 .. k + 1 : f[k + 1] <= f[i]
        BY <1>3, <2>4, <2>5, <2>6, <3>2
      <4> QED
        BY <2>5, <4>1
    <3> QED
      BY <2>5, <3>1, <3>2
  <2> QED
    BY <2>7, <2>8 DEF Above, Below
<1> HIDE DEF G, Above, Below
<1>6. n \in G
  BY <1>4, <1>5, SetInduction
<1>7. Above(n) /\ Below(n)
  BY <1>6 DEF G
<1>8. PICK x \in S : \A i \in 1 .. n : x >= f[i]
  BY <1>7 DEF Above
<1>9. PICK z \in S : \A i \in 1 .. n : z <= f[i]
  BY <1>7 DEF Below
<1>10. \A i \in 1 .. n : x >= f[i] /\ z <= f[i]
  BY <1>8, <1>9
<1>11. (\A y \in S : x >= y) /\ (\A y \in S : z <= y)
  BY <1>2, <1>10
<1> QED
  BY <1>11 DEF Max, Min

\* A function takes finitely many values on a finite set.
LEMMA ImageIsFinite ==
  ASSUME NEW f, IsFiniteSet(DOMAIN f), f \in [DOMAIN f -> Range(f)]
  PROVE  IsFiniteSet(Range(f))
<1>1. f \in Surjection(DOMAIN f, Range(f))
  BY DEF Surjection, Range
<1> QED
  BY <1>1, FS_Surjection

LEMMA Appended ==
  ASSUME NEW T, NEW s \in Seq(T), NEW w \in T
  PROVE  /\ Append(s, w) \in Seq(T) /\ Len(Append(s, w)) = Len(s) + 1
         /\ Append(s, w)[Len(s) + 1] = w /\ \A i \in 1 .. Len(s) : Append(s, w)[i] = s[i]
         /\ Len(s) \in Nat /\ DOMAIN Append(s, w) = 1 .. Len(s) + 1
  OBVIOUS

-----------------------------------------------------------------------------
(* The starts of cycles *)

\* Starts that ascend, of days up to t.  Two may fall on one day: a household's.
AreStarts(s, t) ==
  /\ s \in Seq(Nat) /\ \A i \in 1 .. Len(s) : s[i] \in 1 .. t
  /\ \A i, j \in 1 .. Len(s) : i <= j => s[i] <= s[j]

\* Incomes of days up to t.
AreIncomes(incomes, t) ==
  IsFiniteSet(incomes) /\ \A i \in incomes : i.day \in 1 .. t /\ i.amount \in Nat \ {0}

\* What a day adds to the starts before it.
Begun(starts, days, d) ==
  IF d \in days /\ (starts = <<>> \/ d - Last(starts) > SalaryTolerance)
  THEN Append(starts, d) ELSE starts

\* The starts after each day.
Stages(f, days, n) ==
  /\ f[0] = <<>>
  /\ \A k \in Nat : k + 1 <= n => f[k + 1] = Begun(f[k], days, k + 1)

LEMMA StartsInStages ==
  ASSUME NEW incomes, Max(SalaryDays(incomes)) \in Nat
  PROVE  \E f : /\ Stages(f, SalaryDays(incomes), Max(SalaryDays(incomes)))
                /\ SalaryStarts(incomes) = f[Max(SalaryDays(incomes))]
<1> DEFINE days == SalaryDays(incomes)
           n == Max(days)
           body(f, d) == IF d = 0 THEN <<>>
                         ELSE IF d \in days
                                   /\ (f[d - 1] = <<>> \/ d - Last(f[d - 1]) > SalaryTolerance)
                              THEN Append(f[d - 1], d) ELSE f[d - 1]
           Graph(f, k) == f = [d \in 0 .. k |-> body(f, d)]
           upTo == CHOOSE f : Graph(f, n)
<1>1. n \in Nat
  OBVIOUS
<1>2. SalaryStarts(incomes) = upTo[n]
  BY DEF SalaryStarts
<1>3. \A f, g, i : i # 0 /\ f[i - 1] = g[i - 1] => body(f, i) = body(g, i)
  OBVIOUS
<1>4. \A f, g : body(f, 0) = body(g, 0)
  OBVIOUS
<1>5. \A f : body(f, 0) = <<>>
  OBVIOUS
<1>6. \A f : \A k \in Nat : body(f, k + 1) = Begun(f[k], days, k + 1)
  <2> SUFFICES ASSUME NEW f, NEW k \in Nat
               PROVE  body(f, k + 1) = Begun(f[k], days, k + 1)
    OBVIOUS
  <2>1. k + 1 # 0 /\ (k + 1) - 1 = k
    OBVIOUS
  <2> HIDE DEF days
  <2> QED
    BY <2>1 DEF Begun
<1> HIDE DEF body, upTo, n, days
<1> DEFINE Made == {k \in Nat : \E f : Graph(f, k)}
<1>7. \A k \in Nat : k \in Made
  <2>1. 0 \in Made
    <3> DEFINE g == [i \in 0 .. 0 |-> <<>>]
    <3>1. \A i \in 0 .. 0 : body(g, i) = <<>>
      BY <1>5
    <3>2. Graph(g, 0)
      BY <3>1
    <3> QED
      BY <3>2
  <2>2. ASSUME NEW k \in Nat, k \in Made PROVE k + 1 \in Made
    <3>1. PICK f : Graph(f, k)
      BY <2>2
    <3> DEFINE g == [i \in 0 .. k + 1 |-> IF i = k + 1 THEN body(f, i) ELSE f[i]]
    <3>2. ASSUME NEW i \in 0 .. k + 1 PROVE g[i] = body(g, i)
      <4>1. CASE i = k + 1
        <5>1. g[i] = body(f, i) /\ g[i - 1] = f[i - 1] /\ i # 0
          BY <4>1
        <5> HIDE DEF g
        <5> QED
          BY <1>3, <5>1
      <4>2. CASE i # k + 1
        <5>1. i \in 0 .. k /\ g[i] = f[i]
          BY <4>2
        <5>2. f[i] = body(f, i)
          BY <3>1, <5>1
        <5>3. i # 0 => g[i - 1] = f[i - 1]
          BY <5>1
        <5> HIDE DEF g
        <5> QED
          BY <1>3, <1>4, <5>1, <5>2, <5>3
      <4> QED
        BY <4>1, <4>2
    <3>3. g = [i \in 0 .. k + 1 |-> g[i]]
      OBVIOUS
    <3> HIDE DEF g
    <3>4. Graph(g, k + 1)
      BY <3>2, <3>3
    <3> QED
      BY <3>4
  <2> HIDE DEF Made
  <2> QED
    BY <2>1, <2>2, SetInduction
<1>8. Graph(upTo, n)
  BY <1>1, <1>7 DEF upTo
<1>9. \A i \in 0 .. n : upTo[i] = body(upTo, i)
  BY <1>8
<1>10. Stages(upTo, days, n)
  BY <1>1, <1>5, <1>6, <1>9 DEF Stages
<1> QED
  BY <1>2, <1>10 DEF days, n

\* One more start, after all others.
LEMMA OneMoreStart ==
  ASSUME NEW k \in Nat, NEW s, AreStarts(s, k)
  PROVE  AreStarts(s, k + 1) /\ AreStarts(Append(s, k + 1), k + 1) /\ Append(s, k + 1) # <<>>
<1> DEFINE more == Append(s, k + 1)
           n == Len(s)
<1>1. s \in Seq(Nat) /\ k + 1 \in Nat
  BY DEF AreStarts
<1>2. /\ more \in Seq(Nat) /\ Len(more) = n + 1 /\ n \in Nat
      /\ more[n + 1] = k + 1 /\ \A i \in 1 .. n : more[i] = s[i]
  BY <1>1, Appended
<1>3. \A i \in 1 .. n : s[i] \in Nat /\ 1 <= s[i] /\ s[i] <= k
  BY DEF AreStarts
<1>4. \A i, j \in 1 .. n : i <= j => s[i] <= s[j]
  BY DEF AreStarts
<1> HIDE DEF more, n
<1>5. \A i \in 1 .. n + 1 : i \in 1 .. n \/ i = n + 1
  BY <1>2
<1>6. \A i \in 1 .. n + 1 : more[i] \in Nat /\ 1 <= more[i] /\ more[i] <= k + 1
  BY <1>2, <1>3, <1>5
<1>7. ASSUME NEW i \in 1 .. n + 1, NEW j \in 1 .. n + 1, i <= j PROVE more[i] <= more[j]
  <2>1. CASE j = n + 1
    BY <1>2, <1>6, <2>1
  <2>2. CASE j # n + 1
    <3>1. i \in 1 .. n /\ j \in 1 .. n
      BY <1>2, <1>7, <2>2
    <3> QED
      BY <1>2, <1>4, <1>7, <3>1
  <2> QED
    BY <2>1, <2>2
<1>8. AreStarts(more, k + 1)
  BY <1>2, <1>6, <1>7 DEF AreStarts
<1>9. AreStarts(s, k + 1)
  BY <1>1, <1>3, <1>4 DEF AreStarts, n
<1>10. more # <<>>
  BY <1>2
<1> QED
  BY <1>8, <1>9, <1>10 DEF more

LEMMA DaysAreFinite ==
  ASSUME NEW S, IsFiniteSet(S)
  PROVE  IsFiniteSet({x.day : x \in S})
<1> DEFINE f == [x \in S |-> x.day]
           T == {x.day : x \in S}
<1>1. DOMAIN f = S /\ Range(f) = T /\ f \in [S -> T]
  BY DEF Range
<1> HIDE DEF f, T
<1>2. IsFiniteSet(Range(f))
  BY <1>1, ImageIsFinite
<1> QED
  BY <1>1, <1>2 DEF T

\* The highest income is one of the incomes.
LEMMA TopIsAnIncome ==
  ASSUME NEW incomes, IsFiniteSet(incomes), incomes # {}, \A i \in incomes : i.amount \in Int
  PROVE  \E i \in incomes : TopIncome(incomes) = i.amount
<1> DEFINE f == [x \in incomes |-> x.amount]
           T == {x.amount : x \in incomes}
<1>1. DOMAIN f = incomes /\ Range(f) = T /\ f \in [incomes -> T]
  BY DEF Range
<1>2. T \in SUBSET Int /\ T # {}
  OBVIOUS
<1>3. TopIncome(incomes) = Max(T)
  BY DEF TopIncome
<1> HIDE DEF f
<1>4. Max(T) \in T
  <2> HIDE DEF T
  <2>1. IsFiniteSet(Range(f))
    BY <1>1, ImageIsFinite
  <2> QED
    BY <1>1, <1>2, <2>1, Extremes
<1> QED
  BY <1>3, <1>4

\* A person with an income has starts, on days with an income.
LEMMA StartsOfOne ==
  ASSUME NEW t \in Nat, NEW incomes, AreIncomes(incomes, t), incomes # {}
  PROVE  AreStarts(SalaryStarts(incomes), t) /\ SalaryStarts(incomes) # <<>>
<1> DEFINE days == SalaryDays(incomes)
           n == Max(days)
           salaries == {j \in incomes : 10 * j.amount >= 8 * TopIncome(incomes)}
<1>1. PICK i \in incomes : TopIncome(incomes) = i.amount
  BY TopIsAnIncome DEF AreIncomes
<1>2. i \in salaries
  BY <1>1 DEF AreIncomes
<1>3. days = {x.day : x \in salaries}
  BY DEF SalaryDays
<1>4. IsFiniteSet(salaries) /\ salaries \subseteq incomes
  BY FS_Subset DEF AreIncomes
<1>5. days # {} /\ days \in SUBSET (1 .. t)
  BY <1>2, <1>3, <1>4 DEF AreIncomes
<1> HIDE DEF salaries
<1>6. IsFiniteSet(days)
  BY <1>3, <1>4, DaysAreFinite
<1> HIDE DEF days
<1>7. n \in days
  BY <1>5, <1>6, Extremes
<1>8. n \in Nat /\ n \in 1 .. n /\ n <= t
  <2> HIDE DEF n
  <2>1. n \in 1 .. t
    BY <1>5, <1>7
  <2> QED
    BY <2>1
<1>9. PICK f : Stages(f, days, n) /\ SalaryStarts(incomes) = f[n]
  BY <1>8, StartsInStages DEF days
<1> HIDE DEF n
<1> DEFINE G == {k \in Nat : k <= n =>
                   AreStarts(f[k], k) /\ (f[k] = <<>> => \A d \in 1 .. k : d \notin days)}
<1>10. 0 \in G
  <2>1. f[0] = <<>>
    BY <1>9 DEF Stages
  <2>2. AreStarts(<<>>, 0)
    BY DEF AreStarts
  <2> QED
    BY <2>1, <2>2
<1>11. ASSUME NEW k \in Nat, k \in G PROVE k + 1 \in G
  <2> SUFFICES ASSUME k + 1 <= n
               PROVE  /\ AreStarts(f[k + 1], k + 1)
                      /\ f[k + 1] = <<>> => \A d \in 1 .. k + 1 : d \notin days
    OBVIOUS
  <2>1. AreStarts(f[k], k) /\ (f[k] = <<>> => \A d \in 1 .. k : d \notin days)
    BY <1>8, <1>11
  <2>2. f[k + 1] = Begun(f[k], days, k + 1)
    BY <1>9 DEF Stages
  <2>3. AreStarts(f[k], k + 1) /\ AreStarts(Append(f[k], k + 1), k + 1)
        /\ Append(f[k], k + 1) # <<>>
    BY <2>1, OneMoreStart
  <2>4. CASE f[k + 1] = Append(f[k], k + 1)
    BY <2>3, <2>4
  <2>5. CASE f[k + 1] = f[k] /\ (f[k] = <<>> => k + 1 \notin days)
    <3>1. \A d \in 1 .. k + 1 : d \in 1 .. k \/ d = k + 1
      OBVIOUS
    <3> QED
      BY <2>1, <2>3, <2>5, <3>1
  <2> QED
    BY <2>2, <2>4, <2>5 DEF Begun
<1> HIDE DEF G
<1>12. n \in G
  BY <1>8, <1>10, <1>11, SetInduction
<1>13. AreStarts(f[n], n) /\ f[n] # <<>>
  BY <1>7, <1>8, <1>12 DEF G
<1>14. AreStarts(f[n], t)
  BY <1>8, <1>13 DEF AreStarts
<1> QED
  BY <1>9, <1>13, <1>14

-----------------------------------------------------------------------------
(* The household's starts *)

\* What the incomes of all persons are.
AreAllIncomes(incomesOf, t) ==
  /\ IsFiniteSet({p \in DOMAIN incomesOf : incomesOf[p] # {}})
  /\ \A p \in DOMAIN incomesOf : AreIncomes(incomesOf[p], t)

\* Somebody earns most.
LEMMA SomebodyEarnsMost ==
  ASSUME NEW t \in Nat, NEW incomesOf, AreAllIncomes(incomesOf, t),
         NEW earners, earners = {p \in DOMAIN incomesOf : incomesOf[p] # {}}, earners # {}
  PROVE  \E p \in earners : \A q \in earners : TopIncome(incomesOf[q]) <= TopIncome(incomesOf[p])
<1> DEFINE f == [p \in earners |-> TopIncome(incomesOf[p])]
           T == Range(f)
<1>1. ASSUME NEW p \in earners PROVE f[p] \in Int
  <2>1. AreIncomes(incomesOf[p], t) /\ incomesOf[p] # {}
    BY DEF AreAllIncomes
  <2>2. PICK i \in incomesOf[p] : TopIncome(incomesOf[p]) = i.amount
    BY <2>1, TopIsAnIncome DEF AreIncomes
  <2> QED
    BY <2>1, <2>2 DEF AreIncomes
<1>2. DOMAIN f = earners /\ f \in [earners -> T] /\ IsFiniteSet(earners)
  BY DEF Range, AreAllIncomes
<1>3. \A p \in earners : f[p] = TopIncome(incomesOf[p])
  OBVIOUS
<1> HIDE DEF f
<1>4. T \in SUBSET Int /\ T # {} /\ \A x \in T : \E p \in earners : x = f[p]
  BY <1>1, <1>2 DEF Range
<1>5. IsFiniteSet(T)
  BY <1>2, ImageIsFinite
<1>6. \A p \in earners : f[p] \in T
  BY <1>2 DEF Range
<1> HIDE DEF T
<1>7. Max(T) \in T /\ \A y \in T : Max(T) >= y
  BY <1>4, <1>5, Extremes
<1>8. PICK p \in earners : Max(T) = f[p]
  BY <1>4, <1>7
<1>9. ASSUME NEW q \in earners PROVE f[q] <= f[p]
  <2>1. f[p] >= f[q] /\ f[p] \in Int /\ f[q] \in Int
    BY <1>1, <1>6, <1>7, <1>8
  <2> QED
    BY <2>1
<1> QED
  BY <1>3, <1>9

\* A start and the salaries shortly before it.
Near(a, others) == {a} \cup {d \in others : a - d \in 1 .. AnchorWindow}

\* The least of them is one of them.
LEMMA MovedForward ==
  ASSUME NEW t \in Nat, NEW a \in 1 .. t, NEW others \in SUBSET (1 .. t)
  PROVE  /\ Min(Near(a, others)) \in Near(a, others)
         /\ \A d \in Near(a, others) : Min(Near(a, others)) <= d
         /\ Near(a, others) \in SUBSET (1 .. t)
<1>1. Near(a, others) \in SUBSET (1 .. t) /\ Near(a, others) # {}
  BY DEF Near
<1>2. IsFiniteSet(1 .. t)
  BY FS_Interval
<1>3. IsFiniteSet(Near(a, others))
  BY <1>1, <1>2, FS_Subset
<1>4. Near(a, others) \in SUBSET Int
  BY <1>1
<1> QED
  BY <1>1, <1>3, <1>4, Extremes

\* Moving starts forward by up to the window leaves them in order: what is near a
\* later start and before the earlier one is near the earlier one, too.
LEMMA MovedInOrder ==
  ASSUME NEW t \in Nat, NEW a \in 1 .. t, NEW b \in 1 .. t, a <= b,
         NEW others \in SUBSET (1 .. t)
  PROVE  Min(Near(a, others)) <= Min(Near(b, others))
<1> DEFINE x == Min(Near(a, others))
           y == Min(Near(b, others))
<1>1. x \in Near(a, others) /\ Near(a, others) \in SUBSET (1 .. t)
  BY MovedForward
<1>2. \A d \in Near(a, others) : x <= d
  BY MovedForward
<1>3. y \in Near(b, others) /\ Near(b, others) \in SUBSET (1 .. t)
  BY MovedForward
<1> HIDE DEF x, y
<1>4. x \in Nat /\ y \in Nat /\ x <= a
  BY <1>1, <1>2, <1>3 DEF Near
<1>5. x <= y
  <2> SUFFICES ASSUME y < x PROVE FALSE
    BY <1>4
  <2>1. y < a /\ y # b
    BY <1>4
  <2>2. y \in others /\ b - y \in 1 .. AnchorWindow
    BY <1>3, <2>1 DEF Near
  <2>3. a - y \in 1 .. AnchorWindow
    BY <1>4, <2>1, <2>2, CyclesAssumption
  <2>4. x <= y
    BY <1>2, <2>2, <2>3 DEF Near
  <2> QED
    BY <1>4, <2>4
<1> QED
  BY <1>5 DEF x, y

LEMMA StartsOfHousehold ==
  ASSUME NEW t \in Nat, NEW incomesOf, AreAllIncomes(incomesOf, t)
  PROVE  AreStarts(HouseholdStarts(incomesOf), t)
<1> DEFINE earners == {p \in DOMAIN incomesOf : incomesOf[p] # {}}
           Top(p) == TopIncome(incomesOf[p])
           main == CHOOSE p \in earners : \A q \in earners : Top(q) <= Top(p)
           others == UNION {Range(SalaryStarts(incomesOf[q])) : q \in earners \ {main}}
           anchors == SalaryStarts(incomesOf[main])
           starts == [k \in DOMAIN anchors |-> Min(Near(anchors[k], others))]
<1>1. CASE earners = {}
  <2>1. HouseholdStarts(incomesOf) = <<>>
    BY <1>1 DEF HouseholdStarts
  <2> QED
    BY <2>1 DEF AreStarts
<1>2. CASE earners # {}
  <2>1. HouseholdStarts(incomesOf) = starts
    BY <1>2 DEF HouseholdStarts, Near
  <2>2. main \in earners
    <3>1. \E p \in earners : \A q \in earners : Top(q) <= Top(p)
      BY <1>2, SomebodyEarnsMost
    <3> HIDE DEF Top, earners
    <3> QED
      BY <3>1
  <2>3. ASSUME NEW q \in earners PROVE AreStarts(SalaryStarts(incomesOf[q]), t)
    BY StartsOfOne DEF AreAllIncomes
  <2>4. AreStarts(anchors, t)
    <3> HIDE DEF main, earners
    <3> QED
      BY <2>2, <2>3
  <2>5. others \in SUBSET (1 .. t)
    <3> SUFFICES ASSUME NEW q \in earners, NEW d \in Range(SalaryStarts(incomesOf[q]))
                 PROVE  d \in 1 .. t
      OBVIOUS
    <3>1. AreStarts(SalaryStarts(incomesOf[q]), t)
      BY <2>3
    <3> QED
      BY <3>1 DEF AreStarts, Range
  <2> HIDE DEF anchors, others
  <2>6. /\ anchors \in Seq(Nat) /\ DOMAIN anchors = 1 .. Len(anchors) /\ Len(anchors) \in Nat
        /\ \A k \in 1 .. Len(anchors) : anchors[k] \in 1 .. t
        /\ \A j, k \in 1 .. Len(anchors) : j <= k => anchors[j] <= anchors[k]
    BY <2>4 DEF AreStarts
  <2>7. ASSUME NEW k \in 1 .. Len(anchors) PROVE Min(Near(anchors[k], others)) \in 1 .. t
    <3>1. anchors[k] \in 1 .. t
      BY <2>6
    <3>2. /\ Min(Near(anchors[k], others)) \in Near(anchors[k], others)
          /\ Near(anchors[k], others) \in SUBSET (1 .. t)
      BY <2>5, <3>1, MovedForward
    <3> QED
      BY <3>2
  <2>8. ASSUME NEW j \in 1 .. Len(anchors), NEW k \in 1 .. Len(anchors), j <= k
        PROVE  Min(Near(anchors[j], others)) <= Min(Near(anchors[k], others))
    <3>1. anchors[j] \in 1 .. t /\ anchors[k] \in 1 .. t /\ anchors[j] <= anchors[k]
      BY <2>6, <2>8
    <3> QED
      BY <2>5, <3>1, MovedInOrder
  <2>9. \A k \in 1 .. Len(anchors) : starts[k] = Min(Near(anchors[k], others))
    BY <2>6
  <2>10. starts \in Seq(Nat) /\ Len(starts) = Len(anchors)
    BY <2>6, <2>7
  <2> HIDE DEF starts
  <2>11. AreStarts(starts, t)
    BY <2>7, <2>8, <2>9, <2>10 DEF AreStarts
  <2> QED
    BY <2>1, <2>11
<1> QED
  BY <1>1, <1>2

-----------------------------------------------------------------------------
(* The bookings, and the starts of a view *)

Booked ==
  /\ today \in Nat \ {0}
  /\ IsFiniteSet(bookings)
  /\ \A b \in bookings : b.day \in Nat \ {0} /\ b.amount \in Int

LEMMA InitBooked == Init => Booked
  BY FS_EmptySet DEF Init, Booked

LEMMA StepBooked == Booked /\ [Next]_vars => Booked'
<1> SUFFICES ASSUME Booked, [Next]_vars PROVE Booked'
  OBVIOUS
<1>1. CASE today' = today /\ bookings' = bookings
  BY <1>1 DEF Booked
<1>2. CASE NewDay
  <2>1. today' = today + 1 /\ bookings' = bookings
    BY <1>2 DEF NewDay
  <2> QED
    BY <2>1 DEF Booked
<1>3. ASSUME NEW b \in Bookable, Book(b) PROVE Booked'
  <2> DEFINE New(n) == [owner |-> b.owner, category |-> b.category, amount |-> b.amount,
                        day |-> today + b.ahead, number |-> n]
             n == Min({m \in 1..MaxBookings : New(m) \notin bookings})
             c == New(n)
  <2>1. today' = today /\ bookings' = bookings \cup {c}
    BY <1>3 DEF Book
  <2>2. c.day \in Nat \ {0} /\ c.amount \in Int
    BY PotsAssumption DEF Booked
  <2> HIDE DEF c
  <2>3. IsFiniteSet(bookings \cup {c})
    BY FS_AddElement DEF Booked
  <2>4. \A x \in bookings \cup {c} : x.day \in Nat \ {0} /\ x.amount \in Int
    BY <2>2 DEF Booked
  <2> QED
    BY <2>1, <2>3, <2>4 DEF Booked
<1>4. ASSUME NEW d \in Drafts, CreatePot(d) PROVE today' = today /\ bookings' = bookings
  BY <1>4 DEF CreatePot, Edit
<1>5. ASSUME NEW id \in DOMAIN pots, NEW d \in Drafts, ReplacePot(id, d)
      PROVE  today' = today /\ bookings' = bookings
  BY <1>5 DEF ReplacePot, Edit
<1>6. ASSUME NEW id \in DOMAIN pots, NEW action \in {"accept", "drop"}, SetCarry(id, action)
      PROVE  today' = today /\ bookings' = bookings
  BY <1>6 DEF SetCarry, Edit
<1>7. ASSUME NEW id \in DOMAIN pots, DeletePot(id) PROVE today' = today /\ bookings' = bookings
  BY <1>7 DEF DeletePot, Edit
<1>8. ASSUME NEW readable \in BOOLEAN, Restart(readable)
      PROVE  today' = today /\ bookings' = bookings
  BY <1>8 DEF Restart
<1>9. CASE UNCHANGED vars
  BY <1>1, <1>9 DEF vars
<1> QED
  BY <1>1, <1>2, <1>3, <1>4, <1>5, <1>6, <1>7, <1>8, <1>9 DEF Next

\* Bookings may be dated ahead, but there is a last day they are of.
Until(h) == h \in Nat /\ h >= today /\ \A b \in bookings : b.day \in 1 .. h

LEMMA SomeHorizon ==
  ASSUME Booked
  PROVE  \E h : Until(h)
<1> DEFINE f == [b \in bookings |-> b.day]
           D == Range(f) \cup {today}
<1>1. DOMAIN f = bookings /\ f \in [bookings -> Range(f)]
  BY DEF Range
<1>2. Range(f) \in SUBSET (Nat \ {0}) /\ \A b \in bookings : b.day \in Range(f)
  BY DEF Range, Booked
<1> HIDE DEF f
<1>3. IsFiniteSet(Range(f))
  BY <1>1, ImageIsFinite DEF Booked
<1>4. IsFiniteSet(D)
  BY <1>3, FS_AddElement
<1>5. D \in SUBSET Int /\ today \in D /\ D \in SUBSET (Nat \ {0})
  BY <1>2 DEF Booked
<1>6. \A b \in bookings : b.day \in D
  BY <1>2
<1> HIDE DEF D
<1>7. Max(D) \in D /\ \A y \in D : Max(D) >= y
  BY <1>4, <1>5, Extremes
<1>8. PICK h \in D : Max(D) = h
  BY <1>7
<1>9. h \in Nat /\ h >= today /\ \A b \in bookings : b.day \in Nat \ {0} /\ b.day <= h
  BY <1>5, <1>6, <1>7, <1>8
<1>10. Until(h)
  BY <1>9 DEF Until
<1> QED
  BY <1>10

\* A person's incomes, of the days until the last one.
LEMMA IncomesOfOne ==
  ASSUME Booked, NEW h, Until(h), NEW p
  PROVE  AreIncomes(Incomes(p), h)
<1> DEFINE S == {c \in bookings : c.amount > 0 /\ c.category # "transfers" /\ c.owner = p}
           f == [b \in S |-> [day |-> b.day, amount |-> b.amount]]
<1>1. Incomes(p) = {[day |-> b.day, amount |-> b.amount] : b \in S}
  BY DEF Incomes
<1>2. DOMAIN f = S /\ Range(f) = Incomes(p) /\ f \in [S -> Incomes(p)]
  BY <1>1 DEF Range
<1>3. IsFiniteSet(S)
  BY FS_Subset DEF Booked
<1> HIDE DEF f
<1>4. IsFiniteSet(Incomes(p))
  BY <1>2, <1>3, ImageIsFinite
<1>5. ASSUME NEW i \in Incomes(p) PROVE i.day \in 1 .. h /\ i.amount \in Nat \ {0}
  <2>1. PICK b \in S : i = [day |-> b.day, amount |-> b.amount]
    BY <1>1
  <2>2. b.day \in 1 .. h /\ b.amount \in Int /\ b.amount > 0
    BY DEF Booked, Until
  <2> QED
    BY <2>1, <2>2
<1> QED
  BY <1>4, <1>5 DEF AreIncomes

LEMMA StartsOfView ==
  ASSUME Booked, NEW h, Until(h), NEW view \in People \cup {Shared}
  PROVE  AreStarts(StartsOf(view), h)
<1>1. h \in Nat
  BY DEF Until
<1>2. CASE view \in People /\ Incomes(view) = {}
  BY <1>2 DEF StartsOf, AreStarts
<1>3. CASE view \in People /\ Incomes(view) # {}
  <2>1. StartsOf(view) = SalaryStarts(Incomes(view))
    BY <1>3 DEF StartsOf
  <2> QED
    BY <1>1, <1>3, <2>1, IncomesOfOne, StartsOfOne
<1>4. CASE view \notin People
  <2> DEFINE incomesOf == [p \in People |-> Incomes(p)]
             earners == {p \in People : Incomes(p) # {}}
             f == [b \in bookings |-> b.owner]
  <2>1. StartsOf(view) = HouseholdStarts(incomesOf)
    BY <1>4 DEF StartsOf
  <2>2. DOMAIN f = bookings /\ f \in [bookings -> Range(f)]
    BY DEF Range
  <2>3. earners \subseteq Range(f)
    BY DEF Incomes, Range
  <2> HIDE DEF f
  <2>4. IsFiniteSet(Range(f))
    BY <2>2, ImageIsFinite DEF Booked
  <2>5. IsFiniteSet(earners)
    BY <2>3, <2>4, FS_Subset
  <2>6. {p \in DOMAIN incomesOf : incomesOf[p] # {}} = earners
    OBVIOUS
  <2>7. \A p \in DOMAIN incomesOf : AreIncomes(incomesOf[p], h)
    BY IncomesOfOne
  <2>8. AreAllIncomes(incomesOf, h)
    BY <2>5, <2>6, <2>7 DEF AreAllIncomes
  <2> HIDE DEF incomesOf
  <2> QED
    BY <1>1, <2>1, <2>8, StartsOfHousehold
<1> QED
  BY <1>2, <1>3, <1>4

-----------------------------------------------------------------------------
(* The cycle of today *)

LEMMA GreaterOfTwo ==
  ASSUME NEW a \in Int, NEW b \in Int
  PROVE  Max({a, b}) \in Int /\ Max({a, b}) \in {a, b} /\ Max({a, b}) >= a /\ Max({a, b}) >= b
<1>1. IsFiniteSet({a, b})
  <2>1. IsFiniteSet({a} \cup {b})
    BY FS_Singleton, FS_AddElement
  <2>2. {a} \cup {b} = {a, b}
    OBVIOUS
  <2> QED
    BY <2>1, <2>2
<1>2. {a, b} \in SUBSET Int /\ {a, b} # {}
  OBVIOUS
<1>3. Max({a, b}) \in {a, b} /\ \A y \in {a, b} : Max({a, b}) >= y
  BY <1>1, <1>2, Extremes
<1> QED
  BY <1>3

\* When no cycle starts ahead, the starts are of the days until today.
LEMMA StartsUntilToday ==
  ASSUME Booked, NEW view \in People \cup {Shared}, NoneAhead(view)
  PROVE  AreStarts(StartsOf(view), today)
<1> DEFINE s == StartsOf(view)
<1>1. PICK h : Until(h)
  BY SomeHorizon
<1>2. AreStarts(s, h) /\ \A x \in Range(s) : x <= today
  BY <1>1, StartsOfView DEF NoneAhead
<1> HIDE DEF s
<1>3. \A i \in 1 .. Len(s) : s[i] \in Nat \ {0} /\ s[i] \in Range(s)
  BY <1>1, <1>2 DEF AreStarts, Range, Until
<1>4. \A i \in 1 .. Len(s) : s[i] \in 1 .. today
  BY <1>2, <1>3 DEF Booked
<1>5. AreStarts(s, today)
  BY <1>2, <1>4 DEF AreStarts
<1> QED
  BY <1>5 DEF s

\* The m-th smallest of numbers, as TypicalLength takes it.
LEMMA SomeGap ==
  ASSUME NEW n \in Nat \ {0}, NEW gaps \in [1 .. n -> Int], NEW m \in Nat, m <= n
  PROVE  Min({g \in Range(gaps) :
                Cardinality({k \in DOMAIN gaps : gaps[k] <= g}) >= m}) \in Int
<1> DEFINE G == Range(gaps)
           T == {g \in G : Cardinality({k \in DOMAIN gaps : gaps[k] <= g}) >= m}
<1>1. IsFiniteSet(1 .. n) /\ Cardinality(1 .. n) = n
  BY FS_Interval
<1>2. DOMAIN gaps = 1 .. n /\ gaps \in [DOMAIN gaps -> G]
  BY DEF Range
<1>3. IsFiniteSet(G)
  BY <1>1, <1>2, ImageIsFinite
<1>4. G \in SUBSET Int /\ gaps[1] \in G /\ \A k \in 1 .. n : gaps[k] \in G
  BY DEF Range
<1> HIDE DEF G
<1>5. Max(G) \in G /\ \A y \in G : Max(G) >= y
  BY <1>3, <1>4, Extremes
<1>6. PICK g \in G : Max(G) = g
  BY <1>5
<1>7. \A k \in 1 .. n : gaps[k] <= g
  BY <1>4, <1>5, <1>6
<1>8. {k \in DOMAIN gaps : gaps[k] <= g} = 1 .. n
  BY <1>2, <1>7
<1>9. g \in T
  BY <1>1, <1>8
<1>10. IsFiniteSet(T) /\ T # {} /\ T \in SUBSET Int
  BY <1>3, <1>4, <1>9, FS_Subset
<1> HIDE DEF T
<1>11. Min(T) \in T
  BY <1>10, Extremes
<1> QED
  BY <1>10, <1>11 DEF T, G

LEMMA LengthIsANumber ==
  ASSUME NEW t \in Nat, NEW s, AreStarts(s, t)
  PROVE  TypicalLength(s) \in Int
<1> DEFINE gaps == [k \in Steps(s) |-> s[k + 1] - s[k]]
           Nth(m) == Min({g \in Range(gaps) : Cardinality({k \in DOMAIN gaps : gaps[k] <= g}) >= m})
           n == Len(gaps)
           both == Nth(n \div 2) + Nth(n \div 2 + 1)
           half == both \div 2
           middle == IF n % 2 = 1 THEN Nth(n \div 2 + 1)
                     ELSE IF both % 2 = 0 \/ half % 2 = 0 THEN half ELSE half + 1
<1>1. TypicalLength(s) = IF n = 0 THEN DefaultCycle ELSE Max({1, middle})
  BY DEF TypicalLength
<1>2. /\ Max({0, Len(s) - 1}) \in Nat
      /\ Max({0, Len(s) - 1}) # 0 => Max({0, Len(s) - 1}) = Len(s) - 1
      /\ Len(s) \in Nat
  <2>1. Len(s) \in Nat
    BY DEF AreStarts
  <2>2. 0 \in Int /\ Len(s) - 1 \in Int
    BY <2>1
  <2>3. PICK x \in {0, Len(s) - 1} : x = Max({0, Len(s) - 1}) /\ x >= 0 /\ x \in Int
    BY <2>2, GreaterOfTwo
  <2> QED
    BY <2>1, <2>3
<1>3. n = Max({0, Len(s) - 1}) /\ n \in Nat /\ gaps \in [1 .. n -> Int]
  <2>1. \A k \in Steps(s) : s[k + 1] - s[k] \in Int
    <3> SUFFICES ASSUME NEW k \in Steps(s) PROVE s[k + 1] - s[k] \in Int
      OBVIOUS
    <3>1. k \in 1 .. Len(s) /\ k + 1 \in 1 .. Len(s)
      BY <1>2 DEF Steps
    <3>2. s[k] \in Int /\ s[k + 1] \in Int
      BY <3>1 DEF AreStarts
    <3> QED
      BY <3>2
  <2>2. Steps(s) = 1 .. Max({0, Len(s) - 1})
    BY DEF Steps
  <2>3. gaps \in [1 .. Max({0, Len(s) - 1}) -> Int]
    BY <2>1, <2>2
  <2>4. Len(gaps) = Max({0, Len(s) - 1})
    BY <1>2, <2>3
  <2> QED
    BY <1>2, <2>3, <2>4
<1>4. CASE n = 0
  BY <1>1, <1>4, CyclesAssumption
<1>5. CASE n # 0
  <2> HIDE DEF gaps, n
  <2>1. ASSUME NEW m \in Nat, m <= n PROVE Nth(m) \in Int
    <3>1. n \in Nat \ {0} /\ gaps \in [1 .. n -> Int]
      BY <1>3, <1>5
    <3> QED
      BY <2>1, <3>1, SomeGap
  <2>2. n \div 2 \in Nat /\ n \div 2 + 1 \in Nat /\ n \div 2 <= n /\ n \div 2 + 1 <= n
    BY <1>3, <1>5
  <2>3. Nth(n \div 2) \in Int /\ Nth(n \div 2 + 1) \in Int
    BY <2>1, <2>2
  <2> HIDE DEF Nth
  <2>4. middle \in Int /\ 1 \in Int
    <3>1. both \in Int
      BY <2>3
    <3> HIDE DEF both
    <3>2. half \in Int
      BY <3>1
    <3> HIDE DEF half
    <3> QED
      BY <2>3, <3>2
  <2> HIDE DEF middle
  <2>5. Max({1, middle}) \in Int
    BY <2>4, GreaterOfTwo
  <2> QED
    BY <1>1, <1>5, <2>5
<1> QED
  BY <1>4, <1>5

\* The cycle after the last start lasts until today at least.
LEMMA WindowOfToday ==
  ASSUME NEW t \in Nat, NEW s, AreStarts(s, t), s # <<>>
  PROVE  /\ Window(s, t).start = s[Len(s)] /\ Window(s, t).start \in Int
         /\ Window(s, t).start <= t
         /\ Window(s, t).end \in Int /\ Window(s, t).end >= t
<1> DEFINE past == {x \in Range(s) : x <= t}
           future == {x \in Range(s) : x > t}
           last == s[Len(s)]
           end == Max(past) + TypicalLength(s) - 1
<1> HIDE DEF end
<1>1. /\ s \in Seq(Nat) /\ Len(s) \in Nat \ {0} /\ DOMAIN s = 1 .. Len(s)
      /\ \A i \in 1 .. Len(s) : s[i] \in Nat /\ s[i] <= t
      /\ \A i, j \in 1 .. Len(s) : i <= j => s[i] <= s[j]
  BY DEF AreStarts
<1>2. last \in Range(s) /\ Range(s) \in SUBSET Int /\ \A x \in Range(s) : x <= t /\ x <= last
  BY <1>1 DEF Range
<1>3. past = Range(s) /\ future = {}
  <2>1. \A x \in Range(s) : x <= t /\ x \in Int
    BY <1>2
  <2>2. \A x \in Range(s) : ~(x > t)
    BY <2>1
  <2> QED
    BY <2>1, <2>2
<1>4. IsFiniteSet(Range(s))
  <2>1. IsFiniteSet(1 .. Len(s))
    BY <1>1, FS_Interval
  <2>2. s \in [DOMAIN s -> Range(s)]
    BY <1>1 DEF Range
  <2> QED
    BY <1>1, <2>1, <2>2, ImageIsFinite
<1>5. Max(Range(s)) \in Range(s) /\ \A y \in Range(s) : Max(Range(s)) >= y
  BY <1>2, <1>4, Extremes
<1>6. Max(Range(s)) = last /\ last \in Int
  BY <1>2, <1>5
<1>7. Window(s, t) = [start |-> Max(past), end |-> Max({end, t})]
  BY <1>2, <1>3 DEF Window, end
<1>8. Max(past) = last /\ end \in Int
  <2> HIDE DEF past, last
  <2>1. TypicalLength(s) \in Int
    BY LengthIsANumber
  <2> QED
    BY <1>3, <1>6, <2>1 DEF end
<1>9. Max({end, t}) \in Int /\ Max({end, t}) >= t
  <2>1. end \in Int /\ t \in Int
    BY <1>8
  <2> QED
    BY <2>1, GreaterOfTwo
<1> QED
  BY <1>2, <1>6, <1>7, <1>8, <1>9

LEMMA StartsAreFew ==
  ASSUME NEW h \in Nat, NEW s, AreStarts(s, h)
  PROVE  IsFiniteSet(Range(s)) /\ Range(s) \in SUBSET Int
<1>1. /\ Len(s) \in Nat /\ DOMAIN s = 1 .. Len(s)
      /\ \A i \in 1 .. Len(s) : s[i] \in Int
  BY DEF AreStarts
<1>2. IsFiniteSet(1 .. Len(s))
  BY <1>1, FS_Interval
<1>3. s \in [DOMAIN s -> Range(s)]
  BY <1>1 DEF Range, AreStarts
<1>4. IsFiniteSet(Range(s))
  BY <1>1, <1>2, <1>3, ImageIsFinite
<1>5. Range(s) \in SUBSET Int
  BY <1>1 DEF Range
<1> QED
  BY <1>4, <1>5

LEMMA MonthOfToday ==
  ASSUME NEW t \in Nat \ {0}
  PROVE  /\ CalendarCycle(t).start \in Int /\ CalendarCycle(t).end \in Int
         /\ CalendarCycle(t).start <= t /\ CalendarCycle(t).end >= t
<1> DEFINE w == MonthDays q == (t - 1) \div w
<1>1. w \in Nat /\ w > 0
  BY CyclesAssumption
<1>2. CalendarCycle(t) = [start |-> q * w + 1, end |-> q * w + 1 + w - 1]
  BY DEF CalendarCycle
<1> HIDE DEF w
<1>3. q \in Int
  BY <1>1
<1>4. t - 1 < w * q + w /\ w * q <= t - 1
  BY <1>1, SMTT(30)
<1> HIDE DEF q
<1>5. q * w \in Int /\ q * w = w * q
  BY <1>1, <1>3
<1> QED
  BY <1>1, <1>2, <1>4, <1>5

\* Wherever the starts are, today is in its cycle.
LEMMA WindowHasToday ==
  ASSUME NEW h \in Nat, NEW s, AreStarts(s, h), NEW t \in Nat \ {0}
  PROVE  /\ Window(s, t).start \in Int /\ Window(s, t).end \in Int
         /\ Window(s, t).start <= t /\ t <= Window(s, t).end
<1> DEFINE past == {x \in Range(s) : x <= t}
           future == {x \in Range(s) : x > t}
           end == IF future # {} THEN Min(future) - 1 ELSE Max(past) + TypicalLength(s) - 1
<1>1. IsFiniteSet(Range(s)) /\ Range(s) \in SUBSET Int
  BY StartsAreFew
<1>2. past = {} => Window(s, t) = CalendarCycle(t)
  BY DEF Window
<1>3. past # {} => Window(s, t) = [start |-> Max(past), end |-> Max({end, t})]
  BY DEF Window
<1>4. IsFiniteSet(past) /\ past \in SUBSET Int /\ \A x \in past : x <= t
  <2>1. past \in SUBSET Range(s)
    OBVIOUS
  <2> QED
    BY <1>1, <2>1, FS_Subset
<1>5. IsFiniteSet(future) /\ future \in SUBSET Int
  <2>1. future \in SUBSET Range(s)
    OBVIOUS
  <2> QED
    BY <1>1, <2>1, FS_Subset
<1> HIDE DEF past, future
<1>6. CASE past = {}
  BY <1>2, <1>6, MonthOfToday
<1>7. CASE past # {}
  <2>1. Max(past) \in past
    BY <1>4, <1>7, Extremes
  <2>2. PICK a \in past : Max(past) = a
    BY <2>1
  <2>3. a \in Int /\ a <= t
    BY <1>4
  <2>4. end \in Int
    <3>1. CASE future # {}
      <4>1. Min(future) \in Int
        BY <1>5, <3>1, Extremes
      <4> QED
        BY <3>1, <4>1
    <3>2. CASE future = {}
      BY <2>2, <2>3, <3>2, LengthIsANumber
    <3> QED
      BY <3>1, <3>2
  <2> HIDE DEF end
  <2>5. Max({end, t}) \in Int /\ Max({end, t}) >= t
    BY <2>4, GreaterOfTwo
  <2> QED
    BY <1>3, <1>7, <2>2, <2>3, <2>5
<1> QED
  BY <1>6, <1>7

\* A day between two starts is in the cycle that the second one closes.
LEMMA WindowIsClosed ==
  ASSUME NEW h \in Nat, NEW s, AreStarts(s, h), NEW t \in Nat,
         NEW i \in 1 .. Len(s), i + 1 \in 1 .. Len(s), s[i] <= t, t < s[i + 1]
  PROVE  Window(s, t) = [start |-> s[i], end |-> s[i + 1] - 1]
<1> DEFINE past == {x \in Range(s) : x <= t}
           future == {x \in Range(s) : x > t}
           b == s[i + 1]
<1>1. /\ Len(s) \in Nat /\ DOMAIN s = 1 .. Len(s)
      /\ \A j \in 1 .. Len(s) : s[j] \in Int
      /\ \A j, k \in 1 .. Len(s) : j <= k => s[j] <= s[k]
  BY DEF AreStarts
<1>2. IsFiniteSet(Range(s)) /\ Range(s) \in SUBSET Int
  BY StartsAreFew
<1>3. s[i] \in past /\ b \in future
  BY <1>1 DEF Range
<1>4. \A x \in past : x <= s[i]
  <2> SUFFICES ASSUME NEW j \in 1 .. Len(s), s[j] <= t PROVE s[j] <= s[i]
    BY <1>1 DEF Range
  <2>1. ~(i + 1 <= j)
    BY <1>1
  <2>2. j <= i
    BY <1>1, <2>1
  <2> QED
    BY <1>1, <2>2
<1>5. \A x \in future : b <= x
  <2> SUFFICES ASSUME NEW j \in 1 .. Len(s), s[j] > t PROVE b <= s[j]
    BY <1>1 DEF Range
  <2>1. ~(j <= i)
    BY <1>1
  <2>2. i + 1 <= j
    BY <1>1, <2>1
  <2> QED
    BY <1>1, <2>2
<1>6. IsFiniteSet(past) /\ past \in SUBSET Int /\ IsFiniteSet(future) /\ future \in SUBSET Int
  <2>1. past \in SUBSET Range(s) /\ future \in SUBSET Range(s)
    OBVIOUS
  <2> QED
    BY <1>2, <2>1, FS_Subset
<1>7. (past # {} /\ future # {}) =>
        Window(s, t) = [start |-> Max(past), end |-> Max({Min(future) - 1, t})]
  BY DEF Window
<1>8. b \in Int /\ s[i] \in Int
  BY <1>1
<1> HIDE DEF past, future, b
<1>9. Max(past) = s[i]
  <2>1. Max(past) \in past /\ Max(past) >= s[i]
    BY <1>3, <1>6, Extremes
  <2>2. PICK a \in past : Max(past) = a
    BY <2>1
  <2>3. a \in Int /\ a >= s[i] /\ a <= s[i]
    BY <1>4, <1>6, <2>1, <2>2
  <2> QED
    BY <1>8, <2>2, <2>3
<1>10. Min(future) = b
  <2>1. Min(future) \in future /\ Min(future) <= b
    BY <1>3, <1>6, Extremes
  <2>2. PICK a \in future : Min(future) = a
    BY <2>1
  <2>3. a \in Int /\ a <= b /\ b <= a
    BY <1>5, <1>6, <2>1, <2>2
  <2> QED
    BY <1>8, <2>2, <2>3
<1>11. Max({b - 1, t}) = b - 1
  <2>1. b - 1 \in Int /\ t \in Int /\ b - 1 >= t
    BY <1>8 DEF b
  <2>2. Max({b - 1, t}) \in {b - 1, t} /\ Max({b - 1, t}) >= b - 1
    BY <2>1, GreaterOfTwo
  <2> QED
    BY <2>1, <2>2
<1> QED
  BY <1>3, <1>7, <1>9, <1>10, <1>11 DEF b

\* Today is in the cycle a view shows.
LEMMA CycleHasToday ==
  ASSUME Booked, NEW view \in People \cup {Shared}
  PROVE  /\ CycleOf(view).start \in Int /\ CycleOf(view).end \in Int
         /\ CycleOf(view).start <= today /\ today <= CycleOf(view).end
<1>1. PICK h : Until(h) /\ h \in Nat
  BY SomeHorizon DEF Until
<1>2. AreStarts(StartsOf(view), h)
  BY <1>1, StartsOfView
<1>3. today \in Nat \ {0}
  BY DEF Booked
<1>4. CASE StartsOf(view) = <<>>
  <2>1. CycleOf(view) = CalendarCycle(today)
    BY <1>4 DEF CycleOf
  <2> QED
    BY <1>3, <2>1, MonthOfToday
<1>5. CASE StartsOf(view) # <<>>
  <2>1. CycleOf(view) = Window(StartsOf(view), today)
    BY <1>5 DEF CycleOf
  <2> QED
    BY <1>1, <1>2, <1>3, <2>1, WindowHasToday
<1> QED
  BY <1>4, <1>5

-----------------------------------------------------------------------------
(* The year *)

\* Windows that follow each other, the last one until t at least.
Tiled(w, n, t) ==
  /\ DOMAIN w = 1 .. n
  /\ \A k \in 1 .. n : w[k].start \in Int /\ w[k].end \in Int
  /\ \A k \in 1 .. n : k < n => w[k].end = w[k + 1].start - 1
  /\ \A j, k \in 1 .. n : j <= k => w[j].start <= w[k].start
  /\ w[n].end >= t

\* A day is in the last window that starts no later.
LEMMA TilesCountOnce ==
  ASSUME NEW n \in Nat \ {0}, NEW t \in Int, NEW w, Tiled(w, n, t), NEW d \in w[1].start .. t
  PROVE  Cardinality({k \in DOMAIN w : d \in w[k].start .. w[k].end}) = 1
<1> DEFINE K == {k \in 1 .. n : w[k].start <= d}
<1>1. /\ DOMAIN w = 1 .. n /\ 1 \in 1 .. n /\ n \in 1 .. n
      /\ \A k \in 1 .. n : w[k].start \in Int /\ w[k].end \in Int
      /\ \A k \in 1 .. n : k < n => w[k].end = w[k + 1].start - 1
      /\ \A j, k \in 1 .. n : j <= k => w[j].start <= w[k].start
      /\ w[n].end >= t
  BY DEF Tiled
<1>2. d \in Int /\ w[1].start <= d /\ d <= t
  BY <1>1
<1>3. IsFiniteSet(1 .. n)
  BY FS_Interval
<1>4. 1 \in K /\ K \in SUBSET Int /\ IsFiniteSet(K) /\ K \subseteq 1 .. n
  BY <1>1, <1>2, <1>3, FS_Subset
<1>5. \A k \in 1 .. n : k \in K <=> w[k].start <= d
  OBVIOUS
<1> HIDE DEF K
<1>6. Max(K) \in K /\ \A y \in K : Max(K) >= y
  BY <1>4, Extremes
<1>7. PICK m \in K : Max(K) = m
  BY <1>6
<1>8. m \in 1 .. n /\ w[m].start <= d /\ \A k \in K : k <= m
  BY <1>4, <1>5, <1>6, <1>7
<1>9. d <= w[m].end
  <2>1. CASE m = n
    BY <1>1, <1>2, <2>1
  <2>2. CASE m # n
    <3>1. m + 1 \in 1 .. n /\ m < n /\ ~(m + 1 <= m)
      BY <1>8, <2>2
    <3>2. ~(w[m + 1].start <= d)
      BY <1>5, <1>8, <3>1
    <3>3. w[m].end = w[m + 1].start - 1 /\ w[m + 1].start \in Int
      BY <1>1, <1>8, <3>1
    <3> QED
      BY <1>2, <3>2, <3>3
  <2> QED
    BY <2>1, <2>2
<1>10. ASSUME NEW k \in 1 .. n, k # m PROVE ~(w[k].start <= d /\ d <= w[k].end)
  <2> SUFFICES ASSUME w[k].start <= d, d <= w[k].end PROVE FALSE
    OBVIOUS
  <2>1. k < m
    BY <1>5, <1>8, <1>10
  <2>2. k + 1 \in 1 .. n /\ k < n /\ k + 1 <= m
    BY <1>8, <2>1
  <2>3. w[k].end = w[k + 1].start - 1 /\ w[k + 1].start <= w[m].start
    BY <1>1, <1>8, <2>2
  <2>4. w[k + 1].start \in Int /\ w[m].start \in Int
    BY <1>1, <1>8, <2>2
  <2> QED
    BY <1>2, <1>8, <2>3, <2>4
<1>11. {k \in DOMAIN w : d \in w[k].start .. w[k].end} = {m}
  <2>1. ASSUME NEW k \in 1 .. n PROVE d \in w[k].start .. w[k].end <=> k = m
    BY <1>1, <1>2, <1>8, <1>9, <1>10
  <2> QED
    BY <1>1, <1>8, <2>1
<1> QED
  BY <1>11, FS_Singleton

LEMMA TilesDiffer ==
  ASSUME NEW n \in Nat \ {0}, NEW t \in Int, NEW w, Tiled(w, n, t), NEW d \in w[1].start .. t
  PROVE  /\ Cardinality({x \in Range(w) : d \in x.start .. x.end}) = 1
         /\ \E k \in 1 .. n : d \in w[k].start .. w[k].end
<1> DEFINE K == {k \in DOMAIN w : d \in w[k].start .. w[k].end}
<1>1. Cardinality(K) = 1
  BY TilesCountOnce
<1>2. IsFiniteSet(K) /\ DOMAIN w = 1 .. n
  <2>1. DOMAIN w = 1 .. n /\ IsFiniteSet(1 .. n)
    BY FS_Interval DEF Tiled
  <2>2. K \in SUBSET (1 .. n)
    BY <2>1
  <2> QED
    BY <2>1, <2>2, FS_Subset
<1>3. PICK k : K = {k}
  <2> HIDE DEF K
  <2> QED
    BY <1>1, <1>2, FS_Singleton
<1>4. k \in 1 .. n /\ d \in w[k].start .. w[k].end
  BY <1>2, <1>3
<1>5. {x \in Range(w) : d \in x.start .. x.end} = {w[k]}
  BY <1>2, <1>3 DEF Range
<1>6. Cardinality({w[k]}) = 1
  BY FS_Singleton
<1> QED
  BY <1>4, <1>5, <1>6

\* The closed cycles from one on, and the cycle of today.
LEMMA CyclesTile ==
  ASSUME NEW t \in Nat, NEW s, AreStarts(s, t), s # <<>>,
         NEW from \in 1 .. Len(s)
  PROVE  Tiled(Append(SubSeq(CycleWindows(s), from, Len(CycleWindows(s))), Window(s, t)),
               Len(s) - from + 1, t)
<1> DEFINE closed == CycleWindows(s)
           m == Len(s) - from
           some == SubSeq(closed, from, Len(closed))
           now == Window(s, t)
           w == Append(some, now)
<1>1. /\ Len(s) \in Nat \ {0}
      /\ \A i \in 1 .. Len(s) : s[i] \in Int
      /\ \A i, j \in 1 .. Len(s) : i <= j => s[i] <= s[j]
  BY DEF AreStarts
<1>2. Steps(s) = 1 .. Len(s) - 1
  <2>1. 0 \in Int /\ Len(s) - 1 \in Int
    BY <1>1
  <2>2. Max({0, Len(s) - 1}) \in {0, Len(s) - 1} /\ Max({0, Len(s) - 1}) >= Len(s) - 1
    BY <2>1, GreaterOfTwo
  <2>3. Max({0, Len(s) - 1}) = Len(s) - 1
    BY <1>1, <2>2
  <2> QED
    BY <2>3 DEF Steps
<1>3. closed = [k \in 1 .. Len(s) - 1 |-> [start |-> s[k], end |-> s[k + 1] - 1]]
  BY <1>2 DEF CycleWindows
<1>4. /\ DOMAIN closed = 1 .. Len(s) - 1
      /\ \A k \in 1 .. Len(s) - 1 : closed[k] = [start |-> s[k], end |-> s[k + 1] - 1]
  BY <1>3
<1> DEFINE W == Range(closed) \cup {now}
<1>5. Len(closed) = Len(s) - 1 /\ closed \in Seq(W)
  <2>1. \A k \in 1 .. Len(s) - 1 : closed[k] \in W
    BY <1>4 DEF Range
  <2>2. closed \in [1 .. Len(s) - 1 -> W]
    BY <1>3, <2>1
  <2> HIDE DEF closed, W
  <2>3. Len(s) - 1 \in Nat
    BY <1>1
  <2> QED
    BY <2>2, <2>3
<1> HIDE DEF closed
<1>6. /\ some \in Seq(W) /\ Len(some) = m /\ m \in Nat
      /\ \A k \in 1 .. m : some[k] = closed[from + k - 1]
  <2>1. m \in Nat /\ from \in 1 .. Len(closed) + 1 /\ Len(closed) \in Nat
        /\ Len(closed) - from + 1 = m
    BY <1>1, <1>5
  <2> HIDE DEF m, W
  <2>2. Len(some) = m /\ some \in Seq(W)
    BY <1>5, <2>1
  <2>3. \A k \in 1 .. m : some[k] = closed[from + k - 1]
    BY <1>5, <2>1
  <2> QED
    BY <2>1, <2>2, <2>3
<1> HIDE DEF some
<1>7. now \in W
  OBVIOUS
<1>8. /\ now.start = s[Len(s)] /\ now.start \in Int /\ now.end \in Int /\ now.end >= t
  BY WindowOfToday
<1> HIDE DEF now, W
<1>9. DOMAIN w = 1 .. m + 1 /\ w[m + 1] = now /\ \A k \in 1 .. m : w[k] = some[k]
  BY <1>6, <1>7, Appended
<1>10. m = Len(s) - from /\ m \in Nat
  BY <1>6
<1> HIDE DEF w, m
<1>11. ASSUME NEW k \in 1 .. m
       PROVE  w[k].start = s[from + k - 1] /\ w[k].end = s[from + k] - 1
  <2> DEFINE i == from + k - 1
  <2>1. i \in 1 .. Len(s) - 1 /\ i + 1 = from + k
    BY <1>1, <1>10
  <2>2. w[k] = closed[i]
    BY <1>6, <1>9
  <2> HIDE DEF i
  <2>3. closed[i] = [start |-> s[i], end |-> s[i + 1] - 1]
    BY <1>4, <2>1
  <2> QED
    BY <2>1, <2>2, <2>3 DEF i
<1>12. ASSUME NEW k \in 1 .. m + 1
       PROVE  w[k].start = s[from + k - 1] /\ from + k - 1 \in 1 .. Len(s)
  <2>1. from + k - 1 \in 1 .. Len(s)
    BY <1>1, <1>10
  <2>2. CASE k \in 1 .. m
    BY <1>11, <2>1, <2>2
  <2>3. CASE k = m + 1
    <3>1. from + k - 1 = Len(s)
      BY <1>1, <1>10, <2>3
    <3> QED
      BY <1>8, <1>9, <2>1, <2>3, <3>1
  <2>4. k \in 1 .. m \/ k = m + 1
    BY <1>10
  <2> QED
    BY <2>1, <2>2, <2>3, <2>4
<1>13. ASSUME NEW k \in 1 .. m + 1 PROVE w[k].start \in Int /\ w[k].end \in Int
  <2>1. CASE k \in 1 .. m
    <3>1. from + k - 1 \in 1 .. Len(s) /\ from + k \in 1 .. Len(s)
      BY <1>1, <1>10, <2>1
    <3>2. s[from + k - 1] \in Int /\ s[from + k] \in Int
      BY <1>1, <3>1
    <3>3. w[k].start = s[from + k - 1] /\ w[k].end = s[from + k] - 1
      BY <1>11, <2>1
    <3> QED
      BY <3>2, <3>3
  <2>2. CASE k = m + 1
    BY <1>8, <1>9, <2>2
  <2> QED
    BY <1>6, <2>1, <2>2
<1>14. ASSUME NEW k \in 1 .. m + 1, k < m + 1 PROVE w[k].end = w[k + 1].start - 1
  <2>1. k \in 1 .. m /\ k + 1 \in 1 .. m + 1 /\ from + (k + 1) - 1 = from + k
    BY <1>6, <1>14
  <2> QED
    BY <1>11, <1>12, <2>1
<1>15. ASSUME NEW j \in 1 .. m + 1, NEW k \in 1 .. m + 1, j <= k
       PROVE  w[j].start <= w[k].start
  <2>1. from + j - 1 <= from + k - 1
    BY <1>15
  <2> QED
    BY <1>1, <1>12, <2>1
<1>16. w[m + 1].end >= t
  BY <1>8, <1>9
<1>17. Tiled(w, m + 1, t)
  BY <1>9, <1>13, <1>14, <1>15, <1>16 DEF Tiled
<1> QED
  BY <1>17 DEF w, some, closed, now, m

LEMMA YearTiles ==
  ASSUME Booked, NEW view \in People \cup {Shared}, NoneAhead(view)
  PROVE  \E n \in Nat \ {0} : Tiled(YearWindows(view), n, today)
<1> DEFINE s == StartsOf(view)
           closed == CycleWindows(s)
           from == Max({1, Len(closed) - YearCycles + 2})
<1>1. AreStarts(s, today)
  BY StartsUntilToday
<1>2. YearWindows(view) = Append(SubSeq(closed, from, Len(closed)), CycleOf(view))
  BY DEF YearWindows
<1>3. Len(s) \in Nat /\ Len(closed) \in Nat /\ Len(closed) = Max({0, Len(s) - 1})
      /\ Len(closed) \in {0, Len(s) - 1} /\ Len(closed) >= Len(s) - 1
      /\ closed = [k \in 1 .. Len(closed) |-> closed[k]]
  <2>1. Len(s) \in Nat
    BY <1>1 DEF AreStarts
  <2>2. 0 \in Int /\ Len(s) - 1 \in Int
    BY <2>1
  <2>3. PICK x \in {0, Len(s) - 1} : x = Max({0, Len(s) - 1}) /\ x >= 0 /\ x >= Len(s) - 1
    BY <2>2, GreaterOfTwo
  <2>4. x \in Nat
    BY <2>1, <2>3
  <2>5. DOMAIN closed = 1 .. x /\ closed = [k \in 1 .. x |-> closed[k]]
    BY <2>3 DEF CycleWindows, Steps
  <2> HIDE DEF closed
  <2>6. Len(closed) = x
    BY <2>4, <2>5
  <2> QED
    BY <2>1, <2>3, <2>4, <2>5, <2>6
<1>4. from \in {1, Len(closed) - YearCycles + 2} /\ from >= 1 /\ from \in Int
  <2>1. 1 \in Int /\ Len(closed) - YearCycles + 2 \in Int
    BY <1>3, PotsAssumption
  <2> QED
    BY <2>1, GreaterOfTwo
<1>5. YearCycles \in Nat \ {0, 1} /\ today \in Nat \ {0}
  BY PotsAssumption DEF Booked
<1> HIDE DEF closed, from, s
<1>6. CASE s = <<>>
  <2>1. Len(s) = 0
    BY <1>6
  <2>2. Len(closed) = 0 /\ from = 1
    BY <1>3, <1>4, <1>5, <2>1
  <2>3. CycleOf(view) = CalendarCycle(today)
    BY <1>6 DEF CycleOf, s
  <2>4. closed = <<>>
    BY <1>3, <2>2
  <2>5. SubSeq(<<>>, 1, 0) = <<>>
    OBVIOUS
  <2>6. Append(<<>>, CalendarCycle(today)) = <<CalendarCycle(today)>>
    OBVIOUS
  <2>7. YearWindows(view) = <<CalendarCycle(today)>>
    <3>1. YearWindows(view) = Append(SubSeq(<<>>, 1, 0), CalendarCycle(today))
      BY <1>2, <2>2, <2>3, <2>4, Zenon
    <3> QED
      BY <2>5, <2>6, <3>1, Zenon
  <2>8. /\ CalendarCycle(today).start \in Int /\ CalendarCycle(today).end \in Int
        /\ CalendarCycle(today).end >= today
    BY <1>5, MonthOfToday
  <2>9. Tiled(YearWindows(view), 1, today)
    BY <2>7, <2>8 DEF Tiled
  <2> QED
    BY <2>9
<1>7. CASE s # <<>>
  <2>1. Len(s) # 0
    BY <1>1, <1>7 DEF AreStarts
  <2>2. from \in 1 .. Len(s)
    BY <1>3, <1>4, <1>5, <2>1
  <2>3. CycleOf(view) = Window(s, today)
    BY <1>7 DEF CycleOf, s
  <2>4. today \in Nat
    BY <1>5
  <2>5. Tiled(YearWindows(view), Len(s) - from + 1, today)
    BY <1>1, <1>2, <1>7, <2>2, <2>3, <2>4, CyclesTile DEF closed
  <2>6. Len(s) - from + 1 \in Nat \ {0}
    BY <1>3, <2>2
  <2> QED
    BY <2>5, <2>6
<1> QED
  BY <1>6, <1>7

ClosedFrom(s, from) == SubSeq(CycleWindows(s), from, Len(CycleWindows(s)))

AreClosed(s, from, m, t) ==
  /\ Tiled(ClosedFrom(s, from), m, t) /\ m # 0
  /\ ClosedFrom(s, from) \in Seq(Range(CycleWindows(s))) /\ Len(ClosedFrom(s, from)) = m
  /\ \A k \in 1 .. m : ClosedFrom(s, from)[k] =
                           [start |-> s[from + k - 1], end |-> s[from + k] - 1]

\* When the last start is ahead, the closed cycles alone last beyond t.
LEMMA ClosedTile ==
  ASSUME NEW h \in Nat, NEW s, AreStarts(s, h), NEW t \in Nat, s[Len(s)] > t,
         NEW from \in 1 .. Len(s) - 1, NEW m \in Nat, from + m = Len(s)
  PROVE  AreClosed(s, from, m, t)
<1> DEFINE closed == CycleWindows(s)
           w == ClosedFrom(s, from)
<1>1. /\ Len(s) \in Nat \ {0, 1}
      /\ \A i \in 1 .. Len(s) : s[i] \in Int
      /\ \A i, j \in 1 .. Len(s) : i <= j => s[i] <= s[j]
  BY DEF AreStarts
<1>2. Steps(s) = 1 .. Len(s) - 1
  <2>1. 0 \in Int /\ Len(s) - 1 \in Int
    BY <1>1
  <2>2. Max({0, Len(s) - 1}) \in {0, Len(s) - 1} /\ Max({0, Len(s) - 1}) >= Len(s) - 1
    BY <2>1, GreaterOfTwo
  <2>3. Max({0, Len(s) - 1}) = Len(s) - 1
    BY <1>1, <2>2
  <2> QED
    BY <2>3 DEF Steps
<1>3. closed = [k \in 1 .. Len(s) - 1 |-> [start |-> s[k], end |-> s[k + 1] - 1]]
  BY <1>2 DEF CycleWindows
<1>4. /\ DOMAIN closed = 1 .. Len(s) - 1
      /\ \A k \in 1 .. Len(s) - 1 : closed[k] = [start |-> s[k], end |-> s[k + 1] - 1]
  BY <1>3
<1>5. Len(closed) = Len(s) - 1 /\ closed \in Seq(Range(closed))
  <2>1. closed = [k \in 1 .. Len(s) - 1 |-> closed[k]]
    BY <1>3
  <2>2. \A k \in 1 .. Len(s) - 1 : closed[k] \in Range(closed)
    BY <1>4 DEF Range
  <2> HIDE DEF closed
  <2>3. Len(s) - 1 \in Nat
    BY <1>1
  <2> QED
    BY <2>1, <2>2, <2>3
<1> HIDE DEF closed
<1>6. m \in Nat \ {0} /\ Len(closed) - from + 1 = m /\ from \in 1 .. Len(closed) + 1
  BY <1>1, <1>5
<1>7. w = SubSeq(closed, from, Len(closed))
  BY DEF closed, ClosedFrom
<1> HIDE DEF w
<1>8. /\ w \in Seq(Range(closed)) /\ Len(w) = m
      /\ \A k \in 1 .. m : w[k] = closed[from + k - 1]
  BY <1>5, <1>6, <1>7
<1>9. /\ from \in Int /\ 1 <= from /\ m \in Int /\ 1 <= m
      /\ Len(s) \in Int /\ from + m = Len(s)
  BY <1>1, <1>6
<1>10. DOMAIN w = 1 .. m
  BY <1>8
<1>11. ASSUME NEW k \in 1 .. m
       PROVE  /\ w[k] = [start |-> s[from + k - 1], end |-> s[from + k] - 1]
              /\ from + k - 1 \in 1 .. Len(s) /\ from + k \in 1 .. Len(s)
              /\ w[k].start = s[from + k - 1] /\ w[k].end = s[from + k] - 1
  <2> DEFINE i == from + k - 1
  <2>1. i \in 1 .. Len(s) - 1 /\ i + 1 = from + k /\ from + k \in 1 .. Len(s)
        /\ i \in 1 .. Len(s)
    BY <1>9
  <2>2. w[k] = closed[i]
    BY <1>8
  <2> HIDE DEF i
  <2>3. closed[i] = [start |-> s[i], end |-> s[i + 1] - 1]
    BY <1>4, <2>1
  <2>4. w[k] = [start |-> s[i], end |-> s[from + k] - 1]
    BY <2>1, <2>2, <2>3
  <2> QED
    BY <2>1, <2>4 DEF i
<1>12. ASSUME NEW k \in 1 .. m PROVE w[k].start \in Int /\ w[k].end \in Int
  <2>1. /\ from + k - 1 \in 1 .. Len(s) /\ from + k \in 1 .. Len(s)
        /\ w[k].start = s[from + k - 1] /\ w[k].end = s[from + k] - 1
    BY <1>11
  <2>2. s[from + k - 1] \in Int /\ s[from + k] \in Int
    BY <1>1, <2>1
  <2> QED
    BY <2>1, <2>2
<1>13. ASSUME NEW k \in 1 .. m, k < m PROVE w[k].end = w[k + 1].start - 1
  <2>1. k + 1 \in 1 .. m /\ from + (k + 1) - 1 = from + k
    BY <1>6, <1>13
  <2> QED
    BY <1>11, <2>1
<1>14. ASSUME NEW j \in 1 .. m, NEW k \in 1 .. m, j <= k PROVE w[j].start <= w[k].start
  <2>1. from + j - 1 <= from + k - 1
    BY <1>14
  <2> QED
    BY <1>1, <1>11, <2>1
<1>15. w[m].end >= t
  <2>1. m \in 1 .. m /\ from + m = Len(s)
    BY <1>9
  <2>2. w[m].end = s[Len(s)] - 1 /\ s[Len(s)] \in Int
    BY <1>1, <1>11, <2>1
  <2> QED
    BY <2>2
<1>16. Tiled(w, m, t)
  BY <1>10, <1>12, <1>13, <1>14, <1>15 DEF Tiled
<1> QED
  BY <1>6, <1>8, <1>11, <1>16 DEF closed, w, AreClosed

\* The cycle of today is then one of them.
LEMMA AheadIsClosed ==
  ASSUME NEW h \in Nat, NEW s, AreStarts(s, h), NEW t \in Nat \ {0}, s[Len(s)] > t,
         NEW from \in 1 .. Len(s) - 1,
         NEW d \in Int, ClosedFrom(s, from)[1].start <= d, d <= t
  PROVE  Cardinality({x \in Range(Append(ClosedFrom(s, from), Window(s, t))) :
                        d \in x.start .. x.end}) = 1
<1> DEFINE w == ClosedFrom(s, from)
           now == Window(s, t)
<1>1. /\ Len(s) \in Nat
      /\ \A i \in 1 .. Len(s) : s[i] \in Int
  BY DEF AreStarts
<1>2. PICK m \in Nat : from + m = Len(s)
  <2>1. Len(s) - from \in Nat /\ from + (Len(s) - from) = Len(s)
    BY <1>1
  <2> QED
    BY <2>1
<1>3. /\ Tiled(w, m, t) /\ m \in Nat \ {0}
      /\ w \in Seq(Range(CycleWindows(s))) /\ Len(w) = m
      /\ \A k \in 1 .. m : w[k] = [start |-> s[from + k - 1], end |-> s[from + k] - 1]
  <2>1. t \in Nat
    OBVIOUS
  <2>2. AreClosed(s, from, m, t)
    BY <1>2, <2>1, ClosedTile
  <2> QED
    BY <2>2 DEF AreClosed
<1>4. w[1].start <= d /\ d <= t
  OBVIOUS
<1> HIDE DEF w
<1>5. /\ DOMAIN w = 1 .. m /\ DOMAIN Append(w, now) = 1 .. m + 1
      /\ Append(w, now)[m + 1] = now /\ \A k \in 1 .. m : Append(w, now)[k] = w[k]
  <2> DEFINE W == Range(CycleWindows(s)) \cup {now}
  <2>1. w \in Seq(W) /\ now \in W
    BY <1>3
  <2> HIDE DEF W
  <2>2. /\ Append(w, now)[Len(w) + 1] = now
        /\ \A k \in 1 .. Len(w) : Append(w, now)[k] = w[k]
        /\ DOMAIN Append(w, now) = 1 .. Len(w) + 1
    BY <2>1, Appended
  <2>3. DOMAIN w = 1 .. Len(w)
    BY <2>1
  <2> QED
    BY <1>3, <2>2, <2>3
<1>6. w[1].start \in Int /\ t \in Int
  BY <1>3 DEF Tiled
<1>7. d \in w[1].start .. t /\ t \in w[1].start .. t
  BY <1>6, <1>4
<1>8. PICK k \in 1 .. m : t \in w[k].start .. w[k].end
  BY <1>3, <1>6, <1>7, TilesDiffer
<1>9. now = w[k]
  <2> DEFINE j == from + k - 1
  <2>1. j \in 1 .. Len(s) /\ j + 1 \in 1 .. Len(s) /\ j + 1 = from + k
    BY <1>2, <1>3, <1>1
  <2>2. w[k] = [start |-> s[j], end |-> s[j + 1] - 1]
    BY <1>3, <2>1
  <2> HIDE DEF j
  <2>3. s[j] \in Int /\ s[j + 1] \in Int
    BY <1>1, <2>1
  <2>4. s[j] <= t /\ t < s[j + 1]
    BY <1>6, <1>8, <2>2, <2>3
  <2> QED
    BY <2>1, <2>2, <2>4, WindowIsClosed
<1> HIDE DEF now
<1> DEFINE all == Append(w, now)
<1>10. Range(all) = Range(w)
  <2>1. DOMAIN all = 1 .. m + 1 /\ all[m + 1] = w[k] /\ \A l \in 1 .. m : all[l] = w[l]
    BY <1>5, <1>9
  <2> HIDE DEF all
  <2>2. ASSUME NEW l \in 1 .. m + 1 PROVE all[l] \in Range(w)
    <3>1. l \in 1 .. m \/ l = m + 1
      BY <1>3
    <3> QED
      BY <1>5, <2>1, <3>1 DEF Range
  <2>3. \A l \in 1 .. m : l \in 1 .. m + 1
    BY <1>3
  <2>4. ASSUME NEW l \in 1 .. m PROVE w[l] \in Range(all)
    BY <2>1, <2>3 DEF Range
  <2>5. Range(all) \subseteq Range(w)
    BY <2>1, <2>2 DEF Range
  <2>6. Range(w) \subseteq Range(all)
    BY <1>5, <2>4 DEF Range
  <2> QED
    BY <2>5, <2>6
<1>11. Cardinality({x \in Range(w) : d \in x.start .. x.end}) = 1
  BY <1>3, <1>6, <1>7, TilesDiffer
<1> QED
  BY <1>10, <1>11 DEF all, w, now

\* When a cycle starts ahead, the one of today is among the closed ones.
LEMMA YearWithOneAhead ==
  ASSUME Booked, NEW view \in People \cup {Shared}, ~NoneAhead(view),
         NEW day \in YearWindows(view)[1].start .. today
  PROVE  Cardinality({x \in Range(YearWindows(view)) : day \in x.start .. x.end}) = 1
<1> DEFINE s == StartsOf(view)
           closed == CycleWindows(s)
           from == Max({1, Len(closed) - YearCycles + 2})
           some == SubSeq(closed, from, Len(closed))
           now == CycleOf(view)
           all == YearWindows(view)
<1>1. today \in Nat \ {0} /\ today \in Nat /\ today \in Int
  BY DEF Booked
<1>2. PICK h : Until(h) /\ h \in Nat
  BY SomeHorizon DEF Until
<1>3. AreStarts(s, h)
  BY <1>2, StartsOfView
<1>4. all = Append(some, now)
  BY DEF YearWindows
<1>5. now.start \in Int /\ now.end \in Int /\ now.start <= today /\ today <= now.end
  BY CycleHasToday
<1>6. \E x \in Range(s) : ~(x <= today)
  BY DEF NoneAhead
<1>7. s # <<>> => now = Window(s, today)
  BY DEF CycleOf
<1> HIDE DEF s, now
<1>8. /\ Len(s) \in Nat /\ DOMAIN s = 1 .. Len(s)
      /\ \A i \in 1 .. Len(s) : s[i] \in Int
      /\ \A i, j \in 1 .. Len(s) : i <= j => s[i] <= s[j]
  BY <1>3 DEF AreStarts
<1>9. PICK i \in 1 .. Len(s) : s[i] > today
  BY <1>1, <1>6, <1>8 DEF Range
<1>10. Len(s) >= 1 /\ s[Len(s)] > today /\ s # <<>>
  <2>1. Len(s) >= 1 /\ Len(s) \in 1 .. Len(s) /\ i <= Len(s)
    BY <1>8, <1>9
  <2>2. s[i] <= s[Len(s)] /\ s[i] \in Int /\ s[Len(s)] \in Int
    BY <1>8, <2>1
  <2> QED
    BY <1>1, <1>9, <2>1, <2>2
<1>11. Len(closed) = Len(s) - 1 /\ closed = [k \in 1 .. Len(s) - 1 |-> closed[k]]
  <2>1. 0 \in Int /\ Len(s) - 1 \in Int
    BY <1>8
  <2>2. Max({0, Len(s) - 1}) \in {0, Len(s) - 1} /\ Max({0, Len(s) - 1}) >= Len(s) - 1
    BY <2>1, GreaterOfTwo
  <2>3. Max({0, Len(s) - 1}) = Len(s) - 1
    BY <1>8, <1>10, <2>2
  <2>4. closed = [k \in 1 .. Len(s) - 1 |-> closed[k]]
    BY <2>3 DEF CycleWindows, Steps
  <2> HIDE DEF closed
  <2>5. Len(s) - 1 \in Nat
    BY <1>8, <1>10
  <2> QED
    BY <2>4, <2>5
<1>12. from \in {1, Len(closed) - YearCycles + 2} /\ from >= 1 /\ YearCycles \in Nat \ {0, 1}
  <2>1. 1 \in Int /\ Len(closed) - YearCycles + 2 \in Int /\ YearCycles \in Nat \ {0, 1}
    BY <1>8, <1>11, PotsAssumption
  <2> HIDE DEF closed
  <2> QED
    BY <2>1, GreaterOfTwo
<1> HIDE DEF closed, from
<1>13. CASE Len(s) = 1
  <2>1. Len(closed) = 0 /\ from = 1 /\ closed = <<>>
    BY <1>11, <1>12, <1>13
  <2>2. all = <<now>>
    <3>1. SubSeq(<<>>, 1, 0) = <<>> /\ Append(<<>>, now) = <<now>>
      OBVIOUS
    <3> HIDE DEF all
    <3> QED
      BY <1>4, <2>1, <3>1, Zenon DEF some
  <2> HIDE DEF all, some
  <2>3. Tiled(all, 1, today)
    BY <1>5, <2>2 DEF Tiled
  <2> QED
    BY <1>1, <2>3, TilesDiffer DEF all
<1>14. CASE Len(s) # 1
  <2>1. PICK n \in 1 .. Len(s) - 1 : n = from
    BY <1>8, <1>10, <1>11, <1>12, <1>14
  <2>2. some = ClosedFrom(s, n)
    BY <2>1 DEF closed, ClosedFrom
  <2> HIDE DEF some
  <2>3. PICK m \in Nat : n + m = Len(s)
    <3>1. Len(s) - n \in Nat /\ n + (Len(s) - n) = Len(s)
      BY <1>8
    <3> QED
      BY <3>1
  <2>4. /\ Tiled(some, m, today) /\ m \in Nat \ {0}
        /\ some \in Seq(Range(CycleWindows(s))) /\ Len(some) = m
    <3>1. AreClosed(s, n, m, today)
      BY <1>1, <1>2, <1>3, <1>10, <2>3, ClosedTile
    <3> QED
      BY <2>2, <3>1 DEF AreClosed
  <2>5. all[1] = some[1]
    <3> DEFINE W == Range(CycleWindows(s)) \cup {now}
    <3>1. some \in Seq(W) /\ now \in W
      BY <2>4
    <3> HIDE DEF W
    <3>2. Append(some, now)[1] = some[1]
      BY <2>4, <3>1, Appended
    <3> QED
      BY <1>4, <3>2
  <2>6. some[1].start \in Int
    BY <2>4 DEF Tiled
  <2>7. day \in Int /\ some[1].start <= day /\ day <= today
    BY <1>1, <2>5, <2>6
  <2> HIDE DEF all
  <2>8. Cardinality({x \in Range(Append(some, now)) : day \in x.start .. x.end}) = 1
    BY <1>1, <1>2, <1>3, <1>7, <1>10, <2>2, <2>7, AheadIsClosed
  <2> QED
    BY <1>4, <2>8 DEF all
<1> QED
  BY <1>13, <1>14

LEMMA BookedIsTiled == Booked => YearCountsOnce
<1> SUFFICES ASSUME Booked, NEW view \in People \cup {Shared},
                    NEW day \in YearWindows(view)[1].start .. today
             PROVE  /\ Cardinality({x \in Range(YearWindows(view)) : day \in x.start .. x.end}) = 1
                    /\ NoneAhead(view) =>
                         Cardinality({k \in DOMAIN YearWindows(view) :
                           day \in YearWindows(view)[k].start .. YearWindows(view)[k].end}) = 1
  BY DEF YearCountsOnce
<1>1. today \in Int
  BY DEF Booked
<1>2. CASE NoneAhead(view)
  <2>1. PICK n \in Nat \ {0} : Tiled(YearWindows(view), n, today)
    BY <1>2, YearTiles
  <2> QED
    BY <1>1, <2>1, TilesCountOnce, TilesDiffer
<1>3. CASE ~NoneAhead(view)
  BY <1>3, YearWithOneAhead
<1> QED
  BY <1>2, <1>3

\* From the first salary shown to today every day, and so every purchase, is in one
\* cycle of the year, which is listed once unless a salary is dated ahead, for any
\* persons, incomes and days they are dated, tolerances and anchor window.
THEOREM YearIsTiled == Spec => []YearCountsOnce
  BY InitBooked, StepBooked, BookedIsTiled, PTL DEF Spec

-----------------------------------------------------------------------------
(* Sums over finite sets *)

Numbers(f) == IsFiniteSet(DOMAIN f) /\ f \in [DOMAIN f -> Int]

\* The sums of f over the subsets of its domain.
Totals(g, f) ==
  /\ g \in [SUBSET DOMAIN f -> Int]
  /\ g[{}] = 0
  /\ \A s \in SUBSET DOMAIN f : \A x \in s : g[s] = f[x] + g[s \ {x}]

\* The subsets of at most k elements.
Small(S, k) == {s \in SUBSET S : Cardinality(s) <= k}

LEMMA SmallSets ==
  ASSUME NEW S, IsFiniteSet(S)
  PROVE  /\ Small(S, 0) = {{}} /\ Small(S, Cardinality(S)) = SUBSET S
         /\ Cardinality(S) \in Nat
         /\ \A k \in Nat : \A s \in Small(S, k + 1) : \A x \in s : s \ {x} \in Small(S, k)
         /\ \A k \in Nat : Small(S, k) \subseteq Small(S, k + 1)
<1>1. \A s \in SUBSET S : /\ IsFiniteSet(s) /\ Cardinality(s) \in Nat
                          /\ Cardinality(s) <= Cardinality(S)
                          /\ Cardinality(s) = 0 => s = {}
                          /\ \A x \in s : Cardinality(s \ {x}) = Cardinality(s) - 1
  BY FS_Subset, FS_CardinalityType, FS_EmptySet, FS_RemoveElement
<1>2. Cardinality({}) = 0 /\ Cardinality(S) \in Nat
  BY FS_EmptySet, FS_CardinalityType
<1>3. Small(S, 0) = {{}}
  BY <1>1, <1>2 DEF Small
<1>4. Small(S, Cardinality(S)) = SUBSET S
  BY <1>1 DEF Small
<1>5. \A k \in Nat : \A s \in Small(S, k + 1) : \A x \in s : s \ {x} \in Small(S, k)
  <2> SUFFICES ASSUME NEW k \in Nat, NEW s \in Small(S, k + 1), NEW x \in s
               PROVE  s \ {x} \in Small(S, k)
    OBVIOUS
  <2>1. s \in SUBSET S /\ Cardinality(s) <= k + 1 /\ s \ {x} \in SUBSET S
    BY DEF Small
  <2>2. Cardinality(s) \in Nat /\ Cardinality(s \ {x}) = Cardinality(s) - 1
    BY <1>1, <2>1
  <2> QED
    BY <2>1, <2>2 DEF Small
<1>6. \A k \in Nat : Small(S, k) \subseteq Small(S, k + 1)
  <2> SUFFICES ASSUME NEW k \in Nat, NEW s \in Small(S, k) PROVE s \in Small(S, k + 1)
    OBVIOUS
  <2>1. Cardinality(s) \in Nat /\ Cardinality(s) <= k /\ s \in SUBSET S
    BY <1>1 DEF Small
  <2> QED
    BY <2>1 DEF Small
<1> QED
  BY <1>2, <1>3, <1>4, <1>5, <1>6

\* What a set has when every set one element smaller has it, all finite sets have.
LEMMA SubsetInduction ==
  ASSUME NEW S, IsFiniteSet(S), NEW G,
         \A s \in SUBSET S : (\A x \in s : s \ {x} \in G) => s \in G
  PROVE  \A s \in SUBSET S : s \in G
<1> DEFINE H == {k \in Nat : \A s \in Small(S, k) : s \in G}
<1>1. 0 \in H
  <2>1. {} \in G
    OBVIOUS
  <2> QED
    BY <2>1, SmallSets
<1>2. ASSUME NEW k \in Nat, k \in H PROVE k + 1 \in H
  <2> SUFFICES ASSUME NEW s \in Small(S, k + 1) PROVE s \in G
    OBVIOUS
  <2>1. \A x \in s : s \ {x} \in Small(S, k)
    BY SmallSets
  <2>2. \A x \in s : s \ {x} \in G
    BY <1>2, <2>1
  <2>3. s \in SUBSET S
    BY DEF Small
  <2> QED
    BY <2>2, <2>3
<1> HIDE DEF H
<1>3. Cardinality(S) \in H
  BY <1>1, <1>2, SetInduction, SmallSets
<1>4. \A s \in Small(S, Cardinality(S)) : s \in G
  BY <1>3 DEF H
<1> QED
  BY <1>4, SmallSets

\* There are sums, and the library's sum is one of them.
LEMMA SumTotals ==
  ASSUME NEW f, Numbers(f)
  PROVE  \E g : Totals(g, f) /\ SumFunction(f) = g[DOMAIN f]
<1> DEFINE S == DOMAIN f
           c(s) == CHOOSE x \in s : TRUE
           body(h, s) == IF s = {} THEN 0 ELSE f[c(s)] + h[s \ {c(s)}]
           Graph(h, T) == h = [s \in T |-> body(h, s)]
           iter == CHOOSE h : Graph(h, SUBSET S)
<1>1. SumFunction(f) = iter[S]
  BY DEF SumFunction, SumFunctionOnSet, FoldFunctionOnSet, MapThenFoldSet
<1>2. IsFiniteSet(S) /\ \A x \in S : f[x] \in Int
  BY DEF Numbers
<1>3. \A s : s # {} => c(s) \in s
  OBVIOUS
<1>4. \A h, i, s : h[s \ {c(s)}] = i[s \ {c(s)}] => body(h, s) = body(i, s)
  OBVIOUS
<1>5. \A h, i : body(h, {}) = body(i, {}) /\ body(h, {}) = 0
  OBVIOUS
<1>6. \A h, s : s # {} => body(h, s) = f[c(s)] + h[s \ {c(s)}]
  OBVIOUS
<1> HIDE DEF S, c, body, iter
<1> DEFINE Made == {k \in Nat : \E h : Graph(h, Small(S, k))}
<1>7. \A k \in Nat : k \in Made
  <2>1. 0 \in Made
    <3> DEFINE h == [s \in Small(S, 0) |-> 0]
    <3>1. Small(S, 0) = {{}}
      BY <1>2, SmallSets
    <3>2. \A s \in Small(S, 0) : body(h, s) = 0
      BY <1>5, <3>1
    <3>3. Graph(h, Small(S, 0))
      BY <3>2
    <3> QED
      BY <3>3
  <2>2. ASSUME NEW k \in Nat, k \in Made PROVE k + 1 \in Made
    <3>1. PICK h : Graph(h, Small(S, k))
      BY <2>2
    <3> DEFINE g == [s \in Small(S, k + 1) |-> IF s \in Small(S, k) THEN h[s] ELSE body(h, s)]
    <3>2. ASSUME NEW s \in Small(S, k + 1) PROVE g[s] = body(g, s)
      <4>1. g[s] = body(h, s)
        BY <3>1
      <4>2. CASE s = {}
        <5> HIDE DEF g
        <5> QED
          BY <1>5, <4>1, <4>2
      <4>3. CASE s # {}
        <5>1. s \ {c(s)} \in Small(S, k) /\ s \ {c(s)} \in Small(S, k + 1)
          BY <1>2, <1>3, <4>3, SmallSets
        <5>2. g[s \ {c(s)}] = h[s \ {c(s)}]
          BY <5>1
        <5> HIDE DEF g
        <5> QED
          BY <1>4, <4>1, <5>2
      <4> QED
        BY <4>2, <4>3
    <3>3. g = [s \in Small(S, k + 1) |-> g[s]]
      OBVIOUS
    <3> HIDE DEF g
    <3>4. Graph(g, Small(S, k + 1))
      BY <3>2, <3>3
    <3> QED
      BY <3>4
  <2> HIDE DEF Made
  <2> QED
    BY <2>1, <2>2, SetInduction
<1>8. Graph(iter, SUBSET S)
  <2>1. \E h : Graph(h, SUBSET S)
    <3>1. Cardinality(S) \in Nat /\ Small(S, Cardinality(S)) = SUBSET S
      BY <1>2, SmallSets
    <3>2. PICK h : Graph(h, Small(S, Cardinality(S)))
      BY <1>7, <3>1
    <3> QED
      BY <3>1, <3>2
  <2> QED
    BY <2>1 DEF iter
<1>9. /\ iter = [s \in SUBSET S |-> iter[s]] /\ iter[{}] = 0
      /\ \A s \in SUBSET S : s # {} =>
           /\ iter[s] = f[c(s)] + iter[s \ {c(s)}]
           /\ c(s) \in s /\ s \ {c(s)} \in SUBSET S
  <2>1. \A s \in SUBSET S : iter[s] = body(iter, s)
    BY <1>8
  <2>2. iter = [s \in SUBSET S |-> iter[s]]
    BY <1>8, <2>1
  <2>3. iter[{}] = 0
    BY <1>5, <2>1
  <2> QED
    BY <1>3, <1>6, <2>1, <2>2, <2>3
<1> DEFINE Typed == {s \in SUBSET S : iter[s] \in Int}
           AnyOrder == {s \in SUBSET S : \A x \in s : iter[s] = f[x] + iter[s \ {x}]}
<1>10. \A s \in SUBSET S : s \in Typed
  <2>1. ASSUME NEW s \in SUBSET S, \A x \in s : s \ {x} \in Typed PROVE s \in Typed
    <3>1. CASE s = {}
      BY <1>9, <3>1
    <3>2. CASE s # {}
      <4>1. iter[s] = f[c(s)] + iter[s \ {c(s)}] /\ c(s) \in s
        BY <1>9, <3>2
      <4>2. iter[s \ {c(s)}] \in Int /\ f[c(s)] \in Int
        BY <1>2, <2>1, <4>1
      <4> QED
        BY <4>1, <4>2
    <3> QED
      BY <3>1, <3>2
  <2> HIDE DEF Typed
  <2> QED
    BY <1>2, <2>1, SubsetInduction
<1>11. \A s \in SUBSET S : iter[s] \in Int
  BY <1>10
<1>12. \A s \in SUBSET S : s \in AnyOrder
  <2>1. ASSUME NEW s \in SUBSET S, \A x \in s : s \ {x} \in AnyOrder PROVE s \in AnyOrder
    <3> SUFFICES ASSUME NEW x \in s PROVE iter[s] = f[x] + iter[s \ {x}]
      OBVIOUS
    <3> DEFINE y == c(s)
    <3>1. iter[s] = f[y] + iter[s \ {y}] /\ y \in s
      BY <1>9
    <3> HIDE DEF y
    <3>2. CASE x = y
      BY <3>1, <3>2
    <3>3. CASE x # y
      <4>1. s \ {y} \in AnyOrder /\ s \ {x} \in AnyOrder /\ x \in s \ {y} /\ y \in s \ {x}
        BY <2>1, <3>1, <3>3
      <4>2. iter[s \ {y}] = f[x] + iter[(s \ {y}) \ {x}]
        BY <4>1
      <4>3. iter[s \ {x}] = f[y] + iter[(s \ {x}) \ {y}]
        BY <4>1
      <4>4. (s \ {y}) \ {x} = (s \ {x}) \ {y} /\ (s \ {y}) \ {x} \in SUBSET S
        OBVIOUS
      <4>5. f[x] \in Int /\ f[y] \in Int /\ iter[(s \ {y}) \ {x}] \in Int
        BY <1>2, <1>11, <3>1, <4>4
      <4> DEFINE rest == iter[(s \ {y}) \ {x}]
      <4>6. iter[s] = f[y] + (f[x] + rest)
        BY <3>1, <4>2
      <4>7. iter[s \ {x}] = f[y] + rest
        BY <4>3, <4>4
      <4>8. rest \in Int
        BY <4>5
      <4> HIDE DEF AnyOrder, rest
      <4> QED
        BY <4>5, <4>6, <4>7, <4>8
    <3> QED
      BY <3>2, <3>3
  <2> HIDE DEF AnyOrder
  <2> QED
    BY <1>2, <2>1, SubsetInduction
<1>13. \A s \in SUBSET S : \A x \in s : iter[s] = f[x] + iter[s \ {x}]
  BY <1>12
<1>14. Totals(iter, f)
  BY <1>9, <1>11, <1>13 DEF Totals, S
<1> QED
  BY <1>1, <1>14 DEF S

\* What grows by f(x) with every element x is the sum.
LEMMA SumIs ==
  ASSUME NEW f, Numbers(f), NEW h, h[{}] = 0,
         \A s \in SUBSET DOMAIN f : \A x \in s : h[s] = f[x] + h[s \ {x}]
  PROVE  SumFunction(f) = h[DOMAIN f] /\ SumFunction(f) \in Int
<1>1. PICK g : Totals(g, f) /\ SumFunction(f) = g[DOMAIN f]
  BY SumTotals
<1> DEFINE G == {s \in SUBSET DOMAIN f : g[s] = h[s]}
<1>2. ASSUME NEW s \in SUBSET DOMAIN f, \A x \in s : s \ {x} \in G PROVE s \in G
  <2>1. CASE s = {}
    BY <1>1, <2>1 DEF Totals
  <2>2. CASE s # {}
    <3>1. PICK x \in s : TRUE
      BY <2>2
    <3>2. g[s] = f[x] + g[s \ {x}] /\ h[s] = f[x] + h[s \ {x}]
      BY <1>1 DEF Totals
    <3>3. g[s \ {x}] = h[s \ {x}]
      BY <1>2
    <3> QED
      BY <3>2, <3>3
  <2> QED
    BY <2>1, <2>2
<1>3. IsFiniteSet(DOMAIN f)
  BY DEF Numbers
<1> HIDE DEF G
<1>4. DOMAIN f \in G
  <2>1. \A s \in SUBSET DOMAIN f : s \in G
    BY <1>2, <1>3, SubsetInduction
  <2> QED
    BY <2>1
<1>5. g[DOMAIN f] = h[DOMAIN f]
  BY <1>4 DEF G
<1>6. g[DOMAIN f] \in Int
  BY <1>1 DEF Totals
<1> QED
  BY <1>1, <1>5, <1>6

LEMMA SumOfZeros ==
  ASSUME NEW f, Numbers(f), \A x \in DOMAIN f : f[x] = 0
  PROVE  SumFunction(f) = 0
<1> DEFINE h == [s \in SUBSET DOMAIN f |-> 0]
<1>1. h[{}] = 0 /\ h[DOMAIN f] = 0
      /\ \A s \in SUBSET DOMAIN f : \A x \in s : h[s] = f[x] + h[s \ {x}]
  OBVIOUS
<1> HIDE DEF h
<1> QED
  BY <1>1, SumIs

\* The sum over a part of the domain is one of the totals.
LEMMA SumOfPart ==
  ASSUME NEW f, Numbers(f), NEW g, Totals(g, f), NEW T \in SUBSET DOMAIN f,
         NEW part, part = [x \in T |-> f[x]]
  PROVE  Numbers(part) /\ SumFunction(part) = g[T] /\ SumFunction(part) \in Int
<1>1. Numbers(part) /\ DOMAIN part = T
  BY FS_Subset DEF Numbers
<1>2. g[{}] = 0 /\ \A s \in SUBSET T : \A x \in s : g[s] = part[x] + g[s \ {x}]
  BY DEF Totals
<1> QED
  BY <1>1, <1>2, SumIs

LEMMA SumOfTwoParts ==
  ASSUME NEW f, Numbers(f), NEW A, NEW B, A \cap B = {}, DOMAIN f = A \cup B,
         NEW fA, fA = [x \in A |-> f[x]], NEW fB, fB = [x \in B |-> f[x]]
  PROVE  /\ SumFunction(f) = SumFunction(fA) + SumFunction(fB)
         /\ SumFunction(fA) \in Int /\ SumFunction(fB) \in Int
         /\ Numbers(fA) /\ Numbers(fB)
<1>1. PICK g : Totals(g, f)
  BY SumTotals
<1>2. /\ SumFunction(fA) = g[A] /\ SumFunction(fB) = g[B]
      /\ SumFunction(fA) \in Int /\ SumFunction(fB) \in Int
      /\ Numbers(fA) /\ Numbers(fB)
  BY <1>1, SumOfPart
<1> DEFINE h == [s \in SUBSET DOMAIN f |-> g[s \cap A] + g[s \cap B]]
<1>3. \A s \in SUBSET DOMAIN f : h[s] = g[s \cap A] + g[s \cap B]
  OBVIOUS
<1> HIDE DEF h
<1>4. h[{}] = 0
  <2>1. {} \cap A = {} /\ {} \cap B = {} /\ g[{}] = 0
    BY <1>1 DEF Totals
  <2>2. h[{}] = g[{} \cap A] + g[{} \cap B]
    BY <1>3
  <2>3. h[{}] = g[{}] + g[{}]
    BY <2>1, <2>2, Zenon
  <2> QED
    BY <2>1, <2>3
<1>5. ASSUME NEW s \in SUBSET DOMAIN f, NEW x \in s PROVE h[s] = f[x] + h[s \ {x}]
  <2>1. /\ h[s] = g[s \cap A] + g[s \cap B]
        /\ h[s \ {x}] = g[(s \ {x}) \cap A] + g[(s \ {x}) \cap B]
    BY <1>3
  <2>2. /\ g[s \cap A] \in Int /\ g[s \cap B] \in Int /\ f[x] \in Int
        /\ g[(s \ {x}) \cap A] \in Int /\ g[(s \ {x}) \cap B] \in Int
    BY <1>1 DEF Totals, Numbers
  <2>3. CASE x \in A
    <3>1. (s \ {x}) \cap A = (s \cap A) \ {x} /\ (s \ {x}) \cap B = s \cap B
      BY <2>3
    <3>2. x \in s \cap A /\ s \cap A \in SUBSET DOMAIN f
      BY <2>3
    <3> DEFINE u == g[(s \ {x}) \cap A]
               v == g[s \cap B]
    <3>3. g[s \cap A] = f[x] + u
      BY <1>1, <3>1, <3>2 DEF Totals
    <3>4. u \in Int /\ v \in Int /\ f[x] \in Int
      BY <2>2
    <3>5. h[s] = (f[x] + u) + v /\ h[s \ {x}] = u + v
      BY <2>1, <3>1, <3>3
    <3> HIDE DEF u, v
    <3> QED
      BY <3>4, <3>5
  <2>4. CASE x \in B
    <3>1. (s \ {x}) \cap B = (s \cap B) \ {x} /\ (s \ {x}) \cap A = s \cap A
      BY <2>4
    <3>2. x \in s \cap B /\ s \cap B \in SUBSET DOMAIN f
      BY <2>4
    <3> DEFINE u == g[(s \ {x}) \cap B]
               v == g[s \cap A]
    <3>3. g[s \cap B] = f[x] + u
      BY <1>1, <3>1, <3>2 DEF Totals
    <3>4. u \in Int /\ v \in Int /\ f[x] \in Int
      BY <2>2
    <3>5. h[s] = v + (f[x] + u) /\ h[s \ {x}] = v + u
      BY <2>1, <3>1, <3>3
    <3> HIDE DEF u, v
    <3> QED
      BY <3>4, <3>5
  <2> QED
    BY <2>3, <2>4
<1>6. SumFunction(f) = h[DOMAIN f]
  BY <1>4, <1>5, SumIs
<1>7. DOMAIN f \cap A = A /\ DOMAIN f \cap B = B
  OBVIOUS
<1> QED
  BY <1>2, <1>3, <1>6, <1>7

\* Of what is counted only on T.
LEMMA SumOfSome ==
  ASSUME NEW f, Numbers(f), NEW T \in SUBSET DOMAIN f,
         NEW part, part = [x \in T |-> f[x]],
         NEW some, some = [x \in DOMAIN f |-> IF x \in T THEN f[x] ELSE 0]
  PROVE  SumFunction(some) = SumFunction(part) /\ Numbers(some) /\ SumFunction(part) \in Int
<1> DEFINE B == DOMAIN f \ T
           rest == [x \in B |-> some[x]]
           same == [x \in T |-> some[x]]
<1>1. Numbers(some) /\ DOMAIN some = T \cup B /\ T \cap B = {}
  BY DEF Numbers
<1>2. same = part /\ DOMAIN rest = B /\ \A x \in B : rest[x] = 0
  OBVIOUS
<1>3. /\ SumFunction(some) = SumFunction(same) + SumFunction(rest)
      /\ SumFunction(same) \in Int /\ Numbers(rest)
  <2> HIDE DEF B
  <2> QED
    BY <1>1, SumOfTwoParts
<1> HIDE DEF rest, same, B
<1>4. SumFunction(rest) = 0
  BY <1>2, <1>3, SumOfZeros
<1> QED
  BY <1>1, <1>2, <1>3, <1>4

LEMMA Products ==
  ASSUME NEW a \in Int, NEW b \in Int
  PROVE  \A u, v, w, p, q, r \in Int :
           (u + v) * a - b * (w + p) - (q + r) = (u * a - b * w - q) + (v * a - b * p - r)
<1> SUFFICES ASSUME NEW u \in Int, NEW v \in Int, NEW w \in Int, NEW p \in Int,
                    NEW q \in Int, NEW r \in Int
             PROVE  (u + v) * a - b * (w + p) - (q + r) = (u * a - b * w - q) + (v * a - b * p - r)
  OBVIOUS
<1>1. (u + v) * a = u * a + v * a /\ b * (w + p) = b * w + b * p
  OBVIOUS
<1>2. u * a \in Int /\ v * a \in Int /\ b * w \in Int /\ b * p \in Int
  OBVIOUS
<1> QED
  BY <1>1, <1>2

LEMMA SumOfDifferences ==
  ASSUME NEW f, Numbers(f), NEW h, Numbers(h), NEW i, Numbers(i),
         DOMAIN h = DOMAIN f, DOMAIN i = DOMAIN f, NEW a \in Int, NEW b \in Int,
         NEW diff \in [DOMAIN f -> Int],
         \A x \in DOMAIN f : diff[x] = f[x] * a - b * h[x] - i[x]
  PROVE  /\ SumFunction(diff) = SumFunction(f) * a - b * SumFunction(h) - SumFunction(i)
         /\ Numbers(diff)
<1>1. PICK F : Totals(F, f) /\ SumFunction(f) = F[DOMAIN f]
  BY SumTotals
<1>2. PICK H : Totals(H, h) /\ SumFunction(h) = H[DOMAIN h]
  BY SumTotals
<1>3. PICK I : Totals(I, i) /\ SumFunction(i) = I[DOMAIN i]
  BY SumTotals
<1> DEFINE g == [s \in SUBSET DOMAIN f |-> F[s] * a - b * H[s] - I[s]]
<1>4. Numbers(diff) /\ DOMAIN diff = DOMAIN f
  BY DEF Numbers
<1>5. \A s \in SUBSET DOMAIN f : g[s] = F[s] * a - b * H[s] - I[s]
  OBVIOUS
<1> HIDE DEF g
<1>6. g[{}] = 0
  BY <1>1, <1>2, <1>3, <1>5 DEF Totals
<1>7. ASSUME NEW s \in SUBSET DOMAIN f, NEW x \in s PROVE g[s] = diff[x] + g[s \ {x}]
  <2>1. /\ F[s] = f[x] + F[s \ {x}] /\ H[s] = h[x] + H[s \ {x}] /\ I[s] = i[x] + I[s \ {x}]
        /\ F[s \ {x}] \in Int /\ H[s \ {x}] \in Int /\ I[s \ {x}] \in Int
    BY <1>1, <1>2, <1>3 DEF Totals
  <2>2. f[x] \in Int /\ h[x] \in Int /\ i[x] \in Int /\ diff[x] = f[x] * a - b * h[x] - i[x]
    BY DEF Numbers
  <2>3. g[s] = F[s] * a - b * H[s] - I[s]
        /\ g[s \ {x}] = F[s \ {x}] * a - b * H[s \ {x}] - I[s \ {x}]
    BY <1>5
  <2>4. \A u, v, w, p, q, r \in Int :
          (u + v) * a - b * (w + p) - (q + r)
            = (u * a - b * w - q) + (v * a - b * p - r)
    BY Products
  <2> DEFINE u == f[x] v == F[s \ {x}] w == h[x] p == H[s \ {x}] q == i[x] r == I[s \ {x}]
  <2>5. /\ g[s] = (u + v) * a - b * (w + p) - (q + r)
        /\ diff[x] = u * a - b * w - q /\ g[s \ {x}] = v * a - b * p - r
    BY <2>1, <2>2, <2>3
  <2>6. u \in Int /\ v \in Int /\ w \in Int /\ p \in Int /\ q \in Int /\ r \in Int
    BY <2>1, <2>2
  <2> HIDE DEF u, v, w, p, q, r
  <2> QED
    BY <2>4, <2>5, <2>6
<1>8. SumFunction(diff) = g[DOMAIN f]
  <2>1. \A s \in SUBSET DOMAIN diff : \A x \in s : g[s] = diff[x] + g[s \ {x}]
    BY <1>4, <1>7
  <2>2. SumFunction(diff) = g[DOMAIN diff]
    BY <1>4, <1>6, <2>1, SumIs
  <2> QED
    BY <1>4, <2>2
<1> QED
  BY <1>1, <1>2, <1>3, <1>4, <1>5, <1>8

\* The sum over disjoint parts is the sum of their sums.
LEMMA SumByParts ==
  ASSUME NEW a, Numbers(a), NEW I, IsFiniteSet(I), NEW part,
         \A i \in I : part[i] \in SUBSET DOMAIN a,
         \A i, j \in I : i # j => part[i] \cap part[j] = {},
         NEW each \in [I -> Int], \A i \in I : each[i] = SumFunction([x \in part[i] |-> a[x]]),
         NEW T, T = UNION {part[i] : i \in I}
  PROVE  SumFunction([x \in T |-> a[x]]) = SumFunction(each) /\ Numbers(each)
<1> DEFINE Over(X) == [x \in X |-> a[x]]
           U(s) == UNION {part[i] : i \in s}
<1>1. PICK g : Totals(g, a)
  BY SumTotals
<1>2. ASSUME NEW X \in SUBSET DOMAIN a
      PROVE  Numbers(Over(X)) /\ SumFunction(Over(X)) = g[X] /\ g[X] \in Int
  BY <1>1, SumOfPart
<1>3. \A i \in I : each[i] = g[part[i]] /\ each[i] \in Int
  <2> SUFFICES ASSUME NEW i \in I PROVE each[i] = g[part[i]] /\ each[i] \in Int
    OBVIOUS
  <2>1. each[i] = SumFunction(Over(part[i])) /\ part[i] \in SUBSET DOMAIN a
    OBVIOUS
  <2> HIDE DEF Over
  <2> QED
    BY <1>2, <2>1
<1>4. DOMAIN each = I /\ Numbers(each)
  BY <1>3 DEF Numbers
<1> DEFINE h == [s \in SUBSET I |-> g[U(s)]]
<1>5. \A s \in SUBSET I : h[s] = g[U(s)] /\ U(s) \in SUBSET DOMAIN a
  OBVIOUS
<1>6. U({}) = {} /\ U(I) = T
  OBVIOUS
<1> HIDE DEF h
<1>7. h[{}] = 0
  BY <1>1, <1>5, <1>6 DEF Totals
<1>8. ASSUME NEW s \in SUBSET I, NEW i \in s PROVE h[s] = each[i] + h[s \ {i}]
  <2> DEFINE A == part[i]
             B == U(s \ {i})
             f == Over(U(s))
             fA == Over(A)
             fB == Over(B)
  <2>1. A \cap B = {} /\ A \cup B = U(s)
    OBVIOUS
  <2>2. DOMAIN f = A \cup B /\ fA = [x \in A |-> f[x]] /\ fB = [x \in B |-> f[x]]
    BY <2>1
  <2>3. /\ U(s) \in SUBSET DOMAIN a /\ A \in SUBSET DOMAIN a /\ B \in SUBSET DOMAIN a
        /\ s \ {i} \in SUBSET I
    BY <1>5
  <2>4. /\ Numbers(f) /\ SumFunction(f) = g[U(s)]
        /\ SumFunction(fA) = g[A] /\ SumFunction(fB) = g[B]
    <3> HIDE DEF Over, U, A, B
    <3> QED
      BY <1>2, <2>3
  <2>5. h[s] = g[U(s)] /\ h[s \ {i}] = g[B] /\ each[i] = g[A]
    BY <1>3, <1>5, <2>3
  <2>6. SumFunction(f) = SumFunction(fA) + SumFunction(fB)
    <3>1. Numbers(f) /\ A \cap B = {}
      BY <2>1, <2>4
    <3> HIDE DEF f, fA, fB, A, B, U
    <3> QED
      BY <2>2, <3>1, SumOfTwoParts
  <2> QED
    BY <2>4, <2>5, <2>6, Zenon
<1>9. SumFunction(each) = h[I]
  <2>1. \A s \in SUBSET DOMAIN each : \A i \in s : h[s] = each[i] + h[s \ {i}]
    BY <1>4, <1>8
  <2> HIDE DEF U, Over
  <2> QED
    BY <1>4, <1>7, <2>1, SumIs
<1>10. SumFunction(Over(T)) = g[T]
  <2>1. T \in SUBSET DOMAIN a
    OBVIOUS
  <2> HIDE DEF Over
  <2> QED
    BY <1>2, <2>1
<1>11. h[I] = g[T]
  BY <1>5, <1>6
<1> QED
  BY <1>4, <1>9, <1>10, <1>11

-----------------------------------------------------------------------------
(* What purchases cost *)

LEMMA CostOfTwo ==
  ASSUME Booked, NEW A \in SUBSET bookings, NEW B \in SUBSET bookings, A \cap B = {}
  PROVE  /\ Cost(A \cup B) = Cost(A) + Cost(B)
         /\ Cost(A) \in Int /\ Cost(B) \in Int
<1> DEFINE f == [b \in A \cup B |-> -b.amount]
           fA == [b \in A |-> -b.amount]
           fB == [b \in B |-> -b.amount]
<1>1. Cost(A \cup B) = SumFunction(f) /\ Cost(A) = SumFunction(fA) /\ Cost(B) = SumFunction(fB)
  BY DEF Cost
<1>2. DOMAIN f = A \cup B /\ fA = [b \in A |-> f[b]] /\ fB = [b \in B |-> f[b]]
  OBVIOUS
<1>3. Numbers(f)
  <2>1. IsFiniteSet(A \cup B)
    BY FS_Subset DEF Booked
  <2>2. f \in [A \cup B -> Int]
    BY DEF Booked
  <2> QED
    BY <2>1, <2>2 DEF Numbers
<1> HIDE DEF f, fA, fB
<1> QED
  BY <1>1, <1>2, <1>3, SumOfTwoParts

LEMMA CostOfParts ==
  ASSUME Booked, NEW I, IsFiniteSet(I), NEW part,
         \A i \in I : part[i] \in SUBSET bookings,
         \A i, j \in I : i # j => part[i] \cap part[j] = {},
         NEW each \in [I -> Int], \A i \in I : each[i] = Cost(part[i]),
         NEW T, T = UNION {part[i] : i \in I}
  PROVE  Cost(T) = SumFunction(each) /\ Numbers(each)
<1> DEFINE a == [b \in bookings |-> -b.amount]
<1>1. Numbers(a) /\ DOMAIN a = bookings
  BY DEF Numbers, Booked
<1>2. \A X \in SUBSET bookings : Cost(X) = SumFunction([x \in X |-> a[x]])
  <2> SUFFICES ASSUME NEW X \in SUBSET bookings PROVE Cost(X) = SumFunction([x \in X |-> a[x]])
    OBVIOUS
  <2>1. [b \in X |-> -b.amount] = [x \in X |-> a[x]]
    OBVIOUS
  <2> QED
    BY <2>1 DEF Cost
<1> HIDE DEF a
<1>3. \A i \in I : each[i] = SumFunction([x \in part[i] |-> a[x]])
  BY <1>2
<1>4. T \in SUBSET bookings
  OBVIOUS
<1>5. Cost(T) = SumFunction([x \in T |-> a[x]])
  BY <1>2, <1>4
<1>6. SumFunction([x \in T |-> a[x]]) = SumFunction(each) /\ Numbers(each)
  BY <1>1, <1>3, SumByParts
<1> QED
  BY <1>5, <1>6

\* Pots of one owner, with no category in common, share what was spent on them.
LEMMA PotsShareTheWeek ==
  ASSUME Booked, NEW ids, IsFiniteSet(ids), NEW view, \A id \in ids : pots[id].owner = view,
         \A i, j \in ids : i # j => pots[i].keys \cap pots[j].keys = {},
         NEW lo, NEW hi,
         NEW each \in [ids -> Int], \A id \in ids : each[id] = SpentBetween(pots[id], lo, hi)
  PROVE  SpentOn(ids, lo, hi) = SumFunction(each) /\ Numbers(each)
<1> DEFINE part == [id \in ids |-> {b \in PotBookings(pots[id]) :
                                      b.category \in pots[id].keys /\ b.day \in lo .. hi}]
           T == {b \in WeekBookings(ids) : b.category \in Keys(ids) /\ b.day \in lo .. hi}
<1>1. SpentOn(ids, lo, hi) = Cost(T)
  BY DEF SpentOn
<1>2. \A id \in ids : each[id] = Cost(part[id])
  BY DEF SpentBetween
<1>3. \A id \in ids : part[id] \in SUBSET bookings
  BY DEF PotBookings
<1>4. \A i, j \in ids : i # j => part[i] \cap part[j] = {}
  OBVIOUS
<1>5. T = UNION {part[id] : id \in ids}
  BY DEF WeekBookings, Keys, PotBookings
<1> HIDE DEF part, T
<1>6. Cost(T) = SumFunction(each) /\ Numbers(each)
  BY <1>2, <1>3, <1>4, <1>5, CostOfParts
<1> QED
  BY <1>1, <1>6

-----------------------------------------------------------------------------
(* The week and the pots *)

\* The budgets of the pots, in memory and in the file, are numbers.
Prices(ps) ==
  /\ IsFiniteSet(DOMAIN ps)
  /\ \A id \in DOMAIN ps : "budget" \in DOMAIN ps[id] /\ ps[id].budget \in Int

Priced == Prices(pots) /\ Prices(stored)

LEMMA InitPriced == Init => Priced
<1>1. DOMAIN <<>> = {}
  OBVIOUS
<1> QED
  BY <1>1, FS_EmptySet DEF Init, Priced, Prices

LEMMA StepPriced == Priced /\ [Next]_vars => Priced'
<1> SUFFICES ASSUME Priced, [Next]_vars PROVE Priced'
  OBVIOUS
<1>1. ASSUME NEW ps, Prices(ps), pots' = ps, stored' = ps PROVE Priced'
  BY <1>1 DEF Priced, Prices
<1>2. ASSUME NEW d \in Drafts, NEW decisions, NEW id
      PROVE  Prices(Put(pots, id, PotOf(d, decisions)))
  <2> DEFINE pot == PotOf(d, decisions)
             new == Put(pots, id, pot)
  <2>1. "budget" \in DOMAIN pot /\ pot.budget \in Int
    BY PotsAssumption DEF PotOf
  <2>2. IsFiniteSet(DOMAIN pots \cup {id})
    BY FS_AddElement DEF Priced, Prices
  <2>3. DOMAIN new = DOMAIN pots \cup {id} /\ new[id] = pot
        /\ \A k \in DOMAIN pots : k # id => new[k] = pots[k]
    BY DEF Put
  <2> HIDE DEF pot, new
  <2>4. \A k \in DOMAIN new : "budget" \in DOMAIN new[k] /\ new[k].budget \in Int
    BY <2>1, <2>3 DEF Priced, Prices
  <2> QED
    BY <2>2, <2>3, <2>4 DEF Prices, new, pot
<1>3. CASE pots' = pots /\ stored' = stored
  BY <1>3 DEF Priced
<1>4. ASSUME NEW d \in Drafts, CreatePot(d) PROVE Priced'
  <2>1. PICK n \in 1 .. MaxPots : Save(Put(pots, <<d.name, d.owner, n>>, PotOf(d, <<>>)))
    BY <1>4 DEF CreatePot
  <2> QED
    BY <1>1, <1>2, <2>1 DEF Save
<1>5. ASSUME NEW id \in DOMAIN pots, NEW d \in Drafts, ReplacePot(id, d) PROVE Priced'
  BY <1>1, <1>2, <1>5 DEF ReplacePot, Save
<1>6. ASSUME NEW id \in DOMAIN pots, NEW action \in {"accept", "drop"}, SetCarry(id, action)
      PROVE  Priced'
  <2> DEFINE week == WeekStart(today)
             new == [pots EXCEPT ![id] = Decided(@, week, action)]
  <2>1. CASE pots' = pots /\ stored' = stored
    BY <1>3, <2>1
  <2>2. CASE pots' = new /\ stored' = new
    <3>1. DOMAIN new = DOMAIN pots /\ new[id] = Decided(pots[id], week, action)
          /\ \A k \in DOMAIN pots : k # id => new[k] = pots[k]
      OBVIOUS
    <3> HIDE DEF new, week
    <3>2. "budget" \in DOMAIN new[id] /\ new[id].budget \in Int
      BY <3>1 DEF Decided, Priced, Prices
    <3>3. Prices(new)
      BY <3>1, <3>2 DEF Priced, Prices
    <3> QED
      BY <1>1, <2>2, <3>3
  <2> QED
    BY <1>6, <2>1, <2>2 DEF SetCarry, Save
<1>7. ASSUME NEW id \in DOMAIN pots, DeletePot(id) PROVE Priced'
  <2>1. Prices(Without(pots, id))
    BY FS_Subset DEF Without, Priced, Prices
  <2> QED
    BY <1>1, <1>7, <2>1 DEF DeletePot, Save
<1>8. ASSUME NEW readable \in BOOLEAN, Restart(readable) PROVE Priced'
  <2> DEFINE loaded == [id \in DOMAIN stored |->
                          [stored[id] EXCEPT !.decisions = CleanDecisions(@)]]
  <2>1. Prices(<<>>)
    <3>1. DOMAIN <<>> = {}
      OBVIOUS
    <3> QED
      BY <3>1, FS_EmptySet DEF Prices
  <2>2. Prices(loaded)
    BY DEF Priced, Prices
  <2>3. pots' \in {<<>>, loaded} /\ stored' = stored
    BY <1>8 DEF Restart
  <2>4. Prices(pots')
    BY <2>1, <2>2, <2>3
  <2> QED
    BY <2>3, <2>4 DEF Priced
<1>9. CASE NewDay
  BY <1>3, <1>9 DEF NewDay
<1>10. ASSUME NEW b \in Bookable, Book(b) PROVE Priced'
  BY <1>3, <1>10 DEF Book
<1>11. CASE UNCHANGED vars
  BY <1>3, <1>11 DEF vars
<1> QED
  BY <1>4, <1>5, <1>6, <1>7, <1>8, <1>9, <1>10, <1>11 DEF Next

LEMMA LesserOfTwo ==
  ASSUME NEW a \in Int, NEW b \in Int
  PROVE  (a <= b => Min({a, b}) = a) /\ (b <= a => Min({a, b}) = b)
<1>1. IsFiniteSet({a, b})
  <2>1. IsFiniteSet({a} \cup {b})
    BY FS_Singleton, FS_AddElement
  <2>2. {a} \cup {b} = {a, b}
    OBVIOUS
  <2> QED
    BY <2>1, <2>2
<1>2. {a, b} \in SUBSET Int /\ {a, b} # {}
  OBVIOUS
<1>3. Min({a, b}) \in {a, b} /\ \A y \in {a, b} : Min({a, b}) <= y
  BY <1>1, <1>2, Extremes
<1> QED
  BY <1>3

\* What was spent is a number, and what was spent on both sides of a day adds up.
LEMMA SpentAddsUp ==
  ASSUME Booked, NEW ids, NEW lo \in Int, NEW mid \in Int, NEW hi \in Int, lo <= mid, mid <= hi
  PROVE  /\ SpentOn(ids, lo, hi) = SpentOn(ids, lo, mid - 1) + SpentOn(ids, mid, hi)
         /\ SpentOn(ids, lo, mid - 1) \in Int /\ SpentOn(ids, mid, hi) \in Int
<1> DEFINE On(from, to) == {b \in WeekBookings(ids) :
                              b.category \in Keys(ids) /\ b.day \in from .. to}
<1>1. \A from, to : SpentOn(ids, from, to) = Cost(On(from, to))
  BY DEF SpentOn
<1>2. \A b \in bookings : b.day \in Int
  BY DEF Booked
<1>3. WeekBookings(ids) \subseteq bookings
  BY DEF WeekBookings, PotBookings
<1>4. On(lo, mid - 1) \in SUBSET bookings /\ On(mid, hi) \in SUBSET bookings
  BY <1>3
<1>5. On(lo, mid - 1) \cap On(mid, hi) = {}
  OBVIOUS
<1>6. On(lo, hi) = On(lo, mid - 1) \cup On(mid, hi)
  BY <1>2, <1>3
<1> HIDE DEF On
<1>7. /\ Cost(On(lo, mid - 1) \cup On(mid, hi)) = Cost(On(lo, mid - 1)) + Cost(On(mid, hi))
      /\ Cost(On(lo, mid - 1)) \in Int /\ Cost(On(mid, hi)) \in Int
  BY <1>4, <1>5, CostOfTwo
<1> QED
  BY <1>1, <1>6, <1>7

LEMMA SpentIsANumber ==
  ASSUME Booked, NEW pot, NEW lo, NEW hi
  PROVE  SpentBetween(pot, lo, hi) \in Int
<1> DEFINE T == {b \in PotBookings(pot) : b.category \in pot.keys /\ b.day \in lo .. hi}
<1>1. SpentBetween(pot, lo, hi) = Cost(T)
  BY DEF SpentBetween
<1>2. T \in SUBSET bookings /\ {} \in SUBSET bookings /\ T \cap {} = {}
  BY DEF PotBookings
<1> HIDE DEF T
<1>3. Cost(T) \in Int
  BY <1>2, CostOfTwo
<1> QED
  BY <1>1, <1>3

\* Pots of one owner, with no category in common, in a cycle that has today.
ShownPots(ids, view, cycle) ==
  /\ ids \subseteq DOMAIN pots
  /\ \A id \in ids : pots[id].owner = view
  /\ \A i, j \in ids : i # j => pots[i].keys \cap pots[j].keys = {}
  /\ cycle.start \in Int /\ cycle.end \in Int /\ cycle.start <= today /\ today <= cycle.end

Dropped(ids) == {id \in ids : Decision(pots[id], WeekStart(today)) = "drop"}

\* What each of the pots carries into this week.
CarryOf(ids, cycle) == [id \in ids |-> CarryInWeek(pots[id], cycle)]

LEMMA CarryOfAPot ==
  ASSUME Booked, Priced, NEW ids, NEW view, NEW cycle, ShownPots(ids, view, cycle), NEW id \in ids
  PROVE  /\ CarryInWeek(pots[id], cycle) \in Int
         /\ WeekStart(today) <= cycle.start => CarryInWeek(pots[id], cycle) = 0
         /\ WeekStart(today) > cycle.start =>
              CarryInWeek(pots[id], cycle) =
                pots[id].budget * (WeekStart(today) - cycle.start)
                  - Days(cycle) * SpentBetween(pots[id], cycle.start, WeekStart(today) - 1)
<1> DEFINE w == WeekStart(today) pot == pots[id] D == Days(cycle)
<1>1. w \in Int /\ w <= today /\ today \in Nat
  BY WeeksGoOn DEF Booked
<1>2. /\ cycle.start \in Int /\ cycle.end \in Int /\ cycle.start <= today /\ today <= cycle.end
      /\ id \in DOMAIN pots
  BY DEF ShownPots
<1>3. pot.budget \in Int
  BY <1>2 DEF Priced, Prices
<1>4. D \in Int
  <2>1. 1 \in Int /\ cycle.end - cycle.start + 1 \in Int
    BY <1>2
  <2> QED
    BY <2>1, GreaterOfTwo DEF Days
<1>5. SpentBetween(pot, cycle.start, w - 1) \in Int
  BY SpentIsANumber
<1>6. Min({w - 1, cycle.end}) = w - 1
  <2>1. w - 1 \in Int /\ w - 1 <= cycle.end
    BY <1>1, <1>2
  <2> QED
    BY <1>2, <2>1, LesserOfTwo
<1>7. CarryInWeek(pot, cycle) =
        IF w - 1 < cycle.start THEN 0
        ELSE pot.budget * (w - cycle.start) - D * SpentBetween(pot, cycle.start, w - 1)
  BY <1>6 DEF CarryInWeek
<1>8. w <= cycle.start <=> w - 1 < cycle.start
  BY <1>1, <1>2
<1> HIDE DEF w, D, pot
<1>9. pot.budget * (w - cycle.start) - D * SpentBetween(pot, cycle.start, w - 1) \in Int
  BY <1>1, <1>2, <1>3, <1>4, <1>5
<1>10. w \in Int /\ cycle.start \in Int
  BY <1>1, <1>2
<1> QED
  BY <1>7, <1>8, <1>9, <1>10 DEF w, D, pot

LEMMA BalanceOfAPot ==
  ASSUME Booked, Priced, NEW ids, NEW view, NEW cycle, ShownPots(ids, view, cycle), NEW id \in ids
  PROVE  PotBalance(pots[id], cycle) =
           pots[id].budget * (today - cycle.start + 1)
             - Days(cycle) * SpentBetween(pots[id], cycle.start, today)
             - (IF id \in Dropped(ids) THEN CarryInWeek(pots[id], cycle) ELSE 0)
<1>1. /\ cycle.start \in Int /\ cycle.end \in Int /\ cycle.start <= today /\ today <= cycle.end
      /\ today \in Int
  BY DEF ShownPots, Booked
<1>2. Max({today, cycle.start - 1}) = today
  <2>1. cycle.start - 1 \in Int /\ ~(cycle.start - 1 >= today)
    BY <1>1
  <2> QED
    BY <1>1, <2>1, GreaterOfTwo
<1>3. Min({today, cycle.end}) = today
  BY <1>1, LesserOfTwo
<1>4. PotBalance(pots[id], cycle) =
        pots[id].budget * (today - cycle.start + 1)
          - Days(cycle) * SpentBetween(pots[id], cycle.start, today)
          - (IF Decision(pots[id], WeekStart(today)) = "drop"
             THEN CarryInWeek(pots[id], cycle) ELSE 0)
  BY <1>2, <1>3 DEF PotBalance
<1>5. id \in Dropped(ids) <=> Decision(pots[id], WeekStart(today)) = "drop"
  BY DEF Dropped
<1> QED
  BY <1>4, <1>5

\* The numbers of the pots a view shows.
LEMMA NumbersOfPots ==
  ASSUME Booked, Priced, NEW ids, NEW view, NEW cycle, ShownPots(ids, view, cycle)
  PROVE  /\ IsFiniteSet(ids) /\ Dropped(ids) \in SUBSET ids
         /\ Numbers([id \in ids |-> pots[id].budget])
         /\ Numbers(CarryOf(ids, cycle)) /\ DOMAIN CarryOf(ids, cycle) = ids
         /\ \A lo, hi : Numbers([id \in ids |-> SpentBetween(pots[id], lo, hi)])
         /\ \A lo, hi : SpentOn(ids, lo, hi) =
                          SumFunction([id \in ids |-> SpentBetween(pots[id], lo, hi)])
         /\ Budget(ids) = SumFunction([id \in ids |-> pots[id].budget])
         /\ Budget(ids) \in Int /\ Days(cycle) \in Int
<1>1. IsFiniteSet(ids) /\ \A id \in ids : pots[id].budget \in Int
  BY FS_Subset DEF ShownPots, Priced, Prices
<1>2. Numbers([id \in ids |-> pots[id].budget])
  BY <1>1 DEF Numbers
<1>3. Numbers(CarryOf(ids, cycle)) /\ DOMAIN CarryOf(ids, cycle) = ids
  <2>1. \A id \in ids : CarryInWeek(pots[id], cycle) \in Int
    BY CarryOfAPot
  <2> QED
    BY <1>1, <2>1 DEF Numbers, CarryOf
<1>4. ASSUME NEW lo, NEW hi
      PROVE  /\ Numbers([id \in ids |-> SpentBetween(pots[id], lo, hi)])
             /\ SpentOn(ids, lo, hi) = SumFunction([id \in ids |-> SpentBetween(pots[id], lo, hi)])
  <2> DEFINE each == [id \in ids |-> SpentBetween(pots[id], lo, hi)]
  <2>1. \A id \in ids : SpentBetween(pots[id], lo, hi) \in Int
    BY SpentIsANumber
  <2>2. each \in [ids -> Int] /\ \A id \in ids : each[id] = SpentBetween(pots[id], lo, hi)
    BY <2>1
  <2>3. /\ \A id \in ids : pots[id].owner = view
        /\ \A i, j \in ids : i # j => pots[i].keys \cap pots[j].keys = {}
    BY DEF ShownPots
  <2> HIDE DEF each
  <2>4. SpentOn(ids, lo, hi) = SumFunction(each) /\ Numbers(each)
    BY <1>1, <2>2, <2>3, PotsShareTheWeek
  <2> QED
    BY <2>4 DEF each
<1>5. Budget(ids) \in Int /\ Budget(ids) = SumFunction([id \in ids |-> pots[id].budget])
  <2> DEFINE f == [id \in ids |-> pots[id].budget]
  <2>1. Budget(ids) = SumFunction(f)
    BY DEF Budget
  <2>2. Numbers(f)
    BY <1>2
  <2> HIDE DEF f
  <2>3. PICK g : Totals(g, f) /\ SumFunction(f) = g[DOMAIN f]
    BY <2>2, SumTotals
  <2>4. SumFunction(f) \in Int
    BY <2>3 DEF Totals
  <2> QED
    BY <2>1, <2>4 DEF f
<1>6. Days(cycle) \in Int
  <2>1. 1 \in Int /\ cycle.end - cycle.start + 1 \in Int
    BY DEF ShownPots
  <2> QED
    BY <2>1, GreaterOfTwo DEF Days
<1>7. Dropped(ids) \in SUBSET ids
  BY DEF Dropped
<1> QED
  BY <1>1, <1>2, <1>3, <1>4, <1>5, <1>6, <1>7

\* The carries of a week in which the cycle did not begin.
LEMMA CarriesAddUp ==
  ASSUME Booked, Priced, NEW ids, NEW view, NEW cycle, ShownPots(ids, view, cycle),
         WeekStart(today) > cycle.start
  PROVE  SumFunction(CarryOf(ids, cycle)) =
           Budget(ids) * (WeekStart(today) - cycle.start)
             - Days(cycle) * SpentOn(ids, cycle.start, WeekStart(today) - 1)
<1> DEFINE w == WeekStart(today) D == Days(cycle) carry == CarryOf(ids, cycle)
           f == [id \in ids |-> pots[id].budget]
           h == [id \in ids |-> SpentBetween(pots[id], cycle.start, w - 1)]
           i == [id \in ids |-> 0]
<1>1. /\ Numbers(f) /\ Numbers(h) /\ Numbers(carry) /\ DOMAIN carry = ids
      /\ Budget(ids) = SumFunction(f) /\ SpentOn(ids, cycle.start, w - 1) = SumFunction(h)
      /\ IsFiniteSet(ids) /\ D \in Int /\ Budget(ids) \in Int
  <2> HIDE DEF D
  <2> QED
    BY NumbersOfPots DEF D
<1>2. w - cycle.start \in Int
  <2>1. w \in Int
    BY WeeksGoOn DEF Booked
  <2> QED
    BY <2>1 DEF ShownPots
<1>3. Numbers(i) /\ DOMAIN i = ids /\ \A x \in ids : i[x] = 0
  BY <1>1 DEF Numbers
<1>4. DOMAIN f = ids /\ DOMAIN h = ids
  OBVIOUS
<1>5. ASSUME NEW x \in ids PROVE carry[x] = f[x] * (w - cycle.start) - D * h[x] - i[x]
  <2>1. carry[x] = f[x] * (w - cycle.start) - D * h[x]
    BY CarryOfAPot DEF CarryOf
  <2>2. f[x] \in Int /\ h[x] \in Int /\ i[x] = 0
    BY <1>1, <1>3 DEF Numbers
  <2> HIDE DEF w, D, f, h, i, carry
  <2>3. f[x] * (w - cycle.start) \in Int /\ D * h[x] \in Int
    BY <1>1, <1>2, <2>2
  <2> QED
    BY <2>1, <2>2, <2>3
<1>6. carry \in [ids -> Int]
  BY <1>1 DEF Numbers
<1> HIDE DEF w, D, f, h, i, carry
<1>7. SumFunction(carry) = SumFunction(f) * (w - cycle.start) - D * SumFunction(h) - SumFunction(i)
  <2> DEFINE a == w - cycle.start
  <2>1. a \in Int /\ D \in Int
    BY <1>1, <1>2
  <2>2. \A x \in ids : carry[x] = f[x] * a - D * h[x] - i[x]
    BY <1>5
  <2> HIDE DEF a
  <2>3. SumFunction(carry) = SumFunction(f) * a - D * SumFunction(h) - SumFunction(i)
    BY <1>1, <1>3, <1>4, <1>6, <2>1, <2>2, SumOfDifferences
  <2> QED
    BY <2>3 DEF a
<1>8. SumFunction(i) = 0
  BY <1>3, SumOfZeros
<1>9. SumFunction(h) \in Int /\ SumFunction(f) \in Int
  <2>1. PICK g : Totals(g, h) /\ SumFunction(h) = g[DOMAIN h]
    BY <1>1, SumTotals
  <2>2. SumFunction(h) \in Int
    BY <2>1 DEF Totals
  <2> QED
    BY <1>1, <2>2
<1>10. SumFunction(f) * (w - cycle.start) - D * SumFunction(h) \in Int
  BY <1>1, <1>2, <1>9
<1>11. SumFunction(carry) = Budget(ids) * (w - cycle.start) - D * SpentOn(ids, cycle.start, w - 1)
  BY <1>1, <1>7, <1>8, <1>10
<1> QED
  BY <1>11 DEF w, D, carry

LEMMA CarriesSplit ==
  ASSUME Booked, Priced, NEW ids, NEW view, NEW cycle, ShownPots(ids, view, cycle)
  PROVE  /\ SumFunction(CarryOf(ids, cycle)) =
              SumFunction(CarryOf(ids \ Dropped(ids), cycle))
                + SumFunction(CarryOf(Dropped(ids), cycle))
         /\ SumFunction(CarryOf(ids \ Dropped(ids), cycle)) \in Int
         /\ SumFunction(CarryOf(Dropped(ids), cycle)) \in Int
         /\ WeekStart(today) <= cycle.start =>
              /\ SumFunction(CarryOf(ids \ Dropped(ids), cycle)) = 0
              /\ SumFunction(CarryOf(Dropped(ids), cycle)) = 0
<1> DEFINE f == CarryOf(ids, cycle)
           A == ids \ Dropped(ids)
           B == Dropped(ids)
           fA == CarryOf(A, cycle)
           fB == CarryOf(B, cycle)
<1>1. Numbers(f) /\ DOMAIN f = ids /\ B \in SUBSET ids
  BY NumbersOfPots
<1>2. fA = [x \in A |-> f[x]] /\ fB = [x \in B |-> f[x]]
  BY <1>1 DEF CarryOf
<1>3. A \cap B = {} /\ DOMAIN f = A \cup B
  BY <1>1
<1>4. ASSUME WeekStart(today) <= cycle.start
      PROVE  (\A x \in DOMAIN fA : fA[x] = 0) /\ (\A x \in DOMAIN fB : fB[x] = 0)
  BY <1>1, <1>4, CarryOfAPot DEF CarryOf
<1> HIDE DEF f, A, B, fA, fB
<1>5. /\ SumFunction(f) = SumFunction(fA) + SumFunction(fB)
      /\ SumFunction(fA) \in Int /\ SumFunction(fB) \in Int
      /\ Numbers(fA) /\ Numbers(fB)
  BY <1>1, <1>2, <1>3, SumOfTwoParts
<1>6. WeekStart(today) <= cycle.start => SumFunction(fA) = 0 /\ SumFunction(fB) = 0
  BY <1>4, <1>5, SumOfZeros
<1> QED
  BY <1>5, <1>6 DEF f, A, B, fA, fB

\* The carry dropped from the strip is what the dropped pots carry.
LEMMA DroppedCarryAddsUp ==
  ASSUME Booked, Priced, NEW ids, NEW view, NEW cycle, ShownPots(ids, view, cycle),
         WeekStart(today) > cycle.start
  PROVE  DroppedCarry(ids, cycle) = SumFunction(CarryOf(Dropped(ids), cycle))
<1> DEFINE w == WeekStart(today)
           Spent(id) == {b \in WeekBookings(ids) :
                           b.category \in pots[id].keys /\ b.day \in cycle.start .. (w - 1)}
<1>1. ASSUME NEW id \in Dropped(ids)
      PROVE  CarryInWeek(pots[id], cycle) =
               pots[id].budget * (w - cycle.start) - Days(cycle) * Cost(Spent(id))
  <2>1. id \in ids
    BY DEF Dropped
  <2>2. WeekBookings(ids) = PotBookings(pots[id])
    BY <2>1 DEF WeekBookings, PotBookings, ShownPots
  <2>3. SpentBetween(pots[id], cycle.start, w - 1) = Cost(Spent(id))
    BY <2>2 DEF SpentBetween
  <2> HIDE DEF Spent
  <2> QED
    BY <2>1, <2>3, CarryOfAPot
<1>2. DroppedCarry(ids, cycle) =
        SumFunction([id \in Dropped(ids) |->
          pots[id].budget * (w - cycle.start) - Days(cycle) * Cost(Spent(id))])
  BY DEF DroppedCarry, Dropped
<1> HIDE DEF Spent, w
<1>3. CarryOf(Dropped(ids), cycle) =
        [id \in Dropped(ids) |->
          pots[id].budget * (w - cycle.start) - Days(cycle) * Cost(Spent(id))]
  BY <1>1 DEF CarryOf
<1> QED
  BY <1>2, <1>3

LEMMA BalancesAddUp ==
  ASSUME Booked, Priced, NEW ids, NEW view, NEW cycle, ShownPots(ids, view, cycle)
  PROVE  SumFunction([id \in ids |-> PotBalance(pots[id], cycle)]) =
           Budget(ids) * (today - cycle.start + 1)
             - Days(cycle) * SpentOn(ids, cycle.start, today)
             - SumFunction(CarryOf(Dropped(ids), cycle))
<1> DEFINE D == Days(cycle) e == today - cycle.start + 1
           carry == CarryOf(ids, cycle)
           f == [id \in ids |-> pots[id].budget]
           h == [id \in ids |-> SpentBetween(pots[id], cycle.start, today)]
           some == [x \in ids |-> IF x \in Dropped(ids) THEN carry[x] ELSE 0]
           part == CarryOf(Dropped(ids), cycle)
           balance == [id \in ids |-> PotBalance(pots[id], cycle)]
<1>1. /\ Numbers(f) /\ Numbers(h) /\ Numbers(carry) /\ DOMAIN carry = ids
      /\ Budget(ids) = SumFunction(f) /\ SpentOn(ids, cycle.start, today) = SumFunction(h)
      /\ IsFiniteSet(ids) /\ D \in Int /\ Dropped(ids) \in SUBSET ids
  <2> HIDE DEF D
  <2> QED
    BY NumbersOfPots DEF D
<1>2. e \in Int
  BY DEF ShownPots, Booked
<1>3. DOMAIN f = ids /\ DOMAIN h = ids /\ DOMAIN some = ids /\ DOMAIN balance = ids
  OBVIOUS
<1>4. part = [x \in Dropped(ids) |-> carry[x]]
  BY <1>1 DEF CarryOf
<1>5. ASSUME NEW x \in ids PROVE balance[x] = f[x] * e - D * h[x] - some[x]
  <2>1. some[x] = IF x \in Dropped(ids) THEN CarryInWeek(pots[x], cycle) ELSE 0
    BY DEF CarryOf
  <2> HIDE DEF some
  <2> QED
    BY <2>1, BalanceOfAPot
<1>6. some = [x \in DOMAIN carry |-> IF x \in Dropped(ids) THEN carry[x] ELSE 0]
  BY <1>1
<1>7. balance = [x \in ids |-> balance[x]]
  OBVIOUS
<1> HIDE DEF D, e, carry, f, h, some, part, balance
<1>8. SumFunction(some) = SumFunction(part) /\ Numbers(some)
  BY <1>1, <1>4, <1>6, SumOfSome
<1>9. balance \in [ids -> Int]
  <2>1. ASSUME NEW x \in ids PROVE balance[x] \in Int
    <3>1. f[x] \in Int /\ h[x] \in Int /\ some[x] \in Int
      BY <1>1, <1>3, <1>8 DEF Numbers
    <3>2. f[x] * e \in Int /\ D * h[x] \in Int
      BY <1>1, <1>2, <3>1
    <3> QED
      BY <1>5, <3>1, <3>2
  <2> QED
    BY <1>7, <2>1
<1>10. SumFunction(balance) = SumFunction(f) * e - D * SumFunction(h) - SumFunction(some)
  <2>1. \A x \in ids : balance[x] = f[x] * e - D * h[x] - some[x]
    BY <1>5
  <2> QED
    BY <1>1, <1>2, <1>3, <1>8, <1>9, <2>1, SumOfDifferences
<1> QED
  BY <1>1, <1>8, <1>10 DEF D, e, part, balance

\* What the strip shows of pots is what the pots show.
LEMMA StripAgrees ==
  ASSUME Booked, Priced, NEW ids, NEW view, NEW cycle, ShownPots(ids, view, cycle)
  PROVE  /\ CarryOver(ids, cycle) = SumFunction(CarryOf(ids \ Dropped(ids), cycle))
         /\ SumFunction([id \in ids |-> PotBalance(pots[id], cycle)]) =
              CarryOver(ids, cycle)
                + Budget(ids) * (today - Max({WeekStart(today), cycle.start}) + 1)
                - Days(cycle) * SpentThisWeek(ids, cycle)
<1> DEFINE w == WeekStart(today) D == Days(cycle) st == cycle.start b == Budget(ids)
           kept == SumFunction(CarryOf(ids \ Dropped(ids), cycle))
           gone == SumFunction(CarryOf(Dropped(ids), cycle))
           all == SumFunction([id \in ids |-> PotBalance(pots[id], cycle)])
<1>1. /\ today \in Int /\ w \in Int /\ w <= today
      /\ st \in Int /\ cycle.end \in Int /\ st <= today /\ today <= cycle.end
  BY WeeksGoOn DEF Booked, ShownPots
<1>2. b \in Int /\ D \in Int
  BY NumbersOfPots
<1>3. Min({today, cycle.end}) = today
  BY <1>1, LesserOfTwo
<1>4. kept \in Int /\ gone \in Int /\ SumFunction(CarryOf(ids, cycle)) = kept + gone
      /\ (w <= st => kept = 0 /\ gone = 0)
  BY CarriesSplit
<1>5. all = b * (today - st + 1) - D * SpentOn(ids, st, today) - gone
  BY BalancesAddUp
<1>6. SpentThisWeek(ids, cycle) = SpentOn(ids, Max({w, st}), today)
  BY <1>3 DEF SpentThisWeek
<1>7. CASE w <= st
  <2>1. CarryOver(ids, cycle) = 0
    BY <1>7 DEF CarryOver
  <2>2. Max({w, st}) = st
    <3> HIDE DEF w, st
    <3>1. Max({w, st}) \in {w, st} /\ Max({w, st}) >= st
      BY <1>1, GreaterOfTwo
    <3> QED
      BY <1>1, <1>7, <3>1
  <2>3. SpentOn(ids, st, today) \in Int
    <3>1. SpentOn(ids, st, st - 1) \in Int /\ SpentOn(ids, st, today) \in Int
      BY <1>1, SpentAddsUp
    <3> QED
      BY <3>1
  <2> HIDE DEF w, D, st, b, kept, gone, all
  <2>4. b * (today - st + 1) \in Int /\ D * SpentOn(ids, st, today) \in Int
    BY <1>1, <1>2, <2>3
  <2>5. CarryOver(ids, cycle) = kept
    BY <1>4, <1>7, <2>1
  <2>6. all = CarryOver(ids, cycle) + b * (today - Max({w, st}) + 1)
                - D * SpentThisWeek(ids, cycle)
    BY <1>4, <1>5, <1>6, <1>7, <2>1, <2>2, <2>4
  <2> QED
    BY <2>5, <2>6 DEF w, D, st, b, kept, all
<1>8. CASE w > st
  <2>1. Max({w, st}) = w
    <3> HIDE DEF w, st
    <3>1. Max({w, st}) \in {w, st} /\ Max({w, st}) >= w
      BY <1>1, GreaterOfTwo
    <3> QED
      BY <1>1, <1>8, <3>1
  <2>2. SumFunction(CarryOf(ids, cycle)) = b * (w - st) - D * SpentOn(ids, st, w - 1)
    BY <1>8, CarriesAddUp
  <2>3. CarryOver(ids, cycle) = b * (w - st) - D * SpentOn(ids, st, w - 1) - gone
    <3>1. DroppedCarry(ids, cycle) = gone
      BY <1>8, DroppedCarryAddsUp
    <3>2. ~(w <= st)
      BY <1>1, <1>8
    <3> QED
      BY <3>1, <3>2 DEF CarryOver
  <2>4. /\ SpentOn(ids, st, today) = SpentOn(ids, st, w - 1) + SpentOn(ids, w, today)
        /\ SpentOn(ids, st, w - 1) \in Int /\ SpentOn(ids, w, today) \in Int
    <3> HIDE DEF w, st
    <3> QED
      BY <1>1, <1>8, SpentAddsUp
  <2> DEFINE before == SpentOn(ids, st, w - 1) since == SpentOn(ids, w, today)
  <2>5. before \in Int /\ since \in Int /\ SpentOn(ids, st, today) = before + since
    BY <2>4
  <2>6. SpentThisWeek(ids, cycle) = since
    BY <1>6, <2>1
  <2>7. CarryOver(ids, cycle) = b * (w - st) - D * before - gone
    BY <2>3
  <2>8. kept + gone = b * (w - st) - D * before
    BY <1>4, <2>2
  <2> HIDE DEF w, D, st, b, kept, gone, all, before, since
  <2>9. /\ b * (w - st) \in Int /\ D * before \in Int /\ D * since \in Int
        /\ b * (today - w + 1) \in Int
    BY <1>1, <1>2, <2>5
  <2>10. b * (today - st + 1) = b * (w - st) + b * (today - w + 1)
    BY <1>1, <1>2
  <2>11. D * (before + since) = D * before + D * since
    BY <1>2, <2>5
  <2>12. CarryOver(ids, cycle) = kept
    <3> DEFINE x == b * (w - st) y == D * before
    <3>1. x \in Int /\ y \in Int /\ kept + gone = x - y /\ CarryOver(ids, cycle) = x - y - gone
      BY <2>7, <2>8, <2>9
    <3> HIDE DEF x, y
    <3> QED
      BY <1>4, <3>1
  <2>13. all = CarryOver(ids, cycle) + b * (today - Max({w, st}) + 1)
                 - D * SpentThisWeek(ids, cycle)
    <3>1. D * SpentOn(ids, st, today) = D * before + D * since
      BY <2>5, <2>11
    <3> DEFINE x == b * (w - st) y == D * before z == b * (today - w + 1) u == D * since
    <3>2. all = (x + z) - (y + u) - gone /\ CarryOver(ids, cycle) = x - y - gone
      BY <1>5, <2>7, <2>10, <3>1
    <3>3. x \in Int /\ y \in Int /\ z \in Int /\ u \in Int
      BY <2>9
    <3>4. Max({w, st}) = w /\ SpentThisWeek(ids, cycle) = since
      BY <2>1, <2>6
    <3>5. b * (today - Max({w, st}) + 1) = z /\ D * SpentThisWeek(ids, cycle) = u
      BY <3>4
    <3> HIDE DEF x, y, z, u
    <3> QED
      BY <1>4, <3>2, <3>3, <3>5
  <2> QED
    BY <2>12, <2>13 DEF w, D, st, b, kept, all
<1> QED
  BY <1>1, <1>7, <1>8

LEMMA BookedAgrees == Booked /\ Priced => WeekAgreesWithPots
<1> SUFFICES ASSUME Booked, Priced, NEW view \in People,
                    \A i, j \in SpendPots(view) : i # j => pots[i].keys \cap pots[j].keys = {}
             PROVE  LET ids == SpendPots(view)
                        cycle == CycleOf(view)
                        week == WeekStart(today)
                        kept == {id \in ids : Decision(pots[id], week) # "drop"}
                    IN /\ CarryOver(ids, cycle) =
                            SumFunction([id \in kept |-> CarryInWeek(pots[id], cycle)])
                       /\ SumFunction([id \in ids |-> PotBalance(pots[id], cycle)]) =
                            CarryOver(ids, cycle)
                              + Budget(ids) * (today - Max({week, cycle.start}) + 1)
                              - Days(cycle) * SpentThisWeek(ids, cycle)
  BY DEF WeekAgreesWithPots
<1> DEFINE ids == SpendPots(view)
           cycle == CycleOf(view)
           kept == {id \in ids : Decision(pots[id], WeekStart(today)) # "drop"}
<1>1. view # Shared /\ view \in People \cup {Shared}
  BY PotsAssumption
<1>2. ids \subseteq DOMAIN pots /\ \A id \in ids : pots[id].owner = view
  BY <1>1 DEF SpendPots
<1>3. /\ cycle.start \in Int /\ cycle.end \in Int
      /\ cycle.start <= today /\ today <= cycle.end
  BY <1>1, CycleHasToday
<1>4. \A i, j \in ids : i # j => pots[i].keys \cap pots[j].keys = {}
  OBVIOUS
<1> HIDE DEF ids, cycle
<1>5. ShownPots(ids, view, cycle)
  BY <1>2, <1>3, <1>4 DEF ShownPots
<1>6. kept = ids \ Dropped(ids)
  BY DEF Dropped
<1> HIDE DEF kept
<1>7. /\ CarryOver(ids, cycle) = SumFunction(CarryOf(kept, cycle))
      /\ SumFunction([id \in ids |-> PotBalance(pots[id], cycle)]) =
           CarryOver(ids, cycle)
             + Budget(ids) * (today - Max({WeekStart(today), cycle.start}) + 1)
             - Days(cycle) * SpentThisWeek(ids, cycle)
  BY <1>5, <1>6, StripAgrees
<1> QED
  BY <1>7 DEF ids, cycle, kept, CarryOf

\* The week's strip and the pots below it, which the code computes apart, agree, for
\* any pots, budgets, bookings, lengths of a week and of a cycle.
THEOREM StripIsThePots == Spec => []WeekAgreesWithPots
  BY InitBooked, StepBooked, InitPriced, StepPriced, BookedAgrees, PTL DEF Spec

-----------------------------------------------------------------------------
(* More about sums *)

\* Every element of T has one name in S.
Naming(name, S, T) ==
  /\ \A x \in S : name[x] \in T
  /\ \A x, y \in S : name[x] = name[y] => x = y
  /\ \A i \in T : \E x \in S : name[x] = i

\* Sums of the same numbers, told by other names.
LEMMA SumRenamed ==
  ASSUME NEW f, Numbers(f), NEW S, IsFiniteSet(S), NEW name,
         Naming(name, S, DOMAIN f),
         NEW g, g = [x \in S |-> f[name[x]]]
  PROVE  SumFunction(f) = SumFunction(g) /\ Numbers(g) /\ SumFunction(g) \in Int
<1>1. PICK F : Totals(F, f) /\ SumFunction(f) = F[DOMAIN f]
  BY SumTotals
<1>2. Numbers(g) /\ DOMAIN g = S
  BY DEF Numbers, Naming
<1> DEFINE Named(s) == {name[x] : x \in s}
           h == [s \in SUBSET S |-> F[Named(s)]]
<1>3. \A s \in SUBSET S : h[s] = F[Named(s)] /\ Named(s) \in SUBSET DOMAIN f
  BY DEF Naming
<1>4. h[{}] = 0
  <2>1. Named({}) = {} /\ {} \in SUBSET S
    OBVIOUS
  <2>2. h[{}] = F[Named({})]
    BY <1>3, <2>1
  <2> HIDE DEF h, Named
  <2> QED
    BY <1>1, <2>1, <2>2 DEF Totals
<1>5. ASSUME NEW s \in SUBSET DOMAIN g, NEW x \in s PROVE h[s] = g[x] + h[s \ {x}]
  <2>1. Named(s) \ {name[x]} = Named(s \ {x}) /\ name[x] \in Named(s)
    BY <1>2 DEF Naming
  <2>2. g[x] = f[name[x]] /\ s \in SUBSET S /\ s \ {x} \in SUBSET S
    BY <1>2
  <2> HIDE DEF h, Named
  <2>3. F[Named(s)] = f[name[x]] + F[Named(s) \ {name[x]}]
    BY <1>1, <1>3, <2>1, <2>2 DEF Totals
  <2> QED
    BY <1>3, <2>1, <2>2, <2>3
<1>6. SumFunction(g) = h[S] /\ SumFunction(g) \in Int
  <2> HIDE DEF h, Named
  <2>1. \A s \in SUBSET DOMAIN g : \A x \in s : h[s] = g[x] + h[s \ {x}]
    BY <1>5
  <2>2. SumFunction(g) = h[DOMAIN g] /\ SumFunction(g) \in Int
    BY <1>2, <1>4, <2>1, SumIs
  <2> QED
    BY <1>2, <2>2
<1>7. Named(S) = DOMAIN f
  BY DEF Naming
<1> QED
  BY <1>1, <1>2, <1>3, <1>6, <1>7

\* The sum of sums.
LEMMA SumOfSums ==
  ASSUME NEW f, Numbers(f), NEW g, Numbers(g), DOMAIN f = DOMAIN g,
         NEW h \in [DOMAIN f -> Int], \A x \in DOMAIN f : h[x] = f[x] + g[x]
  PROVE  /\ SumFunction(h) = SumFunction(f) + SumFunction(g) /\ Numbers(h)
         /\ SumFunction(f) \in Int /\ SumFunction(g) \in Int
<1>1. PICK F : Totals(F, f) /\ SumFunction(f) = F[DOMAIN f]
  BY SumTotals
<1>2. PICK G : Totals(G, g) /\ SumFunction(g) = G[DOMAIN f]
  BY SumTotals
<1>3. Numbers(h) /\ DOMAIN h = DOMAIN f
  BY DEF Numbers
<1> DEFINE H == [s \in SUBSET DOMAIN f |-> F[s] + G[s]]
<1>4. \A s \in SUBSET DOMAIN f : H[s] = F[s] + G[s] /\ F[s] \in Int /\ G[s] \in Int
  BY <1>1, <1>2 DEF Totals
<1> HIDE DEF H
<1>5. H[{}] = 0
  BY <1>1, <1>2, <1>4 DEF Totals
<1>6. ASSUME NEW s \in SUBSET DOMAIN h, NEW x \in s PROVE H[s] = h[x] + H[s \ {x}]
  <2>1. F[s] = f[x] + F[s \ {x}] /\ G[s] = g[x] + G[s \ {x}]
    BY <1>1, <1>2, <1>3 DEF Totals
  <2>2. f[x] \in Int /\ g[x] \in Int /\ h[x] = f[x] + g[x]
    BY <1>3 DEF Numbers
  <2>3. s \in SUBSET DOMAIN f /\ s \ {x} \in SUBSET DOMAIN f
    BY <1>3
  <2>4. /\ H[s] = F[s] + G[s] /\ H[s \ {x}] = F[s \ {x}] + G[s \ {x}]
        /\ F[s \ {x}] \in Int /\ G[s \ {x}] \in Int
    BY <1>4, <2>3
  <2> QED
    BY <2>1, <2>2, <2>4
<1>7. SumFunction(h) = H[DOMAIN f]
  BY <1>3, <1>5, <1>6, SumIs
<1> QED
  BY <1>1, <1>2, <1>3, <1>4, <1>7

\* Each of several amounts, none of them negative, is at most their sum.
LEMMA SumOfNaturals ==
  ASSUME NEW f, Numbers(f), \A x \in DOMAIN f : f[x] >= 0
  PROVE  SumFunction(f) \in Nat /\ \A x \in DOMAIN f : f[x] <= SumFunction(f)
<1>1. PICK F : Totals(F, f) /\ SumFunction(f) = F[DOMAIN f]
  BY SumTotals
<1> DEFINE G == {s \in SUBSET DOMAIN f : F[s] >= 0}
<1>2. ASSUME NEW s \in SUBSET DOMAIN f, \A x \in s : s \ {x} \in G PROVE s \in G
  <2>1. CASE s = {}
    BY <1>1, <2>1 DEF Totals
  <2>2. CASE s # {}
    <3>1. PICK x \in s : TRUE
      BY <2>2
    <3>2. F[s] = f[x] + F[s \ {x}] /\ f[x] >= 0 /\ f[x] \in Int /\ F[s \ {x}] \in Int
      BY <1>1 DEF Totals, Numbers
    <3>3. F[s \ {x}] >= 0
      BY <1>2
    <3> QED
      BY <3>2, <3>3
  <2> QED
    BY <2>1, <2>2
<1> HIDE DEF G
<1>3. \A s \in SUBSET DOMAIN f : s \in G
  BY <1>2, SubsetInduction DEF Numbers
<1>4. \A s \in SUBSET DOMAIN f : F[s] >= 0 /\ F[s] \in Int
  BY <1>1, <1>3 DEF G, Totals
<1>5. ASSUME NEW x \in DOMAIN f PROVE f[x] <= F[DOMAIN f]
  <2>1. F[DOMAIN f] = f[x] + F[DOMAIN f \ {x}] /\ f[x] \in Int
    BY <1>1 DEF Totals, Numbers
  <2>2. F[DOMAIN f \ {x}] >= 0 /\ F[DOMAIN f \ {x}] \in Int
    BY <1>4
  <2> QED
    BY <2>1, <2>2
<1> QED
  BY <1>1, <1>4, <1>5

\* A sum of smaller amounts is smaller.
LEMMA SumsCompare ==
  ASSUME NEW f, Numbers(f), NEW g, Numbers(g), DOMAIN f = DOMAIN g,
         \A x \in DOMAIN f : f[x] <= g[x]
  PROVE  SumFunction(f) <= SumFunction(g) /\ SumFunction(f) \in Int /\ SumFunction(g) \in Int
<1> DEFINE d == [x \in DOMAIN f |-> g[x] - f[x]]
<1>1. \A x \in DOMAIN f : f[x] \in Int /\ g[x] \in Int
  BY DEF Numbers
<1>2. DOMAIN d = DOMAIN f /\ \A x \in DOMAIN f : d[x] = g[x] - f[x]
  OBVIOUS
<1>3. d \in [DOMAIN f -> Int]
  BY <1>1
<1> HIDE DEF d
<1>4. Numbers(d) /\ \A x \in DOMAIN d : d[x] >= 0
  BY <1>1, <1>2, <1>3 DEF Numbers
<1>5. g \in [DOMAIN f -> Int] /\ \A x \in DOMAIN f : g[x] = f[x] + d[x]
  BY <1>1, <1>2 DEF Numbers
<1>6. SumFunction(g) = SumFunction(f) + SumFunction(d)
      /\ SumFunction(f) \in Int /\ SumFunction(d) \in Int
  BY <1>2, <1>4, <1>5, SumOfSums
<1>7. SumFunction(d) >= 0
  BY <1>4, SumOfNaturals
<1> QED
  BY <1>6, <1>7

LEMMA SumOfEquals ==
  ASSUME NEW S, IsFiniteSet(S), NEW c \in Int, NEW f, f = [x \in S |-> c]
  PROVE  SumFunction(f) = c * Cardinality(S) /\ Numbers(f) /\ Cardinality(S) \in Nat
<1>1. Numbers(f) /\ DOMAIN f = S
  BY DEF Numbers
<1> DEFINE h == [s \in SUBSET S |-> c * Cardinality(s)]
<1>2. \A s \in SUBSET S : h[s] = c * Cardinality(s)
  OBVIOUS
<1> HIDE DEF h
<1>3. h[{}] = 0
  BY <1>2, FS_EmptySet
<1>4. ASSUME NEW s \in SUBSET S, NEW x \in s PROVE h[s] = f[x] + h[s \ {x}]
  <2>1. /\ Cardinality(s \ {x}) = Cardinality(s) - 1 /\ Cardinality(s) \in Nat
    BY FS_Subset, FS_RemoveElement, FS_CardinalityType
  <2>2. h[s] = c * Cardinality(s) /\ h[s \ {x}] = c * (Cardinality(s) - 1) /\ f[x] = c
    BY <1>2, <2>1
  <2> DEFINE k == Cardinality(s)
  <2>3. k \in Int /\ h[s] = c * k /\ h[s \ {x}] = c * (k - 1) /\ f[x] = c
    BY <2>1, <2>2
  <2> HIDE DEF k
  <2>4. c * (k - 1) = c * k - c /\ c * k \in Int
    BY <2>3
  <2> QED
    BY <2>3, <2>4
<1>5. SumFunction(f) = h[S]
  BY <1>1, <1>3, <1>4, SumIs
<1> QED
  BY <1>1, <1>2, <1>5, FS_CardinalityType

\* A multiple of every amount makes a multiple of the sum.
LEMMA SumOfMultiples ==
  ASSUME NEW f, Numbers(f), NEW c \in Int, NEW g, g = [x \in DOMAIN f |-> c * f[x]]
  PROVE  SumFunction(g) = c * SumFunction(f) /\ Numbers(g) /\ SumFunction(f) \in Int
<1>1. PICK F : Totals(F, f) /\ SumFunction(f) = F[DOMAIN f]
  BY SumTotals
<1>2. Numbers(g) /\ DOMAIN g = DOMAIN f
  <2>1. \A x \in DOMAIN f : f[x] \in Int
    BY DEF Numbers
  <2>2. \A x \in DOMAIN f : c * f[x] \in Int
    BY <2>1
  <2> QED
    BY <2>2 DEF Numbers
<1> DEFINE h == [s \in SUBSET DOMAIN f |-> c * F[s]]
<1>3. \A s \in SUBSET DOMAIN f : h[s] = c * F[s] /\ F[s] \in Int
  BY <1>1 DEF Totals
<1> HIDE DEF h
<1>4. h[{}] = 0
  BY <1>1, <1>3 DEF Totals
<1>5. ASSUME NEW s \in SUBSET DOMAIN f, NEW x \in s PROVE h[s] = g[x] + h[s \ {x}]
  <2>1. F[s] = f[x] + F[s \ {x}] /\ f[x] \in Int
    BY <1>1 DEF Totals, Numbers
  <2> DEFINE a == f[x] b == F[s \ {x}]
  <2>2. a \in Int /\ b \in Int
    BY <1>3, <2>1
  <2>3. h[s] = c * (a + b) /\ h[s \ {x}] = c * b /\ g[x] = c * a
    BY <1>3, <2>1
  <2> HIDE DEF a, b
  <2>4. c * (a + b) = c * a + c * b
    BY <2>2
  <2> QED
    BY <2>3, <2>4
<1>6. SumFunction(g) = h[DOMAIN f]
  <2>1. \A s \in SUBSET DOMAIN g : \A x \in s : h[s] = g[x] + h[s \ {x}]
    BY <1>2, <1>5
  <2>2. SumFunction(g) = h[DOMAIN g]
    BY <1>2, <1>4, <2>1, SumIs
  <2> QED
    BY <1>2, <2>2
<1> QED
  BY <1>1, <1>2, <1>3, <1>6

-----------------------------------------------------------------------------
(* The plan's invariant: what it is made of *)

IsPosition(p) ==
  /\ p.owner \in Persons \cup {OwnerShared}
  /\ p.amount \in Int /\ p.units \in Int /\ p.price \in Int /\ p.from \in Int /\ p.until \in Int

IsPlan(pl) ==
  /\ pl = [persons |-> pl.persons, income |-> pl.income, positions |-> pl.positions]
  /\ pl.persons \subseteq Persons
  /\ DOMAIN pl.income \subseteq Persons
  /\ \A p \in DOMAIN pl.income : pl.income[p] \in IncomeEntry
  /\ IsFiniteSet(DOMAIN pl.positions)
  /\ \A i \in DOMAIN pl.positions : IsPosition(pl.positions[i])

Planned ==
  /\ IsPlan(plan) /\ IsPlan(storedPlan)
  /\ accounts \in Configs /\ model \in SplitModels /\ month \in 1 .. LastMonth

LEMMA EmptyIsPlan == IsPlan(EmptyPlan)
  BY FS_EmptySet DEF IsPlan, EmptyPlan

LEMMA InitPlanned == PlanInit => Planned
  BY EmptyIsPlan, BudgetPlanAssumption DEF PlanInit, Planned

LEMMA UpsertIsPlan ==
  ASSUME NEW pl, IsPlan(pl), NEW id, NEW p, IsPosition(p)
  PROVE  IsPlan(UpsertPosition(pl, id, p))
<1> DEFINE q == With(pl.positions, id, p)
           put == [pl EXCEPT !.positions = With(@, id, p)]
<1>1. put = [persons |-> pl.persons, income |-> pl.income, positions |-> q]
  BY DEF IsPlan
<1>2. IsFiniteSet(DOMAIN q)
  BY FS_AddElement DEF IsPlan, With
<1>3. \A i \in DOMAIN q : IsPosition(q[i])
  BY DEF IsPlan, With
<1> HIDE DEF q, put
<1>4. IsPlan(put)
  BY <1>1, <1>2, <1>3 DEF IsPlan
<1>5. p.owner # OwnerShared =>
        [put EXCEPT !.persons = @ \cup {p.owner}]
          = [persons |-> put.persons \cup {p.owner}, income |-> put.income,
             positions |-> put.positions]
  BY <1>1
<1>6. p.owner # OwnerShared => p.owner \in Persons
  BY DEF IsPosition
<1>7. IsPlan(EnsurePerson(put, p.owner))
  BY <1>4, <1>5, <1>6 DEF IsPlan, EnsurePerson
<1> QED
  BY <1>4, <1>7 DEF UpsertPosition, put

LEMMA DraftIsPosition ==
  ASSUME NEW d, IsDraft(d)
  PROVE  IsPosition(PositionOf(d))
  BY DEF IsDraft, IsPosition, PositionOf

LEMMA HealedIsPlan ==
  ASSUME NEW pl, IsPlan(pl)
  PROVE  IsPlan(Healed(pl))
<1> DEFINE more == pl.persons \cup DOMAIN pl.income
                     \cup ({pl.positions[i].owner : i \in DOMAIN pl.positions} \ {OwnerShared})
<1>1. more \subseteq Persons
  BY DEF IsPlan, IsPosition
<1>2. Healed(pl) = [persons |-> more, income |-> pl.income, positions |-> pl.positions]
  <2>1. pl = [persons |-> pl.persons, income |-> pl.income, positions |-> pl.positions]
    BY DEF IsPlan
  <2>2. Healed(pl) = [pl EXCEPT !.persons = more]
    BY DEF Healed
  <2> HIDE DEF more
  <2> QED
    BY <2>1, <2>2
<1> HIDE DEF more
<1> QED
  BY <1>1, <1>2 DEF IsPlan

\* Proposals are taken in some order.
LEMMA AcceptedIsPlan ==
  ASSUME IsPlan(plan), NEW chosen \in SUBSET Proposals
  PROVE  IsPlan(FoldSet(LAMBDA d, pl : IF IdOf(d) \in DOMAIN plan.positions THEN pl
                                       ELSE UpsertPosition(pl, IdOf(d), PositionOf(d)),
                        plan, chosen))
<1> DEFINE c(s) == CHOOSE x \in s : TRUE
           took(d, pl) == IF IdOf(d) \in DOMAIN plan.positions THEN pl
                          ELSE UpsertPosition(pl, IdOf(d), PositionOf(d))
           body(h, s) == IF s = {} THEN plan ELSE took(c(s), h[s \ {c(s)}])
           Graph(h, T) == h = [s \in T |-> body(h, s)]
           iter == CHOOSE h : Graph(h, SUBSET chosen)
<1>1. FoldSet(LAMBDA d, pl : IF IdOf(d) \in DOMAIN plan.positions THEN pl
                             ELSE UpsertPosition(pl, IdOf(d), PositionOf(d)),
              plan, chosen) = iter[chosen]
  BY DEF FoldSet, MapThenFoldSet
<1>2. \A s : s # {} => c(s) \in s
  OBVIOUS
<1>3. \A h, i, s : h[s \ {c(s)}] = i[s \ {c(s)}] => body(h, s) = body(i, s)
  OBVIOUS
<1>4. \A h : body(h, {}) = plan
  OBVIOUS
<1>5. \A h : \A s \in SUBSET chosen :
        s # {} /\ IsPlan(h[s \ {c(s)}]) => IsPlan(body(h, s))
  <2> SUFFICES ASSUME NEW h, NEW s \in SUBSET chosen, s # {}, IsPlan(h[s \ {c(s)}])
               PROVE  IsPlan(body(h, s))
    OBVIOUS
  <2> DEFINE d == c(s) pl == h[s \ {c(s)}]
  <2>1. body(h, s) = took(d, pl) /\ d \in Proposals /\ IsPlan(pl)
    BY <1>2
  <2>2. IsPosition(PositionOf(d))
    BY <2>1, BudgetPlanAssumption, DraftIsPosition
  <2> HIDE DEF body, d, pl
  <2>3. IsPlan(UpsertPosition(pl, IdOf(d), PositionOf(d)))
    BY <2>1, <2>2, UpsertIsPlan
  <2> QED
    BY <2>1, <2>3
<1>6. IsFiniteSet(chosen)
  BY FS_Subset, BudgetPlanAssumption
<1> HIDE DEF c, body, iter, took
<1> DEFINE Made == {k \in Nat : \E h : Graph(h, Small(chosen, k))}
<1>7. \A k \in Nat : k \in Made
  <2>1. 0 \in Made
    <3> DEFINE h == [s \in Small(chosen, 0) |-> plan]
    <3>1. Small(chosen, 0) = {{}}
      BY <1>6, SmallSets
    <3>2. \A s \in Small(chosen, 0) : body(h, s) = plan
      BY <1>4, <3>1
    <3>3. Graph(h, Small(chosen, 0))
      BY <3>2
    <3> QED
      BY <3>3
  <2>2. ASSUME NEW k \in Nat, k \in Made PROVE k + 1 \in Made
    <3>1. PICK h : Graph(h, Small(chosen, k))
      BY <2>2
    <3> DEFINE g == [s \in Small(chosen, k + 1) |->
                       IF s \in Small(chosen, k) THEN h[s] ELSE body(h, s)]
    <3>2. ASSUME NEW s \in Small(chosen, k + 1) PROVE g[s] = body(g, s)
      <4>1. g[s] = body(h, s)
        BY <3>1
      <4>2. CASE s = {}
        <5> HIDE DEF g
        <5> QED
          BY <1>4, <4>1, <4>2
      <4>3. CASE s # {}
        <5>1. s \ {c(s)} \in Small(chosen, k) /\ s \ {c(s)} \in Small(chosen, k + 1)
          BY <1>2, <1>6, <4>3, SmallSets
        <5>2. g[s \ {c(s)}] = h[s \ {c(s)}]
          BY <5>1
        <5> HIDE DEF g
        <5> QED
          BY <1>3, <4>1, <5>2
      <4> QED
        BY <4>2, <4>3
    <3>3. g = [s \in Small(chosen, k + 1) |-> g[s]]
      OBVIOUS
    <3> HIDE DEF g
    <3>4. Graph(g, Small(chosen, k + 1))
      BY <3>2, <3>3
    <3> QED
      BY <3>4
  <2> HIDE DEF Made
  <2> QED
    BY <2>1, <2>2, SetInduction
<1>8. \A s \in SUBSET chosen : iter[s] = body(iter, s)
  <2>1. \E h : Graph(h, SUBSET chosen)
    <3>1. Cardinality(chosen) \in Nat /\ Small(chosen, Cardinality(chosen)) = SUBSET chosen
      BY <1>6, SmallSets
    <3>2. PICK h : Graph(h, Small(chosen, Cardinality(chosen)))
      BY <1>7, <3>1
    <3> QED
      BY <3>1, <3>2
  <2>2. Graph(iter, SUBSET chosen)
    BY <2>1 DEF iter
  <2> QED
    BY <2>2
<1> DEFINE G == {s \in SUBSET chosen : IsPlan(iter[s])}
<1>9. ASSUME NEW s \in SUBSET chosen, \A x \in s : s \ {x} \in G PROVE s \in G
  <2>1. CASE s = {}
    BY <1>4, <1>8, <2>1
  <2>2. CASE s # {}
    <3>1. IsPlan(iter[s \ {c(s)}])
      BY <1>2, <1>9, <2>2
    <3> QED
      BY <1>5, <1>8, <2>2, <3>1
  <2> QED
    BY <2>1, <2>2
<1> HIDE DEF G
<1>10. chosen \in G
  BY <1>6, <1>9, SubsetInduction
<1> QED
  BY <1>1, <1>10 DEF G

-----------------------------------------------------------------------------
(* The workbook *)

LEMMA ImageOf ==
  ASSUME NEW S, IsFiniteSet(S), NEW f, f = [x \in S |-> f[x]]
  PROVE  IsFiniteSet({f[x] : x \in S})
<1>1. DOMAIN f = S /\ Range(f) = {f[x] : x \in S} /\ f \in [DOMAIN f -> Range(f)]
  BY DEF Range
<1> QED
  BY <1>1, ImageIsFinite

LEMMA CellsAreFew ==
  ASSUME NEW w \in Workbooks
  PROVE  /\ IsFiniteSet(CellsOf(w))
         /\ \A c \in CellsOf(w) :
              /\ c = <<c[1], c[2]>> /\ c[1] \in DOMAIN w.rows /\ c[1] \in Nat \ {0}
              /\ c[2] \in Persons \cup {OwnerShared}
              /\ w.rows[c[1]].from \in Int /\ w.rows[c[1]].until \in Int
              /\ CellAt(w, c).value \in Int
              /\ CellAt(w, c).factors # <<>> =>
                   /\ CellAt(w, c).factors[1] \in Int /\ CellAt(w, c).factors[2] \in Int
                   /\ CellAt(w, c).factors[1] * CellAt(w, c).factors[2] = CellAt(w, c).value
<1> DEFINE owners == Persons \cup {OwnerShared}
<1>1. IsWorkbook(w)
  BY BudgetPlanAssumption
<1>2. IsFiniteSet(owners)
  BY BudgetPlanAssumption, FS_AddElement
<1>3. IsFiniteSet((DOMAIN w.rows) \X owners)
  <2>1. IsFiniteSet(DOMAIN w.rows)
    BY <1>1 DEF IsWorkbook
  <2> HIDE DEF owners
  <2> QED
    BY <1>2, <2>1, FS_Product
<1>4. CellsOf(w) \in SUBSET ((DOMAIN w.rows) \X owners)
  BY DEF CellsOf
<1>5. IsFiniteSet(CellsOf(w))
  <2> HIDE DEF owners
  <2> QED
    BY <1>3, <1>4, FS_Subset
<1>6. ASSUME NEW c \in CellsOf(w)
      PROVE  /\ c = <<c[1], c[2]>> /\ c[1] \in DOMAIN w.rows /\ c[2] \in owners
             /\ c[2] \in DOMAIN w.rows[c[1]].cells
  BY DEF CellsOf
<1>7. ASSUME NEW c \in CellsOf(w)
      PROVE  /\ c[1] \in Nat \ {0} /\ w.rows[c[1]].from \in Int /\ w.rows[c[1]].until \in Int
             /\ CellAt(w, c).value \in Int
             /\ CellAt(w, c).factors # <<>> =>
                  /\ CellAt(w, c).factors[1] \in Int /\ CellAt(w, c).factors[2] \in Int
                  /\ CellAt(w, c).factors[1] * CellAt(w, c).factors[2] = CellAt(w, c).value
  BY <1>1, <1>6 DEF IsWorkbook, CellAt
<1> QED
  BY <1>5, <1>6, <1>7

\* No two cells share an id.
LEMMA CellsDiffer ==
  ASSUME NEW w \in Workbooks, NEW c \in CellsOf(w), NEW d \in CellsOf(w),
         ImportedId(w, c[1], c[2]) = ImportedId(w, d[1], d[2])
  PROVE  c = d
<1>1. /\ c = <<c[1], c[2]>> /\ c[1] \in Nat \ {0}
      /\ d = <<d[1], d[2]>> /\ d[1] \in Nat \ {0}
  BY CellsAreFew
<1>2. w.rows[c[1]].name = w.rows[d[1]].name /\ c[2] = d[2]
  BY DEF ImportedId
<1> DEFINE Again(r, o) == \E s \in 1 .. (r - 1) :
                            <<s, o>> \in CellsOf(w) /\ w.rows[s].name = w.rows[r].name
<1>3. (IF Again(c[1], c[2]) THEN c[1] ELSE 0) = (IF Again(d[1], d[2]) THEN d[1] ELSE 0)
  BY DEF ImportedId
<1>4. c[1] < d[1] => Again(d[1], d[2])
  BY <1>1, <1>2
<1>5. d[1] < c[1] => Again(c[1], c[2])
  BY <1>1, <1>2
<1> HIDE DEF Again
<1>6. c[1] = d[1]
  BY <1>1, <1>3, <1>4, <1>5
<1> QED
  BY <1>1, <1>2, <1>6

CellOf(w, id) ==
  <<Max({c[1] : c \in {d \in CellsOf(w) : ImportedId(w, d[1], d[2]) = id}}), id[2]>>

LEMMA CellOfItsId ==
  ASSUME NEW w \in Workbooks, NEW c \in CellsOf(w)
  PROVE  CellOf(w, ImportedId(w, c[1], c[2])) = c
<1> DEFINE id == ImportedId(w, c[1], c[2])
           rows == {e[1] : e \in {d \in CellsOf(w) : ImportedId(w, d[1], d[2]) = id}}
<1>1. {d \in CellsOf(w) : ImportedId(w, d[1], d[2]) = id} = {c}
  BY CellsDiffer
<1>2. rows = {c[1]} /\ c[1] \in Int /\ c = <<c[1], c[2]>>
  BY <1>1, CellsAreFew
<1>3. id[2] = c[2]
  BY DEF ImportedId
<1>4. CellOf(w, id) = <<Max(rows), id[2]>>
  BY DEF CellOf
<1> HIDE DEF rows, id
<1>5. Max(rows) = c[1]
  <2>1. IsFiniteSet(rows) /\ rows \in SUBSET Int /\ rows # {}
    BY <1>2, FS_Singleton
  <2>2. Max(rows) \in rows
    BY <2>1, Extremes
  <2> QED
    BY <1>2, <2>2
<1> QED
  BY <1>2, <1>3, <1>4, <1>5 DEF id

\* A formula that is found is one of a cell.
LEMMA FactorsAreACells ==
  ASSUME NEW w \in Workbooks, NEW name, Formulas(w, name) # {}
  PROVE  \E c \in Formulas(w, name) : RestoredFactors(w, name) = CellAt(w, c).factors
<1> DEFINE rows == {c[1] : c \in Formulas(w, name)}
           row == Max(rows)
           owners == {c[2] : c \in {d \in Formulas(w, name) : d[1] = row}}
           owner == IF OwnerShared \in owners THEN OwnerShared ELSE CHOOSE o \in owners : TRUE
<1>1. RestoredFactors(w, name) = w.rows[row].cells[owner].factors
  BY DEF RestoredFactors
<1>2. Formulas(w, name) \in SUBSET CellsOf(w) /\ IsFiniteSet(Formulas(w, name))
  <2>1. Formulas(w, name) \in SUBSET CellsOf(w)
    BY DEF Formulas
  <2> QED
    BY <2>1, CellsAreFew, FS_Subset
<1>3. row \in rows
  <2>1. rows \in SUBSET Int /\ rows # {}
    BY <1>2, CellsAreFew
  <2>2. IsFiniteSet(rows)
    <3> DEFINE f == [c \in Formulas(w, name) |-> c[1]]
    <3>1. f = [c \in Formulas(w, name) |-> f[c]] /\ rows = {f[c] : c \in Formulas(w, name)}
      OBVIOUS
    <3> HIDE DEF f, rows
    <3> QED
      BY <1>2, <3>1, ImageOf
  <2> HIDE DEF rows
  <2> QED
    BY <2>1, <2>2, Extremes
<1> HIDE DEF row
<1>4. owners # {}
  BY <1>3
<1>5. owner \in owners
  <2> HIDE DEF owners
  <2> QED
    BY <1>4
<1> HIDE DEF owner
<1>6. PICK c \in Formulas(w, name) : c[1] = row /\ c[2] = owner
  BY <1>5
<1> QED
  BY <1>1, <1>6 DEF CellAt

LEMMA CellIsPosition ==
  ASSUME NEW w \in Workbooks, NEW c \in CellsOf(w)
  PROVE  IsPosition(ImportedPosition(w, c[1], c[2]))
<1> DEFINE row == w.rows[c[1]]
           factors == IF row.buffer /\ Formulas(w, row.name) # {}
                        THEN RestoredFactors(w, row.name) ELSE <<1, row.cells[c[2]].value>>
<1>1. /\ row.cells[c[2]].value \in Int /\ row.from \in Int /\ row.until \in Int
      /\ c[2] \in Persons \cup {OwnerShared}
  BY CellsAreFew DEF CellAt
<1>2. factors[1] \in Int /\ factors[2] \in Int
  <2>1. CASE row.buffer /\ Formulas(w, row.name) # {}
    <3>1. PICK d \in Formulas(w, row.name) :
            RestoredFactors(w, row.name) = CellAt(w, d).factors
      BY <2>1, FactorsAreACells
    <3>2. d \in CellsOf(w) /\ CellAt(w, d).factors # <<>>
      BY DEF Formulas
    <3> QED
      BY <2>1, <3>1, <3>2, CellsAreFew
  <2>2. CASE ~(row.buffer /\ Formulas(w, row.name) # {})
    BY <1>1, <2>2
  <2> QED
    BY <2>1, <2>2
<1>3. /\ ImportedPosition(w, c[1], c[2]).owner = c[2]
      /\ ImportedPosition(w, c[1], c[2]).amount = row.cells[c[2]].value
      /\ ImportedPosition(w, c[1], c[2]).units = factors[1]
      /\ ImportedPosition(w, c[1], c[2]).price = factors[2]
      /\ ImportedPosition(w, c[1], c[2]).from = row.from
      /\ ImportedPosition(w, c[1], c[2]).until = row.until
  BY DEF ImportedPosition
<1> QED
  BY <1>1, <1>2, <1>3 DEF IsPosition

\* What an import makes: a position per cell, an income per column.
LEMMA Imported ==
  ASSUME NEW w \in Workbooks
  PROVE  LET pl == ParseWorkbook(w)
         IN  /\ DOMAIN pl.positions = {ImportedId(w, c[1], c[2]) : c \in CellsOf(w)}
             /\ \A c \in CellsOf(w) : pl.positions[ImportedId(w, c[1], c[2])]
                                        = ImportedPosition(w, c[1], c[2])
             /\ DOMAIN pl.income = DOMAIN w.income
             /\ \A p \in DOMAIN w.income :
                  pl.income[p] = [w.income[p] EXCEPT !.insurance = -Abs(@)]
             /\ pl.persons = DOMAIN w.income \cup ({c[2] : c \in CellsOf(w)} \ {OwnerShared})
             /\ pl = [persons |-> pl.persons, income |-> pl.income, positions |-> pl.positions]
<1> DEFINE income == [p \in DOMAIN w.income |-> [w.income[p] EXCEPT !.insurance = -Abs(@)]]
           ids == {ImportedId(w, c[1], c[2]) : c \in CellsOf(w)}
           At(id) == ImportedPosition(w, CellOf(w, id)[1], CellOf(w, id)[2])
           persons == DOMAIN income \cup ({c[2] : c \in CellsOf(w)} \ {OwnerShared})
<1>1. ParseWorkbook(w) = [persons |-> persons, income |-> income,
                          positions |-> [id \in ids |-> At(id)]]
  BY DEF ParseWorkbook, CellOf
<1>2. \A c \in CellsOf(w) : At(ImportedId(w, c[1], c[2])) = ImportedPosition(w, c[1], c[2])
  BY CellOfItsId
<1>3. /\ DOMAIN income = DOMAIN w.income
      /\ \A p \in DOMAIN w.income : income[p] = [w.income[p] EXCEPT !.insurance = -Abs(@)]
  OBVIOUS
<1>4. persons = DOMAIN w.income \cup ({c[2] : c \in CellsOf(w)} \ {OwnerShared})
  BY <1>3
<1>5. \A c \in CellsOf(w) : ImportedId(w, c[1], c[2]) \in ids
  OBVIOUS
<1> HIDE DEF At, income, persons
<1>6. /\ ParseWorkbook(w).positions = [id \in ids |-> At(id)]
      /\ ParseWorkbook(w).income = income /\ ParseWorkbook(w).persons = persons
      /\ ParseWorkbook(w) = [persons |-> ParseWorkbook(w).persons,
                             income |-> ParseWorkbook(w).income,
                             positions |-> ParseWorkbook(w).positions]
  BY <1>1
<1> QED
  BY <1>2, <1>3, <1>4, <1>5, <1>6

LEMMA ImportIsPlan ==
  ASSUME NEW w \in Workbooks
  PROVE  IsPlan(ParseWorkbook(w))
<1> DEFINE pl == ParseWorkbook(w)
<1>1. /\ DOMAIN pl.positions = {ImportedId(w, c[1], c[2]) : c \in CellsOf(w)}
      /\ \A c \in CellsOf(w) :
           pl.positions[ImportedId(w, c[1], c[2])] = ImportedPosition(w, c[1], c[2])
      /\ DOMAIN pl.income = DOMAIN w.income
      /\ \A p \in DOMAIN w.income :
           pl.income[p] = [w.income[p] EXCEPT !.insurance = -Abs(@)]
      /\ pl.persons = DOMAIN w.income \cup ({c[2] : c \in CellsOf(w)} \ {OwnerShared})
      /\ pl = [persons |-> pl.persons, income |-> pl.income, positions |-> pl.positions]
  BY Imported
<1> HIDE DEF pl
<1>2. IsWorkbook(w)
  BY BudgetPlanAssumption
<1>3. \A p \in DOMAIN pl.income : pl.income[p] \in IncomeEntry
  <2> SUFFICES ASSUME NEW p \in DOMAIN w.income
               PROVE  pl.income[p] \in IncomeEntry
    BY <1>1
  <2>1. w.income[p] \in IncomeEntry
    BY <1>2 DEF IsWorkbook
  <2>2. -Abs(w.income[p].insurance) \in Int
    BY <2>1 DEF IncomeEntry, Abs
  <2>3. pl.income[p] = [w.income[p] EXCEPT !.insurance = -Abs(w.income[p].insurance)]
    BY <1>1
  <2> QED
    BY <2>1, <2>2, <2>3 DEF IncomeEntry
<1>4. pl.persons \subseteq Persons /\ DOMAIN pl.income \subseteq Persons
  BY <1>1, <1>2, CellsAreFew DEF IsWorkbook
<1>5. IsFiniteSet(DOMAIN pl.positions)
  <2> DEFINE f == [c \in CellsOf(w) |-> ImportedId(w, c[1], c[2])]
  <2>1. f = [c \in CellsOf(w) |-> f[c]] /\ DOMAIN pl.positions = {f[c] : c \in CellsOf(w)}
    BY <1>1
  <2>2. IsFiniteSet(CellsOf(w))
    BY CellsAreFew
  <2> HIDE DEF f
  <2> QED
    BY <2>1, <2>2, ImageOf
<1>6. \A i \in DOMAIN pl.positions : IsPosition(pl.positions[i])
  BY <1>1, CellIsPosition
<1> QED
  BY <1>1, <1>3, <1>4, <1>5, <1>6 DEF IsPlan, pl

-----------------------------------------------------------------------------
LEMMA StepPlanned == Planned /\ [PlanNext]_householdVars => Planned'
<1> SUFFICES ASSUME Planned, [PlanNext]_householdVars PROVE Planned'
  OBVIOUS
<1> USE DEF Planned
<1>1. ASSUME NEW pl, IsPlan(pl), SavePlan(pl) PROVE Planned'
  BY <1>1 DEF SavePlan, viewVars
<1>2. ASSUME NEW d \in CostDrafts, SetCostPosition(d) PROVE Planned'
  <2>1. IsPosition(PositionOf(d))
    BY BudgetPlanAssumption, DraftIsPosition
  <2>2. IsPlan(UpsertPosition(plan, IdOf(d), PositionOf(d)))
    BY <2>1, UpsertIsPlan
  <2> QED
    BY <1>1, <1>2, <2>2 DEF SetCostPosition
<1>3. ASSUME NEW id \in DOMAIN plan.positions, DeleteCostPosition(id) PROVE Planned'
  <2> DEFINE rest == [i \in DOMAIN plan.positions \ {id} |-> plan.positions[i]]
  <2>1. RemovePosition(plan, id)
          = [persons |-> plan.persons, income |-> plan.income, positions |-> rest]
    BY DEF RemovePosition, IsPlan
  <2>2. IsFiniteSet(DOMAIN rest) /\ \A i \in DOMAIN rest : IsPosition(rest[i])
    BY FS_RemoveElement DEF IsPlan
  <2> HIDE DEF rest
  <2>3. IsPlan(RemovePosition(plan, id))
    BY <2>1, <2>2 DEF IsPlan
  <2> QED
    BY <1>1, <1>3, <2>3 DEF DeleteCostPosition
<1>4. ASSUME NEW e \in Entries, SetIncome(e) PROVE Planned'
  <2> DEFINE put == With(plan.income, e.person, e)
             q == [plan EXCEPT !.income = With(@, e.person, e)]
  <2>1. e \in IncomeEntry /\ e.person \in Persons
    BY BudgetPlanAssumption DEF IncomeEntry
  <2>2. /\ DOMAIN put \subseteq Persons
        /\ \A p \in DOMAIN put : put[p] \in IncomeEntry
    BY <2>1 DEF IsPlan, With
  <2>3. q = [persons |-> plan.persons, income |-> put, positions |-> plan.positions]
    BY DEF IsPlan
  <2>4. [q EXCEPT !.persons = @ \cup {e.person}]
          = [persons |-> plan.persons \cup {e.person}, income |-> put,
             positions |-> plan.positions]
    <3> HIDE DEF q, put
    <3> QED
      BY <2>3
  <2>5. PutIncome(plan, e) = [q EXCEPT !.persons = @ \cup {e.person}]
    BY <2>1, BudgetPlanAssumption DEF PutIncome, EnsurePerson
  <2> HIDE DEF put, q
  <2>6. PutIncome(plan, e) = [persons |-> plan.persons \cup {e.person}, income |-> put,
                              positions |-> plan.positions]
    BY <2>4, <2>5
  <2>7. IsPlan(PutIncome(plan, e))
    BY <2>1, <2>2, <2>6 DEF IsPlan
  <2> QED
    BY <1>1, <1>4, <2>7 DEF SetIncome
<1>5. ASSUME NEW chosen \in SUBSET Proposals, AcceptProposals(chosen) PROVE Planned'
  BY <1>1, <1>5, AcceptedIsPlan DEF AcceptProposals
<1>6. ASSUME NEW w \in Workbooks, ImportWorkbook(w) PROVE Planned'
  BY <1>1, <1>6, ImportIsPlan DEF ImportWorkbook, Parsed
<1>7. ASSUME NEW readable \in BOOLEAN, RestartPlan(readable) PROVE Planned'
  BY <1>7, HealedIsPlan, EmptyIsPlan DEF RestartPlan, viewVars
<1>8. ASSUME NEW config \in Configs, Assign(config) PROVE Planned'
  BY <1>8 DEF Assign, planVars
<1>9. ASSUME NEW m \in SplitModels, SetModel(m) PROVE Planned'
  BY <1>9, HealedIsPlan DEF SetModel
<1>10. CASE NextMonth
  BY <1>10, BudgetPlanAssumption DEF NextMonth, planVars
<1>11. CASE UNCHANGED householdVars
  BY <1>11 DEF householdVars, planVars, viewVars
<1> QED
  BY <1>2, <1>3, <1>4, <1>5, <1>6, <1>7, <1>8, <1>9, <1>10, <1>11 DEF PlanNext

LEMMA PlanStaysPlanned == PlanSpec => []Planned
  BY InitPlanned, StepPlanned, PTL DEF PlanSpec

-----------------------------------------------------------------------------
(* The workbook's sums *)

LEMMA ImportedAmount ==
  ASSUME NEW w \in Workbooks, NEW c \in CellsOf(w), NEW m \in Int,
         w.rows[c[1]].buffer => \A d \in Formulas(w, w.rows[c[1]].name) : d = c
  PROVE  EffectiveAmount(ImportedPosition(w, c[1], c[2]), m) =
           IF m \in w.rows[c[1]].from .. w.rows[c[1]].until THEN CellAt(w, c).value ELSE 0
<1> DEFINE row == w.rows[c[1]]
           p == ImportedPosition(w, c[1], c[2])
           value == row.cells[c[2]].value
           factors == IF row.buffer /\ Formulas(w, row.name) # {}
                        THEN RestoredFactors(w, row.name) ELSE <<1, value>>
<1>1. /\ p.kind = IF row.buffer THEN "buffer" ELSE "fixed"
      /\ p.amount = value /\ p.units = factors[1] /\ p.price = factors[2]
      /\ p.from = row.from /\ p.until = row.until
  BY DEF ImportedPosition
<1>2. value = CellAt(w, c).value /\ value \in Int
  BY CellsAreFew DEF CellAt
<1>3. factors[1] * factors[2] = value
  <2>1. CASE row.buffer /\ Formulas(w, row.name) # {}
    <3>1. PICK d \in Formulas(w, row.name) :
            RestoredFactors(w, row.name) = CellAt(w, d).factors
      BY <2>1, FactorsAreACells
    <3>2. d = c /\ CellAt(w, c).factors # <<>>
      BY <2>1 DEF Formulas
    <3>3. CellAt(w, c).factors[1] * CellAt(w, c).factors[2] = value
      BY <1>2, <3>2, CellsAreFew
    <3> QED
      BY <2>1, <3>1, <3>2, <3>3
  <2>2. CASE ~(row.buffer /\ Formulas(w, row.name) # {})
    BY <1>2, <2>2
  <2> QED
    BY <2>1, <2>2
<1> HIDE DEF p, factors
<1>4. PlannedAmount(p) = value
  BY <1>1, <1>3 DEF PlannedAmount
<1>5. EffectiveAmount(p, m) = IF m \in row.from .. row.until THEN value ELSE 0
  BY <1>1, <1>4 DEF EffectiveAmount, IsActive
<1> QED
  BY <1>2, <1>5 DEF p

LEMMA ImportedTotal ==
  ASSUME NEW w \in Workbooks, NEW o \in Persons \cup {OwnerShared}, NEW m \in Int,
         \A c \in CellsOf(w) : w.rows[c[1]].buffer =>
           \A d \in Formulas(w, w.rows[c[1]].name) : d = c
  PROVE  CostTotal(ParseWorkbook(w), o, m) =
           Sum({c \in CellsOf(w) : c[2] = o /\ m \in w.rows[c[1]].from .. w.rows[c[1]].until},
               LAMBDA c : w.rows[c[1]].cells[o].value)
<1> DEFINE pos == ParseWorkbook(w).positions
           I == {i \in DOMAIN pos : pos[i].owner = o}
           S == {c \in CellsOf(w) : c[2] = o}
           T == {c \in CellsOf(w) : c[2] = o /\ m \in w.rows[c[1]].from .. w.rows[c[1]].until}
           f == [i \in I |-> EffectiveAmount(pos[i], m)]
           name == [c \in S |-> ImportedId(w, c[1], c[2])]
           g == [c \in S |-> f[name[c]]]
           value == [c \in S |-> CellAt(w, c).value]
           part == [c \in T |-> value[c]]
           some == [c \in DOMAIN value |-> IF c \in T THEN value[c] ELSE 0]
           cells == [c \in T |-> w.rows[c[1]].cells[o].value]
<1>1. CostTotal(ParseWorkbook(w), o, m) = SumFunction(f)
  BY DEF CostTotal, Costs, Sum
<1>2. Sum(T, LAMBDA c : w.rows[c[1]].cells[o].value) = SumFunction(cells)
  BY DEF Sum
<1>3. /\ DOMAIN pos = {ImportedId(w, c[1], c[2]) : c \in CellsOf(w)}
      /\ \A c \in CellsOf(w) : pos[ImportedId(w, c[1], c[2])] = ImportedPosition(w, c[1], c[2])
  BY Imported
<1> HIDE DEF pos
<1>4. \A c \in CellsOf(w) : ImportedPosition(w, c[1], c[2]).owner = c[2]
  BY DEF ImportedPosition
<1>5. I = {ImportedId(w, c[1], c[2]) : c \in S}
  BY <1>3, <1>4
<1>6. DOMAIN name = S /\ \A c \in S : name[c] = ImportedId(w, c[1], c[2]) /\ c \in CellsOf(w)
  OBVIOUS
<1>7. Naming(name, S, I)
  <2>1. \A c, d \in S : name[c] = name[d] => c = d
    BY <1>6, CellsDiffer
  <2> HIDE DEF name, S
  <2> QED
    BY <1>5, <1>6, <2>1 DEF Naming
<1>8. \A c \in S : f[name[c]] = IF c \in T THEN value[c] ELSE 0
  <2> SUFFICES ASSUME NEW c \in S PROVE f[name[c]] = IF c \in T THEN value[c] ELSE 0
    OBVIOUS
  <2>1. name[c] \in I /\ c \in CellsOf(w)
    BY <1>6, <1>7 DEF Naming
  <2>2. f[name[c]] = EffectiveAmount(pos[name[c]], m)
    BY <2>1
  <2>3. pos[name[c]] = ImportedPosition(w, c[1], c[2])
    BY <1>3, <1>6
  <2>4. EffectiveAmount(ImportedPosition(w, c[1], c[2]), m) =
          IF m \in w.rows[c[1]].from .. w.rows[c[1]].until THEN CellAt(w, c).value ELSE 0
    BY <2>1, ImportedAmount
  <2>5. c \in T <=> m \in w.rows[c[1]].from .. w.rows[c[1]].until
    OBVIOUS
  <2>6. value[c] = CellAt(w, c).value
    OBVIOUS
  <2> HIDE DEF f, name, value, T, S
  <2> QED
    BY <2>2, <2>3, <2>4, <2>5, <2>6
<1>9. IsFiniteSet(S) /\ \A c \in S : CellAt(w, c).value \in Int
  BY CellsAreFew, FS_Subset
<1>10. Numbers(value) /\ T \in SUBSET DOMAIN value /\ DOMAIN value = S
  BY <1>9 DEF Numbers
<1>11. SumFunction(some) = SumFunction(part) /\ Numbers(some)
  <2>1. /\ part = [c \in T |-> value[c]]
        /\ some = [c \in DOMAIN value |-> IF c \in T THEN value[c] ELSE 0]
    OBVIOUS
  <2> HIDE DEF value, T, part, some, S, I, f, g, name, cells
  <2> QED
    BY <1>10, <2>1, SumOfSome
<1>12. Numbers(f) /\ DOMAIN f = I
  <2>1. DOMAIN f = I
    OBVIOUS
  <2>2. IsFiniteSet(I)
    <3>1. name = [c \in S |-> name[c]] /\ I = {name[c] : c \in S}
      BY <1>5
    <3> HIDE DEF name, S, I
    <3> QED
      BY <1>9, <3>1, ImageOf
  <2>3. ASSUME NEW i \in I PROVE f[i] \in Int
    <3>1. PICK c \in S : name[c] = i
      BY <1>7 DEF Naming
    <3>2. f[i] = IF c \in T THEN value[c] ELSE 0
      BY <1>8, <3>1
    <3>3. value[c] \in Int
      BY <1>9
    <3> HIDE DEF f, value, T
    <3> QED
      BY <3>2, <3>3
  <2>4. f = [i \in I |-> f[i]]
    OBVIOUS
  <2> HIDE DEF f, I
  <2> QED
    BY <2>1, <2>2, <2>3, <2>4 DEF Numbers
<1>13. SumFunction(f) = SumFunction(g)
  <2>1. IsFiniteSet(S) /\ Naming(name, S, DOMAIN f)
    BY <1>7, <1>9, <1>12
  <2> HIDE DEF f, S, name, I
  <2> QED
    BY <1>12, <2>1, SumRenamed
<1>14. g = some
  BY <1>8, <1>10
<1>15. part = cells
  BY DEF CellAt
<1> HIDE DEF f, g, some, part, cells
<1> QED
  BY <1>1, <1>2, <1>11, <1>13, <1>14, <1>15

LEMMA ImportAddsUp ==
  ASSUME NEW w \in Workbooks, ImportWorkbook(w),
         \A c \in CellsOf(w) : w.rows[c[1]].buffer =>
           \A d \in Formulas(w, w.rows[c[1]].name) : d = c
  PROVE  /\ \A o \in Persons \cup {OwnerShared}, m \in 1 .. LastMonth :
              CostTotal(plan', o, m) =
                Sum({c \in CellsOf(w) : c[2] = o /\ m \in w.rows[c[1]].from .. w.rows[c[1]].until},
                    LAMBDA c : w.rows[c[1]].cells[o].value)
         /\ \A p \in DOMAIN w.income : IncomeNet(plan', p) =
              w.income[p].deposit - Abs(w.income[p].insurance) + w.income[p].tax
<1>1. plan' = ParseWorkbook(w)
  BY DEF ImportWorkbook, SavePlan, Parsed
<1>2. \A o \in Persons \cup {OwnerShared}, m \in 1 .. LastMonth :
        CostTotal(plan', o, m) =
          Sum({c \in CellsOf(w) : c[2] = o /\ m \in w.rows[c[1]].from .. w.rows[c[1]].until},
              LAMBDA c : w.rows[c[1]].cells[o].value)
  <2>1. \A m \in 1 .. LastMonth : m \in Int
    OBVIOUS
  <2> QED
    BY <1>1, <2>1, ImportedTotal
<1>3. ASSUME NEW p \in DOMAIN w.income
      PROVE  IncomeNet(plan', p) =
               w.income[p].deposit - Abs(w.income[p].insurance) + w.income[p].tax
  <2>1. /\ DOMAIN plan'.income = DOMAIN w.income
        /\ plan'.income[p] = [w.income[p] EXCEPT !.insurance = -Abs(@)]
    BY <1>1, Imported
  <2>2. w.income[p] \in IncomeEntry
    BY BudgetPlanAssumption DEF IsWorkbook
  <2>3. /\ plan'.income[p].deposit = w.income[p].deposit
        /\ plan'.income[p].insurance = -Abs(w.income[p].insurance)
        /\ plan'.income[p].tax = w.income[p].tax
        /\ w.income[p].deposit \in Int /\ w.income[p].tax \in Int
        /\ Abs(w.income[p].insurance) \in Int
    BY <2>1, <2>2 DEF IncomeEntry, Abs
  <2> QED
    BY <2>1, <2>3 DEF IncomeNet, Net
<1> QED
  BY <1>2, <1>3

\* Whatever the workbook, as long as a name has one formula at most, the plan it makes
\* has its sums (spreadsheet_import.py parse_workbook).
THEOREM ImportAddsUpAlways == PlanSpec => ImportKeepsTheSums
<1>1. [PlanNext]_householdVars =>
        [\A w \in Workbooks :
           (/\ ImportWorkbook(w)
            /\ \A c \in CellsOf(w) : w.rows[c[1]].buffer =>
                 \A d \in Formulas(w, w.rows[c[1]].name) : d = c)
           => /\ \A o \in Persons \cup {OwnerShared}, m \in 1..LastMonth :
                   CostTotal(plan', o, m) =
                     Sum({c \in CellsOf(w) : c[2] = o /\ m \in w.rows[c[1]].from..w.rows[c[1]].until},
                         LAMBDA c : w.rows[c[1]].cells[o].value)
              /\ \A p \in DOMAIN w.income : IncomeNet(plan', p) =
                   w.income[p].deposit - Abs(w.income[p].insurance) + w.income[p].tax]_householdVars
  BY ImportAddsUp
<1> QED
  BY <1>1, PTL DEF PlanSpec, ImportKeepsTheSums

-----------------------------------------------------------------------------
(* Rounded portions *)

LEMMA Cancel ==
  ASSUME NEW w \in Int, w > 0, NEW a \in Int, NEW b \in Int, w * a <= w * b
  PROVE  a <= b
<1> SUFFICES ASSUME b + 1 <= a PROVE FALSE
  OBVIOUS
<1> DEFINE d == a - b - 1
<1>1. d \in Int /\ d >= 0 /\ a = b + 1 + d
  OBVIOUS
<1> HIDE DEF d
<1>2. w * a = w * b + w + w * d
  BY <1>1
<1>3. w * d >= 0 /\ w * d \in Int /\ w * b \in Int
  BY <1>1
<1> QED
  BY <1>2, <1>3

LEMMA SumIsANumber ==
  ASSUME NEW f, Numbers(f)
  PROVE  SumFunction(f) \in Int
<1>1. PICK g : Totals(g, f) /\ SumFunction(f) = g[DOMAIN f]
  BY SumTotals
<1> QED
  BY <1>1 DEF Totals

\* q is a part of x, rounded: off by half a unit at most.
Rounded(q, x, part, whole) ==
  /\ 2 * whole * q - 2 * x * part <= whole
  /\ -whole <= 2 * whole * q - 2 * x * part

LEMMA PortionRounds ==
  ASSUME NEW x \in Int, NEW part \in Int, NEW whole \in Int, whole > 0
  PROVE  Portion(x, part, whole) \in Int /\ Rounded(Portion(x, part, whole), x, part, whole)
<1> DEFINE a == 2 * x * part
           b == 2 * whole
           q == (a + whole) \div b
<1>1. a \in Int /\ b \in Int /\ b > 0
  OBVIOUS
<1>2. Portion(x, part, whole) = q
  BY DEF Portion
<1> HIDE DEF a
<1>3. q \in Int
  BY <1>1
<1>4. b * q <= a + whole /\ a + whole < b * q + b
  <2> DEFINE s == a + whole
  <2>1. s \in Int
    BY <1>1
  <2> HIDE DEF s, b
  <2>2. b * (s \div b) <= s /\ s < b * (s \div b) + b
    BY <1>1, <2>1, SMTT(30)
  <2> QED
    BY <2>2 DEF s
<1> HIDE DEF q
<1>5. b * q \in Int
  BY <1>1, <1>3
<1>6. b * q - a <= whole /\ -whole <= b * q - a
  BY <1>1, <1>4, <1>5
<1> QED
  BY <1>2, <1>3, <1>6 DEF a, b, Rounded

\* Portions of one amount to parts of a whole: what rounding loses or adds is at most
\* half a cent each.
LEMMA PortionsAddUp ==
  ASSUME NEW S, IsFiniteSet(S), NEW x \in Int, NEW part, Numbers(part), DOMAIN part = S,
         NEW whole \in Int, whole > 0, SumFunction(part) = whole,
         NEW f, f = [p \in S |-> Portion(x, part[p], whole)]
  PROVE  /\ Numbers(f) /\ SumFunction(f) \in Int /\ Cardinality(S) \in Nat
         /\ SumFunction(f) - x <= Cardinality(S) /\ -Cardinality(S) <= SumFunction(f) - x
<1> DEFINE n == Cardinality(S)
           zero == [p \in S |-> 0]
           diff == [p \in S |-> 2 * whole * f[p] - 2 * x * part[p]]
           up == [p \in S |-> whole]
           down == [p \in S |-> -whole]
<1>1. n \in Nat
  BY FS_CardinalityType
<1>2. \A p \in S : part[p] \in Int
  BY DEF Numbers
<1>3. \A p \in S : /\ f[p] = Portion(x, part[p], whole) /\ f[p] \in Int
                   /\ 2 * whole * f[p] - 2 * x * part[p] <= whole
                   /\ -whole <= 2 * whole * f[p] - 2 * x * part[p]
  BY <1>2, PortionRounds DEF Rounded
<1>4. Numbers(f) /\ DOMAIN f = S
  BY <1>3 DEF Numbers
<1>5. Numbers(zero) /\ SumFunction(zero) = 0
  <2>1. Numbers(zero)
    BY DEF Numbers
  <2>2. \A p \in DOMAIN zero : zero[p] = 0
    OBVIOUS
  <2> HIDE DEF zero
  <2> QED
    BY <2>1, <2>2, SumOfZeros
<1>6. /\ SumFunction(diff) = SumFunction(f) * (2 * whole) - (2 * x) * SumFunction(part) - 0
      /\ Numbers(diff)
  <2>1. /\ diff \in [DOMAIN f -> Int] /\ DOMAIN zero = S
        /\ \A p \in DOMAIN f : diff[p] = f[p] * (2 * whole) - (2 * x) * part[p] - zero[p]
    <3>1. ASSUME NEW p \in S
          PROVE  /\ 2 * whole * f[p] - 2 * x * part[p] \in Int
                 /\ 2 * whole * f[p] - 2 * x * part[p]
                      = f[p] * (2 * whole) - (2 * x) * part[p] - 0
      <4> DEFINE u == f[p] v == part[p]
      <4>1. u \in Int /\ v \in Int
        BY <1>2, <1>3
      <4> HIDE DEF u, v
      <4>2. /\ 2 * whole * u - 2 * x * v \in Int
            /\ 2 * whole * u = u * (2 * whole) /\ 2 * x * v = (2 * x) * v
        BY <4>1
      <4>3. 2 * whole * u - 2 * x * v = u * (2 * whole) - (2 * x) * v - 0
        BY <4>1, <4>2
      <4> QED
        BY <4>2, <4>3 DEF u, v
    <3>2. \A p \in S : diff[p] = f[p] * (2 * whole) - (2 * x) * part[p] - zero[p]
      BY <3>1
    <3> QED
      BY <1>4, <3>1, <3>2
  <2>2. 2 * whole \in Int /\ 2 * x \in Int /\ DOMAIN part = DOMAIN f /\ DOMAIN zero = DOMAIN f
    BY <1>4, <2>1
  <2> HIDE DEF diff, zero
  <2>3. /\ SumFunction(diff)
             = SumFunction(f) * (2 * whole) - (2 * x) * SumFunction(part) - SumFunction(zero)
        /\ Numbers(diff)
    <3> DEFINE a == 2 * whole b == 2 * x
    <3>1. /\ a \in Int /\ b \in Int /\ diff \in [DOMAIN f -> Int]
          /\ \A p \in DOMAIN f : diff[p] = f[p] * a - b * part[p] - zero[p]
      BY <2>1, <2>2
    <3> HIDE DEF a, b
    <3>2. /\ SumFunction(diff) = SumFunction(f) * a - b * SumFunction(part) - SumFunction(zero)
          /\ Numbers(diff)
      BY <1>4, <1>5, <2>2, <3>1, SumOfDifferences
    <3> QED
      BY <3>2 DEF a, b
  <2> QED
    BY <1>5, <2>3
<1>7. SumFunction(diff) <= whole * n /\ -(whole * n) <= SumFunction(diff)
  <2>1. SumFunction(up) = whole * n /\ Numbers(up)
    BY SumOfEquals
  <2>2. SumFunction(down) = (-whole) * n /\ Numbers(down)
    <3>1. -whole \in Int
      OBVIOUS
    <3> QED
      BY <3>1, SumOfEquals
  <2>3. \A p \in S : diff[p] <= up[p] /\ down[p] <= diff[p]
    BY <1>3
  <2>4. DOMAIN diff = S /\ DOMAIN up = S /\ DOMAIN down = S
    OBVIOUS
  <2> HIDE DEF diff, up, down, n
  <2>5. SumFunction(diff) <= SumFunction(up) /\ SumFunction(down) <= SumFunction(diff)
    BY <1>6, <2>1, <2>2, <2>3, <2>4, SumsCompare
  <2>6. (-whole) * n = -(whole * n)
    BY <1>1
  <2> QED
    BY <2>1, <2>2, <2>5, <2>6
<1> DEFINE t == SumFunction(f)
<1>8. t \in Int
  BY <1>4, SumIsANumber
<1> HIDE DEF t, diff, n, zero
<1>9. SumFunction(diff) = whole * (2 * (t - x))
  <2>1. SumFunction(diff) = t * (2 * whole) - (2 * x) * whole
    BY <1>6, <1>8 DEF t
  <2>2. t * (2 * whole) = whole * (2 * t) /\ (2 * x) * whole = whole * (2 * x)
    BY <1>8
  <2>3. whole * (2 * (t - x)) = whole * (2 * t) - whole * (2 * x)
    BY <1>8
  <2> QED
    BY <2>1, <2>2, <2>3
<1>10. 2 * (t - x) <= n
  BY <1>1, <1>7, <1>8, <1>9, Cancel
<1>11. -n <= 2 * (t - x)
  <2>1. whole * (-n) <= whole * (2 * (t - x)) /\ -n \in Int /\ 2 * (t - x) \in Int
    BY <1>1, <1>7, <1>8, <1>9
  <2> QED
    BY <2>1, Cancel
<1>12. t - x <= n /\ -n <= t - x
  BY <1>1, <1>8, <1>10, <1>11
<1> QED
  BY <1>1, <1>4, <1>8, <1>12 DEF t, n

-----------------------------------------------------------------------------
(* Who funds the shared costs *)

LEMMA AmountIsANumber ==
  ASSUME NEW p, IsPosition(p), NEW m \in Int
  PROVE  EffectiveAmount(p, m) \in Int
<1>1. PlannedAmount(p) \in Int
  BY DEF PlannedAmount, IsPosition
<1> QED
  BY <1>1 DEF EffectiveAmount

LEMMA NetIsANumber ==
  ASSUME NEW pl, IsPlan(pl), NEW p
  PROVE  IncomeNet(pl, p) \in Int
<1>1. CASE p \in DOMAIN pl.income
  BY <1>1 DEF IsPlan, IncomeNet, Net, IncomeEntry
<1>2. CASE p \notin DOMAIN pl.income
  BY <1>2 DEF IncomeNet
<1> QED
  BY <1>1, <1>2

\* The amounts of some positions.
LEMMA CostsAreNumbers ==
  ASSUME NEW pl, IsPlan(pl), NEW m \in Int, NEW I \in SUBSET DOMAIN pl.positions,
         NEW f, f = [i \in I |-> EffectiveAmount(pl.positions[i], m)]
  PROVE  Numbers(f) /\ SumFunction(f) \in Int
<1>1. IsFiniteSet(I)
  BY FS_Subset DEF IsPlan
<1>2. \A i \in I : EffectiveAmount(pl.positions[i], m) \in Int
  BY AmountIsANumber DEF IsPlan
<1>3. Numbers(f)
  BY <1>1, <1>2 DEF Numbers
<1> QED
  BY <1>3, SumIsANumber

LEMMA CostTotalIsANumber ==
  ASSUME NEW pl, IsPlan(pl), NEW m \in Int, NEW o
  PROVE  CostTotal(pl, o, m) \in Int
<1> DEFINE I == {i \in DOMAIN pl.positions : pl.positions[i].owner = o}
           f == [i \in I |-> EffectiveAmount(pl.positions[i], m)]
<1>1. CostTotal(pl, o, m) = SumFunction(f)
  BY DEF CostTotal, Costs, Sum
<1>2. I \in SUBSET DOMAIN pl.positions
  OBVIOUS
<1>3. f = [i \in I |-> EffectiveAmount(pl.positions[i], m)]
  OBVIOUS
<1> HIDE DEF I, f
<1> QED
  BY <1>1, <1>2, <1>3, CostsAreNumbers

LEMMA PersonsAreFew ==
  ASSUME Planned
  PROVE  /\ IsFiniteSet(plan.persons) /\ Cardinality(plan.persons) \in Nat
         /\ plan.persons # {} => Cardinality(plan.persons) > 0
<1>1. IsFiniteSet(plan.persons)
  BY FS_Subset, BudgetPlanAssumption DEF Planned, IsPlan
<1> QED
  BY <1>1, FS_CardinalityType, FS_EmptySet

LEMMA FundingHolds == Planned => FundedWithinMeans
<1> SUFFICES ASSUME Planned, plan.persons # {}, SharedNet \in 0 .. Sum(plan.persons, Means)
             PROVE  /\ \A p \in plan.persons : Contribution(p) \in 0 .. Means(p)
                    /\ Abs(Sum(plan.persons, Contribution) - SharedNet) <= Rounding
  BY DEF FundedWithinMeans
<1> DEFINE P == plan.persons
           n == Cardinality(P)
           means == [p \in P |-> Means(p)]
           own == [p \in P |-> OwnPart(p)]
           surplus == [p \in P |-> Surplus(p)]
           T == TargetShare
           short == SharedNet - SumFunction(own)
           total == SumFunction(surplus)
           more == [p \in P |-> DistributeShortfall(p)]
           contribution == [p \in P |-> Contribution(p)]
<1>1. IsFiniteSet(P) /\ n \in Nat /\ n > 0
  BY PersonsAreFew
<1>2. /\ Sum(P, Means) = SumFunction(means) /\ Sum(P, OwnPart) = SumFunction(own)
      /\ Sum(P, Surplus) = SumFunction(surplus)
      /\ Sum(P, Contribution) = SumFunction(contribution)
  BY DEF Sum
<1>3. SharedNet \in Int
  BY CostTotalIsANumber DEF SharedNet, Planned
<1>4. \A p \in P : IncomeNet(plan, p) \in Int /\ Means(p) \in Nat
                   /\ Means(p) = Pos(IncomeNet(plan, p))
  <2>1. \A p \in P : IncomeNet(plan, p) \in Int
    BY NetIsANumber DEF Planned
  <2> SUFFICES ASSUME NEW p \in P
               PROVE  /\ IncomeNet(plan, p) \in Int /\ Means(p) \in Nat
                      /\ Means(p) = Pos(IncomeNet(plan, p))
    OBVIOUS
  <2> DEFINE x == IncomeNet(plan, p)
  <2>2. Means(p) = Pos(x) /\ x \in Int
    BY <2>1 DEF Means
  <2> HIDE DEF x
  <2>3. Pos(x) \in Nat
    BY <2>2 DEF Pos
  <2> QED
    BY <2>2, <2>3 DEF x
<1>5. Max({1, n}) = n
  <2> HIDE DEF n
  <2>1. 1 \in Int /\ n \in Int
    BY <1>1
  <2> DEFINE x == Max({1, n})
  <2>2. x \in Int /\ x \in {1, n} /\ x >= 1 /\ x >= n
    BY <2>1, GreaterOfTwo
  <2> HIDE DEF x
  <2>3. x = n
    BY <1>1, <2>2
  <2> QED
    BY <2>3 DEF x
<1>6. T = Portion(SharedNet, 1, n)
  BY <1>5 DEF TargetShare
<1>7. SumFunction(means) \in Nat /\ Numbers(means)
  <2>1. Numbers(means) /\ \A p \in DOMAIN means : means[p] >= 0
    BY <1>1, <1>4 DEF Numbers
  <2> HIDE DEF means
  <2> QED
    BY <2>1, SumOfNaturals
<1>8. SharedNet >= 0 /\ SharedNet <= SumFunction(means)
  BY <1>2, <1>7
<1>9. T \in Nat
  <2>1. T \in Int /\ -n <= 2 * n * T - 2 * SharedNet * 1
    <3> HIDE DEF T, n
    <3>1. T \in Int /\ Rounded(T, SharedNet, 1, n)
      BY <1>1, <1>3, <1>6, PortionRounds
    <3> QED
      BY <3>1 DEF Rounded
  <2>2. -n <= 2 * n * T
    BY <1>1, <1>3, <1>8, <2>1
  <2>3. T >= 0
    <3> SUFFICES ASSUME T + 1 <= 0 PROVE FALSE
      BY <2>1
    <3> DEFINE d == -T - 1
    <3>1. d \in Nat /\ T = -d - 1
      BY <2>1
    <3> HIDE DEF d, T, n
    <3>2. 2 * n * T = -(2 * n * d) - 2 * n /\ 2 * n * d >= 0 /\ 2 * n * d \in Int
      BY <1>1, <3>1
    <3> QED
      BY <1>1, <2>2, <3>2
  <2> QED
    BY <2>1, <2>3
<1>10. \A p \in P : /\ OwnPart(p) \in Nat /\ OwnPart(p) <= Means(p) /\ OwnPart(p) <= T
                    /\ OwnPart(p) = T \/ OwnPart(p) = Means(p)
                    /\ Surplus(p) = Means(p) - OwnPart(p)
  BY <1>4, <1>9 DEF OwnPart, Least, Surplus, Pos
<1> HIDE DEF T
<1>11. Numbers(own) /\ Numbers(surplus)
  BY <1>1, <1>4, <1>10 DEF Numbers
<1>12. /\ SumFunction(means) = SumFunction(own) + total
       /\ SumFunction(own) \in Int /\ total \in Int
  <2>1. /\ means \in [DOMAIN own -> Int] /\ DOMAIN own = DOMAIN surplus
        /\ \A p \in DOMAIN own : means[p] = own[p] + surplus[p]
    BY <1>4, <1>10
  <2> HIDE DEF means, own, surplus
  <2> QED
    BY <1>11, <2>1, SumOfSums
<1>13. short <= total /\ short \in Int
  BY <1>3, <1>8, <1>12
<1>14. total \in Nat /\ \A p \in P : Surplus(p) <= total
  <2>1. \A p \in DOMAIN surplus : surplus[p] >= 0
    BY <1>4, <1>10
  <2>2. DOMAIN surplus = P /\ \A p \in P : surplus[p] = Surplus(p)
    OBVIOUS
  <2> HIDE DEF surplus
  <2> QED
    BY <1>11, <2>1, <2>2, SumOfNaturals
<1>15. \A p \in P : DistributeShortfall(p) =
         IF short > 0 /\ total > 0 THEN Portion(short, Surplus(p), total) ELSE 0
  BY <1>2 DEF DistributeShortfall
<1>16. \A p \in P : Contribution(p) = OwnPart(p) + DistributeShortfall(p)
  BY DEF Contribution
<1> HIDE DEF short, total
<1>17. CASE short > 0
  <2>1. total > 0
    BY <1>13, <1>14, <1>17
  <2>2. ASSUME NEW p \in P
        PROVE  /\ DistributeShortfall(p) \in Nat /\ DistributeShortfall(p) <= Surplus(p)
    <3> DEFINE s == Surplus(p) q == Portion(short, s, total)
    <3>1. s \in Nat /\ s \in Int /\ total \in Int
      BY <1>4, <1>10, <1>14
    <3> HIDE DEF s
    <3>2. /\ q \in Int /\ 2 * total * q - 2 * short * s <= total
          /\ -total <= 2 * total * q - 2 * short * s
      <4>1. q \in Int /\ Rounded(q, short, s, total)
        BY <1>13, <1>14, <2>1, <3>1, PortionRounds
      <4> HIDE DEF q
      <4> QED
        BY <4>1 DEF Rounded
    <3> HIDE DEF q
    <3>3. short * s <= total * s /\ short * s >= 0 /\ short * s \in Int /\ total * s \in Int
      <4> DEFINE e == total - short
      <4>1. e \in Nat /\ total = short + e
        BY <1>13, <1>14
      <4> HIDE DEF e
      <4>2. (short + e) * s = short * s + e * s /\ e * s >= 0 /\ e * s \in Int
            /\ short * s >= 0 /\ short * s \in Int
        BY <1>13, <1>17, <3>1, <4>1
      <4> QED
        BY <4>1, <4>2
    <3>4. 2 * total * q = total * (2 * q) /\ 2 * short * s = 2 * (short * s)
          /\ total * (2 * q) \in Int /\ 2 * (total * s) = total * (2 * s)
      BY <1>13, <1>14, <3>1, <3>2
    <3>5. total * (2 * q) <= total * (2 * s + 1)
      <4>1. total * (2 * s + 1) = total * (2 * s) + total
        BY <1>14, <3>1
      <4> QED
        BY <1>14, <3>2, <3>3, <3>4, <4>1
    <3>6. total * (-1) <= total * (2 * q)
      BY <1>14, <3>2, <3>3, <3>4
    <3>7. 2 * q <= 2 * s + 1
      BY <1>14, <2>1, <3>1, <3>2, <3>5, Cancel
    <3>8. -1 <= 2 * q
      <4>1. total > 0 /\ total \in Int /\ -1 \in Int /\ 2 * q \in Int
        BY <1>14, <2>1, <3>2
      <4> QED
        BY <3>6, <4>1, Cancel
    <3>9. q \in Nat /\ q <= s
      BY <3>1, <3>2, <3>7, <3>8
    <3> QED
      BY <1>15, <1>17, <2>1, <3>9 DEF q, s
  <2>3. \A p \in P : Contribution(p) \in 0 .. Means(p)
    BY <1>4, <1>10, <1>16, <2>2
  <2>4. /\ Numbers(more) /\ SumFunction(more) \in Int
        /\ SumFunction(more) - short <= n /\ -n <= SumFunction(more) - short
    <3>1. more = [p \in P |-> Portion(short, surplus[p], total)]
      BY <1>15, <1>17, <2>1
    <3>2. DOMAIN surplus = P /\ SumFunction(surplus) = total
      BY DEF total
    <3> HIDE DEF more, surplus
    <3> QED
      BY <1>1, <1>11, <1>13, <1>14, <2>1, <3>1, <3>2, PortionsAddUp
  <2>5. SumFunction(contribution) = SumFunction(own) + SumFunction(more)
    <3>1. /\ contribution \in [DOMAIN own -> Int] /\ DOMAIN own = DOMAIN more
          /\ \A p \in DOMAIN own : contribution[p] = own[p] + more[p]
      BY <1>10, <1>16, <2>2
    <3> HIDE DEF contribution, own, more
    <3> QED
      BY <1>11, <2>4, <3>1, SumOfSums
  <2>6. Abs(SumFunction(contribution) - SharedNet) <= n
    <3> HIDE DEF contribution, own, more, n
    <3>1. short = SharedNet - SumFunction(own)
      BY DEF short, own
    <3> QED
      BY <1>1, <1>3, <1>12, <2>4, <2>5, <3>1 DEF Abs
  <2> QED
    BY <1>2, <2>3, <2>6 DEF Rounding
<1>18. CASE ~(short > 0)
  <2>1. \A p \in P : DistributeShortfall(p) = 0 /\ Contribution(p) = OwnPart(p)
    BY <1>10, <1>15, <1>16, <1>18
  <2>2. \A p \in P : Contribution(p) \in 0 .. Means(p)
    BY <1>4, <1>10, <2>1
  <2>3. contribution = own
    BY <2>1
  <2>4. SumFunction(own) >= SharedNet
    <3> HIDE DEF own
    <3> QED
      BY <1>3, <1>12, <1>18 DEF short, own
  <2>5. SumFunction(own) <= T * n
    <3> DEFINE each == [p \in P |-> T]
    <3>1. SumFunction(each) = T * n /\ Numbers(each)
      BY <1>1, <1>9, SumOfEquals
    <3>2. DOMAIN each = DOMAIN own /\ \A p \in DOMAIN own : own[p] <= each[p]
      BY <1>10
    <3> HIDE DEF each, own
    <3> QED
      BY <1>11, <3>1, <3>2, SumsCompare
  <2>6. 2 * n * T - 2 * SharedNet * 1 <= n
    <3> HIDE DEF n
    <3>1. Rounded(T, SharedNet, 1, n)
      BY <1>1, <1>3, <1>6, PortionRounds
    <3> QED
      BY <3>1 DEF Rounded
  <2>7. Abs(SumFunction(own) - SharedNet) <= n
    <3> HIDE DEF own, n
    <3>1. 2 * n * T = 2 * (T * n) /\ T * n \in Int
      BY <1>1, <1>9
    <3> QED
      BY <1>1, <1>3, <1>12, <2>4, <2>5, <2>6, <3>1 DEF Abs
  <2> QED
    BY <1>2, <2>2, <2>3, <2>7 DEF Rounding
<1> QED
  BY <1>13, <1>17, <1>18

\* Whoever lives in the household and whatever they earn: when all together can pay
\* the shared costs they are paid in full, up to the cents of rounding, and nobody is
\* asked for more than the own net income (transfer_plan.py _distribute_shortfall).
THEOREM SharedCostsAreFunded == PlanSpec => []FundedWithinMeans
  BY PlanStaysPlanned, FundingHolds, PTL

-----------------------------------------------------------------------------
(* Accounts that are found *)

LEMMA FirstIsOne ==
  ASSUME Planned, NEW S \in SUBSET DOMAIN accounts
  PROVE  /\ S = {} => First(S) = 0
         /\ S # {} => First(S) \in S /\ First(S) # 0
<1>1. IsFiniteSet(DOMAIN accounts) /\ DOMAIN accounts \subseteq Nat \ {0}
  BY BudgetPlanAssumption DEF Planned
<1>2. IsFiniteSet(S) /\ S \in SUBSET Int
  BY <1>1, FS_Subset
<1>3. S # {} => Min(S) \in S
  BY <1>2, Extremes
<1> QED
  BY <1>1, <1>3 DEF First

LEMMA PrimaryIsOwn ==
  ASSUME Planned, NEW p, PrimaryFor(p) # 0
  PROVE  PrimaryFor(p) \in DOMAIN accounts /\ accounts[PrimaryFor(p)].person = p
<1> DEFINE own == {k \in DOMAIN accounts : accounts[k].person = p}
           primary == {k \in own : RoleOf(k) = "primary"}
           chosen == IF primary # {} THEN primary ELSE own
<1>1. PrimaryFor(p) = First(chosen)
  BY DEF PrimaryFor
<1>2. chosen \in SUBSET DOMAIN accounts /\ chosen \subseteq own
  OBVIOUS
<1> HIDE DEF own, chosen, primary
<1>3. PrimaryFor(p) \in chosen
  BY <1>1, <1>2, FirstIsOne
<1> QED
  BY <1>2, <1>3 DEF own

LEMMA PassThroughIsOne ==
  ASSUME Planned, PassThrough # 0
  PROVE  PassThrough \in DOMAIN accounts
<1> DEFINE S == {k \in DOMAIN accounts : RoleOf(k) = "pass_through"}
<1>1. PassThrough = First(S) /\ S \in SUBSET DOMAIN accounts
  BY DEF PassThrough
<1> HIDE DEF S
<1>2. PassThrough \in S
  BY <1>1, FirstIsOne
<1> QED
  BY <1>1, <1>2

LEMMA DebitIsPlaced ==
  ASSUME Planned, NEW p, ResolveDebitAccount(p) # 0
  PROVE  ResolveDebitAccount(p) \in DOMAIN accounts
  BY PrimaryIsOwn, PassThroughIsOne DEF ResolveDebitAccount

-----------------------------------------------------------------------------
(* Families of legs *)

Amounts(A) == SumFunction([l \in A |-> l.amount])

\* Legs of some kinds, on accounts that are configured, and what they add up to.
Family(A, kinds, total) ==
  /\ IsFiniteSet(A) /\ total \in Int /\ Amounts(A) = total
  /\ \A l \in A : l.amount \in Int /\ l.account \in DOMAIN accounts /\ l.of[1] \in kinds

LEMMA LegsApart ==
  ASSUME NEW A, NEW B, NEW K, NEW L, NEW s, NEW t,
         Family(A, K, s), Family(B, L, t), A \cap B = {}
  PROVE  Family(A \cup B, K \cup L, s + t)
<1> DEFINE f == [l \in A \cup B |-> l.amount]
           fA == [l \in A |-> f[l]]
           fB == [l \in B |-> f[l]]
<1>1. IsFiniteSet(A \cup B)
  BY FS_Union DEF Family
<1>2. Numbers(f) /\ DOMAIN f = A \cup B
  BY <1>1 DEF Family, Numbers
<1>3. SumFunction(f) = Amounts(A \cup B)
  BY DEF Amounts
<1>4. fA = [l \in A |-> l.amount] /\ fB = [l \in B |-> l.amount]
  OBVIOUS
<1>5. SumFunction(fA) = s /\ SumFunction(fB) = t
  BY <1>4 DEF Family, Amounts
<1>6. fA = [l \in A |-> f[l]] /\ fB = [l \in B |-> f[l]]
  OBVIOUS
<1> HIDE DEF f, fA, fB
<1>7. SumFunction(f) = SumFunction(fA) + SumFunction(fB)
  BY <1>2, <1>6, SumOfTwoParts
<1>8. Amounts(A \cup B) = s + t /\ s + t \in Int
  BY <1>3, <1>5, <1>7 DEF Family
<1>9. \A l \in A \cup B : l.amount \in Int /\ l.account \in DOMAIN accounts /\ l.of[1] \in K \cup L
  BY DEF Family
<1> QED
  BY <1>1, <1>8, <1>9 DEF Family

LEMMA Families ==
  ASSUME NEW A, NEW B, NEW K, NEW L, NEW s, NEW t,
         Family(A, K, s), Family(B, L, t), K \cap L = {}
  PROVE  Family(A \cup B, K \cup L, s + t)
<1>1. A \cap B = {}
  BY DEF Family
<1> QED
  BY <1>1, LegsApart

LEMMA NamedAreFew ==
  ASSUME NEW S, IsFiniteSet(S), NEW name, name = [x \in S |-> name[x]], NEW T, Naming(name, S, T)
  PROVE  IsFiniteSet(T)
<1>1. T = {name[x] : x \in S}
  BY DEF Naming
<1> QED
  BY <1>1, ImageOf

\* A leg of one kind for each of I.
Legs(A, I, kind, leg, amount) ==
  /\ leg = [i \in I |-> leg[i]] /\ amount = [i \in I |-> amount[i]]
  /\ \A i \in I : /\ leg[i].amount = amount[i] /\ amount[i] \in Int
                  /\ leg[i].account \in DOMAIN accounts /\ leg[i].of = <<kind, i>>
                  /\ leg[i] \in A
  /\ \A l \in A : \E i \in I : l = leg[i]

LEMMA SingleLegs ==
  ASSUME NEW I, IsFiniteSet(I), NEW kind, NEW leg, NEW amount, NEW A,
         Legs(A, I, kind, leg, amount)
  PROVE  Family(A, {kind}, SumFunction(amount))
<1> DEFINE f == [l \in A |-> l.amount]
           g == [i \in I |-> f[leg[i]]]
<1>1. Naming(leg, I, A)
  <2>1. \A i, j \in I : leg[i] = leg[j] => i = j
    <3> SUFFICES ASSUME NEW i \in I, NEW j \in I, leg[i] = leg[j] PROVE i = j
      OBVIOUS
    <3>1. <<kind, i>> = <<kind, j>>
      BY DEF Legs
    <3> QED
      BY <3>1
  <2> QED
    BY <2>1 DEF Naming, Legs
<1>2. IsFiniteSet(A)
  BY <1>1, NamedAreFew DEF Legs
<1>3. \A l \in A : l.amount \in Int /\ l.account \in DOMAIN accounts /\ l.of[1] \in {kind}
  BY DEF Legs
<1>4. Numbers(f) /\ DOMAIN f = A
  BY <1>2, <1>3 DEF Numbers
<1>5. g = amount
  BY DEF Legs
<1>6. SumFunction(f) = SumFunction(g) /\ SumFunction(g) \in Int
  <2>1. g = [i \in I |-> f[leg[i]]] /\ Naming(leg, I, DOMAIN f)
    BY <1>1, <1>4
  <2> HIDE DEF f, g
  <2> QED
    BY <1>4, <2>1, SumRenamed
<1>7. Amounts(A) = SumFunction(f)
  BY DEF Amounts
<1> HIDE DEF f, g
<1> QED
  BY <1>2, <1>3, <1>5, <1>6, <1>7 DEF Family

\* What is moved leaves one account and arrives on another.
LEMMA MovedLegs ==
  ASSUME NEW I, IsFiniteSet(I), NEW kind, NEW from, NEW to,
         NEW amount, amount = [i \in I |-> amount[i]],
         \A i \in I : /\ from[i] \in DOMAIN accounts /\ to[i] \in DOMAIN accounts
                      /\ from[i] # to[i] /\ amount[i] \in Int,
         NEW A, \A i \in I : Moved(from[i], to[i], amount[i], <<kind, i>>) \subseteq A,
         \A l \in A : \E i \in I : l \in Moved(from[i], to[i], amount[i], <<kind, i>>)
  PROVE  Family(A, {kind}, 0)
<1> DEFINE minus == [i \in I |-> -amount[i]]
           zero == [i \in I |-> 0]
           leaves == [i \in I |-> Leg(from[i], -amount[i], <<kind, i>>)]
           arrives == [i \in I |-> Leg(to[i], amount[i], <<kind, i>>)]
           Out == {leaves[i] : i \in I}
           In == {arrives[i] : i \in I}
<1>1. A = Out \cup In
  <2>1. \A i \in I : Moved(from[i], to[i], amount[i], <<kind, i>>) = {leaves[i], arrives[i]}
    BY DEF Moved
  <2>2. \A l : l \in Out <=> \E i \in I : l = leaves[i]
    OBVIOUS
  <2>3. \A l : l \in In <=> \E i \in I : l = arrives[i]
    OBVIOUS
  <2> HIDE DEF leaves, arrives, Out, In
  <2>4. ASSUME NEW l \in A PROVE l \in Out \cup In
    <3>1. PICK i \in I : l \in Moved(from[i], to[i], amount[i], <<kind, i>>)
      OBVIOUS
    <3>2. l = leaves[i] \/ l = arrives[i]
      BY <2>1, <3>1
    <3> QED
      BY <2>2, <2>3, <3>2
  <2>5. \A l \in Out : l \in A
    BY <2>1, <2>2
  <2>6. \A l \in In : l \in A
    BY <2>1, <2>3
  <2> QED
    BY <2>4, <2>5, <2>6
<1>2. \A i \in I : minus[i] = -amount[i] /\ minus[i] \in Int /\ zero[i] = 0
  OBVIOUS
<1>3. \A i \in I : /\ leaves[i].amount = minus[i] /\ leaves[i].account = from[i]
                   /\ leaves[i].of = <<kind, i>> /\ leaves[i] \in Out
                   /\ arrives[i].amount = amount[i] /\ arrives[i].account = to[i]
                   /\ arrives[i].of = <<kind, i>> /\ arrives[i] \in In
  BY DEF Leg
<1>4. /\ leaves = [i \in I |-> leaves[i]] /\ arrives = [i \in I |-> arrives[i]]
      /\ minus = [i \in I |-> minus[i]] /\ zero = [i \in I |-> zero[i]]
  OBVIOUS
<1>5. (\A l \in Out : \E i \in I : l = leaves[i]) /\ (\A l \in In : \E i \in I : l = arrives[i])
  OBVIOUS
<1> HIDE DEF leaves, arrives, Out, In, minus, zero
<1>6. Out \cap In = {}
  <2> SUFFICES ASSUME NEW i \in I, NEW j \in I, leaves[i] = arrives[j] PROVE FALSE
    BY <1>5
  <2>1. from[i] = to[j] /\ <<kind, i>> = <<kind, j>>
    BY <1>3
  <2>2. i = j
    BY <2>1
  <2> QED
    BY <2>1, <2>2
<1>7. Family(In, {kind}, SumFunction(amount))
  <2>1. Legs(In, I, kind, arrives, amount)
    BY <1>3, <1>4, <1>5 DEF Legs
  <2> QED
    BY <2>1, SingleLegs
<1>8. Family(Out, {kind}, SumFunction(minus))
  <2>1. Legs(Out, I, kind, leaves, minus)
    BY <1>2, <1>3, <1>4, <1>5 DEF Legs
  <2> QED
    BY <2>1, SingleLegs
<1>9. SumFunction(minus) + SumFunction(amount) = 0
  <2>1. DOMAIN minus = I /\ DOMAIN amount = I /\ DOMAIN zero = I
    BY <1>4
  <2>2. Numbers(minus) /\ Numbers(amount) /\ Numbers(zero)
    BY <1>2, <1>4, <2>1 DEF Numbers
  <2>3. /\ zero \in [DOMAIN minus -> Int]
        /\ \A i \in DOMAIN minus : zero[i] = minus[i] + amount[i]
    BY <1>2, <1>4, <2>1
  <2>4. SumFunction(zero) = 0
    BY <1>2, <2>1, <2>2, SumOfZeros
  <2> QED
    BY <2>1, <2>2, <2>3, <2>4, SumOfSums
<1>10. Family(Out \cup In, {kind} \cup {kind}, SumFunction(minus) + SumFunction(amount))
  BY <1>6, <1>7, <1>8, LegsApart
<1> QED
  BY <1>1, <1>9, <1>10 DEF Family

-----------------------------------------------------------------------------
(* The rows of the plan *)

LEMMA EarnersHave ==
  ASSUME Planned
  PROVE  /\ IsFiniteSet(Earners) /\ Earners \subseteq plan.persons
         /\ \A p \in Earners :
              /\ p \in DOMAIN plan.income /\ PrimaryFor(p) \in DOMAIN accounts
              /\ InsuranceTarget(p) \in DOMAIN accounts
              /\ plan.income[p].deposit \in Int /\ plan.income[p].tax \in Int
              /\ plan.income[p].insurance \in Int /\ Abs(plan.income[p].insurance) \in Int
<1>1. IsFiniteSet(Earners) /\ Earners \subseteq plan.persons
  <2>1. Earners \in SUBSET plan.persons
    BY DEF Earners
  <2> QED
    BY <2>1, PersonsAreFew, FS_Subset
<1> SUFFICES ASSUME NEW p \in Earners
             PROVE  /\ p \in DOMAIN plan.income /\ PrimaryFor(p) \in DOMAIN accounts
                    /\ InsuranceTarget(p) \in DOMAIN accounts
                    /\ plan.income[p].deposit \in Int /\ plan.income[p].tax \in Int
                    /\ plan.income[p].insurance \in Int /\ Abs(plan.income[p].insurance) \in Int
  BY <1>1
<1>2. p \in DOMAIN plan.income /\ PrimaryFor(p) # 0
  BY DEF Earners
<1>3. PrimaryFor(p) \in DOMAIN accounts /\ InsuranceTarget(p) \in DOMAIN accounts
  BY <1>2, PrimaryIsOwn, PassThroughIsOne DEF InsuranceTarget
<1>4. plan.income[p] \in IncomeEntry
  BY <1>2 DEF Planned, IsPlan
<1>5. /\ plan.income[p].deposit \in Int /\ plan.income[p].tax \in Int
      /\ plan.income[p].insurance \in Int
  BY <1>4 DEF IncomeEntry
<1>6. Abs(plan.income[p].insurance) \in Int
  BY <1>5 DEF Abs
<1> QED
  BY <1>2, <1>3, <1>5, <1>6

LEMMA InsuranceIsPaid ==
  ASSUME Planned, InsuranceIsDeducted, NEW p \in Earners
  PROVE  -Abs(plan.income[p].insurance) = plan.income[p].insurance
<1>1. plan.income[p].insurance \in Int /\ plan.income[p].insurance <= 0
  BY EarnersHave DEF InsuranceIsDeducted
<1> QED
  BY <1>1 DEF Abs

LEMMA DepositLegs ==
  ASSUME Planned
  PROVE  Family(Deposits, {"deposit"}, SumFunction([p \in Earners |-> plan.income[p].deposit]))
<1> DEFINE amount == [p \in Earners |-> plan.income[p].deposit]
           leg == [p \in Earners |-> Leg(PrimaryFor(p), plan.income[p].deposit, <<"deposit", p>>)]
<1>1. \A p \in Earners : /\ PrimaryFor(p) \in DOMAIN accounts
                         /\ amount[p] \in Int /\ plan.income[p].deposit = amount[p]
  BY EarnersHave
<1>2. \A p \in Earners : /\ leg[p].amount = amount[p] /\ leg[p].account \in DOMAIN accounts
                         /\ leg[p].of = <<"deposit", p>> /\ leg[p] \in Deposits
  BY <1>1 DEF Leg, Deposits
<1>3. \A l \in Deposits : \E p \in Earners : l = leg[p]
  BY DEF Deposits
<1>4. amount = [p \in Earners |-> amount[p]] /\ leg = [p \in Earners |-> leg[p]]
  OBVIOUS
<1>5. IsFiniteSet(Earners)
  BY EarnersHave
<1> HIDE DEF amount, leg
<1>6. Legs(Deposits, Earners, "deposit", leg, amount)
  BY <1>1, <1>2, <1>3, <1>4 DEF Legs
<1>7. Family(Deposits, {"deposit"}, SumFunction(amount))
  BY <1>5, <1>6, SingleLegs
<1> QED
  BY <1>7 DEF amount

LEMMA TaxLegs ==
  ASSUME Planned
  PROVE  Family(TaxMoves, {"tax"}, SumFunction([p \in Earners |-> plan.income[p].tax]))
<1> DEFINE amount == [p \in Earners |-> plan.income[p].tax]
           leg == [p \in Earners |-> Leg(PrimaryFor(p), plan.income[p].tax, <<"tax", p>>)]
<1>1. \A p \in Earners : /\ PrimaryFor(p) \in DOMAIN accounts
                         /\ amount[p] \in Int /\ plan.income[p].tax = amount[p]
  BY EarnersHave
<1>2. \A p \in Earners : /\ leg[p].amount = amount[p] /\ leg[p].account \in DOMAIN accounts
                         /\ leg[p].of = <<"tax", p>> /\ leg[p] \in TaxMoves
  BY <1>1 DEF Leg, TaxMoves
<1>3. \A l \in TaxMoves : \E p \in Earners : l = leg[p]
  BY DEF TaxMoves
<1>4. amount = [p \in Earners |-> amount[p]] /\ leg = [p \in Earners |-> leg[p]]
  OBVIOUS
<1>5. IsFiniteSet(Earners)
  BY EarnersHave
<1> HIDE DEF amount, leg
<1>6. Legs(TaxMoves, Earners, "tax", leg, amount)
  BY <1>1, <1>2, <1>3, <1>4 DEF Legs
<1>7. Family(TaxMoves, {"tax"}, SumFunction(amount))
  BY <1>5, <1>6, SingleLegs
<1> QED
  BY <1>7 DEF amount

LEMMA InsuredLegs ==
  ASSUME Planned, InsuranceIsDeducted
  PROVE  Family(InsuranceDebits, {"insured"}, SumFunction([p \in Earners |-> plan.income[p].insurance]))
<1> DEFINE amount == [p \in Earners |-> plan.income[p].insurance]
           leg == [p \in Earners |-> Leg(InsuranceTarget(p), -Abs(plan.income[p].insurance), <<"insured", p>>)]
<1>1. \A p \in Earners : /\ InsuranceTarget(p) \in DOMAIN accounts
                         /\ amount[p] \in Int /\ -Abs(plan.income[p].insurance) = amount[p]
  BY EarnersHave, InsuranceIsPaid
<1>2. \A p \in Earners : /\ leg[p].amount = amount[p] /\ leg[p].account \in DOMAIN accounts
                         /\ leg[p].of = <<"insured", p>> /\ leg[p] \in InsuranceDebits
  BY <1>1 DEF Leg, InsuranceDebits
<1>3. \A l \in InsuranceDebits : \E p \in Earners : l = leg[p]
  BY DEF InsuranceDebits
<1>4. amount = [p \in Earners |-> amount[p]] /\ leg = [p \in Earners |-> leg[p]]
  OBVIOUS
<1>5. IsFiniteSet(Earners)
  BY EarnersHave
<1> HIDE DEF amount, leg
<1>6. Legs(InsuranceDebits, Earners, "insured", leg, amount)
  BY <1>1, <1>2, <1>3, <1>4 DEF Legs
<1>7. Family(InsuranceDebits, {"insured"}, SumFunction(amount))
  BY <1>5, <1>6, SingleLegs
<1> QED
  BY <1>7 DEF amount

LEMMA InsuranceLegs ==
  ASSUME Planned
  PROVE  Family(InsuranceMoves, {"insurance"}, 0)
<1> DEFINE I == {q \in Earners : InsuranceTarget(q) # PrimaryFor(q)}
           from == [p \in I |-> PrimaryFor(p)]
           to == [p \in I |-> InsuranceTarget(p)]
           amount == [p \in I |-> Abs(plan.income[p].insurance)]
<1>1. \A p \in I : /\ from[p] \in DOMAIN accounts /\ to[p] \in DOMAIN accounts
                   /\ from[p] # to[p] /\ amount[p] \in Int
  BY EarnersHave
<1>2. /\ \A p \in I : Moved(from[p], to[p], amount[p], <<"insurance", p>>) \subseteq InsuranceMoves
      /\ \A l \in InsuranceMoves : \E p \in I : l \in Moved(from[p], to[p], amount[p], <<"insurance", p>>)
  BY DEF InsuranceMoves
<1>3. amount = [p \in I |-> amount[p]]
  OBVIOUS
<1>4. IsFiniteSet(I)
  <2>1. I \in SUBSET Earners
    OBVIOUS
  <2> QED
    BY <2>1, EarnersHave, FS_Subset
<1> HIDE DEF I, from, to, amount
<1> QED
  BY <1>1, <1>2, <1>3, <1>4, MovedLegs

LEMMA ContributionIsANumber ==
  ASSUME Planned, NEW p \in plan.persons
  PROVE  Contribution(p) \in Int
<1> DEFINE P == plan.persons
           n == Cardinality(P)
           own == [q \in P |-> OwnPart(q)]
           surplus == [q \in P |-> Surplus(q)]
           short == SharedNet - SumFunction(own)
           total == SumFunction(surplus)
<1>1. IsFiniteSet(P) /\ n \in Nat /\ n > 0
  BY PersonsAreFew
<1>2. SharedNet \in Int
  BY CostTotalIsANumber DEF SharedNet, Planned
<1>3. TargetShare \in Int
  <2>1. Max({1, n}) \in Int /\ Max({1, n}) >= 1
    <3> HIDE DEF n
    <3> QED
      BY <1>1, GreaterOfTwo
  <2> DEFINE x == Max({1, n})
  <2>2. TargetShare = Portion(SharedNet, 1, x) /\ x \in Int /\ x > 0
    BY <2>1 DEF TargetShare
  <2> HIDE DEF x
  <2> QED
    BY <1>2, <2>2, PortionRounds
<1>4. ASSUME NEW q \in P
      PROVE  OwnPart(q) \in Int /\ Surplus(q) \in Int
  <2> DEFINE x == IncomeNet(plan, q)
  <2>1. x \in Int /\ Means(q) = Pos(x)
    BY NetIsANumber DEF Planned, Means
  <2> HIDE DEF x
  <2>2. Means(q) \in Int
    BY <2>1 DEF Pos
  <2>3. OwnPart(q) \in Int
    BY <1>3, <2>2 DEF OwnPart, Least
  <2>4. Surplus(q) = Pos(x - OwnPart(q))
    BY DEF Surplus, x
  <2> QED
    BY <2>1, <2>3, <2>4 DEF Pos
<1>5. Numbers(own) /\ Numbers(surplus)
  BY <1>1, <1>4 DEF Numbers
<1>6. SumFunction(own) \in Int /\ total \in Int
  <2> HIDE DEF own, surplus
  <2> QED
    BY <1>5, SumIsANumber
<1>7. DistributeShortfall(p) = IF short > 0 /\ total > 0 THEN Portion(short, Surplus(p), total) ELSE 0
  BY DEF DistributeShortfall, Sum
<1>8. short \in Int
  BY <1>2, <1>6
<1> HIDE DEF short, total
<1>9. DistributeShortfall(p) \in Int
  <2> DEFINE x == Surplus(p)
  <2>1. x \in Int /\ total \in Int
    BY <1>4, <1>6
  <2> HIDE DEF x
  <2>2. total > 0 => Portion(short, x, total) \in Int
    BY <1>8, <2>1, PortionRounds
  <2> QED
    BY <1>7, <2>2 DEF x
<1> QED
  BY <1>4, <1>9 DEF Contribution

LEMMA SharedLegs ==
  ASSUME Planned
  PROVE  Family(SharedMoves, {"shared"}, 0)
<1> DEFINE I == {q \in plan.persons : PassThrough # 0 /\ PrimaryFor(q) \notin {0, PassThrough}}
           from == [p \in I |-> PrimaryFor(p)]
           to == [p \in I |-> PassThrough]
           amount == [p \in I |-> Contribution(p)]
<1>1. \A p \in I : /\ from[p] \in DOMAIN accounts /\ to[p] \in DOMAIN accounts
                   /\ from[p] # to[p] /\ amount[p] \in Int
  BY PrimaryIsOwn, PassThroughIsOne, ContributionIsANumber
<1>2. /\ \A p \in I : Moved(from[p], to[p], amount[p], <<"shared", p>>) \subseteq SharedMoves
      /\ \A l \in SharedMoves : \E p \in I : l \in Moved(from[p], to[p], amount[p], <<"shared", p>>)
  <2>1. CASE PassThrough = 0
    BY <2>1 DEF SharedMoves
  <2>2. CASE PassThrough # 0
    BY <2>2 DEF SharedMoves
  <2> QED
    BY <2>1, <2>2
<1>3. amount = [p \in I |-> amount[p]]
  OBVIOUS
<1>4. IsFiniteSet(I)
  <2>1. I \in SUBSET plan.persons
    OBVIOUS
  <2> QED
    BY <2>1, PersonsAreFew, FS_Subset
<1> HIDE DEF I, from, to, amount
<1> QED
  BY <1>1, <1>2, <1>3, <1>4, MovedLegs

LEMMA ActiveAreFew ==
  ASSUME Planned
  PROVE  /\ IsFiniteSet(Active) /\ Active \subseteq DOMAIN plan.positions
         /\ \A i \in DOMAIN plan.positions : AmountOf(i) \in Int
<1>1. Active \in SUBSET DOMAIN plan.positions
  BY DEF Active
<1>2. IsFiniteSet(Active)
  BY <1>1, FS_Subset DEF Planned, IsPlan
<1>3. \A i \in DOMAIN plan.positions : AmountOf(i) \in Int
  BY AmountIsANumber DEF AmountOf, Planned, IsPlan
<1> QED
  BY <1>1, <1>2, <1>3

LEMMA ForeignLegs ==
  ASSUME Planned
  PROVE  Family(ForeignMoves, {"foreign"}, 0)
<1> DEFINE from == [i \in Foreign |-> PrimaryFor(plan.positions[i].owner)]
           to == [i \in Foreign |-> ResolveDebitAccount(plan.positions[i])]
           amount == [i \in Foreign |-> AmountOf(i)]
<1>0. Foreign \in SUBSET Active
  BY DEF Foreign, Individual
<1>1. ASSUME NEW i \in Foreign
      PROVE  /\ from[i] \in DOMAIN accounts /\ to[i] \in DOMAIN accounts
             /\ from[i] # to[i] /\ amount[i] \in Int
  <2>1. /\ PrimaryFor(plan.positions[i].owner) # 0
        /\ ResolveDebitAccount(plan.positions[i]) # 0
        /\ ResolveDebitAccount(plan.positions[i]) # PrimaryFor(plan.positions[i].owner)
    BY DEF Foreign
  <2> QED
    BY <1>0, <2>1, PrimaryIsOwn, DebitIsPlaced, ActiveAreFew
<1>2. /\ \A i \in Foreign : Moved(from[i], to[i], amount[i], <<"foreign", i>>) \subseteq ForeignMoves
      /\ \A l \in ForeignMoves : \E i \in Foreign : l \in Moved(from[i], to[i], amount[i], <<"foreign", i>>)
  BY DEF ForeignMoves
<1>3. amount = [i \in Foreign |-> amount[i]]
  OBVIOUS
<1>4. IsFiniteSet(Foreign)
  BY <1>0, ActiveAreFew, FS_Subset
<1> HIDE DEF from, to, amount
<1> QED
  BY <1>1, <1>2, <1>3, <1>4, MovedLegs

LEMMA DebitLegs ==
  ASSUME Planned
  PROVE  Family(Debits, {"debit"}, SumFunction([i \in Placed |-> -AmountOf(i)]))
<1> DEFINE amount == [i \in Placed |-> -AmountOf(i)]
           leg == [i \in Placed |-> Leg(ResolveDebitAccount(plan.positions[i]), -AmountOf(i), <<"debit", i>>)]
<1>0. Placed \in SUBSET Active /\ \A i \in Placed : ResolveDebitAccount(plan.positions[i]) # 0
  BY DEF Placed
<1>1. \A i \in Placed : /\ ResolveDebitAccount(plan.positions[i]) \in DOMAIN accounts
                         /\ amount[i] \in Int /\ -AmountOf(i) = amount[i]
  BY <1>0, ActiveAreFew, DebitIsPlaced
<1>2. \A i \in Placed : /\ leg[i].amount = amount[i] /\ leg[i].account \in DOMAIN accounts
                         /\ leg[i].of = <<"debit", i>> /\ leg[i] \in Debits
  BY <1>1 DEF Leg, Debits
<1>3. \A l \in Debits : \E i \in Placed : l = leg[i]
  BY DEF Debits
<1>4. amount = [i \in Placed |-> amount[i]] /\ leg = [i \in Placed |-> leg[i]]
  OBVIOUS
<1>5. IsFiniteSet(Placed)
  BY <1>0, ActiveAreFew, FS_Subset
<1> HIDE DEF amount, leg
<1>6. Legs(Debits, Placed, "debit", leg, amount)
  BY <1>1, <1>2, <1>3, <1>4 DEF Legs
<1>7. Family(Debits, {"debit"}, SumFunction(amount))
  BY <1>5, <1>6, SingleLegs
<1> QED
  BY <1>7 DEF amount

LEMMA RowsAddUp ==
  ASSUME Planned, InsuranceIsDeducted
  PROVE  /\ Family(Rows, {"deposit", "tax", "insurance", "shared", "foreign", "insured", "debit"},
                   Amounts(Rows))
         /\ Amounts(Rows) = SumFunction([p \in Earners |-> plan.income[p].deposit])
                            + SumFunction([p \in Earners |-> plan.income[p].tax])
                            + SumFunction([p \in Earners |-> plan.income[p].insurance])
                            + SumFunction([i \in Placed |-> -AmountOf(i)])
<1> DEFINE d == SumFunction([p \in Earners |-> plan.income[p].deposit])
           t == SumFunction([p \in Earners |-> plan.income[p].tax])
           u == SumFunction([p \in Earners |-> plan.income[p].insurance])
           c == SumFunction([i \in Placed |-> -AmountOf(i)])
<1>1. /\ Family(Deposits, {"deposit"}, d) /\ Family(TaxMoves, {"tax"}, t)
      /\ Family(InsuranceMoves, {"insurance"}, 0) /\ Family(SharedMoves, {"shared"}, 0)
      /\ Family(ForeignMoves, {"foreign"}, 0) /\ Family(InsuranceDebits, {"insured"}, u)
      /\ Family(Debits, {"debit"}, c)
  BY DepositLegs, TaxLegs, InsuranceLegs, SharedLegs, ForeignLegs, InsuredLegs, DebitLegs
<1> HIDE DEF d, t, u, c
<1>2. Family(Deposits \cup TaxMoves, {"deposit"} \cup {"tax"}, d + t)
  BY <1>1, Families
<1>3. Family(Deposits \cup TaxMoves, {"deposit", "tax"}, d + t)
  BY <1>2 DEF Family
<1>4. Family((Deposits \cup TaxMoves) \cup InsuranceMoves,
             {"deposit", "tax"} \cup {"insurance"}, d + t + 0)
  BY <1>1, <1>3, Families
<1>5. Family((Deposits \cup TaxMoves) \cup InsuranceMoves,
             {"deposit", "tax", "insurance"}, d + t + 0)
  BY <1>4 DEF Family
<1>6. Family(((Deposits \cup TaxMoves) \cup InsuranceMoves) \cup SharedMoves,
             {"deposit", "tax", "insurance"} \cup {"shared"}, d + t + 0 + 0)
  BY <1>1, <1>5, Families
<1>7. Family(((Deposits \cup TaxMoves) \cup InsuranceMoves) \cup SharedMoves,
             {"deposit", "tax", "insurance", "shared"}, d + t + 0 + 0)
  BY <1>6 DEF Family
<1>8. Family((((Deposits \cup TaxMoves) \cup InsuranceMoves) \cup SharedMoves) \cup ForeignMoves,
             {"deposit", "tax", "insurance", "shared"} \cup {"foreign"}, d + t + 0 + 0 + 0)
  BY <1>1, <1>7, Families
<1>9. Family((((Deposits \cup TaxMoves) \cup InsuranceMoves) \cup SharedMoves) \cup ForeignMoves,
             {"deposit", "tax", "insurance", "shared", "foreign"}, d + t + 0 + 0 + 0)
  BY <1>8 DEF Family
<1>10. Family(((((Deposits \cup TaxMoves) \cup InsuranceMoves) \cup SharedMoves)
                 \cup ForeignMoves) \cup InsuranceDebits,
              {"deposit", "tax", "insurance", "shared", "foreign"} \cup {"insured"},
              d + t + 0 + 0 + 0 + u)
  BY <1>1, <1>9, Families
<1>11. Family(((((Deposits \cup TaxMoves) \cup InsuranceMoves) \cup SharedMoves)
                 \cup ForeignMoves) \cup InsuranceDebits,
              {"deposit", "tax", "insurance", "shared", "foreign", "insured"},
              d + t + 0 + 0 + 0 + u)
  BY <1>10 DEF Family
<1>12. Family((((((Deposits \cup TaxMoves) \cup InsuranceMoves) \cup SharedMoves)
                 \cup ForeignMoves) \cup InsuranceDebits) \cup Debits,
              {"deposit", "tax", "insurance", "shared", "foreign", "insured"} \cup {"debit"},
              d + t + 0 + 0 + 0 + u + c)
  BY <1>1, <1>11, Families
<1>13. Rows = (((((Deposits \cup TaxMoves) \cup InsuranceMoves) \cup SharedMoves)
                 \cup ForeignMoves) \cup InsuranceDebits) \cup Debits
  BY DEF Rows
<1>14. Amounts(Rows) = d + t + u + c
  <2>1. d \in Int /\ t \in Int /\ u \in Int /\ c \in Int
    BY <1>1 DEF Family
  <2>2. Amounts(Rows) = d + t + 0 + 0 + 0 + u + c
    BY <1>12, <1>13 DEF Family
  <2> QED
    BY <2>1, <2>2
<1>15. Family(Rows, {"deposit", "tax", "insurance", "shared", "foreign", "insured", "debit"},
              Amounts(Rows))
  BY <1>12, <1>13 DEF Family
<1> QED
  BY <1>14, <1>15 DEF d, t, u, c

\* What is on all accounts is what all legs add up to.
LEMMA BalancesAreTheRows ==
  ASSUME Planned, InsuranceIsDeducted
  PROVE  /\ SumFunction(FinalBalances) = Amounts(Rows) /\ Numbers(FinalBalances)
         /\ DOMAIN FinalBalances = DOMAIN accounts
<1> DEFINE I == DOMAIN accounts
           final == FinalBalances
           a == [l \in Rows |-> l.amount]
           part == [k \in I |-> {l \in Rows : l.account = k}]
<1>1. IsFiniteSet(I)
  BY BudgetPlanAssumption DEF Planned
<1>2. IsFiniteSet(Rows) /\ \A l \in Rows : l.amount \in Int /\ l.account \in I
  BY RowsAddUp DEF Family
<1>3. Numbers(a) /\ DOMAIN a = Rows
  BY <1>2 DEF Numbers
<1>4. /\ \A k \in I : part[k] \in SUBSET DOMAIN a
      /\ \A k, j \in I : k # j => part[k] \cap part[j] = {}
      /\ Rows = UNION {part[k] : k \in I}
  BY <1>2, <1>3
<1>5. DOMAIN final = I
  BY DEF FinalBalances
<1>6. \A k \in I : final[k] = SumFunction([l \in part[k] |-> a[l]])
  <2> SUFFICES ASSUME NEW k \in I PROVE final[k] = SumFunction([l \in part[k] |-> a[l]])
    OBVIOUS
  <2>1. final[k] = SumFunction([l \in {leg \in Rows : leg.account = k} |-> l.amount])
    BY DEF FinalBalances, Sum
  <2>2. [l \in part[k] |-> a[l]] = [l \in {leg \in Rows : leg.account = k} |-> l.amount]
    OBVIOUS
  <2> QED
    BY <2>1, <2>2
<1>7. \A k \in I : final[k] \in Int
  <2> SUFFICES ASSUME NEW k \in I PROVE final[k] \in Int
    OBVIOUS
  <2> DEFINE f == [l \in part[k] |-> a[l]]
  <2>1. part[k] \in SUBSET Rows
    BY <1>3, <1>4
  <2>2. Numbers(f)
    BY <1>2, <1>3, <2>1, FS_Subset DEF Numbers
  <2>3. final[k] = SumFunction(f)
    BY <1>6
  <2> HIDE DEF f, final
  <2> QED
    BY <2>2, <2>3, SumIsANumber
<1>8. final \in [I -> Int]
  <2>1. final = [k \in I |-> final[k]]
    BY DEF FinalBalances
  <2> HIDE DEF final
  <2> QED
    BY <1>7, <2>1
<1> HIDE DEF final, part, I
<1>9. SumFunction([l \in Rows |-> a[l]]) = SumFunction(final) /\ Numbers(final)
  <2> HIDE DEF a
  <2> QED
    BY <1>1, <1>3, <1>4, <1>6, <1>8, SumByParts
<1>10. [l \in Rows |-> a[l]] = a /\ Amounts(Rows) = SumFunction(a)
  BY DEF Amounts
<1> QED
  BY <1>5, <1>9, <1>10 DEF final, I

-----------------------------------------------------------------------------
(* What is earned and what it costs *)

\* What all persons with an account earn.
Earned == SumFunction([p \in {q \in plan.persons : PrimaryFor(q) # 0} |-> IncomeNet(plan, p)])

LEMMA EarnedByEarners ==
  ASSUME Planned
  PROVE  /\ Earned = SumFunction([p \in Earners |-> plan.income[p].deposit])
                     + SumFunction([p \in Earners |-> plan.income[p].tax])
                     + SumFunction([p \in Earners |-> plan.income[p].insurance])
         /\ Earned \in Int
<1> DEFINE E == Earners
           Q == {q \in plan.persons : PrimaryFor(q) # 0}
           d == [p \in E |-> plan.income[p].deposit]
           t == [p \in E |-> plan.income[p].tax]
           u == [p \in E |-> plan.income[p].insurance]
           dt == [p \in E |-> d[p] + t[p]]
           net == [p \in E |-> dt[p] + u[p]]
           all == [p \in Q |-> IncomeNet(plan, p)]
           part == [p \in E |-> all[p]]
           some == [p \in Q |-> IF p \in E THEN all[p] ELSE 0]
<1>1. /\ IsFiniteSet(E)
      /\ \A p \in E : /\ d[p] \in Int /\ t[p] \in Int /\ u[p] \in Int
                      /\ IncomeNet(plan, p) = (d[p] + t[p]) + u[p]
  <2>1. IsFiniteSet(E)
    BY EarnersHave
  <2>2. ASSUME NEW p \in E
        PROVE  /\ d[p] \in Int /\ t[p] \in Int /\ u[p] \in Int
               /\ IncomeNet(plan, p) = (d[p] + t[p]) + u[p]
    BY EarnersHave DEF IncomeNet, Net
  <2> QED
    BY <2>1, <2>2
<1>2. /\ Numbers(d) /\ Numbers(t) /\ Numbers(u) /\ Numbers(dt) /\ Numbers(net)
      /\ DOMAIN d = E /\ DOMAIN t = E /\ DOMAIN u = E /\ DOMAIN dt = E /\ DOMAIN net = E
      /\ dt \in [E -> Int] /\ net \in [E -> Int]
      /\ \A p \in E : dt[p] = d[p] + t[p] /\ net[p] = dt[p] + u[p]
  BY <1>1 DEF Numbers
<1>3. part = net
  <2>1. E \subseteq Q
    BY DEF Earners
  <2> QED
    BY <1>1, <2>1
<1>4. Numbers(all) /\ DOMAIN all = Q /\ E \in SUBSET DOMAIN all
  <2>1. IsFiniteSet(Q)
    <3>1. Q \in SUBSET plan.persons
      OBVIOUS
    <3> QED
      BY <3>1, PersonsAreFew, FS_Subset
  <2>2. \A p \in Q : IncomeNet(plan, p) \in Int
    BY NetIsANumber DEF Planned
  <2>3. E \subseteq Q
    BY DEF Earners
  <2> QED
    BY <2>1, <2>2, <2>3 DEF Numbers
<1>5. some = all
  <2>1. \A p \in Q : p \notin E => IncomeNet(plan, p) = 0
    BY DEF Earners, IncomeNet
  <2> QED
    BY <2>1
<1>6. Earned = SumFunction(all)
  BY DEF Earned
<1>7. /\ part = [p \in E |-> all[p]]
      /\ some = [p \in DOMAIN all |-> IF p \in E THEN all[p] ELSE 0]
  BY <1>4
<1> HIDE DEF E, Q, d, t, u, dt, net, all, part, some
<1>8. SumFunction(dt) = SumFunction(d) + SumFunction(t)
  BY <1>2, SumOfSums
<1>9. SumFunction(net) = SumFunction(dt) + SumFunction(u)
  BY <1>2, SumOfSums
<1>10. SumFunction(some) = SumFunction(part) /\ SumFunction(part) \in Int
  BY <1>4, <1>7, SumOfSome
<1>11. Earned = SumFunction(d) + SumFunction(t) + SumFunction(u) /\ Earned \in Int
  BY <1>3, <1>5, <1>6, <1>8, <1>9, <1>10
<1> QED
  BY <1>11 DEF d, t, u, E

LEMMA ActiveCostsAll ==
  ASSUME Planned
  PROVE  /\ SumFunction([i \in Active |-> -AmountOf(i)]) = -CostGrandTotal(plan, month)
         /\ CostGrandTotal(plan, month) \in Int
<1> DEFINE I == DOMAIN plan.positions
           all == [i \in I |-> AmountOf(i)]
           part == [i \in Active |-> all[i]]
           some == [i \in I |-> IF i \in Active THEN all[i] ELSE 0]
           minus == [i \in Active |-> (-1) * part[i]]
<1>1. IsFiniteSet(I) /\ Active \subseteq I /\ \A i \in I : AmountOf(i) \in Int
  BY ActiveAreFew DEF Planned, IsPlan
<1>2. CostGrandTotal(plan, month) = SumFunction(all)
  <2>1. CostGrandTotal(plan, month) =
          SumFunction([i \in {j \in DOMAIN plan.positions : TRUE} |->
                         EffectiveAmount(plan.positions[i], month)])
    BY DEF CostGrandTotal, Costs, Sum
  <2>2. [i \in {j \in DOMAIN plan.positions : TRUE} |-> EffectiveAmount(plan.positions[i], month)]
          = all
    BY DEF AmountOf
  <2> QED
    BY <2>1, <2>2
<1>3. Numbers(all) /\ Active \in SUBSET DOMAIN all /\ DOMAIN all = I
  BY <1>1 DEF Numbers
<1>4. some = all
  BY DEF Active, AmountOf
<1>5. /\ part = [i \in Active |-> all[i]]
      /\ some = [i \in DOMAIN all |-> IF i \in Active THEN all[i] ELSE 0]
  BY <1>3
<1>6. minus = [i \in Active |-> -AmountOf(i)]
  BY <1>1
<1>7. Numbers(part) /\ DOMAIN part = Active
  BY <1>1, ActiveAreFew DEF Numbers
<1>8. minus = [i \in DOMAIN part |-> (-1) * part[i]]
  BY <1>7
<1> HIDE DEF all, part, some, minus, I
<1>9. SumFunction(some) = SumFunction(part) /\ SumFunction(part) \in Int
  BY <1>3, <1>5, SumOfSome
<1>10. SumFunction(minus) = (-1) * SumFunction(part)
  <2>1. -1 \in Int
    OBVIOUS
  <2> QED
    BY <1>7, <1>8, <2>1, SumOfMultiples
<1> QED
  BY <1>2, <1>4, <1>6, <1>9, <1>10

\* What is left on the accounts when every cost is placed.
LEMMA LeftOnAccounts ==
  ASSUME Planned, InsuranceIsDeducted, Placed = Active
  PROVE  SumFunction(FinalBalances) = Earned - CostGrandTotal(plan, month)
<1>1. SumFunction(FinalBalances) = SumFunction([p \in Earners |-> plan.income[p].deposit])
                                   + SumFunction([p \in Earners |-> plan.income[p].tax])
                                   + SumFunction([p \in Earners |-> plan.income[p].insurance])
                                   + SumFunction([i \in Active |-> -AmountOf(i)])
  BY RowsAddUp, BalancesAreTheRows
<1>2. SumFunction(FinalBalances) = Earned + SumFunction([i \in Active |-> -AmountOf(i)])
  BY <1>1, EarnedByEarners
<1> QED
  BY <1>2, EarnedByEarners, ActiveCostsAll

LEMMA NothingIsLost ==
  ASSUME Planned, InsuranceIsDeducted
  PROVE  NothingVanishes(FinalBalances)
<1> SUFFICES ASSUME Balanced(FinalBalances)
             PROVE  Sum(DOMAIN accounts, LAMBDA k : FinalBalances[k]) =
                      Sum({p \in plan.persons : PrimaryFor(p) # 0},
                          LAMBDA p : IncomeNet(plan, p)) - CostGrandTotal(plan, month)
  BY DEF NothingVanishes
<1>1. Placed = Active
  BY DEF Balanced, UnplacedPositions, Placed
<1>2. Sum({p \in plan.persons : PrimaryFor(p) # 0}, LAMBDA p : IncomeNet(plan, p)) = Earned
  BY DEF Sum, Earned
<1>3. Sum(DOMAIN accounts, LAMBDA k : FinalBalances[k])
        = SumFunction([k \in DOMAIN accounts |-> FinalBalances[k]])
  BY DEF Sum
<1>4. [k \in DOMAIN accounts |-> FinalBalances[k]] = FinalBalances
  <2> DEFINE final == FinalBalances
  <2>1. final \in [DOMAIN accounts -> Int]
    BY BalancesAreTheRows DEF Numbers
  <2> HIDE DEF final
  <2>2. [k \in DOMAIN accounts |-> final[k]] = final
    BY <2>1
  <2> QED
    BY <2>2 DEF final
<1> QED
  BY <1>1, <1>2, <1>3, <1>4, LeftOnAccounts

LEMMA SumWithOneMore ==
  ASSUME NEW f, Numbers(f), NEW S, NEW a, a \notin S, DOMAIN f = S \cup {a},
         NEW part, part = [x \in S |-> f[x]]
  PROVE  SumFunction(f) = f[a] + SumFunction(part) /\ SumFunction(part) \in Int /\ f[a] \in Int
<1>1. PICK g : Totals(g, f) /\ SumFunction(f) = g[DOMAIN f]
  BY SumTotals
<1>2. S \in SUBSET DOMAIN f /\ DOMAIN f \ {a} = S /\ a \in DOMAIN f
  OBVIOUS
<1>3. SumFunction(part) = g[S] /\ SumFunction(part) \in Int
  BY <1>1, <1>2, SumOfPart
<1>4. g[DOMAIN f] = f[a] + g[DOMAIN f \ {a}]
  BY <1>1, <1>2 DEF Totals
<1> QED
  BY <1>1, <1>2, <1>3, <1>4 DEF Numbers

\* The shared costs and everybody's own.
LEMMA CostsByOwner ==
  ASSUME Planned, \A i \in DOMAIN plan.positions :
                    plan.positions[i].owner \in plan.persons \cup {OwnerShared}
  PROVE  CostGrandTotal(plan, month)
           = SharedNet + SumFunction([p \in plan.persons |-> CostTotal(plan, p, month)])
<1> DEFINE P == plan.persons
           O == P \cup {OwnerShared}
           I == DOMAIN plan.positions
           all == [i \in I |-> AmountOf(i)]
           part == [o \in O |-> {i \in I : plan.positions[i].owner = o}]
           each == [o \in O |-> CostTotal(plan, o, month)]
           own == [p \in P |-> each[p]]
<1>1. IsFiniteSet(I) /\ \A i \in I : AmountOf(i) \in Int
  BY ActiveAreFew DEF Planned, IsPlan
<1>2. CostGrandTotal(plan, month) = SumFunction(all)
  <2>1. CostGrandTotal(plan, month) =
          SumFunction([i \in {j \in DOMAIN plan.positions : TRUE} |->
                         EffectiveAmount(plan.positions[i], month)])
    BY DEF CostGrandTotal, Costs, Sum
  <2>2. [i \in {j \in DOMAIN plan.positions : TRUE} |-> EffectiveAmount(plan.positions[i], month)]
          = all
    BY DEF AmountOf
  <2> QED
    BY <2>1, <2>2
<1>3. Numbers(all) /\ DOMAIN all = I
  BY <1>1 DEF Numbers
<1>4. IsFiniteSet(O) /\ OwnerShared \notin P
  BY PersonsAreFew, FS_AddElement, BudgetPlanAssumption DEF Planned, IsPlan
<1>5. /\ \A o \in O : part[o] \in SUBSET DOMAIN all
      /\ \A o, q \in O : o # q => part[o] \cap part[q] = {}
      /\ I = UNION {part[o] : o \in O}
  <2>1. \A o \in O : part[o] = {i \in I : plan.positions[i].owner = o}
    OBVIOUS
  <2>2. \A i \in I : plan.positions[i].owner \in O
    OBVIOUS
  <2>3. DOMAIN all = I
    BY <1>3
  <2> HIDE DEF part, all, O, I
  <2>4. (\A o \in O : part[o] \in SUBSET I) /\ UNION {part[o] : o \in O} \subseteq I
    BY <2>1
  <2>5. I \subseteq UNION {part[o] : o \in O}
    BY <2>1, <2>2
  <2>6. \A o, q \in O : o # q => part[o] \cap part[q] = {}
    BY <2>1
  <2> QED
    BY <2>3, <2>4, <2>5, <2>6
<1>6. \A o \in O : each[o] = SumFunction([i \in part[o] |-> all[i]])
  <2> SUFFICES ASSUME NEW o \in O PROVE each[o] = SumFunction([i \in part[o] |-> all[i]])
    OBVIOUS
  <2>1. each[o] = SumFunction([i \in {j \in DOMAIN plan.positions : plan.positions[j].owner = o}
                                 |-> EffectiveAmount(plan.positions[i], month)])
    BY DEF CostTotal, Costs, Sum
  <2>2. [i \in part[o] |-> all[i]]
          = [i \in {j \in DOMAIN plan.positions : plan.positions[j].owner = o}
               |-> EffectiveAmount(plan.positions[i], month)]
    BY DEF AmountOf
  <2> QED
    BY <2>1, <2>2
<1>7. each \in [O -> Int] /\ \A o \in O : each[o] = CostTotal(plan, o, month)
  BY CostTotalIsANumber DEF Planned
<1>8. own = [p \in P |-> CostTotal(plan, p, month)]
  OBVIOUS
<1>9. own = [p \in P |-> each[p]] /\ [i \in I |-> all[i]] = all
  OBVIOUS
<1> HIDE DEF all, part, each, own, I
<1>10. SumFunction([i \in I |-> all[i]]) = SumFunction(each) /\ Numbers(each)
  <2> HIDE DEF O
  <2> QED
    BY <1>3, <1>4, <1>5, <1>6, <1>7, SumByParts
<1>11. SumFunction(each) = each[OwnerShared] + SumFunction(own)
  <2>1. DOMAIN each = P \cup {OwnerShared}
    BY <1>7
  <2> HIDE DEF P
  <2> QED
    BY <1>4, <1>9, <1>10, <2>1, SumWithOneMore
<1>12. each[OwnerShared] = SharedNet
  BY <1>7 DEF SharedNet
<1> QED
  BY <1>2, <1>8, <1>9, <1>10, <1>11, <1>12

\* What the split leaves everybody is what they earn less what they pay.
LEMMA SplitAddsUp ==
  ASSUME Planned, plan.persons # {}
  PROVE  LET n == Cardinality(plan.persons)
             left == SumFunction([p \in plan.persons |-> Spielgeld(plan, p, month)])
             nets == SumFunction([p \in plan.persons |-> IncomeNet(plan, p)])
             costs == SumFunction([p \in plan.persons |-> CostTotal(plan, p, month)])
         IN  /\ left \in Int /\ nets \in Int /\ costs \in Int /\ n \in Nat
             /\ left - (nets - SharedNet - costs) <= n
             /\ -n <= left - (nets - SharedNet - costs)
             /\ Numbers([p \in plan.persons |-> Spielgeld(plan, p, month)])
<1> DEFINE P == plan.persons
           n == Cardinality(P)
           left == [p \in P |-> Spielgeld(plan, p, month)]
           nets == [p \in P |-> IncomeNet(plan, p)]
           costs == [p \in P |-> CostTotal(plan, p, month)]
           one == [p \in P |-> 1]
           positives == [p \in P |-> Pos(IncomeNet(plan, p))]
           positive == SumFunction(positives)
           minus == [p \in P |-> (-1) * costs[p]]
           sn == SharedNet
<1>1. IsFiniteSet(P) /\ n \in Nat /\ n > 0
  BY PersonsAreFew
<1>2. sn \in Int
  BY CostTotalIsANumber DEF SharedNet, Planned
<1>3. \A p \in P : /\ nets[p] = IncomeNet(plan, p) /\ nets[p] \in Int
                   /\ costs[p] = CostTotal(plan, p, month) /\ costs[p] \in Int
                   /\ one[p] = 1 /\ positives[p] = Pos(IncomeNet(plan, p)) /\ positives[p] \in Int
  <2> SUFFICES ASSUME NEW p \in P
               PROVE  IncomeNet(plan, p) \in Int /\ CostTotal(plan, p, month) \in Int
                      /\ Pos(IncomeNet(plan, p)) \in Int
    OBVIOUS
  <2> DEFINE x == IncomeNet(plan, p)
  <2>1. x \in Int /\ CostTotal(plan, p, month) \in Int
    BY NetIsANumber, CostTotalIsANumber DEF Planned
  <2> HIDE DEF x
  <2>2. Pos(x) \in Int
    BY <2>1 DEF Pos
  <2> QED
    BY <2>1, <2>2 DEF x
<1>4. /\ Numbers(nets) /\ Numbers(costs) /\ Numbers(one) /\ Numbers(positives)
      /\ DOMAIN nets = P /\ DOMAIN costs = P /\ DOMAIN one = P /\ DOMAIN positives = P
  <2>1. /\ nets = [p \in P |-> nets[p]] /\ costs = [p \in P |-> costs[p]]
        /\ one = [p \in P |-> one[p]] /\ positives = [p \in P |-> positives[p]]
    OBVIOUS
  <2> HIDE DEF nets, costs, one, positives, P
  <2>2. Numbers(nets) /\ DOMAIN nets = P
    BY <1>1, <1>3, <2>1 DEF Numbers
  <2>3. Numbers(costs) /\ DOMAIN costs = P
    BY <1>1, <1>3, <2>1 DEF Numbers
  <2>4. Numbers(one) /\ DOMAIN one = P
    BY <1>1, <1>3, <2>1 DEF Numbers
  <2>5. Numbers(positives) /\ DOMAIN positives = P
    BY <1>1, <1>3, <2>1 DEF Numbers
  <2> QED
    BY <2>2, <2>3, <2>4, <2>5
<1>5. SumFunction(one) = n
  <2>1. SumFunction(one) = 1 * Cardinality(P)
    BY <1>1, SumOfEquals
  <2> QED
    BY <1>1, <2>1
<1>6. IncomeNetTotal(plan) = SumFunction(nets)
  BY DEF IncomeNetTotal, Sum
<1>7. Sum(plan.persons, LAMBDA q : Pos(NetOf(plan, q))) = positive
  BY DEF Sum, NetOf
<1>8. minus = [p \in DOMAIN costs |-> (-1) * costs[p]] /\ DOMAIN minus = P
      /\ \A p \in P : minus[p] = (-1) * costs[p]
  BY <1>4
<1>9. left = [p \in P |-> left[p]] /\ \A p \in P : left[p] = Spielgeld(plan, p, month)
  OBVIOUS
<1> HIDE DEF left, nets, costs, one, positives, minus, n
<1>10. SumFunction(minus) = (-1) * SumFunction(costs) /\ Numbers(minus)
  <2>1. -1 \in Int
    OBVIOUS
  <2> QED
    BY <1>4, <1>8, <2>1, SumOfMultiples
<1>11. SumFunction(nets) \in Int /\ SumFunction(costs) \in Int /\ positive \in Int
  BY <1>4, SumIsANumber
<1> HIDE DEF positive
<1>12. CASE model = "pooled_equal"
  <2> DEFINE rest == SumFunction(nets) - sn
             share == [p \in P |-> Portion(rest, one[p], n)]
  <2>1. rest \in Int
    BY <1>2, <1>11
  <2>2. \A p \in P : left[p] = Portion(rest, 1, n) - costs[p]
    BY <1>3, <1>6, <1>9, <1>12 DEF Spielgeld, SharedNet, n
  <2> HIDE DEF rest
  <2>3. /\ Numbers(share) /\ SumFunction(share) \in Int
        /\ SumFunction(share) - rest <= n /\ -n <= SumFunction(share) - rest
    <3> DEFINE s == share
    <3>1. s = [p \in P |-> Portion(rest, one[p], n)] /\ n = Cardinality(P)
      BY DEF n
    <3> HIDE DEF s, share
    <3>2. /\ Numbers(s) /\ SumFunction(s) \in Int
          /\ SumFunction(s) - rest <= n /\ -n <= SumFunction(s) - rest
      BY <1>1, <1>4, <1>5, <2>1, <3>1, PortionsAddUp
    <3> QED
      BY <3>2 DEF s
  <2>4. \A p \in P : left[p] = share[p] + minus[p] /\ left[p] \in Int
    <3> SUFFICES ASSUME NEW p \in P PROVE left[p] = share[p] + minus[p] /\ left[p] \in Int
      OBVIOUS
    <3>1. share[p] = Portion(rest, 1, n) /\ share[p] \in Int
      BY <1>3, <2>3 DEF Numbers
    <3> HIDE DEF share
    <3>2. left[p] = share[p] - costs[p] /\ minus[p] = (-1) * costs[p] /\ costs[p] \in Int
      BY <1>3, <1>8, <2>2, <3>1
    <3> QED
      BY <3>1, <3>2
  <2>5. DOMAIN share = P
    OBVIOUS
  <2> HIDE DEF share
  <2>6. left \in [DOMAIN share -> Int] /\ \A p \in DOMAIN share : left[p] = share[p] + minus[p]
    BY <1>9, <2>4, <2>5
  <2>7. SumFunction(left) = SumFunction(share) + SumFunction(minus) /\ Numbers(left)
    <3>1. Numbers(share) /\ Numbers(minus) /\ DOMAIN share = DOMAIN minus
      BY <1>8, <1>10, <2>3, <2>5
    <3> HIDE DEF P
    <3> QED
      BY <2>6, <3>1, SumOfSums
  <2>8. /\ SumFunction(left) \in Int
        /\ SumFunction(left) - (SumFunction(nets) - sn - SumFunction(costs)) <= n
        /\ -n <= SumFunction(left) - (SumFunction(nets) - sn - SumFunction(costs))
    BY <1>1, <1>2, <1>10, <1>11, <2>3, <2>7 DEF rest
  <2> QED
    BY <1>1, <1>11, <2>7, <2>8 DEF left, nets, costs, n
<1>13. CASE model # "pooled_equal"
  <2> DEFINE share == [p \in P |-> SharedPart(plan, p, sn)]
             less == [p \in P |-> (-1) * share[p]]
             kept == [p \in P |-> nets[p] + less[p]]
  <2>1. \A p \in P : left[p] = nets[p] - share[p] - costs[p]
    BY <1>3, <1>9, <1>13 DEF Spielgeld, SharedNet, NetOf
  <2>2. /\ Numbers(share) /\ SumFunction(share) \in Int
        /\ SumFunction(share) - sn <= n /\ -n <= SumFunction(share) - sn
    <3> DEFINE s == share
    <3>1. CASE model = "proportional" /\ positive > 0
      <4>1. s = [p \in P |-> Portion(sn, positives[p], positive)] /\ n = Cardinality(P)
        BY <1>3, <1>7, <3>1 DEF SharedPart, NetOf, n
      <4>2. SumFunction(positives) = positive
        BY DEF positive
      <4> HIDE DEF s, share, sn
      <4>3. /\ Numbers(s) /\ SumFunction(s) \in Int
            /\ SumFunction(s) - sn <= n /\ -n <= SumFunction(s) - sn
        BY <1>1, <1>2, <1>4, <1>11, <3>1, <4>1, <4>2, PortionsAddUp
      <4> QED
        BY <4>3 DEF s
    <3>2. CASE ~(model = "proportional" /\ positive > 0)
      <4>1. s = [p \in P |-> Portion(sn, one[p], n)] /\ n = Cardinality(P)
        BY <1>3, <1>7, <3>2 DEF SharedPart, NetOf, n
      <4> HIDE DEF s, share, sn
      <4>2. /\ Numbers(s) /\ SumFunction(s) \in Int
            /\ SumFunction(s) - sn <= n /\ -n <= SumFunction(s) - sn
        BY <1>1, <1>2, <1>4, <1>5, <4>1, PortionsAddUp
      <4> QED
        BY <4>2 DEF s
    <3> QED
      BY <3>1, <3>2
  <2>3. DOMAIN share = P /\ DOMAIN less = P /\ DOMAIN kept = P
        /\ less = [p \in P |-> (-1) * share[p]] /\ kept = [p \in P |-> nets[p] + less[p]]
    OBVIOUS
  <2> HIDE DEF share, less, kept, sn
  <2>4. \A p \in P : share[p] \in Int /\ less[p] = -share[p] /\ less[p] \in Int
                     /\ kept[p] = nets[p] + less[p] /\ kept[p] \in Int
    BY <1>3, <2>2, <2>3 DEF Numbers
  <2>5. SumFunction(less) = (-1) * SumFunction(share) /\ Numbers(less)
    <3>1. -1 \in Int /\ less = [p \in DOMAIN share |-> (-1) * share[p]]
      BY <2>3
    <3> QED
      BY <2>2, <3>1, SumOfMultiples
  <2>6. SumFunction(kept) = SumFunction(nets) + SumFunction(less) /\ Numbers(kept)
    <3>1. kept \in [DOMAIN nets -> Int] /\ \A p \in DOMAIN nets : kept[p] = nets[p] + less[p]
      BY <1>4, <2>3, <2>4
    <3>2. Numbers(nets) /\ Numbers(less) /\ DOMAIN nets = DOMAIN less
      BY <1>4, <2>3, <2>5
    <3> HIDE DEF P
    <3> QED
      BY <3>1, <3>2, SumOfSums
  <2>7. SumFunction(left) = SumFunction(kept) + SumFunction(minus) /\ Numbers(left)
    <3>1. \A p \in P : left[p] = kept[p] + minus[p] /\ left[p] \in Int
      <4> SUFFICES ASSUME NEW p \in P PROVE left[p] = kept[p] + minus[p] /\ left[p] \in Int
        OBVIOUS
      <4>1. /\ nets[p] \in Int /\ costs[p] \in Int /\ share[p] \in Int
            /\ left[p] = nets[p] - share[p] - costs[p] /\ kept[p] = nets[p] + less[p]
            /\ less[p] = -share[p] /\ minus[p] = (-1) * costs[p]
        BY <1>3, <1>8, <2>1, <2>4
      <4> QED
        BY <4>1
    <3>2. left \in [DOMAIN kept -> Int] /\ \A p \in DOMAIN kept : left[p] = kept[p] + minus[p]
      BY <1>9, <2>3, <3>1
    <3>3. Numbers(kept) /\ Numbers(minus) /\ DOMAIN kept = DOMAIN minus
      BY <1>8, <1>10, <2>3, <2>6
    <3> HIDE DEF P
    <3> QED
      BY <3>2, <3>3, SumOfSums
  <2>8. /\ SumFunction(left) \in Int
        /\ SumFunction(left) - (SumFunction(nets) - sn - SumFunction(costs)) <= n
        /\ -n <= SumFunction(left) - (SumFunction(nets) - sn - SumFunction(costs))
    BY <1>1, <1>2, <1>10, <1>11, <2>2, <2>5, <2>6, <2>7
  <2> QED
    BY <1>1, <1>11, <2>7, <2>8 DEF left, nets, costs, n, sn
<1> QED
  BY <1>12, <1>13

\* Of part of the domain and of the rest.
LEMMA SumOfPartAndRest ==
  ASSUME NEW f, Numbers(f), NEW D, DOMAIN f = D, NEW A, A \subseteq D
  PROVE  /\ SumFunction(f) = SumFunction([x \in A |-> f[x]]) + SumFunction([x \in D \ A |-> f[x]])
         /\ SumFunction([x \in A |-> f[x]]) \in Int
         /\ SumFunction([x \in D \ A |-> f[x]]) \in Int
         /\ Numbers([x \in A |-> f[x]])
<1> DEFINE B == D \ A
           fA == [x \in A |-> f[x]]
           fB == [x \in B |-> f[x]]
<1>1. A \cap B = {} /\ DOMAIN f = A \cup B
  OBVIOUS
<1>2. fA = [x \in A |-> f[x]] /\ fB = [x \in B |-> f[x]]
  OBVIOUS
<1> HIDE DEF B, fA, fB
<1>3. /\ SumFunction(f) = SumFunction(fA) + SumFunction(fB)
      /\ SumFunction(fA) \in Int /\ SumFunction(fB) \in Int /\ Numbers(fA)
  BY <1>1, <1>2, SumOfTwoParts
<1> QED
  BY <1>3 DEF fA, fB, B

LEMMA SettlementsAgree ==
  ASSUME Planned, InsuranceIsDeducted
  PROVE  SettlementsCancel(FinalBalances)
<1> DEFINE P == plan.persons
           n == Cardinality(P)
           final == FinalBalances
           owners == {plan.positions[i].owner : i \in DOMAIN plan.positions} \ {OwnerShared}
           primaries == {PrimaryFor(p) : p \in P}
<1> SUFFICES ASSUME Balanced(final), P # {}, 0 \notin primaries, owners \subseteq P
             PROVE  Abs(Sum(P, LAMBDA p : SettlementDelta(final, p))
                        + Sum(DOMAIN accounts \ primaries, LAMBDA k : final[k])) <= n
  BY DEF SettlementsCancel, Rounding
<1> DEFINE own == [k \in primaries |-> final[k]]
           others == [k \in DOMAIN accounts \ primaries |-> final[k]]
           primary == [p \in P |-> PrimaryFor(p)]
           held == [p \in P |-> own[primary[p]]]
           left == [p \in P |-> Spielgeld(plan, p, month)]
           less == [p \in P |-> (-1) * left[p]]
           delta == [p \in P |-> SettlementDelta(final, p)]
           nets == SumFunction([p \in P |-> IncomeNet(plan, p)])
           costs == SumFunction([p \in P |-> CostTotal(plan, p, month)])
<1>1. /\ Sum(P, LAMBDA p : SettlementDelta(final, p)) = SumFunction(delta)
      /\ Sum(DOMAIN accounts \ primaries, LAMBDA k : final[k]) = SumFunction(others)
  BY DEF Sum
<1>2. \A p \in P : PrimaryFor(p) # 0 /\ PrimaryFor(p) \in DOMAIN accounts
                   /\ accounts[PrimaryFor(p)].person = p
  BY PrimaryIsOwn
<1>3. Numbers(final) /\ DOMAIN final = DOMAIN accounts
  BY BalancesAreTheRows
<1>4. SumFunction(final) = nets - CostGrandTotal(plan, month)
  <2>1. Placed = Active
    BY DEF Balanced, UnplacedPositions, Placed
  <2>2. Earned = nets
    <3>1. {q \in plan.persons : PrimaryFor(q) # 0} = P
      BY <1>2
    <3> QED
      BY <3>1 DEF Earned
  <2> QED
    BY <2>1, <2>2, LeftOnAccounts
<1>5. CostGrandTotal(plan, month) = SharedNet + costs
  <2>1. \A i \in DOMAIN plan.positions : plan.positions[i].owner \in plan.persons \cup {OwnerShared}
    OBVIOUS
  <2> QED
    BY <2>1, CostsByOwner
<1>6. /\ SumFunction(left) \in Int /\ nets \in Int /\ costs \in Int /\ n \in Nat
      /\ SumFunction(left) - (nets - SharedNet - costs) <= n
      /\ -n <= SumFunction(left) - (nets - SharedNet - costs)
      /\ Numbers(left)
  BY SplitAddsUp
<1>7. SharedNet \in Int
  BY CostTotalIsANumber DEF SharedNet, Planned
<1>8. SumFunction(final) = SumFunction(own) + SumFunction(others) /\ Numbers(own)
      /\ SumFunction(own) \in Int /\ SumFunction(others) \in Int
  <2>1. primaries \subseteq DOMAIN accounts
    BY <1>2
  <2> HIDE DEF primaries, final
  <2>2. Numbers(final) /\ DOMAIN final = DOMAIN accounts
    BY <1>3
  <2> QED
    BY <2>1, <2>2, SumOfPartAndRest
<1>9. SumFunction(own) = SumFunction(held) /\ Numbers(held)
  <2>1. DOMAIN own = primaries /\ IsFiniteSet(P)
    BY PersonsAreFew
  <2>2. \A p, q \in P : primary[p] = primary[q] => p = q
    BY <1>2
  <2>3. (\A p \in P : primary[p] \in primaries) /\ \A k \in primaries : \E p \in P : primary[p] = k
    OBVIOUS
  <2> HIDE DEF primary, primaries, P
  <2>4. Naming(primary, P, DOMAIN own)
    BY <2>1, <2>2, <2>3 DEF Naming
  <2>5. held = [p \in P |-> own[primary[p]]]
    OBVIOUS
  <2> HIDE DEF own, held
  <2> QED
    BY <1>8, <2>1, <2>4, <2>5, SumRenamed
<1>10. \A p \in P : held[p] = final[PrimaryFor(p)]
  OBVIOUS
<1>11. /\ DOMAIN held = P /\ DOMAIN left = P /\ DOMAIN delta = P /\ DOMAIN less = P
       /\ less = [p \in DOMAIN left |-> (-1) * left[p]]
       /\ \A p \in P : less[p] = (-1) * left[p] /\ left[p] = Spielgeld(plan, p, month)
       /\ \A p \in P : delta[p] = SettlementDelta(final, p)
       /\ delta = [p \in P |-> delta[p]]
  OBVIOUS
<1> HIDE DEF held, left, less, delta, own, others, final
<1>12. SumFunction(less) = (-1) * SumFunction(left) /\ Numbers(less)
  <2>1. -1 \in Int
    OBVIOUS
  <2> QED
    BY <1>6, <1>11, <2>1, SumOfMultiples
<1>13. \A p \in P : delta[p] = held[p] + less[p] /\ delta[p] \in Int
  <2> SUFFICES ASSUME NEW p \in P PROVE delta[p] = held[p] + less[p] /\ delta[p] \in Int
    OBVIOUS
  <2>1. delta[p] = held[p] - left[p] /\ less[p] = (-1) * left[p]
    BY <1>10, <1>11 DEF SettlementDelta
  <2>2. held[p] \in Int /\ left[p] \in Int
    BY <1>6, <1>9, <1>11 DEF Numbers
  <2> QED
    BY <2>1, <2>2
<1>14. SumFunction(delta) = SumFunction(held) + SumFunction(less)
  <2>1. delta \in [DOMAIN held -> Int] /\ \A p \in DOMAIN held : delta[p] = held[p] + less[p]
    BY <1>11, <1>13
  <2>2. DOMAIN held = DOMAIN less
    BY <1>11
  <2> HIDE DEF P
  <2> QED
    BY <1>9, <1>12, <2>1, <2>2, SumOfSums
<1> DEFINE x == SumFunction(delta) + SumFunction(others)
<1>15. x \in Int /\ x <= n /\ -n <= x
  <2> HIDE DEF nets, costs, n, P, primaries
  <2>1. x = SumFunction(final) - SumFunction(left)
    BY <1>6, <1>8, <1>9, <1>12, <1>14
  <2>2. SumFunction(final) = nets - (SharedNet + costs)
    BY <1>4, <1>5
  <2> HIDE DEF x
  <2> QED
    BY <1>6, <1>7, <2>1, <2>2
<1>16. Abs(x) <= n
  <2> HIDE DEF x, n
  <2> QED
    BY <1>6, <1>15 DEF Abs
<1> QED
  BY <1>1, <1>16

LEMMA MoneyAddsUp == Planned => PlanAddsUp
  BY NothingIsLost, SettlementsAgree DEF PlanAddsUp

\* While every insurance is kept as a deduction, a plan that says it is balanced has
\* every cost of the ledger on some account, and its settlements are what the split
\* says, whatever the accounts, deposits, taxes, costs and split (transfer_plan.py
\* build_transfer_plan against household.py).
THEOREM BalancedPlansAddUp == PlanSpec => []PlanAddsUp
  BY PlanStaysPlanned, MoneyAddsUp, PTL
================================================================================
