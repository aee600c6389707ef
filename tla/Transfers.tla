------------------------------- MODULE Transfers -------------------------------
(***************************************************************************)
(* Money that moves between the household's own accounts: the detection of *)
(* transfer_detector.py (pairs, cascades, refunds), the user's verdicts on *)
(* the chains found, and what household_summary.py counts in the end.      *)
(*                                                                         *)
(* The book is the list of all accounts, newest day first.  A round or an  *)
(* answer derives it anew (manager/_banks.py), and each derivation gives   *)
(* the chains new ids: any that no verdict is stored under.  Names in a    *)
(* text are abstracted to the set of the own accounts and institutions     *)
(* that occur in it; money is in cents, a confidence in tenths; id 0 is a  *)
(* booking without transactionId, day 0 one without a date.  A bank's ids  *)
(* are its own per account: two accounts may give one.                     *)
(***************************************************************************)
EXTENDS Integers, SequencesExt

CONSTANTS
  Accounts, PayPalAccounts,
  Bookable,           \* what the banks may report: bookings without their id
  AmountTolerance,    \* TRANSFER_AMOUNT_TOLERANCE
  TimeWindow,         \* TRANSFER_TIME_WINDOW_DAYS
  RefundWindow,       \* TRANSFER_REFUND_WINDOW_DAYS
  AutoConfidence,     \* TRANSFER_AUTO_CONFIDENCE
  Shrunk, Swollen,    \* amounts whose difference in floats is below, above the exact one
  MaxBook, MaxShared, MaxVerdicts  \* bounds: the bookings, those with the id of
                                   \* another account's, the stored verdicts

\* A booking as a bank reports it, id 1 standing for any transactionId.
Booking == [id : {0, 1}, account : Accounts, amount : Int, day : Nat,
            party : SUBSET Accounts, subject : SUBSET Accounts, category : STRING,
            other : STRING, keyword : BOOLEAN, pending : BOOLEAN]

ASSUME TransfersAssumption ==
  /\ PayPalAccounts \subseteq Accounts
  /\ \A t \in Bookable : t \in Booking
  /\ Shrunk \subseteq Int \X Int /\ Swollen \subseteq Int \X Int
  /\ {AmountTolerance, TimeWindow, RefundWindow, AutoConfidence, MaxBook, MaxShared,
      MaxVerdicts} \subseteq Nat

VARIABLES
  book,       \* _transactions without what is derived
  chains,     \* the chains of the last derivation, each with its id
  refunds,    \* its refund pairs
  overrides   \* the stored verdicts by chain id

transferVars == <<book, chains, refunds, overrides>>

Distance(x, y) == IF x < y THEN y - x ELSE x - y

\* Differences of amounts are taken in floats, which at the limit itself err to
\* either side: 39.90 - 39.89 < 0.01 < 1.01 - 1.00.
Below(x, y, limit) ==
  Distance(x, y) < limit \/ (Distance(x, y) = limit /\ <<x, y>> \in Shrunk)

Within(x, y, limit) ==
  Distance(x, y) < limit \/ x = y \/ (Distance(x, y) = limit /\ <<x, y>> \notin Swollen)

\* Detection sees only what is booked.
Positions(b, Ok(_)) == {p \in DOMAIN b : ~b[p].pending /\ Ok(b[p])}
Lookup(b, id) == b[Max(Positions(b, LAMBDA t : t.id = id))]

-----------------------------------------------------------------------------
(* Phase A: pairs.  Every outgoing booking, in the list's order, takes the  *)
(* best incoming one that is still free.                                    *)

Named(o, i) ==
  IF i.account \in o.party \cup o.subject \/ o.account \in i.party \cup i.subject THEN 3
  ELSE IF o.party \cup i.party # {} THEN 2 ELSE 0

Score(o, i) ==
  LET gap == Distance(o.day, i.day)
      amount == IF Below(-o.amount, i.amount, 1) THEN 4
                ELSE IF Within(-o.amount, i.amount, AmountTolerance) THEN 2 ELSE 0
      near == CASE gap <= 1 -> 3 [] gap = 2 -> 2 [] gap = 3 -> 1 [] OTHER -> 0
  IN Min({10, amount + near + Named(o, i)
              + Cardinality({t \in {"o", "i"} :
                              (IF t = "o" THEN o ELSE i).category = "transfers"})})

\* Slip for the mutation runs: an incoming booking taken already may be taken again.
MayPairTwice(o, i, used) ==
  /\ i.amount > 0 /\ i.day # 0
  /\ i.account # o.account
  /\ Distance(-o.amount, i.amount) <= AmountTolerance
  /\ Distance(o.day, i.day) <= TimeWindow
  /\ Score(o, i) >= AutoConfidence

MayPair(o, i, used) ==
  /\ i.amount > 0 /\ i.day # 0
  /\ i.id \notin used
  /\ i.account # o.account
  /\ Distance(-o.amount, i.amount) <= AmountTolerance
  /\ Distance(o.day, i.day) <= TimeWindow
  /\ Score(o, i) >= AutoConfidence

\* The highest score; among equals the smaller amount, then the earlier in the list.
BestIncoming(b, o, used) ==
  LET free == Positions(b, LAMBDA i : MayPair(o, i, used))
      best == {p \in free : \A q \in free : Score(o, b[q]) <= Score(o, b[p])}
  IN {p \in best : \A q \in best : b[p].amount <= b[q].amount}

PairOf(o, i) ==
  [out |-> o.id, in |-> i.id, from |-> o.account, to |-> i.account, amount |-> -o.amount]

Paired(b, pairs, p) ==
  LET best == BestIncoming(b, b[p], {pairs[n].in : n \in DOMAIN pairs})
  IN IF b[p].amount >= 0 \/ b[p].pending \/ b[p].day = 0 \/ best = {} THEN pairs
     ELSE Append(pairs, PairOf(b[p], b[Min(best)]))

FindPairs(b) ==
  LET upTo[p \in 0..Len(b)] == IF p = 0 THEN <<>> ELSE Paired(b, upTo[p - 1], p)
  IN upTo[Len(b)]

-----------------------------------------------------------------------------
(* Phase B: cascades.  Pairs are strung together where one delivers to the  *)
(* account the next one takes from.                                         *)

Follows(b, first, second) ==
  LET delivered == Lookup(b, first.in)
      taken == Lookup(b, second.out)
  IN /\ Within(first.amount, second.amount, AmountTolerance)
     /\ delivered.day # 0 /\ taken.day # 0
     /\ Distance(delivered.day, taken.day) <= TimeWindow

Predecessors(b, pairs, k, visited) ==
  {j \in DOMAIN pairs \ visited :
     pairs[j].to = Lookup(b, pairs[k].out).account /\ Follows(b, pairs[j], pairs[k])}

Successors(b, pairs, k, visited) ==
  {j \in DOMAIN pairs \ visited :
     pairs[j].from = Lookup(b, pairs[k].in).account /\ Follows(b, pairs[k], pairs[j])}

\* Before its head as long as a pair fits there, then behind its end.  What is put
\* behind changes neither the head nor what is free for it.
Lengthened(b, pairs, string, visited) ==
  LET taken == visited \cup Range(string)
      before == Predecessors(b, pairs, Head(string), taken)
      behind == Successors(b, pairs, Last(string), taken)
  IN IF before # {} THEN <<Min(before)>> \o string
     ELSE IF behind # {} THEN Append(string, Min(behind)) ELSE string

Walk(b, pairs, start, visited) ==
  LET string[n \in 0..Len(pairs)] ==
        IF n = 0 THEN <<start>> ELSE Lengthened(b, pairs, string[n - 1], visited)
  IN string[Len(pairs)]

Resolved(b, pairs, strings, k) ==
  LET visited == UNION {Range(strings[n]) : n \in DOMAIN strings}
  IN IF k \in visited THEN strings ELSE Append(strings, Walk(b, pairs, k, visited))

ResolveChains(b, pairs) ==
  LET upTo[k \in 0..Len(pairs)] == IF k = 0 THEN <<>> ELSE Resolved(b, pairs, upTo[k - 1], k)
  IN upTo[Len(pairs)]

\* Every id at its first place.
WithoutRepeats(ids) ==
  LET firsts == {k \in DOMAIN ids : \A j \in 1..(k - 1) : ids[j] # ids[k]}
  IN [n \in 1..Cardinality(firsts) |->
        ids[CHOOSE k \in firsts : Cardinality(firsts \cap (1..k)) = n]]

BuildChain(pairs, string, number) ==
  LET legs == [k \in 1..(2 * Len(string)) |->
                 LET pair == pairs[string[(k + 1) \div 2]]
                 IN IF k % 2 = 1 THEN pair.out ELSE pair.in]
  IN [number |-> number, ids |-> WithoutRepeats(legs),
      source |-> Head(legs), destination |-> Last(legs)]

DetectChains(b, first) ==
  LET pairs == FindPairs(b)
      strings == ResolveChains(b, pairs)
  IN [n \in DOMAIN strings |-> BuildChain(pairs, strings[n], first + n)]

-----------------------------------------------------------------------------
(* Phase C: refunds.  An incoming booking whose text says so, with an       *)
(* earlier payment to the same party on the same account, up to a cent alike.*)

MayRefund(t) == t.amount > 0 /\ t.other # "" /\ t.keyword /\ t.day # 0

\* Slip for the mutation runs: a payment refunded already is found again.
OriginalsAgain(b, t, used) ==
  Positions(b, LAMBDA o :
    /\ o.amount < 0 /\ Within(-o.amount, t.amount, 1)
    /\ o.account = t.account /\ o.other = t.other
    /\ o.day # 0 /\ t.day - o.day \in 0..RefundWindow)

Originals(b, t, used) ==
  Positions(b, LAMBDA o :
    /\ o.amount < 0 /\ Within(-o.amount, t.amount, 1)
    /\ o.account = t.account /\ o.other = t.other /\ o.id \notin used
    /\ o.day # 0 /\ t.day - o.day \in 0..RefundWindow)

Refunded(b, found, p) ==
  LET used == {found[n].original : n \in DOMAIN found} \cup {found[n].refund : n \in DOMAIN found}
      olds == Originals(b, b[p], used)
  IN IF b[p].pending \/ ~MayRefund(b[p]) \/ b[p].id \in used \/ olds = {} THEN found
     ELSE Append(found, [original |-> b[Min(olds)].id, refund |-> b[p].id])

DetectRefunds(b) ==
  LET upTo[p \in 0..Len(b)] == IF p = 0 THEN <<>> ELSE Refunded(b, upTo[p - 1], p)
  IN upTo[Len(b)]

-----------------------------------------------------------------------------
(* What a booking is marked with                                            *)

\* Of two chains with one id the later wins.
ChainsOf(t) == {n \in DOMAIN chains : t.id \in Range(chains[n].ids)}
InChain(t) == ChainsOf(t) # {}
ChainOf(t) == chains[Max(ChainsOf(t))]

Role(t) ==
  IF ~InChain(t) THEN "none"
  ELSE IF t.id = ChainOf(t).source THEN "source"
  ELSE IF t.id = ChainOf(t).destination THEN "destination" ELSE "intermediate"

Rejected(verdicts, number) == number \in DOMAIN verdicts /\ ~verdicts[number]
InRejected(t) == InChain(t) /\ Rejected(overrides, ChainOf(t).number)

\* Slip for the mutation runs: a rejected chain is left out with the others.
EffectiveByRole ==
  {p \in DOMAIN book : Role(book[p]) \notin {"intermediate", "destination"}}

\* The places in the book of what the monthly figures take.
Effective ==
  {p \in DOMAIN book :
     InRejected(book[p]) \/ Role(book[p]) \notin {"intermediate", "destination"}}

\* What the household figures count: of a cascade its source, of a move between
\* two own accounts nothing, and with a PayPal account linked not its funding.
IsCascade(c) == \E p \in DOMAIN book :
  LET t == book[p] IN ~t.pending /\ Role(t) = "intermediate" /\ ChainOf(t) = c

Counts(t) ==
  /\ ~t.pending /\ t.day # 0
  /\ IF InChain(t) /\ ~InRejected(t)
     THEN Role(t) = "source" /\ IsCascade(ChainOf(t))
     ELSE t.category # "transfers"
  /\ ~(t.amount < 0 /\ t.account \notin PayPalAccounts /\ t.party \cap PayPalAccounts # {})

CountedTransactions == {p \in DOMAIN book : Counts(book[p])}

-----------------------------------------------------------------------------
TransfersInit ==
  /\ book = <<>> /\ chains = <<>> /\ refunds = <<>>
  /\ overrides = <<>>

DeriveFrom(b) ==
  /\ book' = b
  /\ chains' = DetectChains(b, Max({0} \cup DOMAIN overrides))
  /\ refunds' = DetectRefunds(b)
  /\ UNCHANGED overrides

IdsOf(lines) == {t.id : t \in lines}

\* The id a bank gives its booking t: none, a fresh one, or one that bookings of
\* other accounts have.
IdsFor(t) ==
  IF t.id = 0 THEN {0}
  ELSE {Len(book) + 1}
       \cup (IdsOf(Range(book)) \ ({0} \cup IdsOf({u \in Range(book) : u.account = t.account})))

Shared ==
  {p \in DOMAIN book : book[p].id # 0 /\ \E q \in 1..(p - 1) : book[q].id = book[p].id}

\* A round brings a booking of the last day or a later one; within a day the list
\* may have any order.
Arrive(t, id) ==
  /\ Len(book) < MaxBook
  /\ id \in IdsFor(t) /\ (id \in IdsOf(Range(book)) \ {0} => Cardinality(Shared) < MaxShared)
  /\ \A p \in DOMAIN book : t.day >= book[p].day
  /\ DeriveFrom(<<[t EXCEPT !.id = id]>> \o book)

\* A round without news, an answer of the user, a restart: the stored verdicts are
\* loaded, the ids are new.
Rederive == DeriveFrom(book)

\* async_confirm_transfer_chain.
Confirm(number, confirmed) ==
  /\ number \in DOMAIN overrides \/ Cardinality(DOMAIN overrides) < MaxVerdicts
  /\ overrides' = [k \in DOMAIN overrides \cup {number} |->
                     IF k = number THEN confirmed ELSE overrides[k]]
  /\ UNCHANGED <<book, chains, refunds>>

TransfersNext ==
  \/ \E t \in Bookable, id \in 0..MaxBook : Arrive(t, id)
  \/ Rederive
  \/ \E n \in DOMAIN chains, confirmed \in BOOLEAN : Confirm(chains[n].number, confirmed)

TransfersSpec == TransfersInit /\ [][TransfersNext]_transferVars

-----------------------------------------------------------------------------
(* Properties *)

\* What is booked is told apart by its ids, over all accounts and with at most one
\* booking without.  The detection takes it for granted; the banks do not ensure it.
UniqueIds(b) ==
  \A p, q \in DOMAIN b : ~b[p].pending /\ ~b[q].pending /\ b[p].id = b[q].id => p = q

IsCascadeIn(b, c) ==
  LET legs == c.ids
      Leg(k) == Lookup(b, legs[k])
  IN /\ Len(legs) % 2 = 0 /\ IsInjective(legs)
     /\ \A k \in DOMAIN legs : (Leg(k).amount < 0) <=> (k % 2 = 1)
     /\ \A k \in 1..(Len(legs) - 1) :
          /\ Distance(Leg(k).day, Leg(k + 1).day) <= TimeWindow
          /\ (k % 2 = 0) <=> (Leg(k).account = Leg(k + 1).account)
          /\ Distance(Leg(k).amount, -Leg(k + 1).amount) <= 2 * AmountTolerance
     /\ c.source = legs[1] /\ c.destination = Last(legs)

AreCascades(b, cs) ==
  /\ \A n \in DOMAIN cs : IsCascadeIn(b, cs[n])
  /\ \A m, n \in DOMAIN cs : m # n => Range(cs[m].ids) \cap Range(cs[n].ids) = {}

\* A chain is the way of one amount: a booking out, one into another account, one
\* out of that account, and so on, each near the one before in day and amount; and
\* no booking is a leg of two chains.  Pairs are taken greedily and strung together
\* from both ends (transfer_detector.py, phases A and B).  It takes ids that tell
\* the bookings apart: with one id for two, a leg is looked up in the wrong account.
ChainsAreCascades == UniqueIds(book) => AreCascades(book, chains)

IsRefundOf(t, o) ==
  /\ ~o.pending /\ ~t.pending
  /\ o.amount < 0 /\ t.amount > 0 /\ Distance(-o.amount, t.amount) <= 1
  /\ o.account = t.account /\ o.other = t.other
  /\ t.day - o.day \in 0..RefundWindow

RefundsApart(b, found) ==
  /\ \A n \in DOMAIN found : \E o, p \in DOMAIN b :
       /\ found[n].original = b[o].id /\ found[n].refund = b[p].id
       /\ IsRefundOf(b[p], b[o])
  /\ \A m, n \in DOMAIN found : m # n =>
       {found[m].original, found[m].refund} \cap {found[n].original, found[n].refund} = {}

\* A refund pair is a payment and a later income of one account and one party, up to
\* a cent alike and within the window; and no id is in two pairs, so that no payment
\* is refunded twice (transfer_detector.py, phase C).  Whatever ids the banks give.
RefundsAreDisjoint == RefundsApart(book, refunds)

\* The household figures count nothing that the monthly figures leave out: both drop
\* what a chain passes through, and neither what the user took out of one
\* (household_summary.counted_transactions, "same rule as get_effective_transactions").
CountedIsEffective == CountedTransactions \subseteq Effective
=============================================================================
