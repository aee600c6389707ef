---------------------------- MODULE Accounts_proofs ----------------------------
(***************************************************************************)
(* One record per account, the owners the user gave, the newest uid, and    *)
(* the balance entities of accounts with IBAN, for any banks, accounts,     *)
(* owners and managers, and any number of sessions and of writes.           *)
(*                                                                         *)
(* As long as nobody goes on with a list that is no longer the newest, the  *)
(* entry has one record per account with the owner and uid that are due     *)
(* (EntryKept, LinkKept), and what is on disk lacks only records nobody has *)
(* assigned (DiskKept); only the live manager runs something (Alone), what  *)
(* it holds is as good as the entry (LiveKept), and what its round or its   *)
(* service will write is, too (RoundKept, ServiceKept).                     *)
(***************************************************************************)
EXTENDS Accounts, WellFoundedInduction, TLAPS

USE DEF entryVars, setupVars, ghosts

-----------------------------------------------------------------------------
(* Induction over the natural numbers, for sets of numbers *)

LT == {pair \in Nat \X Nat : pair[1] < pair[2]}

LEMMA Smallest ==
  ASSUME NEW T \in SUBSET Nat, T # {}
  PROVE  \E n \in T : \A m \in T : n <= m
<1>1. IsWellFoundedOn(LT, Nat)
  BY NatLessThanWellFounded DEF OpToRel, LT
<1>2. PICK x \in T : \A y \in T : ~(<<y, x>> \in LT)
  BY <1>1, WFMin
<1>3. \A y \in T : ~(y < x)
  BY <1>2 DEF LT
<1> QED
  BY <1>3

LEMMA SetInduction ==
  ASSUME NEW G, 0 \in G, \A k \in Nat : k \in G => k + 1 \in G
  PROVE  \A n \in Nat : n \in G
<1> SUFFICES ASSUME Nat \ G # {} PROVE FALSE
  OBVIOUS
<1>1. PICK n \in Nat \ G : \A m \in Nat \ G : n <= m
  BY Smallest
<1>2. n # 0 /\ n - 1 \in Nat /\ ~(n <= n - 1)
  BY <1>1
<1>3. n - 1 \in G
  BY <1>1, <1>2
<1> QED
  BY <1>1, <1>2, <1>3

\* A set of places in a list has a last one.
LEMMA Last ==
  ASSUME NEW n \in Nat, NEW P \in SUBSET (1 .. n), P # {}
  PROVE  \E i \in P : \A j \in P : j <= i
<1> DEFINE back == {b \in Nat : \E i \in P : b = n - i}
<1>1. \A i \in P : i \in Int /\ n - i \in back
  OBVIOUS
<1>2. PICK b \in back : \A c \in back : b <= c
  BY <1>1, Smallest
<1>3. PICK i \in P : b = n - i
  BY <1>2
<1>4. \A j \in P : n - i <= n - j
  BY <1>1, <1>2, <1>3
<1> QED
  BY <1>1, <1>4

-----------------------------------------------------------------------------
(* What Only keeps of a list *)

\* sub is list up to place k without what is not in S, in the same order.
Sifted(sub, list, k, S) ==
  /\ \A i \in 1 .. Len(sub) : sub[i] \in S
  /\ \A p \in 1 .. k : list[p] \in S => \E i \in 1 .. Len(sub) : sub[i] = list[p]
  /\ \E at \in [1 .. Len(sub) -> 1 .. k] :
       /\ \A i \in 1 .. Len(sub) : sub[i] = list[at[i]]
       /\ \A i, j \in 1 .. Len(sub) : i # j => at[i] # at[j]

LEMMA OnlySifts ==
  ASSUME NEW T, NEW list \in Seq(T), NEW S
  PROVE  Only(list, S) \in Seq(T) /\ Sifted(Only(list, S), list, Len(list), S)
<1> DEFINE body(f, i) == IF i = 0 THEN <<>>
                         ELSE IF list[i] \in S THEN Append(f[i - 1], list[i]) ELSE f[i - 1]
           Graph(f, k) == f = [i \in 0 .. k |-> body(f, i)]
           upTo == CHOOSE f : Graph(f, Len(list))
<1>1. Len(list) \in Nat
  OBVIOUS
<1>2. Only(list, S) = upTo[Len(list)]
  BY DEF Only
<1>3. \A f, g, i : i # 0 /\ f[i - 1] = g[i - 1] => body(f, i) = body(g, i)
  OBVIOUS
<1>4. \A f, g : body(f, 0) = body(g, 0)
  OBVIOUS
<1>5. \A f : body(f, 0) = <<>>
  OBVIOUS
<1>6. \A f : \A k \in Nat : body(f, k + 1) = IF list[k + 1] \in S THEN Append(f[k], list[k + 1]) ELSE f[k]
  <2> SUFFICES ASSUME NEW f, NEW k \in Nat
               PROVE  body(f, k + 1) = IF list[k + 1] \in S THEN Append(f[k], list[k + 1]) ELSE f[k]
    OBVIOUS
  <2>1. k + 1 # 0 /\ (k + 1) - 1 = k
    OBVIOUS
  <2> QED
    BY <2>1
<1> HIDE DEF body, upTo
<1> DEFINE Made == {k \in Nat : \E f : Graph(f, k)}
<1>7. \A k \in Nat : k \in Made
  <2>1. 0 \in Made
    <3> DEFINE g == [i \in 0 .. 0 |-> <<>>]
    <3>1. \A i \in 0 .. 0 : body(g, i) = <<>>
      BY <1>5
    <3>2. Graph(g, 0)
      BY <3>1
    <3> QED
      BY <3>2
  <2>2. ASSUME NEW k \in Nat, k \in Made PROVE k + 1 \in Made
    <3>1. PICK f : Graph(f, k)
      BY <2>2
    <3> DEFINE g == [i \in 0 .. k + 1 |-> IF i = k + 1 THEN body(f, i) ELSE f[i]]
    <3>2. ASSUME NEW i \in 0 .. k + 1 PROVE g[i] = body(g, i)
      <4>1. CASE i = k + 1
        <5>1. g[i] = body(f, i) /\ g[i - 1] = f[i - 1] /\ i # 0
          BY <4>1
        <5> HIDE DEF g
        <5> QED
          BY <1>3, <5>1
      <4>2. CASE i # k + 1
        <5>1. i \in 0 .. k /\ g[i] = f[i]
          BY <4>2
        <5>2. f[i] = body(f, i)
          BY <3>1, <5>1
        <5>3. i # 0 => g[i - 1] = f[i - 1]
          BY <5>1
        <5> HIDE DEF g
        <5> QED
          BY <1>3, <1>4, <5>1, <5>2, <5>3
      <4> QED
        BY <4>1, <4>2
    <3>3. g = [i \in 0 .. k + 1 |-> g[i]]
      OBVIOUS
    <3> HIDE DEF g
    <3>4. Graph(g, k + 1)
      BY <3>2, <3>3
    <3> QED
      BY <3>4
  <2> HIDE DEF Made
  <2> QED
    BY <2>1, <2>2, SetInduction
<1>8. Graph(upTo, Len(list))
  BY <1>1, <1>7 DEF upTo
<1>9. \A i \in 0 .. Len(list) : upTo[i] = body(upTo, i)
  BY <1>8
<1>10. /\ upTo[0] = <<>>
       /\ \A k \in Nat : k + 1 <= Len(list) =>
            upTo[k + 1] = IF list[k + 1] \in S THEN Append(upTo[k], list[k + 1]) ELSE upTo[k]
  BY <1>1, <1>5, <1>6, <1>9
<1> DEFINE Good == {k \in Nat : k <= Len(list) => upTo[k] \in Seq(T) /\ Sifted(upTo[k], list, k, S)}
<1>11. 0 \in Good
  <2>1. Sifted(<<>>, list, 0, S)
    <3>1. <<>> \in [1 .. Len(<<>>) -> 1 .. 0]
      OBVIOUS
    <3>2. Len(<<>>) = 0 /\ 1 .. 0 = {}
      OBVIOUS
    <3> QED
      BY <3>1, <3>2 DEF Sifted
  <2>2. <<>> \in Seq(T)
    OBVIOUS
  <2> QED
    BY <1>10, <2>1, <2>2
<1>12. ASSUME NEW k \in Nat, k \in Good PROVE k + 1 \in Good
  <2> SUFFICES ASSUME k + 1 <= Len(list)
               PROVE  upTo[k + 1] \in Seq(T) /\ Sifted(upTo[k + 1], list, k + 1, S)
    OBVIOUS
  <2>1. upTo[k] \in Seq(T) /\ Sifted(upTo[k], list, k, S)
    BY <1>1, <1>12
  <2>2. PICK at \in [1 .. Len(upTo[k]) -> 1 .. k] :
          /\ \A i \in 1 .. Len(upTo[k]) : upTo[k][i] = list[at[i]]
          /\ \A i, j \in 1 .. Len(upTo[k]) : i # j => at[i] # at[j]
    BY <2>1 DEF Sifted
  <2>3. CASE list[k + 1] \in S
    <3> DEFINE sub == Append(upTo[k], list[k + 1])
               n == Len(upTo[k])
               to == [i \in 1 .. n + 1 |-> IF i = n + 1 THEN k + 1 ELSE at[i]]
    <3>1. upTo[k + 1] = sub /\ list[k + 1] \in T
      <4>1. upTo[k + 1] = sub
        BY <1>10, <2>3
      <4>2. k + 1 \in 1 .. Len(list)
        BY <1>1
      <4> QED
        BY <4>1, <4>2
    <3>2. /\ n \in Nat /\ sub \in Seq(T) /\ Len(sub) = n + 1
          /\ \A i \in 1 .. n : sub[i] = upTo[k][i]
          /\ sub[n + 1] = list[k + 1]
      BY <2>1, <3>1
    <3> HIDE DEF sub, n
    <3>3. to \in [1 .. Len(sub) -> 1 .. k + 1]
      BY <2>2, <3>2 DEF n
    <3>4. \A i \in 1 .. Len(sub) : sub[i] = list[to[i]]
      BY <2>2, <3>2 DEF n
    <3>5. \A i, j \in 1 .. Len(sub) : i # j => to[i] # to[j]
      <4> SUFFICES ASSUME NEW i \in 1 .. n + 1, NEW j \in 1 .. n + 1, i # j PROVE to[i] # to[j]
        BY <3>2
      <4>1. \A x \in 1 .. n : at[x] \in 1 .. k
        BY <2>2 DEF n
      <4> QED
        BY <2>2, <3>2, <4>1 DEF n
    <3> HIDE DEF to
    <3>6. \A i \in 1 .. Len(sub) : sub[i] \in S
      BY <2>1, <2>3, <3>2 DEF Sifted, n
    <3>7. ASSUME NEW p \in 1 .. k + 1, list[p] \in S PROVE \E i \in 1 .. Len(sub) : sub[i] = list[p]
      <4>1. CASE p = k + 1
        BY <3>2, <4>1
      <4>2. CASE p # k + 1
        <5>1. PICK i \in 1 .. n : upTo[k][i] = list[p]
          BY <2>1, <3>7, <4>2 DEF Sifted, n
        <5> QED
          BY <3>2, <5>1
      <4> QED
        BY <4>1, <4>2
    <3> QED
      BY <3>1, <3>2, <3>3, <3>4, <3>5, <3>6, <3>7 DEF Sifted
  <2>4. CASE list[k + 1] \notin S
    <3>1. upTo[k + 1] = upTo[k]
      BY <1>1, <1>10, <2>4
    <3>2. at \in [1 .. Len(upTo[k]) -> 1 .. k + 1]
      BY <2>2
    <3>3. \A p \in 1 .. k + 1 : list[p] \in S => \E i \in 1 .. Len(upTo[k]) : upTo[k][i] = list[p]
      BY <2>1, <2>4 DEF Sifted
    <3> QED
      BY <2>1, <2>2, <3>1, <3>2, <3>3 DEF Sifted
  <2> QED
    BY <2>3, <2>4
<1> HIDE DEF Good
<1>13. Len(list) \in Good
  BY <1>1, <1>11, <1>12, SetInduction
<1> QED
  BY <1>1, <1>2, <1>13 DEF Good

-----------------------------------------------------------------------------
(* Every variable keeps its kind *)

LEMMA GoneTyped == Gone \in ManagerStates
<1>1. NoRound \in Rounds
  BY DEF NoRound, Rounds
<1>2. NoService \in Services
  BY AccountsAssumption DEF NoService, Services
<1> QED
  BY <1>1, <1>2 DEF Gone, ManagerStates

\* A list of records: its places, and the fields of what is there.
LEMMA ListTyped ==
  ASSUME NEW list \in Seq(Record)
  PROVE  /\ Len(list) \in Nat /\ DOMAIN list = 1 .. Len(list)
         /\ \A i \in DOMAIN list : list[i] \in Record
         /\ Elements(list) \subseteq Record
  BY DEF Elements

LEMMA RecordTyped ==
  ASSUME NEW r \in Record
  PROVE  /\ r.acct \in Accounts /\ r.data \in {"link", "bare", "details"}
         /\ r.uid \in 1 .. MaxSession /\ r.owner \in Owners \cup {Nobody} /\ r.obj \in 0 .. MaxObject
         /\ \A obj \in 0 .. MaxObject : [r EXCEPT !.obj = obj] \in Record
         /\ \A obj \in 0 .. MaxObject : [r EXCEPT !.data = "details", !.obj = obj] \in Record
         /\ Key(r) \in Accounts \X {"own", "details"} /\ Key(r)[1] = r.acct
  BY DEF Record, Key

LEMMA AppendTyped ==
  ASSUME NEW list \in Seq(Record), NEW r \in Record
  PROVE  /\ Append(list, r) \in Seq(Record) /\ Len(Append(list, r)) = Len(list) + 1
         /\ \A i \in 1 .. Len(list) : Append(list, r)[i] = list[i]
         /\ Append(list, r)[Len(list) + 1] = r
         /\ Elements(Append(list, r)) = Elements(list) \cup {r}
<1>1. /\ Append(list, r) \in Seq(Record) /\ Len(Append(list, r)) = Len(list) + 1
      /\ \A i \in 1 .. Len(list) : Append(list, r)[i] = list[i]
      /\ Append(list, r)[Len(list) + 1] = r
  OBVIOUS
<1> DEFINE longer == Append(list, r)
<1>2. Len(list) \in Nat /\ DOMAIN list = 1 .. Len(list) /\ DOMAIN longer = 1 .. Len(list) + 1
  BY <1>1
<1> HIDE DEF longer
<1>3. Elements(longer) = Elements(list) \cup {r}
  <2>1. ASSUME NEW x \in Elements(longer) PROVE x \in Elements(list) \cup {r}
    <3>1. PICK i \in 1 .. Len(list) + 1 : x = longer[i]
      BY <1>2 DEF Elements
    <3> QED
      BY <1>1, <1>2, <3>1 DEF Elements, longer
  <2>2. ASSUME NEW x \in Elements(list) PROVE x \in Elements(longer)
    <3>1. PICK i \in 1 .. Len(list) : x = list[i]
      BY <1>2 DEF Elements
    <3>2. i \in 1 .. Len(list) + 1 /\ longer[i] = x
      BY <1>1, <1>2, <3>1 DEF longer
    <3> QED
      BY <1>2, <3>2 DEF Elements
  <2>3. r \in Elements(longer)
    <3>1. Len(list) + 1 \in 1 .. Len(list) + 1
      BY <1>2
    <3> QED
      BY <1>1, <1>2, <3>1 DEF Elements, longer
  <2> QED
    BY <2>1, <2>2, <2>3
<1> QED
  BY <1>1, <1>3 DEF longer

LEMMA CopiesTyped ==
  ASSUME NEW list \in Seq(Record), NEW obj \in 0 .. MaxObject
  PROVE  /\ Copies(list, obj) \in Seq(Record) /\ Len(Copies(list, obj)) = Len(list)
         /\ \A i \in DOMAIN list : /\ Copies(list, obj)[i].acct = list[i].acct
                                   /\ Copies(list, obj)[i].data = list[i].data
                                   /\ Copies(list, obj)[i].uid = list[i].uid
                                   /\ Copies(list, obj)[i].owner = list[i].owner
<1>1. \A i \in 1 .. Len(list) : [list[i] EXCEPT !.obj = obj] \in Record
  BY ListTyped, RecordTyped
<1>2. Copies(list, obj) = [i \in 1 .. Len(list) |-> [list[i] EXCEPT !.obj = obj]]
  BY DEF Copies
<1>3. Copies(list, obj) \in Seq(Record) /\ Len(Copies(list, obj)) = Len(list)
  BY <1>1, <1>2
<1>4. ASSUME NEW i \in DOMAIN list
      PROVE  /\ Copies(list, obj)[i].acct = list[i].acct
             /\ Copies(list, obj)[i].data = list[i].data
             /\ Copies(list, obj)[i].uid = list[i].uid
             /\ Copies(list, obj)[i].owner = list[i].owner
  <2>1. list[i] \in Record
    BY ListTyped
  <2>2. Copies(list, obj)[i] = [list[i] EXCEPT !.obj = obj]
    BY <1>2
  <2> QED
    BY <2>1, <2>2 DEF Record
<1> QED
  BY <1>3, <1>4

\* What the last of some records of a list is.
LEMMA LastHit ==
  ASSUME NEW list \in Seq(Record), NEW hits \in SUBSET DOMAIN list, hits # {}
  PROVE  (CHOOSE i \in hits : \A j \in hits : j <= i) \in hits
<1>1. \E i \in hits : \A j \in hits : j <= i
  BY ListTyped, Last
<1> QED
  BY <1>1

\* The record of a bank's account is one of the list, or a new minimal one where
\* the list has neither its uid nor its key.
LEMMA ForRefPicks ==
  ASSUME NEW list \in Seq(Record), NEW a, NEW obj
  PROVE  \/ /\ ForRef(list, a, obj) \in Elements(list)
            /\ \/ ForRef(list, a, obj).acct = a /\ ForRef(list, a, obj).uid = refs[a]
               \/ /\ Key(ForRef(list, a, obj)) = <<a, "own">>
                  /\ \A r \in Elements(list) : ~(r.acct = a /\ r.uid = refs[a])
         \/ /\ ForRef(list, a, obj) = Bare(a, obj)
            /\ \A r \in Elements(list) : /\ ~(r.acct = a /\ r.uid = refs[a])
                                         /\ Key(r) # <<a, "own">>
<1> DEFINE hits == {i \in DOMAIN list : list[i].acct = a /\ list[i].uid = refs[a]}
           owns == {i \in DOMAIN list : Key(list[i]) = <<a, "own">>}
           same == IF hits = {} THEN {} ELSE {list[CHOOSE i \in hits : \A j \in hits : j <= i]}
           known == IF owns = {} THEN {} ELSE {list[CHOOSE i \in owns : \A j \in owns : j <= i]}
<1>1. ForRef(list, a, obj) =
        CHOOSE r \in (IF same # {} THEN same ELSE IF known # {} THEN known ELSE {Bare(a, obj)}) : TRUE
  BY DEF ForRef, LastWith
<1>2. CASE hits # {}
  <2>1. (CHOOSE i \in hits : \A j \in hits : j <= i) \in hits
    BY <1>2, LastHit
  <2>2. \E i \in hits : ForRef(list, a, obj) = list[i]
    BY <1>1, <1>2, <2>1
  <2> QED
    BY <2>2 DEF Elements
<1>3. CASE hits = {} /\ owns # {}
  <2>1. (CHOOSE i \in owns : \A j \in owns : j <= i) \in owns
    BY <1>3, LastHit
  <2>2. \E i \in owns : ForRef(list, a, obj) = list[i]
    BY <1>1, <1>3, <2>1
  <2> QED
    BY <1>3, <2>2 DEF Elements
<1>4. CASE hits = {} /\ owns = {}
  <2>1. ForRef(list, a, obj) = Bare(a, obj)
    BY <1>1, <1>4
  <2> QED
    BY <1>4, <2>1 DEF Elements
<1> QED
  BY <1>2, <1>3, <1>4

LEMMA BareTyped ==
  ASSUME NEW a \in Referenced, NEW obj \in 0 .. MaxObject, TypeOK
  PROVE  /\ Bare(a, obj) \in Record
         /\ Bare(a, obj).acct = a /\ Bare(a, obj).uid = refs[a] /\ Bare(a, obj).owner = Nobody
         /\ Bare(a, obj).data = "bare" /\ Bare(a, obj).obj = obj
<1>1. a \in Accounts /\ refs[a] \in 1 .. MaxSession
  BY AccountsAssumption DEF Referenced, TypeOK
<1> QED
  BY <1>1 DEF Bare, Record

\* What a setup adopts: a minimal record for each account that a bank subentry
\* lists and whose key is not there, each once.
LEMMA AdoptedFacts ==
  ASSUME TypeOK, NEW list \in Seq(Record), NEW obj, NEW new, new = Adopted(list, obj),
         new # <<>> => obj \in 0 .. MaxObject
  PROVE  /\ new \in Seq(Record)
         /\ \A i \in DOMAIN new : /\ new[i].acct \in Referenced /\ new[i] = Bare(new[i].acct, obj)
                                  /\ \A r \in Elements(list) :
                                       /\ ~(r.acct = new[i].acct /\ r.uid = refs[new[i].acct])
                                       /\ Key(r) # <<new[i].acct, "own">>
         /\ \A i, j \in DOMAIN new : new[i].acct = new[j].acct => i = j
         /\ \A a \in Referenced :
              Key(ForRef(list, a, obj)) \in Keys(list)
                \/ \E i \in DOMAIN new : new[i] = ForRef(list, a, obj)
<1> DEFINE S == {a \in Referenced : Key(ForRef(list, a, obj)) \notin Keys(list)}
           missing == Only(AccountSeq, S)
<1>1. /\ missing \in Seq(Accounts) /\ Sifted(missing, AccountSeq, Len(AccountSeq), S)
      /\ AccountSeq \in Seq(Accounts) /\ Len(AccountSeq) \in Nat
      /\ DOMAIN AccountSeq = 1 .. Len(AccountSeq)
  BY OnlySifts, AccountsAssumption
<1>2. new = [i \in DOMAIN missing |-> ForRef(list, missing[i], obj)]
  BY DEF Adopted
<1> DEFINE n == Len(missing)
<1> HIDE DEF missing
<1>3. n \in Nat /\ DOMAIN missing = 1 .. n /\ DOMAIN new = 1 .. n
  BY <1>1, <1>2
<1>4. \A i \in 1 .. n : missing[i] \in S
  BY <1>1, <1>3 DEF Sifted
<1>5. \A i \in 1 .. n : new[i] = ForRef(list, missing[i], obj)
  BY <1>2, <1>3
<1>6. ASSUME NEW i \in 1 .. n
      PROVE  /\ missing[i] \in Referenced /\ new[i] = Bare(missing[i], obj)
             /\ \A r \in Elements(list) : /\ ~(r.acct = missing[i] /\ r.uid = refs[missing[i]])
                                          /\ Key(r) # <<missing[i], "own">>
  <2>1. missing[i] \in Referenced /\ Key(ForRef(list, missing[i], obj)) \notin Keys(list)
    BY <1>4
  <2>2. ForRef(list, missing[i], obj) \notin Elements(list)
    BY <2>1 DEF Keys
  <2> QED
    BY <1>5, <2>1, <2>2, ForRefPicks
<1>7. n # 0 => obj \in 0 .. MaxObject
  BY <1>3
<1>8. \A i \in 1 .. n : Bare(missing[i], obj) \in Record /\ Bare(missing[i], obj).acct = missing[i]
  BY <1>3, <1>6, <1>7, BareTyped
<1>9. new \in Seq(Record)
  BY <1>2, <1>3, <1>5, <1>6, <1>8
<1>10. \A i, j \in 1 .. n : missing[i] = missing[j] => i = j
  <2>1. PICK at \in [1 .. n -> 1 .. Len(AccountSeq)] :
          /\ \A i \in 1 .. n : missing[i] = AccountSeq[at[i]]
          /\ \A i, j \in 1 .. n : i # j => at[i] # at[j]
    BY <1>1 DEF Sifted
  <2>2. \A i, j \in 1 .. Len(AccountSeq) : AccountSeq[i] = AccountSeq[j] => i = j
    BY <1>1, AccountsAssumption
  <2> QED
    BY <2>1, <2>2
<1>11. ASSUME NEW a \in Referenced, Key(ForRef(list, a, obj)) \notin Keys(list)
       PROVE  \E i \in 1 .. n : new[i] = ForRef(list, a, obj)
  <2>1. a \in S /\ a \in Accounts
    BY <1>11 DEF Referenced
  <2>2. PICK p \in 1 .. Len(AccountSeq) : a = AccountSeq[p]
    BY <1>1, <2>1 DEF Accounts
  <2>3. PICK i \in 1 .. n : missing[i] = a
    BY <1>1, <2>1, <2>2 DEF Sifted
  <2> QED
    BY <1>5, <2>3
<1> HIDE DEF n
<1> QED
  BY <1>3, <1>6, <1>8, <1>9, <1>10, <1>11
Has(list, a) == \E r \in Elements(list) : r.acct = a

LEMMA ConcatTyped ==
  ASSUME NEW s \in Seq(Record), NEW t \in Seq(Record)
  PROVE  /\ s \o t \in Seq(Record) /\ Elements(s \o t) = Elements(s) \cup Elements(t)
         /\ /\ Single(s) /\ Single(t)
            /\ \A i \in DOMAIN s, j \in DOMAIN t : s[i].acct # t[j].acct
            => Single(s \o t)
<1> DEFINE st == s \o t
<1>1. /\ st \in Seq(Record) /\ Len(s) \in Nat /\ Len(t) \in Nat
      /\ DOMAIN s = 1 .. Len(s) /\ DOMAIN t = 1 .. Len(t) /\ DOMAIN st = 1 .. (Len(s) + Len(t))
      /\ \A i \in 1 .. (Len(s) + Len(t)) : st[i] = IF i <= Len(s) THEN s[i] ELSE t[i - Len(s)]
  OBVIOUS
<1> HIDE DEF st
<1>2. Elements(st) = Elements(s) \cup Elements(t)
  <2>1. ASSUME NEW x \in Elements(st) PROVE x \in Elements(s) \cup Elements(t)
    <3>1. PICK i \in 1 .. (Len(s) + Len(t)) : x = st[i]
      BY <1>1 DEF Elements
    <3>2. CASE i <= Len(s)
      BY <1>1, <3>1, <3>2 DEF Elements
    <3>3. CASE i > Len(s)
      <4>1. i - Len(s) \in 1 .. Len(t) /\ x = t[i - Len(s)]
        BY <1>1, <3>1, <3>3
      <4> QED
        BY <1>1, <4>1 DEF Elements
    <3> QED
      BY <1>1, <3>2, <3>3
  <2>2. ASSUME NEW x \in Elements(s) PROVE x \in Elements(st)
    <3>1. PICK i \in 1 .. Len(s) : x = s[i]
      BY <1>1 DEF Elements
    <3>2. i \in 1 .. (Len(s) + Len(t)) /\ st[i] = x
      BY <1>1, <3>1
    <3> QED
      BY <1>1, <3>2 DEF Elements
  <2>3. ASSUME NEW x \in Elements(t) PROVE x \in Elements(st)
    <3>1. PICK i \in 1 .. Len(t) : x = t[i]
      BY <1>1 DEF Elements
    <3>2. /\ Len(s) + i \in 1 .. (Len(s) + Len(t)) /\ ~(Len(s) + i <= Len(s))
          /\ (Len(s) + i) - Len(s) = i
      BY <1>1, <3>1
    <3>3. st[Len(s) + i] = x
      BY <1>1, <3>1, <3>2
    <3> QED
      BY <1>1, <3>2, <3>3 DEF Elements
  <2> QED
    BY <2>1, <2>2, <2>3
<1>3. ASSUME Single(s), Single(t), \A i \in DOMAIN s, j \in DOMAIN t : s[i].acct # t[j].acct
      PROVE  Single(st)
  <2> SUFFICES ASSUME NEW i \in DOMAIN st, NEW j \in DOMAIN st, st[i].acct = st[j].acct PROVE i = j
    BY DEF Single
  <2>1. CASE i <= Len(s) /\ j <= Len(s)
    BY <1>1, <1>3, <2>1 DEF Single
  <2>2. CASE i > Len(s) /\ j > Len(s)
    <3>1. /\ i - Len(s) \in 1 .. Len(t) /\ j - Len(s) \in 1 .. Len(t)
          /\ st[i] = t[i - Len(s)] /\ st[j] = t[j - Len(s)]
      BY <1>1, <2>2
    <3>2. i - Len(s) = j - Len(s)
      BY <1>1, <1>3, <3>1 DEF Single
    <3> QED
      BY <1>1, <3>2
  <2>3. CASE i <= Len(s) /\ j > Len(s)
    <3>1. i \in DOMAIN s /\ j - Len(s) \in DOMAIN t /\ st[i] = s[i] /\ st[j] = t[j - Len(s)]
      BY <1>1, <2>3
    <3> QED
      BY <1>3, <3>1
  <2>4. CASE i > Len(s) /\ j <= Len(s)
    <3>1. j \in DOMAIN s /\ i - Len(s) \in DOMAIN t /\ st[j] = s[j] /\ st[i] = t[i - Len(s)]
      BY <1>1, <2>4
    <3> QED
      BY <1>3, <3>1
  <2> QED
    BY <1>1, <2>1, <2>2, <2>3, <2>4
<1> QED
  BY <1>1, <1>2, <1>3 DEF st

\* No account of this bank is reported.
OtherBank(a, reported) == BankOf[a] \notin {BankOf[b] : b \in reported}

\* What a link makes of a list: records of other banks as they were, one new
\* record for each account the bank reports, which takes over a recognised owner.
Merged(new, list, reported, uid) ==
  /\ \A r \in Elements(new) :
       \/ /\ OtherBank(r.acct, reported)
          /\ \E q \in Elements(list) : /\ r.acct = q.acct /\ r.data = q.data
                                       /\ r.uid = q.uid /\ r.owner = q.owner
       \/ /\ r.acct \in reported /\ r.data = "link" /\ r.uid = uid
          /\ \/ /\ \A q \in Elements(list) : q.acct = r.acct => ~Recognised(q)
                /\ r.owner = Nobody
             \/ \E q \in Elements(list) : /\ q.acct = r.acct /\ Recognised(q)
                                          /\ r.owner = q.owner
  /\ \A a \in reported : Has(new, a)
  /\ \A r \in Elements(list) : OtherBank(r.acct, reported) => Has(new, r.acct)
  /\ Single(list) => Single(new)

LEMMA DedupedFacts ==
  ASSUME NEW list \in Seq(Record), NEW reported \in SUBSET Accounts,
         NEW uid \in 1 .. MaxSession, NEW obj \in 0 .. MaxObject
  PROVE  /\ Deduped(list, reported, uid, obj) \in Seq(Record)
         /\ Merged(Deduped(list, reported, uid, obj), list, reported, uid)
<1> DEFINE Other(a) == OtherBank(a, reported)
           previous(a) == LastWith(list, LAMBDA r : r.acct = a /\ Recognised(r))
           owner(a) == IF previous(a) = {} THEN Nobody ELSE (CHOOSE r \in previous(a) : TRUE).owner
           fresh(a) == [acct |-> a, data |-> "link", uid |-> uid, obj |-> obj, owner |-> owner(a)]
           others == Only(list, {r \in Elements(list) : Other(r.acct)})
           kept == Copies(others, obj)
           linked == Only(AccountSeq, reported)
           added == [i \in DOMAIN linked |-> fresh(linked[i])]
<1>1. Deduped(list, reported, uid, obj) = kept \o added
  BY DEF Deduped, OtherBank
<1>2. /\ others \in Seq(Record)
      /\ Sifted(others, list, Len(list), {r \in Elements(list) : Other(r.acct)})
      /\ linked \in Seq(Accounts) /\ Sifted(linked, AccountSeq, Len(AccountSeq), reported)
  BY OnlySifts, AccountsAssumption
<1>3. /\ kept \in Seq(Record) /\ Len(kept) = Len(others)
      /\ \A i \in DOMAIN others : /\ kept[i].acct = others[i].acct /\ kept[i].data = others[i].data
                                  /\ kept[i].uid = others[i].uid /\ kept[i].owner = others[i].owner
  BY <1>2, CopiesTyped
<1>4. ASSUME NEW a
      PROVE  \/ /\ \A q \in Elements(list) : q.acct = a => ~Recognised(q)
                /\ owner(a) = Nobody
             \/ \E q \in Elements(list) : q.acct = a /\ Recognised(q) /\ owner(a) = q.owner
  <2> DEFINE hits == {i \in DOMAIN list : list[i].acct = a /\ Recognised(list[i])}
  <2>1. previous(a) = IF hits = {} THEN {} ELSE {list[CHOOSE i \in hits : \A j \in hits : j <= i]}
    BY DEF LastWith
  <2>2. CASE hits = {}
    BY <2>1, <2>2 DEF Elements
  <2>3. CASE hits # {}
    <3>1. (CHOOSE i \in hits : \A j \in hits : j <= i) \in hits
      BY <2>3, LastHit
    <3>2. PICK i \in hits : previous(a) = {list[i]}
      BY <2>1, <2>3, <3>1
    <3>3. owner(a) = list[i].owner
      BY <3>2
    <3> QED
      BY <3>2, <3>3 DEF Elements
  <2> QED
    BY <2>2, <2>3
<1>5. \A a : owner(a) \in Owners \cup {Nobody}
  <2> SUFFICES ASSUME NEW a PROVE owner(a) \in Owners \cup {Nobody}
    OBVIOUS
  <2> HIDE DEF owner
  <2>1. owner(a) = Nobody \/ \E q \in Elements(list) : owner(a) = q.owner
    BY <1>4
  <2>2. \A q \in Elements(list) : q.owner \in Owners \cup {Nobody}
    BY ListTyped, RecordTyped
  <2> QED
    BY <2>1, <2>2
<1> HIDE DEF owner, kept, others, linked
<1>6. /\ Len(others) \in Nat /\ DOMAIN others = 1 .. Len(others) /\ DOMAIN kept = 1 .. Len(others)
      /\ Len(linked) \in Nat /\ DOMAIN linked = 1 .. Len(linked)
      /\ DOMAIN list = 1 .. Len(list) /\ DOMAIN AccountSeq = 1 .. Len(AccountSeq)
      /\ Len(list) \in Nat
  BY <1>2, <1>3, AccountsAssumption
<1>7. \A i \in 1 .. Len(linked) : linked[i] \in reported /\ linked[i] \in Accounts
  BY <1>2, <1>6 DEF Sifted
<1>8. /\ added \in Seq(Record) /\ DOMAIN added = 1 .. Len(linked)
      /\ \A i \in 1 .. Len(linked) : added[i] = fresh(linked[i])
  <2>1. \A i \in 1 .. Len(linked) : fresh(linked[i]) \in Record
    BY <1>5, <1>7 DEF Record
  <2> HIDE DEF fresh
  <2> QED
    BY <1>6, <2>1
<1>9. \A i \in 1 .. Len(linked) :
        /\ added[i].acct = linked[i] /\ added[i].data = "link" /\ added[i].uid = uid
        /\ added[i].owner = owner(linked[i])
  BY <1>8
<1> HIDE DEF added, fresh
<1>10. \A i \in 1 .. Len(others) : others[i] \in Elements(list) /\ Other(others[i].acct)
  BY <1>2 DEF Sifted
<1>11. /\ kept \o added \in Seq(Record)
       /\ Elements(kept \o added) = Elements(kept) \cup Elements(added)
  BY <1>3, <1>8, ConcatTyped
<1>12. ASSUME NEW r \in Elements(kept)
       PROVE  /\ Other(r.acct)
              /\ \E q \in Elements(list) : /\ r.acct = q.acct /\ r.data = q.data
                                           /\ r.uid = q.uid /\ r.owner = q.owner
  <2>1. PICK i \in 1 .. Len(others) : r = kept[i]
    BY <1>6 DEF Elements
  <2> QED
    BY <1>3, <1>6, <1>10, <2>1
<1>13. ASSUME NEW r \in Elements(added)
       PROVE  /\ r.acct \in reported /\ r.data = "link" /\ r.uid = uid
              /\ \/ /\ \A q \in Elements(list) : q.acct = r.acct => ~Recognised(q)
                    /\ r.owner = Nobody
                 \/ \E q \in Elements(list) : /\ q.acct = r.acct /\ Recognised(q)
                                              /\ r.owner = q.owner
  <2>1. PICK i \in 1 .. Len(linked) : r = added[i]
    BY <1>8 DEF Elements
  <2> QED
    BY <1>4, <1>7, <1>9, <2>1
<1>14. \A a \in reported : Has(added, a)
  <2> SUFFICES ASSUME NEW a \in reported PROVE Has(added, a)
    OBVIOUS
  <2>1. PICK p \in 1 .. Len(AccountSeq) : a = AccountSeq[p]
    BY <1>6 DEF Accounts
  <2>2. PICK i \in 1 .. Len(linked) : linked[i] = a
    BY <1>2, <2>1 DEF Sifted
  <2> QED
    BY <1>8, <1>9, <2>2 DEF Has, Elements
<1>15. \A r \in Elements(list) : Other(r.acct) => Has(kept, r.acct)
  <2> SUFFICES ASSUME NEW r \in Elements(list), Other(r.acct) PROVE Has(kept, r.acct)
    OBVIOUS
  <2>1. PICK p \in 1 .. Len(list) : r = list[p]
    BY <1>6 DEF Elements
  <2>2. PICK i \in 1 .. Len(others) : others[i] = r
    BY <1>2, <2>1 DEF Sifted
  <2> QED
    BY <1>3, <1>6, <2>2 DEF Has, Elements
<1>16. ASSUME Single(list) PROVE Single(kept \o added)
  <2>1. Single(kept)
    <3>1. PICK at \in [1 .. Len(others) -> 1 .. Len(list)] :
            /\ \A i \in 1 .. Len(others) : others[i] = list[at[i]]
            /\ \A i, j \in 1 .. Len(others) : i # j => at[i] # at[j]
      BY <1>2 DEF Sifted
    <3>2. \A i, j \in 1 .. Len(others) : kept[i].acct = kept[j].acct => list[at[i]].acct = list[at[j]].acct
      BY <1>3, <1>6, <3>1
    <3> QED
      BY <1>6, <1>16, <3>1, <3>2 DEF Single
  <2>2. Single(added)
    <3>1. PICK at \in [1 .. Len(linked) -> 1 .. Len(AccountSeq)] :
            /\ \A i \in 1 .. Len(linked) : linked[i] = AccountSeq[at[i]]
            /\ \A i, j \in 1 .. Len(linked) : i # j => at[i] # at[j]
      BY <1>2 DEF Sifted
    <3>2. \A i, j \in 1 .. Len(AccountSeq) : AccountSeq[i] = AccountSeq[j] => i = j
      BY <1>6, AccountsAssumption
    <3>3. ASSUME NEW i \in 1 .. Len(linked), NEW j \in 1 .. Len(linked), linked[i] = linked[j]
          PROVE  i = j
      <4>1. at[i] \in 1 .. Len(AccountSeq) /\ at[j] \in 1 .. Len(AccountSeq)
        OBVIOUS
      <4>2. AccountSeq[at[i]] = AccountSeq[at[j]]
        BY <3>1, <3>3
      <4>3. at[i] = at[j]
        BY <3>2, <4>1, <4>2
      <4> QED
        BY <3>1, <4>3
    <3> QED
      BY <1>8, <1>9, <3>3 DEF Single
  <2>3. \A i \in DOMAIN kept, j \in DOMAIN added : kept[i].acct # added[j].acct
    BY <1>12, <1>13 DEF Elements, OtherBank
  <2> QED
    BY <1>3, <1>8, <2>1, <2>2, <2>3, ConcatTyped
<1> HIDE DEF Other
<1>17. \A r \in Elements(list) : Other(r.acct) => Has(kept \o added, r.acct)
  BY <1>11, <1>15 DEF Has
<1>18. \A a \in reported : Has(kept \o added, a)
  BY <1>11, <1>14 DEF Has
<1> QED
  BY <1>1, <1>11, <1>12, <1>13, <1>16, <1>17, <1>18 DEF Other, Merged

\* What a manager that is left or goes on becomes.
LEMMA SettleTyped ==
  ASSUME TypeOK, NEW m \in Managers, NEW fields \in ManagerStates, Settle(m, fields)
  PROVE  /\ mgr' \in [Managers -> ManagerStates]
         /\ \A n \in Managers : n # m => mgr'[n] = mgr[n]
         /\ mgr'[m] = IF fields.phase = "left" /\ ~fields.round.on /\ ~fields.svc.on
                      THEN Gone ELSE fields
<1>1. mgr' = [mgr EXCEPT ![m] = IF fields.phase = "left" /\ ~fields.round.on /\ ~fields.svc.on
                                THEN Gone ELSE fields]
  BY DEF Settle
<1> QED
  BY <1>1, GoneTyped DEF TypeOK

\* The fields of a manager, and what changing one makes of it.
LEMMA ManagerTyped ==
  ASSUME NEW s \in ManagerStates
  PROVE  /\ s.phase \in {"gone", "loading", "adopted", "reconciled", "ready", "left"}
         /\ s.list \in Seq(Record)
         /\ s.round.on \in BOOLEAN /\ s.round.todo \in SUBSET Accounts
         /\ s.round.mine \in SUBSET Record /\ s.round.enriched \in BOOLEAN
         /\ s.svc.on \in BOOLEAN /\ s.svc.src \in Seq(Record) /\ s.svc.tied \in BOOLEAN
         /\ s.svc.out \in Seq(Record) /\ s.svc.obj \in 0 .. MaxObject
         /\ s.round \in Rounds /\ s.svc \in Services
  BY DEF ManagerStates, Rounds, Services

\* A setup goes on to its next phase.
LEMMA PhaseTyped ==
  ASSUME NEW s \in ManagerStates,
         NEW phase \in {"gone", "loading", "adopted", "reconciled", "ready", "left"}
  PROVE  LET t == [s EXCEPT !.phase = phase]
         IN  /\ t \in ManagerStates /\ t.phase = phase /\ t.list = s.list
             /\ t.round = s.round /\ t.svc = s.svc
  BY DEF ManagerStates

\* What async_set_accounts leaves of a manager: the new list, no longer the service's.
Holding(fields, list) == [fields EXCEPT !.list = list, !.svc.tied = FALSE]

LEMMA HoldingTyped ==
  ASSUME NEW fields \in ManagerStates, NEW list \in Seq(Record)
  PROVE  LET t == Holding(fields, list)
         IN  /\ t \in ManagerStates /\ t.phase = fields.phase /\ t.list = list
             /\ t.round = fields.round /\ t.svc.on = fields.svc.on /\ ~t.svc.tied
             /\ t.svc.src = fields.svc.src /\ t.svc.out = fields.svc.out
  BY DEF Holding, ManagerStates, Services

LEMMA RoundMade ==
  ASSUME NEW round \in Rounds, NEW a
  PROVE  /\ [round EXCEPT !.todo = @ \ {a}] \in Rounds
         /\ [round EXCEPT !.todo = @ \ {a}, !.enriched = TRUE] \in Rounds
<1>1. round.todo \ {a} \in SUBSET Accounts
  BY DEF Rounds
<1> QED
  BY <1>1 DEF Rounds

\* The IBANs of copies are there for accounts of the list.
LEMMA IbansTyped ==
  ASSUME NEW list \in Seq(Record), NEW obj \in 0 .. MaxObject
  PROVE  IbansOfCopies(list, obj) \subseteq (Accounts \X (0 .. MaxObject))
<1>1. \A r \in Elements(list) : r.acct \in Accounts
  BY ListTyped, RecordTyped
<1> QED
  BY <1>1 DEF IbansOfCopies

LEMMA KeysTyped ==
  ASSUME NEW list \in Seq(Record)
  PROVE  Keys(list) \subseteq (Accounts \X {"own", "details"})
  BY ListTyped, RecordTyped DEF Keys

LEMMA StoredTyped ==
  ASSUME NEW list \in Seq(Record), NEW held, held \subseteq (Accounts \X (0 .. MaxObject))
  PROVE  /\ Stored(list, held) \in [list : Seq(Record), ibans : SUBSET (Accounts \X (0 .. MaxObject))]
         /\ Stored(list, held).list = list
  BY DEF Stored

LEMMA InitTyped == Init => TypeOK
<1> SUFFICES ASSUME Init PROVE TypeOK
  OBVIOUS
<1>1. Len(AccountSeq) \in Nat /\ DOMAIN AccountSeq = 1 .. Len(AccountSeq)
      /\ 1 \in 1 .. MaxSession /\ 1 \in 0 .. MaxSession /\ 0 \in 0 .. MaxObject /\ 0 \in 0 .. MaxSession
  BY AccountsAssumption
<1>2. entry \in Seq(Record)
  <2> DEFINE first == [i \in DOMAIN AccountSeq |->
                [acct |-> AccountSeq[i], data |-> "link", uid |-> 1, owner |-> Nobody, obj |-> 0]]
  <2>1. entry = <<>> \/ entry = first
    BY DEF Init
  <2>2. \A i \in 1 .. Len(AccountSeq) : AccountSeq[i] \in Accounts
    BY <1>1 DEF Accounts
  <2>3. \A i \in 1 .. Len(AccountSeq) :
          [acct |-> AccountSeq[i], data |-> "link", uid |-> 1, owner |-> Nobody, obj |-> 0] \in Record
    BY <1>1, <2>2 DEF Record
  <2>4. first = [i \in 1 .. Len(AccountSeq) |-> first[i]]
        /\ \A i \in 1 .. Len(AccountSeq) : first[i] \in Record
    BY <1>1, <2>3
  <2> HIDE DEF first
  <2>5. first \in Seq(Record)
    BY <1>1, <2>4
  <2>6. <<>> \in Seq(Record)
    OBVIOUS
  <2> QED
    BY <2>1, <2>5, <2>6
<1>3. \A r \in Elements(entry) : r.acct \in Accounts
  BY <1>2, ListTyped, RecordTyped
<1>4. mgr \in [Managers -> ManagerStates]
  BY GoneTyped DEF Init
<1>5. ibans \subseteq (Accounts \X (0 .. MaxObject))
  BY <1>1, <1>3 DEF Init
<1>6. /\ refs \in [Accounts -> 0 .. MaxSession] /\ assigned \in [Accounts -> Owners \cup {Nobody}]
      /\ link \in [on : BOOLEAN, accounts : SUBSET Accounts, uid : 0 .. MaxSession]
      /\ entities \subseteq (Accounts \X {"own", "details", "uid"})
  BY <1>1 DEF Init
<1>7. /\ alias = NoManager /\ live = NoManager /\ objects = 0 /\ reload = FALSE /\ crossed = FALSE
      /\ forgotten = {} /\ disk = Stored(entry, ibans)
  BY DEF Init
<1>8. disk \in [list : Seq(Record), ibans : SUBSET (Accounts \X (0 .. MaxObject))]
  BY <1>2, <1>5, <1>7, StoredTyped
<1> QED
  BY <1>1, <1>2, <1>4, <1>5, <1>6, <1>7, <1>8 DEF TypeOK

LEMMA NotifyTyped == TypeOK /\ Notify => reload' \in BOOLEAN
  BY DEF Notify, TypeOK

LEMMA NotifyFacts ==
  ASSUME Notify
  PROVE  /\ reload => reload'
         /\ reload' => reload \/ (live \in Managers /\ mgr[live].phase = "ready")
         /\ live \in Managers /\ mgr[live].phase = "ready" /\ signature.refs # refs' => reload'
<1>1. SignatureOf(refs', entry').refs = refs'
  BY DEF SignatureOf
<1> QED
  BY <1>1 DEF Notify

\* A list with the accounts, uids and owners of another.
Alike(s, t) ==
  DOMAIN s = DOMAIN t /\ \A i \in DOMAIN s : /\ s[i].acct = t[i].acct
                                             /\ s[i].uid = t[i].uid /\ s[i].owner = t[i].owner

LEMMA AlikeFacts ==
  ASSUME NEW s, NEW t, Alike(s, t)
  PROVE  /\ Single(s) => Single(t)
         /\ \A r \in Elements(t) : \E q \in Elements(s) :
              r.acct = q.acct /\ r.uid = q.uid /\ r.owner = q.owner
         /\ \A a : Has(s, a) <=> Has(t, a)
<1>1. Single(s) => Single(t)
  BY DEF Alike, Single
<1>2. ASSUME NEW r \in Elements(t)
      PROVE  \E q \in Elements(s) : r.acct = q.acct /\ r.uid = q.uid /\ r.owner = q.owner
  BY <1>2 DEF Alike, Elements
<1>3. ASSUME NEW a PROVE Has(s, a) <=> Has(t, a)
  BY DEF Alike, Elements, Has
<1> QED
  BY <1>1, <1>2, <1>3

\* async_set_accounts stores the list, or the entry has one like it and stays.
LEMMA SetFacts ==
  ASSUME TypeOK, NEW m \in Managers, NEW fields \in ManagerStates, NEW list \in Seq(Record),
         NEW more, SetAccounts(m, fields, list, more), ibans' \subseteq (Accounts \X (0 .. MaxObject))
  PROVE  /\ Settle(m, Holding(fields, list))
         /\ \/ entry' = entry /\ disk' = disk
            \/ entry' = list /\ disk'.list = list
         /\ Alike(list, entry') /\ (alias' = m => entry' = list)
         /\ entry' \in Seq(Record) /\ alias' \in Managers \cup {NoManager} /\ reload' \in BOOLEAN
         /\ disk' \in [list : Seq(Record), ibans : SUBSET (Accounts \X (0 .. MaxObject))]
         /\ reload => reload'
         /\ reload' => reload \/ (live \in Managers /\ mgr[live].phase = "ready")
<1>1. Settle(m, Holding(fields, list))
  BY DEF SetAccounts, Holding
<1>2. CASE ~more /\ SameData(list, entry, ibans')
  <2>1. /\ alias' = IF alias = m THEN NoManager ELSE alias
        /\ UNCHANGED <<entry, disk, reload>>
    BY <1>2 DEF SetAccounts
  <2>2. /\ DOMAIN list = DOMAIN entry
        /\ \A i \in DOMAIN list : [list[i] EXCEPT !.obj = 0] = [entry[i] EXCEPT !.obj = 0]
    BY <1>2 DEF SameData
  <2>3. \A i \in DOMAIN list : list[i] \in Record /\ entry[i] \in Record
    BY <2>2, ListTyped DEF TypeOK
  <2>4. ASSUME NEW r \in Record, NEW q \in Record, [r EXCEPT !.obj = 0] = [q EXCEPT !.obj = 0]
        PROVE  r.acct = q.acct /\ r.uid = q.uid /\ r.owner = q.owner
    <3>1. /\ [r EXCEPT !.obj = 0].acct = r.acct /\ [r EXCEPT !.obj = 0].uid = r.uid
          /\ [r EXCEPT !.obj = 0].owner = r.owner
          /\ [q EXCEPT !.obj = 0].acct = q.acct /\ [q EXCEPT !.obj = 0].uid = q.uid
          /\ [q EXCEPT !.obj = 0].owner = q.owner
      BY DEF Record
    <3> QED
      BY <2>4, <3>1
  <2>5. Alike(list, entry)
    BY <2>2, <2>3, <2>4 DEF Alike
  <2>6. NoManager \notin Managers
    BY AccountsAssumption
  <2> QED
    BY <1>1, <2>1, <2>5, <2>6 DEF TypeOK
<1>3. CASE ~(~more /\ SameData(list, entry, ibans'))
  <2>1. /\ entry' = list /\ disk' = Stored(list, ibans') /\ alias' = m /\ Notify
    BY <1>3 DEF SetAccounts
  <2>2. Alike(list, entry')
    BY <2>1 DEF Alike
  <2> QED
    BY <1>1, <2>1, <2>2, StoredTyped, NotifyTyped, NotifyFacts
<1> QED
  BY <1>2, <1>3

\* The phases of a setup.
LEMMA SetupTyped ==
  ASSUME TypeOK, NEW m \in Managers
  PROVE  Adopt(m) \/ Reconcile(m) \/ FinishSetup(m) => TypeOK'
<1> USE DEF TypeOK
<1>0. mgr[m] \in ManagerStates /\ mgr[m].list \in Seq(Record)
  BY ManagerTyped
<1>1. ASSUME Adopt(m) PROVE TypeOK'
  <2> DEFINE new == Adopted(mgr[m].list, objects + 1)
             fields == [mgr[m] EXCEPT !.phase = "adopted"]
  <2>1. /\ UNCHANGED <<refs, ibans, live, signature, link, entities, assigned, forgotten, crossed>>
        /\ IF new = <<>>
           THEN Settle(m, fields) /\ UNCHANGED <<entry, disk, alias, objects, reload>>
           ELSE /\ objects < MaxObject /\ objects' = objects + 1
                /\ SetAccounts(m, fields, mgr[m].list \o new, FALSE)
    BY <1>1 DEF Adopt
  <2>2. fields \in ManagerStates
    BY <1>0, PhaseTyped
  <2>3. new # <<>> => objects + 1 \in 0 .. MaxObject
    <3> HIDE DEF new, fields
    <3> QED
      BY <2>1, AccountsAssumption
  <2>4. new \in Seq(Record)
    BY <1>0, <2>3, AdoptedFacts
  <2> HIDE DEF new, fields
  <2>5. CASE new = <<>>
    BY <2>1, <2>2, <2>5, SettleTyped
  <2>6. CASE new # <<>>
    <3> DEFINE list == mgr[m].list \o new
    <3>1. list \in Seq(Record)
      BY <1>0, <2>4, ConcatTyped
    <3>2. SetAccounts(m, fields, list, FALSE) /\ objects' \in 0 .. MaxObject
      BY <2>1, <2>3, <2>6
    <3> HIDE DEF list
    <3>3. /\ Settle(m, Holding(fields, list)) /\ Holding(fields, list) \in ManagerStates
          /\ entry' \in Seq(Record) /\ alias' \in Managers \cup {NoManager} /\ reload' \in BOOLEAN
          /\ disk' \in [list : Seq(Record), ibans : SUBSET (Accounts \X (0 .. MaxObject))]
      BY <2>1, <2>2, <3>1, <3>2, SetFacts, HoldingTyped
    <3> QED
      BY <2>1, <3>2, <3>3, SettleTyped
  <2> QED
    BY <2>5, <2>6
<1>2. ASSUME Reconcile(m) PROVE TypeOK'
  <2>1. /\ Settle(m, [mgr[m] EXCEPT !.phase = "reconciled"]) /\ entities' = Reconciled(entry)
        /\ UNCHANGED <<entry, disk, alias, refs, ibans, objects, live, signature, reload, link,
                       assigned, forgotten, crossed>>
    BY <1>2 DEF Reconcile
  <2>2. [mgr[m] EXCEPT !.phase = "reconciled"] \in ManagerStates
    BY <1>0, PhaseTyped
  <2>3. \A r \in Elements(entry) : Key(r) \in Accounts \X {"own", "details"}
    BY ListTyped, RecordTyped
  <2>4. Reconciled(entry) \subseteq (Accounts \X {"own", "details", "uid"})
    <3> DEFINE renamed == {r \in Elements(entry) :
                 r.uid = 1 /\ <<r.acct, "uid">> \in entities /\ Key(r) \notin entities}
    <3>1. Reconciled(entry) \subseteq entities \cup {Key(r) : r \in renamed}
      BY DEF Reconciled
    <3>2. \A r \in renamed : Key(r) \in Accounts \X {"own", "details", "uid"}
      BY <2>3
    <3> HIDE DEF renamed
    <3>3. {Key(r) : r \in renamed} \subseteq (Accounts \X {"own", "details", "uid"})
      BY <3>2
    <3> QED
      BY <3>1, <3>3
  <2> QED
    BY <2>1, <2>2, <2>4, SettleTyped
<1>3. ASSUME FinishSetup(m) PROVE TypeOK'
  <2>1. /\ Settle(m, [mgr[m] EXCEPT !.phase = "ready"])
        /\ entities' = entities \cup {Key(ForRef(mgr[m].list, a, 0)) : a \in Referenced}
        /\ UNCHANGED <<entry, disk, alias, refs, ibans, objects, live, reload, link,
                       assigned, forgotten, crossed>>
    BY <1>3 DEF FinishSetup
  <2>2. [mgr[m] EXCEPT !.phase = "ready"] \in ManagerStates
    BY <1>0, PhaseTyped
  <2>3. ASSUME NEW a \in Referenced
        PROVE  Key(ForRef(mgr[m].list, a, 0)) \in Accounts \X {"own", "details"}
    <3>1. \/ ForRef(mgr[m].list, a, 0) \in Elements(mgr[m].list)
          \/ ForRef(mgr[m].list, a, 0) = Bare(a, 0)
      BY <1>0, ForRefPicks
    <3>2. 0 \in 0 .. MaxObject
      BY AccountsAssumption
    <3>3. Bare(a, 0) \in Record
      BY <3>2, BareTyped
    <3>4. ForRef(mgr[m].list, a, 0) \in Record
      BY <1>0, <3>1, <3>3, ListTyped
    <3> QED
      BY <3>4, RecordTyped
  <2>4. entities' \subseteq (Accounts \X {"own", "details", "uid"})
    BY <2>1, <2>3
  <2> QED
    BY <2>1, <2>2, <2>4, SettleTyped
<1> QED
  BY <1>1, <1>2, <1>3

LEMMA StoreRecordsTyped ==
  ASSUME TypeOK, NEW b, NEW reported \in SUBSET Accounts, NEW uid \in 1 .. MaxSession,
         StoreRecords(b, reported, uid)
  PROVE  TypeOK'
<1> USE DEF TypeOK
<1>1. /\ objects < MaxObject /\ objects' = objects + 1
      /\ entry' = Deduped(entry, reported, uid, objects + 1)
      /\ ibans' = ibans \cup IbansOfCopies(entry, objects + 1)
                        \cup {<<a, objects + 1>> : a \in reported \ Cards}
      /\ disk' = Stored(entry', ibans')
      /\ alias' = NoManager /\ link' = [on |-> TRUE, accounts |-> reported, uid |-> uid]
      /\ forgotten' = forgotten \cup
           {r.acct : r \in {q \in Elements(entry) :
                              BankOf[q.acct] = b /\ ~(q.acct \in reported /\ Recognised(q))}}
      /\ UNCHANGED <<refs, live, mgr, signature, entities, assigned>> /\ Notify
  BY DEF StoreRecords
<1>2. objects + 1 \in 0 .. MaxObject
  BY <1>1, AccountsAssumption
<1>3. entry' \in Seq(Record)
  BY <1>1, <1>2, DedupedFacts
<1>4. ibans' \subseteq (Accounts \X (0 .. MaxObject))
  BY <1>1, <1>2, IbansTyped
<1>5. disk' \in [list : Seq(Record), ibans : SUBSET (Accounts \X (0 .. MaxObject))]
  <2> DEFINE list == entry'
             held == ibans'
  <2>1. list \in Seq(Record) /\ held \subseteq (Accounts \X (0 .. MaxObject))
        /\ disk' = Stored(list, held)
    BY <1>1, <1>3, <1>4
  <2> HIDE DEF list, held
  <2> QED
    BY <2>1, StoredTyped
<1>6. forgotten' \subseteq Accounts
  <2>1. \A r \in Elements(entry) : r.acct \in Accounts
    BY ListTyped, RecordTyped
  <2> QED
    BY <1>1, <2>1
<1>7. crossed' \in BOOLEAN
  BY DEF StoreRecords
<1>8. uid \in 0 .. MaxSession
  BY AccountsAssumption
<1> QED
  BY <1>1, <1>2, <1>3, <1>4, <1>5, <1>6, <1>7, <1>8, NotifyTyped

\* The round and the service change the fields of one manager.
LEMMA RoundTyped ==
  ASSUME TypeOK, NEW m \in Managers
  PROVE  /\ StartRound(m) => TypeOK'
         /\ \A r \in mgr[m].round.mine : Enrich(m, r) => TypeOK'
         /\ \A a : NotEnriched(m, a) => TypeOK'
         /\ EndRound(m) => TypeOK'
<1> USE DEF TypeOK
<1>0. mgr[m] \in ManagerStates
  BY DEF TypeOK
<1>1. ASSUME StartRound(m) PROVE TypeOK'
  <2> DEFINE mine == {ForRef(mgr[m].list, a, objects + 1) : a \in Referenced}
             minimal == {r \in mine : r.obj = objects + 1}
  <2>1. /\ minimal # {} => objects < MaxObject
        /\ objects' = IF minimal = {} THEN objects ELSE objects + 1
        /\ mgr' = [mgr EXCEPT ![m].round =
             [on |-> TRUE, mine |-> mine, enriched |-> FALSE,
              todo |-> {r.acct : r \in {q \in mine : ~HasIban(q)}}]]
        /\ UNCHANGED <<entry, disk, alias, refs, ibans, live, signature, reload, link, entities,
                       assigned, forgotten>>
        /\ crossed' = (crossed \/ InFlightBut(m))
    BY <1>1 DEF StartRound
  <2>2. /\ minimal # {} => objects + 1 \in 0 .. MaxObject
        /\ objects' \in 0 .. MaxObject
    <3> HIDE DEF mine, minimal
    <3> QED
      BY <2>1, AccountsAssumption
  <2>3. mine \in SUBSET Record
    <3> SUFFICES ASSUME NEW a \in Referenced PROVE ForRef(mgr[m].list, a, objects + 1) \in Record
      OBVIOUS
    <3> DEFINE r == ForRef(mgr[m].list, a, objects + 1)
    <3>1. mgr[m].list \in Seq(Record) /\ Elements(mgr[m].list) \subseteq Record
      BY <1>0, ManagerTyped, ListTyped
    <3>2. r \in Elements(mgr[m].list) \/ r = Bare(a, objects + 1)
      BY <3>1, ForRefPicks
    <3>3. CASE r = Bare(a, objects + 1)
      <4>1. r.obj = objects + 1
        BY <3>3 DEF Bare
      <4>2. r \in minimal
        BY <4>1
      <4>3. objects + 1 \in 0 .. MaxObject
        BY <2>2, <4>2
      <4> HIDE DEF mine, minimal
      <4>4. Bare(a, objects + 1) \in Record
        BY <4>3, BareTyped
      <4> QED
        BY <3>3, <4>4
    <3> QED
      BY <3>1, <3>2, <3>3
  <2> HIDE DEF mine, minimal
  <2>4. {r.acct : r \in {q \in mine : ~HasIban(q)}} \in SUBSET Accounts
    <3>1. \A r \in mine : r.acct \in Accounts
      BY <2>3, RecordTyped
    <3> QED
      BY <3>1
  <2>5. mgr' \in [Managers -> ManagerStates]
    <3>1. [on |-> TRUE, mine |-> mine, enriched |-> FALSE,
           todo |-> {r.acct : r \in {q \in mine : ~HasIban(q)}}] \in Rounds
      BY <2>3, <2>4 DEF Rounds
    <3> QED
      BY <1>0, <2>1, <3>1 DEF ManagerStates
  <2> QED
    BY <2>1, <2>2, <2>5
<1>2. ASSUME NEW r \in mgr[m].round.mine, Enrich(m, r) PROVE TypeOK'
  <2> DEFINE grown(list) == IF \E q \in Elements(list) : q.acct = r.acct /\ q.obj = r.obj
                            THEN list ELSE Append(list, r)
  <2>1. /\ ibans' = ibans \cup {<<r.acct, r.obj>>}
        /\ mgr' = [mgr EXCEPT ![m].round.todo = @ \ {r.acct}, ![m].round.enriched = TRUE,
                              ![m].list = grown(@),
                              ![m].svc.src = IF mgr[m].svc.tied THEN grown(mgr[m].list) ELSE @]
        /\ entry' = IF alias = m THEN grown(entry) ELSE entry
        /\ crossed' = (crossed \/ Outdated(m, r))
        /\ UNCHANGED <<disk, alias, refs, objects, live, signature, reload, link, entities,
                       assigned, forgotten>>
    BY <1>2 DEF Enrich
  <2>2. r \in Record /\ r.acct \in Accounts /\ r.obj \in 0 .. MaxObject
    BY <1>0, ManagerTyped, RecordTyped
  <2>3. \A list \in Seq(Record) : grown(list) \in Seq(Record)
    BY <2>2, AppendTyped
  <2> HIDE DEF grown
  <2>4. mgr' \in [Managers -> ManagerStates]
    <3>1. grown(mgr[m].list) \in Seq(Record)
      BY <1>0, <2>3, ManagerTyped
    <3>2. mgr'[m] = [mgr[m] EXCEPT !.round.todo = @ \ {r.acct}, !.round.enriched = TRUE,
                       !.list = grown(@),
                       !.svc.src = IF mgr[m].svc.tied THEN grown(mgr[m].list) ELSE @]
      BY <2>1
    <3> DEFINE round == [mgr[m].round EXCEPT !.todo = @ \ {r.acct}, !.enriched = TRUE]
               svc == [mgr[m].svc EXCEPT !.src = IF mgr[m].svc.tied THEN grown(mgr[m].list) ELSE @]
    <3>3. round \in Rounds
      BY <1>0, ManagerTyped, RoundMade
    <3>4. svc \in Services
      <4> DEFINE src == IF mgr[m].svc.tied THEN grown(mgr[m].list) ELSE mgr[m].svc.src
      <4>1. src \in Seq(Record) /\ mgr[m].svc \in Services
        BY <1>0, <3>1, ManagerTyped
      <4>2. svc = [mgr[m].svc EXCEPT !.src = src]
        BY <4>1 DEF Services
      <4> HIDE DEF src, svc
      <4> QED
        BY <4>1, <4>2 DEF Services
    <3>5. mgr'[m] = [mgr[m] EXCEPT !.round = round, !.list = grown(@), !.svc = svc]
      BY <1>0, <3>2 DEF ManagerStates, Rounds, Services
    <3> HIDE DEF round, svc
    <3>6. mgr'[m] \in ManagerStates
      BY <1>0, <3>1, <3>3, <3>4, <3>5 DEF ManagerStates
    <3> QED
      BY <2>1, <3>6
  <2> QED
    BY <2>1, <2>2, <2>3, <2>4
<1>3. ASSUME NEW a, NotEnriched(m, a) PROVE TypeOK'
  <2>1. /\ mgr' = [mgr EXCEPT ![m].round.todo = @ \ {a}]
        /\ UNCHANGED <<entry, disk, alias, refs, ibans, objects, live, signature, reload, link,
                       entities, assigned, forgotten, crossed>>
    BY <1>3 DEF NotEnriched
  <2>2. mgr'[m] = [mgr[m] EXCEPT !.round.todo = @ \ {a}]
    BY <2>1
  <2>3. mgr'[m] \in ManagerStates
    <3> DEFINE round == [mgr[m].round EXCEPT !.todo = @ \ {a}]
    <3>1. round \in Rounds
      BY <1>0, ManagerTyped, RoundMade
    <3>2. mgr'[m] = [mgr[m] EXCEPT !.round = round]
      BY <1>0, <2>2 DEF ManagerStates, Rounds
    <3> HIDE DEF round
    <3> QED
      BY <1>0, <3>1, <3>2 DEF ManagerStates
  <2> QED
    BY <2>1, <2>3
<1>4. ASSUME EndRound(m) PROVE TypeOK'
  <2> DEFINE done == [mgr[m] EXCEPT !.round = NoRound]
  <2>1. done \in ManagerStates /\ mgr[m].list \in Seq(Record)
    BY <1>0 DEF ManagerStates, Rounds, NoRound
  <2>2. /\ UNCHANGED <<refs, ibans, objects, live, signature, link, entities, assigned, forgotten>>
        /\ \/ /\ SetAccounts(m, done, mgr[m].list, FALSE)
              /\ crossed' = (crossed \/ m # live \/ InFlightBut(m))
           \/ Settle(m, done) /\ UNCHANGED <<entry, disk, alias, reload, crossed>>
    BY <1>4 DEF EndRound
  <2> HIDE DEF done
  <2>3. CASE SetAccounts(m, done, mgr[m].list, FALSE) /\ crossed' = (crossed \/ m # live \/ InFlightBut(m))
    <3>1. /\ Settle(m, Holding(done, mgr[m].list)) /\ Holding(done, mgr[m].list) \in ManagerStates
          /\ entry' \in Seq(Record) /\ alias' \in Managers \cup {NoManager} /\ reload' \in BOOLEAN
          /\ disk' \in [list : Seq(Record), ibans : SUBSET (Accounts \X (0 .. MaxObject))]
      BY <2>1, <2>2, <2>3, SetFacts, HoldingTyped
    <3> QED
      BY <2>2, <2>3, <3>1, SettleTyped
  <2>4. CASE Settle(m, done) /\ UNCHANGED <<entry, disk, alias, reload, crossed>>
    BY <2>1, <2>2, <2>4, SettleTyped
  <2> QED
    BY <2>2, <2>3, <2>4
<1> QED
  BY <1>1, <1>2, <1>3, <1>4

LEMMA ServiceTyped ==
  ASSUME TypeOK, NEW m \in Managers
  PROVE  /\ StartService(m) => TypeOK'
         /\ \A answered : ServiceStep(m, answered) => TypeOK'
         /\ EndService(m) => TypeOK'
<1> USE DEF TypeOK
<1>0. mgr[m] \in ManagerStates
  BY DEF TypeOK
<1>1. ASSUME StartService(m) PROVE TypeOK'
  <2>1. /\ objects < MaxObject /\ objects' = objects + 1 /\ crossed' = (crossed \/ InFlightBut(m))
        /\ mgr' = [mgr EXCEPT ![m].svc =
             [on |-> TRUE, src |-> mgr[m].list, tied |-> TRUE, out |-> <<>>, obj |-> objects + 1]]
        /\ UNCHANGED <<entry, disk, alias, refs, ibans, live, signature, reload, link, entities,
                       assigned, forgotten>>
    BY <1>1 DEF StartService
  <2>2. objects + 1 \in 0 .. MaxObject
    BY <2>1, AccountsAssumption
  <2>3. mgr'[m] \in ManagerStates
    <3> DEFINE svc == [on |-> TRUE, src |-> mgr[m].list, tied |-> TRUE, out |-> <<>>,
                       obj |-> objects + 1]
    <3>1. svc \in Services
      BY <1>0, <2>2, ManagerTyped DEF Services
    <3>2. mgr'[m] = [mgr[m] EXCEPT !.svc = svc]
      BY <2>1
    <3> HIDE DEF svc
    <3> QED
      BY <1>0, <3>1, <3>2 DEF ManagerStates
  <2> QED
    BY <2>1, <2>2, <2>3
<1>2. ASSUME NEW answered, ServiceStep(m, answered) PROVE TypeOK'
  <2> DEFINE svc == mgr[m].svc
             r == svc.src[Len(svc.out) + 1]
             detailed == [r EXCEPT !.data = "details", !.obj = svc.obj]
  <2>1. /\ Len(svc.out) < Len(svc.src)
        /\ mgr' = [mgr EXCEPT ![m].svc.out = Append(@, IF answered THEN detailed ELSE r)]
        /\ ibans' = ibans \/ ibans' = ibans \cup {<<r.acct, svc.obj>>}
        /\ UNCHANGED <<entry, disk, alias, refs, objects, live, signature, reload, link,
                       entities, assigned, forgotten, crossed>>
    BY <1>2 DEF ServiceStep
  <2>2. svc.src \in Seq(Record) /\ svc.out \in Seq(Record) /\ svc.obj \in 0 .. MaxObject
    BY <1>0, ManagerTyped
  <2>3. r \in Record
    BY <2>1, <2>2
  <2>4. detailed \in Record /\ r.acct \in Accounts
    BY <2>2, <2>3, RecordTyped
  <2>5. mgr'[m] = [mgr[m] EXCEPT !.svc.out = Append(@, IF answered THEN detailed ELSE r)]
    BY <2>1
  <2> HIDE DEF r, detailed
  <2>6. Append(svc.out, IF answered THEN detailed ELSE r) \in Seq(Record)
    BY <2>2, <2>3, <2>4
  <2>7. mgr'[m] \in ManagerStates
    BY <1>0, <2>5, <2>6 DEF ManagerStates, Services
  <2> QED
    BY <2>1, <2>2, <2>4, <2>7
<1>3. ASSUME EndService(m) PROVE TypeOK'
  <2> DEFINE fields == [mgr[m] EXCEPT !.list = mgr[m].svc.out, !.svc = NoService]
  <2>1. /\ Settle(m, fields) /\ alias' = IF alias = m THEN NoManager ELSE alias
        /\ crossed' = (crossed \/ mgr[m].svc.src # mgr[m].list \/ InFlightBut(m))
        /\ UNCHANGED <<entry, disk, refs, ibans, objects, live, signature, reload, link, entities,
                       assigned, forgotten>>
    BY <1>3 DEF EndService
  <2>2. fields \in ManagerStates
    <3>1. NoService \in Services
      BY AccountsAssumption DEF Services, NoService
    <3> QED
      BY <1>0, <3>1, ManagerTyped DEF ManagerStates
  <2> HIDE DEF fields
  <2>3. mgr' \in [Managers -> ManagerStates]
    BY <2>1, <2>2, SettleTyped
  <2> QED
    BY <2>1, <2>3
<1> QED
  BY <1>1, <1>2, <1>3

\* What the user sets: a list of copies for the entry and the manager.
LEMMA WriteTyped ==
  ASSUME TypeOK, NEW m \in Managers, NEW list \in Seq(Record), NEW source \in Seq(Record), NEW more,
         objects < MaxObject, objects' = objects + 1,
         ibans' = ibans \cup IbansOfCopies(source, objects + 1),
         SetAccounts(m, mgr[m], list, more), crossed' = (crossed \/ InFlightBut(m)),
         UNCHANGED <<refs, live, link, entities>>,
         assigned' \in [Accounts -> Owners \cup {Nobody}], forgotten' \subseteq forgotten
  PROVE  TypeOK'
<1> USE DEF TypeOK
<1>1. objects + 1 \in 0 .. MaxObject
  BY AccountsAssumption
<1>2. ibans' \subseteq (Accounts \X (0 .. MaxObject))
  BY <1>1, IbansTyped
<1>3. mgr[m] \in ManagerStates
  BY DEF TypeOK
<1>4. /\ Settle(m, Holding(mgr[m], list)) /\ Holding(mgr[m], list) \in ManagerStates
      /\ entry' \in Seq(Record) /\ alias' \in Managers \cup {NoManager} /\ reload' \in BOOLEAN
      /\ disk' \in [list : Seq(Record), ibans : SUBSET (Accounts \X (0 .. MaxObject))]
  BY <1>2, <1>3, SetFacts, HoldingTyped
<1>5. mgr' \in [Managers -> ManagerStates]
  BY <1>4, SettleTyped
<1>6. crossed' \in BOOLEAN /\ forgotten' \subseteq Accounts /\ objects' \in 0 .. MaxObject
  BY <1>1
<1> QED
  BY <1>2, <1>4, <1>5, <1>6

\* The list an assignment writes.
Reassigned(key, owner) ==
  [i \in DOMAIN entry |->
     [entry[i] EXCEPT !.obj = objects + 1, !.owner = IF Key(entry[i]) = key THEN owner ELSE @]]

LEMMA ReassignedFacts ==
  ASSUME TypeOK, NEW key, NEW owner \in Owners \cup {Nobody}, objects < MaxObject
  PROVE  LET list == Reassigned(key, owner)
         IN  /\ list \in Seq(Record) /\ DOMAIN list = DOMAIN entry
             /\ \A i \in DOMAIN entry :
                  /\ list[i].acct = entry[i].acct /\ list[i].data = entry[i].data
                  /\ list[i].uid = entry[i].uid
                  /\ list[i].owner = IF Key(entry[i]) = key THEN owner ELSE entry[i].owner
<1> DEFINE list == Reassigned(key, owner)
<1>1. entry \in Seq(Record) /\ objects + 1 \in 0 .. MaxObject
  BY AccountsAssumption DEF TypeOK
<1>2. DOMAIN entry = 1 .. Len(entry) /\ Len(entry) \in Nat
      /\ \A i \in 1 .. Len(entry) : entry[i] \in Record
  BY <1>1, ListTyped
<1>3. /\ list = [i \in 1 .. Len(entry) |-> list[i]]
      /\ \A i \in 1 .. Len(entry) :
           list[i] = [entry[i] EXCEPT !.obj = objects + 1,
                                      !.owner = IF Key(entry[i]) = key THEN owner ELSE @]
  BY <1>2 DEF Reassigned
<1> HIDE DEF list
<1>4. ASSUME NEW i \in 1 .. Len(entry)
      PROVE  /\ list[i] \in Record /\ list[i].acct = entry[i].acct /\ list[i].data = entry[i].data
             /\ list[i].uid = entry[i].uid
             /\ list[i].owner = IF Key(entry[i]) = key THEN owner ELSE entry[i].owner
  <2> DEFINE new == IF Key(entry[i]) = key THEN owner ELSE entry[i].owner
  <2>1. entry[i] \in Record
    BY <1>2
  <2>2. new \in Owners \cup {Nobody}
    BY <2>1, RecordTyped
  <2>3. list[i] = [entry[i] EXCEPT !.obj = objects + 1, !.owner = new]
    BY <1>3
  <2> HIDE DEF new
  <2>4. /\ list[i] \in Record /\ list[i].acct = entry[i].acct /\ list[i].data = entry[i].data
        /\ list[i].uid = entry[i].uid /\ list[i].owner = new
    BY <1>1, <2>1, <2>2, <2>3 DEF Record
  <2> QED
    BY <2>4 DEF new
<1>5. \A i \in 1 .. Len(entry) : list[i] \in Record
  BY <1>4
<1>6. DOMAIN list = DOMAIN entry
  <2>1. DOMAIN [i \in 1 .. Len(entry) |-> list[i]] = 1 .. Len(entry)
    OBVIOUS
  <2> QED
    BY <1>2, <1>3, <2>1
<1>7. list \in Seq(Record)
  <2>1. [i \in 1 .. Len(entry) |-> list[i]] \in Seq(Record)
    BY <1>2, <1>5
  <2> QED
    BY <1>3, <2>1
<1> QED
  BY <1>2, <1>4, <1>6, <1>7 DEF list

LEMMA StepTyped == TypeOK /\ [Next]_vars => TypeOK'
<1> SUFFICES ASSUME TypeOK, [Next]_vars PROVE TypeOK'
  OBVIOUS
<1> USE DEF TypeOK
<1>1. CASE Reload
  <2>1. /\ Settle(live, [mgr[live] EXCEPT !.phase = "left"]) /\ live \in Managers
        /\ live' = NoManager /\ reload' = FALSE /\ crossed' = (crossed \/ Busy(live))
        /\ UNCHANGED <<entry, disk, alias, refs, ibans, objects, signature, link, entities,
                       assigned, forgotten>>
    BY <1>1 DEF Reload
  <2>2. [mgr[live] EXCEPT !.phase = "left"] \in ManagerStates
    BY <2>1, PhaseTyped
  <2> QED
    BY <2>1, <2>2, SettleTyped
<1>2. ASSUME NEW written \in BOOLEAN, Stop(written) PROVE TypeOK'
  <2>1. mgr' \in [Managers -> ManagerStates]
    BY <1>2, GoneTyped DEF Stop
  <2>2. link' \in [on : BOOLEAN, accounts : SUBSET Accounts, uid : 0 .. MaxSession]
    BY <1>2, AccountsAssumption DEF Stop
  <2>3. /\ entry' \in Seq(Record) /\ ibans' \subseteq (Accounts \X (0 .. MaxObject))
        /\ disk' \in [list : Seq(Record), ibans : SUBSET (Accounts \X (0 .. MaxObject))]
    BY <1>2, StoredTyped DEF Stop
  <2> QED
    BY <1>2, <2>1, <2>2, <2>3 DEF Stop
<1>3. CASE StoreRefs
  <2>1. /\ refs' = [a \in Accounts |->
             IF a \in link.accounts THEN link.uid
             ELSE IF \E b \in link.accounts : BankOf[a] = BankOf[b] THEN 0 ELSE refs[a]]
        /\ link' = [on |-> FALSE, accounts |-> {}, uid |-> 0]
        /\ disk' = Stored(entry, ibans)
        /\ UNCHANGED <<entry, alias, ibans, objects, live, mgr, signature, entities,
                       assigned, forgotten>>
        /\ crossed' = (crossed \/ reload \/ \E m \in Managers : Busy(m) \/ InSetup(m))
        /\ Notify
    BY <1>3 DEF StoreRefs
  <2>2. 0 \in 0 .. MaxSession /\ link.uid \in 0 .. MaxSession
    BY AccountsAssumption
  <2>3. refs' \in [Accounts -> 0 .. MaxSession]
    BY <2>1, <2>2
  <2>4. disk' \in [list : Seq(Record), ibans : SUBSET (Accounts \X (0 .. MaxObject))]
    BY <2>1, StoredTyped
  <2> QED
    BY <2>1, <2>2, <2>3, <2>4, NotifyTyped
<1>4. ASSUME NEW b \in {BankOf[a] : a \in Accounts}, NEW reported \in SUBSET Accounts,
             NEW uid \in 1 .. MaxSession, StoreRecords(b, reported, uid)
      PROVE  TypeOK'
  BY <1>4, StoreRecordsTyped
<1>5. ASSUME NEW m \in Managers, Load(m) PROVE TypeOK'
  <2>1. [Gone EXCEPT !.phase = "loading", !.list = entry] \in ManagerStates
    BY GoneTyped DEF ManagerStates
  <2> QED
    BY <1>5, <2>1 DEF Load
<1>6. ASSUME NEW m \in Managers, Adopt(m) \/ Reconcile(m) \/ FinishSetup(m) PROVE TypeOK'
  BY <1>6, SetupTyped
<1>7. ASSUME NEW m \in Managers, NEW more, FlagSavings(m, more) PROVE TypeOK'
  <2>1. mgr[m].list \in Seq(Record) /\ objects < MaxObject /\ objects + 1 \in 0 .. MaxObject
    BY <1>7, ManagerTyped, AccountsAssumption DEF FlagSavings
  <2>2. Copies(mgr[m].list, objects + 1) \in Seq(Record)
    BY <2>1, CopiesTyped
  <2> QED
    BY <1>7, <2>1, <2>2, WriteTyped DEF FlagSavings
<1>8. ASSUME NEW m \in Managers, NEW key \in Keys(entry), NEW owner \in Owners \cup {Nobody},
             NEW more, Assign(m, key, owner, more)
      PROVE  TypeOK'
  <2>1. /\ objects < MaxObject /\ objects' = objects + 1
        /\ ibans' = ibans \cup IbansOfCopies(entry, objects + 1)
        /\ SetAccounts(m, mgr[m], Reassigned(key, owner), more)
        /\ crossed' = (crossed \/ InFlightBut(m))
        /\ assigned' = [assigned EXCEPT ![key[1]] = owner] /\ forgotten' = forgotten \ {key[1]}
        /\ UNCHANGED <<refs, live, signature, link, entities>>
    BY <1>8 DEF Assign, Reassigned
  <2>2. Reassigned(key, owner) \in Seq(Record)
    BY <2>1, ReassignedFacts
  <2>3. assigned' \in [Accounts -> Owners \cup {Nobody}]
    BY <2>1
  <2>4. entry \in Seq(Record)
    BY DEF TypeOK
  <2> QED
    BY <2>1, <2>2, <2>3, <2>4, WriteTyped
<1>9. ASSUME NEW m \in Managers,
             \/ StartRound(m) \/ EndRound(m)
             \/ \E r \in mgr[m].round.mine : Enrich(m, r)
             \/ \E a \in Accounts : NotEnriched(m, a)
      PROVE  TypeOK'
  BY <1>9, RoundTyped
<1>10. ASSUME NEW m \in Managers,
              \/ StartService(m) \/ EndService(m)
              \/ \E answered \in BOOLEAN : ServiceStep(m, answered)
       PROVE  TypeOK'
  BY <1>10, ServiceTyped
<1>11. CASE UNCHANGED vars
  BY <1>11 DEF vars, TypeOK
<1> QED
  BY <1>1, <1>2, <1>3, <1>4, <1>5, <1>6, <1>7, <1>8, <1>9, <1>10, <1>11 DEF Next

-----------------------------------------------------------------------------
(* What holds as long as nobody goes on with a list that is no longer the    *)
(* newest                                                                    *)

\* What is due to an account, unless a link has lost its owner.
OwnersKept(list) == \A r \in Elements(list) : r.acct \in forgotten \/ r.owner = assigned[r.acct]

\* What a list does not have is not assigned to anybody.
OthersFree(list) == \A a \in Accounts : ~Has(list, a) => a \in forgotten \/ assigned[a] = Nobody

Current(list) == \A r \in Elements(list) : refs[r.acct] # 0 => r.uid = refs[r.acct]

\* A link is under way for the bank of the account.
Touched(a) == link.on /\ \E b \in link.accounts : BankOf[a] = BankOf[b]

EntryKept ==
  /\ Single(entry) /\ OwnersKept(entry) /\ OthersFree(entry)
  /\ \A r \in Elements(entry) :
       /\ ~Touched(r.acct) /\ refs[r.acct] # 0 => r.uid = refs[r.acct]
       /\ Touched(r.acct) => r.data # "details" /\ (r.acct \in link.accounts => r.uid = link.uid)

\* A restart that finds an older entry lacks records that nobody has assigned.
DiskKept ==
  /\ Single(disk.list) /\ OthersFree(disk.list)
  /\ Elements(disk.list) \subseteq Elements(entry)
  /\ \A r \in Elements(entry) : Has(disk.list, r.acct) \/ r.owner = Nobody

LinkKept ==
  link.on => /\ link.accounts # {} /\ \A a, b \in link.accounts : BankOf[a] = BankOf[b]
             /\ \A a \in Accounts : refs[a] < link.uid
             /\ \A a \in link.accounts : Has(entry, a)

\* Nothing runs but of the live manager, and nothing while the second write of a
\* link is awaited.
Alone ==
  /\ \A m \in Managers : m # live => mgr[m] = Gone
  /\ live \in Managers =>
       /\ mgr[live].phase \in {"loading", "adopted", "reconciled", "ready"}
       /\ Busy(live) => mgr[live].phase \in {"reconciled", "ready"} /\ ~link.on
  /\ reload => live \in Managers /\ mgr[live].phase = "ready"

Settled == mgr[live].phase \in {"reconciled", "ready"} /\ ~reload /\ ~link.on

\* A round has filled in something that the entry need not have yet.
Ahead(m) == mgr[m].round.on /\ mgr[m].round.enriched

LiveKept ==
  live \in Managers =>
    /\ mgr[live].phase \in {"loading", "adopted"} => mgr[live].list = entry
    /\ mgr[live].phase = "adopted" => \A a \in Referenced \ Cards : Has(entry, a)
    /\ Single(mgr[live].list)
    /\ Settled => OwnersKept(mgr[live].list) /\ OthersFree(mgr[live].list) /\ Current(mgr[live].list)
    /\ Settled /\ ~Ahead(live) => \A a : Has(mgr[live].list, a) => Has(entry, a)
    /\ alias = live => mgr[live].list = entry
    /\ mgr[live].phase = "ready" /\ ~reload => signature.refs = refs

\* The records a round may still add are new ones for accounts the list does not have.
RoundKept ==
  live \in Managers /\ mgr[live].round.on =>
    \A r \in mgr[live].round.mine :
      r.acct \in mgr[live].round.todo \ Cards =>
        IF Has(mgr[live].list, r.acct) THEN reload \/ Has(entry, r.acct)
        ELSE r.owner = Nobody /\ r.uid = refs[r.acct]

\* The service has gone over the first records of the list it started with.
Walked(svc) ==
  /\ Len(svc.out) <= Len(svc.src)
  /\ \A i \in DOMAIN svc.out : /\ svc.out[i].acct = svc.src[i].acct
                               /\ svc.out[i].uid = svc.src[i].uid
                               /\ svc.out[i].owner = svc.src[i].owner

ServiceKept ==
  live \in Managers /\ mgr[live].svc.on =>
    /\ mgr[live].svc.tied => mgr[live].svc.src = mgr[live].list
    /\ Walked(mgr[live].svc)

Kept == EntryKept /\ DiskKept /\ LinkKept /\ Alone /\ LiveKept /\ RoundKept /\ ServiceKept

AInv == TypeOK /\ (~crossed => Kept)

LEMMA InitKept == Init => AInv
<1> SUFFICES ASSUME Init PROVE AInv
  OBVIOUS
<1>1. TypeOK
  BY InitTyped
<1> DEFINE first == [i \in DOMAIN AccountSeq |->
              [acct |-> AccountSeq[i], data |-> "link", uid |-> 1, owner |-> Nobody, obj |-> 0]]
<1>2. entry = <<>> \/ entry = first
  BY DEF Init
<1>3. ASSUME NEW i \in DOMAIN entry
      PROVE  entry[i].acct = AccountSeq[i] /\ entry[i].uid = 1 /\ entry[i].owner = Nobody
             /\ i \in DOMAIN AccountSeq
  <2>1. entry # <<>>
    OBVIOUS
  <2>2. entry = first
    BY <1>2, <2>1
  <2> QED
    BY <2>2
<1> HIDE DEF first
<1>4. /\ refs = [a \in Accounts |-> 1] /\ assigned = [a \in Accounts |-> Nobody]
      /\ ~link.on /\ ~reload /\ live = NoManager /\ mgr = [m \in Managers |-> Gone]
      /\ disk.list = entry
  BY DEF Init, Stored
<1>5. live \notin Managers
  BY <1>4, AccountsAssumption
<1>6. Single(entry)
  BY <1>3, AccountsAssumption DEF Single
<1>7. \A r \in Elements(entry) : r.acct \in Accounts /\ r.uid = 1 /\ r.owner = Nobody
  BY <1>3 DEF Elements, Accounts
<1>8. EntryKept
  BY <1>4, <1>6, <1>7 DEF EntryKept, OwnersKept, OthersFree, Touched
<1>9. DiskKept
  BY <1>4, <1>7, <1>8 DEF EntryKept, DiskKept, OthersFree
<1>10. LinkKept /\ Alone /\ LiveKept /\ RoundKept /\ ServiceKept
  BY <1>4, <1>5 DEF LinkKept, Alone, LiveKept, RoundKept, ServiceKept
<1> QED
  BY <1>1, <1>8, <1>9, <1>10 DEF AInv, Kept

LEMMA SameEntry ==
  ASSUME Kept, UNCHANGED <<entry, disk, refs, link, assigned, forgotten>>
  PROVE  EntryKept' /\ DiskKept' /\ LinkKept'
  BY DEF Kept, EntryKept, DiskKept, LinkKept, OwnersKept, OthersFree, Touched

\* What a writer of the live manager finds.
LEMMA AtRest ==
  ASSUME TypeOK, Kept, NEW m \in Managers, Ready(m), ~InFlightBut(m)
  PROVE  /\ m = live /\ live \in Managers /\ Settled /\ mgr[m].phase \in {"reconciled", "ready"}
         /\ ~reload /\ ~link.on /\ mgr[m] \in ManagerStates /\ mgr[m].list \in Seq(Record)
         /\ OwnersKept(mgr[m].list) /\ OthersFree(mgr[m].list) /\ Current(mgr[m].list)
         /\ Single(mgr[m].list)
<1>1. ~reload /\ ~link.on
  BY DEF InFlightBut
<1>2. m = live /\ mgr[m].phase \in {"reconciled", "ready"}
  BY DEF Ready
<1>3. mgr[m] \in ManagerStates /\ mgr[m].list \in Seq(Record)
  BY ManagerTyped DEF TypeOK
<1>4. Settled
  BY <1>1, <1>2 DEF Settled
<1> QED
  BY <1>1, <1>2, <1>3, <1>4 DEF Kept, LiveKept

LEMMA LoadKept == ASSUME TypeOK, Kept, NEW m \in Managers, Load(m) PROVE Kept'
<1>1. /\ live = NoManager /\ live' = m /\ alias' = m
      /\ mgr' = [mgr EXCEPT ![m] = [Gone EXCEPT !.phase = "loading", !.list = entry]]
      /\ UNCHANGED <<entry, disk, refs, signature, reload, link, assigned, forgotten>>
  BY DEF Load
<1>2. NoManager \notin Managers
  BY AccountsAssumption
<1>3. /\ mgr'[m].phase = "loading" /\ mgr'[m].list = entry
      /\ ~mgr'[m].round.on /\ ~mgr'[m].svc.on
  BY <1>1 DEF TypeOK, Gone, NoRound, NoService
<1>4. \A n \in Managers : n # m => mgr'[n] = Gone
  BY <1>1, <1>2 DEF TypeOK, Kept, Alone
<1>5. ~reload
  BY <1>1, <1>2 DEF Kept, Alone
<1>6. EntryKept' /\ DiskKept' /\ LinkKept'
  BY <1>1, SameEntry
<1>7. Alone'
  BY <1>1, <1>3, <1>4, <1>5 DEF Alone, Busy
<1>8. LiveKept'
  BY <1>1, <1>3 DEF LiveKept, Settled, Kept, EntryKept
<1>9. RoundKept' /\ ServiceKept'
  BY <1>1, <1>3 DEF RoundKept, ServiceKept
<1> QED
  BY <1>6, <1>7, <1>8, <1>9 DEF Kept

\* A setup adopts only what the list has no record for.
LEMMA AdoptKept == ASSUME TypeOK, TypeOK', Kept, NEW m \in Managers, Adopt(m) PROVE Kept'
<1> DEFINE new == Adopted(mgr[m].list, objects + 1)
           fields == [mgr[m] EXCEPT !.phase = "adopted"]
<1>1. /\ m = live /\ mgr[m].phase = "loading"
      /\ UNCHANGED <<refs, ibans, live, signature, link, entities, assigned, forgotten>>
      /\ IF new = <<>>
         THEN Settle(m, fields) /\ UNCHANGED <<entry, disk, alias, objects, reload>>
         ELSE /\ objects < MaxObject /\ objects' = objects + 1
              /\ SetAccounts(m, fields, mgr[m].list \o new, FALSE)
  BY DEF Adopt
<1>2. mgr[m].list = entry /\ mgr[m] \in ManagerStates /\ entry \in Seq(Record) /\ ~Busy(m) /\ ~reload
  BY <1>1 DEF Kept, LiveKept, TypeOK, Alone
<1>3. new # <<>> => objects + 1 \in 0 .. MaxObject
  <2> HIDE DEF new, fields
  <2> QED
    BY <1>1, AccountsAssumption DEF TypeOK
<1>4. /\ new \in Seq(Record)
      /\ \A i \in DOMAIN new : /\ new[i].acct \in Referenced /\ new[i] = Bare(new[i].acct, objects + 1)
                               /\ \A r \in Elements(entry) :
                                    /\ ~(r.acct = new[i].acct /\ r.uid = refs[new[i].acct])
                                    /\ Key(r) # <<new[i].acct, "own">>
      /\ \A i, j \in DOMAIN new : new[i].acct = new[j].acct => i = j
      /\ \A a \in Referenced :
           Key(ForRef(entry, a, objects + 1)) \in Keys(entry)
             \/ \E i \in DOMAIN new : new[i] = ForRef(entry, a, objects + 1)
  BY <1>2, <1>3, AdoptedFacts
<1>5. /\ fields \in ManagerStates /\ fields.phase = "adopted" /\ fields.list = mgr[m].list
      /\ fields.round = mgr[m].round /\ fields.svc = mgr[m].svc
  BY <1>2, PhaseTyped
<1>6. ~mgr[m].svc.on
  BY <1>2 DEF Busy
<1> HIDE DEF new, fields
<1>7. /\ mgr'[m].phase = "adopted" /\ mgr'[m].list = entry' /\ entry' = entry \o new
      /\ mgr'[m].round = mgr[m].round /\ mgr'[m].svc.on = mgr[m].svc.on
      /\ \A n \in Managers : n # m => mgr'[n] = mgr[n]
      /\ reload' = reload /\ \/ entry' = entry /\ disk' = disk
                             \/ disk'.list = entry'
  <2>1. CASE new = <<>>
    <3>1. mgr'[m] = fields /\ \A n \in Managers : n # m => mgr'[n] = mgr[n]
      BY <1>1, <1>5, <2>1, SettleTyped
    <3>2. entry \o new = entry
      BY <1>2, <2>1
    <3> QED
      BY <1>1, <1>2, <1>5, <2>1, <3>1, <3>2
  <2>2. CASE new # <<>>
    <3> DEFINE list == entry \o new
    <3>1. list \in Seq(Record) /\ list # entry
      <4>1. Len(list) # Len(entry)
        BY <1>2, <1>4, <2>2
      <4> QED
        BY <1>2, <1>4, <4>1, ConcatTyped
    <3>2. SetAccounts(m, fields, list, FALSE)
      BY <1>1, <1>2, <2>2
    <3>3. DOMAIN list # DOMAIN entry
      BY <1>2, <1>4, <2>2
    <3> HIDE DEF list
    <3>4. ibans' \subseteq (Accounts \X (0 .. MaxObject))
      BY DEF TypeOK
    <3>5. /\ Settle(m, Holding(fields, list)) /\ (reload' => reload \/ mgr[live].phase = "ready")
          /\ reload' \in BOOLEAN
          /\ \/ entry' = entry /\ disk' = disk
             \/ entry' = list /\ disk'.list = list
          /\ Alike(list, entry')
      BY <1>5, <3>1, <3>2, <3>4, SetFacts
    <3>6. entry' = list /\ disk'.list = list
      BY <3>3, <3>5 DEF Alike
    <3>7. /\ Holding(fields, list) \in ManagerStates /\ Holding(fields, list).phase = "adopted"
          /\ Holding(fields, list).list = list /\ Holding(fields, list).round = mgr[m].round
          /\ Holding(fields, list).svc.on = mgr[m].svc.on
      BY <1>5, <3>1, HoldingTyped
    <3>8. /\ mgr'[m] = Holding(fields, list)
          /\ \A n \in Managers : n # m => mgr'[n] = mgr[n]
      BY <3>5, <3>7, SettleTyped
    <3>9. ~reload'
      BY <1>1, <1>2, <3>5
    <3>10. reload' = reload
      BY <1>2, <3>5, <3>9 DEF TypeOK
    <3>11. entry' = entry \o new
      BY <3>6 DEF list
    <3> QED
      BY <3>6, <3>7, <3>8, <3>10, <3>11
  <2> QED
    BY <2>1, <2>2
<1>8. ASSUME NEW i \in DOMAIN new
      PROVE  /\ new[i].acct \in Accounts /\ refs[new[i].acct] # 0 /\ ~Has(entry, new[i].acct)
             /\ new[i].uid = refs[new[i].acct] /\ new[i].owner = Nobody /\ new[i].data = "bare"
  <2> DEFINE a == new[i].acct
  <2>1. a \in Referenced /\ new[i] = Bare(a, objects + 1) /\ a \in Accounts /\ refs[a] # 0
    BY <1>4 DEF Referenced
  <2>2. /\ Bare(a, objects + 1).uid = refs[a] /\ Bare(a, objects + 1).owner = Nobody
        /\ Bare(a, objects + 1).data = "bare"
    BY DEF Bare
  <2>3. ASSUME NEW r \in Elements(entry), r.acct = a PROVE FALSE
    <3>1. r.uid # refs[a] /\ Key(r) # <<a, "own">>
      BY <1>4, <2>3
    <3>2. r.data = "details"
      BY <2>3, <3>1 DEF Key
    <3>3. ~Touched(a)
      BY <2>3, <3>2 DEF Kept, EntryKept
    <3> QED
      BY <2>1, <2>3, <3>1, <3>3 DEF Kept, EntryKept
  <2> QED
    BY <2>1, <2>2, <2>3 DEF Has
<1>9. \A r \in Elements(new) :
        /\ r.acct \in Accounts /\ refs[r.acct] # 0 /\ ~Has(entry, r.acct)
        /\ r.uid = refs[r.acct] /\ r.owner = Nobody /\ r.data = "bare"
  BY <1>8 DEF Elements
<1>10. Elements(entry') = Elements(entry) \cup Elements(new)
  BY <1>2, <1>4, <1>7, ConcatTyped
<1>11. Single(entry')
  <2>1. Single(new)
    BY <1>4 DEF Single
  <2>2. \A i \in DOMAIN entry, j \in DOMAIN new : entry[i].acct # new[j].acct
    BY <1>8 DEF Has, Elements
  <2> QED
    BY <1>2, <1>4, <1>7, <2>1, <2>2, ConcatTyped DEF Kept, EntryKept
<1>12. OwnersKept(entry)' /\ OthersFree(entry)'
  <2>1. \A r \in Elements(entry') : r.acct \in forgotten \/ r.owner = assigned[r.acct]
    BY <1>9, <1>10 DEF Kept, EntryKept, OwnersKept, OthersFree
  <2>2. \A a \in Accounts : ~Has(entry', a) => a \in forgotten \/ assigned[a] = Nobody
    BY <1>10 DEF Kept, EntryKept, OthersFree, Has
  <2> QED
    BY <1>1, <2>1, <2>2 DEF OwnersKept, OthersFree
<1>13. ASSUME NEW r \in Elements(entry')
       PROVE  /\ ~Touched(r.acct) /\ refs[r.acct] # 0 => r.uid = refs[r.acct]
              /\ Touched(r.acct) => r.data # "details" /\ (r.acct \in link.accounts => r.uid = link.uid)
  <2>1. CASE r \in Elements(entry)
    BY <2>1 DEF Kept, EntryKept
  <2>2. CASE r \in Elements(new)
    <3>1. link.on => r.acct \notin link.accounts
      BY <1>9, <2>2 DEF Kept, LinkKept
    <3> QED
      BY <1>9, <2>2, <3>1 DEF Touched
  <2> QED
    BY <1>10, <2>1, <2>2
<1>14. EntryKept'
  BY <1>1, <1>11, <1>12, <1>13 DEF EntryKept, Touched
<1>15. DiskKept'
  <2>1. CASE entry' = entry /\ disk' = disk
    BY <1>1, <2>1 DEF Kept, DiskKept, OthersFree
  <2>2. CASE disk'.list = entry'
    <3>1. \A r \in Elements(entry') : Has(entry', r.acct)
      BY DEF Has
    <3> QED
      BY <1>11, <1>12, <2>2, <3>1 DEF DiskKept, OthersFree
  <2> QED
    BY <1>7, <2>1, <2>2
<1>16. LinkKept'
  BY <1>1, <1>10 DEF Kept, LinkKept, Has
<1>17. Alone'
  BY <1>1, <1>2, <1>7 DEF Kept, Alone, Busy
<1>18. ASSUME NEW a \in Referenced \ Cards PROVE Has(entry', a)
  <2> DEFINE r == ForRef(entry, a, objects + 1)
  <2>1. r.acct = a
    <3>1. r = Bare(a, objects + 1) \/ r.acct = a \/ Key(r) = <<a, "own">>
      BY <1>2, ForRefPicks
    <3> QED
      BY <3>1 DEF Bare, Key
  <2>2. Key(r) = <<a, "own">>
    BY <2>1 DEF Key
  <2>3. Key(r) \in Keys(entry) \/ r \in Elements(new)
    BY <1>4 DEF Elements
  <2> HIDE DEF r
  <2>4. CASE Key(r) \in Keys(entry)
    <3>1. PICK q \in Elements(entry) : Key(q) = <<a, "own">>
      BY <2>2, <2>4 DEF Keys
    <3>2. q.acct = a
      BY <3>1 DEF Key
    <3> QED
      BY <1>10, <3>2 DEF Has
  <2>5. CASE r \in Elements(new)
    BY <1>10, <2>1, <2>5 DEF Has
  <2> QED
    BY <2>3, <2>4, <2>5
<1>19. LiveKept'
  <2>1. \A a \in Referenced' \ Cards : Has(entry', a)
    BY <1>1, <1>18 DEF Referenced
  <2> QED
    BY <1>1, <1>7, <1>11, <2>1 DEF LiveKept, Settled
<1>20. RoundKept' /\ ServiceKept'
  BY <1>1, <1>2, <1>7 DEF RoundKept, ServiceKept, Busy
<1> QED
  BY <1>14, <1>15, <1>16, <1>17, <1>19, <1>20 DEF Kept

LEMMA ReconcileKept == ASSUME TypeOK, Kept, NEW m \in Managers, Reconcile(m) PROVE Kept'
<1> DEFINE fields == [mgr[m] EXCEPT !.phase = "reconciled"]
<1>1. /\ m = live /\ mgr[m].phase = "adopted" /\ Settle(m, fields)
      /\ UNCHANGED <<entry, disk, alias, refs, live, signature, reload, link, assigned, forgotten>>
  BY DEF Reconcile
<1>2. mgr[m].list = entry /\ mgr[m] \in ManagerStates /\ ~Busy(m) /\ ~reload
  BY <1>1 DEF Kept, LiveKept, TypeOK, Alone
<1>3. /\ fields \in ManagerStates /\ fields.phase = "reconciled" /\ fields.list = entry
      /\ fields.round = mgr[m].round /\ fields.svc = mgr[m].svc
  BY <1>2, PhaseTyped
<1> HIDE DEF fields
<1>4. mgr'[m] = fields /\ \A n \in Managers : n # m => mgr'[n] = mgr[n]
  BY <1>1, <1>3, SettleTyped
<1>5. EntryKept' /\ DiskKept' /\ LinkKept'
  BY <1>1, SameEntry
<1>6. Alone'
  BY <1>1, <1>2, <1>3, <1>4 DEF Kept, Alone, Busy
<1>7. ~link.on => Current(entry)
  BY DEF Kept, EntryKept, Current, Touched
<1>8. LiveKept'
  <2>1. mgr'[live'].phase = "reconciled" /\ mgr'[live'].list = entry'
    BY <1>1, <1>3, <1>4
  <2>2. ~link'.on => Current(entry)'
    BY <1>1, <1>7 DEF Current
  <2> QED
    BY <1>5, <2>1, <2>2 DEF LiveKept, Settled, EntryKept, OwnersKept, OthersFree, Current
<1>9. RoundKept' /\ ServiceKept'
  BY <1>1, <1>2, <1>3, <1>4 DEF RoundKept, ServiceKept, Busy
<1> QED
  BY <1>5, <1>6, <1>8, <1>9 DEF Kept

LEMMA FinishSetupKept == ASSUME TypeOK, Kept, NEW m \in Managers, FinishSetup(m) PROVE Kept'
<1> DEFINE fields == [mgr[m] EXCEPT !.phase = "ready"]
<1>1. /\ m = live /\ mgr[m].phase = "reconciled" /\ Settle(m, fields)
      /\ signature' = SignatureOf(refs, entry)
      /\ UNCHANGED <<entry, disk, alias, refs, live, reload, link, assigned, forgotten>>
  BY DEF FinishSetup
<1>2. mgr[m] \in ManagerStates /\ ~reload
  BY <1>1 DEF Kept, TypeOK, Alone
<1>3. /\ fields \in ManagerStates /\ fields.phase = "ready" /\ fields.list = mgr[m].list
      /\ fields.round = mgr[m].round /\ fields.svc = mgr[m].svc
  BY <1>2, PhaseTyped
<1> HIDE DEF fields
<1>4. mgr'[m] = fields /\ \A n \in Managers : n # m => mgr'[n] = mgr[n]
  BY <1>1, <1>3, SettleTyped
<1>5. EntryKept' /\ DiskKept' /\ LinkKept'
  BY <1>1, SameEntry
<1>6. Alone'
  BY <1>1, <1>3, <1>4 DEF Kept, Alone, Busy
<1>7. signature'.refs = refs
  BY <1>1 DEF SignatureOf
<1>8. LiveKept'
  BY <1>1, <1>3, <1>4, <1>7 DEF Kept, LiveKept, Settled, Ahead, OwnersKept, OthersFree, Current
<1>9. RoundKept' /\ ServiceKept'
  BY <1>1, <1>3, <1>4 DEF Kept, RoundKept, ServiceKept
<1> QED
  BY <1>5, <1>6, <1>8, <1>9 DEF Kept

LEMMA ReloadKept == ASSUME TypeOK, Kept, Reload, ~crossed' PROVE Kept'
<1>1. /\ reload /\ live \in Managers /\ ~Busy(live)
      /\ Settle(live, [mgr[live] EXCEPT !.phase = "left"])
      /\ live' = NoManager /\ reload' = FALSE
      /\ UNCHANGED <<entry, disk, refs, link, assigned, forgotten>>
  BY DEF Reload
<1>2. mgr[live] \in ManagerStates
  BY <1>1 DEF TypeOK
<1> DEFINE fields == [mgr[live] EXCEPT !.phase = "left"]
<1>3. fields \in ManagerStates /\ fields.phase = "left" /\ ~fields.round.on /\ ~fields.svc.on
  BY <1>1, <1>2, PhaseTyped DEF Busy
<1> HIDE DEF fields
<1>4. mgr'[live] = Gone /\ \A n \in Managers : n # live => mgr'[n] = mgr[n]
  BY <1>1, <1>3, SettleTyped DEF fields
<1>5. NoManager \notin Managers
  BY AccountsAssumption
<1>6. EntryKept' /\ DiskKept' /\ LinkKept'
  BY <1>1, SameEntry
<1> QED
  BY <1>1, <1>4, <1>5, <1>6 DEF Kept, Alone, LiveKept, RoundKept, ServiceKept

\* A restart finds the entry as it is, or as it was last written.
LEMMA StopKept == ASSUME TypeOK, Kept, NEW written, Stop(written), ~crossed' PROVE Kept'
<1>1. /\ mgr' = [m \in Managers |-> Gone] /\ live' = NoManager /\ reload' = FALSE
      /\ ~link'.on /\ ~link.on /\ UNCHANGED <<refs, assigned, forgotten>>
      /\ \/ entry' = entry /\ disk' = Stored(entry, ibans)
         \/ entry' = disk.list /\ disk' = disk
  BY DEF Stop
<1>2. NoManager \notin Managers
  BY AccountsAssumption
<1>3. entry' = entry \/ entry' = disk.list
  BY <1>1
<1>4. Elements(entry') \subseteq Elements(entry) /\ Single(entry') /\ OthersFree(entry')
  BY <1>3 DEF Kept, EntryKept, DiskKept
<1>5. disk'.list = entry'
  BY <1>1 DEF Stored
<1>6. EntryKept'
  BY <1>1, <1>4 DEF Kept, EntryKept, OwnersKept, OthersFree, Touched
<1>7. DiskKept'
  <2>1. \A r \in Elements(entry') : Has(entry', r.acct)
    BY DEF Has
  <2> QED
    BY <1>5, <1>6, <2>1 DEF EntryKept, DiskKept, OthersFree
<1>8. LinkKept'
  BY <1>1 DEF LinkKept
<1> QED
  BY <1>1, <1>2, <1>6, <1>7, <1>8 DEF Kept, Alone, LiveKept, RoundKept, ServiceKept

LEMMA StoreRecordsKept ==
  ASSUME TypeOK, Kept, NEW b, NEW reported \in SUBSET Accounts, NEW uid \in 1 .. MaxSession,
         StoreRecords(b, reported, uid), ~crossed'
  PROVE  Kept'
<1> DEFINE obj == objects + 1
<1>1. /\ ~link.on /\ objects < MaxObject /\ \A a \in Accounts : refs[a] < uid
      /\ reported # {} /\ \A a \in reported : BankOf[a] = b
      /\ entry' = Deduped(entry, reported, uid, obj) /\ alias' = NoManager
      /\ disk' = Stored(entry', ibans')
      /\ link' = [on |-> TRUE, accounts |-> reported, uid |-> uid]
      /\ forgotten' = forgotten \cup
           {r.acct : r \in {q \in Elements(entry) :
                              BankOf[q.acct] = b /\ ~(q.acct \in reported /\ Recognised(q))}}
      /\ UNCHANGED <<refs, live, mgr, signature, assigned>> /\ Notify /\ ~InFlight
  BY DEF StoreRecords
<1>2. obj \in 0 .. MaxObject /\ entry \in Seq(Record)
  BY <1>1, AccountsAssumption DEF TypeOK
<1> HIDE DEF obj
<1>3. NoManager \notin Managers
  BY AccountsAssumption
<1>4. /\ ~reload
      /\ \A n \in Managers : ~Busy(n) /\ mgr[n].phase \notin {"loading", "adopted", "reconciled"}
  BY <1>1, <1>3 DEF InFlight, InFlightBut, InSetup
<1> DEFINE Other(a) == OtherBank(a, reported)
<1>5. \A a : Other(a) <=> BankOf[a] # b
  BY <1>1 DEF OtherBank
<1>6. /\ \A r \in Elements(entry') :
           \/ /\ Other(r.acct)
              /\ \E q \in Elements(entry) : /\ r.acct = q.acct /\ r.data = q.data
                                            /\ r.uid = q.uid /\ r.owner = q.owner
           \/ /\ r.acct \in reported /\ r.data = "link" /\ r.uid = uid
              /\ \/ /\ \A q \in Elements(entry) : q.acct = r.acct => ~Recognised(q)
                    /\ r.owner = Nobody
                 \/ \E q \in Elements(entry) : /\ q.acct = r.acct /\ Recognised(q)
                                               /\ r.owner = q.owner
      /\ \A a \in reported : Has(entry', a)
      /\ \A r \in Elements(entry) : Other(r.acct) => Has(entry', r.acct)
      /\ Single(entry) => Single(entry')
  <2>1. Merged(entry', entry, reported, uid)
    BY <1>1, <1>2, DedupedFacts
  <2> QED
    BY <2>1 DEF Merged
<1> HIDE DEF Other
<1>7. Single(entry')
  BY <1>6 DEF Kept, EntryKept
<1>8. \A r \in Elements(entry) : r.acct \in Accounts /\ (r.acct \in forgotten \/ r.owner = assigned[r.acct])
  BY <1>2, ListTyped, RecordTyped DEF Kept, EntryKept, OwnersKept
<1>9. /\ forgotten \subseteq forgotten'
      /\ \A q \in Elements(entry) :
           BankOf[q.acct] = b /\ ~(q.acct \in reported /\ Recognised(q)) => q.acct \in forgotten'
  BY <1>1
<1>10. ASSUME NEW r \in Elements(entry') PROVE r.acct \in forgotten' \/ r.owner = assigned[r.acct]
  <2>1. CASE Other(r.acct)
    <3>1. r.acct \notin reported
      BY <1>1, <1>5, <2>1
    <3>2. PICK q \in Elements(entry) : r.acct = q.acct /\ r.owner = q.owner
      BY <1>6, <3>1
    <3> QED
      BY <1>8, <1>9, <3>2
  <2>2. CASE ~Other(r.acct)
    <3>1. r.acct \in reported /\ BankOf[r.acct] = b /\ r.acct \in Accounts
      BY <1>5, <1>6, <2>2
    <3>2. CASE /\ \A q \in Elements(entry) : q.acct = r.acct => ~Recognised(q)
               /\ r.owner = Nobody
      <4>1. CASE Has(entry, r.acct)
        <5>1. PICK q \in Elements(entry) : q.acct = r.acct
          BY <4>1 DEF Has
        <5> QED
          BY <1>9, <3>1, <3>2, <5>1
      <4>2. CASE ~Has(entry, r.acct)
        BY <1>9, <3>1, <3>2, <4>2 DEF Kept, EntryKept, OthersFree
      <4> QED
        BY <4>1, <4>2
    <3>3. CASE \E q \in Elements(entry) : q.acct = r.acct /\ Recognised(q) /\ r.owner = q.owner
      BY <1>8, <1>9, <3>3
    <3> QED
      BY <1>6, <2>2, <3>2, <3>3
  <2> QED
    BY <2>1, <2>2
<1>11. ASSUME NEW a \in Accounts, ~Has(entry', a) PROVE a \in forgotten' \/ assigned[a] = Nobody
  <2>1. CASE Has(entry, a)
    <3>1. PICK q \in Elements(entry) : q.acct = a
      BY <2>1 DEF Has
    <3>2. ~Other(a) /\ a \notin reported
      BY <1>6, <1>11, <3>1
    <3> QED
      BY <1>5, <1>9, <3>1, <3>2
  <2>2. CASE ~Has(entry, a)
    BY <1>9, <2>2 DEF Kept, EntryKept, OthersFree
  <2> QED
    BY <2>1, <2>2
<1>12. /\ link'.on /\ link'.accounts = reported /\ link'.uid = uid
  BY <1>1
<1>13. \A a : Touched(a)' <=> BankOf[a] = b
  <2>1. PICK c \in reported : BankOf[c] = b
    BY <1>1
  <2> QED
    BY <1>1, <1>12, <2>1 DEF Touched
<1>14. ASSUME NEW r \in Elements(entry')
       PROVE  /\ ~Touched(r.acct)' /\ refs'[r.acct] # 0 => r.uid = refs'[r.acct]
              /\ Touched(r.acct)' => r.data # "details" /\ (r.acct \in link'.accounts => r.uid = link'.uid)
  <2>1. CASE Other(r.acct)
    <3>1. r.acct \notin reported /\ BankOf[r.acct] # b
      BY <1>1, <1>5, <2>1
    <3>2. PICK q \in Elements(entry) : r.acct = q.acct /\ r.uid = q.uid
      BY <1>6, <3>1
    <3>3. refs[q.acct] # 0 => q.uid = refs[q.acct]
      BY <1>1 DEF Kept, EntryKept, Touched
    <3> QED
      BY <1>1, <1>13, <3>1, <3>2, <3>3
  <2>2. CASE ~Other(r.acct)
    BY <1>5, <1>6, <1>12, <1>13, <2>2
  <2> QED
    BY <2>1, <2>2
<1>15. OwnersKept(entry)' /\ OthersFree(entry)'
  BY <1>1, <1>10, <1>11 DEF OwnersKept, OthersFree
<1>16. EntryKept'
  BY <1>7, <1>14, <1>15 DEF EntryKept
<1>17. DiskKept'
  <2>1. disk'.list = entry' /\ \A r \in Elements(entry') : Has(entry', r.acct)
    BY <1>1 DEF Stored, Has
  <2> QED
    BY <1>7, <1>15, <2>1 DEF DiskKept, OthersFree
<1>18. LinkKept'
  BY <1>1, <1>6, <1>12 DEF LinkKept
<1>19. Alone'
  BY <1>1, <1>4, NotifyFacts DEF Kept, Alone, Busy
<1>20. LiveKept' /\ RoundKept' /\ ServiceKept'
  BY <1>1, <1>3, <1>4, <1>12 DEF Kept, Alone, LiveKept, RoundKept, ServiceKept, Settled, Busy
<1> QED
  BY <1>16, <1>17, <1>18, <1>19, <1>20 DEF Kept

LEMMA StoreRefsKept == ASSUME TypeOK, Kept, StoreRefs, ~crossed' PROVE Kept'
<1>1. /\ link.on
      /\ refs' = [a \in Accounts |->
           IF a \in link.accounts THEN link.uid
           ELSE IF \E b \in link.accounts : BankOf[a] = BankOf[b] THEN 0 ELSE refs[a]]
      /\ link' = [on |-> FALSE, accounts |-> {}, uid |-> 0]
      /\ disk' = Stored(entry, ibans)
      /\ UNCHANGED <<entry, alias, live, mgr, signature, assigned, forgotten>> /\ Notify
      /\ ~reload
      /\ \A m \in Managers : ~Busy(m) /\ mgr[m].phase \notin {"loading", "adopted", "reconciled"}
  BY DEF StoreRefs, InSetup
<1>2. \A r \in Elements(entry) : r.acct \in Accounts
  BY ListTyped, RecordTyped DEF TypeOK
<1>3. ASSUME NEW r \in Elements(entry), refs'[r.acct] # 0 PROVE r.uid = refs'[r.acct]
  <2>1. CASE r.acct \in link.accounts
    <3>1. Touched(r.acct)
      BY <1>1, <2>1 DEF Touched
    <3> QED
      BY <1>1, <1>2, <2>1, <3>1 DEF Kept, EntryKept
  <2>2. CASE r.acct \notin link.accounts
    <3>1. ~Touched(r.acct) /\ refs'[r.acct] = refs[r.acct]
      BY <1>1, <1>2, <1>3, <2>2 DEF Touched
    <3> QED
      BY <1>3, <3>1 DEF Kept, EntryKept
  <2> QED
    BY <2>1, <2>2
<1>4. EntryKept' /\ LinkKept'
  BY <1>1, <1>3 DEF Kept, EntryKept, LinkKept, OwnersKept, OthersFree, Touched
<1>5. DiskKept'
  <2>1. disk'.list = entry' /\ \A r \in Elements(entry') : Has(entry', r.acct)
    BY <1>1 DEF Stored, Has
  <2> QED
    BY <1>4, <2>1 DEF EntryKept, DiskKept, OthersFree
<1>6. refs' # refs
  <2>1. PICK a \in link.accounts : a \in Accounts
    BY <1>1 DEF Kept, LinkKept, TypeOK
  <2>2. refs'[a] = link.uid /\ refs[a] < link.uid /\ refs[a] \in Nat
    BY <1>1, <2>1 DEF Kept, LinkKept, TypeOK
  <2>3. refs'[a] # refs[a]
    BY <2>2
  <2> QED
    BY <2>3
<1>7. live \in Managers => reload' /\ mgr[live].phase = "ready"
  <2> SUFFICES ASSUME live \in Managers PROVE reload' /\ mgr[live].phase = "ready"
    OBVIOUS
  <2>1. mgr[live].phase = "ready" /\ signature.refs = refs
    BY <1>1 DEF Kept, Alone, LiveKept
  <2> QED
    BY <1>1, <1>6, <2>1, NotifyFacts
<1>8. Alone'
  BY <1>1, <1>7, NotifyFacts DEF Kept, Alone, Busy
<1>9. LiveKept'
  BY <1>1, <1>7 DEF Kept, LiveKept, Settled
<1>10. RoundKept' /\ ServiceKept'
  BY <1>1 DEF RoundKept, ServiceKept, Busy
<1> QED
  BY <1>4, <1>5, <1>8, <1>9, <1>10 DEF Kept

\* A write through async_set_accounts with the owners as assigned, while nobody else
\* holds a list that is about to change.
LEMMA WriteKept ==
  ASSUME TypeOK, TypeOK', Kept, NEW m \in Managers, Ready(m), ~InFlightBut(m),
         NEW fields \in ManagerStates, fields.phase = mgr[m].phase, fields.svc = mgr[m].svc,
         ~fields.round.on \/ fields.round = mgr[m].round,
         NEW list \in Seq(Record), NEW more, SetAccounts(m, fields, list, more),
         UNCHANGED <<refs, live, signature, link>>, Single(list), Current(list),
         \A r \in Elements(list) : r.acct \in forgotten' \/ r.owner = assigned'[r.acct],
         \A a \in Accounts : ~Has(list, a) => a \in forgotten' \/ assigned'[a] = Nobody,
         entry' = entry /\ disk' = disk => OthersFree(disk.list)',
         \A r \in mgr[m].round.mine :
           fields.round.on /\ r.acct \in fields.round.todo \ Cards /\ Has(mgr[m].list, r.acct)
             => Has(list, r.acct)
  PROVE  Kept'
<1>1. /\ m = live /\ mgr[m].phase \in {"reconciled", "ready"} /\ mgr[m] \in ManagerStates
      /\ ~reload /\ ~link.on
  BY AtRest
<1> DEFINE after == Holding(fields, list)
<1>2. ibans' \subseteq (Accounts \X (0 .. MaxObject))
  BY DEF TypeOK
<1>3. /\ Settle(m, after)
      /\ \/ entry' = entry /\ disk' = disk
         \/ entry' = list /\ disk'.list = list
      /\ Alike(list, entry') /\ (alias' = m => entry' = list)
      /\ reload' => reload \/ mgr[live].phase = "ready"
  BY <1>2, SetFacts
<1>4. /\ after \in ManagerStates /\ after.phase = mgr[m].phase /\ after.list = list
      /\ after.round = fields.round /\ after.svc.on = mgr[m].svc.on /\ ~after.svc.tied
      /\ after.svc.src = mgr[m].svc.src /\ after.svc.out = mgr[m].svc.out
  BY HoldingTyped
<1> HIDE DEF after
<1>5. mgr'[m] = after /\ \A n \in Managers : n # m => mgr'[n] = mgr[n]
  BY <1>1, <1>3, <1>4, SettleTyped
<1>6. /\ Single(entry') /\ \A a : Has(list, a) <=> Has(entry', a)
      /\ \A r \in Elements(entry') : \E q \in Elements(list) :
           r.acct = q.acct /\ r.uid = q.uid /\ r.owner = q.owner
  BY <1>3, AlikeFacts
<1>7. OwnersKept(entry)' /\ OthersFree(entry)'
  BY <1>6 DEF OwnersKept, OthersFree
<1>8. EntryKept' /\ LinkKept'
  <2>1. ~link'.on
    BY <1>1
  <2>2. \A r \in Elements(entry') : refs'[r.acct] # 0 => r.uid = refs'[r.acct]
    BY <1>6 DEF Current
  <2> QED
    BY <1>6, <1>7, <2>1, <2>2 DEF EntryKept, LinkKept, Touched
<1>9. DiskKept'
  <2>1. CASE entry' = entry /\ disk' = disk
    BY <2>1 DEF Kept, DiskKept
  <2>2. CASE entry' = list /\ disk'.list = list
    <3>1. \A r \in Elements(entry') : Has(entry', r.acct)
      BY DEF Has
    <3> QED
      BY <1>6, <1>7, <2>2, <3>1 DEF DiskKept, OthersFree
  <2> QED
    BY <1>3, <2>1, <2>2
<1>10. Alone'
  BY <1>1, <1>3, <1>4, <1>5 DEF Kept, Alone, Busy
<1>11. LiveKept'
  <2>1. /\ mgr'[live'].list = list /\ mgr'[live'].phase = mgr[m].phase
    BY <1>1, <1>4, <1>5
  <2>2. /\ \A r \in Elements(list) : refs'[r.acct] # 0 => r.uid = refs'[r.acct]
    BY DEF Current
  <2>3. mgr[m].phase = "ready" => signature'.refs = refs'
    BY <1>1 DEF Kept, LiveKept
  <2> QED
    BY <1>1, <1>3, <1>6, <2>1, <2>2, <2>3 DEF LiveKept, Settled, OwnersKept, OthersFree, Current
<1>12. RoundKept'
  <2> SUFFICES ASSUME fields.round.on, NEW r \in fields.round.mine, r.acct \in fields.round.todo \ Cards
               PROVE  IF Has(list, r.acct) THEN Has(entry', r.acct)
                      ELSE r.owner = Nobody /\ r.uid = refs[r.acct]
    BY <1>1, <1>4, <1>5 DEF RoundKept
  <2>1. ~Has(list, r.acct) => ~Has(mgr[m].list, r.acct)
    OBVIOUS
  <2>2. ~Has(mgr[m].list, r.acct) => r.owner = Nobody /\ r.uid = refs[r.acct]
    BY <1>1 DEF Kept, RoundKept
  <2> QED
    BY <1>6, <2>1, <2>2
<1>13. ServiceKept'
  <2>1. after.svc.on => Walked(mgr[m].svc)
    BY <1>1, <1>4 DEF Kept, ServiceKept
  <2>2. after.svc.on => Walked(after.svc)
    BY <1>4, <2>1 DEF Walked
  <2> QED
    BY <1>1, <1>4, <1>5, <2>2 DEF ServiceKept
<1> QED
  BY <1>8, <1>9, <1>10, <1>11, <1>12, <1>13 DEF Kept

LEMMA FlagSavingsKept ==
  ASSUME TypeOK, TypeOK', Kept, NEW m \in Managers, NEW more, FlagSavings(m, more), ~crossed'
  PROVE  Kept'
<1> DEFINE list == Copies(mgr[m].list, objects + 1)
<1>1. /\ Ready(m) /\ ~InFlightBut(m) /\ objects < MaxObject /\ SetAccounts(m, mgr[m], list, more)
      /\ UNCHANGED <<refs, live, signature, link, assigned, forgotten>>
  BY DEF FlagSavings
<1>2. /\ mgr[m].list \in Seq(Record) /\ mgr[m] \in ManagerStates /\ objects + 1 \in 0 .. MaxObject
  BY <1>1, ManagerTyped, AccountsAssumption DEF TypeOK
<1>3. list \in Seq(Record) /\ Alike(mgr[m].list, list)
  <2>1. DOMAIN list = DOMAIN mgr[m].list
    BY DEF Copies
  <2> QED
    BY <1>2, <2>1, CopiesTyped DEF Alike
<1> HIDE DEF list
<1>4. /\ OwnersKept(mgr[m].list) /\ OthersFree(mgr[m].list) /\ Current(mgr[m].list)
      /\ Single(mgr[m].list)
  BY <1>1, AtRest
<1>5. Single(list) /\ Current(list) /\ \A a : Has(mgr[m].list, a) <=> Has(list, a)
  BY <1>3, <1>4, AlikeFacts DEF Current
<1>6. \A r \in Elements(list) : r.acct \in forgotten' \/ r.owner = assigned'[r.acct]
  BY <1>1, <1>3, <1>4, AlikeFacts DEF OwnersKept
<1>7. \A a \in Accounts : ~Has(list, a) => a \in forgotten' \/ assigned'[a] = Nobody
  BY <1>1, <1>4, <1>5 DEF OthersFree
<1>8. entry' = entry /\ disk' = disk => OthersFree(disk.list)'
  BY <1>1 DEF Kept, DiskKept, OthersFree
<1> QED
  BY <1>1, <1>2, <1>3, <1>5, <1>6, <1>7, <1>8, WriteKept

\* An account and its key name the same record, also where a card's details do not
\* repeat what identifies it: the list has one record of an account.
LEMMA AssignKept ==
  ASSUME TypeOK, TypeOK', Kept, NEW m \in Managers, NEW key, NEW owner \in Owners \cup {Nobody},
         NEW more, Assign(m, key, owner, more), ~crossed'
  PROVE  Kept'
<1> DEFINE list == Reassigned(key, owner)
<1>1. /\ Ready(m) /\ ~InFlightBut(m) /\ objects < MaxObject /\ SetAccounts(m, mgr[m], list, more)
      /\ key \in Keys(entry) /\ assigned' = [assigned EXCEPT ![key[1]] = owner]
      /\ forgotten' = forgotten \ {key[1]}
      /\ UNCHANGED <<refs, live, signature, link>>
  BY DEF Assign, Reassigned
<1>2. /\ list \in Seq(Record) /\ DOMAIN list = DOMAIN entry
      /\ \A i \in DOMAIN entry :
           /\ list[i].acct = entry[i].acct /\ list[i].uid = entry[i].uid
           /\ list[i].owner = IF Key(entry[i]) = key THEN owner ELSE entry[i].owner
  BY <1>1, ReassignedFacts
<1> HIDE DEF list
<1>3. /\ entry \in Seq(Record) /\ ~link.on /\ ~reload /\ mgr[m] \in ManagerStates
      /\ Single(entry) /\ OwnersKept(entry) /\ OthersFree(entry)
  BY <1>1, AtRest DEF Kept, EntryKept, TypeOK
<1>4. \A i \in DOMAIN entry : entry[i] \in Record /\ entry[i].acct \in Accounts
                              /\ Key(entry[i])[1] = entry[i].acct
  BY <1>3, ListTyped, RecordTyped
<1>5. PICK k \in DOMAIN entry : key = Key(entry[k])
  BY <1>1 DEF Keys, Elements
<1>6. key[1] = entry[k].acct /\ entry[k].acct \in Accounts
  BY <1>4, <1>5
<1>7. \A i \in DOMAIN entry : Key(entry[i]) = key <=> entry[i].acct = key[1]
  BY <1>3, <1>4, <1>5, <1>6 DEF Single
<1>8. \A r \in Elements(list) : r.acct \in forgotten' \/ r.owner = assigned'[r.acct]
  <2> SUFFICES ASSUME NEW i \in DOMAIN entry
               PROVE  list[i].acct \in forgotten' \/ list[i].owner = assigned'[list[i].acct]
    BY <1>2 DEF Elements
  <2>1. entry[i].acct \in forgotten \/ entry[i].owner = assigned[entry[i].acct]
    BY <1>3 DEF OwnersKept, Elements
  <2> QED
    BY <1>1, <1>2, <1>4, <1>6, <1>7, <2>1 DEF TypeOK
<1>9. Single(list) /\ Current(list)
  <2>1. \A r \in Elements(entry) : refs[r.acct] # 0 => r.uid = refs[r.acct]
    BY <1>3 DEF Kept, EntryKept, Touched
  <2> QED
    BY <1>2, <1>3, <2>1 DEF Single, Current, Elements
<1>10. \A a : Has(entry, a) <=> Has(list, a)
  BY <1>2 DEF Has, Elements
<1>11. ASSUME NEW a \in Accounts, ~Has(list, a) PROVE a \in forgotten' \/ assigned'[a] = Nobody
  <2>1. ~Has(entry, a)
    BY <1>10, <1>11
  <2>2. (a \in forgotten \/ assigned[a] = Nobody) /\ a # key[1]
    BY <1>3, <1>5, <1>6, <2>1 DEF OthersFree, Has, Elements
  <2> QED
    BY <1>1, <2>2 DEF TypeOK
<1>12. ASSUME entry' = entry, disk' = disk PROVE OthersFree(disk.list)'
  <2> SUFFICES ASSUME NEW a \in Accounts, ~Has(disk.list, a)
               PROVE  a \in forgotten' \/ assigned'[a] = Nobody
    BY <1>12 DEF OthersFree
  <2>1. a \in forgotten \/ assigned[a] = Nobody
    BY DEF Kept, DiskKept, OthersFree
  <2>2. CASE a = key[1]
    <3>1. ibans' \subseteq (Accounts \X (0 .. MaxObject))
      BY DEF TypeOK
    <3>2. Alike(list, entry)
      BY <1>1, <1>2, <1>3, <1>12, <3>1, SetFacts
    <3>3. entry[k].owner = owner
      BY <1>2, <1>5, <3>2 DEF Alike
    <3>4. entry[k].owner = Nobody
      BY <1>6, <2>2 DEF Kept, DiskKept, Elements
    <3> QED
      BY <1>1, <1>6, <2>2, <3>3, <3>4 DEF TypeOK
  <2>3. CASE a # key[1]
    BY <1>1, <2>1, <2>3 DEF TypeOK
  <2> QED
    BY <2>2, <2>3
<1>13. ASSUME NEW r \in mgr[m].round.mine, mgr[m].round.on, r.acct \in mgr[m].round.todo \ Cards,
              Has(mgr[m].list, r.acct)
       PROVE  Has(list, r.acct)
  <2>1. m = live
    BY <1>1 DEF Ready
  <2>2. Has(entry, r.acct)
    BY <1>3, <1>13, <2>1 DEF Kept, RoundKept
  <2> QED
    BY <1>10, <2>2
<1> QED
  BY <1>1, <1>2, <1>3, <1>8, <1>9, <1>11, <1>12, <1>13, WriteKept

\* A round or the service goes on in the live manager, without touching a list.
LEMMA RunsKept ==
  ASSUME Kept, live \in Managers,
         UNCHANGED <<entry, disk, alias, refs, live, signature, reload, link, assigned, forgotten>>,
         \A n \in Managers : n # live => mgr'[n] = mgr[n],
         mgr'[live].phase = mgr[live].phase, mgr'[live].list = mgr[live].list,
         Ahead(live) => mgr'[live].round.on /\ mgr'[live].round.enriched
  PROVE  EntryKept' /\ DiskKept' /\ LinkKept' /\ LiveKept'
<1>1. EntryKept' /\ DiskKept' /\ LinkKept'
  BY SameEntry
<1>2. Referenced' = Referenced
  BY DEF Referenced
<1>3. LiveKept'
  BY <1>2 DEF Kept, LiveKept, Settled, Ahead, OwnersKept, OthersFree, Current
<1> QED
  BY <1>1, <1>3

\* What runs, runs of the live manager.
LEMMA RunsLive ==
  ASSUME TypeOK, Kept, NEW m \in Managers, Busy(m)
  PROVE  /\ m = live /\ mgr[m] \in ManagerStates /\ mgr[m].phase \in {"reconciled", "ready"}
         /\ ~link.on /\ Single(mgr[m].list)
<1>1. m = live
  BY DEF Kept, Alone, Busy, Gone, NoRound, NoService
<1>2. mgr[m].phase \in {"reconciled", "ready"} /\ ~link.on
  BY <1>1 DEF Kept, Alone
<1> QED
  BY <1>1, <1>2 DEF Kept, LiveKept, TypeOK

LEMMA StartRoundKept ==
  ASSUME TypeOK, Kept, NEW m \in Managers, StartRound(m), ~crossed'
  PROVE  Kept'
<1> DEFINE mine == {ForRef(mgr[m].list, a, objects + 1) : a \in Referenced}
           todo == {r.acct : r \in {q \in mine : ~HasIban(q)}}
           round == [on |-> TRUE, mine |-> mine, enriched |-> FALSE, todo |-> todo]
<1>1. /\ Ready(m) /\ ~mgr[m].round.on /\ ~InFlightBut(m) /\ mgr' = [mgr EXCEPT ![m].round = round]
      /\ UNCHANGED <<entry, disk, alias, refs, live, signature, reload, link, assigned, forgotten>>
  BY DEF StartRound
<1>2. /\ m = live /\ live \in Managers /\ ~reload /\ ~link.on /\ Settled
      /\ mgr[m].phase \in {"reconciled", "ready"}
      /\ mgr[m] \in ManagerStates /\ mgr[m].list \in Seq(Record)
  BY <1>1, AtRest
<1>3. \A a : Has(mgr[m].list, a) => Has(entry, a)
  BY <1>1, <1>2 DEF Kept, LiveKept, Ahead
<1>4. round.mine = mine /\ round.on
  OBVIOUS
<1>5. ASSUME NEW r \in mine, r.acct \notin Cards
      PROVE  IF Has(mgr[m].list, r.acct) THEN Has(entry, r.acct)
             ELSE r.owner = Nobody /\ r.uid = refs[r.acct]
  <2>1. PICK a \in Referenced : r = ForRef(mgr[m].list, a, objects + 1)
    BY <1>5
  <2>2. r \in Elements(mgr[m].list) \/ r = Bare(a, objects + 1)
    BY <1>2, <2>1, ForRefPicks
  <2>3. CASE r \in Elements(mgr[m].list)
    BY <1>3, <2>3 DEF Has
  <2>4. CASE r = Bare(a, objects + 1)
    <3>1. r.acct = a /\ r.owner = Nobody /\ r.uid = refs[a]
      BY <2>4 DEF Bare
    <3> QED
      BY <1>3, <3>1
  <2> QED
    BY <2>2, <2>3, <2>4
<1> HIDE DEF mine, round
<1>6. /\ mgr'[m] = [mgr[m] EXCEPT !.round = round]
      /\ \A n \in Managers : n # m => mgr'[n] = mgr[n]
  BY <1>1 DEF TypeOK
<1>7. /\ mgr'[m].phase = mgr[m].phase /\ mgr'[m].list = mgr[m].list /\ mgr'[m].svc = mgr[m].svc
      /\ mgr'[m].round = round
  BY <1>2, <1>6 DEF ManagerStates
<1>8. EntryKept' /\ DiskKept' /\ LinkKept' /\ LiveKept'
  BY <1>1, <1>2, <1>6, <1>7, RunsKept DEF Ahead
<1>9. Alone'
  BY <1>1, <1>2, <1>6, <1>7 DEF Kept, Alone, Busy
<1>10. RoundKept'
  BY <1>1, <1>2, <1>4, <1>5, <1>7 DEF RoundKept
<1>11. ServiceKept'
  BY <1>1, <1>2, <1>7 DEF Kept, ServiceKept
<1> QED
  BY <1>8, <1>9, <1>10, <1>11 DEF Kept

LEMMA NotEnrichedKept ==
  ASSUME TypeOK, Kept, NEW m \in Managers, NEW a, NotEnriched(m, a)
  PROVE  Kept'
<1>1. /\ mgr[m].round.on /\ mgr' = [mgr EXCEPT ![m].round.todo = @ \ {a}]
      /\ UNCHANGED <<entry, disk, alias, refs, live, signature, reload, link, assigned, forgotten>>
  BY DEF NotEnriched
<1>2. /\ m = live /\ mgr[m] \in ManagerStates /\ mgr[m].phase \in {"reconciled", "ready"} /\ ~link.on
  BY <1>1, RunsLive DEF Busy
<1> DEFINE round == [mgr[m].round EXCEPT !.todo = @ \ {a}]
<1>3. /\ mgr'[m] = [mgr[m] EXCEPT !.round = round]
      /\ \A n \in Managers : n # m => mgr'[n] = mgr[n]
  <2>1. /\ mgr'[m] = [mgr[m] EXCEPT !.round.todo = @ \ {a}]
        /\ \A n \in Managers : n # m => mgr'[n] = mgr[n]
    BY <1>1 DEF TypeOK
  <2> QED
    BY <1>2, <2>1 DEF ManagerStates, Rounds
<1>4. /\ round.on /\ round.mine = mgr[m].round.mine /\ round.todo \subseteq mgr[m].round.todo
      /\ round.enriched = mgr[m].round.enriched
  BY <1>1, <1>2 DEF ManagerStates, Rounds
<1> HIDE DEF round
<1>5. /\ mgr'[m].phase = mgr[m].phase /\ mgr'[m].list = mgr[m].list /\ mgr'[m].svc = mgr[m].svc
      /\ mgr'[m].round = round
  BY <1>2, <1>3 DEF ManagerStates
<1>6. EntryKept' /\ DiskKept' /\ LinkKept' /\ LiveKept'
  BY <1>1, <1>2, <1>3, <1>4, <1>5, RunsKept DEF Ahead
<1>7. Alone'
  BY <1>1, <1>2, <1>3, <1>5 DEF Kept, Alone, Busy
<1>8. RoundKept'
  BY <1>1, <1>2, <1>4, <1>5 DEF Kept, RoundKept
<1>9. ServiceKept'
  BY <1>1, <1>2, <1>5 DEF Kept, ServiceKept
<1> QED
  BY <1>6, <1>7, <1>8, <1>9 DEF Kept

\* An enriched record joins the list where the account had none.
LEMMA EnrichKept ==
  ASSUME TypeOK, Kept, NEW m \in Managers, NEW r \in mgr[m].round.mine, Enrich(m, r), ~crossed'
  PROVE  Kept'
<1> DEFINE L == mgr[m].list
           grown(list) == IF \E q \in Elements(list) : q.acct = r.acct /\ q.obj = r.obj
                          THEN list ELSE Append(list, r)
           round == [mgr[m].round EXCEPT !.todo = @ \ {r.acct}, !.enriched = TRUE]
           svc == [mgr[m].svc EXCEPT !.src = IF mgr[m].svc.tied THEN grown(L) ELSE @]
<1>1. /\ mgr[m].round.on /\ r.acct \in mgr[m].round.todo \ Cards
      /\ mgr' = [mgr EXCEPT ![m].round.todo = @ \ {r.acct}, ![m].round.enriched = TRUE,
                            ![m].list = grown(@),
                            ![m].svc.src = IF mgr[m].svc.tied THEN grown(L) ELSE @]
      /\ entry' = IF alias = m THEN grown(entry) ELSE entry
      /\ ~Outdated(m, r)
      /\ UNCHANGED <<disk, alias, refs, live, signature, reload, link, assigned, forgotten>>
  BY DEF Enrich
<1>2. /\ m = live /\ mgr[m] \in ManagerStates /\ mgr[m].phase \in {"reconciled", "ready"} /\ ~link.on
      /\ Single(L)
  BY <1>1, RunsLive DEF Busy
<1>3. L \in Seq(Record) /\ r \in Record /\ (alias = m => L = entry)
  BY <1>2, ManagerTyped DEF Kept, LiveKept
<1>4. /\ mgr'[m] = [mgr[m] EXCEPT !.round = round, !.list = grown(L), !.svc = svc]
      /\ \A n \in Managers : n # m => mgr'[n] = mgr[n]
  <2> HIDE DEF grown
  <2>1. /\ mgr'[m] = [mgr[m] EXCEPT !.round.todo = @ \ {r.acct}, !.round.enriched = TRUE,
                                    !.list = grown(@),
                                    !.svc.src = IF mgr[m].svc.tied THEN grown(L) ELSE @]
        /\ \A n \in Managers : n # m => mgr'[n] = mgr[n]
    BY <1>1 DEF TypeOK
  <2> QED
    BY <1>2, <2>1 DEF ManagerStates, Rounds, Services
<1>5. /\ round.on /\ round.enriched /\ round.mine = mgr[m].round.mine
      /\ round.todo = mgr[m].round.todo \ {r.acct}
  <2> HIDE DEF grown
  <2> QED
    BY <1>1, <1>2 DEF ManagerStates, Rounds
<1>6. /\ svc.on = mgr[m].svc.on /\ svc.tied = mgr[m].svc.tied /\ svc.out = mgr[m].svc.out
      /\ svc.src = IF mgr[m].svc.tied THEN grown(L) ELSE mgr[m].svc.src
  <2> HIDE DEF grown
  <2> QED
    BY <1>2 DEF ManagerStates, Services
<1>7. \/ grown(L) = L
      \/ grown(L) = Append(L, r) /\ ~Has(L, r.acct)
  BY <1>1 DEF Outdated, Has
<1>8. \A q \in mgr[m].round.mine : q.acct \in mgr[m].round.todo \ Cards =>
        IF Has(L, q.acct) THEN reload \/ Has(entry, q.acct)
        ELSE q.owner = Nobody /\ q.uid = refs[q.acct]
  <2>1. RoundKept /\ live \in Managers /\ mgr[live].round.on
    BY <1>1, <1>2 DEF Kept
  <2> HIDE DEF grown, round, svc
  <2> QED
    BY <1>2, <2>1 DEF RoundKept
<1> DEFINE G == grown(L)
<1>9. entry' = IF alias = m THEN G ELSE entry
  BY <1>1, <1>3
<1> HIDE DEF round, svc, G
<1>10. /\ mgr'[m].phase = mgr[m].phase /\ mgr'[m].list = G /\ mgr'[m].svc = svc
       /\ mgr'[m].round = round
  BY <1>2, <1>4 DEF ManagerStates, G
<1>11. r.acct \in Accounts
  BY <1>3, RecordTyped
<1>12. \/ G = L
       \/ /\ ~Has(L, r.acct) /\ r.owner = Nobody /\ r.uid = refs[r.acct]
          /\ Elements(G) = Elements(L) \cup {r} /\ Len(G) = Len(L) + 1 /\ Len(L) \in Nat
          /\ DOMAIN L = 1 .. Len(L) /\ DOMAIN G = 1 .. Len(L) + 1
          /\ \A i \in 1 .. Len(L) : G[i] = L[i]
          /\ G[Len(L) + 1] = r
  <2> SUFFICES ASSUME G = Append(L, r), ~Has(L, r.acct)
               PROVE  /\ ~Has(L, r.acct) /\ r.owner = Nobody /\ r.uid = refs[r.acct]
                      /\ Elements(G) = Elements(L) \cup {r} /\ Len(G) = Len(L) + 1 /\ Len(L) \in Nat
                      /\ DOMAIN L = 1 .. Len(L) /\ DOMAIN G = 1 .. Len(L) + 1
                      /\ \A i \in 1 .. Len(L) : G[i] = L[i]
                      /\ G[Len(L) + 1] = r
    BY <1>7 DEF G
  <2>1. r.owner = Nobody /\ r.uid = refs[r.acct]
    BY <1>1, <1>8
  <2> HIDE DEF L, grown
  <2>2. /\ G \in Seq(Record) /\ Elements(G) = Elements(L) \cup {r} /\ Len(G) = Len(L) + 1
        /\ \A i \in 1 .. Len(L) : G[i] = L[i]
        /\ G[Len(L) + 1] = r
    BY <1>3, AppendTyped
  <2>3. Len(L) \in Nat /\ DOMAIN L = 1 .. Len(L) /\ DOMAIN G = 1 .. Len(L) + 1
    BY <1>3, <2>2
  <2> QED
    BY <2>1, <2>2, <2>3
<1> HIDE DEF grown
<1>13. Single(G)
  <2>1. CASE G = L
    BY <1>2, <2>1
  <2>2. CASE G # L
    <3> HIDE DEF L
    <3>1. \A i \in 1 .. Len(L) : L[i].acct # r.acct
      BY <1>12, <2>2 DEF Has, Elements
    <3>2. ASSUME NEW i \in DOMAIN G, NEW j \in DOMAIN G, G[i].acct = G[j].acct PROVE i = j
      <4>1. CASE i \in 1 .. Len(L) /\ j \in 1 .. Len(L)
        BY <1>2, <1>12, <2>2, <3>2, <4>1 DEF Single
      <4>2. CASE i = Len(L) + 1 /\ j \in 1 .. Len(L)
        BY <1>12, <2>2, <3>1, <3>2, <4>2
      <4>3. CASE j = Len(L) + 1 /\ i \in 1 .. Len(L)
        BY <1>12, <2>2, <3>1, <3>2, <4>3
      <4> QED
        BY <1>12, <2>2, <4>1, <4>2, <4>3
    <3> QED
      BY <3>2 DEF Single
  <2> QED
    BY <2>1, <2>2
<1>14. \A a : Has(L, a) \/ (G # L /\ a = r.acct) <=> Has(G, a)
  BY <1>12 DEF Has
<1>15. /\ OwnersKept(L) /\ OthersFree(L) => OwnersKept(G) /\ OthersFree(G)
       /\ Current(L) => Current(G)
  BY <1>11, <1>12 DEF OwnersKept, OthersFree, Current, Has
<1>16. EntryKept' /\ LinkKept'
  <2>1. CASE alias = m
    <3>1. entry' = G /\ L = entry
      BY <1>3, <1>9, <2>1
    <3>2. OwnersKept(L) /\ OthersFree(L) /\ Current(L)
      BY <1>2, <3>1 DEF Kept, EntryKept, Current, Touched
    <3>3. OwnersKept(G) /\ OthersFree(G) /\ Current(G)
      BY <1>15, <3>2
    <3> QED
      BY <1>1, <1>2, <1>13, <3>1, <3>3
      DEF EntryKept, LinkKept, OwnersKept, OthersFree, Current, Touched
  <2>2. CASE alias # m
    <3>1. entry' = entry
      BY <1>9, <2>2
    <3> QED
      BY <1>1, <3>1, SameEntry
  <2> QED
    BY <2>1, <2>2
<1>17. /\ Elements(entry) \subseteq Elements(entry')
       /\ \A q \in Elements(entry') : q \in Elements(entry) \/ q.owner = Nobody
  BY <1>3, <1>9, <1>12
<1>18. DiskKept'
  <2>1. OthersFree(disk.list)' /\ Single(disk'.list) /\ disk' = disk
    BY <1>1 DEF Kept, DiskKept, OthersFree
  <2> QED
    BY <1>17, <2>1 DEF Kept, DiskKept
<1>19. Alone'
  BY <1>1, <1>2, <1>4, <1>10 DEF Kept, Alone, Busy
<1>20. LiveKept'
  <2>1. /\ mgr'[live'].phase = mgr[live].phase /\ mgr'[live'].list = G
        /\ mgr'[live'].round.on /\ mgr'[live'].round.enriched
    BY <1>1, <1>2, <1>5, <1>10
  <2>2. alias' = live' => entry' = G
    BY <1>1, <1>2, <1>9
  <2>3. Settled => OwnersKept(L) /\ OthersFree(L) /\ Current(L)
    BY <1>2 DEF Kept, LiveKept
  <2>4. Settled' => OwnersKept(G) /\ OthersFree(G) /\ Current(G)
    <3>1. Settled' => Settled
      BY <1>1, <2>1 DEF Settled
    <3> QED
      BY <1>15, <2>3, <3>1
  <2>5. mgr'[live'].phase = "ready" /\ ~reload' => signature'.refs = refs'
    BY <1>1, <1>2, <2>1 DEF Kept, LiveKept
  <2>6. mgr'[live'].phase \in {"reconciled", "ready"}
    BY <1>2, <2>1
  <2> HIDE DEF L
  <2> QED
    BY <1>1, <1>2, <1>13, <2>1, <2>2, <2>4, <2>5, <2>6
    DEF LiveKept, Ahead, OwnersKept, OthersFree, Current
<1>21. RoundKept'
  <2> SUFFICES ASSUME NEW q \in round.mine, q.acct \in round.todo \ Cards
               PROVE  IF Has(G, q.acct) THEN reload \/ Has(entry', q.acct)
                      ELSE q.owner = Nobody /\ q.uid = refs[q.acct]
    BY <1>1, <1>2, <1>10 DEF RoundKept
  <2>1. IF Has(L, q.acct) THEN reload \/ Has(entry, q.acct)
        ELSE q.owner = Nobody /\ q.uid = refs[q.acct]
    BY <1>5, <1>8
  <2>2. q.acct # r.acct
    BY <1>5
  <2>3. Has(entry, q.acct) => Has(entry', q.acct)
    BY <1>17 DEF Has
  <2> QED
    BY <1>14, <2>1, <2>2, <2>3
<1>22. ServiceKept'
  <2> SUFFICES ASSUME svc.on PROVE (svc.tied => svc.src = G) /\ Walked(svc)
    BY <1>1, <1>2, <1>10 DEF ServiceKept
  <2>1. /\ mgr[m].svc.tied => mgr[m].svc.src = L
        /\ Walked(mgr[m].svc)
    BY <1>2, <1>6 DEF Kept, ServiceKept
  <2>2. svc.src = IF mgr[m].svc.tied THEN G ELSE mgr[m].svc.src
    BY <1>6 DEF G
  <2>3. svc.out \in Seq(Record) /\ Len(svc.out) \in Nat /\ DOMAIN svc.out = 1 .. Len(svc.out)
    <3>1. mgr[m].svc.out \in Seq(Record)
      BY <1>2, ManagerTyped
    <3> QED
      BY <1>6, <3>1, ListTyped
  <2> HIDE DEF L
  <2>4. CASE svc.src = mgr[m].svc.src
    BY <1>6, <2>1, <2>2, <2>4 DEF Walked
  <2>5. CASE mgr[m].svc.tied /\ G # L
    <3>1. Len(svc.out) <= Len(L) /\ \A i \in 1 .. Len(svc.out) : i \in 1 .. Len(L)
      BY <1>6, <1>12, <2>1, <2>3, <2>5 DEF Walked
    <3> QED
      BY <1>6, <1>12, <2>1, <2>2, <2>3, <2>5, <3>1 DEF Walked
  <2>6. CASE mgr[m].svc.tied /\ G = L
    BY <1>6, <2>1, <2>2, <2>6 DEF Walked
  <2> QED
    BY <2>2, <2>4, <2>5, <2>6
<1> QED
  BY <1>16, <1>18, <1>19, <1>20, <1>21, <1>22 DEF Kept

LEMMA EndRoundKept ==
  ASSUME TypeOK, TypeOK', Kept, NEW m \in Managers, EndRound(m), ~crossed'
  PROVE  Kept'
<1> DEFINE L == mgr[m].list
           done == [mgr[m] EXCEPT !.round = NoRound]
<1>1. /\ mgr[m].round.on /\ UNCHANGED <<refs, ibans, live, signature, link, assigned, forgotten>>
      /\ IF mgr[m].round.enriched
         THEN SetAccounts(m, done, L, FALSE) /\ m = live /\ ~InFlightBut(m)
         ELSE Settle(m, done) /\ UNCHANGED <<entry, disk, alias, reload>>
  BY DEF EndRound
<1>2. /\ m = live /\ mgr[m] \in ManagerStates /\ mgr[m].phase \in {"reconciled", "ready"} /\ ~link.on
      /\ L \in Seq(Record)
  BY <1>1, RunsLive, ManagerTyped DEF Busy
<1>3. /\ done \in ManagerStates /\ done.phase = mgr[m].phase /\ done.list = L
      /\ ~done.round.on /\ done.svc = mgr[m].svc
  BY <1>2 DEF ManagerStates, Rounds, NoRound
<1> HIDE DEF done
<1>4. CASE mgr[m].round.enriched
  <2>1. Ready(m) /\ ~InFlightBut(m) /\ SetAccounts(m, done, L, FALSE)
    BY <1>1, <1>2, <1>4 DEF Ready
  <2>2. OwnersKept(L) /\ OthersFree(L) /\ Current(L) /\ Single(L)
    BY <2>1, AtRest
  <2>3. /\ \A r \in Elements(L) : r.acct \in forgotten' \/ r.owner = assigned'[r.acct]
        /\ \A a \in Accounts : ~Has(L, a) => a \in forgotten' \/ assigned'[a] = Nobody
    BY <1>1, <2>2 DEF OwnersKept, OthersFree
  <2>4. entry' = entry /\ disk' = disk => OthersFree(disk.list)'
    BY <1>1 DEF Kept, DiskKept, OthersFree
  <2> QED
    BY <1>1, <1>2, <1>3, <2>1, <2>2, <2>3, <2>4, WriteKept
<1>5. CASE ~mgr[m].round.enriched
  <2>1. Settle(m, done) /\ UNCHANGED <<entry, disk, alias, reload>>
    BY <1>1, <1>5
  <2>2. mgr'[m] = done /\ \A n \in Managers : n # m => mgr'[n] = mgr[n]
    BY <1>2, <1>3, <2>1, SettleTyped
  <2>3. EntryKept' /\ DiskKept' /\ LinkKept' /\ LiveKept'
    BY <1>1, <1>2, <1>3, <1>5, <2>1, <2>2, RunsKept DEF Ahead
  <2>4. Alone'
    BY <1>1, <1>2, <1>3, <2>1, <2>2 DEF Kept, Alone, Busy
  <2>5. RoundKept' /\ ServiceKept'
    BY <1>1, <1>2, <1>3, <2>2 DEF Kept, RoundKept, ServiceKept
  <2> QED
    BY <2>3, <2>4, <2>5 DEF Kept
<1> QED
  BY <1>4, <1>5

\* The service walks over the list that its manager holds, and ends with a list of
\* the same accounts, uids and owners.
LEMMA StartServiceKept ==
  ASSUME TypeOK, Kept, NEW m \in Managers, StartService(m), ~crossed'
  PROVE  Kept'
<1> DEFINE svc == [on |-> TRUE, src |-> mgr[m].list, tied |-> TRUE, out |-> <<>>, obj |-> objects + 1]
<1>1. /\ Ready(m) /\ ~mgr[m].svc.on /\ ~InFlightBut(m) /\ mgr' = [mgr EXCEPT ![m].svc = svc]
      /\ UNCHANGED <<entry, disk, alias, refs, live, signature, reload, link, assigned, forgotten>>
  BY DEF StartService
<1>2. /\ m = live /\ live \in Managers /\ ~reload /\ ~link.on
      /\ mgr[m].phase \in {"reconciled", "ready"} /\ mgr[m] \in ManagerStates
      /\ mgr[m].list \in Seq(Record)
  BY <1>1, AtRest
<1>3. /\ svc.src = mgr[m].list /\ svc.out = <<>>
  OBVIOUS
<1> HIDE DEF svc
<1>4. /\ mgr'[m] = [mgr[m] EXCEPT !.svc = svc]
      /\ \A n \in Managers : n # m => mgr'[n] = mgr[n]
  BY <1>1 DEF TypeOK
<1>5. /\ mgr'[m].phase = mgr[m].phase /\ mgr'[m].list = mgr[m].list /\ mgr'[m].round = mgr[m].round
      /\ mgr'[m].svc = svc
  BY <1>2, <1>4 DEF ManagerStates
<1>6. EntryKept' /\ DiskKept' /\ LinkKept' /\ LiveKept'
  BY <1>1, <1>2, <1>4, <1>5, RunsKept DEF Ahead
<1>7. Alone'
  BY <1>1, <1>2, <1>4, <1>5 DEF Kept, Alone, Busy
<1>8. RoundKept'
  BY <1>1, <1>2, <1>5 DEF Kept, RoundKept
<1>9. ServiceKept'
  <2>1. Len(svc.out) = 0 /\ DOMAIN svc.out = {} /\ Len(svc.out) <= Len(mgr[m].list)
    BY <1>2, <1>3
  <2> QED
    BY <1>1, <1>2, <1>3, <1>5, <2>1 DEF ServiceKept, Walked
<1> QED
  BY <1>6, <1>7, <1>8, <1>9 DEF Kept

LEMMA ServiceStepKept ==
  ASSUME TypeOK, Kept, NEW m \in Managers, NEW answered, ServiceStep(m, answered)
  PROVE  Kept'
<1> DEFINE svc == mgr[m].svc
           r == svc.src[Len(svc.out) + 1]
           detailed == [r EXCEPT !.data = "details", !.obj = svc.obj]
           next == IF answered THEN detailed ELSE r
           out == Append(svc.out, next)
           after == [svc EXCEPT !.out = out]
<1>1. /\ svc.on /\ Len(svc.out) < Len(svc.src)
      /\ mgr' = [mgr EXCEPT ![m].svc.out = Append(@, next)]
      /\ UNCHANGED <<entry, disk, alias, refs, live, signature, reload, link, assigned, forgotten>>
  BY DEF ServiceStep
<1>2. /\ m = live /\ mgr[m] \in ManagerStates /\ mgr[m].phase \in {"reconciled", "ready"} /\ ~link.on
  BY <1>1, RunsLive DEF Busy
<1>3. svc.src \in Seq(Record) /\ svc.out \in Seq(Record) /\ svc.obj \in 0 .. MaxObject
  BY <1>2, ManagerTyped
<1>4. (svc.tied => svc.src = mgr[m].list) /\ Walked(svc)
  BY <1>1, <1>2 DEF Kept, ServiceKept
<1>5. /\ next.acct = r.acct /\ next.uid = r.uid /\ next.owner = r.owner /\ next \in Record
  <2>1. r \in Record
    <3> HIDE DEF svc
    <3>1. Len(svc.out) < Len(svc.src) /\ Len(svc.out) \in Nat
      BY <1>1, <1>3 DEF svc
    <3> QED
      BY <1>3, <3>1
  <2> HIDE DEF r
  <2>2. detailed \in Record /\ detailed.acct = r.acct /\ detailed.uid = r.uid /\ detailed.owner = r.owner
    BY <1>3, <2>1 DEF Record
  <2> HIDE DEF detailed
  <2> QED
    BY <2>1, <2>2
<1> HIDE DEF next
<1>6. mgr'[m] = [mgr[m] EXCEPT !.svc = after] /\ \A n \in Managers : n # m => mgr'[n] = mgr[n]
  <2>1. /\ mgr'[m] = [mgr[m] EXCEPT !.svc.out = Append(@, next)]
        /\ \A n \in Managers : n # m => mgr'[n] = mgr[n]
    BY <1>1 DEF TypeOK
  <2> QED
    BY <1>2, <2>1 DEF ManagerStates, Services
<1>7. /\ Len(out) = Len(svc.out) + 1 /\ out[Len(svc.out) + 1] = next
      /\ \A i \in 1 .. Len(svc.out) : out[i] = svc.out[i]
      /\ DOMAIN out = 1 .. Len(svc.out) + 1 /\ DOMAIN svc.out = 1 .. Len(svc.out)
      /\ Len(svc.out) \in Nat /\ Len(svc.src) \in Nat
  <2> HIDE DEF svc
  <2>1. /\ out \in Seq(Record) /\ Len(out) = Len(svc.out) + 1 /\ out[Len(svc.out) + 1] = next
        /\ \A i \in 1 .. Len(svc.out) : out[i] = svc.out[i]
    BY <1>3, <1>5, AppendTyped
  <2> HIDE DEF out
  <2> QED
    BY <1>3, <2>1, ListTyped
<1> HIDE DEF out
<1>8. \A i \in DOMAIN out : /\ out[i].acct = svc.src[i].acct /\ out[i].uid = svc.src[i].uid
                            /\ out[i].owner = svc.src[i].owner
  <2> SUFFICES ASSUME NEW i \in 1 .. Len(svc.out) + 1
               PROVE  /\ out[i].acct = svc.src[i].acct /\ out[i].uid = svc.src[i].uid
                      /\ out[i].owner = svc.src[i].owner
    BY <1>7
  <2>1. CASE i = Len(svc.out) + 1
    BY <1>5, <1>7, <2>1
  <2>2. CASE i # Len(svc.out) + 1
    <3>1. i \in 1 .. Len(svc.out)
      BY <1>7, <2>2
    <3> QED
      BY <1>4, <1>7, <3>1 DEF Walked
  <2> QED
    BY <2>1, <2>2
<1>9. after.on /\ after.src = svc.src /\ after.out = out /\ after.tied = svc.tied
  BY <1>1, <1>2 DEF ManagerStates, Services
<1> HIDE DEF after
<1>10. /\ mgr'[m].phase = mgr[m].phase /\ mgr'[m].list = mgr[m].list /\ mgr'[m].round = mgr[m].round
       /\ mgr'[m].svc = after
  BY <1>2, <1>6 DEF ManagerStates
<1>11. EntryKept' /\ DiskKept' /\ LinkKept' /\ LiveKept'
  BY <1>1, <1>2, <1>6, <1>10, RunsKept DEF Ahead
<1>12. Alone'
  BY <1>1, <1>2, <1>6, <1>10 DEF Kept, Alone, Busy
<1>13. RoundKept'
  BY <1>1, <1>2, <1>10 DEF Kept, RoundKept
<1>14. Walked(after)
  <2>1. Len(out) <= Len(svc.src)
    <3> HIDE DEF svc
    <3> QED
      BY <1>1, <1>7
  <2> HIDE DEF svc
  <2> QED
    BY <1>8, <1>9, <2>1 DEF Walked
<1>15. ServiceKept'
  <2>1. after.tied => after.src = mgr[m].list
    BY <1>4, <1>9
  <2> QED
    BY <1>1, <1>2, <1>10, <1>14, <2>1 DEF ServiceKept
<1> QED
  BY <1>11, <1>12, <1>13, <1>15 DEF Kept

LEMMA EndServiceKept ==
  ASSUME TypeOK, Kept, NEW m \in Managers, EndService(m), ~crossed'
  PROVE  Kept'
<1> DEFINE L == mgr[m].list
           out == mgr[m].svc.out
           fields == [mgr[m] EXCEPT !.list = out, !.svc = NoService]
<1>1. /\ mgr[m].svc.on /\ Len(out) = Len(mgr[m].svc.src) /\ Settle(m, fields)
      /\ alias' = IF alias = m THEN NoManager ELSE alias
      /\ mgr[m].svc.src = L /\ ~InFlightBut(m)
      /\ UNCHANGED <<entry, disk, refs, live, signature, reload, link, assigned, forgotten>>
  BY DEF EndService
<1>2. /\ m = live /\ mgr[m] \in ManagerStates /\ mgr[m].phase \in {"reconciled", "ready"}
  BY <1>1, RunsLive DEF Busy
<1>3. /\ OwnersKept(L) /\ OthersFree(L) /\ Current(L) /\ Single(L) /\ Settled /\ ~link.on
  BY <1>1, <1>2, AtRest DEF Ready
<1>4. L \in Seq(Record) /\ out \in Seq(Record)
  BY <1>2, ManagerTyped
<1>5. Alike(L, out)
  <2>1. Walked(mgr[m].svc)
    BY <1>1, <1>2 DEF Kept, ServiceKept
  <2>2. DOMAIN L = DOMAIN out
    BY <1>1, <1>4
  <2> QED
    BY <1>1, <2>1, <2>2 DEF Alike, Walked
<1>6. fields \in ManagerStates /\ fields.phase = mgr[m].phase /\ fields.list = out
      /\ fields.round = mgr[m].round /\ ~fields.svc.on
  <2>1. NoService \in Services /\ ~NoService.on
    BY AccountsAssumption DEF Services, NoService
  <2> HIDE DEF out
  <2> QED
    BY <1>2, <1>4, <2>1 DEF ManagerStates
<1> HIDE DEF fields
<1>7. mgr'[m] = fields /\ \A n \in Managers : n # m => mgr'[n] = mgr[n]
  BY <1>1, <1>2, <1>6, SettleTyped
<1>8. \A a : Has(L, a) <=> Has(out, a)
  BY <1>5, AlikeFacts
<1>9. Single(out) /\ OwnersKept(out) /\ OthersFree(out) /\ Current(out)
  <2> HIDE DEF L, out
  <2> QED
    BY <1>3, <1>5, <1>8, AlikeFacts DEF OwnersKept, OthersFree, Current
<1>10. EntryKept' /\ DiskKept' /\ LinkKept'
  BY <1>1, SameEntry
<1>11. Alone'
  BY <1>1, <1>2, <1>6, <1>7 DEF Kept, Alone, Busy
<1>12. LiveKept'
  <2>1. /\ mgr'[live'].phase = mgr[m].phase /\ mgr'[live'].list = out
        /\ mgr'[live'].round = mgr[m].round
        /\ mgr[m].phase = "ready" /\ ~reload' => signature'.refs = refs'
    BY <1>1, <1>2, <1>6, <1>7 DEF Kept, LiveKept
  <2>2. alias' # live'
    BY <1>1, <1>2, AccountsAssumption
  <2>3. ~Ahead(live)' => \A a : Has(out, a) => Has(entry', a)
    <3>1. ~Ahead(m) => \A a : Has(L, a) => Has(entry, a)
      BY <1>2, <1>3 DEF Kept, LiveKept
    <3>2. Ahead(live)' = Ahead(m)
      BY <1>1, <1>2, <2>1 DEF Ahead
    <3> QED
      BY <1>1, <1>8, <3>1, <3>2
  <2>4. OwnersKept(out) /\ OthersFree(out) /\ Current(out) /\ Single(out)
    BY <1>9
  <2> HIDE DEF L, out
  <2> QED
    BY <1>1, <1>2, <2>1, <2>2, <2>3, <2>4 DEF LiveKept, OwnersKept, OthersFree, Current
<1>13. RoundKept'
  <2> HIDE DEF out
  <2> QED
    BY <1>1, <1>2, <1>6, <1>7, <1>8 DEF Kept, RoundKept
<1>14. ServiceKept'
  BY <1>1, <1>2, <1>6, <1>7 DEF ServiceKept
<1> QED
  BY <1>10, <1>11, <1>12, <1>13, <1>14 DEF Kept

-----------------------------------------------------------------------------
(* Every step keeps it, and what follows *)

LEMMA StepKept == AInv /\ [Next]_vars => AInv'
<1> SUFFICES ASSUME AInv, [Next]_vars PROVE AInv'
  OBVIOUS
<1>1. TypeOK /\ TypeOK'
  BY StepTyped DEF AInv
<1>2. crossed => crossed'
  <2>1. CASE Reload \/ StoreRefs
    BY <2>1 DEF Reload, StoreRefs
  <2>2. ASSUME NEW b, NEW reported, NEW uid, StoreRecords(b, reported, uid) PROVE crossed => crossed'
    BY <2>2 DEF StoreRecords
  <2>3. ASSUME NEW m, Load(m) \/ Adopt(m) \/ Reconcile(m) \/ FinishSetup(m) PROVE crossed => crossed'
    BY <2>3 DEF Load, Adopt, Reconcile, FinishSetup
  <2>4. ASSUME NEW m, NEW key, NEW owner, NEW more, Assign(m, key, owner, more) PROVE crossed => crossed'
    BY <2>4 DEF Assign
  <2>5. ASSUME NEW m, StartRound(m) \/ EndRound(m) PROVE crossed => crossed'
    BY <2>5 DEF StartRound, EndRound
  <2>6. ASSUME NEW m, NEW r, Enrich(m, r) \/ NotEnriched(m, r) PROVE crossed => crossed'
    BY <2>6 DEF Enrich, NotEnriched
  <2>7. ASSUME NEW m, NEW answered, StartService(m) \/ EndService(m) \/ ServiceStep(m, answered)
        PROVE  crossed => crossed'
    BY <2>7 DEF StartService, EndService, ServiceStep
  <2>8. ASSUME NEW m, NEW more, FlagSavings(m, more) PROVE crossed => crossed'
    BY <2>8 DEF FlagSavings
  <2>9. ASSUME NEW written, Stop(written) PROVE crossed => crossed'
    BY <2>9 DEF Stop
  <2>10. CASE UNCHANGED vars
    BY <2>10 DEF vars
  <2> QED
    BY <2>1, <2>2, <2>3, <2>4, <2>5, <2>6, <2>7, <2>8, <2>9, <2>10 DEF Next
<1> SUFFICES ASSUME ~crossed' PROVE Kept'
  BY <1>1 DEF AInv
<1>3. Kept
  BY <1>2 DEF AInv
<1>4. CASE Reload
  BY <1>1, <1>3, <1>4, ReloadKept
<1>5. ASSUME NEW written, Stop(written) PROVE Kept'
  BY <1>1, <1>3, <1>5, StopKept
<1>6. CASE StoreRefs
  BY <1>1, <1>3, <1>6, StoreRefsKept
<1>7. ASSUME NEW b, NEW reported \in SUBSET Accounts, NEW uid \in 1 .. MaxSession,
             StoreRecords(b, reported, uid)
      PROVE  Kept'
  BY <1>1, <1>3, <1>7, StoreRecordsKept
<1>8. ASSUME NEW m \in Managers, Load(m) PROVE Kept'
  BY <1>1, <1>3, <1>8, LoadKept
<1>9. ASSUME NEW m \in Managers, Adopt(m) PROVE Kept'
  BY <1>1, <1>3, <1>9, AdoptKept
<1>10. ASSUME NEW m \in Managers, Reconcile(m) PROVE Kept'
  BY <1>1, <1>3, <1>10, ReconcileKept
<1>11. ASSUME NEW m \in Managers, FinishSetup(m) PROVE Kept'
  BY <1>1, <1>3, <1>11, FinishSetupKept
<1>12. ASSUME NEW m \in Managers, NEW more, FlagSavings(m, more) PROVE Kept'
  BY <1>1, <1>3, <1>12, FlagSavingsKept
<1>13. ASSUME NEW m \in Managers, NEW key, NEW owner \in Owners \cup {Nobody}, NEW more,
              Assign(m, key, owner, more)
       PROVE  Kept'
  BY <1>1, <1>3, <1>13, AssignKept
<1>14. ASSUME NEW m \in Managers, StartRound(m) PROVE Kept'
  BY <1>1, <1>3, <1>14, StartRoundKept
<1>15. ASSUME NEW m \in Managers, EndRound(m) PROVE Kept'
  BY <1>1, <1>3, <1>15, EndRoundKept
<1>16. ASSUME NEW m \in Managers, NEW r \in mgr[m].round.mine, Enrich(m, r) PROVE Kept'
  BY <1>1, <1>3, <1>16, EnrichKept
<1>17. ASSUME NEW m \in Managers, NEW a, NotEnriched(m, a) PROVE Kept'
  BY <1>1, <1>3, <1>17, NotEnrichedKept
<1>18. ASSUME NEW m \in Managers, StartService(m) PROVE Kept'
  BY <1>1, <1>3, <1>18, StartServiceKept
<1>19. ASSUME NEW m \in Managers, EndService(m) PROVE Kept'
  BY <1>1, <1>3, <1>19, EndServiceKept
<1>20. ASSUME NEW m \in Managers, NEW answered, ServiceStep(m, answered) PROVE Kept'
  BY <1>1, <1>3, <1>20, ServiceStepKept
<1>21. CASE UNCHANGED vars
  <2>1. UNCHANGED <<entry, disk, alias, refs, live, mgr, signature, reload, link, assigned, forgotten>>
    BY <1>21 DEF vars
  <2>2. EntryKept' /\ DiskKept' /\ LinkKept'
    BY <1>3, <2>1, SameEntry
  <2>3. Referenced' = Referenced
    BY <2>1 DEF Referenced
  <2>4. Alone' /\ LiveKept'
    BY <1>3, <2>1, <2>3
    DEF Kept, Alone, Busy, LiveKept, Settled, Ahead, OwnersKept, OthersFree, Current
  <2>5. RoundKept' /\ ServiceKept'
    BY <1>3, <2>1 DEF Kept, RoundKept, ServiceKept
  <2> QED
    BY <2>2, <2>4, <2>5 DEF Kept
<1> QED
  BY <1>4, <1>5, <1>6, <1>7, <1>8, <1>9, <1>10, <1>11, <1>12, <1>13, <1>14, <1>15, <1>16, <1>17,
     <1>18, <1>19, <1>20, <1>21 DEF Next

\* The inductive invariant: as long as nobody goes on with a list that is no longer the
\* newest, every list of accounts that somebody holds or will write is as it should be
\* (the lists of account_identity.py and manager/__init__.py).
THEOREM AlwaysKept == Spec => []AInv
<1>1. Init => AInv
  BY InitKept
<1>2. AInv /\ [Next]_vars => AInv'
  BY StepKept
<1> QED
  BY <1>1, <1>2, PTL DEF Spec

\* One record per account, in the entry and in the live manager: re-links, assignments,
\* enrichment, refresh_accounts, adoption and reloads, also a round and the service beside
\* the user's own writes, as long as nobody goes on with a list that is not the newest.
THEOREM OneRecordEach == Spec => []OneRecordPerAccount
<1>1. AInv => OneRecordPerAccount
  BY DEF AInv, Kept, EntryKept, LiveKept, OneRecordPerAccount
<1> QED
  BY <1>1, AlwaysKept, PTL

\* Up to a write from a list that is not the newest, no write loses or changes the owner
\* that the user gave an account, a restart that finds an older entry does not, and a link
\* hands it to the record of the new session if it reports and recognises the account.
THEOREM OwnersSurvive == Spec => []OwnersAsAssigned
<1>1. AInv => OwnersAsAssigned
  <2> SUFFICES ASSUME AInv, ~crossed
               PROVE  /\ OwnersKept(entry)
                      /\ live \in Managers /\ ~reload /\ ~link.on => OwnersKept(mgr[live].list)
    BY DEF OwnersAsAssigned, OwnersKept
  <2>1. Kept
    BY DEF AInv
  <2>2. CASE live \in Managers /\ mgr[live].phase \in {"loading", "adopted"}
    BY <2>1, <2>2 DEF Kept, EntryKept, LiveKept
  <2>3. CASE live \in Managers /\ mgr[live].phase \in {"reconciled", "ready"}
    BY <2>1, <2>3 DEF Kept, EntryKept, LiveKept, Settled
  <2> QED
    BY <2>1, <2>2, <2>3 DEF Kept, Alone, EntryKept
<1> QED
  BY <1>1, AlwaysKept, PTL

\* A manager that no reload awaits fetches each account that a bank lists with the uid of
\* the newest session, whichever write of a link its setup saw first, and also while its
\* round or the service runs.
THEOREM NewestUidIsFetched == Spec => []FetchesNewestUid
<1>1. AInv => FetchesNewestUid
  <2> SUFFICES ASSUME AInv, ~crossed, live \in Managers, Ready(live), ~reload, ~link.on,
                      NEW a \in Referenced
               PROVE  ForRef(mgr[live].list, a, 0).uid = refs[a]
    BY DEF FetchesNewestUid
  <2> DEFINE r == ForRef(mgr[live].list, a, 0)
  <2>1. Kept /\ TypeOK /\ mgr[live].list \in Seq(Record)
    BY ManagerTyped DEF AInv, TypeOK
  <2>2. Settled
    BY DEF Settled, Ready
  <2>3. Current(mgr[live].list)
    BY <2>1, <2>2 DEF Kept, LiveKept
  <2>4. \/ r \in Elements(mgr[live].list) /\ r.acct = a /\ r.uid = refs[a]
        \/ r \in Elements(mgr[live].list) /\ Key(r) = <<a, "own">>
        \/ r = Bare(a, 0)
    BY <2>1, ForRefPicks
  <2>5. CASE r \in Elements(mgr[live].list) /\ Key(r) = <<a, "own">>
    <3>1. r.acct = a
      BY <2>5 DEF Key
    <3> HIDE DEF r
    <3> QED
      BY <2>3, <2>5, <3>1 DEF Current, Referenced, r
  <2>6. CASE r = Bare(a, 0)
    BY <2>6 DEF Bare
  <2> QED
    BY <2>4, <2>5, <2>6
<1> QED
  BY <1>1, AlwaysKept, PTL

\* A setup never removes the balance entity of an account with IBAN that a bank lists:
\* what it reconciles with has a record of the account, with the account's own key.
THEOREM IbanEntitiesStay == Spec => IbanEntityKept
<1>1. ASSUME AInv, [Next]_vars, NEW a \in Accounts \ Cards, ~crossed, Linked(a), Named(a)
      PROVE  HasEntity(a)'
  <2>1. TypeOK /\ Kept
    BY <1>1 DEF AInv
  <2>2. CASE entities \subseteq entities'
    BY <1>1, <2>2 DEF Named, HasEntity
  <2>3. ASSUME NEW m \in Managers, Reconcile(m) PROVE HasEntity(a)'
    <3>1. m = live /\ mgr[m].phase = "adopted" /\ entities' = Reconciled(entry)
      BY <2>3 DEF Reconcile
    <3>2. a \in Referenced \ Cards
      BY <1>1 DEF Linked, Referenced
    <3>3. Has(entry, a)
      BY <2>1, <3>1, <3>2 DEF Kept, LiveKept
    <3>4. PICK r \in Elements(entry) : r.acct = a
      BY <3>3 DEF Has
    <3>5. Key(r) = <<a, "own">> /\ Key(r) \in Keys(entry) /\ entry # <<>>
      BY <1>1, <3>4 DEF Key, Keys, Elements
    <3> DEFINE renamed == {q \in Elements(entry) :
                    q.uid = 1 /\ <<q.acct, "uid">> \in entities /\ Key(q) \notin entities}
    <3>6. entities' = (entities \cap Keys(entry)) \cup {Key(q) : q \in renamed}
      BY <3>1, <3>5 DEF Reconciled
    <3>7. CASE <<a, "own">> \in entities
      BY <3>5, <3>6, <3>7 DEF HasEntity
    <3>8. CASE <<a, "own">> \notin entities
      <4>1. <<a, "uid">> \in entities /\ r.uid = 1
        BY <1>1, <3>4, <3>8 DEF Named
      <4>2. r \in renamed
        BY <3>4, <3>5, <3>8, <4>1
      <4>3. Key(r) \in entities'
        BY <3>6, <4>2
      <4> QED
        BY <3>5, <4>3 DEF HasEntity
    <3> QED
      BY <3>7, <3>8
  <2>4. ASSUME NEW b, NEW reported, NEW uid, StoreRecords(b, reported, uid) PROVE UNCHANGED entities
    BY <2>4 DEF StoreRecords
  <2>5. CASE Reload \/ StoreRefs
    BY <2>2, <2>5 DEF Reload, StoreRefs
  <2>6. ASSUME NEW m, Load(m) \/ Adopt(m) \/ StartRound(m) \/ EndRound(m) PROVE UNCHANGED entities
    BY <2>6 DEF Load, Adopt, StartRound, EndRound
  <2>7. ASSUME NEW m, NEW key, NEW owner, NEW more, Assign(m, key, owner, more) PROVE UNCHANGED entities
    BY <2>7 DEF Assign
  <2>8. ASSUME NEW m, NEW r, Enrich(m, r) \/ NotEnriched(m, r) PROVE UNCHANGED entities
    BY <2>8 DEF Enrich, NotEnriched
  <2>9. ASSUME NEW m, NEW answered, StartService(m) \/ EndService(m) \/ ServiceStep(m, answered)
        PROVE  UNCHANGED entities
    BY <2>9 DEF StartService, EndService, ServiceStep
  <2>10. ASSUME NEW m, NEW more, FlagSavings(m, more) PROVE UNCHANGED entities
    BY <2>10 DEF FlagSavings
  <2>11. ASSUME NEW written, Stop(written) PROVE UNCHANGED entities
    BY <2>11 DEF Stop
  <2>12. ASSUME NEW m, FinishSetup(m) PROVE entities \subseteq entities'
    BY <2>12 DEF FinishSetup
  <2>13. CASE UNCHANGED vars
    BY <2>2, <2>13 DEF vars
  <2> QED
    BY <1>1, <2>2, <2>3, <2>4, <2>5, <2>6, <2>7, <2>8, <2>9, <2>10, <2>11, <2>12, <2>13 DEF Next
<1>2. AInv /\ [Next]_vars =>
        [\A a \in Accounts \ Cards : ~crossed /\ Linked(a) /\ Named(a) => HasEntity(a)']_vars
  BY <1>1
<1> QED
  BY <1>2, AlwaysKept, PTL DEF Spec, IbanEntityKept

\* Managers, records and flows are well-formed.
THEOREM AccountsAreTyped == Spec => []TypeOK
<1>1. AInv => TypeOK
  BY DEF AInv
<1> QED
  BY <1>1, AlwaysKept, PTL

=============================================================================
