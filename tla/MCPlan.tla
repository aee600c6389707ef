-------------------------------- MODULE MCPlan --------------------------------
(* Two persons who earn, one who does not any more, and one the plan may only *)
(* learn of by an edit; accounts with and without a joint one; a workbook with *)
(* a name twice and one whose buffer has two owners.                           *)
EXTENDS TransferPlan

MCPeople == {"ann", "bob", "cleo"}
MCOwners == {"ann", "bob"}

Draft == [id |-> NoId, name |-> "rent", owner |-> OwnerShared, kind |-> "fixed", amount |-> 1200,
          units |-> 0, price |-> 0, from |-> 1, until |-> 9, debit |-> 0]
Food == [Draft EXCEPT !.name = "food", !.kind = "buffer", !.units = 4, !.price = 90]
Phone == [Draft EXCEPT !.name = "phone", !.owner = "ann", !.amount = 30, !.debit = 3]
Gym == [Draft EXCEPT !.name = "gym", !.owner = "bob", !.amount = 41, !.until = 1]
MCDrafts == {Draft, Phone, [Phone EXCEPT !.id = <<"phone", "ann", 0>>, !.owner = "cleo"],
             [Phone EXCEPT !.debit = 2]}
MCProposals == {Food, Gym}

Entry == [person |-> "ann", deposit |-> 3000, insurance |-> -275, tax |-> 0]
MCEntries == {Entry, [Entry EXCEPT !.deposit = 0], [Entry EXCEPT !.insurance = 275],
              [Entry EXCEPT !.person = "bob", !.deposit = 1000, !.insurance = 0, !.tax = 50]}

Account(p, t) == [person |-> p, type |-> t]
MCConfigs == {<<Account("ann", "personal"), Account("bob", "personal"), Account(None, "shared")>>,
              <<Account("ann", "personal"), Account("ann", "personal"), Account("bob", "personal"),
                Account("bob", "shared")>>,
              <<Account("ann", "personal"), Account("bob", "personal")>>,
              <<Account("bob", "shared"), Account("ann", "personal"), Account("cleo", "personal")>>}

Cell(v, f) == [value |-> v, factors |-> f]
Row(n, b, cells) == [name |-> n, buffer |-> b, from |-> 1, until |-> 9, cells |-> cells]
MCWorkbooks ==
  {[income |-> [p \in {"ann", "bob"} |-> [Entry EXCEPT !.person = p, !.insurance = 100]],
    rows |-> <<Row("gym", FALSE, [o \in {"ann", "bob"} |-> Cell(20, <<>>)]),
               Row("gym", FALSE, [o \in {"ann"} |-> Cell(-5, <<>>)]),
               Row("food", TRUE, [o \in {OwnerShared} |-> Cell(360, <<4, 90>>)])>>],
   [income |-> <<>>,
    rows |-> <<Row("food", TRUE, [o \in {OwnerShared, "ann"} |->
                 IF o = OwnerShared THEN Cell(360, <<4, 90>>) ELSE Cell(60, <<3, 20>>)])>>]}
=============================================================================
