-------------------------------- MODULE MCPots --------------------------------
(* Two earners, one of them with a bonus, a salary and a purchase that may be dated *)
(* ahead, and what they buy.                                                        *)
EXTENDS Pots

MCPeople == {"ann", "bob"}
Item(o, c, a) == [owner |-> o, category |-> c, amount |-> a, ahead |-> 0]
Ahead(item, n) == [item EXCEPT !.ahead = n]
MCBookable == {Item("ann", "income", 10), Item("bob", "income", 9),
               Item("ann", "food", -2), Item("ann", "fun", -1),
               Ahead(Item("ann", "income", 10), 1), Ahead(Item("ann", "food", -2), 1)}
Draft(o, n, b, k) == [owner |-> o, name |-> n, budget |-> b, keys |-> k, kind |-> "spend"]
MCDrafts == {Draft("ann", "food", 6, {"food"}), Draft("ann", "fun", 3, {"fun"})}
===============================================================================
