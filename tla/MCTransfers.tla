------------------------------ MODULE MCTransfers ------------------------------
(* A current account, savings, PayPal and a shop: payments, top-ups, a late   *)
(* and a smaller arrival, refunds to the cent and one off, a pending line.     *)
EXTENDS Transfers

MCAccounts == {"dkb", "savings", "paypal"}
MCPayPal == {"paypal"}

Plain == [id |-> 1, account |-> "dkb", amount |-> 0, day |-> 1, party |-> {}, subject |-> {},
          category |-> "other", other |-> "", keyword |-> FALSE, pending |-> FALSE]

TopUp == {[Plain EXCEPT !.account = "savings", !.amount = -3990, !.day = 2],
          [Plain EXCEPT !.amount = 3990, !.day = 2, !.party = {"savings"}]}
Funding == {[Plain EXCEPT !.amount = -3990, !.day = 3, !.party = {"paypal"}],
            [Plain EXCEPT !.account = "paypal", !.amount = 3990, !.day = 3]}
Purchase == [Plain EXCEPT !.account = "paypal", !.amount = -3990, !.day = 4, !.other = "shop"]
Refund(amount) == [Plain EXCEPT !.account = "paypal", !.amount = amount, !.day = 6,
                                !.other = "shop", !.keyword = TRUE]
Odd == {[Plain EXCEPT !.account = "paypal", !.amount = 3960, !.day = 5, !.subject = {"dkb"},
                      !.category = "transfers"],
        [Plain EXCEPT !.amount = -3990, !.day = 1, !.pending = TRUE]}

MCBookable == TopUp \cup Funding \cup Odd \cup {Purchase, Refund(3990), Refund(3989)}

\* 39.90 - 39.89 = 0.00999999999999801
MCShrunk == {<<3990, 3989>>, <<3989, 3990>>}
===============================================================================
