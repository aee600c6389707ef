------------------------------ MODULE MCAccounts ------------------------------
(* Accounts for TLC: two accounts with an IBAN at two banks, a card, two       *)
(* managers.  Nothing is claimed once a stale list may have been stored, so a   *)
(* behaviour is followed up to there.                                           *)
EXTENDS Accounts, TLC
CONSTANTS giro, depot, card
MCAccountSeq == <<giro, depot, card>>
MCBankOf == [a \in {giro, depot, card} |-> IF a = depot THEN "broker" ELSE "bank"]
MCSymmetry == Permutations(Managers)
MCNext == ~crossed /\ Next
MCSpec == Init /\ [][MCNext]_vars
=============================================================================
