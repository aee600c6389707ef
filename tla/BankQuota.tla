------------------------------ MODULE BankQuota ------------------------------
(***************************************************************************)
(* What the fetch budget promises a bank: in one day it sees at most Limit *)
(* unattended fetches of an account, plus those the integration made and   *)
(* forgot.  No word of rounds, locks, gates or disks: a call, a recount    *)
(* after a loss of memory, a new day.                                      *)
(***************************************************************************)
EXTENDS Integers

CONSTANTS Accounts, Limit

VARIABLES
  calls,   \* unattended fetches of an account today
  lost     \* those of them the integration no longer knows of

vars == <<calls, lost>>

Init == calls = [a \in Accounts |-> 0] /\ lost = [a \in Accounts |-> 0]

Call(a) ==
  /\ calls[a] < Limit + lost[a]
  /\ calls' = [calls EXCEPT ![a] = @ + 1]
  /\ UNCHANGED lost

\* Calls are forgotten, or found again, but none that was never made.
Recount ==
  /\ UNCHANGED calls
  /\ \A a \in Accounts : 0 <= lost'[a] /\ lost'[a] <= calls[a] /\ calls[a] <= Limit + lost'[a]

NextDay ==
  /\ calls' = [a \in Accounts |-> 0]
  /\ lost' = [a \in Accounts |-> 0]

Next == (\E a \in Accounts : Call(a)) \/ Recount \/ NextDay

Spec == Init /\ [][Next]_vars
=============================================================================
