----------------------------- MODULE SessionVault -----------------------------
(***************************************************************************)
(* What the credential store promises the linked banks: a bank has a       *)
(* session from before it is linked until after it is removed, unless two  *)
(* saves of the store overlapped.  No word of files, flows or setups.      *)
(***************************************************************************)
EXTENDS Naturals

CONSTANTS Ids, Sessions   \* sessions are positive numbers, 0 is none

VARIABLES
  stored,  \* the session of a bank
  linked,  \* the banks
  lost     \* saves have overlapped

vars == <<stored, linked, lost>>

Init == stored \in [Ids -> Sessions \cup {0}] /\ linked = {} /\ lost = FALSE

Store(id, s) ==
  /\ stored' = [stored EXCEPT ![id] = s]
  /\ UNCHANGED <<linked, lost>>

Link(id) ==
  /\ stored[id] # 0 \/ lost
  /\ linked' = linked \cup {id}
  /\ UNCHANGED <<stored, lost>>

Unlink(id) ==
  /\ linked' = linked \ {id}
  /\ UNCHANGED <<stored, lost>>

Forget(id) ==
  /\ id \notin linked
  /\ stored' = [stored EXCEPT ![id] = 0]
  /\ UNCHANGED <<linked, lost>>

Overlap ==
  /\ lost' = TRUE
  /\ stored' \in [Ids -> Sessions \cup {0}]
  /\ UNCHANGED linked

Next ==
  \/ \E id \in Ids : Link(id) \/ Unlink(id) \/ Forget(id) \/ \E s \in Sessions : Store(id, s)
  \/ Overlap

Spec == Init /\ [][Next]_vars
=============================================================================
