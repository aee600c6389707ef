------------------------------ MODULE MCNotices ------------------------------
(* Four days of two findings, one of which stands, and a contract that renews. *)
EXTENDS Notices

Short == 2
MCFrom == [f \in Findings |-> IF f \in Standing THEN 1 ELSE 2]
MCUntil == [f \in Findings |-> IF f \in Standing THEN LastDay ELSE 3]
MCFirstEnd == [s \in Series |-> Short]
=============================================================================
