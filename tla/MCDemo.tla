-------------------------------- MODULE MCDemo --------------------------------
(* DemoMode for TLC, with two managers: the live one and one being replaced. *)
EXTENDS DemoMode, TLC

MCSymmetry == Permutations(Managers)
=============================================================================
