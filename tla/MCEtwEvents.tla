---------------------------- MODULE MCEtwEvents ----------------------------
(* An instance of EtwEvents for TLC. *)
EXTENDS EtwEvents, TLC

(* File keys are only compared.  Pids are not symmetric: one of them is    *)
(* running at the start.                                                   *)
Symmetry == Permutations(Keys)
=============================================================================
