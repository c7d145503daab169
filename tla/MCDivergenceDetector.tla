------------------------ MODULE MCDivergenceDetector ------------------------
(* Instance of DivergenceDetector for TLC.                                 *)
EXTENDS DivergenceDetector, TLC

Symmetry == Permutations(Processes) \cup Permutations(Contents)
=============================================================================
