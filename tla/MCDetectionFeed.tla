-------------------------- MODULE MCDetectionFeed --------------------------
(* Instance of DetectionFeed for TLC.                                      *)
EXTENDS DetectionFeed, TLC

CONSTANTS t1, t2

Symmetry == Permutations(Threads)
=============================================================================
