--------------------------- MODULE MCWinForwarder ---------------------------
(* Instance of WinForwarder for TLC.                                       *)
EXTENDS WinForwarder, TLC
=============================================================================
