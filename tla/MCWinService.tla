---------------------------- MODULE MCWinService ----------------------------
(* Instance of WinService for TLC.                                         *)
EXTENDS WinService, TLC
=============================================================================
