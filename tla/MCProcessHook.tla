--------------------------- MODULE MCProcessHook ---------------------------
(* An instance of ProcessHook for TLC. *)
EXTENDS ProcessHook
=============================================================================
