--------------------------- MODULE MCAgentOutbox ---------------------------
(* Instance of AgentOutbox for TLC.                                        *)
EXTENDS AgentOutbox, TLC
=============================================================================
