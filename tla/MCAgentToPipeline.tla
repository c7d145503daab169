------------------------- MODULE MCAgentToPipeline -------------------------
(* Instance of AgentToPipeline for TLC.                                    *)
EXTENDS AgentToPipeline, TLC
=============================================================================
