-------------------------- MODULE MCPipelineStore --------------------------
(* Instance of PipelineStore for TLC: two agents, one of which sends a     *)
(* single event, the other two at once, the second of them an alert.       *)
EXTENDS PipelineStoreInv, TLC

CONSTANTS e1, e2, e3

MCEvents == {e1, e2, e3}
MCAlerts == {e3}
MCBatches == {<<e1>>, <<e2, e3>>}
=============================================================================
