---------------------------- MODULE MCEventBatch -----------------------------
\* A process and its successor, a session of each, read once.
EXTENDS EventBatch, TLC

MCProcOf == "s1" :> 1 @@ "s2" :> 2
MCTypes  == <<"start", "end">>
=============================================================================
