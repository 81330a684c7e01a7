--------------------------- MODULE MCBlockedAlerts --------------------------
(* A serving process, with handlers h1 and h2 and worker w1, and one that    *)
(* drains, with h3 and w2.                                                   *)
EXTENDS BlockedAlerts

CONSTANTS new, old, h1, h2, h3, w1, w2

MCProcOf == [g \in Handlers \cup Workers |-> IF g \in {h3, w2} THEN old ELSE new]
=============================================================================
