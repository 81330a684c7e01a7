-------------------------- MODULE MCTrustedRanges ---------------------------
(* A network whose prefix changes, or that is no longer trusted.             *)
EXTENDS TrustedRanges

CONSTANTS r1, r2, p1, p2

MCPolicies == {{}, {r1}, {r2}}
=============================================================================
