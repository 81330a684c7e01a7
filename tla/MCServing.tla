------------------------------ MODULE MCServing -----------------------------
(* A limited route and one without a limit of its own.                       *)
EXTENDS Serving

CONSTANTS limited, free, c1, c2, c3

MCMaxOf == [r \in Routes |-> IF r = limited THEN 1 ELSE 0]
MCRouteOf == [c \in Conns |-> IF c = c3 THEN free ELSE limited]
=============================================================================
