------------------------------- MODULE MCRelay ------------------------------
(* A request of one byte, a response of two.                                 *)
EXTENDS Relay

MCMaxSent == [d \in Dirs |-> IF d = "up" THEN 1 ELSE 2]
=============================================================================
