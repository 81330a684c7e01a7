------------------------------- MODULE MCGate -------------------------------
(* A small gate: one strict and one enrolment route, two addresses, of which *)
(* one may become trusted, two fingerprints and room for one entry.          *)
EXTENDS Gate, TLC

CONSTANTS c1, c2, f1, f2, home, away, strict, enrol

\* Every client may present f1 anywhere; the other hellos come from one side.
MCRequests == [addr : Addrs, route : {strict, enrol}, hello : {f1}]
              \cup [addr : {away}, route : {strict, enrol}, hello : {f2}]
              \cup [addr : {home}, route : {strict, enrol}, hello : {Opaque}]

MCDynamicTrusted == {{}, {home}}

ConnSymmetry == Permutations(Conns)
=============================================================================
