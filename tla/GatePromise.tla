---------------------------- MODULE GatePromise -----------------------------
(***************************************************************************)
(* What the gate promises, without its mechanism.  Policy is two facts     *)
(* that may change at any moment: which addresses are trusted, and which   *)
(* requests the fingerprint policy clears.  A connection is decided once,  *)
(* while policy moves under it, and                                        *)
(*   - it is forwarded only if at some moment since it was accepted its    *)
(*     address was trusted or its request was cleared;                     *)
(*   - it is refused by policy only if at some moment its address was not  *)
(*     trusted and at some moment its request was not cleared: a client    *)
(*     that is trusted, or cleared, from accept to verdict is not refused. *)
(* Connections may also be dropped for reasons that are not policy.        *)
(***************************************************************************)
CONSTANTS
  Conns,      \* connections
  Requests,   \* records with at least the client's address, addr
  Addrs,      \* addresses
  NoRequest   \* of a connection that is not being decided

VARIABLES
  trusted,   \* addresses that bypass the fingerprint policy now
  cleared,   \* requests the fingerprint policy lets through now
  phase,     \* per connection: closed, deciding, forwarding or refused
  req,       \* per connection: its request while deciding
  past       \* per connection: what has held since it was accepted

vars == <<trusted, cleared, phase, req, past>>

Facts == {"trusted", "untrusted", "cleared", "uncleared"}
Phases == {"closed", "deciding", "forwarding", "refused"}

\* What policy says of request q when T is trusted and C is cleared.
Standing(q, T, C) == {IF q.addr \in T THEN "trusted" ELSE "untrusted",
                      IF q \in C THEN "cleared" ELSE "uncleared"}

Init ==
  /\ trusted \in SUBSET Addrs
  /\ cleared \in SUBSET Requests
  /\ phase = [c \in Conns |-> "closed"]
  /\ req   = [c \in Conns |-> NoRequest]
  /\ past  = [c \in Conns |-> {}]

-----------------------------------------------------------------------------
Open(c) ==
  /\ phase[c] \in {"closed", "refused"} /\ phase'[c] = "deciding"
  /\ req'[c] \in Requests
  /\ past'[c] = Standing(req'[c], trusted', cleared')

\* An undecided connection sees the policy change; the others do not care.
Stay(c) ==
  /\ phase'[c] = phase[c]
  /\ req'[c] = req[c]
  /\ past'[c] = IF phase[c] = "deciding"
                THEN past[c] \cup Standing(req[c], trusted', cleared')
                ELSE past[c]

Leave(c, to) == phase'[c] = to /\ req'[c] = NoRequest /\ past'[c] = {}

Forward(c) ==
  /\ phase[c] = "deciding"
  /\ past[c] \cap {"trusted", "cleared"} # {}
  /\ Leave(c, "forwarding")

Refuse(c) ==
  /\ phase[c] = "deciding"
  /\ {"untrusted", "uncleared"} \subseteq past[c]
  /\ Leave(c, "refused")

Drop(c) == Leave(c, "closed")

Next ==
  /\ trusted' \in SUBSET Addrs
  /\ cleared' \in SUBSET Requests
  /\ phase' \in [Conns -> Phases]
  /\ req' \in [Conns -> Requests \cup {NoRequest}]
  /\ past' \in [Conns -> SUBSET Facts]
  /\ \A c \in Conns : Open(c) \/ Stay(c) \/ Forward(c) \/ Refuse(c) \/ Drop(c)

Spec == Init /\ [][Next]_vars
=============================================================================
