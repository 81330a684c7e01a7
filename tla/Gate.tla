-------------------------------- MODULE Gate --------------------------------
(***************************************************************************)
(* The TLS gate: handleConnWithScope for every accepted connection,        *)
(* against the shared fingerprint table and the allowlist, while operators *)
(* and the control plane change both and the process restarts or hands     *)
(* over.  One action per step between two points where another goroutine   *)
(* or process can run: reading the allowlist at the top of the handler,    *)
(* the ClientHello up to ten seconds later, the dial, the relay.           *)
(*                                                                         *)
(* A request is what the client will turn out to have sent: its address,   *)
(* the route it reached, and a fingerprint, or Opaque for bytes no         *)
(* fingerprint can be computed from (not TLS, or a ClientHello that does   *)
(* not parse), which the handler treats alike.                             *)
(***************************************************************************)
EXTENDS FingerprintStore

CONSTANTS
  Conns,          \* connections in the handler at one time
  Requests,       \* what clients may ask: [addr, route, hello]
  Permissive,     \* routes with allow-unknown
  StaticTrusted,  \* addresses inside approve_ranges
  DynamicTrusted, \* sets of addresses the control plane may trust
  ScopeShadow,    \* approval_scope_shadow
  Opaque,         \* a hello without a fingerprint
  NoRequest

ASSUME RequestsAssumption ==
  /\ \A q \in Requests : q.addr \in Addrs /\ q.hello \in Fps \cup {Opaque}
  /\ StaticTrusted \subseteq Addrs
  /\ DynamicTrusted \subseteq SUBSET Addrs
  /\ {} \in DynamicTrusted
  /\ Opaque \notin Fps
  /\ NoRequest \notin Requests

VARIABLES
  db,       \* the fingerprint table, shared by every process
  dynamic,  \* ipAllowlist.dynamic of the accepting process
  pc,       \* where each connection's handler is
  req,      \* its request
  wl,       \* the handler's local variable whitelisted
  ordered,  \* history: the last decision somebody made on a fingerprint
  past      \* history: what has held since the connection was accepted

vars == <<db, dynamic, pc, req, wl, ordered, past>>
conns == <<pc, req, wl>>
policy == <<db, dynamic, ordered>>

Stages == {"closed", "hello", "dial", "relay", "refused"}
Facts  == {"trusted", "untrusted", "cleared", "uncleared"}

-----------------------------------------------------------------------------
\* ipAllowlist.contains: configured and control-plane ranges alike.
Trusted == StaticTrusted \cup dynamic

\* routeConfig.policy
BlockUnknown(q) == q.route \notin Permissive

\* blockThis in the handler: what the route does with unknown clients, unless
\* the source was whitelisted when the handler looked.
BlockThis(c) == BlockUnknown(req[c]) /\ ~wl[c]

\* Mutant: a pending entry passes wherever it was first recorded.
PendingForwards(c, entry) ==
  \/ wl[c]
  \/ entry.status = "pending"
  \/ entry.status = "approved" /\ (req[c].addr \in entry.scope \/ ScopeShadow)

\* The switch on the status of the entry Observe returned.
Forwards(c, entry) ==
  \/ wl[c]
  \/ entry.status = "pending" /\ ~BlockThis(c)
  \/ entry.status = "approved" /\ (req[c].addr \in entry.scope \/ ScopeShadow)

-----------------------------------------------------------------------------
(***************************************************************************)
(* History: for each undecided connection, which of trusted, untrusted,    *)
(* cleared and uncleared its request has been since it was accepted.  A    *)
(* request is cleared when a gate that looked at the table just now would  *)
(* let it through without trust.                                           *)
(***************************************************************************)
Clears(d, q) ==
  IF q.hello \notin Fps THEN ~BlockUnknown(q)
  ELSE \/ d[q.hello].status \in {"absent", "pending"} /\ ~BlockUnknown(q)
       \/ /\ d[q.hello].status = "approved"
          /\ q.addr \in d[q.hello].scope \/ ScopeShadow

Cleared == {q \in Requests : Clears(db, q)}

Standing(q, T, C) == {IF q.addr \in T THEN "trusted" ELSE "untrusted",
                      IF q \in C THEN "cleared" ELSE "uncleared"}

Remember ==
  past' = [c \in Conns |->
             IF pc'[c] # "hello" THEN {}
             ELSE past[c] \cup Standing(req'[c], Trusted', Cleared')]

-----------------------------------------------------------------------------
Init ==
  /\ db = [f \in Fps |-> NoEntry]
  /\ dynamic = {}
  /\ pc   = [c \in Conns |-> "closed"]
  /\ req  = [c \in Conns |-> NoRequest]
  /\ wl   = [c \in Conns |-> FALSE]
  /\ ordered = [f \in Fps |-> "none"]
  /\ past = [c \in Conns |-> {}]

-----------------------------------------------------------------------------
(* The connection handler.                                                 *)

\* The handler starts: whitelisted is read once, here.
Admit(c, q) ==
  /\ pc[c] \in {"closed", "refused"}
  /\ pc'  = [pc EXCEPT ![c] = "hello"]
  /\ req' = [req EXCEPT ![c] = q]
  /\ wl'  = [wl EXCEPT ![c] = q.addr \in Trusted]
  /\ UNCHANGED policy
  /\ Remember

\* The handler leaves for a stage in which it no longer reads its locals.
Leave(c, stage) ==
  /\ pc'  = [pc EXCEPT ![c] = stage]
  /\ req' = [req EXCEPT ![c] = NoRequest]
  /\ wl'  = [wl EXCEPT ![c] = FALSE]

\* The rate limiter refuses, a deadline cannot be set, or the first record
\* header does not arrive within ten seconds.
Abandon(c) ==
  /\ pc[c] = "hello"
  /\ Leave(c, "closed")
  /\ UNCHANGED policy
  /\ Remember

\* First byte not a handshake record, or a ClientHello that cannot be read or
\* parsed: blocked, or forwarded as it is.
HandleOpaque(c) ==
  /\ pc[c] = "hello"
  /\ req[c].hello \notin Fps
  /\ Leave(c, IF BlockThis(c) THEN "refused" ELSE "dial")
  /\ UNCHANGED policy
  /\ Remember

\* A store error fails closed, whoever the client is.
ObserveFails(c) ==
  /\ pc[c] = "hello"
  /\ req[c].hello \in Fps
  /\ Leave(c, "closed")
  /\ UNCHANGED policy
  /\ Remember

\* Mutant: what a whitelisted client presents is approved for everybody.
TrustedHelloApproves(c) ==
  LET f == req[c].hello
      entry == Recorded(db, f, BlockThis(c))[f]
  IN  /\ pc[c] = "hello"
      /\ f \in Fps
      /\ IF wl[c] THEN db' = Decided(db, f, "approved", Addrs)
         ELSE db' \in Observed(db, f, BlockThis(c))
      /\ Leave(c, IF Forwards(c, entry) THEN "dial" ELSE "refused")
      /\ UNCHANGED <<dynamic, ordered>>
      /\ Remember

\* Mutant: the serving process opens the store without its cap.
UncappedHandleHello(c) ==
  LET f == req[c].hello
      entry == Recorded(db, f, BlockThis(c))[f]
  IN  /\ pc[c] = "hello"
      /\ f \in Fps
      /\ db' = Recorded(db, f, BlockThis(c))
      /\ Leave(c, IF Forwards(c, entry) THEN "dial" ELSE "refused")
      /\ UNCHANGED <<dynamic, ordered>>
      /\ Remember

\* A fingerprinted ClientHello: record it, decide on the entry that comes back.
HandleHello(c) ==
  LET f == req[c].hello
      entry == Recorded(db, f, BlockThis(c))[f]
  IN  /\ pc[c] = "hello"
      /\ f \in Fps
      /\ db' \in Observed(db, f, BlockThis(c))
      /\ Leave(c, IF Forwards(c, entry) THEN "dial" ELSE "refused")
      /\ UNCHANGED <<dynamic, ordered>>
      /\ Remember

\* The backend answers and takes the PROXY header and the bytes read so far,
\* or one of the three fails.
Dial(c) ==
  /\ pc[c] = "dial"
  /\ \E stage \in {"relay", "closed"} : Leave(c, stage)
  /\ UNCHANGED policy
  /\ Remember

\* proxyBidirectional returns.
Finish(c) ==
  /\ pc[c] = "relay"
  /\ Leave(c, "closed")
  /\ UNCHANGED policy
  /\ Remember

-----------------------------------------------------------------------------
(* Decisions on fingerprints, from the command line and the control plane.  *)

\* approve and block on a fingerprint that has been seen.
CliSetStatus(f, status) ==
  /\ db[f].status # "absent"
  /\ MaySetStatus(db, f, status)
  /\ db' \in Ranked(db, f, status)
  /\ ordered' = [ordered EXCEPT ![f] = status]
  /\ UNCHANGED <<dynamic, conns>>
  /\ Remember

\* approve --register and block --register: the entry need not exist.  The
\* command line opens the store without a cap.
CliRegister(f, status) ==
  /\ db[f].status = "absent" \/ MaySetStatus(db, f, status)
  /\ db' \in Ranked(db, f, status)
  /\ ordered' = [ordered EXCEPT ![f] = status]
  /\ UNCHANGED <<dynamic, conns>>
  /\ Remember

\* ApplyDecisions: a control-plane sync, or approve with --ranges or
\* --unrestricted.
ApplyDecision(f, status, scope) ==
  /\ db' = Decided(db, f, status, scope)
  /\ ordered' = [ordered EXCEPT ![f] = status]
  /\ UNCHANGED <<dynamic, conns>>
  /\ Remember

\* delete one fingerprint, or reset them all.
CliDelete(fs) ==
  /\ db' = Deleted(db, fs)
  /\ ordered' = [f \in Fps |-> IF f \in fs THEN "none" ELSE ordered[f]]
  /\ UNCHANGED <<dynamic, conns>>
  /\ Remember

-----------------------------------------------------------------------------
(* The process.                                                            *)

\* ApplyTrustedRanges: the control plane replaces the dynamic ranges.
ReplaceRanges(ranges) ==
  /\ dynamic' = ranges
  /\ UNCHANGED <<db, ordered, conns>>
  /\ Remember

\* The once-a-minute PruneToLimit.
Prune ==
  /\ db' \in Trims(db, {})
  /\ UNCHANGED <<dynamic, ordered, conns>>
  /\ Remember

\* A new process starts: it prunes, and trusts no dynamic range until its first
\* sync.  After an upgrade the old process's handlers go on, with what they
\* have read; after a crash or a stop they are gone.
Start(upgrade) ==
  /\ db' \in Trims(db, {})
  /\ dynamic' = {}
  /\ IF upgrade THEN UNCHANGED conns
     ELSE /\ pc'  = [c \in Conns |-> "closed"]
          /\ req' = [c \in Conns |-> NoRequest]
          /\ wl'  = [c \in Conns |-> FALSE]
  /\ UNCHANGED ordered
  /\ Remember

-----------------------------------------------------------------------------
Handler(c) ==
  \/ \E q \in Requests : Admit(c, q)
  \/ Abandon(c)
  \/ HandleOpaque(c)
  \/ ObserveFails(c)
  \/ HandleHello(c)
  \/ Dial(c)
  \/ Finish(c)

Scopes == {Addrs} \cup {{a} : a \in Addrs}

Decision(f) ==
  \/ \E status \in {"approved", "blocked"} : CliSetStatus(f, status) \/ CliRegister(f, status)
  \/ \E scope \in Scopes : ApplyDecision(f, "approved", scope)
  \/ ApplyDecision(f, "blocked", Addrs)

Next ==
  \/ \E c \in Conns : Handler(c)
  \/ \E f \in Fps : Decision(f)
  \/ \E fs \in {{f} : f \in Fps} \cup {Fps} : CliDelete(fs)
  \/ \E ranges \in DynamicTrusted : ReplaceRanges(ranges)
  \/ Prune
  \/ \E upgrade \in BOOLEAN : Start(upgrade)

Spec == Init /\ [][Next]_vars

-----------------------------------------------------------------------------
TypeOK ==
  /\ db \in Table
  /\ dynamic \in SUBSET Addrs
  /\ pc \in [Conns -> Stages]
  /\ req \in [Conns -> Requests \cup {NoRequest}]
  /\ \A c \in Conns : pc[c] = "hello" <=> req[c] # NoRequest
  /\ wl \in [Conns -> BOOLEAN]
  /\ ordered \in [Fps -> {"none", "approved", "blocked"}]
  /\ past \in [Conns -> SUBSET Facts]

\* What a verdict may rely on: the past of an undecided connection includes its
\* present standing and the one whitelisted was read in.
PastIsComplete ==
  \A c \in Conns :
    IF pc[c] = "hello"
    THEN /\ Standing(req[c], Trusted, Cleared) \subseteq past[c]
         /\ (IF wl[c] THEN "trusted" ELSE "untrusted") \in past[c]
    ELSE past[c] = {}

\* Traffic neither grants nor takes away an approval: a fingerprint is approved
\* exactly when the last decision made on it says so, whatever clients from
\* trusted and other addresses present, whatever the cap evicts, and across
\* restarts.
ApprovalsFollowDecisions ==
  \A f \in Fps : (db[f].status = "approved") <=> (ordered[f] = "approved")

\* Clients cannot grow the table beyond the cap: a step that adds an entry and
\* leaves more than the limit, and more than the approved entries alone, is a
\* decision from the command line or the control plane.
FloodIsBounded ==
  [][ (/\ Limit # -1
       /\ Cardinality(Known(db)') > Cardinality(Known(db))
       /\ Cardinality(Known(db)') > Limit)
      => UNCHANGED conns ]_vars

Phase(stage) ==
  IF stage = "hello" THEN "deciding"
  ELSE IF stage \in {"dial", "relay"} THEN "forwarding" ELSE stage

Promise == INSTANCE GatePromise WITH
  trusted <- Trusted,
  cleared <- Cleared,
  phase   <- [c \in Conns |-> Phase(pc[c])]

\* The gate implements its promise: a connection is forwarded only if it was
\* trusted or cleared at some moment of its handshake, and refused only if it
\* was at some moment untrusted and at some moment not cleared.
KeepsPromise == Promise!Spec
=============================================================================
