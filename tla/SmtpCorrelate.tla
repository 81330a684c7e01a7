--------------------------- MODULE SmtpCorrelate ----------------------------
(***************************************************************************)
(* What correlate-smtp makes of a batch: SMTP events, a Postfix log and    *)
(* verdicts of the spam filter in, one result per message out.             *)
(*                                                                         *)
(* An event is [type, conn, client, at, state, behavior], a line of the    *)
(* log [kind, pid, client, at, arg, ghost], a verdict [queue, at, class,   *)
(* ghost].  A client is an address and a port.  A ghost says where a line  *)
(* came from: nothing below reads it, it passes through to the result.     *)
(***************************************************************************)
EXTENDS Integers, Sequences, SequencesExt, FiniteSets

CONSTANTS
  Conns,          \* connections, which stand for their random identifiers
  Pids,           \* process identifiers of smtpd
  Tolerance,      \* --tolerance
  VerdictWindow   \* how long after its message a verdict may come

ASSUME CorrelateAssumption ==
  Conns \subseteq Nat \ {0} /\ Tolerance \in Nat /\ VerdictWindow \in Nat

\* A time that is not set is before every other.
Never    == -1
NoClient == "none"
NoConn   == 0

-----------------------------------------------------------------------------
(* Connections, from the events.                                           *)

NoStamp == [at |-> Never, state |-> "none", behavior |-> "missing"]

Unseen == [client |-> NoClient, start |-> NoStamp, accepted |-> NoStamp,
           tls |-> NoStamp, end |-> NoStamp, invalid |-> FALSE]

\* A refused STARTTLS leaves no stamp: the end event says it.
Slot == [start |-> "start", accepted |-> "accepted", fingerprint |-> "tls", end |-> "end"]

\* Mutant: an event that is repeated is a conflict.
ReadEventOnce(conns, e) ==
  LET c     == conns[e.conn]
      slot  == Slot[e.type]
      stamp == [at |-> e.at, state |-> e.state, behavior |-> e.behavior]
  IN [conns EXCEPT ![e.conn] =
        IF c[slot] # NoStamp THEN [c EXCEPT !.invalid = TRUE]
        ELSE [c EXCEPT ![slot] = stamp, !.client = e.client]]

\* Events of one type that differ are a conflict, repeated ones are not.
ReadEvent(conns, e) ==
  LET c     == conns[e.conn]
      slot  == Slot[e.type]
      stamp == [at |-> e.at, state |-> e.state, behavior |-> e.behavior]
  IN [conns EXCEPT ![e.conn] =
        IF c[slot] \notin {NoStamp, stamp} \/ c.client \notin {NoClient, e.client}
        THEN [c EXCEPT !.invalid = TRUE]
        ELSE [c EXCEPT ![slot] = stamp, !.client = e.client]]

NothingSeen == [c \in Conns |-> Unseen]

ReadConnections(events) ==
  LET read[n \in 0 .. Len(events)] ==
        IF n = 0 THEN NothingSeen ELSE ReadEvent(read[n - 1], events[n])
  IN read[Len(events)]

\* completeObservation
Complete(c) ==
  /\ ~c.invalid /\ c.start # NoStamp /\ c.end.at >= c.start.at
  /\ \/ /\ c.end.state \in {"no_observed_upgrade", "starttls_refused", "premature_tls"}
        /\ c.accepted = NoStamp /\ c.tls = NoStamp
     \/ /\ c.end.state = "fingerprinted"
        /\ c.accepted # NoStamp /\ c.accepted.at >= c.start.at
        /\ c.tls.at >= c.accepted.at /\ c.tls.at <= c.end.at
     \/ /\ c.end.state = "starttls_accepted_no_fingerprint"
        /\ c.accepted # NoStamp /\ c.accepted.at \in c.start.at .. c.end.at

-----------------------------------------------------------------------------
(* Messages, from the log.  A session is what smtpd of one pid does between *)
(* two clients; `tls' places the handshake relative to the message.         *)

NoSession == [client |-> NoClient, epoch |-> Never, tls |-> "unknown", messages |-> {}]

ReadConnect(acc, l) ==
  [acc EXCEPT !.sessions[l.pid] = [NoSession EXCEPT !.client = l.client, !.epoch = l.at]]

ReadDisconnect(acc, l) == [acc EXCEPT !.sessions[l.pid] = NoSession]

\* The session a line belongs to, if it is the one that smtpd has.
Mine(acc, l) ==
  LET s == acc.sessions[l.pid] IN s.client = l.client /\ l.at >= s.epoch

\* TLS connection established: what was queued before it was not encrypted.
ReadTls(acc, l) ==
  LET s     == acc.sessions[l.pid]
      twice == s.tls # "unknown"
  IN IF ~Mine(acc, l) THEN acc ELSE
     [sessions |-> [acc.sessions EXCEPT ![l.pid].tls =
                      IF twice THEN "conflict" ELSE "before"],
      out |-> [i \in DOMAIN acc.out |->
                 IF i \in s.messages
                 THEN [acc.out[i] EXCEPT !.tls = IF twice THEN "conflict" ELSE "after"]
                 ELSE acc.out[i]]]

ReadQueue(acc, l) ==
  LET s    == acc.sessions[l.pid]
      mine == Mine(acc, l)
      m    == [queue |-> l.arg, client |-> l.client, pid |-> l.pid, at |-> l.at,
               epoch |-> IF mine THEN s.epoch ELSE Never,
               tls   |-> IF mine THEN s.tls ELSE "unknown",
               ghost |-> l.ghost]
  IN [sessions |-> IF mine
                   THEN [acc.sessions EXCEPT ![l.pid].messages = @ \cup {Len(acc.out) + 1}]
                   ELSE acc.sessions,
      out |-> Append(acc.out, m)]

ReadLine(acc, l) ==
  CASE l.kind = "connect"    -> ReadConnect(acc, l)
    [] l.kind = "disconnect" -> ReadDisconnect(acc, l)
    [] l.kind = "tls"        -> ReadTls(acc, l)
    [] l.kind = "queue"      -> ReadQueue(acc, l)
    [] OTHER                 -> acc

NothingRead == [sessions |-> [p \in Pids |-> NoSession], out |-> <<>>]

ReadMessages(log) ==
  LET read[n \in 0 .. Len(log)] ==
        IF n = 0 THEN NothingRead ELSE ReadLine(read[n - 1], log[n])
  IN read[Len(log)].out

Identity(m) == <<m.queue, m.client, m.pid, m.epoch, m.at>>

-----------------------------------------------------------------------------
(* One message.                                                             *)

\* matchSMTPConn
Matching(conns, m) ==
  {c \in Conns :
     LET k == conns[c] IN
     /\ m.epoch # Never /\ m.at >= m.epoch
     /\ k.client = m.client /\ ~k.invalid
     /\ k.start # NoStamp /\ k.end # NoStamp
     /\ m.epoch >= k.start.at - Tolerance
     /\ m.epoch <= k.end.at + Tolerance
     /\ m.at <= k.end.at + Tolerance}

\* Mutant: a message at the time of the handshake counts as encrypted.
TransportAtOnce(k, m) ==
  LET state == k.end.state IN
  IF ~Complete(k) \/ m.tls = "conflict" THEN "unknown" ELSE
  CASE m.tls = "before" -> IF state = "fingerprinted" /\ m.at >= k.accepted.at - Tolerance
                           THEN "starttls" ELSE "unknown"
    [] m.tls = "after"  -> IF state \in {"fingerprinted", "starttls_accepted_no_fingerprint"}
                           THEN "plaintext" ELSE "unknown"
    [] OTHER ->
         IF state \in {"no_observed_upgrade", "starttls_refused"} THEN "plaintext"
         ELSE IF k.accepted # NoStamp /\ m.at < k.accepted.at - Tolerance THEN "plaintext"
         ELSE IF state = "fingerprinted" /\ m.at >= k.tls.at THEN "starttls"
         ELSE "unknown"

\* messageSMTPTransport: by the order of Postfix's lines if it logged the handshake,
\* else by time.
Transport(k, m) ==
  LET state == k.end.state IN
  IF ~Complete(k) \/ m.tls = "conflict" THEN "unknown" ELSE
  CASE m.tls = "before" -> IF state = "fingerprinted" /\ m.at >= k.accepted.at - Tolerance
                           THEN "starttls" ELSE "unknown"
    [] m.tls = "after"  -> IF state \in {"fingerprinted", "starttls_accepted_no_fingerprint"}
                           THEN "plaintext" ELSE "unknown"
    [] OTHER ->
         IF state \in {"no_observed_upgrade", "starttls_refused"} THEN "plaintext"
         ELSE IF k.accepted # NoStamp /\ m.at < k.accepted.at - Tolerance THEN "plaintext"
         ELSE IF state = "fingerprinted" /\ m.at >= k.tls.at + Tolerance THEN "starttls"
         ELSE "unknown"

\* The verdicts that may be the message's; boundedVerdict takes one that is alone.
Eligible(verdicts, m) ==
  {v \in verdicts : v.queue = m.queue /\ v.at \in m.at .. m.at + VerdictWindow}

Unmatched(m, reason) ==
  [id |-> Identity(m), ghost |-> m.ghost, conn |-> NoConn, transport |-> "unknown",
   verdicts |-> {}, reason |-> reason]

\* Mutant: a queue id that is used again goes unnoticed.
NeverReused(messages, m) == FALSE

\* Two messages that share a queue id: neither is credited.
Reused(messages, m) ==
  \E other \in ToSet(messages) : other.queue = m.queue /\ Identity(other) # Identity(m)

\* Mutant: of several connections the last is taken.
CreditLast(conns, verdicts, m) ==
  LET c         == CHOOSE x \in Matching(conns, m) :
                     \A y \in Matching(conns, m) : conns[x].start.at >= conns[y].start.at
      transport == Transport(conns[c], m)
  IN [Unmatched(m, "no_verdict") EXCEPT !.conn = c, !.transport = transport]

\* The connection, its transport and, if that is encrypted, the verdict.
Credit(conns, verdicts, m) ==
  LET c         == CHOOSE x \in Matching(conns, m) : TRUE
      transport == Transport(conns[c], m)
      own       == Eligible(verdicts, m)
      found     == [Unmatched(m, "no_verdict") EXCEPT !.conn = c, !.transport = transport]
  IN IF Cardinality(Matching(conns, m)) # 1 THEN Unmatched(m, "ambiguous_connection")
     ELSE IF transport # "starttls" THEN [found EXCEPT !.reason = "not_encrypted"]
     ELSE IF Cardinality(own) = 1 THEN [found EXCEPT !.reason = "matched", !.verdicts = own]
     ELSE found

Result(conns, messages, verdicts, m) ==
  IF Reused(messages, m) THEN Unmatched(m, "reused_queue_id")
  ELSE IF Matching(conns, m) = {} THEN Unmatched(m, "no_connection")
  ELSE Credit(conns, verdicts, m)

\* One result per message, however often the log has it.
Correlate(events, log, verdicts) ==
  LET conns    == ReadConnections(events)
      messages == ReadMessages(log)
      First(i) == \A j \in 1 .. i - 1 : Identity(messages[j]) # Identity(messages[i])
  IN {Result(conns, messages, verdicts, messages[i]) : i \in {j \in DOMAIN messages : First(j)}}
=============================================================================
