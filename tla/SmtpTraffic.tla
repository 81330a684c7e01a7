----------------------------- MODULE SmtpTraffic -----------------------------
(***************************************************************************)
(* What really happens to a few connections of one client, what tlsgate,   *)
(* Postfix and the spam filter write about it, and a batch over a window   *)
(* of what was written.  The connections follow each other on the same     *)
(* address and port; what their ends write may come while the next one is  *)
(* already served.  A step of a script is [do, arg, class].                *)
(***************************************************************************)
EXTENDS SmtpCampaign

CONSTANTS
  Client,       \* the address and port
  Scripts,      \* what the connections may do: a set of functions from Conns
  Windows,      \* the windows <<since, until>> a batch may cover
  MaxTime,      \* bound: the last moment
  SlowSteps,    \* bound: the steps that time may pass before
  Grain,        \* the precision of Postfix's timestamps
  VerdictDelay, \* bound: how long the spam filter takes
  Losable,      \* bound: the events that may be lost
  MaxDropped    \* bound: how many events the queue drops

ASSUME TrafficAssumption ==
  /\ IsFiniteSet(Conns) /\ Conns = 1 .. Cardinality(Conns)
  /\ "none" \notin Pids /\ "postscreen" \notin Pids /\ Client # NoClient
  /\ Windows \subseteq Int \X Int
  /\ MaxTime \in Nat /\ Grain \in Nat \ {0} /\ VerdictDelay \in Nat /\ MaxDropped \in Nat

\* --tolerance covers the rounding of Postfix's timestamps, and at least an instant.
ASSUME ToleranceAssumption == Grain - 1 <= Tolerance /\ 0 < Tolerance

\* What the protocol asks of a session: it is opened first, and smtpd has the client before
\* it queues a message or shakes hands; STARTTLS is accepted once, the ClientHello follows
\* it once, and nothing is queued between that and the end of the handshake.
Once(s, do)      == \A i, j \in DOMAIN s : s[i].do = do /\ s[j].do = do => i = j
After(s, do, by) == \A j \in DOMAIN s : s[j].do = do => \E i \in 1 .. j : s[i].do = by
Session(s) ==
  /\ s \in Seq([do : STRING, arg : STRING, class : STRING]) /\ s # <<>> /\ s[1].do = "open"
  /\ \A do \in {"open", "connect", "accept", "hello"} : Once(s, do)
  /\ After(s, "queue", "connect") /\ After(s, "handshake", "connect")
  /\ After(s, "hello", "accept") /\ After(s, "handshake", "hello")
  /\ \A i, j, k \in DOMAIN s :
       s[i].do = "hello" /\ s[j].do = "queue" /\ s[k].do = "handshake" => j < i \/ k < j

\* Postscreen, where there is one, sees every client first; elsewhere smtpd does.
Evidence == {"screen", "connect", "pregreet", "reject"}
Screened(s) == \A do \in Evidence : After(s, do, "screen")
Unscreened(s) ==
  (\A i \in DOMAIN s : s[i].do # "screen") /\ \A do \in Evidence : After(s, do, "connect")

ASSUME ScriptsAssumption ==
  \A sc \in Scripts :
    /\ DOMAIN sc = Conns /\ \A c \in Conns : Session(sc[c])
    /\ (\A c \in Conns : Screened(sc[c])) \/ (\A c \in Conns : Unscreened(sc[c]))

VARIABLES
  now,
  script,    \* what each connection does
  step,      \* how many steps of it are done
  smtpd,     \* the process that serves each, "none" before and after
  gate,      \* what tlsgate knows of each: its end state, "new", "over"
  upgraded,  \* the connections that are encrypted
  events,    \* what tlsgate writes of each: no reader looks at the order between them
  log, verdicts,
  dropped,
  batch,     \* the input of the batch, if it was made
  report     \* and its output

world == <<script, step, smtpd, gate, upgraded>>
vars  == <<now, script, step, smtpd, gate, upgraded, events, log, verdicts, dropped, batch, report>>

NoBatch == [events |-> <<>>, log |-> <<>>, verdicts |-> {}]
NoReport == [credits |-> {}, campaign |-> Campaign(<<>>, <<>>, Client)]

Init ==
  /\ now = 0 /\ script \in Scripts /\ step = [c \in Conns |-> 0]
  /\ smtpd = [c \in Conns |-> "none"] /\ gate = [c \in Conns |-> "new"] /\ upgraded = {}
  /\ events = [c \in Conns |-> <<>>] /\ log = <<>> /\ verdicts = {} /\ dropped = 0
  /\ batch = NoBatch /\ report = NoReport

-----------------------------------------------------------------------------
Open    == batch = NoBatch

\* The client has gone: its script is over.
Gone(c) == step[c] = Len(script[c])

\* What is done next: `do' of connection c; nothing when every client has gone.
Comes(c, do) == /\ ~Gone(c) /\ \A b \in Conns : b < c => Gone(b)
                /\ script[c][step[c] + 1].do = do
Pause(does)  == (\A c \in Conns : Gone(c)) \/ \E c \in Conns, do \in does : Comes(c, do)

Tick ==
  /\ Open /\ now < MaxTime /\ now' = now + 1 /\ Pause(SlowSteps)
  /\ UNCHANGED <<world, events, log, verdicts, dropped, batch, report>>

Does(c, do) ==
  /\ Open /\ Comes(c, do)
  /\ step' = [step EXCEPT ![c] = @ + 1]
  /\ UNCHANGED <<now, script, batch, report>>

Arg(c)   == script[c][step[c] + 1].arg
Class(c) == script[c][step[c] + 1].class

\* Whether c did a step with this argument.
Did(c, do, arg) == \E i \in 1 .. step[c] : script[c][i].do = do /\ script[c][i].arg = arg

\* What the observer made of c's first command.
Behavior(c) ==
  IF Did(c, "pregreet", "HELO") THEN "HELO"
  ELSE IF \E verb \in {"USER", "EHLO"} : Did(c, "pregreet", verb) THEN "EHLO" ELSE "quiet"

\* tlsgate writes an event, or the queue drops it.
Emits(c, type, state) ==
  \/ /\ events' = [events EXCEPT ![c] = Append(@, [type |-> type, conn |-> c, client |-> Client, at |-> now,
                                  state |-> state,
                                  behavior |-> IF type = "end" THEN Behavior(c) ELSE "missing"])]
     /\ UNCHANGED dropped
  \/ type \in Losable /\ dropped < MaxDropped /\ dropped' = dropped + 1 /\ UNCHANGED events

\* Postfix writes a line: its timestamps are rounded.
Rounded == now - (now % Grain)
Logs(c, kind, pid, arg) ==
  log' = Append(log, [kind |-> kind, pid |-> pid, client |-> Client, at |-> Rounded,
                      arg |-> arg,
                      ghost |-> [conn |-> c, secure |-> c \in upgraded, n |-> Len(log)]])

Silent  == UNCHANGED <<events, dropped>>
NoLines == UNCHANGED <<log, verdicts>>

Start(c) == Does(c, "open") /\ Emits(c, "start", "none") /\ gate' = [gate EXCEPT ![c] = "no_observed_upgrade"]
            /\ NoLines /\ UNCHANGED <<smtpd, upgraded>>

\* The observer gives up: it writes no more than the end.
Blind(c) == Does(c, "blind") /\ gate' = [gate EXCEPT ![c] = "observer_incomplete"]
            /\ Silent /\ NoLines /\ UNCHANGED <<smtpd, upgraded>>

\* Postscreen sees the client, hears it speak too early, rejects its recipient.
Screen(c)   == Does(c, "screen") /\ Logs(c, "screen", "postscreen", "none")
               /\ Silent /\ UNCHANGED <<verdicts, smtpd, gate, upgraded>>
Pregreet(c) == Does(c, "pregreet") /\ Logs(c, "pregreet", "postscreen", Arg(c))
               /\ Silent /\ UNCHANGED <<verdicts, smtpd, gate, upgraded>>
Reject(c)   == Does(c, "reject") /\ Logs(c, "reject", smtpd[c], Arg(c))
               /\ Silent /\ UNCHANGED <<verdicts, smtpd, gate, upgraded>>

\* smtpd takes the client.
Connect(c) ==
  /\ Does(c, "connect")
  /\ \E p \in Pids : (\A b \in Conns : smtpd[b] # p)
                     /\ smtpd' = [smtpd EXCEPT ![c] = p] /\ Logs(c, "connect", p, "none")
  /\ Silent /\ UNCHANGED <<verdicts, gate, upgraded>>

\* STARTTLS is accepted, the ClientHello passes, the handshake is logged.
Seeing(c) == gate[c] # "observer_incomplete"
Accept(c) ==
  /\ Does(c, "accept")
  /\ IF Seeing(c) THEN Emits(c, "accepted", "accepted")
                       /\ gate' = [gate EXCEPT ![c] = "starttls_accepted_no_fingerprint"]
     ELSE Silent /\ UNCHANGED gate
  /\ NoLines /\ UNCHANGED <<smtpd, upgraded>>
Hello(c) ==
  /\ Does(c, "hello") /\ upgraded' = upgraded \cup {c}
  /\ IF Seeing(c) THEN Emits(c, "fingerprint", "none") /\ gate' = [gate EXCEPT ![c] = "fingerprinted"]
     ELSE Silent /\ UNCHANGED gate
  /\ NoLines /\ UNCHANGED smtpd
Handshake(c) == Does(c, "handshake") /\ Logs(c, "tls", smtpd[c], "none")
                /\ Silent /\ UNCHANGED <<verdicts, smtpd, gate, upgraded>>

\* smtpd queues a message, the spam filter may judge it.  A queue id holds the microsecond:
\* the same smtpd does not use it again within a timestamp.
Queue(c) ==
  /\ Does(c, "queue") /\ Logs(c, "queue", smtpd[c], Arg(c))
  /\ ~\E l \in ToSet(log) : /\ l.kind = "queue" /\ l.pid = smtpd[c] /\ l.arg = Arg(c)
                            /\ l.at = Rounded
  /\ IF Class(c) = "none" THEN UNCHANGED verdicts
     ELSE \E d \in 0 .. VerdictDelay :
            verdicts' = verdicts \cup {[queue |-> Arg(c), at |-> now + d, class |-> Class(c),
                                        ghost |-> [conn |-> c, n |-> Len(log)]]}
  /\ Silent /\ UNCHANGED <<smtpd, gate, upgraded>>

\* smtpd notices that the client has gone, and so does tlsgate.  Of smtpd's line only
\* the order to the next connect matters.
Disconnect(c) ==
  /\ Open /\ Gone(c) /\ smtpd[c] # "none" /\ Pause({"open", "connect"})
  /\ Logs(c, "disconnect", smtpd[c], "none") /\ smtpd' = [smtpd EXCEPT ![c] = "none"]
  /\ UNCHANGED <<now, script, step, gate, upgraded, events, verdicts, dropped, batch, report>>
End(c) ==
  /\ Open /\ Gone(c) /\ gate[c] # "over"
  /\ Emits(c, "end", gate[c]) /\ gate' = [gate EXCEPT ![c] = "over"]
  /\ UNCHANGED <<now, script, step, smtpd, upgraded, log, verdicts, batch, report>>

-----------------------------------------------------------------------------
(* mx-smtp-correlate.py, once everything is written.                        *)

\* select_events: the sessions that lie in the window, whole.
Whole(c, since, until) ==
  \E s, e \in ToSet(events[c]) :
    s.type = "start" /\ e.type = "end" /\ since <= s.at /\ s.at <= e.at /\ e.at <= until

Sessions(since, until) ==
  LET taken[n \in 0 .. Cardinality(Conns)] ==
        IF n = 0 THEN <<>>
        ELSE IF Whole(n, since, until) THEN taken[n - 1] \o events[n] ELSE taken[n - 1]
  IN taken[Cardinality(Conns)]

\* The lines of the log in the window.
Lines(since, until) ==
  LET taken[n \in 0 .. Len(log)] ==
        IF n = 0 THEN <<>>
        ELSE IF log[n].at \in since .. until THEN Append(taken[n - 1], log[n]) ELSE taken[n - 1]
  IN taken[Len(log)]

Batch(since, until) ==
  /\ Open /\ \A c \in Conns : gate[c] = "over" /\ smtpd[c] = "none"
  /\ LET es == Sessions(since, until)
         ls == Lines(since, until)
         vs == {v \in verdicts : v.at >= since /\ v.at <= until}
     IN /\ batch' = [events |-> es, log |-> ls, verdicts |-> vs]
        /\ report' = [credits |-> Correlate(es, ls, vs), campaign |-> Campaign(es, ls, Client)]
  /\ UNCHANGED <<now, world, events, log, verdicts, dropped>>

Next ==
  \/ Tick
  \/ \E c \in Conns :
       \/ Start(c) \/ Blind(c) \/ Screen(c) \/ Pregreet(c) \/ Reject(c) \/ Connect(c)
       \/ Accept(c) \/ Hello(c) \/ Handshake(c) \/ Queue(c) \/ Disconnect(c) \/ End(c)
  \/ \E w \in Windows : Batch(w[1], w[2])

Spec == Init /\ [][Next]_vars

-----------------------------------------------------------------------------
(* Properties.                                                              *)

\* The batch holds c's session.
Batched(c) == \E e \in ToSet(batch.events) : e.conn = c

\* A message is credited to the connection that carried it, whatever is reused around it
\* (matchSMTPConn, ambiguous matches are refused).  The exception is a connection whose
\* own session is not in the batch: its neighbour on the port may be the only match.
CreditedToItsOwn ==
  \A r \in report.credits : r.conn # NoConn /\ r.conn # r.ghost.conn => ~Batched(r.ghost.conn)

\* A message that is credited to its own connection and reported as sent over TLS was
\* sent after the upgrade, one reported as plaintext before it, though timestamps are
\* rounded (messageSMTPTransport).
TransportIsTrue ==
  \A r \in report.credits :
    r.conn = r.ghost.conn =>
      /\ r.transport = "starttls"  => r.ghost.secure
      /\ r.transport = "plaintext" => ~r.ghost.secure

\* The verdict of one message is never given to another that has its queue id, as long
\* as the log shows both.
VerdictIsOwn ==
  \A r \in report.credits : \A v \in r.verdicts :
    v.ghost.n # r.ghost.n => \A l \in ToSet(batch.log) : l.ghost.n # v.ghost.n

\* Every session of smtpd that begins in these lines ends in them.
Finished(lines) ==
  \A i \in DOMAIN lines : lines[i].kind = "connect" =>
    \E j \in i .. Len(lines) : lines[j].kind = "disconnect" /\ lines[j].pid = lines[i].pid

\* Events that are read twice change neither report, lines of the log that are read twice
\* do not change the correlation: a repeated event is no conflict, a message has one
\* identity (readSMTPConnectionsStats, smtpMessageIdentity).  A log that leaves a session
\* of smtpd open is excepted: read again, its first lines would belong to it.  The campaign
\* report counts evidence, so lines that are read twice do change that.
ReplayChangesNothing ==
  LET twice == batch.events \o batch.events
  IN /\ Correlate(twice, batch.log, batch.verdicts) = report.credits
     /\ Finished(batch.log) =>
          Correlate(twice, batch.log \o batch.log, batch.verdicts) = report.credits
     /\ Campaign(twice, batch.log, Client) = report.campaign

\* Evidence may be attributed to c's session: it is in the batch and short enough.
Attributable(c) ==
  /\ Batched(c)
  /\ \A s, e \in ToSet(events[c]) :
       s.type = "start" /\ e.type = "end" => e.at - s.at <= MaxLifetime

\* Evidence that is joined to a connection is that connection's alone, unless what it
\* shares the port with is not attributable itself, not in the batch or too long; and who
\* is reported for a campaign did what the campaign does: both observers saw it
\* (matchingSMTPConnections, classifySMTPCampaignSignature).
EvidenceIsOwn ==
  \A i \in DOMAIN report.campaign.records :
    LET r == report.campaign.records[i] IN
    /\ r.conn # NoConn => \A c \in r.item.of \ {r.conn} : ~Attributable(c)
    /\ r.signature = "pregreet-ehlo-user" => \E c \in r.item.of : Did(c, "pregreet", "USER")
    /\ r.signature = "pregreet-helo-support" =>
         \E c \in r.item.of : Did(c, "pregreet", "HELO") /\ Did(c, "reject", "support")
=============================================================================
