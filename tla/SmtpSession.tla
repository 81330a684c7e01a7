---------------------------- MODULE SmtpSession -----------------------------
(***************************************************************************)
(* The observation of one SMTP connection: handleSMTPConn, the two pumps   *)
(* of proxySMTPBidirectional and the smtpObserver between them, with a     *)
(* client that pipelines as far as SMTP lets it and a backend that answers *)
(* in order.  A pump shows the observer what it has read before it writes  *)
(* it.  Streams are sequences of lines; a read may end within a line.  Two *)
(* lines in one read are two reads here, which shows the observer the same *)
(* but for a ClientHello behind a line: first says whether a read starts   *)
(* with what it is about.  A ClientHello is taken to hold no line feed.    *)
(***************************************************************************)
EXTENDS Integers, Sequences, FiniteSets

CONSTANTS
  MaxLines,     \* bound: lines and handshake messages the client sends
  MaxCommands,  \* the bound of 256 on commands without a reply
  Early         \* whether the client may speak TLS before STARTTLS is accepted

ASSUME SessionAssumption ==
  /\ MaxLines \in Nat
  /\ MaxCommands \in Nat \ {0}
  /\ Early \in BOOLEAN

VARIABLES
  phase,    \* of handleSMTPConn
  client,   \* how far the client is in the protocol, and the replies it awaits
  begun,    \* the line of which the client's pump has read a part, or none
  up,       \* what the client's pump has observed, then what the backend has to read
  backend,  \* how far the backend is in the protocol
  down,     \* what the backend has sent, then what the server's pump has observed
  obs,      \* smtpObserver
  report,   \* the end event: state and the STARTTLS outcome of behavior
  seen,     \* history: what the pumps have read that a report may be about
  lines     \* lines sent, bounded by MaxLines

vars == <<phase, client, begun, up, backend, down, obs, report, seen, lines>>

None == "none"

\* BAD is a line the observer cannot go on after: BDAT without a usable size, or more
\* than the line buffer holds.
Commands == {"EHLO", "DATA", "BDAT", "STARTTLS", "BAD"}
Tls == {"hello", "alert"}
Lines == Commands \cup {"."} \cup Tls

\* A reply, and what it answers: to is known to nobody but the backend.
Codes == {"220", "250", "354", "500", "more", "long"}
Reply(code, to) == [code |-> code, to |-> to]
NoReply == Reply(None, None)
NoReport == [state |-> None, outcome |-> None]
Replies == [code : Codes, to : Commands \cup {".", "greeting"}]

States == {"fingerprinted", "starttls_accepted_no_fingerprint", "premature_tls",
           "observer_incomplete", "starttls_refused", "no_observed_upgrade"}

Init ==
  /\ phase = "dialing"
  /\ client = [mode |-> "command", owed |-> 1]
  /\ begun = None
  /\ up = [held |-> None, sent |-> <<>>]
  /\ backend = "silent"
  /\ down = [held |-> NoReply, begun |-> FALSE, sent |-> <<>>]
  /\ obs = [greeted |-> FALSE, commands |-> <<>>, inData |-> FALSE, bdat |-> FALSE,
            clientPart |-> FALSE, serverPart |-> FALSE, tlsArmed |-> FALSE,
            fingerprinted |-> FALSE, disabled |-> FALSE, premature |-> FALSE,
            refused |-> FALSE, outcome |-> ""]
  /\ report = NoReport
  /\ seen = {}
  /\ lines = 0

-----------------------------------------------------------------------------
(* The observer.  clientPart and serverPart: it holds a line without end.  *)

Watching == ~obs.fingerprinted /\ ~obs.disabled

\* A read that starts with a handshake record where a command is due.
TlsFirst(t, first) ==
  t = "hello" /\ first /\ ~obs.clientPart /\ ~obs.inData /\ ~obs.bdat

\* client, shown a part of line t, which BDAT's counter discards at once.
ObservePart(t, first) ==
  obs' = IF ~Watching \/ obs.tlsArmed \/ obs.bdat THEN obs
         ELSE IF TlsFirst(t, first)
         THEN [obs EXCEPT !.premature = TRUE, !.disabled = TRUE]
         ELSE [obs EXCEPT !.clientPart = TRUE]

\* observeTLS: a complete ClientHello or something else.
ObserveTls(t) ==
  obs' = IF t = "hello" THEN [obs EXCEPT !.fingerprinted = TRUE]
                        ELSE [obs EXCEPT !.disabled = TRUE]

\* client, on a complete line in plain text: a line of a message, of which only the
\* last counts, or a command.
ObserveText(t) ==
  LET read == [obs EXCEPT !.clientPart = FALSE] IN
  obs' = IF t = "BAD" \/ (~obs.inData /\ Len(obs.commands) >= MaxCommands)
         THEN [read EXCEPT !.disabled = TRUE]
         ELSE IF obs.inData /\ t # "." THEN read
         ELSE [read EXCEPT !.inData = FALSE,
                           !.commands = Append(@, t),
                           !.bdat = (t = "BDAT")]

\* Mutant: the end of a message is not taken for a command.
ObserveLineForgetsDot(t, first) ==
  \/ ~Watching /\ UNCHANGED obs
  \/ Watching /\ obs.tlsArmed /\ ObserveTls(t)
  \/ /\ Watching /\ ~obs.tlsArmed
     /\ \/ TlsFirst(t, first) /\ ObservePart(t, first)
        \/ obs.bdat /\ obs' = [obs EXCEPT !.bdat = FALSE]
        \/ ~obs.bdat /\ ~TlsFirst(t, first) /\ t \in Tls /\ ObservePart(t, first)
        \/ ~obs.bdat /\ t \notin Tls /\ obs.inData /\ t = "."
             /\ obs' = [obs EXCEPT !.clientPart = FALSE, !.inData = FALSE]
        \/ ~obs.bdat /\ t \notin Tls /\ ~(obs.inData /\ t = ".") /\ ObserveText(t)

\* client, shown the rest of line t.  A ClientHello has no end of line.
ObserveLine(t, first) ==
  \/ ~Watching /\ UNCHANGED obs
  \/ Watching /\ obs.tlsArmed /\ ObserveTls(t)
  \/ /\ Watching /\ ~obs.tlsArmed
     /\ \/ TlsFirst(t, first) /\ ObservePart(t, first)
        \/ obs.bdat /\ obs' = [obs EXCEPT !.bdat = FALSE]
        \/ ~obs.bdat /\ ~TlsFirst(t, first) /\ t \in Tls /\ ObservePart(t, first)
        \/ ~obs.bdat /\ t \notin Tls /\ ObserveText(t)

\* server, once greeted: a reply answers the oldest command.
ObserveAnswer(r) ==
  LET answered == Head(obs.commands)
      read == [obs EXCEPT !.serverPart = FALSE, !.commands = Tail(@)]
  IN obs' =
       IF answered = "STARTTLS" /\ r.code = "220"
       THEN [read EXCEPT !.outcome = "accepted", !.tlsArmed = TRUE,
                         !.clientPart = FALSE, !.commands = <<>>]
       ELSE IF answered = "STARTTLS"
       THEN [read EXCEPT !.outcome = "refused", !.refused = TRUE]
       ELSE [read EXCEPT !.inData = @ \/ (answered = "DATA" /\ r.code = "354")]

\* Mutant: the greeting is taken for an answer.
ObserveReplyAnyway(r) ==
  \/ (~Watching \/ obs.tlsArmed) /\ UNCHANGED obs
  \/ /\ Watching /\ ~obs.tlsArmed
     /\ \/ r.code = "long" /\ obs' = [obs EXCEPT !.disabled = TRUE]
        \/ r.code # "long" /\ (r.code = "more" \/ obs.commands = <<>>)
             /\ obs' = [obs EXCEPT !.serverPart = FALSE,
                                   !.greeted = @ \/ r.code # "more"]
        \/ r.code \notin {"long", "more"} /\ obs.commands # <<>> /\ ObserveAnswer(r)

\* Mutant: every line of a reply is taken for an answer.
ObserveReplyEveryLine(r) ==
  \/ (~Watching \/ obs.tlsArmed) /\ UNCHANGED obs
  \/ /\ Watching /\ ~obs.tlsArmed
     /\ \/ r.code = "long" /\ obs' = [obs EXCEPT !.disabled = TRUE]
        \/ r.code # "long" /\ (~obs.greeted \/ obs.commands = <<>>)
             /\ obs' = [obs EXCEPT !.serverPart = FALSE, !.greeted = TRUE]
        \/ r.code # "long" /\ obs.greeted /\ obs.commands # <<>> /\ ObserveAnswer(r)

\* server, shown the rest of a line: one that does not fit its buffer, one that the
\* reply goes on after, the greeting, or an answer.
ObserveReply(r) ==
  \/ (~Watching \/ obs.tlsArmed) /\ UNCHANGED obs
  \/ /\ Watching /\ ~obs.tlsArmed
     /\ \/ r.code = "long" /\ obs' = [obs EXCEPT !.disabled = TRUE]
        \/ r.code = "more" /\ obs' = [obs EXCEPT !.serverPart = FALSE]
        \/ r.code \notin {"long", "more"} /\ (~obs.greeted \/ obs.commands = <<>>)
             /\ obs' = [obs EXCEPT !.serverPart = FALSE, !.greeted = TRUE]
        \/ r.code \notin {"long", "more"} /\ obs.greeted /\ obs.commands # <<>>
             /\ ObserveAnswer(r)

State ==
  IF obs.fingerprinted THEN "fingerprinted"
  ELSE IF obs.tlsArmed THEN "starttls_accepted_no_fingerprint"
  ELSE IF obs.disabled /\ obs.premature THEN "premature_tls"
  ELSE IF obs.disabled THEN "observer_incomplete"
  ELSE IF obs.refused THEN "starttls_refused"
  ELSE IF ~obs.greeted \/ obs.clientPart \/ obs.serverPart THEN "observer_incomplete"
  ELSE "no_observed_upgrade"

\* snapshot, of which the STARTTLS outcome is kept.
Outcome ==
  IF obs.outcome # "" THEN obs.outcome ELSE IF obs.disabled THEN "unknown" ELSE "not_seen"

-----------------------------------------------------------------------------
(* The client and its pump.                                                *)

\* What the client may send: any commands without waiting for replies, but after DATA
\* and STARTTLS it waits, and TLS comes after 220 unless it is early.
MaySend ==
  CASE client.mode = "command" -> Commands \cup (IF Early THEN {"hello"} ELSE {})
    [] client.mode = "wait" -> IF Early THEN {"hello"} ELSE {}
    [] client.mode = "data" -> {"STARTTLS", "BAD", "."}
    [] client.mode = "bdat" -> {"STARTTLS"}
    [] client.mode = "tls" -> Tls

\* A command, or the end of a message, is owed a reply.
Owed(t) ==
  IF (client.mode = "command" /\ t \in Commands) \/ (client.mode = "data" /\ t = ".")
  THEN 1 ELSE 0

ClientSends(t) ==
  client' =
    [mode |-> IF t \in Tls THEN "tls"
              ELSE IF client.mode = "command" /\ t \in {"DATA", "STARTTLS"} THEN "wait"
              ELSE IF client.mode = "command" /\ t = "BDAT" THEN "bdat"
              ELSE IF client.mode = "bdat" \/ t = "." THEN "command"
              ELSE client.mode,
     owed |-> client.owed + Owed(t)]

\* What may excuse the observer from seeing an upgrade.
Excuses == {"early", "alert", "bad", "flood", "long"}

Notes(t) ==
  (IF t \in Tls /\ "accepted" \notin seen THEN {"early"} ELSE {})
    \cup (IF t = "BAD" /\ client.mode # "bdat" THEN {"bad"} ELSE {})
    \cup (IF t = "alert" THEN {"alert"} ELSE {})
    \cup (IF client.owed + Owed(t) > MaxCommands THEN {"flood"} ELSE {})

\* The pump is in Read.
ClientReads(t) == phase = "relaying" /\ up.held = None /\ t \in MaySend

ReadPart(t, first) ==
  /\ ClientReads(t)
  /\ begun = None /\ lines < MaxLines
  /\ begun' = t
  /\ ObservePart(t, first)
  /\ seen' = seen \cup (Notes(t) \cap {"early"})
  /\ UNCHANGED <<phase, client, up, backend, down, report, lines>>

ReadLine(t, first) ==
  /\ ClientReads(t)
  /\ begun \in {None, t} /\ lines < MaxLines
  /\ first => begun = None
  /\ begun' = None
  /\ ClientSends(t)
  /\ ObserveLine(t, first)
  /\ up' = [up EXCEPT !.held = t]
  /\ seen' = seen \cup Notes(t) \cup (IF t = "hello" THEN {t} ELSE {})
  /\ lines' = lines + 1
  /\ UNCHANGED <<phase, backend, down, report>>

WriteLine ==
  /\ phase = "relaying" /\ up.held # None
  /\ up' = [held |-> None, sent |-> Append(up.sent, up.held)]
  /\ UNCHANGED <<phase, client, begun, backend, down, obs, report, seen, lines>>

-----------------------------------------------------------------------------
(* The backend and its pump.                                               *)

Answers(replies, mode) ==
  /\ backend' = mode
  /\ down' = [down EXCEPT !.sent = @ \o replies]
  /\ UNCHANGED <<phase, client, begun, obs, report, seen, lines>>

Greet ==
  /\ phase = "relaying" /\ backend = "silent"
  /\ Answers(<<Reply("220", "greeting")>>, "command")
  /\ UNCHANGED up

\* A command: DATA and STARTTLS change the mode if they are accepted, BDAT is answered
\* after its chunk, EHLO in several lines.
Answer(t) ==
  \/ t = "EHLO" /\ \E c \in {"more", "long"} :
                     Answers(<<Reply(c, t), Reply("250", t)>>, "command")
  \/ t = "DATA" /\ Answers(<<Reply("354", t)>>, "data")
  \/ t = "STARTTLS" /\ Answers(<<Reply("220", t)>>, "tls")
  \/ t = "BDAT" /\ Answers(<<>>, "bdat")
  \/ t \in Commands \ {"EHLO", "BDAT"} /\ Answers(<<Reply("500", t)>>, "command")
  \/ t \in Tls /\ Answers(<<>>, "command")

Serve ==
  /\ phase = "relaying" /\ up.sent # <<>>
  /\ up' = [up EXCEPT !.sent = Tail(@)]
  /\ LET t == Head(up.sent) IN
     \/ backend = "command" /\ Answer(t)
     \/ backend = "data" /\ t = "." /\ Answers(<<Reply("250", ".")>>, "command")
     \/ backend = "data" /\ t # "." /\ Answers(<<>>, "data")
     \/ backend = "bdat" /\ \E c \in {"250", "500"} : Answers(<<Reply(c, "BDAT")>>, "command")
     \/ backend = "tls" /\ Answers(<<>>, "tls")

ReadReplyPart ==
  /\ phase = "relaying" /\ down.held = NoReply /\ down.sent # <<>> /\ ~down.begun
  /\ down' = [down EXCEPT !.begun = TRUE]
  /\ obs' = IF Watching /\ ~obs.tlsArmed THEN [obs EXCEPT !.serverPart = TRUE] ELSE obs
  /\ UNCHANGED <<phase, client, begun, up, backend, report, seen, lines>>

Facts(r) ==
  IF r.code = "long" THEN {"long"}
  ELSE IF r.to = "STARTTLS" THEN {IF r.code = "220" THEN "accepted" ELSE "refused"}
  ELSE {}

ReadReply ==
  /\ phase = "relaying" /\ down.held = NoReply /\ down.sent # <<>>
  /\ LET r == Head(down.sent) IN
     /\ down' = [held |-> r, begun |-> FALSE, sent |-> Tail(down.sent)]
     /\ ObserveReply(r)
     /\ seen' = seen \cup Facts(r)
  /\ UNCHANGED <<phase, client, begun, up, backend, report, lines>>

\* The client has the answer to what it waits for when it is owed no other.
Receives(r) ==
  IF r.code \in {"more", "long"} THEN client
  ELSE [mode |-> IF client.mode # "wait" \/ client.owed > 1 THEN client.mode
                 ELSE IF r.code = "354" THEN "data"
                 ELSE IF r.code = "220" THEN "tls" ELSE "command",
        owed |-> client.owed - 1]

WriteReply ==
  /\ phase = "relaying" /\ down.held # NoReply
  /\ client' = Receives(down.held)
  /\ down' = [down EXCEPT !.held = NoReply]
  /\ UNCHANGED <<phase, begun, up, backend, obs, report, seen, lines>>

-----------------------------------------------------------------------------
(* handleSMTPConn.                                                         *)

Ends(state, outcome) ==
  /\ phase' = "ended"
  /\ report' = [state |-> state, outcome |-> outcome]
  /\ UNCHANGED <<client, begun, up, backend, down, obs, seen, lines>>

\* Over its rate limit: no event but the log's.
Refuse ==
  /\ phase = "dialing"
  /\ phase' = "ended"
  /\ UNCHANGED <<client, begun, up, backend, down, obs, report, seen, lines>>

\* The backend cannot be reached, or not be sent the PROXY header.
SetupFails == phase = "dialing" /\ Ends("observer_incomplete", None)

Connect ==
  /\ phase = "dialing"
  /\ phase' = "relaying"
  /\ UNCHANGED <<client, begun, up, backend, down, obs, report, seen, lines>>

\* Both pumps have returned, wherever they were.
Finish == phase = "relaying" /\ Ends(State, Outcome)

Next ==
  \/ \E t \in Lines, first \in BOOLEAN : ReadPart(t, first) \/ ReadLine(t, first)
  \/ WriteLine \/ Greet \/ Serve \/ ReadReplyPart \/ ReadReply \/ WriteReply
  \/ Refuse \/ SetupFails \/ Connect \/ Finish

Spec == Init /\ [][Next]_vars

-----------------------------------------------------------------------------
TypeOK ==
  /\ phase \in {"dialing", "relaying", "ended"}
  /\ client \in [mode : {"command", "wait", "data", "bdat", "tls"}, owed : Nat]
  /\ begun \in Lines \cup {None}
  /\ up \in [held : Lines \cup {None}, sent : Seq(Lines)]
  /\ backend \in {"silent", "command", "data", "bdat", "tls"}
  /\ down \in [held : Replies \cup {NoReply}, begun : BOOLEAN, sent : Seq(Replies)]
  /\ obs \in [greeted : BOOLEAN, commands : Seq(Commands \cup {"."}), inData : BOOLEAN,
              bdat : BOOLEAN, clientPart : BOOLEAN, serverPart : BOOLEAN,
              tlsArmed : BOOLEAN, fingerprinted : BOOLEAN, disabled : BOOLEAN,
              premature : BOOLEAN, refused : BOOLEAN,
              outcome : {"", "accepted", "refused"}]
  /\ report \in [state : States \cup {None},
                 outcome : {None, "unknown", "not_seen", "refused", "accepted"}]
  /\ seen \subseteq Excuses \cup {"accepted", "refused", "hello"}
  /\ lines \in 0 .. MaxLines

\* The lines that end a reply, and which of them, in order, line k is.
Final(r)   == r.code \notin {"more", "long"}
Finals(s)  == {k \in DOMAIN s : Final(s[k])}
Rank(I, k) == Cardinality({i \in I : i <= k})

\* What the observer takes the next replies to answer.
Expected == IF obs.greeted THEN obs.commands ELSE <<"greeting">> \o obs.commands

\* The commands the observer holds are those without an observed reply, in order: each
\* reply on its way answers the command it will be paired with, and when the backend
\* has answered all it was sent, no command is left over.
RepliesPaired ==
  phase = "relaying" /\ Watching /\ ~obs.tlsArmed =>
    /\ \A k \in Finals(down.sent) :
         LET i == Rank(Finals(down.sent), k)
         IN i <= Len(Expected) /\ down.sent[k].to = Expected[i]
    /\ up.held = None /\ up.sent = <<>> /\ backend = "command" =>
         Cardinality(Finals(down.sent)) = Len(Expected)

\* What a report says of an upgrade happened: it was accepted, refused or not seen only
\* if the replies to STARTTLS say so, a fingerprint is of a handshake after an
\* acceptance, and TLS was premature only if the client spoke it unasked.  A report may
\* say less than happened: that an observer gave up, or was cut short.
ReportIsTrue ==
  /\ report.state = "fingerprinted" => {"accepted", "hello"} \subseteq seen
  /\ report.state = "starttls_accepted_no_fingerprint" => "accepted" \in seen
  /\ report.state = "premature_tls" => "early" \in seen
  /\ report.state = "starttls_refused" => "refused" \in seen /\ "accepted" \notin seen
  /\ report.state = "no_observed_upgrade" =>
       seen \cap {"accepted", "refused", "hello"} = {}
  /\ report.outcome = "accepted" => "accepted" \in seen
  /\ report.outcome = "refused" => "refused" \in seen /\ ("accepted" \in seen => obs.disabled)
  /\ report.outcome = "not_seen" => seen \cap {"accepted", "refused"} = {}

\* A client that upgrades is fingerprinted, unless it speaks early or malformed TLS or
\* a bound of the observer is met.
UpgradeIsSeen == "hello" \in seen /\ seen \cap Excuses = {} => obs.fingerprinted
=============================================================================
