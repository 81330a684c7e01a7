---------------------------- MODULE SmtpCampaign -----------------------------
(***************************************************************************)
(* What classify-smtp makes of the same events and log: the evidence that  *)
(* postscreen and smtpd logged, session by session, each joined to the one *)
(* connection whose lifetime holds all of it and compared with two known   *)
(* campaigns.  report-smtp validates the report before it is sent.         *)
(*                                                                         *)
(* A PREGREET line's arg is "HELO", "USER" (EHLO user) or another verb; a  *)
(* rejection's is "support" (the sender is support@ the HELO domain),      *)
(* "other", or "bare" when a field is missing.  `of' collects the ghosts   *)
(* of the lines that an item was made of.                                  *)
(***************************************************************************)
EXTENDS SmtpCorrelate

CONSTANT MaxLifetime   \* --max-lifetime

ASSUME CampaignAssumption == MaxLifetime \in Nat

-----------------------------------------------------------------------------
(* Evidence, from the log: at most one item of a client is open at a time.  *)

NoItem == [client |-> NoClient, start |-> Never, pregreetAt |-> Never, rejectAt |-> Never,
           lastAt |-> Never, verb |-> "none", rejected |-> "no",
           screened |-> FALSE, passed |-> FALSE, of |-> {}]

Nothing == [open |-> NoItem, done |-> <<>>, malformed |-> 0]

\* Close the client's item, if there is one.
Flush(acc) ==
  IF acc.open = NoItem THEN acc ELSE [acc EXCEPT !.done = Append(@, acc.open), !.open = NoItem]

\* Whether a line at this time can belong to the item that is open.
Follows(item, at) == at >= item.lastAt /\ at - item.lastAt <= MaxLifetime

Fresh(l) == [NoItem EXCEPT !.client = l.client, !.start = l.at, !.lastAt = l.at,
                           !.of = {l.ghost.conn}]

\* Mutant: a session that smtpd begins is taken for the one before it.
ScreenMerges(acc, l) ==
  IF acc.open # NoItem
  THEN [acc EXCEPT !.open.passed = TRUE, !.open.lastAt = l.at, !.open.of = @ \cup {l.ghost.conn}]
  ELSE [acc EXCEPT !.open = [Fresh(l) EXCEPT !.screened = l.kind = "screen",
                                             !.passed = l.kind = "connect"]]

\* CONNECT of postscreen, connect of smtpd: smtpd's is the same session when it takes
\* over from postscreen, every other one begins a session.
ReadScreen(acc, l) ==
  IF l.kind = "connect" /\ acc.open.screened /\ ~acc.open.passed /\ Follows(acc.open, l.at)
  THEN [acc EXCEPT !.open.passed = TRUE, !.open.lastAt = l.at, !.open.of = @ \cup {l.ghost.conn}]
  ELSE [Flush(acc) EXCEPT !.open = [Fresh(l) EXCEPT !.screened = l.kind = "screen",
                                                    !.passed = l.kind = "connect"]]

ReadPregreet(acc, l) ==
  LET stale == acc.open # NoItem /\ (acc.open.verb # "none" \/ ~Follows(acc.open, l.at))
      kept  == IF stale THEN Flush(acc) ELSE acc
      item  == IF kept.open = NoItem THEN Fresh(l) ELSE kept.open
  IN [kept EXCEPT !.open = [item EXCEPT !.pregreetAt = l.at, !.lastAt = l.at, !.verb = l.arg,
                                        !.of = @ \cup {l.ghost.conn}]]

\* A rejection completes its item.
ReadReject(acc, l) ==
  LET stale == acc.open = NoItem \/ ~Follows(acc.open, l.at)
      kept  == IF stale THEN Flush(acc) ELSE acc
      item  == IF stale THEN Fresh(l) ELSE kept.open
  IN IF l.arg = "bare" THEN [kept EXCEPT !.malformed = @ + 1]
     ELSE Flush([kept EXCEPT !.open = [item EXCEPT !.rejectAt = l.at, !.lastAt = l.at,
                                                   !.rejected = l.arg,
                                                   !.of = @ \cup {l.ghost.conn}]])

ReadEvidenceLine(acc, l) ==
  CASE l.kind \in {"screen", "connect"} -> ReadScreen(acc, l)
    [] l.kind = "pregreet"              -> ReadPregreet(acc, l)
    [] l.kind = "reject"                -> ReadReject(acc, l)
    [] OTHER                            -> acc

\* readSMTPCampaignEvidence, for the lines of one client: no line of another touches
\* its item.
ReadEvidence(log, client) ==
  LET read[n \in 0 .. Len(log)] ==
        IF n = 0 THEN Nothing
        ELSE IF log[n].client = client THEN ReadEvidenceLine(read[n - 1], log[n])
        ELSE read[n - 1]
  IN Flush(read[Len(log)])

-----------------------------------------------------------------------------
(* Joining and classifying.                                                 *)

\* matchingSMTPConnections: those whose lifetime holds every time of the evidence.
Holding(conns, item) ==
  {c \in Conns :
     LET k == conns[c] IN
     /\ k.client = item.client /\ ~k.invalid
     /\ k.start # NoStamp /\ k.end # NoStamp
     /\ k.end.at - k.start.at \in 0 .. MaxLifetime
     /\ \A at \in {item.start, item.pregreetAt, item.rejectAt, item.lastAt} \ {Never} :
          at \in k.start.at - Tolerance .. k.end.at + Tolerance}

\* classifySMTPCampaignSignature: the observer and postscreen must agree.
Signature(behavior, item) ==
  CASE behavior = "EHLO" /\ item.verb = "USER" -> "pregreet-ehlo-user"
    [] behavior = "HELO" /\ item.verb = "HELO" /\ item.rejected = "support" -> "pregreet-helo-support"
    [] OTHER -> "none"

Classify(conns, item) ==
  LET holding == Holding(conns, item)
      c       == CHOOSE x \in holding : TRUE
  IN IF Cardinality(holding) # 1
     THEN [item |-> item, conn |-> NoConn, signature |-> "none"]
     ELSE [item |-> item, conn |-> c, signature |-> Signature(conns[c].end.behavior, item)]

Count(records) ==
  [matched   |-> Cardinality({i \in DOMAIN records : records[i].signature # "none"}),
   unmatched |-> Cardinality({i \in DOMAIN records : records[i].signature = "none"})]

\* runSMTPCampaignClassificationExcluding; `known' are the connections in the events.
Campaign(events, log, client) ==
  LET conns    == ReadConnections(events)
      known    == {c \in Conns : conns[c] # Unseen}
      evidence == ReadEvidence(log, client)
      records  == [i \in DOMAIN evidence.done |-> Classify(conns, evidence.done[i])]
  IN [records   |-> records,
      count     |-> Count(records),
      sessions  |-> Len(evidence.done),
      known     |-> Cardinality(known),
      without   |-> Cardinality({c \in known : \A i \in DOMAIN records : records[i].conn # c}),
      malformed |-> evidence.malformed]
=============================================================================
