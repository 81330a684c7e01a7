-------------------------- MODULE SmtpTrafficProofs --------------------------
(***************************************************************************)
(* The properties of SmtpTraffic, for every number of connections, every   *)
(* script that a session may follow, every window and every delay.         *)
(*                                                                         *)
(*   1. WorldInv: what tlsgate, Postfix and the spam filter write is true  *)
(*      of the connections, in order and, up to Grain, at its time.        *)
(*   2. TrafficInv: a batch is an excerpt of it, of whole sessions and of  *)
(*      a stretch of the log, and the report is made of that batch.        *)
(*   3. What the passes over a batch read is true of it, by induction over *)
(*      the items read: ConnectionsRead, MessagesRead, EvidenceFound.      *)
(*   4. Each property follows in the state of the report.                  *)
(*                                                                         *)
(* The passes are recursive functions; that they have a value, and         *)
(* induction over their length, come from the well-foundedness of          *)
(* inclusion on finite sets, the one form of induction that takes no       *)
(* operator as a parameter.                                                *)
(***************************************************************************)
EXTENDS SmtpTraffic, SequenceTheorems, FiniteSetTheorems, WellFoundedInduction, TLAPS

\* Induction over the natural numbers, from the well-foundedness of inclusion.
LEMMA Induction ==
  ASSUME NEW S, 0 \in S, \A n \in Nat : n \in S => n + 1 \in S
  PROVE  Nat \subseteq S
<1> SUFFICES ASSUME NEW m \in Nat, m \notin S PROVE FALSE
  OBVIOUS
<1> DEFINE R == StrictSubsetOrdering(Nat)
           F == FiniteSubsetsOf(Nat)
           T == {0 .. k : k \in Nat \ S}
<1>1. IsWellFoundedOn(R, F)
  BY FS_StrictSubsetOrderingWellFounded
<1>2. T \subseteq F
  <2> SUFFICES ASSUME NEW k \in Nat PROVE 0 .. k \in F
    OBVIOUS
  <2>1. IsFiniteSet(0 .. k)
    BY FS_Interval, 0 \in Int, k \in Int
  <2> QED BY <2>1 DEF FiniteSubsetsOf
<1>3. T # {}
  OBVIOUS
<1> HIDE DEF F
<1>4. PICK x \in T : \A y \in T : ~(<<y, x>> \in R)
  <2> HIDE DEF T, R
  <2> QED BY <1>1, <1>2, <1>3, WFMin
<1>5. PICK k \in Nat \ S : x = 0 .. k
  OBVIOUS
<1>6. k # 0 /\ k - 1 \in Nat \ S
  <2>1. k # 0
    BY <1>5
  <2>2. k - 1 \in Nat /\ k = (k - 1) + 1
    BY <2>1
  <2> QED BY <2>1, <2>2
<1>7. 0 .. k - 1 \in T
  BY <1>6
<1>8. <<0 .. k - 1, 0 .. k>> \in R
  <2>1. 0 .. k - 1 \subseteq 0 .. k /\ k \in 0 .. k /\ k \notin 0 .. k - 1
    BY <1>5, <1>6
  <2>2. 0 .. k - 1 \in SUBSET Nat /\ 0 .. k \in SUBSET Nat
    BY <1>6
  <2> QED BY <2>1, <2>2 DEF StrictSubsetOrdering
<1> QED BY <1>4, <1>5, <1>7, <1>8

-----------------------------------------------------------------------------
(* The passes over a batch: what each has read after n items.               *)

\* What has been read, or taken, after n items: the recursive functions of the model by name.
EventsRead(es) ==
  CHOOSE read : read = [n \in 0 .. Len(es) |->
    IF n = 0 THEN NothingSeen ELSE ReadEvent(read[n - 1], es[n])]

LinesRead(ls) ==
  CHOOSE read : read = [n \in 0 .. Len(ls) |->
    IF n = 0 THEN NothingRead ELSE ReadLine(read[n - 1], ls[n])]

EvidenceRead(ls, client) ==
  CHOOSE read : read = [n \in 0 .. Len(ls) |->
    IF n = 0 THEN Nothing
    ELSE IF ls[n].client = client THEN ReadEvidenceLine(read[n - 1], ls[n])
    ELSE read[n - 1]]

SessionsTaken(since, until) ==
  CHOOSE taken : taken = [n \in 0 .. Cardinality(Conns) |->
    IF n = 0 THEN <<>>
    ELSE IF Whole(n, since, until) THEN taken[n - 1] \o events[n] ELSE taken[n - 1]]

LinesTaken(since, until) ==
  CHOOSE taken : taken = [n \in 0 .. Len(log) |->
    IF n = 0 THEN <<>>
    ELSE IF log[n].at \in since .. until THEN Append(taken[n - 1], log[n]) ELSE taken[n - 1]]

\* Each event is read once, after those before it.
LEMMA EventsReadStep ==
  ASSUME NEW X, NEW es \in Seq(X)
  PROVE  /\ ReadConnections(es) = EventsRead(es)[Len(es)]
         /\ EventsRead(es)[0] = NothingSeen
         /\ \A n \in 1 .. Len(es) : EventsRead(es)[n] = ReadEvent(EventsRead(es)[n - 1], es[n])
<1> DEFINE Onto(x, n) == ReadEvent(x, es[n])
           Pass(k, g) == g = [n \in 0 .. k |-> IF n = 0 THEN NothingSeen ELSE Onto(g[n - 1], n)]
           S == {k \in Nat : \E g : Pass(k, g)}
<1>1. 0 \in S
  <2> DEFINE g == [n \in 0 .. 0 |-> NothingSeen]
  <2>1. Pass(0, g)
    OBVIOUS
  <2> QED BY <2>1
<1>2. ASSUME NEW k \in Nat, k \in S PROVE k + 1 \in S
  <2>1. PICK g : Pass(k, g)
    BY <1>2
  <2> DEFINE h == [n \in 0 .. k + 1 |-> IF n <= k THEN g[n] ELSE Onto(g[k], k + 1)]
  <2>2. ASSUME NEW n \in 0 .. k + 1
        PROVE  h[n] = IF n = 0 THEN NothingSeen ELSE Onto(h[n - 1], n)
    <3>1. CASE n = k + 1
      BY <3>1
    <3>2. CASE n \in 0 .. k
      <4>1. h[n] = g[n] /\ (n # 0 => h[n - 1] = g[n - 1])
        BY <3>2
      <4>2. g[n] = IF n = 0 THEN NothingSeen ELSE Onto(g[n - 1], n)
        BY <3>2, <2>1
      <4> HIDE DEF h
      <4> QED BY <4>1, <4>2
    <3> QED BY <3>1, <3>2
  <2>3. Pass(k + 1, h)
    BY <2>2
  <2> HIDE DEF Pass, h
  <2> QED BY <2>3
<1>3. Len(es) \in S
  <2> HIDE DEF S
  <2> QED BY <1>1, <1>2, Induction
<1>4. Pass(Len(es), EventsRead(es))
  BY <1>3 DEF EventsRead
<1>5. ReadConnections(es) = EventsRead(es)[Len(es)]
  BY DEF ReadConnections, EventsRead
<1>6. ASSUME NEW g, Pass(Len(es), g)
      PROVE  g[0] = NothingSeen /\ \A n \in 1 .. Len(es) : g[n] = Onto(g[n - 1], n)
  <2>1. Len(es) \in Nat
    OBVIOUS
  <2>2. \A n \in 0 .. Len(es) : g[n] = IF n = 0 THEN NothingSeen ELSE Onto(g[n - 1], n)
    BY <1>6, <2>1
  <2> HIDE DEF Pass
  <2> QED BY <2>1, <2>2
<1> HIDE DEF Pass
<1> QED BY <1>4, <1>5, <1>6

\* Each line is read once, after those before it.
LEMMA LinesReadStep ==
  ASSUME NEW X, NEW ls \in Seq(X)
  PROVE  /\ ReadMessages(ls) = LinesRead(ls)[Len(ls)].out
         /\ LinesRead(ls)[0] = NothingRead
         /\ \A n \in 1 .. Len(ls) : LinesRead(ls)[n] = ReadLine(LinesRead(ls)[n - 1], ls[n])
<1> DEFINE Onto(x, n) == ReadLine(x, ls[n])
           Pass(k, g) == g = [n \in 0 .. k |-> IF n = 0 THEN NothingRead ELSE Onto(g[n - 1], n)]
           S == {k \in Nat : \E g : Pass(k, g)}
<1>1. 0 \in S
  <2> DEFINE g == [n \in 0 .. 0 |-> NothingRead]
  <2>1. Pass(0, g)
    OBVIOUS
  <2> QED BY <2>1
<1>2. ASSUME NEW k \in Nat, k \in S PROVE k + 1 \in S
  <2>1. PICK g : Pass(k, g)
    BY <1>2
  <2> DEFINE h == [n \in 0 .. k + 1 |-> IF n <= k THEN g[n] ELSE Onto(g[k], k + 1)]
  <2>2. ASSUME NEW n \in 0 .. k + 1
        PROVE  h[n] = IF n = 0 THEN NothingRead ELSE Onto(h[n - 1], n)
    <3>1. CASE n = k + 1
      BY <3>1
    <3>2. CASE n \in 0 .. k
      <4>1. h[n] = g[n] /\ (n # 0 => h[n - 1] = g[n - 1])
        BY <3>2
      <4>2. g[n] = IF n = 0 THEN NothingRead ELSE Onto(g[n - 1], n)
        BY <3>2, <2>1
      <4> HIDE DEF h
      <4> QED BY <4>1, <4>2
    <3> QED BY <3>1, <3>2
  <2>3. Pass(k + 1, h)
    BY <2>2
  <2> HIDE DEF Pass, h
  <2> QED BY <2>3
<1>3. Len(ls) \in S
  <2> HIDE DEF S
  <2> QED BY <1>1, <1>2, Induction
<1>4. Pass(Len(ls), LinesRead(ls))
  BY <1>3 DEF LinesRead
<1>5. ReadMessages(ls) = LinesRead(ls)[Len(ls)].out
  BY DEF ReadMessages, LinesRead
<1>6. ASSUME NEW g, Pass(Len(ls), g)
      PROVE  g[0] = NothingRead /\ \A n \in 1 .. Len(ls) : g[n] = Onto(g[n - 1], n)
  <2>1. Len(ls) \in Nat
    OBVIOUS
  <2>2. \A n \in 0 .. Len(ls) : g[n] = IF n = 0 THEN NothingRead ELSE Onto(g[n - 1], n)
    BY <1>6, <2>1
  <2> HIDE DEF Pass
  <2> QED BY <2>1, <2>2
<1> HIDE DEF Pass
<1> QED BY <1>4, <1>5, <1>6

\* And so is each line of evidence.
LEMMA EvidenceReadStep ==
  ASSUME NEW X, NEW ls \in Seq(X), NEW client
  PROVE  /\ ReadEvidence(ls, client) = Flush(EvidenceRead(ls, client)[Len(ls)])
         /\ EvidenceRead(ls, client)[0] = Nothing
         /\ \A n \in 1 .. Len(ls) : EvidenceRead(ls, client)[n] =
              IF ls[n].client = client THEN ReadEvidenceLine(EvidenceRead(ls, client)[n - 1], ls[n])
              ELSE EvidenceRead(ls, client)[n - 1]
<1> DEFINE Onto(x, n) == IF ls[n].client = client THEN ReadEvidenceLine(x, ls[n]) ELSE x
           Pass(k, g) == g = [n \in 0 .. k |-> IF n = 0 THEN Nothing ELSE Onto(g[n - 1], n)]
           S == {k \in Nat : \E g : Pass(k, g)}
<1>1. 0 \in S
  <2> DEFINE g == [n \in 0 .. 0 |-> Nothing]
  <2>1. Pass(0, g)
    OBVIOUS
  <2> QED BY <2>1
<1>2. ASSUME NEW k \in Nat, k \in S PROVE k + 1 \in S
  <2>1. PICK g : Pass(k, g)
    BY <1>2
  <2> DEFINE h == [n \in 0 .. k + 1 |-> IF n <= k THEN g[n] ELSE Onto(g[k], k + 1)]
  <2>2. ASSUME NEW n \in 0 .. k + 1
        PROVE  h[n] = IF n = 0 THEN Nothing ELSE Onto(h[n - 1], n)
    <3>1. CASE n = k + 1
      BY <3>1
    <3>2. CASE n \in 0 .. k
      <4>1. h[n] = g[n] /\ (n # 0 => h[n - 1] = g[n - 1])
        BY <3>2
      <4>2. g[n] = IF n = 0 THEN Nothing ELSE Onto(g[n - 1], n)
        BY <3>2, <2>1
      <4> HIDE DEF h
      <4> QED BY <4>1, <4>2
    <3> QED BY <3>1, <3>2
  <2>3. Pass(k + 1, h)
    BY <2>2
  <2> HIDE DEF Pass, h
  <2> QED BY <2>3
<1>3. Len(ls) \in S
  <2> HIDE DEF S
  <2> QED BY <1>1, <1>2, Induction
<1>4. Pass(Len(ls), EvidenceRead(ls, client))
  BY <1>3 DEF EvidenceRead
<1>5. ReadEvidence(ls, client) = Flush(EvidenceRead(ls, client)[Len(ls)])
  BY DEF ReadEvidence, EvidenceRead
<1>6. ASSUME NEW g, Pass(Len(ls), g)
      PROVE  g[0] = Nothing /\ \A n \in 1 .. Len(ls) : g[n] = Onto(g[n - 1], n)
  <2>1. Len(ls) \in Nat
    OBVIOUS
  <2>2. \A n \in 0 .. Len(ls) : g[n] = IF n = 0 THEN Nothing ELSE Onto(g[n - 1], n)
    BY <1>6, <2>1
  <2> HIDE DEF Pass
  <2> QED BY <2>1, <2>2
<1> HIDE DEF Pass
<1> QED BY <1>4, <1>5, <1>6

\* The sessions of a window are put one after the other.
LEMMA SessionsTakenStep ==
  ASSUME NEW since, NEW until
  PROVE  /\ Sessions(since, until) = SessionsTaken(since, until)[Cardinality(Conns)]
         /\ SessionsTaken(since, until)[0] = <<>>
         /\ \A n \in 1 .. Cardinality(Conns) : SessionsTaken(since, until)[n] =
              IF Whole(n, since, until) THEN SessionsTaken(since, until)[n - 1] \o events[n]
              ELSE SessionsTaken(since, until)[n - 1]
<1> DEFINE Onto(x, n) == IF Whole(n, since, until) THEN x \o events[n] ELSE x
           Pass(k, g) == g = [n \in 0 .. k |-> IF n = 0 THEN <<>> ELSE Onto(g[n - 1], n)]
           S == {k \in Nat : \E g : Pass(k, g)}
<1>1. 0 \in S
  <2> DEFINE g == [n \in 0 .. 0 |-> <<>>]
  <2>1. Pass(0, g)
    OBVIOUS
  <2> QED BY <2>1
<1>2. ASSUME NEW k \in Nat, k \in S PROVE k + 1 \in S
  <2>1. PICK g : Pass(k, g)
    BY <1>2
  <2> DEFINE h == [n \in 0 .. k + 1 |-> IF n <= k THEN g[n] ELSE Onto(g[k], k + 1)]
  <2>2. ASSUME NEW n \in 0 .. k + 1
        PROVE  h[n] = IF n = 0 THEN <<>> ELSE Onto(h[n - 1], n)
    <3>1. CASE n = k + 1
      BY <3>1
    <3>2. CASE n \in 0 .. k
      <4>1. h[n] = g[n] /\ (n # 0 => h[n - 1] = g[n - 1])
        BY <3>2
      <4>2. g[n] = IF n = 0 THEN <<>> ELSE Onto(g[n - 1], n)
        BY <3>2, <2>1
      <4> HIDE DEF h
      <4> QED BY <4>1, <4>2
    <3> QED BY <3>1, <3>2
  <2>3. Pass(k + 1, h)
    BY <2>2
  <2> HIDE DEF Pass, h
  <2> QED BY <2>3
<1>3. Cardinality(Conns) \in S
  <2> HIDE DEF S
  <2> QED BY <1>1, <1>2, Induction, TrafficAssumption, FS_CardinalityType
<1>4. Pass(Cardinality(Conns), SessionsTaken(since, until))
  BY <1>3 DEF SessionsTaken
<1>5. Sessions(since, until) = SessionsTaken(since, until)[Cardinality(Conns)]
  BY DEF Sessions, SessionsTaken
<1>6. ASSUME NEW g, Pass(Cardinality(Conns), g)
      PROVE  g[0] = <<>> /\ \A n \in 1 .. Cardinality(Conns) : g[n] = Onto(g[n - 1], n)
  <2>1. Cardinality(Conns) \in Nat
    BY TrafficAssumption, FS_CardinalityType
  <2>2. \A n \in 0 .. Cardinality(Conns) : g[n] = IF n = 0 THEN <<>> ELSE Onto(g[n - 1], n)
    BY <1>6, <2>1
  <2> HIDE DEF Pass
  <2> QED BY <2>1, <2>2
<1> HIDE DEF Pass
<1> QED BY <1>4, <1>5, <1>6

\* The lines of a window keep their order.
LEMMA LinesTakenStep ==
  ASSUME NEW since, NEW until, NEW X, log \in Seq(X)
  PROVE  /\ Lines(since, until) = LinesTaken(since, until)[Len(log)]
         /\ LinesTaken(since, until)[0] = <<>>
         /\ \A n \in 1 .. Len(log) : LinesTaken(since, until)[n] =
              IF log[n].at \in since .. until THEN Append(LinesTaken(since, until)[n - 1], log[n])
              ELSE LinesTaken(since, until)[n - 1]
<1> DEFINE Onto(x, n) == IF log[n].at \in since .. until THEN Append(x, log[n]) ELSE x
           Pass(k, g) == g = [n \in 0 .. k |-> IF n = 0 THEN <<>> ELSE Onto(g[n - 1], n)]
           S == {k \in Nat : \E g : Pass(k, g)}
<1>1. 0 \in S
  <2> DEFINE g == [n \in 0 .. 0 |-> <<>>]
  <2>1. Pass(0, g)
    OBVIOUS
  <2> QED BY <2>1
<1>2. ASSUME NEW k \in Nat, k \in S PROVE k + 1 \in S
  <2>1. PICK g : Pass(k, g)
    BY <1>2
  <2> DEFINE h == [n \in 0 .. k + 1 |-> IF n <= k THEN g[n] ELSE Onto(g[k], k + 1)]
  <2>2. ASSUME NEW n \in 0 .. k + 1
        PROVE  h[n] = IF n = 0 THEN <<>> ELSE Onto(h[n - 1], n)
    <3>1. CASE n = k + 1
      BY <3>1
    <3>2. CASE n \in 0 .. k
      <4>1. h[n] = g[n] /\ (n # 0 => h[n - 1] = g[n - 1])
        BY <3>2
      <4>2. g[n] = IF n = 0 THEN <<>> ELSE Onto(g[n - 1], n)
        BY <3>2, <2>1
      <4> HIDE DEF h
      <4> QED BY <4>1, <4>2
    <3> QED BY <3>1, <3>2
  <2>3. Pass(k + 1, h)
    BY <2>2
  <2> HIDE DEF Pass, h
  <2> QED BY <2>3
<1>3. Len(log) \in S
  <2> HIDE DEF S
  <2> QED BY <1>1, <1>2, Induction
<1>4. Pass(Len(log), LinesTaken(since, until))
  BY <1>3 DEF LinesTaken
<1>5. Lines(since, until) = LinesTaken(since, until)[Len(log)]
  BY DEF Lines, LinesTaken
<1>6. ASSUME NEW g, Pass(Len(log), g)
      PROVE  g[0] = <<>> /\ \A n \in 1 .. Len(log) : g[n] = Onto(g[n - 1], n)
  <2>1. Len(log) \in Nat
    OBVIOUS
  <2>2. \A n \in 0 .. Len(log) : g[n] = IF n = 0 THEN <<>> ELSE Onto(g[n - 1], n)
    BY <1>6, <2>1
  <2> HIDE DEF Pass
  <2> QED BY <2>1, <2>2
<1> HIDE DEF Pass
<1> QED BY <1>4, <1>5, <1>6

-----------------------------------------------------------------------------
(* The world is well typed, its clients come one after the other.           *)

\* What lines and events may hold.
Kinds == {"screen", "pregreet", "reject", "connect", "tls", "queue", "disconnect"}
Gates == {"new", "no_observed_upgrade", "observer_incomplete",
          "starttls_accepted_no_fingerprint", "fingerprinted", "over"}

Args  == STRING \cup {"none"}
Line == [kind : Kinds, pid : Pids \cup {"none", "postscreen"}, client : {Client}, at : Nat,
         arg : Args, ghost : [conn : Conns, secure : BOOLEAN, n : Nat]]
Types == {"start", "accepted", "fingerprint", "end"}
Event == [type : Types, conn : Conns, client : {Client}, at : Nat,
          state : Gates \cup {"none", "accepted"}, behavior : {"HELO", "EHLO", "quiet", "missing"}]

\* The types.
TypeOK ==
  /\ now \in Nat /\ script \in Scripts
  /\ step \in [Conns -> Nat] /\ \A c \in Conns : step[c] <= Len(script[c])
  /\ smtpd \in [Conns -> Pids \cup {"none"}] /\ gate \in [Conns -> Gates]
  /\ upgraded \subseteq Conns /\ events \in [Conns -> Seq(Event)] /\ log \in Seq(Line)

\* c has done this.
Took(c, do) == \E i \in 1 .. step[c] : script[c][i].do = do

\* The clients come one after the other, and each smtpd serves one of them.
Served ==
  /\ \A b, c \in Conns : b < c /\ step[c] > 0 => Gone(b)
  /\ \A b, c \in Conns : smtpd[b] # "none" /\ smtpd[b] = smtpd[c] => b = c
  /\ \A c \in Conns : smtpd[c] # "none" => Took(c, "connect")
  /\ \A c \in Conns : Took(c, "connect") /\ ~Gone(c) => smtpd[c] # "none"

\* What tlsgate knows of a connection says whether it is encrypted, unless it gave up.
Gated ==
  \A c \in Conns :
    /\ gate[c] = "over" => Gone(c)
    /\ c \in upgraded => Took(c, "hello") /\ gate[c] \in {"observer_incomplete", "fingerprinted", "over"}

\* Rounding.
LEMMA RoundsDown ==
  ASSUME NEW g \in Nat \ {0}, NEW s \in Nat, NEW t \in Nat, s <= t
  PROVE  /\ s - (s % g) \in Nat /\ s - (s % g) <= s /\ s <= s - (s % g) + g - 1
         /\ s - (s % g) <= t - (t % g)
<1> DEFINE p == s \div g
           q == t \div g
<1>1. s = g * p + (s % g) /\ s % g \in 0 .. g - 1 /\ p \in Int
  OBVIOUS
<1>2. t = g * q + (t % g) /\ t % g \in 0 .. g - 1 /\ q \in Int
  OBVIOUS
<1>3. p <= q
  <2> SUFFICES ASSUME q + 1 <= p PROVE FALSE
    BY <1>1, <1>2
  <2>1. g * (q + 1) <= g * p
    BY <1>1, <1>2
  <2> QED BY <2>1, <1>1, <1>2
<1>4. g * p <= g * q
  BY <1>1, <1>2, <1>3
<1> QED BY <1>1, <1>2, <1>4

\* What is in a sequence.
LEMMA ItemOf ==
  ASSUME NEW X, NEW s \in Seq(X), NEW i \in 1 .. Len(s)
  PROVE  i \in DOMAIN s /\ s[i] \in X
OBVIOUS

\* The script of a connection is a session.
LEMMA ScriptIsSession ==
  ASSUME TypeOK, NEW c \in Conns
  PROVE  /\ Session(script[c])
         /\ script[c] \in Seq([do : STRING, arg : STRING, class : STRING])
         /\ Len(script[c]) \in Nat \ {0}
<1>1. Session(script[c])
  BY ScriptsAssumption DEF TypeOK
<1>2. script[c] \in Seq([do : STRING, arg : STRING, class : STRING]) /\ script[c] # <<>>
  BY <1>1 DEF Session
<1> QED BY <1>1, <1>2

\* A step of a script: what was done, was done; what is done now, was done once.
LEMMA StepTaken ==
  ASSUME TypeOK, NEW c \in Conns, NEW do, Does(c, do)
  PROVE  /\ script' = script /\ step' = [step EXCEPT ![c] = step[c] + 1]
         /\ step[c] + 1 \in 1 .. Len(script[c]) /\ step[c] + 1 \in DOMAIN script[c]
         /\ script[c][step[c] + 1].do = do
         /\ script[c][step[c] + 1].arg \in STRING
         /\ ~Gone(c) /\ \A b \in Conns : b < c => Gone(b)
         /\ step[c] \in Nat /\ step'[c] = step[c] + 1
         /\ now' = now /\ batch' = batch /\ report' = report /\ batch = NoBatch
<1>1. script[c] \in Seq([do : STRING, arg : STRING, class : STRING]) /\ Len(script[c]) \in Nat
  BY ScriptIsSession
<1>2. step[c] \in Nat /\ step[c] <= Len(script[c]) /\ step[c] # Len(script[c])
  BY DEF Does, Comes, Gone, TypeOK
<1>3. step[c] + 1 \in 1 .. Len(script[c])
  BY <1>1, <1>2
<1>4. /\ step[c] + 1 \in DOMAIN script[c]
      /\ script[c][step[c] + 1] \in [do : STRING, arg : STRING, class : STRING]
  BY <1>1, <1>3, ItemOf
<1>5. script' = script /\ step' = [step EXCEPT ![c] = step[c] + 1] /\ step'[c] = step[c] + 1
  BY DEF Does, TypeOK
<1>6. now' = now /\ batch' = batch /\ report' = report /\ batch = NoBatch
  BY DEF Does, Open
<1>7. script[c][step[c] + 1].do = do /\ ~Gone(c) /\ \A b \in Conns : b < c => Gone(b)
  BY DEF Does, Comes
<1> QED BY <1>2, <1>3, <1>4, <1>5, <1>6, <1>7

\* No step takes back what was done.
LEMMA TookGrows ==
  ASSUME TypeOK, NEW b \in Conns, NEW c \in Conns, NEW do, Does(c, do), NEW by
  PROVE  /\ Took(b, by) => Took(b, by)'
         /\ Took(c, do)'
         /\ Took(b, by)' => Took(b, by) \/ (b = c /\ by = do)
         /\ (Gone(b) => Gone(b)') /\ step[b] <= step'[b] /\ (b # c => (Gone(b)' => Gone(b)))
<1>1. /\ script' = script /\ step' = [step EXCEPT ![c] = step[c] + 1]
      /\ script[c][step[c] + 1].do = do /\ step[c] \in Nat /\ ~Gone(c)
  BY StepTaken
<1>2. step[b] \in Nat /\ step'[b] = IF b = c THEN step[c] + 1 ELSE step[b]
  BY <1>1 DEF TypeOK
<1>3. (Gone(b) => Gone(b)') /\ step[b] <= step'[b] /\ (b # c => (Gone(b)' => Gone(b)))
  BY <1>1, <1>2 DEF Gone
<1>4. Took(b, by) => Took(b, by)'
  BY <1>1, <1>2 DEF Took
<1>5. Took(c, do)'
  <2>1. step[c] + 1 \in 1 .. step'[c] /\ script'[c] = script[c]
    BY <1>1 DEF TypeOK
  <2> QED BY <1>1, <2>1 DEF Took
<1>6. Took(b, by)' => Took(b, by) \/ (b = c /\ by = do)
  BY <1>1, <1>2 DEF Took
<1> QED BY <1>3, <1>4, <1>5, <1>6

\* What may happen once has not happened before.
LEMMA NotYet ==
  ASSUME TypeOK, NEW c \in Conns, NEW do \in {"open", "connect", "accept", "hello"}, Does(c, do)
  PROVE  ~Took(c, do)
<1>1. /\ step[c] + 1 \in DOMAIN script[c] /\ script[c][step[c] + 1].do = do /\ step[c] \in Nat
      /\ step[c] + 1 \in 1 .. Len(script[c])
  BY StepTaken
<1>2. Once(script[c], do)
  BY ScriptIsSession DEF Session
<1>3. SUFFICES ASSUME NEW i \in 1 .. step[c], script[c][i].do = do PROVE FALSE
  BY DEF Took
<1>4. i \in DOMAIN script[c]
  BY <1>1, <1>3, ScriptIsSession
<1> QED BY <1>1, <1>2, <1>3, <1>4 DEF Once

\* What must come first has come.
LEMMA Already ==
  ASSUME TypeOK, NEW c \in Conns, NEW do, NEW by, Does(c, do), After(script[c], do, by), do # by
  PROVE  Took(c, by)
<1>1. /\ step[c] + 1 \in DOMAIN script[c] /\ script[c][step[c] + 1].do = do /\ step[c] \in Nat
  BY StepTaken
<1>2. PICK i \in 1 .. step[c] + 1 : script[c][i].do = by
  BY <1>1 DEF After
<1>3. i \in 1 .. step[c]
  BY <1>1, <1>2
<1> QED BY <1>2, <1>3 DEF Took

\* A session is opened by its first step and by no other.
LEMMA OpensFirst ==
  ASSUME TypeOK, NEW c \in Conns, Does(c, "open")
  PROVE  step[c] = 0
<1>1. /\ step[c] + 1 \in DOMAIN script[c] /\ script[c][step[c] + 1].do = "open" /\ step[c] \in Nat
  BY StepTaken
<1>2. Once(script[c], "open") /\ script[c][1].do = "open" /\ 1 \in DOMAIN script[c]
  BY ScriptIsSession DEF Session
<1> QED BY <1>1, <1>2 DEF Once

\* At first nobody has come.
LEMMA TypeInit == Init => TypeOK /\ Served /\ Gated
<1> SUFFICES ASSUME Init PROVE TypeOK /\ Served /\ Gated
  OBVIOUS
<1>1. TypeOK
  <2>1. \A c \in Conns : Len(script[c]) \in Nat
    BY ScriptsAssumption DEF Init, Session
  <2> QED BY <2>1 DEF Init, TypeOK, Gates
<1>2. \A c \in Conns : Len(script[c]) \in Nat \ {0}
  BY <1>1, ScriptIsSession
<1>3. Served
  BY <1>2 DEF Init, Served, Took, Gone
<1>4. Gated
  BY DEF Init, Gated
<1> QED BY <1>1, <1>3, <1>4

\* One event more, or none.
LEMMA EmitsTyped ==
  ASSUME TypeOK, NEW c \in Conns, NEW type \in Types, NEW state \in Gates \cup {"none", "accepted"},
         Emits(c, type, state)
  PROVE  events' \in [Conns -> Seq(Event)]
<1> DEFINE e == [type |-> type, conn |-> c, client |-> Client, at |-> now, state |-> state,
                 behavior |-> IF type = "end" THEN Behavior(c) ELSE "missing"]
<1>1. CASE events' = [events EXCEPT ![c] = Append(@, e)]
  <2>1. Behavior(c) \in {"HELO", "EHLO", "quiet"}
    BY DEF Behavior
  <2>2. e \in Event
    BY <2>1 DEF TypeOK, Event
  <2>3. Append(events[c], e) \in Seq(Event)
    BY <2>2 DEF TypeOK
  <2> QED BY <1>1, <2>3 DEF TypeOK
<1>2. CASE events' = events
  BY <1>2 DEF TypeOK
<1> QED BY <1>1, <1>2 DEF Emits

\* One line more.
LEMMA LogsTyped ==
  ASSUME TypeOK, NEW c \in Conns, NEW kind \in Kinds, NEW pid \in Pids \cup {"none", "postscreen"},
         NEW arg \in Args, Logs(c, kind, pid, arg)
  PROVE  log' \in Seq(Line)
<1> DEFINE l == [kind |-> kind, pid |-> pid, client |-> Client, at |-> Rounded, arg |-> arg,
                 ghost |-> [conn |-> c, secure |-> c \in upgraded, n |-> Len(log)]]
<1>1. Rounded \in Nat
  <2>1. now \in Nat /\ Grain \in Nat \ {0} /\ now <= now
    BY TrafficAssumption DEF TypeOK
  <2> QED BY <2>1, RoundsDown DEF Rounded
<1>2. Len(log) \in Nat
  BY DEF TypeOK
<1>3. l \in Line
  BY <1>1, <1>2 DEF Line
<1>4. log' = Append(log, l) /\ log \in Seq(Line)
  BY DEF Logs, TypeOK
<1> HIDE DEF l
<1> QED BY <1>3, <1>4

\* A step of a connection's script, with what it changes of the rest.
LEMMA DoesTyped ==
  ASSUME TypeOK, NEW c \in Conns, NEW do, Does(c, do)
  PROVE  /\ now' \in Nat /\ script' \in Scripts /\ step' \in [Conns -> Nat]
         /\ \A b \in Conns : step'[b] <= Len(script'[b])
         /\ Arg(c) \in Args
<1>1. /\ script' = script /\ step' = [step EXCEPT ![c] = step[c] + 1] /\ now' = now
      /\ step[c] + 1 \in 1 .. Len(script[c]) /\ step[c] \in Nat
      /\ script[c][step[c] + 1].arg \in STRING
  BY StepTaken
<1>2. \A b \in Conns : step'[b] <= Len(script'[b])
  BY <1>1 DEF TypeOK
<1> QED BY <1>1, <1>2 DEF TypeOK, Arg, Args

\* No step leaves the types.
LEMMA TypeNext == TypeOK /\ [Next]_vars => TypeOK'
<1> SUFFICES ASSUME TypeOK, [Next]_vars PROVE TypeOK'
  OBVIOUS
<1> DEFINE Rest == /\ smtpd' \in [Conns -> Pids \cup {"none"}] /\ gate' \in [Conns -> Gates]
                   /\ upgraded' \subseteq Conns
           Out  == events' \in [Conns -> Seq(Event)] /\ log' \in Seq(Line)
<1>1. ASSUME NEW c \in Conns, NEW do, Does(c, do), Rest, Out PROVE TypeOK'
  BY <1>1, DoesTyped DEF TypeOK
<1>2. CASE UNCHANGED vars
  BY <1>2 DEF vars, TypeOK
<1>3. CASE Tick
  BY <1>3 DEF Tick, TypeOK, world
<1>4. ASSUME NEW w \in Windows, Batch(w[1], w[2]) PROVE TypeOK'
  BY <1>4 DEF Batch, TypeOK, world
<1>5. ASSUME NEW c \in Conns, Start(c) PROVE TypeOK'
  <2>1. Emits(c, "start", "none") /\ log' = log
    BY <1>5 DEF Start, NoLines
  <2>2. events' \in [Conns -> Seq(Event)]
    BY <2>1, EmitsTyped DEF Types
  <2>3. Out
    BY <2>1, <2>2 DEF TypeOK
  <2>4. Rest
    BY <1>5 DEF Start, TypeOK, Gates
  <2> QED BY <1>1, <1>5, <2>3, <2>4 DEF Start
<1>6. ASSUME NEW c \in Conns, Blind(c) PROVE TypeOK'
  <2>1. Rest /\ Out
    BY <1>6 DEF Blind, Silent, NoLines, TypeOK, Gates
  <2> QED BY <1>1, <1>6, <2>1 DEF Blind
<1>7. ASSUME NEW c \in Conns, Screen(c) \/ Pregreet(c) \/ Reject(c) \/ Handshake(c) \/ Queue(c)
      PROVE  TypeOK'
  <2>1. PICK do : Does(c, do)
    BY <1>7 DEF Screen, Pregreet, Reject, Handshake, Queue
  <2>2. smtpd[c] \in Pids \cup {"none", "postscreen"} /\ Arg(c) \in Args
    BY <2>1, DoesTyped DEF TypeOK
  <2>5. PICK kind \in Kinds, pid \in Pids \cup {"none", "postscreen"}, arg \in Args :
          Logs(c, kind, pid, arg) /\ events' = events
    <3>1. {"screen", "pregreet", "reject", "tls", "queue"} \subseteq Kinds /\ "none" \in Args
      BY DEF Kinds, Args
    <3>2. CASE Screen(c)
      BY <3>1, <3>2 DEF Screen, Silent
    <3>3. CASE Pregreet(c)
      BY <2>2, <3>1, <3>3 DEF Pregreet, Silent
    <3>4. CASE Reject(c)
      BY <2>2, <3>1, <3>4 DEF Reject, Silent
    <3>5. CASE Handshake(c)
      BY <2>2, <3>1, <3>5 DEF Handshake, Silent
    <3>6. CASE Queue(c)
      BY <2>2, <3>1, <3>6 DEF Queue, Silent
    <3> QED BY <1>7, <3>2, <3>3, <3>4, <3>5, <3>6
  <2>6. log' \in Seq(Line)
    BY <2>5, LogsTyped
  <2>3. Out
    BY <2>5, <2>6 DEF TypeOK
  <2>4. Rest
    BY <1>7 DEF Screen, Pregreet, Reject, Handshake, Queue, TypeOK
  <2> QED BY <1>1, <2>1, <2>3, <2>4
<1>8. ASSUME NEW c \in Conns, Connect(c) PROVE TypeOK'
  <2>3. PICK p \in Pids : Logs(c, "connect", p, "none") /\ events' = events
    BY <1>8 DEF Connect, Silent
  <2>4. log' \in Seq(Line)
    <3>1. "connect" \in Kinds /\ "none" \in Args
      BY DEF Kinds, Args
    <3> QED BY <2>3, <3>1, LogsTyped
  <2>1. Out
    BY <2>3, <2>4 DEF TypeOK
  <2>2. Rest
    BY <1>8 DEF Connect, TypeOK
  <2> QED BY <1>1, <1>8, <2>1, <2>2 DEF Connect
<1>9. ASSUME NEW c \in Conns, Accept(c) PROVE TypeOK'
  <2>3. log' = log /\ (Emits(c, "accepted", "accepted") \/ events' = events)
    BY <1>9 DEF Accept, Silent, NoLines
  <2>4. events' \in [Conns -> Seq(Event)]
    BY <2>3, EmitsTyped DEF Types, TypeOK
  <2>1. Out
    BY <2>3, <2>4 DEF TypeOK
  <2>2. Rest
    BY <1>9 DEF Accept, TypeOK, Gates
  <2> QED BY <1>1, <1>9, <2>1, <2>2 DEF Accept
<1>10. ASSUME NEW c \in Conns, Hello(c) PROVE TypeOK'
  <2>3. log' = log /\ (Emits(c, "fingerprint", "none") \/ events' = events)
    BY <1>10 DEF Hello, Silent, NoLines
  <2>4. events' \in [Conns -> Seq(Event)]
    BY <2>3, EmitsTyped DEF Types, TypeOK
  <2>1. Out
    BY <2>3, <2>4 DEF TypeOK
  <2>2. Rest
    BY <1>10 DEF Hello, TypeOK, Gates
  <2> QED BY <1>1, <1>10, <2>1, <2>2 DEF Hello
<1>11. ASSUME NEW c \in Conns, Disconnect(c) PROVE TypeOK'
  <2>1. log' \in Seq(Line)
    <3>1. Logs(c, "disconnect", smtpd[c], "none") /\ smtpd[c] \in Pids
      BY <1>11 DEF Disconnect, TypeOK
    <3>2. "disconnect" \in Kinds /\ "none" \in Args
      BY DEF Kinds, Args
    <3> QED BY <3>1, <3>2, LogsTyped
  <2> QED BY <1>11, <2>1 DEF Disconnect, TypeOK
<1>12. ASSUME NEW c \in Conns, End(c) PROVE TypeOK'
  <2>1. gate[c] \in Gates
    BY DEF TypeOK
  <2>2. events' \in [Conns -> Seq(Event)]
    BY <1>12, <2>1, EmitsTyped DEF End, Types
  <2> QED BY <1>12, <2>2 DEF End, TypeOK, Gates
<1> QED BY <1>2, <1>3, <1>4, <1>5, <1>6, <1>7, <1>8, <1>9, <1>10, <1>11, <1>12 DEF Next

-----------------------------------------------------------------------------
(* A step of the system is a step of a script, a tick, an end or a batch.   *)

\* One step of one script, whatever else it does.
Scripted(c, do) ==
  \/ do = "open" /\ Start(c)
  \/ do = "blind" /\ Blind(c)
  \/ do = "screen" /\ Screen(c)
  \/ do = "pregreet" /\ Pregreet(c)
  \/ do = "reject" /\ Reject(c)
  \/ do = "connect" /\ Connect(c)
  \/ do = "accept" /\ Accept(c)
  \/ do = "hello" /\ Hello(c)
  \/ do = "handshake" /\ Handshake(c)
  \/ do = "queue" /\ Queue(c)

\* The steps of a script.
Steps == {"open", "blind", "screen", "pregreet", "reject", "connect", "accept", "hello",
          "handshake", "queue"}

\* The kinds of step there are.
LEMMA NextCases ==
  ASSUME [Next]_vars
  PROVE  \/ UNCHANGED vars
         \/ Tick
         \/ \E c \in Conns, do \in Steps : Scripted(c, do)
         \/ \E c \in Conns : Disconnect(c)
         \/ \E c \in Conns : End(c)
         \/ \E w \in Windows : Batch(w[1], w[2])
<1>1. ASSUME NEW c PROVE
      /\ Start(c) => Scripted(c, "open")
      /\ Blind(c) => Scripted(c, "blind")
      /\ Screen(c) => Scripted(c, "screen")
      /\ Pregreet(c) => Scripted(c, "pregreet")
      /\ Reject(c) => Scripted(c, "reject")
      /\ Connect(c) => Scripted(c, "connect")
      /\ Accept(c) => Scripted(c, "accept")
      /\ Hello(c) => Scripted(c, "hello")
      /\ Handshake(c) => Scripted(c, "handshake")
      /\ Queue(c) => Scripted(c, "queue")
  BY DEF Scripted
<1>2. ASSUME NEW c \in Conns,
             \/ Start(c) \/ Blind(c) \/ Screen(c) \/ Pregreet(c) \/ Reject(c) \/ Connect(c)
             \/ Accept(c) \/ Hello(c) \/ Handshake(c) \/ Queue(c)
      PROVE  \E do \in Steps : Scripted(c, do)
  BY <1>1, <1>2 DEF Steps
<1> QED BY <1>2 DEF Next

\* A step of a script advances that script, whatever else it does.
LEMMA ScriptedDoes ==
  ASSUME NEW c, NEW do, Scripted(c, do)
  PROVE  Does(c, do)
BY DEF Scripted, Start, Blind, Screen, Pregreet, Reject, Connect, Accept, Hello, Handshake, Queue

\* What stands still while no step of a script is done.
LEMMA TookStays ==
  ASSUME step' = step, script' = script, NEW c, NEW do
  PROVE  Took(c, do)' = Took(c, do) /\ Gone(c)' = Gone(c)
BY DEF Took, Gone

\* Every step keeps clients in turn and smtpd with one client at a time.
LEMMA ServedNext ==
  ASSUME TypeOK, Served, [Next]_vars
  PROVE  Served'
<1>1. ASSUME UNCHANGED <<step, script, smtpd>> PROVE Served'
  BY <1>1, TookStays DEF Served
<1>2. CASE UNCHANGED vars
  BY <1>1, <1>2 DEF vars
<1>3. CASE Tick
  BY <1>1, <1>3 DEF Tick, world
<1>4. ASSUME NEW w \in Windows, Batch(w[1], w[2]) PROVE Served'
  BY <1>1, <1>4 DEF Batch, world
<1>5. ASSUME NEW c \in Conns, End(c) PROVE Served'
  BY <1>1, <1>5 DEF End
<1>6. ASSUME NEW c \in Conns, Disconnect(c) PROVE Served'
  <2>1. /\ Gone(c) /\ smtpd' = [smtpd EXCEPT ![c] = "none"]
        /\ step' = step /\ script' = script
    BY <1>6 DEF Disconnect
  <2>2. \A b \in Conns : smtpd'[b] = IF b = c THEN "none" ELSE smtpd[b]
    BY <2>1 DEF TypeOK
  <2>3. \A b \in Conns : \A do : Took(b, do)' = Took(b, do) /\ Gone(b)' = Gone(b)
    BY <2>1, TookStays
  <2> QED BY <2>1, <2>2, <2>3 DEF Served
<1>7. ASSUME NEW c \in Conns, NEW do \in Steps, Scripted(c, do) PROVE Served'
  <2>1. Does(c, do)
    BY <1>7, ScriptedDoes
  <2>2. /\ ~Gone(c) /\ \A b \in Conns : b < c => Gone(b)
        /\ step' = [step EXCEPT ![c] = step[c] + 1]
    BY <2>1, StepTaken
  <2>3. \A b \in Conns : \A by :
          /\ Took(b, by) => Took(b, by)'
          /\ Took(c, do)'
          /\ Took(b, by)' => Took(b, by) \/ (b = c /\ by = do)
          /\ (Gone(b) => Gone(b)') /\ (b # c => (Gone(b)' => Gone(b)))
    BY <2>1, TookGrows
  <2>4. ASSUME NEW a \in Conns, NEW b \in Conns, a < b, step'[b] > 0 PROVE Gone(a)'
    <3>1. b = c \/ step[b] > 0
      BY <2>2, <2>4 DEF TypeOK
    <3> QED BY <2>2, <2>3, <2>4, <3>1 DEF Served
  <2>5. CASE do = "connect"
    <3>1. PICK p \in Pids : (\A b \in Conns : smtpd[b] # p) /\ smtpd' = [smtpd EXCEPT ![c] = p]
      BY <1>7, <2>5 DEF Scripted, Connect
    <3>2. p # "none"
      BY TrafficAssumption
    <3>3. \A b \in Conns : smtpd'[b] = IF b = c THEN p ELSE smtpd[b]
      BY <3>1 DEF TypeOK
    <3> QED BY <2>3, <2>4, <2>5, <3>1, <3>2, <3>3 DEF Served
  <2>6. CASE do # "connect"
    <3>1. smtpd' = smtpd
      BY <1>7, <2>6 DEF Scripted, Start, Blind, Screen, Pregreet, Reject, Accept, Hello, Handshake, Queue
    <3> QED BY <2>3, <2>4, <2>6, <3>1 DEF Served
  <2> QED BY <2>5, <2>6
<1> QED BY NextCases, <1>2, <1>3, <1>4, <1>5, <1>6, <1>7

\* Who was seen to shake hands had STARTTLS accepted.
LEMMA HelloTook ==
  ASSUME TypeOK, NEW c \in Conns, Took(c, "hello")
  PROVE  Took(c, "accept")
<1>1. PICK j \in 1 .. step[c] : script[c][j].do = "hello"
  BY DEF Took
<1>2. step[c] \in Nat /\ step[c] <= Len(script[c]) /\ Len(script[c]) \in Nat
  BY ScriptIsSession DEF TypeOK
<1>3. After(script[c], "hello", "accept")
  BY ScriptIsSession DEF Session
<1>4. j \in DOMAIN script[c]
  BY <1>1, <1>2, ScriptIsSession
<1>5. PICK i \in 1 .. j : script[c][i].do = "accept"
  BY <1>1, <1>3, <1>4 DEF After
<1>6. i \in 1 .. step[c]
  BY <1>1, <1>2, <1>5
<1> QED BY <1>5, <1>6 DEF Took

\* Every step keeps tlsgate's state of a connection behind its script.
LEMMA GatedNext ==
  ASSUME TypeOK, Gated, [Next]_vars
  PROVE  Gated'
<1>1. ASSUME UNCHANGED <<step, script, gate, upgraded>> PROVE Gated'
  BY <1>1, TookStays DEF Gated
<1>2. CASE UNCHANGED vars
  BY <1>1, <1>2 DEF vars
<1>3. CASE Tick
  BY <1>1, <1>3 DEF Tick, world
<1>4. ASSUME NEW w \in Windows, Batch(w[1], w[2]) PROVE Gated'
  BY <1>1, <1>4 DEF Batch, world
<1>5. ASSUME NEW c \in Conns, End(c) PROVE Gated'
  <2>1. /\ Gone(c) /\ gate' = [gate EXCEPT ![c] = "over"] /\ upgraded' = upgraded
        /\ step' = step /\ script' = script
    BY <1>5 DEF End
  <2>2. \A b \in Conns : gate'[b] = IF b = c THEN "over" ELSE gate[b]
    BY <2>1 DEF TypeOK
  <2>3. \A b \in Conns : \A do : Took(b, do)' = Took(b, do) /\ Gone(b)' = Gone(b)
    BY <2>1, TookStays
  <2> QED BY <2>1, <2>2, <2>3 DEF Gated
<1>6. ASSUME NEW c \in Conns, Disconnect(c) PROVE Gated'
  BY <1>1, <1>6 DEF Disconnect
<1>7. ASSUME NEW c \in Conns, NEW do \in Steps, Scripted(c, do) PROVE Gated'
  <2>1. Does(c, do)
    BY <1>7, ScriptedDoes
  <2>2. ~Gone(c)
    BY <2>1, StepTaken
  <2>3. \A b \in Conns : \A by : /\ Took(b, by) => Took(b, by)'
                                 /\ Took(c, do)' /\ (Gone(b) => Gone(b)')
    BY <2>1, TookGrows
  <2>4. CASE do \in {"open", "accept"}
    <3>1. ~Took(c, do) /\ upgraded' = upgraded
      BY <1>7, <2>1, <2>4, NotYet DEF Scripted, Start, Accept
    <3>2. c \notin upgraded
      <4>1. CASE do = "open"
        <5>1. step[c] = 0
          BY <2>1, <4>1, OpensFirst
        <5>2. ~Took(c, "hello")
          BY <5>1 DEF Took
        <5> QED BY <5>2 DEF Gated
      <4>2. CASE do = "accept"
        <5>1. ASSUME Took(c, "hello") PROVE Took(c, "accept")
          BY <5>1, HelloTook
        <5> QED BY <5>1, <3>1, <4>2 DEF Gated
      <4> QED BY <2>4, <4>1, <4>2
    <3>3. \A b \in Conns \ {c} : gate'[b] = gate[b]
      BY <1>7, <2>4 DEF Scripted, Start, Accept, TypeOK
    <3>4. gate'[c] # "over"
      <4>1. gate[c] # "over"
        BY <2>2 DEF Gated
      <4> QED BY <1>7, <2>4, <4>1 DEF Scripted, Start, Accept, TypeOK
    <3> QED BY <2>3, <3>1, <3>2, <3>3, <3>4 DEF Gated
  <2>5. CASE do = "hello"
    <3>1. gate[c] # "over"
      BY <2>2 DEF Gated
    <3>2. /\ upgraded' = upgraded \cup {c}
          /\ \A b \in Conns \ {c} : gate'[b] = gate[b]
          /\ gate'[c] \in {"observer_incomplete", "fingerprinted"}
      BY <1>7, <2>5 DEF Scripted, Hello, Seeing, TypeOK
    <3> QED BY <2>3, <2>5, <3>1, <3>2 DEF Gated
  <2>6. CASE do = "blind"
    <3>1. /\ upgraded' = upgraded
          /\ \A b \in Conns \ {c} : gate'[b] = gate[b]
          /\ gate'[c] = "observer_incomplete"
      BY <1>7, <2>6 DEF Scripted, Blind, TypeOK
    <3> QED BY <2>3, <3>1 DEF Gated
  <2>7. CASE do \notin {"open", "accept", "hello", "blind"}
    <3>1. gate' = gate /\ upgraded' = upgraded
      BY <1>7, <2>7 DEF Scripted, Screen, Pregreet, Reject, Connect, Handshake, Queue
    <3> QED BY <2>3, <3>1 DEF Gated
  <2> QED BY <2>4, <2>5, <2>6, <2>7
<1> QED BY NextCases, <1>2, <1>3, <1>4, <1>5, <1>6, <1>7

-----------------------------------------------------------------------------
(* What tlsgate has written of a connection.                                *)

\* What the events of a connection say of it.
EventsTrue ==
  \A c \in Conns : \A i \in DOMAIN events[c] :
    LET e == events[c][i] IN
    /\ e.conn = c /\ e.at <= now
    /\ e.type = "start" => step[c] > 0
    /\ e.type = "accepted" => Took(c, "accept")
    /\ e.type = "fingerprint" => Took(c, "hello")
    /\ e.type = "end" => gate[c] = "over"
    /\ e.type = "end" /\ c \in upgraded => e.state \in {"observer_incomplete", "fingerprinted"}
    /\ \A j \in DOMAIN events[c] : events[c][j].type = e.type => j = i

\* An event of this type, from now.
NewEvent(c, type, state) ==
  [type |-> type, conn |-> c, client |-> Client, at |-> now, state |-> state,
   behavior |-> IF type = "end" THEN Behavior(c) ELSE "missing"]

\* Emits appends one event of its own connection, or the queue drops it.
LEMMA EmitsAppends ==
  ASSUME TypeOK, NEW c \in Conns, NEW type, NEW state, Emits(c, type, state)
  PROVE  \/ events' = events
         \/ /\ \A b \in Conns \ {c} : events'[b] = events[b]
            /\ events'[c] = Append(events[c], NewEvent(c, type, state))
BY DEF Emits, NewEvent, TypeOK

\* One event more, of a type that was not there.
LEMMA EventAdded ==
  ASSUME TypeOK, EventsTrue, NEW c \in Conns, NEW e,
         now' = now,
         \A b \in Conns : \A by : Took(b, by) => Took(b, by)',
         \A b \in Conns : step[b] > 0 => step'[b] > 0,
         \A b \in Conns : gate[b] = "over" => gate'[b] = "over" /\ (b \in upgraded' => b \in upgraded),
         \A b \in Conns \ {c} : events'[b] = events[b],
         events'[c] = Append(events[c], e),
         e.conn = c, e.at = now,
         e.type = "start" => step'[c] > 0,
         e.type = "accepted" => Took(c, "accept")',
         e.type = "fingerprint" => Took(c, "hello")',
         e.type = "end" => gate'[c] = "over",
         e.type = "end" /\ c \in upgraded' => e.state \in {"observer_incomplete", "fingerprinted"},
         \A j \in DOMAIN events[c] : events[c][j].type # e.type
  PROVE  EventsTrue'
<1> SUFFICES ASSUME NEW b \in Conns, NEW i \in DOMAIN events'[b]
             PROVE  LET f == events'[b][i] IN
                    /\ f.conn = b /\ f.at <= now'
                    /\ f.type = "start" => step'[b] > 0
                    /\ f.type = "accepted" => Took(b, "accept")'
                    /\ f.type = "fingerprint" => Took(b, "hello")'
                    /\ f.type = "end" => gate'[b] = "over"
                    /\ f.type = "end" /\ b \in upgraded' =>
                         f.state \in {"observer_incomplete", "fingerprinted"}
                    /\ \A j \in DOMAIN events'[b] : events'[b][j].type = f.type => j = i
  BY DEF EventsTrue
<1>1. now \in Nat /\ events[c] \in Seq(Event)
  BY DEF TypeOK
<1>2. CASE b # c
  BY <1>2 DEF EventsTrue
<1>3. CASE b = c
  <2>1. /\ Len(events[c]) \in Nat /\ DOMAIN events[c] = 1 .. Len(events[c])
        /\ DOMAIN events'[c] = 1 .. Len(events[c]) + 1
        /\ events'[c][Len(events[c]) + 1] = e
        /\ \A j \in 1 .. Len(events[c]) : events'[c][j] = events[c][j]
    BY <1>1
  <2>4. \A j \in 1 .. Len(events[c]) : events'[c][j].type # e.type
    BY <2>1
  <2>2. CASE i = Len(events[c]) + 1
    <3>1. events'[b][i] = e
      BY <1>3, <2>1, <2>2
    <3>2. \A j \in DOMAIN events'[b] : events'[b][j].type = e.type => j = i
      BY <1>3, <2>1, <2>2, <2>4
    <3> QED BY <1>1, <1>3, <3>1, <3>2
  <2>3. CASE i \in 1 .. Len(events[c])
    <3> DEFINE f == events[c][i]
    <3>1. events'[b][i] = f /\ i \in DOMAIN events[c] /\ f.type # e.type
      BY <1>3, <2>1, <2>3, <2>4
    <3>2. /\ f.conn = c /\ f.at <= now
          /\ f.type = "start" => step[c] > 0
          /\ f.type = "accepted" => Took(c, "accept")
          /\ f.type = "fingerprint" => Took(c, "hello")
          /\ f.type = "end" => gate[c] = "over"
          /\ f.type = "end" /\ c \in upgraded => f.state \in {"observer_incomplete", "fingerprinted"}
          /\ \A j \in DOMAIN events[c] : events[c][j].type = f.type => j = i
      BY <2>1, <2>3 DEF EventsTrue
    <3> HIDE DEF f
    <3>3. \A j \in DOMAIN events'[b] : events'[b][j].type = f.type => j = i
      <4> SUFFICES ASSUME NEW j \in DOMAIN events'[c], events'[c][j].type = f.type PROVE j = i
        BY <1>3
      <4>1. j # Len(events[c]) + 1
        BY <2>1, <3>1
      <4>2. j \in 1 .. Len(events[c]) /\ j \in DOMAIN events[c] /\ events[c][j].type = f.type
        BY <2>1, <4>1
      <4> QED BY <3>2, <4>2
    <3> QED BY <1>1, <1>3, <3>1, <3>2, <3>3
  <2> QED BY <1>3, <2>1, <2>2, <2>3
<1> QED BY <1>2, <1>3

\* No event more.
LEMMA EventsStay ==
  ASSUME TypeOK, EventsTrue, now <= now', events' = events,
         \A b \in Conns : \A by : Took(b, by) => Took(b, by)',
         \A b \in Conns : step[b] > 0 => step'[b] > 0,
         \A b \in Conns : gate[b] = "over" => gate'[b] = "over" /\ (b \in upgraded' => b \in upgraded),
         now' \in Nat
  PROVE  EventsTrue'
<1> SUFFICES ASSUME NEW b \in Conns, NEW i \in DOMAIN events[b]
             PROVE  LET f == events[b][i] IN
                    /\ f.conn = b /\ f.at <= now'
                    /\ f.type = "start" => step'[b] > 0
                    /\ f.type = "accepted" => Took(b, "accept")'
                    /\ f.type = "fingerprint" => Took(b, "hello")'
                    /\ f.type = "end" => gate'[b] = "over"
                    /\ f.type = "end" /\ b \in upgraded' =>
                         f.state \in {"observer_incomplete", "fingerprinted"}
                    /\ \A j \in DOMAIN events[b] : events[b][j].type = f.type => j = i
  BY DEF EventsTrue
<1>1. now \in Nat /\ events[b][i] \in Event
  BY ItemOf DEF TypeOK
<1>2. events[b][i].at \in Nat
  BY <1>1 DEF Event
<1> QED BY <1>1, <1>2 DEF EventsTrue

\* Every step keeps the events true: each type once, the end last.
LEMMA EventsNext ==
  ASSUME TypeOK, Gated, EventsTrue, [Next]_vars
  PROVE  EventsTrue'
<1>0. now \in Nat /\ now' \in Nat
  BY TypeNext DEF TypeOK
<1>1. ASSUME UNCHANGED <<step, script, gate, upgraded, events>>, now <= now' PROVE EventsTrue'
  BY <1>0, <1>1, TookStays, EventsStay
<1>2. CASE UNCHANGED vars
  BY <1>0, <1>1, <1>2 DEF vars
<1>3. CASE Tick
  BY <1>0, <1>1, <1>3 DEF Tick, world
<1>4. ASSUME NEW w \in Windows, Batch(w[1], w[2]) PROVE EventsTrue'
  BY <1>0, <1>1, <1>4 DEF Batch, world
<1>6. ASSUME NEW c \in Conns, Disconnect(c) PROVE EventsTrue'
  BY <1>0, <1>1, <1>6 DEF Disconnect
<1>5. ASSUME NEW c \in Conns, End(c) PROVE EventsTrue'
  <2>1. /\ Gone(c) /\ gate' = [gate EXCEPT ![c] = "over"] /\ upgraded' = upgraded
        /\ step' = step /\ script' = script /\ now' = now /\ gate[c] # "over"
        /\ Emits(c, "end", gate[c])
    BY <1>5 DEF End
  <2>2. \A b \in Conns : gate'[b] = IF b = c THEN "over" ELSE gate[b]
    BY <2>1 DEF TypeOK
  <2>3. \A b \in Conns : \A by : Took(b, by) => Took(b, by)'
    BY <2>1, TookStays
  <2>4. CASE events' = events
    BY <1>0, <2>1, <2>2, <2>3, <2>4, EventsStay
  <2>5. CASE /\ \A b \in Conns \ {c} : events'[b] = events[b]
             /\ events'[c] = Append(events[c], NewEvent(c, "end", gate[c]))
    <3> DEFINE e == NewEvent(c, "end", gate[c])
    <3>1. e.type = "end" /\ e.conn = c /\ e.at = now /\ e.state = gate[c]
      BY DEF NewEvent
    <3>2. c \in upgraded => gate[c] \in {"observer_incomplete", "fingerprinted"}
      BY <2>1 DEF Gated
    <3>3. \A j \in DOMAIN events[c] : events[c][j].type # "end"
      BY <2>1 DEF EventsTrue
    <3>4. (\A b \in Conns \ {c} : events'[b] = events[b]) /\ events'[c] = Append(events[c], e)
      BY <2>5
    <3>5. /\ \A b \in Conns : gate[b] = "over" => gate'[b] = "over" /\ (b \in upgraded' => b \in upgraded)
          /\ \A b \in Conns : step[b] > 0 => step'[b] > 0
          /\ gate'[c] = "over"
      BY <2>1, <2>2
    <3>6. c \in upgraded' => e.state \in {"observer_incomplete", "fingerprinted"}
      BY <2>1, <3>1, <3>2
    <3> HIDE DEF e
    <3> QED BY <2>1, <2>3, <3>1, <3>3, <3>4, <3>5, <3>6, EventAdded
  <2> QED BY <2>1, <2>4, <2>5, EmitsAppends
<1>7. ASSUME NEW c \in Conns, NEW do \in Steps, Scripted(c, do) PROVE EventsTrue'
  <2>1. Does(c, do)
    BY <1>7, ScriptedDoes
  <2>2. ~Gone(c) /\ now' = now
    BY <2>1, StepTaken
  <2>3. \A b \in Conns : \A by : (Took(b, by) => Took(b, by)') /\ Took(c, do)' /\ step[b] <= step'[b]
    BY <2>1, TookGrows
  <2>4. \A b \in Conns : (step[b] > 0 => step'[b] > 0) /\ step'[c] > 0
    <3>1. step' = [step EXCEPT ![c] = step[c] + 1] /\ step \in [Conns -> Nat]
      BY <2>1, StepTaken DEF TypeOK
    <3> QED BY <3>1
  <2>5. gate[c] # "over"
    BY <2>2 DEF Gated
  <2>6. /\ \A b \in Conns \ {c} : gate'[b] = gate[b]
        /\ \A b \in Conns \ {c} : b \in upgraded' => b \in upgraded
    <3>1. CASE do \in {"open", "blind", "accept", "hello"}
      BY <1>7, <3>1 DEF Scripted, Start, Blind, Accept, Hello, TypeOK
    <3>2. CASE do \notin {"open", "blind", "accept", "hello"}
      BY <1>7, <3>2 DEF Scripted, Screen, Pregreet, Reject, Connect, Handshake, Queue
    <3> QED BY <3>1, <3>2
  <2>7. \A b \in Conns : gate[b] = "over" => gate'[b] = "over" /\ (b \in upgraded' => b \in upgraded)
    BY <2>5, <2>6
  <2>8. CASE events' = events
    BY <1>0, <2>2, <2>3, <2>4, <2>7, <2>8, EventsStay
  <2>9. ASSUME NEW type \in {"start", "accepted", "fingerprint"}, NEW state,
               Emits(c, type, state), \A j \in DOMAIN events[c] : events[c][j].type # type,
               type = "accepted" => do = "accept", type = "fingerprint" => do = "hello"
        PROVE  EventsTrue'
    <3> DEFINE e == NewEvent(c, type, state)
    <3>1. e.type = type /\ e.conn = c /\ e.at = now /\ e.state = state
      BY DEF NewEvent
    <3>2. CASE /\ \A b \in Conns \ {c} : events'[b] = events[b]
               /\ events'[c] = Append(events[c], e)
      <4> HIDE DEF e
      <4> QED BY <2>2, <2>3, <2>4, <2>7, <2>9, <3>1, <3>2, EventAdded
    <3> QED BY <2>8, <2>9, <3>2, EmitsAppends
  <2>10. CASE do = "open"
    <3>1. step[c] = 0
      BY <2>1, <2>10, OpensFirst
    <3>2. \A j \in DOMAIN events[c] : events[c][j].type # "start"
      BY <3>1 DEF EventsTrue
    <3> QED BY <1>7, <2>10, <3>2, <2>9 DEF Scripted, Start
  <2>11. CASE do = "accept"
    <3>1. ~Took(c, "accept")
      BY <2>1, <2>11, NotYet
    <3>2. \A j \in DOMAIN events[c] : events[c][j].type # "accepted"
      BY <3>1 DEF EventsTrue
    <3>3. Emits(c, "accepted", "accepted") \/ events' = events
      BY <1>7, <2>11 DEF Scripted, Accept, Silent
    <3> QED BY <2>11, <3>2, <3>3, <2>9, <2>8
  <2>12. CASE do = "hello"
    <3>1. ~Took(c, "hello")
      BY <2>1, <2>12, NotYet
    <3>2. \A j \in DOMAIN events[c] : events[c][j].type # "fingerprint"
      BY <3>1 DEF EventsTrue
    <3>3. Emits(c, "fingerprint", "none") \/ events' = events
      BY <1>7, <2>12 DEF Scripted, Hello, Silent
    <3> QED BY <2>12, <3>2, <3>3, <2>9, <2>8
  <2>13. CASE do \notin {"open", "accept", "hello"}
    <3>1. events' = events
      BY <1>7, <2>13 DEF Scripted, Blind, Screen, Pregreet, Reject, Connect, Handshake, Queue, Silent
    <3> QED BY <3>1, <2>8
  <2> QED BY <2>10, <2>11, <2>12, <2>13
<1> QED BY NextCases, <1>2, <1>3, <1>4, <1>5, <1>6, <1>7

-----------------------------------------------------------------------------
(* What Postfix has written of it.                                          *)

\* What postscreen or, without it, smtpd begins a session's evidence with.
Opener == IF \A c \in Conns : Screened(script[c]) THEN "screen" ELSE "connect"

\* c queued a message after it had been encrypted.
QueuedSecure(c) ==
  \E j \in 1 .. step[c] : \E i \in 1 .. j : script[c][i].do = "hello" /\ script[c][j].do = "queue"

\* What a line says of the connection that it is about.
LineTrue(k) ==
  LET l == log[k]
      c == l.ghost.conn
  IN /\ l.at <= Rounded /\ l.ghost.n = k - 1 /\ step[c] > 0
     /\ l.ghost.secure => c \in upgraded
     /\ l.kind \in {"screen", "connect"} => Took(c, l.kind)
     /\ l.kind \in {"pregreet", "reject"} => Did(c, l.kind, l.arg)
     /\ l.kind \in {"connect", "disconnect", "tls", "queue"} => l.pid \in Pids
     /\ l.kind = "tls" => l.ghost.secure
     /\ l.kind = "queue" /\ l.ghost.secure => QueuedSecure(c)
     /\ l.kind \in Evidence => \E j \in 1 .. k : log[j].kind = Opener /\ log[j].ghost.conn = c

\* What two lines say of each other.
PairTrue(i, k) ==
  LET a == log[i]
      b == log[k]
  IN /\ a.at <= b.at
     /\ a.ghost.conn = b.ghost.conn /\ a.ghost.secure => b.ghost.secure
     /\ a.ghost.conn = b.ghost.conn /\ a.kind = "queue" /\ b.kind = "tls" => ~a.ghost.secure
     /\ a.kind \in Evidence /\ b.kind \in Evidence => a.ghost.conn <= b.ghost.conn
     /\ a.kind = "queue" /\ b.kind = "queue" /\ a.arg = b.arg /\ a.pid = b.pid => a.at # b.at
     /\ a.kind = "connect" /\ b.kind \in {"tls", "queue"} /\ a.pid = b.pid =>
          \/ a.ghost.conn = b.ghost.conn
          \/ \E j \in i + 1 .. k - 1 : log[j].kind = "disconnect" /\ log[j].pid = a.pid

\* smtpd keeps a client until it logs that it has gone.
Kept(i) ==
  log[i].kind = "connect" =>
    \/ smtpd[log[i].ghost.conn] = log[i].pid
    \/ \E j \in i + 1 .. Len(log) : log[j].kind = "disconnect" /\ log[j].pid = log[i].pid

\* The log is true line by line and pair by pair.
LogTrue ==
  \A k \in DOMAIN log : LineTrue(k) /\ Kept(k) /\ \A i \in 1 .. k - 1 : PairTrue(i, k)

\* Who was screened, or taken by smtpd, is in the log.
Logged ==
  \A c \in Conns, do \in {"screen", "connect"} :
    Took(c, do) => \E j \in DOMAIN log : log[j].kind = do /\ log[j].ghost.conn = c

\* Nothing goes back.
Onward ==
  /\ script' = script /\ upgraded \subseteq upgraded' /\ Rounded <= Rounded' /\ now <= now'
  /\ \A c \in Conns : step[c] <= step'[c]

\* A sequence that stays or grows by one item.
LEMMA OneMore ==
  ASSUME NEW X, NEW s \in Seq(X), NEW t, t = s \/ \E x \in X : t = Append(s, x)
  PROVE  /\ Len(s) \in Nat /\ DOMAIN s = 1 .. Len(s) /\ Len(t) \in Nat /\ Len(s) <= Len(t)
         /\ \A j \in 1 .. Len(s) : t[j] = s[j]
<1>1. Len(s) \in Nat /\ DOMAIN s = 1 .. Len(s)
  OBVIOUS
<1>2. CASE t = s
  BY <1>1, <1>2
<1>3. ASSUME NEW x \in X, t = Append(s, x)
      PROVE  Len(t) = Len(s) + 1 /\ \A j \in 1 .. Len(s) : t[j] = s[j]
  BY <1>3
<1>4. CASE \E x \in X : t = Append(s, x)
  <2>1. Len(t) = Len(s) + 1 /\ \A j \in 1 .. Len(s) : t[j] = s[j]
    BY <1>3, <1>4
  <2> QED BY <1>1, <2>1
<1> QED BY <1>2, <1>4

\* A timestamp of Postfix is at most Grain - 1 behind.
LEMMA RoundedTyped ==
  ASSUME TypeOK
  PROVE  Rounded \in Nat /\ Rounded <= now /\ now <= Rounded + Grain - 1
<1>1. now \in Nat /\ Grain \in Nat \ {0} /\ now <= now
  BY TrafficAssumption DEF TypeOK
<1> QED BY <1>1, RoundsDown DEF Rounded

\* No step takes anything back.
LEMMA OnwardNext ==
  ASSUME TypeOK, [Next]_vars
  PROVE  Onward
<1>1. now \in Nat /\ Grain \in Nat \ {0} /\ step \in [Conns -> Nat]
  BY TrafficAssumption DEF TypeOK
<1>2. ASSUME script' = script, upgraded' = upgraded, step' = step, now' = now \/ now' = now + 1
      PROVE  Onward
  <2>1. now <= now' /\ now' \in Nat
    BY <1>1, <1>2
  <2>2. Rounded <= Rounded'
    BY <1>1, <2>1, RoundsDown DEF Rounded
  <2> QED BY <1>1, <1>2, <2>1, <2>2 DEF Onward
<1>3. CASE UNCHANGED vars
  BY <1>2, <1>3 DEF vars
<1>4. CASE Tick
  BY <1>2, <1>4 DEF Tick, world
<1>5. ASSUME NEW w \in Windows, Batch(w[1], w[2]) PROVE Onward
  BY <1>2, <1>5 DEF Batch, world
<1>6. ASSUME NEW c \in Conns, End(c) \/ Disconnect(c) PROVE Onward
  BY <1>2, <1>6 DEF End, Disconnect
<1>7. ASSUME NEW c \in Conns, NEW do \in Steps, Scripted(c, do) PROVE Onward
  <2>1. Does(c, do)
    BY <1>7, ScriptedDoes
  <2>2. script' = script /\ now' = now /\ step' = [step EXCEPT ![c] = step[c] + 1]
    BY <2>1, StepTaken
  <2>3. upgraded \subseteq upgraded'
    <3>1. CASE do = "hello"
      BY <1>7, <3>1 DEF Scripted, Hello
    <3>2. CASE do # "hello"
      BY <1>7, <3>2 DEF Scripted, Start, Blind, Screen, Pregreet, Reject, Connect, Accept, Handshake, Queue
    <3> QED BY <3>1, <3>2
  <2>4. Rounded' = Rounded /\ Rounded \in Nat
    BY <2>2, RoundedTyped DEF Rounded
  <2> QED BY <1>1, <2>2, <2>3, <2>4 DEF Onward
<1> QED BY NextCases, <1>3, <1>4, <1>5, <1>6, <1>7

\* What a script has done, it has done for good.
LEMMA OnwardKeeps ==
  ASSUME TypeOK, TypeOK', Onward, NEW c \in Conns
  PROVE  /\ step[c] > 0 => step'[c] > 0
         /\ QueuedSecure(c) => QueuedSecure(c)'
         /\ \A do : Took(c, do) => Took(c, do)'
         /\ \A do, arg : Did(c, do, arg) => Did(c, do, arg)'
         /\ Opener' = Opener
<1>1. step[c] \in Nat /\ step'[c] \in Nat /\ step[c] <= step'[c] /\ script' = script
  BY DEF TypeOK, Onward
<1>2. 1 .. step[c] \subseteq 1 .. step'[c]
  BY <1>1
<1>3. QueuedSecure(c) => QueuedSecure(c)'
  BY <1>1, <1>2 DEF QueuedSecure
<1>4. \A do : Took(c, do) => Took(c, do)'
  BY <1>1, <1>2 DEF Took
<1>5. \A do, arg : Did(c, do, arg) => Did(c, do, arg)'
  BY <1>1, <1>2 DEF Did
<1> QED BY <1>1, <1>3, <1>4, <1>5 DEF Opener

\* What was true of the lines stays true, if the log stays or one line is added.
LEMMA LinesStayTrue ==
  ASSUME TypeOK, TypeOK', LogTrue, Onward,
         log' = log \/ \E l \in Line : log' = Append(log, l),
         \A b \in Conns : smtpd[b] \in Pids =>
           \/ smtpd'[b] = smtpd[b]
           \/ /\ Len(log') = Len(log) + 1
              /\ log'[Len(log')].kind = "disconnect" /\ log'[Len(log')].pid = smtpd[b],
         NEW k \in DOMAIN log
  PROVE  LineTrue(k)' /\ Kept(k)' /\ \A i \in 1 .. k - 1 : PairTrue(i, k)'
<1>1. /\ log \in Seq(Line) /\ Len(log) \in Nat /\ DOMAIN log = 1 .. Len(log)
      /\ Len(log') \in Nat /\ Len(log) <= Len(log')
      /\ \A j \in 1 .. Len(log) : log'[j] = log[j]
  <2>1. log \in Seq(Line)
    BY DEF TypeOK
  <2> QED BY <2>1, OneMore
<1>2. k \in 1 .. Len(log) /\ log'[k] = log[k] /\ log[k] \in Line
  BY <1>1, ItemOf
<1>3. log[k].ghost.conn \in Conns /\ log[k].at \in Nat
  BY <1>2 DEF Line
<1>4. LineTrue(k) /\ Kept(k) /\ \A i \in 1 .. k - 1 : PairTrue(i, k)
  BY DEF LogTrue
<1>5. LineTrue(k)'
  <2>00. PICK c \in Conns : c = log[k].ghost.conn
    BY <1>3
  <2>0. PICK l : l = log[k] /\ c = log[k].ghost.conn
    BY <2>00
  <2>1. /\ step[c] > 0 => step'[c] > 0
        /\ QueuedSecure(c) => QueuedSecure(c)'
        /\ \A do : Took(c, do) => Took(c, do)'
        /\ \A do, arg : Did(c, do, arg) => Did(c, do, arg)'
        /\ Opener' = Opener
    BY OnwardKeeps
  <2>2. l.at <= Rounded => l.at <= Rounded'
    <3>1. Rounded' \in Nat
      <4>1. now' \in Nat /\ Grain \in Nat \ {0} /\ now' <= now'
        BY TrafficAssumption DEF TypeOK
      <4> QED BY <4>1, RoundsDown DEF Rounded
    <3> QED BY <1>3, <2>0, <3>1, RoundedTyped DEF Onward
  <2>3. (c \in upgraded => c \in upgraded') /\ log'[k] = l /\ c = log'[k].ghost.conn
    BY <1>2, <2>0 DEF Onward
  <2>4. \A j \in 1 .. k : log'[j] = log[j]
    BY <1>1, <1>2
  <2>5. /\ l.at <= Rounded /\ l.ghost.n = k - 1 /\ step[c] > 0
        /\ l.ghost.secure => c \in upgraded
        /\ l.kind \in {"screen", "connect"} => Took(c, l.kind)
        /\ l.kind \in {"pregreet", "reject"} => Did(c, l.kind, l.arg)
        /\ l.kind \in {"connect", "disconnect", "tls", "queue"} => l.pid \in Pids
        /\ l.kind = "tls" => l.ghost.secure
        /\ l.kind = "queue" /\ l.ghost.secure => QueuedSecure(c)
        /\ l.kind \in Evidence => \E j \in 1 .. k : log[j].kind = Opener /\ log[j].ghost.conn = c
    BY <1>4, <2>0 DEF LineTrue
  <2>6. l.kind \in Evidence => \E j \in 1 .. k : log'[j].kind = Opener' /\ log'[j].ghost.conn = c
    BY <2>1, <2>4, <2>5
  <2>7. /\ l.kind \in {"screen", "connect"} => Took(c, l.kind)'
        /\ l.kind \in {"pregreet", "reject"} => Did(c, l.kind, l.arg)'
        /\ l.kind = "queue" /\ l.ghost.secure => QueuedSecure(c)'
    BY <2>1, <2>5
  <2> QED BY <2>1, <2>2, <2>3, <2>5, <2>6, <2>7 DEF LineTrue, Took, Did, QueuedSecure
<1>6. Kept(k)'
  <2> SUFFICES ASSUME log[k].kind = "connect"
               PROVE  \/ smtpd'[log[k].ghost.conn] = log[k].pid
                      \/ \E j \in k + 1 .. Len(log') : log'[j].kind = "disconnect" /\ log'[j].pid = log[k].pid
    BY <1>2 DEF Kept
  <2>1. log[k].pid \in Pids
    BY <1>4 DEF LineTrue
  <2>2. CASE smtpd[log[k].ghost.conn] = log[k].pid
    BY <1>1, <1>2, <1>3, <2>1, <2>2
  <2>3. CASE \E j \in k + 1 .. Len(log) : log[j].kind = "disconnect" /\ log[j].pid = log[k].pid
    <3>1. PICK j \in k + 1 .. Len(log) : log[j].kind = "disconnect" /\ log[j].pid = log[k].pid
      BY <2>3
    <3>2. j \in k + 1 .. Len(log') /\ log'[j] = log[j]
      BY <1>1, <1>2, <3>1
    <3> QED BY <3>1, <3>2
  <2> QED BY <1>4, <2>2, <2>3 DEF Kept
<1>7. ASSUME NEW i \in 1 .. k - 1 PROVE PairTrue(i, k)'
  <2>1. PairTrue(i, k)
    BY <1>4
  <2>2. log'[i] = log[i] /\ \A j \in i + 1 .. k - 1 : log'[j] = log[j]
    BY <1>1, <1>2
  <2> QED BY <1>2, <2>1, <2>2 DEF PairTrue
<1> QED BY <1>5, <1>6, <1>7

\* One line more.
NewLine(c, kind, pid, arg) ==
  [kind |-> kind, pid |-> pid, client |-> Client, at |-> Rounded, arg |-> arg,
   ghost |-> [conn |-> c, secure |-> c \in upgraded, n |-> Len(log)]]

\* A line that fits what its connection did keeps the log true.
LEMMA LineWritten ==
  ASSUME TypeOK, TypeOK', Served, LogTrue, Onward,
         NEW c \in Conns, NEW kind \in Kinds, NEW pid \in Pids \cup {"none", "postscreen"},
         NEW arg \in Args, Logs(c, kind, pid, arg), now' = now, upgraded' = upgraded,
         step'[c] > 0,
         kind \in {"screen", "connect"} => Took(c, kind)',
         kind \in {"pregreet", "reject"} => Did(c, kind, arg)',
         kind \in {"connect", "disconnect", "tls", "queue"} => pid \in Pids,
         kind = "tls" => c \in upgraded /\ ~QueuedSecure(c),
         kind = "queue" /\ c \in upgraded => QueuedSecure(c)',
         kind \in Evidence =>
           /\ kind = Opener \/ \E j \in DOMAIN log : log[j].kind = Opener /\ log[j].ghost.conn = c
           /\ \A b \in Conns : step[b] > 0 => b <= c,
         kind = "queue" => \A i \in DOMAIN log :
           log[i].kind = "queue" /\ log[i].arg = arg /\ log[i].pid = pid => log[i].at # Rounded,
         kind \in {"tls", "queue"} => pid = smtpd[c],
         kind = "connect" => smtpd'[c] = pid,
         \A b \in Conns : smtpd[b] \in Pids =>
           smtpd'[b] = smtpd[b] \/ (kind = "disconnect" /\ pid = smtpd[b])
  PROVE  LogTrue'
<1>0. PICK l, k : l = NewLine(c, kind, pid, arg) /\ k = Len(log) + 1
  OBVIOUS
<1>1. /\ log \in Seq(Line) /\ Len(log) \in Nat /\ DOMAIN log = 1 .. Len(log)
  BY DEF TypeOK
<1>2. l \in Line
  <2>1. Rounded \in Nat
    BY RoundedTyped
  <2> QED BY <1>0, <1>1, <2>1 DEF NewLine, Line
<1>3. /\ l.kind = kind /\ l.pid = pid /\ l.at = Rounded /\ l.arg = arg /\ l.ghost.conn = c
      /\ l.ghost.secure = (c \in upgraded) /\ l.ghost.n = Len(log)
  BY <1>0 DEF NewLine
<1>4. log' = Append(log, l) /\ k = Len(log) + 1 /\ k \in Nat
  BY <1>0, <1>1 DEF Logs, NewLine
<1>5. /\ Len(log') = k /\ DOMAIN log' = 1 .. k /\ log'[k] = l
      /\ \A j \in 1 .. Len(log) : log'[j] = log[j]
  BY <1>1, <1>4
<1>6. \A j \in DOMAIN log : LineTrue(j)' /\ Kept(j)' /\ \A i \in 1 .. j - 1 : PairTrue(i, j)'
  BY <1>2, <1>3, <1>4, <1>5, LinesStayTrue
<1>7. Opener' = Opener /\ Rounded' = Rounded
  BY OnwardKeeps DEF Rounded
<1>8. LineTrue(k)'
  <2>1. kind \in Evidence => \E j \in 1 .. k : log'[j].kind = Opener /\ log'[j].ghost.conn = c
    <3>1. CASE kind = Opener
      BY <1>1, <1>3, <1>4, <1>5, <3>1
    <3>2. CASE \E j \in DOMAIN log : log[j].kind = Opener /\ log[j].ghost.conn = c
      <4>1. PICK j \in DOMAIN log : log[j].kind = Opener /\ log[j].ghost.conn = c
        BY <3>2
      <4>2. j \in 1 .. k /\ log'[j] = log[j]
        BY <1>1, <1>4, <1>5, <4>1
      <4> QED BY <4>1, <4>2
    <3> QED BY <3>1, <3>2
  <2>2. l.at <= Rounded' /\ l.ghost.n = k - 1
    BY <1>1, <1>3, <1>4, <1>7, RoundedTyped
  <2>3. l.ghost.secure => c \in upgraded'
    BY <1>3
  <2>4. /\ l.kind \in {"screen", "connect"} => Took(c, l.kind)'
        /\ l.kind \in {"pregreet", "reject"} => Did(c, l.kind, l.arg)'
        /\ l.kind \in {"connect", "disconnect", "tls", "queue"} => l.pid \in Pids
        /\ l.kind = "tls" => l.ghost.secure
        /\ l.kind = "queue" /\ l.ghost.secure => QueuedSecure(c)'
        /\ step'[c] > 0 /\ log'[k] = l /\ l.ghost.conn = c
    BY <1>3, <1>5
  <2>5. l.kind \in Evidence => \E j \in 1 .. k : log'[j].kind = Opener' /\ log'[j].ghost.conn = c
    BY <1>3, <1>7, <2>1
  <2> QED BY <2>2, <2>3, <2>4, <2>5 DEF LineTrue, Took, Did, QueuedSecure
<1>9. Kept(k)'
  BY <1>3, <1>4, <1>5 DEF Kept
<1>10. ASSUME NEW i \in 1 .. k - 1 PROVE PairTrue(i, k)'
  <2>0. PICK a : a = log[i]
    OBVIOUS
  <2>1. i \in DOMAIN log /\ log'[i] = a /\ a \in Line
    BY <1>1, <1>4, <1>5, <2>0, ItemOf
  <2>2. LineTrue(i) /\ Kept(i) /\ a = log[i]
    BY <2>0, <2>1 DEF LogTrue
  <2>3. a.ghost.conn \in Conns
    BY <2>1 DEF Line
  <2>4. a.at <= l.at /\ (a.ghost.conn = c /\ a.ghost.secure => c \in upgraded)
        /\ (a.kind = "queue" /\ a.ghost.secure => QueuedSecure(a.ghost.conn))
        /\ step[a.ghost.conn] > 0
    BY <1>3, <2>2 DEF LineTrue
  <2>5. kind \in Evidence => a.ghost.conn <= c
    BY <2>3, <2>4
  <2>6. a.kind = "queue" /\ kind = "queue" /\ a.arg = arg /\ a.pid = pid => a.at # l.at
    BY <1>3, <2>0, <2>1
  <2>7. a.kind = "connect" /\ kind \in {"tls", "queue"} /\ a.pid = pid =>
          \/ a.ghost.conn = c
          \/ \E j \in i + 1 .. k - 1 : log'[j].kind = "disconnect" /\ log'[j].pid = a.pid
    <3> SUFFICES ASSUME a.kind = "connect", kind \in {"tls", "queue"}, a.pid = pid
                 PROVE  \/ a.ghost.conn = c
                        \/ \E j \in i + 1 .. k - 1 : log'[j].kind = "disconnect" /\ log'[j].pid = a.pid
      OBVIOUS
    <3>1. pid \in Pids /\ pid = smtpd[c] /\ pid # "none"
      BY TrafficAssumption
    <3>2. CASE smtpd[a.ghost.conn] = a.pid
      BY <2>3, <3>1, <3>2 DEF Served
    <3>3. CASE \E j \in i + 1 .. Len(log) : log[j].kind = "disconnect" /\ log[j].pid = a.pid
      <4>1. PICK j \in i + 1 .. Len(log) : log[j].kind = "disconnect" /\ log[j].pid = a.pid
        BY <3>3
      <4>2. j \in i + 1 .. k - 1 /\ log'[j] = log[j]
        BY <1>1, <1>4, <1>5, <4>1
      <4> QED BY <4>1, <4>2
    <3> QED BY <2>2, <3>2, <3>3 DEF Kept
  <2>8. a.ghost.conn = c /\ a.kind = "queue" /\ kind = "tls" => ~a.ghost.secure
    BY <2>4
  <2> QED BY <1>3, <1>5, <2>1, <2>4, <2>5, <2>6, <2>7, <2>8 DEF PairTrue
<1>11. \A j \in DOMAIN log' : LineTrue(j)' /\ Kept(j)' /\ \A i \in 1 .. j - 1 : PairTrue(i, j)'
  <2> SUFFICES ASSUME NEW j \in DOMAIN log'
               PROVE  LineTrue(j)' /\ Kept(j)' /\ \A i \in 1 .. j - 1 : PairTrue(i, j)'
    OBVIOUS
  <2>1. j = k \/ j \in DOMAIN log
    BY <1>1, <1>4, <1>5
  <2> QED BY <1>6, <1>8, <1>9, <1>10, <2>1
<1> QED BY <1>11 DEF LogTrue

-----------------------------------------------------------------------------
(* The log, step by step.                                                   *)

\* Whoever sent a ClientHello is encrypted.
UpgradedTrue == \A c \in Conns : Took(c, "hello") => c \in upgraded

\* The evidence of a session that was not begun yet begins with its opener.
LEMMA OpenerLogged ==
  ASSUME TypeOK, Served, Logged, NEW c \in Conns, NEW do \in Evidence, Does(c, do)
  PROVE  /\ do = Opener \/ \E j \in DOMAIN log : log[j].kind = Opener /\ log[j].ghost.conn = c
         /\ \A b \in Conns : step[b] > 0 => b <= c
<1>1. Opener \in {"screen", "connect"} /\ After(script[c], do, Opener)
  <2>1. (\A b \in Conns : Screened(script[b])) \/ (\A b \in Conns : Unscreened(script[b]))
    BY ScriptsAssumption DEF TypeOK
  <2> QED BY <2>1 DEF Opener, Screened, Unscreened
<1>2. do = Opener \/ Took(c, Opener)
  BY <1>1, Already
<1>3. ASSUME NEW b \in Conns, step[b] > 0 PROVE b <= c
  <2>1. ~Gone(c)
    BY StepTaken
  <2>2. ~(c < b)
    BY <1>3, <2>1 DEF Served
  <2>3. b \in Nat /\ c \in Nat
    BY CorrelateAssumption
  <2> QED BY <2>2, <2>3
<1> QED BY <1>1, <1>2, <1>3 DEF Logged

\* A queued message after the upgrade, and a handshake, in the order of the script.
LEMMA QueuedHandshake ==
  ASSUME TypeOK, NEW c \in Conns
  PROVE  /\ Does(c, "handshake") => ~QueuedSecure(c)
         /\ TypeOK' /\ Does(c, "queue") /\ Took(c, "hello") => QueuedSecure(c)'
<1>1. ASSUME Does(c, "handshake"), QueuedSecure(c) PROVE FALSE
  <2>1. /\ step[c] + 1 \in DOMAIN script[c] /\ script[c][step[c] + 1].do = "handshake"
        /\ step[c] \in Nat /\ step[c] + 1 \in 1 .. Len(script[c])
    BY <1>1, StepTaken
  <2>5. PICK j \in 1 .. step[c] : \E i \in 1 .. j : script[c][i].do = "hello" /\ script[c][j].do = "queue"
    BY <1>1 DEF QueuedSecure
  <2>2. PICK i \in 1 .. j : script[c][i].do = "hello" /\ script[c][j].do = "queue"
    BY <2>5
  <2>3. i \in DOMAIN script[c] /\ j \in DOMAIN script[c]
    BY <2>1, <2>2, ScriptIsSession
  <2>4. j < i \/ step[c] + 1 < j
    BY <2>1, <2>2, <2>3, ScriptIsSession DEF Session
  <2> QED BY <2>1, <2>2, <2>4
<1>2. ASSUME TypeOK', Does(c, "queue"), Took(c, "hello") PROVE QueuedSecure(c)'
  <2>1. /\ script[c][step[c] + 1].do = "queue" /\ step[c] \in Nat
        /\ step'[c] = step[c] + 1 /\ script' = script
    BY <1>2, StepTaken
  <2>2. PICK i \in 1 .. step[c] : script[c][i].do = "hello"
    BY <1>2 DEF Took
  <2>3. step[c] + 1 \in 1 .. step'[c] /\ i \in 1 .. step[c] + 1
    BY <2>1, <2>2
  <2> QED BY <2>1, <2>2, <2>3 DEF QueuedSecure
<1> QED BY <1>1, <1>2

\* Which step of a script writes which line.
Kind(do) == IF do = "handshake" THEN "tls" ELSE do
\* The steps that write a line.
Writing == {"screen", "pregreet", "reject", "connect", "handshake", "queue"}

\* Each step that logs writes the one line of its kind, with the pid that serves.
LEMMA WritingLogs ==
  ASSUME TypeOK, Served, Gated, NEW c \in Conns, NEW do \in Writing, Scripted(c, do)
  PROVE  /\ now' = now /\ upgraded' = upgraded /\ Kind(do) \in Kinds /\ events' = events
         /\ \E pid \in Pids \cup {"none", "postscreen"}, arg \in Args :
              /\ Logs(c, Kind(do), pid, arg)
              /\ do \in {"pregreet", "reject", "queue"} => arg = Arg(c)
              /\ do \in {"connect", "handshake", "queue"} => pid \in Pids
              /\ do \in {"handshake", "queue"} => pid = smtpd[c]
              /\ do = "connect" => /\ smtpd' = [smtpd EXCEPT ![c] = pid]
                                   /\ ~Took(c, "connect")
              /\ do # "connect" => smtpd' = smtpd
<1>1. Does(c, do) /\ Arg(c) \in Args
  BY ScriptedDoes, DoesTyped
<1>2. now' = now /\ ~Gone(c)
  BY <1>1, StepTaken
<1>3. upgraded' = upgraded /\ events' = events
  BY DEF Writing, Scripted, Screen, Pregreet, Reject, Connect, Handshake, Queue, Silent
<1>4. Kind(do) \in Kinds /\ "none" \in Args
  BY DEF Kind, Kinds, Writing, Args
<1>5. smtpd[c] \in Pids \cup {"none", "postscreen"}
  BY DEF TypeOK
<1>6. CASE do = "screen"
  BY <1>2, <1>3, <1>4, <1>6 DEF Scripted, Screen, Kind
<1>7. CASE do = "pregreet"
  BY <1>1, <1>2, <1>3, <1>4, <1>7 DEF Scripted, Pregreet, Kind
<1>8. CASE do = "reject"
  BY <1>1, <1>2, <1>3, <1>4, <1>5, <1>8 DEF Scripted, Reject, Kind
<1>9. CASE do = "connect"
  <2>1. ~Took(c, "connect")
    BY <1>1, <1>9, NotYet
  <2>2. PICK p \in Pids : smtpd' = [smtpd EXCEPT ![c] = p] /\ Logs(c, "connect", p, "none")
    BY <1>9 DEF Scripted, Connect
  <2> QED BY <1>2, <1>3, <1>4, <1>9, <2>1, <2>2 DEF Kind
<1>10. CASE do \in {"handshake", "queue"}
  <2>1. After(script[c], do, "connect")
    BY <1>10, ScriptIsSession DEF Session
  <2>2. Took(c, "connect")
    BY <1>1, <1>10, <2>1, Already
  <2>3. smtpd[c] \in Pids
    BY <1>2, <2>2 DEF Served, TypeOK
  <2>4. CASE do = "handshake"
    BY <1>2, <1>3, <1>4, <2>3, <2>4 DEF Scripted, Handshake, Kind
  <2>5. CASE do = "queue"
    BY <1>1, <1>2, <1>3, <1>4, <2>3, <2>5 DEF Scripted, Queue, Kind
  <2> QED BY <1>10, <2>4, <2>5
<1> QED BY <1>6, <1>7, <1>8, <1>9, <1>10 DEF Writing

\* Whoever logs a handshake is encrypted.
LEMMA HandshakeUpgraded ==
  ASSUME TypeOK, UpgradedTrue, NEW c \in Conns, Does(c, "handshake")
  PROVE  c \in upgraded
<1>1. Took(c, "hello")
  BY Already, ScriptIsSession DEF Session
<1> QED BY <1>1 DEF UpgradedTrue

\* Every step keeps the encrypted connections those that sent a ClientHello.
LEMMA UpgradedNext ==
  ASSUME TypeOK, UpgradedTrue, [Next]_vars
  PROVE  UpgradedTrue'
<1>1. ASSUME UNCHANGED <<step, script, upgraded>> PROVE UpgradedTrue'
  BY <1>1, TookStays DEF UpgradedTrue
<1>2. CASE UNCHANGED vars
  BY <1>1, <1>2 DEF vars
<1>3. CASE Tick
  BY <1>1, <1>3 DEF Tick, world
<1>4. ASSUME NEW w \in Windows, Batch(w[1], w[2]) PROVE UpgradedTrue'
  BY <1>1, <1>4 DEF Batch, world
<1>5. ASSUME NEW c \in Conns, End(c) \/ Disconnect(c) PROVE UpgradedTrue'
  BY <1>1, <1>5 DEF End, Disconnect
<1>6. ASSUME NEW c \in Conns, NEW do \in Steps, Scripted(c, do) PROVE UpgradedTrue'
  <2>1. Does(c, do)
    BY <1>6, ScriptedDoes
  <2>2. \A b \in Conns : Took(b, "hello")' => Took(b, "hello") \/ (b = c /\ do = "hello")
    BY <2>1, TookGrows
  <2>3. upgraded \subseteq upgraded'
    BY OnwardNext DEF Onward
  <2>4. do = "hello" => c \in upgraded'
    BY <1>6 DEF Scripted, Hello
  <2> QED BY <2>2, <2>3, <2>4 DEF UpgradedTrue
<1> QED BY NextCases, <1>2, <1>3, <1>4, <1>5, <1>6

\* Every step keeps the log true.
LEMMA LogNext ==
  ASSUME TypeOK, TypeOK', Served, Gated, UpgradedTrue, LogTrue, Logged, [Next]_vars
  PROVE  LogTrue'
<1>0. Onward
  BY OnwardNext
<1>1. ASSUME log' = log, smtpd' = smtpd PROVE LogTrue'
  BY <1>0, <1>1, LinesStayTrue DEF LogTrue
<1>2. CASE UNCHANGED vars
  BY <1>1, <1>2 DEF vars
<1>3. CASE Tick
  BY <1>1, <1>3 DEF Tick, world
<1>4. ASSUME NEW w \in Windows, Batch(w[1], w[2]) PROVE LogTrue'
  BY <1>1, <1>4 DEF Batch, world
<1>5. ASSUME NEW c \in Conns, End(c) PROVE LogTrue'
  BY <1>1, <1>5 DEF End
<1>6. ASSUME NEW c \in Conns, Disconnect(c) PROVE LogTrue'
  <2>1. /\ Gone(c) /\ smtpd[c] \in Pids /\ smtpd' = [smtpd EXCEPT ![c] = "none"]
        /\ Logs(c, "disconnect", smtpd[c], "none") /\ now' = now /\ upgraded' = upgraded /\ step' = step
    BY <1>6 DEF Disconnect, TypeOK
  <2>2. "disconnect" \in Kinds /\ "none" \in Args /\ "disconnect" \notin Evidence
    BY DEF Kinds, Args, Evidence
  <2>3. step[c] > 0
    BY <2>1, ScriptIsSession DEF Gone
  <2>4. \A b \in Conns : smtpd[b] \in Pids => smtpd'[b] = smtpd[b] \/ smtpd[c] = smtpd[b]
    BY <2>1 DEF TypeOK
  <2>5. PICK p : p = smtpd[c]
    OBVIOUS
  <2> QED BY <1>0, <2>1, <2>2, <2>3, <2>4, <2>5, LineWritten
<1>7. ASSUME NEW c \in Conns, NEW do \in Steps, Scripted(c, do) PROVE LogTrue'
  <2>1. Does(c, do)
    BY <1>7, ScriptedDoes
  <2>2. CASE do \notin Writing
    <3>1. log' = log /\ smtpd' = smtpd
      BY <1>7, <2>2 DEF Scripted, Steps, Writing, Start, Blind, Accept, Hello, NoLines
    <3> QED BY <1>1, <3>1
  <2>3. CASE do \in Writing
    <3>1. /\ now' = now /\ upgraded' = upgraded /\ Kind(do) \in Kinds
      BY <1>7, <2>3, WritingLogs
    <3>2. PICK pid \in Pids \cup {"none", "postscreen"}, arg \in Args :
              /\ Logs(c, Kind(do), pid, arg)
              /\ do \in {"pregreet", "reject", "queue"} => arg = Arg(c)
              /\ do \in {"connect", "handshake", "queue"} => pid \in Pids
              /\ do \in {"handshake", "queue"} => pid = smtpd[c]
              /\ do = "connect" => /\ smtpd' = [smtpd EXCEPT ![c] = pid]
                                   /\ ~Took(c, "connect")
              /\ do # "connect" => smtpd' = smtpd
      BY <1>7, <2>3, WritingLogs
    <3>3. /\ step[c] \in Nat /\ step'[c] = step[c] + 1 /\ script' = script
          /\ script[c][step[c] + 1].do = do
      BY <2>1, StepTaken
    <3>4. Took(c, do)'
      BY <2>1, TookGrows
    <3>5. do \in {"pregreet", "reject"} => Did(c, do, arg)'
      BY <3>2, <3>3 DEF Did, Arg
    <3>6. do = "handshake" => c \in upgraded /\ ~QueuedSecure(c)
      BY <2>1, QueuedHandshake, HandshakeUpgraded
    <3>7. do = "queue" /\ c \in upgraded => QueuedSecure(c)'
      BY <2>1, QueuedHandshake DEF Gated
    <3>8. do \in Evidence =>
           /\ do = Opener \/ \E j \in DOMAIN log : log[j].kind = Opener /\ log[j].ghost.conn = c
           /\ \A b \in Conns : step[b] > 0 => b <= c
      BY <2>1, OpenerLogged
    <3>9. do = "queue" => \A i \in DOMAIN log :
           log[i].kind = "queue" /\ log[i].arg = arg /\ log[i].pid = pid => log[i].at # Rounded
      BY <1>7, <3>2 DEF Scripted, Queue, ToSet
    <3>10. \A b \in Conns : smtpd[b] \in Pids => smtpd'[b] = smtpd[b]
      <4>1. CASE do = "connect"
        <5>1. smtpd[c] = "none" \/ Took(c, "connect")
          BY DEF Served
        <5>2. smtpd[c] = "none"
          BY <3>2, <4>1, <5>1
        <5> QED BY <3>2, <4>1, <5>2, TrafficAssumption DEF TypeOK
      <4>2. CASE do # "connect"
        BY <3>2, <4>2
      <4> QED BY <4>1, <4>2
    <3>11. do = "connect" => smtpd'[c] = pid
      BY <3>2 DEF TypeOK
    <3>12. PICK kind : kind = Kind(do)
      OBVIOUS
    <3>13. /\ kind = "tls" <=> do = "handshake"
           /\ kind # "tls" => kind = do
           /\ kind \in Evidence => do \in Evidence /\ kind = do
           /\ kind # "disconnect"
      BY <2>3, <3>12 DEF Kind, Writing, Evidence
    <3>14. step'[c] > 0
      BY <3>3
    <3>15. kind \in {"connect", "disconnect", "tls", "queue"} => pid \in Pids
      BY <3>2, <3>13
    <3>16. /\ kind \in {"screen", "connect"} => Took(c, kind)'
           /\ kind \in {"pregreet", "reject"} => Did(c, kind, arg)'
      BY <3>4, <3>5, <3>13
    <3>17. kind \in Kinds /\ Logs(c, kind, pid, arg)
      BY <3>1, <3>2, <3>12
    <3>18. /\ kind = "tls" => c \in upgraded /\ ~QueuedSecure(c)
           /\ kind = "queue" /\ c \in upgraded => QueuedSecure(c)'
           /\ kind \in Evidence =>
                /\ kind = Opener \/ \E j \in DOMAIN log : log[j].kind = Opener /\ log[j].ghost.conn = c
                /\ \A b \in Conns : step[b] > 0 => b <= c
           /\ kind = "queue" => \A i \in DOMAIN log :
                log[i].kind = "queue" /\ log[i].arg = arg /\ log[i].pid = pid => log[i].at # Rounded
           /\ kind \in {"tls", "queue"} => pid = smtpd[c]
           /\ kind = "connect" => smtpd'[c] = pid
      BY <3>2, <3>6, <3>7, <3>8, <3>9, <3>11, <3>13
    <3> QED BY <1>0, <3>1, <3>10, <3>14, <3>15, <3>16, <3>17, <3>18, LineWritten
  <2> QED BY <2>2, <2>3
<1> QED BY NextCases, <1>2, <1>3, <1>4, <1>5, <1>6, <1>7

-----------------------------------------------------------------------------
(* Time: the events and the lines about a connection, the verdicts.         *)

\* The events of a connection and the lines about it agree on the time, up to rounding.
Timely ==
  \A k \in DOMAIN log, c \in Conns : log[k].ghost.conn = c =>
    \A j \in DOMAIN events[c] :
      LET l == log[k]
          e == events[c][j]
      IN /\ e.type = "start" => e.at <= l.at + Grain - 1
         /\ e.type = "end" /\ l.kind # "disconnect" => l.at <= e.at
         /\ e.type = "accepted" /\ l.ghost.secure => e.at <= l.at + Grain - 1
         /\ e.type = "fingerprint" /\ ~l.ghost.secure => l.at <= e.at

\* Every verdict is one of a message in the log.
VerdictsTrue ==
  \A v \in verdicts : \E k \in DOMAIN log :
    log[k].kind = "queue" /\ log[k].arg = v.queue /\ log[k].ghost.n = v.ghost.n

\* Every step keeps who was screened or taken in the log.
LEMMA LoggedNext ==
  ASSUME TypeOK, TypeOK', Served, Gated, Logged, [Next]_vars
  PROVE  Logged'
<1>0. log \in Seq(Line)
  BY DEF TypeOK
<1>1. ASSUME UNCHANGED <<step, script, log>> PROVE Logged'
  BY <1>1, TookStays DEF Logged
<1>2. CASE UNCHANGED vars
  BY <1>1, <1>2 DEF vars
<1>3. CASE Tick
  BY <1>1, <1>3 DEF Tick, world
<1>4. ASSUME NEW w \in Windows, Batch(w[1], w[2]) PROVE Logged'
  BY <1>1, <1>4 DEF Batch, world
<1>5. ASSUME NEW c \in Conns, End(c) PROVE Logged'
  BY <1>1, <1>5 DEF End
<1>6. ASSUME NEW l, log' = Append(log, l),
             \A b \in Conns, by \in {"screen", "connect"} :
               Took(b, by)' => Took(b, by) \/ (l.kind = by /\ l.ghost.conn = b)
      PROVE  Logged'
  <2> SUFFICES ASSUME NEW b \in Conns, NEW by \in {"screen", "connect"}, Took(b, by)'
               PROVE  \E j \in DOMAIN log' : log'[j].kind = by /\ log'[j].ghost.conn = b
    BY DEF Logged
  <2>1. /\ Len(log) \in Nat /\ DOMAIN log = 1 .. Len(log) /\ DOMAIN log' = 1 .. Len(log) + 1
        /\ log'[Len(log) + 1] = l /\ \A j \in 1 .. Len(log) : log'[j] = log[j]
    BY <1>0, <1>6
  <2>2. CASE Took(b, by)
    <3>1. PICK j \in DOMAIN log : log[j].kind = by /\ log[j].ghost.conn = b
      BY <2>2 DEF Logged
    <3>2. j \in DOMAIN log' /\ log'[j] = log[j]
      BY <2>1, <3>1
    <3> QED BY <3>1, <3>2
  <2>3. CASE l.kind = by /\ l.ghost.conn = b
    <3>1. Len(log) + 1 \in DOMAIN log'
      BY <2>1
    <3> QED BY <2>1, <2>3, <3>1
  <2> QED BY <1>6, <2>2, <2>3
<1>7. ASSUME NEW c \in Conns, Disconnect(c) PROVE Logged'
  <2>1. step' = step /\ script' = script /\ Logs(c, "disconnect", smtpd[c], "none")
    BY <1>7 DEF Disconnect
  <2>2. PICK l : log' = Append(log, l)
    BY <2>1 DEF Logs
  <2> QED BY <1>6, <2>1, <2>2, TookStays
<1>8. ASSUME NEW c \in Conns, NEW do \in Steps, Scripted(c, do) PROVE Logged'
  <2>1. Does(c, do)
    BY <1>8, ScriptedDoes
  <2>2. \A b \in Conns : \A by : Took(b, by)' => Took(b, by) \/ (b = c /\ by = do)
    BY <2>1, TookGrows
  <2>3. CASE do \in Writing
    <3>1. PICK pid, arg : Logs(c, Kind(do), pid, arg)
      BY <1>8, <2>3, WritingLogs
    <3>2. PICK l : l = NewLine(c, Kind(do), pid, arg)
      OBVIOUS
    <3>3. log' = Append(log, l) /\ l.kind = Kind(do) /\ l.ghost.conn = c
      BY <3>1, <3>2 DEF Logs, NewLine
    <3> QED BY <1>6, <2>2, <3>3 DEF Kind
  <2>4. CASE do \notin Writing
    <3>1. log' = log
      BY <1>8, <2>4 DEF Scripted, Writing, Start, Blind, Accept, Hello, NoLines
    <3>2. \A b \in Conns, by \in {"screen", "connect"} : Took(b, by)' => Took(b, by)
      BY <2>2, <2>4 DEF Writing
    <3> QED BY <3>1, <3>2 DEF Logged
  <2> QED BY <2>3, <2>4
<1> QED BY NextCases, <1>2, <1>3, <1>4, <1>5, <1>7, <1>8

\* Every step keeps each verdict with a message of the log.
LEMMA VerdictsNext ==
  ASSUME TypeOK, VerdictsTrue, [Next]_vars
  PROVE  VerdictsTrue'
<1>0. log \in Seq(Line) /\ Len(log) \in Nat
  BY DEF TypeOK
<1>1. ASSUME verdicts' = verdicts, log' = log \/ \E l : log' = Append(log, l) PROVE VerdictsTrue'
  <2>1. \A k \in DOMAIN log : k \in DOMAIN log' /\ log'[k] = log[k]
    BY <1>0, <1>1
  <2> QED BY <1>1, <2>1 DEF VerdictsTrue
<1>2. CASE UNCHANGED vars
  BY <1>1, <1>2 DEF vars
<1>3. CASE Tick
  BY <1>1, <1>3 DEF Tick, world
<1>4. ASSUME NEW w \in Windows, Batch(w[1], w[2]) PROVE VerdictsTrue'
  BY <1>1, <1>4 DEF Batch, world
<1>5. ASSUME NEW c \in Conns, End(c) PROVE VerdictsTrue'
  BY <1>1, <1>5 DEF End
<1>6. ASSUME NEW c \in Conns, Disconnect(c) PROVE VerdictsTrue'
  BY <1>1, <1>6 DEF Disconnect, Logs
<1>7. ASSUME NEW c \in Conns, NEW do \in Steps, Scripted(c, do) PROVE VerdictsTrue'
  <2>1. CASE do # "queue"
    BY <1>1, <1>7, <2>1 DEF Scripted, Start, Blind, Screen, Pregreet, Reject, Connect, Accept,
                            Hello, Handshake, NoLines, Logs
  <2>2. CASE do = "queue"
    <3>1. PICK l : l = NewLine(c, "queue", smtpd[c], Arg(c))
      OBVIOUS
    <3>2. log' = Append(log, l) /\ l.kind = "queue" /\ l.arg = Arg(c) /\ l.ghost.n = Len(log)
      BY <1>7, <2>2, <3>1 DEF Scripted, Queue, Logs, NewLine
    <3>3. \A v \in verdicts' \ verdicts : v.queue = Arg(c) /\ v.ghost.n = Len(log)
      BY <1>7, <2>2 DEF Scripted, Queue
    <3>4. /\ \A k \in DOMAIN log : k \in DOMAIN log' /\ log'[k] = log[k]
          /\ Len(log) + 1 \in DOMAIN log' /\ log'[Len(log) + 1] = l
      BY <1>0, <3>2
    <3>5. ASSUME NEW v \in verdicts'
          PROVE  \E k \in DOMAIN log' :
                   log'[k].kind = "queue" /\ log'[k].arg = v.queue /\ log'[k].ghost.n = v.ghost.n
      <4>1. CASE v \in verdicts
        BY <3>4, <4>1 DEF VerdictsTrue
      <4>2. CASE v \notin verdicts
        BY <3>2, <3>3, <3>4, <4>2
      <4> QED BY <4>1, <4>2
    <3> QED BY <3>5 DEF VerdictsTrue
  <2> QED BY <2>1, <2>2
<1> QED BY NextCases, <1>2, <1>3, <1>4, <1>5, <1>6, <1>7

-----------------------------------------------------------------------------
(* Time.                                                                    *)

\* The new event agrees with the lines that are there.
LEMMA EventTimely ==
  ASSUME TypeOK, Timely, log' = log, NEW c \in Conns, NEW e,
         \A b \in Conns \ {c} : events'[b] = events[b],
         events'[c] = Append(events[c], e),
         \A k \in DOMAIN log : log[k].ghost.conn = c =>
           /\ e.type = "start" => e.at <= log[k].at + Grain - 1
           /\ e.type = "end" /\ log[k].kind # "disconnect" => log[k].at <= e.at
           /\ e.type = "accepted" /\ log[k].ghost.secure => e.at <= log[k].at + Grain - 1
           /\ e.type = "fingerprint" /\ ~log[k].ghost.secure => log[k].at <= e.at
  PROVE  Timely'
<1> SUFFICES ASSUME NEW k \in DOMAIN log, NEW b \in Conns, log[k].ghost.conn = b,
                    NEW j \in DOMAIN events'[b]
             PROVE  LET l == log[k]
                        f == events'[b][j]
                    IN /\ f.type = "start" => f.at <= l.at + Grain - 1
                       /\ f.type = "end" /\ l.kind # "disconnect" => l.at <= f.at
                       /\ f.type = "accepted" /\ l.ghost.secure => f.at <= l.at + Grain - 1
                       /\ f.type = "fingerprint" /\ ~l.ghost.secure => l.at <= f.at
  BY DEF Timely
<1>1. events[c] \in Seq(Event)
  BY DEF TypeOK
<1>2. (b # c \/ j \in DOMAIN events[c]) => j \in DOMAIN events[b] /\ events'[b][j] = events[b][j]
  BY <1>1
<1>3. b = c /\ j \notin DOMAIN events[c] => events'[b][j] = e
  BY <1>1
<1>4. CASE b # c \/ j \in DOMAIN events[c]
  BY <1>2, <1>4 DEF Timely
<1>5. CASE b = c /\ j \notin DOMAIN events[c]
  BY <1>3, <1>5
<1> QED BY <1>4, <1>5

\* The new line agrees with the events that are there.
LEMMA LineTimely ==
  ASSUME TypeOK, Timely, events' = events, NEW c \in Conns, NEW l, log' = Append(log, l),
         l.ghost.conn = c,
         \A j \in DOMAIN events[c] : LET e == events[c][j] IN
           /\ e.type = "start" => e.at <= l.at + Grain - 1
           /\ e.type = "end" /\ l.kind # "disconnect" => l.at <= e.at
           /\ e.type = "accepted" /\ l.ghost.secure => e.at <= l.at + Grain - 1
           /\ e.type = "fingerprint" /\ ~l.ghost.secure => l.at <= e.at
  PROVE  Timely'
<1> SUFFICES ASSUME NEW k \in DOMAIN log', NEW b \in Conns, log'[k].ghost.conn = b,
                    NEW j \in DOMAIN events[b]
             PROVE  LET m == log'[k]
                        f == events[b][j]
                    IN /\ f.type = "start" => f.at <= m.at + Grain - 1
                       /\ f.type = "end" /\ m.kind # "disconnect" => m.at <= f.at
                       /\ f.type = "accepted" /\ m.ghost.secure => f.at <= m.at + Grain - 1
                       /\ f.type = "fingerprint" /\ ~m.ghost.secure => m.at <= f.at
  BY DEF Timely
<1>1. log \in Seq(Line)
  BY DEF TypeOK
<1>2. k \in DOMAIN log => log'[k] = log[k]
  BY <1>1
<1>3. k \notin DOMAIN log => log'[k] = l
  BY <1>1
<1>4. CASE k \in DOMAIN log
  BY <1>2, <1>4 DEF Timely
<1>5. CASE k \notin DOMAIN log
  BY <1>3, <1>5
<1> QED BY <1>4, <1>5

\* Every step keeps events and lines in the order of what happened, up to Grain.
LEMMA TimelyNext ==
  ASSUME TypeOK, Served, Gated, UpgradedTrue, EventsTrue, LogTrue, Timely, [Next]_vars
  PROVE  Timely'
<1>0. /\ Rounded \in Nat /\ Rounded <= now /\ now <= Rounded + Grain - 1 /\ now \in Nat
      /\ Grain \in Nat
  BY RoundedTyped, TrafficAssumption DEF TypeOK
<1>1. ASSUME log' = log, events' = events PROVE Timely'
  BY <1>1 DEF Timely
<1>2. CASE UNCHANGED vars
  BY <1>1, <1>2 DEF vars
<1>3. CASE Tick
  BY <1>1, <1>3 DEF Tick, world
<1>4. ASSUME NEW w \in Windows, Batch(w[1], w[2]) PROVE Timely'
  BY <1>1, <1>4 DEF Batch, world
<1>5. \A k \in DOMAIN log : LineTrue(k) /\ log[k].at \in Nat /\ log[k].ghost.conn \in Conns
  <2>1. \A k \in DOMAIN log : log[k] \in Line
    BY DEF TypeOK
  <2> QED BY <2>1 DEF LogTrue, Line
<1>6. \A c \in Conns : \A j \in DOMAIN events[c] : events[c][j].at \in Nat
  <2>1. \A c \in Conns : \A j \in DOMAIN events[c] : events[c][j] \in Event
    BY DEF TypeOK
  <2> QED BY <2>1 DEF Event
<1>7. ASSUME NEW c \in Conns, NEW type, NEW state, Emits(c, type, state), log' = log,
             \/ type = "start" /\ step[c] = 0
             \/ type = "accepted" /\ c \notin upgraded
             \/ type \in {"fingerprint", "end"}
      PROVE  Timely'
  <2>1. PICK e : e = NewEvent(c, type, state)
    OBVIOUS
  <2>2. e.type = type /\ e.at = now
    BY <2>1 DEF NewEvent
  <2>3. ASSUME NEW k \in DOMAIN log, log[k].ghost.conn = c
        PROVE  /\ e.type = "start" => e.at <= log[k].at + Grain - 1
               /\ e.type = "end" /\ log[k].kind # "disconnect" => log[k].at <= e.at
               /\ e.type = "accepted" /\ log[k].ghost.secure => e.at <= log[k].at + Grain - 1
               /\ e.type = "fingerprint" /\ ~log[k].ghost.secure => log[k].at <= e.at
    <3>1. log[k].at <= now /\ step[c] > 0 /\ (log[k].ghost.secure => c \in upgraded)
      BY <1>0, <1>5, <2>3 DEF LineTrue
    <3> QED BY <1>7, <2>2, <3>1
  <2>4. CASE (\A b \in Conns \ {c} : events'[b] = events[b]) /\ events'[c] = Append(events[c], e)
    BY <1>7, <2>3, <2>4, EventTimely
  <2> QED BY <1>1, <1>7, <2>1, <2>4, EmitsAppends
<1>8. ASSUME NEW c \in Conns, End(c) PROVE Timely'
  BY <1>7, <1>8 DEF End
<1>9. ASSUME NEW c \in Conns, NEW kind, NEW pid, NEW arg, Logs(c, kind, pid, arg), events' = events,
             kind # "disconnect" => ~Gone(c)
      PROVE  Timely'
  <2>1. PICK l : l = NewLine(c, kind, pid, arg)
    OBVIOUS
  <2>2. /\ l.kind = kind /\ l.at = Rounded /\ l.ghost.secure = (c \in upgraded) /\ l.ghost.conn = c
        /\ log' = Append(log, l)
    BY <1>9, <2>1 DEF NewLine, Logs
  <2>3. ASSUME NEW j \in DOMAIN events[c]
        PROVE  LET e == events[c][j] IN
               /\ e.type = "start" => e.at <= l.at + Grain - 1
               /\ e.type = "end" /\ l.kind # "disconnect" => l.at <= e.at
               /\ e.type = "accepted" /\ l.ghost.secure => e.at <= l.at + Grain - 1
               /\ e.type = "fingerprint" /\ ~l.ghost.secure => l.at <= e.at
    <3>1. events[c][j].at <= now /\ (events[c][j].type = "end" => gate[c] = "over")
          /\ (events[c][j].type = "fingerprint" => Took(c, "hello"))
      BY DEF EventsTrue
    <3>2. events[c][j].at <= Rounded + Grain - 1
      BY <1>0, <1>6, <3>1
    <3>3. events[c][j].type = "end" => l.kind = "disconnect"
      BY <1>9, <2>2, <3>1 DEF Gated
    <3>4. events[c][j].type = "fingerprint" => l.ghost.secure
      BY <2>2, <3>1 DEF UpgradedTrue
    <3> QED BY <2>2, <3>2, <3>3, <3>4
  <2> QED BY <1>9, <2>2, <2>3, LineTimely
<1>10. ASSUME NEW c \in Conns, Disconnect(c) PROVE Timely'
  BY <1>9, <1>10 DEF Disconnect
<1>11. ASSUME NEW c \in Conns, NEW do \in Steps, Scripted(c, do) PROVE Timely'
  <2>1. Does(c, do)
    BY <1>11, ScriptedDoes
  <2>2. CASE do \in Writing
    <3>1. ~Gone(c)
      BY <2>1, StepTaken
    <3>2. events' = events /\ \E pid, arg : Logs(c, Kind(do), pid, arg)
      BY <1>11, <2>2, WritingLogs
    <3> QED BY <1>9, <3>1, <3>2
  <2>3. CASE do = "open"
    <3>1. step[c] = 0
      BY <2>1, <2>3, OpensFirst
    <3>2. Emits(c, "start", "none") /\ log' = log
      BY <1>11, <2>3 DEF Scripted, Start, NoLines
    <3> QED BY <1>7, <3>1, <3>2
  <2>4. CASE do = "blind"
    BY <1>1, <1>11, <2>4 DEF Scripted, Blind, Silent, NoLines
  <2>5. CASE do = "accept"
    <3>1. ~Took(c, "accept")
      BY <2>1, <2>5, NotYet
    <3>2. c \notin upgraded
      BY <3>1, HelloTook DEF Gated
    <3>3. (Emits(c, "accepted", "accepted") \/ events' = events) /\ log' = log
      BY <1>11, <2>5 DEF Scripted, Accept, Silent, NoLines
    <3> QED BY <1>1, <1>7, <3>2, <3>3
  <2>6. CASE do = "hello"
    <3>1. (Emits(c, "fingerprint", "none") \/ events' = events) /\ log' = log
      BY <1>11, <2>6 DEF Scripted, Hello, Silent, NoLines
    <3> QED BY <1>1, <1>7, <3>1
  <2> QED BY <2>2, <2>3, <2>4, <2>5, <2>6 DEF Steps, Writing
<1> QED BY NextCases, <1>2, <1>3, <1>4, <1>8, <1>10, <1>11

-----------------------------------------------------------------------------
(* What is read of a connection's events, whatever their order.             *)

\* What is read of the events.
StampOf(e) == [at |-> e.at, state |-> e.state, behavior |-> e.behavior]
\* Connections, as they are read.
Stamps == [at : Nat \cup {Never}, state : Gates \cup {"none", "accepted"},
           behavior : {"HELO", "EHLO", "quiet", "missing"}]
Connection == [client : {NoClient, Client}, start : Stamps, accepted : Stamps, tls : Stamps,
               end : Stamps, invalid : BOOLEAN]

\* The stamp of an event is set and holds its time.
LEMMA StampTyped ==
  ASSUME NEW e \in Event
  PROVE  StampOf(e) \in Stamps /\ StampOf(e) # NoStamp /\ StampOf(e).at = e.at /\ StampOf(e).state = e.state
         /\ StampOf(e).behavior = e.behavior
BY DEF StampOf, Event, Stamps, NoStamp, Never, Gates

\* A connection that no event names is typed.
LEMMA UnseenTyped == NoStamp \in Stamps /\ Unseen \in Connection /\ NothingSeen \in [Conns -> Connection]
BY DEF NoStamp, Unseen, Stamps, Connection, NothingSeen, Never, Gates

\* What an event that contradicts nothing adds.
Added(k, e) ==
  CASE e.type = "start"       -> [k EXCEPT !.start = StampOf(e), !.client = Client]
    [] e.type = "accepted"    -> [k EXCEPT !.accepted = StampOf(e), !.client = Client]
    [] e.type = "fingerprint" -> [k EXCEPT !.tls = StampOf(e), !.client = Client]
    [] e.type = "end"         -> [k EXCEPT !.end = StampOf(e), !.client = Client]

\* What is known of one type of event.
Slotted(k, type) ==
  CASE type = "start" -> k.start [] type = "accepted" -> k.accepted
    [] type = "fingerprint" -> k.tls [] type = "end" -> k.end

\* An event that contradicts nothing is no conflict (ReadEvent).
LEMMA ReadEventAdds ==
  ASSUME NEW conns \in [Conns -> Connection], NEW e \in Event,
         Slotted(conns[e.conn], e.type) \in {NoStamp, StampOf(e)}
  PROVE  ReadEvent(conns, e) = [conns EXCEPT ![e.conn] = Added(conns[e.conn], e)]
<1> DEFINE k == conns[e.conn]
<1>1. k \in Connection /\ e.conn \in Conns /\ e.client = Client /\ e.type \in Types
  BY DEF Event
<1>2. k.client \in {NoClient, Client}
  BY <1>1 DEF Connection
<1>7. PICK s, stamp, m : /\ s = Slot[e.type] /\ stamp = StampOf(e) /\ m = k /\ m \in Connection
                          /\ m.client \in {NoClient, e.client}
  BY <1>1, <1>2
<1>8. ASSUME m[s] \in {NoStamp, stamp}
       PROVE  ReadEvent(conns, e) = [conns EXCEPT ![e.conn] = [m EXCEPT ![s] = stamp, !.client = e.client]]
  BY <1>7, <1>8 DEF ReadEvent, StampOf
<1> HIDE DEF k
<1>3. CASE e.type = "start"
  <2>1. s = "start"
    BY <1>7, <1>3 DEF Slot
  <2>2. m[s] = m.start /\ m.start \in {NoStamp, stamp}
    BY <1>7, <1>3, <2>1 DEF Connection, Slotted, k
  <2>3. [m EXCEPT ![s] = stamp, !.client = e.client] = [m EXCEPT !.start = stamp, !.client = Client]
    BY <1>1, <1>7, <2>1 DEF Connection
  <2>4. Added(k, e) = [m EXCEPT !.start = stamp, !.client = Client]
    BY <1>7, <1>3 DEF Added
  <2> QED BY <1>8, <2>2, <2>3, <2>4 DEF k
<1>4. CASE e.type = "accepted"
  <2>1. s = "accepted"
    BY <1>7, <1>4 DEF Slot
  <2>2. m[s] = m.accepted /\ m.accepted \in {NoStamp, stamp}
    BY <1>7, <1>4, <2>1 DEF Connection, Slotted, k
  <2>3. [m EXCEPT ![s] = stamp, !.client = e.client] = [m EXCEPT !.accepted = stamp, !.client = Client]
    BY <1>1, <1>7, <2>1 DEF Connection
  <2>4. Added(k, e) = [m EXCEPT !.accepted = stamp, !.client = Client]
    BY <1>7, <1>4 DEF Added
  <2> QED BY <1>8, <2>2, <2>3, <2>4 DEF k
<1>5. CASE e.type = "fingerprint"
  <2>1. s = "tls"
    BY <1>7, <1>5 DEF Slot
  <2>2. m[s] = m.tls /\ m.tls \in {NoStamp, stamp}
    BY <1>7, <1>5, <2>1 DEF Connection, Slotted, k
  <2>3. [m EXCEPT ![s] = stamp, !.client = e.client] = [m EXCEPT !.tls = stamp, !.client = Client]
    BY <1>1, <1>7, <2>1 DEF Connection
  <2>4. Added(k, e) = [m EXCEPT !.tls = stamp, !.client = Client]
    BY <1>7, <1>5 DEF Added
  <2> QED BY <1>8, <2>2, <2>3, <2>4 DEF k
<1>6. CASE e.type = "end"
  <2>1. s = "end"
    BY <1>7, <1>6 DEF Slot
  <2>2. m[s] = m.end /\ m.end \in {NoStamp, stamp}
    BY <1>7, <1>6, <2>1 DEF Connection, Slotted, k
  <2>3. [m EXCEPT ![s] = stamp, !.client = e.client] = [m EXCEPT !.end = stamp, !.client = Client]
    BY <1>1, <1>7, <2>1 DEF Connection
  <2>4. Added(k, e) = [m EXCEPT !.end = stamp, !.client = Client]
    BY <1>7, <1>6 DEF Added
  <2> QED BY <1>8, <2>2, <2>3, <2>4 DEF k
<1> QED BY <1>1, <1>3, <1>4, <1>5, <1>6 DEF Types

\* Events of one type that one connection has do not differ.
Agreeing(es) ==
  \A i, j \in DOMAIN es : es[i].conn = es[j].conn /\ es[i].type = es[j].type => es[i] = es[j]

\* k is what the first n events say of c.
SaidBy(k, c, es, n) ==
  /\ k \in Connection /\ k.invalid = FALSE
  /\ (\E i \in 1 .. n : es[i].conn = c) => k.client = Client
  /\ (\A i \in 1 .. n : es[i].conn # c) => k = Unseen
  /\ \A type \in Types :
       /\ (\A i \in 1 .. n : es[i].conn = c => es[i].type # type) => Slotted(k, type) = NoStamp
       /\ \A i \in 1 .. n : es[i].conn = c /\ es[i].type = type => Slotted(k, type) = StampOf(es[i])

\* It fills its own slot and no other.
LEMMA AddedSlots ==
  ASSUME NEW k \in Connection, NEW e \in Event
  PROVE  /\ Added(k, e) \in Connection /\ Added(k, e).invalid = k.invalid /\ Added(k, e).client = Client
         /\ \A type \in Types :
              Slotted(Added(k, e), type) = IF type = e.type THEN StampOf(e) ELSE Slotted(k, type)
<1>1. e.type \in Types /\ StampOf(e) \in Stamps
  BY StampTyped DEF Event
<1>2. PICK s : s = StampOf(e)
  OBVIOUS
<1>3. CASE e.type = "start"
  <2>1. Added(k, e) = [k EXCEPT !.start = s, !.client = Client]
    BY <1>2, <1>3 DEF Added
  <2> QED BY <1>1, <1>2, <1>3, <2>1 DEF Types, Slotted, Connection
<1>4. CASE e.type = "accepted"
  <2>1. Added(k, e) = [k EXCEPT !.accepted = s, !.client = Client]
    BY <1>2, <1>4 DEF Added
  <2> QED BY <1>1, <1>2, <1>4, <2>1 DEF Types, Slotted, Connection
<1>5. CASE e.type = "fingerprint"
  <2>1. Added(k, e) = [k EXCEPT !.tls = s, !.client = Client]
    BY <1>2, <1>5 DEF Added
  <2> QED BY <1>1, <1>2, <1>5, <2>1 DEF Types, Slotted, Connection
<1>6. CASE e.type = "end"
  <2>1. Added(k, e) = [k EXCEPT !.end = s, !.client = Client]
    BY <1>2, <1>6 DEF Added
  <2> QED BY <1>1, <1>2, <1>6, <2>1 DEF Types, Slotted, Connection
<1> QED BY <1>1, <1>3, <1>4, <1>5, <1>6 DEF Types

\* Events that agree are read without a conflict, each into its place.
LEMMA ConnectionsRead ==
  ASSUME NEW es \in Seq(Event), Agreeing(es)
  PROVE  /\ ReadConnections(es) \in [Conns -> Connection]
         /\ \A c \in Conns : SaidBy(ReadConnections(es)[c], c, es, Len(es))
<1> DEFINE F == EventsRead(es)
           P(n) == n <= Len(es) => /\ F[n] \in [Conns -> Connection]
                                   /\ \A c \in Conns : SaidBy(F[n][c], c, es, n)
           S == {n \in Nat : P(n)}
<1>1. /\ ReadConnections(es) = F[Len(es)] /\ F[0] = NothingSeen
      /\ \A n \in 1 .. Len(es) : F[n] = ReadEvent(F[n - 1], es[n])
  BY EventsReadStep
<1>2. Len(es) \in Nat /\ \A n \in 1 .. Len(es) : es[n] \in Event /\ n \in DOMAIN es
  BY ItemOf
<1> HIDE DEF F
<1>3. 0 \in S
  <2>1. NothingSeen \in [Conns -> Connection] /\ \A c \in Conns : NothingSeen[c] = Unseen
    BY UnseenTyped DEF NothingSeen
  <2>2. Unseen.invalid = FALSE /\ Unseen.client = NoClient
        /\ \A type \in Types : Slotted(Unseen, type) = NoStamp
    BY DEF Unseen, Types, Slotted
  <2>3. Unseen \in Connection
    BY UnseenTyped
  <2>4. \A c \in Conns : SaidBy(Unseen, c, es, 0)
    BY <2>2, <2>3 DEF SaidBy
  <2> QED BY <1>1, <2>1, <2>4
<1>4. ASSUME NEW n \in Nat, n \in S PROVE n + 1 \in S
  <2> SUFFICES ASSUME n + 1 <= Len(es)
               PROVE  /\ F[n + 1] \in [Conns -> Connection]
                      /\ \A c \in Conns : SaidBy(F[n + 1][c], c, es, n + 1)
    OBVIOUS
  <2>1. F[n] \in [Conns -> Connection] /\ \A c \in Conns : SaidBy(F[n][c], c, es, n)
    BY <1>2, <1>4
  <2>2. PICK m, e : m = F[n] /\ e = es[n + 1]
    OBVIOUS
  <2>3. e \in Event /\ n + 1 \in 1 .. Len(es) /\ F[n + 1] = ReadEvent(m, e)
    BY <1>1, <1>2, <2>2
  <2>4. e.conn \in Conns /\ e.type \in Types /\ m[e.conn] \in Connection
    BY <2>1, <2>2, <2>3 DEF Event
  <2>5. Slotted(m[e.conn], e.type) \in {NoStamp, StampOf(e)}
    <3>1. SaidBy(m[e.conn], e.conn, es, n)
      BY <2>1, <2>2, <2>4
    <3>2. ASSUME NEW i \in 1 .. n, es[i].conn = e.conn, es[i].type = e.type PROVE es[i] = e
      BY <1>2, <2>2, <2>3, <3>2 DEF Agreeing
    <3> QED BY <2>4, <3>1, <3>2 DEF SaidBy
  <2>6. F[n + 1] = [m EXCEPT ![e.conn] = Added(m[e.conn], e)]
    BY <2>1, <2>2, <2>3, <2>5, ReadEventAdds
  <2>7. Added(m[e.conn], e) \in Connection
    BY <2>3, <2>4, AddedSlots
  <2>8. F[n + 1] \in [Conns -> Connection]
    BY <2>1, <2>2, <2>6, <2>7
  <2>9. ASSUME NEW c \in Conns PROVE SaidBy(F[n + 1][c], c, es, n + 1)
    <3>1. SaidBy(m[c], c, es, n)
      BY <2>1, <2>2
    <3>2. CASE c # e.conn
      <4>1. F[n + 1][c] = m[c] /\ es[n + 1].conn # c
        BY <2>1, <2>2, <2>6, <3>2
      <4>2. \A i \in 1 .. n + 1 : es[i].conn = c => i \in 1 .. n
        BY <4>1
      <4> QED BY <3>1, <4>1, <4>2 DEF SaidBy
    <3>3. CASE c = e.conn
      <4>1. PICK k : k = Added(m[c], e)
        OBVIOUS
      <4>2. F[n + 1][c] = k
        BY <2>1, <2>2, <2>6, <3>3, <4>1
      <4>3. /\ k \in Connection /\ k.invalid = m[c].invalid /\ k.client = Client
            /\ \A type \in Types :
                 Slotted(k, type) = IF type = e.type THEN StampOf(e) ELSE Slotted(m[c], type)
        BY <2>3, <2>4, <3>3, <4>1, AddedSlots
      <4>4. es[n + 1].conn = c /\ n + 1 \in 1 .. n + 1
        BY <2>2, <3>3
      <4>5. ASSUME NEW type \in Types
            PROVE  /\ (\A i \in 1 .. n + 1 : es[i].conn = c => es[i].type # type) => Slotted(k, type) = NoStamp
                   /\ \A i \in 1 .. n + 1 : es[i].conn = c /\ es[i].type = type => Slotted(k, type) = StampOf(es[i])
        <5>1. CASE type = e.type
          <6>1. ASSUME NEW i \in 1 .. n + 1, es[i].conn = c, es[i].type = type PROVE es[i] = e
            BY <1>2, <2>2, <2>3, <3>3, <5>1, <6>1 DEF Agreeing
          <6> QED BY <2>2, <4>3, <4>4, <5>1, <6>1
        <5>2. CASE type # e.type
          <6>1. \A i \in 1 .. n + 1 : es[i].type = type => i \in 1 .. n
            BY <2>2, <5>2
          <6>2. 1 .. n \subseteq 1 .. n + 1
            OBVIOUS
          <6> QED BY <3>1, <4>3, <5>2, <6>1, <6>2 DEF SaidBy
        <5> QED BY <5>1, <5>2
      <4>6. k.invalid = FALSE
        BY <3>1, <4>3 DEF SaidBy
      <4> QED BY <4>2, <4>3, <4>4, <4>5, <4>6 DEF SaidBy
    <3> QED BY <3>2, <3>3
  <2> QED BY <2>8, <2>9
<1>5. Len(es) \in S
  <2> HIDE DEF S
  <2> QED BY <1>2, <1>3, <1>4, Induction
<1> QED BY <1>1, <1>2, <1>5

-----------------------------------------------------------------------------
(* The world.                                                               *)

\* The invariant of what happens and of what is written about it.
WorldInv ==
  /\ TypeOK /\ Served /\ Gated /\ UpgradedTrue
  /\ EventsTrue /\ LogTrue /\ Logged /\ Timely /\ VerdictsTrue

\* The invariant of what happens and is written holds at first.
LEMMA WorldInit == Init => WorldInv
<1> SUFFICES ASSUME Init PROVE WorldInv
  OBVIOUS
<1>1. TypeOK /\ Served /\ Gated
  BY TypeInit
<1>2. \A c \in Conns : \A do : ~Took(c, do)
  BY DEF Init, Took
<1>3. UpgradedTrue /\ Logged
  BY <1>2 DEF UpgradedTrue, Logged
<1>4. log = <<>> /\ verdicts = {} /\ \A c \in Conns : events[c] = <<>>
  BY DEF Init
<1>5. EventsTrue
  BY <1>4 DEF EventsTrue
<1>6. LogTrue /\ Timely /\ VerdictsTrue
  BY <1>4 DEF LogTrue, Timely, VerdictsTrue
<1> QED BY <1>1, <1>3, <1>5, <1>6 DEF WorldInv

\* Every step keeps it.
LEMMA WorldNext ==
  ASSUME WorldInv, [Next]_vars
  PROVE  WorldInv'
<1> USE DEF WorldInv
<1>1. TypeOK'
  BY TypeNext
<1>2. Served' /\ Gated' /\ UpgradedTrue' /\ EventsTrue'
  BY ServedNext, GatedNext, UpgradedNext, EventsNext
<1>3. LogTrue' /\ Logged' /\ Timely' /\ VerdictsTrue'
  BY <1>1, LogNext, LoggedNext, TimelyNext, VerdictsNext
<1> QED BY <1>1, <1>2, <1>3

\* What tlsgate, Postfix and the spam filter write is always true of the connections:
\* typed, in order, every line and event about what its connection did, at its time.
THEOREM WorldInvariance == Spec => []WorldInv
<1> QED BY WorldInit, WorldNext, PTL DEF Spec

-----------------------------------------------------------------------------
(* What a batch takes of what was written.                                  *)

\* The events of a batch: all those of the sessions that it holds.
EventsOf(es) ==
  /\ es \in Seq(Event)
  /\ \A e \in ToSet(es) :
       /\ e \in ToSet(events[e.conn]) /\ ToSet(events[e.conn]) \subseteq ToSet(es)
       /\ \E s, f \in ToSet(events[e.conn]) : s.type = "start" /\ f.type = "end" /\ s.at <= f.at

\* The lines of a batch: those of a stretch of the log, in their order.
LinesOf(ls) ==
  /\ ls \in Seq(Line)
  /\ \A i \in 1 .. Len(ls) : ls[i].ghost.n + 1 \in 1 .. Len(log) /\ log[ls[i].ghost.n + 1] = ls[i]
  /\ \A i, j \in 1 .. Len(ls) : i < j => ls[i].ghost.n < ls[j].ghost.n
  /\ \A i, j \in 1 .. Len(ls) : \A k \in 1 .. Len(log) :
       ls[i].ghost.n + 1 <= k /\ k <= ls[j].ghost.n + 1 => \E m \in 1 .. Len(ls) : ls[m] = log[k]

\* Two sequences joined hold what each holds.
LEMMA Joined ==
  ASSUME NEW X, NEW s \in Seq(X), NEW t \in Seq(X)
  PROVE  s \o t \in Seq(X) /\ ToSet(s \o t) = ToSet(s) \cup ToSet(t)
<1> DEFINE u == s \o t
<1>1. /\ u \in Seq(X) /\ Len(u) = Len(s) + Len(t) /\ Len(s) \in Nat /\ Len(t) \in Nat
      /\ DOMAIN s = 1 .. Len(s) /\ DOMAIN t = 1 .. Len(t) /\ DOMAIN u = 1 .. Len(u)
      /\ \A i \in 1 .. Len(s) + Len(t) : u[i] = IF i <= Len(s) THEN s[i] ELSE t[i - Len(s)]
  BY ConcatProperties
<1> HIDE DEF u
<1>2. ASSUME NEW i \in 1 .. Len(s) PROVE s[i] \in ToSet(u)
  <2>1. i \in DOMAIN u /\ u[i] = s[i]
    BY <1>1
  <2> QED BY <2>1 DEF ToSet
<1>3. ASSUME NEW i \in 1 .. Len(t) PROVE t[i] \in ToSet(u)
  <2>1. Len(s) + i \in DOMAIN u /\ u[Len(s) + i] = t[i]
    BY SMTT(20), <1>1
  <2> QED BY <2>1 DEF ToSet
<1>4. ASSUME NEW k \in 1 .. Len(u) PROVE u[k] \in ToSet(s) \cup ToSet(t)
  <2>1. CASE k <= Len(s)
    BY <1>1, <2>1 DEF ToSet
  <2>2. CASE ~(k <= Len(s))
    <3>1. k - Len(s) \in DOMAIN t /\ u[k] = t[k - Len(s)]
      BY <1>1, <2>2
    <3> QED BY <3>1 DEF ToSet
  <2> QED BY <2>1, <2>2
<1>5. ToSet(s) \subseteq ToSet(u) /\ ToSet(t) \subseteq ToSet(u)
  BY <1>1, <1>2, <1>3 DEF ToSet
<1>6. ToSet(u) \subseteq ToSet(s) \cup ToSet(t)
  <2> SUFFICES ASSUME NEW x \in ToSet(u) PROVE x \in ToSet(s) \cup ToSet(t)
    OBVIOUS
  <2>1. PICK k \in 1 .. Len(u) : u[k] = x
    BY <1>1 DEF ToSet
  <2> QED BY <1>4, <2>1
<1> QED BY <1>1, <1>5, <1>6 DEF u

\* select_events takes whole sessions.
LEMMA SessionsOf ==
  ASSUME WorldInv, NEW since, NEW until
  PROVE  EventsOf(Sessions(since, until))
<1> DEFINE F == SessionsTaken(since, until)
           S == {n \in Nat : n <= Cardinality(Conns) => EventsOf(F[n])}
<1>1. /\ Sessions(since, until) = F[Cardinality(Conns)] /\ F[0] = <<>>
      /\ \A n \in 1 .. Cardinality(Conns) :
           F[n] = IF Whole(n, since, until) THEN F[n - 1] \o events[n] ELSE F[n - 1]
  BY SessionsTakenStep
<1>2. Cardinality(Conns) \in Nat /\ Conns = 1 .. Cardinality(Conns)
  BY TrafficAssumption, FS_CardinalityType
<1> HIDE DEF F
<1>3. 0 \in S
  <2>1. EventsOf(<<>>)
    BY DEF EventsOf, ToSet
  <2> QED BY <1>1, <2>1
<1>4. ASSUME NEW n \in Nat, n \in S PROVE n + 1 \in S
  <2> SUFFICES ASSUME n + 1 <= Cardinality(Conns) PROVE EventsOf(F[n + 1])
    OBVIOUS
  <2>1. EventsOf(F[n])
    BY <1>2, <1>4
  <2>2. PICK c, s, t : c = n + 1 /\ s = F[n] /\ t = events[n + 1]
    OBVIOUS
  <2>3. c \in Conns /\ F[n + 1] = IF Whole(c, since, until) THEN s \o t ELSE s
    BY <1>1, <1>2, <2>2
  <2>4. CASE ~Whole(c, since, until)
    BY <2>1, <2>2, <2>3, <2>4
  <2>5. CASE Whole(c, since, until)
    <3>1. s \in Seq(Event) /\ t \in Seq(Event) /\ t = events[c]
      BY <2>1, <2>2, <2>3 DEF EventsOf, WorldInv, TypeOK
    <3>2. PICK u : u = s \o t
      OBVIOUS
    <3>3. u \in Seq(Event) /\ ToSet(u) = ToSet(s) \cup ToSet(t)
      BY <3>1, <3>2, Joined
    <3>4. \A e \in ToSet(t) : e.conn = c
      BY <2>3, <3>1 DEF WorldInv, EventsTrue, ToSet
    <3>5. \E e, f \in ToSet(t) : e.type = "start" /\ f.type = "end" /\ e.at <= f.at
      BY <2>5, <3>1 DEF Whole
    <3>6. EventsOf(s)
      BY <2>1, <2>2
    <3>7. EventsOf(u)
      BY <3>1, <3>3, <3>4, <3>5, <3>6 DEF EventsOf
    <3> QED BY <2>3, <2>5, <3>2, <3>7
  <2> QED BY <2>4, <2>5
<1>5. Cardinality(Conns) \in S
  <2> HIDE DEF S
  <2> QED BY <1>2, <1>3, <1>4, Induction
<1> QED BY <1>1, <1>2, <1>5

\* The lines that select_log_lines takes are a stretch of the log: its times do not go back.
LEMMA LinesFound ==
  ASSUME WorldInv, NEW since \in Int, NEW until \in Int
  PROVE  LinesOf(Lines(since, until))
<1> DEFINE F == LinesTaken(since, until)
           P(n, s) ==
             /\ s \in Seq(Line)
             /\ \A i \in 1 .. Len(s) :
                  /\ s[i].ghost.n + 1 \in 1 .. n /\ log[s[i].ghost.n + 1] = s[i]
                  /\ s[i].at \in since .. until
             /\ \A i, j \in 1 .. Len(s) : i < j => s[i].ghost.n < s[j].ghost.n
             /\ \A k \in 1 .. n : log[k].at \in since .. until => \E m \in 1 .. Len(s) : s[m] = log[k]
           S == {n \in Nat : n <= Len(log) => P(n, F[n])}
<1>0. log \in Seq(Line) /\ LogTrue
  BY DEF WorldInv, TypeOK
<1>1. /\ Lines(since, until) = F[Len(log)] /\ F[0] = <<>>
      /\ \A n \in 1 .. Len(log) :
           F[n] = IF log[n].at \in since .. until THEN Append(F[n - 1], log[n]) ELSE F[n - 1]
  BY <1>0, LinesTakenStep
<1>2. Len(log) \in Nat /\ \A k \in 1 .. Len(log) : log[k] \in Line /\ k \in DOMAIN log
  BY <1>0, ItemOf
<1> HIDE DEF F
<1>3. 0 \in S
  <2>1. P(0, <<>>)
    OBVIOUS
  <2> HIDE DEF P
  <2> QED BY <1>1, <2>1
<1>4. ASSUME NEW n \in Nat, n \in S PROVE n + 1 \in S
  <2> SUFFICES ASSUME n + 1 <= Len(log) PROVE P(n + 1, F[n + 1])
    OBVIOUS
  <2>1. PICK s, l : s = F[n] /\ l = log[n + 1]
    OBVIOUS
  <2>2. P(n, s)
    BY <1>2, <1>4, <2>1
  <2>3. /\ l \in Line /\ n + 1 \in 1 .. Len(log)
        /\ F[n + 1] = IF l.at \in since .. until THEN Append(s, l) ELSE s
    BY <1>1, <1>2, <2>1
  <2>4. l.ghost.n = n
    BY <1>0, <1>2, <2>1, <2>3 DEF LogTrue, LineTrue
  <2>5. CASE ~(l.at \in since .. until)
    <3>1. F[n + 1] = s
      BY <2>3, <2>5
    <3>2. \A k \in 1 .. n + 1 : log[k].at \in since .. until => k \in 1 .. n
      BY <2>1, <2>5
    <3>3. 1 .. n \subseteq 1 .. n + 1
      OBVIOUS
    <3> QED BY <2>2, <3>1, <3>2, <3>3
  <2>6. CASE l.at \in since .. until
    <3>1. PICK t : t = Append(s, l) /\ F[n + 1] = t
      BY <2>3, <2>6
    <3>2. /\ t \in Seq(Line) /\ Len(s) \in Nat /\ Len(t) = Len(s) + 1 /\ t[Len(s) + 1] = l
          /\ \A i \in 1 .. Len(s) : t[i] = s[i]
      BY <2>2, <2>3, <3>1
    <3>3. ASSUME NEW i \in 1 .. Len(t)
          PROVE  /\ t[i].ghost.n + 1 \in 1 .. n + 1 /\ log[t[i].ghost.n + 1] = t[i]
                 /\ t[i].at \in since .. until
      <4>1. CASE i = Len(t)
        <5>1. t[i] = l /\ l = log[n + 1] /\ l.ghost.n + 1 = n + 1
          BY <2>1, <2>4, <3>2, <4>1
        <5> QED BY <5>1, <2>6
      <4>2. CASE i \in 1 .. Len(s)
        <5>1. t[i] = s[i] /\ s[i].ghost.n + 1 \in 1 .. n
          BY <2>2, <3>2, <4>2
        <5> QED BY <2>2, <4>2, <5>1
      <4> QED BY <3>2, <4>1, <4>2
    <3>4. ASSUME NEW i \in 1 .. Len(t), NEW j \in 1 .. Len(t), i < j
          PROVE  t[i].ghost.n < t[j].ghost.n
      <4>1. i \in 1 .. Len(s)
        BY <3>2, <3>4
      <4>2. CASE j = Len(t)
        <5>1. s[i] \in Line
          BY <2>2, <4>1, ItemOf
        <5>2. s[i].ghost.n \in Nat
          BY <5>1 DEF Line
        <5>3. s[i].ghost.n + 1 \in 1 .. n /\ t[i] = s[i] /\ t[j].ghost.n = n
          BY <2>2, <2>4, <3>2, <4>1, <4>2
        <5> QED BY SMTT(20), <5>2, <5>3
      <4>3. CASE j \in 1 .. Len(s)
        BY <2>2, <3>2, <3>4, <4>1, <4>3
      <4> QED BY <3>2, <4>2, <4>3
    <3>5. ASSUME NEW k \in 1 .. n + 1, log[k].at \in since .. until
          PROVE  \E m \in 1 .. Len(t) : t[m] = log[k]
      <4>1. CASE k = n + 1
        BY <2>1, <3>2, <4>1
      <4>2. CASE k \in 1 .. n
        <5>1. PICK m \in 1 .. Len(s) : s[m] = log[k]
          BY <2>2, <3>5, <4>2
        <5> QED BY <3>2, <5>1
      <4> QED BY <4>1, <4>2
    <3>6. P(n + 1, t)
      <4> HIDE DEF S
      <4> QED BY <3>2, <3>3, <3>4, <3>5
    <3> QED BY <3>1, <3>6
  <2> QED BY <2>5, <2>6
<1>5. Len(log) \in S
  <2> HIDE DEF S
  <2> QED BY <1>2, <1>3, <1>4, Induction
<1>6. PICK ls : ls = Lines(since, until) /\ P(Len(log), ls)
  <2>1. P(Len(log), F[Len(log)])
    <3> HIDE DEF P
    <3> QED BY <1>2, <1>5
  <2> HIDE DEF P
  <2> QED BY <1>1, <2>1
<1>7. ASSUME NEW i \in 1 .. Len(ls), NEW j \in 1 .. Len(ls), NEW k \in 1 .. Len(log),
             ls[i].ghost.n + 1 <= k, k <= ls[j].ghost.n + 1
      PROVE  \E m \in 1 .. Len(ls) : ls[m] = log[k]
  <2>1. PICK a, b, x, y, z : /\ a = ls[i].ghost.n + 1 /\ b = ls[j].ghost.n + 1
                             /\ x = ls[i].at /\ y = log[k].at /\ z = ls[j].at
    OBVIOUS
  <2>2. /\ a \in 1 .. Len(log) /\ b \in 1 .. Len(log) /\ x = log[a].at /\ z = log[b].at
        /\ x \in since .. until /\ z \in since .. until /\ y \in Nat
    BY <1>2, <1>6, <2>1 DEF Line
  <2>3. x <= y
    <3>1. a = k \/ a \in 1 .. k - 1
      BY <1>2, <1>7, <2>1, <2>2
    <3>2. a \in 1 .. k - 1 => PairTrue(a, k)
      BY <1>0, <1>2, <2>2 DEF LogTrue
    <3> QED BY <2>1, <2>2, <3>1, <3>2 DEF PairTrue
  <2>4. y <= z
    <3>1. b = k \/ k \in 1 .. b - 1
      BY <1>2, <1>7, <2>1, <2>2
    <3>2. k \in 1 .. b - 1 => PairTrue(k, b)
      BY <1>0, <1>2, <2>2 DEF LogTrue
    <3> QED BY SMTT(20), <2>1, <2>2, <3>1, <3>2 DEF PairTrue
  <2>5. y \in since .. until
    BY SMTT(20), <2>2, <2>3, <2>4
  <2> QED BY <1>6, <2>1, <2>5
<1> QED BY <1>6, <1>7 DEF LinesOf

-----------------------------------------------------------------------------
(* The batch and its report.                                                *)

\* The batch, once it is made, and its report.
BatchTrue ==
  /\ EventsOf(batch.events) /\ LinesOf(batch.log) /\ batch.verdicts \subseteq verdicts
  /\ report = [credits  |-> Correlate(batch.events, batch.log, batch.verdicts),
               campaign |-> Campaign(batch.events, batch.log, Client)]

\* An empty batch credits nothing.
LEMMA NothingCredited == Correlate(<<>>, <<>>, {}) = {}
<1>1. ReadMessages(<<>>) = LinesRead(<<>>)[Len(<<>>)].out /\ LinesRead(<<>>)[0] = NothingRead
  <2>1. <<>> \in Seq(Line)
    OBVIOUS
  <2> QED BY <2>1, LinesReadStep
<1>2. ReadMessages(<<>>) = <<>>
  BY <1>1 DEF NothingRead
<1> QED BY <1>2 DEF Correlate

\* An empty batch holds what it should.
LEMMA EmptyOf ==
  /\ EventsOf(<<>>) /\ LinesOf(<<>>)
  /\ EventsOf(<<>>)' /\ LinesOf(<<>>)'
BY DEF EventsOf, LinesOf, ToSet

\* Before the batch there is nothing to be wrong.
LEMMA NoBatchTrue ==
  ASSUME batch = NoBatch, report = NoReport
  PROVE  BatchTrue
<1>1. batch.events = <<>> /\ batch.log = <<>> /\ batch.verdicts = {}
  BY DEF NoBatch
<1> QED BY <1>1, EmptyOf, NothingCredited DEF BatchTrue, NoReport

\* A batch holds whole sessions and a stretch of the log, and the report is made of it.
LEMMA BatchTaken ==
  ASSUME WorldInv, NEW since \in Int, NEW until \in Int, Batch(since, until)
  PROVE  BatchTrue'
<1>1. PICK es, ls, vs : /\ es = Sessions(since, until) /\ ls = Lines(since, until)
                        /\ vs = {v \in verdicts : v.at >= since /\ v.at <= until}
  OBVIOUS
<1>2. EventsOf(es) /\ LinesOf(ls) /\ vs \subseteq verdicts
  BY <1>1, SessionsOf, LinesFound
<1>3. /\ batch' = [events |-> es, log |-> ls, verdicts |-> vs]
      /\ report' = [credits |-> Correlate(es, ls, vs), campaign |-> Campaign(es, ls, Client)]
      /\ events' = events /\ log' = log /\ verdicts' = verdicts
  BY <1>1 DEF Batch
<1>4. batch'.events = es /\ batch'.log = ls /\ batch'.verdicts = vs
  BY <1>3
<1>5. EventsOf(batch.events)' /\ LinesOf(batch.log)'
  BY <1>2, <1>3, <1>4 DEF EventsOf, LinesOf
<1> QED BY <1>2, <1>3, <1>4, <1>5 DEF BatchTrue

\* Every step keeps the batch true: nothing is written after it.
LEMMA BatchNext ==
  ASSUME WorldInv, BatchTrue, [Next]_vars
  PROVE  BatchTrue'
<1>1. CASE \E w \in Windows : Batch(w[1], w[2])
  <2>1. PICK w \in Windows : Batch(w[1], w[2])
    BY <1>1
  <2>2. w[1] \in Int /\ w[2] \in Int
    BY TrafficAssumption
  <2> QED BY <2>1, <2>2, BatchTaken
<1>2. CASE UNCHANGED vars
  BY <1>2 DEF vars, BatchTrue, EventsOf, LinesOf
<1>3. ASSUME batch = NoBatch, batch' = batch, report' = report PROVE BatchTrue'
  <2>1. /\ batch.events = <<>> /\ batch.log = <<>> /\ batch.verdicts = {}
        /\ batch'.events = <<>> /\ batch'.log = <<>> /\ batch'.verdicts = {}
    BY <1>3 DEF NoBatch
  <2>2. EventsOf(batch.events)' /\ LinesOf(batch.log)'
    BY <2>1 DEF EventsOf, LinesOf, ToSet
  <2> QED BY <1>3, <2>1, <2>2 DEF BatchTrue
<1>4. CASE Tick
  BY <1>3, <1>4 DEF Tick, Open
<1>5. CASE \E c \in Conns, do \in Steps : Scripted(c, do)
  BY <1>3, <1>5, ScriptedDoes DEF Does, Open
<1>6. CASE \E c \in Conns : Disconnect(c)
  BY <1>3, <1>6 DEF Disconnect, Open
<1>7. CASE \E c \in Conns : End(c)
  BY <1>3, <1>7 DEF End, Open
<1> QED BY <1>1, <1>2, <1>4, <1>5, <1>6, <1>7, NextCases

\* The inductive invariant.
TrafficInv == WorldInv /\ BatchTrue

\* The batch is always a true excerpt of what was written, and the report is what
\* Correlate and Campaign make of it: the invariant the five properties follow from.
THEOREM TrafficInvariance == Spec => []TrafficInv
<1>1. Init => TrafficInv
  BY WorldInit, NoBatchTrue DEF Init, TrafficInv
<1>2. TrafficInv /\ [Next]_vars => TrafficInv'
  BY WorldNext, BatchNext DEF TrafficInv
<1> QED BY <1>1, <1>2, PTL DEF Spec

-----------------------------------------------------------------------------
(* What is read of a log: sessions of smtpd and messages.                   *)

\* The lines of one smtpd between a connect and a disconnect are of one connection.
Tidy(ls) ==
  /\ ls \in Seq(Line)
  /\ \A i \in 1 .. Len(ls) : ls[i].kind \in {"connect", "disconnect", "tls", "queue"} => ls[i].pid \in Pids
  /\ \A i, k \in 1 .. Len(ls) :
       i < k /\ ls[i].kind = "connect" /\ ls[k].kind \in {"tls", "queue"} /\ ls[i].pid = ls[k].pid =>
         \/ ls[i].ghost.conn = ls[k].ghost.conn
         \/ \E j \in i + 1 .. k - 1 : ls[j].kind = "disconnect" /\ ls[j].pid = ls[i].pid

\* The lines of a batch are tidy: smtpd has one client at a time and says so.
LEMMA LinesTidy ==
  ASSUME WorldInv, NEW ls, LinesOf(ls)
  PROVE  Tidy(ls)
<1>1. ls \in Seq(Line) /\ Len(ls) \in Nat /\ \A i \in 1 .. Len(ls) : ls[i] \in Line /\ ls[i].ghost.n \in Nat
  <2>1. ls \in Seq(Line)
    BY DEF LinesOf
  <2>2. \A i \in 1 .. Len(ls) : ls[i] \in Line
    BY <2>1, ItemOf
  <2> QED BY <2>1, <2>2 DEF Line
<1>2. log \in Seq(Line) /\ LogTrue /\ Len(log) \in Nat /\ DOMAIN log = 1 .. Len(log)
  BY DEF WorldInv, TypeOK
<1>3. ASSUME NEW i \in 1 .. Len(ls), ls[i].kind \in {"connect", "disconnect", "tls", "queue"}
      PROVE  ls[i].pid \in Pids
  <2>1. PICK k \in 1 .. Len(log) : log[k] = ls[i]
    BY DEF LinesOf
  <2>2. LineTrue(k)
    BY <1>2 DEF LogTrue
  <2> QED BY <1>3, <2>1, <2>2 DEF LineTrue
<1>4. ASSUME NEW i \in 1 .. Len(ls), NEW k \in 1 .. Len(ls), i < k,
             ls[i].kind = "connect", ls[k].kind \in {"tls", "queue"}, ls[i].pid = ls[k].pid,
             ls[i].ghost.conn # ls[k].ghost.conn
      PROVE  \E j \in i + 1 .. k - 1 : ls[j].kind = "disconnect" /\ ls[j].pid = ls[i].pid
  <2>1. PICK a, b : a = ls[i].ghost.n + 1 /\ b = ls[k].ghost.n + 1
    OBVIOUS
  <2>2. a \in 1 .. Len(log) /\ b \in 1 .. Len(log) /\ log[a] = ls[i] /\ log[b] = ls[k] /\ a < b
    BY SMTT(20), <1>1, <1>4, <2>1 DEF LinesOf
  <2>3. PairTrue(a, b)
    BY <1>2, <2>2 DEF LogTrue
  <2>4. PICK j \in a + 1 .. b - 1 : log[j].kind = "disconnect" /\ log[j].pid = ls[i].pid
    BY <1>4, <2>2, <2>3 DEF PairTrue
  <2>5. j \in 1 .. Len(log) /\ a <= j /\ j <= b
    BY <2>2, <2>4
  <2>6. PICK m \in 1 .. Len(ls) : ls[m] = log[j]
    BY <2>1, <2>5 DEF LinesOf
  <2>7. ls[m].ghost.n + 1 = j
    <3>1. LineTrue(j)
      BY <1>2, <2>5 DEF LogTrue
    <3> QED BY <2>5, <2>6, <3>1 DEF LineTrue
  <2>8. \A x, y \in 1 .. Len(ls) : x < y => ls[x].ghost.n < ls[y].ghost.n
    BY DEF LinesOf
  <2>9. i < m
    <3>1. ls[i].ghost.n < ls[m].ghost.n
      BY SMTT(20), <1>1, <2>1, <2>4, <2>7
    <3> QED BY <1>1, <2>8, <3>1
  <2>10. m < k
    <3>1. ls[m].ghost.n < ls[k].ghost.n
      BY <1>1, <2>1, <2>4, <2>7
    <3> QED BY <1>1, <2>8, <3>1
  <2> QED BY <2>4, <2>6, <2>9, <2>10
<1> QED BY <1>1, <1>3, <1>4 DEF Tidy

\* What is read of the lines.
Ghost == [conn : Conns, secure : BOOLEAN, n : Nat]
SessionState == [client : {NoClient, Client}, epoch : Nat \cup {Never},
                 tls : {"unknown", "before", "conflict"}, messages : SUBSET Nat]
Message == [queue : Args, client : {Client}, pid : Pids, at : Nat, epoch : Nat \cup {Never},
            tls : {"unknown", "before", "after", "conflict"}, ghost : Ghost]
Reading == [sessions : [Pids -> SessionState], out : Seq(Message)]

\* s is the session of smtpd p after n lines: it was begun by the i-th.
Since(i, s, p, ls, n, out) ==
  /\ ls[i].kind = "connect" /\ ls[i].pid = p /\ s.client = Client /\ s.epoch = ls[i].at
  /\ \A j \in i + 1 .. n : ls[j].pid = p => ls[j].kind \notin {"connect", "disconnect"}
  /\ s.tls # "unknown" => \E j \in 1 .. n : ls[j].kind = "tls" /\ ls[j].ghost.conn = ls[i].ghost.conn
  /\ \A x \in s.messages : x \in 1 .. Len(out) /\ out[x].ghost.conn = ls[i].ghost.conn

\* A session that smtpd is read to have began in the lines.
SessionTrue(s, p, ls, n, out) == s = NoSession \/ \E i \in 1 .. n : Since(i, s, p, ls, n, out)

\* m is a message that one of n lines queued.
MessageTrue(m, ls, n) ==
  \E j \in 1 .. n :
    /\ ls[j].kind = "queue" /\ m.queue = ls[j].arg /\ m.pid = ls[j].pid /\ m.at = ls[j].at
    /\ m.ghost = ls[j].ghost
    /\ m.epoch # Never => \E i \in 1 .. n : /\ ls[i].kind = "connect" /\ ls[i].at = m.epoch
                                            /\ ls[i].ghost.conn = m.ghost.conn
    /\ m.tls = "before" => \E i \in 1 .. j - 1 : ls[i].kind = "tls" /\ ls[i].ghost.conn = m.ghost.conn
    /\ m.tls = "after" => \E i \in j + 1 .. n : ls[i].kind = "tls" /\ ls[i].ghost.conn = m.ghost.conn

\* A line that queued a message is among the messages.
MessageOf(out, l) ==
  \E x \in 1 .. Len(out) : /\ out[x].queue = l.arg /\ out[x].pid = l.pid /\ out[x].at = l.at
                           /\ out[x].ghost = l.ghost

\* What n lines were read as.
ReadingTrue(acc, ls, n) ==
  /\ acc \in Reading
  /\ \A p \in Pids : SessionTrue(acc.sessions[p], p, ls, n, acc.out)
  /\ \A x \in 1 .. Len(acc.out) : MessageTrue(acc.out[x], ls, n)
  /\ \A j \in 1 .. n : ls[j].kind = "queue" => MessageOf(acc.out, ls[j])

\* A session goes on while its smtpd begins and ends none.
LEMMA SessionKept ==
  ASSUME NEW n \in Nat, NEW ls, NEW s, NEW p, NEW out, NEW out2, SessionTrue(s, p, ls, n, out),
         ls[n + 1].pid = p => ls[n + 1].kind \notin {"connect", "disconnect"},
         Len(out) \in Nat, Len(out2) \in Nat, Len(out) <= Len(out2),
         \A x \in 1 .. Len(out) : out2[x].ghost = out[x].ghost
  PROVE  SessionTrue(s, p, ls, n + 1, out2)
<1>1. CASE s = NoSession
  BY <1>1 DEF SessionTrue
<1>2. CASE s # NoSession
  <2>1. PICK i \in 1 .. n : Since(i, s, p, ls, n, out)
    BY <1>2 DEF SessionTrue
  <2>2. i \in 1 .. n + 1 /\ 1 .. n \subseteq 1 .. n + 1
    OBVIOUS
  <2>3. \A j \in i + 1 .. n + 1 : ls[j].pid = p => ls[j].kind \notin {"connect", "disconnect"}
    <3>1. \A j \in i + 1 .. n + 1 : j = n + 1 \/ j \in i + 1 .. n
      OBVIOUS
    <3> QED BY <2>1, <3>1 DEF Since
  <2>4. \A x \in s.messages : x \in 1 .. Len(out2) /\ out2[x].ghost.conn = ls[i].ghost.conn
    <3>1. \A x \in 1 .. Len(out) : x \in 1 .. Len(out2)
      OBVIOUS
    <3> QED BY <2>1, <3>1 DEF Since
  <2>5. Since(i, s, p, ls, n + 1, out2)
    BY <2>1, <2>2, <2>3, <2>4 DEF Since
  <2> QED BY <2>2, <2>5 DEF SessionTrue
<1> QED BY <1>1, <1>2

\* A message stays what it was.
LEMMA MessageKept ==
  ASSUME NEW n \in Nat, NEW ls, NEW m, MessageTrue(m, ls, n)
  PROVE  MessageTrue(m, ls, n + 1)
<1>1. PICK j \in 1 .. n :
    /\ ls[j].kind = "queue" /\ m.queue = ls[j].arg /\ m.pid = ls[j].pid /\ m.at = ls[j].at
    /\ m.ghost = ls[j].ghost
    /\ m.epoch # Never => \E i \in 1 .. n : /\ ls[i].kind = "connect" /\ ls[i].at = m.epoch
                                            /\ ls[i].ghost.conn = m.ghost.conn
    /\ m.tls = "before" => \E i \in 1 .. j - 1 : ls[i].kind = "tls" /\ ls[i].ghost.conn = m.ghost.conn
    /\ m.tls = "after" => \E i \in j + 1 .. n : ls[i].kind = "tls" /\ ls[i].ghost.conn = m.ghost.conn
  BY DEF MessageTrue
<1>2. j \in 1 .. n + 1 /\ 1 .. n \subseteq 1 .. n + 1 /\ j + 1 .. n \subseteq j + 1 .. n + 1
  OBVIOUS
<1> QED BY <1>1, <1>2 DEF MessageTrue

\* Before the first line nothing is read.
LEMMA NothingReadTrue ==
  ASSUME NEW ls
  PROVE  ReadingTrue(NothingRead, ls, 0)
<1>1. NoSession \in SessionState
  BY DEF NoSession, SessionState, Never
<1> QED BY <1>1 DEF ReadingTrue, NothingRead, Reading, SessionTrue

\* Who is read to have a session is the connection that the line is about.
LEMMA OwnSession ==
  ASSUME NEW ls, Tidy(ls), NEW n \in Nat, n + 1 \in 1 .. Len(ls),
         NEW acc, ReadingTrue(acc, ls, n), NEW l, l = ls[n + 1], l.kind \in {"tls", "queue"},
         Mine(acc, l)
  PROVE  \E i \in 1 .. n : /\ Since(i, acc.sessions[l.pid], l.pid, ls, n, acc.out)
                           /\ ls[i].ghost.conn = l.ghost.conn
<1>1. l \in Line /\ l.pid \in Pids /\ l.client = Client
  <2>1. l \in Line
    BY ItemOf DEF Tidy
  <2> QED BY <2>1 DEF Tidy, Line
<1>2. PICK s : s = acc.sessions[l.pid]
  OBVIOUS
<1>3. SessionTrue(s, l.pid, ls, n, acc.out) /\ s.client = Client
  BY <1>1, <1>2 DEF ReadingTrue, Mine
<1>4. s # NoSession
  BY <1>3, TrafficAssumption DEF NoSession
<1>5. PICK i \in 1 .. n : Since(i, s, l.pid, ls, n, acc.out)
  BY <1>3, <1>4 DEF SessionTrue
<1>6. ls[i].ghost.conn = l.ghost.conn
  <2>1. i \in 1 .. Len(ls) /\ i < n + 1 /\ (n + 1) - 1 = n
    BY <1>5
  <2>2. \/ ls[i].ghost.conn = ls[n + 1].ghost.conn
        \/ \E j \in i + 1 .. (n + 1) - 1 : ls[j].kind = "disconnect" /\ ls[j].pid = ls[i].pid
    BY <1>5, <2>1 DEF Tidy, Since
  <2> QED BY <1>5, <2>1, <2>2 DEF Since
<1> QED BY <1>2, <1>5, <1>6

\* A connect and a disconnect begin and end a session.
LEMMA ReadSessionTrue ==
  ASSUME NEW ls, Tidy(ls), NEW n \in Nat, n + 1 \in 1 .. Len(ls),
         NEW acc, ReadingTrue(acc, ls, n), NEW l, l = ls[n + 1], l.kind \in {"connect", "disconnect"}
  PROVE  ReadingTrue(ReadLine(acc, l), ls, n + 1)
<1>1. l \in Line /\ l.pid \in Pids /\ l.client = Client /\ l.at \in Nat
  <2>1. l \in Line
    BY ItemOf DEF Tidy
  <2> QED BY <2>1 DEF Tidy, Line
<1>2. PICK p : p = l.pid
  OBVIOUS
<1>3. /\ acc \in Reading /\ acc.out \in Seq(Message) /\ Len(acc.out) \in Nat
      /\ acc.sessions \in [Pids -> SessionState]
  BY DEF ReadingTrue, Reading
<1>4. PICK s : s = IF l.kind = "connect" THEN [NoSession EXCEPT !.client = l.client, !.epoch = l.at]
                   ELSE NoSession
  OBVIOUS
<1>5. s \in SessionState
  BY <1>1, <1>4 DEF NoSession, SessionState, Never
<1>6. ReadLine(acc, l) = [acc EXCEPT !.sessions = [acc.sessions EXCEPT ![p] = s]]
  BY <1>2, <1>4 DEF ReadLine, ReadConnect, ReadDisconnect
<1>7. PICK new : new = ReadLine(acc, l)
  OBVIOUS
<1>8. /\ new \in Reading /\ new.out = acc.out /\ new.sessions = [acc.sessions EXCEPT ![p] = s]
  BY <1>1, <1>2, <1>3, <1>5, <1>6, <1>7 DEF Reading
<1>9. ASSUME NEW q \in Pids PROVE SessionTrue(new.sessions[q], q, ls, n + 1, new.out)
  <2>1. CASE q # p
    <3>1. PICK old, out : old = acc.sessions[q] /\ out = acc.out
      OBVIOUS
    <3>2. SessionTrue(old, q, ls, n, out) /\ Len(out) \in Nat /\ Len(out) <= Len(out)
      BY <1>3, <3>1 DEF ReadingTrue
    <3>3. ls[n + 1].pid # q
      BY <1>2, <2>1
    <3>4. SessionTrue(old, q, ls, n + 1, out)
      BY <3>2, <3>3, SessionKept
    <3> QED BY <1>3, <1>8, <2>1, <3>1, <3>4
  <2>2. CASE q = p
    <3>1. new.sessions[q] = s
      BY <1>3, <1>8, <2>2
    <3>2. CASE l.kind = "disconnect"
      BY <1>4, <3>1, <3>2 DEF SessionTrue
    <3>3. CASE l.kind = "connect"
      <4>1. s.client = Client /\ s.epoch = l.at /\ s.tls = "unknown" /\ s.messages = {}
        BY <1>1, <1>4, <3>3 DEF NoSession
      <4>2. n + 1 \in 1 .. n + 1 /\ ls[n + 1] = l /\ l.kind = "connect" /\ l.pid = q
        BY <1>2, <2>2, <3>3
      <4>3. \A j \in (n + 1) + 1 .. n + 1 : FALSE
        OBVIOUS
      <4>4. SessionTrue(s, q, ls, n + 1, new.out)
        BY <4>1, <4>2, <4>3 DEF SessionTrue, Since
      <4> QED BY <3>1, <4>4
    <3> QED BY <3>2, <3>3
  <2> QED BY <2>1, <2>2
<1>10. \A x \in 1 .. Len(new.out) : MessageTrue(new.out[x], ls, n + 1)
  BY <1>8, MessageKept DEF ReadingTrue
<1>11. \A j \in 1 .. n + 1 : ls[j].kind = "queue" => MessageOf(new.out, ls[j])
  <2>1. \A j \in 1 .. n + 1 : j = n + 1 \/ j \in 1 .. n
    OBVIOUS
  <2> QED BY <1>8, <2>1 DEF ReadingTrue
<1> QED BY <1>7, <1>8, <1>9, <1>10, <1>11 DEF ReadingTrue

\* A line of postscreen, or a rejection, is passed over.
LEMMA ReadNothingTrue ==
  ASSUME NEW ls, Tidy(ls), NEW n \in Nat, n + 1 \in 1 .. Len(ls),
         NEW acc, ReadingTrue(acc, ls, n), NEW l, l = ls[n + 1],
         l.kind \notin {"connect", "disconnect", "tls", "queue"}
  PROVE  ReadingTrue(ReadLine(acc, l), ls, n + 1)
<1>1. ReadLine(acc, l) = acc
  BY DEF ReadLine
<1>2. acc \in Reading /\ Len(acc.out) \in Nat
  BY DEF ReadingTrue, Reading
<1>3. ASSUME NEW q \in Pids PROVE SessionTrue(acc.sessions[q], q, ls, n + 1, acc.out)
  <2>1. PICK s, out : s = acc.sessions[q] /\ out = acc.out
    OBVIOUS
  <2>2. SessionTrue(s, q, ls, n, out) /\ Len(out) \in Nat /\ Len(out) <= Len(out)
    BY <1>2, <2>1 DEF ReadingTrue
  <2>3. ls[n + 1].kind \notin {"connect", "disconnect"}
    OBVIOUS
  <2> QED BY <2>1, <2>2, <2>3, SessionKept
<1>4. \A x \in 1 .. Len(acc.out) : MessageTrue(acc.out[x], ls, n + 1)
  BY MessageKept DEF ReadingTrue
<1>5. \A j \in 1 .. n + 1 : ls[j].kind = "queue" => MessageOf(acc.out, ls[j])
  <2>1. \A j \in 1 .. n + 1 : j = n + 1 \/ j \in 1 .. n
    OBVIOUS
  <2> QED BY <2>1 DEF ReadingTrue
<1> QED BY <1>1, <1>2, <1>3, <1>4, <1>5 DEF ReadingTrue

\* A handshake comes after the messages of its session.
LEMMA ReadTlsTrue ==
  ASSUME NEW ls, Tidy(ls), NEW n \in Nat, n + 1 \in 1 .. Len(ls),
         NEW acc, ReadingTrue(acc, ls, n), NEW l, l = ls[n + 1], l.kind = "tls"
  PROVE  ReadingTrue(ReadLine(acc, l), ls, n + 1)
<1>1. l \in Line /\ l.pid \in Pids /\ l.client = Client
  <2>1. l \in Line
    BY ItemOf DEF Tidy
  <2> QED BY <2>1 DEF Tidy, Line
<1>2. PICK p, s, out : p = l.pid /\ s = acc.sessions[p] /\ out = acc.out
  OBVIOUS
<1>3. /\ acc \in Reading /\ out \in Seq(Message) /\ acc.sessions \in [Pids -> SessionState]
      /\ Len(out) \in Nat /\ DOMAIN out = 1 .. Len(out) /\ s \in SessionState /\ p \in Pids
      /\ \A x \in 1 .. Len(out) : out[x] \in Message
  <2>1. acc \in Reading /\ out \in Seq(Message)
    BY <1>2 DEF ReadingTrue, Reading
  <2>2. \A x \in 1 .. Len(out) : out[x] \in Message
    BY <2>1, ItemOf
  <2> QED BY <1>1, <1>2, <2>1, <2>2 DEF Reading
<1>4. PICK new : new = ReadLine(acc, l)
  OBVIOUS
<1>5. PICK twice, t : /\ twice = (s.tls # "unknown")
                      /\ t = [s EXCEPT !.tls = IF twice THEN "conflict" ELSE "before"]
  OBVIOUS
<1>6. PICK out2 : out2 = [x \in 1 .. Len(out) |->
        IF x \in s.messages THEN [out[x] EXCEPT !.tls = IF twice THEN "conflict" ELSE "after"] ELSE out[x]]
  OBVIOUS
<1>7. CASE ~Mine(acc, l)
  <2>1. new = acc
    BY <1>4, <1>7 DEF ReadLine, ReadTls
  <2>2. ASSUME NEW q \in Pids PROVE SessionTrue(acc.sessions[q], q, ls, n + 1, acc.out)
    <3>1. PICK old : old = acc.sessions[q] /\ SessionTrue(old, q, ls, n, out)
      BY <1>2 DEF ReadingTrue
    <3>2. Len(out) \in Nat /\ Len(out) <= Len(out) /\ ls[n + 1].kind \notin {"connect", "disconnect"}
      BY <1>3
    <3> QED BY <1>2, <3>1, <3>2, SessionKept
  <2>3. \A x \in 1 .. Len(acc.out) : MessageTrue(acc.out[x], ls, n + 1)
    BY MessageKept DEF ReadingTrue
  <2>4. \A j \in 1 .. n + 1 : ls[j].kind = "queue" => MessageOf(acc.out, ls[j])
    <3>1. \A j \in 1 .. n + 1 : j = n + 1 \/ j \in 1 .. n
      OBVIOUS
    <3> QED BY <3>1 DEF ReadingTrue
  <2> QED BY <1>3, <1>4, <2>1, <2>2, <2>3, <2>4 DEF ReadingTrue
<1>8. CASE Mine(acc, l)
  <2>1. new = [sessions |-> [acc.sessions EXCEPT ![p] = t], out |-> out2]
    <3>1. ReadTls(acc, l) = [sessions |-> [acc.sessions EXCEPT ![p] = [s EXCEPT !.tls =
                                           IF twice THEN "conflict" ELSE "before"]],
            out |-> [x \in DOMAIN out |->
        IF x \in s.messages THEN [out[x] EXCEPT !.tls = IF twice THEN "conflict" ELSE "after"] ELSE out[x]]]
      BY <1>2, <1>3, <1>5, <1>8 DEF ReadTls
    <3> QED BY <1>3, <1>4, <1>5, <1>6, <3>1 DEF ReadLine
  <2>2. /\ t \in SessionState /\ t.client = s.client /\ t.epoch = s.epoch /\ t.messages = s.messages
        /\ t.tls \in {"before", "conflict"}
    BY <1>3, <1>5 DEF SessionState
  <2>3. ASSUME NEW x \in 1 .. Len(out)
        PROVE  /\ out2[x] \in Message
               /\ \/ out2[x] = out[x]
                  \/ /\ x \in s.messages
                     /\ \E w \in {"after", "conflict"} : out2[x] = [out[x] EXCEPT !.tls = w]
    <3>1. out[x] \in Message
      BY <1>3
    <3>2. out2[x] = IF x \in s.messages THEN [out[x] EXCEPT !.tls = IF twice THEN "conflict" ELSE "after"] ELSE out[x]
      BY <1>6
    <3>3. PICK w : w = IF twice THEN "conflict" ELSE "after"
      OBVIOUS
    <3>4. w \in {"after", "conflict"} /\ out2[x] = IF x \in s.messages THEN [out[x] EXCEPT !.tls = w] ELSE out[x]
      BY <3>2, <3>3
    <3> QED BY <3>1, <3>4 DEF Message
  <2>4. out2 \in Seq(Message) /\ Len(out2) = Len(out)
    <3>1. out2 \in [1 .. Len(out) -> Message]
      BY <1>6, <2>3
    <3> QED BY <1>3, <3>1
  <2>5. \A x \in 1 .. Len(out) : /\ out2[x].ghost = out[x].ghost /\ out2[x].queue = out[x].queue
                                 /\ out2[x].pid = out[x].pid /\ out2[x].at = out[x].at
                                 /\ out2[x].epoch = out[x].epoch
    <3> SUFFICES ASSUME NEW x \in 1 .. Len(out)
                 PROVE  /\ out2[x].ghost = out[x].ghost /\ out2[x].queue = out[x].queue
                        /\ out2[x].pid = out[x].pid /\ out2[x].at = out[x].at
                        /\ out2[x].epoch = out[x].epoch
      OBVIOUS
    <3>1. PICK m, m2 : m = out[x] /\ m2 = out2[x]
      OBVIOUS
    <3>2. m \in Message /\ (m2 = m \/ \E w \in {"after", "conflict"} : m2 = [m EXCEPT !.tls = w])
      BY <1>3, <2>3, <3>1
    <3>3. m2.ghost = m.ghost /\ m2.queue = m.queue /\ m2.pid = m.pid /\ m2.at = m.at /\ m2.epoch = m.epoch
      BY <3>2 DEF Message
    <3> QED BY <3>1, <3>3
  <2>6. /\ new \in Reading /\ new.out = out2 /\ new.sessions = [acc.sessions EXCEPT ![p] = t]
    BY <1>3, <2>1, <2>2, <2>4 DEF Reading
  <2>7. PICK i \in 1 .. n : Since(i, s, p, ls, n, out) /\ ls[i].ghost.conn = l.ghost.conn
    BY <1>2, <1>8, OwnSession
  <2>8. i \in 1 .. n + 1 /\ n + 1 \in 1 .. n + 1
    OBVIOUS
  <2>9. ASSUME NEW q \in Pids PROVE SessionTrue(new.sessions[q], q, ls, n + 1, new.out)
    <3>1. CASE q # p
      <4>1. PICK old : old = acc.sessions[q] /\ SessionTrue(old, q, ls, n, out)
        BY <1>2 DEF ReadingTrue
      <4>2. Len(out) \in Nat /\ Len(out2) \in Nat /\ Len(out) <= Len(out2) /\ ls[n + 1].pid # q
        BY <1>2, <1>3, <2>4, <3>1
      <4>3. SessionTrue(old, q, ls, n + 1, out2)
        BY <2>5, <4>1, <4>2, SessionKept
      <4> QED BY <1>3, <2>6, <3>1, <4>1, <4>3
    <3>2. CASE q = p
      <4>1. new.sessions[q] = t
        BY <1>3, <2>6, <3>2
      <4>2. \A j \in i + 1 .. n + 1 : ls[j].pid = p => ls[j].kind \notin {"connect", "disconnect"}
        <5>1. \A j \in i + 1 .. n + 1 : j = n + 1 \/ j \in i + 1 .. n
          OBVIOUS
        <5> QED BY <2>7, <5>1 DEF Since
      <4>3. \E j \in 1 .. n + 1 : ls[j].kind = "tls" /\ ls[j].ghost.conn = ls[i].ghost.conn
        BY <2>7, <2>8
      <4>4. \A x \in t.messages : x \in 1 .. Len(out2) /\ out2[x].ghost.conn = ls[i].ghost.conn
        BY <2>2, <2>4, <2>5, <2>7 DEF Since
      <4>5. SessionTrue(t, p, ls, n + 1, out2)
        BY <2>2, <2>7, <2>8, <4>2, <4>3, <4>4 DEF SessionTrue, Since
      <4> QED BY <2>6, <3>2, <4>1, <4>5
    <3> QED BY <3>1, <3>2
  <2>10. ASSUME NEW x \in 1 .. Len(out2) PROVE MessageTrue(out2[x], ls, n + 1)
    <3>1. x \in 1 .. Len(out) /\ MessageTrue(out[x], ls, n) /\ MessageTrue(out[x], ls, n + 1)
      BY <1>2, <2>4, MessageKept DEF ReadingTrue
    <3>2. CASE out2[x] = out[x]
      BY <3>1, <3>2
    <3>3. CASE out2[x] # out[x]
      <4>1. PICK m, m2 : m = out[x] /\ m2 = out2[x] /\ m \in Message
        BY <1>3, <3>1
      <4>2. x \in s.messages /\ m2.tls \in {"after", "conflict"}
        BY <2>3, <3>1, <3>3, <4>1 DEF Message
      <4>3. m2.ghost = m.ghost /\ m2.queue = m.queue /\ m2.pid = m.pid /\ m2.at = m.at /\ m2.epoch = m.epoch
        BY <2>5, <3>1, <4>1
      <4>4. m.ghost.conn = l.ghost.conn
        BY <2>7, <4>1, <4>2 DEF Since
      <4>5. PICK j \in 1 .. n :
              /\ ls[j].kind = "queue" /\ m.queue = ls[j].arg /\ m.pid = ls[j].pid /\ m.at = ls[j].at
              /\ m.ghost = ls[j].ghost
              /\ m.epoch # Never => \E k \in 1 .. n : /\ ls[k].kind = "connect" /\ ls[k].at = m.epoch
                                                      /\ ls[k].ghost.conn = m.ghost.conn
        BY <3>1, <4>1 DEF MessageTrue
      <4>6. j \in 1 .. n + 1 /\ 1 .. n \subseteq 1 .. n + 1 /\ n + 1 \in j + 1 .. n + 1
        OBVIOUS
      <4>7. MessageTrue(m2, ls, n + 1)
        BY <4>2, <4>3, <4>4, <4>5, <4>6 DEF MessageTrue
      <4> QED BY <4>1, <4>7
    <3> QED BY <3>2, <3>3
  <2>11. ASSUME NEW j \in 1 .. n + 1, ls[j].kind = "queue" PROVE MessageOf(out2, ls[j])
    <3>1. j \in 1 .. n
      BY <2>11
    <3>2. MessageOf(out, ls[j])
      BY <1>2, <2>11, <3>1 DEF ReadingTrue
    <3> QED BY <2>4, <2>5, <3>2 DEF MessageOf
  <2> QED BY <1>4, <2>6, <2>9, <2>10, <2>11 DEF ReadingTrue
<1> QED BY <1>4, <1>7, <1>8

\* A message is queued in the session of its smtpd, if there is one.
LEMMA ReadQueueTrue ==
  ASSUME NEW ls, Tidy(ls), NEW n \in Nat, n + 1 \in 1 .. Len(ls),
         NEW acc, ReadingTrue(acc, ls, n), NEW l, l = ls[n + 1], l.kind = "queue"
  PROVE  ReadingTrue(ReadLine(acc, l), ls, n + 1)
<1>1. /\ l \in Line /\ l.pid \in Pids /\ l.client = Client /\ l.arg \in Args /\ l.at \in Nat
      /\ l.ghost \in Ghost
  <2>1. l \in Line
    BY ItemOf DEF Tidy
  <2> QED BY <2>1 DEF Tidy, Line, Ghost
<1>2. PICK p, s, out, k : p = l.pid /\ s = acc.sessions[p] /\ out = acc.out /\ k = Len(out) + 1
  OBVIOUS
<1>3. /\ acc \in Reading /\ out \in Seq(Message) /\ acc.sessions \in [Pids -> SessionState]
      /\ Len(out) \in Nat /\ DOMAIN out = 1 .. Len(out) /\ s \in SessionState /\ p \in Pids
      /\ k \in Nat
  <2>1. acc \in Reading /\ out \in Seq(Message)
    BY <1>2 DEF ReadingTrue, Reading
  <2> QED BY <1>1, <1>2, <2>1 DEF Reading
<1>4. PICK new, mine : new = ReadLine(acc, l) /\ mine = Mine(acc, l)
  OBVIOUS
<1>5. PICK m, t, out2 :
        /\ m = [queue |-> l.arg, client |-> l.client, pid |-> l.pid, at |-> l.at,
                epoch |-> IF mine THEN s.epoch ELSE Never,
                tls |-> IF mine THEN s.tls ELSE "unknown", ghost |-> l.ghost]
        /\ t = IF mine THEN [s EXCEPT !.messages = s.messages \cup {k}] ELSE s
        /\ out2 = Append(out, m)
  OBVIOUS
<1>6. /\ new.out = out2 /\ new.sessions = [acc.sessions EXCEPT ![p] = t]
      /\ new = [sessions |-> new.sessions, out |-> out2]
  <2>1. new = ReadQueue(acc, l)
    BY <1>4 DEF ReadLine
  <2>2. new = [sessions |-> IF mine
                            THEN [acc.sessions EXCEPT ![p] = [s EXCEPT !.messages = s.messages \cup {k}]]
                            ELSE acc.sessions,
               out |-> Append(out, m)]
    BY <1>2, <1>3, <1>4, <1>5, <2>1 DEF ReadQueue
  <2>3. mine => new.sessions = [acc.sessions EXCEPT ![p] = t]
    BY <1>5, <2>2
  <2>4. ~mine => new.sessions = [acc.sessions EXCEPT ![p] = t]
    BY <1>2, <1>3, <1>5, <2>2
  <2> QED BY <1>5, <2>2, <2>3, <2>4
<1>7. /\ m \in Message /\ m.queue = l.arg /\ m.pid = l.pid /\ m.at = l.at /\ m.ghost = l.ghost
      /\ t \in SessionState
  BY <1>1, <1>3, <1>5 DEF Message, SessionState
<1>8. /\ out2 \in Seq(Message) /\ Len(out2) = k /\ out2[k] = m
      /\ \A x \in 1 .. Len(out) : out2[x] = out[x]
  BY SMTT(20), <1>2, <1>3, <1>5, <1>7
<1>9. new \in Reading
  BY <1>3, <1>6, <1>7, <1>8 DEF Reading
<1>10. mine => \E i \in 1 .. n : Since(i, s, p, ls, n, out) /\ ls[i].ghost.conn = l.ghost.conn
  <2> SUFFICES ASSUME mine PROVE \E i \in 1 .. n : Since(i, s, p, ls, n, out) /\ ls[i].ghost.conn = l.ghost.conn
    OBVIOUS
  <2>1. Mine(acc, l)
    BY <1>4
  <2> QED BY <1>2, <2>1, OwnSession
<1>11. Len(out) \in Nat /\ Len(out2) \in Nat /\ Len(out) <= Len(out2)
       /\ \A x \in 1 .. Len(out) : out2[x].ghost = out[x].ghost
  <2>1. Len(out2) = Len(out) + 1
    BY <1>2, <1>8
  <2> QED BY <1>3, <1>8, <2>1
<1>12. ls[n + 1].kind \notin {"connect", "disconnect"}
  OBVIOUS
<1>13. ASSUME NEW q \in Pids PROVE SessionTrue(new.sessions[q], q, ls, n + 1, out2)
  <2>1. PICK old : old = acc.sessions[q] /\ SessionTrue(old, q, ls, n, out)
    BY <1>2 DEF ReadingTrue
  <2>2. SessionTrue(old, q, ls, n + 1, out2)
    BY <1>11, <1>12, <2>1, SessionKept
  <2>3. CASE q # p \/ ~mine
    <3>1. new.sessions[q] = old
      BY <1>2, <1>3, <1>5, <1>6, <2>1, <2>3
    <3> QED BY <2>2, <3>1
  <2>4. CASE q = p /\ mine
    <3>1. new.sessions[q] = t /\ t = [s EXCEPT !.messages = s.messages \cup {k}]
      BY <1>3, <1>5, <1>6, <2>4
    <3>2. t.client = s.client /\ t.epoch = s.epoch /\ t.tls = s.tls /\ t.messages = s.messages \cup {k}
      BY <1>3, <3>1 DEF SessionState
    <3>3. PICK i \in 1 .. n : Since(i, s, p, ls, n, out) /\ ls[i].ghost.conn = l.ghost.conn
      BY <1>10, <2>4
    <3>4. i \in 1 .. n + 1 /\ 1 .. n \subseteq 1 .. n + 1
      OBVIOUS
    <3>5. \A j \in i + 1 .. n + 1 : ls[j].pid = p => ls[j].kind \notin {"connect", "disconnect"}
      <4>1. \A j \in i + 1 .. n + 1 : j = n + 1 \/ j \in i + 1 .. n
        OBVIOUS
      <4> QED BY <1>12, <3>3, <4>1 DEF Since
    <3>6. ASSUME NEW x \in t.messages PROVE x \in 1 .. Len(out2) /\ out2[x].ghost.conn = ls[i].ghost.conn
      <4>1. CASE x = k
        BY <1>2, <1>3, <1>7, <1>8, <3>3, <4>1
      <4>2. CASE x \in s.messages
        <5>1. x \in 1 .. Len(out) /\ out[x].ghost.conn = ls[i].ghost.conn
          BY <3>3, <4>2 DEF Since
        <5> QED BY <1>2, <1>3, <1>8, <5>1
      <4> QED BY <3>2, <4>1, <4>2
    <3>7. SessionTrue(t, p, ls, n + 1, out2)
      BY <3>2, <3>3, <3>4, <3>5, <3>6 DEF SessionTrue, Since
    <3> QED BY <2>4, <3>1, <3>7
  <2> QED BY <2>3, <2>4
<1>14. MessageTrue(m, ls, n + 1)
  <2>1. n + 1 \in 1 .. n + 1 /\ (n + 1) - 1 = n /\ 1 .. n \subseteq 1 .. n + 1 /\ ls[n + 1] = l
    OBVIOUS
  <2>2. m.epoch # Never => \E i \in 1 .. n + 1 : /\ ls[i].kind = "connect" /\ ls[i].at = m.epoch
                                                 /\ ls[i].ghost.conn = m.ghost.conn
    <3>1. m.epoch = IF mine THEN s.epoch ELSE Never
      BY <1>5
    <3> QED BY <1>7, <1>10, <2>1, <3>1 DEF Since
  <2>3. m.tls = "before" => \E i \in 1 .. (n + 1) - 1 : ls[i].kind = "tls" /\ ls[i].ghost.conn = m.ghost.conn
    <3>1. m.tls = IF mine THEN s.tls ELSE "unknown"
      BY <1>5
    <3> QED BY <1>7, <1>10, <2>1, <3>1 DEF Since
  <2>4. m.tls # "after"
    BY <1>3, <1>5 DEF SessionState
  <2> QED BY <1>7, <2>1, <2>2, <2>3, <2>4 DEF MessageTrue
<1>15. ASSUME NEW x \in 1 .. Len(out2) PROVE MessageTrue(out2[x], ls, n + 1)
  <2>1. CASE x = k
    BY <1>8, <1>14, <2>1
  <2>2. CASE x # k
    <3>1. x \in 1 .. Len(out) /\ out2[x] = out[x]
      BY <1>2, <1>3, <1>8, <2>2
    <3>2. MessageTrue(out[x], ls, n)
      BY <1>2, <3>1 DEF ReadingTrue
    <3> QED BY <3>1, <3>2, MessageKept
  <2> QED BY <2>1, <2>2
<1>16. ASSUME NEW j \in 1 .. n + 1, ls[j].kind = "queue" PROVE MessageOf(out2, ls[j])
  <2>1. CASE j = n + 1
    <3>1. k \in 1 .. Len(out2) /\ ls[j] = l
      BY <1>2, <1>3, <1>8, <2>1
    <3> QED BY <1>7, <1>8, <3>1 DEF MessageOf
  <2>2. CASE j \in 1 .. n
    <3>1. MessageOf(out, ls[j])
      BY <1>2, <1>16, <2>2 DEF ReadingTrue
    <3>2. PICK x \in 1 .. Len(out) : /\ out[x].queue = ls[j].arg /\ out[x].pid = ls[j].pid
                                     /\ out[x].at = ls[j].at /\ out[x].ghost = ls[j].ghost
      BY <3>1 DEF MessageOf
    <3>3. x \in 1 .. Len(out2) /\ out2[x] = out[x]
      BY <1>2, <1>3, <1>8
    <3> QED BY <3>2, <3>3 DEF MessageOf
  <2> QED BY <2>1, <2>2
<1> QED BY <1>4, <1>6, <1>9, <1>13, <1>15, <1>16 DEF ReadingTrue

\* What is read of a log.
LEMMA MessagesRead ==
  ASSUME NEW ls, Tidy(ls)
  PROVE  /\ Len(ls) \in Nat
         /\ \A n \in 0 .. Len(ls) : ReadingTrue(LinesRead(ls)[n], ls, n)
         /\ ReadMessages(ls) = LinesRead(ls)[Len(ls)].out
<1> DEFINE F == LinesRead(ls)
           S == {n \in Nat : n <= Len(ls) => ReadingTrue(F[n], ls, n)}
<1>1. ls \in Seq(Line) /\ Len(ls) \in Nat
  BY DEF Tidy
<1>2. /\ ReadMessages(ls) = F[Len(ls)].out /\ F[0] = NothingRead
      /\ \A n \in 1 .. Len(ls) : F[n] = ReadLine(F[n - 1], ls[n])
  BY <1>1, LinesReadStep
<1> HIDE DEF F
<1>3. 0 \in S
  BY <1>2, NothingReadTrue
<1>4. ASSUME NEW n \in Nat, n \in S PROVE n + 1 \in S
  <2> SUFFICES ASSUME n + 1 <= Len(ls) PROVE ReadingTrue(F[n + 1], ls, n + 1)
    OBVIOUS
  <2>1. PICK acc, l : acc = F[n] /\ l = ls[n + 1]
    OBVIOUS
  <2>2. n + 1 \in 1 .. Len(ls) /\ ReadingTrue(acc, ls, n)
    BY <1>1, <1>4, <2>1
  <2>3. F[n + 1] = ReadLine(acc, l)
    BY <1>2, <2>1, <2>2
  <2>4. ReadingTrue(ReadLine(acc, l), ls, n + 1)
    <3>1. CASE l.kind \in {"connect", "disconnect"}
      BY <2>1, <2>2, <3>1, ReadSessionTrue
    <3>2. CASE l.kind = "tls"
      BY <2>1, <2>2, <3>2, ReadTlsTrue
    <3>3. CASE l.kind = "queue"
      BY <2>1, <2>2, <3>3, ReadQueueTrue
    <3>4. CASE l.kind \notin {"connect", "disconnect", "tls", "queue"}
      BY <2>1, <2>2, <3>4, ReadNothingTrue
    <3> QED BY <3>1, <3>2, <3>3, <3>4
  <2> QED BY <2>3, <2>4
<1>5. Nat \subseteq S
  <2> HIDE DEF S
  <2> QED BY <1>3, <1>4, Induction
<1>6. ASSUME NEW n \in 0 .. Len(ls) PROVE ReadingTrue(F[n], ls, n)
  <2>1. n \in S /\ n <= Len(ls)
    BY <1>1, <1>5
  <2> QED BY <2>1
<1> QED BY <1>1, <1>2, <1>6 DEF F

-----------------------------------------------------------------------------
(* What a batch says, somebody wrote.                                       *)

\* What the batch is read as.
conns    == ReadConnections(batch.events)
messages == ReadMessages(batch.log)

\* No two events of a batch contradict each other.
LEMMA BatchAgrees ==
  ASSUME TrafficInv
  PROVE  batch.events \in Seq(Event) /\ Agreeing(batch.events)
<1>1. PICK es : es = batch.events
  OBVIOUS
<1>2. EventsOf(es) /\ EventsTrue /\ es \in Seq(Event)
  BY <1>1 DEF TrafficInv, WorldInv, BatchTrue, EventsOf
<1>3. \A i \in DOMAIN es : es[i] \in Event /\ es[i].conn \in Conns /\ es[i] \in ToSet(es)
  <2>1. \A i \in 1 .. Len(es) : es[i] \in Event /\ i \in DOMAIN es
    BY <1>2, ItemOf
  <2>2. DOMAIN es = 1 .. Len(es)
    BY <1>2
  <2>3. \A e \in Event : e.conn \in Conns
    BY DEF Event
  <2> QED BY <2>1, <2>2, <2>3 DEF ToSet
<1>4. ASSUME NEW i \in DOMAIN es, NEW j \in DOMAIN es, es[i].conn = es[j].conn, es[i].type = es[j].type
      PROVE  es[i] = es[j]
  <2>1. PICK c, e, f : c = es[i].conn /\ e = es[i] /\ f = es[j]
    OBVIOUS
  <2>2. c \in Conns /\ e \in ToSet(events[c]) /\ f \in ToSet(events[c])
    BY <1>2, <1>3, <1>4, <2>1 DEF EventsOf
  <2>3. PICK a \in DOMAIN events[c], b \in DOMAIN events[c] : events[c][a] = e /\ events[c][b] = f
    BY <2>2 DEF ToSet
  <2>4. a = b
    BY <1>2, <1>4, <2>1, <2>2, <2>3 DEF EventsTrue
  <2> QED BY <2>1, <2>3, <2>4
<1> QED BY <1>1, <1>2, <1>4 DEF Agreeing

\* What k says of c, tlsgate wrote of c.
Written(k, c) ==
  \A type \in Types : Slotted(k, type) # NoStamp =>
    \E e \in ToSet(events[c]) : e.type = type /\ Slotted(k, type) = StampOf(e)

\* What a batch says of a connection, tlsgate wrote of it.
LEMMA ConnectionOf ==
  ASSUME TrafficInv, NEW c \in Conns, NEW k, k = conns[c]
  PROVE  /\ k \in Connection /\ k.invalid = FALSE
         /\ ~Batched(c) => k = Unseen
         /\ Batched(c) => k.client = Client /\ k.start # NoStamp /\ k.end # NoStamp
         /\ Written(k, c)
<1>1. PICK es, n : es = batch.events /\ n = Len(es)
  OBVIOUS
<1>2. es \in Seq(Event) /\ EventsOf(es) /\ SaidBy(k, c, es, n) /\ n \in Nat
  BY <1>1, BatchAgrees, ConnectionsRead DEF TrafficInv, BatchTrue, conns
<1>3. DOMAIN es = 1 .. n /\ \A i \in 1 .. n : es[i] \in ToSet(es) /\ es[i] \in Event
  BY <1>1, <1>2 DEF ToSet
<1>4. Batched(c) <=> \E i \in 1 .. n : es[i].conn = c
  BY <1>1, <1>3 DEF Batched, ToSet
<1>5. ASSUME Batched(c) PROVE k.client = Client /\ k.start # NoStamp /\ k.end # NoStamp
  <2>1. PICK i \in 1 .. n : es[i].conn = c
    BY <1>4, <1>5
  <2>2. PICK s \in ToSet(events[c]), f \in ToSet(events[c]) : s.type = "start" /\ f.type = "end"
    BY <1>2, <1>3, <2>1 DEF EventsOf
  <2>3. s \in ToSet(es) /\ f \in ToSet(es)
    BY <1>2, <1>3, <2>1 DEF EventsOf
  <2>4. PICK a \in 1 .. n, b \in 1 .. n : es[a] = s /\ es[b] = f
    BY <1>3, <2>3 DEF ToSet
  <2>5. s.conn = c /\ f.conn = c
    BY <2>2 DEF TrafficInv, WorldInv, EventsTrue, ToSet
  <2>6. Slotted(k, "start") = StampOf(s) /\ Slotted(k, "end") = StampOf(f)
    BY <1>2, <2>2, <2>4, <2>5 DEF SaidBy, Types
  <2>7. StampOf(s) # NoStamp /\ StampOf(f) # NoStamp
    BY <1>3, <2>4, StampTyped
  <2> QED BY <1>2, <2>1, <2>6, <2>7 DEF SaidBy, Slotted
<1>6. ASSUME NEW type \in Types, Slotted(k, type) # NoStamp
      PROVE  \E e \in ToSet(events[c]) : e.type = type /\ Slotted(k, type) = StampOf(e)
  <2>1. PICK i \in 1 .. n : es[i].conn = c /\ es[i].type = type
    BY <1>2, <1>6 DEF SaidBy
  <2>2. es[i] \in ToSet(events[c]) /\ Slotted(k, type) = StampOf(es[i])
    BY <1>2, <1>3, <2>1 DEF EventsOf, SaidBy
  <2> QED BY <2>1, <2>2
<1> QED BY <1>2, <1>4, <1>5, <1>6 DEF SaidBy, Written

\* What a batch says of a message, smtpd wrote of it.
LEMMA MessageFrom ==
  ASSUME TrafficInv, NEW x \in 1 .. Len(messages), NEW m, m = messages[x]
  PROVE  /\ m \in Message
         /\ \E j \in DOMAIN log :
              /\ log[j].kind = "queue" /\ m.queue = log[j].arg /\ m.pid = log[j].pid
              /\ m.at = log[j].at /\ m.ghost = log[j].ghost
         /\ m.epoch # Never => \E i \in DOMAIN log :
              log[i].kind = "connect" /\ log[i].at = m.epoch /\ log[i].ghost.conn = m.ghost.conn
         /\ m.tls = "before" => m.ghost.secure
         /\ m.tls = "after" => ~m.ghost.secure
<1>1. PICK ls : ls = batch.log /\ LinesOf(ls) /\ Tidy(ls)
  BY LinesTidy DEF TrafficInv, BatchTrue
<1>2. PICK acc, n : /\ n = Len(ls) /\ n \in Nat /\ ReadingTrue(acc, ls, n) /\ messages = acc.out
  BY <1>1, MessagesRead DEF messages
<1>3. m \in Message /\ MessageTrue(m, ls, n)
  <2>1. acc.out \in Seq(Message)
    BY <1>2 DEF ReadingTrue, Reading
  <2>2. m \in Message
    BY <1>2, <2>1, ItemOf
  <2> QED BY <1>2, <2>2 DEF ReadingTrue
<1>4. log \in Seq(Line) /\ LogTrue /\ Len(log) \in Nat /\ DOMAIN log = 1 .. Len(log)
  BY DEF TrafficInv, WorldInv, TypeOK
<1>5. \A i \in 1 .. n : /\ ls[i].ghost.n + 1 \in DOMAIN log /\ log[ls[i].ghost.n + 1] = ls[i]
                        /\ ls[i].ghost.n \in Nat
  <2>1. \A i \in 1 .. n : ls[i] \in Line
    BY <1>1, <1>2, ItemOf DEF LinesOf
  <2> QED BY <1>1, <1>2, <1>4, <2>1 DEF LinesOf, Line
<1>6. PICK j \in 1 .. n :
    /\ ls[j].kind = "queue" /\ m.queue = ls[j].arg /\ m.pid = ls[j].pid /\ m.at = ls[j].at
    /\ m.ghost = ls[j].ghost
    /\ m.epoch # Never => \E i \in 1 .. n : /\ ls[i].kind = "connect" /\ ls[i].at = m.epoch
                                            /\ ls[i].ghost.conn = m.ghost.conn
    /\ m.tls = "before" => \E i \in 1 .. j - 1 : ls[i].kind = "tls" /\ ls[i].ghost.conn = m.ghost.conn
    /\ m.tls = "after" => \E i \in j + 1 .. n : ls[i].kind = "tls" /\ ls[i].ghost.conn = m.ghost.conn
  BY <1>3 DEF MessageTrue
<1>7. \E a \in DOMAIN log :
        /\ log[a].kind = "queue" /\ m.queue = log[a].arg /\ m.pid = log[a].pid
        /\ m.at = log[a].at /\ m.ghost = log[a].ghost
  BY <1>5, <1>6
<1>8. m.epoch # Never => \E i \in DOMAIN log :
        log[i].kind = "connect" /\ log[i].at = m.epoch /\ log[i].ghost.conn = m.ghost.conn
  BY <1>5, <1>6
<1>9. ASSUME NEW a \in 1 .. n, NEW b \in 1 .. n, a < b
      PROVE  PairTrue(ls[a].ghost.n + 1, ls[b].ghost.n + 1)
  <2>1. PICK i, k : i = ls[a].ghost.n /\ k = ls[b].ghost.n
    OBVIOUS
  <2>2. i \in Nat /\ k \in Nat /\ i < k
    BY <1>1, <1>2, <1>5, <1>9, <2>1 DEF LinesOf
  <2>3. k + 1 \in DOMAIN log /\ i + 1 \in 1 .. (k + 1) - 1
    <3>1. k + 1 \in DOMAIN log
      BY <1>5, <2>1
    <3>2. i + 1 \in 1 .. (k + 1) - 1
      BY <2>2
    <3> QED BY <3>1, <3>2
  <2> QED BY <1>4, <2>1, <2>3 DEF LogTrue
<1>10. ASSUME m.tls = "before" PROVE m.ghost.secure
  <2>1. PICK i \in 1 .. j - 1 : ls[i].kind = "tls" /\ ls[i].ghost.conn = m.ghost.conn
    BY <1>6, <1>10
  <2>2. PICK a, b : a = ls[i].ghost.n + 1 /\ b = ls[j].ghost.n + 1
    OBVIOUS
  <2>3. i \in 1 .. n /\ i < j
    BY <1>2, <2>1
  <2>4. PairTrue(a, b) /\ LineTrue(a) /\ log[a] = ls[i] /\ log[b] = ls[j]
    BY <1>4, <1>5, <1>9, <2>2, <2>3 DEF LogTrue
  <2> QED BY <1>6, <2>1, <2>4 DEF PairTrue, LineTrue
<1>11. ASSUME m.tls = "after" PROVE ~m.ghost.secure
  <2>1. PICK i \in j + 1 .. n : ls[i].kind = "tls" /\ ls[i].ghost.conn = m.ghost.conn
    BY <1>6, <1>11
  <2>2. PICK a, b : a = ls[j].ghost.n + 1 /\ b = ls[i].ghost.n + 1
    OBVIOUS
  <2>3. i \in 1 .. n /\ j < i
    BY <1>2, <2>1
  <2>4. PairTrue(a, b) /\ log[a] = ls[j] /\ log[b] = ls[i]
    BY <1>5, <1>9, <2>2, <2>3
  <2> QED BY <1>6, <2>1, <2>4 DEF PairTrue
<1> QED BY <1>3, <1>7, <1>8, <1>10, <1>11

-----------------------------------------------------------------------------
(* A message is credited to its own connection.                             *)

\* What becomes of a message.
LEMMA CreditOf ==
  ASSUME TrafficInv, NEW r \in report.credits
  PROVE  \E x \in 1 .. Len(messages) : r = Result(conns, messages, batch.verdicts, messages[x])
<1>1. DOMAIN messages = 1 .. Len(messages)
  <2>1. PICK acc, n : ReadingTrue(acc, batch.log, n) /\ messages = acc.out
    <3>1. Tidy(batch.log)
      BY LinesTidy DEF TrafficInv, BatchTrue
    <3> QED BY <3>1, MessagesRead DEF messages
  <2> QED BY <2>1 DEF ReadingTrue, Reading
<1>2. r \in Correlate(batch.events, batch.log, batch.verdicts)
  BY DEF TrafficInv, BatchTrue
<1>3. PICK x \in DOMAIN messages : r = Result(conns, messages, batch.verdicts, messages[x])
  BY <1>2 DEF Correlate, conns, messages
<1> QED BY <1>1, <1>3

\* Only a message with one matching connection, whose queue id is not reused, is credited.
LEMMA ResultCases ==
  ASSUME NEW vs, NEW m, NEW r, r = Result(conns, messages, vs, m)
  PROVE  /\ r.ghost = m.ghost
         /\ r.conn # NoConn \/ r.verdicts # {} \/ r.transport # "unknown" =>
              /\ Cardinality(Matching(conns, m)) = 1 /\ ~Reused(messages, m)
              /\ r.conn = (CHOOSE c \in Matching(conns, m) : TRUE)
              /\ r.transport = Transport(conns[r.conn], m)
              /\ r.verdicts \subseteq Eligible(vs, m)
<1>1. CASE r \in {Unmatched(m, "reused_queue_id"), Unmatched(m, "no_connection"),
                  Unmatched(m, "ambiguous_connection")}
  BY <1>1 DEF Unmatched, NoConn
<1>2. CASE r \notin {Unmatched(m, "reused_queue_id"), Unmatched(m, "no_connection"),
                     Unmatched(m, "ambiguous_connection")}
  <2>1. ~Reused(messages, m) /\ Matching(conns, m) # {} /\ r = Credit(conns, vs, m)
    BY <1>2 DEF Result
  <2>2. PICK c, t, own, found :
          /\ c = (CHOOSE x \in Matching(conns, m) : TRUE) /\ t = Transport(conns[c], m)
          /\ own = Eligible(vs, m)
          /\ found = [Unmatched(m, "no_verdict") EXCEPT !.conn = c, !.transport = t]
    OBVIOUS
  <2>3. Cardinality(Matching(conns, m)) = 1
    <3>1. Cardinality(Matching(conns, m)) # 1 => Credit(conns, vs, m) = Unmatched(m, "ambiguous_connection")
      BY DEF Credit
    <3> QED BY <1>2, <2>1, <3>1
  <2>4. r \in {[found EXCEPT !.reason = "not_encrypted"], found,
               [found EXCEPT !.reason = "matched", !.verdicts = own]}
    BY <2>1, <2>2, <2>3 DEF Credit
  <2>5. r.ghost = m.ghost /\ r.conn = c /\ r.transport = t /\ r.verdicts \subseteq own
    BY <2>2, <2>4 DEF Unmatched
  <2> QED BY <2>1, <2>2, <2>3, <2>5
<1> QED BY <1>1, <1>2

\* One matching connection is the one chosen.
LEMMA OneOfOne ==
  ASSUME NEW m, Cardinality(Matching(conns, m)) = 1
  PROVE  \E c \in Conns : Matching(conns, m) = {c}
<1>1. Matching(conns, m) \subseteq Conns
  BY DEF Matching
<1>2. IsFiniteSet(Matching(conns, m))
  BY <1>1, TrafficAssumption, FS_Subset
<1>3. \E c : Matching(conns, m) = {c}
  BY <1>2, FS_Singleton
<1> QED BY <1>1, <1>3

\* The connection that carried the message matches it, so no other does alone.
LEMMA CreditedInv == TrafficInv => CreditedToItsOwn
<1> SUFFICES ASSUME TrafficInv, NEW r \in report.credits, r.conn # NoConn, r.conn # r.ghost.conn,
                    Batched(r.ghost.conn)
             PROVE  FALSE
  BY DEF CreditedToItsOwn
<1>1. PICK x \in 1 .. Len(messages) : r = Result(conns, messages, batch.verdicts, messages[x])
  BY CreditOf
<1>2. PICK m, b : m = messages[x] /\ b = m.ghost.conn
  OBVIOUS
<1>3. /\ m \in Message
      /\ \E j \in DOMAIN log : /\ log[j].kind = "queue" /\ m.at = log[j].at /\ m.ghost = log[j].ghost
      /\ m.epoch # Never => \E i \in DOMAIN log :
              log[i].kind = "connect" /\ log[i].at = m.epoch /\ log[i].ghost.conn = m.ghost.conn
  BY <1>1, <1>2, MessageFrom
<1>4. /\ r.ghost = m.ghost /\ Cardinality(Matching(conns, m)) = 1
      /\ r.conn = (CHOOSE c \in Matching(conns, m) : TRUE)
  BY <1>1, <1>2, ResultCases
<1>5. PICK c \in Conns : Matching(conns, m) = {c}
  BY <1>4, OneOfOne
<1>6. b \in Conns /\ c # b
  BY <1>2, <1>3, <1>4, <1>5 DEF Message, Ghost
<1>7. m.epoch # Never /\ m.at >= m.epoch /\ m.client = Client
  <2>1. c \in Matching(conns, m)
    BY <1>5
  <2> QED BY <1>3, <2>1 DEF Matching, Message
<1>8. PICK k, s, e : /\ k = conns[b] /\ s = k.start /\ e = k.end
                     /\ k.client = Client /\ k.invalid = FALSE /\ s # NoStamp /\ e # NoStamp
  <2>1. PICK k : k = conns[b]
    OBVIOUS
  <2>2. Batched(b)
    BY <1>2, <1>4
  <2>3. k.client = Client /\ k.invalid = FALSE /\ k.start # NoStamp /\ k.end # NoStamp
    BY <1>6, <2>1, <2>2, ConnectionOf
  <2> QED BY <2>1, <2>3
<1>9. PICK f \in ToSet(events[b]), g \in ToSet(events[b]) :
        f.type = "start" /\ s = StampOf(f) /\ g.type = "end" /\ e = StampOf(g)
  <2>1. Slotted(k, "start") = s /\ Slotted(k, "end") = e /\ "start" \in Types /\ "end" \in Types
    BY <1>8 DEF Slotted, Types
  <2>2. Written(k, b)
    BY <1>6, <1>8, ConnectionOf
  <2> QED BY <1>8, <2>1, <2>2 DEF Written
<1>10. s.at = f.at /\ e.at = g.at /\ f.at \in Nat /\ g.at \in Nat
  <2>1. events[b] \in Seq(Event)
    BY <1>6 DEF TrafficInv, WorldInv, TypeOK
  <2>2. f \in Event /\ g \in Event
    BY <1>9, <2>1 DEF ToSet
  <2> QED BY <1>9, <2>2 DEF StampOf, Event
<1>11. PICK i \in DOMAIN log, j \in DOMAIN log :
         /\ log[i].kind = "connect" /\ log[i].at = m.epoch /\ log[i].ghost.conn = b
         /\ log[j].kind = "queue" /\ log[j].at = m.at /\ log[j].ghost.conn = b
  BY <1>2, <1>3, <1>7
<1>12. f.at <= m.epoch + Grain - 1 /\ m.epoch <= g.at /\ m.at <= g.at
  BY <1>6, <1>9, <1>11 DEF TrafficInv, WorldInv, Timely, ToSet
<1>13. m.epoch \in Nat /\ m.at \in Nat /\ Tolerance \in Nat /\ Grain \in Nat /\ Grain - 1 <= Tolerance
  BY <1>3, <1>7, CorrelateAssumption, TrafficAssumption, ToleranceAssumption DEF Message
<1>14. /\ m.epoch >= s.at - Tolerance /\ m.epoch <= e.at + Tolerance /\ m.at <= e.at + Tolerance
  BY <1>10, <1>12, <1>13
<1>15. b \in Matching(conns, m)
  BY <1>6, <1>7, <1>8, <1>14 DEF Matching
<1> QED BY <1>5, <1>6, <1>15

\* A message is credited to the connection that carried it, if that one's session is
\* in the batch (matchSMTPConn).
THEOREM OwnConnection == Spec => []CreditedToItsOwn
BY TrafficInvariance, CreditedInv, PTL

-----------------------------------------------------------------------------
(* The verdict and the transport.                                           *)

\* Two messages with one queue id differ in time or smtpd: neither is credited if both are read.
LEMMA VerdictInv == TrafficInv => VerdictIsOwn
<1> SUFFICES ASSUME TrafficInv, NEW r \in report.credits, NEW v \in r.verdicts,
                    v.ghost.n # r.ghost.n, NEW l \in ToSet(batch.log), l.ghost.n = v.ghost.n
             PROVE  FALSE
  BY DEF VerdictIsOwn
<1>1. PICK x \in 1 .. Len(messages) : r = Result(conns, messages, batch.verdicts, messages[x])
  BY CreditOf
<1>2. PICK m : m = messages[x]
  OBVIOUS
<1>3. /\ m \in Message
      /\ \E j \in DOMAIN log : /\ log[j].kind = "queue" /\ m.queue = log[j].arg /\ m.pid = log[j].pid
                               /\ m.at = log[j].at /\ m.ghost = log[j].ghost
  BY <1>1, <1>2, MessageFrom
<1>4. PICK j \in DOMAIN log : /\ log[j].kind = "queue" /\ m.queue = log[j].arg /\ m.pid = log[j].pid
                              /\ m.at = log[j].at /\ m.ghost = log[j].ghost
  BY <1>3
<1>5. r.ghost = m.ghost /\ v \in Eligible(batch.verdicts, m) /\ ~Reused(messages, m)
  BY <1>1, <1>2, ResultCases
<1>6. v \in verdicts /\ v.queue = m.queue
  BY <1>5 DEF Eligible, TrafficInv, BatchTrue
<1>7. PICK k \in DOMAIN log : log[k].kind = "queue" /\ log[k].arg = v.queue /\ log[k].ghost.n = v.ghost.n
  BY <1>6 DEF TrafficInv, WorldInv, VerdictsTrue
<1>8. PICK ls, n : ls = batch.log /\ LinesOf(ls) /\ Tidy(ls) /\ n = Len(ls) /\ n \in Nat
  <2>1. Tidy(batch.log)
    BY LinesTidy DEF TrafficInv, BatchTrue
  <2> QED BY <2>1, MessagesRead DEF TrafficInv, BatchTrue
<1>9. log \in Seq(Line) /\ LogTrue /\ DOMAIN log = 1 .. Len(log) /\ Len(log) \in Nat
  BY DEF TrafficInv, WorldInv, TypeOK
<1>10. log[k].ghost.n = k - 1 /\ log[j].ghost.n = j - 1 /\ k \in Nat /\ j \in Nat
  BY <1>9 DEF LogTrue, LineTrue
<1>11. PICK i \in 1 .. n : ls[i] = l
  BY <1>8 DEF ToSet, LinesOf
<1>12. l = log[k]
  <2>1. l.ghost.n = k - 1 /\ log[l.ghost.n + 1] = l
    BY <1>7, <1>8, <1>10, <1>11 DEF LinesOf
  <2>2. (k - 1) + 1 = k
    BY <1>10
  <2> QED BY <2>1, <2>2
<1>13. PICK acc : ReadingTrue(acc, ls, n) /\ messages = acc.out
  <2>1. n \in 0 .. n
    BY <1>8
  <2> QED BY <1>8, <2>1, MessagesRead DEF messages
<1>14. MessageOf(messages, l)
  BY <1>7, <1>11, <1>12, <1>13 DEF ReadingTrue
<1>15. PICK y \in 1 .. Len(messages) : /\ messages[y].queue = l.arg /\ messages[y].pid = l.pid
                                       /\ messages[y].at = l.at /\ messages[y].ghost = l.ghost
  BY <1>14 DEF MessageOf
<1>16. PICK o : o = messages[y] /\ o \in ToSet(messages)
  <2>1. DOMAIN messages = 1 .. Len(messages)
    BY <1>13 DEF ReadingTrue, Reading
  <2> QED BY <2>1 DEF ToSet
<1>17. o.queue = m.queue
  BY <1>6, <1>7, <1>12, <1>15, <1>16
<1>18. Identity(o) = Identity(m)
  BY <1>5, <1>16, <1>17 DEF Reused
<1>19. o.pid = m.pid /\ o.at = m.at
  BY <1>18 DEF Identity
<1>20. j # k
  BY <1>4, <1>5, <1>7
<1>21. /\ log[j].arg = log[k].arg /\ log[j].pid = log[k].pid /\ log[j].at = log[k].at
  BY <1>4, <1>12, <1>15, <1>16, <1>17, <1>19
<1>22. CASE j < k
  <2>1. PairTrue(j, k)
    BY <1>9, <1>10, <1>22 DEF LogTrue
  <2> QED BY <1>4, <1>7, <1>21, <2>1 DEF PairTrue
<1>23. CASE k < j
  <2>1. PairTrue(k, j)
    BY <1>9, <1>10, <1>23 DEF LogTrue
  <2> QED BY <1>4, <1>7, <1>21, <2>1 DEF PairTrue
<1> QED BY <1>10, <1>20, <1>22, <1>23

\* The verdict of one message is never given to another whose queue id it has, when the
\* log shows both (boundedVerdict, reused queue ids).
THEOREM OwnVerdict == Spec => []VerdictIsOwn
BY TrafficInvariance, VerdictInv, PTL

\* What messageSMTPTransport concludes from the order of lines, or from times beyond the
\* tolerance, is so.
LEMMA TransportInv == TrafficInv => TransportIsTrue
<1> SUFFICES ASSUME TrafficInv, NEW r \in report.credits, r.conn = r.ghost.conn
             PROVE  /\ r.transport = "starttls"  => r.ghost.secure
                    /\ r.transport = "plaintext" => ~r.ghost.secure
  BY DEF TransportIsTrue
<1>1. PICK x \in 1 .. Len(messages) : r = Result(conns, messages, batch.verdicts, messages[x])
  BY CreditOf
<1>2. PICK m, b : m = messages[x] /\ b = m.ghost.conn
  OBVIOUS
<1>3. /\ m \in Message
      /\ \E j \in DOMAIN log : log[j].kind = "queue" /\ m.at = log[j].at /\ m.ghost = log[j].ghost
      /\ m.tls = "before" => m.ghost.secure
      /\ m.tls = "after" => ~m.ghost.secure
  BY <1>1, <1>2, MessageFrom
<1>4. PICK j \in DOMAIN log : log[j].kind = "queue" /\ m.at = log[j].at /\ m.ghost = log[j].ghost
  BY <1>3
<1>5. b \in Conns /\ m.at \in Nat /\ m.ghost.secure \in BOOLEAN
  BY <1>2, <1>3 DEF Message, Ghost
<1>6. PICK k : k = conns[b]
  OBVIOUS
<1>7. k \in Connection /\ Written(k, b)
  BY <1>5, <1>6, ConnectionOf
<1>8. SUFFICES ASSUME r.transport \in {"starttls", "plaintext"}
               PROVE  /\ r.transport = "starttls"  => m.ghost.secure
                      /\ r.transport = "plaintext" => ~m.ghost.secure
  BY <1>1, <1>2, ResultCases
<1>9. r.transport = Transport(k, m)
  BY <1>1, <1>2, <1>6, <1>8, ResultCases
<1>10. events[b] \in Seq(Event) /\ \A e \in ToSet(events[b]) : e.at \in Nat /\ StampOf(e).at = e.at
                                                              /\ StampOf(e).state = e.state
  <2>1. events[b] \in Seq(Event)
    BY <1>5 DEF TrafficInv, WorldInv, TypeOK
  <2>2. \A e \in ToSet(events[b]) : e \in Event
    BY <2>1 DEF ToSet
  <2> QED BY <2>1, <2>2, StampTyped DEF Event
<1>11. /\ Complete(k) /\ m.tls # "conflict"
  BY <1>8, <1>9 DEF Transport
<1>12. \A e \in ToSet(events[b]) :
         /\ e.type = "accepted" /\ m.ghost.secure => e.at <= m.at + Grain - 1
         /\ e.type = "fingerprint" /\ ~m.ghost.secure => m.at <= e.at
         /\ e.type = "end" /\ m.ghost.secure => e.state \in {"observer_incomplete", "fingerprinted"}
  <2>1. log[j].ghost.conn = b /\ log[j].at = m.at /\ log[j].ghost.secure = m.ghost.secure
    BY <1>2, <1>4
  <2>2. m.ghost.secure => b \in upgraded
    BY <2>1 DEF TrafficInv, WorldInv, LogTrue, LineTrue
  <2> SUFFICES ASSUME NEW i \in DOMAIN events[b], NEW f, f = events[b][i]
               PROVE  /\ f.type = "accepted" /\ m.ghost.secure => f.at <= m.at + Grain - 1
                      /\ f.type = "fingerprint" /\ ~m.ghost.secure => m.at <= f.at
                      /\ f.type = "end" /\ m.ghost.secure => f.state \in {"observer_incomplete", "fingerprinted"}
    BY DEF ToSet
  <2>3. f.type = "end" /\ b \in upgraded => f.state \in {"observer_incomplete", "fingerprinted"}
    BY <1>5 DEF TrafficInv, WorldInv, EventsTrue
  <2>4. /\ f.type = "accepted" /\ log[j].ghost.secure => f.at <= log[j].at + Grain - 1
        /\ f.type = "fingerprint" /\ ~log[j].ghost.secure => log[j].at <= f.at
    BY <1>5, <2>1 DEF TrafficInv, WorldInv, Timely
  <2> QED BY <2>1, <2>2, <2>3, <2>4
<1>13. PICK s, a, t, e : s = k.start /\ a = k.accepted /\ t = k.tls /\ e = k.end
  OBVIOUS
<1>14. /\ s # NoStamp => \E f \in ToSet(events[b]) : f.type = "start" /\ s = StampOf(f)
       /\ a # NoStamp => \E f \in ToSet(events[b]) : f.type = "accepted" /\ a = StampOf(f)
       /\ t # NoStamp => \E f \in ToSet(events[b]) : f.type = "fingerprint" /\ t = StampOf(f)
       /\ e # NoStamp => \E f \in ToSet(events[b]) : f.type = "end" /\ e = StampOf(f)
  <2>1. /\ Slotted(k, "start") = s /\ Slotted(k, "accepted") = a /\ Slotted(k, "fingerprint") = t
        /\ Slotted(k, "end") = e /\ {"start", "accepted", "fingerprint", "end"} \subseteq Types
    BY <1>13 DEF Slotted, Types
  <2> QED BY <1>7, <2>1 DEF Written
<1>15. Tolerance \in Nat /\ 0 < Tolerance /\ Grain \in Nat /\ Grain - 1 <= Tolerance
  BY CorrelateAssumption, TrafficAssumption, ToleranceAssumption
<1>16. s.at \in Nat
  BY <1>10, <1>11, <1>13, <1>14 DEF Complete
<1>17. ASSUME m.tls \notin {"before", "after"}, r.transport = "starttls", ~m.ghost.secure PROVE FALSE
  <2>1. e.state = "fingerprinted" /\ m.at >= t.at + Tolerance
    BY <1>8, <1>9, <1>11, <1>13, <1>17 DEF Transport
  <2>2. t.at >= a.at /\ a.at >= s.at /\ t.at \in Nat \cup {Never}
    BY <1>7, <1>11, <1>13, <2>1 DEF Complete, Connection, Stamps
  <2>3. t # NoStamp
    <3>1. a.at \in Nat \cup {Never}
      BY <1>7, <1>13 DEF Connection, Stamps
    <3> QED BY <1>16, <2>2, <3>1 DEF NoStamp, Never
  <2>4. PICK f \in ToSet(events[b]) : f.type = "fingerprint" /\ t = StampOf(f)
    BY <1>14, <2>3
  <2>5. m.at <= t.at /\ t.at \in Nat
    BY <1>10, <1>12, <1>17, <2>4
  <2> QED BY <1>5, <1>15, <2>1, <2>5
<1>18. ASSUME m.tls \notin {"before", "after"}, r.transport = "plaintext", m.ghost.secure PROVE FALSE
  <2>1. CASE e.state \in {"no_observed_upgrade", "starttls_refused"}
    <3>1. e # NoStamp
      BY <2>1 DEF NoStamp
    <3> QED BY <1>10, <1>12, <1>14, <1>18, <2>1, <3>1
  <2>2. CASE a # NoStamp /\ m.at < a.at - Tolerance
    <3>1. PICK f \in ToSet(events[b]) : f.type = "accepted" /\ a = StampOf(f)
      BY <1>14, <2>2
    <3>2. a.at <= m.at + Grain - 1 /\ a.at \in Nat
      BY <1>10, <1>12, <1>18, <3>1
    <3> QED BY <1>5, <1>15, <2>2, <3>2
  <2> QED BY <1>8, <1>9, <1>11, <1>13, <1>18, <2>1, <2>2 DEF Transport
<1>19. CASE m.tls = "before"
  BY <1>3, <1>9, <1>11, <1>19 DEF Transport
<1>20. CASE m.tls = "after"
  BY <1>3, <1>9, <1>11, <1>20 DEF Transport
<1> QED BY <1>5, <1>8, <1>17, <1>18, <1>19, <1>20

\* A message credited to its own connection was sent over TLS if it is reported so, and
\* in the clear if it is reported so, though timestamps are rounded (messageSMTPTransport).
THEOREM TrueTransport == Spec => []TransportIsTrue
BY TrafficInvariance, TransportInv, PTL

-----------------------------------------------------------------------------
(* What is read of a log: the evidence of a campaign.                       *)

\* Between the evidence of two connections the later one is opened.
Chained(ls) ==
  \A i, k \in 1 .. Len(ls) : i < k /\ ls[i].kind \in Evidence /\ ls[k].kind \in Evidence =>
    \/ ls[i].ghost.conn = ls[k].ghost.conn
    \/ \E m \in i + 1 .. k : ls[m].kind = Opener /\ ls[m].ghost.conn = ls[k].ghost.conn

\* The evidence in a batch comes client after client, and never before its opener.
LEMMA LinesChained ==
  ASSUME WorldInv, NEW ls, LinesOf(ls)
  PROVE  Chained(ls)
<1>1. ls \in Seq(Line) /\ Len(ls) \in Nat
      /\ \A i \in 1 .. Len(ls) : ls[i] \in Line /\ ls[i].ghost.n \in Nat
  <2>1. ls \in Seq(Line)
    BY DEF LinesOf
  <2>2. \A i \in 1 .. Len(ls) : ls[i] \in Line
    BY <2>1, ItemOf
  <2> QED BY <2>1, <2>2 DEF Line
<1>2. log \in Seq(Line) /\ LogTrue /\ Len(log) \in Nat /\ DOMAIN log = 1 .. Len(log)
  BY DEF WorldInv, TypeOK
<1> SUFFICES ASSUME NEW i \in 1 .. Len(ls), NEW k \in 1 .. Len(ls), i < k,
                    ls[i].kind \in Evidence, ls[k].kind \in Evidence,
                    ls[i].ghost.conn # ls[k].ghost.conn
             PROVE  \E m \in i + 1 .. k : ls[m].kind = Opener /\ ls[m].ghost.conn = ls[k].ghost.conn
  BY DEF Chained
<1>3. PICK x, y : x = ls[i].ghost.n /\ y = ls[k].ghost.n
  OBVIOUS
<1>4. x \in Nat /\ y \in Nat /\ x < y
  BY <1>1, <1>3 DEF LinesOf
<1>5. /\ x + 1 \in 1 .. Len(log) /\ y + 1 \in 1 .. Len(log)
      /\ log[x + 1] = ls[i] /\ log[y + 1] = ls[k]
  BY <1>3 DEF LinesOf
<1>6. LineTrue(y + 1) /\ PairTrue(x + 1, y + 1)
  <2>1. x + 1 \in 1 .. (y + 1) - 1
    BY <1>4
  <2> QED BY <1>2, <1>5, <2>1 DEF LogTrue
<1>7. PICK j \in 1 .. y + 1 : log[j].kind = Opener /\ log[j].ghost.conn = ls[k].ghost.conn
  BY <1>5, <1>6 DEF LineTrue
<1>8. j \in DOMAIN log /\ LineTrue(j)
  BY <1>2, <1>4, <1>5, <1>7 DEF LogTrue
<1>9. x + 1 < j
  <2> SUFFICES ASSUME j <= x + 1 PROVE FALSE
    BY <1>4, <1>7
  <2>1. PICK b, c : b = ls[i].ghost.conn /\ c = ls[k].ghost.conn
    OBVIOUS
  <2>2. b \in Nat /\ c \in Nat /\ b # c
    BY <1>1, <2>1, TrafficAssumption, CorrelateAssumption DEF Line
  <2>3. b <= c
    BY <1>5, <1>6, <2>1 DEF PairTrue
  <2>4. j # x + 1
    BY <1>5, <1>7, <2>1, <2>2
  <2>5. j \in 1 .. (x + 1) - 1
    BY <1>4, <1>7, <2>4
  <2>6. PairTrue(j, x + 1)
    BY <1>2, <1>5, <2>5 DEF LogTrue
  <2>7. Opener \in Evidence
    BY DEF Opener, Evidence
  <2>8. c <= b
    BY <1>5, <1>7, <2>1, <2>6, <2>7 DEF PairTrue
  <2> QED BY <2>2, <2>3, <2>8
<1>10. PICK m \in 1 .. Len(ls) : ls[m] = log[j]
  <2>1. j \in 1 .. Len(log) /\ ls[i].ghost.n + 1 <= j /\ j <= ls[k].ghost.n + 1
    BY <1>2, <1>3, <1>4, <1>7, <1>8, <1>9
  <2> QED BY <2>1 DEF LinesOf
<1>11. PICK z : z = ls[m].ghost.n /\ z = j - 1 /\ z \in Nat
  BY <1>1, <1>8, <1>10 DEF LineTrue
<1>12. x < z /\ z <= y
  BY <1>4, <1>7, <1>9, <1>11
<1>13. \A a, b \in 1 .. Len(ls) : a < b => ls[a].ghost.n < ls[b].ghost.n
  BY DEF LinesOf
<1>14. i < m
  <2>1. m = i \/ m < i \/ i < m
    BY <1>1
  <2>2. m < i => z < x
    BY <1>3, <1>11, <1>13
  <2>3. m # i
    <3>1. m = i => z = x
      BY <1>3, <1>11
    <3> QED BY <1>4, <1>11, <1>12, <3>1
  <2> QED BY <1>4, <1>11, <1>12, <2>1, <2>2, <2>3
<1>15. m <= k
  <2>1. k < m \/ m <= k
    BY <1>1
  <2>2. k < m => y < z
    BY <1>3, <1>11, <1>13
  <2> QED BY <1>4, <1>11, <1>12, <2>1, <2>2
<1> QED BY <1>7, <1>10, <1>14, <1>15

\* Items of evidence.
Times == Nat \cup {Never}
Item == [client : {NoClient, Client}, start : Times, pregreetAt : Times, rejectAt : Times,
         lastAt : Times, verb : Args, rejected : Args \cup {"no"}, screened : BOOLEAN,
         passed : BOOLEAN, of : SUBSET Conns]

\* A line of evidence about c has this time.
SeenAt(t, c) == \E k \in DOMAIN log : log[k].kind \in Evidence /\ log[k].ghost.conn = c /\ log[k].at = t

\* The item is made of lines about c alone.
ItemTrue(item, c) ==
  /\ item \in Item /\ c \in Conns /\ item.client = Client /\ item.of = {c}
  /\ \A t \in {item.start, item.pregreetAt, item.rejectAt, item.lastAt} : t # Never => SeenAt(t, c)
  /\ item.verb # "none" => Did(c, "pregreet", item.verb)
  /\ item.rejected # "no" => Did(c, "reject", item.rejected)
  /\ item.screened => Opener = "screen"

\* What n lines were read as, for a campaign.
EvidenceTrue(acc, ls, n) ==
  /\ acc \in [open : Item, done : Seq(Item), malformed : Nat]
  /\ acc.open # NoItem => \E i \in 1 .. n :
       /\ ls[i].kind \in Evidence /\ ItemTrue(acc.open, ls[i].ghost.conn)
       /\ \A j \in i + 1 .. n : ls[j].kind \in Evidence => ls[j].ghost.conn = ls[i].ghost.conn
  /\ \A x \in 1 .. Len(acc.done) : \E c \in Conns : ItemTrue(acc.done[x], c)

\* What one line of evidence says.
LEMMA EvidenceLine ==
  ASSUME WorldInv, NEW ls, LinesOf(ls), NEW n \in 1 .. Len(ls), NEW l, l = ls[n], l.kind \in Evidence
  PROVE  /\ l.client = Client /\ l.ghost.conn \in Conns /\ l.at \in Nat /\ l.arg \in Args
         /\ SeenAt(l.at, l.ghost.conn)
         /\ l.kind \in {"pregreet", "reject"} => Did(l.ghost.conn, l.kind, l.arg)
         /\ l.kind = "screen" => Opener = "screen"
<1>1. ls \in Seq(Line) /\ l \in Line
  <2>1. ls \in Seq(Line)
    BY DEF LinesOf
  <2> QED BY <2>1, ItemOf
<1>2. l.client = Client /\ l.ghost.conn \in Conns /\ l.at \in Nat /\ l.arg \in Args
  BY <1>1 DEF Line
<1>3. PICK k \in DOMAIN log : log[k] = l /\ LineTrue(k)
  <2>1. log \in Seq(Line)
    BY DEF WorldInv, TypeOK
  <2>2. PICK k \in 1 .. Len(log) : log[k] = l
    BY DEF LinesOf
  <2> QED BY <2>1, <2>2 DEF WorldInv, LogTrue
<1>4. ASSUME l.kind = "screen" PROVE Opener = "screen"
  <2>1. PICK c \in Conns : c = l.ghost.conn
    BY <1>2
  <2>2. Took(c, "screen")
    BY <1>3, <1>4, <2>1 DEF LineTrue
  <2>3. ~Unscreened(script[c])
    <3>1. PICK i \in 1 .. step[c] : script[c][i].do = "screen"
      BY <2>2 DEF Took
    <3>2. i \in DOMAIN script[c]
      BY <3>1, ScriptIsSession DEF WorldInv, TypeOK
    <3> QED BY <3>1, <3>2 DEF Unscreened
  <2>4. \A b \in Conns : Screened(script[b])
    BY <2>3, ScriptsAssumption DEF WorldInv, TypeOK
  <2> QED BY <2>4 DEF Opener
<1> QED BY <1>2, <1>3, <1>4 DEF SeenAt, LineTrue

\* What is known of a line of evidence.
Tells(l, c) ==
  /\ l.client = Client /\ c \in Conns /\ l.ghost.conn = c /\ l.at \in Nat /\ l.arg \in Args
  /\ SeenAt(l.at, c)
  /\ l.kind \in {"pregreet", "reject"} => Did(c, l.kind, l.arg)
  /\ l.kind = "screen" => Opener = "screen"

\* A line alone is true evidence.
LEMMA FreshItem ==
  ASSUME NEW l, NEW c, Tells(l, c)
  PROVE  /\ ItemTrue(Fresh(l), c) /\ Fresh(l) # NoItem
         /\ \A p \in BOOLEAN :
              ItemTrue([Fresh(l) EXCEPT !.screened = l.kind = "screen", !.passed = p], c)
<1>1. PICK t : t = l.at /\ t \in Nat /\ SeenAt(t, c)
  BY DEF Tells
<1>2. Fresh(l) = [client |-> Client, start |-> t, pregreetAt |-> Never, rejectAt |-> Never,
                  lastAt |-> t, verb |-> "none", rejected |-> "no",
                  screened |-> FALSE, passed |-> FALSE, of |-> {c}]
  <2>1. Fresh(l) = [NoItem EXCEPT !.client = Client, !.start = t, !.lastAt = t, !.of = {c}]
    BY <1>1 DEF Fresh, Tells
  <2> QED BY <2>1 DEF NoItem
<1>3. PICK item : item = Fresh(l) /\ item \in Item /\ item.client = Client
  <2>1. c \in Conns /\ "none" \in Args
    BY DEF Tells, Args
  <2>2. Fresh(l) \in Item /\ Fresh(l).client = Client
    BY <1>1, <1>2, <2>1 DEF Item, Times
  <2> QED BY <2>2
<1>4. ItemTrue(item, c)
  BY <1>1, <1>2, <1>3 DEF ItemTrue, Tells, Never
<1>5. ASSUME NEW p \in BOOLEAN, NEW s \in BOOLEAN, s => Opener = "screen"
      PROVE  ItemTrue([item EXCEPT !.screened = s, !.passed = p], c)
  <2>1. PICK new : new = [item EXCEPT !.screened = s, !.passed = p]
    OBVIOUS
  <2>2. /\ new \in Item /\ new.client = item.client /\ new.of = item.of
        /\ new.start = item.start /\ new.pregreetAt = item.pregreetAt
        /\ new.rejectAt = item.rejectAt /\ new.lastAt = item.lastAt
        /\ new.verb = item.verb /\ new.rejected = item.rejected /\ new.screened = s
    BY <1>3, <1>5, <2>1 DEF Item
  <2>3. ItemTrue(new, c)
    BY <1>4, <1>5, <2>2 DEF ItemTrue
  <2> QED BY <2>1, <2>3
<1>6. (l.kind = "screen") => Opener = "screen"
  BY DEF Tells
<1>7. Fresh(l) # NoItem
  BY <1>3, TrafficAssumption DEF NoItem
<1> QED BY <1>3, <1>4, <1>5, <1>6, <1>7

\* A line of the connection that an item is about extends it.
LEMMA ExtendedItem ==
  ASSUME NEW l, NEW c, Tells(l, c), NEW item, ItemTrue(item, c)
  PROVE  /\ ItemTrue([item EXCEPT !.passed = TRUE, !.lastAt = l.at, !.of = item.of \cup {c}], c)
         /\ l.kind = "pregreet" =>
              ItemTrue([item EXCEPT !.pregreetAt = l.at, !.lastAt = l.at, !.verb = l.arg,
                                    !.of = item.of \cup {c}], c)
         /\ l.kind = "reject" =>
              ItemTrue([item EXCEPT !.rejectAt = l.at, !.lastAt = l.at, !.rejected = l.arg,
                                    !.of = item.of \cup {c}], c)
<1>1. PICK t, a, of : /\ t = l.at /\ t \in Nat /\ SeenAt(t, c) /\ a = l.arg /\ a \in Args
                      /\ of = item.of \cup {c} /\ of = {c}
  BY DEF Tells, ItemTrue
<1>2. item \in Item /\ c \in Conns
  BY DEF ItemTrue
<1>3. ItemTrue([item EXCEPT !.passed = TRUE, !.lastAt = t, !.of = of], c)
  <2>1. PICK new : new = [item EXCEPT !.passed = TRUE, !.lastAt = t, !.of = of]
    OBVIOUS
  <2>2. /\ new \in Item /\ new.client = item.client /\ new.of = of
        /\ new.start = item.start /\ new.pregreetAt = item.pregreetAt
        /\ new.rejectAt = item.rejectAt /\ new.lastAt = t
        /\ new.verb = item.verb /\ new.rejected = item.rejected /\ new.screened = item.screened
    BY <1>1, <1>2, <2>1 DEF Item, Times
  <2>3. ItemTrue(new, c)
    BY <1>1, <2>2 DEF ItemTrue
  <2> QED BY <2>1, <2>3
<1>4. ASSUME l.kind = "pregreet"
      PROVE  ItemTrue([item EXCEPT !.pregreetAt = t, !.lastAt = t, !.verb = a, !.of = of], c)
  <2>1. PICK new : new = [item EXCEPT !.pregreetAt = t, !.lastAt = t, !.verb = a, !.of = of]
    OBVIOUS
  <2>2. /\ new \in Item /\ new.client = item.client /\ new.of = of
        /\ new.start = item.start /\ new.pregreetAt = t
        /\ new.rejectAt = item.rejectAt /\ new.lastAt = t
        /\ new.verb = a /\ new.rejected = item.rejected /\ new.screened = item.screened
    BY <1>1, <1>2, <2>1 DEF Item, Times
  <2>3. Did(c, "pregreet", a)
    BY <1>1, <1>4 DEF Tells
  <2>4. ItemTrue(new, c)
    BY <1>1, <2>2, <2>3 DEF ItemTrue
  <2> QED BY <2>1, <2>4
<1>5. ASSUME l.kind = "reject"
      PROVE  ItemTrue([item EXCEPT !.rejectAt = t, !.lastAt = t, !.rejected = a, !.of = of], c)
  <2>1. PICK new : new = [item EXCEPT !.rejectAt = t, !.lastAt = t, !.rejected = a, !.of = of]
    OBVIOUS
  <2>2. /\ new \in Item /\ new.client = item.client /\ new.of = of
        /\ new.start = item.start /\ new.pregreetAt = item.pregreetAt
        /\ new.rejectAt = t /\ new.lastAt = t
        /\ new.verb = item.verb /\ new.rejected = a /\ new.screened = item.screened
    BY <1>1, <1>2, <2>1 DEF Item, Times
  <2>3. Did(c, "reject", a)
    BY <1>1, <1>5 DEF Tells
  <2>4. ItemTrue(new, c)
    BY <1>1, <2>2, <2>3 DEF ItemTrue
  <2> QED BY <2>1, <2>4
<1> QED BY <1>1, <1>3, <1>4, <1>5

\* What is read of a log for a campaign.
Evidences == [open : Item, done : Seq(Item), malformed : Nat]

\* Closing an item keeps what is known of it.
LEMMA FlushTrue ==
  ASSUME NEW acc, NEW ls, NEW n \in Nat, EvidenceTrue(acc, ls, n),
         \A i \in 1 .. n : ls[i].ghost.conn \in Conns
  PROVE  EvidenceTrue(Flush(acc), ls, n) /\ Flush(acc).open = NoItem
<1>1. acc \in Evidences
  BY DEF EvidenceTrue, Evidences
<1>2. NoItem \in Item
  BY DEF NoItem, Item, Times, Args
<1>3. CASE acc.open = NoItem
  BY <1>3 DEF Flush
<1>4. CASE acc.open # NoItem
  <2>1. PICK new, done : new = Flush(acc) /\ done = Append(acc.done, acc.open)
    OBVIOUS
  <2>2. new = [acc EXCEPT !.done = done, !.open = NoItem]
    BY <1>4, <2>1 DEF Flush
  <2>3. acc.done \in Seq(Item) /\ acc.open \in Item
    BY <1>1 DEF Evidences
  <2>4. /\ done \in Seq(Item) /\ Len(acc.done) \in Nat /\ Len(done) = Len(acc.done) + 1
        /\ done[Len(acc.done) + 1] = acc.open /\ \A x \in 1 .. Len(acc.done) : done[x] = acc.done[x]
    BY <2>1, <2>3
  <2>5. new \in Evidences /\ new.open = NoItem /\ new.done = done
    BY <1>1, <1>2, <2>2, <2>4 DEF Evidences
  <2>6. PICK c \in Conns : ItemTrue(acc.open, c)
    BY <1>4 DEF EvidenceTrue
  <2>7. ASSUME NEW x \in 1 .. Len(done) PROVE \E b \in Conns : ItemTrue(done[x], b)
    <3>1. CASE x = Len(acc.done) + 1
      BY <2>4, <2>6, <3>1
    <3>2. CASE x \in 1 .. Len(acc.done)
      BY <2>4, <3>2 DEF EvidenceTrue
    <3> QED BY <2>4, <3>1, <3>2
  <2> QED BY <2>1, <2>5, <2>7 DEF EvidenceTrue, Evidences
<1> QED BY <1>3, <1>4

\* The item that a line of evidence leaves open is about its connection.
LEMMA OpenTrue ==
  ASSUME NEW acc, NEW ls, NEW n \in Nat, EvidenceTrue(acc, ls, n), NEW c, NEW item,
         ItemTrue(item, c), ls[n + 1].kind \in Evidence, ls[n + 1].ghost.conn = c
  PROVE  EvidenceTrue([acc EXCEPT !.open = item], ls, n + 1)
<1>1. acc \in Evidences /\ item \in Item
  BY DEF EvidenceTrue, Evidences, ItemTrue
<1>2. PICK new : new = [acc EXCEPT !.open = item]
  OBVIOUS
<1>3. new \in Evidences /\ new.open = item /\ new.done = acc.done
  BY <1>1, <1>2 DEF Evidences
<1>4. n + 1 \in 1 .. n + 1 /\ \A j \in (n + 1) + 1 .. n + 1 : FALSE
  OBVIOUS
<1>5. \E i \in 1 .. n + 1 :
       /\ ls[i].kind \in Evidence /\ ItemTrue(new.open, ls[i].ghost.conn)
       /\ \A j \in i + 1 .. n + 1 : ls[j].kind \in Evidence => ls[j].ghost.conn = ls[i].ghost.conn
  BY <1>3, <1>4
<1> QED BY <1>2, <1>3, <1>5 DEF EvidenceTrue, Evidences

\* A line that is no evidence, or about the connection of the open item, changes nothing
\* of what is known of it.
LEMMA PassedTrue ==
  ASSUME NEW acc, NEW ls, NEW n \in Nat, EvidenceTrue(acc, ls, n),
         \/ acc.open = NoItem \/ ls[n + 1].kind \notin Evidence
         \/ ItemTrue(acc.open, ls[n + 1].ghost.conn)
  PROVE  EvidenceTrue(acc, ls, n + 1)
<1>1. CASE acc.open = NoItem
  BY <1>1 DEF EvidenceTrue
<1>2. CASE acc.open # NoItem
  <2>1. PICK i \in 1 .. n :
          /\ ls[i].kind \in Evidence /\ ItemTrue(acc.open, ls[i].ghost.conn)
          /\ \A j \in i + 1 .. n : ls[j].kind \in Evidence => ls[j].ghost.conn = ls[i].ghost.conn
    BY <1>2 DEF EvidenceTrue
  <2>2. ls[n + 1].kind \in Evidence => ls[n + 1].ghost.conn = ls[i].ghost.conn
    BY <1>2, <2>1 DEF ItemTrue
  <2>3. i \in 1 .. n + 1 /\ \A j \in i + 1 .. n + 1 : j \in i + 1 .. n \/ j = n + 1
    OBVIOUS
  <2>4. \A j \in i + 1 .. n + 1 : ls[j].kind \in Evidence => ls[j].ghost.conn = ls[i].ghost.conn
    BY <2>1, <2>2, <2>3
  <2> QED BY <1>2, <2>1, <2>3, <2>4 DEF EvidenceTrue
<1> QED BY <1>1, <1>2

\* Unless it opens a session, a line of evidence is about the connection of the open item.
LEMMA OpenIsOwn ==
  ASSUME NEW acc, NEW ls, NEW n \in Nat, n + 1 \in 1 .. Len(ls), Chained(ls),
         EvidenceTrue(acc, ls, n), acc.open # NoItem,
         ls[n + 1].kind \in Evidence, ls[n + 1].kind # Opener
  PROVE  ItemTrue(acc.open, ls[n + 1].ghost.conn)
<1>1. PICK i \in 1 .. n :
        /\ ls[i].kind \in Evidence /\ ItemTrue(acc.open, ls[i].ghost.conn)
        /\ \A j \in i + 1 .. n : ls[j].kind \in Evidence => ls[j].ghost.conn = ls[i].ghost.conn
  BY DEF EvidenceTrue
<1>2. i \in 1 .. Len(ls) /\ i < n + 1
  OBVIOUS
<1>3. SUFFICES ASSUME ls[i].ghost.conn # ls[n + 1].ghost.conn PROVE FALSE
  BY <1>1
<1>4. PICK m \in i + 1 .. n + 1 : ls[m].kind = Opener /\ ls[m].ghost.conn = ls[n + 1].ghost.conn
  BY <1>1, <1>2, <1>3 DEF Chained
<1>5. m \in i + 1 .. n
  BY <1>4
<1>6. Opener \in Evidence
  BY DEF Opener, Evidence
<1> QED BY <1>1, <1>3, <1>4, <1>5, <1>6

\* Every line of evidence in a batch is true of its connection.
LEMMA LinesTell ==
  ASSUME WorldInv, NEW ls, LinesOf(ls), NEW n \in 1 .. Len(ls), ls[n].kind \in Evidence
  PROVE  Tells(ls[n], ls[n].ghost.conn)
BY EvidenceLine DEF Tells

\* A session begins, or smtpd takes over.
LEMMA ReadScreenTrue ==
  ASSUME WorldInv, NEW ls, LinesOf(ls), Chained(ls), NEW n \in Nat, n + 1 \in 1 .. Len(ls),
         \A i \in 1 .. n : ls[i].ghost.conn \in Conns,
         NEW acc, EvidenceTrue(acc, ls, n), NEW l, l = ls[n + 1], l.kind \in {"screen", "connect"}
  PROVE  EvidenceTrue(ReadScreen(acc, l), ls, n + 1)
<1>1. PICK c : c = l.ghost.conn /\ Tells(l, c) /\ l.kind \in Evidence
  BY LinesTell DEF Evidence
<1>2. CASE l.kind = "connect" /\ acc.open.screened /\ ~acc.open.passed /\ Follows(acc.open, l.at)
  <2>1. acc.open # NoItem
    BY <1>2 DEF NoItem
  <2>2. Opener = "screen"
    BY <1>2, <2>1 DEF EvidenceTrue, ItemTrue
  <2>3. PICK item : item = acc.open /\ ItemTrue(item, c)
    BY <1>1, <1>2, <2>1, <2>2, OpenIsOwn
  <2>4. PICK new : /\ new = [item EXCEPT !.passed = TRUE, !.lastAt = l.at, !.of = item.of \cup {c}]
                   /\ ItemTrue(new, c)
    BY <1>1, <2>3, ExtendedItem
  <2>5. EvidenceTrue([acc EXCEPT !.open = new], ls, n + 1)
    BY <1>1, <2>4, OpenTrue
  <2>6. acc \in Evidences
    BY DEF EvidenceTrue, Evidences
  <2>7. ReadScreen(acc, l) = [acc EXCEPT !.open.passed = TRUE, !.open.lastAt = l.at,
                                         !.open.of = @ \cup {l.ghost.conn}]
    BY <1>2 DEF ReadScreen
  <2>8. @ = [acc EXCEPT !.open = new]
    BY <1>1, <2>3, <2>4, <2>6 DEF Evidences, Item
  <2> QED BY <2>5, <2>7, <2>8
<1>3. CASE ~(l.kind = "connect" /\ acc.open.screened /\ ~acc.open.passed /\ Follows(acc.open, l.at))
  <2>1. PICK new : /\ new = [Fresh(l) EXCEPT !.screened = l.kind = "screen", !.passed = l.kind = "connect"]
                   /\ ItemTrue(new, c)
    BY <1>1, FreshItem
  <2>2. PICK kept : kept = Flush(acc) /\ EvidenceTrue(kept, ls, n)
    BY FlushTrue
  <2>3. EvidenceTrue([kept EXCEPT !.open = new], ls, n + 1)
    BY <1>1, <2>1, <2>2, OpenTrue
  <2>4. ReadScreen(acc, l) = [kept EXCEPT !.open = new]
    BY <1>3, <2>1, <2>2 DEF ReadScreen
  <2> QED BY <2>3, <2>4
<1> QED BY <1>2, <1>3

\* The client spoke too early.
LEMMA ReadPregreetTrue ==
  ASSUME WorldInv, NEW ls, LinesOf(ls), Chained(ls), NEW n \in Nat, n + 1 \in 1 .. Len(ls),
         \A i \in 1 .. n : ls[i].ghost.conn \in Conns,
         NEW acc, EvidenceTrue(acc, ls, n), NEW l, l = ls[n + 1], l.kind = "pregreet"
  PROVE  EvidenceTrue(ReadPregreet(acc, l), ls, n + 1)
<1>1. PICK c : c = l.ghost.conn /\ Tells(l, c) /\ l.kind \in Evidence
  BY LinesTell DEF Evidence
<1>2. PICK stale : stale = (acc.open # NoItem /\ (acc.open.verb # "none" \/ ~Follows(acc.open, l.at)))
  OBVIOUS
<1>3. PICK kept : kept = (IF stale THEN Flush(acc) ELSE acc)
  OBVIOUS
<1>4. EvidenceTrue(kept, ls, n) /\ (kept.open = NoItem \/ kept = acc)
  BY <1>3, FlushTrue
<1>5. PICK item : item = IF kept.open = NoItem THEN Fresh(l) ELSE kept.open
  OBVIOUS
<1>6. ItemTrue(item, c)
  <2>1. CASE kept.open = NoItem
    BY <1>1, <1>5, <2>1, FreshItem
  <2>2. CASE kept.open # NoItem
    <3>1. l.kind # Opener
      BY DEF Opener
    <3> QED BY <1>1, <1>4, <1>5, <2>2, <3>1, OpenIsOwn
  <2> QED BY <2>1, <2>2
<1>7. PICK new : /\ new = [item EXCEPT !.pregreetAt = l.at, !.lastAt = l.at, !.verb = l.arg,
                                       !.of = item.of \cup {c}]
                 /\ ItemTrue(new, c)
  BY <1>1, <1>6, ExtendedItem
<1>8. EvidenceTrue([kept EXCEPT !.open = new], ls, n + 1)
  BY <1>1, <1>4, <1>7, OpenTrue
<1>9. ReadPregreet(acc, l) = [kept EXCEPT !.open = new]
  <2>1. item \in Item
    BY <1>6 DEF ItemTrue
  <2>2. ReadPregreet(acc, l) = [kept EXCEPT !.open = [item EXCEPT !.pregreetAt = l.at, !.lastAt = l.at,
                                  !.verb = l.arg, !.of = @ \cup {l.ghost.conn}]]
    BY <1>2, <1>3, <1>5 DEF ReadPregreet
  <2>3. [item EXCEPT !.pregreetAt = l.at, !.lastAt = l.at, !.verb = l.arg, !.of = @ \cup {l.ghost.conn}] = new
    BY <1>1, <1>7, <2>1 DEF Item
  <2> QED BY <2>2, <2>3
<1> QED BY <1>8, <1>9

\* Its recipient was rejected: the item is complete.
LEMMA ReadRejectTrue ==
  ASSUME WorldInv, NEW ls, LinesOf(ls), Chained(ls), NEW n \in Nat, n + 1 \in 1 .. Len(ls),
         \A i \in 1 .. n + 1 : ls[i].ghost.conn \in Conns,
         NEW acc, EvidenceTrue(acc, ls, n), NEW l, l = ls[n + 1], l.kind = "reject"
  PROVE  EvidenceTrue(ReadReject(acc, l), ls, n + 1)
<1>1. PICK c : c = l.ghost.conn /\ Tells(l, c) /\ l.kind \in Evidence
  BY LinesTell DEF Evidence
<1>2. PICK stale : stale = (acc.open = NoItem \/ ~Follows(acc.open, l.at))
  OBVIOUS
<1>3. PICK kept : kept = (IF stale THEN Flush(acc) ELSE acc)
  OBVIOUS
<1>4. EvidenceTrue(kept, ls, n) /\ (kept.open = NoItem \/ (kept = acc /\ ~stale))
  BY <1>3, FlushTrue
<1>5. PICK item : item = IF stale THEN Fresh(l) ELSE kept.open
  OBVIOUS
<1>6. l.kind # Opener
  BY DEF Opener
<1>7. kept.open # NoItem => ItemTrue(kept.open, c)
  BY <1>1, <1>4, <1>6, OpenIsOwn
<1>8. ItemTrue(item, c)
  <2>1. CASE stale
    BY <1>1, <1>5, <2>1, FreshItem
  <2>2. CASE ~stale
    BY <1>2, <1>3, <1>5, <1>7, <2>2
  <2> QED BY <2>1, <2>2
<1>9. CASE l.arg = "bare"
  <2>1. ReadReject(acc, l) = [kept EXCEPT !.malformed = kept.malformed + 1]
    BY <1>2, <1>3, <1>9 DEF ReadReject
  <2>2. PICK new : new = [kept EXCEPT !.malformed = kept.malformed + 1]
    OBVIOUS
  <2>3. EvidenceTrue(kept, ls, n + 1)
    BY <1>1, <1>4, <1>7, PassedTrue
  <2>4. kept \in Evidences /\ kept.malformed \in Nat
    BY <1>4 DEF EvidenceTrue, Evidences
  <2>5. new \in Evidences /\ new.open = kept.open /\ new.done = kept.done
    <3>1. PICK k : k = kept.malformed + 1 /\ k \in Nat
      BY <2>4
    <3>2. new = [kept EXCEPT !.malformed = k]
      BY <2>2, <3>1
    <3> QED BY <2>4, <3>1, <3>2 DEF Evidences
  <2>6. EvidenceTrue(new, ls, n + 1)
    BY <2>3, <2>5 DEF EvidenceTrue, Evidences
  <2> QED BY <2>1, <2>2, <2>6
<1>10. CASE l.arg # "bare"
  <2>1. PICK new : /\ new = [item EXCEPT !.rejectAt = l.at, !.lastAt = l.at, !.rejected = l.arg,
                                         !.of = item.of \cup {c}]
                   /\ ItemTrue(new, c)
    BY <1>1, <1>8, ExtendedItem
  <2>2. EvidenceTrue([kept EXCEPT !.open = new], ls, n + 1)
    BY <1>1, <1>4, <2>1, OpenTrue
  <2>3. EvidenceTrue(Flush([kept EXCEPT !.open = new]), ls, n + 1)
    BY <2>2, FlushTrue
  <2>4. item \in Item
    BY <1>8 DEF ItemTrue
  <2>5. [item EXCEPT !.rejectAt = l.at, !.lastAt = l.at, !.rejected = l.arg, !.of = @ \cup {l.ghost.conn}] = new
    BY <1>1, <2>1, <2>4 DEF Item
  <2>6. ReadReject(acc, l) = Flush([kept EXCEPT !.open = [item EXCEPT !.rejectAt = l.at, !.lastAt = l.at,
                                     !.rejected = l.arg, !.of = @ \cup {l.ghost.conn}]])
    BY <1>2, <1>3, <1>5, <1>10 DEF ReadReject
  <2> QED BY <2>3, <2>5, <2>6
<1> QED BY <1>9, <1>10

\* What is read of the evidence in a log.
LEMMA EvidenceFound ==
  ASSUME WorldInv, NEW ls, LinesOf(ls)
  PROVE  EvidenceTrue(ReadEvidence(ls, Client), ls, Len(ls))
<1> DEFINE F == EvidenceRead(ls, Client)
           S == {n \in Nat : n <= Len(ls) => EvidenceTrue(F[n], ls, n)}
<1>1. ls \in Seq(Line) /\ Len(ls) \in Nat /\ \A n \in 1 .. Len(ls) : ls[n] \in Line
  <2>1. ls \in Seq(Line)
    BY DEF LinesOf
  <2> QED BY <2>1, ItemOf
<1>2. /\ ReadEvidence(ls, Client) = Flush(F[Len(ls)]) /\ F[0] = Nothing
      /\ \A n \in 1 .. Len(ls) :
           F[n] = IF ls[n].client = Client THEN ReadEvidenceLine(F[n - 1], ls[n]) ELSE F[n - 1]
  BY <1>1, EvidenceReadStep
<1>3. \A n \in 1 .. Len(ls) : ls[n].client = Client /\ ls[n].ghost.conn \in Conns
  BY <1>1 DEF Line
<1> HIDE DEF F
<1>4. 0 \in S
  <2>1. NoItem \in Item
    BY DEF NoItem, Item, Times, Args
  <2>2. EvidenceTrue(Nothing, ls, 0)
    BY <2>1 DEF EvidenceTrue, Nothing
  <2> QED BY <1>2, <2>2
<1>5. ASSUME NEW n \in Nat, n \in S PROVE n + 1 \in S
  <2> SUFFICES ASSUME n + 1 <= Len(ls) PROVE EvidenceTrue(F[n + 1], ls, n + 1)
    OBVIOUS
  <2>1. PICK acc, l : acc = F[n] /\ l = ls[n + 1]
    OBVIOUS
  <2>2. /\ n + 1 \in 1 .. Len(ls) /\ EvidenceTrue(acc, ls, n) /\ Chained(ls)
        /\ \A i \in 1 .. n : ls[i].ghost.conn \in Conns
        /\ \A i \in 1 .. n + 1 : ls[i].ghost.conn \in Conns
    BY <1>1, <1>3, <1>5, <2>1, LinesChained
  <2>3. F[n + 1] = ReadEvidenceLine(acc, l)
    BY <1>2, <1>3, <2>1, <2>2
  <2>4. CASE l.kind \in {"screen", "connect"}
    BY <2>1, <2>2, <2>3, <2>4, ReadScreenTrue DEF ReadEvidenceLine
  <2>5. CASE l.kind = "pregreet"
    BY <2>1, <2>2, <2>3, <2>5, ReadPregreetTrue DEF ReadEvidenceLine
  <2>6. CASE l.kind = "reject"
    BY <2>1, <2>2, <2>3, <2>6, ReadRejectTrue DEF ReadEvidenceLine
  <2>7. CASE l.kind \notin Evidence
    <3>1. F[n + 1] = acc
      BY <2>3, <2>7 DEF ReadEvidenceLine, Evidence
    <3> QED BY <2>1, <2>2, <2>7, <3>1, PassedTrue
  <2> QED BY <2>4, <2>5, <2>6, <2>7 DEF Evidence
<1>6. Len(ls) \in S
  <2> HIDE DEF S
  <2> QED BY <1>1, <1>4, <1>5, Induction
<1>7. EvidenceTrue(F[Len(ls)], ls, Len(ls))
  BY <1>1, <1>6
<1> QED BY <1>1, <1>2, <1>3, <1>7, FlushTrue

-----------------------------------------------------------------------------
(* Evidence is its connection's own.                                        *)

\* What a record says of its item.
LEMMA RecordOf ==
  ASSUME NEW item, NEW r, r = Classify(conns, item)
  PROVE  /\ r.item = item
         /\ r.conn # NoConn \/ r.signature # "none" =>
              /\ Cardinality(Holding(conns, item)) = 1
              /\ r.conn = (CHOOSE x \in Holding(conns, item) : TRUE)
              /\ r.signature = Signature(conns[r.conn].end.behavior, item)
BY DEF Classify, NoConn

\* What Campaign reports of an item is what Classify makes of it.
LEMMA RecordTrue ==
  ASSUME TrafficInv, NEW i \in DOMAIN report.campaign.records, NEW r, r = report.campaign.records[i]
  PROVE  \E b \in Conns : ItemTrue(r.item, b) /\ r = Classify(conns, r.item)
<1>1. PICK evidence : evidence = ReadEvidence(batch.log, Client)
  OBVIOUS
<1>2. report.campaign.records = [x \in DOMAIN evidence.done |-> Classify(conns, evidence.done[x])]
  BY <1>1 DEF TrafficInv, BatchTrue, Campaign, conns
<1>3. i \in DOMAIN evidence.done /\ r = Classify(conns, evidence.done[i])
  BY <1>2
<1>4. EvidenceTrue(evidence, batch.log, Len(batch.log))
  BY <1>1, EvidenceFound DEF TrafficInv, BatchTrue
<1>5. PICK item : item = evidence.done[i]
  OBVIOUS
<1>6. DOMAIN evidence.done = 1 .. Len(evidence.done)
  BY <1>4 DEF EvidenceTrue
<1>7. \E b \in Conns : ItemTrue(item, b)
  BY <1>3, <1>4, <1>5, <1>6 DEF EvidenceTrue
<1> QED BY <1>3, <1>5, <1>7, RecordOf

\* The connection that an item is about may hold it, if its session can be attributed.
LEMMA OwnHolds ==
  ASSUME TrafficInv, NEW item, NEW b \in Conns, ItemTrue(item, b), Attributable(b)
  PROVE  b \in Holding(conns, item)
<1>1. PICK k, s, e : k = conns[b] /\ s = k.start /\ e = k.end
  OBVIOUS
<1>2. Batched(b)
  BY DEF Attributable
<1>3. /\ k.client = Client /\ k.invalid = FALSE /\ s # NoStamp /\ e # NoStamp /\ Written(k, b)
  BY <1>1, <1>2, ConnectionOf
<1>4. PICK f \in ToSet(events[b]), g \in ToSet(events[b]) :
        f.type = "start" /\ s = StampOf(f) /\ g.type = "end" /\ e = StampOf(g)
  <2>1. Slotted(k, "start") = s /\ Slotted(k, "end") = e /\ "start" \in Types /\ "end" \in Types
    BY <1>1 DEF Slotted, Types
  <2> QED BY <1>3, <2>1 DEF Written
<1>5. events[b] \in Seq(Event) /\ EventsTrue /\ Timely
  BY DEF TrafficInv, WorldInv, TypeOK
<1>6. s.at = f.at /\ e.at = g.at /\ f.at \in Nat /\ g.at \in Nat
  <2>1. f \in Event /\ g \in Event
    BY <1>4, <1>5 DEF ToSet
  <2> QED BY <1>4, <2>1 DEF StampOf, Event
<1>7. f.at <= g.at
  <2>1. PICK x \in ToSet(batch.events) : x.conn = b
    BY <1>2 DEF Batched
  <2>2. PICK s2 \in ToSet(events[b]), f2 \in ToSet(events[b]) :
          s2.type = "start" /\ f2.type = "end" /\ s2.at <= f2.at
    BY <2>1 DEF TrafficInv, BatchTrue, EventsOf
  <2>3. s2 = f /\ f2 = g
    <3>1. \A x2, y2 \in ToSet(events[b]) : x2.type = y2.type => x2 = y2
      BY <1>5 DEF EventsTrue, ToSet
    <3> QED BY <1>4, <2>2, <3>1
  <2> QED BY <2>2, <2>3
<1>8. g.at - f.at <= MaxLifetime
  BY <1>4 DEF Attributable
<1>9. /\ MaxLifetime \in Nat /\ Tolerance \in Nat /\ Grain \in Nat /\ Grain - 1 <= Tolerance
  BY CampaignAssumption, CorrelateAssumption, TrafficAssumption, ToleranceAssumption
<1>10. e.at - s.at \in 0 .. MaxLifetime
  BY <1>6, <1>7, <1>8, <1>9
<1>11. ASSUME NEW t \in {item.start, item.pregreetAt, item.rejectAt, item.lastAt} \ {Never}
       PROVE  t \in s.at - Tolerance .. e.at + Tolerance
  <2>1. SeenAt(t, b)
    BY <1>11 DEF ItemTrue
  <2>2. PICK j \in DOMAIN log : log[j].kind \in Evidence /\ log[j].ghost.conn = b /\ log[j].at = t
    BY <2>1 DEF SeenAt
  <2>3. log[j].kind # "disconnect"
    BY <2>2 DEF Evidence
  <2>4. f.at <= t + Grain - 1 /\ t <= g.at
    <3>1. PICK x \in DOMAIN events[b], y \in DOMAIN events[b] : events[b][x] = f /\ events[b][y] = g
      BY <1>4 DEF ToSet
    <3>2. f.at <= log[j].at + Grain - 1
      BY <1>4, <1>5, <2>2, <3>1 DEF Timely
    <3>3. log[j].at <= g.at
      BY <1>4, <1>5, <2>2, <2>3, <3>1 DEF Timely
    <3> QED BY <2>2, <3>2, <3>3
  <2>5. t \in Nat
    <3>1. log \in Seq(Line)
      BY DEF TrafficInv, WorldInv, TypeOK
    <3>2. log[j] \in Line
      BY <3>1
    <3> QED BY <2>2, <3>2 DEF Line
  <2> QED BY <1>6, <1>9, <2>4, <2>5
<1>12. item.client = Client
  BY DEF ItemTrue
<1> QED BY <1>1, <1>3, <1>10, <1>11, <1>12 DEF Holding

\* An item is of one connection, unless its connections cannot be told apart.
LEMMA EvidenceInv == TrafficInv => EvidenceIsOwn
<1> SUFFICES ASSUME TrafficInv, NEW i \in DOMAIN report.campaign.records,
                    NEW r, r = report.campaign.records[i]
             PROVE  /\ r.conn # NoConn => \A c \in r.item.of \ {r.conn} : ~Attributable(c)
                    /\ r.signature = "pregreet-ehlo-user" => \E c \in r.item.of : Did(c, "pregreet", "USER")
                    /\ r.signature = "pregreet-helo-support" =>
                         \E c \in r.item.of : Did(c, "pregreet", "HELO") /\ Did(c, "reject", "support")
  BY DEF EvidenceIsOwn
<1>1. PICK b \in Conns : ItemTrue(r.item, b) /\ r = Classify(conns, r.item)
  BY RecordTrue
<1>2. PICK item : item = r.item /\ ItemTrue(item, b) /\ r = Classify(conns, item)
  BY <1>1
<1>3. item.of = {b}
  BY <1>2 DEF ItemTrue
<1>4. ASSUME r.conn # NoConn, b # r.conn, Attributable(b) PROVE FALSE
  <2>1. b \in Holding(conns, item)
    BY <1>2, <1>4, OwnHolds
  <2>2. Cardinality(Holding(conns, item)) = 1 /\ r.conn = (CHOOSE x \in Holding(conns, item) : TRUE)
    BY <1>2, <1>4, RecordOf
  <2>3. Holding(conns, item) \subseteq Conns
    BY DEF Holding
  <2>4. IsFiniteSet(Holding(conns, item))
    BY <2>3, TrafficAssumption, FS_Subset
  <2>5. \E c : Holding(conns, item) = {c}
    BY <2>2, <2>4, FS_Singleton
  <2> QED BY <1>4, <2>1, <2>2, <2>5
<1>5. r.signature # "none" => \E behavior : r.signature = Signature(behavior, item)
  BY <1>2, RecordOf
<1>6. ASSUME r.signature = "pregreet-ehlo-user" PROVE Did(b, "pregreet", "USER")
  <2>1. item.verb = "USER"
    BY <1>5, <1>6 DEF Signature
  <2> QED BY <1>2, <2>1 DEF ItemTrue
<1>7. ASSUME r.signature = "pregreet-helo-support"
      PROVE  Did(b, "pregreet", "HELO") /\ Did(b, "reject", "support")
  <2>1. item.verb = "HELO" /\ item.rejected = "support"
    BY <1>5, <1>7 DEF Signature
  <2> QED BY <1>2, <2>1 DEF ItemTrue
<1> QED BY <1>2, <1>3, <1>4, <1>6, <1>7

\* Evidence joined to a connection is its own, and who is reported for a campaign did
\* what the campaign does (matchingSMTPConnections, classifySMTPCampaignSignature).
THEOREM OwnEvidence == Spec => []EvidenceIsOwn
BY TrafficInvariance, EvidenceInv, PTL

-----------------------------------------------------------------------------
(* A batch that is read again.                                              *)

\* k is what these events say of c.
SaidOf(k, c, written) ==
  /\ k \in Connection /\ k.invalid = FALSE
  /\ (\E e \in written : e.conn = c) => k.client = Client
  /\ (\A e \in written : e.conn # c) => k = Unseen
  /\ \A type \in Types :
       /\ (\A e \in written : e.conn = c => e.type # type) => Slotted(k, type) = NoStamp
       /\ \A e \in written : e.conn = c /\ e.type = type => Slotted(k, type) = StampOf(e)

\* What events say of a connection does not depend on their order.
LEMMA SaidOfAll ==
  ASSUME NEW es \in Seq(Event), NEW c, NEW k, SaidBy(k, c, es, Len(es))
  PROVE  SaidOf(k, c, ToSet(es))
<1>1. DOMAIN es = 1 .. Len(es)
  OBVIOUS
<1>2. \A e \in ToSet(es) : \E i \in 1 .. Len(es) : es[i] = e
  BY <1>1 DEF ToSet
<1>3. \A i \in 1 .. Len(es) : es[i] \in ToSet(es)
  BY <1>1 DEF ToSet
<1>4. (\E e \in ToSet(es) : e.conn = c) => k.client = Client
  BY <1>2 DEF SaidBy
<1>5. (\A e \in ToSet(es) : e.conn # c) => k = Unseen
  BY <1>3 DEF SaidBy
<1>6. ASSUME NEW type \in Types
      PROVE  /\ (\A e \in ToSet(es) : e.conn = c => e.type # type) => Slotted(k, type) = NoStamp
             /\ \A e \in ToSet(es) : e.conn = c /\ e.type = type => Slotted(k, type) = StampOf(e)
  <2>1. (\A e \in ToSet(es) : e.conn = c => e.type # type) => Slotted(k, type) = NoStamp
    BY <1>3 DEF SaidBy
  <2>2. \A e \in ToSet(es) : e.conn = c /\ e.type = type => Slotted(k, type) = StampOf(e)
    BY <1>2 DEF SaidBy
  <2> QED BY <2>1, <2>2
<1> QED BY <1>4, <1>5, <1>6 DEF SaidBy, SaidOf

\* And it is one thing.
LEMMA SaidOnce ==
  ASSUME NEW c, NEW written, NEW k, NEW h, SaidOf(k, c, written), SaidOf(h, c, written)
  PROVE  k = h
<1>1. CASE \A e \in written : e.conn # c
  BY <1>1 DEF SaidOf
<1>2. CASE \E e \in written : e.conn = c
  <2>1. k.client = h.client /\ k.invalid = h.invalid /\ k \in Connection /\ h \in Connection
    BY <1>2 DEF SaidOf
  <2>2. ASSUME NEW type \in Types PROVE Slotted(k, type) = Slotted(h, type)
    <3>1. CASE \A e \in written : e.conn = c => e.type # type
      BY <3>1 DEF SaidOf
    <3>2. CASE \E e \in written : e.conn = c /\ e.type = type
      BY <3>2 DEF SaidOf
    <3> QED BY <3>1, <3>2
  <2>3. k.start = h.start /\ k.accepted = h.accepted /\ k.tls = h.tls /\ k.end = h.end
    BY <2>2 DEF Slotted, Types
  <2> QED BY <2>1, <2>3 DEF Connection
<1> QED BY <1>1, <1>2

\* Events that are read twice say the same.
LEMMA EventsTwice ==
  ASSUME NEW es \in Seq(Event), Agreeing(es)
  PROVE  ReadConnections(es \o es) = ReadConnections(es)
<1>1. PICK twice : twice = es \o es /\ twice \in Seq(Event) /\ ToSet(twice) = ToSet(es)
  <2>1. es \o es \in Seq(Event) /\ ToSet(es \o es) = ToSet(es) \cup ToSet(es)
    BY Joined
  <2> QED BY <2>1
<1>2. Agreeing(twice)
  <2> SUFFICES ASSUME NEW i \in DOMAIN twice, NEW j \in DOMAIN twice,
                      twice[i].conn = twice[j].conn, twice[i].type = twice[j].type
               PROVE  twice[i] = twice[j]
    BY DEF Agreeing
  <2>1. PICK e, f : e = twice[i] /\ f = twice[j] /\ e \in ToSet(es) /\ f \in ToSet(es)
    <3>1. twice[i] \in ToSet(twice) /\ twice[j] \in ToSet(twice)
      BY DEF ToSet
    <3> QED BY <1>1, <3>1
  <2>2. PICK a \in DOMAIN es, b \in DOMAIN es : es[a] = e /\ es[b] = f
    BY <2>1 DEF ToSet
  <2>3. e.conn = f.conn /\ e.type = f.type
    BY <2>1
  <2> QED BY <2>1, <2>2, <2>3 DEF Agreeing
<1>3. PICK g, h : g = ReadConnections(es) /\ h = ReadConnections(twice)
  OBVIOUS
<1>4. g \in [Conns -> Connection] /\ h \in [Conns -> Connection]
  BY <1>1, <1>2, <1>3, ConnectionsRead
<1>5. ASSUME NEW c \in Conns PROVE g[c] = h[c]
  <2>1. SaidOf(g[c], c, ToSet(es))
    BY <1>3, ConnectionsRead, SaidOfAll
  <2>2. SaidOf(h[c], c, ToSet(twice))
    BY <1>1, <1>2, <1>3, ConnectionsRead, SaidOfAll
  <2> QED BY <1>1, <2>1, <2>2, SaidOnce
<1> QED BY <1>1, <1>3, <1>4, <1>5

\* A session whose messages come after k others.
Moved(s, k) == [s EXCEPT !.messages = {x + k : x \in s.messages}]

\* What is read after a first pass has left these messages, and no session.
Again(acc, before) ==
  [sessions |-> [p \in Pids |-> Moved(acc.sessions[p], Len(before))], out |-> before \o acc.out]

\* A session that is moved is the same but for where its messages are.
LEMMA MovedTrue ==
  ASSUME NEW s \in SessionState, NEW k \in Nat
  PROVE  /\ Moved(s, k) \in SessionState
         /\ Moved(s, k).client = s.client /\ Moved(s, k).epoch = s.epoch /\ Moved(s, k).tls = s.tls
         /\ Moved(s, k).messages = {x + k : x \in s.messages}
         /\ s.messages = {} => Moved(s, k) = s
<1>1. PICK ms : ms = {x + k : x \in s.messages}
  OBVIOUS
<1>2. ms \subseteq Nat /\ (s.messages = {} => ms = s.messages)
  BY <1>1 DEF SessionState
<1>3. PICK t : t = Moved(s, k) /\ t = [s EXCEPT !.messages = ms]
  BY <1>1 DEF Moved
<1> QED BY <1>1, <1>2, <1>3 DEF SessionState

\* A connect and a disconnect are read again alike.
LEMMA AgainSession ==
  ASSUME NEW acc \in Reading, NEW before \in Seq(Message), NEW l, l.pid \in Pids,
         l.client = Client, l.at \in Nat, l.kind \in {"connect", "disconnect"}
  PROVE  ReadLine(Again(acc, before), l) = Again(ReadLine(acc, l), before)
<1>1. PICK p, k, s : /\ p = l.pid /\ k = Len(before) /\ k \in Nat
                     /\ s = IF l.kind = "connect" THEN [NoSession EXCEPT !.client = l.client, !.epoch = l.at]
                            ELSE NoSession
  OBVIOUS
<1>2. s \in SessionState /\ s.messages = {}
  BY <1>1 DEF NoSession, SessionState, Never
<1>3. Moved(s, k) = s
  BY <1>1, <1>2, MovedTrue
<1>4. \A a : ReadLine(a, l) = [a EXCEPT !.sessions = [a.sessions EXCEPT ![p] = s]]
  BY <1>1 DEF ReadLine, ReadConnect, ReadDisconnect
<1>5. PICK ss, os, new : ss = acc.sessions /\ os = acc.out /\ new = [ss EXCEPT ![p] = s]
                         /\ ss \in [Pids -> SessionState]
  BY DEF Reading
<1>6. ReadLine(acc, l) = [sessions |-> new, out |-> os]
  BY ZenonT(30), <1>4, <1>5 DEF Reading
<1>7. PICK ts : ts = [q \in Pids |-> Moved(ss[q], k)]
  OBVIOUS
<1>8. ReadLine(Again(acc, before), l) = [sessions |-> [ts EXCEPT ![p] = s], out |-> before \o os]
  <2>1. PICK bo : bo = before \o os
    OBVIOUS
  <2>2. PICK b : b = Again(acc, before) /\ b = [sessions |-> ts, out |-> bo]
    BY <1>1, <1>5, <1>7, <2>1 DEF Again
  <2>3. ReadLine(b, l) = [sessions |-> [ts EXCEPT ![p] = s], out |-> bo]
    <3>1. PICK us : us = [b.sessions EXCEPT ![p] = s] /\ us = [ts EXCEPT ![p] = s]
      <4>1. b.sessions = ts
        BY <2>2
      <4> QED BY <4>1
    <3>2. ReadLine(b, l) = [b EXCEPT !.sessions = us]
      BY <1>4, <3>1
    <3> QED BY <2>2, <3>1, <3>2
  <2> QED BY <2>1, <2>2, <2>3
<1>9. Again(ReadLine(acc, l), before) = [sessions |-> [q \in Pids |-> Moved(new[q], k)], out |-> before \o os]
  BY <1>1, <1>6 DEF Again
<1>10. [ts EXCEPT ![p] = s] = [q \in Pids |-> Moved(new[q], k)]
  <2>1. \A q \in Pids : [ts EXCEPT ![p] = s][q] = Moved(new[q], k)
    BY <1>1, <1>3, <1>5, <1>7
  <2> QED BY <1>7, <2>1
<1> QED BY <1>8, <1>9, <1>10

\* Two sequences joined, item by item.
LEMMA Shifted ==
  ASSUME NEW X, NEW before \in Seq(X), NEW out \in Seq(X)
  PROVE  /\ before \o out \in Seq(X) /\ Len(before \o out) = Len(before) + Len(out)
         /\ Len(before) \in Nat /\ Len(out) \in Nat
         /\ \A i \in 1 .. Len(before) : (before \o out)[i] = before[i]
         /\ \A i \in Len(before) + 1 .. Len(before) + Len(out) : (before \o out)[i] = out[i - Len(before)]
OBVIOUS

\* A sequence is the function of its items.
LEMMA ItsItems ==
  ASSUME NEW X, NEW s \in Seq(X)
  PROVE  s = [i \in 1 .. Len(s) |-> s[i]]
OBVIOUS

\* A handshake is read again alike: it touches the messages of its second session only.
LEMMA AgainTls ==
  ASSUME NEW acc \in Reading, NEW before \in Seq(Message), NEW l, l.pid \in Pids, l.kind = "tls",
         acc.sessions[l.pid].messages \subseteq 1 .. Len(acc.out)
  PROVE  ReadLine(Again(acc, before), l) = Again(ReadLine(acc, l), before)
<1>1. PICK p, k, ss, os, s : /\ p = l.pid /\ k = Len(before) /\ ss = acc.sessions /\ os = acc.out
                             /\ s = ss[p]
  OBVIOUS
<1>2. /\ p \in Pids /\ k \in Nat /\ ss \in [Pids -> SessionState] /\ os \in Seq(Message) /\ Len(os) \in Nat
      /\ s \in SessionState /\ s.messages \subseteq 1 .. Len(os) /\ acc = [sessions |-> ss, out |-> os]
  BY <1>1 DEF Reading
<1>3. PICK bo : /\ bo = before \o os /\ bo \in Seq(Message) /\ Len(bo) = k + Len(os)
                /\ \A i \in 1 .. k : bo[i] = before[i]
                /\ \A i \in k + 1 .. k + Len(os) : bo[i] = os[i - k]
  <2>1. /\ before \o os \in Seq(Message) /\ Len(before \o os) = Len(before) + Len(os)
        /\ \A i \in 1 .. Len(before) : (before \o os)[i] = before[i]
        /\ \A i \in Len(before) + 1 .. Len(before) + Len(os) : (before \o os)[i] = os[i - Len(before)]
    BY <1>2, Shifted
  <2> QED BY <1>1, <2>1
<1>4. PICK ts, b : /\ ts = [q \in Pids |-> Moved(ss[q], k)]
                   /\ b = Again(acc, before) /\ b = [sessions |-> ts, out |-> bo]
  BY <1>1, <1>3 DEF Again
<1>5. ts[p] = Moved(s, k) /\ ts[p].client = s.client /\ ts[p].epoch = s.epoch /\ ts[p].tls = s.tls
      /\ ts[p].messages = {x + k : x \in s.messages} /\ ts[p] \in SessionState
  BY ZenonT(30), <1>1, <1>2, <1>4, MovedTrue
<1>6. Mine(b, l) <=> Mine(acc, l)
  BY <1>1, <1>4, <1>5 DEF Mine
<1>7. CASE ~Mine(acc, l)
  BY <1>4, <1>6, <1>7 DEF ReadLine, ReadTls
<1>8. CASE Mine(acc, l)
  <2>1. PICK w, u : /\ w = (IF s.tls # "unknown" THEN "conflict" ELSE "before")
                    /\ u = (IF s.tls # "unknown" THEN "conflict" ELSE "after")
    OBVIOUS
  <2>2. PICK t, o : /\ t = [s EXCEPT !.tls = w]
                    /\ o = [i \in 1 .. Len(os) |-> IF i \in s.messages THEN [os[i] EXCEPT !.tls = u] ELSE os[i]]
    OBVIOUS
  <2>3. ReadLine(acc, l) = [sessions |-> [ss EXCEPT ![p] = t], out |-> o]
    <3>1. ReadLine(acc, l) = ReadTls(acc, l)
      BY DEF ReadLine
    <3>2. DOMAIN os = 1 .. Len(os)
      BY <1>2
    <3> QED BY <1>1, <1>2, <1>8, <2>1, <2>2, <3>1, <3>2 DEF ReadTls
  <2>4. PICK bt, bs : /\ bt = [ts[p] EXCEPT !.tls = w]
                      /\ bs = [i \in 1 .. k + Len(os) |->
                                 IF i \in ts[p].messages THEN [bo[i] EXCEPT !.tls = u] ELSE bo[i]]
    OBVIOUS
  <2>5. ReadLine(b, l) = [sessions |-> [ts EXCEPT ![p] = bt], out |-> bs]
    <3>1. ReadLine(b, l) = ReadTls(b, l)
      BY DEF ReadLine
    <3>2. DOMAIN bo = 1 .. k + Len(os)
      BY <1>2, <1>3
    <3>3. Mine(b, l) /\ b.sessions = ts /\ b.out = bo
      BY <1>4, <1>6, <1>8
    <3>4. PICK sp : sp = ts[p] /\ sp.tls = s.tls
      BY <1>5
    <3>5. ReadTls(b, l) = [sessions |-> [ts EXCEPT ![p] = [sp EXCEPT !.tls = w]],
                           out |-> [i \in 1 .. k + Len(os) |->
                                      IF i \in sp.messages THEN [bo[i] EXCEPT !.tls = u] ELSE bo[i]]]
      BY <1>1, <2>1, <3>2, <3>3, <3>4 DEF ReadTls
    <3> QED BY <2>4, <3>1, <3>4, <3>5
  <2>6. t \in SessionState /\ Moved(t, k) = bt
    <3>1. t \in SessionState /\ t.messages = s.messages
      BY <1>2, <2>1, <2>2 DEF SessionState
    <3>2. PICK ms : ms = {x + k : x \in s.messages}
      OBVIOUS
    <3>3. Moved(t, k) = [t EXCEPT !.messages = ms]
      BY <3>1, <3>2 DEF Moved
    <3>4. bt = [[s EXCEPT !.messages = ms] EXCEPT !.tls = w]
      BY <1>5, <2>4, <3>2 DEF Moved
    <3> QED BY <1>2, <2>2, <3>1, <3>3, <3>4 DEF SessionState
  <2>7. [ts EXCEPT ![p] = bt] = [q \in Pids |-> Moved([ss EXCEPT ![p] = t][q], k)]
    <3>1. ASSUME NEW q \in Pids PROVE [ts EXCEPT ![p] = bt][q] = Moved([ss EXCEPT ![p] = t][q], k)
      BY <1>2, <1>4, <2>6
    <3> QED BY <1>4, <3>1
  <2>8. o \in Seq(Message) /\ Len(o) = Len(os)
    <3>1. ASSUME NEW i \in 1 .. Len(os) PROVE o[i] \in Message
      <4>1. os[i] \in Message
        BY <1>2, ItemOf
      <4>2. u \in {"after", "conflict"}
        BY <2>1
      <4>3. [os[i] EXCEPT !.tls = u] \in Message
        BY <4>1, <4>2 DEF Message
      <4> QED BY <2>2, <4>1, <4>3
    <3> QED BY <1>2, <2>2, <3>1
  <2>9. bs = before \o o
    <3>1. PICK bn : /\ bn = before \o o /\ bn \in Seq(Message) /\ Len(bn) = k + Len(os)
                    /\ \A i \in 1 .. k : bn[i] = before[i]
                    /\ \A i \in k + 1 .. k + Len(os) : bn[i] = o[i - k]
      <4>1. /\ before \o o \in Seq(Message) /\ Len(before \o o) = Len(before) + Len(o)
            /\ \A i \in 1 .. Len(before) : (before \o o)[i] = before[i]
            /\ \A i \in Len(before) + 1 .. Len(before) + Len(o) : (before \o o)[i] = o[i - Len(before)]
        <5>1. o \in Seq(Message)
          BY <2>8
        <5> QED BY <5>1, Shifted
      <4> QED BY <1>1, <2>8, <4>1
    <3>2. ASSUME NEW i \in 1 .. k + Len(os) PROVE bs[i] = bn[i]
      <4>1. CASE i \in 1 .. k
        <5>1. i \notin ts[p].messages
          BY <1>2, <1>5, <4>1
        <5> QED BY <1>3, <2>4, <3>1, <4>1, <5>1
      <4>2. CASE i \notin 1 .. k
        <5>1. PICK j : j = i - k /\ j \in 1 .. Len(os) /\ i = j + k
          BY <1>2, <4>2
        <5>2. i \in ts[p].messages <=> j \in s.messages
          <6>1. i \in ts[p].messages <=> \E x \in s.messages : i = x + k
            BY <1>5
          <6>2. \A x \in s.messages : i = x + k => x = j
            BY <1>2, <5>1
          <6> QED BY <5>1, <6>1, <6>2
        <5>3. bo[i] = os[j] /\ bn[i] = o[j]
          BY <1>2, <1>3, <3>1, <4>2, <5>1
        <5> QED BY <2>2, <2>4, <5>1, <5>2, <5>3
      <4> QED BY <4>1, <4>2
    <3>3. bn = [i \in 1 .. k + Len(os) |-> bn[i]]
      <4>1. bn = [i \in 1 .. Len(bn) |-> bn[i]]
        BY <3>1, ItsItems
      <4> QED BY <3>1, <4>1
    <3> QED BY <2>4, <3>1, <3>2, <3>3
  <2>10. PICK new, sn : new = ReadLine(acc, l) /\ sn = [ss EXCEPT ![p] = t] /\ new.sessions = sn /\ new.out = o
    BY <2>3
  <2>11. Again(new, before) = [sessions |-> [q \in Pids |-> Moved(sn[q], k)], out |-> before \o o]
    BY <1>1, <2>10 DEF Again
  <2> QED BY <1>4, <2>5, <2>7, <2>9, <2>10, <2>11
<1> QED BY <1>7, <1>8

\* A message is read again alike, after those of the first pass.
LEMMA AgainQueue ==
  ASSUME NEW acc \in Reading, NEW before \in Seq(Message), NEW l \in Line, l.pid \in Pids, l.kind = "queue"
  PROVE  ReadLine(Again(acc, before), l) = Again(ReadLine(acc, l), before)
<1>1. PICK p, k, ss, os, s, n : /\ p = l.pid /\ k = Len(before) /\ ss = acc.sessions /\ os = acc.out
                                /\ s = ss[p] /\ n = Len(os)
  OBVIOUS
<1>2. /\ p \in Pids /\ k \in Nat /\ ss \in [Pids -> SessionState] /\ os \in Seq(Message) /\ n \in Nat
      /\ s \in SessionState /\ acc = [sessions |-> ss, out |-> os]
  BY <1>1 DEF Reading
<1>3. PICK bo : /\ bo = before \o os /\ bo \in Seq(Message) /\ Len(bo) = k + n
                /\ \A i \in 1 .. k : bo[i] = before[i]
                /\ \A i \in k + 1 .. k + n : bo[i] = os[i - k]
  <2>1. /\ before \o os \in Seq(Message) /\ Len(before \o os) = Len(before) + Len(os)
        /\ \A i \in 1 .. Len(before) : (before \o os)[i] = before[i]
        /\ \A i \in Len(before) + 1 .. Len(before) + Len(os) : (before \o os)[i] = os[i - Len(before)]
    BY <1>2, Shifted
  <2> QED BY <1>1, <2>1
<1>4. PICK ts, b : /\ ts = [q \in Pids |-> Moved(ss[q], k)]
                   /\ b = Again(acc, before) /\ b = [sessions |-> ts, out |-> bo]
  BY <1>1, <1>3 DEF Again
<1>5. PICK sp : /\ sp = ts[p] /\ sp = Moved(s, k)
                /\ sp.client = s.client /\ sp.epoch = s.epoch /\ sp.tls = s.tls
                /\ sp.messages = {x + k : x \in s.messages} /\ sp \in SessionState
  BY ZenonT(30), <1>1, <1>2, <1>4, MovedTrue
<1>6. PICK mine : mine = Mine(acc, l) /\ (mine <=> Mine(b, l)) /\ mine \in BOOLEAN
  <2>1. Mine(b, l) <=> Mine(acc, l)
    BY <1>1, <1>4, <1>5 DEF Mine
  <2>2. Mine(acc, l) \in BOOLEAN
    BY DEF Mine
  <2> QED BY <2>1, <2>2
<1>7. PICK m : m = [queue |-> l.arg, client |-> l.client, pid |-> l.pid, at |-> l.at,
                    epoch |-> IF mine THEN s.epoch ELSE Never,
                    tls |-> IF mine THEN s.tls ELSE "unknown", ghost |-> l.ghost]
  OBVIOUS
<1>8. m \in Message
  <2>1. l.arg \in Args /\ l.client \in {Client} /\ l.at \in Nat /\ l.ghost \in Ghost
    BY DEF Line, Ghost
  <2>2. s.epoch \in Nat \cup {Never} /\ s.tls \in {"unknown", "before", "conflict"}
    BY <1>2 DEF SessionState
  <2> QED BY <1>1, <1>2, <1>7, <2>1, <2>2 DEF Message
<1>9. PICK t, o : /\ t = IF mine THEN [s EXCEPT !.messages = s.messages \cup {n + 1}] ELSE s
                  /\ o = Append(os, m)
  OBVIOUS
<1>10. PICK sn : sn = [ss EXCEPT ![p] = t] /\ ReadLine(acc, l) = [sessions |-> sn, out |-> o]
  <2>1. ReadLine(acc, l) = ReadQueue(acc, l)
    BY DEF ReadLine
  <2>2. ReadLine(acc, l) =
          [sessions |-> IF mine THEN [ss EXCEPT ![p] = [s EXCEPT !.messages = s.messages \cup {n + 1}]]
                        ELSE ss,
           out |-> o]
    BY <1>1, <1>2, <1>6, <1>7, <1>9, <2>1 DEF ReadQueue
  <2>3. CASE mine
    BY <1>9, <2>2, <2>3
  <2>4. CASE ~mine
    <3>1. ss = [ss EXCEPT ![p] = t]
      BY <1>1, <1>2, <1>9, <2>4
    <3> QED BY <2>2, <2>4, <3>1
  <2> QED BY <2>3, <2>4
<1>11. PICK bt, bs : /\ bt = IF mine THEN [sp EXCEPT !.messages = sp.messages \cup {k + n + 1}] ELSE sp
                     /\ bs = Append(bo, m)
  OBVIOUS
<1>12. ReadLine(b, l) = [sessions |-> [ts EXCEPT ![p] = bt], out |-> bs]
  <2>1. ReadLine(b, l) = ReadQueue(b, l)
    BY DEF ReadLine
  <2>2. b.sessions = ts /\ b.out = bo /\ Len(bo) + 1 = k + n + 1
    BY <1>2, <1>3, <1>4
  <2>3. ReadLine(b, l) =
          [sessions |-> IF mine THEN [ts EXCEPT ![p] = [sp EXCEPT !.messages = sp.messages \cup {k + n + 1}]]
                        ELSE ts,
           out |-> bs]
    BY <1>1, <1>5, <1>6, <1>7, <1>11, <2>1, <2>2 DEF ReadQueue
  <2>4. CASE mine
    BY <1>11, <2>3, <2>4
  <2>5. CASE ~mine
    <3>1. ts = [ts EXCEPT ![p] = bt]
      BY <1>4, <1>5, <1>11, <2>5
    <3> QED BY <2>3, <2>5, <3>1
  <2> QED BY <2>4, <2>5
<1>13. t \in SessionState /\ Moved(t, k) = bt
  <2>1. CASE mine
    <3>1. t \in SessionState /\ t.messages = s.messages \cup {n + 1}
      BY <1>2, <1>9, <2>1 DEF SessionState
    <3>2. PICK ms : ms = {x + k : x \in t.messages}
      OBVIOUS
    <3>3. ms = sp.messages \cup {k + n + 1}
      <4>1. n + 1 + k = k + n + 1
        BY <1>2
      <4> QED BY <1>5, <3>1, <3>2, <4>1
    <3>4. Moved(t, k) = [t EXCEPT !.messages = ms] /\ bt = [sp EXCEPT !.messages = ms]
      BY <1>11, <2>1, <3>2, <3>3 DEF Moved
    <3>5. sp = [s EXCEPT !.messages = sp.messages] /\ t = [s EXCEPT !.messages = t.messages]
      BY <1>5, <1>9, <2>1, <3>1 DEF Moved
    <3> QED BY ZenonT(30), <1>2, <3>1, <3>4, <3>5 DEF SessionState
  <2>2. CASE ~mine
    BY <1>2, <1>5, <1>9, <1>11, <2>2
  <2> QED BY <2>1, <2>2
<1>14. [ts EXCEPT ![p] = bt] = [q \in Pids |-> Moved(sn[q], k)]
  <2>1. ASSUME NEW q \in Pids PROVE [ts EXCEPT ![p] = bt][q] = Moved(sn[q], k)
    BY <1>2, <1>4, <1>10, <1>13
  <2> QED BY <1>4, <2>1
<1>15. bs = before \o o
  <2>1. o \in Seq(Message) /\ Len(o) = n + 1 /\ o[n + 1] = m /\ \A i \in 1 .. n : o[i] = os[i]
    BY <1>1, <1>2, <1>8, <1>9
  <2>2. bs \in Seq(Message) /\ Len(bs) = k + n + 1 /\ bs[k + n + 1] = m /\ \A i \in 1 .. k + n : bs[i] = bo[i]
    BY <1>2, <1>3, <1>8, <1>11
  <2>3. PICK bn : /\ bn = before \o o /\ bn \in Seq(Message) /\ Len(bn) = k + n + 1
                  /\ \A i \in 1 .. k : bn[i] = before[i]
                  /\ \A i \in k + 1 .. k + n + 1 : bn[i] = o[i - k]
    <3>1. o \in Seq(Message)
      BY <2>1
    <3>2. /\ before \o o \in Seq(Message) /\ Len(before \o o) = Len(before) + Len(o)
          /\ \A i \in 1 .. Len(before) : (before \o o)[i] = before[i]
          /\ \A i \in Len(before) + 1 .. Len(before) + Len(o) : (before \o o)[i] = o[i - Len(before)]
      BY <3>1, Shifted
    <3>3. k + (n + 1) = k + n + 1
      BY <1>2
    <3>4. Len(before \o o) = k + n + 1 /\ Len(before) + Len(o) = k + n + 1
      BY <1>1, <2>1, <3>2, <3>3
    <3> QED BY <1>1, <3>2, <3>4
  <2>4. ASSUME NEW i \in 1 .. k + n + 1 PROVE bs[i] = bn[i]
    <3>1. CASE i \in 1 .. k
      <4>1. i \in 1 .. k + n
        BY <1>2, <3>1
      <4> QED BY <1>3, <2>2, <2>3, <3>1, <4>1
    <3>2. CASE i \in k + 1 .. k + n
      <4>1. i - k \in 1 .. n /\ i \in 1 .. k + n /\ i \in k + 1 .. k + n + 1
        BY <1>2, <3>2
      <4> QED BY <1>3, <2>1, <2>2, <2>3, <3>2, <4>1
    <3>3. CASE i = k + n + 1
      <4>1. i - k = n + 1 /\ i \in k + 1 .. k + n + 1
        BY <1>2, <3>3
      <4> QED BY <2>1, <2>2, <2>3, <3>3, <4>1
    <3> QED BY <1>2, <3>1, <3>2, <3>3
  <2>5. bs = [i \in 1 .. Len(bs) |-> bs[i]] /\ bn = [i \in 1 .. Len(bn) |-> bn[i]]
    BY <2>2, <2>3, ItsItems
  <2> QED BY <2>2, <2>3, <2>4, <2>5
<1>16. PICK new : new = ReadLine(acc, l) /\ new.sessions = sn /\ new.out = o
  <2>1. ReadLine(acc, l).sessions = sn /\ ReadLine(acc, l).out = o
    BY <1>10
  <2> QED BY <2>1
<1>17. Again(new, before) = [sessions |-> [q \in Pids |-> Moved(sn[q], k)], out |-> before \o o]
  BY <1>1, <1>16 DEF Again
<1> QED BY <1>4, <1>12, <1>14, <1>15, <1>16, <1>17

\* So is every line.
LEMMA AgainLine ==
  ASSUME NEW ls, Tidy(ls), NEW n \in Nat, n + 1 \in 1 .. Len(ls),
         NEW acc, ReadingTrue(acc, ls, n), NEW before \in Seq(Message), NEW l, l = ls[n + 1]
  PROVE  ReadLine(Again(acc, before), l) = Again(ReadLine(acc, l), before)
<1>1. /\ l \in Line /\ l.client = Client /\ l.at \in Nat /\ acc \in Reading
      /\ l.kind \in {"connect", "disconnect", "tls", "queue"} => l.pid \in Pids
  <2>1. l \in Line
    BY ItemOf DEF Tidy
  <2> QED BY <2>1 DEF Tidy, Line, ReadingTrue
<1>2. CASE l.kind \in {"connect", "disconnect"}
  BY <1>1, <1>2, AgainSession
<1>3. CASE l.kind = "queue"
  BY <1>1, <1>3, AgainQueue
<1>4. CASE l.kind = "tls"
  <2>1. PICK p, s : p = l.pid /\ p \in Pids /\ s = acc.sessions[p] /\ SessionTrue(s, p, ls, n, acc.out)
    BY <1>1, <1>4 DEF ReadingTrue
  <2>2. s.messages \subseteq 1 .. Len(acc.out)
    <3>1. CASE s = NoSession
      BY <3>1 DEF NoSession
    <3>2. CASE s # NoSession
      BY <2>1, <3>2 DEF SessionTrue, Since
    <3> QED BY <3>1, <3>2
  <2> QED BY <1>1, <1>4, <2>1, <2>2, AgainTls
<1>5. CASE l.kind \notin {"connect", "disconnect", "tls", "queue"}
  BY <1>5 DEF ReadLine
<1> QED BY <1>2, <1>3, <1>4, <1>5

\* A log in which every session ends leaves none.
LEMMA NoneOpen ==
  ASSUME NEW ls, Tidy(ls), Finished(ls), NEW acc, ReadingTrue(acc, ls, Len(ls))
  PROVE  acc = [sessions |-> [p \in Pids |-> NoSession], out |-> acc.out]
<1>1. acc \in Reading /\ Len(ls) \in Nat /\ DOMAIN ls = 1 .. Len(ls)
  BY DEF Tidy, ReadingTrue
<1>2. ASSUME NEW p \in Pids PROVE acc.sessions[p] = NoSession
  <2> SUFFICES ASSUME acc.sessions[p] # NoSession PROVE FALSE
    OBVIOUS
  <2>1. PICK s : s = acc.sessions[p] /\ SessionTrue(s, p, ls, Len(ls), acc.out) /\ s # NoSession
    BY DEF ReadingTrue
  <2>2. PICK i \in 1 .. Len(ls) : Since(i, s, p, ls, Len(ls), acc.out)
    BY <2>1 DEF SessionTrue
  <2>3. PICK j \in i .. Len(ls) : ls[j].kind = "disconnect" /\ ls[j].pid = p
    BY <1>1, <2>2 DEF Since, Finished
  <2>4. j # i
    BY <2>2, <2>3 DEF Since
  <2>5. j \in i + 1 .. Len(ls)
    BY <1>1, <2>2, <2>3, <2>4
  <2> QED BY <2>2, <2>3, <2>5 DEF Since
<1>3. acc.sessions = [p \in Pids |-> NoSession]
  BY <1>1, <1>2 DEF Reading
<1> QED BY <1>1, <1>3 DEF Reading

\* A log that leaves no session open, read twice, gives its messages twice.
LEMMA ReadTwice ==
  ASSUME NEW ls, Tidy(ls), Finished(ls)
  PROVE  ReadMessages(ls \o ls) = ReadMessages(ls) \o ReadMessages(ls)
<1> DEFINE F == LinesRead(ls)
           twice == ls \o ls
           G == LinesRead(twice)
           N == Len(ls)
<1>1. /\ twice \in Seq(Line) /\ Len(twice) = N + N /\ N \in Nat
      /\ \A i \in 1 .. N : twice[i] = ls[i]
      /\ \A i \in 1 .. N : N + i \in 1 .. N + N /\ twice[N + i] = ls[i]
  <2>1. ls \in Seq(Line)
    BY DEF Tidy
  <2>2. /\ twice \in Seq(Line) /\ Len(twice) = N + N /\ N \in Nat
        /\ \A i \in 1 .. N : twice[i] = ls[i]
        /\ \A i \in N + 1 .. N + N : twice[i] = ls[i - N]
    BY <2>1, Shifted
  <2>3. ASSUME NEW i \in 1 .. N PROVE N + i \in 1 .. N + N /\ twice[N + i] = ls[i]
    <3>1. N + i \in N + 1 .. N + N /\ N + i \in 1 .. N + N /\ (N + i) - N = i
      BY <2>2
    <3> QED BY <2>2, <3>1
  <2> QED BY <2>2, <2>3
<1>2. /\ \A n \in 0 .. N : ReadingTrue(F[n], ls, n)
      /\ ReadMessages(ls) = F[N].out
  BY MessagesRead
<1>3. /\ F[0] = NothingRead /\ G[0] = NothingRead
      /\ \A n \in 1 .. N : F[n] = ReadLine(F[n - 1], ls[n])
      /\ ReadMessages(twice) = G[N + N].out
      /\ \A n \in 1 .. N + N : G[n] = ReadLine(G[n - 1], twice[n])
  <2>1. ls \in Seq(Line)
    BY DEF Tidy
  <2>2. F[0] = NothingRead /\ \A n \in 1 .. N : F[n] = ReadLine(F[n - 1], ls[n])
    BY <2>1, LinesReadStep
  <2>3. /\ G[0] = NothingRead /\ ReadMessages(twice) = G[Len(twice)].out
        /\ \A n \in 1 .. Len(twice) : G[n] = ReadLine(G[n - 1], twice[n])
    BY <1>1, LinesReadStep
  <2> QED BY <1>1, <2>2, <2>3
<1> HIDE DEF F, G, twice, N
<1>4. PICK out : out = F[N].out /\ out \in Seq(Message) /\ ReadMessages(ls) = out
  <2>1. ReadingTrue(F[N], ls, N)
    BY <1>1, <1>2
  <2> QED BY <1>2, <2>1 DEF ReadingTrue, Reading
<1>5. G[N] = F[N]
  <2> DEFINE S == {n \in Nat : n <= N => G[n] = F[n]}
  <2>1. 0 \in S
    BY <1>3
  <2>2. ASSUME NEW n \in Nat, n \in S PROVE n + 1 \in S
    <3> SUFFICES ASSUME n + 1 <= N PROVE G[n + 1] = F[n + 1]
      OBVIOUS
    <3>1. n <= N /\ n + 1 \in 1 .. N /\ n + 1 \in 1 .. N + N /\ (n + 1) - 1 = n
      BY <1>1
    <3> QED BY <1>1, <1>3, <2>2, <3>1
  <2>3. Nat \subseteq S
    <3> HIDE DEF S
    <3> QED BY <2>1, <2>2, Induction
  <2> QED BY <1>1, <2>3
<1>6. G[N] = Again(NothingRead, out)
  <2>1. F[N] = [sessions |-> [p \in Pids |-> NoSession], out |-> F[N].out]
    <3>1. PICK acc : acc = F[N] /\ ReadingTrue(acc, ls, Len(ls))
      BY <1>1, <1>2 DEF N
    <3> QED BY <3>1, NoneOpen
  <2>2. PICK none : none = NoSession /\ none.messages = {} /\ none \in SessionState /\ Len(out) \in Nat
    <3>1. NoSession.messages = {} /\ NoSession \in SessionState
      BY DEF NoSession, SessionState, Never
    <3>2. Len(out) \in Nat
      BY <1>4
    <3> QED BY <3>1, <3>2
  <2>3. Moved(none, Len(out)) = none
    BY <2>2, MovedTrue
  <2>4. out \o <<>> = out
    BY <1>4, ConcatEmptySeq
  <2>5. Again(NothingRead, out) = [sessions |-> [p \in Pids |-> none], out |-> out]
    <3>1. \A p \in Pids : NothingRead.sessions[p] = none
      BY <2>2 DEF NothingRead
    <3>2. NothingRead.out = <<>>
      BY DEF NothingRead
    <3> QED BY <2>3, <2>4, <3>1, <3>2 DEF Again
  <2> QED BY <1>4, <1>5, <2>1, <2>2, <2>5
<1>7. G[N + N] = Again(F[N], out)
  <2> DEFINE S == {n \in Nat : n <= N => G[N + n] = Again(F[n], out)}
  <2>1. 0 \in S
    <3>1. N + 0 = N
      BY <1>1
    <3> QED BY <1>3, <1>6, <3>1
  <2>2. ASSUME NEW n \in Nat, n \in S PROVE n + 1 \in S
    <3> SUFFICES ASSUME n + 1 <= N PROVE G[N + (n + 1)] = Again(F[n + 1], out)
      OBVIOUS
    <3>1. /\ n <= N /\ n + 1 \in 1 .. N /\ n \in 0 .. N /\ (n + 1) - 1 = n /\ (N + (n + 1)) - 1 = N + n
          /\ N + (n + 1) \in 1 .. N + N
      BY <1>1
    <3>2. PICK acc, l : acc = F[n] /\ l = ls[n + 1] /\ ReadingTrue(acc, ls, n)
      BY <1>2, <3>1
    <3>3. G[N + (n + 1)] = ReadLine(Again(acc, out), l)
      <4>1. twice[N + (n + 1)] = l
        BY <1>1, <3>1, <3>2
      <4>2. G[N + n] = Again(acc, out)
        BY <2>2, <3>1, <3>2
      <4> QED BY <1>3, <3>1, <4>1, <4>2
    <3>4. F[n + 1] = ReadLine(acc, l)
      BY <1>3, <3>1, <3>2
    <3>5. ReadLine(Again(acc, out), l) = Again(ReadLine(acc, l), out)
      <4>1. n + 1 \in 1 .. Len(ls)
        BY <3>1 DEF N
      <4> QED BY <1>4, <3>2, <4>1, AgainLine
    <3> QED BY <3>3, <3>4, <3>5
  <2>3. Nat \subseteq S
    <3> HIDE DEF S
    <3> QED BY <2>1, <2>2, Induction
  <2> QED BY <1>1, <2>3
<1>8. Again(F[N], out).out = out \o out
  BY <1>4 DEF Again
<1> QED BY <1>3, <1>4, <1>7, <1>8 DEF twice

-----------------------------------------------------------------------------
(* What is credited a second time.                                          *)

\* The first of each message's repetitions.
FirstOf(ms) == {i \in DOMAIN ms : \A j \in 1 .. i - 1 : Identity(ms[j]) # Identity(ms[i])}

\* Their results.
CreditsOf(ks, ms, vs) == {Result(ks, ms, vs, ms[i]) : i \in FirstOf(ms)}

\* Messages that come twice.
Twice(tw, ms) == ms \in Seq(Message) /\ tw = ms \o ms

\* Messages that come twice are credited once.
LEMMA CreditTwice ==
  ASSUME NEW ms, NEW tw, Twice(tw, ms), NEW ks, NEW vs
  PROVE  CreditsOf(ks, tw, vs) = CreditsOf(ks, ms, vs)
<1>1. PICK n : /\ n = Len(ms) /\ n \in Nat /\ DOMAIN ms = 1 .. n /\ DOMAIN tw = 1 .. n + n
                   /\ \A i \in 1 .. n : tw[i] = ms[i]
                   /\ \A j \in n + 1 .. n + n : tw[j] = ms[j - n]
  <2>1. /\ ms \o ms \in Seq(Message) /\ Len(ms \o ms) = Len(ms) + Len(ms) /\ Len(ms) \in Nat
        /\ \A i \in 1 .. Len(ms) : (ms \o ms)[i] = ms[i]
        /\ \A i \in Len(ms) + 1 .. Len(ms) + Len(ms) : (ms \o ms)[i] = ms[i - Len(ms)]
    BY Shifted DEF Twice
  <2>2. DOMAIN ms = 1 .. Len(ms) /\ DOMAIN (ms \o ms) = 1 .. Len(ms \o ms)
    BY <2>1
  <2> QED BY <2>1, <2>2 DEF Twice
<1>2. ToSet(tw) = ToSet(ms)
  <2>1. ToSet(ms \o ms) = ToSet(ms) \cup ToSet(ms)
    BY Joined DEF Twice
  <2> QED BY <2>1 DEF Twice
<1>3. \A m : Result(ks, tw, vs, m) = Result(ks, ms, vs, m)
  <2>1. \A m : Reused(tw, m) <=> Reused(ms, m)
    BY <1>2 DEF Reused
  <2> QED BY <2>1 DEF Result
<1>4. FirstOf(tw) = FirstOf(ms)
  <2>1. ASSUME NEW i \in FirstOf(tw) PROVE i \in FirstOf(ms)
    <3>1. i \in 1 .. n + n /\ \A j \in 1 .. i - 1 : Identity(tw[j]) # Identity(tw[i])
      BY <1>1, <2>1 DEF FirstOf
    <3>2. i \in 1 .. n
      <4> SUFFICES ASSUME i \notin 1 .. n PROVE FALSE
        OBVIOUS
      <4>1. i \in n + 1 .. n + n /\ i - n \in 1 .. n /\ i - n \in 1 .. i - 1
        BY <1>1, <3>1
      <4>2. tw[i] = ms[i - n] /\ tw[i - n] = ms[i - n]
        BY <1>1, <4>1
      <4> QED BY <3>1, <4>1, <4>2
    <3>3. \A j \in 1 .. i - 1 : j \in 1 .. n
      BY <1>1, <3>2
    <3> QED BY <1>1, <3>1, <3>2, <3>3 DEF FirstOf
  <2>2. ASSUME NEW i \in FirstOf(ms) PROVE i \in FirstOf(tw)
    <3>1. i \in 1 .. n /\ \A j \in 1 .. i - 1 : Identity(ms[j]) # Identity(ms[i])
      BY <1>1, <2>2 DEF FirstOf
    <3>2. i \in 1 .. n + n /\ \A j \in 1 .. i - 1 : j \in 1 .. n
      BY <1>1, <3>1
    <3> QED BY <1>1, <3>1, <3>2 DEF FirstOf
  <2> QED BY <2>1, <2>2
<1>5. \A i \in FirstOf(ms) : tw[i] = ms[i]
  BY <1>1 DEF FirstOf
<1>6. \A i \in FirstOf(ms) : Result(ks, tw, vs, tw[i]) = Result(ks, ms, vs, ms[i])
  BY <1>3, <1>5
<1> QED BY <1>4, <1>6 DEF CreditsOf

\* Correlate credits the first of each message's repetitions.
LEMMA CorrelateBy ==
  ASSUME NEW es, NEW ls, NEW vs, NEW ks, NEW ms, ks = ReadConnections(es), ms = ReadMessages(ls)
  PROVE  Correlate(es, ls, vs) = CreditsOf(ks, ms, vs)
BY DEF Correlate, CreditsOf, FirstOf

\* The second pass adds nothing to either report.
LEMMA ReplayInv == TrafficInv => ReplayChangesNothing
<1> SUFFICES ASSUME TrafficInv PROVE ReplayChangesNothing
  OBVIOUS
<1>1. PICK es, ls, vs, twice : es = batch.events /\ ls = batch.log /\ vs = batch.verdicts /\ twice = es \o es
  OBVIOUS
<1>2. /\ report.credits = Correlate(es, ls, vs) /\ report.campaign = Campaign(es, ls, Client)
      /\ Tidy(ls)
  BY <1>1, LinesTidy DEF TrafficInv, BatchTrue
<1>3. ReadConnections(twice) = ReadConnections(es)
  BY <1>1, BatchAgrees, EventsTwice
<1>4. \A log2 : Correlate(twice, log2, vs) = Correlate(es, log2, vs)
  BY <1>3 DEF Correlate
<1>5. Campaign(twice, ls, Client) = Campaign(es, ls, Client)
  BY <1>3 DEF Campaign
<1>6. ASSUME Finished(ls) PROVE Correlate(es, ls \o ls, vs) = Correlate(es, ls, vs)
  <2>1. PICK ms : ms = ReadMessages(ls) /\ ms \in Seq(Message)
    <3>1. PICK acc : ReadingTrue(acc, ls, Len(ls)) /\ ReadMessages(ls) = acc.out
      BY <1>2, MessagesRead
    <3> QED BY <3>1 DEF ReadingTrue, Reading
  <2>2. PICK both, lb : lb = ls \o ls /\ both = ReadMessages(lb) /\ both = ms \o ms
    BY <1>2, <1>6, <2>1, ReadTwice
  <2>3. PICK ks : ks = ReadConnections(es)
    OBVIOUS
  <2>4. Correlate(es, ls, vs) = CreditsOf(ks, ms, vs)
    BY <2>1, <2>3, CorrelateBy
  <2>5. Correlate(es, lb, vs) = CreditsOf(ks, both, vs)
    <3>1. both = ReadMessages(lb)
      BY <2>2
    <3> QED BY <2>3, <3>1, CorrelateBy
  <2>6. CreditsOf(ks, both, vs) = CreditsOf(ks, ms, vs)
    <3>1. Twice(both, ms)
      BY <2>1, <2>2 DEF Twice
    <3> QED BY <3>1, CreditTwice
  <2> QED BY <2>2, <2>4, <2>5, <2>6
<1> QED BY <1>1, <1>2, <1>4, <1>5, <1>6 DEF ReplayChangesNothing

\* A batch whose events are read twice gives the same correlation and the same campaign
\* report (readSMTPConnectionsStats).  One whose lines are read twice gives the same
\* correlation, if every session of smtpd that the log opens ends in it
\* (smtpMessageIdentity); of the campaign report nothing is said then.
THEOREM SameAgain == Spec => []ReplayChangesNothing
BY TrafficInvariance, ReplayInv, PTL
=============================================================================
