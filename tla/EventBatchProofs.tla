-------------------------- MODULE EventBatchProofs ---------------------------
(***************************************************************************)
(* Theorems about the event queue, its file and the batch read from it,    *)
(* for any chain of processes, any sessions, queue size, rotations and     *)
(* failures: no handler sends on a closed channel, no process garbles a    *)
(* line of its own, what is written of a session is written once, in order *)
(* and in one file, and a batch read meanwhile keeps that order.           *)
(***************************************************************************)
EXTENDS EventBatch, SequenceTheorems, TLAPS

Event == Sessions \X (1 .. Len(Types))
Line  == [parts : SUBSET (Event \X Procs), torn : BOOLEAN]

TypeOK ==
  /\ phase \in [Procs -> {"off", "serving", "draining", "closing", "exited"}]
  /\ session \in [Sessions -> 0 .. Len(Types)] /\ inEmit \subseteq Sessions
  /\ \A s \in inEmit : session[s] < Len(Types)
  /\ queue \in [Procs -> Seq(Event)] /\ closed \in [Procs -> BOOLEAN]
  /\ writer \in [Procs -> {"none", "open", "failed"}]
  /\ path \in Files /\ fd \in [Procs -> {0} \cup Files]
  /\ \A p \in Procs : writer[p] = "open" => fd[p] \in Files
  /\ file \in [Files -> Seq(Line)] /\ failures \in Nat

\* A process that has not started has written nothing; who has torn a line writes no more.
\* The two parameters are phase and writer.
OwnLine(l, ph, wr) ==
  /\ \A x \in l.parts : ph[x[2]] # "off"
  /\ l.torn => \A x \in l.parts : wr[x[2]] # "open"
  /\ \A x, y \in l.parts : x # y => x[2] # y[2]

OwnLines == \A f \in Files : \A i \in DOMAIN file[f] : OwnLine(file[f][i], phase, writer)

Unstarted(p) == phase[p] = "off" => writer[p] = "none"

EInv ==
  /\ TypeOK /\ SendIsSafe
  /\ \A p \in Procs : Unstarted(p)
  /\ OwnLines

-----------------------------------------------------------------------------
\* What is appended becomes the last line, or part of it if it is torn; the lines before stay.
LEMMA AppendedLast ==
  ASSUME NEW old \in Seq(Line), NEW l \in Line
  PROVE  LET new == AppendLine(old, l)
             n   == Len(new)
         IN /\ new \in Seq(Line) /\ n \in Nat /\ n > 0
            /\ \A i \in 1 .. n - 1 : i \in 1 .. Len(old) /\ new[i] = old[i]
            /\ \/ n = Len(old) + 1 /\ new[n] = l
               \/ /\ n = Len(old) /\ old[n].torn
                  /\ new[n] = [parts |-> l.parts \cup old[n].parts, torn |-> l.torn]
<1>1. CASE old # <<>> /\ Last(old).torn
  <2> DEFINE n == Len(old)
             m == [parts |-> l.parts \cup old[n].parts, torn |-> l.torn]
  <2>1. n \in DOMAIN old /\ n \in Nat /\ n > 0 /\ old[n] \in Line /\ Last(old) = old[n]
    BY <1>1 DEF Last
  <2> HIDE DEF n
  <2>2. m \in Line
    BY <2>1 DEF Line
  <2>3. [l EXCEPT !.parts = l.parts \cup Last(old).parts] = m
    <3>1. \A x : [l EXCEPT !.parts = x] = [parts |-> x, torn |-> l.torn]
      BY DEF Line
    <3> QED BY <2>1, <3>1
  <2>4. /\ Front(old) \in Seq(Line) /\ Len(Front(old)) = n - 1
        /\ \A i \in 1 .. n - 1 : Front(old)[i] = old[i]
    <3>1. \A i \in 1 .. n - 1 : old[i] \in Line
      BY <2>1 DEF n
    <3>2. /\ SubSeq(old, 1, n - 1) \in Seq(Line)
          /\ Len(SubSeq(old, 1, n - 1)) = IF 1 <= n - 1 THEN n - 1 - 1 + 1 ELSE 0
          /\ \A i \in 1 .. n - 1 - 1 + 1 : SubSeq(old, 1, n - 1)[i] = old[1 + i - 1]
      <4>1. n - 1 \in Int /\ 1 \in Int
        BY <2>1
      <4> QED BY <3>1, <4>1, SubSeqProperties
    <3>3. Front(old) = SubSeq(old, 1, n - 1)
      BY DEF Front, n
    <3> QED BY <2>1, <3>2, <3>3
  <2>5. AppendLine(old, l) = Append(Front(old), m)
    BY <1>1, <2>3 DEF AppendLine
  <2> HIDE DEF m
  <2>6. /\ Append(Front(old), m) \in Seq(Line)
        /\ Len(Append(Front(old), m)) = n
        /\ Append(Front(old), m)[n] = m
        /\ \A i \in 1 .. n - 1 : Append(Front(old), m)[i] = old[i]
    BY <2>1, <2>2, <2>4
  <2>7. n = Len(old) /\ \A i \in 1 .. n - 1 : i \in 1 .. n
    BY <2>1 DEF n
  <2>8. m = [parts |-> l.parts \cup old[n].parts, torn |-> l.torn] /\ old[n].torn
    BY <1>1, <2>1 DEF m
  <2> QED BY <2>1, <2>5, <2>6, <2>7, <2>8
<1>2. CASE ~(old # <<>> /\ Last(old).torn)
  <2>1. AppendLine(old, l) = Append(old, l)
    BY <1>2 DEF AppendLine
  <2>2. /\ Append(old, l) \in Seq(Line) /\ Len(Append(old, l)) = Len(old) + 1
        /\ Append(old, l)[Len(old) + 1] = l /\ Len(old) \in Nat
        /\ \A i \in 1 .. Len(old) : Append(old, l)[i] = old[i]
    OBVIOUS
  <2> QED BY <2>1, <2>2
<1> QED BY <1>1, <1>2

LEMMA Appended ==
  ASSUME NEW old \in Seq(Line), NEW l \in Line
  PROVE  /\ AppendLine(old, l) \in Seq(Line)
         /\ \A i \in DOMAIN AppendLine(old, l) :
              \/ i \in DOMAIN old /\ AppendLine(old, l)[i] = old[i]
              \/ AppendLine(old, l)[i] = l
              \/ \E j \in DOMAIN old :
                   /\ old[j].torn
                   /\ AppendLine(old, l)[i] = [parts |-> l.parts \cup old[j].parts, torn |-> l.torn]
<1> DEFINE new == AppendLine(old, l)
           n   == Len(new)
<1>1. /\ new \in Seq(Line) /\ n \in Nat /\ n > 0
      /\ \A i \in 1 .. n - 1 : i \in 1 .. Len(old) /\ new[i] = old[i]
      /\ \/ n = Len(old) + 1 /\ new[n] = l
         \/ /\ n = Len(old) /\ old[n].torn
            /\ new[n] = [parts |-> l.parts \cup old[n].parts, torn |-> l.torn]
  BY AppendedLast
<1> HIDE DEF new
<1>2. DOMAIN old = 1 .. Len(old) /\ DOMAIN new = 1 .. n /\ Len(old) \in Nat
  BY <1>1
<1>3. \A i \in 1 .. n : i = n \/ i \in 1 .. n - 1
  BY <1>1
<1>4. n = Len(old) => n \in 1 .. Len(old)
  BY <1>1
<1>5. \A i \in DOMAIN new :
        \/ i \in DOMAIN old /\ new[i] = old[i]
        \/ new[i] = l
        \/ \E j \in DOMAIN old :
             old[j].torn /\ new[i] = [parts |-> l.parts \cup old[j].parts, torn |-> l.torn]
  BY <1>1, <1>2, <1>3, <1>4
<1> QED BY <1>1, <1>5 DEF new

LEMMA InitEInv ==
  ASSUME Init PROVE EInv
<1> USE EventsAssumption DEF EventsAssumption
<1>1. Len(Types) \in Nat
  OBVIOUS
<1>2. TypeOK
  <2>1. file \in [Files -> Seq(Line)] /\ path \in Files
    BY DEF Init, EvInit, Files
  <2> QED BY <1>1, <2>1 DEF Init, EvInit, TypeOK
<1>3. SendIsSafe /\ \A p \in Procs : Unstarted(p)
  BY DEF Init, EvInit, SendIsSafe, Unstarted
<1>4. OwnLines
  BY DEF Init, EvInit, OwnLines
<1> QED BY <1>2, <1>3, <1>4 DEF EInv

-----------------------------------------------------------------------------
(* Steps that leave the files.                                              *)

\* Nobody begins to write who had not, unless it had not started.
LEMMA LinesStay ==
  ASSUME EInv, UNCHANGED file,
         \A p \in Procs : phase[p] # "off" =>
           phase'[p] # "off" /\ (writer'[p] = "open" => writer[p] = "open")
  PROVE  OwnLines'
<1> SUFFICES ASSUME NEW f \in Files, NEW i \in DOMAIN file[f]
             PROVE  OwnLine(file[f][i], phase', writer')
  BY DEF Files, OwnLines
<1>1. OwnLine(file[f][i], phase, writer) /\ file[f][i] \in Line
  BY DEF EInv, TypeOK, OwnLines
<1>2. \A x \in file[f][i].parts : x[2] \in Procs
  BY <1>1 DEF Line
<1>3. \A x \in file[f][i].parts : phase[x[2]] # "off"
  BY <1>1 DEF OwnLine
<1>4. \A x \in file[f][i].parts :
        phase'[x[2]] # "off" /\ (writer'[x[2]] = "open" => writer[x[2]] = "open")
  BY <1>2, <1>3
<1> QED BY <1>1, <1>4 DEF OwnLine

LEMMA StartUpStep ==
  ASSUME EInv, NEW p \in Procs, StartUp(p) PROVE EInv'
<1>1. TypeOK'
  BY DEF EInv, TypeOK, StartUp
<1>2. SendIsSafe' /\ \A q \in Procs : Unstarted(q)'
  BY DEF EInv, TypeOK, StartUp, SendIsSafe, Unstarted
<1>3. OwnLines'
  <2>1. \A q \in Procs : phase[q] # "off" =>
          phase'[q] # "off" /\ (writer'[q] = "open" => writer[q] = "open")
    BY DEF EInv, TypeOK, StartUp
  <2> QED BY <2>1, LinesStay DEF StartUp
<1> QED BY <1>1, <1>2, <1>3 DEF EInv

LEMMA LeaveStep ==
  ASSUME EInv, NEW p \in Procs, Leave(p) PROVE EInv'
<1>1. TypeOK'
  BY DEF EInv, TypeOK, Leave
<1>2. SendIsSafe' /\ \A q \in Procs : Unstarted(q)'
  BY DEF EInv, TypeOK, Leave, SendIsSafe, Unstarted
<1>3. OwnLines'
  <2>1. \A q \in Procs : phase[q] # "off" =>
          phase'[q] # "off" /\ (writer'[q] = "open" => writer[q] = "open")
    BY DEF EInv, TypeOK, Leave
  <2> QED BY <2>1, LinesStay DEF Leave
<1> QED BY <1>1, <1>2, <1>3 DEF EInv

\* Nobody of p's is in emit when its queue is closed.
LEMMA CloseStep ==
  ASSUME EInv, NEW p \in Procs, Close(p) PROVE EInv'
<1>1. TypeOK'
  BY DEF EInv, TypeOK, Close
<1>2. SendIsSafe'
  BY EventsAssumption DEF EventsAssumption, EInv, TypeOK, Close, SendIsSafe
<1>3. \A q \in Procs : Unstarted(q)'
  BY DEF EInv, TypeOK, Close, Unstarted
<1>4. OwnLines'
  <2>1. \A q \in Procs : phase[q] # "off" =>
          phase'[q] # "off" /\ (writer'[q] = "open" => writer[q] = "open")
    BY DEF EInv, TypeOK, Close
  <2> QED BY <2>1, LinesStay DEF Close
<1> QED BY <1>1, <1>2, <1>3, <1>4 DEF EInv

LEMMA ExitStep ==
  ASSUME EInv, NEW p \in Procs, Exit(p) PROVE EInv'
<1>1. TypeOK'
  BY DEF EInv, TypeOK, Exit
<1>2. SendIsSafe'
  BY DEF EInv, Exit, SendIsSafe
<1>3. \A q \in Procs : Unstarted(q)'
  BY DEF EInv, TypeOK, Exit, Unstarted
<1>4. OwnLines'
  <2>1. \A q \in Procs : phase[q] # "off" =>
          phase'[q] # "off" /\ (writer'[q] = "open" => writer[q] = "open")
    BY DEF EInv, TypeOK, Exit
  <2> QED BY <2>1, LinesStay DEF Exit
<1> QED BY <1>1, <1>2, <1>3, <1>4 DEF EInv

\* Who enters emit has seen that the queue is not closed.
LEMMA EmitStep ==
  ASSUME EInv, NEW s \in Sessions, Emit(s) \/ Send(s) PROVE EInv'
<1>1. ProcOf[s] \in Procs /\ Len(Types) \in Nat
  BY EventsAssumption DEF EventsAssumption
<1>2. CASE Emit(s)
  <2>1. /\ session' \in [Sessions -> 0 .. Len(Types)] /\ inEmit' \subseteq Sessions
        /\ \A t \in inEmit' : session'[t] < Len(Types)
    <3>1. session \in [Sessions -> 0 .. Len(Types)] /\ session[s] < Len(Types) /\ s \notin inEmit
      BY <1>2 DEF EInv, TypeOK, Emit
    <3>2. session[s] + 1 \in 0 .. Len(Types)
      BY <1>1, <3>1
    <3>3. CASE session' = [session EXCEPT ![s] = session[s] + 1] /\ inEmit' = inEmit
      BY <3>1, <3>2, <3>3 DEF EInv, TypeOK
    <3>4. CASE inEmit' = inEmit \cup {s} /\ session' = session
      BY <3>1, <3>4 DEF EInv, TypeOK
    <3> QED BY <1>2, <3>3, <3>4 DEF Emit
  <2>4. TypeOK'
    BY <1>2, <2>1 DEF EInv, TypeOK, Emit
  <2>2. SendIsSafe' /\ \A q \in Procs : Unstarted(q)'
    BY <1>2 DEF EInv, Emit, SendIsSafe, Unstarted
  <2>3. OwnLines'
    BY <1>2, LinesStay DEF Emit
  <2> QED BY <2>2, <2>3, <2>4 DEF EInv
<1>3. CASE Send(s)
  <2> DEFINE e == <<s, session[s] + 1>>
             p == ProcOf[s]
  <2>1. session[s] \in 0 .. Len(Types) /\ session[s] < Len(Types)
    BY <1>3 DEF EInv, TypeOK, Send
  <2>2. session[s] + 1 \in 1 .. Len(Types) /\ session[s] + 1 \in 0 .. Len(Types)
    BY <1>1, <2>1
  <2>3. e \in Event
    BY <2>2 DEF Event
  <2> HIDE DEF e
  <2>4. queue' \in [Procs -> Seq(Event)]
    <3>1. queue' \in {queue, [queue EXCEPT ![p] = Append(queue[p], e)]}
      BY <1>3 DEF Send, e
    <3>2. queue \in [Procs -> Seq(Event)] /\ Append(queue[p], e) \in Seq(Event)
      BY <1>1, <2>3 DEF EInv, TypeOK
    <3> QED BY <3>1, <3>2
  <2>5. session' \in [Sessions -> 0 .. Len(Types)] /\ \A t \in inEmit' : session'[t] < Len(Types)
    BY <1>3, <2>2 DEF EInv, TypeOK, Send
  <2>6. TypeOK'
    BY <1>3, <2>4, <2>5 DEF EInv, TypeOK, Send
  <2>7. SendIsSafe' /\ \A q \in Procs : Unstarted(q)'
    BY <1>3 DEF EInv, Send, SendIsSafe, Unstarted
  <2>8. OwnLines'
    BY <1>3, LinesStay DEF Send
  <2> QED BY <2>6, <2>7, <2>8 DEF EInv
<1> QED BY <1>2, <1>3

LEMMA RotateStep ==
  ASSUME EInv, Rotate PROVE EInv'
<1>1. path' \in Files
  BY EventsAssumption DEF EventsAssumption, EInv, TypeOK, Rotate, Files
<1>2. TypeOK'
  BY <1>1 DEF EInv, TypeOK, Rotate
<1>3. SendIsSafe' /\ \A q \in Procs : Unstarted(q)'
  BY DEF EInv, Rotate, SendIsSafe, Unstarted
<1>4. OwnLines'
  BY LinesStay DEF Rotate
<1> QED BY <1>2, <1>3, <1>4 DEF EInv

-----------------------------------------------------------------------------
(* Steps of the writer.                                                     *)

LEMMA Taken ==
  ASSUME EInv, NEW p \in Procs, Takes(p)
  PROVE  queue' \in [Procs -> Seq(Event)] /\ Head(queue[p]) \in Event
BY HeadTailProperties DEF EInv, TypeOK, Takes

\* A line of p's may run into a torn one, which is not p's, or p would have stopped.
LEMMA WriterStep ==
  ASSUME EInv, NEW p \in Procs, Takes(p), writer[p] = "open",
         NEW e \in Event, NEW torn \in BOOLEAN,
         file' = [file EXCEPT ![fd[p]] = AppendLine(file[fd[p]], [parts |-> {<<e, p>>}, torn |-> torn])],
         writer' = IF torn THEN [writer EXCEPT ![p] = "failed"] ELSE writer,
         failures' \in Nat
  PROVE  EInv'
<1> DEFINE l   == [parts |-> {<<e, p>>}, torn |-> torn]
           old == file[fd[p]]
           new == AppendLine(old, l)
<1>1. l \in Line /\ fd[p] \in Files /\ old \in Seq(Line)
  <2>1. {<<e, p>>} \in SUBSET (Event \X Procs)
    OBVIOUS
  <2>2. l \in Line
    BY <2>1 DEF Line
  <2> QED BY <2>2 DEF EInv, TypeOK
<1> HIDE DEF l, old
<1>2. /\ new \in Seq(Line)
      /\ \A i \in DOMAIN new :
           \/ i \in DOMAIN old /\ new[i] = old[i]
           \/ new[i] = l
           \/ \E j \in DOMAIN old :
                old[j].torn /\ new[i] = [parts |-> l.parts \cup old[j].parts, torn |-> l.torn]
  BY <1>1, Appended
<1>3. file' = [file EXCEPT ![fd[p]] = new]
  BY DEF l, old
<1> HIDE DEF new
<1>4. UNCHANGED <<phase, session, inEmit, closed, fd, path>> /\ queue' \in [Procs -> Seq(Event)]
  BY Taken DEF Takes
<1>5. writer' \in [Procs -> {"none", "open", "failed"}]
      /\ \A q \in Procs : writer'[q] = "open" => writer[q] = "open"
  BY DEF EInv, TypeOK
<1>6. file' \in [Files -> Seq(Line)]
  BY <1>2, <1>3 DEF EInv, TypeOK
<1>7. TypeOK'
  BY <1>4, <1>5, <1>6 DEF EInv, TypeOK
<1>8. SendIsSafe'
  BY <1>4 DEF EInv, SendIsSafe
<1>9. \A q \in Procs : Unstarted(q)'
  BY <1>4 DEF EInv, TypeOK, Unstarted
<1>10. ASSUME NEW x \in Line, OwnLine(x, phase, writer) PROVE OwnLine(x, phase', writer')
  <2>1. \A y \in x.parts : y[2] \in Procs
    BY DEF Line
  <2> QED BY <1>4, <1>5, <1>10, <2>1 DEF OwnLine
<1>11. \A i \in DOMAIN old : old[i] \in Line /\ OwnLine(old[i], phase, writer)
  BY <1>1 DEF EInv, TypeOK, OwnLines, old
<1>12. phase'[p] # "off" /\ (torn => writer'[p] # "open")
  BY <1>4 DEF EInv, TypeOK, Unstarted
<1>13. l.parts = {<<e, p>>} /\ l.torn = torn
  BY DEF l
<1>14. OwnLine(l, phase', writer')
  BY <1>12, <1>13 DEF OwnLine
<1>15. ASSUME NEW j \in DOMAIN old, old[j].torn
       PROVE  OwnLine([parts |-> l.parts \cup old[j].parts, torn |-> l.torn], phase', writer')
  <2>1. /\ old[j] \in Line /\ OwnLine(old[j], phase, writer)
        /\ OwnLine(old[j], phase', writer')
    BY <1>10, <1>11
  <2>2. \A x \in old[j].parts : x[2] # p
    BY <1>15, <2>1 DEF OwnLine
  <2>3. \A x \in old[j].parts : phase'[x[2]] # "off" /\ writer'[x[2]] # "open"
    BY <1>15, <2>1 DEF OwnLine
  <2>4. \A x, y \in old[j].parts : x # y => x[2] # y[2]
    BY <2>1 DEF OwnLine
  <2> QED BY <1>12, <1>13, <2>2, <2>3, <2>4 DEF OwnLine
<1>16. \A i \in DOMAIN new : OwnLine(new[i], phase', writer')
  BY <1>2, <1>10, <1>11, <1>14, <1>15
<1>17. ASSUME NEW f \in Files, NEW i \in DOMAIN file'[f] PROVE OwnLine(file'[f][i], phase', writer')
  <2>1. CASE f = fd[p]
    BY <1>1, <1>3, <1>16, <1>17, <2>1 DEF EInv, TypeOK
  <2>2. CASE f # fd[p]
    <3>1. file'[f] = file[f] /\ file[f][i] \in Line /\ OwnLine(file[f][i], phase, writer)
      BY <1>3, <1>17, <2>2 DEF EInv, TypeOK, OwnLines
    <3> QED BY <1>10, <3>1
  <2> QED BY <2>1, <2>2
<1>18. OwnLines'
  BY <1>17 DEF OwnLines, Files
<1> QED BY <1>7, <1>8, <1>9, <1>18 DEF EInv

LEMMA WriteStep ==
  ASSUME EInv, NEW p \in Procs, Write(p) PROVE EInv'
<1>1. Takes(p) /\ Head(queue[p]) \in Event
  BY Taken DEF Write
<1>2. file' = [file EXCEPT ![fd[p]] = AppendLine(file[fd[p]],
                 [parts |-> {<<Head(queue[p]), p>>}, torn |-> FALSE])]
  BY DEF Write, Whole
<1>3. failures' \in Nat /\ writer[p] = "open" /\ writer' = writer
  BY DEF EInv, TypeOK, Write
<1> QED BY <1>1, <1>2, <1>3, WriterStep

\* A writer that leaves the files and stops, or goes on discarding.
LEMMA SilentStep ==
  ASSUME EInv, NEW p \in Procs, Takes(p), UNCHANGED file, failures' \in Nat,
         writer' \in {writer, [writer EXCEPT ![p] = "failed"]}, writer[p] # "none"
  PROVE  EInv'
<1>1. UNCHANGED <<phase, session, inEmit, closed, fd, path>> /\ queue' \in [Procs -> Seq(Event)]
  BY Taken DEF Takes
<1>2. TypeOK'
  BY <1>1 DEF EInv, TypeOK
<1>3. SendIsSafe'
  BY <1>1 DEF EInv, SendIsSafe
<1>4. \A q \in Procs : Unstarted(q)'
  BY <1>1 DEF EInv, TypeOK, Unstarted
<1>5. OwnLines'
  <2>1. \A q \in Procs : phase[q] # "off" =>
          phase'[q] # "off" /\ (writer'[q] = "open" => writer[q] = "open")
    BY <1>1 DEF EInv, TypeOK
  <2> QED BY <2>1, LinesStay
<1> QED BY <1>2, <1>3, <1>4, <1>5 DEF EInv

LEMMA WriteFailsStep ==
  ASSUME EInv, NEW p \in Procs, WriteFails(p) PROVE EInv'
<1>1. Takes(p) /\ Head(queue[p]) \in Event
  BY Taken DEF WriteFails
<1>2. failures' \in Nat /\ writer[p] = "open" /\ writer' = [writer EXCEPT ![p] = "failed"]
  BY DEF EInv, TypeOK, WriteFails
<1>3. CASE UNCHANGED file
  BY <1>1, <1>2, <1>3, SilentStep
<1>4. CASE file' = [file EXCEPT ![fd[p]] = AppendLine(@, Torn(Head(queue[p]), p))]
  <2>1. file' = [file EXCEPT ![fd[p]] = AppendLine(file[fd[p]],
                   [parts |-> {<<Head(queue[p]), p>>}, torn |-> TRUE])]
    BY <1>4 DEF Torn
  <2> QED BY <1>1, <1>2, <2>1, WriterStep
<1> QED BY <1>3, <1>4 DEF WriteFails

LEMMA DiscardStep ==
  ASSUME EInv, NEW p \in Procs, Discard(p) PROVE EInv'
<1>1. Takes(p) /\ writer[p] # "none" /\ UNCHANGED <<writer, file>> /\ failures' \in Nat
  BY DEF EInv, TypeOK, Discard
<1> QED BY <1>1, SilentStep

-----------------------------------------------------------------------------
LEMMA QuietStep ==
  ASSUME EInv, UNCHANGED evVars PROVE EInv'
<1> USE DEF evVars
<1>1. TypeOK' /\ SendIsSafe'
  BY DEF EInv, TypeOK, SendIsSafe
<1>2. \A q \in Procs : Unstarted(q)'
  BY DEF EInv, Unstarted
<1>3. OwnLines'
  BY LinesStay
<1> QED BY <1>1, <1>2, <1>3 DEF EInv

\* The inductive invariant holds, whatever is dropped, fails, rotates or is handed over.
THEOREM Invariance == Spec => []EInv
<1>1. Init => EInv
  BY InitEInv
<1>2. EInv /\ [Next]_vars => EInv'
  <2> SUFFICES ASSUME EInv, [Next]_vars PROVE EInv'
    OBVIOUS
  <2>1. CASE EvNext
    <3>1. ASSUME NEW p \in Procs,
                 \/ StartUp(p) \/ Leave(p) \/ Close(p) \/ Exit(p)
                 \/ Write(p) \/ WriteFails(p) \/ Discard(p)
          PROVE  EInv'
      BY <3>1, StartUpStep, LeaveStep, CloseStep, ExitStep, WriteStep, WriteFailsStep, DiscardStep
    <3> QED BY <2>1, <3>1, EmitStep, RotateStep DEF EvNext
  <2>2. CASE UNCHANGED evVars
    BY <2>2, QuietStep
  <2> QED BY <2>1, <2>2 DEF Next, Read, Parse, vars, evVars
<1> QED BY <1>1, <1>2, PTL DEF Spec

\* emit never sends on the channel that Close has closed.
THEOREM NoSendOnClosed == Spec => []SendIsSafe
<1>1. EInv => SendIsSafe
  BY DEF EInv
<1> QED BY <1>1, Invariance, PTL

\* A line of the event file that holds parts of two events holds those of two processes:
\* after an error the writer's loop writes nothing more.
THEOREM TornByOneProcess == Spec => []GarbledByAnother
<1>1. EInv => GarbledByAnother
  BY DEF EInv, OwnLines, OwnLine, GarbledByAnother
<1> QED BY <1>1, Invariance, PTL

-----------------------------------------------------------------------------
(* Order.  What is queued of a session comes after what is written of it,   *)
(* and all of it is in the file that its process has open.                  *)

\* An event is one of a process's own sessions, which has emitted it.
Sound(x, sn) == ProcOf[x[1][1]] = x[2] /\ x[1][2] <= sn[x[1][1]]

Precedes(x, y) == x[1][1] = y[1][1] => x[1][2] < y[1][2]

LinesInOrder(ls) ==
  \A i, j \in DOMAIN ls : i < j => \A x \in ls[i].parts, y \in ls[j].parts : Precedes(x, y)

Filled(ls) == \A i \in DOMAIN ls : ls[i].parts # {}

QueueInOrder(q, p, sn) ==
  \A i \in DOMAIN q :
    /\ ProcOf[q[i][1]] = p /\ q[i][2] <= sn[q[i][1]]
    /\ \A j \in DOMAIN q : i < j /\ q[j][1] = q[i][1] => q[i][2] < q[j][2]

\* x precedes what q holds of its session.
BeforeQueue(x, q) == \A k \in DOMAIN q : q[k][1] = x[1][1] => x[1][2] < q[k][2]

Written(f) ==
  /\ LinesInOrder(file[f]) /\ Filled(file[f])
  /\ \A i \in DOMAIN file[f] : \A x \in file[f][i].parts :
       Sound(x, session) /\ fd[x[2]] = f /\ BeforeQueue(x, queue[x[2]])

OrderInv ==
  /\ \A p \in Procs : QueueInOrder(queue[p], p, session)
  /\ \A f \in Files : Written(f)

LEMMA PartTypes ==
  ASSUME NEW l \in Line, NEW x \in l.parts
  PROVE  /\ x[1] \in Event /\ x[1][1] \in Sessions /\ x[1][2] \in Nat /\ x[2] \in Procs
         /\ x = <<x[1], x[2]>> /\ x[1] = <<x[1][1], x[1][2]>> /\ x[1][2] <= Len(Types)
  BY EventsAssumption DEF Line, Event, EventsAssumption

\* Sessions only go on.
LEMMA OrderStays ==
  ASSUME EInv, OrderInv, UNCHANGED file,
         session' \in [Sessions -> Nat], \A s \in Sessions : session[s] <= session'[s],
         \A p \in Procs : phase[p] # "off" => fd'[p] = fd[p],
         \A p \in Procs : queue'[p] = queue[p] \/ queue'[p] = <<>>
  PROVE  OrderInv'
<1>1. \A f \in Files : \A i \in DOMAIN file[f] : file[f][i] \in Line /\ OwnLine(file[f][i], phase, writer)
  BY DEF EInv, TypeOK, OwnLines
<1>2. ASSUME NEW p \in Procs PROVE QueueInOrder(queue'[p], p, session')
  <2>1. QueueInOrder(queue[p], p, session) /\ queue[p] \in Seq(Event)
    BY DEF OrderInv, EInv, TypeOK
  <2>2. \A i \in DOMAIN queue[p] : queue[p][i][1] \in Sessions /\ queue[p][i][2] \in Nat
    BY <2>1, EventsAssumption DEF Event, EventsAssumption
  <2>3. \A s \in Sessions : session[s] \in Nat
    BY DEF EInv, TypeOK
  <2>4. CASE queue'[p] = <<>>
    BY <2>4 DEF QueueInOrder
  <2>5. CASE queue'[p] = queue[p]
    <3>1. ASSUME NEW i \in DOMAIN queue[p] PROVE queue[p][i][2] <= session'[queue[p][i][1]]
      <4>1. queue[p][i][2] <= session[queue[p][i][1]]
        BY <2>1 DEF QueueInOrder
      <4>2. session[queue[p][i][1]] <= session'[queue[p][i][1]] /\ session'[queue[p][i][1]] \in Nat
        BY <2>2
      <4> QED BY <2>2, <2>3, <4>1, <4>2
    <3> QED BY <2>1, <2>5, <3>1 DEF QueueInOrder
  <2> QED BY <2>4, <2>5
<1>3. ASSUME NEW f \in Files, NEW i \in DOMAIN file[f], NEW x \in file[f][i].parts
      PROVE  Sound(x, session') /\ fd'[x[2]] = f /\ BeforeQueue(x, queue'[x[2]])
  <2>1. x[2] \in Procs /\ x[1][1] \in Sessions /\ x[1][2] \in Nat /\ phase[x[2]] # "off"
    BY <1>1, PartTypes DEF OwnLine
  <2>2. Sound(x, session) /\ fd[x[2]] = f /\ BeforeQueue(x, queue[x[2]])
    BY DEF OrderInv, Written
  <2>3. session[x[1][1]] \in Nat /\ session'[x[1][1]] \in Nat
    BY <2>1 DEF EInv, TypeOK
  <2> QED BY <2>1, <2>2, <2>3 DEF Sound, BeforeQueue
<1>4. \A f \in Files : LinesInOrder(file[f]) /\ Filled(file[f])
  BY DEF OrderInv, Written
<1> QED BY <1>2, <1>3, <1>4 DEF OrderInv, Written, Files

\* What a handler sends comes after all that its session has emitted.
LEMMA SendOrder ==
  ASSUME EInv, OrderInv, NEW s \in Sessions, Send(s)
  PROVE  OrderInv'
<1> DEFINE p == ProcOf[s]
           e == <<s, session[s] + 1>>
<1>1. /\ p \in Procs /\ session[s] \in Nat /\ s \in inEmit
      /\ session \in [Sessions -> 0 .. Len(Types)] /\ Len(Types) \in Nat
      /\ session' = [session EXCEPT ![s] = session[s] + 1]
      /\ queue \in [Procs -> Seq(Event)] /\ UNCHANGED <<file, phase, fd>>
  <2>1. p \in Procs /\ Len(Types) \in Nat
    BY EventsAssumption DEF EventsAssumption
  <2>2. session \in [Sessions -> 0 .. Len(Types)] /\ queue \in [Procs -> Seq(Event)]
    BY DEF EInv, TypeOK
  <2>3. s \in inEmit /\ session' = [session EXCEPT ![s] = session[s] + 1] /\ UNCHANGED <<file, phase, fd>>
    BY DEF Send
  <2> HIDE DEF p
  <2>4. session[s] \in Nat
    BY <2>1, <2>2
  <2> QED BY <2>1, <2>2, <2>3, <2>4
<1>2. session' \in [Sessions -> Nat] /\ \A t \in Sessions : session[t] <= session'[t] /\ session[t] \in Nat
  BY <1>1
<1>3. session'[s] = session[s] + 1
  BY <1>1
<1>4. CASE queue' = queue
  BY <1>1, <1>2, <1>4, OrderStays
<1>5. CASE queue' = [queue EXCEPT ![p] = Append(queue[p], e)]
  <2> DEFINE q == queue[p]
             n == Len(queue[p])
  <2>1. /\ q \in Seq(Event) /\ n \in Nat /\ queue'[p] = Append(q, e)
        /\ \A r \in Procs \ {p} : queue'[r] = queue[r]
    BY <1>1, <1>5
  <2>2. /\ DOMAIN queue'[p] = 1 .. n + 1 /\ queue'[p][n + 1] = e
        /\ \A i \in 1 .. n : queue'[p][i] = q[i]
        /\ DOMAIN q = 1 .. n
    BY <2>1
  <2>3. \A i \in 1 .. n + 1 : i = n + 1 \/ i \in 1 .. n
    BY <2>1
  <2>4. \A r \in Procs : QueueInOrder(queue[r], r, session')
    <3> SUFFICES ASSUME NEW r \in Procs PROVE QueueInOrder(queue[r], r, session')
      OBVIOUS
    <3>1. QueueInOrder(queue[r], r, session) /\ queue[r] \in Seq(Event)
      BY <1>1 DEF OrderInv
    <3>2. \A i \in DOMAIN queue[r] : queue[r][i][1] \in Sessions /\ queue[r][i][2] \in Nat
      BY <3>1, <1>1 DEF Event
    <3>3. ASSUME NEW i \in DOMAIN queue[r] PROVE queue[r][i][2] <= session'[queue[r][i][1]]
      <4>1. queue[r][i][2] <= session[queue[r][i][1]]
        BY <3>1 DEF QueueInOrder
      <4> QED BY <1>2, <3>2, <4>1
    <3> QED BY <3>1, <3>3 DEF QueueInOrder
  <2>5. e[1] = s /\ e[2] = session[s] + 1 /\ ProcOf[e[1]] = p /\ e[2] <= session'[e[1]]
    BY <1>1, <1>3
  <2>6. \A i \in 1 .. n : q[i][1] = s => q[i][2] < e[2]
    <3> SUFFICES ASSUME NEW i \in 1 .. n, q[i][1] = s PROVE q[i][2] < e[2]
      OBVIOUS
    <3>1. q[i][2] <= session[s] /\ q[i] \in Event
      BY <1>1, <2>1, <2>2 DEF OrderInv, QueueInOrder
    <3>2. q[i][2] \in Nat
      BY <1>1, <3>1 DEF Event
    <3> QED BY <1>1, <2>5, <3>1, <3>2
  <2> HIDE DEF e, q
  <2>7. QueueInOrder(queue'[p], p, session')
    <3> DEFINE u == queue'[p]
    <3>1. QueueInOrder(q, p, session')
      BY <1>1, <2>4 DEF q
    <3>2. ASSUME NEW i \in 1 .. n + 1
          PROVE  ProcOf[u[i][1]] = p /\ u[i][2] <= session'[u[i][1]]
      BY <2>2, <2>3, <2>5, <3>1 DEF QueueInOrder
    <3>3. ASSUME NEW i \in 1 .. n + 1, NEW j \in 1 .. n + 1, i < j, u[j][1] = u[i][1]
          PROVE  u[i][2] < u[j][2]
      <4>1. i \in 1 .. n
        BY <2>1, <3>3
      <4>2. CASE j \in 1 .. n
        BY <2>2, <3>1, <3>3, <4>1, <4>2 DEF QueueInOrder
      <4>3. CASE j = n + 1
        BY <2>2, <2>5, <2>6, <3>3, <4>1, <4>3
      <4> QED BY <2>3, <4>2, <4>3
    <3> HIDE DEF u
    <3>4. DOMAIN u = 1 .. n + 1
      BY <2>2 DEF u
    <3>5. QueueInOrder(u, p, session')
      BY <3>2, <3>3, <3>4 DEF QueueInOrder
    <3> QED BY <3>5 DEF u
  <2>8. \A r \in Procs : QueueInOrder(queue'[r], r, session')
    BY <2>1, <2>4, <2>7
  <2>9. ASSUME NEW f \in Files, NEW i \in DOMAIN file[f], NEW x \in file[f][i].parts
        PROVE  Sound(x, session') /\ fd'[x[2]] = f /\ BeforeQueue(x, queue'[x[2]])
    <3>1. file[f][i] \in Line
      BY DEF EInv, TypeOK
    <3>2. x[2] \in Procs /\ x[1][1] \in Sessions /\ x[1][2] \in Nat
      BY <3>1, PartTypes
    <3>3. Sound(x, session) /\ fd[x[2]] = f /\ BeforeQueue(x, queue[x[2]])
      BY DEF OrderInv, Written
    <3>4. Sound(x, session')
      BY <1>2, <3>2, <3>3 DEF Sound
    <3>5. x[1][1] = s => x[1][2] < e[2]
      BY <1>1, <2>5, <3>2, <3>3 DEF Sound
    <3>6. BeforeQueue(x, queue'[x[2]])
      <4>1. CASE x[2] = p
        BY <2>2, <2>3, <2>5, <3>3, <3>5, <4>1 DEF BeforeQueue, q
      <4>2. CASE x[2] # p
        BY <2>1, <3>2, <3>3, <4>2
      <4> QED BY <4>1, <4>2
    <3> QED BY <1>1, <3>3, <3>4, <3>6
  <2>10. \A f \in Files : LinesInOrder(file[f]) /\ Filled(file[f])
    BY DEF OrderInv, Written
  <2> QED BY <1>1, <2>8, <2>9, <2>10 DEF OrderInv, Written, Files
<1> QED BY <1>4, <1>5 DEF Send

\* What the writer takes is the oldest of the queue; the rest stays in order.
LEMMA HeadOrder ==
  ASSUME EInv, OrderInv, NEW p \in Procs, Takes(p)
  PROVE  /\ UNCHANGED <<session, fd, phase>>
         /\ \A r \in Procs : QueueInOrder(queue'[r], r, session)
         /\ \A x : \A r \in Procs : BeforeQueue(x, queue[r]) => BeforeQueue(x, queue'[r])
         /\ 1 \in DOMAIN queue[p] /\ queue[p][1] = Head(queue[p]) /\ Head(queue[p]) \in Event
         /\ Sound(<<Head(queue[p]), p>>, session)
         /\ BeforeQueue(<<Head(queue[p]), p>>, queue'[p])
<1> DEFINE q == queue[p]
           t == Tail(queue[p])
           h == Head(queue[p])
<1>1. /\ q \in Seq(Event) /\ q # <<>> /\ UNCHANGED <<session, fd, phase>>
      /\ queue' = [queue EXCEPT ![p] = t] /\ queue \in [Procs -> Seq(Event)]
  BY DEF EInv, TypeOK, Takes
<1>2. /\ t \in Seq(Event) /\ Len(t) = Len(q) - 1 /\ Len(q) \in Nat /\ Len(q) > 0
      /\ \A i \in 1 .. Len(t) : t[i] = q[i + 1]
      /\ h = q[1] /\ h \in Event
  BY <1>1, HeadTailProperties
<1>3. /\ DOMAIN q = 1 .. Len(q) /\ DOMAIN t = 1 .. Len(t) /\ 1 \in DOMAIN q
      /\ \A i \in DOMAIN t : i \in Nat /\ i + 1 \in DOMAIN q /\ 1 < i + 1 /\ t[i] = q[i + 1]
  BY <1>1, <1>2
<1>4. queue'[p] = t /\ \A r \in Procs \ {p} : queue'[r] = queue[r]
  BY <1>1
<1>5. QueueInOrder(q, p, session)
  BY DEF OrderInv
<1> HIDE DEF q, t, h
<1>6. QueueInOrder(t, p, session)
  <2>1. \A i \in DOMAIN t : ProcOf[t[i][1]] = p /\ t[i][2] <= session[t[i][1]]
    BY <1>3, <1>5 DEF QueueInOrder
  <2>2. ASSUME NEW i \in DOMAIN t, NEW j \in DOMAIN t, i < j, t[j][1] = t[i][1]
        PROVE  t[i][2] < t[j][2]
    <3>1. i + 1 < j + 1
      BY <1>3, <2>2
    <3> QED BY <1>3, <1>5, <2>2, <3>1 DEF QueueInOrder
  <2> QED BY <2>1, <2>2 DEF QueueInOrder
<1>7. \A r \in Procs : QueueInOrder(queue'[r], r, session)
  BY <1>4, <1>6 DEF OrderInv
<1>8. \A x : \A r \in Procs : BeforeQueue(x, queue[r]) => BeforeQueue(x, queue'[r])
  <2>1. \A x : BeforeQueue(x, q) => BeforeQueue(x, t)
    BY <1>3 DEF BeforeQueue
  <2> QED BY <1>4, <2>1 DEF q
<1>9. Sound(<<h, p>>, session)
  BY <1>2, <1>3, <1>5 DEF QueueInOrder, Sound
<1>10. BeforeQueue(<<h, p>>, t)
  BY <1>2, <1>3, <1>5 DEF QueueInOrder, BeforeQueue
<1> QED BY <1>1, <1>2, <1>3, <1>4, <1>7, <1>8, <1>9, <1>10 DEF q, h

\* An event that is lost.
LEMMA DropOrder ==
  ASSUME EInv, OrderInv, NEW p \in Procs, Takes(p), UNCHANGED file
  PROVE  OrderInv'
<1>1. /\ UNCHANGED <<session, fd, phase>>
      /\ \A r \in Procs : QueueInOrder(queue'[r], r, session)
      /\ \A x : \A r \in Procs : BeforeQueue(x, queue[r]) => BeforeQueue(x, queue'[r])
  BY HeadOrder
<1>2. ASSUME NEW f \in Files, NEW i \in DOMAIN file[f], NEW x \in file[f][i].parts
      PROVE  Sound(x, session) /\ fd[x[2]] = f /\ BeforeQueue(x, queue'[x[2]])
  <2>1. file[f][i] \in Line
    BY DEF EInv, TypeOK
  <2>2. x[2] \in Procs
    BY <2>1, PartTypes
  <2> QED BY <1>1, <2>2 DEF OrderInv, Written
<1>3. \A f \in Files : LinesInOrder(file[f]) /\ Filled(file[f])
  BY DEF OrderInv, Written
<1> QED BY <1>1, <1>2, <1>3 DEF OrderInv, Written, Files

\* An event that reaches the file, whole or torn, comes after what is there of its session.
LEMMA WriterOrder ==
  ASSUME EInv, OrderInv, NEW p \in Procs, Takes(p), writer[p] = "open", NEW torn \in BOOLEAN,
         file' = [file EXCEPT ![fd[p]] =
                    AppendLine(file[fd[p]], [parts |-> {<<Head(queue[p]), p>>}, torn |-> torn])]
  PROVE  OrderInv'
<1> DEFINE h   == <<Head(queue[p]), p>>
           l   == [parts |-> {<<Head(queue[p]), p>>}, torn |-> torn]
           old == file[fd[p]]
           new == AppendLine(file[fd[p]], [parts |-> {<<Head(queue[p]), p>>}, torn |-> torn])
           n   == Len(new)
<1>1. /\ UNCHANGED <<session, fd, phase>>
      /\ \A r \in Procs : QueueInOrder(queue'[r], r, session)
      /\ \A x : \A r \in Procs : BeforeQueue(x, queue[r]) => BeforeQueue(x, queue'[r])
      /\ 1 \in DOMAIN queue[p] /\ queue[p][1] = h[1] /\ h[1] \in Event
      /\ Sound(h, session) /\ BeforeQueue(h, queue'[p]) /\ h[2] = p
  BY HeadOrder
<1>2. l \in Line /\ fd[p] \in Files /\ old \in Seq(Line)
  <2>1. {h} \in SUBSET (Event \X Procs)
    BY <1>1
  <2>2. l \in Line
    BY <2>1 DEF Line
  <2> QED BY <2>2 DEF EInv, TypeOK
<1>3. l.parts = {h}
  OBVIOUS
<1>4. /\ new \in Seq(Line) /\ n \in Nat /\ n > 0
      /\ \A i \in 1 .. n - 1 : i \in 1 .. Len(old) /\ new[i] = old[i]
      /\ \/ n = Len(old) + 1 /\ new[n] = l
         \/ /\ n = Len(old) /\ old[n].torn
            /\ new[n] = [parts |-> l.parts \cup old[n].parts, torn |-> l.torn]
  <2> HIDE DEF l, old
  <2>1. new = AppendLine(old, l)
    BY DEF old, l
  <2> HIDE DEF new
  <2> QED BY <1>2, <2>1, AppendedLast
<1>5. file' = [file EXCEPT ![fd[p]] = new] /\ file \in [Files -> Seq(Line)]
  BY DEF EInv, TypeOK
<1>6. Written(fd[p])
  BY <1>2 DEF OrderInv
<1>7. \A x : x \in {h} => x = h
  OBVIOUS
<1> HIDE DEF h, l, new
<1>8. DOMAIN old = 1 .. Len(old) /\ DOMAIN new = 1 .. n /\ Len(old) \in Nat
  BY <1>2, <1>4
<1> HIDE DEF old, n
<1>9. \A i \in 1 .. n : i = n \/ i \in 1 .. n - 1
  BY <1>4
<1>10. /\ h \in new[n].parts
       /\ \A x \in new[n].parts : x = h \/ (n \in 1 .. Len(old) /\ x \in old[n].parts)
  <2>1. CASE new[n] = l
    BY <1>3, <1>7, <2>1
  <2>2. CASE n = Len(old) /\ new[n] = [parts |-> l.parts \cup old[n].parts, torn |-> l.torn]
    <3>1. n \in 1 .. Len(old)
      BY <1>4, <2>2
    <3> QED BY <1>3, <1>7, <2>2, <3>1
  <2> QED BY <1>4, <2>1, <2>2
<1>11. /\ LinesInOrder(old) /\ Filled(old)
       /\ \A i \in 1 .. Len(old) : \A x \in old[i].parts :
            Sound(x, session) /\ fd[x[2]] = fd[p] /\ BeforeQueue(x, queue[x[2]])
  BY <1>6, <1>8 DEF Written, old
<1>12. \A i \in 1 .. Len(old) : \A x \in old[i].parts : x[2] \in Procs /\ Precedes(x, h)
  <2> SUFFICES ASSUME NEW i \in 1 .. Len(old), NEW x \in old[i].parts
               PROVE  x[2] \in Procs /\ Precedes(x, h)
    OBVIOUS
  <2>1. old[i] \in Line
    BY <1>2, <1>8
  <2>2. x[2] \in Procs
    BY <2>1, PartTypes
  <2>3. Sound(x, session) /\ BeforeQueue(x, queue[x[2]])
    BY <1>11
  <2>4. x[1][1] = h[1][1] => x[2] = p
    BY <1>1, <2>3 DEF Sound
  <2> QED BY <1>1, <2>2, <2>3, <2>4 DEF Precedes, BeforeQueue
<1>13. LinesInOrder(new)
  <2> SUFFICES ASSUME NEW i \in 1 .. n, NEW j \in 1 .. n, i < j,
                      NEW x \in new[i].parts, NEW y \in new[j].parts
               PROVE  Precedes(x, y)
    BY <1>8 DEF LinesInOrder
  <2>1. i \in 1 .. Len(old) /\ x \in old[i].parts
    BY <1>4, <1>9
  <2>2. y = h \/ (j \in 1 .. Len(old) /\ y \in old[j].parts)
    BY <1>4, <1>9, <1>10
  <2> QED BY <1>8, <1>11, <1>12, <2>1, <2>2 DEF LinesInOrder
<1>14. \A i \in 1 .. n : \A x \in new[i].parts :
         x = h \/ \E k \in 1 .. Len(old) : x \in old[k].parts
  BY <1>4, <1>9, <1>10
<1>15. \A i \in 1 .. n : new[i].parts # {}
  BY <1>4, <1>8, <1>9, <1>10, <1>11 DEF Filled
<1>16. \A i \in 1 .. n : \A x \in new[i].parts :
         Sound(x, session) /\ fd[x[2]] = fd[p] /\ BeforeQueue(x, queue'[x[2]])
  BY <1>1, <1>11, <1>12, <1>14
<1>17. ASSUME NEW f \in Files
       PROVE  /\ LinesInOrder(file'[f]) /\ Filled(file'[f])
              /\ \A i \in DOMAIN file'[f] : \A x \in file'[f][i].parts :
                   Sound(x, session) /\ fd[x[2]] = f /\ BeforeQueue(x, queue'[x[2]])
  <2>1. CASE f = fd[p]
    <3>1. file'[f] = new
      BY <1>2, <1>5, <2>1
    <3> QED BY <1>8, <1>13, <1>15, <1>16, <2>1, <3>1 DEF Filled
  <2>2. CASE f # fd[p]
    <3>1. file'[f] = file[f] /\ Written(f)
      BY <1>5, <2>2 DEF OrderInv
    <3>2. ASSUME NEW i \in DOMAIN file[f], NEW x \in file[f][i].parts PROVE x[2] \in Procs
      <4>1. file[f][i] \in Line
        BY <1>5
      <4> QED BY <4>1, PartTypes
    <3> QED BY <1>1, <3>1, <3>2 DEF Written
  <2> QED BY <2>1, <2>2
<1>18. ASSUME NEW f \in Files PROVE Written(f)'
  BY <1>1, <1>17 DEF Written
<1>19. \A r \in Procs : QueueInOrder(queue[r], r, session)'
  BY <1>1
<1> QED BY <1>18, <1>19 DEF OrderInv, Files

LEMMA OrderInit ==
  ASSUME Init PROVE OrderInv
BY DEF Init, EvInit, OrderInv, QueueInOrder, Written, LinesInOrder, Filled

LEMMA SessionsKept ==
  ASSUME EInv, UNCHANGED session
  PROVE  session' \in [Sessions -> Nat] /\ \A s \in Sessions : session[s] <= session'[s]
<1>1. session \in [Sessions -> 0 .. Len(Types)] /\ Len(Types) \in Nat
  BY EventsAssumption DEF EventsAssumption, EInv, TypeOK
<1> QED BY <1>1

LEMMA OrderStep ==
  ASSUME EInv, OrderInv, EvNext PROVE OrderInv'
<1>1. ASSUME NEW p \in Procs, StartUp(p) PROVE OrderInv'
  <2>1. UNCHANGED <<file, session, queue>> /\ \A r \in Procs : phase[r] # "off" => fd'[r] = fd[r]
    BY <1>1 DEF EInv, TypeOK, StartUp
  <2> QED BY <2>1, SessionsKept, OrderStays
<1>2. ASSUME NEW p \in Procs, Leave(p) \/ Close(p) PROVE OrderInv'
  <2>1. UNCHANGED <<file, session, queue, fd>>
    BY <1>2 DEF Leave, Close
  <2> QED BY <2>1, SessionsKept, OrderStays
<1>3. ASSUME NEW p \in Procs, Exit(p) PROVE OrderInv'
  <2>1. UNCHANGED <<file, session, fd>> /\ \A r \in Procs : queue'[r] = queue[r] \/ queue'[r] = <<>>
    BY <1>3 DEF EInv, TypeOK, Exit
  <2> QED BY <2>1, SessionsKept, OrderStays
<1>4. ASSUME NEW p \in Procs, Write(p) PROVE OrderInv'
  <2>1. /\ Takes(p) /\ writer[p] = "open"
        /\ file' = [file EXCEPT ![fd[p]] = AppendLine(file[fd[p]],
                       [parts |-> {<<Head(queue[p]), p>>}, torn |-> FALSE])]
    BY <1>4 DEF Write, Whole
  <2> QED BY <2>1, WriterOrder
<1>5. ASSUME NEW p \in Procs, WriteFails(p) PROVE OrderInv'
  <2>1. Takes(p) /\ writer[p] = "open"
    BY <1>5 DEF WriteFails
  <2>2. CASE UNCHANGED file
    BY <2>1, <2>2, DropOrder
  <2>3. CASE file' = [file EXCEPT ![fd[p]] = AppendLine(@, Torn(Head(queue[p]), p))]
    <3>1. file' = [file EXCEPT ![fd[p]] = AppendLine(file[fd[p]],
                     [parts |-> {<<Head(queue[p]), p>>}, torn |-> TRUE])]
      BY <2>3 DEF Torn
    <3> QED BY <2>1, <3>1, WriterOrder
  <2> QED BY <1>5, <2>2, <2>3 DEF WriteFails
<1>6. ASSUME NEW p \in Procs, Discard(p) PROVE OrderInv'
  <2>1. Takes(p) /\ UNCHANGED file
    BY <1>6 DEF Discard
  <2> QED BY <2>1, DropOrder
<1>7. ASSUME NEW s \in Sessions, Emit(s) PROVE OrderInv'
  <2>1. session \in [Sessions -> 0 .. Len(Types)] /\ Len(Types) \in Nat
    BY EventsAssumption DEF EventsAssumption, EInv, TypeOK
  <2>2. session' \in {session, [session EXCEPT ![s] = session[s] + 1]}
    BY <1>7 DEF Emit
  <2>3. session' \in [Sessions -> Nat] /\ \A t \in Sessions : session[t] <= session'[t]
    BY <2>1, <2>2
  <2>4. UNCHANGED <<file, queue, fd>>
    BY <1>7 DEF Emit
  <2> QED BY <2>3, <2>4, OrderStays
<1>8. ASSUME Rotate PROVE OrderInv'
  <2>1. UNCHANGED <<file, session, queue, fd>>
    BY <1>8 DEF Rotate
  <2> QED BY <2>1, SessionsKept, OrderStays
<1> QED BY <1>1, <1>2, <1>3, <1>4, <1>5, <1>6, <1>7, <1>8, SendOrder DEF EvNext

LEMMA OrderQuiet ==
  ASSUME EInv, OrderInv, UNCHANGED evVars PROVE OrderInv'
<1>1. UNCHANGED <<file, session, queue, fd>>
  BY DEF evVars
<1> QED BY <1>1, SessionsKept, OrderStays

THEOREM OrderInvariance == Spec => []OrderInv
<1>1. Init => OrderInv
  BY OrderInit
<1>2. EInv /\ OrderInv /\ [Next]_vars => OrderInv'
  BY OrderStep, OrderQuiet DEF Next, Read, Parse, vars
<1> QED BY <1>1, <1>2, Invariance, PTL DEF Spec

\* The event of a line that is filled is one of its parts.
LEMMA EventIsPart ==
  ASSUME NEW l \in Line, l.parts # {}
  PROVE  \E x \in l.parts : EventOf(l) = x[1]
BY DEF EventOf

\* What reaches the disk of a session does so once, in order and in one file.
THEOREM WrittenOnceInOrder == Spec => []OnceInOrder
<1>1. ASSUME EInv, OrderInv PROVE OnceInOrder
  <2> SUFFICES ASSUME NEW f \in Files, NEW g \in Files,
                      NEW i \in DOMAIN file[f], NEW j \in DOMAIN file[g],
                      EventOf(file[f][i])[1] = EventOf(file[g][j])[1]
               PROVE  f = g /\ (i < j => EventOf(file[f][i])[2] < EventOf(file[g][j])[2])
    BY DEF OnceInOrder
  <2>1. file[f][i] \in Line /\ file[g][j] \in Line
    BY <1>1 DEF EInv, TypeOK
  <2>2. file[f][i].parts # {} /\ file[g][j].parts # {}
    BY <1>1 DEF OrderInv, Written, Filled
  <2>3. PICK x \in file[f][i].parts : EventOf(file[f][i]) = x[1]
    BY <2>1, <2>2, EventIsPart
  <2>4. PICK y \in file[g][j].parts : EventOf(file[g][j]) = y[1]
    BY <2>1, <2>2, EventIsPart
  <2>5. Sound(x, session) /\ fd[x[2]] = f /\ Sound(y, session) /\ fd[y[2]] = g
    BY <1>1 DEF OrderInv, Written
  <2>6. x[1][1] = y[1][1]
    BY <2>3, <2>4
  <2>7. f = g
    BY <2>5, <2>6 DEF Sound
  <2>8. i < j => x[1][2] < y[1][2]
    BY <1>1, <2>6, <2>7 DEF OrderInv, Written, LinesInOrder, Precedes
  <2> QED BY <2>3, <2>4, <2>7, <2>8
<1> QED BY <1>1, Invariance, OrderInvariance, PTL

-----------------------------------------------------------------------------
(* The batch.  What has been read is of files before the next one.          *)

\* An event that has been read is one its session emitted, of a process whose file is past.
ReadPart(x, ph, sn, f, bound) == Sound(x, sn) /\ ph[x[2]] # "off" /\ f[x[2]] < bound

BatchInv ==
  /\ next \in Int /\ lines \in Seq(Line) /\ LinesInOrder(lines) /\ Filled(lines)
  /\ \A i \in DOMAIN lines : \A x \in lines[i].parts :
       ReadPart(x, phase, session, fd, path - next)

LEMMA Ints ==
  ASSUME EInv
  PROVE  path \in Int /\ (\A p \in Procs : fd[p] \in Int) /\ MaxRotations \in Nat
         /\ \A s \in Sessions : session[s] \in Nat
BY EventsAssumption DEF EventsAssumption, EInv, TypeOK, Files

\* Sessions and the path only go on, and a process keeps the file it has opened.
LEMMA GoesOn ==
  ASSUME EInv, [EvNext]_evVars
  PROVE  /\ \A p \in Procs : phase[p] # "off" => phase'[p] # "off" /\ fd'[p] = fd[p]
         /\ \A s \in Sessions : session[s] <= session'[s]
         /\ path <= path'
<1> DEFINE G == /\ \A p \in Procs : phase[p] # "off" => phase'[p] # "off" /\ fd'[p] = fd[p]
                /\ \A s \in Sessions : session[s] <= session'[s]
                /\ path <= path'
<1>1. path \in Int /\ \A s \in Sessions : session[s] \in Nat
  BY Ints
<1>2. ASSUME NEW p \in Procs, StartUp(p) PROVE G
  BY <1>1, <1>2 DEF EInv, TypeOK, StartUp
<1>3. ASSUME NEW p \in Procs, Leave(p) PROVE G
  BY <1>1, <1>3 DEF EInv, TypeOK, Leave
<1>4. ASSUME NEW p \in Procs, Close(p) PROVE G
  BY <1>1, <1>4 DEF EInv, TypeOK, Close
<1>5. ASSUME NEW p \in Procs, Exit(p) PROVE G
  BY <1>1, <1>5 DEF EInv, TypeOK, Exit
<1>6. ASSUME NEW p \in Procs, Write(p) \/ WriteFails(p) \/ Discard(p) PROVE G
  <2>1. UNCHANGED <<phase, fd, session, path>>
    BY <1>6 DEF Write, WriteFails, Discard, Takes
  <2> QED BY <1>1, <2>1
<1>7. ASSUME NEW s \in Sessions, Emit(s) \/ Send(s) PROVE G
  <2>1. UNCHANGED <<phase, fd, path>> /\ session' \in {session, [session EXCEPT ![s] = session[s] + 1]}
    BY <1>7 DEF Emit, Send
  <2>2. session \in [Sessions -> 0 .. Len(Types)]
    BY DEF EInv, TypeOK
  <2>3. \A t \in Sessions : session[t] <= session'[t]
    BY <1>1, <2>1, <2>2
  <2> QED BY <1>1, <2>1, <2>3
<1>8. ASSUME Rotate PROVE G
  BY <1>1, <1>8 DEF Rotate
<1>9. ASSUME UNCHANGED evVars PROVE G
  BY <1>1, <1>9 DEF evVars
<1> HIDE DEF G
<1>10. G
  BY <1>2, <1>3, <1>4, <1>5, <1>6, <1>7, <1>8, <1>9 DEF EvNext
<1> QED BY <1>10 DEF G

\* A part that has been read stays so, while the next file to read comes no earlier.
LEMMA ReadPartStays ==
  ASSUME EInv, EInv', [EvNext]_evVars, next \in Int, next' \in Int, next' <= next
  PROVE  \A l \in Line : \A x \in l.parts :
           ReadPart(x, phase, session, fd, path - next)
             => ReadPart(x, phase', session', fd', path' - next')
<1> SUFFICES ASSUME NEW l \in Line, NEW x \in l.parts,
                    ReadPart(x, phase, session, fd, path - next)
             PROVE  ReadPart(x, phase', session', fd', path' - next')
  OBVIOUS
<1>1. x[2] \in Procs /\ x[1][1] \in Sessions /\ x[1][2] \in Nat
  BY PartTypes
<1>2. /\ phase'[x[2]] # "off" /\ fd'[x[2]] = fd[x[2]]
      /\ session[x[1][1]] <= session'[x[1][1]] /\ path <= path'
  BY <1>1, GoesOn DEF ReadPart
<1>3. path \in Int /\ path' \in Int /\ fd[x[2]] \in Int
      /\ session[x[1][1]] \in Nat /\ session'[x[1][1]] \in Nat
  <2>1. MaxRotations \in Nat /\ Len(Types) \in Nat
    BY EventsAssumption DEF EventsAssumption
  <2>2. path' \in Int
    BY <2>1 DEF EInv, TypeOK, Files
  <2>3. session' \in [Sessions -> 0 .. Len(Types)]
    BY DEF EInv, TypeOK
  <2>4. session'[x[1][1]] \in Nat
    BY <1>1, <2>1, <2>3
  <2> QED BY <1>1, <2>2, <2>4, Ints
<1>4. fd[x[2]] < path' - next'
  BY <1>2, <1>3 DEF ReadPart
<1>5. Sound(x, session')
  BY <1>1, <1>2, <1>3 DEF ReadPart, Sound
<1> QED BY <1>2, <1>4, <1>5 DEF ReadPart

\* The first lines of the next file come after all that has been read: a session's events
\* are in one file, and those of the files before it are of other sessions.
LEMMA MoreLines ==
  ASSUME EInv, OrderInv, BatchInv, UNCHANGED evVars, NEW more \in Seq(Line), next' = next - 1,
         path - next \in Files \/ more = <<>>,
         \A i \in 1 .. Len(more) : i \in DOMAIN file[path - next] /\ more[i] = file[path - next][i],
         lines' = lines \o more
  PROVE  BatchInv'
<1> DEFINE f == path - next
           n == Len(lines)
           m == Len(more)
           new == lines \o more
<1>1. next \in Int /\ lines \in Seq(Line) /\ path \in Int
  BY Ints DEF BatchInv
<1>2. /\ new \in Seq(Line) /\ Len(new) = n + m /\ n \in Nat /\ m \in Nat
      /\ \A i \in 1 .. n + m : new[i] = IF i <= n THEN lines[i] ELSE more[i - n]
  BY <1>1, ConcatProperties
<1>3. DOMAIN lines = 1 .. n /\ DOMAIN new = 1 .. n + m
  BY <1>1, <1>2
<1>4. ASSUME NEW i \in 1 .. m, NEW x \in more[i].parts
      PROVE  /\ f \in Files /\ i \in DOMAIN file[f] /\ more[i] = file[f][i]
             /\ x[2] \in Procs /\ Sound(x, session) /\ phase[x[2]] # "off" /\ fd[x[2]] = f
  <2>1. f \in Files /\ i \in DOMAIN file[f] /\ more[i] = file[f][i]
    BY <1>4
  <2>2. file[f][i] \in Line /\ OwnLine(file[f][i], phase, writer)
    BY <2>1 DEF EInv, TypeOK, OwnLines
  <2>3. x[2] \in Procs
    BY <2>1, <2>2, PartTypes
  <2> QED BY <2>1, <2>2, <2>3 DEF OrderInv, Written, OwnLine
<1>5. \A i \in 1 .. m : more[i].parts # {}
  <2> SUFFICES ASSUME NEW i \in 1 .. m PROVE more[i].parts # {}
    OBVIOUS
  <2>1. more # <<>>
    BY <1>2
  <2>2. Filled(file[f])
    BY <2>1 DEF OrderInv, Written
  <2> QED BY <2>2 DEF Filled
<1>6. \A i \in 1 .. n : lines[i] \in Line /\ lines[i].parts # {}
        /\ \A x \in lines[i].parts : ReadPart(x, phase, session, fd, f)
  BY <1>1, <1>3 DEF BatchInv, Filled
<1>7. \A i \in 1 .. n + m : i \in 1 .. n \/ (i > n /\ i - n \in 1 .. m)
  BY <1>2
<1> HIDE DEF new, n, m
<1>8. \A i \in 1 .. n : new[i] = lines[i]
  BY <1>2
<1>9. \A i \in 1 .. n + m : i > n => new[i] = more[i - n]
  BY <1>2
<1>10. \A i \in 1 .. n + m : new[i].parts # {}
  BY <1>5, <1>6, <1>7, <1>8, <1>9
<1>11. ASSUME NEW i \in 1 .. n + m, NEW x \in new[i].parts
       PROVE  ReadPart(x, phase, session, fd, path - (next - 1))
  <2>1. CASE i \in 1 .. n
    <3>1. lines[i] \in Line /\ x \in lines[i].parts /\ ReadPart(x, phase, session, fd, f)
      BY <1>6, <1>8, <2>1
    <3>2. fd[x[2]] \in Int
      BY <3>1, PartTypes, Ints
    <3> QED BY <1>1, <3>1, <3>2 DEF ReadPart
  <2>2. CASE i > n /\ i - n \in 1 .. m
    <3>1. Sound(x, session) /\ phase[x[2]] # "off" /\ fd[x[2]] = f
      BY <1>4, <1>9, <2>2
    <3> QED BY <1>1, <3>1 DEF ReadPart
  <2> QED BY <1>7, <2>1, <2>2
<1>12. ASSUME NEW i \in 1 .. n + m, NEW j \in 1 .. n + m, i < j,
              NEW x \in new[i].parts, NEW y \in new[j].parts
       PROVE  Precedes(x, y)
  <2>1. CASE j \in 1 .. n
    <3>1. i \in 1 .. n
      BY <1>2, <1>12, <2>1
    <3> QED BY <1>3, <1>8, <1>12, <2>1, <3>1 DEF BatchInv, LinesInOrder
  <2>2. CASE j > n /\ j - n \in 1 .. m /\ i \in 1 .. n
    <3>1. x \in lines[i].parts /\ y \in more[j - n].parts
      BY <1>8, <1>9, <2>2
    <3>2. fd[y[2]] = f /\ Sound(y, session)
      BY <1>4, <2>2, <3>1
    <3>3. lines[i] \in Line /\ ReadPart(x, phase, session, fd, f)
      BY <1>6, <2>2, <3>1
    <3>4. fd[x[2]] \in Int
      BY <3>1, <3>3, PartTypes, Ints
    <3>5. x[1][1] # y[1][1]
      BY <1>1, <3>2, <3>3, <3>4 DEF ReadPart, Sound
    <3> QED BY <3>5 DEF Precedes
  <2>3. CASE j > n /\ j - n \in 1 .. m /\ i > n /\ i - n \in 1 .. m
    <3>1. x \in more[i - n].parts /\ y \in more[j - n].parts
      BY <1>9, <2>3
    <3>2. /\ f \in Files /\ i - n \in DOMAIN file[f] /\ j - n \in DOMAIN file[f]
          /\ x \in file[f][i - n].parts /\ y \in file[f][j - n].parts
      BY <1>4, <2>3, <3>1
    <3>3. i - n < j - n
      BY <1>2, <1>12
    <3>4. LinesInOrder(file[f])
      BY <3>2 DEF OrderInv, Written
    <3> QED BY <3>2, <3>3, <3>4 DEF LinesInOrder
  <2> QED BY <1>7, <2>1, <2>2, <2>3
<1>13. LinesInOrder(new) /\ Filled(new)
  BY <1>3, <1>10, <1>12 DEF LinesInOrder, Filled
<1>14. lines' = new /\ UNCHANGED <<phase, session, fd, path>> /\ next' \in Int
  BY <1>1 DEF new, evVars
<1>15. \A i \in DOMAIN lines' : \A x \in lines'[i].parts :
         ReadPart(x, phase', session', fd', path' - next')
  BY <1>3, <1>11, <1>14
<1> QED BY <1>2, <1>13, <1>14, <1>15 DEF BatchInv

\* Nothing more is read: events are written meanwhile, or the batch is refused or done.
LEMMA LinesRemain ==
  ASSUME EInv, EInv', BatchInv, [EvNext]_evVars, UNCHANGED lines,
         next' \in Int, next' <= next
  PROVE  BatchInv'
<1>1. next \in Int /\ lines \in Seq(Line)
  BY DEF BatchInv
<1>2. \A i \in DOMAIN lines : \A x \in lines[i].parts :
        ReadPart(x, phase', session', fd', path' - next')
  <2> SUFFICES ASSUME NEW i \in DOMAIN lines, NEW x \in lines[i].parts
               PROVE  ReadPart(x, phase', session', fd', path' - next')
    OBVIOUS
  <2>1. lines[i] \in Line /\ ReadPart(x, phase, session, fd, path - next)
    BY <1>1 DEF BatchInv
  <2> QED BY <1>1, <2>1, ReadPartStays
<1> QED BY <1>1, <1>2 DEF BatchInv

LEMMA ReadStep ==
  ASSUME EInv, EInv', OrderInv, BatchInv, Read PROVE BatchInv'
<1> DEFINE f     == path - next
           found == IF f \in Files THEN file[f] ELSE <<>>
           short == found # <<>> /\ Last(found).torn
           k     == Len(found)
<1>1. /\ next' = next - 1 /\ UNCHANGED evVars /\ next \in Int
      /\ \/ lines' = lines \o found
         \/ short /\ lines' = lines \o Front(found)
         \/ UNCHANGED lines
  BY DEF Read, Before, BatchInv
<1>2. found \in Seq(Line) /\ k \in Nat
  <2>1. found \in Seq(Line)
    BY DEF EInv, TypeOK
  <2> HIDE DEF found
  <2> QED BY <2>1
<1>3. f \in Files \/ found = <<>>
  OBVIOUS
<1>4. \A i \in 1 .. k : i \in DOMAIN file[f] /\ found[i] = file[f][i]
  <2>1. CASE f \in Files
    <3>1. found = file[f]
      BY <2>1
    <3>2. DOMAIN found = 1 .. k
      BY <1>2
    <3> HIDE DEF found
    <3> QED BY <3>1, <3>2
  <2>2. CASE f \notin Files
    <3>1. k = 0
      BY <2>2
    <3> QED BY <1>2, <3>1
  <2> QED BY <2>1, <2>2
<1> HIDE DEF found
<1>5. CASE lines' = lines \o found
  BY <1>1, <1>2, <1>3, <1>4, <1>5, MoreLines
<1>6. CASE short /\ lines' = lines \o Front(found)
  <2>1. Front(found) = SubSeq(found, 1, k - 1) /\ k > 0 /\ f \in Files
    BY <1>2, <1>3, <1>6 DEF Front
  <2>2. \A i \in 1 .. k - 1 : found[i] \in Line
    BY <1>2
  <2>3. /\ SubSeq(found, 1, k - 1) \in Seq(Line)
        /\ Len(SubSeq(found, 1, k - 1)) = IF 1 <= k - 1 THEN k - 1 - 1 + 1 ELSE 0
        /\ \A i \in 1 .. k - 1 - 1 + 1 : SubSeq(found, 1, k - 1)[i] = found[1 + i - 1]
    <3>1. k - 1 \in Int /\ 1 \in Int
      BY <1>2
    <3> QED BY <2>2, <3>1, SubSeqProperties
  <2> HIDE DEF k
  <2>4. /\ Front(found) \in Seq(Line)
        /\ \A i \in 1 .. Len(Front(found)) : i \in 1 .. k /\ Front(found)[i] = found[i]
    BY <1>2, <2>1, <2>3
  <2>5. \A i \in 1 .. Len(Front(found)) : i \in DOMAIN file[f] /\ Front(found)[i] = file[f][i]
    BY <1>4, <2>4
  <2> QED BY <1>1, <1>6, <2>1, <2>4, <2>5, MoreLines
<1>7. CASE UNCHANGED lines
  <2>1. next' \in Int /\ next' <= next
    BY <1>1
  <2> QED BY <1>1, <1>7, <2>1, LinesRemain
<1> QED BY <1>1, <1>5, <1>6, <1>7

THEOREM BatchInvariance == Spec => []BatchInv
<1>1. Init => BatchInv
  BY KeepAssumption DEF Init, BatchInv, LinesInOrder, Filled, KeepAssumption
<1>2. EInv /\ EInv' /\ OrderInv /\ BatchInv /\ [Next]_vars => BatchInv'
  <2> SUFFICES ASSUME EInv, EInv', OrderInv, BatchInv, [Next]_vars PROVE BatchInv'
    OBVIOUS
  <2>1. CASE [EvNext]_evVars /\ UNCHANGED <<next, lines>>
    <3>1. next' \in Int /\ next' <= next
      BY <2>1 DEF BatchInv
    <3> QED BY <2>1, <3>1, LinesRemain
  <2> QED BY <2>1, ReadStep DEF Next, Parse, vars
<1> QED BY <1>1, <1>2, Invariance, OrderInvariance, PTL DEF Spec

\* A batch holds every event once, in order, and keeps only sessions that have ended,
\* though files are written, rotated and handed over while it is read.
THEOREM BatchSound == Spec => []BatchIsSound
<1>1. ASSUME EInv, BatchInv PROVE BatchIsSound
  <2>1. \A i \in DOMAIN lines : lines[i] \in Line /\ lines[i].parts # {}
    BY <1>1 DEF BatchInv, Filled
  <2>2. \A i \in DOMAIN lines : i \in Nat
    BY <1>1 DEF BatchInv
  <2>3. \A i, j \in DOMAIN lines : i # j => lines[i] # lines[j]
    <3> SUFFICES ASSUME NEW i \in DOMAIN lines, NEW j \in DOMAIN lines, i < j, lines[i] = lines[j]
                 PROVE  FALSE
      BY <2>2
    <3>1. PICK x \in lines[i].parts : TRUE
      BY <2>1
    <3>2. x[1][2] < x[1][2]
      BY <1>1, <3>1 DEF BatchInv, LinesInOrder, Precedes
    <3>3. x[1][2] \in Nat
      BY <2>1, <3>1, PartTypes
    <3> QED BY <3>2, <3>3
  <2>4. ASSUME NEW s \in Selected
        PROVE  /\ session[s] = Len(Types)
               /\ \A i, j \in DOMAIN lines :
                    EventOf(lines[i]) = <<s, 1>> /\ EventOf(lines[j]) = <<s, Len(Types)>> => i < j
    <3>1. s \in Sessions /\ Len(Types) \in Nat /\ Len(Types) >= 2 /\ session[s] \in 0 .. Len(Types)
      BY <1>1, EventsAssumption DEF EventsAssumption, EInv, TypeOK, Selected
    <3>2. PICK l \in ToSet(lines) : EventOf(l) = <<s, Len(Types)>>
      BY DEF Selected
    <3>3. PICK i \in DOMAIN lines : l = lines[i]
      BY DEF ToSet
    <3>4. PICK x \in lines[i].parts : x[1] = <<s, Len(Types)>>
      BY <2>1, <3>2, <3>3, EventIsPart
    <3>5. Len(Types) <= session[s]
      BY <1>1, <3>4 DEF BatchInv, ReadPart, Sound
    <3>6. ASSUME NEW a \in DOMAIN lines, NEW b \in DOMAIN lines,
                 EventOf(lines[a]) = <<s, 1>>, EventOf(lines[b]) = <<s, Len(Types)>>
          PROVE  a < b
      <4>1. PICK y \in lines[a].parts : y[1] = <<s, 1>>
        BY <2>1, <3>6, EventIsPart
      <4>2. PICK z \in lines[b].parts : z[1] = <<s, Len(Types)>>
        BY <2>1, <3>6, EventIsPart
      <4>3. a = b => FALSE
        BY <3>1, <3>6
      <4>4. ~(b < a)
        <5> SUFFICES ASSUME b < a PROVE FALSE
          OBVIOUS
        <5>1. z[1][2] < y[1][2]
          BY <1>1, <4>1, <4>2 DEF BatchInv, LinesInOrder, Precedes
        <5> QED BY <3>1, <4>1, <4>2, <5>1
      <4> QED BY <2>2, <4>3, <4>4
    <3> QED BY <3>1, <3>5, <3>6
  <2> QED BY <2>3, <2>4 DEF BatchIsSound
<1> QED BY <1>1, Invariance, BatchInvariance, PTL

=============================================================================
