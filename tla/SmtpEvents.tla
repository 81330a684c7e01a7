----------------------------- MODULE SmtpEvents ------------------------------
(***************************************************************************)
(* smtpEventWriter: handlers emit the events of their sessions into a      *)
(* bounded queue, one goroutine of each process appends them to the event  *)
(* file.  In a handoff two processes append to the same file, or, after a  *)
(* rotation, each to its own.  An event is lost when the queue is full,    *)
(* the file has failed, or the process exits; what is written of a session *)
(* stays in order, and a failed write garbles nothing of its own process.  *)
(***************************************************************************)
EXTENDS Integers, Sequences, FiniteSets, SequencesExt

CONSTANTS
  Procs,        \* processes 1, 2, ...: each takes over from the one before it
  Sessions,     \* SMTP sessions
  ProcOf,       \* the process that serves each
  Types,        \* the types of the events of a session, in order
  QueueSize,    \* capacity of the queue, 1024 in the code
  MaxRotations, \* bound: how often the file is rotated
  MaxFailures   \* bound: how many writes fail

ASSUME EventsAssumption ==
  /\ Procs = 1 .. Cardinality(Procs) /\ Procs # {}
  /\ ProcOf \in [Sessions -> Procs]
  /\ Types \in Seq(STRING) /\ Len(Types) >= 2  \* its start and its end at least
  /\ QueueSize \in Nat \ {0} /\ MaxRotations \in Nat /\ MaxFailures \in Nat

VARIABLES
  phase,    \* of each process
  session,  \* how many events of each session have been emitted
  inEmit,   \* the sessions whose handler is in emit, past the check of closed
  queue, closed, writer, \* smtpEventWriter of each process; "failed": it discards
  fd,       \* the file each process has open
  path,     \* the file that is at the path; the ones before it are rotated
  file,     \* the lines of each file
  failures

evVars == <<phase, session, inEmit, queue, closed, writer, fd, path, file, failures>>

Files  == 1 .. MaxRotations + 1

\* A line: the events that went into it, each with its process.  One that has no newline
\* is torn; what is appended next is part of the same line.
Whole(e, p) == [parts |-> {<<e, p>>}, torn |-> FALSE]
Torn(e, p)  == [parts |-> {<<e, p>>}, torn |-> TRUE]
Valid(l)    == ~l.torn /\ Cardinality(l.parts) = 1
EventOf(l)  == (CHOOSE x \in l.parts : TRUE)[1]

AppendLine(lines, l) ==
  IF lines # <<>> /\ Last(lines).torn
  THEN Append(Front(lines), [l EXCEPT !.parts = @ \cup Last(lines).parts])
  ELSE Append(lines, l)

EvInit ==
  /\ phase = [p \in Procs |-> "off"] /\ session = [s \in Sessions |-> 0] /\ inEmit = {}
  /\ queue = [p \in Procs |-> <<>>] /\ closed = [p \in Procs |-> FALSE]
  /\ writer = [p \in Procs |-> "none"] /\ fd = [p \in Procs |-> 0]
  /\ path = 1 /\ file = [f \in Files |-> <<>>] /\ failures = 0

-----------------------------------------------------------------------------
(* Processes.                                                               *)

Alive(p) == phase[p] \notin {"off", "exited"}

\* newSMTPEventWriter opens, and creates, the file at the path.
StartUp(p) ==
  /\ phase[p] = "off" /\ (p > 1 => phase[p - 1] = "serving")
  /\ phase' = [phase EXCEPT ![p] = "serving"] /\ fd' = [fd EXCEPT ![p] = path]
  /\ writer' = [writer EXCEPT ![p] = "open"]
  /\ UNCHANGED <<session, inEmit, queue, closed, path, file, failures>>

\* The successor serves, or the process is told to terminate.
Leave(p) ==
  /\ phase[p] = "serving" /\ phase' = [phase EXCEPT ![p] = "draining"]
  /\ UNCHANGED <<session, inEmit, queue, closed, writer, fd, path, file, failures>>

\* Mutant: the queue is closed without the lock.
CloseNow(p) ==
  /\ phase[p] = "draining"
  /\ phase' = [phase EXCEPT ![p] = "closing"] /\ closed' = [closed EXCEPT ![p] = TRUE]
  /\ UNCHANGED <<session, inEmit, queue, writer, fd, path, file, failures>>

\* Drain has returned, with sessions still open if its time was up.  Close takes the lock
\* that emit holds.
Close(p) ==
  /\ phase[p] = "draining" /\ \A s \in inEmit : ProcOf[s] # p
  /\ phase' = [phase EXCEPT ![p] = "closing"] /\ closed' = [closed EXCEPT ![p] = TRUE]
  /\ UNCHANGED <<session, inEmit, queue, writer, fd, path, file, failures>>

\* Close waits for the writer, at most a second; what is still queued dies with it.
Exit(p) ==
  /\ phase[p] = "closing" /\ phase' = [phase EXCEPT ![p] = "exited"]
  /\ queue' = [queue EXCEPT ![p] = <<>>] /\ inEmit' = {s \in inEmit : ProcOf[s] # p}
  /\ writer' = [writer EXCEPT ![p] = "none"]
  /\ UNCHANGED <<session, closed, fd, path, file, failures>>

-----------------------------------------------------------------------------
(* Handlers.                                                                *)

\* emit looks at closed with the lock held; a session begins while its process serves.
Emit(s) ==
  LET p == ProcOf[s] IN
  /\ session[s] < Len(Types) /\ s \notin inEmit
  /\ IF session[s] = 0 THEN phase[p] = "serving" ELSE Alive(p)
  /\ IF closed[p] THEN session' = [session EXCEPT ![s] = @ + 1] /\ UNCHANGED inEmit
     ELSE inEmit' = inEmit \cup {s} /\ UNCHANGED session
  /\ UNCHANGED <<phase, queue, closed, writer, fd, path, file, failures>>

\* It sends, or drops the event if the queue is full, and lets go of the lock.
Send(s) ==
  LET p == ProcOf[s] IN
  /\ s \in inEmit /\ inEmit' = inEmit \ {s} /\ session' = [session EXCEPT ![s] = @ + 1]
  /\ queue' = IF Len(queue[p]) < QueueSize
              THEN [queue EXCEPT ![p] = Append(@, <<s, session[s] + 1>>)] ELSE queue
  /\ UNCHANGED <<phase, closed, writer, fd, path, file, failures>>

-----------------------------------------------------------------------------
(* The writer, and the file.                                                *)

Takes(p) == /\ queue[p] # <<>> /\ queue' = [queue EXCEPT ![p] = Tail(@)]
            /\ UNCHANGED <<phase, session, inEmit, closed, fd, path>>

\* Mutant: the file is opened anew for each line.
WriteAtPath(p) ==
  /\ Takes(p) /\ writer[p] = "open"
  /\ file' = [file EXCEPT ![path] = AppendLine(@, Whole(Head(queue[p]), p))]
  /\ UNCHANGED <<writer, failures>>

\* The loop of newSMTPEventWriter's goroutine, one event.
Write(p) ==
  /\ Takes(p) /\ writer[p] = "open"
  /\ file' = [file EXCEPT ![fd[p]] = AppendLine(@, Whole(Head(queue[p]), p))]
  /\ UNCHANGED <<writer, failures>>

\* Mutant: the writer carries on after an error.
WriteFailsOnce(p) ==
  /\ Takes(p) /\ writer[p] = "open"
  /\ failures < MaxFailures /\ failures' = failures + 1 /\ UNCHANGED writer
  /\ \/ file' = [file EXCEPT ![fd[p]] = AppendLine(@, Torn(Head(queue[p]), p))]
     \/ UNCHANGED file

\* A write fails, with part of the line in the file or nothing of it.
WriteFails(p) ==
  /\ Takes(p) /\ writer[p] = "open" /\ writer' = [writer EXCEPT ![p] = "failed"]
  /\ failures < MaxFailures /\ failures' = failures + 1
  /\ \/ file' = [file EXCEPT ![fd[p]] = AppendLine(@, Torn(Head(queue[p]), p))]
     \/ UNCHANGED file

Discard(p) == Takes(p) /\ writer[p] = "failed" /\ UNCHANGED <<writer, file, failures>>

\* The file is renamed; who has it open goes on writing to it.
Rotate ==
  /\ path <= MaxRotations /\ path' = path + 1
  /\ UNCHANGED <<phase, session, inEmit, queue, closed, writer, fd, file, failures>>

EvNext ==
  \/ \E p \in Procs : \/ StartUp(p) \/ Leave(p) \/ Close(p) \/ Exit(p)
                      \/ Write(p) \/ WriteFails(p) \/ Discard(p)
  \/ \E s \in Sessions : Emit(s) \/ Send(s)
  \/ Rotate

-----------------------------------------------------------------------------
(* Properties.                                                              *)

\* A handler that is about to send finds the channel open: a send on a closed one would
\* bring the process down with every connection it has.
SendIsSafe == \A s \in inEmit : ~closed[ProcOf[s]]

\* The events of one session that reach the disk do so once, in order and in one file,
\* whatever is dropped, rotated or handed over meanwhile.
OnceInOrder ==
  \A f, g \in Files : \A i \in DOMAIN file[f], j \in DOMAIN file[g] :
    LET e == EventOf(file[f][i])
        d == EventOf(file[g][j])
    IN Valid(file[f][i]) /\ Valid(file[g][j]) /\ e[1] = d[1] => f = g /\ (i < j => e[2] < d[2])

\* A process never garbles a line of its own: after a failed write it writes no more, so
\* only another process's line can run into the torn one.
GarbledByAnother ==
  \A f \in Files : \A i \in DOMAIN file[f] :
    LET parts == file[f][i].parts
    IN \A x, y \in parts : x # y => x[2] # y[2]
=============================================================================
