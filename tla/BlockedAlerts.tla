--------------------------- MODULE BlockedAlerts ----------------------------
(***************************************************************************)
(* Notifications about blocked sources: BlockedRangeAlerter.  A handler    *)
(* that refused a connection asks for an alert per matching range; the     *)
(* request passes a table of sent alerts in the database, a map of pending *)
(* ones in memory and a bounded queue; workers send and record.            *)
(*                                                                         *)
(* A pair is a range and a source address, the key of both the table and   *)
(* the map.  A process is one running tlsgate: during an upgrade two share *)
(* the table, and each has a map, a queue and workers of its own.          *)
(***************************************************************************)
EXTENDS Naturals, Sequences, SequencesExt

CONSTANTS
  Pairs,      \* (range, source address)
  Procs,      \* processes that share the database
  Handlers,   \* connection handlers
  Workers,    \* the goroutines of startWorkers
  ProcOf,     \* the process of each handler and worker
  QueueSize,  \* alertQueueSize
  Retained,   \* maxBlockedRangeAlerts
  Faults      \* what may go wrong: "store", "send", "exit"

ASSUME AlertsAssumption ==
  /\ ProcOf \in [Handlers \cup Workers -> Procs]
  /\ QueueSize \in Nat \ {0}
  /\ Retained \in Nat \ {0}
  /\ Faults \subseteq {"store", "send", "exit"}

VARIABLES
  records,  \* blocked_range_alerts in order of insertion
  pending,  \* per process: BlockedRangeAlerter.pending
  queue,    \* per process: BlockedRangeAlerter.queue
  handler,  \* per handler: how far AlertBlocked has got with one pair
  worker,   \* per worker: how far it has got with one alert
  sent      \* history: pairs of which a notification has been delivered

vars == <<records, pending, queue, handler, worker, sent>>

\* A goroutine that works on nothing is idle, otherwise at a stage with a pair.
Idle == [at |-> "idle"]
HandlerStages == {"checked", "marked", "full"}
WorkerStages  == {"sending", "sent", "done"}

Recorded == ToSet(records)

Init ==
  /\ records = <<>>
  /\ pending = [p \in Procs |-> {}]
  /\ queue   = [p \in Procs |-> <<>>]
  /\ handler = [h \in Handlers |-> Idle]
  /\ worker  = [w \in Workers |-> Idle]
  /\ sent    = {}

-----------------------------------------------------------------------------
(* AlertBlocked, for one matching range: the loop over the ranges is a      *)
(* sequence of such passes.                                                 *)

\* Mutant: the table is not consulted.
CheckNothing(h, x) ==
  /\ handler[h] = Idle
  /\ handler' = [handler EXCEPT ![h] = [at |-> "checked", pair |-> x]]
  /\ UNCHANGED <<records, pending, queue, worker, sent>>

\* HasBlockedRangeAlert: a pair already sent, or a store error, ends the pass.
Check(h, x) ==
  /\ handler[h] = Idle
  /\ \/ /\ x \notin Recorded
        /\ handler' = [handler EXCEPT ![h] = [at |-> "checked", pair |-> x]]
     \/ /\ x \in Recorded \/ "store" \in Faults
        /\ UNCHANGED handler
  /\ UNCHANGED <<records, pending, queue, worker, sent>>

\* markPending: under the mutex, one handler per pair.
Mark(h) ==
  LET p == ProcOf[h]  x == handler[h].pair IN
  /\ handler[h].at = "checked"
  /\ pending' = [pending EXCEPT ![p] = @ \cup {x}]
  /\ handler' = [handler EXCEPT ![h] = IF x \in pending[p] THEN Idle
                                       ELSE [at |-> "marked", pair |-> x]]
  /\ UNCHANGED <<records, queue, worker, sent>>

\* Queue the alert without waiting.
Enqueue(h) ==
  LET p == ProcOf[h]  x == handler[h].pair IN
  /\ handler[h].at = "marked"
  /\ IF Len(queue[p]) < QueueSize
     THEN /\ queue' = [queue EXCEPT ![p] = Append(@, x)]
          /\ handler' = [handler EXCEPT ![h] = Idle]
     ELSE /\ handler' = [handler EXCEPT ![h] = [at |-> "full", pair |-> x]]
          /\ UNCHANGED queue
  /\ UNCHANGED <<records, pending, worker, sent>>

\* Mutant: an alert dropped at a full queue stays pending.
DropKeepsPending(h) ==
  /\ handler[h].at = "full"
  /\ handler' = [handler EXCEPT ![h] = Idle]
  /\ UNCHANGED <<records, pending, queue, worker, sent>>

\* The queue was full: the alert is dropped and a later attempt may try again.
Drop(h) ==
  LET p == ProcOf[h]  x == handler[h].pair IN
  /\ handler[h].at = "full"
  /\ pending' = [pending EXCEPT ![p] = @ \ {x}]
  /\ handler' = [handler EXCEPT ![h] = Idle]
  /\ UNCHANGED <<records, queue, worker, sent>>

-----------------------------------------------------------------------------
(* A worker: send, record, release.                                        *)

Take(w) ==
  LET p == ProcOf[w] IN
  /\ worker[w] = Idle
  /\ queue[p] # <<>>
  /\ worker' = [worker EXCEPT ![w] = [at |-> "sending", pair |-> Head(queue[p])]]
  /\ queue' = [queue EXCEPT ![p] = Tail(@)]
  /\ UNCHANGED <<records, pending, handler, sent>>

Advance(w, stage) ==
  worker' = [worker EXCEPT ![w] = [at |-> stage, pair |-> worker[w].pair]]

\* The notification goes out, or fails.  A broadcast that fails at one service
\* may have been delivered by another.
Send(w) ==
  LET delivered == sent \cup {worker[w].pair} IN
  /\ worker[w].at = "sending"
  /\ \/ /\ Advance(w, "sent")
        /\ sent' = delivered
     \/ /\ "send" \in Faults
        /\ Advance(w, "done")
        /\ sent' \in {sent, delivered}
  /\ UNCHANGED <<records, pending, queue, handler>>

\* Mutant: the pair is recorded whether or not the notification went out.
RecordBeforeSend(w) ==
  /\ worker[w].at \in {"sending", "sent"}
  /\ Advance(w, "done")
  /\ records' = IF worker[w].pair \in Recorded THEN records
                ELSE Append(records, worker[w].pair)
  /\ UNCHANGED <<pending, queue, handler, sent>>

\* RecordBlockedRangeAlert inserts the pair unless it is there; the trigger of
\* boundBlockedRangeAlerts keeps the newest.
Record(w) ==
  LET x == worker[w].pair
      inserted == IF x \in Recorded THEN records ELSE Append(records, x)
      excess == IF Len(inserted) > Retained THEN Len(inserted) - Retained ELSE 0
  IN
  /\ worker[w].at = "sent"
  /\ Advance(w, "done")
  /\ \/ records' = SubSeq(inserted, excess + 1, Len(inserted))
     \/ "store" \in Faults /\ UNCHANGED records
  /\ UNCHANGED <<pending, queue, handler, sent>>

\* Mutant: a worker that is done does not release the pair.
ReleaseNothing(w) ==
  /\ worker[w].at = "done"
  /\ worker' = [worker EXCEPT ![w] = Idle]
  /\ UNCHANGED <<records, pending, queue, handler, sent>>

\* clearPending, on every way out.
Release(w) ==
  LET p == ProcOf[w] IN
  /\ worker[w].at = "done"
  /\ pending' = [pending EXCEPT ![p] = @ \ {worker[w].pair}]
  /\ worker' = [worker EXCEPT ![w] = Idle]
  /\ UNCHANGED <<records, queue, handler, sent>>

-----------------------------------------------------------------------------
\* A process ends, drained or not, with whatever its memory holds; the next one
\* starts empty on the same database.
Exit(p) ==
  /\ "exit" \in Faults
  /\ pending' = [pending EXCEPT ![p] = {}]
  /\ queue'   = [queue EXCEPT ![p] = <<>>]
  /\ handler' = [h \in Handlers |-> IF ProcOf[h] = p THEN Idle ELSE handler[h]]
  /\ worker'  = [w \in Workers |-> IF ProcOf[w] = p THEN Idle ELSE worker[w]]
  /\ UNCHANGED <<records, sent>>

HandlerStep(h) == Mark(h) \/ Enqueue(h) \/ Drop(h)
WorkerStep(w) == Take(w) \/ Send(w) \/ Record(w) \/ Release(w)

Next ==
  \/ \E h \in Handlers, x \in Pairs : Check(h, x)
  \/ \E h \in Handlers : HandlerStep(h)
  \/ \E w \in Workers : WorkerStep(w)
  \/ \E p \in Procs : Exit(p)

Spec == Init /\ [][Next]_vars

\* The runtime schedules every goroutine, and sending returns.  Nothing makes a
\* client come back.
FairSpec ==
  /\ Spec
  /\ \A h \in Handlers : WF_vars(HandlerStep(h))
  /\ \A w \in Workers : WF_vars(WorkerStep(w))

-----------------------------------------------------------------------------
\* Types, and the sizes the table and the queues may have.
TypeOK ==
  /\ records \in Seq(Pairs) /\ Len(records) <= Retained
  /\ pending \in [Procs -> SUBSET Pairs]
  /\ queue \in [Procs -> Seq(Pairs)]
  /\ \A p \in Procs : Len(queue[p]) <= QueueSize
  /\ handler \in [Handlers -> {Idle} \cup [at : HandlerStages, pair : Pairs]]
  /\ worker \in [Workers -> {Idle} \cup [at : WorkerStages, pair : Pairs]]
  /\ sent \subseteq Pairs

\* Who in process p has pair x in hand: a handler that marked it, a place in the
\* queue, or a worker.
Holders(p, x) ==
  {<<"handler", h>> : h \in {h \in Handlers :
       ProcOf[h] = p /\ handler[h].at \in {"marked", "full"} /\ handler[h].pair = x}}
  \cup {<<"queue", i>> : i \in {i \in 1 .. Len(queue[p]) : queue[p][i] = x}}
  \cup {<<"worker", w>> : w \in {w \in Workers :
       ProcOf[w] = p /\ worker[w] # Idle /\ worker[w].pair = x}}

\* The pending map mirrors the work in hand: a pair is pending exactly while
\* somebody holds it, and never two do.  A marker nobody will clear silences the
\* source; a holder without a marker lets the same alert be queued twice.
PendingIsWork ==
  \A p \in Procs, x \in Pairs :
    /\ x \in pending[p] <=> Holders(p, x) # {}
    /\ \A a, b \in Holders(p, x) : a = b

\* A pair in the table has been notified: no failed send, full queue or exit
\* leaves behind a record that would suppress the first notification.
RecordedWasSent == Recorded \subseteq sent

\* No attempt on x looked at the table before x was recorded and may yet send.
Settled(x) ==
  /\ x \in Recorded
  /\ \A h \in Handlers : handler[h] # Idle => handler[h].pair # x
  /\ \A p \in Procs : x \notin ToSet(queue[p])
  /\ \A w \in Workers : worker[w].at = "sending" => worker[w].pair # x

\* While its record is retained a settled pair stays settled, in every process:
\* no further attempt, however timed, notifies again.
SettledStaysQuiet == [][ \A x \in Pairs : Settled(x) /\ x \in Recorded' => Settled(x)' ]_vars

\* A pending marker is released: no order of full queue, failed send and failed
\* record leaves a source silenced for the life of the process.
PendingIsReleased ==
  \A p \in Procs, x \in Pairs : x \in pending[p] ~> x \notin pending[p]
=============================================================================
