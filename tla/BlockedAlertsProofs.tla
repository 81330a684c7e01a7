------------------------ MODULE BlockedAlertsProofs -------------------------
(***************************************************************************)
(* Theorems about notifications, for any number of pairs, processes,       *)
(* handlers and workers, any queue and table size and any faults: pending  *)
(* markers mirror the work in hand, only delivered alerts are recorded,    *)
(* and a settled pair stays quiet while its record is retained.            *)
(***************************************************************************)
EXTENDS BlockedAlerts, TLAPS

(* Holders, one kind at a time.                                            *)
HeldByHandler(p, x, h) ==
  h \in Handlers /\ ProcOf[h] = p /\ handler[h].at \in {"marked", "full"}
  /\ handler[h].pair = x
HeldInQueue(p, x, i) == i \in 1 .. Len(queue[p]) /\ queue[p][i] = x
HeldByWorker(p, x, w) ==
  w \in Workers /\ ProcOf[w] = p /\ worker[w] # Idle /\ worker[w].pair = x

\* The marker of a pair exists exactly while it has a holder, and it has one.
OneHolder(p, x) ==
  /\ x \in pending[p] <=> \/ \E h : HeldByHandler(p, x, h)
                          \/ \E i : HeldInQueue(p, x, i)
                          \/ \E w : HeldByWorker(p, x, w)
  /\ \A g, h : HeldByHandler(p, x, g) /\ HeldByHandler(p, x, h) => g = h
  /\ \A i, j : HeldInQueue(p, x, i) /\ HeldInQueue(p, x, j) => i = j
  /\ \A v, w : HeldByWorker(p, x, v) /\ HeldByWorker(p, x, w) => v = w
  /\ \A h, i : ~(HeldByHandler(p, x, h) /\ HeldInQueue(p, x, i))
  /\ \A h, w : ~(HeldByHandler(p, x, h) /\ HeldByWorker(p, x, w))
  /\ \A i, w : ~(HeldInQueue(p, x, i) /\ HeldByWorker(p, x, w))

\* A worker that is about to record has delivered.
SentBeforeRecord == \A w \in Workers : worker[w].at = "sent" => worker[w].pair \in sent

AInv ==
  /\ TypeOK
  /\ \A p \in Procs, x \in Pairs : OneHolder(p, x)
  /\ RecordedWasSent
  /\ SentBeforeRecord

-----------------------------------------------------------------------------
(* Types.                                                                  *)

LEMMA RecordTypes ==
  ASSUME NEW x \in Pairs, NEW s \in Seq(Pairs),
         NEW e, e = (IF Len(s) > Retained THEN Len(s) - Retained ELSE 0)
  PROVE  /\ SubSeq(s, e + 1, Len(s)) \in Seq(Pairs)
         /\ Len(SubSeq(s, e + 1, Len(s))) <= Retained
         /\ ToSet(SubSeq(s, e + 1, Len(s))) \subseteq ToSet(s)
<1> DEFINE t == SubSeq(s, e + 1, Len(s))
<1>1. e \in Nat /\ Len(s) \in Nat /\ e <= Len(s) /\ Len(s) - e <= Retained
  BY AlertsAssumption DEF AlertsAssumption
<1>2. t \in Seq(Pairs) /\ Len(t) = Len(s) - e
  BY <1>1
<1>3. ASSUME NEW i \in 1 .. Len(t) PROVE t[i] = s[i + e]
  <2>1. t[i] = s[(e + 1) + i - 1]
    BY <1>1, <1>2
  <2>2. (e + 1) + i - 1 = i + e
    BY <1>1, <1>2
  <2> QED BY <2>1, <2>2
<1>4. ToSet(t) \subseteq ToSet(s)
  <2> HIDE DEF t
  <2>1. ASSUME NEW i \in DOMAIN t PROVE t[i] \in ToSet(s)
    <3>1. i \in 1 .. Len(t)
      BY <1>2
    <3>2. t[i] = s[i + e]
      BY <1>3, <3>1
    <3>3. i + e \in DOMAIN s
      BY <1>1, <1>2, <3>1
    <3> QED BY <3>2, <3>3 DEF ToSet
  <2> QED BY <2>1 DEF ToSet
<1> QED BY <1>1, <1>2, <1>4

\* A goroutine at work is at a stage, with a pair of its own process.
LEMMA AtWork ==
  ASSUME TypeOK
  PROVE  /\ \A h \in Handlers : ProcOf[h] \in Procs
         /\ \A w \in Workers : ProcOf[w] \in Procs
         /\ \A h \in Handlers : \/ handler[h] = Idle /\ handler[h].at = "idle"
                                \/ handler[h] # Idle /\ handler[h].at \in HandlerStages
                                   /\ handler[h].pair \in Pairs
         /\ \A w \in Workers : \/ worker[w] = Idle /\ worker[w].at = "idle"
                               \/ worker[w] # Idle /\ worker[w].at \in WorkerStages
                                  /\ worker[w].pair \in Pairs
<1>1. Idle.at = "idle"
  BY DEF Idle
<1> QED BY <1>1, AlertsAssumption DEF AlertsAssumption, TypeOK, HandlerStages, WorkerStages

LEMMA HandlerTypes ==
  ASSUME TypeOK, NEW h \in Handlers,
         HandlerStep(h) \/ \E x \in Pairs : Check(h, x)
  PROVE  TypeOK'
<1>1. UNCHANGED <<records, worker, sent>>
  BY DEF HandlerStep, Check, Mark, Enqueue, Drop
<1>2. \/ UNCHANGED handler
      \/ handler' = [handler EXCEPT ![h] = Idle]
      \/ \E x \in Pairs, stage \in HandlerStages :
           handler' = [handler EXCEPT ![h] = [at |-> stage, pair |-> x]]
  <2>1. CASE \E x \in Pairs : Check(h, x)
    BY <2>1 DEF Check, HandlerStages
  <2>2. CASE Mark(h)
    <3>1. handler[h].pair \in Pairs
      BY <2>2, AtWork DEF Mark
    <3> QED BY <2>2, <3>1 DEF Mark, HandlerStages
  <2>3. CASE Enqueue(h)
    <3>1. handler[h].pair \in Pairs
      BY <2>3, AtWork DEF Enqueue
    <3> QED BY <2>3, <3>1 DEF Enqueue, HandlerStages
  <2>4. CASE Drop(h)
    BY <2>4 DEF Drop
  <2> QED BY <2>1, <2>2, <2>3, <2>4 DEF HandlerStep
<1>3. handler' \in [Handlers -> {Idle} \cup [at : HandlerStages, pair : Pairs]]
  <2>1. CASE UNCHANGED handler
    BY <2>1 DEF TypeOK
  <2>2. CASE handler' = [handler EXCEPT ![h] = Idle]
    BY <2>2 DEF TypeOK
  <2>3. ASSUME NEW x \in Pairs, NEW stage \in HandlerStages,
               handler' = [handler EXCEPT ![h] = [at |-> stage, pair |-> x]]
        PROVE  handler' \in [Handlers -> {Idle} \cup [at : HandlerStages, pair : Pairs]]
    BY <2>3 DEF TypeOK
  <2> QED BY <1>2, <2>1, <2>2, <2>3
<1>4. pending' \in [Procs -> SUBSET Pairs]
  <2>1. CASE \E x \in Pairs : Check(h, x)
    BY <2>1 DEF Check, TypeOK
  <2>2. CASE Mark(h)
    <3>1. handler[h].pair \in Pairs
      BY <2>2, AtWork DEF Mark
    <3> QED BY <2>2, <3>1 DEF Mark, TypeOK
  <2>3. CASE Enqueue(h)
    BY <2>3 DEF Enqueue, TypeOK
  <2>4. CASE Drop(h)
    BY <2>4 DEF Drop, TypeOK
  <2> QED BY <2>1, <2>2, <2>3, <2>4 DEF HandlerStep
<1>5. /\ queue' \in [Procs -> Seq(Pairs)]
      /\ \A p \in Procs : Len(queue'[p]) <= QueueSize
  <2>1. CASE UNCHANGED queue
    BY <2>1 DEF TypeOK
  <2>2. CASE ~UNCHANGED queue
    <3>1. /\ handler[h].at = "marked"
          /\ Len(queue[ProcOf[h]]) < QueueSize
          /\ queue' = [queue EXCEPT ![ProcOf[h]] = Append(@, handler[h].pair)]
      BY <2>2 DEF HandlerStep, Check, Mark, Enqueue, Drop
    <3>2. handler[h].pair \in Pairs /\ ProcOf[h] \in Procs
      BY <3>1, AtWork
    <3>3. /\ Append(queue[ProcOf[h]], handler[h].pair) \in Seq(Pairs)
          /\ Len(Append(queue[ProcOf[h]], handler[h].pair)) <= QueueSize
      BY <3>1, <3>2, AlertsAssumption DEF AlertsAssumption, TypeOK
    <3> QED BY <3>1, <3>2, <3>3 DEF TypeOK
  <2> QED BY <2>1, <2>2
<1> QED BY <1>1, <1>3, <1>4, <1>5 DEF TypeOK

LEMMA WorkerTypes ==
  ASSUME TypeOK, NEW w \in Workers, WorkerStep(w)
  PROVE  TypeOK'
<1>1. CASE Take(w)
  <2>1. /\ queue[ProcOf[w]] \in Seq(Pairs) /\ queue[ProcOf[w]] # <<>>
        /\ Len(queue[ProcOf[w]]) <= QueueSize
    BY <1>1, AtWork DEF Take, TypeOK
  <2>2. /\ Head(queue[ProcOf[w]]) \in Pairs
        /\ Tail(queue[ProcOf[w]]) \in Seq(Pairs)
        /\ Len(Tail(queue[ProcOf[w]])) <= QueueSize
    BY <2>1, AlertsAssumption DEF AlertsAssumption
  <2>3. worker' \in [Workers -> {Idle} \cup [at : WorkerStages, pair : Pairs]]
    BY <1>1, <2>2 DEF Take, TypeOK, WorkerStages
  <2>4. /\ queue' \in [Procs -> Seq(Pairs)]
        /\ \A p \in Procs : Len(queue'[p]) <= QueueSize
    BY <1>1, <2>2, AtWork DEF Take, TypeOK
  <2> QED BY <1>1, <2>3, <2>4 DEF Take, TypeOK
<1>2. CASE Send(w)
  <2>1. worker' \in [Workers -> {Idle} \cup [at : WorkerStages, pair : Pairs]]
    <3>1. worker[w].pair \in Pairs
      BY <1>2, AtWork DEF Send
    <3>2. \E stage \in WorkerStages :
            worker' = [worker EXCEPT ![w] = [at |-> stage, pair |-> worker[w].pair]]
      BY <1>2 DEF Send, Advance, WorkerStages
    <3> QED BY <3>1, <3>2 DEF TypeOK
  <2>2. sent' \subseteq Pairs
    BY <1>2, AtWork DEF Send, TypeOK
  <2> QED BY <1>2, <2>1, <2>2 DEF Send, TypeOK
<1>3. CASE Record(w)
  <2>1. worker' \in [Workers -> {Idle} \cup [at : WorkerStages, pair : Pairs]]
    BY <1>3, AtWork DEF Record, Advance, TypeOK, WorkerStages
  <2>2. records' \in Seq(Pairs) /\ Len(records') <= Retained
    <3> DEFINE x == worker[w].pair
               s == IF x \in Recorded THEN records ELSE Append(records, x)
               e == IF Len(s) > Retained THEN Len(s) - Retained ELSE 0
    <3>1. x \in Pairs /\ s \in Seq(Pairs)
      BY <1>3, AtWork DEF Record, TypeOK
    <3>2. records' = SubSeq(s, e + 1, Len(s)) \/ UNCHANGED records
      BY <1>3 DEF Record
    <3> HIDE DEF x, s
    <3> QED BY <3>1, <3>2, RecordTypes DEF TypeOK
  <2> QED BY <1>3, <2>1, <2>2 DEF Record, TypeOK
<1>4. CASE Release(w)
  <2>1. worker' \in [Workers -> {Idle} \cup [at : WorkerStages, pair : Pairs]]
    BY <1>4 DEF Release, TypeOK
  <2>2. pending' \in [Procs -> SUBSET Pairs]
    BY <1>4 DEF Release, TypeOK
  <2> QED BY <1>4, <2>1, <2>2 DEF Release, TypeOK
<1> QED BY <1>1, <1>2, <1>3, <1>4 DEF WorkerStep

LEMMA ExitTypes ==
  ASSUME TypeOK, NEW p \in Procs, Exit(p)
  PROVE  TypeOK'
<1>1. pending' \in [Procs -> SUBSET Pairs]
  BY DEF Exit, TypeOK
<1>2. /\ queue' \in [Procs -> Seq(Pairs)]
      /\ \A q \in Procs : Len(queue'[q]) <= QueueSize
  <2>1. <<>> \in Seq(Pairs) /\ Len(<<>>) <= QueueSize
    BY AlertsAssumption DEF AlertsAssumption
  <2> QED BY <2>1 DEF Exit, TypeOK
<1>3. handler' \in [Handlers -> {Idle} \cup [at : HandlerStages, pair : Pairs]]
  BY DEF Exit, TypeOK
<1>4. worker' \in [Workers -> {Idle} \cup [at : WorkerStages, pair : Pairs]]
  BY DEF Exit, TypeOK
<1> QED BY <1>1, <1>2, <1>3, <1>4 DEF Exit, TypeOK

LEMMA NextTypes ==
  ASSUME TypeOK, [Next]_vars PROVE TypeOK'
<1>1. CASE UNCHANGED vars
  BY <1>1 DEF TypeOK, vars
<1> QED BY <1>1, HandlerTypes, WorkerTypes, ExitTypes DEF Next

-----------------------------------------------------------------------------
(* Who holds a pair.                                                       *)

\* A pair whose marker and holders a step leaves alone still has one holder.
LEMMA KeepHolders ==
  ASSUME NEW p, NEW x, OneHolder(p, x),
         x \in pending'[p] <=> x \in pending[p],
         \A h : HeldByHandler(p, x, h)' <=> HeldByHandler(p, x, h),
         \A i : HeldInQueue(p, x, i)' <=> HeldInQueue(p, x, i),
         \A w : HeldByWorker(p, x, w)' <=> HeldByWorker(p, x, w)
  PROVE  OneHolder(p, x)'
BY DEF OneHolder

LEMMA CheckHolders ==
  ASSUME TypeOK, NEW h \in Handlers, NEW y \in Pairs, Check(h, y),
         NEW p \in Procs, NEW x \in Pairs, OneHolder(p, x)
  PROVE  OneHolder(p, x)'
<1>1. UNCHANGED <<pending, queue, worker>> /\ handler[h] = Idle
  BY DEF Check
<1>2. handler' = handler \/ handler' = [handler EXCEPT ![h] = [at |-> "checked", pair |-> y]]
  BY DEF Check
<1>3. ASSUME NEW g PROVE HeldByHandler(p, x, g)' <=> HeldByHandler(p, x, g)
  <2>1. CASE g = h
    BY <1>1, <1>2, <2>1 DEF HeldByHandler, Idle, TypeOK
  <2>2. CASE g # h
    BY <1>2, <2>2 DEF HeldByHandler, TypeOK
  <2> QED BY <2>1, <2>2
<1>4. \A i : HeldInQueue(p, x, i)' <=> HeldInQueue(p, x, i)
  BY <1>1 DEF HeldInQueue
<1>5. \A w : HeldByWorker(p, x, w)' <=> HeldByWorker(p, x, w)
  BY <1>1 DEF HeldByWorker
<1> QED BY <1>1, <1>3, <1>4, <1>5, KeepHolders

\* markPending makes the handler the holder, or leaves the pair to who has it.
LEMMA MarkHolders ==
  ASSUME TypeOK, NEW h \in Handlers, Mark(h),
         NEW p \in Procs, NEW x \in Pairs, OneHolder(p, x)
  PROVE  OneHolder(p, x)'
<1> DEFINE q == ProcOf[h]  y == handler[h].pair
<1>1. /\ UNCHANGED <<queue, worker>>
      /\ handler[h].at = "checked" /\ q \in Procs /\ y \in Pairs
      /\ pending' = [pending EXCEPT ![q] = @ \cup {y}]
      /\ handler' = [handler EXCEPT ![h] = IF y \in pending[q] THEN Idle
                                           ELSE [at |-> "marked", pair |-> y]]
  BY AtWork DEF Mark
<1>2. \A i : HeldInQueue(p, x, i)' <=> HeldInQueue(p, x, i)
  BY <1>1 DEF HeldInQueue
<1>3. \A w : HeldByWorker(p, x, w)' <=> HeldByWorker(p, x, w)
  BY <1>1 DEF HeldByWorker
<1>4. x \in pending'[p] <=> x \in pending[p] \/ (p = q /\ x = y)
  BY <1>1 DEF TypeOK
<1>5. ASSUME NEW g
      PROVE  HeldByHandler(p, x, g)' <=>
               \/ HeldByHandler(p, x, g)
               \/ g = h /\ p = q /\ x = y /\ y \notin pending[q]
  <2>1. CASE g = h
    <3>1. ~HeldByHandler(p, x, h)
      BY <1>1 DEF HeldByHandler
    <3>2. handler'[h] = IF y \in pending[q] THEN Idle ELSE [at |-> "marked", pair |-> y]
      BY <1>1 DEF TypeOK
    <3> QED BY <2>1, <3>1, <3>2 DEF HeldByHandler, Idle
  <2>2. CASE g # h
    BY <1>1, <2>2 DEF HeldByHandler, TypeOK
  <2> QED BY <2>1, <2>2
<1> HIDE DEF q, y
<1>6. CASE p = q /\ x = y /\ y \notin pending[q]
  BY <1>2, <1>3, <1>4, <1>5, <1>6 DEF OneHolder
<1>7. CASE ~(p = q /\ x = y /\ y \notin pending[q])
  BY <1>2, <1>3, <1>4, <1>5, <1>7, KeepHolders
<1> QED BY <1>6, <1>7

\* The handler hands its pair to the queue, or keeps it with the queue full.
LEMMA EnqueueHolders ==
  ASSUME TypeOK, NEW h \in Handlers, Enqueue(h),
         NEW p \in Procs, NEW x \in Pairs, OneHolder(p, x)
  PROVE  OneHolder(p, x)'
<1> DEFINE q == ProcOf[h]  y == handler[h].pair
<1>1. /\ UNCHANGED <<pending, worker>>
      /\ handler[h].at = "marked" /\ q \in Procs /\ y \in Pairs
  BY AtWork DEF Enqueue
<1>2. \A w : HeldByWorker(p, x, w)' <=> HeldByWorker(p, x, w)
  BY <1>1 DEF HeldByWorker
<1>3. CASE queue' = [queue EXCEPT ![q] = Append(queue[q], y)]
           /\ handler' = [handler EXCEPT ![h] = Idle]
  <2>1. ASSUME NEW g
        PROVE  HeldByHandler(p, x, g)' <=> HeldByHandler(p, x, g) /\ g # h
    <3>1. CASE g = h
      BY <1>3, <3>1 DEF HeldByHandler, Idle, TypeOK
    <3>2. CASE g # h
      BY <1>3, <3>2 DEF HeldByHandler, TypeOK
    <3> QED BY <3>1, <3>2
  <2>2. ASSUME NEW i
        PROVE  HeldInQueue(p, x, i)' <=>
                 HeldInQueue(p, x, i) \/ (p = q /\ x = y /\ i = Len(queue[q]) + 1)
    <3>1. CASE p = q
      <4>1. /\ queue[q] \in Seq(Pairs)
            /\ queue'[q] = Append(queue[q], y)
        BY <1>1, <1>3 DEF TypeOK
      <4> HIDE DEF y, q
      <4> QED BY <3>1, <4>1, <1>1 DEF HeldInQueue
    <3>2. CASE p # q
      BY <1>3, <3>2 DEF HeldInQueue, TypeOK
    <3> QED BY <3>1, <3>2
  <2>3. HeldByHandler(p, x, h) <=> p = q /\ x = y
    BY <1>1 DEF HeldByHandler
  <2> HIDE DEF q, y
  <2>4. CASE p = q /\ x = y
    <3>1. HeldByHandler(p, x, h)
      BY <2>3, <2>4
    <3>2. /\ \A g : ~HeldByHandler(p, x, g)'
          /\ \A i : HeldInQueue(p, x, i)' <=> i = Len(queue[q]) + 1
          /\ \A w : ~HeldByWorker(p, x, w)'
      BY <1>2, <2>1, <2>2, <2>4, <3>1 DEF OneHolder
    <3>3. x \in pending'[p]
      BY <1>1, <3>1 DEF OneHolder
    <3> QED BY <3>2, <3>3 DEF OneHolder
  <2>5. CASE ~(p = q /\ x = y)
    BY <1>1, <1>2, <2>1, <2>2, <2>3, <2>5, KeepHolders
  <2> QED BY <2>4, <2>5
<1>4. CASE handler' = [handler EXCEPT ![h] = [at |-> "full", pair |-> y]] /\ UNCHANGED queue
  <2>1. ASSUME NEW g PROVE HeldByHandler(p, x, g)' <=> HeldByHandler(p, x, g)
    <3>1. CASE g = h
      BY <1>1, <1>4, <3>1 DEF HeldByHandler, TypeOK
    <3>2. CASE g # h
      BY <1>4, <3>2 DEF HeldByHandler, TypeOK
    <3> QED BY <3>1, <3>2
  <2>2. \A i : HeldInQueue(p, x, i)' <=> HeldInQueue(p, x, i)
    BY <1>4 DEF HeldInQueue
  <2> QED BY <1>1, <1>2, <2>1, <2>2, KeepHolders
<1> QED BY <1>3, <1>4 DEF Enqueue

\* clearPending by a handler: its pair loses its marker and its only holder.
LEMMA DropHolders ==
  ASSUME TypeOK, NEW h \in Handlers, Drop(h),
         NEW p \in Procs, NEW x \in Pairs, OneHolder(p, x)
  PROVE  OneHolder(p, x)'
<1> DEFINE q == ProcOf[h]  y == handler[h].pair
<1>1. /\ UNCHANGED <<queue, worker>>
      /\ handler[h].at = "full" /\ q \in Procs /\ y \in Pairs
      /\ pending' = [pending EXCEPT ![q] = @ \ {y}]
      /\ handler' = [handler EXCEPT ![h] = Idle]
  BY AtWork DEF Drop
<1>2. \A i : HeldInQueue(p, x, i)' <=> HeldInQueue(p, x, i)
  BY <1>1 DEF HeldInQueue
<1>3. \A w : HeldByWorker(p, x, w)' <=> HeldByWorker(p, x, w)
  BY <1>1 DEF HeldByWorker
<1>4. x \in pending'[p] <=> x \in pending[p] /\ ~(p = q /\ x = y)
  BY <1>1 DEF TypeOK
<1>5. ASSUME NEW g
      PROVE  HeldByHandler(p, x, g)' <=> HeldByHandler(p, x, g) /\ g # h
  <2>1. CASE g = h
    BY <1>1, <2>1 DEF HeldByHandler, Idle, TypeOK
  <2>2. CASE g # h
    BY <1>1, <2>2 DEF HeldByHandler, TypeOK
  <2> QED BY <2>1, <2>2
<1>6. HeldByHandler(p, x, h) <=> p = q /\ x = y
  BY <1>1 DEF HeldByHandler
<1> HIDE DEF q, y
<1> QED BY <1>2, <1>3, <1>4, <1>5, <1>6 DEF OneHolder

\* The worker takes the head of its queue; the rest moves up.
LEMMA TakeHolders ==
  ASSUME TypeOK, NEW w \in Workers, Take(w),
         NEW p \in Procs, NEW x \in Pairs, OneHolder(p, x)
  PROVE  OneHolder(p, x)'
<1> DEFINE q == ProcOf[w]  y == Head(queue[q])
<1>1. /\ UNCHANGED <<pending, handler>>
      /\ worker[w] = Idle /\ q \in Procs /\ queue[q] # <<>>
      /\ worker' = [worker EXCEPT ![w] = [at |-> "sending", pair |-> y]]
      /\ queue' = [queue EXCEPT ![q] = Tail(queue[q])]
  BY AtWork DEF Take
<1>2. \A g : HeldByHandler(p, x, g)' <=> HeldByHandler(p, x, g)
  BY <1>1 DEF HeldByHandler
<1>3. ASSUME NEW v
      PROVE  HeldByWorker(p, x, v)' <=>
               HeldByWorker(p, x, v) \/ (v = w /\ p = q /\ x = y)
  <2>1. CASE v = w
    <3>1. worker'[w] = [at |-> "sending", pair |-> y] /\ worker[w] = Idle
      BY <1>1 DEF TypeOK
    <3>2. worker'[w] # Idle
      BY <3>1 DEF Idle
    <3> QED BY <2>1, <3>1, <3>2 DEF HeldByWorker
  <2>2. CASE v # w
    BY <1>1, <2>2 DEF HeldByWorker, TypeOK
  <2> QED BY <2>1, <2>2
<1>4. queue[q] \in Seq(Pairs) /\ y = queue[q][1] /\ queue'[q] = Tail(queue[q])
  BY <1>1 DEF TypeOK
<1> HIDE DEF q, y
<1>5. CASE p = q
  <2>1. ASSUME NEW i
        PROVE  HeldInQueue(p, x, i)' <=> i \in Nat \ {0} /\ HeldInQueue(p, x, i + 1)
    <3> DEFINE s == queue[q]
    <3>1. /\ s \in Seq(Pairs) /\ s # <<>> /\ Len(s) \in Nat /\ Len(s) > 0
          /\ Len(Tail(s)) = Len(s) - 1
          /\ \A j \in 1 .. Len(s) - 1 : Tail(s)[j] = s[j + 1]
      BY <1>1, <1>4
    <3>2. HeldInQueue(p, x, i)' <=> i \in 1 .. Len(s) - 1 /\ Tail(s)[i] = x
      BY <1>4, <1>5, <3>1 DEF HeldInQueue
    <3>3. HeldInQueue(p, x, i + 1) <=> i + 1 \in 1 .. Len(s) /\ s[i + 1] = x
      BY <1>5 DEF HeldInQueue
    <3> HIDE DEF s
    <3>4. i \in Nat \ {0} => (i + 1 \in 1 .. Len(s) <=> i \in 1 .. Len(s) - 1)
      BY <3>1
    <3>5. i \in 1 .. Len(s) - 1 => i \in Nat \ {0}
      BY <3>1
    <3> QED BY <3>1, <3>2, <3>3, <3>4, <3>5
  <2>2. HeldInQueue(p, x, 1) <=> x = y
    BY <1>1, <1>4, <1>5 DEF HeldInQueue
  <2>3. \A i : HeldInQueue(p, x, i) => i = 1 \/ (i - 1 \in Nat \ {0} /\ i = (i - 1) + 1)
    BY <1>4, <1>5 DEF HeldInQueue
  <2>4. CASE x = y
    <3>1. /\ \A g : ~HeldByHandler(p, x, g)
          /\ \A i : HeldInQueue(p, x, i) => i = 1
          /\ \A v : ~HeldByWorker(p, x, v)
      BY <2>2, <2>4 DEF OneHolder
    <3>2. \A i : ~HeldInQueue(p, x, i)'
      <4>1. ASSUME NEW i, i \in Nat \ {0}, HeldInQueue(p, x, i + 1) PROVE FALSE
        BY <3>1, <4>1
      <4> QED BY <2>1, <4>1
    <3>3. x \in pending'[p]
      BY <1>1, <2>2, <2>4 DEF OneHolder
    <3> QED BY <1>2, <1>3, <1>5, <2>4, <3>1, <3>2, <3>3 DEF OneHolder
  <2>5. CASE x # y
    <3>1. \A v : HeldByWorker(p, x, v)' <=> HeldByWorker(p, x, v)
      BY <1>3, <2>5
    <3>2. (\E i : HeldInQueue(p, x, i)') <=> (\E i : HeldInQueue(p, x, i))
      <4>1. ASSUME NEW i, HeldInQueue(p, x, i) PROVE HeldInQueue(p, x, i - 1)'
        <5>1. i - 1 \in Nat \ {0} /\ i = (i - 1) + 1
          BY <2>2, <2>3, <2>5, <4>1
        <5> QED BY <2>1, <4>1, <5>1
      <4> QED BY <2>1, <4>1
    <3>3. \A i, j : HeldInQueue(p, x, i)' /\ HeldInQueue(p, x, j)' => i = j
      <4>1. ASSUME NEW i, NEW j, HeldInQueue(p, x, i)', HeldInQueue(p, x, j)' PROVE i = j
        <5>1. i \in Nat /\ j \in Nat /\ i + 1 = j + 1
          BY <2>1, <4>1 DEF OneHolder
        <5> QED BY <5>1
      <4> QED BY <4>1
    <3>4. x \in pending'[p] <=> x \in pending[p]
      BY <1>1
    <3>5. \A i : HeldInQueue(p, x, i)' => HeldInQueue(p, x, i + 1)
      BY <2>1
    <3> QED BY <1>2, <3>1, <3>2, <3>3, <3>4, <3>5 DEF OneHolder
  <2> QED BY <2>4, <2>5
<1>6. CASE p # q
  <2>1. \A i : HeldInQueue(p, x, i)' <=> HeldInQueue(p, x, i)
    BY <1>1, <1>6 DEF HeldInQueue, TypeOK
  <2>2. \A v : HeldByWorker(p, x, v)' <=> HeldByWorker(p, x, v)
    BY <1>3, <1>6
  <2>3. x \in pending'[p] <=> x \in pending[p]
    BY <1>1
  <2> QED BY <1>2, <2>1, <2>2, <2>3, KeepHolders
<1> QED BY <1>5, <1>6

\* Sending and recording keep the pair in the worker's hands.
LEMMA AdvanceHolders ==
  ASSUME TypeOK, NEW w \in Workers, Send(w) \/ Record(w),
         NEW p \in Procs, NEW x \in Pairs, OneHolder(p, x)
  PROVE  OneHolder(p, x)'
<1>1. /\ UNCHANGED <<pending, queue, handler>>
      /\ worker[w].at # "idle"
      /\ \E stage \in WorkerStages :
           worker' = [worker EXCEPT ![w] = [at |-> stage, pair |-> worker[w].pair]]
  BY DEF Send, Record, Advance, WorkerStages
<1>2. ASSUME NEW v PROVE HeldByWorker(p, x, v)' <=> HeldByWorker(p, x, v)
  <2>1. CASE v = w
    <3>1. PICK stage \in WorkerStages : worker'[w] = [at |-> stage, pair |-> worker[w].pair]
      BY <1>1 DEF TypeOK
    <3>2. worker[w] # Idle /\ worker'[w] # Idle /\ worker'[w].pair = worker[w].pair
      BY <1>1, <3>1 DEF Idle, WorkerStages
    <3> QED BY <2>1, <3>2 DEF HeldByWorker
  <2>2. CASE v # w
    BY <1>1, <2>2 DEF HeldByWorker, TypeOK
  <2> QED BY <2>1, <2>2
<1>3. \A g : HeldByHandler(p, x, g)' <=> HeldByHandler(p, x, g)
  BY <1>1 DEF HeldByHandler
<1>4. \A i : HeldInQueue(p, x, i)' <=> HeldInQueue(p, x, i)
  BY <1>1 DEF HeldInQueue
<1> QED BY <1>1, <1>2, <1>3, <1>4, KeepHolders

\* clearPending by a worker.
LEMMA ReleaseHolders ==
  ASSUME TypeOK, NEW w \in Workers, Release(w),
         NEW p \in Procs, NEW x \in Pairs, OneHolder(p, x)
  PROVE  OneHolder(p, x)'
<1> DEFINE q == ProcOf[w]  y == worker[w].pair
<1>1. /\ UNCHANGED <<queue, handler>>
      /\ worker[w].at = "done" /\ q \in Procs /\ y \in Pairs
      /\ pending' = [pending EXCEPT ![q] = @ \ {y}]
      /\ worker' = [worker EXCEPT ![w] = Idle]
  BY AtWork DEF Release
<1>2. \A i : HeldInQueue(p, x, i)' <=> HeldInQueue(p, x, i)
  BY <1>1 DEF HeldInQueue
<1>3. \A g : HeldByHandler(p, x, g)' <=> HeldByHandler(p, x, g)
  BY <1>1 DEF HeldByHandler
<1>4. x \in pending'[p] <=> x \in pending[p] /\ ~(p = q /\ x = y)
  BY <1>1 DEF TypeOK
<1>5. ASSUME NEW v
      PROVE  HeldByWorker(p, x, v)' <=> HeldByWorker(p, x, v) /\ v # w
  <2>1. CASE v = w
    BY <1>1, <2>1 DEF HeldByWorker, TypeOK
  <2>2. CASE v # w
    BY <1>1, <2>2 DEF HeldByWorker, TypeOK
  <2> QED BY <2>1, <2>2
<1>6. HeldByWorker(p, x, w) <=> p = q /\ x = y
  BY <1>1 DEF HeldByWorker, Idle
<1> HIDE DEF q, y
<1> QED BY <1>2, <1>3, <1>4, <1>5, <1>6 DEF OneHolder

\* A process that exits forgets its markers with their holders.
LEMMA ExitHolders ==
  ASSUME TypeOK, NEW q \in Procs, Exit(q),
         NEW p \in Procs, NEW x \in Pairs, OneHolder(p, x)
  PROVE  OneHolder(p, x)'
<1>1. CASE p = q
  <2>1. x \notin pending'[p]
    BY <1>1 DEF Exit, TypeOK
  <2>2. ASSUME NEW g PROVE ~HeldByHandler(p, x, g)'
    BY <1>1 DEF Exit, HeldByHandler, Idle
  <2>3. ASSUME NEW i PROVE ~HeldInQueue(p, x, i)'
    <3>1. queue'[p] = <<>>
      BY <1>1 DEF Exit, TypeOK
    <3> QED BY <3>1 DEF HeldInQueue
  <2>4. ASSUME NEW w PROVE ~HeldByWorker(p, x, w)'
    BY <1>1 DEF Exit, HeldByWorker
  <2> QED BY <2>1, <2>2, <2>3, <2>4 DEF OneHolder
<1>2. CASE p # q
  <2>1. x \in pending'[p] <=> x \in pending[p]
    BY <1>2 DEF Exit, TypeOK
  <2>2. ASSUME NEW g PROVE HeldByHandler(p, x, g)' <=> HeldByHandler(p, x, g)
    BY <1>2 DEF Exit, HeldByHandler
  <2>3. ASSUME NEW i PROVE HeldInQueue(p, x, i)' <=> HeldInQueue(p, x, i)
    BY <1>2 DEF Exit, HeldInQueue, TypeOK
  <2>4. ASSUME NEW w PROVE HeldByWorker(p, x, w)' <=> HeldByWorker(p, x, w)
    BY <1>2 DEF Exit, HeldByWorker
  <2> QED BY <2>1, <2>2, <2>3, <2>4, KeepHolders
<1> QED BY <1>1, <1>2

LEMMA NextHolders ==
  ASSUME TypeOK, [Next]_vars, NEW p \in Procs, NEW x \in Pairs, OneHolder(p, x)
  PROVE  OneHolder(p, x)'
<1>1. CASE UNCHANGED vars
  BY <1>1 DEF vars, OneHolder, HeldByHandler, HeldInQueue, HeldByWorker
<1>2. CASE \E h \in Handlers, y \in Pairs : Check(h, y)
  BY <1>2, CheckHolders
<1>3. ASSUME NEW h \in Handlers, HandlerStep(h) PROVE OneHolder(p, x)'
  BY <1>3, MarkHolders, EnqueueHolders, DropHolders DEF HandlerStep
<1>4. ASSUME NEW w \in Workers, WorkerStep(w) PROVE OneHolder(p, x)'
  BY <1>4, TakeHolders, AdvanceHolders, ReleaseHolders DEF WorkerStep
<1>5. CASE \E q \in Procs : Exit(q)
  BY <1>5, ExitHolders
<1> QED BY <1>1, <1>2, <1>3, <1>4, <1>5 DEF Next

\* With one holder of each kind at most and of one kind only, the set of holders
\* is empty or a singleton.
LEMMA HoldersAgree ==
  ASSUME \A p \in Procs, x \in Pairs : OneHolder(p, x)
  PROVE  PendingIsWork
<1> SUFFICES ASSUME NEW p \in Procs, NEW x \in Pairs
             PROVE  /\ x \in pending[p] <=> Holders(p, x) # {}
                    /\ \A a, b \in Holders(p, x) : a = b
  BY DEF PendingIsWork
<1>1. OneHolder(p, x)
  OBVIOUS
<1>2. ASSUME NEW a
      PROVE  a \in Holders(p, x) <=> \/ \E h : a = <<"handler", h>> /\ HeldByHandler(p, x, h)
                                     \/ \E i : a = <<"queue", i>> /\ HeldInQueue(p, x, i)
                                     \/ \E w : a = <<"worker", w>> /\ HeldByWorker(p, x, w)
  BY DEF Holders, HeldByHandler, HeldInQueue, HeldByWorker
<1>3. Holders(p, x) # {} <=> \/ \E h : HeldByHandler(p, x, h)
                             \/ \E i : HeldInQueue(p, x, i)
                             \/ \E w : HeldByWorker(p, x, w)
  <2>1. \A h : HeldByHandler(p, x, h) => <<"handler", h>> \in Holders(p, x)
    BY <1>2
  <2>2. \A i : HeldInQueue(p, x, i) => <<"queue", i>> \in Holders(p, x)
    BY <1>2
  <2>3. \A w : HeldByWorker(p, x, w) => <<"worker", w>> \in Holders(p, x)
    BY <1>2
  <2> QED BY <1>2, <2>1, <2>2, <2>3
<1>4. ASSUME NEW a \in Holders(p, x), NEW b \in Holders(p, x) PROVE a = b
  <2>1. CASE \E h : a = <<"handler", h>> /\ HeldByHandler(p, x, h)
    BY <1>1, <1>2, <1>4, <2>1 DEF OneHolder
  <2>2. CASE \E i : a = <<"queue", i>> /\ HeldInQueue(p, x, i)
    BY <1>1, <1>2, <1>4, <2>2 DEF OneHolder
  <2>3. CASE \E w : a = <<"worker", w>> /\ HeldByWorker(p, x, w)
    BY <1>1, <1>2, <1>4, <2>3 DEF OneHolder
  <2> QED BY <1>2, <1>4, <2>1, <2>2, <2>3
<1> QED BY <1>1, <1>3, <1>4 DEF OneHolder

-----------------------------------------------------------------------------
(* What is recorded was sent.                                              *)

\* Only Record changes the table, and it adds at most the pair of its worker.
LEMMA RecordAdds ==
  ASSUME TypeOK, NEW w \in Workers, Record(w)
  PROVE  worker[w].at = "sent" /\ Recorded' \subseteq Recorded \cup {worker[w].pair}
<1> DEFINE x == worker[w].pair
           s == IF x \in Recorded THEN records ELSE Append(records, x)
           e == IF Len(s) > Retained THEN Len(s) - Retained ELSE 0
<1>1. worker[w].at = "sent" /\ x \in Pairs
  BY AtWork DEF Record
<1>2. s \in Seq(Pairs)
  BY <1>1 DEF TypeOK
<1>3. ToSet(s) \subseteq Recorded \cup {x}
  <2>1. CASE x \in Recorded
    BY <2>1 DEF Recorded
  <2>2. CASE x \notin Recorded
    <3>1. /\ s = Append(records, x) /\ records \in Seq(Pairs)
          /\ Len(s) = Len(records) + 1 /\ Len(records) \in Nat
      BY <1>1, <2>2 DEF TypeOK
    <3>2. ASSUME NEW i \in DOMAIN s PROVE s[i] \in Recorded \cup {x}
      <4>1. i \in 1 .. Len(records) + 1
        BY <1>2, <3>1
      <4>2. CASE i = Len(records) + 1
        BY <1>1, <3>1, <4>2
      <4>3. CASE i \in 1 .. Len(records)
        <5>1. s[i] = records[i] /\ i \in DOMAIN records
          BY <1>1, <3>1, <4>3
        <5> QED BY <5>1 DEF Recorded, ToSet
      <4> QED BY <3>1, <4>1, <4>2, <4>3
    <3> HIDE DEF s
    <3> QED BY <3>2 DEF ToSet
  <2> QED BY <2>1, <2>2
<1>4. records' = SubSeq(s, e + 1, Len(s)) \/ UNCHANGED records
  BY DEF Record
<1>5. CASE records' = SubSeq(s, e + 1, Len(s))
  <2> HIDE DEF s
  <2>1. ToSet(records') \subseteq ToSet(s)
    BY <1>1, <1>2, <1>5, RecordTypes
  <2> HIDE DEF x
  <2>2. Recorded' = ToSet(records')
    BY DEF Recorded
  <2>3. Recorded' \subseteq Recorded \cup {x}
    BY <1>3, <2>1, <2>2
  <2> QED BY <1>1, <2>3 DEF x
<1>6. CASE UNCHANGED records
  BY <1>1, <1>6 DEF Recorded
<1> QED BY <1>4, <1>5, <1>6

LEMMA NextSent ==
  ASSUME TypeOK, RecordedWasSent, SentBeforeRecord, [Next]_vars
  PROVE  RecordedWasSent' /\ SentBeforeRecord'
<1>1. CASE UNCHANGED <<records, worker, sent>>
  BY <1>1 DEF RecordedWasSent, SentBeforeRecord, Recorded
<1>2. ASSUME NEW w \in Workers, Take(w) \/ Release(w)
      PROVE  RecordedWasSent' /\ SentBeforeRecord'
  <2>1. UNCHANGED <<records, sent>>
    BY <1>2 DEF Take, Release
  <2>2. worker'[w].at # "sent" /\ \A v \in Workers \ {w} : worker'[v] = worker[v]
    BY <1>2 DEF Take, Release, Idle, TypeOK
  <2> QED BY <2>1, <2>2 DEF RecordedWasSent, SentBeforeRecord, Recorded
<1>3. ASSUME NEW w \in Workers, Send(w)
      PROVE  RecordedWasSent' /\ SentBeforeRecord'
  <2>1. sent \subseteq sent' /\ UNCHANGED records
    BY <1>3 DEF Send
  <2>2. \/ worker[w].pair \in sent' /\ worker'[w] = [at |-> "sent", pair |-> worker[w].pair]
        \/ worker'[w] = [at |-> "done", pair |-> worker[w].pair]
    BY <1>3 DEF Send, Advance, TypeOK
  <2>3. \A v \in Workers \ {w} : worker'[v] = worker[v]
    BY <1>3 DEF Send, Advance, TypeOK
  <2>4. RecordedWasSent'
    BY <2>1 DEF RecordedWasSent, Recorded
  <2>5. ASSUME NEW v \in Workers, worker'[v].at = "sent" PROVE worker'[v].pair \in sent'
    <3>1. CASE v = w
      BY <2>2, <2>5, <3>1
    <3>2. CASE v # w
      BY <2>1, <2>3, <2>5, <3>2 DEF SentBeforeRecord
    <3> QED BY <3>1, <3>2
  <2> QED BY <2>4, <2>5 DEF SentBeforeRecord
<1>4. ASSUME NEW w \in Workers, Record(w)
      PROVE  RecordedWasSent' /\ SentBeforeRecord'
  <2>1. UNCHANGED sent /\ worker[w].pair \in sent
        /\ Recorded' \subseteq Recorded \cup {worker[w].pair}
    BY <1>4, RecordAdds DEF Record, SentBeforeRecord
  <2>2. worker'[w].at # "sent" /\ \A v \in Workers \ {w} : worker'[v] = worker[v]
    BY <1>4 DEF Record, Advance, TypeOK
  <2> QED BY <2>1, <2>2 DEF RecordedWasSent, SentBeforeRecord
<1>5. ASSUME NEW p \in Procs, Exit(p)
      PROVE  RecordedWasSent' /\ SentBeforeRecord'
  <2>1. UNCHANGED <<records, sent>>
    BY <1>5 DEF Exit
  <2>2. \A v \in Workers : worker'[v] = Idle \/ worker'[v] = worker[v]
    BY <1>5 DEF Exit
  <2> QED BY <2>1, <2>2 DEF RecordedWasSent, SentBeforeRecord, Recorded, Idle
<1>6. ASSUME NEW h \in Handlers, HandlerStep(h) \/ \E x \in Pairs : Check(h, x)
      PROVE  UNCHANGED <<records, worker, sent>>
  BY <1>6 DEF HandlerStep, Check, Mark, Enqueue, Drop
<1> QED BY <1>1, <1>2, <1>3, <1>4, <1>5, <1>6 DEF Next, WorkerStep, vars

-----------------------------------------------------------------------------
(* The invariant, and what follows from it.                                *)

LEMMA InitHolds == Init => AInv
<1> SUFFICES ASSUME Init PROVE AInv
  OBVIOUS
<1>1. TypeOK
  BY AlertsAssumption DEF AlertsAssumption, Init, TypeOK
<1>2. ASSUME NEW p \in Procs, NEW x \in Pairs PROVE OneHolder(p, x)
  BY DEF Init, Idle, OneHolder, HeldByHandler, HeldInQueue, HeldByWorker
<1>3. RecordedWasSent
  <2>1. DOMAIN records = {}
    BY DEF Init
  <2> QED BY <2>1 DEF RecordedWasSent, Recorded, ToSet
<1>4. SentBeforeRecord
  BY DEF Init, Idle, SentBeforeRecord
<1> QED BY <1>1, <1>2, <1>3, <1>4 DEF AInv

LEMMA NextHolds == AInv /\ [Next]_vars => AInv'
BY NextTypes, NextHolders, NextSent DEF AInv

\* The invariant of all the steps of AlertBlocked and of the workers.
THEOREM Invariance == Spec => []AInv
BY InitHolds, NextHolds, PTL DEF Spec

\* No insertion leaves the table longer than maxBlockedRangeAlerts, and no order
\* of handlers fills a queue beyond alertQueueSize.
THEOREM TypeCorrect == Spec => []TypeOK
<1>1. AInv => TypeOK
  BY DEF AInv
<1> QED BY <1>1, Invariance, PTL

\* markPending and clearPending keep the pending map equal to the work in hand:
\* one handler, queue place or worker for each marker, and a marker for each.
THEOREM PendingMirrorsWork == Spec => []PendingIsWork
<1>1. AInv => PendingIsWork
  BY HoldersAgree DEF AInv
<1> QED BY <1>1, Invariance, PTL

\* process records a pair only after Send succeeded for it, so the table never
\* suppresses a first notification, whatever fails and whoever exits.
THEOREM OnlyDeliveredRecorded == Spec => []RecordedWasSent
<1>1. AInv => RecordedWasSent
  BY DEF AInv
<1> QED BY <1>1, Invariance, PTL

-----------------------------------------------------------------------------
(* A settled pair stays quiet.                                             *)

LEMMA SettledStep ==
  ASSUME TypeOK, [Next]_vars, NEW x \in Pairs, Settled(x), x \in Recorded'
  PROVE  Settled(x)'
<1>1. CASE UNCHANGED vars
  BY <1>1 DEF vars, Settled, Recorded
<1>2. ASSUME NEW h \in Handlers, NEW y \in Pairs, Check(h, y) PROVE Settled(x)'
  <2>1. UNCHANGED <<records, queue, worker>>
    BY <1>2 DEF Check
  <2>2. UNCHANGED handler
        \/ (y # x /\ handler' = [handler EXCEPT ![h] = [at |-> "checked", pair |-> y]])
    BY <1>2 DEF Check, Settled
  <2>3. ASSUME NEW g \in Handlers, handler'[g] # Idle PROVE handler'[g].pair # x
    <3>1. handler'[g] = handler[g] \/ (y # x /\ handler'[g] = [at |-> "checked", pair |-> y])
      BY <2>2 DEF TypeOK
    <3> QED BY <2>3, <3>1 DEF Settled
  <2> QED BY <2>1, <2>3 DEF Settled, Recorded
<1>3. ASSUME NEW h \in Handlers, HandlerStep(h) PROVE Settled(x)'
  <2>1. UNCHANGED <<records, worker>>
    BY <1>3 DEF HandlerStep, Mark, Enqueue, Drop
  <2>2. handler[h] # Idle /\ handler[h].pair # x /\ handler[h].pair \in Pairs
    BY <1>3, AtWork DEF HandlerStep, Mark, Enqueue, Drop, Settled, HandlerStages
  <2>3. /\ handler'[h] = Idle \/ handler'[h].pair = handler[h].pair
        /\ \A g \in Handlers \ {h} : handler'[g] = handler[g]
    BY <1>3 DEF HandlerStep, Mark, Enqueue, Drop, TypeOK
  <2>4. \A g \in Handlers : handler'[g] # Idle => handler'[g].pair # x
    BY <2>2, <2>3 DEF Settled
  <2>5. UNCHANGED queue
        \/ queue' = [queue EXCEPT ![ProcOf[h]] = Append(queue[ProcOf[h]], handler[h].pair)]
    BY <1>3 DEF HandlerStep, Mark, Enqueue, Drop
  <2>6. ASSUME NEW p \in Procs PROVE x \notin ToSet(queue'[p])
    <3> DEFINE s == queue[p]  y == handler[h].pair
    <3>1. queue'[p] = s \/ queue'[p] = Append(s, y)
      BY <2>5 DEF TypeOK
    <3>2. s \in Seq(Pairs) /\ x \notin ToSet(s) /\ y \in Pairs /\ y # x
      BY <2>2 DEF Settled, TypeOK
    <3> HIDE DEF s, y
    <3>3. \A i \in DOMAIN Append(s, y) : Append(s, y)[i] # x
      <4>1. \A i \in 1 .. Len(s) : s[i] # x
        BY <3>2 DEF ToSet
      <4> QED BY <3>2, <4>1
    <3>4. x \notin ToSet(Append(s, y))
      BY <3>3 DEF ToSet
    <3> QED BY <3>1, <3>2, <3>4
  <2> QED BY <2>1, <2>4, <2>6 DEF Settled, Recorded
<1>4. ASSUME NEW w \in Workers, WorkerStep(w) PROVE Settled(x)'
  <2>1. UNCHANGED handler
    BY <1>4 DEF WorkerStep, Take, Send, Record, Release
  <2>2. CASE Take(w)
    <3> DEFINE s == queue[ProcOf[w]]
    <3>1. s \in Seq(Pairs) /\ s # <<>> /\ x \notin ToSet(s)
      BY <2>2, AtWork DEF Take, Settled, TypeOK
    <3>2. /\ worker'[w].pair = Head(s) /\ UNCHANGED records
          /\ \A v \in Workers \ {w} : worker'[v] = worker[v]
          /\ \A p \in Procs : queue'[p] = queue[p] \/ queue'[p] = Tail(s)
      BY <2>2 DEF Take, TypeOK
    <3> HIDE DEF s
    <3>3. \A i \in 1 .. Len(s) : s[i] # x
      BY <3>1 DEF ToSet
    <3>4. Head(s) # x
      BY <3>1, <3>3
    <3>5. \A i \in DOMAIN Tail(s) : Tail(s)[i] # x
      BY <3>1, <3>3
    <3>6. x \notin ToSet(Tail(s))
      BY <3>5 DEF ToSet
    <3>7. \A v \in Workers : worker'[v].at = "sending" => worker'[v].pair # x
      BY <3>2, <3>4 DEF Settled
    <3>8. \A p \in Procs : x \notin ToSet(queue'[p])
      BY <3>2, <3>6 DEF Settled
    <3> QED BY <2>1, <3>7, <3>8 DEF Settled
  <2>3. CASE Send(w) \/ Record(w) \/ Release(w)
    <3>1. /\ worker'[w].at # "sending" /\ UNCHANGED queue
          /\ \A v \in Workers \ {w} : worker'[v] = worker[v]
      BY <2>3 DEF Send, Record, Release, Advance, Idle, TypeOK
    <3> QED BY <2>1, <3>1 DEF Settled
  <2> QED BY <1>4, <2>2, <2>3 DEF WorkerStep
<1>5. ASSUME NEW q \in Procs, Exit(q) PROVE Settled(x)'
  <2>1. /\ \A h \in Handlers : handler'[h] = Idle \/ handler'[h] = handler[h]
        /\ \A w \in Workers : worker'[w] = Idle \/ worker'[w] = worker[w]
        /\ \A p \in Procs : queue'[p] = <<>> \/ queue'[p] = queue[p]
    BY <1>5 DEF Exit, TypeOK
  <2>2. x \notin ToSet(<<>>)
    BY DEF ToSet
  <2>3. Idle.at # "sending"
    BY DEF Idle
  <2> QED BY <2>1, <2>2, <2>3 DEF Settled
<1> QED BY <1>1, <1>2, <1>3, <1>4, <1>5 DEF Next

\* HasBlockedRangeAlert ends every later attempt: once x is in the table and no
\* attempt that looked before is under way, no step of any process starts one
\* that can notify, as long as the table keeps x.
THEOREM Quiet == Spec => SettledStaysQuiet
<1>1. TypeOK /\ [Next]_vars =>
        [\A x \in Pairs : Settled(x) /\ x \in Recorded' => Settled(x)']_vars
  BY SettledStep
<1> QED BY <1>1, TypeCorrect, PTL DEF Spec, SettledStaysQuiet
=============================================================================
