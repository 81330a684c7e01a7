------------------------------ MODULE Serving -------------------------------
(***************************************************************************)
(* Serving, capacity and handoff: cmdServe, its connection callback and    *)
(* routeGuard.  A process listens on every route and says it is ready;     *)
(* asked to leave, it closes its listeners, waits for its connections up   *)
(* to a limit, closes the store and exits.  On SIGHUP a successor inherits *)
(* the sockets first.  A connection holds a slot of its process and, on a  *)
(* limited route, one of the route; a gauge counts it in between.  What a  *)
(* handler does with its connection is in modules Gate and Relay.          *)
(***************************************************************************)
EXTENDS Integers, FiniteSets

CONSTANTS
  Procs,         \* processes; one that has gone may be started again
  Routes,        \* listeners
  Conns,         \* connections; one that has ended may come again
  RouteOf,       \* the route each connection comes to
  MaxConns,      \* max_concurrent_connections, of each process
  MaxOf,         \* max-concurrent of each route; zero: no limit of its own
  DrainTimeout,  \* --drain-timeout in ticks; zero: for ever
  Grace          \* shutdownGrace in ticks

ASSUME ServingAssumption ==
  /\ IsFiniteSet(Conns)
  /\ RouteOf \in [Conns -> Routes]
  /\ MaxConns \in Nat \ {0}
  /\ MaxOf \in [Routes -> Nat]
  /\ DrainTimeout \in Nat
  /\ Grace \in Nat \ {0}

VARIABLES
  phase,   \* per process: how far cmdServe has got
  open,    \* per process: the listeners it accepts on
  asked,   \* per process: why it should leave, "handoff" or "term"
  limit,   \* per process: how long it drains
  age,     \* per process: ticks since it began to
  conn,    \* per connection: where its handler is, in which process
  global,  \* per process: slots of the proxy server in use
  sem,     \* per process and route: slots of routeGuard.sem in use
  active   \* per process and route: routeMetrics.active

procVars == <<phase, open, asked, limit, age>>
connVars == <<conn, global, sem, active>>
vars == <<procVars, connVars>>

Phases == {"gone", "starting", "serving", "draining", "stopped"}
Stages == {"accepted", "admitted", "counted", "ended", "uncounted", "leaving"}

Free == [at |-> "free"]
Guarded == Procs \X Routes

\* The connections of process p, on route r, and those that are at some stage.
Of(p) == {c \in Conns : conn[c] # Free /\ conn[c].proc = p}
On(p, r, stages) == {c \in Of(p) : RouteOf[c] = r /\ conn[c].at \in stages}

\* Where a connection holds a slot of its route, and where the gauge counts it.
Holding == {"admitted", "counted", "ended", "uncounted"}
Counted == {"counted", "ended"}

Init ==
  /\ phase = [p \in Procs |-> "gone"]
  /\ open = [p \in Procs |-> {}]
  /\ asked = [p \in Procs |-> {}]
  /\ limit = [p \in Procs |-> 0]
  /\ age = [p \in Procs |-> 0]
  /\ conn = [c \in Conns |-> Free]
  /\ global = [p \in Procs |-> 0]
  /\ sem = [g \in Guarded |-> 0]
  /\ active = [g \in Guarded |-> 0]

-----------------------------------------------------------------------------
(* A connection.                                                           *)

MoveTo(c, stage) == conn' = [conn EXCEPT ![c].at = stage]

\* The accept loop hands a connection to the callback if the process has a slot;
\* otherwise it drops the connection, which changes nothing here.
Accept(c, p) ==
  /\ conn[c] = Free
  /\ RouteOf[c] \in open[p]
  /\ global[p] < MaxConns
  /\ conn' = [conn EXCEPT ![c] = [at |-> "accepted", proc |-> p]]
  /\ global' = [global EXCEPT ![p] = @ + 1]
  /\ UNCHANGED <<procVars, sem, active>>

\* Mutant: the release is deferred before the slot is taken, so a connection
\* refused by its route releases too.
AcquireOrRelease(c) ==
  LET g == <<conn[c].proc, RouteOf[c]>>  max == MaxOf[RouteOf[c]] IN
  /\ conn[c].at = "accepted"
  /\ IF max > 0 /\ sem[g] >= max
     THEN MoveTo(c, "ended") /\ UNCHANGED sem
     ELSE /\ MoveTo(c, "admitted")
          /\ sem' = IF max > 0 THEN [sem EXCEPT ![g] = @ + 1] ELSE sem
  /\ UNCHANGED <<procVars, global, active>>

\* acquire: the slot of the route, or the connection is closed at once.
Acquire(c) ==
  LET g == <<conn[c].proc, RouteOf[c]>>  max == MaxOf[RouteOf[c]] IN
  /\ conn[c].at = "accepted"
  /\ IF max > 0 /\ sem[g] >= max
     THEN MoveTo(c, "leaving") /\ UNCHANGED sem
     ELSE /\ MoveTo(c, "admitted")
          /\ sem' = IF max > 0 THEN [sem EXCEPT ![g] = @ + 1] ELSE sem
  /\ UNCHANGED <<procVars, global, active>>

\* acquire: then the gauge.
Count(c) ==
  /\ conn[c].at = "admitted"
  /\ MoveTo(c, "counted")
  /\ active' = [active EXCEPT ![<<conn[c].proc, RouteOf[c]>>] = @ + 1]
  /\ UNCHANGED <<procVars, global, sem>>

\* handleConnWithScope or handleSMTPConn returns, sooner or later.
Handle(c) ==
  /\ conn[c].at = "counted"
  /\ MoveTo(c, "ended")
  /\ UNCHANGED <<procVars, global, sem, active>>

\* Mutant: the slot is freed before the gauge goes down.
ReleaseSlotFirst(c) ==
  LET g == <<conn[c].proc, RouteOf[c]>> IN
  /\ \/ /\ conn[c].at = "ended"
        /\ MoveTo(c, "uncounted")
        /\ sem' = IF MaxOf[RouteOf[c]] > 0 THEN [sem EXCEPT ![g] = @ - 1] ELSE sem
        /\ UNCHANGED active
     \/ /\ conn[c].at = "uncounted"
        /\ MoveTo(c, "leaving")
        /\ active' = [active EXCEPT ![g] = @ - 1]
        /\ UNCHANGED sem
  /\ UNCHANGED <<procVars, global>>

\* release: the gauge goes down, then the slot is free.
Release(c) ==
  LET g == <<conn[c].proc, RouteOf[c]>> IN
  /\ \/ /\ conn[c].at = "ended"
        /\ MoveTo(c, "uncounted")
        /\ active' = [active EXCEPT ![g] = @ - 1]
        /\ UNCHANGED sem
     \/ /\ conn[c].at = "uncounted"
        /\ MoveTo(c, "leaving")
        /\ sem' = IF MaxOf[RouteOf[c]] > 0 THEN [sem EXCEPT ![g] = @ - 1] ELSE sem
        /\ UNCHANGED active
  /\ UNCHANGED <<procVars, global>>

\* The callback has returned.
Leave(c) ==
  /\ conn[c].at = "leaving"
  /\ conn' = [conn EXCEPT ![c] = Free]
  /\ global' = [global EXCEPT ![conn[c].proc] = @ - 1]
  /\ UNCHANGED <<procVars, sem, active>>

-----------------------------------------------------------------------------
(* A process.                                                              *)

\* The first process, or one that the serving process starts on SIGHUP: not
\* while it is asked to leave, nor while another is still there.
Launch(p) ==
  /\ phase[p] = "gone"
  /\ \/ \A q \in Procs : phase[q] = "gone"
     \/ \E parent \in Procs :
          /\ phase[parent] = "serving" /\ asked[parent] = {}
          /\ \A q \in Procs \ {parent} : phase[q] = "gone"
  /\ phase' = [phase EXCEPT ![p] = "starting"]
  /\ UNCHANGED <<open, asked, limit, age, connVars>>

\* Accepting begins on each route as it is listened on.
Listen(p, r) ==
  /\ phase[p] = "starting"
  /\ r \notin open[p]
  /\ open' = [open EXCEPT ![p] = @ \cup {r}]
  /\ UNCHANGED <<phase, asked, limit, age, connVars>>

\* The parent, if it is still serving, learns that it has a successor.
Announce(p) ==
  /\ phase' = [phase EXCEPT ![p] = "serving"]
  /\ asked' = [q \in Procs |-> IF q # p /\ phase[q] = "serving"
                               THEN asked[q] \cup {"handoff"} ELSE asked[q]]
  /\ UNCHANGED <<open, limit, age, connVars>>

\* Mutant: ready before every route is listened on.
ReadyEarly(p) ==
  /\ phase[p] = "starting"
  /\ Announce(p)

Ready(p) ==
  /\ phase[p] = "starting"
  /\ open[p] = Routes
  /\ Announce(p)

\* SIGTERM or SIGINT.  One that arrives once the process drains changes nothing:
\* the limit has been chosen.
Terminate(p) ==
  /\ phase[p] \in {"starting", "serving"}
  /\ asked' = [asked EXCEPT ![p] = @ \cup {"term"}]
  /\ UNCHANGED <<phase, open, limit, age, connVars>>

\* process.Wait has returned: the listeners are closed one after the other.
StopListening(p, r) ==
  /\ phase[p] = "serving" /\ asked[p] # {}
  /\ r \in open[p]
  /\ open' = [open EXCEPT ![p] = @ \ {r}]
  /\ UNCHANGED <<phase, asked, limit, age, connVars>>

\* Mutant: the listeners stay open.
DrainListening(p) ==
  /\ phase[p] = "serving" /\ asked[p] # {}
  /\ phase' = [phase EXCEPT ![p] = "draining"]
  /\ limit' = [limit EXCEPT ![p] = IF "term" \in asked[p] THEN Grace ELSE DrainTimeout]
  /\ UNCHANGED <<open, asked, age, connVars>>

\* Background writers stop and the limit of the drain is chosen.
Drain(p) ==
  /\ phase[p] = "serving" /\ asked[p] # {}
  /\ open[p] = {}
  /\ phase' = [phase EXCEPT ![p] = "draining"]
  /\ limit' = [limit EXCEPT ![p] = IF "term" \in asked[p] THEN Grace ELSE DrainTimeout]
  /\ UNCHANGED <<open, asked, age, connVars>>

Tick(p) ==
  /\ phase[p] = "draining"
  /\ age[p] < limit[p]
  /\ age' = [age EXCEPT ![p] = @ + 1]
  /\ UNCHANGED <<phase, open, asked, limit, connVars>>

Expired(p) == limit[p] # 0 /\ age[p] = limit[p]

\* Mutant: the drain waits for its connections without a limit.
DrainEndsEmpty(p) ==
  /\ phase[p] = "draining"
  /\ Of(p) = {}
  /\ phase' = [phase EXCEPT ![p] = "stopped"]
  /\ UNCHANGED <<open, asked, limit, age, connVars>>

\* Drain returns, with every connection gone or at its limit, and the store is
\* closed, under the handlers that are left.
DrainEnds(p) ==
  /\ phase[p] = "draining"
  /\ Of(p) = {} \/ Expired(p)
  /\ phase' = [phase EXCEPT ![p] = "stopped"]
  /\ UNCHANGED <<open, asked, limit, age, connVars>>

\* cmdServe returns, or fails before it is ready; what is left is cut.
Exit(p) ==
  /\ phase[p] \in {"starting", "stopped"}
  /\ phase' = [phase EXCEPT ![p] = "gone"]
  /\ open' = [open EXCEPT ![p] = {}]
  /\ asked' = [asked EXCEPT ![p] = {}]
  /\ limit' = [limit EXCEPT ![p] = 0]
  /\ age' = [age EXCEPT ![p] = 0]
  /\ conn' = [c \in Conns |-> IF c \in Of(p) THEN Free ELSE conn[c]]
  /\ global' = [global EXCEPT ![p] = 0]
  /\ sem' = [g \in Guarded |-> IF g[1] = p THEN 0 ELSE sem[g]]
  /\ active' = [g \in Guarded |-> IF g[1] = p THEN 0 ELSE active[g]]

ConnStep(c) ==
  \/ \E p \in Procs : Accept(c, p)
  \/ Acquire(c) \/ Count(c) \/ Handle(c) \/ Release(c) \/ Leave(c)

\* What a process that has been asked to leave does about it.
Departs(p) ==
  \/ \E r \in Routes : StopListening(p, r)
  \/ Drain(p) \/ Tick(p) \/ DrainEnds(p)
  \/ phase[p] = "stopped" /\ Exit(p)

Next ==
  \/ \E c \in Conns : ConnStep(c)
  \/ \E p \in Procs :
       \/ Launch(p) \/ Ready(p) \/ Terminate(p) \/ Departs(p)
       \/ \E r \in Routes : Listen(p, r)
       \/ phase[p] = "starting" /\ Exit(p)

Spec == Init /\ [][Next]_vars

\* A process that should leave goes on, and time passes.  No connection need end.
FairSpec == Spec /\ \A p \in Procs : WF_vars(Departs(p))

-----------------------------------------------------------------------------
TypeOK ==
  /\ phase \in [Procs -> Phases]
  /\ open \in [Procs -> SUBSET Routes]
  /\ asked \in [Procs -> SUBSET {"handoff", "term"}]
  /\ limit \in [Procs -> {0, DrainTimeout, Grace}]
  /\ age \in [Procs -> Nat]
  /\ conn \in [Conns -> {Free} \cup [at : Stages, proc : Procs]]
  /\ global \in [Procs -> 0 .. MaxConns]
  /\ sem \in [Guarded -> Nat]
  /\ active \in [Guarded -> Nat]

\* Every counter counts exactly the connections that owe it something back: no way
\* out of the callback leaks a slot or gives one back twice.
SlotsAreHeld ==
  \A p \in Procs :
    /\ global[p] = Cardinality(Of(p))
    /\ \A r \in Routes :
         /\ sem[<<p, r>>] = IF MaxOf[r] > 0 THEN Cardinality(On(p, r, Holding)) ELSE 0
         /\ active[<<p, r>>] = Cardinality(On(p, r, Counted))

\* A limited route never handles, nor reports, more connections than its maximum.
CapacityHeld ==
  \A p \in Procs, r \in Routes : MaxOf[r] > 0 => active[<<p, r>>] <= MaxOf[r]

\* The store is closed under a connection, and the connection then cut, only when
\* it has had the whole drain: the grace after a termination, the drain timeout
\* after a handoff.
DrainIsHonoured ==
  \A p \in Procs : phase[p] = "stopped" /\ Of(p) # {} =>
    /\ age[p] >= IF "term" \in asked[p] THEN Grace ELSE DrainTimeout
    /\ "term" \notin asked[p] => DrainTimeout # 0

\* A handoff leaves no gap: a route stops being listened on only if a process is
\* asked to terminate, or the only one left fails to start or has handed over to
\* one that has since terminated.
NoGap ==
  [][ \A r \in Routes :
        (\E p \in Procs : r \in open[p]) /\ ~(\E p \in Procs : r \in open'[p]) =>
          \E p \in Procs :
            \/ "term" \in asked[p]
            \/ /\ \A q \in Procs \ {p} : phase[q] = "gone"
               /\ phase[p] = "starting" \/ "handoff" \in asked[p] ]_vars

\* A process that drains exits, whatever its connections do.
DepartingExits ==
  DrainTimeout # 0 => \A p \in Procs : phase[p] = "draining" ~> phase[p] = "gone"
=============================================================================
