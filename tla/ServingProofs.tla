---------------------------- MODULE ServingProofs ---------------------------
(***************************************************************************)
(* Theorems about serving, for any number of processes, routes and         *)
(* connections and any limits: counters count what is held, a limited      *)
(* route stays within its maximum, a drain is honoured and a handoff       *)
(* leaves no gap.                                                          *)
(***************************************************************************)
EXTENDS Serving, FiniteSetTheorems, TLAPS

\* acquire never sends into a full semaphore.
SlotsWithin ==
  \A p \in Procs, r \in Routes : MaxOf[r] > 0 => sem[<<p, r>>] <= MaxOf[r]

\* What a process does while it leaves.
DrainState ==
  \A p \in Procs :
    /\ phase[p] \in {"gone", "draining", "stopped"} => open[p] = {}
    /\ phase[p] \in {"gone", "starting", "serving"} => age[p] = 0
    /\ phase[p] \in {"draining", "stopped"} =>
         limit[p] = IF "term" \in asked[p] THEN Grace ELSE DrainTimeout
    /\ phase[p] = "stopped" => Of(p) = {} \/ Expired(p)

\* At most two processes are there and at most one of them is starting.  When one
\* has handed over, any other is past its start and has not handed over itself.
Handover ==
  \A p \in Procs :
    /\ \A q, s \in Procs \ {p} :
         q # s => phase[p] = "gone" \/ phase[q] = "gone" \/ phase[s] = "gone"
    /\ phase[p] \in {"gone", "starting"} => "handoff" \notin asked[p]
    /\ phase[p] \in {"draining", "stopped"} => asked[p] # {}
    /\ phase[p] = "serving" /\ asked[p] = {} => open[p] = Routes
    /\ \A q \in Procs \ {p} :
         /\ phase[p] = "starting" => phase[q] # "starting"
         /\ "handoff" \in asked[p] /\ phase[q] # "gone" =>
              phase[q] # "starting" /\ "handoff" \notin asked[q]

SInv == TypeOK /\ SlotsAreHeld /\ SlotsWithin /\ DrainState /\ Handover

-----------------------------------------------------------------------------
(* Counting.                                                               *)

LEMMA FiniteConns ==
  ASSUME NEW p, NEW r, NEW S
  PROVE  /\ IsFiniteSet(Of(p)) /\ IsFiniteSet(Of(p)')
         /\ IsFiniteSet(On(p, r, S)) /\ IsFiniteSet(On(p, r, S)')
         /\ Cardinality(Of(p)) \in Nat
         /\ Cardinality(On(p, r, S)) \in Nat
<1>1. IsFiniteSet(Conns)
  BY ServingAssumption DEF ServingAssumption
<1>2. Of(p) \in SUBSET Conns /\ Of(p)' \in SUBSET Conns
  BY DEF Of
<1>3. On(p, r, S) \in SUBSET Conns /\ On(p, r, S)' \in SUBSET Conns
  BY <1>2 DEF On
<1> QED BY <1>1, <1>2, <1>3, FS_Subset, FS_CardinalityType

\* A connection that moves on counts where it arrives and no longer where it was.
LEMMA Moved ==
  ASSUME TypeOK, NEW c \in Conns, conn[c] # Free, NEW stage \in Stages, MoveTo(c, stage),
         NEW p \in Procs, NEW r \in Routes, NEW S \in SUBSET Stages
  PROVE  /\ Of(p)' = Of(p)
         /\ conn[c].proc # p \/ RouteOf[c] # r =>
              Cardinality(On(p, r, S)') = Cardinality(On(p, r, S))
         /\ conn[c].proc = p /\ RouteOf[c] = r =>
              Cardinality(On(p, r, S)') =
                Cardinality(On(p, r, S)) + (IF stage \in S THEN 1 ELSE 0)
                                         - (IF conn[c].at \in S THEN 1 ELSE 0)
<1>1. /\ conn[c] \in [at : Stages, proc : Procs]
      /\ conn'[c] = [conn[c] EXCEPT !.at = stage]
      /\ \A d \in Conns \ {c} : conn'[d] = conn[d]
  BY DEF TypeOK, MoveTo
<1>2. conn'[c] # Free /\ conn'[c].proc = conn[c].proc /\ conn'[c].at = stage
  BY <1>1 DEF Free, Stages
<1>3. \A d \in Conns : d \in Of(p)' <=> d \in Of(p)
  BY <1>1, <1>2 DEF Of
<1>4. Of(p)' = Of(p)
  BY <1>3 DEF Of
<1>5. On(p, r, S)' = {d \in Of(p) : RouteOf[d] = r /\ conn'[d].at \in S}
  BY <1>4 DEF On
<1>6. \A d \in Conns \ {c} : d \in On(p, r, S)' <=> d \in On(p, r, S)
  BY <1>1, <1>5 DEF On
<1>7. On(p, r, S) \subseteq Conns /\ On(p, r, S)' \subseteq Conns
  BY DEF On, Of
<1>8. CASE conn[c].proc # p \/ RouteOf[c] # r
  <2>1. c \notin On(p, r, S) /\ c \notin On(p, r, S)'
    BY <1>2, <1>5, <1>8 DEF On, Of
  <2>2. On(p, r, S)' = On(p, r, S)
    BY <1>6, <1>7, <2>1
  <2> QED BY <1>4, <1>8, <2>2
<1>9. CASE conn[c].proc = p /\ RouteOf[c] = r
  <2>1. c \in Of(p)
    BY <1>9 DEF Of
  <2>2. c \in On(p, r, S) <=> conn[c].at \in S
    BY <1>9, <2>1 DEF On
  <2>3. c \in On(p, r, S)' <=> stage \in S
    BY <1>2, <1>5, <1>9, <2>1
  <2>4. CASE stage \in S
    <3>1. On(p, r, S)' = On(p, r, S) \cup {c}
      BY <1>6, <1>7, <2>3, <2>4
    <3>2. Cardinality(On(p, r, S)') = IF c \in On(p, r, S) THEN Cardinality(On(p, r, S))
                                                          ELSE Cardinality(On(p, r, S)) + 1
      BY <3>1, FiniteConns, FS_AddElement
    <3>3. Cardinality(On(p, r, S)) \in Nat
      BY FiniteConns
    <3> QED BY <1>4, <1>9, <2>2, <2>4, <3>2, <3>3
  <2>5. CASE stage \notin S
    <3>1. On(p, r, S)' = On(p, r, S) \ {c}
      BY <1>6, <1>7, <2>3, <2>5
    <3>2. Cardinality(On(p, r, S)') = IF c \in On(p, r, S) THEN Cardinality(On(p, r, S)) - 1
                                                          ELSE Cardinality(On(p, r, S))
      BY <3>1, FiniteConns, FS_RemoveElement
    <3>3. Cardinality(On(p, r, S)) \in Nat
      BY FiniteConns
    <3> QED BY <1>4, <1>9, <2>2, <2>5, <3>2, <3>3
  <2> QED BY <2>4, <2>5
<1> QED BY <1>8, <1>9

\* The part of TypeOK that concerns connections and their counters.
ConnTypes ==
  /\ conn \in [Conns -> {Free} \cup [at : Stages, proc : Procs]]
  /\ global \in [Procs -> 0 .. MaxConns]
  /\ sem \in [Guarded -> Nat]
  /\ active \in [Guarded -> Nat]

\* Counters that are right count natural numbers.
LEMMA RightCounts ==
  ASSUME SlotsAreHeld', sem' \in [Guarded -> Int], active' \in [Guarded -> Int]
  PROVE  sem' \in [Guarded -> Nat] /\ active' \in [Guarded -> Nat]
<1>1. ASSUME NEW p \in Procs, NEW r \in Routes PROVE sem'[<<p, r>>] \in Nat /\ active'[<<p, r>>] \in Nat
  <2>1. IsFiniteSet(On(p, r, Holding)') /\ IsFiniteSet(On(p, r, Counted)')
    BY FiniteConns
  <2>2. Cardinality(On(p, r, Holding)') \in Nat /\ Cardinality(On(p, r, Counted)') \in Nat
    BY <2>1, FS_CardinalityType
  <2>3. /\ sem'[<<p, r>>] = IF MaxOf[r] > 0 THEN Cardinality(On(p, r, Holding)') ELSE 0
        /\ active'[<<p, r>>] = Cardinality(On(p, r, Counted)')
    BY DEF SlotsAreHeld
  <2> QED BY <2>2, <2>3
<1>2. \A g \in Guarded : sem'[g] \in Nat /\ active'[g] \in Nat
  BY <1>1 DEF Guarded
<1> QED BY <1>2

\* One connection moves on and the counters follow.
LEMMA MovedSlots ==
  ASSUME SInv, NEW c \in Conns, conn[c] # Free, NEW stage \in Stages, MoveTo(c, stage),
         UNCHANGED global, sem' \in [Guarded -> Int], active' \in [Guarded -> Int],
         \A p \in Procs, r \in Routes :
           LET mine == p = conn[c].proc /\ r = RouteOf[c] IN
           /\ sem'[<<p, r>>] = sem[<<p, r>>] +
                IF mine /\ MaxOf[r] > 0
                THEN (IF stage \in Holding THEN 1 ELSE 0) - (IF conn[c].at \in Holding THEN 1 ELSE 0)
                ELSE 0
           /\ active'[<<p, r>>] = active[<<p, r>>] +
                IF mine
                THEN (IF stage \in Counted THEN 1 ELSE 0) - (IF conn[c].at \in Counted THEN 1 ELSE 0)
                ELSE 0
  PROVE  SlotsAreHeld' /\ ConnTypes'
<1>1. TypeOK /\ SlotsAreHeld
  BY DEF SInv
<1>2. ASSUME NEW p \in Procs PROVE global'[p] = Cardinality(Of(p)')
  <2>1. RouteOf[c] \in Routes
    BY ServingAssumption DEF ServingAssumption
  <2>2. Of(p)' = Of(p)
    BY <1>1, <2>1, Moved
  <2> QED BY <1>1, <2>2 DEF SlotsAreHeld
<1>3. ASSUME NEW p \in Procs, NEW r \in Routes
      PROVE  sem'[<<p, r>>] = IF MaxOf[r] > 0 THEN Cardinality(On(p, r, Holding)') ELSE 0
  <2>1. Holding \in SUBSET Stages
    BY DEF Holding, Stages
  <2>2. Cardinality(On(p, r, Holding)) \in Nat
    BY FiniteConns
  <2>3. sem[<<p, r>>] = IF MaxOf[r] > 0 THEN Cardinality(On(p, r, Holding)) ELSE 0
    BY <1>1 DEF SlotsAreHeld
  <2>4. CASE p = conn[c].proc /\ r = RouteOf[c]
    <3>1. Cardinality(On(p, r, Holding)') = Cardinality(On(p, r, Holding))
            + (IF stage \in Holding THEN 1 ELSE 0) - (IF conn[c].at \in Holding THEN 1 ELSE 0)
      BY <1>1, <2>1, <2>4, Moved
    <3>2. CASE MaxOf[r] > 0
      <4>1. sem'[<<p, r>>] = sem[<<p, r>>] +
              ((IF stage \in Holding THEN 1 ELSE 0) - (IF conn[c].at \in Holding THEN 1 ELSE 0))
        BY <2>4, <3>2
      <4> QED BY <2>2, <2>3, <3>1, <3>2, <4>1
    <3>3. CASE ~(MaxOf[r] > 0)
      <4>1. sem'[<<p, r>>] = sem[<<p, r>>] + 0
        BY <3>3
      <4> QED BY <2>3, <3>3, <4>1
    <3> QED BY <3>2, <3>3
  <2>5. CASE ~(p = conn[c].proc /\ r = RouteOf[c])
    <3>1. Cardinality(On(p, r, Holding)') = Cardinality(On(p, r, Holding))
      BY <1>1, <2>1, <2>5, Moved
    <3> QED BY <2>2, <2>3, <2>5, <3>1
  <2> QED BY <2>4, <2>5
<1>4. ASSUME NEW p \in Procs, NEW r \in Routes
      PROVE  active'[<<p, r>>] = Cardinality(On(p, r, Counted)')
  <2>1. Counted \in SUBSET Stages
    BY DEF Counted, Stages
  <2>2. Cardinality(On(p, r, Counted)) \in Nat
    BY FiniteConns
  <2>3. active[<<p, r>>] = Cardinality(On(p, r, Counted))
    BY <1>1 DEF SlotsAreHeld
  <2>4. CASE p = conn[c].proc /\ r = RouteOf[c]
    <3>1. Cardinality(On(p, r, Counted)') = Cardinality(On(p, r, Counted))
            + (IF stage \in Counted THEN 1 ELSE 0) - (IF conn[c].at \in Counted THEN 1 ELSE 0)
      BY <1>1, <2>1, <2>4, Moved
    <3> QED BY <2>2, <2>3, <2>4, <3>1
  <2>5. CASE ~(p = conn[c].proc /\ r = RouteOf[c])
    <3>1. Cardinality(On(p, r, Counted)') = Cardinality(On(p, r, Counted))
      BY <1>1, <2>1, <2>5, Moved
    <3> QED BY <2>2, <2>3, <2>5, <3>1
  <2> QED BY <2>4, <2>5
<1>5. SlotsAreHeld'
  BY <1>2, <1>3, <1>4 DEF SlotsAreHeld
<1>6. conn' \in [Conns -> {Free} \cup [at : Stages, proc : Procs]]
  <2>1. [conn[c] EXCEPT !.at = stage] \in [at : Stages, proc : Procs]
    BY <1>1 DEF TypeOK
  <2> QED BY <1>1, <2>1 DEF TypeOK, MoveTo
<1>7. sem' \in [Guarded -> Nat] /\ active' \in [Guarded -> Nat]
  BY <1>5, RightCounts
<1>8. global' \in [Procs -> 0 .. MaxConns]
  BY <1>1 DEF TypeOK
<1> QED BY <1>5, <1>6, <1>7, <1>8 DEF ConnTypes

-----------------------------------------------------------------------------
(* The steps of a connection.                                              *)

\* A connection whose handler is at a stage, and its place among the counters.
LEMMA AtStage ==
  ASSUME SInv, NEW c \in Conns, conn[c].at \in Stages
  PROVE  /\ conn[c] # Free /\ conn[c].proc \in Procs /\ RouteOf[c] \in Routes
         /\ <<conn[c].proc, RouteOf[c]>> \in Guarded
<1>1. Free.at \notin Stages
  BY DEF Free, Stages
<1> QED BY <1>1, ServingAssumption DEF ServingAssumption, SInv, TypeOK, Guarded

LEMMA AcquireSlots ==
  ASSUME SInv, NEW c \in Conns, Acquire(c)
  PROVE  SlotsAreHeld' /\ SlotsWithin' /\ ConnTypes'
<1> DEFINE g == <<conn[c].proc, RouteOf[c]>>  max == MaxOf[RouteOf[c]]
<1>1. /\ conn[c].at = "accepted" /\ UNCHANGED <<global, active>>
      /\ conn[c] # Free /\ conn[c].proc \in Procs /\ RouteOf[c] \in Routes /\ g \in Guarded
  BY AtStage DEF Acquire, Stages
<1>2. sem \in [Guarded -> Nat] /\ active \in [Guarded -> Nat] /\ max \in Nat
  BY <1>1, ServingAssumption DEF ServingAssumption, SInv, TypeOK
<1>3. CASE max > 0 /\ sem[g] >= max
  <2>1. MoveTo(c, "leaving") /\ UNCHANGED sem
    BY <1>3 DEF Acquire
  <2>2. SlotsAreHeld' /\ ConnTypes'
    BY <1>1, <1>2, <2>1, MovedSlots DEF Stages, Holding, Counted, Guarded
  <2> QED BY <2>1, <2>2 DEF SlotsWithin, SInv
<1>4. CASE ~(max > 0 /\ sem[g] >= max)
  <2>1. /\ MoveTo(c, "admitted")
        /\ sem' = IF max > 0 THEN [sem EXCEPT ![g] = @ + 1] ELSE sem
    BY <1>4 DEF Acquire
  <2>2. sem' \in [Guarded -> Int] /\ active' \in [Guarded -> Int]
    BY <1>1, <1>2, <2>1
  <2>3. ASSUME NEW p \in Procs, NEW r \in Routes
        PROVE  sem'[<<p, r>>] = IF p = conn[c].proc /\ r = RouteOf[c] /\ MaxOf[r] > 0
                            THEN sem[<<p, r>>] + 1 ELSE sem[<<p, r>>]
    <3>1. <<p, r>> \in Guarded /\ (<<p, r>> = g <=> p = conn[c].proc /\ r = RouteOf[c])
      BY DEF Guarded
    <3> QED BY <1>2, <2>1, <3>1
  <2>4. SlotsAreHeld' /\ ConnTypes'
    <3>1. \A p \in Procs, r \in Routes : sem[<<p, r>>] \in Nat /\ active[<<p, r>>] \in Nat
      BY <1>2 DEF Guarded
    <3> QED BY <1>1, <1>2, <2>1, <2>2, <2>3, <3>1, MovedSlots DEF Stages, Holding, Counted
  <2>5. ASSUME NEW p \in Procs, NEW r \in Routes, MaxOf[r] > 0 PROVE sem'[<<p, r>>] <= MaxOf[r]
    <3>1. sem[<<p, r>>] \in Nat /\ sem[<<p, r>>] <= MaxOf[r] /\ MaxOf[r] \in Nat
      BY <1>2, <2>5, ServingAssumption DEF ServingAssumption, SInv, SlotsWithin, Guarded
    <3> QED BY <1>4, <2>3, <2>5, <3>1
  <2> QED BY <2>4, <2>5 DEF SlotsWithin
<1> QED BY <1>3, <1>4

LEMMA CountSlots ==
  ASSUME SInv, NEW c \in Conns, Count(c)
  PROVE  SlotsAreHeld' /\ SlotsWithin' /\ ConnTypes'
<1> DEFINE g == <<conn[c].proc, RouteOf[c]>>
<1>1. /\ conn[c].at = "admitted" /\ MoveTo(c, "counted") /\ UNCHANGED <<global, sem>>
      /\ active' = [active EXCEPT ![g] = @ + 1]
      /\ conn[c] # Free /\ conn[c].proc \in Procs /\ RouteOf[c] \in Routes /\ g \in Guarded
  BY AtStage DEF Count, Stages
<1>2. sem \in [Guarded -> Nat] /\ active \in [Guarded -> Nat]
  BY DEF SInv, TypeOK
<1>3. sem' \in [Guarded -> Int] /\ active' \in [Guarded -> Int]
  BY <1>1, <1>2
<1>4. ASSUME NEW p \in Procs, NEW r \in Routes
      PROVE  /\ active'[<<p, r>>] = IF p = conn[c].proc /\ r = RouteOf[c]
                                    THEN active[<<p, r>>] + 1 ELSE active[<<p, r>>]
             /\ sem'[<<p, r>>] = sem[<<p, r>>]
             /\ active[<<p, r>>] \in Nat /\ sem[<<p, r>>] \in Nat
  <2>1. <<p, r>> \in Guarded /\ (<<p, r>> = g <=> p = conn[c].proc /\ r = RouteOf[c])
    BY DEF Guarded
  <2> QED BY <1>1, <1>2, <2>1
<1>5. SlotsAreHeld' /\ ConnTypes'
  BY <1>1, <1>3, <1>4, MovedSlots DEF Stages, Holding, Counted
<1> QED BY <1>1, <1>5 DEF SlotsWithin, SInv

LEMMA HandleSlots ==
  ASSUME SInv, NEW c \in Conns, Handle(c)
  PROVE  SlotsAreHeld' /\ SlotsWithin' /\ ConnTypes'
<1>1. /\ conn[c].at = "counted" /\ MoveTo(c, "ended") /\ UNCHANGED <<global, sem, active>>
      /\ conn[c] # Free /\ conn[c].proc \in Procs /\ RouteOf[c] \in Routes
  BY AtStage DEF Handle, Stages
<1>2. sem' \in [Guarded -> Int] /\ active' \in [Guarded -> Int]
  BY <1>1 DEF SInv, TypeOK
<1>3. ASSUME NEW p \in Procs, NEW r \in Routes
      PROVE  /\ active'[<<p, r>>] = active[<<p, r>>] /\ sem'[<<p, r>>] = sem[<<p, r>>]
             /\ active[<<p, r>>] \in Nat /\ sem[<<p, r>>] \in Nat
  BY <1>1 DEF SInv, TypeOK, Guarded
<1>4. SlotsAreHeld' /\ ConnTypes'
  BY <1>1, <1>2, <1>3, MovedSlots DEF Stages, Holding, Counted
<1> QED BY <1>1, <1>4 DEF SlotsWithin, SInv

LEMMA ReleaseSlots ==
  ASSUME SInv, NEW c \in Conns, Release(c)
  PROVE  SlotsAreHeld' /\ SlotsWithin' /\ ConnTypes'
<1> DEFINE g == <<conn[c].proc, RouteOf[c]>>
<1>1. /\ UNCHANGED global
      /\ conn[c] # Free /\ conn[c].proc \in Procs /\ RouteOf[c] \in Routes /\ g \in Guarded
  BY AtStage DEF Release, Stages
<1>2. sem \in [Guarded -> Nat] /\ active \in [Guarded -> Nat] /\ MaxOf[RouteOf[c]] \in Nat
  BY <1>1, ServingAssumption DEF ServingAssumption, SInv, TypeOK
<1>3. ASSUME NEW p \in Procs, NEW r \in Routes
      PROVE  /\ <<p, r>> \in Guarded /\ (<<p, r>> = g <=> p = conn[c].proc /\ r = RouteOf[c])
             /\ active[<<p, r>>] \in Nat /\ sem[<<p, r>>] \in Nat
  BY <1>2 DEF Guarded
<1>4. CASE /\ conn[c].at = "ended" /\ MoveTo(c, "uncounted")
           /\ active' = [active EXCEPT ![g] = @ - 1] /\ UNCHANGED sem
  <2>1. sem' \in [Guarded -> Int] /\ active' \in [Guarded -> Int]
    <3>1. sem[g] - 1 \in Int /\ active[g] - 1 \in Int
      BY <1>1, <1>2
    <3>2. sem \in [Guarded -> Int] /\ active \in [Guarded -> Int]
      BY <1>2
    <3>3. [active EXCEPT ![g] = @ - 1] \in [Guarded -> Int]
      <4> HIDE DEF g
      <4> QED BY <3>1, <3>2
    <3> QED BY <1>4, <3>2, <3>3
  <2>2. ASSUME NEW p \in Procs, NEW r \in Routes
        PROVE  /\ active'[<<p, r>>] = IF p = conn[c].proc /\ r = RouteOf[c]
                                      THEN active[<<p, r>>] - 1 ELSE active[<<p, r>>]
               /\ sem'[<<p, r>>] = sem[<<p, r>>]
    BY <1>2, <1>3, <1>4
  <2>3. SlotsAreHeld' /\ ConnTypes'
    BY <1>1, <1>3, <1>4, <2>1, <2>2, MovedSlots DEF Stages, Holding, Counted
  <2> QED BY <1>4, <2>3 DEF SlotsWithin, SInv
<1>5. CASE /\ conn[c].at = "uncounted" /\ MoveTo(c, "leaving") /\ UNCHANGED active
           /\ sem' = IF MaxOf[RouteOf[c]] > 0 THEN [sem EXCEPT ![g] = @ - 1] ELSE sem
  <2>1. sem' \in [Guarded -> Int] /\ active' \in [Guarded -> Int]
    <3>1. sem[g] - 1 \in Int /\ active[g] - 1 \in Int
      BY <1>1, <1>2
    <3>2. sem \in [Guarded -> Int] /\ active \in [Guarded -> Int]
      BY <1>2
    <3>3. [sem EXCEPT ![g] = @ - 1] \in [Guarded -> Int]
      <4> HIDE DEF g
      <4> QED BY <3>1, <3>2
    <3> QED BY <1>5, <3>2, <3>3
  <2>2. ASSUME NEW p \in Procs, NEW r \in Routes
        PROVE  /\ sem'[<<p, r>>] = IF p = conn[c].proc /\ r = RouteOf[c] /\ MaxOf[r] > 0
                                   THEN sem[<<p, r>>] - 1 ELSE sem[<<p, r>>]
               /\ active'[<<p, r>>] = active[<<p, r>>]
    BY <1>2, <1>3, <1>5
  <2>3. SlotsAreHeld' /\ ConnTypes'
    BY <1>1, <1>3, <1>5, <2>1, <2>2, MovedSlots DEF Stages, Holding, Counted
  <2>4. ASSUME NEW p \in Procs, NEW r \in Routes, MaxOf[r] > 0 PROVE sem'[<<p, r>>] <= MaxOf[r]
    <3>1. sem[<<p, r>>] \in Nat /\ sem[<<p, r>>] <= MaxOf[r] /\ MaxOf[r] \in Nat
      BY <1>3, <2>4, ServingAssumption DEF ServingAssumption, SInv, SlotsWithin
    <3> QED BY <2>2, <3>1
  <2> QED BY <2>3, <2>4 DEF SlotsWithin
<1> QED BY <1>4, <1>5 DEF Release

LEMMA AcceptSlots ==
  ASSUME SInv, NEW c \in Conns, NEW p \in Procs, Accept(c, p)
  PROVE  /\ SlotsAreHeld' /\ SlotsWithin' /\ ConnTypes'
         /\ \A q \in Procs \ {p} : Of(q)' = Of(q)
<1>1. /\ conn[c] = Free /\ global[p] < MaxConns /\ UNCHANGED <<sem, active>>
      /\ conn' = [conn EXCEPT ![c] = [at |-> "accepted", proc |-> p]]
      /\ global' = [global EXCEPT ![p] = @ + 1]
  BY DEF Accept
<1>2. /\ conn'[c] = [at |-> "accepted", proc |-> p] /\ conn'[c] # Free
      /\ \A d \in Conns \ {c} : conn'[d] = conn[d]
  BY <1>1 DEF SInv, TypeOK, Free
<1>3. c \notin Of(p) /\ Of(p)' = Of(p) \cup {c}
  BY <1>1, <1>2 DEF Of
<1>4. ASSUME NEW q \in Procs, q # p PROVE Of(q)' = Of(q)
  BY <1>1, <1>2, <1>4 DEF Of
<1>5. ASSUME NEW q \in Procs PROVE global'[q] = Cardinality(Of(q)')
  <2>1. global[q] = Cardinality(Of(q)) /\ global[q] \in Nat
    BY DEF SInv, SlotsAreHeld, TypeOK
  <2>2. CASE q = p
    <3>1. Cardinality(Of(p)') = Cardinality(Of(p)) + 1
      BY <1>3, FiniteConns, FS_AddElement
    <3> QED BY <1>1, <2>1, <2>2, <3>1 DEF SInv, TypeOK
  <2>3. CASE q # p
    BY <1>1, <1>4, <2>1, <2>3 DEF SInv, TypeOK
  <2> QED BY <2>2, <2>3
<1>6. ASSUME NEW q \in Procs, NEW r \in Routes, NEW S, "accepted" \notin S
      PROVE  On(q, r, S)' = On(q, r, S)
  <2>1. \A d \in Conns \ {c} : d \in On(q, r, S)' <=> d \in On(q, r, S)
    BY <1>2 DEF On, Of
  <2>2. c \notin On(q, r, S) /\ c \notin On(q, r, S)'
    BY <1>1, <1>2, <1>6 DEF On, Of
  <2>3. On(q, r, S) \subseteq Conns /\ On(q, r, S)' \subseteq Conns
    BY DEF On, Of
  <2> QED BY <2>1, <2>2, <2>3
<1>7. SlotsAreHeld'
  <2>1. "accepted" \notin Holding /\ "accepted" \notin Counted
    BY DEF Holding, Counted
  <2>2. \A q \in Procs, r \in Routes :
          On(q, r, Holding)' = On(q, r, Holding) /\ On(q, r, Counted)' = On(q, r, Counted)
    BY <1>6, <2>1
  <2> QED BY <1>1, <1>5, <2>2 DEF SlotsAreHeld, SInv
<1>8. ConnTypes'
  <2>1. conn' \in [Conns -> {Free} \cup [at : Stages, proc : Procs]]
    BY <1>1 DEF SInv, TypeOK, Stages
  <2>2. global' \in [Procs -> 0 .. MaxConns]
    BY <1>1, ServingAssumption DEF ServingAssumption, SInv, TypeOK
  <2> QED BY <1>1, <2>1, <2>2 DEF ConnTypes, SInv, TypeOK
<1> QED BY <1>1, <1>4, <1>7, <1>8 DEF SlotsWithin, SInv

LEMMA LeaveSlots ==
  ASSUME SInv, NEW c \in Conns, Leave(c)
  PROVE  /\ SlotsAreHeld' /\ SlotsWithin' /\ ConnTypes'
         /\ \A q \in Procs : Of(q)' \subseteq Of(q)
<1>0. conn[c] # Free /\ conn[c].proc \in Procs
  BY AtStage DEF Leave, Stages
<1> PICK p \in Procs : p = conn[c].proc
  BY <1>0
<1>1. /\ conn[c].at = "leaving" /\ UNCHANGED <<sem, active>>
      /\ conn' = [conn EXCEPT ![c] = Free]
      /\ global' = [global EXCEPT ![p] = @ - 1]
  BY DEF Leave
<1>2. conn'[c] = Free /\ \A d \in Conns \ {c} : conn'[d] = conn[d]
  BY <1>1 DEF SInv, TypeOK
<1>3. c \in Of(p) /\ Of(p)' = Of(p) \ {c}
  BY <1>0, <1>2 DEF Of
<1>4. ASSUME NEW q \in Procs, q # p PROVE Of(q)' = Of(q)
  <2>1. c \notin Of(q) /\ c \notin Of(q)'
    BY <1>2, <1>4 DEF Of
  <2> QED BY <1>2, <2>1 DEF Of
<1>5. ASSUME NEW q \in Procs PROVE global'[q] = Cardinality(Of(q)') /\ global'[q] \in 0 .. MaxConns
  <2>1. global[q] = Cardinality(Of(q)) /\ global[q] \in 0 .. MaxConns
    BY DEF SInv, SlotsAreHeld, TypeOK
  <2>2. CASE q = p
    <3>1. /\ Cardinality(Of(p)') = Cardinality(Of(p)) - 1
          /\ IsFiniteSet(Of(p)')
      BY <1>3, FiniteConns, FS_RemoveElement
    <3>2. Cardinality(Of(p)') \in Nat
      BY <3>1, FS_CardinalityType
    <3>3. global'[p] = global[p] - 1
      BY <1>1 DEF SInv, TypeOK
    <3> QED BY <2>1, <2>2, <3>1, <3>2, <3>3, ServingAssumption DEF ServingAssumption
  <2>3. CASE q # p
    BY <1>1, <1>4, <2>1, <2>3 DEF SInv, TypeOK
  <2> QED BY <2>2, <2>3
<1>6. ASSUME NEW q \in Procs, NEW r \in Routes, NEW S, "leaving" \notin S
      PROVE  On(q, r, S)' = On(q, r, S)
  <2>1. \A d \in Conns \ {c} : d \in On(q, r, S)' <=> d \in On(q, r, S)
    BY <1>2 DEF On, Of
  <2>2. c \notin On(q, r, S) /\ c \notin On(q, r, S)'
    BY <1>1, <1>2, <1>6 DEF On, Of
  <2>3. On(q, r, S) \subseteq Conns /\ On(q, r, S)' \subseteq Conns
    BY DEF On, Of
  <2> QED BY <2>1, <2>2, <2>3
<1>7. SlotsAreHeld'
  <2>1. "leaving" \notin Holding /\ "leaving" \notin Counted
    BY DEF Holding, Counted
  <2>2. \A q \in Procs, r \in Routes :
          On(q, r, Holding)' = On(q, r, Holding) /\ On(q, r, Counted)' = On(q, r, Counted)
    BY <1>6, <2>1
  <2> QED BY <1>1, <1>5, <2>2 DEF SlotsAreHeld, SInv
<1>8. ConnTypes'
  <2>1. conn' \in [Conns -> {Free} \cup [at : Stages, proc : Procs]]
    BY <1>1 DEF SInv, TypeOK
  <2>2. global' \in [Procs -> 0 .. MaxConns]
    BY <1>1, <1>5 DEF SInv, TypeOK
  <2> QED BY <1>1, <2>1, <2>2 DEF ConnTypes, SInv, TypeOK
<1>9. \A q \in Procs : Of(q)' \subseteq Of(q)
  BY <1>3, <1>4
<1> QED BY <1>1, <1>7, <1>8, <1>9 DEF SlotsWithin, SInv

\* None of these steps concerns the course of a process.
LEMMA ConnStepKeeps ==
  ASSUME SInv, NEW c \in Conns, ConnStep(c)
  PROVE  SInv'
<1>1. UNCHANGED procVars
  BY DEF ConnStep, Accept, Acquire, Count, Handle, Release, Leave
<1>2. /\ SlotsAreHeld' /\ SlotsWithin' /\ ConnTypes'
      /\ \A p \in Procs : open[p] = {} /\ Of(p) = {} => Of(p)' = {}
  <2>1. ASSUME NEW q \in Procs, Accept(c, q)
        PROVE  /\ SlotsAreHeld' /\ SlotsWithin' /\ ConnTypes'
               /\ \A p \in Procs : open[p] = {} /\ Of(p) = {} => Of(p)' = {}
    <3>1. open[q] # {}
      BY <2>1 DEF Accept
    <3> QED BY <2>1, <3>1, AcceptSlots
  <2>2. ASSUME Acquire(c) \/ Count(c) \/ Handle(c) \/ Release(c)
        PROVE  \A p \in Procs : Of(p)' = Of(p)
    <3>1. conn[c].at \in Stages
      BY <2>2 DEF Acquire, Count, Handle, Release, Stages
    <3>2. \E stage \in Stages : MoveTo(c, stage)
      BY <2>2 DEF Acquire, Count, Handle, Release, Stages
    <3>3. conn[c] # Free /\ RouteOf[c] \in Routes /\ TypeOK
      BY <3>1, AtStage DEF SInv
    <3> QED BY <3>2, <3>3, Moved
  <2>3. ASSUME Leave(c)
        PROVE  /\ SlotsAreHeld' /\ SlotsWithin' /\ ConnTypes'
               /\ \A p \in Procs : open[p] = {} /\ Of(p) = {} => Of(p)' = {}
    BY <2>3, LeaveSlots
  <2> QED BY <2>1, <2>2, <2>3, AcquireSlots, CountSlots, HandleSlots, ReleaseSlots DEF ConnStep
<1>3. TypeOK'
  BY <1>1, <1>2 DEF SInv, TypeOK, ConnTypes, procVars
<1>4. DrainState'
  <2>1. DrainState
    BY DEF SInv
  <2>2. \A p \in Procs : Expired(p)' <=> Expired(p)
    BY <1>1 DEF Expired, procVars
  <2> QED BY <1>1, <1>2, <2>1, <2>2 DEF DrainState, procVars
<1>5. Handover'
  BY <1>1 DEF SInv, Handover, procVars
<1> QED BY <1>2, <1>3, <1>4, <1>5 DEF SInv

-----------------------------------------------------------------------------
(* The steps of a process.                                                 *)

\* The part of TypeOK that concerns processes.
ProcTypes ==
  /\ phase \in [Procs -> Phases]
  /\ open \in [Procs -> SUBSET Routes]
  /\ asked \in [Procs -> SUBSET {"handoff", "term"}]
  /\ limit \in [Procs -> {0, DrainTimeout, Grace}]
  /\ age \in [Procs -> Nat]

LEMMA SameConns ==
  ASSUME SInv, UNCHANGED connVars
  PROVE  /\ SlotsAreHeld' /\ SlotsWithin' /\ ConnTypes'
         /\ \A p \in Procs : Of(p)' = Of(p)
<1>1. \A p \in Procs, r \in Routes :
        /\ Of(p)' = Of(p)
        /\ On(p, r, Holding)' = On(p, r, Holding)
        /\ On(p, r, Counted)' = On(p, r, Counted)
  BY DEF connVars, On, Of
<1>2. \A p \in Procs : Of(p)' = Of(p)
  BY DEF connVars, Of
<1>3. ConnTypes'
  BY DEF SInv, TypeOK, ConnTypes, connVars
<1>4. SlotsAreHeld' /\ SlotsWithin'
  BY <1>1, <1>2 DEF SInv, SlotsAreHeld, SlotsWithin, connVars
<1> QED BY <1>2, <1>3, <1>4

\* What is left of a process that exits is cut, and its counters go with it.
LEMMA ExitSlots ==
  ASSUME SInv, NEW p \in Procs, Exit(p)
  PROVE  /\ SlotsAreHeld' /\ SlotsWithin' /\ ConnTypes'
         /\ Of(p)' = {}
         /\ \A q \in Procs \ {p} : Of(q)' = Of(q)
<1>1. \A c \in Conns : conn'[c] = IF c \in Of(p) THEN Free ELSE conn[c]
  BY DEF Exit
<1>2. Of(p)' = {}
  BY <1>1 DEF Of
<1>3. ASSUME NEW q \in Procs, q # p PROVE Of(q)' = Of(q)
  BY <1>1, <1>3 DEF Of
<1>4. ASSUME NEW q \in Procs, q # p, NEW r \in Routes, NEW S
      PROVE  On(q, r, S)' = On(q, r, S)
  <2>1. \A c \in Of(q) : conn'[c] = conn[c]
    BY <1>1, <1>4 DEF Of
  <2> QED BY <1>3, <1>4, <2>1 DEF On
<1>5. ASSUME NEW r \in Routes, NEW S PROVE On(p, r, S)' = {}
  BY <1>2 DEF On
<1>6. ASSUME NEW q \in Procs, NEW r \in Routes
      PROVE  /\ <<q, r>> \in Guarded
             /\ sem'[<<q, r>>] = IF q = p THEN 0 ELSE sem[<<q, r>>]
             /\ active'[<<q, r>>] = IF q = p THEN 0 ELSE active[<<q, r>>]
             /\ global'[q] = IF q = p THEN 0 ELSE global[q]
  <2>1. <<q, r>> \in Guarded /\ <<q, r>>[1] = q
    BY DEF Guarded
  <2> QED BY <2>1 DEF Exit, SInv, TypeOK
<1>7. \A q \in Procs : global'[q] = IF q = p THEN 0 ELSE global[q]
  BY DEF Exit, SInv, TypeOK
<1>8. SlotsAreHeld'
  <2>1. ASSUME NEW q \in Procs PROVE global'[q] = Cardinality(Of(q)')
    BY <1>2, <1>3, <1>7, FS_EmptySet DEF SInv, SlotsAreHeld
  <2>2. ASSUME NEW q \in Procs, NEW r \in Routes
        PROVE  /\ sem'[<<q, r>>] = IF MaxOf[r] > 0 THEN Cardinality(On(q, r, Holding)') ELSE 0
               /\ active'[<<q, r>>] = Cardinality(On(q, r, Counted)')
    <3>1. CASE q = p
      <4>1. On(q, r, Holding)' = {} /\ On(q, r, Counted)' = {}
        BY <1>5, <3>1
      <4> QED BY <1>6, <3>1, <4>1, FS_EmptySet
    <3>2. CASE q # p
      <4>1. On(q, r, Holding)' = On(q, r, Holding) /\ On(q, r, Counted)' = On(q, r, Counted)
        BY <1>4, <3>2
      <4> QED BY <1>6, <3>2, <4>1 DEF SInv, SlotsAreHeld
    <3> QED BY <3>1, <3>2
  <2> QED BY <2>1, <2>2 DEF SlotsAreHeld
<1>9. SlotsWithin'
  BY <1>6, ServingAssumption DEF ServingAssumption, SInv, SlotsWithin
<1>10. ConnTypes'
  <2>1. conn' \in [Conns -> {Free} \cup [at : Stages, proc : Procs]]
    BY DEF Exit, SInv, TypeOK
  <2>2. global' \in [Procs -> 0 .. MaxConns]
    BY ServingAssumption DEF ServingAssumption, Exit, SInv, TypeOK
  <2>3. sem' \in [Guarded -> Nat] /\ active' \in [Guarded -> Nat]
    BY DEF Exit, SInv, TypeOK
  <2> QED BY <2>1, <2>2, <2>3 DEF ConnTypes
<1> QED BY <1>2, <1>3, <1>8, <1>9, <1>10

LEMMA LaunchKeeps ==
  ASSUME SInv, NEW p \in Procs, Launch(p) PROVE SInv'
<1>1. UNCHANGED <<open, asked, limit, age, connVars>> /\ phase[p] = "gone"
      /\ phase' = [phase EXCEPT ![p] = "starting"]
  BY DEF Launch
<1>2. ProcTypes'
  BY <1>1 DEF SInv, TypeOK, ProcTypes, Phases
<1>3. DrainState'
  BY <1>1, SameConns DEF SInv, TypeOK, DrainState, Expired
<1>4. Handover'
  <2>1. \A q \in Procs \ {p} : phase[q] = "gone" \/ (phase[q] = "serving" /\ asked[q] = {})
    BY DEF Launch
  <2>2. \A q, s \in Procs \ {p} : q # s => phase[q] = "gone" \/ phase[s] = "gone"
    BY DEF Launch
  <2> QED BY <1>1, <2>1, <2>2 DEF SInv, TypeOK, Handover
<1> QED BY <1>1, <1>2, <1>3, <1>4, SameConns DEF SInv, TypeOK, ProcTypes, ConnTypes

LEMMA ListenKeeps ==
  ASSUME SInv, NEW p \in Procs, NEW r \in Routes, Listen(p, r) PROVE SInv'
<1>1. UNCHANGED <<phase, asked, limit, age, connVars>> /\ phase[p] = "starting"
      /\ open' = [open EXCEPT ![p] = @ \cup {r}]
  BY DEF Listen
<1>2. ProcTypes'
  BY <1>1 DEF SInv, TypeOK, ProcTypes
<1>3. DrainState'
  BY <1>1, SameConns DEF SInv, TypeOK, DrainState, Expired
<1>4. Handover'
  BY <1>1 DEF SInv, TypeOK, Handover
<1> QED BY <1>1, <1>2, <1>3, <1>4, SameConns DEF SInv, TypeOK, ProcTypes, ConnTypes

LEMMA ReadyKeeps ==
  ASSUME SInv, NEW p \in Procs, Ready(p) PROVE SInv'
<1>1. UNCHANGED <<open, limit, age, connVars>> /\ phase[p] = "starting" /\ open[p] = Routes
      /\ phase' = [phase EXCEPT ![p] = "serving"]
      /\ asked' = [q \in Procs |-> IF q # p /\ phase[q] = "serving"
                                   THEN asked[q] \cup {"handoff"} ELSE asked[q]]
  BY DEF Ready, Announce
<1>2. ProcTypes'
  BY <1>1 DEF SInv, TypeOK, ProcTypes, Phases
<1>3. DrainState'
  BY <1>1, SameConns DEF SInv, TypeOK, DrainState, Expired
<1>4. Handover'
  BY <1>1 DEF SInv, TypeOK, Handover, Phases
<1> QED BY <1>1, <1>2, <1>3, <1>4, SameConns DEF SInv, TypeOK, ProcTypes, ConnTypes

LEMMA TerminateKeeps ==
  ASSUME SInv, NEW p \in Procs, Terminate(p) PROVE SInv'
<1>1. UNCHANGED <<phase, open, limit, age, connVars>> /\ phase[p] \in {"starting", "serving"}
      /\ asked' = [asked EXCEPT ![p] = @ \cup {"term"}]
  BY DEF Terminate
<1>2. ProcTypes'
  BY <1>1 DEF SInv, TypeOK, ProcTypes
<1>3. DrainState'
  BY <1>1, SameConns DEF SInv, TypeOK, DrainState, Expired
<1>4. Handover'
  BY <1>1 DEF SInv, TypeOK, Handover
<1> QED BY <1>1, <1>2, <1>3, <1>4, SameConns DEF SInv, TypeOK, ProcTypes, ConnTypes

LEMMA DepartsKeeps ==
  ASSUME SInv, NEW p \in Procs,
         \/ \E r \in Routes : StopListening(p, r)
         \/ Drain(p) \/ Tick(p) \/ DrainEnds(p)
  PROVE  SInv'
<1>1. UNCHANGED connVars
  BY DEF StopListening, Drain, Tick, DrainEnds
<1>2. ASSUME NEW r \in Routes, StopListening(p, r)
      PROVE  ProcTypes' /\ DrainState' /\ Handover'
  <2>1. UNCHANGED <<phase, asked, limit, age>> /\ phase[p] = "serving" /\ asked[p] # {}
        /\ open' = [open EXCEPT ![p] = @ \ {r}]
    BY <1>2 DEF StopListening
  <2>2. ProcTypes'
    BY <2>1 DEF SInv, TypeOK, ProcTypes
  <2>3. DrainState'
    BY <1>1, <2>1, SameConns DEF SInv, TypeOK, DrainState, Expired
  <2>4. Handover'
    BY <2>1 DEF SInv, TypeOK, Handover
  <2> QED BY <2>2, <2>3, <2>4
<1>3. ASSUME Drain(p) PROVE ProcTypes' /\ DrainState' /\ Handover'
  <2>1. UNCHANGED <<open, asked, age>> /\ phase[p] = "serving" /\ asked[p] # {} /\ open[p] = {}
        /\ phase' = [phase EXCEPT ![p] = "draining"]
        /\ limit' = [limit EXCEPT ![p] = IF "term" \in asked[p] THEN Grace ELSE DrainTimeout]
    BY <1>3 DEF Drain
  <2>2. ProcTypes'
    BY <2>1 DEF SInv, TypeOK, ProcTypes, Phases
  <2>3. DrainState'
    BY <1>1, <2>1, SameConns DEF SInv, TypeOK, DrainState, Expired
  <2>4. Handover'
    BY <2>1 DEF SInv, TypeOK, Handover
  <2> QED BY <2>2, <2>3, <2>4
<1>4. ASSUME Tick(p) PROVE ProcTypes' /\ DrainState' /\ Handover'
  <2>1. UNCHANGED <<phase, open, asked, limit>> /\ phase[p] = "draining"
        /\ age' = [age EXCEPT ![p] = @ + 1]
    BY <1>4 DEF Tick
  <2>2. ProcTypes'
    BY <2>1 DEF SInv, TypeOK, ProcTypes
  <2>3. DrainState'
    BY <1>1, <2>1, SameConns DEF SInv, TypeOK, DrainState, Expired
  <2>4. Handover'
    BY <2>1 DEF SInv, TypeOK, Handover
  <2> QED BY <2>2, <2>3, <2>4
<1>5. ASSUME DrainEnds(p) PROVE ProcTypes' /\ DrainState' /\ Handover'
  <2>1. UNCHANGED <<open, asked, limit, age>> /\ phase[p] = "draining"
        /\ phase' = [phase EXCEPT ![p] = "stopped"]
        /\ (Of(p) = {} \/ Expired(p))
    BY <1>5 DEF DrainEnds
  <2>2. ProcTypes'
    BY <2>1 DEF SInv, TypeOK, ProcTypes, Phases
  <2>3. DrainState'
    BY <1>1, <2>1, SameConns DEF SInv, TypeOK, DrainState, Expired
  <2>4. Handover'
    BY <2>1 DEF SInv, TypeOK, Handover
  <2> QED BY <2>2, <2>3, <2>4
<1> QED BY <1>1, <1>2, <1>3, <1>4, <1>5, SameConns DEF SInv, TypeOK, ProcTypes, ConnTypes

LEMMA ExitKeeps ==
  ASSUME SInv, NEW p \in Procs, Exit(p) PROVE SInv'
<1>1. /\ phase' = [phase EXCEPT ![p] = "gone"]
      /\ open' = [open EXCEPT ![p] = {}]
      /\ asked' = [asked EXCEPT ![p] = {}]
      /\ limit' = [limit EXCEPT ![p] = 0]
      /\ age' = [age EXCEPT ![p] = 0]
  BY DEF Exit
<1>2. ProcTypes'
  BY <1>1 DEF SInv, TypeOK, ProcTypes, Phases
<1>3. DrainState'
  BY <1>1, ExitSlots DEF SInv, TypeOK, DrainState, Expired
<1>4. Handover'
  BY <1>1 DEF SInv, TypeOK, Handover
<1> QED BY <1>2, <1>3, <1>4, ExitSlots DEF SInv, TypeOK, ProcTypes, ConnTypes

-----------------------------------------------------------------------------
(* The invariant, and what follows from it.                                *)

LEMMA InitHolds == Init => SInv
<1> SUFFICES ASSUME Init PROVE SInv
  OBVIOUS
<1>1. TypeOK
  BY ServingAssumption DEF ServingAssumption, Init, TypeOK, Phases
<1>2. SlotsAreHeld
  <2>1. \A p \in Procs, r \in Routes :
          Of(p) = {} /\ On(p, r, Holding) = {} /\ On(p, r, Counted) = {}
    BY DEF Init, Of, On
  <2>2. \A p \in Procs : Of(p) = {}
    BY DEF Init, Of
  <2>3. \A p \in Procs, r \in Routes : sem[<<p, r>>] = 0 /\ active[<<p, r>>] = 0
    BY DEF Init, Guarded
  <2> QED BY <2>1, <2>2, <2>3, FS_EmptySet DEF Init, SlotsAreHeld
<1>3. SlotsWithin
  BY ServingAssumption DEF ServingAssumption, Init, SlotsWithin, Guarded
<1>4. DrainState
  BY DEF Init, DrainState
<1>5. Handover
  BY DEF Init, Handover
<1> QED BY <1>1, <1>2, <1>3, <1>4, <1>5 DEF SInv

LEMMA NextHolds == SInv /\ [Next]_vars => SInv'
<1> SUFFICES ASSUME SInv, [Next]_vars PROVE SInv'
  OBVIOUS
<1>1. CASE UNCHANGED vars
  <2>1. UNCHANGED connVars /\ UNCHANGED <<phase, open, asked, limit, age>>
    BY <1>1 DEF vars, procVars
  <2>2. DrainState' /\ Handover'
    BY <2>1, SameConns DEF SInv, DrainState, Handover, Expired
  <2> QED BY <2>1, <2>2, SameConns DEF SInv, TypeOK, ConnTypes
<1>2. CASE \E c \in Conns : ConnStep(c)
  BY <1>2, ConnStepKeeps
<1>3. ASSUME NEW p \in Procs,
             \/ Launch(p) \/ Ready(p) \/ Terminate(p) \/ Departs(p)
             \/ \E r \in Routes : Listen(p, r)
             \/ phase[p] = "starting" /\ Exit(p)
      PROVE  SInv'
  BY <1>3, LaunchKeeps, ReadyKeeps, TerminateKeeps, ListenKeeps, DepartsKeeps, ExitKeeps DEF Departs
<1> QED BY <1>1, <1>2, <1>3 DEF Next

\* The invariant of connections and processes.
THEOREM Invariance == Spec => []SInv
BY InitHolds, NextHolds, PTL DEF Spec

\* The counters of cmdServe and routeGuard stay natural numbers, and the proxy
\* server never has more connections than max_concurrent_connections.
THEOREM TypeCorrect == Spec => []TypeOK
<1>1. SInv => TypeOK
  BY DEF SInv
<1> QED BY <1>1, Invariance, PTL

\* acquire and the deferred release pair up on every path, the refusal by a full
\* route included: each counter is the number of connections that will give back.
THEOREM NoLeak == Spec => []SlotsAreHeld
<1>1. SInv => SlotsAreHeld
  BY DEF SInv
<1> QED BY <1>1, Invariance, PTL

\* release lowers the gauge before it frees the slot, so tlsgate_connections_active
\* never exceeds tlsgate_route_max_concurrent.
THEOREM WithinCapacity == Spec => []CapacityHeld
<1>1. SInv => CapacityHeld
  <2> SUFFICES ASSUME SInv, NEW p \in Procs, NEW r \in Routes, MaxOf[r] > 0
               PROVE  active[<<p, r>>] <= MaxOf[r]
    BY DEF CapacityHeld
  <2>1. On(p, r, Counted) \in SUBSET On(p, r, Holding)
    BY DEF On, Counted, Holding
  <2>2. Cardinality(On(p, r, Counted)) <= Cardinality(On(p, r, Holding))
    BY <2>1, FiniteConns, FS_Subset
  <2>3. /\ Cardinality(On(p, r, Counted)) \in Nat /\ Cardinality(On(p, r, Holding)) \in Nat
        /\ MaxOf[r] \in Nat
    BY FiniteConns, ServingAssumption DEF ServingAssumption
  <2>4. /\ active[<<p, r>>] = Cardinality(On(p, r, Counted))
        /\ sem[<<p, r>>] = Cardinality(On(p, r, Holding))
        /\ sem[<<p, r>>] <= MaxOf[r]
    BY DEF SInv, SlotsAreHeld, SlotsWithin
  <2> QED BY <2>2, <2>3, <2>4
<1> QED BY <1>1, Invariance, PTL

\* cmdServe closes its listeners before it drains and chooses the limit by the
\* reason it leaves, so it closes the store under a handler only at that limit.
THEOREM DrainHonoured == Spec => []DrainIsHonoured
<1>1. SInv => DrainIsHonoured
  BY ServingAssumption DEF ServingAssumption, SInv, TypeOK, DrainState, Expired, DrainIsHonoured
<1> QED BY <1>1, Invariance, PTL

\* A new process listens on every route before process.Ready relieves the old one:
\* no route goes without a listener for a handoff.
THEOREM HandoffLeavesNoGap == Spec => NoGap
<1>1. ASSUME SInv, [Next]_vars, NEW r \in Routes, NEW p \in Procs, r \in open[p],
             \A q \in Procs : r \notin open'[q]
      PROVE  \/ "term" \in asked[p]
             \/ \E q \in Procs : "term" \in asked[q]
             \/ /\ \A q \in Procs \ {p} : phase[q] = "gone"
                /\ phase[p] = "starting" \/ "handoff" \in asked[p]
  <2> SInv /\ r \in open[p]
    BY <1>1
  <2> open \in [Procs -> SUBSET Routes]
    BY DEF SInv, TypeOK
  <2>0. r \notin open'[p]
    BY <1>1
  <2>1. \/ phase[p] = "serving" /\ asked[p] # {} /\ \A q \in Procs \ {p} : open'[q] = open[q]
        \/ phase[p] = "starting" /\ \A q \in Procs \ {p} : open'[q] = open[q]
    <3>1. ASSUME NEW s \in Routes, StopListening(p, s)
          PROVE  phase[p] = "serving" /\ asked[p] # {} /\ \A q \in Procs \ {p} : open'[q] = open[q]
      BY <3>1 DEF StopListening
    <3>2. ASSUME Exit(p)
          PROVE  phase[p] = "starting" /\ \A q \in Procs \ {p} : open'[q] = open[q]
      <4>1. phase[p] # "stopped"
        BY DEF SInv, DrainState
      <4> QED BY <3>2, <4>1 DEF Exit
    <3>3. ASSUME NEW q \in Procs, q # p, Exit(q)
          PROVE  FALSE
      BY <2>0, <3>3 DEF Exit
    <3>4. ASSUME NEW q \in Procs, q # p, NEW s \in Routes, StopListening(q, s)
          PROVE  FALSE
      BY <2>0, <3>4 DEF StopListening
    <3>5. ASSUME NEW q \in Procs, NEW s \in Routes, Listen(q, s) PROVE FALSE
      BY <2>0, <3>5 DEF Listen
    <3>6. ASSUME UNCHANGED open PROVE FALSE
      BY <2>0, <3>6
    <3>7. ASSUME NEW c \in Conns, ConnStep(c) PROVE UNCHANGED open
      BY <3>7 DEF ConnStep, Accept, Acquire, Count, Handle, Release, Leave, procVars
    <3>8. ASSUME NEW q \in Procs, \/ Launch(q) \/ Ready(q) \/ Terminate(q)
                                  \/ Drain(q) \/ Tick(q) \/ DrainEnds(q)
          PROVE  UNCHANGED open
      BY <3>8 DEF Launch, Ready, Announce, Terminate, Drain, Tick, DrainEnds
    <3>9. UNCHANGED vars => UNCHANGED open
      BY DEF vars, procVars
    <3>10. Next \/ UNCHANGED vars
      BY <1>1
    <3> QED BY <3>1, <3>2, <3>3, <3>4, <3>5, <3>6, <3>7, <3>8, <3>9, <3>10 DEF Next, Departs
  <2>2. SUFFICES ASSUME \A q \in Procs : "term" \notin asked[q]
                 PROVE  /\ \A q \in Procs \ {p} : phase[q] = "gone"
                        /\ phase[p] = "starting" \/ "handoff" \in asked[p]
    BY <2>2
  <2>3. \A q \in Procs : asked[q] = {} \/ "handoff" \in asked[q]
    BY <2>2 DEF SInv, TypeOK
  <2>4. phase[p] = "starting" \/ "handoff" \in asked[p]
    BY <2>1, <2>3
  <2>5. ASSUME NEW q \in Procs \ {p}, phase[q] # "gone" PROVE FALSE
    <3>1. phase[q] # "starting" /\ "handoff" \notin asked[q]
      BY <2>4, <2>5 DEF SInv, Handover
    <3>2. asked[q] = {}
      BY <2>3, <3>1
    <3>3. phase[q] = "serving"
      BY <2>5, <3>1, <3>2 DEF SInv, TypeOK, Handover, Phases
    <3>4. r \in open[q]
      BY <3>2, <3>3 DEF SInv, Handover
    <3> QED BY <1>1, <2>1, <3>4
  <2> QED BY <2>4, <2>5
<1>2. SInv /\ [Next]_vars =>
        [\A r \in Routes :
           (\E p \in Procs : r \in open[p]) /\ ~(\E p \in Procs : r \in open'[p]) =>
             \E p \in Procs :
               \/ "term" \in asked[p]
               \/ /\ \A q \in Procs \ {p} : phase[q] = "gone"
                  /\ phase[p] = "starting" \/ "handoff" \in asked[p]]_vars
  BY <1>1
<1> QED BY <1>2, Invariance, PTL DEF Spec, NoGap
=============================================================================
