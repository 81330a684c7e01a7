----------------------------- MODULE GateProofs -----------------------------
(***************************************************************************)
(* Theorems about the gate, for any number of connections, fingerprints,   *)
(* addresses and routes, any cap and any trusted ranges: type correctness, *)
(* that traffic never moves an approval, and that the gate implements      *)
(* GatePromise.  Then, about the relay that a forwarded connection         *)
(* becomes, for streams, chunks and windows of any size: what arrives is   *)
(* in order, and what is said to be complete is.                           *)
(***************************************************************************)
EXTENDS Gate, Relay, FiniteSetTheorems, TLAPS

\* The state of an undecided connection determines nothing it cannot justify.
IInv == TypeOK /\ PastIsComplete /\ ApprovalsFollowDecisions

-----------------------------------------------------------------------------
(* The fingerprint table.                                                  *)

\* d and e approve the same fingerprints.
SameApprovals(d, e) ==
  \A f \in Fps : (d[f].status = "approved") <=> (e[f].status = "approved")

\* Pruning keeps a table a table and leaves every approval where it is.
LEMMA TrimsKeepApprovals ==
  ASSUME NEW d \in Table, NEW newest, NEW e \in Trims(d, newest)
  PROVE  e \in Table /\ SameApprovals(d, e)
<1> DEFINE Keeping(kept) ==
      [f \in Fps |-> IF f \in Approved(d) \cup kept THEN d[f] ELSE NoEntry]
<1>1. \/ e = d
      \/ \E kept \in SUBSET Known(d) : e = Keeping(kept)
  <2>1. {} \in SUBSET Known(d) /\ SUBSET (Known(d) \ Approved(d)) \subseteq SUBSET Known(d)
    OBVIOUS
  <2> QED BY <2>1 DEF Trims
<1>2. NoEntry \in Entry /\ NoEntry.status # "approved"
  BY DEF NoEntry, Entry
<1>3. CASE e = d
  BY <1>3 DEF SameApprovals
<1>4. ASSUME NEW kept \in SUBSET Known(d), e = Keeping(kept)
      PROVE  e \in Table /\ SameApprovals(d, e)
  <2>1. e \in Table
    BY <1>2, <1>4 DEF Table
  <2>2. ASSUME NEW f \in Fps
        PROVE  (d[f].status = "approved") <=> (e[f].status = "approved")
    BY <1>2, <1>4 DEF Approved
  <2> QED BY <2>1, <2>2 DEF SameApprovals
<1> QED BY <1>1, <1>3, <1>4

\* Recording what a client presents does so too.
LEMMA ObservedKeepsApprovals ==
  ASSUME NEW d \in Table, NEW f \in Fps, NEW b \in BOOLEAN, NEW e \in Observed(d, f, b)
  PROVE  e \in Table /\ SameApprovals(d, e)
<1>1. Recorded(d, f, b) \in Table /\ SameApprovals(d, Recorded(d, f, b))
  <2>1. CASE d[f].status # "absent"
    BY <2>1 DEF Recorded, SameApprovals
  <2>2. CASE d[f].status = "absent"
    BY <2>2 DEF Recorded, SameApprovals, Table, Entry
  <2> QED BY <2>1, <2>2
<1>2. CASE d[f].status # "absent"
  BY <1>2 DEF Observed, SameApprovals
<1>3. CASE d[f].status = "absent"
  <2>1. e \in Trims(Recorded(d, f, b), {f})
    BY <1>3 DEF Observed
  <2>2. e \in Table /\ SameApprovals(Recorded(d, f, b), e)
    BY <1>1, <2>1, TrimsKeepApprovals
  <2> QED BY <1>1, <2>2 DEF SameApprovals
<1> QED BY <1>2, <1>3

-----------------------------------------------------------------------------
(* The history variable past.                                              *)

LEMMA StandingIsFacts ==
  ASSUME NEW q, NEW T, NEW C
  PROVE  Standing(q, T, C) \subseteq Facts
BY DEF Standing, Facts

\* Whatever a step does to the handlers, Remember keeps past well typed and
\* completes it with the present standing.
LEMMA RememberIsComplete ==
  ASSUME past \in [Conns -> SUBSET Facts], Remember
  PROVE  /\ past' \in [Conns -> SUBSET Facts]
         /\ \A c \in Conns :
              past'[c] = IF pc'[c] # "hello" THEN {}
                         ELSE past[c] \cup Standing(req'[c], Trusted', Cleared')
BY StandingIsFacts DEF Remember

(* One step.                                                               *)

\* What every step does to the handlers: each one is admitted with a request
\* and reads the allowlist, goes on undecided with what it has read, or is
\* decided and forgets it.
HandlerStep(c) ==
  \/ pc'[c] = "hello" /\ req'[c] \in Requests /\ wl'[c] = (req'[c].addr \in Trusted')
  \/ pc'[c] = pc[c] /\ req'[c] = req[c] /\ wl'[c] = wl[c]
  \/ pc'[c] \in Stages \ {"hello"} /\ req'[c] = NoRequest

\* The shape shared by all actions.
StepShape ==
  /\ pc' \in [Conns -> Stages]
  /\ req' \in [Conns -> Requests \cup {NoRequest}]
  /\ wl' \in [Conns -> BOOLEAN]
  /\ \A c \in Conns : HandlerStep(c)
  /\ db' \in Table
  /\ dynamic' \in SUBSET Addrs
  /\ ordered' \in [Fps -> {"none", "approved", "blocked"}]
  /\ ApprovalsFollowDecisions'
  /\ Remember

LEMMA LeaveShape ==
  ASSUME TypeOK, NEW c \in Conns, NEW stage \in Stages \ {"hello"}, Leave(c, stage)
  PROVE  /\ pc' \in [Conns -> Stages]
         /\ req' \in [Conns -> Requests \cup {NoRequest}]
         /\ wl' \in [Conns -> BOOLEAN]
         /\ \A k \in Conns : HandlerStep(k)
<1>1. /\ pc' \in [Conns -> Stages]
      /\ req' \in [Conns -> Requests \cup {NoRequest}]
      /\ wl' \in [Conns -> BOOLEAN]
  BY DEF Leave, TypeOK
<1>2. ASSUME NEW k \in Conns PROVE HandlerStep(k)
  <2>1. CASE k = c
    BY <2>1 DEF Leave, TypeOK, HandlerStep
  <2>2. CASE k # c
    BY <2>2 DEF Leave, TypeOK, HandlerStep
  <2> QED BY <2>1, <2>2
<1> QED BY <1>1, <1>2

\* Steps that do not touch the handlers have the shape as far as handlers go.
LEMMA IdleShape ==
  ASSUME TypeOK, UNCHANGED conns
  PROVE  /\ pc' \in [Conns -> Stages]
         /\ req' \in [Conns -> Requests \cup {NoRequest}]
         /\ wl' \in [Conns -> BOOLEAN]
         /\ \A k \in Conns : HandlerStep(k)
BY DEF conns, TypeOK, HandlerStep

LEMMA PolicyUnchangedShape ==
  ASSUME TypeOK, ApprovalsFollowDecisions, UNCHANGED policy
  PROVE  /\ db' \in Table
         /\ dynamic' \in SUBSET Addrs
         /\ ordered' \in [Fps -> {"none", "approved", "blocked"}]
         /\ ApprovalsFollowDecisions'
BY DEF policy, TypeOK, ApprovalsFollowDecisions

\* A step of a handler has the shape.
LEMMA HandlerHasShape ==
  ASSUME TypeOK, ApprovalsFollowDecisions, NEW c \in Conns, Handler(c)
  PROVE  StepShape
<1>1. ASSUME NEW q \in Requests, Admit(c, q) PROVE StepShape
  <2>1. /\ pc' \in [Conns -> Stages]
        /\ req' \in [Conns -> Requests \cup {NoRequest}]
        /\ wl' \in [Conns -> BOOLEAN]
    BY <1>1 DEF Admit, TypeOK, Stages
  <2>2. ASSUME NEW k \in Conns PROVE HandlerStep(k)
    <3>1. CASE k = c
      BY <1>1, <3>1 DEF Admit, TypeOK, HandlerStep, Trusted, policy
    <3>2. CASE k # c
      BY <1>1, <3>2 DEF Admit, TypeOK, HandlerStep
    <3> QED BY <3>1, <3>2
  <2> QED BY <1>1, <2>1, <2>2, PolicyUnchangedShape DEF Admit, StepShape
<1>2. CASE Abandon(c)
  BY <1>2, LeaveShape, PolicyUnchangedShape DEF Abandon, StepShape, Stages
<1>3. CASE HandleOpaque(c)
  BY <1>3, LeaveShape, PolicyUnchangedShape DEF HandleOpaque, StepShape, Stages
<1>4. CASE ObserveFails(c)
  BY <1>4, LeaveShape, PolicyUnchangedShape DEF ObserveFails, StepShape, Stages
<1>5. CASE HandleHello(c)
  <2> DEFINE f == req[c].hello
  <2>1. BlockThis(c) \in BOOLEAN
    BY DEF BlockThis, TypeOK
  <2>2. db \in Table /\ f \in Fps /\ db' \in Observed(db, f, BlockThis(c))
    BY <1>5 DEF HandleHello, TypeOK
  <2>3. db' \in Table /\ SameApprovals(db, db')
    BY <2>1, <2>2, ObservedKeepsApprovals
  <2>4. dynamic' = dynamic /\ ordered' = ordered /\ Remember
    BY <1>5 DEF HandleHello
  <2>5. PICK stage \in {"dial", "refused"} : Leave(c, stage)
    BY <1>5 DEF HandleHello
  <2>6. ApprovalsFollowDecisions'
    BY <2>3, <2>4 DEF SameApprovals, ApprovalsFollowDecisions
  <2> QED BY <2>3, <2>4, <2>5, <2>6, LeaveShape DEF StepShape, Stages, TypeOK
<1>6. CASE Dial(c)
  BY <1>6, LeaveShape, PolicyUnchangedShape DEF Dial, StepShape, Stages
<1>7. CASE Finish(c)
  BY <1>7, LeaveShape, PolicyUnchangedShape DEF Finish, StepShape, Stages
<1> QED BY <1>1, <1>2, <1>3, <1>4, <1>5, <1>6, <1>7 DEF Handler

\* A decision on one fingerprint sets the approval and the record of it alike.
LEMMA DecisionHasShape ==
  ASSUME TypeOK, ApprovalsFollowDecisions, NEW f \in Fps, Decision(f)
  PROVE  StepShape
<1>1. PICK status \in {"approved", "blocked"}, scope \in SUBSET Addrs :
        /\ db' = [db EXCEPT ![f] = [status |-> status, scope |-> scope]]
        /\ ordered' = [ordered EXCEPT ![f] = status]
        /\ UNCHANGED <<dynamic, conns>>
        /\ Remember
  <2>1. ASSUME NEW status \in {"approved", "blocked"},
               CliSetStatus(f, status) \/ CliRegister(f, status)
        PROVE  \E scope \in SUBSET Addrs :
                 /\ db' = [db EXCEPT ![f] = [status |-> status, scope |-> scope]]
                 /\ ordered' = [ordered EXCEPT ![f] = status]
                 /\ UNCHANGED <<dynamic, conns>>
                 /\ Remember
    <3>1. db' \in Ranked(db, f, status)
      BY <2>1 DEF CliSetStatus, CliRegister
    <3>2. PICK scope \in {db[f].scope, Addrs} :
            db' = [db EXCEPT ![f] = [status |-> status, scope |-> scope]]
      BY <3>1 DEF Ranked
    <3>3. scope \in SUBSET Addrs
      BY DEF TypeOK, Table, Entry
    <3> QED BY <2>1, <3>2, <3>3 DEF CliSetStatus, CliRegister
  <2>2. ASSUME NEW scope \in Scopes, ApplyDecision(f, "approved", scope)
        PROVE  scope \in SUBSET Addrs
    BY DEF Scopes
  <2> QED BY <2>1, <2>2 DEF Decision, ApplyDecision, Decided
<1>2. db' \in Table
  <2>1. [status |-> status, scope |-> scope] \in Entry
    BY DEF Entry
  <2> QED BY <1>1, <2>1 DEF TypeOK, Table
<1>3. ordered' \in [Fps -> {"none", "approved", "blocked"}]
  BY <1>1 DEF TypeOK
<1>4. ApprovalsFollowDecisions'
  BY <1>1 DEF TypeOK, Table, ApprovalsFollowDecisions
<1> QED BY <1>1, <1>2, <1>3, <1>4, IdleShape DEF StepShape, TypeOK

LEMMA DeleteHasShape ==
  ASSUME TypeOK, ApprovalsFollowDecisions, NEW fs \in SUBSET Fps, CliDelete(fs)
  PROVE  StepShape
<1>1. NoEntry \in Entry /\ NoEntry.status # "approved"
  BY DEF NoEntry, Entry
<1>2. db' \in Table /\ ordered' \in [Fps -> {"none", "approved", "blocked"}]
  BY <1>1 DEF CliDelete, Deleted, TypeOK, Table
<1>3. ApprovalsFollowDecisions'
  BY <1>1 DEF CliDelete, Deleted, TypeOK, Table, ApprovalsFollowDecisions
<1> QED BY <1>2, <1>3, IdleShape DEF CliDelete, StepShape, TypeOK

\* Pruning and starting a process leave approvals and their record alone.
LEMMA ProcessHasShape ==
  ASSUME TypeOK, ApprovalsFollowDecisions,
         \/ Prune
         \/ \E ranges \in DynamicTrusted : ReplaceRanges(ranges)
         \/ \E upgrade \in BOOLEAN : Start(upgrade)
  PROVE  StepShape
<1>1. CASE Prune
  <2>1. db' \in Table /\ SameApprovals(db, db')
    BY <1>1, TrimsKeepApprovals DEF Prune, TypeOK
  <2> QED BY <1>1, <2>1, IdleShape
          DEF Prune, StepShape, TypeOK, SameApprovals, ApprovalsFollowDecisions
<1>2. ASSUME NEW ranges \in DynamicTrusted, ReplaceRanges(ranges) PROVE StepShape
  <2>1. ranges \in SUBSET Addrs
    BY RequestsAssumption
  <2> QED BY <1>2, <2>1, IdleShape
          DEF ReplaceRanges, StepShape, TypeOK, ApprovalsFollowDecisions
<1>3. ASSUME NEW upgrade \in BOOLEAN, Start(upgrade) PROVE StepShape
  <2>1. db' \in Table /\ SameApprovals(db, db')
    BY <1>3, TrimsKeepApprovals DEF Start, TypeOK
  <2>2. /\ dynamic' \in SUBSET Addrs
        /\ ordered' \in [Fps -> {"none", "approved", "blocked"}]
        /\ ApprovalsFollowDecisions'
        /\ Remember
    BY <1>3, <2>1 DEF Start, TypeOK, SameApprovals, ApprovalsFollowDecisions
  <2>3. CASE UNCHANGED conns
    BY <2>1, <2>2, <2>3, IdleShape DEF StepShape
  <2>4. CASE ~upgrade
    <3>1. /\ pc'  = [c \in Conns |-> "closed"]
          /\ req' = [c \in Conns |-> NoRequest]
          /\ wl'  = [c \in Conns |-> FALSE]
      BY <1>3, <2>4 DEF Start
    <3>2. /\ pc' \in [Conns -> Stages]
          /\ req' \in [Conns -> Requests \cup {NoRequest}]
          /\ wl' \in [Conns -> BOOLEAN]
          /\ \A c \in Conns : HandlerStep(c)
      BY <3>1 DEF Stages, HandlerStep
    <3> QED BY <2>1, <2>2, <3>2 DEF StepShape
  <2> QED BY <1>3, <2>3, <2>4 DEF Start
<1> QED BY <1>1, <1>2, <1>3

LEMMA NextHasShape ==
  ASSUME TypeOK, ApprovalsFollowDecisions, Next
  PROVE  StepShape
<1>1. \A fs \in {{f} : f \in Fps} \cup {Fps} : fs \in SUBSET Fps
  OBVIOUS
<1> QED BY <1>1, HandlerHasShape, DecisionHasShape, DeleteHasShape, ProcessHasShape DEF Next

-----------------------------------------------------------------------------
(* The invariant.                                                          *)

LEMMA InitIInv == Init => IInv
<1> SUFFICES ASSUME Init PROVE IInv
  OBVIOUS
<1>1. NoEntry \in Entry /\ NoEntry.status # "approved"
  BY DEF NoEntry, Entry
<1>2. TypeOK
  BY <1>1 DEF Init, TypeOK, Table, Stages
<1>3. PastIsComplete /\ ApprovalsFollowDecisions
  BY <1>1 DEF Init, PastIsComplete, ApprovalsFollowDecisions
<1> QED BY <1>2, <1>3 DEF IInv

\* A step of the shape completes past: an admitted connection gets the standing
\* its whitelisted was read in, an undecided one keeps it and adds the present.
LEMMA ShapeKeepsIInv ==
  ASSUME IInv, StepShape
  PROVE  IInv'
<1>1. past' \in [Conns -> SUBSET Facts]
  BY RememberIsComplete DEF IInv, TypeOK, StepShape
<1>2. ASSUME NEW c \in Conns
      PROVE  pc'[c] = "hello" <=> req'[c] # NoRequest
  BY RequestsAssumption DEF StepShape, HandlerStep, IInv, TypeOK, Stages
<1>3. TypeOK'
  BY <1>1, <1>2 DEF StepShape, TypeOK
<1>4. ASSUME NEW c \in Conns, pc'[c] = "hello"
      PROVE  /\ Standing(req'[c], Trusted', Cleared') \subseteq past'[c]
             /\ (IF wl'[c] THEN "trusted" ELSE "untrusted") \in past'[c]
  <2>1. past'[c] = past[c] \cup Standing(req'[c], Trusted', Cleared')
    BY <1>4, RememberIsComplete DEF IInv, TypeOK, StepShape
  <2>2. CASE wl'[c] = (req'[c].addr \in Trusted')
    BY <2>1, <2>2 DEF Standing
  <2>3. CASE pc'[c] = pc[c] /\ req'[c] = req[c] /\ wl'[c] = wl[c]
    BY <1>4, <2>1, <2>3 DEF IInv, PastIsComplete
  <2> QED BY <1>4, <2>2, <2>3 DEF StepShape, HandlerStep
<1>5. PastIsComplete'
  BY <1>4, RememberIsComplete DEF PastIsComplete, IInv, TypeOK, StepShape
<1> QED BY <1>3, <1>5 DEF IInv, StepShape

LEMMA StepIInv == IInv /\ [Next]_vars => IInv'
<1> SUFFICES ASSUME IInv, [Next]_vars PROVE IInv'
  OBVIOUS
<1>1. CASE Next
  BY <1>1, NextHasShape, ShapeKeepsIInv DEF IInv
<1>2. CASE UNCHANGED vars
  BY <1>2 DEF vars, IInv, TypeOK, PastIsComplete, ApprovalsFollowDecisions,
              Trusted, Cleared, Clears
<1> QED BY <1>1, <1>2

\* Every reachable state satisfies the inductive invariant.
THEOREM Invariance == Spec => []IInv
<1> QED BY InitIInv, StepIInv, PTL DEF Spec

\* The variables keep their types.
THEOREM TypeCorrect == Spec => []TypeOK
<1>1. IInv => TypeOK
  BY DEF IInv
<1> QED BY <1>1, Invariance, PTL

\* Traffic, eviction and restarts never grant or withdraw an approval.
THEOREM ApprovalsAreDecisions == Spec => []ApprovalsFollowDecisions
<1>1. IInv => ApprovalsFollowDecisions
  BY DEF IInv
<1> QED BY <1>1, Invariance, PTL

-----------------------------------------------------------------------------
(* The gate implements its promise.                                        *)

\* A handler that keeps its stage and request keeps, in the abstraction, its
\* phase, and sees the policy move.
LEMMA UndisturbedStays ==
  ASSUME IInv, IInv', StepShape, NEW c \in Conns,
         Phase(pc'[c]) = Phase(pc[c]), req'[c] = req[c]
  PROVE  Promise!Stay(c)
<1>1. past'[c] = IF pc'[c] # "hello" THEN {}
                 ELSE past[c] \cup Standing(req'[c], Trusted', Cleared')
  BY RememberIsComplete DEF IInv, TypeOK, StepShape
<1>2. \A stage \in Stages : Phase(stage) = "deciding" <=> stage = "hello"
  BY DEF Stages, Phase
<1>3. pc[c] \in Stages /\ pc'[c] \in Stages
  BY DEF IInv, TypeOK
<1>4. pc[c] # "hello" => past[c] = {}
  BY DEF IInv, PastIsComplete
<1> QED BY <1>1, <1>2, <1>3, <1>4 DEF Promise!Stay, Promise!Standing, Standing

\* A handler that leaves forgets, in the abstraction too.
LEMMA LeaveIsLeave ==
  ASSUME IInv, Remember, NEW c \in Conns, NEW stage \in Stages \ {"hello"}, Leave(c, stage)
  PROVE  Promise!Leave(c, Phase(stage))
<1>1. pc'[c] = stage /\ req'[c] = NoRequest
  BY DEF Leave, IInv, TypeOK
<1>2. past'[c] = {}
  BY <1>1, RememberIsComplete DEF IInv, TypeOK
<1> QED BY <1>1, <1>2 DEF Promise!Leave

\* The verdict on a fingerprint is justified by what the handler has read: the
\* allowlist at its start, the table now.
LEMMA VerdictIsJustified ==
  ASSUME IInv, NEW c \in Conns, pc[c] = "hello", req[c].hello \in Fps
  PROVE  LET entry == Recorded(db, req[c].hello, BlockThis(c))[req[c].hello]
         IN  IF Forwards(c, entry) THEN past[c] \cap {"trusted", "cleared"} # {}
             ELSE {"untrusted", "uncleared"} \subseteq past[c]
<1> DEFINE f == req[c].hello
           entry == Recorded(db, f, BlockThis(c))[f]
<1>1. /\ req[c] \in Requests
      /\ wl[c] \in BOOLEAN
      /\ db[f] \in Entry
      /\ req[c].addr \in Addrs
  BY RequestsAssumption DEF IInv, TypeOK, Table
<1>2. /\ (IF req[c] \in Cleared THEN "cleared" ELSE "uncleared") \in past[c]
      /\ (IF wl[c] THEN "trusted" ELSE "untrusted") \in past[c]
  BY DEF IInv, PastIsComplete, Standing
<1>3. req[c] \in Cleared <=> Clears(db, req[c])
  BY <1>1 DEF Cleared
<1>4. entry = IF db[f].status # "absent" THEN db[f]
              ELSE [status |-> IF BlockThis(c) THEN "blocked" ELSE "pending",
                    scope |-> Addrs]
  BY DEF Recorded, IInv, TypeOK, Table
<1>5. CASE wl[c]
  BY <1>2, <1>5 DEF Forwards
<1>6. CASE ~wl[c]
  <2>1. "untrusted" \in past[c]
    BY <1>2, <1>6
  <2>2. BlockThis(c) <=> BlockUnknown(req[c])
    BY <1>6 DEF BlockThis
  <2>3. Forwards(c, entry) <=> Clears(db, req[c])
    BY <1>1, <1>4, <1>6, <2>2 DEF Forwards, Clears, Entry
  <2> QED BY <1>2, <1>3, <2>1, <2>3
<1> QED BY <1>1, <1>5, <1>6

\* So is the verdict on a hello without a fingerprint.
LEMMA OpaqueVerdictIsJustified ==
  ASSUME IInv, NEW c \in Conns, pc[c] = "hello", req[c].hello \notin Fps
  PROVE  IF ~BlockThis(c) THEN past[c] \cap {"trusted", "cleared"} # {}
         ELSE {"untrusted", "uncleared"} \subseteq past[c]
<1>1. req[c] \in Requests /\ wl[c] \in BOOLEAN
  BY DEF IInv, TypeOK
<1>2. /\ (IF req[c] \in Cleared THEN "cleared" ELSE "uncleared") \in past[c]
      /\ (IF wl[c] THEN "trusted" ELSE "untrusted") \in past[c]
  BY DEF IInv, PastIsComplete, Standing
<1>3. req[c] \in Cleared <=> ~BlockUnknown(req[c])
  BY <1>1 DEF Cleared, Clears
<1> QED BY <1>1, <1>2, <1>3 DEF BlockThis

\* Every step of one handler is a step of its connection in the abstraction.
LEMMA HandlerMaps ==
  ASSUME IInv, IInv', StepShape, NEW c \in Conns, Handler(c)
  PROVE  \/ Promise!Open(c) \/ Promise!Stay(c) \/ Promise!Forward(c)
         \/ Promise!Refuse(c) \/ Promise!Drop(c)
<1>1. ASSUME NEW q \in Requests, Admit(c, q) PROVE Promise!Open(c)
  <2>1. pc'[c] = "hello" /\ req'[c] = q /\ pc[c] \in {"closed", "refused"}
    BY <1>1 DEF Admit, IInv, TypeOK
  <2>2. past[c] = {}
    BY <2>1 DEF IInv, PastIsComplete
  <2>3. past'[c] = Standing(q, Trusted', Cleared')
    BY <2>1, <2>2, RememberIsComplete DEF IInv, TypeOK, StepShape
  <2> QED BY <2>1, <2>3 DEF Promise!Open, Promise!Standing, Standing, Phase
<1>2. CASE Abandon(c) \/ ObserveFails(c) \/ Finish(c)
  <2>1. Leave(c, "closed") /\ Remember
    BY <1>2 DEF Abandon, ObserveFails, Finish
  <2> QED BY <2>1, LeaveIsLeave DEF Promise!Drop, Stages, Phase
<1>3. CASE HandleOpaque(c)
  <2>1. /\ pc[c] = "hello" /\ req[c].hello \notin Fps /\ Remember
        /\ Leave(c, IF BlockThis(c) THEN "refused" ELSE "dial")
    BY <1>3 DEF HandleOpaque
  <2>2. CASE BlockThis(c)
    BY <2>1, <2>2, LeaveIsLeave, OpaqueVerdictIsJustified
       DEF Promise!Refuse, Stages, Phase
  <2>3. CASE ~BlockThis(c)
    BY <2>1, <2>3, LeaveIsLeave, OpaqueVerdictIsJustified
       DEF Promise!Forward, Stages, Phase
  <2> QED BY <2>2, <2>3
<1>4. CASE HandleHello(c)
  <2> DEFINE entry == Recorded(db, req[c].hello, BlockThis(c))[req[c].hello]
  <2>1. /\ pc[c] = "hello" /\ req[c].hello \in Fps /\ Remember
        /\ Leave(c, IF Forwards(c, entry) THEN "dial" ELSE "refused")
    BY <1>4 DEF HandleHello
  <2>2. CASE Forwards(c, entry)
    BY <2>1, <2>2, LeaveIsLeave, VerdictIsJustified DEF Promise!Forward, Stages, Phase
  <2>3. CASE ~Forwards(c, entry)
    BY <2>1, <2>3, LeaveIsLeave, VerdictIsJustified DEF Promise!Refuse, Stages, Phase
  <2> QED BY <2>2, <2>3
<1>5. CASE Dial(c)
  <2>1. PICK stage \in {"relay", "closed"} : Leave(c, stage)
    BY <1>5 DEF Dial
  <2>2. CASE stage = "closed"
    BY <1>5, <2>1, <2>2, LeaveIsLeave DEF Dial, Promise!Drop, Stages, Phase
  <2>3. CASE stage = "relay"
    <3>1. Phase(pc'[c]) = Phase(pc[c]) /\ req'[c] = req[c]
      BY <1>5, <2>1, <2>3 DEF Dial, Leave, Phase, IInv, TypeOK
    <3> QED BY <3>1, UndisturbedStays
  <2> QED BY <2>2, <2>3
<1> QED BY <1>1, <1>2, <1>3, <1>4, <1>5 DEF Handler

\* No other handler moves while one does.
LEMMA HandlerIsLocal ==
  ASSUME IInv, NEW c \in Conns, Handler(c), NEW k \in Conns \ {c}
  PROVE  pc'[k] = pc[k] /\ req'[k] = req[k]
BY DEF Handler, Admit, Abandon, HandleOpaque, ObserveFails, HandleHello, Dial, Finish,
       Leave, IInv, TypeOK

\* Every step of the gate is a step of the promise.
LEMMA StepMaps == IInv /\ IInv' /\ Next => Promise!Next
<1> SUFFICES ASSUME IInv, IInv', Next PROVE Promise!Next
  OBVIOUS
<1>1. StepShape
  BY NextHasShape DEF IInv
<1>2. Trusted' \in SUBSET Addrs /\ Cleared' \in SUBSET Requests
  BY <1>1, RequestsAssumption DEF StepShape, Trusted, Cleared
<1>3. \A stage \in Stages : Phase(stage) \in Promise!Phases
  BY DEF Stages, Phase, Promise!Phases
<1>4. [c \in Conns |-> Phase(pc[c])]' \in [Conns -> Promise!Phases]
  BY <1>1, <1>3 DEF StepShape
<1>5. past' \in [Conns -> SUBSET Promise!Facts]
  BY DEF IInv, TypeOK, Facts, Promise!Facts
<1>6. ASSUME NEW k \in Conns
      PROVE  \/ Promise!Open(k) \/ Promise!Stay(k) \/ Promise!Forward(k)
             \/ Promise!Refuse(k) \/ Promise!Drop(k)
  <2>1. CASE \E c \in Conns : Handler(c)
    <3>1. PICK c \in Conns : Handler(c)
      BY <2>1
    <3>2. CASE k = c
      BY <1>1, <3>1, <3>2, HandlerMaps
    <3>3. CASE k # c
      <4>1. pc'[k] = pc[k] /\ req'[k] = req[k]
        BY <3>1, <3>3, HandlerIsLocal
      <4> QED BY <1>1, <4>1, UndisturbedStays
    <3> QED BY <3>2, <3>3
  <2>2. CASE UNCHANGED conns
    BY <1>1, <2>2, UndisturbedStays DEF conns
  <2>3. CASE pc' = [c \in Conns |-> "closed"] /\ req' = [c \in Conns |-> NoRequest]
    <3>1. past'[k] = {}
      BY <2>3, RememberIsComplete, <1>1 DEF IInv, TypeOK, StepShape
    <3> QED BY <2>3, <3>1 DEF Promise!Drop, Promise!Leave, Phase
  <2> QED BY <2>1, <2>2, <2>3 DEF Next, Decision, CliSetStatus, CliRegister,
             ApplyDecision, CliDelete, ReplaceRanges, Prune, Start
<1> QED BY <1>1, <1>2, <1>4, <1>5, <1>6 DEF Promise!Next, StepShape

\* The gate is an implementation of GatePromise.
THEOREM GateKeepsPromise == Spec => KeepsPromise
<1>1. Init => Promise!Init
  BY RequestsAssumption DEF Init, Promise!Init, Trusted, Cleared, Phase
<1>2. IInv /\ IInv' /\ [Next]_vars => [Promise!Next]_(Promise!vars)
  <2>1. UNCHANGED vars => UNCHANGED Promise!vars
    BY DEF vars, Promise!vars, Trusted, Cleared, Clears, Phase
  <2> QED BY <2>1, StepMaps
<1> QED BY <1>1, <1>2, Invariance, PTL DEF Spec, KeepsPromise, Promise!Spec

-----------------------------------------------------------------------------
(* The size of the table.  At any moment it has finitely many entries, so   *)
(* that they can be counted; no bound on Fps is assumed.                    *)

Countable == IsFiniteSet(Known(db))

\* What pruning leaves is within the cap, or approved.
LEMMA TrimsBound ==
  ASSUME NEW d \in Table, IsFiniteSet(Known(d)), NEW newest, NEW e \in Trims(d, newest)
  PROVE  /\ Known(e) \subseteq Known(d) /\ IsFiniteSet(Known(e))
         /\ Limit # -1 => Cardinality(Known(e)) <= Limit \/ Known(e) \subseteq Approved(d)
<1> DEFINE Keeping(kept) ==
      [f \in Fps |-> IF f \in Approved(d) \cup kept THEN d[f] ELSE NoEntry]
<1>1. ASSUME NEW kept \in SUBSET (Known(d) \ Approved(d))
      PROVE  Known(Keeping(kept)) \subseteq Approved(d) \cup kept
  BY DEF Known, NoEntry
<1>2. Approved(d) \subseteq Known(d) /\ IsFiniteSet(Approved(d))
  <2>1. Approved(d) \in SUBSET Known(d)
    BY DEF Approved, Known
  <2> QED BY <2>1, FS_Subset
<1>3. Cardinality(Known(d)) \in Nat /\ Cardinality(Approved(d)) \in Nat
  BY <1>2, FS_CardinalityType
<1>4. CASE Limit = -1 \/ Cardinality(Known(d)) <= Limit
  <2>1. e = d
    BY <1>4 DEF Trims
  <2> QED BY <1>4, <2>1
<1>5. CASE ~(Limit = -1 \/ Cardinality(Known(d)) <= Limit) /\ Limit - Cardinality(Approved(d)) <= 0
  <2>1. e = Keeping({})
    BY <1>5 DEF Trims
  <2>2. Known(Keeping({})) \subseteq Approved(d) \cup {}
    BY <1>1
  <2>3. Known(e) \subseteq Approved(d)
    BY <2>1, <2>2
  <2> QED BY <1>2, <2>3, FS_Subset
<1>6. CASE ~(Limit = -1 \/ Cardinality(Known(d)) <= Limit) /\ ~(Limit - Cardinality(Approved(d)) <= 0)
  <2>1. PICK kept \in SUBSET (Known(d) \ Approved(d)) :
          e = Keeping(kept) /\ Cardinality(kept) = Limit - Cardinality(Approved(d))
    BY <1>6 DEF Trims
  <2>2. Known(e) \subseteq Approved(d) \cup kept
    BY <1>1, <2>1
  <2>3. IsFiniteSet(kept)
    <3>1. kept \in SUBSET Known(d)
      OBVIOUS
    <3> QED BY <3>1, FS_Subset
  <2>4. IsFiniteSet(Approved(d) \cup kept) /\ Cardinality(Approved(d) \cup kept) = Limit
    <3>1. Approved(d) \cap kept = {}
      OBVIOUS
    <3>2. /\ IsFiniteSet(Approved(d) \cup kept)
          /\ Cardinality(Approved(d) \cup kept)
               = Cardinality(Approved(d)) + Cardinality(kept) - Cardinality(Approved(d) \cap kept)
      BY <1>2, <2>3, FS_Union
    <3>3. Cardinality(Approved(d) \cap kept) = 0 /\ Limit \in Int
      BY <3>1, FS_EmptySet, LimitAssumption
    <3> QED BY <1>3, <2>1, <3>2, <3>3
  <2>5. IsFiniteSet(Known(e)) /\ Cardinality(Known(e)) <= Limit
    BY <2>2, <2>4, FS_Subset
  <2>6. Known(e) \subseteq Known(d)
    BY <1>2, <2>2
  <2> QED BY <2>5, <2>6
<1> QED BY <1>4, <1>5, <1>6

\* A client that is recorded grows the table only up to the cap.
LEMMA ObservedBound ==
  ASSUME NEW d \in Table, IsFiniteSet(Known(d)), NEW f \in Fps, NEW b \in BOOLEAN,
         NEW e \in Observed(d, f, b)
  PROVE  /\ IsFiniteSet(Known(e))
         /\ Limit # -1 => \/ Cardinality(Known(e)) <= Limit
                          \/ Cardinality(Known(e)) <= Cardinality(Known(d))
<1>1. CASE d[f].status # "absent"
  <2>1. e = d /\ Cardinality(Known(d)) \in Nat
    BY <1>1, FS_CardinalityType DEF Observed
  <2> QED BY <2>1
<1>2. CASE d[f].status = "absent"
  <2> DEFINE r == Recorded(d, f, b)
  <2>1. r \in Table /\ Known(r) \subseteq Known(d) \cup {f} /\ Approved(r) \subseteq Known(d)
    BY <1>2 DEF Recorded, Table, Entry, Known, Approved
  <2>2. IsFiniteSet(Known(r))
    BY <2>1, FS_AddElement, FS_Subset
  <2>3. e \in Trims(r, {f})
    BY <1>2 DEF Observed
  <2> HIDE DEF r
  <2>4. /\ IsFiniteSet(Known(e))
        /\ Limit # -1 => Cardinality(Known(e)) <= Limit \/ Known(e) \subseteq Approved(r)
    BY <2>1, <2>2, <2>3, TrimsBound
  <2>5. Known(e) \subseteq Approved(r) => Cardinality(Known(e)) <= Cardinality(Known(d))
    BY <2>1, FS_Subset
  <2> QED BY <2>4, <2>5
<1> QED BY <1>1, <1>2

LEMMA NextCountable == IInv /\ Countable /\ [Next]_vars => Countable'
<1> SUFFICES ASSUME IInv, IsFiniteSet(Known(db)), [Next]_vars
             PROVE  IsFiniteSet(Known(db'))
  BY DEF Countable, Known
<1>0. db \in Table
  BY DEF IInv, TypeOK
<1>1. CASE db' = db
  BY <1>1
<1>2. ASSUME NEW c \in Conns, HandleHello(c) PROVE IsFiniteSet(Known(db'))
  <2>1. BlockThis(c) \in BOOLEAN /\ req[c].hello \in Fps /\ db' \in Observed(db, req[c].hello, BlockThis(c))
    BY <1>2 DEF HandleHello, BlockThis, IInv, TypeOK
  <2> QED BY <1>0, <2>1, ObservedBound
<1>3. ASSUME NEW f \in Fps, Decision(f) PROVE IsFiniteSet(Known(db'))
  <2>1. \E v : db' = [db EXCEPT ![f] = v]
    BY <1>3 DEF Decision, CliSetStatus, CliRegister, ApplyDecision, Decided, Ranked
  <2>2. Known(db') \subseteq Known(db) \cup {f}
    BY <1>0, <2>1 DEF Known, Table
  <2> QED BY <2>2, FS_AddElement, FS_Subset
<1>4. ASSUME NEW fs, CliDelete(fs) PROVE IsFiniteSet(Known(db'))
  <2>1. Known(db') \subseteq Known(db)
    BY <1>4 DEF CliDelete, Deleted, Known, NoEntry
  <2> QED BY <2>1, FS_Subset
<1>5. CASE db' \in Trims(db, {})
  BY <1>0, <1>5, TrimsBound
<1> QED BY <1>1, <1>2, <1>3, <1>4, <1>5
        DEF Next, Handler, Admit, Abandon, HandleOpaque, ObserveFails, Dial, Finish, ReplaceRanges,
            Prune, Start, policy, vars

\* Observe and its cap: the entries that a step of a client or a restart leaves are within
\* max_fingerprints, or no more than there were; only decisions exceed it.
THEOREM FloodBounded == Spec => FloodIsBounded
<1> DEFINE Grows == /\ Limit # -1
                    /\ Cardinality(Known(db)') > Cardinality(Known(db))
                    /\ Cardinality(Known(db)') > Limit
<1>1. Init => Countable
  <2>1. Init => Known(db) = {}
    BY DEF Init, Known, NoEntry
  <2> QED BY <2>1, FS_EmptySet DEF Countable
<1>2. IInv /\ Countable /\ [Next]_vars => [Grows => UNCHANGED conns]_vars
  <2> SUFFICES ASSUME IInv, Countable, Next, Grows PROVE UNCHANGED conns
    OBVIOUS
  <2>0. db \in Table /\ IsFiniteSet(Known(db)) /\ Known(db)' = Known(db')
    BY DEF IInv, TypeOK, Countable, Known
  <2>1. Cardinality(Known(db)) \in Nat /\ Limit \in Int
    BY <2>0, FS_CardinalityType, LimitAssumption
  <2>2. IsFiniteSet(Known(db'))
    BY <2>0, NextCountable DEF Countable
  <2>3. Cardinality(Known(db')) \in Nat
    BY <2>2, FS_CardinalityType
  <2>4. ~(Cardinality(Known(db')) <= Limit) /\ ~(Cardinality(Known(db')) <= Cardinality(Known(db)))
    BY <2>0, <2>1, <2>3
  <2>5. Limit # -1
    OBVIOUS
  <2> HIDE DEF Grows
  <2>6. db' # db
    BY <2>1, <2>4
  <2>7. ASSUME NEW c \in Conns, HandleHello(c) PROVE FALSE
    <3>1. /\ BlockThis(c) \in BOOLEAN /\ req[c].hello \in Fps
          /\ db' \in Observed(db, req[c].hello, BlockThis(c))
      BY <2>7 DEF HandleHello, BlockThis
    <3> QED BY <2>0, <2>4, <2>5, <3>1, ObservedBound
  <2>8. ASSUME NEW upgrade \in BOOLEAN, Start(upgrade) PROVE FALSE
    <3>1. Known(db') \subseteq Known(db)
      BY <2>0, <2>8, TrimsBound DEF Start
    <3> QED BY <2>0, <2>4, <3>1, FS_Subset
  <2> QED BY <2>6, <2>7, <2>8
          DEF Next, Handler, Admit, Abandon, HandleOpaque, ObserveFails, Dial, Finish, ReplaceRanges,
              Prune, Decision, CliSetStatus, CliRegister, ApplyDecision, CliDelete, policy
<1> QED BY <1>1, <1>2, NextCountable, Invariance, PTL DEF Spec, FloodIsBounded

-----------------------------------------------------------------------------
(* The relay of a connection that the gate has forwarded.                  *)

\* What a pump has in hand: nothing between chunks, the rest of one while
\* writing.  It has returned "ok" only with the whole stream written.
Bookkeeping(d) ==
  /\ Len(out[d]) = wrote[d]
  /\ \A i \in 1 .. Len(out[d]) : out[d][i] = i
  /\ pump[d] = "read" => wrote[d] = read[d]
  /\ pump[d] = "write" => wrote[d] < read[d]
  /\ pump[d] = "write" /\ tail[d] = "eof" => fin[d] /\ read[d] = sent[d]
  /\ pump[d] = "ok" => fin[d] /\ wrote[d] = sent[d]
  /\ d \in collected => Returned(d)

CopyInv == RelayTypeOK /\ \A d \in Dirs : Bookkeeping(d)

\* What may make the relay give up a stream: a reset, or a pump that has waited out
\* its deadline.
Disturbed == gone # {} \/ \E k \in Dirs : pump[k] = "err" /\ idle[k] = IdleTimeout

\* Every pump that fails, and every socket closed before both streams are through,
\* goes back to that; a destination has been told of the end by such a closing, or
\* after a pump had written everything.
Causes ==
  /\ \A d \in Dirs : tail[d] = "error" => gone # {}
  /\ \A d \in Dirs : pump[d] = "err" => Disturbed
  /\ \A d \in Dirs : told[d] = "end" => pump[d] = "ok" \/ Disturbed
  /\ open # Ends => Disturbed \/ \A d \in Dirs : pump[d] = "ok"

RInv == CopyInv /\ Causes

-----------------------------------------------------------------------------
LEMMA InitCopyInv ==
  ASSUME RelayInit PROVE CopyInv
<1>1. RelayTypeOK
  BY RelayAssumption DEF RelayAssumption, RelayInit, RelayTypeOK, Ends, Told
<1>2. ASSUME NEW d \in Dirs PROVE Bookkeeping(d)
  BY DEF RelayInit, Bookkeeping
<1> QED BY <1>1, <1>2 DEF CopyInv

\* A peer's step adds to a stream that has not ended, ends it, or reads.
LEMMA PeerStep ==
  ASSUME CopyInv, NEW d \in Dirs, Peer(d)
  PROVE  CopyInv'
<1> USE RelayAssumption DEF RelayAssumption, CopyInv
<1>1. CASE PeerSends(d)
  <2>1. RelayTypeOK'
    BY <1>1 DEF RelayTypeOK, PeerSends, copying
  <2>2. ASSUME NEW k \in Dirs PROVE Bookkeeping(k)'
    BY <1>1 DEF RelayTypeOK, Bookkeeping, PeerSends, copying, Returned
  <2> QED BY <2>1, <2>2
<1>2. CASE PeerFinishes(d)
  <2>1. RelayTypeOK'
    BY <1>2 DEF RelayTypeOK, PeerFinishes, copying
  <2>2. ASSUME NEW k \in Dirs PROVE Bookkeeping(k)'
    BY <1>2 DEF RelayTypeOK, Bookkeeping, PeerFinishes, copying, Returned
  <2> QED BY <2>1, <2>2
<1>3. CASE PeerReads(d)
  <2>1. RelayTypeOK'
    BY <1>3 DEF RelayTypeOK, PeerReads, copying
  <2>2. ASSUME NEW k \in Dirs PROVE Bookkeeping(k)'
    BY <1>3 DEF RelayTypeOK, Bookkeeping, PeerReads, copying, Returned
  <2> QED BY <2>1, <2>2
<1> QED BY <1>1, <1>2, <1>3 DEF Peer

\* Read returned bytes, perhaps with the end of the stream.
LEMMA ReadBytesStep ==
  ASSUME CopyInv, NEW d \in Dirs, ReadBytes(d)
  PROVE  CopyInv'
<1> USE RelayAssumption DEF RelayAssumption, CopyInv
<1>1. PICK n \in (read[d] + 1) .. sent[d], t \in {"none", "eof", "error"} :
        /\ read' = [read EXCEPT ![d] = n]
        /\ tail' = [tail EXCEPT ![d] = t]
        /\ t = "eof" => fin[d] /\ n = sent[d]
  BY DEF ReadBytes
<1>2. /\ pump[d] = "read"
      /\ pump' = [pump EXCEPT ![d] = "write"]
      /\ idle' = [idle EXCEPT ![d] = 0]
      /\ UNCHANGED <<sent, fin, gone, taken, wrote, out, told, collected, open>>
  BY DEF ReadBytes, Return, SetDeadline, peers
<1>3. n \in Nat /\ read[d] < n /\ n <= sent[d]
  BY <1>1 DEF RelayTypeOK
<1>4. RelayTypeOK'
  BY <1>1, <1>2, <1>3 DEF RelayTypeOK
<1>5. ASSUME NEW k \in Dirs PROVE Bookkeeping(k)'
  <2>1. CASE k = d
    BY <1>1, <1>2, <1>3, <2>1 DEF RelayTypeOK, Bookkeeping, Returned
  <2>2. CASE k # d
    BY <1>1, <1>2, <2>2 DEF RelayTypeOK, Bookkeeping, Returned
  <2> QED BY <2>1, <2>2
<1> QED BY <1>4, <1>5

\* A pump that returns without writing: the clean end, or an error.
LEMMA ReturnStep ==
  ASSUME CopyInv, NEW d \in Dirs,
         ReadEof(d) \/ ReadFails(d) \/ WriteFails(d) \/ TimesOut(d)
  PROVE  CopyInv'
<1> USE DEF CopyInv
<1>1. /\ pump[d] \in {"read", "write"}
      /\ UNCHANGED <<sent, fin, gone, taken, read, wrote, out, tail, idle, collected, open>>
  BY DEF ReadEof, ReadFails, WriteFails, TimesOut, Waiting, peers
<1>2. \/ /\ pump' = [pump EXCEPT ![d] = "ok"]
         /\ pump[d] = "read" /\ fin[d] /\ read[d] = sent[d]
         /\ told' = [told EXCEPT ![d] = IF Alive(Dst(d)) THEN "end" ELSE @]
      \/ pump' = [pump EXCEPT ![d] = "err"] /\ UNCHANGED told
  BY DEF ReadEof, ReadFails, WriteFails, TimesOut, Return, HalfClose
<1>3. told' \in [Dirs -> Told] /\ pump' \in [Dirs -> {"read", "write", "ok", "err"}]
  BY <1>2 DEF RelayTypeOK, Told
<1>4. RelayTypeOK'
  BY <1>1, <1>3 DEF RelayTypeOK
<1>5. ASSUME NEW k \in Dirs PROVE Bookkeeping(k)'
  <2>1. CASE k = d
    BY <1>1, <1>2, <2>1 DEF RelayTypeOK, Bookkeeping, Returned
  <2>2. CASE k # d
    BY <1>1, <1>2, <2>2 DEF RelayTypeOK, Bookkeeping, Returned
  <2> QED BY <2>1, <2>2
<1> QED BY <1>4, <1>5

\* A byte is written; with the last of a chunk the pump goes on, ends or fails.
LEMMA WriteStep ==
  ASSUME CopyInv, NEW d \in Dirs, WriteByte(d)
  PROVE  CopyInv'
<1> USE DEF CopyInv
<1>1. /\ pump[d] = "write"
      /\ out' = [out EXCEPT ![d] = Append(out[d], wrote[d] + 1)]
      /\ wrote' = [wrote EXCEPT ![d] = wrote[d] + 1]
      /\ UNCHANGED <<sent, fin, gone, taken, read, tail, collected, open>>
  BY DEF WriteByte, peers
<1>2. /\ out[d] \in Seq(Nat) /\ wrote[d] \in Nat /\ read[d] \in Nat /\ sent[d] \in Nat
      /\ Len(out[d]) = wrote[d]
      /\ wrote[d] < read[d] /\ read[d] <= sent[d]
  BY <1>1 DEF RelayTypeOK, Bookkeeping
<1>3. /\ out'[d] \in Seq(Nat)
      /\ Len(out'[d]) = wrote[d] + 1
      /\ \A i \in 1 .. wrote[d] + 1 : out'[d][i] = i
  <2>1. out'[d] = Append(out[d], wrote[d] + 1)
    BY <1>1 DEF RelayTypeOK
  <2>2. \A i \in 1 .. wrote[d] : out[d][i] = i
    BY <1>2 DEF Bookkeeping
  <2> QED BY <1>2, <2>1, <2>2
\* The three ways of AfterChunk, and the rest of the chunk still to write.
<1>4. \/ /\ wrote[d] + 1 < read[d]
         /\ UNCHANGED <<pump, idle, told>>
      \/ /\ wrote[d] + 1 = read[d]
         /\ \/ /\ pump' = [pump EXCEPT ![d] = "read"]
               /\ idle' = [idle EXCEPT ![d] = 0]
               /\ UNCHANGED told
            \/ /\ tail[d] = "eof"
               /\ pump' = [pump EXCEPT ![d] = "ok"]
               /\ told' = [told EXCEPT ![d] = IF Alive(Dst(d)) THEN "end" ELSE @]
               /\ UNCHANGED idle
            \/ /\ pump' = [pump EXCEPT ![d] = "err"]
               /\ UNCHANGED <<idle, told>>
  <2>1. CASE wrote[d] + 1 = read[d]
    <3>1. AfterChunk(d)
      BY <2>1 DEF WriteByte
    <3>2. tail[d] \in {"none", "eof", "error"}
      BY DEF RelayTypeOK
    <3> QED BY <2>1, <3>1, <3>2 DEF AfterChunk, Return, SetDeadline, HalfClose
  <2>2. CASE wrote[d] + 1 # read[d]
    <3>1. UNCHANGED <<pump, idle, told>>
      BY <2>2 DEF WriteByte
    <3> QED BY <1>2, <2>2, <3>1
  <2> QED BY <2>1, <2>2
<1>5. /\ told' \in [Dirs -> Told]
      /\ pump' \in [Dirs -> {"read", "write", "ok", "err"}]
      /\ idle' \in [Dirs -> 0 .. IdleTimeout]
  <2>1. told' \in [Dirs -> Told]
    <3>1. told \in [Dirs -> Told]
      BY DEF RelayTypeOK
    <3>2. told' = told \/ told' = [told EXCEPT ![d] = IF Alive(Dst(d)) THEN "end" ELSE @]
      BY <1>4
    <3> QED BY <3>1, <3>2 DEF Told
  <2>2. pump' \in [Dirs -> {"read", "write", "ok", "err"}]
    BY <1>4 DEF RelayTypeOK
  <2>3. idle' \in [Dirs -> 0 .. IdleTimeout]
    <3>1. idle' = idle \/ idle' = [idle EXCEPT ![d] = 0]
      BY <1>4
    <3>2. idle \in [Dirs -> 0 .. IdleTimeout] /\ 0 \in 0 .. IdleTimeout
      BY RelayAssumption DEF RelayAssumption, RelayTypeOK
    <3> QED BY <3>1, <3>2
  <2> QED BY <2>1, <2>2, <2>3
<1>6. RelayTypeOK'
  <2>1. out' \in [Dirs -> Seq(Nat)] /\ wrote' \in [Dirs -> Nat]
    BY <1>1, <1>2, <1>3 DEF RelayTypeOK
  <2>2. ASSUME NEW k \in Dirs
        PROVE  wrote'[k] <= read'[k] /\ taken'[k] <= Len(out'[k])
    <3>1. CASE k = d
      BY <1>1, <1>2, <1>3, <3>1 DEF RelayTypeOK
    <3>2. CASE k # d
      BY <1>1, <3>2 DEF RelayTypeOK
    <3> QED BY <3>1, <3>2
  <2> QED BY <1>1, <1>5, <2>1, <2>2 DEF RelayTypeOK
<1>7. ASSUME NEW k \in Dirs PROVE Bookkeeping(k)'
  <2>1. CASE k = d
    <3>1. wrote'[d] = wrote[d] + 1
      BY <1>1 DEF RelayTypeOK
    <3>2. pump[d] = "write" /\ d \notin collected
      BY <1>1 DEF Bookkeeping, Returned
    <3>3. /\ tail[d] = "eof" => fin[d] /\ read[d] = sent[d]
      BY <3>2 DEF Bookkeeping
    <3> QED BY <1>1, <1>2, <1>3, <1>4, <2>1, <3>1, <3>2, <3>3 DEF RelayTypeOK, Bookkeeping, Returned
  <2>2. CASE k # d
    BY <1>1, <1>4, <2>2 DEF RelayTypeOK, Bookkeeping, Returned
  <2> QED BY <2>1, <2>2
<1> QED BY <1>6, <1>7

\* The steps that do not touch the streams.
LEMMA OtherStep ==
  ASSUME CopyInv,
         \/ \E d \in Dirs : Collect(d)
         \/ \E e \in Ends : PeerResets(e)
         \/ Close \/ Tick
  PROVE  CopyInv'
<1> USE DEF CopyInv
<1>1. /\ UNCHANGED <<sent, fin, taken, read, wrote, out, tail, pump>>
      /\ told' \in [Dirs -> Told]
      /\ gone' \subseteq Ends /\ open' \subseteq Ends
      /\ collected' \subseteq Dirs
      /\ \A d \in Dirs : d \in collected' => d \in collected \/ Returned(d)
  BY DEF Collect, PeerResets, Close, Tick, peers, copying, RelayTypeOK, Shut
<1>2. idle' \in [Dirs -> 0 .. IdleTimeout]
  <2>1. CASE Tick
    <3>1. ASSUME NEW d \in Dirs
          PROVE  (IF Running(d) THEN idle[d] + 1 ELSE idle[d]) \in 0 .. IdleTimeout
      <4>1. Running(d) => idle[d] < IdleTimeout
        BY <2>1 DEF Tick
      <4>2. idle[d] \in 0 .. IdleTimeout
        BY DEF RelayTypeOK
      <4> QED BY <4>1, <4>2, RelayAssumption DEF RelayAssumption
    <3>2. idle' = [d \in Dirs |-> IF Running(d) THEN idle[d] + 1 ELSE idle[d]]
      BY <2>1 DEF Tick
    <3> QED BY <3>1, <3>2
  <2>2. CASE ~Tick
    BY <2>2 DEF Collect, PeerResets, Close, copying, RelayTypeOK
  <2> QED BY <2>1, <2>2
<1>3. RelayTypeOK'
  BY <1>1, <1>2 DEF RelayTypeOK
<1>4. ASSUME NEW k \in Dirs PROVE Bookkeeping(k)'
  BY <1>1 DEF Bookkeeping, Returned
<1> QED BY <1>3, <1>4

-----------------------------------------------------------------------------
\* Who has disturbed the relay has done so for good.
LEMMA DisturbedStays ==
  ASSUME gone \subseteq gone',
         \A k \in Dirs : pump[k] = "err" => pump'[k] = "err" /\ idle'[k] = idle[k],
         Disturbed
  PROVE  Disturbed'
BY DEF Disturbed

\* A pump's step: it fails with a cause, or tells of an end that it has reached.
LEMMA PumpCauses ==
  ASSUME RInv, NEW d \in Dirs, Pump(d)
  PROVE  Causes'
<1> USE DEF RInv, CopyInv
<1>0. /\ tail \in [Dirs -> {"none", "eof", "error"}] /\ idle \in [Dirs -> 0 .. IdleTimeout]
      /\ pump \in [Dirs -> {"read", "write", "ok", "err"}] /\ told \in [Dirs -> Told]
  BY DEF RelayTypeOK
<1>1. /\ UNCHANGED <<gone, open>> /\ Running(d)
      /\ \A k \in Dirs : k # d => /\ pump'[k] = pump[k] /\ idle'[k] = idle[k]
                                  /\ tail'[k] = tail[k] /\ told'[k] = told[k]
  <2>1. CASE ReadBytes(d)
    BY <1>0, <2>1 DEF ReadBytes, Return, SetDeadline, peers, Running
  <2>2. CASE ReadEof(d) \/ ReadFails(d) \/ WriteFails(d) \/ TimesOut(d)
    BY <1>0, <2>2 DEF ReadEof, ReadFails, WriteFails, TimesOut, Return, HalfClose, Waiting, peers, Running
  <2>3. CASE WriteByte(d)
    <3>1. AfterChunk(d) \/ UNCHANGED <<pump, idle, told>>
      BY <2>3 DEF WriteByte
    <3>2. UNCHANGED <<gone, open, tail>> /\ pump[d] = "write"
      BY <2>3 DEF WriteByte, peers
    <3>3. CASE AfterChunk(d)
      BY <1>0, <3>2, <3>3 DEF AfterChunk, Return, SetDeadline, HalfClose, Running
    <3> QED BY <3>1, <3>2, <3>3 DEF Running
  <2> QED BY <2>1, <2>2, <2>3 DEF Pump
<1>2. Disturbed => Disturbed'
  BY <1>1, DisturbedStays DEF Running
<1>3. tail'[d] = "error" => gone # {}
  <2>1. CASE ReadBytes(d)
    BY <1>0, <2>1 DEF ReadBytes
  <2>2. CASE ~ReadBytes(d)
    BY <2>2 DEF Pump, ReadEof, ReadFails, WriteFails, TimesOut, WriteByte, Causes
  <2> QED BY <2>1, <2>2
<1>4. pump'[d] = "err" => Disturbed'
  <2>1. CASE ReadBytes(d) \/ ReadEof(d)
    BY <1>0, <2>1 DEF ReadBytes, ReadEof, Return
  <2>2. CASE ReadFails(d) \/ WriteFails(d)
    <3>1. gone # {} \/ open # Ends
      BY <2>2 DEF ReadFails, WriteFails, Alive, Ends, Src, Dst
    <3>2. gone # {} \/ Disturbed
      BY <1>1, <3>1 DEF Causes, Running
    <3> QED BY <1>1, <1>2, <3>2 DEF Disturbed
  <2>3. CASE TimesOut(d)
    BY <1>0, <2>3 DEF TimesOut, Return, Disturbed
  <2>4. CASE WriteByte(d)
    <3>1. pump[d] = "write" /\ (AfterChunk(d) \/ UNCHANGED pump)
      BY <2>4 DEF WriteByte
    <3>2. pump'[d] = "err" => tail[d] = "error"
      BY <1>0, <3>1 DEF AfterChunk, Return
    <3> QED BY <1>1, <3>2 DEF Causes, Disturbed
  <2> QED BY <2>1, <2>2, <2>3, <2>4 DEF Pump
<1>5. told'[d] = "end" => pump'[d] = "ok" \/ Disturbed'
  <2>1. told[d] = "end" => Disturbed
    BY <1>1 DEF Causes, Running
  <2>2. told'[d] = told[d] \/ pump'[d] = "ok"
    <3>1. CASE WriteByte(d)
      <4>1. AfterChunk(d) \/ UNCHANGED told
        BY <3>1 DEF WriteByte
      <4> QED BY <1>0, <4>1 DEF AfterChunk, Return
    <3>2. CASE ~WriteByte(d)
      BY <1>0, <3>2 DEF Pump, ReadBytes, ReadEof, ReadFails, WriteFails, TimesOut, Return
    <3> QED BY <3>1, <3>2
  <2> QED BY <1>2, <2>1, <2>2
<1>6. open' # Ends => Disturbed' \/ \A k \in Dirs : pump'[k] = "ok"
  BY <1>1, <1>2 DEF Causes, Running
<1> QED BY <1>1, <1>2, <1>3, <1>4, <1>5, <1>6 DEF Causes

\* The relay closes the sockets of a stream that was disturbed, or of two that are through.
LEMMA ClosingCauses ==
  ASSUME RInv, Close \/ \E d \in Dirs : Collect(d)
  PROVE  Causes'
<1> USE DEF RInv, CopyInv
<1>1. UNCHANGED <<gone, pump, idle, tail>>
  BY DEF Close, Collect, peers
<1>2. Disturbed' <=> Disturbed
  BY <1>1 DEF Disturbed
<1>3. CASE UNCHANGED <<told, open>>
  BY <1>1, <1>2, <1>3 DEF Causes
<1>4. CASE ~UNCHANGED <<told, open>>
  <2>1. Disturbed \/ \A d \in Dirs : pump[d] = "ok"
    <3>1. CASE Close
      BY <3>1 DEF Close, Bookkeeping, Returned, Causes
    <3>2. CASE \E d \in Dirs : Collect(d)
      BY <1>4, <3>2 DEF Collect, Causes
    <3> QED BY <3>1, <3>2
  <2> QED BY <1>1, <1>2, <2>1 DEF Causes
<1> QED BY <1>3, <1>4

LEMMA NextCauses ==
  ASSUME RInv, RelayNext
  PROVE  Causes'
<1> USE DEF RInv, CopyInv
<1>1. ASSUME NEW d \in Dirs, Peer(d) PROVE Causes'
  BY <1>1 DEF Peer, PeerSends, PeerFinishes, PeerReads, copying, Causes, Disturbed
<1>2. ASSUME NEW e \in Ends, PeerResets(e) PROVE Causes'
  <2>1. gone' # {} /\ UNCHANGED <<open, pump, told>>
    BY <1>2 DEF PeerResets, copying
  <2> QED BY <2>1 DEF Causes, Disturbed
<1>3. CASE Tick
  <2>1. UNCHANGED <<gone, open, pump, told, tail>>
    BY <1>3 DEF Tick, peers
  <2>2. \A k \in Dirs : pump[k] = "err" => idle'[k] = idle[k]
    BY <1>3 DEF Tick, Running
  <2>3. Disturbed => Disturbed'
    BY <2>1, <2>2, DisturbedStays
  <2> QED BY <2>1, <2>3 DEF Causes
<1> QED BY <1>1, <1>2, <1>3, PumpCauses, ClosingCauses DEF RelayNext

LEMMA InitRInv ==
  ASSUME RelayInit PROVE RInv
BY InitCopyInv DEF RInv, Causes, RelayInit, Dirs

LEMMA NextRInv ==
  ASSUME RInv, [RelayNext]_relayVars PROVE RInv'
<1>1. CASE UNCHANGED relayVars
  BY <1>1 DEF RInv, CopyInv, RelayTypeOK, Bookkeeping, Returned, Causes, Disturbed, relayVars
<1>2. CASE RelayNext
  <2>1. ASSUME NEW d \in Dirs, Pump(d) PROVE CopyInv'
    BY <2>1, ReadBytesStep, ReturnStep, WriteStep DEF Pump, RInv
  <2>2. CopyInv'
    BY <1>2, <2>1, PeerStep, OtherStep DEF RelayNext, RInv
  <2> QED BY <1>2, <2>2, NextCauses DEF RInv
<1> QED BY <1>1, <1>2

-----------------------------------------------------------------------------
\* The inductive invariant of the relay: types, the pumps' bookkeeping, and what closes the
\* sockets.
THEOREM RelayInvariance == RelaySpec => []RInv
BY InitRInv, NextRInv, PTL DEF RelaySpec

\* The relay's types.
THEOREM RelayTypeCorrect == RelaySpec => []RelayTypeOK
<1>1. RInv => RelayTypeOK
  BY DEF RInv, CopyInv
<1> QED BY <1>1, RelayInvariance, PTL

\* proxyBidirectional delivers a prefix of the stream, in order, each byte once.
THEOREM InOrder == RelaySpec => []DeliveredInOrder
<1>1. RInv => DeliveredInOrder
  BY DEF RInv, CopyInv, RelayTypeOK, Bookkeeping, DeliveredInOrder
<1> QED BY <1>1, RelayInvariance, PTL

\* proxyBidirectional and the closes around it: a destination that is told of the end before
\* it has every byte, by CloseWrite or by a socket that is closed, owes that to a reset or to
\* a whole idle timeout.
THEOREM CutsAreCaused == RelaySpec => []CutsHaveACause
<1>1. RInv => CutsHaveACause
  BY DEF RInv, CopyInv, RelayTypeOK, Bookkeeping, Causes, Disturbed, CutsHaveACause
<1> QED BY <1>1, RelayInvariance, PTL

\* The sockets outlive a clean end of one direction.
THEOREM HalfCloseWorks == RelaySpec => CleanEndLeavesOther
<1> DEFINE Closes == open' # open => \/ \E d \in Dirs : pump[d] = "err"
                                     \/ \A d \in Dirs : Returned(d)
<1>1. ASSUME RInv, RelayNext PROVE Closes
  <2>1. CASE \E d \in Dirs : Collect(d)
    BY <2>1 DEF Collect
  <2>2. CASE Close
    BY <1>1, <2>2 DEF Close, RInv, CopyInv, Bookkeeping
  <2>3. CASE Tick \/ \E e \in Ends : PeerResets(e)
    BY <2>3 DEF Tick, PeerResets
  <2>4. CASE \E d \in Dirs : Peer(d) \/ Pump(d)
    BY <2>4 DEF Peer, PeerSends, PeerFinishes, PeerReads, Pump, ReadBytes, ReadEof,
                ReadFails, WriteByte, WriteFails, TimesOut
  <2> QED BY <1>1, <2>1, <2>2, <2>3, <2>4 DEF RelayNext
<1>2. RInv /\ [RelayNext]_relayVars => [Closes]_relayVars
  BY <1>1
<1> QED BY <1>2, RelayInvariance, PTL DEF RelaySpec, CleanEndLeavesOther
=============================================================================
