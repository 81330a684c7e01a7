----------------------------- MODULE AdminProofs -----------------------------
(***************************************************************************)
(* Proofs for module Admin: for any commands and serving processes, any    *)
(* fingerprints and any methods, the table keeps what its two markers say  *)
(* of it, and the labels.                                                  *)
(***************************************************************************)
EXTENDS Admin, TLAPS

NoneOr(S) == S \cup {"none"}

Row == [status : {"absent", "pending", "approved", "blocked"}, label : {"none", "given", "lost"},
        under : NoneOr(Methods), raced : BOOLEAN]

Places == {"idle", "validate", "format", "last", "purge", "mark", "method", "serving", "keep",
           "record", "status", "name", "upsert", "get", "apply", "delete"}

Cmd == [do : {"nothing", "set", "register", "scope", "label", "delete", "reset", "serve"},
        at : Places,
        fp : NoneOr(Fps), status : {"none", "approved", "blocked"}, named : BOOLEAN,
        register : BOOLEAN, reset : BOOLEAN, method : NoneOr(Methods),
        label : {"none", "given", "lost"}, under : NoneOr(Methods), raced : BOOLEAN, late : BOOLEAN]

TypeOK ==
  /\ rows \in [Fps -> Row] /\ cmd \in [Actors -> Cmd]
  /\ format \in {"none", "canonical"} /\ method \in NoneOr(Methods)

-----------------------------------------------------------------------------
(* Which command can be at which call, and what it has brought there.       *)

OnItsWay(c) ==
  /\ c.at = "idle" => c = Idle
  /\ c.at \in {"validate", "upsert"} => c.register
  /\ c.at \in {"format", "last", "mark"} =>
       c.do = "serve" \/ (c.do \in {"register", "scope"} /\ c.register)
  /\ c.at = "validate" => c.do \in {"register", "scope"} /\ c.under = "none"
  /\ c.at = "purge" => c.do \in {"reset", "serve"}
  /\ c.at \in {"keep", "record"} => c.do = "reset"
  /\ c.at \in {"method", "serving"} => c.do = "serve"
  /\ c.at \in {"status", "name", "upsert", "get", "apply", "delete"} => c.fp \in Fps
  /\ c.at = "status" => c.do = "set"
  /\ c.at = "upsert" => c.do = "register"
  /\ c.do \in {"set", "register"} => c.status # "none"
  /\ c.reset => c.do = "serve"
  /\ c.do = "serve" => c.method \in Methods
  /\ c.register => c.do \in {"register", "scope"} /\ c.fp \in Fps \ Old
  /\ c.late => c.at = "apply"

Underway == \A a \in Actors : OnItsWay(cmd[a])

\* What another's step may do to a command: it may make it raced or late, no more.
Nudged(c, d) ==
  /\ c.at = "idle" => d = c
  /\ d.do = c.do /\ d.at = c.at /\ d.fp = c.fp /\ d.status = c.status /\ d.named = c.named
  /\ d.register = c.register /\ d.reset = c.reset /\ d.method = c.method
  /\ d.label = c.label /\ d.under = c.under
  /\ (c.raced => d.raced) /\ (c.late => d.late) /\ (d.late => c.late \/ c.at = "apply")

\* a goes on as c; the others are at most nudged.
GoesOn(a, c) ==
  /\ cmd'[a] = c /\ (c \in Cmd => cmd' \in [Actors -> Cmd])
  /\ \A b \in Actors \ {a} : Nudged(cmd[b], cmd'[b])

LEMMA ToGoesOn ==
  ASSUME TypeOK, NEW a \in Actors, NEW c, To(a, c)
  PROVE  GoesOn(a, c) /\ \A b \in Actors \ {a} : cmd'[b] = cmd[b]
  BY DEF TypeOK, To, GoesOn, Nudged

LEMMA Raced == ASSUME NEW c \in Cmd
               PROVE  LET d == [c EXCEPT !.raced = TRUE] IN
                      d \in Cmd /\ d.raced /\ (c.at # "idle" => Nudged(c, d)) /\ d.at = c.at
  BY DEF Cmd, Places, Nudged

LEMMA Lated == ASSUME NEW c \in Cmd, NEW f
               PROVE  LET d == [c EXCEPT !.late = @ \/ (c.at = "apply" /\ c.fp = f)] IN
                      /\ d \in Cmd /\ Nudged(c, d) /\ d.raced = c.raced
                      /\ c.at = "apply" /\ c.fp = f => d.late
  BY DEF Cmd, Places, Nudged, Idle

LEMMA OvertakingGoesOn ==
  ASSUME TypeOK, Underway, NEW a \in Actors, NEW c, Overtaking(a, c)
  PROVE  /\ GoesOn(a, c)
         /\ \A b \in Actors \ {a} : cmd'[b].at = "idle" \/ cmd'[b].raced
  <1> DEFINE d(b) == [cmd[b] EXCEPT !.raced = TRUE]
  <1>1. \A b \in Actors : cmd[b] \in Cmd
    BY DEF TypeOK
  <1>2. \A b \in Actors : d(b) \in Cmd /\ d(b).raced /\ (cmd[b].at # "idle" => Nudged(cmd[b], d(b)))
    BY <1>1, Raced
  <1>3. \A b \in Actors : cmd[b].at = "idle" => cmd[b] = Idle /\ Nudged(cmd[b], Idle) /\ Idle.at = "idle"
    BY DEF Underway, OnItsWay, Nudged
  <1>4. cmd' = [b \in Actors |-> IF b = a THEN c ELSE IF cmd[b].at = "idle" THEN Idle ELSE d(b)]
    BY DEF Overtaking
  <1> HIDE DEF d
  <1>5. \A b \in Actors : cmd'[b] = IF b = a THEN c ELSE IF cmd[b].at = "idle" THEN Idle ELSE d(b)
    BY <1>4
  <1>6. c \in Cmd => cmd' \in [Actors -> Cmd]
    BY <1>1, <1>2, <1>3, <1>4
  <1> QED BY <1>2, <1>3, <1>5, <1>6 DEF GoesOn

LEMMA LateGoesOn ==
  ASSUME TypeOK, NEW a \in Actors, NEW c, NEW f, Late(a, f, c)
  PROVE  /\ GoesOn(a, c)
         /\ \A b \in Actors \ {a} : cmd'[b].raced = cmd[b].raced
         /\ \A b \in Actors \ {a} : cmd[b].at = "apply" /\ cmd[b].fp = f => cmd'[b].late
  <1> DEFINE d(b) == [cmd[b] EXCEPT !.late = @ \/ (cmd[b].at = "apply" /\ cmd[b].fp = f)]
  <1>1. \A b \in Actors : cmd[b] \in Cmd
    BY DEF TypeOK
  <1>2. \A b \in Actors : /\ d(b) \in Cmd /\ Nudged(cmd[b], d(b)) /\ d(b).raced = cmd[b].raced
                          /\ cmd[b].at = "apply" /\ cmd[b].fp = f => d(b).late
    BY <1>1, Lated
  <1>3. cmd' = [b \in Actors |-> IF b = a THEN c ELSE d(b)]
    BY DEF Late
  <1> HIDE DEF d
  <1>4. \A b \in Actors : cmd'[b] = IF b = a THEN c ELSE d(b)
    BY <1>3
  <1>5. c \in Cmd => cmd' \in [Actors -> Cmd]
    BY <1>2, <1>3
  <1> QED BY <1>2, <1>4, <1>5 DEF GoesOn

LEMMA NudgedOnItsWay == ASSUME NEW c \in Cmd, NEW d \in Cmd, OnItsWay(c), Nudged(c, d)
                        PROVE  OnItsWay(d)
  BY DEF OnItsWay, Nudged

LEMMA StaysUnderway ==
  ASSUME TypeOK, Underway, NEW a \in Actors, NEW c \in Cmd, OnItsWay(c), GoesOn(a, c)
  PROVE  Underway' /\ cmd' \in [Actors -> Cmd]
  <1>1. cmd \in [Actors -> Cmd] /\ cmd' \in [Actors -> Cmd] /\ cmd'[a] = c
    BY DEF TypeOK, GoesOn
  <1>2. \A b \in Actors \ {a} : OnItsWay(cmd'[b])
    BY <1>1, NudgedOnItsWay DEF GoesOn, Underway
  <1> QED BY <1>1, <1>2 DEF Underway

\* The records a command goes on as.
LEMMA Records ==
  ASSUME NEW c \in Cmd
  PROVE  \A at \in Places, u, m \in NoneOr(Methods), label \in {"none", "given", "lost"} :
           /\ [c EXCEPT !.at = at] \in Cmd
           /\ [c EXCEPT !.at = at, !.under = u] \in Cmd
           /\ [c EXCEPT !.at = at, !.method = m] \in Cmd
           /\ [c EXCEPT !.at = at, !.label = label, !.under = u] \in Cmd
  <1> SUFFICES ASSUME NEW at \in Places, NEW u \in NoneOr(Methods), NEW m \in NoneOr(Methods),
                      NEW label \in {"none", "given", "lost"}
               PROVE  /\ [c EXCEPT !.at = at] \in Cmd
                      /\ [c EXCEPT !.at = at, !.under = u] \in Cmd
                      /\ [c EXCEPT !.at = at, !.method = m] \in Cmd
                      /\ [c EXCEPT !.at = at, !.label = label, !.under = u] \in Cmd
    OBVIOUS
  <1> DEFINE d == [c EXCEPT !.at = at]
             e == [d EXCEPT !.label = label]
  <1>1. d \in Cmd
    BY DEF Cmd, Places
  <1> HIDE DEF d
  <1>2. e \in Cmd
    BY <1>1 DEF Cmd, Places
  <1> HIDE DEF e
  <1>3. [d EXCEPT !.under = u] \in Cmd /\ [d EXCEPT !.method = m] \in Cmd /\ [e EXCEPT !.under = u] \in Cmd
    BY <1>1, <1>2 DEF Cmd, Places
  <1> QED BY <1>1, <1>3 DEF d, e

\* The same one field at a time, as the calls need it.
LEMMA Moved ==
  ASSUME NEW c \in Cmd
  PROVE  /\ \A at \in Places : [c EXCEPT !.at = at] \in Cmd
         /\ \A at \in Places, u \in NoneOr(Methods) : [c EXCEPT !.at = at, !.under = u] \in Cmd
         /\ \A at \in Places, m \in NoneOr(Methods) : [c EXCEPT !.at = at, !.method = m] \in Cmd
         /\ \A at \in Places, u \in NoneOr(Methods), label \in {"none", "given", "lost"} :
              [c EXCEPT !.at = at, !.label = label, !.under = u] \in Cmd
  <1>1. "none" \in NoneOr(Methods)
    BY DEF NoneOr
  <1> QED BY <1>1, Records

LEMMA IdleOnItsWay == OnItsWay(Idle) /\ Idle \in Cmd
  BY DEF OnItsWay, Idle, Cmd, Places, NoneOr

LEMMA Ended == ASSUME TypeOK, Underway, NEW a \in Actors, Ends(a)
               PROVE  Underway' /\ cmd' \in [Actors -> Cmd] /\ GoesOn(a, Idle)
  BY IdleOnItsWay, ToGoesOn, StaysUnderway DEF Ends

LEMMA Started ==
  ASSUME TypeOK, Underway, NEW a \in Actors, NEW c \in Cmd, OnItsWay(c), c.at # "idle", Starts(a, c)
  PROVE  /\ Underway' /\ cmd' \in [Actors -> Cmd]
         /\ GoesOn(a, [c EXCEPT !.raced = Resetting])
         /\ \A b \in Actors \ {a} : cmd'[b] = cmd[b]
         /\ UNCHANGED Table /\ cmd[a] = Idle
  <1> DEFINE d == [c EXCEPT !.raced = Resetting]
  <1>1. Resetting \in BOOLEAN
    BY DEF Resetting
  <1>2. d \in Cmd /\ OnItsWay(d)
    BY <1>1 DEF Cmd, Places, OnItsWay
  <1>3. To(a, d) /\ UNCHANGED Table /\ cmd[a] = Idle
    BY DEF Starts
  <1> HIDE DEF d
  <1>4. GoesOn(a, d) /\ \A b \in Actors \ {a} : cmd'[b] = cmd[b]
    BY <1>2, <1>3, ToGoesOn
  <1>5. Underway' /\ cmd' \in [Actors -> Cmd]
    BY <1>2, <1>4, StaysUnderway
  <1> QED BY <1>3, <1>4, <1>5 DEF d

\* How a command begins.
Beginning(c) ==
  /\ c \in Cmd /\ OnItsWay(c) /\ c.at \in {"status", "validate", "get", "name", "delete", "keep",
                                          "purge", "format"}
  /\ c.under = "none" /\ (c.register => c.at = "validate")

LEMMA CommandBegins ==
  ASSUME NEW a \in Actors, Command(a)
  PROVE  \E c : Beginning(c) /\ Starts(a, c)
  <1>1. ASSUME NEW f \in Fps, NEW named \in BOOLEAN, Approve(a, f, named) \/ Block(a, f, named)
        PROVE  \E c : Beginning(c) /\ Starts(a, c)
    <2> DEFINE c(status) == [Idle EXCEPT !.do = "set", !.at = "status", !.fp = f, !.status = status,
                                         !.named = named]
    <2>1. ASSUME NEW status \in {"approved", "blocked"} PROVE Beginning(c(status))
      BY DEF Beginning, Cmd, Places, OnItsWay, Idle, NoneOr
    <2> QED BY <1>1, <2>1 DEF Approve, Block
  <1>2. ASSUME NEW f \in Fps, NEW named \in BOOLEAN, NEW status \in {"approved", "blocked"},
               Register(a, f, status, named)
        PROVE  \E c : Beginning(c) /\ Starts(a, c)
    <2> DEFINE c == [Idle EXCEPT !.do = "register", !.at = "validate", !.fp = f, !.status = status,
                                 !.named = named, !.register = TRUE]
    <2>1. f \notin Old
      BY <1>2 DEF Register
    <2>2. Beginning(c)
      BY <2>1 DEF Beginning, Cmd, Places, OnItsWay, Idle, NoneOr
    <2> QED BY <1>2, <2>2 DEF Register
  <1>3. ASSUME NEW f \in Fps, NEW named \in BOOLEAN, NEW register \in BOOLEAN,
               ApproveScoped(a, f, named, register)
        PROVE  \E c : Beginning(c) /\ Starts(a, c)
    <2> DEFINE c == [Idle EXCEPT !.do = "scope", !.at = IF register THEN "validate" ELSE "get",
                                 !.fp = f, !.status = "approved", !.named = named,
                                 !.register = register]
    <2>1. register => f \notin Old
      BY <1>3 DEF ApproveScoped
    <2>2. Beginning(c)
      BY <2>1 DEF Beginning, Cmd, Places, OnItsWay, Idle, NoneOr
    <2> QED BY <1>3, <2>2 DEF ApproveScoped
  <1>4. ASSUME NEW f \in Fps, LabelIt(a, f) \/ DeleteIt(a, f)
        PROVE  \E c : Beginning(c) /\ Starts(a, c)
    <2>1. /\ Beginning([Idle EXCEPT !.do = "label", !.at = "name", !.fp = f])
          /\ Beginning([Idle EXCEPT !.do = "delete", !.at = "delete", !.fp = f])
      BY DEF Beginning, Cmd, Places, OnItsWay, Idle, NoneOr
    <2> QED BY <1>4, <2>1 DEF LabelIt, DeleteIt
  <1>5. ASSUME NEW m \in Methods \cup {"none"}, Reset(a, m)
        PROVE  \E c : Beginning(c) /\ Starts(a, c)
    <2>1. Beginning([Idle EXCEPT !.do = "reset", !.at = IF m = "none" THEN "keep" ELSE "purge",
                                 !.method = m])
      BY DEF Beginning, Cmd, Places, OnItsWay, Idle, NoneOr
    <2> QED BY <1>5, <2>1 DEF Reset
  <1>6. ASSUME NEW m \in Methods, NEW reset \in BOOLEAN, Serve(a, m, reset)
        PROVE  \E c : Beginning(c) /\ Starts(a, c)
    <2>1. Beginning([Idle EXCEPT !.do = "serve", !.at = "format", !.method = m, !.reset = reset])
      BY DEF Beginning, Cmd, Places, OnItsWay, Idle, NoneOr
    <2> QED BY <1>6, <2>1 DEF Serve
  <1> QED BY <1>1, <1>2, <1>3, <1>4, <1>5, <1>6 DEF Command

-----------------------------------------------------------------------------
(* Each call keeps the types and the ways.                                  *)

LEMMA CommandKeepsTypes ==
  ASSUME TypeOK, Underway, NEW a \in Actors, Command(a)
  PROVE  TypeOK' /\ Underway'
  <1>1. PICK c : Beginning(c) /\ Starts(a, c)
    BY CommandBegins
  <1>2. c \in Cmd /\ OnItsWay(c) /\ c.at # "idle"
    BY <1>1 DEF Beginning
  <1> QED BY <1>1, <1>2, Started DEF TypeOK, Table

LEMMA QuitsKeepsTypes ==
  ASSUME TypeOK, Underway, NEW a \in Actors, Quits(a)
  PROVE  TypeOK' /\ Underway'
  BY Ended DEF Quits, TypeOK, Table

LEMMA EmptyOK == Empty \in [Fps -> Row] /\ NoRow \in Row
  BY DEF Empty, NoRow, Row, NoneOr

LEMMA CallKeepsTypes ==
  ASSUME TypeOK, Underway, NEW a \in Actors, Call(a)
  PROVE  TypeOK' /\ Underway'
  <1> DEFINE c == cmd[a]
  <1>0. c \in Cmd /\ OnItsWay(c) /\ OnItsWay(Idle) /\ Idle \in Cmd
    BY IdleOnItsWay DEF TypeOK, Underway
  <1>a. ASSUME NEW d \in Cmd, OnItsWay(d), To(a, d) \/ Overtaking(a, d) \/ \E f \in Fps : Late(a, f, d)
        PROVE  Underway' /\ cmd' \in [Actors -> Cmd]
    BY <1>a, ToGoesOn, OvertakingGoesOn, LateGoesOn, StaysUnderway
  <1>1. CASE Validate(a)
    <2>1. [c EXCEPT !.at = "format", !.under = method] \in Cmd
      BY <1>0, Moved DEF TypeOK, Places
    <2>2. OnItsWay([c EXCEPT !.at = "format", !.under = method])
      BY <1>0, <1>1 DEF OnItsWay, Validate, Cmd, Places
    <2> QED BY <1>1, <1>a, <2>1, <2>2, Ended DEF Validate, TypeOK, Table
  <1>2. CASE GetFormat(a)
    <2> DEFINE d(at) == [c EXCEPT !.at = at]
    <2>1. \A at \in {"upsert", "get", "method", "last"} : d(at) \in Cmd
      BY <1>0, Moved DEF Places
    <2>2. OnItsWay(d("last")) /\ (format = "canonical" => d(AfterFormat[c.do]) \in Cmd /\ OnItsWay(d(AfterFormat[c.do])))
      BY <1>0, <1>2 DEF OnItsWay, GetFormat, Cmd, Places, AfterFormat, NoneOr
    <2> QED BY <1>2, <1>a, <2>1, <2>2 DEF GetFormat, TypeOK, Table, Goes
  <1>3. CASE LastFingerprint(a)
    <2>1. \A at \in {"mark", "purge"} : [c EXCEPT !.at = at] \in Cmd
      BY <1>0, Moved DEF Places
    <2>2. OnItsWay([c EXCEPT !.at = "mark"]) /\ (c.reset => OnItsWay([c EXCEPT !.at = "purge"]))
      BY <1>0, <1>3 DEF OnItsWay, LastFingerprint, Cmd, Places
    <2> QED BY <1>3, <1>a, <2>1, <2>2, Ended DEF LastFingerprint, TypeOK, Table, Goes
  <1>4. CASE ResetFingerprints(a)
    <2> DEFINE d == [c EXCEPT !.at = IF c.do = "reset" THEN "record" ELSE "mark"]
    <2>1. d \in Cmd
      BY <1>0, Moved DEF Places
    <2>2. OnItsWay(d)
      BY <1>0, <1>4 DEF OnItsWay, ResetFingerprints, Cmd, Places
    <2> QED BY <1>4, <1>a, <2>1, <2>2, EmptyOK DEF ResetFingerprints, TypeOK
  <1>5. CASE Mark(a)
    <2> DEFINE d == [c EXCEPT !.at = AfterFormat[c.do]]
    <2>1. d \in Cmd /\ OnItsWay(d)
      BY <1>0, <1>5 DEF OnItsWay, Mark, Cmd, Places, AfterFormat, NoneOr
    <2> QED BY <1>5, <1>a, <2>1 DEF Mark, TypeOK, Goes
  <1>6. CASE ReconcileMethod(a)
    <2> DEFINE d == [c EXCEPT !.at = "serving", !.under = c.method]
    <2>0. c.method \in NoneOr(Methods)
      BY <1>0 DEF Cmd, Places
    <2>1. d \in Cmd
      BY <1>0, <2>0, Moved DEF Places
    <2>2. OnItsWay(d) /\ c.method \in Methods
      BY <1>0, <1>6 DEF OnItsWay, ReconcileMethod, Cmd, Places
    <2>3. Underway' /\ cmd' \in [Actors -> Cmd]
      BY <1>6, <1>a, <2>1, <2>2, Ended DEF ReconcileMethod
    <2> QED BY <1>6, <2>2, <2>3, EmptyOK DEF ReconcileMethod, TypeOK, NoneOr
  <1>7. CASE KeepMethod(a)
    <2> DEFINE d == [c EXCEPT !.at = "purge", !.method = method]
    <2>1. d \in Cmd
      BY <1>0, Moved DEF TypeOK, Places
    <2>2. OnItsWay(d)
      BY <1>0, <1>7 DEF OnItsWay, KeepMethod, Cmd, Places
    <2> QED BY <1>7, <1>a, <2>1, <2>2 DEF KeepMethod, TypeOK, Table
  <1>8. CASE RecordMethod(a)
    <2>1. Underway' /\ cmd' \in [Actors -> Cmd]
      BY <1>8, Ended DEF RecordMethod
    <2> QED BY <1>0, <1>8, <2>1 DEF RecordMethod, TypeOK, NoneOr, Cmd, Places
  <1>9. CASE Prune(a) \/ Observe(a)
    <2>1. Underway' /\ cmd' \in [Actors -> Cmd]
      BY <1>9 DEF Prune, Observe, Underway, TypeOK
    <2>2. c.under \in NoneOr(Methods) /\ c.raced \in BOOLEAN
      BY <1>0 DEF Cmd, Places
    <2> QED BY <1>9, <2>1, <2>2, EmptyOK DEF Prune, Observe, TypeOK, Row
  <1>10. CASE SetStatus(a)
    <2>1. [c EXCEPT !.at = "name"] \in Cmd
      BY <1>0, Moved DEF Places
    <2>2. OnItsWay([c EXCEPT !.at = "name"])
      BY <1>0, <1>10 DEF OnItsWay, SetStatus, Cmd, Places
    <2>3. Underway' /\ cmd' \in [Actors -> Cmd]
      BY <1>10, <1>a, <2>1, <2>2, Ended DEF SetStatus, Goes
    <2>4. c.status \in {"approved", "blocked"} /\ c.fp \in Fps
      BY <1>0, <1>10 DEF OnItsWay, SetStatus, Cmd, Places
    <2> QED BY <1>10, <2>3, <2>4 DEF SetStatus, TypeOK, Row
  <1>11. CASE SetLabel(a)
    <2>1. c.fp \in Fps
      BY <1>0, <1>11 DEF OnItsWay, SetLabel
    <2>2. Underway' /\ cmd' \in [Actors -> Cmd]
      BY <1>0, <1>11, <1>a, <2>1, Ended DEF SetLabel
    <2> QED BY <1>11, <2>1, <2>2 DEF SetLabel, TypeOK, Row
  <1>12. CASE UpsertStatus(a)
    <2>1. /\ c.fp \in Fps /\ c.status \in {"approved", "blocked"}
          /\ c.under \in NoneOr(Methods) /\ c.raced \in BOOLEAN
      BY <1>0, <1>12 DEF OnItsWay, UpsertStatus, Cmd, Places
    <2>2. Underway' /\ cmd' \in [Actors -> Cmd]
      BY <1>0, <1>12, <1>a, <2>1 DEF UpsertStatus
    <2> QED BY <1>12, <2>1, <2>2 DEF UpsertStatus, TypeOK, Row
  <1>13. CASE Get(a)
    <2>1. c.fp \in Fps
      BY <1>0, <1>13 DEF OnItsWay, Get
    <2> DEFINE d == [c EXCEPT !.at = "apply", !.label = rows[c.fp].label,
                              !.under = IF c.register THEN c.under ELSE rows[c.fp].under]
    <2>2. /\ rows[c.fp].label \in {"none", "given", "lost"} /\ rows[c.fp].under \in NoneOr(Methods)
          /\ c.under \in NoneOr(Methods)
      BY <1>0, <2>1 DEF TypeOK, Row, Cmd, Places
    <2>3. d \in Cmd
      <3> DEFINE u == IF c.register THEN c.under ELSE rows[c.fp].under
                 label == rows[c.fp].label
      <3>1. u \in NoneOr(Methods) /\ label \in {"none", "given", "lost"} /\ "apply" \in Places
        BY <2>2 DEF Places
      <3> HIDE DEF u, label
      <3>2. [c EXCEPT !.at = "apply", !.label = label, !.under = u] \in Cmd
        BY <1>0, <3>1, Moved
      <3> QED BY <3>2 DEF u, label
    <2>4. OnItsWay(d)
      BY <1>0, <1>13, <2>1 DEF OnItsWay, Get, Cmd, Places
    <2> QED BY <1>13, <1>a, <2>3, <2>4, Ended DEF Get, TypeOK, Table
  <1>14. CASE ApplyDecisions(a)
    <2>1. /\ c.fp \in Fps /\ c.under \in NoneOr(Methods) /\ c.raced \in BOOLEAN
          /\ rows[c.fp].raced \in BOOLEAN
      BY <1>0, <1>14 DEF OnItsWay, ApplyDecisions, Cmd, Places, TypeOK, Row
    <2>2. Underway' /\ cmd' \in [Actors -> Cmd]
      BY <1>0, <1>14, <1>a, <2>1 DEF ApplyDecisions
    <2> QED BY <1>14, <2>1, <2>2 DEF ApplyDecisions, TypeOK, Row
  <1>15. CASE Delete(a)
    <2>1. c.fp \in Fps
      BY <1>0, <1>15 DEF OnItsWay, Delete
    <2>2. Underway' /\ cmd' \in [Actors -> Cmd]
      BY <1>0, <1>15, <1>a, <2>1 DEF Delete
    <2> QED BY <1>15, <2>1, <2>2, EmptyOK DEF Delete, TypeOK
  <1> QED BY <1>1, <1>2, <1>3, <1>4, <1>5, <1>6, <1>7, <1>8, <1>9, <1>10, <1>11, <1>12, <1>13, <1>14,
             <1>15 DEF Call

-----------------------------------------------------------------------------
(* What a call leaves of the others' commands.                              *)

LEMMA CallNudges ==
  ASSUME TypeOK, Underway, NEW a \in Actors, Call(a)
  PROVE  \A b \in Actors \ {a} : Nudged(cmd[b], cmd'[b])
  <1>1. ASSUME NEW d, To(a, d) \/ Overtaking(a, d) \/ \E f : Late(a, f, d)
        PROVE  \A b \in Actors \ {a} : Nudged(cmd[b], cmd'[b])
    BY <1>1, ToGoesOn, OvertakingGoesOn, LateGoesOn DEF GoesOn
  <1>2. CASE Prune(a) \/ Observe(a)
    BY <1>2 DEF Prune, Observe, Nudged
  <1>3. CASE Validate(a) \/ GetFormat(a) \/ LastFingerprint(a) \/ ResetFingerprints(a) \/ Mark(a)
    BY <1>1, <1>3 DEF Validate, GetFormat, LastFingerprint, ResetFingerprints, Mark, Goes, Ends
  <1>4. CASE ReconcileMethod(a) \/ KeepMethod(a) \/ RecordMethod(a)
    BY <1>1, <1>4 DEF ReconcileMethod, KeepMethod, RecordMethod, Goes, Ends
  <1>5. CASE SetStatus(a) \/ SetLabel(a) \/ UpsertStatus(a)
    BY <1>1, <1>5 DEF SetStatus, SetLabel, UpsertStatus, Goes, Ends
  <1>6. CASE Get(a) \/ ApplyDecisions(a) \/ Delete(a)
    BY <1>1, <1>6 DEF Get, ApplyDecisions, Delete, Ends
  <1> QED BY <1>2, <1>3, <1>4, <1>5, <1>6 DEF Call

-----------------------------------------------------------------------------
(* The format marker is written once, by who found no rows; from then on    *)
(* what is new in the table has today's format.                             *)

Formatted(c) == c.at \in {"method", "serving", "upsert"} \/ (c.register /\ c.at \in {"get", "apply"})

FormatInv ==
  /\ MarkerTellsFormat
  /\ \A a \in Actors : Formatted(cmd[a]) => format = "canonical"
  /\ \A a \in Actors : cmd[a].at = "mark" /\ format = "none" => Settled = {}

\* A row that settles is no old key, and it is there because the marker is.
LEMMA SettlesFormatted ==
  ASSUME TypeOK, Underway, FormatInv, NEW a \in Actors, Call(a)
  PROVE  Settled' = {} \/ \A f \in Settled' \ Settled : f \notin Old /\ format = "canonical"
  <1> DEFINE c == cmd[a]
  <1>0. /\ c \in Cmd /\ OnItsWay(c) /\ (Formatted(c) => format = "canonical")
        /\ rows \in [Fps -> Row]
    BY DEF TypeOK, Underway, FormatInv
  <1>1. CASE rows' = rows
    BY <1>1 DEF Settled, Present
  <1>2. CASE rows' = Empty
    BY <1>2 DEF Settled, Present, Empty, NoRow
  <1>3. CASE Prune(a)
    BY <1>3 DEF Prune, Settled, Present, NoRow
  <1>4. CASE Observe(a)
    BY <1>0, <1>4 DEF Observe, Settled, Present, NoRow, Formatted
  <1>5. CASE SetStatus(a)
    BY <1>0, <1>5 DEF SetStatus, Settled, Present, Row
  <1>6. CASE SetLabel(a)
    BY <1>0, <1>6 DEF SetLabel, Settled, Present, Row
  <1>7. CASE UpsertStatus(a)
    BY <1>0, <1>7 DEF UpsertStatus, Settled, Present, Formatted, OnItsWay, Row
  <1>8. CASE ApplyDecisions(a)
    BY <1>0, <1>8 DEF ApplyDecisions, Settled, Present, Formatted, OnItsWay, Row
  <1>9. CASE Delete(a)
    BY <1>0, <1>9 DEF Delete, Settled, Present, NoRow, Row
  <1> QED BY <1>1, <1>2, <1>3, <1>4, <1>5, <1>6, <1>7, <1>8, <1>9
          DEF Call, Validate, GetFormat, LastFingerprint, ResetFingerprints, Mark, ReconcileMethod,
              KeepMethod, RecordMethod, Get, Table

\* Who writes the marker, and where a command can have gone in one call.
LEMMA FormatMoves ==
  ASSUME TypeOK, Underway, NEW a \in Actors, Call(a)
  PROVE  /\ format' = format \/ (cmd[a].at = "mark" /\ format' = "canonical" /\ rows' = rows)
         /\ Formatted(cmd'[a]) => Formatted(cmd[a]) \/ format' = "canonical"
         /\ cmd'[a].at = "mark" => Settled' = {}
  <1> DEFINE c == cmd[a]
  <1>0. /\ c \in Cmd /\ OnItsWay(c) /\ cmd \in [Actors -> Cmd]
        /\ \A f : Late(a, f, Idle) => cmd'[a] = Idle
        /\ \A d : To(a, d) \/ Overtaking(a, d) => cmd'[a] = d
        /\ ~Formatted(Idle) /\ Idle.at # "mark" /\ format \in {"none", "canonical"}
    BY ToGoesOn, LateGoesOn, OvertakingGoesOn DEF GoesOn, TypeOK, Underway, Formatted, Idle
  <1>1. CASE Validate(a) \/ GetFormat(a)
    <2>1. CASE Validate(a)
      BY <1>0, <2>1 DEF Validate, Ends, Table, Formatted, Cmd
    <2>2. CASE GetFormat(a)
      <3>1. format = "canonical" => AfterFormat[c.do] # "mark"
        BY <1>0, <2>2 DEF GetFormat, AfterFormat, OnItsWay
      <3>2. cmd'[a] = [c EXCEPT !.at = IF format = "canonical" THEN AfterFormat[c.do] ELSE "last"]
        BY <1>0, <2>2 DEF GetFormat, Goes
      <3> QED BY <1>0, <2>2, <3>1, <3>2 DEF GetFormat, Table, Formatted, Cmd
    <2> QED BY <1>1, <2>1, <2>2
  <1>2. CASE LastFingerprint(a)
    BY <1>0, <1>2 DEF LastFingerprint, Goes, Ends, Table, Formatted, Cmd, Settled, Present
  <1>3. CASE ResetFingerprints(a)
    BY <1>0, <1>3 DEF ResetFingerprints, Formatted, Cmd, Settled, Present, Empty, NoRow
  <1>4. CASE Mark(a)
    BY <1>0, <1>4 DEF Mark, Goes, AfterFormat, OnItsWay, Cmd
  <1>5. CASE ReconcileMethod(a)
    BY <1>0, <1>5 DEF ReconcileMethod, Ends, Formatted, Cmd
  <1>6. CASE KeepMethod(a) \/ RecordMethod(a)
    BY <1>0, <1>6 DEF KeepMethod, RecordMethod, Ends, Table, Formatted, OnItsWay, Cmd
  <1>7. CASE Prune(a) \/ Observe(a)
    BY <1>0, <1>7 DEF Prune, Observe
  <1>8. CASE SetStatus(a) \/ SetLabel(a)
    BY <1>0, <1>8 DEF SetStatus, SetLabel, Goes, Ends, Formatted, Cmd
  <1>9. CASE Get(a)
    BY <1>0, <1>9 DEF Get, Ends, Table, Formatted, Cmd
  <1>10. CASE UpsertStatus(a) \/ ApplyDecisions(a) \/ Delete(a)
    BY <1>0, <1>10 DEF UpsertStatus, ApplyDecisions, Delete
  <1> QED BY <1>1, <1>2, <1>3, <1>4, <1>5, <1>6, <1>7, <1>8, <1>9, <1>10 DEF Call

LEMMA FormatKept ==
  ASSUME TypeOK, Underway, FormatInv, NEW a \in Actors, Command(a) \/ Call(a) \/ Quits(a)
  PROVE  FormatInv'
  <1>1. CASE Call(a)
    <2>0. /\ format \in {"none", "canonical"} /\ TypeOK' /\ cmd' \in [Actors -> Cmd]
          /\ \A b \in Actors \ {a} : Nudged(cmd[b], cmd'[b])
      BY <1>1, CallNudges, CallKeepsTypes DEF TypeOK
    <2>1. MarkerTellsFormat'
      BY <1>1, <2>0, SettlesFormatted, FormatMoves DEF FormatInv, MarkerTellsFormat, Settled, Present
    <2>2. ASSUME NEW b \in Actors, Formatted(cmd'[b])
          PROVE  format' = "canonical"
      BY <1>1, <2>0, <2>2, FormatMoves DEF FormatInv, Formatted, Nudged
    <2>3. ASSUME NEW b \in Actors, cmd'[b].at = "mark", format' = "none"
          PROVE  Settled' = {}
      <3>1. format = "none" /\ (b # a => cmd[b].at = "mark")
        BY <1>1, <2>0, <2>3, FormatMoves DEF Nudged
      <3>2. b # a => Settled = {}
        BY <3>1 DEF FormatInv
      <3> QED BY <1>1, <2>3, <3>1, <3>2, SettlesFormatted, FormatMoves
    <2> QED BY <2>1, <2>2, <2>3 DEF FormatInv, Formatted
  <1>2. CASE Command(a)
    <2>1. PICK c : Beginning(c) /\ Starts(a, c)
      BY <1>2, CommandBegins
    <2>2. UNCHANGED Table /\ (\A b \in Actors \ {a} : cmd'[b] = cmd[b]) /\ cmd'[a] = [c EXCEPT !.raced = Resetting]
      BY <2>1, Started DEF Beginning, GoesOn, OnItsWay
    <2>3. cmd'[a].at # "mark" /\ ~Formatted(cmd'[a])
      BY <2>1, <2>2 DEF Beginning, Cmd, Formatted
    <2> QED BY <2>2, <2>3 DEF FormatInv, MarkerTellsFormat, Settled, Present, Table, Formatted
  <1>3. CASE Quits(a)
    <2>1. UNCHANGED Table /\ (\A b \in Actors \ {a} : cmd'[b] = cmd[b]) /\ cmd'[a] = Idle
      BY <1>3, ToGoesOn DEF Quits, Ends, GoesOn
    <2>2. Idle.at # "mark" /\ ~Formatted(Idle)
      BY DEF Idle, Formatted
    <2> QED BY <2>1, <2>2 DEF FormatInv, MarkerTellsFormat, Settled, Present, Table, Formatted
  <1> QED BY <1>1, <1>2, <1>3

-----------------------------------------------------------------------------
(* A label goes only with its row; who gives one makes those late that have *)
(* read the row before.                                                     *)

Waiting(c) == c.at = "apply" /\ ~c.late /\ c.label # "given"

LabelInv ==
  /\ LabelSurvives
  /\ \A a \in Actors : Waiting(cmd[a]) => rows[cmd[a].fp].label = "none"

LEMMA LabelMoves ==
  ASSUME TypeOK, Underway, LabelInv, NEW a \in Actors, Call(a)
  PROVE  /\ \A f \in Fps :
              \/ rows'[f].label \in {"none", rows[f].label}
              \/ /\ rows'[f].label = "given"
                 /\ \A b \in Actors \ {a} : cmd[b].at = "apply" /\ cmd[b].fp = f => cmd'[b].late
         /\ Waiting(cmd'[a]) => rows'[cmd'[a].fp].label = "none"
  <1> DEFINE c == cmd[a]
  <1>0. /\ c \in Cmd /\ OnItsWay(c) /\ cmd \in [Actors -> Cmd] /\ rows \in [Fps -> Row]
        /\ \A f : Late(a, f, Idle) =>
             /\ cmd'[a] = Idle
             /\ \A b \in Actors \ {a} : cmd[b].at = "apply" /\ cmd[b].fp = f => cmd'[b].late
        /\ \A d : To(a, d) \/ Overtaking(a, d) => cmd'[a] = d
        /\ ~Waiting(Idle) /\ NoRow.label = "none"
    BY ToGoesOn, LateGoesOn, OvertakingGoesOn DEF GoesOn, TypeOK, Underway, Waiting, Idle, NoRow
  <1>1. CASE Validate(a)
    BY <1>0, <1>1 DEF Validate, Ends, Table, Waiting, Cmd
  <1>2. CASE GetFormat(a) \/ LastFingerprint(a) \/ Mark(a)
    <2>1. rows' = rows /\ (cmd'[a] = Idle \/ \E at \in Places : at # "apply" /\ cmd'[a] = [c EXCEPT !.at = at])
      BY <1>0, <1>2 DEF GetFormat, LastFingerprint, Mark, Goes, Ends, Table, AfterFormat, OnItsWay, Places
    <2> QED BY <1>0, <2>1 DEF Waiting, Cmd
  <1>3. CASE ResetFingerprints(a)
    BY <1>0, <1>3 DEF ResetFingerprints, Waiting, Cmd, Empty
  <1>4. CASE ReconcileMethod(a)
    <2>1. cmd'[a] = Idle \/ cmd'[a] = [c EXCEPT !.at = "serving", !.under = c.method]
      BY <1>0, <1>4 DEF ReconcileMethod, Ends
    <2>2. rows' = rows \/ rows' = Empty
      BY <1>4 DEF ReconcileMethod
    <2>3. ~Waiting(cmd'[a])
      BY <1>0, <2>1 DEF Waiting, Cmd
    <2>4. \A f \in Fps : rows'[f].label \in {"none", rows[f].label}
      BY <1>0, <2>2 DEF Empty
    <2> QED BY <2>3, <2>4
  <1>5. CASE KeepMethod(a) \/ RecordMethod(a)
    BY <1>0, <1>5 DEF KeepMethod, RecordMethod, Ends, Table, Waiting, Cmd
  <1>6. CASE Prune(a) \/ Observe(a)
    BY <1>0, <1>6 DEF Prune, Observe, Waiting
  <1>7. CASE SetStatus(a)
    BY <1>0, <1>7 DEF SetStatus, Goes, Ends, Waiting, Cmd, Row
  <1>8. CASE SetLabel(a)
    BY <1>0, <1>8 DEF SetLabel, Ends, Row
  <1>9. CASE Get(a)
    <2> DEFINE u == IF c.register THEN c.under ELSE rows[c.fp].under
               d == [c EXCEPT !.at = "apply", !.label = rows[c.fp].label, !.under = u]
    <2>1. rows' = rows /\ c.fp \in Fps /\ rows[c.fp].label \in {"none", "given"}
      BY <1>0, <1>9 DEF Get, Table, OnItsWay, LabelInv, LabelSurvives, Row
    <2>2. cmd'[a] = Idle \/ cmd'[a] = d
      BY <1>0, <1>9 DEF Get, Ends
    <2>3. d.label = rows[c.fp].label /\ d.fp = c.fp
      BY <1>0 DEF Cmd
    <2> QED BY <1>0, <2>1, <2>2, <2>3 DEF Waiting
  <1>10. CASE UpsertStatus(a)
    BY <1>0, <1>10 DEF UpsertStatus, OnItsWay, Row, Cmd
  <1>11. CASE ApplyDecisions(a)
    <2>1. Waiting(c) => rows[c.fp].label = "none"
      BY DEF LabelInv
    <2> QED BY <1>0, <1>11, <2>1 DEF ApplyDecisions, OnItsWay, Waiting, Row, Cmd
  <1>12. CASE Delete(a)
    BY <1>0, <1>12 DEF Delete
  <1> QED BY <1>1, <1>2, <1>3, <1>4, <1>5, <1>6, <1>7, <1>8, <1>9, <1>10, <1>11, <1>12 DEF Call

LEMMA LabelKept ==
  ASSUME TypeOK, Underway, LabelInv, NEW a \in Actors, Command(a) \/ Call(a) \/ Quits(a)
  PROVE  LabelInv'
  <1>1. CASE Call(a)
    <2>0. /\ TypeOK' /\ cmd' \in [Actors -> Cmd] /\ Underway'
          /\ \A b \in Actors \ {a} : Nudged(cmd[b], cmd'[b])
      BY <1>1, CallNudges, CallKeepsTypes DEF TypeOK
    <2>1. LabelSurvives'
      BY <1>1, LabelMoves DEF LabelInv, LabelSurvives
    <2>2. ASSUME NEW b \in Actors \ {a}, Waiting(cmd'[b])
          PROVE  rows'[cmd'[b].fp].label = "none"
      <3>1. Waiting(cmd[b]) /\ cmd'[b].fp = cmd[b].fp /\ cmd[b].fp \in Fps /\ rows[cmd[b].fp].label = "none"
        BY <2>0, <2>2 DEF Waiting, Nudged, LabelInv, Underway, OnItsWay
      <3> QED BY <1>1, <2>2, <3>1, LabelMoves DEF Waiting
    <2> QED BY <1>1, <2>1, <2>2, LabelMoves DEF LabelInv, Waiting
  <1>2. CASE Command(a)
    <2>1. PICK c : Beginning(c) /\ Starts(a, c)
      BY <1>2, CommandBegins
    <2>2. UNCHANGED Table /\ (\A b \in Actors \ {a} : cmd'[b] = cmd[b]) /\ cmd'[a] = [c EXCEPT !.raced = Resetting]
      BY <2>1, Started DEF Beginning, GoesOn, OnItsWay
    <2>3. ~Waiting(cmd'[a])
      BY <2>1, <2>2 DEF Beginning, Cmd, Waiting
    <2> QED BY <2>2, <2>3 DEF LabelInv, LabelSurvives, Table, Waiting
  <1>3. CASE Quits(a)
    <2>1. UNCHANGED Table /\ (\A b \in Actors \ {a} : cmd'[b] = cmd[b]) /\ cmd'[a] = Idle
      BY <1>3, ToGoesOn DEF Quits, Ends, GoesOn
    <2>2. ~Waiting(Idle)
      BY DEF Idle, Waiting
    <2> QED BY <2>1, <2>2 DEF LabelInv, LabelSurvives, Table, Waiting
  <1> QED BY <1>1, <1>2, <1>3

-----------------------------------------------------------------------------
(* While a reset has purged and not yet recorded, everyone else at work is  *)
(* overtaken; who is not, goes by the recorded method.                      *)

TrueTo(c) ==
  /\ c.at = "serving" => c.under = c.method
  /\ c.at = "serving" /\ ~c.raced => c.method = method
  /\ c.register /\ c.at # "validate" /\ ~c.raced =>
       c.under = method /\ (method # "none" => MethodOf[c.fp] = method)
  /\ c.at = "apply" /\ ~c.raced /\ c.under # "none" /\ c.fp \in Settled => MethodOf[c.fp] = method

AllRaced == \A a \in Actors : cmd[a].at \in {"idle", "record"} \/ cmd[a].raced

NeverAny ==
  /\ \A f \in Fps : rows[f].under = "none"
  /\ \A a \in Actors : cmd[a].under = "none"

MethodInv ==
  /\ MethodTellsKeys
  /\ Resetting => Settled = {} /\ AllRaced
  /\ method = "none" => NeverAny
  /\ \A a \in Actors : TrueTo(cmd[a])

\* A change of the recorded method overtakes everyone else and leaves no row of another.
LEMMA MethodMoves ==
  ASSUME TypeOK, Underway, MethodInv, NEW a \in Actors, Call(a)
  PROVE  /\ method' = "none" => method = "none"
         /\ method' # method =>
              /\ \A b \in Actors \ {a} : cmd'[b].at \in {"idle", "record"} \/ cmd'[b].raced
              /\ \A f \in Settled' : rows'[f].under = "none"
  <1> DEFINE c == cmd[a]
  <1>0. c \in Cmd /\ OnItsWay(c) /\ cmd \in [Actors -> Cmd]
    BY DEF TypeOK, Underway
  <1>1. CASE method' = method
    BY <1>1
  <1>2. CASE ReconcileMethod(a)
    <2>1. method' = method \/ (method' = c.method /\ c.method \in Methods)
      BY <1>0, <1>2 DEF ReconcileMethod, OnItsWay
    <2>2. method' = "none" => method = "none"
      BY <2>1, AdminAssumption
    <2>3. ASSUME method' # method
          PROVE  /\ \A b \in Actors \ {a} : cmd'[b].at \in {"idle", "record"} \/ cmd'[b].raced
                 /\ \A f \in Settled' : rows'[f].under = "none"
      <3>1. /\ Overtaking(a, [c EXCEPT !.at = "serving", !.under = c.method])
            /\ rows' = Empty \/ (rows' = rows /\ (Present = {} \/ method = "none"))
        BY <1>2, <2>3 DEF ReconcileMethod
      <3>2. \A f \in Settled' : rows'[f].under = "none"
        BY <3>1 DEF MethodInv, NeverAny, Settled, Present, Empty, NoRow
      <3> QED BY <3>1, <3>2, OvertakingGoesOn
    <2> QED BY <2>2, <2>3
  <1>3. CASE RecordMethod(a)
    <2>1. Resetting /\ Ends(a) /\ rows' = rows
      BY <1>0, <1>3 DEF RecordMethod, Resetting, At, OnItsWay
    <2>2. Settled' = {} /\ AllRaced
      BY <2>1 DEF MethodInv, Settled, Present
    <2>3. \A b \in Actors \ {a} : cmd'[b] = cmd[b]
      BY <2>1, ToGoesOn DEF Ends
    <2> QED BY <1>3, <2>2, <2>3 DEF RecordMethod, AllRaced
  <1> QED BY <1>1, <1>2, <1>3 DEF Call, Validate, GetFormat, LastFingerprint, ResetFingerprints, Mark,
              KeepMethod, Prune, Observe, SetStatus, SetLabel, UpsertStatus, Get, ApplyDecisions,
              Delete, Table

\* A row that settles, or is written anew by who is not overtaken, is a key of the method.
LEMMA SettlesTrue ==
  ASSUME TypeOK, Underway, MethodInv, NEW a \in Actors, Call(a), NEW f \in Settled'
  PROVE  /\ method' = method /\ rows'[f].under # "none" => MethodOf[f] = method
         /\ f \notin Settled =>
              ~cmd[a].raced /\ cmd[a].at # "record" /\ (method = "none" \/ MethodOf[f] = method)
  <1> DEFINE c == cmd[a]
  <1>0. /\ c \in Cmd /\ OnItsWay(c) /\ TrueTo(c)
        /\ rows \in [Fps -> Row] /\ f \in Fps /\ c.under \in NoneOr(Methods)
        /\ f \in Settled /\ rows[f].under # "none" => MethodOf[f] = method
    BY DEF TypeOK, Underway, MethodInv, Settled, Present, Cmd, MethodTellsKeys
  <1>1. CASE rows'[f] = rows[f]
    BY <1>0, <1>1 DEF Settled, Present
  <1>2. CASE rows'[f] = NoRow
    BY <1>2 DEF Settled, Present, NoRow
  <1>3. CASE Observe(a) /\ rows'[f] # rows[f] /\ rows'[f] # NoRow
    BY <1>0, <1>3 DEF Observe, Settled, Present, TrueTo
  <1>4. CASE SetStatus(a)
    BY <1>0, <1>4 DEF SetStatus, Settled, Present, Row, OnItsWay
  <1>5. CASE SetLabel(a)
    BY <1>0, <1>5 DEF SetLabel, Settled, Present, Row
  <1>6. CASE UpsertStatus(a)
    BY <1>0, <1>6 DEF UpsertStatus, Settled, Present, TrueTo, OnItsWay, Row
  <1>7. CASE ApplyDecisions(a)
    BY <1>0, <1>7 DEF ApplyDecisions, Settled, Present, TrueTo, OnItsWay, Row
  <1>8. CASE Delete(a)
    BY <1>0, <1>1, <1>2, <1>8 DEF Delete, OnItsWay
  <1>9. CASE Prune(a) \/ rows' = Empty
    BY <1>0, <1>1, <1>2, <1>9 DEF Prune, Empty
  <1>10. CASE rows' = rows
    BY <1>1, <1>10
  <1> QED BY <1>1, <1>2, <1>3, <1>4, <1>5, <1>6, <1>7, <1>8, <1>9, <1>10
          DEF Call, Validate, GetFormat, LastFingerprint, ResetFingerprints, Mark, ReconcileMethod,
              KeepMethod, RecordMethod, Get, Table

\* Where its own call leaves a command.
LEMMA OwnCall ==
  ASSUME TypeOK, Underway, MethodInv, NEW a \in Actors, Call(a)
  PROVE  /\ TrueTo(cmd[a])'
         /\ cmd'[a].at = "idle" \/ (cmd[a].raced => cmd'[a].raced)
         /\ method' = "none" => cmd'[a].under = "none"
         /\ cmd'[a].at = "record" =>
              /\ Settled' = {}
              /\ \A b \in Actors \ {a} : cmd'[b].at \in {"idle", "record"} \/ cmd'[b].raced
  <1> DEFINE c == cmd[a]
  <1>0. /\ c \in Cmd /\ OnItsWay(c) /\ cmd \in [Actors -> Cmd] /\ rows \in [Fps -> Row]
        /\ \A d, f : To(a, d) \/ Overtaking(a, d) \/ Late(a, f, d) => cmd'[a] = d
        /\ TrueTo(c) /\ (method = "none" => NeverAny)
    BY ToGoesOn, LateGoesOn, OvertakingGoesOn DEF GoesOn, TypeOK, Underway, MethodInv
  <1>i. CASE cmd'[a] = Idle
    BY <1>i DEF TrueTo, Idle
  <1>1. CASE Validate(a) /\ cmd'[a] # Idle
    <2>1. /\ cmd'[a] = [c EXCEPT !.at = "format", !.under = method]
          /\ method \in {"none", MethodOf[c.fp]} /\ method' = method
      BY <1>0, <1>1 DEF Validate, Ends, Table
    <2>2. /\ cmd'[a].at = "format" /\ cmd'[a].under = method /\ cmd'[a].fp = c.fp
          /\ cmd'[a].raced = c.raced
      BY <1>0, <2>1 DEF Cmd
    <2> QED BY <2>1, <2>2 DEF TrueTo
  <1>2. CASE (GetFormat(a) \/ LastFingerprint(a) \/ Mark(a)) /\ cmd'[a] # Idle
    <2>1. /\ rows' = rows /\ method' = method /\ c.at \in {"format", "last", "mark"}
          /\ \E at \in Places : at \notin {"apply", "record", "serving"} /\ cmd'[a] = [c EXCEPT !.at = at]
      <3>1. AfterFormat[c.do] \in Places \ {"apply", "record", "serving"} \/ c.at \notin {"format", "mark"}
        BY <1>0 DEF AfterFormat, OnItsWay, Places
      <3>2. CASE GetFormat(a)
        BY <1>0, <1>2, <3>1, <3>2 DEF GetFormat, Goes, Table, Places
      <3>3. CASE LastFingerprint(a)
        BY <1>0, <1>2, <3>3 DEF LastFingerprint, Goes, Ends, Table, Places
      <3>4. CASE Mark(a)
        BY <1>0, <1>2, <3>1, <3>4 DEF Mark, Goes, Places
      <3> QED BY <1>2, <3>2, <3>3, <3>4
    <2>2. /\ cmd'[a].at \notin {"apply", "record", "serving"} /\ cmd'[a].under = c.under
          /\ cmd'[a].fp = c.fp /\ cmd'[a].raced = c.raced /\ cmd'[a].register = c.register
      BY <1>0, <2>1 DEF Cmd
    <2> QED BY <1>0, <2>1, <2>2 DEF TrueTo, NeverAny
  <1>3. CASE ResetFingerprints(a)
    <2> DEFINE d == [c EXCEPT !.at = IF c.do = "reset" THEN "record" ELSE "mark"]
    <2>1. cmd'[a] = d /\ Overtaking(a, d) /\ rows' = Empty /\ method' = method /\ c.at = "purge"
      BY <1>0, <1>3 DEF ResetFingerprints
    <2>2. /\ d.at \in {"record", "mark"} /\ d.under = c.under /\ d.raced = c.raced /\ d.register = FALSE
      BY <1>0, <2>1 DEF Cmd, OnItsWay
    <2>3. Settled' = {}
      BY <2>1 DEF Settled, Present, Empty, NoRow
    <2>4. \A b \in Actors \ {a} : cmd'[b].at \in {"idle", "record"} \/ cmd'[b].raced
      BY <2>1, OvertakingGoesOn
    <2> QED BY <1>0, <2>1, <2>2, <2>3, <2>4 DEF TrueTo, NeverAny
  <1>4. CASE ReconcileMethod(a) /\ cmd'[a] # Idle
    <2> DEFINE d == [c EXCEPT !.at = "serving", !.under = c.method]
    <2>1. cmd'[a] = d /\ method' = c.method /\ c.at = "method"
      BY <1>0, <1>4 DEF ReconcileMethod, Ends
    <2>2. /\ d.at = "serving" /\ d.under = c.method /\ d.method = c.method /\ d.raced = c.raced
          /\ d.register = FALSE /\ c.method # "none"
      BY <1>0, <2>1, AdminAssumption DEF Cmd, OnItsWay
    <2> QED BY <2>1, <2>2 DEF TrueTo
  <1>5. CASE KeepMethod(a)
    <2> DEFINE d == [c EXCEPT !.at = "purge", !.method = method]
    <2>1. cmd'[a] = d /\ method' = method /\ c.at = "keep"
      BY <1>0, <1>5 DEF KeepMethod, Table
    <2>2. d.at = "purge" /\ d.under = c.under /\ d.raced = c.raced /\ d.register = FALSE
      BY <1>0, <2>1 DEF Cmd, OnItsWay
    <2> QED BY <1>0, <2>1, <2>2 DEF TrueTo, NeverAny
  <1>6. CASE Prune(a) \/ Observe(a)
    <2>1. cmd' = cmd /\ c.at = "serving" /\ method' = method /\ c.register = FALSE
      BY <1>0, <1>6 DEF Prune, Observe, OnItsWay, Cmd
    <2> QED BY <1>0, <2>1 DEF TrueTo, NeverAny
  <1>7. CASE SetStatus(a) /\ cmd'[a] # Idle
    <2>1. cmd'[a] = [c EXCEPT !.at = "name"] /\ method' = method /\ c.at = "status"
      BY <1>0, <1>7 DEF SetStatus, Goes, Ends
    <2>2. /\ cmd'[a].at = "name" /\ cmd'[a].under = c.under /\ cmd'[a].raced = c.raced
          /\ cmd'[a].register = FALSE
      BY <1>0, <2>1 DEF Cmd, OnItsWay
    <2> QED BY <1>0, <2>1, <2>2 DEF TrueTo, NeverAny
  <1>8. CASE Get(a) /\ cmd'[a] # Idle
    <2> DEFINE u == IF c.register THEN c.under ELSE rows[c.fp].under
               d == [c EXCEPT !.at = "apply", !.label = rows[c.fp].label, !.under = u]
    <2>1. cmd'[a] = d /\ rows' = rows /\ method' = method /\ c.at = "get"
      BY <1>0, <1>8 DEF Get, Ends, Table
    <2>2. /\ d.at = "apply" /\ d.under = u /\ d.raced = c.raced /\ d.register = c.register /\ d.fp = c.fp
      BY <1>0 DEF Cmd
    <2>3. c.fp \in Fps /\ c.register \in BOOLEAN
      BY <1>0, <2>1 DEF OnItsWay, Cmd
    <2>4. Settled' = Settled
      BY <2>1 DEF Settled, Present
    <2>5. ~d.raced /\ u # "none" /\ c.fp \in Settled => MethodOf[c.fp] = method
      BY <1>0, <2>1, <2>2, <2>3 DEF TrueTo, MethodInv, MethodTellsKeys, NeverAny
    <2>6. method = "none" => u = "none"
      BY <1>0, <2>3 DEF NeverAny
    <2>7. c.register => u = c.under
      OBVIOUS
    <2> HIDE DEF u, d
    <2> QED BY <1>0, <2>1, <2>2, <2>4, <2>5, <2>6, <2>7 DEF TrueTo
  <1>9. CASE RecordMethod(a) \/ SetLabel(a) \/ UpsertStatus(a) \/ ApplyDecisions(a) \/ Delete(a)
    <2>1. cmd'[a] = Idle
      BY <1>0, <1>9 DEF RecordMethod, SetLabel, UpsertStatus, ApplyDecisions, Delete, Ends
    <2> QED BY <1>i, <2>1
  <1> QED BY <1>i, <1>1, <1>2, <1>3, <1>4, <1>5, <1>6, <1>7, <1>8, <1>9 DEF Call

LEMMA UndersKept ==
  ASSUME TypeOK, Underway, NEW a \in Actors, Call(a), method = "none", NeverAny, method' = "none"
  PROVE  \A f \in Fps : rows'[f].under = "none"
  <1> DEFINE c == cmd[a]
  <1>0. /\ c \in Cmd /\ OnItsWay(c) /\ rows \in [Fps -> Row] /\ NoRow.under = "none"
        /\ c.under = "none" /\ \A f \in Fps : rows[f].under = "none"
    BY DEF TypeOK, Underway, NeverAny, NoRow
  <1>1. CASE rows' = rows \/ rows' = Empty \/ Prune(a)
    BY <1>0, <1>1 DEF Empty, Prune
  <1>2. CASE Observe(a)
    BY <1>0, <1>2 DEF Observe
  <1>3. CASE SetStatus(a) \/ SetLabel(a)
    BY <1>0, <1>3 DEF SetStatus, SetLabel, Row
  <1>4. CASE UpsertStatus(a)
    BY <1>0, <1>4 DEF UpsertStatus
  <1>5. CASE ApplyDecisions(a)
    BY <1>0, <1>5 DEF ApplyDecisions
  <1>6. CASE Delete(a)
    BY <1>0, <1>6 DEF Delete
  <1> QED BY <1>1, <1>2, <1>3, <1>4, <1>5, <1>6
          DEF Call, Validate, GetFormat, LastFingerprint, ResetFingerprints, Mark, ReconcileMethod,
              KeepMethod, RecordMethod, Get, Table

LEMMA MethodKept ==
  ASSUME TypeOK, Underway, MethodInv, NEW a \in Actors, Command(a) \/ Call(a) \/ Quits(a)
  PROVE  MethodInv'
  <1>0. cmd \in [Actors -> Cmd] /\ rows \in [Fps -> Row]
    BY DEF TypeOK
  <1>1. CASE Call(a)
    <2>0. /\ TypeOK' /\ cmd' \in [Actors -> Cmd] /\ Underway'
          /\ \A b \in Actors \ {a} : Nudged(cmd[b], cmd'[b])
      BY <1>1, CallNudges, CallKeepsTypes DEF TypeOK
    <2>1. MethodTellsKeys'
      BY <1>1, MethodMoves, SettlesTrue DEF MethodTellsKeys
    <2>2. ASSUME method' = "none"
          PROVE  NeverAny'
      <3>1. method = "none" /\ NeverAny
        BY <1>1, <2>2, MethodMoves DEF MethodInv
      <3>2. \A f \in Fps : rows'[f].under = "none"
        BY <1>1, <2>2, <3>1, UndersKept
      <3>3. \A b \in Actors : cmd'[b].under = "none"
        BY <1>1, <2>0, <2>2, <3>1, OwnCall DEF Nudged, NeverAny
      <3> QED BY <3>2, <3>3 DEF NeverAny
    <2>3. ASSUME Resetting'
          PROVE  Settled' = {} /\ AllRaced'
      <3>1. CASE cmd'[a].at = "record"
        BY <1>1, <3>1, OwnCall DEF AllRaced
      <3>2. CASE cmd'[a].at # "record"
        <4>1. PICK b \in Actors : cmd'[b].at = "record" /\ cmd'[b].do = "reset"
          BY <2>3 DEF Resetting, At
        <4>2. b # a /\ cmd[b].at = "record" /\ cmd[b].do = "reset"
          BY <2>0, <3>2, <4>1 DEF Nudged
        <4>3. Settled = {} /\ AllRaced
          BY <4>2 DEF Resetting, At, MethodInv
        <4>4. cmd[a].at # "idle"
          BY <1>1 DEF Call, Validate, GetFormat, LastFingerprint, ResetFingerprints, Mark,
                      ReconcileMethod, KeepMethod, RecordMethod, Prune, Observe, SetStatus, SetLabel,
                      UpsertStatus, Get, ApplyDecisions, Delete
        <4>5. Settled' = {}
          BY <1>1, <4>3, <4>4, SettlesTrue DEF AllRaced
        <4>6. cmd'[a].at \in {"idle", "record"} \/ cmd'[a].raced
          <5>1. CASE cmd[a].at = "record"
            <6>1. RecordMethod(a)
              BY <1>1, <5>1 DEF Call, Validate, GetFormat, LastFingerprint, ResetFingerprints, Mark,
                      ReconcileMethod, KeepMethod, Prune, Observe, SetStatus, SetLabel,
                      UpsertStatus, Get, ApplyDecisions, Delete
            <6>2. cmd'[a] = Idle
              BY <6>1, ToGoesOn DEF RecordMethod, Ends, GoesOn
            <6> QED BY <6>2 DEF Idle
          <5>2. CASE cmd[a].at # "record"
            BY <1>1, <4>3, <4>4, <5>2, OwnCall DEF AllRaced
          <5> QED BY <5>1, <5>2
        <4>7. \A d \in Actors \ {a} : cmd'[d].at \in {"idle", "record"} \/ cmd'[d].raced
          BY <2>0, <4>3 DEF AllRaced, Nudged
        <4> QED BY <4>5, <4>6, <4>7 DEF AllRaced
      <3> QED BY <3>1, <3>2
    <2>4. ASSUME NEW b \in Actors \ {a}
          PROVE  TrueTo(cmd[b])'
      <3> DEFINE c == cmd[b]
                 d == cmd'[b]
      <3>0. Nudged(c, d) /\ OnItsWay(c) /\ TrueTo(c)
        BY <2>0 DEF Underway, MethodInv
      <3>1. d.at = "serving" => d.under = d.method
        BY <3>0 DEF TrueTo, Nudged
      <3>2. CASE method' # method
        <4>1. d.at \in {"idle", "record"} \/ d.raced
          BY <1>1, <3>2, MethodMoves
        <4>2. d.at \in {"idle", "record"} => d.register = FALSE
          BY <2>0 DEF Underway, OnItsWay, Idle, Cmd
        <4> QED BY <3>1, <4>1, <4>2 DEF TrueTo
      <3>3. CASE method' = method
        <4>1. d.at = "serving" /\ ~d.raced => d.method = method
          BY <3>0 DEF TrueTo, Nudged
        <4>2. d.register /\ d.at # "validate" /\ ~d.raced =>
                d.under = method /\ (method # "none" => MethodOf[d.fp] = method)
          BY <3>0 DEF TrueTo, Nudged
        <4>3. ASSUME d.at = "apply", ~d.raced, d.under # "none", d.fp \in Settled'
              PROVE  MethodOf[d.fp] = method
          <5>1. c.at = "apply" /\ ~c.raced /\ c.under # "none" /\ c.fp = d.fp
            BY <3>0, <4>3 DEF Nudged
          <5>2. method # "none"
            BY <5>1 DEF MethodInv, NeverAny
          <5> QED BY <1>1, <3>0, <4>3, <5>1, <5>2, SettlesTrue DEF TrueTo
        <4> QED BY <3>1, <3>3, <4>1, <4>2, <4>3 DEF TrueTo
      <3> QED BY <3>2, <3>3
    <2>5. \A b \in Actors : TrueTo(cmd[b])'
      BY <1>1, <2>4, OwnCall
    <2> QED BY <2>1, <2>2, <2>3, <2>5 DEF MethodInv
  <1>2. CASE Command(a)
    <2>1. PICK c : Beginning(c) /\ Starts(a, c)
      BY <1>2, CommandBegins
    <2> DEFINE d == [c EXCEPT !.raced = Resetting]
    <2>2. /\ UNCHANGED Table /\ (\A b \in Actors \ {a} : cmd'[b] = cmd[b])
          /\ cmd'[a] = d /\ cmd[a] = Idle
      BY <2>1, Started DEF Beginning, GoesOn, OnItsWay
    <2>3. /\ d.at \notin {"record", "serving", "apply"} /\ d.under = "none" /\ d.raced = Resetting
          /\ d.register => d.at = "validate"
      BY <2>1 DEF Beginning, Cmd
    <2>4. Settled' = Settled /\ method' = method /\ rows' = rows /\ Idle.at = "idle"
      BY <2>2 DEF Settled, Present, Table, Idle
    <2>5. Resetting' => Resetting
      BY <2>2, <2>3 DEF Resetting, At
    <2>6. AllRaced /\ Resetting => AllRaced'
      BY <2>2, <2>3 DEF AllRaced
    <2>7. TrueTo(cmd[a])'
      BY <2>2, <2>3 DEF TrueTo
    <2>8. \A b \in Actors \ {a} : TrueTo(cmd[b])'
      BY <2>2, <2>4 DEF TrueTo, MethodInv
    <2>9. NeverAny => NeverAny'
      BY <2>2, <2>3, <2>4 DEF NeverAny
    <2> QED BY <2>4, <2>5, <2>6, <2>7, <2>8, <2>9 DEF MethodInv, MethodTellsKeys
  <1>3. CASE Quits(a)
    <2>1. UNCHANGED Table /\ (\A b \in Actors \ {a} : cmd'[b] = cmd[b]) /\ cmd'[a] = Idle
      BY <1>3, ToGoesOn DEF Quits, Ends, GoesOn
    <2>2. Settled' = Settled /\ method' = method /\ rows' = rows
      BY <2>1 DEF Settled, Present, Table
    <2>3. TrueTo(cmd[a])' /\ Idle.at = "idle" /\ Idle.under = "none"
      BY <2>1 DEF TrueTo, Idle
    <2>4. Resetting' => Resetting
      BY <2>1, <2>3 DEF Resetting, At
    <2>5. (AllRaced => AllRaced') /\ (NeverAny => NeverAny')
      BY <2>1, <2>2, <2>3 DEF AllRaced, NeverAny
    <2>6. \A b \in Actors \ {a} : TrueTo(cmd[b])'
      BY <2>1, <2>2 DEF TrueTo, MethodInv
    <2> QED BY <2>2, <2>3, <2>4, <2>5, <2>6 DEF MethodInv, MethodTellsKeys
  <1> QED BY <1>1, <1>2, <1>3

-----------------------------------------------------------------------------
(* The theorems.                                                            *)

IInv == TypeOK /\ Underway /\ FormatInv /\ LabelInv /\ MethodInv

LEMMA InitInv == Init => IInv
  <1> SUFFICES ASSUME Init PROVE IInv
    OBVIOUS
  <1>1. cmd = [a \in Actors |-> Idle] /\ \A a \in Actors : cmd[a] = Idle
    BY DEF Init
  <1>a. ASSUME NEW m \in Methods
        PROVE  LET r == [NoRow EXCEPT !.status = "approved", !.under = m] IN
               r \in Row /\ r.label = "none" /\ r.under = m
    BY DEF NoRow, Row, NoneOr
  <1>b. NoRow \in Row /\ NoRow.label = "none" /\ NoRow.under = "none" /\ NoRow.status = "absent"
    BY DEF NoRow, Row, NoneOr
  <1>2. TypeOK
    <2>1. rows \in [Fps -> Row]
      BY <1>a, <1>b DEF Init, Empty
    <2> QED BY <1>1, <2>1, IdleOnItsWay DEF Init, TypeOK, NoneOr
  <1>3. Underway
    BY <1>1, IdleOnItsWay DEF Underway
  <1>4. \A f \in Fps : rows[f].label = "none"
    BY <1>a, <1>b DEF Init, Empty
  <1>5. \A f \in Settled : method \in Methods /\ MethodOf[f] = method /\ (f \in Old <=> format = "none")
    BY DEF Init, Settled, Present, Empty, NoRow
  <1>6. method = "none" => \A f \in Fps : rows[f].under = "none"
    BY AdminAssumption DEF Init, Empty, NoRow
  <1>7. FormatInv
    BY <1>1, <1>5 DEF FormatInv, MarkerTellsFormat, Formatted, Idle
  <1>8. LabelInv
    BY <1>1, <1>4 DEF LabelInv, LabelSurvives, Waiting, Idle
  <1>9. MethodInv
    BY <1>1, <1>5, <1>6 DEF MethodInv, MethodTellsKeys, Resetting, At, NeverAny, TrueTo, Idle
  <1> QED BY <1>2, <1>3, <1>7, <1>8, <1>9 DEF IInv

LEMMA NextInv == IInv /\ [Next]_vars => IInv'
  <1> SUFFICES ASSUME IInv, [Next]_vars PROVE IInv'
    OBVIOUS
  <1>1. CASE UNCHANGED vars
    BY <1>1 DEF vars, IInv, TypeOK, Underway, FormatInv, MarkerTellsFormat, Settled, Present, LabelInv,
                LabelSurvives, MethodInv, MethodTellsKeys, Resetting, At, AllRaced, NeverAny, TrueTo,
                Waiting, Formatted
  <1>2. CASE Next
    <2>1. PICK a \in Actors : Command(a) \/ Call(a) \/ Quits(a)
      BY <1>2 DEF Next
    <2>2. TypeOK' /\ Underway'
      BY <2>1, CommandKeepsTypes, CallKeepsTypes, QuitsKeepsTypes DEF IInv
    <2>3. FormatInv' /\ LabelInv' /\ MethodInv'
      BY <2>1, FormatKept, LabelKept, MethodKept DEF IInv
    <2> QED BY <2>2, <2>3 DEF IInv
  <1> QED BY <1>1, <1>2

\* The inductive invariant: of every command, which call it can be at and what it has brought
\* there; of the table, the two markers and the labels.
THEOREM Invariance == Spec => []IInv
  BY InitInv, NextInv, PTL DEF Spec

\* Rows, markers and commands keep their types, whichever calls of whichever commands interleave.
THEOREM TypeCorrect == Spec => []TypeOK
  <1>1. IInv => TypeOK
    BY DEF IInv
  <1> QED BY <1>1, Invariance, PTL

\* reconcileFingerprintFormat: among settled rows, no key of the old format stands under the
\* canonical marker, nor one of today's without it, however commands and starts interleave and
\* wherever they stop.  A row that a reset has overtaken is not settled.
THEOREM FormatMarked == Spec => []MarkerTellsFormat
  <1>1. IInv => MarkerTellsFormat
    BY DEF IInv, FormatInv
  <1> QED BY <1>1, Invariance, PTL

\* ReconcileFingerprintMethod and cmdReset: a settled row that was written under a recorded method
\* is a key of the method now recorded.
THEOREM MethodMarked == Spec => []MethodTellsKeys
  <1>1. IInv => MethodTellsKeys
    BY DEF IInv, MethodInv
  <1> QED BY <1>1, Invariance, PTL

\* approveWithScope: an approval with ranges, which writes the row whole, writes back the label
\* that it has read, unless one was given in between.  What becomes of labels otherwise, with
\* a row that is deleted or evicted, is not part of it.
THEOREM LabelsSurvive == Spec => []LabelSurvives
  <1>1. IInv => LabelSurvives
    BY DEF IInv, LabelInv
  <1> QED BY <1>1, Invariance, PTL

=============================================================================
