-------------------------------- MODULE Admin --------------------------------
(***************************************************************************)
(* The operator's commands and the start of a serving process as the store *)
(* calls they are made of.  No transaction spans two calls: commands,      *)
(* starts and traffic interleave between them, and any of them may end     *)
(* there, killed or refused by the store.  Module Gate has a command as    *)
(* one step and what it means for clients; here are the two markers that   *)
(* say how the keys of the table were computed, and the labels.            *)
(*                                                                         *)
(* Sources and scopes are left out.  The store library is modelled from    *)
(* its use; where src/ does not pin it down, both outcomes are allowed.    *)
(***************************************************************************)
EXTENDS FiniteSets

CONSTANTS
  Actors,    \* command lines and serving processes that may be active at once
  Fps,       \* fingerprints
  Methods,   \* {"ja3", "ja4"}
  MethodOf,  \* what each was computed with
  Old        \* those the algorithms before the canonical format computed

ASSUME AdminAssumption ==
  MethodOf \in [Fps -> Methods] /\ Old \subseteq Fps /\ "none" \notin Methods

VARIABLES
  rows,    \* the table
  format,  \* tlsgate_fingerprint_format: "none" or "canonical"
  method,  \* fingerprint_method: a method or "none"
  cmd      \* what each actor does

vars == <<rows, format, method, cmd>>

\* A row: its status, whether it has the label it was given, "lost" if that is gone though
\* nobody meant it to; the method that was recorded when it was written, and whether its
\* writer was overtaken by a reset.
NoRow == [status |-> "absent", label |-> "none", under |-> "none", raced |-> FALSE]

Present  == {f \in Fps : rows[f].status # "absent"}
Approved == {f \in Fps : rows[f].status = "approved"}

\* A command: the next call, the arguments, what it has read, and whether it was overtaken
\* by a reset or, between reading a row and writing it, by another writer of the row.
Idle == [do |-> "nothing", at |-> "idle", fp |-> "none", status |-> "none", named |-> FALSE,
         register |-> FALSE, reset |-> FALSE, method |-> "none", label |-> "none",
         under |-> "none", raced |-> FALSE, late |-> FALSE]

Empty == [f \in Fps |-> NoRow]

\* A new database, one of an older version, one in use.
Init ==
  /\ cmd = [a \in Actors |-> Idle]
  /\ \/ rows = Empty /\ format = "none" /\ method = "none"
     \/ /\ method \in Methods /\ format \in {"none", "canonical"}
        /\ rows = [f \in Fps |-> IF MethodOf[f] = method /\ (f \in Old <=> format = "none")
                                 THEN [NoRow EXCEPT !.status = "approved", !.under = method]
                                 ELSE NoRow]

-----------------------------------------------------------------------------
(* Calls.                                                                   *)

At(a, do, at) == cmd[a].do = do /\ cmd[a].at = at
To(a, c)      == cmd' = [cmd EXCEPT ![a] = c]
Goes(a, at)   == To(a, [cmd[a] EXCEPT !.at = at])
Ends(a)       == To(a, Idle)
Table         == <<rows, format, method>>

\* Everybody else who is at work has been overtaken by a reset.
Overtaking(a, c) ==
  cmd' = [b \in Actors |-> IF b = a THEN c
                           ELSE IF cmd[b].at = "idle" THEN Idle ELSE [cmd[b] EXCEPT !.raced = TRUE]]

\* Who has read f's row and not yet written it is late; a goes on as c.
Late(a, f, c) ==
  cmd' = [b \in Actors |-> IF b = a THEN c
                           ELSE [cmd[b] EXCEPT !.late = @ \/ (cmd[b].at = "apply" /\ cmd[b].fp = f)]]

Resetting == \E a \in Actors : At(a, "reset", "record")

Starts(a, c) == cmd[a] = Idle /\ To(a, [c EXCEPT !.raced = Resetting]) /\ UNCHANGED Table

\* The commands, and serve; an operator registers a key of today's format.
Approve(a, f, named) ==
  Starts(a, [Idle EXCEPT !.do = "set", !.at = "status", !.fp = f, !.status = "approved", !.named = named])
Block(a, f, named) ==
  Starts(a, [Idle EXCEPT !.do = "set", !.at = "status", !.fp = f, !.status = "blocked", !.named = named])
Register(a, f, status, named) ==
  /\ f \notin Old
  /\ Starts(a, [Idle EXCEPT !.do = "register", !.at = "validate", !.fp = f, !.status = status,
                            !.named = named, !.register = TRUE])
ApproveScoped(a, f, named, register) ==
  /\ register => f \notin Old
  /\ Starts(a, [Idle EXCEPT !.do = "scope", !.at = IF register THEN "validate" ELSE "get", !.fp = f,
                            !.status = "approved", !.named = named, !.register = register])
LabelIt(a, f) == Starts(a, [Idle EXCEPT !.do = "label", !.at = "name", !.fp = f])
DeleteIt(a, f) == Starts(a, [Idle EXCEPT !.do = "delete", !.at = "delete", !.fp = f])
Reset(a, m)   == Starts(a, [Idle EXCEPT !.do = "reset", !.at = IF m = "none" THEN "keep" ELSE "purge",
                                        !.method = m])
Serve(a, m, reset) ==
  Starts(a, [Idle EXCEPT !.do = "serve", !.at = "format", !.method = m, !.reset = reset])

\* Killed, stopped, or a call that failed.
Quits(a) == cmd[a].at # "idle" /\ Ends(a) /\ UNCHANGED Table

-----------------------------------------------------------------------------
(* The markers.                                                             *)

\* validFingerprintForMethod, of the method that is recorded: any if none is.
Validate(a) ==
  /\ cmd[a].at = "validate" /\ UNCHANGED Table
  /\ IF method \in {"none", MethodOf[cmd[a].fp]}
     THEN To(a, [cmd[a] EXCEPT !.at = "format", !.under = method])
     ELSE Ends(a)

AfterFormat == [register |-> "upsert", scope |-> "get", serve |-> "method"]

\* Mutant: registering does not look at the format.
RegisterAnyway(a) ==
  /\ cmd[a].at = "format" /\ UNCHANGED Table
  /\ Goes(a, IF format = "canonical" \/ cmd[a].register THEN AfterFormat[cmd[a].do] ELSE "last")

\* reconcileFingerprintFormat: the marker, is there any row, purge if asked, mark.
GetFormat(a) ==
  /\ cmd[a].at = "format" /\ UNCHANGED Table
  /\ Goes(a, IF format = "canonical" THEN AfterFormat[cmd[a].do] ELSE "last")
LastFingerprint(a) ==
  /\ cmd[a].at = "last" /\ UNCHANGED Table
  /\ IF Present = {} THEN Goes(a, "mark")
     ELSE IF cmd[a].reset THEN Goes(a, "purge") ELSE Ends(a)
ResetFingerprints(a) ==
  /\ cmd[a].at = "purge" /\ rows' = Empty /\ UNCHANGED <<format, method>>
  /\ Overtaking(a, [cmd[a] EXCEPT !.at = IF cmd[a].do = "reset" THEN "record" ELSE "mark"])
Mark(a) ==
  /\ cmd[a].at = "mark" /\ format' = "canonical" /\ Goes(a, AfterFormat[cmd[a].do])
  /\ UNCHANGED <<rows, method>>

\* Mutant: a switch of the method leaves the rows.
SwitchOnly(a) ==
  LET mine == cmd[a].method IN
  /\ cmd[a].at = "method" /\ UNCHANGED <<rows, format>> /\ method' = mine
  /\ Overtaking(a, [cmd[a] EXCEPT !.at = "serving", !.under = mine])

\* ReconcileFingerprintMethod: a method of its own is fine; over another's rows it refuses
\* or, if asked, purges.  What it makes of an empty table or of no method is not relied on.
ReconcileMethod(a) ==
  LET mine    == cmd[a].method
      serving == [cmd[a] EXCEPT !.at = "serving", !.under = mine]
  IN /\ cmd[a].at = "method" /\ UNCHANGED format
     /\ \/ method = mine /\ To(a, serving) /\ UNCHANGED <<rows, method>>
        \/ /\ method # mine /\ (Present = {} \/ method = "none")
           /\ method' = mine /\ Overtaking(a, serving) /\ UNCHANGED rows
        \/ /\ method # mine /\ cmd[a].reset
           /\ method' = mine /\ Overtaking(a, serving) /\ rows' = Empty
        \/ method # mine /\ Ends(a) /\ UNCHANGED <<rows, method>>

\* cmdReset: the method to record afterwards, and recording it.
KeepMethod(a) ==
  cmd[a].at = "keep" /\ To(a, [cmd[a] EXCEPT !.at = "purge", !.method = method]) /\ UNCHANGED Table
RecordMethod(a) ==
  /\ cmd[a].at = "record" /\ Ends(a) /\ UNCHANGED <<rows, format>>
  /\ method' = IF cmd[a].method = "none" THEN method ELSE cmd[a].method

-----------------------------------------------------------------------------
(* The rows.                                                                *)

\* The prune timer: the row cap may take rows that are not approved.
Prune(a) ==
  /\ cmd[a].at = "serving" /\ UNCHANGED <<format, method, cmd>>
  /\ \E gone \in SUBSET (Present \ Approved) :
       rows' = [f \in Fps |-> IF f \in gone THEN NoRow ELSE rows[f]]

\* A client is seen; the cap may take other rows.
Observe(a) ==
  /\ cmd[a].at = "serving" /\ UNCHANGED <<format, method, cmd>>
  /\ \E f \in (Fps \ Old) \ Present, gone \in SUBSET (Present \ Approved) :
       /\ MethodOf[f] = cmd[a].method
       /\ rows' = [g \in Fps |->
            IF g = f THEN [status |-> "pending", label |-> "none", under |-> cmd[a].under,
                           raced |-> cmd[a].raced]
            ELSE IF g \in gone THEN NoRow ELSE rows[g]]

\* SetStatus and SetLabel fail on a row that is not there.
SetStatus(a) ==
  LET f == cmd[a].fp IN
  /\ cmd[a].at = "status" /\ UNCHANGED <<format, method>>
  /\ IF f \notin Present THEN Ends(a) /\ UNCHANGED rows
     ELSE /\ rows' = [rows EXCEPT ![f].status = cmd[a].status]
          /\ IF cmd[a].named THEN Goes(a, "name") ELSE Ends(a)
SetLabel(a) ==
  LET f == cmd[a].fp IN
  /\ cmd[a].at = "name" /\ UNCHANGED <<format, method>>
  /\ IF f \notin Present THEN Ends(a) /\ UNCHANGED rows
     ELSE rows' = [rows EXCEPT ![f].label = "given"] /\ Late(a, f, Idle)

\* UpsertStatus, with a label or without: then an old one may stay.
UpsertStatus(a) ==
  LET f == cmd[a].fp IN
  /\ cmd[a].at = "upsert" /\ UNCHANGED <<format, method>> /\ Late(a, f, Idle)
  /\ \E label \in IF cmd[a].named THEN {"given"} ELSE {"none", rows[f].label} :
       rows' = [rows EXCEPT ![f] = [status |-> cmd[a].status, label |-> label,
                                    under |-> cmd[a].under, raced |-> cmd[a].raced]]

\* Mutant: the label is not copied.
GetStatus(a) ==
  LET f == cmd[a].fp IN
  /\ cmd[a].at = "get" /\ UNCHANGED Table
  /\ IF f \notin Present /\ ~cmd[a].register THEN Ends(a)
     ELSE To(a, [cmd[a] EXCEPT !.at = "apply",
                               !.under = IF cmd[a].register THEN @ ELSE rows[f].under])

\* approveWithScope: the row is read for its label, and written whole.
Get(a) ==
  LET f == cmd[a].fp IN
  /\ cmd[a].at = "get" /\ UNCHANGED Table
  /\ IF f \notin Present /\ ~cmd[a].register THEN Ends(a)
     ELSE To(a, [cmd[a] EXCEPT !.at = "apply", !.label = rows[f].label,
                               !.under = IF cmd[a].register THEN @ ELSE rows[f].under])
ApplyDecisions(a) ==
  LET f     == cmd[a].fp
      label == IF cmd[a].named \/ cmd[a].label = "given" THEN "given"
               ELSE IF rows[f].label = "none" \/ cmd[a].late THEN "none" ELSE "lost"
      revived == f \notin Present /\ ~cmd[a].register
  IN /\ cmd[a].at = "apply" /\ UNCHANGED <<format, method>> /\ Late(a, f, Idle)
     /\ rows' = [rows EXCEPT ![f] = [status |-> "approved", label |-> label, under |-> cmd[a].under,
                                     raced |-> cmd[a].raced \/ rows[f].raced \/ revived]]

Delete(a) ==
  LET f == cmd[a].fp IN
  /\ cmd[a].at = "delete" /\ rows' = [rows EXCEPT ![f] = NoRow] /\ Late(a, f, Idle)
  /\ UNCHANGED <<format, method>>

-----------------------------------------------------------------------------
Command(a) ==
  \/ \E f \in Fps, named \in BOOLEAN :
       \/ Approve(a, f, named) \/ Block(a, f, named)
       \/ \E status \in {"approved", "blocked"} : Register(a, f, status, named)
       \/ \E register \in BOOLEAN : ApproveScoped(a, f, named, register)
  \/ \E f \in Fps : LabelIt(a, f) \/ DeleteIt(a, f)
  \/ \E m \in Methods \cup {"none"} : Reset(a, m)
  \/ \E m \in Methods, reset \in BOOLEAN : Serve(a, m, reset)

Call(a) ==
  \/ Validate(a) \/ GetFormat(a) \/ LastFingerprint(a) \/ ResetFingerprints(a) \/ Mark(a)
  \/ ReconcileMethod(a) \/ KeepMethod(a) \/ RecordMethod(a)
  \/ Prune(a) \/ Observe(a) \/ SetStatus(a) \/ SetLabel(a) \/ UpsertStatus(a) \/ Get(a) \/ ApplyDecisions(a)
  \/ Delete(a)

Next == \E a \in Actors : Command(a) \/ Call(a) \/ Quits(a)

Spec == Init /\ [][Next]_vars

-----------------------------------------------------------------------------
(* Properties.                                                              *)

Settled == {f \in Present : ~rows[f].raced}

\* The format marker tells old keys from canonical ones, through resets that crash between
\* purging and marking: a stored decision is never reinterpreted (it would be if old keys stood
\* under the marker) and the next start is refused only over old keys (it would be refused
\* over new ones without it).  The exception is a row that a command wrote which a reset has
\* overtaken: approve --ranges puts back the old row that it had read.
MarkerTellsFormat == \A f \in Settled : f \in Old <=> format = "none"

\* Rows are keys of the recorded method, whatever is registered, seen, switched or reset beside,
\* and whichever of it crashes.  The exceptions: who was overtaken by a reset or a switch,
\* such as a process that goes on serving with the method before it, and what was
\* written before any method was recorded.
MethodTellsKeys ==
  \A f \in Settled : rows[f].under # "none" => MethodOf[f] = method

\* An approval with ranges writes its row whole, but the label survives, unless it
\* was given after the approval had read the row.
LabelSurvives == \A f \in Fps : rows[f].label # "lost"
=============================================================================
