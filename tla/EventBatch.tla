----------------------------- MODULE EventBatch ------------------------------
(***************************************************************************)
(* bounded_lines and select_events of mx-smtp-correlate.py: the rotated    *)
(* event files and the active one are read one after the other, the oldest *)
(* first, while they are written and rotated; the sessions that are whole  *)
(* are kept.                                                               *)
(***************************************************************************)
EXTENDS SmtpEvents

CONSTANT Keep  \* how many rotated files are read, 7 in the code

ASSUME KeepAssumption == Keep \in Nat

VARIABLES
  reading, \* "yes", then "done" or "refused"
  next,    \* which file is next: the next-th before the active one
  lines    \* what has been read

vars == <<evVars, reading, next, lines>>

Init == EvInit /\ reading = "yes" /\ next = Keep /\ lines = <<>>

\* Mutant: the active file is read first.
NewestFirst(n) == path - (Keep - n)

\* The file that is n-th before the active one, now.
Before(n) == path - n

\* bounded_lines, one file: the incomplete last line of the active one is cut off, in a
\* rotated one it is an error.  Files that do not exist are skipped.
Read ==
  /\ reading = "yes" /\ next >= 0 /\ next' = next - 1 /\ UNCHANGED evVars
  /\ LET f     == Before(next)
         found == IF f \in Files THEN file[f] ELSE <<>>
         short == found # <<>> /\ Last(found).torn
     IN \/ ~short /\ lines' = lines \o found /\ UNCHANGED reading
        \/ short /\ f = path /\ lines' = lines \o Front(found) /\ UNCHANGED reading
        \/ short /\ f # path /\ reading' = "refused" /\ UNCHANGED lines

\* A line that is no event refuses the batch.
Parse ==
  /\ reading = "yes" /\ next < 0 /\ UNCHANGED <<evVars, next, lines>>
  /\ reading' = IF \A i \in DOMAIN lines : Valid(lines[i]) THEN "done" ELSE "refused"

Next == (EvNext /\ UNCHANGED <<reading, next, lines>>) \/ Read \/ Parse

Spec == Init /\ [][Next]_vars

\* select_events: the sessions of which both the first and the last event are there.
Selected ==
  {s \in Sessions : \A k \in {1, Len(Types)} : \E l \in ToSet(lines) : EventOf(l) = <<s, k>>}

-----------------------------------------------------------------------------
(* Properties.                                                              *)

\* A batch holds every event at most once, though files are renamed while they are read,
\* and what it keeps are sessions that have ended, whose lines it has in order.
BatchIsSound ==
  /\ \A i, j \in DOMAIN lines : i # j /\ Valid(lines[i]) => lines[i] # lines[j]
  /\ reading = "done" =>
       \A s \in Selected :
         /\ session[s] = Len(Types)
         /\ \A i, j \in DOMAIN lines :
              EventOf(lines[i]) = <<s, 1>> /\ EventOf(lines[j]) = <<s, Len(Types)>> => i < j
=============================================================================
