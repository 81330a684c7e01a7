------------------------- MODULE TrustedRangesProofs -------------------------
(***************************************************************************)
(* Proofs for module TrustedRanges: for any processes, any ranges and any  *)
(* policies, what the file says and what the script may take away; and,    *)
(* for one process after the other, that the file is what the allowlist    *)
(* is.                                                                     *)
(***************************************************************************)
EXTENDS TrustedRanges, TLAPS

-----------------------------------------------------------------------------
(* Types.                                                                   *)

LEMMA InitTypes == Init => TypeOK
  BY RangesAssumption DEF Init, TypeOK, Unknown, Idle, NoRun

LEMMA ProcStepTypes ==
  ASSUME TypeOK, NEW p \in Procs, ProcStep(p)
  PROVE  TypeOK'
  <1>1. CASE Start(p) \/ Stop(p) \/ Exit(p)
    <2>1. CASE Start(p)
      BY <2>1 DEF Start, TypeOK, scriptVars, Unknown, Idle
    <2>2. CASE Stop(p)
      BY <2>2 DEF Stop, TypeOK, scriptVars, Unknown, Idle
    <2>3. CASE Exit(p)
      BY <2>3 DEF Exit, TypeOK, scriptVars, Unknown, Idle
    <2> QED BY <1>1, <2>1, <2>2, <2>3
  <1>2. CASE Fetch(p)
    BY <1>2, RangesAssumption DEF Fetch, TypeOK, scriptVars
  <1>3. CASE Apply(p)
    BY <1>3 DEF Apply, TypeOK, scriptVars, Known, Idle
  <1>4. CASE Replace(p) \/ WriteFails(p)
    <2>1. CASE Replace(p)
      BY <2>1 DEF Replace, TypeOK, scriptVars, Known, Idle
    <2>2. CASE WriteFails(p)
      BY <2>2 DEF WriteFails, TypeOK, scriptVars, Known, Idle
    <2> QED BY <1>4, <2>1, <2>2
  <1> QED BY <1>1, <1>2, <1>3, <1>4 DEF ProcStep

LEMMA ScriptStepTypes ==
  ASSUME TypeOK, ScriptStep
  PROVE  TypeOK'
  <1>1. CASE Read
    BY <1>1 DEF Read, TypeOK, procVars, NoRun
  <1>2. CASE Plan
    BY <1>2 DEF Plan, TypeOK, procVars
  <1>3. CASE Save \/ Cut
    BY <1>3 DEF Save, Cut, TypeOK, procVars, NoRun
  <1>4. ASSUME NEW r \in Ranges, Add(r) PROVE TypeOK'
    BY <1>4 DEF Add, TypeOK, procVars
  <1>5. ASSUME NEW r \in Ranges, Remove(r) PROVE TypeOK'
    BY <1>5 DEF Remove, TypeOK, procVars
  <1> QED BY <1>1, <1>2, <1>3, <1>4, <1>5 DEF ScriptStep

LEMMA NextTypes == TypeOK /\ [Next]_vars => TypeOK'
  <1> SUFFICES ASSUME TypeOK, [Next]_vars PROVE TypeOK'
    OBVIOUS
  <1>1. ASSUME NEW ranges \in Policies, Publish(ranges) PROVE TypeOK'
    BY <1>1 DEF Publish, TypeOK, procVars, scriptVars
  <1>2. ASSUME NEW entries \in SUBSET Ranges, UiSaves(entries) PROVE TypeOK'
    BY <1>2 DEF UiSaves, TypeOK, procVars
  <1>3. CASE UNCHANGED vars
    BY <1>3 DEF vars, procVars, scriptVars, TypeOK
  <1> QED BY <1>1, <1>2, <1>3, ProcStepTypes, ScriptStepTypes DEF Next

-----------------------------------------------------------------------------
(* The file.  Nothing on the way from Gatehub to it makes a set empty.      *)

EmptyInv ==
  /\ hub = {} => emptied
  /\ \A p \in Procs : sync[p].at # "idle" /\ sync[p].ranges = {} => emptied
  /\ EmptyIsPublished

\* A process that has gone has forgotten what it knew.  One that knows what is trusted has it in
\* the file, is writing it, or knows that it has not written it; nobody else writes.
InStep(p) ==
  /\ phase[p] = "gone" => sync[p] = Idle /\ dynamic[p] = Unknown /\ ~dirty[p]
  /\ sync[p].at = "writing" => dynamic[p] = Known(sync[p].ranges)
  /\ dynamic[p].known /\ ~dirty[p] /\ sync[p].at # "writing" => file = dynamic[p]

Alone == \A p, q \in Procs : p # q => phase[p] = "gone" \/ phase[q] = "gone"

FileInv ==
  /\ EmptyInv
  /\ ~Handoff => Alone /\ \A p \in Procs : InStep(p)

LEMMA ProcStepFile ==
  ASSUME TypeOK, FileInv, NEW p \in Procs, ProcStep(p)
  PROVE  FileInv'
  <1>0. TypeOK'
    BY ProcStepTypes
  <1>1. EmptyInv'
    <2>1. CASE Start(p) \/ Stop(p) \/ Exit(p)
      <3>1. CASE Start(p)
        BY <3>1 DEF Start, FileInv, EmptyInv, EmptyIsPublished, TypeOK, Idle
      <3>2. CASE Stop(p)
        BY <3>2 DEF Stop, FileInv, EmptyInv, EmptyIsPublished, TypeOK, Idle
      <3>3. CASE Exit(p)
        BY <3>3 DEF Exit, FileInv, EmptyInv, EmptyIsPublished, TypeOK, Idle
      <3> QED BY <2>1, <3>1, <3>2, <3>3
    <2>2. CASE Fetch(p) \/ Apply(p)
      <3>1. CASE Fetch(p)
        BY <3>1 DEF Fetch, FileInv, EmptyInv, EmptyIsPublished, TypeOK, Idle
      <3>2. CASE Apply(p)
        BY <3>2 DEF Apply, FileInv, EmptyInv, EmptyIsPublished, TypeOK, Idle
      <3> QED BY <2>2, <3>1, <3>2
    <2>3. CASE Replace(p) \/ WriteFails(p)
      BY <2>3 DEF Replace, WriteFails, FileInv, EmptyInv, EmptyIsPublished, TypeOK, Idle, Known
    <2> QED BY <2>1, <2>2, <2>3 DEF ProcStep
  <1>2. ASSUME ~Handoff
        PROVE  Alone' /\ \A q \in Procs : InStep(q)'
    <2>1. Alone'
      BY <1>2 DEF ProcStep, FileInv, Alone, TypeOK, Start, Stop, Exit, Fetch, Apply, Replace,
                  WriteFails, procVars
    <2>2. ASSUME NEW q \in Procs \ {p}
          PROVE  InStep(q)'
      <3>0. InStep(q)
        BY <1>2 DEF FileInv
      <3>1. CASE Start(p) \/ Stop(p) \/ Exit(p)
        BY <3>0, <3>1 DEF Start, Stop, Exit, InStep, TypeOK
      <3>2. CASE Fetch(p) \/ Apply(p)
        BY <3>0, <3>2 DEF Fetch, Apply, InStep, TypeOK
      <3>3. CASE WriteFails(p)
        BY <3>0, <3>3 DEF WriteFails, InStep, TypeOK
      <3>4. CASE Replace(p)
        <4>1. phase[p] # "gone"
          BY <1>2, <3>4 DEF FileInv, InStep, Replace, Idle
        <4>2. phase[q] = "gone"
          BY <1>2, <4>1 DEF FileInv, Alone
        <4> QED BY <3>0, <3>4, <4>2 DEF Replace, InStep, TypeOK, Unknown
      <3> QED BY <3>1, <3>2, <3>3, <3>4 DEF ProcStep
    <2>3. InStep(p)'
      <3>0. InStep(p)
        BY <1>2 DEF FileInv
      <3>1. CASE Start(p) \/ Stop(p) \/ Exit(p)
        <4>1. CASE Start(p)
          BY <3>0, <4>1 DEF Start, InStep, TypeOK, Unknown, Idle
        <4>2. CASE Stop(p)
          BY <3>0, <4>2 DEF Stop, InStep, TypeOK, Unknown, Idle
        <4>3. CASE Exit(p)
          BY <3>0, <4>3 DEF Exit, InStep, TypeOK, Unknown, Idle
        <4> QED BY <3>1, <4>1, <4>2, <4>3
      <3>2. CASE Fetch(p)
        BY <3>0, <3>2 DEF Fetch, InStep, TypeOK, Idle
      <3>3. CASE Apply(p)
        <4>1. sync[p].at = "fetched" /\ phase[p] # "gone" /\ phase' = phase /\ file' = file
          BY <3>0, <3>3 DEF Apply, InStep, Idle
        <4>2. dynamic'[p] = Known(sync[p].ranges) /\ dirty' = dirty
          BY <3>3 DEF Apply, TypeOK
        <4>3. CASE dynamic[p] # Known(sync[p].ranges) \/ dirty[p]
          <5>1. sync'[p] = [sync[p] EXCEPT !.at = "writing"]
            BY <3>3, <4>3 DEF Apply, TypeOK
          <5>2. sync'[p].at = "writing" /\ sync'[p].ranges = sync[p].ranges
            BY <5>1 DEF TypeOK
          <5> QED BY <4>1, <4>2, <5>2 DEF InStep
        <4>4. CASE dynamic[p] = Known(sync[p].ranges) /\ ~dirty[p]
          <5>1. sync'[p] = Idle
            BY <3>3, <4>4 DEF Apply, TypeOK
          <5>2. file = dynamic[p]
            BY <3>0, <4>1, <4>4 DEF InStep, Known
          <5> QED BY <4>1, <4>2, <4>4, <5>1, <5>2 DEF InStep, Idle
        <4> QED BY <4>3, <4>4
      <3>4. CASE Replace(p) \/ WriteFails(p)
        <4>1. CASE Replace(p)
          BY <3>0, <4>1 DEF Replace, InStep, TypeOK, Idle, Known
        <4>2. CASE WriteFails(p)
          BY <3>0, <4>2 DEF WriteFails, InStep, TypeOK, Idle, Known
        <4> QED BY <3>4, <4>1, <4>2
      <3> QED BY <3>1, <3>2, <3>3, <3>4 DEF ProcStep
    <2> QED BY <2>1, <2>2, <2>3
  <1> QED BY <1>1, <1>2 DEF FileInv

LEMMA NextFile == TypeOK /\ FileInv /\ [Next]_vars => FileInv'
  <1> SUFFICES ASSUME TypeOK, FileInv, [Next]_vars PROVE FileInv'
    OBVIOUS
  <1>1. CASE UNCHANGED <<file, emptied, procVars>> /\ UNCHANGED hub
    BY <1>1 DEF procVars, FileInv, EmptyInv, EmptyIsPublished, Alone, InStep
  <1>2. ASSUME NEW ranges \in Policies, Publish(ranges) PROVE FileInv'
    <2>1. EmptyInv'
      BY <1>2 DEF Publish, procVars, FileInv, EmptyInv, EmptyIsPublished, TypeOK
    <2>2. ~Handoff => Alone' /\ \A p \in Procs : InStep(p)'
      BY <1>2 DEF Publish, procVars, FileInv, Alone, InStep
    <2> QED BY <2>1, <2>2 DEF FileInv
  <1>3. ASSUME NEW entries \in SUBSET Ranges, UiSaves(entries) PROVE FileInv'
    BY <1>1, <1>3 DEF UiSaves
  <1>4. CASE ScriptStep
    BY <1>1, <1>4 DEF ScriptStep, Read, Plan, Save, Cut, Add, Remove
  <1> QED BY <1>1, <1>2, <1>3, <1>4, ProcStepFile DEF Next, vars

-----------------------------------------------------------------------------
(* The script.  What it has planned to remove, and what it will record, it  *)
(* has added itself; an entry of its own that is still in place is on       *)
(* record, will be when it saves, or is about to go.                        *)

ScriptInv ==
  /\ managed \subseteq own
  /\ script.at = "apply" =>
       /\ script.remove \subseteq managed
       /\ script.add \subseteq script.new
       /\ script.new \subseteq own \cup script.add
       /\ \A r \in whitelist : origin[r] = "script" =>
            r \notin script.add /\ r \in orphans \cup script.new \cup script.remove
  /\ script.at # "apply" =>
       \A r \in whitelist : origin[r] = "script" => r \in managed \cup orphans

LEMMA NextScript == TypeOK /\ ScriptInv /\ [Next]_vars => ScriptInv'
  <1> SUFFICES ASSUME TypeOK, ScriptInv, [Next]_vars PROVE ScriptInv'
    OBVIOUS
  <1>1. CASE UNCHANGED scriptVars
    BY <1>1 DEF scriptVars, ScriptInv
  <1>2. CASE Read
    BY <1>2 DEF Read, ScriptInv, NoRun
  <1>3. CASE Plan
    BY <1>3 DEF Plan, ScriptInv, TypeOK
  <1>4. CASE Save
    BY <1>4 DEF Save, ScriptInv, NoRun, TypeOK
  <1>5. CASE Cut
    BY <1>5 DEF Cut, ScriptInv, NoRun, TypeOK
  <1>6. ASSUME NEW r \in Ranges, Add(r) PROVE ScriptInv'
    BY <1>6 DEF Add, ScriptInv, TypeOK
  <1>7. ASSUME NEW r \in Ranges, Remove(r) PROVE ScriptInv'
    BY <1>7 DEF Remove, ScriptInv, TypeOK
  <1>8. ASSUME NEW entries \in SUBSET Ranges, UiSaves(entries) PROVE ScriptInv'
    BY <1>8 DEF UiSaves, ScriptInv, TypeOK
  <1>9. ASSUME NEW p \in Procs, ProcStep(p) PROVE ScriptInv'
    BY <1>1, <1>9 DEF ProcStep, Start, Stop, Exit, Fetch, Apply, Replace, WriteFails
  <1>10. ASSUME NEW ranges \in Policies, Publish(ranges) PROVE ScriptInv'
    BY <1>1, <1>10 DEF Publish
  <1> QED BY <1>1, <1>2, <1>3, <1>4, <1>5, <1>6, <1>7, <1>8, <1>9, <1>10 DEF Next, ScriptStep, vars

-----------------------------------------------------------------------------
(* The theorems.                                                            *)

IInv == TypeOK /\ FileInv /\ ScriptInv

LEMMA InitInv == Init => IInv
  <1> SUFFICES ASSUME Init PROVE IInv
    OBVIOUS
  <1>1. FileInv
    BY DEF Init, FileInv, EmptyInv, EmptyIsPublished, Alone, InStep, Unknown, Idle
  <1>2. ScriptInv
    BY DEF Init, ScriptInv, NoRun
  <1> QED BY <1>1, <1>2, InitTypes DEF IInv

\* The inductive invariant: types, the way of a set of ranges into the file, and the entries
\* of the script.
THEOREM Invariance == Spec => []IInv
  <1>1. IInv /\ [Next]_vars => IInv'
    BY NextTypes, NextFile, NextScript DEF IInv
  <1> QED BY <1>1, InitInv, PTL DEF Spec

\* Every range is one that may be published, and every phase one there is.
THEOREM TypeCorrect == Spec => []TypeOK
  <1>1. IInv => TypeOK
    BY DEF IInv
  <1> QED BY <1>1, Invariance, PTL

\* trustedRangesWriter: the file says that nothing is trusted only after Gatehub has said so,
\* whichever processes start, fail to write or overlap.
THEOREM EmptyOnlyIfPublished == Spec => []EmptyIsPublished
  <1>1. IInv => EmptyIsPublished
    BY DEF IInv, FileInv, EmptyInv
  <1> QED BY <1>1, Invariance, PTL

\* mailcow-f2b-trusted-sync: an entry that the script has added and that is still in place is
\* in its state file, or a run that was cut short has added it.
THEOREM NoneStranded == Spec => []NothingStranded
  <1>1. IInv => NothingStranded
    BY DEF IInv, ScriptInv, NothingStranded, TypeOK
  <1> QED BY <1>1, Invariance, PTL

\* mailcow-f2b-trusted-sync: no step of the script takes away an entry under a name that it has
\* not added itself since it last gave the name up, whatever the UI saves between planning and
\* removing.  Whoever put the entry there, it goes: run TrustedRangesManual shows one typed in.
THEOREM OwnRemoved == Spec => OnlyOwnRemoved
  <1>1. IInv /\ [Next]_vars => [script' # script => whitelist \ whitelist' \subseteq own]_vars
    <2> SUFFICES ASSUME IInv, [Next]_vars, script' # script
                 PROVE  whitelist \ whitelist' \subseteq own
      OBVIOUS
    <2>1. CASE whitelist \subseteq whitelist'
      BY <2>1
    <2>2. ASSUME NEW r \in Ranges, Remove(r) PROVE whitelist \ whitelist' \subseteq own
      BY <2>2 DEF Remove, IInv, ScriptInv
    <2> QED BY <2>1, <2>2 DEF Next, ProcStep, ScriptStep, Publish, UiSaves, Start, Stop, Exit, Fetch,
               Apply, Replace, WriteFails, Read, Plan, Save, Cut, Add, vars, scriptVars
  <1> QED BY <1>1, Invariance, PTL DEF Spec, OnlyOwnRemoved

\* update of trustedRangesWriter, as long as no process runs beside another: a sync that writes
\* nothing finds in the file what it was to write, also after writes that have failed.
THEOREM AloneInStep ==
  ASSUME ~Handoff
  PROVE  Spec => FileInStep
  <1> DEFINE Found(p) == sync[p].at = "fetched" /\ sync'[p] = Idle /\ dynamic'[p].known =>
                           file' = dynamic'[p]
  <1>1. IInv /\ [Next]_vars => [\A p \in Procs : Found(p)]_vars
    <2> SUFFICES ASSUME IInv, [Next]_vars, NEW p \in Procs, sync[p].at = "fetched", sync'[p] = Idle,
                        dynamic'[p].known
                 PROVE  file' = dynamic'[p]
      OBVIOUS
    <2>1. FileInv'
      BY NextFile DEF IInv
    <2>2. Apply(p) \/ Exit(p)
      <3>1. sync'[p] # sync[p]
        BY DEF Idle
      <3>2. PICK q \in Procs : ProcStep(q)
        BY <3>1 DEF Next, Publish, UiSaves, ScriptStep, Read, Plan, Save, Cut, Add, Remove, vars, procVars
      <3>3. q = p
        BY <3>1, <3>2 DEF IInv, TypeOK, ProcStep, Start, Stop, Exit, Fetch, Apply, Replace, WriteFails
      <3> QED BY <3>1, <3>2, <3>3 DEF ProcStep, Start, Stop, Fetch, Replace, WriteFails, Idle
    <2>3. CASE Exit(p)
      BY <2>3 DEF Exit, IInv, TypeOK, Unknown
    <2>4. CASE Apply(p)
      <3>1. ~dirty'[p]
        BY <2>4 DEF Apply, IInv, TypeOK, Idle
      <3> QED BY <2>1, <3>1 DEF FileInv, InStep, Idle
    <2> QED BY <2>2, <2>3, <2>4
  <1> QED BY <1>1, Invariance, PTL DEF Spec, FileInStep

\* The same as a state: alone, a process that has settled on what Gatehub publishes finds it in
\* the file.  Run TrustedRangesHandoff shows that beside another it may not.
THEOREM AloneFollowsHub ==
  ASSUME ~Handoff
  PROVE  Spec => []FileFollowsHub
  <1>1. IInv => FileFollowsHub
    <2> SUFFICES ASSUME IInv, NEW p \in Procs, sync[p] = Idle, ~dirty[p], dynamic[p] = Known(hub)
                 PROVE  file = Known(hub)
      BY DEF FileFollowsHub
    <2>1. InStep(p)
      BY DEF IInv, FileInv
    <2> QED BY <2>1 DEF InStep, Known, Idle
  <1> QED BY <1>1, Invariance, PTL

=============================================================================
