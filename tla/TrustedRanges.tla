--------------------------- MODULE TrustedRanges ----------------------------
(***************************************************************************)
(* Trusted ranges on their way from Gatehub to the fail2ban whitelist of   *)
(* Mailcow: each process applies what a sync fetched to its allowlist and  *)
(* publishes it in one file; the script mailcow-f2b-trusted-sync copies    *)
(* the file into a Redis hash that the Mailcow UI rewrites, and keeps the  *)
(* names of the entries it has added in a state file.  Processes fail,     *)
(* restart and hand over; the script is cut short; writes fail.            *)
(***************************************************************************)
EXTENDS Integers, FiniteSets

CONSTANTS
  Procs,       \* processes; one that has gone may be started again
  Ranges,      \* ranges, and entries of the whitelist
  Policies,    \* sets of ranges Gatehub may publish
  Broad,       \* ranges the script refuses
  MaxEntries,  \* --max-entries
  Handoff      \* whether a process may be started beside another

ASSUME RangesAssumption ==
  /\ IsFiniteSet(Ranges)
  /\ Policies \subseteq SUBSET Ranges
  /\ Broad \subseteq Ranges
  /\ MaxEntries \in Nat
  /\ Handoff \in BOOLEAN

VARIABLES
  hub,        \* what Gatehub publishes
  phase,      \* per process: whether its background tasks run
  dynamic,    \* per process: ipAllowlist.dynamic, and dynamicInitialized
  dirty,      \* per process: trustedRangesWriter.dirty
  sync,       \* per process: how far its sync has got, with which ranges
  file,       \* trusted_ranges_file
  whitelist,  \* F2B_WHITELIST
  managed,    \* the script's state file
  script,     \* how far a run of the script has got, and what it has planned
  emptied,    \* history: Gatehub has published that nothing is trusted
  own,        \* history: names the script has added and not given up since
  origin,     \* history: who put each entry in its place, the script or the UI
  orphans     \* history: entries added by a run that was cut short

procVars == <<phase, dynamic, dirty, sync>>
scriptVars == <<whitelist, managed, script, own, origin, orphans>>
vars == <<hub, file, emptied, procVars, scriptVars>>

\* A set of ranges that may not be known.
Unknown == [known |-> FALSE, ranges |-> {}]
Known(ranges) == [known |-> TRUE, ranges |-> ranges]

Idle == [at |-> "idle", ranges |-> {}]
NoRun == [at |-> "idle", ranges |-> {}, add |-> {}, remove |-> {}, new |-> {}]

Init ==
  /\ hub \in Policies
  /\ phase = [p \in Procs |-> "gone"]
  /\ dynamic = [p \in Procs |-> Unknown]
  /\ dirty = [p \in Procs |-> FALSE]
  /\ sync = [p \in Procs |-> Idle]
  /\ file = Unknown
  /\ whitelist \in SUBSET Ranges
  /\ managed = {}
  /\ script = NoRun
  /\ emptied = (hub = {})
  /\ own = {}
  /\ origin = [r \in Ranges |-> "ui"]
  /\ orphans = {}

Publish(ranges) ==
  /\ hub' = ranges
  /\ emptied' = (emptied \/ ranges = {})
  /\ UNCHANGED <<file, procVars, scriptVars>>

-----------------------------------------------------------------------------
(* A process.                                                              *)

\* Mutant: the file is written at the start.
StartPublishes(p) ==
  /\ phase[p] = "gone"
  /\ Handoff \/ \A q \in Procs : phase[q] = "gone"
  /\ phase' = [phase EXCEPT ![p] = "running"]
  /\ file' = Known({})
  /\ UNCHANGED <<hub, emptied, dynamic, dirty, sync, scriptVars>>

Start(p) ==
  /\ phase[p] = "gone"
  /\ Handoff \/ \A q \in Procs : phase[q] = "gone"
  /\ phase' = [phase EXCEPT ![p] = "running"]
  /\ UNCHANGED <<hub, file, emptied, dynamic, dirty, sync, scriptVars>>

\* stopBackground: no further sync starts, one under way goes on.
Stop(p) ==
  /\ phase[p] = "running"
  /\ phase' = [phase EXCEPT ![p] = "draining"]
  /\ UNCHANGED <<hub, file, emptied, dynamic, dirty, sync, scriptVars>>

\* A sync; one that fails, or brings a range that cannot be parsed, changes nothing.
Fetch(p) ==
  /\ phase[p] = "running" /\ sync[p] = Idle
  /\ sync' = [sync EXCEPT ![p] = [at |-> "fetched", ranges |-> hub]]
  /\ UNCHANGED <<hub, file, emptied, phase, dynamic, dirty, scriptVars>>

\* Mutant: only changed ranges are written.
ApplyIfChanged(p) ==
  /\ sync[p].at = "fetched"
  /\ LET new == Known(sync[p].ranges) IN
     /\ dynamic' = [dynamic EXCEPT ![p] = new]
     /\ sync' = [sync EXCEPT ![p] = IF dynamic[p] # new
                                    THEN [@ EXCEPT !.at = "writing"] ELSE Idle]
  /\ UNCHANGED <<hub, file, emptied, phase, dirty, scriptVars>>

\* replaceDynamic, and whether update has something to write: new ranges or those of
\* a write that failed.
Apply(p) ==
  /\ sync[p].at = "fetched"
  /\ LET new == Known(sync[p].ranges) IN
     /\ dynamic' = [dynamic EXCEPT ![p] = new]
     /\ sync' = [sync EXCEPT ![p] = IF dynamic[p] # new \/ dirty[p]
                                    THEN [@ EXCEPT !.at = "writing"] ELSE Idle]
  /\ UNCHANGED <<hub, file, emptied, phase, dirty, scriptVars>>

\* The temporary file is complete and renamed, or something on the way fails.
Replace(p) ==
  /\ sync[p].at = "writing"
  /\ file' = Known(sync[p].ranges)
  /\ dirty' = [dirty EXCEPT ![p] = FALSE]
  /\ sync' = [sync EXCEPT ![p] = Idle]
  /\ UNCHANGED <<hub, emptied, phase, dynamic, scriptVars>>

WriteFails(p) ==
  /\ sync[p].at = "writing"
  /\ dirty' = [dirty EXCEPT ![p] = TRUE]
  /\ sync' = [sync EXCEPT ![p] = Idle]
  /\ UNCHANGED <<hub, file, emptied, phase, dynamic, scriptVars>>

Exit(p) ==
  /\ phase[p] # "gone"
  /\ phase' = [phase EXCEPT ![p] = "gone"]
  /\ dynamic' = [dynamic EXCEPT ![p] = Unknown]
  /\ dirty' = [dirty EXCEPT ![p] = FALSE]
  /\ sync' = [sync EXCEPT ![p] = Idle]
  /\ UNCHANGED <<hub, file, emptied, scriptVars>>

-----------------------------------------------------------------------------
(* The script.                                                             *)

\* main: the file is there and its ranges are neither too broad nor too many.
Read ==
  /\ script.at = "idle" /\ file.known
  /\ file.ranges \cap Broad = {} /\ Cardinality(file.ranges) <= MaxEntries
  /\ script' = [NoRun EXCEPT !.at = "read", !.ranges = file.ranges]
  /\ UNCHANGED <<hub, file, emptied, procVars, whitelist, managed, own, origin, orphans>>

\* Mutant: what is no longer trusted stays on record.
PlanForgetsNothing ==
  /\ script.at = "read"
  /\ script' = [at |-> "apply", ranges |-> script.ranges,
                add |-> script.ranges \ whitelist,
                remove |-> (managed \ script.ranges) \cap whitelist,
                new |-> managed \cup (script.ranges \ whitelist)]
  /\ UNCHANGED <<hub, file, emptied, procVars, whitelist, managed, own, origin, orphans>>

\* plan, on the whitelist and the state of this moment.
Plan ==
  /\ script.at = "read"
  /\ script' = [at |-> "apply", ranges |-> script.ranges,
                add |-> script.ranges \ whitelist,
                remove |-> (managed \ script.ranges) \cap whitelist,
                new |-> (managed \cup (script.ranges \ whitelist)) \cap script.ranges]
  /\ UNCHANGED <<hub, file, emptied, procVars, whitelist, managed, own, origin, orphans>>

\* sync: one entry after the other is added, then removed.  What somebody has typed in
\* since the whitelist was read is set once more.
Add(r) ==
  /\ script.at = "apply" /\ r \in script.add
  /\ whitelist' = whitelist \cup {r}
  /\ own' = own \cup {r}
  /\ origin' = [origin EXCEPT ![r] = IF r \in whitelist THEN @ ELSE "script"]
  /\ script' = [script EXCEPT !.add = @ \ {r}]
  /\ UNCHANGED <<hub, file, emptied, procVars, managed, orphans>>

Remove(r) ==
  /\ script.at = "apply" /\ script.add = {} /\ r \in script.remove
  /\ whitelist' = whitelist \ {r}
  /\ script' = [script EXCEPT !.remove = @ \ {r}]
  /\ UNCHANGED <<hub, file, emptied, procVars, managed, own, origin, orphans>>

\* Mutant: the state is saved before the old entries are removed.
SaveEarly ==
  /\ script.at = "apply" /\ script.add = {}
  /\ managed' = script.new
  /\ own' = own \cap script.ranges
  /\ script' = [script EXCEPT !.at = IF script.remove = {} THEN "idle" ELSE "apply"]
  /\ orphans' = orphans \ script.new
  /\ UNCHANGED <<hub, file, emptied, procVars, whitelist, origin>>

\* A run that is through gives up the names that are not trusted.
Save ==
  /\ script.at = "apply" /\ script.add = {} /\ script.remove = {}
  /\ managed' = script.new
  /\ own' = own \cap script.ranges
  /\ script' = NoRun
  /\ orphans' = orphans \ script.new
  /\ UNCHANGED <<hub, file, emptied, procVars, whitelist, origin>>

\* Killed, refused by Redis, or unable to save: what it has added is not recorded.
Cut ==
  /\ script.at # "idle"
  /\ script' = NoRun
  /\ orphans' = orphans \cup ((script.new \ managed) \ script.add)
  /\ UNCHANGED <<hub, file, emptied, procVars, whitelist, managed, own, origin>>

\* The UI saves what its form holds: entries typed in, entries lost.
UiSaves(entries) ==
  /\ whitelist' = entries
  /\ origin' = [r \in Ranges |-> IF r \in entries \ whitelist THEN "ui" ELSE origin[r]]
  /\ UNCHANGED <<hub, file, emptied, procVars, managed, script, own, orphans>>

ProcStep(p) ==
  \/ Start(p) \/ Stop(p) \/ Exit(p)
  \/ Fetch(p) \/ Apply(p) \/ Replace(p) \/ WriteFails(p)

ScriptStep ==
  \/ Read \/ Plan \/ Save \/ Cut
  \/ \E r \in Ranges : Add(r) \/ Remove(r)

Next ==
  \/ \E ranges \in Policies : Publish(ranges)
  \/ \E p \in Procs : ProcStep(p)
  \/ ScriptStep
  \/ \E entries \in SUBSET Ranges : UiSaves(entries)

Spec == Init /\ [][Next]_vars

-----------------------------------------------------------------------------
TypeOK ==
  /\ hub \in Policies
  /\ phase \in [Procs -> {"gone", "running", "draining"}]
  /\ dynamic \in [Procs -> [known : BOOLEAN, ranges : SUBSET Ranges]]
  /\ dirty \in [Procs -> BOOLEAN]
  /\ sync \in [Procs -> [at : {"idle", "fetched", "writing"}, ranges : SUBSET Ranges]]
  /\ file \in [known : BOOLEAN, ranges : SUBSET Ranges]
  /\ whitelist \subseteq Ranges /\ managed \subseteq Ranges
  /\ script \in [at : {"idle", "read", "apply"}, ranges : SUBSET Ranges,
                 add : SUBSET Ranges, remove : SUBSET Ranges, new : SUBSET Ranges]
  /\ script.add \cap script.remove = {} /\ script.new \subseteq script.ranges
  /\ emptied \in BOOLEAN
  /\ own \subseteq Ranges /\ orphans \subseteq Ranges
  /\ origin \in [Ranges -> {"script", "ui"}]

\* A failed write does not leave the file stale: a sync that finds nothing to write finds
\* the file in step.
FileInStep ==
  [][\A p \in Procs :
       sync[p].at = "fetched" /\ sync'[p] = Idle /\ dynamic'[p].known =>
         file' = dynamic'[p]]_vars

\* The file follows Gatehub: a process with no sync under way and no failed write to
\* repeat, settled on what Gatehub publishes, with no other process left, finds it in
\* the file.
FileFollowsHub ==
  \A p \in Procs :
    /\ phase[p] = "running" /\ sync[p] = Idle /\ ~dirty[p] /\ dynamic[p] = Known(hub)
    /\ \A q \in Procs \ {p} : phase[q] = "gone"
    => file = Known(hub)

\* The file says that nothing is trusted only if Gatehub has said so, whatever is not
\* yet known when a process starts.
EmptyIsPublished == file.known /\ file.ranges = {} => emptied

\* The script removes only entries under names it has added itself since it last gave
\* them up: a range that was trusted once and is no more is forgotten, and not removed
\* when somebody types it in later.  Who has put in the entry under such a name is
\* another matter.
OnlyOwnRemoved == [][script' # script => whitelist \ whitelist' \subseteq own]_vars

\* "Manual entries are never touched": whatever the script removes it has put there.
ManualEntriesStay ==
  [][script' # script => \A r \in whitelist \ whitelist' : origin[r] = "script"]_vars

\* What the script has added and not removed is on record as its own, so that it can be
\* removed, unless the run that added it was cut short.
NothingStranded ==
  script.at = "idle" =>
    \A r \in whitelist : origin[r] = "script" => r \in managed \cup orphans
=============================================================================
