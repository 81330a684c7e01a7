------------------------------ MODULE Collector ------------------------------
(***************************************************************************)
(* mx-smtp-correlate.py and report-smtp: a run takes the lock, finds the   *)
(* listeners that have whole sessions, and for each makes a report, sends  *)
(* it to Gatehub and publishes it, sent or not; at the end it publishes a  *)
(* manifest.  How the sessions are read is in module EventBatch, what a    *)
(* report says in SmtpCorrelate and SmtpCampaign.                          *)
(*                                                                         *)
(* Gatehub is outside this repository: as the docs have it, it ignores a   *)
(* report it has and refuses one older than what it has.                   *)
(*                                                                         *)
(* The names of the specification begin with Runs, so that a module may    *)
(* extend this one beside SmtpSession.                                     *)
(***************************************************************************)
EXTENDS Integers

CONSTANTS
  Runs,       \* runs of the script; a run that fails is not started again
  Listeners,  \* listeners
  MaxRetries  \* len(smtpReportRetryDelays), 3 in the code

ASSUME CollectorAssumption == MaxRetries \in Nat

VARIABLES
  run,       \* each run: where it is, what is left, what became of the rest
  lock,      \* the runs that hold the lock
  clock,     \* the generation of the last report
  wire,      \* reports on their way to Gatehub
  hub,       \* the generation that Gatehub has of each listener
  local,     \* latest-*.json: its generation, of each listener
  campaign,  \* campaign-latest-*.json: its generation
  manifest   \* latest.json

runsVars == <<run, lock, clock, wire, hub, local, campaign, manifest>>

NoRun == [at |-> "idle", listeners |-> {}, todo |-> {}, gen |-> 0, retries |-> 0,
          published |-> {}, failed |-> {}]

RunsInit ==
  /\ run = [r \in Runs |-> NoRun] /\ lock = {} /\ clock = 0 /\ wire = {}
  /\ hub = [l \in Listeners |-> 0]
  /\ local = [l \in Listeners |-> 0]
  /\ campaign = [l \in Listeners |-> 0]
  /\ manifest = [gen |-> 0, listeners |-> {}, reported |-> {}]

-----------------------------------------------------------------------------
(* Beginning.                                                               *)

At(r, at)  == run[r].at = at
Go(r, new) == run' = [run EXCEPT ![r] = new]
Outside    == UNCHANGED <<wire, hub, local, campaign, manifest>>

\* Mutant: nobody looks at the lock.
BeginAnyway(r) ==
  /\ At(r, "idle") /\ Outside /\ UNCHANGED clock
  /\ Go(r, [run[r] EXCEPT !.at = "reading"]) /\ lock' = lock \cup {r}

\* flock without waiting: a run that finds the lock taken fails.
Begin(r) ==
  /\ At(r, "idle") /\ Outside /\ UNCHANGED clock
  /\ IF lock = {} THEN Go(r, [run[r] EXCEPT !.at = "reading"]) /\ lock' = {r}
     ELSE Go(r, [run[r] EXCEPT !.at = "failed"]) /\ UNCHANGED lock

Fails(r) == Go(r, [run[r] EXCEPT !.at = "failed"]) /\ lock' = lock \ {r}

\* The batch is read: it is refused, or has sessions of some listeners.
Plan(r) ==
  /\ At(r, "reading") /\ Outside
  /\ \/ Fails(r) /\ UNCHANGED clock
     \/ \E ls \in SUBSET Listeners :
          Go(r, [run[r] EXCEPT !.at = "choosing", !.gen = clock + 1, !.listeners = ls, !.todo = ls])
          /\ clock' = clock + 1 /\ UNCHANGED lock

-----------------------------------------------------------------------------
(* One listener after the other.                                            *)

\* Whose turn it is; nothing depends on which comes first.
Turn(todo) == CHOOSE l \in todo : TRUE
Current(r) == Turn(run[r].todo)

\* correlate-smtp and classify-smtp, which may fail and end the run.
Build(r) ==
  /\ At(r, "choosing") /\ run[r].todo # {} /\ Outside /\ UNCHANGED <<clock, lock>>
  /\ Go(r, [run[r] EXCEPT !.at = "sending", !.retries = 0])

BuildFails(r) ==
  At(r, "choosing") /\ run[r].todo # {} /\ Outside /\ UNCHANGED clock /\ Fails(r)

\* report-smtp does not send what it cannot read, or what is inconsistent or too large.
Withhold(r) ==
  At(r, "sending") /\ Go(r, [run[r] EXCEPT !.at = "refused"])
  /\ UNCHANGED <<lock, clock>> /\ Outside

\* postSMTPReport: the request leaves.
Post(r) ==
  /\ At(r, "sending") /\ Go(r, [run[r] EXCEPT !.at = "waiting"])
  /\ wire' = wire \cup {[listener |-> Current(r), gen |-> run[r].gen]}
  /\ UNCHANGED <<lock, clock, hub, local, campaign, manifest>>

\* Who waits for the answer to m.
Awaits(r, m) == run[r].at = "waiting" /\ run[r].gen = m.gen /\ Current(r) = m.listener

HubAnswers(m, outcome) ==
  run' = [r \in Runs |-> IF Awaits(r, m) THEN [run[r] EXCEPT !.at = outcome] ELSE run[r]]

\* Gatehub takes a report, or has a newer one and refuses it.  Nobody may be waiting any more.
Take(m) ==
  /\ m \in wire /\ wire' = wire \ {m}
  /\ IF m.gen >= hub[m.listener]
     THEN hub' = [hub EXCEPT ![m.listener] = m.gen] /\ (HubAnswers(m, "accepted") \/ UNCHANGED run)
     ELSE UNCHANGED hub /\ (HubAnswers(m, "refused") \/ UNCHANGED run)
  /\ UNCHANGED <<lock, clock, local, campaign, manifest>>

\* It is overloaded, answers that the node is not registered, or nothing arrives.
HubRefuses(m) ==
  /\ m \in wire /\ wire' = wire \ {m}
  /\ HubAnswers(m, "erring") \/ HubAnswers(m, "refused") \/ UNCHANGED run
  /\ UNCHANGED <<lock, clock, hub, local, campaign, manifest>>

\* Mutant: an answer that does not come is taken for a good one.
AssumeGood(r) ==
  At(r, "waiting") /\ Go(r, [run[r] EXCEPT !.at = "accepted"])
  /\ UNCHANGED <<lock, clock>> /\ Outside

\* The client's timeout, or the connection breaks: the report may have arrived, or arrive.
TimeOut(r) ==
  At(r, "waiting") /\ Go(r, [run[r] EXCEPT !.at = "erring"])
  /\ UNCHANGED <<lock, clock>> /\ Outside

\* Mutant: attempts are not counted.
RetryForEver(r) ==
  /\ At(r, "erring") /\ UNCHANGED <<lock, clock>> /\ Outside
  /\ Go(r, [run[r] EXCEPT !.at = "sending"])

\* uploadSMTPReport's loop: again after a retryable error, if attempts are left.
Retry(r) ==
  /\ At(r, "erring") /\ UNCHANGED <<lock, clock>> /\ Outside
  /\ Go(r, IF run[r].retries < MaxRetries
           THEN [run[r] EXCEPT !.at = "sending", !.retries = @ + 1]
           ELSE [run[r] EXCEPT !.at = "refused"])

\* Mutant: a report that was not sent is not published.
NoteOrSkip(r) ==
  /\ run[r].at \in {"accepted", "refused"} /\ UNCHANGED <<lock, clock>> /\ Outside
  /\ Go(r, IF run[r].at = "accepted"
           THEN [run[r] EXCEPT !.at = "publishing", !.published = @ \cup {Current(r)}]
           ELSE [run[r] EXCEPT !.at = "choosing", !.failed = @ \cup {Current(r)},
                               !.todo = @ \ {Current(r)}])

\* What became of the upload is noted; the report is published either way.
Note(r) ==
  /\ run[r].at \in {"accepted", "refused"} /\ UNCHANGED <<lock, clock>> /\ Outside
  /\ Go(r, [run[r] EXCEPT !.at = "publishing",
              !.published = IF run[r].at = "accepted" THEN @ \cup {Current(r)} ELSE @,
              !.failed = IF run[r].at = "refused" THEN @ \cup {Current(r)} ELSE @])

\* os.replace, twice.
Publish(r) ==
  /\ At(r, "publishing") /\ Go(r, [run[r] EXCEPT !.at = "pairing"])
  /\ local' = [local EXCEPT ![Current(r)] = run[r].gen]
  /\ UNCHANGED <<lock, clock, wire, hub, campaign, manifest>>
PublishCampaign(r) ==
  /\ At(r, "pairing") /\ Go(r, [run[r] EXCEPT !.at = "choosing", !.todo = @ \ {Current(r)}])
  /\ campaign' = [campaign EXCEPT ![Current(r)] = run[r].gen]
  /\ UNCHANGED <<lock, clock, wire, hub, local, manifest>>

\* The manifest, and the exit status.
FinishRun(r) ==
  /\ At(r, "choosing") /\ run[r].todo = {} /\ lock' = lock \ {r}
  /\ manifest' = [gen |-> run[r].gen, listeners |-> run[r].listeners,
                  reported |-> run[r].published]
  /\ Go(r, [run[r] EXCEPT !.at = IF run[r].failed = {} THEN "done" ELSE "failed"])
  /\ UNCHANGED <<clock, wire, hub, local, campaign>>

\* The run is killed.
Ended(r) == run[r].at \in {"done", "failed"}
Killed(r) == run[r].at # "idle" /\ ~Ended(r) /\ Fails(r) /\ UNCHANGED clock /\ Outside

RunStep(r) ==
  \/ Begin(r) \/ Plan(r) \/ Build(r) \/ BuildFails(r) \/ Withhold(r) \/ Post(r) \/ TimeOut(r)
  \/ Retry(r) \/ Note(r) \/ Publish(r) \/ PublishCampaign(r) \/ FinishRun(r)

RunsNext ==
  \/ \E r \in Runs : RunStep(r) \/ Killed(r)
  \/ \E m \in wire : Take(m) \/ HubRefuses(m)

\* A run goes on: every call that it makes returns.
RunsSpec ==
  /\ RunsInit /\ [][RunsNext]_runsVars
  /\ \A r \in Runs : WF_runsVars(run[r].at # "idle" /\ RunStep(r))

-----------------------------------------------------------------------------
(* Properties.                                                              *)

\* gatehub_reported in the manifest: Gatehub has that report or a newer one.
ReportedMeansStored == \A l \in manifest.reported : hub[l] >= manifest.gen

\* The manifest names no report that is older than itself, so a reader finds what it
\* promises; a run that was killed may have left newer ones.
ManifestIsBacked ==
  \A l \in manifest.listeners : local[l] >= manifest.gen /\ campaign[l] >= manifest.gen

\* What a run is done with it has published, whether Gatehub took it or not: an upload
\* that failed withholds neither its own report nor those of the other listeners.
UploadWithholdsNothing ==
  \A r \in Runs : \A l \in run[r].published \cup run[r].failed :
    l \in run[r].todo \/ (local[l] >= run[r].gen /\ campaign[l] >= run[r].gen)

\* A run ends, however Gatehub behaves.
RunEnds == \A r \in Runs : run[r].at = "reading" ~> Ended(r)
=============================================================================
