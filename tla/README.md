# tlsgate in TLA+

tlsgate is a TCP proxy that looks at the TLS ClientHello of every connection,
computes a JA3 or JA4 fingerprint, and forwards the connection to a backend, or
refuses it, by the status of that fingerprint in a shared SQLite table. For SMTP
it only observes. This directory models the program, checks the models with TLC
and proves theorems about them with TLAPS.

- [Parts of the system](#parts-of-the-system)
- [Modules](#modules)
- [Runs](#runs)
- [Disagreements between code and documentation](#disagreements-between-code-and-documentation)
- [Proofs](#proofs)
- [Not modelled](#not-modelled)
- [Plan](#plan)

`tlc -config Gate.cfg MCGate.tla` checks a run (`Serving.cfg` and `BlockedAlerts.cfg` take
about two minutes, `SmtpTraffic.cfg` one, the others less); `tlapm GateProofs.tla` checks a
proof (`SmtpTrafficProofs.tla` takes about ten minutes, `SmtpProofs.tla` five, the others
less). `PROJECT.json` lists the runs, the lines every definition stands for, the mutations
each property is known to catch, and the hazards.

## Parts of the system

| part | code | state | operations | hard because |
|---|---|---|---|---|
| TLS gate | `proxy.go` `handleConnWithScope` | one goroutine per connection with its locals | accept, read the ClientHello, decide, dial, relay | trust is read before, and the status seconds after; both are changed by others meanwhile |
| fingerprint table | gatekit `store`, `store.go`, `approval_scopes.go` | a row per fingerprint: status, label, approval ranges; a cap; two markers | `Observe`, `SetStatus`, `UpsertStatus`, `ApplyDecisions`, `Delete`, `ResetFingerprints`, `PruneToLimit` | clients, operators, the control plane and two processes during an upgrade all write it |
| operator commands | `main.go` | none, they write the table | approve, block, label, delete, reset, with `--register` and `--ranges` | several store calls per command, no transaction around them |
| trusted ranges | `alerts.go` `ipAllowlist`, `trusted_ranges_file.go` | configured and control-plane ranges; a published file and a dirty flag | `contains`, `replaceDynamic`, `update` | replaced while handlers run; two processes write one file |
| notifications | `alerts.go` `BlockedRangeAlerter`, `store.go` | sent alerts in the database, pending markers and a queue in memory | `AlertBlocked`, four workers | check, mark, queue, send and record are separate steps, any of which fails |
| relay | `proxy.go` `proxyBidirectional`, `smtp_proxy.go` | two pumps, two sockets | read, write, half-close, close | ends and errors of two directions in any order, peers that stop |
| serving | `proxy.go` `cmdServe`, `metrics.go` | listeners, global and per-route slots, counters | listen, hand over on SIGHUP, drain, exit | slots must come back on every path; the store closes under running handlers |
| SMTP observer | `smtp_proxy.go`, `smtp_behavior.go` | pending commands, DATA/BDAT/TLS modes per connection | `client`, `server` | two goroutines feed one state machine; pipelining |
| SMTP event queue | `smtp_proxy.go` `smtpEventWriter` | a bounded queue, a lock, an open file, whether it has failed | `emit`, `Close`, the writer's loop | handlers outlive the drain; two processes append to one file; rotation |
| SMTP batch tools | `smtp_correlate.go`, `smtp_campaign.go` | files in, reports out | correlate, classify | addresses, ports, process and queue ids are reused within the clocks' tolerance |
| reports | `scripts/mx-smtp-correlate.py`, `smtp_report.go` | a lock, published files, Gatehub's latest report | select, upload, publish | files rotate while they are read; answers are lost; runs are killed |
| mailcow sync | `scripts/mailcow-f2b-trusted-sync.py` | a state file and a Redis hash another program rewrites | plan, apply, save | a crash between Redis and the file |
| fingerprints, configuration, reports of text | `ja3.go`, `ja4.go`, `runtime_config.go`, `correlate.go`, `doctor.go` | none | pure functions, startup | see [Not modelled](#not-modelled) |

How they interact: the accept loop of a listener starts a handler; the handler
reads the allowlist, calls `Observe` on the table and, when it refuses a client,
asks for a notification; a forwarded connection becomes a relay. The control
plane calls back into the allowlist (`ApplyTrustedRanges`) and writes decisions
to the table; operators write the table from other processes. On SIGHUP a new
process takes over the listeners while the old one drains; the two share the
database and the published file and nothing else. SMTP connections have a
relay with an observer in it, whose events go through the queue into a file. A timer
starts the script that reads the file, has the batch tools correlate and classify what
it finds in it and in Postfix's log, sends the reports to Gatehub and publishes them.

What makes each correct, in short: a verdict is justified by what was true during
the handshake; only decisions approve; the table stays bounded; a source
is notified, not too often, and never silenced; a stream arrives whole unless a reset
or a timeout cuts it; capacity is neither exceeded nor leaked; what the observer
reports is what the session did; an ambiguous message is credited to nobody; what the
manifest of a run says of files and Gatehub is so; and the two markers in the database
tell how the keys of the table were computed, whatever command was cut short.

## Modules

| module | models | state and how it corresponds to the code |
|---|---|---|
| `FingerprintStore` | the table, as the calls in `src/` use it | a function from fingerprints to status and scope. Age is abstracted: the cap may evict any row that is not approved, except one just inserted. Whether blocking a scoped approval keeps its scope is the library's affair: both are allowed |
| `Gate` | `handleConnWithScope`, decisions, pruning, upgrade and restart | `db` the table; `dynamic` the control-plane ranges; `pc`, `req`, `wl` per handler: where it is, what its client will turn out to have sent, and the local `whitelisted`; `ordered` and `past` are history |
| `GatePromise` | what the gate promises, without a mechanism | policy is two facts that change at any time, who is trusted and what is cleared; a verdict must be justified by what held since the connection was accepted |
| `GateProofs` | proofs about `Gate` and about `Relay`, what a forwarded connection becomes; the specification of `Relay` is named `RelaySpec` so that one module can extend both | |
| `BlockedAlerts` | `AlertBlocked`, its workers and the table of sent alerts | `records` the table in insertion order; `pending` and `queue` per process; `handler`, `worker`: how far each goroutine has got with one pair of range and address; `sent` is history |
| `Relay` | `proxyBidirectional` and the closes around it | per direction: how many bytes the peer has sent, the pump has read and written, the bytes at the destination and what it has been told of the end, how the last `Read` ended, ticks since the deadline was set; `open`, `collected`: the sockets and the results received |
| `Serving` | `cmdServe`, its connection callback, `routeGuard` | per process: how far `cmdServe` has got (`phase`), the listeners it accepts on, why it was asked to leave, the limit and age of its drain; per connection: where its handler is and in which process; the counters: `global` the proxy server's slots, `sem` and `active` a route's |
| `SmtpSession` | `handleSMTPConn`, the pumps of `proxySMTPBidirectional` and `smtpObserver` between them | `obs` the observer's fields; `up`, `down`: what a pump has observed and not yet written, and what is in the socket behind or before it; `begun`: the line a read ended within; `client`, `backend`: how far each is in the protocol; `report` the end event; `seen` is history: what the pumps have read that a report may be about |
| `TrustedRanges` | `update` and its callers, `mailcow-f2b-trusted-sync.py` | per process: `phase`, `dynamic`, `dirty`, and how far its sync has got; `file` the published file; `whitelist` the Redis hash, `managed` the script's state file, `script` what a run has planned and not yet done; `emptied`, `own` (names the script has added and not given up), `origin` (who put each entry in its place), `orphans` are history |
| `SmtpEvents` | `smtpEventWriter` in a chain of processes | per process `phase`, `queue`, `closed`, `writer` and `fd`, the file it has open; `inEmit`: handlers between the check of `closed` and the send; `file`: the lines of each file, each with the events that went into it |
| `EventBatch` | `bounded_lines` and `select_events` over `SmtpEvents` | `next`, the file that is read next; `lines`, what was read |
| `SmtpCorrelate` | `correlate-smtp` | operators only: from events, log and verdicts to one result per message. Lines carry a `ghost`, where they came from, which no operator reads |
| `SmtpCampaign` | `classify-smtp` | operators only: evidence items, joined to connections and compared with the two campaigns |
| `SmtpTraffic` | what connections really do, and a batch over what is written about it | `script`, `step`: what each connection does and how far it has got; `events`, `log`, `verdicts`: what tlsgate, Postfix and the spam filter write; `batch` and `report` |
| `Collector` | `main` of `mx-smtp-correlate.py` and `report-smtp` | per `run`: where it is, the listeners to do, what became of the uploads; `lock`; `wire` and `hub`: requests under way and Gatehub's latest generations; `local`, `campaign`, `manifest`: the published files |
| `Admin` | `main.go`'s commands, `store.go`, `approval_scopes.go`, call by call | `rows` the table; `format`, `method` the markers; `cmd`: the next call of each command or serving process and what it has read |
| `BlockedAlertsProofs`, `ServingProofs`, `EventBatchProofs`, `AdminProofs`, `TrustedRangesProofs`, `SmtpTrafficProofs` | proofs about the module they are named after | |
| `SmtpProofs` | proofs about `SmtpSession` and `Collector`, the two ends of SMTP telemetry, which share no state; the specification of `Collector` is named `RunsSpec` so that one module can extend both | |
| `MCGate`, `MCBlockedAlerts`, `MCRelay`, `MCServing`, `MCSmtpSession`, `MCTrustedRanges`, `MCSmtpTraffic`, `MCEventBatch`, `MCCollector`, `MCAdmin` | the instances TLC checks | |

The step of a model is what runs between two points at which another goroutine
or process may change something the code reads: a mutex section, a database
call, a channel operation, a system call. `Gate` has one action for the
handler's start, where the allowlist is read, and one for the ClientHello, where
`Observe` and the decision on the entry it returned are one step because nothing
the decision reads is shared. A restart drops the handlers; an upgrade keeps
them, with their locals, beside a process whose dynamic ranges are empty.

`Serving` takes three things from the gatekit library, as `src/` relies on them:
the accept loop takes a slot of the process before it calls the callback and
gives it back after, `Drain` waits for the callbacks up to its limit, and a
process has at most one successor, which it learns of when the successor says it
is ready. `acquire` and `release` are two steps each, since the semaphore and the
gauge are separate atomics. What the callback does with its connection is one
step, `Handle`, that may never come: `Gate` and `Relay` model it.

`SmtpSession` has the backend answer in order, one reply for each command and for
each message, and a client that pipelines what SMTP lets it: after `DATA` and
`STARTTLS` it waits. A client that sends the body of a message before the 354
is outside it (the observer would take the body for commands), as is a backend
that answers blank lines, which the observer does not count. Every reply carries
what it answers, which only the properties look at. The sockets between a client and
its pump are left out: what the client sends is what the pump next reads.

`TrustedRanges` has one run of the script at a time, as its timer starts it, and a
process that may crash at any step. An entry the script sets again that somebody typed in
since it read the whitelist stays that somebody's (`origin`). A range is a model value: the file and the
hash hold the same canonical names. A sync that fails, or whose ranges cannot be
parsed, changes nothing and is no step. The temporary file is not a variable:
only the rename is seen.

`SmtpEvents` has a line as the set of events whose bytes are in it: an event appended
after a torn one is part of the torn line. That a write is atomic otherwise is
`O_APPEND`. A rotation renames the file, as logrotate does without `copytruncate`, and a
process keeps writing to the one it has open, until the reload that follows
(`examples/logrotate`) has handed over to a successor that opens the new one. `EventBatch` reads file by file while
this goes on; a file that is rotated between two reads may be skipped for that run.

`SmtpTraffic` composes the two batch tools with what really happened, so that their
answers can be compared with it. Postfix writes its lines with the time rounded down
to `Grain`, and the disconnect of one connection and its end event may come while the next
one on the same port is served. Its connections do a script, a sequence of steps
taken from `Scripts`; time passes before the steps in `SlowSteps`, which are those whose
times are compared. A script is one that the protocol allows (`ScriptsAssumption`): a session
is opened first, smtpd has the client before it queues or shakes hands, STARTTLS is
accepted once and the ClientHello follows it, and postscreen, where there is one, sees
every client first. A queue id holds the microsecond, so one smtpd does not use one twice
within a timestamp. Of postscreen and smtpd there are no lines but the kinds the tools read.

`Collector` takes Gatehub as the documentation describes it: it ignores a report it has
and refuses one that is older. A request under way is one element of `wire` however often
it was sent. The report upload is assumed to be switched on (`--report-gatehub`).

`Admin` interleaves commands and serving processes call by call, since no transaction
spans two calls. What the library does with a method it is not asked about in
`src/` is left open. Decisions of the control plane are in `Gate` only.

What data is abstracted: a ClientHello is a fingerprint or `Opaque` (not TLS, or
not parsed), which is all the decision reads; an address is a model value that
is or is not in a set, which is all CIDR matching yields; a message is its pair.

## Runs

| run | asks | instance | result |
|---|---|---|---|
| `gate` | does the gate keep its promise, do approvals follow decisions only, can clients grow the table? | two connections, two fingerprints, a table for one, a strict and an enrolment route, one address that may become trusted | holds |
| `alerts` | do markers mirror work in hand, are they released, are only delivered alerts recorded, does a settled pair stay quiet? | a serving process (two handlers, a worker) and a draining one, two pairs, queue and table of one, every fault | holds |
| `relay` | do bytes arrive in order, what may cut a stream, does half-close work, does it end? | one byte up, two down, a receiver that holds one, deadlines of two ticks | holds |
| `serving` | are slots kept, is the drain honoured and does it end, does a handoff leave no gap? | two processes, a route for one connection and one without a limit, three connections, a budget of two, a handoff that drains two ticks and a termination that drains one | holds |
| `smtp_session` | are replies paired with their commands, is the end event true, is an upgrade seen? | four lines or handshakes, two commands without a reply before the observer gives up, a client that may speak TLS early | holds |
| `trusted_ranges` | is a failed write repeated, is the file never emptied by a restart, does the script remove what it added and no name it has not added? | one process that restarts, two ranges of which Gatehub trusts at most one, any whitelist to begin with, any save by the UI | holds |
| `trusted_handoff` | does the file follow Gatehub over a handoff? | two processes | violated |
| `trusted_manual` | does the script leave alone what was typed into the Mailcow UI? | the instance of `trusted_ranges` | violated |
| `smtp_traffic` | is a message credited to the connection that carried it, with the right transport and verdict, and evidence joined to the connection it is about? | two connections on one address and port, eight pairs of scripts, two ticks of time, timestamps rounded to two, a tolerance of one, one lost event, three windows | holds |
| `event_batch` | is no event sent on a closed channel, written twice or out of order, and is a batch made of whole sessions? | two processes with a session each, a queue of one, two rotations, one failed write | holds |
| `collector` | is the manifest true, does no upload withhold a report, does a run end? | two runs that may overlap, two listeners, one retry | holds |
| `admin` | do the markers tell how keys were computed, does an approval with ranges keep the label? | two actors, one key of the old format for JA4 and one of today's for JA3 | holds |

The properties:

- `KeepsPromise`: `Gate` implements `GatePromise`. A connection is forwarded only
  if at some moment since it was accepted its address was trusted or its request
  cleared; it is refused by policy only if at some moment it was untrusted and at
  some moment not cleared. The two moments may differ, and the promise says so:
  trust is read at accept and status after the ClientHello, so a client that
  is trusted late and cleared early can be refused. A client that is trusted,
  or cleared, throughout never is.
- `ApprovalsFollowDecisions`: no traffic, from trusted clients either, no eviction
  and no restart grants or takes away an approval.
- `FloodIsBounded`: a step by which the table grows above its cap is a decision.
- `PendingIsWork`: a marker exists exactly while one handler, queue place or
  worker holds its pair. This is what makes suppression by the map safe.
- `RecordedWasSent`, `SettledStaysQuiet`, `PendingIsReleased`: a record means a
  notification went out; once recorded, with no earlier attempt under way
  in any process, no further one starts while the record is retained; a
  marker is released.
- `DeliveredInOrder`, `CutsHaveACause`, `CleanEndLeavesOther`: a destination has a prefix of
  what was sent. It may be told that the stream has ended before it has all of it, since
  closing a socket sends what `CloseWrite` sends and it cannot tell the two apart: after an
  error or a timeout a cut stream looks whole. What the code does promise is that only a
  reset, or a pump that has waited a whole idle timeout, cuts a stream: no order of
  ends, short writes, results and closes does. A clean end of one direction does not close
  the sockets.
- `ErrorUnblocksOther`, `RelayEnds`: after an error the other pump returns without
  waiting for its own deadline; if time passes, the relay ends, although peers stop
  sending, reading or closing. Each sends a bounded number of bytes (`MaxSent`): a peer
  that never stops sending keeps its relay.
- `SlotsAreHeld`: the process's slots, a route's slots and its gauge each count exactly
  the connections that owe them something back, at every step of every way out
  of the callback. A leak would wear the budget down; a second release would
  block for ever on an empty semaphore.
- `CapacityHeld`: the gauge of a limited route never exceeds its maximum. It holds
  because `release` lowers the gauge before it frees the slot.
- `DrainIsHonoured`, `DepartingExits`: the store is closed under a connection only
  after the whole limit that belongs to the reason of leaving; a draining process
  exits whatever its connections do, if its limit is not "for ever".
- `NoGap`: a route that is listened on stays so across any chain of handoffs. The
  exceptions are spelled out: a termination, or a last process that fails to
  start or has handed over to one that is gone.
- `RepliesPaired`: the commands the observer holds are those without an observed reply,
  in order. Everything it concludes rests on this, and it rests on a pump's
  showing the observer a line before writing it.
- `ReportIsTrue`, `UpgradeIsSeen`: the end event's state and outcome say of an upgrade only
  what the replies to `STARTTLS` and the client's bytes show; an upgrade yields a
  fingerprint unless the client broke the protocol or a bound was met.
- `FileInStep`: a sync that finds nothing to write finds the file in step, so that
  a failed write is repeated although the ranges have not changed again.
- `EmptyIsPublished`: a file that says nothing is trusted was not written by a
  process that merely did not know yet: the script would remove every entry.
- `OnlyOwnRemoved`, `NothingStranded`: the script removes only entries under names it has
  added itself and not given up since, and whatever it has added stays on its record until
  it is removed, over saves of the UI between any two of its steps. A complete run gives up the
  names that are no longer trusted, so one typed in later stays. A run that is cut short
  before it saves the record is excepted from the second: what it has added stays in the
  whitelist for ever, unless the range is trusted and wiped again. The script keeps names, not
  entries, so the first does not say that the present entry is the script's: see `trusted_manual`.
- `CreditedToItsOwn`, `TransportIsTrue`, `VerdictIsOwn`: a message is credited to the connection
  that carried it, called encrypted or plain only if it was, and given no other's
  verdict. A message whose own session is not in the batch is excepted: its neighbour on
  the port may then be the only match, and the code cannot tell.
- `ReplayChangesNothing`: events that are read twice change no report, lines of the log that
  are do not change the correlation (the campaign report counts evidence, and does
  change). A log that leaves a session of smtpd open, because the window cuts it, is excepted from the second: read again, its first lines would be taken
  for that session's.
- `EvidenceIsOwn`: evidence that is joined to a connection is that connection's, and a sender
  is reported for a campaign only for what both the observer and postscreen saw it
  do. What shares the port and is not attributable itself, not in the batch or longer than
  `--max-lifetime`, is excepted for the same reason.
- `SendIsSafe`: no handler sends on the channel `Close` has closed, though handlers outlive
  the drain. A panic there would end every connection of the process.
- `OnceInOrder`, `GarbledByAnother`: what is written of a session is in one file, once and
  in order; a line that is garbled was torn by another process, since a writer
  stops at its first error.
- `BatchIsSound`: no event is read twice while files are renamed between reads, and a
  session that is kept has ended.
- `ReportedMeansStored`, `ManifestIsBacked`: a listener the manifest calls reported is at Gatehub
  in that generation or a newer one; the files it names are no older than itself.
- `UploadWithholdsNothing`, `RunEnds`: a listener that a run is done with is published whatever
  became of its upload; a run ends whatever Gatehub does.
- `MarkerTellsFormat`, `MethodTellsKeys`: the markers say how the keys in the table were
  computed, through resets that are killed between two calls. Rows of writers that a reset or
  a switch of the method overtook are excepted, which is what the code allows:
  `approve --ranges` that has read a row before a reset puts it back after, possibly a key
  of the old format under the new marker; a process that serves on with the method
  before `reset --fingerprint` goes on adding keys of that method; and rows written before any
  method was recorded are of none.
- `LabelSurvives`: an approval with ranges, which writes the row whole, keeps the label it has
  read, unless one was given after that, when it is lost. Deletion and eviction take a label
  with its row, which is no part of it.

The types of `Gate`, `BlockedAlerts`, `Relay`, `Serving`, `TrustedRanges`, `Admin` and
`SmtpSession` are proved, and not among the runs' invariants.

Bounds. Two connections suffice for a handler to be overtaken by another's
observation and by any decision, and further handlers are interleaved like the
second. A table for one with two fingerprints makes every observation of a second
fingerprint an eviction. Two pairs and a queue of one fill the queue, two
pairs and a table of one evict a record; the serving process's two handlers race for one
marker, and a process's end, which clears its markers anyway, is only a possibility.
Two bytes make a chunk that a short write splits. In `Serving` two connections compete for a route's only slot and a
third for the budget on another route; two processes, either of which may be
started again when it has gone, make chains of handoffs. Four lines in `SmtpSession` hold a
message or a refused upgrade and then an upgrade, and three commands overrun the
bound of two that stands for 256. Two ranges in `TrustedRanges` make a network
whose prefix changes, the empty policy one that is no longer trusted.
Two connections in `SmtpTraffic` are each other's neighbours on the port, and a tolerance as large as
half the precision of a timestamp makes every order of two of them possible; the pairs of
scripts put every kind of session before or after another. In `EventBatch` a queue of one is full
at the second event, and two rotations put three files under a reader. Two runs in
`Collector` make a run that finds the lock taken, one that follows another, and
an answer for the first that comes during the second. Two actors in `Admin` suffice
for any call to come between two of a command's; a row is one of two keys that differ in
method and format.

Fairness. `Gate`, `SmtpSession`, `TrustedRanges`, `SmtpTraffic`, `EventBatch` and `Admin` are checked for
safety only. In `BlockedAlerts` and `Relay`
every goroutine is weakly fair, which Go's scheduler and the timeouts of the
notification services justify; clients, operators and peers owe nothing.
`RelayEnds` assumes besides that time passes (`WF_vars(Tick)`), written in
the property itself, so that `ErrorUnblocksOther` is checked without it. A tick
is half an idle timeout: no pump that can go on sits one out.
In `Serving` a process that has been asked to leave goes on leaving and its drain
timer ticks (`WF_vars(Departs(p))`); no connection need end, no process need
start. In `Collector` a run that has begun goes on (`WF_vars` of its steps): each of its
calls returns, the HTTP client's after 15 seconds; Gatehub need never answer.

Deadlock is checked except for `Relay`, `SmtpSession`, `SmtpTraffic`, `EventBatch` and
`Collector`, which are over when they are over.

## Disagreements between code and documentation

Two are checked as runs that TLC finds violated:

- `FileFollowsHub` (`trusted_handoff`): `docs/operations.md:281-284` says other tools
  can follow Gatehub's ranges in the file, which is written whenever they change.
  Two processes write it during a handoff, each with a lock of its own: a
  departing process may rename older ranges over its successor's, which then sees no
  change and does not write until the next one.
- `ManualEntriesStay` (`trusted_manual`): `docs/mx-smtp.md:145-146` says the mailcow script
  removes only entries it added itself and that those entered in the Mailcow UI are never
  changed; the script's docstring (lines 8-11), that manual entries are never touched. The
  state file holds names. An entry that the UI wiped and somebody typed in again under such
  a name, or that was typed in between the script's reading and setting, is
  removed when its range is no longer trusted (line 109).

Four more can be read from the models, which do what the code does; no formula here states
what the text says:

- `docs/deployment.md:193-197` says `allow-unknown=true` does not override an explicit block. The
  cap evicts blocked rows, an operator's included (`Gate`); the fingerprint is then
  unknown.
- `docs/operations.md:137-141` says alerts are deduplicated while the record is retained. The
  table is read before the marker is taken (`BlockedAlerts`), so a handler delayed
  between the two notifies again.
- The comment at `proxy.go:35-39` says the idle timeout bounds inactivity on a connection.
  Each direction has its own (`Relay`), so a connection that is active one way is closed.
- `docs/smtp-correlation.md:41-42` says the outcome of STARTTLS is `unknown` when observation became
  incomplete before one was known. Only an observer that gave up counts as
  incomplete there (`SmtpSession`): a connection that ends before the greeting, or within a
  line, is reported `observer_incomplete` with outcome `not_seen`.

## Proofs

`GateProofs` proves for every set of connections, fingerprints, addresses and
routes, and every cap:

- `TypeCorrect`, `ApprovalsAreDecisions`: `Spec => []TypeOK` and
  `Spec => []ApprovalsFollowDecisions`;
- `GateKeepsPromise`: `Spec => Promise!Spec`, the refinement;
- `FloodBounded`: the action property `FloodIsBounded`.

They rest on one inductive invariant, `IInv`: types, `PastIsComplete` and
`ApprovalsFollowDecisions`. `ApprovalsFollowDecisions` is inductive given types,
because every way the table changes either is a decision or keeps the approved
rows (`Trims`, `Recorded`). The refinement needs `PastIsComplete`: the history of
an undecided connection holds its present standing, which justifies a
verdict made on the entry just read, and the standing `whitelisted` was read in,
which justifies one made on the local. Without the second conjunct the verdict
on a client that has since lost its trust could not be justified. `FloodBounded` needs an
invariant of its own, `Countable`: the table has finitely many rows, however many
fingerprints there are, since every step adds at most one.

`GateProofs` proves of `Relay`, for streams, chunks and receive windows of any size,
`TypeOK`, `DeliveredInOrder`, `CutsHaveACause` and the action property
`CleanEndLeavesOther`. The invariant `RInv` has two parts besides types. `Bookkeeping` is what a
pump has in hand at each point of its loop: that it has returned without error only with the
whole stream written needs to know that a pump with nothing in hand has written what it
read. `Causes` follows an error back: a pump fails because an end was reset, its own
deadline passed or the sockets were closed, and they are closed because a pump failed
or because both streams are through. So behind every early end there is a reset or a timeout
(`Disturbed`), and those are for good.

`BlockedAlertsProofs` proves, for any processes, goroutines, pairs, queue and table
sizes, `TypeOK`, `PendingIsWork`, `RecordedWasSent` and `SettledStaysQuiet`. The
invariant `AInv` adds `OneHolder`, a marker has one holder among
handlers, queue places and workers and a holder has a marker, from which
`PendingIsWork` follows by counting, and `SentBeforeRecord`, a worker about to
record has delivered. `OneHolder` is where the order of `markPending`, enqueue and
`clearPending` matters: the queue's places shift when a worker takes the head,
and the holder moves with them.

`ServingProofs` proves, for any processes, routes and connections and any maxima,
`TypeOK`, `SlotsAreHeld`, `CapacityHeld`, `DrainIsHonoured` and the action property
`NoGap`. The invariant `SInv` adds `SlotsWithin` (a semaphore is never over-filled),
from which `CapacityHeld` follows because the counted connections of a route are
among those that hold its slot; `DrainState` (the limit goes with the reason,
a process that has left listens on nothing); and `Handover` (at most two processes,
one that has handed over has a successor past its start, and a process nobody
asked to leave listens on every route), which is what `NoGap` needs.

`SmtpProofs` proves of `Collector`, for any runs, listeners and number of retries,
`ReportedMeansStored`, `ManifestIsBacked` and `UploadWithholdsNothing`. The invariant `CInv` has for
each run `Alone` (at work it holds the lock alone, so that its generation is the clock's),
`Published` (what it is done with is published in its generation) and `Stored` (what it
takes for reported is at Gatehub), and `NothingNewer`: nothing is published that is newer
than the clock. `Alone` and `NothingNewer` make a publication replace something older, which
`ManifestIsBacked` needs. Gatehub's generations only grow, so an answer that comes late,
even to a later attempt of the same report, says something that is still true.

`SmtpProofs` proves of `SmtpSession`, for a client that sends any number of lines and any bound on
commands without a reply, `RepliesPaired`, `ReportIsTrue` and `UpgradeIsSeen`. None is
inductive: `RepliesPaired` speaks of replies on their way and says nothing of the commands
that will have replies, and the other two speak of what the observer has concluded and not of
how. The invariant `IInv` has four parts besides types:

- `Protocol` relates client and backend, whatever the observer does. `LinesInv` describes the
  lines on their way to the backend: a chunk follows `BDAT`, a message goes on to its dot,
  what comes after `DATA` or `STARTTLS` waits for the reply (`Shape`), and where that leaves
  the client (`Ahead`). `Owes` counts: the client is owed the replies on their way and one for each
  of those lines that will be answered (`Answered`). `WaitInv` and `DownInv` say of the last reply
  that the backend is in the state it announces.
- `Recorded` holds while the observer pairs. `PairInv`: what it expects replies to is what the
  replies on their way answer, followed by the lines that will be answered, in that
  order. `FlagInv`: its `DATA` and `BDAT` flags are the mode the client is in, but for
  the moment a pump has observed a 354 that it has not yet written.
- `Knows` relates what it has concluded to what the pumps have read. `OutcomeInv`: until it gives
  up, which it does for an excuse only, it knows of every outcome of `STARTTLS`, and that of
  an acceptance is never replaced. `HelloInv`: a ClientHello it has seen is fingerprinted, or came early.
- `Reports`: the report is the snapshot that the end of the connection takes.

The steps of the client, the backend and the pumps change only one end of a sequence each, so the
proof has a lemma for each end: a line is appended (`ShapeAppend`, `AheadAppend`) or served (`ShapeTail`, `AheadTail`), and
what is true of a pump that has read a line and not written it is true of the line in the
socket, so that writing changes nothing (`Under`). `RepliesPaired` says which command a
reply is paired with by the reply's rank among the lines that end a reply, `Cardinality` of a set of
places, so that no sequence has to be filtered.

`EventBatchProofs` proves, for any chain of processes, sessions, queue size, rotations and
failures, `SendIsSafe`, `GarbledByAnother`, `OnceInOrder` and `BatchIsSound`, with three
invariants, each on top of the one before:

- `EInv` says of each line (`OwnLine`) that its parts come from different processes that have
  all started, and that those in a torn one write no more: so the process that appends
  to a torn line is not among them.
- `OrderInv` follows a session's events from the queue to the disk: those queued are in
  order (`QueueInOrder`), each comes after every one written (`BeforeQueue`), and
  everything a process has written is in the file it has open, in order, at least
  one event to a line (`Written`). `OnceInOrder` compares the places of two events of a
  session, so that no sequence has to be filtered.
- `BatchInv` says that what has been read is in order and was written by processes whose file
  is older than the one read next (`ReadPart`). Files are counted back from the active
  one, so a rotation only makes them older: a file may be skipped and is not read twice.

`TrustedRangesProofs` proves, for any ranges, policies and processes, `EmptyIsPublished`,
`NothingStranded` and the action property `OnlyOwnRemoved`, the last in the sense above: of names. Under the hypothesis that no
process runs beside another (`~Handoff`) it also proves `FileInStep` and `FileFollowsHub`: the
latter is what `trusted_handoff` refutes with two processes, so the overlap is the only
cause. `ScriptInv` accounts for each entry of the script's own that is still in place: it is
on record, planned for the record, about to be removed, or an orphan of a run cut short.
`FileInv` has that a process that is writing has in memory what it writes, and one that has
nothing to repeat finds its ranges in the file.

`AdminProofs` proves, for any fingerprints, methods, actors and calls, `MarkerTellsFormat`,
`MethodTellsKeys` and `LabelSurvives`. A command is one call long in every step, so the
invariant says of each actor what is true between its calls: `Underway`, which calls can
follow which with what in hand; `FormatInv`, who is past the check of the format has
found or set the marker, and one about to set it has an empty table before it;
`LabelInv`, an approval that waits to write back a row without a label has been marked late if
one was given since; `MethodInv`, while a reset is between its two calls the table has no
settled row and every other actor is overtaken. `Nudged` states once what another's step
may do to a command, so that each action is looked at only for the actor that takes it.

`SmtpTrafficProofs` proves, for any number of connections on one address and port, any scripts
that the protocol allows, any windows, delays and losses, and any tolerance that covers the
rounding of timestamps, `CreditedToItsOwn`, `TransportIsTrue`, `VerdictIsOwn`, `EvidenceIsOwn` and
`ReplayChangesNothing`. It goes in four steps:

- `WorldInv` is inductive: what is written is true. `Served` and `Gated` say where each connection
  is in its script, who serves it and what tlsgate knows of it; `Gated` and `UpgradedTrue`
  together, that it is encrypted if and only if its ClientHello has passed. `EventsTrue`: each
  event of a session comes once, for what the session did, and an end tells of an upgrade.
  `LogTrue` says the same of each line, of each two lines that they are in the order of time
  and that a process of smtpd logs its client's leaving before another client's lines; `Logged`,
  that whoever was screened or taken is in the log. `Timely` compares events and
  lines: between what happened first and what is dated first lie at most `Grain - 1`.
  `VerdictsTrue`: a verdict is of a message in the log.
- `TrafficInv` adds `BatchTrue`: a batch holds whole sessions, each event of them, and a stretch of
  the log, and the report is computed from it.
- What the passes over a batch read is true of it: a record of a connection has exactly the
  stamps of its events (`ConnectionsRead`), a message has the epoch of a connect of its own
  connection, and the order to its handshake (`MessagesRead`), an item of evidence holds
  what one connection did (`EvidenceFound`).
- The properties follow. That a message is credited to its own connection needs no more than
  that this one is always among the matches, since two matches are refused: its start is
  dated at most a tolerance after the epoch of the message, and its end not before the epoch
  or the message. That a message reported as encrypted was needs the order of lines, if
  Postfix logged the handshake, and otherwise that the tolerance covers the rounding.
  `ReplayChangesNothing` compares a second pass with the first: every stamp is already set
  to the same value, and once the sessions of smtpd are over the messages of the second
  pass repeat the identities of the first.

The passes are recursive functions of the number of items read, so what they return
takes induction. The library's theorem for it takes an operator as a parameter; the module
derives an induction over sets of naturals, and the existence of the functions, from the
well-foundedness of inclusion among finite sets, which takes none.

Proving it changed the model in these places. Each was a hypothesis that had been
left to the instance and is now named:

- `ReplayChangesNothing` did not except a log that leaves a session open. With one more tick
  of time TLC finds such a window; the code behaves as the model does.
- `EvidenceIsOwn` was false for sessions of which postscreen sees some and not others: with a
  lifetime of three and four ticks TLC finds two. `ScriptsAssumption` asks that postscreen, where
  it is in use, sees every client. One script of the instance broke it and was corrected.
- `VerdictIsOwn` needs that smtpd does not repeat a queue id within one timestamp, since the
  identity of a message is made of the two (`smtpMessageIdentity`).
- Two definitions had `CASE` arms that overlap, where the code returns at the first; they are
  nested conditions now.

The assumptions are the named ones of each module: `LimitAssumption`,
`RequestsAssumption`, `AlertsAssumption`, `RelayAssumption`,
`ServingAssumption`, `EventsAssumption`, `KeepAssumption`,
`RangesAssumption`, `AdminAssumption`, `SessionAssumption`, `CorrelateAssumption`,
`CampaignAssumption`, `TrafficAssumption`, `ToleranceAssumption`, `ScriptsAssumption`. TLC evaluates
them in the runs. `EventsAssumption` asks for sessions of at least two events, the start and the
end that `handleSMTPConn` always emits. `ToleranceAssumption` asks for a `--tolerance` that covers the
precision of Postfix's timestamps and is not zero: the code calls it that, takes a second
unless it is told otherwise (`smtp_correlate.go:83`), and allows zero.

Left to TLC is liveness only, which is out of the prover's reach: `PendingIsReleased`,
`ErrorUnblocksOther`, `RelayEnds`, `DepartingExits`, `RunEnds`. Every other property of a passing run
is a theorem, `FileInStep` where no process runs beside another, as in its run.

## Not modelled

- Fingerprint computation (`ja3.go`, `ja4.go`): one pass over the bytes of one
  message, no state; its hashes are tested with published vectors. `Gate` takes the outcome.
- Log correlation, doctor, listing, PROXY header: text in, text out, once. Of the configuration
  only a route's policy is modelled: flags and JSON are read once at startup.
- The rate limiter's buckets, the store, the lifecycle and the control plane client
  are libraries; the models keep what `src/` relies on.
- Of the SMTP tools: parsing of JSON and of log lines, malformed input, several instances and
  listeners at once, exclusions, network prefixes and recipient clusters, totals, the table
  of past correlations (`smtp_correlations`, an upsert per message that is trimmed).
- Of the observer: the other dimensions of behaviour and its hash, formatting of what was counted.
- Of the mailcow script: the queue of unbans.
- Of serving: counters that only grow, the metrics server and its text, systemd.

## Plan

In this order, the ones marked done first:

1. `FingerprintStore`, `GatePromise`, `Gate`, `GateProofs` (done).
2. `BlockedAlerts`, `BlockedAlertsProofs` (done).
3. `Relay`, in `GateProofs` (done).
4. `Serving`, `ServingProofs` (done).
5. `SmtpEvents`, `EventBatch`, `EventBatchProofs` (done).
6. `TrustedRanges`, `TrustedRangesProofs` (done).
7. `Admin`, `AdminProofs` (done).
8. `SmtpCorrelate`, `SmtpCampaign`, `SmtpTraffic`, `SmtpTrafficProofs` (done).
9. `Collector`, `SmtpProofs` (done).
10. `SmtpSession`, `SmtpProofs` (done).
11. Left: several instances and listeners, exclusions and malformed lines in `SmtpCorrelate`; the
    table of past correlations.
