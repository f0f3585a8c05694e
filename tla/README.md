# Formal models of TZA-Probe

TZA-Probe is a host monitor written in Go: one server with an SQLite database
and a web panel, and an Agent on every monitored node.  Besides collecting
measurements it runs latency, route and unlock probes on the nodes, and it can
install and drive a local "IPSentinel" executor on them.  This directory holds
TLA+ models of the parts of it in which several actors, lost messages, restarts
or long sequences of operations meet, the TLC runs that check them on small
instances, and proofs, checked by TLAPS, of what matters most.

All paths below are relative to the repository.  Comments in the modules name
the functions they model; `PROJECT.json` maps every definition to its lines.

Contents: [1 The system](#1-the-system) · [2 Hard behaviours](#2-hard-behaviours) ·
[3 Plan](#3-plan) · [4 ExecutorActions](#4-executoractions) ·
[5 RuntimeRequests](#5-runtimerequests) · [6 ProbeJobs](#6-probejobs) ·
[7 ExecutorSync](#7-executorsync) · [8 The runtime on the node](#8-the-runtime-on-the-node) ·
[9 The server's other parts](#9-the-servers-other-parts) ·
[10 Distribution](#10-distribution) · [11 Runs](#11-runs) ·
[12 What the runs found](#12-what-the-runs-found) · [13 Proofs](#13-proofs) ·
[14 Checked but not proved, not modelled](#14-checked-but-not-proved-not-modelled)

## 1 The system

Every write of the server goes through `internal/storage`, holds the one mutex
`Store.writes` and is one SQLite transaction.  This is the most important fact
for the models: a storage operation is atomic and rolled back as a whole when it
is refused, so a server handler is one action.  What is left to go wrong lies
*between* transactions: on the network, in the Agent, in background work that
gives the mutex back, and in the order in which legal operations follow each
other.

The Agent (`internal/agent/agent.go:61`) runs goroutines for heartbeats (5 s),
reports (5 s), job polls (10 s), node plugins and executor synchronisation
(15 s).  It is the HTTP client in every exchange; the server never calls it.
Every reply may be lost after the server has committed, and a request the Agent
gave up on may still reach the server.

| component | state | operations | correctness |
|---|---|---|---|
| Managed command channel: `storage/executor_actions.go`, `ipsentinel/sync.go`, `actions.go` | `executor_actions` (queue with leases and receipts), `executor_bindings` (epoch, last report, dispatch gate), `executor_configs` | create submit/cancel/pause/resume/validate/apply, bind, rebind, unbind, lease, finish; the Agent's round and its RPC calls | every command takes effect at most once and is settled; a pause is not undone by an older resume; what the table says of a job is true |
| Runtime installation: `storage/runtime_channels.go`, `agent/runtime_*.go`, `plugin_enable.go` | `runtime_requests`, `runtime_channels`, `runtime_maintenance`; the Agent's journal; the node's files and services | request, approve, cancel, exchange, release; plan, confirm, execute, publish, inspect after a restart | an operation runs once, with the plan that was approved, never after its withdrawal; receipts are true; an upgrade lock is released to the executor that runs |
| Executor records: `storage/executors.go`, `ipsentinel/sync.go` | cursors, runs and events mirrored from the executor, its last snapshot | save records, prune, bind; poll, page through the executor's log | the mirror is the executor's log, in order, without gaps or duplicates |
| Executor schedules: `storage/executor_schedules.go`, `ipsentinel/schedules.go` | schedules and their occurrences | save, pause, materialise occurrences | each occurrence queued at most once; missed-run and overlap rules |
| Probe tasks: `storage/tasks.go`, `task_controls.go`, `agent.go`, `purge.go`, triggers in `schema.go` and `tcp_buckets.go` | `tasks`, `task_nodes`, `jobs`, `latest`, `route_retries`, `unlocks`, `tcp_buckets`, `purges` | save, bind, pause, run, delete; lease, finish; background purge and retention | an edit cannot be undone by what was under way; derived tables agree with the jobs; nothing due starves |
| Alerts and delivery: `model/alert.go`, `storage/alerts.go`, `events.go`, `notify/` | rules, alert states, events with their delivery | save, delete, rename, move; the engine's tick, transitions, pauses, delivery with retries | which rule counts is clear; an alarm fires after the hold it asks for, is the last word of the log and ends with its rule; what counts as delivered arrived |
| Notification channel: `service/notification.go`, `notify/config.go` | one setting | replace, patch | a credential stays with the service it was given for |
| Agent sessions: `storage/agent_state.go`, `heartbeat.go`, `Report` in `agent.go` | session, generation, last sample, diagnostic, traffic | report, heartbeat, challenge | of two Agents with one token one is served; one Agent's traffic is not counted twice; a diagnostic is newer than the sample it explains |
| Accounts and logins: `httpapi/login_limit.go`, `api.go`, `account/` | account file, sessions and pacing in memory | log in, log out, change the password, reset it in the terminal | an old password, or a session kept through a change, does not admit; guesses are paced |
| Agent self-update: `httpapi/upgrade.go`, `agentdist`, `agentsig`, `agent/update.go`, `install.sh` | the queue; signed programs; the executable, its predecessor and what is staged | click, offer, download, try, stage, swap, restart | the node keeps a sound, signed program through every kill; a click restarts it once |
| Plugin market: `market/`, `plugin/`, `theme/`, `service/plugins.go` | the token file, a pending flow, packages with their origins | connect, poll, call, disconnect; install, upload, remove, update | a token only goes to its market; a cancelled flow binds nothing; what is recorded as a release is one |
| Node plugins: `cmd/agent/plugins.go`, `agent/plugins.go` | marker, drop-in, configuration | prepare before each start, fetch once | plugins run in the sandbox prepared for them; restarts end |
| Managed runtime on the node: `executorruntime/`, `cmd/executor-runtime` | staged bundles, release directories, links, units, checkpoints | stage, install, select, drain, activate, enable | what was confirmed lasts; a selection follows its approval; a stop and a start lose no record |
| Traffic and billing: `storage/billing.go`, `samples.go`, `history.go` | counters, samples, aggregates | report, aggregate, reset | a counter that restarts is not counted twice |
| Database lifecycle: `store.go`, `migrate.go`, `backup.go` | schema version, files | migrate, back up, restore | a crash leaves one of the two versions |
| Nodes, settings, block checks | their tables | single-row edits | references stay valid |
| IP-Sentinel contract: `ipsentinel/contract.go`, `validate.go`, `jcs.go`, `client.go` | none | parse, canonicalise, call | canonical form is unique |
| MCP, service layer, `web/` | caches | routing, read models | - |
| Probes, unlock checks, collectors | none | network I/O | - |
| Branding, catalogue, `pkg/tzapkg` | files | parse, sign, verify | - |

How they interact.  The panel (HTTP or MCP) calls storage operations.  The Agent
polls: its *executor round* sends the executor's snapshot and records, leases at
most one command and finishes it; its *runtime Sync* exchanges the channel state
with the pending result and receives the next request; its *job poll* leases
probe jobs and finishes each.  Enabling a runtime writes the executor's binding;
draining it closes the dispatch gate of the command channel; activating it
brings the startup receipt from which the administrator rebinds.  Schedules and
alerts are evaluated inside the server; alerts read probe results and executor
records and write the events that the notifier delivers.

## 2 Hard behaviours

`PROJECT.json` lists each with its line under "hazards".  The kinds that shaped
the models:

- *Lost, late and repeated messages.*  A command is leased again after its reply
  was lost, a receipt arrives when its lease is over, an exchange is processed
  by the server after the Agent has planned anew.
- *Orders nobody wrote a test for.*  A pause queued between the lease and the
  receipt of a resume; a cancel that looks up a job while its submission is on
  the way; a drain during both; a withdrawal while the Agent plans.
- *Crashes.*  The Agent may die between the running confirmation, its marker,
  the operation and the journalled receipt; the server between two chunks of a
  purge.
- *Rowids as ages.*  Purges compare `jobs.rowid` with a cutoff; rowids of
  deleted newest rows are given out again.
- *Materialised state.*  `latest`, `tcp_buckets`, `route_retries` and `unlocks`
  are kept by triggers and must follow edits, out-of-order results and deletions.
- *Starvation and retries for ever.*  A lease hands out few jobs; a rejected
  result is sent again in every exchange.
- *Several writers of one file.*  The Agent and the administrator's command work
  on one installation root; a package store, the token of the market and the
  Agent's executable are replaced in several steps any of which may be the last.
- *Two clocks.*  A schedule in local times of day meets changes of the zone's
  offset; alarms hold for a time that edits and missing data interrupt.
- *Boundary seconds.*  "Busy" and "may still report" compare the same age with
  `>` and `>=`.

## 3 Plan

Order: most consequential and most concurrent first.  All of it is done.

| module | models | abstract specification | theorems |
|---|---|---|---|
| `ExecutorActions` | command channel | - | type invariant, `SettledStays`, `PauseHolds`, `MaintenanceHolds`, `ReleasedStaysPaused` (module `ExecutorActionsProofs`), `ReceiptsFaithful`, `EffectOnce`, `CancelSettles` (module `ExecutorReceiptsProofs`) |
| `RuntimeRequests` | runtime installation | - | type invariant, `ExecutedTrue`, `ReceiptsTrue`, `SettledTrue` (module `RuntimeRequestsProofs`) |
| `ProbeJobs` | tasks, jobs, purges | - | type invariant, `LatestTrue`, `PurgesTrue`, `TurnsFair` (module `ProbeJobsProofs`) |
| `ExecutorSync` | the server's copy of the executor's journal, what it announces and shows | `RecordLog`: a log delivered completely, once and in order; `ExecutorSync` refines it | type invariant, `ConfirmedKept`, `EndShown`, `ShownTrue`, `LogDelivered` (the refinement) |
| `RuntimeStaging`, `RuntimeLifecycle` | the runtime on the node | - | type invariant, `StagedLasts`, `SelectionApproved`, `LifecycleTrue` (module `RuntimeLifecycleProofs`) |
| `AgentReports` | competing Agents of one node | - | `ReportsTrue`, `OwnerSawPredecessor` (module `ServerProofs`, as the next two) |
| `AlertRules`, `AlertEvents` | rules; alert states, events, deliveries | - | `AlertsTrue`, `AlarmsTrue` |
| `NotificationChannel`, `ExecutorSchedules`, `PanelAccess` | the channel; occurrences; logins | - | `SecretsStayHome`, `SchedulesTrue`, `AccessTrue`; type invariant of all five parts |
| `AgentUpgrade`, `MarketBinding`, `MarketPackages`, `PluginPreparation` | what is distributed and how it is brought in | - | type invariant, `UpgradeTrue`, `MarketTrue`, `PluginsTrue` (module `DistributionProofs`) |

Composition.  `RuntimeLifecycle` instantiates `RuntimeStaging`: an operation
needs a staged bundle, and a kill or a loss of power strikes both.  `AlertEvents`
extends `AlertRules`: a tick reads rules that are edited while it judges.
`ExecutorSync` is the first half of a round of which `ExecutorActions` is the
second: `ExecutorActions` takes the confirmation for granted before it leases,
`ExecutorSync` lets receipts of commands arrive at any time.  `ExecutorActions`
and `RuntimeRequests` share the binding, the dispatch gate and the maintenance
lock.  Each contains the other's steps on this shared state in full (bind,
unbind, drain, start under the lock in `ExecutorActions`; binding, selection and
release in `RuntimeRequests`), so each is checked against everything the other
may do to it.  `RuntimeRequests` sees of the node what a receipt can say,
`RuntimeLifecycle` what happens there.  The parts of `MCServer`, and those of
`MCDistribution`, share no row and no file; each of these runs follows one part
in a behaviour (the variable `part`), so that they cost the sum of their states
and not the product.

The modules that are proved about contain no RECURSIVE operator, keep the
parameters as CONSTANTS with named assumptions, and have one action per
operation of the code.  Auxiliary ("ghost") variables are marked as such; no
action reads one.

## 4 ExecutorActions

The administrator queues commands; the node's Agent leases them one at a time,
performs them by RPC on the executor and sends a receipt.

| state | code |
|---|---|
| `rows` | table `executor_actions`, in rowid order |
| `bound`, `dispatchPaused`, `hello` | `executor_bindings`: epoch, gate, last saved snapshot |
| `snapshots` | `executor_configs` |
| `maintenance` | `runtime_maintenance` with its accepted startup receipt |
| `round` | the local variables of `Synchronizer.Sync` (`ipsentinel/sync.go:129`) and `Actions.Execute` |
| `late`, `calls` | receipts and RPC calls of a round that was given up |
| `exec` | the executor's durable state; external, its replies are those of `ipsentinel/mock_test.go` |
| `closed` | jobs whose `expires_at` has passed |

One action per storage operation (`CreateSubmit` ... `CreateApply`, `Bind`,
`Unbind`, `BeginMaintenance`, `Lease`, `Finish`) and per step of the round
(`Observe`, `SaveReport`, `Lease`, `GetRun`, `Send`, `Finish`).  `GiveUp` ends a
round anywhere: a timeout, a lost reply, a killed Agent.  What was in the air
then becomes a late receipt or a stray call (`FinishLate`, `Stray`).  Every
question and every call may be answered by an error instead (`RunUntold`,
`Errors`), which becomes the command's result whatever an earlier, lost reply
said: a refusal settles it, one that asks to retry sends it again under a new
request ID.

Abstractions.  A job and a configuration are model values that stand for their
immutable content.  A lease (30 s) is longer than a round (20 s), so it runs out
in a step of its own (`TimeOut`) that is never taken while the round goes on; a
back-off (`not_before`) runs out the same way.  `attempt` is kept as `tried`.
Several reasons not to be ready (paused, draining, unhealthy) are the one flag
`closed` of a report.  That the executor does not answer a write it remembers by
an error that asks to retry is assumed of it (`Errors`), as of `mock_test.go`.

Properties.  `PauseHolds`: the gate is open only if every pause of this binding
was followed by a newer, confirmed resume.  `MaintenanceHolds`,
`ReleasedStaysPaused`: while the node is held for an upgrade no resume opens the
gate, and after it is released only one queued since, or one that an Agent had
been given before the drain and that outlived it (`since.left`).
`ReceiptsFaithful` is three statements.  `JobVerdictsTrue`: an accepted job was
admitted, one that expired or was never dispatched was not.  `VerdictsLast`
(action): a job the executor did not know when its row was rejected, expired or
was withdrawn undispatched is never admitted.  `SnapshotsTrue`: a stored
configuration snapshot is what the executor applied as that revision.
`EffectOnce`: at most one request ID of a command changed the executor.
`CancelSettles`: after a completed cancel the job is not running.  `SettledStays`
(action): a settled command never changes.  `CommandsSettle` (liveness): every
command is settled.

Bounds.  `ExecutorCommands` explores the union of eight workloads; the CONSTRAINT
`InSome` keeps a behaviour in one of them.  JobWork (a job, its cancel, a pause,
with stray calls), UnfitWork (a job and its cancel at an executor unfit for jobs
without being paused, with a retry), SlotWork (two jobs compete for the executor's
one slot, with a retry), ControlWork (three pauses and resumes), LateWork (two of
them with a late receipt or a retry), ConfigWork (validate and apply, late
receipts, a retry), UpgradeWork and UpgradeJobWork (resumes, and a job, around
local pauses, a drain, an activation that keeps the epoch or changes it, and
rebinding).  A command has two request IDs at most (`MaxRetries`): one that took
effect and one after it.  Every hazard involves at most three commands, one late
message and two epochs; a third command is there to show that nothing follows from
having settled the first two.
The runs about jobs and controls start from the reachable state `Provisioned`, in
which a configuration has been applied; `ExecutorReapply` starts from `Init`.

`docs/RUNTIME-STAGING.md:123` promises more than `ReleasedStaysPaused`: that the
gate stays closed until a resume queued after the release.  That is
`ReleasedUntilResumed`, which `ExecutorRelease` finds violated.  `CancelSettles` is
checked while the node stays bound: a binding that is moved away and back while a
call is in the air can break it.

Fairness (`ExecutorLive`).  The Agent starts a round every 15 s whatever happened
to the last (weak fairness of `Observe`); that what it asks is told (`RunTold`),
what it sends performed (`Perform`) and its receipt taken is strongly fair, because
a network that never again carries a reply, or an executor that answers nothing but
errors that ask to retry, refutes every liveness property; the executor's jobs, time
limits and leases end (weak fairness).  Nothing is assumed of the administrator.

## 5 RuntimeRequests

The administrator requests an operation, the Agent plans it, the administrator
approves that plan, the Agent executes it once and returns a receipt.

| state | code |
|---|---|
| `requests`, `channel`, `held`, `bound`, `disabled` | `runtime_requests`, `runtime_channels`, `runtime_maintenance`, `executor_bindings`, the node's `RuntimeInstallDisabled` |
| `enrollment` | what the running Agent reports of itself |
| `step`, `work` | the program counter and request of `RuntimeInstaller.Sync` |
| `journal` | `pending.json`: the result the server has not acknowledged |
| `node` | the machine: inputs of the plans, service, epoch, what was applied, the detached enable unit |
| `late` | exchanges processed after their sender gave them up |
| `executions`, `consent` | ghosts: how often a request was executed, with which approved plan |

Server transactions: `CreateRequest`, `Approve`, `Cancel`, `Bind`, `Unbind`, the
exchange (`Commit`, with the binding of an enablement and the release of the
upgrade lock that `Bind` may bring).
Agent steps: a Sync that is answered, lost before or after the
server, or refused; planning, preflight, the running confirmation, the marker,
the operation with all its outcomes, the receipt.  `Restart` kills the Agent
between any two steps, possibly into another version; afterwards it inspects
what can be inspected (downloads, installations, enablements).

Abstractions.  The ages the code compares with the clock (45 s for a channel,
15 min for a plan and an approval) are booleans that turn false at any time; a
plan's digest is the version of the inputs it was computed from.

Properties.  Safety, with exchanges lost and late and the Agent dying anywhere:
`ExecutedTrue` (an operation runs once, as approved: `ApprovedOnce`; never after
its withdrawal: `WithdrawnNeverRuns`; alone: `OneOperation`), `ReceiptsTrue`, and
the action property `SettledTrue` (an outcome is not taken back: `OutcomeKept`;
the upgrade lock is released to the executor that runs: `ReleaseCurrent`).
`RequestsSettle` is liveness: executions end at the server (`RunningEnds`) and
journalled results arrive (`ReceiptDelivered`).

Bounds.  `RuntimeOperations` explores six nodes, told apart by their Agent's
enrollment: download and installation with withdrawal and an Agent upgrade; the
same two with an Agent upgrade and a late exchange; with withdrawal, edits and a
late exchange; an enablement after a download, with a second attempt; drain,
selection and activation of an executor in service; and download and installation
undisturbed, with the switch that stops runtime installation.  Two
requests are enough for one to be in the other's way, the last needs four.  The
ACTION_CONSTRAINT `Allowed` keeps each node to its workload.

Fairness (of the sixth node of `RuntimeOperations`).  `RuntimeInstaller.Run` calls Sync every 10 s whatever
it returned, each step of Sync returns within the 35 min limit (weak fairness),
and an exchange that is tried for ever is answered in the end (strong fairness).
`RequestsSettle` is checked on that node alone (`UndisturbedSettle`), without
withdrawals, manual bindings and Agent upgrades: with a withdrawal it fails (see `RuntimeWithdrawn`); with a manual binding, or an
Agent rolled back between two lost replies, a result can be refused for ever (the
hazards record it).

## 6 ProbeJobs

Agents poll for jobs and report results, an administrator edits the tasks, and a
background purger deletes the history an edit made obsolete.

| state | code |
|---|---|
| `now` | the server's clock in whole units |
| `tasks` | `tasks` and `task_nodes` with their due times |
| `jobs`, `leased` | `jobs` by rowid; job IDs handed out |
| `latest`, `retries`, `verdicts`, `buckets` | `latest`, `route_retries`, `unlocks`, `tcp_buckets`, kept by triggers and by `Finish` |
| `purges`, `purger`, `woken` | the table `purges`, the goroutine's position, `purgeWake` |
| `edition`, `asked`, `failed`, `early`, `passed`, `reused` | ghosts |

One action per operation: `Lease`, `Finish`, `CreateTask`, `SaveProbes`,
`SaveSettings`, `SetTaskEnabled`, `BindTask`, `RunTask`, `DeleteTask`; the purger
wakes, looks, deletes a chunk of buckets, a chunk of jobs, clears its entry,
fails or is restarted with the server, releasing the lock in between; `Clean`
removes old jobs and buckets every hour.  An Agent is external: a job may be
reported at any time, once, several times or never, in any order.  Rowids are
given out as SQLite does without AUTOINCREMENT: the largest plus one.

Abstractions.  A latency result has one outcome (its value matters to nothing
modelled), a route result is known or not, a chunk has any size.  Not modelled:
the purge of a deleted node, the one-time backfill of buckets after a migration,
changed intervals, capabilities and address families, a clock set back.

Properties.  `LatestTrue`: after an edit nothing of the old definition can
report, is shown or is scheduled (`PresentDefinition`), and `latest` is what the
query it replaced would return (`NewestShown`).  `PurgesTrue`: once no purge of a
task waits, nothing of its old definitions is left (`HistoryPurged`; see §12
for the buckets it leaves out), and a waiting purge is worked on or will be
(`NoLostWake`).  `TurnsFair`: an unknown
route is tried early once (`OneEarlyRetry`), a due probe is passed over at most
once per other probe (`NoStarvation`), a lease issued before a run was asked for
is not taken for it (`RequestServed`).  What `passed` counts starts anew when
something other than a lease changes the schedule: an edit, a result of the
probe's own that plans a retry, or the deletion of a job that is shown, see §12.
`OneEarlyRetry` leaves out results that arrive out of turn, in the last second of
their window (`early` is then -1).

Bounds.  `ProbeTasks` explores six workloads told apart by the tasks that have
existed: Editing (two tasks edited, deleted, purged with failures, three jobs),
Routes (one route over four units, runs by hand), Mixed (two tasks of three
probes on a node with leases of two), Verdicts (a task that becomes an unlock
task, is bound and unbound), Repeated (the same with a second job), Aging (a task edited
or deleted over five units, while its rows pass their retention).  Three jobs are
enough for one before, one between and one after two edits; five for two leases
of two and a retry.

## 7 ExecutorSync

The server keeps a copy of the executor's journal.  The Agent reads the server's
cursor, asks the executor for its state and the next page, has the server save
them, and confirms to the executor what was saved, which may then forget it.
Saving a record also announces a change of level and moves the run the panel
shows.

| state | code |
|---|---|
| `journal`, `pruned`, `acked`, `identity`, `jobs` | the executor: its records, `earliest_seq` - 1, `acked_seq`, its epoch, descriptor and mode, its runs; external, as `ipsentinel/mock_test.go` answers |
| `bound`, `cursor`, `hello` | `executor_bindings`; the saved snapshot stands for the length of the journal when it was taken, which orders snapshots as `observed_at` does |
| `mirror`, `levels` | `executor_records` by sequence number, `executor_projections` |
| `events` | the rows of kind `executor` in `events`, by the record they announce |
| `rows`, `runs` | `executor_actions` of kind `run.submit`: binding and shown run |
| `old` | records up to here are past `EventDeliveryWindow`, or no longer valid |
| `round` | the local variables of `Synchronizer.Sync` |
| `late`, `receipts` | reports and receipts processed after their sender gave them up |

Actions: `ReadCursor`, `Read` (state and page), `SaveAnswered`, `SaveFails` and
`Ack` are the calls of `Sync`; `GiveUp` ends a round between any two; `SaveLate`
processes a report whose round is over; `Bind`, `Unbind` and `Submit` are the
administrator's; `TakeReceipt` is `saveExecutorRun` for the run in a command's
receipt.  `Commit` is `SaveExecutorRecords` as a whole.

`RecordLog` says what this amounts to: the server has the journal from its first
record on, each record once and in order, and the executor forgets nothing the
server does not have.  `LogDelivered` maps its `log` to `journal`, `delivered` to
`mirror` and `forgotten` to `pruned`.

Abstractions.  A record never changes once written, so the conflicts of digest
and record ID (`executors.go:208`, `:224`) do not occur.  The end of a run is one
state, whatever it was.  The clock check of a report (30 s either way) is a
report that is lost.  The two reads of a round are one step: nothing they return
is compared with the other.  An authorization is a number; two that differ in
nothing but what they allow count as different ones.  A job's identifier is used
once.  Receipts end with the authorization (`executor_actions.go:456`).

Properties.  `ConfirmedKept`: what was confirmed, or is behind the cursor, is in
the table.  `EndShown`: once the record of a run's end is saved the run is shown
as ended.  `ShownTrue` (action) is two statements.  `ShownForward`: under one authorization
runs and snapshots never move back.  `ChangesTold`: of the records a step
saves, exactly those that change a level and are still news are announced, once, after
what was announced before and in the order of the journal; nothing announced is taken
back, across repeated pages and new authorizations.  `RecordsConfirmed` (liveness): while the executor
stays authorized and has not forgotten what follows the cursor, every record is
saved and confirmed.

Bounds.  `ExecutorMirror` explores five workloads told apart by what the executor
records: Changes (a service's level changes, repeats and grows old),
Reauthorized (the same across authorizations), JobRuns (a job's records, its
receipts and late reports), Fences (the same under another authorization),
Pruning (an executor that forgets, late reports, another authorization).  Three
records in pages of two give a first, a partly repeated and a last page; a run
has three records; a late report and a late receipt are one each.

Fairness.  The Agent calls Sync every 15 s whatever it returned (weak fairness of
`ReadCursor`); a call that is made again and again is answered in the end, if
only with a refusal (strong fairness of `Read`, `SaveAnswered` and `Ack`).

## 8 The runtime on the node

`RuntimeStaging` and `RuntimeLifecycle` model what an approved operation does to
the node's disk and services.  The Agent's installer and the administrator's
command `executor-runtime` use one store and one installation root.

| state | code |
|---|---|
| `staged`, `synced`, `plock` | `staged/<digest>`, the names that survive a loss of power, `locks/<digest>` |
| `stager`, `job` | per program: the local variables of `Stage`, and of the operation under way |
| `approvals`, `plans`, `receipts` | the exact plans that were approved; the stagings that were confirmed |
| `installed`, `current`, `selection` | `releases/<archive>`, the link `current`, `selection.json` |
| `inputs`, `service`, `exec`, `checkpoint` | configuration and unit files, the systemd unit, the executor's state directory, `drained.json` |
| `flock`, `marked`, `gate` | the lock of the root, `enable-started-<request>`, what the controller lets through |
| `tampered` | ghost: releases whose files others changed |

Each step that leaves something on disk is an action: copy, describe, sync and
rename, confirm; install, prepare, switch and commit a selection; pause, look,
stop and save a drain; start, look and confirm; write, start, adopt and report a
first enablement.  `StagerKilled`, `WorkerKilled`, `PowerLoss`, `ServiceFails`,
`RestoreState`, `Tamper` and `EditInputs` come between any two of them.

Abstractions.  A release is a number that stands for its plan and the plan's
digest; a bundle is the set of its files.  A version requirement is compared as
the code compares it (three numbers).  The reference installer, systemd and the
executor are external.

Properties.  `StagedLasts`: a release whose staging was confirmed stays complete
through kills and loss of power.  `SelectionApproved` (action): the selected
release changes only under an approval that names what was selected before,
though two programs work on one root.  `LifecycleTrue` (action): a drain is
confirmed of a stopped unit whose journal is confirmed to the end, and a start is
confirmed of an executor that still has every record.

Bounds (`RuntimeNode`).  Three releases, of which two share files and one needs a
newer Agent; two plans, one edit, one record, two epochs.  `StagingFirst` has the
stagings done before operations begin, which need a staged release and change
none; once there are two plans their operations follow each other, unless both
install or select the release: only these meet without the controller.

## 9 The server's other parts

`MCServer` composes five parts that share the database and no row.

`AgentReports`.  One node and the processes that hold its token, one after another
or at the same time.

| state | code |
|---|---|
| `agentSessions`, `metrics`, `health`, `traffic` | `node_agent_sessions`, the node's last sample, `node_health`, the sum of its buckets |
| `proc`, `call` | `agentHealth` and the loops of a process; its requests with their retries |
| `requests` | requests on their way, also of a sender that gave up or exited |
| `host`, `moved`, `reigns` | the counter of the interface; ghosts |

A process stands for its session, a reign for a row that is active.  Requests are
lost, delayed and answered out of order; the host restarts and its counter begins
again.  `traffic` and `moved` are kept per start of the host, `rivals` remembers
that two processes ran at once.  `ReportsTrue`: unless they did, no byte counts
twice, and a diagnostic that is shown was given by the owner after its last sample.  `OwnerSawPredecessor` (action): the
node passes only to a process that lived under the owner it replaces.

`AlertRules` and `AlertEvents`.  A rule covers all nodes, groups, or listed nodes;
a tick reads the rules, then the nodes, judges every kind on every node in a
transaction of its own, and sends what is due.  Edits, renamings, merges and
deletions fall between these steps, and the server may stop at each.  `alert`,
`events`, `engine` are `alert_state`, the log, and the local variables of `Tick`;
`streak` and `sends` are ghosts.  What is measured is one of normal, over and
missing.  `CleanEvents` deletes events by age, a chunk at a time.  `AlertsTrue`: no
two rules compete for a node (`RulesClear`), an alarm is active exactly if what is
left of the log says so last, or its last event was deleted for its age
(`AlertsLogged`, `Outlived`), and after the judgement each has a rule and a reason
(`OpenAlertsCovered`).  `AlarmsTrue` (action): an alarm follows a condition that
every judgement of the hold saw (`HoldObserved`; time in which the server is off
is not judged, and counts), and what counts as delivered arrived and is not sent again
(`DeliveryTrue`).

`NotificationChannel`.  A replacement checks a configuration against the stored
one, a patch reads the stored one twice, both save later and without a lock.  A
secret stands for the service it was given for.  `SecretsStayHome`: it is only
stored for that service.

`ExecutorSchedules`.  The controller's tick turns local times into commands;
`slots` and `commands` are `executor_slots` and the submissions in
`executor_actions`.  A zone is an offset that changes once, either way.
`SchedulesTrue`: what waits was queued by the schedule and the binding in force
(`UndispatchedCurrent`), and a local time is run at most once, at its first
instant, not at all when it is skipped (`OncePerLocalTime`).

`PanelAccess`.  Browsers with cookies, logins whose verification takes time, the
pacing per device and for strangers, password changes in the panel and in the
terminal.  Passwords are versions, each saved one has a hash of its own.
`AccessTrue`: after a change only those are admitted who gave the new password or
set it (`AdmittedKnow`), and no stretch of time sees more verifications than
burst and refill allow (`RateBounded`).

Bounds (`Server`).  The CONSTRAINT keeps a behaviour in a workload of its part:
one process with every failure, one over two starts of the host, two contending
by heartbeats and by reports; rules alone, one rule judged over four ticks, its
events delivered with two attempts; one edit of a schedule over three minutes a
day for one and a half days with a change of the zone; sessions with up to four
cookies and passwords, logins over four intervals.  Contention needs two
processes and three messages, a competition two rules, a race of a patch two
other requests.

## 10 Distribution

`MCDistribution` composes four parts that share no file.

`AgentUpgrade`.  The administrator's click queues an upgrade of a node (`item`,
in memory); the node's next report is answered with the offer; the Agent
downloads, verifies and tries the program, stages it with its signature, and
exits.  Under systemd the next start swaps it in before the service begins, under
OpenRC the running process does.  `dir` is what the server serves: an operator
replaces, signs and publishes it in steps.  Each write on the node is two actions,
with the file torn in between; `CopyFails` and `Kill` come anywhere.  A digest is
the program it is of.  `UpgradeTrue`: the executable is whole, runs, and was
signed under the pinned key or installed by hand (`ProgramSound`); what is about
to replace it is what its signature names and newer, and the old one is kept
(`SwapSound`); a click restarts the service once at most (`RestartsAsked`).

`MarketBinding`.  The device flow, polled by every open panel; calls that carry
the token; unbinding; a restart under another `--cc-url`.  `file` is the token
file, `flow` what the market (external) knows.  `BindingTrue`: a token is only
sent to its market (`TokensStayHome`), a cancelled flow binds nothing
(`CancelledUnbound`), a binding is only dropped after the market refused that very
token (`DroppedRefused`).

`MarketPackages`.  Installations from the market, uploads, removals and the list
of updates, in stores that replace a package by two renames and a record of its
origin.  What the market lists and grants may be wrong.  `PackagesTrue`: what is
recorded as a market release is one (`RecordsTrue`), a failed replacement brings
the old package back unless the disk fails that too (`PackagesKept`, `lost`), the market hears of complete installations
(`ReceiptsTrue`), an update is newer than what is installed (`OffersTrue`).
`MarketTrue` is both.

`PluginPreparation`.  Before each start of the Agent, with full rights, a
preparation widens the sandbox by a drop-in; marker and comparison decide whether
the service restarts.  `PluginsTrue`: plugins run in the sandbox prepared for them
and next to no installer of their own (`PluginsPrepared`), the service restarts
once per preparation that calls for it, and once more for each marker it could not
write (`RestartsEnd`, `unsaved`), a configuration that is
there is complete (`SetupWhole`).

Bounds (`Distribution`).  Five programs (the shipped one, a pre-release, the
release, a newer one that runs and one that does not), two keys, two clicks, of
which the second has a fault of its own, three lives of the process; one caller
beside the poll and the unbinding, two markets and two flows; two installations,
a fault and two kinds of store; four starts, two changes of the configuration and
two cuts or failed writes (with the second, one change and three starts).  A fault at every step of an upgrade and another in the next is what the
leftovers of the first need; a flow needs one before it, a package one it
replaces.

## 11 Runs

| run | expected | shows |
|---|---|---|
| `ExecutorCommands` | pass | the safety of the command channel in eight workloads |
| `ExecutorLive` | pass | every command is settled under fairness; type invariant |
| `ExecutorReapply` | violation | a configuration applied twice is never settled |
| `ExecutorLateReceipt` | violation | a cancel can be reported complete though its job still starts |
| `ExecutorRelease` | violation | after an upgrade that keeps the epoch an old resume can open the gate |
| `RuntimeOperations` | pass | the safety of the installation channel in six workloads; executions end and receipts arrive |
| `RuntimeWithdrawn` | violation | a withdrawal can close the channel for good |
| `RuntimeNode` | pass | staging and the operations on the node, through kills and loss of power |
| `ProbeTasks` | pass | edits, results, retries, retention and purges in six workloads |
| `ExecutorMirror` | pass | the journal is delivered, announced, shown and confirmed, in five workloads |
| `Server` | pass | reports, alerts, the channel, the schedule and logins |
| `Distribution` | pass | upgrades, the market's binding and packages, the preparation of plugins |

Each run is `tlc -config <run>.cfg <module>` with the module `PROJECT.json`
names.  The larger ones have between 80 000 and 840 000 distinct states.
CHECK_DEADLOCK is off because the bounds on commands, requests, jobs, faults and
time let a behaviour stop; liveness and `NoLostWake` say where stopping would be
wrong.  Related statements are checked as one conjunction; every property of a
passing run has a mutant of a modelled definition, defined beside it, that breaks
it, and most conjunctions one for each part.

Bounds have names (`Max...`) and are guards of the actions they limit.  A
CONSTRAINT keeps a run in its workloads; it cuts successors off, and never turns a
step the code can take into another.

## 12 What the runs found

The runs that are expected to fail show behaviours that a comment or a document
of the repository excludes:

- `ExecutorReapply` (`executor_actions.go:406`, `docs/EXECUTORS.md:91`).  Of two
  equal `config.apply` commands with the same expected revision, the second is
  answered "not changed" with a revision the receipt check refuses; the command
  is leased for ever.  A single one ends the same way when its reply is
  lost and the validation before the next attempt is refused retryably: under the
  new request ID the executor has nothing left to change.
- `ExecutorLateReceipt` (`executor_actions.go:526`, `docs/EXECUTORS.md:97`).  A
  receipt saying that a job never started arrives after a later round of the
  same lease has started it; the job runs and is shown as cancelled.
- `ExecutorRelease` (`executor_actions.go:506`, `docs/RUNTIME-STAGING.md:123`).  A
  resume is leased and its reply lost; the drain withdraws only what no Agent has
  had; the activation keeps the epoch, so that re-authorising changes no binding
  and withdraws nothing; then the resume is leased again, the executor answers it
  from memory, and dispatch goes on without a new resume.
- `RuntimeWithdrawn` (`runtime_channels.go:216`, `:469`).  A request withdrawn
  before its journalled plan arrives makes the server refuse every later
  exchange of the Agent; the channel stays stale.

Met while modelling, without a run of its own because nothing in the repository
says otherwise, or because the properties leave it out by name:

- Any error of `run.get` but "unknown job" becomes the submission's result
  (`ipsentinel/actions.go:136`, `:190`): a job that was admitted while its reply was
  lost is then shown as rejected and runs.  `JobVerdictsTrue` says nothing of
  rejected rows, `VerdictsLast` what remains true of them.
- An error of that question, or of the validation before an application, that asks
  to retry draws a new request ID (`executor_actions.go:484`) for a write the
  executor may remember under the old one.  That it changes nothing then is due to
  the executor (`EffectOnce`): it knows the job, the cancellation or the revision.
- An alarm that lasts longer than the 90 days events are kept (`purge.go:256`) and
  sends no reminder is active while the log has nothing of it; the view of active
  alerts (`events.go:128`) leaves it out.  `Outlived` names these.
- When the newest jobs are deleted while a purge waits, the next leased jobs get
  rowids below its cutoff and are purged too (`purge.go:133`); `HistoryPurged`
  does not speak of them.
- The cutoff of a purge is the largest rowid of `jobs` (`purge.go:92`).  When
  retention has removed every job before the edit it is 0, and the buckets, which
  are kept 360 seconds longer, stay with the results of the old definition until
  their own retention (`tcp_buckets.go:23` says that they go with the purge);
  `HistoryPurged` leaves them out as `Outlived`.
- When the job a probe was last leased with is deleted by age, its row of `latest`
  goes too and the probe is due "since ever" (`schema.go:46`, `agent.go:237`): on a
  node that asks less often than the retention (seven days) a probe can be served
  twice while another waits.  `NoStarvation` counts anew from there.
- A round of verdicts leased before its node was unbound reports for another
  fifteen minutes and writes verdicts that nothing updates (`task_controls.go:221`).
- Entries of the upgrade queue are said to go after a day (`upgrade.go:18`), but
  only a look at the queue removes them (`ViewQueue`): an old one still offers.
- The rename that puts a package back is not checked (`plugin.go:185`,
  `theme.go:237`): where the disk fails it too, the package stays aside under a name
  that is never looked for.  `lost` names these in `MarketPackages`.
- A server killed between the renames of a package loses it until it is installed
  again; killed before the origin is written, or when that fails, it leaves the
  old origin with the new content, so that a local upload can be listed as an
  update (`market.go:628`).  `torn` names these in `MarketPackages`.
- The removal of a plugin checks the notification channel before it takes the
  store's lock (`service/plugins.go:64`): a channel saved in between keeps a plugin
  that is gone.
- An Agent that cannot write its marker restarts all the same (`plugins.go:50`,
  `:56`, `main.go:153`), although it logs that ordinary probes continue: as long as
  the disk is full or read-only the service restarts without end.  `unsaved` counts
  these restarts.
- A preparation cut off after the drop-in was written and before systemd read it
  is taken, at the next start, for one that changed nothing (`cut` in
  `PluginPreparation`).
- Of two processes that run at once, one echoes a challenge with a sample older
  than the other's last report: the baseline goes back, and the bytes in between
  count again (`storage/agent.go:50`).  `TrafficNotTwice` leaves out the behaviours
  in which two processes ever ran at once (`rivals`).
- A password reset in the terminal that falls between the check of the old one and
  the save in the panel is overwritten.

## 13 Proofs

`ExecutorActionsProofs` proves, for every value of the constants that satisfies
the assumptions of `ExecutorActions` (bounds are naturals, `None` is none of the
jobs and configurations, the commands are among the known kinds):

- `TypeOKAlways`: `Spec => []TypeOK`.  `TypeOK` is not inductive: an action reads
  the job of a submission and the row of a message on its way.  `TypeInv` adds
  `RowsFit` (a command carries the job or configuration its kind needs) and
  `TrafficFits` (the round, late receipts and stray calls name existing rows).
  One lemma per group of actions shows that a step keeps it, over lemmas about
  the operators that rewrite the table (`SetStatus`, `Withdraw`, `SaveRuns`).
- `SettledStaysAlways`: `Spec => SettledStays`.  Under `TypeInv` every step
  either keeps a final row's status or is a receipt, and `TakeReceipt` only
  touches rows that are leased, pending, or the submission of a `not_started`
  cancel, which `Finish` restricts to open rows.
- `PauseHoldsAlways`: `Spec => []PauseHolds`.  Relative to `TypeInv` it is
  inductive: a pause closes the gate when it is queued, a step that keeps the
  gate open keeps the rows that justify it (`KeptStep`, `GateStaysOpen`), and a
  receipt opens the gate only for a resume without a newer pause, which it
  completes in the same transaction (`ReceiptKeeps`).
- `MaintenanceHoldsAlways`: `Spec => []MaintenanceHolds`, inductive by itself.
- `ReleasedStaysPausedAlways`: `Spec => []ReleasedStaysPaused`, whether or not an
  activation keeps the epoch.  `ReleaseInv` adds that what is leased has been given
  to an Agent (`LeasedTried`), that the drain leaves no other resume open
  (`HeldResumes`), and that of the resumes queued before the release only those are
  open that were open then (`ReleaseLeft`).

`ExecutorReceiptsProofs` goes on from there, to what the server's table says of the
executor.

- `ReceiptsFaithfulAlways` and `EffectOnceAlways`, for every value of the
  constants, from `ReceiptInv` (`ReceiptInvAlways`): a command is with a round, a
  stray call or a receipt, one at a time (`OneHolder`; a command that was refused
  or timed out is leased again with another lease ID, and late receipts are too
  few to name them all, `LateFew`); what the executor remembers of a pause or a
  resume is what the next call asks for (`MemoryFits`; nothing is asked before
  these, so that no error gives them a new request ID); a cancellation or an
  application that took effect has ended its job, or used up the revision it
  expects, so that the same command under another request ID changes nothing
  (`Spent`); a job and a revision are known to the executor through the one command
  that named them (`JobsFit`, `RevisionsFit`); and a receipt on its way is true, and
  stays true while the server would take it (`MessagesTrue`).  `VerdictsLast` is
  proved step by step: what makes a job known is a call of its own submission, which
  nobody has in hand once the row is settled.
- `CancelSettlesAlways`: `CancelSettles` holds in every behaviour, for every value
  of the constants, in which no receipt outlives its round (`ReceiptsPrompt`) and in
  which no call does either (`CallsPrompt`) or the binding is not replaced while a
  command is in hand (`BindingHeld`).  The property needs this: a late receipt is
  what `ExecutorLateReceipt` shows, and a call that outlives a change of the binding
  may start a job whose cancellation was completed with "not started".  The
  workloads of `ExecutorCommands` with cancellations meet it: JobWork (stray calls,
  one binding) and UnfitWork (neither).  `CancelInv` says that a run that is reported is of a known job (`RunsKnown`), that
  a cancellation in a round has found a job that ended or one nobody submits any
  more (`CancelRound`), and that this stays so (`CancelsTrue`).

Both invariants were model-checked before they were proved.

`ExecutorSyncProofs` proves, for every journal, page size, number of
authorizations and messages under way (assumption: `ConstantsAssumption` of
`ExecutorSync`; bounds are numbers, and `None` is no number, level or state of a run):

- `ConfirmedStaysSaved`: `Spec => []ConfirmedKept`.  It is not inductive: a page
  under way may be confirmed later.  `SafeInv` adds that the table is a prefix of
  the journal (`Copied`), that a page under way consists of written records
  (`PagesWritten`), and that what is forgotten, confirmed, about to be confirmed
  or behind the cursor is within the prefix (`Backed`).  `CommitExtends` shows
  that a report the server accepts extends the prefix without a gap, because it
  starts at or before the cursor; nothing else writes the table.
- `SyncDelivers`: `Spec => LogDelivered`, the refinement of `RecordLog`.  Under
  `SafeInv` each step appends to the journal, extends the prefix, forgets within
  it, or leaves the three alone (`StepDelivers`).
- `EndShownAlways`: `Spec => []EndShown`, and `ShownTrueAlways`: `Spec =>
  ShownTrue`, from `ShownInv`, which was model-checked before it was proved.  It says
  that runs exist only of submitted jobs, under an authorization the executor has
  reached (`Fenced`); that a page has no record of a run of a later authorization than
  the one it is reported under (`ReadUnder`), so a report of an older authorization
  cannot hide the end of a run (`Ended`); that the level shown of a service is that of
  the last saved record about it (`LevelsTrue`); and that the announced records are
  saved ones in the journal's order (`EventsTrue`).
- `TypeAlways`: `Spec => []TypeOK`, from the same invariants.

What a report does to levels, announcements and runs is computed record by
record, by recursive functions on numbers.  Their existence and what they compute
are proved by the principle of the least number (`LeastNatural`, from the
well-foundedness of `<` on the naturals): what holds at the first record and passes
from each to the next holds at the last (`UpTo`), a rule defines a function
(`Iterated`), and `EventsFollow`, `LevelFollows` and `RunFollows` follow a page through
the announcements, the level of a service (that of the last record about it) and the
state of a run.

`RuntimeLifecycleProofs` proves, for any programs, releases and bounds
(assumptions: `StagingAssumption` and `LifecycleAssumption`; the Agent is one of
the programs, `nobody` is not, releases are positive numbers, bounds are
naturals):

- `StagedLastsAlways`: `Spec => []StagedLasts`.  `StagingInv` adds that every
  bundle in place is whole unless somebody changed it and that every synced name
  is in place (`StagedWhole`), and what each operation under way has checked and
  written so far (`StagerFits`): an operation that is about to confirm found or
  renamed a bundle, so syncing its name makes the confirmation last.  The
  operations on the installation root leave the store alone.
- `SelectionApprovedAlways`: `Spec => SelectionApproved`, and
  `LifecycleTrueAlways`: `Spec => LifecycleTrue`, both from `LifeInv`.  It says,
  of every operation under way, that it alone holds the lock at the steps that
  are taken under it, and is the Agent's when it came through the controller
  (`HeldAlone`); that its step is one of its plan (`StepsOfPlan`); that a
  selection is approved and of what is selected now (`Selecting`); and that what
  a drain counted and an activation compared still holds (`Counted`).  The lock
  keeps the two programs apart everywhere but in a first enablement, which works
  without it after its selection; there the argument is that enabling, draining
  and activating are all the Agent's, which does one at a time.  `LifeInv` was
  model-checked before it was proved.
- `TypeAlways`: `Spec => []TypeOK`, from `StagingInv` and `LifeInv`.

`RuntimeRequestsProofs` proves, for any inputs, enrollments, workloads and bounds
(the assumptions of `RuntimeRequests`: bounds are naturals, `None` is no journal
entry), `TypeAlways`, `ExecutedTrueAlways`, `ReceiptsTrueAlways` and
`SettledTrueAlways` from one invariant (`InvariantAlways`).  `IInv` says that only
the newest request can be open and that a request's state agrees with what was
executed and consented to (`RequestsTrue`); that the result in the journal, and
any result still on its way in a late exchange, is true of the request and the
machine (`ResultsTrue`); where the Agent's Sync stands (`AgentTrue`: it performs
only what the server knows as running or uncertain); and what the unit of a first
enablement, the maintenance lock and the last startup receipt mean
(`MachineTrue`).  An exchange does one of four things to a request: nothing,
withdraws it, lets its approval lapse, or takes the Agent's answer (`Moves`); each
lemma about an exchange is over these four.

`DistributionProofs` proves, for any programs, keys, signatures, packages, grants,
flows and bounds (the assumptions of `MCDistribution`):

- `UpgradeTrueAlways`: `Spec => []UpgradeTrue`.  `UpgradeInv` follows a program
  from the operator's signature to the swap: what is offered, stored and copied is
  signed (`OnlySigned`), what is staged was tried (`OnlyTried`), the process judges
  by the program that is installed (`Current`), what was judged is what is copied
  and the executable is saved before (`Judged`), and an offer that may still
  restart the service was clicked for (`Clicked`).
- `PluginsTrueAlways`: `Spec => []PluginsTrue`, by what the marker says of the
  preparation (`MarkerTrue`) and systemd of the drop-in (`SandboxTrue`).
- `MarketTrueAlways`: `Spec => []MarketTrue`.  For the packages: the holder of a
  store's lock is the only one who replaces in it (`LockHeld`), and every slot is
  recorded, torn, or about to be recorded (`Recorded`, `Kept`, `Consistent`).
- `TypeAlways`: `Spec => []TypeOK` for the four parts.  The parts' invariants leave
  to it how far counters get: a process that is to start again still has a life to
  spend (`LivesBounded`), a report is put on the wire only while there is room
  (`WireBounded`), and a slow_down lengthens the interval of a pending binding
  within its bound only (`TimesBounded`).

`ServerProofs` proves eight theorems of `MCServer`, for every value of its
constants (its five assumptions; that a zone's clocks are put back by a day at
most, and that logins are paced by a divisor of the minute, is true of the values
in the code).  Each part has an invariant of its own; five lemmas (`...Apart`) show
that the steps of a part leave the others alone, so a part's invariant needs only
its own steps.

- `ReportsTrueAlways`, `OwnerSawPredecessorAlways` from `ReportsInv`.  The
  difficulty is in the messages: one that is in the network, or that its process
  may send again, says what was true when it was made (`MessagesSound`), its proof
  names an owner its process lived to see, and a report and a heartbeat of one
  process are never of one generation (`GenerationsApart`), so that a diagnostic
  cannot tie with a sample.  While processes follow each other, samples are
  ordered by process and generation, and so is what they count (`Ordered`).
- `AlertsTrueAlways`, `AlarmsTrueAlways`.  `RulesInv`: no two rules share a node
  and a kind (`Unrivalled`); renaming, merging and deleting keep it because what
  a rule covers only shrinks, or is checked.  `AlertsInv`: a hold that counts was
  observed from its beginning (`Observed`), and what is about to be recorded as
  delivered was sent (`Sent`).
- `SecretsStayHomeAlways`: a configuration that was resolved by one read and is
  checked by another names one service, and its secrets were submitted for it
  (`Homed`), whatever was stored in between.
- `SchedulesTrueAlways`: every job has its slot, every slot is the first instant
  of its local time (`SlotsFirst`), and `FirstInstant` shows of
  `ScheduledSlotTime` that it finds that instant from any date of the local time.
- `AccessTrueAlways`: sessions know the password their owner gave
  (`SessionsKnow`), and the number of tries since any moment is bounded by how far
  the virtual start has moved (`Reserved`), from which the rate in any stretch of
  time follows (`PacedSoFar`).
- `TypeAlways`: `Spec => []TypeOK`.

`ProbeJobsProofs` proves, for any nodes, tasks, definitions, bindings, intervals,
windows and bounds (`ConstantsAssumption`: finite sets of names, an unlock probe is
alone in its task, no window is longer than that of an unlock, numbers are
positive), the four properties `ProbeTasks` checks, of `Spec`, which starts
without tasks.  The workloads of the run begin where `Spec` gets by creating
(and deleting) tasks, except that tasks outside a workload count as used up.

- `TypeOKAlways`, from `BaseInv`: rowids, job IDs and times of lease are in one
  order (`JobsOrdered`; a rowid given out twice does not change that, since only
  the highest are given out again), a job of the present definition is of a probe
  in it (`EditionsFit`), the purger works on an entry of the queue (`PurgerBusy`).
- `LatestTrueAlways`, from `ShownInv`: what may still report is of the present
  definition (`ReportsFit`; an edit takes away exactly the open jobs no older than
  the longest window), retries are of probes that are there (`RetriesFit`), and a
  row of `latest` is that of a job of the present definition that none is newer
  than (`NewestFits`; the purger and the retention take the oldest jobs of a probe
  first).
- `PurgesTrueAlways`, from `PurgeInv`: every job of an earlier definition is
  covered by a waiting purge the purger is not past (`JobsCovered`); a bucket is
  covered likewise, has outlived its jobs, or is wholly of the present definition
  with a counted job as witness that no cutoff reaches (`BucketFits`,
  `CutoffsFit`).  The part about buckets holds until a rowid is given twice.
- `TurnsFairAlways`.  `RetryInv`: after a retry, and while one is planned, the
  newest result of the probe is not a known route (`Known`), and the row in
  `latest` is of its newest job, those of earlier definitions included, so that
  a result that arrives in turn is the newest.  `TurnInv`: a probe is passed over
  by no more leases than there are probes of its node due after it (`Later`); each
  lease that leaves it out serves one due before it (`Behind`), which is then due
  after now.  `RequestInv` relates the due time of a request to the jobs there
  were when it was made.

`RetryInv` and `TurnInv` were model-checked first, also on workloads wider than
those of the run; this showed that two routes known in one second must be told
apart (`KnownBefore` follows the order of the index) and that the retention of a
shown job restarts the count.

## 14 Checked but not proved, not modelled

Every invariant and every action property that a passing run checks is also stated by
a theorem, `CancelSettles` under the hypotheses named above.
Only model-checked: the liveness properties `CommandsSettle`, `UndisturbedSettle`
and `RecordsConfirmed`, since liveness under fairness and ENABLED are beyond the prover.
The library's induction theorems, which take an operator as a parameter, are not
usable either; where a proof needs induction over data (`ExecutorSyncProofs`) it argues
by the least number for which the claim would fail.

Not modelled (with the reason in `PROJECT.json` under "components"): network I/O,
parsing, signatures as mathematics, archives, the panel, calendar arithmetic and
aggregation, schema migrations.  SQLite's atomicity, the operating system's
`rename`, systemd, the market and the executor are taken as this code takes them.

Left out of modelled parts: the purge of a deleted node and the backfill of
buckets after a migration (`ProbeJobs`); Agents of before the sessions
(`AgentReports`); billing dates, which for the engine are readings like others
(`AlertEvents`); more than one architecture, and kills between the steps of
`install.sh:199`-`204` (`AgentUpgrade`, where `ManualInstall` is one action); the
pages of the market's catalogue (`MarketPackages`); the switch that stops runtime
installation where commands are leased (`ExecutorActions`: to a node
switched off a lease is refused, which for the safety properties is a round given
up, `GiveUp`; `CommandsSettle` is of a node that is not switched off).
