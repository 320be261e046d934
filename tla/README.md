# A verification project for ThisM

ThisM monitors servers: an agent on every node connects to one server over a
WebSocket, reports metrics, and executes self-update commands; dashboards follow
the nodes over WebSockets of their own. The risk of the program is its control
plane, which sends a binary update exactly where it was meant to go, once, across
reconnections, restarts and restored databases. This directory holds TLA+ models
of that control plane and of the services beside it, what TLC finds about small
instances of them, and TLAPS proofs of the main results for instances of every size.

Run a check with `tlc -config MCHub.cfg MCHub.tla` and a proof with
`tlapm HubProofs.tla`; `PROJECT.json` lists runs, properties, theorems and the
source lines of every definition.

## Inventory

| component | state | operations | talks to |
| --- | --- | --- | --- |
| connection hub (`internal/hub`) | map node -> entry (generation, fenced, handshake flags), three channels, subscribers, closed flag | Register, UnregisterGeneration, SendToAgent, CompleteHandshake, Broadcast, Subscribe, event loop, Close | called by the WebSocket handlers and by command delivery |
| command streams (`internal/store/updates_concurrency.go`) | per node: stream id, next_seq, retired watermark, control state; per job and node: status, seq, delivery; tombstones, retirements, audit log | create job, transition, handshake reconciliation and backfill, cancel, resolve unknown, prune, delete node | SQLite; called by `internal/api` |
| command delivery (`internal/api`) | none of its own | deliver at creation, resend after a handshake, a gap or the grace period, handle status reports | hub and store |
| agent update executor (`internal/collector/agent_state.go`, `collector.go`) | state file: stream id, watermark, task in progress, records, control state | admit, progress, commit point, finish, cancel, abort, recover | server over WebSocket; the executable it replaces |
| alert dispatcher and evaluator (`internal/alerting`) | bounded queue per connection, statistics of all of them; deliveries, recoveries and streaks in the store | enqueue, evaluate, drop alert, change capacity, close | store, notifier |
| GeoIP manager (`internal/geo`) | settings, resolver, database files | change settings, download, reload, look up | HTTP, store |
| latency monitors (`internal/api`, `internal/store`) | monitors, assignments, families of a node; the agent's configuration | edit, assign, prune and complete assignments, push the configuration, probe | hub, store, agent |
| retention and rollup (`cmd/server`, `internal/store`) | raw rows, buckets of a minute | two tickers, aggregation on demand | store |
| start and shutdown (`cmd/server`) | HTTP server, loops, hub, store | signal, drain, wait, close | all of the above |
| sessions, settings, themes, notifications, metrics collection, release signatures, frontend, deployment | single rows or none | request and response | store |

Behaviours that are hard to test, and what they are hard for:

- **Interleaving.** Handlers of one node overlap when its agent reconnects; the
  event loop sees registrations late and in any order; senders work from tests
  they made earlier; Close runs beside all of them. Correct means: at most one
  usable connection, which is the newest; a command goes to it or fails; a
  dashboard ends up right; nothing is left open.
- **Atomicity.** The store is one SQLite connection, so transactions do not
  overlap, but `ApplyHandshakeBackfill` and `PruneUpdateDetail` are several
  statements or transactions. Correct means: outcomes stay, an unknown outcome
  isolates its node, a job's status is that of its targets.
- **Recovery.** A restored database is behind its agents; a restarted agent has
  half an update. Correct means: no sequence is issued twice, no command is
  lost behind a gap, what an agent reports is what happened.
- **Delivery.** A command is sent by several threads, each of which tested
  something earlier; messages are lost with a connection. Correct means: it runs
  at most once and in order, it arrives in the end, and the server shows what happened.
- **Services.** Samples, settings, monitors and rollups meet in the store from
  several goroutines. Correct means: notifications respect what the tables say, the
  open database is the one of the settings, agents probe what is assigned, and a
  sample that the loop can still see is not lost early.
- **Bounds.** Channels of 16, 64 and 32; alert queues of 1 and more; 1024 records;
  retention of rows; deadlines of the shutdown.

The hazards with their lines are in `PROJECT.json`; each names the properties
that watch it, or why none does yet.

## Modules

| module | what it is |
| --- | --- |
| `Hub` | the hub with the threads that use it |
| `MCHub` | `Hub` with symmetry, for TLC |
| `MCHubLive` | `Hub` and `ServerShutdown`, one at a time, for what must end |
| `HubProofs` | inductive invariants and theorems about `Hub`, also about its dashboards |
| `CommandLedger` | abstract: an append-only list of numbered commands per node, a next number and a watermark |
| `CommandStream` | the store's control plane and the handlers that drive it |
| `MCCommandStream` | `CommandStream` with symmetry, for TLC |
| `CommandStreamProofs` | inductive invariant, unique sequences, monotonic streams |
| `CommandStreamSafety` | outcomes, watermark, isolation, lost sequences, job status |
| `CommandStreamRefinement` | `CommandStream` implements `CommandLedger` |
| `AgentLedger` | abstract: what the agent's state file promises of every command |
| `AgentExecutor` | the agent's update executor, its state file, stops and recovery; implements `AgentLedger` |
| `MCAgentExecutor` | `AgentExecutor` with a target for every command, for TLC |
| `AgentExecutorProofs` | inductive invariants and theorems about `AgentExecutor`; the refinement of `AgentLedger` |
| `CommandExecution` | abstract: commands run at most once, in the order they were issued |
| `ControlPlane` | server and agent composed over a link; implements `CommandExecution` |
| `ControlPlaneProofs` | inductive invariants, truth of what the server shows, watermarks, refinement of `CommandExecution` |
| `AlertDispatcher` | the queues, workers and statistics of the alert dispatchers |
| `AlertEvaluator` | cooldowns and recoveries, with two workers |
| `GeoManager` | settings, database files and resolver |
| `LatencyConfig` | monitors, assignments, and configurations on their way to an agent |
| `MetricsRollup` | raw samples, buckets, loops and retention |
| `ServerShutdown` | the order in which the process ends |
| `MCServices` | dispatcher, evaluator, GeoIP, latency and rollup, one at a time, for TLC |
| `ServicesProofs` | sums over sets; theorems about `GeoManager`, `ServerShutdown`, `AlertEvaluator`, `AlertDispatcher`, `LatencyConfig` |
| `RollupProofs` | theorems about `MetricsRollup` and about `MCServices` |

### Hub

A connection is the generation that `Register` gives it, and its handler goes
through `new`, `swapped` (the map is switched, the old socket not yet closed),
`enqueue`, `serving`, `leaving`, `done`. A Register that meets a closed hub takes
its entry back under the lock (`RegisterUndo`) and closes the socket after it
(`RegisterUndoClose`); in between, at `undoing`, the socket is open and no entry. `agents` is the map; `fenced`,
`handshaken` and `graceOver` are the flags of its entries; `open` are the sockets
open on the server's side. The four cases of the loop's select are
`RunRegister`, `RunUnregister`, `RunBroadcast`, `RunClose`. `Close` has two steps,
because it clears the map under the lock and closes `closeCh` after it.
The lock: every critical section is one step, except `SendToAgent`, which keeps
the read lock while it writes to the network; a writer of the map needs `MuFree`.
The loop sends `node_status` right after it releases the lock; nothing else sends
that event, so the two are one step. Left out: metrics and latency events (they
take room in the broadcast queue, which here can be small instead), pings,
`Unregister` without a generation (used by tests only). A deadline that passes is
an action (`GraceExpires`).

### CommandStream

`status`, `seq` and `jobStatus` are the job tables, `bound`, `nextSeq`,
`watermark` and `control` the stream of each node, `tombs` and `retired` the closed
sequences without a row. One transaction is one action. `ApplyExecutionTransition` is shared
by an agent's report, the server's own marks and the finalisation by version, as
in the code. A handshake is a small thread: reconcile, then for every fact
read, write, block, recompute, each a step, since that code is no transaction;
it can end after any of them (`HandshakeDone`), when a statement fails or the
server stops. A run of `PruneUpdateDetail` selects rows and deletes them later one by one.
A server that restarts is a handshake that ends and a pruning run that stops: all
other state is in the database. `trusted` and `cut` are history variables, used
by properties only.

A retention run deletes what it selected, whatever has become of it meanwhile.

Agents are inputs here: they report any stream id, watermark and state. That
covers a database restored from a backup, an agent with lost state and duplicated
or late reports. The stream id is "none", "same" or "other" than the server's.
Delivery states, messages, timestamps and the audit log are left out.

### AgentExecutor

`mem` is the agent's state in memory and `disk` the file; every save may fail
(`Save`), and nothing is saved in quarantine, as in `saveAgentState`. `pc` is where the
goroutine of the one task is, from the admission to the rename and the exec.
`handle`, `owned` and `dead` are the task's context: what is published for a
cancel request, whether the goroutine took it, and whether it is cancelled; they
are apart because a finished task clears what is published a moment after the next
one may have been admitted (`DeferredReset`). A cancel request is three steps, as its
handler takes the lock three times. `Stop` may happen between any two steps, and
`Boot` settles what it finds (`Outcomes`): whether the digest of the
executable can be computed is left open. A command is its sequence, an
auto-update its binary: these are the keys of the records. The server is an input:
any command, cancel or ack at any time, also an ack that is older than what it meets.
An agent that could not read its file (`unread`) is quarantined and saves nothing, until an
ack with `blocked` takes it out of quarantine (`AckBlocks` has no guard against that, as the code
has none): it then works on from an empty state and saves over the file. `renamed`, `again`, `blind`, `settled` are history.

`AgentLedger` is what this amounts to for the commands of the server: the command in
progress, the commands that replaced the binary (but for those of `blind`: committed in
quarantine, or forgotten by an agent that left it through `AckBlocks`), and of the file its watermark
and its records. Nothing is promised of the steps of an agent that is `Astray`: out of quarantine
without its file. Every write may fail, so a write of the
ledger carries all that happened since the last one: a record may go from nothing to a verdict
at once, but nothing new is said of a command the file already retired (`Becomes`). A command starts (`Start`) only above
the watermark of the file and if it has not replaced the binary; `Replace` happens once and before a
verdict; `End` is any end of it, a stop included. Auto-updates are steps that change nothing but the file.

### ControlPlane

One node, its server and its agent, and the link between them. Every thread of the
server that sends commands is there with its own program counter: `deliverTargets` of each
command, the read loop of each connection (handshake, status, gap, metrics), the timer of
the grace period. Each tests (`TestNext`), sends (`SendCommand`) and marks (`MarkSent`) in
steps of their own; what they read before a step is in `thread` and `ack`. A read loop takes a message
when its connection is the current one and handles it later (`hand`), when it may have been
replaced: a report, a gap or metrics are applied all the same, a handshake is
backfilled and then fails `CompleteHandshake`. Of the hub there is `online` and `ready`, and a send goes
to the newest connection: `Hub` shows that it does (`WriteGoesToNewest`). Of the store there is the stream
with one target per sequence. Each transition is a step; the backfill of a handshake is one
step here, since `CommandStream` looks at its statements. Of the agent there is the admission, the task
with its commit point, the records, and the version it reports (`file` is what it finds when it
starts): metrics with a version end the targets under way to it (`HandleMetrics`). `Upgrades` says
which commands bring a new version and which the one the node has. Saving never fails here, because
`AgentExecutor` looks at that. A connection keeps the order of its messages, `MaxQueue` of them
in a direction. When it breaks, everything on the way to the agent and any tail of what is on the way
to the server is lost. `Events` says which disturbances an instance has: broken
connections, crashes of the agent, restarts of the server, cancellations, grace periods, metrics.

`delivery_state` is left out: `PendingDeliveriesForNode` selects all its values.

### The services

`AlertDispatcher`: one dispatcher per WebSocket request of a node, also for one
that is turned away, whose dispatcher is never closed. `NewDispatcher` loads the capacity
twice (`ReadCapacity`, `Create`), and each load gives the default or the first value when the
store fails. The handler is the only producer, and closes last, so that nothing is enqueued after Close;
its enqueue is `ApplyCapacity` under the lock, `RecordCapacity` after it, and `QueueJob`,
`DropJob` or `DropJobWithAlert`. The cached or the current setting, whichever it gets, is how the
refresh interval appears. The worker and the drop alerts are goroutines that join and leave the wait group `wg`
where the code does; Close returns when it is empty or at its timeout.

`AlertEvaluator`: one node, one metric; a worker's tests, notifications and statements are
steps, each of which can fail. Times are the samples' own stamps, which may go back. `crowd` says that a
worker made its first test while another was past its own, `doubt` that the tables may
not say what was notified, because of that or of a failure.

`GeoManager`: a database file is a version, good or bad. Requests release the
manager's lock between their steps.

`LatencyConfig`: one node. Monitors are created, updated and deleted by concurrent requests.
An update reads the monitor before its transaction; if it was deleted meanwhile, the
transaction changes no monitor but leaves assignments of the id that is gone, which the listing
ignores. A sender (a request, or a connection at its start or
after a snapshot) lists the monitors and sends them in two steps. Families come with
snapshots. The results of probes are not modelled.

`MetricsRollup`: time in ticks, a bucket is the set of samples it aggregated, so
"average" is "of which samples". `kind` is metrics or latency: the loop's windows
end differently, and only latencies are aggregated on demand. A sample has any time stamp, of
the past or of the future, as the store takes whatever the agent stamped: `tardy` are those stamped before the
window of the loop's next run. A request on demand names any window, because the gap it found may be
another node's; `CutBy` are the minutes it aggregates without all their samples: not over yet, or begun
before the raw cutoff. Either aggregation may fail.

`ServerShutdown`: `main` with its waits and deadlines, a request, the loops, the store.

Definitions named `...Fault` are seeded faults: plausible mistakes which the
property named with them in `PROJECT.json` must catch. No behaviour uses them.

## Runs

| run | instance | shows |
| --- | --- | --- |
| `hub` | 1 node, 2 generations, 1 sender, 1 dashboard, channels of 2, 1, 1, 1 | `TypeOK`, `WriteGoesToNewest`, `OpenConnectionIsCurrent`, `DashboardConverges`, `NoSocketOutlivesRun`, `EntryNeverGoesBack` |
| `hub_live` | 1 node, 2 generations, 1 sender, channels of 1; the shutdown with 2 loops | `HandlersLeave`, `CloseDrains`, `ShutdownEnds` under fairness; `StoreClosedLast` |
| `hub_ghost` | 1 generation | counterexample to `OnlineMeansConnected` |
| `stream` | 1 node, 2 jobs, 2 sequences, 1 handshake at a time | `TypeOK`, `SequenceUnique`, `NoSequenceLost`, `UnknownIsolated`, `WatermarkSkipsNothing`, `LedgerSpec` (of `CommandLedger`) |
| `stream_target` | 1 node, 1 job, 2 handshakes at a time, states of progress | `OutcomeKept`, `JobStatusFresh` |
| `stream_blocked` | 1 node, 1 job | counterexample to `BlockedHasCause` |
| `agent` | 2 commands and an auto-update of one binary, 2 records, 2 faults | `TypeOK`, `OneRename`, `RecordTruth`, `CommitIsDurable`, `UnknownBlocks`, `WatermarkSkipsNothing`, `LedgerSpec` (of `AgentLedger`), `TaskEnds` |
| `control` | 2 commands to a new version, 2 connections, 1 event of any kind, queues of 1 | `ServerTruth`, `RetiredHasCause`, `ExecutionSpec` |
| `control_live` | the same with a restart of the server, longer queues | `CommandsArrive` under `FairSpec` |
| `control_quarantine`, `control_abort` | 2 commands, 2 connections, 1 break | counterexamples to `QuarantineHasCause`, `AbortedRedelivered` |
| `services` | see `MCServices.cfg` | `ServicesTypeOK`; `CloseWaits`, `CountersAgree` (dispatcher); `NotificationsSound` (evaluator); `ResolverCurrent`, `SettingsPersisted` (GeoIP); `ConfigConverges`, `AssignmentsFollowFamilies` (latency); `SamplesKept`, `BucketsGrow` (rollup) |

Bounds of the hub and the store. Two generations are enough for a replacement, a
late registration and a registration during Close; an unregister channel of one is full
as soon as one handler left. Nodes meet only in the shared channels, so one node suffices;
the proofs have no bound on nodes or generations. Two jobs on a node
are what a gap, an out-of-order end and a second unknown need; `MaxSeq` = 2 lets an agent
come back with a watermark ahead of, at, or below `next_seq`. One target with two
handshakes and with states of progress is what a race of two backfills needs; the
run with two targets reports outcomes only. The aggregate of a job over several
nodes is proved, not run (`JobStatusIsFresh`).

Bounds of the agent and the control plane. Two commands are what a gap, a busy agent and a
watermark that must not skip need; a window of two records is full with two commands and an
auto-update. Two faults are a stop or a failed save in every step and another
one in its recovery. Two connections are a reconnection with messages of the
old one still unread; one event, of any kind, at any step. With queues of one
every message meets every state of the other side; longer ones (`MaxQueue` = 4) are in the runs with
few events. A restart of the server breaks the connection, loses what both sides have sent and
the threads, and so is the hardest event for `CommandsArrive`. With no connection
left (`OutOfConnections`) nothing is promised.

Bounds of the services. Two dispatchers overlap, with capacities of one and two that change once; two
workers with three time stamps and a cooldown of two; two GeoIP requests with two updates and
two downloads; one monitor, two requests with two writes between them, and one connection with two families,
which are three senders' interleavings in two steps each; nine ticks in minutes of two, a window of four
and retentions of six and seven, two samples of any stamps. The loop's window is two minutes, the
least that `RollupAssumption` allows, so every edge of it is met. The components
share no state, so a run picks one at the start and the others stay where they begin; `hub_live`
does the same with the hub and the shutdown.

`CHECK_DEADLOCK FALSE` is used where the system may rest: with all connections
used up, or after the process ended. `agent` checks deadlock.

Fairness is explained where it is defined. `Hub`: goroutines that can run do run; the
cases of a select and the readers and writers of the lock take turns (strong
fairness for what competes); a handler whose socket was closed notices it; a write
ends, because it has a deadline. `AgentExecutor`: the goroutine of the task runs, and each
of its steps has a lease. `ControlPlane`: the server's threads run, messages
arrive unless the connection breaks, an agent without a connection connects
again (`Run` retries for ever), the task runs. `ServerShutdown`: `main` runs and its
deadlines pass; nothing is assumed of the requests and loops it waits for. No operator or
dashboard is obliged to do anything.

## What the code's texts say and the code does not do

- `IsOnline` "reports whether a node is currently connected" (`hub.go:361`). The
  select may take a connection's unregister request before its register request;
  the latter then puts the closed connection back (`hub.go:110`), and the node is
  online until its agent connects again (`hub_ghost`).
- "After resolution the node's control plane is unblocked if no other undisposed
  unknown remains" (`updates_concurrency.go:758`). A resolution between the write of
  `unknown` and the block of a handshake is followed by that block, which
  nothing lifts: there is no unknown to resolve (`stream_blocked`).
- "Control commands are withheld until this completes" (`api.go:3825`). The
  handshake is marked complete before its ack is written; a command written in
  between reaches an agent that has no stream id yet and quarantines itself
  (`control_quarantine`).
- abortUpdateTask is to "revert the durable admission so the command is
  redelivered" (`collector.go:2014`). The next handshake may have told the server
  `accepted` before; such a target is never sent again, and the agent answers every
  later command with a gap (`control_abort`).

Met while reading, in the models, without a run of their own:

- "A missing server stream is re-created from the agent's id" (`updates_concurrency.go:159`),
  but it is made with a random id and the agent is quarantined.
- "Facts can only move execution forward" (`updates_concurrency.go:505`), but the backfill
  checks a status it read earlier.
- "In-progress, unknown and audit records are never silently deleted"
  (`updates_concurrency.go:875`), but a row is deleted by its key some time after it was
  selected, and may have become one of these (`OutcomeKept` names it).
- The tombstone of a pruned row is there so that "no permanent sequence gap appears"
  (`updates_concurrency.go:849`). Pruning itself leaves none (`NoSequenceLost`), but the server
  has other gaps: an accepted row is never sent again (`control_abort`), and `retiredWatermarkFrom` counts
  from 1, so that below a watermark taken over from an agent a sequence without a row keeps the
  server's own count from moving past it.
- "Do not overwrite the quarantined evidence file" (`agent_state.go:201`), but an ack with
  `control_blocked` replaces the quarantine by a block and saves (`agent_state.go:285`).
- The raw retention "leaves ample margin for delayed sample arrivals and clock skew"
  (`store.go:37`), but the loop aggregates 15 minutes back: a sample stamped before that is shown for two days
  and in no bucket afterwards (`tardy`).
- A target may be shown as succeeded because a reported version equals its own
  (`store.go:2198`), whichever command brought that version, or none (`finalized`).
- A target shown as `offline_skipped` or cancelled may still run: the skip or the tombstone does not take back a
  command that another thread has in its hands or that is on its way. `ServerTruth` says nothing of these two.
- A suppressed hot sample does not reset the recovery streak (`alerting.go:57`).
- A target of an offline node is to stay as it is "so they can be retried" (`api.go:2926`), but is closed as
  `offline_skipped`.

The exceptions in the properties, each a window the code has:

- `OpenConnectionIsCurrent`, `NoSocketOutlivesRun`: the socket of a Register that met a closed hub, until it closes it;
  the latter also the replaced socket until the Register that replaced it closes it. `DashboardConverges`: events dropped
  at a full channel.
- `UnknownIsolated`, `JobStatusFresh`: between the statements of a backfill, and for ever after a handshake that
  ended between them (`cut`); the latter also jobs with removed rows. `OutcomeKept`: a backfill that
  writes over what it did not read, a removed node, a pruned row. `NoSequenceLost`, `WatermarkSkipsNothing`:
  sequences the agent claims to have retired (`trusted`).
- `OneRename`, `RecordTruth`, `CommitIsDurable`: `blind` (above). `LedgerSpec` of the agent: that, and the
  steps of an agent that is `Astray`. `UnknownBlocks` holds until an ack that says `none`, also one that was
  sent before the unknown outcome.
- `ServerTruth`: commands whose outcome the agent does not know, which the operator decides; commands refused as busy, which the
  server may send again, for `failed`; commands ended by a version, for `succeeded`: of these it says only that the node
  had that version. `CommandsArrive`: commands behind a sequence the server closed and
  the agent does not know, where command and gap answer go back and forth until the agent connects again; aborted
  admissions; isolated agents.
- `CountersAgree`: the capacity, once `NewDispatcher` loaded two different ones (`skewed`), by a change or a failure of
  the store. `CloseWaits`: a Close that timed out. `NotificationsSound`: `doubt`, and alerts
  after a recovery that was notified or left out, which forgets the cooldown.
- `SettingsPersisted`: overlapping updates, a failed write. `ConfigConverges`: overlapping lists, a failed
  listing, sending or reading back. `AssignmentsFollowFamilies`: monitors an operator left a node out of, and after a snapshot
  without families those it would gain.
- `SamplesKept`: tardy samples, minutes cut on demand, a loop that was late or failed. `BucketsGrow`: cut minutes.
- `StoreClosedLast`: a deadline that passed, a server that ended by itself.

## Proofs

All theorems are for any sets of nodes, jobs, handlers, senders, binaries, requests,
workers, providers and monitors, any bounds, numbers of faults, channel capacities and time
spans that satisfy the named assumptions of the modules (`HubAssumption`, `StreamAssumption`,
`AgentAssumption`, `ControlAssumption`, `GeoAssumption`, `ShutdownAssumption`,
`EvaluatorAssumption`, `DispatcherAssumption`, `LatencyAssumption`, `RollupAssumption`);
nothing else is assumed. Most of these only say that a bound is a number.
`RollupAssumption` also orders the spans as the code's constants do: the window of the loop (15 minutes) is at least two minutes,
the raw retention (two days) at least that window and a minute, and the retention of the buckets at least the
raw retention. Every invariant and every action property that a passing run checks is a theorem.

*Hub.* `OpenConnectionIsCurrent` is not inductive: it must be known that every
connection between Register and the loop is in exactly the place its handler says.
The invariant `HubInv` adds: handlers are in step with `nextGen` (`HandlersInStep`), channels hold
registered connections once (`QueuesInStep`), entries were registered for
their node (`EntriesInStep`), a fenced connection is known and its socket closed, or about to be
(`FencedKnown`, `FencedBeingClosed`), Close's steps agree with the map and with the registrations that meet a closed hub (`CloseInStep`), and nobody
writes to a fenced entry (`NoWriteToFenced`), which is what the lock gives.
`WriteGoesToNewest` and `NoSocketOutlivesRun` follow state by state,
`EntryNeverGoesBack` step by step.

`DashboardConverges` speaks only of states in which every queue is empty, so nothing of it
survives a step. `DashInv` says what the dashboard *will* show: of every node the last
event in the hub's queue, else the last in the dashboard's channel, else what is on
screen, agrees with the map (`BroadcastAgrees`, `InboxAgrees`, `ViewAgrees`), unless the
node's registration is on its way to the loop (`OnItsWay`), for then an event about it is
still to come. A snapshot taken among older events keeps this, since it is taken of the
map itself and whatever is still queued ends with an event that agrees with it.

*CommandStream.* `StreamInv` adds to the types: a row, and a row being
pruned, was issued (`RowsIssued`); a handshake knows its target, and the state it
will write may follow the one it read (`HandshakeOK`); what is closed was issued
(`ClosedIssued`); sequences are unique and the watermark is below the next. The key
step is that the contiguous prefix of closed sequences ends below `next_seq`, and that
reconciliation moves `next_seq` above an agent's watermark before it takes that over.
`OutcomesKept`, `WatermarkNeverSkips`, `UnknownIsolates`, `NoneIsLost` and
`JobStatusIsFresh` use it, action by action. `StoreRefinesLedger` maps the targets to
the issued commands: creating a job is `Issue`, moving a watermark or a next number is `Advance`,
everything else leaves the ledger alone. That `next_seq` and the watermark never go back
(`StreamsMoveForward`) is proved only; the `stream` run checks it as a part of the ledger.

*AgentExecutor.* `OneRename` and `RecordTruth` depend on what the agent remembers of a
command that replaced the binary, in memory and on disk, after any number of stops and
failed saves. `ExecutorInv` says it of both states alike (`Fits`): the task in progress is recorded as open
and is at most the next after the watermark, and a command that replaced the
binary from a saved commit point (`Done`) is not recorded as failed or cancelled.
On disk such a command is past its commit point or retired
(`Remembers`); in memory it is past the rename, retired, or forgotten by a quarantined agent without its file, which admits nothing
(`RemembersInMemory`); when an ack takes that agent out of quarantine, what it forgot joins `blind`. So the recovery at start never calls it failed, the sequence
gate does not admit it again, and the rename, which needs the commit
point on disk (`CommitIsDurable`), cannot meet it twice. `RunningStep` carries most
actions: while the agent runs, the file stays or becomes a copy of the memory, and
what holds of the memory then holds of the file. `UnknownBlocks` and `WatermarkSkipsNothing`
are parts of `Fits`.

`ExecutorKeepsLedger` shows that the executor implements `AgentLedger`. A save replaces the file by the
memory, many steps after the last one, so the refinement needs to know how the two are related: `LedgerInv` says that the
memory is what the file may have become (`Leads`), except in an agent that could not read its file and never
writes it (`FileFollows`). `Leads` is transitive only because a verdict is recorded of retired commands
alone (`Retires`), in memory and on disk: a forgotten record of such a command is below the watermark, where nothing new is said. Then
`LifeStep` carries every step of a running agent, and each action has only to show what it does to the memory.

*ControlPlane.* `ServerTruth` compares the server's targets with what happened on the
node; between them are the agent's records and reports on their way. `ControlInv` says of
a target, of a queued report and of a handshake alike that it is true (`Holds`): `failed`
only for a command the records call failed or the agent refused as busy,
`succeeded` only for an installed one or one ended by a version the node has had, `unknown` only
for one recorded so (`MessagesHold`, also of the messages in the hands of read loops, and
`StatusHolds`). The records in turn know what was installed (`InstalledKnown`), the version an agent reports is one that a
command put there (`VersionsKnown`), and nothing true of a command is ever taken back (`Grows`), so a
message may be lost, late or repeated. For the order, what ran is retired
or in progress and what is admitted comes after it (`RunsInOrder`); commands are
issued in the order of their numbers (`IssuedInOrder`), and only issued commands are in a thread's hands or on
the link (`ThreadsIssued`, `CommandsIssued`). `ExecutionRefined` uses this: creating a command
is `Issue`, the start of a task is `Run`, every other step leaves the issued
commands and the log alone. For `Issue` the model's count of issued commands must grow by
one, which is what `FS_AddElement` gives. The step of a report that is handled, a backfill and
a resend share the lemmas `TransitionFacts`, `DrawnFacts` and `ServerStep`. The types are a
theorem (`ControlTypeCorrect`) and not checked by the run.

`RetiredHasCause` is about two watermarks that are taken over from each other by messages which may be
old: the agent's by the server at a handshake or a gap, the server's by the agent with an ack that was computed in an
earlier step. `MarksPassed` therefore says of every mark, of both sides, in the acks of the read loops and in the messages of both
directions, that it passes only commands one side closed, also in the hands of a read loop; as what is closed stays
closed (`StaysSettled`), a mark does not age. That a task retires its own command without skipping one needs
that it is at most the next after the agent's mark, which also holds when an ack moves the mark
during the task.

*The services.* Each has an invariant of its own.
`GeoInv`: the resolver is current, and unless updates overlapped there is at most one,
which stores what is in memory (`UpdateInOrder`).
`ShutdownInv`: `main` closes the store last (`ShutdownOrder`), and where it is tells which of the
requests and loops have ended, unless a deadline passed (`ShutdownWaited`).
`EvaluatorOrder`: unless the last worker to pass its first test met another (`crowd`, which implies
`doubt`), one worker at most is past its first test; without doubt the tables say what was
notified when nobody is at them (`Settled`), and a worker relies on what still holds (`Relies`).
`NotificationsAreSound` follows step by step.
`DispatcherInv`: the types; the wait group of each dispatcher counts its worker and its drop alerts, and a worker returns only
from a closed and empty queue (`GroupOK`), whence `CloseWaits`; and `CountersAgree`, which
speaks of sums over all dispatchers, that the community modules define by a recursion over a set. Their value is
fixed without an induction theorem: the sums over the subsets of a finite set form a function
that may take the elements in any order (`IsSum`), it exists, by the smallest
subset without one (`SumsExist`), and it is what the recursion computes (`SumIs`). Hence an
element can be taken out of a sum (`SumWithout`) and one summand changed
(`SumOfUpdate`); each step of a handler or a worker is one of these, or changes no summand.
`LatencyInv`: senders and connections are in order (`LinksInOrder`), one list is in
hand unless lists overlapped (`OneList`), and the connected agent has what is assigned, or a list of that is
on its way, or will be made (`ConfigUnderWay`).

*MetricsRollup.* That a sample is in its bucket is not inductive while the loop has yet
to reach it. `RollupInv` says of a sample outside its bucket that its raw row is there
and that the window of the loop's next run, at most a minute after the last, begins
before it, unless it was inserted too late for that (`SamplesCovered`); as the loop runs every minute
(`LoopInTime`), the run comes before the raw rows are deleted. `RowsInOrder` says what is left of the
rows after a deletion, and that only cut minutes hold samples from the future. The minutes'
arithmetic is in `StartBounds`, `StartMonotone` and `StartAtOrAfter`. `BucketsOnlyGrow`
follows step by step: a window of the loop begins at the start of a minute whose rows are
all still there. `ServicesTypeCorrect` is about the run that composes the components:
each behaves there as its own specification says (`ComponentsRun`), so all their
theorems hold of it.

Only model-checked: the liveness properties (`HandlersLeave`, `CloseDrains`, `TaskEnds`,
`CommandsArrive`, `ShutdownEnds`), because neither fairness nor ENABLED is within the prover's
reach. The four counterexamples are TLC's.

## Plan

1. `Hub`, `CommandLedger`, `CommandStream` and their proofs (done).
2. `AgentExecutor`, `CommandExecution`, `ControlPlane` and the services (done).
3. The safety of `AgentExecutor` for any number of commands and faults (done).
4. The safety of `ControlPlane`, its refinement, the dashboards of `Hub` and the services (done).
5. The ledger of the agent's commands, and that `AgentExecutor` implements it (done).
6. The watermarks of both sides of `ControlPlane` (done).
7. Versions in `ControlPlane`, and read loops whose connection was replaced (done).
8. Next: jobs of several nodes in `ControlPlane`, so that the finalisation by version meets several jobs of one version.

## Not modelled

- Metrics collection: input from the operating system and Docker.
- Signatures and digests: primitives; their verdict is an input of the executor.
- Probes of latency monitors: independent timers whose results are rows.
- Sessions, passwords, settings pages, themes, notifications: single statements and
  calls, without state between them that a step could break.
- `RecordDelivery`, `MarkStalledUpdateObservations`, the audit log: written for display, read
  by no decision.
- A GeoIP lookup that uses a resolver while it is unmapped: undefined behaviour
  below the level of these models.
- The start of the server, the web frontend, the deployment scripts.
