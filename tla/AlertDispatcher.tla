---------------------------- MODULE AlertDispatcher ----------------------------
(***************************************************************************)
(* The alert dispatchers of the server (internal/alerting/dispatcher.go).  *)
(* Every request for an agent connection makes one: a bounded queue, a     *)
(* worker that takes the jobs in order, and at most one goroutine that     *)
(* reports dropped jobs.  handleAgentWS is the only producer; its last act *)
(* is Close, which waits for the goroutines but not for ever.  All         *)
(* dispatchers share the statistics that the settings page shows.          *)
(* A wait group counts the goroutines; Close waits until it is empty.      *)
(*                                                                         *)
(* The connections here are of one node.  What the worker does with a job  *)
(* is the subject of AlertEvaluator.                                       *)
(***************************************************************************)
EXTENDS Naturals, Sequences, FiniteSets, Functions

CONSTANTS
    AlertConns,      \* connections of the node, numbered in order
    Capacities,      \* values of the setting dispatcher_queue_capacity
    DefaultCapacity, \* DefaultDispatcherQueueCapacity
    MaxChanges,      \* bound: changes of that setting
    MaxSamples       \* bound: samples the agent sends

ASSUME DispatcherAssumption ==
    /\ AlertConns \subseteq Nat \ {0}
    /\ IsFiniteSet(AlertConns)
    /\ Capacities \subseteq Nat \ {0}
    /\ DefaultCapacity \in Capacities
    /\ MaxChanges \in Nat /\ MaxSamples \in Nat

Jobs == {"sample", "online", "offline"}
NoJob == "none"

Phases == {"new", "creating", "made", "rejected", "registered", "serving",
           "applying", "recording", "queueing",
           "leaving", "closing", "drained", "abandoned"}

VARIABLES
    setting,     \* notification settings: the queue capacity
    changes,     \* its changes so far, counted for the bound
    phase,       \* where the handler of each connection is
    currentConn, \* the connection that registered last (hub.IsCurrent)
    job,         \* the job the handler is handing to enqueue
    local,       \* the capacity in a local variable of the handler's call
    cap,         \* d.queueCapacity
    queue,       \* d.queue
    closed,      \* d.closed
    wg,          \* d.wg: goroutines that Close waits for
    doing,       \* the job the worker evaluates
    exited,      \* the worker has returned
    dropAlert,   \* d.dropAlertInFlight
    ending,      \* drop alerts sent whose goroutine has not left the group
    total,       \* dispatcherRuntimeStats.TotalCapacity
    depth,       \* dispatcherRuntimeStats.QueueDepth
    samples,     \* samples sent so far, counted for the bound
    skewed       \* history: NewDispatcher counted another capacity than it uses

settingVars == <<setting, changes>>
handlerVars == <<phase, currentConn, job, local>>
capacityVars == <<cap, total, skewed>>
queueVars == <<queue, depth, doing>>
closeVars == <<closed, wg, exited>>
alertVars == <<dropAlert, ending>>
dispatcherVars == <<settingVars, handlerVars, capacityVars, queueVars, closeVars,
                    alertVars, samples>>

-----------------------------------------------------------------------------

DispatcherInit ==
    /\ setting \in Capacities /\ changes = 0
    /\ phase = [d \in AlertConns |-> "new"]
    /\ currentConn = 0
    /\ job = [d \in AlertConns |-> NoJob]
    /\ local = [d \in AlertConns |-> 0]
    /\ cap = [d \in AlertConns |-> 0]
    /\ queue = [d \in AlertConns |-> <<>>]
    /\ closed = [d \in AlertConns |-> FALSE]
    /\ wg = [d \in AlertConns |-> 0]
    /\ doing = [d \in AlertConns |-> NoJob]
    /\ exited = [d \in AlertConns |-> FALSE]
    /\ dropAlert = [d \in AlertConns |-> FALSE]
    /\ ending = [d \in AlertConns |-> 0]
    /\ total = 0 /\ depth = 0 /\ skewed = FALSE
    /\ samples = 0

\* The administrator saves another queue capacity.
ChangeCapacity ==
    /\ changes < MaxChanges
    /\ changes' = changes + 1
    /\ setting' \in Capacities \ {setting}
    /\ UNCHANGED <<handlerVars, capacityVars, queueVars, closeVars, alertVars, samples>>

\* The handler of d goes on.
Proceeds(d, from, to) ==
    /\ phase[d] = from
    /\ phase' = [phase EXCEPT ![d] = to]

\* NewDispatcher reads the capacity it passes to NewDispatcherWithCapacity; when
\* the store fails that is the default.
ReadCapacity(d) ==
    /\ Proceeds(d, "new", "creating")
    /\ \A c \in AlertConns : c < d => phase[c] # "new"
    /\ \E read \in {setting, DefaultCapacity} : local' = [local EXCEPT ![d] = read]
    /\ UNCHANGED <<settingVars, currentConn, job, capacityVars, queueVars, closeVars,
                   alertVars, samples>>

\* NewDispatcherWithCapacity counts the capacity it was given and uses the one
\* it loads itself, which is the given one when the store fails.  The worker is
\* started.
Create(d) ==
    /\ Proceeds(d, "creating", "made")
    /\ \E loaded \in {setting, local[d]} :
          /\ cap' = [cap EXCEPT ![d] = loaded]
          /\ skewed' = (skewed \/ loaded # local[d])
    /\ total' = total + local[d]
    /\ wg' = [wg EXCEPT ![d] = 1]
    /\ UNCHANGED <<settingVars, currentConn, job, local, queueVars, closed, exited,
                   alertVars, samples>>

\* The request is turned away (token, upgrade, closed hub): the dispatcher
\* stays open for ever.
RejectConnection(d) ==
    /\ Proceeds(d, "made", "rejected")
    /\ UNCHANGED <<settingVars, currentConn, job, local, capacityVars, queueVars,
                   closeVars, alertVars, samples>>

\* The connection is registered and replaces an older one.
AcceptConnection(d) ==
    /\ Proceeds(d, "made", "registered")
    /\ currentConn' = d
    /\ UNCHANGED <<settingVars, job, local, capacityVars, queueVars, closeVars,
                   alertVars, samples>>

\* enqueue begins: getRuntimeConfig gives the cached capacity, which is the one
\* in use, or the setting.
Offer(d, from, kind) ==
    /\ Proceeds(d, from, "applying")
    /\ job' = [job EXCEPT ![d] = kind]
    /\ \E config \in {cap[d], setting} : local' = [local EXCEPT ![d] = config]

\* A connection that is no longer current hands in nothing.
Passes(d, from, to) ==
    /\ currentConn # d
    /\ Proceeds(d, from, to)
    /\ UNCHANGED <<job, local>>

\* The heartbeat of the new connection.
FirstHeartbeat(d) ==
    /\ \/ currentConn = d /\ Offer(d, "registered", "online")
       \/ Passes(d, "registered", "serving")
    /\ UNCHANGED <<settingVars, currentConn, capacityVars, queueVars, closeVars,
                   alertVars, samples>>

\* A sample of the agent on the current connection.
EnqueueMetrics(d) ==
    /\ currentConn = d /\ Offer(d, "serving", "sample")
    /\ samples < MaxSamples
    /\ samples' = samples + 1
    /\ UNCHANGED <<settingVars, currentConn, capacityVars, queueVars, closeVars,
                   alertVars>>

\* The read loop ends; a handler that is still current hands in "offline".
HandlerLeaves(d) ==
    /\ \/ currentConn = d /\ Offer(d, "serving", "offline")
       \/ Passes(d, "serving", "leaving")
    /\ UNCHANGED <<settingVars, currentConn, capacityVars, queueVars, closeVars,
                   alertVars, samples>>

\* applyQueueCapacity, under the lock: the capacity is the configured one, and
\* the previous one is kept for the statistics.
ApplyCapacity(d) ==
    /\ Proceeds(d, "applying", IF local[d] = cap[d] THEN "queueing" ELSE "recording")
    /\ cap' = [cap EXCEPT ![d] = local[d]]
    /\ local' = [local EXCEPT ![d] = cap[d]]
    /\ UNCHANGED <<settingVars, currentConn, job, total, skewed, queueVars, closeVars,
                   alertVars, samples>>

\* recordDispatcherCapacityChanged, after the lock was released.
RecordCapacity(d) ==
    /\ Proceeds(d, "recording", "queueing")
    /\ total' = IF total + cap[d] < local[d] THEN 0 ELSE total + cap[d] - local[d]
    /\ UNCHANGED <<settingVars, currentConn, job, local, cap, skewed, queueVars, closeVars,
                   alertVars, samples>>

\* After enqueue the handler reads on, or closes the dispatcher.
AfterEnqueue(d) == IF job[d] = "offline" THEN "leaving" ELSE "serving"

\* enqueue does not take the job.
Refuses(d) == closed[d] \/ Len(queue[d]) >= cap[d]

\* enqueue takes the job.
QueueJob(d) ==
    /\ Proceeds(d, "queueing", AfterEnqueue(d))
    /\ ~Refuses(d)
    /\ queue' = [queue EXCEPT ![d] = Append(@, job[d])]
    /\ depth' = depth + 1
    /\ UNCHANGED <<settingVars, currentConn, job, local, capacityVars, doing, closeVars,
                   alertVars, samples>>

\* enqueue drops the job.
DropJob(d) ==
    /\ Proceeds(d, "queueing", AfterEnqueue(d))
    /\ Refuses(d)
    /\ UNCHANGED <<settingVars, currentConn, job, local, capacityVars, queueVars, closeVars,
                   alertVars, samples>>

\* enqueue drops the job at a full queue and starts a drop alert, which joins
\* the wait group under the lock.
DropJobWithAlert(d) ==
    /\ Proceeds(d, "queueing", AfterEnqueue(d))
    /\ Refuses(d) /\ ~closed[d] /\ ~dropAlert[d]
    /\ dropAlert' = [dropAlert EXCEPT ![d] = TRUE]
    /\ wg' = [wg EXCEPT ![d] = @ + 1]
    /\ UNCHANGED <<settingVars, currentConn, job, local, capacityVars, queueVars, closed,
                   exited, ending, samples>>

\* Close: the worker is told to finish what is queued, and the capacity to take
\* out of the statistics is read.
CloseDispatcher(d) ==
    /\ Proceeds(d, "leaving", "closing")
    /\ closed' = [closed EXCEPT ![d] = TRUE]
    /\ local' = [local EXCEPT ![d] = cap[d]]
    /\ UNCHANGED <<settingVars, currentConn, job, capacityVars, queueVars, wg, exited,
                   alertVars, samples>>

\* Close returns when the wait group is empty or after five seconds, and the
\* dispatcher is no longer counted.
CloseReturns(d) ==
    /\ \/ wg[d] = 0 /\ Proceeds(d, "closing", "drained")
       \/ Proceeds(d, "closing", "abandoned")
    /\ total' = IF total >= local[d] THEN total - local[d] ELSE 0
    /\ UNCHANGED <<settingVars, currentConn, job, local, cap, skewed, queueVars, closeVars,
                   alertVars, samples>>

\* sendDropAlert ends, whatever came of it; another one may start.
FinishDropAlert(d) ==
    /\ dropAlert[d]
    /\ dropAlert' = [dropAlert EXCEPT ![d] = FALSE]
    /\ ending' = [ending EXCEPT ![d] = @ + 1]
    /\ UNCHANGED <<settingVars, handlerVars, capacityVars, queueVars, closeVars, samples>>

\* The goroutine of a drop alert leaves the wait group.
DropAlertDone(d) ==
    /\ ending[d] > 0
    /\ ending' = [ending EXCEPT ![d] = @ - 1]
    /\ wg' = [wg EXCEPT ![d] = @ - 1]
    /\ UNCHANGED <<settingVars, handlerVars, capacityVars, queueVars, closed, exited,
                   dropAlert, samples>>

\* dequeue: the worker takes the oldest job, also of a closed dispatcher.
Dequeue(d) ==
    /\ doing[d] = NoJob /\ ~exited[d]
    /\ queue[d] # <<>>
    /\ doing' = [doing EXCEPT ![d] = Head(queue[d])]
    /\ queue' = [queue EXCEPT ![d] = Tail(@)]
    /\ UNCHANGED <<settingVars, handlerVars, capacityVars, depth, closeVars, alertVars,
                   samples>>

\* The depth is taken from this queue alone.
DepthAfterFault(d) == Len(queue[d])

\* recordDispatcherProcessed.
DepthAfter(d) == IF depth > 0 THEN depth - 1 ELSE 0

\* The job is evaluated.
FinishJob(d) ==
    /\ doing[d] # NoJob
    /\ doing' = [doing EXCEPT ![d] = NoJob]
    /\ depth' = DepthAfter(d)
    /\ UNCHANGED <<settingVars, handlerVars, capacityVars, queue, closeVars, alertVars,
                   samples>>

\* The worker returns as soon as the dispatcher is closed.
DequeueEndsFault(d) == closed[d]

\* dequeue has no job and will get none.
DequeueEnds(d) == queue[d] = <<>> /\ closed[d]

\* The worker returns and leaves the wait group.
WorkerExits(d) ==
    /\ doing[d] = NoJob /\ ~exited[d]
    /\ DequeueEnds(d)
    /\ exited' = [exited EXCEPT ![d] = TRUE]
    /\ wg' = [wg EXCEPT ![d] = @ - 1]
    /\ UNCHANGED <<settingVars, handlerVars, capacityVars, queueVars, closed, alertVars,
                   samples>>

Worker(d) == Dequeue(d) \/ FinishJob(d) \/ WorkerExits(d)

NewDispatcher(d) == ReadCapacity(d) \/ Create(d)

Connection(d) ==
    \/ RejectConnection(d) \/ AcceptConnection(d)
    \/ FirstHeartbeat(d) \/ EnqueueMetrics(d) \/ HandlerLeaves(d)

Enqueue(d) ==
    \/ ApplyCapacity(d) \/ RecordCapacity(d)
    \/ QueueJob(d) \/ DropJob(d) \/ DropJobWithAlert(d)

Close(d) == CloseDispatcher(d) \/ CloseReturns(d)

DropAlert(d) == FinishDropAlert(d) \/ DropAlertDone(d)

DispatcherNext ==
    \/ ChangeCapacity
    \/ \E d \in AlertConns :
          \/ NewDispatcher(d) \/ Connection(d) \/ Enqueue(d) \/ Close(d)
          \/ Worker(d) \/ DropAlert(d)

DispatcherSpec ==
    DispatcherInit /\ [][DispatcherNext]_dispatcherVars

-----------------------------------------------------------------------------

DispatcherTypeOK ==
    /\ setting \in Capacities /\ changes \in 0..MaxChanges
    /\ phase \in [AlertConns -> Phases]
    /\ currentConn \in AlertConns \cup {0}
    /\ job \in [AlertConns -> Jobs \cup {NoJob}]
    /\ local \in [AlertConns -> Capacities \cup {0}]
    /\ cap \in [AlertConns -> Capacities \cup {0}]
    /\ queue \in [AlertConns -> Seq(Jobs)]
    /\ closed \in [AlertConns -> BOOLEAN]
    /\ wg \in [AlertConns -> Nat]
    /\ doing \in [AlertConns -> Jobs \cup {NoJob}]
    /\ exited \in [AlertConns -> BOOLEAN]
    /\ dropAlert \in [AlertConns -> BOOLEAN]
    /\ ending \in [AlertConns -> Nat]
    /\ total \in Nat /\ depth \in Nat /\ skewed \in BOOLEAN
    /\ samples \in 0..MaxSamples

\* The jobs a dispatcher has: queued or being evaluated.
Held == [d \in AlertConns |-> Len(queue[d]) + (IF doing[d] = NoJob THEN 0 ELSE 1)]

\* NewDispatcher has counted it and Close has not.
Counted == {d \in AlertConns : phase[d] \notin {"new", "creating", "drained", "abandoned"}}

\* The capacity of a dispatcher, or the previous one between applyQueueCapacity's
\* unlock and the recording.
Shown == [d \in AlertConns |-> IF phase[d] = "recording" THEN local[d] ELSE cap[d]]

\* The statistics of the settings page agree with the dispatchers: the depth is
\* what is queued or evaluated, also by closed ones, the capacity is that of
\* those that are not closed, where a change between its two steps is still to
\* come.  The capacity may be off once NewDispatcher counted another capacity
\* than it used, because the setting changed or one of the two reads of it
\* failed (recordDispatcherEnqueue, applyQueueCapacity, Close).
CountersAgree ==
    /\ depth = SumFunction(Held)
    /\ ~skewed => total = SumFunctionOnSet(Shown, Counted)

\* Close without a timeout leaves no accepted job and no goroutine behind, so
\* nothing of the connection uses the store afterwards (Close, run, enqueue).
CloseWaits ==
    \A d \in AlertConns : phase[d] = "drained" =>
        /\ queue[d] = <<>> /\ doing[d] = NoJob /\ exited[d]
        /\ ~dropAlert[d] /\ ending[d] = 0

=============================================================================
