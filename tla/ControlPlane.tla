----------------------------- MODULE ControlPlane -----------------------------
(***************************************************************************)
(* The update commands of one node from the request of an operator to the  *)
(* task on the agent and back (internal/api, internal/store/               *)
(* updates_concurrency.go, internal/collector): the composition of what    *)
(* Hub, CommandStream and AgentExecutor model in detail.                   *)
(*                                                                         *)
(* The server's side is a set of threads: deliverTargets of every command, *)
(* the read loop of every connection, and its timer of the grace period.   *)
(* Each tests, sends and marks in steps of its own, and a read loop that   *)
(* has a message in its hands handles it, although its connection may have *)
(* been replaced.  The agent's side is its read loop and its task.  A      *)
(* connection keeps the order of its messages; when it breaks, what was    *)
(* under way to the agent is lost, and any last part of what was under way *)
(* to the server.                                                          *)
(*                                                                         *)
(* A job is the sequence of its target.  The states of progress are one,   *)
(* "accepted"; delivery_state is left out: it is only shown, because       *)
(* PendingDeliveriesForNode takes all four of its values.  Of the metrics  *)
(* only the version of the agent is modelled, which ends targets too.      *)
(***************************************************************************)
EXTENDS Naturals, Sequences, FiniteSets

CONSTANTS
    MaxSeq,   \* bound: commands issued
    MaxConns, \* bound: connections of the agent
    Upgrades, \* the commands whose target version is new to the agent
    Events,   \* the events that are considered, of those listed below
    MaxEvents,\* bound: how many of them happen
    MaxQueue  \* bound: messages under way in a direction; a sender waits

ASSUME ControlAssumption ==
    /\ MaxSeq \in Nat /\ MaxConns \in Nat /\ MaxEvents \in Nat /\ MaxQueue \in Nat
    /\ Upgrades \subseteq 1..MaxSeq
    /\ Events \subseteq {"break", "crash", "restart", "cancel", "grace", "metrics"}

Seqs == 1..MaxSeq
Conns == 1..MaxConns

Outcomes == {"succeeded", "failed", "cancelled", "unknown"}
Terminal == Outcomes \cup {"offline_skipped"}
Open == {"pending", "dispatched"}
Statuses == Open \cup {"absent", "accepted"} \cup Terminal
Controls == {"none", "blocked", "quarantined"}

\* target_version of a command; the agent is on "old" at first.
Versions == {"old", "new"}
Release(s) == IF s \in Upgrades THEN "new" ELSE "old"

\* The threads of the server: deliverTargets of a command, the read loop of a
\* connection, its grace timer.
Threads ==
    [role : {"deliver"}, of : Seqs] \cup [role : {"reader"}, of : Conns]
        \cup [role : {"grace"}, of : Conns]
Deliver(s) == [role |-> "deliver", of |-> s]
Reader(c) == [role |-> "reader", of |-> c]
Grace(c) == [role |-> "grace", of |-> c]

VARIABLES
    status,    \* the target of each command, "absent" before it is issued
    tombs,     \* update_cancel_tombstones
    watermark, \* retired_watermark of the server
    control,   \* control_state of the server
    online,    \* the hub has an entry for the node
    ready,     \* its handshake is complete, or its grace period over
    thread,    \* where each thread is, and the commands it still has to send
    ack,       \* the ack of each connection's handshake: watermark, control
    hand,      \* the message each read loop has in its hands
    cancelling,\* commands with a tombstone whose cancel message is not sent
    conns,     \* connections so far
    linked,    \* the agent has a connection
    toAgent,   \* messages under way on the newest connection
    toServer,  \* messages under way to its read loop
    bound,     \* the agent has a stream id
    mark,      \* retired_watermark of the agent
    block,     \* control_state of the agent
    records,   \* its record of each command
    task,      \* the command in progress, 0 when none
    stage,     \* where the task is
    taskConn,  \* the connection the task reports on
    intent,    \* CancelIntent of the task
    file,      \* the version the agent finds when it starts
    version,   \* agentVersion
    events,    \* broken connections, crashes of the agent, restarts of the
               \* server, cancellations, grace periods and metrics so far
    ran,       \* history: the commands whose task ran, in that order
    installed, \* history: commands whose binary was put in place
    busy,      \* history: commands answered `failed` because of another task
    aborted,   \* history: commands whose admission was reverted
    finalized  \* history: commands that a reported version ended

storeVars == <<status, tombs, watermark, control>>
hubVars == <<online, ready>>
readerVars == <<ack, hand>>
threadVars == <<thread, readerVars, cancelling>>
serverVars == <<storeVars, hubVars, threadVars>>
stateVars == <<bound, mark, block, records>>
taskVars == <<task, stage, taskConn, intent>>
versionVars == <<file, version>>
history == <<ran, installed, busy, aborted, finalized>>
agentVars == <<stateVars, taskVars, versionVars, history>>
linkVars == <<conns, linked, toAgent, toServer>>
vars == <<serverVars, agentVars, linkVars, events>>

Larger(a, b) == IF a > b THEN a ELSE b
First(messages) == IF messages = <<>> THEN {} ELSE {Head(messages)}
Event(kind) == kind \in Events /\ events < MaxEvents /\ events' = events + 1
NoAck == [mark |-> 0, control |-> "none"]
NoMessage == [type |-> "none"]
IdleThread == [at |-> "idle", left |-> {}]

-----------------------------------------------------------------------------

Init ==
    /\ status = [s \in Seqs |-> "absent"]
    /\ tombs = {} /\ watermark = 0 /\ control = "none"
    /\ online = FALSE /\ ready = FALSE
    /\ thread = [t \in Threads |-> IdleThread]
    /\ ack = [c \in Conns |-> NoAck]
    /\ hand = [c \in Conns |-> NoMessage]
    /\ cancelling = {}
    /\ conns = 0 /\ linked = FALSE
    /\ toAgent = <<>> /\ toServer = <<>>
    /\ bound = FALSE /\ mark = 0 /\ block = "none"
    /\ records = [s \in Seqs |-> "none"]
    /\ task = 0 /\ stage = "idle" /\ taskConn = 0 /\ intent = FALSE
    /\ file = "old" /\ version = "old"
    /\ events = 0
    /\ ran = <<>> /\ installed = {} /\ busy = {} /\ aborted = {} /\ finalized = {}

-----------------------------------------------------------------------------
(* The store.                                                              *)

\* executionTransitions, and a repeated report of the same state.
Legal(old, new) ==
    \/ old = new
    \/ old = "pending" /\ new # "absent"
    \/ old = "dispatched" /\ new \in {"accepted"} \cup Outcomes
    \/ old = "accepted" /\ new \in Outcomes

\* The last closed sequence.
ClosedPrefixFault(st, tb) ==
    CHOOSE w \in 0..MaxSeq :
        /\ w = 0 \/ st[w] \in Terminal \/ w \in tb
        /\ \A s \in w + 1..MaxSeq : ~(st[s] \in Terminal \/ s \in tb)

\* retiredWatermarkFrom: the prefix of closed sequences.
ClosedPrefix(st, tb) ==
    CHOOSE w \in 0..MaxSeq :
        /\ \A s \in 1..w : st[s] \in Terminal \/ s \in tb
        /\ w + 1 \in Seqs => ~(st[w + 1] \in Terminal \/ w + 1 \in tb)

\* ApplyExecutionTransition.
Transition(s, new) ==
    IF Legal(status[s], new)
    THEN /\ status' = [status EXCEPT ![s] = new]
         /\ control' = IF new = "unknown" THEN "blocked" ELSE control
         /\ watermark' = IF new \in Terminal
                         THEN Larger(watermark, ClosedPrefix(status', tombs))
                         ELSE watermark
    ELSE UNCHANGED <<status, control, watermark>>

\* ReconcileCommandStream of an agent whose stream matches.
Reconciled(agentMark) ==
    IF control = "none"
    THEN Larger(watermark, Larger(agentMark, ClosedPrefix(status, tombs)))
    ELSE watermark

\* PendingDeliveriesForNode; they are sent in the order of their sequences.
PendingDeliveries == {s \in Seqs : s > watermark /\ status[s] \in Open}

\* The operator creates a job: CreateUpdateJobWithTargets.
CreateCommand(s) ==
    /\ status[s] = "absent" /\ \A k \in 1..s - 1 : status[k] # "absent"
    /\ status' = [status EXCEPT ![s] = "pending"]
    /\ thread' = [thread EXCEPT ![Deliver(s)] = [at |-> "test", left |-> {s}]]
    /\ UNCHANGED <<tombs, watermark, control, hubVars, readerVars, cancelling, agentVars,
                   linkVars, events>>

\* CreateCancelTombstone; its message follows.
CancelCommand(s) ==
    /\ status[s] # "absent" /\ s \notin tombs
    /\ Event("cancel")
    /\ tombs' = tombs \cup {s}
    /\ watermark' = Larger(watermark, ClosedPrefix(status, tombs'))
    /\ cancelling' = cancelling \cup {s}
    /\ UNCHANGED <<status, control, hubVars, thread, readerVars, agentVars, linkVars>>

\* ResolveUnknownTarget.
ResolveUnknown(s) ==
    /\ status[s] = "unknown"
    /\ \E resolution \in {"succeeded", "failed", "cancelled"} :
           status' = [status EXCEPT ![s] = resolution]
    /\ control' = IF \A k \in Seqs : status'[k] # "unknown" THEN "none" ELSE control
    /\ UNCHANGED <<tombs, watermark, hubVars, threadVars, agentVars, linkVars, events>>

-----------------------------------------------------------------------------
(* The threads of the server.                                              *)

\* Thread t goes from a to b with the commands left.
Step(t, a, b, left) ==
    /\ thread[t].at = a
    /\ thread' = [thread EXCEPT ![t] =
           IF b = "idle" THEN IdleThread ELSE [at |-> b, left |-> left]]

\* SendToAgent: the message goes to the connection that is now in the hub;
\* nobody reads it when that is broken.
Sends(message) ==
    IF linked
    THEN Len(toAgent) < MaxQueue /\ toAgent' = Append(toAgent, message)
    ELSE UNCHANGED toAgent

\* deliverTargets: IsOnline, HandshakeReady and the control state.
TestDelivery(s) ==
    /\ Step(Deliver(s), "test",
            CASE ~online -> "skip"
              [] online /\ ready /\ control = "none" -> "send"
              [] OTHER -> "idle",
            {s})
    /\ UNCHANGED <<storeVars, hubVars, readerVars, cancelling, agentVars, linkVars, events>>

\* deliverTargets of an offline node.
SkipOffline(s) ==
    /\ Step(Deliver(s), "skip", "idle", {})
    /\ Transition(s, "offline_skipped")
    /\ UNCHANGED <<tombs, hubVars, readerVars, cancelling, agentVars, linkVars, events>>

\* The connection of a thread is the current one.
IsCurrent(t) == online /\ t.of = conns

\* resendPendingDeliveries: the control state and the list.
ListPending(t) ==
    /\ Step(t, "list",
            IF IsCurrent(t) /\ control = "none" /\ PendingDeliveries # {}
            THEN "next" ELSE "idle",
            PendingDeliveries)
    /\ UNCHANGED <<storeVars, hubVars, readerVars, cancelling, agentVars, linkVars, events>>

\* The test that resendPendingDeliveries makes before each command.
TestNext(t) ==
    /\ Step(t, "next", IF IsCurrent(t) /\ ready THEN "send" ELSE "idle", thread[t].left)
    /\ UNCHANGED <<storeVars, hubVars, readerVars, cancelling, agentVars, linkVars, events>>

\* The first command that thread t still has to send.
IsNext(t, s) == s \in thread[t].left /\ \A k \in thread[t].left : s <= k

\* SendToAgent of the next command.  Without an entry it fails, and the thread
\* gives up.
SendCommand(t) ==
    /\ Step(t, "send", IF online THEN "mark" ELSE "idle", thread[t].left)
    /\ IF online
       THEN \E s \in Seqs : IsNext(t, s) /\ Sends([type |-> "command", seq |-> s])
       ELSE UNCHANGED toAgent
    /\ UNCHANGED <<storeVars, hubVars, readerVars, cancelling, agentVars, conns, linked,
                   toServer, events>>

\* ApplyExecutionTransition of the command that was sent.
MarkSent(t) ==
    \E s \in Seqs :
        /\ IsNext(t, s)
        /\ Step(t, "mark", IF thread[t].left = {s} THEN "idle" ELSE "next",
                thread[t].left \ {s})
        /\ Transition(s, "dispatched")
        /\ UNCHANGED <<tombs, hubVars, readerVars, cancelling, agentVars, linkVars, events>>

\* handleCancelAgentUpdateJob: the message, when the node is ready for it.
SendCancel(s) ==
    /\ s \in cancelling
    /\ cancelling' = cancelling \ {s}
    /\ IF online /\ ready
       THEN Sends([type |-> "cancel", seq |-> s])
       ELSE UNCHANGED toAgent
    /\ UNCHANGED <<storeVars, hubVars, thread, readerVars, agentVars, conns, linked,
                   toServer, events>>

-----------------------------------------------------------------------------
(* The read loops.                                                         *)

\* handleAgentWS reads a message, and the connection is still the current one.
\* An older connection has nothing left to read: Register closed its socket.
TakeMessage(c) ==
    /\ IsCurrent(Reader(c)) /\ toServer # <<>>
    /\ thread[Reader(c)].at = "idle" /\ hand[c] = NoMessage
    /\ hand' = [hand EXCEPT ![c] = Head(toServer)]
    /\ toServer' = Tail(toServer)
    /\ UNCHANGED <<storeVars, hubVars, thread, ack, cancelling, agentVars, conns, linked,
                   toAgent, events>>

\* The message is handled, whether its connection is still the current one or
\* not.
Handles(c, type) ==
    /\ hand[c].type = type
    /\ hand' = [hand EXCEPT ![c] = NoMessage]

\* What ApplyHandshakeBackfill makes of the agent's records.
BackFilled(recs) ==
    [s \in Seqs |->
        IF recs[s] # "none" /\ status[s] # "absent" /\ Legal(status[s], recs[s])
        THEN recs[s] ELSE status[s]]

\* handleAgentHandshake as far as the ack: quarantine, ReconcileCommandStream,
\* ApplyHandshakeBackfill, and CompleteHandshake, which a connection that was
\* replaced fails.
HandleHandshake(c) ==
    LET m == hand[c] IN
    /\ Handles(c, "handshake")
    /\ watermark' = IF m.control = "quarantined" THEN watermark ELSE Reconciled(m.mark)
    /\ status' = BackFilled(m.records)
    /\ control' = CASE \E s \in Seqs : m.records[s] = "unknown" /\ status'[s] = "unknown"
                           -> "blocked"
                    [] m.control = "quarantined" -> "quarantined"
                    [] OTHER -> control
    /\ IF IsCurrent(Reader(c))
       THEN /\ ready' = TRUE
            /\ ack' = [ack EXCEPT ![c] = [mark |-> watermark', control |-> control']]
            /\ Step(Reader(c), "idle", "ack", {})
       ELSE UNCHANGED <<ready, ack, thread>>
    /\ UNCHANGED <<tombs, online, cancelling, agentVars, linkVars, events>>

\* The ack goes to the node's connection, whichever that is now.
SendAck(c) ==
    /\ Step(Reader(c), "ack", IF ack[c].control = "none" THEN "list" ELSE "idle", {})
    /\ IF online
       THEN Sends([type |-> "ack", mark |-> ack[c].mark, control |-> ack[c].control])
       ELSE UNCHANGED toAgent
    /\ ack' = [ack EXCEPT ![c] = NoAck]
    /\ UNCHANGED <<storeVars, hubVars, hand, cancelling, agentVars, conns, linked, toServer,
                   events>>

\* handleAgentCommandStatus.
HandleStatus(c) ==
    /\ Handles(c, "status")
    /\ Transition(hand[c].seq, hand[c].status)
    /\ UNCHANGED <<tombs, hubVars, thread, ack, cancelling, agentVars, linkVars, events>>

\* A gap is answered with everything that is pending.
AfterGapFault == "idle"

\* handleAgentWS after a sequence_gap: reconcile, then resend.
AfterGap == "list"

HandleGap(c) ==
    /\ Handles(c, "gap")
    /\ watermark' = Reconciled(hand[c].mark)
    /\ thread' = [thread EXCEPT ![Reader(c)].at = AfterGap]
    /\ UNCHANGED <<status, tombs, control, hubVars, ack, cancelling, agentVars, linkVars,
                   events>>

\* FinalizeUpdateJobsForNodeVersion of the version that came with the metrics:
\* the targets under way to it have succeeded.
HandleMetrics(c) ==
    LET ended == {s \in Seqs : /\ status[s] \in {"dispatched", "accepted"}
                               /\ Release(s) = hand[c].version} IN
    /\ Handles(c, "metrics")
    /\ status' = [s \in Seqs |-> IF s \in ended THEN "succeeded" ELSE status[s]]
    /\ watermark' = IF ended # {}
                    THEN Larger(watermark, ClosedPrefix(status', tombs))
                    ELSE watermark
    /\ finalized' = finalized \cup ended
    /\ UNCHANGED <<tombs, control, hubVars, thread, ack, cancelling, stateVars, taskVars,
                   versionVars, ran, installed, busy, aborted, linkVars, events>>

\* HandshakeGracePeriod is over: HandshakeReady holds, and the timer resends.
GraceExpires(c) ==
    /\ IsCurrent(Grace(c))
    /\ Event("grace")
    /\ Step(Grace(c), "armed", "list", {})
    /\ ready' = TRUE
    /\ UNCHANGED <<storeVars, online, readerVars, cancelling, agentVars, linkVars>>

\* The handler of a broken connection leaves.
Unregister ==
    /\ online /\ ~linked
    /\ toServer = <<>> /\ thread[Reader(conns)].at = "idle" /\ hand[conns] = NoMessage
    /\ online' = FALSE /\ ready' = FALSE
    /\ UNCHANGED <<storeVars, threadVars, agentVars, linkVars, events>>

-----------------------------------------------------------------------------
(* The link.                                                               *)

\* A prefix of what the agent sent still reaches the server.
Break ==
    /\ linked' = FALSE
    /\ toAgent' = <<>>
    /\ \E n \in 0..Len(toServer) : toServer' = SubSeq(toServer, 1, n)
    /\ UNCHANGED conns

BreakConnection ==
    /\ linked
    /\ Event("break")
    /\ Break
    /\ UNCHANGED <<serverVars, agentVars>>

\* The agent connects, sends its handshake, and the hub registers it: the
\* socket before it is closed.
Connect ==
    /\ ~linked /\ conns < MaxConns
    /\ conns' = conns + 1
    /\ linked' = TRUE
    /\ online' = TRUE /\ ready' = FALSE
    /\ thread' = [thread EXCEPT ![Grace(conns')].at = "armed"]
    /\ toAgent' = <<>>
    /\ toServer' = <<[type |-> "handshake", mark |-> mark, control |-> block,
                      records |-> records]>>
    /\ UNCHANGED <<storeVars, readerVars, cancelling, agentVars, events>>

\* The server stops and starts again: its threads and its entries are gone.
RestartServer ==
    /\ conns > 0
    /\ Event("restart")
    /\ linked' = FALSE /\ toAgent' = <<>> /\ toServer' = <<>>
    /\ online' = FALSE /\ ready' = FALSE
    /\ thread' = [t \in Threads |-> IdleThread]
    /\ ack' = [c \in Conns |-> NoAck]
    /\ hand' = [c \in Conns |-> NoMessage]
    /\ cancelling' = {}
    /\ UNCHANGED <<storeVars, agentVars, conns>>

-----------------------------------------------------------------------------
(* The agent.                                                              *)

Takes(type) ==
    /\ toAgent # <<>> /\ Head(toAgent).type = type
    /\ toAgent' = Tail(toAgent)

Report(s, new) == [type |-> "status", seq |-> s, status |-> new]

\* The server gets no answer, or one that changes nothing.
NoAnswer == UNCHANGED toServer

Answers(message) == Len(toServer) < MaxQueue /\ toServer' = Append(toServer, message)

\* beginUpdateTask of an agent that is not isolated, has its stream, and no
\* record or task in the way.
AdmitsFault(s) ==
    block = "none" /\ bound /\ s \in {mark, mark + 1} /\ task = 0

\* A command that is its turn, not known and not kept out by another one.
Admits(s) ==
    block = "none" /\ bound /\ s = mark + 1 /\ records[s] = "none" /\ task = 0

\* dispatchAgentCommand of a command that is admitted.
Admit(s) ==
    /\ Takes("command") /\ s = Head(toAgent).seq
    /\ Admits(s)
    /\ task' = s /\ stage' = "admitted" /\ taskConn' = conns
    /\ records' = [records EXCEPT ![s] = "accepted"]
    /\ UNCHANGED <<serverVars, bound, mark, block, intent, versionVars, history, conns,
                   linked, toServer, events>>

\* dispatchAgentCommand before the first ack: the stream ids differ.
QuarantineUnbound(s) ==
    /\ Takes("command") /\ s = Head(toAgent).seq
    /\ block = "none" /\ ~bound
    /\ block' = "quarantined"
    /\ UNCHANGED <<serverVars, bound, mark, records, taskVars, versionVars, history,
                   conns, linked, toServer, events>>

\* dispatchAgentCommand of a command that is not admitted: isolated, expired,
\* out of order, known, or another task is in progress.
Refuse(s) ==
    /\ Takes("command") /\ s = Head(toAgent).seq
    /\ ~Admits(s) /\ (block = "none" => bound)
    /\ CASE block # "none" \/ s < mark -> NoAnswer /\ UNCHANGED busy
         [] block = "none" /\ s > mark + 1 ->
                Answers([type |-> "gap", mark |-> mark]) /\ UNCHANGED busy
         [] block = "none" /\ s \in {mark, mark + 1} /\ records[s] # "none" ->
                Answers(Report(s, records[s])) /\ UNCHANGED busy
         [] block = "none" /\ s = mark /\ records[s] = "none" ->
                NoAnswer /\ UNCHANGED busy
         [] OTHER ->
                Answers(Report(s, "failed")) /\ busy' = busy \cup {s}
    /\ UNCHANGED <<serverVars, stateVars, taskVars, versionVars, ran, installed, aborted,
                   finalized, conns, linked, events>>

\* applyHandshakeAck.
ReceiveAck ==
    \E m \in First(toAgent) :
        /\ Takes("ack")
        /\ IF m.control # "none"
           THEN block' = m.control /\ UNCHANGED <<bound, mark>>
           ELSE /\ bound' = TRUE
                /\ mark' = Larger(mark, m.mark)
                /\ block' = IF block = "blocked" THEN "none" ELSE block
        /\ UNCHANGED <<serverVars, records, taskVars, versionVars, history, conns, linked,
                       toServer, events>>

\* handleCancelRequest: a task before its commit point may see the intent.
ReceiveCancel ==
    \E s \in Seqs :
        /\ Takes("cancel") /\ s = Head(toAgent).seq
        /\ CASE task # s -> NoAnswer /\ UNCHANGED intent
             [] task = s /\ stage = "committed" ->
                    Answers(Report(s, "accepted")) /\ UNCHANGED intent
             [] OTHER -> Answers(Report(s, "cancelled")) /\ intent' = TRUE
        /\ UNCHANGED <<serverVars, stateVars, task, stage, taskConn, versionVars, history,
                       conns, linked, events>>

\* The task reports its acceptance and starts.
StartTask ==
    /\ stage = "admitted"
    /\ linked /\ taskConn = conns
    /\ Answers(Report(task, "accepted"))
    /\ stage' = "running"
    /\ ran' = Append(ran, task)
    /\ UNCHANGED <<serverVars, stateVars, task, taskConn, intent, versionVars, installed,
                   busy, aborted, finalized, conns, linked, toAgent, events>>

\* abortUpdateTask: the connection the command came on is gone.
AbortUpdateTask ==
    /\ stage = "admitted"
    /\ ~linked \/ taskConn # conns
    /\ records' = [records EXCEPT ![task] = "none"]
    /\ aborted' = aborted \cup {task}
    /\ task' = 0 /\ stage' = "idle" /\ taskConn' = 0 /\ intent' = FALSE
    /\ UNCHANGED <<serverVars, bound, mark, block, versionVars, ran, installed, busy,
                   finalized, linkVars, events>>

\* The commit point and the rename.
CommitTask ==
    /\ stage = "running"
    /\ stage' = "committed"
    /\ installed' = installed \cup {task}
    /\ UNCHANGED <<serverVars, stateVars, task, taskConn, intent, versionVars, ran, busy,
                   aborted, finalized, linkVars, events>>

\* The verdict on the task is recorded and its sequence retired.
Settles(verdict) ==
    /\ records' = [records EXCEPT ![task] = verdict]
    /\ mark' = Larger(mark, task)
    /\ block' = IF verdict = "unknown" THEN "blocked" ELSE block
    /\ task' = 0 /\ stage' = "idle" /\ taskConn' = 0 /\ intent' = FALSE
    /\ UNCHANGED bound

\* The version file is written after the rename, if the task gets that far.
Persisted == {file} \cup IF stage = "committed" THEN {Release(task)} ELSE {}

\* finishUpdateTask, and the report on the connection of the command.
FinishTask ==
    /\ \E verdict \in CASE stage = "running" /\ intent -> {"failed", "cancelled"}
                        [] stage = "running" /\ ~intent -> {"failed"}
                        [] stage = "committed" -> {"unknown"}
                        [] OTHER -> {} :
           /\ Settles(verdict)
           /\ IF linked /\ taskConn = conns
              THEN Answers(Report(task, verdict))
              ELSE NoAnswer
    /\ file' \in Persisted
    /\ UNCHANGED <<serverVars, version, history, conns, linked, toAgent, events>>

\* A binary that was put in place is forgotten.
RecoveredFault == IF intent THEN {"cancelled"} ELSE {"failed"}

\* recoverInProgressState: the digest of the executable may be unavailable.
Recovered ==
    CASE stage = "committed" -> {"succeeded", "unknown"}
      [] stage # "committed" /\ intent -> {"cancelled"}
      [] OTHER -> {"failed"}

\* The process ends, by syscall.Exec of the new binary or a crash, and
\* loadAgentState settles the task.
Restart ==
    /\ Break
    /\ IF task = 0
       THEN UNCHANGED <<stateVars, taskVars>>
       ELSE \E verdict \in Recovered : Settles(verdict)
    /\ file' \in Persisted /\ version' = file'
    /\ UNCHANGED <<serverVars, history>>

ExecTask ==
    /\ stage = "committed" /\ Restart
    /\ file' = Release(task)
    /\ UNCHANGED events

Crash == Event("crash") /\ Restart

\* The metrics of the agent carry its version.
ReportVersion ==
    /\ linked
    /\ Event("metrics")
    /\ Answers([type |-> "metrics", version |-> version])
    /\ UNCHANGED <<serverVars, agentVars, conns, linked, toAgent>>

-----------------------------------------------------------------------------

ServerThread(t) == ListPending(t) \/ TestNext(t) \/ SendCommand(t) \/ MarkSent(t)

ReadLoop(c) ==
    \/ TakeMessage(c)
    \/ HandleHandshake(c) \/ SendAck(c) \/ HandleStatus(c) \/ HandleGap(c)
    \/ HandleMetrics(c)

AgentReads ==
    \/ \E s \in Seqs : Admit(s) \/ QuarantineUnbound(s) \/ Refuse(s)
    \/ ReceiveAck \/ ReceiveCancel

Task == StartTask \/ AbortUpdateTask \/ CommitTask \/ FinishTask \/ ExecTask

Next ==
    \/ \E s \in Seqs :
        \/ CreateCommand(s) \/ CancelCommand(s) \/ ResolveUnknown(s)
        \/ TestDelivery(s) \/ SkipOffline(s) \/ SendCancel(s)
    \/ \E t \in Threads : ServerThread(t)
    \/ \E c \in Conns : ReadLoop(c) \/ GraceExpires(c)
    \/ Unregister
    \/ BreakConnection \/ Connect \/ RestartServer
    \/ AgentReads \/ Task \/ Crash \/ ReportVersion

\* The goroutines of the server are scheduled, messages arrive unless the
\* connection breaks, and an agent without a connection connects again.
Fairness ==
    /\ WF_vars(\/ \E s \in Seqs : TestDelivery(s) \/ SkipOffline(s)
               \/ \E t \in Threads : ServerThread(t)
               \/ \E c \in Conns : ReadLoop(c))
    /\ WF_vars(Connect) /\ WF_vars(AgentReads) /\ WF_vars(Task)

Spec == Init /\ [][Next]_vars

FairSpec == Spec /\ Fairness

-----------------------------------------------------------------------------

Messages ==
    [type : {"command", "cancel"}, seq : Seqs]
        \cup [type : {"ack"}, mark : 0..MaxSeq, control : Controls]
        \cup [type : {"status"}, seq : Seqs, status : Statuses]
        \cup [type : {"gap"}, mark : 0..MaxSeq]
        \cup [type : {"metrics"}, version : Versions]
        \cup [type : {"handshake"}, mark : 0..MaxSeq, control : Controls,
              records : [Seqs -> Outcomes \cup {"none", "accepted"}]]

TypeOK ==
    /\ status \in [Seqs -> Statuses]
    /\ tombs \subseteq Seqs /\ watermark \in 0..MaxSeq /\ control \in Controls
    /\ online \in BOOLEAN /\ ready \in BOOLEAN
    /\ thread \in
           [Threads -> [at : {"idle", "test", "skip", "next", "send", "mark", "ack",
                              "list", "armed"},
                        left : SUBSET Seqs]]
    /\ ack \in [Conns -> [mark : 0..MaxSeq, control : Controls]]
    /\ hand \in [Conns -> Messages \cup {NoMessage}]
    /\ cancelling \subseteq tombs
    /\ conns \in 0..MaxConns /\ linked \in BOOLEAN
    /\ toAgent \in Seq(Messages) /\ toServer \in Seq(Messages)
    /\ bound \in BOOLEAN /\ mark \in 0..MaxSeq /\ block \in Controls
    /\ records \in [Seqs -> Outcomes \cup {"none", "accepted"}]
    /\ task \in 0..MaxSeq /\ taskConn \in 0..MaxConns
    /\ stage \in {"idle", "admitted", "running", "committed"} /\ intent \in BOOLEAN
    /\ file \in Versions /\ version \in Versions
    /\ events \in 0..MaxEvents
    /\ ran \in Seq(Seqs)
    /\ installed \subseteq Seqs /\ busy \subseteq Seqs /\ aborted \subseteq Seqs
    /\ finalized \subseteq Seqs

\* Commands run at most once and in the order they were issued, over lost
\* messages, resends, reconnections and restarts (beginUpdateTask,
\* resendPendingDeliveries): ControlPlane implements CommandExecution.
Execution ==
    INSTANCE CommandExecution
        WITH issued <- Cardinality({s \in Seqs : status[s] # "absent"}), log <- ran

ExecutionSpec == Execution!Spec

\* The agent has had a binary of version v.
HasHad(v) == v = "old" \/ \E k \in installed : Release(k) = v

\* What the server shows of a command as failed or succeeded is what happened on
\* the node.  A command that failed did not replace the binary, unless the agent
\* refused it as busy and took a copy of it later.  One that succeeded did, or
\* was ended by the version in the metrics, and then the node has had a binary
\* of its target version, if not by this command.  The commands whose outcome
\* the agent does not know are the operator's (handleAgentCommandStatus,
\* ApplyHandshakeBackfill, FinalizeUpdateJobsForNodeVersion).
ServerTruth ==
    \A s \in Seqs : records[s] # "unknown" =>
        /\ status[s] = "failed" /\ s \in installed => s \in busy
        /\ status[s] = "succeeded" =>
               s \in installed \/ (s \in finalized /\ HasHad(Release(s)))

\* "A later terminal sequence cannot skip an earlier non-terminal sequence", at
\* either end of the link: a watermark of the server or of the agent passes only
\* commands that one of them closed, whatever marks they take over from each
\* other late or again (retiredWatermarkFrom, ReconcileCommandStream,
\* applyHandshakeAck, finishUpdateTask).
RetiredHasCause ==
    \A s \in Seqs : s <= watermark \/ s <= mark =>
        status[s] \in Terminal \/ s \in tombs \/ records[s] \in Outcomes

\* The bound on connections leaves the agent without one.
OutOfConnections == ~linked /\ conns = MaxConns

\* A command that is pending reaches the agent, or is closed, or the node is
\* isolated: what a broken connection, a gap or an unfinished handshake keeps
\* back is sent again (resendPendingDeliveries).
CommandsArrive ==
    \A s \in Seqs :
        status[s] \in Open
            ~> \/ records[s] # "none" \/ mark >= s
               \/ status[s] \notin Open \/ s \in tombs
               \/ block = "quarantined" \/ (\E k \in Seqs : records[k] = "unknown")
               \/ watermark > mark \/ aborted # {} \/ OutOfConnections

\* What the comment of abortUpdateTask promises: a command whose admission was
\* reverted can be delivered again.
AbortedRedelivered ==
    \A s \in aborted :
        (/\ records[s] = "none" /\ mark < s
         /\ toServer = <<>> /\ \A c \in Conns : hand[c] = NoMessage)
            => status[s] \in Open \cup Terminal \/ s \in tombs

\* What the comment of handleAgentHandshake promises: no command reaches an
\* agent before the ack, so that none isolates an agent whose stream is right.
QuarantineHasCause == block # "quarantined"

=============================================================================
