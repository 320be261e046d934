--------------------------- MODULE CommandStream ---------------------------
(***************************************************************************)
(* The server's record of the update commands                              *)
(* (internal/store/updates_concurrency.go): the command stream of each     *)
(* node, the targets of each update job, cancel tombstones, retirements    *)
(* and the handshake reconciliation, with the handlers of internal/api     *)
(* that call them.                                                         *)
(*                                                                         *)
(* SQLite runs on one connection, so a transaction, or a statement outside *)
(* one, is one step.  ApplyHandshakeBackfill is no transaction: it reads   *)
(* the status of a target, checks the transition and writes it in separate *)
(* statements, and so does PruneUpdateDetail with the rows it deletes;     *)
(* other handlers run in between.                                          *)
(*                                                                         *)
(* What an agent reports (its stream id, its watermark, the outcome of a   *)
(* command) is any value an agent can hold: the server's database may have *)
(* been restored from a backup, so an agent can be ahead of it.            *)
(***************************************************************************)
EXTENDS Naturals, FiniteSets

CONSTANTS
    Nodes,       \* monitored nodes
    Jobs,        \* update jobs
    Handlers,    \* connection handlers that may be in a handshake at once
    Reports,     \* the execution states agents report in this instance
    Resolutions, \* the states an operator resolves an unknown target to
    MaxSeq,      \* bound: sequence numbers issued on a node
    MaxTargets,  \* bound: targets (job and node) created
    NoNode,      \* a handler with no handshake
    NoJob        \* a handler with no fact to write

Pending == {"pending"}
InProgress == {"accepted", "downloading", "verifying", "restarting"}
Active == {"dispatched"} \cup InProgress
Terminal ==
    {"succeeded", "failed", "unknown", "timeout", "cancelled",
     "offline_skipped"}
Statuses == Pending \cup Active \cup Terminal
JobStatuses == {"pending", "running", "completed", "failed", "partial_failed"}
ControlStates == {"none", "quarantined", "blocked"}

ASSUME StreamAssumption ==
    /\ MaxSeq \in Nat
    /\ MaxTargets \in Nat
    /\ Reports \subseteq Statuses
    /\ Resolutions \subseteq {"succeeded", "failed", "cancelled"}
    /\ NoNode \notin Nodes
    /\ NoJob \notin Jobs

VARIABLES
    bound,      \* nodes with a row in node_command_streams
    nextSeq,    \* next_seq
    watermark,  \* retired_watermark
    control,    \* control_state
    status,     \* the status of each target row, "absent" without a row
    seq,        \* the seq the target was created with, 0 when it never was
    jobStatus,  \* update_jobs.status, "absent" without a row
    tombs,      \* update_cancel_tombstones of each node
    retired,    \* update_sequence_retirements of each node
    deleted,    \* nodes removed by DeleteNode
    pruning,    \* rows PruneUpdateDetail selected and has not deleted yet
    stage,      \* where each handler's handshake is
    peer,       \* the node of the handshake
    job,        \* the job of the fact being written
    fact,       \* the state the agent reported for it
    saw,        \* the status ApplyHandshakeBackfill read
    cut,        \* history: facts written whose handshake ended before its end
    trusted     \* history: the highest watermark accepted from each agent

streamVars == <<bound, nextSeq, watermark, control>>
targetVars == <<status, seq, jobStatus, deleted, pruning>>
closedVars == <<tombs, retired>>
handshakeVars == <<stage, peer, job, fact, saw, cut>>
vars == <<streamVars, targetVars, closedVars, handshakeVars, trusted>>

Stages == {"idle", "reported", "reconciled", "read", "written", "blocked"}

-----------------------------------------------------------------------------

\* executionTransitions: the legal moves of the execution dimension.
Ends == Terminal \ {"offline_skipped"}
Legal(from) ==
    CASE from = "pending"     -> Statuses \ {"pending"}
      [] from = "dispatched"  -> InProgress \cup Ends
      [] from = "accepted"    -> {"downloading"} \cup Ends
      [] from = "downloading" -> {"verifying"} \cup Ends
      [] from = "verifying"   -> {"restarting"} \cup Ends
      [] from = "restarting"  -> Ends
      [] OTHER                -> {}

(* A definition named ...Fault is a seeded fault: the definition after it   *)
(* with a plausible mistake, which a property named in PROJECT.json catches. *)

\* The transition table is not consulted.
CanBecomeFault(from, to) == TRUE

\* The check both writers of the status make: the same state, or a legal move.
CanBecome(from, to) == to = from \/ to \in Legal(from)

\* A job whose agents were all offline gets a status of its own.
AggregateFault(row) ==
    LET states == {row[n] : n \in Nodes} \ {"absent"} IN
    IF states \subseteq Pending THEN "pending"
    ELSE IF states \cap (Pending \cup Active) # {} THEN "running"
    ELSE IF states = {"offline_skipped"} THEN "skipped"
    ELSE IF states = {"succeeded"} THEN "completed"
    ELSE IF "succeeded" \notin states THEN "failed"
    ELSE "partial_failed"

\* aggregateUpdateJobStatus over the rows of a job.
Aggregate(row) ==
    LET states == {row[n] : n \in Nodes} \ {"absent"} IN
    IF states \subseteq Pending THEN "pending"
    ELSE IF states \cap (Pending \cup Active) # {} THEN "running"
    ELSE IF states = {"succeeded"} THEN "completed"
    ELSE IF "succeeded" \notin states THEN "failed"
    ELSE "partial_failed"

\* The sequences of node n with a terminal row, a tombstone or a retirement.
Closed(st, tm, rt, n) ==
    {seq[j][n] : j \in {i \in Jobs : st[i][n] \in Terminal}}
        \cup tm[n] \cup rt[n]

\* The watermark jumps over a sequence that is still open.
IsRetiredPrefixFault(closed, w) == w \in closed \cup {0} /\ w + 1 \notin closed

\* retiredWatermarkFrom: w ends the contiguous prefix of the closed sequences.
IsRetiredPrefix(closed, w) == 1..w \subseteq closed /\ w + 1 \notin closed

\* The stored value is overwritten, also by a smaller one.
LargerFault(a, b) == b

Larger(a, b) == IF a < b THEN b ELSE a

AdvanceRetiredWatermark(n, closed) ==
    \E w \in 0..MaxSeq :
        /\ IsRetiredPrefix(closed, w)
        /\ watermark' = [watermark EXCEPT ![n] = Larger(@, w)]

HasRow(j, n) == status[j][n] # "absent"

\* The node is unblocked with every disposition.
UnknownLeftFault(st, n) == FALSE

\* Node n has another undisposed unknown in the rows st.
UnknownLeft(st, n) == \E j \in Jobs : st[j][n] = "unknown"

Targets == {t \in Jobs \X Nodes : seq[t[1]][t[2]] > 0}

-----------------------------------------------------------------------------

Init ==
    /\ bound = {}
    /\ nextSeq = [n \in Nodes |-> 1]
    /\ watermark = [n \in Nodes |-> 0]
    /\ control = [n \in Nodes |-> "none"]
    /\ status = [j \in Jobs |-> [n \in Nodes |-> "absent"]]
    /\ seq = [j \in Jobs |-> [n \in Nodes |-> 0]]
    /\ jobStatus = [j \in Jobs |-> "absent"]
    /\ tombs = [n \in Nodes |-> {}]
    /\ retired = [n \in Nodes |-> {}]
    /\ deleted = {}
    /\ pruning = {}
    /\ stage = [h \in Handlers |-> "idle"]
    /\ peer = [h \in Handlers |-> NoNode]
    /\ job = [h \in Handlers |-> NoJob]
    /\ fact = [h \in Handlers |-> "absent"]
    /\ saw = [h \in Handlers |-> "absent"]
    /\ cut = {}
    /\ trusted = [n \in Nodes |-> 0]

-----------------------------------------------------------------------------
(* Update jobs                                                             *)

\* handleCreateAgentUpdateJob and CreateUpdateJobWithTargets: the job, its
\* targets, their streams and one sequence per node, in one transaction.
CreateUpdateJob(j, S) ==
    /\ jobStatus[j] = "absent"
    /\ S # {}
    /\ S \cap deleted = {}
    /\ \A n \in S : nextSeq[n] <= MaxSeq
    /\ Cardinality(Targets) + Cardinality(S) <= MaxTargets
    /\ bound' = bound \cup S
    /\ nextSeq' = [n \in Nodes |-> nextSeq[n] + IF n \in S THEN 1 ELSE 0]
    /\ seq' = [seq EXCEPT ![j] =
                  [n \in Nodes |-> IF n \in S THEN nextSeq[n] ELSE 0]]
    /\ status' = [status EXCEPT ![j] =
                  [n \in Nodes |-> IF n \in S THEN "pending" ELSE "absent"]]
    /\ jobStatus' = [jobStatus EXCEPT ![j] = "pending"]
    /\ UNCHANGED <<watermark, control, deleted, pruning, closedVars,
                   handshakeVars, trusted>>

\* ApplyExecutionTransition: check, write, isolation, watermark and job status
\* in one transaction.  A rejected transition changes nothing.
ApplyExecutionTransition(j, n, st) ==
    /\ HasRow(j, n)
    /\ CanBecome(status[j][n], st)
    /\ status' = [status EXCEPT ![j][n] = st]
    /\ control' = [control EXCEPT ![n] = IF st = "unknown" THEN "blocked" ELSE @]
    /\ IF st \in Terminal
       THEN AdvanceRetiredWatermark(n, Closed(status', tombs, retired, n))
       ELSE UNCHANGED watermark
    /\ jobStatus' = [jobStatus EXCEPT ![j] = Aggregate(status'[j])]
    /\ UNCHANGED <<bound, nextSeq, seq, deleted, pruning, closedVars,
                   handshakeVars, trusted>>

\* handleAgentCommandStatus: a report of the agent, for the right sequence.
AgentReports(j, n) == \E st \in Reports : ApplyExecutionTransition(j, n, st)

\* deliverTargets and resendPendingDeliveries: the command was sent, or the
\* agent was offline when the job was created.
ServerMarks(j, n) ==
    \E st \in {"dispatched", "offline_skipped"} : ApplyExecutionTransition(j, n, st)

\* FinalizeUpdateJobsForNodeVersion: the agent came back with the version.
Finalize(j, n) ==
    /\ status[j][n] \in Active
    /\ ApplyExecutionTransition(j, n, "succeeded")

\* CreateCancelTombstone, for a target of handleCancelAgentUpdateJob, which
\* read the rows of the job before: this one may be gone by now.
CreateCancelTombstone(j, n) ==
    /\ seq[j][n] > 0
    /\ tombs' = [tombs EXCEPT ![n] = @ \cup {seq[j][n]}]
    /\ AdvanceRetiredWatermark(n, Closed(status, tombs', retired, n))
    /\ UNCHANGED <<bound, nextSeq, control, targetVars, retired, handshakeVars,
                   trusted>>

\* The status of the job is not recomputed.
ResolveUnknownTargetFault(j, n, resolution) ==
    /\ status[j][n] = "unknown"
    /\ status' = [status EXCEPT ![j][n] = resolution]
    /\ control' = [control EXCEPT ![n] = IF UnknownLeft(status', n) THEN @ ELSE "none"]
    /\ UNCHANGED <<bound, nextSeq, watermark, seq, jobStatus, deleted, pruning,
                   closedVars, handshakeVars, trusted>>

\* ResolveUnknownTarget: the operator's disposition; the last one of the node
\* unblocks it.
ResolveUnknownTarget(j, n, resolution) ==
    /\ status[j][n] = "unknown"
    /\ status' = [status EXCEPT ![j][n] = resolution]
    /\ control' = [control EXCEPT ![n] =
          IF UnknownLeft(status', n) THEN @ ELSE "none"]
    /\ jobStatus' = [jobStatus EXCEPT ![j] = Aggregate(status'[j])]
    /\ UNCHANGED <<bound, nextSeq, watermark, seq, deleted, pruning, closedVars,
                   handshakeVars, trusted>>

-----------------------------------------------------------------------------
(* Handshakes                                                              *)

\* The agent's watermark is taken over, the next sequence stays.
ReconcileCommandStreamFault(n, id, w) ==
    /\ id = "none" => w = 0
    /\ id = "same" => n \in bound
    /\ bound' = bound \cup {n}
    /\ IF control[n] # "none" \/ id = "other"
       THEN UNCHANGED <<watermark, trusted>>
       ELSE /\ watermark' = [watermark EXCEPT ![n] = Larger(@, w)]
            /\ trusted' = [trusted EXCEPT ![n] = Larger(@, w)]
    /\ control' = [control EXCEPT ![n] =
          IF @ = "none" /\ id = "other" THEN "quarantined" ELSE @]
    /\ UNCHANGED nextSeq

\* ReconcileCommandStream with the agent's stream id ("none": it has none yet,
\* "same": the server's, "other": some other) and watermark w.  A node without
\* a stream gets one under a new id, whatever id the agent has.
ReconcileCommandStream(n, id, w) ==
    /\ id = "none" => w = 0
    /\ id = "same" => n \in bound
    /\ bound' = bound \cup {n}
    /\ IF control[n] # "none"
       THEN UNCHANGED <<nextSeq, watermark, control, trusted>>
       ELSE IF id = "other"
       THEN /\ control' = [control EXCEPT ![n] = "quarantined"]
            /\ UNCHANGED <<nextSeq, watermark, trusted>>
       ELSE /\ nextSeq' = [nextSeq EXCEPT ![n] = Larger(@, w + 1)]
            /\ \E p \in 0..MaxSeq :
                  /\ IsRetiredPrefix(Closed(status, tombs, retired, n), p)
                  /\ watermark' = [watermark EXCEPT ![n] = Larger(Larger(@, w), p)]
            /\ trusted' = [trusted EXCEPT ![n] = Larger(@, w)]
            /\ UNCHANGED control

AgentIds == {"none", "same", "other"}

\* handleAgentHandshake: a quarantined agent is isolated before anything else
\* (in two transactions, of which the first only creates the stream).
ReportQuarantine(h, n) ==
    /\ stage[h] = "idle"
    /\ bound' = bound \cup {n}
    /\ control' = [control EXCEPT ![n] = "quarantined"]
    /\ stage' = [stage EXCEPT ![h] = "reported"]
    /\ peer' = [peer EXCEPT ![h] = n]
    /\ UNCHANGED <<nextSeq, watermark, targetVars, closedVars, job, fact, saw,
                   cut, trusted>>

HandshakeReconcile(h, n, id, w) ==
    /\ stage[h] = "idle" \/ (stage[h] = "reported" /\ peer[h] = n)
    /\ ReconcileCommandStream(n, id, w)
    /\ stage' = [stage EXCEPT ![h] = "reconciled"]
    /\ peer' = [peer EXCEPT ![h] = n]
    /\ UNCHANGED <<targetVars, closedVars, job, fact, saw, cut>>

\* handleAgentWS on a sequence_gap rejection reconciles with the agent's claim.
SequenceGap(n, w) ==
    /\ \E id \in {"same", "other"} : ReconcileCommandStream(n, id, w)
    /\ UNCHANGED <<targetVars, closedVars, handshakeVars>>

\* ApplyHandshakeBackfill, for a record or the in-progress task of the agent:
\* read the status and check that the reported state may follow it,
BackfillRead(h, j, st) ==
    LET n == peer[h] IN
    /\ stage[h] = "reconciled"
    /\ HasRow(j, n)
    /\ CanBecome(status[j][n], st)
    /\ stage' = [stage EXCEPT ![h] = "read"]
    /\ job' = [job EXCEPT ![h] = j]
    /\ fact' = [fact EXCEPT ![h] = st]
    /\ saw' = [saw EXCEPT ![h] = status[j][n]]
    /\ UNCHANGED <<streamVars, targetVars, closedVars, peer, cut, trusted>>

\* write it, whatever the status is by now (the row may be gone),
BackfillWrite(h) ==
    LET j == job[h]
        n == peer[h] IN
    /\ stage[h] = "read"
    /\ status' = [status EXCEPT ![j][n] = IF HasRow(j, n) THEN fact[h] ELSE @]
    /\ stage' = [stage EXCEPT ![h] = "written"]
    /\ UNCHANGED <<streamVars, seq, jobStatus, deleted, pruning, closedVars,
                   peer, job, fact, saw, cut, trusted>>

\* isolate the node when the state is unknown,
BackfillBlock(h) ==
    /\ stage[h] = "written"
    /\ fact[h] = "unknown"
    /\ control' = [control EXCEPT ![peer[h]] = "blocked"]
    /\ stage' = [stage EXCEPT ![h] = "blocked"]
    /\ UNCHANGED <<bound, nextSeq, watermark, targetVars, closedVars, peer, job,
                   fact, saw, cut, trusted>>

\* and recompute the job; the next fact follows, if there is one.
BackfillRecompute(h) ==
    /\ stage[h] = IF fact[h] = "unknown" THEN "blocked" ELSE "written"
    /\ jobStatus' = [jobStatus EXCEPT ![job[h]] = Aggregate(status[job[h]])]
    /\ stage' = [stage EXCEPT ![h] = "reconciled"]
    /\ job' = [job EXCEPT ![h] = NoJob]
    /\ fact' = [fact EXCEPT ![h] = "absent"]
    /\ saw' = [saw EXCEPT ![h] = "absent"]
    /\ UNCHANGED <<streamVars, status, seq, deleted, pruning, closedVars, peer,
                   cut, trusted>>

\* The facts are applied, or a statement failed, or the server stopped: what
\* was left of the fact being written is not done.
HandshakeDone(h) ==
    /\ stage[h] # "idle"
    /\ cut' = IF stage[h] \in {"written", "blocked"}
              THEN cut \cup {<<job[h], peer[h]>>} ELSE cut
    /\ stage' = [stage EXCEPT ![h] = "idle"]
    /\ peer' = [peer EXCEPT ![h] = NoNode]
    /\ job' = [job EXCEPT ![h] = NoJob]
    /\ fact' = [fact EXCEPT ![h] = "absent"]
    /\ saw' = [saw EXCEPT ![h] = "absent"]
    /\ UNCHANGED <<streamVars, targetVars, closedVars, trusted>>

-----------------------------------------------------------------------------
(* Retention                                                               *)

\* PruneUpdateDetail selects old rows that are neither in progress nor unknown
\* (those it gets to: it stops at the first statement that fails)
PruneSelect ==
    /\ pruning = {}
    /\ \E rows \in SUBSET {t \in Targets :
              status[t[1]][t[2]] \notin InProgress \cup {"unknown", "absent"}} :
          /\ rows # {}
          /\ pruning' = rows
    /\ UNCHANGED <<streamVars, status, seq, jobStatus, deleted, closedVars,
                   handshakeVars, trusted>>

\* The row is deleted and its sequence forgotten.
PruneTargetRowFault(j, n) ==
    /\ <<j, n>> \in pruning
    /\ pruning' = pruning \ {<<j, n>>}
    /\ status' = [status EXCEPT ![j][n] = "absent"]
    /\ AdvanceRetiredWatermark(n, Closed(status', tombs, retired, n))
    /\ UNCHANGED <<bound, nextSeq, control, seq, jobStatus, deleted, closedVars,
                   handshakeVars, trusted>>

\* and deletes them one transaction at a time, whatever they are by then.
PruneTargetRow(j, n) ==
    /\ <<j, n>> \in pruning
    /\ pruning' = pruning \ {<<j, n>>}
    /\ retired' = [retired EXCEPT ![n] = @ \cup {seq[j][n]}]
    /\ status' = [status EXCEPT ![j][n] = "absent"]
    /\ AdvanceRetiredWatermark(n, Closed(status', tombs, retired', n))
    /\ UNCHANGED <<bound, nextSeq, control, seq, jobStatus, deleted, tombs,
                   handshakeVars, trusted>>

\* DeleteNode: the node's targets go, its stream stays.
DeleteNode(n) ==
    /\ n \notin deleted
    /\ deleted' = deleted \cup {n}
    /\ status' = [j \in Jobs |-> [status[j] EXCEPT ![n] = "absent"]]
    /\ UNCHANGED <<streamVars, seq, jobStatus, pruning, closedVars,
                   handshakeVars, trusted>>

-----------------------------------------------------------------------------

Target(j, n) ==
    \/ AgentReports(j, n)
    \/ ServerMarks(j, n)
    \/ Finalize(j, n)
    \/ CreateCancelTombstone(j, n)
    \/ \E resolution \in Resolutions : ResolveUnknownTarget(j, n, resolution)
    \/ PruneTargetRow(j, n)

Handshake(h) ==
    \/ \E n \in Nodes : ReportQuarantine(h, n)
    \/ \E n \in Nodes, id \in AgentIds, w \in 0..MaxSeq :
          HandshakeReconcile(h, n, id, w)
    \/ \E j \in Jobs, st \in Reports :
          peer[h] \in Nodes /\ BackfillRead(h, j, st)
    \/ BackfillWrite(h)
    \/ BackfillBlock(h)
    \/ BackfillRecompute(h)
    \/ HandshakeDone(h)

Next ==
    \/ \E j \in Jobs, S \in SUBSET Nodes : CreateUpdateJob(j, S)
    \/ \E j \in Jobs, n \in Nodes : Target(j, n)
    \/ \E h \in Handlers : Handshake(h)
    \/ \E n \in Nodes, w \in 0..MaxSeq : SequenceGap(n, w)
    \/ PruneSelect
    \/ \E n \in Nodes : DeleteNode(n)

Spec == Init /\ [][Next]_vars

-----------------------------------------------------------------------------
(* Properties                                                              *)

\* Every variable holds a value of its kind.
TypeOK ==
    /\ bound \subseteq Nodes
    /\ nextSeq \in [Nodes -> 1..MaxSeq + 1]
    /\ watermark \in [Nodes -> 0..MaxSeq]
    /\ control \in [Nodes -> ControlStates]
    /\ status \in [Jobs -> [Nodes -> Statuses \cup {"absent"}]]
    /\ seq \in [Jobs -> [Nodes -> 0..MaxSeq]]
    /\ jobStatus \in [Jobs -> JobStatuses \cup {"absent"}]
    /\ tombs \in [Nodes -> SUBSET (1..MaxSeq)]
    /\ retired \in [Nodes -> SUBSET (1..MaxSeq)]
    /\ deleted \subseteq Nodes
    /\ pruning \subseteq Jobs \X Nodes
    /\ stage \in [Handlers -> Stages]
    /\ peer \in [Handlers -> Nodes \cup {NoNode}]
    /\ job \in [Handlers -> Jobs \cup {NoJob}]
    /\ fact \in [Handlers -> Statuses \cup {"absent"}]
    /\ saw \in [Handlers -> Statuses \cup {"absent"}]
    /\ cut \subseteq Jobs \X Nodes
    /\ trusted \in [Nodes -> 0..MaxSeq]

\* A sequence is never reused: on a node no two jobs hold the same sequence
\* and the next one is above them all, also after the reconciliation jumped.
SequenceUnique ==
    /\ \A i, j \in Jobs : \A n \in Nodes :
          i # j /\ seq[i][n] > 0 => seq[i][n] # seq[j][n]
    /\ \A j \in Jobs, n \in Nodes : seq[j][n] < nextSeq[n]

\* No command is retired before it is issued: a new command is always above
\* the watermark, whatever watermark an agent came back with.
WatermarkBelowNext == \A n \in Nodes : watermark[n] < nextSeq[n]

\* Sequences and watermarks only move forward.
StreamOnlyMovesForward ==
    [][\A n \in Nodes : nextSeq'[n] >= nextSeq[n] /\ watermark'[n] >= watermark[n]]_vars

\* "A later terminal sequence cannot skip an earlier non-terminal sequence":
\* the watermark passes a sequence only when the agent claimed to have retired
\* it, or when it is closed by an outcome, a tombstone or a retirement.
WatermarkSkipsNothing ==
    [][\A n \in Nodes : \A s \in watermark[n] + 1..watermark'[n] :
          s <= trusted'[n] \/ s \in Closed(status, tombs, retired, n)']_vars

\* No sequence is lost: while the node exists, every sequence issued to it has
\* a row or is closed, but for those its agent claimed (after a restore they may
\* have no record here).  Pruning must not lose one, although it may delete a
\* row that came back into progress.  This is the server's half of "no permanent
\* sequence gap appears" only: a row may be one that is not sent any more, and
\* the count of retiredWatermarkFrom, which starts at 1, does not get over a
\* claimed sequence without a record (see the README).
NoSequenceLost ==
    \A n \in Nodes \ deleted : \A s \in trusted[n] + 1..nextSeq[n] - 1 :
        \/ s \in Closed(status, tombs, retired, n)
        \/ \E j \in Jobs : HasRow(j, n) /\ seq[j][n] = s

\* An undisposed unknown isolates its node, except between the two statements
\* in which a handshake writes the state and blocks the node, or when that
\* handshake ended between them.
UnknownIsolated ==
    \A j \in Jobs, n \in Nodes : status[j][n] = "unknown" =>
        \/ control[n] # "none"
        \/ \E h \in Handlers :
              /\ stage[h] = "written" /\ fact[h] = "unknown"
              /\ peer[h] = n /\ job[h] = j
        \/ <<j, n>> \in cut

\* An outcome changes in four ways only: the operator disposes of an unknown; a
\* handshake writes over an outcome that came after its read; the node is
\* removed; and a retention run deletes a row it selected, which leaves its
\* sequence closed.  The last is a divergence from "unknown ... records are never
\* silently deleted": a row may have become unknown after it was selected.
OutcomeKept ==
    [][\A j \in Jobs, n \in Nodes :
          status[j][n] \in Terminal /\ status'[j][n] # status[j][n] =>
              \/ status[j][n] = "unknown" /\ status'[j][n] \in Resolutions
              \/ \E h \in Handlers :
                    /\ stage[h] = "read" /\ stage'[h] = "written"
                    /\ peer[h] = n /\ job[h] = j
                    /\ saw[h] # status[j][n]
                    /\ CanBecome(saw[h], status'[j][n])
              \/ status'[j][n] = "absent" /\ n \in deleted' \ deleted
              \/ /\ status'[j][n] = "absent" /\ <<j, n>> \in pruning \ pruning'
                 /\ seq[j][n] \in retired'[n]]_vars

\* The status of a job is the aggregate of its rows, as long as none was
\* removed and no handshake wrote one and did not recompute it, or not yet.
JobStatusFresh ==
    \A j \in Jobs :
        (/\ jobStatus[j] # "absent"
         /\ \A n \in Nodes : seq[j][n] > 0 => HasRow(j, n)
         /\ \A h \in Handlers : stage[h] \in {"written", "blocked"} => job[h] # j
         /\ \A n \in Nodes : <<j, n>> \notin cut)
        => jobStatus[j] = Aggregate(status[j])

\* The store implements the ledger of commands.
Ledger == INSTANCE CommandLedger WITH
    issued <- {c \in [node : Nodes, seq : 1..MaxSeq, job : Jobs] :
                  seq[c.job][c.node] = c.seq}

LedgerSpec == Ledger!Spec

\* What comments of the code claim and the code does not do (see the README).
\* "After resolution the node's control plane is unblocked if no other
\* undisposed unknown remains": a blocked node that kept its rows has an
\* unknown to resolve, without which nothing ever unblocks it.
BlockedHasCause ==
    \A n \in Nodes :
        (/\ control[n] = "blocked"
         /\ \A j \in Jobs : seq[j][n] > 0 => HasRow(j, n))
        => \E j \in Jobs : status[j][n] = "unknown"

=============================================================================
