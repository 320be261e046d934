------------------------ MODULE CommandStreamProofs ------------------------
(***************************************************************************)
(* Proofs about CommandStream, for every set of nodes, jobs and handlers   *)
(* and every bound.  StreamInv is the inductive invariant; the safety      *)
(* properties, the action properties and the refinement of CommandLedger   *)
(* follow from it.                                                         *)
(***************************************************************************)
EXTENDS CommandStream, TLAPS

USE StreamAssumption DEF UnknownLeft

\* A row, and a row that is being pruned, was issued under a sequence; a job
\* that was not created has no target.
RowsIssued ==
    /\ \A j \in Jobs, n \in Nodes : HasRow(j, n) => seq[j][n] > 0
    /\ \A t \in pruning : seq[t[1]][t[2]] > 0
    /\ \A j \in Jobs, n \in Nodes : jobStatus[j] = "absent" => seq[j][n] = 0

\* A handler that is writing a fact knows the node, the job and the state, and
\* the state may follow the status it read.
HandshakeOK ==
    \A h \in Handlers :
        /\ stage[h] # "idle" => peer[h] \in Nodes
        /\ stage[h] \in {"read", "written", "blocked"} =>
              /\ job[h] \in Jobs
              /\ fact[h] \in Statuses
        /\ stage[h] = "read" =>
              /\ saw[h] \in Statuses
              /\ CanBecome(saw[h], fact[h])

\* The streams know every sequence that was closed.
ClosedIssued ==
    \A n \in Nodes : \A s \in tombs[n] \cup retired[n] : s < nextSeq[n]

TypeInv == TypeOK /\ RowsIssued /\ HandshakeOK

StreamInv == TypeInv /\ ClosedIssued /\ SequenceUnique /\ WatermarkBelowNext

-----------------------------------------------------------------------------
(* The steps of the specification, each action once                        *)

LEMMA NextCases ==
    ASSUME Next
    PROVE  \/ \E j \in Jobs, S \in SUBSET Nodes : CreateUpdateJob(j, S)
           \/ \E j \in Jobs, n \in Nodes, st \in Statuses :
                 ApplyExecutionTransition(j, n, st)
           \/ \E j \in Jobs, n \in Nodes : CreateCancelTombstone(j, n)
           \/ \E j \in Jobs, n \in Nodes, r \in Resolutions :
                 ResolveUnknownTarget(j, n, r)
           \/ \E j \in Jobs, n \in Nodes : PruneTargetRow(j, n)
           \/ \E h \in Handlers, n \in Nodes : ReportQuarantine(h, n)
           \/ \E h \in Handlers, n \in Nodes, id \in AgentIds, w \in 0..MaxSeq :
                 HandshakeReconcile(h, n, id, w)
           \/ \E h \in Handlers, j \in Jobs, st \in Statuses :
                 peer[h] \in Nodes /\ BackfillRead(h, j, st)
           \/ \E h \in Handlers : BackfillWrite(h)
           \/ \E h \in Handlers : BackfillBlock(h)
           \/ \E h \in Handlers : BackfillRecompute(h)
           \/ \E h \in Handlers : HandshakeDone(h)
           \/ \E n \in Nodes, w \in 0..MaxSeq : SequenceGap(n, w)
           \/ PruneSelect
           \/ \E n \in Nodes : DeleteNode(n)
<1>1. "dispatched" \in Statuses /\ "offline_skipped" \in Statuses
      /\ "succeeded" \in Statuses
  BY DEF Statuses, Active, Terminal
<1>2. ASSUME NEW j \in Jobs, NEW n \in Nodes, Target(j, n)
      PROVE  \/ \E st \in Statuses : ApplyExecutionTransition(j, n, st)
             \/ CreateCancelTombstone(j, n)
             \/ \E r \in Resolutions : ResolveUnknownTarget(j, n, r)
             \/ PruneTargetRow(j, n)
  BY <1>1, <1>2 DEF Target, AgentReports, ServerMarks, Finalize
<1>3. ASSUME NEW h \in Handlers, Handshake(h)
      PROVE  \/ \E n \in Nodes : ReportQuarantine(h, n)
             \/ \E n \in Nodes, id \in AgentIds, w \in 0..MaxSeq :
                   HandshakeReconcile(h, n, id, w)
             \/ \E j \in Jobs, st \in Statuses :
                   peer[h] \in Nodes /\ BackfillRead(h, j, st)
             \/ BackfillWrite(h) \/ BackfillBlock(h)
             \/ BackfillRecompute(h) \/ HandshakeDone(h)
  BY <1>3 DEF Handshake
<1> QED
  BY <1>2, <1>3, Zenon DEF Next

\* What the aggregate of a job can be.
LEMMA AggregateType ==
    ASSUME NEW row
    PROVE  Aggregate(row) \in JobStatuses
BY DEF Aggregate, JobStatuses

\* A watermark that was advanced is still one.
LEMMA AdvanceType ==
    ASSUME watermark \in [Nodes -> 0..MaxSeq], NEW n \in Nodes, NEW closed,
           AdvanceRetiredWatermark(n, closed)
    PROVE  watermark' \in [Nodes -> 0..MaxSeq]
BY DEF AdvanceRetiredWatermark, Larger

LEMMA ReconcileType ==
    ASSUME TypeOK, NEW n \in Nodes, NEW id, NEW w \in 0..MaxSeq,
           ReconcileCommandStream(n, id, w)
    PROVE  /\ bound' \subseteq Nodes
           /\ nextSeq' \in [Nodes -> 1..MaxSeq + 1]
           /\ watermark' \in [Nodes -> 0..MaxSeq]
           /\ control' \in [Nodes -> ControlStates]
           /\ trusted' \in [Nodes -> 0..MaxSeq]
<1> USE DEF TypeOK, ReconcileCommandStream, ControlStates, Larger
<1>1. CASE control[n] # "none"
  BY <1>1
<1>2. CASE control[n] = "none" /\ id = "other"
  BY <1>2
<1>3. CASE control[n] = "none" /\ id # "other"
  <2>1. nextSeq' \in [Nodes -> 1..MaxSeq + 1]
    BY <1>3
  <2>2. watermark' \in [Nodes -> 0..MaxSeq]
    <3>1. PICK p \in 0..MaxSeq :
             watermark' = [watermark EXCEPT ![n] = Larger(Larger(@, w), p)]
      BY <1>3
    <3> HIDE DEF ReconcileCommandStream
    <3> QED
      BY <3>1
  <2>3. trusted' \in [Nodes -> 0..MaxSeq]
    BY <1>3
  <2> QED
    BY <1>3, <2>1, <2>2, <2>3
<1> QED
  BY <1>1, <1>2, <1>3

-----------------------------------------------------------------------------
(* Types                                                                   *)

LEMMA TypeInvInit == Init => TypeInv
BY DEF Init, TypeInv, TypeOK, RowsIssued, HandshakeOK, HasRow, ControlStates,
       Stages, Statuses, Pending, JobStatuses

LEMMA CreateType ==
    ASSUME TypeInv, NEW j \in Jobs, NEW S \in SUBSET Nodes, CreateUpdateJob(j, S)
    PROVE  TypeInv'
<1> USE DEF TypeInv, CreateUpdateJob
<1>1. TypeOK'
  <2>1. nextSeq' \in [Nodes -> 1..MaxSeq + 1]
    BY DEF TypeOK
  <2>2. seq' \in [Jobs -> [Nodes -> 0..MaxSeq]]
    <3>1. [n \in Nodes |-> IF n \in S THEN nextSeq[n] ELSE 0] \in [Nodes -> 0..MaxSeq]
      BY DEF TypeOK
    <3> QED
      BY <3>1 DEF TypeOK
  <2>3. status' \in [Jobs -> [Nodes -> Statuses \cup {"absent"}]]
    BY DEF TypeOK, Statuses, Pending
  <2>4. jobStatus' \in [Jobs -> JobStatuses \cup {"absent"}]
    BY DEF TypeOK, JobStatuses
  <2> QED
    BY <2>1, <2>2, <2>3, <2>4 DEF TypeOK, closedVars, handshakeVars
<1>2. RowsIssued'
  <2>1. ASSUME NEW i \in Jobs, NEW n \in Nodes
        PROVE  /\ HasRow(i, n)' => seq'[i][n] > 0
               /\ jobStatus'[i] = "absent" => seq'[i][n] = 0
    BY <2>1 DEF TypeOK, RowsIssued, HasRow
  <2>2. ASSUME NEW t \in pruning'
        PROVE  seq'[t[1]][t[2]] > 0
    BY <2>2 DEF TypeOK, RowsIssued
  <2> QED
    BY <2>1, <2>2 DEF RowsIssued
<1>3. HandshakeOK'
  BY DEF HandshakeOK, handshakeVars, CanBecome
<1> QED
  BY <1>1, <1>2, <1>3

LEMMA ApplyType ==
    ASSUME TypeInv, NEW j \in Jobs, NEW n \in Nodes, NEW st \in Statuses,
           ApplyExecutionTransition(j, n, st)
    PROVE  TypeInv'
<1> USE DEF TypeInv, ApplyExecutionTransition
<1>1. TypeOK'
  <2>1. watermark' \in [Nodes -> 0..MaxSeq]
    BY AdvanceType DEF TypeOK
  <2>2. jobStatus' \in [Jobs -> JobStatuses \cup {"absent"}]
    BY AggregateType DEF TypeOK
  <2>3. control' \in [Nodes -> ControlStates]
    BY DEF TypeOK, ControlStates
  <2>4. status' \in [Jobs -> [Nodes -> Statuses \cup {"absent"}]]
    BY DEF TypeOK
  <2> QED
    BY <2>1, <2>2, <2>3, <2>4 DEF TypeOK, closedVars, handshakeVars
<1>2. RowsIssued'
  <2>1. jobStatus[j] # "absent"
    BY DEF TypeOK, RowsIssued
  <2>2. jobStatus'[j] # "absent"
    <3>1. jobStatus'[j] = Aggregate(status'[j])
      BY DEF TypeOK
    <3> QED
      BY <3>1, AggregateType DEF JobStatuses
  <2> QED
    BY <2>1, <2>2 DEF TypeOK, RowsIssued, HasRow
<1>3. HandshakeOK'
  BY DEF HandshakeOK, handshakeVars, CanBecome
<1> QED
  BY <1>1, <1>2, <1>3

LEMMA TombstoneType ==
    ASSUME TypeInv, NEW j \in Jobs, NEW n \in Nodes, CreateCancelTombstone(j, n)
    PROVE  TypeInv'
<1> USE DEF TypeInv, CreateCancelTombstone
<1>1. TypeOK'
  <2>1. seq[j][n] \in 1..MaxSeq
    BY DEF TypeOK, RowsIssued
  <2>2. tombs' \in [Nodes -> SUBSET (1..MaxSeq)]
    BY <2>1 DEF TypeOK
  <2>3. watermark' \in [Nodes -> 0..MaxSeq]
    BY AdvanceType DEF TypeOK
  <2> QED
    BY <2>2, <2>3 DEF TypeOK, targetVars, handshakeVars
<1>2. RowsIssued' /\ HandshakeOK'
  BY DEF RowsIssued, HandshakeOK, HasRow, CanBecome, targetVars, handshakeVars
<1> QED
  BY <1>1, <1>2

LEMMA ResolveType ==
    ASSUME TypeInv, NEW j \in Jobs, NEW n \in Nodes, NEW r \in Resolutions,
           ResolveUnknownTarget(j, n, r)
    PROVE  TypeInv'
<1> USE DEF TypeInv, ResolveUnknownTarget
<1>0. r \in Statuses
  BY DEF Statuses, Terminal
<1>1. TypeOK'
  <2>1. jobStatus' \in [Jobs -> JobStatuses \cup {"absent"}]
    BY AggregateType DEF TypeOK
  <2>2. control' \in [Nodes -> ControlStates]
    BY DEF TypeOK, ControlStates
  <2>3. status' \in [Jobs -> [Nodes -> Statuses \cup {"absent"}]]
    BY <1>0 DEF TypeOK
  <2> QED
    BY <2>1, <2>2, <2>3 DEF TypeOK, closedVars, handshakeVars
<1>2. RowsIssued'
  <2>1. seq[j][n] > 0 /\ jobStatus[j] # "absent"
    BY DEF TypeOK, RowsIssued, HasRow
  <2>2. jobStatus'[j] # "absent"
    <3>1. jobStatus'[j] = Aggregate(status'[j])
      BY DEF TypeOK
    <3> QED
      BY <3>1, AggregateType DEF JobStatuses
  <2> QED
    BY <2>1, <2>2 DEF TypeOK, RowsIssued, HasRow
<1>3. HandshakeOK'
  BY DEF HandshakeOK, handshakeVars, CanBecome
<1> QED
  BY <1>1, <1>2, <1>3

LEMMA PruneRowType ==
    ASSUME TypeInv, NEW j \in Jobs, NEW n \in Nodes, PruneTargetRow(j, n)
    PROVE  TypeInv'
<1> USE DEF TypeInv, PruneTargetRow
<1>1. TypeOK'
  <2>1. seq[j][n] \in 1..MaxSeq
    BY DEF TypeOK, RowsIssued
  <2>2. retired' \in [Nodes -> SUBSET (1..MaxSeq)]
    BY <2>1 DEF TypeOK
  <2>3. watermark' \in [Nodes -> 0..MaxSeq]
    BY AdvanceType DEF TypeOK
  <2>4. status' \in [Jobs -> [Nodes -> Statuses \cup {"absent"}]]
    BY DEF TypeOK
  <2> QED
    BY <2>2, <2>3, <2>4 DEF TypeOK, handshakeVars
<1>2. RowsIssued'
  BY DEF TypeOK, RowsIssued, HasRow
<1>3. HandshakeOK'
  BY DEF HandshakeOK, handshakeVars, CanBecome
<1> QED
  BY <1>1, <1>2, <1>3

LEMMA HandshakeStepType ==
    ASSUME TypeInv, NEW h \in Handlers, NEW n \in Nodes,
           \/ ReportQuarantine(h, n)
           \/ \E id \in AgentIds, w \in 0..MaxSeq : HandshakeReconcile(h, n, id, w)
    PROVE  TypeInv'
<1> USE DEF TypeInv
<1>1. CASE ReportQuarantine(h, n)
  <2>1. TypeOK'
    BY <1>1 DEF ReportQuarantine, TypeOK, ControlStates, Stages, targetVars, closedVars
  <2>2. RowsIssued'
    BY <1>1 DEF ReportQuarantine, RowsIssued, HasRow, targetVars
  <2>3. HandshakeOK'
    BY <1>1 DEF ReportQuarantine, TypeOK, HandshakeOK, CanBecome
  <2> QED
    BY <2>1, <2>2, <2>3
<1>2. ASSUME NEW id \in AgentIds, NEW w \in 0..MaxSeq, HandshakeReconcile(h, n, id, w)
      PROVE  TypeInv'
  <2>1. TypeOK'
    BY <1>2, ReconcileType DEF HandshakeReconcile, TypeOK, Stages, targetVars, closedVars
  <2>2. RowsIssued'
    BY <1>2 DEF HandshakeReconcile, RowsIssued, HasRow, targetVars
  <2>3. HandshakeOK'
    BY <1>2 DEF HandshakeReconcile, TypeOK, HandshakeOK, CanBecome
  <2> QED
    BY <2>1, <2>2, <2>3
<1> QED
  BY <1>1, <1>2

LEMMA BackfillType ==
    ASSUME TypeInv, NEW h \in Handlers,
           \/ \E j \in Jobs, st \in Statuses : peer[h] \in Nodes /\ BackfillRead(h, j, st)
           \/ BackfillWrite(h) \/ BackfillBlock(h)
           \/ BackfillRecompute(h) \/ HandshakeDone(h)
    PROVE  TypeInv'
<1> USE DEF TypeInv
<1>1. ASSUME NEW j \in Jobs, NEW st \in Statuses, peer[h] \in Nodes, BackfillRead(h, j, st)
      PROVE  TypeInv'
  <2>0. status[j][peer[h]] \in Statuses
    BY <1>1 DEF BackfillRead, HasRow, TypeOK
  <2>1. TypeOK'
    BY <1>1, <2>0 DEF BackfillRead, TypeOK, Stages, streamVars, targetVars, closedVars
  <2>2. RowsIssued'
    BY <1>1 DEF BackfillRead, RowsIssued, HasRow, targetVars
  <2>3. HandshakeOK'
    BY <1>1, <2>0 DEF BackfillRead, TypeOK, HandshakeOK, CanBecome
  <2> QED
    BY <2>1, <2>2, <2>3
<1>2. CASE BackfillWrite(h)
  <2>0. job[h] \in Jobs /\ peer[h] \in Nodes /\ fact[h] \in Statuses
    BY <1>2 DEF BackfillWrite, HandshakeOK
  <2>1. status' \in [Jobs -> [Nodes -> Statuses \cup {"absent"}]]
    BY <1>2, <2>0 DEF BackfillWrite, TypeOK
  <2>2. TypeOK'
    BY <1>2, <2>1 DEF BackfillWrite, TypeOK, Stages, streamVars, closedVars
  <2>3. RowsIssued'
    BY <1>2, <2>0 DEF BackfillWrite, TypeOK, RowsIssued, HasRow
  <2>4. HandshakeOK'
    BY <1>2 DEF BackfillWrite, TypeOK, HandshakeOK, CanBecome
  <2> QED
    BY <2>2, <2>3, <2>4
<1>3. CASE BackfillBlock(h)
  <2>1. TypeOK'
    BY <1>3 DEF BackfillBlock, TypeOK, ControlStates, Stages, targetVars, closedVars
  <2>2. RowsIssued'
    BY <1>3 DEF BackfillBlock, RowsIssued, HasRow, targetVars
  <2>3. HandshakeOK'
    BY <1>3 DEF BackfillBlock, TypeOK, HandshakeOK, CanBecome
  <2> QED
    BY <2>1, <2>2, <2>3
<1>4. CASE BackfillRecompute(h)
  <2>0. job[h] \in Jobs
    BY <1>4 DEF BackfillRecompute, HandshakeOK
  <2>1. jobStatus' \in [Jobs -> JobStatuses \cup {"absent"}]
    BY <1>4, <2>0, AggregateType DEF BackfillRecompute, TypeOK
  <2>2. TypeOK'
    BY <1>4, <2>1 DEF BackfillRecompute, TypeOK, Stages, streamVars, closedVars
  <2>3. \A i \in Jobs : jobStatus'[i] = "absent" => jobStatus[i] = "absent"
    <3>1. jobStatus'[job[h]] = Aggregate(status[job[h]])
      BY <1>4, <2>0 DEF BackfillRecompute, TypeOK
    <3>2. jobStatus'[job[h]] # "absent"
      BY <3>1, AggregateType DEF JobStatuses
    <3> QED
      BY <1>4, <3>2 DEF BackfillRecompute, TypeOK
  <2>4. RowsIssued'
    BY <1>4, <2>3 DEF BackfillRecompute, RowsIssued, HasRow
  <2>5. HandshakeOK'
    BY <1>4 DEF BackfillRecompute, TypeOK, HandshakeOK, CanBecome
  <2> QED
    BY <2>2, <2>4, <2>5
<1>5. CASE HandshakeDone(h)
  <2>1. TypeOK'
    BY <1>5 DEF HandshakeDone, HandshakeOK, TypeOK, Stages, streamVars, targetVars,
                closedVars
  <2>2. RowsIssued'
    BY <1>5 DEF HandshakeDone, RowsIssued, HasRow, targetVars
  <2>3. HandshakeOK'
    BY <1>5 DEF HandshakeDone, TypeOK, HandshakeOK, CanBecome
  <2> QED
    BY <2>1, <2>2, <2>3
<1> QED
  BY <1>1, <1>2, <1>3, <1>4, <1>5

LEMMA OtherType ==
    ASSUME TypeInv,
           \/ \E n \in Nodes, w \in 0..MaxSeq : SequenceGap(n, w)
           \/ PruneSelect
           \/ \E n \in Nodes : DeleteNode(n)
           \/ UNCHANGED vars
    PROVE  TypeInv'
<1> USE DEF TypeInv
<1>1. ASSUME NEW n \in Nodes, NEW w \in 0..MaxSeq, SequenceGap(n, w)
      PROVE  TypeInv'
  <2>1. TypeOK'
    BY <1>1, ReconcileType DEF SequenceGap, TypeOK, targetVars, closedVars, handshakeVars
  <2>2. RowsIssued'
    BY <1>1 DEF SequenceGap, RowsIssued, HasRow, targetVars
  <2>3. HandshakeOK'
    BY <1>1 DEF SequenceGap, HandshakeOK, CanBecome, handshakeVars
  <2> QED
    BY <2>1, <2>2, <2>3
<1>2. CASE PruneSelect
  <2>1. PICK rows \in SUBSET {t \in Targets :
              status[t[1]][t[2]] \notin InProgress \cup {"unknown", "absent"}} :
           pruning' = rows
    BY <1>2 DEF PruneSelect
  <2>2. TypeOK'
    BY <1>2, <2>1 DEF PruneSelect, Targets, TypeOK, streamVars, closedVars, handshakeVars
  <2>3. RowsIssued'
    BY <1>2, <2>1 DEF PruneSelect, Targets, RowsIssued, HasRow
  <2>4. HandshakeOK'
    BY <1>2 DEF PruneSelect, HandshakeOK, CanBecome, handshakeVars
  <2> QED
    BY <2>2, <2>3, <2>4
<1>3. ASSUME NEW n \in Nodes, DeleteNode(n)
      PROVE  TypeInv'
  <2>1. status' \in [Jobs -> [Nodes -> Statuses \cup {"absent"}]]
    BY <1>3 DEF DeleteNode, TypeOK
  <2>2. TypeOK'
    BY <1>3, <2>1 DEF DeleteNode, TypeOK, streamVars, closedVars, handshakeVars
  <2>3. RowsIssued'
    BY <1>3 DEF DeleteNode, TypeOK, RowsIssued, HasRow
  <2>4. HandshakeOK'
    BY <1>3 DEF DeleteNode, HandshakeOK, CanBecome, handshakeVars
  <2> QED
    BY <2>2, <2>3, <2>4
<1>4. CASE UNCHANGED vars
  BY <1>4 DEF vars, streamVars, targetVars, closedVars, handshakeVars, TypeOK,
              RowsIssued, HasRow, HandshakeOK, CanBecome
<1> QED
  BY <1>1, <1>2, <1>3, <1>4

LEMMA TypeInvNext == TypeInv /\ [Next]_vars => TypeInv'
<1> SUFFICES ASSUME TypeInv, [Next]_vars PROVE TypeInv'
  OBVIOUS
<1>1. CASE Next
  BY <1>1, NextCases, CreateType, ApplyType, TombstoneType, ResolveType,
     PruneRowType, HandshakeStepType, BackfillType, OtherType
<1>2. CASE UNCHANGED vars
  BY <1>2, OtherType
<1> QED
  BY <1>1, <1>2

\* Type correctness, in every instance.
THEOREM TypeCorrect == Spec => []TypeOK
<1>1. Spec => []TypeInv
  BY TypeInvInit, TypeInvNext, PTL DEF Spec
<1>2. TypeInv => TypeOK
  BY DEF TypeInv
<1> QED
  BY <1>1, <1>2, PTL

-----------------------------------------------------------------------------
(* The streams                                                             *)

\* Everything a node closed was issued to it.
LEMMA ClosedBelowNext ==
    ASSUME SequenceUnique, NEW n \in Nodes, NEW st, NEW tm, NEW rt,
           \A s \in tm[n] \cup rt[n] : s < nextSeq[n]
    PROVE  \A s \in Closed(st, tm, rt, n) : s < nextSeq[n]
BY DEF Closed, SequenceUnique

\* The contiguous prefix of closed sequences ends below the next sequence.
LEMMA PrefixBelowNext ==
    ASSUME TypeOK, NEW n \in Nodes, NEW closed, NEW w \in 0..MaxSeq,
           \A s \in closed : s < nextSeq[n],
           IsRetiredPrefix(closed, w)
    PROVE  w < nextSeq[n]
<1>1. CASE w = 0
  BY <1>1 DEF TypeOK
<1>2. CASE w # 0
  <2>1. w \in 1..w
    BY <1>2
  <2> QED
    BY <2>1 DEF IsRetiredPrefix
<1> QED
  BY <1>1, <1>2

LEMMA AdvanceBelowNext ==
    ASSUME TypeOK, WatermarkBelowNext, NEW n \in Nodes, NEW closed,
           \A s \in closed : s < nextSeq[n],
           AdvanceRetiredWatermark(n, closed),
           nextSeq' = nextSeq
    PROVE  /\ WatermarkBelowNext'
           /\ \A m \in Nodes : watermark'[m] >= watermark[m]
<1>1. PICK w \in 0..MaxSeq :
         /\ IsRetiredPrefix(closed, w)
         /\ watermark' = [watermark EXCEPT ![n] = Larger(@, w)]
  BY DEF AdvanceRetiredWatermark
<1>2. w < nextSeq[n]
  BY <1>1, PrefixBelowNext
<1> QED
  BY <1>1, <1>2 DEF TypeOK, WatermarkBelowNext, Larger

LEMMA ReconcileStream ==
    ASSUME StreamInv, NEW n \in Nodes, NEW id, NEW w \in 0..MaxSeq,
           ReconcileCommandStream(n, id, w)
    PROVE  /\ WatermarkBelowNext'
           /\ \A m \in Nodes : /\ nextSeq'[m] >= nextSeq[m]
                               /\ watermark'[m] >= watermark[m]
<1> USE DEF StreamInv, TypeInv
<1>1. CASE control[n] # "none" \/ id = "other"
  BY <1>1 DEF ReconcileCommandStream, TypeOK, WatermarkBelowNext
<1>2. CASE control[n] = "none" /\ id # "other"
  <2>1. PICK p \in 0..MaxSeq :
           /\ IsRetiredPrefix(Closed(status, tombs, retired, n), p)
           /\ watermark' = [watermark EXCEPT ![n] = Larger(Larger(@, w), p)]
    BY <1>2 DEF ReconcileCommandStream
  <2>2. nextSeq' = [nextSeq EXCEPT ![n] = Larger(@, w + 1)]
    BY <1>2 DEF ReconcileCommandStream
  <2>3. p < nextSeq[n]
    <3>1. \A s \in Closed(status, tombs, retired, n) : s < nextSeq[n]
      BY ClosedBelowNext DEF ClosedIssued
    <3> QED
      BY <2>1, <3>1, PrefixBelowNext
  <2> QED
    BY <2>1, <2>2, <2>3 DEF TypeOK, WatermarkBelowNext, Larger
<1> QED
  BY <1>1, <1>2

LEMMA StreamInvInit == Init => StreamInv
<1>1. Init => ClosedIssued /\ SequenceUnique /\ WatermarkBelowNext
  BY DEF Init, ClosedIssued, SequenceUnique, WatermarkBelowNext
<1> QED
  BY <1>1, TypeInvInit DEF StreamInv

LEMMA CreateStream ==
    ASSUME StreamInv, NEW j \in Jobs, NEW S \in SUBSET Nodes, CreateUpdateJob(j, S)
    PROVE  ClosedIssued' /\ SequenceUnique' /\ WatermarkBelowNext'
<1> USE DEF StreamInv, TypeInv, CreateUpdateJob
<1>1. ClosedIssued'
  BY DEF ClosedIssued, TypeOK, closedVars
<1>2. WatermarkBelowNext'
  BY DEF WatermarkBelowNext, TypeOK
<1>3. SequenceUnique'
  <2>1. \A i \in Jobs, n \in Nodes : seq'[i][n] =
           IF i = j THEN (IF n \in S THEN nextSeq[n] ELSE 0) ELSE seq[i][n]
    BY DEF TypeOK
  <2>2. \A n \in Nodes : nextSeq'[n] = nextSeq[n] + IF n \in S THEN 1 ELSE 0
    OBVIOUS
  <2> QED
    BY <2>1, <2>2 DEF SequenceUnique, TypeOK
<1> QED
  BY <1>1, <1>2, <1>3

LEMMA StreamStep ==
    ASSUME StreamInv, [Next]_vars
    PROVE  /\ ClosedIssued' /\ SequenceUnique' /\ WatermarkBelowNext'
           /\ \A m \in Nodes : /\ nextSeq'[m] >= nextSeq[m]
                               /\ watermark'[m] >= watermark[m]
<1> DEFINE Goal == /\ ClosedIssued' /\ SequenceUnique' /\ WatermarkBelowNext'
                   /\ \A m \in Nodes : /\ nextSeq'[m] >= nextSeq[m]
                                       /\ watermark'[m] >= watermark[m]
<1> USE DEF StreamInv, TypeInv
<1>1. ASSUME NEW j \in Jobs, NEW S \in SUBSET Nodes, CreateUpdateJob(j, S)
      PROVE  Goal
  <2>1. \A m \in Nodes : nextSeq'[m] >= nextSeq[m] /\ watermark'[m] >= watermark[m]
    BY <1>1 DEF CreateUpdateJob, TypeOK
  <2> QED
    BY <1>1, <2>1, CreateStream
<1>2. ASSUME NEW j \in Jobs, NEW n \in Nodes, NEW st \in Statuses,
             ApplyExecutionTransition(j, n, st)
      PROVE  Goal
  <2>1. nextSeq' = nextSeq /\ seq' = seq /\ tombs' = tombs /\ retired' = retired
    BY <1>2 DEF ApplyExecutionTransition, closedVars
  <2>2. \A s \in Closed(status', tombs, retired, n) : s < nextSeq[n]
    BY ClosedBelowNext DEF ClosedIssued
  <2>3. CASE st \in Terminal
    <3>1. AdvanceRetiredWatermark(n, Closed(status', tombs, retired, n))
      BY <1>2, <2>3 DEF ApplyExecutionTransition
    <3>2. WatermarkBelowNext' /\ \A m \in Nodes : watermark'[m] >= watermark[m]
      BY <2>1, <2>2, <3>1, AdvanceBelowNext
    <3> QED
      BY <2>1, <3>2 DEF ClosedIssued, SequenceUnique, TypeOK
  <2>4. CASE st \notin Terminal
    BY <1>2, <2>1, <2>4 DEF ApplyExecutionTransition, ClosedIssued, SequenceUnique,
                            WatermarkBelowNext, TypeOK
  <2> QED
    BY <2>3, <2>4
<1>3. ASSUME NEW j \in Jobs, NEW n \in Nodes,
             CreateCancelTombstone(j, n) \/ PruneTargetRow(j, n)
      PROVE  Goal
  <2>1. nextSeq' = nextSeq /\ seq' = seq
    BY <1>3 DEF CreateCancelTombstone, PruneTargetRow, targetVars
  <2>2. ClosedIssued'
    <3>1. CASE CreateCancelTombstone(j, n)
      BY <2>1, <3>1 DEF CreateCancelTombstone, ClosedIssued, SequenceUnique, TypeOK
    <3>2. CASE PruneTargetRow(j, n)
      BY <2>1, <3>2 DEF PruneTargetRow, ClosedIssued, SequenceUnique, TypeOK
    <3> QED
      BY <1>3, <3>1, <3>2
  <2>3. \A s \in Closed(status', tombs', retired', n) : s < nextSeq[n]
    <3>1. \A s \in tombs'[n] \cup retired'[n] : s < nextSeq[n]
      BY <2>1, <2>2 DEF ClosedIssued
    <3> QED
      BY <3>1, ClosedBelowNext
  <2>4. AdvanceRetiredWatermark(n, Closed(status', tombs', retired', n))
    BY <1>3 DEF CreateCancelTombstone, PruneTargetRow, targetVars
  <2>5. WatermarkBelowNext' /\ \A m \in Nodes : watermark'[m] >= watermark[m]
    BY <2>1, <2>3, <2>4, AdvanceBelowNext
  <2> QED
    BY <2>1, <2>2, <2>5 DEF SequenceUnique, TypeOK
<1>4. ASSUME NEW n \in Nodes, NEW w \in 0..MaxSeq, SequenceGap(n, w)
      PROVE  Goal
  <2>1. PICK id \in {"same", "other"} : ReconcileCommandStream(n, id, w)
    BY <1>4 DEF SequenceGap
  <2>2. /\ WatermarkBelowNext'
        /\ \A m \in Nodes : nextSeq'[m] >= nextSeq[m] /\ watermark'[m] >= watermark[m]
    BY <2>1, ReconcileStream
  <2>3. nextSeq' \in [Nodes -> 1..MaxSeq + 1]
    BY <2>1, ReconcileType
  <2> QED
    BY <1>4, <2>2, <2>3 DEF SequenceGap, ClosedIssued, SequenceUnique, TypeOK,
                            targetVars, closedVars
<1>5. ASSUME NEW h \in Handlers, NEW n \in Nodes, NEW id \in AgentIds,
             NEW w \in 0..MaxSeq, HandshakeReconcile(h, n, id, w)
      PROVE  Goal
  <2>1. ReconcileCommandStream(n, id, w)
    BY <1>5 DEF HandshakeReconcile
  <2>2. /\ WatermarkBelowNext'
        /\ \A m \in Nodes : nextSeq'[m] >= nextSeq[m] /\ watermark'[m] >= watermark[m]
    BY <2>1, ReconcileStream
  <2>3. nextSeq' \in [Nodes -> 1..MaxSeq + 1]
    BY <2>1, ReconcileType
  <2> QED
    BY <1>5, <2>2, <2>3 DEF HandshakeReconcile, ClosedIssued, SequenceUnique, TypeOK,
                            targetVars, closedVars
<1>6. ASSUME UNCHANGED <<nextSeq, watermark, seq, closedVars>>
      PROVE  Goal
  BY <1>6 DEF ClosedIssued, SequenceUnique, WatermarkBelowNext, TypeOK, closedVars
<1>7. ASSUME NEW j \in Jobs, NEW n \in Nodes, NEW r \in Resolutions,
             ResolveUnknownTarget(j, n, r)
      PROVE  Goal
  BY <1>6, <1>7 DEF ResolveUnknownTarget
<1>8. ASSUME NEW h \in Handlers,
             \/ \E n \in Nodes : ReportQuarantine(h, n)
             \/ \E j \in Jobs, st \in Statuses : BackfillRead(h, j, st)
             \/ BackfillWrite(h) \/ BackfillBlock(h)
             \/ BackfillRecompute(h) \/ HandshakeDone(h)
      PROVE  Goal
  <2>1. UNCHANGED <<nextSeq, watermark, seq, closedVars>>
    BY <1>8 DEF ReportQuarantine, BackfillRead, BackfillWrite, BackfillBlock,
                BackfillRecompute, HandshakeDone, streamVars, targetVars
  <2> QED
    BY <1>6, <2>1
<1>9. ASSUME PruneSelect \/ (\E n \in Nodes : DeleteNode(n)) \/ UNCHANGED vars
      PROVE  Goal
  <2>1. UNCHANGED <<nextSeq, watermark, seq, closedVars>>
    BY <1>9 DEF PruneSelect, DeleteNode, vars, streamVars, targetVars
  <2> QED
    BY <1>6, <2>1
<1> HIDE DEF Goal
<1>10. ASSUME Next PROVE Goal
  BY <1>10, NextCases, <1>1, <1>2, <1>3, <1>4, <1>5, <1>7, <1>8, <1>9
<1>11. Goal
  BY <1>9, <1>10
<1> QED
  BY <1>11 DEF Goal

LEMMA StreamInvNext == StreamInv /\ [Next]_vars => StreamInv'
BY TypeInvNext, StreamStep DEF StreamInv

\* The invariant holds after every step: rows, handshakes and closed sequences
\* agree with what was issued (CreateUpdateJobWithTargets, ReconcileCommandStream).
THEOREM StreamInvariant == Spec => []StreamInv
BY StreamInvInit, StreamInvNext, PTL DEF Spec

\* No sequence is used twice, and none is retired before it is issued.
THEOREM SequencesUnique == Spec => [](SequenceUnique /\ WatermarkBelowNext)
<1>1. StreamInv => SequenceUnique /\ WatermarkBelowNext
  BY DEF StreamInv
<1> QED
  BY <1>1, StreamInvariant, PTL

\* The streams never go back, so no handshake revives a retired command.
THEOREM StreamsMoveForward == Spec => StreamOnlyMovesForward
<1>1. StreamInv /\ [Next]_vars =>
         [\A n \in Nodes : nextSeq'[n] >= nextSeq[n] /\ watermark'[n] >= watermark[n]]_vars
  BY StreamStep
<1> QED
  BY <1>1, StreamInvariant, PTL DEF Spec, StreamOnlyMovesForward

=============================================================================
