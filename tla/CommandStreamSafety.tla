------------------------ MODULE CommandStreamSafety ------------------------
(***************************************************************************)
(* The rest of what is proved about CommandStream: outcomes, isolation,    *)
(* gaps, the status of jobs, and the refinement of CommandLedger.  Each    *)
(* property is shown from StreamInv of CommandStreamProofs.                *)
(***************************************************************************)
EXTENDS CommandStreamProofs

USE StreamAssumption DEF UnknownLeft

-----------------------------------------------------------------------------
(* Outcomes                                                                *)

\* A terminal status can only become itself.
LEMMA TerminalIsLast ==
    ASSUME NEW from \in Terminal, NEW to, CanBecome(from, to)
    PROVE  to = from
BY DEF CanBecome, Legal, Terminal

LEMMA OutcomeStep ==
    ASSUME StreamInv, Next, NEW j \in Jobs, NEW n \in Nodes,
           status[j][n] \in Terminal, status'[j][n] # status[j][n]
    PROVE  \/ status[j][n] = "unknown" /\ status'[j][n] \in Resolutions
           \/ \E h \in Handlers :
                 /\ stage[h] = "read" /\ stage'[h] = "written"
                 /\ peer[h] = n /\ job[h] = j
                 /\ saw[h] # status[j][n]
                 /\ CanBecome(saw[h], status'[j][n])
           \/ status'[j][n] = "absent" /\ n \in deleted' \ deleted
           \/ /\ status'[j][n] = "absent" /\ <<j, n>> \in pruning \ pruning'
              /\ seq[j][n] \in retired'[n]
<1> DEFINE Goal ==
           \/ status[j][n] = "unknown" /\ status'[j][n] \in Resolutions
           \/ \E h \in Handlers :
                 /\ stage[h] = "read" /\ stage'[h] = "written"
                 /\ peer[h] = n /\ job[h] = j
                 /\ saw[h] # status[j][n]
                 /\ CanBecome(saw[h], status'[j][n])
           \/ status'[j][n] = "absent" /\ n \in deleted' \ deleted
           \/ /\ status'[j][n] = "absent" /\ <<j, n>> \in pruning \ pruning'
              /\ seq[j][n] \in retired'[n]
<1> USE DEF StreamInv, TypeInv
<1>0. status[j][n] # "absent" /\ seq[j][n] > 0
  BY DEF Terminal, TypeOK, RowsIssued, HasRow
<1>1. ASSUME NEW i \in Jobs, NEW S \in SUBSET Nodes, CreateUpdateJob(i, S)
      PROVE  Goal
  <2>1. i # j
    BY <1>0, <1>1 DEF CreateUpdateJob, RowsIssued
  <2> QED
    BY <1>1, <2>1 DEF CreateUpdateJob, TypeOK
<1>2. ASSUME NEW i \in Jobs, NEW m \in Nodes, NEW st \in Statuses,
             ApplyExecutionTransition(i, m, st)
      PROVE  Goal
  <2>1. status' = [status EXCEPT ![i][m] = st] /\ CanBecome(status[i][m], st)
    BY <1>2 DEF ApplyExecutionTransition
  <2>2. i = j /\ m = n
    BY <2>1 DEF TypeOK
  <2>3. st = status[j][n]
    BY <2>1, <2>2, TerminalIsLast
  <2> QED
    BY <2>1, <2>2, <2>3 DEF TypeOK
<1>3. ASSUME NEW i \in Jobs, NEW m \in Nodes, NEW r \in Resolutions,
             ResolveUnknownTarget(i, m, r)
      PROVE  Goal
  BY <1>3 DEF ResolveUnknownTarget, TypeOK
<1>4. ASSUME NEW i \in Jobs, NEW m \in Nodes, PruneTargetRow(i, m)
      PROVE  Goal
  <2>1. i = j /\ m = n
    BY <1>4 DEF PruneTargetRow, TypeOK
  <2>2. /\ <<j, n>> \in pruning /\ pruning' = pruning \ {<<j, n>>}
        /\ status'[j][n] = "absent" /\ seq[j][n] \in retired'[n]
    BY <1>4, <2>1 DEF PruneTargetRow, TypeOK
  <2> QED
    BY <2>2
<1>5. ASSUME NEW m \in Nodes, DeleteNode(m)
      PROVE  Goal
  <2>1. m = n
    BY <1>5 DEF DeleteNode, TypeOK
  <2>2. status'[j][n] = "absent" /\ n \in deleted' \ deleted
    BY <1>5, <2>1 DEF DeleteNode, TypeOK
  <2> QED
    BY <2>2
<1>6. ASSUME NEW h \in Handlers, BackfillWrite(h)
      PROVE  Goal
  <2>1. /\ stage[h] = "read" /\ stage'[h] = "written"
        /\ job[h] \in Jobs /\ peer[h] \in Nodes
        /\ saw[h] \in Statuses /\ CanBecome(saw[h], fact[h])
    BY <1>6 DEF BackfillWrite, HandshakeOK, TypeOK
  <2>2. job[h] = j /\ peer[h] = n
    BY <1>6, <2>1 DEF BackfillWrite, TypeOK
  <2>3. status'[j][n] = fact[h]
    BY <1>0, <1>6, <2>2 DEF BackfillWrite, HasRow, TypeOK
  <2>4. saw[h] # status[j][n]
    BY <2>1, <2>3, TerminalIsLast
  <2> QED
    BY <2>1, <2>2, <2>3, <2>4
<1>7. ASSUME status' = status
      PROVE  FALSE
  BY <1>7
<1>8. ASSUME \/ \E i \in Jobs, m \in Nodes : CreateCancelTombstone(i, m)
             \/ \E h \in Handlers, m \in Nodes : ReportQuarantine(h, m)
             \/ \E h \in Handlers, m \in Nodes, id \in AgentIds, w \in 0..MaxSeq :
                   HandshakeReconcile(h, m, id, w)
             \/ \E h \in Handlers, i \in Jobs, st \in Statuses : BackfillRead(h, i, st)
             \/ \E h \in Handlers :
                   BackfillBlock(h) \/ BackfillRecompute(h) \/ HandshakeDone(h)
             \/ \E m \in Nodes, w \in 0..MaxSeq : SequenceGap(m, w)
             \/ PruneSelect
      PROVE  Goal
  <2>1. status' = status
    BY <1>8 DEF CreateCancelTombstone, ReportQuarantine, HandshakeReconcile,
                BackfillRead, BackfillBlock, BackfillRecompute, HandshakeDone,
                SequenceGap, PruneSelect, targetVars
  <2> QED
    BY <1>7, <2>1
<1> HIDE DEF Goal
<1>9. Goal
  BY NextCases, <1>1, <1>2, <1>3, <1>4, <1>5, <1>6, <1>8
<1> QED
  BY <1>9 DEF Goal

\* An outcome changes only by a disposition, by the write of a handshake that
\* read the row before, with its node, or in a retention run that had selected
\* its row and closes its sequence.
THEOREM OutcomesKept == Spec => OutcomeKept
<1>1. StreamInv /\ [Next]_vars =>
         [\A j \in Jobs, n \in Nodes :
          status[j][n] \in Terminal /\ status'[j][n] # status[j][n] =>
              \/ status[j][n] = "unknown" /\ status'[j][n] \in Resolutions
              \/ \E h \in Handlers :
                    /\ stage[h] = "read" /\ stage'[h] = "written"
                    /\ peer[h] = n /\ job[h] = j
                    /\ saw[h] # status[j][n]
                    /\ CanBecome(saw[h], status'[j][n])
              \/ status'[j][n] = "absent" /\ n \in deleted' \ deleted
              \/ /\ status'[j][n] = "absent" /\ <<j, n>> \in pruning \ pruning'
                 /\ seq[j][n] \in retired'[n]]_vars
  BY OutcomeStep
<1> QED
  BY <1>1, StreamInvariant, PTL DEF Spec, OutcomeKept

-----------------------------------------------------------------------------
(* The watermark                                                           *)

LEMMA AdvanceSkipsNothing ==
    ASSUME TypeOK, NEW n \in Nodes, NEW closed, AdvanceRetiredWatermark(n, closed),
           NEW m \in Nodes, NEW s \in watermark[m] + 1..watermark'[m]
    PROVE  m = n /\ s \in closed
<1>1. PICK w \in 0..MaxSeq :
         /\ IsRetiredPrefix(closed, w)
         /\ watermark' = [watermark EXCEPT ![n] = Larger(@, w)]
  BY DEF AdvanceRetiredWatermark
<1>2. m = n
  BY <1>1 DEF TypeOK
<1>3. s \in 1..w
  BY <1>1, <1>2 DEF TypeOK, Larger
<1> QED
  BY <1>1, <1>2, <1>3 DEF IsRetiredPrefix

LEMMA ReconcileSkipsNothing ==
    ASSUME TypeOK, NEW n \in Nodes, NEW id, NEW w \in 0..MaxSeq,
           ReconcileCommandStream(n, id, w),
           NEW m \in Nodes, NEW s \in watermark[m] + 1..watermark'[m]
    PROVE  s <= trusted'[m] \/ s \in Closed(status, tombs, retired, m)
<1>1. CASE control[n] # "none" \/ id = "other"
  BY <1>1 DEF ReconcileCommandStream, TypeOK
<1>2. CASE control[n] = "none" /\ id # "other"
  <2>1. PICK p \in 0..MaxSeq :
           /\ IsRetiredPrefix(Closed(status, tombs, retired, n), p)
           /\ watermark' = [watermark EXCEPT ![n] = Larger(Larger(@, w), p)]
    BY <1>2 DEF ReconcileCommandStream
  <2>2. trusted' = [trusted EXCEPT ![n] = Larger(@, w)]
    BY <1>2 DEF ReconcileCommandStream
  <2>3. m = n
    BY <2>1 DEF TypeOK
  <2>4. s <= w \/ s \in 1..p
    BY <2>1, <2>3 DEF TypeOK, Larger
  <2> QED
    BY <2>1, <2>2, <2>3, <2>4 DEF TypeOK, Larger, IsRetiredPrefix
<1> QED
  BY <1>1, <1>2

LEMMA WatermarkStep ==
    ASSUME StreamInv, Next, NEW m \in Nodes, NEW s \in watermark[m] + 1..watermark'[m]
    PROVE  s <= trusted'[m] \/ s \in Closed(status, tombs, retired, m)'
<1> DEFINE Goal == s <= trusted'[m] \/ s \in Closed(status, tombs, retired, m)'
<1> USE DEF StreamInv, TypeInv
<1>1. ASSUME NEW j \in Jobs, NEW n \in Nodes, NEW closed,
             AdvanceRetiredWatermark(n, closed),
             closed = Closed(status', tombs', retired', n), seq' = seq
      PROVE  Goal
  <2>1. m = n /\ s \in closed
    BY <1>1, AdvanceSkipsNothing
  <2> QED
    BY <1>1, <2>1 DEF Closed
<1>2. ASSUME watermark' = watermark
      PROVE  FALSE
  BY <1>2 DEF TypeOK
<1>3. ASSUME NEW j \in Jobs, NEW n \in Nodes, NEW st \in Statuses,
             ApplyExecutionTransition(j, n, st)
      PROVE  Goal
  <2>1. CASE st \in Terminal
    BY <1>1, <1>3, <2>1 DEF ApplyExecutionTransition, closedVars
  <2>2. CASE st \notin Terminal
    BY <1>2, <1>3, <2>2 DEF ApplyExecutionTransition
  <2> QED
    BY <2>1, <2>2
<1>4. ASSUME NEW j \in Jobs, NEW n \in Nodes,
             CreateCancelTombstone(j, n) \/ PruneTargetRow(j, n)
      PROVE  Goal
  BY <1>1, <1>4 DEF CreateCancelTombstone, PruneTargetRow, targetVars
<1>5. ASSUME NEW n \in Nodes, NEW id, NEW w \in 0..MaxSeq,
             ReconcileCommandStream(n, id, w), UNCHANGED <<seq, status, tombs, retired>>
      PROVE  Goal
  <2>1. s <= trusted'[m] \/ s \in Closed(status, tombs, retired, m)
    BY <1>5, ReconcileSkipsNothing
  <2> QED
    BY <1>5, <2>1 DEF Closed
<1>6. ASSUME \/ \E h \in Handlers, n \in Nodes, id \in AgentIds, w \in 0..MaxSeq :
                   HandshakeReconcile(h, n, id, w)
             \/ \E n \in Nodes, w \in 0..MaxSeq : SequenceGap(n, w)
      PROVE  Goal
  BY <1>5, <1>6 DEF HandshakeReconcile, SequenceGap, targetVars, closedVars
<1>7. ASSUME \/ \E j \in Jobs, S \in SUBSET Nodes : CreateUpdateJob(j, S)
             \/ \E j \in Jobs, n \in Nodes, r \in Resolutions :
                   ResolveUnknownTarget(j, n, r)
             \/ \E h \in Handlers, n \in Nodes : ReportQuarantine(h, n)
             \/ \E h \in Handlers, j \in Jobs, st \in Statuses : BackfillRead(h, j, st)
             \/ \E h \in Handlers : \/ BackfillWrite(h) \/ BackfillBlock(h)
                                    \/ BackfillRecompute(h) \/ HandshakeDone(h)
             \/ PruneSelect
             \/ \E n \in Nodes : DeleteNode(n)
      PROVE  Goal
  <2>1. watermark' = watermark
    BY <1>7 DEF CreateUpdateJob, ResolveUnknownTarget, ReportQuarantine,
                BackfillRead, BackfillWrite, BackfillBlock, BackfillRecompute,
                HandshakeDone, PruneSelect, DeleteNode, streamVars
  <2> QED
    BY <1>2, <2>1
<1> HIDE DEF Goal
<1>8. Goal
  BY NextCases, <1>3, <1>4, <1>6, <1>7
<1> QED
  BY <1>8 DEF Goal

\* The watermark passes nothing that is neither closed nor claimed.
THEOREM WatermarkNeverSkips == Spec => WatermarkSkipsNothing
<1>1. StreamInv /\ [Next]_vars =>
         [\A n \in Nodes : \A s \in watermark[n] + 1..watermark'[n] :
             s <= trusted'[n] \/ s \in Closed(status, tombs, retired, n)']_vars
  BY WatermarkStep
<1> QED
  BY <1>1, StreamInvariant, PTL DEF Spec, WatermarkSkipsNothing

-----------------------------------------------------------------------------
(* Isolation                                                               *)

LEMMA UnknownIsolatedStep ==
    ASSUME StreamInv, UnknownIsolated, [Next]_vars
    PROVE  UnknownIsolated'
<1> USE DEF StreamInv, TypeInv
\* Steps that make no target unknown, end no isolation and leave the
\* handshakes that are about to block a node where they are.
<1>1. ASSUME \A j \in Jobs, n \in Nodes :
                status'[j][n] = "unknown" => status[j][n] = "unknown",
             \A n \in Nodes : control[n] # "none" => control'[n] # "none",
             cut \subseteq cut',
             \A h \in Handlers : stage[h] = "written" /\ fact[h] = "unknown" =>
                \/ /\ stage'[h] = "written" /\ fact'[h] = "unknown"
                   /\ peer'[h] = peer[h] /\ job'[h] = job[h]
                \/ <<job[h], peer[h]>> \in cut'
      PROVE  UnknownIsolated'
  BY <1>1 DEF UnknownIsolated
\* Steps that leave the handshakes alone, and isolate what they make unknown.
<1>a. ASSUME \A j \in Jobs, n \in Nodes : status'[j][n] = "unknown" =>
                \/ control'[n] # "none"
                \/ status[j][n] = "unknown" /\ control'[n] = control[n],
             UNCHANGED <<stage, fact, peer, job, cut>>
      PROVE  UnknownIsolated'
  BY <1>a DEF UnknownIsolated
<1>2. ASSUME NEW j \in Jobs, NEW S \in SUBSET Nodes, CreateUpdateJob(j, S)
      PROVE  UnknownIsolated'
  BY <1>1, <1>2 DEF CreateUpdateJob, TypeOK, handshakeVars
<1>3. ASSUME NEW j \in Jobs, NEW n \in Nodes, NEW st \in Statuses,
             ApplyExecutionTransition(j, n, st)
      PROVE  UnknownIsolated'
  <2>1. /\ status' = [status EXCEPT ![j][n] = st]
        /\ control' = [control EXCEPT ![n] = IF st = "unknown" THEN "blocked" ELSE @]
        /\ UNCHANGED <<stage, fact, peer, job, cut>>
    BY <1>3 DEF ApplyExecutionTransition, handshakeVars
  <2>2. ASSUME NEW i \in Jobs, NEW m \in Nodes, status'[i][m] = "unknown"
        PROVE  \/ control'[m] # "none"
               \/ status[i][m] = "unknown" /\ control'[m] = control[m]
    <3>1. CASE m = n /\ st = "unknown"
      BY <2>1, <3>1 DEF TypeOK
    <3>2. CASE m # n
      BY <2>1, <2>2, <3>2 DEF TypeOK
    <3>3. CASE m = n /\ st # "unknown"
      BY <2>1, <2>2, <3>3 DEF TypeOK
    <3> QED
      BY <3>1, <3>2, <3>3
  <2>3. UNCHANGED <<stage, fact, peer, job, cut>>
    BY <2>1
  <2> QED
    BY <1>a, <2>2, <2>3
<1>4. ASSUME NEW j \in Jobs, NEW n \in Nodes, NEW r \in Resolutions,
             ResolveUnknownTarget(j, n, r)
      PROVE  UnknownIsolated'
  <2>1. /\ status' = [status EXCEPT ![j][n] = r]
        /\ control' = [control EXCEPT ![n] =
              IF \E i \in Jobs : status'[i][n] = "unknown" THEN @ ELSE "none"]
        /\ UNCHANGED <<stage, fact, peer, job, cut>>
    BY <1>4 DEF ResolveUnknownTarget, handshakeVars
  <2>0. r # "unknown"
    OBVIOUS
  <2>2. ASSUME NEW i \in Jobs, NEW m \in Nodes, status'[i][m] = "unknown"
        PROVE  status[i][m] = "unknown" /\ control'[m] = control[m]
    <3>1. status[i][m] = "unknown"
      BY <2>0, <2>1, <2>2 DEF TypeOK
    <3>2. control'[m] = control[m]
      BY <2>1, <2>2 DEF TypeOK
    <3> QED
      BY <3>1, <3>2
  <2>3. UNCHANGED <<stage, fact, peer, job, cut>>
    BY <2>1
  <2> QED
    BY <1>a, <2>2, <2>3
<1>5. ASSUME NEW j \in Jobs, NEW n \in Nodes,
             CreateCancelTombstone(j, n) \/ PruneTargetRow(j, n)
      PROVE  UnknownIsolated'
  <2>1. \A i \in Jobs, m \in Nodes : status'[i][m] \in {status[i][m], "absent"}
    <3>1. CASE CreateCancelTombstone(j, n)
      BY <3>1 DEF CreateCancelTombstone, targetVars
    <3>2. CASE PruneTargetRow(j, n)
      BY <3>2 DEF PruneTargetRow, TypeOK
    <3> QED
      BY <1>5, <3>1, <3>2
  <2>2. UNCHANGED <<control, stage, fact, peer, job, cut>>
    BY <1>5 DEF CreateCancelTombstone, PruneTargetRow, handshakeVars
  <2> QED
    BY <1>1, <2>1, <2>2
<1>6. ASSUME NEW n \in Nodes, NEW id, NEW w, ReconcileCommandStream(n, id, w)
      PROVE  \A m \in Nodes : control[m] # "none" => control'[m] # "none"
  BY <1>6 DEF ReconcileCommandStream, TypeOK
<1>7. ASSUME NEW h \in Handlers, NEW n \in Nodes, NEW id \in AgentIds,
             NEW w \in 0..MaxSeq, HandshakeReconcile(h, n, id, w)
      PROVE  UnknownIsolated'
  <2>1. \A m \in Nodes : control[m] # "none" => control'[m] # "none"
    BY <1>6, <1>7 DEF HandshakeReconcile
  <2> QED
    BY <1>1, <1>7, <2>1 DEF HandshakeReconcile, targetVars, TypeOK
<1>8. ASSUME NEW n \in Nodes, NEW w \in 0..MaxSeq, SequenceGap(n, w)
      PROVE  UnknownIsolated'
  <2>1. \A m \in Nodes : control[m] # "none" => control'[m] # "none"
    BY <1>6, <1>8 DEF SequenceGap
  <2> QED
    BY <1>1, <1>8, <2>1 DEF SequenceGap, targetVars, handshakeVars
<1>9. ASSUME NEW h \in Handlers, NEW n \in Nodes, ReportQuarantine(h, n)
      PROVE  UnknownIsolated'
  BY <1>1, <1>9 DEF ReportQuarantine, targetVars, TypeOK
<1>10. ASSUME NEW h \in Handlers, NEW j \in Jobs, NEW st \in Statuses,
              BackfillRead(h, j, st)
       PROVE  UnknownIsolated'
  BY <1>1, <1>10 DEF BackfillRead, targetVars, streamVars, TypeOK
<1>11. ASSUME NEW h \in Handlers, BackfillWrite(h)
       PROVE  UnknownIsolated'
  <2>1. /\ job[h] \in Jobs /\ peer[h] \in Nodes /\ stage[h] = "read"
        /\ stage' = [stage EXCEPT ![h] = "written"]
        /\ UNCHANGED <<control, fact, peer, job, cut>>
    BY <1>11 DEF BackfillWrite, HandshakeOK, streamVars
  <2>2. \A j \in Jobs, n \in Nodes : status'[j][n] = "unknown" =>
           \/ status[j][n] = "unknown"
           \/ j = job[h] /\ n = peer[h] /\ fact[h] = "unknown"
    BY <1>11, <2>1 DEF BackfillWrite, TypeOK
  <2> QED
    BY <2>1, <2>2 DEF UnknownIsolated, TypeOK
<1>12. ASSUME NEW h \in Handlers, BackfillBlock(h)
       PROVE  UnknownIsolated'
  <2>1. /\ peer[h] \in Nodes
        /\ control' = [control EXCEPT ![peer[h]] = "blocked"]
        /\ stage' = [stage EXCEPT ![h] = "blocked"]
        /\ UNCHANGED <<status, fact, peer, job, cut>>
    BY <1>12 DEF BackfillBlock, HandshakeOK, targetVars
  <2> QED
    BY <2>1 DEF UnknownIsolated, TypeOK
<1>13. ASSUME NEW h \in Handlers, BackfillRecompute(h) \/ HandshakeDone(h)
       PROVE  UnknownIsolated'
  <2>1. UNCHANGED <<status, control>>
    BY <1>13 DEF BackfillRecompute, HandshakeDone, targetVars, streamVars
  <2>2. \A g \in Handlers : stage[g] = "written" /\ fact[g] = "unknown" =>
           \/ /\ stage'[g] = "written" /\ fact'[g] = "unknown"
              /\ peer'[g] = peer[g] /\ job'[g] = job[g]
           \/ <<job[g], peer[g]>> \in cut'
    BY <1>13 DEF BackfillRecompute, HandshakeDone, TypeOK
  <2> QED
    BY <1>1, <1>13, <2>1, <2>2 DEF BackfillRecompute, HandshakeDone
<1>14. ASSUME PruneSelect \/ UNCHANGED vars
       PROVE  UnknownIsolated'
  BY <1>1, <1>14 DEF PruneSelect, vars, streamVars, targetVars, handshakeVars
<1>15. ASSUME NEW n \in Nodes, DeleteNode(n)
       PROVE  UnknownIsolated'
  BY <1>1, <1>15 DEF DeleteNode, TypeOK, streamVars, handshakeVars
<1>16. ASSUME Next PROVE UnknownIsolated'
  BY <1>16, NextCases, <1>2, <1>3, <1>4, <1>5, <1>7, <1>8, <1>9, <1>10, <1>11,
     <1>12, <1>13, <1>14, <1>15
<1> QED
  BY <1>14, <1>16

\* An undisposed unknown isolates its node, but for a handshake that did not
\* get from the write of the state to the isolation.
THEOREM UnknownIsolates == Spec => []UnknownIsolated
<1>1. Init => UnknownIsolated
  BY DEF Init, UnknownIsolated
<1>2. StreamInv /\ UnknownIsolated /\ [Next]_vars => UnknownIsolated'
  BY UnknownIsolatedStep
<1> QED
  BY <1>1, <1>2, StreamInvariant, PTL DEF Spec

-----------------------------------------------------------------------------
(* Gaps                                                                    *)

LEMMA NoneLostStep ==
    ASSUME StreamInv, NoSequenceLost, [Next]_vars
    PROVE  NoSequenceLost'
<1> USE DEF StreamInv, TypeInv
<1>0. \A m \in Nodes : nextSeq'[m] >= nextSeq[m]
  BY StreamStep
<1>t. TypeInv'
  BY TypeInvNext
\* Steps that issue nothing and keep every row, or close the ones they remove.
<1>1. ASSUME seq' = seq, deleted \subseteq deleted',
             \A n \in Nodes : trusted'[n] >= trusted[n],
             \A n \in Nodes : nextSeq'[n] > nextSeq[n] => nextSeq'[n] <= trusted'[n] + 1,
             \A n \in Nodes : tombs[n] \subseteq tombs'[n] /\ retired[n] \subseteq retired'[n],
             \A j \in Jobs, n \in Nodes \ deleted' : HasRow(j, n) =>
                HasRow(j, n)' \/ seq[j][n] \in retired'[n]
      PROVE  NoSequenceLost'
  <2> SUFFICES ASSUME NEW n \in Nodes \ deleted',
                      NEW s \in trusted'[n] + 1..nextSeq'[n] - 1
               PROVE  \/ s \in Closed(status, tombs, retired, n)'
                      \/ \E j \in Jobs : HasRow(j, n)' /\ seq'[j][n] = s
    BY DEF NoSequenceLost
  <2>1. s \in trusted[n] + 1..nextSeq[n] - 1 /\ n \in Nodes \ deleted
    <3>1. trusted[n] \in Nat /\ nextSeq[n] \in Nat
      BY DEF TypeOK
    <3>2. trusted'[n] \in Nat /\ nextSeq'[n] \in Nat
      BY <1>t DEF TypeOK
    <3>3. trusted'[n] >= trusted[n] /\ nextSeq'[n] >= nextSeq[n]
      BY <1>0, <1>1
    <3>4. nextSeq'[n] > nextSeq[n] => nextSeq'[n] <= trusted'[n] + 1
      BY <1>1
    <3> QED
      BY <1>1, <3>1, <3>2, <3>3, <3>4
  <2>2. CASE s \in tombs[n] \cup retired[n]
    BY <1>1, <2>2 DEF Closed
  <2>3. ASSUME NEW j \in Jobs, HasRow(j, n), seq[j][n] = s
        PROVE  \/ s \in Closed(status, tombs, retired, n)'
               \/ \E i \in Jobs : HasRow(i, n)' /\ seq'[i][n] = s
    BY <1>1, <2>3 DEF Closed
  <2>4. s \in Closed(status, tombs, retired, n) =>
           \/ s \in tombs[n] \cup retired[n]
           \/ \E j \in Jobs : HasRow(j, n) /\ seq[j][n] = s
    BY DEF Closed, HasRow, Terminal
  <2> QED
    BY <2>1, <2>2, <2>3, <2>4 DEF NoSequenceLost
<1>2. ASSUME NEW j \in Jobs, NEW S \in SUBSET Nodes, CreateUpdateJob(j, S)
      PROVE  NoSequenceLost'
  <2> SUFFICES ASSUME NEW n \in Nodes \ deleted',
                      NEW s \in trusted'[n] + 1..nextSeq'[n] - 1
               PROVE  \/ s \in Closed(status, tombs, retired, n)'
                      \/ \E i \in Jobs : HasRow(i, n)' /\ seq'[i][n] = s
    BY DEF NoSequenceLost
  <2>1. /\ trusted' = trusted /\ deleted' = deleted
        /\ tombs' = tombs /\ retired' = retired
    BY <1>2 DEF CreateUpdateJob, closedVars
  <2>2. \A i \in Jobs, m \in Nodes :
           /\ seq'[i][m] = IF i = j THEN (IF m \in S THEN nextSeq[m] ELSE 0)
                           ELSE seq[i][m]
           /\ status'[i][m] = IF i = j THEN (IF m \in S THEN "pending" ELSE "absent")
                              ELSE status[i][m]
    BY <1>2 DEF CreateUpdateJob, TypeOK
  <2>3. \A i \in Jobs : HasRow(i, n) => i # j
    BY <1>2 DEF CreateUpdateJob, RowsIssued
  <2>4. CASE n \in S /\ s = nextSeq[n]
    <3>1. HasRow(j, n)' /\ seq'[j][n] = s
      BY <2>2, <2>4 DEF HasRow
    <3> QED
      BY <3>1
  <2>5. CASE ~(n \in S /\ s = nextSeq[n])
    <3>1. s \in trusted[n] + 1..nextSeq[n] - 1
      <4>1. trusted[n] \in Nat /\ nextSeq[n] \in Nat
        BY DEF TypeOK
      <4>2. nextSeq'[n] = nextSeq[n] + IF n \in S THEN 1 ELSE 0
        BY <1>2 DEF CreateUpdateJob
      <4> QED
        BY <2>1, <2>5, <4>1, <4>2
    <3>2. \/ s \in Closed(status, tombs, retired, n)
          \/ \E i \in Jobs : HasRow(i, n) /\ seq[i][n] = s
      BY <2>1, <3>1 DEF NoSequenceLost
    <3>3. s \in Closed(status, tombs, retired, n) =>
             \/ s \in tombs[n] \cup retired[n]
             \/ \E i \in Jobs : HasRow(i, n) /\ seq[i][n] = s
      BY DEF Closed, HasRow, Terminal
    <3>4. \A i \in Jobs : HasRow(i, n) => HasRow(i, n)' /\ seq'[i][n] = seq[i][n]
      BY <2>2, <2>3 DEF HasRow
    <3>5. s \in tombs[n] \cup retired[n] => s \in Closed(status, tombs, retired, n)'
      BY <2>1 DEF Closed
    <3> QED
      BY <3>2, <3>3, <3>4, <3>5
  <2> QED
    BY <2>4, <2>5
<1>3. ASSUME NEW j \in Jobs, NEW n \in Nodes, NEW st \in Statuses,
             ApplyExecutionTransition(j, n, st)
      PROVE  NoSequenceLost'
  <2>1. \A i \in Jobs, m \in Nodes : HasRow(i, m) => HasRow(i, m)'
    BY <1>3 DEF ApplyExecutionTransition, HasRow, TypeOK, Statuses, Pending,
                Active, InProgress, Terminal
  <2> QED
    BY <1>1, <1>3, <2>1 DEF ApplyExecutionTransition, closedVars, TypeOK
<1>4. ASSUME NEW j \in Jobs, NEW n \in Nodes, NEW r \in Resolutions,
             ResolveUnknownTarget(j, n, r)
      PROVE  NoSequenceLost'
  <2>1. \A i \in Jobs, m \in Nodes : HasRow(i, m) => HasRow(i, m)'
    <3>1. status' = [status EXCEPT ![j][n] = r] /\ r # "absent"
      BY <1>4 DEF ResolveUnknownTarget
    <3> QED
      BY <3>1 DEF HasRow, TypeOK
  <2> QED
    BY <1>1, <1>4, <2>1 DEF ResolveUnknownTarget, closedVars, TypeOK
<1>5. ASSUME NEW j \in Jobs, NEW n \in Nodes, CreateCancelTombstone(j, n)
      PROVE  NoSequenceLost'
  BY <1>1, <1>5 DEF CreateCancelTombstone, HasRow, targetVars, TypeOK
<1>6. ASSUME NEW j \in Jobs, NEW n \in Nodes, PruneTargetRow(j, n)
      PROVE  NoSequenceLost'
  <2>1. \A i \in Jobs, m \in Nodes : HasRow(i, m) =>
           HasRow(i, m)' \/ seq[i][m] \in retired'[m]
    BY <1>6 DEF PruneTargetRow, HasRow, TypeOK
  <2> QED
    BY <1>1, <1>6, <2>1 DEF PruneTargetRow, TypeOK
<1>7. ASSUME NEW n \in Nodes, NEW id, NEW w \in 0..MaxSeq,
             ReconcileCommandStream(n, id, w)
      PROVE  \A m \in Nodes :
                /\ trusted'[m] >= trusted[m]
                /\ nextSeq'[m] > nextSeq[m] => nextSeq'[m] <= trusted'[m] + 1
  <2>1. CASE control[n] # "none" \/ id = "other"
    BY <1>7, <2>1 DEF ReconcileCommandStream, TypeOK, Larger
  <2>2. CASE control[n] = "none" /\ id # "other"
    <3>1. trusted' = [trusted EXCEPT ![n] = Larger(@, w)]
      BY <1>7, <2>2 DEF ReconcileCommandStream
    <3>2. nextSeq' = [nextSeq EXCEPT ![n] = Larger(@, w + 1)]
      BY <1>7, <2>2 DEF ReconcileCommandStream
    <3> QED
      BY <3>1, <3>2 DEF TypeOK, Larger
  <2> QED
    BY <2>1, <2>2
<1>8. ASSUME \/ \E h \in Handlers, n \in Nodes, id \in AgentIds, w \in 0..MaxSeq :
                   HandshakeReconcile(h, n, id, w)
             \/ \E n \in Nodes, w \in 0..MaxSeq : SequenceGap(n, w)
      PROVE  NoSequenceLost'
  <2>1. \A m \in Nodes :
           /\ trusted'[m] >= trusted[m]
           /\ nextSeq'[m] > nextSeq[m] => nextSeq'[m] <= trusted'[m] + 1
    BY <1>7, <1>8 DEF HandshakeReconcile, SequenceGap
  <2>2. UNCHANGED <<status, seq, deleted, tombs, retired>>
    BY <1>8 DEF HandshakeReconcile, SequenceGap, targetVars, closedVars
  <2> QED
    BY <1>1, <2>1, <2>2 DEF HasRow
<1>9. ASSUME NEW h \in Handlers, BackfillWrite(h)
      PROVE  NoSequenceLost'
  <2>1. job[h] \in Jobs /\ peer[h] \in Nodes /\ fact[h] \in Statuses
    BY <1>9 DEF BackfillWrite, HandshakeOK
  <2>2. \A i \in Jobs, m \in Nodes : HasRow(i, m) => HasRow(i, m)'
    BY <1>9, <2>1 DEF BackfillWrite, HasRow, TypeOK, Statuses, Pending, Active,
                      InProgress, Terminal
  <2> QED
    BY <1>1, <1>9, <2>2 DEF BackfillWrite, streamVars, closedVars, TypeOK
<1>10. ASSUME UNCHANGED <<status, seq, deleted, nextSeq, tombs, retired, trusted>>
       PROVE  NoSequenceLost'
  BY <1>1, <1>10 DEF HasRow, TypeOK
<1>11. ASSUME \/ \E h \in Handlers, n \in Nodes : ReportQuarantine(h, n)
              \/ \E h \in Handlers, j \in Jobs, st \in Statuses : BackfillRead(h, j, st)
              \/ \E h \in Handlers :
                    BackfillBlock(h) \/ BackfillRecompute(h) \/ HandshakeDone(h)
              \/ PruneSelect
              \/ UNCHANGED vars
       PROVE  NoSequenceLost'
  <2>1. UNCHANGED <<status, seq, deleted, nextSeq, tombs, retired, trusted>>
    BY <1>11 DEF ReportQuarantine, BackfillRead, BackfillBlock, BackfillRecompute,
                 HandshakeDone, PruneSelect, vars, streamVars, targetVars, closedVars
  <2> QED
    BY <1>10, <2>1
<1>12. ASSUME NEW n \in Nodes, DeleteNode(n)
       PROVE  NoSequenceLost'
  BY <1>1, <1>12 DEF DeleteNode, HasRow, TypeOK, streamVars, closedVars, Larger
<1>13. ASSUME Next PROVE NoSequenceLost'
  BY <1>13, NextCases, <1>2, <1>3, <1>4, <1>5, <1>6, <1>8, <1>9, <1>11, <1>12
<1> QED
  BY <1>11, <1>13

\* Every sequence the server issued beyond the agent's claims has a row or is
\* closed.
THEOREM NoneIsLost == Spec => []NoSequenceLost
<1>1. Init => NoSequenceLost
  BY DEF Init, NoSequenceLost
<1>2. StreamInv /\ NoSequenceLost /\ [Next]_vars => NoSequenceLost'
  BY NoneLostStep
<1> QED
  BY <1>1, <1>2, StreamInvariant, PTL DEF Spec

-----------------------------------------------------------------------------
(* The status of jobs                                                      *)

LEMMA JobStatusStep ==
    ASSUME StreamInv, JobStatusFresh, [Next]_vars
    PROVE  JobStatusFresh'
<1> USE DEF StreamInv, TypeInv
<1> DEFINE Fresh(i) ==
        (/\ jobStatus[i] # "absent"
         /\ \A n \in Nodes : seq[i][n] > 0 => HasRow(i, n)
         /\ \A h \in Handlers : stage[h] \in {"written", "blocked"} => job[h] # i
         /\ \A n \in Nodes : <<i, n>> \notin cut)
        => jobStatus[i] = Aggregate(status[i])
<1>f. JobStatusFresh <=> \A i \in Jobs : Fresh(i)
  BY DEF JobStatusFresh
<1>g. JobStatusFresh' <=> \A i \in Jobs : Fresh(i)'
  BY DEF JobStatusFresh
\* A job whose rows and status a step leaves alone, by which no handler
\* finishes its write.
<1>1. ASSUME NEW i \in Jobs, jobStatus'[i] = jobStatus[i], status'[i] = status[i],
             seq'[i] = seq[i], cut \subseteq cut',
             \A h \in Handlers : stage[h] \in {"written", "blocked"} /\ job[h] = i =>
                 \/ stage'[h] \in {"written", "blocked"} /\ job'[h] = i
                 \/ \E n \in Nodes : <<i, n>> \in cut'
      PROVE  Fresh(i)'
  BY <1>1, <1>f DEF HasRow
<1>2. ASSUME NEW j \in Jobs, NEW S \in SUBSET Nodes, CreateUpdateJob(j, S)
      PROVE  \A i \in Jobs : Fresh(i)'
  <2>1. Fresh(j)'
    <3>1. /\ jobStatus'[j] = "pending"
          /\ status'[j] = [n \in Nodes |-> IF n \in S THEN "pending" ELSE "absent"]
      BY <1>2 DEF CreateUpdateJob, TypeOK
    <3>2. {status'[j][n] : n \in Nodes} \ {"absent"} \subseteq Pending
      BY <3>1 DEF Pending
    <3>3. Aggregate(status'[j]) = "pending"
      BY <3>2 DEF Aggregate
    <3> QED
      BY <3>1, <3>3
  <2>2. ASSUME NEW i \in Jobs, i # j PROVE Fresh(i)'
    <3>1. /\ jobStatus'[i] = jobStatus[i] /\ status'[i] = status[i] /\ seq'[i] = seq[i]
          /\ UNCHANGED <<stage, job, cut>>
      BY <1>2, <2>2 DEF CreateUpdateJob, TypeOK, handshakeVars
    <3> QED
      BY <1>1, <3>1
  <2> QED
    BY <2>1, <2>2
<1>3. ASSUME NEW j \in Jobs,
             jobStatus' = [jobStatus EXCEPT ![j] = Aggregate(status'[j])],
             \A i \in Jobs : i # j => status'[i] = status[i],
             UNCHANGED <<seq, stage, job, cut>>
      PROVE  \A i \in Jobs : Fresh(i)'
  <2>1. jobStatus'[j] = Aggregate(status'[j])
    BY <1>3 DEF TypeOK
  <2>2. ASSUME NEW i \in Jobs, i # j PROVE Fresh(i)'
    <3>1. /\ jobStatus'[i] = jobStatus[i] /\ status'[i] = status[i] /\ seq'[i] = seq[i]
          /\ UNCHANGED <<stage, job, cut>>
      BY <1>3, <2>2 DEF TypeOK
    <3> QED
      BY <1>1, <3>1
  <2>3. Fresh(j)'
    BY <2>1
  <2> QED
    BY <2>2, <2>3
<1>4. ASSUME NEW j \in Jobs, NEW n \in Nodes, NEW st \in Statuses,
             ApplyExecutionTransition(j, n, st)
      PROVE  \A i \in Jobs : Fresh(i)'
  <2>1. \A i \in Jobs : i # j => status'[i] = status[i]
    BY <1>4 DEF ApplyExecutionTransition, TypeOK
  <2> QED
    BY <1>3, <1>4, <2>1 DEF ApplyExecutionTransition, handshakeVars
<1>5. ASSUME NEW j \in Jobs, NEW n \in Nodes, NEW r \in Resolutions,
             ResolveUnknownTarget(j, n, r)
      PROVE  \A i \in Jobs : Fresh(i)'
  <2>1. \A i \in Jobs : i # j => status'[i] = status[i]
    BY <1>5 DEF ResolveUnknownTarget, TypeOK
  <2> QED
    BY <1>3, <1>5, <2>1 DEF ResolveUnknownTarget, handshakeVars
<1>6. ASSUME NEW j \in Jobs, NEW n \in Nodes, PruneTargetRow(j, n)
      PROVE  \A i \in Jobs : Fresh(i)'
  <2>1. Fresh(j)'
    <3>1. seq[j][n] > 0
      BY <1>6 DEF PruneTargetRow, RowsIssued
    <3>2. seq'[j][n] > 0 /\ ~HasRow(j, n)'
      BY <1>6, <3>1 DEF PruneTargetRow, HasRow, TypeOK
    <3> QED
      BY <3>2
  <2>2. ASSUME NEW i \in Jobs, i # j PROVE Fresh(i)'
    <3>1. /\ jobStatus'[i] = jobStatus[i] /\ status'[i] = status[i] /\ seq'[i] = seq[i]
          /\ UNCHANGED <<stage, job, cut>>
      BY <1>6, <2>2 DEF PruneTargetRow, TypeOK, handshakeVars
    <3> QED
      BY <1>1, <3>1
  <2> QED
    BY <2>1, <2>2
<1>7. ASSUME NEW n \in Nodes, DeleteNode(n)
      PROVE  \A i \in Jobs : Fresh(i)'
  <2> SUFFICES ASSUME NEW i \in Jobs PROVE Fresh(i)'
    OBVIOUS
  <2>1. UNCHANGED <<jobStatus, seq, stage, job, cut>>
        /\ status'[i] = [status[i] EXCEPT ![n] = "absent"]
    BY <1>7 DEF DeleteNode, handshakeVars
  <2>2. CASE HasRow(i, n)
    <3>1. seq'[i][n] > 0 /\ ~HasRow(i, n)'
      BY <2>1, <2>2 DEF HasRow, RowsIssued, TypeOK
    <3> QED
      BY <3>1
  <2>3. CASE ~HasRow(i, n)
    <3>1. status'[i] = status[i]
      BY <2>1, <2>3 DEF HasRow, TypeOK
    <3> QED
      BY <1>1, <2>1, <3>1
  <2> QED
    BY <2>2, <2>3
<1>8. ASSUME NEW h \in Handlers, BackfillWrite(h)
      PROVE  \A i \in Jobs : Fresh(i)'
  <2>1. /\ job[h] \in Jobs /\ stage[h] = "read"
        /\ stage' = [stage EXCEPT ![h] = "written"]
        /\ UNCHANGED <<jobStatus, seq, job, cut>>
        /\ status' = [status EXCEPT ![job[h]][peer[h]] =
                         IF HasRow(job[h], peer[h]) THEN fact[h] ELSE @]
    BY <1>8 DEF BackfillWrite, HandshakeOK
  <2>2. Fresh(job[h])'
    BY <2>1 DEF TypeOK
  <2>3. ASSUME NEW i \in Jobs, i # job[h] PROVE Fresh(i)'
    <3>1. status'[i] = status[i]
      BY <2>1, <2>3 DEF TypeOK
    <3>2. \A g \in Handlers : stage[g] \in {"written", "blocked"} =>
             stage'[g] \in {"written", "blocked"}
      BY <2>1 DEF TypeOK
    <3> QED
      BY <1>1, <2>1, <3>1, <3>2
  <2> QED
    BY <2>1, <2>2, <2>3
<1>9. ASSUME NEW h \in Handlers, BackfillRecompute(h)
      PROVE  \A i \in Jobs : Fresh(i)'
  <2>1. PICK j \in Jobs : j = job[h]
    BY <1>9 DEF BackfillRecompute, HandshakeOK
  <2>2. /\ jobStatus' = [jobStatus EXCEPT ![j] = Aggregate(status[j])]
        /\ UNCHANGED <<status, seq, cut>>
        /\ \A g \in Handlers : g # h => stage'[g] = stage[g] /\ job'[g] = job[g]
    BY <1>9, <2>1 DEF BackfillRecompute, TypeOK
  <2>3. Fresh(j)'
    BY <2>2 DEF TypeOK
  <2>4. ASSUME NEW i \in Jobs, i # j PROVE Fresh(i)'
    <3>1. jobStatus'[i] = jobStatus[i]
      BY <2>2, <2>4 DEF TypeOK
    <3> QED
      BY <1>1, <2>1, <2>2, <2>4, <3>1
  <2> QED
    BY <2>3, <2>4
<1>10. ASSUME UNCHANGED <<jobStatus, status, seq>>, cut \subseteq cut',
              \A h \in Handlers : stage[h] \in {"written", "blocked"} =>
                  \/ stage'[h] \in {"written", "blocked"} /\ job'[h] = job[h]
                  \/ \E n \in Nodes : <<job[h], n>> \in cut'
       PROVE  \A i \in Jobs : Fresh(i)'
  BY <1>1, <1>10
<1>11. ASSUME \/ \E j \in Jobs, n \in Nodes : CreateCancelTombstone(j, n)
              \/ \E n \in Nodes, w \in 0..MaxSeq : SequenceGap(n, w)
              \/ PruneSelect
              \/ UNCHANGED vars
       PROVE  \A i \in Jobs : Fresh(i)'
  <2>1. UNCHANGED <<jobStatus, status, seq, stage, job, cut>>
    BY <1>11 DEF CreateCancelTombstone, SequenceGap, PruneSelect, vars, targetVars,
                 handshakeVars
  <2> QED
    BY <1>10, <2>1
<1>12. ASSUME NEW h \in Handlers,
              \/ \E n \in Nodes : ReportQuarantine(h, n)
              \/ \E n \in Nodes, id \in AgentIds, w \in 0..MaxSeq :
                    HandshakeReconcile(h, n, id, w)
              \/ \E j \in Jobs, st \in Statuses : BackfillRead(h, j, st)
              \/ BackfillBlock(h)
              \/ HandshakeDone(h)
       PROVE  \A i \in Jobs : Fresh(i)'
  <2>1. UNCHANGED <<jobStatus, status, seq>> /\ cut \subseteq cut'
    BY <1>12 DEF ReportQuarantine, HandshakeReconcile, BackfillRead, BackfillBlock,
                 HandshakeDone, targetVars
  <2>2. \A g \in Handlers : stage[g] \in {"written", "blocked"} =>
           \/ stage'[g] \in {"written", "blocked"} /\ job'[g] = job[g]
           \/ \E n \in Nodes : <<job[g], n>> \in cut'
    <3>1. CASE BackfillBlock(h)
      BY <3>1 DEF BackfillBlock, TypeOK
    <3>2. CASE \E j \in Jobs, st \in Statuses : BackfillRead(h, j, st)
      BY <3>2 DEF BackfillRead, TypeOK
    <3>3. CASE \E n \in Nodes, id \in AgentIds, w \in 0..MaxSeq :
                  HandshakeReconcile(h, n, id, w)
      BY <3>3 DEF HandshakeReconcile, TypeOK
    <3>4. CASE \E n \in Nodes : ReportQuarantine(h, n)
      BY <3>4 DEF ReportQuarantine, TypeOK
    <3>5. CASE HandshakeDone(h)
      <4>1. stage[h] \in {"written", "blocked"} =>
               peer[h] \in Nodes /\ <<job[h], peer[h]>> \in cut'
        BY <3>5 DEF HandshakeDone, HandshakeOK
      <4>2. \A g \in Handlers : g # h => stage'[g] = stage[g] /\ job'[g] = job[g]
        BY <3>5 DEF HandshakeDone, TypeOK
      <4> QED
        BY <4>1, <4>2
    <3> QED
      BY <1>12, <3>1, <3>2, <3>3, <3>4, <3>5
  <2> QED
    BY <1>10, <2>1, <2>2
<1>13. ASSUME Next PROVE \A i \in Jobs : Fresh(i)'
  <2> HIDE DEF Fresh
  <2> QED
    BY <1>13, NextCases, <1>2, <1>4, <1>5, <1>6, <1>7, <1>8, <1>9, <1>11, <1>12
<1> QED
  BY <1>g, <1>11, <1>13

\* The status of a job is the aggregate of its rows, but for removed rows and
\* for handshakes that did not get from the write of a row to the recomputation.
THEOREM JobStatusIsFresh == Spec => []JobStatusFresh
<1>1. Init => JobStatusFresh
  BY DEF Init, JobStatusFresh
<1>2. StreamInv /\ JobStatusFresh /\ [Next]_vars => JobStatusFresh'
  BY JobStatusStep
<1> QED
  BY <1>1, <1>2, StreamInvariant, PTL DEF Spec

=============================================================================
