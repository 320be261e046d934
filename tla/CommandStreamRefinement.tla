---------------------- MODULE CommandStreamRefinement ----------------------
(***************************************************************************)
(* The store implements the ledger of commands: creating a job is Issue,   *)
(* a step that moves a watermark or a next sequence is Advance, and every  *)
(* other step leaves the ledger alone.                                     *)
(***************************************************************************)
EXTENDS CommandStreamProofs

USE StreamAssumption DEF UnknownLeft

\* The commands issued, as the ledger sees them.
Issued == {c \in [node : Nodes, seq : 1..MaxSeq, job : Jobs] :
              seq[c.job][c.node] = c.seq}

LEMMA InitRefines == Init => Ledger!Init
BY DEF Init, Ledger!Init

\* Creating job j for the nodes of S issues exactly its commands.
LEMMA CreateRefines ==
    ASSUME StreamInv, NEW j \in Jobs, NEW S \in SUBSET Nodes, CreateUpdateJob(j, S)
    PROVE  Ledger!Next
<1> USE DEF StreamInv, TypeInv
<1>1. \A n \in Nodes : seq[j][n] = 0
  BY DEF CreateUpdateJob, RowsIssued
<1>2. \A i \in Jobs, n \in Nodes : seq'[i][n] =
         IF i = j THEN (IF n \in S THEN nextSeq[n] ELSE 0) ELSE seq[i][n]
  BY DEF CreateUpdateJob, TypeOK
<1>3. \A c \in Issued : c.job # j
  BY <1>1 DEF Issued
<1>4. Issued' = Issued \cup {c \in [node : Nodes, seq : 1..MaxSeq, job : Jobs] :
                   c.node \in S /\ c.seq = nextSeq[c.node] /\ c.job = j}
  <2>1. ASSUME NEW c \in [node : Nodes, seq : 1..MaxSeq, job : Jobs]
        PROVE  seq'[c.job][c.node] = c.seq <=>
                  \/ seq[c.job][c.node] = c.seq
                  \/ c.node \in S /\ c.seq = nextSeq[c.node] /\ c.job = j
    <3>1. c.job \in Jobs /\ c.node \in Nodes /\ c.seq \in 1..MaxSeq
      OBVIOUS
    <3> QED
      BY <1>1, <1>2, <3>1
  <2> QED
    BY <2>1 DEF Issued
<1>5. Ledger!Issue(j, S)
  <2>1. S # {} /\ \A n \in S : nextSeq[n] <= MaxSeq
    BY DEF CreateUpdateJob
  <2>2. nextSeq' = [n \in Nodes |-> nextSeq[n] + IF n \in S THEN 1 ELSE 0]
        /\ watermark' = watermark
    BY DEF CreateUpdateJob
  <2> QED
    BY <1>3, <1>4, <2>1, <2>2 DEF Ledger!Issue, Ledger!Commands, Issued
<1> QED
  BY <1>5 DEF Ledger!Next

\* A step that issues nothing and moves at most the numbers of one node.
LEMMA AdvanceRefines ==
    ASSUME StreamInv, [Next]_vars, seq' = seq, NEW n \in Nodes,
           \A m \in Nodes : m # n => nextSeq'[m] = nextSeq[m] /\ watermark'[m] = watermark[m]
    PROVE  Ledger!Next
<1> USE DEF StreamInv, TypeInv
<1>1. TypeOK' /\ WatermarkBelowNext'
  BY StreamInvNext
<1>2. nextSeq'[n] >= nextSeq[n] /\ watermark'[n] >= watermark[n]
  BY StreamStep
<1>3. /\ nextSeq'[n] \in nextSeq[n]..MaxSeq + 1
      /\ watermark'[n] \in watermark[n]..MaxSeq
      /\ watermark'[n] < nextSeq'[n]
  BY <1>1, <1>2 DEF TypeOK, WatermarkBelowNext
<1>4. nextSeq' = [nextSeq EXCEPT ![n] = nextSeq'[n]]
  BY <1>1 DEF TypeOK
<1>5. watermark' = [watermark EXCEPT ![n] = watermark'[n]]
  BY <1>1 DEF TypeOK
<1>6. Ledger!Advance(n)
  BY <1>3, <1>4, <1>5 DEF Ledger!Advance
<1> QED
  BY <1>6 DEF Ledger!Next

\* What a reconciliation touches.
LEMMA ReconcileOneNode ==
    ASSUME StreamInv, NEW n \in Nodes, NEW id, NEW w \in 0..MaxSeq,
           ReconcileCommandStream(n, id, w)
    PROVE  \A m \in Nodes : m # n => nextSeq'[m] = nextSeq[m] /\ watermark'[m] = watermark[m]
<1> USE DEF StreamInv, TypeInv
<1>1. CASE control[n] # "none" \/ id = "other"
  BY <1>1 DEF ReconcileCommandStream
<1>2. CASE control[n] = "none" /\ id # "other"
  <2>1. PICK p \in 0..MaxSeq :
           watermark' = [watermark EXCEPT ![n] = Larger(Larger(@, w), p)]
    BY <1>2 DEF ReconcileCommandStream
  <2>2. nextSeq' = [nextSeq EXCEPT ![n] = Larger(@, w + 1)]
    BY <1>2 DEF ReconcileCommandStream
  <2> QED
    BY <2>1, <2>2 DEF TypeOK
<1> QED
  BY <1>1, <1>2

LEMMA StepRefines ==
    ASSUME StreamInv, [Next]_vars
    PROVE  [Ledger!Next]_(Ledger!ledgerVars)
<1> DEFINE Stutter == UNCHANGED <<nextSeq, watermark, seq>>
<1>1. Stutter => UNCHANGED Ledger!ledgerVars
  BY DEF Ledger!ledgerVars
<1>2. ASSUME NEW j \in Jobs, NEW n \in Nodes,
             \/ \E st \in Statuses : ApplyExecutionTransition(j, n, st)
             \/ CreateCancelTombstone(j, n)
             \/ PruneTargetRow(j, n)
      PROVE  Ledger!Next
  <2>1. seq' = seq /\ nextSeq' = nextSeq
    BY <1>2 DEF ApplyExecutionTransition, CreateCancelTombstone, PruneTargetRow, targetVars
  <2>2. \A m \in Nodes : m # n => watermark'[m] = watermark[m]
    <3>1. ASSUME NEW closed, AdvanceRetiredWatermark(n, closed)
          PROVE  \A m \in Nodes : m # n => watermark'[m] = watermark[m]
      BY <3>1 DEF AdvanceRetiredWatermark, StreamInv, TypeInv, TypeOK
    <3> QED
      BY <1>2, <3>1 DEF ApplyExecutionTransition, CreateCancelTombstone, PruneTargetRow
  <2> QED
    BY <2>1, <2>2, AdvanceRefines
<1>3. ASSUME NEW h \in Handlers, NEW n \in Nodes, NEW id \in AgentIds,
             NEW w \in 0..MaxSeq, HandshakeReconcile(h, n, id, w)
      PROVE  Ledger!Next
  BY <1>3, ReconcileOneNode, AdvanceRefines DEF HandshakeReconcile, targetVars
<1>4. ASSUME NEW n \in Nodes, NEW w \in 0..MaxSeq, SequenceGap(n, w)
      PROVE  Ledger!Next
  BY <1>4, ReconcileOneNode, AdvanceRefines DEF SequenceGap, targetVars
<1>5. ASSUME NEW j \in Jobs, NEW n \in Nodes, NEW r \in Resolutions,
             ResolveUnknownTarget(j, n, r)
      PROVE  Stutter
  BY <1>5 DEF ResolveUnknownTarget
<1>6. ASSUME NEW h \in Handlers,
             \/ \E n \in Nodes : ReportQuarantine(h, n)
             \/ \E j \in Jobs, st \in Statuses : BackfillRead(h, j, st)
             \/ BackfillWrite(h) \/ BackfillBlock(h)
             \/ BackfillRecompute(h) \/ HandshakeDone(h)
      PROVE  Stutter
  BY <1>6 DEF ReportQuarantine, BackfillRead, BackfillWrite, BackfillBlock,
              BackfillRecompute, HandshakeDone, streamVars, targetVars
<1>7. ASSUME PruneSelect \/ (\E n \in Nodes : DeleteNode(n)) \/ UNCHANGED vars
      PROVE  Stutter
  BY <1>7 DEF PruneSelect, DeleteNode, vars, streamVars, targetVars
<1> HIDE DEF Stutter
<1>8. ASSUME Next PROVE Ledger!Next \/ Stutter
  BY <1>8, NextCases, CreateRefines, <1>2, <1>3, <1>4, <1>5, <1>6, <1>7
<1> QED
  BY <1>1, <1>7, <1>8

\* Every behaviour of the store is one of the ledger.
THEOREM StoreRefinesLedger == Spec => LedgerSpec
<1>1. StreamInv /\ [Next]_vars => [Ledger!Next]_(Ledger!ledgerVars)
  BY StepRefines
<1> QED
  BY InitRefines, <1>1, StreamInvariant, PTL DEF Spec, LedgerSpec, Ledger!Spec

=============================================================================
