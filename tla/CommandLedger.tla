--------------------------- MODULE CommandLedger ---------------------------
(***************************************************************************)
(* What the server's command streams promise (the abstract specification   *)
(* of CommandStream, from the protocol stated in                           *)
(* internal/store/updates_concurrency.go): for each node an append-only    *)
(* list of numbered commands.  A number is given to one command, once, and *)
(* numbers only grow; the retired watermark only grows and stays below the *)
(* next number, so that a command is never retired before it is issued.    *)
(***************************************************************************)
EXTENDS Naturals

CONSTANTS
    Nodes,  \* monitored nodes
    Jobs,   \* update jobs
    MaxSeq  \* bound: sequence numbers issued on a node

VARIABLES
    issued,    \* the commands issued: node, sequence number and job
    nextSeq,   \* the next sequence number of each node
    watermark  \* every number up to it is retired

ledgerVars == <<issued, nextSeq, watermark>>

Commands == [node : Nodes, seq : 1..MaxSeq, job : Jobs]

Init ==
    /\ issued = {}
    /\ nextSeq = [n \in Nodes |-> 1]
    /\ watermark = [n \in Nodes |-> 0]

\* Job j is issued to the nodes of S, to each under its own next number.
Issue(j, S) ==
    /\ S # {}
    /\ \A n \in S : nextSeq[n] <= MaxSeq
    /\ nextSeq' = [n \in Nodes |-> nextSeq[n] + IF n \in S THEN 1 ELSE 0]
    /\ UNCHANGED watermark
    /\ \A c \in issued : c.job # j
    /\ issued' = issued \cup
          {c \in Commands : c.node \in S /\ c.seq = nextSeq[c.node] /\ c.job = j}

\* Numbers are retired, and numbers the server forgot are skipped.
Advance(n) ==
    /\ UNCHANGED issued
    /\ \E next \in nextSeq[n]..MaxSeq + 1, w \in watermark[n]..MaxSeq :
          /\ w < next
          /\ nextSeq' = [nextSeq EXCEPT ![n] = next]
          /\ watermark' = [watermark EXCEPT ![n] = w]

Next ==
    \/ \E j \in Jobs, S \in SUBSET Nodes : Issue(j, S)
    \/ \E n \in Nodes : Advance(n)

Spec == Init /\ [][Next]_ledgerVars

=============================================================================
