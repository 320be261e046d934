----------------------------- MODULE HubProofs -----------------------------
(***************************************************************************)
(* Proofs about Hub, for every set of nodes and senders, every capacity of *)
(* the channels and every number of connections.                           *)
(***************************************************************************)
EXTENDS Hub, SequenceTheorems, TLAPS

USE HubAssumption DEF IsEntry, Replaces

\* A connection is known once Register numbered it.  Its socket is open only
\* while its handler registers it or serves it.
HandlersInStep ==
    \A g \in Generations :
        /\ pc[g] = "new" <=> g > nextGen
        /\ g \in open => pc[g] \in {"swapped", "enqueue", "undoing", "serving"}

\* The requests queued for Run: a connection is queued for registration after
\* it was numbered, and for removal after its handler closed its socket.
QueuesInStep ==
    /\ \A i \in 1..Len(register) : register[i] <= nextGen
    /\ \A i \in 1..Len(unregister) : pc[unregister[i]] = "done"

\* An entry of the map is a connection of its node.
EntriesInStep ==
    \A n \in Nodes : agents[n] # 0 => agents[n] <= nextGen /\ node[agents[n]] = n

\* Only connections that were entries are fenced.
FencedKnown == \A g \in fenced : g <= nextGen

\* A fenced socket that is still open has someone about to close it: the
\* Register that replaced it, or Close.
FencedBeingClosed ==
    \A g \in open \cap fenced :
        \/ \E h \in Generations : pc[h] = "swapped" /\ old[h] = g
        \/ closing = "fenced" /\ g \in stale

\* The states of Close and Run, and the registrations that met a closed hub.
CloseInStep ==
    /\ closed <=> closing = "done"
    /\ \A g \in Generations : pc[g] = "undoing" => closed
    /\ ~running => closed /\ \A n \in Nodes : agents[n] = 0

NoWriteToFenced == \A s \in Senders : writing[s] # 0 => writing[s] \notin fenced

HubInv ==
    /\ TypeOK
    /\ HandlersInStep
    /\ QueuesInStep
    /\ EntriesInStep
    /\ FencedKnown
    /\ OpenConnectionIsCurrent
    /\ FencedBeingClosed
    /\ CloseInStep
    /\ NoWriteToFenced

-----------------------------------------------------------------------------
(* Types                                                                   *)

LEMMA TypeInit == Init => TypeOK
<1>1. ASSUME Init PROVE StateTypes
  <2>1. running \in BOOLEAN /\ closed \in BOOLEAN /\ subscribed \in BOOLEAN /\ lossy \in BOOLEAN
    BY <1>1, Zenon DEF Init
  <2>2. /\ nextGen \in 0..MaxGeneration
        /\ agents \in [Nodes -> 0..MaxGeneration]
        /\ old \in [Generations -> 0..MaxGeneration]
        /\ writing \in [Senders -> 0..MaxGeneration]
    BY <1>1 DEF Init
  <2> QED
    BY <1>1, <2>1, <2>2 DEF Init, StateTypes, HandlerStates
<1>2. Init => ChannelTypes
  BY EmptySeq DEF Init, ChannelTypes
<1> QED
  BY <1>1, <1>2 DEF TypeOK

\* A queue that loses its head is a queue.
LEMMA QueueTail ==
    ASSUME NEW S, NEW q \in Seq(S), q # << >>
    PROVE  /\ Head(q) \in S /\ Tail(q) \in Seq(S)
           /\ Len(Tail(q)) = Len(q) - 1
           /\ \A i \in 1..Len(Tail(q)) : i + 1 \in 1..Len(q) /\ Tail(q)[i] = q[i + 1]
           /\ 1 \in 1..Len(q) /\ Head(q) = q[1]
BY HeadTailProperties

\* A queue with room that grows.
LEMMA QueueAppend ==
    ASSUME NEW S, NEW q \in Seq(S), NEW e \in S, NEW cap \in Nat, Len(q) < cap
    PROVE  Append(q, e) \in Seq(S) /\ Len(Append(q, e)) <= cap
BY AppendProperties

LEMMA BroadcastType ==
    ASSUME broadcast \in Seq(StatusEvents) /\ Len(broadcast) <= BroadcastCap,
           lossy \in BOOLEAN,
           NEW n \in Nodes, NEW online \in BOOLEAN, NEW g \in Generations,
           Broadcast(n, online, g)
    PROVE  /\ broadcast' \in Seq(StatusEvents) /\ Len(broadcast') <= BroadcastCap
           /\ lossy' \in BOOLEAN
<1>1. [node |-> n, online |-> online, generation |-> g] \in StatusEvents
  BY DEF StatusEvents
<1>2. CASE Len(broadcast) < BroadcastCap
  BY <1>1, <1>2, QueueAppend DEF Broadcast
<1>3. CASE ~(Len(broadcast) < BroadcastCap)
  BY <1>3 DEF Broadcast
<1> QED
  BY <1>2, <1>3

LEMMA ChannelsUnchanged ==
    ASSUME ChannelTypes, UNCHANGED <<register, unregister, broadcast, inbox>>
    PROVE  ChannelTypes'
BY DEF ChannelTypes

LEMMA EntriesAreGenerations ==
    ASSUME StateTypes
    PROVE  {agents[n] : n \in Nodes} \ {0} \subseteq Generations
BY DEF StateTypes, Generations

LEMMA ConnectionType ==
    ASSUME TypeOK, NEW g \in Generations, Connection(g)
    PROVE  TypeOK'
<1> USE DEF TypeOK
<1>1. StateTypes'
  <2> USE DEF StateTypes, Generations, HandlerStates
  <2>1. CASE RegisterSwap(g)
    <3>1. node[g] \in Nodes /\ g \in 0..MaxGeneration
      OBVIOUS
    <3>2. agents' \in [Nodes -> 0..MaxGeneration] /\ nextGen' \in 0..MaxGeneration
      BY <2>1, <3>1 DEF RegisterSwap
    <3>3. fenced' \subseteq Generations
      <4>1. agents[node[g]] \in 0..MaxGeneration
        BY <3>1
      <4>2. fenced' = fenced \cup ({agents[node[g]]} \ {0})
        BY <2>1 DEF RegisterSwap
      <4>3. fenced \subseteq Generations
        OBVIOUS
      <4> HIDE DEF StateTypes, TypeOK
      <4>4. \A x \in 0..MaxGeneration : x # 0 => x \in Generations
        OBVIOUS
      <4> QED
        BY <4>1, <4>2, <4>3, <4>4
    <3>4. old' \in [Generations -> 0..MaxGeneration]
      BY <2>1, <3>1 DEF RegisterSwap
    <3>5. open' \subseteq Generations /\ pc' \in [Generations -> HandlerStates]
      BY <2>1 DEF RegisterSwap
    <3> QED
      BY <2>1, <3>2, <3>3, <3>4, <3>5 DEF RegisterSwap, runVars, sendVars, dashVars
  <2>2. CASE RegisterCloseOld(g)
    BY <2>2 DEF RegisterCloseOld, hubVars, runVars, sendVars, dashVars
  <2>3. CASE RegisterEnqueue(g)
    BY <2>3 DEF RegisterEnqueue, hubVars, runVars, sendVars, dashVars
  <2>4. CASE RegisterUndo(g)
    <3>1. agents' \in [Nodes -> 0..MaxGeneration]
      BY <2>4 DEF RegisterUndo
    <3> QED
      BY <2>4, <3>1 DEF RegisterUndo, runVars, sendVars, dashVars
  <2>8. CASE RegisterUndoClose(g)
    BY <2>8 DEF RegisterUndoClose, hubVars, runVars, sendVars, dashVars
  <2>5. CASE HandlerExit(g)
    BY <2>5 DEF HandlerExit, hubVars, runVars, sendVars, dashVars
  <2>6. CASE UnregisterGeneration(g)
    BY <2>6 DEF UnregisterGeneration, hubVars, runVars, sendVars, dashVars
  <2>7. CASE CompleteHandshake(g) \/ GraceExpires(g)
    BY <2>7 DEF CompleteHandshake, GraceExpires, runVars, connVars, sendVars, dashVars
  <2> QED
    BY <2>1, <2>2, <2>3, <2>4, <2>5, <2>6, <2>7, <2>8 DEF Connection
<1>2. ChannelTypes'
  <2>1. CASE RegisterEnqueue(g)
    BY <2>1, QueueAppend DEF RegisterEnqueue, dashVars, ChannelTypes
  <2>2. CASE UnregisterGeneration(g)
    BY <2>2, QueueAppend DEF UnregisterGeneration, dashVars, ChannelTypes
  <2>3. CASE ~RegisterEnqueue(g) /\ ~UnregisterGeneration(g)
    <3>1. UNCHANGED <<register, unregister, broadcast, inbox>>
      BY <2>3 DEF Connection, RegisterSwap, RegisterCloseOld, RegisterUndo, RegisterUndoClose, HandlerExit,
                  CompleteHandshake, GraceExpires, chanVars, dashVars
    <3> QED
      BY <3>1, ChannelsUnchanged
  <2> QED
    BY <2>1, <2>2, <2>3
<1> QED
  BY <1>1, <1>2

LEMMA RunType ==
    ASSUME TypeOK, Run
    PROVE  TypeOK'
<1> USE DEF TypeOK
<1>1. CASE RunRegister
  <2> DEFINE g == Head(register)
  <2>1. g \in Generations /\ register' \in Seq(Generations) /\ Len(register') <= RegisterCap
    BY <1>1, QueueTail DEF RunRegister, ChannelTypes
  <2>2. node[g] \in Nodes
    BY <2>1 DEF StateTypes
  <2>3. /\ broadcast' \in Seq(StatusEvents) /\ Len(broadcast') <= BroadcastCap
        /\ lossy' \in BOOLEAN
    BY <1>1, <2>1, <2>2, BroadcastType DEF RunRegister, StateTypes, ChannelTypes
  <2>4. agents' \in [Nodes -> 0..MaxGeneration]
    <3>1. g \in 0..MaxGeneration
      BY <2>1 DEF Generations
    <3>2. \/ agents' = agents
          \/ agents' = [agents EXCEPT ![node[g]] = g]
      BY <1>1 DEF RunRegister
    <3> QED
      BY <2>2, <3>1, <3>2 DEF StateTypes
  <2>7. open' \subseteq Generations
    BY <1>1 DEF RunRegister, StateTypes
  <2>5. ChannelTypes'
    BY <1>1, <2>1, <2>3 DEF RunRegister, ChannelTypes, dashVars
  <2>6. StateTypes'
    BY <1>1, <2>3, <2>4, <2>7 DEF RunRegister, StateTypes, runVars, sendVars, dashVars
  <2> QED
    BY <2>5, <2>6
<1>2. CASE RunUnregister
  <2> DEFINE g == Head(unregister)
  <2>1. /\ g \in Generations
        /\ unregister' \in Seq(Generations) /\ Len(unregister') <= UnregisterCap
    BY <1>2, QueueTail DEF RunUnregister, ChannelTypes
  <2>2. node[g] \in Nodes
    BY <2>1 DEF StateTypes
  <2>3. /\ broadcast' \in Seq(StatusEvents) /\ Len(broadcast') <= BroadcastCap
        /\ lossy' \in BOOLEAN
    BY <1>2, <2>1, <2>2, BroadcastType DEF RunUnregister, StateTypes, ChannelTypes
  <2>4. agents' \in [Nodes -> 0..MaxGeneration]
    <3>1. agents' = agents \/ agents' = [agents EXCEPT ![node[g]] = 0]
      BY <1>2 DEF RunUnregister
    <3> QED
      BY <3>1 DEF StateTypes
  <2>5. ChannelTypes'
    BY <1>2, <2>1, <2>3 DEF RunUnregister, ChannelTypes, dashVars
  <2>6. StateTypes'
    BY <1>2, <2>3, <2>4 DEF RunUnregister, StateTypes, runVars, connVars, sendVars, dashVars
  <2> QED
    BY <2>5, <2>6
<1>3. CASE RunBroadcast
  <2>1. /\ broadcast' \in Seq(StatusEvents) /\ Len(broadcast') <= BroadcastCap
        /\ Head(broadcast) \in StatusEvents
    BY <1>3, QueueTail DEF RunBroadcast, ChannelTypes
  <2>2. inbox' \in Seq(StatusEvents) /\ Len(inbox') <= InboxCap
    BY <1>3, <2>1, QueueAppend DEF RunBroadcast, ChannelTypes
  <2>3. ChannelTypes'
    BY <1>3, <2>1, <2>2 DEF RunBroadcast, ChannelTypes
  <2>4. StateTypes'
    BY <1>3 DEF RunBroadcast, StateTypes, hubVars, runVars, connVars, sendVars
  <2> QED
    BY <2>3, <2>4
<1>4. CASE RunClose
  <2>1. StateTypes'
    <3>1. /\ fenced' \subseteq Generations /\ open' \subseteq Generations
          /\ agents' \in [Nodes -> 0..MaxGeneration]
      BY <1>4, EntriesAreGenerations DEF RunClose, StateTypes
    <3>2. running' \in BOOLEAN /\ subscribed' \in BOOLEAN
      BY <1>4 DEF RunClose
    <3> QED
      BY <1>4, <3>1, <3>2 DEF RunClose, StateTypes, sendVars
  <2> QED
    BY <1>4, <2>1, ChannelsUnchanged DEF RunClose, chanVars
<1> QED
  BY <1>1, <1>2, <1>3, <1>4 DEF Run

LEMMA OtherType ==
    ASSUME TypeOK,
           \/ Close \/ Dashboard \/ UNCHANGED vars
           \/ \E s \in Senders : Sender(s)
    PROVE  TypeOK'
<1> USE DEF TypeOK
<1>1. CASE CloseFence
  <2>1. StateTypes'
    <3>1. /\ fenced' \subseteq Generations /\ stale' \subseteq Generations
          /\ agents' \in [Nodes -> 0..MaxGeneration]
      BY <1>1, EntriesAreGenerations DEF CloseFence, StateTypes
    <3>2. closing' \in {"no", "fenced", "done"} /\ subscribed' \in BOOLEAN
      BY <1>1 DEF CloseFence
    <3> QED
      BY <1>1, <3>1, <3>2 DEF CloseFence, StateTypes, connVars, sendVars
  <2> QED
    BY <1>1, <2>1, ChannelsUnchanged DEF CloseFence, chanVars
<1>2. CASE CloseSignal
  <2>1. StateTypes'
    BY <1>2 DEF CloseSignal, StateTypes, hubVars, sendVars, dashVars
  <2> QED
    BY <1>2, <2>1, ChannelsUnchanged DEF CloseSignal, chanVars, dashVars
<1>3. ASSUME NEW s \in Senders, Sender(s)
      PROVE  TypeOK'
  <2>1. StateTypes'
    <3>1. ASSUME NEW n \in Nodes, SenderCheck(s, n) PROVE StateTypes'
      BY <3>1 DEF SenderCheck, StateTypes, hubVars, runVars, connVars, dashVars
    <3>2. CASE SendToAgent(s)
      BY <3>2 DEF SendToAgent, StateTypes, hubVars, runVars, connVars, dashVars
    <3>3. CASE SendDone(s)
      BY <3>3 DEF SendDone, StateTypes, hubVars, runVars, connVars, dashVars
    <3> QED
      BY <1>3, <3>1, <3>2, <3>3 DEF Sender
  <2>2. UNCHANGED <<register, unregister, broadcast, inbox>>
    BY <1>3 DEF Sender, SenderCheck, SendToAgent, SendDone, chanVars, dashVars
  <2> QED
    BY <2>1, <2>2, ChannelsUnchanged
<1>4. CASE Dashboard
  <2>1. StateTypes'
    <3>1. CASE DashSubscribe
      BY <3>1 DEF DashSubscribe, StateTypes, hubVars, runVars, connVars, sendVars
    <3>2. CASE DashSnapshot
      BY <3>2 DEF DashSnapshot, StateTypes, hubVars, runVars, connVars, sendVars
    <3>3. CASE DashReceive
      BY <3>3 DEF DashReceive, StateTypes, hubVars, runVars, connVars, sendVars
    <3>4. CASE DashLeave
      BY <3>4 DEF DashLeave, StateTypes, hubVars, runVars, connVars, sendVars
    <3> QED
      BY <1>4, <3>1, <3>2, <3>3, <3>4 DEF Dashboard
  <2>2. inbox' \in Seq(StatusEvents) /\ Len(inbox') <= InboxCap
    <3>1. CASE DashSubscribe \/ DashLeave
      <4>1. inbox' = << >>
        BY <3>1 DEF DashSubscribe, DashLeave
      <4> QED
        BY <4>1, EmptySeq
    <3>2. CASE DashSnapshot
      BY <3>2 DEF DashSnapshot, ChannelTypes
    <3>3. CASE DashReceive
      BY <3>3, QueueTail DEF DashReceive, ChannelTypes
    <3> QED
      BY <1>4, <3>1, <3>2, <3>3 DEF Dashboard
  <2>3. UNCHANGED chanVars
    BY <1>4 DEF Dashboard, DashSubscribe, DashSnapshot, DashReceive, DashLeave
  <2> QED
    BY <2>1, <2>2, <2>3 DEF ChannelTypes, chanVars
<1>5. CASE UNCHANGED vars
  <2>1. StateTypes'
    BY <1>5 DEF vars, StateTypes, hubVars, runVars, connVars, sendVars, dashVars
  <2> QED
    BY <1>5, <2>1, ChannelsUnchanged DEF vars, chanVars, dashVars
<1> QED
  BY <1>1, <1>2, <1>3, <1>4, <1>5 DEF Close

LEMMA TypeNext == TypeOK /\ [Next]_vars => TypeOK'
BY ConnectionType, RunType, OtherType DEF Next

\* Type correctness, in every instance: no channel ever overflows.
THEOREM HubTypeCorrect == Spec => []TypeOK
BY TypeInit, TypeNext, PTL DEF Spec

-----------------------------------------------------------------------------
(* The inductive invariant                                                 *)

LEMMA HubInvInit == Init => HubInv
<1> SUFFICES ASSUME Init PROVE HubInv
  OBVIOUS
<1>1. HandlersInStep
  BY DEF Init, HandlersInStep, Generations
<1>2. QueuesInStep
  BY DEF Init, QueuesInStep
<1>3. EntriesInStep /\ FencedKnown /\ OpenConnectionIsCurrent /\ FencedBeingClosed
  BY DEF Init, EntriesInStep, FencedKnown, OpenConnectionIsCurrent, FencedBeingClosed
<1>4. CloseInStep /\ NoWriteToFenced
  BY DEF Init, CloseInStep, NoWriteToFenced
<1> QED
  BY <1>1, <1>2, <1>3, <1>4, TypeInit DEF HubInv

\* A step that leaves the queues, or grows one by a valid element, keeps them
\* in step with the handlers.
LEMMA HandlersStep ==
    ASSUME HubInv, Next
    PROVE  HandlersInStep'
<1> USE DEF HubInv, TypeOK
<1>1. ASSUME UNCHANGED <<nextGen, pc>>, open' \subseteq open
      PROVE  HandlersInStep'
  BY <1>1 DEF HandlersInStep
<1>2. ASSUME NEW g \in Generations, RegisterSwap(g)
      PROVE  HandlersInStep'
  BY <1>2 DEF RegisterSwap, HandlersInStep, StateTypes, Generations
<1>3. ASSUME NEW g \in Generations, Connection(g), ~RegisterSwap(g)
      PROVE  HandlersInStep'
  <2>1. CASE RegisterCloseOld(g) \/ RegisterEnqueue(g)
    BY <2>1 DEF RegisterCloseOld, RegisterEnqueue, HandlersInStep, StateTypes, hubVars
  <2>2. CASE RegisterUndo(g) \/ RegisterUndoClose(g) \/ HandlerExit(g) \/ UnregisterGeneration(g)
    BY <2>2 DEF RegisterUndo, RegisterUndoClose, HandlerExit, UnregisterGeneration, HandlersInStep,
                StateTypes, hubVars
  <2>3. CASE CompleteHandshake(g) \/ GraceExpires(g)
    BY <1>1, <2>3 DEF CompleteHandshake, GraceExpires, connVars
  <2> QED
    BY <1>3, <2>1, <2>2, <2>3 DEF Connection
<1>4. CASE Run \/ Close
  BY <1>1, <1>4 DEF Run, RunRegister, RunUnregister, RunBroadcast, RunClose, Close,
                    CloseFence, CloseSignal, hubVars, connVars
<1>5. CASE Dashboard \/ \E s \in Senders : Sender(s)
  BY <1>1, <1>5 DEF Dashboard, DashSubscribe, DashSnapshot, DashReceive, DashLeave,
                    Sender, SenderCheck, SendToAgent, SendDone, hubVars, connVars
<1> QED
  BY <1>2, <1>3, <1>4, <1>5 DEF Next

LEMMA QueuesStep ==
    ASSUME HubInv, Next
    PROVE  QueuesInStep'
<1> USE DEF HubInv, TypeOK
<1>t. TypeOK'
  BY TypeNext
<1>1. nextGen' >= nextGen
  <2>1. CASE nextGen' = nextGen
    BY <2>1 DEF StateTypes
  <2>2. ASSUME NEW g \in Generations, RegisterSwap(g) PROVE nextGen' >= nextGen
    BY <2>2 DEF RegisterSwap, StateTypes
  <2> QED
    BY <2>1, <2>2 DEF Next, Connection, RegisterCloseOld, RegisterEnqueue, RegisterUndo, RegisterUndoClose,
       HandlerExit, UnregisterGeneration, CompleteHandshake, GraceExpires,
       Run, RunRegister, RunUnregister, RunBroadcast, RunClose, Close,
       CloseFence, CloseSignal, Dashboard, DashSubscribe, DashSnapshot, DashReceive,
       DashLeave, Sender, SenderCheck, SendToAgent, SendDone, hubVars
<1>2. \A g \in Generations : pc[g] = "done" => pc'[g] = "done"
  <2>1. CASE pc' = pc
    BY <2>1
  <2>2. ASSUME NEW g \in Generations, Connection(g)
        PROVE  \A h \in Generations : pc[h] = "done" => pc'[h] = "done"
    <3>1. CASE pc' = pc
      BY <3>1
    <3>2. CASE RegisterSwap(g)
      BY <3>2 DEF RegisterSwap, HandlersInStep, StateTypes, Generations
    <3>3. CASE RegisterCloseOld(g) \/ RegisterEnqueue(g) \/ RegisterUndo(g)
               \/ RegisterUndoClose(g) \/ HandlerExit(g) \/ UnregisterGeneration(g)
      BY <3>3 DEF RegisterCloseOld, RegisterEnqueue, RegisterUndo, RegisterUndoClose, HandlerExit,
                  UnregisterGeneration, StateTypes
    <3> QED
      BY <2>2, <3>1, <3>2, <3>3 DEF Connection, CompleteHandshake, GraceExpires, connVars
  <2> QED
    BY <2>1, <2>2 DEF Next, Run, RunRegister, RunUnregister, RunBroadcast, RunClose,
       Close, CloseFence, CloseSignal, Dashboard, DashSubscribe, DashSnapshot,
       DashReceive, DashLeave, Sender, SenderCheck, SendToAgent, SendDone, connVars
<1>3. \A i \in 1..Len(register') : register'[i] <= nextGen'
  <2>0. /\ register \in Seq(Generations) /\ \A i \in 1..Len(register) : register[i] <= nextGen
        /\ nextGen \in Nat /\ nextGen' \in Nat /\ \A g \in Generations : g \in Nat
    BY <1>t DEF ChannelTypes, StateTypes, QueuesInStep, Generations
  <2>1. CASE register' = register
    BY <1>1, <2>0, <2>1, ElementOfSeq
  <2>2. ASSUME NEW g \in Generations, RegisterEnqueue(g)
        PROVE  \A i \in 1..Len(register') : register'[i] <= nextGen'
    <3>1. register' = Append(register, g) /\ g <= nextGen /\ nextGen' = nextGen
      BY <2>2 DEF RegisterEnqueue, HandlersInStep, hubVars, Generations, StateTypes
    <3> QED
      BY <2>0, <3>1, AppendProperties
  <2>3. CASE RunRegister
    <3>1. register' = Tail(register) /\ register # << >> /\ nextGen' = nextGen
      BY <2>3 DEF RunRegister
    <3> QED
      BY <2>0, <3>1, QueueTail
  <2> QED
    BY <2>1, <2>2, <2>3 DEF Next, Connection, RegisterSwap, RegisterCloseOld,
       RegisterUndo, RegisterUndoClose, HandlerExit, UnregisterGeneration, CompleteHandshake,
       GraceExpires, Run, RunUnregister, RunBroadcast, RunClose, Close,
       CloseFence, CloseSignal, Dashboard, DashSubscribe, DashSnapshot, DashReceive,
       DashLeave, Sender, SenderCheck, SendToAgent, SendDone, chanVars
<1>4. \A i \in 1..Len(unregister') : pc'[unregister'[i]] = "done"
  <2>0. /\ unregister \in Seq(Generations)
        /\ \A i \in 1..Len(unregister) : pc[unregister[i]] = "done"
    BY DEF ChannelTypes, QueuesInStep
  <2>1. CASE unregister' = unregister
    BY <1>2, <2>0, <2>1, ElementOfSeq
  <2>2. ASSUME NEW g \in Generations, UnregisterGeneration(g),
               unregister' = Append(unregister, g)
        PROVE  \A i \in 1..Len(unregister') : pc'[unregister'[i]] = "done"
    <3>1. pc'[g] = "done"
      BY <2>2 DEF UnregisterGeneration, StateTypes
    <3> QED
      BY <1>2, <2>0, <2>2, <3>1, AppendProperties, ElementOfSeq
  <2>3. CASE RunUnregister
    <3>1. unregister' = Tail(unregister) /\ unregister # << >> /\ pc' = pc
      BY <2>3 DEF RunUnregister, connVars
    <3> QED
      BY <2>0, <3>1, QueueTail
  <2> QED
    BY <2>1, <2>2, <2>3 DEF Next, Connection, RegisterSwap, RegisterCloseOld,
       RegisterEnqueue, RegisterUndo, RegisterUndoClose, HandlerExit, UnregisterGeneration,
       CompleteHandshake,
       GraceExpires, Run, RunRegister, RunBroadcast, RunClose, Close,
       CloseFence, CloseSignal, Dashboard, DashSubscribe, DashSnapshot, DashReceive,
       DashLeave, Sender, SenderCheck, SendToAgent, SendDone, chanVars
<1> QED
  BY <1>3, <1>4 DEF QueuesInStep

\* The steps that move a connection, an entry or Close; the others are quiet.
Quiet == UNCHANGED <<nextGen, agents, fenced, runVars, connVars>>

LEMMA Steps ==
    ASSUME Next
    PROVE  \/ \E g \in Generations :
                 \/ RegisterSwap(g) \/ RegisterCloseOld(g) \/ RegisterEnqueue(g)
                 \/ RegisterUndo(g) \/ RegisterUndoClose(g) \/ HandlerExit(g) \/ UnregisterGeneration(g)
           \/ RunRegister \/ RunUnregister \/ RunClose \/ CloseFence \/ CloseSignal
           \/ Quiet
BY DEF Next, Connection, CompleteHandshake, GraceExpires, Run, RunBroadcast, Close,
       Dashboard, DashSubscribe, DashSnapshot, DashReceive, DashLeave, Sender,
       SenderCheck, SendToAgent, SendDone, hubVars, Quiet

\* What Run takes from its queues.
LEMMA RunHeads ==
    ASSUME HubInv
    PROVE  /\ RunRegister => /\ Head(register) \in Generations
                             /\ Head(register) <= nextGen
           /\ RunUnregister => /\ Head(unregister) \in Generations
                               /\ Head(unregister) \notin open
<1> USE DEF HubInv, TypeOK, ChannelTypes
<1>1. ASSUME RunRegister
      PROVE  Head(register) \in Generations /\ Head(register) <= nextGen
  BY <1>1, QueueTail DEF RunRegister, QueuesInStep
<1>2. ASSUME RunUnregister
      PROVE  Head(unregister) \in Generations /\ Head(unregister) \notin open
  <2>1. Head(unregister) \in Generations /\ pc[Head(unregister)] = "done"
    BY <1>2, QueueTail DEF RunUnregister, QueuesInStep
  <2> QED
    BY <2>1 DEF HandlersInStep
<1> QED
  BY <1>1, <1>2

LEMMA EntriesStep ==
    ASSUME HubInv, Next
    PROVE  EntriesInStep'
<1> USE DEF HubInv, TypeOK, StateTypes, EntriesInStep
<1>1. ASSUME NEW g \in Generations, RegisterSwap(g) PROVE EntriesInStep'
  BY <1>1 DEF RegisterSwap, Generations
<1>2. ASSUME UNCHANGED <<nextGen, node>>,
             \A n \in Nodes : agents'[n] \in {agents[n], 0}
      PROVE  EntriesInStep'
  BY <1>2
<1>3. ASSUME NEW g \in Generations,
             \/ RegisterCloseOld(g) \/ RegisterEnqueue(g)
             \/ RegisterUndo(g) \/ RegisterUndoClose(g) \/ HandlerExit(g) \/ UnregisterGeneration(g)
      PROVE  EntriesInStep'
  <2>1. UNCHANGED <<nextGen, node>>
    BY <1>3 DEF RegisterCloseOld, RegisterEnqueue, RegisterUndo, RegisterUndoClose, HandlerExit,
                UnregisterGeneration, hubVars
  <2>2. \A n \in Nodes : agents'[n] \in {agents[n], 0}
    BY <1>3 DEF RegisterCloseOld, RegisterEnqueue, RegisterUndo, RegisterUndoClose, HandlerExit,
                UnregisterGeneration, hubVars
  <2> QED
    BY <1>2, <2>1, <2>2
<1>4. CASE RunRegister
  <2>1. PICK g \in Generations : g = Head(register) /\ g <= nextGen
    BY <1>4, RunHeads
  <2>2. /\ UNCHANGED <<nextGen, node>>
        /\ agents' = agents \/ agents' = [agents EXCEPT ![node[g]] = g]
    BY <1>4, <2>1 DEF RunRegister
  <2> QED
    BY <2>1, <2>2
<1>5. CASE RunUnregister
  <2>1. agents' = agents \/ agents' = [agents EXCEPT ![node[Head(unregister)]] = 0]
    BY <1>5 DEF RunUnregister
  <2>2. \A n \in Nodes : agents'[n] \in {agents[n], 0}
    BY <2>1
  <2> QED
    BY <1>2, <1>5, <2>2 DEF RunUnregister, connVars
<1>6. CASE RunClose \/ CloseFence
  BY <1>2, <1>6 DEF RunClose, CloseFence, connVars
<1>7. CASE CloseSignal \/ Quiet
  BY <1>2, <1>7 DEF CloseSignal, Quiet, hubVars, connVars
<1> QED
  BY Steps, <1>1, <1>3, <1>4, <1>5, <1>6, <1>7

LEMMA FencedKnownStep ==
    ASSUME HubInv, Next
    PROVE  FencedKnown'
<1> USE DEF HubInv, TypeOK, StateTypes, FencedKnown
<1>0. \A g \in Generations : g \in Nat
  BY DEF Generations
<1>1. ASSUME NEW g \in Generations, RegisterSwap(g) PROVE FencedKnown'
  <2>1. /\ nextGen' = nextGen + 1
        /\ fenced' = fenced \cup ({agents[node[g]]} \ {0})
    BY <1>1 DEF RegisterSwap
  <2> QED
    BY <1>0, <2>1 DEF EntriesInStep
<1>2. ASSUME UNCHANGED <<nextGen, fenced>> PROVE FencedKnown'
  BY <1>2
<1>3. CASE RunClose \/ CloseFence
  <2>1. /\ nextGen' = nextGen
        /\ fenced' = fenced \cup ({agents[n] : n \in Nodes} \ {0})
    BY <1>3 DEF RunClose, CloseFence
  <2> QED
    BY <2>1 DEF EntriesInStep
<1>4. ASSUME NEW g \in Generations,
             \/ RegisterCloseOld(g) \/ RegisterEnqueue(g)
             \/ RegisterUndo(g) \/ RegisterUndoClose(g) \/ HandlerExit(g) \/ UnregisterGeneration(g)
      PROVE  UNCHANGED <<nextGen, fenced>>
  BY <1>4 DEF RegisterCloseOld, RegisterEnqueue, RegisterUndo, RegisterUndoClose, HandlerExit,
              UnregisterGeneration, hubVars
<1>5. CASE RunRegister \/ RunUnregister \/ CloseSignal \/ Quiet
  BY <1>2, <1>5 DEF RunRegister, RunUnregister, CloseSignal, Quiet, hubVars
<1> QED
  BY Steps, <1>1, <1>2, <1>3, <1>4, <1>5

LEMMA OpenStep ==
    ASSUME HubInv, Next
    PROVE  OpenConnectionIsCurrent'
<1> USE DEF HubInv, TypeOK, StateTypes, OpenConnectionIsCurrent
<1>n. \A g \in Generations : g \in Nat
  BY DEF Generations
<1>1. ASSUME NEW g \in Generations, RegisterSwap(g)
      PROVE  OpenConnectionIsCurrent'
  <2> SUFFICES ASSUME NEW h \in open', h \notin fenced'
               PROVE  agents'[node'[h]] = h /\ Newest(h)'
    OBVIOUS
  <2>c. \A k \in Generations : pc[k] # "undoing"
    BY <1>1 DEF RegisterSwap, CloseInStep
  <2>1. /\ g = nextGen + 1 /\ nextGen' = g /\ node' = node
        /\ agents' = [agents EXCEPT ![node[g]] = g]
        /\ fenced' = fenced \cup ({agents[node[g]]} \ {0})
        /\ open' = open \cup {g}
    BY <1>1 DEF RegisterSwap
  <2>2. CASE h = g
    BY <2>1, <2>2 DEF Newest, Generations
  <2>3. CASE h # g
    <3>1. h \in open /\ h \notin fenced /\ h \in Generations
      BY <2>1, <2>3
    <3>2. agents[node[h]] = h /\ Newest(h)
      BY <2>c, <3>1
    <3>3. node[h] # node[g]
      <4>1. node[h] = node[g] => h \in fenced'
        BY <2>1, <3>1, <3>2 DEF Generations
      <4> QED
        BY <4>1
    <3>4. agents'[node'[h]] = h
      BY <2>1, <3>1, <3>2, <3>3
    <3>5. ASSUME NEW k \in Generations, k <= nextGen', node'[k] = node'[h]
          PROVE  k <= h
      <4>1. k # g /\ k <= nextGen + 1 /\ k \in Nat /\ nextGen \in Nat
        BY <2>1, <3>3, <3>5, <1>n
      <4>2. k <= nextGen
        BY <2>1, <4>1
      <4> QED
        BY <2>1, <3>2, <3>5, <4>2 DEF Newest
    <3>6. Newest(h)'
      BY <3>5 DEF Newest
    <3> QED
      BY <3>4, <3>6
  <2> QED
    BY <2>2, <2>3
\* Fewer open sockets that are not fenced, and the same entries for them.
<1>2. ASSUME UNCHANGED <<nextGen, node>>, open' \ fenced' \subseteq open \ fenced,
             \A g \in open' \ fenced' :
                /\ agents[node[g]] = g => agents'[node[g]] = g \/ pc'[g] = "undoing"
                /\ pc[g] = "undoing" => pc'[g] = "undoing"
      PROVE  OpenConnectionIsCurrent'
  BY <1>2 DEF Newest
<1>3. ASSUME NEW g \in Generations,
             RegisterCloseOld(g) \/ RegisterEnqueue(g) \/ HandlerExit(g)
             \/ UnregisterGeneration(g)
      PROVE  OpenConnectionIsCurrent'
  <2>1. UNCHANGED <<nextGen, node, agents, fenced>> /\ open' \subseteq open
    BY <1>3 DEF RegisterCloseOld, RegisterEnqueue, HandlerExit, UnregisterGeneration,
                hubVars
  <2>2. \A h \in Generations : pc[h] = "undoing" => pc'[h] = "undoing"
    BY <1>3 DEF RegisterCloseOld, RegisterEnqueue, HandlerExit, UnregisterGeneration
  <2> QED
    BY <1>2, <2>1, <2>2
<1>4. ASSUME NEW g \in Generations, RegisterUndo(g) \/ RegisterUndoClose(g)
      PROVE  OpenConnectionIsCurrent'
  <2>1. CASE RegisterUndo(g)
    <3>1. /\ UNCHANGED <<nextGen, node, open, fenced>>
          /\ pc' = [pc EXCEPT ![g] = "undoing"]
          /\ agents' = [agents EXCEPT ![node[g]] = IF agents[node[g]] = g THEN 0 ELSE @]
      BY <2>1 DEF RegisterUndo, IsEntry
    <3>2. ASSUME NEW h \in open' \ fenced', agents[node[h]] = h
          PROVE  agents'[node[h]] = h \/ pc'[h] = "undoing"
      <4>1. h \in Generations
        BY <3>1
      <4> QED
        BY <3>1, <3>2, <4>1
    <3> QED
      BY <1>2, <3>1, <3>2
  <2>2. CASE RegisterUndoClose(g)
    <3>1. /\ UNCHANGED <<nextGen, node, agents, fenced>>
          /\ open' = open \ {g}
          /\ \A h \in Generations \ {g} : pc'[h] = pc[h]
      BY <2>2 DEF RegisterUndoClose, hubVars
    <3> QED
      BY <1>2, <3>1
  <2> QED
    BY <1>4, <2>1, <2>2
<1>5. CASE RunRegister
  <2>1. PICK g \in Generations : g = Head(register) /\ g <= nextGen
    BY <1>5, RunHeads
  <2>2. /\ UNCHANGED <<nextGen, node, fenced>>
        /\ pc' = pc
        /\ open' \subseteq open
        /\ \/ agents' = agents
           \/ agents[node[g]] <= g /\ agents' = [agents EXCEPT ![node[g]] = g]
    BY <1>5, <2>1 DEF RunRegister
  <2>3. ASSUME NEW h \in open' \ fenced', agents[node[h]] = h,
               agents[node[g]] <= g, agents' = [agents EXCEPT ![node[g]] = g]
        PROVE  agents'[node[h]] = h
    <3>1. h \in Generations /\ h \in open \ fenced
      BY <2>2
    <3>2. CASE node[h] = node[g]
      <4>1. g <= h
        BY <2>1, <3>1, <3>2 DEF Newest
      <4>2. h <= g
        BY <2>3, <3>2
      <4>3. h = g
        BY <4>1, <4>2, <3>1, <1>n
      <4> QED
        BY <2>3, <4>3
    <3>3. CASE node[h] # node[g]
      BY <2>3, <3>3
    <3> QED
      BY <3>2, <3>3
  <2> QED
    BY <1>2, <2>2, <2>3
<1>6. CASE RunUnregister
  <2>1. PICK g \in Generations : g = Head(unregister) /\ g \notin open
    BY <1>6, RunHeads
  <2>2. /\ UNCHANGED <<nextGen, node, open, fenced, pc>>
        /\ \/ agents' = agents
           \/ agents[node[g]] = g /\ agents' = [agents EXCEPT ![node[g]] = 0]
    BY <1>6, <2>1 DEF RunUnregister, connVars
  <2>3. \A h \in open' \ fenced' : agents[node[h]] = h => agents'[node[h]] = h
    BY <2>1, <2>2
  <2> QED
    BY <1>2, <2>2, <2>3
<1>7. CASE RunClose \/ CloseFence
  <2>1. /\ fenced' = fenced \cup ({agents[n] : n \in Nodes} \ {0})
        /\ open' \subseteq open
        /\ UNCHANGED <<nextGen, node, pc>>
    BY <1>7 DEF RunClose, CloseFence, connVars
  <2>2. ASSUME NEW g \in open' \ fenced' PROVE agents[node[g]] # g
    <3>1. g \in Generations /\ g # 0 /\ node[g] \in Nodes
      BY <2>1 DEF Generations
    <3> QED
      BY <2>1, <2>2, <3>1
  <2> QED
    BY <1>2, <2>1, <2>2
<1>8. CASE CloseSignal \/ Quiet
  BY <1>2, <1>8 DEF CloseSignal, Quiet, hubVars, connVars
<1> QED
  BY Steps, <1>1, <1>3, <1>4, <1>5, <1>6, <1>7, <1>8

LEMMA FencedStep ==
    ASSUME HubInv, Next
    PROVE  FencedBeingClosed'
<1> USE DEF HubInv, TypeOK, StateTypes, FencedBeingClosed
\* A step that fences nothing and takes no one's duty to close a socket away.
<1>1. ASSUME open' \cap fenced' \subseteq open \cap fenced,
             \A h \in Generations : pc[h] = "swapped" /\ old[h] \in open' =>
                pc'[h] = "swapped" /\ old'[h] = old[h],
             closing = "fenced" /\ stale \cap open' # {} =>
                closing' = "fenced" /\ stale' = stale
      PROVE  FencedBeingClosed'
  BY <1>1
<1>2. ASSUME NEW g \in Generations, RegisterSwap(g)
      PROVE  FencedBeingClosed'
  <2>1. /\ old' = [old EXCEPT ![g] = agents[node[g]]]
        /\ pc' = [pc EXCEPT ![g] = "swapped"]
        /\ fenced' = fenced \cup ({agents[node[g]]} \ {0})
        /\ open' = open \cup {g}
        /\ UNCHANGED <<closing, stale>>
    BY <1>2 DEF RegisterSwap, runVars
  <2>2. pc[g] = "new"
    BY <1>2 DEF RegisterSwap, HandlersInStep, Generations
  <2>3. ASSUME NEW f \in open' \cap fenced'
        PROVE  \/ \E h \in Generations : pc'[h] = "swapped" /\ old'[h] = f
               \/ closing' = "fenced" /\ f \in stale'
    <3>1. CASE f = agents[node[g]]
      BY <2>1, <3>1
    <3>2. CASE f # agents[node[g]]
      <4>1. f # g \/ f \in fenced
        BY <2>1, <3>2
      <4>2. f \in fenced
        BY <2>1, <2>3, <3>2
      <4>3. CASE f \in open
        BY <2>1, <2>2, <4>2, <4>3
      <4>4. CASE f \notin open
        <5>1. f = g
          BY <2>1, <4>4
        <5> QED
          BY <5>1, <4>2, <1>2 DEF RegisterSwap, FencedKnown
      <4> QED
        BY <4>3, <4>4
    <3> QED
      BY <3>1, <3>2
  <2> QED
    BY <2>3
<1>3. ASSUME NEW g \in Generations, RegisterCloseOld(g)
      PROVE  FencedBeingClosed'
  <2>1. /\ open' = open \ {old[g]} /\ pc' = [pc EXCEPT ![g] = "enqueue"]
        /\ UNCHANGED <<old, fenced, closing, stale>>
    BY <1>3 DEF RegisterCloseOld, hubVars, runVars
  <2> QED
    BY <1>1, <2>1
<1>4. ASSUME NEW g \in Generations,
             RegisterEnqueue(g) \/ RegisterUndo(g) \/ RegisterUndoClose(g) \/ HandlerExit(g) \/ UnregisterGeneration(g)
      PROVE  FencedBeingClosed'
  <2>1. /\ pc[g] # "swapped" /\ (\A h \in Generations : h # g => pc'[h] = pc[h])
        /\ open' \subseteq open
        /\ UNCHANGED <<old, fenced, closing, stale>>
    BY <1>4 DEF RegisterEnqueue, RegisterUndo, RegisterUndoClose, HandlerExit, UnregisterGeneration,
                hubVars, runVars
  <2> QED
    BY <1>1, <2>1
<1>5. CASE RunRegister \/ RunUnregister
  <2>1. open' \subseteq open /\ UNCHANGED <<pc, old, fenced, closing, stale>>
    BY <1>5 DEF RunRegister, RunUnregister, runVars, connVars
  <2> QED
    BY <1>1, <2>1
<1>6. CASE RunClose
  <2>1. open' \cap fenced' \subseteq open \cap fenced /\ UNCHANGED <<pc, old, closing, stale>>
    BY <1>6 DEF RunClose
  <2> QED
    BY <1>1, <2>1
<1>7. CASE CloseFence
  <2>1. /\ closing = "no" /\ closing' = "fenced"
        /\ fenced' = fenced \cup stale'
        /\ UNCHANGED <<open, pc, old>>
    BY <1>7 DEF CloseFence, connVars
  <2> QED
    BY <2>1
<1>8. CASE CloseSignal
  <2>1. open' = open \ stale /\ UNCHANGED <<fenced, pc, old, stale>>
    BY <1>8 DEF CloseSignal, hubVars
  <2> QED
    BY <1>1, <2>1
<1>9. CASE Quiet
  BY <1>1, <1>9 DEF Quiet, runVars, connVars
<1> QED
  BY Steps, <1>2, <1>3, <1>4, <1>5, <1>6, <1>7, <1>8, <1>9

LEMMA CloseStep ==
    ASSUME HubInv, Next
    PROVE  CloseInStep'
<1> USE DEF HubInv, TypeOK, StateTypes, CloseInStep
<1>1. ASSUME NEW g \in Generations,
             \/ RegisterSwap(g) \/ RegisterCloseOld(g) \/ RegisterEnqueue(g)
             \/ RegisterUndo(g) \/ RegisterUndoClose(g) \/ HandlerExit(g) \/ UnregisterGeneration(g)
      PROVE  CloseInStep'
  <2>1. UNCHANGED <<running, closing, closed>>
    BY <1>1 DEF RegisterSwap, RegisterCloseOld, RegisterEnqueue, RegisterUndo, RegisterUndoClose,
                HandlerExit, UnregisterGeneration, runVars
  <2>2. closed => \A n \in Nodes : agents'[n] \in {agents[n], 0}
    BY <1>1 DEF RegisterSwap, RegisterCloseOld, RegisterEnqueue, RegisterUndo, RegisterUndoClose,
                HandlerExit, UnregisterGeneration, hubVars
  <2>3. \A h \in Generations : pc'[h] = "undoing" => pc[h] = "undoing" \/ closed
    BY <1>1 DEF RegisterSwap, RegisterCloseOld, RegisterEnqueue, RegisterUndo, RegisterUndoClose,
                HandlerExit, UnregisterGeneration
  <2> QED
    BY <2>1, <2>2, <2>3
<1>2. CASE RunRegister \/ RunUnregister
  <2>1. UNCHANGED <<running, closing, closed, pc>> /\ running
    BY <1>2 DEF RunRegister, RunUnregister, runVars, connVars
  <2> QED
    BY <2>1
<1>3. CASE RunClose
  BY <1>3 DEF RunClose
<1>4. CASE CloseFence
  BY <1>4 DEF CloseFence, connVars
<1>5. CASE CloseSignal
  BY <1>5 DEF CloseSignal, hubVars
<1>6. CASE Quiet
  <2>1. UNCHANGED <<closing, closed, running, pc, agents>>
    BY <1>6 DEF Quiet, runVars, connVars
  <2> QED
    BY <2>1
<1> QED
  BY Steps, <1>1, <1>2, <1>3, <1>4, <1>5, <1>6

LEMMA WriteStep ==
    ASSUME HubInv, Next
    PROVE  NoWriteToFenced'
<1> USE DEF HubInv, TypeOK, StateTypes, NoWriteToFenced
<1>1. CASE UNCHANGED <<writing, fenced>>
  BY <1>1
<1>2. CASE MuFree /\ UNCHANGED writing
  BY <1>2 DEF MuFree
<1>3. ASSUME NEW s \in Senders, SendToAgent(s) \/ SendDone(s)
      PROVE  NoWriteToFenced'
  <2>1. fenced' = fenced
    BY <1>3 DEF SendToAgent, SendDone, hubVars
  <2>2. \A t \in Senders : writing'[t] \in {writing[t], 0}
           \/ writing'[t] \notin fenced
    BY <1>3 DEF SendToAgent, SendDone
  <2> QED
    BY <2>1, <2>2
<1>4. ASSUME NEW g \in Generations, Connection(g)
      PROVE  NoWriteToFenced'
  <2>1. UNCHANGED writing /\ (UNCHANGED fenced \/ MuFree)
    BY <1>4 DEF Connection, RegisterSwap, RegisterCloseOld, RegisterEnqueue,
       RegisterUndo, RegisterUndoClose, HandlerExit, UnregisterGeneration, CompleteHandshake,
       GraceExpires, hubVars, sendVars
  <2> QED
    BY <1>1, <1>2, <2>1
<1>5. CASE Run \/ Close
  <2>1. UNCHANGED writing /\ (UNCHANGED fenced \/ MuFree)
    BY <1>5 DEF Run, RunRegister, RunUnregister, RunBroadcast, RunClose, Close,
       CloseFence, CloseSignal, hubVars, sendVars
  <2> QED
    BY <1>1, <1>2, <2>1
<1>6. CASE Dashboard \/ \E s \in Senders, n \in Nodes : SenderCheck(s, n)
  <2>1. UNCHANGED <<writing, fenced>>
    BY <1>6 DEF Dashboard, DashSubscribe, DashSnapshot, DashReceive, DashLeave,
       SenderCheck, hubVars, sendVars
  <2> QED
    BY <1>1, <2>1
<1> QED
  BY <1>3, <1>4, <1>5, <1>6 DEF Next, Sender

LEMMA HubInvNext == HubInv /\ [Next]_vars => HubInv'
<1>1. ASSUME HubInv, Next PROVE HubInv'
  BY <1>1, TypeNext, HandlersStep, QueuesStep, EntriesStep, FencedKnownStep, OpenStep,
     FencedStep,
     CloseStep, WriteStep DEF HubInv
<1>2. ASSUME HubInv, UNCHANGED vars PROVE HubInv'
  <2>1. UNCHANGED <<nextGen, agents, fenced, register, unregister, running, closing,
                    stale, closed, node, open, pc, old, writing>>
    BY <1>2 DEF vars, hubVars, chanVars, runVars, connVars, sendVars
  <2>2. TypeOK'
    BY <1>2, TypeNext DEF HubInv
  <2>3. HandlersInStep' /\ QueuesInStep' /\ EntriesInStep' /\ FencedKnown'
    BY <1>2, <2>1 DEF HubInv, HandlersInStep, QueuesInStep, EntriesInStep, FencedKnown
  <2>4. OpenConnectionIsCurrent' /\ FencedBeingClosed'
    BY <1>2, <2>1 DEF HubInv, OpenConnectionIsCurrent, Newest, FencedBeingClosed
  <2>5. CloseInStep' /\ NoWriteToFenced'
    BY <1>2, <2>1 DEF HubInv, CloseInStep, NoWriteToFenced
  <2> QED
    BY <2>2, <2>3, <2>4, <2>5 DEF HubInv
<1> QED
  BY <1>1, <1>2

\* The invariant holds after every step: handlers, channels, entries, fences and
\* the steps of Close agree (Register, Run, Close).
THEOREM HubInvariant == Spec => []HubInv
BY HubInvInit, HubInvNext, PTL DEF Spec

-----------------------------------------------------------------------------
(* The properties                                                          *)

\* At most one connection of a node is open and not fenced, and it is the
\* node's entry and its newest registration, but for the socket of a Register
\* that took its entry back and is about to close it.
THEOREM OneCurrentConnection == Spec => []OpenConnectionIsCurrent
<1>1. HubInv => OpenConnectionIsCurrent
  BY DEF HubInv
<1> QED
  BY <1>1, HubInvariant, PTL

\* A command is written to the newest connection of its node or to a closed
\* socket, never to a replaced one.
THEOREM WritesGoToNewest == Spec => []WriteGoesToNewest
<1>1. HubInv => WriteGoesToNewest
  BY DEF HubInv, NoWriteToFenced, OpenConnectionIsCurrent, WriteGoesToNewest
<1> QED
  BY <1>1, HubInvariant, PTL

\* When Run has returned every socket is closed or about to be, by the Register
\* that opened it or by the one that replaced it.
THEOREM RunLeavesNoSocket == Spec => []NoSocketOutlivesRun
<1>1. HubInv => NoSocketOutlivesRun
  <2> SUFFICES ASSUME HubInv, ~running, NEW g \in open
               PROVE  \/ pc[g] = "undoing"
                      \/ \E h \in Generations : pc[h] = "swapped" /\ old[h] = g
    BY DEF NoSocketOutlivesRun
  <2> USE DEF HubInv, TypeOK, StateTypes
  <2>1. closing = "done" /\ \A n \in Nodes : agents[n] = 0
    BY DEF CloseInStep
  <2>2. g \in Generations /\ g # 0 /\ node[g] \in Nodes
    BY DEF Generations
  <2>3. g \in fenced \/ pc[g] = "undoing"
    BY <2>1, <2>2 DEF OpenConnectionIsCurrent
  <2> QED
    BY <2>1, <2>3 DEF FencedBeingClosed
<1> QED
  BY <1>1, HubInvariant, PTL

LEMMA ForwardStep ==
    ASSUME HubInv, Next
    PROVE  \A n \in Nodes : agents[n] # 0 /\ agents'[n] # 0 => agents'[n] >= agents[n]
<1> DEFINE Forward == \A n \in Nodes :
               agents[n] # 0 /\ agents'[n] # 0 => agents'[n] >= agents[n]
<1> USE DEF HubInv, TypeOK, StateTypes
<1>0. \A n \in Nodes : agents[n] \in Nat
  OBVIOUS
<1>1. ASSUME NEW g \in Generations, RegisterSwap(g) PROVE Forward
  BY <1>0, <1>1 DEF RegisterSwap, EntriesInStep
<1>2. ASSUME \A n \in Nodes : agents'[n] \in {agents[n], 0} PROVE Forward
  BY <1>0, <1>2
<1>3. ASSUME NEW g \in Generations,
             \/ RegisterCloseOld(g) \/ RegisterEnqueue(g)
             \/ RegisterUndo(g) \/ RegisterUndoClose(g) \/ HandlerExit(g) \/ UnregisterGeneration(g)
      PROVE  Forward
  <2>1. \A n \in Nodes : agents'[n] \in {agents[n], 0}
    BY <1>3 DEF RegisterCloseOld, RegisterEnqueue, RegisterUndo, RegisterUndoClose, HandlerExit,
                UnregisterGeneration, hubVars
  <2> QED
    BY <1>2, <2>1
<1>4. CASE RunRegister
  <2>1. \/ agents' = agents
        \/ \E g \in Generations :
              agents[node[g]] <= g /\ agents' = [agents EXCEPT ![node[g]] = g]
    BY <1>4, RunHeads DEF RunRegister
  <2> QED
    BY <1>0, <2>1
<1>5. CASE RunUnregister
  <2>1. agents' = agents \/ agents' = [agents EXCEPT ![node[Head(unregister)]] = 0]
    BY <1>5 DEF RunUnregister
  <2>2. \A n \in Nodes : agents'[n] \in {agents[n], 0}
    BY <2>1
  <2> QED
    BY <1>2, <2>2
<1>6. CASE RunClose \/ CloseFence
  BY <1>2, <1>6 DEF RunClose, CloseFence
<1>7. CASE CloseSignal \/ Quiet
  BY <1>2, <1>7 DEF CloseSignal, Quiet, hubVars
<1> QED
  BY Steps, <1>1, <1>3, <1>4, <1>5, <1>6, <1>7

\* An entry is only replaced by a newer connection.
THEOREM EntriesMoveForward == Spec => EntryNeverGoesBack
<1>1. HubInv /\ [Next]_vars =>
         [\A n \in Nodes :
             agents[n] # 0 /\ agents'[n] # 0 => agents'[n] >= agents[n]]_vars
  BY ForwardStep
<1> QED
  BY <1>1, HubInvariant, PTL DEF Spec, EntryNeverGoesBack

-----------------------------------------------------------------------------
(* The dashboard                                                           *)

\* Run has still to see the registration of g.
OnItsWay(g) ==
    \/ pc[g] \in {"swapped", "enqueue"}
    \/ \E i \in 1..Len(register) : register[i] = g

\* No event about the entry of n is still to be made.
Settled(n) == agents[n] = 0 \/ ~OnItsWay(agents[n])

\* A dashboard that shows n as online, or not, agrees with the map.
Agrees(n, online) == Settled(n) => (online <=> agents[n] # 0)

Mentions(q, n) == \E i \in 1..Len(q) : q[i].node = n

\* The event at i is the last one in q about its node.
IsLast(q, i) == \A j \in 1..Len(q) : j > i => q[j].node # q[i].node

\* The dashboard is subscribed while it is there and the hub is not closing.
DashInStep ==
    /\ dash = "off" => inbox = << >> /\ ~subscribed
    /\ dash # "off" /\ closing = "no" => subscribed
    /\ dash = "live" => \A n \in Nodes : view[n] # "unknown"

\* What the dashboard will show of a node in the end: the last event about it
\* in the queue of the hub, else the last in the dashboard's channel, else what
\* it shows now.
BroadcastAgrees ==
    \A i \in 1..Len(broadcast) :
        IsLast(broadcast, i) => Agrees(broadcast[i].node, broadcast[i].online)

InboxAgrees ==
    \A i \in 1..Len(inbox) :
        IsLast(inbox, i) /\ ~Mentions(broadcast, inbox[i].node)
            => Agrees(inbox[i].node, inbox[i].online)

ViewAgrees ==
    dash = "live" =>
        \A n \in Nodes :
            ~Mentions(broadcast, n) /\ ~Mentions(inbox, n) => Agrees(n, view[n] = "online")

StreamAgrees ==
    closing = "no" /\ ~lossy => BroadcastAgrees /\ InboxAgrees /\ ViewAgrees

DashInv == HubInv /\ DashInStep /\ StreamAgrees

\* Nothing happens to the entry of n that a dashboard has to be told.
Steady(n) == Settled(n)' => Settled(n) /\ (agents'[n] # 0 <=> agents[n] # 0)

\* No entry changes and no registration is lost on its way.
LEMMA SameEntries ==
    ASSUME agents' = agents,
           \A n \in Nodes : agents[n] # 0 /\ OnItsWay(agents[n]) => OnItsWay(agents[n])'
    PROVE  \A n \in Nodes : Steady(n)
<1> SUFFICES ASSUME NEW n \in Nodes, Settled(n)' PROVE Settled(n)
  BY DEF Steady
<1>1. CASE agents[n] = 0
  BY <1>1 DEF Settled
<1>2. CASE agents[n] # 0
  <2>1. ~OnItsWay(agents[n])'
    BY <1>2 DEF Settled
  <2> QED
    BY <1>2, <2>1 DEF Settled
<1> QED
  BY <1>1, <1>2

LEMMA EventNodes ==
    ASSUME HubInv
    PROVE  /\ \A i \in 1..Len(broadcast) : broadcast[i] \in StatusEvents
                                           /\ broadcast[i].node \in Nodes
           /\ \A i \in 1..Len(inbox) : inbox[i] \in StatusEvents /\ inbox[i].node \in Nodes
<1>1. broadcast \in Seq(StatusEvents) /\ inbox \in Seq(StatusEvents)
  BY DEF HubInv, TypeOK, ChannelTypes
<1>2. \A i \in 1..Len(broadcast) : broadcast[i] \in StatusEvents
  BY <1>1, ElementOfSeq
<1>3. \A i \in 1..Len(inbox) : inbox[i] \in StatusEvents
  BY <1>1, ElementOfSeq
<1>4. \A e \in StatusEvents : e.node \in Nodes
  BY DEF StatusEvents
<1> QED
  BY <1>2, <1>3, <1>4

LEMMA DashInit == Init => DashInv
<1> SUFFICES ASSUME Init PROVE DashInv
  OBVIOUS
<1>1. HubInv
  BY HubInvInit
<1>2. DashInStep
  BY DEF Init, DashInStep
<1>3. broadcast = << >> /\ inbox = << >> /\ dash = "off"
  BY DEF Init
<1>4. StreamAgrees
  BY <1>3 DEF StreamAgrees, BroadcastAgrees, InboxAgrees, ViewAgrees
<1> QED
  BY <1>1, <1>2, <1>4 DEF DashInv

\* A step that leaves the queues and the dashboard alone.
LEMMA NoEventStep ==
    ASSUME HubInv, StreamAgrees, closing = "no", ~lossy,
           UNCHANGED <<broadcast, inbox, dash, view>>, \A n \in Nodes : Steady(n)
    PROVE  StreamAgrees'
<1>1. BroadcastAgrees /\ InboxAgrees /\ ViewAgrees
  BY DEF StreamAgrees
<1>2. BroadcastAgrees'
  <2> SUFFICES ASSUME NEW i \in 1..Len(broadcast), IsLast(broadcast, i)
               PROVE  Agrees(broadcast[i].node, broadcast[i].online)'
    BY DEF BroadcastAgrees, IsLast
  <2>1. Agrees(broadcast[i].node, broadcast[i].online) /\ broadcast[i].node \in Nodes
    BY <1>1, EventNodes DEF BroadcastAgrees
  <2> QED
    BY <2>1 DEF Steady, Agrees, Settled
<1>3. InboxAgrees'
  <2> SUFFICES ASSUME NEW i \in 1..Len(inbox), IsLast(inbox, i),
                      ~Mentions(broadcast, inbox[i].node)
               PROVE  Agrees(inbox[i].node, inbox[i].online)'
    BY DEF InboxAgrees, IsLast, Mentions
  <2>1. Agrees(inbox[i].node, inbox[i].online) /\ inbox[i].node \in Nodes
    BY <1>1, EventNodes DEF InboxAgrees
  <2> QED
    BY <2>1 DEF Steady, Agrees, Settled
<1>4. ViewAgrees'
  <2> SUFFICES ASSUME dash = "live", NEW n \in Nodes, ~Mentions(broadcast, n),
                      ~Mentions(inbox, n)
               PROVE  Agrees(n, view[n] = "online")'
    BY DEF ViewAgrees, Mentions
  <2>1. Agrees(n, view[n] = "online")
    BY <1>1 DEF ViewAgrees
  <2> QED
    BY <2>1 DEF Steady, Agrees, Settled
<1> QED
  BY <1>2, <1>3, <1>4 DEF StreamAgrees

\* A step of Run that tells the dashboards of a node what the map now says.
LEMMA EventStep ==
    ASSUME HubInv, StreamAgrees, closing = "no", ~lossy,
           NEW n \in Nodes, NEW online \in BOOLEAN, NEW g \in Generations,
           Broadcast(n, online, g), ~lossy',
           online <=> agents'[n] # 0,
           \A o \in Nodes \ {n} : Steady(o),
           UNCHANGED <<inbox, dash, view>>
    PROVE  StreamAgrees'
<1> DEFINE e == [node |-> n, online |-> online, generation |-> g]
<1>1. broadcast' = Append(broadcast, e)
  BY DEF Broadcast
<1>2. e.node = n /\ e.online = online /\ broadcast \in Seq(StatusEvents)
  BY DEF HubInv, TypeOK, ChannelTypes
<1> HIDE DEF e
<1>3. /\ Len(broadcast) \in Nat /\ Len(broadcast') = Len(broadcast) + 1
      /\ broadcast'[Len(broadcast) + 1] = e
      /\ \A i \in 1..Len(broadcast) : broadcast'[i] = broadcast[i]
  <2>1. e \in StatusEvents
    BY DEF e, StatusEvents
  <2> QED
    BY <1>1, <1>2, <2>1, AppendProperties, LenProperties
<1>4. BroadcastAgrees /\ InboxAgrees /\ ViewAgrees
  BY DEF StreamAgrees
<1>5. \A o \in Nodes : Mentions(broadcast', o) <=> Mentions(broadcast, o) \/ o = n
  BY <1>2, <1>3 DEF Mentions
<1>6. BroadcastAgrees'
  <2> SUFFICES ASSUME NEW i \in 1..Len(broadcast'), IsLast(broadcast', i)
               PROVE  Agrees(broadcast[i].node, broadcast[i].online)'
    BY DEF BroadcastAgrees, IsLast
  <2>1. CASE i = Len(broadcast) + 1
    BY <1>2, <1>3, <2>1 DEF Agrees
  <2>2. CASE i # Len(broadcast) + 1
    <3>1. i \in 1..Len(broadcast)
      BY <1>3, <2>2
    <3>2. broadcast'[i] = broadcast[i] /\ broadcast[i].node # n /\ broadcast[i].node \in Nodes
      BY <1>2, <1>3, <3>1, EventNodes DEF IsLast
    <3>3. IsLast(broadcast, i)
      BY <1>3, <3>1, <3>2 DEF IsLast
    <3>4. Agrees(broadcast[i].node, broadcast[i].online)
      BY <1>4, <3>1, <3>3 DEF BroadcastAgrees
    <3> QED
      BY <3>2, <3>4 DEF Steady, Agrees, Settled
  <2> QED
    BY <2>1, <2>2
<1>7. InboxAgrees'
  <2> SUFFICES ASSUME NEW i \in 1..Len(inbox), IsLast(inbox, i),
                      ~Mentions(broadcast', inbox[i].node)
               PROVE  Agrees(inbox[i].node, inbox[i].online)'
    BY DEF InboxAgrees, IsLast, Mentions
  <2>1. inbox[i].node \in Nodes \ {n} /\ ~Mentions(broadcast, inbox[i].node)
    BY <1>5, EventNodes
  <2>2. Agrees(inbox[i].node, inbox[i].online)
    BY <1>4, <2>1 DEF InboxAgrees
  <2> QED
    BY <2>1, <2>2 DEF Steady, Agrees, Settled
<1>8. ViewAgrees'
  <2> SUFFICES ASSUME dash = "live", NEW o \in Nodes, ~Mentions(broadcast', o),
                      ~Mentions(inbox, o)
               PROVE  Agrees(o, view[o] = "online")'
    BY DEF ViewAgrees, Mentions
  <2>1. o \in Nodes \ {n} /\ ~Mentions(broadcast, o)
    BY <1>5
  <2>2. Agrees(o, view[o] = "online")
    BY <1>4, <2>1 DEF ViewAgrees
  <2> QED
    BY <2>1, <2>2 DEF Steady, Agrees, Settled
<1> QED
  BY <1>6, <1>7, <1>8 DEF StreamAgrees

\* The last events of a queue that loses its head.
LEMMA TailEvents ==
    ASSUME NEW q \in Seq(StatusEvents), q # << >>
    PROVE  /\ \A i \in 1..Len(Tail(q)) :
                  /\ i + 1 \in 1..Len(q) /\ Tail(q)[i] = q[i + 1]
                  /\ IsLast(Tail(q), i) => IsLast(q, i + 1)
           /\ \A o : Mentions(q, o) <=> Mentions(Tail(q), o) \/ q[1].node = o
           /\ 1 \in 1..Len(q)
           /\ ~Mentions(Tail(q), q[1].node) => IsLast(q, 1)
<1>1. /\ Len(q) \in Nat \ {0} /\ Len(Tail(q)) = Len(q) - 1
      /\ \A i \in 1..Len(Tail(q)) : i + 1 \in 1..Len(q) /\ Tail(q)[i] = q[i + 1]
  BY HeadTailProperties, LenProperties, EmptySeq
<1>2. \A j \in 2..Len(q) : j - 1 \in 1..Len(Tail(q)) /\ Tail(q)[j - 1] = q[j]
  BY <1>1
<1>3. ASSUME NEW i \in 1..Len(Tail(q)), IsLast(Tail(q), i) PROVE IsLast(q, i + 1)
  <2> SUFFICES ASSUME NEW j \in 1..Len(q), j > i + 1 PROVE q[j].node # q[i + 1].node
    BY DEF IsLast
  <2>1. j \in 2..Len(q) /\ j - 1 > i /\ j - 1 \in 1..Len(Tail(q))
    BY <1>1
  <2>2. Tail(q)[j - 1].node # Tail(q)[i].node
    BY <1>3, <2>1 DEF IsLast
  <2> QED
    BY <1>1, <1>2, <2>1, <2>2
<1>4. ASSUME NEW o PROVE Mentions(q, o) <=> Mentions(Tail(q), o) \/ q[1].node = o
  <2>1. ASSUME Mentions(q, o) PROVE Mentions(Tail(q), o) \/ q[1].node = o
    <3>1. PICK j \in 1..Len(q) : q[j].node = o
      BY <2>1 DEF Mentions
    <3>2. j = 1 \/ j \in 2..Len(q)
      BY <1>1
    <3> QED
      BY <1>2, <3>1, <3>2 DEF Mentions
  <2>2. ASSUME Mentions(Tail(q), o) \/ q[1].node = o PROVE Mentions(q, o)
    <3>1. 1 \in 1..Len(q)
      BY <1>1
    <3> QED
      BY <1>1, <2>2, <3>1 DEF Mentions
  <2> QED
    BY <2>1, <2>2
<1>5. ASSUME ~Mentions(Tail(q), q[1].node) PROVE IsLast(q, 1)
  <2> SUFFICES ASSUME NEW j \in 1..Len(q), j > 1 PROVE q[j].node # q[1].node
    BY DEF IsLast
  <2>1. j \in 2..Len(q)
    BY <1>1
  <2> QED
    BY <1>2, <1>5, <2>1 DEF Mentions
<1>6. 1 \in 1..Len(q)
  BY <1>1
<1> QED
  BY <1>1, <1>3, <1>4, <1>5, <1>6

\* The last events of a queue that gets another.
LEMMA AppendEvents ==
    ASSUME NEW q \in Seq(StatusEvents), NEW e \in StatusEvents
    PROVE  /\ Len(Append(q, e)) = Len(q) + 1 /\ Len(q) \in Nat
           /\ Append(q, e)[Len(q) + 1] = e
           /\ \A i \in 1..Len(q) :
                  /\ Append(q, e)[i] = q[i]
                  /\ IsLast(Append(q, e), i) => IsLast(q, i) /\ q[i].node # e.node
           /\ \A o : Mentions(Append(q, e), o) <=> Mentions(q, o) \/ e.node = o
<1>1. /\ Len(Append(q, e)) = Len(q) + 1 /\ Len(q) \in Nat
      /\ Append(q, e)[Len(q) + 1] = e
      /\ \A i \in 1..Len(q) : Append(q, e)[i] = q[i]
  BY AppendProperties, LenProperties
<1>2. ASSUME NEW i \in 1..Len(q), IsLast(Append(q, e), i)
      PROVE  IsLast(q, i) /\ q[i].node # e.node
  BY <1>1, <1>2 DEF IsLast
<1>3. ASSUME NEW o PROVE Mentions(Append(q, e), o) <=> Mentions(q, o) \/ e.node = o
  BY <1>1 DEF Mentions
<1> QED
  BY <1>1, <1>2, <1>3

\* Run passes an event on.
LEMMA RunBroadcastAgrees ==
    ASSUME HubInv, DashInStep, StreamAgrees, closing = "no", ~lossy', RunBroadcast
    PROVE  StreamAgrees'
<1> DEFINE e == Head(broadcast)
<1>1. /\ broadcast # << >> /\ broadcast' = Tail(broadcast)
      /\ inbox' = IF subscribed /\ Len(inbox) < InboxCap THEN Append(inbox, e) ELSE inbox
      /\ lossy' = (lossy \/ (subscribed /\ Len(inbox) >= InboxCap))
      /\ UNCHANGED <<agents, register, pc, dash, view, subscribed, closing>>
  BY DEF RunBroadcast, hubVars, runVars, connVars
<1>2. ~lossy /\ ~(subscribed /\ Len(inbox) >= InboxCap)
  BY <1>1
<1>3. broadcast \in Seq(StatusEvents) /\ inbox \in Seq(StatusEvents)
  BY DEF HubInv, TypeOK, ChannelTypes
<1>4. e = broadcast[1] /\ e \in StatusEvents /\ 1 \in 1..Len(broadcast)
  BY <1>1, <1>3, QueueTail, TailEvents
<1>5. BroadcastAgrees /\ InboxAgrees /\ ViewAgrees
  BY <1>2 DEF StreamAgrees
<1> HIDE DEF e
<1>6. \A o : Mentions(broadcast, o) <=> Mentions(broadcast', o) \/ e.node = o
  BY <1>1, <1>3, <1>4, TailEvents
<1>7. BroadcastAgrees'
  <2> SUFFICES ASSUME NEW i \in 1..Len(broadcast'), IsLast(broadcast', i)
               PROVE  Agrees(broadcast[i].node, broadcast[i].online)'
    BY DEF BroadcastAgrees, IsLast
  <2>1. /\ i + 1 \in 1..Len(broadcast) /\ broadcast'[i] = broadcast[i + 1]
        /\ IsLast(broadcast, i + 1)
    BY <1>1, <1>3, TailEvents
  <2>2. Agrees(broadcast[i + 1].node, broadcast[i + 1].online)
    BY <1>5, <2>1 DEF BroadcastAgrees
  <2> QED
    BY <1>1, <2>1, <2>2 DEF Agrees, Settled, OnItsWay
<1>8. CASE subscribed
  <2>1. inbox' = Append(inbox, e)
    <3>1. Len(inbox) \in Nat
      BY <1>3, LenProperties
    <3> QED
      BY <1>1, <1>2, <1>8, <3>1
  <2>2. InboxAgrees'
    <3> SUFFICES ASSUME NEW i \in 1..Len(inbox'), IsLast(inbox', i),
                        ~Mentions(broadcast', inbox'[i].node)
                 PROVE  Agrees(inbox[i].node, inbox[i].online)'
      BY DEF InboxAgrees, IsLast, Mentions
    <3>1. CASE i = Len(inbox) + 1
      <4>1. inbox'[i] = e
        BY <1>3, <1>4, <2>1, <3>1, AppendEvents
      <4>2. IsLast(broadcast, 1)
        BY <1>1, <1>3, <1>4, <4>1, TailEvents
      <4>3. Agrees(e.node, e.online)
        BY <1>4, <1>5, <4>2 DEF BroadcastAgrees
      <4> QED
        BY <1>1, <4>1, <4>3 DEF Agrees, Settled, OnItsWay
    <3>2. CASE i # Len(inbox) + 1
      <4>1. i \in 1..Len(inbox)
        BY <1>3, <1>4, <2>1, <3>2, AppendEvents
      <4>2. inbox'[i] = inbox[i] /\ IsLast(inbox, i) /\ inbox[i].node # e.node
        BY <1>3, <1>4, <2>1, <4>1, AppendEvents
      <4>3. Agrees(inbox[i].node, inbox[i].online)
        BY <1>5, <1>6, <4>1, <4>2 DEF InboxAgrees
      <4> QED
        BY <1>1, <4>2, <4>3 DEF Agrees, Settled, OnItsWay
    <3> QED
      BY <3>1, <3>2
  <2>3. ViewAgrees'
    <3> SUFFICES ASSUME dash = "live", NEW n \in Nodes, ~Mentions(broadcast', n),
                        ~Mentions(inbox', n)
                 PROVE  Agrees(n, view[n] = "online")'
      BY <1>1 DEF ViewAgrees, Mentions
    <3>1. ~Mentions(inbox, n) /\ e.node # n
      BY <1>3, <1>4, <2>1, AppendEvents
    <3>2. Agrees(n, view[n] = "online")
      BY <1>5, <1>6, <3>1 DEF ViewAgrees
    <3> QED
      BY <1>1, <3>2 DEF Agrees, Settled, OnItsWay
  <2> QED
    BY <1>7, <2>2, <2>3 DEF StreamAgrees
<1>9. CASE ~subscribed
  <2>1. dash = "off" /\ inbox = << >> /\ inbox' = << >> /\ dash' = "off"
    BY <1>1, <1>9 DEF DashInStep
  <2>2. InboxAgrees'
    BY <2>1 DEF InboxAgrees
  <2>3. ViewAgrees'
    BY <2>1 DEF ViewAgrees
  <2> QED
    BY <1>7, <2>2, <2>3 DEF StreamAgrees
<1> QED
  BY <1>8, <1>9

\* The dashboard shows an event.
LEMMA DashReceiveAgrees ==
    ASSUME HubInv, DashInStep, StreamAgrees, closing = "no", ~lossy, DashReceive
    PROVE  StreamAgrees'
<1> DEFINE e == Head(inbox)
<1>1. /\ inbox # << >> /\ inbox' = Tail(inbox) /\ dash = "live"
      /\ view' = [view EXCEPT ![e.node] = IF e.online THEN "online" ELSE "offline"]
      /\ UNCHANGED <<agents, register, pc, dash, broadcast>>
  BY DEF DashReceive, hubVars, chanVars, connVars
<1>2. inbox \in Seq(StatusEvents) /\ view \in [Nodes -> {"unknown", "online", "offline"}]
  BY DEF HubInv, TypeOK, ChannelTypes, StateTypes
<1>3. e = inbox[1] /\ e \in StatusEvents /\ 1 \in 1..Len(inbox)
  BY <1>1, <1>2, QueueTail, TailEvents
<1>4. BroadcastAgrees /\ InboxAgrees /\ ViewAgrees
  BY DEF StreamAgrees
<1> HIDE DEF e
<1>5. \A o : Mentions(inbox, o) <=> Mentions(inbox', o) \/ e.node = o
  BY <1>1, <1>2, <1>3, TailEvents
<1>6. BroadcastAgrees'
  BY <1>1, <1>4 DEF BroadcastAgrees, IsLast, Agrees, Settled, OnItsWay
<1>7. InboxAgrees'
  <2> SUFFICES ASSUME NEW i \in 1..Len(inbox'), IsLast(inbox', i),
                      ~Mentions(broadcast, inbox'[i].node)
               PROVE  Agrees(inbox[i].node, inbox[i].online)'
    BY <1>1 DEF InboxAgrees, IsLast, Mentions
  <2>1. /\ i + 1 \in 1..Len(inbox) /\ inbox'[i] = inbox[i + 1] /\ IsLast(inbox, i + 1)
    BY <1>1, <1>2, TailEvents
  <2>2. Agrees(inbox[i + 1].node, inbox[i + 1].online)
    BY <1>4, <2>1 DEF InboxAgrees
  <2> QED
    BY <1>1, <2>1, <2>2 DEF Agrees, Settled, OnItsWay
<1>8. ViewAgrees'
  <2> SUFFICES ASSUME NEW n \in Nodes, ~Mentions(broadcast, n), ~Mentions(inbox', n)
               PROVE  Agrees(n, view[n] = "online")'
    BY <1>1 DEF ViewAgrees, Mentions
  <2>1. CASE n = e.node
    <3>1. IsLast(inbox, 1)
      BY <1>1, <1>2, <1>3, <2>1, TailEvents
    <3>2. Agrees(n, e.online)
      BY <1>3, <1>4, <2>1, <3>1 DEF InboxAgrees
    <3>3. view'[n] = IF e.online THEN "online" ELSE "offline"
      BY <1>1, <1>2, <2>1
    <3>4. (view'[n] = "online") <=> e.online
      BY <3>3
    <3> QED
      BY <1>1, <3>2, <3>4 DEF Agrees, Settled, OnItsWay
  <2>2. CASE n # e.node
    <3>1. Agrees(n, view[n] = "online")
      BY <1>1, <1>4, <1>5, <2>2 DEF ViewAgrees
    <3>2. view'[n] = view[n]
      BY <1>1, <1>2, <2>2
    <3> QED
      BY <1>1, <3>1, <3>2 DEF Agrees, Settled, OnItsWay
  <2> QED
    BY <2>1, <2>2
<1> QED
  BY <1>6, <1>7, <1>8 DEF StreamAgrees

\* The dashboard comes, takes its snapshot, and leaves.
LEMMA DashComesAgrees ==
    ASSUME HubInv, StreamAgrees, closing = "no", ~lossy,
           DashSubscribe \/ DashSnapshot \/ DashLeave
    PROVE  StreamAgrees'
<1>1. UNCHANGED <<agents, register, pc, broadcast>>
  BY DEF DashSubscribe, DashSnapshot, DashLeave, hubVars, chanVars, connVars
<1>2. BroadcastAgrees /\ InboxAgrees
  BY DEF StreamAgrees
<1>3. BroadcastAgrees'
  BY <1>1, <1>2 DEF BroadcastAgrees, IsLast, Agrees, Settled, OnItsWay
<1>4. CASE DashSnapshot
  <2>1. /\ inbox' = inbox
        /\ view' = [n \in Nodes |-> IF agents[n] # 0 THEN "online" ELSE "offline"]
    BY <1>4 DEF DashSnapshot
  <2>2. InboxAgrees'
    BY <1>1, <1>2, <2>1 DEF InboxAgrees, IsLast, Mentions, Agrees, Settled, OnItsWay
  <2>3. \A n \in Nodes : (view'[n] = "online") <=> agents'[n] # 0
    BY <1>1, <2>1
  <2>4. ViewAgrees'
    BY <2>3 DEF ViewAgrees, Agrees
  <2> QED
    BY <1>3, <2>2, <2>4 DEF StreamAgrees
<1>5. CASE DashSubscribe \/ DashLeave
  <2>1. inbox' = << >> /\ dash' # "live"
    BY <1>5 DEF DashSubscribe, DashLeave
  <2> QED
    BY <1>3, <2>1 DEF StreamAgrees, InboxAgrees, ViewAgrees
<1> QED
  BY <1>4, <1>5

LEMMA DashInStepStep == ASSUME HubInv, DashInStep, Next PROVE DashInStep'
<1>1. CASE Dashboard
  <2>1. CASE DashSubscribe
    BY <2>1 DEF DashSubscribe, DashInStep
  <2>2. CASE DashSnapshot
    BY <2>2 DEF DashSnapshot, DashInStep, runVars
  <2>3. CASE DashLeave
    BY <2>3 DEF DashLeave, DashInStep
  <2>4. CASE DashReceive
    <3> DEFINE e == Head(inbox)
    <3>1. /\ view' = [view EXCEPT ![e.node] = IF e.online THEN "online" ELSE "offline"]
          /\ dash = "live" /\ dash' = dash /\ subscribed' = subscribed /\ closing' = closing
      BY <2>4 DEF DashReceive, runVars
    <3> HIDE DEF e
    <3>2. \A n \in Nodes : view'[n] \in {view[n], "online", "offline"}
      BY <3>1 DEF HubInv, TypeOK, StateTypes
    <3> QED
      BY <3>1, <3>2 DEF DashInStep
  <2> QED
    BY <1>1, <2>1, <2>2, <2>3, <2>4 DEF Dashboard
<1>2. CASE RunBroadcast
  BY <1>2 DEF RunBroadcast, DashInStep, runVars
<1>3. CASE RunClose \/ CloseFence
  <2>1. CASE RunClose
    BY <2>1 DEF RunClose, DashInStep, HubInv, CloseInStep
  <2>2. CASE CloseFence
    BY <2>2 DEF CloseFence, DashInStep
  <2> QED
    BY <1>3, <2>1, <2>2
<1>4. CASE UNCHANGED dashVars /\ (closing' = closing \/ closing' # "no")
  BY <1>4 DEF DashInStep, dashVars
<1>5. ASSUME NEW g \in Generations, Connection(g)
      PROVE  UNCHANGED dashVars /\ closing' = closing
  BY <1>5 DEF Connection, RegisterSwap, RegisterCloseOld, RegisterEnqueue, RegisterUndo, RegisterUndoClose,
              HandlerExit, UnregisterGeneration, CompleteHandshake, GraceExpires, runVars
<1>6. ASSUME RunRegister \/ RunUnregister \/ CloseSignal
      PROVE  UNCHANGED dashVars /\ (closing' = closing \/ closing' # "no")
  BY <1>6 DEF RunRegister, RunUnregister, CloseSignal, runVars
<1>7. ASSUME NEW s \in Senders, Sender(s) PROVE UNCHANGED dashVars /\ closing' = closing
  BY <1>7 DEF Sender, SenderCheck, SendToAgent, SendDone, runVars
<1> QED
  BY <1>1, <1>2, <1>3, <1>4, <1>5, <1>6, <1>7 DEF Next, Run, Close

\* An entry is a connection of its node, so a step of a connection of one node
\* leaves the entries of the others on their way.
LEMMA EntryOfNode ==
    ASSUME HubInv, NEW n \in Nodes, agents[n] # 0
    PROVE  agents[n] \in Generations /\ agents[n] <= nextGen /\ node[agents[n]] = n
BY DEF HubInv, TypeOK, StateTypes, EntriesInStep, Generations

LEMMA ConnectionSteady ==
    ASSUME HubInv, closing = "no", NEW g \in Generations,
           \/ RegisterSwap(g) \/ RegisterCloseOld(g) \/ RegisterEnqueue(g)
           \/ RegisterUndo(g) \/ RegisterUndoClose(g) \/ HandlerExit(g) \/ UnregisterGeneration(g)
    PROVE  /\ \A n \in Nodes : Steady(n)
           /\ UNCHANGED <<broadcast, inbox, dash, view>>
<1>1. pc \in [Generations -> HandlerStates] /\ register \in Seq(Generations)
  BY DEF HubInv, TypeOK, StateTypes, ChannelTypes
<1>2. CASE RegisterSwap(g)
  <2>1. /\ agents' = [agents EXCEPT ![node[g]] = g] /\ pc' = [pc EXCEPT ![g] = "swapped"]
        /\ register' = register /\ g = nextGen + 1 /\ nextGen \in Nat
        /\ UNCHANGED <<broadcast, inbox, dash, view>>
    BY <1>2 DEF RegisterSwap, chanVars, dashVars, HubInv, TypeOK, StateTypes
  <2>2. agents \in [Nodes -> 0..MaxGeneration] /\ node[g] \in Nodes
    BY DEF HubInv, TypeOK, StateTypes
  <2>3. ASSUME NEW n \in Nodes PROVE Steady(n)
    <3>1. CASE n = node[g]
      <4>1. agents'[n] = g /\ g # 0 /\ pc'[g] = "swapped"
        BY <1>1, <2>1, <2>2, <3>1 DEF Generations
      <4> QED
        BY <4>1 DEF Steady, Settled, OnItsWay
    <3>2. CASE n # node[g]
      <4>1. agents'[n] = agents[n]
        BY <2>1, <2>2, <3>2
      <4>2. agents[n] # 0 => pc'[agents[n]] = pc[agents[n]]
        BY <1>1, <2>1, <3>2, EntryOfNode
      <4> QED
        BY <2>1, <4>1, <4>2 DEF Steady, Settled, OnItsWay
    <3> QED
      BY <3>1, <3>2
  <2> QED
    BY <2>1, <2>3
<1>3. CASE RegisterCloseOld(g) \/ HandlerExit(g) \/ UnregisterGeneration(g)
  <2>1. /\ agents' = agents /\ register' = register
        /\ UNCHANGED <<broadcast, inbox, dash, view>>
        /\ \/ pc[g] = "swapped" /\ pc' = [pc EXCEPT ![g] = "enqueue"]
           \/ pc[g] = "serving" /\ pc' = [pc EXCEPT ![g] = "leaving"]
           \/ pc[g] = "leaving" /\ pc' = [pc EXCEPT ![g] = "done"]
    BY <1>3 DEF RegisterCloseOld, HandlerExit, UnregisterGeneration, hubVars, chanVars,
                dashVars
  <2>2. ASSUME NEW h \in Generations, OnItsWay(h) PROVE OnItsWay(h)'
    <3>1. CASE h = g
      BY <1>1, <2>1, <2>2, <3>1 DEF OnItsWay
    <3>2. CASE h # g
      <4>1. pc'[h] = pc[h]
        BY <1>1, <2>1, <3>2
      <4> QED
        BY <2>1, <2>2, <4>1 DEF OnItsWay
    <3> QED
      BY <3>1, <3>2
  <2> QED
    BY <2>1, <2>2, SameEntries, EntryOfNode
<1>4. CASE RegisterEnqueue(g)
  <2>1. /\ agents' = agents /\ register' = Append(register, g)
        /\ pc' = [pc EXCEPT ![g] = "serving"]
        /\ UNCHANGED <<broadcast, inbox, dash, view>>
    BY <1>4 DEF RegisterEnqueue, hubVars, chanVars, dashVars
  <2>2. /\ Len(register) \in Nat /\ Len(register') = Len(register) + 1
        /\ register'[Len(register) + 1] = g
        /\ \A i \in 1..Len(register) : register'[i] = register[i]
    BY <1>1, <2>1, AppendProperties, LenProperties
  <2>3. ASSUME NEW h \in Generations, OnItsWay(h) PROVE OnItsWay(h)'
    <3>1. CASE h = g
      BY <2>2, <3>1 DEF OnItsWay
    <3>2. CASE h # g
      <4>1. pc'[h] = pc[h]
        BY <1>1, <2>1, <3>2
      <4> QED
        BY <2>2, <2>3, <4>1 DEF OnItsWay
    <3> QED
      BY <3>1, <3>2
  <2> QED
    BY <2>1, <2>3, SameEntries, EntryOfNode
<1>5. CASE RegisterUndo(g) \/ RegisterUndoClose(g)
  BY <1>5 DEF RegisterUndo, RegisterUndoClose, HubInv, CloseInStep
<1> QED
  BY <1>2, <1>3, <1>4, <1>5

\* Run takes a registration or a removal.
LEMMA RunAgrees ==
    ASSUME HubInv, StreamAgrees, closing = "no", ~lossy, ~lossy',
           RunRegister \/ RunUnregister
    PROVE  StreamAgrees'
<1>1. UNCHANGED <<inbox, dash, view, pc>> /\ ~closed
  BY DEF RunRegister, RunUnregister, connVars, dashVars, HubInv, CloseInStep
<1>2. /\ agents \in [Nodes -> 0..MaxGeneration] /\ node \in [Generations -> Nodes]
      /\ register \in Seq(Generations)
  BY DEF HubInv, TypeOK, StateTypes, ChannelTypes
<1>3. CASE RunRegister
  <2> DEFINE g == Head(register)
  <2>1. /\ register # << >> /\ register' = Tail(register)
        /\ IF Replaces(g)
           THEN agents' = [agents EXCEPT ![node[g]] = g] /\ Broadcast(node[g], TRUE, g)
           ELSE UNCHANGED <<agents, broadcast, lossy>>
    BY <1>1, <1>3 DEF RunRegister
  <2>2. /\ g \in Generations /\ g = register[1] /\ node[g] \in Nodes
        /\ Len(Tail(register)) = Len(register) - 1 /\ Len(register) \in Nat
        /\ \A i \in 1..Len(Tail(register)) : Tail(register)[i] = register[i + 1]
    BY <1>2, <2>1, HeadTailProperties, LenProperties, EmptySeq
  <2> HIDE DEF g
  <2>3. ASSUME NEW h, h # g, OnItsWay(h) PROVE OnItsWay(h)'
    <3>1. CASE pc[h] \in {"swapped", "enqueue"}
      BY <1>1, <3>1 DEF OnItsWay
    <3>2. CASE \E i \in 1..Len(register) : register[i] = h
      <4>1. PICK i \in 1..Len(register) : register[i] = h
        BY <3>2
      <4>2. i - 1 \in 1..Len(register') /\ (i - 1) + 1 = i
        BY <2>1, <2>2, <2>3, <4>1
      <4>3. register'[i - 1] = h
        BY <2>1, <2>2, <4>1, <4>2
      <4> QED
        BY <4>2, <4>3 DEF OnItsWay
    <3> QED
      BY <2>3, <3>1, <3>2 DEF OnItsWay
  <2>4. CASE Replaces(g)
    <3>1. agents' = [agents EXCEPT ![node[g]] = g] /\ Broadcast(node[g], TRUE, g)
      BY <2>1, <2>4
    <3>2. agents'[node[g]] # 0
      BY <1>2, <2>2, <3>1 DEF Generations
    <3>3. ASSUME NEW o \in Nodes \ {node[g]} PROVE Steady(o)
      <4>1. agents'[o] = agents[o]
        BY <1>2, <2>2, <3>1
      <4>2. agents[o] # 0 => agents[o] # g
        BY EntryOfNode
      <4> QED
        BY <2>3, <4>1, <4>2 DEF Steady, Settled
    <3> QED
      BY <1>1, <2>2, <3>1, <3>2, <3>3, EventStep
  <2>5. CASE ~Replaces(g)
    <3>1. UNCHANGED <<agents, broadcast, lossy>>
      BY <2>1, <2>5
    <3>2. ASSUME NEW n \in Nodes, agents[n] # 0 PROVE agents[n] # g
      <4>1. CASE n = node[g]
        BY <1>2, <2>2, <2>5, <4>1 DEF Generations
      <4>2. CASE n # node[g]
        BY <3>2, <4>2, EntryOfNode
      <4> QED
        BY <4>1, <4>2
    <3>3. \A n \in Nodes : Steady(n)
      BY <2>3, <3>1, <3>2, SameEntries
    <3> QED
      BY <1>1, <3>1, <3>3, NoEventStep
  <2> QED
    BY <2>4, <2>5
<1>4. CASE RunUnregister
  <2> DEFINE g == Head(unregister)
  <2>1. /\ register' = register
        /\ IF IsEntry(g)
           THEN agents' = [agents EXCEPT ![node[g]] = 0] /\ Broadcast(node[g], FALSE, g)
           ELSE UNCHANGED <<agents, broadcast, lossy>>
    BY <1>4 DEF RunUnregister
  <2>2. g \in Generations /\ node[g] \in Nodes
    BY <1>2, <1>4, RunHeads
  <2> HIDE DEF g
  <2>3. CASE IsEntry(g)
    <3>1. agents' = [agents EXCEPT ![node[g]] = 0] /\ Broadcast(node[g], FALSE, g)
      BY <2>1, <2>3
    <3>2. agents'[node[g]] = 0
      BY <1>2, <2>2, <3>1
    <3>3. ASSUME NEW o \in Nodes \ {node[g]} PROVE Steady(o)
      <4>1. agents'[o] = agents[o]
        BY <1>2, <2>2, <3>1
      <4> QED
        BY <1>1, <2>1, <4>1 DEF Steady, Settled, OnItsWay
    <3> QED
      BY <1>1, <2>2, <3>1, <3>2, <3>3, EventStep
  <2>4. CASE ~IsEntry(g)
    <3>1. UNCHANGED <<agents, broadcast, lossy>>
      BY <2>1, <2>4
    <3>2. \A n \in Nodes : Steady(n)
      BY <1>1, <2>1, <3>1 DEF Steady, Settled, OnItsWay
    <3> QED
      BY <1>1, <3>1, <3>2, NoEventStep
  <2> QED
    BY <2>3, <2>4
<1> QED
  BY <1>3, <1>4

LEMMA StreamStep == ASSUME HubInv, DashInStep, StreamAgrees, Next PROVE StreamAgrees'
<1> SUFFICES ASSUME closing' = "no", ~lossy' PROVE StreamAgrees'
  BY DEF StreamAgrees
<1>1. ASSUME NEW g \in Generations, Connection(g) PROVE StreamAgrees'
  <2>1. closing = "no" /\ ~lossy
    BY <1>1 DEF Connection, RegisterSwap, RegisterCloseOld, RegisterEnqueue, RegisterUndo, RegisterUndoClose,
                HandlerExit, UnregisterGeneration, CompleteHandshake, GraceExpires, runVars
  <2>2. CASE CompleteHandshake(g) \/ GraceExpires(g)
    <3>1. UNCHANGED <<agents, pc, register, broadcast, inbox, dash, view>>
      BY <2>2 DEF CompleteHandshake, GraceExpires, chanVars, connVars, dashVars
    <3>2. \A n \in Nodes : Steady(n)
      BY <3>1 DEF Steady, Settled, OnItsWay
    <3> QED
      BY <2>1, <3>1, <3>2, NoEventStep
  <2>3. CASE ~(CompleteHandshake(g) \/ GraceExpires(g))
    BY <1>1, <2>1, <2>3, ConnectionSteady, NoEventStep DEF Connection
  <2> QED
    BY <2>2, <2>3
<1>2. CASE RunRegister \/ RunUnregister
  <2>1. closing = "no" /\ ~lossy
    BY <1>2 DEF RunRegister, RunUnregister, runVars, Broadcast
  <2> QED
    BY <1>2, <2>1, RunAgrees
<1>3. CASE RunBroadcast
  <2>1. closing = "no"
    BY <1>3 DEF RunBroadcast, runVars
  <2> QED
    BY <1>3, <2>1, RunBroadcastAgrees
<1>4. CASE RunClose \/ CloseFence \/ CloseSignal
  <2>1. ~RunClose
    BY DEF RunClose, HubInv, CloseInStep
  <2>2. ~CloseFence /\ ~CloseSignal
    BY DEF CloseFence, CloseSignal
  <2> QED
    BY <1>4, <2>1, <2>2
<1>5. ASSUME NEW s \in Senders, Sender(s) PROVE StreamAgrees'
  <2>1. /\ UNCHANGED <<agents, pc, register, broadcast, inbox, dash, view>>
        /\ closing = "no" /\ ~lossy
    BY <1>5 DEF Sender, SenderCheck, SendToAgent, SendDone, hubVars, chanVars, runVars,
                connVars, dashVars
  <2>2. \A n \in Nodes : Steady(n)
    BY <2>1 DEF Steady, Settled, OnItsWay
  <2> QED
    BY <2>1, <2>2, NoEventStep
<1>6. CASE Dashboard
  <2>1. closing = "no" /\ ~lossy
    BY <1>6 DEF Dashboard, DashSubscribe, DashSnapshot, DashReceive, DashLeave, runVars
  <2> QED
    BY <1>6, <2>1, DashReceiveAgrees, DashComesAgrees DEF Dashboard
<1> QED
  BY <1>1, <1>2, <1>3, <1>4, <1>5, <1>6 DEF Next, Run, Close

LEMMA DashInvNext == DashInv /\ [Next]_vars => DashInv'
<1>1. ASSUME DashInv, Next PROVE DashInv'
  BY <1>1, HubInvNext, DashInStepStep, StreamStep DEF DashInv
<1>2. ASSUME DashInv, UNCHANGED vars PROVE DashInv'
  <2>1. HubInv'
    BY <1>2, HubInvNext DEF DashInv
  <2>2. /\ UNCHANGED <<agents, pc, register, broadcast, inbox, dash, view, subscribed>>
        /\ closing' = closing /\ lossy' = lossy
    BY <1>2 DEF vars, hubVars, chanVars, runVars, connVars, dashVars
  <2>3. DashInStep'
    BY <1>2, <2>2 DEF DashInv, DashInStep
  <2>4. StreamAgrees'
    <3> SUFFICES ASSUME closing = "no", ~lossy PROVE StreamAgrees'
      BY <2>2 DEF StreamAgrees
    <3>1. \A n \in Nodes : Steady(n)
      BY <2>2 DEF Steady, Settled, OnItsWay
    <3> QED
      BY <1>2, <2>2, <3>1, NoEventStep DEF DashInv
  <2> QED
    BY <2>1, <2>3, <2>4 DEF DashInv
<1> QED
  BY <1>1, <1>2

\* A dashboard agrees with the map when its queues are empty and nothing was
\* dropped (Subscribe, dashboardInitialMessages, Broadcast), for any number of
\* nodes and connections and any capacity of the channels, although the
\* snapshot is older or newer than the events that follow it.
THEOREM DashboardsConverge == Spec => []DashboardConverges
<1>1. DashInv => DashboardConverges
  <2> SUFFICES ASSUME DashInv, closing = "no", dash = "live", ~lossy,
                      register = << >>, broadcast = << >>, inbox = << >>,
                      \A g \in Generations : pc[g] \notin {"swapped", "enqueue"},
                      NEW n \in Nodes
               PROVE  view[n] = IF agents[n] # 0 THEN "online" ELSE "offline"
    BY DEF DashboardConverges
  <2>1. ~Mentions(broadcast, n) /\ ~Mentions(inbox, n)
    BY DEF Mentions
  <2>2. Agrees(n, view[n] = "online")
    BY <2>1 DEF DashInv, StreamAgrees, ViewAgrees
  <2>3. Settled(n)
    BY EntryOfNode DEF DashInv, Settled, OnItsWay
  <2>4. view[n] \in {"online", "offline"}
    BY DEF DashInv, DashInStep, HubInv, TypeOK, StateTypes
  <2> QED
    BY <2>2, <2>3, <2>4 DEF Agrees
<1> QED
  BY DashInit, DashInvNext, <1>1, PTL DEF Spec

=============================================================================
