-------------------------------- MODULE Hub --------------------------------
(***************************************************************************)
(* The connection hub of the server (internal/hub/hub.go) with the threads *)
(* that use it (internal/api/api.go):                                      *)
(*                                                                         *)
(*   - one handler per agent WebSocket (handleAgentWS): Register, serve,   *)
(*     close the socket, UnregisterGeneration;                             *)
(*   - the hub's event loop (Run), which takes one case of its select at a *)
(*     time from the register, unregister and broadcast channels;          *)
(*   - command senders (deliverTargets, resendPendingDeliveries), which    *)
(*     check HandshakeReady and then write through SendToAgent;            *)
(*   - one dashboard (handleDashboardWS), which subscribes, takes a        *)
(*     snapshot of the online nodes and then follows the broadcasts;       *)
(*   - Close.                                                              *)
(*                                                                         *)
(* A connection is identified by the generation Register gives it; 0 is    *)
(* "no connection" and "no generation" as in the code.  h.mu is a          *)
(* reader/writer lock: the only critical section that spans more than one  *)
(* step is SendToAgent's network write, made under the read lock, so a     *)
(* step that takes the write lock needs MuFree.                            *)
(***************************************************************************)
EXTENDS Naturals, Sequences

CONSTANTS
    Nodes,          \* monitored nodes
    Senders,        \* server goroutines that deliver commands
    MaxGeneration,  \* bound: connections registered in a behaviour
    RegisterCap,    \* capacity of h.register (16 in the code)
    UnregisterCap,  \* capacity of h.unregister (16)
    BroadcastCap,   \* capacity of h.broadcast (64)
    InboxCap,       \* capacity of a dashboard's channel (32)
    HasDashboard,   \* a dashboard may connect in this instance
    NoNode          \* a sender's target before it chose one

ASSUME HubAssumption ==
    /\ MaxGeneration \in Nat
    /\ RegisterCap \in Nat \ {0}
    /\ UnregisterCap \in Nat \ {0}
    /\ BroadcastCap \in Nat
    /\ InboxCap \in Nat
    /\ HasDashboard \in BOOLEAN
    /\ NoNode \notin Nodes

Generations == 1..MaxGeneration

VARIABLES
    nextGen,     \* h.nextGen: the last generation handed out
    agents,      \* h.agents: node -> generation of its entry, 0 when absent
    fenced,      \* entries whose fenced flag is set
    handshaken,  \* entries whose handshakeDone flag is set
    graceOver,   \* entries whose handshakeDeadline has passed
    register,    \* the register channel
    unregister,  \* the unregister channel
    broadcast,   \* the broadcast channel (node_status events only)
    running,     \* Run has not returned
    closing,     \* Close: "no", then "fenced" (map cleared), then "done"
    stale,       \* the sockets Close collected, local to the call
    closed,      \* closeCh is closed
    node,        \* the node each connection belongs to
    open,        \* connections whose socket is open on the server side
    pc,          \* where each connection's handler is
    old,         \* the entry Register replaced, local to the call
    target,      \* sender -> node it is about to send to
    writing,     \* sender -> generation it is writing to, 0 when none
    subscribed,  \* the dashboard's channel is in h.subscribers
    inbox,       \* the dashboard's channel
    dash,        \* where the dashboard's handler is
    view,        \* what the dashboard last showed for each node
    lossy        \* an event was dropped because a channel was full

hubVars == <<nextGen, agents, fenced, handshaken, graceOver>>
chanVars == <<register, unregister, broadcast>>
runVars == <<running, closing, stale, closed>>
connVars == <<node, open, pc, old>>
sendVars == <<target, writing>>
dashVars == <<subscribed, inbox, dash, view>>
vars == <<hubVars, chanVars, runVars, connVars, sendVars, dashVars, lossy>>

HandlerStates ==
    {"new", "swapped", "enqueue", "undoing", "serving", "leaving", "done"}

StatusEvents == [node : Nodes, online : BOOLEAN, generation : Generations]

-----------------------------------------------------------------------------

(* A definition named ...Fault is a seeded fault: the definition after it   *)
(* with a plausible mistake, which a property named in PROJECT.json catches. *)

\* The write of a command is made without the read lock.
MuFreeFault == TRUE

\* No reader holds h.mu across steps, so a writer can take it.
MuFree == \A s \in Senders : writing[s] = 0

\* One event too many is queued.
BroadcastFault(n, online, g) ==
    IF Len(broadcast) <= BroadcastCap
    THEN /\ broadcast' =
              Append(broadcast, [node |-> n, online |-> online, generation |-> g])
         /\ UNCHANGED lossy
    ELSE /\ lossy' = TRUE
         /\ UNCHANGED broadcast

\* Broadcast: a full queue drops the event.
Broadcast(n, online, g) ==
    IF Len(broadcast) < BroadcastCap
    THEN /\ broadcast' =
              Append(broadcast, [node |-> n, online |-> online, generation |-> g])
         /\ UNCHANGED lossy
    ELSE /\ lossy' = TRUE
         /\ UNCHANGED broadcast

\* The node is looked up, the generation is not compared.
IsEntryFault(g) == agents[node[g]] # 0

\* Generation g is the entry of its node.
IsEntry(g) == agents[node[g]] = g

\* A registration seen late replaces whatever is there.
ReplacesFault(g) == TRUE

\* The entry of g may be put in the map: nothing newer is there.
Replaces(g) == agents[node[g]] <= g

IsCurrent(g) ==
    /\ ~closed
    /\ IsEntry(g)
    /\ g \notin fenced

IsOnline(n) == ~closed /\ agents[n] # 0

HandshakeReady(n) ==
    /\ ~closed
    /\ agents[n] # 0
    /\ agents[n] \notin fenced
    /\ agents[n] \in handshaken \cup graceOver

\* Generation g is the last connection its node registered.
Newest(g) ==
    \A h \in Generations : h <= nextGen /\ node[h] = node[g] => h <= g

-----------------------------------------------------------------------------

Init ==
    /\ nextGen = 0
    /\ agents = [n \in Nodes |-> 0]
    /\ fenced = {}
    /\ handshaken = {}
    /\ graceOver = {}
    /\ register = << >>
    /\ unregister = << >>
    /\ broadcast = << >>
    /\ running = TRUE
    /\ closing = "no"
    /\ stale = {}
    /\ closed = FALSE
    \* The order in which the nodes' agents connect is arbitrary.
    /\ node \in [Generations -> Nodes]
    /\ open = {}
    /\ pc = [g \in Generations |-> "new"]
    /\ old = [g \in Generations |-> 0]
    /\ target = [s \in Senders |-> NoNode]
    /\ writing = [s \in Senders |-> 0]
    /\ subscribed = FALSE
    /\ inbox = << >>
    /\ dash = "off"
    /\ view = [n \in Nodes |-> "unknown"]
    /\ lossy = FALSE

-----------------------------------------------------------------------------
(* Register and the handler that calls it                                  *)

\* Register up to h.mu.Unlock: the identity switch.  On a closed hub the
\* socket is closed and 0 returned, which leaves the hub as it is.
RegisterSwap(g) ==
    LET n == node[g] IN
    /\ MuFree
    /\ ~closed
    /\ g = nextGen + 1
    /\ nextGen' = g
    /\ fenced' = fenced \cup ({agents[n]} \ {0})
    /\ agents' = [agents EXCEPT ![n] = g]
    /\ old' = [old EXCEPT ![g] = agents[n]]
    /\ open' = open \cup {g}
    /\ pc' = [pc EXCEPT ![g] = "swapped"]
    /\ UNCHANGED <<handshaken, graceOver, chanVars, runVars, node, sendVars,
                   dashVars, lossy>>

\* Register closes the replaced socket outside the lock.
RegisterCloseOld(g) ==
    /\ pc[g] = "swapped"
    /\ open' = open \ {old[g]}
    /\ pc' = [pc EXCEPT ![g] = "enqueue"]
    /\ UNCHANGED <<hubVars, chanVars, runVars, node, old, sendVars, dashVars,
                   lossy>>

\* Register's select, first case: the entry is queued for Run.
RegisterEnqueue(g) ==
    /\ pc[g] = "enqueue"
    /\ Len(register) < RegisterCap
    /\ register' = Append(register, g)
    /\ pc' = [pc EXCEPT ![g] = "serving"]
    /\ UNCHANGED <<hubVars, unregister, broadcast, runVars, node, open, old,
                   sendVars, dashVars, lossy>>

\* Register's select, second case: the hub closed meanwhile.  The entry is
\* taken out of the map under the lock ...
RegisterUndo(g) ==
    /\ pc[g] = "enqueue"
    /\ closed
    /\ MuFree
    /\ agents' = [agents EXCEPT ![node[g]] = IF IsEntry(g) THEN 0 ELSE @]
    /\ pc' = [pc EXCEPT ![g] = "undoing"]
    /\ UNCHANGED <<nextGen, fenced, handshaken, graceOver, chanVars, runVars,
                   node, open, old, sendVars, dashVars, lossy>>

\* ... and the socket is closed after it, when Run may have returned.
RegisterUndoClose(g) ==
    /\ pc[g] = "undoing"
    /\ open' = open \ {g}
    /\ pc' = [pc EXCEPT ![g] = "done"]
    /\ UNCHANGED <<hubVars, chanVars, runVars, node, old, sendVars, dashVars,
                   lossy>>

\* The read loop of handleAgentWS ends (peer gone, read error, or its
\* generation is no longer current) and the deferred function closes the socket.
HandlerExit(g) ==
    /\ pc[g] = "serving"
    /\ open' = open \ {g}
    /\ pc' = [pc EXCEPT ![g] = "leaving"]
    /\ UNCHANGED <<hubVars, chanVars, runVars, node, old, sendVars, dashVars,
                   lossy>>

\* The request waits for room in the queue, even on a closed hub.
UnregisterGenerationFault(g) ==
    /\ pc[g] = "leaving"
    /\ Len(unregister) < UnregisterCap
    /\ unregister' = Append(unregister, g)
    /\ pc' = [pc EXCEPT ![g] = "done"]
    /\ UNCHANGED <<hubVars, register, broadcast, runVars, node, open, old,
                   sendVars, dashVars, lossy>>

\* UnregisterGeneration queues the request, or returns on a closed hub.
UnregisterGeneration(g) ==
    /\ pc[g] = "leaving"
    /\ \/ /\ Len(unregister) < UnregisterCap
          /\ unregister' = Append(unregister, g)
       \/ /\ closed
          /\ UNCHANGED unregister
    /\ pc' = [pc EXCEPT ![g] = "done"]
    /\ UNCHANGED <<hubVars, register, broadcast, runVars, node, open, old,
                   sendVars, dashVars, lossy>>

\* CompleteHandshake, called by the handler of generation g.
CompleteHandshake(g) ==
    /\ pc[g] = "serving"
    /\ MuFree
    /\ IsCurrent(g)
    /\ handshaken' = handshaken \cup {g}
    /\ UNCHANGED <<nextGen, agents, fenced, graceOver, chanVars, runVars,
                   connVars, sendVars, dashVars, lossy>>

\* Time passes the handshakeDeadline of generation g: of interest only while
\* it is its node's entry and has not completed the handshake.
GraceExpires(g) ==
    /\ IsEntry(g)
    /\ g \notin handshaken \cup graceOver
    /\ graceOver' = graceOver \cup {g}
    /\ UNCHANGED <<nextGen, agents, fenced, handshaken, chanVars, runVars,
                   connVars, sendVars, dashVars, lossy>>

-----------------------------------------------------------------------------
(* Run: one action per case of the select                                  *)

RunRegister ==
    LET g == Head(register)
        n == node[g] IN
    /\ running
    /\ MuFree
    /\ register # << >>
    /\ register' = Tail(register)
    /\ IF closed
       THEN /\ open' = open \ {g}
            /\ UNCHANGED <<agents, broadcast, lossy>>
       ELSE /\ IF Replaces(g)
               THEN /\ agents' = [agents EXCEPT ![n] = g]
                    /\ Broadcast(n, TRUE, g)
               ELSE UNCHANGED <<agents, broadcast, lossy>>
            /\ UNCHANGED open
    /\ UNCHANGED <<nextGen, fenced, handshaken, graceOver, unregister, runVars,
                   node, pc, old, sendVars, dashVars>>

\* Dashboards are told "offline" also when a newer connection is there.
RunUnregisterFault ==
    LET g == Head(unregister)
        n == node[g] IN
    /\ running
    /\ MuFree
    /\ unregister # << >>
    /\ unregister' = Tail(unregister)
    /\ agents' = [agents EXCEPT ![n] = IF IsEntry(g) THEN 0 ELSE @]
    /\ Broadcast(n, FALSE, g)
    /\ UNCHANGED <<nextGen, fenced, handshaken, graceOver, register, runVars,
                   connVars, sendVars, dashVars>>

RunUnregister ==
    LET g == Head(unregister)
        n == node[g] IN
    /\ running
    /\ MuFree
    /\ unregister # << >>
    /\ unregister' = Tail(unregister)
    /\ IF IsEntry(g)
       THEN /\ agents' = [agents EXCEPT ![n] = 0]
            /\ Broadcast(n, FALSE, g)
       ELSE UNCHANGED <<agents, broadcast, lossy>>
    /\ UNCHANGED <<nextGen, fenced, handshaken, graceOver, register, runVars,
                   connVars, sendVars, dashVars>>

\* A subscriber whose channel is full misses the event.
RunBroadcast ==
    /\ running
    /\ broadcast # << >>
    /\ broadcast' = Tail(broadcast)
    /\ inbox' = IF subscribed /\ Len(inbox) < InboxCap
                THEN Append(inbox, Head(broadcast)) ELSE inbox
    /\ lossy' = (lossy \/ (subscribed /\ Len(inbox) >= InboxCap))
    /\ UNCHANGED <<hubVars, register, unregister, runVars, connVars, sendVars,
                   subscribed, dash, view>>

\* The sockets of the entries are forgotten.
RunCloseFault ==
    /\ running
    /\ closed
    /\ MuFree
    /\ fenced' = fenced \cup ({agents[n] : n \in Nodes} \ {0})
    /\ agents' = [n \in Nodes |-> 0]
    /\ subscribed' = FALSE
    /\ running' = FALSE
    /\ UNCHANGED <<nextGen, handshaken, graceOver, chanVars, closing, stale,
                   closed, connVars, sendVars, inbox, dash, view, lossy>>

RunClose ==
    LET entries == {agents[n] : n \in Nodes} \ {0} IN
    /\ running
    /\ closed
    /\ MuFree
    /\ fenced' = fenced \cup entries
    /\ open' = open \ entries
    /\ agents' = [n \in Nodes |-> 0]
    /\ subscribed' = FALSE
    /\ running' = FALSE
    /\ UNCHANGED <<nextGen, handshaken, graceOver, chanVars, closing, stale,
                   closed, node, pc, old, sendVars, inbox, dash, view, lossy>>

-----------------------------------------------------------------------------
(* Close                                                                   *)

\* Under h.mu: fence every entry, collect its socket and clear the map.
CloseFence ==
    LET entries == {agents[n] : n \in Nodes} \ {0} IN
    /\ closing = "no"
    /\ MuFree
    /\ closing' = "fenced"
    /\ stale' = entries
    /\ fenced' = fenced \cup entries
    /\ agents' = [n \in Nodes |-> 0]
    /\ subscribed' = FALSE
    /\ UNCHANGED <<nextGen, handshaken, graceOver, chanVars, running, closed,
                   connVars, sendVars, inbox, dash, view, lossy>>

\* Outside it: close those sockets and then closeCh.  A Register between the
\* two steps still finds the hub open.
CloseSignal ==
    /\ closing = "fenced"
    /\ closing' = "done"
    /\ open' = open \ stale
    /\ closed' = TRUE
    /\ UNCHANGED <<hubVars, chanVars, running, stale, node, pc, old, sendVars,
                   dashVars, lossy>>

-----------------------------------------------------------------------------
(* A command sender                                                        *)

\* deliverTargets and resendPendingDeliveries test HandshakeReady first.
SenderCheck(s, n) ==
    /\ target[s] = NoNode
    /\ HandshakeReady(n)
    /\ target' = [target EXCEPT ![s] = n]
    /\ UNCHANGED <<hubVars, chanVars, runVars, connVars, writing, dashVars,
                   lossy>>

\* SendToAgent under the read lock and the entry's writeMu: the write starts,
\* or the call returns ErrHubClosed, ErrAgentOffline or ErrStaleConnection.
SendToAgent(s) ==
    LET g == agents[target[s]] IN
    /\ target[s] # NoNode
    /\ writing[s] = 0
    /\ \/ /\ ~closed
          /\ g # 0
          /\ g \notin fenced
          /\ \A t \in Senders : writing[t] # g
          /\ writing' = [writing EXCEPT ![s] = g]
          /\ UNCHANGED target
       \/ /\ closed \/ g = 0 \/ g \in fenced
          /\ target' = [target EXCEPT ![s] = NoNode]
          /\ UNCHANGED writing
    /\ UNCHANGED <<hubVars, chanVars, runVars, connVars, dashVars, lossy>>

\* WriteJSON returns (within its 10 s deadline) and the locks are released; the
\* write succeeds when the socket is still open.
SendDone(s) ==
    /\ writing[s] # 0
    /\ writing' = [writing EXCEPT ![s] = 0]
    /\ target' = [target EXCEPT ![s] = NoNode]
    /\ UNCHANGED <<hubVars, chanVars, runVars, connVars, dashVars, lossy>>

-----------------------------------------------------------------------------
(* The dashboard                                                           *)

DashSubscribe ==
    /\ HasDashboard
    /\ dash = "off"
    /\ MuFree
    /\ ~closed
    /\ subscribed' = TRUE
    /\ dash' = "subscribed"
    /\ inbox' = << >>
    /\ UNCHANGED <<hubVars, chanVars, runVars, connVars, sendVars, view, lossy>>

\* dashboardInitialMessages: the snapshot is taken after subscribing.
DashSnapshot ==
    /\ dash = "subscribed"
    /\ view' = [n \in Nodes |-> IF agents[n] # 0 THEN "online" ELSE "offline"]
    /\ dash' = "live"
    /\ UNCHANGED <<hubVars, chanVars, runVars, connVars, sendVars, subscribed,
                   inbox, lossy>>

DashReceive ==
    LET e == Head(inbox) IN
    /\ dash = "live"
    /\ inbox # << >>
    /\ inbox' = Tail(inbox)
    /\ view' = [view EXCEPT ![e.node] = IF e.online THEN "online" ELSE "offline"]
    /\ UNCHANGED <<hubVars, chanVars, runVars, connVars, sendVars, subscribed,
                   dash, lossy>>

\* The browser leaves, or Done fired: Unsubscribe.
DashLeave ==
    /\ dash # "off"
    /\ MuFree
    /\ subscribed' = FALSE
    /\ dash' = "off"
    /\ inbox' = << >>
    /\ view' = [n \in Nodes |-> "unknown"]
    /\ UNCHANGED <<hubVars, chanVars, runVars, connVars, sendVars, lossy>>

-----------------------------------------------------------------------------

Connection(g) ==
    \/ RegisterSwap(g)
    \/ RegisterCloseOld(g)
    \/ RegisterEnqueue(g)
    \/ RegisterUndo(g)
    \/ RegisterUndoClose(g)
    \/ HandlerExit(g)
    \/ UnregisterGeneration(g)
    \/ CompleteHandshake(g)
    \/ GraceExpires(g)

Run == RunRegister \/ RunUnregister \/ RunBroadcast \/ RunClose

Close == CloseFence \/ CloseSignal

Sender(s) == (\E n \in Nodes : SenderCheck(s, n)) \/ SendToAgent(s) \/ SendDone(s)

Dashboard == DashSubscribe \/ DashSnapshot \/ DashReceive \/ DashLeave

Next ==
    \/ \E g \in Generations : Connection(g)
    \/ Run
    \/ Close
    \/ \E s \in Senders : Sender(s)
    \/ Dashboard

Spec == Init /\ [][Next]_vars

(***************************************************************************)
(* Fairness.  Goroutines that can run do run.  Go's select picks among the *)
(* ready cases at random and sync.RWMutex lets a waiting writer in before  *)
(* later readers, so a case, or a critical section, that is possible again *)
(* and again is taken: strong fairness.  (Once the hub is closed no write  *)
(* starts, so weak fairness is enough for what waits for closeCh.)         *)
(* Nothing obliges agents, operators or dashboards to connect, send, leave *)
(* or close the server.                                                    *)
(***************************************************************************)
Fairness ==
    /\ \A g \in Generations :
          /\ WF_vars(RegisterCloseOld(g))
          /\ SF_vars(RegisterEnqueue(g))
          /\ WF_vars(RegisterUndo(g))
          /\ WF_vars(RegisterUndoClose(g))
          /\ WF_vars(HandlerExit(g) /\ g \notin open)
          /\ SF_vars(UnregisterGeneration(g))
    /\ SF_vars(RunRegister)
    /\ SF_vars(RunUnregister)
    /\ WF_vars(RunBroadcast)
    /\ WF_vars(RunClose)
    /\ WF_vars(CloseSignal)
    /\ \A s \in Senders : WF_vars(SendDone(s))

FairSpec == Spec /\ Fairness

-----------------------------------------------------------------------------
(* Properties                                                              *)

StateTypes ==
    /\ nextGen \in 0..MaxGeneration
    /\ agents \in [Nodes -> 0..MaxGeneration]
    /\ fenced \subseteq Generations
    /\ handshaken \subseteq Generations
    /\ graceOver \subseteq Generations
    /\ running \in BOOLEAN
    /\ closing \in {"no", "fenced", "done"}
    /\ stale \subseteq Generations
    /\ closed \in BOOLEAN
    /\ node \in [Generations -> Nodes]
    /\ open \subseteq Generations
    /\ pc \in [Generations -> HandlerStates]
    /\ old \in [Generations -> 0..MaxGeneration]
    /\ target \in [Senders -> Nodes \cup {NoNode}]
    /\ writing \in [Senders -> 0..MaxGeneration]
    /\ subscribed \in BOOLEAN
    /\ dash \in {"off", "subscribed", "live"}
    /\ view \in [Nodes -> {"unknown", "online", "offline"}]
    /\ lossy \in BOOLEAN

ChannelTypes ==
    /\ register \in Seq(Generations) /\ Len(register) <= RegisterCap
    /\ unregister \in Seq(Generations) /\ Len(unregister) <= UnregisterCap
    /\ broadcast \in Seq(StatusEvents) /\ Len(broadcast) <= BroadcastCap
    /\ inbox \in Seq(StatusEvents) /\ Len(inbox) <= InboxCap

\* Every variable holds a value of its kind, and no channel overflows.
TypeOK == StateTypes /\ ChannelTypes

\* "It never silently delivers to a stale generation": a connection is not
\* fenced while SendToAgent writes to it, and if its socket is open, so that
\* the write can succeed, it is the newest connection of its node.
WriteGoesToNewest ==
    \A s \in Senders : writing[s] # 0 =>
        /\ writing[s] \notin fenced
        /\ writing[s] \in open => Newest(writing[s])

\* At most one usable connection per node: whatever order Run takes the
\* register and unregister requests in, a socket that is open and not fenced
\* is the newest registration of its node and its entry.  The one exception is
\* a connection that met a closing hub: its own Register has taken it out of
\* the map and is about to close its socket.
OpenConnectionIsCurrent ==
    \A g \in open \ fenced :
        /\ Newest(g)
        /\ agents[node[g]] = g \/ pc[g] = "undoing"

\* Replacement only moves forward: an entry is never replaced in one step by
\* an older generation, even when Run sees its register request late.
EntryNeverGoesBack ==
    [][\A n \in Nodes :
          agents[n] # 0 /\ agents'[n] # 0 => agents'[n] >= agents[n]]_vars

\* If no event was ever dropped, a dashboard agrees with the hub (until Close)
\* once every queue on the way to it is empty and no registration is on its
\* way to Run, although its snapshot was taken while older events were still
\* queued.  An event dropped even before the dashboard subscribed breaks this.
DashboardConverges ==
    (/\ closing = "no" /\ dash = "live" /\ subscribed /\ ~lossy
     /\ register = << >> /\ broadcast = << >> /\ inbox = << >>
     /\ \A g \in Generations : pc[g] \notin {"swapped", "enqueue"})
    => \A n \in Nodes : view[n] = IF agents[n] # 0 THEN "online" ELSE "offline"

\* Once Run has returned no socket stays open but one that a Register is about
\* to close, its own (it undoes itself) or the one that replaced it, although
\* connections may have registered between the two halves of Close.
NoSocketOutlivesRun ==
    ~running => \A g \in open :
        \/ pc[g] = "undoing"
        \/ \E h \in Generations : pc[h] = "swapped" /\ old[h] = g

\* Close makes every entry point return quickly: a handler that leaves is not
\* held up for ever by a full unregister channel.
HandlersLeave ==
    \A g \in Generations : pc[g] = "leaving" ~> pc[g] = "done"

\* Close is followed by an empty hub: the loop returns, the map stays empty
\* and every socket is closed, also those registered while Close ran.
CloseDrains ==
    closing = "fenced" ~>
        [](~running /\ open = {} /\ \A n \in Nodes : agents[n] = 0)

\* What the code's comments claim and the code does not do (see the README):
\* IsOnline "reports whether a node is currently connected".  When no request
\* is queued and no handler of the node is alive, the node is not online.
OnlineMeansConnected ==
    (register = << >> /\ unregister = << >>) =>
        \A n \in Nodes : IsOnline(n) =>
            \E g \in Generations : node[g] = n /\ pc[g] \in HandlerStates \ {"new", "done"}

=============================================================================
