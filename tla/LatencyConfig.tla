----------------------------- MODULE LatencyConfig -----------------------------
(***************************************************************************)
(* Which latency monitors a node runs: the tables monitor_items and        *)
(* monitor_item_nodes (internal/store), the requests and agent snapshots   *)
(* that change them, and the configuration that is sent to the agent       *)
(* afterwards (internal/api).  A sender lists the monitors and sends the   *)
(* list in two steps, and senders do not wait for each other.              *)
(*                                                                         *)
(* One node: a change is sent to the online nodes one after the other, and *)
(* nothing of one node's rows depends on another's.  A monitor is its      *)
(* address family, its auto-assignment and a revision for all the rest.    *)
(***************************************************************************)
EXTENDS Naturals, FiniteSets

CONSTANTS
    Monitors,        \* monitor ids
    Families,        \* address families: ipv4, ipv6
    LatencyRequests, \* concurrent requests of operators
    MaxLinks,        \* bound: connections of the agent
    MaxEdits         \* bound: monitors created and updated

ASSUME LatencyAssumption ==
    /\ MaxLinks \in Nat /\ MaxEdits \in Nat
    /\ "any" \notin Families /\ "none" \notin Families
    /\ LatencyRequests \cap (1..MaxLinks) = {}

Links == 1..MaxLinks
Senders == LatencyRequests \cup Links

NoMonitor == [family |-> "any", auto |-> FALSE, rev |-> 0]
Monitor == [family : Families \cup {"any"}, auto : BOOLEAN, rev : 0..MaxEdits]

VARIABLES
    monitors,   \* monitor_items, NoMonitor for ids not in use
    used,       \* ids generated so far; each is random, none comes back
    known,      \* the node is registered
    families,   \* nodes.ip_families
    ip,         \* the family of nodes.ip, or "none"
    assigned,   \* monitor_item_nodes
    link,       \* the connection that is current in the hub, 0 when none
    links,      \* connections so far
    sending,    \* where each sender, or the request before it sends, is
    list,       \* the monitors it has read
    config,     \* the monitors the agent has
    edits,      \* revisions so far
    excluded,   \* history: monitors an operator did not assign to the node
    raced,      \* history: two senders had lists at once
    lost,       \* history: a configuration was not sent, no connection since
    blank       \* history: a snapshot without families after one with

nodeVars == <<known, families, ip>>
monitorVars == <<monitors, used, nodeVars, assigned, excluded, blank>>
linkVars == <<link, links>>
latencyVars == <<monitorVars, linkVars, sending, list, config, edits, raced, lost>>

-----------------------------------------------------------------------------

Exists(m) == monitors[m] # NoMonitor

\* latencyMonitorAppliesToNode.
Applies(mon, fs, a) ==
    CASE mon.family = "any" -> TRUE
      [] mon.family # "any" /\ fs # {} -> mon.family \in fs
      [] OTHER -> mon.family = a

\* ListLatencyMonitorsByNodeID: assigned monitors that exist.
Listed == {<<m, monitors[m]>> : m \in {k \in assigned : Exists(k)}}

LatencyInit ==
    /\ monitors = [m \in Monitors |-> NoMonitor] /\ used = {}
    /\ known = FALSE /\ families = {} /\ ip = "none"
    /\ assigned = {}
    /\ link = 0 /\ links = 0
    /\ sending = [t \in Senders |-> "idle"]
    /\ list = [t \in Senders |-> {}]
    /\ config = {}
    /\ edits = 0
    /\ excluded = {}
    /\ raced = FALSE /\ lost = FALSE /\ blank = FALSE

\* Sender t goes from step a to step b.
Moves(t, a, b) ==
    /\ sending[t] = a
    /\ sending' = [sending EXCEPT ![t] = b]

\* replaceLatencyMonitorNodes with what filterLatencyMonitorNodeIDsByFamily
\* leaves of the operator's choice.
Assign(m, mon, chosen) ==
    /\ assigned' = IF chosen /\ known /\ Applies(mon, families, ip)
                   THEN assigned \cup {m}
                   ELSE assigned \ {m}
    /\ excluded' = IF known /\ ~chosen THEN excluded \cup {m} ELSE excluded \ {m}

\* The change is not followed by a synchronisation.
SyncStepFault == "idle"

\* After its commit a request sends the configuration of the online nodes.
SyncStep == "sync"

\* Unless it fails to read the monitor back: then nothing is sent.
AfterCommit(fails) == IF fails THEN "idle" ELSE SyncStep

\* A request commits a change of the monitors.
Commits(t, a, fails) ==
    /\ Moves(t, a, AfterCommit(fails))
    /\ list' = [list EXCEPT ![t] = {}]
    /\ lost' = (lost \/ fails)
    /\ UNCHANGED <<nodeVars, linkVars, config, raced, blank>>

\* The monitor it writes gets the next revision.
Revises == edits < MaxEdits /\ edits' = edits + 1

\* handleCreateLatencyMonitor.
CreateMonitor(t, m, family, auto, chosen, fails) ==
    LET mon == [family |-> family, auto |-> auto, rev |-> edits'] IN
    /\ Revises
    /\ m \notin used
    /\ used' = used \cup {m}
    /\ Commits(t, "idle", fails)
    /\ monitors' = [monitors EXCEPT ![m] = mon]
    /\ Assign(m, mon, chosen)

\* handleUpdateLatencyMonitor reads the monitor, before its transaction ...
ReadMonitor(t, m) ==
    /\ Exists(m)
    /\ edits < MaxEdits
    /\ Moves(t, "idle", "updating")
    /\ list' = [list EXCEPT ![t] = {<<m, monitors[m]>>}]
    /\ UNCHANGED <<monitorVars, linkVars, config, edits, raced, lost>>

\* ... which updates the row if it is still there and in any case replaces
\* the assignments of that id.
UpdateMonitor(t, family, auto, chosen, fails) ==
    LET mon == [family |-> family, auto |-> auto, rev |-> edits'] IN
    /\ Revises
    /\ Commits(t, "updating", fails)
    /\ \E x \in list[t] :
           /\ monitors' = IF Exists(x[1]) THEN [monitors EXCEPT ![x[1]] = mon] ELSE monitors
           /\ Assign(x[1], mon, chosen)
    /\ UNCHANGED used

\* The request is refused, or its transaction fails.
UpdateFails(t) ==
    /\ Moves(t, "updating", "idle")
    /\ list' = [list EXCEPT ![t] = {}]
    /\ UNCHANGED <<monitorVars, linkVars, config, edits, raced, lost>>

\* handleDeleteLatencyMonitor: also of an id that is gone already.
DeleteMonitor(t, m) ==
    /\ m \in used
    /\ Commits(t, "idle", FALSE)
    /\ monitors' = [monitors EXCEPT ![m] = NoMonitor]
    /\ assigned' = assigned \ {m}
    /\ excluded' = excluded \ {m}
    /\ UNCHANGED <<used, edits>>

\* Registering the node: the row is inserted ...
RegisterNode(t) ==
    /\ ~known
    /\ Moves(t, "idle", "registered")
    /\ known' = TRUE
    /\ UNCHANGED <<monitors, used, families, ip, assigned, linkVars, list, config, edits,
                   excluded, raced, lost, blank>>

\* ... AssignAutoLatencyMonitorsToNode reads the monitors ...
ReadMonitors(t) ==
    /\ Moves(t, "registered", "assigning")
    /\ list' = [list EXCEPT ![t] =
           {<<m, monitors[m]>> : m \in {k \in Monitors :
               monitors[k].auto /\ Applies(monitors[k], families, ip)}}]
    /\ UNCHANGED <<monitorVars, linkVars, config, edits, raced, lost>>

\* ... and assigns them in a transaction of its own.  The operator gets the
\* token after that.
AssignAuto(t) ==
    /\ Moves(t, "assigning", "sync")
    /\ assigned' = assigned \cup {x[1] : x \in list[t]}
    /\ list' = [list EXCEPT ![t] = {}]
    /\ UNCHANGED <<monitors, used, nodeVars, linkVars, config, edits, excluded, raced,
                   lost, blank>>

-----------------------------------------------------------------------------

\* The agent connects, and replaces an older connection in the hub.
Connect ==
    /\ links < MaxLinks
    /\ known /\ \A t \in Senders : sending[t] \notin {"registered", "assigning"}
    /\ links' = links + 1
    /\ link' = links'
    /\ Moves(links', "idle", "initial")
    /\ lost' = FALSE
    /\ UNCHANGED <<monitorVars, list, config, edits, raced>>

\* The connection is gone; its handler goes on until it notices.
Disconnect ==
    /\ link # 0
    /\ link' = 0
    /\ UNCHANGED <<monitorVars, links, sending, list, config, edits, raced, lost>>

\* pruneLatencyMonitorAssignmentsForNodeWith the families in the snapshot.
Pruned(fs, a) ==
    IF fs = {} /\ a = "none"
    THEN assigned
    ELSE {m \in assigned : Exists(m) => Applies(monitors[m], fs, a)}

\* Only a node that had no families before is completed.
BackfilledFault(fs) ==
    IF families = {} /\ fs # {}
    THEN {m \in Monitors : monitors[m].auto /\ Applies(monitors[m], fs, "none")}
    ELSE {}

\* backfillLatencyMonitorAssignmentsForNodeWith, when the families grew.
Backfilled(fs) ==
    IF fs \subseteq families
    THEN {}
    ELSE {m \in Monitors : monitors[m].auto /\ Applies(monitors[m], fs, "none")}

\* ApplyAgentSnapshot, and whether the configuration has to be sent.
Snapshot(c, fs, a) ==
    /\ c = link
    /\ assigned' = Pruned(fs, a) \cup Backfilled(fs)
    /\ Moves(c, "idle", IF assigned' # assigned \/ Pruned(fs, a) # assigned
                        THEN "sync" ELSE "idle")
    /\ families' = IF fs = {} THEN families ELSE fs
    /\ ip' = IF a = "none" THEN ip ELSE a
    /\ blank' = (blank \/ (fs = {} /\ families # {}))
    /\ UNCHANGED <<monitors, used, known, excluded, linkVars, list, config, edits, raced,
                   lost>>

\* A sender lists the monitors; others may have lists, too.
Lists(t, a, b) ==
    /\ Moves(t, a, b)
    /\ list' = [list EXCEPT ![t] = Listed]
    /\ raced' = \/ \E o \in Senders \ {t} : sending[o] \in {"listed", "written"}
                \/ raced /\ t \in Links \ {link}
    /\ UNCHANGED <<monitorVars, linkVars, config, edits, lost>>

\* writeLatencyMonitorConfigToConn lists for the connection it is part of.
ListInitial(c) == Lists(c, "initial", "written")

\* syncLatencyMonitorsForNode of an online node.
ListForNode(t) == link # 0 /\ Lists(t, "sync", "listed")

\* The node is not online.
NotOnline(t) ==
    /\ link = 0
    /\ Moves(t, "sync", "idle")
    /\ UNCHANGED <<monitorVars, linkVars, list, config, edits, raced, lost>>

\* Listing or writing fails and is only logged.
SendFails(t) ==
    /\ \E a \in {"sync", "initial", "listed", "written"} : Moves(t, a, "idle")
    /\ list' = [list EXCEPT ![t] = {}]
    /\ lost' = TRUE
    /\ UNCHANGED <<monitorVars, linkVars, config, edits, raced>>

\* The list goes to the socket; the agent replaces what it has.
Delivers(t, a, reaches) ==
    /\ Moves(t, a, "idle")
    /\ config' = IF reaches THEN list[t] ELSE config
    /\ list' = [list EXCEPT ![t] = {}]
    /\ UNCHANGED <<monitorVars, linkVars, edits, raced, lost>>

\* The initial write goes to the handler's own socket.
WriteInitial(c) == Delivers(c, "written", c = link)

\* SendToAgent writes to the node's current connection.
SendConfig(t) == Delivers(t, "listed", link # 0)

LatencyNext ==
    \/ \E t \in LatencyRequests :
        \/ \E f \in Families \cup {"any"}, auto, chosen, fails \in BOOLEAN :
              \/ \E m \in Monitors : CreateMonitor(t, m, f, auto, chosen, fails)
              \/ UpdateMonitor(t, f, auto, chosen, fails)
        \/ \E m \in Monitors : ReadMonitor(t, m) \/ DeleteMonitor(t, m)
        \/ UpdateFails(t)
        \/ RegisterNode(t) \/ ReadMonitors(t) \/ AssignAuto(t)
    \/ \E c \in Links :
        \/ \E fs \in SUBSET Families, a \in Families \cup {"none"} : Snapshot(c, fs, a)
        \/ ListInitial(c) \/ WriteInitial(c)
    \/ \E t \in Senders :
        ListForNode(t) \/ NotOnline(t) \/ SendFails(t) \/ SendConfig(t)
    \/ Connect \/ Disconnect

LatencySpec == LatencyInit /\ [][LatencyNext]_latencyVars

-----------------------------------------------------------------------------

LatencyTypeOK ==
    /\ monitors \in [Monitors -> Monitor] /\ used \subseteq Monitors
    /\ known \in BOOLEAN
    /\ families \subseteq Families /\ ip \in Families \cup {"none"}
    /\ assigned \subseteq Monitors /\ excluded \subseteq Monitors
    /\ link \in Links \cup {0} /\ links \in Links \cup {0}
    /\ sending \in [Senders -> {"idle", "updating", "registered", "assigning", "sync",
                              "listed", "initial", "written"}]
    /\ \A t \in Senders : list[t] \subseteq Monitors \X Monitor
    /\ config \subseteq Monitors \X Monitor
    /\ edits \in 0..MaxEdits
    /\ raced \in BOOLEAN /\ lost \in BOOLEAN /\ blank \in BOOLEAN

\* A connected agent runs the monitors that are assigned to its node once no
\* sender is under way, unless the lists of two senders overlapped or one was
\* not sent (syncLatencyMonitorsForNode, writeLatencyMonitorConfigToConn).
ConfigConverges ==
    link # 0 /\ ~raced /\ ~lost /\ (\A t \in Senders : sending[t] = "idle")
        => config = Listed

\* The assignments follow the node's address families: no assigned monitor has
\* a family that the node lacks, and auto-assigned monitors reach a node that
\* has their family, also one that gained it later, unless an operator left it
\* out or a snapshot came without the families (ApplyAgentSnapshot).
AssignmentsFollowFamilies ==
    families # {} =>
        /\ \A m \in assigned : Exists(m) => Applies(monitors[m], families, ip)
        /\ ~blank =>
               \A m \in Monitors \ excluded :
                   monitors[m].auto /\ Applies(monitors[m], families, ip)
                       => m \in assigned

=============================================================================
