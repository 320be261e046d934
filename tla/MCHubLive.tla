------------------------------- MODULE MCHubLive -------------------------------
(* Model checking of what must end when the server stops: the hub's handlers *)
(* and its Close, and the steps of the process around them.  The two share   *)
(* no state: a run picks one of them at the start, and the other stays where *)
(* it begins.                                                                *)
EXTENDS Hub, ServerShutdown

VARIABLE component \* the one that runs

MCInit ==
    /\ component \in {"hub", "shutdown"}
    /\ Init
    /\ ShutdownInit

MCNext ==
    /\ UNCHANGED component
    /\ \/ component = "hub" /\ Next /\ UNCHANGED shutdownVars
       \/ component = "shutdown" /\ ShutdownNext /\ UNCHANGED vars

MCSpec ==
    /\ MCInit /\ [][MCNext]_<<component, vars, shutdownVars>>
    /\ Fairness
    /\ ShutdownFairness

=============================================================================
