--------------------------- MODULE CommandExecution ---------------------------
(***************************************************************************)
(* What the control plane promises for the commands of one node (the       *)
(* abstract specification of ControlPlane; docs/releases/v0.6.32.md and    *)
(* the comments of internal/collector/agent_state.go): a command runs at   *)
(* most once, after it was issued, and commands run in the order of their  *)
(* sequences, whatever is lost, repeated or started again.                 *)
(***************************************************************************)
EXTENDS Naturals, Sequences

CONSTANT
    MaxSeq  \* bound: commands issued

VARIABLES
    issued, \* commands up to this sequence are issued
    log     \* the commands that ran, in the order they did

executionVars == <<issued, log>>

Init == issued = 0 /\ log = <<>>

Issue == issued < MaxSeq /\ issued' = issued + 1 /\ UNCHANGED log

\* A command that ran or was passed over never runs later.
Run(s) ==
    /\ \A i \in DOMAIN log : log[i] < s
    /\ s <= issued
    /\ log' = Append(log, s)
    /\ UNCHANGED issued

Next == Issue \/ \E s \in 1..MaxSeq : Run(s)

Spec == Init /\ [][Next]_executionVars

=============================================================================
