--------------------------- MODULE MCAgentExecutor ---------------------------
(* Model checking of AgentExecutor: every command installs the binary of its *)
(* own release; an auto-update may install the same one.                     *)
EXTENDS AgentExecutor

CONSTANTS OldBinary, NewBinary

MCTarget == [s \in 1..MaxSeq |-> NewBinary]

=============================================================================
