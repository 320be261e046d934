----------------------------- MODULE AgentLedger -----------------------------
(***************************************************************************)
(* What the update executor of an agent promises of the commands of its    *)
(* server (the abstract specification of AgentExecutor, from the comments  *)
(* of internal/collector/agent_state.go): the state file only moves        *)
(* forward, a verdict in it is final and true of the executable, and a     *)
(* command that was retired, or has replaced the binary, never starts      *)
(* again, whatever is sent again, fails or stops.                          *)
(***************************************************************************)
EXTENDS Naturals

CONSTANTS
    MaxSeq,  \* bound: sequence numbers the server uses
    Nothing  \* no command

VARIABLES
    current,   \* the command in progress
    replaced,  \* the commands whose binary was put in place
    mark,      \* the watermark of the state file
    record     \* what the state file says of each command

ledgerVars == <<current, replaced, mark, record>>

Commands == 1..MaxSeq
Records == {"none", "open", "succeeded", "failed", "cancelled", "unknown", "disposed"}

Init ==
    /\ current = Nothing
    /\ replaced = {}
    /\ mark = 0
    /\ record = [s \in Commands |-> "none"]

\* What a record may become: nothing is said of a command at or below the
\* watermark w that was not said before, except of one in progress.
Becomes(w, s, old, new) ==
    \/ new \in {old, "none"}
    \/ old = "none" /\ s > w
    \/ old = "open"
    \/ old = "unknown" /\ new = "disposed"

\* The file is written, with all that happened since the last time, or is not.
WriteFile ==
    /\ mark' \in mark..MaxSeq
    /\ record' \in [Commands -> Records]
    /\ \A s \in Commands :
          /\ Becomes(mark, s, record[s], record'[s])
          /\ record'[s] \notin {"none", "open"} => s <= mark'
          /\ record'[s] \in {"failed", "cancelled"} => s \notin replaced

\* A command starts: a new one, with no verdict on it.
Start(s) ==
    /\ current = Nothing
    /\ s > mark /\ s \notin replaced
    /\ current' = s
    /\ UNCHANGED replaced
    /\ WriteFile

\* Its binary is put in place, for the first time and without a verdict.
Replace ==
    /\ current \in Commands \ replaced
    /\ record[current] \in {"none", "open"}
    /\ replaced' = replaced \cup {current}
    /\ UNCHANGED <<current, mark, record>>

\* It ends, is taken back, or the process stops.
End ==
    /\ current' = Nothing
    /\ UNCHANGED replaced
    /\ WriteFile

Next ==
    \/ \E s \in Commands : Start(s)
    \/ Replace \/ End
    \/ WriteFile /\ UNCHANGED <<current, replaced>>

Spec == Init /\ [][Next]_ledgerVars

=============================================================================
