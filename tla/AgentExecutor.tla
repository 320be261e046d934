----------------------------- MODULE AgentExecutor -----------------------------
(***************************************************************************)
(* The update executor of an agent (internal/collector): the durable state *)
(* of agent_state.go, the admission of commands and of auto-updates, the   *)
(* goroutine that downloads, verifies, commits and renames a binary, the   *)
(* cancellation that races it, and the recovery after a stop at any point. *)
(*                                                                         *)
(* A command is identified by its sequence number, an auto-update by the   *)
(* binary it installs: these are the deduplication keys of the code.  The  *)
(* server is the environment: it may send any command, cancel request or   *)
(* handshake ack at any time, any number of times.  Saving the state file  *)
(* may fail, and the process may stop between any two steps.               *)
(***************************************************************************)
EXTENDS Naturals, FiniteSets

CONSTANTS
    MaxSeq,     \* bound: sequence numbers the server uses
    Binaries,   \* agent binaries, named by their SHA256
    Target,     \* the binary each command installs
    Released,   \* the binaries the release manifest may name
    Installed,  \* the binary running at first
    Window,     \* agentStateRecordsWindow (1024 in the code)
    MaxFaults,  \* bound: stops, failed saves and reads, quarantines, blocks
    MaxTails,   \* bound: finished tasks whose deferred reset is pending
    Nothing     \* no task

Seqs == 1..MaxSeq

ASSUME AgentAssumption ==
    /\ MaxSeq \in Nat
    /\ Target \in [Seqs -> Binaries]
    /\ Released \subseteq Binaries
    /\ Installed \in Binaries
    /\ Binaries \cap Seqs = {}
    /\ Window \in Nat \ {0}
    /\ MaxFaults \in Nat
    /\ MaxTails \in Nat
    /\ Nothing \notin Seqs \cup Binaries

\* commandDedupKey: "seq:N" for a command, "auto:SHA256" for an auto-update.
Keys == Seqs \cup Binaries

\* The binary that the task with key k installs.
BinaryOf(k) == IF k \in Seqs THEN Target[k] ELSE k

Verdicts == {"succeeded", "failed", "cancelled", "unknown"}

VARIABLES
    alive,       \* the process runs
    unread,      \* it started without its state file
    mem,         \* c.state: bound, mark, control, key, commit, intent, recs
    disk,        \* the state file, same fields
    faults,      \* those so far, counted for the bound
    exe,         \* the binary at the executable's path
    pc,          \* where the goroutine of the task in progress is
    handle,      \* c.taskCancel and c.taskCtx are those of that task
    owned,       \* the context that goroutine took is its own
    dead,        \* its context is cancelled
    tails,       \* finished tasks that have not run their deferred reset
    cancelling,  \* the cancel request in hand: its sequence and its step
    renamed,     \* history: sequences whose binary was renamed into place
    again,       \* history: sequences whose binary was renamed again
    blind,       \* history: tasks that committed without a saved state, and
                 \* commands that the agent has forgotten
    settled      \* history: sequences with a verdict, here or in an ack

taskVars == <<pc, handle, owned, dead, tails>>
renameVars == <<exe, renamed, again>>
vars == <<alive, unread, mem, disk, faults, taskVars, cancelling, renameVars, blind, settled>>

Steps == {"admitted", "entering", "starting", "downloading", "verifying",
          "checked", "committed", "renamed"}

States ==
    [bound : BOOLEAN, mark : 0..MaxSeq,
     control : {"none", "blocked", "quarantined"},
     key : Keys \cup {Nothing}, commit : BOOLEAN, intent : BOOLEAN,
     recs : [Keys -> Verdicts \cup {"none", "open", "disposed"}]]

EmptyState ==
    [bound |-> FALSE, mark |-> 0, control |-> "none",
     key |-> Nothing, commit |-> FALSE, intent |-> FALSE,
     recs |-> [k \in Keys |-> "none"]]

Idle == [seq |-> Nothing, at |-> "idle"]

-----------------------------------------------------------------------------

(* A definition named ...Fault is a seeded fault: the definition after it   *)
(* with a plausible mistake, which a property named in PROJECT.json catches. *)

\* appendRecord: the record of k is replaced or added; when the window is
\* full another record is dropped (the oldest in the code, any one here).
AppendRecord(recs, k, status) ==
    LET kept == {j \in Keys \ {k} : recs[j] # "none"} IN
    IF recs[k] # "none" \/ Cardinality(kept) < Window
    THEN {[recs EXCEPT ![k] = status]}
    ELSE {[recs EXCEPT ![k] = status, ![j] = "none"] : j \in kept}

\* The state with no task in progress.
Cleared(m) == [m EXCEPT !.key = Nothing, !.commit = FALSE, !.intent = FALSE]

\* The key of any task becomes the watermark.
RetiredFault(m, k) == [m EXCEPT !.mark = k]

\* The watermark moves up to the sequence of task k.
Retired(m, k) ==
    IF k \in Seqs /\ k > m.mark THEN [m EXCEPT !.mark = k] ELSE m

\* An unknown outcome is recorded like any other.
WithVerdictFault(m, verdict) ==
    {Cleared(Retired([m EXCEPT !.recs = r], m.key)) :
        r \in AppendRecord(m.recs, m.key, verdict)}

\* finishUpdateTask: the verdict is recorded, the sequence retired, and an
\* unknown outcome blocks the agent.
WithVerdict(m, verdict) ==
    {Cleared(Retired([m EXCEPT
                !.recs = r,
                !.control = IF verdict = "unknown" THEN "blocked" ELSE @],
             m.key)) :
        r \in AppendRecord(m.recs, m.key, verdict)}

Fault == faults < MaxFaults /\ faults' = faults + 1

\* A state in quarantine is written over the file like any other.
SaveFault(m) ==
    \/ disk' = m /\ UNCHANGED faults
    \/ m # disk /\ Fault /\ UNCHANGED disk

\* saveAgentState of m: it may fail, and it does nothing in quarantine.
Save(m) ==
    \/ /\ disk' = IF m.control = "quarantined" THEN disk ELSE m
       /\ UNCHANGED faults
    \/ /\ m.control # "quarantined" /\ m # disk
       /\ Fault
       /\ UNCHANGED disk

\* c.state becomes m and is saved.
Set(m) == mem' = m /\ Save(m)

\* A task past its commit point is settled like one that is not.
OutcomesFault(m, installed) == {IF m.intent THEN "cancelled" ELSE "failed"}

\* The unknown outcomes that an ack with control_state = none has released, an
\* old ack as well as one sent after their disposition.  The code keeps
\* "unknown": the difference is there for UnknownBlocks only.
Disposed(recs) ==
    [k \in Keys |-> IF recs[k] = "unknown" THEN "disposed" ELSE recs[k]]

\* recoverInProgressState: what a stopped task is taken to have done.  The
\* digest of the executable may be unavailable.
Outcomes(m, installed) ==
    CASE ~m.commit -> {IF m.intent THEN "cancelled" ELSE "failed"}
      [] m.commit /\ installed = BinaryOf(m.key) -> {"succeeded", "unknown"}
      [] OTHER -> {"unknown"}

-----------------------------------------------------------------------------

Init ==
    /\ alive = FALSE /\ unread = FALSE
    /\ mem = EmptyState
    /\ disk = EmptyState
    /\ faults = 0
    /\ exe = Installed
    /\ pc = "idle"
    /\ handle = FALSE /\ owned = FALSE /\ dead = FALSE
    /\ tails = 0
    /\ cancelling = Idle
    /\ renamed = {} /\ again = {} /\ blind = {}
    /\ settled = {}

\* The process is gone, and what was only in memory with it.
Gone ==
    /\ alive' = FALSE /\ unread' = FALSE
    /\ mem' = EmptyState
    /\ pc' = "idle"
    /\ handle' = FALSE /\ owned' = FALSE /\ dead' = FALSE
    /\ tails' = 0
    /\ cancelling' = Idle

\* The process stops, for whatever reason, between two steps.
Stop ==
    /\ alive
    /\ Fault
    /\ Gone
    /\ UNCHANGED <<disk, renameVars, blind, settled>>

\* loadAgentState with a readable file: a task in progress is settled.
Boot ==
    /\ ~alive
    /\ alive' = TRUE
    /\ IF disk.key = Nothing
       THEN mem' = disk /\ UNCHANGED <<disk, faults, settled>>
       ELSE /\ \E verdict \in Outcomes(disk, exe) :
                   \E m \in WithVerdict(disk, verdict) : Set(m)
            /\ settled' = settled \cup ({disk.key} \cap Seqs)
    /\ UNCHANGED <<unread, renameVars, taskVars, cancelling, blind>>

\* loadAgentState with an unreadable or corrupted file: an empty state in
\* quarantine, which is not saved over the file.
BootUnreadable ==
    /\ ~alive
    /\ alive' = TRUE /\ unread' = TRUE
    /\ mem' = [EmptyState EXCEPT !.control = "quarantined"]
    /\ Fault
    /\ UNCHANGED <<disk, renameVars, taskVars, cancelling, blind, settled>>

-----------------------------------------------------------------------------

\* A sequence beyond the next one is admitted as well.
InTurnFault(k) == k \in Seqs => k > mem.mark

\* The sequence gate: exactly the one after the watermark.
InTurn(k) == k \in Seqs => k = mem.mark + 1

\* The last sequence is admitted again, its record is not looked up.
AdmissibleFault(k) ==
    /\ mem.control = "none"
    /\ k \in Seqs => mem.bound
    /\ InTurn(k) \/ k = mem.mark
    /\ mem.key = Nothing

\* beginUpdateTask admits key k: control state, stream, sequence gate, no
\* record of the key, no other task.
Admissible(k) ==
    /\ mem.control = "none"
    /\ k \in Seqs => mem.bound
    /\ InTurn(k)
    /\ mem.recs[k] = "none"
    /\ mem.key = Nothing

\* The accepted and in-progress records, saved before any side effect; a
\* failed save is only logged.
Admit(k, step) ==
    /\ alive
    /\ Admissible(k)
    /\ \E r \in AppendRecord(mem.recs, k, "open") :
           Set([mem EXCEPT !.key = k, !.recs = r])
    /\ pc' = step
    /\ UNCHANGED <<alive, unread, renameVars, handle, owned, dead, tails,
                   cancelling, blind, settled>>

\* dispatchAgentCommand: a command of the server.
ReceiveCommand(s) == Admit(s, "admitted")

\* maybeApplyRelease: the manifest names another binary than the executable.
AutoUpdate(b) == b # exe /\ Admit(b, "entering")

\* A command of another stream quarantines the agent.
ForeignCommand ==
    /\ alive
    /\ mem.control = "none"
    /\ mem' = [mem EXCEPT !.control = "quarantined"]
    /\ Fault
    /\ UNCHANGED <<alive, unread, disk, renameVars, taskVars, cancelling, blind,
                   settled>>

\* applyHandshakeAck with control_state = quarantined, or of another stream
\* than the one the agent is bound to.
AckQuarantines ==
    /\ alive
    /\ mem' = [mem EXCEPT !.control = "quarantined"]
    /\ Fault
    /\ UNCHANGED <<alive, unread, disk, renameVars, taskVars, cancelling, blind,
                   settled>>

\* The commands that replaced the binary and that c.state does not know of.
Forgotten == {s \in renamed : s > mem.mark /\ s # mem.key}

\* applyHandshakeAck with control_state = control_blocked.  It takes an agent
\* out of quarantine, and what an unreadable file had said is then forgotten.
AckBlocks ==
    /\ alive
    /\ Fault
    /\ mem' = [mem EXCEPT !.control = "blocked"]
    /\ disk' \in {disk, mem'}
    /\ blind' = IF mem.control = "quarantined" THEN blind \cup Forgotten ELSE blind
    /\ UNCHANGED <<alive, unread, renameVars, taskVars, cancelling, settled>>

\* applyHandshakeAck with control_state = none: the stream is adopted, the
\* watermark only moves up, and a block is lifted.
AckAccepts(mark) ==
    /\ alive
    /\ Set([mem EXCEPT
          !.bound = TRUE,
          !.mark = IF mark > @ THEN mark ELSE @,
          !.control = IF @ = "blocked" THEN "none" ELSE @,
          !.recs = IF mem.control = "blocked" THEN Disposed(@) ELSE @])
    /\ settled' = settled \cup 1..mark
    /\ UNCHANGED <<alive, unread, renameVars, taskVars, cancelling, blind>>

-----------------------------------------------------------------------------

\* handleCancelRequest: the task in progress and its commit point are read.
CancelRequest(s) ==
    /\ alive
    /\ cancelling = Idle
    /\ mem.key = s /\ ~mem.commit
    /\ cancelling' = [seq |-> s, at |-> "checked"]
    /\ UNCHANGED <<alive, unread, mem, disk, faults, renameVars, taskVars, blind, settled>>

\* The intent is recorded if the task is still the same.
CancelIntent ==
    /\ cancelling.at = "checked"
    /\ IF mem.key = cancelling.seq
       THEN Set([mem EXCEPT !.intent = TRUE])
       ELSE UNCHANGED <<mem, disk, faults>>
    /\ cancelling' = [cancelling EXCEPT !.at = "marked"]
    /\ UNCHANGED <<alive, unread, renameVars, taskVars, blind, settled>>

\* cancelTask: the context in c.taskCancel is cancelled, if there is one, and
\* the server is told that the task is cancelled.
CancelTask ==
    /\ cancelling.at = "marked"
    /\ IF mem.key = cancelling.seq
       THEN dead' = (dead \/ handle)
       ELSE UNCHANGED dead
    /\ cancelling' = Idle
    /\ UNCHANGED <<alive, unread, mem, disk, faults, renameVars, pc, handle, owned, tails, blind,
                   settled>>

-----------------------------------------------------------------------------

\* What no step of the goroutine before the rename changes.
taskFrame == <<alive, unread, renameVars, cancelling>>

\* The accepted report is sent.
ReportAccepted ==
    /\ pc = "admitted"
    /\ pc' = "entering"
    /\ UNCHANGED <<taskFrame, mem, disk, faults, handle, owned, dead, tails, blind, settled>>

\* It cannot be sent: abortUpdateTask takes the admission back.
AbortUpdateTask ==
    /\ pc = "admitted"
    /\ Set(Cleared([mem EXCEPT !.recs[mem.key] = "none"]))
    /\ pc' = "idle"
    /\ UNCHANGED <<alive, unread, renameVars, cancelling, handle, owned, dead, tails,
                   blind, settled>>

\* runUpdateTask publishes its cancel function and its context.
EnterTask ==
    /\ pc = "entering"
    /\ pc' = "starting"
    /\ handle' = TRUE
    /\ UNCHANGED <<taskFrame, mem, disk, faults, owned, dead, tails, blind, settled>>

\* runSelfUpdate takes the published context, or the background one when an
\* earlier task's deferred reset has removed it; then it starts to download.
StartDownload ==
    /\ pc = "starting"
    /\ pc' = "downloading"
    /\ owned' = handle
    /\ Save(mem)
    /\ UNCHANGED <<taskFrame, mem, handle, dead, tails, blind, settled>>

\* The download ends within its lease.
FinishDownload ==
    /\ pc = "downloading"
    /\ pc' = "verifying"
    /\ Save(mem)
    /\ UNCHANGED <<taskFrame, mem, handle, owned, dead, tails, blind, settled>>

\* The checksum and the signature are right, the temporary file is written,
\* and the context is looked at for the last time.
FinishVerify ==
    /\ pc = "verifying"
    /\ ~(owned /\ dead)
    /\ pc' = "checked"
    /\ UNCHANGED <<taskFrame, mem, disk, faults, handle, owned, dead, tails, blind, settled>>

\* A step before the commit point observes the cancelled context.
ObserveCancel ==
    /\ pc \in {"downloading", "verifying"}
    /\ owned /\ dead
    /\ pc' = "cancelled"
    /\ UNCHANGED <<taskFrame, mem, disk, faults, handle, owned, dead, tails, blind, settled>>

\* A step before the commit point fails: source, network, lease, checksum,
\* signature, temporary file, or a report that could not be sent.
FailBeforeCommit ==
    /\ pc \in {"starting", "downloading", "verifying"}
    /\ pc' = "failed"
    /\ UNCHANGED <<taskFrame, mem, disk, faults, handle, owned, dead, tails, blind, settled>>

\* A failed save of the commit point is only logged.
MarkCommitPointFault ==
    /\ pc = "checked"
    /\ mem' = [mem EXCEPT !.commit = TRUE]
    /\ Save(mem')
    /\ pc' = "committed"
    /\ blind' = IF mem.control = "quarantined" THEN blind \cup {mem.key} ELSE blind
    /\ UNCHANGED <<taskFrame, handle, owned, dead, tails, settled>>

\* markCommitPoint: when the save fails the task fails; in quarantine there is
\* no save, and no failure.
MarkCommitPoint ==
    /\ pc = "checked"
    /\ mem' = [mem EXCEPT !.commit = TRUE]
    /\ Save(mem')
    /\ IF mem.control = "quarantined" \/ disk' = mem'
       THEN pc' = "committed"
       ELSE pc' = "failed"
    /\ blind' = IF mem.control = "quarantined" THEN blind \cup {mem.key} ELSE blind
    /\ UNCHANGED <<taskFrame, handle, owned, dead, tails, settled>>

\* os.Rename puts the new binary in the executable's place.
Rename ==
    /\ pc = "committed"
    /\ pc' = "renamed"
    /\ exe' = BinaryOf(mem.key)
    /\ renamed' = renamed \cup ({mem.key} \cap Seqs)
    /\ again' = again \cup ({mem.key} \cap renamed)
    /\ UNCHANGED <<alive, unread, mem, disk, faults, handle, owned, dead, tails,
                   cancelling, blind, settled>>

\* The rename fails, or after it the version file, the lease or the exec.
FailAfterCommit ==
    /\ pc \in {"committed", "renamed"}
    /\ pc' = "unknown"
    /\ IF pc = "renamed" THEN Save(mem) ELSE UNCHANGED <<disk, faults>>
    /\ UNCHANGED <<taskFrame, mem, handle, owned, dead, tails, blind, settled>>

\* syscall.Exec starts the new binary in this process.
Exec ==
    /\ pc = "renamed"
    /\ Save(mem)
    /\ Gone
    /\ UNCHANGED <<renameVars, blind, settled>>

\* A cancelled task is not recorded.
HandledFault == {"failed", "unknown"}

\* The errors that runUpdateTask and postCommitFailure record.
Handled == {"failed", "cancelled", "unknown"}

\* finishUpdateTask with the verdict that runUpdateTask derives from the
\* error.  The published cancel function no longer cancels anything.
FinishUpdateTask ==
    /\ pc \in Handled
    /\ \E m \in WithVerdict(mem, pc) : Set(m)
    /\ settled' = settled \cup ({mem.key} \cap Seqs)
    /\ pc' = "idle"
    /\ handle' = FALSE /\ owned' = FALSE /\ dead' = FALSE
    /\ tails' = IF tails < MaxTails THEN tails + 1 ELSE tails
    /\ UNCHANGED <<alive, unread, renameVars, cancelling, blind>>

\* The deferred reset of c.taskCancel and c.taskCtx of a finished task.
DeferredReset ==
    /\ tails > 0
    /\ tails' = tails - 1
    /\ handle' = FALSE
    /\ UNCHANGED <<alive, unread, mem, disk, faults, renameVars, pc, owned, dead,
                   cancelling, blind, settled>>

-----------------------------------------------------------------------------

TaskStep ==
    \/ ReportAccepted \/ AbortUpdateTask \/ EnterTask \/ StartDownload
    \/ FinishDownload \/ FinishVerify \/ ObserveCancel \/ FailBeforeCommit
    \/ MarkCommitPoint \/ Rename \/ FailAfterCommit \/ Exec \/ FinishUpdateTask

Server ==
    \/ \E s \in Seqs : ReceiveCommand(s) \/ CancelRequest(s)
    \/ ForeignCommand \/ AckQuarantines \/ AckBlocks
    \/ \E mark \in 0..MaxSeq : AckAccepts(mark)

Next ==
    \/ Boot \/ BootUnreadable \/ Stop
    \/ Server
    \/ \E b \in Released : AutoUpdate(b)
    \/ CancelIntent \/ CancelTask
    \/ TaskStep \/ DeferredReset

\* The scheduler runs the goroutine; every step of it is bounded by a lease
\* or by a local operation.
Fairness == WF_vars(TaskStep)

Spec == Init /\ [][Next]_vars /\ Fairness

-----------------------------------------------------------------------------

TypeOK ==
    /\ alive \in BOOLEAN /\ unread \in BOOLEAN
    /\ mem \in States /\ disk \in States
    /\ faults \in 0..MaxFaults
    /\ exe \in Binaries
    /\ pc \in Steps \cup Verdicts \cup {"idle"}
    /\ handle \in BOOLEAN /\ owned \in BOOLEAN /\ dead \in BOOLEAN
    /\ tails \in Nat
    /\ cancelling \in [seq : Seqs \cup {Nothing},
                       at : {"idle", "checked", "marked"}]
    /\ renamed \subseteq Seqs /\ again \subseteq Seqs
    /\ blind \subseteq Keys
    /\ settled \subseteq Seqs

\* No command replaces the binary twice, whatever is resent and wherever the
\* process stops, with two exceptions: its commit point could not be saved
\* because the agent was in quarantine, or an ack with control_blocked took an
\* agent that could not read its state file out of quarantine
\* (beginUpdateTask, recoverInProgressState, applyHandshakeAck).
OneRename == again \subseteq blind

\* What the agent reports of a command is what happened to the executable: a
\* command recorded as failed or cancelled, in memory or on disk, did not
\* replace it (recoverInProgressState, finishUpdateTask).
RecordTruth ==
    \A s \in Seqs \ blind :
        (mem.recs[s] \in {"failed", "cancelled"}
            \/ disk.recs[s] \in {"failed", "cancelled"}) => s \notin renamed

\* The commit point is on disk before the rename, so that a stop at any later
\* point is settled by the digest of the executable (markCommitPoint).
CommitIsDurable ==
    pc \in {"committed", "renamed", "unknown"} /\ mem.key \notin blind =>
        disk.key = mem.key /\ disk.commit

\* An unknown outcome blocks the agent, also over a restart, until an ack with
\* control_state = none lifts the block, whenever that ack was sent
\* (finishUpdateTask, recoverInProgressState).
UnknownBlocks ==
    /\ \A k \in Keys : mem.recs[k] = "unknown" => mem.control # "none"
    /\ \A k \in Keys : disk.recs[k] = "unknown" => disk.control # "none"

\* The watermark passes a sequence only when the agent has a verdict on it or
\* the server has retired it (finishUpdateTask, applyHandshakeAck).
WatermarkSkipsNothing ==
    \A s \in Seqs :
        s <= mem.mark \/ s <= disk.mark => s \in settled

\* An agent that started without its state file and was taken out of quarantine:
\* it works on from nothing, and writes over the file.
Astray == unread /\ ~(mem.control = "quarantined" /\ mem.key = Nothing)

\* The state file only moves forward, a verdict in it is final and true, and
\* no command starts again that was retired or has replaced the binary, over
\* failed saves, quarantines and stops (saveAgentState, loadAgentState,
\* beginUpdateTask): AgentExecutor implements AgentLedger, but for the steps of
\* an agent that is astray.
Ledger == INSTANCE AgentLedger WITH
    current <- IF mem.key \in Seqs THEN mem.key ELSE Nothing,
    replaced <- renamed \ blind,
    mark <- disk.mark,
    record <- [s \in Seqs |-> disk.recs[s]]

LedgerSpec ==
    /\ Ledger!Init
    /\ [][Ledger!Next \/ Astray \/ Astray']_(Ledger!ledgerVars)

\* A task in progress ends, whatever fails in it, so that the next command is
\* not answered as busy for ever (runUpdateTask).
TaskEnds == mem.key # Nothing ~> mem.key = Nothing

=============================================================================
