-------------------------- MODULE AgentExecutorProofs --------------------------
(***************************************************************************)
(* Proofs about AgentExecutor, for any number of commands, binaries and    *)
(* records, and any number of stops, failed saves and quarantines.         *)
(***************************************************************************)
EXTENDS AgentExecutor, TLAPS

USE AgentAssumption

\* The steps of a task from its commit point on.
Late == {"committed", "renamed", "unknown"}

\* Commands that replaced the binary from a commit point that was saved.
Done == renamed \ blind

\* What holds of c.state and of the state file alike: the task in progress is
\* recorded as open and is at most the next after the watermark, an unknown
\* outcome isolates, the watermark passed only settled commands, and a
\* command recorded as failed or cancelled did not replace the binary.
Sound(m) ==
    /\ m \in States
    /\ m.key \in Keys => m.recs[m.key] = "open"
    /\ m.key \in Seqs => m.key <= m.mark + 1
    /\ \A k \in Keys : m.recs[k] = "unknown" => m.control # "none"

Fits(m, passed, done) ==
    /\ Sound(m)
    /\ \A s \in Seqs : s <= m.mark => s \in passed
    /\ \A s \in done : m.recs[s] \notin {"failed", "cancelled"}

\* A command that replaced the binary is remembered: it is still in progress,
\* past its commit point, or it is retired.
Remembers(m, done) ==
    \A s \in done :
        /\ m.key = s => m.commit
        /\ m.key = s \/ s <= m.mark

\* The same of c.state, which knows nothing after a start without its file;
\* such an agent takes no command until an ack takes it out of quarantine.
RemembersInMemory ==
    alive => \A s \in Done :
        /\ mem.key = s => pc \in {"renamed", "unknown"}
        /\ \/ mem.key = s
           \/ s <= mem.mark
           \/ unread /\ mem.control = "quarantined" /\ mem.key = Nothing

\* The goroutine, the task in c.state and the process.
TaskInStep ==
    /\ mem.key = Nothing <=> pc = "idle"
    /\ pc \in Late => mem.commit
    /\ alive \/ (pc = "idle" /\ cancelling = Idle)

\* The variables other than the two states have their types.
Typed ==
    /\ alive \in BOOLEAN /\ unread \in BOOLEAN
    /\ faults \in 0..MaxFaults
    /\ exe \in Binaries
    /\ pc \in Steps \cup Verdicts \cup {"idle"}
    /\ handle \in BOOLEAN /\ owned \in BOOLEAN /\ dead \in BOOLEAN
    /\ tails \in Nat
    /\ cancelling \in [seq : Seqs \cup {Nothing},
                       at : {"idle", "checked", "marked"}]
    /\ renamed \subseteq Seqs /\ again \subseteq Seqs
    /\ blind \subseteq Keys
    /\ settled \subseteq Seqs

ExecutorInv ==
    /\ Typed
    /\ Fits(mem, settled, Done)
    /\ Fits(disk, settled, Done)
    /\ Remembers(disk, Done)
    /\ RemembersInMemory
    /\ TaskInStep
    /\ CommitIsDurable
    /\ OneRename

-----------------------------------------------------------------------------
(* Records and verdicts                                                    *)

LEMMA AppendRecordFacts ==
    ASSUME NEW recs \in [Keys -> Verdicts \cup {"none", "open", "disposed"}],
           NEW k \in Keys, NEW status \in Verdicts \cup {"open"},
           NEW r \in AppendRecord(recs, k, status)
    PROVE  /\ r \in [Keys -> Verdicts \cup {"none", "open", "disposed"}]
           /\ r[k] = status
           /\ \A j \in Keys \ {k} : r[j] \in {recs[j], "none"}
BY DEF AppendRecord

\* What recording a verdict does to a state.
LEMMA VerdictFacts ==
    ASSUME NEW m \in States, m.key \in Keys,
           NEW verdict \in Verdicts, NEW n \in WithVerdict(m, verdict)
    PROVE  /\ n \in States /\ n.key = Nothing /\ ~n.commit
           /\ n.mark = IF m.key \in Seqs /\ m.key > m.mark THEN m.key ELSE m.mark
           /\ n.control = IF verdict = "unknown" THEN "blocked" ELSE m.control
           /\ n.recs[m.key] = verdict
           /\ \A j \in Keys \ {m.key} : n.recs[j] \in {m.recs[j], "none"}
<1> DEFINE Marked(r) == [m EXCEPT
               !.recs = r,
               !.control = IF verdict = "unknown" THEN "blocked" ELSE @]
<1>1. PICK r \in AppendRecord(m.recs, m.key, verdict) :
          n = Cleared(Retired(Marked(r), m.key))
  BY DEF WithVerdict
<1>2. /\ r \in [Keys -> Verdicts \cup {"none", "open", "disposed"}]
      /\ r[m.key] = verdict
      /\ \A j \in Keys \ {m.key} : r[j] \in {m.recs[j], "none"}
  BY AppendRecordFacts DEF States
<1>3. /\ Marked(r) \in States
      /\ Marked(r).recs = r /\ Marked(r).mark = m.mark
      /\ Marked(r).control = IF verdict = "unknown" THEN "blocked" ELSE m.control
  BY <1>2 DEF States
<1> DEFINE t == Retired(Marked(r), m.key)
<1>4. /\ t \in States /\ t.recs = r /\ t.control = Marked(r).control
      /\ t.mark = IF m.key \in Seqs /\ m.key > m.mark THEN m.key ELSE m.mark
  <2> HIDE DEF Marked
  <2>1. PICK q \in States : q = Marked(r)
    BY <1>3
  <2>2. q.recs = r /\ q.mark = m.mark /\ t = Retired(q, m.key)
    BY <1>3, <2>1
  <2> HIDE DEF t
  <2>3. CASE m.key \in Seqs /\ m.key > m.mark
    <3>1. t = [q EXCEPT !.mark = m.key] /\ m.key \in 0..MaxSeq
      BY <2>2, <2>3 DEF Retired, Seqs
    <3> QED
      BY <2>1, <2>2, <2>3, <3>1 DEF States
  <2>4. CASE ~(m.key \in Seqs /\ m.key > m.mark)
    <3>1. t = q
      BY <2>2, <2>4 DEF Retired
    <3> QED
      BY <2>1, <2>2, <2>4, <3>1
  <2> QED
    BY <2>3, <2>4
<1> HIDE DEF t
<1>5. n = [t EXCEPT !.key = Nothing, !.commit = FALSE, !.intent = FALSE]
  BY <1>1 DEF Cleared, t
<1>6. /\ n \in States /\ n.key = Nothing /\ ~n.commit
      /\ n.mark = t.mark /\ n.control = t.control /\ n.recs = t.recs
  BY <1>4, <1>5 DEF States
<1> QED
  BY <1>2, <1>3, <1>4, <1>6

\* A verdict that is true of the binary leaves a state that fits.
LEMMA VerdictFits ==
    ASSUME NEW m, NEW passed, NEW done \in SUBSET Seqs, Fits(m, passed, done),
           m.key \in Keys,
           NEW verdict \in Verdicts, NEW n \in WithVerdict(m, verdict),
           verdict \in {"failed", "cancelled"} => m.key \notin done
    PROVE  Fits(n, passed \cup ({m.key} \cap Seqs), done)
<1>1. m \in States /\ m.mark \in 0..MaxSeq
  BY DEF Fits, Sound, States
<1>2. /\ n \in States /\ n.key = Nothing /\ ~n.commit
      /\ n.mark = IF m.key \in Seqs /\ m.key > m.mark THEN m.key ELSE m.mark
      /\ n.control = IF verdict = "unknown" THEN "blocked" ELSE m.control
      /\ n.recs[m.key] = verdict
      /\ \A j \in Keys \ {m.key} : n.recs[j] \in {m.recs[j], "none"}
  BY <1>1, VerdictFacts
<1>3. Sound(n)
  <2>1. n.key \notin Keys /\ n.key \notin Seqs
    BY <1>2 DEF Keys
  <2>2. ASSUME NEW k \in Keys, n.recs[k] = "unknown" PROVE n.control # "none"
    BY <1>2, <2>2 DEF Fits, Sound
  <2> QED
    BY <1>2, <2>1, <2>2 DEF Sound
<1>4. ASSUME NEW s \in Seqs, s <= n.mark
      PROVE  s \in passed \cup ({m.key} \cap Seqs)
  BY <1>1, <1>2, <1>4 DEF Fits, Sound, Seqs
<1>5. ASSUME NEW s \in done PROVE n.recs[s] \notin {"failed", "cancelled"}
  BY <1>2 DEF Fits, Keys
<1> QED
  BY <1>3, <1>4, <1>5 DEF Fits

-----------------------------------------------------------------------------
(* The invariant                                                           *)

LEMMA InvInit == Init => ExecutorInv
<1> SUFFICES ASSUME Init PROVE ExecutorInv
  OBVIOUS
<1>1. mem = EmptyState /\ disk = EmptyState /\ Done = {}
  BY DEF Init, Done
<1>2. EmptyState \in States /\ EmptyState.key = Nothing /\ EmptyState.mark = 0
  BY DEF EmptyState, States
<1>3. Fits(EmptyState, settled, Done)
  BY <1>1, <1>2 DEF Fits, Sound, EmptyState, Keys, Seqs
<1>4. Typed /\ OneRename
  <2>1. cancelling \in [seq : Seqs \cup {Nothing}, at : {"idle", "checked", "marked"}]
    BY DEF Init, Idle
  <2>2. alive \in BOOLEAN /\ unread \in BOOLEAN /\ handle \in BOOLEAN /\ owned \in BOOLEAN /\ dead \in BOOLEAN
    BY Zenon DEF Init
  <2>3. faults \in 0..MaxFaults /\ exe \in Binaries /\ tails \in Nat /\ pc = "idle"
    BY DEF Init
  <2> QED
    BY <2>1, <2>2, <2>3 DEF Init, Typed, OneRename
<1>5. pc = "idle" /\ cancelling = Idle /\ mem.key = Nothing
  BY <1>1, <1>2 DEF Init
<1>6. TaskInStep /\ CommitIsDurable
  BY <1>5 DEF TaskInStep, CommitIsDurable, Late
<1>7. RemembersInMemory /\ Remembers(disk, Done)
  BY <1>1 DEF RemembersInMemory, Remembers
<1> QED
  BY <1>1, <1>3, <1>4, <1>6, <1>7 DEF ExecutorInv

\* A step of a running agent that puts no binary in place keeps the invariant
\* if c.state keeps it: the file is as before or a copy of c.state.
LEMMA RunningStep ==
    ASSUME ExecutorInv, alive',
           Typed', OneRename', TaskInStep', CommitIsDurable', RemembersInMemory',
           Fits(mem', settled', Done'),
           settled \subseteq settled', Done' \subseteq Done,
           disk' = disk \/ (disk' = mem' /\ mem'.control # "quarantined")
    PROVE  ExecutorInv'
<1>1. Fits(disk', settled', Done')
  BY DEF ExecutorInv, Fits
<1>2. Remembers(disk', Done')
  <2>1. CASE disk' = disk
    BY <2>1 DEF ExecutorInv, Remembers
  <2>2. CASE disk' = mem' /\ mem'.control # "quarantined"
    BY <2>2 DEF Remembers, RemembersInMemory, TaskInStep, Late
  <2> QED
    BY <2>1, <2>2
<1> QED
  BY <1>1, <1>2 DEF ExecutorInv

\* What the invariant says of the states, for the steps below.
LEMMA InvFacts ==
    ASSUME ExecutorInv
    PROVE  /\ Typed /\ TaskInStep
           /\ mem \in States /\ mem.mark \in 0..MaxSeq /\ mem.recs \in [Keys -> Verdicts \cup {"none", "open", "disposed"}]
           /\ disk \in States
           /\ Done \subseteq Seqs
BY DEF ExecutorInv, Fits, Sound, States, Typed, Done

\* A step that leaves c.state and what happened to the binary alone, and keeps
\* the task where it is or moves it on without passing the rename.
LEMMA QuietStep ==
    ASSUME ExecutorInv, alive, alive' = alive, unread' = unread, mem' = mem, Typed',
           UNCHANGED <<renameVars, blind, settled>>,
           disk' = disk \/ (disk' = mem /\ mem.control # "quarantined"),
           pc' = "idle" <=> pc = "idle",
           pc \in {"renamed", "unknown"} => pc' \in {"renamed", "unknown"},
           pc' \in Late => pc \in Late
    PROVE  ExecutorInv'
<1>1. Done' = Done
  BY DEF Done, renameVars
<1>2. OneRename' /\ Fits(mem', settled', Done')
  BY <1>1 DEF ExecutorInv, OneRename, renameVars
<1>3. TaskInStep'
  BY DEF ExecutorInv, TaskInStep
<1>4. CommitIsDurable'
  BY DEF ExecutorInv, CommitIsDurable, TaskInStep, Late
<1>5. RemembersInMemory'
  BY <1>1 DEF ExecutorInv, RemembersInMemory
<1> QED
  BY <1>1, <1>2, <1>3, <1>4, <1>5, RunningStep

\* The steps of the goroutine and of a cancel request that only move it on.
LEMMA QuietSteps ==
    ASSUME ExecutorInv,
           \/ ReportAccepted \/ EnterTask \/ StartDownload \/ FinishDownload
           \/ FinishVerify \/ ObserveCancel \/ FailBeforeCommit \/ FailAfterCommit
           \/ CancelTask \/ DeferredReset
           \/ \E s \in Seqs : CancelRequest(s)
    PROVE  ExecutorInv'
<1> USE DEF Typed, Steps, Verdicts, Save, Fault, taskFrame, taskVars, renameVars
<1>0. Typed /\ TaskInStep
  BY InvFacts
<1>1. CASE \/ ReportAccepted \/ EnterTask \/ FinishVerify \/ ObserveCancel
           \/ FailBeforeCommit
  <2>1. pc # "idle" /\ alive
    BY <1>0, <1>1 DEF TaskInStep, ReportAccepted, EnterTask, FinishVerify,
                      ObserveCancel, FailBeforeCommit
  <2>2. /\ UNCHANGED <<alive, unread, mem, disk, faults, renameVars, cancelling, blind, settled>>
        /\ pc' \in {"entering", "starting", "checked", "cancelled", "failed"}
        /\ pc \in {"admitted", "entering", "verifying", "downloading", "starting"}
        /\ handle' \in {TRUE, handle} /\ UNCHANGED <<owned, dead, tails>>
    BY <1>1 DEF ReportAccepted, EnterTask, FinishVerify, ObserveCancel,
                FailBeforeCommit
  <2>3. Typed'
    <3>1. /\ alive' \in BOOLEAN /\ unread' \in BOOLEAN
          /\ owned' \in BOOLEAN /\ dead' \in BOOLEAN /\ handle' \in BOOLEAN
      <4>1. alive' = alive /\ unread' = unread /\ owned' = owned /\ dead' = dead
        BY <2>2
      <4> QED
        BY <1>0, <2>2, <4>1, Zenon
    <3>2. /\ faults' \in 0..MaxFaults /\ exe' \in Binaries /\ tails' \in Nat
          /\ renamed' \subseteq Seqs /\ again' \subseteq Seqs
          /\ blind' \subseteq Keys /\ settled' \subseteq Seqs
      BY <1>0, <2>2
    <3>3. /\ pc' \in Steps \cup Verdicts \cup {"idle"}
          /\ cancelling' \in [seq : Seqs \cup {Nothing}, at : {"idle", "checked", "marked"}]
      BY <1>0, <2>2
    <3> QED
      BY <3>1, <3>2, <3>3
  <2> QED
    BY <2>1, <2>2, <2>3, QuietStep DEF Late
<1>2. CASE StartDownload \/ FinishDownload
  <2>1. pc # "idle" /\ alive
    BY <1>0, <1>2 DEF TaskInStep, StartDownload, FinishDownload
  <2>2. /\ UNCHANGED <<alive, unread, mem, renameVars, handle, dead, tails, cancelling, blind,
                       settled>>
        /\ pc' \in {"downloading", "verifying"}
        /\ pc \in {"starting", "downloading"}
        /\ owned' \in {handle, owned}
    BY <1>2 DEF StartDownload, FinishDownload
  <2>3. disk' = disk \/ (disk' = mem /\ mem.control # "quarantined")
    BY <1>2 DEF StartDownload, FinishDownload
  <2>4. faults' \in 0..MaxFaults
    BY <1>0, <1>2 DEF StartDownload, FinishDownload
  <2>5. Typed'
    BY <1>0, <2>2, <2>4
  <2> HIDE DEF Typed
  <2> QED
    BY <2>1, <2>2, <2>3, <2>5, QuietStep DEF Late
<1>3. CASE FailAfterCommit
  <2>1. pc # "idle" /\ alive
    BY <1>0, <1>3 DEF TaskInStep, FailAfterCommit
  <2>2. /\ UNCHANGED <<alive, unread, mem, renameVars, handle, owned, dead, tails,
                       cancelling, blind, settled>>
        /\ pc' = "unknown" /\ pc \in {"committed", "renamed"}
    BY <1>3 DEF FailAfterCommit
  <2>3. Typed' /\ (disk' = disk \/ (disk' = mem /\ mem.control # "quarantined"))
    BY <1>0, <1>3, <2>2 DEF FailAfterCommit
  <2> HIDE DEF Typed
  <2> QED
    BY <2>1, <2>2, <2>3, QuietStep DEF Late
<1>4. CASE CancelTask \/ \E s \in Seqs : CancelRequest(s)
  <2>1. alive
    BY <1>0, <1>4 DEF TaskInStep, CancelTask, CancelRequest, Idle
  <2>2. Typed'
    BY <1>0, <1>4 DEF CancelTask, CancelRequest, Idle
  <2>3. UNCHANGED <<alive, unread, mem, disk, renameVars, pc, blind, settled>>
    BY <1>4 DEF CancelTask, CancelRequest
  <2> HIDE DEF Typed, renameVars
  <2> QED
    BY <2>1, <2>2, <2>3, QuietStep
<1>5. CASE DeferredReset
  <2>0. UNCHANGED <<alive, unread, mem, disk, renameVars, pc, cancelling, blind, settled>> /\ Typed'
    <3>1. /\ UNCHANGED <<alive, unread, mem, disk, faults, renameVars, pc, owned, dead,
                         cancelling, blind, settled>>
          /\ tails' = tails - 1 /\ tails > 0 /\ handle' = FALSE
      BY <1>5 DEF DeferredReset
    <3>2. tails' \in Nat
      BY <1>0, <3>1
    <3>3. handle' \in BOOLEAN
      BY <3>1
    <3> QED
      BY <1>0, <3>1, <3>2, <3>3
  <2>1. CASE alive
    BY <2>0, <2>1, QuietStep
  <2>2. CASE ~alive
    BY <2>0 DEF ExecutorInv, Fits, Sound, Remembers, RemembersInMemory, Done,
                TaskInStep, CommitIsDurable, OneRename
  <2> QED
    BY <2>1, <2>2
<1> QED
  BY <1>1, <1>2, <1>3, <1>4, <1>5

-----------------------------------------------------------------------------
(* The steps that change c.state                                           *)

\* A change that keeps what Fits looks at: the key, the records and the
\* watermark; the control state may only close.
LEMMA ControlStep ==
    ASSUME ExecutorInv, alive, alive' = alive, unread' = unread, Typed',
           UNCHANGED <<pc, renameVars, settled>>,
           blind' = blind \/ blind' = blind \cup Forgotten,
           mem' \in States,
           mem'.key = mem.key, mem'.recs = mem.recs, mem'.mark = mem.mark,
           mem'.commit = mem.commit,
           \/ mem'.control \in {mem.control, "quarantined"}
           \/ mem'.control = "blocked" /\
                  (mem.control = "quarantined" => blind' = blind \cup Forgotten),
           disk' = disk \/ (disk' = mem' /\ mem'.control # "quarantined")
    PROVE  ExecutorInv'
<1>0. Done' \subseteq Done /\ renamed' = renamed
  BY DEF Done, renameVars
<1>1. Fits(mem', settled', Done')
  BY <1>0 DEF ExecutorInv, Fits, Sound
<1>2. OneRename' /\ TaskInStep'
  BY DEF ExecutorInv, OneRename, renameVars, TaskInStep
<1>3. CommitIsDurable'
  BY DEF ExecutorInv, CommitIsDurable, TaskInStep, Late
<1>4. RemembersInMemory'
  <2>1. ASSUME NEW s \in Done'
        PROVE  /\ mem.key = s => pc \in {"renamed", "unknown"}
               /\ \/ mem.key = s \/ s <= mem.mark
                  \/ unread /\ mem.control = "quarantined" /\ mem.key = Nothing
    BY <1>0, <2>1 DEF ExecutorInv, RemembersInMemory
  <2>2. ASSUME NEW s \in Done', mem.control = "quarantined", mem'.control = "blocked"
        PROVE  mem.key = s \/ s <= mem.mark
    <3>1. /\ mem.mark \in Nat /\ s \in renamed /\ renamed \subseteq 1..MaxSeq
          /\ blind' = blind \cup Forgotten \/ mem'.control = mem.control
      BY <1>0, <2>2, InvFacts DEF Done, Typed, Seqs
    <3>2. s \notin Forgotten
      BY <2>2, <3>1 DEF Done
    <3>3. s \in Nat /\ ~(s > mem.mark /\ s # mem.key)
      BY <3>1, <3>2 DEF Forgotten
    <3> QED
      BY <3>1, <3>3
  <2> QED
    BY <2>1, <2>2 DEF RemembersInMemory
<1> QED
  BY <1>0, <1>1, <1>2, <1>3, <1>4, RunningStep

LEMMA ControlSteps ==
    ASSUME ExecutorInv, ForeignCommand \/ AckQuarantines \/ AckBlocks
    PROVE  ExecutorInv'
<1>0. Typed /\ mem \in States /\ alive
  BY InvFacts DEF ForeignCommand, AckQuarantines, AckBlocks
<1>1. /\ UNCHANGED <<alive, unread, renameVars, taskVars, cancelling, settled>>
      /\ \/ mem' = [mem EXCEPT !.control = "quarantined"] /\ UNCHANGED <<disk, blind>>
         \/ /\ mem' = [mem EXCEPT !.control = "blocked"] /\ disk' \in {disk, mem'}
            /\ blind' = IF mem.control = "quarantined"
                         THEN blind \cup Forgotten ELSE blind
  BY DEF ForeignCommand, AckQuarantines, AckBlocks
<1>2. faults' \in 0..MaxFaults
  <2>1. Fault
    BY DEF ForeignCommand, AckQuarantines, AckBlocks
  <2> QED
    BY <1>0, <2>1 DEF Fault, Typed
<1>3. Typed'
  <2>1. blind' \subseteq Keys
    BY <1>0, <1>1 DEF Typed, Forgotten, Keys
  <2> QED
    BY <1>0, <1>1, <1>2, <2>1 DEF Typed, renameVars, taskVars
<1>4. /\ mem' \in States
      /\ mem'.key = mem.key /\ mem'.recs = mem.recs /\ mem'.mark = mem.mark
      /\ mem'.commit = mem.commit
      /\ \/ mem'.control = "quarantined" /\ disk' = disk
         \/ mem'.control = "blocked"
  BY <1>0, <1>1 DEF States
<1>5. UNCHANGED pc
  BY <1>1 DEF taskVars
<1>6. disk' = disk \/ (disk' = mem' /\ mem'.control # "quarantined")
  BY <1>1, <1>4
<1>7. /\ blind' = blind \/ blind' = blind \cup Forgotten
      /\ \/ mem'.control \in {mem.control, "quarantined"}
         \/ mem'.control = "blocked" /\
                (mem.control = "quarantined" => blind' = blind \cup Forgotten)
  <2>1. CASE mem' = [mem EXCEPT !.control = "quarantined"] /\ UNCHANGED <<disk, blind>>
    BY <1>0, <2>1 DEF States
  <2>2. CASE blind' = IF mem.control = "quarantined"
                      THEN blind \cup Forgotten ELSE blind
    BY <1>4, <2>2
  <2> QED
    BY <1>1, <2>1, <2>2
<1> QED
  BY <1>0, <1>1, <1>3, <1>4, <1>5, <1>6, <1>7, ControlStep

LEMMA CancelIntentStep == ASSUME ExecutorInv, CancelIntent PROVE ExecutorInv'
<1>0. Typed /\ TaskInStep /\ mem \in States
  BY InvFacts
<1>1. /\ cancelling.at = "checked"
      /\ UNCHANGED <<alive, unread, renameVars, taskVars, blind, settled>>
      /\ cancelling' = [cancelling EXCEPT !.at = "marked"]
      /\ mem' \in {mem, [mem EXCEPT !.intent = TRUE]}
      /\ disk' = disk \/ (disk' = mem' /\ mem'.control # "quarantined")
  BY DEF CancelIntent, Set, Save
<1>2. alive
  BY <1>0, <1>1 DEF TaskInStep, Idle
<1>3. faults' \in 0..MaxFaults
  BY <1>0 DEF CancelIntent, Set, Save, Fault, Typed
<1>4. cancelling' \in [seq : Seqs \cup {Nothing}, at : {"idle", "checked", "marked"}]
  BY <1>0, <1>1 DEF Typed
<1>5. Typed'
  BY <1>0, <1>1, <1>3, <1>4 DEF Typed, renameVars, taskVars
<1>6. /\ mem' \in States
      /\ mem'.key = mem.key /\ mem'.recs = mem.recs /\ mem'.mark = mem.mark
      /\ mem'.commit = mem.commit /\ mem'.control = mem.control
  BY <1>0, <1>1 DEF States
<1>7. UNCHANGED <<pc, renameVars, blind, settled, alive, unread>>
  BY <1>1 DEF taskVars
<1> QED
  BY <1>1, <1>2, <1>5, <1>6, <1>7, ControlStep

LEMMA AckAcceptsStep ==
    ASSUME ExecutorInv, NEW mark \in 0..MaxSeq, AckAccepts(mark)
    PROVE  ExecutorInv'
<1>0. Typed /\ TaskInStep /\ mem \in States /\ alive /\ mem.mark \in 0..MaxSeq
  BY InvFacts DEF AckAccepts
<1>1. /\ UNCHANGED <<alive, unread, renameVars, taskVars, cancelling, blind>>
      /\ settled' = settled \cup 1..mark
      /\ disk' = disk \/ (disk' = mem' /\ mem'.control # "quarantined")
  BY DEF AckAccepts, Set, Save
<1>2. faults' \in 0..MaxFaults
  BY <1>0 DEF AckAccepts, Set, Save, Fault, Typed
<1>3. /\ mem' \in States
      /\ mem'.key = mem.key /\ mem'.commit = mem.commit
      /\ mem'.mark = IF mark > mem.mark THEN mark ELSE mem.mark
      /\ mem'.control = IF mem.control = "blocked" THEN "none" ELSE mem.control
      /\ mem'.recs = IF mem.control = "blocked" THEN Disposed(mem.recs) ELSE mem.recs
  <2>1. Disposed(mem.recs) \in [Keys -> Verdicts \cup {"none", "open", "disposed"}]
    BY <1>0 DEF States, Disposed
  <2> QED
    BY <1>0, <2>1 DEF AckAccepts, Set, States
<1>4. Typed'
  <2>1. settled' \subseteq Seqs
    BY <1>0, <1>1 DEF Typed, Seqs
  <2> QED
    BY <1>0, <1>1, <1>2, <2>1 DEF Typed, renameVars, taskVars
<1>5. Done' = Done
  BY <1>1 DEF Done, renameVars
<1>6. \A k \in Keys : \/ mem'.recs[k] = mem.recs[k]
                      \/ mem.recs[k] = "unknown" /\ mem'.recs[k] = "disposed"
  BY <1>3 DEF Disposed
<1>7. Sound(mem')
  <2>1. mem'.key \in Keys => mem'.recs[mem'.key] = "open"
    BY <1>3, <1>6 DEF ExecutorInv, Fits, Sound
  <2>2. mem'.key \in Seqs => mem'.key <= mem'.mark + 1
    BY <1>0, <1>3 DEF ExecutorInv, Fits, Sound, Seqs
  <2>3. ASSUME NEW k \in Keys, mem'.recs[k] = "unknown" PROVE mem'.control # "none"
    BY <1>3, <2>3 DEF ExecutorInv, Fits, Sound, Disposed
  <2> QED
    BY <1>3, <2>1, <2>2, <2>3 DEF Sound
<1>8. Fits(mem', settled', Done')
  <2>1. ASSUME NEW s \in Seqs, s <= mem'.mark PROVE s \in settled'
    BY <1>0, <1>1, <1>3, <2>1 DEF ExecutorInv, Fits, Seqs
  <2>2. ASSUME NEW s \in Done PROVE mem'.recs[s] \notin {"failed", "cancelled"}
    BY <1>6, InvFacts DEF ExecutorInv, Fits, Keys
  <2> QED
    BY <1>5, <1>7, <2>1, <2>2 DEF Fits
<1>9. pc' = pc /\ settled \subseteq settled'
  BY <1>1 DEF taskVars
<1>10. OneRename' /\ TaskInStep' /\ CommitIsDurable'
  <2>1. OneRename' /\ TaskInStep'
    BY <1>0, <1>1, <1>3, <1>9 DEF ExecutorInv, OneRename, renameVars, TaskInStep
  <2>2. CommitIsDurable'
    BY <1>0, <1>1, <1>3, <1>9 DEF ExecutorInv, CommitIsDurable, TaskInStep, Late
  <2> QED
    BY <2>1, <2>2
<1>11. RemembersInMemory'
  <2>1. \A s \in Done : s <= mem.mark => s <= mem'.mark
    BY <1>0, <1>3, InvFacts DEF Seqs
  <2> QED
    BY <1>1, <1>3, <1>5, <1>9, <2>1 DEF ExecutorInv, RemembersInMemory
<1> QED
  BY <1>0, <1>1, <1>4, <1>5, <1>8, <1>9, <1>10, <1>11, RunningStep

\* A command that replaced the binary is not admitted again.
LEMMA AdmitStep ==
    ASSUME ExecutorInv, NEW k \in Keys, NEW step \in {"admitted", "entering"},
           Admit(k, step)
    PROVE  ExecutorInv'
<1>0. Typed /\ TaskInStep /\ mem \in States /\ alive /\ mem.mark \in 0..MaxSeq
  BY InvFacts DEF Admit
<1>1. /\ mem.control = "none" /\ mem.key = Nothing
      /\ k \in Seqs => k = mem.mark + 1
  BY DEF Admit, Admissible, InTurn
<1>2. PICK r \in AppendRecord(mem.recs, k, "open") :
          /\ mem' = [mem EXCEPT !.key = k, !.recs = r]
          /\ disk' = disk \/ (disk' = mem' /\ mem'.control # "quarantined")
  BY DEF Admit, Set, Save
<1>3. /\ UNCHANGED <<alive, unread, renameVars, handle, owned, dead, tails, cancelling,
                     blind, settled>>
      /\ pc' = step
  BY DEF Admit
<1>4. faults' \in 0..MaxFaults
  BY <1>0 DEF Admit, Set, Save, Fault, Typed
<1>5. Typed'
  BY <1>0, <1>3, <1>4 DEF Typed, renameVars, Steps
<1>6. /\ r \in [Keys -> Verdicts \cup {"none", "open", "disposed"}]
      /\ r[k] = "open"
      /\ \A j \in Keys \ {k} : r[j] \in {mem.recs[j], "none"}
  BY <1>0, AppendRecordFacts DEF States
<1>7. /\ mem' \in States /\ mem'.key = k /\ mem'.recs = r
      /\ mem'.mark = mem.mark /\ mem'.control = mem.control
  BY <1>0, <1>2, <1>6 DEF States
<1>8. Done' = Done /\ k # Nothing
  BY <1>3 DEF Done, renameVars, Keys
<1>9. /\ \A s \in Done : s \in Nat /\ s <= mem.mark
      /\ k \notin Done
  <2>1. \A s \in Done : s \in Seqs /\ s # Nothing
    BY InvFacts
  <2>2. \A s \in Done : s <= mem.mark
    BY <1>0, <1>1, <2>1 DEF ExecutorInv, RemembersInMemory
  <2>3. \A s \in Seqs : s \in Nat
    BY DEF Seqs
  <2>4. ASSUME k \in Done PROVE FALSE
    BY <1>0, <1>1, <2>1, <2>2, <2>4
  <2> QED
    BY <2>1, <2>2, <2>3, <2>4
<1>10. Fits(mem', settled', Done')
  <2>1. ASSUME NEW j \in Keys, mem'.recs[j] = "unknown" PROVE mem'.control # "none"
    BY <1>6, <1>7, <2>1 DEF ExecutorInv, Fits, Sound
  <2>2. Sound(mem')
    BY <1>0, <1>1, <1>6, <1>7, <2>1 DEF Sound
  <2>3. ASSUME NEW s \in Done PROVE mem'.recs[s] \notin {"failed", "cancelled"}
    BY <1>6, <1>7, <1>9, InvFacts DEF ExecutorInv, Fits, Keys
  <2> QED
    BY <1>3, <1>7, <1>8, <2>2, <2>3 DEF ExecutorInv, Fits
<1>11. OneRename' /\ TaskInStep' /\ CommitIsDurable'
  <2>1. OneRename'
    BY <1>3 DEF ExecutorInv, OneRename, renameVars
  <2>2. TaskInStep' /\ CommitIsDurable'
    BY <1>0, <1>3, <1>7, <1>8 DEF TaskInStep, CommitIsDurable, Late
  <2> QED
    BY <2>1, <2>2
<1>12. RemembersInMemory'
  BY <1>7, <1>8, <1>9 DEF RemembersInMemory
<1> QED
  BY <1>0, <1>2, <1>3, <1>5, <1>8, <1>10, <1>11, <1>12, RunningStep

\* The admission is taken back: the task had not reached its commit point.
LEMMA AbortStep == ASSUME ExecutorInv, AbortUpdateTask PROVE ExecutorInv'
<1>0. Typed /\ TaskInStep /\ mem \in States
  BY InvFacts
<1>1. /\ pc = "admitted" /\ pc' = "idle" /\ alive /\ mem.key \in Keys
      /\ UNCHANGED <<alive, unread, renameVars, cancelling, handle, owned, dead, tails,
                     blind, settled>>
  BY <1>0 DEF AbortUpdateTask, TaskInStep, States
<1> DEFINE t == [mem EXCEPT !.recs[mem.key] = "none"]
<1>2. /\ mem' = Cleared(t)
      /\ disk' = disk \/ (disk' = mem' /\ mem'.control # "quarantined")
  BY DEF AbortUpdateTask, Set, Save
<1>3. /\ t \in States /\ t.mark = mem.mark /\ t.control = mem.control
      /\ \A j \in Keys : t.recs[j] \in {mem.recs[j], "none"}
  BY <1>0, <1>1 DEF States
<1> HIDE DEF t
<1>4. /\ mem' \in States /\ mem'.key = Nothing /\ mem'.mark = mem.mark
      /\ mem'.control = mem.control /\ mem'.recs = t.recs
  BY <1>2, <1>3 DEF Cleared, States
<1>5. faults' \in 0..MaxFaults
  BY <1>0 DEF AbortUpdateTask, Set, Save, Fault, Typed
<1>6. Typed'
  BY <1>0, <1>1, <1>5 DEF Typed, renameVars
<1>7. Done' = Done /\ Done \subseteq Seqs
  BY <1>1, InvFacts DEF Done, renameVars
<1>8. Fits(mem', settled', Done')
  <2>1. mem'.key \notin Keys /\ mem'.key \notin Seqs
    BY <1>4 DEF Keys
  <2>2. ASSUME NEW j \in Keys, mem'.recs[j] = "unknown" PROVE mem'.control # "none"
    BY <1>3, <1>4, <2>2 DEF ExecutorInv, Fits, Sound
  <2>3. ASSUME NEW s \in Done PROVE mem'.recs[s] \notin {"failed", "cancelled"}
    BY <1>3, <1>4, <1>7 DEF ExecutorInv, Fits, Keys
  <2>4. \A s \in Seqs : s <= mem'.mark => s \in settled'
    BY <1>1, <1>4 DEF ExecutorInv, Fits
  <2> QED
    BY <1>4, <1>7, <2>1, <2>2, <2>3, <2>4 DEF Fits, Sound
<1>9. OneRename' /\ TaskInStep' /\ CommitIsDurable'
  <2>1. OneRename'
    BY <1>1 DEF ExecutorInv, OneRename, renameVars
  <2>2. TaskInStep' /\ CommitIsDurable'
    BY <1>0, <1>1, <1>4 DEF TaskInStep, CommitIsDurable, Late
  <2> QED
    BY <2>1, <2>2
<1>10. RemembersInMemory'
  <2>1. ASSUME NEW s \in Done
        PROVE  s # Nothing /\ mem.key # s
               /\ s <= mem.mark
    <3>1. mem.key # Nothing /\ mem.key # s
      BY <1>1, <1>7 DEF ExecutorInv, RemembersInMemory, Keys
    <3> QED
      BY <1>1, <1>7, <3>1 DEF ExecutorInv, RemembersInMemory
  <2> QED
    BY <1>4, <1>7, <2>1 DEF RemembersInMemory
<1> QED
  BY <1>1, <1>2, <1>6, <1>7, <1>8, <1>9, <1>10, RunningStep

\* A task that ends before the rename did not replace the binary.
LEMMA FinishStep == ASSUME ExecutorInv, FinishUpdateTask PROVE ExecutorInv'
<1>0. Typed /\ TaskInStep /\ mem \in States /\ mem.mark \in 0..MaxSeq
  BY InvFacts
<1>1. /\ pc \in {"failed", "cancelled", "unknown"} /\ pc' = "idle"
      /\ alive /\ mem.key \in Keys
      /\ UNCHANGED <<alive, unread, renameVars, cancelling, blind>>
      /\ settled' = settled \cup ({mem.key} \cap Seqs)
      /\ handle' = FALSE /\ owned' = FALSE /\ dead' = FALSE
      /\ tails' = IF tails < MaxTails THEN tails + 1 ELSE tails
  BY <1>0 DEF FinishUpdateTask, Handled, TaskInStep, States
<1>2. /\ mem' \in WithVerdict(mem, pc)
      /\ disk' = disk \/ (disk' = mem' /\ mem'.control # "quarantined")
  BY DEF FinishUpdateTask, Set, Save
<1>3. pc \in Verdicts
  BY <1>1 DEF Verdicts
<1>4. /\ mem' \in States /\ mem'.key = Nothing /\ ~mem'.commit
      /\ mem'.mark = IF mem.key \in Seqs /\ mem.key > mem.mark THEN mem.key ELSE mem.mark
      /\ mem'.control = IF pc = "unknown" THEN "blocked" ELSE mem.control
  BY <1>0, <1>1, <1>2, <1>3, VerdictFacts
<1>5. Done' = Done /\ Done \subseteq Seqs
  BY <1>1, InvFacts DEF Done, renameVars
<1>6. pc \in {"failed", "cancelled"} => mem.key \notin Done
  BY <1>1 DEF ExecutorInv, RemembersInMemory
<1>7. Fits(mem', settled', Done')
  <2>1. Fits(mem, settled, Done) /\ Done \in SUBSET Seqs
    BY <1>5 DEF ExecutorInv
  <2> QED
    BY <1>1, <1>2, <1>3, <1>5, <1>6, <2>1, VerdictFits
<1>8. faults' \in 0..MaxFaults
  BY <1>0 DEF FinishUpdateTask, Set, Save, Fault, Typed
<1>9. Typed'
  <2>1. tails' \in Nat
    BY <1>0, <1>1 DEF Typed
  <2>2. settled' \subseteq Seqs
    BY <1>0, <1>1 DEF Typed
  <2>3. pc' \in Steps \cup Verdicts \cup {"idle"}
    BY <1>1
  <2> QED
    BY <1>0, <1>1, <1>8, <2>1, <2>2, <2>3 DEF Typed, renameVars
<1>10. OneRename' /\ TaskInStep' /\ CommitIsDurable'
  <2>1. OneRename'
    BY <1>1 DEF ExecutorInv, OneRename, renameVars
  <2>2. TaskInStep' /\ CommitIsDurable'
    BY <1>0, <1>1, <1>4 DEF TaskInStep, CommitIsDurable, Late
  <2> QED
    BY <2>1, <2>2
<1>11. RemembersInMemory'
  <2>1. ASSUME NEW s \in Done
        PROVE  s # Nothing /\ s <= mem'.mark
    <3>1. s \in Nat /\ s \in Seqs /\ s # Nothing
      BY <1>5 DEF Seqs
    <3>2. mem.key = s \/ s <= mem.mark
      BY <1>0, <1>1, <1>3 DEF ExecutorInv, RemembersInMemory, Keys
    <3>3. mem.mark \in Nat /\ mem'.mark \in Nat /\ mem.mark <= mem'.mark
      BY <1>0, <1>4 DEF Seqs
    <3>4. CASE mem.key = s
      BY <1>0, <1>4, <3>1, <3>4
    <3>5. CASE s <= mem.mark
      BY <3>1, <3>3, <3>5
    <3> QED
      BY <3>1, <3>2, <3>4, <3>5
  <2> QED
    BY <1>4, <1>5, <2>1 DEF RemembersInMemory
<1> QED
  BY <1>1, <1>2, <1>5, <1>7, <1>9, <1>10, <1>11, RunningStep

\* The commit point: past it, the file says so, or the agent is blind.
LEMMA CommitStep == ASSUME ExecutorInv, MarkCommitPoint PROVE ExecutorInv'
<1>0. Typed /\ TaskInStep /\ mem \in States
  BY InvFacts
<1>1. /\ pc = "checked" /\ alive /\ mem.key \in Keys
      /\ UNCHANGED <<alive, unread, renameVars, cancelling, handle, owned, dead, tails,
                     settled>>
      /\ pc' \in {"committed", "failed"}
      /\ blind' = IF mem.control = "quarantined" THEN blind \cup {mem.key} ELSE blind
      /\ mem' = [mem EXCEPT !.commit = TRUE]
      /\ disk' = disk \/ (disk' = mem' /\ mem'.control # "quarantined")
  BY <1>0 DEF MarkCommitPoint, taskFrame, TaskInStep, States, Save
<1>2. /\ mem' \in States /\ mem'.key = mem.key /\ mem'.mark = mem.mark
      /\ mem'.control = mem.control /\ mem'.recs = mem.recs /\ mem'.commit
  BY <1>0, <1>1 DEF States
<1>3. pc' = "committed" => mem.control = "quarantined" \/ disk' = mem'
  BY DEF MarkCommitPoint
<1>4. faults' \in 0..MaxFaults
  BY <1>0 DEF MarkCommitPoint, Save, Fault, Typed
<1>5. Typed'
  <2>1. blind' \subseteq Keys
    BY <1>0, <1>1 DEF Typed
  <2>2. pc' \in Steps \cup Verdicts \cup {"idle"}
    BY <1>1 DEF Steps, Verdicts
  <2> QED
    BY <1>0, <1>1, <1>4, <2>1, <2>2 DEF Typed, renameVars
<1>6. blind \subseteq blind' /\ Done' \subseteq Done /\ Done \subseteq Seqs
  BY <1>1, InvFacts DEF Done, renameVars
<1>7. Fits(mem', settled', Done')
  BY <1>1, <1>2, <1>6 DEF ExecutorInv, Fits, Sound
<1>8. OneRename'
  BY <1>1, <1>6 DEF ExecutorInv, OneRename, renameVars
<1>9. TaskInStep'
  BY <1>0, <1>1, <1>2 DEF TaskInStep
<1>10. CommitIsDurable'
  <2>1. mem.control = "quarantined" => mem.key \in blind'
    BY <1>1
  <2> QED
    BY <1>1, <1>2, <1>3, <2>1 DEF CommitIsDurable
<1>11. RemembersInMemory'
  <2>1. ASSUME NEW s \in Done PROVE mem.key # s /\ (s <= mem.mark)
    <3>1. mem.key # s
      BY <1>1 DEF ExecutorInv, RemembersInMemory
    <3>2. mem.key # Nothing
      BY <1>1 DEF Keys
    <3> QED
      BY <1>1, <3>1, <3>2 DEF ExecutorInv, RemembersInMemory
  <2> QED
    BY <1>2, <1>6, <2>1 DEF RemembersInMemory
<1> QED
  BY <1>1, <1>5, <1>6, <1>7, <1>8, <1>9, <1>10, <1>11, RunningStep

\* The rename: the command is on disk, past its commit point, and was not
\* renamed before.
LEMMA RenameStep == ASSUME ExecutorInv, Rename PROVE ExecutorInv'
<1>0. Typed /\ TaskInStep /\ mem \in States /\ disk \in States
  BY InvFacts
<1>1. /\ pc = "committed" /\ pc' = "renamed" /\ alive /\ mem.key \in Keys
      /\ exe' = BinaryOf(mem.key)
      /\ renamed' = renamed \cup ({mem.key} \cap Seqs)
      /\ again' = again \cup ({mem.key} \cap renamed)
      /\ UNCHANGED <<alive, unread, mem, disk, faults, handle, owned, dead, tails,
                     cancelling, blind, settled>>
  BY <1>0 DEF Rename, TaskInStep, States
<1>2. mem.key \notin blind => disk.key = mem.key /\ disk.commit
  BY <1>1 DEF ExecutorInv, CommitIsDurable
<1>3. mem.key \notin Done
  BY <1>1 DEF ExecutorInv, RemembersInMemory
<1>4. \A s \in Done' : s \in Done \/ (s = mem.key /\ s \notin blind)
  BY <1>1 DEF Done
<1>5. Typed'
  <2>1. exe' \in Binaries
    BY <1>1 DEF BinaryOf, Keys
  <2>2. renamed' \subseteq Seqs /\ again' \subseteq Seqs
    BY <1>0, <1>1 DEF Typed
  <2>3. pc' \in Steps \cup Verdicts \cup {"idle"}
    BY <1>1 DEF Steps
  <2> QED
    BY <1>0, <1>1, <2>1, <2>2, <2>3 DEF Typed
<1>6. Fits(mem', settled', Done')
  <2>1. mem.recs[mem.key] = "open"
    BY <1>1 DEF ExecutorInv, Fits, Sound
  <2> QED
    BY <1>1, <1>4, <2>1 DEF ExecutorInv, Fits
<1>7. Fits(disk', settled', Done')
  <2>1. mem.key \notin blind => disk.recs[mem.key] = "open"
    BY <1>1, <1>2 DEF ExecutorInv, Fits, Sound
  <2> QED
    BY <1>1, <1>4, <2>1 DEF ExecutorInv, Fits
<1>8. Remembers(disk', Done')
  BY <1>1, <1>2, <1>4 DEF ExecutorInv, Remembers
<1>9. RemembersInMemory'
  BY <1>1, <1>4 DEF ExecutorInv, RemembersInMemory
<1>10. TaskInStep'
  BY <1>0, <1>1 DEF TaskInStep, Late
<1>11. CommitIsDurable'
  BY <1>1, <1>2 DEF CommitIsDurable
<1>12. OneRename'
  BY <1>1, <1>3 DEF ExecutorInv, OneRename, Done
<1> QED
  BY <1>5, <1>6, <1>7, <1>8, <1>9, <1>10, <1>11, <1>12 DEF ExecutorInv

\* A state that knows nothing, of a process that is gone or that started
\* without its file, fits whatever has happened.
LEMMA EmptyFits ==
    ASSUME NEW m, NEW passed, NEW done \in SUBSET Seqs,
           m = EmptyState \/ m = [EmptyState EXCEPT !.control = "quarantined"]
    PROVE  Fits(m, passed, done) /\ m.key = Nothing
<1>1. /\ EmptyState \in States /\ EmptyState.key = Nothing /\ EmptyState.mark = 0
      /\ \A k \in Keys : EmptyState.recs[k] = "none"
  BY DEF EmptyState, States
<1>2. /\ m \in States /\ m.key = Nothing /\ m.mark = 0
      /\ \A k \in Keys : m.recs[k] = "none"
  BY <1>1 DEF States
<1>3. m.key \notin Keys /\ m.key \notin Seqs
  BY <1>2 DEF Keys
<1>4. \A s \in Seqs : s \in Keys /\ ~(s <= m.mark)
  BY <1>2 DEF Seqs, Keys
<1> QED
  BY <1>2, <1>3, <1>4 DEF Fits, Sound

\* The process ends; the file is as before or the last state of it.
LEMMA GoneSteps == ASSUME ExecutorInv, Stop \/ Exec PROVE ExecutorInv'
<1>0. Typed /\ TaskInStep /\ Done \subseteq Seqs
  BY InvFacts
<1>1. /\ UNCHANGED <<renameVars, blind, settled>>
      /\ Gone
      /\ disk' = disk \/ (disk' = mem /\ mem.control # "quarantined" /\ pc = "renamed")
  BY DEF Stop, Exec, Save
<1>2. faults' \in 0..MaxFaults
  BY <1>0 DEF Stop, Exec, Save, Fault, Typed
<1>3. Done' = Done
  BY <1>1 DEF Done, renameVars
<1>4. Typed'
  <2>1. cancelling' \in [seq : Seqs \cup {Nothing}, at : {"idle", "checked", "marked"}]
    BY <1>1 DEF Gone, Idle
  <2>2. /\ alive' \in BOOLEAN /\ unread' \in BOOLEAN /\ handle' \in BOOLEAN
        /\ owned' \in BOOLEAN /\ dead' \in BOOLEAN
    BY <1>1, Zenon DEF Gone
  <2>3. tails' \in Nat /\ pc' \in Steps \cup Verdicts \cup {"idle"}
    BY <1>1 DEF Gone
  <2> QED
    BY <1>0, <1>1, <1>2, <2>1, <2>2, <2>3 DEF Typed, renameVars
<1>5. Fits(mem', settled', Done') /\ mem'.key = Nothing
  <2>1. mem' = EmptyState
    BY <1>1 DEF Gone
  <2>2. Done' \in SUBSET Seqs
    BY <1>0, <1>3
  <2> QED
    BY <2>1, <2>2, EmptyFits
<1>6. Fits(disk', settled', Done')
  BY <1>1, <1>3 DEF ExecutorInv, Fits
<1>7. Remembers(disk', Done')
  <2>1. CASE disk' = disk
    BY <1>3, <2>1 DEF ExecutorInv, Remembers
  <2>2. CASE disk' = mem /\ mem.control # "quarantined" /\ pc = "renamed"
    BY <1>0, <1>3, <2>2 DEF ExecutorInv, Remembers, RemembersInMemory, TaskInStep, Late
  <2> QED
    BY <1>1, <2>1, <2>2
<1>8. ~alive' /\ pc' = "idle" /\ cancelling' = Idle
  BY <1>1 DEF Gone
<1>9. RemembersInMemory' /\ TaskInStep' /\ CommitIsDurable'
  BY <1>5, <1>8 DEF RemembersInMemory, TaskInStep, CommitIsDurable, Late
<1>10. OneRename'
  BY <1>1 DEF ExecutorInv, OneRename, renameVars
<1> QED
  BY <1>4, <1>5, <1>6, <1>7, <1>9, <1>10 DEF ExecutorInv

\* A start without the file: the agent remembers nothing, and is closed.
LEMMA BootUnreadableStep == ASSUME ExecutorInv, BootUnreadable PROVE ExecutorInv'
<1>0. Typed /\ TaskInStep /\ Done \subseteq Seqs
  BY InvFacts
<1>1. /\ ~alive /\ alive' /\ alive' \in BOOLEAN /\ unread'
      /\ unread' \in BOOLEAN
      /\ mem' = [EmptyState EXCEPT !.control = "quarantined"]
      /\ UNCHANGED <<disk, renameVars, taskVars, cancelling, blind, settled>>
  BY DEF BootUnreadable
<1>2. faults' \in 0..MaxFaults
  BY <1>0 DEF BootUnreadable, Fault, Typed
<1>3. Done' = Done
  BY <1>1 DEF Done, renameVars
<1>4. Typed'
  BY <1>0, <1>1, <1>2 DEF Typed, renameVars, taskVars
<1>5. /\ Fits(mem', settled', Done') /\ mem'.key = Nothing
      /\ mem'.control = "quarantined"
  <2>1. Done' \in SUBSET Seqs
    BY <1>0, <1>3
  <2>2. mem'.control = "quarantined"
    BY <1>1 DEF EmptyState
  <2> QED
    BY <1>1, <2>1, <2>2, EmptyFits
<1>6. pc' = "idle"
  BY <1>0, <1>1 DEF TaskInStep, taskVars
<1>7. TaskInStep' /\ CommitIsDurable'
  BY <1>1, <1>5, <1>6 DEF TaskInStep, CommitIsDurable, Late
<1>8. RemembersInMemory'
  BY <1>0, <1>1, <1>3, <1>5 DEF RemembersInMemory
<1>9. OneRename'
  BY <1>1 DEF ExecutorInv, OneRename, renameVars
<1> QED
  BY <1>1, <1>3, <1>4, <1>5, <1>7, <1>8, <1>9, RunningStep

\* A start with the file: a task that replaced the binary is past its commit
\* point there, so its verdict is not that it failed.
LEMMA BootStep == ASSUME ExecutorInv, Boot PROVE ExecutorInv'
<1>0. Typed /\ TaskInStep /\ Done \subseteq Seqs /\ disk \in States
      /\ disk.mark \in 0..MaxSeq
  BY InvFacts DEF States
<1>1. /\ ~alive /\ alive' /\ alive' = TRUE
      /\ UNCHANGED <<unread, renameVars, taskVars, cancelling, blind>>
  BY DEF Boot
<1>2. Done' = Done
  BY <1>1 DEF Done, renameVars
<1>3. pc' = "idle"
  BY <1>0, <1>1 DEF TaskInStep, taskVars
<1>4. faults' \in 0..MaxFaults
  BY <1>0 DEF Boot, Set, Save, Fault, Typed
<1>5. settled \subseteq settled' /\ settled' \subseteq Seqs
  BY <1>0 DEF Boot, Typed
<1>6. Typed'
  BY <1>0, <1>1, <1>4, <1>5 DEF Typed, renameVars, taskVars
<1>7. OneRename'
  BY <1>1 DEF ExecutorInv, OneRename, renameVars
<1>8. \A s \in Done :
          /\ s \in Nat /\ s \in Seqs /\ s # Nothing
          /\ disk.key = s => disk.commit
          /\ disk.key = s \/ s <= disk.mark
  <2>1. \A s \in Seqs : s \in Nat /\ s # Nothing
    BY DEF Seqs
  <2> QED
    BY <1>0, <2>1 DEF ExecutorInv, Remembers
<1>9. /\ Fits(mem', settled', Done') /\ mem'.key = Nothing
      /\ \A s \in Done : s <= mem'.mark
      /\ disk' = disk \/ (disk' = mem' /\ mem'.control # "quarantined")
  <2>1. CASE disk.key = Nothing
    <3>1. mem' = disk /\ UNCHANGED <<disk, settled>>
      BY <2>1 DEF Boot
    <3>2. Fits(mem', settled', Done') /\ mem'.key = Nothing
      BY <1>2, <2>1, <3>1 DEF ExecutorInv
    <3>3. \A s \in Done : s <= mem'.mark
      <4>1. \A s \in Done : s # Nothing /\ (disk.key = s \/ s <= disk.mark)
        BY <1>8
      <4> QED
        BY <2>1, <3>1, <4>1
    <3> QED
      BY <3>1, <3>2, <3>3
  <2>2. CASE disk.key # Nothing
    <3>1. PICK verdict \in Outcomes(disk, exe) :
              /\ mem' \in WithVerdict(disk, verdict)
              /\ disk' = disk \/ (disk' = mem' /\ mem'.control # "quarantined")
      BY <2>2 DEF Boot, Set, Save
    <3>2. disk.key \in Keys /\ settled' = settled \cup ({disk.key} \cap Seqs)
      BY <1>0, <2>2 DEF Boot, States
    <3>3. verdict \in Verdicts
      BY <3>1 DEF Outcomes, Verdicts
    <3>4. verdict \in {"failed", "cancelled"} => ~disk.commit
      BY <3>1 DEF Outcomes
    <3>5. verdict \in {"failed", "cancelled"} => disk.key \notin Done
      BY <3>4 DEF ExecutorInv, Remembers
    <3>6. Fits(mem', settled', Done')
      <4>1. Fits(disk, settled, Done) /\ Done \in SUBSET Seqs
        BY <1>0 DEF ExecutorInv
      <4> QED
        BY <1>2, <3>1, <3>2, <3>3, <3>5, <4>1, VerdictFits
    <3>7. /\ mem'.key = Nothing
          /\ mem'.mark = IF disk.key \in Seqs /\ disk.key > disk.mark
                         THEN disk.key ELSE disk.mark
      BY <1>0, <3>1, <3>2, <3>3, VerdictFacts
    <3>8. ASSUME NEW s \in Done PROVE s <= mem'.mark
      <4>1. s \in Nat /\ s \in Seqs /\ (disk.key = s \/ s <= disk.mark)
        BY <1>8
      <4>2. disk.mark \in Nat /\ mem'.mark \in Nat /\ disk.mark <= mem'.mark
        BY <1>0, <3>7 DEF Seqs
      <4>3. CASE disk.key = s
        BY <1>0, <3>7, <4>1, <4>3
      <4>4. CASE s <= disk.mark
        BY <4>1, <4>2, <4>4
      <4> QED
        BY <4>1, <4>3, <4>4
    <3> QED
      BY <3>1, <3>6, <3>7, <3>8
  <2> QED
    BY <2>1, <2>2
<1>10. TaskInStep' /\ CommitIsDurable'
  BY <1>1, <1>3, <1>9 DEF TaskInStep, CommitIsDurable, Late
<1>11. RemembersInMemory'
  <2>1. \A s \in Done : s # Nothing /\ s <= mem'.mark
    BY <1>8, <1>9
  <2> QED
    BY <1>2, <1>9, <2>1 DEF RemembersInMemory
<1> QED
  BY <1>1, <1>2, <1>5, <1>6, <1>7, <1>9, <1>10, <1>11, RunningStep

-----------------------------------------------------------------------------
(* The theorems                                                            *)

LEMMA InvStutter == ASSUME ExecutorInv, UNCHANGED vars PROVE ExecutorInv'
<1>1. UNCHANGED <<alive, unread, mem, disk, faults, exe, pc, handle, owned, dead, tails,
                  cancelling, renamed, again, blind, settled>>
  BY DEF vars, taskVars, renameVars
<1>2. Done' = Done
  BY <1>1 DEF Done
<1>3. Typed' /\ RemembersInMemory' /\ TaskInStep' /\ CommitIsDurable' /\ OneRename'
  BY <1>1, <1>2 DEF ExecutorInv, Typed, RemembersInMemory, TaskInStep,
                   CommitIsDurable, OneRename
<1>4. Fits(mem', settled', Done') /\ Fits(disk', settled', Done') /\ Remembers(disk', Done')
  BY <1>1, <1>2 DEF ExecutorInv
<1> QED
  BY <1>3, <1>4 DEF ExecutorInv

LEMMA InvNext == ExecutorInv /\ [Next]_vars => ExecutorInv'
<1> SUFFICES ASSUME ExecutorInv, [Next]_vars PROVE ExecutorInv'
  OBVIOUS
<1>1. CASE Boot \/ BootUnreadable \/ Stop
  BY <1>1, BootStep, BootUnreadableStep, GoneSteps
<1>2. CASE Server
  <2>1. ASSUME NEW s \in Seqs, ReceiveCommand(s) PROVE ExecutorInv'
    BY <2>1, AdmitStep DEF ReceiveCommand, Keys
  <2>2. ASSUME NEW s \in Seqs, CancelRequest(s) PROVE ExecutorInv'
    BY <2>2, QuietSteps
  <2>3. ASSUME NEW mark \in 0..MaxSeq, AckAccepts(mark) PROVE ExecutorInv'
    BY <2>3, AckAcceptsStep
  <2> QED
    BY <1>2, <2>1, <2>2, <2>3, ControlSteps DEF Server
<1>3. ASSUME NEW b \in Released, AutoUpdate(b) PROVE ExecutorInv'
  <2>1. b \in Keys /\ Admit(b, "entering")
    BY <1>3 DEF AutoUpdate, Keys
  <2> QED
    BY <2>1, AdmitStep
<1>4. CASE CancelIntent \/ CancelTask \/ DeferredReset
  BY <1>4, CancelIntentStep, QuietSteps
<1>5. CASE TaskStep
  <2>1. CASE \/ ReportAccepted \/ EnterTask \/ StartDownload \/ FinishDownload
             \/ FinishVerify \/ ObserveCancel \/ FailBeforeCommit \/ FailAfterCommit
    BY <2>1, QuietSteps
  <2>2. CASE AbortUpdateTask \/ MarkCommitPoint \/ Rename \/ Exec \/ FinishUpdateTask
    BY <2>2, AbortStep, CommitStep, RenameStep, GoneSteps, FinishStep
  <2> QED
    BY <1>5, <2>1, <2>2 DEF TaskStep
<1>6. CASE UNCHANGED vars
  BY <1>6, InvStutter
<1> QED
  BY <1>1, <1>2, <1>3, <1>4, <1>5, <1>6 DEF Next

\* The inductive invariant of the executor: c.state, the state file, the
\* goroutine and the executable agree after every step.
THEOREM ExecutorInvariant == Spec => []ExecutorInv
BY InvInit, InvNext, PTL DEF Spec

\* The variables of the executor keep their types.
THEOREM AgentTypeCorrect == Spec => []TypeOK
<1>1. ExecutorInv => TypeOK
  BY DEF ExecutorInv, Typed, Fits, Sound, TypeOK
<1> QED
  BY <1>1, ExecutorInvariant, PTL

\* No command replaces the binary twice, however often it is sent and wherever
\* the process stops, but for the two exceptions of OneRename: a commit in
\* quarantine, and a quarantine for an unreadable file that a blocked ack ended.
THEOREM CommandsRenameOnce == Spec => []OneRename
<1>1. ExecutorInv => OneRename
  BY DEF ExecutorInv
<1> QED
  BY <1>1, ExecutorInvariant, PTL

\* A command recorded as failed or cancelled, in memory or on disk, did not
\* replace the binary.
THEOREM RecordsAreTrue == Spec => []RecordTruth
<1>1. ExecutorInv => RecordTruth
  <2> SUFFICES ASSUME ExecutorInv, NEW s \in Seqs \ blind, s \in renamed
               PROVE  /\ mem.recs[s] \notin {"failed", "cancelled"}
                      /\ disk.recs[s] \notin {"failed", "cancelled"}
    BY DEF RecordTruth
  <2>1. s \in Done
    BY DEF Done
  <2> QED
    BY <2>1 DEF ExecutorInv, Fits
<1> QED
  BY <1>1, ExecutorInvariant, PTL

\* The commit point is in the state file before the binary is renamed.
THEOREM CommitPointDurable == Spec => []CommitIsDurable
<1>1. ExecutorInv => CommitIsDurable
  BY DEF ExecutorInv
<1> QED
  BY <1>1, ExecutorInvariant, PTL

\* An agent with an unknown outcome on record takes no command, in this
\* process and in the next, until an ack with control_state = none lifts its
\* block.  It does not say that the operator disposed of the outcome: the ack may
\* have been sent before it.
THEOREM UnknownIsolatesAgent == Spec => []UnknownBlocks
<1>1. ExecutorInv => UnknownBlocks
  BY DEF ExecutorInv, Fits, Sound, UnknownBlocks
<1> QED
  BY <1>1, ExecutorInvariant, PTL

\* The watermark of the agent passes no command that has neither a verdict of
\* the agent nor one of the server.
THEOREM AgentWatermarkSkipsNothing == Spec => []WatermarkSkipsNothing
<1>1. ExecutorInv => WatermarkSkipsNothing
  BY DEF ExecutorInv, Fits, WatermarkSkipsNothing
<1> QED
  BY <1>1, ExecutorInvariant, PTL

-----------------------------------------------------------------------------
(* The ledger of commands                                                  *)

\* A verdict is on record only of a command that is retired.
Retires(m) == \A s \in Seqs : m.recs[s] \in Verdicts \cup {"disposed"} => s <= m.mark

\* The state n is what m may have become.
Leads(m, n) ==
    /\ m.mark <= n.mark
    /\ \A s \in Seqs : Ledger!Becomes(m.mark, s, m.recs[s], n.recs[s])

\* The state file is an earlier state of the agent, unless it could not be read.
FileFollows == alive => unread \/ Leads(disk, mem)

LedgerInv == ExecutorInv /\ Retires(mem) /\ Retires(disk) /\ FileFollows

\* The command in progress.
Current == IF mem.key \in Seqs THEN mem.key ELSE Nothing

\* A step of an agent that is astray, or one that moves the file forward.
FileKept == Astray \/ Astray' \/ Leads(disk, disk')

\* A step that puts no binary in place and starts no command.
EndsAtMost == Done' = Done /\ mem'.key \in {mem.key, Nothing}

LEMMA LeadsSame ==
    ASSUME NEW m \in States, NEW n, n.mark = m.mark, n.recs = m.recs
    PROVE  Leads(m, n) /\ (Retires(m) => Retires(n))
<1>1. m.mark \in Nat
  BY DEF States
<1>2. Leads(m, n)
  BY <1>1 DEF Leads, Ledger!Becomes
<1>3. Retires(m) => Retires(n)
  BY DEF Retires
<1> QED
  BY <1>2, <1>3

\* A retired command has no news, so that nothing is said of it twice.
LEMMA LeadsTransitive ==
    ASSUME NEW m \in States, NEW n \in States, NEW o \in States,
           Retires(m), Leads(m, n), Leads(n, o)
    PROVE  Leads(m, o)
<1>1. m.mark \in Nat /\ n.mark \in Nat /\ o.mark \in Nat
  BY DEF States
<1>2. m.mark <= n.mark /\ n.mark <= o.mark
  BY DEF Leads
<1>3. ASSUME NEW s \in Seqs
      PROVE  Ledger!Becomes(m.mark, s, m.recs[s], o.recs[s])
  <2>1. PICK a, b, c : a = m.recs[s] /\ b = n.recs[s] /\ c = o.recs[s]
    OBVIOUS
  <2>2. a \in Verdicts \cup {"none", "open", "disposed"} /\ s \in Nat
    <3>1. s \in Keys /\ s \in Nat
      BY DEF Keys, Seqs
    <3> QED
      BY <2>1, <3>1 DEF States
  <2>3. a \in Verdicts \cup {"disposed"} => s <= m.mark
    BY <2>1 DEF Retires
  <2>4. \/ b \in {a, "none"} \/ (a = "none" /\ s > m.mark) \/ a = "open"
        \/ (a = "unknown" /\ b = "disposed")
    BY <2>1 DEF Leads, Ledger!Becomes
  <2>5. \/ c \in {b, "none"} \/ (b = "none" /\ s > n.mark) \/ b = "open"
        \/ (b = "unknown" /\ c = "disposed")
    BY <2>1 DEF Leads, Ledger!Becomes
  <2>6. s > n.mark => s > m.mark /\ ~(s <= m.mark)
    BY <1>1, <1>2, <2>2
  <2>7. \/ c \in {a, "none"} \/ (a = "none" /\ s > m.mark) \/ a = "open"
        \/ (a = "unknown" /\ c = "disposed")
    <3>1. CASE s > n.mark
      BY <2>2, <2>3, <2>6, <3>1
    <3>2. CASE ~(s > n.mark)
      BY <2>4, <2>5, <3>2
    <3> QED
      BY <3>1, <3>2
  <2> QED
    BY <2>1, <2>7 DEF Ledger!Becomes
<1>4. m.mark <= o.mark
  BY <1>1, <1>2
<1> QED
  BY <1>3, <1>4 DEF Leads

\* A verdict on the task in progress is news of an open record.
LEMMA VerdictLeads ==
    ASSUME NEW m, Sound(m), Retires(m), m.key \in Keys,
           NEW verdict \in Verdicts, NEW n \in WithVerdict(m, verdict)
    PROVE  Leads(m, n) /\ Retires(n) /\ n.key = Nothing
<1>1. /\ m \in States /\ m.mark \in Nat /\ m.recs[m.key] = "open"
      /\ \A s \in Seqs : s \in Nat /\ s \in Keys
  BY DEF Sound, States, Keys, Seqs
<1>2. /\ n.mark = IF m.key \in Seqs /\ m.key > m.mark THEN m.key ELSE m.mark
      /\ n.key = Nothing
      /\ \A j \in Keys \ {m.key} : n.recs[j] \in {m.recs[j], "none"}
  BY <1>1, VerdictFacts
<1>3. m.mark <= n.mark /\ n.mark \in Nat /\ (m.key \in Seqs => m.key <= n.mark)
  BY <1>1, <1>2
<1>4. Leads(m, n)
  <2>1. ASSUME NEW s \in Seqs
        PROVE  m.recs[s] = "open" \/ n.recs[s] \in {m.recs[s], "none"}
    BY <1>1, <1>2
  <2> QED
    BY <1>3, <2>1 DEF Leads, Ledger!Becomes
<1>5. Retires(n)
  <2>1. SUFFICES ASSUME NEW s \in Seqs, n.recs[s] \in Verdicts \cup {"disposed"}
                 PROVE  s <= n.mark
    BY DEF Retires
  <2>2. CASE s = m.key
    BY <1>3, <2>2
  <2>3. CASE s # m.key
    <3>1. n.recs[s] \in {m.recs[s], "none"}
      BY <1>1, <1>2, <2>3
    <3>2. m.recs[s] \in Verdicts \cup {"disposed"}
      BY <2>1, <3>1 DEF Verdicts
    <3>3. s <= m.mark
      BY <3>2 DEF Retires
    <3> QED
      BY <1>1, <1>3, <3>3
  <2> QED
    BY <2>2, <2>3
<1> QED
  BY <1>2, <1>4, <1>5

LEMMA LedgerFacts ==
    ASSUME LedgerInv
    PROVE  /\ mem \in States /\ disk \in States /\ TaskInStep
           /\ Retires(mem) /\ Retires(disk) /\ Leads(disk, disk)
           /\ alive /\ ~unread => Leads(disk, mem)
           /\ alive /\ (mem.key # Nothing \/ mem.control # "quarantined") =>
                  Astray \/ Leads(disk, mem)
           /\ mem.key \in Keys => alive /\ Sound(mem) /\ (Astray \/ Leads(disk, mem))
<1>1. mem \in States /\ disk \in States /\ TaskInStep /\ Sound(mem)
  BY InvFacts DEF LedgerInv, ExecutorInv, Fits
<1>2. Leads(disk, disk)
  BY <1>1, LeadsSame
<1>3. /\ alive /\ ~unread => Leads(disk, mem)
      /\ alive /\ (mem.key # Nothing \/ mem.control # "quarantined") =>
             Astray \/ Leads(disk, mem)
  BY DEF LedgerInv, FileFollows, Astray
<1>4. mem.key \in Keys => mem.key # Nothing /\ alive
  BY <1>1 DEF TaskInStep, Keys
<1> QED
  BY <1>1, <1>2, <1>3, <1>4 DEF LedgerInv

\* A step of a running agent: the file stays or takes what is in memory.
LEMMA LifeStep ==
    ASSUME LedgerInv, ExecutorInv', alive, unread' = unread,
           Leads(mem, mem'), Retires(mem'),
           disk' = disk \/ (disk' = mem' /\ mem'.control # "quarantined")
    PROVE  LedgerInv' /\ FileKept
<1>1. mem \in States /\ disk \in States /\ Retires(mem) /\ Retires(disk) /\ Leads(disk, disk)
  BY LedgerFacts
<1>2. mem' \in States
  BY DEF ExecutorInv, Fits, Sound
<1>3. Retires(disk')
  BY <1>1
<1>4. CASE unread
  <2>1. FileFollows'
    BY <1>4 DEF FileFollows
  <2>2. FileKept
    BY <1>1, <1>4 DEF FileKept, Astray
  <2> QED
    BY <1>3, <2>1, <2>2 DEF LedgerInv
<1>5. CASE ~unread
  <2>1. Leads(disk, mem)
    BY <1>5, LedgerFacts
  <2>2. Leads(disk, mem')
    BY <1>1, <1>2, <2>1, LeadsTransitive
  <2>3. Leads(mem', mem')
    BY <1>2, LeadsSame
  <2>4. Leads(disk', mem') /\ Leads(disk, disk')
    BY <1>1, <2>2, <2>3
  <2> QED
    BY <1>3, <2>4 DEF LedgerInv, FileFollows, FileKept
<1> QED
  BY <1>4, <1>5

\* One that leaves the records and the watermark alone.
LEMMA PlainStep ==
    ASSUME LedgerInv, ExecutorInv', alive,
           mem'.key = mem.key, mem'.recs = mem.recs, mem'.mark = mem.mark,
           unread' = unread,
           disk' = disk \/ (disk' = mem' /\ mem'.control # "quarantined")
    PROVE  LedgerInv' /\ FileKept
<1>1. mem \in States /\ Retires(mem)
  BY LedgerFacts
<1>2. Leads(mem, mem') /\ Retires(mem')
  BY <1>1, LeadsSame
<1> QED
  BY <1>2, LifeStep

LEMMA SameStates ==
    ASSUME LedgerInv, ExecutorInv', UNCHANGED <<alive, unread, mem, disk>>
    PROVE  LedgerInv' /\ FileKept
<1>1. Leads(disk, disk)
  BY LedgerFacts
<1>2. Retires(mem') /\ Retires(disk') /\ FileFollows'
  BY DEF LedgerInv, FileFollows
<1> QED
  BY <1>1, <1>2 DEF LedgerInv, FileKept

\* The steps after which the states are what they were, except for the
\* rename, and those that change nothing the ledger knows.
LEMMA LedgerQuiet ==
    ASSUME LedgerInv, ExecutorInv',
           \/ ReportAccepted \/ EnterTask \/ FinishVerify \/ ObserveCancel
           \/ FailBeforeCommit \/ CancelTask \/ DeferredReset
           \/ \E s \in Seqs : CancelRequest(s)
           \/ UNCHANGED vars
    PROVE  LedgerInv' /\ FileKept /\ EndsAtMost
<1>1. UNCHANGED <<alive, unread, mem, disk, renamed, blind>>
  BY DEF ReportAccepted, EnterTask, FinishVerify, ObserveCancel, FailBeforeCommit,
         CancelTask, DeferredReset, CancelRequest, taskFrame, renameVars, vars
<1>2. EndsAtMost
  BY <1>1 DEF EndsAtMost, Done
<1> QED
  BY <1>1, <1>2, SameStates

LEMMA LedgerSaves ==
    ASSUME LedgerInv, ExecutorInv', StartDownload \/ FinishDownload \/ FailAfterCommit
    PROVE  LedgerInv' /\ FileKept /\ EndsAtMost
<1>1. /\ UNCHANGED <<alive, unread, mem, renamed, blind>> /\ pc # "idle"
      /\ disk' = disk \/ (disk' = mem /\ mem.control # "quarantined")
  BY DEF StartDownload, FinishDownload, FailAfterCommit, taskFrame, renameVars, Save
<1>2. alive
  BY <1>1, LedgerFacts DEF TaskInStep
<1>3. disk' = disk \/ (disk' = mem' /\ mem'.control # "quarantined")
  BY <1>1
<1>4. EndsAtMost
  BY <1>1 DEF EndsAtMost, Done
<1> QED
  BY <1>1, <1>2, <1>3, <1>4, PlainStep

LEMMA LedgerControl ==
    ASSUME LedgerInv, ExecutorInv', ForeignCommand \/ AckQuarantines \/ AckBlocks
    PROVE  LedgerInv' /\ FileKept /\ (Astray' \/ EndsAtMost)
<1>1. mem \in States
  BY LedgerFacts
<1>2. /\ alive /\ UNCHANGED <<unread, renamed>>
      /\ \/ mem' = [mem EXCEPT !.control = "quarantined"] /\ UNCHANGED <<disk, blind>>
         \/ /\ mem' = [mem EXCEPT !.control = "blocked"] /\ disk' \in {disk, mem'}
            /\ blind' = IF mem.control = "quarantined"
                         THEN blind \cup Forgotten ELSE blind
  BY DEF ForeignCommand, AckQuarantines, AckBlocks, renameVars
<1>3. /\ mem'.key = mem.key /\ mem'.recs = mem.recs /\ mem'.mark = mem.mark
      /\ \/ mem'.control = "quarantined" /\ disk' = disk /\ blind' = blind
         \/ mem'.control = "blocked"
  BY <1>1, <1>2 DEF States
<1>4. disk' = disk \/ (disk' = mem' /\ mem'.control # "quarantined")
  BY <1>2, <1>3
<1>5. Astray' \/ EndsAtMost
  <2>1. CASE unread /\ mem'.control = "blocked"
    BY <1>2, <2>1 DEF Astray
  <2>2. CASE unread /\ mem'.control = "quarantined"
    <3>1. blind' = blind
      BY <1>3, <2>2
    <3> QED
      BY <1>2, <1>3, <3>1 DEF EndsAtMost, Done
  <2>3. CASE ~unread
    <3>1. ASSUME NEW s \in Done PROVE s \notin Forgotten
      <4>1. s \in Nat /\ mem.mark \in Nat /\ (mem.key = s \/ s <= mem.mark)
        BY <1>1, <1>2, <2>3 DEF LedgerInv, ExecutorInv, RemembersInMemory, Done,
                                Typed, Seqs, States
      <4> QED
        BY <4>1 DEF Forgotten
    <3>2. Done' = Done
      BY <1>2, <3>1 DEF Done
    <3> QED
      BY <1>3, <3>2 DEF EndsAtMost
  <2> QED
    BY <1>3, <2>1, <2>2, <2>3
<1>6. LedgerInv' /\ FileKept
  BY <1>2, <1>3, <1>4, PlainStep
<1> QED
  BY <1>5, <1>6

LEMMA LedgerIntent ==
    ASSUME LedgerInv, ExecutorInv', CancelIntent
    PROVE  LedgerInv' /\ FileKept /\ EndsAtMost
<1>1. mem \in States /\ TaskInStep
  BY LedgerFacts
<1>2. /\ cancelling.at = "checked" /\ UNCHANGED <<unread, renamed, blind>>
      /\ mem' \in {mem, [mem EXCEPT !.intent = TRUE]}
      /\ disk' = disk \/ (disk' = mem' /\ mem'.control # "quarantined")
  BY DEF CancelIntent, Set, Save, renameVars
<1>3. alive
  BY <1>1, <1>2 DEF TaskInStep, Idle
<1>4. /\ mem'.key = mem.key /\ mem'.recs = mem.recs /\ mem'.mark = mem.mark
      /\ mem'.control = mem.control
  BY <1>1, <1>2 DEF States
<1>5. EndsAtMost
  BY <1>2, <1>4 DEF EndsAtMost, Done
<1> QED
  BY <1>2, <1>3, <1>4, <1>5, PlainStep

\* The watermark of an ack is taken when it is higher.
LEMMA LedgerAck ==
    ASSUME LedgerInv, ExecutorInv', NEW w \in 0..MaxSeq, AckAccepts(w)
    PROVE  LedgerInv' /\ FileKept /\ EndsAtMost
<1>1. mem \in States /\ Retires(mem) /\ mem.mark \in Nat /\ w \in Nat
      /\ \A s \in Seqs : s \in Nat /\ s \in Keys
  BY LedgerFacts DEF States, Seqs, Keys
<1>2. /\ alive /\ UNCHANGED <<unread, renamed, blind>>
      /\ disk' = disk \/ (disk' = mem' /\ mem'.control # "quarantined")
  BY DEF AckAccepts, Set, Save, renameVars
<1>3. /\ mem'.key = mem.key
      /\ mem'.mark = IF w > mem.mark THEN w ELSE mem.mark
      /\ mem'.control = IF mem.control = "blocked" THEN "none" ELSE mem.control
      /\ mem'.recs = IF mem.control = "blocked" THEN Disposed(mem.recs) ELSE mem.recs
  BY <1>1 DEF AckAccepts, Set, States
<1>4. \A s \in Seqs : \/ mem'.recs[s] = mem.recs[s]
                      \/ mem.recs[s] = "unknown" /\ mem'.recs[s] = "disposed"
  BY <1>1, <1>3 DEF Disposed
<1>5. mem.mark <= mem'.mark /\ mem'.mark \in Nat
  BY <1>1, <1>3
<1>6. Leads(mem, mem')
  BY <1>4, <1>5 DEF Leads, Ledger!Becomes
<1>7. Retires(mem')
  <2>1. SUFFICES ASSUME NEW s \in Seqs, mem'.recs[s] \in Verdicts \cup {"disposed"}
                 PROVE  s <= mem'.mark
    BY DEF Retires
  <2>2. mem.recs[s] \in Verdicts \cup {"disposed"}
    BY <1>4, <2>1 DEF Verdicts
  <2>3. s <= mem.mark
    BY <1>1, <2>2 DEF Retires
  <2> QED
    BY <1>1, <1>5, <2>3
<1>8. EndsAtMost
  BY <1>2, <1>3 DEF EndsAtMost, Done
<1> QED
  BY <1>2, <1>3, <1>6, <1>7, <1>8, LifeStep

LEMMA LedgerCommit ==
    ASSUME LedgerInv, ExecutorInv', MarkCommitPoint
    PROVE  LedgerInv' /\ FileKept /\ EndsAtMost
<1>1. mem \in States /\ TaskInStep
  BY LedgerFacts
<1>2. /\ pc = "checked" /\ UNCHANGED <<unread, renamed>>
      /\ blind' = IF mem.control = "quarantined" THEN blind \cup {mem.key} ELSE blind
      /\ mem' = [mem EXCEPT !.commit = TRUE]
      /\ disk' = disk \/ (disk' = mem' /\ mem'.control # "quarantined")
  BY DEF MarkCommitPoint, taskFrame, renameVars, Save
<1>3. alive
  BY <1>1, <1>2 DEF TaskInStep
<1>4. /\ mem'.key = mem.key /\ mem'.recs = mem.recs /\ mem'.mark = mem.mark
      /\ mem'.control = mem.control
  BY <1>1, <1>2 DEF States
<1>5. mem.key \notin Done
  BY <1>2, <1>3 DEF LedgerInv, ExecutorInv, RemembersInMemory
<1>6. EndsAtMost
  BY <1>2, <1>4, <1>5 DEF EndsAtMost, Done
<1> QED
  BY <1>2, <1>3, <1>4, <1>6, PlainStep

LEMMA LedgerAbort ==
    ASSUME LedgerInv, ExecutorInv', AbortUpdateTask
    PROVE  LedgerInv' /\ FileKept /\ EndsAtMost
<1>1. /\ mem \in States /\ TaskInStep /\ Retires(mem) /\ mem.mark \in Nat
      /\ \A s \in Seqs : s \in Keys
  BY LedgerFacts DEF States, Keys
<1>2. /\ pc = "admitted" /\ UNCHANGED <<unread, renamed, blind>>
      /\ disk' = disk \/ (disk' = mem' /\ mem'.control # "quarantined")
  BY DEF AbortUpdateTask, Set, Save, renameVars
<1>3. alive /\ mem.key \in Keys /\ mem.key # Nothing
  BY <1>1, <1>2 DEF TaskInStep, States
<1> DEFINE t == [mem EXCEPT !.recs[mem.key] = "none"]
<1>4. t \in States /\ t.mark = mem.mark /\ \A j \in Keys : t.recs[j] \in {mem.recs[j], "none"}
  BY <1>1, <1>3 DEF States
<1>5. mem' = Cleared(t)
  BY DEF AbortUpdateTask, Set
<1> HIDE DEF t
<1>6. /\ mem'.key = Nothing /\ mem'.mark = mem.mark
      /\ \A s \in Seqs : mem'.recs[s] \in {mem.recs[s], "none"}
  BY <1>1, <1>4, <1>5 DEF Cleared, States
<1>7. Leads(mem, mem')
  BY <1>1, <1>6 DEF Leads, Ledger!Becomes
<1>8. Retires(mem')
  BY <1>1, <1>6 DEF Retires, Verdicts
<1>9. EndsAtMost
  BY <1>2, <1>6 DEF EndsAtMost, Done
<1> QED
  BY <1>2, <1>3, <1>7, <1>8, <1>9, LifeStep

LEMMA LedgerFinish ==
    ASSUME LedgerInv, ExecutorInv', FinishUpdateTask
    PROVE  LedgerInv' /\ FileKept /\ EndsAtMost
<1>1. mem \in States /\ TaskInStep /\ Retires(mem)
  BY LedgerFacts
<1>2. /\ pc \in {"failed", "cancelled", "unknown"} /\ UNCHANGED <<unread, renamed, blind>>
      /\ mem' \in WithVerdict(mem, pc)
      /\ disk' = disk \/ (disk' = mem' /\ mem'.control # "quarantined")
  BY DEF FinishUpdateTask, Handled, Set, Save, renameVars
<1>3. alive /\ mem.key \in Keys /\ mem.key # Nothing
  BY <1>1, <1>2 DEF TaskInStep, States
<1>4. pc \in Verdicts /\ Sound(mem)
  BY <1>2, <1>3, LedgerFacts DEF Verdicts
<1>5. Leads(mem, mem') /\ Retires(mem') /\ mem'.key = Nothing
  BY <1>1, <1>2, <1>3, <1>4, VerdictLeads
<1>6. EndsAtMost
  BY <1>2, <1>5 DEF EndsAtMost, Done
<1> QED
  BY <1>2, <1>3, <1>5, <1>6, LifeStep

\* What a task did so far is in the file, or lost with the process.
LEMMA LedgerGone ==
    ASSUME LedgerInv, ExecutorInv', Stop \/ Exec
    PROVE  LedgerInv' /\ FileKept /\ EndsAtMost
<1>1. /\ ~alive' /\ mem' = EmptyState /\ UNCHANGED <<renamed, blind>>
      /\ disk' = disk \/ (pc = "renamed" /\ disk' = mem)
  BY DEF Stop, Exec, Gone, Save, renameVars
<1>2. Retires(mem') /\ mem'.key = Nothing
  BY <1>1 DEF Retires, EmptyState, Verdicts, Keys
<1>3. Retires(disk') /\ FileKept
  <2>1. CASE disk' = disk
    BY <2>1, LedgerFacts DEF FileKept
  <2>2. CASE pc = "renamed" /\ disk' = mem
    <3>1. mem.key \in Keys
      BY <2>2, LedgerFacts DEF TaskInStep, States
    <3>2. (Astray \/ Leads(disk, mem)) /\ Retires(mem)
      BY <3>1, LedgerFacts
    <3> QED
      BY <2>2, <3>2 DEF FileKept
  <2> QED
    BY <1>1, <2>1, <2>2
<1>4. FileFollows'
  BY <1>1 DEF FileFollows
<1>5. EndsAtMost
  BY <1>1, <1>2 DEF EndsAtMost, Done
<1> QED
  BY <1>2, <1>3, <1>4, <1>5 DEF LedgerInv

LEMMA LedgerUnreadable ==
    ASSUME LedgerInv, ExecutorInv', BootUnreadable
    PROVE  LedgerInv' /\ FileKept /\ EndsAtMost
<1>1. /\ mem' = [EmptyState EXCEPT !.control = "quarantined"]
      /\ UNCHANGED <<disk, renamed, blind>> /\ unread'
  BY DEF BootUnreadable, renameVars
<1>2. mem'.control = "quarantined" /\ mem'.key = Nothing /\ mem'.recs = EmptyState.recs
  BY <1>1 DEF EmptyState
<1>3. Retires(mem')
  BY <1>2 DEF Retires, EmptyState, Verdicts, Keys
<1>4. Retires(disk') /\ FileKept
  BY <1>1, LedgerFacts DEF FileKept
<1>5. FileFollows'
  BY <1>1 DEF FileFollows
<1>6. EndsAtMost
  BY <1>1, <1>2 DEF EndsAtMost, Done
<1> QED
  BY <1>3, <1>4, <1>5, <1>6 DEF LedgerInv

\* Recovery settles the task of the file, which its record calls open.
LEMMA LedgerBoot ==
    ASSUME LedgerInv, ExecutorInv', Boot
    PROVE  LedgerInv' /\ FileKept /\ EndsAtMost
<1>1. disk \in States /\ Retires(disk) /\ Leads(disk, disk) /\ Sound(disk)
  BY LedgerFacts DEF LedgerInv, ExecutorInv, Fits
<1>2. UNCHANGED <<unread, renamed, blind>>
  BY DEF Boot, renameVars
<1>3. /\ Leads(disk, mem') /\ Retires(mem') /\ mem'.key = Nothing
      /\ disk' = disk \/ disk' = mem'
  <2>1. CASE disk.key = Nothing
    <3>1. mem' = disk /\ disk' = disk
      BY <2>1 DEF Boot
    <3> QED
      BY <1>1, <2>1, <3>1
  <2>2. CASE disk.key # Nothing
    <3>1. PICK verdict \in Outcomes(disk, exe) :
              mem' \in WithVerdict(disk, verdict) /\ (disk' = disk \/ disk' = mem')
      BY <2>2 DEF Boot, Set, Save
    <3>2. disk.key \in Keys /\ verdict \in Verdicts
      BY <1>1, <2>2, <3>1 DEF States, Outcomes, Verdicts
    <3>3. Leads(disk, mem') /\ Retires(mem') /\ mem'.key = Nothing
      BY <1>1, <3>1, <3>2, VerdictLeads
    <3> QED
      BY <3>1, <3>3
  <2> QED
    BY <2>1, <2>2
<1>4. Leads(mem', mem')
  <2>1. mem' \in States
    BY DEF ExecutorInv, Fits, Sound
  <2> QED
    BY <2>1, LeadsSame
<1>5. Leads(disk', mem') /\ Retires(disk') /\ Leads(disk, disk')
  BY <1>1, <1>3, <1>4
<1>6. FileFollows' /\ EndsAtMost
  BY <1>2, <1>3, <1>5 DEF FileFollows, EndsAtMost, Done
<1> QED
  BY <1>3, <1>5, <1>6 DEF LedgerInv, FileKept

\* A command is admitted above every watermark, and never after its binary
\* was put in place.
LEMMA LedgerAdmit ==
    ASSUME LedgerInv, ExecutorInv', NEW k \in Keys, NEW step, Admit(k, step)
    PROVE  /\ LedgerInv' /\ FileKept
           /\ Done' = Done /\ mem.key = Nothing /\ mem'.key = k
           /\ k \in Seqs => (Astray \/ k > disk.mark) /\ k \notin Done
<1>1. /\ mem \in States /\ disk \in States /\ Retires(mem) /\ mem.mark \in Nat
      /\ disk.mark \in Nat /\ \A s \in Seqs : s \in Nat /\ s \in Keys /\ s # Nothing
  BY LedgerFacts DEF States, Seqs, Keys
<1>2. /\ alive /\ mem.control = "none" /\ mem.key = Nothing /\ mem.recs[k] = "none"
      /\ k \in Seqs => k = mem.mark + 1
      /\ UNCHANGED <<unread, renamed, blind>>
  BY DEF Admit, Admissible, InTurn, renameVars
<1>3. PICK r \in AppendRecord(mem.recs, k, "open") :
          /\ mem' = [mem EXCEPT !.key = k, !.recs = r]
          /\ disk' = disk \/ (disk' = mem' /\ mem'.control # "quarantined")
  BY DEF Admit, Set, Save
<1>4. r[k] = "open" /\ \A j \in Keys \ {k} : r[j] \in {mem.recs[j], "none"}
  BY <1>1, AppendRecordFacts DEF States
<1>5. mem'.key = k /\ mem'.recs = r /\ mem'.mark = mem.mark
  BY <1>1, <1>3 DEF States
<1>6. k \in Seqs => k \in Nat /\ k > mem.mark
  BY <1>1, <1>2
<1>7. Leads(mem, mem')
  <2>1. ASSUME NEW s \in Seqs
        PROVE  Ledger!Becomes(mem.mark, s, mem.recs[s], mem'.recs[s])
    <3>1. CASE s = k
      BY <1>2, <1>6, <3>1 DEF Ledger!Becomes
    <3>2. CASE s # k
      <4>1. mem'.recs[s] \in {mem.recs[s], "none"}
        BY <1>1, <1>4, <1>5, <3>2
      <4> QED
        BY <4>1 DEF Ledger!Becomes
    <3> QED
      BY <3>1, <3>2
  <2> QED
    BY <1>1, <1>5, <2>1 DEF Leads
<1>8. Retires(mem')
  <2>1. SUFFICES ASSUME NEW s \in Seqs, mem'.recs[s] \in Verdicts \cup {"disposed"}
                 PROVE  s <= mem'.mark
    BY DEF Retires
  <2>2. s # k
    BY <1>4, <1>5, <2>1 DEF Verdicts
  <2>3. mem'.recs[s] \in {mem.recs[s], "none"}
    BY <1>1, <1>4, <1>5, <2>2
  <2>4. mem.recs[s] \in Verdicts \cup {"disposed"}
    BY <2>1, <2>3 DEF Verdicts
  <2> QED
    BY <1>1, <1>5, <2>4 DEF Retires
<1>9. LedgerInv' /\ FileKept
  BY <1>2, <1>3, <1>7, <1>8, LifeStep
<1>10. Done' = Done
  BY <1>2 DEF Done
<1>11. ASSUME k \in Seqs PROVE (Astray \/ k > disk.mark) /\ k \notin Done
  <2>1. Astray \/ disk.mark <= mem.mark
    BY <1>2, LedgerFacts DEF Leads
  <2>2. Astray \/ k > disk.mark
    BY <1>1, <1>6, <1>11, <2>1
  <2>3. k \in Done => k <= mem.mark
    BY <1>1, <1>2, <1>11 DEF LedgerInv, ExecutorInv, RemembersInMemory
  <2>4. ~(k <= mem.mark)
    BY <1>1, <1>6, <1>11
  <2> QED
    BY <2>2, <2>3, <2>4
<1> QED
  BY <1>2, <1>5, <1>9, <1>10, <1>11

\* The rename is the first of its command, on which there is no verdict yet.
LEMMA LedgerRename ==
    ASSUME LedgerInv, ExecutorInv', Rename
    PROVE  /\ LedgerInv' /\ FileKept /\ UNCHANGED <<mem, disk>>
           /\ \/ Done' = Done
              \/ /\ mem.key \in Seqs \ Done /\ Done' = Done \cup {mem.key}
                 /\ Astray \/ disk.recs[mem.key] \in {"none", "open"}
<1>1. /\ UNCHANGED <<alive, unread, mem, disk, blind>> /\ pc = "committed"
      /\ renamed' = renamed \cup ({mem.key} \cap Seqs)
  BY DEF Rename
<1>2. LedgerInv' /\ FileKept
  BY <1>1, SameStates
<1>3. mem.key \in Keys
  BY <1>1, LedgerFacts DEF TaskInStep, States
<1>4. mem.key \notin Done
  BY <1>1, <1>3, LedgerFacts DEF LedgerInv, ExecutorInv, RemembersInMemory
<1>5. CASE mem.key \in Seqs \ blind
  <2>1. Done' = Done \cup {mem.key}
    BY <1>1, <1>5 DEF Done
  <2>2. (Astray \/ Leads(disk, mem)) /\ mem.recs[mem.key] = "open"
    BY <1>3, LedgerFacts DEF Sound
  <2>3. Astray \/ Ledger!Becomes(disk.mark, mem.key, disk.recs[mem.key], "open")
    BY <1>5, <2>2 DEF Leads
  <2>4. Astray \/ disk.recs[mem.key] \in {"none", "open"}
    BY <2>3 DEF Ledger!Becomes
  <2> QED
    BY <1>1, <1>2, <1>4, <1>5, <2>1, <2>4
<1>6. CASE mem.key \notin Seqs \ blind
  <2>1. Done' = Done
    BY <1>1, <1>6 DEF Done
  <2> QED
    BY <1>1, <1>2, <2>1
<1> QED
  BY <1>5, <1>6

\* Every step ends the command in progress at most, starts one or puts its
\* binary in place, or is one of an agent that is astray.
LEMMA LedgerStep ==
    ASSUME LedgerInv, [Next]_vars
    PROVE  /\ LedgerInv' /\ FileKept
           /\ \/ Astray \/ Astray' \/ EndsAtMost
              \/ \E k \in Keys :
                    /\ Done' = Done /\ mem.key = Nothing /\ mem'.key = k
                    /\ k \in Seqs => k > disk.mark /\ k \notin Done
              \/ /\ UNCHANGED <<mem, disk>>
                 /\ mem.key \in Seqs \ Done /\ Done' = Done \cup {mem.key}
                 /\ disk.recs[mem.key] \in {"none", "open"}
<1>1. ExecutorInv'
  BY InvNext DEF LedgerInv
<1>2. CASE Boot \/ BootUnreadable \/ Stop
  BY <1>1, <1>2, LedgerBoot, LedgerUnreadable, LedgerGone
<1>3. CASE Server
  <2>1. CASE \E s \in Seqs : ReceiveCommand(s)
    <3>1. PICK s \in Seqs : Admit(s, "admitted")
      BY <2>1 DEF ReceiveCommand
    <3>2. s \in Keys
      BY DEF Keys
    <3> QED
      BY <1>1, <3>1, <3>2, LedgerAdmit
  <2>2. CASE \E s \in Seqs : CancelRequest(s)
    BY <1>1, <2>2, LedgerQuiet
  <2>3. CASE ForeignCommand \/ AckQuarantines \/ AckBlocks
    BY <1>1, <2>3, LedgerControl
  <2>4. CASE \E w \in 0..MaxSeq : AckAccepts(w)
    BY <1>1, <2>4, LedgerAck
  <2> QED
    BY <1>3, <2>1, <2>2, <2>3, <2>4 DEF Server
<1>4. CASE \E b \in Released : AutoUpdate(b)
  <2>1. PICK b \in Released : Admit(b, "entering")
    BY <1>4 DEF AutoUpdate
  <2>2. b \in Keys
    BY DEF Keys
  <2> QED
    BY <1>1, <2>1, <2>2, LedgerAdmit
<1>5. CASE CancelIntent
  BY <1>1, <1>5, LedgerIntent
<1>6. CASE CancelTask \/ DeferredReset \/ UNCHANGED vars
  BY <1>1, <1>6, LedgerQuiet
<1>7. CASE TaskStep
  <2>1. CASE \/ ReportAccepted \/ EnterTask \/ FinishVerify \/ ObserveCancel
             \/ FailBeforeCommit
    BY <1>1, <2>1, LedgerQuiet
  <2>2. CASE StartDownload \/ FinishDownload \/ FailAfterCommit
    BY <1>1, <2>2, LedgerSaves
  <2>3. CASE AbortUpdateTask \/ MarkCommitPoint \/ Exec \/ FinishUpdateTask
    BY <1>1, <2>3, LedgerAbort, LedgerCommit, LedgerGone, LedgerFinish
  <2>4. CASE Rename
    <3>1. /\ LedgerInv' /\ FileKept /\ UNCHANGED <<mem, disk>>
          /\ \/ Done' = Done
             \/ /\ mem.key \in Seqs \ Done /\ Done' = Done \cup {mem.key}
                /\ Astray \/ disk.recs[mem.key] \in {"none", "open"}
      BY <1>1, <2>4, LedgerRename
    <3>2. Done' = Done => EndsAtMost
      BY <3>1 DEF EndsAtMost
    <3> QED
      BY <3>1, <3>2
  <2> QED
    BY <1>7, <2>1, <2>2, <2>3, <2>4 DEF TaskStep
<1> QED
  BY <1>2, <1>3, <1>4, <1>5, <1>6, <1>7 DEF Next

LEMMA LedgerInit == Init => LedgerInv /\ Ledger!Init
<1> SUFFICES ASSUME Init PROVE LedgerInv /\ Ledger!Init
  OBVIOUS
<1>1. ExecutorInv
  BY InvInit
<1>2. /\ mem = EmptyState /\ disk = EmptyState /\ ~alive /\ renamed = {}
      /\ \A s \in Seqs : s \in Keys
  BY DEF Init, Keys
<1>3. Retires(mem) /\ Retires(disk)
  BY <1>2 DEF Retires, EmptyState, Verdicts
<1>4. FileFollows
  BY <1>2 DEF FileFollows
<1>5. Nothing \notin Seqs /\ mem.key = Nothing /\ disk.mark = 0
      /\ \A s \in Seqs : disk.recs[s] = "none"
  BY <1>2 DEF EmptyState
<1>6. Ledger!Init
  BY <1>2, <1>5 DEF Ledger!Init, Ledger!Commands, Seqs
<1> QED
  BY <1>1, <1>3, <1>4, <1>6 DEF LedgerInv

\* What the file becomes is allowed by the ledger.
LEMMA LedgerWrites ==
    ASSUME LedgerInv, LedgerInv', Leads(disk, disk'), Done' = Done
    PROVE  Ledger!WriteFile
<1>1. /\ disk \in States /\ disk' \in States /\ Retires(disk')
      /\ \A s \in Done' : disk'.recs[s] \notin {"failed", "cancelled"}
  BY DEF LedgerInv, ExecutorInv, Fits, Sound
<1>2. disk'.mark \in disk.mark..MaxSeq
  BY <1>1 DEF Leads, States
<1>3. \A s \in Seqs : disk'.recs[s] \in Verdicts \cup {"none", "open", "disposed"}
  BY <1>1 DEF States, Keys
<1>4. ASSUME NEW s \in Seqs
      PROVE  /\ Ledger!Becomes(disk.mark, s, disk.recs[s], disk'.recs[s])
             /\ disk'.recs[s] \notin {"none", "open"} => s <= disk'.mark
             /\ disk'.recs[s] \in {"failed", "cancelled"} => s \notin Done
  <2>1. Ledger!Becomes(disk.mark, s, disk.recs[s], disk'.recs[s])
    BY DEF Leads
  <2>2. disk'.recs[s] \notin {"none", "open"} => s <= disk'.mark
    BY <1>1, <1>3 DEF Retires
  <2> QED
    BY <1>1, <2>1, <2>2
<1>5. [s \in Seqs |-> disk'.recs[s]] \in [Seqs -> Ledger!Records]
  BY <1>3 DEF Ledger!Records, Verdicts
<1>6. Ledger!Commands = Seqs
  BY DEF Ledger!Commands, Seqs
<1> QED
  BY <1>2, <1>4, <1>5, <1>6 DEF Ledger!WriteFile, Done

\* Every step of the executor is one of the ledger, or changes nothing in it.
LEMMA LedgerRefines ==
    LedgerInv /\ [Next]_vars =>
        LedgerInv' /\ [Ledger!Next \/ Astray \/ Astray']_(Ledger!ledgerVars)
<1> SUFFICES ASSUME LedgerInv, [Next]_vars
             PROVE  LedgerInv' /\ [Ledger!Next \/ Astray \/ Astray']_(Ledger!ledgerVars)
  OBVIOUS
<1>0. /\ LedgerInv' /\ FileKept /\ Nothing \notin Seqs
      /\ Ledger!Commands = Seqs
  BY LedgerStep DEF Ledger!Commands, Seqs
<1> SUFFICES ASSUME ~Astray, ~Astray' PROVE [Ledger!Next]_(Ledger!ledgerVars)
  BY <1>0
<1>1. /\ LedgerInv' /\ Leads(disk, disk') /\ Nothing \notin Seqs
      /\ Ledger!Commands = Seqs
  BY <1>0 DEF FileKept
<1>2. CASE EndsAtMost
  <2>1. Done' = Done /\ (mem'.key = mem.key \/ mem'.key = Nothing)
    BY <1>2 DEF EndsAtMost
  <2>2. Ledger!WriteFile
    BY <1>1, <2>1, LedgerWrites
  <2>3. CASE mem'.key = mem.key
    BY <1>1, <2>1, <2>2, <2>3 DEF Ledger!Next, Done
  <2>4. CASE mem'.key = Nothing
    <3>1. Ledger!End
      BY <1>1, <2>1, <2>2, <2>4 DEF Ledger!End, Done
    <3> QED
      BY <1>1, <3>1 DEF Ledger!Next
  <2> QED
    BY <1>1, <2>1, <2>3, <2>4
<1>3. ASSUME NEW k \in Keys, Done' = Done, mem.key = Nothing, mem'.key = k,
             k \in Seqs => k > disk.mark /\ k \notin Done
      PROVE  Ledger!Next
  <2>1. Ledger!WriteFile
    BY <1>1, <1>3, LedgerWrites
  <2>2. CASE k \in Seqs
    <3>1. Ledger!Start(k)
      BY <1>1, <1>3, <2>1, <2>2 DEF Ledger!Start, Done
    <3> QED
      BY <1>1, <2>2, <3>1 DEF Ledger!Next
  <2>3. CASE k \notin Seqs
    <3>1. Ledger!End
      BY <1>1, <1>3, <2>1, <2>3 DEF Ledger!End, Done
    <3> QED
      BY <3>1 DEF Ledger!Next
  <2> QED
    BY <2>2, <2>3
<1>4. ASSUME UNCHANGED <<mem, disk>>, mem.key \in Seqs \ Done, Done' = Done \cup {mem.key},
             disk.recs[mem.key] \in {"none", "open"}
      PROVE  Ledger!Next
  <2>1. Ledger!Replace
    BY <1>1, <1>4 DEF Ledger!Replace, Done
  <2> QED
    BY <2>1 DEF Ledger!Next
<1> QED
  BY <1>1, <1>2, <1>3, <1>4, LedgerStep

\* The state file is an earlier state of the agent, and verdicts on record are
\* of retired commands, in memory and in the file.
THEOREM FileFollowsMemory == Spec => []LedgerInv
BY LedgerInit, LedgerRefines, PTL DEF Spec

\* Every behaviour of the executor is one of the ledger: the file only moves
\* forward, verdicts are final and true, and no command that is retired or has
\* replaced the binary starts again, but for what an agent does that is astray.
THEOREM ExecutorKeepsLedger == Spec => LedgerSpec
BY LedgerInit, LedgerRefines, PTL DEF Spec, LedgerSpec, Ledger!Spec

=============================================================================
