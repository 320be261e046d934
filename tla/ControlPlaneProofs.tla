--------------------------- MODULE ControlPlaneProofs ---------------------------
(***************************************************************************)
(* Proofs about ControlPlane, for any number of commands, connections and  *)
(* events: its types, what the server shows of a finished command, and     *)
(* that it implements CommandExecution.                                    *)
(***************************************************************************)
EXTENDS ControlPlane, FiniteSetTheorems, WellFoundedInduction, TLAPS

USE ControlAssumption

(* The invariant.  First the types, one part per group of variables.       *)

StoreTyped ==
    /\ status \in [Seqs -> Statuses]
    /\ tombs \subseteq Seqs /\ watermark \in 0..MaxSeq /\ control \in Controls

HubTyped == online \in BOOLEAN /\ ready \in BOOLEAN

Places == {"idle", "test", "skip", "next", "send", "mark", "ack", "list", "armed"}

ThreadTyped ==
    /\ thread \in [Threads -> [at : Places, left : SUBSET Seqs]]
    /\ ack \in [Conns -> [mark : 0..MaxSeq, control : Controls]]
    /\ cancelling \subseteq tombs

LinkTyped ==
    /\ conns \in 0..MaxConns /\ linked \in BOOLEAN
    /\ toAgent \in Seq(Messages) /\ toServer \in Seq(Messages)

StateTyped ==
    /\ bound \in BOOLEAN /\ mark \in 0..MaxSeq /\ block \in Controls
    /\ records \in [Seqs -> Outcomes \cup {"none", "accepted"}]

TaskTyped ==
    /\ task \in 0..MaxSeq /\ taskConn \in 0..MaxConns
    /\ stage \in {"idle", "admitted", "running", "committed"} /\ intent \in BOOLEAN

HistoryTyped ==
    /\ ran \in Seq(Seqs)
    /\ installed \subseteq Seqs /\ busy \subseteq Seqs /\ aborted \subseteq Seqs
    /\ finalized \subseteq Seqs

HandTyped == hand \in [Conns -> Messages \cup {NoMessage}]

\* Commands are issued in the order of their numbers, and only commands that
\* are issued are in a thread's hands or on their way.
IssuedInOrder ==
    \A s, k \in Seqs : k < s /\ status[s] # "absent" => status[k] # "absent"

ThreadsIssued ==
    /\ \A t \in Threads : \A s \in thread[t].left : status[s] # "absent"
    /\ \A s \in Seqs : thread[Deliver(s)].at # "idle" => status[s] # "absent"

CommandsIssued ==
    \A i \in 1..Len(toAgent) :
        toAgent[i].type = "command" => status[toAgent[i].seq] # "absent"

\* The task in progress is an issued command with an open record.
TaskInStep ==
    /\ task = 0 <=> stage = "idle"
    /\ task # 0 => status[task] # "absent" /\ records[task] = "accepted"

\* What ran is retired or in progress; what is admitted comes after it.
RunsInOrder ==
    /\ \A i \in 1..Len(ran) : ran[i] <= mark \/ ran[i] = task
    /\ stage = "admitted" => \A i \in 1..Len(ran) : ran[i] < task

\* The agent's records tell whether a binary was put in place.
InstalledKnown ==
    /\ \A s \in installed :
        \/ task = s /\ stage = "committed"
        \/ records[s] \in {"succeeded", "unknown"}
    /\ \A s \in Seqs : records[s] = "succeeded" => s \in installed
    /\ stage = "committed" => task \in installed

\* The version that the agent reports, or will report, is one it has had.
VersionsKnown ==
    /\ file \in Versions /\ version \in Versions
    /\ HasHad(file) /\ HasHad(version)

\* What a report or a target says of command s is true.
Holds(s, v) ==
    /\ v = "failed" => s \in busy \/ records[s] = "failed"
    /\ v = "succeeded" => s \in installed \/ (s \in finalized /\ HasHad(Release(s)))
    /\ v = "unknown" => records[s] = "unknown"

MessageHolds(m) ==
    /\ m.type = "status" => Holds(m.seq, m.status)
    /\ m.type = "handshake" => \A s \in Seqs : Holds(s, m.records[s])
    /\ m.type = "metrics" => HasHad(m.version)

\* Whether it is on its way or in the hands of a read loop.
MessagesHold ==
    /\ HandTyped
    /\ \A i \in 1..Len(toServer) : MessageHolds(toServer[i])
    /\ \A c \in Conns : MessageHolds(hand[c])

\* An operator decides of the targets whose outcome the agent does not know.
StatusHolds == \A s \in Seqs : records[s] = "unknown" \/ Holds(s, status[s])

ControlInv ==
    /\ StoreTyped /\ HubTyped /\ ThreadTyped /\ LinkTyped
    /\ StateTyped /\ TaskTyped /\ HistoryTyped /\ events \in 0..MaxEvents
    /\ IssuedInOrder /\ ThreadsIssued /\ CommandsIssued
    /\ TaskInStep /\ RunsInOrder /\ InstalledKnown /\ VersionsKnown
    /\ MessagesHold /\ StatusHolds

\* What no step takes back.
Grows ==
    /\ busy \subseteq busy' /\ installed \subseteq installed'
    /\ finalized \subseteq finalized'
    /\ \A s \in Seqs : records[s] \in {"failed", "unknown"} => records'[s] = records[s]

StaysIssued == \A s \in Seqs : status[s] # "absent" => status'[s] # "absent"

\* What a target says after a step is true, if it says something new.
ShowsTruth ==
    \A s \in Seqs :
        status'[s] = status[s] \/ records[s] = "unknown" \/ Holds(s, status'[s])

\* What a step does to the messages that the read loops have in their hands.
HandKept ==
    \/ UNCHANGED hand
    \/ hand' = [c \in Conns |-> NoMessage]
    \/ \E c \in Conns : hand' = [hand EXCEPT ![c] = NoMessage]
    \/ toServer # <<>> /\ \E c \in Conns : hand' = [hand EXCEPT ![c] = Head(toServer)]

\* The messages of r were in q, or are of M.
Drawn(r, q, M) ==
    /\ r \in Seq(Messages)
    /\ \A i \in 1..Len(r) : r[i] \in M \/ \E j \in 1..Len(q) : r[i] = q[j]

-----------------------------------------------------------------------------
(* Data                                                                    *)

LEMMA MessageFacts ==
    ASSUME NEW m \in Messages
    PROVE  /\ m.type \in {"command", "cancel"} => m.seq \in Seqs
           /\ m.type = "ack" => m.mark \in 0..MaxSeq /\ m.control \in Controls
           /\ m.type = "status" => m.seq \in Seqs /\ m.status \in Statuses
           /\ m.type = "gap" => m.mark \in 0..MaxSeq
           /\ m.type = "metrics" => m.version \in Versions
           /\ m.type = "handshake" =>
                  /\ m.mark \in 0..MaxSeq /\ m.control \in Controls
                  /\ m.records \in [Seqs -> Outcomes \cup {"none", "accepted"}]
BY DEF Messages

\* The closed commands have a longest prefix.
LEMMA ClosedPrefixType ==
    ASSUME NEW st, NEW tb
    PROVE  /\ ClosedPrefix(st, tb) \in 0..MaxSeq
           /\ \A s \in 1..ClosedPrefix(st, tb) : st[s] \in Terminal \/ s \in tb
<1> DEFINE Shut(s) == st[s] \in Terminal \/ s \in tb
           T == {w \in 0..MaxSeq : w + 1 \in Seqs => ~Shut(w + 1)}
<1>1. T \subseteq Nat /\ MaxSeq \in T
  BY DEF Seqs
<1> HIDE DEF T
<1>2. PICK w \in T : \A v \in T : ~(<<v, w>> \in OpToRel(<, Nat))
  <2>1. IsWellFoundedOn(OpToRel(<, Nat), Nat)
    BY NatLessThanWellFounded
  <2>2. T # {}
    BY <1>1
  <2> QED
    BY <1>1, <2>1, <2>2, WFMin
<1>3. ASSUME NEW v \in T, v < w PROVE FALSE
  <2>1. v \in Nat /\ w \in Nat
    BY <1>1, <1>2
  <2>2. <<v, w>> \in OpToRel(<, Nat)
    BY <2>1, <1>3 DEF OpToRel
  <2> QED
    BY <1>2, <2>2
<1>4. w \in 0..MaxSeq /\ (w + 1 \in Seqs => ~Shut(w + 1))
  BY <1>2 DEF T
<1> HIDE DEF Shut
<1>5. ASSUME NEW s \in 1..w, ~Shut(s) PROVE FALSE
  <2>1. s - 1 \in 0..MaxSeq /\ s - 1 < w /\ (s - 1) + 1 = s
    BY <1>4
  <2>2. s - 1 \in T
    BY <1>5, <2>1 DEF T
  <2> QED
    BY <1>3, <2>1, <2>2
<1>6. /\ w \in 0..MaxSeq
      /\ \A s \in 1..w : st[s] \in Terminal \/ s \in tb
      /\ w + 1 \in Seqs => ~(st[w + 1] \in Terminal \/ w + 1 \in tb)
  BY <1>4, <1>5 DEF Shut
<1> QED
  BY <1>6 DEF ClosedPrefix

LEMMA LargerType ==
    ASSUME NEW a \in 0..MaxSeq, NEW b \in 0..MaxSeq
    PROVE  Larger(a, b) \in 0..MaxSeq /\ a <= Larger(a, b) /\ b <= Larger(a, b)
BY DEF Larger

\* The target of a command that is not issued stays absent.
LEMMA TransitionFacts ==
    ASSUME StoreTyped, NEW s \in Seqs, NEW new \in Statuses, Transition(s, new)
    PROVE  /\ status' \in [Seqs -> Statuses]
           /\ watermark' \in 0..MaxSeq /\ control' \in Controls
           /\ \A k \in Seqs : status'[k] = "absent" <=> status[k] = "absent"
           /\ \A k \in Seqs : status'[k] = status[k] \/ (k = s /\ status'[k] = new)
<1>1. CASE Legal(status[s], new)
  <2>1. /\ status' = [status EXCEPT ![s] = new]
        /\ control' = IF new = "unknown" THEN "blocked" ELSE control
        /\ watermark' \in {watermark, Larger(watermark, ClosedPrefix(status', tombs))}
    BY <1>1 DEF Transition
  <2>2. new = "absent" <=> status[s] = "absent"
    BY <1>1 DEF Legal, Outcomes
  <2>3. watermark' \in 0..MaxSeq
    BY <2>1, ClosedPrefixType, LargerType DEF StoreTyped
  <2> QED
    BY <2>1, <2>2, <2>3 DEF StoreTyped, Controls
<1>2. CASE ~Legal(status[s], new)
  BY <1>2 DEF Transition, StoreTyped
<1> QED
  BY <1>1, <1>2

\* What a step does to the messages on their way.
LEMMA DrawnFacts ==
    ASSUME NEW q \in Seq(Messages), NEW M \in SUBSET Messages
    PROVE  /\ Drawn(q, q, M)
           /\ Drawn(<<>>, q, M)
           /\ q # <<>> => Head(q) \in Messages /\ Head(q) = q[1] /\ Drawn(Tail(q), q, M)
           /\ \A n \in 0..Len(q) : Drawn(SubSeq(q, 1, n), q, M)
           /\ \A m \in M : Drawn(Append(q, m), q, M) /\ Drawn(<<m>>, q, M)
<1>1. Drawn(q, q, M) /\ Drawn(<<>>, q, M)
  BY DEF Drawn
<1>2. ASSUME q # <<>>
      PROVE  Head(q) \in Messages /\ Head(q) = q[1] /\ Drawn(Tail(q), q, M)
  <2>1. /\ Tail(q) \in Seq(Messages) /\ Len(Tail(q)) = Len(q) - 1 /\ Len(q) \in Nat
        /\ \A i \in 1..Len(Tail(q)) : Tail(q)[i] = q[i + 1]
    BY <1>2
  <2>2. \A i \in 1..Len(Tail(q)) : i + 1 \in 1..Len(q)
    BY <2>1
  <2>3. Head(q) \in Messages /\ Head(q) = q[1]
    BY <1>2
  <2> QED
    BY <2>1, <2>2, <2>3 DEF Drawn
<1>3. ASSUME NEW n \in 0..Len(q)
      PROVE  Drawn(SubSeq(q, 1, n), q, M)
  <2>1. /\ SubSeq(q, 1, n) \in Seq(Messages) /\ Len(SubSeq(q, 1, n)) = n
        /\ \A i \in 1..n : SubSeq(q, 1, n)[i] = q[i] /\ i \in 1..Len(q)
    OBVIOUS
  <2> QED
    BY <2>1 DEF Drawn
<1>4. ASSUME NEW m \in M
      PROVE  Drawn(Append(q, m), q, M) /\ Drawn(<<m>>, q, M)
  BY DEF Drawn
<1> QED
  BY <1>1, <1>2, <1>3, <1>4

\* The commands on their way stay issued.
LEMMA CommandsKept ==
    ASSUME LinkTyped, CommandsIssued, StaysIssued,
           NEW M \in SUBSET Messages, Drawn(toAgent', toAgent, M),
           \A m \in M : m.type = "command" => status'[m.seq] # "absent"
    PROVE  CommandsIssued'
<1> SUFFICES ASSUME NEW i \in 1..Len(toAgent'), toAgent'[i].type = "command"
             PROVE  status'[toAgent'[i].seq] # "absent"
  BY DEF CommandsIssued
<1>1. CASE toAgent'[i] \in M
  BY <1>1
<1>2. CASE \E j \in 1..Len(toAgent) : toAgent'[i] = toAgent[j]
  <2>1. PICK j \in 1..Len(toAgent) : toAgent'[i] = toAgent[j]
    BY <1>2
  <2>2. toAgent[j] \in Messages
    BY DEF LinkTyped
  <2>3. toAgent[j].seq \in Seqs
    BY <2>1, <2>2, MessageFacts
  <2> QED
    BY <2>1, <2>3 DEF CommandsIssued, StaysIssued
<1> QED
  BY <1>1, <1>2 DEF Drawn

\* What was true of a command stays true.
LEMMA HadKept ==
    ASSUME Grows, NEW v, HasHad(v)
    PROVE  HasHad(v)'
BY DEF Grows, HasHad

LEMMA HoldsKept ==
    ASSUME Grows, NEW s \in Seqs, NEW v, Holds(s, v)
    PROVE  Holds(s, v)'
<1>1. HasHad(Release(s)) => HasHad(Release(s))'
  <2>1. PICK r : r = Release(s)
    OBVIOUS
  <2>2. HasHad(r) => HasHad(r)'
    BY HadKept
  <2>3. Release(s)' = Release(s)
    BY DEF Release
  <2> QED
    BY <2>1, <2>2, <2>3
<1> QED
  BY <1>1 DEF Grows, Holds

LEMMA MessageHoldsKept ==
    ASSUME Grows, NEW m \in Messages \cup {NoMessage}, MessageHolds(m)
    PROVE  MessageHolds(m)'
<1>1. CASE m = NoMessage
  BY <1>1 DEF MessageHolds, NoMessage
<1>2. CASE m \in Messages
  <2>1. m.type = "status" => m.seq \in Seqs
    BY <1>2, MessageFacts
  <2>2. m.type = "metrics" => HasHad(m.version)'
    <3>1. PICK v : v = m.version
      OBVIOUS
    <3> QED
      BY <3>1, HadKept DEF MessageHolds
  <2> QED
    BY <2>1, <2>2, HoldsKept DEF MessageHolds
<1> QED
  BY <1>1, <1>2

LEMMA HandUntouched ==
    ASSUME UNCHANGED hand
    PROVE  HandKept
BY DEF HandKept

\* What is in the hands of the read loops was there, or was the first message.
LEMMA HandFacts ==
    ASSUME LinkTyped, HandTyped, HandKept
    PROVE  /\ HandTyped'
           /\ \A c \in Conns :
                  \/ hand'[c] = hand[c] \/ hand'[c] = NoMessage
                  \/ 1 \in 1..Len(toServer) /\ hand'[c] = toServer[1]
<1>1. /\ toServer \in Seq(Messages)
      /\ toServer # <<>> => /\ Head(toServer) \in Messages /\ Head(toServer) = toServer[1]
                           /\ 1 \in 1..Len(toServer)
  BY DEF LinkTyped
<1>2. CASE UNCHANGED hand
  BY <1>2 DEF HandTyped
<1>3. CASE hand' = [c \in Conns |-> NoMessage]
  BY <1>3 DEF HandTyped
<1>4. ASSUME NEW d \in Conns, hand' = [hand EXCEPT ![d] = NoMessage]
      PROVE  HandTyped' /\ \A c \in Conns : hand'[c] = hand[c] \/ hand'[c] = NoMessage
  BY <1>4 DEF HandTyped
<1>5. ASSUME NEW d \in Conns, toServer # <<>>, hand' = [hand EXCEPT ![d] = Head(toServer)]
      PROVE  HandTyped' /\ \A c \in Conns : hand'[c] = hand[c] \/ hand'[c] = Head(toServer)
  BY <1>1, <1>5 DEF HandTyped
<1> QED
  BY <1>1, <1>2, <1>3, <1>4, <1>5 DEF HandKept

\* The reports on their way and in the hands of the read loops stay true.
LEMMA MessagesKept ==
    ASSUME LinkTyped, MessagesHold, Grows, HandKept,
           NEW M \in SUBSET Messages, Drawn(toServer', toServer, M),
           \A m \in M : MessageHolds(m)'
    PROVE  MessagesHold'
<1>1. ASSUME NEW i \in 1..Len(toServer'), NEW m \in Messages, m = toServer'[i]
      PROVE  MessageHolds(m)'
  <2>1. CASE m \in M
    BY <2>1
  <2>2. CASE \E j \in 1..Len(toServer) : m = toServer[j]
    <3>1. MessageHolds(m)
      BY <2>2 DEF MessagesHold
    <3> QED
      BY <3>1, MessageHoldsKept
  <2> QED
    BY <1>1, <2>1, <2>2 DEF Drawn
<1>2. \A i \in 1..Len(toServer') : toServer'[i] \in Messages
  BY DEF Drawn
<1>3. /\ HandTyped /\ HandTyped'
      /\ \A c \in Conns :
             \/ hand'[c] = hand[c] \/ hand'[c] = NoMessage
             \/ 1 \in 1..Len(toServer) /\ hand'[c] = toServer[1]
  BY HandFacts DEF MessagesHold
<1>4. ASSUME NEW c \in Conns, NEW m \in Messages \cup {NoMessage}, m = hand'[c]
      PROVE  MessageHolds(m)'
  <2>1. MessageHolds(m)
    BY <1>3, <1>4 DEF MessagesHold, MessageHolds, NoMessage
  <2> QED
    BY <2>1, MessageHoldsKept
<1>5. \A c \in Conns : hand'[c] \in Messages \cup {NoMessage}
  BY <1>3 DEF HandTyped
<1>6. /\ \A i \in 1..Len(toServer') : MessageHolds(toServer[i])'
      /\ \A c \in Conns : MessageHolds(hand[c])'
  BY <1>1, <1>2, <1>4, <1>5
<1> QED
  BY <1>3, <1>6 DEF MessagesHold

-----------------------------------------------------------------------------
(* The server.                                                             *)

\* A step of the server leaves the agent alone; what it changes is typed,
\* sends issued commands, and shows nothing that is not true.
ServerKeeps(M) ==
    /\ UNCHANGED agentVars
    /\ StoreTyped' /\ HubTyped' /\ ThreadTyped' /\ LinkTyped' /\ events' \in 0..MaxEvents
    /\ StaysIssued /\ IssuedInOrder' /\ ThreadsIssued' /\ ShowsTruth
    /\ Drawn(toAgent', toAgent, M)
    /\ \A m \in M : m.type = "command" => status'[m.seq] # "absent"

LEMMA ServerStep ==
    ASSUME ControlInv, NEW M \in SUBSET Messages, ServerKeeps(M), MessagesHold'
    PROVE  ControlInv'
<1>1. /\ UNCHANGED <<bound, mark, block, records, task, stage, taskConn, file, version>>
      /\ UNCHANGED <<ran, installed, busy, aborted, finalized>>
      /\ intent' = intent
  BY DEF ServerKeeps, agentVars, stateVars, taskVars, versionVars, history
<1>2. StateTyped' /\ TaskTyped' /\ HistoryTyped'
  <2>1. StateTyped'
    BY <1>1 DEF ControlInv, StateTyped
  <2>2. TaskTyped'
    BY <1>1 DEF ControlInv, TaskTyped
  <2>3. HistoryTyped'
    BY <1>1 DEF ControlInv, HistoryTyped
  <2> QED
    BY <2>1, <2>2, <2>3
<1>3. Grows
  BY <1>1 DEF Grows
<1>4. CommandsIssued'
  BY CommandsKept DEF ControlInv, ServerKeeps
<1>5. TaskInStep'
  BY <1>1 DEF ControlInv, ServerKeeps, TaskInStep, StaysIssued, TaskTyped, Seqs
<1>6. RunsInOrder' /\ InstalledKnown' /\ VersionsKnown'
  BY <1>1 DEF ControlInv, RunsInOrder, InstalledKnown, VersionsKnown, HasHad
<1>7. StatusHolds'
  BY <1>1 DEF ControlInv, ServerKeeps, ShowsTruth, StatusHolds, Holds, HasHad, Release
<1> QED
  BY <1>2, <1>4, <1>5, <1>6, <1>7 DEF ControlInv, ServerKeeps

\* A step of the server that the agent sends nothing to.
LEMMA ServerReads ==
    ASSUME ControlInv, UNCHANGED agentVars, HandKept, Drawn(toServer', toServer, {})
    PROVE  MessagesHold'
<1>1. Grows
  BY DEF Grows, agentVars, stateVars, history
<1> QED
  BY <1>1, MessagesKept DEF ControlInv

\* The order of the commands, when the issued ones are the same.
LEMMA OrderKept ==
    ASSUME IssuedInOrder, \A s \in Seqs : status'[s] = "absent" <=> status[s] = "absent"
    PROVE  IssuedInOrder' /\ StaysIssued
BY DEF IssuedInOrder, StaysIssued

LEMMA ThreadNames ==
    /\ \A s \in Seqs : Deliver(s) \in Threads
    /\ \A s, k \in Seqs : Deliver(s) = Deliver(k) => s = k
    /\ \A c \in Conns : Reader(c) \in Threads /\ Grace(c) \in Threads
    /\ \A c \in Conns, s \in Seqs : Reader(c) # Deliver(s) /\ Grace(c) # Deliver(s)
BY DEF Threads, Deliver, Reader, Grace

\* A step of a thread.
LEMMA ThreadStep ==
    ASSUME ThreadTyped, ThreadsIssued, StaysIssued, NEW t \in Threads, NEW a,
           NEW b \in Places, NEW left \in SUBSET Seqs, Step(t, a, b, left),
           \A s \in left : status'[s] # "absent",
           a # "idle" \/ \A s \in Seqs : t # Deliver(s)
    PROVE  /\ thread' \in [Threads -> [at : Places, left : SUBSET Seqs]]
           /\ ThreadsIssued'
<1> DEFINE r == IF b = "idle" THEN IdleThread ELSE [at |-> b, left |-> left]
<1>1. /\ thread' = [thread EXCEPT ![t] = r] /\ thread[t].at = a
      /\ r \in [at : Places, left : SUBSET Seqs] /\ r.left \subseteq left
  BY DEF Step, IdleThread, Places
<1> HIDE DEF r
<1>2. thread' \in [Threads -> [at : Places, left : SUBSET Seqs]]
  BY <1>1 DEF ThreadTyped
<1>3. \A u \in Threads : thread'[u] = IF u = t THEN r ELSE thread[u]
  BY <1>1 DEF ThreadTyped
<1>4. ASSUME NEW u \in Threads, NEW s \in thread'[u].left PROVE status'[s] # "absent"
  <2>1. CASE u = t
    BY <2>1, <1>1, <1>3, <1>4
  <2>2. CASE u # t
    <3>1. s \in thread[u].left /\ s \in Seqs
      BY <2>2, <1>3, <1>4 DEF ThreadTyped
    <3> QED
      BY <3>1 DEF ThreadsIssued, StaysIssued
  <2> QED
    BY <2>1, <2>2
<1>5. ASSUME NEW s \in Seqs, thread'[Deliver(s)].at # "idle" PROVE status'[s] # "absent"
  <2>1. thread[Deliver(s)].at # "idle"
    BY <1>1, <1>3, <1>5, ThreadNames
  <2> QED
    BY <2>1 DEF ThreadsIssued, StaysIssued
<1> QED
  BY <1>2, <1>4, <1>5 DEF ThreadsIssued

\* Threads that are not touched.
LEMMA ThreadsKept ==
    ASSUME ControlInv, UNCHANGED <<thread, ack, cancelling, tombs>>, StaysIssued
    PROVE  ThreadTyped' /\ ThreadsIssued'
BY DEF ControlInv, ThreadTyped, ThreadsIssued, StaysIssued

LEMMA ThreadVarsKept ==
    ASSUME ControlInv, UNCHANGED <<threadVars, tombs>>, StaysIssued
    PROVE  ThreadTyped' /\ ThreadsIssued' /\ HandKept
<1>1. UNCHANGED <<thread, ack, cancelling, tombs>> /\ UNCHANGED hand
  BY DEF threadVars, readerVars
<1> QED
  BY <1>1, ThreadsKept, HandUntouched

\* A link that is not touched.
LEMMA LinkKept ==
    ASSUME ControlInv, UNCHANGED linkVars
    PROVE  /\ LinkTyped' /\ Drawn(toServer', toServer, {})
           /\ Drawn(toAgent', toAgent, {})
<1>1. UNCHANGED <<conns, linked, toAgent, toServer>>
  BY DEF linkVars
<1>2. toAgent \in Seq(Messages) /\ toServer \in Seq(Messages)
  BY DEF ControlInv, LinkTyped
<1>3. Drawn(toServer, toServer, {}) /\ Drawn(toAgent, toAgent, {})
  BY <1>2, DrawnFacts
<1>4. LinkTyped'
  BY <1>1 DEF ControlInv, LinkTyped
<1> QED
  BY <1>1, <1>3, <1>4

\* A message that is sent, or not.
LEMMA SendsFacts ==
    ASSUME ControlInv, NEW m \in Messages, Sends(m) \/ UNCHANGED toAgent,
           UNCHANGED <<conns, linked>>, Drawn(toServer', toServer, {})
    PROVE  LinkTyped' /\ Drawn(toAgent', toAgent, {m})
<1>1. toAgent \in Seq(Messages) /\ conns \in 0..MaxConns /\ linked \in BOOLEAN
  BY DEF ControlInv, LinkTyped
<1>2. Drawn(toAgent, toAgent, {m}) /\ Drawn(Append(toAgent, m), toAgent, {m})
  BY <1>1, DrawnFacts
<1>3. Drawn(toAgent', toAgent, {m})
  BY <1>2 DEF Sends
<1>4. toAgent' \in Seq(Messages) /\ toServer' \in Seq(Messages)
  BY <1>3 DEF Drawn
<1> QED
  BY <1>1, <1>3, <1>4 DEF LinkTyped

LEMMA CreateCommandInv ==
    ASSUME ControlInv, NEW s \in Seqs, CreateCommand(s)
    PROVE  ControlInv'
<1>1. /\ status[s] = "absent" /\ \A k \in 1..s - 1 : status[k] # "absent"
      /\ status' = [status EXCEPT ![s] = "pending"]
      /\ thread' = [thread EXCEPT ![Deliver(s)] = [at |-> "test", left |-> {s}]]
      /\ UNCHANGED <<tombs, watermark, control, hubVars, ack, hand, cancelling, agentVars,
                     linkVars, events>>
  BY DEF CreateCommand, readerVars
<1>2. \A k \in Seqs : status'[k] = IF k = s THEN "pending" ELSE status[k]
  BY <1>1 DEF ControlInv, StoreTyped
<1>3. StoreTyped' /\ HubTyped' /\ events' \in 0..MaxEvents
  <2>1. "pending" \in Statuses
    BY DEF Statuses, Open
  <2> QED
    BY <1>1, <2>1 DEF ControlInv, StoreTyped, HubTyped, hubVars
<1>4. StaysIssued /\ ShowsTruth
  BY <1>2 DEF StaysIssued, ShowsTruth, Holds
<1>5. IssuedInOrder'
  <2> SUFFICES ASSUME NEW n \in Seqs, NEW k \in Seqs, k < n, status'[n] # "absent"
               PROVE  status'[k] # "absent"
    BY DEF IssuedInOrder
  <2>1. CASE n = s
    <3>1. k \in 1..s - 1
      BY <2>1 DEF Seqs
    <3> QED
      BY <1>1, <1>2, <3>1
  <2>2. CASE n # s
    BY <1>2, <2>2 DEF ControlInv, IssuedInOrder
  <2> QED
    BY <2>1, <2>2
<1>6. ThreadTyped' /\ ThreadsIssued'
  <2> DEFINE r == [at |-> "test", left |-> {s}]
  <2>1. r \in [at : Places, left : SUBSET Seqs] /\ r.left = {s}
    BY DEF Places
  <2>2. thread' = [thread EXCEPT ![Deliver(s)] = r]
    BY <1>1
  <2> HIDE DEF r
  <2>3. ThreadTyped'
    <3>1. ThreadTyped /\ UNCHANGED <<tombs, ack, cancelling>>
      BY <1>1 DEF ControlInv
    <3>2. thread' \in [Threads -> [at : Places, left : SUBSET Seqs]]
      BY <2>1, <2>2, <3>1 DEF ThreadTyped
    <3> QED
      BY <3>1, <3>2 DEF ThreadTyped
  <2>4. ASSUME NEW t \in Threads, NEW k \in thread'[t].left PROVE status'[k] # "absent"
    <3>1. CASE t = Deliver(s)
      BY <1>2, <2>1, <2>2, <2>4, <3>1 DEF ControlInv, ThreadTyped
    <3>2. CASE t # Deliver(s)
      <4>1. k \in thread[t].left /\ k \in Seqs
        BY <2>2, <2>4, <3>2 DEF ControlInv, ThreadTyped
      <4> QED
        BY <1>4, <4>1 DEF ControlInv, ThreadsIssued, StaysIssued
    <3> QED
      BY <3>1, <3>2
  <2>5. ASSUME NEW k \in Seqs, thread'[Deliver(k)].at # "idle"
        PROVE  status'[k] # "absent"
    <3>1. CASE k = s
      BY <1>2, <3>1
    <3>2. CASE k # s
      <4>1. thread'[Deliver(k)] = thread[Deliver(k)]
        BY <2>2, <3>2, ThreadNames DEF ControlInv, ThreadTyped
      <4> QED
        BY <1>4, <2>5, <4>1 DEF ControlInv, ThreadsIssued, StaysIssued
    <3> QED
      BY <3>1, <3>2
  <2> QED
    BY <2>3, <2>4, <2>5 DEF ThreadsIssued
<1>7. ServerKeeps({})
  BY <1>1, <1>3, <1>4, <1>5, <1>6, LinkKept DEF ServerKeeps
<1> QED
  BY <1>1, <1>7, LinkKept, HandUntouched, ServerReads, ServerStep

LEMMA CancelCommandInv ==
    ASSUME ControlInv, NEW s \in Seqs, CancelCommand(s)
    PROVE  ControlInv'
<1>1. /\ tombs' = tombs \cup {s}
      /\ watermark' = Larger(watermark, ClosedPrefix(status, tombs'))
      /\ cancelling' = cancelling \cup {s}
      /\ events < MaxEvents /\ events' = events + 1
      /\ UNCHANGED <<status, control, hubVars, thread, ack, hand, agentVars, linkVars>>
  BY DEF CancelCommand, Event, readerVars
<1>2. watermark' \in 0..MaxSeq
  BY <1>1, ClosedPrefixType, LargerType DEF ControlInv, StoreTyped
<1>3. StoreTyped' /\ HubTyped' /\ ThreadTyped' /\ events' \in 0..MaxEvents
  BY <1>1, <1>2 DEF ControlInv, StoreTyped, HubTyped, ThreadTyped, hubVars
<1>4. StaysIssued /\ ShowsTruth /\ IssuedInOrder' /\ ThreadsIssued'
  BY <1>1 DEF ControlInv, StaysIssued, ShowsTruth, IssuedInOrder, ThreadsIssued
<1>5. ServerKeeps({})
  BY <1>1, <1>3, <1>4, LinkKept DEF ServerKeeps
<1> QED
  BY <1>1, <1>5, LinkKept, HandUntouched, ServerReads, ServerStep

LEMMA ResolveUnknownInv ==
    ASSUME ControlInv, NEW s \in Seqs, ResolveUnknown(s)
    PROVE  ControlInv'
<1>1. PICK r \in {"succeeded", "failed", "cancelled"} : status' = [status EXCEPT ![s] = r]
  BY DEF ResolveUnknown
<1>2. /\ status[s] = "unknown" /\ control' \in {"none", control}
      /\ UNCHANGED <<tombs, watermark, hubVars, threadVars, agentVars, linkVars, events>>
  BY DEF ResolveUnknown
<1>3. \A k \in Seqs : status'[k] = IF k = s THEN r ELSE status[k]
  BY <1>1 DEF ControlInv, StoreTyped
<1>4. StoreTyped' /\ HubTyped' /\ events' \in 0..MaxEvents
  <2>1. r \in Statuses
    BY DEF Statuses, Terminal, Outcomes
  <2> QED
    BY <1>1, <1>2, <2>1 DEF ControlInv, StoreTyped, HubTyped, hubVars, Controls
<1>5. records[s] = "unknown"
  BY <1>2 DEF ControlInv, StatusHolds, Holds
<1>6. StaysIssued /\ ShowsTruth /\ IssuedInOrder'
  BY <1>2, <1>3, <1>5 DEF ControlInv, StaysIssued, ShowsTruth, IssuedInOrder
<1>7. ServerKeeps({})
  BY <1>2, <1>4, <1>6, ThreadVarsKept, LinkKept DEF ServerKeeps
<1> QED
  BY <1>2, <1>6, <1>7, LinkKept, ThreadVarsKept, ServerReads, ServerStep

\* A step that leaves the store alone.
LEMMA StoreKept ==
    ASSUME ControlInv, UNCHANGED storeVars
    PROVE  /\ StoreTyped' /\ StaysIssued /\ ShowsTruth /\ IssuedInOrder'
           /\ UNCHANGED <<status, tombs, watermark, control>>
<1>1. UNCHANGED <<status, tombs, watermark, control>>
  BY DEF storeVars
<1> QED
  BY <1>1 DEF ControlInv, StoreTyped, StaysIssued, ShowsTruth, IssuedInOrder

LEMMA HubKept ==
    ASSUME ControlInv, UNCHANGED <<hubVars, events>>
    PROVE  HubTyped' /\ events' \in 0..MaxEvents
BY DEF ControlInv, HubTyped, hubVars

\* A step of a thread of the server that leaves the acks and the store alone.
LEMMA ThreadMoves ==
    ASSUME ControlInv, UNCHANGED <<tombs, cancelling>>, StaysIssued,
           ack' \in [Conns -> [mark : 0..MaxSeq, control : Controls]],
           NEW t \in Threads, NEW a,
           NEW b \in Places, NEW left \in SUBSET Seqs, Step(t, a, b, left),
           \A s \in left : status'[s] # "absent",
           a # "idle" \/ \A s \in Seqs : t # Deliver(s)
    PROVE  ThreadTyped' /\ ThreadsIssued'
<1>1. ThreadTyped /\ ThreadsIssued
  BY DEF ControlInv
<1>2. /\ thread' \in [Threads -> [at : Places, left : SUBSET Seqs]]
      /\ ThreadsIssued'
  BY <1>1, ThreadStep
<1>3. cancelling' \subseteq tombs'
  BY <1>1 DEF ThreadTyped
<1> QED
  BY <1>2, <1>3 DEF ThreadTyped

LEMMA TestDeliveryInv ==
    ASSUME ControlInv, NEW s \in Seqs, TestDelivery(s)
    PROVE  ControlInv'
<1> DEFINE b == CASE ~online -> "skip"
                  [] online /\ ready /\ control = "none" -> "send"
                  [] OTHER -> "idle"
<1>1. /\ Step(Deliver(s), "test", b, {s})
      /\ UNCHANGED <<storeVars, hubVars, ack, hand, cancelling, agentVars, linkVars, events>>
  BY DEF TestDelivery, readerVars
<1>2. b \in Places
  BY DEF Places
<1> HIDE DEF b
<1>3. StoreTyped' /\ StaysIssued /\ ShowsTruth /\ IssuedInOrder' /\ UNCHANGED <<status, tombs>>
  BY <1>1, StoreKept
<1>4. Deliver(s) \in Threads /\ thread[Deliver(s)].at = "test"
  BY <1>1, ThreadNames DEF Step
<1>5. status'[s] # "absent"
  BY <1>3, <1>4 DEF ControlInv, ThreadsIssued
<1>6. ThreadTyped' /\ ThreadsIssued'
  <2>1. ack' \in [Conns -> [mark : 0..MaxSeq, control : Controls]]
    BY <1>1 DEF ControlInv, ThreadTyped
  <2> QED
    BY <1>1, <1>2, <1>3, <1>4, <1>5, <2>1, ThreadMoves
<1>7. ServerKeeps({})
  BY <1>1, <1>3, <1>6, LinkKept, HubKept DEF ServerKeeps
<1> QED
  BY <1>1, <1>7, LinkKept, HandUntouched, ServerReads, ServerStep

LEMMA SkipOfflineInv ==
    ASSUME ControlInv, NEW s \in Seqs, SkipOffline(s)
    PROVE  ControlInv'
<1>1. /\ Step(Deliver(s), "skip", "idle", {}) /\ Transition(s, "offline_skipped")
      /\ UNCHANGED <<tombs, hubVars, ack, hand, cancelling, agentVars, linkVars, events>>
  BY DEF SkipOffline, readerVars
<1>2. /\ StoreTyped'
      /\ \A k \in Seqs : status'[k] = "absent" <=> status[k] = "absent"
      /\ \A k \in Seqs : status'[k] = status[k] \/ (k = s /\ status'[k] = "offline_skipped")
  BY <1>1, TransitionFacts DEF ControlInv, StoreTyped, Statuses, Terminal
<1>3. StaysIssued /\ IssuedInOrder' /\ ShowsTruth
  BY <1>2, OrderKept DEF ControlInv, ShowsTruth, Holds
<1>4. ThreadTyped' /\ ThreadsIssued'
  <2>1. ack' \in [Conns -> [mark : 0..MaxSeq, control : Controls]] /\ "idle" \in Places
    BY <1>1 DEF ControlInv, ThreadTyped, Places
  <2> QED
    BY <1>1, <1>3, <2>1, ThreadMoves, ThreadNames
<1>5. ServerKeeps({})
  BY <1>1, <1>2, <1>3, <1>4, LinkKept, HubKept DEF ServerKeeps
<1> QED
  BY <1>1, <1>5, LinkKept, HandUntouched, ServerReads, ServerStep

LEMMA ListPendingInv ==
    ASSUME ControlInv, NEW t \in Threads, ListPending(t)
    PROVE  ControlInv'
<1> DEFINE b == IF IsCurrent(t) /\ control = "none" /\ PendingDeliveries # {}
                THEN "next" ELSE "idle"
<1>1. /\ Step(t, "list", b, PendingDeliveries)
      /\ UNCHANGED <<storeVars, hubVars, ack, hand, cancelling, agentVars, linkVars, events>>
  BY DEF ListPending, readerVars
<1>2. b \in Places
  BY DEF Places
<1> HIDE DEF b
<1>3. StoreTyped' /\ StaysIssued /\ ShowsTruth /\ IssuedInOrder' /\ UNCHANGED <<status, tombs>>
  BY <1>1, StoreKept
<1>4. /\ PendingDeliveries \in SUBSET Seqs
      /\ \A s \in PendingDeliveries : status'[s] # "absent"
  BY <1>3 DEF PendingDeliveries, Open
<1>5. ThreadTyped' /\ ThreadsIssued'
  <2>1. ack' \in [Conns -> [mark : 0..MaxSeq, control : Controls]]
    BY <1>1 DEF ControlInv, ThreadTyped
  <2> QED
    BY <1>1, <1>2, <1>3, <1>4, <2>1, ThreadMoves
<1>6. ServerKeeps({})
  BY <1>1, <1>3, <1>5, LinkKept, HubKept DEF ServerKeeps
<1> QED
  BY <1>1, <1>6, LinkKept, HandUntouched, ServerReads, ServerStep

LEMMA TestNextInv ==
    ASSUME ControlInv, NEW t \in Threads, TestNext(t)
    PROVE  ControlInv'
<1> DEFINE b == IF IsCurrent(t) /\ ready THEN "send" ELSE "idle"
           left == thread[t].left
<1>1. /\ Step(t, "next", b, left)
      /\ UNCHANGED <<storeVars, hubVars, ack, hand, cancelling, agentVars, linkVars, events>>
  BY DEF TestNext, readerVars
<1>2. b \in Places
  BY DEF Places
<1>3. left \in SUBSET Seqs /\ \A s \in left : status[s] # "absent"
  BY DEF ControlInv, ThreadTyped, ThreadsIssued
<1> HIDE DEF b, left
<1>4. StoreTyped' /\ StaysIssued /\ ShowsTruth /\ IssuedInOrder' /\ UNCHANGED <<status, tombs>>
  BY <1>1, StoreKept
<1>5. ThreadTyped' /\ ThreadsIssued'
  <2>1. ack' \in [Conns -> [mark : 0..MaxSeq, control : Controls]]
    BY <1>1 DEF ControlInv, ThreadTyped
  <2> QED
    BY <1>1, <1>2, <1>3, <1>4, <2>1, ThreadMoves
<1>6. ServerKeeps({})
  BY <1>1, <1>4, <1>5, LinkKept, HubKept DEF ServerKeeps
<1> QED
  BY <1>1, <1>6, LinkKept, HandUntouched, ServerReads, ServerStep

LEMMA SendCommandInv ==
    ASSUME ControlInv, NEW t \in Threads, SendCommand(t)
    PROVE  ControlInv'
<1> DEFINE left == thread[t].left
           b == IF online THEN "mark" ELSE "idle"
<1>1. /\ Step(t, "send", b, left)
      /\ UNCHANGED <<storeVars, hubVars, ack, hand, cancelling, agentVars, conns, linked,
                     toServer, events>>
  BY DEF SendCommand, readerVars
<1>2. left \in SUBSET Seqs /\ \A k \in left : status[k] # "absent"
  BY DEF ControlInv, ThreadTyped, ThreadsIssued
<1>3. b \in Places
  BY DEF Places
<1>4. /\ StoreTyped' /\ StaysIssued /\ ShowsTruth /\ IssuedInOrder'
      /\ UNCHANGED <<status, tombs>>
  BY <1>1, StoreKept
<1>5. PICK M \in SUBSET Messages :
         /\ LinkTyped' /\ Drawn(toAgent', toAgent, M)
         /\ \A m \in M : m.type = "command" => status[m.seq] # "absent"
  <2>1. Drawn(toServer', toServer, {})
    BY <1>1, DrawnFacts DEF ControlInv, LinkTyped
  <2>2. CASE online
    <3> HIDE DEF left, b
    <3>0. PICK s \in Seqs : IsNext(t, s) /\ Sends([type |-> "command", seq |-> s])
      BY <2>2 DEF SendCommand
    <3>1. s \in left
      BY <3>0 DEF IsNext, left
    <3>2. PICK m \in Messages : m = [type |-> "command", seq |-> s]
      BY DEF Messages
    <3>4. m.seq = s
      BY <3>2
    <3>3. LinkTyped' /\ Drawn(toAgent', toAgent, {m})
      BY <1>1, <2>1, <3>0, <3>2, SendsFacts
    <3> QED
      BY <1>2, <3>1, <3>3, <3>4
  <2>3. CASE ~online
    <3>1. UNCHANGED toAgent
      BY <2>3 DEF SendCommand
    <3>2. LinkTyped' /\ Drawn(toAgent', toAgent, {})
      BY <1>1, <3>1, LinkKept DEF linkVars
    <3> QED
      BY <3>2
  <2> QED
    BY <2>2, <2>3
<1> HIDE DEF left, b
<1>6. ThreadTyped' /\ ThreadsIssued'
  <2>1. ack' \in [Conns -> [mark : 0..MaxSeq, control : Controls]]
    BY <1>1 DEF ControlInv, ThreadTyped
  <2> QED
    BY <1>1, <1>2, <1>3, <1>4, <2>1, ThreadMoves
<1>7. Drawn(toServer', toServer, {})
  BY <1>1, DrawnFacts DEF ControlInv, LinkTyped
<1>8. ServerKeeps(M)
  BY <1>1, <1>4, <1>5, <1>6, HubKept DEF ServerKeeps
<1> QED
  BY <1>1, <1>5, <1>7, <1>8, HandUntouched, ServerReads, ServerStep

LEMMA MarkSentInv ==
    ASSUME ControlInv, NEW t \in Threads, MarkSent(t)
    PROVE  ControlInv'
<1> DEFINE left == thread[t].left
<1>1. PICK s \in left :
         /\ Step(t, "mark", IF left = {s} THEN "idle" ELSE "next", left \ {s})
         /\ Transition(s, "dispatched")
         /\ UNCHANGED <<tombs, hubVars, ack, hand, cancelling, agentVars, linkVars, events>>
  BY DEF MarkSent, IsNext, readerVars
<1>2. left \in SUBSET Seqs /\ \A k \in left : status[k] # "absent"
  BY DEF ControlInv, ThreadTyped, ThreadsIssued
<1> DEFINE b == IF left = {s} THEN "idle" ELSE "next"
           rest == left \ {s}
<1>3. b \in Places /\ rest \in SUBSET Seqs /\ rest \subseteq left
  BY <1>2 DEF Places
<1>4. Step(t, "mark", b, rest)
  BY <1>1
<1> HIDE DEF left, b, rest
<1>5. /\ StoreTyped'
      /\ \A k \in Seqs : status'[k] = "absent" <=> status[k] = "absent"
      /\ \A k \in Seqs : status'[k] = status[k] \/ (k = s /\ status'[k] = "dispatched")
  <2>1. s \in Seqs /\ "dispatched" \in Statuses /\ StoreTyped
    BY <1>2 DEF ControlInv, Statuses, Open
  <2> QED
    BY <1>1, <2>1, TransitionFacts DEF StoreTyped
<1>6. StaysIssued /\ IssuedInOrder' /\ ShowsTruth
  BY <1>5, OrderKept DEF ControlInv, ShowsTruth, Holds
<1>7. \A k \in rest : status'[k] # "absent"
  BY <1>2, <1>3, <1>5
<1>8. ThreadTyped' /\ ThreadsIssued'
  <2>1. ack' \in [Conns -> [mark : 0..MaxSeq, control : Controls]]
    BY <1>1 DEF ControlInv, ThreadTyped
  <2> QED
    BY <1>1, <1>3, <1>4, <1>6, <1>7, <2>1, ThreadMoves
<1>9. ServerKeeps({})
  BY <1>1, <1>5, <1>6, <1>8, LinkKept, HubKept DEF ServerKeeps
<1> QED
  BY <1>1, <1>9, LinkKept, HandUntouched, ServerReads, ServerStep

LEMMA SendCancelInv ==
    ASSUME ControlInv, NEW s \in Seqs, SendCancel(s)
    PROVE  ControlInv'
<1> DEFINE m == [type |-> "cancel", seq |-> s]
<1>1. /\ cancelling' = cancelling \ {s}
      /\ Sends(m) \/ UNCHANGED toAgent
      /\ UNCHANGED <<storeVars, hubVars, thread, ack, hand, agentVars, conns, linked, toServer,
                     events>>
  BY DEF SendCancel, readerVars
<1>2. m \in Messages /\ m.type = "cancel"
  BY DEF Messages
<1> HIDE DEF m
<1>3. StoreTyped' /\ StaysIssued /\ ShowsTruth /\ IssuedInOrder' /\ UNCHANGED <<status, tombs>>
  BY <1>1, StoreKept
<1>4. ThreadTyped' /\ ThreadsIssued'
  BY <1>1, <1>3 DEF ControlInv, ThreadTyped, ThreadsIssued
<1>5. Drawn(toServer', toServer, {})
  BY <1>1, DrawnFacts DEF ControlInv, LinkTyped
<1>6. LinkTyped' /\ Drawn(toAgent', toAgent, {m})
  BY <1>1, <1>2, <1>5, SendsFacts
<1>7. ServerKeeps({m})
  BY <1>1, <1>2, <1>3, <1>4, <1>6, HubKept DEF ServerKeeps
<1> QED
  BY <1>1, <1>2, <1>5, <1>7, HandUntouched, ServerReads, ServerStep

LEMMA SendAckInv ==
    ASSUME ControlInv, NEW c \in Conns, SendAck(c)
    PROVE  ControlInv'
<1> DEFINE m == [type |-> "ack", mark |-> ack[c].mark, control |-> ack[c].control]
           b == IF ack[c].control = "none" THEN "list" ELSE "idle"
<1>1. /\ Step(Reader(c), "ack", b, {})
      /\ Sends(m) \/ UNCHANGED toAgent
      /\ ack' = [ack EXCEPT ![c] = NoAck]
      /\ UNCHANGED <<storeVars, hubVars, hand, cancelling, agentVars, conns, linked, toServer, events>>
  BY DEF SendAck
<1>2. m \in Messages /\ m.type = "ack"
  BY DEF ControlInv, ThreadTyped, Messages
<1>3. b \in Places
  BY DEF Places
<1> HIDE DEF m, b
<1>4. StoreTyped' /\ StaysIssued /\ ShowsTruth /\ IssuedInOrder' /\ UNCHANGED <<status, tombs>>
  BY <1>1, StoreKept
<1>5. ThreadTyped' /\ ThreadsIssued'
  <2>1. ack' \in [Conns -> [mark : 0..MaxSeq, control : Controls]]
    BY <1>1 DEF ControlInv, ThreadTyped, NoAck, Controls
  <2> QED
    BY <1>1, <1>3, <1>4, <2>1, ThreadMoves, ThreadNames
<1>6. Drawn(toServer', toServer, {})
  BY <1>1, DrawnFacts DEF ControlInv, LinkTyped
<1>7. LinkTyped' /\ Drawn(toAgent', toAgent, {m})
  BY <1>1, <1>2, <1>6, SendsFacts
<1>8. ServerKeeps({m})
  BY <1>1, <1>2, <1>4, <1>5, <1>7, HubKept DEF ServerKeeps
<1> QED
  BY <1>1, <1>2, <1>6, <1>8, HandUntouched, ServerReads, ServerStep

LEMMA GraceExpiresInv ==
    ASSUME ControlInv, NEW c \in Conns, GraceExpires(c)
    PROVE  ControlInv'
<1>1. /\ events < MaxEvents /\ events' = events + 1 /\ ready' = TRUE
      /\ Step(Grace(c), "armed", "list", {})
      /\ UNCHANGED <<storeVars, online, ack, hand, cancelling, agentVars, linkVars>>
  BY DEF GraceExpires, Event, readerVars
<1>2. StoreTyped' /\ StaysIssued /\ ShowsTruth /\ IssuedInOrder' /\ UNCHANGED <<status, tombs>>
  BY <1>1, StoreKept
<1>3. HubTyped' /\ events' \in 0..MaxEvents
  BY <1>1 DEF ControlInv, HubTyped
<1>4. ThreadTyped' /\ ThreadsIssued'
  <2>1. ack' \in [Conns -> [mark : 0..MaxSeq, control : Controls]] /\ "list" \in Places
    BY <1>1 DEF ControlInv, ThreadTyped, Places
  <2> QED
    BY <1>1, <1>2, <2>1, ThreadMoves, ThreadNames
<1>5. ServerKeeps({})
  BY <1>1, <1>2, <1>3, <1>4, LinkKept DEF ServerKeeps
<1> QED
  BY <1>1, <1>5, LinkKept, HandUntouched, ServerReads, ServerStep

LEMMA UnregisterInv ==
    ASSUME ControlInv, Unregister
    PROVE  ControlInv'
<1>1. /\ online' = FALSE /\ ready' = FALSE
      /\ UNCHANGED <<storeVars, threadVars, agentVars, linkVars, events>>
  BY DEF Unregister
<1>2. StoreTyped' /\ StaysIssued /\ ShowsTruth /\ IssuedInOrder' /\ UNCHANGED <<status, tombs>>
  BY <1>1, StoreKept
<1>3. HubTyped' /\ events' \in 0..MaxEvents
  BY <1>1 DEF ControlInv, HubTyped
<1>4. ServerKeeps({})
  BY <1>1, <1>2, <1>3, ThreadVarsKept, LinkKept DEF ServerKeeps
<1> QED
  BY <1>1, <1>2, <1>4, LinkKept, ThreadVarsKept, ServerReads, ServerStep

LEMMA TakeMessageInv ==
    ASSUME ControlInv, NEW c \in Conns, TakeMessage(c)
    PROVE  ControlInv'
<1>1. /\ toServer # <<>> /\ toServer' = Tail(toServer)
      /\ hand' = [hand EXCEPT ![c] = Head(toServer)]
      /\ UNCHANGED <<storeVars, hubVars, thread, ack, cancelling, agentVars, conns, linked,
                     toAgent, events>>
  BY DEF TakeMessage
<1>2. StoreTyped' /\ StaysIssued /\ ShowsTruth /\ IssuedInOrder' /\ UNCHANGED <<status, tombs>>
  BY <1>1, StoreKept
<1>3. ThreadTyped' /\ ThreadsIssued'
  BY <1>1, <1>2, ThreadsKept
<1>4. /\ Drawn(toServer', toServer, {}) /\ Drawn(toAgent', toAgent, {})
      /\ LinkTyped'
  <2>1. Drawn(toServer', toServer, {}) /\ Drawn(toAgent', toAgent, {})
    BY <1>1, DrawnFacts DEF ControlInv, LinkTyped
  <2> QED
    BY <1>1, <2>1 DEF ControlInv, LinkTyped, Drawn
<1>5. HandKept
  BY <1>1 DEF HandKept
<1>6. ServerKeeps({})
  BY <1>1, <1>2, <1>3, <1>4, HubKept DEF ServerKeeps
<1> QED
  BY <1>1, <1>4, <1>5, <1>6, ServerReads, ServerStep

\* The message that a read loop handles is true.
LEMMA HeldFacts ==
    ASSUME ControlInv, NEW c \in Conns, NEW kind, kind # "none", Handles(c, kind)
    PROVE  /\ hand[c] \in Messages /\ hand[c].type = kind /\ MessageHolds(hand[c])
           /\ HandKept
<1>1. hand[c].type = kind /\ hand' = [hand EXCEPT ![c] = NoMessage]
  BY DEF Handles
<1>2. hand[c] \in Messages \cup {NoMessage} /\ MessageHolds(hand[c])
  BY DEF ControlInv, MessagesHold, HandTyped
<1>3. NoMessage.type = "none"
  BY DEF NoMessage
<1>4. HandKept
  BY <1>1 DEF HandKept
<1> QED
  BY <1>1, <1>2, <1>3, <1>4

LEMMA ReconciledType ==
    ASSUME StoreTyped, NEW w \in 0..MaxSeq
    PROVE  Reconciled(w) \in 0..MaxSeq
<1>1. Larger(w, ClosedPrefix(status, tombs)) \in 0..MaxSeq
  BY ClosedPrefixType, LargerType
<1> QED
  BY <1>1, LargerType DEF Reconciled, StoreTyped

\* The records of the agent that the server takes over are true.
LEMMA BackFilledFacts ==
    ASSUME StoreTyped, NEW recs \in [Seqs -> Outcomes \cup {"none", "accepted"}],
           \A s \in Seqs : Holds(s, recs[s]), status' = BackFilled(recs)
    PROVE  /\ status' \in [Seqs -> Statuses] /\ ShowsTruth
           /\ \A s \in Seqs : status'[s] = "absent" <=> status[s] = "absent"
<1>1. \A s \in Seqs :
         \/ status'[s] = status[s]
         \/ status'[s] = recs[s] /\ recs[s] # "none" /\ status[s] # "absent"
  BY DEF BackFilled
<1>2. \A s \in Seqs : recs[s] # "none" => recs[s] \in Statuses /\ recs[s] # "absent"
  BY DEF Outcomes, Statuses, Terminal
<1>3. \A s \in Seqs : status'[s] \in Statuses
  BY <1>1, <1>2 DEF StoreTyped
<1>4. status' \in [Seqs -> Statuses]
  BY <1>3 DEF BackFilled
<1> QED
  BY <1>1, <1>2, <1>4 DEF ShowsTruth

LEMMA HandleHandshakeInv ==
    ASSUME ControlInv, NEW c \in Conns, HandleHandshake(c)
    PROVE  ControlInv'
<1>1. /\ HandKept
      /\ \E m \in Messages : m = hand[c] /\ m.type = "handshake" /\ MessageHolds(m)
  BY HeldFacts DEF HandleHandshake
<1>2. PICK m \in Messages : m = hand[c] /\ m.type = "handshake" /\ MessageHolds(m)
  BY <1>1
<1>3. /\ watermark' = IF m.control = "quarantined" THEN watermark ELSE Reconciled(m.mark)
      /\ status' = BackFilled(m.records)
      /\ control' \in {"blocked", "quarantined", control}
      /\ \/ /\ ready' = TRUE
            /\ ack' = [ack EXCEPT ![c] = [mark |-> watermark', control |-> control']]
            /\ Step(Reader(c), "idle", "ack", {})
         \/ UNCHANGED <<ready, ack, thread>>
      /\ UNCHANGED <<tombs, online, cancelling, agentVars, linkVars, events>>
  BY <1>2 DEF HandleHandshake
<1>4. /\ m.mark \in 0..MaxSeq /\ m.records \in [Seqs -> Outcomes \cup {"none", "accepted"}]
      /\ \A s \in Seqs : Holds(s, m.records[s])
  BY <1>2, MessageFacts DEF MessageHolds
<1>5. /\ status' \in [Seqs -> Statuses] /\ ShowsTruth
      /\ \A s \in Seqs : status'[s] = "absent" <=> status[s] = "absent"
  BY <1>3, <1>4, BackFilledFacts DEF ControlInv
<1>6. watermark' \in 0..MaxSeq /\ control' \in Controls
  BY <1>3, <1>4, ReconciledType DEF ControlInv, StoreTyped, Controls
<1>7. StoreTyped' /\ events' \in 0..MaxEvents
  BY <1>3, <1>5, <1>6 DEF ControlInv, StoreTyped
<1>8. HubTyped'
  BY <1>3 DEF ControlInv, HubTyped
<1>9. StaysIssued /\ IssuedInOrder'
  BY <1>5, OrderKept DEF ControlInv
<1>10. ThreadTyped' /\ ThreadsIssued'
  <2>1. CASE UNCHANGED <<ready, ack, thread>>
    BY <1>3, <1>9, <2>1, ThreadsKept
  <2>2. CASE /\ ack' = [ack EXCEPT ![c] = [mark |-> watermark', control |-> control']]
             /\ Step(Reader(c), "idle", "ack", {})
    <3>1. "ack" \in Places
      BY DEF Places
    <3>2. ack' \in [Conns -> [mark : 0..MaxSeq, control : Controls]]
      BY <1>6, <2>2 DEF ControlInv, ThreadTyped
    <3> QED
      BY <1>3, <1>9, <2>2, <3>1, <3>2, ThreadMoves, ThreadNames
  <2> QED
    BY <1>3, <2>1, <2>2
<1>11. ServerKeeps({})
  BY <1>3, <1>5, <1>7, <1>8, <1>9, <1>10, LinkKept DEF ServerKeeps
<1> QED
  BY <1>1, <1>3, <1>11, LinkKept, ServerReads, ServerStep

LEMMA HandleStatusInv ==
    ASSUME ControlInv, NEW c \in Conns, HandleStatus(c)
    PROVE  ControlInv'
<1>1. /\ HandKept
      /\ \E m \in Messages : m = hand[c] /\ m.type = "status" /\ MessageHolds(m)
  BY HeldFacts DEF HandleStatus
<1>2. PICK m \in Messages : m = hand[c] /\ m.type = "status" /\ MessageHolds(m)
  BY <1>1
<1>3. /\ Transition(m.seq, m.status)
      /\ UNCHANGED <<tombs, hubVars, thread, ack, cancelling, agentVars, linkVars, events>>
  BY <1>2 DEF HandleStatus
<1>4. m.seq \in Seqs /\ m.status \in Statuses /\ Holds(m.seq, m.status)
  BY <1>2, MessageFacts DEF MessageHolds
<1>5. /\ StoreTyped'
      /\ \A k \in Seqs : status'[k] = "absent" <=> status[k] = "absent"
      /\ \A k \in Seqs : status'[k] = status[k] \/ (k = m.seq /\ status'[k] = m.status)
  BY <1>3, <1>4, TransitionFacts DEF ControlInv, StoreTyped
<1>6. StaysIssued /\ IssuedInOrder' /\ ShowsTruth
  BY <1>4, <1>5, OrderKept DEF ControlInv, ShowsTruth
<1>7. ServerKeeps({})
  BY <1>3, <1>5, <1>6, ThreadsKept, LinkKept, HubKept DEF ServerKeeps
<1> QED
  BY <1>1, <1>3, <1>7, LinkKept, ServerReads, ServerStep

\* A read loop or a grace timer that is put in a place, with what it has left.
LEMMA ThreadsMarked ==
    ASSUME ControlInv, StaysIssued, NEW t \in Threads, NEW b \in Places,
           thread' = [thread EXCEPT ![t].at = b], \A s \in Seqs : t # Deliver(s),
           UNCHANGED <<tombs, ack, cancelling>>
    PROVE  ThreadTyped' /\ ThreadsIssued'
<1>1. ThreadTyped /\ ThreadsIssued
  BY DEF ControlInv
<1>2. \A u \in Threads : /\ thread'[u].left = thread[u].left
                         /\ u # t => thread'[u] = thread[u]
  BY <1>1 DEF ThreadTyped
<1>3. ThreadTyped'
  BY <1>1 DEF ThreadTyped
<1>4. ThreadsIssued'
  BY <1>1, <1>2, ThreadNames DEF ThreadsIssued, StaysIssued, ThreadTyped
<1> QED
  BY <1>3, <1>4

LEMMA HandleGapInv ==
    ASSUME ControlInv, NEW c \in Conns, HandleGap(c)
    PROVE  ControlInv'
<1>1. /\ HandKept
      /\ \E m \in Messages : m = hand[c] /\ m.type = "gap" /\ MessageHolds(m)
  BY HeldFacts DEF HandleGap
<1>2. PICK m \in Messages : m = hand[c] /\ m.type = "gap" /\ MessageHolds(m)
  BY <1>1
<1>3. /\ watermark' = Reconciled(m.mark)
      /\ thread' = [thread EXCEPT ![Reader(c)].at = AfterGap]
      /\ UNCHANGED <<status, tombs, control, hubVars, ack, cancelling, agentVars, linkVars,
                     events>>
  BY <1>2 DEF HandleGap
<1>4. watermark' \in 0..MaxSeq
  BY <1>2, <1>3, MessageFacts, ReconciledType DEF ControlInv
<1>5. StoreTyped' /\ StaysIssued /\ ShowsTruth /\ IssuedInOrder'
  BY <1>3, <1>4 DEF ControlInv, StoreTyped, StaysIssued, ShowsTruth, IssuedInOrder
<1>6. ThreadTyped' /\ ThreadsIssued'
  <2>1. Reader(c) \in Threads /\ \A s \in Seqs : Reader(c) # Deliver(s)
    BY ThreadNames
  <2>2. AfterGap \in Places
    BY DEF AfterGap, Places
  <2>3. UNCHANGED <<tombs, ack, cancelling>>
    BY <1>3
  <2> QED
    BY <1>3, <1>5, <2>1, <2>2, <2>3, ThreadsMarked
<1>7. ServerKeeps({})
  BY <1>3, <1>5, <1>6, LinkKept, HubKept DEF ServerKeeps
<1> QED
  BY <1>1, <1>3, <1>7, LinkKept, ServerReads, ServerStep

\* The targets that the version in the metrics ends.
LEMMA MetricsFacts ==
    ASSUME ControlInv, NEW c \in Conns, HandleMetrics(c)
    PROVE  \E ended \in SUBSET Seqs :
               /\ \A s \in ended : /\ status[s] \in {"dispatched", "accepted"}
                                   /\ HasHad(Release(s))
               /\ status' = [s \in Seqs |-> IF s \in ended THEN "succeeded" ELSE status[s]]
               /\ watermark' \in {watermark, Larger(watermark, ClosedPrefix(status', tombs))}
               /\ finalized' = finalized \cup ended
               /\ HandKept
               /\ UNCHANGED <<tombs, control, hubVars, thread, ack, cancelling, stateVars,
                              taskVars, versionVars, ran, installed, busy, aborted,
                              linkVars, events>>
<1>1. hand[c].type = "metrics" /\ MessageHolds(hand[c]) /\ HandKept
  BY HeldFacts DEF HandleMetrics
<1>2. PICK v : v = hand[c].version /\ HasHad(v)
  BY <1>1 DEF MessageHolds
<1>3. PICK ended \in SUBSET Seqs :
         ended = {s \in Seqs : /\ status[s] \in {"dispatched", "accepted"}
                               /\ Release(s) = v}
  OBVIOUS
<1>4. /\ status' = [s \in Seqs |-> IF s \in ended THEN "succeeded" ELSE status[s]]
      /\ watermark' \in {watermark, Larger(watermark, ClosedPrefix(status', tombs))}
      /\ finalized' = finalized \cup ended
      /\ UNCHANGED <<tombs, control, hubVars, thread, ack, cancelling, stateVars, taskVars,
                     versionVars, ran, installed, busy, aborted, linkVars, events>>
  BY <1>2, <1>3 DEF HandleMetrics
<1>5. \A s \in ended : status[s] \in {"dispatched", "accepted"} /\ HasHad(Release(s))
  BY <1>2, <1>3
<1> QED
  BY <1>1, <1>4, <1>5

LEMMA HandleMetricsInv ==
    ASSUME ControlInv, NEW c \in Conns, HandleMetrics(c)
    PROVE  ControlInv'
<1>1. PICK ended \in SUBSET Seqs :
         /\ \A s \in ended : /\ status[s] \in {"dispatched", "accepted"}
                             /\ HasHad(Release(s))
         /\ status' = [s \in Seqs |-> IF s \in ended THEN "succeeded" ELSE status[s]]
         /\ watermark' \in {watermark, Larger(watermark, ClosedPrefix(status', tombs))}
         /\ finalized' = finalized \cup ended
         /\ HandKept
         /\ UNCHANGED <<tombs, control, hubVars, thread, ack, cancelling, stateVars,
                        taskVars, versionVars, ran, installed, busy, aborted,
                        linkVars, events>>
  BY MetricsFacts
<1>2. /\ UNCHANGED <<bound, mark, block, records, task, stage, taskConn, file, version>>
      /\ intent' = intent
  BY <1>1 DEF stateVars, taskVars, versionVars
<1>3. \A s \in Seqs : status'[s] = "absent" <=> status[s] = "absent"
  BY <1>1 DEF ControlInv, StoreTyped
<1>4. StoreTyped'
  <2>1. status' \in [Seqs -> Statuses]
    BY <1>1 DEF ControlInv, StoreTyped, Statuses, Terminal, Outcomes
  <2>2. watermark' \in 0..MaxSeq
    BY <1>1, ClosedPrefixType, LargerType DEF ControlInv, StoreTyped
  <2> QED
    BY <1>1, <2>1, <2>2 DEF ControlInv, StoreTyped
<1>5. StaysIssued /\ IssuedInOrder'
  BY <1>3, OrderKept DEF ControlInv
<1>6. ThreadTyped' /\ ThreadsIssued'
  BY <1>1, <1>5, ThreadsKept
<1>7. HubTyped' /\ events' \in 0..MaxEvents
  BY <1>1, HubKept
<1>8. LinkTyped' /\ Drawn(toServer', toServer, {}) /\ Drawn(toAgent', toAgent, {})
  BY <1>1, LinkKept
<1>9. StateTyped'
  BY <1>2 DEF ControlInv, StateTyped
<1>10. TaskTyped'
  BY <1>2 DEF ControlInv, TaskTyped
<1>11. HistoryTyped' /\ Grows
  BY <1>1, <1>2 DEF ControlInv, HistoryTyped, Grows
<1>12. CommandsIssued'
  BY <1>5, <1>8, CommandsKept DEF ControlInv
<1>13. TaskInStep'
  BY <1>2, <1>3 DEF ControlInv, TaskInStep, TaskTyped, Seqs
<1>14. RunsInOrder' /\ InstalledKnown' /\ VersionsKnown'
  BY <1>1, <1>2 DEF ControlInv, RunsInOrder, InstalledKnown, VersionsKnown, HasHad
<1>15. MessagesHold'
  BY <1>1, <1>8, <1>11, MessagesKept DEF ControlInv
<1>16. StatusHolds'
  <2> SUFFICES ASSUME NEW s \in Seqs, records'[s] # "unknown"
               PROVE  Holds(s, status[s])'
    BY DEF StatusHolds
  <2>1. PICK v : v = status'[s]
    OBVIOUS
  <2>2. CASE s \in ended
    <3>1. v = "succeeded" /\ s \in finalized' /\ HasHad(Release(s))
      BY <1>1, <2>1, <2>2
    <3>2. HasHad(Release(s))'
      BY <1>1, <3>1 DEF HasHad, Release
    <3>3. Holds(s, v)'
      BY <3>1, <3>2 DEF Holds
    <3> QED
      BY <2>1, <3>3
  <2>3. CASE s \notin ended
    <3>1. v = status[s] /\ records[s] # "unknown"
      BY <1>1, <1>2, <2>1, <2>3
    <3>2. Holds(s, v)
      BY <3>1 DEF ControlInv, StatusHolds
    <3>3. Holds(s, v)'
      BY <1>11, <3>2, HoldsKept
    <3> QED
      BY <2>1, <3>3
  <2> QED
    BY <2>2, <2>3
<1> QED
  BY <1>4, <1>5, <1>6, <1>7, <1>8, <1>9, <1>10, <1>11, <1>12, <1>13, <1>14, <1>15, <1>16
     DEF ControlInv

LEMMA BreakFacts ==
    ASSUME ControlInv, Break
    PROVE  /\ LinkTyped' /\ Drawn(toServer', toServer, {})
           /\ Drawn(toAgent', toAgent, {})
<1>1. toAgent \in Seq(Messages) /\ toServer \in Seq(Messages) /\ conns \in 0..MaxConns
  BY DEF ControlInv, LinkTyped
<1>2. PICK n \in 0..Len(toServer) : toServer' = SubSeq(toServer, 1, n)
  BY DEF Break
<1>3. Drawn(toServer', toServer, {})
  BY <1>1, <1>2, DrawnFacts
<1>4. Drawn(toAgent', toAgent, {})
  BY <1>1, DrawnFacts DEF Break
<1> QED
  BY <1>1, <1>3, <1>4 DEF Break, LinkTyped, Drawn

LEMMA BreakConnectionInv ==
    ASSUME ControlInv, BreakConnection
    PROVE  ControlInv'
<1>1. /\ events < MaxEvents /\ events' = events + 1 /\ Break
      /\ UNCHANGED <<storeVars, hubVars, threadVars, agentVars>>
  BY DEF BreakConnection, Event, serverVars
<1>2. StoreTyped' /\ StaysIssued /\ ShowsTruth /\ IssuedInOrder' /\ UNCHANGED <<status, tombs>>
  BY <1>1, StoreKept
<1>3. HubTyped' /\ events' \in 0..MaxEvents
  BY <1>1 DEF ControlInv, HubTyped, hubVars
<1>4. ServerKeeps({})
  BY <1>1, <1>2, <1>3, ThreadVarsKept, BreakFacts DEF ServerKeeps
<1> QED
  BY <1>1, <1>2, <1>4, BreakFacts, ThreadVarsKept, ServerReads, ServerStep

LEMMA ConnectInv ==
    ASSUME ControlInv, Connect
    PROVE  ControlInv'
<1> DEFINE m == [type |-> "handshake", mark |-> mark, control |-> block,
                 records |-> records]
<1>1. /\ conns < MaxConns /\ conns' = conns + 1
      /\ linked' = TRUE /\ online' = TRUE /\ ready' = FALSE
      /\ thread' = [thread EXCEPT ![Grace(conns + 1)].at = "armed"]
      /\ toAgent' = <<>> /\ toServer' = <<m>>
      /\ UNCHANGED <<storeVars, ack, hand, cancelling, agentVars, events>>
  BY DEF Connect, readerVars
<1>2. m \in Messages
  BY DEF ControlInv, StateTyped, Messages
<1>3. MessageHolds(m)
  <2>1. \A s \in Seqs : Holds(s, records[s])
    BY DEF ControlInv, InstalledKnown, Holds
  <2> QED
    BY <2>1 DEF MessageHolds
<1>4. m.type = "handshake"
  OBVIOUS
<1>5. PICK n \in Messages : n = m
  BY <1>2
<1> HIDE DEF m
<1>6. StoreTyped' /\ StaysIssued /\ ShowsTruth /\ IssuedInOrder' /\ UNCHANGED <<status, tombs>>
  BY <1>1, StoreKept
<1>7. HubTyped' /\ events' \in 0..MaxEvents
  BY <1>1 DEF ControlInv, HubTyped
<1>8. conns + 1 \in Conns /\ conns' \in 0..MaxConns
  BY <1>1 DEF ControlInv, LinkTyped, Conns
<1>9. ThreadTyped' /\ ThreadsIssued'
  <2>1. PICK t \in Threads : t = Grace(conns + 1) /\ \A s \in Seqs : t # Deliver(s)
    BY <1>8, ThreadNames
  <2>2. thread' = [thread EXCEPT ![t].at = "armed"]
    BY <1>1, <2>1
  <2>3. "armed" \in Places
    BY DEF Places
  <2> QED
    BY <1>1, <1>6, <2>1, <2>2, <2>3, ThreadsMarked
<1>10. /\ Drawn(toServer', toServer, {n}) /\ Drawn(toAgent', toAgent, {n})
       /\ LinkTyped'
  <2>1. Drawn(toServer', toServer, {n}) /\ Drawn(toAgent', toAgent, {n})
    BY <1>1, <1>5, DrawnFacts DEF ControlInv, LinkTyped
  <2> QED
    BY <1>1, <1>8, <2>1 DEF LinkTyped, Drawn
<1>11. ServerKeeps({n})
  BY <1>1, <1>4, <1>5, <1>6, <1>7, <1>9, <1>10 DEF ServerKeeps
<1>12. MessagesHold'
  <2>1. Grows
    BY <1>1 DEF Grows, agentVars, stateVars, history
  <2>2. MessageHolds(n)'
    BY <1>3, <1>5, <2>1, MessageHoldsKept
  <2> QED
    BY <1>1, <1>10, <2>1, <2>2, HandUntouched, MessagesKept DEF ControlInv
<1> QED
  BY <1>11, <1>12, ServerStep

LEMMA RestartServerInv ==
    ASSUME ControlInv, RestartServer
    PROVE  ControlInv'
<1>1. /\ events < MaxEvents /\ events' = events + 1
      /\ linked' = FALSE /\ toAgent' = <<>> /\ toServer' = <<>>
      /\ online' = FALSE /\ ready' = FALSE
      /\ thread' = [t \in Threads |-> IdleThread]
      /\ ack' = [c \in Conns |-> NoAck]
      /\ hand' = [c \in Conns |-> NoMessage]
      /\ cancelling' = {}
      /\ UNCHANGED <<storeVars, agentVars, conns>>
  BY DEF RestartServer, Event
<1>2. StoreTyped' /\ StaysIssued /\ ShowsTruth /\ IssuedInOrder' /\ UNCHANGED <<status, tombs>>
  BY <1>1, StoreKept
<1>3. HubTyped' /\ events' \in 0..MaxEvents
  <2>1. HubTyped'
    BY <1>1 DEF HubTyped
  <2>2. events \in 0..MaxEvents
    BY DEF ControlInv
  <2> QED
    BY <1>1, <2>1, <2>2
<1>4. ThreadTyped' /\ ThreadsIssued'
  <2>1. IdleThread \in [at : Places, left : SUBSET Seqs] /\ IdleThread.left = {}
        /\ IdleThread.at = "idle"
    BY DEF IdleThread, Places
  <2>2. NoAck \in [mark : 0..MaxSeq, control : Controls]
    BY DEF NoAck, Controls
  <2>3. \A t \in Threads : thread'[t].left = {} /\ thread'[t].at = "idle"
    BY <1>1, <2>1
  <2>4. ThreadsIssued'
    BY <2>3, ThreadNames DEF ThreadsIssued
  <2>5. thread' \in [Threads -> [at : Places, left : SUBSET Seqs]]
    BY <1>1, <2>1
  <2>6. ack' \in [Conns -> [mark : 0..MaxSeq, control : Controls]]
    BY <1>1, <2>2
  <2>7. cancelling' \subseteq tombs'
    BY <1>1
  <2> QED
    BY <2>4, <2>5, <2>6, <2>7 DEF ThreadTyped
<1>5. /\ LinkTyped' /\ Drawn(toServer', toServer, {})
      /\ Drawn(toAgent', toAgent, {})
  <2>1. toAgent \in Seq(Messages) /\ toServer \in Seq(Messages) /\ conns' \in 0..MaxConns
    BY <1>1 DEF ControlInv, LinkTyped
  <2>2. Drawn(toServer', toServer, {}) /\ Drawn(toAgent', toAgent, {})
    BY <1>1, <2>1, DrawnFacts
  <2> QED
    BY <1>1, <2>1, <2>2 DEF LinkTyped, Drawn
<1>6. ServerKeeps({})
  BY <1>1, <1>2, <1>3, <1>4, <1>5 DEF ServerKeeps
<1>7. HandKept
  BY <1>1 DEF HandKept
<1> QED
  BY <1>1, <1>5, <1>6, <1>7, ServerReads, ServerStep

-----------------------------------------------------------------------------
(* The agent.                                                              *)

\* A step of the agent leaves the server alone, keeps its own state in order,
\* and reports what is true.
AgentKeeps(M) ==
    /\ UNCHANGED serverVars
    /\ LinkTyped' /\ StateTyped' /\ TaskTyped' /\ HistoryTyped' /\ events' \in 0..MaxEvents
    /\ Grows /\ TaskInStep' /\ RunsInOrder' /\ InstalledKnown' /\ VersionsKnown'
    /\ Drawn(toAgent', toAgent, {}) /\ Drawn(toServer', toServer, M)
    /\ \A m \in M : MessageHolds(m)'

LEMMA ServerUntouched ==
    ASSUME ControlInv, UNCHANGED serverVars
    PROVE  /\ StoreTyped' /\ HubTyped' /\ ThreadTyped'
           /\ IssuedInOrder' /\ ThreadsIssued' /\ StaysIssued /\ UNCHANGED status
           /\ HandKept
<1>1. /\ UNCHANGED <<storeVars, hubVars, threadVars>>
      /\ UNCHANGED <<online, ready>>
  BY DEF serverVars, hubVars
<1>2. /\ StoreTyped' /\ StaysIssued /\ IssuedInOrder'
      /\ UNCHANGED <<status, tombs, watermark, control>>
  BY <1>1, StoreKept
<1>3. ThreadTyped' /\ ThreadsIssued' /\ HandKept
  BY <1>1, <1>2, ThreadVarsKept
<1> QED
  BY <1>1, <1>2, <1>3 DEF ControlInv, HubTyped

LEMMA AgentStep ==
    ASSUME ControlInv, NEW M \in SUBSET Messages, AgentKeeps(M)
    PROVE  ControlInv'
<1>1. /\ StoreTyped' /\ HubTyped' /\ ThreadTyped'
      /\ IssuedInOrder' /\ ThreadsIssued' /\ StaysIssued /\ UNCHANGED status
      /\ HandKept
  BY ServerUntouched DEF AgentKeeps
<1>2. CommandsIssued'
  BY <1>1, CommandsKept DEF ControlInv, AgentKeeps
<1>3. MessagesHold'
  BY <1>1, MessagesKept DEF ControlInv, AgentKeeps
<1>4. StatusHolds'
  <2> SUFFICES ASSUME NEW s \in Seqs
               PROVE  records'[s] = "unknown" \/ Holds(s, status[s])'
    BY DEF StatusHolds
  <2>1. CASE records[s] = "unknown"
    BY <2>1 DEF AgentKeeps, Grows
  <2>2. CASE Holds(s, status[s])
    <3>1. PICK v : v = status[s] /\ v = status'[s]
      BY <1>1
    <3>2. Holds(s, v)'
      BY <2>2, <3>1, HoldsKept DEF AgentKeeps
    <3> QED
      BY <3>1, <3>2
  <2> QED
    BY <2>1, <2>2 DEF ControlInv, StatusHolds
<1> QED
  BY <1>1, <1>2, <1>3, <1>4 DEF ControlInv, AgentKeeps

\* A message of the server that the agent takes.
LEMMA TakesFacts ==
    ASSUME ControlInv, NEW kind, Takes(kind), UNCHANGED <<conns, linked>>
    PROVE  /\ toAgent # <<>> /\ Head(toAgent) \in Messages /\ Head(toAgent).type = kind
           /\ Drawn(toAgent', toAgent, {}) /\ toAgent' \in Seq(Messages)
           /\ kind = "command" => status[Head(toAgent).seq] # "absent"
<1>1. toAgent \in Seq(Messages) /\ CommandsIssued
  BY DEF ControlInv, LinkTyped
<1>2. toAgent # <<>> /\ Head(toAgent).type = kind /\ toAgent' = Tail(toAgent)
  BY DEF Takes
<1>3. /\ Head(toAgent) \in Messages /\ Head(toAgent) = toAgent[1]
      /\ Drawn(toAgent', toAgent, {})
  BY <1>1, <1>2, DrawnFacts
<1>4. 1 \in 1..Len(toAgent)
  BY <1>1, <1>2
<1>5. kind = "command" => status[Head(toAgent).seq] # "absent"
  BY <1>1, <1>2, <1>3, <1>4 DEF CommandsIssued
<1> QED
  BY <1>2, <1>3, <1>5 DEF Drawn

\* What the agent answers, if anything.
LEMMA AnswersFacts ==
    ASSUME ControlInv, NEW m \in Messages, NoAnswer \/ Answers(m),
           UNCHANGED <<conns, linked>>, toAgent' \in Seq(Messages)
    PROVE  LinkTyped' /\ Drawn(toServer', toServer, {m})
<1>1. toServer \in Seq(Messages) /\ conns \in 0..MaxConns /\ linked \in BOOLEAN
  BY DEF ControlInv, LinkTyped
<1>2. Drawn(toServer, toServer, {m}) /\ Drawn(Append(toServer, m), toServer, {m})
  BY <1>1, DrawnFacts
<1>3. Drawn(toServer', toServer, {m})
  BY <1>2 DEF NoAnswer, Answers
<1>4. toServer' \in Seq(Messages)
  BY <1>3 DEF Drawn
<1> QED
  BY <1>1, <1>3, <1>4 DEF LinkTyped

\* No answer.
LEMMA SilentFacts ==
    ASSUME ControlInv, UNCHANGED <<conns, linked, toServer>>, toAgent' \in Seq(Messages)
    PROVE  LinkTyped' /\ Drawn(toServer', toServer, {})
<1>1. toServer \in Seq(Messages)
  BY DEF ControlInv, LinkTyped
<1>2. Drawn(toServer', toServer, {})
  BY <1>1, DrawnFacts
<1> QED
  BY <1>2 DEF ControlInv, LinkTyped

LEMMA ReportFacts ==
    ASSUME NEW s \in Seqs, NEW v \in Statuses
    PROVE  /\ Report(s, v) \in Messages
           /\ Report(s, v).type = "status" /\ Report(s, v).seq = s /\ Report(s, v).status = v
BY DEF Report, Messages

\* The records are true.
LEMMA RecordsHold ==
    ASSUME ControlInv, NEW s \in Seqs
    PROVE  Holds(s, records[s])
BY DEF ControlInv, InstalledKnown, Holds

\* The agent's variables, where they are left alone.
LEMMA StateKept ==
    ASSUME ControlInv, UNCHANGED stateVars
    PROVE  StateTyped' /\ UNCHANGED <<bound, mark, block, records>>
BY DEF ControlInv, stateVars, StateTyped

\* The versions of an agent that starts no other binary.
LEMMA VersionsKept ==
    ASSUME ControlInv, Grows, UNCHANGED versionVars
    PROVE  VersionsKnown'
<1>1. UNCHANGED <<file, version>> /\ VersionsKnown
  BY DEF ControlInv, versionVars
<1>2. PICK f \in Versions, v \in Versions : f = file /\ v = version
  BY <1>1 DEF VersionsKnown
<1>3. HasHad(f)' /\ HasHad(v)'
  BY <1>1, <1>2, HadKept DEF VersionsKnown
<1> QED
  BY <1>1, <1>2, <1>3 DEF VersionsKnown

\* The version file is that of the binary in place, when it is written.
LEMMA PersistedKnown ==
    ASSUME ControlInv, file' \in Persisted, version' \in {version, file'}, UNCHANGED history
    PROVE  VersionsKnown'
<1>1. VersionsKnown /\ installed' = installed /\ (stage = "committed" => task \in installed)
  BY DEF ControlInv, InstalledKnown, history
<1>2. file' = file \/ (stage = "committed" /\ file' = Release(task))
  BY DEF Persisted
<1>3. file' \in Versions /\ HasHad(file')
  BY <1>1, <1>2 DEF VersionsKnown, Versions, Release, HasHad
<1>4. PICK f \in Versions, v \in Versions :
         f = file' /\ v = version' /\ HasHad(f) /\ HasHad(v)
  BY <1>1, <1>3 DEF VersionsKnown
<1>5. HasHad(f)' /\ HasHad(v)'
  BY <1>1, <1>4 DEF HasHad, Release
<1> QED
  BY <1>4, <1>5 DEF VersionsKnown

LEMMA HistoryKept ==
    ASSUME ControlInv, UNCHANGED history
    PROVE  HistoryTyped' /\ UNCHANGED <<ran, installed, busy, aborted, finalized>>
BY DEF ControlInv, history, HistoryTyped

LEMMA TaskKept ==
    ASSUME ControlInv, UNCHANGED taskVars
    PROVE  TaskTyped' /\ UNCHANGED <<task, stage, taskConn>>
<1>1. UNCHANGED <<task, stage, taskConn>> /\ intent' = intent
  BY DEF taskVars
<1> QED
  BY <1>1 DEF ControlInv, TaskTyped

\* The task and what ran, when the records and the task are the same and the
\* mark is not taken back.
LEMMA OrderOfRunsKept ==
    ASSUME ControlInv, UNCHANGED <<serverVars, records, task, stage, ran, installed, finalized>>,
           StateTyped', mark <= mark', busy \subseteq busy'
    PROVE  Grows /\ TaskInStep' /\ RunsInOrder' /\ InstalledKnown'
<1>1. UNCHANGED status
  BY ServerUntouched
<1>2. ran \in Seq(Seqs) /\ mark \in Nat /\ mark' \in Nat /\ RunsInOrder
  BY DEF ControlInv, HistoryTyped, StateTyped
<1>3. \A i \in 1..Len(ran) : ran[i] \in Nat
  BY <1>2 DEF Seqs
<1>4. RunsInOrder'
  BY <1>2, <1>3 DEF RunsInOrder
<1>5. TaskInStep' /\ InstalledKnown'
  BY <1>1 DEF ControlInv, TaskInStep, InstalledKnown
<1>6. Grows
  BY DEF Grows
<1> QED
  BY <1>4, <1>5, <1>6

LEMMA AdmitInv ==
    ASSUME ControlInv, NEW s \in Seqs, Admit(s)
    PROVE  ControlInv'
<1>1. /\ Takes("command") /\ s = Head(toAgent).seq
      /\ s = mark + 1 /\ records[s] = "none" /\ task = 0
      /\ task' = s /\ stage' = "admitted" /\ taskConn' = conns
      /\ records' = [records EXCEPT ![s] = "accepted"]
      /\ UNCHANGED <<serverVars, bound, mark, block, intent, versionVars, history, conns, linked,
                     toServer, events>>
  BY DEF Admit, Admits
<1>2. /\ Drawn(toAgent', toAgent, {}) /\ toAgent' \in Seq(Messages)
      /\ status[s] # "absent"
  BY <1>1, TakesFacts
<1>3. LinkTyped' /\ Drawn(toServer', toServer, {})
  BY <1>1, <1>2, SilentFacts
<1>4. UNCHANGED <<ran, installed, busy, finalized, status>> /\ HistoryTyped'
  BY <1>1, HistoryKept, ServerUntouched
<1>5. s \in Nat /\ s # 0 /\ s \in 0..MaxSeq
  BY DEF Seqs
<1>6. StateTyped' /\ TaskTyped' /\ events' \in 0..MaxEvents
  BY <1>1, <1>5 DEF ControlInv, StateTyped, TaskTyped, LinkTyped
<1>7. \A k \in Seqs : records'[k] = IF k = s THEN "accepted" ELSE records[k]
  BY <1>1 DEF ControlInv, StateTyped
<1>8. Grows
  BY <1>1, <1>4, <1>7 DEF Grows
<1>9. TaskInStep'
  BY <1>1, <1>2, <1>4, <1>5, <1>7 DEF TaskInStep
<1>10. RunsInOrder'
  <2>1. ran \in Seq(Seqs) /\ mark \in Nat /\ RunsInOrder
    BY DEF ControlInv, HistoryTyped, StateTyped
  <2>2. \A i \in 1..Len(ran) : ran[i] \in Nat /\ ran[i] # 0
    BY <2>1 DEF Seqs
  <2>3. \A i \in 1..Len(ran) : ran[i] <= mark
    BY <1>1, <2>1, <2>2 DEF RunsInOrder
  <2> QED
    BY <1>1, <1>4, <2>1, <2>2, <2>3 DEF RunsInOrder
<1>11. InstalledKnown'
  <2>1. /\ \A k \in installed : k \in Seqs /\ records[k] \in {"succeeded", "unknown"}
        /\ \A k \in Seqs : records[k] = "succeeded" => k \in installed
    BY <1>1, <1>5 DEF ControlInv, InstalledKnown, HistoryTyped, Seqs
  <2> QED
    BY <1>1, <1>4, <1>7, <2>1 DEF InstalledKnown
<1>12. AgentKeeps({})
  BY <1>1, <1>2, <1>3, <1>4, <1>6, <1>8, <1>9, <1>10, <1>11, VersionsKept
     DEF AgentKeeps
<1> QED
  BY <1>12, AgentStep

LEMMA QuarantineUnboundInv ==
    ASSUME ControlInv, NEW s \in Seqs, QuarantineUnbound(s)
    PROVE  ControlInv'
<1>1. /\ Takes("command") /\ block' = "quarantined"
      /\ UNCHANGED <<serverVars, bound, mark, records, taskVars, versionVars, history,
                     conns, linked, toServer, events>>
  BY DEF QuarantineUnbound
<1>2. Drawn(toAgent', toAgent, {}) /\ toAgent' \in Seq(Messages)
  BY <1>1, TakesFacts
<1>3. LinkTyped' /\ Drawn(toServer', toServer, {})
  BY <1>1, <1>2, SilentFacts
<1>4. /\ UNCHANGED <<ran, installed, busy, finalized, task, stage>>
      /\ HistoryTyped' /\ TaskTyped'
  BY <1>1, HistoryKept, TaskKept
<1>5. StateTyped' /\ events' \in 0..MaxEvents /\ mark <= mark'
  BY <1>1 DEF ControlInv, StateTyped, Controls
<1>6. Grows /\ TaskInStep' /\ RunsInOrder' /\ InstalledKnown'
  BY <1>1, <1>4, <1>5, OrderOfRunsKept
<1>7. AgentKeeps({})
  BY <1>1, <1>2, <1>3, <1>4, <1>5, <1>6, VersionsKept DEF AgentKeeps
<1> QED
  BY <1>7, AgentStep

\* An answer to a command that is refused is true.
LEMMA RefuseInv ==
    ASSUME ControlInv, NEW s \in Seqs, Refuse(s)
    PROVE  ControlInv'
<1>1. /\ Takes("command") /\ s = Head(toAgent).seq
      /\ UNCHANGED <<serverVars, stateVars, taskVars, versionVars, ran, installed,
                     aborted, finalized, conns, linked, events>>
  BY DEF Refuse
<1>2. Drawn(toAgent', toAgent, {}) /\ toAgent' \in Seq(Messages)
  BY <1>1, TakesFacts
<1>3. /\ StateTyped' /\ TaskTyped' /\ events' \in 0..MaxEvents
      /\ UNCHANGED <<mark, records, task, stage>>
  BY <1>1, StateKept, TaskKept DEF ControlInv
<1>4. busy' \in {busy, busy \cup {s}}
  BY DEF Refuse
<1>5. busy \subseteq busy' /\ HistoryTyped'
  BY <1>1, <1>4 DEF ControlInv, HistoryTyped
<1>6. mark <= mark'
  BY <1>3 DEF ControlInv, StateTyped
<1>7. Grows /\ TaskInStep' /\ RunsInOrder' /\ InstalledKnown'
  BY <1>1, <1>3, <1>5, <1>6, OrderOfRunsKept
<1>8. \/ NoAnswer
      \/ Answers([type |-> "gap", mark |-> mark])
      \/ Answers(Report(s, records[s])) /\ records[s] # "none"
      \/ Answers(Report(s, "failed")) /\ busy' = busy \cup {s}
  <2>1. \/ NoAnswer
        \/ Answers([type |-> "gap", mark |-> mark])
        \/ block = "none" /\ s \in {mark, mark + 1} /\ records[s] # "none"
              /\ Answers(Report(s, records[s]))
        \/ Answers(Report(s, "failed")) /\ busy' = busy \cup {s}
    BY Zenon DEF Refuse
  <2> QED
    BY <2>1
<1>9. ASSUME NEW m \in Messages, NoAnswer \/ Answers(m), MessageHolds(m)'
      PROVE  ControlInv'
  <2>1. LinkTyped' /\ Drawn(toServer', toServer, {m})
    BY <1>1, <1>2, <1>9, AnswersFacts
  <2>2. AgentKeeps({m})
    BY <1>1, <1>2, <1>3, <1>5, <1>7, <1>9, <2>1, VersionsKept DEF AgentKeeps
  <2> QED
    BY <2>2, AgentStep
<1>10. ASSUME NEW v \in Statuses, NoAnswer \/ Answers(Report(s, v)), Holds(s, v)'
       PROVE  ControlInv'
  <2>1. PICK m \in Messages : m = Report(s, v) /\ m.type = "status" /\ m.seq = s /\ m.status = v
    BY ReportFacts
  <2>2. MessageHolds(m)'
    BY <1>10, <2>1 DEF MessageHolds
  <2> QED
    BY <1>9, <1>10, <2>1, <2>2
<1>11. CASE NoAnswer
  <2>1. "pending" \in Statuses /\ Holds(s, "pending")'
    BY DEF Statuses, Open, Holds
  <2> QED
    BY <1>10, <1>11, <2>1
<1>12. CASE Answers([type |-> "gap", mark |-> mark])
  <2>1. PICK m \in Messages : m = [type |-> "gap", mark |-> mark]
    BY DEF ControlInv, StateTyped, Messages
  <2>2. MessageHolds(m)'
    BY <2>1 DEF MessageHolds
  <2> QED
    BY <1>9, <1>12, <2>1, <2>2
<1>13. CASE Answers(Report(s, records[s])) /\ records[s] # "none"
  <2>1. PICK v \in Statuses : v = records[s]
    BY <1>13 DEF ControlInv, StateTyped, Statuses, Terminal
  <2>2. Holds(s, v)
    BY <2>1, RecordsHold
  <2>3. Holds(s, v)'
    BY <1>7, <2>2, HoldsKept
  <2> QED
    BY <1>10, <1>13, <2>1, <2>3
<1>14. CASE Answers(Report(s, "failed")) /\ busy' = busy \cup {s}
  <2>1. "failed" \in Statuses /\ Holds(s, "failed")'
    BY <1>14 DEF Statuses, Terminal, Outcomes, Holds
  <2> QED
    BY <1>10, <1>14, <2>1
<1> QED
  BY <1>8, <1>11, <1>12, <1>13, <1>14

LEMMA ReceiveAckInv ==
    ASSUME ControlInv, ReceiveAck
    PROVE  ControlInv'
<1>1. PICK m \in First(toAgent) :
         /\ Takes("ack")
         /\ IF m.control # "none"
            THEN block' = m.control /\ UNCHANGED <<bound, mark>>
            ELSE /\ bound' = TRUE
                 /\ mark' = Larger(mark, m.mark)
                 /\ block' = IF block = "blocked" THEN "none" ELSE block
         /\ UNCHANGED <<serverVars, records, taskVars, versionVars, history, conns,
                        linked, toServer, events>>
  BY DEF ReceiveAck
<1>2. /\ Drawn(toAgent', toAgent, {}) /\ toAgent' \in Seq(Messages)
      /\ m.mark \in 0..MaxSeq /\ m.control \in Controls
  BY <1>1, TakesFacts, MessageFacts DEF First
<1>3. LinkTyped' /\ Drawn(toServer', toServer, {})
  BY <1>1, <1>2, SilentFacts
<1>4. /\ UNCHANGED <<ran, installed, busy, finalized, task, stage>>
      /\ HistoryTyped' /\ TaskTyped'
  BY <1>1, HistoryKept, TaskKept
<1>5. mark \in 0..MaxSeq /\ bound \in BOOLEAN /\ block \in Controls
  BY DEF ControlInv, StateTyped
<1>6. /\ mark' \in 0..MaxSeq /\ mark <= mark'
      /\ bound' \in BOOLEAN /\ block' \in Controls
  <2>1. mark' = mark \/ mark' = Larger(mark, m.mark)
    BY <1>1
  <2>2. mark' \in 0..MaxSeq /\ mark <= mark'
    <3>1. mark \in 0..MaxSeq /\ mark <= mark /\ m.mark \in 0..MaxSeq
      BY <1>2, <1>5
    <3> QED
      BY <2>1, <3>1 DEF Larger
  <2>3. bound' \in BOOLEAN
    <3>1. bound' = bound \/ bound' = TRUE
      BY <1>1, Zenon
    <3> QED
      BY <1>5, <3>1, Zenon
  <2>4. block' \in Controls
    BY <1>1, <1>2, <1>5 DEF Controls
  <2> QED
    BY <2>2, <2>3, <2>4
<1>7. StateTyped' /\ events' \in 0..MaxEvents
  BY <1>1, <1>6 DEF ControlInv, StateTyped
<1>8. Grows /\ TaskInStep' /\ RunsInOrder' /\ InstalledKnown'
  BY <1>1, <1>4, <1>6, <1>7, OrderOfRunsKept
<1>9. AgentKeeps({})
  BY <1>1, <1>2, <1>3, <1>4, <1>7, <1>8, VersionsKept DEF AgentKeeps
<1> QED
  BY <1>9, AgentStep

LEMMA ReceiveCancelInv ==
    ASSUME ControlInv, ReceiveCancel
    PROVE  ControlInv'
<1>1. PICK s \in Seqs :
         /\ Takes("cancel")
         /\ NoAnswer \/ Answers(Report(s, "accepted")) \/ Answers(Report(s, "cancelled"))
         /\ intent' = intent \/ intent' = TRUE
         /\ UNCHANGED <<serverVars, stateVars, task, stage, taskConn, versionVars, history,
                        conns, linked, events>>
  BY Zenon DEF ReceiveCancel
<1>2. Drawn(toAgent', toAgent, {}) /\ toAgent' \in Seq(Messages)
  BY <1>1, TakesFacts
<1>3. /\ UNCHANGED <<ran, installed, busy, finalized, mark, records, status>>
      /\ HistoryTyped' /\ StateTyped' /\ events' \in 0..MaxEvents
  BY <1>1, HistoryKept, StateKept, ServerUntouched DEF ControlInv
<1>4. TaskTyped'
  <2>1. intent' \in BOOLEAN
    BY <1>1, Zenon DEF ControlInv, TaskTyped
  <2> QED
    BY <1>1, <2>1 DEF ControlInv, TaskTyped
<1>5. Grows
  BY <1>3 DEF Grows
<1>6. TaskInStep'
  BY <1>1, <1>3 DEF ControlInv, TaskInStep
<1>7. RunsInOrder' /\ InstalledKnown'
  BY <1>1, <1>3 DEF ControlInv, RunsInOrder, InstalledKnown
<1>8. PICK v \in {"accepted", "cancelled"} : NoAnswer \/ Answers(Report(s, v))
  BY <1>1
<1>9. v \in Statuses /\ Holds(s, v)'
  BY DEF Statuses, Terminal, Outcomes, Holds
<1>10. PICK m \in Messages : m = Report(s, v) /\ m.type = "status" /\ m.seq = s /\ m.status = v
  BY <1>9, ReportFacts
<1>11. MessageHolds(m)'
  BY <1>9, <1>10 DEF MessageHolds
<1>12. LinkTyped' /\ Drawn(toServer', toServer, {m})
  BY <1>1, <1>2, <1>8, <1>10, AnswersFacts
<1>13. AgentKeeps({m})
  BY <1>1, <1>2, <1>3, <1>4, <1>5, <1>6, <1>7, <1>11, <1>12, VersionsKept
     DEF AgentKeeps
<1> QED
  BY <1>13, AgentStep

\* The task in progress, as a constant.
LEMMA TaskInProgress ==
    ASSUME ControlInv, stage # "idle"
    PROVE  /\ task \in Seqs /\ task # 0 /\ status[task] # "absent"
           /\ records[task] = "accepted"
           /\ stage # "committed" => task \notin installed
BY DEF ControlInv, TaskTyped, TaskInStep, InstalledKnown, Seqs

LEMMA StartTaskInv ==
    ASSUME ControlInv, StartTask
    PROVE  ControlInv'
<1>1. /\ stage = "admitted" /\ stage' = "running" /\ ran' = Append(ran, task)
      /\ Answers(Report(task, "accepted"))
      /\ UNCHANGED <<serverVars, stateVars, task, taskConn, intent, versionVars,
                     installed, busy, aborted, finalized, conns, linked, toAgent, events>>
  BY DEF StartTask
<1>2. PICK s \in Seqs : s = task
  BY <1>1, TaskInProgress
<1>3. UNCHANGED <<mark, records, status>> /\ StateTyped' /\ events' \in 0..MaxEvents
  BY <1>1, StateKept, ServerUntouched DEF ControlInv
<1>4. ran \in Seq(Seqs) /\ RunsInOrder
  BY DEF ControlInv, HistoryTyped
<1>5. TaskTyped' /\ HistoryTyped'
  BY <1>1, <1>2, <1>4 DEF ControlInv, TaskTyped, HistoryTyped
<1>6. Grows
  BY <1>1, <1>3 DEF Grows
<1>7. TaskInStep'
  BY <1>1, <1>3 DEF ControlInv, TaskInStep
<1>8. RunsInOrder'
  <2>1. /\ Len(ran') = Len(ran) + 1 /\ Len(ran) \in Nat
        /\ \A i \in 1..Len(ran') : IF i = Len(ran) + 1 THEN ran'[i] = task
                                   ELSE i \in 1..Len(ran) /\ ran'[i] = ran[i]
    BY <1>1, <1>2, <1>4
  <2> QED
    BY <1>1, <1>3, <1>4, <2>1 DEF RunsInOrder
<1>9. InstalledKnown'
  BY <1>1, <1>3 DEF ControlInv, InstalledKnown
<1>10. Drawn(toAgent', toAgent, {}) /\ toAgent' \in Seq(Messages)
  BY <1>1, DrawnFacts DEF ControlInv, LinkTyped
<1>11. PICK m \in Messages :
          m = Report(s, "accepted") /\ m.type = "status" /\ m.seq = s /\ m.status = "accepted"
  BY ReportFacts DEF Statuses
<1>12. MessageHolds(m)'
  BY <1>11 DEF MessageHolds, Holds
<1>13. LinkTyped' /\ Drawn(toServer', toServer, {m})
  BY <1>1, <1>2, <1>10, <1>11, AnswersFacts
<1>14. AgentKeeps({m})
  BY <1>1, <1>3, <1>5, <1>6, <1>7, <1>8, <1>9, <1>10, <1>12, <1>13, VersionsKept
     DEF AgentKeeps
<1> QED
  BY <1>14, AgentStep

\* A task that leaves: its record changes, what ran is not after the mark.
LEMMA TaskLeaves ==
    ASSUME ControlInv, stage # "idle", task' = 0, stage' = "idle", taskConn' = 0, intent' = FALSE,
           NEW v \in Outcomes \cup {"none"}, records' = [records EXCEPT ![task] = v],
           StateTyped', mark <= mark',
           stage = "admitted" \/ task <= mark',
           v = "succeeded" => stage = "committed",
           stage = "committed" => v \in {"succeeded", "unknown"},
           UNCHANGED <<ran, installed, busy, finalized>>
    PROVE  /\ TaskTyped' /\ Grows /\ TaskInStep' /\ RunsInOrder' /\ InstalledKnown'
           /\ \A k \in Seqs : records'[k] = IF k = task THEN v ELSE records[k]
<1>1. PICK s \in Seqs : s = task
  BY TaskInProgress
<1>2. /\ records[s] = "accepted" /\ s \in Nat /\ s # 0
      /\ stage = "committed" <=> s \in installed
  BY <1>1, TaskInProgress DEF ControlInv, InstalledKnown, Seqs
<1>3. \A k \in Seqs : records'[k] = IF k = s THEN v ELSE records[k]
  BY <1>1 DEF ControlInv, StateTyped
<1>4. TaskTyped'
  <2>1. intent' \in BOOLEAN
    OBVIOUS
  <2>2. /\ task' \in 0..MaxSeq /\ taskConn' \in 0..MaxConns
        /\ stage' \in {"idle", "admitted", "running", "committed"}
    BY DEF ControlInv, TaskTyped
  <2> QED
    BY <2>1, <2>2 DEF TaskTyped
<1>5. Grows
  BY <1>2, <1>3 DEF Grows
<1>6. TaskInStep'
  BY DEF TaskInStep
<1>7. RunsInOrder'
  <2>1. ran \in Seq(Seqs) /\ mark \in Nat /\ mark' \in Nat /\ RunsInOrder
    BY DEF ControlInv, HistoryTyped, StateTyped
  <2>2. \A i \in 1..Len(ran) : ran[i] \in Nat
    BY <2>1 DEF Seqs
  <2>3. \A i \in 1..Len(ran) : ran[i] <= mark'
    BY <1>1, <1>2, <2>1, <2>2 DEF RunsInOrder
  <2> QED
    BY <2>3 DEF RunsInOrder
<1>8. InstalledKnown'
  <2>1. /\ \A k \in installed : k \in Seqs /\ (k = s \/ records[k] \in {"succeeded", "unknown"})
        /\ \A k \in Seqs : records[k] = "succeeded" => k \in installed
    BY <1>1 DEF ControlInv, InstalledKnown, HistoryTyped
  <2>2. \A k \in installed : records'[k] \in {"succeeded", "unknown"}
    BY <1>2, <1>3, <2>1
  <2>3. \A k \in Seqs : records'[k] = "succeeded" => k \in installed
    BY <1>2, <1>3, <2>1
  <2> QED
    BY <2>2, <2>3 DEF InstalledKnown
<1> QED
  BY <1>1, <1>3, <1>4, <1>5, <1>6, <1>7, <1>8

LEMMA AbortUpdateTaskInv ==
    ASSUME ControlInv, AbortUpdateTask
    PROVE  ControlInv'
<1>1. /\ stage = "admitted"
      /\ records' = [records EXCEPT ![task] = "none"]
      /\ aborted' = aborted \cup {task}
      /\ task' = 0 /\ stage' = "idle" /\ taskConn' = 0 /\ intent' = FALSE
      /\ UNCHANGED <<serverVars, bound, mark, block, versionVars, ran, installed, busy,
                     finalized, linkVars, events>>
  BY DEF AbortUpdateTask
<1>2. task \in Seqs
  BY <1>1, TaskInProgress
<1>3. StateTyped' /\ HistoryTyped' /\ events' \in 0..MaxEvents /\ mark <= mark'
  BY <1>1, <1>2 DEF ControlInv, StateTyped, HistoryTyped
<1>4. TaskTyped' /\ Grows /\ TaskInStep' /\ RunsInOrder' /\ InstalledKnown'
  BY <1>1, <1>3, TaskLeaves
<1>5. AgentKeeps({})
  BY <1>1, <1>3, <1>4, LinkKept, VersionsKept DEF AgentKeeps
<1> QED
  BY <1>5, AgentStep

LEMMA CommitTaskInv ==
    ASSUME ControlInv, CommitTask
    PROVE  ControlInv'
<1>1. /\ stage = "running" /\ stage' = "committed" /\ installed' = installed \cup {task}
      /\ UNCHANGED <<serverVars, stateVars, task, taskConn, intent, versionVars, ran, busy,
                     aborted, finalized, linkVars, events>>
  BY DEF CommitTask
<1>2. task \in Seqs
  BY <1>1, TaskInProgress
<1>3. UNCHANGED <<mark, records, status>> /\ StateTyped' /\ events' \in 0..MaxEvents
  BY <1>1, StateKept, ServerUntouched DEF ControlInv
<1>4. TaskTyped' /\ HistoryTyped'
  BY <1>1, <1>2 DEF ControlInv, TaskTyped, HistoryTyped
<1>5. Grows
  BY <1>1, <1>3 DEF Grows
<1>6. TaskInStep' /\ RunsInOrder'
  BY <1>1, <1>3 DEF ControlInv, TaskInStep, RunsInOrder
<1>7. InstalledKnown'
  BY <1>1, <1>3 DEF ControlInv, InstalledKnown
<1>8. AgentKeeps({})
  BY <1>1, <1>3, <1>4, <1>5, <1>6, <1>7, LinkKept, VersionsKept DEF AgentKeeps
<1> QED
  BY <1>8, AgentStep

\* The verdict that is recorded is true.
LEMMA SettlesFacts ==
    ASSUME ControlInv, stage # "idle", NEW v \in Outcomes, Settles(v),
           v = "succeeded" => stage = "committed",
           stage = "committed" => v \in {"succeeded", "unknown"},
           UNCHANGED history
    PROVE  /\ StateTyped' /\ TaskTyped' /\ HistoryTyped'
           /\ Grows /\ TaskInStep' /\ RunsInOrder' /\ InstalledKnown'
           /\ \A s \in Seqs : s = task => Holds(s, v)'
<1>1. /\ records' = [records EXCEPT ![task] = v] /\ mark' = Larger(mark, task)
      /\ block' \in {"blocked", block}
      /\ task' = 0 /\ stage' = "idle" /\ taskConn' = 0 /\ intent' = FALSE
      /\ UNCHANGED bound
  BY DEF Settles
<1>2. task \in 0..MaxSeq /\ task \in Seqs
  BY TaskInProgress DEF ControlInv, TaskTyped
<1>3. HistoryTyped' /\ UNCHANGED <<ran, installed, busy, aborted, finalized>>
  BY HistoryKept
<1>4. mark' \in 0..MaxSeq /\ mark <= mark' /\ task <= mark'
  BY <1>1, <1>2, LargerType DEF ControlInv, StateTyped
<1>5. StateTyped'
  BY <1>1, <1>2, <1>4 DEF ControlInv, StateTyped, Controls
<1>6. /\ TaskTyped' /\ Grows /\ TaskInStep' /\ RunsInOrder' /\ InstalledKnown'
      /\ \A k \in Seqs : records'[k] = IF k = task THEN v ELSE records[k]
  BY <1>1, <1>3, <1>4, <1>5, TaskLeaves
<1>7. ASSUME NEW s \in Seqs, s = task PROVE Holds(s, v)'
  <2>1. v = "succeeded" => s \in installed'
    BY <1>3, <1>7 DEF ControlInv, InstalledKnown
  <2> QED
    BY <1>6, <1>7, <2>1 DEF Holds
<1> QED
  BY <1>3, <1>5, <1>6, <1>7

LEMMA FinishTaskInv ==
    ASSUME ControlInv, FinishTask
    PROVE  ControlInv'
<1>1. PICK v \in Outcomes :
         /\ stage # "idle" /\ v # "succeeded" /\ (stage = "committed" => v = "unknown")
         /\ Settles(v)
         /\ Answers(Report(task, v)) \/ NoAnswer
  BY DEF FinishTask, Outcomes
<1>2. /\ UNCHANGED <<serverVars, history, conns, linked, toAgent, events>>
      /\ file' \in Persisted /\ version' \in {version, file'}
  BY DEF FinishTask
<1>3. PICK s \in Seqs : s = task
  BY <1>1, TaskInProgress
<1>4. /\ StateTyped' /\ TaskTyped' /\ HistoryTyped'
      /\ Grows /\ TaskInStep' /\ RunsInOrder' /\ InstalledKnown'
      /\ Holds(s, v)'
  BY <1>1, <1>2, <1>3, SettlesFacts
<1>5. Drawn(toAgent', toAgent, {}) /\ toAgent' \in Seq(Messages)
  BY <1>2, DrawnFacts DEF ControlInv, LinkTyped
<1>6. v \in Statuses
  BY DEF Statuses, Terminal
<1>7. PICK m \in Messages : m = Report(s, v) /\ m.type = "status" /\ m.seq = s /\ m.status = v
  BY <1>6, ReportFacts
<1>8. MessageHolds(m)'
  BY <1>4, <1>7 DEF MessageHolds
<1>9. LinkTyped' /\ Drawn(toServer', toServer, {m})
  BY <1>1, <1>2, <1>3, <1>5, <1>7, AnswersFacts
<1>10. events' \in 0..MaxEvents
  BY <1>2 DEF ControlInv
<1>11. AgentKeeps({m})
  BY <1>2, <1>4, <1>5, <1>8, <1>9, <1>10, PersistedKnown DEF AgentKeeps
<1> QED
  BY <1>11, AgentStep

LEMMA RestartInv ==
    ASSUME ControlInv, Restart, events' \in 0..MaxEvents
    PROVE  ControlInv'
<1>1. /\ UNCHANGED <<serverVars, history>> /\ Break
      /\ file' \in Persisted /\ version' \in {version, file'}
  BY DEF Restart
<1>2. /\ StateTyped' /\ TaskTyped' /\ HistoryTyped'
      /\ Grows /\ TaskInStep' /\ RunsInOrder' /\ InstalledKnown'
  <2>1. CASE task = 0
    <3>1. UNCHANGED <<stateVars, taskVars>>
      BY <2>1 DEF Restart
    <3>2. /\ UNCHANGED <<ran, installed, busy, finalized, task, stage, mark, records>>
          /\ HistoryTyped' /\ TaskTyped' /\ StateTyped'
      BY <1>1, <3>1, HistoryKept, TaskKept, StateKept
    <3>3. mark <= mark'
      BY <3>2 DEF ControlInv, StateTyped
    <3> QED
      BY <1>1, <3>2, <3>3, OrderOfRunsKept
  <2>2. CASE task # 0
    <3>1. stage # "idle"
      BY <2>2 DEF ControlInv, TaskInStep
    <3>2. PICK v \in Recovered : Settles(v)
      BY <2>2 DEF Restart
    <3>3. /\ v \in Outcomes
          /\ v = "succeeded" => stage = "committed"
          /\ stage = "committed" => v \in {"succeeded", "unknown"}
      BY <3>2 DEF Recovered, Outcomes
    <3> QED
      BY <1>1, <3>1, <3>2, <3>3, SettlesFacts
  <2> QED
    BY <2>1, <2>2
<1>3. AgentKeeps({})
  BY <1>1, <1>2, BreakFacts, PersistedKnown DEF AgentKeeps
<1> QED
  BY <1>3, AgentStep

LEMMA ReportVersionInv ==
    ASSUME ControlInv, ReportVersion
    PROVE  ControlInv'
<1>1. /\ Answers([type |-> "metrics", version |-> version])
      /\ events < MaxEvents /\ events' = events + 1
      /\ UNCHANGED <<serverVars, stateVars, taskVars, versionVars, history, conns, linked,
                     toAgent>>
  BY DEF ReportVersion, Event, agentVars
<1>2. /\ UNCHANGED <<ran, installed, busy, finalized, task, stage, mark, records>>
      /\ HistoryTyped' /\ TaskTyped' /\ StateTyped'
  BY <1>1, HistoryKept, TaskKept, StateKept
<1>3. mark <= mark' /\ events' \in 0..MaxEvents
  BY <1>1, <1>2 DEF ControlInv, StateTyped
<1>4. Grows /\ TaskInStep' /\ RunsInOrder' /\ InstalledKnown'
  BY <1>1, <1>2, <1>3, OrderOfRunsKept
<1>5. PICK m \in Messages : m = [type |-> "metrics", version |-> version]
  BY DEF ControlInv, VersionsKnown, Messages
<1>6. MessageHolds(m)'
  <2>1. MessageHolds(m)
    BY <1>5 DEF ControlInv, VersionsKnown, MessageHolds
  <2> QED
    BY <1>4, <2>1, MessageHoldsKept
<1>7. Drawn(toAgent', toAgent, {}) /\ toAgent' \in Seq(Messages)
  BY <1>1, DrawnFacts DEF ControlInv, LinkTyped
<1>8. LinkTyped' /\ Drawn(toServer', toServer, {m})
  BY <1>1, <1>5, <1>7, AnswersFacts
<1>9. AgentKeeps({m})
  BY <1>1, <1>2, <1>3, <1>4, <1>6, <1>7, <1>8, VersionsKept DEF AgentKeeps
<1> QED
  BY <1>9, AgentStep

-----------------------------------------------------------------------------
(* The theorems.                                                           *)

LEMMA ControlInit == Init => ControlInv
<1> SUFFICES ASSUME Init PROVE ControlInv
  OBVIOUS
<1>1. StoreTyped /\ HubTyped
  <2>1. /\ status = [s \in Seqs |-> "absent"] /\ tombs = {}
        /\ watermark = 0 /\ control = "none"
    BY DEF Init
  <2>2. StoreTyped
    BY <2>1 DEF StoreTyped, Statuses, Controls
  <2>3. HubTyped
    BY DEF Init, HubTyped
  <2> QED
    BY <2>2, <2>3
<1>2. IdleThread \in [at : Places, left : SUBSET Seqs] /\ IdleThread.left = {}
      /\ IdleThread.at = "idle"
  BY DEF IdleThread, Places
<1>3. ThreadTyped
  <2>1. NoAck \in [mark : 0..MaxSeq, control : Controls]
    BY DEF NoAck, Controls
  <2> QED
    BY <1>2, <2>1 DEF Init, ThreadTyped
<1>4. ThreadsIssued
  <2>1. thread = [t \in Threads |-> IdleThread]
    BY DEF Init
  <2> QED
    BY <1>2, <2>1, ThreadNames DEF ThreadsIssued
<1>5. LinkTyped /\ events \in 0..MaxEvents
  <2>1. /\ conns = 0 /\ linked = FALSE /\ toAgent = <<>> /\ toServer = <<>>
        /\ events = 0
    BY DEF Init
  <2>2. <<>> \in Seq(Messages)
    OBVIOUS
  <2>3. LinkTyped
    <3>1. conns \in 0..MaxConns
      BY <2>1
    <3>2. toAgent \in Seq(Messages) /\ toServer \in Seq(Messages)
      BY <2>1, <2>2
    <3>3. linked \in BOOLEAN
      BY <2>1
    <3> QED
      BY <3>1, <3>2, <3>3 DEF LinkTyped
  <2>4. events \in 0..MaxEvents
    BY <2>1
  <2> QED
    BY <2>3, <2>4
<1>6. StateTyped /\ TaskTyped /\ HistoryTyped
  <2>1. /\ bound = FALSE /\ mark = 0 /\ block = "none"
        /\ records = [s \in Seqs |-> "none"]
    BY DEF Init
  <2>2. task = 0 /\ stage = "idle" /\ taskConn = 0 /\ intent = FALSE
    BY DEF Init
  <2>3. ran = <<>> /\ installed = {} /\ busy = {} /\ aborted = {} /\ finalized = {}
    BY DEF Init
  <2>4. StateTyped
    <3>1. bound \in BOOLEAN
      BY <2>1
    <3>2. mark \in 0..MaxSeq /\ block \in Controls
      BY <2>1 DEF Controls
    <3>3. records \in [Seqs -> Outcomes \cup {"none", "accepted"}]
      BY <2>1
    <3> QED
      BY <3>1, <3>2, <3>3 DEF StateTyped
  <2>5. TaskTyped
    <3>1. intent \in BOOLEAN
      BY <2>2
    <3> QED
      BY <2>2, <3>1 DEF TaskTyped
  <2>6. HistoryTyped
    BY <2>3 DEF HistoryTyped
  <2> QED
    BY <2>4, <2>5, <2>6
<1>7. IssuedInOrder /\ CommandsIssued /\ TaskInStep
  BY DEF Init, IssuedInOrder, CommandsIssued, TaskInStep
<1>8. RunsInOrder /\ InstalledKnown
  BY DEF Init, RunsInOrder, InstalledKnown
<1>9. StatusHolds
  BY DEF Init, StatusHolds, Holds
<1>10. MessagesHold
  <2>1. toServer = <<>> /\ hand = [c \in Conns |-> NoMessage]
    BY DEF Init
  <2>2. MessageHolds(NoMessage)
    BY DEF MessageHolds, NoMessage
  <2> QED
    BY <2>1, <2>2 DEF MessagesHold, HandTyped
<1>11. VersionsKnown
  BY DEF Init, VersionsKnown, Versions, HasHad
<1> QED
  BY <1>1, <1>3, <1>4, <1>5, <1>6, <1>7, <1>8, <1>9, <1>10, <1>11 DEF ControlInv

LEMMA ControlStutter ==
    ASSUME ControlInv, UNCHANGED vars
    PROVE  ControlInv'
<1>1. UNCHANGED <<serverVars, agentVars, linkVars, events>>
  BY DEF vars
<1>2. /\ StoreTyped' /\ HubTyped' /\ ThreadTyped' /\ StaysIssued
      /\ IssuedInOrder' /\ ThreadsIssued' /\ UNCHANGED status
      /\ HandKept
  BY <1>1, ServerUntouched
<1>3. ShowsTruth /\ events' \in 0..MaxEvents
  BY <1>1, <1>2 DEF ControlInv, ShowsTruth
<1>4. ServerKeeps({})
  BY <1>1, <1>2, <1>3, LinkKept DEF ServerKeeps
<1> QED
  BY <1>1, <1>2, <1>4, LinkKept, ServerReads, ServerStep

LEMMA ControlNext ==
    ASSUME ControlInv, [Next]_vars
    PROVE  ControlInv'
<1>1. ASSUME NEW s \in Seqs,
             \/ CreateCommand(s) \/ CancelCommand(s) \/ ResolveUnknown(s)
             \/ TestDelivery(s) \/ SkipOffline(s) \/ SendCancel(s)
      PROVE  ControlInv'
  BY <1>1, CreateCommandInv, CancelCommandInv, ResolveUnknownInv, TestDeliveryInv,
     SkipOfflineInv, SendCancelInv
<1>2. ASSUME NEW t \in Threads, ServerThread(t)
      PROVE  ControlInv'
  BY <1>2, ListPendingInv, TestNextInv, SendCommandInv, MarkSentInv DEF ServerThread
<1>3. ASSUME NEW c \in Conns, ReadLoop(c) \/ GraceExpires(c)
      PROVE  ControlInv'
  BY <1>3, TakeMessageInv, HandleHandshakeInv, SendAckInv, HandleStatusInv, HandleGapInv,
     HandleMetricsInv, GraceExpiresInv
     DEF ReadLoop
<1>4. ASSUME Unregister \/ BreakConnection \/ Connect \/ RestartServer
      PROVE  ControlInv'
  BY <1>4, UnregisterInv, BreakConnectionInv, ConnectInv, RestartServerInv
<1>5. ASSUME AgentReads
      PROVE  ControlInv'
  BY <1>5, AdmitInv, QuarantineUnboundInv, RefuseInv, ReceiveAckInv, ReceiveCancelInv
     DEF AgentReads
<1>6. ASSUME Task
      PROVE  ControlInv'
  <2>1. ASSUME ExecTask PROVE ControlInv'
    BY <2>1, RestartInv DEF ExecTask, ControlInv
  <2> QED
    BY <1>6, <2>1, StartTaskInv, AbortUpdateTaskInv, CommitTaskInv, FinishTaskInv DEF Task
<1>7. ASSUME Crash
      PROVE  ControlInv'
  <2>1. events' \in 0..MaxEvents
    BY <1>7 DEF Crash, Event, ControlInv
  <2> QED
    BY <1>7, <2>1, RestartInv DEF Crash
<1> QED
  BY <1>1, <1>2, <1>3, <1>4, <1>5, <1>6, <1>7, ReportVersionInv, ControlStutter DEF Next

\* The invariant holds whatever is lost, repeated, restarted or cancelled.
THEOREM ControlInvariant == Spec => []ControlInv
BY ControlInit, ControlNext, PTL DEF Spec

\* Every variable of the composition keeps its type.
THEOREM ControlTypeCorrect == Spec => []TypeOK
<1>1. ControlInv => TypeOK
  BY DEF ControlInv, TypeOK, StoreTyped, HubTyped, ThreadTyped, LinkTyped, StateTyped,
         TaskTyped, HistoryTyped, Places, MessagesHold, HandTyped, VersionsKnown
<1> QED
  BY <1>1, ControlInvariant, PTL

\* What the server shows of a finished command happened on the node, except what
\* a reported version ended; of that the version is one the node has had
\* (handleAgentCommandStatus, ApplyHandshakeBackfill,
\* FinalizeUpdateJobsForNodeVersion): a report is only sent when it is true, and
\* what was true of a command stays true, so that a late, repeated or
\* back-filled report is true as well.
THEOREM ServerShowsTruth == Spec => []ServerTruth
<1>1. ControlInv => ServerTruth
  <2> SUFFICES ASSUME ControlInv, NEW s \in Seqs, records[s] # "unknown"
               PROVE  /\ status[s] = "failed" /\ s \in installed => s \in busy
                      /\ status[s] = "succeeded" =>
                             s \in installed \/ (s \in finalized /\ HasHad(Release(s)))
    BY DEF ServerTruth
  <2>1. Holds(s, status[s])
    BY DEF ControlInv, StatusHolds
  <2>2. s \in installed => records[s] # "failed"
    BY DEF ControlInv, InstalledKnown, TaskInStep
  <2> QED
    BY <2>1, <2>2 DEF Holds
<1> QED
  BY <1>1, ControlInvariant, PTL

-----------------------------------------------------------------------------
(* The refinement.                                                         *)

IssuedCommands == {s \in Seqs : status[s] # "absent"}

LEMMA IssuedFinite ==
    /\ IsFiniteSet(Seqs) /\ Cardinality(Seqs) = MaxSeq
    /\ IsFiniteSet(IssuedCommands) /\ Cardinality(IssuedCommands) \in 0..MaxSeq
<1>1. IsFiniteSet(Seqs) /\ Cardinality(Seqs) = MaxSeq
  BY FS_Interval DEF Seqs
<1>2. IssuedCommands \subseteq Seqs
  BY DEF IssuedCommands
<1>3. /\ IsFiniteSet(IssuedCommands) /\ Cardinality(IssuedCommands) <= MaxSeq
      /\ Cardinality(IssuedCommands) \in Nat
  BY <1>1, <1>2, FS_Subset, FS_CardinalityType
<1> QED
  BY <1>1, <1>3

\* The commands that are issued are the first ones.
LEMMA IssuedPrefix ==
    ASSUME IssuedInOrder, NEW s \in IssuedCommands
    PROVE  s <= Cardinality(IssuedCommands)
<1>1. s \in Nat /\ s \in Seqs
  BY DEF IssuedCommands, Seqs
<1>2. 1..s \subseteq IssuedCommands
  <2> SUFFICES ASSUME NEW k \in 1..s PROVE k \in IssuedCommands
    OBVIOUS
  <2>1. k \in Seqs /\ (k < s \/ k = s)
    BY <1>1 DEF Seqs
  <2> QED
    BY <1>1, <2>1 DEF IssuedInOrder, IssuedCommands
<1>3. Cardinality(1..s) = s
  BY <1>1, FS_Interval
<1> QED
  BY <1>2, <1>3, IssuedFinite, FS_Subset

LEMMA CreateCommandIssues ==
    ASSUME ControlInv, NEW s \in Seqs, CreateCommand(s)
    PROVE  /\ Cardinality(IssuedCommands') = Cardinality(IssuedCommands) + 1
           /\ Cardinality(IssuedCommands) < MaxSeq
<1>1. status[s] = "absent" /\ status' = [status EXCEPT ![s] = "pending"]
  BY DEF CreateCommand
<1>2. \A k \in Seqs : status'[k] = IF k = s THEN "pending" ELSE status[k]
  BY <1>1 DEF ControlInv, StoreTyped
<1>3. s \notin IssuedCommands /\ IssuedCommands' = IssuedCommands \cup {s}
  BY <1>1, <1>2 DEF IssuedCommands
<1>4. /\ IsFiniteSet(IssuedCommands \cup {s})
      /\ Cardinality(IssuedCommands \cup {s}) = Cardinality(IssuedCommands) + 1
  BY <1>3, IssuedFinite, FS_AddElement
<1>5. IssuedCommands \cup {s} \subseteq Seqs
  BY DEF IssuedCommands
<1>6. Cardinality(IssuedCommands \cup {s}) <= MaxSeq
  BY <1>5, IssuedFinite, FS_Subset
<1> QED
  BY <1>3, <1>4, <1>6, IssuedFinite

\* The task that starts was issued, and what ran comes before it.
LEMMA StartTaskRuns ==
    ASSUME ControlInv, StartTask
    PROVE  \E s \in Seqs :
               /\ \A i \in DOMAIN ran : ran[i] < s
               /\ s <= Cardinality(IssuedCommands)
               /\ ran' = Append(ran, s)
               /\ IssuedCommands' = IssuedCommands
<1>1. stage = "admitted" /\ ran' = Append(ran, task) /\ UNCHANGED serverVars
  BY DEF StartTask
<1>2. task \in Seqs /\ task \in IssuedCommands
  BY <1>1, TaskInProgress DEF IssuedCommands
<1>3. task <= Cardinality(IssuedCommands)
  BY <1>2, IssuedPrefix DEF ControlInv
<1>4. \A i \in DOMAIN ran : ran[i] < task
  BY <1>1 DEF ControlInv, RunsInOrder, HistoryTyped
<1>5. IssuedCommands' = IssuedCommands
  BY <1>1, ServerUntouched DEF IssuedCommands
<1> QED
  BY <1>1, <1>2, <1>3, <1>4, <1>5

\* What the abstract specification does not see.
Unseen == UNCHANGED ran /\ IssuedCommands' = IssuedCommands

LEMMA AgentUnseen ==
    ASSUME ControlInv, UNCHANGED agentVars,
           UNCHANGED status \/ \A s \in Seqs : status'[s] = "absent" <=> status[s] = "absent"
    PROVE  Unseen
BY DEF Unseen, agentVars, history, IssuedCommands

LEMMA ServerUnseen ==
    ASSUME ControlInv, UNCHANGED serverVars, UNCHANGED ran
    PROVE  Unseen
BY ServerUntouched DEF Unseen, IssuedCommands

LEMMA CommandSteps ==
    ASSUME ControlInv, NEW s \in Seqs,
           \/ CancelCommand(s) \/ ResolveUnknown(s)
           \/ TestDelivery(s) \/ SkipOffline(s) \/ SendCancel(s)
    PROVE  Unseen
<1>1. CASE CancelCommand(s)
  BY <1>1, AgentUnseen DEF CancelCommand
<1>2. CASE ResolveUnknown(s)
  <2>1. PICK r \in {"succeeded", "failed", "cancelled"} : status' = [status EXCEPT ![s] = r]
    BY <1>2 DEF ResolveUnknown
  <2>2. status[s] = "unknown" /\ UNCHANGED agentVars
    BY <1>2 DEF ResolveUnknown
  <2>3. \A k \in Seqs : status'[k] = "absent" <=> status[k] = "absent"
    BY <2>1, <2>2 DEF ControlInv, StoreTyped
  <2> QED
    BY <2>2, <2>3, AgentUnseen
<1>3. CASE TestDelivery(s)
  BY <1>3, AgentUnseen DEF TestDelivery, storeVars
<1>4. CASE SkipOffline(s)
  <2>1. \A k \in Seqs : status'[k] = "absent" <=> status[k] = "absent"
    BY <1>4, TransitionFacts DEF SkipOffline, ControlInv, Statuses, Terminal
  <2> QED
    BY <1>4, <2>1, AgentUnseen DEF SkipOffline
<1>5. CASE SendCancel(s)
  BY <1>5, AgentUnseen DEF SendCancel, storeVars
<1> QED
  BY <1>1, <1>2, <1>3, <1>4, <1>5

LEMMA ThreadSteps ==
    ASSUME ControlInv, NEW t \in Threads, ServerThread(t)
    PROVE  Unseen
<1>1. CASE ListPending(t) \/ TestNext(t) \/ SendCommand(t)
  BY <1>1, AgentUnseen DEF ListPending, TestNext, SendCommand, storeVars
<1>2. CASE MarkSent(t)
  <2>1. PICK s \in Seqs : Transition(s, "dispatched") /\ UNCHANGED agentVars
    BY <1>2 DEF MarkSent
  <2>2. "dispatched" \in Statuses /\ StoreTyped
    BY DEF ControlInv, Statuses, Open
  <2>3. \A k \in Seqs : status'[k] = "absent" <=> status[k] = "absent"
    BY <2>1, <2>2, TransitionFacts
  <2> QED
    BY <2>1, <2>3, AgentUnseen
<1> QED
  BY <1>1, <1>2 DEF ServerThread

LEMMA ReadLoopSteps ==
    ASSUME ControlInv, NEW c \in Conns, ReadLoop(c) \/ GraceExpires(c)
    PROVE  Unseen
<1>1. CASE HandleHandshake(c)
  <2>1. PICK m \in Messages : m = hand[c] /\ m.type = "handshake" /\ MessageHolds(m)
    BY <1>1, HeldFacts DEF HandleHandshake
  <2>2. status' = BackFilled(m.records) /\ UNCHANGED agentVars
    BY <1>1, <2>1 DEF HandleHandshake
  <2>3. /\ m.records \in [Seqs -> Outcomes \cup {"none", "accepted"}]
        /\ \A s \in Seqs : Holds(s, m.records[s])
    BY <2>1, MessageFacts DEF MessageHolds
  <2>4. \A s \in Seqs : status'[s] = "absent" <=> status[s] = "absent"
    BY <2>2, <2>3, BackFilledFacts DEF ControlInv
  <2> QED
    BY <2>2, <2>4, AgentUnseen
<1>2. CASE SendAck(c)
  BY <1>2, AgentUnseen DEF SendAck, storeVars
<1>3. CASE HandleStatus(c)
  <2>1. PICK m \in Messages : m = hand[c] /\ m.type = "status"
    BY <1>3, HeldFacts DEF HandleStatus
  <2>2. m.seq \in Seqs /\ m.status \in Statuses
    BY <2>1, MessageFacts
  <2>3. Transition(m.seq, m.status) /\ UNCHANGED agentVars
    BY <1>3, <2>1 DEF HandleStatus
  <2>4. \A k \in Seqs : status'[k] = "absent" <=> status[k] = "absent"
    BY <2>2, <2>3, TransitionFacts DEF ControlInv
  <2> QED
    BY <2>3, <2>4, AgentUnseen
<1>4. CASE HandleGap(c)
  BY <1>4, AgentUnseen DEF HandleGap
<1>5. CASE GraceExpires(c) \/ TakeMessage(c)
  BY <1>5, AgentUnseen DEF GraceExpires, TakeMessage, storeVars
<1>6. CASE HandleMetrics(c)
  <2>1. PICK ended \in SUBSET Seqs :
           /\ \A s \in ended : status[s] \in {"dispatched", "accepted"}
           /\ status' = [s \in Seqs |-> IF s \in ended THEN "succeeded" ELSE status[s]]
           /\ UNCHANGED ran
    BY <1>6, MetricsFacts
  <2>2. \A s \in Seqs : status'[s] = "absent" <=> status[s] = "absent"
    BY <2>1
  <2> QED
    BY <2>1, <2>2 DEF Unseen, IssuedCommands
<1> QED
  BY <1>1, <1>2, <1>3, <1>4, <1>5, <1>6 DEF ReadLoop

LEMMA LinkSteps ==
    ASSUME ControlInv, Unregister \/ BreakConnection \/ Connect \/ RestartServer
    PROVE  Unseen
BY AgentUnseen
   DEF Unregister, BreakConnection, Connect, RestartServer, serverVars, storeVars

LEMMA AgentSteps ==
    ASSUME ControlInv,
           \/ AgentReads \/ Crash \/ ReportVersion
           \/ AbortUpdateTask \/ CommitTask \/ FinishTask \/ ExecTask
    PROVE  Unseen
<1>1. ASSUME NEW s \in Seqs, Admit(s) \/ QuarantineUnbound(s) \/ Refuse(s) PROVE Unseen
  BY <1>1, ServerUnseen DEF Admit, QuarantineUnbound, Refuse, history
<1>2. CASE ReceiveAck \/ ReceiveCancel
  BY <1>2, ServerUnseen DEF ReceiveAck, ReceiveCancel, history
<1>3. CASE AbortUpdateTask \/ CommitTask \/ FinishTask
  BY <1>3, ServerUnseen DEF AbortUpdateTask, CommitTask, FinishTask, history
<1>4. CASE ExecTask \/ Crash
  BY <1>4, ServerUnseen DEF ExecTask, Crash, Restart, history
<1>5. CASE ReportVersion
  BY <1>5, ServerUnseen DEF ReportVersion, agentVars, history
<1> QED
  BY <1>1, <1>2, <1>3, <1>4, <1>5 DEF AgentReads

LEMMA StepSimulated ==
    ASSUME ControlInv, [Next]_vars
    PROVE  [Execution!Next]_(Execution!executionVars)
<1>1. ASSUME NEW s \in Seqs, CreateCommand(s)
      PROVE  Execution!Issue
  <2>1. ran' = ran
    BY <1>1 DEF CreateCommand, agentVars, history
  <2> QED
    BY <1>1, <2>1, CreateCommandIssues DEF Execution!Issue, IssuedCommands
<1>2. ASSUME StartTask
      PROVE  \E s \in Seqs : Execution!Run(s)
  BY <1>2, StartTaskRuns DEF Execution!Run, IssuedCommands
<1>3. ASSUME Unseen
      PROVE  UNCHANGED Execution!executionVars
  BY <1>3 DEF Unseen, IssuedCommands, Execution!executionVars
<1>4. UNCHANGED vars => Unseen
  BY AgentUnseen DEF vars, serverVars, storeVars
<1>5. Next => \/ \E s \in Seqs : CreateCommand(s)
              \/ StartTask
              \/ Unseen
  BY CommandSteps, ThreadSteps, ReadLoopSteps, LinkSteps, AgentSteps DEF Next, Task
<1>6. (\E s \in Seqs : CreateCommand(s)) \/ StartTask => Execution!Next
  BY <1>1, <1>2 DEF Execution!Next, Seqs
<1> QED
  BY <1>3, <1>4, <1>5, <1>6

\* The control plane implements CommandExecution: whatever is lost, repeated
\* or started again, a command runs at most once, after it was issued, and
\* commands run in the order of their sequences (beginUpdateTask,
\* finishUpdateTask, loadAgentState).
THEOREM ExecutionRefined == Spec => ExecutionSpec
<1>1. Init => Execution!Init
  <2> SUFFICES ASSUME Init PROVE Execution!Init
    OBVIOUS
  <2>1. IssuedCommands = {} /\ ran = <<>>
    BY DEF Init, IssuedCommands
  <2> QED
    BY <2>1, FS_EmptySet DEF Execution!Init, IssuedCommands
<1>2. ControlInv /\ [Next]_vars => [Execution!Next]_(Execution!executionVars)
  BY StepSimulated
<1> QED
  BY <1>1, <1>2, ControlInvariant, PTL DEF Spec, ExecutionSpec, Execution!Spec

-----------------------------------------------------------------------------
(* The watermarks.                                                         *)

\* One of the two sides closed command s.
Settled(s) == status[s] \in Terminal \/ s \in tombs \/ records[s] \in Outcomes

Passed(w) == \A s \in Seqs : s <= w => Settled(s)

MarkPassed(m) == m.type \in {"ack", "gap", "handshake"} => Passed(m.mark)

AcksPassed == \A c \in Conns : Passed(ack[c].mark)

HandsPassed == \A c \in Conns : MarkPassed(hand[c])

\* Every mark, kept or on its way, passes closed commands only; the task in
\* progress is at most the next after the agent's.
MarksPassed ==
    /\ Passed(watermark) /\ Passed(mark) /\ task <= mark + 1
    /\ AcksPassed /\ HandsPassed
    /\ \A i \in 1..Len(toAgent) : MarkPassed(toAgent[i])
    /\ \A i \in 1..Len(toServer) : MarkPassed(toServer[i])

PassedInv == ControlInv /\ MarksPassed

\* What is closed stays closed.
StaysSettled == \A s \in Seqs : Settled(s) => Settled(s)'

LEMMA PassedKept ==
    ASSUME StaysSettled, NEW w, Passed(w)
    PROVE  Passed(w)'
BY DEF StaysSettled, Passed

LEMMA MarksKept ==
    ASSUME StaysSettled, NEW m, MarkPassed(m)
    PROVE  MarkPassed(m)'
BY PassedKept DEF MarkPassed

\* Messages that say nothing of a mark.
LEMMA Unmarked ==
    ASSUME NEW m, m.type \in {"command", "cancel", "status", "metrics"}
    PROVE  MarkPassed(m)'
BY DEF MarkPassed

\* The larger of two marks, the prefix of closed commands.
LEMMA PassedMarks ==
    ASSUME StoreTyped
    PROVE  /\ Passed(0)
           /\ \A a, b \in 0..MaxSeq : Passed(a) /\ Passed(b) => Passed(Larger(a, b))
           /\ Passed(ClosedPrefix(status, tombs))
<1>1. \A s \in Seqs : s \in Nat /\ s >= 1
  BY DEF Seqs
<1>2. Passed(0)
  BY <1>1 DEF Passed
<1>3. \A a, b \in 0..MaxSeq : Passed(a) /\ Passed(b) => Passed(Larger(a, b))
  BY DEF Larger
<1>4. Passed(ClosedPrefix(status, tombs))
  <2>1. PICK w \in 0..MaxSeq : w = ClosedPrefix(status, tombs)
    BY ClosedPrefixType
  <2>2. \A s \in 1..w : status[s] \in Terminal \/ s \in tombs
    BY <2>1, ClosedPrefixType
  <2>3. \A s \in Seqs : s <= w => s \in 1..w
    BY <1>1
  <2> QED
    BY <2>1, <2>2, <2>3 DEF Passed, Settled
<1> QED
  BY <1>2, <1>3, <1>4

\* The same of the state after a step.
LEMMA PrefixPassed ==
    ASSUME NEW v \in 0..MaxSeq, v = ClosedPrefix(status', tombs'),
           NEW w \in 0..MaxSeq, Passed(w)'
    PROVE  Passed(Larger(w, v))'
<1>1. \A s \in 1..v : status'[s] \in Terminal \/ s \in tombs'
  BY ClosedPrefixType
<1>2. \A s \in Seqs : s <= v => s \in 1..v
  BY DEF Seqs
<1>3. Passed(v)'
  BY <1>1, <1>2 DEF Passed, Settled
<1>4. Larger(w, v) = w \/ Larger(w, v) = v
  BY DEF Larger
<1> QED
  BY <1>3, <1>4

LEMMA ReconciledPassed ==
    ASSUME PassedInv, NEW w \in 0..MaxSeq, Passed(w)
    PROVE  Passed(Reconciled(w))
<1>1. StoreTyped /\ watermark \in 0..MaxSeq /\ Passed(watermark)
  BY DEF PassedInv, ControlInv, StoreTyped, MarksPassed
<1>2. PICK v \in 0..MaxSeq : v = ClosedPrefix(status, tombs) /\ Passed(v)
  BY <1>1, PassedMarks, ClosedPrefixType
<1>3. Larger(w, v) \in 0..MaxSeq /\ Passed(Larger(w, v))
  BY <1>1, <1>2, PassedMarks, LargerType
<1>4. Passed(Larger(watermark, Larger(w, v)))
  BY <1>1, <1>3, PassedMarks
<1> QED
  BY <1>1, <1>2, <1>4 DEF Reconciled

\* What the read loops have in their hands was there before.
LEMMA HandsKept ==
    ASSUME PassedInv, StaysSettled, HandKept
    PROVE  HandsPassed'
<1>1. \A c \in Conns :
         \/ hand'[c] = hand[c] \/ hand'[c] = NoMessage
         \/ 1 \in 1..Len(toServer) /\ hand'[c] = toServer[1]
  BY HandFacts DEF PassedInv, ControlInv, MessagesHold
<1>2. MarkPassed(NoMessage)
  BY DEF MarkPassed, NoMessage
<1>3. ASSUME NEW c \in Conns, NEW m, m = hand'[c] PROVE MarkPassed(m)'
  <2>1. MarkPassed(m)
    BY <1>1, <1>2, <1>3 DEF PassedInv, MarksPassed, HandsPassed
  <2> QED
    BY <2>1, MarksKept
<1> QED
  BY <1>3 DEF HandsPassed

\* A mark that is new passes closed commands, and so do those that were there.
LEMMA PassedStep ==
    ASSUME PassedInv, StaysSettled, HandKept,
           Passed(watermark)', Passed(mark)', AcksPassed', task' <= mark' + 1,
           NEW M, Drawn(toAgent', toAgent, M), \A m \in M : MarkPassed(m)',
           NEW N, Drawn(toServer', toServer, N), \A m \in N : MarkPassed(m)'
    PROVE  MarksPassed'
<1>1. /\ \A i \in 1..Len(toAgent) : MarkPassed(toAgent[i])
      /\ \A i \in 1..Len(toServer) : MarkPassed(toServer[i])
  BY DEF PassedInv, MarksPassed
<1>2. ASSUME NEW i \in 1..Len(toAgent'), NEW m, m = toAgent'[i] PROVE MarkPassed(m)'
  <2>1. CASE m \in M
    BY <2>1
  <2>2. CASE \E j \in 1..Len(toAgent) : m = toAgent[j]
    <3>1. MarkPassed(m)
      BY <1>1, <2>2
    <3> QED
      BY <3>1, MarksKept
  <2> QED
    BY <1>2, <2>1, <2>2 DEF Drawn
<1>3. ASSUME NEW i \in 1..Len(toServer'), NEW m, m = toServer'[i] PROVE MarkPassed(m)'
  <2>1. CASE m \in N
    BY <2>1
  <2>2. CASE \E j \in 1..Len(toServer) : m = toServer[j]
    <3>1. MarkPassed(m)
      BY <1>1, <2>2
    <3> QED
      BY <3>1, MarksKept
  <2> QED
    BY <1>3, <2>1, <2>2 DEF Drawn
<1> QED
  BY <1>2, <1>3, HandsKept DEF MarksPassed

\* Acks that are not touched.
LEMMA AcksKept ==
    ASSUME PassedInv, StaysSettled, UNCHANGED ack
    PROVE  AcksPassed'
<1>1. ASSUME NEW c \in Conns, NEW w, w = ack[c].mark PROVE Passed(w)'
  BY <1>1, PassedKept DEF PassedInv, MarksPassed, AcksPassed
<1> QED
  BY <1>1 DEF AcksPassed

\* A step of the server.
LEMMA ServerPasses ==
    ASSUME PassedInv, UNCHANGED agentVars, HandKept, StaysSettled, Passed(watermark)', AcksPassed',
           NEW M, Drawn(toAgent', toAgent, M), \A m \in M : MarkPassed(m)',
           Drawn(toServer', toServer, {})
    PROVE  MarksPassed'
<1>1. UNCHANGED <<mark, task>>
  BY DEF agentVars, stateVars, taskVars
<1>2. PICK w : w = mark /\ Passed(w) /\ task <= w + 1
  BY DEF PassedInv, MarksPassed
<1>3. Passed(w)'
  BY <1>2, PassedKept
<1>4. Passed(mark)' /\ task' <= mark' + 1
  BY <1>1, <1>2, <1>3
<1> QED
  BY <1>4, PassedStep

\* One that leaves the store and the acks alone.
LEMMA ServerQuiet ==
    ASSUME PassedInv, UNCHANGED <<status, tombs, watermark, agentVars>>, HandKept,
           AcksPassed' \/ UNCHANGED ack,
           NEW M, Drawn(toAgent', toAgent, M), \A m \in M : MarkPassed(m)',
           Drawn(toServer', toServer, {})
    PROVE  MarksPassed'
<1>1. StaysSettled
  BY DEF StaysSettled, Settled, agentVars, stateVars
<1>2. PICK w : w = watermark /\ Passed(w)
  BY DEF PassedInv, MarksPassed
<1>3. Passed(w)'
  BY <1>1, <1>2, PassedKept
<1>4. Passed(watermark)'
  BY <1>2, <1>3
<1> QED
  BY <1>1, <1>4, AcksKept, ServerPasses

\* A target that changes, and the watermark with it.
LEMMA TransitionPasses ==
    ASSUME PassedInv, NEW s \in Seqs, NEW new \in Statuses,
           Transition(s, new) \/ UNCHANGED <<status, watermark>>,
           UNCHANGED <<tombs, records>>
    PROVE  StaysSettled /\ Passed(watermark)'
<1>1. StoreTyped /\ watermark \in 0..MaxSeq /\ Passed(watermark)
  BY DEF PassedInv, ControlInv, StoreTyped, MarksPassed
<1>2. PICK w \in 0..MaxSeq : w = watermark
  BY <1>1
<1>3. CASE UNCHANGED <<status, watermark>>
  <2>1. StaysSettled
    BY <1>3 DEF StaysSettled, Settled
  <2>2. Passed(w)'
    BY <1>1, <1>2, <2>1, PassedKept
  <2> QED
    BY <1>2, <1>3, <2>1, <2>2
<1>4. CASE Transition(s, new) /\ Legal(status[s], new)
  <2>1. /\ status' = [status EXCEPT ![s] = new]
        /\ watermark' \in {watermark, Larger(watermark, ClosedPrefix(status', tombs))}
    BY <1>4 DEF Transition
  <2>2. status[s] \in Terminal => new = status[s]
    BY <1>4 DEF Legal, Terminal, Outcomes
  <2>3. StaysSettled
    BY <1>1, <2>1, <2>2 DEF StaysSettled, Settled, StoreTyped
  <2>4. Passed(w)'
    BY <1>1, <1>2, <2>3, PassedKept
  <2>5. PICK v \in 0..MaxSeq : v = ClosedPrefix(status', tombs')
    BY ClosedPrefixType
  <2>6. Passed(Larger(w, v))'
    BY <2>4, <2>5, PrefixPassed
  <2>7. watermark' = w \/ watermark' = Larger(w, v)
    BY <1>2, <2>1, <2>5
  <2> QED
    BY <2>3, <2>4, <2>6, <2>7
<1> QED
  BY <1>3, <1>4 DEF Transition

LEMMA CreatePasses ==
    ASSUME PassedInv, NEW s \in Seqs, CreateCommand(s)
    PROVE  MarksPassed'
<1>1. /\ status[s] = "absent" /\ status' = [status EXCEPT ![s] = "pending"]
      /\ UNCHANGED <<tombs, watermark, ack, hand, agentVars, linkVars>>
  BY DEF CreateCommand, readerVars
<1>2. UNCHANGED records
  BY <1>1 DEF agentVars, stateVars
<1>3. \A k \in Seqs : status[k] \in Terminal => status'[k] = status[k]
  BY <1>1 DEF PassedInv, ControlInv, StoreTyped, Terminal, Outcomes
<1>4. StaysSettled
  BY <1>1, <1>2, <1>3 DEF StaysSettled, Settled
<1>5. PICK w : w = watermark /\ Passed(w)
  BY DEF PassedInv, MarksPassed
<1>6. Passed(watermark)'
  <2>1. Passed(w)'
    BY <1>4, <1>5, PassedKept
  <2> QED
    BY <1>1, <1>5, <2>1
<1>7. AcksPassed' /\ Drawn(toServer', toServer, {}) /\ Drawn(toAgent', toAgent, {})
  BY <1>1, <1>4, AcksKept, LinkKept DEF PassedInv
<1> QED
  BY <1>1, <1>4, <1>6, <1>7, HandUntouched, ServerPasses

LEMMA CancelPasses ==
    ASSUME PassedInv, NEW s \in Seqs, CancelCommand(s)
    PROVE  MarksPassed'
<1>1. /\ tombs' = tombs \cup {s}
      /\ watermark' = Larger(watermark, ClosedPrefix(status, tombs'))
      /\ UNCHANGED <<status, ack, hand, agentVars, linkVars>>
  BY DEF CancelCommand, readerVars
<1>2. UNCHANGED records
  BY <1>1 DEF agentVars, stateVars
<1>3. StaysSettled
  BY <1>1, <1>2 DEF StaysSettled, Settled
<1>4. PICK w \in 0..MaxSeq : w = watermark /\ Passed(w)
  BY DEF PassedInv, MarksPassed, ControlInv, StoreTyped
<1>5. PICK v \in 0..MaxSeq : v = ClosedPrefix(status', tombs')
  BY ClosedPrefixType
<1>6. Passed(w)'
  BY <1>3, <1>4, PassedKept
<1>7. Passed(Larger(w, v))'
  BY <1>5, <1>6, PrefixPassed
<1>8. watermark' = Larger(w, v)
  BY <1>1, <1>4, <1>5
<1>9. AcksPassed' /\ Drawn(toServer', toServer, {}) /\ Drawn(toAgent', toAgent, {})
  BY <1>1, <1>3, AcksKept, LinkKept DEF PassedInv
<1> QED
  BY <1>1, <1>3, <1>7, <1>8, <1>9, HandUntouched, ServerPasses

LEMMA ResolvePasses ==
    ASSUME PassedInv, NEW s \in Seqs, ResolveUnknown(s)
    PROVE  MarksPassed'
<1>1. PICK r \in {"succeeded", "failed", "cancelled"} : status' = [status EXCEPT ![s] = r]
  BY DEF ResolveUnknown
<1>2. UNCHANGED <<tombs, watermark, threadVars, agentVars, linkVars>>
  BY DEF ResolveUnknown
<1>3. UNCHANGED <<records, ack>> /\ UNCHANGED hand
  BY <1>2 DEF agentVars, stateVars, threadVars, readerVars
<1>4. \A k \in Seqs : status'[k] = status[k] \/ status'[k] \in Terminal
  BY <1>1 DEF PassedInv, ControlInv, StoreTyped, Terminal, Outcomes
<1>5. StaysSettled
  BY <1>2, <1>3, <1>4 DEF StaysSettled, Settled
<1>6. PICK w : w = watermark /\ Passed(w)
  BY DEF PassedInv, MarksPassed
<1>7. Passed(watermark)'
  <2>1. Passed(w)'
    BY <1>5, <1>6, PassedKept
  <2> QED
    BY <1>2, <1>6, <2>1
<1>8. AcksPassed' /\ Drawn(toServer', toServer, {}) /\ Drawn(toAgent', toAgent, {})
  BY <1>2, <1>3, <1>5, AcksKept, LinkKept DEF PassedInv
<1> QED
  BY <1>2, <1>3, <1>5, <1>7, <1>8, HandUntouched, ServerPasses

\* Steps of the server that send nothing and leave the store alone.
LEMMA SilentPasses ==
    ASSUME PassedInv,
           \/ \E s \in Seqs : TestDelivery(s)
           \/ \E t \in Threads : ListPending(t) \/ TestNext(t)
           \/ \E c \in Conns : GraceExpires(c)
           \/ Unregister
    PROVE  MarksPassed'
<1>1. UNCHANGED <<storeVars, ack, agentVars, linkVars>> /\ UNCHANGED hand
  BY DEF TestDelivery, ListPending, TestNext, GraceExpires, Unregister, threadVars, readerVars
<1>2. UNCHANGED <<status, tombs, watermark>>
  BY <1>1 DEF storeVars
<1>3. Drawn(toServer', toServer, {}) /\ Drawn(toAgent', toAgent, {})
  BY <1>1, LinkKept DEF PassedInv
<1> QED
  BY <1>1, <1>2, <1>3, HandUntouched, ServerQuiet

LEMMA BreakPasses ==
    ASSUME PassedInv, BreakConnection
    PROVE  MarksPassed'
<1>1. /\ UNCHANGED <<status, tombs, watermark, ack, agentVars>> /\ UNCHANGED hand
      /\ Break
  BY DEF BreakConnection, serverVars, storeVars, threadVars, readerVars
<1>2. Drawn(toServer', toServer, {}) /\ Drawn(toAgent', toAgent, {})
  BY <1>1, BreakFacts DEF PassedInv
<1> QED
  BY <1>1, <1>2, HandUntouched, ServerQuiet

LEMMA RestartServerPasses ==
    ASSUME PassedInv, RestartServer
    PROVE  MarksPassed'
<1>1. /\ toAgent' = <<>> /\ toServer' = <<>> /\ ack' = [c \in Conns |-> NoAck]
      /\ hand' = [c \in Conns |-> NoMessage]
      /\ UNCHANGED <<status, tombs, watermark, agentVars>>
  BY DEF RestartServer, storeVars
<1>2. Drawn(toServer', toServer, {}) /\ Drawn(toAgent', toAgent, {})
  BY <1>1, DrawnFacts DEF PassedInv, ControlInv, LinkTyped
<1>3. ASSUME NEW c \in Conns, NEW w, w = ack'[c].mark PROVE Passed(w)'
  <2>1. w = 0
    BY <1>1, <1>3 DEF NoAck
  <2> QED
    BY <2>1 DEF Passed, Seqs
<1>4. AcksPassed'
  BY <1>3 DEF AcksPassed
<1>5. HandKept
  BY <1>1 DEF HandKept
<1> QED
  BY <1>1, <1>2, <1>4, <1>5, ServerQuiet

LEMMA SkipPasses ==
    ASSUME PassedInv, NEW s \in Seqs, SkipOffline(s)
    PROVE  MarksPassed'
<1>1. /\ Transition(s, "offline_skipped") /\ "offline_skipped" \in Statuses
      /\ UNCHANGED <<tombs, ack, hand, agentVars, linkVars>>
  BY DEF SkipOffline, Statuses, Terminal, readerVars
<1>2. UNCHANGED records
  BY <1>1 DEF agentVars, stateVars
<1>3. StaysSettled /\ Passed(watermark)'
  BY <1>1, <1>2, TransitionPasses
<1>4. AcksPassed' /\ Drawn(toServer', toServer, {}) /\ Drawn(toAgent', toAgent, {})
  BY <1>1, <1>3, AcksKept, LinkKept DEF PassedInv
<1> QED
  BY <1>1, <1>3, <1>4, HandUntouched, ServerPasses

LEMMA SendCommandPasses ==
    ASSUME PassedInv, NEW t \in Threads, SendCommand(t)
    PROVE  MarksPassed'
<1>1. /\ UNCHANGED <<status, tombs, watermark, ack, agentVars, conns, linked, toServer>>
      /\ UNCHANGED hand
      /\ \/ UNCHANGED toAgent
         \/ \E s \in Seqs : Sends([type |-> "command", seq |-> s])
  BY DEF SendCommand, storeVars, readerVars
<1>2. Drawn(toServer', toServer, {})
  BY <1>1, DrawnFacts DEF PassedInv, ControlInv, LinkTyped
<1>3. CASE UNCHANGED toAgent
  <2>1. Drawn(toAgent', toAgent, {})
    BY <1>3, DrawnFacts DEF PassedInv, ControlInv, LinkTyped
  <2> QED
    BY <1>1, <1>2, <2>1, HandUntouched, ServerQuiet
<1>4. ASSUME NEW s \in Seqs, Sends([type |-> "command", seq |-> s])
      PROVE  MarksPassed'
  <2>1. PICK m \in Messages : m = [type |-> "command", seq |-> s]
    BY DEF Messages
  <2>2. Drawn(toAgent', toAgent, {m})
    BY <1>1, <1>2, <1>4, <2>1, SendsFacts DEF PassedInv
  <2>3. MarkPassed(m)'
    BY <2>1, Unmarked
  <2> QED
    BY <1>1, <1>2, <2>2, <2>3, HandUntouched, ServerQuiet
<1> QED
  BY <1>1, <1>3, <1>4

LEMMA MarkSentPasses ==
    ASSUME PassedInv, NEW t \in Threads, MarkSent(t)
    PROVE  MarksPassed'
<1>1. PICK s \in Seqs :
         /\ Transition(s, "dispatched")
         /\ UNCHANGED <<tombs, ack, hand, agentVars, linkVars>>
  BY DEF MarkSent, readerVars
<1>2. "dispatched" \in Statuses /\ UNCHANGED records
  BY <1>1 DEF Statuses, Open, agentVars, stateVars
<1>3. StaysSettled /\ Passed(watermark)'
  BY <1>1, <1>2, TransitionPasses
<1>4. AcksPassed' /\ Drawn(toServer', toServer, {}) /\ Drawn(toAgent', toAgent, {})
  BY <1>1, <1>3, AcksKept, LinkKept DEF PassedInv
<1> QED
  BY <1>1, <1>3, <1>4, HandUntouched, ServerPasses

LEMMA SendCancelPasses ==
    ASSUME PassedInv, NEW s \in Seqs, SendCancel(s)
    PROVE  MarksPassed'
<1>1. /\ Sends([type |-> "cancel", seq |-> s]) \/ UNCHANGED toAgent
      /\ UNCHANGED <<status, tombs, watermark, ack, hand, agentVars, conns, linked, toServer>>
  BY DEF SendCancel, storeVars, readerVars
<1>2. PICK m \in Messages : m = [type |-> "cancel", seq |-> s]
  BY DEF Messages
<1>3. Drawn(toServer', toServer, {})
  BY <1>1, DrawnFacts DEF PassedInv, ControlInv, LinkTyped
<1>4. Drawn(toAgent', toAgent, {m})
  BY <1>1, <1>2, <1>3, SendsFacts DEF PassedInv
<1>5. MarkPassed(m)'
  BY <1>2, Unmarked
<1> QED
  BY <1>1, <1>3, <1>4, <1>5, HandUntouched, ServerQuiet

LEMMA SendAckPasses ==
    ASSUME PassedInv, NEW c \in Conns, SendAck(c)
    PROVE  MarksPassed'
<1>1. PICK w \in 0..MaxSeq, k \in Controls : w = ack[c].mark /\ k = ack[c].control
  BY DEF PassedInv, ControlInv, ThreadTyped
<1>2. /\ Sends([type |-> "ack", mark |-> w, control |-> k]) \/ UNCHANGED toAgent
      /\ ack' = [ack EXCEPT ![c] = NoAck]
      /\ UNCHANGED <<status, tombs, watermark, hand, agentVars, conns, linked, toServer>>
  BY <1>1 DEF SendAck, storeVars
<1>3. PICK m \in Messages : m = [type |-> "ack", mark |-> w, control |-> k]
  BY DEF Messages
<1>4. Drawn(toServer', toServer, {})
  BY <1>2, DrawnFacts DEF PassedInv, ControlInv, LinkTyped
<1>5. Drawn(toAgent', toAgent, {m})
  BY <1>2, <1>3, <1>4, SendsFacts DEF PassedInv
<1>6. StaysSettled
  BY <1>2 DEF StaysSettled, Settled, agentVars, stateVars
<1>7. MarkPassed(m)'
  <2>1. Passed(w)'
    BY <1>1, <1>6, PassedKept DEF PassedInv, MarksPassed, AcksPassed
  <2>2. m.mark = w
    BY <1>3
  <2> QED
    BY <2>1, <2>2 DEF MarkPassed
<1>8. AcksPassed'
  <2>1. ASSUME NEW d \in Conns, NEW v, v = ack'[d].mark PROVE Passed(v)'
    <3>1. CASE d = c
      <4>1. v = 0
        BY <1>2, <2>1, <3>1 DEF PassedInv, ControlInv, ThreadTyped, NoAck
      <4> QED
        BY <4>1 DEF Passed, Seqs
    <3>2. CASE d # c
      <4>1. v = ack[d].mark
        BY <1>2, <2>1, <3>2 DEF PassedInv, ControlInv, ThreadTyped
      <4>2. Passed(v)
        BY <4>1 DEF PassedInv, MarksPassed, AcksPassed
      <4> QED
        BY <1>6, <4>2, PassedKept
    <3> QED
      BY <3>1, <3>2
  <2> QED
    BY <2>1 DEF AcksPassed
<1> QED
  BY <1>2, <1>4, <1>5, <1>7, <1>8, HandUntouched, ServerQuiet

LEMMA TakeMessagePasses ==
    ASSUME PassedInv, NEW c \in Conns, TakeMessage(c)
    PROVE  MarksPassed'
<1>1. /\ toServer # <<>> /\ toServer' = Tail(toServer)
      /\ hand' = [hand EXCEPT ![c] = Head(toServer)]
      /\ UNCHANGED <<status, tombs, watermark, ack, agentVars, toAgent>>
  BY DEF TakeMessage, storeVars
<1>2. Drawn(toServer', toServer, {}) /\ Drawn(toAgent', toAgent, {})
  BY <1>1, DrawnFacts DEF PassedInv, ControlInv, LinkTyped
<1>3. HandKept
  BY <1>1 DEF HandKept
<1> QED
  BY <1>1, <1>2, <1>3, ServerQuiet

\* The message that a read loop handles, and the mark in it.
LEMMA HeldPassed ==
    ASSUME PassedInv, NEW c \in Conns, NEW kind, kind # "none", Handles(c, kind)
    PROVE  /\ HandKept
           /\ \E m \in Messages : m = hand[c] /\ m.type = kind /\ MarkPassed(m)
<1>1. hand[c] \in Messages /\ hand[c].type = kind /\ HandKept
  BY HeldFacts DEF PassedInv
<1>2. MarkPassed(hand[c])
  BY DEF PassedInv, MarksPassed, HandsPassed
<1> QED
  BY <1>1, <1>2

LEMMA HandleStatusPasses ==
    ASSUME PassedInv, NEW c \in Conns, HandleStatus(c)
    PROVE  MarksPassed'
<1>1. HandKept
  BY HeldPassed DEF HandleStatus
<1>2. PICK m \in Messages : m = hand[c] /\ m.type = "status"
  BY HeldPassed DEF HandleStatus
<1>3. m.seq \in Seqs /\ m.status \in Statuses
  BY <1>2, MessageFacts
<1>4. Transition(m.seq, m.status) /\ UNCHANGED <<tombs, ack, records, agentVars, linkVars>>
  BY <1>2 DEF HandleStatus, agentVars, stateVars
<1>5. StaysSettled /\ Passed(watermark)'
  BY <1>3, <1>4, TransitionPasses
<1>6. AcksPassed' /\ Drawn(toServer', toServer, {}) /\ Drawn(toAgent', toAgent, {})
  BY <1>4, <1>5, AcksKept, LinkKept DEF PassedInv
<1> QED
  BY <1>1, <1>4, <1>5, <1>6, ServerPasses

\* The server takes over the mark of an agent.
LEMMA HandleGapPasses ==
    ASSUME PassedInv, NEW c \in Conns, HandleGap(c)
    PROVE  MarksPassed'
<1>1. HandKept
  BY HeldPassed DEF HandleGap
<1>2. PICK m \in Messages : m = hand[c] /\ m.type = "gap" /\ MarkPassed(m)
  BY HeldPassed DEF HandleGap
<1>3. /\ watermark' = Reconciled(m.mark)
      /\ UNCHANGED <<status, tombs, ack, agentVars, linkVars>>
  BY <1>2 DEF HandleGap
<1>4. m.mark \in 0..MaxSeq /\ Passed(m.mark)
  BY <1>2, MessageFacts DEF MarkPassed
<1>5. PICK w : w = Reconciled(m.mark) /\ Passed(w)
  BY <1>4, ReconciledPassed
<1>6. StaysSettled
  BY <1>3 DEF StaysSettled, Settled, agentVars, stateVars
<1>7. Passed(watermark)'
  <2>1. Passed(w)'
    BY <1>5, <1>6, PassedKept
  <2> QED
    BY <1>3, <1>5, <2>1
<1>8. AcksPassed' /\ Drawn(toServer', toServer, {}) /\ Drawn(toAgent', toAgent, {})
  BY <1>3, <1>6, AcksKept, LinkKept DEF PassedInv
<1> QED
  BY <1>1, <1>3, <1>6, <1>7, <1>8, ServerPasses

LEMMA HandleHandshakePasses ==
    ASSUME PassedInv, NEW c \in Conns, HandleHandshake(c)
    PROVE  MarksPassed'
<1>1. HandKept
  BY HeldPassed DEF HandleHandshake
<1>2. PICK m \in Messages : m = hand[c] /\ m.type = "handshake" /\ MarkPassed(m)
  BY HeldPassed DEF HandleHandshake
<1>3. /\ watermark' = IF m.control = "quarantined" THEN watermark ELSE Reconciled(m.mark)
      /\ status' = BackFilled(m.records)
      /\ \/ ack' = [ack EXCEPT ![c] = [mark |-> watermark', control |-> control']]
         \/ UNCHANGED ack
      /\ UNCHANGED <<tombs, agentVars, linkVars>>
  BY <1>2 DEF HandleHandshake
<1>4. m.mark \in 0..MaxSeq /\ Passed(m.mark)
  BY <1>2, MessageFacts DEF MarkPassed
<1>5. PICK w : w = watermark' /\ Passed(w)
  <2>1. Passed(Reconciled(m.mark)) /\ Passed(watermark)
    BY <1>4, ReconciledPassed DEF PassedInv, MarksPassed
  <2> QED
    BY <1>3, <2>1
<1>6. StaysSettled
  <2>1. \A s \in Seqs : status[s] \in Terminal => status'[s] = status[s]
    BY <1>3 DEF BackFilled, Legal, Terminal, Outcomes
  <2> QED
    BY <1>3, <2>1 DEF StaysSettled, Settled, agentVars, stateVars
<1>7. Passed(w)'
  BY <1>5, <1>6, PassedKept
<1>8. Passed(watermark)'
  BY <1>5, <1>7
<1>9. ASSUME ack' = [ack EXCEPT ![c] = [mark |-> watermark', control |-> control']]
      PROVE  AcksPassed'
  <2>1. ASSUME NEW d \in Conns, NEW v, v = ack'[d].mark PROVE Passed(v)'
    <3>1. CASE d = c
      <4>1. v = w
        BY <1>5, <1>9, <2>1, <3>1 DEF PassedInv, ControlInv, ThreadTyped
      <4> QED
        BY <1>7, <4>1
    <3>2. CASE d # c
      <4>1. v = ack[d].mark
        BY <1>9, <2>1, <3>2 DEF PassedInv, ControlInv, ThreadTyped
      <4>2. Passed(v)
        BY <4>1 DEF PassedInv, MarksPassed, AcksPassed
      <4> QED
        BY <1>6, <4>2, PassedKept
    <3> QED
      BY <3>1, <3>2
  <2> QED
    BY <2>1 DEF AcksPassed
<1>10. AcksPassed'
  BY <1>3, <1>6, <1>9, AcksKept
<1>11. Drawn(toServer', toServer, {}) /\ Drawn(toAgent', toAgent, {})
  BY <1>3, LinkKept DEF PassedInv
<1> QED
  BY <1>1, <1>3, <1>6, <1>8, <1>10, <1>11, ServerPasses

LEMMA HandleMetricsPasses ==
    ASSUME PassedInv, NEW c \in Conns, HandleMetrics(c)
    PROVE  MarksPassed'
<1>1. PICK ended \in SUBSET Seqs :
         /\ status' = [s \in Seqs |-> IF s \in ended THEN "succeeded" ELSE status[s]]
         /\ watermark' \in {watermark, Larger(watermark, ClosedPrefix(status', tombs))}
         /\ HandKept
         /\ UNCHANGED <<tombs, ack, stateVars, taskVars, linkVars>>
  BY MetricsFacts DEF PassedInv
<1>2. UNCHANGED <<mark, records, task>>
  BY <1>1 DEF stateVars, taskVars
<1>3. StaysSettled
  BY <1>1, <1>2 DEF StaysSettled, Settled, Terminal, Outcomes
<1>4. PICK w \in 0..MaxSeq, n \in 0..MaxSeq :
         w = watermark /\ n = mark /\ Passed(w) /\ Passed(n) /\ task <= n + 1
  BY DEF PassedInv, MarksPassed, ControlInv, StoreTyped, StateTyped
<1>5. PICK v \in 0..MaxSeq : v = ClosedPrefix(status', tombs')
  BY ClosedPrefixType
<1>6. Passed(w)' /\ Passed(n)'
  BY <1>3, <1>4, PassedKept
<1>7. Passed(Larger(w, v))'
  BY <1>5, <1>6, PrefixPassed
<1>8. watermark' = w \/ watermark' = Larger(w, v)
  BY <1>1, <1>4, <1>5
<1>9. Passed(watermark)' /\ Passed(mark)' /\ task' <= mark' + 1
  BY <1>2, <1>4, <1>6, <1>7, <1>8
<1>10. AcksPassed' /\ Drawn(toServer', toServer, {}) /\ Drawn(toAgent', toAgent, {})
  BY <1>1, <1>3, AcksKept, LinkKept DEF PassedInv
<1> QED
  BY <1>1, <1>3, <1>9, <1>10, PassedStep

LEMMA ConnectPasses ==
    ASSUME PassedInv, Connect
    PROVE  MarksPassed'
<1>1. /\ toAgent' = <<>>
      /\ toServer' = <<[type |-> "handshake", mark |-> mark, control |-> block,
                        records |-> records]>>
      /\ UNCHANGED <<storeVars, ack, hand, agentVars>>
  BY DEF Connect, readerVars
<1>2. UNCHANGED <<status, tombs, watermark, mark, task, records>>
  BY <1>1 DEF storeVars, agentVars, stateVars, taskVars
<1>3. PICK m \in Messages :
         m = [type |-> "handshake", mark |-> mark, control |-> block, records |-> records]
  BY DEF PassedInv, ControlInv, StateTyped, Messages
<1>4. StaysSettled
  BY <1>2 DEF StaysSettled, Settled
<1>5. PICK v, w : /\ v = watermark /\ w = mark /\ Passed(v) /\ Passed(w)
                  /\ task <= mark + 1
  BY DEF PassedInv, MarksPassed
<1>6. Passed(v)' /\ Passed(w)'
  BY <1>4, <1>5, PassedKept
<1>7. Passed(watermark)' /\ Passed(mark)' /\ task' <= mark' + 1
  BY <1>2, <1>5, <1>6
<1>8. MarkPassed(m)'
  <2>1. m.mark = w
    BY <1>3, <1>5
  <2> QED
    BY <1>6, <2>1 DEF MarkPassed
<1>9. toAgent \in Seq(Messages) /\ toServer \in Seq(Messages)
  BY DEF PassedInv, ControlInv, LinkTyped
<1>10. Drawn(toAgent', toAgent, {m}) /\ Drawn(toServer', toServer, {m})
  <2>1. toServer' = <<m>>
    BY <1>1, <1>3
  <2> QED
    BY <1>1, <1>9, <2>1, DrawnFacts
<1>11. AcksPassed'
  BY <1>1, <1>4, AcksKept
<1> QED
  BY <1>1, <1>4, <1>7, <1>8, <1>10, <1>11, HandUntouched, PassedStep

\* A step of the agent.
LEMMA AgentPasses ==
    ASSUME PassedInv, UNCHANGED serverVars, StaysSettled, Passed(mark)', task' <= mark' + 1,
           Drawn(toAgent', toAgent, {}),
           NEW M, Drawn(toServer', toServer, M), \A m \in M : MarkPassed(m)'
    PROVE  MarksPassed'
<1>1. UNCHANGED <<watermark, ack>> /\ UNCHANGED hand
  BY DEF serverVars, storeVars, threadVars, readerVars
<1>2. PICK w : w = watermark /\ Passed(w)
  BY DEF PassedInv, MarksPassed
<1>3. Passed(w)'
  BY <1>2, PassedKept
<1>4. Passed(watermark)'
  BY <1>1, <1>2, <1>3
<1> QED
  BY <1>1, <1>4, AcksKept, HandUntouched, PassedStep

\* One that leaves the mark alone and takes no verdict back.
LEMMA AgentQuiet ==
    ASSUME PassedInv, UNCHANGED <<serverVars, mark>>,
           \A s \in Seqs : records[s] \in Outcomes => records'[s] \in Outcomes,
           task' <= mark + 1, Drawn(toAgent', toAgent, {}),
           NEW M, Drawn(toServer', toServer, M),
           \A m \in M : m.type \in {"status", "gap", "metrics"} /\ (m.type = "gap" => m.mark = mark)
    PROVE  MarksPassed'
<1>1. UNCHANGED <<status, tombs>>
  BY DEF serverVars, storeVars
<1>2. StaysSettled
  BY <1>1 DEF StaysSettled, Settled
<1>3. PICK w : w = mark /\ Passed(w)
  BY DEF PassedInv, MarksPassed
<1>4. Passed(w)'
  BY <1>2, <1>3, PassedKept
<1>5. Passed(mark)'
  BY <1>3, <1>4
<1>6. ASSUME NEW m \in M PROVE MarkPassed(m)'
  BY <1>3, <1>4 DEF MarkPassed
<1> QED
  BY <1>2, <1>5, <1>6, AgentPasses

LEMMA AdmitPasses ==
    ASSUME PassedInv, NEW s \in Seqs, Admit(s)
    PROVE  MarksPassed'
<1>1. /\ Takes("command") /\ s = mark + 1 /\ records[s] = "none" /\ task' = s
      /\ records' = [records EXCEPT ![s] = "accepted"]
      /\ UNCHANGED <<serverVars, mark, conns, linked, toServer>>
  BY DEF Admit, Admits
<1>2. \A k \in Seqs : records[k] \in Outcomes => records'[k] \in Outcomes
  BY <1>1 DEF PassedInv, ControlInv, StateTyped, Outcomes
<1>3. task' <= mark + 1
  BY <1>1 DEF Seqs
<1>4. Drawn(toAgent', toAgent, {})
  BY <1>1, TakesFacts DEF PassedInv
<1>5. Drawn(toServer', toServer, {})
  BY <1>1, DrawnFacts DEF PassedInv, ControlInv, LinkTyped
<1> QED
  BY <1>1, <1>2, <1>3, <1>4, <1>5, AgentQuiet

\* Answers of an agent that keeps its state.
LEMMA AnswerPasses ==
    ASSUME PassedInv, UNCHANGED <<serverVars, mark, records, task, conns, linked>>,
           Drawn(toAgent', toAgent, {}), NEW m \in Messages, NoAnswer \/ Answers(m),
           m.type \in {"status", "gap", "metrics"} /\ (m.type = "gap" => m.mark = mark)
    PROVE  MarksPassed'
<1>1. Drawn(toServer', toServer, {m})
  <2>1. toAgent' \in Seq(Messages)
    BY DEF Drawn
  <2> QED
    BY <2>1, AnswersFacts DEF PassedInv
<1>2. task' <= mark + 1
  BY DEF PassedInv, MarksPassed
<1> QED
  BY <1>1, <1>2, AgentQuiet

LEMMA RefusePasses ==
    ASSUME PassedInv, NEW s \in Seqs, QuarantineUnbound(s) \/ Refuse(s)
    PROVE  MarksPassed'
<1>1. /\ Takes("command") /\ UNCHANGED <<serverVars, mark, records, task, conns, linked>>
      /\ \/ NoAnswer \/ Answers([type |-> "gap", mark |-> mark])
         \/ records[s] # "none" /\ Answers(Report(s, records[s]))
         \/ Answers(Report(s, "failed"))
  <2>1. CASE QuarantineUnbound(s)
    BY <2>1 DEF QuarantineUnbound, taskVars, NoAnswer
  <2>2. CASE Refuse(s)
    <3>1. Takes("command") /\ UNCHANGED <<serverVars, stateVars, taskVars, conns, linked>>
      BY <2>2 DEF Refuse
    <3>2. \/ NoAnswer \/ Answers([type |-> "gap", mark |-> mark])
          \/ records[s] # "none" /\ Answers(Report(s, records[s]))
          \/ Answers(Report(s, "failed"))
      BY <2>2, Zenon DEF Refuse
    <3> QED
      BY <3>1, <3>2 DEF stateVars, taskVars
  <2> QED
    BY <2>1, <2>2
<1>2. Drawn(toAgent', toAgent, {})
  BY <1>1, TakesFacts DEF PassedInv
<1>3. CASE Answers([type |-> "gap", mark |-> mark])
  <2>1. PICK m \in Messages : m = [type |-> "gap", mark |-> mark]
    BY DEF PassedInv, ControlInv, StateTyped, Messages
  <2>2. m.type = "gap" /\ m.mark = mark /\ Answers(m)
    BY <1>3, <2>1
  <2> QED
    BY <1>1, <1>2, <2>2, AnswerPasses
<1>4. CASE \/ NoAnswer
           \/ records[s] # "none" /\ Answers(Report(s, records[s]))
           \/ Answers(Report(s, "failed"))
  <2>1. PICK v \in Statuses : NoAnswer \/ Answers(Report(s, v))
    BY <1>4 DEF PassedInv, ControlInv, StateTyped, Statuses, Terminal, Outcomes
  <2>2. PICK m \in Messages : m = Report(s, v) /\ m.type = "status"
    BY ReportFacts
  <2> QED
    BY <1>1, <1>2, <2>1, <2>2, AnswerPasses
<1> QED
  BY <1>1, <1>3, <1>4

LEMMA ReceiveCancelPasses ==
    ASSUME PassedInv, ReceiveCancel
    PROVE  MarksPassed'
<1>1. PICK s \in Seqs :
         /\ Takes("cancel")
         /\ NoAnswer \/ Answers(Report(s, "accepted")) \/ Answers(Report(s, "cancelled"))
         /\ UNCHANGED <<serverVars, stateVars, task, conns, linked>>
  BY Zenon DEF ReceiveCancel
<1>2. PICK v \in {"accepted", "cancelled"} : NoAnswer \/ Answers(Report(s, v))
  BY <1>1
<1>3. v \in Statuses
  BY DEF Statuses, Terminal, Outcomes
<1>4. PICK m \in Messages : m = Report(s, v) /\ m.type = "status"
  BY <1>3, ReportFacts
<1>5. UNCHANGED <<mark, records>>
  BY <1>1 DEF stateVars
<1>6. Drawn(toAgent', toAgent, {})
  BY <1>1, TakesFacts DEF PassedInv
<1> QED
  BY <1>1, <1>2, <1>4, <1>5, <1>6, AnswerPasses

LEMMA StartPasses ==
    ASSUME PassedInv, StartTask
    PROVE  MarksPassed'
<1>1. /\ stage = "admitted" /\ Answers(Report(task, "accepted"))
      /\ UNCHANGED <<serverVars, stateVars, task, conns, linked, toAgent>>
  BY DEF StartTask
<1>2. PICK s \in Seqs : s = task
  BY <1>1, TaskInProgress DEF PassedInv
<1>3. PICK m \in Messages : m = Report(s, "accepted") /\ m.type = "status"
  BY ReportFacts DEF Statuses
<1>4. UNCHANGED <<mark, records>>
  BY <1>1 DEF stateVars
<1>5. Drawn(toAgent', toAgent, {})
  BY <1>1, DrawnFacts DEF PassedInv, ControlInv, LinkTyped
<1> QED
  BY <1>1, <1>2, <1>3, <1>4, <1>5, AnswerPasses

LEMMA CommitPasses ==
    ASSUME PassedInv, CommitTask \/ AbortUpdateTask
    PROVE  MarksPassed'
<1>1. /\ stage # "idle" /\ UNCHANGED <<serverVars, mark, linkVars>> /\ task' \in {task, 0}
      /\ UNCHANGED records \/ records' = [records EXCEPT ![task] = "none"]
  BY DEF CommitTask, AbortUpdateTask, stateVars
<1>2. PICK s \in Seqs : s = task /\ records[s] = "accepted"
  BY <1>1, TaskInProgress DEF PassedInv
<1>3. \A k \in Seqs : records[k] \in Outcomes => records'[k] \in Outcomes
  BY <1>1, <1>2 DEF PassedInv, ControlInv, StateTyped, Outcomes
<1>4. task' <= mark + 1
  BY <1>1 DEF PassedInv, ControlInv, StateTyped, MarksPassed
<1>5. Drawn(toServer', toServer, {}) /\ Drawn(toAgent', toAgent, {})
  BY <1>1, LinkKept DEF PassedInv
<1> QED
  BY <1>1, <1>3, <1>4, <1>5, AgentQuiet

\* The agent takes over the mark of the server.
LEMMA ReceiveAckPasses ==
    ASSUME PassedInv, ReceiveAck
    PROVE  MarksPassed'
<1>1. PICK m \in First(toAgent) :
         /\ Takes("ack") /\ mark' \in {mark, Larger(mark, m.mark)}
         /\ UNCHANGED <<serverVars, records, taskVars, conns, linked, toServer>>
  BY DEF ReceiveAck
<1>2. /\ toAgent # <<>> /\ m = Head(toAgent) /\ m \in Messages /\ m.type = "ack"
      /\ Drawn(toAgent', toAgent, {})
  BY <1>1, TakesFacts DEF PassedInv, First
<1>3. MarkPassed(m)
  <2>1. toAgent \in Seq(Messages) /\ \A i \in 1..Len(toAgent) : MarkPassed(toAgent[i])
    BY DEF PassedInv, ControlInv, LinkTyped, MarksPassed
  <2>2. 1 \in 1..Len(toAgent) /\ m = toAgent[1]
    BY <1>2, <2>1
  <2> QED
    BY <2>1, <2>2
<1>4. m.mark \in 0..MaxSeq /\ Passed(m.mark)
  BY <1>2, <1>3, MessageFacts DEF MarkPassed
<1>5. StoreTyped /\ mark \in 0..MaxSeq /\ Passed(mark) /\ task \in 0..MaxSeq /\ task <= mark + 1
  BY DEF PassedInv, ControlInv, StateTyped, TaskTyped, MarksPassed
<1>6. PICK w \in 0..MaxSeq : w = mark' /\ Passed(w) /\ mark <= w
  <2>1. /\ Larger(mark, m.mark) \in 0..MaxSeq /\ mark <= Larger(mark, m.mark)
        /\ Passed(Larger(mark, m.mark))
    BY <1>4, <1>5, LargerType, PassedMarks
  <2> QED
    BY <1>1, <1>5, <2>1
<1>7. StaysSettled
  BY <1>1 DEF StaysSettled, Settled, serverVars, storeVars
<1>8. Passed(mark)'
  <2>1. Passed(w)'
    BY <1>6, <1>7, PassedKept
  <2> QED
    BY <1>6, <2>1
<1>9. task' <= mark' + 1
  <2>1. PICK t, n \in Nat : t = task /\ n = mark
    BY <1>5
  <2>2. t <= n + 1 /\ n <= w /\ task' = t /\ mark' = w
    BY <1>1, <1>5, <1>6, <2>1 DEF taskVars
  <2>3. t <= w + 1
    BY <2>2
  <2> QED
    BY <2>2, <2>3
<1>10. Drawn(toServer', toServer, {})
  BY <1>1, DrawnFacts DEF PassedInv, ControlInv, LinkTyped
<1> QED
  BY <1>1, <1>2, <1>7, <1>8, <1>9, <1>10, AgentPasses

\* A task that ends retires its command, which is the next or passed.
LEMMA SettlesPasses ==
    ASSUME PassedInv, stage # "idle", NEW v \in Outcomes, Settles(v), UNCHANGED serverVars
    PROVE  StaysSettled /\ Passed(mark)' /\ task' <= mark' + 1
<1>1. PICK s \in Seqs : s = task
  BY TaskInProgress DEF PassedInv
<1>2. PICK w \in 0..MaxSeq : w = mark /\ Passed(w) /\ s <= w + 1
  BY <1>1 DEF PassedInv, ControlInv, StateTyped, MarksPassed
<1>3. /\ records' = [records EXCEPT ![s] = v] /\ mark' = Larger(w, s) /\ task' = 0
      /\ UNCHANGED <<status, tombs>>
  BY <1>1, <1>2 DEF Settles, serverVars, storeVars
<1>4. \A k \in Seqs : records'[k] = IF k = s THEN v ELSE records[k]
  BY <1>3 DEF PassedInv, ControlInv, StateTyped
<1>5. StaysSettled
  BY <1>3, <1>4 DEF StaysSettled, Settled
<1>6. Passed(w)'
  BY <1>2, <1>5, PassedKept
<1>7. Settled(s)'
  BY <1>4 DEF Settled
<1>8. Passed(s)'
  <2>1. \A k \in Seqs : k <= s => k <= w \/ k = s
    BY <1>2 DEF Seqs
  <2> QED
    BY <1>6, <1>7, <2>1 DEF Passed
<1>9. Larger(w, s) = w \/ Larger(w, s) = s
  BY DEF Larger
<1>10. Passed(mark)'
  BY <1>3, <1>6, <1>8, <1>9
<1>11. task' <= mark' + 1
  BY <1>2, <1>3, <1>9 DEF Seqs
<1> QED
  BY <1>5, <1>10, <1>11

LEMMA FinishPasses ==
    ASSUME PassedInv, FinishTask
    PROVE  MarksPassed'
<1>1. PICK v \in Outcomes :
         /\ stage # "idle" /\ Settles(v)
         /\ Answers(Report(task, v)) \/ NoAnswer
  BY DEF FinishTask, Outcomes
<1>2. UNCHANGED <<serverVars, conns, linked, toAgent>>
  BY DEF FinishTask
<1>3. PICK s \in Seqs : s = task
  BY <1>1, TaskInProgress DEF PassedInv
<1>4. PICK m \in Messages : m = Report(s, v) /\ m.type = "status"
  BY ReportFacts DEF Statuses, Terminal
<1>5. StaysSettled /\ Passed(mark)' /\ task' <= mark' + 1
  BY <1>1, <1>2, SettlesPasses
<1>6. Drawn(toAgent', toAgent, {}) /\ toAgent' \in Seq(Messages)
  BY <1>2, DrawnFacts DEF PassedInv, ControlInv, LinkTyped
<1>7. Drawn(toServer', toServer, {m})
  BY <1>1, <1>2, <1>3, <1>4, <1>6, AnswersFacts DEF PassedInv
<1>8. MarkPassed(m)'
  BY <1>4, Unmarked
<1> QED
  BY <1>2, <1>5, <1>6, <1>7, <1>8, AgentPasses

LEMMA RestartPasses ==
    ASSUME PassedInv, Restart
    PROVE  MarksPassed'
<1>1. UNCHANGED serverVars /\ Break
  BY DEF Restart
<1>2. Drawn(toServer', toServer, {}) /\ Drawn(toAgent', toAgent, {})
  BY <1>1, BreakFacts DEF PassedInv
<1>3. CASE task = 0
  <2>1. UNCHANGED <<mark, records, task>>
    BY <1>3 DEF Restart, stateVars, taskVars
  <2>2. task' <= mark + 1
    BY <2>1 DEF PassedInv, MarksPassed
  <2> QED
    BY <1>1, <1>2, <2>1, <2>2, AgentQuiet
<1>4. CASE task # 0
  <2>1. stage # "idle"
    BY <1>4 DEF PassedInv, ControlInv, TaskInStep
  <2>2. PICK v \in Outcomes : Settles(v)
    BY <1>4 DEF Restart, Recovered, Outcomes
  <2>3. StaysSettled /\ Passed(mark)' /\ task' <= mark' + 1
    BY <1>1, <2>1, <2>2, SettlesPasses
  <2> QED
    BY <1>1, <1>2, <2>3, AgentPasses
<1> QED
  BY <1>3, <1>4

LEMMA ReportVersionPasses ==
    ASSUME PassedInv, ReportVersion
    PROVE  MarksPassed'
<1>1. /\ Answers([type |-> "metrics", version |-> version])
      /\ UNCHANGED <<serverVars, mark, records, task, conns, linked, toAgent>>
  BY DEF ReportVersion, agentVars, stateVars, taskVars
<1>2. PICK m \in Messages : m = [type |-> "metrics", version |-> version]
  BY DEF PassedInv, ControlInv, VersionsKnown, Messages
<1>3. m.type = "metrics"
  BY <1>2
<1>4. Drawn(toAgent', toAgent, {})
  BY <1>1, DrawnFacts DEF PassedInv, ControlInv, LinkTyped
<1> QED
  BY <1>1, <1>2, <1>3, <1>4, AnswerPasses

LEMMA PassedInit == Init => MarksPassed
<1> SUFFICES ASSUME Init PROVE MarksPassed
  OBVIOUS
<1>1. /\ watermark = 0 /\ mark = 0 /\ task = 0 /\ ack = [c \in Conns |-> NoAck]
      /\ hand = [c \in Conns |-> NoMessage]
      /\ toAgent = <<>> /\ toServer = <<>>
  BY DEF Init
<1>2. Passed(0)
  BY DEF Passed, Seqs
<1>3. AcksPassed
  BY <1>1, <1>2 DEF AcksPassed, NoAck
<1>4. HandsPassed
  <2>1. MarkPassed(NoMessage)
    BY DEF MarkPassed, NoMessage
  <2> QED
    BY <1>1, <2>1 DEF HandsPassed
<1> QED
  BY <1>1, <1>2, <1>3, <1>4 DEF MarksPassed

LEMMA PassedNext ==
    ASSUME PassedInv, [Next]_vars
    PROVE  MarksPassed'
<1>1. ASSUME NEW s \in Seqs,
             \/ CreateCommand(s) \/ CancelCommand(s) \/ ResolveUnknown(s)
             \/ TestDelivery(s) \/ SkipOffline(s) \/ SendCancel(s)
      PROVE  MarksPassed'
  BY <1>1, CreatePasses, CancelPasses, ResolvePasses, SilentPasses, SkipPasses,
     SendCancelPasses
<1>2. ASSUME NEW t \in Threads, ServerThread(t)
      PROVE  MarksPassed'
  BY <1>2, SilentPasses, SendCommandPasses, MarkSentPasses DEF ServerThread
<1>3. ASSUME NEW c \in Conns, ReadLoop(c) \/ GraceExpires(c)
      PROVE  MarksPassed'
  BY <1>3, HandleHandshakePasses, SendAckPasses, HandleStatusPasses, HandleGapPasses,
     TakeMessagePasses, HandleMetricsPasses, SilentPasses DEF ReadLoop
<1>4. ASSUME Unregister \/ BreakConnection \/ Connect \/ RestartServer
      PROVE  MarksPassed'
  BY <1>4, SilentPasses, BreakPasses, ConnectPasses, RestartServerPasses
<1>5. ASSUME AgentReads
      PROVE  MarksPassed'
  BY <1>5, AdmitPasses, RefusePasses, ReceiveAckPasses, ReceiveCancelPasses DEF AgentReads
<1>6. ASSUME Task \/ Crash
      PROVE  MarksPassed'
  BY <1>6, StartPasses, CommitPasses, FinishPasses, RestartPasses DEF Task, ExecTask, Crash
<1>7. ASSUME UNCHANGED vars
      PROVE  MarksPassed'
  <2>1. /\ UNCHANGED <<storeVars, ack, agentVars, linkVars>> /\ UNCHANGED hand
        /\ UNCHANGED <<status, tombs, watermark>>
    BY <1>7 DEF vars, serverVars, storeVars, threadVars, readerVars
  <2> QED
    BY <2>1, LinkKept, HandUntouched, ServerQuiet DEF PassedInv
<1> QED
  BY <1>1, <1>2, <1>3, <1>4, <1>5, <1>6, <1>7, ReportVersionPasses DEF Next

\* Every mark of either side, also one that is on its way or read long ago,
\* passes only commands that were closed.
THEOREM MarksPassClosed == Spec => []PassedInv
<1>1. Init => PassedInv
  BY ControlInit, PassedInit DEF PassedInv
<1>2. PassedInv /\ [Next]_vars => PassedInv'
  BY ControlNext, PassedNext DEF PassedInv
<1> QED
  BY <1>1, <1>2, PTL DEF Spec

\* No watermark skips an open command, at either end of the link and whatever
\* the two ends take over from each other (retiredWatermarkFrom,
\* ReconcileCommandStream, applyHandshakeAck, finishUpdateTask).
THEOREM NothingSkipped == Spec => []RetiredHasCause
<1>1. PassedInv => RetiredHasCause
  BY DEF PassedInv, MarksPassed, Passed, Settled, RetiredHasCause
<1> QED
  BY <1>1, MarksPassClosed, PTL

=============================================================================
