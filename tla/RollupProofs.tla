----------------------------- MODULE RollupProofs -----------------------------
(***************************************************************************)
(* Proofs about MetricsRollup, for every length of the minute, the window  *)
(* and the retentions, and any number of samples; and about the run that   *)
(* checks it together with the other components.                           *)
(***************************************************************************)
EXTENDS MCServices, ServicesProofs

(***************************************************************************)
(* The start of a minute                                                   *)
(***************************************************************************)

\* A minute holds the ticks from its start to the start of the next.
LEMMA StartBounds ==
    ASSUME NEW t \in Nat
    PROVE  Start(t) \in Nat /\ Start(t) <= t /\ t < Start(t) + Minute
<1>1. t \div Minute \in Nat /\ t = Minute * (t \div Minute) + (t % Minute)
  BY RollupAssumption
<1>2. t % Minute \in 0..(Minute - 1)
  BY RollupAssumption
<1> QED
  BY <1>1, <1>2, RollupAssumption DEF Start

\* Later ticks are in later minutes.
LEMMA StartMonotone ==
    ASSUME NEW s \in Nat, NEW t \in Nat, s <= t
    PROVE  Start(s) <= Start(t)
BY RollupAssumption DEF Start

\* A tick at or after the start of a minute is not in an earlier minute.
LEMMA StartAtOrAfter ==
    ASSUME NEW s \in Nat, NEW t \in Nat, Start(s) <= t
    PROVE  Start(s) <= Start(t)
<1>1. (s \div Minute) \in Nat /\ (t \div Minute) \in Nat
  BY RollupAssumption
<1>2. t < Start(t) + Minute /\ Start(t) <= t
  BY StartBounds
<1>3. ASSUME t \div Minute < s \div Minute PROVE FALSE
  <2> DEFINE a == t \div Minute
  <2> DEFINE b == s \div Minute
  <2>1. a \in Nat /\ b \in Nat /\ a + 1 <= b
    BY <1>1, <1>3
  <2>2. Start(t) = a * Minute /\ Start(s) = b * Minute
    BY DEF Start
  <2> HIDE DEF a, b
  <2>3. (a + 1) * Minute <= b * Minute
    BY <2>1, RollupAssumption
  <2>4. (a + 1) * Minute = a * Minute + Minute
    BY <2>1, RollupAssumption
  <2>5. a * Minute \in Nat /\ b * Minute \in Nat
    BY <2>1, RollupAssumption
  <2> QED
    BY <1>2, <2>2, <2>3, <2>4, <2>5, RollupAssumption
<1> DEFINE a == t \div Minute
<1> DEFINE b == s \div Minute
<1>4. a \in Nat /\ b \in Nat /\ b <= a
  BY <1>1, <1>3
<1>5. Start(t) = a * Minute /\ Start(s) = b * Minute
  BY DEF Start
<1> HIDE DEF a, b
<1> QED
  BY <1>4, <1>5, RollupAssumption

\* The minutes are the starts of the ticks.
LEMMA MinutesAreStarts ==
    /\ Minutes \subseteq Ticks
    /\ \A t \in Ticks : Start(t) \in Minutes /\ t \in Nat
    /\ \A m \in Minutes : m \in Nat /\ Start(m) = m
<1>1. \A t \in Ticks : Start(t) \in Minutes /\ t \in Nat
  BY RollupAssumption DEF Minutes, Ticks
<1>2. Minutes \subseteq Ticks
  BY <1>1, StartBounds, RollupAssumption DEF Minutes, Ticks
<1>3. ASSUME NEW m \in Minutes PROVE m \in Nat /\ Start(m) = m
  <2>1. PICK t \in Ticks : m = Start(t)
    BY DEF Minutes
  <2>2. m \in Nat /\ m <= t
    BY <1>1, <2>1, StartBounds
  <2>3. Start(m) <= m
    BY <2>2, StartBounds
  <2>4. m <= Start(m)
    BY <1>1, <2>1, <2>2, StartAtOrAfter
  <2> QED
    BY <2>2, <2>3, <2>4, StartBounds
<1> QED
  BY <1>1, <1>2, <1>3

(***************************************************************************)
(* The inductive invariant                                                 *)
(***************************************************************************)

\* The raw rows hold the samples since the last cutoff, the buckets hold samples
\* of their minute that were there, not from the future unless the minute is
\* cut, and the metrics' only those up to the start of the current minute.
RowsInOrder ==
    /\ raw \subseteq accepted
    /\ \A t \in accepted : prunedTo <= t => t \in raw
    /\ prunedTo <= RawCutoff
    /\ lastRollup <= now
    /\ \A m \in Minutes : \A t \in buckets[m] :
          /\ t \in accepted /\ Start(t) = m
          /\ kind = "metrics" => t <= Start(now)
          /\ t <= now \/ m \in cut
    /\ kind = "metrics" => demand = NoDemand

\* A loop that missed nothing ran within a minute.
LoopInTime == ~late => now <= lastRollup + Minute

\* A sample that is not in its bucket is recent enough for the loop.
SamplesCovered ==
    ~late =>
        \A t \in accepted \ tardy :
            \/ t \in buckets[Start(t)]
            \/ Start(t) \in cut
            \/ Start(t) < RollupCutoff
            \/ t \in raw /\ ~Tardy(t)

RollupInv == RollupTypeOK /\ RowsInOrder /\ LoopInTime /\ SamplesCovered

LEMMA TypedTimes ==
    ASSUME RollupTypeOK
    PROVE  /\ now \in Nat /\ lastRollup \in Nat /\ prunedTo \in Nat
           /\ \A t \in accepted : t \in Ticks /\ t \in Nat
           /\ \A t \in raw : t \in Ticks /\ t \in Nat
           /\ \A m \in Minutes : \A t \in buckets[m] : t \in Ticks /\ t \in Nat
BY RollupAssumption DEF RollupTypeOK, Ticks

LEMMA RollupInitInv == RollupInit => RollupInv
<1> SUFFICES ASSUME RollupInit PROVE RollupInv
  OBVIOUS
<1>1. 0 \in Ticks
  BY RollupAssumption DEF Ticks
<1>2. RollupTypeOK
  <2>1. late \in BOOLEAN
    BY Zenon DEF RollupInit
  <2> QED
    BY <1>1, <2>1 DEF RollupInit, RollupTypeOK
<1>3. RowsInOrder
  BY RollupAssumption DEF RollupInit, RowsInOrder, RawCutoff
<1>4. LoopInTime
  BY RollupAssumption DEF RollupInit, LoopInTime
<1>5. SamplesCovered
  BY DEF RollupInit, SamplesCovered
<1> QED
  BY <1>2, <1>3, <1>4, <1>5 DEF RollupInv

\* The cutoffs only move on.
LEMMA CutoffsMoveOn ==
    ASSUME RollupTypeOK, now' = now \/ now' = now + 1
    PROVE  /\ RawCutoff \in Nat /\ RollupCutoff \in Nat
           /\ RawCutoff <= RawCutoff' /\ RollupCutoff <= RollupCutoff'
           /\ RawCutoff <= now
BY TypedTimes, RollupAssumption DEF RawCutoff, RollupCutoff

LEMMA InsertSampleInv ==
    ASSUME RollupInv, NEW t \in Ticks, InsertSample(t)
    PROVE  RollupInv'
<1>1. /\ raw' = raw \cup {t} /\ accepted' = accepted \cup {t}
      /\ tardy' = IF Tardy(t) THEN tardy \cup {t} ELSE tardy
      /\ UNCHANGED <<kind, now, buckets, demand, lastRollup, prunedTo, cut, late>>
  BY DEF InsertSample
<1>2. RollupTypeOK'
  <2>1. tardy' \subseteq accepted'
    BY <1>1 DEF RollupInv, RollupTypeOK
  <2>2. late' \in BOOLEAN
    BY <1>1 DEF RollupInv, RollupTypeOK
  <2> QED
    BY <1>1, <2>1, <2>2 DEF RollupInv, RollupTypeOK
<1>3. RowsInOrder'
  BY <1>1 DEF RollupInv, RowsInOrder, RawCutoff
<1>4. LoopInTime'
  BY <1>1 DEF RollupInv, LoopInTime
<1>5. SamplesCovered'
  <2> SUFFICES ASSUME ~late', NEW s \in accepted' \ tardy'
               PROVE  \/ s \in buckets'[Start(s)]
                      \/ Start(s) \in cut'
                      \/ Start(s) < RollupCutoff'
                      \/ s \in raw' /\ ~Tardy(s)'
    BY DEF SamplesCovered
  <2>1. RollupCutoff' = RollupCutoff /\ (Tardy(s)' <=> Tardy(s))
    BY <1>1 DEF RollupCutoff, Tardy
  <2>2. CASE s \in accepted
    <3>1. s \in accepted \ tardy
      BY <1>1, <2>2
    <3> QED
      BY <1>1, <2>1, <3>1 DEF RollupInv, SamplesCovered
  <2>3. CASE s = t
    BY <1>1, <2>1, <2>3
  <2> QED
    BY <1>1, <2>2, <2>3
<1> QED
  BY <1>2, <1>3, <1>4, <1>5 DEF RollupInv

LEMMA PassInv == ASSUME RollupInv, Pass PROVE RollupInv'
<1>1. /\ now < MaxTime /\ now' = now + 1
      /\ late' = (late \/ now' - lastRollup > Minute)
      /\ UNCHANGED <<kind, rowVars, demand, lastRollup, accepted, prunedTo, tardy, cut>>
  BY DEF Pass
<1>2. now \in Nat /\ lastRollup \in Nat /\ prunedTo \in Nat
  BY TypedTimes DEF RollupInv
<1>3. /\ RawCutoff \in Nat /\ RollupCutoff \in Nat
      /\ RawCutoff <= RawCutoff' /\ RollupCutoff <= RollupCutoff'
      /\ RawCutoff' \in Nat /\ RollupCutoff' \in Nat
  <2>1. RawCutoff' \in Nat /\ RollupCutoff' \in Nat
    BY <1>1, <1>2, RollupAssumption DEF RawCutoff, RollupCutoff
  <2> QED
    BY <1>1, <2>1, CutoffsMoveOn DEF RollupInv
<1>4. RollupTypeOK'
  <2>1. late' \in BOOLEAN
    <3>1. late \in BOOLEAN
      BY DEF RollupInv, RollupTypeOK
    <3>2. CASE now' - lastRollup > Minute
      BY <1>1, <3>2
    <3>3. CASE ~(now' - lastRollup > Minute)
      BY <1>1, <3>1, <3>3
    <3> QED
      BY <3>2, <3>3
  <2>2. now' \in Ticks
    BY <1>1, <1>2, RollupAssumption DEF Ticks
  <2> QED
    BY <1>1, <2>1, <2>2 DEF RollupInv, RollupTypeOK, rowVars
<1>5. Start(now) <= Start(now') /\ Start(now) \in Nat /\ Start(now') \in Nat
  BY <1>1, <1>2, StartMonotone, StartBounds
<1>6. RowsInOrder'
  <2>1. /\ raw' \subseteq accepted'
        /\ \A t \in accepted' : prunedTo' <= t => t \in raw'
        /\ kind' = "metrics" => demand' = NoDemand
    BY <1>1 DEF RollupInv, RowsInOrder, rowVars
  <2>2. prunedTo' <= RawCutoff' /\ lastRollup' <= now'
    BY <1>1, <1>2, <1>3 DEF RollupInv, RowsInOrder
  <2>3. ASSUME NEW m \in Minutes, NEW t \in buckets'[m]
        PROVE  /\ t \in accepted' /\ Start(t) = m
               /\ kind' = "metrics" => t <= Start(now')
               /\ t <= now' \/ m \in cut'
    <3>1. /\ t \in buckets[m] /\ accepted' = accepted /\ kind' = kind /\ t \in Nat
          /\ cut' = cut
      BY <1>1, <2>3, TypedTimes DEF rowVars, RollupInv
    <3>2. /\ t \in accepted /\ Start(t) = m
          /\ kind = "metrics" => t <= Start(now)
          /\ t <= now \/ m \in cut
      BY <2>3, <3>1 DEF RollupInv, RowsInOrder
    <3>3. t <= now => t <= now'
      BY <1>1, <1>2, <3>1
    <3>4. kind' = "metrics" => t <= Start(now')
      BY <1>5, <3>1, <3>2
    <3> QED
      BY <3>1, <3>2, <3>3, <3>4
  <2> QED
    BY <2>1, <2>2, <2>3 DEF RowsInOrder
<1>7. LoopInTime'
  <2> SUFFICES ASSUME ~late' PROVE now' <= lastRollup' + Minute
    BY DEF LoopInTime
  <2>1. ~(now' - lastRollup > Minute) /\ lastRollup' = lastRollup
    BY <1>1
  <2> QED
    BY <1>1, <1>2, <2>1, RollupAssumption
<1>8. SamplesCovered'
  <2> SUFFICES ASSUME ~late', NEW s \in accepted' \ tardy'
               PROVE  \/ s \in buckets'[Start(s)]
                      \/ Start(s) \in cut'
                      \/ Start(s) < RollupCutoff'
                      \/ s \in raw' /\ ~Tardy(s)'
    BY DEF SamplesCovered
  <2>1. ~late /\ s \in accepted \ tardy
    BY <1>1
  <2>2. /\ raw' = raw /\ buckets' = buckets /\ cut' = cut
        /\ (Tardy(s)' <=> Tardy(s))
    BY <1>1 DEF rowVars, Tardy
  <2>3. Start(s) < RollupCutoff => Start(s) < RollupCutoff'
    <3>1. s \in Nat
      BY <2>1, TypedTimes DEF RollupInv
    <3> QED
      BY <1>3, <3>1, StartBounds
  <2> QED
    BY <2>1, <2>2, <2>3 DEF RollupInv, SamplesCovered
<1> QED
  BY <1>4, <1>6, <1>7, <1>8 DEF RollupInv

LEMMA RollupFailsInv == ASSUME RollupInv, RollupFails PROVE RollupInv'
<1>1. /\ late' = TRUE /\ lastRollup' = now
      /\ UNCHANGED <<kind, now, rowVars, demand, accepted, prunedTo, tardy, cut>>
  BY DEF RollupFails
<1>2. RollupTypeOK'
  BY <1>1 DEF RollupInv, RollupTypeOK, rowVars
<1>3. RowsInOrder'
  BY <1>1, TypedTimes DEF RollupInv, RowsInOrder, RawCutoff, rowVars
<1>4. LoopInTime' /\ SamplesCovered'
  BY <1>1 DEF LoopInTime, SamplesCovered
<1> QED
  BY <1>2, <1>3, <1>4 DEF RollupInv

LEMMA RequestRollupInv ==
    ASSUME RollupInv, NEW from \in Minutes, NEW to \in Ticks, RequestRollup(from, to)
    PROVE  RollupInv'
<1>1. /\ kind = "latency" /\ demand' = <<from, to>>
      /\ UNCHANGED <<kind, now, rowVars, lastRollup, accepted, prunedTo, tardy, cut, late>>
  BY DEF RequestRollup
<1>2. RollupTypeOK'
  BY <1>1, MinutesAreStarts DEF RollupInv, RollupTypeOK, rowVars
<1>3. RowsInOrder'
  BY <1>1 DEF RollupInv, RowsInOrder, RawCutoff, rowVars
<1>4. LoopInTime' /\ SamplesCovered'
  BY <1>1 DEF RollupInv, LoopInTime, SamplesCovered, RollupCutoff, Tardy, rowVars
<1> QED
  BY <1>2, <1>3, <1>4 DEF RollupInv

LEMMA OnDemandFailsInv == ASSUME RollupInv, OnDemandFails PROVE RollupInv'
<1>1. /\ demand' = NoDemand
      /\ UNCHANGED <<kind, now, rowVars, lastRollup, accepted, prunedTo, tardy, cut, late>>
  BY DEF OnDemandFails
<1>2. RollupTypeOK'
  BY <1>1 DEF RollupInv, RollupTypeOK, rowVars
<1>3. RowsInOrder'
  BY <1>1 DEF RollupInv, RowsInOrder, RawCutoff, rowVars
<1>4. LoopInTime' /\ SamplesCovered'
  BY <1>1 DEF RollupInv, LoopInTime, SamplesCovered, RollupCutoff, Tardy, rowVars
<1> QED
  BY <1>2, <1>3, <1>4 DEF RollupInv

(***************************************************************************)
(* Aggregation                                                             *)
(***************************************************************************)

\* The rows of a minute in a window.
RowsOf(m, from, to) == {t \in raw : Start(t) = m /\ Start(from) <= t /\ t <= to}

LEMMA AggregatedMinute ==
    ASSUME NEW from, NEW to, NEW m \in Minutes, buckets' = Aggregated(from, to)
    PROVE  buckets'[m] = IF RowsOf(m, from, to) = {} THEN buckets[m]
                         ELSE RowsOf(m, from, to)
BY DEF Aggregated, RowsOf

LEMMA AggregatedType ==
    ASSUME RollupTypeOK, NEW from, NEW to, buckets' = Aggregated(from, to)
    PROVE  buckets' \in [Minutes -> SUBSET Ticks]
<1>1. \A m \in Minutes : RowsOf(m, from, to) \subseteq Ticks /\ buckets[m] \subseteq Ticks
  BY DEF RowsOf, RollupTypeOK
<1>2. buckets' = [m \in Minutes |-> IF RowsOf(m, from, to) = {} THEN buckets[m]
                                    ELSE RowsOf(m, from, to)]
  BY DEF Aggregated, RowsOf
<1> QED
  BY <1>1, <1>2

\* Aggregating leaves in a bucket what is still a row and in the window: all
\* the samples of the minute when any of its rows is in the window.
LEMMA AggregatedKeeps ==
    ASSUME RollupTypeOK, RowsInOrder, NEW from \in Ticks, NEW to \in Ticks,
           buckets' = Aggregated(from, to),
           NEW m \in Minutes, NEW t \in buckets[m], t \notin buckets'[m]
    PROVE  \E s \in raw : /\ Start(s) = m /\ Start(from) <= m /\ s <= to
                          /\ m <= t /\ t < m + Minute /\ m <= s /\ s < m + Minute
                          /\ (t \notin raw \/ to < t)
<1>1. t \in accepted /\ Start(t) = m /\ t \in Nat
  BY TypedTimes DEF RowsInOrder
<1>2. buckets'[m] = RowsOf(m, from, to) /\ RowsOf(m, from, to) # {}
  BY AggregatedMinute
<1>3. PICK s \in raw : Start(s) = m /\ Start(from) <= s /\ s <= to
  BY <1>2 DEF RowsOf
<1>4. s \in Nat /\ from \in Nat /\ to \in Nat /\ m \in Nat
  BY TypedTimes, MinutesAreStarts
<1>5. Start(from) <= m
  BY <1>3, <1>4, StartAtOrAfter
<1>6. /\ m <= t /\ t < m + Minute /\ m <= s /\ s < m + Minute
      /\ Start(from) \in Nat
  BY <1>1, <1>3, <1>4, StartBounds
<1>7. Start(from) <= t
  BY <1>1, <1>4, <1>5, <1>6
<1>8. t \notin RowsOf(m, from, to)
  BY <1>2
<1>9. t \notin raw \/ to < t
  BY <1>1, <1>4, <1>7, <1>8 DEF RowsOf
<1> QED
  BY <1>3, <1>5, <1>6, <1>9

\* What is aggregated is a sample of its minute, not later than the window.
LEMMA AggregatedRows ==
    ASSUME RollupTypeOK, RowsInOrder, NEW from, NEW to,
           buckets' = Aggregated(from, to),
           NEW m \in Minutes, NEW t \in buckets'[m]
    PROVE  /\ t \in accepted /\ Start(t) = m
           /\ t \in buckets[m] \/ t <= to
           /\ t \in buckets[m] \/ t \in RowsOf(m, from, to)
<1>1. CASE t \in buckets[m]
  BY <1>1 DEF RowsInOrder
<1>2. CASE t \in RowsOf(m, from, to)
  BY <1>2 DEF RowsOf, RowsInOrder
<1>3. t \in buckets[m] \/ t \in RowsOf(m, from, to)
  BY AggregatedMinute
<1> QED
  BY <1>1, <1>2, <1>3

\* The window of the loop begins after the raw cutoff.
LEMMA WindowIsKept ==
    ASSUME RollupTypeOK, RowsInOrder
    PROVE  /\ WindowStart \in Ticks /\ WindowStart <= now /\ now <= WindowStart + Window
           /\ prunedTo <= Start(WindowStart)
<1>1. now \in Nat /\ prunedTo \in Nat /\ now \in Ticks
  BY TypedTimes DEF RollupTypeOK
<1>2. WindowStart \in Nat /\ WindowStart <= now /\ now <= WindowStart + Window
  BY <1>1, RollupAssumption DEF WindowStart
<1>3. WindowStart \in Ticks
  BY <1>1, <1>2, RollupAssumption DEF Ticks
<1>4. Start(WindowStart) \in Nat /\ WindowStart < Start(WindowStart) + Minute
  BY <1>2, StartBounds
<1>5. prunedTo <= RawCutoff
  BY DEF RowsInOrder
<1>6. RawCutoff <= Start(WindowStart)
  <2>1. CASE now < RawKeep
    BY <1>4, <2>1 DEF RawCutoff
  <2>2. CASE ~(now < RawKeep)
    <3>1. RawCutoff = now - RawKeep /\ Window <= RawKeep
      BY <1>1, <2>2, RollupAssumption DEF RawCutoff
    <3>2. WindowStart + Minute + RawKeep >= now + Minute + Minute
      BY <1>1, <1>2, RollupAssumption
    <3> QED
      BY <1>1, <1>2, <1>4, <3>1, RollupAssumption
  <2> QED
    BY <2>1, <2>2
<1>7. RawCutoff \in Nat
  BY <1>1, RollupAssumption DEF RawCutoff
<1> QED
  BY <1>1, <1>2, <1>3, <1>4, <1>5, <1>6, <1>7

\* The end of the window of the loop.
WindowEnd == IF kind = "metrics" THEN Start(now) ELSE now

LEMMA WindowEndType ==
    ASSUME RollupTypeOK
    PROVE  WindowEnd \in Ticks /\ WindowEnd <= now /\ now < WindowEnd + Minute
<1>1. now \in Nat /\ now \in Ticks
  BY TypedTimes DEF RollupTypeOK
<1>2. Start(now) \in Ticks /\ Start(now) <= now /\ now < Start(now) + Minute
  BY <1>1, StartBounds, MinutesAreStarts
<1> QED
  BY <1>1, <1>2, RollupAssumption DEF WindowEnd

\* The loop takes no sample out of a bucket that is not cut.
LEMMA LoopKeeps ==
    ASSUME RollupTypeOK, RowsInOrder, RollupLoop, NEW m \in Minutes, m \notin cut
    PROVE  buckets[m] \subseteq buckets'[m]
<1>1. buckets' = Aggregated(WindowStart, WindowEnd)
  BY DEF RollupLoop, WindowEnd
<1>2. WindowStart \in Ticks /\ WindowEnd \in Ticks /\ prunedTo <= Start(WindowStart)
  BY WindowIsKept, WindowEndType
<1>3. SUFFICES ASSUME NEW t \in buckets[m], t \notin buckets'[m] PROVE FALSE
  OBVIOUS
<1>4. /\ Start(WindowStart) <= m /\ m <= t
      /\ t \notin raw \/ WindowEnd < t
  BY <1>1, <1>2, <1>3, AggregatedKeeps
<1>5. t \in accepted /\ t <= now /\ (kind = "metrics" => t <= Start(now))
      /\ (prunedTo <= t => t \in raw)
  BY DEF RowsInOrder
<1>6. /\ t \in Nat /\ m \in Nat /\ prunedTo \in Nat /\ now \in Nat
      /\ Start(WindowStart) \in Nat /\ Start(now) \in Nat
  <2>1. WindowStart \in Nat
    BY <1>2, MinutesAreStarts
  <2> QED
    BY <2>1, TypedTimes, MinutesAreStarts, StartBounds
<1>7. t <= WindowEnd
  BY <1>5 DEF WindowEnd
<1>8. t \in raw
  BY <1>2, <1>4, <1>5, <1>6
<1>9. WindowEnd \in Nat
  BY <1>6 DEF WindowEnd
<1> QED
  BY <1>4, <1>6, <1>7, <1>8, <1>9

LEMMA RollupLoopInv == ASSUME RollupInv, RollupLoop PROVE RollupInv'
<1>1. /\ buckets' = Aggregated(WindowStart, WindowEnd) /\ lastRollup' = now
      /\ UNCHANGED <<kind, now, raw, demand, accepted, prunedTo, tardy, cut, late>>
  BY DEF RollupLoop, WindowEnd
<1>2. /\ WindowStart \in Ticks /\ WindowStart <= now /\ now <= WindowStart + Window
      /\ prunedTo <= Start(WindowStart)
      /\ WindowEnd \in Ticks /\ WindowEnd <= now /\ now < WindowEnd + Minute
  BY WindowIsKept, WindowEndType DEF RollupInv
<1>3. RollupTypeOK'
  BY <1>1, AggregatedType DEF RollupInv, RollupTypeOK
<1>4. /\ now \in Nat /\ lastRollup \in Nat /\ WindowStart \in Nat /\ WindowEnd \in Nat
      /\ Start(WindowStart) \in Nat /\ Start(WindowStart) <= WindowStart
  BY <1>2, TypedTimes, MinutesAreStarts, StartBounds DEF RollupInv
<1>5. RowsInOrder'
  <2>1. ASSUME NEW m \in Minutes, NEW t \in buckets'[m]
        PROVE  /\ t \in accepted' /\ Start(t) = m
               /\ kind' = "metrics" => t <= Start(now')
               /\ t <= now' \/ m \in cut'
    <3>1. t \in accepted /\ Start(t) = m /\ (t \in buckets[m] \/ t <= WindowEnd)
      BY <1>1, <2>1, AggregatedRows DEF RollupInv
    <3>2. kind = "metrics" => t <= Start(now)
      BY <2>1, <3>1 DEF RollupInv, RowsInOrder, WindowEnd
    <3>3. t <= now \/ m \in cut
      <4>1. CASE t \in buckets[m]
        BY <4>1 DEF RollupInv, RowsInOrder
      <4>2. CASE t <= WindowEnd
        <5>1. t \in Nat
          BY <3>1, TypedTimes DEF RollupInv
        <5> QED
          BY <1>2, <1>4, <4>2, <5>1
      <4> QED
        BY <3>1, <4>1, <4>2
    <3> QED
      BY <1>1, <3>1, <3>2, <3>3
  <2> QED
    BY <1>1, <1>4, <2>1 DEF RollupInv, RowsInOrder, RawCutoff
<1>6. LoopInTime'
  BY <1>1, <1>4, RollupAssumption DEF LoopInTime
<1>7. SamplesCovered'
  <2> SUFFICES ASSUME ~late', NEW t \in accepted' \ tardy'
               PROVE  \/ t \in buckets'[Start(t)]
                      \/ Start(t) \in cut'
                      \/ Start(t) < RollupCutoff'
                      \/ t \in raw' /\ ~Tardy(t)'
    BY DEF SamplesCovered
  <2>1. /\ ~late /\ t \in accepted \ tardy
        /\ cut' = cut /\ raw' = raw /\ RollupCutoff' = RollupCutoff
    BY <1>1 DEF RollupCutoff
  <2>2. t \in Nat /\ Start(t) \in Minutes
    BY <2>1, TypedTimes, MinutesAreStarts DEF RollupInv
  <2>3. CASE t \in buckets[Start(t)]
    BY <1>1, <2>2, <2>3, LoopKeeps DEF RollupInv
  <2>4. CASE t \in raw /\ ~Tardy(t)
    <3>1. now <= t + Window
      BY <1>4, <2>1, <2>2, <2>4, RollupAssumption DEF RollupInv, LoopInTime, Tardy
    <3>2. WindowStart <= t
      BY <1>4, <2>2, <3>1, RollupAssumption DEF WindowStart
    <3>3. Start(WindowStart) <= t
      BY <1>4, <2>2, <3>2
    <3>4. CASE t <= WindowEnd
      <4>1. t \in RowsOf(Start(t), WindowStart, WindowEnd)
        BY <2>4, <3>3, <3>4 DEF RowsOf
      <4> QED
        BY <1>1, <2>2, <4>1, AggregatedMinute
    <3>5. CASE ~(t <= WindowEnd)
      <4>1. now < t + Minute
        BY <1>2, <1>4, <2>2, <3>5, RollupAssumption
      <4>2. ~(now + Minute > t + Window)
        BY <1>4, <2>2, <4>1, RollupAssumption
      <4>3. ~Tardy(t)'
        BY <1>1, <4>2 DEF Tardy
      <4> QED
        BY <2>1, <2>4, <4>3
    <3> QED
      BY <3>4, <3>5
  <2> QED
    BY <2>1, <2>3, <2>4 DEF RollupInv, SamplesCovered
<1> QED
  BY <1>3, <1>5, <1>6, <1>7 DEF RollupInv

\* An on-demand aggregation takes samples out of a bucket only when its window,
\* the time or the raw cutoff cuts the minute, and adds samples from the future
\* only to such a minute.
LEMMA OnDemandCuts ==
    ASSUME RollupTypeOK, RowsInOrder, RollupOnDemand, NEW m \in Minutes
    PROVE  /\ buckets[m] \subseteq buckets'[m] \/ m \in cut'
           /\ \A t \in buckets'[m] : /\ t \in accepted /\ Start(t) = m
                                     /\ t <= now \/ m \in cut'
<1>1. /\ demand # NoDemand
      /\ buckets' = Aggregated(demand[1], demand[2])
      /\ cut' = cut \cup CutBy(demand[1], demand[2])
  BY DEF RollupOnDemand
<1>2. demand[1] \in Ticks /\ demand[2] \in Ticks /\ demand[2] \in Nat /\ now \in Nat
  BY <1>1, MinutesAreStarts DEF RollupTypeOK
<1>3. ASSUME NEW t \in buckets[m], t \notin buckets'[m] PROVE m \in cut'
  <2>1. PICK s \in raw : /\ Start(s) = m /\ Start(demand[1]) <= m /\ s <= demand[2]
                         /\ m <= t /\ t < m + Minute /\ m <= s /\ s < m + Minute
                         /\ (t \notin raw \/ demand[2] < t)
    BY <1>1, <1>2, <1>3, AggregatedKeeps
  <2>2. /\ t \in Nat /\ s \in Nat /\ m \in Nat /\ prunedTo \in Nat
        /\ Start(demand[1]) \in Nat
        /\ t \in accepted /\ (prunedTo <= t => t \in raw)
    <3>1. t \in accepted /\ (prunedTo <= t => t \in raw)
      BY <1>3 DEF RowsInOrder
    <3>2. Start(demand[1]) \in Nat
      BY <1>2, MinutesAreStarts
    <3> QED
      BY <1>3, <3>1, <3>2, TypedTimes, MinutesAreStarts
  <2>3. demand[2] < m + Minute - 1 \/ m < prunedTo
    <3>1. CASE demand[2] < t
      BY <1>2, <2>1, <2>2, <3>1, RollupAssumption
    <3>2. CASE t \notin raw
      BY <2>1, <2>2, <3>2, RollupAssumption
    <3> QED
      BY <2>1, <3>1, <3>2
  <2>4. Start(demand[1]) <= s
    BY <2>1, <2>2
  <2> QED
    BY <1>1, <2>1, <2>3, <2>4 DEF CutBy
<1>4. ASSUME NEW t \in buckets'[m]
      PROVE  t \in accepted /\ Start(t) = m /\ (t <= now \/ m \in cut')
  <2>1. /\ t \in accepted /\ Start(t) = m
        /\ t \in buckets[m] \/ t \in RowsOf(m, demand[1], demand[2])
    BY <1>1, <1>4, AggregatedRows
  <2>2. CASE t \in buckets[m]
    BY <1>1, <2>1, <2>2 DEF RowsInOrder
  <2>3. CASE t \in RowsOf(m, demand[1], demand[2])
    <3>1. t \in raw /\ Start(t) = m /\ Start(demand[1]) <= t /\ t <= demand[2]
      BY <2>3 DEF RowsOf
    <3>2. t \in Nat /\ m \in Nat /\ t < m + Minute
      BY <2>1, TypedTimes, MinutesAreStarts, StartBounds
    <3>3. CASE now < t
      <4>1. now < m + Minute - 1
        BY <1>2, <3>2, <3>3, RollupAssumption
      <4> QED
        BY <1>1, <2>1, <3>1, <4>1 DEF CutBy
    <3>4. CASE ~(now < t)
      BY <1>2, <2>1, <3>2, <3>4
    <3> QED
      BY <3>3, <3>4
  <2> QED
    BY <2>1, <2>2, <2>3
<1> QED
  BY <1>3, <1>4

LEMMA RollupOnDemandInv == ASSUME RollupInv, RollupOnDemand PROVE RollupInv'
<1>1. /\ demand # NoDemand
      /\ buckets' = Aggregated(demand[1], demand[2])
      /\ cut' = cut \cup CutBy(demand[1], demand[2])
      /\ demand' = NoDemand
      /\ UNCHANGED <<kind, now, raw, lastRollup, accepted, prunedTo, tardy, late>>
  BY DEF RollupOnDemand
<1>2. kind # "metrics"
  BY <1>1 DEF RollupInv, RowsInOrder
<1>3. RollupTypeOK'
  <2>1. cut' \subseteq Minutes
    BY <1>1 DEF RollupInv, RollupTypeOK, CutBy
  <2>2. buckets' \in [Minutes -> SUBSET Ticks]
    BY <1>1, AggregatedType DEF RollupInv
  <2> QED
    BY <1>1, <2>1, <2>2 DEF RollupInv, RollupTypeOK
<1>4. RowsInOrder'
  <2>1. ASSUME NEW m \in Minutes, NEW t \in buckets'[m]
        PROVE  t \in accepted' /\ Start(t) = m /\ (t <= now' \/ m \in cut')
    BY <1>1, <2>1, OnDemandCuts DEF RollupInv
  <2> QED
    BY <1>1, <1>2, <2>1 DEF RollupInv, RowsInOrder, RawCutoff
<1>5. LoopInTime'
  BY <1>1 DEF RollupInv, LoopInTime
<1>6. SamplesCovered'
  <2> SUFFICES ASSUME ~late', NEW t \in accepted' \ tardy'
               PROVE  \/ t \in buckets'[Start(t)]
                      \/ Start(t) \in cut'
                      \/ Start(t) < RollupCutoff'
                      \/ t \in raw' /\ ~Tardy(t)'
    BY DEF SamplesCovered
  <2>1. /\ ~late /\ t \in accepted \ tardy /\ raw' = raw
        /\ RollupCutoff' = RollupCutoff /\ cut \subseteq cut'
        /\ (Tardy(t)' <=> Tardy(t))
    BY <1>1 DEF RollupCutoff, Tardy
  <2>2. Start(t) \in Minutes
    BY <2>1, TypedTimes, MinutesAreStarts DEF RollupInv
  <2>3. CASE t \in buckets[Start(t)]
    BY <2>2, <2>3, OnDemandCuts DEF RollupInv
  <2> QED
    BY <2>1, <2>3 DEF RollupInv, SamplesCovered
<1> QED
  BY <1>3, <1>4, <1>5, <1>6 DEF RollupInv

LEMMA PruneInv == ASSUME RollupInv, Prune PROVE RollupInv'
<1>1. /\ raw' = {t \in raw : t >= RawCutoff}
      /\ buckets' = [m \in Minutes |-> IF m < RollupCutoff THEN {} ELSE buckets[m]]
      /\ prunedTo' = RawCutoff
      /\ UNCHANGED <<kind, now, demand, lastRollup, accepted, tardy, cut, late>>
  BY DEF Prune
<1>2. now \in Nat /\ now \in Ticks /\ lastRollup \in Nat /\ prunedTo \in Nat
  BY TypedTimes DEF RollupInv, RollupTypeOK
<1>3. /\ RawCutoff \in Nat /\ RollupCutoff \in Nat /\ RawCutoff <= now
      /\ RawCutoff' = RawCutoff /\ RollupCutoff' = RollupCutoff
      /\ now <= Window + RawCutoff \/ RawCutoff = 0 \/ RawCutoff = now - RawKeep
  BY <1>1, <1>2, RollupAssumption DEF RawCutoff, RollupCutoff
<1>4. RollupTypeOK'
  <2>1. prunedTo' \in Ticks
    BY <1>1, <1>2, <1>3, RollupAssumption DEF Ticks
  <2>2. buckets' \in [Minutes -> SUBSET Ticks]
    BY <1>1 DEF RollupInv, RollupTypeOK
  <2> QED
    BY <1>1, <2>1, <2>2 DEF RollupInv, RollupTypeOK
<1>5. \A m \in Minutes : buckets'[m] \subseteq buckets[m]
  BY <1>1
<1>6. RowsInOrder'
  <2>1. \A t \in accepted' : prunedTo' <= t => t \in raw'
    <3>1. prunedTo <= RawCutoff
      BY DEF RollupInv, RowsInOrder
    <3>2. ASSUME NEW t \in accepted PROVE RawCutoff <= t => t \in raw'
      <4>1. t \in Nat /\ (prunedTo <= t => t \in raw)
        BY TypedTimes DEF RollupInv, RowsInOrder
      <4> QED
        BY <1>1, <1>2, <1>3, <3>1, <4>1
    <3> QED
      BY <1>1, <3>2
  <2>2. raw' \subseteq accepted'
    BY <1>1 DEF RollupInv, RowsInOrder
  <2>3. \A m \in Minutes : \A t \in buckets'[m] :
           /\ t \in accepted' /\ Start(t) = m
           /\ kind' = "metrics" => t <= Start(now')
           /\ t <= now' \/ m \in cut'
    BY <1>1, <1>5 DEF RollupInv, RowsInOrder
  <2>4. prunedTo' <= RawCutoff' /\ lastRollup' <= now'
        /\ (kind' = "metrics" => demand' = NoDemand)
    BY <1>1, <1>3 DEF RollupInv, RowsInOrder
  <2> QED
    BY <2>1, <2>2, <2>3, <2>4 DEF RowsInOrder
<1>7. LoopInTime'
  BY <1>1 DEF RollupInv, LoopInTime
<1>8. SamplesCovered'
  <2> SUFFICES ASSUME ~late', NEW t \in accepted' \ tardy'
               PROVE  \/ t \in buckets'[Start(t)]
                      \/ Start(t) \in cut'
                      \/ Start(t) < RollupCutoff'
                      \/ t \in raw' /\ ~Tardy(t)'
    BY DEF SamplesCovered
  <2>1. /\ ~late /\ t \in accepted \ tardy /\ cut' = cut
        /\ (Tardy(t)' <=> Tardy(t))
    BY <1>1 DEF Tardy
  <2>2. t \in Nat /\ Start(t) \in Minutes
    BY <2>1, TypedTimes, MinutesAreStarts DEF RollupInv
  <2>3. CASE t \in buckets[Start(t)]
    <3>1. buckets'[Start(t)] = IF Start(t) < RollupCutoff THEN {} ELSE buckets[Start(t)]
      BY <1>1, <2>2
    <3> QED
      BY <1>3, <2>3, <3>1
  <2>4. CASE t \in raw /\ ~Tardy(t)
    <3>1. now <= t + Window
      BY <1>2, <2>1, <2>2, <2>4, RollupAssumption DEF RollupInv, LoopInTime, Tardy
    <3>2. RawCutoff <= t
      BY <1>2, <2>2, <3>1, RollupAssumption DEF RawCutoff
    <3> QED
      BY <1>1, <2>1, <2>4, <3>2
  <2> QED
    BY <1>3, <2>1, <2>3, <2>4 DEF RollupInv, SamplesCovered
<1> QED
  BY <1>4, <1>6, <1>7, <1>8 DEF RollupInv

LEMMA RollupStep == RollupInv /\ [RollupNext]_rollupVars => RollupInv'
<1> SUFFICES ASSUME RollupInv, [RollupNext]_rollupVars PROVE RollupInv'
  OBVIOUS
<1>1. CASE UNCHANGED rollupVars
  BY <1>1 DEF rollupVars, rowVars, RollupInv, RollupTypeOK, RowsInOrder, LoopInTime,
              SamplesCovered, RawCutoff, RollupCutoff, Tardy
<1>2. CASE RollupNext
  BY <1>2, InsertSampleInv, PassInv, RollupLoopInv, RollupFailsInv, RequestRollupInv,
     RollupOnDemandInv, OnDemandFailsInv, PruneInv DEF RollupNext
<1> QED
  BY <1>1, <1>2

LEMMA RollupInvariant == RollupSpec => []RollupInv
BY RollupInitInv, RollupStep, PTL DEF RollupSpec

\* The rows, buckets and cutoffs keep their types.
THEOREM RollupTypeCorrect == RollupSpec => []RollupTypeOK
<1>1. RollupInv => RollupTypeOK
  BY DEF RollupInv
<1> QED
  BY RollupInvariant, <1>1, PTL

\* A sample is a raw row or in its bucket until its retention ends, unless the
\* loop missed a minute, an on-demand aggregation cut its minute, or it came
\* with a time stamp from before the window of the loop's next run
\* (rollupMetrics, PruneOldMetrics), for every window and retention with
\* 2 * Minute <= Window and Window + Minute <= RawKeep.
THEOREM SamplesAreKept == RollupSpec => []SamplesKept
<1>1. RollupInv => SamplesKept
  BY DEF RollupInv, SamplesCovered, SamplesKept
<1> QED
  BY RollupInvariant, <1>1, PTL

\* Retention takes samples only out of old buckets, and an aggregation only out
\* of a minute that an on-demand aggregation cut
\* (RollupMetrics1m, RollupLatencyResults1m, PruneOldMetrics).
THEOREM BucketsOnlyGrow == RollupSpec => BucketsGrow
<1>1. ASSUME RollupInv, [RollupNext]_rollupVars
      PROVE  [\A m \in Minutes :
                 buckets[m] \subseteq buckets'[m] \/ m < RollupCutoff \/ m \in cut']_rollupVars
  <2> SUFFICES ASSUME RollupNext, NEW m \in Minutes
               PROVE  buckets[m] \subseteq buckets'[m] \/ m < RollupCutoff \/ m \in cut'
    BY <1>1
  <2>1. CASE RollupLoop
    <3>1. cut' = cut
      BY <2>1 DEF RollupLoop
    <3> QED
      BY <1>1, <2>1, <3>1, LoopKeeps DEF RollupInv
  <2>2. CASE RollupOnDemand
    BY <1>1, <2>2, OnDemandCuts DEF RollupInv
  <2>3. CASE Prune
    BY <2>3 DEF Prune
  <2>4. CASE \/ \E t \in Ticks : InsertSample(t)
             \/ Pass \/ RollupFails \/ OnDemandFails
             \/ \E from \in Minutes, to \in Ticks : RequestRollup(from, to)
    BY <2>4 DEF InsertSample, Pass, RollupFails, OnDemandFails,
               RequestRollup, rowVars
  <2> QED
    BY <2>1, <2>2, <2>3, <2>4 DEF RollupNext
<1> QED
  BY RollupInvariant, <1>1, PTL DEF RollupSpec, BucketsGrow

(***************************************************************************)
(* The run that checks the components together.                            *)
(***************************************************************************)

\* Each component behaves in the run as its own specification says: it takes its
\* own steps while the others stay where they begin.
LEMMA ComponentsRun ==
    /\ MCSpec => DispatcherSpec
    /\ MCSpec => EvaluatorSpec
    /\ MCSpec => GeoSpec
    /\ MCSpec => LatencySpec
    /\ MCSpec => RollupSpec
<1>1. MCInit => /\ DispatcherInit /\ EvaluatorInit /\ GeoInit
                /\ LatencyInit /\ RollupInit
  BY DEF MCInit
<1>2. [MCNext]_MCVars =>
          /\ [DispatcherNext]_dispatcherVars /\ [EvaluatorNext]_evaluatorVars
          /\ [GeoNext]_geoVars /\ [LatencyNext]_latencyVars
          /\ [RollupNext]_rollupVars
  BY Zenon DEF MCNext, MCVars
<1> QED
  BY <1>1, <1>2, PTL
     DEF MCSpec, DispatcherSpec, EvaluatorSpec, GeoSpec, LatencySpec, RollupSpec

\* The states of all components keep their types in the run that composes them,
\* for every number of connections, workers, requests, providers, monitors and
\* samples.
THEOREM ServicesTypeCorrect == MCSpec => []ServicesTypeOK
<1>1. (/\ DispatcherTypeOK /\ EvaluatorTypeOK /\ GeoTypeOK
       /\ LatencyTypeOK /\ RollupTypeOK) => ServicesTypeOK
  BY DEF ServicesTypeOK
<1> QED
  BY <1>1, ComponentsRun, DispatcherTypeCorrect, EvaluatorTypeCorrect, GeoTypeCorrect,
     LatencyTypeCorrect, RollupTypeCorrect, PTL

=============================================================================
