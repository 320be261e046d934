----------------------------- MODULE MetricsRollup -----------------------------
(***************************************************************************)
(* The life of a node's samples in the store: raw rows (metrics,           *)
(* monitor_results), their aggregation into buckets of a minute            *)
(* (metrics_1m, latency_1m) by a loop and, for latencies, on demand, and   *)
(* the loop that deletes old rows (cmd/server, internal/store).            *)
(*                                                                         *)
(* Time is counted in ticks, several to a minute, and a sample is its time *)
(* stamp.  A bucket is the set of the samples that were aggregated into    *)
(* it; aggregation replaces it.  The two kinds of tables differ in the end *)
(* of the window, and share nothing.                                       *)
(***************************************************************************)
EXTENDS Naturals, FiniteSets

CONSTANTS
    Minute,     \* ticks in a minute
    Window,     \* how far back the loop aggregates (15 minutes)
    RawKeep,    \* raw retention (2 days)
    RollupKeep, \* retention of the settings (30 days and more)
    MaxTime,    \* bound: ticks
    MaxRows     \* bound: samples

ASSUME RollupAssumption ==
    /\ Minute \in Nat \ {0} /\ Window \in Nat /\ RawKeep \in Nat
    /\ RollupKeep \in Nat
    /\ 2 * Minute <= Window
    /\ Window + Minute <= RawKeep
    /\ RawKeep <= RollupKeep
    /\ MaxTime \in Nat /\ MaxRows \in Nat

Ticks == 0..MaxTime
Start(t) == (t \div Minute) * Minute
Minutes == {Start(t) : t \in Ticks}
NoDemand == <<>>

VARIABLES
    kind,       \* which tables: "metrics" or "latency"
    now,        \* the time
    raw,        \* the raw rows
    buckets,    \* the samples in the bucket of each minute
    demand,     \* the window of the on-demand aggregation, or NoDemand
    lastRollup, \* when the loop last aggregated
    accepted,   \* history: samples ever inserted
    prunedTo,   \* history: the latest raw cutoff
    tardy,      \* history: samples inserted too late for the loop
    cut,        \* history: minutes aggregated when some samples were left out
    late        \* history: the loop missed a minute or a statement failed

rowVars == <<raw, buckets>>
rollupVars == <<kind, now, rowVars, demand, lastRollup, accepted, prunedTo,
                tardy, cut, late>>

-----------------------------------------------------------------------------

RollupInit ==
    /\ kind \in {"metrics", "latency"}
    /\ now = 0
    /\ raw = {} /\ accepted = {} /\ tardy = {}
    /\ buckets = [m \in Minutes |-> {}]
    /\ demand = NoDemand
    /\ lastRollup = 0 /\ prunedTo = 0
    /\ cut = {}
    /\ late = FALSE

\* The next run of the loop, at the latest a minute after the last, has a window
\* that begins after t.
Tardy(t) == lastRollup + Minute > t + Window

\* A sample is inserted with the time stamp of the agent: that of a clock
\* that is behind or ahead, or of a message that was long under way.
InsertSample(t) ==
    /\ t \notin accepted
    /\ Cardinality(accepted) < MaxRows
    /\ raw' = raw \cup {t}
    /\ accepted' = accepted \cup {t}
    /\ tardy' = IF Tardy(t) THEN tardy \cup {t} ELSE tardy
    /\ UNCHANGED <<kind, now, buckets, demand, lastRollup, prunedTo, cut, late>>

\* Time passes; the loop may miss its tick.
Pass ==
    /\ now < MaxTime
    /\ now' = now + 1
    /\ late' = (late \/ now' - lastRollup > Minute)
    /\ UNCHANGED <<kind, rowVars, demand, lastRollup, accepted, prunedTo, tardy, cut>>

\* The start of the window is not moved to the start of its minute.
AggregatedFault(from, to) ==
    [m \in Minutes |->
        LET rows == {t \in raw : Start(t) = m /\ from <= t /\ t <= to} IN
        IF rows = {} THEN buckets[m] ELSE rows]

\* INSERT ... SELECT ... GROUP BY minute ... ON CONFLICT DO UPDATE over the
\* rows with a time stamp from the start of a minute to `to`.
Aggregated(from, to) ==
    [m \in Minutes |->
        LET rows == {t \in raw : Start(t) = m /\ Start(from) <= t /\ t <= to} IN
        IF rows = {} THEN buckets[m] ELSE rows]

\* The start of the window of the loop.
WindowStart == IF now < Window THEN 0 ELSE now - Window

\* rollupMetrics: RollupMetrics1m ends at the start of the current minute,
\* RollupLatencyResults1m now.
RollupLoop ==
    /\ buckets' = Aggregated(WindowStart, IF kind = "metrics" THEN Start(now) ELSE now)
    /\ lastRollup' = now
    /\ UNCHANGED <<kind, now, raw, demand, accepted, prunedTo, tardy, cut, late>>

\* The statement fails and is only logged.
RollupFails ==
    /\ late' = TRUE
    /\ lastRollup' = now
    /\ UNCHANGED <<kind, now, rowVars, demand, accepted, prunedTo, tardy, cut>>

\* requestAsyncLatencyRollup, one at a time: the minutes of [from, to] are not
\* covered (NeedsLatencyResults1mRollup) for some node, whose rows need not be
\* these, and the aggregation is over all nodes.  The window is a request's
\* and may end in the future.
RequestRollup(from, to) ==
    /\ kind = "latency"
    /\ demand = NoDemand
    /\ from <= to
    /\ demand' = <<from, to>>
    /\ UNCHANGED <<kind, now, rowVars, lastRollup, accepted, prunedTo, tardy, cut, late>>

\* The minutes aggregated over [from, to] without all their samples: not over
\* yet, at the end of the window or now, or begun before the raw cutoff.
CutBy(from, to) ==
    {m \in Minutes :
        /\ \E t \in raw : Start(t) = m /\ Start(from) <= t /\ t <= to
        /\ \/ to < m + Minute - 1
           \/ now < m + Minute - 1
           \/ m < prunedTo}

\* The goroutine aggregates the window it was started for.
RollupOnDemand ==
    /\ demand # NoDemand
    /\ buckets' = Aggregated(demand[1], demand[2])
    /\ cut' = cut \cup CutBy(demand[1], demand[2])
    /\ demand' = NoDemand
    /\ UNCHANGED <<kind, now, raw, lastRollup, accepted, prunedTo, tardy, late>>

\* Its statement fails and is only logged.
OnDemandFails ==
    /\ demand # NoDemand
    /\ demand' = NoDemand
    /\ UNCHANGED <<kind, now, rowVars, lastRollup, accepted, prunedTo, tardy, cut, late>>

\* Raw rows are deleted after a minute.
RawCutoffFault == IF now < Minute THEN 0 ELSE now - Minute

\* PruneOldMetrics: the cutoff of the raw tables.
RawCutoff == IF now < RawKeep THEN 0 ELSE now - RawKeep

\* The cutoff of the buckets.
RollupCutoff == IF now < RollupKeep THEN 0 ELSE now - RollupKeep

\* PruneOldMetrics, in one transaction.
Prune ==
    /\ raw' = {t \in raw : t >= RawCutoff}
    /\ buckets' = [m \in Minutes |-> IF m < RollupCutoff THEN {} ELSE buckets[m]]
    /\ prunedTo' = RawCutoff
    /\ UNCHANGED <<kind, now, demand, lastRollup, accepted, tardy, cut, late>>

RollupNext ==
    \/ \E t \in Ticks : InsertSample(t)
    \/ Pass
    \/ RollupLoop \/ RollupFails
    \/ \E from \in Minutes, to \in Ticks : RequestRollup(from, to)
    \/ RollupOnDemand \/ OnDemandFails
    \/ Prune

RollupSpec == RollupInit /\ [][RollupNext]_rollupVars

-----------------------------------------------------------------------------

RollupTypeOK ==
    /\ kind \in {"metrics", "latency"}
    /\ now \in Ticks /\ lastRollup \in Ticks /\ prunedTo \in Ticks
    /\ raw \subseteq Ticks /\ accepted \subseteq Ticks /\ tardy \subseteq accepted
    /\ buckets \in [Minutes -> SUBSET Ticks]
    /\ demand \in (Ticks \X Ticks) \cup {NoDemand}
    /\ cut \subseteq Minutes
    /\ late \in BOOLEAN

\* No sample is lost before its retention ends: it is a raw row or in its
\* bucket, as long as the loop runs every minute and no on-demand aggregation
\* cut its minute.  But one that arrives with a time stamp before the window of
\* the loop's next run is never aggregated, and gone with the raw rows
\* (rollupMetrics, PruneOldMetrics).
SamplesKept ==
    ~late =>
        \A t \in accepted \ tardy :
            \/ t \in raw \cup buckets[Start(t)]
            \/ Start(t) < RollupCutoff
            \/ Start(t) \in cut

\* Aggregating a minute again takes samples out of its bucket only after an
\* on-demand aggregation cut it, be it that one or the loop, which does not see
\* the samples from the future that it saw
\* (RollupMetrics1m, RollupLatencyResults1m).
BucketsGrow ==
    [][\A m \in Minutes :
          buckets[m] \subseteq buckets'[m] \/ m < RollupCutoff \/ m \in cut']_rollupVars

=============================================================================
