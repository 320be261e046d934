------------------------------ MODULE MCServices ------------------------------
(* Model checking of the components beside the control plane.  They share no *)
(* state, so one run checks them all: it picks one of them at the start, and *)
(* the others stay where they begin.                                         *)
EXTENDS TLC, AlertDispatcher, AlertEvaluator, GeoManager, LatencyConfig, MetricsRollup

VARIABLE component \* the one that runs

MCInit ==
    /\ component \in {"dispatcher", "evaluator", "geo", "latency", "rollup"}
    /\ DispatcherInit
    /\ EvaluatorInit
    /\ GeoInit
    /\ LatencyInit
    /\ RollupInit
    \* the capacity at first; it changes
    /\ setting = CHOOSE c \in Capacities : TRUE
    \* one initial state of the components that do not run
    /\ component # "geo" => \A p \in Providers : files[p] = Missing
    /\ component # "rollup" => kind = "metrics"

MCNext ==
    /\ UNCHANGED component
    /\ \/ component = "dispatcher" /\ DispatcherNext
          /\ UNCHANGED <<evaluatorVars, geoVars, latencyVars, rollupVars>>
       \/ component = "evaluator" /\ EvaluatorNext
          /\ UNCHANGED <<dispatcherVars, geoVars, latencyVars, rollupVars>>
       \/ component = "geo" /\ GeoNext
          /\ UNCHANGED <<dispatcherVars, evaluatorVars, latencyVars, rollupVars>>
       \/ component = "latency" /\ LatencyNext
          /\ UNCHANGED <<dispatcherVars, evaluatorVars, geoVars, rollupVars>>
       \/ component = "rollup" /\ RollupNext
          /\ UNCHANGED <<dispatcherVars, evaluatorVars, geoVars, latencyVars>>

\* The requests for the latency monitors and the address families are
\* interchangeable.
Symmetry == Permutations(LatencyRequests) \cup Permutations(Families)

MCVars == <<component, dispatcherVars, evaluatorVars, geoVars,
            latencyVars, rollupVars>>

MCSpec == MCInit /\ [][MCNext]_MCVars

\* The state of the component that runs has its type; the others are where
\* they begin, which is the first state of their own runs.
ServicesTypeOK ==
    /\ component = "dispatcher" => DispatcherTypeOK
    /\ component = "evaluator" => EvaluatorTypeOK
    /\ component = "geo" => GeoTypeOK
    /\ component = "latency" => LatencyTypeOK
    /\ component = "rollup" => RollupTypeOK

=============================================================================
