---------------------------- MODULE AlertEvaluator ----------------------------
(***************************************************************************)
(* What the workers of the alert dispatchers do with the samples of a node *)
(* (internal/alerting/alerting.go): Process turns a sample into an alert   *)
(* or a recovery with the help of the tables alert_deliveries,             *)
(* recovery_deliveries and recovery_states.                                *)
(*                                                                         *)
(* One node and one metric; a sample is "hot" at or above its threshold,   *)
(* "cool" below it.  A node that reconnects has two workers for a while:   *)
(* the one of the old connection still drains its queue.  Each evaluates   *)
(* its samples in order, one statement or notification at a time, and any  *)
(* of them may fail.  A stop of the server is a failure of every worker.   *)
(* Severities and node scopes are left out: the cooldown is over all       *)
(* severities.                                                             *)
(***************************************************************************)
EXTENDS Integers

CONSTANTS
    Evaluators,       \* the workers, one per connection
    Cooldown,         \* settings: between two alerts, in time units
    RecoveryCooldown, \* settings: between two recoveries
    RecoverySamples,  \* settings: RecoverySuccessiveSamples
    MaxAlertTime      \* bound: time stamps

ASSUME EvaluatorAssumption ==
    /\ Cooldown \in Nat /\ RecoveryCooldown \in Nat
    /\ RecoverySamples \in Nat \ {0}
    /\ MaxAlertTime \in Nat

Never == -1
Times == 0..MaxAlertTime
Samples == [kind : {"hot", "cool"}, at : Times]
NoSample == [kind |-> "cool", at |-> 0]

VARIABLES
    alertTime,   \* the time of the newest sample
    step,        \* the statement each worker is about to execute
    sample,      \* the sample it evaluates
    delivered,   \* alert_deliveries: time of the last alert, or Never
    recovered,   \* recovery_deliveries: time of the last recovery, or Never
    streak,      \* recovery_states: consecutive_successes
    lastAlert,   \* history: time of the last alert notified, or Never: there was
                 \* none, or a recovery was notified or left out after it
    calm,        \* history: cool samples counted since that alert
    crowd,       \* history: the last worker to pass its first test found
                 \* another one that was past it
    doubt        \* history: so one did, or a statement failed, and no worker
                 \* recorded or cleared an alert undisturbed since

deliveryVars == <<delivered, recovered, streak>>
historyVars == <<lastAlert, calm, crowd, doubt>>
evaluatorVars == <<alertTime, step, sample, deliveryVars, historyVars>>

\* The steps after the first test: the worker relies on what it has read.
Deciding == {"alert", "recordAlert", "count", "recover", "recordRecovery", "clear", "reset"}
Evaluating == Deciding \cup {"idle", "hot", "cool"}

-----------------------------------------------------------------------------

EvaluatorInit ==
    /\ alertTime = 0
    /\ step = [e \in Evaluators |-> "idle"]
    /\ sample = [e \in Evaluators |-> NoSample]
    /\ delivered = Never /\ recovered = Never /\ streak = 0
    /\ lastAlert = Never /\ calm = 0 /\ crowd = FALSE /\ doubt = FALSE

\* The worker takes a sample; agents stamp them, an old queue holds old ones.
TakeSample(e, kind, t) ==
    /\ step[e] = "idle"
    /\ t \in 0..alertTime + 1 /\ t <= MaxAlertTime
    /\ alertTime' = IF t > alertTime THEN t ELSE alertTime
    /\ step' = [step EXCEPT ![e] = kind]
    /\ sample' = [sample EXCEPT ![e] = [kind |-> kind, at |-> t]]
    /\ UNCHANGED <<deliveryVars, historyVars>>

\* The worker goes from step a to step b; done with the sample it is idle.
Goes(e, a, b) ==
    /\ step[e] = a
    /\ step' = [step EXCEPT ![e] = b]
    /\ sample' = IF b = "idle" THEN [sample EXCEPT ![e] = NoSample] ELSE sample
    /\ UNCHANGED alertTime

Alone(e) == \A o \in Evaluators \ {e} : step[o] \notin Deciding

\* The first test is passed: from here on the worker relies on it.
Decides(e, a, b) ==
    /\ Goes(e, a, b)
    /\ crowd' = ~Alone(e)
    /\ doubt' = (doubt \/ ~Alone(e))
    /\ UNCHANGED <<deliveryVars, lastAlert, calm>>

\* ShouldSendAlert.
AlertAllowed(t) == delivered = Never \/ t - delivered >= Cooldown

\* ShouldSendRecovery.
RecoveryAllowed(t) == recovered = Never \/ t - recovered >= RecoveryCooldown

\* HasActiveAlertDelivery.
Active == delivered # Never

\* Process of a hot sample, as far as the cooldown test.
EvaluateHot(e) ==
    \/ AlertAllowed(sample[e].at) /\ Decides(e, "hot", "alert")
    \/ /\ ~AlertAllowed(sample[e].at)
       /\ Goes(e, "hot", "idle")
       /\ UNCHANGED <<deliveryVars, historyVars>>

\* Process of a cool sample, as far as the test for an active alert.
EvaluateCool(e) == Decides(e, "cool", IF Active THEN "count" ELSE "reset")

\* The streak is counted, and at the end of it a recovery is notified or, in
\* its cooldown, left out (IncrementRecoveryStreak, ShouldSendRecovery).
CountSample(e) ==
    /\ Goes(e, "count",
           CASE streak + 1 < RecoverySamples -> "idle"
             [] streak + 1 >= RecoverySamples /\ RecoveryAllowed(sample[e].at) -> "recover"
             [] OTHER -> "clear")
    /\ streak' = IF streak < RecoverySamples THEN streak + 1 ELSE streak
    /\ calm' = IF calm < RecoverySamples THEN calm + 1 ELSE calm
    /\ UNCHANGED <<delivered, recovered, lastAlert, crowd, doubt>>

\* Sender.Send of an alert.
SendAlert(e) ==
    /\ Goes(e, "alert", "recordAlert")
    /\ lastAlert' = sample[e].at /\ calm' = 0
    /\ UNCHANGED <<deliveryVars, crowd, doubt>>

\* RecordAlertDelivery.
RecordAlert(e) ==
    /\ Goes(e, "recordAlert", "reset")
    /\ delivered' = sample[e].at
    /\ doubt' = (doubt /\ crowd)
    /\ UNCHANGED <<recovered, streak, lastAlert, calm, crowd>>

\* Sender.Send of a recovery.
SendRecovery(e) ==
    /\ Goes(e, "recover", "recordRecovery")
    /\ lastAlert' = Never
    /\ UNCHANGED <<deliveryVars, calm, crowd, doubt>>

\* RecordRecoveryDelivery.
RecordRecovery(e) ==
    /\ Goes(e, "recordRecovery", "clear")
    /\ recovered' = sample[e].at
    /\ UNCHANGED <<delivered, streak, historyVars>>

\* ClearAlertDelivery, after a recovery that was notified or left out.
ClearAlert(e) ==
    /\ Goes(e, "clear", "reset")
    /\ delivered' = Never /\ lastAlert' = Never
    /\ doubt' = (doubt /\ crowd)
    /\ UNCHANGED <<recovered, streak, calm, crowd>>

\* The streak stays.
ResetRecoveryFault(e) ==
    /\ Goes(e, "reset", "idle")
    /\ UNCHANGED <<deliveryVars, historyVars>>

\* ResetRecoveryState.
ResetRecovery(e) ==
    /\ Goes(e, "reset", "idle")
    /\ streak' = 0
    /\ UNCHANGED <<delivered, recovered, historyVars>>

\* A test, a notification or a statement fails: Process returns.
Fails(e) ==
    /\ \E a \in Evaluating \ {"idle"} : Goes(e, a, "idle")
    /\ doubt' = (doubt \/ step[e] \in Deciding)
    /\ UNCHANGED <<deliveryVars, lastAlert, calm, crowd>>

EvaluatorNext ==
    \E e \in Evaluators :
        \/ \E kind \in {"hot", "cool"}, t \in Times : TakeSample(e, kind, t)
        \/ EvaluateHot(e) \/ EvaluateCool(e) \/ CountSample(e)
        \/ SendAlert(e) \/ RecordAlert(e)
        \/ SendRecovery(e) \/ RecordRecovery(e) \/ ClearAlert(e)
        \/ ResetRecovery(e) \/ Fails(e)

EvaluatorSpec == EvaluatorInit /\ [][EvaluatorNext]_evaluatorVars

-----------------------------------------------------------------------------

EvaluatorTypeOK ==
    /\ alertTime \in Times
    /\ step \in [Evaluators -> Evaluating]
    /\ sample \in [Evaluators -> Samples]
    /\ delivered \in Times \cup {Never} /\ recovered \in Times \cup {Never}
    /\ streak \in 0..RecoverySamples /\ calm \in 0..RecoverySamples
    /\ lastAlert \in Times \cup {Never}
    /\ crowd \in BOOLEAN /\ doubt \in BOOLEAN

\* The worker's next step is done: it is at b.
Leaves(e, a, b) == step[e] = a /\ step'[e] = b

\* An alert is notified inside the cooldown of the one before it only when a
\* recovery was notified or left out in between (both clear the table the
\* cooldown is read from).  A recovery is notified once for an alert, and only
\* after RecoverySamples healthy samples since it.  Both hold however the
\* samples of two connections' workers interleave (Process, ShouldSendAlert,
\* HasActiveAlertDelivery), except in doubt: from the moment two workers are
\* past their first tests at once, or a statement fails, until a worker records
\* an alert or clears one with nobody beside it.
NotificationsSound ==
    [][\A e \in Evaluators :
           /\ Leaves(e, "alert", "recordAlert") =>
                  \/ doubt
                  \/ lastAlert = Never
                  \/ sample[e].at - lastAlert >= Cooldown
           /\ Leaves(e, "recover", "recordRecovery") =>
                  \/ doubt
                  \/ lastAlert # Never /\ calm >= RecoverySamples]_evaluatorVars

=============================================================================
