---------------------------- MODULE ServerShutdown ----------------------------
(***************************************************************************)
(* The end of the server process (cmd/server/main.go): the signal, the     *)
(* HTTP server with the requests it still answers, the two background      *)
(* loops, and the store, which all of them use and which is closed last.   *)
(* Every wait has a deadline.  WebSocket handlers are not waited for: the  *)
(* HTTP server does not know connections that were taken over.             *)
(***************************************************************************)
EXTENDS Naturals

CONSTANTS
    LastLoop    \* the number of background loops

ASSUME ShutdownAssumption == LastLoop \in Nat \ {0}

\* The loops in the order they are waited for.
Loops == 1..LastLoop

VARIABLES
    mainAt,     \* where main is
    waiting,    \* the loop main waits for
    signalled,  \* the context is cancelled: SIGINT or SIGTERM
    listening,  \* the HTTP server accepts connections
    inflight,   \* a request is being answered
    loopAt,     \* where each loop is
    storeOpen,  \* the store is not closed
    overdue,    \* history: a deadline passed
    failed      \* history: the HTTP server ended by itself

shutdownVars == <<mainAt, waiting, signalled, listening, inflight, loopAt, storeOpen,
                  overdue, failed>>

-----------------------------------------------------------------------------

\* The loops are started before the HTTP server.
ShutdownInit ==
    /\ mainAt = "serving"
    /\ waiting = 1
    /\ signalled = FALSE
    /\ listening = TRUE
    /\ inflight = FALSE
    /\ loopAt = [l \in Loops |-> "working"]
    /\ storeOpen = TRUE
    /\ overdue = FALSE /\ failed = FALSE

Signal ==
    /\ ~signalled
    /\ signalled' = TRUE
    /\ UNCHANGED <<mainAt, waiting, listening, inflight, loopAt, storeOpen, overdue,
                   failed>>

BeginRequest ==
    /\ listening /\ ~inflight
    /\ inflight' = TRUE
    /\ UNCHANGED <<mainAt, waiting, signalled, listening, loopAt, storeOpen, overdue,
                   failed>>

EndRequest ==
    /\ inflight
    /\ inflight' = FALSE
    /\ UNCHANGED <<mainAt, waiting, signalled, listening, loopAt, storeOpen, overdue,
                   failed>>

\* A loop works whenever its ticker says so, also after the signal: a select
\* with both cases ready takes either.
LoopTick(l) ==
    /\ loopAt[l] = "idle"
    /\ loopAt' = [loopAt EXCEPT ![l] = "working"]
    /\ UNCHANGED <<mainAt, waiting, signalled, listening, inflight, storeOpen, overdue,
                   failed>>

\* Its statements end.
LoopRests(l) ==
    /\ loopAt[l] = "working"
    /\ loopAt' = [loopAt EXCEPT ![l] = "idle"]
    /\ UNCHANGED <<mainAt, waiting, signalled, listening, inflight, storeOpen, overdue,
                   failed>>

\* A loop that is not working sees the cancelled context.
LoopEnds(l) ==
    /\ signalled
    /\ loopAt[l] = "idle"
    /\ loopAt' = [loopAt EXCEPT ![l] = "done"]
    /\ UNCHANGED <<mainAt, waiting, signalled, listening, inflight, storeOpen, overdue,
                   failed>>

\* serveHTTPServer: Serve returns an error of its own.
ServeFails ==
    /\ mainAt = "serving"
    /\ mainAt' = "hub"
    /\ listening' = FALSE
    /\ failed' = TRUE
    /\ UNCHANGED <<waiting, signalled, inflight, loopAt, storeOpen, overdue>>

\* serveHTTPServer: the context is cancelled, Shutdown closes the listener.
BeginShutdown ==
    /\ mainAt = "serving" /\ signalled
    /\ mainAt' = "draining"
    /\ listening' = FALSE
    /\ UNCHANGED <<waiting, signalled, inflight, loopAt, storeOpen, overdue, failed>>

\* Shutdown returns when no request is left, or at its deadline.
EndShutdown(timedOut) ==
    /\ mainAt = "draining"
    /\ timedOut \/ ~inflight
    /\ mainAt' = "hub"
    /\ overdue' = (overdue \/ timedOut)
    /\ UNCHANGED <<waiting, signalled, listening, inflight, loopAt, storeOpen, failed>>

\* The hub is closed.
CloseHub ==
    /\ mainAt = "hub"
    /\ mainAt' = "waiting"
    /\ UNCHANGED <<waiting, signalled, listening, inflight, loopAt, storeOpen, overdue,
                   failed>>

\* The loop has no deadline.
MayStopWaitingFault(timedOut) == loopAt[waiting] = "done"

\* The loop is done, or its deadline passes.
MayStopWaiting(timedOut) == timedOut \/ loopAt[waiting] = "done"

\* Only the first loop is waited for.
AfterWaitFault == "closing"

AfterWait == IF waiting = LastLoop THEN "closing" ELSE "waiting"

\* waitForBackgroundLoop.
WaitForLoop(timedOut) ==
    /\ mainAt = "waiting"
    /\ MayStopWaiting(timedOut)
    /\ overdue' = (overdue \/ timedOut)
    /\ mainAt' = AfterWait
    /\ waiting' = IF waiting = LastLoop THEN waiting ELSE waiting + 1
    /\ UNCHANGED <<signalled, listening, inflight, loopAt, storeOpen, failed>>

CloseStore ==
    /\ mainAt = "closing"
    /\ mainAt' = "exited"
    /\ storeOpen' = FALSE
    /\ UNCHANGED <<waiting, signalled, listening, inflight, loopAt, overdue, failed>>

Main ==
    \/ BeginShutdown \/ CloseHub \/ CloseStore
    \/ \E timedOut \in BOOLEAN : EndShutdown(timedOut) \/ WaitForLoop(timedOut)

ShutdownNext ==
    \/ Signal \/ BeginRequest \/ EndRequest \/ ServeFails
    \/ \E l \in Loops : LoopTick(l) \/ LoopRests(l) \/ LoopEnds(l)
    \/ Main

\* Deadlines pass and main is scheduled; nothing is assumed of the requests
\* and the loops.
ShutdownFairness == WF_shutdownVars(Main)

ShutdownSpec == ShutdownInit /\ [][ShutdownNext]_shutdownVars /\ ShutdownFairness

-----------------------------------------------------------------------------

ShutdownTypeOK ==
    /\ mainAt \in {"serving", "draining", "hub", "waiting", "closing", "exited"}
    /\ waiting \in Loops
    /\ signalled \in BOOLEAN /\ listening \in BOOLEAN /\ inflight \in BOOLEAN
    /\ loopAt \in [Loops -> {"idle", "working", "done"}]
    /\ storeOpen \in BOOLEAN /\ overdue \in BOOLEAN /\ failed \in BOOLEAN

\* The store is closed when nothing main waits for uses it any more, unless a
\* deadline passed, or the HTTP server ended by itself: then nothing tells the
\* loops to stop (main, waitForBackgroundLoop).
StoreClosedLast ==
    ~storeOpen /\ ~overdue /\ ~failed =>
        ~inflight /\ \A l \in Loops : loopAt[l] = "done"

\* A signal ends the process, also when a request or a loop hangs
\* (serveHTTPServer, waitForBackgroundLoop).
ShutdownEnds == signalled ~> mainAt = "exited"

=============================================================================
