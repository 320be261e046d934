----------------------------- MODULE ServicesProofs -----------------------------
(***************************************************************************)
(* Proofs about the components beside the control plane, for any number of *)
(* requests, connections, workers, providers and monitors: GeoManager,     *)
(* ServerShutdown, AlertEvaluator, AlertDispatcher and LatencyConfig.      *)
(***************************************************************************)
EXTENDS AlertDispatcher, AlertEvaluator, GeoManager, LatencyConfig, ServerShutdown,
        FiniteSetTheorems, WellFoundedInduction, TLAPS

(***************************************************************************)
(* GeoManager                                                              *)
(***************************************************************************)

LEMMA OpenedType ==
    ASSUME GeoTypeOK, NEW p \in Providers
    PROVE  Opened(files, corrupt, p) \in (Providers \X Versions) \cup {NoResolver}
<1>1. DatabaseAt(files, p) \in Versions \cup {Missing}
  BY GeoAssumption DEF DatabaseAt, GeoTypeOK, Versions, Shipped, Missing
<1> QED
  BY <1>1 DEF Opened

\* The steps of a request.
LEMMA TurnsType ==
    ASSUME GeoTypeOK, NEW r \in GeoRequests, NEW a,
           NEW b \in {"idle", "updated", "storing", "fetching", "fetched"},
           NEW value \in Settings, Turns(r, a, b, value)
    PROVE  /\ request' \in [GeoRequests -> {"idle", "updated", "storing", "fetching", "fetched"}]
           /\ reads' \in [GeoRequests -> Settings]
           /\ request[r] = a
           /\ \A o \in GeoRequests : request'[o] = IF o = r THEN b ELSE request[o]
           /\ \A o \in GeoRequests : reads'[o] = IF o = r THEN value ELSE reads[o]
BY DEF Turns, GeoTypeOK

LEMMA ReloadType ==
    ASSUME GeoTypeOK, NEW s \in Settings, Reload(s)
    PROVE  /\ resolver' \in (Providers \X Versions) \cup {NoResolver}
           /\ resolver' = Opened(files, corrupt, s.provider)
           /\ lastError' \in BOOLEAN /\ unread' = FALSE
<1>1. s.provider \in Providers
  BY DEF Settings
<1> QED
  BY <1>1, OpenedType DEF Reload

\* The updates of the settings that are under way.
Updating == {r \in GeoRequests : request[r] \in {"updated", "storing"}}

\* Unless updates overlapped or one was not stored: there is one update at
\* most, it stores what is in memory, and without one that is stored.
UpdateInOrder ==
    ~astray =>
        /\ \A r, o \in Updating : r = o
        /\ \A r \in GeoRequests : request[r] = "storing" => reads[r] = settings
        /\ Updating = {} => stored = settings

GeoInv == GeoTypeOK /\ ResolverCurrent /\ UpdateInOrder

LEMMA GeoInitInv == GeoInit => GeoInv
<1> SUFFICES ASSUME GeoInit PROVE GeoInv
  OBVIOUS
<1>1. DefaultSettings \in Settings /\ DefaultSettings.provider = DefaultProvider
  BY GeoAssumption DEF DefaultSettings, Settings
<1>2. GeoTypeOK
  <2>1. /\ files \in [Providers -> Versions \cup {Missing}] /\ corrupt \subseteq Versions
        /\ versions \in Versions
    BY GeoAssumption DEF GeoInit, Versions, Shipped, Missing
  <2>2. DatabaseAt(files, DefaultProvider) \in Versions \cup {Missing}
    BY <2>1, GeoAssumption DEF DatabaseAt, Versions, Shipped, Missing
  <2>3. resolver \in (Providers \X Versions) \cup {NoResolver}
    BY <2>2, GeoAssumption DEF GeoInit, Opened
  <2>4. /\ request \in [GeoRequests -> {"idle", "updated", "storing", "fetching", "fetched"}]
        /\ reads \in [GeoRequests -> Settings]
    BY <1>1 DEF GeoInit
  <2>5. settings \in Settings /\ stored \in Settings
    BY <1>1 DEF GeoInit
  <2>6. updates \in 0..MaxUpdates
    BY GeoAssumption DEF GeoInit
  <2>7. lastError \in BOOLEAN /\ astray \in BOOLEAN /\ unread \in BOOLEAN
    BY DEF GeoInit
  <2> QED
    BY <2>1, <2>3, <2>4, <2>5, <2>6, <2>7 DEF GeoTypeOK
<1>3. ResolverCurrent
  BY <1>1 DEF GeoInit, ResolverCurrent
<1>4. UpdateInOrder
  BY DEF GeoInit, UpdateInOrder, Updating
<1> QED
  BY <1>2, <1>3, <1>4 DEF GeoInv

LEMMA UpdateSettingsInv ==
    ASSUME GeoInv, NEW r \in GeoRequests, NEW p \in Providers, NEW k \in Providers,
           NEW has \in BOOLEAN, UpdateSettings(r, p, k, has)
    PROVE  GeoInv'
<1>1. /\ updates < MaxUpdates /\ updates' = updates + 1
      /\ Turns(r, "idle", "updated", DefaultSettings)
      /\ settings' = NextSettings(p, k, has) /\ Reload(settings')
      /\ astray' = (Updating # {})
      /\ UNCHANGED <<stored, files, corrupt, versions>>
  BY DEF UpdateSettings, fileVars, Updating
<1>2. DefaultSettings \in Settings /\ settings' \in Settings
  BY <1>1, GeoAssumption DEF GeoInv, GeoTypeOK, DefaultSettings, Settings, NextSettings
<1>3. /\ resolver' \in (Providers \X Versions) \cup {NoResolver}
      /\ resolver' = Opened(files, corrupt, settings'.provider)
      /\ lastError' \in BOOLEAN /\ unread' = FALSE
  <2>1. PICK s \in Settings : s = settings'
    BY <1>2
  <2> QED
    BY <1>1, <2>1, ReloadType DEF GeoInv
<1>4. /\ request' \in [GeoRequests -> {"idle", "updated", "storing", "fetching", "fetched"}]
      /\ reads' \in [GeoRequests -> Settings]
      /\ \A o \in GeoRequests : request'[o] = IF o = r THEN "updated" ELSE request[o]
  <2>1. GeoTypeOK /\ Turns(r, "idle", "updated", DefaultSettings)
    BY <1>1 DEF GeoInv
  <2>2. DefaultSettings \in Settings
    BY <1>2
  <2> QED
    BY <2>1, <2>2, TurnsType
<1>5. astray' \in BOOLEAN
  BY <1>1
<1>6. GeoTypeOK'
  <2>1. updates' \in 0..MaxUpdates
    BY <1>1, GeoAssumption DEF GeoInv, GeoTypeOK
  <2>2. stored' \in Settings /\ files' \in [Providers -> Versions \cup {Missing}]
    BY <1>1 DEF GeoInv, GeoTypeOK
  <2>3. corrupt' \subseteq Versions /\ versions' \in Versions
    BY <1>1 DEF GeoInv, GeoTypeOK
  <2> QED
    BY <1>2, <1>3, <1>4, <1>5, <2>1, <2>2, <2>3 DEF GeoTypeOK
<1>7. ResolverCurrent'
  BY <1>1, <1>3 DEF ResolverCurrent
<1>8. UpdateInOrder'
  BY <1>1, <1>4 DEF UpdateInOrder, Updating
<1> QED
  BY <1>6, <1>7, <1>8 DEF GeoInv

\* The steps of a request that leave the settings in memory alone.
LEMMA RequestStepInv ==
    ASSUME GeoInv, NEW r \in GeoRequests,
           \/ ReadSettings(r) \/ StoreSettings(r) \/ StartRefresh(r)
           \/ FetchFails(r) \/ FinishRefresh(r)
    PROVE  GeoInv'
<1>1. PICK a \in {"idle", "updated", "storing", "fetching", "fetched"},
           b \in {"idle", "storing", "fetching"}, value \in Settings :
         /\ Turns(r, a, b, value)
         /\ b = "storing" => value = settings /\ a = "updated"
         /\ a = "updated" => b = "storing"
         /\ a = "storing" =>
               \/ stored' = reads[r] /\ UNCHANGED astray
               \/ astray' = TRUE /\ UNCHANGED stored
         /\ a # "storing" => UNCHANGED <<stored, astray>>
         /\ IF a = "fetched" THEN Reload(settings)
            ELSE UNCHANGED <<resolver, unread>> /\ lastError' \in BOOLEAN
  <2>1. DefaultSettings \in Settings /\ settings \in Settings /\ lastError \in BOOLEAN
    BY GeoAssumption DEF DefaultSettings, Settings, GeoInv, GeoTypeOK
  <2>2. CASE ReadSettings(r)
    BY <2>1, <2>2 DEF ReadSettings, ReadBack
  <2>3. CASE StoreSettings(r)
    BY <2>1, <2>3 DEF StoreSettings
  <2>4. CASE StartRefresh(r)
    BY <2>1, <2>4 DEF StartRefresh
  <2>5. CASE FetchFails(r)
    BY <2>1, <2>5 DEF FetchFails
  <2>6. CASE FinishRefresh(r)
    BY <2>1, <2>6 DEF FinishRefresh
  <2> QED
    BY <2>2, <2>3, <2>4, <2>5, <2>6
<1>2. UNCHANGED <<settings, files, corrupt, versions, updates>>
  BY DEF ReadSettings, StoreSettings, StartRefresh, FetchFails, FinishRefresh, fileVars
<1>3. /\ request' \in [GeoRequests -> {"idle", "updated", "storing", "fetching", "fetched"}]
      /\ reads' \in [GeoRequests -> Settings]
      /\ request[r] = a
      /\ \A o \in GeoRequests : request'[o] = IF o = r THEN b ELSE request[o]
      /\ \A o \in GeoRequests : reads'[o] = IF o = r THEN value ELSE reads[o]
  <2>1. b \in {"idle", "updated", "storing", "fetching", "fetched"}
    OBVIOUS
  <2>2. GeoTypeOK /\ Turns(r, a, b, value)
    BY <1>1 DEF GeoInv
  <2> QED
    BY <2>1, <2>2 DEF Turns, GeoTypeOK
<1>4. /\ resolver' \in (Providers \X Versions) \cup {NoResolver}
      /\ a = "fetched" => resolver' = Opened(files, corrupt, settings.provider)
      /\ lastError' \in BOOLEAN /\ unread' \in BOOLEAN
  <2>1. CASE a = "fetched"
    BY <1>1, <2>1, ReloadType DEF GeoInv, GeoTypeOK
  <2>2. CASE a # "fetched"
    <3>1. UNCHANGED <<resolver, unread>> /\ lastError' \in BOOLEAN
      BY <1>1, <2>2
    <3> QED
      BY <2>2, <3>1 DEF GeoInv, GeoTypeOK
  <2> QED
    BY <2>1, <2>2
<1>5. stored' \in Settings /\ astray' \in BOOLEAN
  <2>1. stored \in Settings /\ reads[r] \in Settings /\ astray \in BOOLEAN
    BY DEF GeoInv, GeoTypeOK
  <2>2. stored' \in {stored, reads[r]}
    BY <1>1
  <2>3. astray' = astray \/ astray' = TRUE
    BY <1>1
  <2> QED
    BY <2>1, <2>2, <2>3, Zenon
<1>6. GeoTypeOK'
  BY <1>2, <1>3, <1>4, <1>5 DEF GeoInv, GeoTypeOK
<1>7. ResolverCurrent'
  BY <1>1, <1>2, <1>3, <1>4 DEF GeoInv, ResolverCurrent
<1>8. UpdateInOrder'
  BY <1>1, <1>2, <1>3 DEF GeoInv, UpdateInOrder, Updating
<1> QED
  BY <1>6, <1>7, <1>8 DEF GeoInv

LEMMA FetchDoneInv ==
    ASSUME GeoInv, NEW r \in GeoRequests, NEW good \in BOOLEAN, FetchDone(r, good)
    PROVE  GeoInv'
<1>1. /\ versions <= MaxDownloads /\ versions' = versions + 1
      /\ Turns(r, "fetching", "fetched", reads[r])
      /\ files' = [files EXCEPT ![reads[r].provider] = versions']
      /\ corrupt' \subseteq corrupt \cup {versions'}
      /\ UNCHANGED <<settings, stored, resolver, lastError, updates, astray, unread>>
  BY DEF FetchDone
<1>2. versions' \in Versions
  BY <1>1, GeoAssumption DEF GeoInv, GeoTypeOK, Versions, Shipped
<1>3. reads[r] \in Settings
  BY DEF GeoInv, GeoTypeOK
<1>4. /\ request' \in [GeoRequests -> {"idle", "updated", "storing", "fetching", "fetched"}]
      /\ reads' \in [GeoRequests -> Settings]
      /\ request[r] = "fetching"
      /\ \A o \in GeoRequests : request'[o] = IF o = r THEN "fetched" ELSE request[o]
      /\ \A o \in GeoRequests : reads'[o] = reads[o]
  <2>1. /\ request[r] = "fetching" /\ request' = [request EXCEPT ![r] = "fetched"]
        /\ reads' = [reads EXCEPT ![r] = reads[r]]
    BY <1>1 DEF Turns
  <2>2. /\ request \in [GeoRequests -> {"idle", "updated", "storing", "fetching", "fetched"}]
        /\ reads \in [GeoRequests -> Settings]
    BY DEF GeoInv, GeoTypeOK
  <2>3. /\ request' \in [GeoRequests -> {"idle", "updated", "storing", "fetching", "fetched"}]
        /\ \A o \in GeoRequests : request'[o] = IF o = r THEN "fetched" ELSE request[o]
    BY <2>1, <2>2
  <2>4. reads' = reads
    BY <2>1, <2>2
  <2> QED
    BY <2>1, <2>2, <2>3, <2>4
<1>5. files' \in [Providers -> Versions \cup {Missing}] /\ corrupt' \subseteq Versions
  BY <1>1, <1>2 DEF GeoInv, GeoTypeOK
<1>6. GeoTypeOK'
  BY <1>1, <1>2, <1>4, <1>5 DEF GeoInv, GeoTypeOK
<1>7. ResolverCurrent'
  BY <1>4 DEF ResolverCurrent
<1>8. UpdateInOrder'
  BY <1>1, <1>4 DEF GeoInv, UpdateInOrder, Updating
<1> QED
  BY <1>6, <1>7, <1>8 DEF GeoInv

LEMMA RestartGeoInv ==
    ASSUME GeoInv, NEW readable \in BOOLEAN, RestartServer(readable)
    PROVE  GeoInv'
<1>1. /\ request' = [r \in GeoRequests |-> "idle"]
      /\ reads' = [r \in GeoRequests |-> DefaultSettings]
      /\ UNCHANGED <<stored, files, corrupt, versions, updates>>
  BY DEF RestartServer, fileVars
<1>2. DefaultSettings \in Settings /\ stored \in Settings
  BY GeoAssumption DEF DefaultSettings, Settings, GeoInv, GeoTypeOK
<1>3. CASE readable
  <2>1. settings' = stored /\ Reload(stored) /\ astray' = FALSE
    BY <1>3 DEF RestartServer
  <2>2. /\ resolver' \in (Providers \X Versions) \cup {NoResolver}
        /\ resolver' = Opened(files, corrupt, stored.provider)
        /\ lastError' \in BOOLEAN /\ unread' = FALSE
    BY <1>2, <2>1, ReloadType DEF GeoInv
  <2>3. GeoTypeOK'
    BY <1>1, <1>2, <2>1, <2>2 DEF GeoInv, GeoTypeOK
  <2> QED
    BY <1>1, <2>1, <2>2, <2>3 DEF GeoInv, ResolverCurrent, UpdateInOrder, Updating
<1>4. CASE ~readable
  <2>1. /\ settings' = DefaultSettings /\ resolver' = NoResolver /\ lastError' = FALSE
        /\ astray' = TRUE /\ unread' = TRUE
    BY <1>4 DEF RestartServer
  <2>2. GeoTypeOK'
    BY <1>1, <1>2, <2>1 DEF GeoInv, GeoTypeOK
  <2> QED
    BY <2>1, <2>2 DEF GeoInv, ResolverCurrent, UpdateInOrder
<1> QED
  BY <1>3, <1>4

LEMMA GeoNextInv ==
    ASSUME GeoInv, [GeoNext]_geoVars
    PROVE  GeoInv'
<1>1. CASE UNCHANGED geoVars
  BY <1>1 DEF geoVars, GeoInv, GeoTypeOK, ResolverCurrent, UpdateInOrder, Updating
<1>2. CASE GeoNext
  BY <1>2, UpdateSettingsInv, RequestStepInv, FetchDoneInv, RestartGeoInv DEF GeoNext
<1> QED
  BY <1>1, <1>2

LEMMA GeoInvariant == GeoSpec => []GeoInv
BY GeoInitInv, GeoNextInv, PTL DEF GeoSpec

\* The variables of the GeoIP manager keep their types.
THEOREM GeoTypeCorrect == GeoSpec => []GeoTypeOK
<1>1. GeoInv => GeoTypeOK
  BY DEF GeoInv
<1> QED
  BY <1>1, GeoInvariant, PTL

\* Lookups use the file that is on disk for the provider in the settings
\* (RefreshDatabase, reloadLocked), for any number of concurrent requests: the
\* step that ends a download reloads the provider of that moment.
THEOREM ResolverIsCurrent == GeoSpec => []ResolverCurrent
<1>1. GeoInv => ResolverCurrent
  BY DEF GeoInv
<1> QED
  BY <1>1, GeoInvariant, PTL

\* The settings that are stored are those in memory (handleUpdateGeoIPSettings)
\* unless updates overlapped or one was not stored.
THEOREM SettingsArePersisted == GeoSpec => []SettingsPersisted
<1>1. GeoInv => SettingsPersisted
  BY DEF GeoInv, UpdateInOrder, Updating, SettingsPersisted
<1> QED
  BY <1>1, GeoInvariant, PTL

(***************************************************************************)
(* ServerShutdown                                                          *)
(***************************************************************************)

\* Main closes the listener first, waits for the loops in their order, and
\* closes the store last.
ShutdownOrder ==
    /\ mainAt # "serving" => ~listening
    /\ mainAt \in {"serving", "draining", "hub"} => waiting = 1
    /\ ~storeOpen => mainAt = "exited"

\* Without a deadline that passed, what main has waited for has ended.
ShutdownWaited ==
    ~overdue /\ ~failed =>
        /\ mainAt \in {"hub", "waiting", "closing", "exited"} => ~inflight
        /\ mainAt = "waiting" => \A l \in Loops : l < waiting => loopAt[l] = "done"
        /\ mainAt \in {"closing", "exited"} => \A l \in Loops : loopAt[l] = "done"

ShutdownInv == ShutdownTypeOK /\ ShutdownOrder /\ ShutdownWaited

LEMMA ShutdownInitInv == ShutdownInit => ShutdownInv
<1> SUFFICES ASSUME ShutdownInit PROVE ShutdownInv
  OBVIOUS
<1>1. /\ mainAt = "serving" /\ waiting = 1 /\ loopAt = [l \in Loops |-> "working"]
      /\ ~signalled /\ listening /\ ~inflight /\ storeOpen /\ ~overdue /\ ~failed
  BY DEF ShutdownInit
<1>2. ShutdownTypeOK
  <2>1. waiting \in Loops /\ loopAt \in [Loops -> {"idle", "working", "done"}]
    BY <1>1, ShutdownAssumption DEF Loops
  <2>2. /\ signalled \in BOOLEAN /\ listening \in BOOLEAN /\ inflight \in BOOLEAN
        /\ storeOpen \in BOOLEAN /\ overdue \in BOOLEAN /\ failed \in BOOLEAN
    BY DEF ShutdownInit
  <2> QED
    BY <1>1, <2>1, <2>2 DEF ShutdownTypeOK
<1> QED
  BY <1>1, <1>2 DEF ShutdownInv, ShutdownOrder, ShutdownWaited

\* Steps of the signal, the requests and the loops.
LEMMA SurroundingsInv ==
    ASSUME ShutdownInv,
           \/ Signal \/ BeginRequest \/ EndRequest
           \/ \E l \in Loops : LoopTick(l) \/ LoopRests(l) \/ LoopEnds(l)
    PROVE  ShutdownInv'
<1>1. UNCHANGED <<mainAt, waiting, listening, storeOpen, overdue, failed>>
  BY DEF Signal, BeginRequest, EndRequest, LoopTick, LoopRests, LoopEnds
<1>2. inflight' = inflight \/ inflight' = FALSE \/ (listening /\ inflight' = TRUE)
  BY DEF Signal, BeginRequest, EndRequest, LoopTick, LoopRests, LoopEnds
<1>3. /\ loopAt' \in [Loops -> {"idle", "working", "done"}]
      /\ \A l \in Loops : loopAt[l] = "done" => loopAt'[l] = "done"
  BY DEF Signal, BeginRequest, EndRequest, LoopTick, LoopRests, LoopEnds, ShutdownInv,
         ShutdownTypeOK
<1>4. signalled' \in BOOLEAN
  <2>1. signalled' = signalled \/ signalled' = TRUE
    BY DEF Signal, BeginRequest, EndRequest, LoopTick, LoopRests, LoopEnds
  <2> QED
    BY <2>1, Zenon DEF ShutdownInv, ShutdownTypeOK
<1>5. inflight' \in BOOLEAN
  BY <1>2, Zenon DEF ShutdownInv, ShutdownTypeOK
<1>6. ShutdownTypeOK'
  BY <1>1, <1>3, <1>4, <1>5 DEF ShutdownInv, ShutdownTypeOK
<1>7. ShutdownOrder'
  BY <1>1 DEF ShutdownInv, ShutdownOrder
<1>8. ShutdownWaited'
  BY <1>1, <1>2, <1>3 DEF ShutdownInv, ShutdownOrder, ShutdownWaited
<1> QED
  BY <1>6, <1>7, <1>8 DEF ShutdownInv

\* The steps of main.
LEMMA MainInv ==
    ASSUME ShutdownInv, Main \/ ServeFails
    PROVE  ShutdownInv'
<1>1. UNCHANGED <<signalled, inflight, loopAt>>
  BY DEF Main, ServeFails, BeginShutdown, CloseHub, CloseStore, EndShutdown, WaitForLoop
<1>2. CASE ServeFails
  <2>1. /\ mainAt = "serving" /\ mainAt' = "hub" /\ listening' = FALSE /\ failed' = TRUE
        /\ UNCHANGED <<waiting, storeOpen, overdue>>
    BY <1>2 DEF ServeFails
  <2>2. ShutdownTypeOK'
    BY <1>1, <2>1 DEF ShutdownInv, ShutdownTypeOK
  <2> QED
    BY <2>1, <2>2 DEF ShutdownInv, ShutdownOrder, ShutdownWaited
<1>3. CASE BeginShutdown
  <2>1. /\ mainAt = "serving" /\ mainAt' = "draining" /\ listening' = FALSE
        /\ UNCHANGED <<waiting, storeOpen, overdue, failed>>
    BY <1>3 DEF BeginShutdown
  <2>2. ShutdownTypeOK'
    BY <1>1, <2>1 DEF ShutdownInv, ShutdownTypeOK
  <2> QED
    BY <2>1, <2>2 DEF ShutdownInv, ShutdownOrder, ShutdownWaited
<1>4. ASSUME NEW timedOut \in BOOLEAN, EndShutdown(timedOut)
      PROVE  ShutdownInv'
  <2>1. /\ mainAt = "draining" /\ mainAt' = "hub" /\ (timedOut \/ ~inflight)
        /\ overdue' = (overdue \/ timedOut)
        /\ UNCHANGED <<waiting, listening, storeOpen, failed>>
    BY <1>4 DEF EndShutdown
  <2>2. ShutdownTypeOK'
    <3>1. overdue' \in BOOLEAN
      BY <2>1
    <3> QED
      BY <1>1, <2>1, <3>1 DEF ShutdownInv, ShutdownTypeOK
  <2> QED
    BY <1>1, <2>1, <2>2 DEF ShutdownInv, ShutdownOrder, ShutdownWaited
<1>5. CASE CloseHub
  <2>1. /\ mainAt = "hub" /\ mainAt' = "waiting"
        /\ UNCHANGED <<waiting, listening, storeOpen, overdue, failed>>
    BY <1>5 DEF CloseHub
  <2>2. ShutdownTypeOK'
    BY <1>1, <2>1 DEF ShutdownInv, ShutdownTypeOK
  <2>3. \A l \in Loops : ~(l < waiting)
    BY <2>1 DEF ShutdownInv, ShutdownOrder, Loops
  <2> QED
    BY <1>1, <2>1, <2>2, <2>3 DEF ShutdownInv, ShutdownOrder, ShutdownWaited
<1>6. ASSUME NEW timedOut \in BOOLEAN, WaitForLoop(timedOut)
      PROVE  ShutdownInv'
  <2>1. /\ mainAt = "waiting" /\ (timedOut \/ loopAt[waiting] = "done")
        /\ overdue' = (overdue \/ timedOut)
        /\ mainAt' = IF waiting = LastLoop THEN "closing" ELSE "waiting"
        /\ waiting' = IF waiting = LastLoop THEN waiting ELSE waiting + 1
        /\ UNCHANGED <<listening, storeOpen, failed>>
    BY <1>6 DEF WaitForLoop, MayStopWaiting, AfterWait
  <2>2. waiting \in Loops /\ waiting' \in Loops
    BY <2>1, ShutdownAssumption DEF ShutdownInv, ShutdownTypeOK, Loops
  <2>3. ShutdownTypeOK'
    <3>1. overdue' \in BOOLEAN
      BY <2>1
    <3> QED
      BY <1>1, <2>1, <2>2, <3>1 DEF ShutdownInv, ShutdownTypeOK
  <2>4. ShutdownOrder'
    BY <2>1 DEF ShutdownInv, ShutdownOrder
  <2>5. ShutdownWaited'
    <3> SUFFICES ASSUME ~overdue', ~failed'
                 PROVE  /\ ~inflight'
                        /\ mainAt' = "waiting" =>
                               \A l \in Loops : l < waiting' => loopAt'[l] = "done"
                        /\ mainAt' \in {"closing", "exited"} =>
                               \A l \in Loops : loopAt'[l] = "done"
      BY DEF ShutdownWaited
    <3>1. ~overdue /\ ~failed /\ loopAt[waiting] = "done"
      BY <2>1
    <3>2. ~inflight /\ \A l \in Loops : l < waiting => loopAt[l] = "done"
      BY <2>1, <3>1 DEF ShutdownInv, ShutdownWaited
    <3>3. \A l \in Loops : l < waiting + 1 => loopAt[l] = "done"
      BY <2>2, <3>1, <3>2 DEF Loops
    <3>4. waiting = LastLoop => \A l \in Loops : loopAt[l] = "done"
      BY <2>2, <3>3, ShutdownAssumption DEF Loops
    <3> QED
      BY <1>1, <2>1, <3>2, <3>3, <3>4
  <2> QED
    BY <2>3, <2>4, <2>5 DEF ShutdownInv
<1>7. CASE CloseStore
  <2>1. /\ mainAt = "closing" /\ mainAt' = "exited" /\ storeOpen' = FALSE
        /\ UNCHANGED <<waiting, listening, overdue, failed>>
    BY <1>7 DEF CloseStore
  <2>2. ShutdownTypeOK'
    BY <1>1, <2>1 DEF ShutdownInv, ShutdownTypeOK
  <2> QED
    BY <1>1, <2>1, <2>2 DEF ShutdownInv, ShutdownOrder, ShutdownWaited
<1> QED
  BY <1>2, <1>3, <1>4, <1>5, <1>6, <1>7 DEF Main

LEMMA ShutdownInvariant == ShutdownSpec => []ShutdownInv
<1>1. ShutdownInv /\ UNCHANGED shutdownVars => ShutdownInv'
  BY DEF shutdownVars, ShutdownInv, ShutdownTypeOK, ShutdownOrder, ShutdownWaited
<1>2. ShutdownInv /\ ShutdownNext => ShutdownInv'
  BY SurroundingsInv, MainInv DEF ShutdownNext
<1> QED
  BY <1>1, <1>2, ShutdownInitInv, PTL DEF ShutdownSpec

\* The variables of the shutdown keep their types.
THEOREM ShutdownTypeCorrect == ShutdownSpec => []ShutdownTypeOK
<1>1. ShutdownInv => ShutdownTypeOK
  BY DEF ShutdownInv
<1> QED
  BY <1>1, ShutdownInvariant, PTL

\* The store is closed when nothing main waits for uses it any more (main,
\* waitForBackgroundLoop), for any number of background loops, unless a
\* deadline passed or the HTTP server ended by itself.
THEOREM StoreIsClosedLast == ShutdownSpec => []StoreClosedLast
<1>1. ShutdownInv => StoreClosedLast
  BY DEF ShutdownInv, ShutdownOrder, ShutdownWaited, StoreClosedLast
<1> QED
  BY <1>1, ShutdownInvariant, PTL

(***************************************************************************)
(* AlertEvaluator                                                          *)
(***************************************************************************)

\* The tables say what was notified.
Settled == delivered = lastAlert /\ (delivered = Never \/ streak <= calm)

\* What a worker relies on at its next step.
Relies(e) ==
    /\ step[e] = "alert" => Settled /\ AlertAllowed(sample[e].at)
    /\ step[e] \in {"count", "recover"} => Settled /\ delivered # Never
    /\ step[e] = "recover" => calm >= RecoverySamples
    /\ step[e] = "reset" => delivered = lastAlert

\* One worker at most is past its first test unless it came to another one; an
\* alert that is about to be recorded is then the last one.  Without doubt the
\* tables are settled, or the worker that is at them relies on what holds.
EvaluatorOrder ==
    /\ crowd => doubt
    /\ ~crowd => \A e, o \in Evaluators :
                     step[e] \in Deciding /\ step[o] \in Deciding => e = o
    /\ ~crowd => \A e \in Evaluators : step[e] = "recordAlert" => lastAlert = sample[e].at
    /\ ~doubt => /\ (\A e \in Evaluators : step[e] \notin Deciding) => Settled
                 /\ \A e \in Evaluators : Relies(e)

EvaluatorInv == EvaluatorTypeOK /\ EvaluatorOrder

LEMMA EvaluatorInitInv == EvaluatorInit => EvaluatorInv
<1> SUFFICES ASSUME EvaluatorInit PROVE EvaluatorInv
  OBVIOUS
<1>1. /\ alertTime = 0 /\ streak = 0 /\ calm = 0 /\ delivered = Never /\ recovered = Never
      /\ lastAlert = Never
      /\ step = [e \in Evaluators |-> "idle"]
      /\ sample = [e \in Evaluators |-> NoSample]
  BY DEF EvaluatorInit
<1>2. crowd = FALSE /\ doubt = FALSE
  BY DEF EvaluatorInit
<1>3. EvaluatorTypeOK
  <2>1. 0 \in Times /\ 0 \in 0..RecoverySamples
    BY EvaluatorAssumption DEF Times
  <2>2. NoSample \in Samples
    BY <2>1 DEF NoSample, Samples
  <2>3. "idle" \in Evaluating
    BY DEF Evaluating
  <2>4. crowd \in BOOLEAN /\ doubt \in BOOLEAN
    BY <1>2
  <2> QED
    BY <1>1, <2>1, <2>2, <2>3, <2>4 DEF EvaluatorTypeOK
<1>4. \A e \in Evaluators : step[e] = "idle"
  BY <1>1
<1>5. EvaluatorOrder
  BY <1>1, <1>2, <1>4 DEF EvaluatorOrder, Settled, Relies, Deciding
<1> QED
  BY <1>3, <1>5 DEF EvaluatorInv

\* A worker that goes on leaves the other workers alone.
LEMMA GoesFacts ==
    ASSUME EvaluatorInv, NEW e \in Evaluators, NEW a, NEW b \in Evaluating, Goes(e, a, b)
    PROVE  /\ alertTime' \in Times /\ step[e] = a
           /\ step' \in [Evaluators -> Evaluating] /\ sample' \in [Evaluators -> Samples]
           /\ \A o \in Evaluators : step'[o] = IF o = e THEN b ELSE step[o]
           /\ \A o \in Evaluators : o # e \/ b # "idle" => sample'[o] = sample[o]
           /\ sample[e].at \in Times
<1>1. /\ step' = [step EXCEPT ![e] = b] /\ step[e] = a /\ alertTime' = alertTime
      /\ sample' = IF b = "idle" THEN [sample EXCEPT ![e] = NoSample] ELSE sample
  BY DEF Goes
<1>2. /\ step \in [Evaluators -> Evaluating] /\ sample \in [Evaluators -> Samples]
      /\ alertTime \in Times
  BY DEF EvaluatorInv, EvaluatorTypeOK
<1>3. NoSample \in Samples
  BY EvaluatorAssumption DEF NoSample, Samples, Times
<1>4. sample' \in [Evaluators -> Samples]
  BY <1>1, <1>2, <1>3
<1>5. sample[e].at \in Times
  BY <1>2 DEF Samples
<1> QED
  BY <1>1, <1>2, <1>4, <1>5

\* The history variables but doubt and crowd, and the tables, stay as they are.
EvaluatorFrame == UNCHANGED <<delivered, recovered, streak, lastAlert, calm>>

\* A step of a worker that is not past its first test, and stays so.
LEMMA QuietInv ==
    ASSUME EvaluatorInv, EvaluatorFrame, UNCHANGED <<crowd, doubt>>, NEW e \in Evaluators,
           alertTime' \in Times,
           step' \in [Evaluators -> Evaluating], sample' \in [Evaluators -> Samples],
           step[e] \notin Deciding, step'[e] \notin Deciding,
           \A o \in Evaluators \ {e} : step'[o] = step[o] /\ sample'[o] = sample[o]
    PROVE  EvaluatorInv'
<1>1. EvaluatorTypeOK'
  BY DEF EvaluatorInv, EvaluatorTypeOK, EvaluatorFrame
<1>2. \A o \in Evaluators : /\ step[o] \in Deciding \/ step'[o] \in Deciding => o # e
                            /\ o # e => step'[o] = step[o] /\ sample'[o] = sample[o]
  OBVIOUS
<1>3. Settled' <=> Settled
  BY DEF EvaluatorFrame, Settled
<1>4. \A o \in Evaluators : Relies(o) => Relies(o)'
  <2> SUFFICES ASSUME NEW o \in Evaluators, Relies(o) PROVE Relies(o)'
    OBVIOUS
  <2>1. CASE step'[o] \in Deciding
    <3>1. step'[o] = step[o] /\ sample'[o] = sample[o]
      BY <1>2, <2>1
    <3>2. delivered' = delivered /\ lastAlert' = lastAlert /\ calm' = calm
      BY DEF EvaluatorFrame
    <3> QED
      BY <1>3, <3>1, <3>2 DEF Relies, AlertAllowed
  <2>2. CASE step'[o] \notin Deciding
    BY <2>2 DEF Relies, Deciding
  <2> QED
    BY <2>1, <2>2
<1>5. lastAlert' = lastAlert /\ (crowd' <=> crowd) /\ (doubt' <=> doubt)
  BY DEF EvaluatorFrame
<1>6. "recordAlert" \in Deciding
  BY DEF Deciding
<1>7. EvaluatorOrder
  BY DEF EvaluatorInv
<1>8. crowd' => doubt'
  BY <1>5, <1>7 DEF EvaluatorOrder
<1>9. ~crowd' => \A o, p \in Evaluators :
                     step'[o] \in Deciding /\ step'[p] \in Deciding => o = p
  BY <1>2, <1>5, <1>7 DEF EvaluatorOrder
<1>10. ~crowd' => \A o \in Evaluators : step'[o] = "recordAlert" => lastAlert' = sample'[o].at
  BY <1>2, <1>5, <1>6, <1>7 DEF EvaluatorOrder
<1>11. ~doubt' /\ (\A o \in Evaluators : step'[o] \notin Deciding) => Settled'
  BY <1>2, <1>3, <1>5, <1>7 DEF EvaluatorOrder
<1>12. ~doubt' => \A o \in Evaluators : Relies(o)'
  BY <1>4, <1>5, <1>7 DEF EvaluatorOrder
<1>13. EvaluatorOrder'
  BY <1>8, <1>9, <1>10, <1>11, <1>12 DEF EvaluatorOrder
<1> QED
  BY <1>1, <1>13 DEF EvaluatorInv

LEMMA TakeSampleInv ==
    ASSUME EvaluatorInv, NEW e \in Evaluators, NEW kd \in {"hot", "cool"}, NEW t \in Times,
           TakeSample(e, kd, t)
    PROVE  EvaluatorInv'
<1>1. /\ step[e] = "idle" /\ alertTime' \in {t, alertTime}
      /\ step' = [step EXCEPT ![e] = kd]
      /\ sample' = [sample EXCEPT ![e] = [kind |-> kd, at |-> t]]
      /\ EvaluatorFrame /\ UNCHANGED <<crowd, doubt>>
  BY DEF TakeSample, deliveryVars, historyVars, EvaluatorFrame
<1>2. /\ step \in [Evaluators -> Evaluating] /\ sample \in [Evaluators -> Samples]
      /\ alertTime \in Times
  BY DEF EvaluatorInv, EvaluatorTypeOK
<1>3. /\ step' \in [Evaluators -> Evaluating] /\ step'[e] = kd
      /\ \A o \in Evaluators \ {e} : step'[o] = step[o]
  BY <1>1, <1>2 DEF Evaluating
<1>4. sample' \in [Evaluators -> Samples] /\ \A o \in Evaluators \ {e} : sample'[o] = sample[o]
  BY <1>1, <1>2 DEF Samples
<1>5. step[e] \notin Deciding /\ step'[e] \notin Deciding
  BY <1>1, <1>3 DEF Deciding
<1>6. alertTime' \in Times
  BY <1>1, <1>2
<1> QED
  BY <1>1, <1>3, <1>4, <1>5, <1>6, QuietInv

\* A worker passes its first test: if nobody else is past one, the tables are
\* settled, unless there is doubt.
LEMMA DecidesInv ==
    ASSUME EvaluatorInv, NEW e \in Evaluators, NEW a \in {"hot", "cool"},
           NEW b \in {"alert", "count", "reset"}, Decides(e, a, b),
           b = "alert" => AlertAllowed(sample[e].at),
           b = "count" => delivered # Never
    PROVE  EvaluatorInv'
<1>1. /\ Goes(e, a, b)
      /\ crowd' = ~Alone(e) /\ doubt' = (doubt \/ ~Alone(e))
      /\ UNCHANGED <<delivered, recovered, streak, lastAlert, calm>>
  BY DEF Decides, deliveryVars
<1>2. b \in Evaluating /\ b \in Deciding /\ a \notin Deciding /\ b # "idle" /\ b # "recordAlert"
  BY DEF Evaluating, Deciding
<1>3. /\ alertTime' \in Times /\ step[e] = a
      /\ step' \in [Evaluators -> Evaluating] /\ sample' \in [Evaluators -> Samples]
      /\ \A o \in Evaluators : step'[o] = IF o = e THEN b ELSE step[o]
      /\ \A o \in Evaluators : o # e \/ b # "idle" => sample'[o] = sample[o]
  BY <1>1, <1>2, GoesFacts
<1>4. crowd' \in BOOLEAN /\ doubt' \in BOOLEAN
  BY <1>1
<1>5. EvaluatorTypeOK'
  BY <1>1, <1>3, <1>4 DEF EvaluatorInv, EvaluatorTypeOK
<1>6. CASE ~Alone(e)
  <2>1. crowd' /\ doubt'
    BY <1>1, <1>6
  <2> QED
    BY <1>5, <2>1 DEF EvaluatorInv, EvaluatorOrder
<1>7. CASE Alone(e)
  <2>1. ~crowd' /\ (doubt' <=> doubt)
    BY <1>1, <1>7, Zenon DEF EvaluatorInv, EvaluatorTypeOK
  <2>2. \A o \in Evaluators : step[o] \notin Deciding
    BY <1>2, <1>3, <1>7 DEF Alone
  <2>3. \A o \in Evaluators : step'[o] \in Deciding => o = e
    BY <1>3, <2>2
  <2>4. step'[e] = b /\ sample'[e] = sample[e]
    BY <1>2, <1>3
  <2>5. Settled' <=> Settled
    BY <1>1 DEF Settled
  <2>6. ASSUME ~doubt' PROVE \A o \in Evaluators : Relies(o)'
    <3>1. Settled
      BY <2>1, <2>2, <2>6 DEF EvaluatorInv, EvaluatorOrder
    <3>2. delivered' = delivered /\ lastAlert' = lastAlert
      BY <1>1
    <3>3. Relies(e)'
      BY <2>4, <2>5, <3>1, <3>2 DEF Relies, AlertAllowed, Settled
    <3>4. ASSUME NEW o \in Evaluators \ {e} PROVE Relies(o)'
      BY <2>3 DEF Relies, Deciding
    <3> QED
      BY <3>3, <3>4
  <2>7. step'[e] \in Deciding
    BY <1>2, <2>4
  <2>8. \A o \in Evaluators : step'[o] # "recordAlert"
    <3> SUFFICES ASSUME NEW o \in Evaluators, step'[o] = "recordAlert" PROVE FALSE
      OBVIOUS
    <3>1. o = e
      BY <2>3 DEF Deciding
    <3> QED
      BY <1>2, <2>4, <3>1
  <2>9. EvaluatorOrder'
    BY <2>1, <2>3, <2>6, <2>7, <2>8 DEF EvaluatorOrder
  <2> QED
    BY <1>5, <2>9 DEF EvaluatorInv
<1> QED
  BY <1>6, <1>7

LEMMA EvaluateInv ==
    ASSUME EvaluatorInv, NEW e \in Evaluators, EvaluateHot(e) \/ EvaluateCool(e)
    PROVE  EvaluatorInv'
<1>1. CASE AlertAllowed(sample[e].at) /\ Decides(e, "hot", "alert")
  BY <1>1, DecidesInv
<1>2. CASE Goes(e, "hot", "idle") /\ UNCHANGED <<deliveryVars, historyVars>>
  <2>1. "idle" \in Evaluating /\ "idle" \notin Deciding /\ "hot" \notin Deciding
    BY DEF Evaluating, Deciding
  <2>2. /\ alertTime' \in Times /\ step[e] = "hot"
        /\ step' \in [Evaluators -> Evaluating] /\ sample' \in [Evaluators -> Samples]
        /\ \A o \in Evaluators : step'[o] = IF o = e THEN "idle" ELSE step[o]
        /\ \A o \in Evaluators \ {e} : sample'[o] = sample[o]
    BY <1>2, <2>1, GoesFacts
  <2>3. EvaluatorFrame /\ UNCHANGED <<crowd, doubt>>
    BY <1>2 DEF deliveryVars, historyVars, EvaluatorFrame
  <2> QED
    BY <2>1, <2>2, <2>3, QuietInv
<1>3. CASE EvaluateCool(e)
  <2>1. PICK b \in {"count", "reset"} :
          Decides(e, "cool", b) /\ (b = "count" => delivered # Never)
    BY <1>3 DEF EvaluateCool, Active
  <2> QED
    BY <2>1, DecidesInv
<1> QED
  BY <1>1, <1>2, <1>3 DEF EvaluateHot

\* What holds of the worker that is at the tables, when it is the only one, is
\* all there is to show of a step it takes there.
AtTables(e) ==
    /\ crowd' = crowd /\ (crowd => doubt')
    /\ ~crowd => (step'[e] = "recordAlert" => lastAlert' = sample'[e].at)
    /\ ~doubt' => /\ step'[e] \notin Deciding => Settled'
                  /\ Relies(e)'

LEMMA TablesOrder ==
    ASSUME EvaluatorInv, NEW e \in Evaluators, NEW a \in Deciding, NEW b \in Evaluating,
           Goes(e, a, b), AtTables(e)
    PROVE  EvaluatorOrder'
<1>1. /\ step[e] = a
      /\ \A o \in Evaluators : step'[o] = IF o = e THEN b ELSE step[o]
  BY GoesFacts
<1>2. CASE crowd
  <2>1. crowd' /\ doubt'
    BY <1>2, Zenon DEF AtTables
  <2> QED
    BY <2>1 DEF EvaluatorOrder
<1>3. CASE ~crowd
  <2>1. ~crowd'
    BY <1>3, Zenon DEF AtTables
  <2>2. \A o \in Evaluators \ {e} : step[o] \notin Deciding
    BY <1>1, <1>3 DEF EvaluatorInv, EvaluatorOrder
  <2>3. \A o \in Evaluators \ {e} : step'[o] \notin Deciding
    BY <1>1, <2>2
  <2>4. \A o \in Evaluators : step'[o] = "recordAlert" => lastAlert' = sample'[o].at
    <3>1. "recordAlert" \in Deciding
      BY DEF Deciding
    <3> QED
      BY <1>3, <2>3, <3>1 DEF AtTables
  <2>5. ASSUME ~doubt' PROVE \A o \in Evaluators : Relies(o)'
    <3>1. Relies(e)'
      BY <2>5 DEF AtTables
    <3>2. ASSUME NEW o \in Evaluators \ {e} PROVE Relies(o)'
      BY <2>3 DEF Relies, Deciding
    <3> QED
      BY <3>1, <3>2
  <2>6. ~doubt' /\ (\A o \in Evaluators : step'[o] \notin Deciding) => Settled'
    BY DEF AtTables
  <2> QED
    BY <2>1, <2>3, <2>4, <2>5, <2>6 DEF EvaluatorOrder
<1> QED
  BY <1>2, <1>3

\* The facts every step at the tables starts from.
LEMMA TablesFacts ==
    ASSUME EvaluatorInv, NEW e \in Evaluators
    PROVE  /\ crowd \in BOOLEAN /\ doubt \in BOOLEAN /\ (crowd => doubt)
           /\ delivered \in Times \cup {Never} /\ lastAlert \in Times \cup {Never}
           /\ recovered \in Times \cup {Never}
           /\ streak \in 0..RecoverySamples /\ calm \in 0..RecoverySamples
           /\ RecoverySamples \in Nat \ {0}
           /\ ~doubt => Relies(e)
           /\ ~crowd => (step[e] = "recordAlert" => lastAlert = sample[e].at)
BY EvaluatorAssumption DEF EvaluatorInv, EvaluatorTypeOK, EvaluatorOrder

LEMMA CountSampleInv ==
    ASSUME EvaluatorInv, NEW e \in Evaluators, CountSample(e)
    PROVE  EvaluatorInv'
<1> DEFINE next == CASE streak + 1 < RecoverySamples -> "idle"
                     [] streak + 1 >= RecoverySamples /\ RecoveryAllowed(sample[e].at) -> "recover"
                     [] OTHER -> "clear"
<1>1. /\ Goes(e, "count", next)
      /\ streak' = IF streak < RecoverySamples THEN streak + 1 ELSE streak
      /\ calm' = IF calm < RecoverySamples THEN calm + 1 ELSE calm
      /\ UNCHANGED <<delivered, recovered, lastAlert, crowd, doubt>>
  BY DEF CountSample
<1>2. next \in {"idle", "recover", "clear"} /\ (next = "recover" => ~(streak + 1 < RecoverySamples))
  <2>1. CASE streak + 1 < RecoverySamples
    <3>1. next = "idle"
      BY <2>1, TablesFacts
    <3> QED
      BY <3>1
  <2>2. CASE ~(streak + 1 < RecoverySamples)
    <3>1. next \in {"recover", "clear"}
      BY <2>2, TablesFacts
    <3> QED
      BY <2>2, <3>1
  <2> QED
    BY <2>1, <2>2
<1> HIDE DEF next
<1>3. next \in Evaluating /\ "count" \in Deciding /\ next # "recordAlert"
  BY <1>2 DEF Evaluating, Deciding
<1>4. /\ alertTime' \in Times /\ step[e] = "count" /\ step'[e] = next
      /\ step' \in [Evaluators -> Evaluating] /\ sample' \in [Evaluators -> Samples]
  BY <1>1, <1>3, GoesFacts
<1>5. streak' \in 0..RecoverySamples /\ calm' \in 0..RecoverySamples
  BY <1>1, TablesFacts
<1>6. EvaluatorTypeOK'
  BY <1>1, <1>4, <1>5 DEF EvaluatorInv, EvaluatorTypeOK
<1>7. ASSUME ~doubt' PROVE Settled' /\ delivered' # Never /\ (next = "recover" => calm' >= RecoverySamples)
  <2>1. Settled /\ delivered # Never
    BY <1>1, <1>4, <1>7, TablesFacts DEF Relies
  <2>2. delivered' = lastAlert' /\ delivered' # Never /\ streak <= calm
    BY <1>1, <2>1 DEF Settled
  <2>3. streak \in 0..RecoverySamples /\ calm \in 0..RecoverySamples /\ RecoverySamples \in Nat
    BY TablesFacts
  <2>4. streak' <= calm'
    BY <1>1, <2>2, <2>3
  <2>5. next = "recover" => calm' >= RecoverySamples
    BY <1>1, <1>2, <2>2, <2>3
  <2> QED
    BY <2>2, <2>4, <2>5 DEF Settled
<1>8. AtTables(e)
  <2>1. crowd' = crowd /\ doubt' = doubt
    BY <1>1
  <2>2. crowd => doubt'
    BY <2>1, TablesFacts
  <2>3. ~doubt' => Relies(e)'
    BY <1>2, <1>4, <1>7 DEF Relies
  <2> QED
    BY <1>3, <1>4, <1>7, <2>1, <2>2, <2>3 DEF AtTables
<1>9. EvaluatorOrder'
  BY <1>1, <1>3, <1>8, TablesOrder
<1> QED
  BY <1>6, <1>9 DEF EvaluatorInv

LEMMA SendAlertInv ==
    ASSUME EvaluatorInv, NEW e \in Evaluators, SendAlert(e) PROVE EvaluatorInv'
<1>1. /\ Goes(e, "alert", "recordAlert")
      /\ lastAlert' = sample[e].at /\ calm' = 0
      /\ UNCHANGED <<delivered, recovered, streak, crowd, doubt>>
  BY DEF SendAlert, deliveryVars
<1>2. "alert" \in Deciding /\ "recordAlert" \in Deciding /\ "recordAlert" \in Evaluating
  BY DEF Deciding, Evaluating
<1>3. /\ alertTime' \in Times /\ step'[e] = "recordAlert"
      /\ step' \in [Evaluators -> Evaluating] /\ sample' \in [Evaluators -> Samples]
      /\ sample'[e] = sample[e] /\ sample[e].at \in Times
  BY <1>1, <1>2, GoesFacts
<1>4. calm' \in 0..RecoverySamples
  BY <1>1, TablesFacts
<1>5. EvaluatorTypeOK'
  BY <1>1, <1>3, <1>4 DEF EvaluatorInv, EvaluatorTypeOK
<1>6. crowd' = crowd /\ doubt' = doubt
  BY <1>1
<1>7. (crowd => doubt')
  BY <1>6, TablesFacts
<1>8. Relies(e)'
  BY <1>3 DEF Relies
<1>9. AtTables(e)
  BY <1>1, <1>2, <1>3, <1>6, <1>7, <1>8 DEF AtTables
<1>10. EvaluatorOrder'
  BY <1>1, <1>2, <1>9, TablesOrder
<1> QED
  BY <1>5, <1>10 DEF EvaluatorInv

LEMMA RecordAlertInv ==
    ASSUME EvaluatorInv, NEW e \in Evaluators, RecordAlert(e) PROVE EvaluatorInv'
<1>1. /\ Goes(e, "recordAlert", "reset")
      /\ delivered' = sample[e].at
      /\ doubt' = (doubt /\ crowd)
      /\ UNCHANGED <<recovered, streak, lastAlert, calm, crowd>>
  BY DEF RecordAlert
<1>2. "recordAlert" \in Deciding /\ "reset" \in Deciding /\ "reset" \in Evaluating
  BY DEF Deciding, Evaluating
<1>3. /\ alertTime' \in Times /\ step[e] = "recordAlert" /\ step'[e] = "reset"
      /\ step' \in [Evaluators -> Evaluating] /\ sample' \in [Evaluators -> Samples]
      /\ sample[e].at \in Times
  BY <1>1, <1>2, GoesFacts
<1>4. doubt' \in BOOLEAN
  BY <1>1
<1>5. EvaluatorTypeOK'
  BY <1>1, <1>3, <1>4 DEF EvaluatorInv, EvaluatorTypeOK
<1>6. crowd' = crowd /\ (crowd => doubt') /\ (~doubt' => ~crowd)
  BY <1>1, TablesFacts, Zenon
<1>7. ~crowd => delivered' = lastAlert'
  BY <1>1, <1>3, TablesFacts
<1>8. ~doubt' => Relies(e)'
  BY <1>3, <1>6, <1>7 DEF Relies
<1>9. AtTables(e)
  BY <1>2, <1>3, <1>6, <1>8 DEF AtTables
<1>10. EvaluatorOrder'
  BY <1>1, <1>2, <1>9, TablesOrder
<1> QED
  BY <1>5, <1>10 DEF EvaluatorInv

LEMMA SendRecoveryInv ==
    ASSUME EvaluatorInv, NEW e \in Evaluators, SendRecovery(e) \/ RecordRecovery(e)
    PROVE  EvaluatorInv'
<1>1. PICK a \in {"recover", "recordRecovery"}, b \in {"recordRecovery", "clear"} :
        Goes(e, a, b)
  BY DEF SendRecovery, RecordRecovery
<1>2. /\ recovered' \in {recovered, sample[e].at} /\ lastAlert' \in {lastAlert, Never}
      /\ UNCHANGED <<delivered, streak, calm, crowd, doubt>>
  BY DEF SendRecovery, RecordRecovery, deliveryVars, historyVars
<1>3. a \in Deciding /\ b \in Deciding /\ b \in Evaluating
  BY DEF Deciding, Evaluating
<1>4. /\ alertTime' \in Times /\ step'[e] = b
      /\ step' \in [Evaluators -> Evaluating] /\ sample' \in [Evaluators -> Samples]
      /\ sample[e].at \in Times
  BY <1>1, <1>3, GoesFacts
<1>5. EvaluatorTypeOK'
  BY <1>2, <1>4 DEF EvaluatorInv, EvaluatorTypeOK
<1>6. crowd' = crowd /\ doubt' = doubt
  BY <1>2
<1>7. (crowd => doubt')
  BY <1>6, TablesFacts
<1>8. Relies(e)'
  BY <1>4 DEF Relies
<1>9. AtTables(e)
  BY <1>3, <1>4, <1>6, <1>7, <1>8 DEF AtTables
<1>10. EvaluatorOrder'
  BY <1>1, <1>3, <1>9, TablesOrder
<1> QED
  BY <1>5, <1>10 DEF EvaluatorInv

LEMMA ClearAlertInv ==
    ASSUME EvaluatorInv, NEW e \in Evaluators, ClearAlert(e) PROVE EvaluatorInv'
<1>1. /\ Goes(e, "clear", "reset")
      /\ delivered' = Never /\ lastAlert' = Never
      /\ doubt' = (doubt /\ crowd)
      /\ UNCHANGED <<recovered, streak, calm, crowd>>
  BY DEF ClearAlert
<1>2. "clear" \in Deciding /\ "reset" \in Deciding /\ "reset" \in Evaluating
  BY DEF Deciding, Evaluating
<1>3. /\ alertTime' \in Times /\ step'[e] = "reset"
      /\ step' \in [Evaluators -> Evaluating] /\ sample' \in [Evaluators -> Samples]
  BY <1>1, <1>2, GoesFacts
<1>4. doubt' \in BOOLEAN
  BY <1>1
<1>5. EvaluatorTypeOK'
  BY <1>1, <1>3, <1>4 DEF EvaluatorInv, EvaluatorTypeOK
<1>6. crowd' = crowd /\ (crowd => doubt')
  BY <1>1, TablesFacts, Zenon
<1>7. Relies(e)'
  BY <1>1, <1>3 DEF Relies
<1>8. AtTables(e)
  BY <1>2, <1>3, <1>6, <1>7 DEF AtTables
<1>9. EvaluatorOrder'
  BY <1>1, <1>2, <1>8, TablesOrder
<1> QED
  BY <1>5, <1>9 DEF EvaluatorInv

LEMMA ResetRecoveryInv ==
    ASSUME EvaluatorInv, NEW e \in Evaluators, ResetRecovery(e) PROVE EvaluatorInv'
<1>1. /\ Goes(e, "reset", "idle")
      /\ streak' = 0
      /\ UNCHANGED <<delivered, recovered, lastAlert, calm, crowd, doubt>>
  BY DEF ResetRecovery, historyVars
<1>2. "reset" \in Deciding /\ "idle" \notin Deciding /\ "idle" \in Evaluating
  BY DEF Deciding, Evaluating
<1>3. /\ alertTime' \in Times /\ step[e] = "reset" /\ step'[e] = "idle"
      /\ step' \in [Evaluators -> Evaluating] /\ sample' \in [Evaluators -> Samples]
  BY <1>1, <1>2, GoesFacts
<1>4. streak' \in 0..RecoverySamples /\ streak' <= calm'
  BY <1>1, TablesFacts
<1>5. EvaluatorTypeOK'
  BY <1>1, <1>3, <1>4 DEF EvaluatorInv, EvaluatorTypeOK
<1>6. crowd' = crowd /\ doubt' = doubt
  BY <1>1
<1>7. crowd => doubt'
  BY <1>6, TablesFacts
<1>8. ~doubt' => Settled'
  <2>1. ~doubt => delivered = lastAlert
    BY <1>3, TablesFacts DEF Relies
  <2> QED
    BY <1>1, <1>4, <1>6, <2>1 DEF Settled
<1>9. Relies(e)'
  BY <1>3 DEF Relies
<1>10. AtTables(e)
  BY <1>3, <1>6, <1>7, <1>8, <1>9 DEF AtTables
<1>11. EvaluatorOrder'
  BY <1>1, <1>2, <1>10, TablesOrder
<1> QED
  BY <1>5, <1>11 DEF EvaluatorInv

LEMMA FailsInv ==
    ASSUME EvaluatorInv, NEW e \in Evaluators, Fails(e) PROVE EvaluatorInv'
<1>1. PICK a \in Evaluating \ {"idle"} : Goes(e, a, "idle")
  BY DEF Fails
<1>2. /\ doubt' = (doubt \/ step[e] \in Deciding)
      /\ EvaluatorFrame /\ crowd' = crowd
  BY DEF Fails, EvaluatorFrame, deliveryVars
<1>3. "idle" \in Evaluating /\ "idle" \notin Deciding
  BY DEF Evaluating, Deciding
<1>4. /\ alertTime' \in Times /\ step[e] = a
      /\ step' \in [Evaluators -> Evaluating] /\ sample' \in [Evaluators -> Samples]
      /\ \A o \in Evaluators : step'[o] = IF o = e THEN "idle" ELSE step[o]
      /\ \A o \in Evaluators \ {e} : sample'[o] = sample[o]
  BY <1>1, <1>3, GoesFacts
<1>5. CASE step[e] \notin Deciding
  <2>1. doubt' = doubt
    BY <1>2, <1>5, TablesFacts, Zenon
  <2> QED
    BY <1>2, <1>3, <1>4, <1>5, <2>1, QuietInv
<1>6. CASE step[e] \in Deciding
  <2>1. doubt' = TRUE
    BY <1>2, <1>6
  <2>2. doubt' \in BOOLEAN
    BY <2>1
  <2>3. EvaluatorTypeOK'
    BY <1>2, <1>4, <2>2 DEF EvaluatorInv, EvaluatorTypeOK, EvaluatorFrame
  <2>4. step'[e] = "idle"
    BY <1>4
  <2>5. AtTables(e)
    BY <1>2, <2>1, <2>4 DEF AtTables
  <2>6. EvaluatorOrder'
    BY <1>1, <1>3, <1>4, <1>6, <2>5, TablesOrder
  <2> QED
    BY <2>3, <2>6 DEF EvaluatorInv
<1> QED
  BY <1>5, <1>6

LEMMA EvaluatorNextInv == EvaluatorInv /\ [EvaluatorNext]_evaluatorVars => EvaluatorInv'
<1>1. EvaluatorInv /\ UNCHANGED evaluatorVars => EvaluatorInv'
  BY DEF evaluatorVars, deliveryVars, historyVars, EvaluatorInv, EvaluatorTypeOK,
         EvaluatorOrder, Settled, Relies, AlertAllowed
<1>2. EvaluatorInv /\ EvaluatorNext => EvaluatorInv'
  BY TakeSampleInv, EvaluateInv, CountSampleInv, SendAlertInv, RecordAlertInv,
     SendRecoveryInv, ClearAlertInv, ResetRecoveryInv, FailsInv DEF EvaluatorNext
<1> QED
  BY <1>1, <1>2

LEMMA EvaluatorInvariant == EvaluatorSpec => []EvaluatorInv
BY EvaluatorInitInv, EvaluatorNextInv, PTL DEF EvaluatorSpec

\* The variables of the evaluator keep their types.
THEOREM EvaluatorTypeCorrect == EvaluatorSpec => []EvaluatorTypeOK
<1>1. EvaluatorInv => EvaluatorTypeOK
  BY DEF EvaluatorInv
<1> QED
  BY <1>1, EvaluatorInvariant, PTL

\* For any number of workers and any interleaving of their statements: an alert
\* inside the cooldown of the one before it has a recovery, notified or left
\* out, in between, and a recovery has an alert and RecoverySamples healthy
\* samples before it (Process, ShouldSendAlert, HasActiveAlertDelivery,
\* IncrementRecoveryStreak).  Excepted is the time of doubt: from two workers
\* past their first tests at once, or a failed statement, to the next alert that
\* is recorded or cleared by a worker alone.
THEOREM NotificationsAreSound == EvaluatorSpec => NotificationsSound
<1>1. ASSUME EvaluatorInv, NEW e \in Evaluators
      PROVE  /\ Leaves(e, "alert", "recordAlert") =>
                    doubt \/ lastAlert = Never \/ sample[e].at - lastAlert >= Cooldown
             /\ Leaves(e, "recover", "recordRecovery") =>
                    doubt \/ (lastAlert # Never /\ calm >= RecoverySamples)
  <2>1. ~doubt => Relies(e)
    BY <1>1, TablesFacts
  <2> QED
    BY <2>1 DEF Leaves, Relies, Settled, AlertAllowed
<1>2. EvaluatorInv => [\A e \in Evaluators :
           /\ Leaves(e, "alert", "recordAlert") =>
                  \/ doubt
                  \/ lastAlert = Never
                  \/ sample[e].at - lastAlert >= Cooldown
           /\ Leaves(e, "recover", "recordRecovery") =>
                  \/ doubt
                  \/ lastAlert # Never /\ calm >= RecoverySamples]_evaluatorVars
  BY <1>1
<1> QED
  BY <1>2, EvaluatorInvariant, PTL DEF NotificationsSound

(***************************************************************************)
(* Sums.  SumFunctionOnSet takes the elements in an order it chooses.  For *)
(* a finite set the sums of all its subsets are a function that gives the  *)
(* same in any order (IsSum), so an element can be taken out of a sum.     *)
(***************************************************************************)

\* g gives the sum of f over every subset of S.
IsSum(f, S, g) ==
    /\ g \in [SUBSET S -> Nat]
    /\ g[{}] = 0
    /\ \A x \in S : f[x] \in Nat
    /\ \A s \in SUBSET S : \A x \in s : g[s] = f[x] + g[s \ {x}]

\* One more element.
LEMMA SumOfOneMore ==
    ASSUME NEW f, NEW S, NEW e, e \notin S, f[e] \in Nat, NEW g, IsSum(f, S, g)
    PROVE  \E h : IsSum(f, S \cup {e}, h)
<1> DEFINE U == S \cup {e}
           h == [s \in SUBSET U |-> IF e \in s THEN f[e] + g[s \ {e}] ELSE g[s]]
<1>1. \A s \in SUBSET S : g[s] \in Nat
  BY DEF IsSum
<1>2. ASSUME NEW s \in SUBSET U
      PROVE  s \ {e} \in SUBSET S /\ (e \notin s => s \in SUBSET S)
  OBVIOUS
<1>3. h \in [SUBSET U -> Nat]
  BY <1>1, <1>2
<1>4. h[{}] = 0
  <2>1. {} \in SUBSET U /\ e \notin {}
    OBVIOUS
  <2> QED
    BY <2>1 DEF IsSum
<1>5. ASSUME NEW s \in SUBSET U, NEW x \in s PROVE h[s] = f[x] + h[s \ {x}]
  <2>1. s \ {x} \in SUBSET U
    OBVIOUS
  <2>2. CASE x = e
    <3>1. h[s] = f[e] + g[s \ {e}] /\ h[s \ {e}] = g[s \ {e}]
      BY <2>1, <2>2
    <3> QED
      BY <2>2, <3>1
  <2>3. CASE x # e /\ e \in s
    <3>1. h[s] = f[e] + g[s \ {e}] /\ h[s \ {x}] = f[e] + g[(s \ {x}) \ {e}]
      BY <2>1, <2>3
    <3>2. x \in s \ {e} /\ s \ {e} \in SUBSET S /\ (s \ {e}) \ {x} \in SUBSET S
      BY <1>2, <2>3
    <3>3. g[s \ {e}] = f[x] + g[(s \ {e}) \ {x}]
      BY <3>2 DEF IsSum
    <3>4. (s \ {x}) \ {e} = (s \ {e}) \ {x}
      OBVIOUS
    <3>5. g[s \ {e}] \in Nat /\ g[(s \ {e}) \ {x}] \in Nat
      BY <1>1, <3>2
    <3>6. f[x] \in Nat
      BY <3>2 DEF IsSum
    <3>7. h[s \ {x}] = f[e] + g[(s \ {e}) \ {x}]
      BY <3>1, <3>4
    <3> HIDE DEF h
    <3> QED
      BY <3>1, <3>3, <3>5, <3>6, <3>7
  <2>4. CASE e \notin s
    <3>1. h[s] = g[s] /\ h[s \ {x}] = g[s \ {x}] /\ s \in SUBSET S
      BY <1>2, <2>1, <2>4
    <3> QED
      BY <3>1 DEF IsSum
  <2> QED
    BY <2>2, <2>3, <2>4
<1>6. \A x \in U : f[x] \in Nat
  BY DEF IsSum
<1> HIDE DEF h
<1>7. IsSum(f, U, h)
  BY <1>3, <1>4, <1>5, <1>6 DEF IsSum
<1> QED
  BY <1>7

\* The sums over the subsets of a finite set exist.
LEMMA SumsExist ==
    ASSUME NEW S, IsFiniteSet(S), NEW f, \A x \in S : f[x] \in Nat
    PROVE  \E g : IsSum(f, S, g)
<1> DEFINE Without == {s \in SUBSET S : ~\E g : IsSum(f, s, g)}
           Sizes == {n \in Nat : \E s \in Without : Cardinality(s) = n}
<1>1. SUFFICES ASSUME Without # {} PROVE FALSE
  <2>1. S \in SUBSET S
    OBVIOUS
  <2> QED
    BY <1>1, <2>1
<1>2. \A s \in SUBSET S : IsFiniteSet(s) /\ Cardinality(s) \in Nat
  BY FS_Subset, FS_CardinalityType
<1>3. Sizes \subseteq Nat /\ Sizes # {}
  BY <1>1, <1>2
<1>4. PICK n \in Sizes : \A m \in Sizes : ~(<<m, n>> \in OpToRel(<, Nat))
  <2>1. IsWellFoundedOn(OpToRel(<, Nat), Nat)
    BY NatLessThanWellFounded
  <2> HIDE DEF Sizes
  <2> QED
    BY <1>3, <2>1, WFMin
<1>5. PICK s \in Without : Cardinality(s) = n
  BY <1>4
<1>6. s \in SUBSET S /\ IsFiniteSet(s) /\ Cardinality(s) \in Nat
  BY <1>2, <1>5
<1>7. s # {}
  <2> DEFINE g == [t \in SUBSET {} |-> 0]
  <2>1. IsSum(f, {}, g)
    BY DEF IsSum
  <2> QED
    BY <2>1, <1>5
<1>8. PICK e \in s : TRUE
  BY <1>7
<1>9. /\ s \ {e} \in SUBSET S /\ e \notin s \ {e} /\ (s \ {e}) \cup {e} = s
      /\ Cardinality(s \ {e}) = Cardinality(s) - 1 /\ Cardinality(s \ {e}) \in Nat
  BY <1>2, <1>6, FS_RemoveElement
<1>10. s \ {e} \notin Without
  <2>1. SUFFICES ASSUME s \ {e} \in Without PROVE FALSE
    OBVIOUS
  <2>2. Cardinality(s \ {e}) \in Sizes
    BY <1>9, <2>1
  <2>3. <<Cardinality(s \ {e}), n>> \in OpToRel(<, Nat)
    BY <1>3, <1>5, <1>6, <1>9 DEF OpToRel
  <2> QED
    BY <1>4, <2>2, <2>3
<1>11. PICK g : IsSum(f, s \ {e}, g)
  BY <1>9, <1>10
<1>12. f[e] \in Nat
  BY <1>6, <1>8
<1>13. \E h : IsSum(f, (s \ {e}) \cup {e}, h)
  BY <1>9, <1>11, <1>12, SumOfOneMore
<1> QED
  BY <1>5, <1>9, <1>13

\* What SumFunctionOnSet computes.
LEMMA SumIs ==
    ASSUME NEW S, IsFiniteSet(S), NEW f, NEW g, IsSum(f, S, g), NEW T \in SUBSET S
    PROVE  SumFunctionOnSet(f, T) = g[T]
<1> DEFINE first(s) == CHOOSE x \in s : TRUE
           IsIter(h) == h = [s \in SUBSET T |-> IF s = {} THEN 0
                                ELSE f[first(s)] + h[s \ {first(s)}]]
           iter == CHOOSE h : IsIter(h)
<1>1. SumFunctionOnSet(f, T) = iter[T]
  BY DEF SumFunctionOnSet, FoldFunctionOnSet, MapThenFoldSet
<1>2. \A s \in SUBSET T : s # {} => first(s) \in s
  OBVIOUS
<1> HIDE DEF first
<1>3. IsIter([s \in SUBSET T |-> g[s]])
  <2> DEFINE h == [s \in SUBSET T |-> g[s]]
  <2>1. ASSUME NEW s \in SUBSET T
        PROVE  h[s] = IF s = {} THEN 0 ELSE f[first(s)] + h[s \ {first(s)}]
    <3>1. CASE s = {}
      BY <3>1 DEF IsSum
    <3>2. CASE s # {}
      <4>1. first(s) \in s /\ s \in SUBSET S /\ s \ {first(s)} \in SUBSET T
        BY <1>2, <3>2
      <4>2. g[s] = f[first(s)] + g[s \ {first(s)}]
        BY <4>1 DEF IsSum
      <4> QED
        BY <3>2, <4>1, <4>2
    <3> QED
      BY <3>1, <3>2
  <2>2. h = [s \in SUBSET T |-> h[s]]
    OBVIOUS
  <2> HIDE DEF h
  <2>3. [s \in SUBSET T |-> h[s]]
          = [s \in SUBSET T |-> IF s = {} THEN 0 ELSE f[first(s)] + h[s \ {first(s)}]]
    BY <2>1
  <2>4. IsIter(h)
    BY <2>2, <2>3
  <2> QED
    BY <2>4 DEF h
<1>4. IsIter(iter)
  <2> HIDE DEF IsIter
  <2> QED
    BY <1>3
<1> HIDE DEF iter
<1>5. ASSUME NEW s \in SUBSET T, iter[s] # g[s] PROVE FALSE
  <2> DEFINE Off == {t \in SUBSET T : iter[t] # g[t]}
             Sizes == {n \in Nat : \E t \in Off : Cardinality(t) = n}
  <2>1. \A t \in SUBSET T : IsFiniteSet(t) /\ Cardinality(t) \in Nat
    BY FS_Subset, FS_CardinalityType
  <2>2. Sizes \subseteq Nat /\ Sizes # {}
    BY <1>5, <2>1
  <2>3. PICK n \in Sizes : \A m \in Sizes : ~(<<m, n>> \in OpToRel(<, Nat))
    <3>1. IsWellFoundedOn(OpToRel(<, Nat), Nat)
      BY NatLessThanWellFounded
    <3> HIDE DEF Sizes
    <3> QED
      BY <2>2, <3>1, WFMin
  <2>4. PICK t \in Off : Cardinality(t) = n
    BY <2>3
  <2>5. t \in SUBSET T /\ t \in SUBSET S /\ IsFiniteSet(t) /\ Cardinality(t) \in Nat
    BY <2>1, <2>4
  <2>6. iter[t] = IF t = {} THEN 0 ELSE f[first(t)] + iter[t \ {first(t)}]
    BY <1>4, <2>5
  <2>7. t # {}
    BY <2>4, <2>6 DEF IsSum
  <2> DEFINE r == t \ {first(t)}
  <2>8. first(t) \in t /\ r \in SUBSET T
    BY <1>2, <2>5, <2>7
  <2>9. Cardinality(r) = Cardinality(t) - 1 /\ Cardinality(r) \in Nat
    BY <2>1, <2>5, <2>8, FS_RemoveElement
  <2>10. r \notin Off
    <3>1. SUFFICES ASSUME r \in Off PROVE FALSE
      OBVIOUS
    <3>2. Cardinality(r) \in Sizes
      BY <2>9, <3>1
    <3>3. <<Cardinality(r), n>> \in OpToRel(<, Nat)
      BY <2>2, <2>4, <2>5, <2>9 DEF OpToRel
    <3> QED
      BY <2>3, <3>2, <3>3
  <2>11. iter[r] = g[r]
    BY <2>8, <2>10
  <2>12. g[t] = f[first(t)] + g[r]
    BY <2>5, <2>8 DEF IsSum
  <2> QED
    BY <2>4, <2>6, <2>7, <2>11, <2>12
<1> QED
  BY <1>1, <1>5

\* An element can be taken out of a sum.
LEMMA SumWithout ==
    ASSUME NEW S, IsFiniteSet(S), NEW f, \A x \in S : f[x] \in Nat, NEW e \in S
    PROVE  /\ SumFunctionOnSet(f, S) = f[e] + SumFunctionOnSet(f, S \ {e})
           /\ SumFunctionOnSet(f, S) \in Nat /\ SumFunctionOnSet(f, S \ {e}) \in Nat
<1>1. PICK g : IsSum(f, S, g)
  BY SumsExist
<1>2. S \in SUBSET S /\ S \ {e} \in SUBSET S
  OBVIOUS
<1>3. SumFunctionOnSet(f, S) = g[S] /\ SumFunctionOnSet(f, S \ {e}) = g[S \ {e}]
  BY <1>1, <1>2, SumIs
<1>4. g[S] = f[e] + g[S \ {e}] /\ g[S] \in Nat /\ g[S \ {e}] \in Nat
  BY <1>1, <1>2 DEF IsSum
<1> QED
  BY <1>3, <1>4

\* Nothing sums to zero.
LEMMA SumOfNone == ASSUME NEW f PROVE SumFunctionOnSet(f, {}) = 0
<1> DEFINE g == [t \in SUBSET {} |-> 0]
<1>1. IsSum(f, {}, g) /\ g[{}] = 0 /\ {} \in SUBSET {}
  BY DEF IsSum
<1> HIDE DEF g
<1> QED
  BY <1>1, SumIs, FS_EmptySet

\* Only the summands count.
LEMMA SumOfSame ==
    ASSUME NEW S, IsFiniteSet(S), NEW f, NEW h, \A x \in S : f[x] \in Nat /\ h[x] = f[x]
    PROVE  SumFunctionOnSet(h, S) = SumFunctionOnSet(f, S)
<1>1. PICK g : IsSum(f, S, g)
  BY SumsExist
<1>2. IsSum(h, S, g)
  BY <1>1 DEF IsSum
<1>3. S \in SUBSET S
  OBVIOUS
<1> QED
  BY <1>1, <1>2, <1>3, SumIs

\* One summand changes.
LEMMA SumOfUpdate ==
    ASSUME NEW S, IsFiniteSet(S), NEW e \in S, NEW f, NEW h,
           \A x \in S : f[x] \in Nat /\ h[x] \in Nat,
           \A x \in S \ {e} : h[x] = f[x]
    PROVE  /\ SumFunctionOnSet(f, S) \in Nat /\ SumFunctionOnSet(h, S) \in Nat
           /\ SumFunctionOnSet(f, S) >= f[e]
           /\ SumFunctionOnSet(h, S) = SumFunctionOnSet(f, S) - f[e] + h[e]
<1>1. IsFiniteSet(S \ {e})
  BY FS_RemoveElement
<1>2. SumFunctionOnSet(h, S \ {e}) = SumFunctionOnSet(f, S \ {e})
  BY <1>1, SumOfSame
<1>3. /\ SumFunctionOnSet(f, S) = f[e] + SumFunctionOnSet(f, S \ {e})
      /\ SumFunctionOnSet(f, S) \in Nat /\ SumFunctionOnSet(f, S \ {e}) \in Nat
  BY SumWithout
<1>4. /\ SumFunctionOnSet(h, S) = h[e] + SumFunctionOnSet(h, S \ {e})
      /\ SumFunctionOnSet(h, S) \in Nat
  BY SumWithout
<1> QED
  BY <1>2, <1>3, <1>4

(***************************************************************************)
(* AlertDispatcher.  The statistics agree with the queues, and the wait    *)
(* group of a dispatcher counts its worker and its drop alerts.  A worker  *)
(* returns from a closed and empty queue only, so an empty group means     *)
(* that nothing is left.                                                   *)
(***************************************************************************)

Unmade == {"new", "creating"}
Handing == {"applying", "recording", "queueing"}
Mid == {"made", "rejected", "registered", "serving", "applying", "queueing", "leaving"}

\* What the worker and a drop alert add to the wait group.
Running(d) == IF phase[d] \in Unmade \/ exited[d] THEN 0 ELSE 1
Sending(d) == IF dropAlert[d] THEN 1 ELSE 0

GroupOK(d) ==
    /\ wg[d] = Running(d) + Sending(d) + ending[d]
    /\ phase[d] \in Unmade =>
          /\ queue[d] = <<>> /\ doing[d] = NoJob
          /\ ~closed[d] /\ ~exited[d] /\ ~dropAlert[d] /\ ending[d] = 0
    /\ exited[d] => closed[d] /\ queue[d] = <<>> /\ doing[d] = NoJob
    /\ phase[d] = "drained" => wg[d] = 0
    /\ phase[d] = "closing" => local[d] = cap[d]
    /\ phase[d] \in Handing => job[d] \in Jobs

TotalAgrees == ~skewed => total = SumFunctionOnSet(Shown, Counted)

DispatcherInv ==
    /\ DispatcherTypeOK
    /\ \A d \in AlertConns : GroupOK(d)
    /\ CountersAgree

LEMMA CapacitiesAreNat == \A c \in Capacities \cup {0} : c \in Nat
BY DispatcherAssumption

\* The capacities in use.
LEMMA CapacityInUse ==
    ASSUME DispatcherTypeOK, NEW d \in AlertConns
    PROVE  /\ cap[d] \in Nat /\ cap[d] \in Capacities \cup {0}
           /\ local[d] \in Nat /\ local[d] \in Capacities \cup {0}
           /\ setting \in Capacities
<1>1. /\ setting \in Capacities /\ cap[d] \in Capacities \cup {0}
      /\ local[d] \in Capacities \cup {0}
  BY DEF DispatcherTypeOK
<1> QED
  BY <1>1, CapacitiesAreNat

\* A step of the handler of d.
LEMMA PhaseMoves ==
    ASSUME DispatcherTypeOK, NEW d \in AlertConns, NEW from, NEW to \in Phases,
           Proceeds(d, from, to)
    PROVE  /\ phase[d] = from /\ phase'[d] = to
           /\ phase' \in [AlertConns -> Phases]
           /\ \A o \in AlertConns \ {d} : phase'[o] = phase[o]
BY DEF Proceeds, DispatcherTypeOK

\* What a step leaves alone of one dispatcher.
Same(o) ==
    /\ phase'[o] = phase[o] /\ job'[o] = job[o]
    /\ local'[o] = local[o] /\ cap'[o] = cap[o]
    /\ queue'[o] = queue[o] /\ doing'[o] = doing[o] /\ closed'[o] = closed[o]
    /\ wg'[o] = wg[o] /\ exited'[o] = exited[o]
    /\ dropAlert'[o] = dropAlert[o] /\ ending'[o] = ending[o]

LEMMA GroupStays ==
    ASSUME NEW o, GroupOK(o), Same(o)
    PROVE  GroupOK(o)'
BY DEF GroupOK, Same, Running, Sending

\* A step of one dispatcher.
LEMMA GroupsStay ==
    ASSUME DispatcherInv, NEW d \in AlertConns,
           \A o \in AlertConns \ {d} : Same(o), GroupOK(d)'
    PROVE  \A o \in AlertConns : GroupOK(o)'
<1>1. ASSUME NEW o \in AlertConns PROVE GroupOK(o)'
  <2>1. CASE o = d
    BY <2>1
  <2>2. CASE o # d
    BY <2>2, GroupStays DEF DispatcherInv
  <2> QED
    BY <2>1, <2>2
<1> QED
  BY <1>1

LEMMA DispatcherInitInv == DispatcherInit => DispatcherInv
<1> SUFFICES ASSUME DispatcherInit PROVE DispatcherInv
  OBVIOUS
<1>1. DispatcherTypeOK
  <2>1. <<>> \in Seq(Jobs)
    OBVIOUS
  <2>2. skewed \in BOOLEAN
    BY Zenon DEF DispatcherInit
  <2>3. /\ dropAlert \in [AlertConns -> BOOLEAN] /\ closed \in [AlertConns -> BOOLEAN]
        /\ exited \in [AlertConns -> BOOLEAN]
    BY DEF DispatcherInit
  <2>4. queue \in [AlertConns -> Seq(Jobs)]
    BY <2>1 DEF DispatcherInit
  <2>5. /\ setting \in Capacities /\ changes \in 0..MaxChanges /\ samples \in 0..MaxSamples
        /\ total \in Nat /\ depth \in Nat /\ currentConn \in AlertConns \cup {0}
    BY DispatcherAssumption DEF DispatcherInit
  <2>6. /\ phase \in [AlertConns -> Phases]
        /\ job \in [AlertConns -> Jobs \cup {NoJob}]
        /\ doing \in [AlertConns -> Jobs \cup {NoJob}]
        /\ local \in [AlertConns -> Capacities \cup {0}]
        /\ cap \in [AlertConns -> Capacities \cup {0}]
        /\ wg \in [AlertConns -> Nat] /\ ending \in [AlertConns -> Nat]
    BY DEF DispatcherInit, Phases
  <2> QED
    BY <2>2, <2>3, <2>4, <2>5, <2>6 DEF DispatcherTypeOK
<1>2. /\ \A d \in AlertConns : queue[d] = <<>> /\ doing[d] = NoJob /\ phase[d] = "new"
      /\ total = 0 /\ depth = 0
  BY DEF DispatcherInit
<1>3. ASSUME NEW d \in AlertConns PROVE GroupOK(d)
  <2>1. wg[d] = 0 /\ ending[d] = 0 /\ ~closed[d] /\ ~exited[d] /\ ~dropAlert[d]
    BY DEF DispatcherInit
  <2>2. Running(d) = 0 /\ Sending(d) = 0
    BY <1>2, <2>1 DEF Running, Sending, Unmade
  <2> QED
    BY <1>2, <2>1, <2>2 DEF GroupOK, Handing
<1>4. ASSUME NEW d \in AlertConns PROVE Held[d] = 0
  <2>1. Held[d] = Len(queue[d]) + (IF doing[d] = NoJob THEN 0 ELSE 1)
    BY DEF Held
  <2>2. queue[d] = <<>> /\ doing[d] = NoJob
    BY <1>2
  <2>3. Len(queue[d]) = 0
    BY <2>2
  <2> QED
    BY <2>1, <2>2, <2>3
<1>5. PICK f : f = Held
  OBVIOUS
<1>6. IsFiniteSet(AlertConns) /\ DOMAIN f = AlertConns /\ \A d \in AlertConns : f[d] = 0
  BY <1>4, <1>5, DispatcherAssumption DEF Held
<1>7. SumFunctionOnSet(f, AlertConns) = 0
  <2> DEFINE g == [s \in SUBSET AlertConns |-> 0]
  <2>1. IsSum(f, AlertConns, g)
    BY <1>6 DEF IsSum
  <2>2. AlertConns \in SUBSET AlertConns /\ g[AlertConns] = 0
    OBVIOUS
  <2> HIDE DEF g
  <2> QED
    BY <1>6, <2>1, <2>2, SumIs
<1>8. depth = SumFunction(Held)
  BY <1>2, <1>5, <1>6, <1>7 DEF SumFunction
<1>9. Counted = {}
  BY <1>2 DEF Counted
<1>10. PICK h : h = Shown
  OBVIOUS
<1>11. total = SumFunctionOnSet(h, Counted)
  BY <1>2, <1>9, SumOfNone
<1> QED
  BY <1>1, <1>3, <1>8, <1>10, <1>11 DEF DispatcherInv, CountersAgree

(***************************************************************************)
(* What a step does to the statistics.                                     *)
(***************************************************************************)

\* A step that leaves the jobs alone.
LEMMA HeldStays ==
    ASSUME CountersAgree, UNCHANGED queueVars
    PROVE  (depth = SumFunction(Held))'
<1>1. UNCHANGED <<queue, doing, depth>>
  BY DEF queueVars
<1>2. Held' = Held
  BY <1>1 DEF Held
<1> QED
  BY <1>1, <1>2 DEF CountersAgree, SumFunction

\* A step that leaves the capacities alone.
LEMMA TotalStays ==
    ASSUME CountersAgree, UNCHANGED <<total, skewed>>,
           Shown' = Shown, Counted' = Counted
    PROVE  TotalAgrees'
BY DEF CountersAgree, TotalAgrees

LEMMA CountersMove ==
    ASSUME (depth = SumFunction(Held))', TotalAgrees'
    PROVE  CountersAgree'
BY DEF CountersAgree, TotalAgrees

LEMMA CountedFinite ==
    ASSUME DispatcherTypeOK
    PROVE  /\ IsFiniteSet(Counted) /\ Counted \subseteq AlertConns
           /\ \A d \in AlertConns : Shown[d] \in Nat
<1>1. Counted \in SUBSET AlertConns
  BY DEF Counted
<1>2. IsFiniteSet(Counted)
  BY <1>1, FS_Subset, DispatcherAssumption
<1>3. ASSUME NEW d \in AlertConns PROVE Shown[d] \in Nat
  <2>1. cap[d] \in Nat /\ local[d] \in Nat
    BY CapacityInUse
  <2>2. Shown[d] = IF phase[d] = "recording" THEN local[d] ELSE cap[d]
    BY DEF Shown
  <2> QED
    BY <2>1, <2>2
<1> QED
  BY <1>1, <1>2, <1>3

\* Outside of "recording" what is shown is the capacity.
LEMMA ShownStays ==
    ASSUME DispatcherTypeOK, NEW d \in AlertConns,
           \A o \in AlertConns \ {d} : phase'[o] = phase[o] /\ local'[o] = local[o],
           UNCHANGED cap,
           phase[d] # "recording", phase'[d] # "recording"
    PROVE  Shown' = Shown
<1>1. ASSUME NEW o \in AlertConns
      PROVE  (IF phase'[o] = "recording" THEN local'[o] ELSE cap'[o])
                = (IF phase[o] = "recording" THEN local[o] ELSE cap[o])
  OBVIOUS
<1> QED
  BY <1>1 DEF Shown

\* The jobs of one dispatcher change.
LEMMA HeldChanges ==
    ASSUME DispatcherTypeOK, DispatcherTypeOK', NEW d \in AlertConns, CountersAgree,
           \A o \in AlertConns \ {d} : queue'[o] = queue[o] /\ doing'[o] = doing[o]
    PROVE  /\ Held[d] \in Nat /\ Held'[d] \in Nat /\ depth >= Held[d]
           /\ SumFunction(Held)' = depth - Held[d] + Held'[d]
<1>1. /\ DOMAIN Held = AlertConns /\ IsFiniteSet(AlertConns) /\ DOMAIN Held' = AlertConns
  BY DispatcherAssumption DEF Held
<1>2. /\ \A o \in AlertConns : Len(queue[o]) \in Nat
      /\ \A o \in AlertConns : Len(queue'[o]) \in Nat
  <2>1. queue \in [AlertConns -> Seq(Jobs)] /\ queue' \in [AlertConns -> Seq(Jobs)]
    BY DEF DispatcherTypeOK
  <2>2. \A o \in AlertConns : Len(queue[o]) \in Nat
    BY <2>1
  <2>3. \A o \in AlertConns : Len(queue'[o]) \in Nat
    BY <2>1
  <2> QED
    BY <2>2, <2>3
<1>3. /\ \A o \in AlertConns : Held[o] = Len(queue[o]) + (IF doing[o] = NoJob THEN 0 ELSE 1)
      /\ \A o \in AlertConns : Held'[o] = Len(queue'[o]) + (IF doing'[o] = NoJob THEN 0 ELSE 1)
  BY DEF Held
<1>4. PICK f : f = Held
  OBVIOUS
<1>5. PICK h : h = Held'
  OBVIOUS
<1>6. ASSUME NEW o \in AlertConns PROVE f[o] \in Nat
  <2>1. PICK one \in Nat : one = (IF doing[o] = NoJob THEN 0 ELSE 1)
    OBVIOUS
  <2>2. PICK n \in Nat : n = Len(queue[o])
    BY <1>2
  <2>3. f[o] = n + one
    BY <1>3, <1>4, <2>1, <2>2
  <2> QED
    BY <2>3
<1>7. ASSUME NEW o \in AlertConns PROVE h[o] \in Nat
  <2>1. PICK one \in Nat : one = (IF doing'[o] = NoJob THEN 0 ELSE 1)
    OBVIOUS
  <2>2. PICK n \in Nat : n = Len(queue'[o])
    BY <1>2
  <2>3. h[o] = n + one
    BY <1>3, <1>5, <2>1, <2>2
  <2> QED
    BY <2>3
<1>8. \A o \in AlertConns \ {d} : h[o] = f[o]
  BY <1>3, <1>4, <1>5
<1>9. /\ SumFunctionOnSet(f, AlertConns) \in Nat
      /\ SumFunctionOnSet(f, AlertConns) >= f[d]
      /\ SumFunctionOnSet(h, AlertConns) = SumFunctionOnSet(f, AlertConns) - f[d] + h[d]
  BY <1>1, <1>6, <1>7, <1>8, SumOfUpdate
<1>10. depth = SumFunctionOnSet(f, AlertConns)
  BY <1>1, <1>4 DEF CountersAgree, SumFunction
<1>11. SumFunction(Held)' = SumFunctionOnSet(h, AlertConns)
  BY <1>1, <1>5 DEF SumFunction
<1> QED
  BY <1>4, <1>5, <1>6, <1>7, <1>9, <1>10, <1>11

(***************************************************************************)
(* The steps of the handler.                                               *)
(***************************************************************************)

\* A step of the handler of d that leaves the dispatchers alone.
OnlyHandler(d, to) ==
    /\ UNCHANGED settingVars /\ UNCHANGED capacityVars /\ UNCHANGED queueVars
    /\ UNCHANGED closeVars /\ UNCHANGED alertVars
    /\ currentConn' \in AlertConns \cup {0}
    /\ job' \in [AlertConns -> Jobs \cup {NoJob}]
    /\ local' \in [AlertConns -> Capacities \cup {0}]
    /\ samples' \in 0..MaxSamples
    /\ to = "applying" => job'[d] \in Jobs
    /\ \A o \in AlertConns \ {d} : local'[o] = local[o] /\ job'[o] = job[o]

GoesOn(from, to) ==
    \/ from \in Mid /\ to \in Mid \ {"queueing"}
    \/ from = "new" /\ to = "creating"

LEMMA HandlerMoves ==
    ASSUME DispatcherInv, NEW d \in AlertConns, NEW from, NEW to,
           Proceeds(d, from, to), GoesOn(from, to), OnlyHandler(d, to)
    PROVE  DispatcherInv'
<1>1. DispatcherTypeOK /\ CountersAgree /\ GroupOK(d)
  BY DEF DispatcherInv
<1>2. to \in Phases
  BY DEF Mid, Phases, GoesOn
<1>3. /\ phase[d] = from /\ phase'[d] = to /\ phase' \in [AlertConns -> Phases]
      /\ \A o \in AlertConns \ {d} : phase'[o] = phase[o]
  BY <1>1, <1>2, PhaseMoves
<1>4. /\ UNCHANGED <<setting, changes, cap, total, skewed, queue, depth, doing, closed,
                     wg, exited, dropAlert, ending>>
      /\ UNCHANGED queueVars
      /\ currentConn' \in AlertConns \cup {0}
      /\ job' \in [AlertConns -> Jobs \cup {NoJob}]
      /\ local' \in [AlertConns -> Capacities \cup {0}]
      /\ samples' \in 0..MaxSamples
      /\ to = "applying" => job'[d] \in Jobs
      /\ \A o \in AlertConns \ {d} : local'[o] = local[o] /\ job'[o] = job[o]
  BY DEF OnlyHandler, settingVars, capacityVars, queueVars, closeVars, alertVars
<1>5. DispatcherTypeOK'
  BY <1>1, <1>3, <1>4 DEF DispatcherTypeOK
<1>6. \A o \in AlertConns \ {d} : Same(o)
  BY <1>3, <1>4 DEF Same
<1>7. GroupOK(d)'
  <2>1. /\ phase[d] \in Unmade <=> phase'[d] \in Unmade
        /\ phase'[d] # "drained" /\ phase'[d] # "closing"
        /\ phase'[d] \in Handing => to = "applying"
    BY <1>3 DEF Mid, Unmade, GoesOn, Handing
  <2> QED
    BY <1>1, <1>4, <2>1 DEF GroupOK, Running, Sending
<1>8. \A o \in AlertConns : GroupOK(o)'
  BY <1>6, <1>7, GroupsStay
<1>9. phase[d] # "recording" /\ phase'[d] # "recording"
  BY <1>3 DEF Mid, GoesOn
<1>10. Shown' = Shown
  BY <1>1, <1>3, <1>4, <1>9, ShownStays
<1>11. Counted' = Counted
  BY <1>3 DEF Counted, Mid, GoesOn
<1>12. CountersAgree'
  BY <1>1, <1>4, <1>10, <1>11, HeldStays, TotalStays, CountersMove
<1> QED
  BY <1>5, <1>8, <1>12 DEF DispatcherInv

LEMMA ChangeCapacityInv == ASSUME DispatcherInv, ChangeCapacity PROVE DispatcherInv'
<1>1. /\ changes < MaxChanges /\ changes' = changes + 1
      /\ setting' \in Capacities
      /\ UNCHANGED <<handlerVars, capacityVars, queueVars, closeVars, alertVars, samples>>
  BY DEF ChangeCapacity
<1>2. UNCHANGED <<phase, currentConn, job, local, cap, total, skewed, queue, depth, doing,
                  closed, wg, exited, dropAlert, ending, samples>>
  BY <1>1 DEF handlerVars, capacityVars, queueVars, closeVars, alertVars
<1>3. changes' \in 0..MaxChanges
  BY <1>1, DispatcherAssumption DEF DispatcherInv, DispatcherTypeOK
<1>4. DispatcherTypeOK'
  BY <1>1, <1>2, <1>3 DEF DispatcherInv, DispatcherTypeOK
<1>5. \A o \in AlertConns : GroupOK(o)'
  BY <1>2, GroupStays DEF DispatcherInv, Same
<1>6. Shown' = Shown /\ Counted' = Counted
  BY <1>2 DEF Shown, Counted
<1>7. CountersAgree'
  BY <1>1, <1>2, <1>6, HeldStays, TotalStays, CountersMove DEF DispatcherInv
<1> QED
  BY <1>4, <1>5, <1>7 DEF DispatcherInv

LEMMA ReadCapacityInv ==
    ASSUME DispatcherInv, NEW d \in AlertConns, ReadCapacity(d)
    PROVE  DispatcherInv'
<1>1. /\ Proceeds(d, "new", "creating")
      /\ UNCHANGED <<settingVars, currentConn, job, capacityVars, queueVars, closeVars,
                     alertVars, samples>>
      /\ \E read \in {setting, DefaultCapacity} : local' = [local EXCEPT ![d] = read]
  BY DEF ReadCapacity
<1>2. /\ setting \in Capacities /\ local \in [AlertConns -> Capacities \cup {0}]
      /\ currentConn \in AlertConns \cup {0} /\ job \in [AlertConns -> Jobs \cup {NoJob}]
      /\ samples \in 0..MaxSamples
  BY DEF DispatcherInv, DispatcherTypeOK
<1>3. PICK read \in Capacities : local' = [local EXCEPT ![d] = read]
  BY <1>1, <1>2, DispatcherAssumption
<1>4. /\ local' \in [AlertConns -> Capacities \cup {0}]
      /\ \A o \in AlertConns \ {d} : local'[o] = local[o]
  BY <1>2, <1>3
<1>5. PICK from, to : from = "new" /\ to = "creating"
  OBVIOUS
<1>6. Proceeds(d, from, to) /\ GoesOn(from, to)
  BY <1>1, <1>5 DEF GoesOn
<1>7. OnlyHandler(d, to)
  BY <1>1, <1>2, <1>4, <1>5 DEF OnlyHandler
<1> QED
  BY <1>5, <1>6, <1>7, HandlerMoves

\* NewDispatcherWithCapacity counts one more.
LEMMA CreateInv ==
    ASSUME DispatcherInv, NEW d \in AlertConns, Create(d)
    PROVE  DispatcherInv'
<1>1. /\ Proceeds(d, "creating", "made")
      /\ \E loaded \in {setting, local[d]} :
            /\ cap' = [cap EXCEPT ![d] = loaded]
            /\ skewed' = (skewed \/ loaded # local[d])
      /\ total' = total + local[d]
      /\ wg' = [wg EXCEPT ![d] = 1]
      /\ UNCHANGED <<settingVars, currentConn, job, local, queueVars, closed, exited,
                     alertVars, samples>>
  BY DEF Create
<1>2. DispatcherTypeOK /\ CountersAgree /\ GroupOK(d)
  BY DEF DispatcherInv
<1>3. /\ cap \in [AlertConns -> Capacities \cup {0}] /\ wg \in [AlertConns -> Nat]
      /\ total \in Nat /\ skewed \in BOOLEAN
  BY <1>2 DEF DispatcherTypeOK
<1>4. PICK loaded \in {setting, local[d]} :
            /\ cap' = [cap EXCEPT ![d] = loaded]
            /\ skewed' = (skewed \/ loaded # local[d])
  BY <1>1
<1>5. loaded \in Capacities \cup {0} /\ loaded \in Nat /\ local[d] \in Nat
  BY <1>2, <1>4, CapacityInUse, CapacitiesAreNat
<1>6. /\ phase[d] = "creating" /\ phase'[d] = "made" /\ phase' \in [AlertConns -> Phases]
      /\ \A o \in AlertConns \ {d} : phase'[o] = phase[o]
  <2>1. "made" \in Phases
    BY DEF Phases
  <2> QED
    BY <1>1, <1>2, <2>1, PhaseMoves
<1>7. /\ cap' \in [AlertConns -> Capacities \cup {0}] /\ wg' \in [AlertConns -> Nat]
      /\ total' \in Nat
      /\ cap'[d] = loaded /\ \A o \in AlertConns \ {d} : cap'[o] = cap[o]
      /\ wg'[d] = 1 /\ \A o \in AlertConns \ {d} : wg'[o] = wg[o]
  BY <1>1, <1>3, <1>4, <1>5
<1>8. skewed' \in BOOLEAN
  BY <1>4, Zenon
<1>9. UNCHANGED <<setting, changes, currentConn, job, local, queue, depth, doing, closed,
                  exited, dropAlert, ending, samples>>
  BY <1>1 DEF settingVars, queueVars, alertVars
<1>10. DispatcherTypeOK'
  BY <1>2, <1>6, <1>7, <1>8, <1>9 DEF DispatcherTypeOK
<1>11. \A o \in AlertConns \ {d} : Same(o)
  BY <1>6, <1>7, <1>9 DEF Same
<1>12. GroupOK(d)'
  <2>1. /\ queue[d] = <<>> /\ doing[d] = NoJob
        /\ ~exited[d] /\ ~dropAlert[d] /\ ending[d] = 0
    BY <1>2, <1>6 DEF GroupOK, Unmade
  <2>2. /\ phase'[d] \notin Unmade /\ phase'[d] # "drained" /\ phase'[d] # "closing"
        /\ phase'[d] \notin Handing
    BY <1>6 DEF Unmade, Handing
  <2>3. Running(d)' = 1 /\ Sending(d)' = 0
    BY <1>9, <2>1, <2>2 DEF Running, Sending
  <2> QED
    BY <1>7, <1>9, <2>1, <2>2, <2>3 DEF GroupOK
<1>13. \A o \in AlertConns : GroupOK(o)'
  BY <1>11, <1>12, GroupsStay
<1>14. TotalAgrees'
  <2>1. SUFFICES ASSUME ~skewed' PROVE total' = SumFunctionOnSet(Shown', Counted')
    BY DEF TotalAgrees
  <2>2. ~skewed /\ loaded = local[d]
    BY <1>4, <2>1
  <2>3. Counted' = Counted \cup {d} /\ d \notin Counted
    BY <1>6 DEF Counted
  <2>4. PICK f : f = Shown
    OBVIOUS
  <2>5. PICK h : h = Shown'
    OBVIOUS
  <2>6. PICK S : S = Counted
    OBVIOUS
  <2>7. /\ IsFiniteSet(S) /\ S \subseteq AlertConns /\ \A o \in AlertConns : f[o] \in Nat
    BY <1>2, <2>4, <2>6, CountedFinite
  <2>8. h[d] = local[d] /\ \A o \in S : h[o] = f[o]
    <3>1. h[d] = cap'[d]
      BY <1>6, <2>5 DEF Shown
    <3>2. ASSUME NEW o \in S PROVE h[o] = f[o]
      <4>1. /\ o \in AlertConns \ {d} /\ phase'[o] = phase[o] /\ local'[o] = local[o]
            /\ cap'[o] = cap[o]
        BY <1>6, <1>7, <1>9, <2>3, <2>6, <2>7
      <4> QED
        BY <2>4, <2>5, <4>1 DEF Shown
    <3> QED
      BY <1>7, <2>2, <3>1, <3>2
  <2>9. PICK T : T = S \cup {d}
    OBVIOUS
  <2>10. IsFiniteSet(T) /\ d \in T /\ T \ {d} = S /\ \A o \in T : h[o] \in Nat
    <3>1. IsFiniteSet(T)
      BY <2>7, <2>9, FS_AddElement
    <3> QED
      BY <1>5, <2>3, <2>6, <2>7, <2>8, <2>9, <3>1
  <2>11. SumFunctionOnSet(h, T) = h[d] + SumFunctionOnSet(h, S)
    BY <2>10, SumWithout
  <2>12. SumFunctionOnSet(h, S) = SumFunctionOnSet(f, S)
    BY <2>7, <2>8, SumOfSame
  <2>13. total = SumFunctionOnSet(f, S)
    BY <1>2, <2>2, <2>4, <2>6 DEF CountersAgree
  <2>14. total' = h[d] + SumFunctionOnSet(h, S)
    BY <1>1, <1>3, <1>5, <2>8, <2>12, <2>13
  <2> QED
    BY <2>3, <2>5, <2>6, <2>9, <2>11, <2>14
<1>15. CountersAgree'
  BY <1>1, <1>2, <1>14, HeldStays, CountersMove
<1> QED
  BY <1>10, <1>13, <1>15 DEF DispatcherInv

\* getRuntimeConfig reads a capacity.
LEMMA OfferFacts ==
    ASSUME DispatcherTypeOK, NEW d \in AlertConns, NEW from, NEW kind \in Jobs,
           Offer(d, from, kind)
    PROVE  /\ Proceeds(d, from, "applying")
           /\ job' \in [AlertConns -> Jobs \cup {NoJob}]
           /\ local' \in [AlertConns -> Capacities \cup {0}]
           /\ job'[d] \in Jobs
           /\ \A o \in AlertConns \ {d} : local'[o] = local[o] /\ job'[o] = job[o]
<1>1. /\ Proceeds(d, from, "applying")
      /\ job' = [job EXCEPT ![d] = kind]
      /\ \E loaded \in {cap[d], setting} : local' = [local EXCEPT ![d] = loaded]
  BY DEF Offer
<1>2. /\ job \in [AlertConns -> Jobs \cup {NoJob}]
      /\ local \in [AlertConns -> Capacities \cup {0}]
      /\ cap[d] \in Capacities \cup {0} /\ setting \in Capacities
  BY DEF DispatcherTypeOK
<1>3. PICK loaded \in Capacities \cup {0} : local' = [local EXCEPT ![d] = loaded]
  BY <1>1, <1>2
<1> QED
  BY <1>1, <1>2, <1>3

\* A step that may hand in a job.
LEMMA OfferInv ==
    ASSUME DispatcherInv, NEW d \in AlertConns, NEW from \in Mid, NEW to \in Mid \ Handing,
           NEW kind \in Jobs,
           Offer(d, from, kind) \/ Passes(d, from, to),
           UNCHANGED <<settingVars, currentConn, capacityVars, queueVars, closeVars,
                       alertVars>>,
           samples' \in 0..MaxSamples
    PROVE  DispatcherInv'
<1>1. /\ DispatcherTypeOK
      /\ currentConn' \in AlertConns \cup {0} /\ job \in [AlertConns -> Jobs \cup {NoJob}]
      /\ local \in [AlertConns -> Capacities \cup {0}]
  BY DEF DispatcherInv, DispatcherTypeOK
<1>2. CASE Offer(d, from, kind)
  <2>1. PICK t \in Mid : t = "applying"
    BY DEF Mid
  <2>2. Proceeds(d, from, t)
    BY <1>1, <1>2, <2>1, OfferFacts
  <2>3. GoesOn(from, t)
    BY <2>1 DEF GoesOn
  <2>4. OnlyHandler(d, t)
    BY <1>1, <1>2, OfferFacts DEF OnlyHandler
  <2> QED
    BY <2>2, <2>3, <2>4, HandlerMoves
<1>3. CASE Passes(d, from, to)
  <2>1. Proceeds(d, from, to) /\ UNCHANGED <<job, local>>
    BY <1>3 DEF Passes
  <2>2. GoesOn(from, to) /\ to # "applying"
    BY DEF GoesOn, Handing
  <2>3. OnlyHandler(d, to)
    BY <1>1, <2>1, <2>2 DEF OnlyHandler
  <2> QED
    BY <2>1, <2>2, <2>3, HandlerMoves
<1> QED
  BY <1>2, <1>3

LEMMA ConnectionInv ==
    ASSUME DispatcherInv, NEW d \in AlertConns, Connection(d)
    PROVE  DispatcherInv'
<1>1. /\ currentConn \in AlertConns \cup {0} /\ job \in [AlertConns -> Jobs \cup {NoJob}]
      /\ local \in [AlertConns -> Capacities \cup {0}] /\ samples \in 0..MaxSamples
  BY DEF DispatcherInv, DispatcherTypeOK
<1>2. PICK made, rejected, registered, serving, leaving \in Mid \ Handing :
         /\ made = "made" /\ rejected = "rejected" /\ registered = "registered"
         /\ serving = "serving" /\ leaving = "leaving"
  BY DEF Mid, Handing
<1>3. PICK metrics, online, offline \in Jobs :
         metrics = "sample" /\ online = "online" /\ offline = "offline"
  BY DEF Jobs
<1>4. CASE RejectConnection(d)
  <2>1. /\ Proceeds(d, made, rejected)
        /\ UNCHANGED <<settingVars, currentConn, job, local, capacityVars, queueVars,
                       closeVars, alertVars, samples>>
    BY <1>2, <1>4 DEF RejectConnection
  <2>2. GoesOn(made, rejected) /\ rejected # "applying"
    BY <1>2 DEF GoesOn, Handing
  <2>3. OnlyHandler(d, rejected)
    BY <1>1, <2>1, <2>2 DEF OnlyHandler
  <2> QED
    BY <2>1, <2>2, <2>3, HandlerMoves
<1>5. CASE AcceptConnection(d)
  <2>1. /\ Proceeds(d, made, registered)
        /\ currentConn' = d
        /\ UNCHANGED <<settingVars, job, local, capacityVars, queueVars, closeVars,
                       alertVars, samples>>
    BY <1>2, <1>5 DEF AcceptConnection
  <2>2. GoesOn(made, registered) /\ registered # "applying"
    BY <1>2 DEF GoesOn, Handing
  <2>3. OnlyHandler(d, registered)
    BY <1>1, <2>1, <2>2 DEF OnlyHandler
  <2> QED
    BY <2>1, <2>2, <2>3, HandlerMoves
<1>6. CASE FirstHeartbeat(d)
  <2>1. /\ Offer(d, registered, online) \/ Passes(d, registered, serving)
        /\ UNCHANGED <<settingVars, currentConn, capacityVars, queueVars, closeVars,
                       alertVars, samples>>
    BY <1>2, <1>3, <1>6 DEF FirstHeartbeat
  <2> QED
    BY <1>1, <2>1, OfferInv
<1>7. CASE EnqueueMetrics(d)
  <2>1. /\ Offer(d, serving, metrics)
        /\ samples < MaxSamples /\ samples' = samples + 1
        /\ UNCHANGED <<settingVars, currentConn, capacityVars, queueVars, closeVars,
                       alertVars>>
    BY <1>2, <1>3, <1>7 DEF EnqueueMetrics
  <2>2. samples' \in 0..MaxSamples
    BY <1>1, <2>1, DispatcherAssumption
  <2> QED
    BY <2>1, <2>2, OfferInv
<1>8. CASE HandlerLeaves(d)
  <2>1. /\ Offer(d, serving, offline) \/ Passes(d, serving, leaving)
        /\ UNCHANGED <<settingVars, currentConn, capacityVars, queueVars, closeVars,
                       alertVars, samples>>
    BY <1>2, <1>3, <1>8 DEF HandlerLeaves
  <2> QED
    BY <1>1, <2>1, OfferInv
<1> QED
  BY <1>4, <1>5, <1>6, <1>7, <1>8 DEF Connection

\* applyQueueCapacity: what is shown is still the previous capacity.
LEMMA ApplyCapacityInv ==
    ASSUME DispatcherInv, NEW d \in AlertConns, ApplyCapacity(d)
    PROVE  DispatcherInv'
<1>1. /\ cap' = [cap EXCEPT ![d] = local[d]]
      /\ local' = [local EXCEPT ![d] = cap[d]]
      /\ UNCHANGED <<settingVars, currentConn, job, total, skewed, queueVars, closeVars,
                     alertVars, samples>>
  BY DEF ApplyCapacity
<1>2. PICK to : to = IF local[d] = cap[d] THEN "queueing" ELSE "recording"
  OBVIOUS
<1>3. Proceeds(d, "applying", to) /\ to \in Phases
  BY <1>2 DEF ApplyCapacity, Phases
<1>4. DispatcherTypeOK /\ CountersAgree /\ GroupOK(d)
  BY DEF DispatcherInv
<1>5. /\ phase[d] = "applying" /\ phase'[d] = to /\ phase' \in [AlertConns -> Phases]
      /\ \A o \in AlertConns \ {d} : phase'[o] = phase[o]
  BY <1>3, <1>4, PhaseMoves
<1>6. /\ cap \in [AlertConns -> Capacities \cup {0}]
      /\ local \in [AlertConns -> Capacities \cup {0}]
  BY <1>4 DEF DispatcherTypeOK
<1>7. /\ cap' \in [AlertConns -> Capacities \cup {0}]
      /\ local' \in [AlertConns -> Capacities \cup {0}]
      /\ cap'[d] = local[d] /\ local'[d] = cap[d]
      /\ \A o \in AlertConns \ {d} : cap'[o] = cap[o] /\ local'[o] = local[o]
  BY <1>1, <1>6
<1>8. UNCHANGED <<setting, changes, currentConn, job, total, skewed, queue, depth, doing,
                  closed, wg, exited, dropAlert, ending, samples>>
  BY <1>1 DEF settingVars, queueVars, closeVars, alertVars
<1>9. DispatcherTypeOK'
  BY <1>4, <1>5, <1>7, <1>8 DEF DispatcherTypeOK
<1>10. \A o \in AlertConns \ {d} : Same(o)
  BY <1>5, <1>7, <1>8 DEF Same
<1>11. GroupOK(d)'
  <2>1. /\ phase[d] \notin Unmade /\ phase'[d] \notin Unmade /\ phase[d] \in Handing
        /\ phase'[d] # "drained" /\ phase'[d] # "closing"
    BY <1>2, <1>5 DEF Unmade, Handing
  <2> QED
    BY <1>4, <1>8, <2>1 DEF GroupOK, Running, Sending
<1>12. \A o \in AlertConns : GroupOK(o)'
  BY <1>10, <1>11, GroupsStay
<1>13. Shown' = Shown
  <2>1. ASSUME NEW o \in AlertConns
        PROVE  (IF phase'[o] = "recording" THEN local'[o] ELSE cap'[o])
                  = (IF phase[o] = "recording" THEN local[o] ELSE cap[o])
    <3>1. CASE o = d
      BY <1>2, <1>5, <1>7, <3>1
    <3>2. CASE o # d
      BY <1>5, <1>7, <3>2
    <3> QED
      BY <3>1, <3>2
  <2> QED
    BY <2>1 DEF Shown
<1>14. Counted' = Counted
  BY <1>2, <1>5 DEF Counted
<1>15. CountersAgree'
  BY <1>1, <1>4, <1>13, <1>14, HeldStays, TotalStays, CountersMove
<1> QED
  BY <1>9, <1>12, <1>15 DEF DispatcherInv

\* recordDispatcherCapacityChanged: the new capacity is shown.
LEMMA RecordCapacityInv ==
    ASSUME DispatcherInv, NEW d \in AlertConns, RecordCapacity(d)
    PROVE  DispatcherInv'
<1>1. /\ Proceeds(d, "recording", "queueing")
      /\ total' = IF total + cap[d] < local[d] THEN 0 ELSE total + cap[d] - local[d]
      /\ UNCHANGED <<settingVars, currentConn, job, local, cap, skewed, queueVars,
                     closeVars, alertVars, samples>>
  BY DEF RecordCapacity
<1>2. DispatcherTypeOK /\ CountersAgree /\ GroupOK(d)
  BY DEF DispatcherInv
<1>3. /\ phase[d] = "recording" /\ phase'[d] = "queueing" /\ phase' \in [AlertConns -> Phases]
      /\ \A o \in AlertConns \ {d} : phase'[o] = phase[o]
  <2>1. "queueing" \in Phases
    BY DEF Phases
  <2> QED
    BY <1>1, <1>2, <2>1, PhaseMoves
<1>4. UNCHANGED <<setting, changes, currentConn, job, local, cap, skewed, queue, depth,
                  doing, closed, wg, exited, dropAlert, ending, samples>>
  BY <1>1 DEF settingVars, queueVars, closeVars, alertVars
<1>5. total \in Nat /\ cap[d] \in Nat /\ local[d] \in Nat
  BY <1>2, CapacityInUse DEF DispatcherTypeOK
<1>6. total' \in Nat
  BY <1>1, <1>5
<1>7. DispatcherTypeOK'
  BY <1>2, <1>3, <1>4, <1>6 DEF DispatcherTypeOK
<1>8. \A o \in AlertConns \ {d} : Same(o)
  BY <1>3, <1>4 DEF Same
<1>9. GroupOK(d)'
  <2>1. /\ phase[d] \notin Unmade /\ phase'[d] \notin Unmade /\ phase[d] \in Handing
        /\ phase'[d] # "drained" /\ phase'[d] # "closing"
    BY <1>3 DEF Unmade, Handing
  <2> QED
    BY <1>2, <1>4, <2>1 DEF GroupOK, Running, Sending
<1>10. \A o \in AlertConns : GroupOK(o)'
  BY <1>8, <1>9, GroupsStay
<1>11. TotalAgrees'
  <2>1. SUFFICES ASSUME ~skewed PROVE total' = SumFunctionOnSet(Shown', Counted')
    BY <1>4 DEF TotalAgrees
  <2>2. Counted' = Counted /\ d \in Counted
    BY <1>3 DEF Counted
  <2>3. PICK f : f = Shown
    OBVIOUS
  <2>4. PICK h : h = Shown'
    OBVIOUS
  <2>5. PICK S : S = Counted
    OBVIOUS
  <2>6. /\ IsFiniteSet(S) /\ S \subseteq AlertConns /\ \A o \in AlertConns : f[o] \in Nat
    BY <1>2, <2>3, <2>5, CountedFinite
  <2>7. f[d] = local[d] /\ h[d] = cap[d]
    BY <1>3, <1>4, <2>3, <2>4 DEF Shown
  <2>8. \A o \in S \ {d} : h[o] = f[o]
    BY <1>3, <1>4, <2>3, <2>4, <2>6 DEF Shown
  <2>9. \A o \in S : f[o] \in Nat /\ h[o] \in Nat
    BY <1>5, <2>6, <2>7, <2>8
  <2>10. d \in S
    BY <2>2, <2>5
  <2>11. /\ SumFunctionOnSet(f, S) \in Nat /\ SumFunctionOnSet(h, S) \in Nat
         /\ SumFunctionOnSet(f, S) >= f[d]
         /\ SumFunctionOnSet(h, S) = SumFunctionOnSet(f, S) - f[d] + h[d]
    BY <2>6, <2>8, <2>9, <2>10, SumOfUpdate
  <2>12. total = SumFunctionOnSet(f, S)
    BY <1>2, <2>1, <2>3, <2>5 DEF CountersAgree
  <2>13. total' = SumFunctionOnSet(h, S)
    BY <1>1, <1>5, <2>7, <2>11, <2>12
  <2> QED
    BY <2>2, <2>4, <2>5, <2>13
<1>12. CountersAgree'
  BY <1>1, <1>2, <1>11, HeldStays, CountersMove
<1> QED
  BY <1>7, <1>10, <1>12 DEF DispatcherInv

\* A job is added to one queue.
LEMMA QueueJobInv ==
    ASSUME DispatcherInv, NEW d \in AlertConns, QueueJob(d)
    PROVE  DispatcherInv'
<1>1. /\ ~Refuses(d)
      /\ queue' = [queue EXCEPT ![d] = Append(@, job[d])]
      /\ depth' = depth + 1
      /\ UNCHANGED <<settingVars, currentConn, job, local, capacityVars, doing, closeVars,
                     alertVars, samples>>
  BY DEF QueueJob
<1>2. PICK to : to = AfterEnqueue(d)
  OBVIOUS
<1>3. Proceeds(d, "queueing", to) /\ to \in {"leaving", "serving"}
  BY <1>2 DEF QueueJob, AfterEnqueue
<1>4. DispatcherTypeOK /\ CountersAgree /\ GroupOK(d)
  BY DEF DispatcherInv
<1>5. /\ phase[d] = "queueing" /\ phase'[d] = to /\ phase' \in [AlertConns -> Phases]
      /\ \A o \in AlertConns \ {d} : phase'[o] = phase[o]
  <2>1. to \in Phases
    BY <1>3 DEF Phases
  <2> QED
    BY <1>3, <1>4, <2>1, PhaseMoves
<1>6. UNCHANGED <<setting, changes, currentConn, job, local, cap, total, skewed, doing,
                  closed, wg, exited, dropAlert, ending, samples>>
  BY <1>1 DEF settingVars, capacityVars, closeVars, alertVars
<1>7. queue \in [AlertConns -> Seq(Jobs)] /\ depth \in Nat
  BY <1>4 DEF DispatcherTypeOK
<1>8. job[d] \in Jobs
  BY <1>4, <1>5 DEF GroupOK, Handing
<1>9. /\ queue' \in [AlertConns -> Seq(Jobs)] /\ queue'[d] = Append(queue[d], job[d])
      /\ \A o \in AlertConns \ {d} : queue'[o] = queue[o]
  <2>1. Append(queue[d], job[d]) \in Seq(Jobs)
    BY <1>7, <1>8
  <2> QED
    BY <1>1, <1>7, <2>1
<1>10. depth' \in Nat
  BY <1>1, <1>7
<1>11. DispatcherTypeOK'
  BY <1>4, <1>5, <1>6, <1>9, <1>10 DEF DispatcherTypeOK
<1>12. \A o \in AlertConns \ {d} : Same(o)
  BY <1>5, <1>6, <1>9 DEF Same
<1>13. GroupOK(d)'
  <2>1. ~closed[d]
    BY <1>1 DEF Refuses
  <2>2. /\ phase[d] \notin Unmade /\ phase'[d] \notin Unmade /\ phase'[d] \notin Handing
        /\ phase'[d] # "drained" /\ phase'[d] # "closing"
    BY <1>3, <1>5 DEF Unmade, Handing
  <2>3. ~exited[d]
    BY <1>4, <2>1 DEF GroupOK
  <2> QED
    BY <1>4, <1>6, <2>2, <2>3 DEF GroupOK, Running, Sending
<1>14. \A o \in AlertConns : GroupOK(o)'
  BY <1>12, <1>13, GroupsStay
<1>15. (depth = SumFunction(Held))'
  <2>1. PICK n \in Nat : n = Len(queue[d])
    BY <1>7
  <2>2. Len(queue'[d]) = n + 1
    <3>1. PICK q \in Seq(Jobs) : q = queue[d]
      BY <1>7
    <3>2. Len(Append(q, job[d])) = Len(q) + 1
      BY <1>8, <3>1
    <3> QED
      BY <1>9, <2>1, <3>1, <3>2
  <2>3. PICK one \in Nat : one = (IF doing[d] = NoJob THEN 0 ELSE 1)
    OBVIOUS
  <2>4. Held[d] = n + one
    BY <2>1, <2>3 DEF Held
  <2>5. Held'[d] = (n + 1) + one
    <3>1. Held'[d] = Len(queue'[d]) + (IF doing'[d] = NoJob THEN 0 ELSE 1)
      BY DEF Held
    <3> QED
      BY <1>6, <2>2, <2>3, <3>1
  <2>6. SumFunction(Held)' = depth - Held[d] + Held'[d]
    BY <1>4, <1>6, <1>9, <1>11, HeldChanges
  <2> QED
    BY <1>1, <1>7, <2>4, <2>5, <2>6
<1>16. Shown' = Shown
  <2>1. phase[d] # "recording" /\ phase'[d] # "recording"
    BY <1>3, <1>5
  <2> QED
    BY <1>4, <1>5, <1>6, <2>1, ShownStays
<1>17. Counted' = Counted
  BY <1>3, <1>5 DEF Counted
<1>18. CountersAgree'
  BY <1>4, <1>6, <1>15, <1>16, <1>17, TotalStays, CountersMove
<1> QED
  BY <1>11, <1>14, <1>18 DEF DispatcherInv

LEMMA DropJobInv ==
    ASSUME DispatcherInv, NEW d \in AlertConns, DropJob(d)
    PROVE  DispatcherInv'
<1>1. UNCHANGED <<settingVars, currentConn, job, local, capacityVars, queueVars, closeVars,
                  alertVars, samples>>
  BY DEF DropJob
<1>2. PICK from, to : from = "queueing" /\ to = AfterEnqueue(d)
  OBVIOUS
<1>3. Proceeds(d, from, to) /\ to \in {"leaving", "serving"}
  BY <1>2 DEF DropJob, AfterEnqueue
<1>4. GoesOn(from, to) /\ to # "applying"
  BY <1>2, <1>3 DEF GoesOn, Mid
<1>5. /\ currentConn \in AlertConns \cup {0} /\ job \in [AlertConns -> Jobs \cup {NoJob}]
      /\ local \in [AlertConns -> Capacities \cup {0}] /\ samples \in 0..MaxSamples
  BY DEF DispatcherInv, DispatcherTypeOK
<1>6. OnlyHandler(d, to)
  BY <1>1, <1>4, <1>5 DEF OnlyHandler
<1> QED
  BY <1>3, <1>4, <1>6, HandlerMoves

\* A step that leaves jobs and capacities alone.
LEMMA NothingCounted ==
    ASSUME DispatcherTypeOK, CountersAgree, NEW d \in AlertConns,
           UNCHANGED queueVars, UNCHANGED capacityVars,
           \A o \in AlertConns \ {d} : phase'[o] = phase[o] /\ local'[o] = local[o],
           \/ phase'[d] = phase[d] /\ local'[d] = local[d]
           \/ phase[d] \in Mid /\ phase'[d] \in Mid \cup {"closing"}
    PROVE  CountersAgree'
<1>1. UNCHANGED <<cap, total, skewed>>
  BY DEF capacityVars
<1>2. Shown' = Shown
  <2>1. ASSUME NEW o \in AlertConns
        PROVE  (IF phase'[o] = "recording" THEN local'[o] ELSE cap'[o])
                  = (IF phase[o] = "recording" THEN local[o] ELSE cap[o])
    <3>1. CASE o = d
      BY <1>1, <3>1 DEF Mid
    <3>2. CASE o # d
      BY <1>1, <3>2
    <3> QED
      BY <3>1, <3>2
  <2> QED
    BY <2>1 DEF Shown
<1>3. Counted' = Counted
  <2>1. CASE phase'[d] = phase[d]
    BY <2>1 DEF Counted
  <2>2. CASE phase[d] \in Mid /\ phase'[d] \in Mid \cup {"closing"}
    BY <2>2 DEF Counted, Mid
  <2> QED
    BY <2>1, <2>2
<1> QED
  BY <1>1, <1>2, <1>3, HeldStays, TotalStays, CountersMove

\* A drop alert joins the wait group.
LEMMA DropJobWithAlertInv ==
    ASSUME DispatcherInv, NEW d \in AlertConns, DropJobWithAlert(d)
    PROVE  DispatcherInv'
<1>1. /\ ~closed[d] /\ ~dropAlert[d]
      /\ dropAlert' = [dropAlert EXCEPT ![d] = TRUE]
      /\ wg' = [wg EXCEPT ![d] = @ + 1]
      /\ UNCHANGED <<settingVars, currentConn, job, local, capacityVars, queueVars,
                     closed, exited, ending, samples>>
  BY DEF DropJobWithAlert
<1>2. PICK to : to = AfterEnqueue(d)
  OBVIOUS
<1>3. Proceeds(d, "queueing", to) /\ to \in {"leaving", "serving"}
  BY <1>2 DEF DropJobWithAlert, AfterEnqueue
<1>4. DispatcherTypeOK /\ CountersAgree /\ GroupOK(d)
  BY DEF DispatcherInv
<1>5. /\ phase[d] = "queueing" /\ phase'[d] = to /\ phase' \in [AlertConns -> Phases]
      /\ \A o \in AlertConns \ {d} : phase'[o] = phase[o]
  <2>1. to \in Phases
    BY <1>3 DEF Phases
  <2> QED
    BY <1>3, <1>4, <2>1, PhaseMoves
<1>6. UNCHANGED <<setting, changes, currentConn, job, local, cap, total, skewed, queue,
                  depth, doing, closed, exited, ending, samples>>
  BY <1>1 DEF settingVars, capacityVars, queueVars
<1>7. /\ wg \in [AlertConns -> Nat] /\ dropAlert \in [AlertConns -> BOOLEAN]
      /\ ending \in [AlertConns -> Nat]
  BY <1>4 DEF DispatcherTypeOK
<1>8. /\ wg' \in [AlertConns -> Nat] /\ wg'[d] = wg[d] + 1
      /\ \A o \in AlertConns \ {d} : wg'[o] = wg[o]
  BY <1>1, <1>7
<1>9. /\ dropAlert' \in [AlertConns -> BOOLEAN] /\ dropAlert'[d]
      /\ \A o \in AlertConns \ {d} : dropAlert'[o] = dropAlert[o]
  BY <1>1, <1>7
<1>10. DispatcherTypeOK'
  BY <1>4, <1>5, <1>6, <1>8, <1>9 DEF DispatcherTypeOK
<1>11. \A o \in AlertConns \ {d} : Same(o)
  BY <1>5, <1>6, <1>8, <1>9 DEF Same
<1>12. GroupOK(d)'
  <2>1. /\ phase[d] \notin Unmade /\ phase'[d] \notin Unmade /\ phase'[d] \notin Handing
        /\ phase'[d] # "drained" /\ phase'[d] # "closing"
    BY <1>3, <1>5 DEF Unmade, Handing
  <2>2. ~exited[d]
    BY <1>1, <1>4 DEF GroupOK
  <2>3. Running(d) = 1 /\ Running(d)' = 1 /\ Sending(d) = 0 /\ Sending(d)' = 1
    BY <1>1, <1>6, <1>9, <2>1, <2>2 DEF Running, Sending
  <2>4. wg[d] = 1 + ending[d] /\ ending[d] \in Nat
    BY <1>4, <1>7, <2>3 DEF GroupOK
  <2>5. wg'[d] = Running(d)' + Sending(d)' + ending'[d]
    BY <1>6, <1>8, <2>3, <2>4
  <2> QED
    BY <1>6, <2>1, <2>2, <2>5 DEF GroupOK
<1>13. \A o \in AlertConns : GroupOK(o)'
  BY <1>11, <1>12, GroupsStay
<1>14. CountersAgree'
  <2>1. phase[d] \in Mid /\ phase'[d] \in Mid \cup {"closing"}
    BY <1>3, <1>5 DEF Mid
  <2>2. UNCHANGED queueVars /\ UNCHANGED capacityVars
    BY <1>1
  <2>3. \A o \in AlertConns \ {d} : phase'[o] = phase[o] /\ local'[o] = local[o]
    BY <1>5, <1>6
  <2> QED
    BY <1>4, <2>1, <2>2, <2>3, NothingCounted
<1> QED
  BY <1>10, <1>13, <1>14 DEF DispatcherInv

LEMMA CloseDispatcherInv ==
    ASSUME DispatcherInv, NEW d \in AlertConns, CloseDispatcher(d)
    PROVE  DispatcherInv'
<1>1. /\ Proceeds(d, "leaving", "closing")
      /\ closed' = [closed EXCEPT ![d] = TRUE]
      /\ local' = [local EXCEPT ![d] = cap[d]]
      /\ UNCHANGED <<settingVars, currentConn, job, capacityVars, queueVars, wg, exited,
                     alertVars, samples>>
  BY DEF CloseDispatcher
<1>2. DispatcherTypeOK /\ CountersAgree /\ GroupOK(d)
  BY DEF DispatcherInv
<1>3. /\ phase[d] = "leaving" /\ phase'[d] = "closing" /\ phase' \in [AlertConns -> Phases]
      /\ \A o \in AlertConns \ {d} : phase'[o] = phase[o]
  <2>1. "closing" \in Phases
    BY DEF Phases
  <2> QED
    BY <1>1, <1>2, <2>1, PhaseMoves
<1>4. UNCHANGED <<setting, changes, currentConn, job, cap, total, skewed, queue,
                  depth, doing, wg, exited, dropAlert, ending, samples>>
  BY <1>1 DEF settingVars, capacityVars, queueVars, alertVars
<1>5. /\ local \in [AlertConns -> Capacities \cup {0}] /\ closed \in [AlertConns -> BOOLEAN]
      /\ cap[d] \in Capacities \cup {0}
  BY <1>2 DEF DispatcherTypeOK
<1>6. /\ local' \in [AlertConns -> Capacities \cup {0}] /\ local'[d] = cap[d]
      /\ \A o \in AlertConns \ {d} : local'[o] = local[o]
  BY <1>1, <1>5
<1>7. /\ closed' \in [AlertConns -> BOOLEAN] /\ closed'[d]
      /\ \A o \in AlertConns \ {d} : closed'[o] = closed[o]
  BY <1>1, <1>5
<1>8. DispatcherTypeOK'
  BY <1>2, <1>3, <1>4, <1>6, <1>7 DEF DispatcherTypeOK
<1>9. \A o \in AlertConns \ {d} : Same(o)
  BY <1>3, <1>4, <1>6, <1>7 DEF Same
<1>10. GroupOK(d)'
  <2>1. /\ phase[d] \notin Unmade /\ phase'[d] \notin Unmade /\ phase'[d] \notin Handing
        /\ phase'[d] # "drained"
    BY <1>3 DEF Unmade, Handing
  <2>2. Running(d)' = Running(d) /\ Sending(d)' = Sending(d)
    BY <1>4, <2>1 DEF Running, Sending
  <2> QED
    BY <1>2, <1>4, <1>6, <1>7, <2>1, <2>2 DEF GroupOK
<1>11. \A o \in AlertConns : GroupOK(o)'
  BY <1>9, <1>10, GroupsStay
<1>12. CountersAgree'
  <2>1. phase[d] \in Mid /\ phase'[d] \in Mid \cup {"closing"}
    BY <1>3 DEF Mid
  <2>2. UNCHANGED queueVars /\ UNCHANGED capacityVars
    BY <1>1
  <2>3. \A o \in AlertConns \ {d} : phase'[o] = phase[o] /\ local'[o] = local[o]
    BY <1>3, <1>6
  <2> QED
    BY <1>2, <2>1, <2>2, <2>3, NothingCounted
<1> QED
  BY <1>8, <1>11, <1>12 DEF DispatcherInv

\* Close takes the capacity it read out of the statistics again.
LEMMA CloseReturnsInv ==
    ASSUME DispatcherInv, NEW d \in AlertConns, CloseReturns(d)
    PROVE  DispatcherInv'
<1>1. /\ \/ wg[d] = 0 /\ Proceeds(d, "closing", "drained")
         \/ Proceeds(d, "closing", "abandoned")
      /\ total' = IF total >= local[d] THEN total - local[d] ELSE 0
      /\ UNCHANGED <<settingVars, currentConn, job, local, cap, skewed, queueVars, closeVars,
                     alertVars, samples>>
  BY DEF CloseReturns
<1>2. PICK to \in {"drained", "abandoned"} :
         Proceeds(d, "closing", to) /\ (to = "drained" => wg[d] = 0)
  BY <1>1
<1>3. DispatcherTypeOK /\ CountersAgree /\ GroupOK(d)
  BY DEF DispatcherInv
<1>4. /\ phase[d] = "closing" /\ phase'[d] = to /\ phase' \in [AlertConns -> Phases]
      /\ \A o \in AlertConns \ {d} : phase'[o] = phase[o]
  <2>1. to \in Phases
    BY DEF Phases
  <2> QED
    BY <1>2, <1>3, <2>1, PhaseMoves
<1>5. UNCHANGED <<setting, changes, currentConn, job, local, cap, skewed, queue,
                  depth, doing, closed, wg, exited, dropAlert, ending, samples>>
  BY <1>1 DEF settingVars, queueVars, closeVars, alertVars
<1>6. total \in Nat /\ local[d] \in Nat /\ local[d] = cap[d]
  BY <1>3, <1>4, CapacityInUse DEF DispatcherTypeOK, GroupOK
<1>7. total' \in Nat
  BY <1>1, <1>6
<1>8. DispatcherTypeOK'
  BY <1>3, <1>4, <1>5, <1>7 DEF DispatcherTypeOK
<1>9. \A o \in AlertConns \ {d} : Same(o)
  BY <1>4, <1>5 DEF Same
<1>10. GroupOK(d)'
  <2>1. /\ phase[d] \notin Unmade /\ phase'[d] \notin Unmade /\ phase'[d] \notin Handing
        /\ phase'[d] # "closing"
    BY <1>4 DEF Unmade, Handing
  <2>2. Running(d)' = Running(d) /\ Sending(d)' = Sending(d)
    BY <1>5, <2>1 DEF Running, Sending
  <2> QED
    BY <1>2, <1>3, <1>4, <1>5, <2>1, <2>2 DEF GroupOK
<1>11. \A o \in AlertConns : GroupOK(o)'
  BY <1>9, <1>10, GroupsStay
<1>12. TotalAgrees'
  <2>1. SUFFICES ASSUME ~skewed PROVE total' = SumFunctionOnSet(Shown', Counted')
    BY <1>5 DEF TotalAgrees
  <2>2. Counted' = Counted \ {d} /\ d \in Counted
    BY <1>4 DEF Counted
  <2>3. PICK f : f = Shown
    OBVIOUS
  <2>4. Shown' = f
    <3>1. phase[d] # "recording" /\ phase'[d] # "recording"
      BY <1>4
    <3> QED
      BY <1>3, <1>4, <1>5, <2>3, <3>1, ShownStays
  <2>5. PICK S : S = Counted
    OBVIOUS
  <2>6. IsFiniteSet(S) /\ S \subseteq AlertConns /\ \A o \in AlertConns : f[o] \in Nat
    BY <1>3, <2>3, <2>5, CountedFinite
  <2>7. f[d] = cap[d]
    BY <1>4, <2>3 DEF Shown
  <2>8. /\ SumFunctionOnSet(f, S) = f[d] + SumFunctionOnSet(f, S \ {d})
        /\ SumFunctionOnSet(f, S \ {d}) \in Nat
    <3>1. d \in S /\ \A o \in S : f[o] \in Nat
      BY <2>2, <2>5, <2>6
    <3> QED
      BY <2>6, <3>1, SumWithout
  <2>9. total = SumFunctionOnSet(f, S)
    BY <1>3, <2>1, <2>3, <2>5 DEF CountersAgree
  <2>10. total' = SumFunctionOnSet(f, S \ {d})
    BY <1>1, <1>6, <2>7, <2>8, <2>9
  <2> QED
    BY <2>2, <2>4, <2>5, <2>10
<1>13. CountersAgree'
  BY <1>1, <1>3, <1>12, HeldStays, CountersMove
<1> QED
  BY <1>8, <1>11, <1>13 DEF DispatcherInv

(***************************************************************************)
(* The steps of the goroutines.                                            *)
(***************************************************************************)

\* A drop alert that was sent is still in the wait group.
LEMMA FinishDropAlertInv ==
    ASSUME DispatcherInv, NEW d \in AlertConns, FinishDropAlert(d)
    PROVE  DispatcherInv'
<1>1. /\ dropAlert[d]
      /\ dropAlert' = [dropAlert EXCEPT ![d] = FALSE]
      /\ ending' = [ending EXCEPT ![d] = @ + 1]
      /\ UNCHANGED <<settingVars, handlerVars, capacityVars, queueVars, closeVars, samples>>
  BY DEF FinishDropAlert
<1>2. DispatcherTypeOK /\ CountersAgree /\ GroupOK(d)
  BY DEF DispatcherInv
<1>3. UNCHANGED <<setting, changes, phase, currentConn, job, local, cap, total, skewed,
                  queue, depth, doing, closed, wg, exited, samples>>
  BY <1>1 DEF settingVars, handlerVars, capacityVars, queueVars, closeVars
<1>4. dropAlert \in [AlertConns -> BOOLEAN] /\ ending \in [AlertConns -> Nat]
  BY <1>2 DEF DispatcherTypeOK
<1>5. /\ dropAlert' \in [AlertConns -> BOOLEAN] /\ ~dropAlert'[d]
      /\ \A o \in AlertConns \ {d} : dropAlert'[o] = dropAlert[o]
  BY <1>1, <1>4
<1>6. /\ ending' \in [AlertConns -> Nat] /\ ending'[d] = ending[d] + 1
      /\ \A o \in AlertConns \ {d} : ending'[o] = ending[o]
  BY <1>1, <1>4
<1>7. DispatcherTypeOK'
  BY <1>2, <1>3, <1>5, <1>6 DEF DispatcherTypeOK
<1>8. \A o \in AlertConns \ {d} : Same(o)
  BY <1>3, <1>5, <1>6 DEF Same
<1>9. GroupOK(d)'
  <2>1. PICK r \in Nat : r = Running(d)
    BY DEF Running
  <2>2. Running(d)' = r /\ Sending(d) = 1 /\ Sending(d)' = 0
    BY <1>1, <1>3, <1>5, <2>1 DEF Running, Sending
  <2>3. wg[d] = r + 1 + ending[d] /\ ending[d] \in Nat
    BY <1>2, <1>4, <2>1, <2>2 DEF GroupOK
  <2>4. wg'[d] = Running(d)' + Sending(d)' + ending'[d]
    BY <1>3, <1>6, <2>2, <2>3
  <2>5. phase[d] \notin Unmade
    BY <1>1, <1>2 DEF GroupOK
  <2> QED
    BY <1>2, <1>3, <2>4, <2>5 DEF GroupOK
<1>10. \A o \in AlertConns : GroupOK(o)'
  BY <1>8, <1>9, GroupsStay
<1>11. CountersAgree'
  <2>1. /\ UNCHANGED queueVars /\ UNCHANGED capacityVars
        /\ \A o \in AlertConns : phase'[o] = phase[o] /\ local'[o] = local[o]
    BY <1>1, <1>3
  <2> QED
    BY <1>2, <2>1, NothingCounted
<1> QED
  BY <1>7, <1>10, <1>11 DEF DispatcherInv

LEMMA DropAlertDoneInv ==
    ASSUME DispatcherInv, NEW d \in AlertConns, DropAlertDone(d)
    PROVE  DispatcherInv'
<1>1. /\ ending[d] > 0
      /\ ending' = [ending EXCEPT ![d] = @ - 1]
      /\ wg' = [wg EXCEPT ![d] = @ - 1]
      /\ UNCHANGED <<settingVars, handlerVars, capacityVars, queueVars, closed, exited,
                     dropAlert, samples>>
  BY DEF DropAlertDone
<1>2. DispatcherTypeOK /\ CountersAgree /\ GroupOK(d)
  BY DEF DispatcherInv
<1>3. UNCHANGED <<setting, changes, phase, currentConn, job, local, cap, total, skewed,
                  queue, depth, doing, closed, exited, dropAlert, samples>>
  BY <1>1 DEF settingVars, handlerVars, capacityVars, queueVars
<1>4. /\ wg \in [AlertConns -> Nat] /\ ending \in [AlertConns -> Nat]
  BY <1>2 DEF DispatcherTypeOK
<1>5. PICK r \in Nat : r = Running(d)
  BY DEF Running
<1>6. PICK s \in Nat : s = Sending(d)
  BY DEF Sending
<1>7. Running(d)' = r /\ Sending(d)' = s
  BY <1>3, <1>5, <1>6 DEF Running, Sending
<1>8. wg[d] = r + s + ending[d] /\ ending[d] \in Nat /\ wg[d] \in Nat
  BY <1>2, <1>4, <1>5, <1>6 DEF GroupOK
<1>9. wg[d] - 1 \in Nat /\ ending[d] - 1 \in Nat
  BY <1>1, <1>8
<1>10. /\ wg' \in [AlertConns -> Nat] /\ wg'[d] = wg[d] - 1
       /\ \A o \in AlertConns \ {d} : wg'[o] = wg[o]
  BY <1>1, <1>4, <1>9
<1>11. /\ ending' \in [AlertConns -> Nat] /\ ending'[d] = ending[d] - 1
       /\ \A o \in AlertConns \ {d} : ending'[o] = ending[o]
  BY <1>1, <1>4, <1>9
<1>12. DispatcherTypeOK'
  BY <1>2, <1>3, <1>10, <1>11 DEF DispatcherTypeOK
<1>13. \A o \in AlertConns \ {d} : Same(o)
  BY <1>3, <1>10, <1>11 DEF Same
<1>14. GroupOK(d)'
  <2>1. wg'[d] = Running(d)' + Sending(d)' + ending'[d]
    BY <1>7, <1>8, <1>10, <1>11
  <2>2. phase[d] # "drained" /\ phase[d] \notin Unmade
    BY <1>1, <1>2, <1>8 DEF GroupOK
  <2> QED
    BY <1>2, <1>3, <2>1, <2>2 DEF GroupOK
<1>15. \A o \in AlertConns : GroupOK(o)'
  BY <1>13, <1>14, GroupsStay
<1>16. CountersAgree'
  <2>1. /\ UNCHANGED queueVars /\ UNCHANGED capacityVars
        /\ \A o \in AlertConns : phase'[o] = phase[o] /\ local'[o] = local[o]
    BY <1>1, <1>3
  <2> QED
    BY <1>2, <2>1, NothingCounted
<1> QED
  BY <1>12, <1>15, <1>16 DEF DispatcherInv

\* The worker leaves the wait group when nothing is queued.
LEMMA WorkerExitsInv ==
    ASSUME DispatcherInv, NEW d \in AlertConns, WorkerExits(d)
    PROVE  DispatcherInv'
<1>1. /\ doing[d] = NoJob /\ ~exited[d] /\ queue[d] = <<>> /\ closed[d]
      /\ exited' = [exited EXCEPT ![d] = TRUE]
      /\ wg' = [wg EXCEPT ![d] = @ - 1]
      /\ UNCHANGED <<settingVars, handlerVars, capacityVars, queueVars, closed, alertVars,
                     samples>>
  BY DEF WorkerExits, DequeueEnds
<1>2. DispatcherTypeOK /\ CountersAgree /\ GroupOK(d)
  BY DEF DispatcherInv
<1>3. UNCHANGED <<setting, changes, phase, currentConn, job, local, cap, total, skewed,
                  queue, depth, doing, closed, dropAlert, ending, samples>>
  BY <1>1 DEF settingVars, handlerVars, capacityVars, queueVars, alertVars
<1>4. /\ wg \in [AlertConns -> Nat] /\ ending \in [AlertConns -> Nat]
      /\ exited \in [AlertConns -> BOOLEAN]
  BY <1>2 DEF DispatcherTypeOK
<1>5. phase[d] \notin Unmade
  BY <1>1, <1>2 DEF GroupOK
<1>6. PICK s \in Nat : s = Sending(d)
  BY DEF Sending
<1>7. exited' \in [AlertConns -> BOOLEAN] /\ exited'[d]
  BY <1>1, <1>4
<1>8. \A o \in AlertConns \ {d} : exited'[o] = exited[o]
  BY <1>1, <1>4
<1>9. Running(d) = 1 /\ Running(d)' = 0 /\ Sending(d)' = s
  BY <1>1, <1>3, <1>5, <1>6, <1>7 DEF Running, Sending
<1>10. wg[d] = 1 + s + ending[d] /\ ending[d] \in Nat /\ wg[d] \in Nat
  BY <1>2, <1>4, <1>6, <1>9 DEF GroupOK
<1>11. wg[d] - 1 \in Nat
  BY <1>10
<1>12. /\ wg' \in [AlertConns -> Nat] /\ wg'[d] = wg[d] - 1
       /\ \A o \in AlertConns \ {d} : wg'[o] = wg[o]
  BY <1>1, <1>4, <1>11
<1>13. DispatcherTypeOK'
  BY <1>2, <1>3, <1>7, <1>12 DEF DispatcherTypeOK
<1>14. \A o \in AlertConns \ {d} : Same(o)
  BY <1>3, <1>8, <1>12 DEF Same
<1>15. GroupOK(d)'
  <2>1. wg'[d] = Running(d)' + Sending(d)' + ending'[d]
    BY <1>3, <1>9, <1>10, <1>12
  <2>2. phase[d] # "drained"
    BY <1>2, <1>10 DEF GroupOK
  <2> QED
    BY <1>1, <1>2, <1>3, <1>5, <2>1, <2>2 DEF GroupOK
<1>16. \A o \in AlertConns : GroupOK(o)'
  BY <1>14, <1>15, GroupsStay
<1>17. CountersAgree'
  <2>1. /\ UNCHANGED queueVars /\ UNCHANGED capacityVars
        /\ \A o \in AlertConns : phase'[o] = phase[o] /\ local'[o] = local[o]
    BY <1>1, <1>3
  <2> QED
    BY <1>2, <2>1, NothingCounted
<1> QED
  BY <1>13, <1>16, <1>17 DEF DispatcherInv

\* A job that is taken is still counted, as the one being evaluated.
LEMMA DequeueInv ==
    ASSUME DispatcherInv, NEW d \in AlertConns, Dequeue(d)
    PROVE  DispatcherInv'
<1>1. /\ doing[d] = NoJob /\ ~exited[d] /\ queue[d] # <<>>
      /\ doing' = [doing EXCEPT ![d] = Head(queue[d])]
      /\ queue' = [queue EXCEPT ![d] = Tail(@)]
      /\ UNCHANGED <<settingVars, handlerVars, capacityVars, depth, closeVars, alertVars,
                     samples>>
  BY DEF Dequeue
<1>2. DispatcherTypeOK /\ CountersAgree /\ GroupOK(d)
  BY DEF DispatcherInv
<1>3. UNCHANGED <<setting, changes, phase, currentConn, job, local, cap, total, skewed,
                  depth, closed, wg, exited, dropAlert, ending, samples>>
  BY <1>1 DEF settingVars, handlerVars, capacityVars, closeVars, alertVars
<1>4. /\ queue \in [AlertConns -> Seq(Jobs)] /\ depth \in Nat
      /\ doing \in [AlertConns -> Jobs \cup {NoJob}]
  BY <1>2 DEF DispatcherTypeOK
<1>5. queue[d] \in Seq(Jobs) /\ Head(queue[d]) \in Jobs /\ Tail(queue[d]) \in Seq(Jobs)
  BY <1>1, <1>4
<1>6. /\ queue' \in [AlertConns -> Seq(Jobs)] /\ queue'[d] = Tail(queue[d])
      /\ doing' \in [AlertConns -> Jobs \cup {NoJob}] /\ doing'[d] = Head(queue[d])
      /\ \A o \in AlertConns \ {d} : queue'[o] = queue[o] /\ doing'[o] = doing[o]
  BY <1>1, <1>4, <1>5
<1>7. DispatcherTypeOK'
  BY <1>2, <1>3, <1>6 DEF DispatcherTypeOK
<1>8. \A o \in AlertConns \ {d} : Same(o)
  BY <1>3, <1>6 DEF Same
<1>9. GroupOK(d)'
  <2>1. phase[d] \notin Unmade
    BY <1>1, <1>2 DEF GroupOK
  <2>2. Running(d)' = Running(d) /\ Sending(d)' = Sending(d)
    BY <1>3 DEF Running, Sending
  <2> QED
    BY <1>1, <1>2, <1>3, <2>1, <2>2 DEF GroupOK
<1>10. \A o \in AlertConns : GroupOK(o)'
  BY <1>8, <1>9, GroupsStay
<1>11. (depth = SumFunction(Held))'
  <2>1. PICK n \in Nat : n = Len(queue[d])
    BY <1>4
  <2>2. Held[d] = n + 0
    BY <1>1, <2>1 DEF Held
  <2>3. Len(queue'[d]) = n - 1
    <3>1. PICK q \in Seq(Jobs) : q = queue[d]
      BY <1>5
    <3>2. Len(Tail(q)) = Len(q) - 1
      BY <1>1, <3>1
    <3> QED
      BY <1>6, <2>1, <3>1, <3>2
  <2>4. Held'[d] = (n - 1) + 1
    <3>1. doing'[d] # NoJob
      BY <1>5, <1>6 DEF Jobs, NoJob
    <3>2. Held'[d] = Len(queue'[d]) + (IF doing'[d] = NoJob THEN 0 ELSE 1)
      BY DEF Held
    <3> QED
      BY <2>3, <3>1, <3>2
  <2>5. SumFunction(Held)' = depth - Held[d] + Held'[d]
    BY <1>2, <1>6, <1>7, HeldChanges
  <2> QED
    BY <1>3, <1>4, <2>1, <2>2, <2>4, <2>5
<1>12. Shown' = Shown /\ Counted' = Counted
  BY <1>3 DEF Shown, Counted
<1>13. CountersAgree'
  BY <1>2, <1>3, <1>11, <1>12, TotalStays, CountersMove
<1> QED
  BY <1>7, <1>10, <1>13 DEF DispatcherInv

LEMMA FinishJobInv ==
    ASSUME DispatcherInv, NEW d \in AlertConns, FinishJob(d)
    PROVE  DispatcherInv'
<1>1. /\ doing[d] # NoJob
      /\ doing' = [doing EXCEPT ![d] = NoJob]
      /\ depth' = DepthAfter(d)
      /\ UNCHANGED <<settingVars, handlerVars, capacityVars, queue, closeVars, alertVars,
                     samples>>
  BY DEF FinishJob
<1>2. DispatcherTypeOK /\ CountersAgree /\ GroupOK(d)
  BY DEF DispatcherInv
<1>3. UNCHANGED <<setting, changes, phase, currentConn, job, local, cap, total, skewed,
                  queue, closed, wg, exited, dropAlert, ending, samples>>
  BY <1>1 DEF settingVars, handlerVars, capacityVars, closeVars, alertVars
<1>4. /\ queue \in [AlertConns -> Seq(Jobs)] /\ depth \in Nat
      /\ doing \in [AlertConns -> Jobs \cup {NoJob}]
  BY <1>2 DEF DispatcherTypeOK
<1>5. depth' \in Nat
  BY <1>1, <1>4 DEF DepthAfter
<1>6. /\ doing' \in [AlertConns -> Jobs \cup {NoJob}] /\ doing'[d] = NoJob
      /\ \A o \in AlertConns \ {d} : doing'[o] = doing[o]
  BY <1>1, <1>4
<1>7. DispatcherTypeOK'
  BY <1>2, <1>3, <1>5, <1>6 DEF DispatcherTypeOK
<1>8. \A o \in AlertConns \ {d} : Same(o)
  BY <1>3, <1>6 DEF Same
<1>9. GroupOK(d)'
  <2>1. Running(d)' = Running(d) /\ Sending(d)' = Sending(d)
    BY <1>3 DEF Running, Sending
  <2> QED
    BY <1>2, <1>3, <1>6, <2>1 DEF GroupOK
<1>10. \A o \in AlertConns : GroupOK(o)'
  BY <1>8, <1>9, GroupsStay
<1>11. (depth = SumFunction(Held))'
  <2>1. PICK n \in Nat : n = Len(queue[d])
    BY <1>4
  <2>2. Held[d] = n + 1 /\ Held'[d] = n + 0
    BY <1>1, <1>3, <1>6, <2>1 DEF Held
  <2>3. depth >= Held[d] /\ SumFunction(Held)' = depth - Held[d] + Held'[d]
    BY <1>2, <1>3, <1>6, <1>7, HeldChanges
  <2> QED
    BY <1>1, <1>4, <2>1, <2>2, <2>3 DEF DepthAfter
<1>12. Shown' = Shown /\ Counted' = Counted
  BY <1>3 DEF Shown, Counted
<1>13. CountersAgree'
  BY <1>2, <1>3, <1>11, <1>12, TotalStays, CountersMove
<1> QED
  BY <1>7, <1>10, <1>13 DEF DispatcherInv

LEMMA DispatcherStep == DispatcherInv /\ [DispatcherNext]_dispatcherVars => DispatcherInv'
<1> SUFFICES ASSUME DispatcherInv, [DispatcherNext]_dispatcherVars PROVE DispatcherInv'
  OBVIOUS
<1>1. CASE ChangeCapacity
  BY <1>1, ChangeCapacityInv
<1>2. ASSUME NEW d \in AlertConns, NewDispatcher(d) \/ Connection(d) PROVE DispatcherInv'
  BY <1>2, ReadCapacityInv, CreateInv, ConnectionInv DEF NewDispatcher
<1>3. ASSUME NEW d \in AlertConns, Enqueue(d) PROVE DispatcherInv'
  BY <1>3, ApplyCapacityInv, RecordCapacityInv, QueueJobInv, DropJobInv,
     DropJobWithAlertInv DEF Enqueue
<1>4. ASSUME NEW d \in AlertConns, Close(d) PROVE DispatcherInv'
  BY <1>4, CloseDispatcherInv, CloseReturnsInv DEF Close
<1>5. ASSUME NEW d \in AlertConns, Worker(d) PROVE DispatcherInv'
  BY <1>5, DequeueInv, FinishJobInv, WorkerExitsInv DEF Worker
<1>6. ASSUME NEW d \in AlertConns, DropAlert(d) PROVE DispatcherInv'
  BY <1>6, FinishDropAlertInv, DropAlertDoneInv DEF DropAlert
<1>7. CASE UNCHANGED dispatcherVars
  <2>1. /\ UNCHANGED <<setting, changes, phase, currentConn, job, local, cap, total, skewed,
                       queue, depth, doing, closed, wg, exited, dropAlert, ending, samples>>
        /\ UNCHANGED queueVars
    BY <1>7 DEF dispatcherVars, settingVars, handlerVars, capacityVars, queueVars, closeVars,
                alertVars
  <2>2. DispatcherTypeOK'
    BY <2>1 DEF DispatcherInv, DispatcherTypeOK
  <2>3. \A o \in AlertConns : GroupOK(o)'
    BY <2>1, GroupStays DEF DispatcherInv, Same
  <2>4. Shown' = Shown /\ Counted' = Counted
    BY <2>1 DEF Shown, Counted
  <2>5. CountersAgree'
    BY <2>1, <2>4, HeldStays, TotalStays, CountersMove DEF DispatcherInv
  <2> QED
    BY <2>2, <2>3, <2>5 DEF DispatcherInv
<1> QED
  BY <1>1, <1>2, <1>3, <1>4, <1>5, <1>6, <1>7 DEF DispatcherNext

LEMMA DispatcherInvariant == DispatcherSpec => []DispatcherInv
BY DispatcherInitInv, DispatcherStep, PTL DEF DispatcherSpec

\* The dispatchers' queues, phases and statistics keep their types: the totals
\* and the wait groups never go below zero (recordDispatcherCapacityChanged,
\* recordDispatcherProcessed, run).
THEOREM DispatcherTypeCorrect == DispatcherSpec => []DispatcherTypeOK
<1>1. DispatcherInv => DispatcherTypeOK
  BY DEF DispatcherInv
<1> QED
  BY DispatcherInvariant, <1>1, PTL

\* When Close returned without a timeout the worker has returned from an empty
\* queue and no drop alert is left, however many connections a node has: the
\* wait group counts them all at every moment (Close, run, enqueue).
THEOREM CloseWaitsForAll == DispatcherSpec => []CloseWaits
<1>1. DispatcherInv => CloseWaits
  <2> SUFFICES ASSUME DispatcherInv, NEW d \in AlertConns, phase[d] = "drained"
               PROVE  /\ queue[d] = <<>> /\ doing[d] = NoJob /\ exited[d]
                      /\ ~dropAlert[d] /\ ending[d] = 0
    BY DEF CloseWaits
  <2>1. GroupOK(d) /\ wg[d] \in Nat /\ ending[d] \in Nat
    BY DEF DispatcherInv, DispatcherTypeOK
  <2>2. PICK r \in {0, 1} : r = Running(d)
    BY DEF Running
  <2>3. PICK s \in {0, 1} : s = Sending(d)
    BY DEF Sending
  <2>4. r + s + ending[d] = 0
    BY <2>1, <2>2, <2>3 DEF GroupOK
  <2>5. r = 0 /\ s = 0 /\ ending[d] = 0
    BY <2>1, <2>4
  <2>6. exited[d] /\ ~dropAlert[d]
    BY <2>2, <2>3, <2>5 DEF Running, Sending, Unmade
  <2> QED
    BY <2>1, <2>5, <2>6 DEF GroupOK
<1> QED
  BY DispatcherInvariant, <1>1, PTL

\* The depth and the capacity on the settings page are those of the dispatchers,
\* however many connect, close or are turned away, but for what a NewDispatcher
\* that reads two different capacities leaves behind (the counters of dispatcher.go).
THEOREM StatisticsAgree == DispatcherSpec => []CountersAgree
<1>1. DispatcherInv => CountersAgree
  BY DEF DispatcherInv
<1> QED
  BY DispatcherInvariant, <1>1, PTL

(***************************************************************************)
(* LatencyConfig                                                           *)
(***************************************************************************)

LatencySteps ==
    {"idle", "updating", "registered", "assigning", "sync", "listed", "initial", "written"}

\* A sender with a list in its hands.
Carrying(t) == sending[t] \in {"listed", "written"}

\* The agent will get that list.
Reaches(t) == sending[t] = "listed" \/ (sending[t] = "written" /\ t = link)

\* A sender that will list the monitors for the connected agent.
Preparing(t) ==
    \/ sending[t] \in {"sync", "registered", "assigning"}
    \/ sending[t] = "initial" /\ t = link

LatencyTypes ==
    /\ LatencyTypeOK
    /\ list \in [Senders -> SUBSET (Monitors \X Monitor)]

\* An agent connects after its node is registered and told, and only the
\* handlers of its connections send an initial configuration.
LinksInOrder ==
    /\ link <= links
    /\ \A t \in Senders : sending[t] \in {"initial", "written"} => t \in Links
    /\ ~known => links = 0
    /\ \A t \in Senders : sending[t] \in {"registered", "assigning"} => known /\ links = 0
    /\ links = 0 => families = {}

OneList == ~raced => \A t, o \in Senders : Carrying(t) /\ Carrying(o) => t = o

\* Unless lists overlapped or one was lost, the connected agent has what is
\* assigned, or a list of that is on its way, or will be made.
ConfigUnderWay ==
    link # 0 /\ ~raced /\ ~lost =>
        \/ \E t \in Senders : Preparing(t)
        \/ \E t \in Senders : Reaches(t) /\ list[t] = Listed
        \/ config = Listed /\ \A t \in Senders : ~Reaches(t)

LatencyInv ==
    /\ LatencyTypes
    /\ LinksInOrder
    /\ OneList
    /\ ConfigUnderWay
    /\ AssignmentsFollowFamilies

LEMMA NoMonitorIsMonitor == NoMonitor \in Monitor /\ NoMonitor.auto = FALSE
BY LatencyAssumption DEF NoMonitor, Monitor

LEMMA LatencyInitInv == LatencyInit => LatencyInv
<1> SUFFICES ASSUME LatencyInit PROVE LatencyInv
  OBVIOUS
<1>1. known \in BOOLEAN /\ raced \in BOOLEAN /\ lost \in BOOLEAN /\ blank \in BOOLEAN
  BY Zenon DEF LatencyInit
<1>2. monitors \in [Monitors -> Monitor]
  BY NoMonitorIsMonitor DEF LatencyInit
<1>3. /\ families \subseteq Families /\ ip \in Families \cup {"none"}
      /\ used \subseteq Monitors /\ assigned \subseteq Monitors /\ excluded \subseteq Monitors
      /\ link \in Links \cup {0} /\ links \in Links \cup {0}
      /\ config \subseteq Monitors \X Monitor
  BY DEF LatencyInit
<1>4. edits \in 0..MaxEdits
  BY LatencyAssumption DEF LatencyInit
<1>5. /\ sending \in [Senders -> LatencySteps]
      /\ \A t \in Senders : sending[t] = "idle"
      /\ list \in [Senders -> SUBSET (Monitors \X Monitor)]
  BY DEF LatencyInit, LatencySteps
<1>6. LatencyTypes
  BY <1>1, <1>2, <1>3, <1>4, <1>5 DEF LatencyTypes, LatencyTypeOK, LatencySteps
<1>7. LinksInOrder
  BY <1>5 DEF LatencyInit, LinksInOrder
<1>8. OneList /\ ConfigUnderWay
  BY <1>5 DEF LatencyInit, OneList, ConfigUnderWay, Carrying
<1>9. AssignmentsFollowFamilies
  BY DEF LatencyInit, AssignmentsFollowFamilies
<1> QED
  BY <1>6, <1>7, <1>8, <1>9 DEF LatencyInv

\* What a sender lists are monitors.
LEMMA ListedType ==
    ASSUME LatencyTypes
    PROVE  Listed \subseteq Monitors \X Monitor
BY DEF LatencyTypes, LatencyTypeOK, Listed

\* A sender's step, and what it leaves to the others.
LEMMA MovesType ==
    ASSUME LatencyTypes, NEW t \in Senders, NEW a, NEW b \in LatencySteps, Moves(t, a, b)
    PROVE  /\ sending' \in [Senders -> LatencySteps]
           /\ sending[t] = a /\ sending'[t] = b
           /\ \A o \in Senders \ {t} : sending'[o] = sending[o]
BY DEF Moves, LatencyTypes, LatencyTypeOK, LatencySteps

\* A sender's list, and what it leaves to the others.
LEMMA ListType ==
    ASSUME LatencyTypes, NEW t \in Senders, NEW s \in SUBSET (Monitors \X Monitor),
           list' = [list EXCEPT ![t] = s]
    PROVE  /\ list' \in [Senders -> SUBSET (Monitors \X Monitor)]
           /\ list'[t] = s
           /\ \A o \in Senders \ {t} : list'[o] = list[o]
BY DEF LatencyTypes

\* A request commits a change of the monitors and is about to send, or the
\* change is lost.
LEMMA CommitsInv ==
    ASSUME LatencyInv, NEW t \in LatencyRequests, NEW a \in {"idle", "updating"},
           NEW fails \in BOOLEAN, Commits(t, a, fails)
    PROVE  /\ LinksInOrder' /\ OneList' /\ ConfigUnderWay'
           /\ sending' \in [Senders -> LatencySteps]
           /\ list' \in [Senders -> SUBSET (Monitors \X Monitor)]
           /\ lost' \in BOOLEAN
<1> DEFINE after == AfterCommit(fails)
<1>1. /\ Moves(t, a, after) /\ list' = [list EXCEPT ![t] = {}]
      /\ lost' = (lost \/ fails)
      /\ UNCHANGED <<nodeVars, linkVars, config, raced, blank>>
  BY DEF Commits
<1>2. t \in Senders /\ after \in LatencySteps
  BY DEF Senders, LatencySteps, AfterCommit, SyncStep
<1>3. after = "sync" \/ (after = "idle" /\ lost')
  <2>1. CASE fails
    <3>1. lost'
      BY <1>1, <2>1, Zenon
    <3> QED
      BY <2>1, <3>1 DEF AfterCommit
  <2>2. CASE ~fails
    BY <2>2 DEF AfterCommit, SyncStep
  <2> QED
    BY <2>1, <2>2
<1>4. lost' \in BOOLEAN
  <2>1. lost \in BOOLEAN
    BY DEF LatencyInv, LatencyTypes, LatencyTypeOK
  <2> QED
    BY <1>1, <2>1
<1> HIDE DEF after
<1>5. /\ sending' \in [Senders -> LatencySteps] /\ sending[t] = a /\ sending'[t] = after
      /\ \A o \in Senders \ {t} : sending'[o] = sending[o]
  BY <1>1, <1>2, MovesType DEF LatencyInv
<1>6. list' \in [Senders -> SUBSET (Monitors \X Monitor)]
  BY <1>1, <1>2, ListType DEF LatencyInv
<1>7. LinksInOrder'
  BY <1>1, <1>3, <1>5 DEF LatencyInv, LinksInOrder, nodeVars, linkVars
<1>8. OneList'
  BY <1>1, <1>3, <1>5 DEF LatencyInv, OneList, Carrying
<1>9. ConfigUnderWay'
  BY <1>2, <1>3, <1>5 DEF ConfigUnderWay, Preparing
<1> QED
  BY <1>4, <1>5, <1>6, <1>7, <1>8, <1>9

\* A monitor is written, or is gone, and its assignments are replaced.
LEMMA WriteMonitorInv ==
    ASSUME LatencyInv, NEW t \in LatencyRequests, NEW m \in Monitors,
           NEW mon \in Monitor, NEW chosen \in BOOLEAN, NEW a \in {"idle", "updating"},
           NEW fails \in BOOLEAN, Commits(t, a, fails),
           edits' \in 0..MaxEdits, used' \subseteq Monitors,
           \/ monitors' = [monitors EXCEPT ![m] = mon]
           \/ monitors' = monitors /\ ~Exists(m),
           Assign(m, mon, chosen)
    PROVE  LatencyInv'
<1>1. UNCHANGED <<nodeVars, linkVars, config, raced, blank>>
  BY DEF Commits
<1>2. /\ assigned' = IF chosen /\ known /\ Applies(mon, families, ip)
                     THEN assigned \cup {m} ELSE assigned \ {m}
      /\ excluded' = IF known /\ ~chosen THEN excluded \cup {m} ELSE excluded \ {m}
  BY DEF Assign
<1>3. /\ LinksInOrder' /\ OneList' /\ ConfigUnderWay'
      /\ sending' \in [Senders -> LatencySteps]
      /\ list' \in [Senders -> SUBSET (Monitors \X Monitor)]
      /\ lost' \in BOOLEAN
  BY CommitsInv
<1>4. /\ monitors' \in [Monitors -> Monitor]
      /\ \A o \in Monitors \ {m} : monitors'[o] = monitors[o]
      /\ monitors'[m] = mon \/ (monitors'[m] = NoMonitor /\ ~Exists(m)')
  BY DEF LatencyInv, LatencyTypes, LatencyTypeOK, Exists
<1>5. LatencyTypes'
  <2>1. assigned' \subseteq Monitors /\ excluded' \subseteq Monitors
    BY <1>2 DEF LatencyInv, LatencyTypes, LatencyTypeOK
  <2> QED
    BY <1>1, <1>3, <1>4, <2>1
       DEF LatencyInv, LatencyTypes, LatencyTypeOK, LatencySteps, nodeVars, linkVars
<1>6. AssignmentsFollowFamilies'
  <2> SUFFICES ASSUME families' # {} PROVE AssignmentsFollowFamilies'
    BY DEF AssignmentsFollowFamilies
  <2>1. families' = families /\ ip' = ip /\ known' = known /\ blank' = blank
    BY <1>1 DEF nodeVars
  <2>2. known
    BY <2>1 DEF LatencyInv, LinksInOrder
  <2>3. assigned \subseteq Monitors
    BY DEF LatencyInv, LatencyTypes, LatencyTypeOK
  <2>4. ASSUME NEW o \in assigned', Exists(o)' PROVE Applies(monitors'[o], families', ip')
    <3>1. CASE o = m
      <4>1. monitors'[m] = mon
        BY <1>4, <2>4, <3>1
      <4> QED
        BY <1>2, <2>1, <2>4, <3>1, <4>1
    <3>2. CASE o # m
      <4>1. o \in assigned /\ monitors'[o] = monitors[o]
        BY <1>2, <1>4, <2>3, <2>4, <3>2
      <4>2. Exists(o)
        BY <2>4, <4>1 DEF Exists
      <4>3. Applies(monitors[o], families, ip)
        BY <2>1, <4>1, <4>2 DEF LatencyInv, AssignmentsFollowFamilies
      <4> QED
        BY <2>1, <4>1, <4>3
    <3> QED
      BY <3>1, <3>2
  <2>5. ASSUME ~blank', NEW o \in Monitors \ excluded',
               monitors'[o].auto, Applies(monitors'[o], families', ip')
        PROVE  o \in assigned'
    <3>1. CASE o = m
      <4>1. monitors'[m] = mon
        BY <1>4, <2>5, <3>1, NoMonitorIsMonitor
      <4> QED
        BY <1>2, <2>1, <2>2, <2>5, <3>1, <4>1
    <3>2. CASE o # m
      <4>1. o \in Monitors \ excluded /\ monitors'[o] = monitors[o]
        BY <1>2, <1>4, <2>5, <3>2
      <4>2. o \in assigned
        BY <2>1, <2>5, <4>1 DEF LatencyInv, AssignmentsFollowFamilies
      <4> QED
        BY <1>2, <3>2, <4>2
    <3> QED
      BY <3>1, <3>2
  <2> QED
    BY <2>4, <2>5 DEF AssignmentsFollowFamilies
<1> QED
  BY <1>3, <1>5, <1>6 DEF LatencyInv

\* What a request writes is a monitor of the next revision.
LEMMA RevisesType ==
    ASSUME LatencyInv, Revises, NEW f \in Families \cup {"any"}, NEW auto \in BOOLEAN
    PROVE  edits' \in 0..MaxEdits /\ [family |-> f, auto |-> auto, rev |-> edits'] \in Monitor
<1>1. edits' \in 0..MaxEdits
  BY LatencyAssumption DEF Revises, LatencyInv, LatencyTypes, LatencyTypeOK
<1> QED
  BY <1>1 DEF Monitor

LEMMA CreateMonitorInv ==
    ASSUME LatencyInv, NEW t \in LatencyRequests, NEW m \in Monitors,
           NEW f \in Families \cup {"any"}, NEW auto \in BOOLEAN, NEW chosen \in BOOLEAN,
           NEW fails \in BOOLEAN,
           CreateMonitor(t, m, f, auto, chosen, fails)
    PROVE  LatencyInv'
<1> DEFINE mon == [family |-> f, auto |-> auto, rev |-> edits']
<1>1. /\ Revises /\ used' = used \cup {m} /\ Commits(t, "idle", fails)
      /\ monitors' = [monitors EXCEPT ![m] = mon] /\ Assign(m, mon, chosen)
  BY DEF CreateMonitor
<1>2. edits' \in 0..MaxEdits /\ mon \in Monitor
  BY <1>1, RevisesType
<1>3. used' \subseteq Monitors
  BY <1>1 DEF LatencyInv, LatencyTypes, LatencyTypeOK
<1> HIDE DEF mon
<1> QED
  BY <1>1, <1>2, <1>3, WriteMonitorInv

LEMMA UpdateMonitorInv ==
    ASSUME LatencyInv, NEW t \in LatencyRequests,
           NEW f \in Families \cup {"any"}, NEW auto \in BOOLEAN, NEW chosen \in BOOLEAN,
           NEW fails \in BOOLEAN,
           UpdateMonitor(t, f, auto, chosen, fails)
    PROVE  LatencyInv'
<1> DEFINE mon == [family |-> f, auto |-> auto, rev |-> edits']
<1>1. Revises /\ used' = used /\ Commits(t, "updating", fails)
  BY DEF UpdateMonitor
<1>2. PICK x \in list[t] :
         /\ monitors' = IF Exists(x[1]) THEN [monitors EXCEPT ![x[1]] = mon] ELSE monitors
         /\ Assign(x[1], mon, chosen)
  BY DEF UpdateMonitor
<1>3. edits' \in 0..MaxEdits /\ mon \in Monitor
  BY <1>1, RevisesType
<1>4. used' \subseteq Monitors
  BY <1>1 DEF LatencyInv, LatencyTypes, LatencyTypeOK
<1> HIDE DEF mon
<1>5. PICK m \in Monitors : m = x[1]
  <2>1. list[t] \subseteq Monitors \X Monitor
    BY DEF LatencyInv, LatencyTypes, Senders
  <2> QED
    BY <1>2, <2>1
<1>6. /\ Assign(m, mon, chosen)
      /\ \/ monitors' = [monitors EXCEPT ![m] = mon]
         \/ monitors' = monitors /\ ~Exists(m)
  BY <1>2, <1>5
<1> QED
  BY <1>1, <1>3, <1>4, <1>6, WriteMonitorInv

LEMMA DeleteMonitorInv ==
    ASSUME LatencyInv, NEW t \in LatencyRequests, NEW m \in Monitors, DeleteMonitor(t, m)
    PROVE  LatencyInv'
<1>1. /\ Commits(t, "idle", FALSE)
      /\ monitors' = [monitors EXCEPT ![m] = NoMonitor]
      /\ assigned' = assigned \ {m}
      /\ excluded' = excluded \ {m}
      /\ used' = used /\ edits' = edits
  BY DEF DeleteMonitor
<1>2. UNCHANGED <<nodeVars, linkVars, config, raced, blank>>
  BY <1>1 DEF Commits
<1>3. /\ LinksInOrder' /\ OneList' /\ ConfigUnderWay'
      /\ sending' \in [Senders -> LatencySteps]
      /\ list' \in [Senders -> SUBSET (Monitors \X Monitor)]
      /\ lost' \in BOOLEAN
  BY <1>1, CommitsInv
<1>4. /\ monitors' \in [Monitors -> Monitor]
      /\ \A o \in Monitors \ {m} : monitors'[o] = monitors[o]
      /\ monitors'[m] = NoMonitor
  BY <1>1, NoMonitorIsMonitor DEF LatencyInv, LatencyTypes, LatencyTypeOK
<1>5. LatencyTypes'
  <2>1. assigned' \subseteq Monitors /\ excluded' \subseteq Monitors
    BY <1>1 DEF LatencyInv, LatencyTypes, LatencyTypeOK
  <2> QED
    BY <1>1, <1>2, <1>3, <1>4, <2>1
       DEF LatencyInv, LatencyTypes, LatencyTypeOK, LatencySteps, nodeVars, linkVars
<1>6. AssignmentsFollowFamilies'
  <2>1. families' = families /\ ip' = ip /\ blank' = blank
    BY <1>2 DEF nodeVars
  <2>2. ~NoMonitor.auto
    BY NoMonitorIsMonitor
  <2>3. \A o \in Monitors \ {m} :
            /\ Exists(o)' <=> Exists(o)
            /\ o \in assigned' <=> o \in assigned
            /\ o \in excluded' <=> o \in excluded
    BY <1>1, <1>4 DEF Exists
  <2>4. m \notin assigned' /\ assigned' \subseteq Monitors
    BY <1>1 DEF LatencyInv, LatencyTypes, LatencyTypeOK
  <2> QED
    BY <1>4, <2>1, <2>2, <2>3, <2>4, Zenon DEF LatencyInv, AssignmentsFollowFamilies
<1> QED
  BY <1>3, <1>5, <1>6 DEF LatencyInv

\* Before its transaction a request has the monitor it read, and sends nothing.
LEMMA BeforeUpdateInv ==
    ASSUME LatencyInv, NEW t \in LatencyRequests,
           (\E m \in Monitors : ReadMonitor(t, m)) \/ UpdateFails(t)
    PROVE  LatencyInv'
<1>1. UNCHANGED <<monitorVars, linkVars, config, edits, raced, lost>>
  BY DEF ReadMonitor, UpdateFails
<1>2. t \in Senders
  BY DEF Senders
<1>3. PICK a \in {"idle", "updating"}, b \in {"idle", "updating"} : Moves(t, a, b)
  BY DEF ReadMonitor, UpdateFails
<1>4. /\ sending' \in [Senders -> LatencySteps] /\ sending[t] = a /\ sending'[t] = b
      /\ \A o \in Senders \ {t} : sending'[o] = sending[o]
  BY <1>2, <1>3, MovesType DEF LatencyInv, LatencySteps
<1>5. PICK read \in SUBSET (Monitors \X Monitor) : list' = [list EXCEPT ![t] = read]
  <2>1. CASE UpdateFails(t)
    BY <2>1 DEF UpdateFails
  <2>2. CASE \E m \in Monitors : ReadMonitor(t, m)
    <3>1. PICK m \in Monitors : ReadMonitor(t, m)
      BY <2>2
    <3>2. {<<m, monitors[m]>>} \in SUBSET (Monitors \X Monitor)
      BY DEF LatencyInv, LatencyTypes, LatencyTypeOK
    <3> QED
      BY <3>1, <3>2 DEF ReadMonitor
  <2> QED
    BY <2>1, <2>2
<1>6. /\ list' \in [Senders -> SUBSET (Monitors \X Monitor)]
      /\ \A o \in Senders \ {t} : list'[o] = list[o]
  BY <1>2, <1>5, ListType DEF LatencyInv
<1>7. /\ AssignmentsFollowFamilies' /\ Listed' = Listed
  <2>1. UNCHANGED monitorVars
    BY <1>1
  <2> QED
    BY <2>1 DEF LatencyInv, AssignmentsFollowFamilies, monitorVars, nodeVars, Exists, Listed
<1>8. LatencyTypes'
  BY <1>1, <1>4, <1>6
     DEF LatencyInv, LatencyTypes, LatencyTypeOK, LatencySteps, linkVars, monitorVars, nodeVars
<1>9. LinksInOrder'
  BY <1>1, <1>4 DEF LatencyInv, LinksInOrder, linkVars, monitorVars, nodeVars
<1>10. OneList'
  BY <1>1, <1>4 DEF LatencyInv, OneList, Carrying
<1>11. ConfigUnderWay'
  <2>1. link' = link /\ raced' = raced /\ lost' = lost /\ config' = config
    BY <1>1 DEF linkVars
  <2>2. \A o \in Senders : /\ Preparing(o) <=> Preparing(o)'
                           /\ Reaches(o) <=> Reaches(o)'
                           /\ Reaches(o) => list'[o] = list[o]
    BY <1>4, <1>6, <2>1 DEF Preparing, Reaches
  <2> QED
    BY <1>7, <2>1, <2>2 DEF LatencyInv, ConfigUnderWay
<1> QED
  BY <1>7, <1>8, <1>9, <1>10, <1>11 DEF LatencyInv

\* Registration happens before the agent's first connection: the node has no
\* families yet.
LEMMA RegistrationInv ==
    ASSUME LatencyInv, NEW t \in LatencyRequests,
           RegisterNode(t) \/ ReadMonitors(t) \/ AssignAuto(t)
    PROVE  LatencyInv'
<1>1. t \in Senders
  BY DEF Senders
<1>2. PICK a \in {"idle", "registered", "assigning"}, b \in {"registered", "assigning", "sync"} :
         Moves(t, a, b)
  BY DEF RegisterNode, ReadMonitors, AssignAuto
<1>3. /\ sending' \in [Senders -> LatencySteps] /\ sending[t] = a /\ sending'[t] = b
      /\ \A o \in Senders \ {t} : sending'[o] = sending[o]
  BY <1>1, <1>2, MovesType DEF LatencyInv, LatencySteps
<1>4. links = 0 /\ known' = TRUE
  <2>1. CASE RegisterNode(t)
    BY <2>1 DEF RegisterNode, LatencyInv, LinksInOrder
  <2>2. CASE ReadMonitors(t)
    BY <1>1, <2>2 DEF ReadMonitors, Moves, LatencyInv, LinksInOrder, monitorVars, nodeVars
  <2>3. CASE AssignAuto(t)
    BY <1>1, <2>3 DEF AssignAuto, Moves, LatencyInv, LinksInOrder, nodeVars
  <2> QED
    BY <2>1, <2>2, <2>3
<1>5. /\ UNCHANGED <<monitors, used, families, ip, linkVars, config, edits, excluded, raced,
                     lost, blank>>
  BY DEF RegisterNode, ReadMonitors, AssignAuto, monitorVars, nodeVars
<1>6. /\ list' \in [Senders -> SUBSET (Monitors \X Monitor)]
      /\ assigned' \subseteq Monitors
  <2>1. CASE RegisterNode(t)
    BY <2>1 DEF RegisterNode, LatencyInv, LatencyTypes, LatencyTypeOK
  <2>2. CASE ReadMonitors(t)
    <3>1. {<<m, monitors[m]>> : m \in {k \in Monitors :
              monitors[k].auto /\ Applies(monitors[k], families, ip)}}
             \in SUBSET (Monitors \X Monitor)
      BY DEF LatencyInv, LatencyTypes, LatencyTypeOK
    <3> QED
      BY <1>1, <2>2, <3>1
         DEF ReadMonitors, LatencyInv, LatencyTypes, LatencyTypeOK, monitorVars
  <2>3. CASE AssignAuto(t)
    <3>1. list[t] \subseteq Monitors \X Monitor
      BY <1>1 DEF LatencyInv, LatencyTypes
    <3>2. {x[1] : x \in list[t]} \subseteq Monitors
      BY <3>1
    <3>3. /\ assigned' = assigned \cup {x[1] : x \in list[t]}
          /\ list' = [list EXCEPT ![t] = {}]
      BY <2>3 DEF AssignAuto
    <3> QED
      BY <3>2, <3>3 DEF LatencyInv, LatencyTypes, LatencyTypeOK
  <2> QED
    BY <2>1, <2>2, <2>3
<1>7. LatencyTypes'
  BY <1>3, <1>4, <1>5, <1>6
     DEF LatencyInv, LatencyTypes, LatencyTypeOK, LatencySteps, linkVars
<1>8. links' = 0 /\ link' = link /\ link = 0 /\ families' = families /\ families = {}
  BY <1>4, <1>5 DEF LatencyInv, LatencyTypes, LatencyTypeOK, LinksInOrder, linkVars, Links
<1>9. LinksInOrder'
  BY <1>3, <1>4, <1>8 DEF LatencyInv, LinksInOrder
<1>10. OneList'
  BY <1>3, <1>5 DEF LatencyInv, OneList, Carrying
<1>11. ConfigUnderWay' /\ AssignmentsFollowFamilies'
  BY <1>8 DEF ConfigUnderWay, AssignmentsFollowFamilies
<1> QED
  BY <1>7, <1>9, <1>10, <1>11 DEF LatencyInv

LEMMA ConnectInv == ASSUME LatencyInv, Connect PROVE LatencyInv'
<1> DEFINE c == links + 1
<1>1. /\ links < MaxLinks /\ known
      /\ \A t \in Senders : sending[t] \notin {"registered", "assigning"}
      /\ links' = c /\ link' = c /\ Moves(c, "idle", "initial")
      /\ lost' = FALSE
      /\ UNCHANGED <<monitorVars, list, config, edits, raced>>
  BY DEF Connect
<1>2. c \in Links /\ c \in Senders /\ c # 0
  BY <1>1, LatencyAssumption
     DEF LatencyInv, LatencyTypes, LatencyTypeOK, Links, Senders
<1> HIDE DEF c
<1>3. /\ sending' \in [Senders -> LatencySteps] /\ sending[c] = "idle"
      /\ sending'[c] = "initial"
      /\ \A o \in Senders \ {c} : sending'[o] = sending[o]
  BY <1>1, <1>2, MovesType DEF LatencyInv, LatencySteps
<1>4. LatencyTypes'
  BY <1>1, <1>2, <1>3
     DEF LatencyInv, LatencyTypes, LatencyTypeOK, LatencySteps, monitorVars, nodeVars
<1>5. LinksInOrder'
  <2>1. c <= c
    BY <1>2, LatencyAssumption DEF Links
  <2>2. known' = known
    BY <1>1 DEF monitorVars, nodeVars
  <2>3. \A t \in Senders : sending'[t] \notin {"registered", "assigning"}
    BY <1>1, <1>3
  <2>4. \A t \in Senders : sending'[t] \in {"initial", "written"} => t \in Links
    BY <1>2, <1>3 DEF LatencyInv, LinksInOrder
  <2> QED
    BY <1>1, <1>2, <2>1, <2>2, <2>3, <2>4 DEF LinksInOrder
<1>6. OneList'
  BY <1>1, <1>3 DEF LatencyInv, OneList, Carrying
<1>7. ConfigUnderWay'
  BY <1>1, <1>2, <1>3 DEF ConfigUnderWay, Preparing
<1>8. AssignmentsFollowFamilies'
  BY <1>1 DEF LatencyInv, AssignmentsFollowFamilies, monitorVars, nodeVars, Exists
<1> QED
  BY <1>4, <1>5, <1>6, <1>7, <1>8 DEF LatencyInv

LEMMA DisconnectInv == ASSUME LatencyInv, Disconnect PROVE LatencyInv'
<1>1. /\ link' = 0
      /\ UNCHANGED <<monitorVars, links, sending, list, config, edits, raced, lost>>
  BY DEF Disconnect
<1>2. LatencyTypes'
  BY <1>1 DEF LatencyInv, LatencyTypes, LatencyTypeOK, monitorVars, nodeVars
<1>3. LinksInOrder'
  BY <1>1, LatencyAssumption
     DEF LatencyInv, LatencyTypes, LatencyTypeOK, LinksInOrder, monitorVars, nodeVars, Links
<1>4. OneList'
  BY <1>1 DEF LatencyInv, OneList, Carrying
<1>5. ConfigUnderWay'
  BY <1>1 DEF ConfigUnderWay
<1>6. AssignmentsFollowFamilies'
  BY <1>1 DEF LatencyInv, AssignmentsFollowFamilies, monitorVars, nodeVars, Exists
<1> QED
  BY <1>2, <1>3, <1>4, <1>5, <1>6 DEF LatencyInv

\* A snapshot of the agent: what stays assigned and what is added fits the
\* families it reports.
LEMMA SnapshotFollows ==
    ASSUME LatencyInv, NEW c \in Links, NEW fs \in SUBSET Families,
           NEW a \in Families \cup {"none"}, Snapshot(c, fs, a)
    PROVE  AssignmentsFollowFamilies'
<1>1. /\ assigned' = Pruned(fs, a) \cup Backfilled(fs)
      /\ families' = IF fs = {} THEN families ELSE fs
      /\ blank' = (blank \/ (fs = {} /\ families # {}))
      /\ monitors' = monitors /\ excluded' = excluded
  BY DEF Snapshot
<1>2. \A m \in Monitors : Exists(m)' <=> Exists(m)
  BY <1>1 DEF Exists
<1>3. assigned \subseteq Monitors
  BY DEF LatencyInv, LatencyTypes, LatencyTypeOK
<1>4. \A mon, x, y : \A gs : gs # {} => (Applies(mon, gs, x) <=> Applies(mon, gs, y))
  BY DEF Applies
<1>5. CASE fs = {}
  <2> SUFFICES ASSUME families # {} PROVE AssignmentsFollowFamilies'
    BY <1>1, <1>5 DEF AssignmentsFollowFamilies
  <2>1. families' = families /\ blank' = TRUE
    BY <1>1, <1>5
  <2>2. assigned' \subseteq assigned
    BY <1>1, <1>5 DEF Pruned, Backfilled
  <2>3. \A m \in assigned : Exists(m) => Applies(monitors[m], families, ip)
    BY DEF LatencyInv, AssignmentsFollowFamilies
  <2>4. \A m \in assigned' : Exists(m)' => Applies(monitors'[m], families', ip')
    BY <1>1, <1>2, <1>3, <1>4, <2>1, <2>2, <2>3
  <2> QED
    BY <2>1, <2>4 DEF AssignmentsFollowFamilies
<1>6. CASE fs # {}
  <2>1. families' = fs
    BY <1>1, <1>6
  <2>2. \A m \in Pruned(fs, a) : m \in assigned /\ (Exists(m) => Applies(monitors[m], fs, a))
    BY <1>6 DEF Pruned
  <2>3. \A m \in Backfilled(fs) : m \in Monitors /\ Applies(monitors[m], fs, "none")
    BY DEF Backfilled
  <2>4. \A m \in assigned' : Exists(m)' => Applies(monitors'[m], families', ip')
    BY <1>1, <1>2, <1>3, <1>4, <1>6, <2>1, <2>2, <2>3
  <2>5. ASSUME ~blank', NEW m \in Monitors \ excluded',
               monitors'[m].auto, Applies(monitors'[m], families', ip')
        PROVE  m \in assigned'
    <3>1. /\ m \in Monitors \ excluded /\ monitors[m].auto
          /\ Applies(monitors[m], fs, a) /\ Applies(monitors[m], fs, "none")
      BY <1>1, <1>4, <1>6, <2>1, <2>5
    <3>2. CASE fs \subseteq families
      <4>1. Applies(monitors[m], families, ip) /\ families # {}
        BY <1>6, <3>1, <3>2 DEF Applies
      <4>2. ~blank
        BY <1>1, <2>5
      <4>3. m \in assigned
        BY <3>1, <4>1, <4>2 DEF LatencyInv, AssignmentsFollowFamilies
      <4>4. m \in Pruned(fs, a)
        BY <1>6, <3>1, <4>3 DEF Pruned
      <4> QED
        BY <1>1, <4>4
    <3>3. CASE ~(fs \subseteq families)
      <4>1. m \in Backfilled(fs)
        BY <3>1, <3>3 DEF Backfilled
      <4> QED
        BY <1>1, <4>1
    <3> QED
      BY <3>2, <3>3
  <2> QED
    BY <2>4, <2>5 DEF AssignmentsFollowFamilies
<1> QED
  BY <1>5, <1>6

LEMMA SnapshotInv ==
    ASSUME LatencyInv, NEW c \in Links, NEW fs \in SUBSET Families,
           NEW a \in Families \cup {"none"}, Snapshot(c, fs, a)
    PROVE  LatencyInv'
<1>1. /\ c = link
      /\ assigned' = Pruned(fs, a) \cup Backfilled(fs)
      /\ Moves(c, "idle", IF assigned' # assigned \/ Pruned(fs, a) # assigned
                          THEN "sync" ELSE "idle")
      /\ families' = IF fs = {} THEN families ELSE fs
      /\ ip' = IF a = "none" THEN ip ELSE a
      /\ blank' = (blank \/ (fs = {} /\ families # {}))
      /\ UNCHANGED <<monitors, used, known, excluded, linkVars, list, config, edits, raced,
                     lost>>
  BY DEF Snapshot
<1>2. c \in Senders /\ c # 0
  BY LatencyAssumption DEF Senders, Links
<1>3. PICK b \in {"sync", "idle"} :
         Moves(c, "idle", b) /\ (b = "idle" => assigned' = assigned)
  BY <1>1
<1>4. /\ sending' \in [Senders -> LatencySteps] /\ sending[c] = "idle" /\ sending'[c] = b
      /\ \A o \in Senders \ {c} : sending'[o] = sending[o]
  BY <1>2, <1>3, MovesType DEF LatencyInv, LatencySteps
<1>5. LatencyTypes'
  <2>1. families' \subseteq Families /\ ip' \in Families \cup {"none"}
    BY <1>1 DEF LatencyInv, LatencyTypes, LatencyTypeOK
  <2>2. assigned' \subseteq Monitors
    BY <1>1 DEF LatencyInv, LatencyTypes, LatencyTypeOK, Pruned, Backfilled
  <2>3. blank' \in BOOLEAN
    <3>1. blank \in BOOLEAN
      BY DEF LatencyInv, LatencyTypes, LatencyTypeOK
    <3>2. CASE fs = {} /\ families # {}
      BY <1>1, <3>2
    <3>3. CASE ~(fs = {} /\ families # {})
      BY <1>1, <3>1, <3>3
    <3> QED
      BY <3>2, <3>3
  <2> QED
    BY <1>1, <1>4, <2>1, <2>2, <2>3
       DEF LatencyInv, LatencyTypes, LatencyTypeOK, LatencySteps, linkVars
<1>6. LinksInOrder'
  <2>1. links # 0 /\ known /\ known' = known /\ links' = links /\ link' = link
    BY <1>1, <1>2, LatencyAssumption
       DEF LatencyInv, LatencyTypes, LatencyTypeOK, LinksInOrder, linkVars, Links
  <2> QED
    BY <1>3, <1>4, <2>1 DEF LatencyInv, LinksInOrder
<1>7. OneList'
  BY <1>1, <1>3, <1>4 DEF LatencyInv, OneList, Carrying
<1>8. ConfigUnderWay'
  <2>1. CASE b = "sync"
    BY <1>2, <1>4, <2>1 DEF ConfigUnderWay, Preparing
  <2>2. CASE b = "idle"
    <3>1. sending' = sending
      BY <1>3, <2>2, <1>2 DEF Moves, LatencyInv, LatencyTypes, LatencyTypeOK
    <3>2. Listed' = Listed
      BY <1>1, <1>3, <2>2 DEF Listed, Exists
    <3> QED
      BY <1>1, <3>1, <3>2
         DEF LatencyInv, ConfigUnderWay, Preparing, Reaches, linkVars
  <2> QED
    BY <2>1, <2>2
<1> QED
  BY <1>5, <1>6, <1>7, <1>8, SnapshotFollows DEF LatencyInv

\* Nothing that the assignments depend on.
LEMMA FollowsUnchanged ==
    ASSUME LatencyInv, UNCHANGED monitorVars
    PROVE  AssignmentsFollowFamilies' /\ Listed' = Listed
BY DEF LatencyInv, AssignmentsFollowFamilies, monitorVars, nodeVars, Exists, Listed

\* A sender lists what is assigned.
LEMMA ListsInv ==
    ASSUME LatencyInv, NEW t \in Senders,
           NEW a \in {"initial", "sync"}, NEW b \in {"written", "listed"},
           a = "initial" => b = "written" /\ t \in Links,
           a = "sync" => b = "listed",
           Lists(t, a, b)
    PROVE  LatencyInv'
<1>1. /\ Moves(t, a, b) /\ list' = [list EXCEPT ![t] = Listed]
      /\ raced' = (\/ \E o \in Senders \ {t} : sending[o] \in {"listed", "written"}
                   \/ raced /\ t \in Links \ {link})
      /\ UNCHANGED <<monitorVars, linkVars, config, edits, lost>>
  BY DEF Lists
<1>2. /\ sending' \in [Senders -> LatencySteps] /\ sending[t] = a /\ sending'[t] = b
      /\ \A o \in Senders \ {t} : sending'[o] = sending[o]
  BY <1>1, MovesType DEF LatencyInv, LatencySteps
<1>3. /\ list' \in [Senders -> SUBSET (Monitors \X Monitor)]
      /\ list'[t] = Listed /\ \A o \in Senders \ {t} : list'[o] = list[o]
  <2>1. Listed \in SUBSET (Monitors \X Monitor)
    BY ListedType DEF LatencyInv
  <2> QED
    BY <1>1, <2>1, ListType DEF LatencyInv
<1>4. AssignmentsFollowFamilies' /\ Listed' = Listed
  BY <1>1, FollowsUnchanged
<1>5. link' = link /\ links' = links /\ known' = known /\ families' = families
  BY <1>1 DEF linkVars, monitorVars, nodeVars
<1>6. LatencyTypes'
  <2>1. raced' \in BOOLEAN
    <3>1. CASE \/ \E o \in Senders \ {t} : sending[o] \in {"listed", "written"}
               \/ raced /\ t \in Links \ {link}
      BY <1>1, <3>1, Zenon
    <3>2. CASE ~(\/ \E o \in Senders \ {t} : sending[o] \in {"listed", "written"}
                 \/ raced /\ t \in Links \ {link})
      BY <1>1, <3>2, Zenon
    <3> QED
      BY <3>1, <3>2
  <2> QED
    BY <1>1, <1>2, <1>3, <2>1
       DEF LatencyInv, LatencyTypes, LatencyTypeOK, LatencySteps, linkVars, monitorVars,
           nodeVars
<1>7. LinksInOrder'
  BY <1>2, <1>5 DEF LatencyInv, LinksInOrder
<1>8. ~raced' => \A o \in Senders \ {t} : ~Carrying(o)
  BY <1>1 DEF Carrying
<1>9. OneList'
  BY <1>2, <1>8 DEF OneList, Carrying
<1>10. ConfigUnderWay'
  <2> SUFFICES ASSUME link' # 0 /\ ~raced' /\ ~lost' PROVE ConfigUnderWay'
    BY DEF ConfigUnderWay
  <2>1. CASE b = "listed" \/ t = link
    <3>1. Reaches(t)' /\ list'[t] = Listed'
      BY <1>2, <1>3, <1>4, <1>5, <2>1 DEF Reaches
    <3> QED
      BY <3>1 DEF ConfigUnderWay
  <2>2. CASE b = "written" /\ t # link
    <3>1. a = "initial" /\ t \in Links \ {link}
      BY <2>2
    <3>2. ~raced /\ ~lost /\ link # 0
      BY <1>1, <1>5, <3>1
    <3>3. CASE \E o \in Senders : Preparing(o)
      <4>1. PICK o \in Senders : Preparing(o)
        BY <3>3
      <4>2. o # t
        BY <1>2, <3>1, <4>1 DEF Preparing
      <4>3. Preparing(o)'
        BY <1>2, <1>5, <4>1, <4>2 DEF Preparing
      <4> QED
        BY <4>3 DEF ConfigUnderWay
    <3>4. \A o \in Senders : ~Reaches(o) /\ ~Reaches(o)'
      BY <1>2, <1>5, <1>8, <2>2, <3>1 DEF Reaches, Carrying
    <3>5. CASE config = Listed
      BY <1>1, <1>4, <3>4, <3>5 DEF ConfigUnderWay
    <3> QED
      BY <3>2, <3>3, <3>4, <3>5 DEF LatencyInv, ConfigUnderWay
  <2> QED
    BY <2>1, <2>2
<1> QED
  BY <1>4, <1>6, <1>7, <1>9, <1>10 DEF LatencyInv

LEMMA NotOnlineInv == ASSUME LatencyInv, NEW t \in Senders, NotOnline(t) PROVE LatencyInv'
<1>1. /\ link = 0 /\ Moves(t, "sync", "idle")
      /\ UNCHANGED <<monitorVars, linkVars, list, config, edits, raced, lost>>
  BY DEF NotOnline
<1>2. /\ sending' \in [Senders -> LatencySteps] /\ sending'[t] = "idle"
      /\ \A o \in Senders \ {t} : sending'[o] = sending[o]
  BY <1>1, MovesType DEF LatencyInv, LatencySteps
<1>3. LatencyTypes'
  BY <1>1, <1>2
     DEF LatencyInv, LatencyTypes, LatencyTypeOK, LatencySteps, linkVars, monitorVars, nodeVars
<1>4. LinksInOrder'
  BY <1>1, <1>2 DEF LatencyInv, LinksInOrder, linkVars, monitorVars, nodeVars
<1>5. OneList'
  BY <1>1, <1>2 DEF LatencyInv, OneList, Carrying
<1>6. ConfigUnderWay'
  BY <1>1 DEF ConfigUnderWay, linkVars
<1> QED
  BY <1>1, <1>3, <1>4, <1>5, <1>6, FollowsUnchanged DEF LatencyInv

\* A sender is done, and its list is gone.
LEMMA DoneTypes ==
    ASSUME LatencyInv, NEW t \in Senders, NEW a, Moves(t, a, "idle"),
           list' = [list EXCEPT ![t] = {}],
           config' = config \/ config' = list[t], lost' \in BOOLEAN,
           UNCHANGED <<monitorVars, linkVars, edits, raced>>
    PROVE  LatencyTypes' /\ LinksInOrder' /\ OneList' /\ AssignmentsFollowFamilies'
<1>1. /\ sending' \in [Senders -> LatencySteps] /\ sending'[t] = "idle"
      /\ \A o \in Senders \ {t} : sending'[o] = sending[o]
  BY MovesType DEF LatencyInv, LatencySteps
<1>2. list' \in [Senders -> SUBSET (Monitors \X Monitor)]
  BY ListType DEF LatencyInv
<1>3. config' \subseteq Monitors \X Monitor
  BY DEF LatencyInv, LatencyTypes, LatencyTypeOK
<1>4. LatencyTypes'
  BY <1>1, <1>2, <1>3
     DEF LatencyInv, LatencyTypes, LatencyTypeOK, LatencySteps, linkVars, monitorVars, nodeVars
<1>5. LinksInOrder'
  BY <1>1 DEF LatencyInv, LinksInOrder, linkVars, monitorVars, nodeVars
<1>6. OneList'
  BY <1>1 DEF LatencyInv, OneList, Carrying
<1> QED
  BY <1>4, <1>5, <1>6, FollowsUnchanged

LEMMA SendFailsInv == ASSUME LatencyInv, NEW t \in Senders, SendFails(t) PROVE LatencyInv'
<1>1. /\ list' = [list EXCEPT ![t] = {}] /\ lost' = TRUE /\ config' = config
      /\ UNCHANGED <<monitorVars, linkVars, edits, raced>>
  BY DEF SendFails
<1>2. PICK a : Moves(t, a, "idle")
  BY DEF SendFails
<1>3. ConfigUnderWay'
  BY <1>1 DEF ConfigUnderWay
<1> QED
  BY <1>1, <1>2, <1>3, DoneTypes DEF LatencyInv

\* The list is the only one under way: if it reaches the agent, the agent has
\* what is assigned.
LEMMA DeliversInv ==
    ASSUME LatencyInv, NEW t \in Senders, NEW a \in {"listed", "written"},
           NEW reaches \in BOOLEAN, Delivers(t, a, reaches),
           link # 0 => (reaches <=> a = "listed" \/ t = link)
    PROVE  LatencyInv'
<1>1. /\ Moves(t, a, "idle") /\ config' = IF reaches THEN list[t] ELSE config
      /\ list' = [list EXCEPT ![t] = {}]
      /\ UNCHANGED <<monitorVars, linkVars, edits, raced, lost>>
  BY DEF Delivers
<1>2. /\ sending[t] = a /\ sending'[t] = "idle"
      /\ \A o \in Senders \ {t} : sending'[o] = sending[o]
  BY <1>1, MovesType DEF LatencyInv, LatencySteps
<1>3. LatencyTypes' /\ LinksInOrder' /\ OneList' /\ AssignmentsFollowFamilies'
  <2>1. lost' \in BOOLEAN
    BY <1>1 DEF LatencyInv, LatencyTypes, LatencyTypeOK
  <2> QED
    BY <1>1, <2>1, DoneTypes
<1>4. Listed' = Listed /\ link' = link
  BY <1>1, FollowsUnchanged DEF linkVars
<1>5. ConfigUnderWay'
  <2> SUFFICES ASSUME link' # 0 /\ ~raced' /\ ~lost' PROVE ConfigUnderWay'
    BY DEF ConfigUnderWay
  <2>1. link # 0 /\ ~raced /\ ~lost
    BY <1>1, <1>4
  <2>2. \A o \in Senders \ {t} : ~Carrying(o)
    BY <1>2, <2>1 DEF LatencyInv, OneList, Carrying
  <2>3. \A o \in Senders : ~Reaches(o)'
    BY <1>2, <2>2 DEF Reaches, Carrying
  <2>4. reaches <=> Reaches(t)
    BY <1>2, <2>1 DEF Reaches
  <2>5. CASE \E o \in Senders : Preparing(o)
    <3>1. PICK o \in Senders : Preparing(o)
      BY <2>5
    <3>2. Preparing(o)'
      BY <1>2, <1>4, <3>1 DEF Preparing
    <3> QED
      BY <3>2 DEF ConfigUnderWay
  <2>6. CASE \E o \in Senders : Reaches(o) /\ list[o] = Listed
    <3>1. Reaches(t) /\ list[t] = Listed
      BY <2>2, <2>6 DEF Reaches, Carrying
    <3>2. config' = Listed'
      BY <1>1, <1>4, <2>4, <3>1
    <3> QED
      BY <2>3, <3>2 DEF ConfigUnderWay
  <2>7. CASE config = Listed /\ \A o \in Senders : ~Reaches(o)
    BY <1>1, <1>4, <2>3, <2>4, <2>7 DEF ConfigUnderWay
  <2> QED
    BY <2>1, <2>5, <2>6, <2>7 DEF LatencyInv, ConfigUnderWay
<1> QED
  BY <1>3, <1>5 DEF LatencyInv

LEMMA LatencyStep == LatencyInv /\ [LatencyNext]_latencyVars => LatencyInv'
<1> SUFFICES ASSUME LatencyInv, [LatencyNext]_latencyVars PROVE LatencyInv'
  OBVIOUS
<1>1. ASSUME NEW t \in LatencyRequests,
             \/ \E f \in Families \cup {"any"}, auto, chosen, fails \in BOOLEAN :
                   \/ \E m \in Monitors : CreateMonitor(t, m, f, auto, chosen, fails)
                   \/ UpdateMonitor(t, f, auto, chosen, fails)
             \/ \E m \in Monitors : ReadMonitor(t, m) \/ DeleteMonitor(t, m)
             \/ UpdateFails(t)
      PROVE  LatencyInv'
  BY <1>1, CreateMonitorInv, UpdateMonitorInv, DeleteMonitorInv, BeforeUpdateInv
<1>2. ASSUME NEW t \in LatencyRequests, RegisterNode(t) \/ ReadMonitors(t) \/ AssignAuto(t)
      PROVE  LatencyInv'
  BY <1>2, RegistrationInv
<1>3. ASSUME NEW c \in Links, NEW fs \in SUBSET Families, NEW a \in Families \cup {"none"},
             Snapshot(c, fs, a)
      PROVE  LatencyInv'
  BY <1>3, SnapshotInv
<1>4. ASSUME NEW c \in Links, ListInitial(c) PROVE LatencyInv'
  BY <1>4, ListsInv DEF ListInitial, Senders
<1>5. ASSUME NEW c \in Links, WriteInitial(c) PROVE LatencyInv'
  <2>1. (c = link) \in BOOLEAN
    OBVIOUS
  <2> QED
    BY <1>5, <2>1, DeliversInv DEF WriteInitial, Senders
<1>6. ASSUME NEW t \in Senders, ListForNode(t) PROVE LatencyInv'
  BY <1>6, ListsInv DEF ListForNode
<1>7. ASSUME NEW t \in Senders, SendConfig(t) PROVE LatencyInv'
  <2>1. (link # 0) \in BOOLEAN
    OBVIOUS
  <2> QED
    BY <1>7, <2>1, DeliversInv DEF SendConfig
<1>8. ASSUME NEW t \in Senders, NotOnline(t) \/ SendFails(t) PROVE LatencyInv'
  BY <1>8, NotOnlineInv, SendFailsInv
<1>9. CASE Connect \/ Disconnect
  BY <1>9, ConnectInv, DisconnectInv
<1>10. CASE UNCHANGED latencyVars
  BY <1>10 DEF latencyVars, monitorVars, nodeVars, linkVars, LatencyInv, LatencyTypes,
               LatencyTypeOK, LinksInOrder, OneList, Carrying, ConfigUnderWay, Preparing,
               Reaches, Listed, Exists, AssignmentsFollowFamilies
<1> QED
  BY <1>1, <1>2, <1>3, <1>4, <1>5, <1>6, <1>7, <1>8, <1>9, <1>10 DEF LatencyNext

LEMMA LatencyInvariant == LatencySpec => []LatencyInv
BY LatencyInitInv, LatencyStep, PTL DEF LatencySpec

\* The tables, lists and configurations of the latency monitors keep their
\* types: no assignment or list names an unknown monitor.
THEOREM LatencyTypeCorrect == LatencySpec => []LatencyTypeOK
<1>1. LatencyInv => LatencyTypeOK
  BY DEF LatencyInv, LatencyTypes
<1> QED
  BY LatencyInvariant, <1>1, PTL

\* The agent runs what is assigned to its node when no sender is under way
\* (syncLatencyMonitorsForNode, writeLatencyMonitorConfigToConn), for any
\* number of requests, monitors and connections, unless lists overlapped.
THEOREM ConfigurationConverges == LatencySpec => []ConfigConverges
<1>1. LatencyInv => ConfigConverges
  <2> SUFFICES ASSUME LatencyInv, link # 0, ~raced, ~lost,
                      \A t \in Senders : sending[t] = "idle"
               PROVE  config = Listed
    BY DEF ConfigConverges
  <2>1. \A t \in Senders : ~Preparing(t) /\ ~Reaches(t)
    BY DEF Preparing, Reaches
  <2> QED
    BY <2>1 DEF LatencyInv, ConfigUnderWay
<1> QED
  BY LatencyInvariant, <1>1, PTL

\* The assignments follow the address families of the node
\* (ApplyAgentSnapshot, pruneLatencyMonitorAssignmentsForNodeWith), for any
\* number of families and monitors.
THEOREM FamiliesAreFollowed == LatencySpec => []AssignmentsFollowFamilies
<1>1. LatencyInv => AssignmentsFollowFamilies
  BY DEF LatencyInv
<1> QED
  BY LatencyInvariant, <1>1, PTL

=============================================================================
