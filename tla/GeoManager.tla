------------------------------ MODULE GeoManager ------------------------------
(***************************************************************************)
(* The offline GeoIP databases of the server (internal/geo): the settings, *)
(* in memory and in app_settings, the database file of each provider, and  *)
(* the resolver that has one of them open.  Requests save settings,        *)
(* download a database and reload it, or look an address up, concurrently; *)
(* the manager's lock is released between their steps.                     *)
(*                                                                         *)
(* A database file is its version, numbered in the order of the downloads; *)
(* some versions cannot be opened.                                         *)
(***************************************************************************)
EXTENDS Naturals, FiniteSets

CONSTANTS
    Providers,       \* maxmind and ip2location
    DefaultProvider, \* the one of a server without settings
    LegacyFiles,     \* providers with a file in the historical directory
    GeoRequests,     \* concurrent requests
    MaxDownloads,    \* bound: versions downloaded
    MaxUpdates       \* bound: changes of the settings

ASSUME GeoAssumption ==
    /\ DefaultProvider \in Providers
    /\ LegacyFiles \subseteq Providers
    /\ MaxDownloads \in Nat /\ MaxUpdates \in Nat

Missing == 0      \* no file
Shipped == 1      \* the version an installation starts with
Versions == Shipped..MaxDownloads + 1
NoResolver == <<>>

Settings == [provider : Providers, keys : SUBSET Providers]

VARIABLES
    settings,   \* m.settings: the provider, and those with a key or token
    stored,     \* app_settings: the same
    files,      \* the version in the managed directory
    corrupt,    \* versions that cannot be opened
    versions,   \* the newest version so far
    resolver,   \* m.resolver: <<provider, version>> that is open
    lastError,  \* m.lastError is not empty
    request,    \* where each request is
    reads,      \* what it read under the lock: settings, or nothing
    updates,    \* changes so far, counted for the bound
    astray,     \* history: updates overlapped or were not stored
    unread      \* history: started without the settings, not reloaded since

geoVars == <<settings, stored, files, corrupt, versions, resolver, lastError,
             request, reads, updates, astray, unread>>
fileVars == <<files, corrupt, versions>>

DefaultSettings == [provider |-> DefaultProvider, keys |-> {}]

-----------------------------------------------------------------------------

\* managedDatabasePath: the managed file, or the historical one.
DatabaseAt(fs, p) ==
    CASE fs[p] # Missing -> fs[p]
      [] fs[p] = Missing /\ p \in LegacyFiles -> Shipped
      [] OTHER -> Missing

\* A file that is not there is opened.
OpenedFault(fs, bad, p) ==
    IF DatabaseAt(fs, p) \in bad THEN NoResolver ELSE <<p, DatabaseAt(fs, p)>>

\* NewResolver: what opening the database of p gives.
Opened(fs, bad, p) ==
    IF DatabaseAt(fs, p) \in {Missing} \cup bad
    THEN NoResolver
    ELSE <<p, DatabaseAt(fs, p)>>

\* A resolver that is open for the provider is kept.
ReloadFault(s) ==
    /\ resolver' = IF resolver # NoResolver /\ resolver[1] = s.provider
                   THEN resolver
                   ELSE Opened(files, corrupt, s.provider)
    /\ lastError' = (resolver' = NoResolver)
    /\ unread' = FALSE

\* reloadLocked: the resolver is closed and the provider's database opened.
Reload(s) ==
    /\ resolver' = Opened(files, corrupt, s.provider)
    /\ lastError' = (resolver' = NoResolver)
    /\ unread' = FALSE

\* A server that starts on files of an installation: openGeoIPManager.
GeoInit ==
    /\ settings = DefaultSettings
    /\ stored = DefaultSettings
    /\ files \in [Providers -> {Missing, Shipped}]
    /\ corrupt = {} /\ versions = Shipped
    /\ resolver = Opened(files, corrupt, DefaultProvider)
    /\ lastError = (resolver = NoResolver)
    /\ request = [r \in GeoRequests |-> "idle"]
    /\ reads = [r \in GeoRequests |-> DefaultSettings]
    /\ updates = 0
    /\ astray = FALSE /\ unread = FALSE

\* Request r goes from step a to step b, with what it has read.
Turns(r, a, b, value) ==
    /\ request[r] = a
    /\ request' = [request EXCEPT ![r] = b]
    /\ reads' = [reads EXCEPT ![r] = value]

\* The provider of the update, and one key set or cleared.
NextSettings(p, k, has) ==
    [provider |-> p,
     keys |-> IF has THEN settings.keys \cup {k} ELSE settings.keys \ {k}]

\* UpdateSettings, under the lock: memory and the resolver change.
UpdateSettings(r, p, k, has) ==
    /\ updates < MaxUpdates
    /\ updates' = updates + 1
    /\ Turns(r, "idle", "updated", DefaultSettings)
    /\ settings' = NextSettings(p, k, has)
    /\ Reload(settings')
    /\ astray' = \E o \in GeoRequests : request[o] \in {"updated", "storing"}
    /\ UNCHANGED <<stored, fileVars>>

\* The keys are left out of what is stored.
ReadBackFault(r) == [settings EXCEPT !.keys = {}]

\* handleUpdateGeoIPSettings reads the settings again to store them.
ReadBack(r) == settings

ReadSettings(r) ==
    /\ Turns(r, "updated", "storing", ReadBack(r))
    /\ UNCHANGED <<settings, stored, fileVars, resolver, lastError, updates, astray, unread>>

\* UpsertGeoIPSettings, which may fail.
StoreSettings(r) ==
    /\ Turns(r, "storing", "idle", DefaultSettings)
    /\ \/ stored' = reads[r] /\ UNCHANGED astray
       \/ astray' = TRUE /\ UNCHANGED stored
    /\ UNCHANGED <<settings, fileVars, resolver, lastError, updates, unread>>

\* RefreshDatabase notes the provider and its key.
StartRefresh(r) ==
    /\ Turns(r, "idle", "fetching", settings)
    /\ UNCHANGED <<settings, stored, fileVars, resolver, lastError, updates, astray, unread>>

\* No key, no answer, an error page, no such file in the archive, or no room
\* for it: the resolver stays.
FetchFails(r) ==
    /\ Turns(r, "fetching", "idle", DefaultSettings)
    /\ lastError' = TRUE
    /\ UNCHANGED <<settings, stored, fileVars, resolver, updates, astray, unread>>

\* writeFileAtomic puts the new version, good or bad, in the old one's place.
FetchDone(r, good) ==
    /\ versions <= MaxDownloads
    /\ reads[r].provider \in reads[r].keys
    /\ Turns(r, "fetching", "fetched", reads[r])
    /\ versions' = versions + 1
    /\ files' = [files EXCEPT ![reads[r].provider] = versions']
    /\ corrupt' = IF good THEN corrupt ELSE corrupt \cup {versions'}
    /\ UNCHANGED <<settings, stored, resolver, lastError, updates, astray, unread>>

\* RefreshDatabase reloads whichever provider is now in the settings.
FinishRefresh(r) ==
    /\ Turns(r, "fetched", "idle", DefaultSettings)
    /\ Reload(settings)
    /\ UNCHANGED <<settings, stored, fileVars, updates, astray>>

\* The server stops and starts again: openGeoIPManager applies the stored
\* settings, or stays without a resolver when they cannot be read.
RestartServer(readable) ==
    /\ request' = [r \in GeoRequests |-> "idle"]
    /\ reads' = [r \in GeoRequests |-> DefaultSettings]
    /\ IF readable
       THEN settings' = stored /\ Reload(stored) /\ astray' = FALSE
       ELSE /\ settings' = DefaultSettings
            /\ resolver' = NoResolver /\ lastError' = FALSE
            /\ astray' = TRUE /\ unread' = TRUE
    /\ UNCHANGED <<stored, fileVars, updates>>

GeoNext ==
    \/ \E r \in GeoRequests :
        \/ \E p \in Providers, k \in Providers, has \in BOOLEAN :
               UpdateSettings(r, p, k, has)
        \/ ReadSettings(r) \/ StoreSettings(r)
        \/ StartRefresh(r) \/ FetchFails(r) \/ FinishRefresh(r)
        \/ \E good \in BOOLEAN : FetchDone(r, good)
    \/ \E readable \in BOOLEAN : RestartServer(readable)

GeoSpec == GeoInit /\ [][GeoNext]_geoVars

-----------------------------------------------------------------------------

GeoTypeOK ==
    /\ settings \in Settings /\ stored \in Settings
    /\ files \in [Providers -> Versions \cup {Missing}]
    /\ corrupt \subseteq Versions /\ versions \in Versions
    /\ resolver \in (Providers \X Versions) \cup {NoResolver}
    /\ lastError \in BOOLEAN /\ astray \in BOOLEAN /\ unread \in BOOLEAN
    /\ request \in [GeoRequests -> {"idle", "updated", "storing", "fetching", "fetched"}]
    /\ reads \in [GeoRequests -> Settings]
    /\ updates \in 0..MaxUpdates

\* Lookups use the file that is on disk for the provider in the settings,
\* except between a download and its reload: also after a change of the
\* provider while a database is downloaded (RefreshDatabase, reloadLocked).
ResolverCurrent ==
    ~unread /\ (\A r \in GeoRequests : request[r] # "fetched")
        => resolver = Opened(files, corrupt, settings.provider)

\* The stored settings are those in memory when no update is under way, unless
\* updates overlapped or one was not stored (handleUpdateGeoIPSettings).
SettingsPersisted ==
    ~astray /\ (\A r \in GeoRequests : request[r] \notin {"updated", "storing"})
        => stored = settings

=============================================================================
