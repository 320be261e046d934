SPECIFICATION MCSpec
CONSTANTS
    AlertConns = {1, 2}
    Capacities = {1, 2}
    DefaultCapacity = 2
    MaxChanges = 1
    MaxSamples = 1
    Evaluators = {e1, e2}
    Cooldown = 2
    RecoveryCooldown = 1
    RecoverySamples = 2
    MaxAlertTime = 2
    Providers = {mm, ip2l}
    DefaultProvider = mm
    LegacyFiles = {ip2l}
    GeoRequests = {r1, r2}
    MaxDownloads = 2
    MaxUpdates = 2
    Monitors = {m1}
    Families = {v4, v6}
    LatencyRequests = {q1, q2}
    MaxLinks = 1
    MaxEdits = 2
    Minute = 2
    Window = 4
    RawKeep = 6
    RollupKeep = 7
    MaxTime = 8
    MaxRows = 2
SYMMETRY Symmetry
INVARIANTS
    ServicesTypeOK
    CloseWaits
    CountersAgree
    ResolverCurrent
    SettingsPersisted
    ConfigConverges
    AssignmentsFollowFamilies
    SamplesKept
PROPERTIES
    NotificationsSound
    BucketsGrow
CHECK_DEADLOCK FALSE
