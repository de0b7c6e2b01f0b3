\* Dry-run mode, where sessions survive a restart; fair scheduling.
CONSTANTS
    Keys = {k1, k2}
    RequiredObserver = "dry-run"
    NoCp = NoCp
    Activators = {a1}
    Services = {"svc-http", "svc-other"}
    Scope = {"svc-http"}
    ApplyMode = FALSE
    ObserverMode = "posthoc"
    NCommands = 2
    SALifetime = 1
    MaxSALifetime = 1
    TokenTTL = 1
    Margin = 0
    MaxHost = 1
    BootTries = 2
    NoToken = NoToken
    NoEvidence = NoEvidence
    FaultKinds = {}
    MaxFaults = 1
    MaxCrashes = 1
    MaxTime = 1
CHECK_DEADLOCK FALSE
SPECIFICATION FairSpec
INVARIANTS
    TypeOK
    DistinctAddresses
PROPERTIES
    ExpiredSessionsGo
    StartupSucceeds
