\* Hybrid observer, one failure of any kind and one crash.
CONSTANTS
    Keys = {k1, k2}
    RequiredObserver = "hybrid"
    NoCp = NoCp
    Activators = {a1}
    Services = {"svc-http", "no_service"}
    Scope = {"svc-http"}
    ApplyMode = TRUE
    ObserverMode = "hybrid"
    NCommands = 2
    SALifetime = 1
    MaxSALifetime = 1
    TokenTTL = 3
    Margin = 2
    MaxHost = 2
    BootTries = 2
    NoToken = NoToken
    NoEvidence = NoEvidence
    FaultKinds = {"persist", "command", "observe", "network"}
    MaxFaults = 1
    MaxCrashes = 1
    MaxTime = 1
SYMMETRY Symmetry
SPECIFICATION Spec
INVARIANTS
    Continuity
    NoHiddenTunnel
    KernelAccounted
    TableIsKernel
    SoundSubmissions
PROPERTY
    DurableHistoryGrows
CHECK_DEADLOCK FALSE
