CONSTANTS
    Keys = {}
    RequiredObserver = "posthoc"
    NoCp = NoCp
    Activators = {}
    Services = {"svc-http"}
    Scope = {"svc-http"}
    ApplyMode = TRUE
    ObserverMode = "posthoc"
    NCommands = 2
    SALifetime = 1
    MaxSALifetime = 1
    TokenTTL = 2
    Margin = 1
    MaxHost = 1
    BootTries = 2
    NoToken = NoToken
    NoEvidence = NoEvidence
    FaultKinds = {}
    MaxFaults = 0
    MaxCrashes = 1
    MaxTime = 2
CHECK_DEADLOCK FALSE
SPECIFICATION FairSpec
PROPERTY ReplayConcludes
