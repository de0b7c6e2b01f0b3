CONSTANTS
    Keys = {k1, k2}
    RequiredObserver = "posthoc"
    NoCp = NoCp
    Activators = {a1, a2}
    Services = {"svc-http"}
    Scope = {"svc-http"}
    ApplyMode = TRUE
    ObserverMode = "posthoc"
    NCommands = 2
    SALifetime = 1
    MaxSALifetime = 1
    TokenTTL = 3
    Margin = 2
    MaxHost = 2
    BootTries = 2
    NoToken = NoToken
    NoEvidence = NoEvidence
    FaultKinds = {"command"}
    MaxFaults = 1
    MaxCrashes = 1
    MaxTime = 1
CHECK_DEADLOCK FALSE
SPECIFICATION Spec
SYMMETRY Symmetry
INVARIANT RefusesInterrupted
