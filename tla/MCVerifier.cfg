\* Two PEPs, the first with rival histories; fair scheduling.
CONSTANTS
    Keys = {"k1"}
    RequiredObserver = "posthoc"
    NoCp = NoCp
    NoToken = NoToken
    PEPs = {"p1", "p2"}
    SigningKey <- MCSigningKey
    Handlers = {"h1", "h2"}
    Requests <- MCRequests
    ExpectedMeasurement = "m"
    ExpectedPolicyHash = "pol"
    AllowedScope = {"web", "db"}
    MaxSALifetime = 3
    MaxTime = 1
SPECIFICATION FairSpec
INVARIANTS
    TypeOK
    AcceptedIsOneChain
    SentIsDurable
    ActiveIsLog
PROPERTY
    MemoryFollowsChain
    ImplementsService
    EveryRequestEnds
