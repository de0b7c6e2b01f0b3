CONSTANTS
    Keys = {"k1"}
    RequiredObserver = "hybrid"
    NoCp = NoCp
    Candidates <- MCCandidates
    Times = {1, 2}
    MaxSALifetime = 2
    Scope = {"web"}
    MaxDelta = 7
    MaxEvents = 8
SPECIFICATION Spec
INVARIANTS
    AppraisalIsReference
    TrackedIsHistory
    DeletionsFollowExpiry
CHECK_DEADLOCK FALSE
