\* A small buffer, foreign lines, a failing command or monitor, start-up races,
\* in each mode; fair scheduling.
CONSTANTS
    Configurations <- Deployments
    NCommands = 3
    MinEvents = 2
    Cap = 6
    Keep = 3
    MaxTx = 3
    MaxForeign = 1
    MaxFaults = 1
SPECIFICATION FairSpec
CHECK_DEADLOCK FALSE
INVARIANTS TypeOK WindowAfterMark TableFollowsKernel NeverWithoutProbes
PROPERTY TransactionsEnd
