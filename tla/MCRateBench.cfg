\* Three attempts, two at a time, answered or dropped, a metrics buffer of three and
\* records of earlier packets.
CONSTANTS
    N = 3
    MaxInflight = 2
    MetricsMax = 3
    Scenarios = {TRUE, FALSE}
    Earlier = 2
    NoResult = NoResult
SPECIFICATION FairSpec
CHECK_DEADLOCK FALSE
INVARIANTS ReportIsWhole MetricsAreNewest
PROPERTY BenchEnds
