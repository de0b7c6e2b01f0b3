\* Copies of a packet from a clock ahead, lost calls and answers, two starts with
\* different seed files, a PDP that restarts and a PIP that stops; fair scheduling.
CONSTANTS
    ClientKeys <- OneKey
    Seeds <- Files
    NoRow = NoRow
    MaxStarts = 2
    Handlings = {g1, g2}
    PacketIds = {p1}
    Forms <- OldPSK
    Offsets <- Ahead
    Skew = 1
    TTL = 1
    ClientWait = 1
    Lifetime = 2
    NoPacket = NoPacket
    NoHandling = NoHandling
    MaxTime = 3
    MaxRestarts = 1
SPECIFICATION FairSpec
CHECK_DEADLOCK FALSE
INVARIANTS TypeOK SerialReplayDropped TunnelsAreGranted ServesSeed
PROPERTIES AcceptedTunnelLives AttemptsSettle
