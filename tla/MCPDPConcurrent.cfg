\* Two copies of a packet handled at the same time.
CONSTANTS
    ClientKeys <- OneKey
    Seeds <- GoodFile
    NoRow = NoRow
    MaxStarts = 1
    Handlings = {g1, g2}
    PacketIds = {p1}
    Forms <- OnlyGood
    Offsets <- InStep
    Skew = 1
    TTL = 1
    ClientWait = 1
    Lifetime = 2
    NoPacket = NoPacket
    NoHandling = NoHandling
    MaxTime = 3
    MaxRestarts = 0
SPECIFICATION Spec
CHECK_DEADLOCK FALSE
INVARIANT OneTunnelPerPacket
