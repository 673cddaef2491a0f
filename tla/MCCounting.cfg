CONSTANTS
    Ids <- MCIds
    QueueLimit = 2
    MaxPackets = 12
    Servers = {"VERUS"}
    Starts <- MCCountingStarts
    MaxLag = 1
    MaxSent = 5
    MaxSessions = 1

SPECIFICATION GSpec

INVARIANT
    CountingIsNotVulcan

CHECK_DEADLOCK FALSE
