CONSTANTS
    Ids <- MCIds
    QueueLimit = 2
    MaxPackets = 12
    Servers = {"VULCAN", "VERUS"}
    Starts <- MCPlainStarts
    MaxLag = 1
    MaxSent = 4
    MaxSessions = 2

SPECIFICATION GSpec

INVARIANT
    SwitchToVerusIsDetected

CHECK_DEADLOCK FALSE
