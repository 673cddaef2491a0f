CONSTANTS
    Ids <- MCIds
    QueueLimit = 2
    MaxPackets = 12
    Servers = {"VULCAN", "KARHU", "GRIM", "AGC", "INTAVE", "VERUS"}
    Starts <- MCStarts
    MaxLag = 2
    MaxSent = 4
    MaxSessions = 3

SPECIFICATION GSpec

INVARIANTS
    GTypeOK
    DetectedAtSecondPacket
    PendingIsSuffix
    ReportStays

CHECK_DEADLOCK FALSE
