CONSTANTS
    a = a
    b = b
    c = c
    NUL = NUL
    Ids <- MCIds
    QueueLimit = 1
    MaxPackets = 3
    Chars <- MCChars
    getAnticheatName <- MCNameOf
    SHARED_MEM_SIZE = 3
    max_retries = 2
    MaxNotifications = 3
    Failures = {"CreateEventA", "CreateFileMappingA", "MapViewOfFile", "detach",
                "SetEvent", "GetConsoleMode", "WaitForSingleObject"}

SPECIFICATION FairDSpec

INVARIANTS
    BlockHoldsReport
PROPERTIES
    PrintsCurrentReport
    ReportIsPrinted

CHECK_DEADLOCK FALSE
