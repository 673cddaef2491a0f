CONSTANTS
    a = a
    b = b
    c = c
    NUL = NUL
    Chars <- MCChars
    Names <- MCNames
    SHARED_MEM_SIZE = 4
    max_retries = 3
    MaxNotifications = 3
    Failures = {"CreateEventA", "CreateFileMappingA", "MapViewOfFile", "detach",
                "SetEvent", "GetConsoleMode", "WaitForSingleObject"}

SPECIFICATION FairSpec

INVARIANTS
    TypeOK
    NoLostWakeup
PROPERTIES
    ImplementsSafeRegister
    SettledDetectionIsPrinted

CHECK_DEADLOCK FALSE
