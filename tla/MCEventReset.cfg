CONSTANTS
    a = a
    b = b
    c = c
    NUL = NUL
    Chars <- MCChars
    Names <- MCNames
    SHARED_MEM_SIZE = 4
    max_retries = 2
    MaxNotifications = 1
    Failures = {}

SPECIFICATION FairSpec

PROPERTY
    EventIsReset

CHECK_DEADLOCK FALSE
