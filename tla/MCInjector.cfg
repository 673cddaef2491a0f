CONSTANTS
    MaxGames = 3
    Failures = {"CreateToolhelp32Snapshot", "OpenProcess", "VirtualAllocEx", "WriteProcessMemory",
                "GetProcAddress", "CreateRemoteThread", "WaitForSingleObject"}
    Typed = {full, relative, folder, text}
    DotDll = {full, relative, folder}
    Folders = {folder}
    Relative = {relative}

SPECIFICATION FairSpec

INVARIANTS
    TypeOK
    NearestCopyWins
    NothingLeaks
    PathOutlivesThread
    InjectsNewGame
    KeptModuleIsLoaded
PROPERTIES
    PollingInjects

CHECK_DEADLOCK FALSE
