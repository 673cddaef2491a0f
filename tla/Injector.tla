------------------------------- MODULE Injector -------------------------------
(***************************************************************************)
(* The injector (external/main.cpp, process.cpp, injection.cpp): look the   *)
(* module up, wait for a Minecraft that started after the injector did,     *)
(* have a remote thread in it load the module, then listen.  The game       *)
(* starts and ends at any time, between any two calls; every Windows call   *)
(* that takes something, and the wait for the thread, can fail, while what  *)
(* is held can be released.                                                 *)
(***************************************************************************)
EXTENDS DllLookup, Integers

CONSTANTS
    MaxGames,  \* bound on the games started; the k-th one has process id k
    Failures   \* the calls that may fail, see PossibleFailures

PossibleFailures ==
    {"CreateToolhelp32Snapshot", "OpenProcess", "VirtualAllocEx",
     "WriteProcessMemory", "GetProcAddress", "CreateRemoteThread", "LoadLibraryA",
     "WaitForSingleObject"}

ASSUME MaxGamesAssumption == MaxGames \in Nat
ASSUME InjectorFailuresAssumption == Failures \subseteq PossibleFailures

VARIABLES
    game,          \* the process id of the running javaw.exe, 0 without one
    games,         \* games started so far
    loaded,        \* the games the module has been loaded into
    pc,            \* where main is
    processId,     \* main's processId
    hProcess,      \* injectDLL's handle: "none", "open" or "closed"
    path,          \* the path in the game: "none", "allocated", "written", "free"
    remoteThread,  \* LoadLibraryA in the game: "none", "running" or "done"
    hRemoteThread, \* injectDLL's handle of that thread
    abandoned,     \* history: the wait for that thread failed while it ran
    seenAbsent,    \* history: games started when a scan last found none
    blinded        \* history: a failed scan has passed for an absent game

gameVars == <<game, games>>
threadVars == <<remoteThread, hRemoteThread, abandoned>>
dllVars == <<hProcess, path, threadVars>>
scanVars == <<seenAbsent, blinded>>
vars == <<gameVars, loaded, pc, processId, dllVars, scanVars, lookupVars>>

Handle == {"none", "open", "closed"}

TypeOK ==
    /\ games \in 0 .. MaxGames
    /\ game \in {0, games}
    /\ loaded \subseteq 1 .. MaxGames
    /\ pc \in {"lookup", "start", "waitClose", "poll", "open", "alloc", "write", "resolve",
               "create", "wait", "release", "listen", "finished"}
    /\ processId \in 0 .. games
    /\ hProcess \in Handle
    /\ path \in {"none", "allocated", "written", "free"}
    /\ remoteThread \in {"none", "running", "done"}
    /\ hRemoteThread \in Handle
    /\ abandoned \in BOOLEAN
    /\ seenAbsent \in -1 .. games
    /\ blinded \in BOOLEAN
    /\ LookupTypeOK

(* The injector is started while a game runs, or before. *)
Init ==
    /\ games \in {0, 1} \intersect 0 .. MaxGames
    /\ game = games
    /\ loaded = {}
    /\ pc = "lookup"
    /\ processId = 0
    /\ hProcess = "none"
    /\ path = "none"
    /\ remoteThread = "none"
    /\ hRemoteThread = "none"
    /\ abandoned = FALSE
    /\ seenAbsent = -1
    /\ blinded = FALSE
    /\ LookupInit

-----------------------------------------------------------------------------
(* The player. *)
GameStarts ==
    /\ game = 0
    /\ games < MaxGames
    /\ games' = games + 1
    /\ game' = games'
    /\ UNCHANGED <<loaded, pc, processId, dllVars, scanVars, lookupVars>>

(* Mutant of ThreadAfterExit: the thread survives its process. *)
ThreadSurvives(thread) == thread

(* Its memory and its threads go with the process. *)
ThreadAfterExit(thread) == IF thread = "running" THEN "done" ELSE thread

GameEnds ==
    /\ game # 0
    /\ game' = 0
    /\ path' = IF game = processId /\ path \in {"allocated", "written"}
               THEN "free" ELSE path
    /\ remoteThread' = ThreadAfterExit(remoteThread)
    /\ UNCHANGED <<games, loaded, pc, processId, hProcess, hRemoteThread, abandoned,
                   scanVars, lookupVars>>

-----------------------------------------------------------------------------
(* The first call of main; the injector ends with an exception it throws.   *)
FindDllPath ==
    /\ pc = "lookup"
    /\ Lookup
    /\ pc' = CASE looking' = "found"   -> "start"
               [] looking' = "aborted" -> "finished"
               [] OTHER                -> "lookup"
    /\ UNCHANGED <<gameVars, loaded, processId, dllVars, scanVars>>

(* Files and input change at any time. *)
Surroundings ==
    /\ LookupEnvironment
    /\ UNCHANGED <<gameVars, loaded, pc, processId, dllVars, scanVars>>

(* getProcessIdByName: a failed snapshot looks like no process. *)
Scan(pid) ==
    \/ pid = game
    \/ pid = 0 /\ "CreateToolhelp32Snapshot" \in Failures

(* What the scan was worth, for the properties. *)
Recall(pid) ==
    /\ seenAbsent' = IF game = 0 THEN games ELSE seenAbsent
    /\ blinded' = (blinded \/ pid # game)

Saw(pid) ==
    /\ processId' = pid
    /\ Recall(pid)
    /\ UNCHANGED <<gameVars, loaded, dllVars, lookupVars>>

(* Mutant of AfterFirstScan: a running game is as good as a new one. *)
NoNeedToClose(pid) == "poll"

(* A game that is already running has to be closed first. *)
AfterFirstScan(pid) == IF pid = 0 THEN "poll" ELSE "waitClose"

FirstScan ==
    /\ pc = "start"
    /\ \E pid \in {0, game} :
        /\ Scan(pid)
        /\ Saw(pid)
        /\ pc' = AfterFirstScan(pid)

(* One scan a second; processId keeps the id of the first scan. *)
WaitClose ==
    /\ pc = "waitClose"
    /\ \E pid \in {0, game} :
        /\ Scan(pid)
        /\ pc' = IF pid = 0 THEN "poll" ELSE "waitClose"
        /\ Recall(pid)
    /\ UNCHANGED <<gameVars, loaded, processId, dllVars, lookupVars>>

Poll ==
    /\ pc = "poll"
    /\ \E pid \in {0, game} :
        /\ Scan(pid)
        /\ Saw(pid)
        /\ pc' = IF pid = 0 THEN "poll" ELSE "open"

-----------------------------------------------------------------------------
(* injectDLL.  A call on the game can succeed only while the game runs.     *)
Succeeds == game = processId
Fails(call) == call \in Failures \/ game # processId

(* An error path: release what that path releases, and halt. *)
Abort(held) ==
    /\ pc' = "finished"
    /\ hProcess' = IF "hProcess" \in held THEN "closed" ELSE hProcess
    /\ path' = IF "path" \in held THEN "free" ELSE path
    /\ UNCHANGED threadVars

Elsewhere == UNCHANGED <<gameVars, loaded, processId, scanVars, lookupVars>>

OpenProcess ==
    /\ pc = "open"
    /\ \/ /\ Succeeds
          /\ hProcess' = "open"
          /\ pc' = "alloc"
          /\ UNCHANGED <<path, threadVars>>
       \/ Fails("OpenProcess") /\ Abort({})
    /\ Elsewhere

VirtualAllocEx ==
    /\ pc = "alloc"
    /\ \/ /\ Succeeds
          /\ path' = "allocated"
          /\ pc' = "write"
          /\ UNCHANGED <<hProcess, threadVars>>
       \/ Fails("VirtualAllocEx") /\ Abort({"hProcess"})
    /\ Elsewhere

(* Mutant of HeldAtWrite: the memory is forgotten. *)
HeldAtWriteLeak == {"hProcess"}

(* What the error path after a failed write releases. *)
HeldAtWrite == {"path", "hProcess"}

WriteProcessMemory ==
    /\ pc = "write"
    /\ \/ /\ Succeeds
          /\ path' = "written"
          /\ pc' = "resolve"
          /\ UNCHANGED <<hProcess, threadVars>>
       \/ Fails("WriteProcessMemory") /\ Abort(HeldAtWrite)
    /\ Elsewhere

(* GetModuleHandle and GetProcAddress, in the injector's own process; then  *)
(* half a second of sleep.                                                  *)
ResolveLoadLibrary ==
    /\ pc = "resolve"
    /\ \/ /\ pc' = "create"
          /\ UNCHANGED dllVars
       \/ "GetProcAddress" \in Failures /\ Abort({"path", "hProcess"})
    /\ Elsewhere

CreateRemoteThread ==
    /\ pc = "create"
    /\ \/ /\ Succeeds
          /\ remoteThread' = "running"
          /\ hRemoteThread' = "open"
          /\ pc' = "wait"
          /\ UNCHANGED <<hProcess, path, abandoned>>
       \/ Fails("CreateRemoteThread") /\ Abort({"path", "hProcess"})
    /\ Elsewhere

(* What the game finds under the path: a relative one is searched for in    *)
(* the game's folders, not in the injector's; one that has been freed may   *)
(* have been read before or not (or the game dies of it, see GameEnds).     *)
MayFind == dllPath \in Relative \/ dllPath \in files \ Folders
MayMiss == dllPath \in Relative \/ dllPath \notin files \ Folders \/ path # "written"

(* The thread in the game; its exit code is not looked at. *)
LoadLibraryA ==
    /\ remoteThread = "running"
    /\ remoteThread' = "done"
    /\ \/ MayFind /\ loaded' = loaded \union {game}
       \/ MayMiss /\ UNCHANGED loaded
       \/ "LoadLibraryA" \in Failures /\ UNCHANGED loaded
    /\ UNCHANGED <<gameVars, pc, processId, hProcess, path, hRemoteThread, abandoned,
                   scanVars, lookupVars>>

(* Mutants of WaitReturns: a timeout, and waiting for a load that worked. *)
WaitReturnsAnyTime(thread) == TRUE

WaitReturnsOnLoad(thread) == thread = "done" /\ processId \in loaded

(* WaitForSingleObject(hRemoteThread, INFINITE), ... *)
WaitReturns(thread) == thread = "done"

(* ... whose result is dropped: after a wait that failed, injectDLL goes on *)
(* as if the thread had ended.                                              *)
WaitForThread ==
    /\ pc = "wait"
    /\ \/ WaitReturns(remoteThread) /\ UNCHANGED abandoned
       \/ /\ "WaitForSingleObject" \in Failures
          /\ abandoned' = (remoteThread = "running")
    /\ pc' = "release"
    /\ UNCHANGED <<hProcess, path, remoteThread, hRemoteThread>>
    /\ Elsewhere

Release ==
    /\ pc = "release"
    /\ hRemoteThread' = "closed"
    /\ path' = "free"
    /\ hProcess' = "closed"
    /\ pc' = "listen"
    /\ UNCHANGED <<remoteThread, abandoned>>
    /\ Elsewhere

(* listenForDetection gives up when the module's event does not appear in   *)
(* time, whether the module was loaded or not.                              *)
ListenForDetection ==
    /\ pc = "listen"
    /\ pc' = "finished"
    /\ UNCHANGED dllVars
    /\ Elsewhere

-----------------------------------------------------------------------------
Player == GameStarts \/ GameEnds
InjectDLL ==
    \/ OpenProcess \/ VirtualAllocEx \/ WriteProcessMemory \/ ResolveLoadLibrary
    \/ CreateRemoteThread \/ WaitForThread \/ Release
Main == FindDllPath \/ FirstScan \/ WaitClose \/ Poll \/ InjectDLL

Next == Player \/ Surroundings \/ Main \/ LoadLibraryA \/ ListenForDetection

Spec == Init /\ [][Next]_vars

(* A wait may fail, but does not have to. *)
MainRuns == Main /\ (pc = "wait" => WaitReturns(remoteThread))

(* The injector and the thread it started keep running; the player need not *)
(* do anything, and the listener may wait for ever.  A process snapshot     *)
(* that is taken again and again does not fail for ever.                    *)
FairSpec ==
    /\ Spec
    /\ WF_vars(MainRuns)
    /\ WF_vars(LoadLibraryA)
    /\ SF_vars(Poll /\ pc' = "open")

-----------------------------------------------------------------------------
(* Wherever injectDLL returns, on success or on one of its six error paths, *)
(* and whenever the game died on it, no handle and no memory is left.       *)
NothingLeaks ==
    pc \in {"listen", "finished"} =>
        /\ hProcess # "open"
        /\ hRemoteThread # "open"
        /\ path \notin {"allocated", "written"}

(* The path is there as long as the thread that reads it runs, unless the   *)
(* wait for it failed: injection.cpp:61 does not look at the result.        *)
PathOutlivesThread == remoteThread = "running" => path = "written" \/ abandoned

(* A game that was running when the injector started is never injected:     *)
(* "Restart it to start the injection" (main.cpp:14).  The process injected *)
(* was started after a scan that ran while there was none, unless a scan    *)
(* failed: getProcessIdByName cannot say so, and main goes on.              *)
InjectsNewGame ==
    pc \notin {"lookup", "start", "waitClose", "poll", "finished"} /\ ~ blinded =>
        seenAbsent >= 0 /\ processId > seenAbsent

(* A file that was found and is still there is the module that the game     *)
(* loads, however long the player took to start the game, unless the player *)
(* typed a relative path or a folder's (utils.cpp:69 accepts both) or the   *)
(* path was freed under the thread.                                         *)
KeptModuleIsLoaded ==
    (/\ pc = "listen" /\ game = processId
     /\ ~ removed /\ dllPath \notin Relative \union Folders
     /\ ~ abandoned /\ "LoadLibraryA" \notin Failures)
        => processId \in loaded

(* Once main polls, a game that stays up is injected, or the attempt halts. *)
PollingInjects ==
    <>(pc = "poll") /\ <>[](game # 0) => <>(pc \in {"listen", "finished"})

=============================================================================
