---------------------------- MODULE Injector_proofs ----------------------------
(***************************************************************************)
(* Proofs about the injector and its lookup of the module.                  *)
(***************************************************************************)
EXTENDS Injector, TLAPS

-----------------------------------------------------------------------------
(* The lookup.  Until it ends, what was kept is there; what it returned is  *)
(* there until somebody removes it.                                         *)
LookupInv ==
    /\ LookupTypeOK
    /\ NearestCopyWins
    /\ looking # "found" => kept \subseteq files
    /\ looking = "found" /\ ~ removed => dllPath \in files

LEMMA PlacesDiffer == "exeDir" \notin Typed /\ "downloads" \notin Typed /\ "none" \notin Places
BY TypedAssumption DEF Places, Defaults

LEMMA InitLookupInv == LookupInit => LookupInv
BY PlacesDiffer
   DEF LookupInit, LookupInv, LookupTypeOK, NearestCopyWins, Places, Defaults

(* The lookup returns a place where there is something. *)
LEMMA ReturnsKeepsLookupInv ==
    ASSUME LookupInv, NEW p \in Places, Returns(p, TRUE),
           "exeDir" \in kept => p = "exeDir",
           "downloads" \in kept /\ downloads = "ascii" => p \notin Typed
    PROVE  LookupInv'
<1>1. /\ looking' = "found" /\ dllPath' = p /\ files' = {p}
      /\ UNCHANGED <<exeDir, downloads, input, kept, removed>>
  BY DEF Returns
<1> QED
  BY <1>1, PlacesDiffer DEF LookupInv, LookupTypeOK, NearestCopyWins

LEMMA GoesToKeepsLookupInv ==
    ASSUME LookupInv, NEW place \in {"downloads", "prompt", "aborted"},
           looking \in {"exeDir", "downloads", "prompt"}, GoesTo(place),
           "exeDir" \in kept => place = "aborted",
           "downloads" \in kept /\ downloads = "ascii" => place # "prompt"
    PROVE  LookupInv'
<1>1. looking' = place /\ UNCHANGED <<places, dllPath, input>>
  BY DEF GoesTo
<1> QED
  BY <1>1 DEF LookupInv, LookupTypeOK, NearestCopyWins, places

LEMMA LookupKeepsLookupInv == ASSUME LookupInv, Lookup PROVE LookupInv'
<1> USE DEF LookupInv
<1>1. CASE LookInExeDir
  <2>1. looking = "exeDir" /\ kept \subseteq files /\ "exeDir" \in Places
    BY <1>1 DEF LookInExeDir, Places, Defaults
  <2>2. CASE "exeDir" \in files /\ Returns("exeDir", TRUE)
    BY <2>1, <2>2, PlacesDiffer, ReturnsKeepsLookupInv
  <2>3. CASE "exeDir" \notin files /\ GoesTo("downloads")
    BY <2>1, <2>3, GoesToKeepsLookupInv
  <2>4. CASE GoesTo("aborted")
    BY <2>1, <2>4, GoesToKeepsLookupInv
  <2> QED
    BY <1>1, <2>2, <2>3, <2>4 DEF LookInExeDir, Throws
<1>2. CASE LookInDownloads
  <2>1. /\ looking = "downloads" /\ kept \subseteq files /\ "downloads" \in Places
        /\ "exeDir" \notin kept
    BY <1>2, PlacesDiffer DEF LookInDownloads, Places, Defaults, NearestCopyWins, LookupTypeOK
  <2>2. CASE Returns("downloads", TRUE)
    BY <2>1, <2>2, PlacesDiffer, ReturnsKeepsLookupInv
  <2>3. CASE ("downloads" \notin files \/ downloads # "ascii") /\ GoesTo("prompt")
    BY <2>1, <2>3, GoesToKeepsLookupInv
  <2>4. CASE GoesTo("aborted")
    BY <2>1, <2>4, GoesToKeepsLookupInv
  <2> QED
    BY <1>2, <2>2, <2>3, <2>4 DEF LookInDownloads, NamesDownloads, Throws
<1>3. CASE PromptThrows
  <2>1. looking = "prompt" /\ "exeDir" \notin kept
    BY <1>3, PlacesDiffer DEF PromptThrows, NearestCopyWins, LookupTypeOK
  <2> QED
    BY <1>3, <2>1, GoesToKeepsLookupInv DEF PromptThrows, Throws
<1>4. ASSUME NEW line \in Lines, NEW there \in BOOLEAN, Prompt(line, there) PROVE LookupInv'
  <2>1. /\ looking = "prompt" /\ "exeDir" \notin kept /\ line.path \in Places
        /\ ~ ("downloads" \in kept /\ downloads = "ascii")
    BY <1>4, PlacesDiffer DEF Prompt, NearestCopyWins, LookupTypeOK, Lines, Places
  <2>2. CASE Returns(line.path, TRUE)
    BY <2>1, <2>2, ReturnsKeepsLookupInv
  <2>3. CASE UNCHANGED lookupVars
    BY <2>3 DEF LookupTypeOK, NearestCopyWins, lookupVars, places
  <2>4. Returns(line.path, TRUE) \/ UNCHANGED lookupVars
    <3> DEFINE exists == there /\ ~ Unquoted(line).front /\ ~ Unquoted(line).back
    <3>1. IF exists /\ line.path \in DotDll THEN Returns(line.path, exists)
                                            ELSE UNCHANGED lookupVars
      BY <1>4 DEF Prompt, Accepts
    <3>2. Returns(line.path, exists) /\ exists => Returns(line.path, TRUE)
      BY DEF Returns
    <3> QED
      BY <3>1, <3>2
  <2> QED
    BY <2>2, <2>3, <2>4
<1> QED
  BY <1>1, <1>2, <1>3, <1>4 DEF Lookup

LEMMA SurroundingsKeepLookupInv == ASSUME LookupInv, LookupEnvironment PROVE LookupInv'
<1> USE DEF LookupInv
<1>1. CASE InputEnds
  BY <1>1 DEF InputEnds, LookupTypeOK, NearestCopyWins, places
<1>2. ASSUME NEW p \in Places, FileChanges(p) PROVE LookupInv'
  <2>1. /\ looking = "found" => p = dllPath /\ kept' = kept
        /\ looking # "found" => kept' = kept \ {p}
        /\ files' = IF p \in files THEN files \ {p} ELSE files \union {p}
        /\ removed' = (removed \/ (p = dllPath /\ p \in files))
        /\ UNCHANGED <<exeDir, downloads, looking, dllPath, input>>
    BY <1>2 DEF FileChanges
  <2>2. LookupTypeOK'
    BY <2>1 DEF LookupTypeOK
  <2>3. NearestCopyWins'
    BY <2>1 DEF NearestCopyWins
  <2>4. (looking # "found" => kept \subseteq files)'
    BY <2>1
  <2>5. (looking = "found" /\ ~ removed => dllPath \in files)'
    BY <2>1
  <2> QED
    BY <2>2, <2>3, <2>4, <2>5
<1> QED
  BY <1>1, <1>2 DEF LookupEnvironment

LEMMA LookupInvStays == ASSUME LookupInv, UNCHANGED lookupVars PROVE LookupInv'
BY DEF LookupInv, LookupTypeOK, NearestCopyWins, lookupVars, places

-----------------------------------------------------------------------------
(* The injection.                                                           *)
Before == {"lookup", "start", "waitClose", "poll", "open"}
Injecting == {"open", "alloc", "write", "resolve", "create", "wait", "release", "listen"}

NoThread == remoteThread = "none" /\ hRemoteThread = "none" /\ ~ abandoned
Unused == hProcess = "none" /\ path = "none" /\ NoThread

(* What injectDLL holds at each of its calls. *)
Held ==
    /\ pc \in Before => Unused
    /\ pc = "alloc" => path = "none"
    /\ pc \in {"alloc", "write", "resolve", "create"} => NoThread
    /\ pc = "wait" => ~ abandoned
    /\ pc \in {"resolve", "create", "wait"} /\ game = processId => path = "written"

(* The thread runs in the game that was found, and is waited for or was     *)
(* abandoned.                                                               *)
ThreadInGame ==
    remoteThread = "running" =>
        /\ game = processId /\ game # 0
        /\ pc = "wait" \/ (abandoned /\ pc \in {"release", "listen", "finished"})

(* After the lookup there is a path; the scans compare with the last absence. *)
Found == pc \notin {"lookup", "finished"} => looking = "found"

Scanned ==
    /\ game # 0 => seenAbsent < game
    /\ pc = "poll" /\ ~ blinded => seenAbsent >= 0
    /\ pc \in Injecting => processId # 0

(* What the thread has done when it is done. *)
Untouched ==
    /\ ~ removed
    /\ dllPath \notin Relative \union Folders
    /\ ~ abandoned
    /\ "LoadLibraryA" \notin Failures

LoadedWhenDone ==
    /\ pc \in {"wait", "release", "listen"}
    /\ remoteThread = "done"
    /\ game = processId
    /\ Untouched
    => processId \in loaded

(* From the creation of the thread on there is one. *)
ThreadCreated == pc \in {"wait", "release", "listen"} => remoteThread # "none"

IInv ==
    /\ TypeOK
    /\ LookupInv
    /\ NothingLeaks
    /\ Held
    /\ ThreadInGame
    /\ Found
    /\ Scanned
    /\ InjectsNewGame
    /\ ThreadCreated
    /\ LoadedWhenDone

LEMMA InitIInv == Init => IInv
<1> SUFFICES ASSUME Init PROVE IInv
  OBVIOUS
<1>1. LookupInv
  BY InitLookupInv DEF Init
<1>2. TypeOK
  <2>1. games \in 0 .. MaxGames /\ game \in {0, games} /\ -1 \in -1 .. games /\ 0 \in 0 .. games
    BY MaxGamesAssumption DEF Init
  <2>2. LookupTypeOK
    BY <1>1 DEF LookupInv
  <2> QED
    BY <2>1, <2>2 DEF Init, TypeOK, Handle
<1>3. /\ NothingLeaks /\ Held /\ ThreadInGame /\ Found /\ InjectsNewGame
      /\ ThreadCreated /\ LoadedWhenDone
  BY DEF Init, NothingLeaks, Held, Before, Unused, NoThread, ThreadInGame, Found,
         InjectsNewGame, ThreadCreated, LoadedWhenDone
<1>4. Scanned
  BY MaxGamesAssumption DEF Init, Scanned, Injecting
<1> QED
  BY <1>1, <1>2, <1>3, <1>4 DEF IInv

(* What follows from the conjuncts for a step that leaves alone what they   *)
(* speak of.                                                                *)
LEMMA FilesKeepIInv ==
    ASSUME IInv, LookupInv',
           UNCHANGED <<gameVars, loaded, pc, processId, dllVars, scanVars>>,
           looking = "found" => looking' = "found" /\ dllPath' = dllPath,
           removed => removed'
    PROVE  IInv'
<1> USE DEF IInv, NoThread, threadVars, gameVars, dllVars, scanVars
<1>1. TypeOK'
  BY DEF TypeOK, LookupInv
<1>2. (NothingLeaks /\ Held /\ ThreadInGame /\ Scanned /\ InjectsNewGame /\ ThreadCreated)'
  BY DEF NothingLeaks, Held, Unused, ThreadInGame, Scanned, InjectsNewGame, ThreadCreated
<1>3. Found'
  BY DEF Found
<1>4. LoadedWhenDone'
  BY DEF LoadedWhenDone, Untouched, Found
<1> QED
  BY <1>1, <1>2, <1>3, <1>4

LEMMA FindKeepsIInv == ASSUME IInv, FindDllPath PROVE IInv'
<1> USE DEF IInv, NoThread, threadVars
<1>1. /\ pc = "lookup" /\ Lookup
      /\ UNCHANGED <<gameVars, loaded, processId, dllVars, scanVars>>
      /\ pc' = IF looking' = "found" THEN "start"
               ELSE IF looking' = "aborted" THEN "finished" ELSE "lookup"
  BY DEF FindDllPath
<1>2. LookupInv'
  BY <1>1, LookupKeepsLookupInv
<1>3. pc' \in {"lookup", "start", "finished"}
  BY <1>1
<1>4. TypeOK'
  BY <1>1, <1>2, <1>3 DEF TypeOK, LookupInv, gameVars, dllVars, scanVars
<1>5. Unused /\ Unused'
  BY <1>1 DEF Held, Before, Unused, dllVars
<1>6. (NothingLeaks /\ Held /\ ThreadInGame /\ InjectsNewGame /\ ThreadCreated
            /\ LoadedWhenDone)'
  BY <1>3, <1>5 DEF NothingLeaks, Held, Unused, ThreadInGame, InjectsNewGame, ThreadCreated,
                    LoadedWhenDone
<1>7. Found'
  BY <1>1, <1>3 DEF Found
<1>8. Scanned'
  BY <1>1, <1>3 DEF Scanned, Injecting, gameVars, scanVars
<1> QED
  BY <1>2, <1>4, <1>6, <1>7, <1>8

LEMMA SurroundingsKeepIInv == ASSUME IInv, Surroundings PROVE IInv'
<1>1. LookupEnvironment /\ UNCHANGED <<gameVars, loaded, pc, processId, dllVars, scanVars>>
  BY DEF Surroundings
<1>2. LookupInv'
  BY <1>1, SurroundingsKeepLookupInv DEF IInv
<1>3. looking' = looking /\ dllPath' = dllPath /\ (removed => removed')
  <2>1. CASE InputEnds
    BY <2>1 DEF InputEnds, places
  <2>2. ASSUME NEW p \in Places, FileChanges(p)
        PROVE  looking' = looking /\ dllPath' = dllPath /\ (removed => removed')
    BY <2>2, Zenon DEF FileChanges
  <2> QED
    BY <1>1, <2>1, <2>2 DEF LookupEnvironment
<1> QED
  BY <1>1, <1>2, <1>3, FilesKeepIInv

LEMMA PlayerKeepsIInv == ASSUME IInv, Player PROVE IInv'
<1> USE DEF IInv, NoThread, threadVars, gameVars, dllVars, scanVars, lookupVars, places
<1>1. CASE GameStarts
  <2>1. /\ game = 0 /\ games < MaxGames /\ games' = games + 1 /\ game' = games + 1
        /\ UNCHANGED <<loaded, pc, processId, dllVars, scanVars, lookupVars>>
    BY <1>1 DEF GameStarts
  <2>2. games \in 0 .. MaxGames /\ MaxGames \in Nat /\ processId \in 0 .. games
        /\ seenAbsent \in -1 .. games
    BY MaxGamesAssumption DEF TypeOK
  <2>3. game' # processId' /\ seenAbsent' < game' /\ game' # 0
    BY <2>1, <2>2
  <2>4. LookupInv' /\ LookupTypeOK'
    BY <2>1, LookupInvStays DEF LookupInv
  <2>5. TypeOK'
    BY <2>1, <2>2, <2>4 DEF TypeOK
  <2>6. (NothingLeaks /\ Held /\ Found /\ Scanned /\ InjectsNewGame /\ ThreadCreated
            /\ LoadedWhenDone)'
    BY <2>1, <2>3 DEF NothingLeaks, Held, Unused, Found, Scanned, InjectsNewGame,
                      ThreadCreated, LoadedWhenDone
  <2>7. ThreadInGame'
    <3>1. remoteThread # "running"
      BY <2>1 DEF ThreadInGame
    <3> QED
      BY <2>1, <3>1 DEF ThreadInGame
  <2> QED
    BY <2>4, <2>5, <2>6, <2>7
<1>2. CASE GameEnds
  <2>1. /\ game # 0 /\ game' = 0
        /\ path' = IF game = processId /\ path \in {"allocated", "written"}
                   THEN "free" ELSE path
        /\ remoteThread' = IF remoteThread = "running" THEN "done" ELSE remoteThread
        /\ UNCHANGED <<games, loaded, pc, processId, hProcess, hRemoteThread, abandoned,
                       scanVars, lookupVars>>
    BY <1>2 DEF GameEnds, ThreadAfterExit
  <2>2. LookupInv' /\ LookupTypeOK'
    BY <2>1, LookupInvStays DEF LookupInv
  <2>3. TypeOK'
    BY <2>1, <2>2 DEF TypeOK
  <2>4. pc \in {"resolve", "create", "wait", "release", "listen"} => game' # processId'
    BY <2>1 DEF Scanned, Injecting
  <2>5. (NothingLeaks /\ ThreadInGame /\ Found /\ Scanned /\ InjectsNewGame
            /\ ThreadCreated)'
    BY <2>1 DEF NothingLeaks, ThreadInGame, Found, Scanned, InjectsNewGame, ThreadCreated
  <2>6. Held'
    BY <2>1, <2>4 DEF Held, Unused
  <2>7. LoadedWhenDone'
    BY <2>1, <2>4 DEF LoadedWhenDone
  <2> QED
    BY <2>2, <2>3, <2>5, <2>6, <2>7
<1> QED
  BY <1>1, <1>2 DEF Player

(* What a scan finds and remembers. *)
LEMMA ScanRecalls ==
    ASSUME IInv, NEW pid \in {0, game}, Recall(pid)
    PROVE  /\ pid \in 0 .. games
           /\ seenAbsent' \in -1 .. games /\ blinded' \in BOOLEAN
           /\ game # 0 => seenAbsent' < game
           /\ ~ blinded' => ~ blinded /\ pid = game
           /\ ~ blinded' /\ pid = 0 => seenAbsent' >= 0
           /\ pid # 0 => pid = game /\ seenAbsent' = seenAbsent
<1>1. games \in Nat /\ game \in {0, games} /\ seenAbsent \in -1 .. games
      /\ blinded \in BOOLEAN
  BY MaxGamesAssumption DEF IInv, TypeOK
<1>2. seenAbsent' = (IF game = 0 THEN games ELSE seenAbsent)
      /\ blinded' = (blinded \/ pid # game)
  BY DEF Recall
<1>3. game # 0 => seenAbsent < game
  BY DEF IInv, Scanned
<1>4. blinded' \in BOOLEAN /\ (~ blinded' => ~ blinded /\ pid = game)
  BY <1>2
<1> QED
  BY <1>1, <1>2, <1>3, <1>4

LEMMA ScansKeepIInv == ASSUME IInv, FirstScan \/ WaitClose \/ Poll PROVE IInv'
<1> USE DEF IInv, NoThread, threadVars
<1>1. PICK pid \in {0, game} :
        /\ Recall(pid)
        /\ pc \in {"start", "waitClose", "poll"}
        /\ pc' \in {"waitClose", "poll", "open"}
        /\ pc' = "poll" => pid = 0
        /\ pc' = "open" => pc = "poll" /\ pid # 0 /\ processId' = pid
        /\ processId' = pid \/ processId' = processId
        /\ UNCHANGED <<gameVars, loaded, dllVars, lookupVars>>
  BY DEF FirstScan, WaitClose, Poll, Saw, AfterFirstScan
<1>2. /\ pid \in 0 .. games
      /\ seenAbsent' \in -1 .. games /\ blinded' \in BOOLEAN
      /\ game # 0 => seenAbsent' < game
      /\ ~ blinded' => ~ blinded /\ pid = game
      /\ ~ blinded' /\ pid = 0 => seenAbsent' >= 0
      /\ pid # 0 => pid = game /\ seenAbsent' = seenAbsent
  BY <1>1, ScanRecalls
<1>3. LookupInv' /\ LookupTypeOK'
  BY <1>1, LookupInvStays DEF LookupInv
<1>4. TypeOK'
  BY <1>1, <1>2, <1>3 DEF TypeOK, gameVars, dllVars
<1>5. Unused /\ Unused'
  BY <1>1 DEF Held, Before, Unused, dllVars
<1>6. (NothingLeaks /\ Held /\ ThreadInGame /\ ThreadCreated /\ LoadedWhenDone)'
  BY <1>1, <1>5 DEF NothingLeaks, Held, Unused, ThreadInGame, ThreadCreated, LoadedWhenDone
<1>7. Found'
  BY <1>1 DEF Found, lookupVars
<1>8. Scanned'
  BY <1>1, <1>2 DEF Scanned, Injecting, gameVars
<1>9. InjectsNewGame'
  <2>1. SUFFICES ASSUME pc' = "open", ~ blinded'
                 PROVE  seenAbsent' >= 0 /\ processId' > seenAbsent'
    BY <1>1 DEF InjectsNewGame
  <2>2. seenAbsent >= 0 /\ seenAbsent' = seenAbsent /\ processId' = game /\ game # 0
    BY <1>1, <1>2, <2>1 DEF Scanned
  <2>3. game \in Nat /\ seenAbsent' \in Int
    BY <1>2, MaxGamesAssumption DEF TypeOK
  <2> QED
    BY <1>2, <2>2, <2>3
<1> QED
  BY <1>3, <1>4, <1>6, <1>7, <1>8, <1>9

(* A call of injectDLL that fails, from a place that holds no thread. *)
LEMMA AbortKeepsIInv ==
    ASSUME IInv, NEW held, Abort(held), Elsewhere,
           pc \in {"open", "alloc", "write", "resolve", "create"},
           pc # "open" => "hProcess" \in held,
           pc \notin {"open", "alloc"} => "path" \in held
    PROVE  IInv'
<1> USE DEF IInv, NoThread, threadVars
<1>1. /\ pc' = "finished"
      /\ hProcess' = IF "hProcess" \in held THEN "closed" ELSE hProcess
      /\ path' = IF "path" \in held THEN "free" ELSE path
      /\ UNCHANGED threadVars
      /\ UNCHANGED <<gameVars, loaded, processId, scanVars, lookupVars>>
  BY DEF Abort, Elsewhere
<1>2. LookupInv' /\ LookupTypeOK'
  BY <1>1, LookupInvStays DEF LookupInv
<1>3. TypeOK'
  BY <1>1, <1>2 DEF TypeOK, Handle, gameVars, scanVars
<1>4. /\ hProcess' # "open" /\ path' \notin {"allocated", "written"}
      /\ NoThread'
  BY <1>1 DEF Held, Before, Unused
<1>5. (NothingLeaks /\ Held /\ ThreadInGame /\ Found /\ InjectsNewGame /\ ThreadCreated
            /\ LoadedWhenDone)'
  BY <1>1, <1>4 DEF NothingLeaks, Held, Before, ThreadInGame, Found, InjectsNewGame,
                    ThreadCreated, LoadedWhenDone
<1>6. Scanned'
  BY <1>1 DEF Scanned, Injecting, gameVars, scanVars
<1> QED
  BY <1>2, <1>3, <1>5, <1>6

(* A call that succeeds goes on to the next one: what it must show is what  *)
(* is held there.                                                           *)
LEMMA CallKeepsIInv ==
    ASSUME IInv, Elsewhere, pc \in Injecting, pc' \in Injecting \ {"open"},
           /\ hProcess' \in Handle /\ hRemoteThread' \in Handle
           /\ path' \in {"none", "allocated", "written", "free"}
           /\ remoteThread' \in {"none", "running", "done"} /\ abandoned' \in BOOLEAN,
           Held', NothingLeaks', ThreadInGame', ThreadCreated', LoadedWhenDone'
    PROVE  IInv'
<1> USE DEF IInv, NoThread, threadVars
<1>1. UNCHANGED <<gameVars, loaded, processId, scanVars, lookupVars>>
  BY DEF Elsewhere
<1>2. LookupInv' /\ LookupTypeOK'
  BY <1>1, LookupInvStays DEF LookupInv
<1>3. TypeOK'
  BY <1>1, <1>2 DEF TypeOK, Injecting, gameVars, scanVars
<1>4. (Found /\ InjectsNewGame /\ Scanned)'
  BY <1>1 DEF Found, InjectsNewGame, Scanned, Injecting, gameVars, scanVars, lookupVars
<1> QED
  BY <1>2, <1>3, <1>4

LEMMA InjectKeepsIInv == ASSUME IInv, InjectDLL PROVE IInv'
<1> USE DEF IInv, NoThread, threadVars, Injecting
<1>1. CASE OpenProcess
  <2>1. pc = "open" /\ Elsewhere /\ Unused
    BY <1>1 DEF OpenProcess, Held, Before
  <2>2. CASE Abort({})
    BY <2>1, <2>2, AbortKeepsIInv
  <2>3. CASE /\ hProcess' = "open" /\ pc' = "alloc"
             /\ UNCHANGED <<path, threadVars>>
    <3>1. (Held /\ NothingLeaks /\ ThreadInGame /\ ThreadCreated /\ LoadedWhenDone)'
      BY <2>1, <2>3 DEF Held, Before, Unused, NothingLeaks, ThreadInGame, ThreadCreated,
                        LoadedWhenDone
    <3> QED
      BY <2>1, <2>3, <3>1, CallKeepsIInv DEF Unused, Handle, TypeOK
  <2> QED
    BY <1>1, <2>2, <2>3 DEF OpenProcess
<1>2. CASE VirtualAllocEx
  <2>1. pc = "alloc" /\ Elsewhere /\ NoThread
    BY <1>2 DEF VirtualAllocEx, Held
  <2>2. CASE Abort({"hProcess"})
    BY <2>1, <2>2, AbortKeepsIInv
  <2>3. CASE /\ path' = "allocated" /\ pc' = "write"
             /\ UNCHANGED <<hProcess, threadVars>>
    <3>1. (Held /\ NothingLeaks /\ ThreadInGame /\ ThreadCreated /\ LoadedWhenDone)'
      BY <2>1, <2>3 DEF Held, Before, NothingLeaks, ThreadInGame, ThreadCreated,
                        LoadedWhenDone
    <3> QED
      BY <2>1, <2>3, <3>1, CallKeepsIInv DEF TypeOK
  <2> QED
    BY <1>2, <2>2, <2>3 DEF VirtualAllocEx
<1>3. CASE WriteProcessMemory
  <2>1. pc = "write" /\ Elsewhere /\ NoThread
    BY <1>3 DEF WriteProcessMemory, Held
  <2>2. CASE Abort(HeldAtWrite)
    BY <2>1, <2>2, AbortKeepsIInv DEF HeldAtWrite
  <2>3. CASE /\ path' = "written" /\ pc' = "resolve"
             /\ UNCHANGED <<hProcess, threadVars>>
    <3>1. (Held /\ NothingLeaks /\ ThreadInGame /\ ThreadCreated /\ LoadedWhenDone)'
      BY <2>1, <2>3 DEF Held, Before, NothingLeaks, ThreadInGame, ThreadCreated,
                        LoadedWhenDone
    <3> QED
      BY <2>1, <2>3, <3>1, CallKeepsIInv DEF TypeOK
  <2> QED
    BY <1>3, <2>2, <2>3 DEF WriteProcessMemory
<1>4. CASE ResolveLoadLibrary
  <2>1. pc = "resolve" /\ Elsewhere /\ NoThread
    BY <1>4 DEF ResolveLoadLibrary, Held
  <2>2. CASE Abort({"path", "hProcess"})
    BY <2>1, <2>2, AbortKeepsIInv
  <2>3. CASE pc' = "create" /\ UNCHANGED dllVars
    <3>1. (Held /\ NothingLeaks /\ ThreadInGame /\ ThreadCreated /\ LoadedWhenDone)'
      BY <2>1, <2>3 DEF Held, Before, NothingLeaks, ThreadInGame, ThreadCreated,
                        LoadedWhenDone, dllVars, Elsewhere, gameVars
    <3> QED
      BY <2>1, <2>3, <3>1, CallKeepsIInv DEF TypeOK, dllVars
  <2> QED
    BY <1>4, <2>2, <2>3 DEF ResolveLoadLibrary
<1>5. CASE CreateRemoteThread
  <2>1. pc = "create" /\ Elsewhere /\ NoThread
    BY <1>5 DEF CreateRemoteThread, Held
  <2>2. CASE Abort({"path", "hProcess"})
    BY <2>1, <2>2, AbortKeepsIInv
  <2>3. CASE /\ game = processId
             /\ remoteThread' = "running" /\ hRemoteThread' = "open" /\ pc' = "wait"
             /\ UNCHANGED <<hProcess, path, abandoned>>
    <3>1. game' = game /\ processId' = processId /\ processId # 0 /\ path = "written"
      BY <2>1, <2>3 DEF Held, Scanned, Elsewhere, gameVars
    <3>2. ~ abandoned'
      BY <2>1, <2>3, Zenon
    <3>3. Held'
      BY <2>3, <3>1, <3>2 DEF Held, Before
    <3>4. (NothingLeaks /\ ThreadInGame /\ ThreadCreated /\ LoadedWhenDone)'
      BY <2>3, <3>1 DEF NothingLeaks, ThreadInGame, ThreadCreated, LoadedWhenDone
    <3> QED
      BY <2>1, <2>3, <3>2, <3>3, <3>4, CallKeepsIInv DEF TypeOK, Handle
  <2> QED
    BY <1>5, <2>2, <2>3 DEF CreateRemoteThread, Succeeds
<1>6. CASE WaitForThread
  <2>1. /\ pc = "wait" /\ pc' = "release" /\ Elsewhere
        /\ UNCHANGED <<hProcess, path, remoteThread, hRemoteThread>>
        /\ \/ remoteThread = "done" /\ UNCHANGED abandoned
           \/ abandoned' = (remoteThread = "running")
    BY <1>6 DEF WaitForThread, WaitReturns
  <2>2. abandoned' \in BOOLEAN /\ (remoteThread = "running" => abandoned')
    BY <2>1, Zenon DEF TypeOK
  <2>3. (Held /\ NothingLeaks /\ ThreadInGame /\ ThreadCreated)'
    BY <2>1, <2>2 DEF Held, Before, NothingLeaks, ThreadInGame, ThreadCreated,
                      Elsewhere, gameVars
  <2>4. LoadedWhenDone'
    BY <2>1 DEF Held, LoadedWhenDone, Untouched, Elsewhere, gameVars, lookupVars, places
  <2> QED
    BY <2>1, <2>2, <2>3, <2>4, CallKeepsIInv DEF TypeOK
<1>7. CASE Release
  <2>1. /\ pc = "release" /\ UNCHANGED <<remoteThread, abandoned>>
        /\ hRemoteThread' = "closed" /\ path' = "free" /\ hProcess' = "closed"
        /\ pc' = "listen" /\ Elsewhere
    BY <1>7 DEF Release
  <2>2. (Held /\ NothingLeaks /\ ThreadInGame /\ ThreadCreated)'
    BY <2>1 DEF Held, Before, NothingLeaks, ThreadInGame, ThreadCreated, Elsewhere,
                gameVars
  <2>3. LoadedWhenDone'
    BY <2>1 DEF LoadedWhenDone, Untouched, Elsewhere, gameVars, lookupVars, places
  <2> QED
    BY <2>1, <2>2, <2>3, CallKeepsIInv DEF Handle, TypeOK
<1> QED
  BY <1>1, <1>2, <1>3, <1>4, <1>5, <1>6, <1>7 DEF InjectDLL

(* The thread in the game loads a file that is still where it was found. *)
LEMMA LoadKeepsIInv == ASSUME IInv, LoadLibraryA PROVE IInv'
<1> USE DEF IInv, NoThread, threadVars
<1>1. /\ remoteThread = "running" /\ remoteThread' = "done"
      /\ loaded' = loaded \/ loaded' = loaded \union {game}
      /\ UNCHANGED <<gameVars, pc, processId, hProcess, path, hRemoteThread, abandoned,
                     scanVars, lookupVars>>
  BY DEF LoadLibraryA
<1>2. /\ game = processId /\ processId # 0
      /\ pc = "wait" \/ (abandoned /\ pc \in {"release", "listen", "finished"})
  BY <1>1 DEF ThreadInGame
<1>3. LookupInv' /\ LookupTypeOK'
  BY <1>1, LookupInvStays DEF LookupInv
<1>4. game \in 1 .. MaxGames
  BY <1>2, MaxGamesAssumption DEF TypeOK
<1>5. TypeOK'
  BY <1>1, <1>3, <1>4 DEF TypeOK, gameVars, scanVars
<1>6. (NothingLeaks /\ Held /\ ThreadInGame /\ Found /\ Scanned /\ InjectsNewGame
            /\ ThreadCreated)'
  BY <1>1, <1>2 DEF NothingLeaks, Held, Before, ThreadInGame, Found, Scanned,
                    InjectsNewGame, ThreadCreated, gameVars, scanVars, lookupVars
<1>7. Untouched => loaded' = loaded \union {game}
  <2>1. SUFFICES ASSUME Untouched PROVE loaded' = loaded \union {game}
    OBVIOUS
  <2>2. ~ MayMiss
    BY <1>2, <2>1 DEF MayMiss, Untouched, LookupInv, Found, Held
  <2> QED
    BY <2>1, <2>2 DEF LoadLibraryA, Untouched
<1>8. LoadedWhenDone'
  BY <1>1, <1>2, <1>7 DEF LoadedWhenDone, Untouched, gameVars, lookupVars, places
<1> QED
  BY <1>3, <1>5, <1>6, <1>8

LEMMA ListenKeepsIInv == ASSUME IInv, ListenForDetection PROVE IInv'
<1> USE DEF IInv, NoThread, threadVars
<1>1. pc = "listen" /\ pc' = "finished" /\ UNCHANGED dllVars
      /\ UNCHANGED <<gameVars, loaded, processId, scanVars, lookupVars>>
  BY DEF ListenForDetection, Elsewhere
<1>2. LookupInv' /\ LookupTypeOK'
  BY <1>1, LookupInvStays DEF LookupInv
<1>3. TypeOK'
  BY <1>1, <1>2 DEF TypeOK, gameVars, dllVars, scanVars
<1>4. (NothingLeaks /\ Held /\ ThreadInGame /\ Found /\ Scanned /\ InjectsNewGame
            /\ ThreadCreated /\ LoadedWhenDone)'
  BY <1>1 DEF NothingLeaks, Held, Before, ThreadInGame, Found, Scanned, Injecting,
              InjectsNewGame, ThreadCreated, LoadedWhenDone, gameVars, dllVars, scanVars
<1> QED
  BY <1>2, <1>3, <1>4

LEMMA NextIInv == IInv /\ [Next]_vars => IInv'
<1> SUFFICES ASSUME IInv, [Next]_vars PROVE IInv'
  OBVIOUS
<1>1. CASE UNCHANGED vars
  <2>1. LookupInv'
    BY <1>1, LookupInvStays DEF IInv, vars
  <2>2. /\ UNCHANGED <<gameVars, loaded, pc, processId, dllVars, scanVars>>
        /\ looking' = looking /\ dllPath' = dllPath /\ removed' = removed
    BY <1>1 DEF vars, lookupVars, places
  <2> QED
    BY <2>1, <2>2, FilesKeepIInv
<1>2. CASE Next
  BY <1>2, FindKeepsIInv, SurroundingsKeepIInv, PlayerKeepsIInv, ScansKeepIInv,
     InjectKeepsIInv, LoadKeepsIInv, ListenKeepsIInv DEF Next, Main
<1> QED
  BY <1>1, <1>2

-----------------------------------------------------------------------------
(* Types of the injector, whatever fails and whenever the game dies. *)
THEOREM InjectorTypeCorrect == Spec => []TypeOK
<1>1. IInv => TypeOK
  BY DEF IInv
<1> QED
  BY <1>1, InitIInv, NextIInv, PTL DEF Spec

(* A copy of the module that stays beside the injector, or in an ASCII      *)
(* Downloads folder, is found without a question (utils.cpp:41-54).         *)
THEOREM NearestCopyIsFound == Spec => []NearestCopyWins
<1>1. IInv => NearestCopyWins
  BY DEF IInv, LookupInv
<1> QED
  BY <1>1, InitIInv, NextIInv, PTL DEF Spec

(* Every way out of injectDLL has closed and freed what it held             *)
(* (injection.cpp:8-66).                                                    *)
THEOREM InjectionLeaksNothing == Spec => []NothingLeaks
<1>1. IInv => NothingLeaks
  BY DEF IInv
<1> QED
  BY <1>1, InitIInv, NextIInv, PTL DEF Spec

(* The path is there while LoadLibraryA reads it, unless the wait for the   *)
(* thread failed (injection.cpp:61-64).                                     *)
THEOREM PathIsThereForThread == Spec => []PathOutlivesThread
<1>1. IInv => PathOutlivesThread
  BY DEF IInv, PathOutlivesThread, ThreadInGame, Held
<1> QED
  BY <1>1, InitIInv, NextIInv, PTL DEF Spec

(* Only a game that started after the injector is injected (main.cpp:12-25). *)
THEOREM OnlyNewGamesAreInjected == Spec => []InjectsNewGame
<1>1. IInv => InjectsNewGame
  BY DEF IInv
<1> QED
  BY <1>1, InitIInv, NextIInv, PTL DEF Spec

(* What the lookup returned is what the game loads, if nobody removed it.   *)
THEOREM FoundModuleIsLoaded == Spec => []KeptModuleIsLoaded
<1>1. IInv => KeptModuleIsLoaded
  <2>1. SUFFICES ASSUME IInv, pc = "listen", game = processId, Untouched
                 PROVE  processId \in loaded
    BY DEF KeptModuleIsLoaded, Untouched
  <2>2. remoteThread = "done"
    BY <2>1 DEF IInv, ThreadCreated, ThreadInGame, Untouched, TypeOK
  <2> QED
    BY <2>1, <2>2 DEF IInv, LoadedWhenDone
<1> QED
  BY <1>1, InitIInv, NextIInv, PTL DEF Spec
===============================================================================
