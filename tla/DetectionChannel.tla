--------------------------- MODULE DetectionChannel ---------------------------
(***************************************************************************)
(* How a detection travels from the module inside the game to the injector: *)
(* InitThread creates a named event and a named block of shared memory      *)
(* (dllmain.cpp), notify_detection copies the name of the anticheat into    *)
(* the block and sets the event (transaction.cpp), listenForDetection waits *)
(* for the event, copies the name out and prints it (external/ipc.cpp).     *)
(* Three threads in two processes share the event and the block; no lock    *)
(* protects the block, so both copies go one cell at a time.                *)
(***************************************************************************)
EXTENDS Integers, Sequences

CONSTANTS
    Chars,             \* the characters of the names
    NUL,               \* the terminator
    Names,             \* the names notify_detection is called with
    SHARED_MEM_SIZE,   \* cells of the block
    max_retries,       \* attempts to open the event
    MaxNotifications,  \* bound on the calls of notify_detection
    Failures           \* what may go wrong, see PossibleFailures

PossibleFailures ==
    {"CreateEventA", "CreateFileMappingA", "MapViewOfFile", "detach",
     "SetEvent", "GetConsoleMode", "WaitForSingleObject"}

ASSUME NulAssumption == NUL \notin Chars
ASSUME SizeAssumption == SHARED_MEM_SIZE \in Nat \ {0}
ASSUME NamesAssumption ==
    \A n \in Names : n \in Seq(Chars) /\ n # <<>> /\ Len(n) < SHARED_MEM_SIZE
ASSUME BoundsAssumption == max_retries \in Nat \ {0} /\ MaxNotifications \in Nat
ASSUME FailuresAssumption == Failures \subseteq PossibleFailures

VARIABLES
    g_hIpcEvent,           \* handle of the module: "NULL", "open" or "closed"
    g_hIpcMapFile,         \* likewise
    initPc,                \* where InitThread is
    notifyPc,              \* where notify_detection is
    ac_name,               \* its argument
    copied,                \* cells of it copied so far, the terminator included
    notifications,         \* calls so far
    eventSignaled,         \* the manual-reset event
    memory,                \* the shared block
    listenPc,              \* where listenForDetection is
    retries,               \* failed attempts to open the event
    measured,              \* cells of the block the listener's strlen has passed
    currentDetection,      \* what the listener has copied out
    lastPrintedAnticheat,  \* what it printed last
    written,               \* history: the name copied in completely last
    unsignaled,            \* history: its SetEvent failed, with the event unset
    overlapped             \* history: a copy in overlapped the copy out

moduleVars == <<g_hIpcEvent, g_hIpcMapFile, initPc>>
notifyVars == <<notifyPc, ac_name, copied, notifications, written, unsignaled>>
listenVars == <<listenPc, retries, measured, currentDetection, lastPrintedAnticheat>>
vars == <<moduleVars, notifyVars, listenVars, eventSignaled, memory, overlapped>>

Cells == 1 .. SHARED_MEM_SIZE
Contents == Chars \union {NUL}
Results == UNION {[1 .. k -> Contents] : k \in 0 .. SHARED_MEM_SIZE - 1}

TypeOK ==
    /\ g_hIpcEvent \in {"NULL", "open", "closed"}
    /\ g_hIpcMapFile \in {"NULL", "open"}
    /\ initPc \in {"CreateEvent", "CreateFileMapping", "ready", "failed", "detached"}
    /\ notifyPc \in {"idle", "map", "copy", "signal", "stopped", "killed"}
    /\ ac_name \in Names \union {<<>>}
    /\ copied \in 0 .. SHARED_MEM_SIZE
    /\ notifications \in 0 .. MaxNotifications
    /\ written \in Names \union {<<>>}
    /\ unsignaled \in BOOLEAN
    /\ eventSignaled \in BOOLEAN
    /\ memory \in [Cells -> Contents]
    /\ listenPc \in {"prepare", "open", "wait", "openMap", "measure", "copy", "reset",
                     "gaveUp"}
    /\ retries \in 0 .. max_retries
    /\ measured \in 0 .. SHARED_MEM_SIZE - 1
    /\ currentDetection \in Seq(Contents) /\ Len(currentDetection) <= measured
    /\ lastPrintedAnticheat \in Seq(Contents)
    /\ overlapped \in BOOLEAN

Init ==
    /\ g_hIpcEvent = "NULL"
    /\ g_hIpcMapFile = "NULL"
    /\ initPc = "CreateEvent"
    /\ notifyPc = "idle"
    /\ ac_name = <<>>
    /\ copied = 0
    /\ notifications = 0
    /\ written = <<>>
    /\ unsignaled = FALSE
    /\ eventSignaled = FALSE
    /\ memory = [c \in Cells |-> NUL]
    /\ listenPc = "prepare"
    /\ retries = 0
    /\ measured = 0
    /\ currentDetection = <<>>
    /\ lastPrintedAnticheat = <<>>
    /\ overlapped = FALSE

-----------------------------------------------------------------------------
(* InitThread, from CreateEventA on.  The event is manual-reset and unset.  *)
CreateEvent ==
    /\ initPc = "CreateEvent"
    /\ \/ /\ g_hIpcEvent' = "open"
          /\ initPc' = "CreateFileMapping"
       \/ /\ "CreateEventA" \in Failures
          /\ initPc' = "failed"
          /\ UNCHANGED g_hIpcEvent
    /\ UNCHANGED <<g_hIpcMapFile, notifyVars, listenVars, eventSignaled, memory,
                   overlapped>>

(* On failure the event is closed, and g_hIpcEvent keeps the dead handle. *)
CreateFileMapping ==
    /\ initPc = "CreateFileMapping"
    /\ \/ /\ g_hIpcMapFile' = "open"
          /\ initPc' = "ready"
          /\ UNCHANGED g_hIpcEvent
       \/ /\ "CreateFileMappingA" \in Failures
          /\ g_hIpcEvent' = "closed"
          /\ initPc' = "failed"
          /\ UNCHANGED g_hIpcMapFile
    /\ UNCHANGED <<notifyVars, listenVars, eventSignaled, memory, overlapped>>

(* DLL_PROCESS_DETACH: the game ends, its other threads are gone already.   *)
(* A copy it interrupts stays half done.                                    *)
Detach ==
    /\ "detach" \in Failures
    /\ initPc # "detached"
    /\ initPc' = "detached"
    /\ g_hIpcEvent' = "NULL"
    /\ g_hIpcMapFile' = "NULL"
    /\ notifyPc' = IF notifyPc = "copy" THEN "killed" ELSE "stopped"
    /\ UNCHANGED <<ac_name, copied, notifications, written, unsignaled, listenVars,
                   eventSignaled, memory, overlapped>>

-----------------------------------------------------------------------------
(* notify_detection: give up unless both handles are set, ... *)
NotifyDetection(name) ==
    /\ notifyPc = "idle"
    /\ notifications < MaxNotifications
    /\ notifications' = notifications + 1
    /\ \/ /\ g_hIpcMapFile = "NULL" \/ g_hIpcEvent = "NULL"
          /\ UNCHANGED <<notifyPc, ac_name>>
       \/ /\ g_hIpcMapFile # "NULL" /\ g_hIpcEvent # "NULL"
          /\ notifyPc' = "map"
          /\ ac_name' = name
    /\ UNCHANGED <<moduleVars, listenVars, copied, written, unsignaled,
                   eventSignaled, memory, overlapped>>

(* Does the listener's string constructor run? *)
ListenerReads == listenPc \in {"measure", "copy"}

(* ... map the block, or give up, ... *)
MapViewOfFile ==
    /\ notifyPc = "map"
    /\ \/ /\ notifyPc' = "copy"
          /\ overlapped' = ListenerReads
       \/ /\ "MapViewOfFile" \in Failures
          /\ notifyPc' = "idle"
          /\ UNCHANGED overlapped
    /\ copied' = 0
    /\ UNCHANGED <<moduleVars, ac_name, notifications, written, unsignaled,
                   listenVars, eventSignaled, memory>>

(* Mutant of Terminated: strncpy of the characters alone. *)
Unterminated(m, k) == m

(* What strcpy_s adds behind the k characters it has copied. *)
Terminated(m, k) == [m EXCEPT ![k + 1] = NUL]

(* ... strcpy_s, one cell after the other, the terminator last, unmap, ... *)
CopyCell ==
    /\ notifyPc = "copy"
    /\ copied' = copied + 1
    /\ \/ /\ copied < Len(ac_name)
          /\ memory' = [memory EXCEPT ![copied + 1] = ac_name[copied + 1]]
          /\ UNCHANGED <<notifyPc, written>>
       \/ /\ copied = Len(ac_name)
          /\ memory' = Terminated(memory, copied)
          /\ notifyPc' = "signal"
          /\ written' = ac_name
    /\ UNCHANGED <<moduleVars, ac_name, notifications, unsignaled, listenVars,
                   eventSignaled, overlapped>>

(* ... and SetEvent.  A failure is logged and nothing else: the name stays  *)
(* in the block, and the caller takes it for notified.                      *)
SignalEvent ==
    /\ notifyPc = "signal"
    /\ notifyPc' = "idle"
    /\ \/ /\ g_hIpcEvent = "open"
          /\ eventSignaled' = TRUE
          /\ unsignaled' = FALSE
       \/ /\ g_hIpcEvent # "open" \/ "SetEvent" \in Failures
          /\ unsignaled' = ~ eventSignaled
          /\ UNCHANGED eventSignaled
    /\ UNCHANGED <<moduleVars, ac_name, copied, notifications, written,
                   listenVars, memory, overlapped>>

-----------------------------------------------------------------------------
(* Without a console for its colours (GetStdHandle, GetConsoleMode) the      *)
(* listener returns at once.                                                *)
ListenerPrepare ==
    /\ listenPc = "prepare"
    /\ \/ listenPc' = "open"
       \/ /\ "GetConsoleMode" \in Failures
          /\ listenPc' = "gaveUp"
    /\ UNCHANGED <<moduleVars, notifyVars, retries, measured, currentDetection,
                   lastPrintedAnticheat, eventSignaled, memory, overlapped>>

(* Mutant of ListenerAccess: with it ResetEvent would work. *)
ListenerAccessModify == {"SYNCHRONIZE", "EVENT_MODIFY_STATE"}

(* The rights OpenEventA is asked for.  ResetEvent needs another one,       *)
(* EVENT_MODIFY_STATE; without it the call fails and its result is dropped. *)
ListenerAccess == {"SYNCHRONIZE"}

(* Mutant of RetryOpen: one attempt too many. *)
RetryOpenOnceMore(n) == n <= max_retries

(* Is there another attempt after n failed ones? *)
RetryOpen(n) == n < max_retries

(* The event can be opened while the module holds it open. *)
ListenerOpen ==
    /\ listenPc = "open"
    /\ \/ /\ g_hIpcEvent = "open"
          /\ listenPc' = "wait"
          /\ UNCHANGED retries
       \/ /\ g_hIpcEvent # "open"
          /\ retries' = retries + 1
          /\ listenPc' = IF RetryOpen(retries + 1) THEN "open" ELSE "gaveUp"
    /\ UNCHANGED <<moduleVars, notifyVars, eventSignaled, memory, overlapped,
                   measured, currentDetection, lastPrintedAnticheat>>

(* The wait ends with the event; one that fails shuts the listener down. *)
ListenerWakes ==
    /\ listenPc = "wait"
    /\ \/ /\ eventSignaled
          /\ listenPc' = "openMap"
       \/ /\ "WaitForSingleObject" \in Failures
          /\ listenPc' = "gaveUp"
    /\ UNCHANGED <<moduleVars, notifyVars, retries, measured, currentDetection,
                   lastPrintedAnticheat, eventSignaled, memory, overlapped>>

(* OpenFileMappingA and MapViewOfFile; without a block, straight to reset. *)
ListenerOpenMap ==
    /\ listenPc = "openMap"
    /\ \/ /\ g_hIpcMapFile = "open"
          /\ listenPc' = "measure"
          /\ overlapped' = (notifyPc = "copy")
       \/ /\ g_hIpcMapFile # "open" \/ "MapViewOfFile" \in Failures
          /\ listenPc' = "reset"
          /\ UNCHANGED overlapped
    /\ UNCHANGED <<moduleVars, notifyVars, retries, measured, currentDetection,
                   lastPrintedAnticheat, eventSignaled, memory>>

(* std::string(pBuf) passes over the block twice: first strlen, ... *)
ListenerMeasureCell ==
    /\ listenPc = "measure"
    /\ IF memory[measured + 1] # NUL
       THEN measured' = measured + 1 /\ UNCHANGED listenPc
       ELSE listenPc' = "copy" /\ UNCHANGED measured
    /\ UNCHANGED <<moduleVars, notifyVars, retries, currentDetection,
                   lastPrintedAnticheat, eventSignaled, memory, overlapped>>

(* ... then the copy of as many cells, whatever has become of them.  What   *)
(* it copied is printed unless it is empty or was printed last, and gone.   *)
ListenerReadCell ==
    /\ listenPc = "copy"
    /\ \/ /\ Len(currentDetection) < measured
          /\ currentDetection' =
                Append(currentDetection, memory[Len(currentDetection) + 1])
          /\ UNCHANGED <<listenPc, measured, lastPrintedAnticheat, overlapped>>
       \/ /\ Len(currentDetection) = measured
          /\ lastPrintedAnticheat' =
                IF currentDetection # <<>> THEN currentDetection
                                           ELSE lastPrintedAnticheat
          /\ listenPc' = "reset"
          /\ measured' = 0
          /\ currentDetection' = <<>>
          /\ overlapped' = FALSE
    /\ UNCHANGED <<moduleVars, notifyVars, retries, eventSignaled, memory>>

ListenerReset ==
    /\ listenPc = "reset"
    /\ listenPc' = "wait"
    /\ eventSignaled' = (eventSignaled /\ "EVENT_MODIFY_STATE" \notin ListenerAccess)
    /\ UNCHANGED <<moduleVars, notifyVars, retries, measured, currentDetection,
                   lastPrintedAnticheat, memory, overlapped>>

-----------------------------------------------------------------------------
InitThread == CreateEvent \/ CreateFileMapping
Notify == MapViewOfFile \/ CopyCell \/ SignalEvent
Listener ==
    ListenerPrepare \/ ListenerOpen \/ ListenerWakes \/ ListenerOpenMap
        \/ ListenerMeasureCell \/ ListenerReadCell \/ ListenerReset

Next ==
    \/ InitThread
    \/ Detach
    \/ \E name \in Names : NotifyDetection(name)
    \/ Notify
    \/ Listener

Spec == Init /\ [][Next]_vars

(* Asleep on an event that is not set, the listener need not do anything:   *)
(* its wait may fail, but does not have to.                                 *)
ListenerRuns == Listener /\ (listenPc = "wait" => eventSignaled)

ListenerMaps == ListenerOpenMap /\ listenPc' = "measure"

(* Each thread, once started, keeps running; nothing forces a detection or  *)
(* the end of the game.  The system does not refuse for ever a mapping of a *)
(* block that exists: the listener tries again after every failure.         *)
FairSpec ==
    /\ Spec
    /\ WF_vars(InitThread)
    /\ WF_vars(Notify)
    /\ WF_vars(ListenerRuns)
    /\ SF_vars(ListenerMaps)

-----------------------------------------------------------------------------
R == INSTANCE SafeRegister WITH
        Values     <- Names,
        Empty      <- <<>>,
        value      <- written,
        writing    <- notifyPc \in {"copy", "killed"},
        reading    <- ListenerReads,
        printed    <- lastPrintedAnticheat

(* The block is a safe register: a name is printed as it was written unless *)
(* a copy in overlaps the copy out.  In particular a shorter name leaves no *)
(* tail of a longer one behind, and a copy the end of the game cuts short   *)
(* is never read as a whole.                                                *)
ImplementsSafeRegister == R!Spec

(* Lost wakeups: while the game runs, a listener asleep on the event, with  *)
(* no notification under way, has nothing left to print, unless the SetEvent*)
(* of that name failed (transaction.cpp:54).  One that fails while the      *)
(* event is still set from an earlier name loses nothing.                   *)
NoLostWakeup ==
    /\ listenPc = "wait" /\ ~ eventSignaled /\ notifyPc = "idle"
    => written = <<>> \/ lastPrintedAnticheat = written \/ unsignaled

(* A name that stays in the block is in the end the one printed, unless no  *)
(* SetEvent told the listener or it has returned: no console, no event in   *)
(* time, a failed wait.                                                     *)
SettledDetectionIsPrinted ==
    \A n \in Names :
        <>[](written = n /\ notifyPc = "idle" /\ ~ unsignaled)
            => <>[](lastPrintedAnticheat = n \/ listenPc = "gaveUp")

-----------------------------------------------------------------------------
(* What the README and the comments say, against what the code does.        *)

(* README.md:20: minimum overhead; the listener resets the event after each *)
(* detection and sleeps until the next one; a listener that gave up resets  *)
(* nothing.                                                                 *)
EventIsReset == eventSignaled ~> ~ eventSignaled \/ listenPc = "gaveUp"
=============================================================================
