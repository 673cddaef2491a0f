-------------------------------- MODULE Console --------------------------------
(***************************************************************************)
(* The module's console (console.cpp): InitThread opens it, then every      *)
(* thread of the game that runs a hook or a native callback logs to it.     *)
(* A message is three calls, colour, text and colour again, on one console  *)
(* that has one colour; nothing serialises the threads.                     *)
(***************************************************************************)
EXTENDS Integers, Sequences

CONSTANTS
    Threads,   \* the threads that log
    MaxLogs    \* bound on the calls of Log

ASSUME MaxLogsAssumption == MaxLogs \in Nat

VARIABLES
    g_hConsoleOutput,  \* "NULL", "open" or "INVALID_HANDLE_VALUE"
    attribute,         \* the colour the console writes in
    pc,                \* per thread: where it is in Log
    level,             \* per thread: the level of its message
    overlapped,        \* history, per thread: another Log ran during its own
    logs,              \* calls of Log so far
    screen             \* what was written, with its level and its colour

log == <<pc, level, overlapped>>
vars == <<g_hConsoleOutput, attribute, log, logs, screen>>

Levels == {"INFO", "DETAIL", "SUCCESS", "FATAL"}

(* Each level has a colour of its own, none is white. *)
WHITE == "WHITE"
Colours == Levels \union {WHITE}

Init ==
    /\ g_hConsoleOutput = "NULL"
    /\ attribute = WHITE
    /\ pc = [t \in Threads |-> "idle"]
    /\ level \in [Threads -> {"INFO"}]
    /\ overlapped = [t \in Threads |-> FALSE]
    /\ logs = 0
    /\ screen = <<>>

-----------------------------------------------------------------------------
(* InitThread, before the hooks are on: no other thread logs yet. *)
SpawnConsole ==
    /\ g_hConsoleOutput = "NULL"
    /\ \A t \in Threads : pc[t] = "idle"
    /\ g_hConsoleOutput' \in {"open", "INVALID_HANDLE_VALUE"}
    /\ UNCHANGED <<attribute, log, logs, screen>>

Busy == {t \in Threads : pc[t] \in {"colour", "write", "reset"}}

(* Without a console, Log returns at once. *)
Log(t, lvl) ==
    /\ g_hConsoleOutput # "NULL"
    /\ pc[t] = "idle"
    /\ logs < MaxLogs
    /\ logs' = logs + 1
    /\ \/ /\ g_hConsoleOutput = "INVALID_HANDLE_VALUE"
          /\ UNCHANGED log
       \/ /\ g_hConsoleOutput = "open"
          /\ pc' = [pc EXCEPT ![t] = "colour"]
          /\ level' = [level EXCEPT ![t] = lvl]
          /\ overlapped' = [u \in Threads |->
                IF u = t THEN Busy # {} ELSE overlapped[u] \/ u \in Busy]
    /\ UNCHANGED <<g_hConsoleOutput, attribute, screen>>

(* Mutant of SetColour: without the colour of the level. *)
SetColourSkipped(t) ==
    /\ pc[t] = "colour"
    /\ pc' = [pc EXCEPT ![t] = "write"]
    /\ UNCHANGED <<g_hConsoleOutput, attribute, level, overlapped, logs, screen>>

SetColour(t) ==
    /\ pc[t] = "colour"
    /\ attribute' = level[t]
    /\ pc' = [pc EXCEPT ![t] = "write"]
    /\ UNCHANGED <<g_hConsoleOutput, level, overlapped, logs, screen>>

(* WriteConsoleA puts the whole message out in one colour. *)
WriteMessage(t) ==
    /\ pc[t] = "write"
    /\ screen' = Append(screen, [level |-> level[t], colour |-> attribute,
                                 overlapped |-> overlapped[t]])
    /\ pc' = [pc EXCEPT ![t] = "reset"]
    /\ UNCHANGED <<g_hConsoleOutput, attribute, level, overlapped, logs>>

(* Mutants of AttributeAfter: the colour stays, or all bits are cleared.     *)
AttributeKept(colour) == colour
AttributeCleared(colour) == "BLACK"

(* ... "set it back to boring white". *)
AttributeAfter(colour) == WHITE

ResetColour(t) ==
    /\ pc[t] = "reset"
    /\ attribute' = AttributeAfter(attribute)
    /\ pc' = [pc EXCEPT ![t] = "idle"]
    /\ UNCHANGED <<g_hConsoleOutput, level, overlapped, logs, screen>>

(* The game ends: its other threads are gone, wherever they were.           *)
DetachConsole ==
    /\ \E t \in Threads : pc[t] # "killed"
    /\ pc' = [t \in Threads |-> "killed"]
    /\ g_hConsoleOutput' = IF g_hConsoleOutput = "open" THEN "NULL" ELSE g_hConsoleOutput
    /\ UNCHANGED <<attribute, level, overlapped, logs, screen>>

Next ==
    \/ SpawnConsole
    \/ DetachConsole
    \/ \E t \in Threads :
        \/ \E lvl \in Levels : Log(t, lvl)
        \/ SetColour(t) \/ WriteMessage(t) \/ ResetColour(t)

Spec == Init /\ [][Next]_vars

-----------------------------------------------------------------------------
(* The colour is always one that Log knows. *)
TypeOK ==
    /\ g_hConsoleOutput \in {"NULL", "open", "INVALID_HANDLE_VALUE"}
    /\ attribute \in Colours
    /\ pc \in [Threads -> {"idle", "colour", "write", "reset", "killed"}]
    /\ level \in [Threads -> Levels]
    /\ overlapped \in [Threads -> BOOLEAN]
    /\ logs \in 0 .. MaxLogs
    /\ screen \in Seq([level : Levels, colour : Colours, overlapped : BOOLEAN])

(* "so we don't accidentally color everything that comes after"             *)
(* (console.cpp:62): however the threads interleave, with none of them      *)
(* between its colour and its reset the console is white.                   *)
WhiteAtRest ==
    attribute # WHITE => \E t \in Threads : pc[t] \in {"write", "reset", "killed"}

(* A message has the colour of its level (console.cpp:63-64) unless another *)
(* Log ran during its own: the one way in which a message gets a colour of  *)
(* another, or none, as two threads that log at once may do.                *)
OwnColourUnlessOverlapped ==
    \A k \in DOMAIN screen :
        screen[k].overlapped \/ screen[k].colour = screen[k].level
=============================================================================
