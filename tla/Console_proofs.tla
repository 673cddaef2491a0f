---------------------------- MODULE Console_proofs ----------------------------
(***************************************************************************)
(* What the unsynchronised console keeps to, for any number of threads.     *)
(***************************************************************************)
EXTENDS Console, TLAPS

(* A thread that logs alone has set the colour the console has. *)
Alone ==
    \A t \in Threads :
        t \in Busy /\ ~ overlapped[t] =>
            /\ \A u \in Busy : u = t
            /\ pc[t] = "write" => attribute = level[t]

IInv == TypeOK /\ WhiteAtRest /\ OwnColourUnlessOverlapped /\ Alone

LEMMA InitIInv == Init => IInv
  BY MaxLogsAssumption DEF Init, IInv, TypeOK, WhiteAtRest, OwnColourUnlessOverlapped,
                           Alone, Busy, Colours, Levels, WHITE

LEMMA NextIInv == ASSUME IInv, [Next]_vars PROVE IInv'
<1> USE DEF IInv, log
<1>1. CASE SpawnConsole
  BY <1>1 DEF SpawnConsole, TypeOK, WhiteAtRest, OwnColourUnlessOverlapped, Alone, Busy
<1>2. CASE DetachConsole
  <2>1. TypeOK' /\ OwnColourUnlessOverlapped' /\ Alone'
    BY <1>2 DEF DetachConsole, TypeOK, OwnColourUnlessOverlapped, Alone, Busy
  <2>2. WhiteAtRest'
    BY <1>2 DEF DetachConsole, WhiteAtRest
  <2> QED
    BY <2>1, <2>2
<1>3. ASSUME NEW t \in Threads, NEW lvl \in Levels, Log(t, lvl) PROVE IInv'
  <2>1. CASE UNCHANGED log
    <3>1. logs' \in 0 .. MaxLogs
      BY <1>3, MaxLogsAssumption DEF Log, TypeOK
    <3> QED
      BY <1>3, <2>1, <3>1 DEF Log, TypeOK, WhiteAtRest, OwnColourUnlessOverlapped, Alone, Busy
  <2>2. CASE /\ pc' = [pc EXCEPT ![t] = "colour"]
             /\ level' = [level EXCEPT ![t] = lvl]
             /\ overlapped' = [u \in Threads |->
                    IF u = t THEN Busy # {} ELSE overlapped[u] \/ u \in Busy]
    <3>0. UNCHANGED <<g_hConsoleOutput, attribute, screen>> /\ pc[t] = "idle"
      BY <1>3 DEF Log
    <3>1. TypeOK'
      <4>1. logs' \in 0 .. MaxLogs
        BY <1>3, MaxLogsAssumption DEF Log, TypeOK
      <4>2. overlapped' \in [Threads -> BOOLEAN]
        BY <2>2 DEF TypeOK
      <4> QED
        BY <2>2, <3>0, <4>1, <4>2 DEF TypeOK
    <3>2. WhiteAtRest'
      BY <2>2, <3>0 DEF TypeOK, WhiteAtRest
    <3>3. OwnColourUnlessOverlapped'
      BY <3>0 DEF OwnColourUnlessOverlapped
    <3>4. Alone'
      BY <2>2, <3>0 DEF TypeOK, Alone, Busy
    <3> QED
      BY <3>1, <3>2, <3>3, <3>4
  <2> QED
    BY <1>3, <2>1, <2>2 DEF Log
<1>4. ASSUME NEW t \in Threads, SetColour(t) PROVE IInv'
  <2>1. TypeOK' /\ OwnColourUnlessOverlapped'
    BY <1>4 DEF SetColour, TypeOK, OwnColourUnlessOverlapped, Colours
  <2>2. WhiteAtRest'
    BY <1>4 DEF SetColour, TypeOK, WhiteAtRest
  <2>3. Alone'
    BY <1>4 DEF SetColour, TypeOK, Alone, Busy
  <2> QED
    BY <2>1, <2>2, <2>3
<1>5. ASSUME NEW t \in Threads, WriteMessage(t) PROVE IInv'
  <2> DEFINE m == [level |-> level[t], colour |-> attribute, overlapped |-> overlapped[t]]
  <2>1. m \in [level : Levels, colour : Colours, overlapped : BOOLEAN]
        /\ screen' = Append(screen, m)
    BY <1>5 DEF WriteMessage, TypeOK
  <2>2. m.overlapped \/ m.colour = m.level
    BY <1>5 DEF WriteMessage, Alone, Busy
  <2> HIDE DEF m
  <2>3. TypeOK'
    BY <1>5, <2>1 DEF WriteMessage, TypeOK
  <2>4. OwnColourUnlessOverlapped'
    BY <2>1, <2>2 DEF TypeOK, OwnColourUnlessOverlapped
  <2>5. WhiteAtRest'
    BY <1>5 DEF WriteMessage, TypeOK, WhiteAtRest
  <2>6. Alone'
    BY <1>5 DEF WriteMessage, TypeOK, Alone, Busy
  <2> QED
    BY <2>3, <2>4, <2>5, <2>6
<1>6. ASSUME NEW t \in Threads, ResetColour(t) PROVE IInv'
  <2>1. TypeOK' /\ OwnColourUnlessOverlapped' /\ WhiteAtRest'
    BY <1>6 DEF ResetColour, AttributeAfter, TypeOK, OwnColourUnlessOverlapped, WhiteAtRest,
                Colours
  <2>2. Alone'
    BY <1>6 DEF ResetColour, TypeOK, Alone, Busy
  <2> QED
    BY <2>1, <2>2
<1>7. CASE UNCHANGED vars
  BY <1>7 DEF vars, TypeOK, WhiteAtRest, OwnColourUnlessOverlapped, Alone, Busy
<1> QED
  BY <1>1, <1>2, <1>3, <1>4, <1>5, <1>6, <1>7 DEF Next

LEMMA SpecIInv == Spec => []IInv
  BY InitIInv, NextIInv, PTL DEF Spec

(* The console keeps to its colours. *)
THEOREM ConsoleTypeCorrect == Spec => []TypeOK
  BY SpecIInv, PTL DEF IInv

(* Whoever logs last leaves the console white (console.cpp:62-65). *)
THEOREM ConsoleIsWhiteAtRest == Spec => []WhiteAtRest
  BY SpecIInv, PTL DEF IInv

(* Only messages that overlap can take one another's colour. *)
THEOREM MessagesAloneKeepColour == Spec => []OwnColourUnlessOverlapped
  BY SpecIInv, PTL DEF IInv
=============================================================================
