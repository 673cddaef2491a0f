----------------------- MODULE DetectionChannel_proofs -----------------------
(***************************************************************************)
(* For every set of names, every size of the block and every combination of *)
(* failures: the types of DetectionChannel, that no wakeup is lost, and     *)
(* that the block refines a safe register.                                  *)
(***************************************************************************)
EXTENDS DetectionChannel, TLAPS

(* The map exists exactly while InitThread has succeeded and the game runs, *)
(* and a notification under way holds both handles open.                    *)
Handles ==
    /\ initPc = "CreateFileMapping" => g_hIpcEvent = "open"
    /\ g_hIpcMapFile = "open" <=> initPc = "ready"
    /\ initPc = "ready" => g_hIpcEvent = "open"
    /\ notifyPc \in {"map", "copy", "signal"} =>
            initPc = "ready" /\ ac_name \in Names
    /\ notifyPc \in {"stopped", "killed"} => initPc = "detached"

(* The block holds the string n, terminated. *)
HoldsString(n) ==
    /\ Len(n) < SHARED_MEM_SIZE
    /\ \A i \in 1 .. Len(n) : memory[i] = n[i]
    /\ memory[Len(n) + 1] = NUL

(* Outside a copy in, the block holds the name written last; inside one, it *)
(* holds what has been copied; its last cell always ends a string.          *)
Block ==
    /\ notifyPc \notin {"copy", "killed"} => HoldsString(written)
    /\ notifyPc = "copy" =>
            /\ copied <= Len(ac_name)
            /\ \A i \in 1 .. copied : memory[i] = ac_name[i]
    /\ memory[SHARED_MEM_SIZE] = NUL

(* A copy out that no copy in has overlapped measures the name written last *)
(* and copies a prefix of it.                                               *)
CopyOut ==
    /\ ~ ListenerReads => measured = 0
    /\ ListenerReads /\ ~ overlapped =>
            /\ notifyPc \notin {"copy", "killed"}
            /\ measured <= Len(written)
            /\ listenPc = "copy" => measured = Len(written)
            /\ \A i \in 1 .. Len(currentDetection) : currentDetection[i] = written[i]

(* What is written is signalled, or about to be, or its SetEvent failed, or *)
(* the game has ended before it.                                            *)
Signalled ==
    \/ eventSignaled \/ written = <<>> \/ unsignaled
    \/ notifyPc \in {"signal", "stopped"}

(* A listener that still tries has attempts left. *)
Attempts == listenPc \in {"prepare", "open"} => retries < max_retries

Core == TypeOK /\ Handles /\ Block /\ CopyOut /\ Signalled

IInv == Core /\ Attempts

-----------------------------------------------------------------------------
(* A name is a nonempty string that leaves room for its terminator. *)
LEMMA NameFits ==
    ASSUME NEW n \in Names
    PROVE  n \in Seq(Chars) /\ Len(n) \in Nat /\ 0 < Len(n) /\ Len(n) < SHARED_MEM_SIZE
  BY NamesAssumption, SizeAssumption

(* What has been written is a string that fits, or nothing yet. *)
LEMMA WrittenFits ==
    ASSUME TypeOK
    PROVE  written \in Seq(Chars) /\ Len(written) \in Nat
                /\ Len(written) < SHARED_MEM_SIZE
<1>1. CASE written \in Names
  BY <1>1, NameFits
<1>2. CASE written = <<>>
  BY <1>2, SizeAssumption
<1> QED
  BY <1>1, <1>2 DEF TypeOK

-----------------------------------------------------------------------------
LEMMA InitIInv == Init => IInv
<1> SUFFICES ASSUME Init PROVE IInv
  OBVIOUS
<1>1. TypeOK
  <2>1. memory \in [Cells -> Contents]
    BY DEF Init, Contents
  <2>2. /\ measured \in 0 .. SHARED_MEM_SIZE - 1
        /\ currentDetection \in Seq(Contents) /\ Len(currentDetection) <= measured
    BY SizeAssumption DEF Init
  <2>3. lastPrintedAnticheat \in Seq(Contents)
    BY DEF Init
  <2>4. eventSignaled \in BOOLEAN /\ overlapped \in BOOLEAN /\ unsignaled \in BOOLEAN
    BY Zenon DEF Init
  <2>5. /\ copied \in 0 .. SHARED_MEM_SIZE
        /\ notifications \in 0 .. MaxNotifications
        /\ retries \in 0 .. max_retries
    BY SizeAssumption, BoundsAssumption DEF Init
  <2> QED
    BY <2>1, <2>2, <2>3, <2>4, <2>5 DEF Init, TypeOK
<1>2. Handles /\ CopyOut /\ Signalled
  BY DEF Init, Handles, CopyOut, Signalled, ListenerReads
<1>3. Block
  BY SizeAssumption DEF Init, Block, HoldsString, Cells
<1>4. Attempts
  BY BoundsAssumption DEF Init, Attempts
<1> QED
  BY <1>1, <1>2, <1>3, <1>4 DEF IInv, Core

(* One step per action; the steps of a copy take the most. *)
LEMMA NextIInv == IInv /\ [Next]_vars => IInv'
<1> SUFFICES ASSUME IInv, [Next]_vars PROVE IInv'
  OBVIOUS
<1> USE DEF IInv, Core
<1>0. Attempts'
  <2>1. CASE ListenerOpen
    BY <2>1, BoundsAssumption DEF ListenerOpen, RetryOpen, Attempts, TypeOK
  <2>2. CASE ListenerPrepare \/ ListenerWakes \/ ListenerOpenMap \/ ListenerReset
    BY <2>2 DEF ListenerPrepare, ListenerWakes, ListenerOpenMap, ListenerReset, Attempts
  <2>3. CASE ListenerMeasureCell \/ ListenerReadCell
    BY <2>3 DEF ListenerMeasureCell, ListenerReadCell, Attempts
  <2>4. CASE InitThread \/ Detach \/ Notify \/ UNCHANGED vars
    BY <2>4 DEF InitThread, CreateEvent, CreateFileMapping, Detach, Notify,
                MapViewOfFile, CopyCell, SignalEvent, vars, listenVars, Attempts
  <2>5. ASSUME NEW name \in Names, NotifyDetection(name) PROVE Attempts'
    BY <2>5 DEF NotifyDetection, listenVars, Attempts
  <2> QED
    BY <2>1, <2>2, <2>3, <2>4, <2>5 DEF Next, Listener
<1> SUFFICES Core'
  BY <1>0
<1>1. CASE CreateEvent
  <2>1. TypeOK' /\ Handles' /\ Signalled'
    BY <1>1 DEF CreateEvent, TypeOK, Handles, Signalled, notifyVars, listenVars
  <2>2. Block' /\ CopyOut'
    BY <1>1 DEF CreateEvent, Block, HoldsString, CopyOut, ListenerReads, notifyVars,
                listenVars
  <2> QED
    BY <2>1, <2>2
<1>2. CASE CreateFileMapping
  <2>1. TypeOK' /\ Handles' /\ Signalled'
    BY <1>2 DEF CreateFileMapping, TypeOK, Handles, Signalled, notifyVars, listenVars
  <2>2. Block' /\ CopyOut'
    BY <1>2 DEF CreateFileMapping, Block, HoldsString, CopyOut, ListenerReads,
                notifyVars, listenVars
  <2> QED
    BY <2>1, <2>2
<1>3. CASE Detach
  <2>1. TypeOK' /\ Handles'
    BY <1>3 DEF Detach, TypeOK, Handles, listenVars
  <2>2. Block' /\ CopyOut' /\ Signalled'
    BY <1>3 DEF Detach, TypeOK, Handles, Block, HoldsString, CopyOut, ListenerReads,
                Signalled, listenVars
  <2> QED
    BY <2>1, <2>2
<1>4. ASSUME NEW name \in Names, NotifyDetection(name) PROVE Core'
  <2>1. TypeOK'
    BY <1>4, BoundsAssumption DEF NotifyDetection, TypeOK, moduleVars, listenVars
  <2>2. Handles'
    <3>1. g_hIpcMapFile # "NULL" => initPc = "ready"
      BY DEF TypeOK, Handles
    <3> QED
      BY <1>4, <3>1 DEF NotifyDetection, Handles, moduleVars, listenVars
  <2>3. Block' /\ CopyOut' /\ Signalled'
    BY <1>4 DEF NotifyDetection, Block, HoldsString, CopyOut, ListenerReads, Signalled,
                moduleVars, listenVars
  <2> QED
    BY <2>1, <2>2, <2>3
<1>5. CASE MapViewOfFile
  <2>1. TypeOK'
    <3>1. overlapped' \in BOOLEAN
      <4>1. overlapped' = ListenerReads \/ overlapped' = overlapped
        BY <1>5 DEF MapViewOfFile
      <4>2. ListenerReads \in BOOLEAN
        BY DEF ListenerReads
      <4> QED
        BY <4>1, <4>2, Zenon DEF TypeOK
    <3>2. notifyPc' \in {"copy", "idle"} /\ copied' = 0
      BY <1>5 DEF MapViewOfFile
    <3> QED
      BY <1>5, <3>1, <3>2, SizeAssumption
         DEF MapViewOfFile, TypeOK, moduleVars, listenVars
  <2>2. Handles'
    BY <1>5 DEF MapViewOfFile, Handles, moduleVars, listenVars
  <2>3. Block'
    <3>1. notifyPc' = "copy" => copied' <= Len(ac_name')
      <4>1. ac_name \in Names
        BY <1>5 DEF MapViewOfFile, Handles
      <4> QED
        BY <1>5, <4>1, NameFits DEF MapViewOfFile
    <3> QED
      BY <1>5, <3>1 DEF MapViewOfFile, Block, HoldsString, moduleVars, listenVars
  <2>4. CopyOut' /\ Signalled'
    BY <1>5 DEF MapViewOfFile, CopyOut, ListenerReads, Signalled, moduleVars, listenVars
  <2> QED
    BY <2>1, <2>2, <2>3, <2>4
<1>6. CASE CopyCell
  <2>1. /\ ac_name \in Names /\ copied \in Nat /\ copied <= Len(ac_name)
        /\ copied + 1 \in Cells /\ memory \in [Cells -> Contents]
    <3>1. ac_name \in Names /\ copied \in Nat /\ copied <= Len(ac_name)
      BY <1>6, SizeAssumption DEF CopyCell, TypeOK, Handles, Block
    <3>2. Len(ac_name) \in Nat /\ Len(ac_name) < SHARED_MEM_SIZE
      BY <3>1, NameFits
    <3> QED
      BY <3>1, <3>2, SizeAssumption DEF TypeOK, Cells
  <2>2. CASE copied < Len(ac_name)
    <3>0. copied # Len(ac_name)
      BY <2>1, <2>2
    <3>1. /\ memory' = [memory EXCEPT ![copied + 1] = ac_name[copied + 1]]
          /\ copied' = copied + 1
          /\ UNCHANGED <<notifyPc, written, unsignaled, ac_name, listenVars,
                         moduleVars, notifications, eventSignaled, overlapped>>
      BY <1>6, <3>0 DEF CopyCell
    <3>2. ac_name[copied + 1] \in Chars /\ copied + 1 < SHARED_MEM_SIZE
      <4>1. /\ ac_name \in Seq(Chars) /\ Len(ac_name) \in Nat
            /\ Len(ac_name) < SHARED_MEM_SIZE
        BY <2>1, NameFits
      <4>2. copied + 1 \in 1 .. Len(ac_name)
        BY <2>1, <2>2, <4>1
      <4> QED
        BY <4>1, <4>2, SizeAssumption
    <3>3. TypeOK'
      BY <2>1, <3>1, <3>2, SizeAssumption
         DEF TypeOK, Cells, Contents, moduleVars, listenVars
    <3>4. Handles' /\ Signalled' /\ CopyOut'
      BY <1>6, <3>1 DEF CopyCell, Handles, Signalled, CopyOut, ListenerReads,
                        moduleVars, listenVars
    <3>5. Block'
      <4>1. copied + 1 <= Len(ac_name)
        BY <2>1, <2>2, NameFits
      <4>2. \A i \in 1 .. copied + 1 : memory'[i] = ac_name[i]
        BY <1>6, <2>1, <3>1, <3>2, SizeAssumption DEF CopyCell, Block, Cells
      <4>3. memory'[SHARED_MEM_SIZE] = NUL
        BY <2>1, <3>1, <3>2, SizeAssumption DEF Block, Cells
      <4> QED
        BY <1>6, <3>1, <4>1, <4>2, <4>3 DEF CopyCell, Block
    <3> QED
      BY <3>3, <3>4, <3>5
  <2>3. CASE copied = Len(ac_name)
    <3>0. ~ copied < Len(ac_name)
      BY <2>1, <2>3, NameFits
    <3>1. /\ memory' = [memory EXCEPT ![copied + 1] = NUL]
          /\ copied' = copied + 1
          /\ notifyPc' = "signal"
          /\ written' = ac_name
          /\ UNCHANGED <<ac_name, unsignaled, listenVars, moduleVars,
                         notifications, eventSignaled, overlapped>>
      BY <1>6, <3>0 DEF CopyCell, Terminated
    <3>2. TypeOK'
      BY <2>1, <3>1, SizeAssumption DEF TypeOK, Cells, Contents, moduleVars, listenVars
    <3>3. Handles' /\ Signalled'
      BY <1>6, <3>1 DEF CopyCell, Handles, Signalled, moduleVars, listenVars
    <3>4. CopyOut'
      BY <1>6, <3>1 DEF CopyCell, CopyOut, ListenerReads, listenVars
    <3>5. Block'
      <4>1. \A i \in 1 .. Len(ac_name) : memory'[i] = ac_name[i]
        BY <1>6, <2>1, <2>3, <3>1, NameFits, SizeAssumption DEF CopyCell, Block, Cells
      <4>2. memory'[Len(ac_name) + 1] = NUL
        BY <2>1, <2>3, <3>1
      <4>3. memory'[SHARED_MEM_SIZE] = NUL
        BY <2>1, <3>1, SizeAssumption DEF Block, Cells
      <4> QED
        BY <2>1, <3>1, <4>1, <4>2, <4>3, NameFits DEF Block, HoldsString
    <3> QED
      BY <3>2, <3>3, <3>4, <3>5
  <2> QED
    BY <1>6, <2>2, <2>3 DEF CopyCell
<1>7. CASE SignalEvent
  <2>1. /\ eventSignaled' \in BOOLEAN /\ unsignaled' \in BOOLEAN
        /\ eventSignaled' \/ unsignaled'
    <3>1. CASE eventSignaled' = TRUE /\ unsignaled' = FALSE
      BY <3>1, Zenon
    <3>2. CASE unsignaled' = ~ eventSignaled /\ UNCHANGED eventSignaled
      BY <3>2, Zenon DEF TypeOK
    <3> QED
      BY <1>7, <3>1, <3>2 DEF SignalEvent
  <2>2. TypeOK' /\ Handles' /\ Signalled'
    BY <1>7, <2>1 DEF SignalEvent, TypeOK, Handles, Signalled, moduleVars, listenVars
  <2>3. Block' /\ CopyOut'
    BY <1>7 DEF SignalEvent, Block, HoldsString, CopyOut, ListenerReads, moduleVars,
                listenVars
  <2> QED
    BY <2>2, <2>3
<1>8. CASE ListenerOpen
  <2>1. TypeOK'
    <3>1. listenPc' \in {"open", "wait", "gaveUp"} /\ retries' \in 0 .. max_retries
      BY <1>8, BoundsAssumption DEF ListenerOpen, RetryOpen, TypeOK, Attempts
    <3> QED
      BY <1>8, <3>1 DEF ListenerOpen, TypeOK, moduleVars, notifyVars
  <2>2. Handles' /\ Block' /\ CopyOut' /\ Signalled'
    BY <1>8 DEF ListenerOpen, Handles, Block, HoldsString, CopyOut, ListenerReads,
                Signalled, moduleVars, notifyVars
  <2> QED
    BY <2>1, <2>2
<1>9. CASE ListenerPrepare \/ ListenerWakes
  BY <1>9 DEF ListenerPrepare, ListenerWakes, TypeOK, Handles, Block, HoldsString,
              CopyOut, ListenerReads, Signalled, moduleVars, notifyVars
<1>10. CASE ListenerOpenMap
  <2>1. TypeOK'
    <3>1. overlapped' \in BOOLEAN
      <4>1. overlapped' = (notifyPc = "copy") \/ overlapped' = overlapped
        BY <1>10 DEF ListenerOpenMap
      <4> QED
        BY <4>1, Zenon DEF TypeOK
    <3>2. listenPc' \in {"measure", "reset"}
      BY <1>10 DEF ListenerOpenMap
    <3> QED
      BY <1>10, <3>1, <3>2 DEF ListenerOpenMap, TypeOK, moduleVars, notifyVars
  <2>2. Handles' /\ Block' /\ Signalled'
    BY <1>10 DEF ListenerOpenMap, Handles, Block, HoldsString, Signalled,
                 moduleVars, notifyVars
  <2>3. CopyOut'
    <3>1. measured = 0 /\ Len(currentDetection) = 0
      BY <1>10 DEF ListenerOpenMap, CopyOut, ListenerReads, TypeOK
    <3>2. UNCHANGED <<measured, currentDetection, notifyPc, written>>
      BY <1>10 DEF ListenerOpenMap, notifyVars
    <3>3. CASE listenPc' = "measure"
      <4>1. notifyPc # "killed" /\ (~ overlapped' => notifyPc # "copy")
        BY <1>10, <3>3 DEF ListenerOpenMap, Handles, TypeOK
      <4> QED
        BY <3>1, <3>2, <3>3, <4>1, WrittenFits DEF CopyOut, ListenerReads
    <3>4. CASE listenPc' = "reset"
      BY <3>1, <3>2, <3>4 DEF CopyOut, ListenerReads
    <3> QED
      BY <1>10, <3>3, <3>4 DEF ListenerOpenMap
  <2> QED
    BY <2>1, <2>2, <2>3
<1>11. CASE ListenerMeasureCell
  <2>1. /\ measured \in Nat /\ measured + 1 \in Cells
        /\ UNCHANGED <<moduleVars, notifyVars, retries, currentDetection, overlapped,
                       lastPrintedAnticheat, eventSignaled, memory>>
    BY <1>11, SizeAssumption DEF ListenerMeasureCell, TypeOK, Cells
  <2>2. Handles' /\ Block' /\ Signalled'
    BY <2>1 DEF Handles, Block, HoldsString, Signalled, moduleVars, notifyVars
  <2>3. CASE memory[measured + 1] # NUL
    <3>1. measured' = measured + 1 /\ listenPc' = "measure" /\ listenPc = "measure"
      BY <1>11, <2>3 DEF ListenerMeasureCell
    <3>2. measured + 1 < SHARED_MEM_SIZE
      BY <2>1, <2>3, SizeAssumption DEF Block, Cells
    <3>3. TypeOK'
      <4>1. /\ measured' \in 0 .. SHARED_MEM_SIZE - 1
            /\ currentDetection' \in Seq(Contents) /\ Len(currentDetection') <= measured'
        <5>1. Len(currentDetection) \in Nat /\ Len(currentDetection) <= measured
          BY DEF TypeOK
        <5> QED
          BY <2>1, <3>1, <3>2, <5>1, SizeAssumption DEF TypeOK
      <4> QED
        BY <2>1, <3>1, <4>1 DEF TypeOK, moduleVars, notifyVars
    <3>4. CopyOut'
      <4>1. SUFFICES ASSUME ~ overlapped PROVE CopyOut'
        BY <2>1, <3>1 DEF CopyOut, ListenerReads
      <4>2. /\ notifyPc \notin {"copy", "killed"}
            /\ measured <= Len(written)
            /\ \A i \in 1 .. Len(currentDetection) : currentDetection[i] = written[i]
        BY <3>1, <4>1 DEF CopyOut, ListenerReads
      <4>3. measured # Len(written)
        BY <2>3, <4>2 DEF Block, HoldsString
      <4> QED
        BY <2>1, <3>1, <4>2, <4>3, WrittenFits DEF CopyOut, ListenerReads, notifyVars
    <3> QED
      BY <2>2, <3>3, <3>4
  <2>4. CASE memory[measured + 1] = NUL
    <3>1. listenPc' = "copy" /\ measured' = measured /\ listenPc = "measure"
      BY <1>11, <2>4 DEF ListenerMeasureCell
    <3>2. TypeOK'
      BY <2>1, <3>1 DEF TypeOK, moduleVars, notifyVars
    <3>3. CopyOut'
      <4>1. SUFFICES ASSUME ~ overlapped PROVE CopyOut'
        BY <2>1, <3>1 DEF CopyOut, ListenerReads
      <4>2. /\ notifyPc \notin {"copy", "killed"}
            /\ measured <= Len(written)
            /\ \A i \in 1 .. Len(currentDetection) : currentDetection[i] = written[i]
        BY <3>1, <4>1 DEF CopyOut, ListenerReads
      <4>3. \A i \in 1 .. Len(written) : memory[i] \in Chars
        BY <4>2, WrittenFits DEF Block, HoldsString
      <4>4. ~ measured < Len(written)
        BY <2>1, <2>4, <4>3, WrittenFits, NulAssumption
      <4>5. measured = Len(written)
        BY <2>1, <4>2, <4>4, WrittenFits
      <4> QED
        BY <2>1, <3>1, <4>2, <4>5, WrittenFits DEF CopyOut, ListenerReads, notifyVars
    <3> QED
      BY <2>2, <3>2, <3>3
  <2> QED
    BY <2>3, <2>4
<1>12. CASE ListenerReadCell
  <2> DEFINE c == memory[Len(currentDetection) + 1]
  <2>1. /\ currentDetection \in Seq(Contents) /\ Len(currentDetection) \in Nat
        /\ measured \in Nat /\ measured < SHARED_MEM_SIZE
        /\ Len(currentDetection) <= measured
    BY SizeAssumption DEF TypeOK
  <2>2. /\ listenPc = "copy"
        /\ UNCHANGED <<moduleVars, notifyVars, retries, eventSignaled, memory>>
    BY <1>12 DEF ListenerReadCell
  <2>3. Handles' /\ Block' /\ Signalled'
    BY <2>2 DEF Handles, Block, HoldsString, Signalled, moduleVars, notifyVars
  <2>4. CASE Len(currentDetection) < measured
    <3>0. Len(currentDetection) # measured
      BY <2>1, <2>4
    <3>1. /\ currentDetection' = Append(currentDetection, c)
          /\ UNCHANGED <<listenPc, measured, lastPrintedAnticheat, overlapped>>
      BY <1>12, <3>0 DEF ListenerReadCell
    <3>2. Len(currentDetection) + 1 \in Cells /\ c \in Contents
      BY <2>1, <2>4, SizeAssumption DEF TypeOK, Cells
    <3>3. TypeOK'
      BY <2>1, <2>2, <2>4, <3>1, <3>2 DEF TypeOK, moduleVars, notifyVars
    <3>4. CopyOut'
      <4>1. SUFFICES ASSUME ~ overlapped PROVE CopyOut'
        BY <2>2, <3>1 DEF CopyOut, ListenerReads
      <4>2. /\ notifyPc \notin {"copy", "killed"}
            /\ measured = Len(written)
            /\ \A i \in 1 .. Len(currentDetection) : currentDetection[i] = written[i]
        BY <2>2, <4>1 DEF CopyOut, ListenerReads
      <4>3. c = written[Len(currentDetection) + 1]
        BY <2>1, <2>4, <4>2, WrittenFits DEF Block, HoldsString
      <4> QED
        BY <2>1, <2>2, <3>1, <4>2, <4>3, WrittenFits DEF CopyOut, ListenerReads, notifyVars
    <3> QED
      BY <2>3, <3>3, <3>4
  <2>5. CASE Len(currentDetection) = measured
    <3>0. ~ Len(currentDetection) < measured
      BY <2>1, <2>5
    <3>1. /\ listenPc' = "reset" /\ measured' = 0 /\ currentDetection' = <<>>
          /\ overlapped' = FALSE
          /\ lastPrintedAnticheat' \in {currentDetection, lastPrintedAnticheat}
      BY <1>12, <3>0 DEF ListenerReadCell
    <3>2. overlapped' \in BOOLEAN
      BY <3>1, Zenon
    <3>3. lastPrintedAnticheat' \in Seq(Contents)
      BY <2>1, <3>1 DEF TypeOK
    <3>4. /\ measured' \in 0 .. SHARED_MEM_SIZE - 1 /\ currentDetection' \in Seq(Contents)
          /\ Len(currentDetection') <= measured'
      BY <3>1, SizeAssumption
    <3>5. TypeOK'
      BY <2>2, <3>1, <3>2, <3>3, <3>4 DEF TypeOK, moduleVars, notifyVars
    <3>6. CopyOut'
      BY <3>1 DEF CopyOut, ListenerReads
    <3> QED
      BY <2>3, <3>5, <3>6
  <2> QED
    BY <1>12, <2>4, <2>5 DEF ListenerReadCell
<1>13. CASE ListenerReset
  <2>1. eventSignaled' = eventSignaled
    BY <1>13 DEF ListenerReset, ListenerAccess, TypeOK
  <2> QED
    BY <1>13, <2>1 DEF ListenerReset, TypeOK, Handles, Block, HoldsString, CopyOut,
                       ListenerReads, Signalled, moduleVars, notifyVars
<1>14. CASE UNCHANGED vars
  BY <1>14 DEF vars, TypeOK, Handles, Block, HoldsString, CopyOut, ListenerReads,
               Signalled, moduleVars, notifyVars, listenVars
<1> QED
  BY <1>1, <1>2, <1>3, <1>4, <1>5, <1>6, <1>7, <1>8, <1>9, <1>10, <1>11, <1>12, <1>13,
     <1>14
     DEF Next, InitThread, Notify, Listener

LEMMA SpecIInv == Spec => []IInv
  BY InitIInv, NextIInv, PTL DEF Spec

(* A copy out that nothing overlapped ends with the name that was written. *)
LEMMA UndisturbedCopyIsWhole ==
    ASSUME IInv, ListenerReadCell, Len(currentDetection) = measured, ~ overlapped
    PROVE  currentDetection = written
<1> USE DEF IInv, Core
<1>1. currentDetection \in Seq(Contents) /\ written \in Seq(Chars)
  BY WrittenFits DEF TypeOK
<1>2. /\ Len(currentDetection) = Len(written)
      /\ \A i \in 1 .. Len(currentDetection) : currentDetection[i] = written[i]
  BY DEF ListenerReadCell, CopyOut, ListenerReads
<1> QED
  BY <1>1, <1>2

-----------------------------------------------------------------------------
(* The variables keep their types: in particular the copy in never leaves   *)
(* the block, and the copy out always finds a terminator inside it.         *)
THEOREM ChannelTypeCorrect == Spec => []TypeOK
<1>1. IInv => TypeOK
  BY DEF IInv, Core
<1> QED
  BY <1>1, SpecIInv, PTL

(* No listener sleeps on a detection it has not printed, unless the SetEvent*)
(* of that very detection failed.                                           *)
THEOREM NoWakeupIsLost == Spec => []NoLostWakeup
<1>1. IInv => NoLostWakeup
  BY DEF IInv, Core, Signalled, NoLostWakeup
<1> QED
  BY <1>1, SpecIInv, PTL

(* The block, copied in and out cell by cell, refines the safe register: a  *)
(* read no write overlaps returns the name written last.                    *)
THEOREM ChannelImplementsSafeRegister == Spec => ImplementsSafeRegister
<1>1. Init => R!Init
  BY DEF Init, R!Init, ListenerReads
<1>2. IInv /\ [Next]_vars => [R!Next]_(R!vars)
  <2> SUFFICES ASSUME IInv, [Next]_vars PROVE R!Next \/ UNCHANGED R!vars
    OBVIOUS
  <2> USE DEF IInv, Core
  <2>1. CASE CreateEvent \/ CreateFileMapping \/ ListenerPrepare
                \/ ListenerOpen \/ ListenerWakes \/ ListenerReset \/ SignalEvent
    BY <2>1 DEF CreateEvent, CreateFileMapping, ListenerPrepare,
                ListenerOpen, ListenerWakes,
                ListenerReset, SignalEvent, ListenerReads, R!vars, notifyVars, listenVars
  <2>2. CASE Detach
    BY <2>2 DEF Detach, Handles, ListenerReads, R!vars, listenVars
  <2>3. ASSUME NEW name \in Names, NotifyDetection(name) PROVE UNCHANGED R!vars
    BY <2>3 DEF NotifyDetection, ListenerReads, R!vars, listenVars
  <2>4. CASE MapViewOfFile
    <3>1. CASE notifyPc' = "copy" /\ overlapped' = ListenerReads
      BY <2>4, <3>1 DEF MapViewOfFile, ListenerReads, R!Next, R!WriteBegin, listenVars
    <3>2. CASE notifyPc' = "idle" /\ UNCHANGED overlapped
      BY <2>4, <3>2 DEF MapViewOfFile, ListenerReads, R!vars, listenVars
    <3> QED
      BY <2>4, <3>1, <3>2 DEF MapViewOfFile
  <2>5. CASE CopyCell
    <3>1. CASE UNCHANGED <<notifyPc, written>>
      BY <2>5, <3>1 DEF CopyCell, ListenerReads, R!vars, listenVars
    <3>2. CASE notifyPc' = "signal" /\ written' = ac_name
      <4>1. ac_name \in Names
        BY <2>5 DEF CopyCell, Handles
      <4>2. R!WriteEnd(ac_name)
        BY <2>5, <3>2 DEF CopyCell, ListenerReads, R!WriteEnd, listenVars
      <4> QED
        BY <4>1, <4>2 DEF R!Next
    <3> QED
      BY <2>5, <3>1, <3>2 DEF CopyCell
  <2>6. CASE ListenerOpenMap
    <3>1. CASE listenPc' = "measure" /\ overlapped' = (notifyPc = "copy")
      <4>1. notifyPc # "killed"
        BY <2>6, <3>1 DEF ListenerOpenMap, Handles, TypeOK
      <4> QED
        BY <2>6, <3>1, <4>1 DEF ListenerOpenMap, ListenerReads, R!Next, R!ReadBegin,
                                notifyVars
    <3>2. CASE listenPc' = "reset" /\ UNCHANGED overlapped
      BY <2>6, <3>2 DEF ListenerOpenMap, ListenerReads, R!vars, notifyVars
    <3> QED
      BY <2>6, <3>1, <3>2 DEF ListenerOpenMap
  <2>7. CASE ListenerMeasureCell
    BY <2>7 DEF ListenerMeasureCell, ListenerReads, R!vars, notifyVars
  <2>8. CASE ListenerReadCell
    <3>1. CASE UNCHANGED <<listenPc, measured, lastPrintedAnticheat, overlapped>>
      BY <2>8, <3>1 DEF ListenerReadCell, ListenerReads, R!vars, notifyVars
    <3>2. CASE /\ Len(currentDetection) = measured
               /\ lastPrintedAnticheat' = IF currentDetection # <<>> THEN currentDetection
                                          ELSE lastPrintedAnticheat
               /\ listenPc' = "reset"
               /\ overlapped' = FALSE
      <4>1. /\ currentDetection \in Seq(Contents) /\ Len(currentDetection) \in Nat
            /\ Len(currentDetection) < SHARED_MEM_SIZE
        BY SizeAssumption DEF TypeOK
      <4>2. currentDetection \in Results
        <5>1. currentDetection \in [1 .. Len(currentDetection) -> Contents]
          BY <4>1
        <5>2. Len(currentDetection) \in 0 .. SHARED_MEM_SIZE - 1
          BY <4>1, SizeAssumption
        <5> QED
          BY <5>1, <5>2 DEF Results
      <4>3. overlapped \/ currentDetection = written
        BY <2>8, <3>2, UndisturbedCopyIsWhole
      <4>4. R!ReadEnd(currentDetection)
        BY <2>8, <3>2, <4>3 DEF ListenerReadCell, ListenerReads, R!ReadEnd, notifyVars
      <4> QED
        BY <4>2, <4>4 DEF R!Next
    <3> QED
      BY <2>8, <3>1, <3>2 DEF ListenerReadCell
  <2>9. CASE UNCHANGED vars
    BY <2>9 DEF vars, ListenerReads, R!vars, notifyVars, listenVars
  <2> QED
    BY <2>1, <2>2, <2>3, <2>4, <2>5, <2>6, <2>7, <2>8, <2>9
       DEF Next, InitThread, Notify, Listener
<1> QED
  BY <1>1, <1>2, SpecIInv, PTL DEF Spec, ImplementsSafeRegister, R!Spec
=============================================================================
