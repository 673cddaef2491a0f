---------------------------- MODULE Detector_proofs ----------------------------
(***************************************************************************)
(* Analyzer and channel keep their own specifications when they are put     *)
(* together, and agree on the last report, for every value of the constants.*)
(***************************************************************************)
EXTENDS Detector, TLAPS

(* The name of the last report; nothing before the first one. *)
ReportedName ==
    IF lastNotifiedAnticheat = "UNKNOWN" THEN <<>>
    ELSE getAnticheatName[lastNotifiedAnticheat]

(* From the report to the terminator the name under way is that of          *)
(* lastNotifiedAnticheat; from then on it is the name in the block.         *)
ReportUnderWay ==
    /\ notifyPc = "idle" /\ ~ dropped => written = ReportedName
    /\ notifyPc \in {"map", "copy"} => dropped /\ ac_name = ReportedName
    /\ notifyPc = "signal" => written = ReportedName

-----------------------------------------------------------------------------
(* A packet changes lastNotifiedAnticheat exactly when it brings news. *)
LEMMA NewsIsNoted ==
    ASSUME NEW id, AnalyzeServer(id)
    PROVE  lastNotifiedAnticheat' =
              IF IsNews(Verdict(id), lastNotifiedAnticheat)
              THEN Verdict(id) ELSE lastNotifiedAnticheat
  BY DEF AnalyzeServer, Conclude, Continue, IsNews

LEMMA InitReportUnderWay == DInit => ReportUnderWay
  BY DEF DInit, Init, Ch!Init, ReportUnderWay, ReportedName

LEMMA NextReportUnderWay == ReportUnderWay /\ [DNext]_dvars => ReportUnderWay'
<1> SUFFICES ASSUME ReportUnderWay, [DNext]_dvars PROVE ReportUnderWay'
  OBVIOUS
<1>1. ASSUME NEW id \in Ids, DServer(id) PROVE ReportUnderWay'
  <2> DEFINE v == Verdict(id)
  <2>1. notifyPc = "idle" /\ AnalyzeServer(id)
    BY <1>1 DEF DServer
  <2>2. CASE IsNews(v, lastNotifiedAnticheat)
    <3>1. lastNotifiedAnticheat' = v /\ v # "UNKNOWN"
      BY <2>1, <2>2, NewsIsNoted DEF IsNews
    <3>2. Ch!NotifyDetection(getAnticheatName[v]) /\ dropped' = TRUE
      BY <1>1, <2>2 DEF DServer
    <3>3. \/ notifyPc' = "idle"
          \/ notifyPc' = "map" /\ ac_name' = getAnticheatName[v]
      BY <2>1, <3>2 DEF Ch!NotifyDetection
    <3> QED
      BY <3>1, <3>2, <3>3 DEF ReportUnderWay, ReportedName
  <2>3. CASE ~ IsNews(v, lastNotifiedAnticheat)
    <3>1. lastNotifiedAnticheat' = lastNotifiedAnticheat
      BY <2>1, <2>3, NewsIsNoted
    <3>2. UNCHANGED <<chVars, dropped>>
      BY <1>1, <2>3 DEF DServer
    <3> QED
      BY <3>1, <3>2 DEF ReportUnderWay, ReportedName, chVars
  <2> QED
    BY <2>2, <2>3
<1>2. ASSUME NEW id \in Ids, DClient(id) PROVE ReportUnderWay'
  BY <1>2 DEF DClient, AnalyzeClient, ReportUnderWay, ReportedName, chVars
<1>3. CASE DNotify
  <2>1. /\ UNCHANGED lastNotifiedAnticheat
        /\ dropped' = (dropped /\ notifyPc' # "signal")
    BY <1>3 DEF DNotify, vars
  <2>2. CASE Ch!MapViewOfFile
    <3>1. /\ notifyPc = "map" /\ notifyPc' \in {"copy", "idle"}
          /\ UNCHANGED <<ac_name, written>>
      BY <2>2 DEF Ch!MapViewOfFile
    <3>2. dropped'
      BY <2>1, <3>1 DEF ReportUnderWay
    <3> QED
      BY <2>1, <3>1, <3>2 DEF ReportUnderWay, ReportedName
  <2>3. CASE Ch!CopyCell
    <3>1. CASE UNCHANGED <<notifyPc, written>>
      <4>1. notifyPc = "copy" /\ UNCHANGED ac_name
        BY <2>3 DEF Ch!CopyCell
      <4>2. dropped'
        BY <2>1, <3>1, <4>1 DEF ReportUnderWay
      <4> QED
        BY <2>1, <3>1, <4>1, <4>2 DEF ReportUnderWay, ReportedName
    <3>2. CASE notifyPc' = "signal" /\ written' = ac_name
      <4>1. ac_name = ReportedName
        BY <2>3 DEF Ch!CopyCell, ReportUnderWay
      <4> QED
        BY <2>1, <3>2, <4>1 DEF ReportUnderWay, ReportedName
    <3> QED
      BY <2>3, <3>1, <3>2 DEF Ch!CopyCell
  <2>4. CASE Ch!SignalEvent
    BY <2>1, <2>4 DEF Ch!SignalEvent, ReportUnderWay, ReportedName
  <2> QED
    BY <1>3, <2>2, <2>3, <2>4 DEF DNotify, Ch!Notify
<1>4. CASE DOther
  <2>1. UNCHANGED <<lastNotifiedAnticheat, dropped>>
    BY <1>4 DEF DOther, vars
  <2>2. CASE Ch!Detach
    BY <2>1, <2>2 DEF Ch!Detach, ReportUnderWay
  <2>3. CASE Ch!InitThread
    BY <2>1, <2>3 DEF Ch!InitThread, Ch!CreateEvent, Ch!CreateFileMapping,
                      Ch!notifyVars, ReportUnderWay, ReportedName
  <2>4. CASE Ch!Listener
    BY <2>1, <2>4 DEF Ch!Listener, Ch!ListenerPrepare, Ch!ListenerOpen, Ch!ListenerWakes,
                      Ch!ListenerOpenMap, Ch!ListenerMeasureCell, Ch!ListenerReadCell,
                      Ch!ListenerReset, Ch!notifyVars, ReportUnderWay, ReportedName
  <2> QED
    BY <1>4, <2>2, <2>3, <2>4 DEF DOther
<1>5. CASE UNCHANGED dvars
  BY <1>5 DEF dvars, vars, chVars, ReportUnderWay, ReportedName
<1> QED
  BY <1>1, <1>2, <1>3, <1>4, <1>5 DEF DNext

-----------------------------------------------------------------------------
(* What the analyzer believes it reported and what the block holds agree    *)
(* whenever no notification is under way and the last one was not dropped.  *)
THEOREM AnalyzerAndBlockAgree == DSpec => []BlockHoldsReport
<1>1. ReportUnderWay => BlockHoldsReport
  BY DEF ReportUnderWay, ReportedName, BlockHoldsReport
<1> QED
  BY <1>1, InitReportUnderWay, NextReportUnderWay, PTL DEF DSpec

(* The composition does to the channel only what the channel allows: every  *)
(* safety property of DetectionChannel holds of it.                         *)
THEOREM DetectorRunsChannel == DSpec => Ch!Spec
<1>1. DInit => Ch!Init
  BY DEF DInit
<1>2. [DNext]_dvars => [Ch!Next]_(Ch!vars)
  <2> SUFFICES ASSUME [DNext]_dvars PROVE Ch!Next \/ UNCHANGED Ch!vars
    OBVIOUS
  <2>1. ASSUME NEW id \in Ids, DServer(id) PROVE Ch!Next \/ UNCHANGED Ch!vars
    <3>1. CASE IsNews(Verdict(id), lastNotifiedAnticheat)
      <4>1. Verdict(id) \in Reported
        BY <3>1 DEF IsNews, Verdict, GuessAfter, Confirms, Reported
      <4>2. getAnticheatName[Verdict(id)] \in Names
        BY <4>1 DEF Names
      <4> QED
        BY <2>1, <3>1, <4>2 DEF DServer, Ch!Next
    <3>2. CASE ~ IsNews(Verdict(id), lastNotifiedAnticheat)
      BY <2>1, <3>2 DEF DServer, chVars, Ch!vars, Ch!moduleVars, Ch!notifyVars,
                        Ch!listenVars
    <3> QED
      BY <3>1, <3>2
  <2>2. ASSUME NEW id \in Ids, DClient(id) PROVE UNCHANGED Ch!vars
    BY <2>2 DEF DClient, chVars, Ch!vars, Ch!moduleVars, Ch!notifyVars, Ch!listenVars
  <2>3. CASE DNotify
    BY <2>3 DEF DNotify, Ch!Next
  <2>4. CASE DOther
    BY <2>4 DEF DOther, Ch!Next
  <2>5. CASE UNCHANGED dvars
    BY <2>5 DEF dvars, chVars, Ch!vars, Ch!moduleVars, Ch!notifyVars, Ch!listenVars
  <2> QED
    BY <2>1, <2>2, <2>3, <2>4, <2>5 DEF DNext
<1> QED
  BY <1>1, <1>2, PTL DEF DSpec, Ch!Spec

(* And to the analyzer only what the analyzer allows. *)
THEOREM DetectorRunsAnalyzer == DSpec => Spec
<1>1. DInit => Init
  BY DEF DInit
<1>2. [DNext]_dvars => [Next]_vars
  BY DEF DNext, DServer, DClient, DNotify, DOther, Next, dvars
<1> QED
  BY <1>1, <1>2, PTL DEF DSpec, Spec

-----------------------------------------------------------------------------
(* The lemmas about the channel, of the channel in the composition.         *)
P == INSTANCE DetectionChannel_proofs

LEMMA ChannelAssumptionsHold ==
    /\ P!NulAssumption
    /\ P!SizeAssumption
    /\ P!NamesAssumption
    /\ P!BoundsAssumption
    /\ P!FailuresAssumption
  BY ChannelAssumption
     DEF P!NulAssumption, P!SizeAssumption, P!NamesAssumption, P!BoundsAssumption,
         P!FailuresAssumption, P!PossibleFailures, Ch!PossibleFailures

LEMMA ChannelInit == Ch!Init => P!IInv
<1>1. Ch!Init => P!Init
  BY DEF Ch!Init, P!Init, Ch!Cells, P!Cells
<1> QED
  BY <1>1, P!InitIInv, ChannelAssumptionsHold

(* Both instances are of one module. *)
LEMMA SameNext == Ch!Next => P!Next
<1>1. Ch!InitThread => P!InitThread
  BY DEF Ch!InitThread, Ch!CreateEvent, Ch!CreateFileMapping, Ch!notifyVars,
         Ch!listenVars, P!InitThread, P!CreateEvent, P!CreateFileMapping, P!notifyVars,
         P!listenVars
<1>2. Ch!Detach => P!Detach
  BY DEF Ch!Detach, Ch!listenVars, P!Detach, P!listenVars
<1>3. ASSUME NEW name, Ch!NotifyDetection(name) PROVE P!NotifyDetection(name)
  BY <1>3 DEF Ch!NotifyDetection, Ch!moduleVars, Ch!listenVars, P!NotifyDetection,
              P!moduleVars, P!listenVars
<1>4. Ch!Notify => P!Notify
  BY DEF Ch!Notify, Ch!MapViewOfFile, Ch!CopyCell, Ch!Terminated, Ch!SignalEvent,
         Ch!ListenerReads, Ch!moduleVars, Ch!listenVars, P!Notify, P!MapViewOfFile,
         P!CopyCell, P!Terminated, P!SignalEvent, P!ListenerReads, P!moduleVars,
         P!listenVars
<1>5. Ch!Listener => P!Listener
  <2>1. Ch!ListenerOpen => P!ListenerOpen
    BY DEF Ch!ListenerOpen, Ch!RetryOpen, Ch!moduleVars, Ch!notifyVars, P!ListenerOpen,
           P!RetryOpen, P!moduleVars, P!notifyVars
  <2>2. Ch!ListenerPrepare \/ Ch!ListenerWakes => P!ListenerPrepare \/ P!ListenerWakes
    BY DEF Ch!ListenerPrepare, Ch!ListenerWakes, Ch!moduleVars, Ch!notifyVars,
           P!ListenerPrepare, P!ListenerWakes, P!moduleVars, P!notifyVars
  <2>3. Ch!ListenerOpenMap => P!ListenerOpenMap
    BY DEF Ch!ListenerOpenMap, Ch!moduleVars, Ch!notifyVars, P!ListenerOpenMap,
           P!moduleVars, P!notifyVars
  <2>4. /\ Ch!ListenerMeasureCell => P!ListenerMeasureCell
        /\ Ch!ListenerReadCell => P!ListenerReadCell
    BY DEF Ch!ListenerMeasureCell, Ch!ListenerReadCell, Ch!moduleVars, Ch!notifyVars,
           P!ListenerMeasureCell, P!ListenerReadCell, P!moduleVars, P!notifyVars
  <2>5. Ch!ListenerReset => P!ListenerReset
    BY DEF Ch!ListenerReset, Ch!ListenerAccess, Ch!moduleVars, Ch!notifyVars,
           P!ListenerReset, P!ListenerAccess, P!moduleVars, P!notifyVars
  <2> QED
    BY <2>1, <2>2, <2>3, <2>4, <2>5 DEF Ch!Listener, P!Listener
<1> QED
  BY <1>1, <1>2, <1>3, <1>4, <1>5 DEF Ch!Next, P!Next

LEMMA SameVars == UNCHANGED Ch!vars => UNCHANGED P!vars
  BY DEF Ch!vars, Ch!moduleVars, Ch!notifyVars, Ch!listenVars,
         P!vars, P!moduleVars, P!notifyVars, P!listenVars

LEMMA ChannelInvariant == DSpec => []P!IInv
<1>1. P!IInv /\ [Ch!Next]_(Ch!vars) => P!IInv'
  <2>1. [Ch!Next]_(Ch!vars) => [P!Next]_(P!vars)
    BY SameNext, SameVars
  <2> QED
    BY <2>1, P!NextIInv, ChannelAssumptionsHold
<1>2. Ch!Spec => []P!IInv
  BY ChannelInit, <1>1, PTL DEF Ch!Spec
<1> QED
  BY <1>2, DetectorRunsChannel, PTL

(* What the injector prints, outside a notification and unless a copy in    *)
(* overlapped, is the current report (ipc.cpp:65-80, transaction.cpp:117).  *)
THEOREM CurrentReportIsPrinted == DSpec => PrintsCurrentReport
<1> DEFINE Current ==
      (/\ lastPrintedAnticheat' # lastPrintedAnticheat
       /\ notifyPc = "idle" /\ ~ overlapped /\ ~ dropped)
          => lastPrintedAnticheat' = getAnticheatName[lastNotifiedAnticheat]
<1>1. P!IInv /\ BlockHoldsReport /\ [DNext]_dvars => Current \/ UNCHANGED dvars
  <2> SUFFICES ASSUME P!IInv, BlockHoldsReport, [DNext]_dvars,
                      lastPrintedAnticheat' # lastPrintedAnticheat,
                      notifyPc = "idle", ~ overlapped, ~ dropped
               PROVE  lastPrintedAnticheat' = getAnticheatName[lastNotifiedAnticheat]
    OBVIOUS
  <2>1. Ch!ListenerReadCell
    BY DEF DNext, DServer, DClient, DNotify, DOther, dvars, chVars, Ch!NotifyDetection,
           Ch!Notify, Ch!MapViewOfFile, Ch!CopyCell, Ch!SignalEvent, Ch!InitThread,
           Ch!CreateEvent, Ch!CreateFileMapping, Ch!Detach, Ch!Listener,
           Ch!ListenerPrepare, Ch!ListenerOpen, Ch!ListenerWakes, Ch!ListenerOpenMap,
           Ch!ListenerMeasureCell, Ch!ListenerReset, Ch!listenVars
  <2>2. /\ Len(currentDetection) = measured
        /\ lastPrintedAnticheat' = currentDetection /\ currentDetection # <<>>
    BY <2>1 DEF Ch!ListenerReadCell
  <2>3. P!ListenerReadCell
    BY <2>1 DEF Ch!ListenerReadCell, Ch!moduleVars, Ch!notifyVars, P!ListenerReadCell,
                P!moduleVars, P!notifyVars
  <2>4. currentDetection = written
    BY <2>2, <2>3, P!UndisturbedCopyIsWhole, ChannelAssumptionsHold
  <2> QED
    BY <2>2, <2>4 DEF BlockHoldsReport
<1>2. DSpec => [](P!IInv /\ BlockHoldsReport)
  BY ChannelInvariant, AnalyzerAndBlockAgree, PTL
<1> QED
  BY <1>1, <1>2, PTL DEF DSpec, PrintsCurrentReport
=============================================================================
