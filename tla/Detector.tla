------------------------------- MODULE Detector -------------------------------
(***************************************************************************)
(* The analyzer and the channel together: a verdict that is news is handed  *)
(* to notify_detection inside analyzeServer, on the thread that read the    *)
(* packet, so the next packet waits until the notification is through.      *)
(* InitThread has enabled the hooks before it creates the event and the     *)
(* block (dllmain.cpp:181-196): packets may arrive before either exists.    *)
(***************************************************************************)
EXTENDS TransactionAnalyzer

CONSTANTS
    Chars, NUL, SHARED_MEM_SIZE, max_retries, MaxNotifications, Failures,
    getAnticheatName   \* the string of each anticheat

Names == {getAnticheatName[a] : a \in Reported}

VARIABLES
    g_hIpcEvent, g_hIpcMapFile, initPc, notifyPc, ac_name, copied, notifications,
    eventSignaled, memory, listenPc, retries, measured, currentDetection,
    lastPrintedAnticheat, written, unsignaled, overlapped,
    dropped   \* history: the last report has not reached the block

Ch == INSTANCE DetectionChannel

ASSUME ChannelAssumption ==
    /\ NUL \notin Chars
    /\ SHARED_MEM_SIZE \in Nat \ {0}
    /\ \A n \in Names : n \in Seq(Chars) /\ n # <<>> /\ Len(n) < SHARED_MEM_SIZE
    /\ max_retries \in Nat \ {0}
    /\ MaxNotifications \in Nat
    /\ Failures \subseteq Ch!PossibleFailures

chVars == <<g_hIpcEvent, g_hIpcMapFile, initPc, notifyPc, ac_name, copied,
            notifications, eventSignaled, memory, listenPc, retries, measured,
            currentDetection, lastPrintedAnticheat, written, unsignaled, overlapped>>
dvars == <<vars, chVars, dropped>>

DInit == Init /\ Ch!Init /\ dropped = FALSE

-----------------------------------------------------------------------------
(* Is the verdict reported? *)
IsNews(verdict, last) == verdict # "UNKNOWN" /\ verdict # last

(* logServerTransactionIdCpp, by way of analyzeServer. *)
DServer(id) ==
    /\ notifyPc = "idle"
    /\ AnalyzeServer(id)
    /\ \/ /\ IsNews(Verdict(id), lastNotifiedAnticheat)
          /\ Ch!NotifyDetection(getAnticheatName[Verdict(id)])
          /\ dropped' = TRUE
       \/ /\ ~ IsNews(Verdict(id), lastNotifiedAnticheat)
          /\ UNCHANGED <<chVars, dropped>>

(* logClientTransactionIdCpp, by way of analyzeClient. *)
DClient(id) ==
    /\ notifyPc = "idle"
    /\ AnalyzeClient(id)
    /\ UNCHANGED <<chVars, dropped>>

(* The steps of notify_detection; the report arrives with the terminator.   *)
DNotify ==
    /\ Ch!Notify
    /\ dropped' = (dropped /\ notifyPc' # "signal")
    /\ UNCHANGED vars

(* The other two threads, and the end of the game. *)
DOther ==
    /\ Ch!InitThread \/ Ch!Detach \/ Ch!Listener
    /\ UNCHANGED <<vars, dropped>>

DNext == (\E id \in Ids : DServer(id) \/ DClient(id)) \/ DNotify \/ DOther

DSpec == DInit /\ [][DNext]_dvars

(* Fairness of the three threads once they have something to do, and of the *)
(* listener's mapping, as in DetectionChannel; no packet need ever arrive.  *)
FairDSpec ==
    /\ DSpec
    /\ WF_dvars(DNotify)
    /\ WF_dvars(Ch!InitThread /\ UNCHANGED <<vars, dropped>>)
    /\ WF_dvars(Ch!ListenerRuns /\ UNCHANGED <<vars, dropped>>)
    /\ SF_dvars(Ch!ListenerMaps /\ UNCHANGED <<vars, dropped>>)

-----------------------------------------------------------------------------
(* Two components agree on the last report: with no notification under way, *)
(* the block holds the name of lastNotifiedAnticheat, unless that report    *)
(* was dropped for want of the handles or the view.                         *)
BlockHoldsReport ==
    notifyPc = "idle" /\ ~ dropped =>
        written = IF lastNotifiedAnticheat = "UNKNOWN" THEN <<>>
                  ELSE getAnticheatName[lastNotifiedAnticheat]

(* End to end: a report that stands and was neither dropped nor left        *)
(* unsignaled (transaction.cpp:54) is what the injector prints in the end,  *)
(* unless its listener has returned.                                        *)
ReportIsPrinted ==
    \A a \in Reported :
        <>[](/\ lastNotifiedAnticheat = a
             /\ notifyPc = "idle" /\ ~ dropped /\ ~ unsignaled)
            => <>[](\/ lastPrintedAnticheat = getAnticheatName[a]
                    \/ listenPc = "gaveUp")

(* The injector never prints the report before last: outside a notification *)
(* what a copy out that none overlapped prints is the current report.       *)
PrintsCurrentReport ==
    [][ (/\ lastPrintedAnticheat' # lastPrintedAnticheat
         /\ notifyPc = "idle" /\ ~ overlapped /\ ~ dropped)
            => lastPrintedAnticheat' = getAnticheatName[lastNotifiedAnticheat] ]_dvars
=============================================================================
