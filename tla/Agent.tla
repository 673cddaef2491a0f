-------------------------------- MODULE Agent --------------------------------
(***************************************************************************)
(* The module inside the game, up to the point where packets reach the      *)
(* analyzer (dllmain.cpp): InitThread attaches to the JVM and enables two   *)
(* JVMTI events one after the other, while the game's own threads load and  *)
(* prepare the two packet classes and call their methods whenever they      *)
(* like.  A class file that passes the load hook gets a call to a native    *)
(* method; the prepare hook binds that method.                              *)
(***************************************************************************)
EXTENDS Integers

CONSTANT Failures   \* the steps that may fail, see PossibleFailures

PossibleFailures ==
    {"AttachToJVM", "SetEventNotificationMode", "instrument", "Allocate",
     "GetClassSignature", "RegisterNatives"}

ASSUME AgentFailuresAssumption == Failures \subseteq PossibleFailures

VARIABLES
    initPc,     \* where InitThread is
    g_jvmti,    \* the JVMTI environment: "null" or "open"
    loadHook,   \* JVMTI_EVENT_CLASS_FILE_LOAD_HOOK is enabled
    prepareHook,\* JVMTI_EVENT_CLASS_PREPARE is enabled
    class,      \* per packet class: "absent", "loaded" or "prepared"
    code,       \* per packet class: "original" or "instrumented"
    bound,      \* the classes whose native method is registered
    game,       \* "running", "crashed" or "ended"
    analyzed,   \* the classes of which a packet has reached the analyzer
    thrown,     \* history: the classes a call of which threw UnsatisfiedLinkError
    refused,    \* history: the classes onClassPrepare could not register
    covered     \* history: the hooks enabled when the class was loaded

agentVars == <<initPc, g_jvmti, loadHook, prepareHook>>
classVars == <<class, code, bound>>
history == <<thrown, refused, covered>>
vars == <<agentVars, classVars, game, analyzed, history>>

(* S32PacketConfirmTransaction and C0FPacketConfirmTransaction. *)
Packets == {"S32", "C0F"}
Hooks == {"load", "prepare"}

TypeOK ==
    /\ initPc \in {"attach", "enableLoad", "enablePrepare", "ready", "failed",
                   "detached"}
    /\ g_jvmti \in {"null", "open"}
    /\ loadHook \in BOOLEAN
    /\ prepareHook \in BOOLEAN
    /\ loadHook \/ prepareHook => g_jvmti = "open"
    /\ class \in [Packets -> {"absent", "loaded", "prepared"}]
    /\ code \in [Packets -> {"original", "instrumented"}]
    /\ bound \in SUBSET Packets
    /\ game \in {"running", "crashed", "ended"}
    /\ analyzed \in SUBSET Packets
    /\ thrown \in SUBSET Packets
    /\ refused \in SUBSET Packets
    /\ covered \in [Packets -> SUBSET Hooks]

(* InitThread starts with the game running and no hook in place. *)
Init ==
    /\ initPc = "attach"
    /\ g_jvmti = "null"
    /\ loadHook = FALSE
    /\ prepareHook = FALSE
    /\ class = [p \in Packets |-> "absent"]
    /\ code = [p \in Packets |-> "original"]
    /\ bound = {}
    /\ game = "running"
    /\ analyzed = {}
    /\ thrown = {}
    /\ refused = {}
    /\ covered = [p \in Packets |-> {}]

-----------------------------------------------------------------------------
(* JNI_GetCreatedJavaVMs, AttachCurrentThread, GetEnv, AddCapabilities and  *)
(* SetEventCallbacks: nothing another thread sees before the events are on. *)
AttachToJVM ==
    /\ game = "running"
    /\ initPc = "attach"
    /\ \/ g_jvmti' = "open" /\ initPc' = "enableLoad"
       \/ "AttachToJVM" \in Failures /\ initPc' = "failed" /\ UNCHANGED g_jvmti
    /\ UNCHANGED <<loadHook, prepareHook, classVars, game, analyzed, history>>

(* The result of SetEventNotificationMode is dropped. *)
Enables(hook) ==
    \/ hook' = TRUE
    \/ "SetEventNotificationMode" \in Failures /\ hook' = hook

EnableLoadHook ==
    /\ game = "running"
    /\ initPc = "enableLoad"
    /\ Enables(loadHook)
    /\ initPc' = "enablePrepare"
    /\ UNCHANGED <<g_jvmti, prepareHook, classVars, game, analyzed, history>>

EnablePrepareHook ==
    /\ game = "running"
    /\ initPc = "enablePrepare"
    /\ Enables(prepareHook)
    /\ initPc' = "ready"
    /\ UNCHANGED <<g_jvmti, loadHook, classVars, game, analyzed, history>>

(* Mutant of ModeAfterDetach: the events stay enabled. *)
ModeKept(hook) == hook

(* SetEventNotificationMode(JVMTI_DISABLE, ...). *)
ModeAfterDetach(hook) == FALSE

(* DLL_PROCESS_DETACH: the game ends and the environment is disposed of. *)
Detach ==
    /\ game = "running"
    /\ game' = "ended"
    /\ initPc' = "detached"
    /\ g_jvmti' = "null"
    /\ loadHook' = ModeAfterDetach(loadHook)
    /\ prepareHook' = ModeAfterDetach(prepareHook)
    /\ UNCHANGED <<classVars, analyzed, history>>

-----------------------------------------------------------------------------
(* onClassFileLoadHook.  Any exception of the instrumenter is caught and    *)
(* leaves the class as it was.  A failed Allocate is such an exception for  *)
(* S32; for C0F it is not looked at, and memcpy writes through the pointer. *)
OnClassFileLoadHook(p) ==
    \/ /\ code' = [code EXCEPT ![p] = "instrumented"]
       /\ UNCHANGED game
    \/ /\ "instrument" \in Failures \/ ("Allocate" \in Failures /\ p = "S32")
       /\ UNCHANGED <<code, game>>
    \/ /\ "Allocate" \in Failures /\ p = "C0F"
       /\ game' = "crashed"
       /\ UNCHANGED code

EnabledHooks ==
    {h \in Hooks : (h = "load" /\ loadHook) \/ (h = "prepare" /\ prepareHook)}

(* The JVM reads the class file of p. *)
LoadClass(p) ==
    /\ game = "running"
    /\ class[p] = "absent"
    /\ class' = [class EXCEPT ![p] = "loaded"]
    /\ covered' = [covered EXCEPT ![p] = EnabledHooks]
    /\ IF loadHook THEN OnClassFileLoadHook(p) ELSE UNCHANGED <<code, game>>
    /\ UNCHANGED <<agentVars, bound, analyzed, thrown, refused>>

(* onClassPrepare looks at the name of the class only.  A class without the *)
(* native method has RegisterNatives refused, and the exception cleared.    *)
OnClassPrepare(p) ==
    \/ /\ code[p] = "instrumented"
       /\ bound' = bound \union {p}
       /\ UNCHANGED refused
    \/ /\ \/ code[p] = "original"
          \/ {"GetClassSignature", "RegisterNatives"} \intersect Failures # {}
       /\ refused' = refused \union {p}
       /\ UNCHANGED bound

(* Mutant of PrepareHookRuns: the signature of C0F is compared wrongly. *)
PrepareHookMissesC0F(p) == prepareHook /\ p = "S32"

(* Is the prepare event of class p delivered? *)
PrepareHookRuns(p) == prepareHook

(* The JVM links p and makes it ready for use. *)
PrepareClass(p) ==
    /\ game = "running"
    /\ class[p] = "loaded"
    /\ class' = [class EXCEPT ![p] = "prepared"]
    /\ IF PrepareHookRuns(p) THEN OnClassPrepare(p) ELSE UNCHANGED <<bound, refused>>
    /\ UNCHANGED <<agentVars, code, game, analyzed, thrown, covered>>

(* readPacketData or writePacketData runs; instrumented code calls the      *)
(* native method, which hands the id to the analyzer.                       *)
CallPacket(p) ==
    /\ game = "running"
    /\ class[p] = "prepared"
    /\ code[p] = "instrumented"
    /\ IF p \in bound
       THEN analyzed' = analyzed \union {p} /\ UNCHANGED thrown
       ELSE thrown' = thrown \union {p} /\ UNCHANGED analyzed
    /\ UNCHANGED <<agentVars, classVars, game, refused, covered>>

-----------------------------------------------------------------------------
Next ==
    \/ AttachToJVM \/ EnableLoadHook \/ EnablePrepareHook \/ Detach
    \/ \E p \in Packets : LoadClass(p) \/ PrepareClass(p) \/ CallPacket(p)

Spec == Init /\ [][Next]_vars

-----------------------------------------------------------------------------
(* Every class that was loaded with both hooks on is bound by the time it   *)
(* can be called: the calls that throw are those of classes loaded while    *)
(* the prepare hook was off, and of classes the JVM refused to register.    *)
CoveredCallsAreBound ==
    \A p \in Packets :
        /\ p \in thrown => covered[p] = {"load"} \/ p \in refused
        /\ covered[p] = Hooks /\ class[p] = "prepared" /\ code[p] = "instrumented"
                => p \in bound \union refused
=============================================================================
