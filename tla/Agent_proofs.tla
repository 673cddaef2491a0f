----------------------------- MODULE Agent_proofs -----------------------------
(***************************************************************************)
(* Proofs about the JVM agent.                                              *)
(***************************************************************************)
EXTENDS Agent, TLAPS

(* While InitThread enables the events the environment is open. *)
Enabling == initPc \in {"enableLoad", "enablePrepare", "ready"} => g_jvmti = "open"

(* What is remembered of class p.  A hook that covered the class stays      *)
(* enabled while the game runs, and only a covered class is instrumented.   *)
Remembered(p) ==
    /\ class[p] = "absent" => code[p] = "original" /\ p \notin thrown
    /\ code[p] = "instrumented" => "load" \in covered[p]
    /\ game = "running" /\ "prepare" \in covered[p] => prepareHook

IInv ==
    /\ TypeOK
    /\ Enabling
    /\ \A p \in Packets : Remembered(p)
    /\ CoveredCallsAreBound

LEMMA InitIInv == Init => IInv
BY DEF Init, IInv, TypeOK, Enabling, Remembered, CoveredCallsAreBound, Packets, Hooks

(* InitThread adds hooks, and takes none away. *)
LEMMA InitThreadKeepsIInv ==
    ASSUME IInv, AttachToJVM \/ EnableLoadHook \/ EnablePrepareHook
    PROVE  IInv'
<1> USE DEF IInv
<1>1. UNCHANGED <<classVars, game, analyzed, history>>
  BY DEF AttachToJVM, EnableLoadHook, EnablePrepareHook
<1>2. prepareHook => prepareHook'
  BY DEF AttachToJVM, EnableLoadHook, EnablePrepareHook, Enables
<1>3. TypeOK' /\ Enabling'
  <2>1. CASE AttachToJVM
    BY <1>1, <2>1 DEF TypeOK, Enabling, AttachToJVM, classVars, history
  <2>2. CASE EnableLoadHook
    <3>1. loadHook' \in BOOLEAN /\ g_jvmti = "open"
      BY <2>2 DEF EnableLoadHook, Enables, TypeOK, Enabling
    <3> QED
      BY <1>1, <2>2, <3>1 DEF TypeOK, Enabling, EnableLoadHook, classVars, history
  <2>3. CASE EnablePrepareHook
    <3>1. prepareHook' \in BOOLEAN /\ g_jvmti = "open"
      BY <2>3 DEF EnablePrepareHook, Enables, TypeOK, Enabling
    <3> QED
      BY <1>1, <2>3, <3>1 DEF TypeOK, Enabling, EnablePrepareHook, classVars, history
  <2> QED
    BY <2>1, <2>2, <2>3
<1>4. \A p \in Packets : Remembered(p)'
  BY <1>1, <1>2 DEF Remembered, classVars, history
<1>5. CoveredCallsAreBound'
  BY <1>1 DEF CoveredCallsAreBound, classVars, history
<1> QED
  BY <1>3, <1>4, <1>5

LEMMA DetachKeepsIInv == ASSUME IInv, Detach PROVE IInv'
<1> USE DEF IInv
<1>1. UNCHANGED <<classVars, analyzed, history>> /\ game' = "ended"
  BY DEF Detach
<1>2. TypeOK' /\ Enabling'
  BY <1>1 DEF TypeOK, Enabling, Detach, ModeAfterDetach, classVars, history
<1>3. \A p \in Packets : Remembered(p)'
  BY <1>1 DEF Remembered, classVars, history
<1>4. CoveredCallsAreBound'
  BY <1>1 DEF CoveredCallsAreBound, classVars, history
<1> QED
  BY <1>2, <1>3, <1>4

(* The class is not yet prepared, and has been called by nobody. *)
LEMMA LoadKeepsIInv == ASSUME IInv, NEW p \in Packets, LoadClass(p) PROVE IInv'
<1> USE DEF IInv
<1>1. /\ game = "running" /\ class[p] = "absent"
      /\ class' = [class EXCEPT ![p] = "loaded"]
      /\ covered' = [covered EXCEPT ![p] = EnabledHooks]
      /\ UNCHANGED <<agentVars, bound, analyzed, thrown, refused>>
  BY DEF LoadClass
<1>2. EnabledHooks \in SUBSET Hooks
  BY DEF EnabledHooks
<1>3. /\ code' \in [Packets -> {"original", "instrumented"}]
      /\ \A q \in Packets \ {p} : code'[q] = code[q]
      /\ code'[p] = "instrumented" => "load" \in EnabledHooks
      /\ game' \in {"running", "crashed"}
  <2>1. CASE loadHook
    BY <1>1, <2>1 DEF LoadClass, OnClassFileLoadHook, TypeOK, EnabledHooks, Hooks
  <2>2. CASE ~ loadHook
    BY <1>1, <2>2 DEF LoadClass, TypeOK, Remembered
  <2> QED
    BY <2>1, <2>2
<1>4. TypeOK' /\ Enabling'
  BY <1>1, <1>2, <1>3 DEF TypeOK, Enabling, agentVars
<1>5. /\ \A q \in Packets \ {p} : class'[q] = class[q] /\ covered'[q] = covered[q]
      /\ class'[p] = "loaded" /\ covered'[p] = EnabledHooks
  BY <1>1 DEF TypeOK
<1>6. ASSUME NEW q \in Packets PROVE Remembered(q)'
  <2>1. CASE q = p
    BY <1>1, <1>3, <1>5, <2>1 DEF Remembered, EnabledHooks, agentVars
  <2>2. CASE q # p
    BY <1>1, <1>3, <1>5, <2>2 DEF Remembered, agentVars
  <2> QED
    BY <2>1, <2>2
<1>7. CoveredCallsAreBound'
  BY <1>1, <1>3, <1>5 DEF CoveredCallsAreBound, Remembered
<1> QED
  BY <1>4, <1>6, <1>7

(* A class that both hooks covered meets the prepare hook. *)
LEMMA PrepareKeepsIInv == ASSUME IInv, NEW p \in Packets, PrepareClass(p) PROVE IInv'
<1> USE DEF IInv
<1>1. /\ game = "running" /\ class[p] = "loaded"
      /\ class' = [class EXCEPT ![p] = "prepared"]
      /\ UNCHANGED <<agentVars, code, game, analyzed, thrown, covered>>
  BY DEF PrepareClass
<1>2. /\ bound \subseteq bound' /\ refused \subseteq refused'
      /\ bound' \subseteq Packets /\ refused' \subseteq Packets
      /\ prepareHook => p \in bound' \union refused'
  BY DEF PrepareClass, PrepareHookRuns, OnClassPrepare, TypeOK
<1>3. TypeOK' /\ Enabling'
  BY <1>1, <1>2 DEF TypeOK, Enabling, agentVars
<1>4. class' \in [Packets -> {"absent", "loaded", "prepared"}]
      /\ \A q \in Packets : q # p => class'[q] = class[q]
      /\ class'[p] = "prepared"
  BY <1>1 DEF TypeOK
<1>5. ASSUME NEW q \in Packets PROVE Remembered(q)'
  BY <1>1, <1>4 DEF Remembered, agentVars
<1>6. covered[p] = Hooks => p \in bound' \union refused'
  BY <1>1, <1>2 DEF Remembered, Hooks
<1>7. CoveredCallsAreBound'
  BY <1>1, <1>2, <1>4, <1>6 DEF CoveredCallsAreBound
<1> QED
  BY <1>3, <1>5, <1>7

(* A call that throws is of an instrumented class: the load hook covered    *)
(* it, and if the prepare hook did too, registration was refused.           *)
LEMMA CallKeepsIInv == ASSUME IInv, NEW p \in Packets, CallPacket(p) PROVE IInv'
<1> USE DEF IInv
<1>1. /\ class[p] = "prepared" /\ code[p] = "instrumented"
      /\ UNCHANGED <<agentVars, classVars, game, refused, covered>>
      /\ analyzed' \subseteq Packets
      /\ thrown' = thrown \/ (thrown' = thrown \union {p} /\ p \notin bound)
  BY DEF CallPacket, TypeOK
<1>2. TypeOK' /\ Enabling'
  BY <1>1 DEF TypeOK, Enabling, agentVars, classVars
<1>3. ASSUME NEW q \in Packets PROVE Remembered(q)'
  BY <1>1 DEF Remembered, agentVars, classVars
<1>4. p \notin bound => covered[p] = {"load"} \/ p \in refused
  <2>1. "load" \in covered[p] /\ covered[p] \in SUBSET Hooks
    BY <1>1 DEF Remembered, TypeOK
  <2>2. covered[p] = {"load"} \/ covered[p] = Hooks
    BY <2>1 DEF Hooks
  <2> QED
    BY <1>1, <2>2 DEF CoveredCallsAreBound
<1>5. CoveredCallsAreBound'
  BY <1>1, <1>4 DEF CoveredCallsAreBound, classVars
<1> QED
  BY <1>2, <1>3, <1>5

LEMMA NextIInv == IInv /\ [Next]_vars => IInv'
<1> SUFFICES ASSUME IInv, [Next]_vars PROVE IInv'
  OBVIOUS
<1>1. CASE UNCHANGED vars
  BY <1>1 DEF IInv, TypeOK, Enabling, Remembered, CoveredCallsAreBound, vars, agentVars,
              classVars, history
<1>2. CASE Next
  BY <1>2, InitThreadKeepsIInv, DetachKeepsIInv, LoadKeepsIInv, PrepareKeepsIInv,
     CallKeepsIInv DEF Next
<1> QED
  BY <1>1, <1>2

-----------------------------------------------------------------------------
(* Types of the agent; an enabled event has an environment                  *)
(* (dllmain.cpp:181-182, 216-222).                                          *)
THEOREM AgentTypeCorrect == Spec => []TypeOK
<1>1. IInv => TypeOK
  BY DEF IInv
<1> QED
  BY <1>1, InitIInv, NextIInv, PTL DEF Spec

(* A packet class loaded under both hooks has its native method bound, or   *)
(* refused by the JVM, before it can be called (dllmain.cpp:88-140).        *)
THEOREM CoveredClassesAreBound == Spec => []CoveredCallsAreBound
<1>1. IInv => CoveredCallsAreBound
  BY DEF IInv
<1> QED
  BY <1>1, InitIInv, NextIInv, PTL DEF Spec
===============================================================================
