---------------------------- MODULE MethodInjection ----------------------------
(***************************************************************************)
(* The edit ClassInstrumenter makes to the code of one method               *)
(* (instrumenter.cpp:56-122), and a run of the edited method by the JVM:    *)
(* seven bytes that hand the field to the native callback are inserted before*)
(* the first return of readPacketData, or at the start of writePacketData.  *)
(* The exception table is moved along, the branch offsets are not.          *)
(***************************************************************************)
EXTENDS Integers, Sequences

CONSTANTS
    Methods,     \* the Code attributes that may be edited
    fieldref,    \* constant pool index of the field (target_field_ref_idx)
    methodref    \* constant pool index of the callback (native_method_ref_idx)

VARIABLES
    method,          \* the Code attribute as it was parsed
    method_to_hook,  \* the name of the method
    edited,          \* the Code attribute as it is written
    bound,           \* the callback is registered; onClassPrepare has done it
                     \* before the method can run, or never, see Agent
    pc, depth, field, status,  \* the run of the edited method, see MethodRun
    calls,           \* times the callback has been called
    seen             \* the field, as the callback got it last

vars == <<method, method_to_hook, edited, bound, pc, depth, field, status, calls, seen>>

(* The original method, run by the same machine. *)
J == INSTANCE MethodRun

Byte == 0 .. 255
U2Max == 65535
U2Range == 0 .. U2Max

(* code_attribute_data, as a class file holds it. *)
IsCode(m) ==
    /\ m.size \in 1 .. U2Max
    /\ m.code \in [0 .. m.size - 1 -> Byte]
    /\ m.max_stack \in U2Range
    /\ \A e \in DOMAIN m.exception_table :
        /\ m.exception_table[e].start_pc \in 0 .. m.size - 1
        /\ m.exception_table[e].end_pc \in 1 .. m.size
        /\ m.exception_table[e].handler_pc \in m.starts

(* The set starts is what a disassembler would say: the offsets at which    *)
(* the instructions begin.                                                  *)
IsDecoded(m) ==
    /\ m.starts \subseteq 0 .. m.size - 1
    /\ 0 \in m.starts
    /\ \A q \in m.starts :
        LET next == q + J!Length(m.code[q]) IN
        /\ next <= m.size
        /\ \A i \in q + 1 .. next - 1 : i \notin m.starts
        /\ m.code[q] \notin {J!GOTO, J!RETURN} => next \in m.starts
        /\ J!Branches(m.code[q]) => J!Target(m.code, q) \in m.starts

(* The function depths is what the verifier infers: the operands on the     *)
(* stack before each instruction, whichever way the run came there.  Any    *)
(* instruction may throw, for all the verifier knows: a handler finds the   *)
(* exception on the stack and nothing else.                                 *)
IsVerified(m) ==
    /\ m.depths \in [m.starts -> 0 .. m.max_stack]
    /\ m.depths[0] = 0
    /\ \A q \in m.starts :
        LET after == m.depths[q] + J!Effect(m.code[q]) IN
        /\ m.code[q] \notin {J!GOTO, J!RETURN} => m.depths[q + J!Length(m.code[q])] = after
        /\ J!Branches(m.code[q]) => m.depths[J!Target(m.code, q)] = after
    /\ \A e \in DOMAIN m.exception_table :
        m.depths[m.exception_table[e].handler_pc] = 1

IsMethod(m) == IsCode(m) /\ IsDecoded(m) /\ IsVerified(m)

InjectionSize == 7

ASSUME MethodsAssumption == \A m \in Methods : IsMethod(m) /\ m.size + InjectionSize <= U2Max
ASSUME RefAssumption == fieldref \in U2Range /\ methodref \in U2Range

-----------------------------------------------------------------------------
Hi(idx) == (idx \div 256) % 256
Lo(idx) == idx % 256

(* Mutant of InjectionCode: one byte for the index of the field. *)
InjectionCodeShortIndex ==
    [i \in 0 .. InjectionSize - 1 |->
        CASE i = 0 -> J!ALOAD_0
          [] i = 1 -> J!GETFIELD
          [] i = 2 -> Lo(fieldref)
          [] i = 3 -> J!INVOKESTATIC
          [] i = 4 -> Hi(methodref)
          [] i = 5 -> Lo(methodref)
          [] OTHER -> J!RETURN]

(* aload_0, getfield fieldref, invokestatic methodref. *)
InjectionCode ==
    [i \in 0 .. InjectionSize - 1 |->
        CASE i = 0 -> J!ALOAD_0
          [] i = 1 -> J!GETFIELD
          [] i = 2 -> Hi(fieldref)
          [] i = 3 -> Lo(fieldref)
          [] i = 4 -> J!INVOKESTATIC
          [] i = 5 -> Hi(methodref)
          [] OTHER -> Lo(methodref)]

(* Mutants of InjectionPos: the two methods are treated alike. *)
InjectionPosAtStart(m, hook) == 0

InjectionPosAtReturn(m, hook) ==
    LET returns == {i \in DOMAIN m.code : m.code[i] = J!RETURN} IN
    IF returns # {} THEN CHOOSE i \in returns : \A j \in returns : i <= j ELSE 0

(* The first byte 0xb1, instruction or not; the start for writePacketData.  *)
InjectionPos(m, hook) ==
    LET returns == {i \in DOMAIN m.code : m.code[i] = J!RETURN} IN
    IF hook = "readPacketData" /\ returns # {}
    THEN CHOOSE i \in returns : \A j \in returns : i <= j
    ELSE 0

Insert(code, size, at) ==
    [i \in 0 .. size + InjectionSize - 1 |->
        IF i < at THEN code[i]
        ELSE IF i < at + InjectionSize THEN InjectionCode[i - at]
        ELSE code[i - InjectionSize]]

(* Mutant of MaxStack: as it was. *)
MaxStackKept(n) == n

MaxStack(n) == IF n < 2 THEN 2 ELSE n

(* Where the offset q of the exception table goes; the sum is 16 bits wide. *)
Moved(q, at) == IF q >= at THEN (q + InjectionSize) % (U2Max + 1) ELSE q

(* Mutant of MovedEntry: the handlers stay where they were. *)
MovedRange(entry, at) ==
    [entry EXCEPT !.start_pc = Moved(@, at), !.end_pc = Moved(@, at)]

MovedEntry(entry, at) ==
    [start_pc   |-> Moved(entry.start_pc, at),
     end_pc     |-> Moved(entry.end_pc, at),
     handler_pc |-> Moved(entry.handler_pc, at)]

(* The edited Code attribute.  Of its own attributes StackMapTable goes;    *)
(* the others, line numbers among them, keep their offsets.                 *)
Instrumented(m, hook) ==
    LET at == InjectionPos(m, hook) IN
    [size            |-> m.size + InjectionSize,
     code            |-> Insert(m.code, m.size, at),
     max_stack       |-> MaxStack(m.max_stack),
     exception_table |-> [e \in DOMAIN m.exception_table |->
                            MovedEntry(m.exception_table[e], at)],
     attributes      |-> m.attributes \ {"StackMapTable"}]

-----------------------------------------------------------------------------
(* What the code takes for granted of the methods it edits.  Insertable:    *)
(* the byte found is an instruction, and no branch crosses it.  That is all *)
(* it takes for the method to do what it did before.                        *)
Insertable(m, hook) ==
    LET at == InjectionPos(m, hook) IN
    /\ at \in m.starts
    /\ \A q \in m.starts :
        J!Branches(m.code[q]) =>
            IF q < at THEN J!Target(m.code, q) <= at ELSE J!Target(m.code, q) >= at

(* SoleReturn: the method has one return, and neither what follows it nor   *)
(* an exception leads back to it.                                           *)
SoleReturn(m) ==
    \E r \in m.starts :
        /\ m.code[r] = J!RETURN
        /\ \A q \in m.starts :
            /\ m.code[q] = J!RETURN => q = r
            /\ J!Branches(m.code[q]) /\ q >= r => J!Target(m.code, q) # r
        /\ \A e \in DOMAIN m.exception_table : m.exception_table[e].handler_pc # r

(* Headroom: where the code is inserted, a stack of two has room for one    *)
(* more operand, or the method's own stack has; a javac return leaves none. *)
Headroom(m, hook) ==
    LET left == m.depths[InjectionPos(m, hook)] IN left < 2 \/ left < m.max_stack

-----------------------------------------------------------------------------
pos == InjectionPos(method, method_to_hook)

(* The edited method, run by the JVM. *)
N == INSTANCE MethodRun WITH method <- edited

Init ==
    /\ method \in Methods
    /\ method_to_hook \in {"readPacketData", "writePacketData"}
    /\ Insertable(method, method_to_hook)
    /\ edited = Instrumented(method, method_to_hook)
    /\ bound \in BOOLEAN
    /\ N!Init
    /\ calls = 0
    /\ seen = -1

(* The injected invokestatic calls the native method with the field, or     *)
(* throws UnsatisfiedLinkError when that is not registered.                 *)
Callback ==
    \/ /\ bound
       /\ N!FallsThrough
       /\ calls' = calls + 1
       /\ seen' = field
    \/ /\ ~ bound
       /\ N!Throws
       /\ UNCHANGED <<calls, seen>>

AtCallback == pc = pos + 4 /\ N!Op = J!INVOKESTATIC

(* A step of the JVM. *)
Next ==
    /\ UNCHANGED <<method, method_to_hook, bound>>
    /\ IF AtCallback THEN Callback ELSE N!Next /\ UNCHANGED <<calls, seen>>

Spec == Init /\ [][Next]_vars

-----------------------------------------------------------------------------
(* The original offset that the offset q of the edited code stands for. *)
Back(q) ==
    IF q < pos THEN q
    ELSE IF q < pos + InjectionSize THEN pos
    ELSE q - InjectionSize

(* Inside the injected code, one operand is its own. *)
Own == IF pc \in {pos + 1, pos + 4} THEN 1 ELSE 0

(* The run is always at an instruction: one of the method's or one of the   *)
(* three injected ones (instrumenter.cpp:57-64, 87), never at an operand.   *)
TypeOK ==
    /\ IsMethod(method)
    /\ method_to_hook \in {"readPacketData", "writePacketData"}
    /\ Back(pc) \in method.starts
    /\ pc \in {pos, pos + 1, pos + 4} \/ (pc - pos) \notin 0 .. InjectionSize - 1
    /\ bound \in BOOLEAN
    /\ depth \in Int
    /\ field \in -1 .. U2Max
    /\ status \in {"running", "returned", "thrown"}
    /\ calls \in 0 .. 1
    /\ seen \in -1 .. U2Max

(* The edited method does what the original does, step for step, whatever   *)
(* is thrown where, but for the steps of the injected code, which the       *)
(* original does not see (instrumenter.cpp:66, 95: neither the JVM nor the  *)
(* method must suffer from the edit), and for one exception: without the    *)
(* callback the injected call throws, and is then in the hands of the       *)
(* handlers whose ranges hold the insertion or end at it, and of no others  *)
(* (instrumenter.cpp:103-105).                                              *)
O == INSTANCE MethodRun WITH
        pc    <- Back(pc),
        depth <- depth - Own,
        field <- IF field = -1 THEN -1 ELSE Back(field)

Around ==
    {e \in DOMAIN method.exception_table :
        /\ method.exception_table[e].start_pc < pos
        /\ pos <= method.exception_table[e].end_pc}

CallbackMissing == ~ bound /\ pc = pos + 4 /\ O!Raise(Around)

RunsAsBefore == O!Init /\ [][O!Next \/ CallbackMissing]_(O!vars)

(* readPacketData, "we inject before return to make sure the field is       *)
(* populated" (instrumenter.cpp:70): every normal return has handed over    *)
(* the field exactly once, with the value the method leaves in it.          *)
ReportsBeforeReturn ==
    /\ method_to_hook = "readPacketData"
    /\ SoleReturn(method)
    /\ status = "returned"
    => calls = 1 /\ seen = field

(* writePacketData, "at the start to read the field before it's written"    *)
(* (instrumenter.cpp:71): before the first instruction of any such method,  *)
(* and never again, also when the method loops back to its start.           *)
ReportsAtStart ==
    method_to_hook = "writePacketData" =>
        /\ calls = (IF pc < InjectionSize THEN 0 ELSE 1)
        /\ seen = -1

(* The operands fit into max_stack (instrumenter.cpp:89): the method's own, *)
(* and the injected ones on top of what is left at the insertion.           *)
StackFits ==
    Headroom(method, method_to_hook) =>
        0 <= depth /\ depth <= MaxStack(method.max_stack)
=============================================================================
