------------------------ MODULE MethodInjection_proofs ------------------------
(***************************************************************************)
(* For every method that the code can edit at all (Insertable): the edited  *)
(* method does what it did before, and hands over the field exactly once.   *)
(***************************************************************************)
EXTENDS MethodInjection, WellFoundedInduction, TLAPS

-----------------------------------------------------------------------------
(* A nonempty set of offsets has a least one: the search stops somewhere. *)
LEMMA LeastExists ==
    ASSUME NEW S, S \subseteq Nat, S # {}
    PROVE  \E i \in S : \A j \in S : i <= j
<1> DEFINE R == OpToRel(<, Nat)
<1>1. IsWellFoundedOn(R, Nat)
  BY NatLessThanWellFounded
<1>2. PICK x \in S : \A y \in S : ~ (<<y, x>> \in R)
  <2> HIDE DEF R
  <2> QED
    BY <1>1, WFMin
<1>3. ASSUME NEW y \in S PROVE x <= y
  <2>1. ~ (y < x)
    BY <1>2 DEF OpToRel
  <2> QED
    BY <2>1
<1> QED
  BY <1>3

(* What an entry of the exception table becomes. *)
IsMoved(new, old, at) ==
    /\ new.start_pc = (IF old.start_pc >= at THEN old.start_pc + 7 ELSE old.start_pc)
    /\ new.end_pc = (IF old.end_pc >= at THEN old.end_pc + 7 ELSE old.end_pc)
    /\ new.handler_pc = (IF old.handler_pc >= at THEN old.handler_pc + 7
                                                 ELSE old.handler_pc)

(* What the parsed method and the written one have to do with each other. *)
Relates(m, ed, at) ==
    /\ at \in m.starts
    /\ m.size \in Nat /\ 1 <= m.size /\ m.size + 7 <= U2Max
    /\ m.starts \subseteq 0 .. m.size - 1
    /\ 0 \in m.starts
    /\ \A i \in 0 .. m.size - 1 : m.code[i] \in Byte
    /\ \A i \in 0 .. at - 1 : ed.code[i] = m.code[i]
    /\ ed.code[at] = 42 /\ ed.code[at + 1] = 180 /\ ed.code[at + 4] = 184
    /\ \A i \in at .. m.size - 1 : ed.code[i + 7] = m.code[i]
    /\ DOMAIN ed.exception_table = DOMAIN m.exception_table
    /\ \A e \in DOMAIN m.exception_table :
        /\ m.exception_table[e].start_pc \in 0 .. m.size - 1
        /\ m.exception_table[e].end_pc \in 1 .. m.size
        /\ m.exception_table[e].handler_pc \in m.starts
        /\ IsMoved(ed.exception_table[e], m.exception_table[e], at)

LEMMA EditRelates ==
    ASSUME NEW m \in Methods, NEW hook, Insertable(m, hook)
    PROVE  Relates(m, Instrumented(m, hook), InjectionPos(m, hook))
<1> DEFINE at == InjectionPos(m, hook)
           ed == Instrumented(m, hook)
<1> HIDE DEF at, ed
<1>1. IsCode(m) /\ IsDecoded(m) /\ m.size + 7 <= U2Max
  BY MethodsAssumption DEF InjectionSize, IsMethod
<1>0. m.size \in Nat /\ 1 <= m.size /\ m.size + 7 <= U2Max
  <2>1. U2Max \in Nat
    BY DEF U2Max
  <2> QED
    BY <1>1, <2>1 DEF IsCode
<1>2. at \in m.starts /\ m.starts \subseteq 0 .. m.size - 1 /\ 0 \in m.starts
  BY <1>1 DEF Insertable, IsDecoded, at
<1>3. ed.code = Insert(m.code, m.size, at)
  BY DEF Instrumented, ed, at
<1>4. \A i \in 0 .. m.size - 1 : m.code[i] \in Byte
  BY <1>1 DEF IsCode
<1>5. DOMAIN ed.exception_table = DOMAIN m.exception_table
      /\ \A e \in DOMAIN m.exception_table :
            ed.exception_table[e] = MovedEntry(m.exception_table[e], at)
  BY DEF Instrumented, ed, at
<1>6. /\ \A i \in 0 .. at - 1 : ed.code[i] = m.code[i]
      /\ \A i \in 0 .. 6 : ed.code[at + i] = InjectionCode[i]
      /\ \A i \in at .. m.size - 1 : ed.code[i + 7] = m.code[i]
  <2>1. at \in Nat /\ at < m.size
    BY <1>0, <1>2
  <2>2. \A i \in 0 .. m.size + 6 :
            ed.code[i] = IF i < at THEN m.code[i]
                         ELSE IF i < at + 7 THEN InjectionCode[i - at]
                         ELSE m.code[i - 7]
    BY <1>0, <1>3 DEF Insert, InjectionSize
  <2>3. ASSUME NEW i \in 0 .. at - 1 PROVE ed.code[i] = m.code[i]
    BY <1>0, <2>1, <2>2
  <2>4. ASSUME NEW i \in 0 .. 6 PROVE ed.code[at + i] = InjectionCode[i]
    <3>1. at + i \in 0 .. m.size + 6 /\ ~ (at + i < at) /\ at + i < at + 7
          /\ (at + i) - at = i
      BY <1>0, <2>1
    <3> QED
      BY <2>2, <3>1
  <2>5. ASSUME NEW i \in at .. m.size - 1 PROVE ed.code[i + 7] = m.code[i]
    <3>1. i + 7 \in 0 .. m.size + 6 /\ ~ (i + 7 < at) /\ ~ (i + 7 < at + 7)
          /\ (i + 7) - 7 = i
      BY <1>0, <2>1
    <3> QED
      BY <2>2, <3>1
  <2> QED
    BY <2>3, <2>4, <2>5
<1>7. InjectionCode[0] = 42 /\ InjectionCode[1] = 180 /\ InjectionCode[4] = 184
  BY DEF InjectionCode, InjectionSize, J!ALOAD_0, J!GETFIELD, J!INVOKESTATIC
<1>8. ed.code[at] = 42 /\ ed.code[at + 1] = 180 /\ ed.code[at + 4] = 184
  <2>1. ed.code[at + 0] = InjectionCode[0] /\ ed.code[at + 1] = InjectionCode[1]
        /\ ed.code[at + 4] = InjectionCode[4]
    BY <1>6
  <2>2. at + 0 = at
    BY <1>0, <1>2
  <2> QED
    BY <2>1, <2>2, <1>7
<1>9. ASSUME NEW e \in DOMAIN m.exception_table
      PROVE  /\ m.exception_table[e].start_pc \in 0 .. m.size - 1
             /\ m.exception_table[e].end_pc \in 1 .. m.size
             /\ m.exception_table[e].handler_pc \in m.starts
             /\ IsMoved(ed.exception_table[e], m.exception_table[e], at)
  <2>1. /\ m.exception_table[e].start_pc \in 0 .. m.size - 1
        /\ m.exception_table[e].end_pc \in 1 .. m.size
        /\ m.exception_table[e].handler_pc \in m.starts
    BY <1>1 DEF IsCode
  <2>2. ASSUME NEW q \in Nat, q <= m.size
        PROVE  Moved(q, at) = IF q >= at THEN q + 7 ELSE q
    <3>1. q + 7 \in Nat /\ q + 7 < 65536
      BY <1>0, <2>2 DEF U2Max
    <3>2. (q + 7) % 65536 = q + 7
      BY <3>1
    <3>3. U2Max + 1 = 65536
      BY DEF U2Max
    <3> QED
      BY <3>2, <3>3 DEF Moved, InjectionSize
  <2> QED
    <3>1. ASSUME NEW q, q \in 0 .. m.size
          PROVE  Moved(q, at) = IF q >= at THEN q + 7 ELSE q
      BY <1>0, <2>2, <3>1
    <3>2. /\ m.exception_table[e].start_pc \in 0 .. m.size
          /\ m.exception_table[e].end_pc \in 0 .. m.size
          /\ m.exception_table[e].handler_pc \in 0 .. m.size
      BY <1>0, <1>2, <2>1
    <3>3. ed.exception_table[e] = MovedEntry(m.exception_table[e], at)
      BY <1>5
    <3>4. /\ ed.exception_table[e].start_pc = Moved(m.exception_table[e].start_pc, at)
          /\ ed.exception_table[e].end_pc = Moved(m.exception_table[e].end_pc, at)
          /\ ed.exception_table[e].handler_pc = Moved(m.exception_table[e].handler_pc, at)
      BY <3>3 DEF MovedEntry
    <3> QED
      BY <2>1, <3>1, <3>2, <3>4 DEF IsMoved
<1> QED
  <2>1. Relates(m, ed, at)
    BY <1>0, <1>2, <1>4, <1>5, <1>6, <1>8, <1>9 DEF Relates
  <2> QED
    BY <2>1 DEF at, ed

(* The byte found is a return, unless the search gave the start. *)
LEMMA FoundReturn ==
    ASSUME NEW m \in Methods, NEW hook
    PROVE  InjectionPos(m, hook) = 0 \/ m.code[InjectionPos(m, hook)] = 177
<1> DEFINE returns == {i \in DOMAIN m.code : m.code[i] = 177}
<1>1. returns \subseteq Nat
  BY MethodsAssumption DEF IsMethod, IsCode
<1>2. CASE hook = "readPacketData" /\ returns # {}
  <2>1. \E i \in returns : \A j \in returns : i <= j
    <3> HIDE DEF returns
    <3> QED
      BY <1>1, <1>2, LeastExists
  <2>2. InjectionPos(m, hook) = CHOOSE i \in returns : \A j \in returns : i <= j
    BY <1>2 DEF InjectionPos, J!RETURN
  <2>3. InjectionPos(m, hook) \in returns
    <3> HIDE DEF returns
    <3> QED
      BY <2>1, <2>2
  <2> QED
    BY <2>3
<1>3. CASE ~ (hook = "readPacketData" /\ returns # {})
  BY <1>3 DEF InjectionPos, J!RETURN
<1> QED
  BY <1>2, <1>3

(* In readPacketData any return there is makes the byte found a return. *)
LEMMA FoundAtRead ==
    ASSUME NEW m \in Methods, NEW r \in DOMAIN m.code, m.code[r] = 177
    PROVE  m.code[InjectionPos(m, "readPacketData")] = 177
<1> DEFINE returns == {i \in DOMAIN m.code : m.code[i] = 177}
<1>1. returns \subseteq Nat /\ returns # {}
  BY MethodsAssumption DEF IsMethod, IsCode
<1>2. \E i \in returns : \A j \in returns : i <= j
  <2> HIDE DEF returns
  <2> QED
    BY <1>1, LeastExists
<1>3. InjectionPos(m, "readPacketData") = CHOOSE i \in returns : \A j \in returns : i <= j
  BY <1>1 DEF InjectionPos, J!RETURN
<1>4. InjectionPos(m, "readPacketData") \in returns
  <2> HIDE DEF returns
  <2> QED
    BY <1>2, <1>3
<1> QED
  BY <1>4

(* The place found is the one return of the method, and nothing leads back  *)
(* to it.                                                                   *)
AloneAtPos(m, hook) ==
    LET at == InjectionPos(m, hook) IN
    /\ \A q \in m.starts :
        /\ m.code[q] = J!RETURN => q = at
        /\ J!Branches(m.code[q]) /\ q >= at => J!Target(m.code, q) # at
    /\ \A e \in DOMAIN m.exception_table : m.exception_table[e].handler_pc # at

LEMMA SoleReturnIsFound ==
    ASSUME NEW m \in Methods, SoleReturn(m),
           InjectionPos(m, "readPacketData") \in m.starts
    PROVE  AloneAtPos(m, "readPacketData")
<1>1. PICK r \in m.starts :
        /\ m.code[r] = 177
        /\ \A q \in m.starts :
            /\ m.code[q] = J!RETURN => q = r
            /\ J!Branches(m.code[q]) /\ q >= r => J!Target(m.code, q) # r
        /\ \A e \in DOMAIN m.exception_table : m.exception_table[e].handler_pc # r
  BY DEF SoleReturn, J!RETURN
<1>2. r \in DOMAIN m.code
  BY MethodsAssumption DEF IsMethod, IsCode, IsDecoded
<1>3. m.code[InjectionPos(m, "readPacketData")] = 177
  BY <1>1, <1>2, FoundAtRead
<1>4. InjectionPos(m, "readPacketData") = r
  BY <1>1, <1>3 DEF J!RETURN
<1> QED
  BY <1>1, <1>4 DEF AloneAtPos

(* The length of an instruction, the same in every instance of the machine. *)
InstrLen(op) == IF op \in {153, 167, 180, 181, 182, 184} THEN 3 ELSE 1

LEMMA SameLength ==
    ASSUME NEW op
    PROVE  J!Length(op) = InstrLen(op) /\ N!Length(op) = InstrLen(op)
                /\ O!Length(op) = InstrLen(op)
  BY DEF InstrLen, J!Length, J!IFEQ, J!GOTO, J!GETFIELD, J!PUTFIELD, J!INVOKEVIRTUAL,
         J!INVOKESTATIC, N!Length, N!IFEQ, N!GOTO, N!GETFIELD, N!PUTFIELD,
         N!INVOKEVIRTUAL, N!INVOKESTATIC, O!Length, O!IFEQ, O!GOTO, O!GETFIELD,
         O!PUTFIELD, O!INVOKEVIRTUAL, O!INVOKESTATIC

LEMMA SameEffect ==
    ASSUME NEW op
    PROVE  N!Effect(op) = O!Effect(op) /\ N!Effect(op) \in Int
  BY DEF N!Effect, N!ALOAD_0, N!ALOAD_1, N!POP, N!IFEQ, N!INVOKESTATIC, N!PUTFIELD,
         O!Effect, O!ALOAD_0, O!ALOAD_1, O!POP, O!IFEQ, O!INVOKESTATIC, O!PUTFIELD

(* An operand read at two places that hold the same two bytes. *)
LEMMA SameOperand ==
    ASSUME NEW c, NEW p \in Int, NEW d, NEW q \in Int,
           d[q + 1] \in Byte, d[q + 2] \in Byte,
           c[p + 1] = d[q + 1], c[p + 2] = d[q + 2]
    PROVE  /\ N!U2(c, p + 1) = O!U2(d, q + 1)
           /\ J!Target(d, q) \in Int
           /\ O!Target(d, q) = J!Target(d, q)
           /\ N!Target(c, p) = J!Target(d, q) + (p - q)
<1> DEFINE v == 256 * d[q + 1] + d[q + 2]
<1>1. (q + 1) + 1 = q + 2 /\ (p + 1) + 1 = p + 2
  OBVIOUS
<1>2. v \in Int
  <2>1. ASSUME NEW x \in Byte PROVE x \in Int
    BY DEF Byte
  <2>2. d[q + 1] \in Int /\ d[q + 2] \in Int
    BY <2>1
  <2> QED
    BY <2>2
<1>3. J!U2(d, q + 1) = v /\ O!U2(d, q + 1) = v /\ N!U2(c, p + 1) = v
  BY <1>1 DEF J!U2, O!U2, N!U2
<1> HIDE DEF v
<1> QED
  BY <1>2, <1>3 DEF J!Target, J!S2, O!Target, O!S2, N!Target, N!S2

(* What the disassembly says of the instruction at q. *)
LEMMA Decoded ==
    ASSUME NEW m \in Methods, NEW q \in m.starts
    PROVE  /\ q \in Nat /\ q < m.size /\ m.size \in Nat
           /\ q + InstrLen(m.code[q]) <= m.size
           /\ \A i \in q + 1 .. q + InstrLen(m.code[q]) - 1 : i \notin m.starts
           /\ m.code[q] \notin {167, 177} => q + InstrLen(m.code[q]) \in m.starts
           /\ m.code[q] \in {153, 167} => J!Target(m.code, q) \in m.starts
<1>1. IsCode(m) /\ IsDecoded(m)
  BY MethodsAssumption DEF IsMethod
<1>2. m.size \in Nat
  <2>1. U2Max \in Nat
    BY DEF U2Max
  <2> QED
    BY <1>1, <2>1 DEF IsCode
<1>3. J!Length(m.code[q]) = InstrLen(m.code[q])
  BY SameLength
<1>4. q \in Nat /\ q < m.size /\ InstrLen(m.code[q]) \in Nat
  BY <1>1, <1>2 DEF IsDecoded, InstrLen
<1>5. LET next == q + InstrLen(m.code[q]) IN
      /\ next <= m.size
      /\ \A i \in q + 1 .. next - 1 : i \notin m.starts
      /\ m.code[q] \notin {167, 177} => next \in m.starts
  BY <1>1, <1>3 DEF IsDecoded, J!GOTO, J!RETURN
<1>6. m.code[q] \in {153, 167} => J!Target(m.code, q) \in m.starts
  BY <1>1 DEF IsDecoded, J!Branches, J!GOTO, J!IFEQ
<1> QED
  BY <1>2, <1>4, <1>5, <1>6

-----------------------------------------------------------------------------
(* The run is before the insertion, inside the injected code, or behind it. *)
AtInstruction ==
    \/ pc \in method.starts /\ pc < pos
    \/ pc \in {pos, pos + 1, pos + 4}
    \/ pc - 7 \in method.starts /\ pc >= pos + 7

Run ==
    /\ method \in Methods
    /\ method_to_hook \in {"readPacketData", "writePacketData"}
    /\ Insertable(method, method_to_hook)
    /\ edited = Instrumented(method, method_to_hook)
    /\ bound \in BOOLEAN
    /\ pc \in Int
    /\ AtInstruction
    /\ depth \in Int
    /\ field \in Int
    /\ \/ field = -1
       \/ 0 <= field /\ field < pos
       \/ pos + 7 <= field /\ field < method.size + 7
    /\ status \in {"running", "returned", "thrown"}

LEMMA RunRelates ==
    ASSUME Run
    PROVE  Relates(method, edited, pos) /\ pos \in Nat /\ pos < method.size
               /\ method.size \in Nat
<1>1. Relates(method, edited, pos)
  BY EditRelates DEF Run, pos
<1> QED
  BY <1>1 DEF Relates

LEMMA InitRun == Init => Run
<1> SUFFICES ASSUME Init PROVE Run
  OBVIOUS
<1>1. Relates(method, edited, pos)
  BY EditRelates DEF Init, pos
<1>2. pc = 0 /\ depth = 0 /\ field = -1 /\ status = "running"
  BY DEF Init, N!Init
<1>3. pos \in Nat /\ 0 \in method.starts
  BY <1>1 DEF Relates
<1> QED
  BY <1>2, <1>3 DEF Init, Run, AtInstruction

(* Neither the method nor the place changes. *)
LEMMA Fixed ==
    ASSUME Run, Next
    PROVE  method' = method /\ method_to_hook' = method_to_hook /\ edited' = edited
               /\ pos' = pos /\ bound' = bound
<1>1. method' = method /\ method_to_hook' = method_to_hook /\ bound' = bound
  BY DEF Next
<1>2. edited' = edited
  BY DEF Next, Callback, N!Next, N!FallsThrough, N!Jumps, N!Returns, N!Throws, N!Raise
<1> QED
  BY <1>1, <1>2 DEF pos

(* Where a step from outside the injected code arrives. *)
Arrives(q, d) ==
    /\ q \in method.starts
    /\ (d = 0 /\ q <= pos) \/ (d = 7 /\ q >= pos)

(* A step outside the injected code, d bytes behind the original offset q,  *)
(* is the step of the original at q.                                        *)
LEMMA StepOutside ==
    ASSUME Run, Next, NEW q \in method.starts, NEW d \in {0, 7},
           pc = q + d, (d = 0 /\ q < pos) \/ (d = 7 /\ q >= pos)
    PROVE  /\ Run'
           /\ O!Next
           /\ pc' \notin {pos + 1, pos + 4} /\ (d = 7 => pc' # pos)
           /\ AloneAtPos(method, method_to_hook) /\ pc' = pos + 7 => pc = pos + 7
           /\ status' = "returned" => method.code[q] = 177 /\ pc' = pc
           /\ method.code[q] = 177 => pc' = pc /\ field' = field
<1> DEFINE m == method
           op == method.code[q]
           Goal == /\ Run'
                   /\ O!Next
                   /\ pc' \notin {pos + 1, pos + 4} /\ (d = 7 => pc' # pos)
                   /\ AloneAtPos(m, method_to_hook) /\ pc' = pos + 7 => pc = pos + 7
                   /\ status' = "returned" => op = 177 /\ pc' = pc
                   /\ op = 177 => pc' = pc /\ field' = field
<1>1. /\ Relates(m, edited, pos) /\ pos \in Nat /\ pos < m.size /\ m.size \in Nat
      /\ pos \in m.starts
  BY RunRelates DEF Relates
<1>2. method' = method /\ method_to_hook' = method_to_hook /\ edited' = edited
      /\ pos' = pos /\ bound' = bound /\ bound' \in BOOLEAN
  BY Fixed DEF Run
<1>3. m \in Methods /\ q \in Nat /\ q < m.size /\ InstrLen(op) \in 1 .. 3
      /\ q + InstrLen(op) <= m.size
  BY Decoded DEF Run, InstrLen
<1>4. d = 0 => q + InstrLen(op) <= pos
  <2>1. \A i \in q + 1 .. q + InstrLen(op) - 1 : i \notin m.starts
    BY <1>3, Decoded
  <2> QED
    BY <1>1, <1>3, <2>1
<1>5. Back(pc) = q /\ Own = 0
  BY <1>1, <1>3 DEF Back, Own, InjectionSize
<1>6. ASSUME NEW i \in 0 .. 2, i < InstrLen(op)
      PROVE  edited.code[pc + i] = m.code[q + i] /\ m.code[q + i] \in Byte
  <2>1. q + i \in 0 .. m.size - 1
    BY <1>1, <1>3, <1>6
  <2>2. CASE d = 0
    <3>1. q + i \in 0 .. pos - 1 /\ pc + i = q + i
      BY <1>1, <1>3, <1>4, <1>6, <2>2
    <3> QED
      BY <1>1, <2>1, <3>1 DEF Relates
  <2>3. CASE d = 7
    <3>1. q + i \in pos .. m.size - 1 /\ pc + i = (q + i) + 7
      BY <1>1, <1>3, <2>1, <2>3
    <3> QED
      BY <1>1, <2>1, <3>1 DEF Relates
  <2> QED
    BY <2>2, <2>3
<1>7. N!Op = op /\ O!Op = op
  <2>1. edited.code[pc + 0] = m.code[q + 0] /\ pc + 0 = pc /\ q + 0 = q
    BY <1>3, <1>6
  <2> QED
    BY <1>5, <2>1 DEF N!Op, O!Op
<1>8. op \in {153, 167, 181} =>
        /\ N!U2(edited.code, pc + 1) = O!U2(m.code, q + 1)
        /\ J!Target(m.code, q) \in Int
        /\ O!Target(m.code, q) = J!Target(m.code, q)
        /\ N!Target(edited.code, pc) = J!Target(m.code, q) + d
  <2>1. SUFFICES ASSUME op \in {153, 167, 181}
                 PROVE  /\ N!U2(edited.code, pc + 1) = O!U2(m.code, q + 1)
                        /\ J!Target(m.code, q) \in Int
                        /\ O!Target(m.code, q) = J!Target(m.code, q)
                        /\ N!Target(edited.code, pc) = J!Target(m.code, q) + d
    OBVIOUS
  <2>2. InstrLen(op) = 3
    BY <2>1 DEF InstrLen
  <2>3. /\ edited.code[pc + 1] = m.code[q + 1] /\ m.code[q + 1] \in Byte
        /\ edited.code[pc + 2] = m.code[q + 2] /\ m.code[q + 2] \in Byte
    BY <1>6, <2>2
  <2>4. pc \in Int /\ q \in Int /\ pc - q = d
    BY <1>3
  <2>5. /\ N!U2(edited.code, pc + 1) = O!U2(method.code, q + 1)
        /\ J!Target(method.code, q) \in Int
        /\ O!Target(method.code, q) = J!Target(method.code, q)
        /\ N!Target(edited.code, pc) = J!Target(method.code, q) + (pc - q)
    <3> DEFINE c == edited.code
               dd == method.code
    <3>1. /\ c[pc + 1] = dd[q + 1] /\ dd[q + 1] \in Byte
          /\ c[pc + 2] = dd[q + 2] /\ dd[q + 2] \in Byte
      BY <2>3
    <3> HIDE DEF c, dd
    <3>2. /\ N!U2(c, pc + 1) = O!U2(dd, q + 1)
          /\ J!Target(dd, q) \in Int
          /\ O!Target(dd, q) = J!Target(dd, q)
          /\ N!Target(c, pc) = J!Target(dd, q) + (pc - q)
      BY <2>4, <3>1, SameOperand
    <3> QED
      BY <3>2 DEF c, dd
  <2> QED
    BY <2>4, <2>5
(* What arriving amounts to. *)
<1>9. ASSUME NEW r, NEW c \in {0, 7}, Arrives(r, c), pc' = r + c
      PROVE  /\ Back(pc)' = r /\ Own' = 0 /\ AtInstruction' /\ pc' \in Int
             /\ pc' \notin {pos + 1, pos + 4} /\ (c = 7 => pc' # pos)
             /\ r \in Nat /\ r < m.size
  <2>1. r \in Nat /\ r < m.size /\ r \in m.starts
    BY <1>1, <1>9 DEF Relates, Arrives
  <2>2. (c = 0 /\ pc' = r /\ r <= pos) \/ (c = 7 /\ pc' = r + 7 /\ r >= pos)
    BY <1>9, <2>1 DEF Arrives
  <2>3. Back(pc)' = r /\ Own' = 0
    BY <1>1, <1>2, <2>1, <2>2 DEF Back, Own, InjectionSize
  <2>4. AtInstruction'
    BY <1>1, <1>2, <2>1, <2>2 DEF AtInstruction
  <2> QED
    BY <1>1, <2>1, <2>2, <2>3, <2>4
<1>10. CASE N!FallsThrough
  <2>1. /\ status = "running" /\ status' = "running" /\ op \notin {167, 177}
        /\ pc' = pc + InstrLen(op)
        /\ depth' = depth + N!Effect(op)
        /\ field' = IF op = 181 /\ N!U2(edited.code, pc + 1) = fieldref THEN pc ELSE field
    BY <1>7, <1>10, SameLength DEF N!FallsThrough, N!GOTO, N!RETURN, N!PUTFIELD
  <2> DEFINE r == q + InstrLen(op)
  <2>2. Arrives(r, d) /\ pc' = r + d
    BY <1>1, <1>3, <1>4, <2>1, Decoded DEF Arrives
  <2>3. /\ Back(pc)' = r /\ Own' = 0 /\ AtInstruction' /\ pc' \in Int
        /\ pc' \notin {pos + 1, pos + 4} /\ (d = 7 => pc' # pos)
    BY <1>9, <2>2
  <2>4. field' = IF op = 181 /\ O!U2(m.code, q + 1) = fieldref THEN pc ELSE field
    BY <1>8, <2>1
  <2>5. Run'
    <3>1. depth' \in Int
      BY <2>1, SameEffect DEF Run
    <3>2. field' \in Int /\ (\/ field' = -1
                             \/ 0 <= field' /\ field' < pos
                             \/ pos + 7 <= field' /\ field' < m.size + 7)
      <4>1. CASE field' = field
        BY <4>1 DEF Run
      <4>2. CASE field' = pc
        BY <1>1, <1>3, <4>2
      <4> QED
        BY <2>4, <4>1, <4>2
    <3> QED
      BY <1>2, <2>1, <2>3, <3>1, <3>2 DEF Run
  <2>6. (IF field = -1 THEN -1 ELSE Back(field))'
            = IF op = 181 /\ O!U2(m.code, q + 1) = fieldref THEN q
              ELSE IF field = -1 THEN -1 ELSE Back(field)
    <3>1. CASE field' = pc /\ op = 181 /\ O!U2(m.code, q + 1) = fieldref
      BY <1>2, <1>3, <1>5, <3>1 DEF Back
    <3>2. CASE field' = field /\ ~ (op = 181 /\ O!U2(m.code, q + 1) = fieldref)
      BY <1>2, <3>2 DEF Back
    <3> QED
      BY <2>4, <3>1, <3>2
  <2>7. O!FallsThrough
    <3>1. (depth - Own)' = (depth - Own) + O!Effect(op)
      BY <1>5, <2>1, <2>3, SameEffect DEF Run
    <3> QED
      BY <1>2, <1>5, <1>7, <2>1, <2>3, <2>6, <3>1, SameLength
         DEF O!FallsThrough, O!GOTO, O!RETURN, O!PUTFIELD
  <2>8. pc' # pos + 7 \/ pc = pos + 7
    BY <1>1, <1>3, <2>2 DEF Arrives
  <2> QED
    BY <2>1, <2>3, <2>5, <2>7, <2>8 DEF O!Next
<1>11. CASE N!Jumps
  <2>1. /\ status = "running" /\ status' = "running" /\ op \in {153, 167}
        /\ pc' = N!Target(edited.code, pc)
        /\ depth' = depth + N!Effect(op)
        /\ field' = field
    BY <1>7, <1>11 DEF N!Jumps, N!Branches, N!IFEQ, N!GOTO
  <2> DEFINE r == J!Target(m.code, q)
  <2>2. Arrives(r, d) /\ pc' = r + d
    <3>1. r \in m.starts
      BY <1>3, <2>1, Decoded
    <3>2. IF q < pos THEN r <= pos ELSE r >= pos
      BY <2>1 DEF Run, Insertable, pos, J!Branches, J!IFEQ, J!GOTO
    <3> QED
      BY <1>1, <1>3, <1>8, <2>1, <3>1, <3>2 DEF Arrives
  <2>3. /\ Back(pc)' = r /\ Own' = 0 /\ AtInstruction' /\ pc' \in Int
        /\ pc' \notin {pos + 1, pos + 4} /\ (d = 7 => pc' # pos)
    BY <1>9, <2>2
  <2>4. Run'
    <3>1. depth' \in Int
      BY <2>1, SameEffect DEF Run
    <3> QED
      BY <1>2, <2>1, <2>3, <3>1 DEF Run
  <2>5. O!Jumps
    <3>1. (depth - Own)' = (depth - Own) + O!Effect(op)
      BY <1>5, <2>1, <2>3, SameEffect DEF Run
    <3>2. (IF field = -1 THEN -1 ELSE Back(field))' = IF field = -1 THEN -1 ELSE Back(field)
      BY <1>2, <2>1 DEF Back
    <3> QED
      BY <1>2, <1>5, <1>7, <1>8, <2>1, <2>3, <3>1, <3>2
         DEF O!Jumps, O!Branches, O!IFEQ, O!GOTO
  <2>6. AloneAtPos(m, method_to_hook) => pc' # pos + 7
    <3>1. AloneAtPos(m, method_to_hook) /\ q >= pos => r # pos
      BY <2>1 DEF AloneAtPos, pos, J!Branches, J!IFEQ, J!GOTO
    <3>2. d = 7 => r \in Int /\ (r + 7 # pos + 7 \/ r = pos)
      BY <1>1, <2>2 DEF Arrives, Relates
    <3> HIDE DEF r
    <3> QED
      BY <1>1, <1>3, <2>2, <3>1, <3>2 DEF Arrives, Relates
  <2> QED
    BY <2>1, <2>3, <2>4, <2>5, <2>6 DEF O!Next
<1>12. CASE N!Returns
  <2>1. op = 177 /\ status = "running" /\ status' = "returned"
        /\ UNCHANGED <<pc, depth, field>>
    BY <1>7, <1>12 DEF N!Returns, N!RETURN
  <2>2. Arrives(q, d) /\ pc' = q + d
    BY <1>1, <1>3, <2>1 DEF Arrives
  <2>3. /\ Back(pc)' = q /\ Own' = 0 /\ AtInstruction' /\ pc' \in Int
        /\ pc' \notin {pos + 1, pos + 4} /\ (d = 7 => pc' # pos)
    BY <1>9, <2>2
  <2>4. Run'
    BY <1>2, <2>1, <2>3 DEF Run
  <2>5. O!Returns
    BY <1>2, <1>5, <1>7, <2>1, <2>3 DEF O!Returns, O!RETURN, Back
  <2> QED
    BY <2>1, <2>3, <2>4, <2>5 DEF O!Next
<1>13. CASE N!Throws
  <2>1. op \in {182, 184} /\ status = "running" /\ field' = field
    BY <1>7, <1>13 DEF N!Throws, N!Raise, N!INVOKEVIRTUAL, N!INVOKESTATIC
  <2>2. CASE status' = "thrown" /\ UNCHANGED <<pc, depth>>
    <3>1. Arrives(q, d)
      BY <1>1, <1>3 DEF Arrives
    <3>2. /\ Back(pc)' = q /\ Own' = 0 /\ AtInstruction' /\ pc' \in Int
          /\ pc' \notin {pos + 1, pos + 4} /\ (d = 7 => pc' # pos)
      BY <1>9, <2>2, <3>1
    <3>3. Run'
      BY <1>2, <2>1, <2>2, <3>2 DEF Run
    <3>4. O!Throws
      BY <1>2, <1>5, <1>7, <2>1, <2>2, <3>2
         DEF O!Throws, O!Raise, O!INVOKEVIRTUAL, O!INVOKESTATIC, Back
    <3> QED
      BY <2>1, <2>2, <3>2, <3>3, <3>4 DEF O!Next
  <2>3. ASSUME NEW e \in DOMAIN edited.exception_table,
               N!Covers(edited.exception_table[e], pc),
               pc' = edited.exception_table[e].handler_pc,
               depth' = 1, status' = status
        PROVE  Goal
    <3> DEFINE old == m.exception_table[e]
               new == edited.exception_table[e]
               r == old.handler_pc
    <3>1. /\ e \in DOMAIN m.exception_table /\ IsMoved(new, old, pos)
          /\ old.start_pc \in 0 .. m.size - 1 /\ old.end_pc \in 1 .. m.size
          /\ r \in m.starts /\ r \in Nat
      BY <1>1 DEF Relates
    <3>2. O!Covers(old, q)
      <4>1. new.start_pc <= pc /\ pc < new.end_pc
        BY <2>3 DEF N!Covers
      <4> HIDE DEF old, new, r
      <4>2. old.start_pc <= q /\ q < old.end_pc
        BY <1>1, <1>3, <3>1, <4>1 DEF IsMoved
      <4> QED
        BY <4>2 DEF O!Covers
    <3>3. PICK c \in {0, 7} : Arrives(r, c) /\ pc' = r + c
      <4>1. pc' = IF r >= pos THEN r + 7 ELSE r
        BY <2>3, <3>1 DEF IsMoved
      <4> HIDE DEF old, new, r
      <4> QED
        BY <1>1, <3>1, <4>1 DEF Arrives
    <3>4. /\ Back(pc)' = r /\ Own' = 0 /\ AtInstruction' /\ pc' \in Int
          /\ pc' \notin {pos + 1, pos + 4} /\ (c = 7 => pc' # pos)
      BY <1>9, <3>3
    <3>5. d = 7 => pc' # pos
      <4>1. pc' = IF r >= pos THEN r + 7 ELSE r
        BY <2>3, <3>1 DEF IsMoved
      <4> HIDE DEF old, new, r
      <4> QED
        BY <1>1, <3>1, <4>1
    <3>6. Run'
      BY <1>2, <2>1, <2>3, <3>4 DEF Run
    <3>7. O!Throws
      <4>1. (depth - Own)' = 1
        BY <2>3, <3>4
      <4>2. UNCHANGED (IF field = -1 THEN -1 ELSE Back(field))
        BY <1>2, <2>1 DEF Back
      <4>3. \E x \in DOMAIN method.exception_table :
                /\ O!Covers(method.exception_table[x], Back(pc))
                /\ Back(pc)' = method.exception_table[x].handler_pc
        BY <1>5, <3>1, <3>2, <3>4
      <4> QED
        BY <1>2, <1>7, <2>1, <2>3, <4>1, <4>2, <4>3
           DEF O!Throws, O!Raise, O!INVOKEVIRTUAL, O!INVOKESTATIC
    <3>8. AloneAtPos(m, method_to_hook) => pc' # pos + 7
      <4>1. AloneAtPos(m, method_to_hook) => r # pos
        BY <3>1 DEF AloneAtPos, pos
      <4>2. pc' = IF r >= pos THEN r + 7 ELSE r
        BY <2>3, <3>1 DEF IsMoved
      <4> HIDE DEF old, new, r
      <4> QED
        BY <1>1, <3>1, <4>1, <4>2
    <3> QED
      BY <2>1, <2>3, <3>4, <3>5, <3>6, <3>7, <3>8 DEF O!Next
  <2> QED
    BY <1>13, <2>2, <2>3 DEF N!Throws, N!Raise
<1>14. ~ AtCallback
  BY <1>1, <1>3 DEF AtCallback
<1> QED
  BY <1>10, <1>11, <1>12, <1>13, <1>14 DEF Next, N!Next

(* The entries around the inserted call, once moved, are those that hold    *)
(* the insertion or end at it.                                              *)
LEMMA CoversCallback ==
    ASSUME Run, NEW e \in DOMAIN edited.exception_table,
           N!Covers(edited.exception_table[e], pos + 4)
    PROVE  e \in Around
<1> DEFINE old == method.exception_table[e]
           new == edited.exception_table[e]
<1>1. /\ pos \in Nat /\ method.size \in Nat
      /\ e \in DOMAIN method.exception_table /\ IsMoved(new, old, pos)
      /\ old.start_pc \in 0 .. method.size - 1 /\ old.end_pc \in 1 .. method.size
  BY RunRelates DEF Relates
<1>2. new.start_pc <= pos + 4 /\ pos + 4 < new.end_pc
  BY DEF N!Covers
<1>3. old.start_pc < pos /\ pos <= old.end_pc
  <2> HIDE DEF old, new
  <2> QED
    BY <1>1, <1>2 DEF IsMoved
<1> QED
  BY <1>1, <1>3 DEF Around

(* A step of the injected code that throws nothing: the next of its three   *)
(* instructions, then the method.  The original does not see it.            *)
LEMMA StepInside ==
    ASSUME Run, Next, pc \in {pos, pos + 1, pos + 4}, pc = pos + 4 => bound
    PROVE  /\ Run'
           /\ UNCHANGED O!vars
           /\ field' = field /\ status = "running" /\ status' = "running"
           /\ pc = pos => pc' = pos + 1
           /\ pc = pos + 1 => pc' = pos + 4
           /\ pc = pos + 4 => pc' = pos + 7
<1>1. /\ Relates(method, edited, pos) /\ pos \in Nat /\ pos < method.size
      /\ pos \in method.starts
  BY RunRelates DEF Relates
<1>2. method' = method /\ method_to_hook' = method_to_hook /\ edited' = edited
      /\ pos' = pos /\ bound' = bound /\ bound' \in BOOLEAN
  BY Fixed DEF Run
<1>3. \/ pc = pos /\ N!Op = 42
      \/ pc = pos + 1 /\ N!Op = 180
      \/ pc = pos + 4 /\ N!Op = 184
  BY <1>1 DEF Relates, N!Op
<1>4. N!FallsThrough
  <2>1. CASE pc = pos + 4
    <3>1. AtCallback
      BY <1>1, <1>3, <2>1 DEF AtCallback, J!INVOKESTATIC
    <3> QED
      BY <2>1, <3>1 DEF Next, Callback
  <2>2. CASE pc # pos + 4
    <3>1. N!Op \notin {153, 167, 177, 182, 184}
      BY <1>3, <2>2
    <3> QED
      BY <2>2, <3>1 DEF Next, AtCallback, N!Next, N!Jumps, N!Branches, N!IFEQ, N!GOTO,
                        N!Returns, N!RETURN, N!Throws, N!INVOKEVIRTUAL, N!INVOKESTATIC
  <2> QED
    BY <2>1, <2>2
<1>5. /\ status = "running" /\ status' = "running" /\ field' = field
      /\ pc' = pc + InstrLen(N!Op) /\ depth' = depth + N!Effect(N!Op)
  <2>1. N!Op # 181
    BY <1>3
  <2> QED
    BY <1>4, <2>1, SameLength DEF N!FallsThrough, N!PUTFIELD
<1>6. N!Effect(42) = 1 /\ N!Effect(180) = 0 /\ N!Effect(184) = -1
  BY DEF N!Effect, N!ALOAD_0, N!ALOAD_1, N!POP, N!IFEQ, N!INVOKESTATIC, N!PUTFIELD
<1>7. InstrLen(42) = 1 /\ InstrLen(180) = 3 /\ InstrLen(184) = 3
  BY DEF InstrLen
<1>8. \/ pc = pos /\ pc' = pos + 1 /\ depth' = depth + 1
      \/ pc = pos + 1 /\ pc' = pos + 4 /\ depth' = depth
      \/ pc = pos + 4 /\ pc' = pos + 7 /\ depth' = depth - 1
  <2>1. depth \in Int
    BY DEF Run
  <2> QED
    BY <1>1, <1>3, <1>5, <1>6, <1>7, <2>1
<1>9. Back(pc)' = Back(pc) /\ (depth - Own)' = depth - Own /\ depth' \in Int
  <2>1. depth \in Int
    BY DEF Run
  <2> QED
    BY <1>1, <1>2, <1>8, <2>1 DEF Back, Own, InjectionSize
<1>10. UNCHANGED (IF field = -1 THEN -1 ELSE Back(field))
  BY <1>2, <1>5 DEF Back
<1>11. AtInstruction' /\ pc' \in Int
  BY <1>1, <1>2, <1>8 DEF AtInstruction
<1>12. Run'
  BY <1>2, <1>5, <1>9, <1>11 DEF Run
<1>13. UNCHANGED O!vars
  BY <1>2, <1>5, <1>9, <1>10 DEF O!vars
<1> QED
  BY <1>1, <1>5, <1>8, <1>12, <1>13

(* Without the callback the injected call throws, into one of the handlers  *)
(* around it or out of the method; none is around the start of a method.    *)
LEMMA CallbackThrows ==
    ASSUME Run, Next, pc = pos + 4, ~ bound
    PROVE  /\ Run'
           /\ CallbackMissing
           /\ field' = field /\ status' \in {"running", "thrown"}
           /\ calls' = calls /\ seen' = seen
           /\ \/ pc' = pc
              \/ /\ pos # 0
                 /\ AloneAtPos(method, method_to_hook) => pc' # pos + 7
<1>1. /\ Relates(method, edited, pos) /\ pos \in Nat /\ pos < method.size
      /\ pos \in method.starts /\ method.size \in Nat
  BY RunRelates DEF Relates
<1>2. method' = method /\ method_to_hook' = method_to_hook /\ edited' = edited
      /\ pos' = pos /\ bound' = bound /\ bound' \in BOOLEAN
  BY Fixed DEF Run
<1>3. AtCallback
  BY <1>1 DEF Relates, AtCallback, N!Op, J!INVOKESTATIC
<1>4. N!Throws /\ calls' = calls /\ seen' = seen
  BY <1>3 DEF Next, Callback
<1>5. status = "running" /\ field' = field
  BY <1>4 DEF N!Throws, N!Raise
<1>6. UNCHANGED (IF field = -1 THEN -1 ELSE Back(field))
  BY <1>2, <1>5 DEF Back
<1>7. Back(pc) = pos /\ Own = 1
  BY <1>1 DEF Back, Own, InjectionSize
<1>8. CASE status' = "thrown" /\ UNCHANGED <<pc, depth>>
  <2>1. Run'
    BY <1>2, <1>5, <1>8 DEF Run, AtInstruction
  <2>2. UNCHANGED <<Back(pc), depth - Own>>
    BY <1>2, <1>8 DEF Back, Own
  <2>3. O!Raise(Around)
    BY <1>2, <1>5, <1>6, <1>8, <2>2 DEF O!Raise
  <2> QED
    BY <1>4, <1>5, <1>8, <2>1, <2>3 DEF CallbackMissing
<1>9. ASSUME NEW e \in DOMAIN edited.exception_table,
             N!Covers(edited.exception_table[e], pc),
             pc' = edited.exception_table[e].handler_pc,
             depth' = 1, status' = status
      PROVE  /\ Run' /\ CallbackMissing /\ pos # 0
             /\ AloneAtPos(method, method_to_hook) => pc' # pos + 7
  <2> DEFINE old == method.exception_table[e]
             r == old.handler_pc
  <2>1. /\ e \in DOMAIN method.exception_table /\ r \in method.starts /\ r \in Nat
        /\ IsMoved(edited.exception_table[e], old, pos) /\ old.start_pc \in Nat
    BY <1>1 DEF Relates
  <2>2. e \in Around /\ pos # 0
    <3>1. e \in Around
      BY <1>9, CoversCallback
    <3>2. old.start_pc < pos
      BY <3>1 DEF Around
    <3> QED
      BY <1>1, <2>1, <3>1, <3>2
  <2>3. pc' = IF r >= pos THEN r + 7 ELSE r
    BY <1>9, <2>1 DEF IsMoved
  <2>4. AloneAtPos(method, method_to_hook) => r # pos
    BY <2>1 DEF AloneAtPos, pos
  <2> HIDE DEF old, r
  <2>5. Back(pc)' = r /\ Own' = 0 /\ AtInstruction' /\ pc' \in Int
    BY <1>1, <1>2, <2>1, <2>3 DEF Back, Own, AtInstruction, InjectionSize
  <2>6. Run'
    BY <1>2, <1>5, <1>9, <2>5 DEF Run
  <2>7. O!Raise(Around)
    <3>1. (depth - Own)' = 1
      BY <1>9, <2>5
    <3>2. \E x \in Around : Back(pc)' = method.exception_table[x].handler_pc
      BY <2>2, <2>5 DEF old, r
    <3> QED
      BY <1>2, <1>5, <1>6, <1>9, <3>1, <3>2 DEF O!Raise
  <2> QED
    BY <1>1, <2>1, <2>2, <2>3, <2>4, <2>6, <2>7 DEF CallbackMissing
<1> QED
  BY <1>4, <1>5, <1>8, <1>9 DEF N!Throws, N!Raise

-----------------------------------------------------------------------------
(* What has been handed over when.  At the return that the code found,      *)
(* nothing but the return follows; at the start, nothing came before.       *)
HandedOver ==
    /\ calls \in 0 .. 1
    /\ seen \in Int /\ -1 <= seen /\ seen <= U2Max
    /\ method.code[pos] = 177 /\ calls = 1 => pc = pos + 7 /\ seen = field
    /\ pos = 0 => IF pc < 7 THEN calls = 0 /\ seen = -1 /\ field = -1
                            ELSE calls = 1 /\ seen = -1
    /\ AloneAtPos(method, method_to_hook) /\ pc = pos + 7 => calls = 1
    /\ status = "returned" =>
            \E q \in method.starts :
                /\ method.code[q] = 177
                /\ (pc = q /\ q < pos) \/ (pc = q + 7 /\ q >= pos)

IInv == Run /\ HandedOver

LEMMA FieldInRange == ASSUME Run PROVE field <= U2Max /\ -1 <= field
<1>1. method.size + 7 <= U2Max /\ method.size \in Nat /\ pos \in Nat /\ pos < method.size
  BY RunRelates DEF Relates
<1>2. U2Max \in Int
  BY DEF U2Max
<1> QED
  BY <1>1, <1>2 DEF Run

(* Where the run is, and which of the two kinds of step it takes. *)
LEMMA WhereRunIs ==
    ASSUME Run
    PROVE  \/ pc \in {pos, pos + 1, pos + 4}
           \/ \E q \in method.starts, d \in {0, 7} :
                /\ pc = q + d
                /\ (d = 0 /\ q < pos) \/ (d = 7 /\ q >= pos)
<1>1. /\ Relates(method, edited, pos) /\ pos \in Nat /\ method.size \in Nat
      /\ method.starts \subseteq 0 .. method.size - 1
  BY RunRelates DEF Relates
<1>2. CASE pc \in method.starts /\ pc < pos
  <2>1. pc = pc + 0
    BY DEF Run
  <2> QED
    BY <1>2, <2>1
<1>3. CASE pc - 7 \in method.starts /\ pc >= pos + 7
  <2>1. pc = (pc - 7) + 7 /\ pc - 7 >= pos
    BY <1>1, <1>3 DEF Run
  <2> QED
    BY <1>3, <2>1
<1> QED
  BY <1>2, <1>3 DEF Run, AtInstruction

LEMMA InitIInv == Init => IInv
<1> SUFFICES ASSUME Init PROVE IInv
  OBVIOUS
<1>1. Run
  BY InitRun
<1>2. pos \in Nat
  BY <1>1, RunRelates
<1>3. pc = 0 /\ field = -1 /\ status = "running" /\ calls = 0 /\ seen = -1
  BY DEF Init, N!Init
<1>4. -1 <= U2Max
  BY DEF U2Max
<1> QED
  BY <1>1, <1>2, <1>3, <1>4 DEF IInv, HandedOver

LEMMA NextIInv ==
    ASSUME IInv, [Next]_vars
    PROVE  IInv' /\ [O!Next \/ CallbackMissing]_(O!vars)
<1> USE DEF IInv
<1>1. /\ pos \in Nat /\ pos < method.size /\ method.size \in Nat
      /\ method.starts \subseteq Nat
  BY RunRelates DEF Relates
<1>2. pos = 0 \/ method.code[pos] = 177
  BY FoundReturn DEF pos, Run
<1>3. ASSUME Next, pc \in {pos, pos + 1, pos + 4}, pc = pos + 4 => bound
      PROVE  IInv' /\ [O!Next \/ CallbackMissing]_(O!vars)
  <2>1. /\ Run' /\ UNCHANGED O!vars /\ field' = field
        /\ status = "running" /\ status' = "running"
        /\ pc = pos => pc' = pos + 1
        /\ pc = pos + 1 => pc' = pos + 4
        /\ pc = pos + 4 => pc' = pos + 7
    BY <1>3, StepInside
  <2>2. method' = method /\ method_to_hook' = method_to_hook /\ pos' = pos
    BY <1>3, Fixed
  <2>3. calls = 0 /\ (pos = 0 => seen = -1 /\ field = -1)
    BY <1>1, <1>2, <1>3 DEF HandedOver
  <2>4. CASE pc = pos + 4
    <3>1. calls' = 1 /\ seen' = field
      <4>1. N!Op = J!INVOKESTATIC
        <5>1. edited.code[pos + 4] = 184
          BY RunRelates DEF Relates
        <5> QED
          BY <2>4, <5>1 DEF N!Op, J!INVOKESTATIC
      <4> QED
        BY <1>3, <2>3, <2>4, <4>1 DEF Next, AtCallback, Callback
    <3>2. seen' \in Int /\ -1 <= seen' /\ seen' <= U2Max
      BY <3>1, FieldInRange DEF Run
    <3> QED
      BY <1>1, <2>1, <2>2, <2>3, <2>4, <3>1, <3>2 DEF HandedOver
  <2>5. CASE pc # pos + 4
    <3>1. calls' = 0 /\ seen' = seen
      BY <1>3, <2>3, <2>5 DEF Next, AtCallback
    <3>2. pc' < pos + 7 /\ pc' # pos + 7
      BY <1>1, <1>3, <2>1, <2>5
    <3> QED
      BY <1>1, <2>1, <2>2, <2>3, <3>1, <3>2 DEF HandedOver
  <2> QED
    BY <2>4, <2>5
<1>4. ASSUME Next, NEW q \in method.starts, NEW d \in {0, 7}, pc = q + d,
             (d = 0 /\ q < pos) \/ (d = 7 /\ q >= pos)
      PROVE  IInv' /\ [O!Next \/ CallbackMissing]_(O!vars)
  <2>1. /\ Run' /\ O!Next
        /\ pc' \notin {pos + 1, pos + 4} /\ (d = 7 => pc' # pos)
        /\ AloneAtPos(method, method_to_hook) /\ pc' = pos + 7 => pc = pos + 7
        /\ status' = "returned" => method.code[q] = 177 /\ pc' = pc
        /\ method.code[q] = 177 => pc' = pc /\ field' = field
    <3>1. Run
      OBVIOUS
    <3> HIDE DEF IInv
    <3> QED
      BY <1>4, <3>1, StepOutside, Zenon
  <2>2. method' = method /\ method_to_hook' = method_to_hook /\ pos' = pos
    BY <1>4, Fixed
  <2>3. calls' = calls /\ seen' = seen
    <3>1. pc # pos + 4
      BY <1>1, <1>4
    <3> QED
      BY <1>4, <3>1 DEF Next, AtCallback
  <2>4. method.code[pos] = 177 /\ calls' = 1 => pc' = pos + 7 /\ seen' = field'
    BY <1>1, <1>4, <2>1, <2>3 DEF HandedOver
  <2>5. pos = 0 => pc' >= 7 /\ calls = 1 /\ seen = -1 /\ pc' \in Int
    <3>1. SUFFICES ASSUME pos = 0 PROVE pc' >= 7 /\ calls = 1 /\ seen = -1 /\ pc' \in Int
      OBVIOUS
    <3>2. d = 7 /\ pc >= 7 /\ pc \in Int
      BY <1>1, <1>4, <3>1
    <3>3. AtInstruction' /\ pc' \in Int
      BY <2>1 DEF Run
    <3>4. pc' >= 7
      BY <2>1, <2>2, <3>1, <3>2, <3>3, <1>1 DEF AtInstruction
    <3> QED
      BY <3>1, <3>2, <3>3, <3>4 DEF HandedOver
  <2>6. AloneAtPos(method, method_to_hook) /\ pc' = pos + 7 => calls' = 1
    BY <2>1, <2>3 DEF HandedOver
  <2>7. status' = "returned" =>
            /\ method.code[q] = 177
            /\ (pc' = q /\ q < pos) \/ (pc' = q + 7 /\ q >= pos)
    BY <1>1, <1>4, <2>1
  <2>8. calls' \in 0 .. 1 /\ seen' \in Int /\ -1 <= seen' /\ seen' <= U2Max
    BY <2>3 DEF HandedOver
  <2>9. HandedOver'
    <3>1. pos' = 0 => IF pc' < 7 THEN calls' = 0 /\ seen' = -1 /\ field' = -1
                                ELSE calls' = 1 /\ seen' = -1
      BY <2>2, <2>3, <2>5
    <3> QED
      BY <2>2, <2>4, <2>6, <2>7, <2>8, <3>1 DEF HandedOver
  <2> QED
    BY <2>1, <2>9
<1>5. CASE UNCHANGED vars
  <2>1. pos' = pos /\ IInv'
    BY <1>5 DEF vars, pos, Run, AtInstruction, HandedOver
  <2>2. UNCHANGED O!vars
    BY <1>5, <2>1 DEF vars, O!vars, Back, Own
  <2> QED
    BY <2>1, <2>2
<1>6. ASSUME Next, pc = pos + 4, ~ bound
      PROVE  IInv' /\ [O!Next \/ CallbackMissing]_(O!vars)
  <2>1. /\ Run' /\ CallbackMissing
        /\ field' = field /\ status' \in {"running", "thrown"}
        /\ calls' = calls /\ seen' = seen
        /\ \/ pc' = pc
           \/ /\ pos # 0
              /\ AloneAtPos(method, method_to_hook) => pc' # pos + 7
    <3>1. Run
      OBVIOUS
    <3> HIDE DEF IInv
    <3> QED
      BY <1>6, <3>1, CallbackThrows, Zenon
  <2>2. method' = method /\ method_to_hook' = method_to_hook /\ pos' = pos
    BY <1>6, Fixed
  <2>3. calls = 0
    BY <1>1, <1>2, <1>6 DEF HandedOver
  <2>4. HandedOver'
    BY <1>1, <1>6, <2>1, <2>2, <2>3 DEF HandedOver
  <2> QED
    BY <2>1, <2>4
<1>7. CASE Next
  BY <1>3, <1>4, <1>6, <1>7, WhereRunIs
<1> QED
  BY <1>5, <1>7

-----------------------------------------------------------------------------
LEMMA IInvTypeOK == IInv => TypeOK
<1> SUFFICES ASSUME IInv PROVE TypeOK
  OBVIOUS
<1> USE DEF IInv
<1>1. /\ pos \in Nat /\ pos < method.size /\ method.size \in Nat /\ pos \in method.starts
      /\ method.starts \subseteq Nat
  BY RunRelates DEF Relates
<1>2. IsMethod(method)
  BY MethodsAssumption DEF Run
<1>3. /\ Back(pc) \in method.starts
      /\ pc \in {pos, pos + 1, pos + 4} \/ (pc - pos) \notin 0 .. 6
  BY <1>1, WhereRunIs DEF Back, InjectionSize
<1>4. field \in -1 .. U2Max /\ seen \in -1 .. U2Max
  <2>1. U2Max \in Int
    BY DEF U2Max
  <2> QED
    BY <2>1, FieldInRange DEF Run, HandedOver
<1> QED
  BY <1>2, <1>3, <1>4 DEF TypeOK, Run, HandedOver, InjectionSize

(* The run of an edited method is always at an instruction, and calls the   *)
(* callback at most once (instrumenter.cpp:56-93).                          *)
THEOREM InjectionTypeCorrect == Spec => []TypeOK
<1>1. Spec => []IInv
  BY InitIInv, NextIInv, PTL DEF Spec
<1> QED
  BY <1>1, IInvTypeOK, PTL

(* Editing a method leaves what it does as it was, for every code, every    *)
(* exception table and every place that no branch crosses, but for the      *)
(* exception of an unregistered callback (instrumenter.cpp:86-107).         *)
THEOREM EditedMethodRunsAsBefore == Spec => RunsAsBefore
<1>1. Init => O!Init
  <2>1. SUFFICES ASSUME Init PROVE O!Init
    OBVIOUS
  <2>2. pos \in Nat
    BY <2>1, InitRun, RunRelates
  <2>3. pc = 0 /\ depth = 0 /\ field = -1 /\ status = "running"
    BY <2>1 DEF Init, N!Init
  <2>4. Back(0) = 0 /\ Own = 0
    BY <2>2, <2>3 DEF Back, Own, InjectionSize
  <2> QED
    BY <2>3, <2>4 DEF O!Init
<1>2. Spec => []IInv
  BY InitIInv, NextIInv, PTL DEF Spec
<1> QED
  BY <1>1, <1>2, InitIInv, NextIInv, PTL DEF Spec, RunsAsBefore

(* readPacketData hands over the field exactly once, with the value it      *)
(* returns with (instrumenter.cpp:70).                                      *)
THEOREM FieldIsReportedBeforeReturn == Spec => []ReportsBeforeReturn
<1>1. IInv => ReportsBeforeReturn
  <2> SUFFICES ASSUME IInv, method_to_hook = "readPacketData",
                      SoleReturn(method), status = "returned"
               PROVE  calls = 1 /\ seen = field
    BY DEF ReportsBeforeReturn
  <2> USE DEF IInv
  <2>1. pos \in Nat /\ pos \in method.starts
    BY RunRelates DEF Relates
  <2>2. AloneAtPos(method, method_to_hook)
    BY <2>1, SoleReturnIsFound DEF Run, pos
  <2>3. PICK q \in method.starts :
            /\ method.code[q] = 177
            /\ (pc = q /\ q < pos) \/ (pc = q + 7 /\ q >= pos)
    BY DEF HandedOver
  <2>4. q = pos
    BY <2>3, <2>2 DEF AloneAtPos, pos, J!RETURN
  <2>5. pc = pos + 7 /\ method.code[pos] = 177
    BY <2>1, <2>3, <2>4
  <2> QED
    BY <2>5, <2>2 DEF HandedOver
<1>2. Spec => []IInv
  BY InitIInv, NextIInv, PTL DEF Spec
<1> QED
  BY <1>1, <1>2, PTL

(* writePacketData hands over the field once, before its first instruction  *)
(* (instrumenter.cpp:71).                                                   *)
THEOREM FieldIsReportedAtStart == Spec => []ReportsAtStart
<1>1. IInv => ReportsAtStart
  <2> SUFFICES ASSUME IInv, method_to_hook = "writePacketData"
               PROVE  calls = (IF pc < InjectionSize THEN 0 ELSE 1) /\ seen = -1
    BY DEF ReportsAtStart
  <2>1. pos = 0
    BY DEF pos, InjectionPos
  <2> QED
    BY <2>1 DEF IInv, HandedOver, InjectionSize
<1>2. Spec => []IInv
  BY InitIInv, NextIInv, PTL DEF Spec
<1> QED
  BY <1>1, <1>2, PTL

-----------------------------------------------------------------------------
(* At every instruction the run has the operands the verifier inferred, the *)
(* one of the injected code apart.                                          *)
DepthInferred == depth - Own = method.depths[Back(pc)]

(* A step of the original from the depth inferred to the depth inferred. *)
LEMMA OriginalStepKeepsDepth ==
    ASSUME method \in Methods, method' = method, Back(pc) \in method.starts,
           DepthInferred, O!Next \/ CallbackMissing
    PROVE  (depth - Own)' = method.depths[Back(pc)']
<1> DEFINE q == Back(pc)
           op == method.code[q]
<1>1. /\ O!Op = op /\ depth - Own = method.depths[q]
      /\ q \in method.starts
  BY DEF O!Op, DepthInferred
<1>2. IsVerified(method)
  BY MethodsAssumption DEF IsMethod
<1>3. J!Effect(op) = O!Effect(op)
  BY DEF J!Effect, J!ALOAD_0, J!ALOAD_1, J!POP, J!IFEQ, J!INVOKESTATIC, J!PUTFIELD,
         O!Effect, O!ALOAD_0, O!ALOAD_1, O!POP, O!IFEQ, O!INVOKESTATIC, O!PUTFIELD
<1>4. J!Length(op) = O!Length(op)
  BY SameLength
<1>5. O!Target(method.code, q) = J!Target(method.code, q)
  BY DEF O!Target, J!Target, O!S2, J!S2, O!U2, J!U2
<1> HIDE DEF q
<1>6. CASE O!FallsThrough
  <2>1. op \notin {J!GOTO, J!RETURN}
    BY <1>1, <1>6 DEF O!FallsThrough, O!GOTO, O!RETURN, J!GOTO, J!RETURN
  <2>2. Back(pc)' = q + O!Length(op) /\ (depth - Own)' = depth - Own + O!Effect(op)
    BY <1>1, <1>6 DEF O!FallsThrough, q
  <2>3. method.depths[q + J!Length(op)] = method.depths[q] + J!Effect(op)
    BY <1>1, <1>2, <2>1 DEF IsVerified
  <2> QED
    BY <1>1, <1>3, <1>4, <2>2, <2>3
<1>7. CASE O!Jumps
  <2>1. J!Branches(op)
    BY <1>1, <1>7 DEF O!Jumps, O!Branches, O!IFEQ, O!GOTO, J!Branches, J!IFEQ, J!GOTO
  <2>2. Back(pc)' = O!Target(method.code, q)
        /\ (depth - Own)' = depth - Own + O!Effect(op)
    BY <1>1, <1>7 DEF O!Jumps, q
  <2>3. method.depths[J!Target(method.code, q)] = method.depths[q] + J!Effect(op)
    BY <1>1, <1>2, <2>1 DEF IsVerified
  <2> QED
    BY <1>1, <1>3, <1>5, <2>2, <2>3
<1>8. CASE O!Returns
  BY <1>1, <1>8 DEF O!Returns, q
<1>9. ASSUME NEW entries \in SUBSET DOMAIN method.exception_table, O!Raise(entries)
      PROVE  (depth - Own)' = method.depths[Back(pc)']
  <2>1. CASE UNCHANGED <<Back(pc), depth - Own>>
    BY <1>1, <2>1 DEF q
  <2>2. ASSUME NEW e \in entries,
               Back(pc)' = method.exception_table[e].handler_pc, (depth - Own)' = 1
        PROVE  (depth - Own)' = method.depths[Back(pc)']
    BY <1>2, <2>2 DEF IsVerified
  <2> QED
    BY <1>9, <2>1, <2>2 DEF O!Raise
<1>10. CASE O!Throws
  BY <1>9, <1>10 DEF O!Throws
<1>11. CASE CallbackMissing
  BY <1>9, <1>11 DEF CallbackMissing, Around
<1> QED
  BY <1>6, <1>7, <1>8, <1>10, <1>11 DEF O!Next

LEMMA AtOriginalInstruction == ASSUME IInv PROVE Back(pc) \in method.starts
<1>1. TypeOK
  BY IInvTypeOK
<1> QED
  BY <1>1 DEF TypeOK

LEMMA NextDepth == IInv /\ DepthInferred /\ [Next]_vars => DepthInferred'
<1> SUFFICES ASSUME IInv, DepthInferred, [Next]_vars PROVE DepthInferred'
  OBVIOUS
<1>1. [O!Next \/ CallbackMissing]_(O!vars)
  BY NextIInv
<1>2. method' = method /\ method \in Methods
  BY DEF Next, vars, IInv, Run
<1>3. CASE O!Next \/ CallbackMissing
  <2>1. (depth - Own)' = method.depths[Back(pc)']
    BY <1>2, <1>3, AtOriginalInstruction, OriginalStepKeepsDepth
  <2> QED
    BY <1>2, <2>1 DEF DepthInferred
<1>4. CASE UNCHANGED O!vars
  BY <1>2, <1>4 DEF O!vars, DepthInferred
<1> QED
  BY <1>1, <1>3, <1>4

LEMMA InitDepth == Init => DepthInferred
<1> SUFFICES ASSUME Init PROVE DepthInferred
  OBVIOUS
<1>1. pc = 0 /\ depth = 0 /\ pos \in Nat
  BY InitRun, RunRelates DEF Init, N!Init
<1>2. Back(pc) = 0 /\ Own = 0
  BY <1>1 DEF Back, Own, InjectionSize
<1>3. method.depths[0] = 0
  BY MethodsAssumption DEF Init, IsMethod, IsVerified
<1> QED
  BY <1>1, <1>2, <1>3 DEF DepthInferred

(* max_stack is enough for the edited method: what it had to be for the     *)
(* original, and two (instrumenter.cpp:88-92).                              *)
THEOREM InjectedOperandsFit == Spec => []StackFits
<1>1. IInv /\ DepthInferred => StackFits
  <2> SUFFICES ASSUME IInv, DepthInferred, Headroom(method, method_to_hook)
               PROVE  0 <= depth /\ depth <= MaxStack(method.max_stack)
    BY DEF StackFits
  <2> DEFINE max == method.max_stack
             inferred == method.depths[Back(pc)]
  <2>1. max \in Nat
    <3>1. IsCode(method)
      BY MethodsAssumption DEF IInv, Run, IsMethod
    <3>2. U2Max \in Nat
      BY DEF U2Max
    <3> QED
      BY <3>1, <3>2 DEF IsCode, U2Range
  <2>2. inferred \in 0 .. max
    <3>1. method.depths \in [method.starts -> 0 .. max]
      BY MethodsAssumption DEF IInv, Run, IsMethod, IsVerified
    <3> QED
      BY <3>1, AtOriginalInstruction
  <2>3. MaxStack(max) \in Nat /\ max <= MaxStack(max) /\ 2 <= MaxStack(max)
    BY <2>1 DEF MaxStack
  <2>4. depth \in Int /\ depth - Own = inferred
    BY DEF IInv, Run, DepthInferred
  <2>5. ASSUME Own = 0 PROVE 0 <= depth /\ depth <= MaxStack(max)
    <3> HIDE DEF inferred, max
    <3> QED
      BY <2>1, <2>2, <2>3, <2>4, <2>5
  <2>6. ASSUME Own = 1 PROVE 0 <= depth /\ depth <= MaxStack(max)
    <3>1. Back(pc) = pos
      <4>1. pc \in {pos + 1, pos + 4} /\ pos \in Nat
        BY <2>6, RunRelates DEF Own, IInv
      <4> QED
        BY <4>1 DEF Back, InjectionSize
    <3>2. inferred < 2 \/ inferred < max
      BY <3>1 DEF Headroom, pos
    <3> HIDE DEF inferred, max
    <3> QED
      BY <2>1, <2>2, <2>3, <2>4, <2>6, <3>2
  <2> QED
    BY <2>5, <2>6 DEF Own
<1>2. Spec => [](IInv /\ DepthInferred)
  BY InitIInv, NextIInv, InitDepth, NextDepth, PTL DEF Spec
<1> QED
  BY <1>1, <1>2, PTL
=============================================================================
