------------------------------- MODULE MethodRun -------------------------------
(***************************************************************************)
(* How the JVM runs the code of a method: an external machine, reduced to   *)
(* the instructions the packet classes and the injected code are made of.   *)
(* What a method computes is abstracted to which putfield stored the field  *)
(* last; what it takes of the operand stack, to the depth.                  *)
(***************************************************************************)
EXTENDS Integers, Sequences

CONSTANT fieldref   \* the constant pool index of the field

VARIABLES
    method,  \* the Code attribute being run
    pc,      \* the offset of the next instruction
    depth,   \* operands on the stack
    field,   \* the offset of the putfield that stored the field last, or -1
    status   \* "running", "returned" or "thrown"

vars == <<method, pc, depth, field, status>>

ALOAD_0 == 42
ALOAD_1 == 43
POP == 87
IFEQ == 153
GOTO == 167
RETURN == 177
GETFIELD == 180
PUTFIELD == 181
INVOKEVIRTUAL == 182
INVOKESTATIC == 184

(* Bytes of an instruction, its operands included. *)
Length(op) ==
    IF op \in {IFEQ, GOTO, GETFIELD, PUTFIELD, INVOKEVIRTUAL, INVOKESTATIC}
    THEN 3 ELSE 1

(* invokevirtual stands for a getter without arguments, invokestatic for a  *)
(* method of descriptor (I)V.                                               *)
Effect(op) ==
    IF op \in {ALOAD_0, ALOAD_1} THEN 1
    ELSE IF op \in {POP, IFEQ, INVOKESTATIC} THEN -1
    ELSE IF op = PUTFIELD THEN -2
    ELSE 0

Branches(op) == op \in {IFEQ, GOTO}

U2(code, i) == 256 * code[i] + code[i + 1]
S2(code, i) == IF U2(code, i) < 32768 THEN U2(code, i) ELSE U2(code, i) - 65536

(* Branch offsets are relative to the branch. *)
Target(code, q) == q + S2(code, q + 1)

Covers(entry, q) == entry.start_pc <= q /\ q < entry.end_pc

Op == method.code[pc]

Init ==
    /\ pc = 0
    /\ depth = 0
    /\ field = -1
    /\ status = "running"

FallsThrough ==
    /\ status = "running"
    /\ Op \notin {GOTO, RETURN}
    /\ pc' = pc + Length(Op)
    /\ depth' = depth + Effect(Op)
    /\ field' = IF Op = PUTFIELD /\ U2(method.code, pc + 1) = fieldref
                THEN pc ELSE field
    /\ UNCHANGED <<method, status>>

Jumps ==
    /\ status = "running"
    /\ Branches(Op)
    /\ pc' = Target(method.code, pc)
    /\ depth' = depth + Effect(Op)
    /\ UNCHANGED <<method, field, status>>

Returns ==
    /\ status = "running"
    /\ Op = RETURN
    /\ status' = "returned"
    /\ UNCHANGED <<method, pc, depth, field>>

(* An exception, with these entries of the table around it: which of their  *)
(* handlers catches it, if any does, depends on the exception.              *)
Raise(entries) ==
    /\ status = "running"
    /\ \/ /\ \E e \in entries : pc' = method.exception_table[e].handler_pc
          /\ depth' = 1
          /\ UNCHANGED status
       \/ /\ status' = "thrown"
          /\ UNCHANGED <<pc, depth>>
    /\ UNCHANGED <<method, field>>

(* Reading the buffer throws, and so does the method that is called. *)
Throws ==
    /\ Op \in {INVOKEVIRTUAL, INVOKESTATIC}
    /\ Raise({e \in DOMAIN method.exception_table :
                Covers(method.exception_table[e], pc)})

Next == FallsThrough \/ Jumps \/ Returns \/ Throws

Spec == Init /\ [][Next]_vars
=============================================================================
