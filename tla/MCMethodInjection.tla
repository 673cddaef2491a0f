-------------------------- MODULE MCMethodInjection --------------------------
(***************************************************************************)
(* The methods of up to MaxItems items: a store of what the buffer gives    *)
(* into the field, a branch or a jump to any item, a pop (where a handler   *)
(* begins) and a return; with one handler around any store, or none.  The   *)
(* operands of a store may be 0xb1, the byte of a return.                   *)
(***************************************************************************)
EXTENDS MethodInjection, SequencesExt

CONSTANTS MaxItems, Operands

Items(n) ==
    {<<"store">>, <<"pop">>, <<"return">>}
        \union {<<kind, k>> : kind \in {"ifeq", "goto"}, k \in 1 .. n}

(* The offset of the k-th item of a body. *)
Offset(body, k) ==
    LET before(kind) == Cardinality({i \in 1 .. k - 1 : body[i][1] = kind}) IN
    8 * before("store") + 4 * before("ifeq") + 3 * before("goto")
        + before("pop") + before("return")

BranchBytes(from, to) ==
    LET off == (to - from) % 65536 IN <<off \div 256, off % 256>>

Bytes(item, at, offsets, operand) ==
    CASE item[1] = "store" -> <<J!ALOAD_0, J!ALOAD_1, J!INVOKEVIRTUAL, 0, operand,
                                J!PUTFIELD, Hi(fieldref), Lo(fieldref)>>
      [] item[1] = "ifeq"  -> <<J!ALOAD_1, J!IFEQ>> \o BranchBytes(at + 1, offsets[item[2]])
      [] item[1] = "goto"  -> <<J!GOTO>> \o BranchBytes(at, offsets[item[2]])
      [] item[1] = "pop"   -> <<J!POP>>
      [] OTHER             -> <<J!RETURN>>

(* The depth of the stack before the instructions of an item. *)
InnerDepths(item) ==
    CASE item[1] = "store" -> 0 :> 0 @@ 1 :> 1 @@ 2 :> 2 @@ 5 :> 2
      [] item[1] = "ifeq"  -> 0 :> 0 @@ 1 :> 1
      [] OTHER             -> 0 :> 0

(* A handler begins with a pop or a return, and nothing but an exception    *)
(* leads there, with the exception on the stack; the last item does not     *)
(* fall off the end.                                                        *)
Verified(body, handler) ==
    /\ body[Len(body)][1] \in {"goto", "return"}
    /\ \A i \in 1 .. Len(body) :
        /\ body[i] = <<"pop">> => i = handler
        /\ body[i][1] \in {"ifeq", "goto"} => body[i][2] # handler
    /\ handler # 0 =>
        /\ body[handler][1] \in {"pop", "return"}
        /\ handler > 1 /\ body[handler - 1][1] \in {"goto", "return"}

Method(body, tried, handler, operand) ==
    LET offsets == [k \in 1 .. Len(body) + 1 |-> Offset(body, k)]
        bytes == FlattenSeq([k \in 1 .. Len(body) |->
                                Bytes(body[k], offsets[k], offsets, operand)])
        starts == UNION {{offsets[k] + i : i \in DOMAIN InnerDepths(body[k])} :
                            k \in 1 .. Len(body)}
        itemAt(q) == CHOOSE k \in 1 .. Len(body) : offsets[k] <= q /\ q < offsets[k + 1]
    IN [size |-> Len(bytes),
        code |-> [i \in 0 .. Len(bytes) - 1 |-> bytes[i + 1]],
        max_stack |-> IF \E k \in 1 .. Len(body) : body[k] = <<"store">> THEN 2
                      ELSE IF \E k \in 1 .. Len(body) : body[k][1] = "ifeq" THEN 1
                      ELSE 0,
        exception_table |->
            IF handler = 0 THEN <<>>
            ELSE <<[start_pc |-> offsets[tried], end_pc |-> offsets[tried + 1],
                    handler_pc |-> offsets[handler]]>>,
        attributes |-> {"StackMapTable", "LineNumberTable"},
        starts |-> starts,
        depths |-> [q \in starts |->
            LET k == itemAt(q) IN
            InnerDepths(body[k])[q - offsets[k]] + (IF k = handler THEN 1 ELSE 0)]]

Bodies == UNION {[1 .. n -> Items(n)] : n \in 1 .. MaxItems}

MCMethods ==
    {Method(x.body, x.tried, x.handler, x.operand) :
        x \in UNION {
          {[body |-> body, tried |-> t, handler |-> h, operand |-> o] :
             t \in {i \in 1 .. Len(body) : body[i] = <<"store">>},
             h \in {k \in 1 .. Len(body) : Verified(body, k)}, o \in Operands}
          \union
          {[body |-> body, tried |-> 0, handler |-> 0, operand |-> o] :
             o \in IF Verified(body, 0) THEN Operands ELSE {}}
          : body \in Bodies}}
=============================================================================
