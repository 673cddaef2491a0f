--------------------------- MODULE ClassInstrumenter ---------------------------
(***************************************************************************)
(* instrument_and_get_bytes (instrumenter.cpp:5-129) on a whole class file: *)
(* the constant pool is walked once, six constants and a native method are  *)
(* added, one method is edited, and the class is written again.  What the   *)
(* edit does to the bytecode is MethodInjection's; here an edited method    *)
(* carries the two constants its new instructions name.                     *)
(***************************************************************************)
EXTENDS Integers, FiniteSets, Sequences, SequencesExt

CONSTANTS
    Classes,               \* the class files the JVM may hand over
    Limit,                 \* a u2 counts modulo this (65536)
    length,                \* the length of each string
    field_to_get, method_to_hook, method_desc, native_callback_name

VARIABLES
    cls,                   \* bytes
    pc,
    i, cp_cursor,          \* the walk along the constant pool
    cp_tags, cp_offsets,   \* by index; 0 where an index has no entry
    post_cp_offset,
    cp_count_new,
    new_cp_entries,
    methods,
    native_method_ref_idx, target_method, target_field_ref_idx,
    out                    \* out_bytes

parse == <<i, cp_cursor, cp_tags, cp_offsets, post_cp_offset>>
added == <<cp_count_new, new_cp_entries, native_method_ref_idx>>
found == <<target_method, target_field_ref_idx>>
vars == <<cls, pc, parse, added, methods, found, out>>

Unsupported == {17, 19, 20}
Tags == {1, 3, 4, 5, 6, 7, 8, 9, 10, 11, 12, 15, 16, 18} \cup Unsupported

(* What ends a call: the bytes are there, an exception, or a read outside   *)
(* cp_offsets that the process does not survive.                            *)
Ends == {"done", "thrown", "crashed"}

Utf8(s) == [tag |-> 1, str |-> s]
Ref(tag, i1, i2) == [tag |-> tag, i1 |-> i1, i2 |-> i2]

-----------------------------------------------------------------------------
(* The class file format, as the JVM reads it: the bytes of a constant, its *)
(* slots, and where the constants of a pool begin.                          *)
JVMSize(c) ==
    CASE c.tag = 1                      -> 3 + length[c.str]
      [] c.tag \in {7, 8, 16, 19, 20}   -> 3
      [] c.tag = 15                     -> 4
      [] c.tag \in {5, 6}               -> 9
      [] OTHER                          -> 5

JVMSlots(c) == IF c.tag \in {5, 6} THEN 2 ELSE 1

U2 == 0 .. Limit - 1

Constants ==
    [tag : {1}, str : DOMAIN length] \cup [tag : Tags \ {1}, i1 : U2, i2 : U2]

(* The indices the constants of a pool have, and the first one it has not. *)
Slots(pool) ==
    [k \in 1 .. Len(pool) + 1 |->
        k + Cardinality({j \in 1 .. k - 1 : JVMSlots(pool[j]) = 2})]

(* The constant with the index idx; a null entry if there is none. *)
Entry(pool, slot, idx) ==
    LET ks == {k \in DOMAIN pool : slot[k] = idx} IN
    IF ks = {} THEN [tag |-> 0] ELSE pool[CHOOSE k \in ks : TRUE]

(* A class file, with what the format says of its pool: where its constants *)
(* begin, and which indices they have.                                      *)
IsPool(c) ==
    /\ c.pool \in Seq(Constants)
    /\ c.start \in [1 .. Len(c.pool) + 1 -> Nat]
    /\ c.start[1] = 10
    /\ \A k \in DOMAIN c.pool : c.start[k + 1] = c.start[k] + JVMSize(c.pool[k])
    /\ c.slot = Slots(c.pool)
    /\ c.slot[Len(c.pool) + 1] < Limit

Indices(c) == 1 .. c.slot[Len(c.pool) + 1] - 1

Attributes(c) ==
    Seq([name : Indices(c),
         info : [calls : {<<>>}, attributes : Seq(Indices(c))]])

(* What names a constant names one of the pool, a Fieldref its NameAndType. *)
IsClass(c) ==
    /\ IsPool(c)
    /\ \A k \in DOMAIN c.pool : c.pool[k].tag = 9 =>
        LET nat == Entry(c.pool, c.slot, c.pool[k].i2) IN
        nat.tag = 12 /\ nat.i1 \in Indices(c)
    /\ c.this_class \in Indices(c)
    /\ c.methods \in Seq([name : Indices(c), desc : Indices(c),
                          attributes : Attributes(c)])
    /\ Len(c.methods) < Limit

ASSUME LimitAssumption == Limit \in Nat
ASSUME LengthAssumption == length \in [DOMAIN length -> Nat]
ASSUME ClassesAssumption == \A c \in Classes : IsClass(c)

cp_count_original == cls.slot[Len(cls.pool) + 1]

-----------------------------------------------------------------------------
(* The bytes at an offset, where no constant begins no constant. *)
Read(offset) ==
    LET ks == {k \in DOMAIN cls.pool : cls.start[k] = offset} IN
    IF ks = {} THEN [tag |-> 0] ELSE cls.pool[CHOOSE k \in ks : TRUE]

(* get_cp_string(idx) == s, for an index the class file had. *)
StringIs(idx, s) == Read(cp_offsets[idx]) = Utf8(s)

(* Mutant of Advance: a MethodHandle taken for two bytes. *)
AdvanceShortHandle(c) ==
    CASE c.tag = 1 -> 3 + length[c.str]
      [] c.tag \in {3, 4, 9, 10, 11, 12, 18} -> 5
      [] c.tag \in {5, 6} -> 9
      [] OTHER -> 3

Advance(c) ==
    CASE c.tag = 1 -> 1 + 2 + length[c.str]
      [] c.tag \in {3, 4, 9, 10, 11, 12, 18} -> 1 + 4
      [] c.tag \in {5, 6} -> 1 + 8
      [] c.tag \in {7, 8, 16} -> 1 + 2
      [] c.tag = 15 -> 1 + 3

(* Mutants of NextIndex: a long in one slot, a float in two. *)
NextIndexEach(c) == i + 1
NextIndexFloat(c) == IF c.tag \in {4, 5, 6} THEN i + 2 ELSE i + 1

NextIndex(c) == IF c.tag \in {5, 6} THEN i + 2 ELSE i + 1

Init ==
    /\ cls \in Classes
    /\ pc = "pool"
    /\ i = 1
    /\ cp_cursor = 10
    /\ cp_tags = [idx \in 0 .. cp_count_original - 1 |-> 0]
    /\ cp_offsets = [idx \in 0 .. cp_count_original - 1 |-> 0]
    /\ post_cp_offset = 0
    /\ cp_count_new = cp_count_original
    /\ new_cp_entries = <<>>
    /\ methods = <<>>
    /\ native_method_ref_idx = 0
    /\ target_method = 0
    /\ target_field_ref_idx = 0
    /\ out = [count |-> 0, pool |-> <<>>, methods |-> <<>>]

(* One turn of the loop of parse_class_file. *)
ParseConstant ==
    LET c == Read(cp_cursor) IN
    /\ pc = "pool"
    /\ i < cp_count_original
    /\ cp_offsets' = [cp_offsets EXCEPT ![i] = cp_cursor]
    /\ cp_tags' = [cp_tags EXCEPT ![i] = c.tag]
    /\ \/ /\ c.tag \in Tags \ Unsupported
          /\ cp_cursor' = cp_cursor + Advance(c)
          /\ i' = NextIndex(c)
          /\ UNCHANGED pc
       \/ /\ c.tag \notin Tags \ Unsupported
          /\ pc' = "thrown"
          /\ UNCHANGED <<cp_cursor, i>>
    /\ UNCHANGED <<cls, post_cp_offset, added, methods, found, out>>

(* The rest of the class; the code of a method is not looked at yet. *)
ParseBody ==
    /\ pc = "pool"
    /\ i >= cp_count_original
    /\ post_cp_offset' = cp_cursor
    /\ methods' = [k \in DOMAIN cls.methods |->
                    [name |-> cls.methods[k].name, desc |-> cls.methods[k].desc,
                     attributes |-> cls.methods[k].attributes,
                     has_code_parsed |-> FALSE, parsed_code |-> <<>>]]
    /\ pc' = "native"
    /\ UNCHANGED <<cls, i, cp_cursor, cp_tags, cp_offsets, added, found, out>>

(* Mutant of Added: one constant is not counted. *)
AddedAtOnce(k) == (cp_count_new + k - (k \div 4)) % Limit

(* The index of the k-th constant that is added: cp_count_new++. *)
Added(k) == (cp_count_new + k) % Limit

(* The six constants and the native method.  The two strings of the         *)
(* NameAndType are arguments of one call: the compiler picks their order.   *)
AddNativeMethod ==
    /\ pc = "native"
    /\ \E nameFirst \in BOOLEAN :
        LET name == IF nameFirst THEN 2 ELSE 3
            desc == IF nameFirst THEN 3 ELSE 2
        IN  new_cp_entries' =
                <<Utf8(native_callback_name), Utf8("(I)V")>>
                \o (IF nameFirst THEN <<Utf8(native_callback_name), Utf8("(I)V")>>
                                 ELSE <<Utf8("(I)V"), Utf8(native_callback_name)>>)
                \o <<Ref(12, Added(name), Added(desc)), Ref(10, cls.this_class, Added(4))>>
    /\ native_method_ref_idx' = Added(5)
    /\ cp_count_new' = Added(6)
    /\ methods' = Append(methods,
                    [name |-> Added(0), desc |-> Added(1), attributes |-> <<>>,
                     has_code_parsed |-> FALSE, parsed_code |-> <<>>])
    /\ pc' = "method"
    /\ UNCHANGED <<cls, parse, found, out>>

Least(S) == CHOOSE x \in S : \A y \in S : x <= y

(* Mutant of IsTarget: the descriptor is not compared. *)
IsTargetByName(m) == StringIs(m.name, method_to_hook)

IsTarget(m) == StringIs(m.name, method_to_hook) /\ StringIs(m.desc, method_desc)

(* The new native method is the last one: the search gets there only if no  *)
(* method of the class matches, and its name has no entry in cp_offsets.    *)
FindMethod ==
    LET hits == {k \in 1 .. Len(methods) - 1 : IsTarget(methods[k])} IN
    /\ pc = "method"
    /\ \/ /\ hits # {}
          /\ target_method' = Least(hits)
          /\ pc' = "field"
       \/ /\ hits = {}
          /\ pc' \in {"thrown", "crashed"}
          /\ UNCHANGED target_method
    /\ UNCHANGED <<cls, parse, added, methods, target_field_ref_idx, out>>

(* The first Fieldref of that name, of whatever class and type. *)
FindField ==
    LET hits == {idx \in 1 .. cp_count_original - 1 :
                    /\ cp_tags[idx] = 9
                    /\ StringIs(Read(cp_offsets[Read(cp_offsets[idx]).i2]).i1, field_to_get)}
    IN
    /\ pc = "field"
    /\ \/ /\ hits # {}
          /\ target_field_ref_idx' = Least(hits)
          /\ pc' = "code"
       \/ /\ hits = {}
          /\ pc' = "thrown"
          /\ UNCHANGED target_field_ref_idx
    /\ UNCHANGED <<cls, parse, added, methods, target_method, out>>

(* The entries of s at the positions ks, in their order. *)
Kept(s, ks) ==
    [j \in 1 .. Cardinality(ks) |->
        s[CHOOSE k \in ks : Cardinality({l \in ks : l <= k}) = j]]

(* get_code_attribute, the insertion, and StackMapTable removed. *)
EditCode ==
    LET m == methods[target_method]
        codes == {k \in DOMAIN m.attributes : StringIs(m.attributes[k].name, "Code")}
        code == m.attributes[Least(codes)].info
        kept == {k \in DOMAIN code.attributes :
                    ~ StringIs(code.attributes[k], "StackMapTable")}
    IN
    /\ pc = "code"
    /\ \/ /\ codes # {}
          /\ methods' = [methods EXCEPT ![target_method].has_code_parsed = TRUE,
                            ![target_method].parsed_code =
                                [calls |-> <<target_field_ref_idx, native_method_ref_idx>>,
                                 attributes |-> Kept(code.attributes, kept)]]
          /\ pc' = "write"
       \/ /\ codes = {}
          /\ pc' = "thrown"
          /\ UNCHANGED methods
    /\ UNCHANGED <<cls, parse, added, found, out>>

(* get_attribute_name_idx: the first Utf8 "Code" of the class. There is one, *)
(* since the method edited has a Code attribute of that name: the add_utf8   *)
(* behind the loop is not reached.                                           *)
CodeName == Least({idx \in 1 .. cp_count_original - 1 :
                    cp_tags[idx] = 1 /\ StringIs(idx, "Code")})

(* Mutant of WrittenMethod: the old Code attribute stays. *)
WrittenMethodTwice(m) ==
    [name |-> m.name, desc |-> m.desc,
     attributes |-> IF m.has_code_parsed
                    THEN Append(m.attributes, [name |-> CodeName, info |-> m.parsed_code])
                    ELSE m.attributes]

(* write_member: of an edited method, Code is written anew, behind the rest. *)
WrittenMethod(m) ==
    LET others == {k \in DOMAIN m.attributes : ~ StringIs(m.attributes[k].name, "Code")} IN
    [name |-> m.name, desc |-> m.desc,
     attributes |-> IF m.has_code_parsed
                    THEN Append(Kept(m.attributes, others),
                                [name |-> CodeName, info |-> m.parsed_code])
                    ELSE m.attributes]

(* Mutant of KeptPool: the last constant is cut off. *)
KeptPoolCut(upto) == Front(cls.pool)

(* The bytes from 10 to upto. *)
KeptPool(upto) ==
    LET before == {k \in DOMAIN cls.pool : cls.start[k] < upto} IN
    SubSeq(cls.pool, 1, Cardinality(before))

WriteClass ==
    /\ pc = "write"
    /\ \/ /\ Len(methods) < Limit
          /\ out' = [count   |-> cp_count_new,
                     pool    |-> KeptPool(post_cp_offset) \o new_cp_entries,
                     methods |-> [k \in DOMAIN methods |-> WrittenMethod(methods[k])]]
          /\ pc' = "done"
       \/ /\ Len(methods) >= Limit
          /\ pc' = "thrown"
          /\ UNCHANGED out
    /\ UNCHANGED <<cls, parse, added, methods, found>>

Next ==
    \/ ParseConstant \/ ParseBody \/ AddNativeMethod \/ FindMethod \/ FindField
    \/ EditCode \/ WriteClass

Spec == Init /\ [][Next]_vars /\ WF_vars(Next)

-----------------------------------------------------------------------------
(* Everything that names a constant of the class file names one of them. *)
TypeOK ==
    /\ IsClass(cls)
    /\ pc \in {"pool", "native", "method", "field", "code", "write"} \cup Ends
    /\ i \in 1 .. cp_count_original
    /\ cp_cursor \in Range(cls.start)
    /\ cp_tags \in [0 .. cp_count_original - 1 -> 0 .. 20]
    /\ cp_offsets \in [0 .. cp_count_original - 1 -> Nat]
    /\ cp_count_new \in 0 .. Limit - 1
    /\ target_field_ref_idx \in 0 .. cp_count_original - 1
    /\ target_method \in 0 .. Len(cls.methods)

(* The walk (instrumenter.cpp:195-220) finds every constant where the JVM   *)
(* finds it: an index, an offset or the end of the pool taken wrongly would *)
(* only show in classes with a long or a method handle at the wrong place.  *)
ParsedAsJVMReads ==
    pc \notin {"pool", "thrown", "crashed"} =>
        /\ \A idx \in DOMAIN cp_tags :
            /\ cp_tags[idx] = Entry(cls.pool, cls.slot, idx).tag
            /\ cp_tags[idx] # 0 => Read(cp_offsets[idx]) = Entry(cls.pool, cls.slot, idx)
        /\ post_cp_offset = cls.start[Len(cls.pool) + 1]

(* What the class can be edited for, by the JVM's reading of it. *)
Constant(idx) == Entry(cls.pool, cls.slot, idx)
Names(idx, s) == Constant(idx) = Utf8(s)

Targets == {k \in DOMAIN cls.methods :
                /\ Names(cls.methods[k].name, method_to_hook)
                /\ Names(cls.methods[k].desc, method_desc)}

Codes(m) == {k \in DOMAIN m.attributes : Names(m.attributes[k].name, "Code")}

IsFieldref(constant(_), idx, s) ==
    LET field == constant(idx) IN
    field.tag = 9 /\ constant(constant(field.i2).i1) = Utf8(s)

Instrumentable ==
    /\ \A k \in DOMAIN cls.pool : cls.pool[k].tag \notin Unsupported
    /\ Targets # {}
    /\ Codes(cls.methods[Least(Targets)]) # {}
    /\ \E idx \in 1 .. cp_count_original - 1 : IsFieldref(Constant, idx, field_to_get)
    /\ Len(cls.methods) + 1 < Limit

(* No guard keeps the count from wrapping (instrumenter.cpp:388). *)
CountFits == cp_count_original + 6 < Limit

(* A class is written only if every part of it was found, the exceptions    *)
(* (instrumenter.cpp:36, 53, 168, 217, 371) are for the others, and the     *)
(* read outside cp_offsets (instrumenter.cpp:32, 356) needs a class without *)
(* the method.                                                              *)
WrittenIfInstrumentable ==
    /\ pc = "done" => Instrumentable
    /\ pc = "thrown" => ~ Instrumentable
    /\ pc = "crashed" => Targets = {}

(* Every class that can be edited is: the call comes to its end.            *)
InstrumentableIsWritten == Instrumentable => <>(pc = "done")

(* In the class the JVM gets, the constants it had keep their index, and    *)
(* the count is that of the pool (instrumenter.cpp:141-147, 384-409).       *)
ConstantsStay ==
    pc = "done" /\ CountFits =>
        LET slot == Slots(out.pool) IN
        /\ out.count = slot[Len(out.pool) + 1]
        /\ \A idx \in 1 .. cp_count_original - 1 :
            Entry(out.pool, slot, idx) = Entry(cls.pool, cls.slot, idx)

(* The JVM finds a native callback (I)V of this class in the new method and *)
(* in the invokestatic, and the field in the getfield, whatever the order   *)
(* the compiler evaluates arguments in (instrumenter.cpp:12-25, 57-64, 411).*)
NativeMethodResolves ==
    pc = "done" /\ CountFits =>
        LET slot == Slots(out.pool)
            constant(idx) == Entry(out.pool, slot, idx)
            native == Last(out.methods)
            calls == Last(out.methods[Least(Targets)].attributes).info.calls
            called == constant(calls[2])
            nat == constant(called.i2)
        IN
        /\ constant(native.name) = Utf8(native_callback_name)
        /\ constant(native.desc) = Utf8("(I)V")
        /\ IsFieldref(constant, calls[1], field_to_get)
        /\ called.tag = 10 /\ called.i1 = cls.this_class
        /\ nat.tag = 12
        /\ constant(nat.i1) = Utf8(native_callback_name) /\ constant(nat.i2) = Utf8("(I)V")

(* Of the methods, only the first with that name and descriptor changes: it *)
(* has one Code attribute, without a StackMapTable, and its other ones      *)
(* (instrumenter.cpp:31-36, 109-122, 308-345).                              *)
OnlyTheTargetChanges ==
    pc = "done" =>
        /\ Len(out.methods) = Len(cls.methods) + 1
        /\ \A k \in DOMAIN cls.methods :
            LET old == cls.methods[k]
                new == out.methods[k]
                others(m) == DOMAIN m.attributes \ Codes(m)
            IN
            IF k # Least(Targets) THEN new = old
            ELSE /\ new.name = old.name /\ new.desc = old.desc
                 /\ Kept(new.attributes, others(new)) = Kept(old.attributes, others(old))
                 /\ \E code \in DOMAIN new.attributes :
                        /\ Codes(new) = {code}
                        /\ \A a \in Range(new.attributes[code].info.attributes) :
                                ~ Names(a, "StackMapTable")
=============================================================================
