----------------------- MODULE ClassInstrumenter_proofs -----------------------
(***************************************************************************)
(* For every class file, every hook and every width of the counts: the walk *)
(* reads the constant pool as the JVM does, only a class that can be edited *)
(* is written, and what is written is that class with the one edit.         *)
(***************************************************************************)
EXTENDS ClassInstrumenter, FiniteSetTheorems, SequenceTheorems, WellFoundedInduction,
        TLAPS

-----------------------------------------------------------------------------
(* The least of some indices. *)
LEMMA LeastOf ==
    ASSUME NEW S, S \subseteq Nat, S # {}
    PROVE  Least(S) \in S /\ \A y \in S : Least(S) <= y
<1> DEFINE R == OpToRel(<, Nat)
<1>1. IsWellFoundedOn(R, Nat)
  BY NatLessThanWellFounded
<1>2. PICK x \in S : \A y \in S : ~ (<<y, x>> \in R)
  <2> HIDE DEF R
  <2> QED
    BY <1>1, WFMin
<1>3. ASSUME NEW y \in S PROVE x <= y
  <2>1. ~ (y < x)
    BY <1>2 DEF OpToRel
  <2> QED
    BY <2>1
<1>4. \E z \in S : \A y \in S : z <= y
  BY <1>3
<1> QED
  BY <1>4 DEF Least

(* What grows at every step grows. *)
LEMMA Increasing ==
    ASSUME NEW n \in Nat, NEW f,
           \A k \in 1 .. n + 1 : f[k] \in Nat,
           \A k \in 1 .. n : f[k] < f[k + 1],
           NEW k \in 1 .. n + 1, NEW l \in 1 .. n + 1, k < l
    PROVE  f[k] < f[l]
<1> DEFINE S == {x \in 1 .. n + 1 : k < x /\ ~ (f[k] < f[x])}
<1>1. SUFFICES ASSUME S # {} PROVE FALSE
  OBVIOUS
<1>2. PICK x \in S : \A y \in S : x <= y
  <2>1. S \subseteq Nat
    OBVIOUS
  <2> HIDE DEF S
  <2> QED
    BY <1>1, <2>1, LeastOf
<1>3. x - 1 \in 1 .. n /\ k <= x - 1 /\ (x - 1) + 1 = x
  BY <1>2
<1>4. x - 1 = k \/ f[k] < f[x - 1]
  BY <1>2, <1>3
<1>5. f[x - 1] < f[x] /\ f[x] \in Nat /\ f[x - 1] \in Nat /\ f[k] \in Nat
  BY <1>3
<1> QED
  BY <1>2, <1>4, <1>5

LEMMA SlotsOf == ASSUME NEW c PROVE JVMSlots(c) \in {1, 2}
  BY DEF JVMSlots

(* The indices of a pool, one constant after the other. *)
LongsBefore(pool, k) == {j \in 1 .. k - 1 : JVMSlots(pool[j]) = 2}

LEMMA LongsBeforeFinite ==
    ASSUME NEW pool, NEW k \in Nat
    PROVE  IsFiniteSet(LongsBefore(pool, k)) /\ Cardinality(LongsBefore(pool, k)) \in Nat
<1>1. IsFiniteSet(1 .. k - 1)
  BY FS_Interval
<1>2. IsFiniteSet(LongsBefore(pool, k))
  BY <1>1, FS_Subset DEF LongsBefore
<1> QED
  BY <1>2, FS_CardinalityType

LEMMA SlotsAt ==
    ASSUME NEW pool, Len(pool) \in Nat, NEW k \in 1 .. Len(pool) + 1
    PROVE  /\ Slots(pool)[k] \in Nat
           /\ Slots(pool)[k] = k + Cardinality(LongsBefore(pool, k))
<1> DEFINE longs == Cardinality(LongsBefore(pool, k))
<1>1. Slots(pool)[k] = k + longs
  BY DEF Slots, LongsBefore
<1>2. k \in Nat /\ longs \in Nat
  BY LongsBeforeFinite
<1> HIDE DEF longs
<1>3. k + longs \in Nat
  BY <1>2
<1> QED
  BY <1>1, <1>3 DEF longs

LEMMA SlotsStep ==
    ASSUME NEW pool, Len(pool) \in Nat
    PROVE  /\ Slots(pool)[1] = 1
           /\ \A k \in 1 .. Len(pool) :
                Slots(pool)[k + 1] = Slots(pool)[k] + JVMSlots(pool[k])
<1>1. ASSUME NEW k \in 1 .. Len(pool)
      PROVE  Slots(pool)[k + 1] = Slots(pool)[k] + JVMSlots(pool[k])
  <2> DEFINE old == LongsBefore(pool, k)
             new == LongsBefore(pool, k + 1)
             m == Cardinality(old)
  <2>1. k \in Nat /\ k \in 1 .. Len(pool) + 1 /\ k + 1 \in 1 .. Len(pool) + 1
    OBVIOUS
  <2>2. Slots(pool)[k] = k + m /\ Slots(pool)[k + 1] = k + 1 + Cardinality(new)
    BY <2>1, SlotsAt
  <2>3. IsFiniteSet(old) /\ m \in Nat
    BY <2>1, LongsBeforeFinite
  <2>4. CASE JVMSlots(pool[k]) = 2
    <3>1. new = old \cup {k} /\ k \notin old
      BY <2>1, <2>4 DEF LongsBefore
    <3>2. Cardinality(new) = m + 1
      <4> HIDE DEF old, new
      <4> QED
        BY <2>3, <3>1, FS_AddElement DEF m
    <3> HIDE DEF old, new, m
    <3> QED
      BY <2>1, <2>2, <2>3, <2>4, <3>2
  <2>5. CASE JVMSlots(pool[k]) = 1
    <3>1. new = old
      BY <2>1, <2>5 DEF LongsBefore
    <3>2. Cardinality(new) = m
      BY <3>1
    <3> HIDE DEF old, new, m
    <3> QED
      BY <2>1, <2>2, <2>3, <2>5, <3>2
  <2> QED
    BY <2>4, <2>5, SlotsOf
<1>2. Slots(pool)[1] = 1
  <2>1. Slots(pool)[1] = 1 + Cardinality(LongsBefore(pool, 1))
    BY SlotsAt
  <2>2. LongsBefore(pool, 1) = {}
    BY DEF LongsBefore
  <2> QED
    BY <2>1, <2>2, FS_EmptySet
<1> QED
  BY <1>1, <1>2

(* A constant has a tag of the format and at least one byte. *)
LEMMA ConstantFacts ==
    ASSUME NEW c \in Constants
    PROVE  c.tag \in Tags /\ JVMSize(c) \in Nat /\ 0 < JVMSize(c)
<1>1. c.tag \in Tags
  BY DEF Constants, Tags
<1>2. CASE c.tag = 1
  <2>1. length[c.str] \in Nat
    BY <1>2, LengthAssumption DEF Constants, Tags
  <2> QED
    BY <1>1, <1>2, <2>1 DEF JVMSize
<1>3. CASE c.tag # 1
  BY <1>1, <1>3 DEF JVMSize
<1> QED
  BY <1>1, <1>2, <1>3

(* A pool whose constants follow each other, in bytes and in indices. *)
IsLaidOut(c) ==
    /\ Len(c.pool) \in Nat /\ DOMAIN c.pool = 1 .. Len(c.pool)
    /\ c.slot[1] = 1 /\ c.start[1] = 10
    /\ \A k \in 1 .. Len(c.pool) + 1 : c.slot[k] \in Nat /\ c.start[k] \in Nat
    /\ \A k \in 1 .. Len(c.pool) :
        /\ c.pool[k].tag \in Tags
        /\ c.start[k + 1] = c.start[k] + JVMSize(c.pool[k])
        /\ c.slot[k + 1] = c.slot[k] + JVMSlots(c.pool[k])
    /\ \A k, l \in 1 .. Len(c.pool) + 1 :
        k < l => c.slot[k] < c.slot[l] /\ c.start[k] < c.start[l]
    /\ c.slot[Len(c.pool) + 1] < Limit

LEMMA LaidOut == ASSUME NEW c \in Classes PROVE IsLaidOut(c)
<1> DEFINE n == Len(c.pool)
<1>1. IsPool(c)
  BY ClassesAssumption DEF IsClass
<1>2. c.pool \in Seq(Constants) /\ n \in Nat /\ DOMAIN c.pool = 1 .. n
  BY <1>1 DEF IsPool
<1>3. c.slot = Slots(c.pool)
  BY <1>1 DEF IsPool
<1>4. /\ c.slot[1] = 1
      /\ \A k \in 1 .. n + 1 : c.slot[k] \in Nat
      /\ \A k \in 1 .. n : c.slot[k + 1] = c.slot[k] + JVMSlots(c.pool[k])
  BY <1>2, <1>3, SlotsAt, SlotsStep
<1>5. /\ c.start[1] = 10
      /\ \A k \in 1 .. n + 1 : c.start[k] \in Nat
      /\ \A k \in 1 .. n : c.start[k + 1] = c.start[k] + JVMSize(c.pool[k])
  BY <1>1, <1>2 DEF IsPool
<1>6. \A k \in 1 .. n : /\ c.pool[k] \in Constants
                        /\ c.pool[k].tag \in Tags
                        /\ JVMSize(c.pool[k]) \in Nat /\ 0 < JVMSize(c.pool[k])
  BY <1>2, ConstantFacts
<1>7. ASSUME NEW k \in 1 .. n
      PROVE  c.slot[k] < c.slot[k + 1] /\ c.start[k] < c.start[k + 1]
  <2>1. k \in 1 .. n + 1
    BY <1>2
  <2>2. JVMSlots(c.pool[k]) \in {1, 2}
    BY SlotsOf
  <2>3. c.slot[k] \in Nat /\ c.slot[k + 1] = c.slot[k] + JVMSlots(c.pool[k])
    BY <1>4, <2>1
  <2>4. /\ c.start[k] \in Nat /\ c.start[k + 1] = c.start[k] + JVMSize(c.pool[k])
        /\ JVMSize(c.pool[k]) \in Nat /\ 0 < JVMSize(c.pool[k])
    BY <1>5, <1>6, <2>1
  <2>5. c.slot[k] < c.slot[k + 1]
    BY <2>2, <2>3
  <2>6. c.start[k] < c.start[k + 1]
    BY <2>4
  <2> QED
    BY <2>5, <2>6
<1>8. ASSUME NEW k \in 1 .. n + 1, NEW l \in 1 .. n + 1, k < l
      PROVE  c.slot[k] < c.slot[l] /\ c.start[k] < c.start[l]
  <2> HIDE DEF n
  <2>1. c.slot[k] < c.slot[l]
    BY <1>2, <1>4, <1>7, <1>8, Increasing
  <2>2. c.start[k] < c.start[l]
    BY <1>2, <1>5, <1>7, <1>8, Increasing
  <2> QED
    BY <2>1, <2>2
<1>9. c.slot[n + 1] < Limit
  BY <1>1 DEF IsPool
<1> QED
  BY <1>2, <1>4, <1>5, <1>6, <1>8, <1>9 DEF IsLaidOut

(* No constant, as Entry and Read give it. *)
Null == [tag |-> 0]

LEMMA EntryAt ==
    ASSUME NEW c \in Classes, NEW k \in 1 .. Len(c.pool)
    PROVE  Entry(c.pool, c.slot, c.slot[k]) = c.pool[k]
<1>1. IsLaidOut(c)
  BY LaidOut
<1>2. ASSUME NEW l \in 1 .. Len(c.pool), c.slot[l] = c.slot[k] PROVE l = k
  <2>1. /\ l \in 1 .. Len(c.pool) + 1 /\ k \in 1 .. Len(c.pool) + 1
        /\ c.slot[l] \in Nat /\ c.slot[k] \in Nat
    BY <1>1 DEF IsLaidOut
  <2>2. ~ (l < k) /\ ~ (k < l)
    BY <1>1, <1>2, <2>1 DEF IsLaidOut
  <2> QED
    BY <2>1, <2>2
<1>3. {l \in DOMAIN c.pool : c.slot[l] = c.slot[k]} = {k}
  BY <1>1, <1>2 DEF IsLaidOut
<1> QED
  BY <1>3 DEF Entry

LEMMA EntryElsewhere ==
    ASSUME NEW c \in Classes, NEW idx, \A k \in 1 .. Len(c.pool) : c.slot[k] # idx
    PROVE  Entry(c.pool, c.slot, idx) = Null
<1>1. IsLaidOut(c)
  BY LaidOut
<1>2. {l \in DOMAIN c.pool : c.slot[l] = idx} = {}
  BY <1>1 DEF IsLaidOut
<1> QED
  BY <1>2 DEF Entry, Null

(* What is read where a constant begins is that constant. *)
LEMMA ReadAt ==
    ASSUME cls \in Classes
    PROVE  /\ \A k \in 1 .. Len(cls.pool) : Read(cls.start[k]) = cls.pool[k]
           /\ Read(0) = Null
<1>1. IsLaidOut(cls)
  BY LaidOut
<1>2. ASSUME NEW k \in 1 .. Len(cls.pool) PROVE Read(cls.start[k]) = cls.pool[k]
  <2>1. ASSUME NEW l \in 1 .. Len(cls.pool), cls.start[l] = cls.start[k] PROVE l = k
    <3>1. /\ l \in 1 .. Len(cls.pool) + 1 /\ k \in 1 .. Len(cls.pool) + 1
          /\ cls.start[l] \in Nat /\ cls.start[k] \in Nat
      BY <1>1 DEF IsLaidOut
    <3>2. ~ (l < k) /\ ~ (k < l)
      BY <1>1, <2>1, <3>1 DEF IsLaidOut
    <3> QED
      BY <3>1, <3>2
  <2>2. {l \in DOMAIN cls.pool : cls.start[l] = cls.start[k]} = {k}
    BY <1>1, <2>1 DEF IsLaidOut
  <2> QED
    BY <2>2 DEF Read
<1>3. Read(0) = Null
  <2>1. ASSUME NEW l \in 1 .. Len(cls.pool) PROVE cls.start[l] # 0
    <3>1. l = 1 \/ 1 < l
      BY <1>1 DEF IsLaidOut
    <3>2. 1 \in 1 .. Len(cls.pool) + 1 /\ l \in 1 .. Len(cls.pool) + 1
      BY <1>1 DEF IsLaidOut
    <3> QED
      BY <1>1, <3>1, <3>2 DEF IsLaidOut
  <2>2. {l \in DOMAIN cls.pool : cls.start[l] = 0} = {}
    BY <1>1, <2>1 DEF IsLaidOut
  <2> QED
    BY <2>2 DEF Read, Null
<1> QED
  BY <1>2, <1>3

-----------------------------------------------------------------------------
(* The walk: the constants before the n-th are in cp_offsets and cp_tags,   *)
(* and nothing else is.                                                     *)
Parsed(n) ==
    /\ \A k \in 1 .. n - 1 :
        /\ cp_offsets[cls.slot[k]] = cls.start[k]
        /\ cp_tags[cls.slot[k]] = cls.pool[k].tag
        /\ cls.pool[k].tag \notin Unsupported
    /\ \A idx \in 0 .. cp_count_original - 1 :
        (\A k \in 1 .. n - 1 : cls.slot[k] # idx) =>
            cp_offsets[idx] = 0 /\ cp_tags[idx] = 0

AtConstant(n) == i = cls.slot[n] /\ cp_cursor = cls.start[n]

Walk ==
    \E n \in 1 .. Len(cls.pool) + 1 :
        /\ AtConstant(n)
        /\ pc = "pool" => Parsed(n)

(* What the walk has found of an index is what the JVM finds of it. *)
ReadsAsJVM ==
    \A idx \in 0 .. cp_count_original - 1 :
        /\ Read(cp_offsets[idx]) = Constant(idx)
        /\ cp_tags[idx] = Constant(idx).tag

Failed == {"thrown", "crashed"}

PoolRead ==
    pc \notin {"pool"} \cup Failed =>
        /\ ReadsAsJVM
        /\ post_cp_offset = cls.start[Len(cls.pool) + 1]
        /\ \A k \in DOMAIN cls.pool : cls.pool[k].tag \notin Unsupported

(* The methods, as they are parsed, added to and edited. *)
Blank(k) ==
    [name |-> cls.methods[k].name, desc |-> cls.methods[k].desc,
     attributes |-> cls.methods[k].attributes,
     has_code_parsed |-> FALSE, parsed_code |-> <<>>]

Blanks == [k \in DOMAIN cls.methods |-> Blank(k)]

(* The index of the k-th constant added, from the count of the class file. *)
New(k) == (cp_count_original + k) % Limit

NativeMethod ==
    [name |-> New(0), desc |-> New(1), attributes |-> <<>>,
     has_code_parsed |-> FALSE, parsed_code |-> <<>>]

(* The entries added, the strings of the NameAndType in the order first,    *)
(* second.                                                                  *)
NewEntries(nameFirst) ==
    LET callback == Utf8(native_callback_name)
        type == Utf8("(I)V")
    IN  <<callback, type,
          IF nameFirst THEN callback ELSE type,
          IF nameFirst THEN type ELSE callback,
          Ref(12, New(IF nameFirst THEN 2 ELSE 3), New(IF nameFirst THEN 3 ELSE 2)),
          Ref(10, cls.this_class, New(4))>>

ConstantsAdded ==
    /\ pc \in {"pool", "native"} => cp_count_new = cp_count_original
    /\ pc \in {"method", "field", "code", "write", "done"} =>
        /\ cp_count_new = New(6)
        /\ native_method_ref_idx = New(5)
        /\ \E nameFirst \in BOOLEAN : new_cp_entries = NewEntries(nameFirst)

Located ==
    /\ pc \in {"field", "code", "write", "done"} =>
        Targets # {} /\ target_method = Least(Targets)
    /\ pc \in {"code", "write", "done"} =>
        /\ target_field_ref_idx \in 1 .. cp_count_original - 1
        /\ IsFieldref(Constant, target_field_ref_idx, field_to_get)
    /\ pc \in {"write", "done"} => Codes(cls.methods[target_method]) # {}
    /\ pc = "crashed" => Targets = {}

(* The Code attribute of the method as it is edited. *)
EditedCode ==
    LET m == cls.methods[target_method]
        inner == m.attributes[Least(Codes(m))].info.attributes
    IN  [calls |-> <<target_field_ref_idx, native_method_ref_idx>>,
         attributes |-> Kept(inner, {k \in DOMAIN inner : ~ Names(inner[k], "StackMapTable")})]

Edited ==
    [Blank(target_method) EXCEPT !.has_code_parsed = TRUE, !.parsed_code = EditedCode]

MethodsKept ==
    /\ pc = "native" => methods = Blanks
    /\ pc \in {"method", "field", "code"} => methods = Append(Blanks, NativeMethod)
    /\ pc \in {"write", "done"} =>
        methods = [Append(Blanks, NativeMethod) EXCEPT ![target_method] = Edited]

Written ==
    pc = "done" =>
        /\ Len(methods) < Limit
        /\ out = [count |-> cp_count_new, pool |-> cls.pool \o new_cp_entries,
                  methods |-> [k \in DOMAIN methods |-> WrittenMethod(methods[k])]]

Typed ==
    /\ cls \in Classes
    /\ pc \in {"pool", "native", "method", "field", "code", "write"} \cup Ends
    /\ cp_tags \in [0 .. cp_count_original - 1 -> 0 .. 20]
    /\ cp_offsets \in [0 .. cp_count_original - 1 -> Nat]
    /\ cp_count_new \in 0 .. Limit - 1
    /\ target_field_ref_idx \in 0 .. cp_count_original - 1
    /\ target_method \in 0 .. Len(cls.methods)

IInv ==
    /\ Typed /\ Walk /\ PoolRead /\ ConstantsAdded /\ Located /\ MethodsKept /\ Written

-----------------------------------------------------------------------------
(* An index of the pool names the constant it is the slot of. *)
LEMMA ConstantAt ==
    ASSUME cls \in Classes
    PROVE  /\ \A k \in 1 .. Len(cls.pool) : Constant(cls.slot[k]) = cls.pool[k]
           /\ \A idx : Constant(idx) = Null
                \/ \E k \in 1 .. Len(cls.pool) :
                    idx = cls.slot[k] /\ Constant(idx) = cls.pool[k]
<1>1. ASSUME NEW k \in 1 .. Len(cls.pool) PROVE Constant(cls.slot[k]) = cls.pool[k]
  BY EntryAt DEF Constant
<1>2. ASSUME NEW idx, \A k \in 1 .. Len(cls.pool) : cls.slot[k] # idx
      PROVE  Constant(idx) = Null
  BY <1>2, EntryElsewhere DEF Constant
<1> QED
  BY <1>1, <1>2

(* The slots of the constants are indices, and before the count. *)
LEMMA SlotInRange ==
    ASSUME cls \in Classes, NEW k \in 1 .. Len(cls.pool)
    PROVE  /\ cls.slot[k] \in 1 .. cp_count_original - 1
           /\ cls.start[k] \in Nat /\ 0 < cls.start[k]
<1>1. IsLaidOut(cls)
  BY LaidOut
<1> DEFINE n == Len(cls.pool)
<1>2. n \in Nat /\ k \in 1 .. n + 1 /\ 1 \in 1 .. n + 1 /\ n + 1 \in 1 .. n + 1 /\ k < n + 1
  BY <1>1 DEF IsLaidOut
<1>3. /\ cls.slot[k] \in Nat /\ cls.start[k] \in Nat /\ cls.slot[n + 1] \in Nat
      /\ cls.slot[1] = 1 /\ cls.start[1] = 10
      /\ cls.slot[k] < cls.slot[n + 1]
      /\ k = 1 \/ (cls.slot[1] < cls.slot[k] /\ cls.start[1] < cls.start[k])
  <2>1. k = 1 \/ 1 < k
    BY <1>2
  <2> QED
    BY <1>1, <1>2, <2>1 DEF IsLaidOut
<1> QED
  BY <1>3 DEF cp_count_original

LEMMA CountType ==
    ASSUME cls \in Classes
    PROVE  cp_count_original \in Nat /\ 1 <= cp_count_original /\ cp_count_original < Limit
<1>1. IsLaidOut(cls)
  BY LaidOut
<1> DEFINE n == Len(cls.pool)
<1>2. n \in Nat /\ 1 \in 1 .. n + 1 /\ n + 1 \in 1 .. n + 1 /\ (n = 0 \/ 1 < n + 1)
  BY <1>1 DEF IsLaidOut
<1>3. /\ cls.slot[1] = 1 /\ cls.slot[n + 1] \in Nat /\ cls.slot[n + 1] < Limit
      /\ n = 0 \/ cls.slot[1] < cls.slot[n + 1]
  BY <1>1, <1>2 DEF IsLaidOut
<1>4. 1 <= cls.slot[n + 1]
  BY <1>2, <1>3
<1> QED
  BY <1>3, <1>4 DEF cp_count_original

(* When the walk is through, every index reads as the JVM reads it. *)
LEMMA ParsedReads ==
    ASSUME cls \in Classes, Parsed(Len(cls.pool) + 1)
    PROVE  ReadsAsJVM /\ \A k \in DOMAIN cls.pool : cls.pool[k].tag \notin Unsupported
<1>1. IsLaidOut(cls)
  BY LaidOut
<1> DEFINE n == Len(cls.pool)
<1>2. n \in Nat /\ (n + 1) - 1 = n /\ DOMAIN cls.pool = 1 .. n
  BY <1>1 DEF IsLaidOut
<1>3. /\ \A k \in 1 .. n : /\ cp_offsets[cls.slot[k]] = cls.start[k]
                           /\ cp_tags[cls.slot[k]] = cls.pool[k].tag
                           /\ cls.pool[k].tag \notin Unsupported
      /\ \A idx \in 0 .. cp_count_original - 1 :
            (\A k \in 1 .. n : cls.slot[k] # idx) => cp_offsets[idx] = 0 /\ cp_tags[idx] = 0
  BY <1>2 DEF Parsed
<1>4. ASSUME NEW idx \in 0 .. cp_count_original - 1
      PROVE  Read(cp_offsets[idx]) = Constant(idx) /\ cp_tags[idx] = Constant(idx).tag
  <2>1. CASE \E k \in 1 .. n : cls.slot[k] = idx
    BY <1>3, <2>1, ConstantAt, ReadAt
  <2>2. CASE \A k \in 1 .. n : cls.slot[k] # idx
    <3>1. Constant(idx) = Null
      BY <2>2, ConstantAt
    <3>2. cp_offsets[idx] = 0 /\ cp_tags[idx] = 0
      BY <1>3, <2>2
    <3> QED
      BY <3>1, <3>2, ReadAt DEF Null
  <2> QED
    BY <2>1, <2>2
<1> QED
  BY <1>2, <1>3, <1>4 DEF ReadsAsJVM

(* The step over a constant of a supported tag is its size. *)
LEMMA AdvanceIsSize ==
    ASSUME NEW c, c.tag \in Tags \ Unsupported
    PROVE  Advance(c) = JVMSize(c)
<1>1. c.tag \in {1, 3, 4, 5, 6, 7, 8, 9, 10, 11, 12, 15, 16, 18}
  BY DEF Tags, Unsupported
<1>2. CASE c.tag = 1
  BY <1>2 DEF Advance, JVMSize
<1>3. CASE c.tag \in {3, 4, 9, 10, 11, 12, 18}
  BY <1>3 DEF Advance, JVMSize
<1>4. CASE c.tag \in {5, 6}
  BY <1>4 DEF Advance, JVMSize
<1>5. CASE c.tag \in {7, 8, 16}
  BY <1>5 DEF Advance, JVMSize
<1>6. CASE c.tag = 15
  BY <1>6 DEF Advance, JVMSize
<1> QED
  BY <1>1, <1>2, <1>3, <1>4, <1>5, <1>6

(* Before the count the walk is at a constant. *)
LEMMA WalkIsAtConstant ==
    ASSUME cls \in Classes, NEW n \in 1 .. Len(cls.pool) + 1, AtConstant(n)
    PROVE  /\ i \in 1 .. cp_count_original
           /\ i < cp_count_original => n \in 1 .. Len(cls.pool)
           /\ i >= cp_count_original => n = Len(cls.pool) + 1
<1>1. IsLaidOut(cls)
  BY LaidOut
<1>2. Len(cls.pool) \in Nat
  BY <1>1 DEF IsLaidOut
<1>3. n \in 1 .. Len(cls.pool) \/ n = Len(cls.pool) + 1
  BY <1>2
<1>4. CASE n \in 1 .. Len(cls.pool)
  BY <1>4, SlotInRange, CountType DEF AtConstant
<1>5. CASE n = Len(cls.pool) + 1
  BY <1>5, CountType DEF AtConstant, cp_count_original
<1> QED
  BY <1>3, <1>4, <1>5

-----------------------------------------------------------------------------
LEMMA InitIInv == Init => IInv
<1> SUFFICES ASSUME Init PROVE IInv
  OBVIOUS
<1>1. cls \in Classes /\ IsLaidOut(cls)
  BY LaidOut DEF Init
<1>2. cp_count_original \in Nat /\ 1 <= cp_count_original /\ cp_count_original < Limit
  BY <1>1, CountType
<1>3. Typed
  <2>1. Len(cls.methods) \in Nat
    BY <1>1, ClassesAssumption DEF IsClass
  <2> QED
    BY <1>1, <1>2, <2>1, LimitAssumption DEF Typed, Init
<1>4. Walk
  <2>1. 1 \in 1 .. Len(cls.pool) + 1
    BY <1>1 DEF IsLaidOut
  <2>2. AtConstant(1)
    BY <1>1 DEF Init, AtConstant, IsLaidOut
  <2>3. Parsed(1)
    BY DEF Init, Parsed
  <2> QED
    BY <2>1, <2>2, <2>3 DEF Walk
<1>5. PoolRead /\ ConstantsAdded /\ Located /\ MethodsKept /\ Written
  BY DEF Init, PoolRead, ConstantsAdded, Located, MethodsKept, Written, Failed
<1> QED
  BY <1>1, <1>3, <1>4, <1>5 DEF IInv

-----------------------------------------------------------------------------
(* The class stays, and with it all that is said of it. *)
LEMMA ClassStays == [Next]_vars => cls' = cls
  BY DEF Next, vars, ParseConstant, ParseBody, AddNativeMethod, FindMethod, FindField,
         EditCode, WriteClass

LEMMA Fixed ==
    ASSUME cls' = cls
    PROVE  /\ cp_count_original' = cp_count_original
           /\ \A idx : Constant(idx)' = Constant(idx)
           /\ \A offset : Read(offset)' = Read(offset)
           /\ Targets' = Targets
           /\ Blanks' = Blanks
           /\ \A k : New(k)' = New(k)
           /\ NativeMethod' = NativeMethod
           /\ \A first : NewEntries(first)' = NewEntries(first)
<1>1. cp_count_original' = cp_count_original
  BY DEF cp_count_original
<1>2. \A idx : Constant(idx)' = Constant(idx)
  BY DEF Constant
<1>3. \A offset : Read(offset)' = Read(offset)
  BY DEF Read
<1>4. Targets' = Targets
  BY DEF Targets, Names, Constant
<1>5. Blanks' = Blanks
  BY DEF Blanks, Blank
<1>6. \A k : New(k)' = New(k)
  BY <1>1 DEF New
<1>7. NativeMethod' = NativeMethod
  BY <1>6 DEF NativeMethod
<1>8. \A first : NewEntries(first)' = NewEntries(first)
  BY <1>6 DEF NewEntries
<1> QED
  BY <1>1, <1>2, <1>3, <1>4, <1>5, <1>6, <1>7, <1>8

LEMMA CodesFixed == ASSUME cls' = cls, NEW m PROVE Codes(m)' = Codes(m)
  BY Fixed DEF Codes, Names

(* What a step leaves alone when it leaves the walk alone. *)
LEMMA WalkStays ==
    ASSUME Walk, UNCHANGED <<cls, parse>>, pc' # "pool"
    PROVE  Walk'
  BY DEF Walk, parse, AtConstant

LEMMA ReadsStay ==
    ASSUME ReadsAsJVM, UNCHANGED <<cls, cp_tags, cp_offsets>>
    PROVE  ReadsAsJVM'
<1>1. cp_count_original' = cp_count_original
  BY Fixed
<1>2. ASSUME NEW idx \in 0 .. cp_count_original - 1
      PROVE  (Read(cp_offsets[idx]) = Constant(idx) /\ cp_tags[idx] = Constant(idx).tag)'
  <2>1. Read(cp_offsets[idx]) = Constant(idx) /\ cp_tags[idx] = Constant(idx).tag
    BY DEF ReadsAsJVM
  <2> QED
    BY <2>1 DEF Read, Constant
<1> QED
  BY <1>1, <1>2 DEF ReadsAsJVM

LEMMA PoolReadStays ==
    ASSUME PoolRead, UNCHANGED <<cls, parse>>,
           pc' \notin {"pool"} \cup Failed => pc \notin {"pool"} \cup Failed
    PROVE  PoolRead'
<1> SUFFICES ASSUME pc' \notin {"pool"} \cup Failed
             PROVE  /\ ReadsAsJVM'
                    /\ post_cp_offset' = cls'.start[Len(cls'.pool) + 1]
                    /\ \A k \in DOMAIN cls'.pool : cls'.pool[k].tag \notin Unsupported
  BY DEF PoolRead
<1>1. ReadsAsJVM /\ post_cp_offset = cls.start[Len(cls.pool) + 1]
      /\ \A k \in DOMAIN cls.pool : cls.pool[k].tag \notin Unsupported
  BY DEF PoolRead
<1>2. ReadsAsJVM'
  BY <1>1, ReadsStay DEF parse
<1> QED
  BY <1>1, <1>2 DEF parse

LEMMA AddedStays ==
    ASSUME ConstantsAdded, UNCHANGED <<cls, added>>,
           pc' \in {"pool", "native"} => pc \in {"pool", "native"},
           pc' \in {"method", "field", "code", "write", "done"} =>
                pc \in {"method", "field", "code", "write", "done"}
    PROVE  ConstantsAdded'
  BY Fixed DEF ConstantsAdded, added

-----------------------------------------------------------------------------
(* One turn of the walk: from a constant to the next one. *)
LEMMA ParseConstantIInv == ASSUME IInv, ParseConstant PROVE IInv'
<1>1. cls \in Classes /\ cls' = cls /\ IsLaidOut(cls) /\ pc = "pool"
  BY LaidOut DEF IInv, Typed, ParseConstant
<1>2. PICK n \in 1 .. Len(cls.pool) + 1 : AtConstant(n) /\ Parsed(n)
  BY <1>1 DEF IInv, Walk
<1>3. n \in 1 .. Len(cls.pool) /\ n \in Nat /\ Len(cls.pool) \in Nat
  BY <1>1, <1>2, WalkIsAtConstant DEF ParseConstant, IsLaidOut
<1> DEFINE c == cls.pool[n]
<1>4. /\ i = cls.slot[n] /\ cp_cursor = cls.start[n] /\ Read(cp_cursor) = c
      /\ c.tag \in Tags
  BY <1>1, <1>2, <1>3, ReadAt DEF AtConstant, IsLaidOut
<1>5. /\ i \in 1 .. cp_count_original - 1 /\ i \in 0 .. cp_count_original - 1
      /\ cp_cursor \in Nat
  BY <1>1, <1>3, <1>4, SlotInRange, CountType
<1>6. /\ cp_offsets' = [cp_offsets EXCEPT ![i] = cp_cursor]
      /\ cp_tags' = [cp_tags EXCEPT ![i] = c.tag]
      /\ pc' \in {"pool", "thrown"}
      /\ UNCHANGED <<cls, post_cp_offset, added, methods, found, out>>
  BY <1>1, <1>4 DEF ParseConstant
<1>7. Typed'
  <2>1. c.tag \in 0 .. 20
    BY <1>4 DEF Tags, Unsupported
  <2>2. cp_count_original' = cp_count_original
    BY <1>1, Fixed
  <2> HIDE DEF c
  <2> QED
    BY <1>5, <1>6, <2>1, <2>2 DEF IInv, Typed, Ends, added, found
<1>8. Walk'
  <2>1. CASE c.tag \in Tags \ Unsupported
    <3>1. /\ cp_cursor' = cp_cursor + Advance(c) /\ i' = NextIndex(c)
      BY <1>4, <2>1 DEF ParseConstant
    <3>2. cp_cursor' = cls.start[n + 1]
      BY <1>1, <1>3, <1>4, <2>1, <3>1, AdvanceIsSize DEF IsLaidOut
    <3>3. i' = cls.slot[n + 1]
      <4>1. cls.slot[n + 1] = cls.slot[n] + JVMSlots(c)
        BY <1>1, <1>3 DEF IsLaidOut
      <4> QED
        BY <1>4, <3>1, <4>1 DEF NextIndex, JVMSlots
    <3>4. n + 1 \in 1 .. Len(cls.pool) + 1 /\ (n + 1) - 1 = n
      BY <1>3
    <3>5. ASSUME NEW k \in 1 .. n - 1 PROVE cls.slot[k] # i
      <4>1. k < n /\ k \in 1 .. Len(cls.pool) + 1 /\ n \in 1 .. Len(cls.pool) + 1
        BY <1>3
      <4> QED
        BY <1>1, <1>4, <4>1 DEF IsLaidOut
    <3>6. ASSUME NEW k \in 1 .. n
          PROVE  /\ cp_offsets'[cls.slot[k]] = cls.start[k]
                 /\ cp_tags'[cls.slot[k]] = cls.pool[k].tag
                 /\ cls.pool[k].tag \notin Unsupported
      <4>1. /\ cls.slot[k] \in DOMAIN cp_offsets /\ cls.slot[k] \in DOMAIN cp_tags
        <5>1. k \in 1 .. Len(cls.pool)
          BY <1>3
        <5>2. cls.slot[k] \in 0 .. cp_count_original - 1
          BY <1>1, <5>1, SlotInRange, CountType
        <5> QED
          BY <5>2 DEF IInv, Typed
      <4>2. CASE k = n
        BY <1>4, <1>6, <2>1, <4>1, <4>2
      <4>3. CASE k # n
        <5>1. k \in 1 .. n - 1
          BY <1>3, <4>3
        <5> QED
          BY <1>2, <1>6, <3>5, <4>1, <5>1 DEF Parsed
      <4> QED
        BY <4>2, <4>3
    <3>7. ASSUME NEW idx \in 0 .. cp_count_original - 1,
                 \A k \in 1 .. n : cls.slot[k] # idx
          PROVE  cp_offsets'[idx] = 0 /\ cp_tags'[idx] = 0
      <4>1. idx # i /\ \A k \in 1 .. n - 1 : cls.slot[k] # idx
        BY <1>3, <1>4, <3>7
      <4>2. cp_offsets[idx] = 0 /\ cp_tags[idx] = 0
        BY <1>2, <4>1 DEF Parsed
      <4>3. idx \in DOMAIN cp_offsets /\ idx \in DOMAIN cp_tags
        BY DEF IInv, Typed
      <4> QED
        BY <1>6, <4>1, <4>2, <4>3
    <3>8. Parsed(n + 1)'
      <4>1. cp_count_original' = cp_count_original
        BY <1>1, Fixed
      <4> QED
        BY <1>1, <3>4, <3>6, <3>7, <4>1 DEF Parsed
    <3> QED
      BY <1>1, <3>2, <3>3, <3>4, <3>8 DEF Walk, AtConstant
  <2>2. CASE c.tag \notin Tags \ Unsupported
    <3>1. pc' = "thrown" /\ UNCHANGED <<cp_cursor, i>>
      BY <1>4, <2>2 DEF ParseConstant
    <3> QED
      BY <1>1, <1>2, <3>1 DEF Walk, AtConstant
  <2> QED
    BY <2>1, <2>2
<1>9. ConstantsAdded'
  BY <1>1, <1>6, AddedStays DEF IInv
<1>10. PoolRead' /\ Located' /\ MethodsKept' /\ Written'
  BY <1>6 DEF PoolRead, Located, MethodsKept, Written, Failed
<1> QED
  BY <1>7, <1>8, <1>9, <1>10 DEF IInv

-----------------------------------------------------------------------------
(* The methods and attributes of a class file, and the indices they name. *)
LEMMA ClassBody ==
    ASSUME cls \in Classes
    PROVE  /\ Len(cls.methods) \in Nat /\ Len(cls.methods) < Limit
           /\ DOMAIN cls.methods = 1 .. Len(cls.methods)
           /\ \A k \in DOMAIN cls.methods :
                /\ cls.methods[k] = [name |-> cls.methods[k].name,
                                     desc |-> cls.methods[k].desc,
                                     attributes |-> cls.methods[k].attributes]
                /\ cls.methods[k].name \in 1 .. cp_count_original - 1
                /\ cls.methods[k].desc \in 1 .. cp_count_original - 1
                /\ cls.methods[k].attributes \in Attributes(cls)
<1>1. /\ cls.methods \in Seq([name : Indices(cls), desc : Indices(cls),
                              attributes : Attributes(cls)])
      /\ Len(cls.methods) < Limit
  BY ClassesAssumption DEF IsClass
<1>2. Indices(cls) = 1 .. cp_count_original - 1
  BY DEF Indices, cp_count_original
<1> DEFINE M == [name : Indices(cls), desc : Indices(cls), attributes : Attributes(cls)]
<1>3. cls.methods \in Seq(M)
  BY <1>1
<1>4. Len(cls.methods) \in Nat /\ DOMAIN cls.methods = 1 .. Len(cls.methods)
  <2> HIDE DEF M
  <2> QED
    BY <1>3, LenProperties
<1>5. ASSUME NEW k \in DOMAIN cls.methods
      PROVE  /\ cls.methods[k] = [name |-> cls.methods[k].name,
                                  desc |-> cls.methods[k].desc,
                                  attributes |-> cls.methods[k].attributes]
             /\ cls.methods[k].name \in Indices(cls)
             /\ cls.methods[k].desc \in Indices(cls)
             /\ cls.methods[k].attributes \in Attributes(cls)
  <2>1. cls.methods[k] \in M
    <3> HIDE DEF M
    <3> QED
      BY <1>3, <1>4, ElementOfSeq
  <2> QED
    BY <2>1
<1> QED
  BY <1>1, <1>2, <1>4, <1>5

(* The names of attributes, of a method and inside one of them. *)
LEMMA AttributeNames ==
    ASSUME cls \in Classes, NEW as \in Attributes(cls)
    PROVE  /\ Len(as) \in Nat /\ DOMAIN as = 1 .. Len(as)
           /\ \A k \in DOMAIN as :
                /\ as[k].name \in 1 .. cp_count_original - 1
                /\ as[k].info.attributes \in Seq(1 .. cp_count_original - 1)
<1>1. Indices(cls) = 1 .. cp_count_original - 1
  BY DEF Indices, cp_count_original
<1> DEFINE I == [calls : {<<>>}, attributes : Seq(Indices(cls))]
           A == [name : Indices(cls), info : I]
<1>2. as \in Seq(A)
  BY DEF Attributes
<1>3. Len(as) \in Nat /\ DOMAIN as = 1 .. Len(as)
  <2> HIDE DEF A
  <2> QED
    BY <1>2, LenProperties
<1>4. ASSUME NEW k \in DOMAIN as
      PROVE  as[k].name \in Indices(cls) /\ as[k].info.attributes \in Seq(Indices(cls))
  <2>1. as[k] \in A
    <3> HIDE DEF A
    <3> QED
      BY <1>2, <1>3, ElementOfSeq
  <2>2. as[k].name \in Indices(cls) /\ as[k].info \in I
    <3> HIDE DEF I
    <3> QED
      BY <2>1
  <2> QED
    BY <2>2
<1> QED
  BY <1>1, <1>3, <1>4

(* A name compared through cp_offsets is the name the JVM reads. *)
LEMMA StringIsNames ==
    ASSUME ReadsAsJVM, NEW idx \in 0 .. cp_count_original - 1, NEW s
    PROVE  StringIs(idx, s) <=> Names(idx, s)
  BY DEF ReadsAsJVM, StringIs, Names

(* The parsed methods of the class, with the native one behind them. *)
LEMMA ParsedMethods ==
    ASSUME cls \in Classes
    PROVE  /\ Len(Append(Blanks, NativeMethod)) = Len(cls.methods) + 1
           /\ DOMAIN Append(Blanks, NativeMethod) = 1 .. Len(cls.methods) + 1
           /\ \A k \in 1 .. Len(cls.methods) : Append(Blanks, NativeMethod)[k] = Blank(k)
           /\ Append(Blanks, NativeMethod)[Len(cls.methods) + 1] = NativeMethod
<1> DEFINE n == Len(cls.methods)
           All == {Blank(k) : k \in 1 .. n} \cup {NativeMethod}
<1>1. n \in Nat /\ DOMAIN cls.methods = 1 .. n
  BY ClassBody
<1>2. Blanks \in [1 .. n -> All] /\ \A k \in 1 .. n : Blanks[k] = Blank(k)
  BY <1>1 DEF Blanks
<1>3. Blanks \in Seq(All) /\ Len(Blanks) = n
  BY <1>1, <1>2, LenProperties
<1>4. NativeMethod \in All
  OBVIOUS
<1> HIDE DEF All, n
<1>5. /\ Append(Blanks, NativeMethod) \in Seq(All)
      /\ Len(Append(Blanks, NativeMethod)) = n + 1
      /\ \A k \in 1 .. n : Append(Blanks, NativeMethod)[k] = Blanks[k]
      /\ Append(Blanks, NativeMethod)[n + 1] = NativeMethod
  BY <1>3, <1>4, AppendProperties
<1> QED
  BY <1>1, <1>2, <1>5, LenProperties DEF n

LEMMA LocatedStays ==
    ASSUME Located, UNCHANGED <<cls, found>>,
           pc' \in {"field", "code", "write", "done"} =>
                pc \in {"field", "code", "write", "done"},
           pc' \in {"code", "write", "done"} => pc \in {"code", "write", "done"},
           pc' \in {"write", "done"} =>
                \/ pc \in {"write", "done"}
                \/ Codes(cls.methods[target_method]) # {},
           pc' = "crashed" => pc = "crashed"
    PROVE  Located'
<1>1. target_method' = target_method /\ target_field_ref_idx' = target_field_ref_idx
  BY DEF found
<1>2. Targets' = Targets /\ cp_count_original' = cp_count_original
  BY Fixed
<1>3. Codes(cls.methods[target_method])' = Codes(cls.methods[target_method])
  BY <1>1, Fixed DEF Codes, Names
<1>4. IsFieldref(Constant, target_field_ref_idx, field_to_get)'
        <=> IsFieldref(Constant, target_field_ref_idx, field_to_get)
  BY <1>1, Fixed DEF IsFieldref
<1> QED
  BY <1>1, <1>2, <1>3, <1>4 DEF Located

-----------------------------------------------------------------------------
LEMMA ParseBodyIInv == ASSUME IInv, ParseBody PROVE IInv'
<1>1. cls \in Classes /\ cls' = cls /\ IsLaidOut(cls) /\ pc = "pool" /\ pc' = "native"
  BY LaidOut DEF IInv, Typed, ParseBody
<1>2. PICK n \in 1 .. Len(cls.pool) + 1 : AtConstant(n) /\ Parsed(n)
  BY <1>1 DEF IInv, Walk
<1>3. n = Len(cls.pool) + 1
  BY <1>1, <1>2, WalkIsAtConstant DEF ParseBody
<1>4. ReadsAsJVM /\ \A k \in DOMAIN cls.pool : cls.pool[k].tag \notin Unsupported
  BY <1>1, <1>2, <1>3, ParsedReads
<1>5. post_cp_offset' = cls.start[Len(cls.pool) + 1]
  BY <1>2, <1>3 DEF ParseBody, AtConstant
<1>6. Typed'
  <2>1. cp_count_original' = cp_count_original
    BY <1>1, Fixed
  <2> QED
    BY <1>1, <2>1 DEF IInv, Typed, ParseBody, added, found
<1>7. PoolRead'
  <2>1. ReadsAsJVM'
    BY <1>1, <1>4, ReadsStay DEF ParseBody
  <2> QED
    BY <1>1, <1>4, <1>5, <2>1 DEF PoolRead
<1>8. Walk'
  BY <1>1, <1>2 DEF Walk, AtConstant, ParseBody
<1>9. ConstantsAdded'
  BY <1>1, AddedStays DEF IInv, ParseBody
<1>10. MethodsKept'
  <2>1. methods' = Blanks
    BY DEF ParseBody, Blanks, Blank
  <2> QED
    BY <1>1, <2>1, Fixed DEF MethodsKept
<1>11. Located' /\ Written'
  BY <1>1 DEF Located, Written
<1> QED
  BY <1>6, <1>7, <1>8, <1>9, <1>10, <1>11 DEF IInv

LEMMA ThreePairs ==
    ASSUME NEW a, NEW b, NEW c, NEW d, NEW e, NEW f
    PROVE  <<a, b>> \o <<c, d>> \o <<e, f>> = <<a, b, c, d, e, f>>
<1> DEFINE S == {a, b, c, d, e, f}
           p == <<a, b>>
           q == <<c, d>>
           r == <<e, f>>
           t == <<a, b, c, d, e, f>>
<1>1. p \in Seq(S) /\ q \in Seq(S) /\ r \in Seq(S) /\ t \in Seq(S)
  OBVIOUS
<1>2. Len(p) = 2 /\ Len(q) = 2 /\ Len(r) = 2 /\ Len(t) = 6
  OBVIOUS
<1>3. /\ p[1] = a /\ p[2] = b /\ q[1] = c /\ q[2] = d /\ r[1] = e /\ r[2] = f
      /\ t[1] = a /\ t[2] = b /\ t[3] = c /\ t[4] = d /\ t[5] = e /\ t[6] = f
  OBVIOUS
<1> HIDE DEF S, p, q, r, t
<1>4. /\ p \o q \in Seq(S) /\ Len(p \o q) = 4
      /\ (p \o q)[1] = a /\ (p \o q)[2] = b /\ (p \o q)[3] = c /\ (p \o q)[4] = d
  <2>1. /\ p \o q \in Seq(S) /\ Len(p \o q) = Len(p) + Len(q)
        /\ \A k \in 1 .. Len(p) + Len(q) :
            (p \o q)[k] = IF k <= Len(p) THEN p[k] ELSE q[k - Len(p)]
    BY <1>1, ConcatProperties
  <2>2. \A k \in 1 .. 4 : (p \o q)[k] = IF k <= 2 THEN p[k] ELSE q[k - 2]
    BY <1>2, <2>1
  <2>3. (p \o q)[1] = p[1] /\ (p \o q)[2] = p[2] /\ (p \o q)[3] = q[3 - 2]
        /\ (p \o q)[4] = q[4 - 2]
    <3>1. 1 \in 1 .. 4 /\ 2 \in 1 .. 4 /\ 3 \in 1 .. 4 /\ 4 \in 1 .. 4
          /\ 1 <= 2 /\ 2 <= 2 /\ ~ (3 <= 2) /\ ~ (4 <= 2)
      OBVIOUS
    <3> QED
      BY <2>2, <3>1, Zenon
  <2> QED
    BY <1>2, <1>3, <2>1, <2>3
<1>5. /\ p \o q \o r \in Seq(S) /\ Len(p \o q \o r) = 6
      /\ \A k \in 1 .. 4 : (p \o q \o r)[k] = (p \o q)[k]
      /\ (p \o q \o r)[5] = e /\ (p \o q \o r)[6] = f
  <2> DEFINE z == p \o q
  <2> HIDE DEF z
  <2>1. /\ z \o r \in Seq(S) /\ Len(z \o r) = Len(z) + Len(r)
        /\ \A k \in 1 .. Len(z) + Len(r) :
            (z \o r)[k] = IF k <= Len(z) THEN z[k] ELSE r[k - Len(z)]
    BY <1>1, <1>4, ConcatProperties DEF z
  <2>2. Len(z) = 4 /\ Len(r) = 2
    BY <1>2, <1>4 DEF z
  <2>3. \A k \in 1 .. 6 : (z \o r)[k] = IF k <= 4 THEN z[k] ELSE r[k - 4]
    BY <2>1, <2>2
  <2>4. /\ \A k \in 1 .. 4 : (z \o r)[k] = z[k]
        /\ (z \o r)[5] = r[5 - 4] /\ (z \o r)[6] = r[6 - 4]
    <3>1. /\ \A k \in 1 .. 4 : k \in 1 .. 6 /\ k <= 4
          /\ 5 \in 1 .. 6 /\ 6 \in 1 .. 6 /\ ~ (5 <= 4) /\ ~ (6 <= 4)
      OBVIOUS
    <3> QED
      BY <2>3, <3>1, Zenon
  <2>5. (z \o r)[5] = e /\ (z \o r)[6] = f
    BY <1>3, <2>4
  <2> QED
    BY <2>1, <2>2, <2>4, <2>5 DEF z
<1>6. ASSUME NEW k \in 1 .. 6 PROVE (p \o q \o r)[k] = t[k]
  <2>1. k \in 1 .. 4 \/ k = 5 \/ k = 6
    OBVIOUS
  <2>2. CASE k \in 1 .. 4
    <3>1. (p \o q \o r)[k] = (p \o q)[k]
      BY <1>5, <2>2
    <3>2. k = 1 \/ k = 2 \/ k = 3 \/ k = 4
      BY <2>2
    <3> QED
      BY <1>3, <1>4, <3>1, <3>2
  <2> QED
    BY <1>3, <1>5, <2>1, <2>2
<1>7. p \o q \o r = t
  BY <1>1, <1>2, <1>5, <1>6, SeqEqual
<1> QED
  BY <1>7 DEF p, q, r, t

LEMMA AddNativeMethodIInv == ASSUME IInv, AddNativeMethod PROVE IInv'
<1>1. cls \in Classes /\ cls' = cls /\ pc = "native" /\ pc' = "method"
  BY DEF IInv, Typed, AddNativeMethod
<1>2. cp_count_new = cp_count_original /\ methods = Blanks
  BY <1>1 DEF IInv, ConstantsAdded, MethodsKept
<1>3. \A k : Added(k) = New(k)
  BY <1>2 DEF Added, New
<1>4. /\ cp_count_new' = New(6) /\ native_method_ref_idx' = New(5)
      /\ methods' = Append(Blanks, NativeMethod)
  BY <1>2, <1>3 DEF AddNativeMethod, NativeMethod
<1>5. \E nameFirst \in BOOLEAN : new_cp_entries' = NewEntries(nameFirst)
  <2>1. PICK nameFirst \in BOOLEAN :
            new_cp_entries' =
                <<Utf8(native_callback_name), Utf8("(I)V")>>
                \o (IF nameFirst THEN <<Utf8(native_callback_name), Utf8("(I)V")>>
                                 ELSE <<Utf8("(I)V"), Utf8(native_callback_name)>>)
                \o <<Ref(12, Added(IF nameFirst THEN 2 ELSE 3),
                             Added(IF nameFirst THEN 3 ELSE 2)),
                     Ref(10, cls.this_class, Added(4))>>
    BY DEF AddNativeMethod
  <2> DEFINE x == Utf8(native_callback_name)
             y == Utf8("(I)V")
             u == Ref(12, Added(IF nameFirst THEN 2 ELSE 3),
                          Added(IF nameFirst THEN 3 ELSE 2))
             v == Ref(10, cls.this_class, Added(4))
  <2>2. NewEntries(nameFirst) =
            <<x, y, IF nameFirst THEN x ELSE y, IF nameFirst THEN y ELSE x, u, v>>
    BY <1>3 DEF NewEntries
  <2>3. new_cp_entries' = <<x, y>> \o (IF nameFirst THEN <<x, y>> ELSE <<y, x>>) \o <<u, v>>
    BY <2>1
  <2> HIDE DEF x, y, u, v
  <2>4. <<x, y>> \o (IF nameFirst THEN <<x, y>> ELSE <<y, x>>) \o <<u, v>>
        = <<x, y, IF nameFirst THEN x ELSE y, IF nameFirst THEN y ELSE x, u, v>>
    BY ThreePairs
  <2> QED
    BY <2>2, <2>3, <2>4
<1>6. Typed'
  <2>1. cp_count_original' = cp_count_original
    BY <1>1, Fixed
  <2>2. New(6) \in 0 .. Limit - 1
    <3>1. cp_count_original + 6 \in Nat /\ Limit \in Nat /\ 0 < Limit
      BY <1>1, CountType, LimitAssumption
    <3> QED
      BY <3>1 DEF New
  <2> QED
    BY <1>1, <1>4, <2>1, <2>2 DEF IInv, Typed, AddNativeMethod, parse, found
<1>7. Walk' /\ PoolRead'
  BY <1>1, WalkStays, PoolReadStays DEF IInv, AddNativeMethod, Failed
<1>8. ConstantsAdded'
  BY <1>1, <1>4, <1>5, Fixed DEF ConstantsAdded
<1>9. MethodsKept'
  BY <1>1, <1>4, Fixed DEF MethodsKept
<1>10. Located' /\ Written'
  BY <1>1 DEF Located, Written
<1> QED
  BY <1>6, <1>7, <1>8, <1>9, <1>10 DEF IInv

(* The methods the search finds are those of that name and descriptor. *)
LEMMA MethodsFound ==
    ASSUME IInv, pc = "method"
    PROVE  {k \in 1 .. Len(methods) - 1 : IsTarget(methods[k])} = Targets
<1>1. cls \in Classes
  BY DEF IInv, Typed
<1>2. ReadsAsJVM /\ methods = Append(Blanks, NativeMethod)
  BY DEF IInv, PoolRead, MethodsKept, Failed
<1>3. /\ Len(methods) - 1 = Len(cls.methods)
      /\ DOMAIN cls.methods = 1 .. Len(cls.methods)
  <2>1. Len(methods) = Len(cls.methods) + 1 /\ Len(cls.methods) \in Nat
    BY <1>1, <1>2, ParsedMethods, ClassBody
  <2> QED
    BY <1>1, <2>1, ClassBody
<1>4. ASSUME NEW k \in 1 .. Len(cls.methods)
      PROVE  IsTarget(methods[k]) <=>
                  /\ Names(cls.methods[k].name, method_to_hook)
                  /\ Names(cls.methods[k].desc, method_desc)
  <2>1. methods[k].name = cls.methods[k].name /\ methods[k].desc = cls.methods[k].desc
    <3>1. methods[k] = Blank(k)
      BY <1>1, <1>2, ParsedMethods
    <3> QED
      BY <3>1 DEF Blank
  <2>2. /\ cls.methods[k].name \in 0 .. cp_count_original - 1
        /\ cls.methods[k].desc \in 0 .. cp_count_original - 1
    <3>1. /\ cls.methods[k].name \in 1 .. cp_count_original - 1
          /\ cls.methods[k].desc \in 1 .. cp_count_original - 1
      BY <1>1, <1>3, ClassBody
    <3> QED
      BY <1>1, <3>1, CountType
  <2> QED
    BY <1>2, <2>1, <2>2, StringIsNames DEF IsTarget
<1> QED
  BY <1>3, <1>4 DEF Targets

LEMMA FindMethodIInv == ASSUME IInv, FindMethod PROVE IInv'
<1> DEFINE hits == {k \in 1 .. Len(methods) - 1 : IsTarget(methods[k])}
<1>1. /\ cls \in Classes /\ cls' = cls /\ pc = "method"
      /\ pc' \in {"field", "thrown", "crashed"}
  BY DEF IInv, Typed, FindMethod
<1>2. ReadsAsJVM /\ methods = Append(Blanks, NativeMethod)
  BY <1>1 DEF IInv, PoolRead, MethodsKept, Failed
<1>3. hits = Targets
  BY <1>1, MethodsFound
<1>4. Targets \subseteq Nat /\ Targets \subseteq 0 .. Len(cls.methods)
  BY <1>1, ClassBody DEF Targets
<1>5. \/ Targets # {} /\ target_method' = Least(Targets) /\ pc' = "field"
      \/ Targets = {} /\ pc' \in {"thrown", "crashed"} /\ target_method' = target_method
  BY <1>3 DEF FindMethod
<1>6. Typed'
  <2>1. cp_count_original' = cp_count_original
    BY <1>1, Fixed
  <2>2. target_method' \in 0 .. Len(cls.methods)
    BY <1>4, <1>5, LeastOf DEF IInv, Typed
  <2> QED
    BY <1>1, <2>1, <2>2 DEF IInv, Typed, FindMethod, parse, added, Ends
<1>7. Walk' /\ PoolRead'
  BY <1>1, WalkStays, PoolReadStays DEF IInv, FindMethod, Failed
<1>8. ConstantsAdded'
  BY <1>1, AddedStays DEF IInv, FindMethod
<1>9. MethodsKept'
  BY <1>1, <1>2, Fixed DEF MethodsKept, FindMethod
<1>10. Located'
  BY <1>1, <1>5, Fixed DEF Located
<1>11. Written'
  BY <1>1 DEF Written
<1> QED
  BY <1>6, <1>7, <1>8, <1>9, <1>10, <1>11 DEF IInv

-----------------------------------------------------------------------------
(* A Fieldref names a NameAndType of the pool, and that one a constant. *)
LEMMA FieldrefFacts ==
    ASSUME cls \in Classes, NEW idx, Constant(idx).tag = 9
    PROVE  /\ Constant(idx).i2 \in 1 .. cp_count_original - 1
           /\ Constant(Constant(idx).i2).i1 \in 1 .. cp_count_original - 1
<1>1. PICK k \in 1 .. Len(cls.pool) : Constant(idx) = cls.pool[k]
  <2>1. Constant(idx) # Null
    BY DEF Null
  <2> QED
    BY <2>1, ConstantAt
<1>2. k \in DOMAIN cls.pool
  BY LaidOut DEF IsLaidOut
<1> DEFINE nat == Constant(cls.pool[k].i2)
<1>3. nat.tag = 12 /\ nat.i1 \in Indices(cls)
  <2>1. cls.pool[k].tag = 9
    BY <1>1
  <2> QED
    BY <1>2, <2>1, ClassesAssumption DEF IsClass, Constant
<1>4. PICK l \in 1 .. Len(cls.pool) : cls.pool[k].i2 = cls.slot[l]
  <2>1. nat # Null
    BY <1>3 DEF Null
  <2> QED
    BY <2>1, ConstantAt
<1>5. Indices(cls) = 1 .. cp_count_original - 1
  BY DEF Indices, cp_count_original
<1> QED
  BY <1>1, <1>3, <1>4, <1>5, SlotInRange

LEMMA FindFieldIInv == ASSUME IInv, FindField PROVE IInv'
<1> DEFINE hits == {idx \in 1 .. cp_count_original - 1 :
                /\ cp_tags[idx] = 9
                /\ StringIs(Read(cp_offsets[Read(cp_offsets[idx]).i2]).i1, field_to_get)}
<1>1. cls \in Classes /\ cls' = cls /\ pc = "field" /\ pc' \in {"code", "thrown"}
  BY DEF IInv, Typed, FindField
<1>2. /\ ReadsAsJVM /\ methods = Append(Blanks, NativeMethod)
      /\ Targets # {} /\ target_method = Least(Targets)
  BY <1>1 DEF IInv, PoolRead, MethodsKept, Located, Failed
<1>3. ASSUME NEW idx \in hits
      PROVE  IsFieldref(Constant, idx, field_to_get)
  <2>0. \A x \in 1 .. cp_count_original - 1 : x \in 0 .. cp_count_original - 1
    BY <1>1, CountType
  <2>1. cp_tags[idx] = Constant(idx).tag /\ Read(cp_offsets[idx]) = Constant(idx)
        /\ Constant(idx).tag = 9
    BY <1>2, <2>0 DEF ReadsAsJVM
  <2> DEFINE nat == Constant(Constant(idx).i2)
  <2>2. /\ Constant(idx).i2 \in 0 .. cp_count_original - 1
        /\ nat.i1 \in 0 .. cp_count_original - 1
    BY <1>1, <2>0, <2>1, FieldrefFacts
  <2>3. Read(cp_offsets[Constant(idx).i2]) = nat
    BY <1>2, <2>2 DEF ReadsAsJVM
  <2>4. StringIs(nat.i1, field_to_get)
    BY <2>1, <2>3
  <2>5. Names(nat.i1, field_to_get)
    BY <1>2, <2>2, <2>4, StringIsNames
  <2> QED
    BY <2>1, <2>5 DEF IsFieldref, Names
<1>4. \/ /\ pc' = "code" /\ target_field_ref_idx' \in 1 .. cp_count_original - 1
         /\ IsFieldref(Constant, target_field_ref_idx', field_to_get)
      \/ pc' = "thrown" /\ target_field_ref_idx' = target_field_ref_idx
  <2>1. CASE hits # {} /\ target_field_ref_idx' = Least(hits) /\ pc' = "code"
    <3>1. target_field_ref_idx' \in hits
      <4>1. hits \subseteq Nat
        BY <1>1, CountType
      <4> HIDE DEF hits
      <4> QED
        BY <2>1, <4>1, LeastOf
    <3> QED
      BY <1>3, <2>1, <3>1
  <2> QED
    BY <2>1 DEF FindField
<1>5. Typed'
  <2>1. cp_count_original' = cp_count_original
    BY <1>1, Fixed
  <2>2. target_field_ref_idx' \in 0 .. cp_count_original - 1
    BY <1>1, <1>4, CountType DEF IInv, Typed
  <2> QED
    BY <1>1, <2>1, <2>2 DEF IInv, Typed, FindField, parse, added, Ends
<1>6. Walk' /\ PoolRead'
  BY <1>1, WalkStays, PoolReadStays DEF IInv, FindField, Failed
<1>7. ConstantsAdded'
  BY <1>1, AddedStays DEF IInv, FindField
<1>8. MethodsKept'
  BY <1>1, <1>2, Fixed DEF MethodsKept, FindField
<1>9. Located'
  <2>1. target_method' = target_method
    BY DEF FindField
  <2>2. IsFieldref(Constant, target_field_ref_idx', field_to_get)
            => IsFieldref(Constant, target_field_ref_idx, field_to_get)'
    BY <1>1, Fixed DEF IsFieldref
  <2> QED
    BY <1>1, <1>2, <1>4, <2>1, <2>2, Fixed DEF Located
<1>10. Written'
  BY <1>1 DEF Written
<1> QED
  BY <1>5, <1>6, <1>7, <1>8, <1>9, <1>10 DEF IInv

(* The method found, among the parsed ones. *)
LEMMA TargetParsed ==
    ASSUME cls \in Classes, Targets # {}, target_method = Least(Targets)
    PROVE  /\ target_method \in Targets
           /\ target_method \in 1 .. Len(cls.methods) /\ target_method \in DOMAIN cls.methods
           /\ Append(Blanks, NativeMethod)[target_method] = Blank(target_method)
           /\ cls.methods[target_method].attributes \in Attributes(cls)
<1>1. Len(cls.methods) \in Nat /\ DOMAIN cls.methods = 1 .. Len(cls.methods)
  BY ClassBody
<1>2. Targets \subseteq Nat /\ Targets \subseteq DOMAIN cls.methods
  BY <1>1 DEF Targets
<1>3. target_method \in Targets
  BY <1>2, LeastOf
<1> QED
  BY <1>1, <1>2, <1>3, ParsedMethods, ClassBody

(* The attributes the search for the code finds are those of that name. *)
LEMMA CodesFound ==
    ASSUME IInv, pc = "code"
    PROVE  LET raw == methods[target_method].attributes
           IN  {k \in DOMAIN raw : StringIs(raw[k].name, "Code")}
                   = Codes(cls.methods[Least(Targets)])
<1> DEFINE t == target_method
           as == cls.methods[t].attributes
<1>1. cls \in Classes
  BY DEF IInv, Typed
<1>2. /\ ReadsAsJVM /\ methods = Append(Blanks, NativeMethod)
      /\ Targets # {} /\ t = Least(Targets)
  BY DEF IInv, PoolRead, MethodsKept, Located, Failed
<1>3. t \in 1 .. Len(cls.methods) /\ methods[t] = Blank(t) /\ as \in Attributes(cls)
  BY <1>1, <1>2, TargetParsed
<1>4. methods[t].attributes = as
  BY <1>3 DEF Blank
<1>5. ASSUME NEW k \in DOMAIN as
      PROVE  StringIs(as[k].name, "Code") <=> Names(as[k].name, "Code")
  <2>1. as[k].name \in 1 .. cp_count_original - 1
    BY <1>1, <1>3, AttributeNames
  <2>2. as[k].name \in 0 .. cp_count_original - 1
    BY <1>1, <2>1, CountType
  <2> QED
    BY <1>2, <2>2, StringIsNames
<1> QED
  BY <1>2, <1>4, <1>5 DEF Codes

LEMMA EditCodeIInv == ASSUME IInv, EditCode PROVE IInv'
<1> DEFINE parsed == Append(Blanks, NativeMethod)
           t == target_method
           as == cls.methods[t].attributes
           inner == as[Least(Codes(cls.methods[t]))].info.attributes
<1>1. cls \in Classes /\ cls' = cls /\ pc = "code" /\ pc' \in {"write", "thrown"}
  BY DEF IInv, Typed, EditCode
<1>2. ReadsAsJVM /\ methods = parsed /\ Targets # {} /\ t = Least(Targets)
  BY <1>1 DEF IInv, PoolRead, MethodsKept, Located, Failed
<1>3. /\ t \in 1 .. Len(cls.methods) /\ t \in DOMAIN cls.methods
      /\ methods[t] = Blank(t) /\ as \in Attributes(cls)
  BY <1>1, <1>2, TargetParsed
<1>4. methods[t].attributes = as
  BY <1>3 DEF Blank
<1>5. {k \in DOMAIN as : StringIs(as[k].name, "Code")} = Codes(cls.methods[t])
  BY <1>1, <1>2, <1>4, CodesFound
<1>6. ASSUME Codes(cls.methods[t]) # {}
      PROVE  {k \in DOMAIN inner : ~ StringIs(inner[k], "StackMapTable")}
                = {k \in DOMAIN inner : ~ Names(inner[k], "StackMapTable")}
  <2>1. DOMAIN as = 1 .. Len(as) /\ Len(as) \in Nat
    BY <1>1, <1>3, AttributeNames
  <2>2. Codes(cls.methods[t]) \subseteq Nat /\ Codes(cls.methods[t]) \subseteq DOMAIN as
    BY <2>1 DEF Codes
  <2>3. Least(Codes(cls.methods[t])) \in DOMAIN as
    BY <1>6, <2>2, LeastOf
  <2>4. inner \in Seq(1 .. cp_count_original - 1)
    BY <1>1, <1>3, <2>3, AttributeNames
  <2>5. ASSUME NEW k \in DOMAIN inner
        PROVE  StringIs(inner[k], "StackMapTable") <=> Names(inner[k], "StackMapTable")
    <3> HIDE DEF inner
    <3>1. inner[k] \in 1 .. cp_count_original - 1
      BY <2>4, ElementOfSeq, LenProperties
    <3>2. inner[k] \in 0 .. cp_count_original - 1
      BY <1>1, <3>1, CountType
    <3> QED
      BY <1>2, <3>2, StringIsNames
  <2> QED
    BY <2>5
<1>7. \/ /\ pc' = "write" /\ Codes(cls.methods[t]) # {}
         /\ methods' = [parsed EXCEPT ![t] = Edited]
      \/ pc' = "thrown"
  <2>1. CASE Codes(cls.methods[t]) # {}
    <3> DEFINE kept == {k \in DOMAIN inner : ~ StringIs(inner[k], "StackMapTable")}
               code == [calls |-> <<target_field_ref_idx, native_method_ref_idx>>,
                        attributes |-> Kept(inner, kept)]
    <3>1. pc' = "write" /\ methods' = [methods EXCEPT ![t].has_code_parsed = TRUE,
                                                      ![t].parsed_code = code]
      <4> DEFINE raw == methods[t].attributes
                 codes == {k \in DOMAIN raw : StringIs(raw[k].name, "Code")}
                 rawInner == raw[Least(codes)].info.attributes
                 rawKept == {k \in DOMAIN rawInner : ~ StringIs(rawInner[k], "StackMapTable")}
      <4>1. \/ /\ codes # {} /\ pc' = "write"
               /\ methods' = [methods EXCEPT ![t].has_code_parsed = TRUE,
                    ![t].parsed_code =
                        [calls |-> <<target_field_ref_idx, native_method_ref_idx>>,
                         attributes |-> Kept(rawInner, rawKept)]]
            \/ codes = {}
        BY DEF EditCode
      <4>2. codes = Codes(cls.methods[t])
        BY <1>4, <1>5
      <4>3. rawInner = inner
        BY <1>4, <4>2
      <4> HIDE DEF codes, rawInner, inner
      <4>4. rawKept = kept
        BY <4>3
      <4> QED
        BY <2>1, <4>1, <4>2, <4>3, <4>4
    <3>2. code = EditedCode
      BY <1>6, <2>1 DEF EditedCode
    <3>3. t \in DOMAIN methods
      BY <1>1, <1>2, <1>3, ParsedMethods, ClassBody
    <3> HIDE DEF code
    <3>4. methods' = [methods EXCEPT ![t] =
                        [methods[t] EXCEPT !.has_code_parsed = TRUE, !.parsed_code = code]]
      BY <3>1, <3>3
    <3>5. methods' = [methods EXCEPT ![t] = Edited]
      BY <1>3, <3>2, <3>4 DEF Edited
    <3> QED
      BY <1>2, <2>1, <3>1, <3>5
  <2>2. CASE Codes(cls.methods[t]) = {}
    BY <1>4, <1>5, <2>2 DEF EditCode
  <2> QED
    BY <2>1, <2>2
<1>8. Typed'
  <2>1. cp_count_original' = cp_count_original
    BY <1>1, Fixed
  <2> QED
    BY <1>1, <2>1 DEF IInv, Typed, EditCode, parse, added, found, Ends
<1>9. Walk' /\ PoolRead'
  BY <1>1, WalkStays, PoolReadStays DEF IInv, EditCode, Failed
<1>10. ConstantsAdded'
  BY <1>1, AddedStays DEF IInv, EditCode
<1>11. Located'
  <2>1. UNCHANGED <<cls, found>>
    BY DEF EditCode
  <2> QED
    BY <1>1, <1>7, <2>1, LocatedStays DEF IInv
<1>12. MethodsKept'
  <2>1. target_method' = target_method
        /\ target_field_ref_idx' = target_field_ref_idx
        /\ native_method_ref_idx' = native_method_ref_idx
    BY DEF EditCode, added, found
  <2>2. Edited' = Edited
    <3>1. EditedCode' = EditedCode
      BY <1>1, <2>1 DEF EditedCode, Codes, Names, Constant
    <3> QED
      BY <1>1, <2>1, <3>1 DEF Edited, Blank
  <2> QED
    BY <1>1, <1>7, <2>1, <2>2, Fixed DEF MethodsKept
<1>13. Written'
  BY <1>1 DEF Written
<1> QED
  BY <1>8, <1>9, <1>10, <1>11, <1>12, <1>13 DEF IInv

LEMMA EditedFixed ==
    ASSUME UNCHANGED <<cls, found, native_method_ref_idx>>
    PROVE  Edited' = Edited
<1>1. target_method' = target_method /\ target_field_ref_idx' = target_field_ref_idx
  BY DEF found
<1>2. EditedCode' = EditedCode
  BY <1>1 DEF EditedCode, Codes, Names, Constant
<1> QED
  BY <1>1, <1>2 DEF Edited, Blank

(* The bytes up to the end of the pool are the pool. *)
LEMMA WholePoolKept ==
    ASSUME cls \in Classes
    PROVE  KeptPool(cls.start[Len(cls.pool) + 1]) = cls.pool
<1> DEFINE n == Len(cls.pool)
           before == {k \in DOMAIN cls.pool : cls.start[k] < cls.start[n + 1]}
<1>1. IsLaidOut(cls)
  BY LaidOut
<1>2. n \in Nat /\ DOMAIN cls.pool = 1 .. n
  BY <1>1 DEF IsLaidOut
<1>3. ASSUME NEW k \in 1 .. n PROVE cls.start[k] < cls.start[n + 1]
  <2>1. k \in 1 .. n + 1 /\ n + 1 \in 1 .. n + 1 /\ k < n + 1
    BY <1>2
  <2> QED
    BY <1>1, <2>1 DEF IsLaidOut
<1>4. before = 1 .. n
  BY <1>2, <1>3
<1>5. Cardinality(1 .. n) = n
  <2> HIDE DEF n
  <2>1. Cardinality(1 .. n) = IF 1 > n THEN 0 ELSE n - 1 + 1
    BY <1>2, FS_Interval
  <2> QED
    BY <1>2, <2>1
<1>6. SubSeq(cls.pool, 1, n) = cls.pool
  <2>1. cls.pool \in Seq(Constants)
    BY ClassesAssumption DEF IsClass, IsPool
  <2> QED
    BY <2>1, SubSeqFull
<1>7. KeptPool(cls.start[n + 1]) = SubSeq(cls.pool, 1, Cardinality(before))
  BY DEF KeptPool
<1> QED
  BY <1>4, <1>5, <1>6, <1>7

LEMMA WriteClassIInv == ASSUME IInv, WriteClass PROVE IInv'
<1>1. cls \in Classes /\ cls' = cls /\ pc = "write" /\ pc' \in {"done", "thrown"}
  BY DEF IInv, Typed, WriteClass
<1>2. post_cp_offset = cls.start[Len(cls.pool) + 1]
  BY <1>1 DEF IInv, PoolRead, Failed
<1>3. Typed'
  <2>1. cp_count_original' = cp_count_original
    BY <1>1, Fixed
  <2> QED
    BY <1>1, <2>1 DEF IInv, Typed, WriteClass, parse, added, found, Ends
<1>4. Walk' /\ PoolRead'
  BY <1>1, WalkStays, PoolReadStays DEF IInv, WriteClass, Failed
<1>5. ConstantsAdded'
  BY <1>1, AddedStays DEF IInv, WriteClass
<1>6. Located'
  <2>1. UNCHANGED <<cls, found>>
    BY DEF WriteClass
  <2> QED
    BY <1>1, <2>1, LocatedStays DEF IInv
<1>7. MethodsKept'
  <2>1. UNCHANGED <<cls, found, native_method_ref_idx, methods, target_method>>
    BY DEF WriteClass, added, found
  <2>2. Edited' = Edited
    BY <2>1, EditedFixed
  <2>3. methods = [Append(Blanks, NativeMethod) EXCEPT ![target_method] = Edited]
    BY <1>1 DEF IInv, MethodsKept
  <2> QED
    BY <1>1, <2>1, <2>2, <2>3, Fixed DEF MethodsKept
<1>8. Written'
  <2>1. UNCHANGED <<cls, cp_tags, cp_offsets, methods, cp_count_new, new_cp_entries>>
    BY DEF WriteClass, parse, added
  <2>2. \A m : WrittenMethod(m)' = WrittenMethod(m)
    <3>1. \A idx, s : StringIs(idx, s)' = StringIs(idx, s)
      BY <2>1 DEF StringIs, Read
    <3>2. CodeName' = CodeName
      BY <2>1, <3>1, Fixed DEF CodeName
    <3> QED
      BY <3>1, <3>2 DEF WrittenMethod
  <2>3. pc' = "done" =>
            /\ Len(methods) < Limit
            /\ out' = [count |-> cp_count_new, pool |-> cls.pool \o new_cp_entries,
                       methods |-> [k \in DOMAIN methods |-> WrittenMethod(methods[k])]]
    BY <1>1, <1>2, WholePoolKept DEF WriteClass
  <2> QED
    BY <2>1, <2>2, <2>3 DEF Written
<1> QED
  BY <1>3, <1>4, <1>5, <1>6, <1>7, <1>8 DEF IInv

LEMMA StutterIInv == ASSUME IInv, UNCHANGED vars PROVE IInv'
<1>1. /\ UNCHANGED <<cls, pc, parse, added, methods, found, out>>
      /\ UNCHANGED <<i, cp_cursor, cp_tags, cp_offsets, post_cp_offset>>
      /\ UNCHANGED <<cp_count_new, new_cp_entries, native_method_ref_idx>>
      /\ UNCHANGED <<target_method, target_field_ref_idx>>
  BY DEF vars, parse, added, found
<1>2. cp_count_original' = cp_count_original
  BY <1>1, Fixed
<1>3. Typed'
  BY <1>1, <1>2 DEF IInv, Typed
<1>4. Walk'
  BY <1>1, <1>2 DEF IInv, Walk, AtConstant, Parsed
<1>5. PoolRead' /\ ConstantsAdded' /\ Located'
  BY <1>1, PoolReadStays, AddedStays, LocatedStays DEF IInv
<1>6. MethodsKept'
  <2>1. Edited' = Edited
    BY <1>1, EditedFixed
  <2> QED
    BY <1>1, <2>1, Fixed DEF IInv, MethodsKept
<1>7. Written'
  <2>1. \A m : WrittenMethod(m)' = WrittenMethod(m)
    BY <1>1, <1>2 DEF WrittenMethod, CodeName, StringIs, Read
  <2> QED
    BY <1>1, <2>1 DEF IInv, Written
<1> QED
  BY <1>3, <1>4, <1>5, <1>6, <1>7 DEF IInv

LEMMA NextIInv == IInv /\ [Next]_vars => IInv'
  BY ParseConstantIInv, ParseBodyIInv, AddNativeMethodIInv, FindMethodIInv, FindFieldIInv,
     EditCodeIInv, WriteClassIInv, StutterIInv DEF Next

LEMMA SpecIInv == Spec => []IInv
  BY InitIInv, NextIInv, PTL DEF Spec

-----------------------------------------------------------------------------
(* The methods, when they are written. *)
LEMMA MethodsWritten ==
    ASSUME IInv, pc \in {"write", "done"}
    PROVE  /\ Len(methods) = Len(cls.methods) + 1
           /\ DOMAIN methods = 1 .. Len(cls.methods) + 1
           /\ target_method = Least(Targets)
           /\ target_method \in 1 .. Len(cls.methods)
           /\ methods[target_method] = Edited
           /\ \A k \in 1 .. Len(cls.methods) :
                k # target_method => methods[k] = Blank(k)
           /\ methods[Len(cls.methods) + 1] = NativeMethod
<1> DEFINE n == Len(cls.methods)
           parsed == Append(Blanks, NativeMethod)
<1>1. cls \in Classes /\ methods = [parsed EXCEPT ![target_method] = Edited]
  BY DEF IInv, Typed, MethodsKept
<1>2. Targets # {} /\ target_method = Least(Targets)
  BY DEF IInv, Located
<1>3. n \in Nat /\ target_method \in 1 .. n
  BY <1>1, <1>2, TargetParsed, ClassBody
<1>4. /\ DOMAIN parsed = 1 .. n + 1 /\ parsed[n + 1] = NativeMethod
      /\ \A k \in 1 .. n : parsed[k] = Blank(k)
  BY <1>1, ParsedMethods
<1> DEFINE All == {parsed[k] : k \in 1 .. n + 1} \cup {Edited}
<1>5. methods \in [1 .. n + 1 -> All] /\ n + 1 \in Nat
  <2> HIDE DEF parsed, n
  <2>1. methods = [k \in 1 .. n + 1 |-> IF k = target_method THEN Edited ELSE parsed[k]]
    BY <1>1, <1>4
  <2> QED
    BY <1>3, <2>1
<1>6. methods \in Seq(All) /\ Len(methods) = n + 1
  <2> HIDE DEF All, n
  <2> QED
    BY <1>3, <1>5, LenProperties
<1>7. /\ target_method \in 1 .. n + 1 /\ n + 1 \in 1 .. n + 1 /\ n + 1 # target_method
      /\ \A k \in 1 .. n : k \in 1 .. n + 1
  BY <1>3
<1>8. /\ methods[target_method] = Edited
      /\ \A k \in 1 .. n + 1 : k # target_method => methods[k] = parsed[k]
  <2> HIDE DEF parsed, n
  <2> QED
    BY <1>1, <1>4, <1>7
<1> HIDE DEF parsed, n
<1>9. /\ methods[n + 1] = NativeMethod
      /\ \A k \in 1 .. n : k # target_method => methods[k] = Blank(k)
  BY <1>4, <1>7, <1>8
<1> QED
  BY <1>2, <1>3, <1>5, <1>6, <1>8, <1>9 DEF n

-----------------------------------------------------------------------------
(* The cursor stays at the beginnings of constants, the arrays keep their   *)
(* bounds and every index kept is one of the class file                     *)
(* (instrumenter.cpp:186-220): TypeOK.                                      *)
THEOREM TypeCorrect == Spec => []TypeOK
<1>1. ASSUME IInv PROVE TypeOK
  <2>1. cls \in Classes
    BY <1>1 DEF IInv, Typed
  <2>2. IsClass(cls)
    BY <2>1, ClassesAssumption
  <2>3. PICK n \in 1 .. Len(cls.pool) + 1 : AtConstant(n)
    BY <1>1 DEF IInv, Walk
  <2>4. i \in 1 .. cp_count_original
    BY <2>1, <2>3, WalkIsAtConstant
  <2>5. cp_cursor \in Range(cls.start)
    <3>1. n \in DOMAIN cls.start
      BY <2>2, <2>3 DEF IsClass, IsPool
    <3> QED
      BY <2>3, <3>1 DEF AtConstant, Range
  <2> QED
    BY <1>1, <2>2, <2>4, <2>5 DEF IInv, Typed, TypeOK
<1> QED
  BY <1>1, SpecIInv, PTL

(* For every constant pool the walk of parse_class_file                     *)
(* (instrumenter.cpp:195-220) ends with every index where the JVM has it,   *)
(* and the rest of the class where the pool ends: ParsedAsJVMReads.         *)
THEOREM WalkIsTheJVMs == Spec => []ParsedAsJVMReads
<1>1. ASSUME IInv, pc \notin {"pool", "thrown", "crashed"}
      PROVE  /\ \A idx \in DOMAIN cp_tags :
                /\ cp_tags[idx] = Entry(cls.pool, cls.slot, idx).tag
                /\ cp_tags[idx] # 0 =>
                    Read(cp_offsets[idx]) = Entry(cls.pool, cls.slot, idx)
             /\ post_cp_offset = cls.start[Len(cls.pool) + 1]
  <2>1. ReadsAsJVM /\ post_cp_offset = cls.start[Len(cls.pool) + 1]
    BY <1>1 DEF IInv, PoolRead, Failed
  <2>2. DOMAIN cp_tags = 0 .. cp_count_original - 1
    BY <1>1 DEF IInv, Typed
  <2> QED
    BY <2>1, <2>2 DEF ReadsAsJVM, Constant
<1>2. IInv => ParsedAsJVMReads
  BY <1>1 DEF ParsedAsJVMReads
<1> QED
  BY <1>2, SpecIInv, PTL

(* What ends a call without a class written is missing in the class.        *)
Refused == pc = "thrown" => ~ Instrumentable

LEMMA InstrumentableStays == ASSUME cls' = cls PROVE Instrumentable' <=> Instrumentable
<1>1. /\ Targets' = Targets /\ cp_count_original' = cp_count_original
      /\ \A idx : Constant(idx)' = Constant(idx)
  BY Fixed
<1>2. Codes(cls.methods[Least(Targets)])' = Codes(cls.methods[Least(Targets)])
  BY <1>1 DEF Codes, Names
<1>3. \A idx : IsFieldref(Constant, idx, field_to_get)'
                    <=> IsFieldref(Constant, idx, field_to_get)
  BY <1>1 DEF IsFieldref
<1> QED
  BY <1>1, <1>2, <1>3 DEF Instrumentable

(* A Fieldref of the name looked for is among those the search finds. *)
LEMMA FieldrefIsFound ==
    ASSUME IInv, pc = "field", NEW idx \in 1 .. cp_count_original - 1,
           IsFieldref(Constant, idx, field_to_get)
    PROVE  /\ cp_tags[idx] = 9
           /\ StringIs(Read(cp_offsets[Read(cp_offsets[idx]).i2]).i1, field_to_get)
<1> DEFINE nat == Constant(Constant(idx).i2)
<1>1. cls \in Classes /\ ReadsAsJVM
  BY DEF IInv, Typed, PoolRead, Failed
<1>2. \A x \in 1 .. cp_count_original - 1 : x \in 0 .. cp_count_original - 1
  BY <1>1, CountType
<1>3. Constant(idx).tag = 9 /\ Names(nat.i1, field_to_get)
  BY DEF IsFieldref, Names
<1>4. cp_tags[idx] = 9 /\ Read(cp_offsets[idx]) = Constant(idx)
  BY <1>1, <1>2, <1>3 DEF ReadsAsJVM
<1>5. /\ Constant(idx).i2 \in 0 .. cp_count_original - 1
      /\ nat.i1 \in 0 .. cp_count_original - 1
  BY <1>1, <1>2, <1>3, FieldrefFacts
<1>6. Read(cp_offsets[Constant(idx).i2]) = nat
  BY <1>1, <1>5 DEF ReadsAsJVM
<1>7. StringIs(nat.i1, field_to_get)
  BY <1>1, <1>3, <1>5, StringIsNames
<1> QED
  BY <1>4, <1>6, <1>7

LEMMA NextRefused == IInv /\ Refused /\ [Next]_vars => Refused'
<1> SUFFICES ASSUME IInv, Refused, [Next]_vars, pc' = "thrown"
             PROVE  ~ Instrumentable
  <2>1. [Next]_vars => (Instrumentable' <=> Instrumentable)
    BY ClassStays, InstrumentableStays
  <2> QED
    BY <2>1 DEF Refused
<1>1. cls \in Classes
  BY DEF IInv, Typed
<1>2. CASE ParseConstant
  <2>1. PICK n \in 1 .. Len(cls.pool) + 1 : AtConstant(n)
    BY DEF IInv, Walk
  <2>2. n \in 1 .. Len(cls.pool)
    BY <1>1, <1>2, <2>1, WalkIsAtConstant DEF ParseConstant
  <2>3. Read(cp_cursor) = cls.pool[n]
    BY <1>1, <2>1, <2>2, ReadAt DEF AtConstant
  <2>4. cls.pool[n].tag \in Tags /\ n \in DOMAIN cls.pool
    BY <1>1, <2>2, LaidOut DEF IsLaidOut
  <2>5. cls.pool[n].tag \notin Tags \ Unsupported
    BY <1>2, <2>3 DEF ParseConstant
  <2> QED
    BY <2>4, <2>5 DEF Instrumentable
<1>3. CASE FindMethod
  <2>1. Targets = {}
    BY <1>3, MethodsFound DEF FindMethod
  <2> QED
    BY <2>1 DEF Instrumentable
<1>4. CASE FindField
  <2>1. pc = "field"
        /\ {idx \in 1 .. cp_count_original - 1 :
                /\ cp_tags[idx] = 9
                /\ StringIs(Read(cp_offsets[Read(cp_offsets[idx]).i2]).i1, field_to_get)} = {}
    BY <1>4 DEF FindField
  <2> QED
    BY <2>1, FieldrefIsFound DEF Instrumentable
<1>5. CASE EditCode
  <2>1. Codes(cls.methods[Least(Targets)]) = {}
    BY <1>5, CodesFound DEF EditCode
  <2> QED
    BY <2>1 DEF Instrumentable
<1>6. CASE WriteClass
  <2>1. pc = "write" /\ Len(methods) >= Limit
    BY <1>6 DEF WriteClass
  <2>2. Len(methods) = Len(cls.methods) + 1
    BY <2>1, MethodsWritten
  <2>3. Len(cls.methods) \in Nat /\ Limit \in Nat
    BY <1>1, ClassBody, LimitAssumption
  <2>4. ~ (Len(cls.methods) + 1 < Limit)
    BY <2>1, <2>2, <2>3
  <2> QED
    BY <2>4 DEF Instrumentable
<1>7. CASE ParseBody \/ AddNativeMethod
  BY <1>7 DEF ParseBody, AddNativeMethod
<1>8. CASE UNCHANGED vars
  BY <1>8 DEF vars, Refused
<1> QED
  BY <1>2, <1>3, <1>4, <1>5, <1>6, <1>7, <1>8 DEF Next

(* A class is written only if it can be instrumented, an exception is for   *)
(* the others, and the process only dies over a class without the method    *)
(* (instrumenter.cpp:32, 36, 53, 168, 217, 356, 371):                       *)
(* WrittenIfInstrumentable.                                                 *)
THEOREM OnlyInstrumentableIsWritten == Spec => []WrittenIfInstrumentable
<1>1. ASSUME IInv, pc = "done" PROVE Instrumentable
  <2>1. \A k \in DOMAIN cls.pool : cls.pool[k].tag \notin Unsupported
    BY <1>1 DEF IInv, PoolRead, Failed
  <2>2. Targets # {} /\ Codes(cls.methods[Least(Targets)]) # {}
    BY <1>1 DEF IInv, Located
  <2>3. \E idx \in 1 .. cp_count_original - 1 : IsFieldref(Constant, idx, field_to_get)
    BY <1>1 DEF IInv, Located
  <2>4. Len(cls.methods) + 1 < Limit
    BY <1>1, MethodsWritten DEF IInv, Written
  <2> QED
    BY <2>1, <2>2, <2>3, <2>4 DEF Instrumentable
<1>2. IInv /\ Refused => WrittenIfInstrumentable
  BY <1>1 DEF WrittenIfInstrumentable, IInv, Located, Refused
<1>3. Init => Refused
  BY DEF Init, Refused
<1>4. Spec => []Refused
  BY <1>3, NextRefused, SpecIInv, PTL DEF Spec
<1> QED
  BY <1>2, <1>4, SpecIInv, PTL

-----------------------------------------------------------------------------
(* The entries kept of a sequence: each is one of the entries at the given  *)
(* positions, and of a prefix all are kept.                                 *)
Below(ks, k) == {l \in ks : l <= k}

LEMMA KeptSeq ==
    ASSUME NEW s, NEW ks, IsFiniteSet(ks)
    PROVE  /\ Cardinality(ks) \in Nat
           /\ Kept(s, ks) \in Seq({Kept(s, ks)[j] : j \in 1 .. Cardinality(ks)})
           /\ Len(Kept(s, ks)) = Cardinality(ks)
           /\ DOMAIN Kept(s, ks) = 1 .. Cardinality(ks)
<1> DEFINE c == Cardinality(ks)
           K == Kept(s, ks)
           All == {K[j] : j \in 1 .. c}
<1>1. c \in Nat
  BY FS_CardinalityType
<1>2. DOMAIN K = 1 .. c /\ K = [j \in 1 .. c |-> K[j]]
  BY DEF Kept
<1> HIDE DEF c, K
<1>3. K \in [1 .. c -> All]
  BY <1>2
<1> HIDE DEF All
<1>4. K \in Seq(All) /\ Len(K) = c
  BY <1>1, <1>3, LenProperties
<1> QED
  BY <1>1, <1>2, <1>4 DEF c, K, All

LEMMA KeptFrom ==
    ASSUME NEW s, NEW ks \in SUBSET Nat, IsFiniteSet(ks)
    PROVE  \A j \in 1 .. Cardinality(ks) : \E k \in ks : Kept(s, ks)[j] = s[k]
<1> TAKE j \in 1 .. Cardinality(ks)
<1> DEFINE c == Cardinality(ks)
           rank == [k \in ks |-> Cardinality(Below(ks, k))]
<1>1. c \in Nat
  BY FS_CardinalityType
<1>2. ASSUME NEW k \in ks
      PROVE  /\ IsFiniteSet(Below(ks, k))
             /\ Cardinality(Below(ks, k)) \in Nat
             /\ Cardinality(Below(ks, k)) <= c
             /\ Cardinality(Below(ks, k)) # 0
  <2>1. Below(ks, k) \in SUBSET ks /\ k \in Below(ks, k)
    BY DEF Below
  <2>2. IsFiniteSet(Below(ks, k)) /\ Cardinality(Below(ks, k)) <= c
    BY <2>1, FS_Subset
  <2> QED
    BY <2>1, <2>2, FS_CardinalityType, FS_EmptySet
<1>3. ASSUME NEW k \in ks, NEW l \in ks, k < l
      PROVE  Cardinality(Below(ks, k)) # Cardinality(Below(ks, l))
  <2>1. Below(ks, k) \in SUBSET Below(ks, l) /\ l \in Below(ks, l) /\ l \notin Below(ks, k)
    <3>1. k \in Nat /\ l \in Nat /\ l <= l /\ ~ (l <= k)
      BY <1>3
    <3>2. \A x \in ks : x <= k => x <= l
      BY <1>3, <3>1
    <3> QED
      BY <3>1, <3>2 DEF Below
  <2> QED
    BY <1>2, <2>1, FS_Subset
<1>4. rank \in Injection(ks, 1 .. c)
  <2>1. ASSUME NEW k \in ks PROVE Cardinality(Below(ks, k)) \in 1 .. c
    BY <1>1, <1>2
  <2>2. rank \in [ks -> 1 .. c]
    BY <2>1
  <2>3. ASSUME NEW k \in ks, NEW l \in ks, rank[k] = rank[l] PROVE k = l
    <3>1. k \in Nat /\ l \in Nat /\ ~ (k < l) /\ ~ (l < k)
      BY <1>3, <2>3
    <3> QED
      BY <3>1
  <2> HIDE DEF rank, c
  <2> QED
    BY <2>2, <2>3 DEF Injection, IsInjective
<1>5. IsFiniteSet(1 .. c) /\ Cardinality(1 .. c) = c
  <2> HIDE DEF c
  <2>1. IsFiniteSet(1 .. c) /\ Cardinality(1 .. c) = IF 1 > c THEN 0 ELSE c - 1 + 1
    BY <1>1, FS_Interval
  <2> QED
    BY <1>1, <2>1
<1>6. rank \in Surjection(ks, 1 .. c)
  <2> HIDE DEF rank
  <2> QED
    BY <1>4, <1>5, FS_Injection
<1>7. \E k \in ks : rank[k] = j
  <2> HIDE DEF rank
  <2> QED
    BY <1>6 DEF Surjection
<1>8. \E k \in ks : Cardinality({l \in ks : l <= k}) = j
  BY <1>7 DEF Below
<1>9. Kept(s, ks)[j] = s[CHOOSE k \in ks : Cardinality({l \in ks : l <= k}) = j]
  BY DEF Kept
<1> QED
  BY <1>8, <1>9

LEMMA IntervalSize == ASSUME NEW m \in Nat PROVE IsFiniteSet(1 .. m) /\ Cardinality(1 .. m) = m
<1>1. IsFiniteSet(1 .. m) /\ Cardinality(1 .. m) = IF 1 > m THEN 0 ELSE m - 1 + 1
  BY FS_Interval
<1> QED
  BY <1>1

LEMMA KeptPrefix ==
    ASSUME NEW s, NEW m \in Nat
    PROVE  Kept(s, 1 .. m) = [j \in 1 .. m |-> s[j]]
<1>1. Cardinality(1 .. m) = m
  BY IntervalSize
<1>2. ASSUME NEW k \in 1 .. m PROVE Cardinality({l \in 1 .. m : l <= k}) = k
  <2>1. {l \in 1 .. m : l <= k} = 1 .. k /\ k \in Nat
    OBVIOUS
  <2> QED
    BY <2>1, IntervalSize
<1>3. ASSUME NEW j \in 1 .. m
      PROVE  (CHOOSE k \in 1 .. m : Cardinality({l \in 1 .. m : l <= k}) = j) = j
  BY <1>2
<1>4. Kept(s, 1 .. m) =
        [j \in 1 .. m |-> s[CHOOSE k \in 1 .. m : Cardinality({l \in 1 .. m : l <= k}) = j]]
  BY <1>1 DEF Kept
<1> QED
  BY <1>3, <1>4

-----------------------------------------------------------------------------
(* The pool as it is written, and the indices of its constants.             *)
NewPool(nameFirst) == cls.pool \o NewEntries(nameFirst)

LEMMA NewPoolIs ==
    ASSUME cls \in Classes, NEW nameFirst \in BOOLEAN
    PROVE  /\ Len(cls.pool) \in Nat /\ DOMAIN cls.pool = 1 .. Len(cls.pool)
           /\ Len(NewPool(nameFirst)) = Len(cls.pool) + 6
           /\ DOMAIN NewPool(nameFirst) = 1 .. Len(cls.pool) + 6
           /\ \A k \in 1 .. Len(cls.pool) : NewPool(nameFirst)[k] = cls.pool[k]
           /\ \A j \in 1 .. 6 :
                NewPool(nameFirst)[Len(cls.pool) + j] = NewEntries(nameFirst)[j]
<1> DEFINE P == cls.pool
           E == NewEntries(nameFirst)
           n == Len(P)
           All == Constants \cup {E[j] : j \in 1 .. 6}
<1>1. n \in Nat /\ DOMAIN P = 1 .. n
  BY LaidOut DEF IsLaidOut
<1>2. P \in Seq(All)
  <2>1. P \in Seq(Constants)
    BY ClassesAssumption DEF IsClass, IsPool
  <2> HIDE DEF P
  <2> QED
    BY <2>1
<1>3. E \in Seq(All) /\ Len(E) = 6
  <2>1. E \in Seq({E[j] : j \in 1 .. 6}) /\ Len(E) = 6
    BY DEF NewEntries
  <2> HIDE DEF E
  <2> QED
    BY <2>1
<1> HIDE DEF P, E, All
<1>4. /\ P \o E \in Seq(All) /\ Len(P \o E) = n + 6
      /\ \A k \in 1 .. n + 6 : (P \o E)[k] = IF k <= n THEN P[k] ELSE E[k - n]
  <2>1. /\ P \o E \in Seq(All) /\ Len(P \o E) = n + Len(E)
        /\ \A k \in 1 .. n + Len(E) : (P \o E)[k] = IF k <= n THEN P[k] ELSE E[k - n]
    BY <1>2, <1>3, ConcatProperties
  <2> QED
    BY <1>3, <2>1
<1>5. DOMAIN (P \o E) = 1 .. n + 6
  BY <1>4, LenProperties
<1> HIDE DEF n
<1>6. ASSUME NEW k \in 1 .. n PROVE (P \o E)[k] = P[k]
  BY <1>1, <1>4
<1>7. ASSUME NEW j \in 1 .. 6 PROVE (P \o E)[n + j] = E[j]
  <2>1. n + j \in 1 .. n + 6 /\ ~ (n + j <= n) /\ (n + j) - n = j
    BY <1>1
  <2> QED
    BY <1>4, <2>1
<1> QED
  BY <1>1, <1>4, <1>5, <1>6, <1>7 DEF P, E, n, NewPool

LEMMA NewEntriesShort ==
    ASSUME NEW nameFirst \in BOOLEAN, NEW j \in 1 .. 6
    PROVE  JVMSlots(NewEntries(nameFirst)[j]) = 1
<1> DEFINE E == NewEntries(nameFirst)
<1>1. /\ E[1].tag = 1 /\ E[2].tag = 1 /\ E[3].tag = 1 /\ E[4].tag = 1
      /\ E[5].tag = 12 /\ E[6].tag = 10
  BY DEF NewEntries, Utf8, Ref
<1>2. j = 1 \/ j = 2 \/ j = 3 \/ j = 4 \/ j = 5 \/ j = 6
  OBVIOUS
<1>3. E[j].tag \notin {5, 6}
  <2> HIDE DEF E
  <2> QED
    BY <1>1, <1>2
<1> QED
  BY <1>3 DEF JVMSlots

LEMMA NewSlots ==
    ASSUME cls \in Classes, NEW nameFirst \in BOOLEAN
    PROVE  LET slot == Slots(NewPool(nameFirst)) IN
           /\ \A k \in 1 .. Len(cls.pool) + 1 : slot[k] = cls.slot[k]
           /\ \A j \in 0 .. 6 : slot[Len(cls.pool) + 1 + j] = cp_count_original + j
<1> DEFINE n == Len(cls.pool)
           O == NewPool(nameFirst)
           slot == Slots(O)
<1>1. /\ n \in Nat /\ Len(O) = n + 6 /\ Len(O) \in Nat
      /\ \A k \in 1 .. n : O[k] = cls.pool[k]
      /\ \A j \in 1 .. 6 : O[n + j] = NewEntries(nameFirst)[j]
  BY NewPoolIs
<1>2. ASSUME NEW k \in 1 .. n + 1 PROVE slot[k] = cls.slot[k]
  <2>1. LongsBefore(O, k) = LongsBefore(cls.pool, k)
    <3>1. \A l \in 1 .. k - 1 : O[l] = cls.pool[l]
      BY <1>1
    <3> HIDE DEF O
    <3> QED
      BY <3>1 DEF LongsBefore
  <2>2. k \in 1 .. Len(O) + 1
    <3> HIDE DEF O, n
    <3> QED
      BY <1>1
  <2>3. slot[k] = k + Cardinality(LongsBefore(O, k))
    <3> HIDE DEF O
    <3> QED
      BY <1>1, <2>2, SlotsAt
  <2>4. cls.slot = Slots(cls.pool)
    BY ClassesAssumption DEF IsClass, IsPool
  <2>5. cls.slot[k] = k + Cardinality(LongsBefore(cls.pool, k))
    BY <1>1, <2>4, SlotsAt
  <2> QED
    BY <2>1, <2>3, <2>5
<1>3. ASSUME NEW j \in 1 .. 6 PROVE slot[n + 1 + j] = slot[n + 1 + (j - 1)] + 1
  <2>1. n + j \in 1 .. Len(O) /\ n + j + 1 = n + 1 + j /\ n + 1 + (j - 1) = n + j
    <3> HIDE DEF O, n
    <3> QED
      BY <1>1
  <2>2. slot[n + j + 1] = slot[n + j] + JVMSlots(O[n + j])
    <3> HIDE DEF O, n
    <3> QED
      BY <1>1, <2>1, SlotsStep
  <2>3. JVMSlots(O[n + j]) = 1
    BY <1>1, NewEntriesShort
  <2> HIDE DEF slot, O, n
  <2> QED
    BY <2>1, <2>2, <2>3
<1>4. cp_count_original \in Nat /\ slot[n + 1 + 0] = cp_count_original
  <2>1. n + 1 \in 1 .. n + 1 /\ n + 1 + 0 = n + 1
    BY <1>1
  <2> QED
    BY <1>2, <2>1, CountType DEF cp_count_original
<1> HIDE DEF slot, n, O
<1>5. /\ slot[n + 1 + 1] = slot[n + 1 + 0] + 1 /\ slot[n + 1 + 2] = slot[n + 1 + 1] + 1
      /\ slot[n + 1 + 3] = slot[n + 1 + 2] + 1 /\ slot[n + 1 + 4] = slot[n + 1 + 3] + 1
      /\ slot[n + 1 + 5] = slot[n + 1 + 4] + 1 /\ slot[n + 1 + 6] = slot[n + 1 + 5] + 1
  <2>1. /\ 1 \in 1 .. 6 /\ 2 \in 1 .. 6 /\ 3 \in 1 .. 6 /\ 4 \in 1 .. 6
        /\ 5 \in 1 .. 6 /\ 6 \in 1 .. 6
        /\ 1 - 1 = 0 /\ 2 - 1 = 1 /\ 3 - 1 = 2 /\ 4 - 1 = 3 /\ 5 - 1 = 4 /\ 6 - 1 = 5
    OBVIOUS
  <2> QED
    BY <1>3, <2>1
<1>6. /\ slot[n + 1 + 1] = cp_count_original + 1 /\ slot[n + 1 + 2] = cp_count_original + 2
      /\ slot[n + 1 + 3] = cp_count_original + 3 /\ slot[n + 1 + 4] = cp_count_original + 4
      /\ slot[n + 1 + 5] = cp_count_original + 5 /\ slot[n + 1 + 6] = cp_count_original + 6
  BY <1>4, <1>5
<1>7. ASSUME NEW j \in 0 .. 6 PROVE slot[n + 1 + j] = cp_count_original + j
  <2>1. j = 0 \/ j = 1 \/ j = 2 \/ j = 3 \/ j = 4 \/ j = 5 \/ j = 6
    OBVIOUS
  <2> QED
    BY <1>4, <1>6, <2>1
<1> QED
  BY <1>2, <1>7 DEF slot, n, O

(* Below the old count every index is what it was. *)
LEMMA OldEntry ==
    ASSUME cls \in Classes, NEW nameFirst \in BOOLEAN, NEW idx \in 1 .. cp_count_original - 1
    PROVE  Entry(NewPool(nameFirst), Slots(NewPool(nameFirst)), idx) = Constant(idx)
<1> DEFINE n == Len(cls.pool)
           O == NewPool(nameFirst)
           slot == Slots(O)
<1>1. /\ n \in Nat /\ DOMAIN cls.pool = 1 .. n /\ DOMAIN O = 1 .. n + 6
      /\ \A k \in 1 .. n : O[k] = cls.pool[k]
  BY NewPoolIs
<1>2. /\ \A k \in 1 .. n + 1 : slot[k] = cls.slot[k]
      /\ \A j \in 0 .. 6 : slot[n + 1 + j] = cp_count_original + j
  BY NewSlots
<1>3. cp_count_original \in Nat
  BY CountType
<1> HIDE DEF O, slot
<1>4. {k \in DOMAIN O : slot[k] = idx} = {k \in DOMAIN cls.pool : cls.slot[k] = idx}
  <2> HIDE DEF n
  <2>1. ASSUME NEW k \in 1 .. n PROVE k \in 1 .. n + 6 /\ slot[k] = cls.slot[k]
    BY <1>1, <1>2
  <2>2. ASSUME NEW k \in 1 .. n + 6, k \notin 1 .. n PROVE slot[k] # idx
    <3>1. PICK j \in 0 .. 6 : k = n + 1 + j
      <4>1. k - n - 1 \in 0 .. 6 /\ k = n + 1 + (k - n - 1)
        BY <1>1, <2>2
      <4> QED
        BY <4>1
    <3>2. slot[k] = cp_count_original + j
      BY <1>2, <3>1
    <3> QED
      BY <1>3, <3>2
  <2> QED
    BY <1>1, <2>1, <2>2
<1> DEFINE ks == {k \in DOMAIN cls.pool : cls.slot[k] = idx}
<1>5. Entry(O, slot, idx) = IF ks = {} THEN Null ELSE O[CHOOSE k \in ks : TRUE]
  <2> DEFINE js == {k \in DOMAIN O : slot[k] = idx}
  <2>1. Entry(O, slot, idx) = IF js = {} THEN Null ELSE O[CHOOSE k \in js : TRUE]
    BY DEF Entry, Null
  <2>2. js = ks
    BY <1>4
  <2> HIDE DEF js, ks
  <2> QED
    BY <2>1, <2>2
<1>6. Constant(idx) = IF ks = {} THEN Null ELSE cls.pool[CHOOSE k \in ks : TRUE]
  BY DEF Constant, Entry, Null
<1>7. ks # {} => O[CHOOSE k \in ks : TRUE] = cls.pool[CHOOSE k \in ks : TRUE]
  BY <1>1
<1> QED
  BY <1>5, <1>6, <1>7 DEF O, slot

(* From the old count on the indices name the constants added. *)
LEMMA NewEntry ==
    ASSUME cls \in Classes, NEW nameFirst \in BOOLEAN, NEW j \in 0 .. 5
    PROVE  Entry(NewPool(nameFirst), Slots(NewPool(nameFirst)), cp_count_original + j)
                = NewEntries(nameFirst)[j + 1]
<1> DEFINE n == Len(cls.pool)
           O == NewPool(nameFirst)
           slot == Slots(O)
           idx == cp_count_original + j
<1>1. /\ n \in Nat /\ DOMAIN cls.pool = 1 .. n /\ DOMAIN O = 1 .. n + 6
      /\ \A l \in 1 .. 6 : O[n + l] = NewEntries(nameFirst)[l]
  BY NewPoolIs
<1>2. /\ \A k \in 1 .. n + 1 : slot[k] = cls.slot[k]
      /\ \A l \in 0 .. 6 : slot[n + 1 + l] = cp_count_original + l
  BY NewSlots
<1>3. /\ cp_count_original \in Nat
      /\ \A k \in 1 .. n : cls.slot[k] \in 1 .. cp_count_original - 1
  BY CountType, SlotInRange
<1> HIDE DEF O, slot, n
<1>4. {k \in DOMAIN O : slot[k] = idx} = {n + 1 + j}
  <2>1. n + 1 + j \in 1 .. n + 6 /\ slot[n + 1 + j] = idx
    <3>1. n + 1 + j \in 1 .. n + 6
      BY <1>1
    <3>2. j \in 0 .. 6
      OBVIOUS
    <3>3. slot[n + 1 + j] = cp_count_original + j
      BY <1>2, <3>2
    <3> QED
      BY <3>1, <3>3
  <2>2. ASSUME NEW k \in 1 .. n + 6, slot[k] = idx PROVE k = n + 1 + j
    <3>1. CASE k \in 1 .. n
      <4>1. slot[k] \in 1 .. cp_count_original - 1
        <5>1. k \in 1 .. n + 1
          BY <1>1, <3>1
        <5>2. slot[k] = cls.slot[k]
          BY <1>2, <5>1
        <5> QED
          BY <1>3, <3>1, <5>2
      <4> QED
        BY <1>3, <2>2, <4>1
    <3>2. CASE k \notin 1 .. n
      <4>1. k - n - 1 \in 0 .. 6 /\ k = n + 1 + (k - n - 1)
        BY <1>1, <3>2
      <4>2. PICK l \in 0 .. 6 : k = n + 1 + l
        BY <4>1
      <4>3. slot[k] = cp_count_original + l
        BY <1>2, <4>2
      <4> QED
        BY <1>3, <2>2, <4>2, <4>3
    <3> QED
      BY <3>1, <3>2
  <2> QED
    BY <1>1, <2>1, <2>2
<1>5. Entry(O, slot, idx) = O[n + 1 + j]
  <2> HIDE DEF idx
  <2> QED
    BY <1>4 DEF Entry
<1>6. O[n + 1 + j] = NewEntries(nameFirst)[j + 1]
  <2>1. j + 1 \in 1 .. 6 /\ n + (j + 1) = n + 1 + j
    BY <1>1
  <2> QED
    BY <1>1, <2>1
<1> QED
  BY <1>5, <1>6 DEF O, slot

(* Without a wrap-around the constants added have the indices from the old  *)
(* count on.                                                                *)
LEMMA NewFits ==
    ASSUME cls \in Classes, CountFits, NEW k \in 0 .. 6
    PROVE  New(k) = cp_count_original + k
<1>1. /\ cp_count_original \in Nat /\ Limit \in Nat
      /\ cp_count_original + k \in 0 .. Limit - 1
  BY CountType, LimitAssumption DEF CountFits
<1> QED
  BY <1>1 DEF New

(* When a class is written. *)
LEMMA WhenWritten ==
    ASSUME IInv, pc = "done"
    PROVE  /\ cls \in Classes /\ ReadsAsJVM
           /\ out.count = New(6)
           /\ \E nameFirst \in BOOLEAN : out.pool = NewPool(nameFirst)
           /\ out.methods = [k \in DOMAIN methods |-> WrittenMethod(methods[k])]
           /\ native_method_ref_idx = New(5)
           /\ target_field_ref_idx \in 1 .. cp_count_original - 1
           /\ IsFieldref(Constant, target_field_ref_idx, field_to_get)
<1>1. cls \in Classes /\ ReadsAsJVM
  BY DEF IInv, Typed, PoolRead, Failed
<1>2. /\ cp_count_new = New(6) /\ native_method_ref_idx = New(5)
      /\ \E nameFirst \in BOOLEAN : new_cp_entries = NewEntries(nameFirst)
  BY DEF IInv, ConstantsAdded
<1>3. out = [count |-> cp_count_new, pool |-> cls.pool \o new_cp_entries,
             methods |-> [k \in DOMAIN methods |-> WrittenMethod(methods[k])]]
  BY DEF IInv, Written
<1>4. /\ out.count = cp_count_new /\ out.pool = cls.pool \o new_cp_entries
      /\ out.methods = [k \in DOMAIN methods |-> WrittenMethod(methods[k])]
  BY <1>3
<1>5. \E nameFirst \in BOOLEAN : out.pool = NewPool(nameFirst)
  BY <1>2, <1>4 DEF NewPool
<1>6. /\ target_field_ref_idx \in 1 .. cp_count_original - 1
      /\ IsFieldref(Constant, target_field_ref_idx, field_to_get)
  BY DEF IInv, Located
<1> QED
  BY <1>1, <1>2, <1>4, <1>5, <1>6

(* The constants of the class file keep their indices, whatever is added    *)
(* behind them, and the count is the one of the pool that is written        *)
(* (instrumenter.cpp:141-147, 384-409): ConstantsStay.                      *)
THEOREM ConstantsKeepTheirIndices == Spec => []ConstantsStay
<1>1. ASSUME IInv, pc = "done", CountFits
      PROVE  /\ out.count = Slots(out.pool)[Len(out.pool) + 1]
             /\ \A idx \in 1 .. cp_count_original - 1 :
                Entry(out.pool, Slots(out.pool), idx) = Entry(cls.pool, cls.slot, idx)
  <2>1. PICK nameFirst \in BOOLEAN : out.pool = NewPool(nameFirst)
    BY <1>1, WhenWritten
  <2>2. cls \in Classes /\ out.count = New(6)
    BY <1>1, WhenWritten
  <2>3. out.count = cp_count_original + 6
    BY <1>1, <2>2, NewFits
  <2>4. Len(cls.pool) \in Nat /\ Len(out.pool) + 1 = Len(cls.pool) + 1 + 6
    <3>1. Len(cls.pool) \in Nat /\ Len(out.pool) = Len(cls.pool) + 6
      BY <2>1, <2>2, NewPoolIs
    <3> QED
      BY <3>1
  <2>5. Slots(out.pool)[Len(cls.pool) + 1 + 6] = cp_count_original + 6
    BY <2>1, <2>2, NewSlots
  <2>6. ASSUME NEW idx \in 1 .. cp_count_original - 1
        PROVE  Entry(out.pool, Slots(out.pool), idx) = Entry(cls.pool, cls.slot, idx)
    BY <2>1, <2>2, OldEntry DEF Constant
  <2> QED
    BY <2>3, <2>4, <2>5, <2>6
<1>2. IInv => ConstantsStay
  BY <1>1 DEF ConstantsStay
<1> QED
  BY <1>2, SpecIInv, PTL

-----------------------------------------------------------------------------
(* The name the new Code attribute gets is that of a Utf8 "Code": the       *)
(* method edited had such an attribute.                                     *)
LEMMA CodeIsNamed ==
    ASSUME IInv, pc = "done"
    PROVE  Names(CodeName, "Code")
<1> DEFINE t == target_method
           as == cls.methods[t].attributes
           codes == {idx \in 1 .. cp_count_original - 1 :
                        cp_tags[idx] = 1 /\ StringIs(idx, "Code")}
<1>1. cls \in Classes /\ ReadsAsJVM
  BY WhenWritten
<1>2. Targets # {} /\ t = Least(Targets) /\ Codes(cls.methods[t]) # {}
  BY DEF IInv, Located
<1>3. as \in Attributes(cls)
  BY <1>1, <1>2, TargetParsed
<1>4. PICK k \in DOMAIN as : Names(as[k].name, "Code")
  BY <1>2 DEF Codes
<1>5. as[k].name \in 1 .. cp_count_original - 1
  BY <1>1, <1>3, AttributeNames
<1>6. \A idx \in 1 .. cp_count_original - 1 : idx \in 0 .. cp_count_original - 1 /\ idx \in Nat
  BY <1>1, CountType
<1>7. cp_tags[as[k].name] = 1 /\ StringIs(as[k].name, "Code")
  <2>1. StringIs(as[k].name, "Code")
    BY <1>1, <1>4, <1>5, <1>6, StringIsNames
  <2>2. Constant(as[k].name) = Utf8("Code") /\ cp_tags[as[k].name] = Constant(as[k].name).tag
    BY <1>1, <1>4, <1>5, <1>6 DEF ReadsAsJVM, Names
  <2> QED
    BY <2>1, <2>2 DEF Utf8
<1>8. as[k].name \in codes /\ codes \subseteq Nat
  BY <1>5, <1>6, <1>7
<1>9. Least(codes) \in codes
  <2> HIDE DEF codes
  <2> QED
    BY <1>8, LeastOf
<1>10. CodeName = Least(codes)
  BY DEF CodeName
<1>11. CodeName \in 0 .. cp_count_original - 1 /\ StringIs(CodeName, "Code")
  BY <1>6, <1>9, <1>10
<1> QED
  BY <1>1, <1>11, StringIsNames

(* The attributes of the method edited that are not its Code. *)
Others(m) == DOMAIN m.attributes \ Codes(m)

NewCode == [name |-> CodeName, info |-> EditedCode]

LEMMA OthersFinite ==
    ASSUME cls \in Classes, NEW k \in DOMAIN cls.methods
    PROVE  /\ IsFiniteSet(Others(cls.methods[k])) /\ Others(cls.methods[k]) \subseteq Nat
           /\ Cardinality(Others(cls.methods[k])) \in Nat
<1> DEFINE as == cls.methods[k].attributes
           others == Others(cls.methods[k])
<1>1. as \in Attributes(cls)
  BY ClassBody
<1>2. Len(as) \in Nat /\ DOMAIN as = 1 .. Len(as)
  BY <1>1, AttributeNames
<1>3. IsFiniteSet(DOMAIN as) /\ DOMAIN as \subseteq Nat
  BY <1>2, IntervalSize
<1>4. others \in SUBSET DOMAIN as
  BY DEF Others
<1>5. IsFiniteSet(others)
  <2> HIDE DEF others, as
  <2> QED
    BY <1>3, <1>4, FS_Subset
<1> HIDE DEF others
<1>6. Cardinality(others) \in Nat
  BY <1>5, FS_CardinalityType
<1> QED
  BY <1>3, <1>4, <1>5, <1>6 DEF others

(* The methods that are written. *)
LEMMA MethodsOut ==
    ASSUME IInv, pc = "done"
    PROVE  /\ Len(out.methods) = Len(cls.methods) + 1
           /\ \A k \in 1 .. Len(cls.methods) :
                k # target_method => out.methods[k] = cls.methods[k]
           /\ out.methods[target_method] =
                [name |-> cls.methods[target_method].name,
                 desc |-> cls.methods[target_method].desc,
                 attributes |-> Append(Kept(cls.methods[target_method].attributes,
                                            Others(cls.methods[target_method])), NewCode)]
           /\ out.methods[Len(cls.methods) + 1] =
                [name |-> New(0), desc |-> New(1), attributes |-> <<>>]
<1> DEFINE n == Len(cls.methods)
           t == target_method
           M == out.methods
           All == {M[k] : k \in 1 .. n + 1}
<1>1. /\ cls \in Classes /\ ReadsAsJVM
      /\ M = [k \in DOMAIN methods |-> WrittenMethod(methods[k])]
  BY WhenWritten
<1>2. /\ DOMAIN methods = 1 .. n + 1 /\ t \in 1 .. n
      /\ methods[t] = Edited /\ methods[n + 1] = NativeMethod
      /\ \A k \in 1 .. n : k # t => methods[k] = Blank(k)
  BY MethodsWritten
<1>3. n \in Nat /\ n + 1 \in Nat /\ n + 1 \in 1 .. n + 1 /\ \A k \in 1 .. n : k \in 1 .. n + 1
  <2>1. n \in Nat
    BY <1>1, ClassBody
  <2> HIDE DEF n
  <2> QED
    BY <2>1
<1>4. Len(M) = n + 1
  <2>1. M \in [1 .. n + 1 -> All]
    <3>1. DOMAIN M = 1 .. n + 1 /\ M = [k \in 1 .. n + 1 |-> M[k]]
      BY <1>1, <1>2
    <3> HIDE DEF M, n
    <3> QED
      BY <3>1
  <2> HIDE DEF All, M, n
  <2> QED
    BY <1>3, <2>1, LenProperties
<1>5. ASSUME NEW k \in 1 .. n, k # t PROVE M[k] = cls.methods[k]
  <2>1. M[k] = WrittenMethod(Blank(k))
    BY <1>1, <1>2, <1>3, <1>5
  <2>2. WrittenMethod(Blank(k)) = [name |-> cls.methods[k].name, desc |-> cls.methods[k].desc,
                                   attributes |-> cls.methods[k].attributes]
    BY DEF WrittenMethod, Blank
  <2>3. k \in DOMAIN cls.methods
    BY <1>1, ClassBody
  <2> QED
    BY <1>1, <2>1, <2>2, <2>3, ClassBody
<1>6. M[n + 1] = [name |-> New(0), desc |-> New(1), attributes |-> <<>>]
  <2>1. M[n + 1] = WrittenMethod(NativeMethod)
    BY <1>1, <1>2, <1>3
  <2> QED
    BY <2>1 DEF WrittenMethod, NativeMethod
<1>7. M[t] = [name |-> cls.methods[t].name, desc |-> cls.methods[t].desc,
              attributes |-> Append(Kept(cls.methods[t].attributes,
                                         Others(cls.methods[t])), NewCode)]
  <2> DEFINE as == cls.methods[t].attributes
             others == {k \in DOMAIN as : ~ StringIs(as[k].name, "Code")}
  <2>1. M[t] = WrittenMethod(Edited)
    BY <1>1, <1>2, <1>3
  <2>2. /\ Edited.name = cls.methods[t].name /\ Edited.desc = cls.methods[t].desc
        /\ Edited.attributes = as /\ Edited.has_code_parsed /\ Edited.parsed_code = EditedCode
    BY DEF Edited, Blank
  <2>3. WrittenMethod(Edited) =
            [name |-> cls.methods[t].name, desc |-> cls.methods[t].desc,
             attributes |-> Append(Kept(as, others), NewCode)]
    BY <2>2 DEF WrittenMethod, NewCode
  <2>4. t \in DOMAIN cls.methods /\ as \in Attributes(cls)
    BY <1>1, <1>2, ClassBody
  <2>5. ASSUME NEW k \in DOMAIN as
        PROVE  StringIs(as[k].name, "Code") <=> Names(as[k].name, "Code")
    <3>1. as[k].name \in 1 .. cp_count_original - 1
      BY <1>1, <2>4, AttributeNames
    <3>2. as[k].name \in 0 .. cp_count_original - 1
      BY <1>1, <3>1, CountType
    <3> QED
      BY <1>1, <3>2, StringIsNames
  <2>6. others = Others(cls.methods[t])
    BY <2>5 DEF Others, Codes
  <2> QED
    BY <2>1, <2>3, <2>6
<1> QED
  BY <1>4, <1>5, <1>6, <1>7

(* The attributes of the method edited: those it had but for Code, and Code. *)
LEMMA AttributesOut ==
    ASSUME cls \in Classes, NEW k \in DOMAIN cls.methods
    PROVE  LET old == cls.methods[k]
               kept == Kept(old.attributes, Others(old))
               as == Append(kept, NewCode)
               m == Cardinality(Others(old))
           IN
           /\ m \in Nat /\ Len(as) = m + 1 /\ DOMAIN as = 1 .. m + 1
           /\ as[m + 1] = NewCode
           /\ kept = [j \in 1 .. m |-> as[j]]
           /\ \A j \in 1 .. m : ~ Names(as[j].name, "Code")
<1> DEFINE old == cls.methods[k]
           others == Others(old)
           K == Kept(old.attributes, others)
           as == Append(K, NewCode)
           m == Cardinality(others)
           All == {K[j] : j \in 1 .. m} \cup {NewCode}
<1>1. IsFiniteSet(others) /\ others \subseteq Nat /\ m \in Nat
  BY OthersFinite
<1>2. K \in Seq({K[j] : j \in 1 .. m}) /\ Len(K) = m /\ DOMAIN K = 1 .. m
  <2> HIDE DEF old, others
  <2> QED
    BY <1>1, KeptSeq
<1>3. ASSUME NEW j \in 1 .. m PROVE ~ Names(K[j].name, "Code")
  <2>1. \A q \in 1 .. m : \E l \in others : K[q] = old.attributes[l]
    <3> HIDE DEF old, others
    <3> QED
      BY <1>1, KeptFrom
  <2>2. PICK l \in others : K[j] = old.attributes[l]
    <3> HIDE DEF old, others, K, m
    <3> QED
      BY <2>1
  <2> QED
    BY <2>2 DEF Others, Codes
<1> HIDE DEF K, m, others, old
<1>4. K \in Seq(All) /\ NewCode \in All
  BY <1>2
<1> HIDE DEF All
<1>5. /\ as \in Seq(All) /\ Len(as) = m + 1
      /\ \A j \in 1 .. m : as[j] = K[j]
      /\ as[m + 1] = NewCode
  BY <1>2, <1>4, AppendProperties
<1>6. DOMAIN as = 1 .. m + 1
  <2> HIDE DEF as
  <2> QED
    BY <1>5, LenProperties
<1>7. K = [j \in 1 .. m |-> as[j]]
  <2>1. K \in [1 .. m -> {K[j] : j \in 1 .. m}]
    <3> DEFINE S == {K[j] : j \in 1 .. m}
    <3>1. K \in Seq(S)
      BY <1>2
    <3> HIDE DEF S
    <3> QED
      BY <1>2, <3>1, LenProperties DEF S
  <2>2. K = [j \in 1 .. m |-> K[j]]
    BY <2>1
  <2> HIDE DEF as
  <2> QED
    BY <1>5, <2>2
<1>8. \A j \in 1 .. m : ~ Names(as[j].name, "Code")
  BY <1>3, <1>5
<1> QED
  BY <1>1, <1>5, <1>6, <1>7, <1>8 DEF K, m, others, old

(* In the class that is written the new method and the two inserted         *)
(* instructions name what they are meant to, in either order of evaluation  *)
(* (instrumenter.cpp:12-25, 57-64, 411): NativeMethodResolves.              *)
THEOREM NativeMethodIsFound == Spec => []NativeMethodResolves
<1>1. ASSUME IInv, pc = "done", CountFits, NEW nameFirst \in BOOLEAN,
             out.pool = NewPool(nameFirst)
      PROVE  NativeMethodResolves
  <2> DEFINE slot == Slots(out.pool)
             constant(idx) == Entry(out.pool, slot, idx)
             E == NewEntries(nameFirst)
             t == target_method
             n == Len(cls.methods)
  <2>1. /\ cls \in Classes /\ native_method_ref_idx = New(5)
        /\ target_field_ref_idx \in 1 .. cp_count_original - 1
        /\ IsFieldref(Constant, target_field_ref_idx, field_to_get)
    BY <1>1, WhenWritten
  <2>2. \A idx \in 1 .. cp_count_original - 1 : constant(idx) = Constant(idx)
    BY <1>1, <2>1, OldEntry
  <2>3. \A j \in 0 .. 5 : constant(New(j)) = E[j + 1]
    <3>1. ASSUME NEW j \in 0 .. 5 PROVE constant(New(j)) = E[j + 1]
      <4>1. j \in 0 .. 6
        OBVIOUS
      <4>2. New(j) = cp_count_original + j
        BY <1>1, <2>1, <4>1, NewFits
      <4> QED
        BY <1>1, <2>1, <4>2, NewEntry
    <3> QED
      BY <3>1
  <2>4. /\ constant(New(0)) = E[1] /\ constant(New(1)) = E[2] /\ constant(New(2)) = E[3]
        /\ constant(New(3)) = E[4] /\ constant(New(4)) = E[5] /\ constant(New(5)) = E[6]
    <3>1. /\ 0 \in 0 .. 5 /\ 1 \in 0 .. 5 /\ 2 \in 0 .. 5 /\ 3 \in 0 .. 5 /\ 4 \in 0 .. 5
          /\ 5 \in 0 .. 5 /\ 0 + 1 = 1 /\ 1 + 1 = 2 /\ 2 + 1 = 3 /\ 3 + 1 = 4 /\ 4 + 1 = 5
          /\ 5 + 1 = 6
      OBVIOUS
    <3> HIDE DEF constant, E
    <3> QED
      BY <2>3, <3>1, Zenon
  <2>5. /\ Last(out.methods) = [name |-> New(0), desc |-> New(1), attributes |-> <<>>]
        /\ t = Least(Targets)
        /\ Last(out.methods[t].attributes).info.calls
                = <<target_field_ref_idx, native_method_ref_idx>>
    <3>1. t \in DOMAIN cls.methods /\ t = Least(Targets)
      BY <1>1, <2>1, MethodsWritten, ClassBody
    <3>2. out.methods[t].attributes = Append(Kept(cls.methods[t].attributes,
                                                  Others(cls.methods[t])), NewCode)
      BY <1>1, MethodsOut
    <3>3. Last(out.methods[t].attributes) = NewCode
      BY <2>1, <3>1, <3>2, AttributesOut DEF Last
    <3>4. NewCode.info.calls = <<target_field_ref_idx, native_method_ref_idx>>
      BY DEF NewCode, EditedCode
    <3>5. Last(out.methods) = [name |-> New(0), desc |-> New(1), attributes |-> <<>>]
      BY <1>1, MethodsOut DEF Last
    <3> QED
      BY <3>1, <3>3, <3>4, <3>5
  <2>6. /\ constant(New(0)) = Utf8(native_callback_name) /\ constant(New(1)) = Utf8("(I)V")
    BY <2>4 DEF NewEntries
  <2>7. /\ constant(New(5)).tag = 10 /\ constant(New(5)).i1 = cls.this_class
        /\ constant(New(5)).i2 = New(4)
        /\ constant(New(4)).tag = 12
    BY <2>4 DEF NewEntries, Ref
  <2>8. /\ constant(constant(New(4)).i1) = Utf8(native_callback_name)
        /\ constant(constant(New(4)).i2) = Utf8("(I)V")
    <3>1. CASE nameFirst
      <4>1. /\ E[3] = Utf8(native_callback_name) /\ E[4] = Utf8("(I)V")
            /\ E[5].i1 = New(2) /\ E[5].i2 = New(3)
        BY <3>1 DEF NewEntries, Ref
      <4> HIDE DEF constant, E
      <4> QED
        BY <2>4, <4>1
    <3>2. CASE ~ nameFirst
      <4>1. /\ E[3] = Utf8("(I)V") /\ E[4] = Utf8(native_callback_name)
            /\ E[5].i1 = New(3) /\ E[5].i2 = New(2)
        BY <3>2 DEF NewEntries, Ref
      <4> HIDE DEF constant, E
      <4> QED
        BY <2>4, <4>1
    <3> QED
      BY <3>1, <3>2
  <2>9. IsFieldref(constant, target_field_ref_idx, field_to_get)
    <3>1. constant(target_field_ref_idx) = Constant(target_field_ref_idx)
          /\ Constant(target_field_ref_idx).tag = 9
      BY <2>1, <2>2 DEF IsFieldref
    <3>2. /\ Constant(target_field_ref_idx).i2 \in 1 .. cp_count_original - 1
          /\ Constant(Constant(target_field_ref_idx).i2).i1 \in 1 .. cp_count_original - 1
      BY <2>1, <3>1, FieldrefFacts
    <3> QED
      BY <2>1, <2>2, <3>1, <3>2 DEF IsFieldref
  <2> DEFINE native == Last(out.methods)
             calls == Last(out.methods[Least(Targets)].attributes).info.calls
             called == constant(calls[2])
             nat == constant(called.i2)
  <2>10. /\ native.name = New(0) /\ native.desc = New(1)
         /\ calls[1] = target_field_ref_idx /\ calls[2] = New(5)
    BY <2>1, <2>5
  <2>11. called = constant(New(5)) /\ nat = constant(New(4))
    BY <2>7, <2>10
  <2>12. /\ constant(native.name) = Utf8(native_callback_name)
         /\ constant(native.desc) = Utf8("(I)V")
         /\ IsFieldref(constant, calls[1], field_to_get)
         /\ called.tag = 10 /\ called.i1 = cls.this_class
         /\ nat.tag = 12
         /\ constant(nat.i1) = Utf8(native_callback_name) /\ constant(nat.i2) = Utf8("(I)V")
    BY <2>6, <2>7, <2>8, <2>9, <2>10, <2>11
  <2> QED
    BY <2>12 DEF NativeMethodResolves
<1>2. IInv => NativeMethodResolves
  BY <1>1, WhenWritten DEF NativeMethodResolves
<1> QED
  BY <1>2, SpecIInv, PTL

(* Of the methods only the first that the hook names changes, and of that   *)
(* one only the Code attribute, which has no StackMapTable left             *)
(* (instrumenter.cpp:31-36, 109-122, 308-345): OnlyTheTargetChanges.        *)
THEOREM OnlyTheTargetIsEdited == Spec => []OnlyTheTargetChanges
<1>1. ASSUME IInv, pc = "done" PROVE OnlyTheTargetChanges
  <2> DEFINE t == target_method
             old == cls.methods[t]
             new == out.methods[t]
             m == Cardinality(Others(old))
             K == Kept(old.attributes, Others(old))
             as == Append(K, NewCode)
  <2>1. /\ cls \in Classes /\ DOMAIN cls.methods = 1 .. Len(cls.methods)
        /\ t = Least(Targets) /\ t \in DOMAIN cls.methods
    BY <1>1, WhenWritten, MethodsWritten, ClassBody
  <2>2. new = [name |-> old.name, desc |-> old.desc, attributes |-> as]
    BY <1>1, MethodsOut
  <2>3. new.name = old.name /\ new.desc = old.desc /\ new.attributes = as
    BY <2>2
  <2>4. /\ m \in Nat /\ DOMAIN as = 1 .. m + 1 /\ as[m + 1] = NewCode
        /\ K = [j \in 1 .. m |-> as[j]]
        /\ \A j \in 1 .. m : ~ Names(as[j].name, "Code")
    BY <2>1, AttributesOut
  <2>5. Names(NewCode.name, "Code")
    BY <1>1, CodeIsNamed DEF NewCode
  <2>6. Codes(new) = {m + 1}
    <3> HIDE DEF as, m, new
    <3>1. Codes(new) = {k \in 1 .. m + 1 : Names(as[k].name, "Code")}
      BY <2>3, <2>4 DEF Codes
    <3>2. m + 1 \in 1 .. m + 1 /\ \A k \in 1 .. m + 1 : k = m + 1 \/ k \in 1 .. m
      BY <2>4
    <3> QED
      BY <2>4, <2>5, <3>1, <3>2
  <2>7. DOMAIN new.attributes \ Codes(new) = 1 .. m
    <3> HIDE DEF as, m, new
    <3> QED
      BY <2>3, <2>4, <2>6
  <2>8. Kept(new.attributes, DOMAIN new.attributes \ Codes(new)) = K
    <3>1. Kept(as, 1 .. m) = [j \in 1 .. m |-> as[j]]
      BY <2>4, KeptPrefix
    <3> HIDE DEF as, m, new, K
    <3> QED
      BY <2>3, <2>4, <2>7, <3>1
  <2>9. ASSUME NEW a \in Range(NewCode.info.attributes)
        PROVE  ~ Names(a, "StackMapTable")
    <3> DEFINE inner == old.attributes[Least(Codes(old))].info.attributes
               kept == {k \in DOMAIN inner : ~ Names(inner[k], "StackMapTable")}
    <3>1. NewCode.info.attributes = Kept(inner, kept)
      BY DEF NewCode, EditedCode
    <3>2. IsFiniteSet(kept) /\ kept \subseteq Nat
      <4>1. /\ Codes(old) # {} /\ old.attributes \in Attributes(cls)
        BY <1>1, <2>1, ClassBody DEF IInv, Located
      <4>2. Len(old.attributes) \in Nat /\ DOMAIN old.attributes = 1 .. Len(old.attributes)
        BY <2>1, <4>1, AttributeNames
      <4>3. Codes(old) \subseteq Nat /\ Codes(old) \subseteq DOMAIN old.attributes
        BY <4>2 DEF Codes
      <4>4. Least(Codes(old)) \in DOMAIN old.attributes
        BY <4>1, <4>3, LeastOf
      <4>5. inner \in Seq(1 .. cp_count_original - 1)
        BY <2>1, <4>1, <4>4, AttributeNames
      <4>6. Len(inner) \in Nat /\ DOMAIN inner = 1 .. Len(inner)
        <5> HIDE DEF inner
        <5> QED
          BY <4>5, LenProperties
      <4>7. kept \in SUBSET (1 .. Len(inner)) /\ IsFiniteSet(1 .. Len(inner))
        BY <4>6, IntervalSize
      <4> HIDE DEF kept, inner
      <4>8. IsFiniteSet(kept)
        BY <4>7, FS_Subset
      <4> QED
        BY <4>6, <4>7, <4>8
    <3>3. PICK j \in 1 .. Cardinality(kept) : a = Kept(inner, kept)[j]
      <4>1. a \in Range(Kept(inner, kept))
        BY <3>1
      <4> HIDE DEF inner, kept
      <4>2. DOMAIN Kept(inner, kept) = 1 .. Cardinality(kept)
        BY <3>2, KeptSeq
      <4> QED
        BY <4>1, <4>2 DEF Range
    <3>4. PICK k \in kept : a = inner[k]
      <4> HIDE DEF inner, kept
      <4> QED
        BY <3>2, <3>3, KeptFrom
    <3> QED
      BY <3>4
  <2>10. \E code \in DOMAIN new.attributes :
            /\ Codes(new) = {code}
            /\ \A a \in Range(new.attributes[code].info.attributes) :
                    ~ Names(a, "StackMapTable")
    <3>1. m + 1 \in DOMAIN new.attributes /\ new.attributes[m + 1] = NewCode
      <4> HIDE DEF as, m, new
      <4> QED
        BY <2>3, <2>4
    <3> QED
      BY <2>6, <2>9, <3>1
  <2>11. Len(out.methods) = Len(cls.methods) + 1
    BY <1>1, MethodsOut
  <2>12. ASSUME NEW k \in DOMAIN cls.methods
         PROVE  IF k # t THEN out.methods[k] = cls.methods[k]
                ELSE /\ new.name = old.name /\ new.desc = old.desc
                     /\ Kept(new.attributes, DOMAIN new.attributes \ Codes(new))
                            = Kept(old.attributes, DOMAIN old.attributes \ Codes(old))
                     /\ \E code \in DOMAIN new.attributes :
                            /\ Codes(new) = {code}
                            /\ \A a \in Range(new.attributes[code].info.attributes) :
                                    ~ Names(a, "StackMapTable")
    <3>1. CASE k # t
      BY <1>1, <2>1, <3>1, MethodsOut
    <3>2. CASE k = t
      BY <2>3, <2>8, <2>10, <3>2 DEF Others
    <3> QED
      BY <3>1, <3>2
  <2> QED
    BY <2>1, <2>11, <2>12 DEF OnlyTheTargetChanges
<1>2. IInv => OnlyTheTargetChanges
  BY <1>1 DEF OnlyTheTargetChanges
<1> QED
  BY <1>2, SpecIInv, PTL
=============================================================================
