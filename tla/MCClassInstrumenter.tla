-------------------------- MODULE MCClassInstrumenter --------------------------
(***************************************************************************)
(* Packet classes for ClassInstrumenter: a pool with what the edit needs,   *)
(* in two orders and with one more constant of every tag anywhere in it,    *)
(* and the methods a class may have.                                        *)
(***************************************************************************)
EXTENDS ClassInstrumenter

MCLength ==
    [s \in {"Code", "StackMapTable", "LineNumberTable", "S32", "actionNumber", "windowId",
            "readPacketData", "(B)V", "(I)V", "log"} |->
        CASE s = "Code" -> 0 [] s = "log" -> 3 [] OTHER -> 1]

(* A pool, with names in place of indices. *)
Strings == <<Utf8("Code"), Utf8("StackMapTable"), Utf8("LineNumberTable"), Utf8("S32"),
             Utf8("actionNumber"), Utf8("windowId"), Utf8("readPacketData"), Utf8("(B)V"),
             Utf8("(I)V")>>

Class == Ref(7, "S32", 0)
Field(s) == Ref(9, s, s)
NameAndType(s) == Ref(12, s, s)
ReadMethod == NameAndType("readPacketData")

Members == <<Class, NameAndType("windowId"), NameAndType("actionNumber"),
             Field("windowId"), Field("actionNumber")>>

Orders == {Strings \o Members, Reverse(Strings \o Members), Members \o Strings}

(* Without the field, and with the field's name used only by a method. *)
Fieldless == {SelectSeq(Strings \o Members, LAMBDA c : c # Field("actionNumber")),
              SelectSeq(Strings \o Members, LAMBDA c : c # Field("actionNumber"))
                \o <<Ref(10, "actionNumber", "actionNumber")>>}

(* Every constant that no other one refers to, at some of the places. *)
Fillers == {Utf8("Code")} \cup {Ref(tag, "S32", "actionNumber") : tag \in Tags \ {1, 7, 9, 12}}

Places == {1, 6, 10, 12, 15}

(* With two constants of two slots each the count wraps at 24.              *)
Wide == {order \o <<Ref(5, "S32", "actionNumber"), Ref(6, "S32", "actionNumber")>> :
            order \in Orders}

Symbolic ==
    Orders \cup Fieldless \cup Wide
    \cup UNION {{InsertAt(order, k, c) : k \in Places, c \in Fillers} : order \in Orders}

(* The indices the names stand for. *)
IndexOf(pool, c) ==
    LET ks == {k \in DOMAIN pool : pool[k] = c} IN
    IF ks = {} THEN 0 ELSE Slots(pool)[Least(ks)]

Assembled(pool) ==
    [k \in DOMAIN pool |->
        LET c == pool[k] IN
        CASE c.tag = 9 -> Ref(9, IndexOf(pool, Class), IndexOf(pool, NameAndType(c.i2)))
          [] c.tag = 10 -> Ref(10, IndexOf(pool, Class), IndexOf(pool, NameAndType(c.i2)))
          [] c.tag = 12 -> Ref(12, IndexOf(pool, Utf8(c.i1)), IndexOf(pool, Utf8("(I)V")))
          [] c.tag = 7 -> Ref(7, IndexOf(pool, Utf8(c.i1)), 0)
          [] c.tag = 1 -> c
          [] OTHER -> Ref(c.tag, 0, 0)]

Attribute(pool, s, inner) ==
    [name |-> IndexOf(pool, Utf8(s)),
     info |-> [calls |-> <<>>,
               attributes |-> [k \in DOMAIN inner |-> IndexOf(pool, Utf8(inner[k]))]]]

Method(pool, name, desc, attributes) ==
    [name |-> IndexOf(pool, Utf8(name)), desc |-> IndexOf(pool, Utf8(desc)),
     attributes |-> attributes]

(* The methods: the one to hook, alone, among others, twice, without code,  *)
(* or missing; with an attribute before or behind its code.                 *)
MethodLists(pool) ==
    LET code == Attribute(pool, "Code", <<"StackMapTable", "LineNumberTable">>)
        bare == Attribute(pool, "Code", <<>>)
        plain == Attribute(pool, "S32", <<>>)
        hooked(attributes) == Method(pool, "readPacketData", "(B)V", attributes)
        sibling == Method(pool, "readPacketData", "(I)V", <<code>>)
        getter == Method(pool, "windowId", "(B)V", <<bare>>)
    IN  {<<hooked(<<code>>)>>, <<getter, sibling, hooked(<<plain, bare, plain>>)>>,
         <<hooked(<<code, plain>>), hooked(<<bare>>), sibling>>,
         <<hooked(<<plain>>)>>, <<sibling, getter>>, <<>>}

Crowded(pool) == [k \in 1 .. Limit - 1 |-> Method(pool, "readPacketData", "(B)V",
                    <<Attribute(pool, "Code", <<>>)>>)]

Start(pool) ==
    LET start[k \in 1 .. Len(pool) + 1] ==
            IF k = 1 THEN 10 ELSE start[k - 1] + JVMSize(pool[k - 1])
    IN  [k \in 1 .. Len(pool) + 1 |-> start[k]]

ClassFile(pool, ms) ==
    [pool |-> Assembled(pool), start |-> Start(pool), slot |-> Slots(pool),
     this_class |-> IndexOf(pool, Class), methods |-> ms]

MCClasses ==
    UNION {{ClassFile(pool, ms) : ms \in MethodLists(pool)} : pool \in Symbolic}
    \cup {ClassFile(pool, Crowded(pool)) : pool \in Orders}
=============================================================================
