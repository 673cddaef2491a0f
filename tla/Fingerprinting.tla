---------------------------- MODULE Fingerprinting ----------------------------
(***************************************************************************)
(* What the transaction analyzer promises, stated over the ids themselves:  *)
(* the packets since the last verdict form a round; the most recent         *)
(* signature id of the round names the suspect; the last two packets of the *)
(* round are the only evidence; a verdict closes the round.  There is no    *)
(* counter, no remembered guess and no remembered id here.                  *)
(***************************************************************************)
EXTENDS Integers, Sequences

CONSTANTS
    Ids,        \* the transaction ids that occur
    MaxPackets  \* bound on the length of a round

VARIABLES
    round,      \* the ids of the packets since the last verdict
    reported    \* the anticheat reported last, or "UNKNOWN"

SignatureOf == [INTAVE |-> -32768, KARHU |-> -32767, VULCAN |-> -30767,
                GRIM |-> 0, AGC |-> 1]
Signed == DOMAIN SignatureOf
SignatureIds == {-32768, -32767, -30767, 0, 1}

(* The anticheats whose signature is the last signature of the round r. *)
Suspects(r) ==
    {a \in Signed : \E i \in 1 .. Len(r) :
        /\ r[i] = SignatureOf[a]
        /\ \A j \in i + 1 .. Len(r) : r[j] \notin SignatureIds}

(* The pairs of consecutive ids that convict a suspect. *)
Evidence(a, prev, id) ==
    CASE a = "GRIM"   -> id = -1
      [] a = "AGC"    -> id = 2
      [] a = "KARHU"  -> \/ prev = -32767 /\ id = -3000
                         \/ prev <= -3000 /\ prev - id = 1
      [] a = "INTAVE" -> id - prev = 1
      [] a = "VULCAN" -> prev # -30768 /\ prev # -30766

(* The verdicts that the round r, with the last report rep, admits. *)
Verdicts(r, rep) ==
    IF Len(r) < 2 THEN {}
    ELSE LET prev == r[Len(r) - 1]
             id   == r[Len(r)]
         IN  {a \in Suspects(r) : Evidence(a, prev, id)} \union
             {a \in {"VERUS"} : Suspects(r) = {} /\ id - prev = 1 /\ rep # "VULCAN"}

Init == round = <<>> /\ reported = "UNKNOWN"

(* A packet that completes the evidence for a. *)
Convict(id, a) ==
    /\ a \in Verdicts(Append(round, id), reported)
    /\ round' = <<>>
    /\ reported' = a

(* A packet that does not. *)
Collect(id) ==
    /\ Verdicts(Append(round, id), reported) = {}
    /\ round' = Append(round, id)
    /\ UNCHANGED reported

Observe(id) ==
    /\ Len(round) < MaxPackets
    /\ \/ \E a \in Signed \union {"VERUS"} : Convict(id, a)
       \/ Collect(id)

Next == \E id \in Ids : Observe(id)

Spec == Init /\ [][Next]_<<round, reported>>
=============================================================================
