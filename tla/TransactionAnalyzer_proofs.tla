---------------------- MODULE TransactionAnalyzer_proofs ----------------------
(***************************************************************************)
(* What holds of the analyzer for every set of ids, every queue limit and   *)
(* every packet bound: its types and the bound of its queue, the meaning of *)
(* its three scalars, and the refinement of Fingerprinting.  And what holds *)
(* of it in every sequence of game sessions: which servers are recognised   *)
(* whatever the sessions before left behind, and which answers are found.   *)
(***************************************************************************)
EXTENDS AnalyzerHistory, GameSession, SequenceTheorems, WellFoundedInduction, TLAPS

(* The 16-bit values, without the interval written out. *)
LEMMA Int16Type == Int16 \subseteq Int
  BY DEF Int16, INT16_MIN, INT16_MAX

LEMMA Int16Range ==
    ASSUME NEW x \in Int
    PROVE  x \in Int16 <=> -32768 <= x /\ x <= 32767
<1>1. INT16_MIN = -32768 /\ INT16_MAX = 32767
  BY DEF INT16_MIN, INT16_MAX
<1>2. INT16_MIN \in Int /\ INT16_MAX \in Int
  BY <1>1
<1>3. x \in Int16 <=> INT16_MIN <= x /\ x <= INT16_MAX
  BY <1>2 DEF Int16
<1> QED
  BY <1>1, <1>3

(* Pushing an id onto a bounded queue leaves a bounded queue of ids. *)
LEMMA EnqueueBoundedType ==
    ASSUME NEW q \in Seq(Ids), Len(q) <= QueueLimit, NEW id \in Ids
    PROVE  /\ EnqueueBounded(q, id) \in Seq(Ids)
           /\ Len(EnqueueBounded(q, id)) <= QueueLimit
<1> DEFINE r == Append(q, id)
<1>1. r \in Seq(Ids) /\ r # <<>> /\ Len(r) = Len(q) + 1
  BY AppendProperties
<1>2. Tail(r) \in Seq(Ids) /\ Len(Tail(r)) = Len(r) - 1
  BY <1>1, HeadTailProperties
<1>3. QueueLimit \in Nat /\ Len(q) \in Nat
  BY QueueLimitAssumption, LenProperties
<1> HIDE DEF r
<1>4. EnqueueBounded(q, id) = IF Len(r) > QueueLimit THEN Tail(r) ELSE r
  BY DEF EnqueueBounded, r
<1> QED
  BY <1>1, <1>2, <1>3, <1>4

(* Removing one position of a sequence: its type, its length, its elements. *)
LEMMA RemoveAtProperties ==
    ASSUME NEW S, NEW q \in Seq(S), NEW i \in 1 .. Len(q)
    PROVE  /\ RemoveAt(q, i) \in Seq(S)
           /\ Len(RemoveAt(q, i)) = Len(q) - 1
           /\ \A k \in 1 .. Len(q) - 1 :
                RemoveAt(q, i)[k] = IF k < i THEN q[k] ELSE q[k + 1]
<1> DEFINE a == SubSeq(q, 1, i - 1)
           b == SubSeq(q, i + 1, Len(q))
<1>1. Len(q) \in Nat /\ i \in Nat
  BY LenProperties
<1>2. \A k \in 1 .. Len(q) : q[k] \in S
  BY ElementOfSeq
<1>3. /\ a \in Seq(S)
      /\ Len(a) = i - 1
      /\ \A k \in 1 .. i - 1 : a[k] = q[k]
  BY <1>1, <1>2, SubSeqProperties, Z3
<1>4. /\ b \in Seq(S)
      /\ Len(b) = Len(q) - i
      /\ \A k \in 1 .. Len(q) - i : b[k] = q[i + k]
  BY <1>1, <1>2, SubSeqProperties, Z3
<1>5. RemoveAt(q, i) = a \o b
  BY DEF RemoveAt
<1> HIDE DEF a, b
<1>6. /\ a \o b \in Seq(S)
      /\ Len(a \o b) = Len(a) + Len(b)
      /\ \A k \in 1 .. Len(a) + Len(b) :
            (a \o b)[k] = IF k <= Len(a) THEN a[k] ELSE b[k - Len(a)]
  BY <1>3, <1>4, ConcatProperties
<1> QED
  BY <1>1, <1>3, <1>4, <1>5, <1>6

(* A set of natural numbers that is not empty has a least element. *)
LEMMA LeastElement ==
    ASSUME NEW I, I \subseteq Nat, I # {}
    PROVE  \E m \in I : \A n \in I : m <= n
<1>1. \E m \in I : \A n \in I : ~ (<<n, m>> \in OpToRel(<, Nat))
  BY NatLessThanWellFounded, WFMin
<1>2. PICK m \in I : \A n \in I : ~ (<<n, m>> \in OpToRel(<, Nat))
  BY <1>1
<1>3. ASSUME NEW n \in I PROVE m <= n
  <2>1. m \in Nat /\ n \in Nat
    BY <1>2, <1>3
  <2>2. ~ (n < m)
    BY <1>2, <1>3, <2>1 DEF OpToRel
  <2> QED
    BY <2>1, <2>2
<1> QED
  BY <1>3

(* Where an id occurs, EraseFirst removes its first occurrence. *)
LEMMA EraseFirstPosition ==
    ASSUME NEW q \in Seq(Ids), NEW id, \E i \in 1 .. Len(q) : q[i] = id
    PROVE  \E i \in 1 .. Len(q) :
              /\ q[i] = id
              /\ \A j \in 1 .. i - 1 : q[j] # id
              /\ EraseFirst(q, id) = RemoveAt(q, i)
<1> DEFINE first(i) == q[i] = id /\ \A j \in 1 .. i - 1 : q[j] # id
           at == CHOOSE i \in 1 .. Len(q) : first(i)
<1>1. Len(q) \in Nat
  BY LenProperties
<1>2. \E i \in 1 .. Len(q) : first(i)
  <2> DEFINE I == {i \in 1 .. Len(q) : q[i] = id}
  <2>1. I \subseteq Nat /\ I # {}
    BY <1>1
  <2>2. \E m \in I : \A n \in I : m <= n
    BY <2>1, LeastElement
  <2> QED
    BY <1>1, <2>2
<1>3. at \in 1 .. Len(q) /\ first(at)
  BY <1>2
<1>4. EraseFirst(q, id) = RemoveAt(q, at)
  BY DEF EraseFirst
<1> QED
  BY <1>3, <1>4

(* Answering an id shortens the queue by at most that id. *)
LEMMA EraseFirstType ==
    ASSUME NEW q \in Seq(Ids), NEW id
    PROVE  /\ EraseFirst(q, id) \in Seq(Ids)
           /\ Len(EraseFirst(q, id)) <= Len(q)
<1>1. Len(q) \in Nat
  BY LenProperties
<1>2. CASE \E i \in 1 .. Len(q) : q[i] = id
  <2>1. PICK i \in 1 .. Len(q) : EraseFirst(q, id) = RemoveAt(q, i)
    BY <1>2, EraseFirstPosition
  <2> QED
    BY <1>1, <2>1, RemoveAtProperties
<1>3. CASE ~ \E i \in 1 .. Len(q) : q[i] = id
  BY <1>1, <1>3 DEF EraseFirst
<1> QED
  BY <1>2, <1>3

(* A packet that leaves no verdict leaves a guess other than Verus; one     *)
(* that does leaves an anticheat to report.                                 *)
LEMMA GuessAndVerdictType ==
    ASSUME currentGuess \in Anticheat \ {"VERUS"}, NEW id
    PROVE  /\ GuessAfter(currentGuess, id) \in Anticheat \ {"VERUS"}
           /\ Verdict(id) \in Anticheat
<1>1. GuessAfter(currentGuess, id) \in Anticheat \ {"VERUS"}
  BY DEF GuessAfter, Anticheat, Reported
<1>2. Verdict(id) \in {GuessAfter(currentGuess, id), "VERUS", "UNKNOWN"}
  BY DEF Verdict
<1> QED
  BY <1>1, <1>2 DEF Anticheat, Reported

-----------------------------------------------------------------------------
LEMMA AnalyzeServerType ==
    ASSUME TypeOK, NEW id \in Ids, AnalyzeServer(id)
    PROVE  TypeOK'
<1>1. /\ server_transaction_queue' \in Seq(Ids)
      /\ Len(server_transaction_queue') <= QueueLimit
  BY EnqueueBoundedType DEF TypeOK, AnalyzeServer
<1>2. lastId' \in Int16
  BY IdsAssumption DEF AnalyzeServer
<1>3. packetCount' \in 0 .. MaxPackets
  BY MaxPacketsAssumption DEF TypeOK, AnalyzeServer, Conclude, Continue
<1>4. /\ lastNotifiedAnticheat' \in Anticheat
      /\ currentGuess' \in Anticheat \ {"VERUS"}
  <2>1. "UNKNOWN" \in Anticheat \ {"VERUS"}
    BY DEF Anticheat
  <2> QED
    BY <2>1, GuessAndVerdictType DEF TypeOK, AnalyzeServer, Conclude, Continue
<1> QED
  BY <1>1, <1>2, <1>3, <1>4 DEF TypeOK

LEMMA AnalyzeClientType ==
    ASSUME TypeOK, NEW id, AnalyzeClient(id)
    PROVE  TypeOK'
<1>1. Len(server_transaction_queue) \in Nat
  BY LenProperties DEF TypeOK
<1>2. /\ server_transaction_queue' \in Seq(Ids)
      /\ Len(server_transaction_queue') <= Len(server_transaction_queue)
  BY EraseFirstType DEF TypeOK, AnalyzeClient
<1>3. Len(server_transaction_queue') \in Nat
  BY <1>2, LenProperties
<1>4. Len(server_transaction_queue') <= QueueLimit
  BY <1>1, <1>2, <1>3, QueueLimitAssumption DEF TypeOK
<1> QED
  BY <1>2, <1>4 DEF TypeOK, AnalyzeClient

LEMMA InitType == Init => TypeOK
  BY QueueLimitAssumption, MaxPacketsAssumption, EmptySeq, Int16Range
     DEF Init, TypeOK, Anticheat

(* The queue of unanswered ids never outgrows its limit, the count of       *)
(* packets its bound, and between packets no Verus guess is pending: Verus  *)
(* is only ever concluded, in the packet that suggests it.                  *)
THEOREM AnalyzerTypeCorrect == Spec => []TypeOK
<1>1. TypeOK /\ [Next]_vars => TypeOK'
  <2> SUFFICES ASSUME TypeOK, [Next]_vars
               PROVE  TypeOK'
    OBVIOUS
  <2>1. ASSUME NEW id \in Ids, AnalyzeServer(id) PROVE TypeOK'
    BY <2>1, AnalyzeServerType
  <2>2. ASSUME NEW id \in Ids, AnalyzeClient(id) PROVE TypeOK'
    BY <2>2, AnalyzeClientType
  <2>3. CASE UNCHANGED vars
    BY <2>3 DEF vars, TypeOK
  <2> QED
    BY <2>1, <2>2, <2>3 DEF Next
<1> QED
  BY InitType, <1>1, PTL DEF Spec

-----------------------------------------------------------------------------
(* The history variable does not disturb the analyzer. *)
LEMMA HistoryType == HSpec => []TypeOK
<1>1. HInit => TypeOK
  BY InitType DEF HInit
<1>2. TypeOK /\ [HNext]_hvars => TypeOK'
  <2> SUFFICES ASSUME TypeOK, [HNext]_hvars
               PROVE  TypeOK'
    OBVIOUS
  <2>1. ASSUME NEW id \in Ids, HServer(id) PROVE TypeOK'
    BY <2>1, AnalyzeServerType DEF HServer
  <2>2. ASSUME NEW id \in Ids, HClient(id) PROVE TypeOK'
    BY <2>2, AnalyzeClientType DEF HClient
  <2>3. CASE UNCHANGED hvars
    BY <2>3 DEF hvars, vars, TypeOK
  <2> QED
    BY <2>1, <2>2, <2>3 DEF HNext
<1> QED
  BY <1>1, <1>2, PTL DEF HSpec

(* No packet, no suspect. *)
LEMMA SuspectsEmpty == F!Suspects(<<>>) = {}
  BY DEF F!Suspects

(* The last packet of a round decides: an id that is a signature makes its  *)
(* owner the only suspect, any other id leaves the suspects alone.          *)
LEMMA SuspectsAppend ==
    ASSUME NEW r \in Seq(Ids), NEW id \in Ids
    PROVE  /\ id \notin F!SignatureIds => F!Suspects(Append(r, id)) = F!Suspects(r)
           /\ \A a \in F!Signed : id = F!SignatureOf[a]
                                    => F!Suspects(Append(r, id)) = {a}
<1> DEFINE n == Len(r)
           t == Append(r, id)
<1>1. /\ n \in Nat
      /\ Len(t) = n + 1
      /\ \A i \in 1 .. n : t[i] = r[i]
      /\ t[n + 1] = id
  BY LenProperties, AppendProperties
<1>2. \A a \in F!Signed : F!SignatureOf[a] \in F!SignatureIds
  BY DEF F!Signed, F!SignatureOf, F!SignatureIds
<1>3. \A a, b \in F!Signed : F!SignatureOf[a] = F!SignatureOf[b] => a = b
  BY DEF F!Signed, F!SignatureOf
<1> HIDE DEF n, t
<1>4. \A a \in F!Signed :
        a \in F!Suspects(t) <=> \E i \in 1 .. n + 1 :
           t[i] = F!SignatureOf[a] /\ \A j \in i + 1 .. n + 1 : t[j] \notin F!SignatureIds
  BY <1>1 DEF F!Suspects
<1>5. \A a \in F!Signed :
        a \in F!Suspects(r) <=> \E i \in 1 .. n :
           r[i] = F!SignatureOf[a] /\ \A j \in i + 1 .. n : r[j] \notin F!SignatureIds
  BY DEF F!Suspects, n
<1>6. F!Suspects(t) \subseteq F!Signed /\ F!Suspects(r) \subseteq F!Signed
  BY DEF F!Suspects
<1>7. ASSUME id \notin F!SignatureIds, NEW a \in F!Signed
      PROVE  a \in F!Suspects(t) <=> a \in F!Suspects(r)
  <2>1. ASSUME a \in F!Suspects(t) PROVE a \in F!Suspects(r)
    <3>1. PICK i \in 1 .. n + 1 :
             t[i] = F!SignatureOf[a] /\ \A j \in i + 1 .. n + 1 : t[j] \notin F!SignatureIds
      BY <1>4, <2>1
    <3>2. i # n + 1
      BY <1>1, <1>2, <1>7, <3>1
    <3>3. i \in 1 .. n /\ r[i] = F!SignatureOf[a]
      BY <1>1, <3>1, <3>2
    <3>4. \A j \in i + 1 .. n : r[j] \notin F!SignatureIds
      BY <1>1, <3>1
    <3> QED
      BY <1>5, <3>3, <3>4
  <2>2. ASSUME a \in F!Suspects(r) PROVE a \in F!Suspects(t)
    <3>1. PICK i \in 1 .. n :
             r[i] = F!SignatureOf[a] /\ \A j \in i + 1 .. n : r[j] \notin F!SignatureIds
      BY <1>5, <2>2
    <3>2. i \in 1 .. n + 1 /\ t[i] = F!SignatureOf[a]
      BY <1>1, <3>1
    <3>3. \A j \in i + 1 .. n + 1 : t[j] \notin F!SignatureIds
      BY <1>1, <1>7, <3>1
    <3> QED
      BY <1>4, <3>2, <3>3
  <2> QED
    BY <2>1, <2>2
<1>8. ASSUME NEW a \in F!Signed, id = F!SignatureOf[a]
      PROVE  F!Suspects(t) = {a}
  <2>1. a \in F!Suspects(t)
    <3>1. n + 1 \in 1 .. n + 1 /\ \A j \in (n + 1) + 1 .. n + 1 : FALSE
      BY <1>1
    <3> QED
      BY <1>1, <1>4, <1>8, <3>1
  <2>2. ASSUME NEW b \in F!Signed, b \in F!Suspects(t) PROVE b = a
    <3>1. PICK i \in 1 .. n + 1 :
             t[i] = F!SignatureOf[b] /\ \A j \in i + 1 .. n + 1 : t[j] \notin F!SignatureIds
      BY <1>4, <2>2
    <3>2. i = n + 1
      BY <1>1, <1>2, <1>8, <3>1
    <3> QED
      BY <1>1, <1>3, <1>8, <3>1, <3>2
  <2> QED
    BY <1>6, <2>1, <2>2
<1> QED
  BY <1>6, <1>7, <1>8 DEF t

-----------------------------------------------------------------------------
(* The inductive invariant of the refinement: the types, and the meaning of *)
(* the three scalars.  The meaning alone is not inductive, since lastId and *)
(* packetCount must be numbers for the next packet to keep it.              *)
HInv ==
    /\ TypeOK
    /\ round \in Seq(Ids)
    /\ GuessSummarisesRound

(* The guess after a packet is the suspect of the round extended by it. *)
LEMMA GuessIsSuspect ==
    ASSUME HInv, NEW id \in Ids
    PROVE  F!Suspects(Append(round, id)) =
             IF GuessAfter(currentGuess, id) = "UNKNOWN" THEN {}
             ELSE {GuessAfter(currentGuess, id)}
<1>1. round \in Seq(Ids)
  BY DEF HInv
<1>2. CASE id \in F!SignatureIds
  <2>1. PICK a \in F!Signed : id = F!SignatureOf[a]
    BY <1>2 DEF F!SignatureIds, F!Signed, F!SignatureOf
  <2>2. GuessAfter(currentGuess, id) = a
    BY <2>1 DEF F!Signed, F!SignatureOf, GuessAfter
  <2>3. a # "UNKNOWN"
    BY <2>1 DEF F!Signed, F!SignatureOf
  <2> QED
    BY <1>1, <2>1, <2>2, <2>3, SuspectsAppend
<1>3. CASE id \notin F!SignatureIds
  <2>1. GuessAfter(currentGuess, id) = currentGuess
    BY <1>3 DEF F!SignatureIds, GuessAfter
  <2> QED
    BY <1>1, <1>3, <2>1, SuspectsAppend DEF HInv, GuessSummarisesRound
<1> QED
  BY <1>2, <1>3

(* The code's evidence and the specification's are the same relation. *)
LEMMA SameEvidence ==
    ASSUME NEW a \in F!Signed, NEW prev \in Int16, NEW id \in Int16
    PROVE  Confirms(a, prev, id) <=> F!Evidence(a, prev, id)
<1>1. prev \in Int /\ id \in Int
  BY Int16Type
<1>2. a \in {"INTAVE", "KARHU", "VULCAN", "GRIM", "AGC"}
  BY DEF F!Signed, F!SignatureOf
<1>3. id = prev + 1 <=> id - prev = 1
  BY <1>1
<1>4. id = prev - 1 <=> prev - id = 1
  BY <1>1
<1>5. CASE a = "KARHU"
  BY <1>4, <1>5 DEF Confirms, F!Evidence
<1>6. CASE a = "INTAVE"
  BY <1>3, <1>6 DEF Confirms, F!Evidence
<1>7. CASE a = "VULCAN"
  BY <1>7 DEF Confirms, F!Evidence
<1>8. CASE a = "GRIM"
  BY <1>8 DEF Confirms, F!Evidence
<1>9. CASE a = "AGC"
  BY <1>9 DEF Confirms, F!Evidence
<1> QED
  BY <1>2, <1>5, <1>6, <1>7, <1>8, <1>9

(* The verdict of the code is the one verdict the extended round admits. *)
LEMMA VerdictIsAdmitted ==
    ASSUME HInv, NEW id \in Ids
    PROVE  F!Verdicts(Append(round, id), lastNotifiedAnticheat) =
             IF Verdict(id) = "UNKNOWN" THEN {} ELSE {Verdict(id)}
<1> DEFINE r == Append(round, id)
           guess == GuessAfter(currentGuess, id)
           suspects == F!Suspects(r)
<1>1. /\ round \in Seq(Ids)
      /\ packetCount = Len(round)
      /\ lastId \in Int16 /\ id \in Int16
      /\ guess \in Anticheat \ {"VERUS"}
  BY GuessAndVerdictType, IdsAssumption DEF HInv, TypeOK, GuessSummarisesRound
<1>2. Len(round) \in Nat /\ Len(r) = packetCount + 1
  BY <1>1, LenProperties, AppendProperties
<1>3. suspects = IF guess = "UNKNOWN" THEN {} ELSE {guess}
  BY GuessIsSuspect
<1>4. CASE packetCount = 0
  <2>1. Verdict(id) = "UNKNOWN"
    BY <1>4 DEF Verdict
  <2>2. F!Verdicts(r, lastNotifiedAnticheat) = {}
    BY <1>2, <1>4 DEF F!Verdicts
  <2> QED
    BY <2>1, <2>2
<1>5. CASE packetCount # 0
  <2>1. Len(r) >= 2 /\ packetCount + 1 > 1
    BY <1>1, <1>2, <1>5
  <2>2. r[Len(r)] = id /\ r[Len(r) - 1] = lastId
    <3>1. round # <<>> /\ Len(round) \in 1 .. Len(round)
      BY <1>1, <1>2, <1>5, EmptySeq
    <3>2. lastId = round[Len(round)]
      BY <3>1 DEF HInv, GuessSummarisesRound
    <3> QED
      BY <1>1, <1>2, <3>1, <3>2, AppendProperties
  <2> HIDE DEF r, suspects
  <2>3. F!Verdicts(r, lastNotifiedAnticheat) =
          {a \in suspects : F!Evidence(a, lastId, id)} \union
          {a \in {"VERUS"} : suspects = {} /\ id - lastId = 1
                                /\ lastNotifiedAnticheat # "VULCAN"}
    BY <1>2, <2>1, <2>2 DEF F!Verdicts, suspects
  <2>4. CASE guess = "UNKNOWN"
    <3>1. ~ Confirms(guess, lastId, id)
      BY <2>4 DEF Confirms
    <3>2. Verdict(id) = IF Sequential(lastId, id, lastNotifiedAnticheat)
                        THEN "VERUS" ELSE "UNKNOWN"
      BY <2>1, <2>4, <3>1 DEF Verdict
    <3>3. Sequential(lastId, id, lastNotifiedAnticheat)
            <=> id - lastId = 1 /\ lastNotifiedAnticheat # "VULCAN"
      <4>1. lastId \in Int /\ id \in Int
        BY <1>1, Int16Type
      <4>2. id = lastId + 1 <=> id - lastId = 1
        BY <4>1
      <4> QED
        BY <4>2 DEF Sequential
    <3> QED
      BY <1>3, <2>3, <2>4, <3>2, <3>3 DEF r
  <2>5. CASE guess # "UNKNOWN"
    <3>1. guess \in F!Signed
      BY <1>1, <2>5 DEF Anticheat, Reported, F!Signed, F!SignatureOf
    <3>2. Confirms(guess, lastId, id) <=> F!Evidence(guess, lastId, id)
      BY <1>1, <3>1, SameEvidence
    <3>3. Verdict(id) = IF Confirms(guess, lastId, id) THEN guess ELSE "UNKNOWN"
      BY <2>1, <2>5 DEF Verdict
    <3>4. suspects = {guess}
      BY <1>3, <2>5
    <3> HIDE DEF guess
    <3> QED
      BY <2>3, <2>5, <3>2, <3>3, <3>4 DEF r
  <2> QED
    BY <2>4, <2>5
<1> QED
  BY <1>4, <1>5

-----------------------------------------------------------------------------
LEMMA HServerInv ==
    ASSUME HInv, NEW id \in Ids, HServer(id)
    PROVE  HInv'
<1> DEFINE r == Append(round, id)
<1>1. TypeOK'
  BY AnalyzeServerType DEF HInv, HServer
<1>2. /\ round \in Seq(Ids)
      /\ packetCount = Len(round)
  BY DEF HInv, GuessSummarisesRound
<1>3. /\ r \in Seq(Ids)
      /\ Len(r) = Len(round) + 1
      /\ r[Len(round) + 1] = id
  BY <1>2, AppendProperties
<1> HIDE DEF r
<1>4. CASE Verdict(id) = "UNKNOWN"
  <2>1. /\ round' = r
        /\ lastId' = id
        /\ packetCount' = packetCount + 1
        /\ currentGuess' = GuessAfter(currentGuess, id)
    BY <1>4 DEF HServer, AnalyzeServer, Conclude, Continue, r
  <2>2. F!Suspects(r) = IF currentGuess' = "UNKNOWN" THEN {} ELSE {currentGuess'}
    BY <2>1, GuessIsSuspect DEF r
  <2>3. F!Suspects(round)' = F!Suspects(r)
    BY <2>1
  <2> QED
    BY <1>1, <1>2, <1>3, <2>1, <2>2, <2>3 DEF HInv, GuessSummarisesRound
<1>5. CASE Verdict(id) # "UNKNOWN"
  <2>1. round' = <<>> /\ packetCount' = 0 /\ currentGuess' = "UNKNOWN"
    BY <1>5 DEF HServer, AnalyzeServer, Conclude, Continue
  <2>2. F!Suspects(round)' = {}
    BY <2>1, SuspectsEmpty
  <2>3. <<>> \in Seq(Ids) /\ Len(<<>>) = 0
    BY EmptySeq
  <2> QED
    BY <1>1, <2>1, <2>2, <2>3 DEF HInv, GuessSummarisesRound
<1> QED
  BY <1>4, <1>5

LEMMA HClientInv ==
    ASSUME HInv, NEW id \in Ids, HClient(id)
    PROVE  HInv'
<1>1. TypeOK'
  BY AnalyzeClientType DEF HInv, HClient
<1>2. UNCHANGED <<round, currentGuess, lastId, packetCount>>
  BY DEF HClient, AnalyzeClient
<1>3. F!Suspects(round)' = F!Suspects(round)
  BY <1>2
<1> QED
  BY <1>1, <1>2, <1>3 DEF HInv, GuessSummarisesRound

LEMMA HistoryInvariant == HSpec => []HInv
<1>1. HInit => HInv
  <2> SUFFICES ASSUME HInit PROVE HInv
    OBVIOUS
  <2>1. round = <<>> /\ packetCount = 0 /\ currentGuess = "UNKNOWN"
    BY DEF HInit, Init
  <2>2. F!Suspects(round) = {}
    BY <2>1, SuspectsEmpty
  <2>3. <<>> \in Seq(Ids) /\ Len(<<>>) = 0
    BY EmptySeq
  <2>4. TypeOK
    BY InitType DEF HInit
  <2> QED
    BY <2>1, <2>2, <2>3, <2>4 DEF HInv, GuessSummarisesRound
<1>2. HInv /\ [HNext]_hvars => HInv'
  <2> SUFFICES ASSUME HInv, [HNext]_hvars
               PROVE  HInv'
    OBVIOUS
  <2>1. ASSUME NEW id \in Ids, HServer(id) PROVE HInv'
    BY <2>1, HServerInv
  <2>2. ASSUME NEW id \in Ids, HClient(id) PROVE HInv'
    BY <2>2, HClientInv
  <2>3. CASE UNCHANGED hvars
    <3>1. UNCHANGED <<round, lastNotifiedAnticheat, currentGuess,
                      server_transaction_queue, lastId, packetCount>>
      BY <2>3 DEF hvars, vars
    <3>2. F!Suspects(round)' = F!Suspects(round)
      BY <3>1
    <3> QED
      BY <3>1, <3>2 DEF HInv, TypeOK, GuessSummarisesRound
  <2> QED
    BY <2>1, <2>2, <2>3 DEF HNext
<1> QED
  BY <1>1, <1>2, PTL DEF HSpec

(* At every moment the counter, the remembered id and the guess stand for   *)
(* the ids received since the last verdict, and for nothing older.          *)
THEOREM ScalarsSummariseRound == HSpec => []GuessSummarisesRound
<1>1. HInv => GuessSummarisesRound
  BY DEF HInv
<1> QED
  BY <1>1, HistoryInvariant, PTL

(* The analyzer implements Fingerprinting: it reports an anticheat exactly  *)
(* when the last signature since the previous verdict and the last two ids  *)
(* convict it, for every id a 16-bit value can be, in every order.          *)
THEOREM AnalyzerImplementsFingerprinting == HSpec => ImplementsFingerprinting
<1>1. HInit => F!Init
  BY DEF HInit, Init, F!Init
<1>2. HInv /\ [HNext]_hvars => [F!Next]_<<round, lastNotifiedAnticheat>>
  <2> SUFFICES ASSUME HInv, [HNext]_hvars
               PROVE  [F!Next]_<<round, lastNotifiedAnticheat>>
    OBVIOUS
  <2>1. ASSUME NEW id \in Ids, HServer(id) PROVE F!Observe(id)
    <3> DEFINE admitted == F!Verdicts(Append(round, id), lastNotifiedAnticheat)
    <3>1. admitted = IF Verdict(id) = "UNKNOWN" THEN {} ELSE {Verdict(id)}
      BY VerdictIsAdmitted
    <3>2. Len(round) < MaxPackets
      BY <2>1 DEF HServer, AnalyzeServer, HInv, GuessSummarisesRound
    <3>3. CASE Verdict(id) = "UNKNOWN"
      <4>1. round' = Append(round, id) /\ UNCHANGED lastNotifiedAnticheat
        BY <2>1, <3>3 DEF HServer, AnalyzeServer, Conclude, Continue
      <4> QED
        BY <3>1, <3>2, <3>3, <4>1 DEF F!Observe, F!Collect
    <3>4. CASE Verdict(id) # "UNKNOWN"
      <4>1. round' = <<>> /\ lastNotifiedAnticheat' = Verdict(id)
        BY <2>1, <3>4 DEF HServer, AnalyzeServer, Conclude, Continue
      <4>2. Verdict(id) \in F!Signed \union {"VERUS"}
        <5>1. Verdict(id) \in Anticheat
          BY GuessAndVerdictType DEF HInv, TypeOK
        <5> QED
          BY <3>4, <5>1 DEF Anticheat, Reported, F!Signed, F!SignatureOf
      <4>3. F!Convict(id, Verdict(id))
        BY <3>1, <3>4, <4>1 DEF F!Convict
      <4> QED
        BY <3>2, <4>2, <4>3 DEF F!Observe
    <3> QED
      BY <3>3, <3>4
  <2>2. ASSUME NEW id \in Ids, HClient(id)
        PROVE  UNCHANGED <<round, lastNotifiedAnticheat>>
    BY <2>2 DEF HClient, AnalyzeClient
  <2>3. CASE UNCHANGED hvars
    BY <2>3 DEF hvars, vars
  <2> QED
    BY <2>1, <2>2, <2>3 DEF HNext, F!Next
<1> QED
  BY <1>1, <1>2, HistoryInvariant, PTL
     DEF HSpec, ImplementsFingerprinting, F!Spec

-----------------------------------------------------------------------------
(* In a game session. *)

(* The value of a 16-bit cast that has nothing to cut off, and the range of *)
(* any other.                                                               *)
LEMMA ToInt16Fits == \A n \in Int16 : ToInt16(n) = n
<1> SUFFICES ASSUME NEW n \in Int16
             PROVE  ToInt16(n) = n
  OBVIOUS
<1>1. n \in Int /\ -32768 <= n /\ n <= 32767
  BY Int16Type, Int16Range
<1>2. (n + 32768) % 65536 = n + 32768
  BY <1>1
<1> QED
  BY <1>1, <1>2 DEF ToInt16

LEMMA ToInt16Type == \A n \in Int : ToInt16(n) \in Int16
<1> SUFFICES ASSUME NEW n \in Int
             PROVE  ToInt16(n) \in Int16
  OBVIOUS
<1>1. PICK m \in Int : m = (n + 32768) % 65536
  OBVIOUS
<1>2. 0 <= m /\ m <= 65535
  BY <1>1
<1>3. -32768 <= m - 32768 /\ m - 32768 <= 32767 /\ m - 32768 \in Int
  BY <1>2
<1>4. m - 32768 \in Int16
  BY <1>3, Int16Range
<1> QED
  BY <1>1, <1>4 DEF ToInt16

(* Every transaction a server sends has a 16-bit id. *)
LEMMA IdSentType ==
    ASSUME NEW ac \in Reported, NEW s \in Int16, NEW k \in Nat
    PROVE  IdSent(ac, s, k) \in Int16
<1>1. s \in Int /\ k \in Int
  BY Int16Type
<1>2. /\ -30767 + 5 * k \in Int
      /\ -32768 + k \in Int
      /\ -32767 \in Int /\ -2999 - k \in Int
      /\ -k \in Int
      /\ 1 + k \in Int
      /\ s + k \in Int
  BY <1>1
<1> QED
  BY <1>2, ToInt16Type DEF IdSent, Reported

LEMMA SignedIds ==
    ASSUME NEW s, NEW k \in Nat, k <= 12000
    PROVE  /\ IdSent("VULCAN", s, k) = -30767 + 5 * k
           /\ IdSent("KARHU", s, k) = IF k = 0 THEN -32767 ELSE -2999 - k
           /\ IdSent("GRIM", s, k) = -k
           /\ IdSent("AGC", s, k) = 1 + k
<1>1. k \in Int /\ 0 <= k /\ k <= 12000
  OBVIOUS
<1>2. -30767 + 5 * k \in Int16
  BY <1>1, Int16Range
<1>3. -32767 \in Int16
  BY Int16Range
<1>4. -2999 - k \in Int16
  BY <1>1, Int16Range
<1>5. -k \in Int16
  BY <1>1, Int16Range
<1>6. 1 + k \in Int16
  BY <1>1, Int16Range
<1>7. IdSent("VULCAN", s, k) = -30767 + 5 * k
  BY <1>2, ToInt16Fits DEF IdSent
<1>8. IdSent("KARHU", s, k) = IF k = 0 THEN -32767 ELSE -2999 - k
  BY <1>3, <1>4, ToInt16Fits DEF IdSent
<1>9. IdSent("GRIM", s, k) = -k
  BY <1>5, ToInt16Fits DEF IdSent
<1>10. IdSent("AGC", s, k) = 1 + k
  BY <1>6, ToInt16Fits DEF IdSent
<1> QED
  BY <1>7, <1>8, <1>9, <1>10

-----------------------------------------------------------------------------
LEMMA GameTypeStep ==
    ASSUME Ids = Int16, GTypeOK, [GNext]_gvars
    PROVE  GTypeOK'
<1> USE SessionBoundsAssumption
<1>1. ASSUME NEW ac \in Servers, Connect(ac) PROVE GTypeOK'
  <2>1. TypeOK'
    BY <1>1 DEF Connect, GTypeOK, TypeOK, vars
  <2>2. start' \in Int16
    <3>1. 0 \in Int16
      BY Int16Range
    <3> QED
      BY <1>1, <3>1, StartsAssumption DEF Connect
  <2> QED
    BY <1>1, <2>1, <2>2, ServersAssumption DEF Connect, GTypeOK
<1>2. CASE Disconnect
  <2>1. TypeOK'
    BY <1>2 DEF Disconnect, GTypeOK, TypeOK, vars
  <2> QED
    BY <1>2, <2>1, EmptySeq DEF Disconnect, GTypeOK
<1>3. CASE ServerSends
  <2>1. NextId \in Ids
    BY <1>3, IdSentType DEF GTypeOK, ServerSends, NextId
  <2>2. TypeOK'
    BY <1>3, <2>1, AnalyzeServerType DEF GTypeOK, ServerSends
  <2>3. pending' \in Seq(Ids) /\ Len(pending') <= MaxLag
    <3>1. Len(pending) \in Nat /\ Len(pending) < MaxLag
      BY <1>3, LenProperties DEF GTypeOK, ServerSends
    <3> QED
      BY <1>3, <2>1, <3>1, AppendProperties DEF GTypeOK, ServerSends
  <2> QED
    BY <1>3, <2>2, <2>3 DEF GTypeOK, ServerSends
<1>4. CASE ClientReplies
  <2>1. TypeOK'
    BY <1>4, AnalyzeClientType DEF GTypeOK, ClientReplies
  <2>2. pending' \in Seq(Ids) /\ Len(pending') = Len(pending) - 1
    BY <1>4, HeadTailProperties DEF GTypeOK, ClientReplies
  <2>3. Len(pending) \in Nat /\ Len(pending) <= MaxLag
    BY LenProperties DEF GTypeOK
  <2> QED
    BY <1>4, <2>1, <2>2, <2>3 DEF GTypeOK, ClientReplies
<1>5. CASE UNCHANGED gvars
  BY <1>5 DEF gvars, vars, envVars, GTypeOK, TypeOK
<1> QED
  BY <1>1, <1>2, <1>3, <1>4, <1>5 DEF GNext

LEMMA GameTypeInit == Ids = Int16 /\ GInit => GTypeOK
<1> SUFFICES ASSUME Ids = Int16, GInit PROVE GTypeOK
  OBVIOUS
<1>1. TypeOK
  BY InitType DEF GInit
<1>2. 0 \in Int16
  BY Int16Range
<1> QED
  BY <1>1, <1>2, EmptySeq, SessionBoundsAssumption DEF GInit, GTypeOK

THEOREM GameTypeCorrect ==
    ASSUME Ids = Int16
    PROVE  GSpec => []GTypeOK
  BY GameTypeInit, GameTypeStep, PTL DEF GSpec

-----------------------------------------------------------------------------
(* The inductive invariant behind the queue: the types and the suffix. *)
QInv == GTypeOK /\ PendingIsSuffix

(* A suffix survives appending to both sequences, ... *)
LEMMA EndsWithAppend ==
    ASSUME NEW S, NEW q \in Seq(S), NEW p \in Seq(S), EndsWith(q, p), NEW e \in S
    PROVE  EndsWith(Append(q, e), Append(p, e))
<1> DEFINE r == Append(q, e)
           t == Append(p, e)
<1>1. Len(p) \in Nat /\ Len(q) \in Nat
  BY LenProperties
<1>2. /\ Len(r) = Len(q) + 1 /\ r[Len(q) + 1] = e
      /\ \A i \in 1 .. Len(q) : r[i] = q[i]
  BY AppendProperties
<1>3. /\ Len(t) = Len(p) + 1 /\ t[Len(p) + 1] = e
      /\ \A i \in 1 .. Len(p) : t[i] = p[i]
  BY AppendProperties
<1> HIDE DEF r, t
<1>4. ASSUME NEW i \in 1 .. Len(t)
      PROVE  t[i] = r[Len(r) - Len(t) + i]
  <2>1. CASE i = Len(p) + 1
    BY <1>1, <1>2, <1>3, <2>1
  <2>2. CASE i \in 1 .. Len(p)
    <3>1. Len(r) - Len(t) + i \in 1 .. Len(q) /\ Len(r) - Len(t) + i = Len(q) - Len(p) + i
      BY <1>1, <1>2, <1>3, <2>2 DEF EndsWith
    <3> QED
      BY <1>2, <1>3, <2>2, <3>1 DEF EndsWith
  <2> QED
    BY <1>1, <1>3, <2>1, <2>2
<1>5. Len(t) <= Len(r)
  BY <1>1, <1>2, <1>3 DEF EndsWith
<1> QED
  BY <1>4, <1>5 DEF EndsWith, r, t

(* ... dropping the head of the longer one, if it is longer, ... *)
LEMMA EndsWithTail ==
    ASSUME NEW S, NEW q \in Seq(S), NEW p \in Seq(S), EndsWith(q, p),
           Len(p) < Len(q)
    PROVE  EndsWith(Tail(q), p)
<1>1. Len(p) \in Nat /\ Len(q) \in Nat /\ q # <<>>
  BY LenProperties, EmptySeq
<1>2. /\ Len(Tail(q)) = Len(q) - 1
      /\ \A i \in 1 .. Len(q) - 1 : Tail(q)[i] = q[i + 1]
  BY <1>1, HeadTailProperties
<1>3. ASSUME NEW i \in 1 .. Len(p)
      PROVE  p[i] = Tail(q)[Len(Tail(q)) - Len(p) + i]
  <2> DEFINE k == Len(q) - 1 - Len(p) + i
  <2>1. k \in 1 .. Len(q) - 1 /\ k + 1 = Len(q) - Len(p) + i
    BY <1>1
  <2>2. Tail(q)[k] = q[k + 1]
    BY <1>2, <2>1
  <2>3. p[i] = q[Len(q) - Len(p) + i]
    BY DEF EndsWith
  <2> QED
    BY <1>2, <2>1, <2>2, <2>3
<1> QED
  BY <1>1, <1>2, <1>3 DEF EndsWith

(* ... and erasing the first occurrence of the shorter one's head. *)
LEMMA EndsWithErase ==
    ASSUME NEW q \in Seq(Ids), NEW p \in Seq(Ids), EndsWith(q, p), p # <<>>
    PROVE  EndsWith(EraseFirst(q, Head(p)), Tail(p))
<1> DEFINE m == Len(q) - Len(p) + 1
           r == EraseFirst(q, Head(p))
<1>1. Len(p) \in Nat /\ Len(q) \in Nat /\ Len(p) >= 1 /\ Len(p) <= Len(q)
  BY LenProperties, EmptySeq DEF EndsWith
<1>2. /\ Head(p) = p[1]
      /\ Len(Tail(p)) = Len(p) - 1
      /\ \A i \in 1 .. Len(p) - 1 : Tail(p)[i] = p[i + 1]
  BY HeadTailProperties
<1>3. m \in 1 .. Len(q) /\ q[m] = Head(p)
  BY <1>1, <1>2 DEF EndsWith
<1>4. PICK f \in 1 .. Len(q) :
         /\ \A j \in 1 .. f - 1 : q[j] # Head(p)
         /\ r = RemoveAt(q, f)
  BY <1>3, EraseFirstPosition
<1>5. f <= m
  BY <1>1, <1>3, <1>4
<1>6. /\ Len(r) = Len(q) - 1
      /\ \A k \in 1 .. Len(q) - 1 : r[k] = IF k < f THEN q[k] ELSE q[k + 1]
  BY <1>4, RemoveAtProperties
<1> HIDE DEF r
<1>7. ASSUME NEW i \in 1 .. Len(p) - 1
      PROVE  Tail(p)[i] = r[Len(r) - Len(Tail(p)) + i]
  <2> DEFINE k == Len(q) - Len(p) + i
  <2>1. /\ k \in 1 .. Len(q) - 1
        /\ k + 1 = Len(q) - Len(p) + (i + 1)
        /\ i + 1 \in 1 .. Len(p)
        /\ ~ (k < f)
    BY <1>1, <1>4, <1>5
  <2>2. r[k] = q[k + 1]
    BY <1>6, <2>1
  <2>3. p[i + 1] = q[k + 1]
    BY <2>1 DEF EndsWith
  <2>4. Len(r) - Len(Tail(p)) + i = k
    BY <1>1, <1>2, <1>6
  <2> QED
    BY <1>2, <2>2, <2>3, <2>4
<1> QED
  BY <1>1, <1>2, <1>6, <1>7 DEF EndsWith, r

LEMMA SuffixAfterSend ==
    ASSUME Ids = Int16, MaxLag <= QueueLimit, QInv, ServerSends
    PROVE  PendingIsSuffix'
<1> DEFINE q == server_transaction_queue
           r == Append(q, NextId)
           t == Append(pending, NextId)
<1>1. NextId \in Ids
  BY IdSentType DEF QInv, GTypeOK, ServerSends, NextId
<1>2. /\ q \in Seq(Ids) /\ Len(q) \in Nat
      /\ pending \in Seq(Ids) /\ Len(pending) \in Nat
      /\ Len(pending) < MaxLag
      /\ QueueLimit \in Nat /\ MaxLag \in Nat
  BY LenProperties, QueueLimitAssumption, SessionBoundsAssumption
     DEF QInv, GTypeOK, TypeOK, ServerSends
<1>3. /\ r \in Seq(Ids) /\ Len(r) = Len(q) + 1
      /\ t \in Seq(Ids) /\ Len(t) = Len(pending) + 1
  BY <1>1, <1>2, AppendProperties
<1>4. EndsWith(r, t)
  BY <1>1, <1>2, EndsWithAppend DEF QInv, PendingIsSuffix
<1> HIDE DEF r, t
<1>5. EndsWith(IF Len(r) > QueueLimit THEN Tail(r) ELSE r, t)
  BY <1>2, <1>3, <1>4, EndsWithTail
<1>6. /\ server_transaction_queue' = IF Len(r) > QueueLimit THEN Tail(r) ELSE r
      /\ pending' = t
  BY DEF ServerSends, AnalyzeServer, EnqueueBounded, r, t
<1> QED
  BY <1>5, <1>6 DEF PendingIsSuffix

LEMMA SuffixAfterReply ==
    ASSUME QInv, ClientReplies
    PROVE  PendingIsSuffix'
<1>1. /\ server_transaction_queue \in Seq(Ids)
      /\ pending \in Seq(Ids)
      /\ pending # <<>>
      /\ EndsWith(server_transaction_queue, pending)
  BY DEF QInv, GTypeOK, TypeOK, PendingIsSuffix, ClientReplies
<1>2. /\ server_transaction_queue' = EraseFirst(server_transaction_queue, Head(pending))
      /\ pending' = Tail(pending)
  BY DEF ClientReplies, AnalyzeClient
<1> QED
  BY <1>1, <1>2, EndsWithErase DEF PendingIsSuffix

(* As long as the client is at most QueueLimit answers behind, the ids it   *)
(* still owes are the newest part of the queue, in order, whatever earlier  *)
(* sessions left there: eviction and the removal of repeated ids only ever  *)
(* touch ids that nobody will answer.                                       *)
THEOREM OwedAnswersAreQueued ==
    ASSUME Ids = Int16, MaxLag <= QueueLimit
    PROVE  GSpec => []PendingIsSuffix
<1>1. GInit => QInv
  <2> SUFFICES ASSUME GInit PROVE QInv
    OBVIOUS
  <2>1. pending = <<>> /\ server_transaction_queue = <<>>
    BY DEF GInit, Init
  <2>2. Len(<<>>) = 0
    BY EmptySeq
  <2> QED
    BY <2>1, <2>2, GameTypeInit DEF QInv, PendingIsSuffix, EndsWith
<1>2. QInv /\ [GNext]_gvars => QInv'
  <2> SUFFICES ASSUME QInv, [GNext]_gvars
               PROVE  QInv'
    OBVIOUS
  <2>1. GTypeOK'
    BY GameTypeStep DEF QInv
  <2>2. ASSUME NEW ac \in Servers, Connect(ac) PROVE PendingIsSuffix'
    BY <2>2 DEF Connect, vars, QInv, PendingIsSuffix
  <2>3. ASSUME Disconnect PROVE PendingIsSuffix'
    <3>1. pending' = <<>> /\ UNCHANGED server_transaction_queue
      BY <2>3 DEF Disconnect, vars
    <3>2. Len(<<>>) = 0 /\ Len(server_transaction_queue) \in Nat
      BY EmptySeq, LenProperties DEF QInv, GTypeOK, TypeOK
    <3> QED
      BY <3>1, <3>2 DEF PendingIsSuffix, EndsWith
  <2>4. ASSUME ServerSends PROVE PendingIsSuffix'
    BY <2>4, SuffixAfterSend
  <2>5. ASSUME ClientReplies PROVE PendingIsSuffix'
    BY <2>5, SuffixAfterReply
  <2>6. ASSUME UNCHANGED gvars PROVE PendingIsSuffix'
    BY <2>6 DEF gvars, vars, envVars, QInv, PendingIsSuffix
  <2> QED
    BY <2>1, <2>2, <2>3, <2>4, <2>5, <2>6 DEF GNext, QInv
<1>3. QInv => PendingIsSuffix
  BY DEF QInv
<1> QED
  BY <1>1, <1>2, <1>3, PTL DEF GSpec

-----------------------------------------------------------------------------
(* A server with a signature has been recognised: reported, with nothing    *)
(* pending that its own later ids could turn into another verdict.          *)
Recognised ==
    /\ lastNotifiedAnticheat = server
    /\ currentGuess = "UNKNOWN"

(* The inductive invariant behind detection.  After one transaction of a    *)
(* signed server either the guess is that server, waiting for one packet    *)
(* more, or leftovers of earlier sessions have already completed the        *)
(* evidence; from the second on the analyzer holds no guess that the ids    *)
(* of a stable server could confirm.                                        *)
DInv ==
    /\ GTypeOK
    /\ server \in Signed /\ sent >= 1 => lastId = IdSent(server, start, sent - 1)
    /\ server \in Signed /\ sent = 1 =>
          \/ Recognised /\ packetCount = 0
          \/ currentGuess = server /\ packetCount >= 1
    /\ DetectedAtSecondPacket
    /\ server \in Stable /\ sent >= 2 => Recognised

(* The first transaction of a signed server is its signature. *)
LEMMA FirstPacket ==
    ASSUME DInv, ServerSends, server \in Signed, sent = 0
    PROVE  \/ Recognised' /\ packetCount' = 0
           \/ currentGuess' = server' /\ packetCount' >= 1
<1>1. GuessAfter(currentGuess, NextId) = server
  BY SignedIds DEF NextId, GuessAfter, Signed
<1>2. packetCount \in Nat /\ server' = server /\ server # "UNKNOWN"
  BY DEF DInv, GTypeOK, TypeOK, ServerSends, Signed
<1>3. Verdict(NextId) \in {server, "UNKNOWN"}
  BY <1>1, <1>2 DEF Verdict
<1> HIDE DEF Recognised
<1>4. CASE Verdict(NextId) = "UNKNOWN"
  <2>1. currentGuess' = server /\ packetCount' = packetCount + 1
    BY <1>1, <1>4 DEF ServerSends, AnalyzeServer, Conclude, Continue
  <2> QED
    BY <1>2, <2>1
<1>5. CASE Verdict(NextId) = server
  <2>1. /\ lastNotifiedAnticheat' = server
        /\ currentGuess' = "UNKNOWN"
        /\ packetCount' = 0
    BY <1>2, <1>5 DEF ServerSends, AnalyzeServer, Conclude, Continue
  <2> QED
    BY <1>2, <2>1 DEF Recognised
<1> QED
  BY <1>3, <1>4, <1>5

(* The second one leaves it recognised, whichever way the first one went. *)
LEMMA SecondPacket ==
    ASSUME DInv, ServerSends, server \in Signed, sent = 1
    PROVE  Recognised'
<1>1. /\ packetCount \in Nat /\ server' = server /\ server # "UNKNOWN"
      /\ lastId = IdSent(server, start, 0)
      /\ NextId = IdSent(server, start, 1)
  BY DEF DInv, GTypeOK, TypeOK, ServerSends, Signed, NextId
<1>2. 0 <= 12000 /\ 1 <= 12000
  OBVIOUS
<1>3. /\ server = "VULCAN" => lastId = -30767 /\ NextId = -30762
      /\ server = "KARHU"  => lastId = -32767 /\ NextId = -3000
      /\ server = "GRIM"   => lastId = 0 /\ NextId = -1
      /\ server = "AGC"    => lastId = 1 /\ NextId = 2
  BY <1>1, <1>2, SignedIds
<1>4. GuessAfter(currentGuess, NextId) = currentGuess
  BY <1>3 DEF GuessAfter, Signed
<1>5. CASE Recognised /\ packetCount = 0
  <2>1. Verdict(NextId) = "UNKNOWN"
    BY <1>5 DEF Verdict
  <2> QED
    BY <1>1, <1>4, <1>5, <2>1
       DEF ServerSends, AnalyzeServer, Conclude, Continue, Recognised
<1>6. CASE currentGuess = server /\ packetCount >= 1
  <2>1. Confirms(server, lastId, NextId)
    BY <1>3 DEF Confirms, Signed
  <2>2. packetCount + 1 > 1
    BY <1>1, <1>6
  <2>3. Verdict(NextId) = server
    BY <1>1, <1>4, <1>6, <2>1, <2>2 DEF Verdict
  <2> QED
    BY <1>1, <2>3 DEF ServerSends, AnalyzeServer, Conclude, Continue, Recognised
<1> QED
  BY <1>5, <1>6 DEF DInv

(* No later one of a stable server is a signature or follows its forerunner.*)
LEMMA LaterPacket ==
    ASSUME MaxSent <= 12000, DInv, ServerSends, server \in Stable, sent >= 2
    PROVE  Recognised'
<1>1. /\ Recognised /\ server' = server /\ server # "UNKNOWN"
      /\ sent \in Nat /\ sent < MaxSent /\ MaxSent \in Nat
      /\ lastId = IdSent(server, start, sent - 1)
      /\ NextId = IdSent(server, start, sent)
  BY SessionBoundsAssumption
     DEF DInv, GTypeOK, TypeOK, ServerSends, Stable, Signed, NextId
<1>2. /\ sent - 1 \in Nat /\ sent - 1 <= 12000 /\ sent - 1 # 0
      /\ sent <= 12000 /\ sent # 0
  BY <1>1
<1>3. /\ server = "VULCAN" => lastId = -30767 + 5 * (sent - 1) /\ NextId = -30767 + 5 * sent
      /\ server = "KARHU"  => lastId = -2999 - (sent - 1) /\ NextId = -2999 - sent
      /\ server = "GRIM"   => lastId = -(sent - 1) /\ NextId = -sent
  BY <1>1, <1>2, SignedIds
<1>4. /\ NextId \notin {-32768, -32767, -30767, 0, 1}
      /\ NextId # lastId + 1
  <2>1. sent \in Int /\ 2 <= sent /\ sent <= 12000
    BY <1>1
  <2>2. CASE server = "VULCAN"
    BY <1>3, <2>1, <2>2
  <2>3. CASE server = "KARHU"
    BY <1>3, <2>1, <2>3
  <2>4. CASE server = "GRIM"
    BY <1>3, <2>1, <2>4
  <2> QED
    BY <2>2, <2>3, <2>4 DEF Stable
<1>5. GuessAfter(currentGuess, NextId) = "UNKNOWN"
  BY <1>1, <1>4 DEF GuessAfter, Recognised
<1>6. Verdict(NextId) = "UNKNOWN"
  BY <1>4, <1>5 DEF Verdict, Confirms, Sequential
<1> QED
  BY <1>1, <1>5, <1>6
     DEF ServerSends, AnalyzeServer, Conclude, Continue, Recognised

LEMMA DetectionStep ==
    ASSUME Ids = Int16, MaxSent <= 12000, DInv, [GNext]_gvars
    PROVE  DInv'
<1>1. GTypeOK'
  BY GameTypeStep DEF DInv
<1>2. ASSUME NEW ac \in Servers, Connect(ac) PROVE DInv'
  <2>1. sent' = 0
    BY <1>2 DEF Connect
  <2> QED
    BY <1>1, <2>1 DEF DInv, DetectedAtSecondPacket
<1>3. ASSUME Disconnect PROVE DInv'
  <2>1. server' = "NONE"
    BY <1>3 DEF Disconnect
  <2> QED
    BY <1>1, <2>1 DEF DInv, DetectedAtSecondPacket, Signed, Stable
<1>4. ASSUME ServerSends PROVE DInv'
  <2>1. /\ server' = server /\ start' = start
        /\ sent' = sent + 1 /\ sent \in Nat
        /\ lastId' = IdSent(server, start, sent)
    BY <1>4 DEF ServerSends, AnalyzeServer, NextId, DInv, GTypeOK
  <2>2. sent' - 1 = sent
    BY <2>1
  <2>3. lastId' = IdSent(server', start', sent' - 1)
    BY <2>1, <2>2
  <2>4. ASSUME server' \in Signed, sent' = 1
        PROVE  \/ Recognised' /\ packetCount' = 0
               \/ currentGuess' = server' /\ packetCount' >= 1
    BY <1>4, <2>1, <2>4, FirstPacket
  <2>5. ASSUME server' \in Signed, sent' = 2 PROVE Recognised'
    BY <1>4, <2>1, <2>5, SecondPacket
  <2>6. ASSUME server' \in Stable, sent' >= 2 PROVE Recognised'
    <3>1. CASE sent = 1
      BY <2>1, <2>5, <2>6, <3>1 DEF Stable, Signed
    <3>2. CASE sent >= 2
      BY <1>4, <2>1, <2>6, <3>2, LaterPacket
    <3> QED
      BY <2>1, <2>6, <3>1, <3>2
  <2>7. DetectedAtSecondPacket'
    BY <2>5 DEF DetectedAtSecondPacket, Recognised
  <2> QED
    BY <1>1, <2>3, <2>4, <2>6, <2>7 DEF DInv
<1>5. ASSUME ClientReplies PROVE DInv'
  <2>1. UNCHANGED <<server, start, sent, lastNotifiedAnticheat, currentGuess,
                    lastId, packetCount>>
    BY <1>5 DEF ClientReplies, AnalyzeClient
  <2> QED
    BY <1>1, <2>1 DEF DInv, DetectedAtSecondPacket, Recognised
<1>6. ASSUME UNCHANGED gvars PROVE DInv'
  <2>1. UNCHANGED <<server, start, sent, lastNotifiedAnticheat, currentGuess,
                    lastId, packetCount>>
    BY <1>6 DEF gvars, vars, envVars
  <2> QED
    BY <1>1, <2>1 DEF DInv, DetectedAtSecondPacket, Recognised
<1> QED
  BY <1>2, <1>3, <1>4, <1>5, <1>6 DEF GNext

LEMMA DetectionInvariant ==
    ASSUME Ids = Int16, MaxSent <= 12000
    PROVE  GSpec => []DInv
<1>1. GInit => DInv
  <2> SUFFICES ASSUME GInit PROVE DInv
    OBVIOUS
  <2>1. server = "NONE"
    BY DEF GInit
  <2> QED
    BY <2>1, GameTypeInit DEF DInv, DetectedAtSecondPacket, Signed, Stable
<1>2. DInv /\ [GNext]_gvars => DInv'
  BY DetectionStep
<1> QED
  BY <1>1, <1>2, PTL DEF GSpec

(* A server whose anticheat has an id of its own is the one reported after  *)
(* its second transaction, whatever servers were joined before it, wherever *)
(* their sessions broke off and whatever guess they left behind.            *)
THEOREM SignedServersAreDetected ==
    ASSUME Ids = Int16, MaxSent <= 12000
    PROVE  GSpec => []DetectedAtSecondPacket
<1>1. DInv => DetectedAtSecondPacket
  BY DEF DInv
<1> QED
  BY <1>1, DetectionInvariant, PTL

(* And a Vulcan, Karhu or Grim server stays the one reported, for sessions  *)
(* short enough that its ids do not reach another signature or wrap around. *)
THEOREM StableReportsStay ==
    ASSUME Ids = Int16, MaxSent <= 12000
    PROVE  GSpec => []ReportStays
<1>1. DInv => ReportStays
  BY DEF DInv, Recognised, ReportStays
<1> QED
  BY <1>1, DetectionInvariant, PTL
=============================================================================
