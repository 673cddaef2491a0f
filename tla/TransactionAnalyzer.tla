------------------------- MODULE TransactionAnalyzer -------------------------
(***************************************************************************)
(* The class TransactionAnalyzer (transaction.hpp, transaction.cpp): the    *)
(* heuristic that reads the ids of the transactions a Minecraft server      *)
(* sends and infers the anticheat behind them, and the queue of the ids the *)
(* client has not answered yet.                                             *)
(*                                                                          *)
(* Both handlers run as one step each.  They are called from the hooked     *)
(* packet methods of one connection, whose event loop serialises them; the  *)
(* class has no lock of its own.  The call to notify_detection is the step  *)
(* in which lastNotifiedAnticheat changes; what it writes and signals is    *)
(* the subject of DetectionChannel.                                         *)
(***************************************************************************)
EXTENDS Integers, SequencesExt

CONSTANTS
    Ids,          \* the transaction ids that occur
    QueueLimit,   \* capacity of server_transaction_queue (100 in the code)
    MaxPackets    \* bound on packetCount, an int the code never bounds

INT16_MIN == -32768
INT16_MAX == 32767
Int16 == INT16_MIN .. INT16_MAX

ASSUME IdsAssumption == Ids \subseteq Int16
ASSUME QueueLimitAssumption == QueueLimit \in Nat
ASSUME MaxPacketsAssumption == MaxPackets \in Nat

VARIABLES
    lastNotifiedAnticheat,      \* the anticheat reported last
    currentGuess,               \* the guess not confirmed yet
    server_transaction_queue,   \* ids sent by the server, oldest first
    lastId,                     \* the id of the previous server packet
    packetCount                 \* server packets since the last verdict

vars == <<lastNotifiedAnticheat, currentGuess, server_transaction_queue,
          lastId, packetCount>>

(* enum class Anticheat, the members the code assigns. *)
Reported == {"INTAVE", "VERUS", "VULCAN", "KARHU", "GRIM", "AGC"}
Anticheat == Reported \union {"UNKNOWN"}

(* static_cast<int16_t> of the jint the native methods receive. *)
ToInt16(n) == ((n + 32768) % 65536) - 32768

TypeOK ==
    /\ lastNotifiedAnticheat \in Anticheat
    /\ currentGuess \in Anticheat \ {"VERUS"}
    /\ server_transaction_queue \in Seq(Ids)
    /\ Len(server_transaction_queue) <= QueueLimit
    /\ lastId \in Int16
    /\ packetCount \in 0 .. MaxPackets

Init ==
    /\ lastNotifiedAnticheat = "UNKNOWN"
    /\ currentGuess = "UNKNOWN"
    /\ server_transaction_queue = <<>>
    /\ lastId = 0
    /\ packetCount = 0

-----------------------------------------------------------------------------
(* Two ways to miss the limit by one, for the mutants of EnqueueBounded. *)
EnqueueOneTooMany(q, id) ==
    IF Len(q) > QueueLimit THEN Tail(Append(q, id)) ELSE Append(q, id)

EnqueueOneTooFew(q, id) ==
    IF Len(Append(q, id)) >= QueueLimit THEN Tail(Append(q, id)) ELSE Append(q, id)

(* push_back, then pop_front when the queue is over its limit. *)
EnqueueBounded(q, id) ==
    IF Len(Append(q, id)) > QueueLimit THEN Tail(Append(q, id)) ELSE Append(q, id)

(* Erase the occurrence nearest to the front; no occurrence, no change. *)
EraseFirst(q, id) ==
    IF \E i \in 1 .. Len(q) : q[i] = id
    THEN RemoveAt(q, CHOOSE i \in 1 .. Len(q) :
                        q[i] = id /\ \A j \in 1 .. i - 1 : q[j] # id)
    ELSE q

(* Mutant of GuessAfter: only a session's first signature makes a guess. *)
GuessAfterFirstOnly(guess, id) ==
    CASE guess # "UNKNOWN" -> guess
      [] id = -32768 -> "INTAVE"
      [] id = -32767 -> "KARHU"
      [] id = -30767 -> "VULCAN"
      [] id = 0      -> "GRIM"
      [] id = 1      -> "AGC"
      [] OTHER       -> guess

(* The guess after a packet: a signature id replaces it, on every packet. *)
GuessAfter(guess, id) ==
    CASE id = -32768 -> "INTAVE"
      [] id = -32767 -> "KARHU"
      [] id = -30767 -> "VULCAN"
      [] id = 0      -> "GRIM"
      [] id = 1      -> "AGC"
      [] OTHER       -> guess

(* Mutant of Confirms: Vulcan's guard forgets the neighbour above. *)
ConfirmsOneNeighbour(guess, prev, id) ==
    \/ guess = "GRIM"   /\ id = -1
    \/ guess = "AGC"    /\ id = 2
    \/ guess = "KARHU"  /\ prev = -32767 /\ id = -3000
    \/ guess = "KARHU"  /\ prev <= -3000 /\ id = prev - 1
    \/ guess = "INTAVE" /\ id = prev + 1
    \/ guess = "VULCAN" /\ prev # -30768

(* The evidence that confirms a guess; prev is lastId, promoted to int. *)
Confirms(guess, prev, id) ==
    \/ guess = "GRIM"   /\ id = -1
    \/ guess = "AGC"    /\ id = 2
    \/ guess = "KARHU"  /\ prev = -32767 /\ id = -3000
    \/ guess = "KARHU"  /\ prev <= -3000 /\ id = prev - 1
    \/ guess = "INTAVE" /\ id = prev + 1
    \/ guess = "VULCAN" /\ prev \notin {-30768, -30766}

(* Mutant of Sequential: the two ids compared the other way round. *)
SequentialDownwards(prev, id, notified) == prev = id + 1 /\ notified # "VULCAN"

(* Without a guess, two consecutive ids are taken for Verus. *)
Sequential(prev, id, notified) == id = prev + 1 /\ notified # "VULCAN"

(* What the packet id establishes; "UNKNOWN" when confirmed stays false. *)
Verdict(id) ==
    LET guess == GuessAfter(currentGuess, id)
    IN  CASE packetCount + 1 > 1 /\ Confirms(guess, lastId, id) -> guess
          [] /\ packetCount + 1 > 1
             /\ guess = "UNKNOWN"
             /\ Sequential(lastId, id, lastNotifiedAnticheat) -> "VERUS"
          [] OTHER -> "UNKNOWN"

-----------------------------------------------------------------------------
(* Mutant of Conclude: the guess is left for the next analysis to find. *)
ConcludeKeepingGuess(verdict) ==
    /\ verdict # "UNKNOWN"
    /\ lastNotifiedAnticheat' = verdict
    /\ packetCount' = 0
    /\ UNCHANGED currentGuess

(* Mutant of Conclude: the guess is reset before it is noted as notified. *)
ConcludeResetFirst(verdict) ==
    /\ verdict # "UNKNOWN"
    /\ currentGuess' = "UNKNOWN"
    /\ lastNotifiedAnticheat' = currentGuess'
    /\ packetCount' = 0

(* A verdict: report it if it is news, and start the next analysis. *)
Conclude(verdict) ==
    /\ verdict # "UNKNOWN"
    /\ lastNotifiedAnticheat' = verdict
    /\ currentGuess' = "UNKNOWN"
    /\ packetCount' = 0

(* No verdict: the analysis goes on with one packet more. *)
Continue(verdict, id) ==
    /\ verdict = "UNKNOWN"
    /\ currentGuess' = GuessAfter(currentGuess, id)
    /\ packetCount' = packetCount + 1
    /\ UNCHANGED lastNotifiedAnticheat

(* S32PacketConfirmTransaction, server -> client. *)
AnalyzeServer(id) ==
    /\ packetCount < MaxPackets
    /\ server_transaction_queue' = EnqueueBounded(server_transaction_queue, id)
    /\ \/ Conclude(Verdict(id))
       \/ Continue(Verdict(id), id)
    /\ lastId' = id

(* C0FPacketConfirmTransaction, client -> server. *)
AnalyzeClient(id) ==
    /\ server_transaction_queue' = EraseFirst(server_transaction_queue, id)
    /\ UNCHANGED <<lastNotifiedAnticheat, currentGuess, lastId, packetCount>>

Next == \E id \in Ids : AnalyzeServer(id) \/ AnalyzeClient(id)

Spec == Init /\ [][Next]_vars
=============================================================================
