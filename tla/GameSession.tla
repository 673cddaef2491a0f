----------------------------- MODULE GameSession -----------------------------
(***************************************************************************)
(* The analyzer in the game it watches: a player connects to servers one    *)
(* after another, each server sends the transactions of its anticheat, the  *)
(* client answers them in order, and a disconnect drops the answers still   *)
(* owed.  The sequences the servers send are not in the repository; they    *)
(* are the ones the heuristic of transaction.cpp expects of each anticheat. *)
(***************************************************************************)
EXTENDS TransactionAnalyzer

CONSTANTS
    Servers,      \* the anticheats of the servers the player can join
    Starts,       \* the ids a Verus server can start from
    MaxLag,       \* bound on the transactions the client has yet to answer
    MaxSent,      \* bound on the transactions of one session
    MaxSessions   \* bound on the number of sessions

ASSUME ServersAssumption == Servers \subseteq Reported
ASSUME StartsAssumption == Starts \subseteq Int16
ASSUME SessionBoundsAssumption ==
    MaxLag \in Nat /\ MaxSent \in Nat /\ MaxSessions \in Nat

VARIABLES
    server,     \* the anticheat of the server joined, "NONE" in the menu
    start,      \* the id a Verus session started from
    sent,       \* transactions the server has sent in this session
    pending,    \* ids the client has received and not answered, oldest first
    sessions    \* sessions so far

envVars == <<server, start, sent, pending, sessions>>
gvars == <<vars, envVars>>

(* The id of transaction k (from 0) of a server, as a signed 16-bit value. *)
IdSent(ac, s, k) ==
    ToInt16(CASE ac = "VULCAN" -> -30767 + 5 * k
              [] ac = "INTAVE" -> -32768 + k
              [] ac = "KARHU"  -> IF k = 0 THEN -32767 ELSE -2999 - k
              [] ac = "GRIM"   -> -k
              [] ac = "AGC"    -> 1 + k
              [] ac = "VERUS"  -> s + k)

NextId == IdSent(server, start, sent)

GTypeOK ==
    /\ TypeOK
    /\ server \in Reported \union {"NONE"}
    /\ start \in Int16
    /\ sent \in 0 .. MaxSent
    /\ pending \in Seq(Ids)
    /\ Len(pending) <= MaxLag
    /\ sessions \in 0 .. MaxSessions

GInit ==
    /\ Init
    /\ server = "NONE"
    /\ start = 0
    /\ sent = 0
    /\ pending = <<>>
    /\ sessions = 0

-----------------------------------------------------------------------------
Connect(ac) ==
    /\ server = "NONE"
    /\ sessions < MaxSessions
    /\ server' = ac
    /\ start' \in IF ac = "VERUS" THEN Starts ELSE {0}
    /\ sent' = 0
    /\ sessions' = sessions + 1
    /\ UNCHANGED <<vars, pending>>

(* The connection drops: nothing tells the analyzer, nothing more is sent. *)
Disconnect ==
    /\ server # "NONE"
    /\ server' = "NONE"
    /\ pending' = <<>>
    /\ UNCHANGED <<vars, start, sent, sessions>>

(* The server's next transaction arrives and is read: the hook runs. *)
ServerSends ==
    /\ server # "NONE"
    /\ sent < MaxSent
    /\ Len(pending) < MaxLag
    /\ AnalyzeServer(NextId)
    /\ pending' = Append(pending, NextId)
    /\ sent' = sent + 1
    /\ UNCHANGED <<server, start, sessions>>

(* The client answers the oldest transaction: the other hook runs. *)
ClientReplies ==
    /\ pending # <<>>
    /\ AnalyzeClient(Head(pending))
    /\ pending' = Tail(pending)
    /\ UNCHANGED <<server, start, sent, sessions>>

GNext ==
    \/ \E ac \in Servers : Connect(ac)
    \/ Disconnect
    \/ ServerSends
    \/ ClientReplies

GSpec == GInit /\ [][GNext]_gvars

-----------------------------------------------------------------------------
(* The anticheats recognised by an id of their own.  Intave is not one: the *)
(* id after its first is Karhu's.                                           *)
Signed == {"VULCAN", "KARHU", "GRIM", "AGC"}

(* Of those, the ones whose later ids never look like another anticheat     *)
(* (Antigamingchair goes on 3, 4, ... and these are consecutive).           *)
Stable == {"VULCAN", "KARHU", "GRIM"}

(* Whatever the sessions before left in the guess, the count, the last id   *)
(* and the last report, the second transaction of a server with a signature *)
(* has that server reported: a switch of servers needs no reset.            *)
DetectedAtSecondPacket ==
    server \in Signed /\ sent = 2 => lastNotifiedAnticheat = server

(* And for the stable ones no later packet of the session takes it back.    *)
ReportStays ==
    server \in Stable /\ sent >= 2 => lastNotifiedAnticheat = server

(* The sequence q ends with the sequence p. *)
EndsWith(q, p) ==
    /\ Len(p) <= Len(q)
    /\ \A i \in 1 .. Len(p) : p[i] = q[Len(q) - Len(p) + i]

(* While the client is at most QueueLimit answers behind, what it still     *)
(* owes is the newest part of server_transaction_queue, in order, whatever  *)
(* ids of earlier sessions lie before it: no answer the client owes has     *)
(* been evicted, and answering an id that repeats removes no newer one.     *)
PendingIsSuffix == EndsWith(server_transaction_queue, pending)

-----------------------------------------------------------------------------
(* What comments and the README say of sessions the heuristic misjudges.    *)

(* transaction.cpp:102: a server that merely counts up to Vulcan's id in    *)
(* the course of time is not taken for Vulcan.                              *)
CountingIsNotVulcan ==
    server = "VERUS" /\ sessions = 1 => lastNotifiedAnticheat # "VULCAN"

(* README.md:39: after a switch the new server's anticheat is determined;   *)
(* a Verus server counts plainly, so MaxSent packets are more than enough.  *)
SwitchToVerusIsDetected ==
    server = "VERUS" /\ sent = MaxSent => lastNotifiedAnticheat = "VERUS"
=============================================================================
