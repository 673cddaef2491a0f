--------------------------- MODULE AnalyzerHistory ---------------------------
(***************************************************************************)
(* TransactionAnalyzer with one history variable, the ids received since    *)
(* the last verdict, and its refinement of Fingerprinting.  The variable    *)
(* only records: no step of the analyzer reads it.                          *)
(***************************************************************************)
EXTENDS TransactionAnalyzer

VARIABLE round   \* the ids of the server packets since the last verdict

hvars == <<vars, round>>

HInit == Init /\ round = <<>>

HServer(id) ==
    /\ AnalyzeServer(id)
    /\ round' = IF Verdict(id) = "UNKNOWN" THEN Append(round, id) ELSE <<>>

HClient(id) == AnalyzeClient(id) /\ UNCHANGED round

HNext == \E id \in Ids : HServer(id) \/ HClient(id)

HSpec == HInit /\ [][HNext]_hvars

F == INSTANCE Fingerprinting WITH reported <- lastNotifiedAnticheat

-----------------------------------------------------------------------------
(* Three scalars stand for the whole round: packetCount is its length,      *)
(* lastId its last id, and currentGuess the owner of its last signature,    *)
(* UNKNOWN exactly when the round has none.  A guess that outlived its      *)
(* round, or a count that missed a packet, would let ids of two different   *)
(* analyses confirm each other.                                             *)
GuessSummarisesRound ==
    /\ packetCount = Len(round)
    /\ round # <<>> => lastId = round[Len(round)]
    /\ currentGuess = "UNKNOWN" => F!Suspects(round) = {}
    /\ currentGuess # "UNKNOWN" => F!Suspects(round) = {currentGuess}

(* The analyzer reports exactly what the specification over the ids admits, *)
(* in the step in which the specification admits it.                        *)
ImplementsFingerprinting == F!Spec
=============================================================================
