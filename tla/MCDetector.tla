------------------------------ MODULE MCDetector ------------------------------
(***************************************************************************)
(* Instances of Detector: the ids that report Grim and AntiGamingChair, in  *)
(* either order and again, with names of different lengths.                 *)
(***************************************************************************)
EXTENDS Detector

CONSTANTS a, b, c

MCIds == {-1, 0, 1, 2}

MCChars == {a, b, c}

MCNameOf ==
    [ac \in Reported |-> CASE ac = "GRIM" -> <<a>>
                           [] ac = "AGC"  -> <<b, c>>
                           [] OTHER       -> <<c>>]
=============================================================================
