--------------------------- MODULE MCFingerprinting ---------------------------
(***************************************************************************)
(* An instance of AnalyzerHistory: the five signatures, the ids that        *)
(* confirm them, the neighbours the code singles out, one plain id, and the *)
(* largest id, which the least one follows where 16 bits wrap.              *)
(***************************************************************************)
EXTENDS AnalyzerHistory

MCIds == {-32768, -32767, -32766, -30768, -30767, -30766,
          -3001, -3000, -1, 0, 1, 2, 50, 32767}
=============================================================================
