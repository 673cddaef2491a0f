-------------------------- MODULE MCDetectionChannel --------------------------
(***************************************************************************)
(* An instance of DetectionChannel: three names of different lengths that   *)
(* share a character, the longest filling the block up to its terminator.   *)
(***************************************************************************)
EXTENDS DetectionChannel

CONSTANTS a, b, c

MCChars == {a, b, c}

MCNames == {<<a>>, <<b, c>>, <<c, a, b>>}
=============================================================================
