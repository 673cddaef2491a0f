---------------------------- MODULE MCGameSession ----------------------------
(***************************************************************************)
(* Instances of GameSession.  Three sessions let one session's leftovers    *)
(* reach the next and the one after; the Verus starts are a plain one, one  *)
(* that counts through Vulcan's id and one that counts through 0, 1, 2.     *)
(***************************************************************************)
EXTENDS GameSession

MCIds == Int16

MCStarts == {100, -30769, -2}

MCPlainStarts == {100}

MCCountingStarts == {-30770}
=============================================================================
