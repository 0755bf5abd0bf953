----------------------------- MODULE MCChatTurn -----------------------------
(* Small instances of ChatTurn. *)
EXTENDS ChatTurn, TLC
TurnSymmetry == Permutations(Turn)
=============================================================================
