---------------------------- MODULE MCMemoryLoop ----------------------------
(* Model checking of MemoryLoop: one session with an ordinary key, a goal   *)
(* and a derived key.                                                       *)
EXTENDS MemoryLoop, TLC

CONSTANTS s1, k1, k2, d1

MCOwner == [k \in Key |-> s1]
LoopSymmetry == Permutations(Call)
=============================================================================
