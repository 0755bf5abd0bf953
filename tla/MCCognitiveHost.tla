-------------------------- MODULE MCCognitiveHost --------------------------
(* Model checking of CognitiveHost: one session. *)
EXTENDS CognitiveHost

CONSTANTS s1, k1, k2, k3

MCOwner == [k \in Key |-> s1]
MCTurnKey == <<k1, k2, k3>>
=============================================================================
