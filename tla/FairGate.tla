------------------------------ MODULE FairGate ------------------------------
(***************************************************************************)
(* What the policy gate promises the turns of the gateway, and nothing of  *)
(* counts: a slot is held by one turn; a turn that comes when none is free *)
(* waits behind those that came before it; a slot given back goes to the   *)
(* one that has waited longest, in the same step; a turn may give up while *)
(* it waits and nobody loses a place by that.                              *)
(***************************************************************************)
EXTENDS Naturals, Sequences, FiniteSets

CONSTANTS
  Client,  \* who may hold a slot
  Slots    \* how many there are

VARIABLES
  holders,  \* who holds a slot
  waiting   \* who waits for one, first come first

placeVars == <<holders, waiting>>

GateInit == holders = {} /\ waiting = << >>

Stranger(c) == c \notin holders /\ \A i \in 1..Len(waiting) : waiting[i] # c

Enter(c) ==
  /\ Stranger(c)
  /\ Cardinality(holders) < Slots /\ waiting = << >>
  /\ holders' = holders \cup {c}
  /\ UNCHANGED waiting

Wait(c) ==
  /\ Stranger(c)
  /\ Cardinality(holders) = Slots
  /\ waiting' = Append(waiting, c)
  /\ UNCHANGED holders

GiveBack(c) ==
  /\ c \in holders
  /\ \/ waiting = << >> /\ holders' = holders \ {c} /\ UNCHANGED waiting
     \/ /\ waiting # << >>
        /\ holders' = (holders \ {c}) \cup {Head(waiting)}
        /\ waiting' = Tail(waiting)

GiveUp(c) ==
  /\ \E i \in 1..Len(waiting) :
       /\ waiting[i] = c
       /\ waiting' = SubSeq(waiting, 1, i - 1) \o SubSeq(waiting, i + 1, Len(waiting))
  /\ UNCHANGED holders

GateNext == \E c \in Client : Enter(c) \/ Wait(c) \/ GiveBack(c) \/ GiveUp(c)

GateSpec == GateInit /\ [][GateNext]_placeVars
=============================================================================
