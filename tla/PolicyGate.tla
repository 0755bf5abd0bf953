----------------------------- MODULE PolicyGate -----------------------------
(***************************************************************************)
(* PolicyGate in src/scheduler.mjs: the counting gate every inference      *)
(* request passes, with the FIFO of those that wait.  The actions here are *)
(* the gate's part of a step; the module of the requests says who takes it *)
(* and when.                                                               *)
(*                                                                         *)
(* A queued item whose signal is aborted leaves the queue in the abort     *)
(* listener, in the same turn of the event loop, so drain() never meets    *)
(* one.  The policy is set once, by the constructor.                       *)
(***************************************************************************)
EXTENDS Naturals, Sequences

CONSTANT Max  \* POLICIES[policy].maxHeavyInFlight
ASSUME MaxAssumption == Max \in Nat \ {0}

VARIABLES
  active,  \* slots counted as taken
  queue    \* requests that wait for one, first come first

gateVars == <<active, queue>>

GateInit == active = 0 /\ queue = << >>

(* acquire() with a slot to spare, and without. *)
TakeSlot ==
  /\ active < Max
  /\ active' = active + 1
  /\ UNCHANGED queue

(* Mutant: the queue is served last come, first served. *)
EnqueueInFront(t) ==
  /\ active >= Max
  /\ queue' = << t >> \o queue
  /\ UNCHANGED active

Enqueue(t) ==
  /\ active >= Max
  /\ queue' = Append(queue, t)
  /\ UNCHANGED active

(* How many waiters drain() wakes once the count has fallen to n. *)
Woken(n) ==
  LET room == IF n < Max THEN Max - n ELSE 0 IN
  IF Len(queue) < room THEN Len(queue) ELSE room

Lowered == IF active = 0 THEN 0 ELSE active - 1

(* The waiters that release() hands the freed slot to. *)
Granted == {queue[i] : i \in 1..Woken(Lowered)}

(* Mutant: release() forgets to drain the queue. *)
ReleaseNoDrain ==
  /\ active' = Lowered
  /\ UNCHANGED queue

(* Mutant: drain() does not count the slots it hands out. *)
ReleaseUncounted ==
  /\ active' = Lowered
  /\ queue' = SubSeq(queue, Woken(Lowered) + 1, Len(queue))

Release ==
  /\ active' = Lowered + Woken(Lowered)
  /\ queue' = SubSeq(queue, Woken(Lowered) + 1, Len(queue))

(* The abort listener of a queued item. *)
Leave(t) ==
  /\ \E i \in 1..Len(queue) :
       /\ queue[i] = t
       /\ queue' = SubSeq(queue, 1, i - 1) \o SubSeq(queue, i + 1, Len(queue))
  /\ UNCHANGED active
=============================================================================
