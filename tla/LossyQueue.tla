----------------------------- MODULE LossyQueue -----------------------------
(***************************************************************************)
(* What every event buffer of Green Roomz promises its producers and its   *)
(* drainers, and nothing of how: a push never waits and is never refused;  *)
(* when the buffer is full the oldest event makes room and is counted;     *)
(* events are taken oldest first, some or all at a time.  The mailbox of   *)
(* the gateway and both rings of the monitor implement it.                 *)
(***************************************************************************)
EXTENDS Integers, Sequences

CONSTANTS
    Event,   \* what can be pushed
    Limit    \* how many events the buffer holds

VARIABLES
    queue,   \* the events held, oldest first
    taken,   \* history: the events taken, in the order they were
    lost     \* how many events made room for newer ones

queueVars == <<queue, taken, lost>>

QueueInit == queue = << >> /\ taken = << >> /\ lost = 0

Push(e) ==
    /\ \/ Len(queue) < Limit /\ queue' = Append(queue, e) /\ lost' = lost
       \/ Len(queue) = Limit /\ queue' = Append(Tail(queue), e) /\ lost' = lost + 1
    /\ UNCHANGED taken

Take(n) ==
    /\ taken' = taken \o SubSeq(queue, 1, n)
    /\ queue' = SubSeq(queue, n + 1, Len(queue))
    /\ UNCHANGED lost

QueueNext ==
    \/ \E e \in Event : Push(e)
    \/ \E n \in 1..Len(queue) : Take(n)

QueueSpec == QueueInit /\ [][QueueNext]_queueVars
=============================================================================
