------------------------------ MODULE Mailbox -------------------------------
(***************************************************************************)
(* mailbox.mjs: the ring every hop of a turn is pushed to, and its drain,  *)
(* which runs on setImmediate or when somebody calls it.  drain() takes    *)
(* one event at a time and calls every listener with it; a listener may    *)
(* itself push or drain, in the middle of the drain that calls it.  An     *)
(* event is the number of its push (this.seq).                             *)
(***************************************************************************)
EXTENDS Integers, Sequences, FiniteSets

CONSTANTS
    BoxCapacity,   \* slots of the ring
    BoxRecent,     \* recentLimit
    Listeners,     \* how many listeners are registered: they are called 1, 2, ...
    MaxPushed,     \* bound of the model: events ever pushed
    MaxNested      \* bound of the model: drains inside one another

ASSUME MailboxAssumption ==
    /\ BoxCapacity \in Nat \ {0}
    /\ BoxRecent \in Nat \ {0}
    /\ Listeners \in Nat
    /\ MaxPushed \in Nat
    /\ MaxNested \in Nat

VARIABLES
    box,           \* the ring
    boxRecent,     \* recentBuf: the last events pushed
    boxScheduled,  \* _drainScheduled
    drains,        \* the drain() calls on the stack, innermost last
    boxTaken,      \* what the drains took, in order
    heard          \* listener -> the events it was called with

boxVars == <<box, boxRecent, boxScheduled, drains, boxTaken, heard>>

NoEvent == 0
Ring == INSTANCE CopyRing WITH Capacity <- BoxCapacity, Blank <- NoEvent

BoxTypeOK ==
    /\ box \in [slots : [0..(BoxCapacity - 1) -> 0..MaxPushed],
                head : 0..(BoxCapacity - 1), tail : 0..(BoxCapacity - 1),
                size : 0..BoxCapacity, dropped : Nat, pushed : 0..MaxPushed]
    /\ boxRecent \in Seq(1..MaxPushed)
    /\ boxScheduled \in BOOLEAN
    /\ drains \in Seq([event : 0..MaxPushed, called : 0..Listeners])
    /\ boxTaken \in Seq(0..MaxPushed)
    /\ heard \in [1..Listeners -> Seq(0..MaxPushed)]

BoxInit ==
    /\ box = Ring!EmptyRing
    /\ boxRecent = << >>
    /\ boxScheduled = FALSE
    /\ drains = << >>
    /\ boxTaken = << >>
    /\ heard = [l \in 1..Listeners |-> << >>]

-----------------------------------------------------------------------------
(* A drain on the stack holds the event it last took and the number of
   listeners called with it; between two events it holds NoEvent. *)
Top == drains[Len(drains)]
Inner(frame) == [drains EXCEPT ![Len(drains)] = frame]

(* Somebody outside, or the listener that was called last, has control. *)
Callable == drains # << >> => Top.called > 0

(* The newest BoxRecent events. *)
Newest(s) == IF Len(s) <= BoxRecent THEN s ELSE SubSeq(s, Len(s) - BoxRecent + 1, Len(s))

PushEvent ==
    /\ Callable
    /\ box.pushed < MaxPushed
    /\ box' = Ring!PushCopy(box, box.pushed + 1)
    /\ boxRecent' = Newest(Append(boxRecent, box.pushed + 1))
    /\ boxScheduled' = TRUE
    /\ UNCHANGED <<drains, boxTaken, heard>>

BeginDrain == drains' = Append(drains, [event |-> NoEvent, called |-> 0])

(* The immediate that push() scheduled; it runs when the stack is empty. *)
ScheduledDrain ==
    /\ boxScheduled
    /\ drains = << >>
    /\ boxScheduled' = FALSE
    /\ BeginDrain
    /\ UNCHANGED <<box, boxRecent, boxTaken, heard>>

(* Somebody, or the listener being called, calls drain(). *)
CallDrain ==
    /\ Callable
    /\ Len(drains) < MaxNested
    /\ BeginDrain
    /\ UNCHANGED <<box, boxRecent, boxScheduled, boxTaken, heard>>

BetweenEvents == drains # << >> /\ (Top.event = NoEvent \/ Top.called = Listeners)

(* Mutant: the listeners are called before the slot is given up, so that a
   drain inside a listener finds the event once more. *)
TakeLate ==
    /\ BetweenEvents
    /\ box.size > 0
    /\ box' = IF Len(drains) > 1 THEN Ring!PopOldest(box) ELSE box
    /\ boxTaken' = Append(boxTaken, box.slots[box.tail])
    /\ drains' = Inner([event |-> box.slots[box.tail], called |-> 0])
    /\ UNCHANGED <<boxRecent, boxScheduled, heard>>

TakeNext ==
    /\ BetweenEvents
    /\ box.size > 0
    /\ box' = Ring!PopOldest(box)
    /\ boxTaken' = Append(boxTaken, box.slots[box.tail])
    /\ drains' = Inner([event |-> box.slots[box.tail], called |-> 0])
    /\ UNCHANGED <<boxRecent, boxScheduled, heard>>

CallListener ==
    /\ drains # << >>
    /\ Top.event # NoEvent
    /\ Top.called < Listeners
    /\ heard' = [heard EXCEPT ![Top.called + 1] = Append(heard[Top.called + 1], Top.event)]
    /\ drains' = Inner([event |-> Top.event, called |-> Top.called + 1])
    /\ UNCHANGED <<box, boxRecent, boxScheduled, boxTaken>>

EndDrain ==
    /\ BetweenEvents
    /\ box.size = 0
    /\ drains' = SubSeq(drains, 1, Len(drains) - 1)
    /\ UNCHANGED <<box, boxRecent, boxScheduled, boxTaken, heard>>

BoxNext ==
    PushEvent \/ ScheduledDrain \/ CallDrain \/ TakeNext \/ CallListener \/ EndDrain

BoxSpec == BoxInit /\ [][BoxNext]_boxVars

-----------------------------------------------------------------------------
BoxQueue == INSTANCE LossyQueue WITH
    Event <- 1..MaxPushed, Limit <- BoxCapacity,
    queue <- Ring!PeekCopies(box), taken <- boxTaken, lost <- box.dropped

(* The ring with its two indices is a bounded queue that never refuses a push,
   drops only its oldest event and counts it, and hands events out in order,
   however pushes and drains nest. *)
MailboxIsQueue == BoxQueue!QueueSpec

(* A broadcast, not a steal: no listener is called twice with an event, and when
   no drain is going on every listener was called with every event taken. *)
BroadcastOnce ==
    \A l \in 1..Listeners :
        /\ \A i, j \in 1..Len(heard[l]) : heard[l][i] = heard[l][j] => i = j
        /\ drains = << >> => Len(heard[l]) = Len(boxTaken)
=============================================================================
