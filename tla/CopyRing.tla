------------------------------ MODULE CopyRing ------------------------------
(***************************************************************************)
(* The ring buffer of Green Roomz: class CopyRing of the monitor, and the  *)
(* same code written out in Mailbox.push() and drain().  A ring is a       *)
(* record; the operators are its methods.  The capacity is a power of two  *)
(* in the code, so that "(i + 1) & mask" is the index after i.             *)
(***************************************************************************)
EXTENDS Integers, Sequences

CONSTANTS
    Capacity,   \* how many slots the ring has
    Blank       \* the content of a slot that holds no event (undefined)

EmptyRing ==
    [slots |-> [i \in 0..(Capacity - 1) |-> Blank],
     head |-> 0, tail |-> 0, size |-> 0, dropped |-> 0, pushed |-> 0]

After(i) == IF i = Capacity - 1 THEN 0 ELSE i + 1

(* Mutant: a full ring overwrites its oldest event and leaves tail where it
   was, so that the newest event is the next to be read. *)
PushKeepingTail(ring, e) ==
    LET full == ring.size = Capacity IN
    [slots   |-> [ring.slots EXCEPT ![ring.head] = e],
     head    |-> After(ring.head),
     tail    |-> ring.tail,
     size    |-> IF full THEN ring.size ELSE ring.size + 1,
     dropped |-> IF full THEN ring.dropped + 1 ELSE ring.dropped,
     pushed  |-> ring.pushed + 1]

(* A full ring gives up its oldest slot first: head = tail then. *)
PushCopy(ring, e) ==
    LET full == ring.size = Capacity IN
    [slots   |-> [ring.slots EXCEPT ![ring.head] = e],
     head    |-> After(ring.head),
     tail    |-> IF full THEN After(ring.tail) ELSE ring.tail,
     size    |-> IF full THEN ring.size ELSE ring.size + 1,
     dropped |-> IF full THEN ring.dropped + 1 ELSE ring.dropped,
     pushed  |-> ring.pushed + 1]

(* One turn of the loop of Mailbox.drain(). *)
PopOldest(ring) ==
    [slots   |-> [ring.slots EXCEPT ![ring.tail] = Blank],
     head    |-> ring.head,
     tail    |-> After(ring.tail),
     size    |-> ring.size - 1,
     dropped |-> ring.dropped,
     pushed  |-> ring.pushed]

(* The slot that holds the k-th event behind tail. *)
Slot(ring, k) ==
    IF ring.tail + k < Capacity THEN ring.tail + k ELSE ring.tail + k - Capacity

PeekCopies(ring) == [k \in 1..ring.size |-> ring.slots[Slot(ring, k - 1)]]

(* What drainCopies() leaves; what it returns is PeekCopies. *)
Drained(ring) ==
    [ring EXCEPT !.slots = [i \in 0..(Capacity - 1) |->
                               IF \E k \in 1..ring.size : i = Slot(ring, k - 1)
                               THEN Blank ELSE ring.slots[i]],
                 !.tail = ring.head,
                 !.size = 0]
=============================================================================
