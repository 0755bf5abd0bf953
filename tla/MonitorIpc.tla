----------------------------- MODULE MonitorIpc -----------------------------
(***************************************************************************)
(* monitor/ipc.mjs with the part of api.mjs and calls.mjs it uses: two     *)
(* rings of copies, the recent events, the events by ticket, and rejects,  *)
(* which every component of the monitor caches in one table by ticket      *)
(* (states.mjs).                                                           *)
(*                                                                         *)
(* drain() takes all events of both rings before it calls a listener, so   *)
(* that what a listener pushes or drains comes after it: a drain is one    *)
(* action, and listeners are left out.                                     *)
(***************************************************************************)
EXTENDS Integers, Sequences, FiniteSets, SequencesExt

CONSTANTS
    Tickets,        \* what callers name their events with
    Callers,        \* sets of rights with a role: [role, rights]
    HotSlots,       \* HOT_RING_SLOTS
    UpcallSlots,    \* UPCALL_SLOTS
    IpcRecent,      \* recentLimit
    Numbers,        \* the seq that callers may give an event themselves
    MaxPosted       \* bound of the model: events ever enqueued

ASSUME IpcAssumption ==
    /\ HotSlots \in Nat \ {0}
    /\ UpcallSlots \in Nat \ {0}
    /\ IpcRecent \in Nat \ {0}
    /\ Numbers \subseteq Nat \ {0}
    /\ MaxPosted \in Nat
    /\ \A c \in Callers : "role" \in DOMAIN c /\ "rights" \in DOMAIN c

VARIABLES
    hot, upcalls,    \* the two rings
    recentBuf,       \* the last events
    byTicket,        \* ticket -> its last events
    rejects,         \* rejectsByTicket: ticket -> who rejected it first, or "none"
    ipcScheduled,    \* _drainScheduled
    posted,          \* history: every event enqueued
    hotTaken,        \* history: what the drains took off the hot ring
    upcallsTaken,    \* history: what they took off the other ring
    ipcTaken         \* what they returned, in order

ipcVars == <<hot, upcalls, recentBuf, byTicket, rejects, ipcScheduled, posted,
             hotTaken, upcallsTaken, ipcTaken>>

(* The right that each kind of event needs; a kind that is not here is unknown. *)
Needs == [hop |-> "POST", reject |-> "POST", upcall |-> "UPCALL", reply |-> "REPLY",
          vote |-> "VOTE"]
Kinds == DOMAIN Needs \cup {"unknown"}

(* Events.  seq is the number that the caller or else the queue gave; nth, the place
   among all that were enqueued, and by, who made the event, are history. *)
EventOf(kinds, makers) ==
    [nth : 1..MaxPosted, seq : 1..MaxPosted \cup Numbers, kind : kinds, ticket : Tickets,
     by : makers]
HotEvent == EventOf({"hop", "reply", "reject"}, {"caller", "queue"})
UpcallEvent == EventOf({"upcall"}, {"caller"})
Blank == [nth |-> 0]

HotRing == INSTANCE CopyRing WITH Capacity <- HotSlots
UpcallRing == INSTANCE CopyRing WITH Capacity <- UpcallSlots

IpcInit ==
    /\ hot = HotRing!EmptyRing
    /\ upcalls = UpcallRing!EmptyRing
    /\ recentBuf = << >>
    /\ byTicket = [t \in Tickets |-> << >>]
    /\ rejects = [t \in Tickets |-> "none"]
    /\ ipcScheduled = FALSE
    /\ posted = << >>
    /\ hotTaken = << >>
    /\ upcallsTaken = << >>
    /\ ipcTaken = << >>

-----------------------------------------------------------------------------
(* The newest IpcRecent events of a buffer. *)
LastOnes(s) == SubSeq(s, 1 + (IF Len(s) > IpcRecent THEN Len(s) - IpcRecent ELSE 0), Len(s))

(* Mutant: the splice of the buffer of a ticket cuts one event too many. *)
ShortBucket(t, e) ==
    LET kept == LastOnes(Append(byTicket[t], e)) IN
    IF Len(kept) < IpcRecent THEN kept ELSE Tail(kept)

Bucket(t, e) == LastOnes(Append(byTicket[t], e))

(* The seq of the next event: the caller's, or where it gave none the count of all. *)
NumberFor(number) == IF number = 0 THEN Len(posted) + 1 ELSE number

Enqueue(kind, by, number, t) ==
    LET e == [nth |-> Len(posted) + 1, seq |-> NumberFor(number), kind |-> kind,
              ticket |-> t, by |-> by] IN
    /\ Len(posted) < MaxPosted
    /\ IF kind = "upcall"
       THEN upcalls' = UpcallRing!PushCopy(upcalls, e) /\ hot' = hot
       ELSE hot' = HotRing!PushCopy(hot, e) /\ upcalls' = upcalls
    /\ recentBuf' = LastOnes(Append(recentBuf, e))
    /\ byTicket' = [byTicket EXCEPT ![t] = Bucket(t, e)]
    /\ ipcScheduled' = TRUE
    /\ posted' = Append(posted, e)
    /\ UNCHANGED <<hotTaken, upcallsTaken, ipcTaken>>

(* Mutant: the cache is filled and never looked at. *)
RejectAgain(t) ==
    /\ rejects' = [rejects EXCEPT ![t] = "ipc"]
    /\ Enqueue("reject", "queue", 0, t)

(* _reject: the first reject of a ticket is kept and enqueued; later ones return it. *)
Reject(t) ==
    /\ rejects[t] = "none"
    /\ rejects' = [rejects EXCEPT ![t] = "ipc"]
    /\ Enqueue("reject", "queue", 0, t)

(* push: unknown kinds, missing rights, stubs and operations that are not on the
   list are rejected. *)
Admits(c, kind, allowlisted) ==
    /\ kind \in DOMAIN Needs
    /\ Needs[kind] \in c.rights
    /\ kind # "vote"
    /\ kind = "upcall" => allowlisted

PushIpc(c, kind, allowlisted, number, t) ==
    IF Admits(c, kind, allowlisted)
    THEN Enqueue(kind, "caller", number, t) /\ UNCHANGED rejects
    ELSE Reject(t)

(* CALL_TABLE for post, wait and reply, with the right that each needs. *)
CallRight == [post |-> "POST", wait |-> "WAIT", reply |-> "REPLY"]
MayCall(c, call) ==
    /\ CallRight[call] \in c.rights
    /\ call = "wait" => c.role = "ticket_owner"
    /\ call = "reply" => c.role = "handler"

Post(c, kind, allowlisted, number, t) ==
    IF MayCall(c, "post") THEN PushIpc(c, kind, allowlisted, number, t) ELSE Reject(t)

(* A hop carries no number of the caller. *)
ObserveHop(c, t) == PushIpc(c, "hop", TRUE, 0, t)

Reply(c, number, t) ==
    IF MayCall(c, "reply") THEN PushIpc(c, "reply", TRUE, number, t) ELSE Reject(t)

(* A wait that is allowed reads, and changes nothing. *)
WaitDenied(c, t) == ~MayCall(c, "wait") /\ Reject(t)

(* Another component of the monitor rejects the ticket first. *)
RejectElsewhere(t) ==
    /\ rejects[t] = "none"
    /\ rejects' = [rejects EXCEPT ![t] = "other"]
    /\ UNCHANGED <<hot, upcalls, recentBuf, byTicket, ipcScheduled, posted,
                   hotTaken, upcallsTaken, ipcTaken>>

(* The order of a stable sort by seq of the hot ring followed by the upcalls. *)
Before(e, f) ==
    \/ e.seq < f.seq
    \/ /\ e.seq = f.seq
       /\ \/ e.kind # "upcall" /\ f.kind = "upcall"
          \/ (e.kind = "upcall" <=> f.kind = "upcall") /\ e.nth < f.nth

(* Events in that order: the k-th of a set is the one that k - 1 are before. *)
BySeq(S) ==
    [k \in 1..Cardinality(S) |->
        CHOOSE e \in S : Cardinality({f \in S : Before(f, e)}) = k - 1]

(* The events of both rings, in order of seq. *)
HotHeld == HotRing!PeekCopies(hot)
UpcallsHeld == UpcallRing!PeekCopies(upcalls)
Peek == BySeq(Range(HotHeld) \cup Range(UpcallsHeld))

DrainIpc ==
    /\ hotTaken' = hotTaken \o HotHeld
    /\ upcallsTaken' = upcallsTaken \o UpcallsHeld
    /\ ipcTaken' = ipcTaken \o Peek
    /\ hot' = HotRing!Drained(hot)
    /\ upcalls' = UpcallRing!Drained(upcalls)
    /\ UNCHANGED <<recentBuf, byTicket, rejects, posted>>

(* Somebody calls drain(). *)
CallIpcDrain == DrainIpc /\ UNCHANGED ipcScheduled

(* The immediate that _enqueue scheduled. *)
ScheduledIpcDrain == ipcScheduled /\ ipcScheduled' = FALSE /\ DrainIpc

(* What an allowed wait returns: the events of the ticket found in the rings, in the
   recent events or under the ticket, the first of each number and kind. *)
Considered(t) == Peek \o recentBuf \o byTicket[t]
SameCopy(e, f) == e.ticket = f.ticket /\ e.seq = f.seq /\ e.kind = f.kind

CopiesForTicket(t) ==
    LET seen == Considered(t)
    IN {seen[i] : i \in {j \in 1..Len(seen) :
            /\ seen[j].ticket = t
            /\ \A k \in 1..(j - 1) : ~SameCopy(seen[k], seen[j])}}

IpcNext ==
    \/ \E c \in Callers, t \in Tickets :
        \/ ObserveHop(c, t)
        \/ \E number \in {0} \cup Numbers :
            \/ \E kind \in Kinds : \E allowlisted \in {TRUE, kind # "upcall"} :
                Post(c, kind, allowlisted, number, t)
            \/ Reply(c, number, t)
        \/ WaitDenied(c, t)
    \/ \E t \in Tickets : RejectElsewhere(t)
    \/ CallIpcDrain
    \/ ScheduledIpcDrain

IpcSpec == IpcInit /\ [][IpcNext]_ipcVars

-----------------------------------------------------------------------------
HotQueue == INSTANCE LossyQueue WITH
    Event <- HotEvent, Limit <- HotSlots,
    queue <- HotHeld, taken <- hotTaken, lost <- hot.dropped
UpcallQueue == INSTANCE LossyQueue WITH
    Event <- UpcallEvent, Limit <- UpcallSlots,
    queue <- UpcallsHeld, taken <- upcallsTaken, lost <- upcalls.dropped

(* The drains return what they took off both rings, each event once; and those that
   carry the number the queue gives come back in the order in which they were enqueued,
   whatever numbers the events of other callers carry and whichever ring held them. *)
ReturnedInOrder ==
    /\ Range(ipcTaken) = Range(hotTaken) \cup Range(upcallsTaken)
    /\ \A i, j \in 1..Len(ipcTaken) :
        i < j =>
            /\ ipcTaken[i].nth # ipcTaken[j].nth
            /\ ipcTaken[i].seq = ipcTaken[i].nth /\ ipcTaken[j].seq = ipcTaken[j].nth
                => ipcTaken[i].nth < ipcTaken[j].nth

(* Each ring of the monitor is a bounded queue that drops its oldest event only,
   counts it, and never holds up or loses an event of the other ring; and the
   drains merge the two. *)
RingsAreQueues == HotQueue!QueueSpec /\ UpcallQueue!QueueSpec /\ []ReturnedInOrder

(* Whatever was drained or dropped, the owner of a ticket finds a copy of the number
   and the kind of every event of it that has fewer than IpcRecent newer ones: that
   very event, unless a caller gave its number to two of a kind. *)
WaitRecalls ==
    \A t \in Tickets :
        LET copies == CopiesForTicket(t) IN
        \A i \in 1..Len(posted) :
            /\ posted[i].ticket = t
            /\ Cardinality({j \in (i + 1)..Len(posted) : posted[j].ticket = t}) < IpcRecent
            => /\ \E e \in copies : SameCopy(e, posted[i])
               /\ (\A j \in 1..Len(posted) : SameCopy(posted[j], posted[i]) => j = i)
                    => posted[i] \in copies

(* The queue rejects a ticket once for all callers: one reject that it made is in the
   queue when this component rejected it first, and none when another did; the rejects
   that callers push themselves are beside that, and kept by no table. *)
OneRejectPerTicket ==
    \A t \in Tickets :
        Cardinality({i \in 1..Len(posted) : /\ posted[i].kind = "reject"
                                            /\ posted[i].by = "queue"
                                            /\ posted[i].ticket = t})
            = (IF rejects[t] = "ipc" THEN 1 ELSE 0)
=============================================================================
