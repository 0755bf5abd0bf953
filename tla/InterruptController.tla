------------------------- MODULE InterruptController -------------------------
(***************************************************************************)
(* The cognitive interrupt controller of Green Brainz: InterruptController *)
(* in irq/irq-controller.mjs.  Every method is synchronous, so each is one *)
(* action; callers interleave between them, and a generation lease is held *)
(* across the awaits of the request that asked for it.                     *)
(*                                                                         *)
(* Time is abstracted to the order of lastTouched ("newer"): a session may *)
(* have expired at any call, the longest untouched first.  An IRQ event is *)
(* its priority and its sequence number.  The pending array is kept sorted *)
(* by eventOrder, so it is a set here, ordered by Before.                  *)
(***************************************************************************)
EXTENDS Naturals, FiniteSets

CONSTANTS
  Session,
  Gen,          \* generation leases; an ended one is reused
  Priority,     \* priorities in use
  MaxPending,
  MaxSessions,
  MaxSequence,  \* bound of the model: number of IRQs ever queued
  None

ASSUME IrqAssumption ==
  /\ None \notin Gen \cup Session
  /\ Priority \subseteq Nat
  /\ MaxPending \in Nat \ {0}
  /\ MaxSessions \in Nat \ {0}
  /\ MaxSequence \in Nat

VARIABLES
  known,     \* keys of the sessions map
  newer,     \* <<s, d>>: s was touched after d
  active,    \* state.active per session
  pending,   \* state.pending per session
  lease,     \* per generation: its session and why its signal was aborted
  sequence,
  offered    \* history: what was queued since pending was last emptied

vars == <<known, newer, active, pending, lease, sequence, offered>>

Event == [priority: Priority, seq: 0..MaxSequence]

Ended == [session |-> None, reason |-> "none"]

Init ==
  /\ known = {}
  /\ newer = {}
  /\ active = [s \in Session |-> None]
  /\ pending = [s \in Session |-> {}]
  /\ lease = [g \in Gen |-> Ended]
  /\ sequence = 0
  /\ offered = [s \in Session |-> {}]

-----------------------------------------------------------------------------
(* eventOrder(). *)
Before(e, d) ==
  \/ e.priority > d.priority
  \/ e.priority = d.priority /\ e.seq < d.seq

Idle == {s \in known : active[s] = None}

(* The longest untouched idle sessions are x. *)
Oldest(x, idle) ==
  x \subseteq idle /\ \A s \in x, d \in idle \ x : <<d, s>> \in newer

(* Mutant: a full map is not noticed. *)
DropExpired(s, drop) == Oldest(drop, Idle)

(* What a call for session s drops: expire() takes the longest untouched   *)
(* idle sessions, and evictOldestIdle() one more when s is new and the map *)
(* full.  Without an idle session to take the call throws.                 *)
Drop(s, drop) ==
  /\ Oldest(drop, Idle)
  /\ s \in known \ drop \/ Cardinality(known \ drop) < MaxSessions

(* The map and lastTouched after a call for session s that drops others.   *)
Touch(s, drop) ==
  /\ known' = (known \ drop) \cup {s}
  /\ newer' = {p \in newer : {p[1], p[2]} \cap (drop \cup {s}) = {}}
                \cup {<<s, d>> : d \in known' \ {s}}

(* table with the entries of dropped sessions emptied, and s set to new.   *)
Put(table, s, drop, new) ==
  [x \in Session |-> IF x = s THEN new ELSE IF x \in drop THEN {} ELSE table[x]]

Held(table, s, drop) == IF s \in drop THEN {} ELSE table[s]

Keep(s, drop) ==
  /\ pending' = Put(pending, s, drop, Held(pending, s, drop))
  /\ offered' = Put(offered, s, drop, Held(offered, s, drop))

-----------------------------------------------------------------------------
(* A call for a session that is not tracked and creates none (status,      *)
(* cancel, consume), or that throws for lack of room: only expire() shows. *)
Unknown ==
  \E gone \in SUBSET Idle :
    /\ Oldest(gone, Idle)
    /\ known' = known \ gone
    /\ newer' = {p \in newer : {p[1], p[2]} \cap gone = {}}
    /\ pending' = [s \in Session |-> IF s \in gone THEN {} ELSE pending[s]]
    /\ offered' = [s \in Session |-> IF s \in gone THEN {} ELSE offered[s]]
    /\ UNCHANGED <<active, lease, sequence>>

(* A call that finds session s, or creates it, and changes nothing else:   *)
(* status(), begin() in conflict, cancel() with nothing to cancel,         *)
(* consume() of no events, begin() or inject() of an input it refuses.     *)
Seen(s) ==
  \E drop \in SUBSET Idle :
    /\ Drop(s, drop)
    /\ Touch(s, drop) /\ Keep(s, drop)
    /\ UNCHANGED <<active, lease, sequence>>

(* Mutant: a second lease replaces the one in flight. *)
BeginAnyway(s, g, reason) ==
  \E drop \in SUBSET Idle :
    /\ Drop(s, drop)
    /\ lease[g].session = None
    /\ Touch(s, drop) /\ Keep(s, drop)
    /\ active' = [active EXCEPT ![s] = g]
    /\ lease' = [lease EXCEPT ![g] = [session |-> s, reason |-> reason]]
    /\ UNCHANGED sequence

(* begin(): the client's signal may have been aborted before. *)
Begin(s, g, reason) ==
  \E drop \in SUBSET Idle :
    /\ Drop(s, drop)
    /\ active[s] = None /\ lease[g].session = None
    /\ Touch(s, drop) /\ Keep(s, drop)
    /\ active' = [active EXCEPT ![s] = g]
    /\ lease' = [lease EXCEPT ![g] = [session |-> s, reason |-> reason]]
    /\ UNCHANGED sequence

(* Mutant: a full queue drops its oldest event. *)
SliceFirst(new, kept) ==
  IF Cardinality(new) <= MaxPending THEN kept = new
  ELSE \E old \in new : kept = new \ {old} /\ \A e \in kept : old.seq < e.seq

(* sort() and slice(0, maxPending) of one event more than was retained.    *)
Slice(new, kept) ==
  IF Cardinality(new) <= MaxPending THEN kept = new
  ELSE \E last \in new : kept = new \ {last} /\ \A e \in kept : Before(e, last)

(* inject() of an event e that leaves kept pending. *)
Queue(s, e, kept) ==
  \E drop \in SUBSET Idle :
    /\ Drop(s, drop)
    /\ sequence < MaxSequence
    /\ sequence' = sequence + 1
    /\ e.seq = sequence
    /\ Slice(Held(pending, s, drop) \cup {e}, kept)
    /\ Touch(s, drop)
    /\ pending' = Put(pending, s, drop, kept)
    /\ offered' = Put(offered, s, drop, Held(offered, s, drop) \cup {e})
    /\ UNCHANGED active

Inject(s, p) ==
  LET e == [priority |-> p, seq |-> sequence] IN
  /\ \E kept \in SUBSET (pending[s] \cup {e}) : Queue(s, e, kept)
  /\ UNCHANGED lease

(* Mutant: the signal is aborted without the reason. *)
AbortUnnamed(g, reason) ==
  IF lease[g].reason = "none"
  THEN lease' = [lease EXCEPT ![g].reason = "AbortError"]
  ELSE lease' = lease

(* Mutant: the last reason stays. *)
AbortAgain(g, reason) == lease' = [lease EXCEPT ![g].reason = reason]

(* The abort of g's composed signal: the first reason stays. *)
Abort(g, reason) ==
  IF lease[g].reason = "none"
  THEN lease' = [lease EXCEPT ![g].reason = reason]
  ELSE lease' = lease

(* Mutant: the queue's verdict is ignored. *)
PreemptUnqueued(s, p) ==
  LET e == [priority |-> p, seq |-> sequence] IN
  /\ \E kept \in SUBSET (pending[s] \cup {e}) : Queue(s, e, kept)
  /\ IF active[s] # None THEN Abort(active[s], "preempt") ELSE UNCHANGED lease

Preempt(s, p) ==
  LET e == [priority |-> p, seq |-> sequence] IN
  \E kept \in SUBSET (pending[s] \cup {e}) :
    /\ Queue(s, e, kept)
    /\ IF e \in kept /\ active[s] # None
       THEN Abort(active[s], "preempt") ELSE UNCHANGED lease

Cancel(s) ==
  \E gone \in SUBSET Idle :
    /\ Oldest(gone, Idle) /\ active[s] # None
    /\ lease[active[s]].reason = "none"
    /\ Abort(active[s], "cancel")
    /\ Touch(s, gone) /\ Keep(s, gone)
    /\ UNCHANGED <<active, sequence>>

Consume(s) ==
  \E gone \in SUBSET Idle :
    /\ Oldest(gone, Idle) /\ s \in known \ gone
    /\ Touch(s, gone)
    /\ pending' = Put(pending, s, gone, {})
    /\ offered' = Put(offered, s, gone, {})
    /\ UNCHANGED <<active, lease, sequence>>

(* The client of generation g disconnects. *)
ClientAbort(g) ==
  /\ lease[g].session # None
  /\ Abort(g, "client")
  /\ UNCHANGED <<known, newer, active, pending, sequence, offered>>

(* lease.end(), which does not look for expired sessions. *)
End(g) ==
  LET s == lease[g].session IN
  /\ s # None
  /\ lease' = [lease EXCEPT ![g] = Ended]
  /\ active' = IF active[s] = g THEN [active EXCEPT ![s] = None] ELSE active
  /\ IF s \in known THEN Touch(s, {}) ELSE UNCHANGED <<known, newer>>
  /\ UNCHANGED <<pending, sequence, offered>>

Next ==
  \/ Unknown
  \/ \E s \in Session : Seen(s) \/ Cancel(s) \/ Consume(s)
  \/ \E s \in Session, g \in Gen, reason \in {"none", "client"} :
       Begin(s, g, reason)
  \/ \E s \in Session, p \in Priority : Inject(s, p) \/ Preempt(s, p)
  \/ \E g \in Gen : ClientAbort(g) \/ End(g)

Spec == Init /\ [][Next]_vars

-----------------------------------------------------------------------------
TypeOK ==
  /\ known \subseteq Session
  /\ newer \subseteq Session \X Session
  /\ active \in [Session -> Gen \cup {None}]
  /\ pending \in [Session -> SUBSET Event]
  /\ lease \in [Gen -> [session: Session \cup {None},
                        reason: {"none", "client", "cancel", "preempt"}]]
  /\ sequence \in 0..MaxSequence
  /\ offered \in [Session -> SUBSET Event]

(* A lease that was not ended is the active generation of a tracked        *)
(* session, and the only one of it: neither another session's begin() at   *)
(* capacity, nor expiry, nor a late end() takes it away (IRQ-2, IRQ-10),   *)
(* so preempt() and cancel() always reach the generation in flight.        *)
LeaseReachable ==
  \A g \in Gen :
    lease[g].session # None =>
      lease[g].session \in known /\ active[lease[g].session] = g

(* The number of tracked sessions is bounded (IRQ-10). *)
SessionsBounded == Cardinality(known) <= MaxSessions

(* What is pending are the highest priorities of all that was queued since *)
(* the last consumption, the earliest of equals, and nothing is dropped    *)
(* while there is room: truncating at each inject() loses nothing (IRQ-6). *)
HighestRetained ==
  \A s \in Session :
    /\ pending[s] \subseteq offered[s]
    /\ Cardinality(pending[s]) <= MaxPending
    /\ pending[s] # offered[s] => Cardinality(pending[s]) = MaxPending
    /\ \A e \in pending[s], d \in offered[s] \ pending[s] : Before(e, d)

(* "An IRQ evicted by the bound MUST NOT preempt a generation" (IRQ-6): at *)
(* the moment of a preemption the IRQ is there for the replacement.        *)
PreemptedByPending ==
  [][\A g \in Gen :
       lease[g].reason = "none" /\ lease'[g].reason = "preempt" =>
         \E e \in pending'[lease[g].session] : e.seq = sequence]_vars

(* "The first abort reason MUST win" (IRQ-3): a generation preempted or    *)
(* cancelled can be told from one whose client left (IRQ-12).              *)
FirstReasonWins ==
  [][\A g \in Gen :
       lease[g].reason # "none" =>
         lease'[g].reason = lease[g].reason \/ lease'[g].session = None]_vars
=============================================================================
