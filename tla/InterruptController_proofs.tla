--------------------- MODULE InterruptController_proofs ---------------------
(***************************************************************************)
(* Proofs about InterruptController for any number of sessions, leases and *)
(* priorities and any bounds.                                              *)
(*                                                                         *)
(* LeaseReachable is inductive by itself: only idle sessions are dropped,  *)
(* and a session with a lease in flight is not idle.  Its converse         *)
(* (ActiveLeased) is what the action properties rest on.  That truncating  *)
(* at every inject() keeps the best of all that was offered needs each new *)
(* sequence number to be unused (Fresh).                                   *)
(***************************************************************************)
EXTENDS InterruptController, FiniteSetTheorems, TLAPS

ActiveLeased == \A s \in Session : active[s] # None => lease[active[s]].session = s

EndedClean == \A g \in Gen : lease[g].session = None => lease[g].reason = "none"

(* P is what is left of O after truncations. *)
Retained(P, O) ==
  /\ IsFiniteSet(P)
  /\ P \subseteq O
  /\ Cardinality(P) <= MaxPending
  /\ P # O => Cardinality(P) = MaxPending
  /\ \A e \in P, d \in O \ P : Before(e, d)

Fresh == \A s \in Session : \A e \in offered[s] : e.seq < sequence

QueuesOK == \A s \in Session : Retained(pending[s], offered[s])

KnownOK == IsFiniteSet(known) /\ SessionsBounded

IInv ==
  /\ TypeOK
  /\ LeaseReachable /\ ActiveLeased /\ EndedClean
  /\ KnownOK
  /\ QueuesOK /\ Fresh

-----------------------------------------------------------------------------
(* Nothing was offered, nothing is pending. *)
LEMMA EmptyRetained == Retained({}, {})
BY FS_EmptySet, IrqAssumption DEF Retained

(* The order of events is transitive. *)
LEMMA BeforeTransitive ==
  ASSUME NEW e \in Event, NEW d \in Event, NEW b \in Event,
         Before(e, d), Before(d, b)
  PROVE  Before(e, b)
<1>1. e.priority \in Nat /\ d.priority \in Nat /\ b.priority \in Nat
  BY IrqAssumption DEF Event
<1>2. e.seq \in Nat /\ d.seq \in Nat /\ b.seq \in Nat
  BY IrqAssumption DEF Event
<1> QED BY <1>1, <1>2 DEF Before

(* Truncating after one more event keeps the best of one more offer. *)
LEMMA SliceRetains ==
  ASSUME NEW P \in SUBSET Event, NEW O \in SUBSET Event, Retained(P, O),
         NEW e \in Event, e \notin O, NEW kept, Slice(P \cup {e}, kept)
  PROVE  Retained(kept, O \cup {e}) /\ kept \in SUBSET Event
<1>1. IsFiniteSet(P \cup {e}) /\ Cardinality(P \cup {e}) = Cardinality(P) + 1
  BY FS_AddElement DEF Retained
<1>2. Cardinality(P) \in Nat BY FS_CardinalityType DEF Retained
<1>3. CASE Cardinality(P \cup {e}) <= MaxPending
  <2>1. kept = P \cup {e} BY <1>3 DEF Slice
  <2>2. Cardinality(P) # MaxPending BY <1>1, <1>2, <1>3, IrqAssumption
  <2>3. P = O BY <2>2 DEF Retained
  <2> QED BY <1>1, <1>3, <2>1, <2>3 DEF Retained
<1>4. CASE ~(Cardinality(P \cup {e}) <= MaxPending)
  <2>1. PICK last \in P \cup {e} :
          kept = (P \cup {e}) \ {last} /\ \A x \in kept : Before(x, last)
    BY <1>4 DEF Slice
  <2>2. Cardinality(P) = MaxPending
    BY <1>1, <1>2, <1>4, IrqAssumption DEF Retained
  <2>3. IsFiniteSet(kept) /\ Cardinality(kept) = MaxPending
    <3> DEFINE Q == P \cup {e}
    <3>1. kept = Q \ {last} /\ last \in Q BY <2>1
    <3>2. IsFiniteSet(Q) /\ Cardinality(Q) = MaxPending + 1 BY <1>1, <2>2
    <3> HIDE DEF Q
    <3>3. IsFiniteSet(kept) /\ Cardinality(kept) = Cardinality(Q) - 1
      BY <3>1, <3>2, FS_RemoveElement
    <3> QED BY <3>2, <3>3, IrqAssumption
  <2>4. kept \subseteq O \cup {e} BY <2>1 DEF Retained
  <2>5. ASSUME NEW x \in kept, NEW d \in (O \cup {e}) \ kept
        PROVE  Before(x, d)
    <3>1. CASE d = last BY <2>1, <3>1
    <3>2. CASE d # last
      <4>1. d \in O \ P BY <2>1, <3>2
      <4>2. CASE x \in P BY <4>1, <4>2 DEF Retained
      <4>3. CASE x = e
        <5>1. last \in P BY <2>1, <4>3
        <5>2. Before(last, d) BY <4>1, <5>1 DEF Retained
        <5>3. Before(x, last) BY <2>1
        <5> QED BY <5>1, <5>2, <5>3, <4>1, <4>3, BeforeTransitive
      <4> QED BY <4>2, <4>3, <2>1
    <3> QED BY <3>1, <3>2
  <2>6. MaxPending <= MaxPending BY IrqAssumption
  <2> QED BY <2>1, <2>3, <2>4, <2>5, <2>6 DEF Retained
<1> QED BY <1>3, <1>4

-----------------------------------------------------------------------------
(* What a call that drops idle sessions and puts new tables does. *)
LEMMA TouchKnown ==
  ASSUME IInv, NEW s \in Session, NEW drop \in SUBSET Idle, Touch(s, drop)
  PROVE  /\ known' \subseteq Session /\ newer' \subseteq Session \X Session
         /\ known \ drop \subseteq known' /\ s \in known'
         /\ IsFiniteSet(known')
<1>1. known' = (known \ drop) \cup {s} BY DEF Touch
<1>2. known' \subseteq Session BY <1>1 DEF IInv, TypeOK
<1>3. newer' \subseteq Session \X Session
  BY <1>2 DEF Touch, IInv, TypeOK
<1>4. IsFiniteSet(known \ drop)
  BY FS_Subset DEF IInv, KnownOK
<1>5. IsFiniteSet(known') BY <1>1, <1>4, FS_AddElement
<1> QED BY <1>1, <1>2, <1>3, <1>5

(* Making room for a session never exceeds maxSessions. *)
LEMMA TouchBounded ==
  ASSUME IInv, NEW s \in Session, NEW drop \in SUBSET Idle, Touch(s, drop),
         Drop(s, drop) \/ s \in known \ drop
  PROVE  KnownOK'
<1>1. known' = (known \ drop) \cup {s} BY DEF Touch
<1>2. IsFiniteSet(known \ drop) /\ Cardinality(known \ drop) <= Cardinality(known)
  BY FS_Subset DEF IInv, KnownOK
<1>3. IsFiniteSet(known') BY <1>1, <1>2, FS_AddElement
<1>4. Cardinality(known) <= MaxSessions /\ MaxSessions \in Nat
  BY IrqAssumption DEF IInv, KnownOK, SessionsBounded
<1>5. Cardinality(known) \in Nat /\ Cardinality(known \ drop) \in Nat
  BY <1>2, FS_CardinalityType DEF IInv, KnownOK
<1>6. CASE s \in known \ drop
  <2>1. known' = known \ drop BY <1>1, <1>6
  <2> QED BY <2>1, <1>2, <1>4, <1>5 DEF KnownOK, SessionsBounded
<1>7. CASE s \notin known \ drop
  <2>1. Cardinality(known \ drop) < MaxSessions BY <1>7 DEF Drop
  <2>2. Cardinality(known') = Cardinality(known \ drop) + 1
    BY <1>1, <1>2, <1>7, FS_AddElement
  <2> QED BY <1>3, <2>1, <2>2, <1>4, <1>5 DEF KnownOK, SessionsBounded
<1> QED BY <1>6, <1>7

(* The tables keep their types. *)
LEMMA PutTypes ==
  ASSUME NEW table \in [Session -> SUBSET Event], NEW s \in Session, NEW drop,
         NEW new \in SUBSET Event
  PROVE  Put(table, s, drop, new) \in [Session -> SUBSET Event]
BY DEF Put

(* Dropped sessions take their queues with them. *)
LEMMA PutQueues ==
  ASSUME IInv, NEW s \in Session, NEW drop, NEW P, NEW O,
         pending' = Put(pending, s, drop, P), offered' = Put(offered, s, drop, O),
         Retained(P, O), \A e \in O : e.seq < sequence',
         sequence \in Nat, sequence' \in Nat, sequence <= sequence'
  PROVE  QueuesOK' /\ Fresh'
<1>1. \A x \in Session : Retained(pending'[x], offered'[x])
  BY EmptyRetained DEF Put, IInv, QueuesOK
<1>2. ASSUME NEW x \in Session, NEW e \in offered'[x]
      PROVE  e.seq < sequence'
  <2>1. CASE x = s BY <2>1 DEF Put
  <2>2. CASE x # s
    <3>1. offered'[x] \subseteq offered[x] BY <2>2 DEF Put
    <3>2. e \in Event BY <3>1 DEF IInv, TypeOK
    <3>3. e.seq \in Nat /\ e.seq < sequence
      BY <3>1, <3>2, IrqAssumption DEF IInv, Fresh, Event
    <3> QED BY <3>3
  <2> QED BY <2>1, <2>2
<1> QED BY <1>1, <1>2 DEF QueuesOK, Fresh, Retained, Before

(* A call that changes no queue keeps the facts about queues. *)
LEMMA KeepQueues ==
  ASSUME IInv, NEW s \in Session, NEW drop \in SUBSET Session, Keep(s, drop),
         sequence' = sequence
  PROVE  /\ QueuesOK' /\ Fresh'
         /\ pending' \in [Session -> SUBSET Event]
         /\ offered' \in [Session -> SUBSET Event]
<1> DEFINE P == Held(pending, s, drop)
           O == Held(offered, s, drop)
<1>1. P \in SUBSET Event /\ O \in SUBSET Event BY DEF IInv, TypeOK, Held
<1>2. Retained(P, O) BY EmptyRetained DEF IInv, QueuesOK, Held
<1>3. \A e \in O : e.seq < sequence' BY DEF IInv, Fresh, Held
<1>4. sequence \in Nat /\ sequence <= sequence'
  BY IrqAssumption DEF IInv, TypeOK
<1>5. pending' = Put(pending, s, drop, P) /\ offered' = Put(offered, s, drop, O)
  BY DEF Keep
<1> HIDE DEF P, O
<1>6. QueuesOK' /\ Fresh' BY <1>2, <1>3, <1>4, <1>5, PutQueues
<1>7. Put(pending, s, drop, P) \in [Session -> SUBSET Event]
      /\ Put(offered, s, drop, O) \in [Session -> SUBSET Event]
  BY <1>1, PutTypes DEF IInv, TypeOK
<1> QED BY <1>5, <1>6, <1>7

(* queueing an event, whoever asked for it *)
LEMMA QueueKeeps ==
  ASSUME IInv, NEW s \in Session, NEW p \in Priority, NEW kept,
         Queue(s, [priority |-> p, seq |-> sequence], kept)
  PROVE  /\ QueuesOK' /\ Fresh' /\ KnownOK'
         /\ pending' \in [Session -> SUBSET Event]
         /\ offered' \in [Session -> SUBSET Event]
         /\ known' \subseteq Session /\ newer' \subseteq Session \X Session
         /\ sequence' \in 0..MaxSequence /\ active' = active
         /\ pending'[s] = kept
         /\ \E drop \in SUBSET Idle : known \ drop \subseteq known'
<1> DEFINE e == [priority |-> p, seq |-> sequence]
<1>1. PICK drop \in SUBSET Idle :
        /\ Drop(s, drop)
        /\ sequence < MaxSequence /\ sequence' = sequence + 1
        /\ Slice(Held(pending, s, drop) \cup {e}, kept)
        /\ Touch(s, drop)
        /\ pending' = Put(pending, s, drop, kept)
        /\ offered' = Put(offered, s, drop, Held(offered, s, drop) \cup {e})
        /\ active' = active
  BY DEF Queue
<1> DEFINE P == Held(pending, s, drop)
           O == Held(offered, s, drop)
<1>2. P \in SUBSET Event /\ O \in SUBSET Event BY DEF IInv, TypeOK, Held
<1>3. Retained(P, O) BY EmptyRetained DEF IInv, QueuesOK, Held
<1>4. \A x \in O : x.seq < sequence BY DEF IInv, Fresh, Held
<1>5. sequence \in Nat /\ sequence' \in Nat /\ sequence <= sequence'
      /\ sequence' \in 0..MaxSequence /\ sequence < sequence'
  BY <1>1, IrqAssumption DEF IInv, TypeOK
<1>6. e \in Event /\ e.seq = sequence BY DEF Event, IInv, TypeOK
<1>7. Slice(P \cup {e}, kept) /\ offered' = Put(offered, s, drop, O \cup {e})
  BY <1>1
<1> HIDE DEF P, O, e
<1>8. e \notin O BY <1>4, <1>5, <1>6
<1>9. Retained(kept, O \cup {e}) /\ kept \in SUBSET Event
  BY <1>2, <1>3, <1>6, <1>7, <1>8, SliceRetains
<1>10. \A x \in O \cup {e} : x.seq < sequence'
  <2>1. ASSUME NEW x \in O PROVE x.seq < sequence'
    <3>1. x.seq \in Nat BY <1>2, IrqAssumption DEF Event
    <3> QED BY <3>1, <1>4, <1>5
  <2> QED BY <2>1, <1>5, <1>6
<1>11. QueuesOK' /\ Fresh' BY <1>1, <1>5, <1>7, <1>9, <1>10, PutQueues
<1>12. Put(pending, s, drop, kept) \in [Session -> SUBSET Event]
       /\ Put(offered, s, drop, O \cup {e}) \in [Session -> SUBSET Event]
  BY <1>2, <1>6, <1>9, PutTypes DEF IInv, TypeOK
<1>13. known' \subseteq Session /\ newer' \subseteq Session \X Session
       /\ known \ drop \subseteq known'
  BY <1>1, TouchKnown
<1>14. KnownOK' BY <1>1, TouchBounded
<1>15. pending'[s] = kept BY <1>1 DEF Put
<1> QED BY <1>1, <1>5, <1>7, <1>11, <1>12, <1>13, <1>14, <1>15

(* Dropping idle sessions takes no lease away. *)
LEMMA LeasesKept ==
  ASSUME IInv, NEW drop \in SUBSET Idle, known \ drop \subseteq known',
         active' = active,
         \A g \in Gen : lease'[g].session = lease[g].session
  PROVE  LeaseReachable' /\ ActiveLeased'
<1>1. ASSUME NEW g \in Gen, lease[g].session # None
      PROVE  lease[g].session \in known' /\ active[lease[g].session] = g
  <2>1. lease[g].session \in known /\ active[lease[g].session] = g
    BY <1>1 DEF IInv, LeaseReachable
  <2>2. lease[g].session \notin Idle
    BY <2>1, IrqAssumption DEF Idle
  <2> QED BY <2>1, <2>2
<1>2. LeaseReachable' BY <1>1 DEF LeaseReachable
<1>3. ActiveLeased' BY DEF IInv, TypeOK, ActiveLeased
<1> QED BY <1>2, <1>3

(* Aborting a generation keeps the types of the generations. *)
LEMMA AbortKeeps ==
  ASSUME IInv, NEW g \in Gen, lease[g].session # None,
         NEW reason \in {"client", "cancel", "preempt"}, Abort(g, reason)
  PROVE  /\ lease' \in [Gen -> [session: Session \cup {None},
                                reason: {"none", "client", "cancel", "preempt"}]]
         /\ \A x \in Gen : lease'[x].session = lease[x].session
         /\ EndedClean'
BY DEF IInv, TypeOK, Abort, EndedClean

LeaseType == lease' \in [Gen -> [session: Session \cup {None},
                                 reason: {"none", "client", "cancel", "preempt"}]]
-----------------------------------------------------------------------------
(* The invariant holds of a new controller. *)
LEMMA InitIInv == Init => IInv
<1> SUFFICES ASSUME Init PROVE IInv OBVIOUS
<1>1. TypeOK BY IrqAssumption DEF Init, TypeOK, Ended
<1>2. LeaseReachable /\ ActiveLeased /\ EndedClean
  BY DEF Init, LeaseReachable, ActiveLeased, EndedClean, Ended
<1>3. KnownOK BY FS_EmptySet, IrqAssumption DEF Init, KnownOK, SessionsBounded
<1>4. QueuesOK /\ Fresh BY EmptyRetained DEF Init, QueuesOK, Fresh
<1> QED BY <1>1, <1>2, <1>3, <1>4 DEF IInv

(* A call about an unknown session only expires others. *)
LEMMA UnknownInv == IInv /\ Unknown => IInv'
<1> SUFFICES ASSUME IInv, Unknown PROVE IInv' OBVIOUS
<1>1. PICK gone \in SUBSET Idle :
        /\ known' = known \ gone
        /\ newer' = {p \in newer : {p[1], p[2]} \cap gone = {}}
        /\ pending' = [s \in Session |-> IF s \in gone THEN {} ELSE pending[s]]
        /\ offered' = [s \in Session |-> IF s \in gone THEN {} ELSE offered[s]]
        /\ active' = active /\ lease' = lease /\ sequence' = sequence
  BY DEF Unknown
<1>2. TypeOK' BY <1>1 DEF IInv, TypeOK
<1>3. LeaseReachable' /\ ActiveLeased' BY <1>1, LeasesKept
<1>4. EndedClean' BY <1>1 DEF IInv, EndedClean
<1>5. KnownOK'
  <2>1. IsFiniteSet(known) /\ Cardinality(known) <= MaxSessions
        /\ MaxSessions \in Nat
    BY IrqAssumption DEF IInv, KnownOK, SessionsBounded
  <2>2. IsFiniteSet(known') /\ Cardinality(known') <= Cardinality(known)
    BY <1>1, <2>1, FS_Subset
  <2>3. Cardinality(known) \in Nat /\ Cardinality(known') \in Nat
    BY <2>1, <2>2, FS_CardinalityType
  <2> QED BY <2>1, <2>2, <2>3 DEF KnownOK, SessionsBounded
<1>6. QueuesOK'
  BY <1>1, EmptyRetained DEF IInv, QueuesOK, Retained, Before
<1>7. Fresh' BY <1>1 DEF IInv, Fresh
<1> QED BY <1>2, <1>3, <1>4, <1>5, <1>6, <1>7 DEF IInv

(* Calls that keep the queues of all but the dropped sessions. *)
LEMMA KeepingInv ==
  ASSUME IInv, NEW s \in Session, NEW drop \in SUBSET Idle,
         Drop(s, drop) \/ s \in known \ drop,
         Touch(s, drop), Keep(s, drop), sequence' = sequence,
         active' \in [Session -> Gen \cup {None}], LeaseType,
         LeaseReachable', ActiveLeased', EndedClean'
  PROVE  IInv'
<1>1. drop \in SUBSET Session BY DEF Idle, IInv, TypeOK
<1>2. QueuesOK' /\ Fresh' /\ pending' \in [Session -> SUBSET Event]
      /\ offered' \in [Session -> SUBSET Event]
  BY <1>1, KeepQueues
<1>3. known' \subseteq Session /\ newer' \subseteq Session \X Session
  BY TouchKnown
<1>4. KnownOK' BY TouchBounded
<1>5. TypeOK' BY <1>2, <1>3 DEF IInv, TypeOK, LeaseType
<1> QED BY <1>2, <1>4, <1>5 DEF IInv

(* status() keeps the invariant. *)
LEMMA SeenInv == ASSUME IInv, NEW s \in Session, Seen(s) PROVE IInv'
<1>1. PICK gone \in SUBSET Idle :
        /\ Drop(s, gone) /\ Touch(s, gone) /\ Keep(s, gone)
        /\ active' = active /\ lease' = lease /\ sequence' = sequence
  BY DEF Seen
<1>2. known \ gone \subseteq known' BY <1>1, TouchKnown
<1>3. LeaseReachable' /\ ActiveLeased' BY <1>1, <1>2, LeasesKept
<1>4. EndedClean' BY <1>1 DEF IInv, EndedClean
<1>5. active' \in [Session -> Gen \cup {None}] /\ LeaseType
  BY <1>1 DEF IInv, TypeOK, LeaseType
<1> QED BY <1>1, <1>3, <1>4, <1>5, KeepingInv

(* begin() keeps it. *)
LEMMA BeginInv ==
  ASSUME IInv, NEW s \in Session, NEW g \in Gen,
         NEW reason \in {"none", "client"}, Begin(s, g, reason)
  PROVE  IInv'
<1>1. PICK drop \in SUBSET Idle :
        /\ Drop(s, drop) /\ active[s] = None /\ lease[g].session = None
        /\ Touch(s, drop) /\ Keep(s, drop)
        /\ active' = [active EXCEPT ![s] = g]
        /\ lease' = [lease EXCEPT ![g] = [session |-> s, reason |-> reason]]
        /\ sequence' = sequence
  BY DEF Begin
<1>2. known \ drop \subseteq known' /\ s \in known' BY <1>1, TouchKnown
<1>3. active' \in [Session -> Gen \cup {None}] /\ LeaseType
  BY <1>1 DEF IInv, TypeOK, LeaseType
<1>4. g # None /\ s # None BY IrqAssumption
<1>5. LeaseReachable'
  <2> SUFFICES ASSUME NEW x \in Gen, lease'[x].session # None
               PROVE  lease'[x].session \in known'
                      /\ active'[lease'[x].session] = x
    BY DEF LeaseReachable
  <2>1. CASE x = g
    <3>1. lease'[x].session = s BY <1>1, <2>1 DEF IInv, TypeOK
    <3>2. active'[s] = g BY <1>1 DEF IInv, TypeOK
    <3> QED BY <3>1, <3>2, <2>1, <1>2
  <2>2. CASE x # g
    <3>1. lease'[x] = lease[x] BY <1>1, <2>2 DEF IInv, TypeOK
    <3>2. lease[x].session \in known /\ active[lease[x].session] = x
      BY <3>1 DEF IInv, LeaseReachable
    <3>3. lease[x].session \notin Idle /\ lease[x].session # s
      BY <1>1, <3>2, IrqAssumption DEF Idle
    <3>4. active'[lease[x].session] = x
      BY <1>1, <3>2, <3>3 DEF IInv, TypeOK
    <3> QED BY <3>1, <3>2, <3>3, <3>4, <1>2
  <2> QED BY <2>1, <2>2
<1>6. ActiveLeased'
  <2> SUFFICES ASSUME NEW x \in Session, active'[x] # None
               PROVE  lease'[active'[x]].session = x
    BY DEF ActiveLeased
  <2>1. CASE x = s BY <1>1, <2>1 DEF IInv, TypeOK
  <2>2. CASE x # s
    <3>1. active'[x] = active[x] /\ active[x] \in Gen
      BY <1>1, <2>2 DEF IInv, TypeOK
    <3>2. lease[active[x]].session = x BY <3>1 DEF IInv, ActiveLeased
    <3>3. active[x] # g BY <1>1, <3>2, IrqAssumption
    <3> QED BY <1>1, <3>1, <3>2, <3>3 DEF IInv, TypeOK
  <2> QED BY <2>1, <2>2
<1>7. EndedClean' BY <1>1, <1>4 DEF IInv, TypeOK, EndedClean
<1> QED BY <1>1, <1>3, <1>5, <1>6, <1>7, KeepingInv

(* A queued event keeps it. *)
LEMMA QueueInv ==
  ASSUME IInv, NEW s \in Session, NEW p \in Priority, NEW kept,
         Queue(s, [priority |-> p, seq |-> sequence], kept),
         LeaseType, EndedClean',
         \A x \in Gen : lease'[x].session = lease[x].session
  PROVE  IInv'
<1>1. /\ QueuesOK' /\ Fresh' /\ KnownOK'
      /\ pending' \in [Session -> SUBSET Event]
      /\ offered' \in [Session -> SUBSET Event]
      /\ known' \subseteq Session /\ newer' \subseteq Session \X Session
      /\ sequence' \in 0..MaxSequence /\ active' = active
      /\ \E drop \in SUBSET Idle : known \ drop \subseteq known'
  BY QueueKeeps
<1>2. LeaseReachable' /\ ActiveLeased' BY <1>1, LeasesKept
<1>3. TypeOK' BY <1>1 DEF IInv, TypeOK, LeaseType
<1> QED BY <1>1, <1>2, <1>3 DEF IInv

(* inject() keeps it. *)
LEMMA InjectInv ==
  ASSUME IInv, NEW s \in Session, NEW p \in Priority, Inject(s, p)
  PROVE  IInv'
<1>1. PICK kept : Queue(s, [priority |-> p, seq |-> sequence], kept)
  BY DEF Inject
<1>2. lease' = lease BY DEF Inject
<1>3. LeaseType /\ EndedClean' BY <1>2 DEF IInv, TypeOK, LeaseType, EndedClean
<1> QED BY <1>1, <1>2, <1>3, QueueInv

(* preempt() keeps it. *)
LEMMA PreemptInv ==
  ASSUME IInv, NEW s \in Session, NEW p \in Priority, Preempt(s, p)
  PROVE  IInv'
<1> DEFINE e == [priority |-> p, seq |-> sequence]
<1>1. PICK kept :
        /\ Queue(s, e, kept)
        /\ IF e \in kept /\ active[s] # None
           THEN Abort(active[s], "preempt") ELSE lease' = lease
  BY DEF Preempt
<1>2. LeaseType /\ EndedClean' /\ \A x \in Gen : lease'[x].session = lease[x].session
  <2>1. CASE e \in kept /\ active[s] # None
    <3>1. active[s] \in Gen /\ lease[active[s]].session = s /\ s # None
      BY <2>1, IrqAssumption DEF IInv, TypeOK, ActiveLeased
    <3> QED BY <1>1, <2>1, <3>1, AbortKeeps DEF LeaseType
  <2>2. CASE ~(e \in kept /\ active[s] # None)
    BY <1>1, <2>2 DEF IInv, TypeOK, LeaseType, EndedClean
  <2> QED BY <2>1, <2>2
<1> QED BY <1>1, <1>2, QueueInv

(* cancel() keeps it. *)
LEMMA CancelInv == ASSUME IInv, NEW s \in Session, Cancel(s) PROVE IInv'
<1>1. PICK gone \in SUBSET Idle :
        /\ active[s] # None /\ Abort(active[s], "cancel")
        /\ Touch(s, gone) /\ Keep(s, gone)
        /\ active' = active /\ sequence' = sequence
  BY DEF Cancel
<1>2. active[s] \in Gen /\ lease[active[s]].session = s /\ s # None
  BY <1>1, IrqAssumption DEF IInv, TypeOK, ActiveLeased
<1>3. LeaseType /\ EndedClean' /\ \A x \in Gen : lease'[x].session = lease[x].session
  BY <1>1, <1>2, AbortKeeps DEF LeaseType
<1>4. known \ gone \subseteq known' BY <1>1, TouchKnown
<1>5. LeaseReachable' /\ ActiveLeased' BY <1>1, <1>3, <1>4, LeasesKept
<1>6. s \in known \ gone
  <2>1. s \in known BY <1>2 DEF IInv, LeaseReachable
  <2> QED BY <2>1, <1>1 DEF Idle
<1>7. active' \in [Session -> Gen \cup {None}] BY <1>1 DEF IInv, TypeOK
<1> QED BY <1>1, <1>3, <1>5, <1>6, <1>7, KeepingInv

(* consume() keeps it. *)
LEMMA ConsumeInv == ASSUME IInv, NEW s \in Session, Consume(s) PROVE IInv'
<1>1. PICK gone \in SUBSET Idle :
        /\ s \in known \ gone /\ Touch(s, gone)
        /\ pending' = Put(pending, s, gone, {})
        /\ offered' = Put(offered, s, gone, {})
        /\ active' = active /\ lease' = lease /\ sequence' = sequence
  BY DEF Consume
<1>2. sequence \in Nat /\ sequence <= sequence' /\ sequence' \in Nat
  BY <1>1, IrqAssumption DEF IInv, TypeOK
<1>3. QueuesOK' /\ Fresh' BY <1>1, <1>2, EmptyRetained, PutQueues
<1>4. Put(pending, s, gone, {}) \in [Session -> SUBSET Event]
      /\ Put(offered, s, gone, {}) \in [Session -> SUBSET Event]
  BY PutTypes DEF IInv, TypeOK
<1>5. known' \subseteq Session /\ newer' \subseteq Session \X Session
      /\ known \ gone \subseteq known'
  BY <1>1, TouchKnown
<1>6. LeaseReachable' /\ ActiveLeased' BY <1>1, <1>5, LeasesKept
<1>7. EndedClean' BY <1>1 DEF IInv, EndedClean
<1>8. KnownOK' BY <1>1, TouchBounded
<1>9. TypeOK' BY <1>1, <1>4, <1>5 DEF IInv, TypeOK
<1> QED BY <1>3, <1>6, <1>7, <1>8, <1>9 DEF IInv

(* A client that goes away keeps it. *)
LEMMA ClientAbortInv == ASSUME IInv, NEW g \in Gen, ClientAbort(g) PROVE IInv'
<1>1. LeaseType /\ EndedClean' /\ \A x \in Gen : lease'[x].session = lease[x].session
  BY AbortKeeps DEF ClientAbort, LeaseType
<1>2. /\ known' = known /\ newer' = newer /\ active' = active
      /\ pending' = pending /\ sequence' = sequence /\ offered' = offered
  BY DEF ClientAbort
<1>3. TypeOK' BY <1>1, <1>2 DEF IInv, TypeOK, LeaseType
<1>4. LeaseReachable' /\ ActiveLeased'
  BY <1>1, <1>2 DEF IInv, TypeOK, LeaseReachable, ActiveLeased
<1>5. KnownOK' BY <1>2 DEF IInv, KnownOK, SessionsBounded
<1>6. QueuesOK' /\ Fresh' BY <1>2 DEF IInv, QueuesOK, Fresh, Retained, Before
<1> QED BY <1>1, <1>3, <1>4, <1>5, <1>6 DEF IInv

(* The end of a generation, however late, keeps it. *)
LEMMA EndInv == ASSUME IInv, NEW g \in Gen, End(g) PROVE IInv'
<1> DEFINE s == lease[g].session
<1>1. s \in Session /\ s \in known /\ active[s] = g
  BY DEF End, IInv, TypeOK, LeaseReachable
<1>2. lease' = [lease EXCEPT ![g] = Ended] /\ active' = [active EXCEPT ![s] = None]
      /\ Touch(s, {}) /\ pending' = pending /\ sequence' = sequence
      /\ offered' = offered
  BY <1>1 DEF End
<1>3. LeaseType /\ active' \in [Session -> Gen \cup {None}]
  BY <1>2 DEF IInv, TypeOK, LeaseType, Ended
<1> HIDE DEF s
<1>4. known' = known /\ newer' \subseteq Session \X Session
  <2>1. known' = known BY <1>1, <1>2 DEF Touch
  <2>2. newer' \subseteq Session \X Session
    BY <1>1, <1>2, TouchKnown
  <2> QED BY <2>1, <2>2
<1>5. TypeOK' BY <1>2, <1>3, <1>4 DEF IInv, TypeOK, LeaseType
<1>6. LeaseReachable'
  <2> SUFFICES ASSUME NEW x \in Gen, lease'[x].session # None
               PROVE  lease'[x].session \in known'
                      /\ active'[lease'[x].session] = x
    BY DEF LeaseReachable
  <2>1. x # g BY <1>2 DEF IInv, TypeOK, Ended
  <2>2. lease'[x] = lease[x] BY <1>2, <2>1 DEF IInv, TypeOK
  <2>3. lease[x].session \in known /\ active[lease[x].session] = x
    BY <2>2 DEF IInv, LeaseReachable
  <2>4. lease[x].session # s BY <1>1, <2>1, <2>3
  <2> QED BY <1>2, <1>4, <2>2, <2>3, <2>4 DEF IInv, TypeOK
<1>7. ActiveLeased'
  <2> SUFFICES ASSUME NEW x \in Session, active'[x] # None
               PROVE  lease'[active'[x]].session = x
    BY DEF ActiveLeased
  <2>1. x # s BY <1>1, <1>2 DEF IInv, TypeOK
  <2>2. active'[x] = active[x] /\ active[x] \in Gen
    BY <1>2, <2>1 DEF IInv, TypeOK
  <2>3. lease[active[x]].session = x BY <2>2 DEF IInv, ActiveLeased
  <2>4. active[x] # g BY <2>1, <2>3 DEF s
  <2> QED BY <1>2, <2>2, <2>3, <2>4 DEF IInv, TypeOK
<1>8. EndedClean' BY <1>2 DEF IInv, TypeOK, EndedClean, Ended
<1>9. KnownOK' BY <1>4 DEF IInv, KnownOK, SessionsBounded
<1>10. QueuesOK' /\ Fresh'
  BY <1>2 DEF IInv, QueuesOK, Fresh, Retained, Before
<1> QED BY <1>5, <1>6, <1>7, <1>8, <1>9, <1>10 DEF IInv

(* Every step keeps the invariant. *)
LEMMA NextIInv == IInv /\ [Next]_vars => IInv'
<1> SUFFICES ASSUME IInv, [Next]_vars PROVE IInv' OBVIOUS
<1>1. CASE UNCHANGED vars
  BY <1>1 DEF vars, IInv, TypeOK, LeaseReachable, ActiveLeased, EndedClean,
     KnownOK, SessionsBounded, QueuesOK, Fresh, Retained, Before
<1>2. CASE Next
  BY <1>2, UnknownInv, SeenInv, BeginInv, InjectInv, PreemptInv, CancelInv,
     ConsumeInv, ClientAbortInv, EndInv DEF Next
<1> QED BY <1>1, <1>2

(* The parts of the inductive invariant hold in every reachable state of the *)
(* interrupt controller.                                                     *)
THEOREM Invariance == Spec => []IInv
BY InitIInv, NextIInv, PTL DEF Spec

(* TypeOK is invariant: types of the controller's maps and of its leases   *)
(* (the fields of InterruptController).                                    *)
THEOREM TypeCorrect == Spec => []TypeOK
<1>1. IInv => TypeOK BY DEF IInv
<1> QED BY <1>1, Invariance, PTL

(* A lease stays the active generation of a tracked session until it is    *)
(* ended, however many sessions come and go (begin, #evictOldestIdle,      *)
(* #expire, end).                                                          *)
THEOREM LeaseNeverLost == Spec => []LeaseReachable
<1>1. IInv => LeaseReachable BY DEF IInv
<1> QED BY <1>1, Invariance, PTL

(* The session map never exceeds maxSessions (#state, #evictOldestIdle).   *)
THEOREM SessionCapacity == Spec => []SessionsBounded
<1>1. IInv => SessionsBounded BY DEF IInv, KnownOK
<1> QED BY <1>1, Invariance, PTL

(* Truncating the queue at each inject() keeps the highest-priority events *)
(* of all that were injected since the last consume().                     *)
THEOREM BestIrqsKept == Spec => []HighestRetained
<1>1. IInv => HighestRetained BY DEF IInv, QueuesOK, Retained, HighestRetained
<1> QED BY <1>1, Invariance, PTL

(* A preemption by an IRQ finds that IRQ pending when it aborts the        *)
(* generation (preempt, inject).                                           *)
THEOREM PreemptionHasContext == Spec => PreemptedByPending
<1>1. ASSUME IInv, [Next]_vars, NEW g \in Gen,
             lease[g].reason = "none", lease'[g].reason = "preempt"
      PROVE  \E e \in pending'[lease[g].session] : e.seq = sequence
  <2>1. PICK s \in Session, p \in Priority : Preempt(s, p)
    <3>1. CASE UNCHANGED vars BY <3>1, <1>1 DEF vars
    <3>2. CASE Next
      <4>1. ASSUME Unknown PROVE FALSE BY <4>1, <1>1 DEF Unknown
      <4>2. ASSUME NEW s \in Session, Seen(s) \/ Consume(s) PROVE FALSE
        BY <4>2, <1>1 DEF Seen, Consume
      <4>3. ASSUME NEW s \in Session, Cancel(s) PROVE FALSE
        <5>1. Abort(active[s], "cancel") BY <4>3 DEF Cancel
        <5> QED BY <5>1, <1>1 DEF Abort, IInv, TypeOK
      <4>4. ASSUME NEW s \in Session, NEW x \in Gen,
                   NEW reason \in {"none", "client"}, Begin(s, x, reason)
            PROVE  FALSE
        <5>1. lease' = [lease EXCEPT ![x] = [session |-> s, reason |-> reason]]
          BY <4>4 DEF Begin
        <5> QED BY <5>1, <1>1 DEF IInv, TypeOK
      <4>5. ASSUME NEW s \in Session, NEW p \in Priority, Inject(s, p)
            PROVE  FALSE
        BY <4>5, <1>1 DEF Inject
      <4>6. ASSUME NEW x \in Gen, ClientAbort(x) PROVE FALSE
        <5>1. Abort(x, "client") BY <4>6 DEF ClientAbort
        <5> QED BY <5>1, <1>1 DEF Abort, IInv, TypeOK
      <4>7. ASSUME NEW x \in Gen, End(x) PROVE FALSE
        <5>1. lease' = [lease EXCEPT ![x] = Ended] BY <4>7 DEF End
        <5> QED BY <5>1, <1>1 DEF IInv, TypeOK, Ended
      <4> QED BY <3>2, <4>1, <4>2, <4>3, <4>4, <4>5, <4>6, <4>7 DEF Next
    <3> QED BY <1>1, <3>1, <3>2
  <2> DEFINE e == [priority |-> p, seq |-> sequence]
  <2>2. PICK kept :
          /\ Queue(s, e, kept)
          /\ IF e \in kept /\ active[s] # None
             THEN Abort(active[s], "preempt") ELSE lease' = lease
    BY <2>1 DEF Preempt
  <2>3. e \in kept /\ active[s] # None BY <1>1, <2>2
  <2>4. Abort(active[s], "preempt") BY <2>2, <2>3
  <2>5. g = active[s] BY <1>1, <2>4 DEF Abort, IInv, TypeOK
  <2>6. lease[g].session = s BY <1>1, <2>3, <2>5 DEF IInv, ActiveLeased
  <2>7. pending'[s] = kept BY <1>1, <2>2, QueueKeeps
  <2> QED BY <2>3, <2>6, <2>7
<1>2. IInv /\ [Next]_vars =>
        [\A g \in Gen :
           lease[g].reason = "none" /\ lease'[g].reason = "preempt" =>
             \E e \in pending'[lease[g].session] : e.seq = sequence]_vars
  BY <1>1
<1> QED BY <1>2, Invariance, PTL DEF Spec, PreemptedByPending

(* The reason a generation was aborted for is the first that was given     *)
(* (composeSignals, cancel, preempt).                                      *)
THEOREM FirstReasonKept == Spec => FirstReasonWins
<1>1. ASSUME IInv, [Next]_vars, NEW g \in Gen, lease[g].reason # "none"
      PROVE  lease'[g].reason = lease[g].reason \/ lease'[g].session = None
  <2>1. CASE lease' = lease BY <2>1
  <2>2. ASSUME NEW x \in Gen, NEW reason \in {"client", "cancel", "preempt"},
               Abort(x, reason)
        PROVE  lease'[g].reason = lease[g].reason
    BY <2>2, <1>1 DEF Abort, IInv, TypeOK
  <2>3. ASSUME NEW s \in Session, NEW p \in Priority, Preempt(s, p)
        PROVE  lease'[g].reason = lease[g].reason
    <3>1. lease' = lease \/ (active[s] # None /\ Abort(active[s], "preempt"))
      BY <2>3 DEF Preempt
    <3>2. active[s] # None => active[s] \in Gen BY <1>1 DEF IInv, TypeOK
    <3> QED BY <3>1, <3>2, <2>2
  <2>4. ASSUME NEW s \in Session, Cancel(s)
        PROVE  lease'[g].reason = lease[g].reason
    <3>1. active[s] \in Gen /\ Abort(active[s], "cancel")
      BY <2>4, <1>1 DEF Cancel, IInv, TypeOK
    <3> QED BY <3>1, <2>2
  <2>5. ASSUME NEW s \in Session, NEW x \in Gen,
               NEW reason \in {"none", "client"}, Begin(s, x, reason)
        PROVE  lease'[g].reason = lease[g].reason
    <3>1. lease[x].session = None
          /\ lease' = [lease EXCEPT ![x] = [session |-> s, reason |-> reason]]
      BY <2>5 DEF Begin
    <3>2. x # g BY <1>1, <3>1 DEF IInv, EndedClean
    <3> QED BY <3>1, <3>2, <1>1 DEF IInv, TypeOK
  <2>6. ASSUME NEW x \in Gen, End(x)
        PROVE  lease'[g].reason = lease[g].reason \/ lease'[g].session = None
    <3>1. lease' = [lease EXCEPT ![x] = Ended] BY <2>6 DEF End
    <3> QED BY <3>1, <1>1 DEF IInv, TypeOK, Ended
  <2>7. ASSUME NEW x \in Gen, ClientAbort(x)
        PROVE  lease'[g].reason = lease[g].reason
    BY <2>7, <2>2 DEF ClientAbort
  <2>8. CASE UNCHANGED vars BY <2>8 DEF vars
  <2>9. CASE Next
    <3>1. Unknown => lease' = lease BY DEF Unknown
    <3>2. \A s \in Session : Seen(s) \/ Consume(s) => lease' = lease
      BY DEF Seen, Consume
    <3>3. \A s \in Session, p \in Priority : Inject(s, p) => lease' = lease
      BY DEF Inject
    <3> QED BY <2>9, <3>1, <3>2, <3>3, <2>1, <2>3, <2>4, <2>5, <2>6, <2>7 DEF Next
  <2> QED BY <1>1, <2>8, <2>9
<1>2. IInv /\ [Next]_vars =>
        [\A g \in Gen :
           lease[g].reason # "none" =>
             lease'[g].reason = lease[g].reason \/ lease'[g].session = None]_vars
  BY <1>1
<1> QED BY <1>2, Invariance, PTL DEF Spec, FirstReasonWins
=============================================================================
