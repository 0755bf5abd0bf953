-------------------------- MODULE ChatTurn_proofs --------------------------
(***************************************************************************)
(* Proofs about ChatTurn for any number of requests, aliases and slots.    *)
(*                                                                         *)
(* The slot count is inductive only together with the shape of the queue:  *)
(* its entries are distinct waiting turns, and there are some only when    *)
(* every slot is taken, so that one release wakes at most one waiter.      *)
(* What bounds the hop counter is where the turn stands.  From the same    *)
(* invariant every step of a turn is shown to be a step of the abstract    *)
(* gate (FairGate) on those that hold a slot and those that wait.          *)
(***************************************************************************)
EXTENDS ChatTurn, FiniteSetTheorems, TLAPS

HopsFit(r) ==
  /\ r.pc \in {"granted", "queued"} => r.hops = 0 /\ ~r.peeked
  /\ r.pc = "consult" => r.hops < MaxHops
  /\ r.pc \in {"ensure", "peek"} => r.hops <= MaxHops
  /\ r.pc \in {"ensure", "peek"} => r.alias \in Alias
  /\ r.pc = "peek" => r.peeked
  /\ r.direct => r.want \in Alias

Good(r) == r \in TurnRec /\ HopsFit(r)

(* No slot is idle while a turn waits. *)
NoIdleSlot == queue # << >> => active = Max

QueueOK ==
  /\ \A i \in 1..Len(queue) : turn[queue[i]].pc = "queued"
  /\ \A i, j \in 1..Len(queue) : queue[i] = queue[j] => i = j

IInv ==
  /\ TypeOK
  /\ \A t \in Turn : HopsFit(turn[t])
  /\ QueueOK
  /\ IsFiniteSet(Holders)
  /\ SlotsAccounted
  /\ NoIdleSlot

(* What one step does to those that hold a slot and those that wait. *)
GateMoves == [Gate!GateNext]_(Gate!placeVars)

-----------------------------------------------------------------------------
(* A final record is good. *)
LEMMA EndedGood ==
  ASSUME NEW how \in Final
  PROVE  Good(Ended(how)) /\ Ended(how).pc = how
BY AliasAssumption DEF Good, HopsFit, Ended, TurnRec, Pc, Final, Holding

(* The code after the loop, from a hop count the loop can leave. *)
LEMMA AfterLoopGood ==
  ASSUME NEW r \in TurnRec, r.peeked \/ r.hops <= MaxHops,
         r.direct => r.want \in Alias
  PROVE  Good(AfterLoop(r))
<1>1. CASE ~r.peeked /\ be[Nexus] # "unavailable"
  <2> DEFINE n == [r EXCEPT !.pc = "resident", !.alias = Nexus, !.hops = r.hops + 1]
  <2>1. AfterLoop(r) = n BY <1>1 DEF AfterLoop, OnResident, TurnRec
  <2>2. r.hops <= MaxHops /\ r.hops \in Nat BY <1>1 DEF TurnRec
  <2>3. Nexus \in Alias BY DEF Alias
  <2>4. n.hops = r.hops + 1 /\ n.pc = "resident" /\ n.direct = r.direct
        /\ n.want = r.want
    BY DEF TurnRec
  <2>5. n \in TurnRec
    <3>1. r.hops + 1 \in 0..MaxHops + 1 BY <2>2, AliasAssumption
    <3> QED BY <3>1, <2>3 DEF TurnRec, Pc, Holding
  <2> HIDE DEF n
  <2> QED BY <2>1, <2>4, <2>5 DEF Good, HopsFit
<1>2. CASE ~(~r.peeked /\ be[Nexus] # "unavailable")
  BY <1>2, EndedGood DEF AfterLoop, Final
<1> QED BY <1>1, <1>2

(* Going round the routing loop leaves a good record. *)
LEMMA LoopGood ==
  ASSUME NEW r \in TurnRec, r.peeked \/ r.hops <= MaxHops,
         r.direct => r.want \in Alias
  PROVE  Good(Loop(r))
<1>1. CASE r.hops < MaxHops
  <2>1. Loop(r) = Consult(r) BY <1>1 DEF Loop
  <2>2. (IF be[Nexus] = "unavailable" THEN None ELSE Nexus) \in Alias \cup {None}
    BY DEF Alias
  <2>3. Consult(r) \in TurnRec /\ Consult(r).pc = "consult"
        /\ Consult(r).hops = r.hops /\ Consult(r).direct = r.direct
        /\ Consult(r).want = r.want
    BY <2>2 DEF Consult, TurnRec, Pc, Holding
  <2> QED BY <1>1, <2>1, <2>3 DEF Good, HopsFit
<1>2. CASE ~(r.hops < MaxHops)
  BY <1>2, AfterLoopGood DEF Loop
<1> QED BY <1>1, <1>2

(* Visiting one more alias leaves a good record. *)
LEMMA VisitGood ==
  ASSUME NEW r \in TurnRec, NEW a \in Alias, r.hops <= MaxHops
  PROVE  /\ Visit(r, a) \in TurnRec
         /\ Visit(r, a).hops = r.hops + 1
         /\ Visit(r, a).peeked = r.peeked
         /\ Visit(r, a).direct = r.direct
         /\ Visit(r, a).want = r.want
<1>1. r.hops + 1 \in 0..MaxHops + 1 BY AliasAssumption DEF TurnRec
<1>2. r.visited \cup {a} \in SUBSET Alias BY DEF TurnRec
<1>3. Visit(r, a) = [r EXCEPT !.visited = r.visited \cup {a}, !.hops = r.hops + 1]
  BY DEF Visit, TurnRec
<1> QED BY <1>1, <1>2, <1>3 DEF TurnRec

(* The three ways a selection ends leave a good record. *)
LEMMA SelectGood ==
  ASSUME NEW r \in TurnRec, NEW a \in Alias, NEW explicit \in BOOLEAN,
         r.hops < MaxHops, r.direct => r.want \in Alias
  PROVE  Good(Select(r, a, explicit))
<1> USE AliasAssumption
<1>0. r.hops <= MaxHops BY DEF TurnRec
<1>1. Good(AfterLoop(r)) BY <1>0, AfterLoopGood
<1>2. Good(Loop(Visit(r, a)))
  <2>1. Visit(r, a).hops <= MaxHops BY VisitGood, <1>0 DEF TurnRec
  <2> QED BY <2>1, <1>0, VisitGood, LoopGood
<1>3. Good(Ended("failed")) /\ Good(Ended("answered"))
  BY EndedGood DEF Final
<1>4. Good([r EXCEPT !.pc = "native", !.alias = a, !.hops = @ + 1])
  <2>1. r.hops + 1 \in 0..MaxHops + 1 BY DEF TurnRec
  <2>2. [r EXCEPT !.pc = "native", !.alias = a, !.hops = @ + 1]
          = [r EXCEPT !.pc = "native", !.alias = a, !.hops = r.hops + 1]
    BY DEF TurnRec
  <2> QED BY <2>1, <2>2 DEF Good, HopsFit, TurnRec, Pc, Holding
<1>5. /\ Good([Visit(r, a) EXCEPT !.pc = "ensure", !.alias = a])
      /\ Good(Peek([Visit(r, a) EXCEPT !.pc = "ensure", !.alias = a]))
  <2> DEFINE v == Visit(r, a)
  <2>1. /\ v \in TurnRec /\ v.hops <= MaxHops
        /\ v.direct = r.direct /\ v.want = r.want
    BY VisitGood, <1>0 DEF TurnRec
  <2> HIDE DEF v
  <2>2. /\ Good([v EXCEPT !.pc = "ensure", !.alias = a])
        /\ Good(Peek([v EXCEPT !.pc = "ensure", !.alias = a]))
    BY <2>1 DEF Peek, Good, HopsFit, TurnRec, Pc, Holding
  <2> QED BY <2>2 DEF v
<1> QED BY <1>1, <1>2, <1>3, <1>4, <1>5 DEF Select

(* No segment of a handler ends in acquire(). *)
LEMMA SegmentMoves ==
  ASSUME NEW r \in TurnRec
  PROVE  /\ AfterLoop(r).pc \notin {"granted", "queued"}
         /\ Loop(r).pc \notin {"granted", "queued"}
         /\ OnResident(r).pc \notin {"granted", "queued"}
         /\ \A a \in Alias : Loop(Visit(r, a)).pc \notin {"granted", "queued"}
         /\ \A a \in Alias, x \in BOOLEAN :
              Select(r, a, x).pc \notin {"granted", "queued"}
<1>1. \A q \in TurnRec : AfterLoop(q).pc \notin {"granted", "queued"}
  BY DEF AfterLoop, OnResident, Ended, TurnRec
<1>2. \A q \in TurnRec : Loop(q).pc \notin {"granted", "queued"}
  BY <1>1 DEF Loop, Consult, TurnRec
<1>3. ASSUME NEW a \in Alias PROVE Loop(Visit(r, a)).pc \notin {"granted", "queued"}
  BY <1>1 DEF Loop, Consult, Visit, AfterLoop, OnResident, Ended, TurnRec
<1>4. OnResident(r).pc \notin {"granted", "queued"}
  BY DEF OnResident, Ended, TurnRec
<1>6. ASSUME NEW a \in Alias, NEW x \in BOOLEAN
      PROVE  Select(r, a, x).pc \notin {"granted", "queued"}
  <2>1. [r EXCEPT !.pc = "native", !.alias = a, !.hops = @ + 1].pc = "native"
    BY DEF TurnRec
  <2>2. /\ [Visit(r, a) EXCEPT !.pc = "ensure", !.alias = a].pc = "ensure"
        /\ Peek([Visit(r, a) EXCEPT !.pc = "ensure", !.alias = a]).pc = "peek"
    BY DEF Visit, Peek, TurnRec
  <2>3. Ended("failed").pc = "failed" /\ Ended("answered").pc = "answered"
    BY DEF Ended
  <2> QED BY <2>1, <2>2, <2>3, <1>1, <1>3 DEF Select
<1> QED BY <1>1, <1>2, <1>3, <1>4, <1>6

-----------------------------------------------------------------------------
(* The gate counts its holders as this module does. *)
LEMMA SameCount == Gate!Cardinality(Holders) = Cardinality(Holders)
BY DEF Gate!Cardinality, Cardinality

(* A step that leaves the holders and the queue alone is none of the gate. *)
LEMMA NobodyMoves ==
  ASSUME Holders' = Holders, queue' = queue
  PROVE  GateMoves
BY DEF GateMoves, Gate!placeVars

(* With nobody waiting a release wakes nobody; otherwise every slot was    *)
(* taken and it wakes exactly the head of the queue.                       *)
LEMMA ReleaseWakes ==
  ASSUME active \in 0..Max, active > 0, queue \in Seq(Turn), NoIdleSlot
  PROVE  /\ queue = << >> => Woken(Lowered) = 0 /\ Granted = {}
         /\ queue # << >> => Woken(Lowered) = 1 /\ Granted = {queue[1]}
<1> USE MaxAssumption
<1>0. Lowered = active - 1 BY DEF Lowered
<1>1. queue = << >> => Woken(Lowered) = 0 BY <1>0 DEF Woken
<1>2. queue # << >> => Woken(Lowered) = 1 BY <1>0 DEF Woken, NoIdleSlot
<1> QED BY <1>1, <1>2 DEF Granted

(* A segment of a turn that holds a slot keeps the whole invariant. *)
LEMMA StepKeeps ==
  ASSUME IInv, NEW t \in Turn, turn[t].pc \in Holding,
         NEW r, Good(r), r.pc \notin {"granted", "queued"},
         Step(t, r)
  PROVE  IInv' /\ GateMoves
<1> USE MaxAssumption, AliasAssumption
<1>t. t \in Holders BY DEF Holders
<1>a. active > 0 /\ active \in 0..Max /\ queue \in Seq(Turn)
  <2>1. Cardinality(Holders) # 0 BY <1>t, FS_EmptySet DEF IInv
  <2> QED BY <2>1 DEF IInv, TypeOK, SlotsAccounted
<1>b. be' \in [Alias -> Env!States]
  BY DEF Step, IInv, TypeOK, Env!States
<1>c. gone' \subseteq Turn BY DEF Step, IInv, TypeOK
<1>1. CASE r.pc \in Holding
  <2>1. turn' = [turn EXCEPT ![t] = r] /\ UNCHANGED gateVars BY <1>1 DEF Step
  <2>2. Holders' = Holders BY <2>1, <1>1, <1>t DEF Holders, IInv, TypeOK
  <2>3. TypeOK' BY <2>1, <1>b, <1>c DEF IInv, TypeOK, Good, gateVars
  <2>4. \A u \in Turn : HopsFit(turn'[u]) BY <2>1 DEF IInv, TypeOK, Good
  <2>5. QueueOK' BY <2>1, <1>a DEF QueueOK, IInv, TypeOK, gateVars, Holding
  <2>6. GateMoves BY <2>1, <2>2, NobodyMoves DEF gateVars
  <2> QED BY <2>1, <2>2, <2>3, <2>4, <2>5, <2>6
          DEF IInv, SlotsAccounted, NoIdleSlot, gateVars, HopsFit
<1>2. CASE r.pc \notin Holding
  <2>1. /\ turn' = [u \in Turn |->
                      IF u = t THEN r
                      ELSE IF u \in Granted
                           THEN [turn[u] EXCEPT !.pc = "granted"]
                           ELSE turn[u]]
        /\ Release
    BY <1>2 DEF Step
  <2>2. NoIdleSlot /\ QueueOK BY DEF IInv
  <2>3. CASE queue = << >>
    <3>1. Woken(Lowered) = 0 /\ Granted = {} BY <2>2, <2>3, <1>a, ReleaseWakes
    <3>2. active' = active - 1 /\ queue' = << >>
      BY <3>1, <2>1, <2>3, <1>a DEF Release, Lowered
    <3>3. turn' = [turn EXCEPT ![t] = r] BY <3>1, <2>1 DEF IInv, TypeOK
    <3>4. Holders' = Holders \ {t}
      BY <3>3, <1>2 DEF Holders, IInv, TypeOK
    <3>5. IsFiniteSet(Holders') /\ Cardinality(Holders') = Cardinality(Holders) - 1
      BY <3>4, <1>t, FS_RemoveElement DEF IInv
    <3>6. TypeOK' BY <3>2, <3>3, <1>a, <1>b, <1>c DEF IInv, TypeOK, Good
    <3>7. \A u \in Turn : HopsFit(turn[u])' BY <3>3 DEF IInv, TypeOK, Good, HopsFit
    <3>8. QueueOK' BY <3>2 DEF QueueOK
    <3>9. GateMoves
      <4>1. Gate!GiveBack(t) BY <3>2, <3>4, <2>3, <1>t DEF Gate!GiveBack
      <4> QED BY <4>1 DEF GateMoves, Gate!GateNext
    <3> QED BY <3>2, <3>5, <3>6, <3>7, <3>8, <3>9, <1>a
            DEF IInv, SlotsAccounted, NoIdleSlot
  <2>4. CASE queue # << >>
    <3> DEFINE u == queue[1]
    <3>1. Woken(Lowered) = 1 /\ Granted = {u} BY <2>2, <2>4, <1>a, ReleaseWakes
    <3>2. active' = active /\ queue' = SubSeq(queue, 2, Len(queue))
      BY <3>1, <2>1, <1>a DEF Release, Lowered
    <3>3. active = Max BY <2>2, <2>4 DEF NoIdleSlot
    <3>4. u \in Turn /\ turn[u].pc = "queued" /\ u # t
      BY <2>2, <2>4, <1>a DEF QueueOK, Holding
    <3> HIDE DEF u
    <3>5. turn' = [turn EXCEPT ![t] = r, ![u] = [turn[u] EXCEPT !.pc = "granted"]]
      BY <3>1, <3>4, <2>1 DEF IInv, TypeOK
    <3>6. Good([turn[u] EXCEPT !.pc = "granted"])
      BY <3>4 DEF IInv, TypeOK, Good, HopsFit, TurnRec, Pc, Holding
    <3>7. Holders' = (Holders \ {t}) \cup {u}
      BY <3>4, <3>5, <1>2, <3>6 DEF Holders, IInv, TypeOK, Holding, TurnRec
    <3>8. u \notin Holders \ {t} BY <3>4 DEF Holders, Holding
    <3>9. IsFiniteSet(Holders') /\ Cardinality(Holders') = Cardinality(Holders)
      <4>1. /\ IsFiniteSet(Holders \ {t})
            /\ Cardinality(Holders \ {t}) = Cardinality(Holders) - 1
        BY <1>t, FS_RemoveElement DEF IInv
      <4>2. /\ IsFiniteSet((Holders \ {t}) \cup {u})
            /\ Cardinality((Holders \ {t}) \cup {u}) = Cardinality(Holders \ {t}) + 1
        BY <3>8, <4>1, FS_AddElement
      <4> QED BY <3>7, <4>1, <4>2, <1>a DEF IInv, SlotsAccounted
    <3>10. queue' \in Seq(Turn) BY <3>2, <2>4, <1>a
    <3>11. TypeOK'
      BY <3>2, <3>4, <3>5, <3>6, <3>10, <1>a, <1>b, <1>c DEF IInv, TypeOK, Good
    <3>12. \A v \in Turn : HopsFit(turn[v])'
      BY <3>4, <3>5, <3>6 DEF IInv, TypeOK, Good, HopsFit
    <3>13. QueueOK'
      <4>1. \A i \in 1..Len(queue') : i + 1 \in 1..Len(queue) /\ queue'[i] = queue[i + 1]
        BY <3>2, <2>4, <1>a
      <4>2. \A i \in 1..Len(queue') : queue[i + 1] # u /\ queue[i + 1] # t
        BY <4>1, <2>2, <2>4, <1>a DEF QueueOK, Holding, u
      <4>3. \A i \in 1..Len(queue') : queue[i + 1] \in Turn BY <4>1, <1>a
      <4>4. \A v \in Turn : v # u /\ v # t => turn'[v] = turn[v]
        BY <3>5 DEF IInv, TypeOK
      <4>5. \A i \in 1..Len(queue') : turn'[queue'[i]].pc = "queued"
        BY <4>1, <4>2, <4>3, <4>4, <2>2 DEF QueueOK
      <4>6. \A i, j \in 1..Len(queue') : i + 1 = j + 1 => i = j BY <3>10
      <4>7. \A i, j \in 1..Len(queue') : queue'[i] = queue'[j] => i = j
        <5> TAKE i, j \in 1..Len(queue')
        <5> HAVE queue'[i] = queue'[j]
        <5>1. queue[i + 1] = queue[j + 1] /\ i + 1 \in 1..Len(queue)
              /\ j + 1 \in 1..Len(queue)
          BY <4>1
        <5>2. i + 1 = j + 1 BY <5>1, <2>2 DEF QueueOK
        <5> QED BY <5>2, <4>6
      <4> QED BY <4>5, <4>7 DEF QueueOK
    <3>14. GateMoves
      <4>1. u = Head(queue) /\ queue' = Tail(queue) BY <3>2, <2>4, <1>a DEF u
      <4>2. Gate!GiveBack(t) BY <3>7, <4>1, <2>4, <1>t DEF Gate!GiveBack
      <4> QED BY <4>2 DEF GateMoves, Gate!GateNext
    <3> QED BY <3>2, <3>3, <3>9, <3>11, <3>12, <3>13, <3>14
            DEF IInv, SlotsAccounted, NoIdleSlot
  <2> QED BY <2>3, <2>4
<1> QED BY <1>1, <1>2

(* Arrivals: the slot is counted, or the queue grows by a waiting turn. *)
LEMMA ArriveKeeps ==
  ASSUME IInv, NEW t \in Turn, NEW a \in Alias \cup {None}, NEW d \in BOOLEAN,
         Arrive(t, a, d)
  PROVE  IInv' /\ GateMoves
<1> USE MaxAssumption, AliasAssumption
<1> DEFINE new(pc) == [Ended(pc) EXCEPT !.want = a, !.direct = d]
<1>0. /\ active \in 0..Max /\ queue \in Seq(Turn) /\ turn[t].pc \in Final
      /\ turn \in [Turn -> TurnRec] /\ QueueOK
  BY DEF Arrive, IInv, TypeOK
<1>1. Good(new("granted")) /\ Good(new("queued"))
  <2>1. d => a \in Alias BY DEF Arrive
  <2>2. \A pc \in {"granted", "queued"} :
          /\ Ended(pc) \in TurnRec
          /\ Ended(pc).pc = pc /\ Ended(pc).hops = 0 /\ ~Ended(pc).peeked
    BY DEF Ended, TurnRec, Pc, Holding
  <2>4. \A pc \in {"granted", "queued"} : new(pc) \in TurnRec
    BY <2>2 DEF TurnRec
  <2>5. \A pc \in {"granted", "queued"} : HopsFit(new(pc))
    BY <2>1, <2>2 DEF HopsFit, TurnRec
  <2> QED BY <2>4, <2>5 DEF Good
<1>2. new("granted").pc = "granted" /\ new("queued").pc = "queued" BY DEF Ended
<1> HIDE DEF new
<1>3. t \notin Holders BY <1>0 DEF Holders, Final, Holding
<1>4. UNCHANGED <<gone, be>> BY DEF Arrive
<1>7. Gate!Stranger(t)
  <2>1. \A i \in 1..Len(queue) : queue[i] # t BY <1>0 DEF QueueOK, Final
  <2> QED BY <2>1, <1>3 DEF Gate!Stranger
<1>5. CASE TakeSlot /\ turn' = [turn EXCEPT ![t] = new("granted")]
  <2>1. active' = active + 1 /\ active < Max /\ queue' = queue BY <1>5 DEF TakeSlot
  <2>2. Holders' = Holders \cup {t} BY <1>5, <1>2, <1>0 DEF Holders, Holding
  <2>3. IsFiniteSet(Holders') /\ Cardinality(Holders') = Cardinality(Holders) + 1
    BY <2>2, <1>3, FS_AddElement DEF IInv
  <2>4. TypeOK' BY <2>1, <1>0, <1>1, <1>4, <1>5 DEF IInv, TypeOK, Good
  <2>5. \A v \in Turn : HopsFit(turn[v])'
    BY <1>0, <1>1, <1>5 DEF IInv, Good, HopsFit
  <2>6. QueueOK' BY <2>1, <1>0, <1>5 DEF QueueOK, Final
  <2>7. queue = << >> BY <2>1, <1>0 DEF IInv, NoIdleSlot
  <2>8. GateMoves
    <3>1. Cardinality(Holders) < Max BY <2>1 DEF IInv, SlotsAccounted
    <3>2. Gate!Enter(t) BY SameCount, <3>1, <2>1, <2>2, <2>7, <1>7 DEF Gate!Enter
    <3> QED BY <3>2 DEF GateMoves, Gate!GateNext
  <2> QED BY <2>1, <2>3, <2>4, <2>5, <2>6, <2>7, <2>8, <1>0
          DEF IInv, SlotsAccounted, NoIdleSlot
<1>6. CASE Enqueue(t) /\ turn' = [turn EXCEPT ![t] = new("queued")]
  <2>1. active' = active /\ active = Max /\ queue' = Append(queue, t)
    BY <1>6, <1>0 DEF Enqueue
  <2>2. Holders' = Holders BY <1>6, <1>2, <1>0, <1>3 DEF Holders, Holding
  <2>3. TypeOK' BY <2>1, <1>0, <1>1, <1>4, <1>6 DEF IInv, TypeOK, Good
  <2>4. \A v \in Turn : HopsFit(turn[v])'
    BY <1>0, <1>1, <1>6 DEF IInv, Good, HopsFit
  <2>5. QueueOK'
    <3>1. \A i \in 1..Len(queue) : queue[i] # t BY <1>0 DEF QueueOK, Final
    <3>2. /\ Len(queue') = Len(queue) + 1 /\ queue'[Len(queue) + 1] = t
          /\ \A i \in 1..Len(queue) : queue'[i] = queue[i]
      BY <2>1, <1>0
    <3>3. \A i \in 1..Len(queue) : queue[i] \in Turn BY <1>0
    <3>4. \A i \in 1..Len(queue') : i \in 1..Len(queue) \/ i = Len(queue) + 1
      BY <3>2, <1>0
    <3>5. \A i \in 1..Len(queue') : turn'[queue'[i]].pc = "queued"
      BY <3>1, <3>2, <3>3, <3>4, <1>0, <1>2, <1>6 DEF QueueOK
    <3>6. \A i, j \in 1..Len(queue') : queue'[i] = queue'[j] => i = j
      BY <3>1, <3>2, <3>4, <1>0 DEF QueueOK
    <3> QED BY <3>5, <3>6 DEF QueueOK
  <2>6. GateMoves
    <3>1. Cardinality(Holders) = Max BY <2>1 DEF IInv, SlotsAccounted
    <3>2. Gate!Wait(t) BY SameCount, <3>1, <2>1, <2>2, <1>7 DEF Gate!Wait
    <3> QED BY <3>2 DEF GateMoves, Gate!GateNext
  <2> QED BY <2>1, <2>2, <2>3, <2>4, <2>5, <2>6 DEF IInv, SlotsAccounted, NoIdleSlot
<1> QED BY <1>5, <1>6 DEF Arrive, new

(* The abort listener of a queued turn takes it out of the queue. *)
LEMMA LeaveKeeps ==
  ASSUME IInv, NEW t \in Turn, turn[t].pc = "queued", Leave(t), End(t, "failed")
  PROVE  IInv' /\ GateMoves
<1> USE MaxAssumption, AliasAssumption
<1>0. /\ active \in 0..Max /\ queue \in Seq(Turn)
      /\ turn \in [Turn -> TurnRec] /\ QueueOK /\ NoIdleSlot
  BY DEF IInv, TypeOK
<1>1. Good(Ended("failed")) /\ Ended("failed").pc = "failed"
  BY EndedGood DEF Final
<1>2. PICK p \in 1..Len(queue) :
        /\ queue[p] = t
        /\ queue' = SubSeq(queue, 1, p - 1) \o SubSeq(queue, p + 1, Len(queue))
  BY DEF Leave
<1>3. /\ turn' = [turn EXCEPT ![t] = Ended("failed")]
      /\ active' = active /\ be' = be /\ gone' \subseteq Turn
  BY DEF Leave, End, IInv, TypeOK
<1>4. Holders' = Holders BY <1>0, <1>1, <1>3 DEF Holders, Holding
<1>5. /\ queue' \in Seq(Turn) /\ Len(queue') = Len(queue) - 1
      /\ \A i \in 1..Len(queue') :
           queue'[i] = IF i < p THEN queue[i] ELSE queue[i + 1]
  <2> DEFINE front == SubSeq(queue, 1, p - 1)
             back  == SubSeq(queue, p + 1, Len(queue))
  <2>1. /\ front \in Seq(Turn) /\ Len(front) = p - 1
        /\ \A i \in 1..p - 1 : front[i] = queue[i]
    BY <1>0, <1>2
  <2>2. /\ back \in Seq(Turn) /\ Len(back) = Len(queue) - p
        /\ \A i \in 1..Len(queue) - p : back[i] = queue[p + i]
    BY <1>0, <1>2
  <2>3. queue' = front \o back BY <1>2
  <2> HIDE DEF front, back
  <2>4. p \in Nat /\ Len(queue) \in Nat /\ p <= Len(queue) /\ p >= 1
    BY <1>0, <1>2
  <2>5. queue' \in Seq(Turn) /\ Len(queue') = Len(queue) - 1
    BY <2>1, <2>2, <2>3, <2>4
  <2>6. \A i \in 1..Len(queue) - 1 :
          queue'[i] = IF i <= p - 1 THEN front[i] ELSE back[i - (p - 1)]
    BY <2>1, <2>2, <2>3, <2>4
  <2>7. \A i \in 1..Len(queue) - 1 : i >= p =>
          i - (p - 1) \in 1..Len(queue) - p /\ p + (i - (p - 1)) = i + 1
    BY <2>4
  <2>8. \A i \in 1..Len(queue) - 1 : i < p => i \in 1..p - 1 BY <2>4
  <2>9. \A i \in 1..Len(queue) - 1 : i < p => queue'[i] = queue[i]
    BY <2>1, <2>4, <2>6, <2>8
  <2>10. \A i \in 1..Len(queue) - 1 : i >= p => queue'[i] = queue[i + 1]
    BY <2>2, <2>4, <2>6, <2>7
  <2>11. \A i \in 1..Len(queue) - 1 : i < p \/ i >= p BY <2>4
  <2> QED BY <2>5, <2>9, <2>10, <2>11
<1>6. TypeOK' BY <1>0, <1>1, <1>3, <1>5 DEF IInv, TypeOK, Good
<1>7. \A v \in Turn : HopsFit(turn[v])' BY <1>0, <1>1, <1>3 DEF IInv, Good, HopsFit
<1>8. QueueOK'
  <2>1. \A i \in 1..Len(queue') :
          /\ (IF i < p THEN i ELSE i + 1) \in 1..Len(queue)
          /\ (IF i < p THEN i ELSE i + 1) # p
    BY <1>0, <1>5
  <2>2. \A i \in 1..Len(queue') : queue'[i] # t /\ queue'[i] \in Turn
    <3>1. \A k \in 1..Len(queue) : k # p => queue[k] # t /\ queue[k] \in Turn
      BY <1>0, <1>2 DEF QueueOK
    <3> QED BY <2>1, <3>1, <1>5
  <2>3. \A i \in 1..Len(queue') : turn'[queue'[i]].pc = "queued"
    BY <2>1, <2>2, <1>0, <1>3, <1>5 DEF QueueOK
  <2>4. \A i, j \in 1..Len(queue') : queue'[i] = queue'[j] => i = j
    <3> TAKE i, j \in 1..Len(queue')
    <3> HAVE queue'[i] = queue'[j]
    <3> DEFINE at(k) == IF k < p THEN k ELSE k + 1
    <3>1. at(i) \in 1..Len(queue) /\ at(j) \in 1..Len(queue) BY <2>1
    <3>2. queue'[i] = queue[at(i)] /\ queue'[j] = queue[at(j)] BY <1>5
    <3>3. at(i) = at(j) BY <3>1, <3>2, <1>0 DEF QueueOK
    <3> QED BY <3>3, <1>0, <1>2
  <2> QED BY <2>3, <2>4 DEF QueueOK
<1>9. queue' # << >> => queue # << >> BY <1>0, <1>2
<1>10. GateMoves
  <2>1. Gate!GiveUp(t) BY <1>2, <1>4 DEF Gate!GiveUp
  <2> QED BY <2>1 DEF GateMoves, Gate!GateNext
<1> QED BY <1>0, <1>3, <1>4, <1>6, <1>7, <1>8, <1>9, <1>10
        DEF IInv, SlotsAccounted, NoIdleSlot

(* A delivery ends without the gate. *)
LEMMA DeliverEndKeeps ==
  ASSUME IInv, NEW t \in Turn, turn[t].pc = "deliver", NEW how \in Final,
         End(t, how), UNCHANGED gateVars
  PROVE  IInv' /\ GateMoves
<1>0. /\ queue \in Seq(Turn) /\ turn \in [Turn -> TurnRec] /\ QueueOK
  BY DEF IInv, TypeOK
<1>1. Good(Ended(how)) /\ Ended(how).pc = how BY EndedGood
<1>2. /\ turn' = [turn EXCEPT ![t] = Ended(how)] /\ be' = be
      /\ gone' \subseteq Turn /\ active' = active /\ queue' = queue
  BY DEF End, gateVars, IInv, TypeOK
<1>3. Holders' = Holders BY <1>0, <1>1, <1>2 DEF Holders, Holding, Final
<1>4. TypeOK' BY <1>0, <1>1, <1>2 DEF IInv, TypeOK, Good
<1>5. \A v \in Turn : HopsFit(turn[v])' BY <1>0, <1>1, <1>2 DEF IInv, Good, HopsFit
<1>6. QueueOK' BY <1>0, <1>2 DEF QueueOK
<1> QED BY <1>2, <1>3, <1>4, <1>5, <1>6, NobodyMoves
        DEF IInv, SlotsAccounted, NoIdleSlot

-----------------------------------------------------------------------------
(* The invariant holds before any request arrives. *)
LEMMA InitInv == Init => IInv
<1> SUFFICES ASSUME Init PROVE IInv OBVIOUS
<1> USE MaxAssumption, AliasAssumption DEF Init, GateInit
<1>1. Good(Ended("idle")) /\ Ended("idle").pc = "idle" BY EndedGood DEF Final
<1>2. Holders = {} BY <1>1 DEF Holders, Holding
<1>3. TypeOK BY <1>1 DEF TypeOK, Good, Env!States
<1>4. \A t \in Turn : HopsFit(turn[t]) BY <1>1 DEF Good
<1>5. QueueOK BY DEF QueueOK
<1> QED BY <1>2, <1>3, <1>4, <1>5, FS_EmptySet
        DEF IInv, SlotsAccounted, NoIdleSlot

(* One step per action of Next. *)
LEMMA NextInv == IInv /\ [Next]_vars => IInv' /\ GateMoves
<1> SUFFICES ASSUME IInv, [Next]_vars PROVE IInv' /\ GateMoves OBVIOUS
<1> USE AliasAssumption
<1>0. turn \in [Turn -> TurnRec] /\ (\A t \in Turn : HopsFit(turn[t]))
  BY DEF IInv, TypeOK
<1>1. ASSUME NEW t \in Turn, NEW a \in Alias \cup {None}, NEW d \in BOOLEAN,
             Arrive(t, a, d)
      PROVE IInv' /\ GateMoves
  BY <1>1, ArriveKeeps
<1>2. ASSUME NEW t \in Turn, Begin(t) PROVE IInv' /\ GateMoves
  <2> DEFINE want == turn[t].want
             r == [turn[t] EXCEPT !.want = None, !.direct = FALSE]
  <2>1. turn[t] \in TurnRec /\ HopsFit(turn[t]) /\ turn[t].pc = "granted"
    BY <1>0, <1>2 DEF Begin
  <2>2. /\ r \in TurnRec /\ r.hops = 0 /\ ~r.direct
        /\ r.hops <= MaxHops /\ r.hops < MaxHops
    <3>1. turn[t].hops = 0 BY <2>1 DEF HopsFit
    <3>2. r \in TurnRec
      <4>1. None \in Alias \cup {None} /\ FALSE \in BOOLEAN OBVIOUS
      <4> QED BY <4>1, <2>1 DEF TurnRec
    <3>3. r.hops = turn[t].hops /\ r.direct = FALSE BY <2>1 DEF TurnRec
    <3> QED BY <3>1, <3>2, <3>3
  <2>3. want \in Alias \cup {None} /\ (turn[t].direct => want \in Alias)
    BY <2>1 DEF HopsFit, TurnRec
  <2>4. Step(t, IF turn[t].direct THEN [r EXCEPT !.pc = "direct", !.alias = want]
                ELSE IF want = None THEN Loop(r)
                ELSE IF want = Nexus THEN OnResident(r)
                ELSE IF ~Routable(want) THEN Loop(Visit(r, want))
                ELSE Select(r, want, TRUE))
    BY <1>2 DEF Begin
  <2> HIDE DEF want, r
  <2>5. want \in Alias => Good([r EXCEPT !.pc = "direct", !.alias = want])
    BY <2>2 DEF Good, HopsFit, TurnRec, Pc, Holding
  <2>6. Good(Loop(r)) BY <2>2, LoopGood
  <2>7. Good(OnResident(r))
    <3>1. CASE be[Nexus] = "unavailable"
      BY <3>1, EndedGood DEF OnResident, Final
    <3>2. CASE be[Nexus] # "unavailable"
      <4>1. r.peeked = FALSE BY <2>1, <2>2 DEF r, HopsFit, TurnRec
      <4> QED BY <3>2, <4>1, <2>2, AfterLoopGood DEF AfterLoop
    <3> QED BY <3>1, <3>2
  <2>8. ASSUME want \in Alias
        PROVE  Good(Loop(Visit(r, want))) /\ Good(Select(r, want, TRUE))
    <3>1. Visit(r, want).hops <= MaxHops BY <2>2, <2>8, VisitGood
    <3>2. Good(Loop(Visit(r, want))) BY <3>1, <2>2, <2>8, VisitGood, LoopGood
    <3>3. TRUE \in BOOLEAN OBVIOUS
    <3> QED BY <3>2, <3>3, <2>2, <2>8, SelectGood
  <2>9. want \in Alias => [r EXCEPT !.pc = "direct", !.alias = want].pc = "direct"
    BY <2>2 DEF TurnRec
  <2>10. turn[t].pc \in Holding BY <2>1 DEF Holding
  <2> QED BY <2>2, <2>3, <2>4, <2>5, <2>6, <2>7, <2>8, <2>9, <2>10,
             SegmentMoves, StepKeeps
<1>3. ASSUME NEW t \in Turn, Consulted(t) PROVE IInv' /\ GateMoves
  <2> DEFINE r == turn[t]
  <2>1. r \in TurnRec /\ HopsFit(r) /\ r.pc = "consult" BY <1>0, <1>3 DEF Consulted
  <2>2. r.hops < MaxHops /\ r.hops <= MaxHops /\ (r.direct => r.want \in Alias)
    BY <2>1 DEF HopsFit, TurnRec
  <2> HIDE DEF r
  <2>3. CASE Step(t, AfterLoop(r))
    BY <2>1, <2>2, <2>3, AfterLoopGood, SegmentMoves, StepKeeps DEF Holding, r
  <2>4. ASSUME NEW a \in Alias, Step(t, Select(r, a, FALSE)) PROVE IInv' /\ GateMoves
    <3>1. FALSE \in BOOLEAN OBVIOUS
    <3> DEFINE n == Select(r, a, FALSE)
    <3>2. Good(n) /\ n.pc \notin {"granted", "queued"}
      BY <3>1, <2>1, <2>2, SelectGood, SegmentMoves
    <3> HIDE DEF n
    <3> QED BY <3>2, <2>1, <2>4, StepKeeps DEF Holding, r, n
  <2> QED BY <1>3, <2>3, <2>4 DEF Consulted, r
<1>4. ASSUME NEW t \in Turn, Ensured(t) PROVE IInv' /\ GateMoves
  <2> DEFINE r == turn[t]
  <2>1. r \in TurnRec /\ HopsFit(r) /\ r.pc = "ensure" BY <1>0, <1>4 DEF Ensured
  <2> HIDE DEF r
  <2>2. Good(Peek(r)) /\ Peek(r).pc = "peek"
    BY <2>1 DEF Peek, Good, HopsFit, TurnRec, Pc, Holding
  <2>3. Good(Ended("failed")) /\ Ended("failed").pc = "failed"
    BY EndedGood DEF Final
  <2> QED BY <1>4, <2>1, <2>2, <2>3, StepKeeps DEF Ensured, Holding, r
<1>5. ASSUME NEW t \in Turn, Peeked(t) \/ PeekTimeout(t) PROVE IInv' /\ GateMoves
  <2> DEFINE r == turn[t]
             v == Visit(r, r.alias)
  <2>1. r \in TurnRec /\ HopsFit(r) /\ r.pc = "peek" /\ r.pc \in Holding
    BY <1>0, <1>5 DEF Peeked, PeekTimeout, Holding
  <2>2. r.hops <= MaxHops /\ r.alias \in Alias /\ (r.direct => r.want \in Alias)
    BY <2>1 DEF HopsFit
  <2> HIDE DEF r
  <2>3. /\ Good(Ended("failed")) /\ Ended("failed").pc = "failed"
        /\ Good(Ended("answered")) /\ Ended("answered").pc = "answered"
    BY EndedGood DEF Final
  <2>4. Good([r EXCEPT !.pc = "deliver"])
    BY <2>1, <2>2 DEF Good, HopsFit, TurnRec, Pc, Holding
  <2>5. Good(Loop(r)) /\ Loop(r).pc \notin {"granted", "queued"}
    BY <2>1, <2>2, LoopGood, SegmentMoves
  <2>6. /\ v \in TurnRec /\ v.peeked = r.peeked /\ v.direct = r.direct
        /\ v.want = r.want
    BY <2>1, <2>2, VisitGood
  <2> HIDE DEF v
  <2>7. ASSUME v.peeked \/ v.hops <= MaxHops
        PROVE  Good(Loop(v)) /\ Loop(v).pc \notin {"granted", "queued"}
    BY <2>2, <2>6, <2>7, LoopGood, SegmentMoves
  <2>8. r.peeked BY <2>1 DEF HopsFit
  <2>9. CASE Peeked(t)
    <3>1. \/ Step(t, Ended("answered")) \/ Step(t, [r EXCEPT !.pc = "deliver"])
          \/ Step(t, Loop(r)) \/ Step(t, Ended("failed"))
      BY <2>9 DEF Peeked, r
    <3>2. [r EXCEPT !.pc = "deliver"].pc = "deliver" BY <2>1 DEF TurnRec
    <3> QED BY <3>1, <3>2, <2>1, <2>3, <2>4, <2>5, StepKeeps DEF r
  <2>10. CASE PeekTimeout(t)
    <3>1. Step(t, Loop(v)) \/ Step(t, Ended("failed")) BY <2>10 DEF PeekTimeout, r, v
    <3> QED BY <3>1, <2>1, <2>3, <2>6, <2>7, <2>8, StepKeeps DEF r
  <2> QED BY <1>5, <2>9, <2>10
<1>6. ASSUME NEW t \in Turn, Complete(t) PROVE IInv' /\ GateMoves
  <2>1. PICK how \in {"answered", "failed"} : Step(t, Ended(how))
    BY <1>6 DEF Complete
  <2>2. Good(Ended(how)) /\ Ended(how).pc = how BY EndedGood DEF Final
  <2> QED BY <1>6, <2>1, <2>2, StepKeeps DEF Complete, Holding
<1>7. ASSUME NEW t \in Turn, Delivered(t) \/ DeadlineCuts(t) PROVE IInv' /\ GateMoves
  BY <1>7, DeliverEndKeeps DEF Delivered, DeadlineCuts, Final
<1>8. ASSUME NEW t \in Turn, Disconnect(t) PROVE IInv' /\ GateMoves
  <2>1. CASE turn[t].pc = "queued" /\ Leave(t) /\ End(t, "failed")
    BY <2>1, LeaveKeeps
  <2>2. CASE turn[t].pc = "peek" /\ t \notin gone /\ Step(t, Ended("failed"))
    <3>1. Good(Ended("failed")) /\ Ended("failed").pc = "failed"
      BY EndedGood DEF Final
    <3> QED BY <2>2, <3>1, StepKeeps DEF Holding
  <2>3. CASE turn[t].pc = "deliver" /\ UNCHANGED gateVars /\ End(t, "failed")
    BY <2>3, DeliverEndKeeps DEF Final
  <2>4. CASE gone' = gone \cup {t} /\ UNCHANGED <<gateVars, turn, be>>
    <3>1. Holders' = Holders BY <2>4 DEF Holders
    <3>2. GateMoves BY <2>4, <3>1, NobodyMoves DEF gateVars
    <3> QED BY <2>4, <3>1, <3>2
            DEF IInv, TypeOK, HopsFit, QueueOK, SlotsAccounted, NoIdleSlot, gateVars
  <2> QED BY <1>8, <2>1, <2>2, <2>3, <2>4 DEF Disconnect
<1>9. ASSUME NEW a \in Process, BackendStep(a) PROVE IInv' /\ GateMoves
  <2>1. UNCHANGED <<active, queue, turn, gone>> BY <1>9 DEF BackendStep, gateVars
  <2>2. be' \in [Alias -> Env!States]
    BY <1>9 DEF BackendStep, IInv, TypeOK
  <2>3. Holders' = Holders BY <2>1 DEF Holders
  <2>4. GateMoves BY <2>1, <2>3, NobodyMoves
  <2> QED BY <2>1, <2>2, <2>3, <2>4
          DEF IInv, TypeOK, HopsFit, QueueOK, SlotsAccounted, NoIdleSlot
<1>10. CASE UNCHANGED vars
  <2>1. Holders' = Holders BY <1>10 DEF Holders, vars
  <2>2. GateMoves BY <1>10, <2>1, NobodyMoves DEF vars
  <2> QED BY <1>10, <2>1, <2>2
          DEF IInv, TypeOK, HopsFit, QueueOK, SlotsAccounted, NoIdleSlot, vars
<1> QED
  BY <1>1, <1>2, <1>3, <1>4, <1>5, <1>6, <1>7, <1>8, <1>9, <1>10 DEF Next

-----------------------------------------------------------------------------
(* The conjunction of the parts above is inductive: it holds of the gate and *)
(* of the turns whatever happens to them.                                    *)
THEOREM InductiveInvariant == SafeSpec => []IInv
BY InitInv, NextInv, PTL DEF SafeSpec

(* Every state variable of the gate and of the turns keeps its type; the   *)
(* hop counter stays within one of MAX_SPECIALIST_HOPS.                    *)
THEOREM TypeCorrect == SafeSpec => []TypeOK
<1>1. IInv => TypeOK BY DEF IInv
<1> QED BY <1>1, InductiveInvariant, PTL

(* No exit path of any turn leaks a policy slot or returns one twice.      *)
THEOREM NoSlotLeaks == SafeSpec => []SlotsAccounted
<1>1. IInv => SlotsAccounted BY DEF IInv
<1> QED BY <1>1, InductiveInvariant, PTL

(* A turn waits in the queue only while every slot is taken.               *)
THEOREM NoWaiterForgotten == SafeSpec => []NoIdleSlot
<1>1. IInv => NoIdleSlot BY DEF IInv
<1> QED BY <1>1, InductiveInvariant, PTL

(* For any number of turns and slots, whoever holds a slot and whoever     *)
(* waits for one moves as in the fair gate: first come, first served.      *)
THEOREM TurnsImplementFairGate == SafeSpec => GateIsFair
<1>1. Init => Gate!GateInit
  <2> SUFFICES ASSUME Init PROVE Gate!GateInit OBVIOUS
  <2>1. \A t \in Turn : turn[t].pc = "idle" BY DEF Init, Ended
  <2> QED BY <2>1 DEF Init, GateInit, Gate!GateInit, Holders, Holding
<1>2. IInv /\ [Next]_vars => GateMoves BY NextInv
<1> QED
  BY <1>1, <1>2, InductiveInvariant, PTL
     DEF SafeSpec, GateIsFair, Gate!GateSpec, GateMoves
=============================================================================
