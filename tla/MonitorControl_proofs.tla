------------------------ MODULE MonitorControl_proofs ------------------------
(***************************************************************************)
(* Proofs about MonitorControl: the components of the monitor that decide, *)
(* for any interfaces, slices, subjects, edits and voters.                 *)
(***************************************************************************)
EXTENDS MonitorControl, FiniteSetTheorems, SequenceTheorems, TLAPS

(* What NetNext keeps beside the types. *)
NetInv ==
    /\ NetTypeOK
    /\ nicState[Machine] = "up"
    /\ resetting = {n \in NetTargets : nicState[n] = "resetting"}

(* One step of a target along an edge. *)
AlongEdges == \A n \in NetTargets : nicState'[n] # nicState[n] => nicState'[n] \in StateEdges[nicState[n]]

(* The verbs of each state lead along its edges, or stay. *)
LEMMA VerbsFollowEdges ==
    ASSUME NEW s \in NicStates, NEW verb \in DOMAIN VerbNext[s]
    PROVE  /\ VerbNext[s][verb] \in NicStates
           /\ VerbNext[s][verb] # s => VerbNext[s][verb] \in StateEdges[s]
BY DEF VerbNext, NicStates, StateEdges

(* Every verb on a target keeps the invariant of the network and moves along an edge. *)
LEMMA NetStep ==
    ASSUME NetInv, NetNext
    PROVE  NetInv' /\ AlongEdges
<1>1. PICK verb \in NetVerbs, target \in NetTargets, ticket \in Tickets :
         \/ \E capable \in BOOLEAN : NetReject(verb, target, capable, ticket)
         \/ NetMove(verb, target, ticket)
  BY DEF NetNext
<1>2. CASE \E capable \in BOOLEAN : NetReject(verb, target, capable, ticket)
  BY <1>2 DEF NetReject, netVars, NetInv, NetTypeOK, AlongEdges
<1>3. CASE NetMove(verb, target, ticket)
  <2> DEFINE s == nicState[target]
             next == VerbNext[s][verb]
  <2>1. s \in NicStates /\ verb \in DOMAIN VerbNext[s] /\ (target = Machine => next = "up")
    <3>1. verb \in DOMAIN VerbNext[s] /\ s \in NicStates
      BY <1>3 DEF NetMove, NetRefuses, NetInv, NetTypeOK
    <3>2. ASSUME target = Machine PROVE next = "up"
      <4>1. s = "up" BY <3>2 DEF NetInv
      <4>2. verb \in {"down", "freeze", "sleep", "halt", "reset", "snapshot"}
        BY <3>1, <4>1 DEF VerbNext
      <4>3. verb \notin NicOnly BY <1>3, <3>2 DEF NetMove, NetRefuses
      <4>4. verb = "snapshot" BY <4>2, <4>3 DEF NicOnly
      <4> QED BY <4>1, <4>4 DEF VerbNext
    <3> QED BY <3>1, <3>2
  <2>2. next \in NicStates /\ (next # s => next \in StateEdges[s])
    BY <2>1, VerbsFollowEdges
  <2>3. /\ nicState' = [nicState EXCEPT ![target] = next]
        /\ resetting' = IF next = "resetting" THEN resetting \cup {target}
                                             ELSE resetting \ {target}
    BY <1>3 DEF NetMove
  <2> HIDE DEF next
  <2>4. Machine \in NetTargets BY DEF NetTargets
  <2>5. /\ nicState'[target] = next
        /\ \A n \in NetTargets \ {target} : nicState'[n] = nicState[n]
        /\ nicState' \in [NetTargets -> NicStates]
    BY <2>2, <2>3 DEF NetInv, NetTypeOK
  <2>6. resetting' = {n \in NetTargets : nicState'[n] = "resetting"}
    BY <2>3, <2>5 DEF NetInv
  <2> QED BY <2>1, <2>2, <2>4, <2>5, <2>6 DEF NetInv, NetTypeOK, AlongEdges
<1> QED BY <1>1, <1>2, <1>3

-----------------------------------------------------------------------------
Place == [slice : Slices \cup FloorSlices, worker : Workers]

PlaceInv ==
    /\ places \in Seq(Place)
    /\ SlotsCounted

(* What is left of the places is as it was, in the same order. *)
LEMMA WithoutOne ==
    ASSUME places \in Seq(Place), NEW gone \in DOMAIN places
    PROVE  /\ Without(gone) \in Seq(Place)
           /\ Len(Without(gone)) = Len(places) - 1
           /\ \A i \in DOMAIN Without(gone) :
                 Without(gone)[i] = IF i < gone THEN places[i] ELSE places[i + 1]
<1>1. Len(places) \in Nat /\ DOMAIN places = 1..Len(places) BY LenProperties
<1>2. Len(places) - 1 \in Nat BY <1>1
<1>3. \A i \in 1..(Len(places) - 1) :
        (IF i < gone THEN places[i] ELSE places[i + 1]) \in Place
  <2>1. \A i \in 1..Len(places) : places[i] \in Place BY ElementOfSeq
  <2> QED BY <1>1, <2>1
<1>4. Without(gone) \in [1..(Len(places) - 1) -> Place] BY <1>3 DEF Without
<1>5. Without(gone) \in Seq(Place) BY <1>2, <1>4
<1>6. Len(Without(gone)) = Len(places) - 1 BY <1>2, <1>4, <1>5, LenProperties
<1> QED BY <1>4, <1>5, <1>6 DEF Without

(* Binding and yielding keep the count of the extra slices. *)
LEMMA PlaceStep ==
    ASSUME PlaceInv, PlaceNext
    PROVE  PlaceInv'
<1>1. Len(places) \in Nat /\ DOMAIN places = 1..Len(places)
  BY LenProperties DEF PlaceInv
<1>2. ASSUME NEW slice \in Slices \cup FloorSlices, NEW worker \in Workers,
             NEW capable \in BOOLEAN, NEW ticket \in Tickets,
             Bind(slice, worker, capable, ticket)
      PROVE  PlaceInv'
  <2>1. CASE UNCHANGED placeVars BY <2>1 DEF placeVars, PlaceInv, SlotsCounted
  <2>2. CASE ~UNCHANGED placeVars
    <3> DEFINE new == [slice |-> slice, worker |-> worker]
    <3>1. /\ ~(extraCount >= ExtraSlots) /\ ~\E i \in DOMAIN places : places[i].slice = slice
          /\ places' = Append(places, new) /\ extraCount' = extraCount + 1
      BY <1>2, <2>2 DEF Bind
    <3>2. new \in Place BY DEF Place
    <3>3. new.slice = slice OBVIOUS
    <3> HIDE DEF new
    <3>4. /\ places' \in Seq(Place) /\ Len(places') = Len(places) + 1
          /\ DOMAIN places' = 1..Len(places) + 1
          /\ \A i \in 1..Len(places) : places'[i] = places[i]
          /\ places'[Len(places) + 1] = new
      BY <1>1, <3>1, <3>2, AppendProperties DEF PlaceInv
    <3>5. extraCount' = Len(places') /\ extraCount' <= ExtraSlots
      BY <1>1, <3>1, <3>4, SlotsAssumption DEF PlaceInv, SlotsCounted
    <3>6. \A i, j \in DOMAIN places' : places'[i].slice = places'[j].slice => i = j
      BY <1>1, <3>1, <3>3, <3>4 DEF PlaceInv, SlotsCounted
    <3> QED BY <3>4, <3>5, <3>6 DEF PlaceInv, SlotsCounted
  <2> QED BY <2>1, <2>2
<1>3. ASSUME NEW slice, NEW worker, NEW capable \in BOOLEAN, NEW ticket \in Tickets,
             Yield(slice, worker, capable, ticket)
      PROVE  PlaceInv'
  <2>1. CASE UNCHANGED placeVars BY <2>1 DEF placeVars, PlaceInv, SlotsCounted
  <2>2. CASE ~UNCHANGED placeVars
    <3>1. PICK gone \in Matching(slice, worker) :
            /\ places' = Without(gone)
            /\ extraCount' = IF extraCount > 0 THEN extraCount - 1 ELSE 0
      BY <1>3, <2>2 DEF Yield
    <3>2. gone \in DOMAIN places BY DEF Matching
    <3>3. /\ places' \in Seq(Place) /\ Len(places') = Len(places) - 1
          /\ \A i \in DOMAIN places' :
                places'[i] = IF i < gone THEN places[i] ELSE places[i + 1]
      BY <3>1, <3>2, WithoutOne DEF PlaceInv
    <3>4. DOMAIN places' = 1..(Len(places) - 1) BY <3>3, LenProperties
    <3>5. extraCount' = Len(places') /\ extraCount' <= ExtraSlots
      BY <1>1, <3>1, <3>2, <3>3, SlotsAssumption DEF PlaceInv, SlotsCounted
    <3>6. \A i, j \in DOMAIN places : places[i].slice = places[j].slice => i = j
      BY DEF PlaceInv, SlotsCounted
    <3>7. \A i, j \in DOMAIN places' : places'[i].slice = places'[j].slice => i = j
      <4> SUFFICES ASSUME NEW i \in DOMAIN places', NEW j \in DOMAIN places',
                          places'[i].slice = places'[j].slice
                   PROVE  i = j
        OBVIOUS
      <4> DEFINE at(k) == IF k < gone THEN k ELSE k + 1
      <4>1. at(i) \in DOMAIN places /\ at(j) \in DOMAIN places BY <1>1, <3>2, <3>4
      <4>2. places'[i] = places[at(i)] /\ places'[j] = places[at(j)] BY <3>3
      <4>3. at(i) = at(j) BY <3>6, <4>1, <4>2
      <4> QED BY <1>1, <3>2, <3>4, <4>3
    <3> QED BY <3>3, <3>5, <3>7 DEF PlaceInv, SlotsCounted
  <2> QED BY <2>1, <2>2
<1> QED BY <1>2, <1>3 DEF PlaceNext

-----------------------------------------------------------------------------
IsolateInv ==
    /\ granted \in [Subjects -> SUBSET Bits] /\ mapped \in [Subjects -> SUBSET Bits]
    /\ RightsBounded

(* Granting, mapping and unmapping keep both tables within what may be had. *)
LEMMA IsolateStep ==
    ASSUME IsolateInv, IsolateNext
    PROVE  IsolateInv'
<1>1. CASE UNCHANGED isolateVars
  BY <1>1 DEF isolateVars, IsolateInv, RightsBounded
<1>2. ASSUME NEW subject \in Subjects, NEW bits \in SUBSET Bits, NEW byVerb \in BOOLEAN,
             NEW capable \in BOOLEAN, NEW ticket \in Tickets,
             \/ Grant(subject, bits, byVerb, capable, ticket)
             \/ Map(subject, bits, byVerb, capable, ticket),
             ~UNCHANGED isolateVars
      PROVE  IsolateInv'
  <2>1. /\ bits \cap OutOfVersion = {} /\ (subject \in SelfDenied => bits \cap LockdownMask = {})
        /\ granted' = [granted EXCEPT ![subject] = granted[subject] \cup bits]
        /\ \/ mapped' = mapped
           \/ mapped' = [mapped EXCEPT ![subject] = mapped[subject] \cup bits]
    BY <1>2
    DEF Grant, Map, IsolateRefuses, DeniesSelf, IsolateReject, OrBits, isolateVars
  <2> QED BY <2>1 DEF IsolateInv, RightsBounded
<1>3. ASSUME NEW subject \in Subjects, NEW bits \in SUBSET Bits, NEW byVerb \in BOOLEAN,
             NEW capable \in BOOLEAN, NEW ticket \in Tickets,
             Unmap(subject, bits, byVerb, capable, ticket), ~UNCHANGED isolateVars
      PROVE  IsolateInv'
  <2>1. /\ granted' = granted
        /\ mapped' = [mapped EXCEPT ![subject] = IF bits = {} THEN {} ELSE mapped[subject] \ bits]
    BY <1>3 DEF Unmap, IsolateReject, isolateVars
  <2> QED BY <2>1 DEF IsolateInv, RightsBounded
<1>4. \A ticket \in Tickets : IsolateOther(ticket) => UNCHANGED isolateVars
  BY DEF IsolateOther, IsolateReject
<1> QED BY <1>1, <1>2, <1>3, <1>4 DEF IsolateNext

-----------------------------------------------------------------------------
(* An edit that names a grade once gives it the verb of that entry. *)
LEMMA EditedAt ==
    ASSUME NEW table, NEW entries \in Edits, NEW positions \in SUBSET DOMAIN entries,
           NEW i \in positions, NEW g \in Grades, entries[i].grade = g
    PROVE  Edited(table, entries, positions)[g] = entries[i].verb
<1>1. \A j \in positions : entries[j].grade = g => j = i BY PolicyAssumption
<1>2. (CHOOSE j \in positions : entries[j].grade = g) = i BY <1>1
<1> QED BY <1>2 DEF Edited

(* An edit, whole or cut short, leaves the maps apart only at inert verbs. *)
LEMMA PolicyStep ==
    ASSUME ActiveFollowsIntended, PolicyNext
    PROVE  ActiveFollowsIntended'
<1>1. CASE UNCHANGED <<activeMap, intendedMap>> BY <1>1 DEF ActiveFollowsIntended
<1>2. ASSUME NEW edit \in Edits, NEW capable \in Capabilities, NEW ticket \in Tickets,
             EditMap(edit, capable, ticket), NEW g \in Grades, activeMap'[g] # intendedMap'[g]
      PROVE  Inert(intendedMap'[g])
  <2> DEFINE taken == Taken(edit, capable)
             inForce == {i \in taken : ~Inert(edit[i].verb)}
  <2>1. intendedMap' = Edited(intendedMap, edit, taken) /\ activeMap' = Edited(activeMap, edit, inForce)
    BY <1>2 DEF EditMap
  <2>2. taken \subseteq DOMAIN edit BY DEF Taken
  <2>3. inForce \subseteq taken /\ \A i \in taken \ inForce : Inert(edit[i].verb)
    OBVIOUS
  <2> HIDE DEF taken, inForce
  <2>4. CASE \E i \in taken : edit[i].grade = g
    <3>1. PICK i \in taken : edit[i].grade = g BY <2>4
    <3>2. intendedMap'[g] = edit[i].verb BY <2>1, <2>2, <3>1, EditedAt
    <3>3. CASE i \in inForce
      <4>1. activeMap'[g] = edit[i].verb BY <2>1, <2>2, <2>3, <3>1, <3>3, EditedAt
      <4> QED BY <1>2, <3>2, <4>1
    <3> QED BY <2>3, <3>2, <3>3
  <2>5. CASE ~\E i \in taken : edit[i].grade = g
    <3>1. intendedMap'[g] = intendedMap[g] /\ activeMap'[g] = activeMap[g]
      BY <2>1, <2>3, <2>5 DEF Edited
    <3> QED BY <1>2, <3>1 DEF ActiveFollowsIntended
  <2> QED BY <2>4, <2>5
<1>3. ASSUME NEW ticket \in Tickets, NEW capable \in Capabilities, NEW grade,
             \/ \E l \in Labels : Label(l, grade, capable, ticket)
             \/ CheckRejects(grade, capable, ticket)
      PROVE  UNCHANGED <<activeMap, intendedMap>>
  BY <1>3 DEF Label, CheckRejects, policyVars
<1> QED BY <1>1, <1>2, <1>3 DEF PolicyNext, ActiveFollowsIntended

-----------------------------------------------------------------------------
(* Votes are stored only of those cast, each with the time it names, or at which it came. *)
LEMMA RespondStep ==
    ASSUME RespondTypeOK, RespondNext
    PROVE  RespondTypeOK'
<1> USE RespondAssumption DEF RespondTypeOK
<1>1. ASSUME NEW vote \in Vote, CastVote(vote) PROVE RespondTypeOK'
  BY <1>1 DEF CastVote
<1>2. ASSUME NEW vote \in cast, ReceiveVote(vote) PROVE RespondTypeOK'
  <2> DEFINE stamp == IF vote.terms.ts # Unset THEN vote.terms.ts ELSE time
  <2>1. /\ UNCHANGED <<boot, time, cast>>
        /\ votes' \subseteq votes \cup {[vote |-> vote, ts |-> stamp]}
    BY <1>2 DEF ReceiveVote, respondVars
  <2>2. IF vote.terms.ts # Unset THEN stamp = vote.terms.ts ELSE stamp \in 0..time
    OBVIOUS
  <2> HIDE DEF stamp
  <2> QED BY <2>1, <2>2
<1>3. ASSUME NEW ticket \in Tickets, RespondRejects(ticket) PROVE RespondTypeOK'
  BY <1>3 DEF RespondRejects, respondVars
<1>4. ASSUME Restart PROVE RespondTypeOK' BY <1>4 DEF Restart
<1>5. ASSUME Elapse PROVE RespondTypeOK'
  <2>1. time' \in 0..MaxTime /\ 0..time \subseteq 0..time' BY <1>5 DEF Elapse
  <2> QED BY <1>5, <2>1 DEF Elapse
<1> QED BY <1>1, <1>2, <1>3, <1>4, <1>5 DEF RespondNext

(* A record that has not expired is of a vote that is still good: a vote that does not
   say when it was cast was stamped when it came, and no later than now. *)
LEMMA StillGood ==
    ASSUME NEW record, NEW now \in Moments, record.vote.terms \in VoteTerms,
           time \in 0..MaxTime, ~Expired(record, now),
           IF record.vote.terms.ts # Unset THEN record.ts = record.vote.terms.ts
           ELSE record.ts \in 0..time
    PROVE  GoodAt(record.vote, now)
<1> DEFINE terms == record.vote.terms
           life == Life(record.vote)
<1>1. /\ terms.ts \in Nat \cup {Unset} /\ terms.ttl \in Nat \cup {Unset}
      /\ terms.expiry \in Nat \cup {Unset} /\ VoteTtl \in Nat \cup {Unset}
      /\ MaxTime \in Nat
  BY RespondAssumption
<1>2. now \in Nat /\ time \in Nat /\ record.ts \in Nat
  BY <1>1 DEF Moments, Unset
<1>3. life \in Nat \cup {Unset} BY <1>1 DEF Life
<1>4. CASE terms.expiry # Unset
  BY <1>1, <1>2, <1>4 DEF Expired, GoodAt, Unset
<1>5. CASE terms.expiry = Unset /\ life = Unset
  BY <1>5 DEF GoodAt
<1>6. CASE terms.expiry = Unset /\ life # Unset
  <2>1. life \in Nat /\ now - record.ts <= life
    BY <1>2, <1>3, <1>6 DEF Expired
  <2>2. CASE terms.ts # Unset BY <1>2, <1>6, <2>1, <2>2 DEF GoodAt
  <2>3. CASE terms.ts = Unset
    <3>1. record.ts <= time BY <1>1, <2>3
    <3>2. now - time <= life BY <1>2, <2>1, <3>1
    <3> QED BY <1>6, <2>3, <3>2 DEF GoodAt
  <2> QED BY <2>2, <2>3
<1> QED BY <1>4, <1>5, <1>6

(* Whoever a tally counts cast a vote that is still good. *)
LEMMA CountedVoted ==
    ASSUME RespondTypeOK, NEW domain, NEW verb, NEW ticket, NEW now \in Moments
    PROVE  /\ Count(domain, verb, ticket, now) \in Nat
           /\ Cardinality(GoodVoters(domain, verb, ticket, now)) \in Nat
           /\ Count(domain, verb, ticket, now) <= Cardinality(GoodVoters(domain, verb, ticket, now))
<1> DEFINE voted == GoodVoters(domain, verb, ticket, now)
           counted == {record.vote.voter : record \in Matched(domain, verb, ticket, now)}
<1>1. ASSUME NEW record \in Matched(domain, verb, ticket, now)
      PROVE  record.vote.voter \in voted
  <2>1. /\ record \in votes /\ Asked(record.vote, domain, verb, ticket)
        /\ record.vote.boot = boot /\ ~Expired(record, now)
    BY <1>1 DEF Matched
  <2>2. /\ record.vote \in cast /\ record.vote \in Vote /\ time \in 0..MaxTime
        /\ IF record.vote.terms.ts # Unset THEN record.ts = record.vote.terms.ts
           ELSE record.ts \in 0..time
    BY <2>1 DEF RespondTypeOK
  <2>3. record.vote.voter \in Voters /\ record.vote.terms \in VoteTerms
    BY <2>2 DEF Vote
  <2>4. GoodAt(record.vote, now)
    BY <2>1, <2>2, <2>3, StillGood
  <2> QED BY <2>1, <2>2, <2>3, <2>4 DEF GoodVoters
<1>2. counted \subseteq voted BY <1>1
<1>3. voted \subseteq Voters BY DEF GoodVoters
<1> HIDE DEF voted, counted
<1>4. IsFiniteSet(voted) BY <1>3, RespondAssumption, FS_Subset
<1>5. IsFiniteSet(counted) /\ Cardinality(counted) <= Cardinality(voted)
  BY <1>2, <1>4, FS_Subset
<1>6. Cardinality(counted) \in Nat /\ Cardinality(voted) \in Nat
  BY <1>4, <1>5, FS_CardinalityType
<1> QED BY <1>5, <1>6 DEF voted, counted, Count

(* Whatever well-formed votes are stored, a reported quorum is real. *)
LEMMA TypedQuorumReal ==
    ASSUME RespondTypeOK
    PROVE  QuorumIsReal
<1> SUFFICES ASSUME NEW domain \in VoteDomains, NEW verb \in RespondVerbs \cup {Any},
                    NEW ticket \in VoteTickets \cup {Any},
                    NEW quorum \in 1..Cardinality(Voters) + 1, NEW now \in Moments,
                    Reached(domain, verb, ticket, quorum, now)
             PROVE  /\ Cardinality(GoodVoters(domain, verb, ticket, now)) >= quorum
                    /\ domain = "localReplica" /\ verb \in Rebooting => Replicas > 1
  BY DEF QuorumIsReal
<1> DEFINE voted == Cardinality(GoodVoters(domain, verb, ticket, now))
<1>1. Count(domain, verb, ticket, now) >= quorum /\ ~CannotSelfMajority(domain, verb)
  BY DEF Reached
<1>2. /\ Count(domain, verb, ticket, now) \in Nat /\ voted \in Nat
      /\ Count(domain, verb, ticket, now) <= voted
  BY CountedVoted
<1>3. domain = "localReplica" /\ verb \in Rebooting => Replicas > 1
  BY <1>1, RespondAssumption DEF CannotSelfMajority
<1> HIDE DEF voted
<1>4. quorum \in Nat
  BY RespondAssumption, FS_CardinalityType
<1>5. voted >= quorum BY <1>1, <1>2, <1>4
<1> QED BY <1>3, <1>5 DEF voted

-----------------------------------------------------------------------------
IInv ==
    /\ NetInv /\ PlaceInv /\ IsolateInv
    /\ ActiveFollowsIntended
    /\ RespondTypeOK

(* Every component starts in its invariant. *)
LEMMA InitHolds == ControlInit => IInv
<1> SUFFICES ASSUME ControlInit PROVE IInv OBVIOUS
<1> USE DEF ControlInit
<1>1. NetInv
  BY DEF NetInit, NetInv, NetTypeOK, NicStates, StateEdges, NetTargets
<1>2. PlaceInv
  <2>1. << >> \in Seq(Place) /\ Len(<< >>) = 0 /\ DOMAIN << >> = {} OBVIOUS
  <2> QED BY <2>1, SlotsAssumption DEF PlaceInit, PlaceInv, SlotsCounted
<1>3. IsolateInv BY DEF IsolateInit, IsolateInv, RightsBounded
<1>4. ActiveFollowsIntended BY DEF PolicyInit, ActiveFollowsIntended
<1>5. RespondTypeOK
  <2>1. FirstBoot \in BootIds /\ 0 \in 0..MaxTime BY RespondAssumption
  <2> QED BY <2>1 DEF RespondInit, RespondTypeOK
<1> QED BY <1>1, <1>2, <1>3, <1>4, <1>5 DEF IInv

(* A component that is not exercised keeps its own state. *)
LEMMA Untouched ==
    ASSUME IInv
    PROVE  /\ UNCHANGED netVars => NetInv' /\ AlongEdges
           /\ UNCHANGED placeVars => PlaceInv'
           /\ UNCHANGED isolateVars => IsolateInv'
           /\ UNCHANGED policyVars => ActiveFollowsIntended'
           /\ UNCHANGED respondVars => RespondTypeOK'
<1>1. UNCHANGED netVars => NetInv' /\ AlongEdges
  BY DEF IInv, netVars, NetInv, NetTypeOK, AlongEdges
<1>2. UNCHANGED placeVars => PlaceInv' BY DEF IInv, placeVars, PlaceInv, SlotsCounted
<1>3. UNCHANGED isolateVars => IsolateInv' BY DEF IInv, isolateVars, IsolateInv, RightsBounded
<1>4. UNCHANGED policyVars => ActiveFollowsIntended'
  BY DEF IInv, policyVars, ActiveFollowsIntended
<1>5. UNCHANGED respondVars => RespondTypeOK'
  BY DEF IInv, respondVars, RespondTypeOK
<1> QED BY <1>1, <1>2, <1>3, <1>4, <1>5

(* One step of the component exercised keeps the invariant of all of them. *)
LEMMA StepKeeps ==
    ASSUME IInv, [ControlNext]_controlVars
    PROVE  IInv' /\ AlongEdges
<1> USE Untouched
<1>1. CASE NetNext /\ UNCHANGED <<placeVars, isolateVars, policyVars, respondVars>>
  BY <1>1, NetStep DEF IInv
<1>2. CASE PlaceNext /\ UNCHANGED <<netVars, isolateVars, policyVars, respondVars>>
  BY <1>2, PlaceStep DEF IInv
<1>3. CASE IsolateNext /\ UNCHANGED <<netVars, placeVars, policyVars, respondVars>>
  BY <1>3, IsolateStep DEF IInv
<1>4. CASE PolicyNext /\ UNCHANGED <<netVars, placeVars, isolateVars, respondVars>>
  BY <1>4, PolicyStep DEF IInv
<1>5. CASE RespondNext /\ UNCHANGED <<netVars, placeVars, isolateVars, policyVars>>
  BY <1>5, RespondStep DEF IInv
<1>6. CASE UNCHANGED controlVars BY <1>6 DEF controlVars, IInv
<1> QED BY <1>1, <1>2, <1>3, <1>4, <1>5, <1>6 DEF ControlNext

(* The invariant of all components is inductive. *)
THEOREM ControlInvariant == ControlSpec => []IInv
<1>1. ControlInit => IInv BY InitHolds
<1>2. IInv /\ [ControlNext]_controlVars => IInv' BY StepKeeps
<1> QED BY <1>1, <1>2, PTL DEF ControlSpec

(* Interfaces move along the edges of the state graph whatever verbs come, stubs
   too, the machine never moves, and the marks of a reset are right. *)
THEOREM NicsAlongGraph == ControlSpec => NicsFollowGraph
<1>1. IInv => nicState[Machine] = "up" /\ resetting = {n \in NetTargets : nicState[n] = "resetting"}
  BY DEF IInv, NetInv
<1>2. IInv /\ [ControlNext]_controlVars =>
        [\A n \in NetTargets : nicState'[n] # nicState[n] =>
            nicState'[n] \in StateEdges[nicState[n]]]_netVars
  BY StepKeeps DEF AlongEdges
<1> QED BY <1>1, <1>2, ControlInvariant, PTL DEF ControlSpec, NicsFollowGraph

(* For any number of slots and any slices: the counter is the number of slices bound. *)
THEOREM SlotsAlwaysCounted == ControlSpec => []SlotsCounted
<1>1. IInv => SlotsCounted BY DEF IInv, PlaceInv
<1> QED BY <1>1, ControlInvariant, PTL

(* For any subjects and bits: nobody maps what was not granted, and the rights
   nobody may hold are held by nobody. *)
THEOREM RightsAlwaysBounded == ControlSpec => []RightsBounded
<1>1. IInv => RightsBounded BY DEF IInv, IsolateInv
<1> QED BY <1>1, ControlInvariant, PTL

(* For any edits that name a grade once: the two versions of the map differ only
   where a verb is inert. *)
THEOREM MapsAgree == ControlSpec => []ActiveFollowsIntended
<1>1. IInv => ActiveFollowsIntended BY DEF IInv
<1> QED BY <1>1, ControlInvariant, PTL

(* For any voters, boot ids and times that votes carry, and at any moment: a quorum that
   is reported is one of as many voters, each by a vote for this boot id that by its
   own terms is still good at that moment. *)
THEOREM QuorumsReal == ControlSpec => []QuorumIsReal
<1>1. IInv => QuorumIsReal BY TypedQuorumReal DEF IInv
<1> QED BY <1>1, ControlInvariant, PTL
=============================================================================
