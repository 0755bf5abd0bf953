-------------------------- MODULE MemoryLoop_proofs --------------------------
(***************************************************************************)
(* Proofs about MemoryLoop for any number of keys, calls and sessions.     *)
(*                                                                         *)
(* WorkingSetSound is inductive but for the derived keys: a key that       *)
(* enters the lifecycle after the audit log was written must still be      *)
(* outside it, and must be the only one on its way, unless two calls had   *)
(* it under way at once (DerivedFresh, DerivedOnce); and a name that no    *)
(* append made stale is not in the lifecycle (NamedFresh).  SeizureWarned needs to know that a run of equal actions  *)
(* has had its nap, and a recovery under way its warning.                  *)
(***************************************************************************)
EXTENDS MemoryLoop, FiniteSetTheorems, SequenceTheorems, TLAPS

KeysKnown ==
  \A c \in Call :
    /\ rem[c].pc # "none" => rem[c].key \in Key
    /\ call[c].kind = "wraparound" => rem[c].key \in Key
    /\ call[c].kind = "emit" => call[c].key \in Key
    /\ call[c].kind = "recover" =>
         call[c].session \in Session /\ call[c].step # "none"

WorkingFinite == \A s \in Session : IsFiniteSet(working[s])

DerivedFresh ==
  \A c \in Call : Deriving(c) =>
    Pending(c) \in Derivable /\ (phase[Pending(c)] = None \/ Pending(c) \in twins)

DerivedOnce ==
  \A c, d \in Call : c # d /\ Deriving(c) /\ Deriving(d) /\ Pending(c) = Pending(d) =>
    Pending(c) \in twins

NamedFresh ==
  \A k \in Key : named[k] # None => named[k] \in Derivable /\ phase[named[k]] = None

RunWarned == \A s \in Session : stutter[s].run >= 2 => stutter[s].recoveries >= 1

RecoveryWarned ==
  \A c \in Call : call[c].kind = "recover" /\ call[c].step = "seizure" =>
    stutter[call[c].session].recoveries >= 2

WorkingInv == WorkingSetSound /\ WorkingFinite
DerivedInv == DerivedFresh /\ DerivedOnce /\ NamedFresh
WarnedInv == SeizureWarned /\ RunWarned /\ RecoveryWarned

IInv == TypeOK /\ KeysKnown /\ WorkingInv /\ DerivedInv /\ WarnedInv

-----------------------------------------------------------------------------
CallType ==
  [Call -> [kind: {"idle", "impress", "wraparound", "emit", "recover"},
            session: Session \cup {None}, key: Key \cup {None},
            step: {"none", "fridge", "freezer", "seizure"}, todo: Seq(Key)]]

(* What a step does with keys in containment. *)
Contained ==
  \A k \in Key :
    phase[k] = "containment" /\ phase'[k] # "containment" =>
      \/ phase' = [x \in Key |-> None]
      \/ Owner[k] \notin seized /\ phase'[k] \in {"partition", "disintegration"}
      \/ k \in twins /\ phase'[k] = "derivation"

(* Nothing is in the lifecycle at the beginning. *)
LEMMA InitHolds == Init => IInv
<1> SUFFICES ASSUME Init PROVE IInv OBVIOUS
<1> USE LoopAssumption DEF Init, StoreInit, LoopInit
<1>1. << >> \in Seq(Key) /\ Len(<< >>) = 0 OBVIOUS
<1>2. TypeOK /\ KeysKnown
  BY <1>1 DEF TypeOK, StoreTypeOK, KeysKnown, NoRemember, Idle, Awaiting, NoNames
<1>3. WorkingInv
  BY FS_EmptySet DEF WorkingInv, WorkingSetSound, WorkingFinite
<1>4. DerivedInv /\ WarnedInv
  BY DEF DerivedInv, DerivedFresh, DerivedOnce, NamedFresh, NoNames, Deriving, Idle, Awaiting,
         WarnedInv, SeizureWarned, RunWarned, RecoveryWarned
<1> QED BY <1>2, <1>3, <1>4 DEF IInv

(* A key that leaves its place: the set stays finite and within its limit. *)
LEMMA LeaveSound ==
  ASSUME TypeOK, WorkingInv, NEW k \in Key, working' = Leave(k),
         phase' \in [Key -> Phase \cup {None}], twins' = twins,
         \A x \in Key \ {k} : phase'[x] = phase[x]
  PROVE  WorkingInv' /\ working' \in [Session -> SUBSET Key]
<1>1. working' \in [Session -> SUBSET Key]
  BY LoopAssumption DEF Leave, TypeOK
<1>2. ASSUME NEW s \in Session
      PROVE  /\ IsFiniteSet(working'[s]) /\ Cardinality(working'[s]) <= ItemLimit
             /\ \A x \in working'[s] : InPlace(x)' /\ Owner[x] = s
  <2>1. working'[s] \subseteq working[s]
    BY LoopAssumption DEF Leave, TypeOK
  <2>2. IsFiniteSet(working[s]) /\ Cardinality(working[s]) <= ItemLimit
    BY DEF WorkingInv, WorkingSetSound, WorkingFinite
  <2>3. IsFiniteSet(working'[s]) /\ Cardinality(working'[s]) <= Cardinality(working[s])
    BY <2>1, <2>2, FS_Subset
  <2>4. Cardinality(working[s]) \in Nat /\ Cardinality(working'[s]) \in Nat
    BY <2>2, <2>3, FS_CardinalityType
  <2>5. Cardinality(working'[s]) <= ItemLimit
    BY <2>2, <2>3, <2>4, LoopAssumption
  <2>6. ASSUME NEW x \in working'[s] PROVE InPlace(x)' /\ Owner[x] = s
    <3>1. x \in working[s] /\ x \in Key /\ InPlace(x) /\ Owner[x] = s
      BY <2>1 DEF TypeOK, WorkingInv, WorkingSetSound
    <3>2. x # k BY <3>1, LoopAssumption DEF Leave, TypeOK
    <3>3. phase'[x] = phase[x] BY <3>1, <3>2
    <3> QED BY <3>1, <3>3 DEF InPlace
  <2> QED BY <2>3, <2>5, <2>6
<1> QED BY <1>1, <1>2 DEF WorkingInv, WorkingSetSound, WorkingFinite

(* Touching a key lists it once. *)
LEMMA TouchTyped ==
  ASSUME TypeOK, NEW k \in Key, Touch(k)
  PROVE  /\ touched' \in [Session -> Seq(Key)]
         /\ \A s \in Session : \A i, j \in 1..Len(touched'[s]) :
              touched'[s][i] = touched'[s][j] => i = j
<1> DEFINE s0 == Owner[k]
           old == touched[s0]
<1>1. s0 \in Session /\ old \in Seq(Key) BY LoopAssumption DEF TypeOK
<1>2. Touched(s0, k) \in Seq(Key) BY <1>1 DEF Touched
<1>3. \A i, j \in 1..Len(Touched(s0, k)) :
        Touched(s0, k)[i] = Touched(s0, k)[j] => i = j
  <2>1. CASE k \in Goal \/ \E i \in 1..Len(old) : old[i] = k
    BY <1>1, <2>1 DEF Touched, TypeOK
  <2>2. CASE ~(k \in Goal \/ \E i \in 1..Len(old) : old[i] = k)
    <3>1. Touched(s0, k) = Append(old, k) BY <2>2 DEF Touched
    <3>2. Len(Append(old, k)) = Len(old) + 1 /\ Len(old) \in Nat BY <1>1
    <3>3. \A i \in 1..Len(old) : Append(old, k)[i] = old[i] /\ old[i] # k
      BY <1>1, <2>2
    <3>4. Append(old, k)[Len(old) + 1] = k BY <1>1
    <3>5. \A i, j \in 1..Len(old) : old[i] = old[j] => i = j BY <1>1 DEF TypeOK
    <3> HIDE DEF old
    <3> QED BY <3>1, <3>2, <3>3, <3>4, <3>5
  <2> QED BY <2>1, <2>2
<1>4. touched' = [touched EXCEPT ![s0] = Touched(s0, k)] BY DEF Touch
<1> HIDE DEF s0
<1> QED BY <1>1, <1>2, <1>3, <1>4 DEF TypeOK

(* Working sets that are as they were stay sound when every item stays in its place. *)
LEMMA WorkingKept ==
  ASSUME TypeOK, WorkingInv, working' = working,
         \A x \in Key : InPlace(x) => InPlace(x)'
  PROVE  WorkingInv'
BY DEF TypeOK, WorkingInv, WorkingSetSound, WorkingFinite

(* What #append() leaves of the names: none, or those there were if nothing was
   appended. *)
Appended == named' = NoNames \/ UNCHANGED <<named, phase>>

LEMMA AppendedTyped ==
  ASSUME TypeOK, Appended
  PROVE  named' \in [Key -> Derivable \cup {None}]
BY DEF TypeOK, Appended, NoNames

(* No call begins or ends deriving, and no key enters the lifecycle unless its
   callers may express it. *)
LEMMA DerivedKept ==
  ASSUME DerivedInv, Appended, twins' = twins,
         \A c \in Call : Deriving(c)' => Deriving(c) /\ Pending(c)' = Pending(c),
         \A k \in Derivable : phase[k] = None => phase'[k] = None
  PROVE  DerivedInv'
<1>1. DerivedFresh' /\ DerivedOnce' BY DEF DerivedInv, DerivedFresh, DerivedOnce
<1>2. NamedFresh' BY DEF DerivedInv, NamedFresh, Appended, NoNames
<1> QED BY <1>1, <1>2 DEF DerivedInv

(* Nothing is recovered, and nothing was observed. *)
LEMMA WarnedKept ==
  ASSUME WarnedInv, stutter' = stutter, seized' = seized,
         \A c \in Call : call'[c].kind = "recover" =>
           /\ call[c].kind = "recover" /\ call'[c].step = call[c].step
           /\ call'[c].session = call[c].session
  PROVE  WarnedInv'
BY DEF WarnedInv, SeizureWarned, RunWarned, RecoveryWarned

-----------------------------------------------------------------------------
(* Actions that only move a key. *)
LEMMA ExpressKeeps ==
  ASSUME IInv, NEW k \in Key, Express(k)
  PROVE  IInv' /\ Contained
<1> USE DEF Express, Enter
<1>0. Appended BY DEF Appended
<1>1. TypeOK'
  <2>1. phase' \in [Key -> Phase \cup {None}] BY DEF IInv, TypeOK, Phase
  <2> QED BY <1>0, <2>1, TouchTyped, AppendedTyped DEF IInv, TypeOK, StoreTypeOK, storeVars
<1>2. KeysKnown' BY DEF IInv, KeysKnown, storeVars
<1>3. \A x \in Key : InPlace(x) => InPlace(x)'
  BY LoopAssumption DEF IInv, TypeOK, Phase, InPlace
<1>4. WorkingInv' BY <1>3, WorkingKept DEF IInv
<1>5. DerivedInv'
  <2>1. \A x \in Derivable : phase[x] = None => phase'[x] = None
    BY LoopAssumption DEF IInv, TypeOK
  <2>2. \A c \in Call : Deriving(c)' => Deriving(c) /\ Pending(c)' = Pending(c)
    BY DEF Deriving, Pending, storeVars
  <2> QED BY <1>0, <2>1, <2>2, DerivedKept DEF IInv
<1>6. WarnedInv' BY WarnedKept DEF IInv
<1>7. Contained BY LoopAssumption DEF Contained, IInv, TypeOK, Phase
<1> QED BY <1>1, <1>2, <1>4, <1>5, <1>6, <1>7 DEF IInv

(* admit() of a key, into a working set with room. *)
LEMMA AdmitKeeps ==
  ASSUME IInv, NEW k \in Key, Admit(k)
  PROVE  IInv' /\ Contained
<1> USE DEF Admit, Enter
<1>0. Appended BY DEF Appended
<1>1. TypeOK'
  <2>1. phase' \in [Key -> Phase \cup {None}] BY DEF IInv, TypeOK, Phase
  <2>2. working' \in [Session -> SUBSET Key] BY LoopAssumption DEF IInv, TypeOK
  <2> QED BY <1>0, <2>1, <2>2, TouchTyped, AppendedTyped
          DEF IInv, TypeOK, StoreTypeOK, storeVars
<1>2. KeysKnown' BY DEF IInv, KeysKnown, storeVars
<1>3. WorkingInv'
  <2>1. ASSUME NEW s \in Session
        PROVE  /\ IsFiniteSet(working'[s]) /\ Cardinality(working'[s]) <= ItemLimit
               /\ \A x \in working'[s] : InPlace(x)' /\ Owner[x] = s
    <3>1. IsFiniteSet(working[s]) /\ Cardinality(working[s]) <= ItemLimit
      BY DEF IInv, WorkingInv, WorkingSetSound, WorkingFinite
    <3>2. \A x \in working[s] : x \in Key /\ InPlace(x) /\ Owner[x] = s
      BY DEF IInv, TypeOK, WorkingInv, WorkingSetSound
    <3>5. InPlace(k)' /\ \A x \in Key : InPlace(x) => InPlace(x)'
      BY DEF IInv, TypeOK, InPlace
    <3>3. CASE s = Owner[k]
      <4> DEFINE old == working[s]
      <4>1. working'[s] = old \cup {k} BY <3>3 DEF IInv, TypeOK
      <4>2. IsFiniteSet(old) /\ Cardinality(old) < ItemLimit BY <3>1, <3>3 DEF HasRoom
      <4> HIDE DEF old
      <4>3. /\ IsFiniteSet(old \cup {k})
            /\ Cardinality(old \cup {k}) =
                 IF k \in old THEN Cardinality(old) ELSE Cardinality(old) + 1
        BY <4>2, FS_AddElement
      <4>4. Cardinality(old) \in Nat BY <4>2, FS_CardinalityType
      <4>5. Cardinality(working'[s]) <= ItemLimit
        <5>1. ItemLimit \in Nat BY LoopAssumption
        <5>2. Cardinality(old \cup {k}) <= ItemLimit BY <4>2, <4>3, <4>4, <5>1
        <5> QED BY <4>1, <5>2
      <4>6. \A x \in working'[s] : InPlace(x)' /\ Owner[x] = s
        BY <3>2, <3>3, <3>5, <4>1 DEF old
      <4> QED BY <4>1, <4>3, <4>5, <4>6
    <3>4. CASE s # Owner[k]
      <4>1. working'[s] = working[s] BY <3>4, LoopAssumption DEF IInv, TypeOK
      <4> QED BY <3>1, <3>2, <3>5, <4>1
    <3> QED BY <3>3, <3>4
  <2> QED BY <2>1 DEF WorkingInv, WorkingSetSound, WorkingFinite
<1>4. DerivedInv'
  <2>1. \A x \in Derivable : phase[x] = None => phase'[x] = None
    BY LoopAssumption DEF IInv, TypeOK, Phase
  <2>2. \A c \in Call : Deriving(c)' => Deriving(c) /\ Pending(c)' = Pending(c)
    BY DEF Deriving, Pending, storeVars
  <2> QED BY <1>0, <2>1, <2>2, DerivedKept DEF IInv
<1>5. WarnedInv' BY WarnedKept DEF IInv
<1>6. Contained BY LoopAssumption DEF Contained, IInv, TypeOK, Phase
<1> QED BY <1>1, <1>2, <1>3, <1>4, <1>5, <1>6 DEF IInv

(* A synchronous transition of a key between two phases. *)
LEMMA MoveKeeps ==
  ASSUME IInv, NEW k \in Key, NEW to \in Phase, Move(k, to)
  PROVE  IInv' /\ Contained
<1> USE DEF Move, Enter
<1>0. /\ Appended /\ phase' \in [Key -> Phase \cup {None}] /\ phase[k] # None
      /\ \A x \in Key \ {k} : phase'[x] = phase[x]
      /\ phase'[k] = to
  BY LoopAssumption DEF IInv, TypeOK, Phase, MayMove, Allowed, Appended
<1>1. WorkingInv' /\ working' \in [Session -> SUBSET Key]
  BY <1>0, LeaveSound DEF IInv
<1>2. TypeOK' BY <1>0, <1>1, AppendedTyped DEF IInv, TypeOK, StoreTypeOK, storeVars
<1>3. KeysKnown' BY DEF IInv, KeysKnown, storeVars
<1>4. DerivedInv'
  <2>1. \A x \in Derivable : phase[x] = None => phase'[x] = None
    BY <1>0, LoopAssumption
  <2>2. \A c \in Call : Deriving(c)' => Deriving(c) /\ Pending(c)' = Pending(c)
    BY DEF Deriving, Pending, storeVars
  <2> QED BY <1>0, <2>1, <2>2, DerivedKept DEF IInv
<1>5. WarnedInv' BY WarnedKept DEF IInv
<1>6. Contained BY <1>0 DEF Contained, MayMove, Awake, Allowed
<1> QED BY <1>1, <1>2, <1>3, <1>4, <1>5, <1>6 DEF IInv

(* disintegrate() that throws after the key has left the working set. *)
LEMMA DisintegrateThrowsKeeps ==
  ASSUME IInv, NEW k \in Key, DisintegrateThrows(k)
  PROVE  IInv' /\ Contained
<1> USE DEF DisintegrateThrows
<1>1. WorkingInv' /\ working' \in [Session -> SUBSET Key]
  BY LeaveSound DEF IInv, TypeOK
<1>2. TypeOK' BY <1>1 DEF IInv, TypeOK, StoreTypeOK, storeVars
<1>3. KeysKnown' BY DEF IInv, KeysKnown, storeVars
<1>4. DerivedInv' BY DerivedKept DEF IInv, Deriving, Pending, storeVars, Appended
<1>5. WarnedInv' BY WarnedKept DEF IInv
<1>6. Contained BY DEF Contained
<1> QED BY <1>1, <1>2, <1>3, <1>4, <1>5, <1>6 DEF IInv

-----------------------------------------------------------------------------
(* Actions of calls that await the store or the audit log. *)
LEMMA ImpressKeeps ==
  ASSUME IInv, NEW c \in Call, NEW k \in Key, Impress(c, k)
  PROVE  IInv' /\ Contained
<1> USE DEF Impress, ImpressStart, Remember
<1>0. /\ call[c].kind = "idle" /\ call[c].kind # "recover" /\ ~Deriving(c)
      /\ call'[c].kind = "impress" /\ ~Deriving(c)'
      /\ \A d \in Call \ {c} : call'[d] = call[d] /\ rem'[d] = rem[d]
  BY DEF IInv, TypeOK, StoreTypeOK, Deriving, Idle, Awaiting
<1>1. TypeOK'
  <2>1. << >> \in Seq(Key) OBVIOUS
  <2>2. call' \in CallType
    BY <2>1 DEF CallType, IInv, TypeOK, Idle, Awaiting
  <2>3. StoreTypeOK' BY DEF IInv, TypeOK, StoreTypeOK
  <2> QED BY <2>2, <2>3 DEF IInv, TypeOK, CallType
<1>2. KeysKnown' BY <1>0 DEF IInv, KeysKnown, TypeOK, StoreTypeOK
<1>3. WorkingInv' BY WorkingKept DEF IInv, InPlace
<1>4. DerivedInv' BY <1>0, DerivedKept DEF IInv, Deriving, Pending, Appended
<1>5. WarnedInv' BY <1>0, WarnedKept DEF IInv
<1>6. Contained BY DEF Contained
<1> QED BY <1>1, <1>2, <1>3, <1>4, <1>5, <1>6 DEF IInv

(* The read of the branch reference in remember(). *)
LEMMA ReadRefKeeps ==
  ASSUME IInv, NEW c \in Call, ReadRef(c), UNCHANGED loopVars
  PROVE  IInv' /\ Contained
<1> USE DEF ReadRef, loopVars
<1>0. \A d \in Call : rem'[d].key = rem[d].key /\ (rem'[d].pc # "none" => rem[d].pc # "none")
  BY DEF IInv, TypeOK, StoreTypeOK
<1>1. TypeOK'
  <2>1. StoreTypeOK' BY DEF IInv, TypeOK, StoreTypeOK
  <2> QED BY <2>1 DEF IInv, TypeOK
<1>2. KeysKnown' BY <1>0 DEF IInv, KeysKnown
<1>3. WorkingInv' BY WorkingKept DEF IInv, InPlace
<1>4. DerivedInv' BY <1>0, DerivedKept DEF IInv, Deriving, Pending, Appended
<1>5. WarnedInv' BY WarnedKept DEF IInv
<1>6. Contained BY DEF Contained
<1> QED BY <1>1, <1>2, <1>3, <1>4, <1>5, <1>6 DEF IInv

(* The end of impress(): the reference is replaced, the key integrated. *)
LEMMA ImpressedKeeps ==
  ASSUME IInv, NEW c \in Call, Impressed(c)
  PROVE  IInv' /\ Contained
<1> DEFINE k == rem[c].key
<1>0. /\ k \in Key /\ rem[c].pc = "read" /\ call[c].kind = "impress" /\ ~Deriving(c)
      /\ rem' = [rem EXCEPT ![c] = NoRemember] /\ call' = [call EXCEPT ![c] = Idle]
      /\ head' = rem[c].root \cup {k} /\ UNCHANGED <<stutter, seized, twins>>
      /\ working' = Leave(k) /\ Touch(k)
      /\ phase' = IF MayMove(k, "integration")
                  THEN [phase EXCEPT ![k] = "integration"] ELSE phase
      /\ Appended
  BY DEF Impressed, WriteRef, ImpressEnd, Enter, Appended, IInv, KeysKnown, Deriving
<1> HIDE DEF k
<1>1. /\ call'[c].kind = "idle" /\ ~Deriving(c)'
      /\ \A d \in Call \ {c} : call'[d] = call[d] /\ rem'[d] = rem[d]
      /\ rem'[c].pc = "none"
  BY <1>0 DEF IInv, TypeOK, StoreTypeOK, Deriving, Idle, Awaiting, NoRemember
<1>2. /\ phase' \in [Key -> Phase \cup {None}]
      /\ \A x \in Key \ {k} : phase'[x] = phase[x]
      /\ phase[k] = None => phase'[k] = None
      /\ phase[k] = "containment" => phase'[k] = "containment"
  BY <1>0, LoopAssumption DEF IInv, TypeOK, Phase, MayMove, Allowed
<1>3. WorkingInv' /\ working' \in [Session -> SUBSET Key]
  BY <1>0, <1>2, LeaveSound DEF IInv
<1>4. TypeOK'
  <2>1. << >> \in Seq(Key) OBVIOUS
  <2>2. call' \in CallType
    BY <1>0, <2>1 DEF CallType, IInv, TypeOK, Idle, Awaiting
  <2>3. StoreTypeOK'
    BY <1>0 DEF IInv, TypeOK, StoreTypeOK, NoRemember
  <2>4. /\ touched' \in [Session -> Seq(Key)]
        /\ \A s \in Session : \A i, j \in 1..Len(touched'[s]) :
             touched'[s][i] = touched'[s][j] => i = j
    BY <1>0, TouchTyped DEF IInv
  <2>5. /\ stutter' \in [Session -> [run: 0..5, recoveries: 0..2]] /\ seized' \subseteq Session
        /\ named' \in [Key -> Derivable \cup {None}] /\ twins' \subseteq Derivable
    BY <1>0, AppendedTyped DEF IInv, TypeOK
  <2> QED BY <1>2, <1>3, <2>2, <2>3, <2>4, <2>5 DEF TypeOK, CallType
<1>5. KeysKnown' BY <1>0, <1>1 DEF IInv, KeysKnown
<1>6. DerivedInv'
  <2>1. \A x \in Derivable : phase[x] = None => phase'[x] = None
    BY <1>2, LoopAssumption
  <2>2. \A d \in Call : Deriving(d)' => Deriving(d) /\ Pending(d)' = Pending(d)
    BY <1>1 DEF Deriving, Pending
  <2> QED BY <1>0, <2>1, <2>2, DerivedKept DEF IInv
<1>7. WarnedInv' BY <1>0, <1>1, WarnedKept DEF IInv
<1>8. Contained BY <1>2 DEF Contained
<1> QED BY <1>3, <1>4, <1>5, <1>6, <1>7, <1>8 DEF IInv

(* A file operation of remember() fails, and with it the call. *)
LEMMA StoreFailsKeeps ==
  ASSUME IInv, NEW c \in Call, StoreFails(c)
  PROVE  IInv' /\ Contained
<1> USE DEF StoreFails, RememberFails
<1>1. /\ call'[c].kind = "idle" /\ ~Deriving(c)'
      /\ \A d \in Call \ {c} : call'[d] = call[d] /\ rem'[d] = rem[d]
      /\ rem'[c].pc = "none"
  BY DEF IInv, TypeOK, StoreTypeOK, Deriving, Idle, Awaiting, NoRemember
<1>2. TypeOK'
  <2>1. << >> \in Seq(Key) OBVIOUS
  <2>2. call' \in CallType
    BY <2>1 DEF CallType, IInv, TypeOK, Idle, Awaiting
  <2>3. StoreTypeOK' BY DEF IInv, TypeOK, StoreTypeOK, NoRemember
  <2> QED BY <2>2, <2>3 DEF IInv, TypeOK, CallType
<1>3. KeysKnown' BY <1>1 DEF IInv, KeysKnown
<1>4. WorkingInv' BY WorkingKept DEF IInv, InPlace
<1>5. DerivedInv' BY <1>1, DerivedKept DEF IInv, Deriving, Pending, Appended
<1>6. WarnedInv' BY <1>1, WarnedKept DEF IInv
<1>7. Contained BY DEF Contained
<1> QED BY <1>2, <1>3, <1>4, <1>5, <1>6, <1>7 DEF IInv

(* The derived key is not in the lifecycle; if another call has it under way, it is
   one of the twins from now on. *)
LEMMA WraparoundKeeps ==
  ASSUME IInv, NEW c \in Call, NEW k \in Key, NEW derived \in Key, Wraparound(c, k, derived)
  PROVE  IInv' /\ Contained
<1> USE DEF Wraparound, Remember
<1>1. /\ call'[c] = Awaiting("wraparound", k)
      /\ rem'[c] = [pc |-> "init", key |-> derived, root |-> {}]
      /\ \A d \in Call \ {c} : call'[d] = call[d] /\ rem'[d] = rem[d]
  BY DEF IInv, TypeOK, StoreTypeOK
<1>2. /\ derived \in Derivable /\ phase[derived] = None /\ derived # None
      /\ twins \subseteq twins' /\ twins' \subseteq twins \cup {derived}
      /\ \A d \in Call : Deriving(d) /\ Pending(d) = derived => derived \in twins'
  BY LoopAssumption DEF IInv, DerivedInv, NamedFresh, NewName
<1>3. TypeOK'
  <2>1. << >> \in Seq(Key) OBVIOUS
  <2>2. call' \in CallType BY <2>1 DEF CallType, IInv, TypeOK, Awaiting
  <2>3. StoreTypeOK' BY DEF IInv, TypeOK, StoreTypeOK
  <2>4. named' \in [Key -> Derivable \cup {None}] BY DEF IInv, TypeOK
  <2>5. twins' \subseteq Derivable BY <1>2 DEF IInv, TypeOK
  <2> QED BY <2>2, <2>3, <2>4, <2>5 DEF IInv, TypeOK, CallType
<1>4. KeysKnown' BY <1>1 DEF IInv, KeysKnown, Awaiting
<1>5. WorkingInv'
  <2>1. \A x \in Key : InPlace(x) => InPlace(x)' BY <1>2 DEF InPlace
  <2> QED BY <2>1, WorkingKept DEF IInv
<1>6. DerivedInv'
  <2>1. Pending(c)' = derived BY <1>1 DEF Pending, Awaiting
  <2>2. ~Deriving(c) BY DEF Deriving
  <2>3. \A d \in Call \ {c} : Deriving(d)' = Deriving(d) /\ Pending(d)' = Pending(d)
    BY <1>1 DEF Deriving, Pending
  <2>4. DerivedFresh' BY <1>2, <2>1, <2>3 DEF IInv, DerivedInv, DerivedFresh
  <2>5. DerivedOnce' BY <1>2, <2>1, <2>2, <2>3 DEF IInv, DerivedInv, DerivedOnce
  <2>6. NamedFresh' BY <1>2 DEF IInv, TypeOK, DerivedInv, NamedFresh
  <2> QED BY <2>4, <2>5, <2>6 DEF DerivedInv
<1>7. WarnedInv' BY <1>1, WarnedKept DEF IInv, Awaiting
<1>8. Contained BY DEF Contained
<1> QED BY <1>3, <1>4, <1>5, <1>6, <1>7, <1>8 DEF IInv

(* wraparound() has written the derived key and appends to the audit log. *)
LEMMA DerivedKeeps ==
  ASSUME IInv, NEW c \in Call, Derived(c)
  PROVE  IInv' /\ Contained
<1> USE DEF Derived, WriteRef
<1>0. rem[c].key \in Key BY DEF IInv, KeysKnown
<1>1. /\ call'[c] = Awaiting("emit", rem[c].key)
      /\ rem'[c] = NoRemember
      /\ \A d \in Call \ {c} : call'[d] = call[d] /\ rem'[d] = rem[d]
  BY DEF IInv, TypeOK, StoreTypeOK
<1>2. TypeOK'
  <2>1. << >> \in Seq(Key) OBVIOUS
  <2>2. call' \in CallType BY <1>0, <2>1 DEF CallType, IInv, TypeOK, Awaiting
  <2>3. StoreTypeOK' BY <1>0 DEF IInv, TypeOK, StoreTypeOK, NoRemember
  <2> QED BY <2>2, <2>3 DEF IInv, TypeOK, CallType, NoNames
<1>3. KeysKnown' BY <1>0, <1>1 DEF IInv, KeysKnown, Awaiting, NoRemember
<1>4. WorkingInv' BY WorkingKept DEF IInv, InPlace
<1>5. DerivedInv'
  <2>1. \A d \in Call : Deriving(d)' => Deriving(d) /\ Pending(d)' = Pending(d)
    BY <1>1 DEF Deriving, Pending, Awaiting
  <2> QED BY <2>1, DerivedKept DEF IInv, Appended
<1>6. WarnedInv' BY <1>1, WarnedKept DEF IInv, Awaiting
<1>7. Contained BY DEF Contained
<1> QED BY <1>2, <1>3, <1>4, <1>5, <1>6, <1>7 DEF IInv

(* The derived key enters the lifecycle: nothing moved it and nothing else derives it,
   or it is one of the twins. *)
LEMMA EmittedKeeps ==
  ASSUME IInv, NEW c \in Call, Emitted(c)
  PROVE  IInv' /\ Contained
<1> DEFINE k == call[c].key
<1>0. /\ k \in Key /\ k \in Derivable /\ Deriving(c) /\ Pending(c) = k
      /\ phase[k] = None \/ k \in twins
      /\ phase' = [phase EXCEPT ![k] = "derivation"] /\ call' = [call EXCEPT ![c] = Idle]
      /\ named' = NoNames
      /\ UNCHANGED <<head, rem, working, touched, stutter, seized, twins>>
  BY DEF Emitted, Enter, IInv, KeysKnown, DerivedInv, DerivedFresh, Deriving, Pending, storeVars
<1> HIDE DEF k
<1>1. /\ call'[c].kind = "idle"
      /\ \A d \in Call \ {c} : call'[d] = call[d]
  BY <1>0 DEF IInv, TypeOK, Idle, Awaiting
<1>2. /\ phase' \in [Key -> Phase \cup {None}]
      /\ \A x \in Key \ {k} : phase'[x] = phase[x]
      /\ phase'[k] = "derivation"
  BY <1>0, LoopAssumption DEF IInv, TypeOK, Phase
<1>3. TypeOK'
  <2>1. << >> \in Seq(Key) OBVIOUS
  <2>2. call' \in CallType BY <1>0, <2>1 DEF CallType, IInv, TypeOK, Idle, Awaiting
  <2> QED BY <1>0, <1>2, <2>2 DEF IInv, TypeOK, StoreTypeOK, CallType, NoNames
<1>4. KeysKnown' BY <1>0, <1>1 DEF IInv, KeysKnown
<1>5. WorkingInv'
  <2>1. \A x \in Key : InPlace(x) => InPlace(x)'
    BY <1>0, <1>2, LoopAssumption DEF InPlace, Phase
  <2> QED BY <1>0, <2>1, WorkingKept DEF IInv
<1>6. DerivedInv'
  <2>1. \A d \in Call : Deriving(d)' =>
          d # c /\ Deriving(d) /\ Pending(d)' = Pending(d) /\ (Pending(d) = k => k \in twins)
    <3>1. ASSUME NEW d \in Call, Deriving(d)' PROVE d # c /\ Deriving(d) /\ Pending(d)' = Pending(d)
      BY <1>0, <1>1, <3>1 DEF Deriving, Pending
    <3> QED BY <1>0, <3>1 DEF IInv, DerivedInv, DerivedOnce
  <2>2. ASSUME NEW d \in Call, Deriving(d)'
        PROVE  Pending(d)' \in Derivable /\ (phase'[Pending(d)'] = None \/ Pending(d)' \in twins')
    <3>1. /\ Pending(d) \in Derivable /\ Pending(d) \in Key
          /\ phase[Pending(d)] = None \/ Pending(d) \in twins
      BY <2>1, <2>2, LoopAssumption DEF IInv, DerivedInv, DerivedFresh
    <3> QED BY <1>0, <1>2, <2>1, <2>2, <3>1
  <2>3. DerivedFresh' BY <2>2 DEF DerivedFresh
  <2>4. DerivedOnce' BY <1>0, <2>1 DEF IInv, DerivedInv, DerivedOnce
  <2>5. NamedFresh' BY <1>0 DEF NamedFresh, NoNames
  <2> QED BY <2>3, <2>4, <2>5 DEF DerivedInv
<1>7. WarnedInv' BY <1>0, <1>1, WarnedKept DEF IInv
<1>8. Contained
  <2>1. ASSUME NEW x \in Key, phase[x] = "containment", phase'[x] # "containment"
        PROVE  x \in twins /\ phase'[x] = "derivation"
    <3>1. x = k BY <1>2, <2>1
    <3>2. phase[k] # None BY <2>1, <3>1, LoopAssumption DEF Phase
    <3> QED BY <1>0, <1>2, <3>1, <3>2
  <2> QED BY <2>1 DEF Contained
<1> QED BY <1>3, <1>4, <1>5, <1>6, <1>7, <1>8 DEF IInv

(* The audit log cannot be written: the call ends there. *)
LEMMA LogFailsKeeps ==
  ASSUME IInv, NEW c \in Call, LogFails(c)
  PROVE  IInv' /\ Contained
<1> USE DEF LogFails, storeVars
<1>1. /\ call'[c].kind = "idle"
      /\ \A d \in Call \ {c} : call'[d] = call[d]
  BY DEF IInv, TypeOK, Idle, Awaiting
<1>2. TypeOK'
  <2>1. << >> \in Seq(Key) OBVIOUS
  <2>2. call' \in CallType BY <2>1 DEF CallType, IInv, TypeOK, Idle, Awaiting
  <2> QED BY <2>2 DEF IInv, TypeOK, StoreTypeOK, CallType
<1>3. KeysKnown' BY <1>1 DEF IInv, KeysKnown
<1>4. WorkingInv' BY WorkingKept DEF IInv, InPlace
<1>5. DerivedInv'
  <2>1. \A d \in Call : Deriving(d)' => Deriving(d) /\ Pending(d)' = Pending(d)
    BY <1>1 DEF Deriving, Pending
  <2> QED BY <2>1, DerivedKept DEF IInv, Appended
<1>6. WarnedInv' BY <1>1, WarnedKept DEF IInv
<1>7. Contained BY DEF Contained
<1> QED BY <1>2, <1>3, <1>4, <1>5, <1>6, <1>7 DEF IInv

-----------------------------------------------------------------------------
(* What a recovery does up to its next await. *)
Recovered(c, s, step) ==
  /\ phase' \in [Key -> Phase \cup {None}]
  /\ call' \in CallType
  /\ Appended
  /\ \A k \in Key : phase[k] = None => phase'[k] = None
  /\ \A d \in Call \ {c} : call'[d] = call[d]
  /\ \/ call'[c].kind = "idle"
     \/ call'[c].kind = "recover" /\ call'[c].session = s /\ call'[c].step = step
  /\ seized' = seized \/ (step = "seizure" /\ seized' = seized \cup {s})

(* One transition of one key in the loop of applyRecovery(). *)
LEMMA RecoverKeyKeeps ==
  ASSUME IInv, NEW c \in Call, NEW s \in Session, NEW step \in {"fridge", "freezer", "seizure"},
         NEW k \in Key, NEW rest \in Seq(Key), RecoverKey(c, s, step, k, rest), twins' = twins
  PROVE  /\ Recovered(c, s, step) /\ Contained
         /\ WorkingInv' /\ working' \in [Session -> SUBSET Key]
<1> DEFINE to == IF phase[k] = "partition" THEN "containment" ELSE "partition"
           half == step # "fridge" /\ to = "partition"
<1>1. /\ working' = Leave(k) /\ seized' = seized
      /\ IF MayMoveDirect(k, to)
         THEN /\ phase' = [phase EXCEPT ![k] = to]
              /\ call' = [call EXCEPT ![c] =
                   [kind |-> "recover", session |-> s, step |-> step,
                    key |-> IF half THEN k ELSE None, todo |-> rest]]
         ELSE phase' = phase /\ call' = [call EXCEPT ![c] = Idle]
      /\ Appended
  BY DEF RecoverKey, Enter, Appended
<1>2. to \in {"containment", "partition"} OBVIOUS
<1> HIDE DEF to, half
<1>3. /\ phase' \in [Key -> Phase \cup {None}]
      /\ \A x \in Key \ {k} : phase'[x] = phase[x]
      /\ phase[k] = None => phase'[k] = None
  BY <1>1, <1>2, LoopAssumption
  DEF IInv, TypeOK, Phase, MayMoveDirect, Allowed
<1>4. call' \in CallType
  <2>1. << >> \in Seq(Key) OBVIOUS
  <2> DEFINE key == IF half THEN k ELSE None
             on == [kind |-> "recover", session |-> s, step |-> step, key |-> key,
                    todo |-> rest]
  <2>2. key \in Key \cup {None} OBVIOUS
  <2>3. call' = [call EXCEPT ![c] = on] \/ call' = [call EXCEPT ![c] = Idle] BY <1>1
  <2> HIDE DEF key
  <2>4. call \in CallType BY DEF IInv, TypeOK, CallType
  <2>5. CASE call' = [call EXCEPT ![c] = on] BY <2>2, <2>4, <2>5 DEF CallType
  <2>6. CASE call' = [call EXCEPT ![c] = Idle]
    BY <2>1, <2>4, <2>6 DEF CallType, Idle, Awaiting
  <2> QED BY <2>3, <2>5, <2>6
<1>5. /\ \A d \in Call \ {c} : call'[d] = call[d]
      /\ \/ call'[c].kind = "idle"
         \/ call'[c].kind = "recover" /\ call'[c].session = s /\ call'[c].step = step
  BY <1>1 DEF IInv, TypeOK, Idle, Awaiting
<1>6. Contained
  BY <1>1, <1>2, <1>3 DEF Contained, MayMoveDirect, Awake, Allowed, IInv, TypeOK
<1>7. WorkingInv' /\ working' \in [Session -> SUBSET Key]
  BY <1>1, <1>3, LeaveSound DEF IInv
<1> QED BY <1>1, <1>3, <1>4, <1>5, <1>6, <1>7 DEF Recovered

(* The loop of applyRecovery() up to its next await or its end. *)
LEMMA RecoverKeeps ==
  ASSUME IInv, NEW c \in Call, NEW s \in Session, NEW step \in {"fridge", "freezer", "seizure"},
         NEW todo \in Seq(Key), Recover(c, s, step, todo), twins' = twins
  PROVE  /\ Recovered(c, s, step) /\ Contained
         /\ WorkingInv' /\ working' \in [Session -> SUBSET Key]
<1> DEFINE at == {i \in 1..Len(todo) : Needs(step, todo[i])}
<1>1. CASE /\ at = {}
           /\ seized' = IF step = "seizure" THEN seized \cup {s} ELSE seized
           /\ call' = [call EXCEPT ![c] = Idle]
           /\ UNCHANGED <<phase, working, named>>
  <2>1. << >> \in Seq(Key) OBVIOUS
  <2>2. call' \in CallType BY <1>1, <2>1 DEF IInv, TypeOK, CallType, Idle, Awaiting
  <2>3. /\ call'[c].kind = "idle"
        /\ \A d \in Call \ {c} : call'[d] = call[d]
    BY <1>1 DEF IInv, TypeOK, Idle, Awaiting
  <2>4. Contained BY <1>1 DEF Contained
  <2>5. WorkingInv' BY <1>1, WorkingKept DEF IInv, InPlace
  <2> QED BY <1>1, <2>2, <2>3, <2>4, <2>5 DEF Recovered, Appended, IInv, TypeOK
<1>2. CASE \E i \in at : RecoverKey(c, s, step, todo[i], SubSeq(todo, i + 1, Len(todo)))
  <2>1. PICK i \in at : RecoverKey(c, s, step, todo[i], SubSeq(todo, i + 1, Len(todo)))
    BY <1>2
  <2>2. i \in 1..Len(todo) /\ todo[i] \in Key OBVIOUS
  <2>3. SubSeq(todo, i + 1, Len(todo)) \in Seq(Key) BY <2>2, SubSeqProperties
  <2> QED BY <2>1, <2>2, <2>3, RecoverKeyKeeps
<1> QED BY <1>1, <1>2 DEF Recover

(* A recovery keeps the invariant when what it may seize was warned. *)
LEMMA RecoveryKeeps ==
  ASSUME IInv, NEW c \in Call, NEW s \in Session, NEW step \in {"fridge", "freezer", "seizure"},
         Recovered(c, s, step), ~Deriving(c),
         WorkingInv', working' \in [Session -> SUBSET Key],
         stutter' \in [Session -> [run: 0..5, recoveries: 0..2]], RunWarned',
         UNCHANGED <<storeVars, touched, twins>>,
         \A x \in Session : stutter[x].recoveries >= 2 => stutter'[x].recoveries >= 2,
         step = "seizure" => stutter'[s].recoveries >= 2
  PROVE  IInv'
<1> USE DEF Recovered
<1>1. seized' \subseteq Session BY DEF IInv, TypeOK
<1>2. TypeOK' BY <1>1, AppendedTyped DEF IInv, TypeOK, StoreTypeOK, storeVars, CallType
<1>3. KeysKnown' BY DEF IInv, KeysKnown, storeVars
<1>4. DerivedInv'
  <2>1. \A d \in Call : Deriving(d)' => Deriving(d) /\ Pending(d)' = Pending(d)
    BY DEF Deriving, Pending, storeVars
  <2>2. \A x \in Derivable : phase[x] = None => phase'[x] = None BY LoopAssumption
  <2> QED BY <2>1, <2>2, DerivedKept DEF IInv
<1>5. SeizureWarned' BY DEF IInv, TypeOK, WarnedInv, SeizureWarned
<1>6. RecoveryWarned'
  BY DEF IInv, KeysKnown, WarnedInv, RecoveryWarned
<1> QED BY <1>2, <1>3, <1>4, <1>5, <1>6 DEF IInv, WarnedInv

(* The counters of a session after an action: a session that repeats itself, or
   has a cycle, was warned before it comes to the last rung. *)
LEMMA ObserveKeeps ==
  ASSUME IInv, NEW c \in Call, NEW s \in Session, NEW same \in BOOLEAN, NEW cycle \in BOOLEAN,
         ObserveAction(c, s, same, cycle)
  PROVE  IInv' /\ Contained
<1> DEFINE run == IF same THEN stutter[s].run + 1 ELSE 1
           old == stutter[s].recoveries
           step == LadderStep(run, old, cycle)
           now == IF step = "none" \/ s \in seized THEN old ELSE old + 1
           capped(n, max) == IF n > max THEN max ELSE n
<1>1. /\ call[c].kind = "idle"
      /\ same => stutter[s].run > 0
      /\ stutter' = [stutter EXCEPT ![s] = [run |-> capped(run, 5), recoveries |-> capped(now, 2)]]
      /\ IF s \in seized \/ step \in {"none", "nap"}
         THEN UNCHANGED <<phase, working, seized, named, call>>
         ELSE Recover(c, s, step, touched[s])
      /\ UNCHANGED <<storeVars, touched, twins>>
  BY DEF ObserveAction
<1>2. /\ old \in 0..2 /\ stutter[s].run \in 0..5 /\ run \in 1..6
      /\ stutter[s].run >= 2 => old >= 1
      /\ s \in seized => old = 2
  BY DEF IInv, TypeOK, WarnedInv, RunWarned, SeizureWarned
<1>3. /\ step \in {"none", "nap", "fridge", "freezer", "seizure"}
      /\ step = "none" => run = 1
      /\ step = "seizure" => old >= 1
  <2>1. run >= 5 => old >= 1 BY <1>2
  <2> HIDE DEF run, old
  <2> QED BY <1>2, <2>1 DEF LadderStep
<1> HIDE DEF run, old, step
<1>4. now \in 0..3 /\ now >= old /\ (run >= 2 => now >= 1)
  BY <1>2, <1>3
<1>5. step = "seizure" => s \in seized \/ now >= 2 BY <1>2, <1>3
<1> HIDE DEF now
<1>6. capped(run, 5) \in 0..5 /\ capped(now, 2) \in 0..2
      /\ (capped(run, 5) >= 2 => capped(now, 2) >= 1)
      /\ (old >= 2 => capped(now, 2) >= 2)
      /\ (now >= 2 => capped(now, 2) >= 2)
  BY <1>2, <1>4
<1> HIDE DEF capped
<1>7. stutter' \in [Session -> [run: 0..5, recoveries: 0..2]]
  BY <1>1, <1>6 DEF IInv, TypeOK
<1>8. /\ stutter'[s] = [run |-> capped(run, 5), recoveries |-> capped(now, 2)]
      /\ \A x \in Session \ {s} : stutter'[x] = stutter[x]
  BY <1>1 DEF IInv, TypeOK
<1>9. RunWarned' BY <1>6, <1>8 DEF IInv, WarnedInv, RunWarned
<1>10. \A x \in Session : stutter[x].recoveries >= 2 => stutter'[x].recoveries >= 2
  BY <1>6, <1>8 DEF old
<1>11. ~Deriving(c) BY <1>1 DEF Deriving
<1>12. CASE s \in seized \/ step \in {"none", "nap"}
  <2>1. UNCHANGED <<phase, working, seized, named, call>> BY <1>1, <1>12
  <2>2. TypeOK' BY <1>1, <1>7, <2>1 DEF IInv, TypeOK, StoreTypeOK, storeVars
  <2>3. KeysKnown' BY <1>1, <2>1 DEF IInv, KeysKnown, storeVars
  <2>4. WorkingInv' BY <1>1, <2>1, WorkingKept DEF IInv, InPlace
  <2>5. DerivedInv' BY <1>1, <2>1, DerivedKept DEF IInv, Deriving, Pending, storeVars, Appended
  <2>6. SeizureWarned' /\ RecoveryWarned'
    BY <1>10, <2>1 DEF IInv, TypeOK, KeysKnown, WarnedInv, SeizureWarned, RecoveryWarned
  <2>7. Contained BY <2>1 DEF Contained
  <2> QED BY <1>9, <2>2, <2>3, <2>4, <2>5, <2>6, <2>7 DEF IInv, WarnedInv
<1>13. CASE ~(s \in seized \/ step \in {"none", "nap"})
  <2>1. step \in {"fridge", "freezer", "seizure"} BY <1>3, <1>13
  <2>2. Recover(c, s, step, touched[s]) /\ touched[s] \in Seq(Key)
    BY <1>1, <1>13 DEF IInv, TypeOK
  <2>3. /\ Recovered(c, s, step) /\ Contained
        /\ WorkingInv' /\ working' \in [Session -> SUBSET Key]
    BY <1>1, <2>1, <2>2, RecoverKeeps
  <2>4. step = "seizure" => stutter'[s].recoveries >= 2
    BY <1>5, <1>6, <1>8, <1>13
  <2>5. UNCHANGED <<storeVars, touched, twins>> BY <1>1
  <2> QED BY <1>7, <1>9, <1>10, <1>11, <2>1, <2>3, <2>4, <2>5, RecoveryKeeps
<1> QED BY <1>12, <1>13

(* applyRecovery() goes on after an await. *)
LEMMA RecoveryGoesOnKeeps ==
  ASSUME IInv, NEW c \in Call, RecoveryGoesOn(c)
  PROVE  IInv' /\ Contained
<1> DEFINE s == call[c].session
           step == call[c].step
           k == call[c].key
           todo == call[c].todo
<1>1. /\ call[c].kind = "recover" /\ ~Deriving(c)
      /\ s \in Session /\ step \in {"fridge", "freezer", "seizure"} /\ todo \in Seq(Key)
      /\ k \in Key \cup {None}
      /\ step = "seizure" => stutter[s].recoveries >= 2
      /\ UNCHANGED <<storeVars, touched, stutter, twins>>
  BY DEF RecoveryGoesOn, IInv, TypeOK, KeysKnown, WarnedInv, RecoveryWarned, Deriving
<1>2. CASE k = None
  <2>1. Recover(c, s, step, todo) BY <1>2 DEF RecoveryGoesOn
  <2> HIDE DEF s, step, k, todo
  <2>2. /\ Recovered(c, s, step) /\ Contained
        /\ WorkingInv' /\ working' \in [Session -> SUBSET Key]
    BY <1>1, <2>1, RecoverKeeps
  <2>3. RunWarned' BY <1>1 DEF IInv, WarnedInv, RunWarned
  <2>4. stutter' \in [Session -> [run: 0..5, recoveries: 0..2]] BY <1>1 DEF IInv, TypeOK
  <2> QED BY <1>1, <2>2, <2>3, <2>4, RecoveryKeeps
<1>3. CASE k # None
  <2> DEFINE on == [kind |-> "recover", session |-> s, step |-> step, key |-> None, todo |-> todo]
  <2>1. /\ UNCHANGED <<working, seized>>
        /\ IF MayMove(k, "containment")
           THEN /\ phase' = [phase EXCEPT ![k] = "containment"]
                /\ call' = [call EXCEPT ![c] = on]
           ELSE phase' = phase /\ call' = [call EXCEPT ![c] = Idle]
        /\ Appended
    BY <1>3 DEF RecoveryGoesOn, Enter, Appended
  <2> HIDE DEF s, step, k, todo
  <2>2. k \in Key BY <1>1, <1>3
  <2>3. /\ phase' \in [Key -> Phase \cup {None}]
        /\ \A x \in Key \ {k} : phase'[x] = phase[x]
        /\ phase[k] = None => phase'[k] = None
        /\ phase[k] # "partition" => phase'[k] = phase[k]
    BY <2>1, <2>2, LoopAssumption DEF IInv, TypeOK, Phase, MayMove, Allowed
  <2>4. WorkingInv' /\ working' \in [Session -> SUBSET Key]
    <3>1. \A x \in Key : InPlace(x) => InPlace(x)' BY <1>1, <2>3 DEF InPlace
    <3> QED BY <2>1, <3>1, WorkingKept DEF IInv, TypeOK
  <2>5. call \in CallType BY DEF IInv, TypeOK, CallType
  <2>6. call' \in CallType
    <3>1. << >> \in Seq(Key) OBVIOUS
    <3>2. CASE call' = [call EXCEPT ![c] = on] BY <1>1, <2>5, <3>2 DEF CallType
    <3>3. CASE call' = [call EXCEPT ![c] = Idle]
      BY <2>5, <3>1, <3>3 DEF CallType, Idle, Awaiting
    <3> QED BY <2>1, <3>2, <3>3
  <2>7. /\ \A d \in Call \ {c} : call'[d] = call[d]
        /\ \/ call'[c].kind = "idle"
           \/ call'[c].kind = "recover" /\ call'[c].session = s /\ call'[c].step = step
    BY <2>1, <2>5 DEF CallType, Idle, Awaiting
  <2>8. Recovered(c, s, step)
    BY <2>1, <2>2, <2>3, <2>6, <2>7 DEF Recovered
  <2>9. Contained BY <2>3 DEF Contained
  <2>10. RunWarned' BY <1>1 DEF IInv, WarnedInv, RunWarned
  <2>11. stutter' \in [Session -> [run: 0..5, recoveries: 0..2]] BY <1>1 DEF IInv, TypeOK
  <2> QED BY <1>1, <2>4, <2>8, <2>9, <2>10, <2>11, RecoveryKeeps
<1> QED BY <1>2, <1>3

(* A restart leaves nothing in the lifecycle. *)
LEMMA RestartKeeps ==
  ASSUME IInv, Restart
  PROVE  IInv' /\ Contained
<1> USE DEF Restart
<1>1. << >> \in Seq(Key) /\ Len(<< >>) = 0 OBVIOUS
<1>2. TypeOK'
  BY <1>1 DEF IInv, TypeOK, StoreTypeOK, NoRemember, Idle, Awaiting, NoNames
<1>3. KeysKnown' BY DEF KeysKnown, NoRemember, Idle, Awaiting
<1>4. WorkingInv'
  BY FS_EmptySet, LoopAssumption DEF WorkingInv, WorkingSetSound, WorkingFinite
<1>5. DerivedInv' /\ WarnedInv'
  BY DEF DerivedInv, DerivedFresh, DerivedOnce, NamedFresh, NoNames, Deriving, Idle, Awaiting,
         WarnedInv, SeizureWarned, RunWarned, RecoveryWarned
<1>6. Contained BY DEF Contained
<1> QED BY <1>2, <1>3, <1>4, <1>5, <1>6 DEF IInv

-----------------------------------------------------------------------------
(* Every step keeps the invariant, and what is contained. *)
LEMMA StepKeeps ==
  ASSUME IInv, [Next]_vars
  PROVE  IInv' /\ Contained
<1>1. CASE \E k \in Key : Express(k) \/ Admit(k) \/ DisintegrateThrows(k)
  BY <1>1, ExpressKeeps, AdmitKeeps, DisintegrateThrowsKeeps
<1>2. CASE \E k \in Key, to \in Phase : Move(k, to) BY <1>2, MoveKeeps
<1>3. CASE \E c \in Call, k \in Key : Impress(c, k) BY <1>3, ImpressKeeps
<1>4. CASE \E c \in Call, k, derived \in Key : Wraparound(c, k, derived)
  BY <1>4, WraparoundKeeps
<1>5. CASE \E c \in Call :
             \/ ReadRef(c) /\ UNCHANGED loopVars
             \/ Impressed(c) \/ Derived(c) \/ Emitted(c) \/ StoreFails(c)
             \/ RecoveryGoesOn(c) \/ LogFails(c)
  BY <1>5, ReadRefKeeps, ImpressedKeeps, DerivedKeeps, EmittedKeeps, StoreFailsKeeps,
     RecoveryGoesOnKeeps, LogFailsKeeps
<1>6. CASE \E c \in Call, s \in Session, same, cycle \in BOOLEAN :
             ObserveAction(c, s, same, cycle)
  BY <1>6, ObserveKeeps
<1>7. CASE Restart BY <1>7, RestartKeeps
<1>8. CASE UNCHANGED vars
  <2> USE <1>8 DEF vars
  <2>1. TypeOK' /\ KeysKnown' BY DEF IInv, TypeOK, StoreTypeOK, KeysKnown
  <2>2. WorkingInv' BY WorkingKept DEF IInv, InPlace
  <2>3. DerivedInv' BY DerivedKept DEF IInv, Deriving, Pending, Appended
  <2>4. WarnedInv'
    BY DEF IInv, WarnedInv, SeizureWarned, RunWarned, RecoveryWarned
  <2>5. Contained BY DEF Contained
  <2> QED BY <2>1, <2>2, <2>3, <2>4, <2>5 DEF IInv
<1> QED BY <1>1, <1>2, <1>3, <1>4, <1>5, <1>6, <1>7, <1>8 DEF Next

(* The strengthened invariant is inductive. *)
THEOREM LoopInvariant == Spec => []IInv
<1>1. Init => IInv BY InitHolds
<1>2. IInv /\ [Next]_vars => IInv' BY StepKeeps
<1> QED BY <1>1, <1>2, PTL DEF Spec

(* The store and the loop keep their types, and a session lists a key once. *)
THEOREM LoopTypeCorrect == Spec => []TypeOK
<1>1. IInv => TypeOK BY DEF IInv
<1> QED BY <1>1, LoopInvariant, PTL

(* Every place of a working set is taken by an item in attention, whatever impress,
   recoveries, releases and failures run at once; but for a derived key that two
   wraparounds of its parent had under way at once. *)
THEOREM PlacesSound == Spec => []WorkingSetSound
<1>1. IInv => WorkingSetSound BY DEF IInv, WorkingInv
<1> QED BY <1>1, LoopInvariant, PTL

(* No session is paused for good that was not recovered before. *)
THEOREM SeizuresWarned == Spec => []SeizureWarned
<1>1. IInv => SeizureWarned BY DEF IInv, WarnedInv
<1> QED BY <1>1, LoopInvariant, PTL

(* Containment is left only for partition or disintegration by a session that is
   awake, by a restart, or by the later of two wraparounds that overlap. *)
THEOREM ContainmentKept == Spec => ContainmentHolds
<1>1. IInv /\ [Next]_vars =>
        [\A k \in Key :
           phase[k] = "containment" /\ phase'[k] # "containment" =>
             \/ phase' = [x \in Key |-> None]
             \/ Owner[k] \notin seized /\ phase'[k] \in {"partition", "disintegration"}
             \/ k \in twins /\ phase'[k] = "derivation"]_vars
  BY StepKeeps DEF Contained
<1> QED BY <1>1, LoopInvariant, PTL DEF Spec, ContainmentHolds
=============================================================================
