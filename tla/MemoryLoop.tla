----------------------------- MODULE MemoryLoop -----------------------------
(***************************************************************************)
(* The memory feedback loop of Green Brainz: MemoryFeedbackLoop in         *)
(* memory/memory-feedback-loop.mjs over the Dreamcatcher store.  An action *)
(* is the code between two awaits of a call; a phase is assigned before    *)
(* the await of the audit log, so a call that changes one phase and        *)
(* returns is one action.                                                  *)
(*                                                                         *)
(* A key belongs to one session, as in the keys the host makes.  Token     *)
(* counts, payloads and the audit log are left out; hashes of actions are  *)
(* left out but for what the stutter detector sees in them: a repetition   *)
(* of the last one, or a cycle, which may be found at any action.          *)
(***************************************************************************)
EXTENDS Dreamcatcher

CONSTANTS
  Session,
  Owner,      \* session of each key
  Goal,       \* keys tagged "goal"
  Derivable,  \* keys that wraparound() makes; callers express the others
  ItemLimit   \* attentionItemLimit

Phase == {"derivation", "attention", "integration", "partition",
          "containment", "disintegration"}

ASSUME LoopAssumption ==
  /\ Owner \in [Key -> Session]
  /\ Goal \subseteq Key
  /\ Derivable \subseteq Key
  /\ ItemLimit \in Nat \ {0}
  /\ None \notin Key \cup Call \cup Phase

VARIABLES
  phase,    \* phase of each key, None outside the lifecycle
  working,  \* per session: keys in its working set
  touched,  \* per session: keys in the order they were first touched, but
            \* for goals, which recoveryKeys() filters out
  stutter,  \* per session: run of equal actions, recoveries so far
  seized,
  named,    \* per key: what wraparound() of it names by the #seq of this moment, if asked
  call,     \* per call: what it does after its await
  twins     \* history: derived keys that two calls had under way at once

loopVars == <<phase, working, touched, stutter, seized, named, call, twins>>
vars == <<head, rem, phase, working, touched, stutter, seized, named, call, twins>>

Awaiting(kind, k) ==
  [kind |-> kind, session |-> None, key |-> k, step |-> "none", todo |-> << >>]

Idle == Awaiting("idle", None)

NoNames == [k \in Key |-> None]

LoopInit ==
  /\ phase = [k \in Key |-> None]
  /\ working = [s \in Session |-> {}]
  /\ touched = [s \in Session |-> << >>]
  /\ stutter = [s \in Session |-> [run |-> 0, recoveries |-> 0]]
  /\ seized = {}
  /\ named = NoNames
  /\ call = [c \in Call |-> Idle]
  /\ twins = {}

Init == StoreInit /\ LoopInit

-----------------------------------------------------------------------------
(* Mutant: containment may be left for integration. *)
AllowedRelease ==
  {<<"derivation", "attention">>, <<"attention", "integration">>,
   <<"attention", "derivation">>, <<"attention", "partition">>,
   <<"integration", "attention">>, <<"integration", "partition">>,
   <<"partition", "integration">>, <<"partition", "containment">>,
   <<"containment", "integration">>, <<"containment", "partition">>,
   <<"containment", "disintegration">>}

Allowed ==
  {<<"derivation", "attention">>, <<"attention", "integration">>,
   <<"attention", "derivation">>, <<"attention", "partition">>,
   <<"integration", "attention">>, <<"integration", "partition">>,
   <<"partition", "integration">>, <<"partition", "containment">>,
   <<"containment", "partition">>, <<"containment", "disintegration">>}

Awake(k) == Owner[k] \notin seized

(* transition() does not throw; allowDirect adds derivation > partition,   *)
(* the only direct move any caller asks for.                               *)
MayMove(k, to) == Awake(k) /\ <<phase[k], to>> \in Allowed

MayMoveDirect(k, to) ==
  Awake(k) /\ (<<phase[k], to>> \in Allowed \cup {<<"derivation", "partition">>})

(* Mutant: a key is listed each time it is touched. *)
TouchedAgain(s, k) == Append(touched[s], k)

Touched(s, k) ==
  IF k \in Goal \/ \E i \in 1..Len(touched[s]) : touched[s][i] = k
  THEN touched[s] ELSE Append(touched[s], k)

Touch(k) == touched' = [touched EXCEPT ![Owner[k]] = Touched(Owner[k], k)]

(* Mutant: the key keeps its place in the working set. *)
LeaveNothing(k) == working

Leave(k) == [working EXCEPT ![Owner[k]] = working[Owner[k]] \ {k}]

(* #append() up to its await: a new #seq, and the phase of the key. *)
Enter(k, to) == phase' = [phase EXCEPT ![k] = to] /\ named' = NoNames

-----------------------------------------------------------------------------
Express(k) ==
  /\ Awake(k) /\ phase[k] = None /\ k \notin Derivable
  /\ Enter(k, "derivation")
  /\ Touch(k)
  /\ UNCHANGED <<storeVars, working, stutter, seized, call, twins>>

HasRoom(s) == Cardinality(working[s]) < ItemLimit

(* admit(); it answers "nap" and changes nothing when there is no room. *)
Admit(k) ==
  /\ Awake(k) /\ phase[k] = "derivation" /\ HasRoom(Owner[k])
  /\ working' = [working EXCEPT ![Owner[k]] = working[Owner[k]] \cup {k}]
  /\ Enter(k, "attention")
  /\ Touch(k)
  /\ UNCHANGED <<storeVars, stutter, seized, call, twins>>

(* impress() up to the store. *)
ImpressStart(c, k) ==
  /\ Awake(k) /\ phase[k] = "attention"
  /\ Remember(c, k)

Impress(c, k) ==
  /\ call[c].kind = "idle"
  /\ ImpressStart(c, k)
  /\ call' = [call EXCEPT ![c] = Awaiting("impress", k)]
  /\ UNCHANGED <<phase, working, touched, stutter, seized, named, twins>>

(* impress() after the store: its transition may throw by now. *)
ImpressEnd(k) ==
  /\ working' = Leave(k)
  /\ Touch(k)
  /\ IF MayMove(k, "integration") THEN Enter(k, "integration")
     ELSE UNCHANGED <<phase, named>>

Impressed(c) ==
  LET k == rem[c].key IN
  /\ call[c].kind = "impress"
  /\ WriteRef(c) /\ rem' = [rem EXCEPT ![c] = NoRemember]
  /\ ImpressEnd(k)
  /\ call' = [call EXCEPT ![c] = Idle]
  /\ UNCHANGED <<stutter, seized, twins>>

StoreFails(c) ==
  /\ call[c].kind \in {"impress", "wraparound"}
  /\ RememberFails(c) /\ rem' = [rem EXCEPT ![c] = NoRemember]
  /\ call' = [call EXCEPT ![c] = Idle]
  /\ UNCHANGED <<phase, working, touched, stutter, seized, named, twins>>

(* fridge(), freezer(), thaw(), reintegrate() and disintegrate() when      *)
(* their transition does not throw.                                        *)
Move(k, to) ==
  /\ MayMove(k, to)
  /\ to \in {"partition", "containment", "integration", "disintegration"}
  /\ Enter(k, to)
  /\ working' = Leave(k)
  /\ UNCHANGED <<storeVars, touched, stutter, seized, call, twins>>

(* disintegrate() leaves the working set before its transition throws. *)
DisintegrateThrows(k) ==
  /\ Awake(k) /\ ~MayMove(k, "disintegration")
  /\ working' = Leave(k)
  /\ UNCHANGED <<storeVars, phase, touched, stutter, seized, named, call, twins>>

(* The key that a call will put into the lifecycle, if it is a wraparound().         *)
Deriving(c) == call[c].kind \in {"wraparound", "emit"}

Pending(c) == IF call[c].kind = "wraparound" THEN rem[c].key ELSE call[c].key

(* A key named by a #seq that named none before. *)
NewName(derived) ==
  /\ phase[derived] = None
  /\ \A k \in Key : named[k] # derived
  /\ \A c \in Call : rem[c].key # derived /\ call[c].key # derived

(* wraparound(): the derived key is named by its parent and #seq, so that calls of one
   parent name the same one as long as nothing is appended. *)
Wraparound(c, k, derived) ==
  /\ call[c].kind = "idle"
  /\ Awake(k) /\ phase[k] = "disintegration" /\ k \in head
  /\ derived \in Derivable /\ Owner[derived] = Owner[k]
  /\ IF named[k] = None THEN NewName(derived) ELSE derived = named[k]
  /\ named' = [named EXCEPT ![k] = derived]
  /\ twins' = IF \E d \in Call : Deriving(d) /\ Pending(d) = derived
              THEN twins \cup {derived} ELSE twins
  /\ Remember(c, derived)
  /\ call' = [call EXCEPT ![c] = Awaiting("wraparound", k)]
  /\ UNCHANGED <<phase, working, touched, stutter, seized>>

(* The payload is set, and the event of the parent appended; the derived key enters
   the lifecycle only after that event is in the audit log. *)
Derived(c) ==
  /\ call[c].kind = "wraparound"
  /\ WriteRef(c) /\ rem' = [rem EXCEPT ![c] = NoRemember]
  /\ named' = NoNames
  /\ call' = [call EXCEPT ![c] = Awaiting("emit", rem[c].key)]
  /\ UNCHANGED <<phase, working, touched, stutter, seized, twins>>

(* The derived key enters the lifecycle, wherever it is: this is no transition().    *)
Emitted(c) ==
  /\ call[c].kind = "emit"
  /\ Enter(call[c].key, "derivation")
  /\ call' = [call EXCEPT ![c] = Idle]
  /\ UNCHANGED <<storeVars, working, touched, stutter, seized, twins>>

(* The audit log cannot be written: what the call had left is not done.    *)
LogFails(c) ==
  /\ call[c].kind \in {"emit", "recover"}
  /\ call' = [call EXCEPT ![c] = Idle]
  /\ UNCHANGED <<storeVars, phase, working, touched, stutter, seized, named, twins>>

-----------------------------------------------------------------------------
(* The keys applyRecovery() still has something to do with. *)
Needs(step, k) ==
  phase[k] \in CASE step = "fridge"  -> {"integration", "attention"}
                 [] step = "freezer" -> {"partition", "integration", "attention"}
                 [] step = "seizure" -> Phase \ {"containment", "disintegration"}

(* Key k takes the first of its steps; rest are the keys after it.         *)
RecoverKey(c, s, step, k, rest) ==
  LET to   == IF phase[k] = "partition" THEN "containment" ELSE "partition"
      half == step # "fridge" /\ to = "partition" IN
  /\ working' = Leave(k)
  /\ seized' = seized
  /\ IF MayMoveDirect(k, to)
     THEN /\ Enter(k, to)
          /\ call' = [call EXCEPT ![c] =
               [kind |-> "recover", session |-> s, step |-> step,
                key |-> IF half THEN k ELSE None, todo |-> rest]]
     ELSE UNCHANGED <<phase, named>> /\ call' = [call EXCEPT ![c] = Idle]

(* The loop of applyRecovery() in call c from the keys todo on, up to its  *)
(* next await or its end.                                                  *)
Recover(c, s, step, todo) ==
  LET at == {i \in 1..Len(todo) : Needs(step, todo[i])} IN
  \/ /\ at = {}
     /\ seized' = IF step = "seizure" THEN seized \cup {s} ELSE seized
     /\ call' = [call EXCEPT ![c] = Idle]
     /\ UNCHANGED <<phase, working, named>>
  \/ \E i \in at :
       /\ \A l \in at : i <= l
       /\ RecoverKey(c, s, step, todo[i], SubSeq(todo, i + 1, Len(todo)))

(* Mutant: the ladder begins at its last rung. *)
StepSeizing(run, recoveries, cycle) ==
  CASE cycle    -> IF recoveries >= 1 THEN "seizure" ELSE "freezer"
    [] ~cycle   -> IF run >= 2 THEN "seizure" ELSE "none"

(* The rung of the stutter ladder observeAction() comes to. *)
LadderStep(run, recoveries, cycle) ==
  CASE cycle               -> IF recoveries >= 1 THEN "seizure" ELSE "freezer"
    [] ~cycle /\ run >= 5  -> "seizure"
    [] ~cycle /\ run = 4   -> "freezer"
    [] ~cycle /\ run = 3   -> "fridge"
    [] ~cycle /\ run = 2   -> "nap"
    [] ~cycle /\ run <= 1  -> "none"

(* observeAction() of an action like the last one or another; run counts   *)
(* to 5 and recoveries to 2, which is as far as they are told apart.       *)
ObserveAction(c, s, same, cycle) ==
  LET run        == IF same THEN stutter[s].run + 1 ELSE 1
      step       == LadderStep(run, stutter[s].recoveries, cycle)
      recoveries == IF step = "none" \/ s \in seized THEN stutter[s].recoveries
                    ELSE stutter[s].recoveries + 1
      capped(n, max) == IF n > max THEN max ELSE n
  IN
  /\ call[c].kind = "idle"
  /\ same => stutter[s].run > 0
  /\ stutter' = [stutter EXCEPT ![s] = [run |-> capped(run, 5),
                                        recoveries |-> capped(recoveries, 2)]]
  /\ IF s \in seized \/ step \in {"none", "nap"}
     THEN UNCHANGED <<phase, working, seized, named, call>>
     ELSE Recover(c, s, step, touched[s])
  /\ UNCHANGED <<storeVars, touched, twins>>

(* The recovery goes on after an await: the second half of a key that is   *)
(* on its way to containment, if nobody moved it meanwhile, or the loop.   *)
RecoveryGoesOn(c) ==
  LET r == call[c] IN
  /\ r.kind = "recover"
  /\ IF r.key = None THEN Recover(c, r.session, r.step, r.todo)
     ELSE /\ IF MayMove(r.key, "containment")
             THEN /\ Enter(r.key, "containment")
                  /\ call' = [call EXCEPT ![c] =
                       [kind |-> "recover", session |-> r.session, step |-> r.step,
                        key |-> None, todo |-> r.todo]]
             ELSE UNCHANGED <<phase, named>> /\ call' = [call EXCEPT ![c] = Idle]
          /\ UNCHANGED <<working, seized>>
  /\ UNCHANGED <<storeVars, touched, stutter, twins>>

(* The process restarts: the loop is empty, the store is on disk. *)
Restart ==
  /\ phase' = [k \in Key |-> None]
  /\ working' = [s \in Session |-> {}]
  /\ touched' = [s \in Session |-> << >>]
  /\ stutter' = [s \in Session |-> [run |-> 0, recoveries |-> 0]]
  /\ seized' = {}
  /\ named' = NoNames
  /\ call' = [c \in Call |-> Idle]
  /\ twins' = {}
  /\ rem' = [c \in Call |-> NoRemember]
  /\ head' = head

Next ==
  \/ \E k \in Key : Express(k) \/ Admit(k) \/ DisintegrateThrows(k)
  \/ \E k \in Key, to \in Phase : Move(k, to)
  \/ \E c \in Call, k \in Key : Impress(c, k)
  \/ \E c \in Call, k, derived \in Key : Wraparound(c, k, derived)
  \/ \E c \in Call :
       \/ ReadRef(c) /\ UNCHANGED loopVars
       \/ Impressed(c) \/ Derived(c) \/ Emitted(c) \/ StoreFails(c)
       \/ RecoveryGoesOn(c) \/ LogFails(c)
  \/ \E c \in Call, s \in Session, same, cycle \in BOOLEAN :
       ObserveAction(c, s, same, cycle)
  \/ Restart

Spec == Init /\ [][Next]_vars

-----------------------------------------------------------------------------
TypeOK ==
  /\ StoreTypeOK
  /\ phase \in [Key -> Phase \cup {None}]
  /\ working \in [Session -> SUBSET Key]
  /\ touched \in [Session -> Seq(Key)]
  /\ \A s \in Session : \A i, j \in 1..Len(touched[s]) :
       touched[s][i] = touched[s][j] => i = j
  /\ stutter \in [Session -> [run: 0..5, recoveries: 0..2]]
  /\ seized \subseteq Session
  /\ named \in [Key -> Derivable \cup {None}]
  /\ twins \subseteq Derivable
  /\ call \in [Call -> [kind: {"idle", "impress", "wraparound", "emit", "recover"},
                        session: Session \cup {None}, key: Key \cup {None},
                        step: {"none", "fridge", "freezer", "seizure"},
                        todo: Seq(Key)]]

(* A key that a working set counts with reason: in attention; or a derived key that
   two calls had under way at once, which the later one puts back into derivation.   *)
InPlace(k) == phase[k] = "attention" \/ (k \in twins /\ phase[k] = "derivation")

(* Every place of a working set is taken by an item in attention, within   *)
(* the limit: no race of impress, recovery and release leaks a place,      *)
(* which would answer "nap" for ever (MFL-8).  Only wraparounds of one key *)
(* that overlap leave an item of theirs there, in derivation.              *)
WorkingSetSound ==
  \A s \in Session :
    /\ Cardinality(working[s]) <= ItemLimit
    /\ \A k \in working[s] : InPlace(k) /\ Owner[k] = s

(* "Attention cannot thaw containment": what is contained is left only for *)
(* partition or disintegration, by a session that is awake; a late impress *)
(* or a recovery under way does not release it (MFL-9, MFL-14).  Only the  *)
(* later of two wraparounds that overlap takes their key out of it.        *)
ContainmentHolds ==
  [][\A k \in Key :
       phase[k] = "containment" /\ phase'[k] # "containment" =>
         \/ phase' = [x \in Key |-> None]
         \/ Owner[k] \notin seized /\ phase'[k] \in {"partition", "disintegration"}
         \/ k \in twins /\ phase'[k] = "derivation"
    ]_vars

(* A session is paused for good only after an earlier recovery of it.      *)
SeizureWarned == \A s \in seized : stutter[s].recoveries >= 2
=============================================================================
