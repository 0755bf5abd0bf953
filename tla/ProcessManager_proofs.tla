------------------------ MODULE ProcessManager_proofs ------------------------
(***************************************************************************)
(* Proofs about ProcessManager for every set of aliases, children and      *)
(* callers and every number of profiles: type correctness, that a backend  *)
(* no sweep may stop is never lost while the gateway serves, and that the  *)
(* backends move as the turns of the gateway assume.                       *)
(***************************************************************************)
EXTENDS ProcessManager, TLAPS

-----------------------------------------------------------------------------
(* The inductive invariant. *)

(* A tracked record belongs to the alias it is tracked under, and every    *)
(* child that runs belongs to some alias.                                  *)
TrackedOwned ==
  /\ \A a \in Alias : processes[a] # None => owner[processes[a]] = a
  /\ \A c \in Child : life[c] = "running" => owner[c] \in Alias

(* The child a start works on is a child of that alias. *)
StartOwned ==
  \A a \in Alias : Starting(a) => /\ start[a].child \in Child
                                  /\ owner[start[a].child] = a

(* While serving, only sweeps stop records, and never an unswept alias. *)
StopsSweepable ==
  shutdown = "no" => \A s \in stops : ~Unswept(s.alias)

(* The start of an unswept alias works on the tracked record. *)
StartTracked ==
  shutdown = "no" =>
    \A a \in Alias :
      Unswept(a) /\ Starting(a)
        => start[a].child = processes[a] /\ status[a] # "ready"

(* Without a start, a tracked backend that lives is one ensure() returns. *)
SettledReady ==
  shutdown = "no" =>
    \A a \in Alias :
      /\ Unswept(a) /\ ~Starting(a) /\ processes[a] # None
      /\ life[processes[a]] = "running" /\ sent[processes[a]] # "KILL"
      => recState[processes[a]] = "ready"

IInv ==
  /\ TypeOK /\ TrackedOwned /\ StartOwned /\ StopsSweepable
  /\ StartTracked /\ SettledReady /\ UnsweptTracked /\ StatusHeld

Signals == [Child -> {"none", "TERM", "KILL"}]

(* snt is what was sent, with more children sent SIGKILL. *)
Escalates(snt) ==
  /\ snt \in Signals
  /\ \A c \in Child : snt[c] = sent[c] \/ snt[c] = "KILL"

(* If alias a is unswept, none of its children lives on. *)
Vacant(a, snt) ==
  shutdown = "no" /\ Unswept(a) =>
    \A c \in Child : life[c] = "running" /\ owner[c] = a => snt[c] = "KILL"

-----------------------------------------------------------------------------
(* Starting a profile keeps the invariant when the alias is vacant. *)
LEMMA SpawnInv ==
  ASSUME IInv, NEW a \in Alias, NEW q \in 1..Profiles,
         NEW by \in Client \cup {None}, NEW snt, Escalates(snt),
         Vacant(a, snt), NEW wait \in [Client -> Alias \cup {None}],
         Spawn(a, q, by, snt, wait), UNCHANGED <<stops, shutdown>>
  PROVE  IInv'
<1> PICK c \in {d \in Child : Free(d)}, born \in {"running", "exited"} :
      /\ life' = [life EXCEPT ![c] = born]
      /\ owner' = [owner EXCEPT ![c] = a]
      /\ recState' = [recState EXCEPT ![c] = "starting"]
      /\ sent' = [snt EXCEPT ![c] = "none"]
      /\ processes' = [processes EXCEPT ![a] = c]
      /\ status' = [status EXCEPT ![a] = "starting"]
      /\ start' = [start EXCEPT ![a] = [pc |-> "poll", profile |-> q,
                                        child |-> c, by |-> by]]
      /\ newer' = {p \in Touch(c, Tracked) : processes[a] \notin {p[1], p[2]}}
      /\ waiting' = wait
      /\ UNCHANGED aborted
  BY DEF Spawn
<1> USE DEF IInv
<1>0. /\ c \in Child /\ c # None
      /\ \A b \in Alias : processes[b] # c /\ start[b].child # c
  BY ConstAssumption DEF Free, Tracked
<1>1. TypeOK'
  <2>1. Tracked \subseteq Child
    BY DEF Tracked, TypeOK
  <2>2. newer' \subseteq Child \X Child
    BY <2>1 DEF Touch, Forget, TypeOK
  <2>3. start' \in [Alias -> StartRec]
    BY ConstAssumption DEF TypeOK, StartRec
  <2> QED
    BY <2>2, <2>3 DEF TypeOK, Life, RecState, Status, Escalates, Signals
<1>2. TrackedOwned'
  BY <1>0 DEF TrackedOwned, TypeOK
<1>3. StartOwned'
  BY <1>0 DEF StartOwned, Starting, TypeOK
<1>4. StopsSweepable'
  BY DEF StopsSweepable, Unswept
<1>5. StartTracked'
  BY <1>0 DEF StartTracked, Starting, Unswept, TypeOK
<1>6. SettledReady'
  BY <1>0 DEF SettledReady, Starting, Unswept, TypeOK, Escalates
<1>7. UnsweptTracked'
  BY <1>0 DEF UnsweptTracked, Unswept, TypeOK, Escalates, Vacant, Signals
<1>8. StatusHeld'
  BY <1>0 DEF StatusHeld, Starting, Unswept, TypeOK
<1> QED
  BY <1>1, <1>2, <1>3, <1>4, <1>5, <1>6, <1>7, <1>8

(* So does giving up on the start. *)
LEMMA RejectInv ==
  ASSUME IInv, NEW a \in Alias, NEW st \in {"cold", "unavailable"},
         NEW snt, Escalates(snt), Vacant(a, snt),
         NEW wait \in [Client -> Alias \cup {None}],
         Reject(a, st, snt, wait), UNCHANGED <<stops, shutdown>>
  PROVE  IInv'
<1> USE DEF IInv
<1>1. TypeOK'
  <2>1. start' \in [Alias -> StartRec]
    BY ConstAssumption DEF Reject, Settle, NotStarting, TypeOK, StartRec
  <2> QED
    BY <2>1 DEF Reject, Settle, TypeOK, Status, Escalates, Signals
<1>2. TrackedOwned' /\ StartOwned' /\ StopsSweepable'
  BY DEF Reject, Settle, NotStarting, TrackedOwned, StartOwned,
         StopsSweepable, Starting, Unswept, TypeOK
<1>3. StartTracked'
  BY DEF Reject, Settle, NotStarting, StartTracked, Starting, Unswept, TypeOK
<1>4. SettledReady'
  BY DEF Reject, Settle, NotStarting, SettledReady, Starting, Unswept, TypeOK,
         Escalates, Vacant, TrackedOwned
<1>5. UnsweptTracked'
  BY DEF Reject, UnsweptTracked, Unswept, TypeOK, Escalates
<1>6. StatusHeld'
  BY DEF Reject, Settle, NotStarting, StatusHeld, Starting, Unswept, TypeOK
<1> QED
  BY <1>1, <1>2, <1>3, <1>4, <1>5, <1>6

(* Going on to the next profile keeps the invariant, whether one is left or  *)
(* not.                                                                      *)
LEMMA TryProfilesInv ==
  ASSUME IInv, NEW a \in Alias, NEW p \in Nat \ {0},
         NEW by \in Client \cup {None}, NEW snt, Escalates(snt),
         Vacant(a, snt), NEW wait \in [Client -> Alias \cup {None}],
         TryProfiles(a, p, by, snt, wait), UNCHANGED <<stops, shutdown>>
  PROVE  IInv'
<1>1. CASE \E q \in p..Profiles : Spawn(a, q, by, snt, wait)
  <2> PICK q \in p..Profiles : Spawn(a, q, by, snt, wait)
    BY <1>1
  <2>1. q \in 1..Profiles
    BY ConstAssumption
  <2> QED
    BY <2>1, SpawnInv
<1>2. CASE Reject(a, "unavailable", snt, wait)
  BY <1>2, RejectInv
<1>3. CASE Reject(a, "cold", snt, wait)
  BY <1>3, RejectInv
<1> QED
  BY <1>1, <1>2, <1>3 DEF TryProfiles

(* A profile that failed keeps it: the next one starts or the start is given *)
(* up.                                                                       *)
LEMMA ProfileFailedInv ==
  ASSUME IInv, NEW a \in Alias, NEW snt, Escalates(snt), Vacant(a, snt),
         ProfileFailed(a, snt)
  PROVE  IInv'
<1>1. /\ waiting \in [Client -> Alias \cup {None}]
      /\ start[a].profile + 1 \in Nat \ {0}
      /\ start[a].by \in Client \cup {None}
  BY ConstAssumption DEF IInv, TypeOK, StartRec
<1>2. UNCHANGED <<stops, shutdown>>
  BY DEF ProfileFailed
<1>3. CASE Reject(a, "cold", snt, waiting)
  BY <1>1, <1>2, <1>3, RejectInv
<1>4. CASE TryProfiles(a, start[a].profile + 1, start[a].by, snt, waiting)
  BY <1>1, <1>2, <1>4, TryProfilesInv
<1> QED
  BY <1>3, <1>4 DEF ProfileFailed

-----------------------------------------------------------------------------
(* Init establishes the invariant. *)
LEMMA InitInv == Init => IInv
<1> SUFFICES ASSUME Init PROVE IInv
  OBVIOUS
<1>1. TypeOK
  BY ConstAssumption DEF Init, TypeOK, Life, RecState, Status, StartRec,
     NotStarting
<1>2. \A a \in Alias : ~Starting(a) /\ processes[a] = None
  BY DEF Init, Starting, NotStarting
<1> QED
  BY <1>1, <1>2 DEF Init, IInv, TrackedOwned, StartOwned, StopsSweepable,
     StartTracked, SettledReady, UnsweptTracked, StatusHeld

(* Every step keeps it. *)
LEMMA EnsureStartInv ==
  ASSUME IInv, NEW cl \in Client, NEW a \in Alias, EnsureStart(cl, a)
  PROVE  IInv'
<1>1. Escalates(sent)
  BY DEF Escalates, Signals, IInv, TypeOK
<1>2. Vacant(a, sent)
  <2> SUFFICES ASSUME shutdown = "no", Unswept(a), NEW c \in Child,
                      life[c] = "running", owner[c] = a, sent[c] # "KILL"
               PROVE  FALSE
    BY DEF Vacant
  <2>1. processes[a] = c /\ c # None
    BY ConstAssumption DEF IInv, UnsweptTracked
  <2>2. recState[c] = "ready"
    BY <2>1 DEF IInv, SettledReady, EnsureStart
  <2> QED
    BY <2>1, <2>2 DEF EnsureStart, Warm, ExitCodeNull
<1>3. [waiting EXCEPT ![cl] = a] \in [Client -> Alias \cup {None}]
  BY DEF IInv, TypeOK
<1>4. TryProfiles(a, 1, cl, sent, [waiting EXCEPT ![cl] = a])
  BY DEF EnsureStart
<1>5. UNCHANGED <<stops, shutdown>> /\ cl \in Client \cup {None}
  BY DEF EnsureStart
<1>6. 1 \in Nat \ {0}
  OBVIOUS
<1> QED
  BY <1>1, <1>2, <1>3, <1>4, <1>5, <1>6, TryProfilesInv

(* A start step that fails keeps it. *)
LEMMA StartFailsInv ==
  ASSUME IInv, NEW a \in Alias, StartedChildExited(a) \/ FailedStartStopped(a)
  PROVE  IInv'
<1>0. start[a].child \in Child /\ owner[start[a].child] = a
  BY DEF IInv, StartOwned, Starting, StartedChildExited, FailedStartStopped
<1>1. CASE StartedChildExited(a)
  <2>1. Escalates(sent)
    BY DEF Escalates, Signals, IInv, TypeOK
  <2>2. Vacant(a, sent)
    BY <1>0, <1>1 DEF Vacant, IInv, StartedChildExited, ExitCodeNull,
       UnsweptTracked, StartTracked, Starting, TypeOK
  <2> QED
    BY <1>1, <2>1, <2>2, ProfileFailedInv DEF StartedChildExited
<1>2. CASE FailedStartStopped(a)
  <2> DEFINE snt == [sent EXCEPT ![start[a].child] =
                                    Kill(start[a].child, "KILL")]
  <2>1. Escalates(snt)
    BY <1>0 DEF Escalates, Signals, Kill, IInv, TypeOK
  <2>2. Vacant(a, snt)
    BY <1>0, <1>2 DEF Vacant, Kill, IInv, FailedStartStopped, UnsweptTracked,
       StartTracked, Starting, TypeOK
  <2>3. ProfileFailed(a, snt)
    BY <1>2 DEF FailedStartStopped
  <2> HIDE DEF snt
  <2> QED
    BY <2>1, <2>2, <2>3, ProfileFailedInv
<1> QED
  BY <1>1, <1>2

(* Every action keeps it. *)
LEMMA NextInv == IInv /\ [Next]_vars => IInv'
<1> SUFFICES ASSUME IInv, [Next]_vars PROVE IInv'
  OBVIOUS
<1> USE DEF IInv
<1>1. ASSUME NEW cl \in Client, NEW a \in Alias, EnsureReady(cl, a)
      PROVE  IInv'
  <2>1. Tracked \subseteq Child /\ processes[a] \in Child
    BY <1>1 DEF Tracked, TypeOK, EnsureReady, Warm
  <2>2. newer' \subseteq Child \X Child
    BY <1>1, <2>1 DEF EnsureReady, Touch, Forget, TypeOK
  <2> QED
    BY <1>1, <2>2 DEF EnsureReady, childVars, TypeOK, TrackedOwned, StartOwned,
       StopsSweepable, StartTracked, SettledReady, UnsweptTracked,
       StatusHeld, Starting, Unswept
<1>2. ASSUME NEW cl \in Client, NEW a \in Alias, EnsureJoin(cl, a)
      PROVE  IInv'
  BY <1>2 DEF EnsureJoin, childVars, TypeOK, TrackedOwned, StartOwned,
     StopsSweepable, StartTracked, SettledReady, UnsweptTracked, StatusHeld,
     Starting, Unswept
<1>3. ASSUME NEW cl \in Client, NEW a \in Alias, EnsureStart(cl, a)
      PROVE  IInv'
  BY <1>3, EnsureStartInv
<1>4. ASSUME NEW cl \in Client, Abort(cl) PROVE IInv'
  BY <1>4 DEF Abort, childVars, TypeOK, TrackedOwned, StartOwned,
     StopsSweepable, StartTracked, SettledReady, UnsweptTracked, StatusHeld,
     Starting, Unswept
<1>5. ASSUME NEW a \in Alias, HealthAnswered(a) PROVE IInv'
  <2>1. TypeOK'
    BY <1>5 DEF HealthAnswered, childVars, TypeOK, StartRec
  <2>2. \A b \in Alias : /\ Starting(b)' = Starting(b)
                         /\ start'[b].child = start[b].child
    BY <1>5 DEF HealthAnswered, Starting, TypeOK, StartRec
  <2> QED
    BY <1>5, <2>1, <2>2 DEF HealthAnswered, childVars, TrackedOwned,
       StartOwned, StopsSweepable, StartTracked, SettledReady, UnsweptTracked,
       StatusHeld, Unswept
<1>6. ASSUME NEW a \in Alias, BecomeReady(a) PROVE IInv'
  <2>0. start[a].child \in Child /\ owner[start[a].child] = a
    BY <1>6 DEF BecomeReady, StartOwned, Starting
  <2>1. TypeOK'
    <3>1. start' \in [Alias -> StartRec]
      BY <1>6, ConstAssumption DEF BecomeReady, Settle, NotStarting, TypeOK,
         StartRec
    <3> QED
      BY <1>6, <3>1 DEF BecomeReady, Settle, TypeOK, RecState, Status
  <2>2. \A b \in Alias : /\ Starting(b)' => b # a /\ Starting(b)
                         /\ b # a => start'[b] = start[b]
    BY <1>6 DEF BecomeReady, Settle, Starting, NotStarting, TypeOK
  <2>3. TrackedOwned' /\ StartOwned' /\ StopsSweepable' /\ UnsweptTracked'
    BY <1>6, <2>2 DEF BecomeReady, TrackedOwned, StartOwned, StopsSweepable,
       UnsweptTracked, Unswept, TypeOK
  <2>4. StartTracked'
    BY <1>6, <2>2 DEF BecomeReady, StartTracked, Unswept, TypeOK
  <2>5. SettledReady' /\ StatusHeld'
    <3>1. shutdown = "no" /\ Unswept(a) => processes[a] = start[a].child
      BY <1>6 DEF BecomeReady, StartTracked, Starting
    <3>2. start[a].child # None
      BY <2>0, ConstAssumption
    <3>3. \A b \in Alias : b # a => Starting(b)' = Starting(b)
      BY <1>6 DEF BecomeReady, Settle, Starting, TypeOK
    <3> QED
      BY <1>6, <2>0, <2>2, <3>1, <3>2, <3>3 DEF BecomeReady, SettledReady,
         StatusHeld, Unswept, TypeOK
  <2> QED
    BY <2>1, <2>3, <2>4, <2>5
<1>7. ASSUME NEW a \in Alias, StartedChildExited(a) \/ FailedStartStopped(a)
      PROVE  IInv'
  BY <1>7, StartFailsInv
<1>8. ASSUME NEW a \in Alias, GiveUpStart(a) PROVE IInv'
  <2>0. start[a].child \in Child /\ owner[start[a].child] = a
    BY <1>8 DEF GiveUpStart, StartOwned, Starting
  <2>1. TypeOK'
    BY <1>8 DEF GiveUpStart, Kill, TypeOK, StartRec, RecState
  <2>2. \A b \in Alias : /\ Starting(b)' = Starting(b)
                         /\ start'[b].child = start[b].child
    BY <1>8 DEF GiveUpStart, Starting, TypeOK, StartRec
  <2>3. \A b \in Alias : b # a => processes[b] # start[a].child
    BY <2>0, ConstAssumption DEF TrackedOwned
  <2>4. Starting(a)
    BY <1>8 DEF GiveUpStart, Starting
  <2>5. TrackedOwned' /\ StartOwned' /\ StopsSweepable' /\ StartTracked'
    BY <1>8, <2>2 DEF GiveUpStart, TrackedOwned, StartOwned, StopsSweepable,
       StartTracked, Unswept
  <2>6. UnsweptTracked' /\ SettledReady'
    BY <1>8, <2>2, <2>3, <2>4 DEF GiveUpStart, UnsweptTracked, SettledReady,
       Unswept, Kill, TypeOK
  <2>7. StatusHeld'
    BY <1>8, <2>0, <2>2, <2>3, <2>4 DEF GiveUpStart, StatusHeld,
       StartTracked, Unswept, TypeOK
  <2> QED
    BY <2>1, <2>5, <2>6, <2>7
<1>9. CASE SweepIdle
  <2> PICK keep \in SUBSET Evictable : BeginStops(Evictable \ keep, "sweep")
    BY <1>9 DEF SweepIdle
  <2> DEFINE D == Evictable \ keep
  <2>1. \A c \in D : /\ c \in Child
                     /\ owner[c] \in Alias \ Resident
                     /\ processes[owner[c]] = c
    BY ConstAssumption DEF Evictable, Tracked, TrackedOwned, TypeOK
  <2>2. SweepEnabled /\ shutdown = "no" /\ shutdown' = "no"
    BY <1>9 DEF SweepIdle
  <2>3. BeginStops(D, "sweep")
    OBVIOUS
  <2> HIDE DEF D
  <2>4. TypeOK'
    <3>1. stops' \subseteq Stop
      BY <2>1, <2>3 DEF BeginStops, TypeOK, Stop
    <3> QED
      BY <1>9, <2>3, <3>1 DEF SweepIdle, BeginStops, Kill, TypeOK, RecState
  <2>5. TrackedOwned' /\ StartOwned' /\ StartTracked'
    BY <1>9 DEF SweepIdle, TrackedOwned, StartOwned, StartTracked, Starting,
       Unswept
  <2>6. StopsSweepable'
    BY <2>1, <2>2, <2>3 DEF BeginStops, StopsSweepable, Unswept
  <2>7. UnsweptTracked'
    BY <1>9, <2>3 DEF SweepIdle, BeginStops, Kill, UnsweptTracked, Unswept,
       TypeOK
  <2>8. \A a \in Alias : Unswept(a) => processes[a] \notin D
    BY <2>1, <2>2, ConstAssumption DEF Unswept, TrackedOwned
  <2>9. SettledReady' /\ StatusHeld'
    BY <1>9, <2>3, <2>8 DEF SweepIdle, BeginStops, Kill, SettledReady,
       StatusHeld, Starting, Unswept, TypeOK
  <2> QED
    BY <2>4, <2>5, <2>6, <2>7, <2>9
<1>10. ASSUME NEW s \in stops, StopTimeout(s) PROVE IInv'
  <2>1. s \in Stop
    BY DEF TypeOK
  <2>2. TypeOK'
    BY <1>10, <2>1 DEF StopTimeout, Drop, Cold, Kill, ExitWhenDrained, TypeOK,
       Status, Stop
  <2>3. shutdown' = "no" => shutdown = "no"
    BY <1>10 DEF StopTimeout, ExitWhenDrained
  <2>4. shutdown = "no" => ~Unswept(s.alias)
    BY DEF StopsSweepable
  <2>5. TrackedOwned' /\ StartOwned' /\ StopsSweepable' /\ StartTracked'
    BY <1>10, <2>1, <2>3, <2>4 DEF StopTimeout, Drop, Cold, TrackedOwned,
       StartOwned, StopsSweepable, StartTracked, Starting, Unswept, TypeOK
  <2>6. SettledReady' /\ UnsweptTracked'
    BY <1>10, <2>1, <2>3, <2>4 DEF StopTimeout, Drop, Kill, SettledReady,
       UnsweptTracked, TrackedOwned, Starting, Unswept, TypeOK
  <2>7. StatusHeld'
    BY <1>10, <2>1, <2>3, <2>4 DEF StopTimeout, Drop, Cold, StatusHeld,
       Starting, Unswept, TypeOK
  <2> QED
    BY <2>2, <2>5, <2>6, <2>7
<1>11. CASE BeginShutdown
  <2> DEFINE live == {c \in Tracked : ExitCodeNull(c)}
             gone == {a \in Alias : processes[a] # None
                                       /\ processes[a] \notin live}
  <2>1. /\ shutdown' \in {"draining", "exited"}
        /\ BeginStops(live, "stopAll") /\ Drop(gone) /\ status' = Cold(gone)
        /\ UNCHANGED <<life, owner, start, waiting, aborted>>
    BY <1>11 DEF BeginShutdown
  <2>2. \A c \in live : c \in Child /\ owner[c] \in Alias
    BY ConstAssumption DEF Tracked, TrackedOwned, TypeOK
  <2> HIDE DEF live, gone
  <2>3. TypeOK'
    <3>1. stops' \subseteq Stop
      BY <2>1, <2>2 DEF BeginStops, TypeOK, Stop
    <3> QED
      BY <2>1, <3>1 DEF BeginStops, Drop, Cold, Kill, TypeOK, RecState, Status
  <2>4. TrackedOwned' /\ StartOwned'
    BY <2>1 DEF Drop, TrackedOwned, StartOwned, Starting, TypeOK
  <2>5. StatusHeld'
    BY <2>1 DEF Cold, StatusHeld, Starting, TypeOK
  <2> QED
    BY <2>1, <2>3, <2>4, <2>5 DEF StopsSweepable, StartTracked, SettledReady,
       UnsweptTracked
<1>12. CASE ForcedExit
  BY <1>12 DEF ForcedExit, childVars, TypeOK, TrackedOwned, StartOwned,
     StopsSweepable, StartTracked, SettledReady, UnsweptTracked, StatusHeld,
     Starting, Unswept
<1>13. ASSUME NEW c \in Child, NEW how \in {"exited", "signalled"},
              ChildExit(c, how)
       PROVE  IInv'
  <2> DEFINE woken   == {s \in stops : s.child = c}
             stopped == {s.alias : s \in woken}
  <2>1. /\ life[c] = "running"
        /\ life' = [life EXCEPT ![c] = how]
        /\ recState' = [recState EXCEPT ![c] = "exited"]
        /\ sent' = [sent EXCEPT ![c] = "none"]
        /\ stops' = stops \ woken
        /\ Drop(stopped)
        /\ status' = Cold(stopped \cup {a \in Alias : processes[a] = c})
        /\ shutdown' = ExitWhenDrained(stops')
        /\ UNCHANGED <<owner, start, waiting, aborted>>
    BY <1>13 DEF ChildExit, MarkedCold
  <2>2. shutdown' = "no" => shutdown = "no"
    BY <2>1 DEF ExitWhenDrained
  <2>3. shutdown = "no" => \A a \in stopped : ~Unswept(a)
    BY DEF StopsSweepable
  <2>4. stops' \subseteq stops
    BY <2>1
  <2> HIDE DEF woken, stopped
  <2>5. TypeOK'
    BY <2>1, <2>4 DEF Drop, Cold, ExitWhenDrained, TypeOK, Life, RecState,
       Status
  <2>6. TrackedOwned' /\ StartOwned' /\ StopsSweepable'
    BY <2>1, <2>2, <2>4 DEF Drop, TrackedOwned, StartOwned, StopsSweepable,
       Starting, Unswept, TypeOK
  <2>7. StartTracked' /\ UnsweptTracked' /\ SettledReady'
    BY <2>1, <2>2, <2>3 DEF Drop, Cold, StartTracked, UnsweptTracked,
       SettledReady, TrackedOwned, Starting, Unswept, TypeOK
  <2>8. StatusHeld'
    BY <2>1, <2>2, <2>3 DEF Drop, Cold, StatusHeld, Starting, Unswept,
       TypeOK
  <2> QED
    BY <2>5, <2>6, <2>7, <2>8
<1>14. CASE UNCHANGED vars
  BY <1>14 DEF vars, TypeOK, TrackedOwned, StartOwned, StopsSweepable,
     StartTracked, SettledReady, UnsweptTracked, StatusHeld, Starting,
     Unswept
<1> HIDE DEF IInv
<1> QED
  BY <1>1, <1>2, <1>3, <1>4, <1>5, <1>6, <1>7, <1>8, <1>9, <1>10, <1>11,
     <1>12, <1>13, <1>14 DEF Next, StartStep

-----------------------------------------------------------------------------
(* What a turn sees of the backends. *)

(* A start works on the only record its alias can have, which is not ready *)
(* yet, and the registry does not say otherwise; a record that ensure()    *)
(* returns is one the registry calls ready.                                *)
ViewInv ==
  /\ \A a \in Alias : Starting(a) =>
       /\ processes[a] \in {None, start[a].child}
       /\ recState[start[a].child] # "ready"
       /\ status[a] \in {"starting", "cold"}
  /\ \A a \in Alias : Warm(a) => status[a] = "ready"

(* What no step does to an alias: make it ready out of nothing, start or   *)
(* give up what is ready, start what was given up.                         *)
Moved(a) ==
  /\ Warm(a)' => Warm(a) \/ Starting(a)
  /\ Warm(a) => ~Starting(a)' /\ status'[a] # "unavailable"
  /\ status[a] = "unavailable" =>
       ~Starting(a)' /\ status'[a] \in {"unavailable", "cold"}
  /\ status'[a] = "ready" => status[a] = "ready" \/ Starting(a)

ViewStep == ViewInv' /\ \A a \in Alias : Moved(a)

(* Nothing is both ready and being started. *)
LEMMA WarmSettled ==
  ASSUME IInv, ViewInv, NEW a \in Alias, Warm(a)
  PROVE  ~Starting(a)
BY DEF ViewInv, Warm, IInv, StartOwned

(* Records that only lose their state, processes that only exit, table     *)
(* entries that only go, with the registry told: the effect of every stop, *)
(* sweep and exit, and of every step that only waits.                      *)
LEMMA FadeView ==
  ASSUME IInv, ViewInv,
         \A c \in Child : recState'[c] \in {recState[c], "stopping", "exited"},
         \A c \in Child : life'[c] # "exited" => life[c] # "exited",
         \A a \in Alias : processes'[a] \in {processes[a], None},
         \A a \in Alias : Starting(a)' = Starting(a)
                          /\ start'[a].child = start[a].child,
         \A a \in Alias :
           \/ status'[a] = status[a]
           \/ /\ status'[a] = "cold"
              /\ processes'[a] # None => recState'[processes'[a]] # "ready"
  PROVE  ViewStep
<1>0. \A a \in Alias : processes[a] \in Child \cup {None} BY DEF IInv, TypeOK
<1>1. \A a \in Alias : Warm(a)' => Warm(a) /\ status'[a] = status[a]
  <2> SUFFICES ASSUME NEW a \in Alias, Warm(a)'
               PROVE  Warm(a) /\ status'[a] = status[a]
    OBVIOUS
  <2>1. /\ processes'[a] # None /\ recState'[processes'[a]] = "ready"
        /\ life'[processes'[a]] # "exited"
    BY DEF Warm, ExitCodeNull
  <2>2. processes'[a] = processes[a] /\ processes[a] \in Child BY <2>1, <1>0
  <2>3. recState[processes[a]] = "ready" /\ life[processes[a]] # "exited"
    BY <2>1, <2>2
  <2> QED BY <2>1, <2>2, <2>3 DEF Warm, ExitCodeNull
<1>2. ViewInv'
  <2>1. ASSUME NEW a \in Alias, Starting(a)'
        PROVE  /\ processes'[a] \in {None, start'[a].child}
               /\ recState'[start'[a].child] # "ready"
               /\ status'[a] \in {"starting", "cold"}
    BY <2>1 DEF ViewInv, IInv, StartOwned
  <2>2. \A a \in Alias : Warm(a)' => status'[a] = "ready"
    BY <1>1 DEF ViewInv
  <2> QED BY <2>1, <2>2 DEF ViewInv
<1>3. ASSUME NEW a \in Alias PROVE Moved(a)
  <2>1. Warm(a) => status[a] = "ready" /\ ~Starting(a)
    BY WarmSettled DEF ViewInv
  <2>2. status[a] = "unavailable" => ~Starting(a) BY DEF ViewInv
  <2> QED BY <1>1, <2>1, <2>2 DEF Moved
<1> QED BY <1>2, <1>3 DEF ViewStep

(* A start, or the next profile of one, of an alias that is not ready and  *)
(* was not given up.                                                       *)
LEMMA SpawnView ==
  ASSUME IInv, ViewInv, NEW a \in Alias, NEW q, NEW by, NEW snt, NEW wait,
         ~Warm(a), status[a] # "unavailable",
         Spawn(a, q, by, snt, wait)
  PROVE  ViewStep
<1> PICK c \in {d \in Child : Free(d)}, born \in {"running", "exited"} :
      /\ life' = [life EXCEPT ![c] = born]
      /\ recState' = [recState EXCEPT ![c] = "starting"]
      /\ processes' = [processes EXCEPT ![a] = c]
      /\ status' = [status EXCEPT ![a] = "starting"]
      /\ start' = [start EXCEPT ![a] = [pc |-> "poll", profile |-> q,
                                        child |-> c, by |-> by]]
  BY DEF Spawn
<1>0. /\ c \in Child /\ c # None
      /\ \A b \in Alias : processes[b] # c /\ start[b].child # c
  BY ConstAssumption DEF Free, Tracked
<1>1. Starting(a)' /\ ~Warm(a)'
  BY <1>0 DEF Starting, Warm, IInv, TypeOK
<1>2. ASSUME NEW b \in Alias, b # a
      PROVE  /\ Starting(b)' = Starting(b) /\ start'[b] = start[b]
             /\ processes'[b] = processes[b] /\ status'[b] = status[b]
             /\ Warm(b)' = Warm(b)
             /\ Starting(b) => recState'[start[b].child] = recState[start[b].child]
  <2>1. /\ start'[b] = start[b] /\ processes'[b] = processes[b]
        /\ status'[b] = status[b]
    BY <1>2 DEF IInv, TypeOK
  <2>2. processes[b] # None =>
          /\ processes[b] \in Child
          /\ recState'[processes[b]] = recState[processes[b]]
          /\ life'[processes[b]] = life[processes[b]]
    BY <1>0 DEF IInv, TypeOK
  <2>3. Starting(b) => recState'[start[b].child] = recState[start[b].child]
    BY <1>0 DEF IInv, TypeOK, StartOwned
  <2> QED BY <2>1, <2>2, <2>3 DEF Starting, Warm, ExitCodeNull
<1>3. ViewInv'
  <2>1. /\ processes'[a] = c /\ start'[a].child = c
        /\ recState'[c] = "starting" /\ status'[a] = "starting"
    BY <1>0 DEF IInv, TypeOK
  <2>2. ASSUME NEW b \in Alias, Starting(b)'
        PROVE  /\ processes'[b] \in {None, start'[b].child}
               /\ recState'[start'[b].child] # "ready"
               /\ status'[b] \in {"starting", "cold"}
    <3>1. CASE b = a BY <3>1, <2>1
    <3>2. CASE b # a BY <3>2, <2>2, <1>2 DEF ViewInv
    <3> QED BY <3>1, <3>2
  <2>3. ASSUME NEW b \in Alias, Warm(b)' PROVE status'[b] = "ready"
    BY <2>3, <1>1, <1>2 DEF ViewInv
  <2> QED BY <2>2, <2>3 DEF ViewInv
<1>4. ASSUME NEW b \in Alias PROVE Moved(b)
  <2>1. CASE b = a
    <3>1. status'[a] = "starting" BY DEF IInv, TypeOK
    <3> QED BY <2>1, <3>1, <1>1 DEF Moved
  <2>2. CASE b # a
    <3>1. Warm(b) => ~Starting(b) /\ status[b] = "ready"
      BY WarmSettled DEF ViewInv
    <3>2. status[b] = "unavailable" => ~Starting(b) BY DEF ViewInv
    <3> QED BY <2>2, <3>1, <3>2, <1>2 DEF Moved
  <2> QED BY <2>1, <2>2
<1> QED BY <1>3, <1>4 DEF ViewStep

(* A start that ends with an error. *)
LEMMA RejectView ==
  ASSUME IInv, ViewInv, NEW a \in Alias, NEW st \in {"cold", "unavailable"},
         NEW snt, NEW wait, ~Warm(a), status[a] # "unavailable",
         Reject(a, st, snt, wait)
  PROVE  ViewStep
<1>1. /\ status' = [status EXCEPT ![a] = st]
      /\ start' = [start EXCEPT ![a] = NotStarting]
      /\ UNCHANGED <<life, recState, processes>>
  BY DEF Reject, Settle
<1>2. ~Starting(a)' /\ status'[a] = st
  BY <1>1 DEF Starting, NotStarting, IInv, TypeOK
<1>3. \A b \in Alias : b # a => /\ Starting(b)' = Starting(b)
                                /\ start'[b] = start[b]
                                /\ status'[b] = status[b]
  BY <1>1 DEF Starting, IInv, TypeOK
<1>4. \A b \in Alias : Warm(b)' = Warm(b)
  BY <1>1 DEF Warm, ExitCodeNull
<1>5. ViewInv'
  <2>1. ASSUME NEW b \in Alias, Starting(b)'
        PROVE  /\ processes'[b] \in {None, start'[b].child}
               /\ recState'[start'[b].child] # "ready"
               /\ status'[b] \in {"starting", "cold"}
    <3>1. b # a BY <2>1, <1>2
    <3> QED BY <3>1, <2>1, <1>1, <1>3 DEF ViewInv
  <2>2. ASSUME NEW b \in Alias, Warm(b)' PROVE status'[b] = "ready"
    BY <2>2, <1>3, <1>4 DEF ViewInv
  <2> QED BY <2>1, <2>2 DEF ViewInv
<1>6. ASSUME NEW b \in Alias PROVE Moved(b)
  <2>1. CASE b = a BY <2>1, <1>2, <1>4 DEF Moved
  <2>2. CASE b # a
    <3>1. Warm(b) => ~Starting(b) /\ status[b] = "ready"
      BY WarmSettled DEF ViewInv
    <3>2. status[b] = "unavailable" => ~Starting(b) BY DEF ViewInv
    <3> QED BY <2>2, <3>1, <3>2, <1>3, <1>4 DEF Moved
  <2> QED BY <2>1, <2>2
<1> QED BY <1>5, <1>6 DEF ViewStep

(* The loop over the profiles. *)
LEMMA TryProfilesView ==
  ASSUME IInv, ViewInv, NEW a \in Alias, NEW p, NEW by, NEW snt, NEW wait,
         ~Warm(a), status[a] # "unavailable",
         TryProfiles(a, p, by, snt, wait)
  PROVE  ViewStep
<1>1. CASE \E q \in p..Profiles : Spawn(a, q, by, snt, wait)
  BY <1>1, SpawnView
<1>2. CASE Reject(a, "unavailable", snt, wait) BY <1>2, RejectView
<1>3. CASE Reject(a, "cold", snt, wait) BY <1>3, RejectView
<1> QED BY <1>1, <1>2, <1>3 DEF TryProfiles

(* A start becomes ready. *)
LEMMA BecomeReadyView ==
  ASSUME IInv, ViewInv, NEW a \in Alias, BecomeReady(a)
  PROVE  ViewStep
<1> DEFINE c == start[a].child
<1>0. /\ Starting(a) /\ c \in Child /\ owner[c] = a
  BY DEF BecomeReady, Starting, IInv, StartOwned
<1>1. /\ recState' = [recState EXCEPT ![c] = "ready"]
      /\ status' = [status EXCEPT ![a] = "ready"]
      /\ start' = [start EXCEPT ![a] = NotStarting]
      /\ UNCHANGED <<life, processes>>
  BY DEF BecomeReady, Settle
<1> HIDE DEF c
<1>2. ~Starting(a)' /\ status'[a] = "ready"
  BY <1>1 DEF Starting, NotStarting, IInv, TypeOK
<1>3. ASSUME NEW b \in Alias, b # a
      PROVE  /\ Starting(b)' = Starting(b) /\ start'[b] = start[b]
             /\ status'[b] = status[b] /\ Warm(b)' = Warm(b)
             /\ Starting(b) => recState'[start[b].child] = recState[start[b].child]
  <2>1. start'[b] = start[b] /\ status'[b] = status[b]
    BY <1>1, <1>3 DEF IInv, TypeOK
  <2>2. processes[b] # None =>
          processes[b] # c /\ recState'[processes[b]] = recState[processes[b]]
    BY <1>0, <1>1, <1>3 DEF IInv, TypeOK, TrackedOwned
  <2>3. Starting(b) =>
          start[b].child # c /\ recState'[start[b].child] = recState[start[b].child]
    BY <1>0, <1>1, <1>3 DEF IInv, TypeOK, StartOwned
  <2> QED BY <2>1, <2>2, <2>3, <1>1 DEF Starting, Warm, ExitCodeNull
<1>4. ViewInv'
  <2>1. ASSUME NEW b \in Alias, Starting(b)'
        PROVE  /\ processes'[b] \in {None, start'[b].child}
               /\ recState'[start'[b].child] # "ready"
               /\ status'[b] \in {"starting", "cold"}
    <3>1. b # a BY <2>1, <1>2
    <3> QED BY <3>1, <2>1, <1>1, <1>3 DEF ViewInv
  <2>2. ASSUME NEW b \in Alias, Warm(b)' PROVE status'[b] = "ready"
    BY <2>2, <1>2, <1>3 DEF ViewInv
  <2> QED BY <2>1, <2>2 DEF ViewInv
<1>5. ASSUME NEW b \in Alias PROVE Moved(b)
  <2>1. CASE b = a
    <3>1. status[a] # "unavailable" BY <1>0 DEF ViewInv
    <3> QED BY <2>1, <3>1, <1>0, <1>2 DEF Moved
  <2>2. CASE b # a
    <3>1. Warm(b) => ~Starting(b) /\ status[b] = "ready"
      BY WarmSettled DEF ViewInv
    <3>2. status[b] = "unavailable" => ~Starting(b) BY DEF ViewInv
    <3> QED BY <2>2, <3>1, <3>2, <1>3 DEF Moved
  <2> QED BY <2>1, <2>2
<1> QED BY <1>4, <1>5 DEF ViewStep

(* Every step keeps the view consistent and moves it only as it may. *)
LEMMA NextView == IInv /\ ViewInv /\ [Next]_vars => ViewStep
<1> SUFFICES ASSUME IInv, ViewInv, [Next]_vars PROVE ViewStep OBVIOUS
<1>0. TypeOK BY DEF IInv
<1>1. ASSUME UNCHANGED <<life, recState, processes, status, start>>
      PROVE  ViewStep
  BY <1>1, FadeView DEF Starting
<1>2. ASSUME NEW a \in Alias, HealthAnswered(a) PROVE ViewStep
  <2>1. \A b \in Alias : /\ Starting(b)' = Starting(b)
                         /\ start'[b].child = start[b].child
    BY <1>0, <1>2 DEF HealthAnswered, Starting, TypeOK, StartRec
  <2> QED BY <2>1, <1>2, FadeView DEF HealthAnswered, childVars
<1>3. ASSUME NEW a \in Alias, GiveUpStart(a) PROVE ViewStep
  <2>1. \A b \in Alias : /\ Starting(b)' = Starting(b)
                         /\ start'[b].child = start[b].child
    BY <1>0, <1>3 DEF GiveUpStart, Starting, TypeOK, StartRec
  <2>2. \A c \in Child : recState'[c] \in {recState[c], "stopping", "exited"}
    BY <1>0, <1>3 DEF GiveUpStart, TypeOK
  <2> QED BY <2>1, <2>2, <1>3, FadeView DEF GiveUpStart
<1>4. CASE SweepIdle
  <2>1. /\ \A c \in Child : recState'[c] \in {recState[c], "stopping", "exited"}
        /\ UNCHANGED <<life, processes, status, start>>
    BY <1>4 DEF SweepIdle, BeginStops
  <2> QED BY <2>1, FadeView DEF Starting
<1>5. ASSUME NEW s \in stops, StopTimeout(s) PROVE ViewStep
  <2>1. /\ UNCHANGED <<life, recState, start>>
        /\ Drop({s.alias}) /\ status' = Cold({s.alias})
    BY <1>5 DEF StopTimeout
  <2>2. \A a \in Alias : processes'[a] \in {processes[a], None} BY <2>1 DEF Drop
  <2>3. \A a \in Alias : \/ status'[a] = status[a]
                         \/ status'[a] = "cold" /\ processes'[a] = None
    BY <2>1 DEF Drop, Cold
  <2> QED BY <2>1, <2>2, <2>3, FadeView DEF Starting
<1>6. CASE BeginShutdown
  <2> DEFINE live == {c \in Tracked : ExitCodeNull(c)}
             gone == {a \in Alias : processes[a] # None
                                       /\ processes[a] \notin live}
  <2>1. /\ BeginStops(live, "stopAll") /\ Drop(gone) /\ status' = Cold(gone)
        /\ UNCHANGED <<life, start>>
    BY <1>6 DEF BeginShutdown
  <2> HIDE DEF live, gone
  <2>2. \A c \in Child : recState'[c] \in {recState[c], "stopping", "exited"}
    BY <2>1 DEF BeginStops
  <2>3. \A a \in Alias : processes'[a] \in {processes[a], None} BY <2>1 DEF Drop
  <2>4. \A a \in Alias : \/ status'[a] = status[a]
                         \/ status'[a] = "cold" /\ processes'[a] = None
    BY <2>1 DEF Drop, Cold
  <2> QED BY <2>1, <2>2, <2>3, <2>4, FadeView DEF Starting
<1>7. ASSUME NEW c \in Child, NEW how \in {"exited", "signalled"},
             ChildExit(c, how)
      PROVE  ViewStep
  <2> DEFINE stopped == {s.alias : s \in {t \in stops : t.child = c}}
  <2>1. /\ life[c] = "running"
        /\ life' = [life EXCEPT ![c] = how]
        /\ recState' = [recState EXCEPT ![c] = "exited"]
        /\ Drop(stopped) /\ UNCHANGED start
        /\ status' = Cold(stopped \cup {a \in Alias : processes[a] = c})
    BY <1>7 DEF ChildExit, MarkedCold
  <2> HIDE DEF stopped
  <2>2. /\ \A d \in Child : recState'[d] \in {recState[d], "stopping", "exited"}
        /\ \A d \in Child : life'[d] # "exited" => life[d] # "exited"
        /\ recState'[c] = "exited"
    BY <2>1, <1>0 DEF TypeOK
  <2>3. \A a \in Alias : processes'[a] \in {processes[a], None} BY <2>1 DEF Drop
  <2>4. \A a \in Alias :
          \/ status'[a] = status[a]
          \/ status'[a] = "cold" /\ (processes'[a] = None \/ processes'[a] = c)
    BY <2>1 DEF Drop, Cold
  <2>5. \A a \in Alias :
          \/ status'[a] = status[a]
          \/ /\ status'[a] = "cold"
             /\ processes'[a] # None => recState'[processes'[a]] # "ready"
    BY <2>2, <2>4
  <2> QED BY <2>1, <2>2, <2>3, <2>5, FadeView DEF Starting
<1>8. ASSUME NEW cl \in Client, NEW a \in Alias, EnsureStart(cl, a)
      PROVE  ViewStep
  BY <1>8, TryProfilesView DEF EnsureStart
<1>9. ASSUME NEW a \in Alias, StartedChildExited(a) \/ FailedStartStopped(a)
      PROVE  ViewStep
  <2>1. Starting(a) BY <1>9 DEF Starting, StartedChildExited, FailedStartStopped
  <2>2. ~Warm(a) /\ status[a] # "unavailable" BY <2>1, WarmSettled DEF ViewInv
  <2>3. PICK snt : ProfileFailed(a, snt)
    BY <1>9 DEF StartedChildExited, FailedStartStopped
  <2>4. CASE Reject(a, "cold", snt, waiting) BY <2>2, <2>4, RejectView
  <2>5. CASE TryProfiles(a, start[a].profile + 1, start[a].by, snt, waiting)
    BY <2>2, <2>5, TryProfilesView
  <2> QED BY <2>3, <2>4, <2>5 DEF ProfileFailed
<1>10. ASSUME NEW a \in Alias, BecomeReady(a) PROVE ViewStep
  BY <1>10, BecomeReadyView
<1>11. ASSUME NEW cl \in Client, NEW a \in Alias,
              EnsureReady(cl, a) \/ EnsureJoin(cl, a)
       PROVE  ViewStep
  BY <1>1, <1>11 DEF EnsureReady, EnsureJoin, childVars
<1>12. ASSUME NEW cl \in Client, Abort(cl) PROVE ViewStep
  BY <1>1, <1>12 DEF Abort, childVars
<1>13. CASE ForcedExit BY <1>1, <1>13 DEF ForcedExit, childVars
<1>14. CASE UNCHANGED vars BY <1>1, <1>14 DEF vars
<1> QED
  BY <1>2, <1>3, <1>4, <1>5, <1>6, <1>7, <1>8, <1>9, <1>10, <1>11, <1>12,
     <1>13, <1>14 DEF Next, StartStep

(* What is seen of an alias, in terms of table, starts and registry. *)
SeenIs ==
  \A a \in Alias :
    /\ BackendSeen(a) = "ready" <=> Warm(a)
    /\ BackendSeen(a) = "starting" <=> Starting(a)
    /\ BackendSeen(a) = "evicting" <=>
         ~Warm(a) /\ ~Starting(a) /\ status[a] = "ready"
    /\ BackendSeen(a) = "cold" <=> ~Starting(a) /\ status[a] = "cold"
    /\ BackendSeen(a) = "unavailable" <=> status[a] = "unavailable"
    /\ BackendSeen(a) \in View!States

(* The five cases of the view are those, and there is no sixth. *)
LEMMA SeenIsRight == IInv /\ ViewInv => SeenIs
<1> SUFFICES ASSUME IInv, ViewInv, NEW a \in Alias
             PROVE  /\ BackendSeen(a) = "ready" <=> Warm(a)
                    /\ BackendSeen(a) = "starting" <=> Starting(a)
                    /\ BackendSeen(a) = "evicting" <=>
                         ~Warm(a) /\ ~Starting(a) /\ status[a] = "ready"
                    /\ BackendSeen(a) = "cold" <=>
                         ~Starting(a) /\ status[a] = "cold"
                    /\ BackendSeen(a) = "unavailable" <=>
                         status[a] = "unavailable"
                    /\ BackendSeen(a) \in View!States
  BY DEF SeenIs
<1>1. Warm(a) => status[a] = "ready" /\ ~Starting(a)
  BY WarmSettled DEF ViewInv
<1>2. Starting(a) => status[a] \in {"starting", "cold"} BY DEF ViewInv
<1>3. status[a] \in Status /\ (status[a] = "starting" => Starting(a))
  BY DEF IInv, TypeOK, StatusHeld
<1>4. CASE Warm(a) BY <1>1, <1>4 DEF BackendSeen, View!States
<1>5. CASE Starting(a) BY <1>1, <1>2, <1>5 DEF BackendSeen, View!States
<1>6. CASE ~Warm(a) /\ ~Starting(a)
  BY <1>3, <1>6 DEF BackendSeen, View!States, Status
<1> QED BY <1>4, <1>5, <1>6

-----------------------------------------------------------------------------
(* The conjunction of the parts above is an invariant of the manager.      *)
THEOREM InductiveInvariant == Spec => []IInv
BY InitInv, NextInv, PTL DEF Spec

(* Every state variable keeps its type, for every set of aliases, children *)
(* and callers.                                                            *)
THEOREM TypeCorrect == Spec => []TypeOK
<1>1. IInv => TypeOK
  BY DEF IInv
<1> QED
  BY <1>1, InductiveInvariant, PTL

(* A running resident (or any backend, with eviction disabled) that was    *)
(* not sent SIGKILL is the tracked one while the gateway serves.           *)
THEOREM UnsweptNeverLost == Spec => []UnsweptTracked
<1>1. IInv => UnsweptTracked
  BY DEF IInv
<1> QED
  BY <1>1, InductiveInvariant, PTL

(* No step leaves an alias "ready" and takes its running child away.       *)
LEMMA NextShowsDeath == IInv /\ [Next]_vars => DeathShown
<1> SUFFICES ASSUME IInv, [Next]_vars, NEW a \in Alias,
                    status[a] = "ready", status'[a] = "ready",
                    processes[a] # None, life[processes[a]] = "running"
             PROVE  /\ processes'[a] = processes[a]
                    /\ life'[processes[a]] = "running"
  BY DEF DeathShown
<1>0. TypeOK /\ processes[a] \in Child
  BY DEF IInv, TypeOK
<1>1. ASSUME NEW b \in Alias, NEW q, NEW by, NEW snt, NEW wait,
             Spawn(b, q, by, snt, wait)
      PROVE  processes'[a] = processes[a] /\ life'[processes[a]] = "running"
  <2>1. PICK c \in {d \in Child : Free(d)}, born \in {"running", "exited"} :
          /\ life' = [life EXCEPT ![c] = born]
          /\ processes' = [processes EXCEPT ![b] = c]
          /\ status' = [status EXCEPT ![b] = "starting"]
    BY <1>1 DEF Spawn
  <2>2. a # b BY <2>1, <1>0 DEF TypeOK
  <2>3. c # processes[a] BY DEF Free
  <2> QED BY <2>1, <2>2, <2>3, <1>0 DEF TypeOK
<1>2. ASSUME NEW b \in Alias, NEW p, NEW by, NEW snt, NEW wait,
             TryProfiles(b, p, by, snt, wait)
      PROVE  processes'[a] = processes[a] /\ life'[processes[a]] = "running"
  BY <1>1, <1>2 DEF TryProfiles, Reject
<1>3. ASSUME NEW b \in Alias, StartStep(b)
      PROVE  processes'[a] = processes[a] /\ life'[processes[a]] = "running"
  BY <1>2, <1>3 DEF StartStep, HealthAnswered, BecomeReady, GiveUpStart,
     StartedChildExited, FailedStartStopped, ProfileFailed, Reject, childVars
<1>4. ASSUME NEW s \in stops, StopTimeout(s)
      PROVE  processes'[a] = processes[a] /\ life'[processes[a]] = "running"
  <2>1. a # s.alias BY <1>4 DEF StopTimeout, Cold
  <2> QED BY <2>1, <1>4 DEF StopTimeout, Drop
<1>5. CASE BeginShutdown
  <2>1. \A gone : Drop(gone) /\ status' = Cold(gone)
                  => processes'[a] = processes[a]
    BY DEF Drop, Cold
  <2> QED BY <2>1, <1>5 DEF BeginShutdown
<1>6. ASSUME NEW c \in Child, NEW how \in {"exited", "signalled"},
             ChildExit(c, how)
      PROVE  processes'[a] = processes[a] /\ life'[processes[a]] = "running"
  <2> DEFINE stopped == {s.alias : s \in {t \in stops : t.child = c}}
  <2>1. /\ life' = [life EXCEPT ![c] = how] /\ Drop(stopped)
        /\ status' = Cold(stopped \cup MarkedCold(c))
    BY <1>6 DEF ChildExit
  <2>2. a \notin stopped /\ processes[a] # c
    BY <2>1 DEF Cold, MarkedCold
  <2> HIDE DEF stopped
  <2> QED BY <2>1, <2>2, <1>0 DEF Drop, TypeOK
<1>7. ASSUME NEW cl \in Client, NEW b \in Alias, EnsureStart(cl, b)
      PROVE  processes'[a] = processes[a] /\ life'[processes[a]] = "running"
  BY <1>2, <1>7 DEF EnsureStart
<1>8. ASSUME UNCHANGED <<life, processes>>
      PROVE  processes'[a] = processes[a] /\ life'[processes[a]] = "running"
  BY <1>8
<1>9. ASSUME NEW cl \in Client, NEW b \in Alias,
             EnsureReady(cl, b) \/ EnsureJoin(cl, b) \/ Abort(cl)
      PROVE  processes'[a] = processes[a] /\ life'[processes[a]] = "running"
  BY <1>8, <1>9 DEF EnsureReady, EnsureJoin, Abort, childVars
<1>10. CASE SweepIdle \/ ForcedExit \/ UNCHANGED vars
  BY <1>8, <1>10 DEF SweepIdle, ForcedExit, childVars, vars
<1> QED
  BY <1>3, <1>4, <1>5, <1>6, <1>7, <1>9, <1>10 DEF Next

(* The registry never advertises a start nobody works on, nor a ready      *)
(* unswept alias without a record published as ready, and no alias stays   *)
(* ready through the death of its child.                                   *)
THEOREM StatusAlwaysBacked == Spec => StatusBacked
<1>1. IInv => StatusHeld
  BY DEF IInv
<1>2. IInv /\ [Next]_vars => DeathShown
  BY NextShowsDeath
<1> QED
  BY <1>1, <1>2, InductiveInvariant, PTL DEF Spec, StatusBacked

(* The view of the backends is consistent in every reachable state.        *)
THEOREM ViewInvariant == Spec => [](IInv /\ ViewInv)
<1>1. Init => ViewInv
  BY DEF Init, ViewInv, Starting, NotStarting, Warm
<1>2. IInv /\ ViewInv /\ [Next]_vars => ViewInv'
  BY NextView DEF ViewStep
<1> QED
  BY <1>1, <1>2, InductiveInvariant, PTL DEF Spec

(* For every set of aliases, children and callers, however starts, stops,  *)
(* sweeps, exits and shutdown overlap, the backends move as the turns of   *)
(* module ChatTurn assume, and the registry agrees with what they are.     *)
THEOREM ManagerKeepsAssumption == Spec => BackendsAsAssumed
<1>1. Init => View!BackendsInit
  BY DEF Init, View!BackendsInit, BackendSeen, Starting, NotStarting, Warm
<1>2. IInv /\ ViewInv /\ SeenIs /\ SeenIs' /\ [Next]_vars
        => [View!BackendsNext]_[a \in Alias |-> BackendSeen(a)]
  <2> SUFFICES ASSUME IInv, ViewInv, SeenIs, SeenIs', [Next]_vars
               PROVE  View!BackendsNext
    OBVIOUS
  <2>1. ASSUME NEW a \in Alias
        PROVE  /\ BackendSeen(a)' \in View!States
               /\ BackendSeen(a)' # BackendSeen(a)
                    => <<BackendSeen(a), BackendSeen(a)'>> \in View!Moves
    <3> DEFINE s == BackendSeen(a)
               t == BackendSeen(a)'
    <3>1. Moved(a) BY NextView DEF ViewStep
    <3>2. s \in View!States /\ t \in View!States BY DEF SeenIs
    <3>3. s \in {"cold", "evicting", "unavailable"} => t # "ready"
      BY <3>1 DEF Moved, SeenIs
    <3>4. s = "ready" => t \notin {"starting", "unavailable"}
      BY <3>1 DEF Moved, SeenIs
    <3>5. s = "unavailable" => t \notin {"starting", "evicting"}
      BY <3>1 DEF Moved, SeenIs
    <3>6. s = "cold" => t # "evicting" BY <3>1 DEF Moved, SeenIs
    <3> HIDE DEF s, t
    <3>7. t # s => <<s, t>> \in View!Moves
      BY <3>2, <3>3, <3>4, <3>5, <3>6 DEF View!States, View!Moves
    <3> QED BY <3>2, <3>7 DEF s, t
  <2> QED BY <2>1 DEF View!BackendsNext
<1>3. IInv /\ ViewInv /\ SeenIs => RegistryAgrees
  BY WarmSettled DEF SeenIs, RegistryAgrees, ViewInv
<1> QED
  BY <1>1, <1>2, <1>3, SeenIsRight, ViewInvariant, PTL
     DEF Spec, BackendsAsAssumed, View!BackendsSpec
=============================================================================
