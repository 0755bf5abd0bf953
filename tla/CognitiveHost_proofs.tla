------------------------ MODULE CognitiveHost_proofs ------------------------
(***************************************************************************)
(* NoOrphanLease for any number of calls and leases the host assumption    *)
(* allows.  What the memory does is of no account here: the lease and its  *)
(* holder are moved by few steps, and each is one of four effects.         *)
(***************************************************************************)
EXTENDS CognitiveHost, TLAPS

Dreaming == {"dreaming", "dreamFails"}

(* A turn has the fields it was made with. *)
Shape(t) ==
  t = [pc |-> t.pc, session |-> t.session, key |-> t.key, told |-> t.told,
       dreamed |-> t.dreamed, lease |-> t.lease, todo |-> t.todo, next |-> t.next]

TurnOK(t) ==
  /\ Shape(t)
  /\ t.lease \in DreamLease \cup {None}
  /\ t.lease # None => t.pc \in Dreaming

TurnsOK == turn = [c \in Call |-> turn[c]] /\ \A c \in Call : TurnOK(turn[c])

ActiveLeased == active # Sched!NoLease => active.id \in DreamLease

HInv == TurnsOK /\ ActiveLeased /\ NoOrphanLease

(* Only the turn of call c changes, and it stays well formed. *)
Turned(c) ==
  /\ turn' = [d \in Call |-> turn'[d]]
  /\ \A d \in Call \ {c} : turn'[d] = turn[d]
  /\ TurnOK(turn'[c])

(* The lease the scheduler has out is the one it had, or over. *)
OrOver == active' \in {active, Sched!NoLease}

-----------------------------------------------------------------------------
(* The host opens without a lease. *)
LEMMA HostStarts == HostInit => HInv
<1> SUFFICES ASSUME HostInit PROVE HInv OBVIOUS
<1> USE DEF HostInit, SchedOpened
<1>1. TurnsOK BY DEF TurnsOK, TurnOK, Shape, NoTurn
<1>2. ActiveLeased BY DEF ActiveLeased
<1>3. {turn[c].lease : c \in Call} \subseteq {None} BY DEF NoTurn
<1>4. NoOrphanLease BY <1>3 DEF NoOrphanLease, NoTurn
<1> QED BY <1>1, <1>2, <1>4 DEF HInv

(* A turn that keeps its lease, or has none, keeps the invariant. *)
LEMMA KeepsLease ==
  ASSUME HInv, NEW c \in Call, Turned(c), turn'[c].lease = turn[c].lease,
         held' = held, OrOver
  PROVE  HInv'
<1>1. TurnsOK' BY DEF HInv, TurnsOK, Turned
<1>2. \A d \in Call : turn'[d].lease = turn[d].lease BY DEF Turned
<1>3. active' # Sched!NoLease => active' = active BY DEF OrOver
<1>4. ActiveLeased' BY <1>3 DEF HInv, ActiveLeased, Sched!NoLease
<1>5. {turn'[d].lease : d \in Call} = {turn[d].lease : d \in Call} BY <1>2
<1>6. NoOrphanLease' BY <1>2, <1>3, <1>5 DEF HInv, NoOrphanLease, Sched!NoLease
<1> QED BY <1>1, <1>4, <1>6 DEF HInv

(* A turn that gives up its lease to settle() leaves none behind. *)
LEMMA GivesUpLease ==
  ASSUME HInv, NEW c \in Call, Turned(c), turn'[c].lease = None,
         held' = held \ {turn[c].lease}, OrOver,
         active' # Sched!NoLease => active.id # turn[c].lease
  PROVE  HInv'
<1>1. TurnsOK' BY DEF HInv, TurnsOK, Turned
<1>2. \A d \in Call \ {c} : turn'[d] = turn[d] BY DEF Turned
<1>3. active' # Sched!NoLease => active' = active BY DEF OrOver
<1>4. ActiveLeased' BY <1>3 DEF HInv, ActiveLeased, Sched!NoLease
<1>5. \A d \in Call \ {c} : turn[d].lease # None => turn[d].lease # turn[c].lease
  BY DEF HInv, NoOrphanLease
<1>6. held' = {turn'[d].lease : d \in Call} \ {None}
  <2>1. held = {turn[d].lease : d \in Call} \ {None} BY DEF HInv, NoOrphanLease
  <2>2. ASSUME NEW l \in held' PROVE l \in {turn'[d].lease : d \in Call} \ {None}
    <3>1. PICK d \in Call : l = turn[d].lease /\ l # None BY <2>1, <2>2
    <3>2. d # c BY <2>2, <3>1
    <3> QED BY <1>2, <3>1, <3>2
  <2>3. ASSUME NEW d \in Call, turn'[d].lease # None PROVE turn'[d].lease \in held'
    <3>1. d # c BY <2>3
    <3> QED BY <1>2, <1>5, <2>1, <2>3, <3>1
  <2> QED BY <2>2, <2>3
<1>7. active' # Sched!NoLease => \E d \in Call : turn'[d].lease = active'.id
  BY <1>2, <1>3 DEF HInv, NoOrphanLease, Sched!NoLease
<1>8. \A d, e \in Call : turn'[d].lease # None /\ turn'[d].lease = turn'[e].lease => d = e
  BY <1>2 DEF HInv, NoOrphanLease
<1> QED BY <1>1, <1>4, <1>6, <1>7, <1>8 DEF HInv, NoOrphanLease, Sched!NoLease

(* A turn that takes a new lease is the only one to have it. *)
LEMMA TakesLease ==
  ASSUME HInv, NEW c \in Call, Turned(c), turn[c].lease = None,
         NEW id \in DreamLease, id \notin held, turn'[c].lease = id,
         held' = held \cup {id}, active'.id = id
  PROVE  HInv'
<1>0. id # None BY LeaseAssumption
<1>1. TurnsOK' BY DEF HInv, TurnsOK, Turned
<1>2. \A d \in Call \ {c} : turn'[d] = turn[d] BY DEF Turned
<1>3. ActiveLeased' BY DEF ActiveLeased
<1>4. held = {turn[d].lease : d \in Call} \ {None} BY DEF HInv, NoOrphanLease
<1>5. \A d \in Call : turn[d].lease # id BY <1>0, <1>4
<1>6. held' = {turn'[d].lease : d \in Call} \ {None}
  <2>1. ASSUME NEW l \in held' PROVE l \in {turn'[d].lease : d \in Call} \ {None}
    <3>1. CASE l = id BY <1>0, <3>1
    <3>2. CASE l \in held
      <4>1. PICK d \in Call : l = turn[d].lease /\ l # None BY <1>4, <3>2
      <4> QED BY <1>2, <4>1
    <3> QED BY <2>1, <3>1, <3>2
  <2>2. ASSUME NEW d \in Call, turn'[d].lease # None PROVE turn'[d].lease \in held'
    <3>1. CASE d = c BY <3>1
    <3>2. CASE d # c BY <1>2, <1>4, <2>2, <3>2
    <3> QED BY <3>1, <3>2
  <2> QED BY <2>1, <2>2
<1>7. \A d, e \in Call : turn'[d].lease # None /\ turn'[d].lease = turn'[e].lease => d = e
  BY <1>2, <1>5 DEF HInv, NoOrphanLease
<1> QED BY <1>1, <1>3, <1>6, <1>7 DEF HInv, NoOrphanLease, Sched!NoLease

(* What leaves the turns alone and takes no lease keeps the invariant. *)
LEMMA TurnsAlone ==
  ASSUME HInv, UNCHANGED <<turn, held>>, OrOver
  PROVE  HInv'
BY DEF HInv, TurnsOK, ActiveLeased, NoOrphanLease, OrOver, Sched!NoLease

-----------------------------------------------------------------------------
(* A turn that goes on elsewhere, within its dream if it has a lease. *)
LEMMA GotoTurned ==
  ASSUME HInv, NEW c \in Call, NEW pc, Goto(c, pc),
         pc \in Dreaming \/ turn[c].lease = None
  PROVE  Turned(c) /\ turn'[c].lease = turn[c].lease
BY DEF HInv, TurnsOK, TurnOK, Shape, Turned, Goto

(* A table of turns in which that of call c is well formed and the others are as
   they were. *)
Table(table, c) ==
  /\ table = [d \in Call |-> table[d]]
  /\ \A d \in Call \ {c} : table[d] = turn[d]
  /\ Shape(table[c])

(* The turns make such a table, and such a table makes well-formed turns. *)
LEMMA Tabled ==
  ASSUME HInv, NEW c \in Call
  PROVE  /\ Table(turn, c)
         /\ Table(turn', c) /\ turn'[c].lease \in DreamLease \cup {None}
               /\ (turn'[c].lease # None => turn'[c].pc \in Dreaming) => Turned(c)
BY DEF HInv, TurnsOK, TurnOK, Table, Turned

(* A turn that returns to its caller. *)
LEMMA ReturnTurned ==
  ASSUME HInv, NEW c \in Call, Return(c)
  PROVE  Turned(c) /\ turn'[c].lease = None
BY DEF HInv, TurnsOK, TurnOK, Shape, Turned, Return, NoTurn

(* A turn whose dream is over has no lease. *)
LEMMA AfterDreamTurned ==
  ASSUME HInv, NEW c \in Call, NEW promoted, AfterDream(c, promoted)
  PROVE  Turned(c) /\ turn'[c].lease = None
<1>1. CASE turn[c].next = "return" BY <1>1, ReturnTurned DEF AfterDream
<1>2. CASE turn[c].next # "return"
  BY <1>2 DEF AfterDream, HInv, TurnsOK, TurnOK, Shape, Turned
<1> QED BY <1>1, <1>2

(* Outside its dream a turn has no lease. *)
LEMMA AwakeWithoutLease ==
  ASSUME HInv, NEW c \in Call, turn[c].pc \notin Dreaming
  PROVE  turn[c].lease = None
BY DEF HInv, TurnsOK, TurnOK

(* A turn that has no lease and stays without one, while the scheduler at most lets
   a lease run out. *)
LEMMA StaysWithout ==
  ASSUME HInv, NEW c \in Call, Turned(c), turn[c].lease = None, turn'[c].lease = None,
         held' = held, OrOver
  PROVE  HInv'
BY KeepsLease

(* settle() of the lease of a turn that then has none. *)
LEMMA SettleKeeps ==
  ASSUME HInv, NEW c \in Call, NEW succeeded, Sched!Settle(turn[c].lease, succeeded),
         Turned(c), turn'[c].lease = None
  PROVE  HInv'
<1>1. held' = held \ {turn[c].lease} BY DEF Sched!Settle
<1>2. OrOver BY DEF OrOver, Sched!Settle, Sched!Live
<1>3. active' # Sched!NoLease => active.id # turn[c].lease
  BY DEF Sched!Settle, Sched!Live
<1> QED BY <1>1, <1>2, <1>3, GivesUpLease

-----------------------------------------------------------------------------
(* The beginning of a turn and of a dream somebody calls. *)
LEMMA BeginKeeps ==
  ASSUME HInv, NEW c \in Call, BeginTurn(c) \/ \E s \in Session : CallDream(c, s)
  PROVE  HInv'
<1>1. turn[c].lease = None BY AwakeWithoutLease DEF BeginTurn, CallDream, At, Dreaming
<1>2. Turned(c) /\ turn'[c].lease = None
  <2>1. CASE BeginTurn(c)
    <3>1. \/ \E s, k : turn' = [turn EXCEPT ![c] = [NoTurn EXCEPT !.pc = "admit",
                                                              !.session = s, !.key = k]]
          \/ Return(c)
      BY <2>1 DEF BeginTurn
    <3> QED BY <3>1, ReturnTurned DEF HInv, TurnsOK, TurnOK, Shape, Turned, NoTurn
  <2>2. CASE \E s \in Session : CallDream(c, s)
    <3>1. \E s : turn' = [turn EXCEPT ![c] = [NoTurn EXCEPT !.pc = "dream", !.session = s,
                                                          !.next = "return"]]
      BY <2>2 DEF CallDream
    <3> QED BY <3>1 DEF HInv, TurnsOK, TurnOK, Shape, Turned, NoTurn
  <2> QED BY <2>1, <2>2
<1>3. held' = held /\ OrOver BY DEF BeginTurn, CallDream, schedVars, OrOver
<1> QED BY <1>1, <1>2, <1>3, StaysWithout

(* The segments of a turn outside its dream. *)
LEMMA TurnKeeps ==
  ASSUME HInv, NEW c \in Call,
         \/ AdmitOrNap(c) \/ ImpressOwn(c)
         \/ \E same \in BOOLEAN : Observe(c, same)
  PROVE  HInv'
<1>1. turn[c].lease = None
  BY AwakeWithoutLease DEF AdmitOrNap, ImpressOwn, Observe, At, Dreaming
<1>2. held' = held /\ OrOver BY DEF AdmitOrNap, ImpressOwn, Observe, schedVars, OrOver
<1>3. CASE \/ \E pc \in {"impress", "observe", "impressing"} : Goto(c, pc)
           \/ Return(c)
  BY <1>1, <1>2, <1>3, GotoTurned, ReturnTurned, StaysWithout
<1>4. CASE \E next \in {"readmit", "return"} :
             turn' = [turn EXCEPT ![c].pc = "dream", ![c].told = TRUE, ![c].next = next]
  <2>0. PICK next \in {"readmit", "return"} :
          turn' = [turn EXCEPT ![c].pc = "dream", ![c].told = TRUE, ![c].next = next]
    BY <1>4
  <2> DEFINE one == [turn EXCEPT ![c].pc = "dream"]
             two == [one EXCEPT ![c].told = TRUE]
             three == [two EXCEPT ![c].next = next]
  <2>1. turn' = three BY <2>0
  <2>2. Table(turn, c) BY Tabled
  <2>3. Table(one, c) /\ one[c].lease = None BY <1>1, <2>2 DEF Table, Shape
  <2> HIDE DEF one
  <2>4. Table(two, c) /\ two[c].lease = None BY <2>3 DEF Table, Shape
  <2> HIDE DEF two
  <2>5. Table(three, c) /\ three[c].lease = None BY <2>4 DEF Table, Shape
  <2> HIDE DEF three
  <2>6. Turned(c) /\ turn'[c].lease = None BY <2>1, <2>5, Tabled
  <2> QED BY <1>1, <1>2, <2>6, StaysWithout
<1>5. CASE AdmitOrNap(c) BY <1>3, <1>4, <1>5 DEF AdmitOrNap
<1>6. CASE ImpressOwn(c) BY <1>3, <1>6 DEF ImpressOwn
<1>7. CASE \E same \in BOOLEAN : Observe(c, same)
  <2>1. PICK same \in BOOLEAN : Observe(c, same) BY <1>7
  <2>2. \/ Return(c)
        \/ turn' = [turn EXCEPT ![c].pc = "dream", ![c].told = TRUE, ![c].next = "return"]
    BY <2>1 DEF Observe
  <2> QED BY <1>3, <1>4, <2>2
<1> QED BY <1>5, <1>6, <1>7

(* An impress ends, well or not. *)
LEMMA ImpressKeeps ==
  ASSUME HInv, NEW c \in Call, ImpressReturns(c) \/ ImpressThrows(c)
  PROVE  HInv'
<1>1. held' = held /\ OrOver BY DEF ImpressReturns, ImpressThrows, schedVars, OrOver
<1>2. CASE At(c, "impressing")
  <2>1. turn[c].lease = None BY <1>2, AwakeWithoutLease DEF At, Dreaming
  <2>2. Goto(c, "observe") \/ Return(c) BY <1>2 DEF ImpressReturns, ImpressThrows
  <2> QED BY <1>1, <2>1, <2>2, GotoTurned, ReturnTurned, StaysWithout
<1>3. CASE ~At(c, "impressing")
  <2>1. Goto(c, "dreaming") \/ Goto(c, "dreamFails")
    BY <1>3 DEF ImpressReturns, ImpressThrows
  <2> QED BY <1>1, <2>1, GotoTurned, KeepsLease DEF Dreaming
<1> QED BY <1>2, <1>3

(* A dream takes its lease. *)
LEMMA DreamBeginsKeeps ==
  ASSUME HInv, NEW c \in Call, DreamBegins(c)
  PROVE  HInv'
<1> DEFINE id == CHOOSE i \in DreamLease \ held : TRUE
<1>1. turn[c].lease = None BY AwakeWithoutLease DEF DreamBegins, At, Dreaming
<1>2. id \in DreamLease /\ id \notin held BY DEF DreamBegins
<1>3. /\ held' = held \cup {id}
      /\ active' = [id |-> id, task |-> DreamTask, expiresAt |-> now + LeaseTicks]
      /\ \E todo : turn' = [turn EXCEPT ![c].pc = "dreaming", ![c].lease = id,
                                       ![c].todo = todo]
  BY DEF DreamBegins
<1> HIDE DEF id
<1>4. Turned(c) /\ turn'[c].lease = id
  <2>0. PICK todo : turn' = [turn EXCEPT ![c].pc = "dreaming", ![c].lease = id,
                                          ![c].todo = todo]
    BY <1>3
  <2> DEFINE one == [turn EXCEPT ![c].pc = "dreaming"]
             two == [one EXCEPT ![c].lease = id]
             three == [two EXCEPT ![c].todo = todo]
  <2>1. turn' = three BY <2>0
  <2>2. Table(turn, c) BY Tabled
  <2>3. Table(one, c) /\ one[c].pc = "dreaming" BY <2>2 DEF Table, Shape
  <2> HIDE DEF one
  <2>4. Table(two, c) /\ two[c].lease = id /\ two[c].pc = "dreaming" BY <2>3 DEF Table, Shape
  <2> HIDE DEF two
  <2>5. Table(three, c) /\ three[c].lease = id /\ three[c].pc = "dreaming"
    BY <2>4 DEF Table, Shape
  <2> HIDE DEF three
  <2> QED BY <1>2, <2>1, <2>5, Tabled DEF Dreaming
<1>5. active'.id = id BY <1>3
<1> QED BY <1>1, <1>2, <1>3, <1>4, <1>5, TakesLease

(* A dream of nothing, and one that is not promoted. *)
LEMMA NoDreamKeeps ==
  ASSUME HInv, NEW c \in Call, DreamsOfNothing(c) \/ NoDream(c)
  PROVE  HInv'
<1>1. turn[c].lease = None
  BY AwakeWithoutLease DEF DreamsOfNothing, NoDream, At, Dreaming
<1>2. Turned(c) /\ turn'[c].lease = None
  BY AfterDreamTurned DEF DreamsOfNothing, NoDream
<1>3. held' = held /\ OrOver
  BY DEF DreamsOfNothing, NoDream, OrOver, Sched!ObserveIdle, Sched!Look, Sched!Live
<1> QED BY <1>1, <1>2, <1>3, StaysWithout

(* A dream goes on to its next item. *)
LEMMA DreamGoesOnKeeps ==
  ASSUME HInv, NEW c \in Call, DreamGoesOn(c)
  PROVE  HInv'
<1>1. held' = held /\ OrOver BY DEF DreamGoesOn, schedVars, OrOver
<1>2. CASE \E todo : turn' = [turn EXCEPT ![c].todo = todo]
  <2>1. Turned(c) /\ turn'[c].lease = turn[c].lease
    BY <1>2 DEF HInv, TurnsOK, TurnOK, Shape, Turned
  <2> QED BY <1>1, <2>1, KeepsLease
<1>3. CASE Goto(c, "dreamFails")
  BY <1>1, <1>3, GotoTurned, KeepsLease DEF Dreaming
<1> QED BY <1>2, <1>3 DEF DreamGoesOn

(* A dream ends or fails, and settles its lease. *)
LEMMA DreamEndKeeps ==
  ASSUME HInv, NEW c \in Call, DreamEnds(c) \/ DreamFails(c)
  PROVE  HInv'
<1>1. \E succeeded \in BOOLEAN : Sched!Settle(turn[c].lease, succeeded)
  BY DEF DreamEnds, DreamFails
<1>2. Turned(c) /\ turn'[c].lease = None
  BY AfterDreamTurned, ReturnTurned DEF DreamEnds, DreamFails
<1> QED BY <1>1, <1>2, SettleKeeps

-----------------------------------------------------------------------------
(* Every step of the host keeps the invariant. *)
LEMMA HostKeeps ==
  ASSUME HInv, [HostNext]_hostVars
  PROVE  HInv'
<1>1. ASSUME NEW c \in Call, TurnStep(c) PROVE HInv'
  <2>1. CASE ReadRef(c) /\ UNCHANGED <<loopVars, schedVars, seq, lastSeq, turn>>
    BY <2>1, TurnsAlone DEF schedVars, OrOver
  <2> QED BY <1>1, <2>1, TurnKeeps, ImpressKeeps, DreamBeginsKeeps, NoDreamKeeps,
             DreamGoesOnKeeps, DreamEndKeeps DEF TurnStep
<1>2. CASE NoteExternalState \/ Clock
  BY <1>2, TurnsAlone
     DEF NoteExternalState, Clock, OrOver, Sched!ObserveBusy, Sched!ObserveIdle,
         Sched!Tick, Sched!Live
<1>3. CASE UNCHANGED hostVars BY <1>3, TurnsAlone DEF hostVars, schedVars, OrOver
<1>4. ASSUME NEW c \in Dreamer, NEW s \in Session, CallDream(c, s) PROVE HInv'
  BY <1>4, BeginKeeps, LeaseAssumption
<1> QED BY <1>1, <1>2, <1>3, <1>4, BeginKeeps DEF HostNext

(* The inductive invariant of the host: a turn has a lease only inside its dream,
   and the scheduler's lease is that of a turn. *)
THEOREM HostInvariant == HostSpec => []HInv
<1>1. HostInit => HInv BY HostStarts
<1>2. HInv /\ [HostNext]_hostVars => HInv' BY HostKeeps
<1> QED BY <1>1, <1>2, PTL DEF HostSpec

(* No failure of the store, no activity, no expiry and no other turn leaves a lease
   of the dream task that nobody will settle. *)
THEOREM LeasesOwned == HostSpec => []NoOrphanLease
<1>1. HInv => NoOrphanLease BY DEF HInv
<1> QED BY <1>1, HostInvariant, PTL
=============================================================================
