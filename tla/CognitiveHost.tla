--------------------------- MODULE CognitiveHost ---------------------------
(***************************************************************************)
(* The host of Green Brainz: CognitiveHost in host/cognitive-host.mjs,     *)
(* which composes the memory loop (module MemoryLoop) with the scheduler   *)
(* (module DriveScheduler).  A turn of a session is expressed, admitted,   *)
(* impressed and observed; when the working set is full, or the session    *)
(* stutters, the turn dreams: it takes a lease of the dream task and       *)
(* impresses what is in attention.  Turns run concurrently; an action is   *)
(* the code between two awaits.                                            *)
(*                                                                         *)
(* Actions of turns differ by a counter that all turns share, so that a    *)
(* session repeats an action only when turns overlap.  With two calls at   *)
(* once it repeats an action once, which is the rung "nap"; the rungs      *)
(* above and the cycles need more calls, and module MemoryLoop has them.   *)
(***************************************************************************)
EXTENDS MemoryLoop

CONSTANTS
  DreamTask,     \* DREAM_TASK_ID, the only task
  DreamDrive,    \* NAP_HINT_DRIVE
  DreamRight,    \* DREAM_CAPABILITY
  DreamLease,    \* lease ids
  DreamAttempts, \* maxAttempts of the task
  LeaseTicks,    \* leaseDurationMs
  LastTick,      \* bound of the model: the last clock reading
  TurnKey,       \* bound of the model: the key of each turn since the host was opened
  Dreamer,       \* bound of the model: the calls that may be somebody's own dream()
  WriteThrough   \* the keys of turns that are to persist

ASSUME TwoAtOnce == IsFiniteSet(Call) /\ Cardinality(Call) <= 2
ASSUME LeaseAssumption == None \notin DreamLease /\ Dreamer \subseteq Call

VARIABLES drive, task, registered, idle, active, promotions, held, now

(* The scheduler the host opens, with one drive, one repeating task and one
   promotion in each idle epoch; Idle is the same scheduler after
   observeExternalState() was told that the host is idle. *)
DreamData == [t \in {DreamTask} |->
  [drive |-> DreamDrive, priority |-> 0, needs |-> {DreamRight}, repeat |-> TRUE,
   cooldown |-> 1]]

Sched == INSTANCE DriveScheduler WITH
  Drive <- {DreamDrive}, Parent <- [d \in {DreamDrive} |-> None],
  Rank <- [d \in {DreamDrive} |-> 0], Task <- {DreamTask}, Data <- DreamData,
  Capability <- {DreamRight}, Lease <- DreamLease, MaxAttempts <- DreamAttempts,
  MaxPromotions <- 1, LeaseMs <- LeaseTicks, MaxTime <- LastTick

IdleSched == INSTANCE DriveScheduler WITH
  Drive <- {DreamDrive}, Parent <- [d \in {DreamDrive} |-> None],
  Rank <- [d \in {DreamDrive} |-> 0], Task <- {DreamTask}, Data <- DreamData,
  Capability <- {DreamRight}, Lease <- DreamLease, MaxAttempts <- DreamAttempts,
  MaxPromotions <- 1, LeaseMs <- LeaseTicks, MaxTime <- LastTick, idle <- TRUE

VARIABLES
  seq,      \* the counter of turns
  lastSeq,  \* per session: the counter in the last action it observed
  turn      \* per call: the turn it serves, and where it waits

schedVars == <<drive, task, registered, idle, active, promotions, held, now>>
memoryVars == <<head, rem, phase, working, touched, stutter, seized, named, call, twins>>
hostVars == <<memoryVars, schedVars, seq, lastSeq, turn>>

NoTurn == [pc |-> "idle", session |-> None, key |-> None, told |-> FALSE,
           dreamed |-> FALSE, lease |-> None, todo |-> {}, next |-> "none"]

(* open(). *)
SchedOpened ==
  /\ drive = [d \in {DreamDrive} |-> "on"]
  /\ task = [t \in {DreamTask} |->
       [status |-> "ready", attempts |-> 0, maxAttempts |-> DreamAttempts,
        eligibleAt |-> 0, enabled |-> TRUE]]
  /\ registered = <<DreamTask>>
  /\ idle = FALSE
  /\ active = Sched!NoLease
  /\ promotions = 0
  /\ held = {}
  /\ now = 0

HostInit ==
  /\ Init
  /\ SchedOpened
  /\ seq = 0
  /\ lastSeq = [s \in Session |-> 0]
  /\ turn = [c \in Call |-> NoTurn]

-----------------------------------------------------------------------------
At(c, pc) == turn[c].pc = pc
Goto(c, pc) == turn' = [turn EXCEPT ![c].pc = pc]
Return(c) == turn' = [turn EXCEPT ![c] = NoTurn]

(* observeTurn() and its express(), which throws when the audit log cannot be written:
   the key is in derivation then all the same. *)
BeginTurn(c) ==
  /\ At(c, "idle")
  /\ seq < Len(TurnKey)
  /\ seq' = seq + 1
  /\ LET k == TurnKey[seq'] IN
       /\ Express(k)
       /\ \/ turn' = [turn EXCEPT ![c] = [NoTurn EXCEPT !.pc = "admit", !.session = Owner[k],
                                                        !.key = k]]
          \/ Return(c)
  /\ UNCHANGED <<schedVars, lastSeq>>

(* Somebody calls dream() of a session by itself.  A state it brings along is the
   step NoteExternalState before it. *)
CallDream(c, s) ==
  /\ At(c, "idle")
  /\ turn' = [turn EXCEPT ![c] = [NoTurn EXCEPT !.pc = "dream", !.session = s,
                                                !.next = "return"]]
  /\ UNCHANGED <<memoryVars, schedVars, seq, lastSeq>>

(* Mutant: a turn that finds no room naps until there is. *)
AdmitUntilRoom(c) ==
  LET k == turn[c].key IN
  /\ At(c, "admit") \/ At(c, "readmit")
  /\ IF HasRoom(turn[c].session)
     THEN /\ Admit(k)
          /\ Goto(c, IF k \in WriteThrough THEN "impress" ELSE "observe") \/ Return(c)
     ELSE /\ UNCHANGED memoryVars
          /\ turn' = [turn EXCEPT ![c].pc = "dream", ![c].told = TRUE,
                                    ![c].next = "readmit"]
  /\ UNCHANGED <<schedVars, seq, lastSeq>>

(* admit(), the first time and after the dream; the second nap ends the turn, and so
   does an audit log that cannot be written once the key is in attention. *)
AdmitOrNap(c) ==
  LET k == turn[c].key IN
  /\ At(c, "admit") \/ At(c, "readmit")
  /\ IF HasRoom(turn[c].session)
     THEN /\ Admit(k)
          /\ Goto(c, IF k \in WriteThrough THEN "impress" ELSE "observe") \/ Return(c)
     ELSE /\ UNCHANGED memoryVars
          /\ IF At(c, "readmit") THEN Return(c)
             ELSE turn' = [turn EXCEPT ![c].pc = "dream", ![c].told = TRUE,
                                    ![c].next = "readmit"]
  /\ UNCHANGED <<schedVars, seq, lastSeq>>

(* impress() of the turn's key, which a dream may have impressed already: it throws
   then, and so does the turn. *)
ImpressOwn(c) ==
  LET k == turn[c].key IN
  /\ At(c, "impress")
  /\ IF Awake(k) /\ phase[k] = "attention"
     THEN Impress(c, k) /\ Goto(c, "impressing")
     ELSE UNCHANGED memoryVars /\ Return(c)
  /\ UNCHANGED <<schedVars, seq, lastSeq>>

(* An impress ends: of the turn's key, or of a key in its dream.  Its transition
   throws when the key was moved meanwhile, or when it cannot write the audit log. *)
ImpressReturns(c) ==
  LET good == MayMove(rem[c].key, "integration") IN
  /\ Impressed(c)
  /\ IF At(c, "impressing")
     THEN (good /\ Goto(c, "observe")) \/ Return(c)
     ELSE (good /\ Goto(c, "dreaming")) \/ Goto(c, "dreamFails")
  /\ UNCHANGED <<schedVars, seq, lastSeq>>

ImpressThrows(c) ==
  /\ StoreFails(c)
  /\ IF At(c, "impressing") THEN Return(c) ELSE Goto(c, "dreamFails")
  /\ UNCHANGED <<schedVars, seq, lastSeq>>

(* observeAction() and what observeTurn() does with its answer. *)
Observe(c, same) ==
  LET s    == turn[c].session
      step == LadderStep(IF same THEN stutter[s].run + 1 ELSE 1, stutter[s].recoveries, FALSE) IN
  /\ At(c, "observe")
  /\ same => lastSeq[s] = seq
  /\ ObserveAction(c, s, same, FALSE)
  /\ lastSeq' = [lastSeq EXCEPT ![s] = seq]
  /\ IF step = "nap" /\ s \notin seized /\ ~turn[c].dreamed
     THEN turn' = [turn EXCEPT ![c].pc = "dream", ![c].told = TRUE,
                               ![c].next = "return"]
     ELSE Return(c)
  /\ UNCHANGED <<schedVars, seq>>

-----------------------------------------------------------------------------
(* What the turn does when its dream is over. *)
AfterDream(c, promoted) ==
  IF turn[c].next = "return" THEN Return(c)
  ELSE turn' = [turn EXCEPT ![c] = [@ EXCEPT !.pc = "readmit", !.dreamed = promoted,
                                             !.lease = None, !.todo = {}]]

InAttention(s) == {k \in working[s] : phase[k] = "attention"}

(* dream() of a turn tells the scheduler that the host is idle. *)
CanDream(c) ==
  IF turn[c].told THEN IdleSched!Candidate(DreamTask, {DreamRight})
  ELSE Sched!Candidate(DreamTask, {DreamRight})

LeasedTable == [Sched!Tasks EXCEPT ![DreamTask].status = "leased",
                                   ![DreamTask].attempts = Sched!Tasks[DreamTask].attempts + 1]

(* dream() up to its first await: the lease is taken, and the first of the items
   in attention is on its way.  Lease ids are random: any that is new will do. *)
DreamBegins(c) ==
  LET s  == turn[c].session
      id == CHOOSE i \in DreamLease \ held : TRUE IN
  /\ At(c, "dream")
  /\ CanDream(c)
  /\ DreamLease \ held # {}
  /\ idle' = (idle \/ turn[c].told)
  /\ task' = LeasedTable
  /\ active' = [id |-> id, task |-> DreamTask, expiresAt |-> now + LeaseTicks]
  /\ promotions' = promotions + 1
  /\ held' = held \cup {id}
  /\ \E k \in InAttention(s) :
       /\ Impress(c, k)
       /\ turn' = [turn EXCEPT ![c].pc = "dreaming", ![c].lease = id,
                               ![c].todo = InAttention(s) \ {k}]
  /\ UNCHANGED <<drive, registered, now, seq, lastSeq>>

(* There is nothing in attention: the lease is settled in the same instant. *)
DreamsOfNothing(c) ==
  /\ At(c, "dream")
  /\ CanDream(c)
  /\ InAttention(turn[c].session) = {}
  /\ idle' = (idle \/ turn[c].told)
  /\ task' = Sched!Settled(LeasedTable, DreamTask, TRUE)
  /\ active' = Sched!NoLease
  /\ promotions' = promotions + 1
  /\ AfterDream(c, TRUE)
  /\ UNCHANGED <<memoryVars, drive, registered, held, now, seq, lastSeq>>

(* tryPromote() promotes nothing. *)
NoDream(c) ==
  /\ At(c, "dream")
  /\ ~CanDream(c)
  /\ IF turn[c].told THEN Sched!ObserveIdle ELSE Sched!Look
  /\ AfterDream(c, FALSE)
  /\ UNCHANGED <<memoryVars, seq, lastSeq>>

(* The next item of the dream; one that left attention since makes it fail. *)
DreamGoesOn(c) ==
  /\ At(c, "dreaming") /\ call[c].kind = "idle"
  /\ \E k \in turn[c].todo :
       IF Awake(k) /\ phase[k] = "attention"
       THEN Impress(c, k) /\ turn' = [turn EXCEPT ![c].todo = turn[c].todo \ {k}]
       ELSE UNCHANGED memoryVars /\ Goto(c, "dreamFails")
  /\ UNCHANGED <<schedVars, seq, lastSeq>>

(* settle() of the dream throws when the lease is over or was aborted: the handler
   then settles once more, which throws again, and the turn fails. *)
DreamEnds(c) ==
  /\ At(c, "dreaming") /\ call[c].kind = "idle"
  /\ turn[c].todo = {}
  /\ Sched!Settle(turn[c].lease, TRUE)
  /\ IF Sched!Live.id = turn[c].lease THEN AfterDream(c, TRUE) ELSE Return(c)
  /\ UNCHANGED <<memoryVars, seq, lastSeq>>

(* Mutant: a dream that fails does not settle its lease. *)
DreamForgetsLease(c) ==
  /\ At(c, "dreamFails")
  /\ Return(c)
  /\ UNCHANGED <<memoryVars, schedVars, seq, lastSeq>>

DreamFails(c) ==
  /\ At(c, "dreamFails")
  /\ Sched!Settle(turn[c].lease, FALSE)
  /\ Return(c)
  /\ UNCHANGED <<memoryVars, seq, lastSeq>>

(* noteExternalState(). *)
NoteExternalState ==
  /\ Sched!ObserveBusy \/ Sched!ObserveIdle
  /\ UNCHANGED <<memoryVars, seq, lastSeq, turn>>

Clock == Sched!Tick /\ UNCHANGED <<memoryVars, seq, lastSeq, turn>>

(* What a turn does by itself, once it has begun. *)
TurnStep(c) ==
  \/ AdmitOrNap(c) \/ ImpressOwn(c)
  \/ ReadRef(c) /\ UNCHANGED <<loopVars, schedVars, seq, lastSeq, turn>>
  \/ ImpressReturns(c) \/ ImpressThrows(c)
  \/ \E same \in BOOLEAN : Observe(c, same)
  \/ DreamBegins(c)
  \/ DreamsOfNothing(c) \/ NoDream(c) \/ DreamGoesOn(c) \/ DreamEnds(c) \/ DreamFails(c)

HostNext ==
  \/ \E c \in Call :
       \/ BeginTurn(c)
       \/ TurnStep(c)
  \/ \E c \in Dreamer, s \in Session : CallDream(c, s)
  \/ NoteExternalState
  \/ Clock

(* File operations end, well or not, and the event loop goes on with every call. *)
HostFairness == \A c \in Call : WF_hostVars(TurnStep(c))

HostSpec == HostInit /\ [][HostNext]_hostVars /\ HostFairness

-----------------------------------------------------------------------------
(* A lease of the dream task belongs to a turn that is dreaming: no failure of the
   store, no item that another turn impressed, no activity and no expiry leaves a
   lease that nobody will settle, which would keep every other turn from dreaming. *)
NoOrphanLease ==
  /\ held = {turn[c].lease : c \in Call} \ {None}
  /\ active # Sched!NoLease => \E c \in Call : turn[c].lease = active.id
  /\ \A c, d \in Call : turn[c].lease # None /\ turn[c].lease = turn[d].lease => c = d

(* Every turn and every dream comes back to its caller, with an answer or an error,
   whatever other turns do to its session. *)
TurnReturns == \A c \in Call : ~At(c, "idle") ~> At(c, "idle")
=============================================================================
