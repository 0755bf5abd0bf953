--------------------------- MODULE DriveScheduler ---------------------------
(***************************************************************************)
(* The objective scheduler of Green Brainz: DriveRegistry and              *)
(* IdleDriveScheduler in scheduler/scheduler.mjs.  Every method is         *)
(* synchronous and looks at the clock when it is called; no timer runs, so *)
(* a lease that is over is settled by whatever call comes next.            *)
(*                                                                         *)
(* Payloads, kinds, display names and lastOutcome are left out.            *)
(***************************************************************************)
EXTENDS Naturals, Sequences, FiniteSets

CONSTANTS
  Drive, Parent, Rank,  \* the hierarchy: parentId (or None) and rank
  Task, Data,           \* per task: drive, priority, needs, repeat, cooldown
  Capability,
  Lease,                \* lease ids; one that its holder gave up is reused
  MaxAttempts,          \* the largest attempt budget in use
  MaxPromotions,        \* maxPromotionsPerIdleEpoch
  LeaseMs,              \* leaseDurationMs
  MaxTime,              \* bound of the model: the last clock reading
  None

ASSUME SchedulerAssumption ==
  /\ None \notin Drive \cup Task \cup Lease
  /\ Parent \in [Drive -> Drive \cup {None}]
  /\ Rank \in [Drive -> Nat]
  /\ Data \in [Task -> [drive: Drive, priority: Nat, needs: SUBSET Capability,
                        repeat: BOOLEAN, cooldown: Nat]]
  /\ \A t \in Task : Data[t].repeat => Data[t].cooldown > 0
  /\ MaxAttempts \in Nat \ {0}
  /\ MaxPromotions \in Nat \ {0}
  /\ LeaseMs \in Nat \ {0}
  /\ MaxTime \in Nat

VARIABLES
  drive,       \* "none" before registerDrive, then whether it is enabled
  task,        \* the registered tasks
  registered,  \* task ids in order of registration
  idle, active, promotions,
  held,        \* lease ids their holders have not given to settle() yet
  now

schedVars == <<drive, task, registered, idle, active, promotions, held, now>>

NoLease == [id |-> None, task |-> None, expiresAt |-> 0]

Unregistered == [status |-> "none", attempts |-> 0, maxAttempts |-> 1,
                 eligibleAt |-> 0, enabled |-> FALSE]

SchedInit ==
  /\ drive = [d \in Drive |-> "none"]
  /\ task = [t \in Task |-> Unregistered]
  /\ registered = << >>
  /\ idle = FALSE
  /\ active = NoLease
  /\ promotions = 0
  /\ held = {}
  /\ now = 0

-----------------------------------------------------------------------------
Ancestors(d) ==
  LET up[n \in 0..Cardinality(Drive)] ==
        IF n = 0 THEN {d}
        ELSE up[n - 1] \cup {Parent[e] : e \in up[n - 1] \ {None}} IN
  up[Cardinality(Drive)] \ {None}

(* The ranks from the root to drive d. *)
RankPath(d) ==
  LET path[n \in 0..Cardinality(Drive), e \in Drive] ==
        IF n = 0 \/ Parent[e] = None THEN <<Rank[e]>>
        ELSE Append(path[n - 1, Parent[e]], Rank[e]) IN
  path[Cardinality(Drive), d]

(* compareArrays(p, q) < 0: a proper prefix comes first. *)
PathBefore(p, q) ==
  \E i \in 1..Len(q) :
    /\ \A j \in 1..i - 1 : j <= Len(p) /\ p[j] = q[j]
    /\ i <= Len(p) => p[i] < q[i]

Registered(t, u) ==
  \E i, j \in 1..Len(registered) :
    i < j /\ registered[i] = t /\ registered[j] = u

(* The order of selectCandidate(). *)
Preferred(t, u) ==
  LET p == RankPath(Data[t].drive)
      q == RankPath(Data[u].drive) IN
  \/ PathBefore(p, q)
  \/ /\ p = q
     /\ \/ Data[t].priority < Data[u].priority
        \/ Data[t].priority = Data[u].priority /\ Registered(t, u)

Eligible(table, caps) ==
  {t \in Task :
     /\ table[t].enabled /\ table[t].status = "ready"
     /\ table[t].attempts < table[t].maxAttempts
     /\ now >= table[t].eligibleAt
     /\ \A d \in Ancestors(Data[t].drive) : drive[d] = "on"
     /\ Data[t].needs \subseteq caps}

(* settleTask(): the table after leased task t is settled. *)
Settled(table, t, succeeded) ==
  IF /\ table[t].attempts < table[t].maxAttempts
     /\ Data[t].repeat \/ ~succeeded
  THEN [table EXCEPT ![t].status = "ready",
                     ![t].eligibleAt = now + Data[t].cooldown]
  ELSE [table EXCEPT ![t].status = IF succeeded THEN "completed"
                                   ELSE "exhausted"]

(* expireActive(): the lease and the tasks every other step starts from.   *)
Over == active # NoLease /\ now >= active.expiresAt

Live == IF Over THEN NoLease ELSE active

Tasks == IF Over THEN Settled(task, active.task, FALSE) ELSE task

-----------------------------------------------------------------------------
RegisterDrive(d, on) ==
  /\ drive[d] = "none"
  /\ Parent[d] # None => drive[Parent[d]] # "none"
  /\ drive' = [drive EXCEPT ![d] = on]
  /\ UNCHANGED <<task, registered, idle, active, promotions, held, now>>

SetDriveEnabled(d, on) ==
  /\ drive[d] # "none"
  /\ drive' = [drive EXCEPT ![d] = on]
  /\ UNCHANGED <<task, registered, idle, active, promotions, held, now>>

RegisterTask(t, max, notBefore, on) ==
  /\ task[t].status = "none"
  /\ drive[Data[t].drive] # "none"
  /\ task' = [task EXCEPT ![t] =
                [status |-> "ready", attempts |-> 0, maxAttempts |-> max,
                 eligibleAt |-> notBefore, enabled |-> on]]
  /\ registered' = Append(registered, t)
  /\ UNCHANGED <<drive, idle, active, promotions, held, now>>

SetTaskEnabled(t, on) ==
  /\ task[t].status # "none"
  /\ task' = [task EXCEPT ![t].enabled = on]
  /\ UNCHANGED <<drive, registered, idle, active, promotions, held, now>>

(* Mutant: a leased task may be re-armed. *)
RearmLeased(t, max, notBefore) ==
  /\ task[t].status # "none"
  /\ task' = [task EXCEPT ![t].status = "ready", ![t].maxAttempts = max,
                          ![t].eligibleAt = notBefore, ![t].attempts = 0]
  /\ UNCHANGED <<drive, registered, idle, active, promotions, held, now>>

RearmTask(t, max, notBefore) ==
  /\ task[t].status \notin {"none", "leased"}
  /\ task' = [task EXCEPT ![t].status = "ready", ![t].maxAttempts = max,
                          ![t].eligibleAt = notBefore, ![t].attempts = 0]
  /\ UNCHANGED <<drive, registered, idle, active, promotions, held, now>>

(* Mutant: the new budget is set before the status is looked at. *)
RearmThrowsLate(t, max) ==
  /\ task[t].status # "none"
  /\ task' = [task EXCEPT ![t].maxAttempts = max]
  /\ UNCHANGED <<drive, registered, idle, active, promotions, held, now>>

(* rearmTask() with a notBefore that it refuses, when the budget is set already: the
   task may have had more attempts than it is left with, and waits to be re-armed.  *)
RearmThrows(t, max) ==
  /\ task[t].status \notin {"none", "leased"}
  /\ task' = [task EXCEPT ![t].maxAttempts = max]
  /\ UNCHANGED <<drive, registered, idle, active, promotions, held, now>>

(* state(), and tryPromote() that promotes nothing. *)
Look ==
  /\ active' = Live
  /\ task' = Tasks
  /\ UNCHANGED <<drive, registered, idle, promotions, held, now>>

(* Mutant: activity ends the epoch but leaves the lease. *)
ObserveBusyOnly ==
  /\ idle' = FALSE
  /\ promotions' = 0
  /\ active' = Live
  /\ task' = Tasks
  /\ UNCHANGED <<drive, registered, held, now>>

(* observeExternalState() of activity: abortActive() whatever the clock. *)
ObserveBusy ==
  /\ idle' = FALSE
  /\ promotions' = 0
  /\ active' = NoLease
  /\ task' = IF active = NoLease THEN task ELSE Settled(task, active.task, FALSE)
  /\ UNCHANGED <<drive, registered, held, now>>

ObserveIdle ==
  /\ idle' = TRUE
  /\ active' = Live
  /\ task' = Tasks
  /\ UNCHANGED <<drive, registered, promotions, held, now>>

(* Mutant: promotions of the idle epoch are not limited. *)
CandidateUnlimited(t, caps) ==
  /\ idle /\ Live = NoLease
  /\ t \in Eligible(Tasks, caps)
  /\ \A u \in Eligible(Tasks, caps) \ {t} : Preferred(t, u)

(* The task tryPromote() would lease, if any. *)
Candidate(t, caps) ==
  /\ idle /\ Live = NoLease
  /\ promotions < MaxPromotions
  /\ t \in Eligible(Tasks, caps)
  /\ \A u \in Eligible(Tasks, caps) \ {t} : Preferred(t, u)

TryPromote(t, id, caps) ==
  /\ Candidate(t, caps)
  /\ id \notin held
  /\ task' = [Tasks EXCEPT ![t].status = "leased",
                           ![t].attempts = Tasks[t].attempts + 1]
  /\ active' = [id |-> id, task |-> t, expiresAt |-> now + LeaseMs]
  /\ promotions' = promotions + 1
  /\ held' = held \cup {id}
  /\ UNCHANGED <<drive, registered, idle, now>>

(* Mutant: the lease id is not compared. *)
SettleAny(id, succeeded) ==
  /\ id \in held
  /\ held' = held \ {id}
  /\ active' = NoLease
  /\ task' = IF Live = NoLease THEN Tasks
             ELSE Settled(task, active.task, succeeded)
  /\ UNCHANGED <<drive, registered, idle, promotions, now>>

(* settle(): a lease that is over or was aborted is refused. *)
Settle(id, succeeded) ==
  /\ id \in held
  /\ held' = held \ {id}
  /\ active' = IF Live.id = id THEN NoLease ELSE Live
  /\ task' = IF Live.id = id THEN Settled(task, active.task, succeeded)
             ELSE Tasks
  /\ UNCHANGED <<drive, registered, idle, promotions, now>>

Tick ==
  /\ now < MaxTime
  /\ now' = now + 1
  /\ UNCHANGED <<drive, task, registered, idle, active, promotions, held>>

RegistryStep ==
  \/ \E d \in Drive, on \in {"on", "off"} :
       RegisterDrive(d, on) \/ SetDriveEnabled(d, on)
  \/ \E t \in Task, max \in 1..MaxAttempts, notBefore \in 0..MaxTime :
       \/ \E on \in BOOLEAN : RegisterTask(t, max, notBefore, on)
       \/ RearmTask(t, max, notBefore)
  \/ \E t \in Task, max \in 1..MaxAttempts : RearmThrows(t, max)
  \/ \E t \in Task, on \in BOOLEAN : SetTaskEnabled(t, on)

SchedNext ==
  \/ RegistryStep
  \/ Look \/ ObserveBusy \/ ObserveIdle \/ Tick
  \/ \E t \in Task, id \in Lease, caps \in SUBSET Capability :
       TryPromote(t, id, caps)
  \/ \E id \in Lease, succeeded \in BOOLEAN : Settle(id, succeeded)

SchedSpec == SchedInit /\ [][SchedNext]_schedVars

-----------------------------------------------------------------------------
TaskRec == [status: {"none", "ready", "leased", "completed", "exhausted"},
            attempts: Nat, maxAttempts: Nat \ {0}, eligibleAt: Nat,
            enabled: BOOLEAN]

SchedTypeOK ==
  /\ drive \in [Drive -> {"none", "on", "off"}]
  /\ task \in [Task -> TaskRec]
  /\ registered \in Seq(Task)
  /\ idle \in BOOLEAN
  /\ active \in [id: Lease \cup {None}, task: Task \cup {None}, expiresAt: Nat]
  /\ promotions \in 0..MaxPromotions
  /\ held \subseteq Lease
  /\ now \in 0..MaxTime

(* A task is leased exactly while the scheduler has an active lease for    *)
(* it: no outcome, expiry, abandonment or re-arm leaves a task leased by   *)
(* nobody, which nothing could ever settle again (REQ-8.2.3, REQ-8.2.5).   *)
LeaseCoherent ==
  \A t \in Task : task[t].status = "leased" <=> active # NoLease /\ active.task = t

(* Background work is leased only while the host says it is idle: user     *)
(* activity aborts it (REQ-8.2.4, REQ-8.2.6).                              *)
LeasedOnlyIdle == active # NoLease => idle

(* No attempt is made beyond the budget in force (REQ-8.1.4), however the  *)
(* task was settled, expired or abandoned, and re-armed, in full or only   *)
(* half, before.  The count of a task that does not run may well be over   *)
(* the budget: a rearmTask() that throws half way leaves it so.            *)
AttemptsWithinBudget ==
  \A t \in Task : task[t].status = "leased" => task[t].attempts <= task[t].maxAttempts

(* A holder that settles a lease it lost, to expiry or to user activity,   *)
(* does not settle the lease somebody else got meanwhile.                  *)
StaleSettleHarmless ==
  [][\A id \in held \ held' :
       active.id # id /\ ~Over => active' = active /\ task' = task]_schedVars
=============================================================================
