----------------------- MODULE DriveScheduler_proofs -----------------------
(***************************************************************************)
(* Proofs about DriveScheduler for any hierarchy of drives, any tasks and  *)
(* any bounds.                                                             *)
(*                                                                         *)
(* Every call first settles a lease that is over, so the step to look at   *)
(* starts from the pair (Tasks, Live) rather than (task, active): LiveKeeps *)
(* shows that the pair is as good, and each call is then one change to it. *)
(***************************************************************************)
EXTENDS DriveScheduler, TLAPS

Coherent(table, lease) ==
  \A t \in Task : table[t].status = "leased" <=> lease # NoLease /\ lease.task = t

WithinBudget(table) ==
  \A t \in Task : table[t].status = "leased" => table[t].attempts <= table[t].maxAttempts

LeaseRec == [id: Lease \cup {None}, task: Task \cup {None}, expiresAt: Nat]

(* A lease and the tasks it goes with. *)
Good(table, lease) ==
  /\ table \in [Task -> TaskRec]
  /\ lease \in LeaseRec
  /\ lease # NoLease => lease.task \in Task
  /\ Coherent(table, lease)
  /\ WithinBudget(table)

Rest ==
  /\ drive \in [Drive -> {"none", "on", "off"}]
  /\ registered \in Seq(Task)
  /\ idle \in BOOLEAN
  /\ promotions \in 0..MaxPromotions
  /\ held \subseteq Lease
  /\ now \in 0..MaxTime

IInv == Good(task, active) /\ Rest /\ LeasedOnlyIdle

-----------------------------------------------------------------------------
(* settleTask() keeps the types and the budget and ends the lease. *)
LEMMA SettledKeeps ==
  ASSUME NEW table \in [Task -> TaskRec], NEW t \in Task,
         NEW succeeded \in BOOLEAN, now \in Nat, WithinBudget(table)
  PROVE  LET new == Settled(table, t, succeeded) IN
         /\ new \in [Task -> TaskRec]
         /\ WithinBudget(new)
         /\ new[t].status # "leased"
         /\ \A u \in Task \ {t} : new[u] = table[u]
<1> DEFINE at == now + Data[t].cooldown
           again == [table EXCEPT ![t].status = "ready", ![t].eligibleAt = at]
           last == [table EXCEPT ![t].status = IF succeeded THEN "completed"
                                               ELSE "exhausted"]
<1>1. at \in Nat BY SchedulerAssumption
<1>2. Settled(table, t, succeeded) \in {again, last} BY DEF Settled
<1>3. again[t] = [table[t] EXCEPT !.status = "ready", !.eligibleAt = at]
      /\ \A u \in Task \ {t} : again[u] = table[u]
  OBVIOUS
<1>4. last[t] = [table[t] EXCEPT !.status = IF succeeded THEN "completed"
                                            ELSE "exhausted"]
      /\ \A u \in Task \ {t} : last[u] = table[u]
  OBVIOUS
<1>5. table[t] \in TaskRec OBVIOUS
<1>6. again[t] \in TaskRec /\ last[t] \in TaskRec
  BY <1>1, <1>3, <1>4, <1>5 DEF TaskRec
<1>7. again \in [Task -> TaskRec] BY <1>3, <1>6
<1>8. last \in [Task -> TaskRec] BY <1>4, <1>6
<1>9. again[t].status = "ready" /\ again[t].attempts = table[t].attempts
      /\ again[t].maxAttempts = table[t].maxAttempts
  BY <1>3, <1>5 DEF TaskRec
<1>10. last[t].status # "leased" /\ last[t].attempts = table[t].attempts
       /\ last[t].maxAttempts = table[t].maxAttempts
  BY <1>4, <1>5 DEF TaskRec
<1> HIDE DEF again, last
<1>11. WithinBudget(again) BY <1>3, <1>9 DEF WithinBudget
<1>12. WithinBudget(last) BY <1>4, <1>10 DEF WithinBudget
<1> QED BY <1>2, <1>3, <1>4, <1>7, <1>8, <1>9, <1>10, <1>11, <1>12

(* Ending a lease leaves no task leased. *)
LEMMA SettledGood ==
  ASSUME NEW table, NEW lease, Good(table, lease), lease # NoLease,
         NEW succeeded \in BOOLEAN, now \in Nat
  PROVE  Good(Settled(table, lease.task, succeeded), NoLease)
<1> DEFINE t == lease.task
           new == Settled(table, t, succeeded)
<1>1. t \in Task /\ table \in [Task -> TaskRec] /\ WithinBudget(table)
  BY DEF Good
<1>2. /\ new \in [Task -> TaskRec] /\ WithinBudget(new)
      /\ new[t].status # "leased"
      /\ \A u \in Task \ {t} : new[u] = table[u]
  BY <1>1, SettledKeeps
<1>3. \A u \in Task \ {t} : table[u].status # "leased"
  BY DEF Good, Coherent
<1> HIDE DEF new, t
<1>4. \A u \in Task : new[u].status # "leased" BY <1>2, <1>3
<1>5. NoLease \in LeaseRec BY DEF NoLease, LeaseRec
<1> QED BY <1>2, <1>4, <1>5 DEF Good, Coherent, t, new

(* The task table and the lease as the next call sees them, after an expiry  *)
(* it may trigger, are as good as the stored ones.                           *)
LEMMA LiveKeeps ==
  ASSUME IInv
  PROVE  Good(Tasks, Live) /\ now \in Nat /\ (Live # NoLease => idle)
<1>1. now \in Nat BY SchedulerAssumption DEF IInv, Rest
<1>2. Good(task, active) BY DEF IInv
<1>3. CASE Over
  <2>1. active # NoLease BY <1>3 DEF Over
  <2>2. FALSE \in BOOLEAN OBVIOUS
  <2>3. Good(Settled(task, active.task, FALSE), NoLease)
    BY <1>1, <1>2, <2>1, <2>2, SettledGood
  <2> QED BY <1>1, <1>3, <2>3 DEF Tasks, Live
<1>4. CASE ~Over BY <1>1, <1>2, <1>4 DEF Tasks, Live, IInv, LeasedOnlyIdle
<1> QED BY <1>3, <1>4

-----------------------------------------------------------------------------
(* The invariant holds of an empty registry. *)
LEMMA SchedInitInv == SchedInit => IInv
<1> SUFFICES ASSUME SchedInit PROVE IInv OBVIOUS
<1>1. Unregistered \in TaskRec BY DEF Unregistered, TaskRec
<1>2. task \in [Task -> TaskRec] BY <1>1 DEF SchedInit
<1>3. active \in LeaseRec BY DEF SchedInit, NoLease, LeaseRec
<1>4. Coherent(task, active) BY DEF SchedInit, Coherent, Unregistered
<1>5. WithinBudget(task) BY DEF SchedInit, WithinBudget, Unregistered
<1>6. Rest
  <2>1. << >> \in Seq(Task) OBVIOUS
  <2>2. 0 \in 0..MaxPromotions /\ 0 \in 0..MaxTime BY SchedulerAssumption
  <2>3. drive \in [Drive -> {"none", "on", "off"}] BY DEF SchedInit
  <2>4. registered = << >> /\ idle = FALSE /\ promotions = 0 /\ held = {} /\ now = 0
    BY DEF SchedInit
  <2> QED BY <2>1, <2>2, <2>3, <2>4 DEF Rest
<1> QED BY <1>2, <1>3, <1>4, <1>5, <1>6 DEF SchedInit, IInv, Good, LeasedOnlyIdle

(* A task whose record is replaced while it is not leased. *)
LEMMA ReplaceGood ==
  ASSUME NEW t \in Task, NEW rec \in TaskRec, Good(task, active),
         task[t].status # "leased", rec.status # "leased"
  PROVE  Good([task EXCEPT ![t] = rec], active)
BY DEF Good, Coherent, WithinBudget

(* Registering, enabling, disabling and re-arming keep the invariant. *)
LEMMA RegistryInv == ASSUME IInv, RegistryStep PROVE IInv'
<1>1. ASSUME NEW d \in Drive, NEW on \in {"on", "off"},
             RegisterDrive(d, on) \/ SetDriveEnabled(d, on)
      PROVE  IInv'
  BY <1>1 DEF RegisterDrive, SetDriveEnabled, IInv, Rest, LeasedOnlyIdle, Good,
     Coherent, WithinBudget
<1>2. ASSUME NEW t \in Task, NEW max \in 1..MaxAttempts,
             NEW notBefore \in 0..MaxTime, NEW on \in BOOLEAN,
             RegisterTask(t, max, notBefore, on)
      PROVE  IInv'
  <2> DEFINE rec == [status |-> "ready", attempts |-> 0, maxAttempts |-> max,
                     eligibleAt |-> notBefore, enabled |-> on]
  <2>1. rec \in TaskRec BY SchedulerAssumption DEF TaskRec
  <2>2. task' = [task EXCEPT ![t] = rec] /\ task[t].status = "none"
        /\ registered' = Append(registered, t)
        /\ UNCHANGED <<drive, idle, active, promotions, held, now>>
    BY <1>2 DEF RegisterTask
  <2>3. rec.status = "ready" OBVIOUS
  <2> HIDE DEF rec
  <2>4. Good(task', active) BY <2>1, <2>2, <2>3, ReplaceGood DEF IInv
  <2>5. Rest' BY <2>2 DEF IInv, Rest
  <2> QED BY <2>2, <2>4, <2>5 DEF IInv, LeasedOnlyIdle
<1>3. ASSUME NEW t \in Task, NEW max \in 1..MaxAttempts,
             NEW notBefore \in 0..MaxTime, RearmTask(t, max, notBefore)
      PROVE  IInv'
  <2> DEFINE rec == [task[t] EXCEPT !.status = "ready", !.maxAttempts = max,
                                    !.eligibleAt = notBefore, !.attempts = 0]
  <2>1. task[t] \in TaskRec BY DEF IInv, Good
  <2>a. max \in Nat \ {0} /\ notBefore \in Nat /\ 0 \in Nat
    BY SchedulerAssumption
  <2>2. rec \in TaskRec BY <2>1, <2>a DEF TaskRec
  <2>3. rec.status = "ready" BY <2>1 DEF TaskRec
  <2>4. task' = [task EXCEPT ![t] = rec] /\ task[t].status # "leased"
        /\ UNCHANGED <<drive, registered, idle, active, promotions, held, now>>
    BY <1>3 DEF RearmTask, IInv, Good
  <2> HIDE DEF rec
  <2>5. Good(task', active) BY <2>2, <2>3, <2>4, ReplaceGood DEF IInv
  <2> QED BY <2>4, <2>5 DEF IInv, Rest, LeasedOnlyIdle
<1>4. ASSUME NEW t \in Task, NEW on \in BOOLEAN, SetTaskEnabled(t, on)
      PROVE  IInv'
  <2>1. task' = [task EXCEPT ![t].enabled = on]
        /\ UNCHANGED <<drive, registered, idle, active, promotions, held, now>>
    BY <1>4 DEF SetTaskEnabled
  <2> DEFINE rec == [task[t] EXCEPT !.enabled = on]
  <2>a. task \in [Task -> TaskRec] /\ task[t] \in TaskRec BY DEF IInv, Good
  <2>b. /\ rec \in TaskRec /\ rec.status = task[t].status
        /\ rec.attempts = task[t].attempts /\ rec.maxAttempts = task[t].maxAttempts
    BY <2>a DEF TaskRec
  <2>c. task' = [task EXCEPT ![t] = rec] BY <2>1, <2>a
  <2> HIDE DEF rec
  <2>2. task' \in [Task -> TaskRec] BY <2>a, <2>b, <2>c
  <2>3. \A u \in Task : /\ task'[u].status = task[u].status
                        /\ task'[u].attempts = task[u].attempts
                        /\ task'[u].maxAttempts = task[u].maxAttempts
    BY <2>a, <2>b, <2>c
  <2>4. Good(task', active)
    BY <2>2, <2>3 DEF IInv, Good, Coherent, WithinBudget
  <2> QED BY <2>1, <2>4 DEF IInv, Rest, LeasedOnlyIdle
<1>5. ASSUME NEW t \in Task, NEW max \in 1..MaxAttempts, RearmThrows(t, max)
      PROVE  IInv'
  <2> DEFINE rec == [task[t] EXCEPT !.maxAttempts = max]
  <2>1. task[t] \in TaskRec /\ max \in Nat \ {0} BY SchedulerAssumption DEF IInv, Good
  <2>2. rec \in TaskRec /\ rec.status = task[t].status BY <2>1 DEF TaskRec
  <2>3. task' = [task EXCEPT ![t] = rec] /\ task[t].status # "leased"
        /\ UNCHANGED <<drive, registered, idle, active, promotions, held, now>>
    BY <1>5 DEF RearmThrows, IInv, Good
  <2> HIDE DEF rec
  <2>4. Good(task', active) BY <2>2, <2>3, ReplaceGood DEF IInv
  <2> QED BY <2>3, <2>4 DEF IInv, Rest, LeasedOnlyIdle
<1> QED BY <1>1, <1>2, <1>3, <1>4, <1>5 DEF RegistryStep

(* Looking at the scheduler, activity, idleness and time keep it. *)
LEMMA ObserveInv == ASSUME IInv, Look \/ ObserveBusy \/ ObserveIdle \/ Tick PROVE IInv'
<1>1. CASE Look
  <2>1. task' = Tasks /\ active' = Live
        /\ UNCHANGED <<drive, registered, idle, promotions, held, now>>
    BY <1>1 DEF Look
  <2>2. Good(task', active') BY <2>1, LiveKeeps
  <2>3. LeasedOnlyIdle' BY <2>1, LiveKeeps DEF LeasedOnlyIdle
  <2> QED BY <2>1, <2>2, <2>3 DEF IInv, Rest, Good, Coherent, WithinBudget
<1>2. CASE ObserveBusy
  <2>1. /\ active' = NoLease
        /\ task' = IF active = NoLease THEN task ELSE Settled(task, active.task, FALSE)
        /\ idle' = FALSE /\ promotions' = 0
        /\ UNCHANGED <<drive, registered, held, now>>
    BY <1>2 DEF ObserveBusy
  <2>2. Good(task', NoLease)
    <3>1. Good(task, active) /\ now \in Nat BY LiveKeeps DEF IInv
    <3>2. FALSE \in BOOLEAN OBVIOUS
    <3> QED BY <2>1, <3>1, <3>2, SettledGood
  <2>3. Rest'
    <3>1. 0 \in 0..MaxPromotions /\ FALSE \in BOOLEAN BY SchedulerAssumption
    <3> QED BY <2>1, <3>1 DEF IInv, Rest
  <2> QED BY <2>1, <2>2, <2>3 DEF IInv, LeasedOnlyIdle, Good, Coherent, WithinBudget
<1>3. CASE ObserveIdle
  <2>1. task' = Tasks /\ active' = Live /\ idle' = TRUE
        /\ UNCHANGED <<drive, registered, promotions, held, now>>
    BY <1>3 DEF ObserveIdle
  <2>2. Good(task', active') BY <2>1, LiveKeeps
  <2> QED BY <2>1, <2>2 DEF IInv, Rest, LeasedOnlyIdle, Good, Coherent, WithinBudget
<1>4. CASE Tick
  <2>1. now' \in 0..MaxTime BY <1>4, SchedulerAssumption DEF Tick, IInv, Rest
  <2> QED BY <1>4, <2>1 DEF Tick, IInv, Rest, LeasedOnlyIdle, Good, Coherent,
        WithinBudget
<1> QED BY <1>1, <1>2, <1>3, <1>4

(* Leasing the selected candidate keeps it. *)
LEMMA PromoteInv ==
  ASSUME IInv, NEW t \in Task, NEW id \in Lease, NEW caps \in SUBSET Capability,
         TryPromote(t, id, caps)
  PROVE  IInv'
<1> DEFINE rec == [Tasks[t] EXCEPT !.status = "leased",
                                   !.attempts = Tasks[t].attempts + 1]
           new == [id |-> id, task |-> t, expiresAt |-> now + LeaseMs]
<1>1. Good(Tasks, Live) /\ now \in Nat BY LiveKeeps
<1>2. idle /\ Live = NoLease /\ promotions < MaxPromotions
      /\ Tasks[t].attempts < Tasks[t].maxAttempts
  BY DEF TryPromote, Candidate, Eligible
<1>3. Tasks[t] \in TaskRec BY <1>1 DEF Good
<1>4. task' = [Tasks EXCEPT ![t] = rec] /\ active' = new
      /\ promotions' = promotions + 1 /\ held' = held \cup {id}
      /\ UNCHANGED <<drive, registered, idle, now>>
  BY <1>1 DEF TryPromote, Good
<1>5. rec \in TaskRec /\ rec.status = "leased" /\ rec.attempts <= rec.maxAttempts
  <2>1. Tasks[t].attempts + 1 \in Nat
        /\ Tasks[t].attempts + 1 <= Tasks[t].maxAttempts
    BY <1>2, <1>3 DEF TaskRec
  <2> QED BY <1>3, <2>1 DEF TaskRec
<1>6. new \in LeaseRec /\ new # NoLease /\ new.task = t
  <2>1. new.id = id /\ NoLease.id = None /\ id # None
    BY SchedulerAssumption DEF NoLease
  <2>2. now + LeaseMs \in Nat BY <1>1, SchedulerAssumption
  <2> QED BY <2>1, <2>2 DEF LeaseRec
<1> HIDE DEF rec, new
<1>7. \A u \in Task : Tasks[u].status # "leased"
  BY <1>1, <1>2 DEF Good, Coherent
<1>8. Good(task', new)
  BY <1>1, <1>4, <1>5, <1>6, <1>7 DEF Good, Coherent, WithinBudget
<1>9. Rest' BY <1>2, <1>4, SchedulerAssumption DEF IInv, Rest
<1> QED BY <1>2, <1>4, <1>8, <1>9 DEF IInv, LeasedOnlyIdle, Good, Coherent, WithinBudget

(* Settling a lease, in time or late, keeps it. *)
LEMMA SettleInv ==
  ASSUME IInv, NEW id \in Lease, NEW succeeded \in BOOLEAN, Settle(id, succeeded)
  PROVE  IInv'
<1>1. Good(Tasks, Live) /\ Good(task, active) /\ now \in Nat
      /\ (Live # NoLease => idle)
  BY LiveKeeps DEF IInv
<1>2. held' = held \ {id} /\ UNCHANGED <<drive, registered, idle, promotions, now>>
  BY DEF Settle
<1>3. Rest' BY <1>2 DEF IInv, Rest
<1>4. CASE Live.id = id
  <2>1. Live # NoLease BY <1>4, SchedulerAssumption DEF NoLease
  <2>2. ~Over /\ active # NoLease BY <2>1 DEF Live
  <2>3. active' = NoLease /\ task' = Settled(task, active.task, succeeded)
    BY <1>4 DEF Settle
  <2>4. Good(task', NoLease) BY <1>1, <2>2, <2>3, SettledGood
  <2> QED BY <1>3, <2>3, <2>4 DEF IInv, LeasedOnlyIdle, Good, Coherent, WithinBudget
<1>5. CASE Live.id # id
  <2>1. active' = Live /\ task' = Tasks BY <1>5 DEF Settle
  <2> QED BY <1>1, <1>2, <1>3, <2>1 DEF IInv, LeasedOnlyIdle, Good, Coherent,
        WithinBudget
<1> QED BY <1>4, <1>5

(* Every step keeps the invariant. *)
LEMMA SchedNextInv == IInv /\ [SchedNext]_schedVars => IInv'
<1> SUFFICES ASSUME IInv, [SchedNext]_schedVars PROVE IInv' OBVIOUS
<1>1. CASE UNCHANGED schedVars
  BY <1>1 DEF schedVars, IInv, Rest, LeasedOnlyIdle, Good, Coherent, WithinBudget
<1>2. CASE SchedNext
  BY <1>2, RegistryInv, ObserveInv, PromoteInv, SettleInv DEF SchedNext
<1> QED BY <1>1, <1>2

(* The types, the coherence of lease and task and the budgets hold together  *)
(* in every reachable state of the scheduler.                                *)
THEOREM Invariance == SchedSpec => []IInv
BY SchedInitInv, SchedNextInv, PTL DEF SchedSpec

(* SchedTypeOK is invariant; with it the promotions of an idle epoch never *)
(* exceed maxPromotionsPerIdleEpoch (tryPromote, observeExternalState).    *)
THEOREM TypeCorrect == SchedSpec => []SchedTypeOK
<1>1. IInv => SchedTypeOK BY DEF IInv, Rest, Good, SchedTypeOK, LeaseRec
<1> QED BY <1>1, Invariance, PTL

(* A task is leased exactly while the active lease is for it (leaseTask,   *)
(* settleTask, rearmTask, #expireActive, abortActive).                     *)
THEOREM LeaseMatchesTask == SchedSpec => []LeaseCoherent
<1>1. IInv => LeaseCoherent BY DEF IInv, Good, Coherent, LeaseCoherent
<1> QED BY <1>1, Invariance, PTL

(* A lease is active only in an idle epoch (observeExternalState).         *)
THEOREM ActivityAborts == SchedSpec => []LeasedOnlyIdle
<1>1. IInv => LeasedOnlyIdle BY DEF IInv
<1> QED BY <1>1, Invariance, PTL

(* A task that runs is within the budget in force, also after a re-arming  *)
(* that threw half way (selectCandidate, leaseTask, settleTask, rearmTask).*)
THEOREM BudgetKept == SchedSpec => []AttemptsWithinBudget
<1>1. IInv => AttemptsWithinBudget
  BY DEF IInv, Good, WithinBudget, AttemptsWithinBudget
<1> QED BY <1>1, Invariance, PTL

(* A settle() of a lease that was lost changes neither the active lease    *)
(* nor its task (settle).                                                  *)
THEOREM LateSettle == SchedSpec => StaleSettleHarmless
<1>1. ASSUME [SchedNext]_schedVars, NEW id \in held \ held', active.id # id, ~Over
      PROVE  active' = active /\ task' = task
  <2>1. PICK x \in Lease, succeeded \in BOOLEAN : Settle(x, succeeded)
    BY <1>1 DEF SchedNext, schedVars, RegistryStep, RegisterDrive, SetDriveEnabled,
       RegisterTask, RearmTask, RearmThrows, SetTaskEnabled, Look, ObserveBusy, ObserveIdle,
       Tick, TryPromote
  <2>2. x = id BY <1>1, <2>1 DEF Settle
  <2> QED BY <1>1, <2>1, <2>2 DEF Settle, Live, Tasks
<1>2. [SchedNext]_schedVars =>
        [\A id \in held \ held' :
           active.id # id /\ ~Over => active' = active /\ task' = task]_schedVars
  BY <1>1
<1> QED BY <1>2, PTL DEF SchedSpec, StaleSettleHarmless
=============================================================================
