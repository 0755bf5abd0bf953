--------------------------- MODULE ProcessManager ---------------------------
(***************************************************************************)
(* The owned-process manager of Green Roomz: ProcessManager in             *)
(* src/process-manager.mjs with the availability it writes to the          *)
(* Registry, the idle sweeper, and the shutdown sequence of                *)
(* bin/green-roomz.mjs.                                                    *)
(*                                                                         *)
(* JavaScript runs one synchronous segment at a time, so an action is the  *)
(* code between two awaits that can wait for an event (a timer, a child,   *)
(* a socket).  The environment crashes children at any moment, answers     *)
(* health polls late, and aborts the requests that wait for a start.       *)
(*                                                                         *)
(* Time is abstracted: a deadline may expire whenever its timer is         *)
(* pending, and recency is the order "newer" instead of lastUsedAt.        *)
(***************************************************************************)
EXTENDS Naturals, FiniteSets

CONSTANTS
  Alias,        \* agents with a subprocess runtime
  Resident,     \* the aliases isResidentAgent accepts
  Child,        \* identities of child processes; a dead one is reused
  Client,       \* concurrent callers of ensure()
  Profiles,     \* number of launch profiles of an agent
  MaxWarm,      \* gateway.max_warm_specialists
  SweepEnabled, \* gateway.idle_evict_ms > 0
  CrashExit,    \* whether an uncaught exception may force the exit
  None

ASSUME ConstAssumption ==
  /\ Resident \subseteq Alias
  /\ Profiles \in Nat \ {0}
  /\ MaxWarm \in Nat
  /\ SweepEnabled \in BOOLEAN
  /\ CrashExit \in BOOLEAN
  /\ None \notin Child \cup Client \cup Alias

VARIABLES
  life,       \* what child.exitCode / signalCode say of each child
  owner,      \* record.alias
  recState,   \* record.state
  sent,       \* strongest signal the manager sent to a running child
  processes,  \* Map alias -> record
  status,     \* registry availability state per alias
  start,      \* the start() coroutine behind the starting map
  stops,      \* stop() calls that await stopRecord
  newer,      \* <<c, d>>: c was used (or created) after d
  waiting,    \* the start each caller of ensure() awaits
  aborted,    \* callers whose AbortSignal has fired
  shutdown    \* progress of cmdServe's shutdown()

childVars == <<life, owner, recState, sent>>
vars == <<life, owner, recState, sent, processes, status, start, stops,
          newer, waiting, aborted, shutdown>>

Life      == {"unborn", "running", "exited", "signalled"}
RecState  == {"none", "starting", "ready", "stopping", "exited"}
Status    == {"cold", "starting", "ready", "unavailable"}
Stop      == [alias: Alias, child: Child, by: {"sweep", "stopAll"}]
StartRec  == [pc: {"none", "poll", "answered", "stopping"},
              profile: 0..Profiles,
              child: Child \cup {None},
              by: Client \cup {None}]

NotStarting == [pc |-> "none", profile |-> 0, child |-> None, by |-> None]

Init ==
  /\ life = [c \in Child |-> "unborn"]
  /\ owner = [c \in Child |-> None]
  /\ recState = [c \in Child |-> "none"]
  /\ sent = [c \in Child |-> "none"]
  /\ processes = [a \in Alias |-> None]
  /\ status \in [Alias -> {"cold", "unavailable"}]
  /\ start = [a \in Alias |-> NotStarting]
  /\ stops = {}
  /\ newer = {}
  /\ waiting = [cl \in Client |-> None]
  /\ aborted = {}
  /\ shutdown = "no"

-----------------------------------------------------------------------------
(* The gateway process still executes JavaScript. *)
Up == shutdown # "exited"

Tracked == {processes[a] : a \in Alias} \ {None}

Starting(a) == start[a].pc # "none"

(* child.exitCode === null: also true of a child that a signal killed. *)
ExitCodeNull(c) == life[c] # "exited"

Free(c) ==
  /\ life[c] # "running"
  /\ c \notin Tracked
  /\ \A s \in stops : s.child # c
  /\ \A a \in Alias : start[a].child # c

Forget(c) == {p \in newer : p[1] # c /\ p[2] # c}

Touch(c, others) == Forget(c) \cup {<<c, d>> : d \in others \ {c}}

(* child.kill on a dead child does nothing; SIGKILL is not taken back. *)
Kill(c, sig) ==
  IF life[c] = "running" /\ sent[c] # "KILL" THEN sig ELSE sent[c]

(* What the second half of stop() does to the aliases in A: whatever       *)
(* record the alias has by now is dropped.                                 *)
Drop(A) ==
  LET dropped == {processes[a] : a \in A} IN
  /\ processes' = [a \in Alias |-> IF a \in A THEN None ELSE processes[a]]
  /\ newer' = {p \in newer : p[1] \notin dropped /\ p[2] \notin dropped}

(* Mutant: the registry gets a state name it does not know. *)
ColdMisnamed(A) == [a \in Alias |-> IF a \in A THEN "stopped" ELSE status[a]]

Cold(A) == [a \in Alias |-> IF a \in A THEN "cold" ELSE status[a]]

(* shutdown() calls process.exit once stopAll() awaits nothing any more.   *)
ExitWhenDrained(pending) ==
  IF shutdown = "draining" /\ \A s \in pending : s.by # "stopAll"
  THEN "exited" ELSE shutdown

-----------------------------------------------------------------------------
(* The promise in the starting map settles: every caller that awaits it    *)
(* goes on, with the record or with the error.                             *)
Settle(a, wait) ==
  /\ start' = [start EXCEPT ![a] = NotStarting]
  /\ waiting' = [cl \in Client |-> IF wait[cl] = a THEN None ELSE wait[cl]]
  /\ aborted' = {cl \in aborted : wait[cl] # a}

(* spawn(), the new record, and the first poll.  A command that cannot be  *)
(* executed sets exitCode without an 'exit' event.                         *)
Spawn(a, profile, by, snt, wait) ==
  \E c \in {d \in Child : Free(d)}, born \in {"running", "exited"} :
    /\ life' = [life EXCEPT ![c] = born]
    /\ owner' = [owner EXCEPT ![c] = a]
    /\ recState' = [recState EXCEPT ![c] = "starting"]
    /\ sent' = [snt EXCEPT ![c] = "none"]
    /\ processes' = [processes EXCEPT ![a] = c]
    /\ status' = [status EXCEPT ![a] = "starting"]
    /\ start' = [start EXCEPT ![a] = [pc |-> "poll", profile |-> profile,
                                      child |-> c, by |-> by]]
    /\ newer' = {p \in Touch(c, Tracked) : processes[a] \notin {p[1], p[2]}}
    /\ waiting' = wait
    /\ UNCHANGED aborted

(* Mutant: a failed start leaves the registry at "starting". *)
RejectSilently(a, st, snt, wait) ==
  /\ Settle(a, wait)
  /\ sent' = snt
  /\ UNCHANGED <<life, owner, recState, processes, status, newer>>

Reject(a, st, snt, wait) ==
  /\ status' = [status EXCEPT ![a] = st]
  /\ Settle(a, wait)
  /\ sent' = snt
  /\ UNCHANGED <<life, owner, recState, processes, newer>>

(* The profile loop of start() from profile p on: buildLaunch or spawn may *)
(* throw before there is a record, which moves on to the next profile, or  *)
(* ends the start when the caller's signal has fired.                      *)
TryProfiles(a, p, by, snt, wait) ==
  \/ \E q \in p..Profiles : Spawn(a, q, by, snt, wait)
  \/ Reject(a, "unavailable", snt, wait)
  \/ p <= Profiles /\ by \in aborted /\ Reject(a, "cold", snt, wait)

(* The catch block of start(): /abort/ is looked for in a message that     *)
(* carries the backend's own log tail, so any failure may match.           *)
ProfileFailed(a, snt) ==
  /\ \/ Reject(a, "cold", snt, waiting)
     \/ /\ start[a].by \notin aborted
        /\ TryProfiles(a, start[a].profile + 1, start[a].by, snt, waiting)
  /\ UNCHANGED <<stops, shutdown>>

-----------------------------------------------------------------------------
(* ensure(): the warm path touches the record, a start in progress is      *)
(* shared, otherwise this caller's signal governs the new start.           *)
Warm(a) ==
  /\ processes[a] # None
  /\ recState[processes[a]] = "ready"
  /\ ExitCodeNull(processes[a])

EnsureReady(cl, a) ==
  /\ Up /\ waiting[cl] = None
  /\ Warm(a)
  /\ newer' = Touch(processes[a], Tracked)
  /\ UNCHANGED <<childVars, processes, status, start, stops, waiting, aborted,
                 shutdown>>

EnsureJoin(cl, a) ==
  /\ Up /\ waiting[cl] = None
  /\ ~Warm(a) /\ Starting(a)
  /\ waiting' = [waiting EXCEPT ![cl] = a]
  /\ UNCHANGED <<childVars, processes, status, start, stops, newer, aborted,
                 shutdown>>

(* Mutant: start() does not ask whether the alias was given up. *)
EnsureStartAnyway(cl, a) ==
  /\ Up /\ waiting[cl] = None
  /\ ~Warm(a) /\ ~Starting(a)
  /\ TryProfiles(a, 1, cl, sent, [waiting EXCEPT ![cl] = a])
  /\ UNCHANGED <<stops, shutdown>>

EnsureStart(cl, a) ==
  /\ Up /\ waiting[cl] = None
  /\ ~Warm(a) /\ ~Starting(a)
  /\ status[a] # "unavailable"
  /\ TryProfiles(a, 1, cl, sent, [waiting EXCEPT ![cl] = a])
  /\ UNCHANGED <<stops, shutdown>>

(* The request whose signal governs a start is aborted by its client. *)
Abort(cl) ==
  /\ Up /\ cl \notin aborted
  /\ \E a \in Alias : Starting(a) /\ start[a].by = cl
  /\ aborted' = aborted \cup {cl}
  /\ UNCHANGED <<childVars, processes, status, start, stops, newer, waiting,
                 shutdown>>

-----------------------------------------------------------------------------
(* waitForReady(): the child had not exited at the head of the loop and    *)
(* some process that listens on the alias's port answered the health poll. *)
HealthAnswered(a) ==
  /\ Up /\ start[a].pc = "poll"
  /\ ExitCodeNull(start[a].child)
  /\ \E c \in Child : life[c] = "running" /\ owner[c] = a
  /\ start' = [start EXCEPT ![a].pc = "answered"]
  /\ UNCHANGED <<childVars, processes, status, stops, newer, waiting, aborted,
                 shutdown>>

(* The body is read, or reading it fails and the error is swallowed.       *)
BecomeReady(a) ==
  /\ Up /\ start[a].pc = "answered"
  /\ recState' = [recState EXCEPT ![start[a].child] = "ready"]
  /\ status' = [status EXCEPT ![a] = "ready"]
  /\ Settle(a, waiting)
  /\ UNCHANGED <<life, owner, sent, processes, stops, newer, shutdown>>

(* waitForReady() throws because the child exited: stopRecord returns at   *)
(* once and the profile loop goes on.                                      *)
StartedChildExited(a) ==
  /\ Up /\ start[a].pc = "poll"
  /\ ~ExitCodeNull(start[a].child)
  /\ ProfileFailed(a, sent)

(* Mutant: no health deadline, only the caller's signal ends the poll. *)
GiveUpStartOnAbort(a) ==
  LET c == start[a].child IN
  /\ Up /\ start[a].pc = "poll" /\ start[a].by \in aborted
  /\ ExitCodeNull(c)
  /\ recState' = [recState EXCEPT ![c] = "stopping"]
  /\ sent' = [sent EXCEPT ![c] = Kill(c, "TERM")]
  /\ start' = [start EXCEPT ![a].pc = "stopping"]
  /\ UNCHANGED <<life, owner, processes, status, stops, newer, waiting,
                 aborted, shutdown>>

(* waitForReady() throws on the health deadline or on the abort signal.    *)
GiveUpStart(a) ==
  LET c == start[a].child IN
  /\ Up /\ start[a].pc = "poll"
  /\ ExitCodeNull(c)
  /\ recState' = [recState EXCEPT ![c] = "stopping"]
  /\ sent' = [sent EXCEPT ![c] = Kill(c, "TERM")]
  /\ start' = [start EXCEPT ![a].pc = "stopping"]
  /\ UNCHANGED <<life, owner, processes, status, stops, newer, waiting,
                 aborted, shutdown>>

(* Its stopRecord() is over: the child is gone, or 3 s passed and it is    *)
(* sent SIGKILL without waiting any longer.                                *)
FailedStartStopped(a) ==
  /\ Up /\ start[a].pc = "stopping"
  /\ ProfileFailed(a, [sent EXCEPT ![start[a].child] = Kill(start[a].child, "KILL")])

-----------------------------------------------------------------------------
(* stop() up to its await, for a set of records at once.                   *)
BeginStops(C, by) ==
  /\ recState' = [c \in Child |-> IF c \in C THEN "stopping" ELSE recState[c]]
  /\ sent' = [c \in Child |-> IF c \in C THEN Kill(c, "TERM") ELSE sent[c]]
  /\ stops' = stops \cup {[alias |-> owner[c], child |-> c, by |-> by] : c \in C}

(* Mutant: residents are evicted like any other backend. *)
EvictableResidents ==
  {c \in Tracked : /\ recState[c] = "ready"
                   /\ ExitCodeNull(c)
                   /\ ~Starting(owner[c])}

Evictable ==
  {c \in Tracked : /\ owner[c] \notin Resident
                   /\ recState[c] = "ready"
                   /\ ExitCodeNull(c)
                   /\ ~Starting(owner[c])}

(* sweepIdle(): the over-cap and the idle records both are the least       *)
(* recently used ones, so what is kept is a most recently used part.       *)
SweepIdle ==
  /\ SweepEnabled /\ shutdown = "no"
  /\ \E keep \in SUBSET Evictable :
       /\ keep # Evictable
       /\ Cardinality(keep) <= MaxWarm
       /\ \A k \in keep, d \in Evictable \ keep : <<k, d>> \in newer
       /\ BeginStops(Evictable \ keep, "sweep")
  /\ UNCHANGED <<life, owner, processes, status, start, newer, waiting,
                 aborted, shutdown>>

(* Mutant: the timer only stops waiting, without SIGKILL. *)
StopTimeoutNoKill(s) ==
  /\ Up /\ s \in stops
  /\ stops' = stops \ {s}
  /\ Drop({s.alias})
  /\ status' = Cold({s.alias})
  /\ shutdown' = ExitWhenDrained(stops')
  /\ UNCHANGED <<life, owner, recState, sent, start, waiting, aborted>>

(* The 3 s timer of a stop() fires before the child's exit event: SIGKILL, *)
(* and stop() goes on without waiting for the child.                       *)
StopTimeout(s) ==
  /\ Up /\ s \in stops
  /\ sent' = [sent EXCEPT ![s.child] = Kill(s.child, "KILL")]
  /\ stops' = stops \ {s}
  /\ Drop({s.alias})
  /\ status' = Cold({s.alias})
  /\ shutdown' = ExitWhenDrained(stops')
  /\ UNCHANGED <<life, owner, recState, start, waiting, aborted>>

(* shutdown(): stopAll() stops every record there is at this moment.  A    *)
(* record whose child has exited is dropped at once.                       *)
BeginShutdown ==
  LET live == {c \in Tracked : ExitCodeNull(c)}
      gone == {a \in Alias : processes[a] # None /\ processes[a] \notin live}
  IN
  /\ shutdown = "no"
  /\ shutdown' = IF live = {} THEN "exited" ELSE "draining"
  /\ BeginStops(live, "stopAll")
  /\ Drop(gone)
  /\ status' = Cold(gone)
  /\ UNCHANGED <<life, owner, start, waiting, aborted>>

(* The timer of the uncaughtException handler cuts the drain after 2 s.    *)
ForcedExit ==
  /\ CrashExit /\ shutdown = "draining"
  /\ shutdown' = "exited"
  /\ UNCHANGED <<childVars, processes, status, start, stops, newer, waiting,
                 aborted>>

-----------------------------------------------------------------------------
(* The alias that the exit handler marks as cold, if any. *)
MarkedCold(c) == {a \in Alias : processes[a] = c}

(* A child dies, by itself or by a signal.  The 'exit' handler runs, and   *)
(* with the same event every stop() that waits for this child goes on.     *)
(* (A start that waits for it goes on in FailedStartStopped.)  What        *)
(* happens to children after the gateway has exited is not modelled.       *)
ChildExit(c, how) ==
  LET woken   == {s \in stops : s.child = c}
      stopped == {s.alias : s \in woken}
  IN
  /\ Up /\ life[c] = "running"
  /\ sent[c] = "KILL" => how = "signalled"
  /\ life' = [life EXCEPT ![c] = how]
  /\ recState' = [recState EXCEPT ![c] = "exited"]
  /\ sent' = [sent EXCEPT ![c] = "none"]
  /\ stops' = stops \ woken
  /\ Drop(stopped)
  /\ status' = Cold(stopped \cup MarkedCold(c))
  /\ shutdown' = ExitWhenDrained(stops')
  /\ UNCHANGED <<owner, start, waiting, aborted>>

-----------------------------------------------------------------------------
StartStep(a) ==
  \/ HealthAnswered(a) \/ BecomeReady(a) \/ StartedChildExited(a)
  \/ GiveUpStart(a) \/ FailedStartStopped(a)

Next ==
  \/ \E cl \in Client, a \in Alias :
       EnsureReady(cl, a) \/ EnsureJoin(cl, a) \/ EnsureStart(cl, a)
  \/ \E cl \in Client : Abort(cl)
  \/ \E a \in Alias : StartStep(a)
  \/ SweepIdle
  \/ \E s \in stops : StopTimeout(s)
  \/ BeginShutdown
  \/ ForcedExit
  \/ \E c \in Child, how \in {"exited", "signalled"} : ChildExit(c, how)

Spec == Init /\ [][Next]_vars

(* Timers fire and sockets answer or time out, so every pending segment of *)
(* the manager runs; the kernel ends a child that was sent SIGKILL.        *)
(* Nothing is assumed of clients, of the sweeper or of a shutdown.         *)
Fairness ==
  /\ \A a \in Alias : WF_vars(StartStep(a))
  /\ \A s \in Stop : WF_vars(StopTimeout(s))
  /\ \A c \in Child : WF_vars(sent[c] = "KILL" /\ ChildExit(c, "signalled"))

FairSpec == Spec /\ Fairness

-----------------------------------------------------------------------------
TypeOK ==
  /\ life \in [Child -> Life]
  /\ owner \in [Child -> Alias \cup {None}]
  /\ recState \in [Child -> RecState]
  /\ sent \in [Child -> {"none", "TERM", "KILL"}]
  /\ processes \in [Alias -> Child \cup {None}]
  /\ status \in [Alias -> Status]
  /\ start \in [Alias -> StartRec]
  /\ stops \subseteq Stop
  /\ newer \subseteq Child \X Child
  /\ waiting \in [Client -> Alias \cup {None}]
  /\ aborted \subseteq Client
  /\ shutdown \in {"no", "draining", "exited"}

(* Aliases whose records only their own start may stop while serving: the  *)
(* resident nexus, and every alias when idle eviction is disabled.         *)
Unswept(a) == a \in Resident \/ ~SweepEnabled

(* A backend that runs and was not told to die is in the process table, so *)
(* ensure() reuses it and stopAll() finds it: a resident is never left     *)
(* behind by a crash, an aborted start, a failed profile or a sweep of     *)
(* other aliases (process-manager.mjs ensure, start, startProfile).        *)
UnsweptTracked ==
  shutdown = "no" =>
    \A c \in Child :
      life[c] = "running" /\ sent[c] # "KILL" /\ Unswept(owner[c])
        => processes[owner[c]] = c

(* A "starting" alias has a start that will settle it, and a "ready" one   *)
(* that no sweep may stop a tracked record that was published as ready and *)
(* was neither stopped nor seen to exit since.                             *)
StatusHeld ==
  \A a \in Alias :
    /\ status[a] = "starting" => Starting(a)
    /\ shutdown = "no" /\ Unswept(a) /\ status[a] = "ready"
         => processes[a] # None /\ recState[processes[a]] = "ready"

(* An alias that stays "ready" keeps the child that runs for it.           *)
DeathShown ==
  \A a \in Alias :
    /\ status[a] = "ready" /\ status'[a] = "ready"
    /\ processes[a] # None /\ life[processes[a]] = "running"
    => processes'[a] = processes[a] /\ life'[processes[a]] = "running"

(* The availability the registry advertises is backed by the manager, and  *)
(* no alias stays "ready" while its child dies, whichever exit handler,    *)
(* stop, sweep or start that step belongs to.  That the child of a ready   *)
(* alias lives is more than the code keeps: startProfile (:265-267)        *)
(* publishes a child as ready that exited while the probe's answer was on  *)
(* its way, and its exit event does not come again.                        *)
StatusBacked == StatusHeld /\ [][StatusHeld' /\ DeathShown]_vars

(* An alias as ensure() and the registry show it to a turn. *)
BackendSeen(a) ==
  CASE Warm(a)     -> "ready"
    [] Starting(a) -> "starting"
    [] OTHER       -> IF status[a] = "ready" THEN "evicting" ELSE status[a]

View == INSTANCE Backends
          WITH Backend <- Alias, seen <- [a \in Alias |-> BackendSeen(a)]

(* The manager keeps what the turns of module ChatTurn assume of it: the   *)
(* backends move as module Backends says, whatever starts, stops, sweeps   *)
(* and exits overlap, and the registry tells a turn which of them are      *)
(* ready and which were given up.                                          *)
RegistryAgrees ==
  \A a \in Alias :
    /\ status[a] = "ready" <=> BackendSeen(a) \in {"ready", "evicting"}
    /\ status[a] = "unavailable" <=> BackendSeen(a) = "unavailable"

BackendsAsAssumed == View!BackendsSpec /\ []RegistryAgrees

(* Every caller of ensure() gets its record or an error, whatever children *)
(* crash, ignore SIGTERM or never answer (start, waitForReady deadline).   *)
EnsureSettles ==
  \A cl \in Client : waiting[cl] # None ~> (waiting[cl] = None \/ ~Up)

(* A backend that was told to stop goes away, even one that ignores        *)
(* SIGTERM: stopRecord's timer escalates to SIGKILL.                       *)
ToldToStopDies ==
  \A c \in Child : sent[c] # "none" ~> (life[c] # "running" \/ ~Up)

(* "anything currently starting [is] never touched" by the sweeper         *)
(* (comment of sweepIdle): while a start is in progress its record is not  *)
(* dropped from the process table.                                         *)
StartingNeverTouched ==
  [][\A a \in Alias :
       shutdown' = "no" /\ Starting(a) /\ Starting(a)' /\ processes[a] # None
         => processes'[a] # None]_vars
=============================================================================
