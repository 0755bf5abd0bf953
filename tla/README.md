# Green Roomz and Green Brainz in TLA+

A verification development for the two systems of this repository: **Green
Roomz** (`systems/green-roomz`, the gateway that owns local model backends,
routes chat turns to them and monitors the host) and **Green Brainz**
(`systems/green-brainz`, the cognitive layer: interrupts, idle scheduler,
memory). Paths below are relative to the repository; `P` stands for
`systems/green-roomz/src` and `B` for `systems/green-brainz`.

`PROJECT.json` maps every definition to the lines it translates, and lists the
runs, the mutants that show that each property can fail, the hazards of the
code and the theorems.

## 1. Inventory

All of it is JavaScript on one event loop. Nothing is preempted between two
awaits; everything that can go wrong between actors goes wrong *at* an await,
where a timer, a child process, a socket, a file or an abort signal comes back
in an order nobody chose. That is the grain of every module here: **an action is
the code between two awaits that wait for an event.**

### Green Roomz

| Part | State it keeps | Operations | What is hard | What makes it correct | Module |
|---|---|---|---|---|---|
| Owned process manager (`P/process-manager.mjs`, shutdown of `bin/green-roomz.mjs`) | alias → record (child, state, last use), alias → start in progress, the registry's availability | `ensure`, `start` over the profiles, `waitForReady`, `stop`, `stopAll`, `sweepIdle`, exit handler | one start shared by callers whose signals differ; children that crash, ignore SIGTERM or answer late; a stop that waits 3 s while a request restarts the alias; shutdown during starts | no running backend is lost from the table; what the registry says is backed; each caller settles; what is told to stop dies | `ProcessManager` |
| Policy gate (`P/scheduler.mjs`) | count, FIFO of waiters | `acquire`, `release`, abort listener, `drain` | a waiter leaving while the queue is drained; double or missing release | the count is the number of holders; a fair gate: first come, first served | `PolicyGate`, `FairGate` |
| Gateway turns (`P/gateway.mjs`) and hand-off (`P/handoff.mjs`) | per turn: hops, visited aliases, what it awaits | `handleChatTurn`, `handleDirectAlias`, `peekSpecialist`, `deliverPeek` | every exit path must give its slot back; stalled backends; deadlines that outlive their phase; clients that leave | each turn ends; slots are accounted; hops are bounded | `ChatTurn` |
| Nexus (`P/nexus.mjs`), routing (`P/routing.mjs`, `P/logical-router.mjs`) | none | plan, repair, offline plan; pure rules | | agree with a reference definition | outcome is a choice in `ChatTurn`; planned |
| Session ledger (`P/sessions.mjs`) and the affinity of turns | id → entry with sliding expiry | create, get, patch, expire, evict | patched at the end of a turn, long after it was read | one identity per session; what is gone stays gone | `SessionLedger` |
| Local mailbox (`P/mailbox.mjs`) | ring, counters, listeners | push, drain, deferred drain | listeners that push and drain re-entrantly; full ring | it is a queue that loses its oldest event only; every listener hears every event | `Mailbox` over `CopyRing` |
| Upstream proxy (`P/proxy.mjs`) | attempt counter | retry with back-off | retry against the turn deadline | at most one answer | outcome is a choice in `ChatTurn`; planned |
| Registry, configuration (`P/registry.mjs`, `P/config.mjs`) | availability per alias | set, status | written by the manager only | | the `status` variable of `ProcessManager` |
| Memory admission (`P/memory.mjs`) | none | predicate | | | a choice in `ProcessManager` |
| Monitor: IPC (`P/monitor/ipc.mjs`, `api.mjs`, `calls.mjs`) | two rings, index by ticket, cached rejects | post, reply, wait, reject, drain | ring limits, cached answers, two rings drained as one, numbers that callers choose | each ring is a queue; the queue rejects a ticket once; its owner finds its events | `MonitorIpc` over `CopyRing` |
| Monitor: network, states | state of each interface | verbs | a rejected verb that moved the state | states move along the graph only | `MonitorNetwork` |
| Monitor: place | slices and the extra slots | bind, yield | a count beside a map | they agree; the floor is never touched | `MonitorPlace` |
| Monitor: isolate | granted and mapped capability bits | grant, map, unmap, lockdown | long sequences | mapped ⊆ granted; nobody denied has what it is denied | `MonitorIsolate` |
| Monitor: respond | votes with expiry | vote, tally | late, repeated and stale votes, restarts | a quorum counts votes that are still good, of distinct voters | `MonitorRespond` |
| Monitor: policy | map in force and map asked for | editMap, label, check | edits that stop half way | the two maps differ only where a verb is not allowed here | `MonitorPolicy` |
| Monitor: GPU gate | one flag | begin, end | it has no owner | | not modelled |
| Monitor: audit log | chain head, in-flight count | emit | failed and dropped writes | the chain stays continuous | `AuditLog` |
| Benchmark, autotune, host adapters, CLI, HTTP surface | files, none | sequential scripts and I/O | | | not modelled |

### Green Brainz

| Part | State it keeps | Operations | What is hard | What makes it correct | Module |
|---|---|---|---|---|---|
| Interrupt controller (`B/irq/irq-controller.mjs`) | sessions, pending IRQs, generation leases | begin, end, inject, preempt, cancel, consume, expire, evict | sessions dropped while something is in flight; late `end`; three abort reasons racing | no lease is lost; the best IRQs stay; the first reason wins | `InterruptController` |
| Idle drive scheduler (`B/scheduler/scheduler.mjs`) | drives, tasks, one lease, epoch budget | register, enable, re-arm, promote, settle, observe | a lease that expires only when somebody calls; late settle; activity during a lease | lease and task status agree; budgets hold | `DriveScheduler` |
| Dreamcatcher store (`B/memory/dreamcatcher-memory.mjs`) | objects, one branch reference | remember, recall, fork, evict | read-modify-write over several awaits | what was remembered stays reachable | `Dreamcatcher` (remember) |
| Memory feedback loop (`B/memory/memory-feedback-loop.mjs`) | phase per key, working set, stutter ladder | express … wraparound, observeAction | transitions that throw half way; recoveries cut by awaits; restarts | places of the working set are not leaked; containment holds | `MemoryLoop` |
| Cognitive host (`B/host/cognitive-host.mjs`) | none of its own beyond a counter | observeTurn, dream, noteExternalState | composes the loop and the scheduler across awaits | leases are owned, turns end | `CognitiveHost` |

The skills (`skills/`), the quality evaluation, end-to-end tests, deployment
scripts and documents are stand-alone programs or prose; they are not modelled.

### How the parts interact

* A request takes a slot of the **policy gate**, asks **nexus** for an alias,
  calls **ensure** on the process manager, reads the beginning of the
  specialist's stream (peek) and delivers it, or goes round once more.
  `ChatTurn` EXTENDS `PolicyGate`; of the process manager it sees only the state
  of each backend, which moves as the module `Backends` says. `ChatTurn` takes
  that as its environment, and `ProcessManager` is proved to guarantee it: the two
  modules meet in `Backends` and need no product of their states.
* The **process manager** writes the **registry**; the gateway reads it without
  asking whether the record behind it is being stopped.
* The **sweeper** timer and **shutdown** enter the process manager beside the
  requests.
* Every hop of a turn is told to three sinks at once (`observeHop` in
  `P/gateway.mjs`): the **mailbox**, the **monitor's IPC** and the **audit
  log**. `GatewayState` composes them with the **session ledger**, which turns
  use at their two ends. The ledger shares nothing with the sinks, and the other
  callers of the IPC nothing with mailbox and log, so a behaviour exercises one of
  three parts; interleaving parts that share nothing would only multiply states.
* The deciding components of the **monitor** share the table of rejects by ticket
  and nothing else. `MonitorControl` composes them the same way: a behaviour
  exercises one of them over a table in which tickets may already be rejected.
* The **cognitive host** calls the memory loop and the scheduler in one turn;
  the loop calls the store. `CognitiveHost` EXTENDS `MemoryLoop` (which EXTENDS
  `Dreamcatcher`) and INSTANCEs `DriveScheduler` twice, as `Sched` and, for what a
  turn's dream asks after it claimed that the host is idle, `IdleSched`.

## 2. The modules

### ProcessManager

State: `life`, `owner`, `recState`, `sent` describe children and their records
(`child.exitCode`, `record.alias`, `record.state`, the strongest signal sent);
`processes` is the Map of the same name; `status` the registry; `start` the
coroutine behind the `starting` Map (polling, answered, waiting for its failed
child); `stops` the calls of `stop()` that wait in `stopRecord`; `newer` orders
`lastUsedAt`; `waiting` and `aborted` are the callers; `shutdown` the progress
of `cmdServe`'s handler.

Actions: `EnsureReady`, `EnsureJoin`, `EnsureStart` are the three ways through
`ensure()`; `HealthAnswered`, `BecomeReady`, `StartedChildExited`,
`GiveUpStart`, `FailedStartStopped` are the segments of `start()`; `SweepIdle`,
`StopTimeout`, `ChildExit` and `BeginShutdown`, `ForcedExit` are the sweeper,
the escalation timer, the exit handler and shutdown. Details kept because a
property hangs on them: `exitCode` stays `null` for a child a signal killed; a
command that cannot be executed has an exit code and no exit event; the text
`abort` is looked for in an error that carries the backend's own log tail;
`stop()` deletes *by alias* whatever record is there when its wait is over.

`BackendSeen` is an alias as a turn meets it: "ready" if `ensure()` would return its
record, "starting" while a start is under way, "evicting" when the registry says
ready and `ensure()` would start it anew (its record is being stopped, or its child
has exited and the event has not come yet), otherwise what the registry says.
`BackendsAsAssumed` says that this view moves as `Backends` allows, and that the
registry's "ready" and "unavailable" mean what a turn takes them for.

`StatusBacked` asks two things of every step. `StatusHeld`: what is "starting" has a
start that will settle it, and what is "ready" and never swept has a record published as
ready and neither stopped nor seen to exit since. `DeathShown`: no step lets an alias
stay "ready" while its child dies or is exchanged. Neither says that the child of a
ready alias lives: `startProfile` publishes "ready" (`:266`) also for a child that
exited after the probe's answer, which is a disagreement of section 5. `DeathShown`
shows that this moment is the only way into that state.

Abstractions: a timer may fire whenever it is pending; child identities are
reused; memory admission, `buildLaunch` and `spawn` fail by choice; ports are
those of the alias.

### Backends

The assumption and the guarantee between the two: the pairs of states a backend may
go through in one step. TLC shows each of the twelve pairs to be needed: without
any one of them `BackendsAsAssumed` is violated in `ProcessManager`.

### FairGate, PolicyGate and ChatTurn

`FairGate` is the abstract gate: a set of holders and a queue; a newcomer that finds
nobody waiting and a slot free gets in, a slot given back goes to whoever has waited
longest, one who leaves the queue moves nobody. It has no count.
`PolicyGate` holds the count and the queue, with the gate's half of each step;
`GateIsFair` says that the turns of `ChatTurn` over it implement `FairGate`.
`ChatTurn` has one record per request: `pc` names the await it is suspended
at, `hops`, `visited` and `peeked` are the handler's locals, `want` the alias of
a hard route. `Step` is the end of a synchronous segment: when the segment ends
the handler, or returns the delivery without awaiting it
(`return deliverPeek(...)` inside `try`/`finally`), the slot is released and the
gate wakes waiters. `Select` is the loop body by kind of alias (native chat,
the command-only speech agent, logical monitor, specialists). Nexus' answer is
any routable alias not visited, or none; an unavailable router is not asked, and the
offline plan answers. Backends start cold, ready or unavailable, the router too, and
move as `Backends` allows at any time. Texts, headers, the hop log and session
entries are left out, as no routing decision of the loop reads them after the
alias is known.

### InterruptController

One action per method. `Unknown` and `Seen` are the calls whose only effect is
to expire sessions or to touch one; all other actions say with `Drop` which
sessions the call expires or evicts. Expiry is any longest-untouched part of
the idle sessions. `pending` is a set ordered by `Before`, since the code keeps
the array sorted by it. `offered` is a history variable: all that was queued
since pending was last emptied.

### DriveScheduler

`Tasks` and `Live` are the task table and the lease as a call sees them once it
has settled a lease that is over (`#expireActive`), so that every action begins
there. `Candidate` and `Preferred` are `selectCandidate` with the
lexicographic order of rank paths; `Settled` is `settleTask` with retries,
cooldown and repetition. Leases are identities that can be settled late:
`held` are those whose holder has not returned. `RearmThrows` is `rearm()` that
refuses its `notBefore` when it has already set the budget (`scheduler.mjs:129-131`):
a task may be left with more attempts than it may have. So `AttemptsWithinBudget`
speaks of tasks that run, since no promotion picks one that has none left.

### Dreamcatcher and MemoryLoop

The head of the branch stands for the set of keys its trie reaches; `remember`
is cut at the read of the reference and at its replacement. `MemoryLoop` has a
phase per key, the working set, the touched keys, the stutter ladder and, per
call, what it has left to do after its await (`impress`, `wraparound`, the loop
of `applyRecovery`). A transition that would throw ends its call where the code
throws, with what was done before left done.

`wraparound()` names the derived key by its parent and `#seq`, which every logged
transition increases (`Enter`). `named` holds the name that the present `#seq` gives to
each parent, so a wraparound of the same parent before the next transition derives the
same key, and one after it a new one (`NewName`: one that is nowhere in use). `twins` is
a history: the keys that two calls had under way at once. The later of two such calls
puts the key back into "derivation" whatever became of it, and `WorkingSetSound` and
`ContainmentHolds` say so as their one exception.

### CognitiveHost

One record per concurrent call says where `observeTurn()` or `dream()` waits and
what it does next. `BeginTurn`, `AdmitOrNap`, `ImpressOwn`, `ImpressReturns`,
`ImpressThrows` and `Observe` are the segments of a turn; `DreamBegins`,
`DreamsOfNothing`, `NoDream`, `DreamGoesOn`, `DreamEnds` and `DreamFails` those of
a dream, which takes a lease before its first await and settles it after its last,
or in its handler; `NoteExternalState` is the call of that name. `seq` is the
counter all turns share and `lastSeq` its value in the last action a session
observed: two actions are alike only when their turns share a value. The audit log can
fail to be written wherever a transition is logged, which ends a turn there. A `dream()`
that somebody calls with a state is `NoteExternalState` followed by `CallDream`;
`CallDream` itself brings none. `injectBoundedRecall` and the statistics only read.

### LossyQueue, CopyRing, Mailbox

`LossyQueue` is the abstract specification: a push never waits and is never refused,
a full queue gives up its oldest event and counts it, events are taken oldest
first, some or all at a time. `CopyRing` is the code of the ring (slots, head,
tail, size, counters) as operators on a record. `Mailbox` has the ring, and a
stack of `drain()` calls: a drain takes one event, gives up its slot, then calls each
listener, and a listener may push or drain before it returns. An event is the
number of its push. `MailboxIsQueue` and `RingsAreQueues` say that the mailbox and
both rings of the monitor implement `LossyQueue`: the queue is the ring read from
`tail`, `lost` is `dropped`, and `taken` is the history of what was taken.

### MonitorIpc

`PushIpc` with `Admits` is the ladder of rejects of `push()`; `Post`, `ObserveHop`,
`Reply` and `WaitDenied` are the calls that reach it. A reject is itself enqueued,
once: it is cached by ticket in a table that other components fill too
(`RejectElsewhere`). A drain takes all of both rings, sorted by number (`BySeq`),
before it calls anyone, so it is one action and its listeners are left out.
`hotTaken` and `upcallsTaken` are histories, what was taken off each ring: with them
each ring refines `LossyQueue` by itself, and `ReturnedInOrder` says that the drains
returned both parts, each event once, and those that carry the queue's own number in the
order in which they were enqueued. A caller may give an event a number itself
(`ipc.mjs:505`, `Numbers`), and may push an event of kind `reject` (`:88`): `seq` is that
number, `nth` the place among all that were enqueued and `by` who made the event, the
caller or the queue. A drain sorts by `seq`, so an event with a number of its caller's is
returned where that number puts it (`Before`: the order of the stable sort).
`WaitRecalls` is about the owner of a ticket: whatever was drained, dropped or pushed by
others in between, it finds a copy of the number and kind of each of its events that has
fewer than `IpcRecent` newer ones, and that very event unless a caller gave its number
to two of a kind, which `wait()` takes for one. `OneRejectPerTicket` counts the rejects
that the queue made; those that callers push stand beside them and are cached nowhere.

### SessionLedger

The methods are functions from entries to entries (`Expire`, `Found`, `Refresh`,
`Patch`, `Create` with `Oldest`); the actions are the beginnings and ends of the
gateway's turns that call them. `ContinueSession` finds the session a client claims,
`BeginChat` creates one, `BeginPlan` waits with that until `EndPlan`; `EndChat`
patches whatever is there by then; `EndAtMonitor` is a chat that came without a session
and is routed to the monitor, whose answer makes a second one; `FailTurn` ends without a
trace.
`users` is a history: whose turns a session was issued to.

### AuditLog

`Emit` puts a record in the promise chain or drops it beyond `MAX_IN_FLIGHT`;
`BeginWrite` makes the record when its turn has come, with the number and the hash
of the last one written; `WriteSucceeds` and `WriteFails` end it. A hash stands for
what it is computed from: the sequence of bodies up to its own.

### GatewayState

Composes the four (above). `ObserveHopEverywhere` is `observeHop`: push, IPC and
emit in one instant.

### RejectCache, MonitorNetwork, MonitorPlace, MonitorIsolate, MonitorPolicy, MonitorRespond, MonitorControl

`RejectCache` is `makeReject`: the first reject of a ticket answers every later one.
`MonitorNetwork` has the state of every target; `NetMove` moves a target along
`VerbNext`, also for the verbs that are then rejected as stubs. A network created with
initial states of its own is not modelled. `MonitorPlace` keeps the slices in the order
of binding and the count beside them; `MonitorIsolate` the two tables of bits;
`MonitorPolicy` the two maps, edited entry by entry up to the first that is rejected;
`MonitorRespond` the votes stored and the tally as an operator (`Count`, `Reached`).
Votes are messages: what was cast may arrive at any later time, again, out of order and
after a restart. The instance of a process that starts again has the boot id of the
first one (`FirstBoot`, the counter of `respond.mjs:96` starts over) unless it is given
one, so votes from before may count after it. A vote may carry its own time, life and
expiry (`VoteTerms`), an instance a default life (`VoteTtl`), and a tally is asked for
any moment, so that what has expired at one still counts at another. Calls that throw
for the caller's role change nothing and are left out, as are the normalisation of
targets and the wording of rejects.

### MC modules

The `MC...` modules give the constants that are functions or records, and the
symmetry sets. Symmetry is used only in runs without liveness properties, over values
that are only ever compared with one another.

## 3. Runs

| Run | Shows | Instance |
|---|---|---|
| `pm_resident` | A running resident is never lost from the table, no status is left that nobody backs or outlives its child, and backends move only as the turns of the gateway assume, through crashes, aborts, failed profiles, sweeps, forced exit | resident + one specialist, 3 children, 2 callers |
| `pm_live` | Every caller of `ensure()` settles; what was told to stop dies | one specialist, 2 children, 2 callers, 2 profiles |
| `pm_sweep_starting` | *violation*: a sweep's late `stop()` drops the record of the replacement | one specialist, 2 children |
| `ct_turns` | Slots are returned exactly once on every path, hops bounded; holders and queue are a fair gate: no turn overtakes a waiter, none waits beside an idle slot | 3 turns, 1 slot, 2 hops, one specialist, one native alias |
| `ct_live` | Every turn ends if only the deadlines fire | 2 turns, 1 slot, 2 hops, one specialist, the monitor and the speech agent |
| `ct_inflight` | *violation*: two generations in flight under a policy of one | 2 turns, 2 specialists |
| `irq_sessions` | Leases, capacity, best IRQs, preemption context, first abort reason | 3 sessions on 2 places, 2 leases, 2 priorities, 4 IRQs, 2 pending |
| `sched` | Lease and task agree, activity aborts, no task runs beyond its budget, also after a re-arming that throws half way, a late settle is harmless | two drives, two tasks, 2 leases, clock to 2 |
| `mem_loop` | Working set sound, containment kept, no pause without warning, with wraparounds of one key that overlap | one session; ordinary, goal and derived key; 2 calls; one place |
| `cog_host` | No failure of the store, no other turn, no failing audit log, no activity and no expiry leaves a lease nobody will settle; every turn and dream returns | 2 concurrent calls, one of which may be somebody's own dream; 3 turns of one session, 2 leases, working set of two |
| `gateway_state` | Mailbox and both rings are lossy queues; listeners all hear all; one reject of the queue per ticket, whose owner finds its events; the audit chain is continuous; sessions are neither shared nor revived | rings of 2, 2 listeners, 2 nested drains, 3 pushes, 3 posts, one number of the callers, 2 tickets, 3 emits; 2 turns, 2 identities, 2 places for 3 sessions |
| `monitor_control` | Network states follow their graph, slots are counted, rights bounded, policy maps agree, a quorum is real | 2 interfaces and the machine; 3 slices, 2 workers, 2 slots; 2 subjects, 4 bits; 5 edits; 2 voters, 2 domains, 2 boot ids, 3 kinds of times a vote may carry, 2 votes |

**Why the bounds are enough.** Each is the least at which the interesting case happens,
and in most cases one more. Three turns on one slot make a holder and two waiters, so
that one can leave in front of the other; two hops let a turn stall, go on and run out.
The two runs of turns share the kinds of alias between them, since a process more or
less multiplies the states by five. Three children for two aliases let a replacement run
beside one that is dying. Three sessions on two places force an eviction with a lease in
flight, and three queued IRQs exceed the two pending places. A clock of two readings
past a lease of one makes leases expire and lets a cooldown pass. Two calls make every
race of the memory loop, and one place in the working set makes it full. Rings of two
slots are full, wrap around and drop within three pushes; two listeners and two drains,
one inside the other, make every nesting that matters. Two places for three sessions
force an eviction while a turn holds the victim, and three ticks past a time to live of
two an expiry. Two voters and two boot ids make a stale vote, one from before a restart
that still counts, a repeated one and a quorum; a vote that says nothing of time, one
with its own time and life and one with an expiry make each branch of the expiry. One
number of the callers within three posts meets the queue's own number, is given twice,
and is returned out of order. Three turns on two calls of the host make overlapping
turns with dreams, and a lease of one tick expires under them. With two calls at once
(`TwoAtOnce`) a session repeats an action at most once, so the host reaches the rung
"nap" of the stutter ladder; the rungs above and the cycles need more calls, and
`mem_loop` has them. `MaxSequence` (IRQs ever queued), `MaxTime`, `MaxClock`, `LastTick`
(clocks), `MaxPushed`, `MaxPosted`, `MaxEmits`, `MaxSessions`, `MaxCast`, `MaxNested`,
`Moments` (the moments of a tally), the length of `TurnKey` and `Dreamer` (the calls
that may be somebody's own dream) are bounds of the model and not of the code;
`Numbers`, `VoteTerms` and `BootIds` are the inputs TLC tries. Where a theorem is
proved, their values are arbitrary.

Deadlock is checked wherever the system can always take a step; it is off only
for `ProcessManager`, which really stops when the gateway has exited.

**Mutants.** For each property of a passing run, a plausible bug is
written beside the definition it changes (`RejectSilently`, `PeekTimeoutOnAbort`,
`SliceFirst`, `RearmLeased`, `LeaveNothing` …), under a comment that begins with
"Mutant". With it TLC finds the property violated under the same configuration.
No specification uses them.

**Fairness.** Only what the event loop, the timers and the kernel guarantee.
`ProcessManager`: the segments of a start run (each poll has its interval and the health
deadline), the 3 s timer of a stop fires, and a child that was sent SIGKILL ends.
`ChatTurn`: a resolved `acquire()` runs on, and each wait under a slot has its timer:
consult 25 s (`NEXUS_CONSULT_TIMEOUT_MS`), start (that `ensure` settles is what
`pm_live` shows), peek 20 s, upstream 180 s. `CognitiveHost`: each call goes on, since
the event loop resumes it and file operations end, well or not (WF of `TurnStep` per
call). Nothing is assumed of backends, clients, sweeps, shutdown, new turns, clocks or
what the host is told. `PeekTimeout` is fair and `Peeked` is not: the run holds with
backends that never answer.

## 4. Proofs

tlapm checks these for every value of the constants, under the assumptions named in the
modules (`ConstAssumption`, `AliasAssumption`, `MaxAssumption`, `IrqAssumption`,
`SchedulerAssumption`, `LoopAssumption`, `MailboxAssumption`, `IpcAssumption`,
`LogAssumption`, `LedgerAssumption`, `SlotsAssumption`, `PolicyAssumption`,
`RespondAssumption`, `LeaseAssumption`, `TwoAtOnce`), which TLC evaluates on each run.

* **ProcessManager_proofs**: `TypeCorrect`, `UnsweptNeverLost`, `StatusAlwaysBacked`,
  `ManagerKeepsAssumption`. What is wanted is not inductive. That a resident is never
  lost also needs that records and starts belong to their alias (`TrackedOwned`,
  `StartOwned`), that nothing but a sweep stops a record while serving, and never an
  unswept one (`StopsSweepable`), that the start of an unswept alias works on the
  tracked record (`StartTracked`), and that with no start going on a live tracked record
  is ready (`SettledReady`): only then does `ensure()` reuse it and not spawn over it.
  The lemmas are about the operators that several actions share (`SpawnInv`,
  `RejectInv`, `TryProfilesInv`). That the manager keeps the assumption of the turns
  (`Spec => BackendsAsAssumed`) takes more facts about every alias, swept or not
  (`ViewInv`): a start under way has a record that is not ready yet, in the table or
  dropped by a late stop, and a registry entry that says starting or cold; and a record
  `ensure()` would return is one the registry calls ready. `NextView` shows action by
  action that the view of each alias moves along `Moves` or stays. `StatusAlwaysBacked`
  takes `StatusHeld` from the invariant, and `DeathShown` from `NextShowsDeath`, one
  case per action.
* **ChatTurn_proofs**: `TypeCorrect`, `NoSlotLeaks`, `NoWaiterForgotten`,
  `TurnsImplementFairGate`. The count is inductive only with the shape of the queue
  (`QueueOK`: distinct waiting turns) and `NoIdleSlot`, which make a release wake
  exactly one waiter (`ReleaseWakes`). The bound on hops needs where the turn stands
  (`HopsFit`). Each step lemma shows with the invariant that the step is one of the
  abstract gate or changes neither holders nor queue (`GateMoves`). `Max` is a natural
  number: policies `responsive` and `balanced`; under `maximize` the gate never queues.
* **InterruptController_proofs**: `TypeCorrect`, `LeaseNeverLost`,
  `SessionCapacity`, `BestIrqsKept`, `PreemptionHasContext`, `FirstReasonKept`.
  `LeaseReachable` holds since only idle sessions are dropped; the action
  properties need its converse `ActiveLeased`. That cutting the queue at every
  injection is as good as sorting everything (`SliceRetains`) needs a transitive
  order and sequence numbers that are new (`Fresh`).
* **DriveScheduler_proofs**: `TypeCorrect`, `LeaseMatchesTask`,
  `ActivityAborts`, `BudgetKept`, `LateSettle`. The invariant `Good` is stated
  of a pair (table, lease), because a call starts from (`Tasks`, `Live`) and not
  from the stored pair; `LiveKeeps` shows one as good as the other. Of the attempts it
  says that a leased task has no more than its budget; those of a task that does not run
  are bounded by nothing, since `RearmThrows` may lower the budget beneath them.

* **MemoryLoop_proofs**: `LoopInvariant`, `LoopTypeCorrect`, `PlacesSound`,
  `SeizuresWarned`, `ContainmentKept`. The invariant adds to the three properties
  that every key a call holds is known (`KeysKnown`), that working sets are finite,
  that a key being derived is new and derived by one call, or else one of `twins`
  (`DerivedFresh`, `DerivedOnce`), that the name a wraparound would use is unused
  (`NamedFresh`), and what the ladder counted before a recovery (`WarnedInv`). Each
  action has a lemma that it keeps the invariant *and* takes a key out of
  containment only where it may (`Contained`), because the action property needs the
  invariant of the same step. `RecoverKeeps` treats the loop of `applyRecovery`
  once, for its first call and for its continuation.
* **GatewayState_proofs**. *Rings*: `RingArithmetic` shows that the head is the slot
  behind the newest event, `RingSlots` that indices of different events are different,
  and `PeekIsSeq`, `PushAppends`, `PopIsTail` that the two ring operators are the
  abstract push and take, for any number of slots and any events; `BoxStarts` and
  `BoxStep` make the refinement `BoxImplementsQueue`: `BoxSpec => MailboxIsQueue`, for
  every capacity, any number of listeners and any depth of nesting, and
  `GatewayMailboxIsQueue` carries it to the composition. `RingsImplementQueues` uses the
  same lemmas for both rings of the monitor, over one posted sequence: events that one
  ring takes keep their order (`PushKeepsOrder`, `TakeKeepsOrder`), the numbers on the
  two are disjoint because their kinds are, and `BySeqMerges` shows what sorting both
  rings by `Before` gives, from ranks in a finite total order (`BeforeOrders`,
  `RanksRise`, `RanksFull`): each event once, and those with the queue's own number in
  the order of their places. *Listeners*: `BroadcastOnce` is inductive with what the
  drains on the stack hold (`FrameInv`: taken events, no two the same) and with the
  exact account of each listener (`HeardInv`: an event taken was either heard by it once
  or is held by a drain that has yet to call it). *Tickets*: `RejectInvariant` and
  `RecallInvariant` are about the posted sequence and the two tables by ticket;
  `NewerGrow` counts the newer events of the same ticket, which is what bounds an
  event's distance from the end of its list (`LastOnesShape`). *Log*: continuity is
  inductive only with the fact that number and previous hash are those of the last
  record (`Chained`) and that what waits is newer than what was written (`InOrder`);
  `FlightCounted` says that the places in flight are given back. *Ledger*: `LedgerStep`
  shows together that a step keeps the invariant and that entries turn over only as
  `GoneStaysGone` allows; one identity per session needs that an entry belongs to the
  one identity its session was issued to (`EntriesUsed`) and that numbers not yet issued
  have no users (`UnissuedUnused`), so that a turn that ends late finds its own session
  or none.
* **MonitorControl_proofs**: `ControlInvariant`, `NicsAlongGraph`,
  `SlotsAlwaysCounted`, `RightsAlwaysBounded`, `MapsAgree`, `QuorumsReal`: one
  step lemma for each component and one that composes them. The quorum is a fact
  about every state in which stored votes were cast, with the time they name or at which
  they came: a record that has not expired at the moment of the tally is one of a vote
  still good then (`StillGood`), and the tally counts a set of voters, so repetition
  cannot raise it.

* **CognitiveHost_proofs**: `HostInvariant`, `LeasesOwned`. `NoOrphanLease` needs
  that a turn has a lease only inside its dream, so that no return, no admission
  and no observation can drop one. Every step has one of four effects on leases
  (`KeepsLease`, `GivesUpLease`, `TakesLease`, `TurnsAlone`); what the step does to
  the memory is not looked at, and `TwoAtOnce` is not used.

Only model-checked: the liveness properties `EnsureSettles`, `ToldToStopDies`,
`TurnEnds` and `TurnReturns` (fairness and ENABLED are out of tlapm's reach), and the
two violations. Every other property of a run is stated by a theorem.

## 5. Findings

Each is a run that TLC ends with a counterexample, and a sentence of the
repository it contradicts.

1. `pm_sweep_starting`: `stop()` deletes by alias after its wait
   (`P/process-manager.mjs:301`), so a swept backend that exits late takes with it
   the record of its replacement: the new child runs on untracked, and the status
   says cold. The comment at line 329 says that what is starting is never touched.
2. `ct_inflight`: `return deliverPeek(...)` (`P/gateway.mjs:820`) releases the
   slot while the generation streams.

### Other disagreements met while modelling, without a run of their own

* `P/process-manager.mjs:324`: `stopAll()` looks at the table once; a start that
  goes on spawns a child that outlives the gateway, while the requirements
  (`2026-08-28.md:507`) let none remain.
* `B/irq/irq-controller.mjs:173`, `:274`: eviction and expiry drop pending IRQs
  with their session; the comment at line 136 has each consumed exactly once.
* `B/memory/memory-feedback-loop.mjs:221`, `B/memory/dreamcatcher-memory.mjs:283`:
  an item fridged before it was impressed can be reintegrated, and two concurrent
  `impress` lose one of their keys, so "integrated" does not mean reachable
  (`memory-feedback-loop-requirements.md:46`).
* `P/process-manager.mjs:266` publishes "ready" for a child that may have died
  between the health answer and the assignment; its exit event has been and gone, so the
  registry says ready until somebody calls `ensure()`, against
  `green-roomz-system-requirements-2026-08-28.md:511-513`. By `StatusBacked`, for an alias
  that no sweep may stop, this is the only way there.
* `P/gateway.mjs:762` takes a backend that is being stopped for ready, because
  the registry says so (`SeenReady` models it).
* `P/gateway.mjs:802`: a peek that times out pushes its alias a second time, so it
  counts as two hops and a turn with a stalled specialist ends with
  `route_exhausted`, while `P/constants.mjs:40` says that a stalled stream
  must not wedge routing. The hop count can so exceed its limit by one.
* `P/handoff.mjs:169`: a client that left during the consult is not noticed by the
  listener attached later; `:173`: the peek's deadline still cuts the delivery.
* The queue of the gate is unbounded; the requirements ask for a 429.
* `B/host/cognitive-host.mjs:183`: the hash of an action includes a sequence
  number, so sequential turns never look alike and the stutter ladder is reached
  only by turns that share a number. `:166`: the dream claims idleness inside a
  turn; the budget of an idle epoch is reset only by activity, and the dream task
  ends after its attempts. `:214`: its `settle` throws if the lease was lost.
* `B/memory/dreamcatcher-memory.mjs:209`: the temporary file's name can collide for
  two concurrent writers; `createBranch` checks and then writes; concurrent
  `remember` calls lose an update (`memory/REQUIREMENTS.md:48`).
* `B/memory/memory-feedback-loop.mjs:230`: `disintegrate` leaves the working set
  before its transition throws; phases are lost at a restart, so what was contained
  can be recalled.
* `B/memory/memory-feedback-loop.mjs:241`: two wraparounds of one parent that overlap,
  with no transition logged between their beginnings, derive the same key. The later
  one then puts that key back to "derivation" whatever has become of it: it keeps
  its place in the working set, or leaves containment. `MemoryLoop` has these calls;
  `WorkingSetSound` and `ContainmentHolds` name the key of such a pair as the one
  exception, so that they show there is no other.
* `B/scheduler/scheduler.mjs:129`: `rearm()` sets the budget, then throws on a
  `notBefore` it refuses (`:131`), before status and attempts are reset: the caller is
  told that nothing was re-armed, and the task has another budget, maybe below its
  attempts.
* Budget of dreams: an idle epoch pays for one promotion and only activity begins a
  new one; the dream task ends after its attempts and nothing re-arms it; a turn's
  dream overwrites a state noted from outside. A dream and a turn that impress the
  same key make one of the two fail.
* `P/sessions.mjs:39`: `patch()` does not look at the time to live: an entry that has
  expired and was not swept yet lives on when its turn ends. What was swept or
  evicted stays gone (`GoneStaysGone`).
* `P/monitor/ipc.mjs:505`, `:536`, `:88`: callers may number their events and push
  rejects (`test/monitor-branches.test.mjs:368-372` relies on the first). Two
  events of a ticket with one number and kind are one to `wait()`, a drain is not in the
  order of posting for them, and a pushed reject is beside the one that is cached.
* `P/monitor/respond.mjs:96`, `:125-129`: the counter of boot ids starts over with the
  process, so a process started again has the same id and counts votes cast before.
* `P/gateway.mjs:711`, `:421`: a chat without a session that is routed to the monitor is
  issued two, one of which nobody will be told of.
* `P/monitor/respond.mjs:412`: the search for a duplicate comes before any expiry, so
  an expired vote blocks its own renewal; a tally that names no verb is not
  held to the rule that one replica alone carries no reboot.
* `P/monitor/network.mjs:265`: an unimplemented verb moves the state, then rejects.
* `P/monitor/place.mjs`: a slice can be yielded by a worker that did not bind it.
  `P/monitor/gate.mjs`: the GPU flag can be ended by whoever calls.
* `P/monitor/isolate.mjs`, `respond.mjs`: `decorateReject` writes the caller's fields
  into the envelope that is cached for the ticket. `P/monitor/policy.mjs`: calls
  without a ticket share ticket 0, hence their first reject.

## 6. Plan

The order was: the most important behaviour first.

1. `ProcessManager`, its runs and proofs. *Done.*
2. `PolicyGate` and `ChatTurn`, composed; runs and proofs. *Done.*
3. `InterruptController`, `DriveScheduler`; runs and proofs. *Done.*
4. `Dreamcatcher` and `MemoryLoop`; run and proofs. *Done.*
5. `CognitiveHost` over `MemoryLoop` and `DriveScheduler`; run and proof. *Done.*
6. `Mailbox` and `MonitorIpc` with the abstract `LossyQueue`; run and proofs. *Done.*
7. `MonitorRespond`, `MonitorNetwork`, `MonitorPlace`, `MonitorIsolate`,
   `MonitorPolicy`, `AuditLog`; runs and proofs. *Done.*
8. `SessionLedger` with the affinity of turns; run and proofs. *Done.*
9. `RingsAreQueues` as a theorem, from the ring lemmas and a lemma on merging two
   sequences that are sorted. *Done.*
10. `FairGate`, the abstract gate that `ChatTurn` refines; run and proof. *Done.*
11. `Backends`, the contract between turns and process manager; run and proof. *Done.*
12. Routing rules and the parsing of plans as operators checked against a reference
    definition; retries of the proxy under the deadline of the turn.
13. Forks and the eviction queue of the store.

## 7. Not modelled, and why

* Benchmarks, autotune, host adapters, CLI options, HTTP parsing and authentication:
  sequential I/O or request parsing.
* Routing, logical router and nexus parsing: pure functions of text and of the
  registry; a turn takes any outcome they can have. Upstream retries: the outcome is
  a choice in `ChatTurn` and their time is within the turn's deadline.
* Slash commands, the mapping of settings and the stickiness of aliases: they read the
  ledger and change texts.
* GPU gate of the monitor: one flag without an owner, nothing to relate it to.
* Identity, entropy and identifiers of the monitor: bit arithmetic and hashing without
  state over time.
* Forks, the eviction queue and ranking of recalls in the store: not used by the
  host; recall only reads.
* Skills, evaluation, deployment, documents: separate programs or prose.
* After the gateway has exited, its children are not followed.

## 8. Running

    tlasany ProcessManager.tla
    tlc -workers 2 -config pm_resident.cfg MCProcessManager
    tlapm ProcessManager_proofs.tla

Every run ends in about three minutes at most on two cores; `pm_resident`, `sched`,
`ct_turns`, `mem_loop` (0.6 to 1 million states each) and `gateway_state` (133 thousand,
two minutes) are the longest, three of them with refinements as temporal properties. Of
the proofs, `GatewayState_proofs` is the longest.
