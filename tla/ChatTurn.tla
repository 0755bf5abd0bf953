------------------------------ MODULE ChatTurn ------------------------------
(***************************************************************************)
(* A request through the gateway of Green Roomz: Gateway.handleChatTurn    *)
(* and handleDirectAlias in src/gateway.mjs, with the policy gate they     *)
(* hold a slot of, the router consult (src/nexus.mjs), and the peek and    *)
(* delivery of a specialist's stream (src/handoff.mjs).                    *)
(*                                                                         *)
(* A turn's pc names the await it is suspended at; the code between two    *)
(* awaits is one action.  be[a] is what the process manager makes of alias *)
(* a, seen from here: it moves as module Backends says, which module       *)
(* ProcessManager is shown to implement.                                   *)
(* Texts, headers, the session ledger and the hop log are left out: no     *)
(* routing decision reads them.                                            *)
(***************************************************************************)
EXTENDS PolicyGate, FiniteSets

CONSTANTS
  Turn,       \* requests; one that has ended is reused for a later one
  Spec,       \* specialists with a chat backend
  Native,     \* keys of NATIVE_CHAT
  Logical,    \* agents without a process (the monitor)
  Command,    \* speech-synthesis-agent: no persistent server
  Nexus,      \* the resident router
  MaxHops,    \* MAX_SPECIALIST_HOPS
  None

Alias == Spec \cup Native \cup Logical \cup Command \cup {Nexus}

ASSUME AliasAssumption ==
  /\ None \notin Alias \cup Turn
  /\ MaxHops \in Nat \ {0}

VARIABLES
  turn,  \* per request: where it waits and the locals of its handler
  gone,  \* requests whose client has left, while their handler goes on
  be     \* the backend of each alias, as in module Backends

vars == <<active, queue, turn, gone, be>>

(* The aliases with a process, and how it moves. *)
Process == Alias \ (Logical \cup Command)

Env == INSTANCE Backends WITH Backend <- Process, seen <- be

(* Suspended in acquire(), resolved by drain(), or in one of the awaits    *)
(* made while the handler holds a slot.                                    *)
Holding == {"granted", "consult", "ensure", "peek", "resident", "native",
            "direct"}
Final   == {"idle", "answered", "failed", "cut", "exhausted"}
Pc      == Holding \cup Final \cup {"queued", "deliver"}

Ended(how) == [pc |-> how, want |-> None, direct |-> FALSE, alias |-> None,
               hops |-> 0, visited |-> {}, peeked |-> FALSE]

Init ==
  /\ GateInit
  /\ turn = [t \in Turn |-> Ended("idle")]
  /\ gone = {}
  /\ be \in {f \in [Alias -> {"cold", "ready", "unavailable"}] :
               /\ \A a \in Logical : f[a] = "ready"
               /\ \A a \in Command : f[a] # "ready"}

-----------------------------------------------------------------------------
Routable(a) == a # Nexus /\ be[a] # "unavailable"

(* registry.status(a).state === 'ready'. *)
SeenReady(a) == be[a] \in {"ready", "evicting"}

(* One synchronous segment of turn t's handler, ending at the await or the *)
(* end that r names.  Ending, and `return deliverPeek(...)` without await, *)
(* run the finally block that releases the slot; going to ensure() starts  *)
(* a backend that has no ready record, which fails at once for a runtime   *)
(* without a server.                                                       *)
Step(t, r) ==
  /\ IF r.pc \in Holding
     THEN /\ turn' = [turn EXCEPT ![t] = r]
          /\ UNCHANGED gateVars
     ELSE /\ turn' = [u \in Turn |->
                        IF u = t THEN r
                        ELSE IF u \in Granted
                             THEN [turn[u] EXCEPT !.pc = "granted"]
                             ELSE turn[u]]
          /\ Release
  /\ gone' = IF r.pc \in Final THEN gone \ {t} ELSE gone
  /\ be' = [a \in Alias |->
              IF /\ r.pc \in {"ensure", "native", "direct", "resident"}
                 /\ r.alias = a
                 /\ turn[t].pc # r.pc
                 /\ be[a] \in {"cold", "evicting"}
              THEN IF a \in Command THEN "unavailable" ELSE "starting"
              ELSE be[a]]

(* completeOnResident(). *)
OnResident(r) ==
  IF be[Nexus] = "unavailable" THEN Ended("failed")
  ELSE [r EXCEPT !.pc = "resident", !.alias = Nexus, !.hops = @ + 1]

(* Mutant: the resident answers also after a specialist has been tried. *)
AfterLoopAnyway(r) ==
  IF be[Nexus] # "unavailable" THEN OnResident(r) ELSE Ended("exhausted")

(* What follows the while loop. *)
AfterLoop(r) ==
  IF ~r.peeked /\ be[Nexus] # "unavailable" THEN OnResident(r)
  ELSE Ended("exhausted")

(* consultNexus() asks the router, unless it is unavailable. *)
Consult(r) ==
  [r EXCEPT !.pc = "consult",
            !.alias = IF be[Nexus] = "unavailable" THEN None ELSE Nexus]

(* The loop head, for every iteration but that of a hard route. *)
Loop(r) == IF r.hops < MaxHops THEN Consult(r) ELSE AfterLoop(r)

Visit(r, a) == [r EXCEPT !.visited = @ \cup {a}, !.hops = @ + 1]

Peek(r) == [r EXCEPT !.pc = "peek", !.peeked = TRUE]

(* The rest of the loop body for a chosen alias; explicit: the client's    *)
(* slash command or model names it.  ensure() does not suspend the turn    *)
(* for a ready record.                                                     *)
Select(r, a, explicit) ==
  CASE a = Nexus -> AfterLoop(r)
    [] a \in Command -> Ended("failed")
    [] a \in Native /\ explicit ->
         [r EXCEPT !.pc = "native", !.alias = a, !.hops = @ + 1]
    [] a \in Native /\ ~explicit -> Loop(Visit(r, a))
    [] a \in Logical -> Ended("answered")
    [] a \in Spec /\ (~Routable(a) \/ (~explicit /\ ~SeenReady(a))) ->
         Loop(Visit(r, a))
    [] OTHER ->
         LET v == [Visit(r, a) EXCEPT !.pc = "ensure", !.alias = a] IN
         IF be[a] = "ready" THEN Peek(v) ELSE v

-----------------------------------------------------------------------------
(* A request arrives; a is the alias its path or the hard rules give it.   *)
Arrive(t, a, direct) ==
  LET new(pc) == [Ended(pc) EXCEPT !.want = a, !.direct = direct] IN
  /\ turn[t].pc \in Final
  /\ IF direct THEN a \in Alias /\ be[a] # "unavailable"
     ELSE a \in (Alias \ Logical) \cup {None}
  /\ \/ TakeSlot /\ turn' = [turn EXCEPT ![t] = new("granted")]
     \/ Enqueue(t) /\ turn' = [turn EXCEPT ![t] = new("queued")]
  /\ UNCHANGED <<gone, be>>

(* acquire() has resolved: up to the first await of the handler.  The hard *)
(* route is tried first or not at all, so it is not kept.                  *)
Begin(t) ==
  LET want == turn[t].want
      r    == [turn[t] EXCEPT !.want = None, !.direct = FALSE]
  IN
  /\ turn[t].pc = "granted"
  /\ Step(t, IF turn[t].direct THEN [r EXCEPT !.pc = "direct", !.alias = want]
             ELSE IF want = None THEN Loop(r)
             ELSE IF want = Nexus THEN OnResident(r)
             ELSE IF ~Routable(want) THEN Loop(Visit(r, want))
             ELSE Select(r, want, TRUE))

(* consultNexus() answers: some alias it may admit, or none.  It answers   *)
(* also when its fetch is aborted, from the offline plan.  The alias of a  *)
(* hard route has been visited, so what is picked here is never explicit.  *)
Consulted(t) ==
  LET r == turn[t] IN
  /\ r.pc = "consult"
  /\ \/ Step(t, AfterLoop(r))
     \/ \E a \in Alias \ r.visited :
          Routable(a) /\ Step(t, Select(r, a, FALSE))

(* ensure() of the chosen specialist: a ready record, or an error. *)
Ensured(t) ==
  LET r == turn[t] IN
  /\ r.pc = "ensure"
  /\ \/ /\ be[r.alias] = "ready"
        /\ Step(t, Peek(r))
     \/ Step(t, Ended("failed"))

(* peekSpecialist() returns because of the specialist: a short or refused  *)
(* answer that is delivered at once, a longer one, a HANDOFF; or its fetch *)
(* throws.                                                                 *)
Peeked(t) ==
  LET r == turn[t] IN
  /\ r.pc = "peek"
  /\ \/ Step(t, Ended("answered"))
     \/ Step(t, [r EXCEPT !.pc = "deliver"])
     \/ Step(t, Loop(r))
     \/ Step(t, Ended("failed"))

(* Mutant: no peek deadline, only the client's signal ends a peek. *)
PeekTimeoutOnAbort(t) ==
  LET r == turn[t] IN
  /\ r.pc = "peek" /\ t \in gone
  /\ Step(t, Ended("failed"))

(* The peek deadline fires: before the headers fetch() throws, after them  *)
(* the hop is counted a second time.                                       *)
PeekTimeout(t) ==
  LET r == turn[t] IN
  /\ r.pc = "peek"
  /\ \/ Step(t, Loop(Visit(r, r.alias)))
     \/ Step(t, Ended("failed"))

(* completeOnResident, completeNativeChat or proxyJson ends: an answer, an *)
(* error, or the upstream deadline.                                        *)
Complete(t) ==
  /\ turn[t].pc \in {"resident", "native", "direct"}
  /\ \E how \in {"answered", "failed"} : Step(t, Ended(how))

(* deliverPeek() reads on after the slot was released. *)
End(t, how) ==
  /\ turn' = [turn EXCEPT ![t] = Ended(how)]
  /\ gone' = gone \ {t}
  /\ UNCHANGED be

Delivered(t) ==
  /\ turn[t].pc = "deliver"
  /\ \E how \in {"answered", "failed"} : End(t, how)
  /\ UNCHANGED gateVars

(* The deadline of the peek is still part of the stream's signal. *)
DeadlineCuts(t) ==
  /\ turn[t].pc = "deliver"
  /\ End(t, "cut")
  /\ UNCHANGED gateVars

(* The client closes its connection.  A peek or a delivery that began      *)
(* before is aborted, a queued turn leaves the queue; any other await ends *)
(* in its own time.  (Without a router the consult does not suspend.)      *)
Disconnect(t) ==
  \/ turn[t].pc = "queued" /\ Leave(t) /\ End(t, "failed")
  \/ turn[t].pc = "peek" /\ t \notin gone /\ Step(t, Ended("failed"))
  \/ turn[t].pc = "deliver" /\ t \notin gone /\ UNCHANGED gateVars
     /\ End(t, "failed")
  \/ /\ turn[t].pc \in Holding \ {"granted", "peek"}
     /\ turn[t].pc = "consult" => turn[t].alias = Nexus
     /\ t \notin gone
     /\ gone' = gone \cup {t}
     /\ UNCHANGED <<gateVars, turn, be>>

(* The process manager moves a backend. *)
BackendStep(a) ==
  /\ \E next \in Env!States :
       <<be[a], next>> \in Env!Moves /\ be' = [be EXCEPT ![a] = next]
  /\ UNCHANGED <<gateVars, turn, gone>>

Next ==
  \/ \E t \in Turn, a \in Alias \cup {None}, d \in BOOLEAN : Arrive(t, a, d)
  \/ \E t \in Turn :
       \/ Begin(t) \/ Consulted(t) \/ Ensured(t) \/ Peeked(t)
       \/ PeekTimeout(t) \/ Complete(t) \/ Delivered(t) \/ DeadlineCuts(t)
       \/ Disconnect(t)
  \/ \E a \in Process : BackendStep(a)

SafeSpec == Init /\ [][Next]_vars

(* Resolved promises run, and every wait has its timer: the consult (25 s),*)
(* a cold start (module ProcessManager, EnsureSettles), the peek (20 s),   *)
(* the upstream request (upstream_timeout_ms).  Nothing is assumed of      *)
(* backends or clients.                                                    *)
Fairness ==
  \A t \in Turn :
    /\ WF_vars(Begin(t))
    /\ WF_vars(Consulted(t))
    /\ WF_vars(Ensured(t))
    /\ WF_vars(PeekTimeout(t))
    /\ WF_vars(Complete(t))
    /\ WF_vars(DeadlineCuts(t))

FairSpec == SafeSpec /\ Fairness

-----------------------------------------------------------------------------
TurnRec == [pc: Pc, want: Alias \cup {None}, direct: BOOLEAN,
            alias: Alias \cup {None}, hops: 0..MaxHops + 1,
            visited: SUBSET Alias, peeked: BOOLEAN]

TypeOK ==
  /\ active \in 0..Max
  /\ queue \in Seq(Turn)
  /\ turn \in [Turn -> TurnRec]
  /\ gone \subseteq Turn
  /\ be \in [Alias -> Env!States]

Holders == {t \in Turn : turn[t].pc \in Holding}

(* The count of the gate is the number of handlers between acquire() and   *)
(* their finally block, never more than the policy allows: no exit path of *)
(* a turn leaks its slot or gives one back twice.                          *)
SlotsAccounted == active = Cardinality(Holders) /\ active <= Max

(* The turns that hold a slot and those that wait for one behave as the    *)
(* fair gate of module FairGate: a newcomer is admitted at once only when  *)
(* nobody waits, a slot given back passes to whoever has waited longest,   *)
(* and a client that leaves the queue moves nobody else in it.             *)
Gate == INSTANCE FairGate
          WITH Client <- Turn, Slots <- Max, holders <- Holders, waiting <- queue

GateIsFair == Gate!GateSpec

(* Every turn ends, those in the queue too, whatever backends and other    *)
(* clients do: no wait under a slot is without a deadline.                 *)
TurnEnds == \A t \in Turn : turn[t].pc \notin Final ~> turn[t].pc \in Final

(* "The existing PolicyGate remains the gateway's heavy-inference          *)
(* concurrency gate": specialist generations in flight stay in the policy. *)
HeavyWithinPolicy ==
  Cardinality({t \in Turn :
                 turn[t].pc \in {"peek", "deliver", "native", "direct"}}) <= Max
=============================================================================
