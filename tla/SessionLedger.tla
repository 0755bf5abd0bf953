--------------------------- MODULE SessionLedger ---------------------------
(***************************************************************************)
(* sessions.mjs and what the turns of the gateway do to it: a ledger of    *)
(* sessions with a sliding time to live and a limit.  A turn looks up the  *)
(* session its client claims, or is issued a new one, at its beginning; it *)
(* writes to the session once more when it ends, long after, and then the  *)
(* session may have expired or been evicted.                               *)
(***************************************************************************)
EXTENDS Integers, FiniteSets

CONSTANTS
    Turns,         \* turns in progress, reused when they end
    Identities,    \* client identities
    SessionLimit,  \* limit
    SessionTtl,    \* ttlMs, in ticks
    MaxSessions,   \* bound of the model: sessions ever created
    MaxClock       \* bound of the model: ticks of the clock

ASSUME LedgerAssumption ==
    /\ SessionLimit \in Nat \ {0}
    /\ SessionTtl \in Nat \ {0}
    /\ MaxSessions \in Nat
    /\ MaxClock \in Nat

VARIABLES
    ledger,    \* entries: session id -> its entry
    issued,    \* how many ids randomUUID has returned: ids are 1..issued
    clock,     \* Date.now
    serving,   \* turn -> the kind of request it serves, its session, its identity
    users      \* history: session id -> the identities of the turns it was issued to

ledgerVars == <<ledger, issued, clock, serving, users>>

NoSession == 0
(* A chat that continues a session, one that was issued its session, a route plan. *)
TurnKinds == {"chat", "first", "plan"}
NoTurn == [kind |-> "idle", session |-> NoSession, identity |-> "nobody"]
SessionEntry == [identity : Identities, lastAccess : 0..MaxClock, expiresAt : Nat]

LedgerTypeOK ==
    /\ DOMAIN ledger \subseteq 1..issued
    /\ \A id \in DOMAIN ledger : ledger[id] \in SessionEntry
    /\ Cardinality(DOMAIN ledger) <= SessionLimit
    /\ issued \in 0..MaxSessions
    /\ clock \in 0..MaxClock
    /\ serving \in [Turns -> {NoTurn} \cup [kind : TurnKinds, session : 0..MaxSessions,
                                          identity : Identities]]
    /\ users \in [1..MaxSessions -> SUBSET Identities]

LedgerInit ==
    /\ ledger = << >>
    /\ issued = 0
    /\ clock = 0
    /\ serving = [t \in Turns |-> NoTurn]
    /\ users = [id \in 1..MaxSessions |-> {}]

-----------------------------------------------------------------------------
(* The methods of SessionLedger, as functions from entries to entries. *)
Only(entries, ids) == [id \in ids |-> entries[id]]

Expire(entries) == Only(entries, {id \in DOMAIN entries : entries[id].expiresAt > clock})

Fresh(identity) == [identity |-> identity, lastAccess |-> clock, expiresAt |-> clock + SessionTtl]

(* The entries that evictOldest may delete: ids are random, so that any of those
   with the oldest access may have the smallest. *)
Oldest(entries) ==
    {id \in DOMAIN entries :
        \A other \in DOMAIN entries : entries[id].lastAccess <= entries[other].lastAccess}

Refresh(entries, id) == [entries EXCEPT ![id] = Fresh(entries[id].identity)]

(* Mutant: an entry that is gone is written anew. *)
PatchAnyway(entries, id, identity) ==
    [other \in DOMAIN entries \cup {id} |->
        IF other = id THEN Fresh(identity) ELSE entries[other]]

(* patch and setAgentAlias do not look at the time to live. *)
Patch(entries, id, identity) ==
    IF id \in DOMAIN entries THEN Refresh(entries, id) ELSE entries

(* Mutant: whoever names the session has it. *)
FoundByName(entries, id, identity) == id \in DOMAIN entries

(* The condition under which get returns an entry; it refreshes the entry then. *)
Found(entries, id, identity) == id \in DOMAIN entries /\ entries[id].identity = identity

(* create(): after evicting the oldest of a full ledger. *)
Create(entries, identity) ==
    /\ issued < MaxSessions
    /\ issued' = issued + 1
    /\ LET live == Expire(entries) IN
       \E evicted \in IF Cardinality(DOMAIN live) >= SessionLimit
                      THEN {{id} : id \in Oldest(live)} ELSE {{}} :
           LET kept == Only(live, DOMAIN live \ evicted) IN
           ledger' = [id \in DOMAIN kept \cup {issued + 1} |->
                        IF id = issued + 1 THEN Fresh(identity) ELSE kept[id]]

Use(id, identity) == users' = [users EXCEPT ![id] = users[id] \cup {identity}]
Serve(t, kind, id, identity) ==
    serving' = [serving EXCEPT ![t] = [kind |-> kind, session |-> id, identity |-> identity]]

-----------------------------------------------------------------------------
(* handleInference and the first synchronous part of the handler.  A session that
   is found is refreshed; settings of the turn are patched into it in the same
   instant.  A route plan creates its session only when it is made. *)
ContinueSession(t, id, identity, kind) ==
    /\ serving[t] = NoTurn
    /\ Found(Expire(ledger), id, identity)
    /\ ledger' = Refresh(Expire(ledger), id)
    /\ Serve(t, kind, id, identity)
    /\ Use(id, identity)
    /\ UNCHANGED <<issued, clock>>

BeginChat(t, claimed, identity) ==
    /\ serving[t] = NoTurn
    /\ ~Found(Expire(ledger), claimed, identity)
    /\ Create(ledger, identity)
    /\ Serve(t, "first", issued + 1, identity)
    /\ Use(issued + 1, identity)
    /\ UNCHANGED clock

BeginPlan(t, claimed, identity) ==
    /\ serving[t] = NoTurn
    /\ ~Found(Expire(ledger), claimed, identity)
    /\ ledger' = IF claimed = NoSession THEN ledger ELSE Expire(ledger)
    /\ Serve(t, "plan", NoSession, identity)
    /\ UNCHANGED <<issued, clock, users>>

(* The turn answers: its session, if it is still there, takes the alias that did. *)
EndChat(t) ==
    /\ serving[t].kind \in {"chat", "first"}
    /\ ledger' = Patch(ledger, serving[t].session, serving[t].identity)
    /\ serving' = [serving EXCEPT ![t] = NoTurn]
    /\ UNCHANGED <<issued, clock, users>>

(* A chat that came without a session and is routed to the monitor: its answer
   comes with another new session, beside the one it was issued at its beginning. *)
EndAtMonitor(t) ==
    /\ serving[t].kind = "first"
    /\ Create(ledger, serving[t].identity)
    /\ Use(issued + 1, serving[t].identity)
    /\ serving' = [serving EXCEPT ![t] = NoTurn]
    /\ UNCHANGED clock

EndPlan(t) ==
    /\ serving[t].kind = "plan"
    /\ IF serving[t].session = NoSession
       THEN Create(ledger, serving[t].identity) /\ Use(issued + 1, serving[t].identity)
       ELSE UNCHANGED <<ledger, issued, users>>
    /\ serving' = [serving EXCEPT ![t] = NoTurn]
    /\ UNCHANGED clock

(* The turn fails or its client leaves: the session stays as it is. *)
FailTurn(t) ==
    /\ serving[t] # NoTurn
    /\ serving' = [serving EXCEPT ![t] = NoTurn]
    /\ UNCHANGED <<ledger, issued, clock, users>>

Tick == clock < MaxClock /\ clock' = clock + 1 /\ UNCHANGED <<ledger, issued, serving, users>>

LedgerNext ==
    \/ \E t \in Turns, claimed \in 0..issued, identity \in Identities :
        \/ \E kind \in {"chat", "plan"} : ContinueSession(t, claimed, identity, kind)
        \/ BeginChat(t, claimed, identity)
        \/ BeginPlan(t, claimed, identity)
    \/ \E t \in Turns : EndChat(t) \/ EndAtMonitor(t) \/ EndPlan(t) \/ FailTurn(t)
    \/ Tick

LedgerSpec == LedgerInit /\ [][LedgerNext]_ledgerVars

-----------------------------------------------------------------------------
(* A session is only ever used by turns of one identity, the one in its entry, and
   a turn that ends late writes to no session of another identity. *)
OneIdentityPerSession ==
    /\ \A id \in 1..MaxSessions : Cardinality(users[id]) <= 1
    /\ \A id \in DOMAIN ledger : users[id] = {ledger[id].identity}

(* A session that was evicted or swept never comes back, not even by the turn that
   was using it; and one that is not expired leaves only when the ledger is full,
   and only if no other was left alone for longer. *)
GoneStaysGone ==
    [][ /\ \A id \in DOMAIN ledger' : id \in DOMAIN ledger \/ id = issued + 1
        /\ \A id \in DOMAIN ledger \ DOMAIN ledger' :
              \/ ledger[id].expiresAt <= clock
              \/ /\ Cardinality(DOMAIN ledger) = SessionLimit
                 /\ \A other \in DOMAIN ledger :
                       ledger[other].lastAccess >= ledger[id].lastAccess
      ]_ledgerVars
=============================================================================
