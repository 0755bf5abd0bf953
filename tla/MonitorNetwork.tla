--------------------------- MODULE MonitorNetwork ---------------------------
(***************************************************************************)
(* monitor/network.mjs over the state graph of monitor/states.mjs: the     *)
(* state of every network interface, of the pseudo target "all-nics" and   *)
(* of the machine, and the verbs that move them.  Of the verbs on an       *)
(* interface only up and down are implemented: the others move the state   *)
(* and are then rejected as stubs.                                         *)
(***************************************************************************)
EXTENDS RejectCache, Integers, FiniteSets

CONSTANT Nics    \* interfaces, "all-nics" among them

VARIABLES
    nicState,    \* states: target -> state
    resetting    \* the targets whose entry in the map "resetting" is true

netVars == <<nicState, resetting>>

Machine == "machine"
NetTargets == Nics \cup {Machine}

(* STATE_EDGES. *)
StateEdges ==
    [up        |-> {"down", "frozen", "sleep", "halt", "resetting"},
     down      |-> {"up", "halt", "resetting"},
     frozen    |-> {"up", "halt", "resetting"},
     sleep     |-> {"up", "halt", "resetting"},
     halt      |-> {"resetting"},
     resetting |-> {"down"}]

NicStates == DOMAIN StateEdges

(* Mutant: an interface that is being reset may be brought up at once. *)
VerbNextWaking ==
    [up        |-> [down |-> "down", freeze |-> "frozen", sleep |-> "sleep",
                    halt |-> "halt", reset |-> "resetting", snapshot |-> "up"],
     down      |-> [up |-> "up", halt |-> "halt", reset |-> "resetting"],
     frozen    |-> [thaw |-> "up", halt |-> "halt", reset |-> "resetting",
                    snapshot |-> "frozen"],
     sleep     |-> [wake |-> "up", halt |-> "halt", reset |-> "resetting"],
     halt      |-> [reset |-> "resetting"],
     resetting |-> [down |-> "down", up |-> "up"]]

(* VERB_NEXT. *)
VerbNext ==
    [up        |-> [down |-> "down", freeze |-> "frozen", sleep |-> "sleep",
                    halt |-> "halt", reset |-> "resetting", snapshot |-> "up"],
     down      |-> [up |-> "up", halt |-> "halt", reset |-> "resetting"],
     frozen    |-> [thaw |-> "up", halt |-> "halt", reset |-> "resetting",
                    snapshot |-> "frozen"],
     sleep     |-> [wake |-> "up", halt |-> "halt", reset |-> "resetting"],
     halt      |-> [reset |-> "resetting"],
     resetting |-> [down |-> "down"]]

MachineOnly == {"lockdown", "reboot", "secure_reboot", "snapshot", "encrypt-volumes"}
NicOnly     == {"down", "up", "freeze", "thaw", "sleep", "wake", "reset", "halt"}
Uncallable  == {"lockdown", "reboot", "secure_reboot"}
Encrypt     == {"encrypt", "encrypt-volumes"}
NicStubs    == {"freeze", "thaw", "sleep", "wake", "reset", "halt"}
NetVerbs    == MachineOnly \cup NicOnly \cup Encrypt

NetTypeOK ==
    /\ nicState \in [NetTargets -> NicStates]
    /\ resetting \subseteq NetTargets

(* Every target is up: a network created with states of its own is left out. *)
NetInit ==
    /\ nicState = [n \in NetTargets |-> "up"]
    /\ resetting = {}

-----------------------------------------------------------------------------
(* apply() rejects before anything moves: no capability, a verb for the other kind
   of target, a reset during a reset, or no edge from the target's state. *)
NetRefuses(verb, target, capable) ==
    \/ ~capable
    \/ verb \in Encrypt
    \/ verb \in MachineOnly /\ target # Machine
    \/ verb \in NicOnly /\ target = Machine
    \/ verb = "reset" /\ target \in resetting
    \/ verb \notin Uncallable /\ verb \notin DOMAIN VerbNext[nicState[target]]

NetReject(verb, target, capable, ticket) ==
    /\ NetRefuses(verb, target, capable)
    /\ Reject(ticket, "network")
    /\ UNCHANGED netVars

(* What is not refused and not thrown back moves: lockdown, reboot and
   secure_reboot of the machine throw. *)
NetMove(verb, target, ticket) ==
    /\ ~NetRefuses(verb, target, TRUE)
    /\ verb \notin Uncallable
    /\ LET next == VerbNext[nicState[target]][verb] IN
       /\ nicState' = [nicState EXCEPT ![target] = next]
       /\ resetting' = IF next = "resetting" THEN resetting \cup {target}
                                             ELSE resetting \ {target}
    /\ IF verb \in NicStubs THEN Reject(ticket, "network") ELSE UNCHANGED rejected

NetNext ==
    \E verb \in NetVerbs, target \in NetTargets, ticket \in Tickets :
        \/ \E capable \in BOOLEAN : NetReject(verb, target, capable, ticket)
        \/ NetMove(verb, target, ticket)

-----------------------------------------------------------------------------
(* Whatever verbs come in whatever order, rejected as stubs or not: a target moves
   along an edge of the state graph only, the machine never moves, and what is
   marked as being reset is exactly what is in that state. *)
NicsFollowGraph ==
    /\ [](nicState[Machine] = "up" /\ resetting = {n \in NetTargets : nicState[n] = "resetting"})
    /\ [][\A n \in NetTargets : nicState'[n] # nicState[n] => nicState'[n] \in StateEdges[nicState[n]]]_netVars
=============================================================================
