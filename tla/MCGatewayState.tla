--------------------------- MODULE MCGatewayState ---------------------------
(* The instance of GatewayState that TLC checks. *)
EXTENDS GatewayState, TLC

MCGatewayCaller == [role |-> "green-roomz", rights |-> {"POST", "OBSERVE", "SNAPSHOT"}]

(* A caller for every right, and for every role that calls.mjs asks for. *)
MCCallers ==
    {MCGatewayCaller,
     [role |-> "handler", rights |-> {"POST", "REPLY", "UPCALL", "VOTE"}],
     [role |-> "ticket_owner", rights |-> {"WAIT"}]}

(* Turns, identities and tickets are only ever compared with one another. *)
StateSymmetry ==
    Permutations(Turns) \cup Permutations(Identities) \cup Permutations(Tickets)
=============================================================================
