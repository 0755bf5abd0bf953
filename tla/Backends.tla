------------------------------ MODULE Backends ------------------------------
(***************************************************************************)
(* What a turn of the gateway may assume of the backends, and what the     *)
(* process manager has to guarantee: how each backend, as ensure() and the *)
(* registry show it, moves from one step to the next.  "ready" is a record *)
(* that ensure() returns at once; "evicting" one that the registry still   *)
(* calls ready although ensure() would start it anew.                      *)
(***************************************************************************)
CONSTANT Backend
VARIABLE seen

(* A backend gets ready only out of a start, one that is ready is neither  *)
(* started again nor given up, and one that was given up comes back only   *)
(* as cold.                                                                *)
Moves ==
  {<<"cold", "starting">>, <<"cold", "unavailable">>,
   <<"starting", "ready">>, <<"starting", "evicting">>,
   <<"starting", "cold">>, <<"starting", "unavailable">>,
   <<"ready", "cold">>, <<"ready", "evicting">>,
   <<"evicting", "cold">>, <<"evicting", "starting">>,
   <<"evicting", "unavailable">>,
   <<"unavailable", "cold">>}

States == {"cold", "starting", "ready", "evicting", "unavailable"}

BackendsInit == seen \in [Backend -> {"cold", "ready", "unavailable"}]

BackendsNext ==
  /\ seen' \in [Backend -> States]
  /\ \A a \in Backend : seen'[a] # seen[a] => <<seen[a], seen'[a]>> \in Moves

BackendsSpec == BackendsInit /\ [][BackendsNext]_seen
=============================================================================
