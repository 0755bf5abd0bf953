-------------------------- MODULE MCDriveScheduler --------------------------
(* Model checking of DriveScheduler: a root drive with one child, a task on *)
(* each; the one on the root repeats and needs a capability.                *)
EXTENDS DriveScheduler, TLC

CONSTANTS root, child, dream, chore, write

MCParent == (root :> None) @@ (child :> root)
MCRank == (root :> 0) @@ (child :> 1)
MCData ==
  (dream :> [drive |-> root, priority |-> 1, needs |-> {write},
             repeat |-> TRUE, cooldown |-> 1])
  @@ (chore :> [drive |-> child, priority |-> 0, needs |-> {},
                repeat |-> FALSE, cooldown |-> 0])
=============================================================================
