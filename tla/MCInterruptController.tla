----------------------- MODULE MCInterruptController ------------------------
(* Model checking of InterruptController: no session and no lease is special. *)
EXTENDS InterruptController, TLC
IrqSymmetry == Permutations(Session) \cup Permutations(Gen)
=============================================================================
