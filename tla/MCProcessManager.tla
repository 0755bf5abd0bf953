-------------------------- MODULE MCProcessManager --------------------------
(* Small instances of ProcessManager. *)
EXTENDS ProcessManager, TLC
ChildSymmetry == Permutations(Child) \cup Permutations(Client)
=============================================================================
