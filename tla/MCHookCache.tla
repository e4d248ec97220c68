---------------------------- MODULE MCHookCache ----------------------------
(***************************************************************************)
(* HookCache on small instances. The processes are interchangeable, and    *)
(* every property checked here is symmetric in them.                       *)
(***************************************************************************)
EXTENDS HookCache, TLC

Symmetry == Permutations(Procs)
=============================================================================
