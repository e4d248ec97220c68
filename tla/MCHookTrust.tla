---------------------------- MODULE MCHookTrust ----------------------------
(***************************************************************************)
(* HookTrust on small instances. Processes are interchangeable, and so are *)
(* the plugin's hooks; every property checked here is symmetric in them.   *)
(***************************************************************************)
EXTENDS HookTrust, TLC

Symmetry == Permutations(Procs) \union Permutations(OwnKeys)
=============================================================================
