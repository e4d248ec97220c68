----------------------------- MODULE MCStopGate -----------------------------
(***************************************************************************)
(* StopGate on small instances: all constants are numbers.                 *)
(***************************************************************************)
EXTENDS StopGate
=============================================================================
