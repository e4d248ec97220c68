-------------------------- MODULE MCObserverHealth --------------------------
(***************************************************************************)
(* ObserverHealth on small instances: process ids are numbers, plugins     *)
(* model values.                                                           *)
(***************************************************************************)
EXTENDS ObserverHealth
=============================================================================
