--------------------------- MODULE MCObserverLoop ---------------------------
(***************************************************************************)
(* ObserverLoop on small instances; the constants are in the cfg files.    *)
(***************************************************************************)
EXTENDS ObserverLoop
=============================================================================
