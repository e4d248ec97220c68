--------------------------- MODULE MCConfigWrite ---------------------------
(***************************************************************************)
(* ConfigWrite with a provisioner and an observer (and a second            *)
(* provisioner), two values per writer, and a Codex whose second edit      *)
(* leaves a record format the Driver does not recognize.                   *)
(***************************************************************************)
EXTENDS ConfigWrite
=============================================================================
