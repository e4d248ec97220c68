---------------------------- MODULE AtomicConfig ----------------------------
(***************************************************************************)
(* What codex_config_write promises, seen from outside: a file of settings *)
(* in which a Driver write replaces exactly the writer's own setting in    *)
(* one step, carrying every other Driver setting forward. Codex changes    *)
(* only its own part. Because Codex takes no lock, a Driver write may also *)
(* put an earlier version of Codex's part back.                            *)
(***************************************************************************)
EXTENDS Naturals

CONSTANTS Keys, Values, Unset, MaxEdits

VARIABLES driver, codex

Init ==
    /\ driver = [k \in Keys |-> Unset]
    /\ codex = 0

DriverWrite ==
    \E k \in Keys, v \in Values :
        /\ driver[k] # v
        /\ driver' = [driver EXCEPT ![k] = v]
        /\ codex' \in 0..codex

CodexEdit ==
    /\ codex' \in (codex + 1)..MaxEdits
    /\ UNCHANGED driver

Next == DriverWrite \/ CodexEdit

Spec == Init /\ [][Next]_<<driver, codex>>
=============================================================================
