------------------------------ MODULE SettleLoop ------------------------------
(***************************************************************************)
(* The observer of a single plugin, run_loop in codex_hook_cache_observe.py, *)
(* beside run_all_loop, of which main starts one or the other. It waits    *)
(* until the payload is complete (await_complete_payload) before it        *)
(* reconciles paths, and takes no notice of trust. Its signature of a      *)
(* payload is the time of its directory, which a file that is written      *)
(* further down does not change.                                           *)
(***************************************************************************)
EXTENDS ObserverLatency

CONSTANTS
    Settle,     \* SETTLE_TIMEOUT_SECONDS
    MaxWrites   \* bound on the writes of Codex to the cache

ASSUME SettleAssumption == Settle \in Nat /\ Settle > Poll /\ MaxWrites \in Nat

VARIABLES
    mode,       \* which loop main started: "all" or "one"
    pc,         \* where run_loop stands
    mark,       \* the signature of the cache
    whole,      \* its newest payload would validate
    baseline,   \* the signature run_loop has in seen, 0 for none
    previous,   \* the one it last waited on, 0 for none
    waited,     \* for how long it has been waiting
    failed,     \* its last_error
    silent,     \* time since it wrote the status record
    deep,       \* history: Codex has changed the payload below its directory
                \* since run_loop last read it
    writes

cacheVars == <<mark, whole, deep, writes>>
settleVars == <<mode, pc, cacheVars, baseline, previous, waited, failed, silent>>

SettleInit ==
    /\ mode \in {"all", "one"}
    /\ pc = "watch"
    /\ mark = 1 /\ whole \in BOOLEAN /\ deep = FALSE /\ writes = 0
    /\ baseline = 0 /\ previous = 0 /\ waited = 0
    /\ failed = FALSE /\ silent = 0

-----------------------------------------------------------------------------
\* The cache is as it was when the last pass began.
Unchanged ==
    /\ pc = "watch"
    /\ mark = baseline
    /\ pc' = "sleep"
    /\ silent' = IF silent >= Heartbeat THEN 0 ELSE silent
    /\ UNCHANGED <<cacheVars, baseline, previous, waited, failed>>

\* It is not: wait for it to be complete.
Changed ==
    /\ pc = "watch"
    /\ mark # baseline
    /\ baseline' = mark
    /\ previous' = 0 /\ waited' = 0
    /\ pc' = "snapshot"
    /\ UNCHANGED <<cacheVars, failed, silent>>

\* Mutant of Snapshot: a payload that changes is given more time.
SnapshotWithMoreTime ==
    /\ pc = "snapshot"
    /\ waited < Settle
    /\ previous' = mark
    /\ pc' = IF mark = previous THEN "validate" ELSE "pause"
    /\ waited' = IF mark = previous THEN waited ELSE 0
    /\ UNCHANGED <<cacheVars, baseline, failed, silent>>

\* await_complete_payload validates what has not changed for one poll.
Snapshot ==
    /\ pc = "snapshot"
    /\ waited < Settle
    /\ previous' = mark
    /\ pc' = IF mark = previous THEN "validate" ELSE "pause"
    /\ UNCHANGED <<cacheVars, baseline, waited, failed, silent>>

Validate ==
    /\ pc = "validate"
    /\ pc' = IF whole THEN "reconcile" ELSE "pause"
    /\ deep' = FALSE
    /\ UNCHANGED <<mark, whole, writes, baseline, previous, waited, failed, silent>>

\* Mutant of EndsPass: what the cache is by now is the new baseline.
EndsPassAnew(problem) ==
    /\ failed' = problem
    /\ baseline' = mark
    /\ silent' = 0
    /\ pc' = "sleep"
    /\ UNCHANGED <<mark, whole, writes, previous, waited>>

\* The outcome is written to the status record.
EndsPass(problem) ==
    /\ failed' = problem
    /\ silent' = 0
    /\ pc' = "sleep"
    /\ UNCHANGED <<mark, whole, writes, baseline, previous, waited>>

\* The payload has not become complete in time.
GiveUp ==
    /\ pc = "snapshot"
    /\ waited >= Settle
    /\ EndsPass(TRUE)
    /\ UNCHANGED deep

\* reconcile() validates once more.
Reconcile ==
    /\ pc = "reconcile"
    /\ EndsPass(~whole)
    /\ deep' = FALSE

\* time.sleep, in either loop.
Pause ==
    /\ pc \in {"pause", "sleep"}
    /\ pc' = IF pc = "pause" THEN "snapshot" ELSE "watch"
    /\ waited' = waited + (IF pc = "pause" THEN Poll ELSE 0)
    /\ silent' = silent + Poll
    /\ UNCHANGED <<cacheVars, baseline, previous, failed>>

\* Codex writes into the payload's directory, or below it.
CodexWrites(below) ==
    /\ writes < MaxWrites
    /\ writes' = writes + 1
    /\ mark' = IF below THEN mark ELSE mark + 1
    /\ deep' = (deep \/ below)
    /\ whole' \in BOOLEAN
    /\ UNCHANGED <<pc, baseline, previous, waited, failed, silent>>

SettleNext ==
    \/ Unchanged \/ Changed
    \/ Snapshot \/ Validate \/ GiveUp \/ Reconcile \/ Pause
    \/ \E below \in BOOLEAN : CodexWrites(below)

ObserverNext ==
    \/ mode = "all" /\ SweepNext /\ UNCHANGED settleVars
    \/ mode = "one" /\ SettleNext /\ UNCHANGED <<mode, sweepVars>>

ObserverInit == SweepInit /\ SettleInit
ObserverSpec == ObserverInit /\ [][ObserverNext]_<<settleVars, sweepVars>>

-----------------------------------------------------------------------------
\* Once the loop finds nothing changed, what it last reported is true of the
\* payload there is by then, unless Codex has meanwhile changed a file below
\* a directory that it did not touch: nothing written during the wait or the
\* pass is lost, as long as the signature shows it.
ReportOfPresent ==
    pc \in {"watch", "sleep"} /\ mark = baseline => failed = ~whole \/ deep

\* However often Codex writes, run_loop does not leave its record without a
\* heartbeat for longer than one interval and one wait, each to the next poll.
SilenceBound == Heartbeat + Settle + 2 * (Poll - 1)
SilenceBounded == silent <= SilenceBound
===============================================================================
