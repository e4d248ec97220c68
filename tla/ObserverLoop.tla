---------------------------- MODULE ObserverLoop ----------------------------
(***************************************************************************)
(* The observer that watches every covered plugin (run_all_loop in         *)
(* dev-tooling/codex_hook_cache_observe.py) and the reconcile it runs for  *)
(* one of them (_reconcile_plugin in codex_hook_cache_all.py), against a   *)
(* Codex that changes payloads and config.toml at any instant, a release   *)
(* source that is not always reachable, and a supervisor that restarts the *)
(* process when it dies.                                                   *)
(*                                                                         *)
(* A signature (all_fingerprint) covers a plugin's payload files and the   *)
(* mtime of config.toml, which all plugins share. The loop only ever asks  *)
(* whether a stored signature is the current one, and mtimes do not come   *)
(* back, so a stored signature is a Boolean that every change to what it   *)
(* covers makes false. HookCache and ConfigWrite model the inside of the   *)
(* path reconcile and of the trust write, which are single steps here.     *)
(***************************************************************************)
EXTENDS Naturals

CONSTANTS
    K,          \* number of plugins; the loop visits them in order
    Raises,     \* plugins whose reconcile raises what nothing catches
    MaxWrites,  \* bound on changes by Codex and by the network
    MaxDeaths   \* bound on deaths of the process for other reasons

ASSUME KAssumption == K \in Nat
ASSUME RaisesAssumption == Raises \subseteq 1..K
ASSUME BoundsAssumption == MaxWrites \in Nat /\ MaxDeaths \in Nat

Plugins == 1..K
Nobody == 0
Changes == {"none", "record", "payload", "upgrade"}

VARIABLES
    payload,    \* each plugin's newest payload
    trusted,    \* config.toml has a trust record that matches that payload
    recognized, \* the record format in config.toml is the known one
    reachable,  \* releases can be fetched and config.toml can be written
    pc,         \* where the loop stands
    todo,       \* plugins the current sweep has still to visit
    now,        \* the plugin being reconciled
    change,     \* what others changed of it since the pass last read it
    failed,     \* the pass has a problem to report
    seen,       \* the plugin's signature is the one stored in seen
    settled,    \* the plugin's signature is the one stored in settled
    errors,     \* the plugin's last pass reported a problem
    due,        \* its retry time has come
    status,     \* the plugin's status record, a file
    since,      \* history: what others changed of it since that pass read it
    writes, deaths

vars == <<payload, trusted, recognized, reachable, pc, todo, now, change,
          failed, seen, settled, errors, due, status, since, writes, deaths>>
hostVars == <<payload, trusted, recognized, reachable>>
passVars == <<now, change, failed>>
memoryVars == <<seen, settled, errors, due>>
countVars == <<writes, deaths>>

(***************************************************************************)
(* A "gone" payload has no version directory, or none that declares a      *)
(* hook: the plugin is not covered. A "broken" one is refused by the path  *)
(* reconcile. The bytes of a "genuine" one are its release's.              *)
(***************************************************************************)
Payloads == {"gone", "broken", "altered", "genuine"}
Covered == {p \in Plugins : payload[p] # "gone"}

TypeOK ==
    /\ payload \in [Plugins -> Payloads]
    /\ trusted \in [Plugins -> BOOLEAN]
    /\ recognized \in BOOLEAN
    /\ reachable \in BOOLEAN
    /\ pc \in {"sweep", "paths", "trust", "fetch", "write", "refresh", "dead"}
    /\ todo \subseteq Plugins
    /\ now \in Plugins \union {Nobody}
    /\ change \in Changes
    /\ failed \in BOOLEAN
    /\ seen \in [Plugins -> BOOLEAN]
    /\ settled \in [Plugins -> BOOLEAN]
    /\ errors \in [Plugins -> BOOLEAN]
    /\ due \in [Plugins -> BOOLEAN]
    /\ status \in [Plugins -> {"none", "ok", "problem"}]
    /\ since \in [Plugins -> {"never", "nothing", "during", "after"}]
    /\ writes \in 0..MaxWrites
    /\ deaths \in 0..MaxDeaths

AllFalse == [p \in Plugins |-> FALSE]

Init ==
    /\ payload = [p \in Plugins |-> "genuine"]
    /\ trusted = AllFalse
    /\ recognized = TRUE
    /\ reachable = TRUE
    /\ pc = "sweep"
    /\ todo = {}
    /\ now = Nobody
    /\ change = "none"
    /\ failed = FALSE
    /\ seen = AllFalse
    /\ settled = AllFalse
    /\ errors = AllFalse
    /\ due = AllFalse
    /\ status = [p \in Plugins |-> "none"]
    /\ since = [p \in Plugins |-> "never"]
    /\ writes = 0
    /\ deaths = 0

-----------------------------------------------------------------------------
(***************************************************************************)
(* The sweep.                                                              *)
(***************************************************************************)
\* covered_plugin_roots, at the top of an iteration.
Sweep ==
    /\ pc = "sweep"
    /\ todo = {}
    /\ todo' = Covered
    /\ UNCHANGED <<hostVars, pc, passVars, memoryVars, status, since,
                   countVars>>

Turn(p) == pc = "sweep" /\ p \in todo /\ \A q \in todo : p <= q

\* Mutant of Wanted: a failed pass is not retried.
WantedOnce(p) == ~settled[p]

\* A pass is wanted when the plugin has not settled as it is now, or when a
\* failed one is due again.
Wanted(p) == ~settled[p] \/ (errors[p] /\ due[p])

\* A signature not seen before is only noted: the next visit tells whether
\* it is stable.
Notice(p) ==
    /\ Turn(p)
    /\ ~seen[p]
    /\ seen' = [seen EXCEPT ![p] = TRUE]
    /\ todo' = todo \ {p}
    /\ UNCHANGED <<hostVars, pc, passVars, settled, errors, due, status,
                   since, countVars>>

\* Nothing to do; the heartbeat repeats what the last pass reported.
Skip(p) ==
    /\ Turn(p)
    /\ seen[p]
    /\ ~Wanted(p)
    /\ todo' = todo \ {p}
    /\ UNCHANGED <<hostVars, pc, passVars, memoryVars, status, since,
                   countVars>>

Begin(p) ==
    /\ Turn(p)
    /\ seen[p]
    /\ Wanted(p)
    /\ pc' = "paths"
    /\ now' = p
    /\ UNCHANGED <<hostVars, todo, change, failed, memoryVars, status, since,
                   countVars>>

(***************************************************************************)
(* The pass for one plugin.                                                *)
(***************************************************************************)
\* The process ends and its memory with it.
Die ==
    /\ pc' = "dead"
    /\ todo' = {}
    /\ now' = Nobody
    /\ change' = "none"
    /\ failed' = FALSE
    /\ seen' = AllFalse
    /\ settled' = AllFalse
    /\ errors' = AllFalse
    /\ due' = AllFalse

Finish(problem) ==
    /\ pc' = "refresh"
    /\ failed' = problem

\* reconcile_all discovers the covered plugins anew, then reconciles the
\* paths of this one.
Paths ==
    /\ pc = "paths"
    /\ \/ /\ now \in Raises /\ payload[now] \in {"altered", "genuine"}
          /\ Die
       \/ /\ now \notin Raises \/ payload[now] \in {"gone", "broken"}
          /\ change' = "none"
          /\ IF payload[now] \in {"gone", "broken"}
             THEN Finish(TRUE)
             ELSE pc' = "trust" /\ UNCHANGED failed
          /\ UNCHANGED <<todo, now, memoryVars>>
    /\ UNCHANGED <<hostVars, status, since, countVars>>

\* Codex has changed the payload since the pass found its directory, in
\* place or by moving on to another; "upgrade" says that what was there
\* before was trusted.
Moved == change \in {"payload", "upgrade"}

\* trust_status. It reads the version directory the path reconcile found: if
\* Codex has moved on since, that directory may still be there, trusted.
TrustStatus ==
    /\ pc = "trust"
    /\ \/ /\ ~recognized
          /\ Finish(TRUE)
          /\ UNCHANGED change
       \/ /\ recognized
          /\ trusted[now] \/ change = "upgrade"
          /\ change' = IF trusted[now] THEN "none" ELSE change
          /\ Finish(FALSE)
       \/ /\ recognized \/ Moved
          /\ ~trusted[now] \/ Moved
          /\ pc' = "fetch"
          /\ UNCHANGED <<change, failed>>
    /\ UNCHANGED <<hostVars, todo, now, memoryVars, status, since,
                   countVars>>

\* release_payload. An outage is a problem reported for every hook.
FetchRelease ==
    /\ pc = "fetch"
    /\ IF reachable THEN pc' = "write" /\ UNCHANGED failed ELSE Finish(TRUE)
    /\ UNCHANGED <<hostVars, todo, now, change, memoryVars, status, since,
                   countVars>>

\* reconcile_trust: compare with the release, hash, rewrite config.toml. A
\* write changes the mtime every plugin's signature covers; if the record is
\* there already, there is none. A directory that Codex has moved on from
\* may still verify and be recorded.
WriteTrust ==
    /\ pc = "write"
    /\ \/ /\ \/ payload[now] # "genuine" \/ Moved
             \/ ~recognized \/ ~reachable
          /\ Finish(TRUE)
          /\ UNCHANGED <<hostVars, change, memoryVars>>
       \/ /\ recognized /\ reachable
          /\ \E verified \in BOOLEAN :
                /\ verified => payload[now] = "genuine"
                /\ ~verified => Moved
                /\ trusted' = [trusted EXCEPT ![now] = verified]
                /\ change' = IF verified THEN "none" ELSE change
                /\ IF verified /\ trusted[now] THEN UNCHANGED <<seen, settled>>
                   ELSE seen' = AllFalse /\ settled' = AllFalse
          /\ Finish(FALSE)
          /\ UNCHANGED <<payload, recognized, reachable, errors, due>>
    /\ UNCHANGED <<todo, now, status, since, countVars>>

\* Mutants of Refresh: problems are swallowed; the new mtime of config.toml
\* is taken as settled for every plugin; nothing is taken as settled.
RefreshReport(all, stored, problem) ==
    /\ pc = "refresh"
    /\ pc' = "sweep"
    /\ todo' = todo \ {now}
    /\ seen' = [p \in Plugins |-> seen[p] \/ p \in all]
    /\ settled' = [p \in Plugins |-> settled[p] \/ p \in stored]
    /\ errors' = [errors EXCEPT ![now] = problem]
    /\ due' = [due EXCEPT ![now] = FALSE]
    /\ status' = [status EXCEPT ![now] = IF problem THEN "problem" ELSE "ok"]
    /\ since' = [since EXCEPT ![now] = IF change = "none" THEN "nothing"
                                       ELSE "during"]
    /\ now' = Nobody
    /\ change' = "none"
    /\ failed' = FALSE
    /\ UNCHANGED <<hostVars, countVars>>

RefreshSilent == RefreshReport({now}, {now}, FALSE)
RefreshAll == RefreshReport(Plugins, Plugins, failed)
RefreshUnsettled == RefreshReport({now}, {}, failed)

\* The signature is taken again, after the reconcile and not before, and
\* stored as the settled one; then the status record is written.
Refresh ==
    /\ pc = "refresh"
    /\ pc' = "sweep"
    /\ todo' = todo \ {now}
    /\ seen' = [seen EXCEPT ![now] = TRUE]
    /\ settled' = [settled EXCEPT ![now] = TRUE]
    /\ errors' = [errors EXCEPT ![now] = failed]
    /\ due' = [due EXCEPT ![now] = FALSE]
    /\ status' = [status EXCEPT ![now] = IF failed THEN "problem" ELSE "ok"]
    /\ since' = [since EXCEPT ![now] = IF change = "none" THEN "nothing"
                                       ELSE "during"]
    /\ now' = Nobody
    /\ change' = "none"
    /\ failed' = FALSE
    /\ UNCHANGED <<hostVars, countVars>>

\* retry_seconds go by after a failed pass.
RetryElapses(p) ==
    /\ errors[p]
    /\ ~due[p]
    /\ due' = [due EXCEPT ![p] = TRUE]
    /\ UNCHANGED <<hostVars, pc, todo, passVars, seen, settled, errors, status,
                   since, countVars>>

Crash ==
    /\ pc # "dead"
    /\ deaths < MaxDeaths
    /\ deaths' = deaths + 1
    /\ Die
    /\ UNCHANGED <<hostVars, status, since, writes>>

\* The supervisor's Restart=always.
Restart ==
    /\ pc = "dead"
    /\ pc' = "sweep"
    /\ UNCHANGED <<hostVars, todo, passVars, memoryVars, status, since,
                   countVars>>

LoopStep ==
    \/ Sweep
    \/ \E p \in Plugins : Notice(p) \/ Skip(p) \/ Begin(p)
    \/ Paths
    \/ TrustStatus
    \/ FetchRelease
    \/ WriteTrust
    \/ Refresh

-----------------------------------------------------------------------------
(***************************************************************************)
(* Codex and the network.                                                  *)
(***************************************************************************)
\* Others changed what, of plugin p.
Changed(p, what) ==
    /\ change' = IF pc \in {"trust", "fetch", "write", "refresh"} /\ now = p
                    /\ ~Moved
                 THEN what ELSE change
    /\ since' = [since EXCEPT ![p] = IF @ = "nothing" THEN "after" ELSE @]

External == writes < MaxWrites /\ writes' = writes + 1

\* Codex upgrades, removes or rewrites the payload; no record matches the
\* new bytes.
CodexPayload(p, new) ==
    /\ External
    /\ payload' = [payload EXCEPT ![p] = new]
    /\ trusted' = [trusted EXCEPT ![p] = FALSE]
    /\ seen' = [seen EXCEPT ![p] = FALSE]
    /\ settled' = [settled EXCEPT ![p] = FALSE]
    /\ Changed(p, IF trusted[p] THEN "upgrade" ELSE "payload")
    /\ UNCHANGED <<recognized, reachable, pc, todo, now, failed, errors, due,
                   status, deaths>>

\* Codex writes config.toml: a trust record withdrawn, or granted by the
\* operator in the hook browser, or a new record format.
CodexConfig(p, trust, format) ==
    /\ External
    /\ trust => payload[p] # "gone"
    /\ trusted' = [trusted EXCEPT ![p] = trust]
    /\ recognized' = format
    /\ seen' = AllFalse
    /\ settled' = AllFalse
    /\ IF trust = trusted[p] THEN UNCHANGED <<change, since>>
       ELSE Changed(p, "record")
    /\ UNCHANGED <<payload, reachable, pc, todo, now, failed, errors, due,
                   status, deaths>>

Outage ==
    /\ External
    /\ reachable' = ~reachable
    /\ UNCHANGED <<payload, trusted, recognized, pc, todo, passVars,
                   memoryVars, status, since, deaths>>

CodexStep ==
    \/ \E p \in Plugins, new \in Payloads : CodexPayload(p, new)
    \/ \E p \in Plugins, trust, format \in BOOLEAN :
          CodexConfig(p, trust, format)

Next ==
    \/ LoopStep
    \/ \E p \in Plugins : RetryElapses(p)
    \/ Crash
    \/ Restart
    \/ CodexStep
    \/ Outage

Spec == Init /\ [][Next]_vars

\* The process runs, time passes and the supervisor restarts what died.
FairSpec ==
    /\ Spec
    /\ WF_vars(LoopStep)
    /\ \A p \in Plugins : WF_vars(RetryElapses(p))
    /\ WF_vars(Restart)

-----------------------------------------------------------------------------
(***************************************************************************)
(* Properties.                                                             *)
(***************************************************************************)
\* The status record claims no continuity that is not there: a pass that
\* reported no problem leaves the plugin trusted, unless Codex has changed
\* its payload or its record since the pass looked.
StatusTrue ==
    \A p \in Plugins :
        status[p] = "ok" /\ since[p] = "nothing" => trusted[p]

\* The contract's promise: once Codex stops changing things, every covered
\* plugin ends up trusted or reported.
TrustedOrReported ==
    <>[](\A p \in Covered \ Raises : trusted[p] \/ status[p] = "problem")

\* What the loop does guarantee: the only plugins that stay untrusted and
\* unreported are those Codex changed while their own last pass, which then
\* reported no problem, was under way. Every other change is noticed, also
\* one that falls into another plugin's pass, a crash or a restart.
NoticedUnlessRaced ==
    <>[](\A p \in Covered \ Raises :
            trusted[p] \/ status[p] = "problem" \/ since[p] = "during")

\* A transient outage is not a permanent failure: once releases can be
\* fetched and the record format is known for good, a retry repairs what
\* earlier passes had to give up on.
RetryRepairs ==
    <>[](reachable /\ recognized) =>
        <>[](\A p \in Plugins \ Raises :
                payload[p] = "genuine" => trusted[p] \/ since[p] = "during")

\* The observer comes to rest. A trust write changes the file every plugin's
\* signature covers, so each pass that writes provokes passes for the other
\* plugins; without problems to retry, that ends.
ComesToRest == []<>(pc = "paths") => []<>(\E p \in Plugins : errors[p])

\* A failure for one covered plugin does not prevent the reconciliation of
\* the others.
FailureIsolated ==
    \A p \in Plugins \ Raises : <>(p \in Covered => status[p] # "none")
=============================================================================
