--------------------------- MODULE ObserverHealth ---------------------------
(***************************************************************************)
(* What ensure-codex-plugins reports (dev-tooling/ensure-codex-plugins.sh, *)
(* provision_all in _codex_hook_cache_report.py and the health rules in    *)
(* _codex_hook_cache_process.py): for each covered plugin the newer of its *)
(* own reconcile and the observer's, as the observer's status record on    *)
(* disk tells it.                                                          *)
(*                                                                         *)
(* A reconcile looks at the plugin first and stamps its completion time    *)
(* later, so two reconciles may look in one order and stamp in the other.  *)
(* Several processes write the same status record: the supervisor's        *)
(* observer, the one a restart puts in its place, and observers of a       *)
(* single plugin that somebody started by hand. Pids of the dead may be    *)
(* taken by other programs.                                                *)
(*                                                                         *)
(* Time is counted in stamps: no two are equal. Wall clocks that step back *)
(* and records without a usable completion time are left out.              *)
(***************************************************************************)
EXTENDS Naturals

CONSTANTS
    Plugins,
    Pids,       \* process ids
    Manual,     \* those that single-plugin observers (run_loop) get
    ExpectPid,  \* the supervisor tells the observer's pid: launchd does
    StaleAfter, \* age at which a heartbeat is stale
    MaxTime,    \* bound on the clock
    MaxChanges  \* bound on changes from outside

ASSUME PidsAssumption == Pids \subseteq Nat \ {0} /\ Manual \subseteq Pids
ASSUME ExpectAssumption == ExpectPid \in BOOLEAN
ASSUME TimeAssumption == StaleAfter \in Nat /\ MaxTime \in Nat /\ MaxChanges \in Nat

VARIABLES
    clock, changes,
    covered,    \* plugins that declare hooks by now
    sound,      \* plugins with path and trust continuity by now
    observers,  \* pids of running observers
    strangers,  \* pids of other programs
    supervised, \* pids the supervisor runs its observer under: one or none
    task,       \* what each observer has looked at and not yet stamped
    memory,     \* the records each observer repeats as heartbeats
    record,     \* the status records on disk
    phase,      \* where ensure-codex-plugins stands
    expected,   \* pids the supervisor told it
    todo,
    report,     \* its own reports
    verdict,    \* what it says of each plugin
    wasSound,   \* history: plugins that have been sound since it began
    wasBroken,  \* history: plugins that have not been sound since then
    joined      \* history: plugins that have become covered since it began

outsideVars == <<covered, sound, wasSound, wasBroken, joined>>
processVars == <<observers, strangers, supervised, task, memory>>
runVars == <<phase, expected, todo, report, verdict>>
vars == <<clock, changes, outsideVars, processVars, record, runVars>>

Outcomes == {"ok", "problem"}

\* "early" marks a look that was taken before the provisioner's run began.
NoTask == [plugin |-> "none", outcome |-> "problem", early |-> FALSE]
Tasks == [plugin : Plugins, outcome : Outcomes, early : BOOLEAN]

\* "early" marks a record that was stamped during the provisioner's run from
\* an early look. completed is completed_reconcile.
NoRecord == [pid |-> 0, beat |-> 0, at |-> 0, completed |-> FALSE,
             outcome |-> "problem", early |-> FALSE]
Records == [pid : Pids \union {0}, beat : Nat, at : Nat,
            completed : BOOLEAN, outcome : Outcomes, early : BOOLEAN]
NoMemory == [p \in Plugins |-> NoRecord]
NoReport == [at |-> 0, outcome |-> "none"]

\* No stamp lies in the future.
Past(r) == r.beat <= clock /\ r.at <= clock

TypeOK ==
    /\ clock \in 0..MaxTime
    /\ changes \in 0..MaxChanges
    /\ covered \subseteq Plugins
    /\ sound \subseteq Plugins
    /\ observers \subseteq Pids
    /\ strangers \subseteq Pids
    /\ supervised \subseteq Pids
    /\ task \in [Pids -> Tasks \union {NoTask}]
    /\ memory \in [Pids -> [Plugins -> Records]]
    /\ record \in [Plugins -> Records]
    /\ \A p \in Plugins : Past(record[p]) /\ \A o \in Pids : Past(memory[o][p])
    /\ phase \in {"idle", "reconcile", "verdict", "raised"}
    /\ expected \subseteq Pids
    /\ todo \subseteq Plugins
    /\ report \in [Plugins -> [at : 0..clock, outcome : Outcomes \union {"none"}]]
    /\ verdict \in [Plugins -> Outcomes \union {"none"}]
    /\ wasSound \subseteq Plugins
    /\ wasBroken \subseteq Plugins
    /\ joined \subseteq Plugins

\* A host on which a provisioning run may start: the supervisor's observer is
\* up and has not finished a reconcile.
Init ==
    /\ clock = 0
    /\ changes = 0
    /\ covered \in SUBSET Plugins
    /\ sound \in SUBSET Plugins
    /\ \E o \in Pids \ Manual : supervised = {o}
    /\ observers = supervised
    /\ strangers = {}
    /\ task = [o \in Pids |-> NoTask]
    /\ memory = [o \in Pids |-> NoMemory]
    /\ record = NoMemory
    /\ phase = "idle"
    /\ expected = {}
    /\ todo = {}
    /\ report = [p \in Plugins |-> NoReport]
    /\ verdict = [p \in Plugins |-> "none"]
    /\ wasSound = {}
    /\ wasBroken = {}
    /\ joined = {}

-----------------------------------------------------------------------------
Stamp == clock < MaxTime /\ clock' = clock + 1

Tick ==
    /\ Stamp
    /\ UNCHANGED <<changes, outsideVars, processVars, record, runVars>>

Witnessed ==
    /\ wasSound' = wasSound \union sound'
    /\ wasBroken' = wasBroken \union (Plugins \ sound')

\* A reconcile of p finds or restores continuity, or fails to.
Look(p, outcome) ==
    /\ \/ outcome = "ok" /\ sound' = sound \union {p}
       \/ outcome = "problem" /\ p \notin sound /\ sound' = sound
    /\ Witnessed
    /\ UNCHANGED <<covered, joined>>

(***************************************************************************)
(* Observers. All of them write the one status record of a plugin.         *)
(***************************************************************************)
Begun(o, p, outcome) ==
    /\ o \in observers
    /\ task[o] = NoTask
    /\ task' = [task EXCEPT ![o] = [plugin |-> p, outcome |-> outcome,
                                   early |-> FALSE]]
    /\ UNCHANGED <<clock, changes, observers, strangers, supervised, memory,
                   record, runVars>>

\* run_all_loop reconciles a covered plugin.
ObserverLook(o) ==
    \E p \in covered, outcome \in Outcomes :
        o \notin Manual /\ Begun(o, p, outcome) /\ Look(p, outcome)

\* run_loop reconciles paths only: it knows nothing of trust, and may well
\* succeed on a plugin that is not sound.
ManualLook(o) ==
    \E p \in Plugins, outcome \in Outcomes :
        o \in Manual /\ Begun(o, p, outcome) /\ UNCHANGED outsideVars

\* write_status after a reconcile.
ObserverStamp(o) ==
    LET p == task[o].plugin
        new == [pid |-> o, beat |-> clock + 1, at |-> clock + 1,
                completed |-> TRUE, outcome |-> task[o].outcome,
                early |-> task[o].early]
    IN  /\ o \in observers
        /\ task[o] # NoTask
        /\ Stamp
        /\ record' = [record EXCEPT ![p] = new]
        /\ memory' = [memory EXCEPT ![o][p] = new]
        /\ task' = [task EXCEPT ![o] = NoTask]
        /\ UNCHANGED <<changes, outsideVars, observers, strangers, supervised,
                       runVars>>

\* write_status between reconciles repeats what the last one reported.
WriteHeartbeat(o, p) ==
    /\ o \in observers
    /\ task[o] = NoTask
    /\ memory[o][p].completed
    /\ record' = [record EXCEPT ![p] = [memory[o][p] EXCEPT !.beat = clock]]
    /\ UNCHANGED <<clock, changes, outsideVars, processVars, runVars>>

\* The supervisor's Restart=always. The pid may be one that was used before.
Restart(o) ==
    /\ supervised = {}
    /\ o \in Pids \ (Manual \union observers \union strangers)
    /\ observers' = observers \union {o}
    /\ supervised' = {o}
    /\ UNCHANGED <<clock, changes, outsideVars, strangers, task, memory, record,
                   runVars>>

(***************************************************************************)
(* What comes from outside.                                                *)
(***************************************************************************)
Change == changes < MaxChanges /\ changes' = changes + 1 /\ UNCHANGED clock

\* Somebody starts run_loop for a plugin: it first writes a record of a
\* reconcile that is still to come.
ManualStart(o, p) ==
    /\ Change
    /\ o \in Manual \ (observers \union strangers)
    /\ observers' = observers \union {o}
    /\ record' = [record EXCEPT ![p] = [pid |-> o, beat |-> clock, at |-> 0,
                                       completed |-> FALSE, outcome |-> "ok",
                                       early |-> FALSE]]
    /\ UNCHANGED <<outsideVars, strangers, supervised, task, memory, runVars>>

Die(o) ==
    /\ Change
    /\ o \in observers
    /\ observers' = observers \ {o}
    /\ supervised' = supervised \ {o}
    /\ task' = [task EXCEPT ![o] = NoTask]
    /\ memory' = [memory EXCEPT ![o] = NoMemory]
    /\ UNCHANGED <<outsideVars, strangers, record, runVars>>

\* The pid of a dead observer goes to another program.
Reuse(o) ==
    /\ Change
    /\ o \in Pids \ (observers \union strangers)
    /\ strangers' = strangers \union {o}
    /\ UNCHANGED <<outsideVars, observers, supervised, task, memory, record,
                   runVars>>

\* Codex replaces payloads and withdraws trust, and installs and removes
\* plugins.
CodexBreaks(p) ==
    /\ Change
    /\ p \in sound
    /\ sound' = sound \ {p}
    /\ Witnessed
    /\ UNCHANGED <<covered, joined, processVars, record, runVars>>

CodexCovers(p) ==
    /\ Change
    /\ covered' = IF p \in covered THEN covered \ {p} ELSE covered \union {p}
    /\ joined' = joined \union (covered' \ covered)
    /\ UNCHANGED <<sound, wasSound, wasBroken, processVars, record,
                   runVars>>

-----------------------------------------------------------------------------
(***************************************************************************)
(* One run of ensure-codex-plugins.                                        *)
(***************************************************************************)
\* The script finds the supervisor's observer running (or it exits with an
\* error) and calls provision --all, which lists the covered plugins.
Begin ==
    /\ phase = "idle"
    /\ supervised # {}
    /\ phase' = "reconcile"
    /\ expected' = IF ExpectPid THEN supervised ELSE {}
    /\ todo' = covered
    /\ wasSound' = sound
    /\ wasBroken' = Plugins \ sound
    /\ joined' = {}
    /\ task' = [o \in Pids |-> IF task[o] = NoTask THEN NoTask
                               ELSE [task[o] EXCEPT !.early = TRUE]]
    /\ record' = [p \in Plugins |-> [record[p] EXCEPT !.early = FALSE]]
    /\ memory' = [o \in Pids |-> [p \in Plugins |->
                                    [memory[o][p] EXCEPT !.early = FALSE]]]
    /\ UNCHANGED <<clock, changes, covered, sound, observers, strangers,
                   supervised, report, verdict>>

Pending(p) == report[p].outcome # "none" /\ report[p].at = 0

\* reconcile_all, one plugin after another: the look, then the stamp.
ReconcileLook(p) ==
    /\ phase = "reconcile"
    /\ p \in todo
    /\ \A q \in Plugins : ~Pending(q)
    /\ \E outcome \in Outcomes :
          /\ Look(p, outcome)
          /\ report' = [report EXCEPT ![p] = [at |-> 0, outcome |-> outcome]]
    /\ todo' = todo \ {p}
    /\ UNCHANGED <<clock, changes, processVars, record, phase, expected,
                   verdict>>

ReconcileStamp(p) ==
    /\ Pending(p)
    /\ Stamp
    /\ report' = [report EXCEPT ![p].at = clock + 1]
    /\ UNCHANGED <<changes, outsideVars, processVars, record, phase, expected,
                   todo, verdict>>

\* Mutant of CoveredAgain: whatever is installed is looked up.
EveryPlugin == Plugins

\* provision_all lists the covered plugins a second time.
CoveredAgain == covered

Recheck ==
    /\ phase = "reconcile"
    /\ todo = {}
    /\ \A q \in Plugins : ~Pending(q)
    /\ phase' = "verdict"
    /\ todo' = CoveredAgain
    /\ UNCHANGED <<clock, changes, outsideVars, processVars, record, expected,
                   report, verdict>>

\* _active_completed_status: a live, fresh record of a completed reconcile.
Active(r) ==
    /\ r.pid \in observers \union strangers
    /\ ExpectPid => r.pid \in expected
    /\ clock - r.beat <= StaleAfter
    /\ r.completed

\* Mutant of HealthAfterProvisioner: the observer's record always decides.
HealthFromRecord(p) ==
    IF ~Active(record[p]) THEN "problem" ELSE record[p].outcome

\* health_after_provisioner
HealthAfterProvisioner(p) ==
    IF ~Active(record[p]) THEN "problem"
    ELSE IF record[p].at >= report[p].at THEN record[p].outcome
    ELSE report[p].outcome

Verdict(p) ==
    /\ phase = "verdict"
    /\ p \in todo
    /\ report[p].outcome # "none"
    /\ verdict' = [verdict EXCEPT ![p] = HealthAfterProvisioner(p)]
    /\ todo' = todo \ {p}
    /\ UNCHANGED <<clock, changes, outsideVars, processVars, record, phase,
                   expected, report>>

\* reports[(marketplace, plugin)] of a plugin that was not reconciled is a
\* KeyError, which ends the run.
Raise(p) ==
    /\ phase = "verdict"
    /\ p \in todo
    /\ report[p].outcome = "none"
    /\ phase' = "raised"
    /\ UNCHANGED <<clock, changes, outsideVars, processVars, record, expected,
                   todo, report, verdict>>

End ==
    /\ phase = "raised" \/ (phase = "verdict" /\ todo = {})
    /\ phase' = "idle"
    /\ expected' = {}
    /\ todo' = {}
    /\ report' = [p \in Plugins |-> NoReport]
    /\ verdict' = [p \in Plugins |-> "none"]
    /\ UNCHANGED <<clock, changes, outsideVars, processVars, record>>

ProvisionStep ==
    \/ Begin
    \/ \E p \in Plugins : ReconcileLook(p) \/ ReconcileStamp(p)
    \/ Recheck
    \/ \E p \in Plugins : Verdict(p) \/ Raise(p)
    \/ End

ObserverStep(o) ==
    \/ ObserverLook(o)
    \/ ManualLook(o)
    \/ ObserverStamp(o)
    \/ \E p \in Plugins : WriteHeartbeat(o, p)
    \/ Restart(o)

ChangeStep ==
    \/ \E o \in Pids, p \in Plugins : ManualStart(o, p)
    \/ \E o \in Pids : Die(o) \/ Reuse(o)
    \/ \E p \in Plugins : CodexBreaks(p) \/ CodexCovers(p)

Next ==
    \/ ProvisionStep
    \/ \E o \in Pids : ObserverStep(o)
    \/ ChangeStep
    \/ Tick

Spec == Init /\ [][Next]_vars

-----------------------------------------------------------------------------
(***************************************************************************)
(* Properties. A verdict is the step in which a plugin's turns from none.  *)
(***************************************************************************)
Says(p, outcome) == verdict[p] = "none" /\ verdict'[p] = outcome

\* The newest-result rule never reports the past: a plugin is called healthy
\* only if it was sound at some instant of the run, and, while the observer
\* is up, called broken only if it was not. A superseded observer error does
\* not fail the run, and a superseded success does not save it. The
\* exception is a look from before the run that is stamped during it.
VerdictOfThisRun ==
    [][\A p \in Plugins : ~record[p].early =>
          /\ Says(p, "ok") => p \in wasSound
          /\ Says(p, "problem") /\ Active(record[p]) => p \in wasBroken]_vars

\* Provisioning dies only of a plugin that has become covered since the run
\* began, or has done so again.
RaisesOnlyOnNewcomers ==
    [][phase' = "raised" /\ phase # "raised" =>
          \E p \in todo : report[p].outcome = "none" /\ p \in joined]_vars
=============================================================================
