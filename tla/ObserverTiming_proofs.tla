------------------------- MODULE ObserverTiming_proofs -------------------------
(***************************************************************************)
(* Proofs about the observer's clocks and records, for any plugins,        *)
(* process ids, bounds, polls, waits, budgets and intervals: what a        *)
(* provisioning run reads in the status records (ObserverHealth), and the  *)
(* bounds in time of the two observer loops, RepairedInTime and            *)
(* HeartbeatInTime of ObserverLatency and ReportOfPresent and              *)
(* SilenceBounded of SettleLoop. The two specifications share no names.    *)
(***************************************************************************)
EXTENDS ObserverHealth, SettleLoop, FiniteSetTheorems, TLAPS

(***************************************************************************)
(* The status records and the run that reads them.                         *)
(***************************************************************************)
LEMMA RecordFacts == NoRecord \in Records /\ NoMemory \in [Plugins -> Records]
  BY PidsAssumption DEF NoRecord, NoMemory, Records, Outcomes

LEMMA InitTypeOK == Init => TypeOK
<1> SUFFICES ASSUME Init PROVE TypeOK
  OBVIOUS
<1>1. /\ clock \in 0..MaxTime /\ changes \in 0..MaxChanges
      /\ observers \subseteq Pids /\ supervised \subseteq Pids
  BY TimeAssumption DEF Init
<1>2. /\ memory \in [Pids -> [Plugins -> Records]]
      /\ record \in [Plugins -> Records]
      /\ \A p \in Plugins : Past(record[p]) /\ \A o \in Pids : Past(memory[o][p])
  BY RecordFacts DEF Init, Past, NoMemory, NoRecord
<1>3. report \in [Plugins -> [at : 0..clock, outcome : Outcomes \union {"none"}]]
  BY DEF Init, NoReport
<1>4. QED
  BY <1>1, <1>2, <1>3 DEF Init, TypeOK, Outcomes

\* Recording a new status record or heartbeat r of plugin p.
LEMMA RecordTypeOK ==
  ASSUME TypeOK, NEW p \in Plugins, NEW r \in Records,
         clock' \in Nat /\ clock <= clock' /\ r.beat <= clock' /\ r.at <= clock',
         record' = [record EXCEPT ![p] = r]
  PROVE  /\ record' \in [Plugins -> Records]
         /\ \A q \in Plugins : Past(record[q])'
<1>1. record' \in [Plugins -> Records]
  BY DEF TypeOK
<1>2. ASSUME NEW q \in Plugins PROVE Past(record[q])'
  <2>1. CASE q = p
    BY <2>1 DEF TypeOK, Past
  <2>2. CASE q # p
    BY <2>2, TimeAssumption DEF TypeOK, Past, Records
  <2>3. QED
    BY <2>1, <2>2
<1>3. QED
  BY <1>1, <1>2

LEMMA TickTypeOK == ASSUME TypeOK, Tick PROVE TypeOK'
<1>1. clock' \in 0..MaxTime /\ clock' = clock + 1 /\ clock \in Nat
  BY TimeAssumption DEF Tick, Stamp, TypeOK
<1>2. /\ UNCHANGED <<changes, covered, sound, wasSound, wasBroken, joined,
                    observers, strangers, supervised, task, memory, record,
                    phase, expected, todo, report, verdict>>
  BY DEF Tick, outsideVars, processVars, runVars
<1>3. \A p \in Plugins : Past(record[p])' /\ \A o \in Pids : Past(memory[o][p])'
  BY <1>1, <1>2 DEF TypeOK, Past, Records
<1>4. report' \in [Plugins -> [at : 0..clock', outcome : Outcomes \union {"none"}]]
  BY <1>1, <1>2 DEF TypeOK
<1>5. QED
  BY <1>1, <1>2, <1>3, <1>4 DEF TypeOK

LEMMA LookTypeOK ==
  ASSUME TypeOK, NEW p \in Plugins, NEW outcome, Look(p, outcome)
  PROVE  /\ sound' \subseteq Plugins
         /\ wasSound' \subseteq Plugins /\ wasBroken' \subseteq Plugins
         /\ UNCHANGED <<covered, joined>>
  BY DEF Look, Witnessed, TypeOK

LEMMA ObserverTypeOK ==
  ASSUME TypeOK, NEW o \in Pids, ObserverStep(o)
  PROVE  TypeOK'
<1>1. ASSUME NEW p \in Plugins, NEW outcome \in Outcomes, Begun(o, p, outcome)
      PROVE  task' \in [Pids -> Tasks \union {NoTask}]
  BY <1>1 DEF Begun, TypeOK, Tasks
<1>2. CASE ObserverLook(o)
  <2> PICK p \in covered, outcome \in Outcomes :
             Begun(o, p, outcome) /\ Look(p, outcome)
    BY <1>2 DEF ObserverLook
  <2>1. p \in Plugins
    BY DEF TypeOK
  <2>2. UNCHANGED <<clock, changes, observers, strangers, supervised, memory,
                    record, phase, expected, todo, report, verdict>>
    BY DEF Begun, runVars
  <2>3. task' \in [Pids -> Tasks \union {NoTask}]
    BY <1>1, <2>1
  <2>4. /\ sound' \subseteq Plugins
        /\ wasSound' \subseteq Plugins /\ wasBroken' \subseteq Plugins
        /\ UNCHANGED <<covered, joined>>
    BY <2>1, LookTypeOK
  <2>5. QED
    BY <2>2, <2>3, <2>4 DEF TypeOK, Past
<1>3. CASE ManualLook(o)
  <2> PICK p \in Plugins, outcome \in Outcomes :
             Begun(o, p, outcome) /\ UNCHANGED outsideVars
    BY <1>3 DEF ManualLook
  <2>1. task' \in [Pids -> Tasks \union {NoTask}]
    BY <1>1
  <2>2. UNCHANGED <<clock, changes, covered, sound, wasSound, wasBroken, joined,
                    observers, strangers, supervised, memory, record, phase,
                    expected, todo, report, verdict>>
    BY DEF Begun, outsideVars, runVars
  <2>3. QED
    BY <2>1, <2>2 DEF TypeOK, Past
<1>4. CASE ObserverStamp(o)
  <2> DEFINE p == task[o].plugin
             new == [pid |-> o, beat |-> clock + 1, at |-> clock + 1,
                     completed |-> TRUE, outcome |-> task[o].outcome,
                     early |-> task[o].early]
  <2>1. p \in Plugins /\ task[o] \in Tasks
    BY <1>4 DEF ObserverStamp, TypeOK, Tasks
  <2>2. clock \in Nat /\ clock' = clock + 1 /\ clock' \in 0..MaxTime
    BY <1>4, TimeAssumption DEF ObserverStamp, Stamp, TypeOK
  <2>3. new \in Records /\ new.beat = clock' /\ new.at = clock'
    BY <2>1, <2>2 DEF Records, Tasks
  <2>4. record' \in [Plugins -> Records] /\ \A q \in Plugins : Past(record[q])'
    <3>1. record' = [record EXCEPT ![p] = new]
      BY <1>4 DEF ObserverStamp
    <3>2. clock' \in Nat /\ clock <= clock' /\ new.beat <= clock'
          /\ new.at <= clock'
      BY <2>2, <2>3
    <3> HIDE DEF p, new
    <3>3. QED
      BY <2>1, <2>3, <3>1, <3>2, RecordTypeOK
  <2>5. memory' = [memory EXCEPT ![o][p] = new]
    BY <1>4 DEF ObserverStamp
  <2>6. memory' \in [Pids -> [Plugins -> Records]]
    BY <2>1, <2>3, <2>5 DEF TypeOK
  <2>7. ASSUME NEW q \in Plugins, NEW k \in Pids PROVE Past(memory[k][q])'
    <3>1. CASE k = o /\ q = p
      BY <2>1, <2>2, <2>3, <2>5, <3>1 DEF Past, TypeOK
    <3>2. CASE ~(k = o /\ q = p)
      <4>1. memory'[k][q] = memory[k][q]
        BY <2>1, <2>5, <3>2 DEF TypeOK
      <4>2. QED
        BY <2>2, <4>1 DEF Past, TypeOK, Records
    <3>3. QED
      BY <3>1, <3>2
  <2>8. task' \in [Pids -> Tasks \union {NoTask}]
    BY <1>4 DEF ObserverStamp, TypeOK
  <2>9. report' \in [Plugins -> [at : 0..clock', outcome : Outcomes \union {"none"}]]
    BY <1>4, <2>2 DEF ObserverStamp, TypeOK, runVars
  <2>10. UNCHANGED <<changes, covered, sound, wasSound, wasBroken, joined,
                     observers, strangers, supervised, phase, expected, todo,
                     verdict>>
    BY <1>4 DEF ObserverStamp, outsideVars, runVars
  <2>11. QED
    BY <2>2, <2>4, <2>6, <2>7, <2>8, <2>9, <2>10 DEF TypeOK
<1>5. ASSUME NEW p \in Plugins, WriteHeartbeat(o, p)
      PROVE  TypeOK'
  <2> DEFINE r == [memory[o][p] EXCEPT !.beat = clock]
  <2>1. UNCHANGED <<clock, changes, covered, sound, wasSound, wasBroken, joined,
                    observers, strangers, supervised, task, memory, phase,
                    expected, todo, report, verdict>>
    BY <1>5 DEF WriteHeartbeat, outsideVars, processVars, runVars
  <2>2. clock \in Nat /\ memory[o][p] \in Records /\ Past(memory[o][p])
    BY DEF TypeOK
  <2>3. r \in Records /\ r.beat = clock /\ r.at <= clock
    BY <2>2 DEF Records, Past
  <2>4. record' \in [Plugins -> Records] /\ \A q \in Plugins : Past(record[q])'
    <3>1. record' = [record EXCEPT ![p] = r]
      BY <1>5 DEF WriteHeartbeat
    <3>2. clock' \in Nat /\ clock <= clock' /\ r.beat <= clock' /\ r.at <= clock'
      BY <2>1, <2>2, <2>3
    <3> HIDE DEF r
    <3>3. QED
      BY <2>3, <3>1, <3>2, RecordTypeOK
  <2>5. QED
    BY <2>1, <2>4 DEF TypeOK, Past
<1>6. CASE Restart(o)
  BY <1>6 DEF Restart, TypeOK, outsideVars, runVars, Past
<1>7. QED
  BY <1>2, <1>3, <1>4, <1>5, <1>6 DEF ObserverStep

LEMMA ChangeTypeOK == ASSUME TypeOK, ChangeStep PROVE TypeOK'
<1>1. ASSUME Change PROVE changes' \in 0..MaxChanges /\ clock' = clock
  BY <1>1, TimeAssumption DEF Change, TypeOK
<1>2. ASSUME NEW o \in Pids, NEW p \in Plugins, ManualStart(o, p)
      PROVE  TypeOK'
  <2> DEFINE r == [pid |-> o, beat |-> clock, at |-> 0, completed |-> FALSE,
                   outcome |-> "ok", early |-> FALSE]
  <2>1. clock \in Nat /\ clock' = clock /\ changes' \in 0..MaxChanges
    BY <1>1, <1>2 DEF ManualStart, TypeOK
  <2>2. r \in Records
    BY <2>1 DEF Records, Outcomes
  <2>3. record' \in [Plugins -> Records] /\ \A q \in Plugins : Past(record[q])'
    <3>1. record' = [record EXCEPT ![p] = r]
      BY <1>2 DEF ManualStart
    <3>2. clock' \in Nat /\ clock <= clock' /\ r.beat <= clock' /\ r.at <= clock'
      BY <2>1
    <3> HIDE DEF r
    <3>3. QED
      BY <2>2, <3>1, <3>2, RecordTypeOK
  <2>4. QED
    BY <1>2, <2>1, <2>3
    DEF ManualStart, TypeOK, outsideVars, runVars, Past
<1>3. ASSUME NEW o \in Pids, Die(o) PROVE TypeOK'
  <2>1. memory' \in [Pids -> [Plugins -> Records]]
    BY <1>3, RecordFacts DEF Die, TypeOK
  <2>2. \A k \in Pids, q \in Plugins : Past(memory[k][q])'
    <3> TAKE k \in Pids, q \in Plugins
    <3>1. CASE k = o
      BY <1>1, <1>3, <3>1 DEF Die, TypeOK, Past, NoMemory, NoRecord
    <3>2. CASE k # o
      BY <1>1, <1>3, <3>2 DEF Die, TypeOK, Past
    <3>3. QED
      BY <3>1, <3>2
  <2>3. task' \in [Pids -> Tasks \union {NoTask}]
    BY <1>3 DEF Die, TypeOK
  <2>4. QED
    BY <1>1, <1>3, <2>1, <2>2, <2>3
    DEF Die, TypeOK, outsideVars, runVars, Past
<1>4. ASSUME NEW o \in Pids, Reuse(o) PROVE TypeOK'
  BY <1>1, <1>4 DEF Reuse, TypeOK, outsideVars, runVars, Past
<1>5. ASSUME NEW p \in Plugins, CodexBreaks(p) PROVE TypeOK'
  <2>1. wasSound' \subseteq Plugins /\ wasBroken' \subseteq Plugins
    BY <1>5 DEF CodexBreaks, Witnessed, TypeOK
  <2>2. /\ UNCHANGED <<covered, joined, observers, strangers,
                       supervised, task, memory, record, phase, expected, todo,
                       report, verdict>>
        /\ sound' \subseteq Plugins /\ clock' = clock /\ changes' \in 0..MaxChanges
    BY <1>1, <1>5 DEF CodexBreaks, TypeOK, processVars, runVars
  <2>3. QED
    BY <2>1, <2>2 DEF TypeOK, Past
<1>6. ASSUME NEW p \in Plugins, CodexCovers(p) PROVE TypeOK'
  BY <1>1, <1>6 DEF CodexCovers, TypeOK, processVars, runVars, Past
<1>7. QED
  BY <1>2, <1>3, <1>4, <1>5, <1>6 DEF ChangeStep

LEMMA ProvisionTypeOK == ASSUME TypeOK, ProvisionStep PROVE TypeOK'
<1>1. CASE Begin
  <2>1. task' \in [Pids -> Tasks \union {NoTask}]
    <3>1. ASSUME NEW o \in Pids
          PROVE  (IF task[o] = NoTask THEN NoTask
                  ELSE [task[o] EXCEPT !.early = TRUE]) \in Tasks \union {NoTask}
      <4>1. CASE task[o] = NoTask
        BY <4>1
      <4>2. CASE task[o] # NoTask
        <5>1. task[o] \in Tasks
          BY <4>2 DEF TypeOK
        <5>2. [task[o] EXCEPT !.early = TRUE] \in Tasks
          BY <5>1 DEF Tasks
        <5>3. QED
          BY <4>2, <5>2
      <4>3. QED
        BY <4>1, <4>2
    <3>2. QED
      BY <1>1, <3>1 DEF Begin
  <2>2. /\ record' \in [Plugins -> Records]
        /\ memory' \in [Pids -> [Plugins -> Records]]
        /\ \A p \in Plugins : Past(record[p])' /\ \A o \in Pids : Past(memory[o][p])'
    <3>1. ASSUME NEW r \in Records, Past(r)
          PROVE  /\ [r EXCEPT !.early = FALSE] \in Records
                 /\ [r EXCEPT !.early = FALSE].beat <= clock
                 /\ [r EXCEPT !.early = FALSE].at <= clock
      BY <3>1 DEF Records, Past
    <3>2. ASSUME NEW p \in Plugins
          PROVE  /\ record[p] \in Records /\ Past(record[p])
                 /\ \A o \in Pids : memory[o][p] \in Records /\ Past(memory[o][p])
      <4>1. record[p] \in Records /\ \A o \in Pids : memory[o][p] \in Records
        BY DEF TypeOK
      <4>2. Past(record[p]) /\ \A o \in Pids : Past(memory[o][p])
        BY DEF TypeOK
      <4>3. QED
        BY <4>1, <4>2
    <3>3. /\ record' = [p \in Plugins |-> [record[p] EXCEPT !.early = FALSE]]
          /\ memory' = [o \in Pids |-> [p \in Plugins |->
                           [memory[o][p] EXCEPT !.early = FALSE]]]
          /\ clock' = clock
      BY <1>1 DEF Begin
    <3>4. record' \in [Plugins -> Records] /\ \A p \in Plugins : Past(record[p])'
      BY <3>1, <3>2, <3>3 DEF Past
    <3>5. memory' \in [Pids -> [Plugins -> Records]]
      BY <3>1, <3>2, <3>3
    <3>6. \A p \in Plugins, o \in Pids : Past(memory[o][p])'
      BY <3>1, <3>2, <3>3 DEF Past
    <3>7. QED
      BY <3>4, <3>5, <3>6
  <2>3. wasSound' \subseteq Plugins /\ wasBroken' \subseteq Plugins
    BY <1>1 DEF Begin, TypeOK
  <2>4. /\ UNCHANGED <<clock, changes, covered, sound, observers, strangers,
                       supervised, report, verdict>>
        /\ phase' = "reconcile" /\ todo' = covered
        /\ joined' = {} /\ expected' \subseteq Pids
    BY <1>1 DEF Begin, TypeOK
  <2>5. QED
    BY <2>1, <2>2, <2>3, <2>4 DEF TypeOK
<1>2. ASSUME NEW p \in Plugins, ReconcileLook(p) PROVE TypeOK'
  <2> PICK outcome \in Outcomes :
             /\ Look(p, outcome)
             /\ report' = [report EXCEPT ![p] = [at |-> 0, outcome |-> outcome]]
    BY <1>2 DEF ReconcileLook
  <2>1. clock \in Nat
    BY DEF TypeOK
  <2>2. report' \in [Plugins -> [at : 0..clock, outcome : Outcomes \union {"none"}]]
    BY <2>1 DEF TypeOK
  <2>3. /\ sound' \subseteq Plugins
        /\ wasSound' \subseteq Plugins /\ wasBroken' \subseteq Plugins
        /\ UNCHANGED <<covered, joined>>
    BY LookTypeOK
  <2>4. /\ UNCHANGED <<clock, changes, observers, strangers, supervised, task,
                       memory, record, phase, expected, verdict>>
        /\ todo' \subseteq Plugins
    BY <1>2 DEF ReconcileLook, processVars, TypeOK
  <2>5. QED
    BY <2>2, <2>3, <2>4 DEF TypeOK, Past
<1>3. ASSUME NEW p \in Plugins, ReconcileStamp(p) PROVE TypeOK'
  <2>1. clock \in Nat /\ clock' = clock + 1 /\ clock' \in 0..MaxTime
    BY <1>3, TimeAssumption DEF ReconcileStamp, Stamp, TypeOK
  <2>2. report' \in [Plugins -> [at : 0..clock', outcome : Outcomes \union {"none"}]]
    BY <1>3, <2>1, SMTT(30) DEF ReconcileStamp, TypeOK
  <2>3. UNCHANGED <<changes, covered, sound, wasSound, wasBroken, joined,
                    observers, strangers, supervised, task, memory, record,
                    phase, expected, todo, verdict>>
    BY <1>3 DEF ReconcileStamp, outsideVars, processVars
  <2>4. \A q \in Plugins : Past(record[q])' /\ \A o \in Pids : Past(memory[o][q])'
    BY <2>1, <2>3 DEF TypeOK, Past, Records
  <2>5. QED
    BY <2>1, <2>2, <2>3, <2>4 DEF TypeOK
<1>4. CASE Recheck
  BY <1>4 DEF Recheck, CoveredAgain, TypeOK, outsideVars, processVars, Past
<1>5. ASSUME NEW p \in Plugins, Verdict(p) PROVE TypeOK'
  <2>1. HealthAfterProvisioner(p) \in Outcomes
    BY <1>5 DEF HealthAfterProvisioner, Verdict, TypeOK, Records, Outcomes
  <2>2. QED
    BY <1>5, <2>1 DEF Verdict, TypeOK, outsideVars, processVars, Past
<1>6. ASSUME NEW p \in Plugins, Raise(p) PROVE TypeOK'
  BY <1>6 DEF Raise, TypeOK, outsideVars, processVars, Past
<1>7. CASE End
  <2>1. clock \in Nat
    BY DEF TypeOK
  <2>2. report' \in [Plugins -> [at : 0..clock, outcome : Outcomes \union {"none"}]]
    BY <1>7, <2>1 DEF End, NoReport
  <2>3. QED
    BY <1>7, <2>2 DEF End, TypeOK, outsideVars, processVars, Past
<1>8. QED
  BY <1>1, <1>2, <1>3, <1>4, <1>5, <1>6, <1>7 DEF ProvisionStep

LEMMA NextTypeOK == TypeOK /\ [Next]_vars => TypeOK'
<1> SUFFICES ASSUME TypeOK, [Next]_vars PROVE TypeOK'
  OBVIOUS
<1>1. CASE Next
  BY <1>1, TickTypeOK, ObserverTypeOK, ChangeTypeOK, ProvisionTypeOK DEF Next
<1>2. CASE UNCHANGED vars
  BY <1>2 DEF vars, outsideVars, processVars, runVars, TypeOK, Past
<1>3. QED
  BY <1>1, <1>2

\* No reconcile, heartbeat or provisioner leaves a stamp of the future, which
\* the health rules would have to treat apart (_codex_hook_cache_process.py).
THEOREM TypeCorrect == Spec => []TypeOK
  BY InitTypeOK, NextTypeOK, PTL DEF Spec

-----------------------------------------------------------------------------
(***************************************************************************)
(* Which plugin provisioning may die of.                                   *)
(***************************************************************************)
\* A plugin covered by now has been reported, is about to be, or is new.
Known ==
    /\ phase = "reconcile" =>
          \A p \in covered : report[p].outcome # "none" \/ p \in todo \/ p \in joined
    /\ phase = "verdict" =>
          \A p \in covered \union todo :
              report[p].outcome # "none" \/ p \in joined

LEMMA KnownInit == Init => Known
  BY DEF Init, Known

LEMMA KnownNext == TypeOK /\ Known /\ [Next]_vars => Known'
<1> SUFFICES ASSUME TypeOK, Known, [Next]_vars PROVE Known'
  OBVIOUS
<1>1. CASE Begin
  BY <1>1 DEF Begin, Known
<1>2. ASSUME NEW p \in Plugins, ReconcileLook(p) PROVE Known'
  BY <1>2 DEF ReconcileLook, Look, Known, TypeOK, Outcomes
<1>3. ASSUME NEW p \in Plugins, ReconcileStamp(p) PROVE Known'
  <2>1. \A q \in Plugins : report'[q].outcome = report[q].outcome
    BY <1>3 DEF ReconcileStamp, TypeOK
  <2>2. QED
    BY <1>3, <2>1 DEF ReconcileStamp, Known, TypeOK, outsideVars
<1>4. CASE Recheck
  BY <1>4 DEF Recheck, CoveredAgain, Known, TypeOK, outsideVars
<1>5. ASSUME NEW p \in Plugins, Verdict(p) PROVE Known'
  BY <1>5 DEF Verdict, Known, TypeOK, outsideVars
<1>6. ASSUME NEW p \in Plugins, Raise(p) PROVE Known'
  BY <1>6 DEF Raise, Known
<1>7. CASE End
  BY <1>7 DEF End, Known
<1>8. ASSUME NEW p \in Plugins, CodexCovers(p) PROVE Known'
  BY <1>8 DEF CodexCovers, Known, TypeOK, runVars
<1>9. ASSUME UNCHANGED <<covered, joined, phase, todo, report>> PROVE Known'
  BY <1>9 DEF Known
<1>10. ASSUME NEW o \in Pids, ObserverStep(o) PROVE Known'
  BY <1>9, <1>10
  DEF ObserverStep, ObserverLook, ManualLook, Begun, Look, ObserverStamp,
      WriteHeartbeat, Restart, outsideVars, runVars
<1>11. ASSUME NEW o \in Pids, NEW p \in Plugins, ManualStart(o, p)
       PROVE  Known'
  BY <1>9, <1>11 DEF ManualStart, outsideVars, runVars
<1>12. ASSUME NEW o \in Pids, Die(o) \/ Reuse(o) PROVE Known'
  BY <1>9, <1>12 DEF Die, Reuse, outsideVars, runVars
<1>13. ASSUME NEW p \in Plugins, CodexBreaks(p) PROVE Known'
  BY <1>9, <1>13 DEF CodexBreaks, runVars
<1>14. CASE Tick \/ UNCHANGED vars
  BY <1>9, <1>14 DEF Tick, vars, outsideVars, runVars
<1>15. QED
  BY <1>1, <1>2, <1>3, <1>4, <1>5, <1>6, <1>7, <1>8, <1>10, <1>11, <1>12,
     <1>13, <1>14
  DEF Next, ProvisionStep, ChangeStep

LEMMA RaisesStep ==
  TypeOK /\ Known /\ [Next]_vars =>
    [phase' = "raised" /\ phase # "raised" =>
        \E p \in todo : report[p].outcome = "none" /\ p \in joined]_vars
<1> SUFFICES ASSUME Known, Next, phase' = "raised", phase # "raised"
             PROVE  \E p \in todo : report[p].outcome = "none" /\ p \in joined
  BY DEF vars, runVars
<1>1. PICK p \in Plugins : Raise(p)
  BY DEF Next, ProvisionStep, ChangeStep, ObserverStep, Tick, Begin,
         ReconcileLook, ReconcileStamp, Recheck, Verdict, End, ObserverLook,
         ManualLook, Begun, ObserverStamp, WriteHeartbeat, Restart, ManualStart,
         Die, Reuse, CodexBreaks, CodexCovers, runVars
<1>2. QED
  BY <1>1 DEF Raise, Known

\* provision_all raises (reports[(marketplace, plugin)] in
\* _codex_hook_cache_report.py) only of a plugin that has become covered
\* since it listed the plugins to reconcile.
THEOREM OnlyNewcomersRaise == Spec => RaisesOnlyOnNewcomers
<1>1. Spec => []Known
  BY TypeCorrect, KnownInit, KnownNext, PTL DEF Spec
<1>2. QED
  BY <1>1, TypeCorrect, RaisesStep, PTL DEF Spec, RaisesOnlyOnNewcomers

-----------------------------------------------------------------------------
(***************************************************************************)
(* Verdicts are of the run that gives them.                                *)
(***************************************************************************)
\* An outcome that plugin p has borne out since the run began.
Matches(outcome, p) ==
    /\ outcome = "ok" => p \in wasSound
    /\ outcome = "problem" => p \in wasBroken

\* A record of the supervisor's observers is of this run, or older than the
\* run's own report of p.
Explains(r, p) ==
    r.completed /\ ~r.early /\ r.pid \notin Manual =>
        \/ Matches(r.outcome, p)
        \/ report[p].at = 0
        \/ r.at < report[p].at

Supervisor ==
    supervised \intersect Manual = {} /\ expected \intersect Manual = {}

Tasked ==
    \A o \in Pids : o \notin Manual /\ task[o] # NoTask /\ ~task[o].early =>
                      Matches(task[o].outcome, task[o].plugin)

Reported ==
    \A p \in Plugins :
        /\ Matches(report[p].outcome, p)
        /\ phase = "idle" => report[p] = NoReport
        /\ phase = "verdict" => ~Pending(p)

Recorded ==
    \A p \in Plugins : Explains(record[p], p)

Remembered ==
    \A p \in Plugins, o \in Pids : Explains(memory[o][p], p)

RunInv == Supervisor /\ Tasked /\ Reported /\ Recorded /\ Remembered

LEMMA RunInit == Init => RunInv
<1> SUFFICES ASSUME Init PROVE RunInv
  OBVIOUS
<1>1. Supervisor
  BY DEF Init, Supervisor
<1>2. Tasked
  BY DEF Init, Tasked
<1>3. Reported
  BY DEF Init, Reported, Matches, NoReport
<1>4. Recorded /\ Remembered
  BY DEF Init, Recorded, Remembered, Explains, NoMemory, NoRecord
<1>5. QED
  BY <1>1, <1>2, <1>3, <1>4 DEF RunInv

LEMMA LookMatches ==
  ASSUME TypeOK, NEW p \in Plugins, NEW outcome \in Outcomes, Look(p, outcome)
  PROVE  Matches(outcome, p)' /\ Witnessed
  BY DEF Look, Witnessed, Matches, Outcomes

\* Steps that only add to the history keep what is known of it.
LEMMA HistoryRunInv ==
  ASSUME TypeOK, RunInv,
         wasSound \subseteq wasSound' /\ wasBroken \subseteq wasBroken',
         UNCHANGED <<supervised, memory, record, phase, expected>>
  PROVE  /\ Supervisor'
         /\ \A o \in Pids : task'[o] = task[o] =>
               (o \notin Manual /\ task[o] # NoTask /\ ~task[o].early =>
                   Matches(task[o].outcome, task[o].plugin))'
         /\ \A q \in Plugins : report'[q] = report[q] =>
               /\ Matches(report[q].outcome, q)'
               /\ Explains(record[q], q)'
               /\ \A o \in Pids : Explains(memory[o][q], q)'
<1>1. Supervisor'
  BY DEF RunInv, Supervisor
<1>2. ASSUME NEW o \in Pids, task'[o] = task[o], o \notin Manual,
             task[o] # NoTask, ~task[o].early
      PROVE  Matches(task[o].outcome, task[o].plugin)'
  <2>1. task[o].plugin \in Plugins
    BY <1>2 DEF TypeOK, Tasks
  <2>2. Matches(task[o].outcome, task[o].plugin)
    BY <1>2 DEF RunInv, Tasked
  <2>3. QED
    BY <1>2, <2>1, <2>2 DEF Matches
<1>3. ASSUME NEW q \in Plugins, report'[q] = report[q]
      PROVE  /\ Matches(report[q].outcome, q)'
             /\ Explains(record[q], q)'
             /\ \A o \in Pids : Explains(memory[o][q], q)'
  <2>1. Matches(report[q].outcome, q)'
    BY <1>3 DEF RunInv, Reported, Matches
  <2>2. Explains(record[q], q)'
    BY <1>3 DEF RunInv, Recorded, Explains, Matches
  <2>3. \A o \in Pids : Explains(memory[o][q], q)'
    BY <1>3 DEF RunInv, Remembered, Explains, Matches
  <2>4. QED
    BY <2>1, <2>2, <2>3
<1>4. QED
  BY <1>1, <1>2, <1>3

LEMMA LookRunInv ==
  ASSUME TypeOK, RunInv, NEW o \in Pids, ObserverLook(o)
  PROVE  RunInv'
<1> PICK p \in covered, outcome \in Outcomes :
           o \notin Manual /\ Begun(o, p, outcome) /\ Look(p, outcome)
  BY DEF ObserverLook
<1>1. p \in Plugins /\ Matches(outcome, p)'
      /\ wasSound \subseteq wasSound' /\ wasBroken \subseteq wasBroken'
  BY LookMatches DEF TypeOK, Witnessed
<1>2. UNCHANGED <<supervised, memory, record, phase, expected, report>>
  BY DEF Begun, runVars
<1>3. /\ task' = [task EXCEPT ![o] = [plugin |-> p, outcome |-> outcome,
                                     early |-> FALSE]]
      /\ DOMAIN task = Pids
  BY DEF Begun, TypeOK
<1>4. Tasked'
  <2>1. ASSUME NEW k \in Pids, k # o PROVE task'[k] = task[k]
    BY <1>3, <2>1
  <2>2. task'[o].outcome = outcome /\ task'[o].plugin = p
    BY <1>3
  <2>3. Matches(task[o].outcome, task[o].plugin)'
    BY <1>1, <2>2 DEF Matches
  <2>4. QED
    BY <1>1, <1>2, <2>1, <2>3, HistoryRunInv DEF Tasked
<1>5. Reported'
  BY <1>1, <1>2, HistoryRunInv DEF RunInv, Reported, Pending
<1>6. QED
  BY <1>1, <1>2, <1>4, <1>5, HistoryRunInv DEF RunInv, Recorded, Remembered

\* A stamp makes a record of what was looked at, or of a look from before.
LEMMA StampRunInv ==
  ASSUME TypeOK, RunInv, NEW o \in Pids, ObserverStamp(o)
  PROVE  RunInv'
<1> DEFINE p == task[o].plugin
           new == [pid |-> o, beat |-> clock + 1, at |-> clock + 1,
                   completed |-> TRUE, outcome |-> task[o].outcome,
                   early |-> task[o].early]
<1>1. p \in Plugins /\ task[o] # NoTask
  BY DEF ObserverStamp, TypeOK, Tasks
<1>2. UNCHANGED <<supervised, phase, expected, report, wasSound, wasBroken>>
  BY DEF ObserverStamp, outsideVars, runVars
<1>3. Explains(new, p)
  BY <1>1 DEF RunInv, Tasked, Explains
<1>4. /\ record' = [record EXCEPT ![p] = new]
      /\ memory' = [memory EXCEPT ![o][p] = new]
      /\ task' = [task EXCEPT ![o] = NoTask]
  BY DEF ObserverStamp
<1> HIDE DEF p, new
<1>5. Supervisor' /\ Reported'
  BY <1>2 DEF RunInv, Supervisor, Reported, Matches, Pending
<1>6. Tasked'
  BY <1>2, <1>4 DEF RunInv, Tasked, Matches, TypeOK
<1>7. Recorded'
  BY <1>1, <1>2, <1>3, <1>4 DEF RunInv, Recorded, Explains, Matches, TypeOK
<1>8. Remembered'
  <2> SUFFICES ASSUME NEW q \in Plugins, NEW k \in Pids
               PROVE  Explains(memory[k][q], q)'
    BY DEF Remembered
  <2>1. CASE k = o /\ q = p
    <3>1. memory'[k][q] = new
      BY <1>4, <2>1 DEF TypeOK
    <3>2. QED
      BY <1>2, <1>3, <2>1, <3>1 DEF Explains, Matches
  <2>2. CASE ~(k = o /\ q = p)
    <3>1. memory'[k][q] = memory[k][q]
      BY <1>4, <2>2 DEF TypeOK
    <3>2. QED
      BY <1>2, <3>1 DEF RunInv, Remembered, Explains, Matches
  <2>3. QED
    BY <2>1, <2>2
<1>9. QED
  BY <1>5, <1>6, <1>7, <1>8 DEF RunInv

LEMMA ObserverRunInv ==
  ASSUME TypeOK, RunInv, NEW o \in Pids, ObserverStep(o)
  PROVE  RunInv'
<1>1. CASE ManualLook(o)
  <2>1. UNCHANGED <<supervised, memory, record, phase, expected, report,
                    wasSound, wasBroken>>
    BY <1>1 DEF ManualLook, Begun, outsideVars, runVars
  <2>2. Tasked'
    BY <1>1, <2>1 DEF ManualLook, Begun, RunInv, Tasked, Matches, TypeOK
  <2>3. QED
    BY <2>1, <2>2
    DEF RunInv, Supervisor, Reported, Recorded, Remembered, Explains, Matches,
        Pending
<1>2. ASSUME NEW p \in Plugins, WriteHeartbeat(o, p) PROVE RunInv'
  <2>1. UNCHANGED <<supervised, memory, task, phase, expected, report,
                    wasSound, wasBroken>>
    BY <1>2 DEF WriteHeartbeat, outsideVars, processVars, runVars
  <2>2. Explains([memory[o][p] EXCEPT !.beat = clock], p)
    BY DEF RunInv, Remembered, Explains, TypeOK, Records
  <2>3. Recorded'
    BY <1>2, <2>1, <2>2
    DEF WriteHeartbeat, RunInv, Recorded, Explains, Matches, TypeOK
  <2>4. QED
    BY <2>1, <2>3
    DEF RunInv, Supervisor, Tasked, Reported, Remembered, Explains, Matches,
        Pending
<1>3. CASE Restart(o)
  <2>1. UNCHANGED <<memory, record, task, phase, expected, report, wasSound,
                    wasBroken>> /\ supervised' = {o} /\ o \notin Manual
    BY <1>3 DEF Restart, outsideVars, runVars
  <2>2. QED
    BY <2>1
    DEF RunInv, Supervisor, Tasked, Reported, Recorded, Remembered, Explains,
        Matches, Pending
<1>4. QED
  BY <1>1, <1>2, <1>3, LookRunInv, StampRunInv DEF ObserverStep

LEMMA ChangeRunInv == ASSUME TypeOK, RunInv, ChangeStep PROVE RunInv'
<1>1. ASSUME NEW o \in Pids, NEW p \in Plugins, ManualStart(o, p)
      PROVE  RunInv'
  <2>1. UNCHANGED <<supervised, memory, task, phase, expected, report,
                    wasSound, wasBroken>>
    BY <1>1 DEF ManualStart, outsideVars, runVars
  <2>2. Recorded'
    BY <1>1, <2>1
    DEF ManualStart, RunInv, Recorded, Explains, Matches, TypeOK
  <2>3. QED
    BY <2>1, <2>2
    DEF RunInv, Supervisor, Tasked, Reported, Remembered, Explains, Matches,
        Pending
<1>2. ASSUME NEW o \in Pids, Die(o) PROVE RunInv'
  <2>1. UNCHANGED <<record, phase, expected, report, wasSound, wasBroken>>
        /\ supervised' \subseteq supervised
    BY <1>2 DEF Die, outsideVars, runVars
  <2>2. Tasked'
    BY <1>2, <2>1 DEF Die, RunInv, Tasked, Matches, TypeOK
  <2>3. Remembered'
    <3> SUFFICES ASSUME NEW q \in Plugins, NEW k \in Pids
                 PROVE  Explains(memory[k][q], q)'
      BY DEF Remembered
    <3>1. CASE k = o
      BY <1>2, <3>1 DEF Die, Explains, NoMemory, NoRecord, TypeOK
    <3>2. CASE k # o
      BY <1>2, <2>1, <3>2 DEF Die, RunInv, Remembered, Explains, Matches, TypeOK
    <3>3. QED
      BY <3>1, <3>2
  <2>4. QED
    BY <2>1, <2>2, <2>3
    DEF RunInv, Supervisor, Reported, Recorded, Explains, Matches, Pending
<1>3. ASSUME UNCHANGED <<supervised, memory, record, task, phase, expected,
                         report>>,
             wasSound \subseteq wasSound' /\ wasBroken \subseteq wasBroken'
      PROVE  RunInv'
  <2>1. Supervisor' /\ Tasked'
    BY <1>3, HistoryRunInv DEF Tasked
  <2>2. Reported' /\ Recorded' /\ Remembered'
    BY <1>3, HistoryRunInv DEF RunInv, Reported, Recorded, Remembered, Pending
  <2>3. QED
    BY <2>1, <2>2 DEF RunInv
<1>4. ASSUME NEW o \in Pids, Reuse(o) PROVE RunInv'
  BY <1>3, <1>4 DEF Reuse, outsideVars, runVars
<1>5. ASSUME NEW p \in Plugins, CodexBreaks(p) PROVE RunInv'
  BY <1>3, <1>5 DEF CodexBreaks, Witnessed, processVars, runVars
<1>6. ASSUME NEW p \in Plugins, CodexCovers(p) PROVE RunInv'
  BY <1>3, <1>6 DEF CodexCovers, processVars, runVars
<1>7. QED
  BY <1>1, <1>2, <1>4, <1>5, <1>6 DEF ChangeStep

LEMMA ProvisionRunInv == ASSUME TypeOK, RunInv, ProvisionStep PROVE RunInv'
<1>1. CASE Begin
  <2>1. Supervisor'
    BY <1>1 DEF Begin, RunInv, Supervisor
  <2>2. \A p \in Plugins : report'[p] = NoReport
    BY <1>1 DEF Begin, RunInv, Reported
  <2>3. Tasked'
    <3> SUFFICES ASSUME NEW o \in Pids, task'[o] # NoTask
                 PROVE  task'[o].early
      BY DEF Tasked
    <3>1. task[o] # NoTask /\ task'[o] = [task[o] EXCEPT !.early = TRUE]
      BY <1>1 DEF Begin
    <3>2. task[o] \in Tasks
      BY <3>1 DEF TypeOK
    <3>3. QED
      BY <3>1, <3>2 DEF Tasks
  <2>4. Reported' /\ Recorded' /\ Remembered'
    BY <1>1, <2>2
    DEF Begin, Reported, Recorded, Remembered, Explains, Matches, Pending,
        NoReport
  <2>5. QED
    BY <2>1, <2>3, <2>4 DEF RunInv
<1>2. ASSUME NEW p \in Plugins, ReconcileLook(p) PROVE RunInv'
  <2> PICK outcome \in Outcomes :
             /\ Look(p, outcome)
             /\ report' = [report EXCEPT ![p] = [at |-> 0, outcome |-> outcome]]
    BY <1>2 DEF ReconcileLook
  <2>1. UNCHANGED <<supervised, memory, record, task, phase, expected>>
        /\ phase = "reconcile"
    BY <1>2 DEF ReconcileLook, processVars
  <2>2. Matches(outcome, p)' /\ wasSound \subseteq wasSound'
        /\ wasBroken \subseteq wasBroken'
    BY LookMatches DEF Witnessed
  <2>3. report'[p].at = 0 /\ report'[p].outcome = outcome
        /\ \A q \in Plugins : q # p => report'[q] = report[q]
    BY DEF TypeOK
  <2>4. Supervisor' /\ Tasked'
    BY <2>1, <2>2, HistoryRunInv DEF Tasked
  <2>5. Reported'
    <3> SUFFICES ASSUME NEW q \in Plugins PROVE Matches(report[q].outcome, q)'
      BY <2>1 DEF Reported
    <3>1. CASE q = p
      BY <2>2, <2>3, <3>1 DEF Matches
    <3>2. CASE q # p
      BY <2>1, <2>2, <2>3, <3>2, HistoryRunInv
    <3>3. QED
      BY <3>1, <3>2
  <2>6. ASSUME NEW q \in Plugins
        PROVE  Explains(record[q], q)' /\ \A o \in Pids : Explains(memory[o][q], q)'
    <3>1. CASE q = p
      BY <2>3, <3>1 DEF Explains
    <3>2. CASE q # p
      BY <2>1, <2>2, <2>3, <3>2, HistoryRunInv
    <3>3. QED
      BY <3>1, <3>2
  <2>7. QED
    BY <2>4, <2>5, <2>6 DEF RunInv, Recorded, Remembered
<1>3. ASSUME NEW p \in Plugins, ReconcileStamp(p) PROVE RunInv'
  <2>1. UNCHANGED <<supervised, memory, record, task, phase, expected,
                    wasSound, wasBroken>>
    BY <1>3 DEF ReconcileStamp, outsideVars, processVars
  <2>2. /\ clock \in Nat /\ report'[p].at = clock + 1
        /\ report'[p].outcome = report[p].outcome
        /\ \A q \in Plugins : q # p => report'[q] = report[q]
    BY <1>3 DEF ReconcileStamp, TypeOK
  <2>3. report[p].outcome # "none" /\ phase \notin {"idle", "verdict"}
    BY <1>3 DEF ReconcileStamp, Pending, RunInv, Reported, NoReport
  <2>4. ASSUME NEW r \in Records, Past(r) PROVE Explains(r, p)'
    <3>1. r.at < report'[p].at
      BY <2>2, <2>4 DEF Past, Records
    <3>2. QED
      BY <3>1 DEF Explains
  <2>5. Supervisor' /\ Tasked' /\ Reported'
    BY <2>1, <2>2, <2>3
    DEF RunInv, Supervisor, Tasked, Reported, Matches
  <2>6. ASSUME NEW q \in Plugins
        PROVE  Explains(record[q], q)' /\ \A o \in Pids : Explains(memory[o][q], q)'
    <3>1. record[q] \in Records /\ Past(record[q])
          /\ \A o \in Pids : memory[o][q] \in Records
      BY DEF TypeOK
    <3>2. \A o \in Pids : Past(memory[o][q])
      BY DEF TypeOK
    <3>3. CASE q = p
      <4>1. \A r \in Records : Past(r) => Explains(r, p)'
        BY <2>4
      <4>2. QED
        BY <2>1, <3>1, <3>2, <3>3, <4>1 DEF Explains
    <3>4. CASE q # p
      BY <2>1, <2>2, <3>4
      DEF RunInv, Recorded, Remembered, Explains, Matches
    <3>5. QED
      BY <3>3, <3>4
  <2>7. QED
    BY <2>5, <2>6 DEF RunInv, Recorded, Remembered
<1>4. ASSUME UNCHANGED <<supervised, memory, record, task, report, wasSound,
                         wasBroken, expected>>,
             phase' \notin {"idle", "verdict"} \/ UNCHANGED phase
               \/ (phase' = "verdict" /\ \A q \in Plugins : ~Pending(q))
      PROVE  RunInv'
  BY <1>4
  DEF RunInv, Supervisor, Tasked, Reported, Recorded, Remembered, Explains,
      Matches, Pending
<1>5. CASE Recheck
  BY <1>4, <1>5 DEF Recheck, outsideVars, processVars
<1>6. ASSUME NEW p \in Plugins, Verdict(p) \/ Raise(p) PROVE RunInv'
  BY <1>4, <1>6 DEF Verdict, Raise, outsideVars, processVars
<1>7. CASE End
  BY <1>7
  DEF End, RunInv, Supervisor, Tasked, Reported, Recorded, Remembered,
      Explains, Matches, Pending, NoReport, outsideVars, processVars
<1>8. QED
  BY <1>1, <1>2, <1>3, <1>5, <1>6, <1>7 DEF ProvisionStep

LEMMA NextRunInv == TypeOK /\ RunInv /\ [Next]_vars => RunInv'
<1> SUFFICES ASSUME TypeOK, RunInv, [Next]_vars PROVE RunInv'
  OBVIOUS
<1>1. CASE Tick \/ UNCHANGED vars
  BY <1>1
  DEF Tick, vars, outsideVars, processVars, runVars, RunInv, Supervisor,
      Tasked, Reported, Recorded, Remembered, Explains, Matches, Pending
<1>2. QED
  BY <1>1, ObserverRunInv, ChangeRunInv, ProvisionRunInv DEF Next

\* Only Verdict says anything of a plugin.
LEMMA SaysStep ==
  ASSUME TypeOK, Next, NEW p \in Plugins, NEW outcome \in Outcomes,
         Says(p, outcome)
  PROVE  Verdict(p) /\ outcome = HealthAfterProvisioner(p)
<1>1. verdict' # verdict
  BY DEF Says, Outcomes
<1>2. CASE End
  BY <1>2 DEF End, Says, Outcomes
<1>3. ASSUME NEW q \in Plugins, Verdict(q)
      PROVE  Verdict(p) /\ outcome = HealthAfterProvisioner(p)
  BY <1>3 DEF Verdict, Says, Outcomes, TypeOK
<1>4. QED
  BY <1>1, <1>2, <1>3
  DEF Next, ProvisionStep, ChangeStep, ObserverStep, Tick, Begin,
      ReconcileLook, ReconcileStamp, Recheck, Raise, ObserverLook, ManualLook,
      Begun, ObserverStamp, WriteHeartbeat, Restart, ManualStart, Die, Reuse,
      CodexBreaks, CodexCovers, runVars

LEMMA VerdictStep ==
  ASSUME ExpectPid, TypeOK, RunInv, NEW p \in Plugins, Verdict(p),
         ~record[p].early
  PROVE  /\ HealthAfterProvisioner(p) = "ok" => p \in wasSound
         /\ HealthAfterProvisioner(p) = "problem" /\ Active(record[p]) =>
               p \in wasBroken
<1>1. report[p].outcome # "none" /\ report[p].at # 0 /\ report[p].at \in Nat
      /\ Matches(report[p].outcome, p)
  BY DEF Verdict, RunInv, Reported, Pending, TypeOK
<1>2. SUFFICES ASSUME Active(record[p])
               PROVE  Matches(HealthAfterProvisioner(p), p)
  BY DEF HealthAfterProvisioner, Matches
<1>3. record[p].completed /\ record[p].pid \notin Manual
  BY <1>2 DEF Active, RunInv, Supervisor
<1>4. CASE record[p].at >= report[p].at
  <2>1. record[p].at \in Nat
    BY DEF TypeOK, Records
  <2>2. Matches(record[p].outcome, p)
    BY <1>1, <1>3, <1>4, <2>1 DEF RunInv, Recorded, Explains
  <2>3. QED
    BY <1>2, <1>4, <2>2 DEF HealthAfterProvisioner
<1>5. CASE ~(record[p].at >= report[p].at)
  BY <1>1, <1>2, <1>5 DEF HealthAfterProvisioner
<1>6. QED
  BY <1>4, <1>5

\* Where the supervisor's pid is passed on (launchd), a verdict is of the run
\* that gives it: health_after_provisioner never reports the past, whoever
\* reconciles, dies or writes records meanwhile. A look from before the run
\* that is stamped during it is the exception.
THEOREM VerdictsAreOfTheRun == ASSUME ExpectPid PROVE Spec => VerdictOfThisRun
<1>1. Spec => []RunInv
  BY TypeCorrect, RunInit, NextRunInv, PTL DEF Spec
<1>2. TypeOK /\ RunInv /\ [Next]_vars =>
        [\A p \in Plugins : ~record[p].early =>
            /\ Says(p, "ok") => p \in wasSound
            /\ Says(p, "problem") /\ Active(record[p]) => p \in wasBroken]_vars
  <2> SUFFICES ASSUME TypeOK, RunInv, Next, NEW p \in Plugins, ~record[p].early
               PROVE  /\ Says(p, "ok") => p \in wasSound
                      /\ Says(p, "problem") /\ Active(record[p]) =>
                            p \in wasBroken
    OBVIOUS
  <2>1. "ok" \in Outcomes /\ "problem" \in Outcomes
    BY DEF Outcomes
  <2>2. QED
    BY <2>1, SaysStep, VerdictStep
<1>3. QED
  BY <1>1, <1>2, TypeCorrect, PTL DEF Spec, VerdictOfThisRun


-----------------------------------------------------------------------------
(***************************************************************************)
(* The loop over all plugins.                                              *)
(***************************************************************************)
(***************************************************************************)
(* The order of the visits to come: the rest of this sweep, then the next. *)
(***************************************************************************)
Before(q, p) == IF p \in unvisited THEN q \in unvisited /\ q < p ELSE q \in unvisited \/ q < p
Ahead(p) == {q \in Watched : Before(q, p)}

\* Plugins whose present signature has been seen and is still to be acted on.
Noticed == seen \ settled

\* A write of trust or of Codex leaves every plugin unseen, and one sweep long
\* each visit notices one. So in the order of the visits the unseen come
\* first, the noticed are side by side, and no fetch begins while any plugin
\* is unseen; Codex may write while one is under way.
Order ==
    /\ settled \subseteq seen
    /\ \A q \in unvisited, r \in Watched : r > q => r \in unvisited
    /\ now # 0 => now \in unvisited /\ now \notin trusted /\ \A q \in unvisited : now <= q
    /\ now = 0 => left = 0 /\ stage = 1 /\ budget = Fetch
    /\ \A p \in Watched \ seen, q \in Watched : Before(q, p) => q \notin seen
    /\ \A x, p \in Noticed, q \in Watched :
          Before(x, q) /\ Before(q, p) => q \in Noticed
    /\ seen # Watched => \A q \in settled, x \in Noticed : ~Before(x, q)
    /\ now # 0 => \/ seen = {}
                  \/ seen = Watched /\ (now \in Noticed \/ settled = Watched)

\* The fetches of others that may still come before p's record is written.
\* Each of them may cost p a sweep, when it ends with a write of trust.
Chances(p) ==
    IF p \in settled THEN Ahead(p)
    ELSE IF p \in seen THEN Ahead(p) \intersect Noticed
    ELSE Ahead(p) \union Noticed

\* The sweeps p waits for in any case.
Behind(p) == (IF p \in unvisited THEN 0 ELSE 1) + (IF p \in seen THEN 0 ELSE 1)

\* What the pass under way, or any one to come, may still take.
TimeLeft == IF stage = 3 THEN budget ELSE budget + Wait

\* The longest that p's record may still have to wait.
Remaining(p) ==
    Behind(p) * Poll + Cardinality(Chances(p)) * (Poll + PassTime) + TimeLeft

\* A pass that failed is not due again before the plugins that are still to be
\* acted on have been.
NotDue ==
    \A p \in Watched \ settled, q \in settled \intersect errors :
        retryIn[q] > Remaining(p)

QuietInTime == \A p \in Watched : quiet[p] + Remaining(p) < QuietBound

LostInTime ==
    /\ age <= LatencyBound
    /\ \A p \in lost : p \notin settled /\ age + Remaining(p) <= LatencyBound

TimingInv == SweepTypeOK /\ Order /\ NotDue /\ QuietInTime /\ LostInTime

-----------------------------------------------------------------------------
LEMMA LatencyConstants ==
    /\ K \in Nat /\ K > 0 /\ Poll \in Nat /\ Poll > 0
    /\ Fetch \in Nat /\ Wait \in Nat /\ PassTime \in Nat
    /\ Fetch <= PassTime
    /\ Heartbeat \in Nat /\ Heartbeat > Poll /\ MaxLosses \in Nat
    /\ Retry \in Nat /\ LatencyBound \in Nat /\ Retry >= LatencyBound
    /\ QuietBound \in Nat
    /\ LatencyBound = 2 * Poll + (K - 1) * (Poll + PassTime) + PassTime
    /\ QuietBound = Heartbeat + Poll + (K - 1) * (Poll + PassTime) + PassTime
  BY LatencyAssumption DEF LatencyBound, QuietBound, PassTime

\* The plugins that are waited for are finitely many; the more, the longer.
LEMMA FinitePlugins ==
    /\ IsFiniteSet(Watched) /\ Cardinality(Watched) = K
    /\ \A S \in SUBSET Watched :
          IsFiniteSet(S) /\ Cardinality(S) \in Nat
<1>1. IsFiniteSet(Watched) /\ Cardinality(Watched) = K
  BY LatencyConstants, FS_Interval DEF Watched
<1> QED BY <1>1, FS_Subset, FS_CardinalityType

LEMMA Fewer ==
  ASSUME NEW S \in SUBSET Watched, NEW T \in SUBSET S
  PROVE  Cardinality(T) <= Cardinality(S)
  BY FinitePlugins, FS_Subset

LEMMA OneFewer ==
  ASSUME NEW S \in SUBSET Watched, NEW x \in S, NEW T \in SUBSET (S \ {x})
  PROVE  Cardinality(T) + 1 <= Cardinality(S)
<1>1. IsFiniteSet(S) /\ Cardinality(S) \in Nat
  BY FinitePlugins
<1>2. IsFiniteSet(S \ {x}) /\ Cardinality(S \ {x}) = Cardinality(S) - 1
  BY <1>1, FS_RemoveElement
<1>3. Cardinality(T) <= Cardinality(S \ {x})
  BY <1>2, FS_Subset
<1>4. Cardinality(T) \in Nat
  BY FinitePlugins
<1> QED BY <1>1, <1>2, <1>3, <1>4

LEMMA Longer ==
  ASSUME NEW m \in Nat, NEW n \in Nat, m <= n
  PROVE  m * (Poll + PassTime) <= n * (Poll + PassTime)
<1> DEFINE unit == Poll + PassTime
<1>1. unit \in Nat
  BY LatencyConstants
<1> HIDE DEF unit
<1>2. m * unit <= n * unit
  BY <1>1
<1> QED BY <1>2 DEF unit

LEMMA OneLonger ==
  ASSUME NEW m \in Nat, NEW n \in Nat, m + 1 <= n
  PROVE  m * (Poll + PassTime) + Poll + PassTime <= n * (Poll + PassTime)
<1>1. (m + 1) * (Poll + PassTime) <= n * (Poll + PassTime)
  BY Longer
<1>2. (m + 1) * (Poll + PassTime) = m * (Poll + PassTime) + Poll + PassTime
  BY LatencyConstants
<1> QED BY <1>1, <1>2

LEMMA ProductType ==
  ASSUME NEW n \in Nat
  PROVE  n * (Poll + PassTime) \in Nat
  BY LatencyConstants
-----------------------------------------------------------------------------
LEMMA ElapseTypes ==
  ASSUME SweepTypeOK, NEW units \in Nat, Elapse(units)
  PROVE  /\ age' \in Nat /\ quiet' \in [Watched -> Nat]
         /\ retryIn' \in [Watched -> 0..Retry]
         /\ \A p \in Watched : /\ quiet'[p] = quiet[p] + units
                               /\ retryIn[p] - units <= retryIn'[p]
<1>1. \A p \in Watched : retryIn[p] \in 0..Retry /\ quiet[p] \in Nat
  BY DEF SweepTypeOK
<1>2. retryIn' \in [Watched -> 0..Retry]
  BY <1>1, LatencyConstants DEF Elapse
<1>3. quiet' \in [Watched -> Nat]
  BY <1>1 DEF Elapse
<1>4. age' \in Nat
  BY DEF Elapse, SweepTypeOK
<1>5. \A p \in Watched : /\ quiet'[p] = quiet[p] + units
                         /\ retryIn[p] - units <= retryIn'[p]
  BY <1>1, LatencyConstants DEF Elapse
<1> QED BY <1>2, <1>3, <1>4, <1>5

LEMMA OfPassTime ==
  ASSUME NEW at, NEW b \in 0..(IF at = 3 THEN Wait ELSE Fetch)
  PROVE  (IF at = 3 THEN b ELSE b + Wait) \in 0..PassTime
<1>1. CASE at = 3
  BY <1>1, LatencyConstants DEF PassTime
<1>2. CASE at # 3
  BY <1>2, LatencyConstants DEF PassTime
<1> QED BY <1>1, <1>2

LEMMA TimeLeftType ==
  ASSUME SweepTypeOK PROVE TimeLeft \in 0..PassTime
  BY OfPassTime DEF SweepTypeOK, TimeLeft

LEMMA InitLatencyTypes == SweepInit => SweepTypeOK
  BY LatencyConstants DEF SweepInit, SweepTypeOK, Zero, Watched

LEMMA StepLatencyTypes == SweepTypeOK /\ [SweepNext]_sweepVars => SweepTypeOK'
<1> SUFFICES ASSUME SweepTypeOK, [SweepNext]_sweepVars PROVE SweepTypeOK'
  OBVIOUS
<1> USE LatencyConstants
<1>1. ASSUME NEW p \in Watched, Notice(p) PROVE SweepTypeOK'
  BY <1>1 DEF Notice, fetchVars, SweepTypeOK
<1>2. ASSUME NEW p \in Watched, Skip(p) PROVE SweepTypeOK'
  BY <1>2 DEF Skip, fetchVars, loopVars, SweepTypeOK
<1>3. ASSUME NEW p \in Watched, PassTrusted(p) PROVE SweepTypeOK'
  BY <1>3 DEF PassTrusted, fetchVars, SweepTypeOK
<1>4. ASSUME NEW p \in Watched, BeginFetch(p) PROVE SweepTypeOK'
  BY <1>4 DEF BeginFetch, loopVars, SweepTypeOK
<1>5. CASE TimePasses
  <2>1. /\ left \in Nat /\ left' \in 0..budget'
        /\ budget' \in 0..(IF stage' = 3 THEN Wait ELSE Fetch)
    BY <1>5 DEF TimePasses, SweepTypeOK
  <2>2. /\ age' \in Nat /\ quiet' \in [Watched -> Nat]
        /\ retryIn' \in [Watched -> 0..Retry]
    BY <1>5, <2>1, ElapseTypes DEF TimePasses
  <2> QED BY <1>5, <2>1, <2>2 DEF TimePasses, loopVars, SweepTypeOK
<1>6. CASE NextTag \/ AwaitLock
  BY <1>6 DEF NextTag, AwaitLock, loopVars, SweepTypeOK
<1>7. CASE EndFetch
  <2>1. now \in Watched
    BY <1>7 DEF EndFetch, EndPass, SweepTypeOK
  <2>2. PICK written \in BOOLEAN :
          /\ EndPass(written)
          /\ seen' = IF written THEN {now} ELSE seen \union {now}
          /\ settled' = IF written THEN {now} ELSE settled \union {now}
    BY <1>7 DEF EndFetch
  <2>3. /\ unvisited' \subseteq Watched /\ now' = 0 /\ stage' = 1 /\ left' = 0
        /\ budget' = Fetch /\ age' = age /\ losses' = losses
    BY <2>2 DEF EndPass, SweepTypeOK
  <2>4. quiet' \in [Watched -> Nat]
    BY <2>1, <2>2 DEF EndPass, SweepTypeOK
  <2>5. /\ trusted' \subseteq Watched /\ errors' \subseteq Watched
        /\ seen' \subseteq Watched /\ settled' \subseteq Watched
        /\ lost' \subseteq Watched \ trusted'
    BY <2>1, <2>2, Zenon DEF EndPass, SweepTypeOK
  <2>6. retryIn' \in [Watched -> 0..Retry]
    BY <2>1, <2>2 DEF EndPass, SweepTypeOK
  <2> QED BY <2>3, <2>4, <2>5, <2>6 DEF SweepTypeOK
<1>8. CASE Sleep
  BY <1>8, ElapseTypes DEF Sleep, fetchVars, loopVars, SweepTypeOK
<1>9. ASSUME NEW plugins \in SUBSET Watched, Lose(plugins) PROVE SweepTypeOK'
  BY <1>9 DEF Lose, fetchVars, Zero, SweepTypeOK
<1>10. CASE UNCHANGED sweepVars
  BY <1>10 DEF sweepVars, fetchVars, loopVars, SweepTypeOK
<1> QED BY <1>1, <1>2, <1>3, <1>4, <1>5, <1>6, <1>7, <1>8, <1>9, <1>10 DEF SweepNext
-----------------------------------------------------------------------------
(***************************************************************************)
(* A visit moves the first of the order to its end.                        *)
(***************************************************************************)
First(v) == v \in unvisited /\ \A q \in unvisited : v <= q

LEMMA FirstIsFirst ==
  ASSUME SweepTypeOK, NEW v \in Watched, First(v), NEW p \in Watched
  PROVE  ~Before(p, v) /\ (p # v => Before(v, p))
  BY LatencyConstants DEF SweepTypeOK, First, Before, Watched

LEMMA Visit ==
  ASSUME SweepTypeOK, \A q \in unvisited, r \in Watched : r > q => r \in unvisited,
         NEW v \in Watched, First(v), unvisited' = unvisited \ {v}
  PROVE  /\ \A p \in Watched : ~Before(v, p)'
         /\ \A p \in Watched \ {v} : Before(p, v)'
         /\ \A p, q \in Watched \ {v} : Before(q, p)' <=> Before(q, p)
         /\ \A p \in Watched \ {v} : v \in Ahead(p) /\ Ahead(p)' = Ahead(p) \ {v}
         /\ Ahead(v) = {} /\ Ahead(v)' = Watched \ {v}
         /\ \A q \in unvisited', r \in Watched : r > q => r \in unvisited'
<1>1. \A p \in Watched : ~Before(v, p)'
  BY LatencyConstants DEF SweepTypeOK, First, Before, Watched
<1>2. \A p \in Watched \ {v} : Before(p, v)'
  BY LatencyConstants DEF SweepTypeOK, First, Before, Watched
<1>3. \A p, q \in Watched \ {v} : Before(q, p)' <=> Before(q, p)
  BY LatencyConstants DEF SweepTypeOK, First, Before, Watched
<1>4. \A p \in Watched \ {v} : v \in Ahead(p) /\ Ahead(p)' = Ahead(p) \ {v}
  BY <1>1, <1>3, FirstIsFirst DEF Ahead
<1>5. Ahead(v) = {} /\ Ahead(v)' = Watched \ {v}
  BY <1>1, <1>2, FirstIsFirst DEF Ahead
<1>6. \A q \in unvisited', r \in Watched : r > q => r \in unvisited'
  BY LatencyConstants DEF SweepTypeOK, First, Watched
<1> QED BY <1>1, <1>2, <1>3, <1>4, <1>5, <1>6

LEMMA SweepOrder ==
  ASSUME unvisited = {}, unvisited' = Watched
  PROVE  /\ \A p, q \in Watched : Before(q, p)' <=> Before(q, p)
         /\ \A p \in Watched : Ahead(p)' = Ahead(p)
  BY DEF Before, Ahead

LEMMA SameOrder ==
  ASSUME unvisited' = unvisited
  PROVE  /\ \A p, q \in Watched : Before(q, p)' <=> Before(q, p)
         /\ \A p \in Watched : Ahead(p)' = Ahead(p)
  BY DEF Before, Ahead

LEMMA InitOrder == SweepInit => Order
  BY LatencyConstants DEF SweepInit, Order, Noticed, Watched

\* While one plugin is unseen, the one whose turn it is is.
LEMMA SeenTurn ==
  ASSUME SweepTypeOK, Order, NEW v \in Watched, First(v), v \in seen
  PROVE  seen = Watched
<1>1. ASSUME NEW p \in Watched \ seen PROVE FALSE
  <2>1. Before(v, p)
    BY FirstIsFirst
  <2> QED BY <2>1 DEF Order
<1> QED BY <1>1 DEF SweepTypeOK

LEMMA StepOrder == SweepTypeOK /\ Order /\ NotDue /\ [SweepNext]_sweepVars => Order'
<1> SUFFICES ASSUME SweepTypeOK, Order, NotDue, [SweepNext]_sweepVars PROVE Order'
  OBVIOUS
<1> USE DEF Order
<1>1. ASSUME NEW v \in Watched, Notice(v) PROVE Order'
  <2>1. First(v) /\ unvisited' = unvisited \ {v} /\ now = 0
    BY <1>1 DEF Notice, Turn, First
  <2>2. /\ seen' = seen \union {v} /\ settled' = settled
        /\ now' = now /\ left' = left /\ stage' = stage /\ budget' = budget
    BY <1>1 DEF Notice, fetchVars
  <2>3. Noticed' = Noticed \union {v}
    BY <1>1, <2>2 DEF Noticed, Notice
  <2>4. ASSUME NEW p \in Watched \ seen', NEW q \in Watched, Before(q, p)'
        PROVE  q \notin seen'
    <3>1. p # v /\ q # v
      BY <2>1, <2>2, <2>4, Visit
    <3>2. Before(q, p)
      BY <2>1, <2>4, <3>1, Visit
    <3> QED BY <2>2, <3>1, <3>2
  <2>5. ASSUME NEW x \in Noticed', NEW p \in Noticed', NEW q \in Watched,
               Before(x, q)', Before(q, p)'
        PROVE  q \in Noticed'
    <3>0. Noticed' \subseteq Watched
      BY <2>3 DEF Noticed, SweepTypeOK
    <3>1. x # v /\ q # v
      BY <2>1, <2>5, <3>0, Visit
    <3>2. Before(x, q) /\ x \in Noticed
      BY <2>1, <2>3, <2>5, <3>0, <3>1, Visit
    <3>3. CASE p # v
      BY <2>1, <2>3, <2>5, <3>0, <3>1, <3>2, <3>3, Visit
    <3>4. CASE p = v
      <4>1. q \in seen
        BY <3>2 DEF Noticed, SweepTypeOK
      <4>2. q \notin settled
        BY <1>1, <3>2 DEF Notice, SweepTypeOK
      <4> QED BY <2>3, <4>1, <4>2 DEF Noticed
    <3> QED BY <3>3, <3>4
  <2>6. ASSUME seen' # Watched, NEW q \in settled', NEW x \in Noticed'
        PROVE  ~Before(x, q)'
    <3>1. q \in Watched \ {v} /\ x \in Watched
      BY <1>1, <2>2, <2>3, <2>6 DEF Notice, Noticed, SweepTypeOK
    <3> QED BY <1>1, <2>1, <2>2, <2>3, <2>6, <3>1, Visit DEF Notice, SweepTypeOK
  <2> QED BY <2>1, <2>2, <2>4, <2>5, <2>6, Visit
<1>2. ASSUME NEW v \in Watched, Skip(v) \/ PassTrusted(v) PROVE Order'
  <2>1. First(v) /\ unvisited' = unvisited \ {v} /\ now = 0 /\ v \in seen
    BY <1>2 DEF Skip, PassTrusted, Turn, First
  <2>2. /\ seen' = seen /\ settled' = settled \union {v}
        /\ now' = now /\ left' = left /\ stage' = stage /\ budget' = budget
    BY <1>2 DEF Skip, PassTrusted, Wanted, fetchVars, loopVars
  <2>3. Noticed' = Noticed \ {v} /\ seen = Watched
    BY <2>1, <2>2, SeenTurn DEF Noticed
  <2>4. ASSUME NEW x \in Noticed', NEW p \in Noticed', NEW q \in Watched,
               Before(x, q)', Before(q, p)'
        PROVE  q \in Noticed'
    <3>1. x \in Watched \ {v} /\ p \in Watched \ {v} /\ q # v
      <4>1. Noticed \subseteq Watched
        BY DEF Noticed, SweepTypeOK
      <4> QED BY <2>1, <2>3, <2>4, <4>1, Visit
    <3>2. Before(x, q) /\ Before(q, p)
      BY <2>1, <2>4, <3>1, Visit
    <3> QED BY <2>3, <2>4, <3>1, <3>2
  <2> QED BY <2>1, <2>2, <2>3, <2>4, Visit
<1>3. ASSUME NEW v \in Watched, BeginFetch(v) PROVE Order'
  <2>1. First(v) /\ v \in seen /\ Wanted(v) /\ v \notin trusted
    BY <1>3 DEF BeginFetch, Turn, First
  <2>2. /\ unvisited' = unvisited /\ now' = v /\ trusted' = trusted
        /\ seen' = seen /\ settled' = settled /\ Noticed' = Noticed
    BY <1>3 DEF BeginFetch, loopVars, Noticed
  <2>3. seen = Watched
    BY <2>1, SeenTurn
  <2>4. v \in Noticed \/ settled = Watched
    <3>1. SUFFICES ASSUME v \in settled, settled # Watched PROVE FALSE
      BY <2>1 DEF Noticed
    <3>2. v \in errors /\ retryIn[v] = 0
      BY <2>1, <3>1 DEF Wanted
    <3>3. PICK p \in Watched \ settled : TRUE
      BY <3>1 DEF SweepTypeOK
    <3>4. retryIn[v] > Remaining(p)
      BY <3>1, <3>2, <3>3 DEF NotDue
    <3>5. Remaining(p) \in Nat
      <4>1. Chances(p) \subseteq Watched
        BY DEF Chances, Ahead, Noticed, SweepTypeOK
      <4>2. TimeLeft \in 0..PassTime
        BY TimeLeftType
      <4> QED BY <4>1, <4>2, FinitePlugins, ProductType, LatencyConstants
              DEF Remaining, Behind, SweepTypeOK
    <3> QED BY <3>2, <3>4, <3>5
  <2>5. v # 0
    BY DEF Watched
  <2>6. /\ \A p \in Watched \ seen', q \in Watched : Before(q, p)' => q \notin seen'
        /\ \A x, p \in Noticed', q \in Watched :
              Before(x, q)' /\ Before(q, p)' => q \in Noticed'
    <3>1. Noticed \subseteq Watched
      BY DEF Noticed, SweepTypeOK
    <3> QED BY <2>2, <2>3, <3>1, SameOrder
  <2> QED BY <2>1, <2>2, <2>3, <2>4, <2>5, <2>6 DEF First
<1>4. ASSUME TimePasses \/ NextTag \/ AwaitLock PROVE Order'
  <2>1. /\ UNCHANGED <<unvisited, now, trusted, seen, settled>> /\ now # 0
        /\ Noticed' = Noticed /\ Noticed \subseteq Watched
    BY <1>4 DEF TimePasses, NextTag, AwaitLock, loopVars, Noticed, SweepTypeOK
  <2> QED BY <2>1, SameOrder DEF SweepTypeOK
<1>5. CASE EndFetch
  <2>1. now \in Watched /\ First(now) /\ unvisited' = unvisited \ {now}
    BY <1>5 DEF EndFetch, EndPass, First, SweepTypeOK
  <2>2. now' = 0 /\ left' = 0 /\ stage' = 1 /\ budget' = Fetch
    BY <1>5 DEF EndFetch, EndPass
  <2>3. CASE seen' = {now} /\ settled' = {now}
    BY <2>1, <2>2, <2>3, Visit DEF Noticed
  <2>4. CASE seen' = seen \union {now} /\ settled' = settled \union {now}
    <3>1. CASE seen = {}
      BY <2>1, <2>2, <2>4, <3>1, Visit DEF Noticed
    <3>2. CASE seen = Watched
      <4>1. Noticed' = Noticed \ {now} /\ seen' = Watched
        BY <2>1, <2>4, <3>2 DEF Noticed
      <4>2. ASSUME NEW x \in Noticed', NEW p \in Noticed', NEW q \in Watched,
                   Before(x, q)', Before(q, p)'
            PROVE  q \in Noticed'
        <5>1. /\ x \in Watched \ {now} /\ p \in Watched \ {now} /\ q # now
          BY <2>1, <4>1, <4>2, Visit DEF Noticed, SweepTypeOK
        <5>2. Before(x, q) /\ Before(q, p)
          BY <2>1, <4>2, <5>1, Visit
        <5> QED BY <4>1, <4>2, <5>1, <5>2
      <4> QED BY <2>1, <2>2, <2>4, <4>1, <4>2, Visit
    <3> QED BY <2>1, <3>1, <3>2 DEF Watched
  <2> QED BY <1>5, <2>3, <2>4 DEF EndFetch
<1>6. CASE Sleep
  <2>1. /\ unvisited = {} /\ unvisited' = Watched /\ now = 0
        /\ UNCHANGED <<now, left, stage, budget, trusted, seen, settled>>
        /\ Noticed' = Noticed /\ Noticed \subseteq Watched
    BY <1>6 DEF Sleep, fetchVars, loopVars, Noticed, SweepTypeOK
  <2> QED BY <2>1, SweepOrder DEF SweepTypeOK
<1>7. ASSUME NEW plugins \in SUBSET Watched, Lose(plugins) PROVE Order'
  <2>1. /\ UNCHANGED <<unvisited, now, left, stage, budget>> /\ trusted' \subseteq trusted
        /\ seen' = {} /\ settled' = {} /\ Noticed' = {}
    BY <1>7 DEF Lose, fetchVars, Noticed
  <2> QED BY <2>1
<1>8. CASE UNCHANGED sweepVars
  <2>1. /\ UNCHANGED <<unvisited, now, left, stage, budget, trusted, seen, settled>>
        /\ Noticed' = Noticed /\ Noticed \subseteq Watched
    BY <1>8 DEF sweepVars, fetchVars, loopVars, Noticed, SweepTypeOK
  <2> QED BY <2>1, SameOrder DEF SweepTypeOK
<1> QED BY <1>1, <1>2, <1>3, <1>4, <1>5, <1>6, <1>7, <1>8 DEF SweepNext
-----------------------------------------------------------------------------
(***************************************************************************)
(* The longest wait does not grow, and shrinks by the time that goes by,   *)
(* as long as the plugin is not visited and Codex writes nothing.          *)
(***************************************************************************)
LEMMA ChancesType ==
  ASSUME SweepTypeOK, Order, NEW p \in Watched
  PROVE  Chances(p) \subseteq Watched \ {p}
<1>1. p \notin Ahead(p)
  BY DEF Ahead, Before, Watched
<1> QED BY <1>1 DEF Chances, Ahead, Noticed, SweepTypeOK

LEMMA RemainingType ==
  ASSUME SweepTypeOK, Order, NEW p \in Watched
  PROVE  /\ Cardinality(Chances(p)) \in Nat
         /\ Cardinality(Chances(p)) * (Poll + PassTime) \in Nat
         /\ Behind(p) \in 0..2 /\ (p \in settled => Behind(p) <= 1)
         /\ TimeLeft \in 0..PassTime
         /\ Remaining(p) \in Nat
<1>1. Cardinality(Chances(p)) \in Nat
  BY ChancesType, FinitePlugins
<1>2. Cardinality(Chances(p)) * (Poll + PassTime) \in Nat
  BY <1>1, ProductType
<1>3. Behind(p) \in 0..2 /\ (p \in settled => Behind(p) <= 1)
  BY DEF Behind, Order
<1>4. TimeLeft \in 0..PassTime
  BY TimeLeftType
<1> QED BY <1>1, <1>2, <1>3, <1>4, LatencyConstants DEF Remaining

\* The same of the next state.
LEMMA NextRemaining ==
  ASSUME SweepTypeOK', Order', NEW p \in Watched
  PROVE  /\ Chances(p)' \subseteq Watched \ {p}
         /\ Cardinality(Chances(p)') \in Nat
         /\ Cardinality(Chances(p)') * (Poll + PassTime) \in Nat
         /\ Behind(p)' \in 0..2 /\ (p \in settled' => Behind(p)' <= 1)
         /\ TimeLeft' \in 0..PassTime
         /\ Remaining(p)' \in Nat
         /\ Remaining(p)' = Behind(p)' * Poll
                       + Cardinality(Chances(p)') * (Poll + PassTime) + TimeLeft'
<1>1. p \notin Ahead(p)'
  BY DEF Ahead, Before, Watched
<1>2. Chances(p)' \subseteq Watched \ {p}
  BY <1>1 DEF Chances, Ahead, Noticed, SweepTypeOK
<1>3. Cardinality(Chances(p)') \in Nat
  BY <1>2, FinitePlugins
<1>4. Cardinality(Chances(p)') * (Poll + PassTime) \in Nat
  BY <1>3, ProductType
<1>5. Behind(p)' \in 0..2 /\ (p \in settled' => Behind(p)' <= 1)
  BY DEF Behind, Order
<1>6. TimeLeft' \in 0..PassTime
  BY OfPassTime DEF SweepTypeOK, TimeLeft
<1>7. Remaining(p)' = Behind(p)' * Poll
                        + Cardinality(Chances(p)') * (Poll + PassTime) + TimeLeft'
  BY DEF Remaining
<1> QED BY <1>2, <1>3, <1>4, <1>5, <1>6, <1>7, LatencyConstants

LEMMA NextRemainingBound ==
  ASSUME SweepTypeOK', Order', NEW p \in Watched
  PROVE  /\ Remaining(p)' <= LatencyBound
         /\ p \in settled' => Remaining(p)' + Poll <= LatencyBound
         /\ \A q \in Watched \ {p} :
               q \notin Chances(p)' => Remaining(p)' < LatencyBound
<1>1. Cardinality(Chances(p)') + 1 <= K
  BY NextRemaining, OneFewer, FinitePlugins
<1>2. Cardinality(Chances(p)') * (Poll + PassTime) <= (K - 1) * (Poll + PassTime)
  BY <1>1, NextRemaining, Longer, LatencyConstants
<1>3. (K - 1) * (Poll + PassTime) \in Nat
  BY ProductType, LatencyConstants
<1>4. /\ Remaining(p)' <= LatencyBound
      /\ p \in settled' => Remaining(p)' + Poll <= LatencyBound
  BY <1>2, <1>3, NextRemaining, LatencyConstants
<1>5. ASSUME NEW q \in Watched \ {p}, q \notin Chances(p)'
      PROVE  Remaining(p)' < LatencyBound
  <2>1. Cardinality(Chances(p)') + 1 <= Cardinality(Watched \ {p})
    BY <1>5, NextRemaining, OneFewer, FinitePlugins
  <2>2. /\ Cardinality(Watched \ {p}) + 1 <= K
        /\ Cardinality(Watched \ {p}) \in Nat
    BY OneFewer, FinitePlugins
  <2>3. Cardinality(Chances(p)') + 1 <= K - 1
    BY <2>1, <2>2, NextRemaining, LatencyConstants
  <2>4. Cardinality(Chances(p)') * (Poll + PassTime) + Poll + PassTime
          <= (K - 1) * (Poll + PassTime)
    BY <2>3, NextRemaining, OneLonger, LatencyConstants
  <2> QED BY <2>4, <1>3, NextRemaining, LatencyConstants
<1> QED BY <1>4, <1>5

LEMMA NoLonger ==
  ASSUME SweepTypeOK, Order, SweepTypeOK', Order', NEW p \in Watched,
         Chances(p)' \subseteq Chances(p),
         Behind(p)' <= Behind(p), TimeLeft' <= TimeLeft
  PROVE  Remaining(p)' <= Remaining(p)
<1>1. Cardinality(Chances(p)') <= Cardinality(Chances(p))
  BY ChancesType, Fewer
<1>2. /\ Cardinality(Chances(p)') \in Nat
      /\ Cardinality(Chances(p)') * (Poll + PassTime) \in Nat
      /\ Behind(p)' \in 0..2 /\ TimeLeft' \in 0..PassTime
  BY NextRemaining
<1>3. Cardinality(Chances(p)') * (Poll + PassTime)
        <= Cardinality(Chances(p)) * (Poll + PassTime)
  BY <1>1, <1>2, RemainingType, Longer
<1>4. Remaining(p)' = Behind(p)' * Poll
                        + Cardinality(Chances(p)') * (Poll + PassTime) + TimeLeft'
  BY DEF Remaining
<1>5. Behind(p)' * Poll <= Behind(p) * Poll
  BY <1>2, RemainingType, LatencyConstants
<1> QED BY <1>2, <1>3, <1>4, <1>5, RemainingType, LatencyConstants DEF Remaining

LEMMA OneChanceLess ==
  ASSUME SweepTypeOK, Order, SweepTypeOK', Order', NEW p \in Watched, NEW x,
         x \in Chances(p), Chances(p)' \subseteq Chances(p) \ {x},
         Behind(p)' <= Behind(p) + 1
  PROVE  Remaining(p)' <= Remaining(p)
<1>1. Cardinality(Chances(p)') + 1 <= Cardinality(Chances(p))
  BY ChancesType, OneFewer
<1>2. /\ Cardinality(Chances(p)') \in Nat
      /\ Cardinality(Chances(p)') * (Poll + PassTime) \in Nat
      /\ Behind(p)' \in 0..2 /\ TimeLeft' \in 0..PassTime
  BY NextRemaining
<1>3. Cardinality(Chances(p)') * (Poll + PassTime) + Poll + PassTime
        <= Cardinality(Chances(p)) * (Poll + PassTime)
  BY <1>1, <1>2, RemainingType, OneLonger
<1>4. Remaining(p)' = Behind(p)' * Poll
                        + Cardinality(Chances(p)') * (Poll + PassTime) + TimeLeft'
  BY DEF Remaining
<1>5. Behind(p)' * Poll <= Behind(p) * Poll + Poll
  BY <1>2, RemainingType, LatencyConstants
<1> QED BY <1>2, <1>3, <1>4, <1>5, RemainingType, LatencyConstants DEF Remaining

LEMMA NoticeRemaining ==
  ASSUME SweepTypeOK, Order, SweepTypeOK', Order', NEW v \in Watched, Notice(v),
         NEW p \in Watched
  PROVE  Remaining(p)' <= Remaining(p)
<1>1. /\ First(v) /\ unvisited' = unvisited \ {v} /\ TimeLeft' = TimeLeft
      /\ v \notin seen /\ v \notin settled
      /\ seen' = seen \union {v} /\ settled' = settled
  BY DEF Notice, Turn, First, fetchVars, Order, TimeLeft
<1>2. Noticed' = Noticed \union {v}
  BY <1>1 DEF Noticed
<1>3. CASE p = v
  <2>1. Behind(p)' <= Behind(p)
    BY <1>1, <1>3 DEF Behind, First
  <2>2. Ahead(p) = {} /\ Ahead(p)' = Watched \ {v}
    BY <1>1, <1>3, Visit DEF Order
  <2>3. Chances(p)' = Ahead(p)' \intersect Noticed'
    BY <1>1, <1>3 DEF Chances
  <2>4. Chances(p) = Ahead(p) \union Noticed
    BY <1>1, <1>3 DEF Chances
  <2>5. Chances(p)' \subseteq Chances(p)
    BY <1>2, <2>2, <2>3, <2>4
  <2> QED BY <1>1, <2>1, <2>5, NoLonger, RemainingType
<1>4. CASE p # v
  <2>1. Behind(p)' = Behind(p)
    BY <1>1, <1>4 DEF Behind
  <2>2. Ahead(p)' = Ahead(p) \ {v} /\ v \in Ahead(p)
    BY <1>1, <1>4, Visit DEF Order
  <2>3. Chances(p)' \subseteq Chances(p)
    BY <1>1, <1>2, <1>4, <2>2 DEF Chances
  <2> QED BY <1>1, <2>1, <2>3, NoLonger, RemainingType
<1> QED BY <1>3, <1>4

LEMMA ActRemaining ==
  ASSUME SweepTypeOK, Order, SweepTypeOK', Order', NEW v \in Watched,
         Skip(v) \/ PassTrusted(v), NEW p \in Watched \ {v}
  PROVE  Remaining(p)' <= Remaining(p)
<1>1. /\ First(v) /\ unvisited' = unvisited \ {v} /\ TimeLeft' = TimeLeft
      /\ seen' = seen /\ settled' = settled \union {v}
  BY DEF Skip, PassTrusted, Turn, First, Wanted, fetchVars, loopVars, TimeLeft
<1>2. Noticed' = Noticed \ {v}
  BY <1>1 DEF Noticed
<1>3. Behind(p)' = Behind(p)
  BY <1>1 DEF Behind
<1>4. Ahead(p)' = Ahead(p) \ {v}
  BY <1>1, Visit DEF Order
<1>5. Chances(p)' \subseteq Chances(p)
  BY <1>1, <1>2, <1>4 DEF Chances
<1> QED BY <1>1, <1>3, <1>5, NoLonger, RemainingType

\* A pass that fetches is over: it was one of the chances of every other
\* plugin, and so is paid for.
LEMMA EndRemaining ==
  ASSUME SweepTypeOK, Order, SweepTypeOK', Order', EndFetch, NEW p \in Watched \ {now}
  PROVE  Remaining(p)' <= Remaining(p) /\ now \notin Chances(p)'
<1>1. now \in Watched /\ First(now) /\ unvisited' = unvisited \ {now}
  BY DEF EndFetch, EndPass, First, Order, SweepTypeOK
<1>2. Ahead(p)' = Ahead(p) \ {now} /\ now \in Ahead(p)
  BY <1>1, Visit DEF Order
<1>3. seen = {} \/ (seen = Watched /\ (now \in Noticed \/ settled = Watched))
  <2>1. now # 0
    BY <1>1 DEF Watched
  <2> QED BY <2>1 DEF Order
<1>4. now \in Chances(p)
  BY <1>2, <1>3 DEF Chances, Order
<1>5. CASE seen' = {now} /\ settled' = {now}
  <2>1. Chances(p)' = Ahead(p) \ {now}
    BY <1>2, <1>5 DEF Chances, Noticed
  <2>2. Ahead(p) \subseteq Chances(p)
    <3>1. CASE p \in settled \/ p \notin seen
      BY <3>1 DEF Chances, Order
    <3>2. CASE p \in seen \ settled
      <4>1. now \in Noticed /\ p \in Noticed
        BY <1>3, <3>2 DEF Noticed
      <4>2. ASSUME NEW q \in Ahead(p) PROVE q \in Noticed
        <5>1. q \in Watched /\ Before(q, p)
          BY <4>2 DEF Ahead
        <5>2. q # now => Before(now, q)
          BY <1>1, <5>1, FirstIsFirst
        <5> QED BY <4>1, <5>1, <5>2 DEF Order
      <4> QED BY <3>2, <4>2 DEF Chances
    <3> QED BY <3>1, <3>2
  <2>3. Behind(p)' <= Behind(p) + 1
    BY <1>1 DEF Behind
  <2> QED BY <1>4, <2>1, <2>2, <2>3, OneChanceLess
<1>6. CASE seen' = seen \union {now} /\ settled' = settled \union {now}
  <2>1. Noticed' = Noticed \ {now}
    BY <1>6 DEF Noticed
  <2>2. Chances(p)' \subseteq Chances(p) \ {now}
    BY <1>2, <1>6, <2>1 DEF Chances
  <2>3. Behind(p)' = Behind(p)
    BY <1>1, <1>6 DEF Behind
  <2> QED BY <1>4, <2>2, <2>3, OneChanceLess, RemainingType
<1> QED BY <1>5, <1>6 DEF EndFetch

\* What nothing of the order changes in only takes time.
LEMMA TimeRemaining ==
  ASSUME SweepTypeOK, Order, SweepTypeOK', Order', NEW p \in Watched
  PROVE  /\ TimePasses => Remaining(p)' + left <= Remaining(p)
         /\ NextTag \/ AwaitLock \/ (\E v \in Watched : BeginFetch(v)) =>
               Remaining(p)' <= Remaining(p)
         /\ Sleep => Remaining(p)' + Poll <= Remaining(p)
<1>1. CASE TimePasses
  <2>1. /\ UNCHANGED <<unvisited, seen, settled>> /\ Noticed' = Noticed
        /\ TimeLeft' = TimeLeft - left /\ left \in 0..TimeLeft
    BY <1>1, LatencyConstants DEF TimePasses, loopVars, Noticed, SweepTypeOK, TimeLeft
  <2>2. Chances(p)' = Chances(p) /\ Behind(p)' = Behind(p)
    BY <2>1, SameOrder DEF Chances, Behind
  <2>3. Remaining(p)' = Behind(p) * Poll
                          + Cardinality(Chances(p)) * (Poll + PassTime) + TimeLeft'
    BY <2>2 DEF Remaining
  <2>4. Remaining(p)' + left = Remaining(p)
    BY <2>1, <2>3, RemainingType, LatencyConstants DEF Remaining
  <2> QED
    BY <1>1, <2>1, <2>4, RemainingType
    DEF TimePasses, NextTag, AwaitLock, BeginFetch, Sleep, Turn, Order
<1>2. CASE NextTag \/ AwaitLock \/ \E v \in Watched : BeginFetch(v)
  <2>1. UNCHANGED <<unvisited, seen, settled>> /\ Noticed' = Noticed
    BY <1>2 DEF NextTag, AwaitLock, BeginFetch, loopVars, Noticed, Turn
  <2>0. TimeLeft' <= TimeLeft
    <3>1. /\ budget \in 0..(IF stage = 3 THEN Wait ELSE Fetch)
          /\ TimeLeft = IF stage = 3 THEN budget ELSE budget + Wait
          /\ TimeLeft' = IF stage' = 3 THEN budget' ELSE budget' + Wait
      BY DEF SweepTypeOK, TimeLeft
    <3>2. CASE NextTag
      BY <3>1, <3>2, LatencyConstants DEF NextTag
    <3>3. CASE AwaitLock
      BY <3>1, <3>3, LatencyConstants DEF AwaitLock
    <3>4. ASSUME NEW v \in Watched, BeginFetch(v) PROVE TimeLeft' <= TimeLeft
      BY <3>1, <3>4, LatencyConstants DEF BeginFetch, Turn, Order
    <3> QED BY <1>2, <3>2, <3>3, <3>4
  <2>2. Chances(p)' = Chances(p) /\ Behind(p)' = Behind(p)
    BY <2>1, SameOrder DEF Chances, Behind
  <2>3. Remaining(p)' <= Remaining(p)
    BY <2>0, <2>2, NoLonger, RemainingType
  <2>4. ~TimePasses /\ ~Sleep
    BY <1>2 DEF NextTag, AwaitLock, BeginFetch, TimePasses, Sleep, Turn, Order, SweepTypeOK
  <2> QED BY <2>3, <2>4
<1>3. CASE Sleep
  <2>1. /\ UNCHANGED <<seen, settled, TimeLeft>> /\ Noticed' = Noticed
        /\ unvisited = {} /\ unvisited' = Watched
    BY <1>3 DEF Sleep, fetchVars, loopVars, Noticed, TimeLeft
  <2>2. Chances(p)' = Chances(p) /\ Behind(p)' = Behind(p) - 1
    BY <2>1, SweepOrder DEF Chances, Behind
  <2>3. Remaining(p)' = (Behind(p) - 1) * Poll
                          + Cardinality(Chances(p)) * (Poll + PassTime) + TimeLeft
    BY <2>1, <2>2 DEF Remaining
  <2>4. Remaining(p)' + Poll = Remaining(p)
    BY <2>1, <2>3, RemainingType, LatencyConstants DEF Remaining
  <2>5. ~TimePasses /\ ~NextTag /\ ~AwaitLock /\ ~(\E v \in Watched : BeginFetch(v))
    BY <1>3 DEF NextTag, AwaitLock, BeginFetch, TimePasses, Sleep, Turn, Order, SweepTypeOK
  <2>6. Remaining(p)' \in Nat
    BY NextRemaining
  <2> QED BY <2>4, <2>5, <2>6, RemainingType, LatencyConstants
<1> QED BY <1>1, <1>2, <1>3
LEMMA StutterRemaining ==
  ASSUME SweepTypeOK, Order, SweepTypeOK', Order', UNCHANGED sweepVars, NEW p \in Watched
  PROVE  Remaining(p)' <= Remaining(p)
<1>1. UNCHANGED <<unvisited, seen, settled, TimeLeft>> /\ Noticed' = Noticed
  BY DEF sweepVars, fetchVars, loopVars, Noticed, TimeLeft
<1>2. Chances(p)' = Chances(p) /\ Behind(p)' = Behind(p)
  BY <1>1, SameOrder DEF Chances, Behind
<1> QED BY <1>1, <1>2, NoLonger, RemainingType

\* The visits at which p is left as it is, whatever they do to another.
LEMMA OthersTurn ==
  ASSUME SweepTypeOK, Order, SweepTypeOK', Order', NEW p \in Watched,
         \/ \E v \in Watched : Notice(v) \/ BeginFetch(v)
         \/ \E v \in Watched \ {p} : Skip(v) \/ PassTrusted(v)
         \/ NextTag \/ AwaitLock
         \/ EndFetch /\ p # now
         \/ UNCHANGED sweepVars
  PROVE  Remaining(p)' <= Remaining(p)
<1>1. ASSUME NEW v \in Watched, Notice(v) PROVE Remaining(p)' <= Remaining(p)
  BY <1>1, NoticeRemaining
<1>2. CASE NextTag \/ AwaitLock \/ \E v \in Watched : BeginFetch(v)
  BY <1>2, TimeRemaining
<1>3. ASSUME NEW v \in Watched \ {p}, Skip(v) \/ PassTrusted(v)
      PROVE  Remaining(p)' <= Remaining(p)
  BY <1>3, ActRemaining
<1>4. CASE EndFetch /\ p # now
  BY <1>4, EndRemaining
<1>5. CASE UNCHANGED sweepVars
  BY <1>5, StutterRemaining
<1> QED BY <1>1, <1>2, <1>3, <1>4, <1>5

LEMMA Time ==
  ASSUME SweepTypeOK, Order, SweepTypeOK', Order', TimePasses \/ Sleep
  PROVE  \E units \in Nat :
            /\ Elapse(units)
            /\ UNCHANGED <<settled, errors, lost>>
            /\ \A p \in Watched : Remaining(p)' + units <= Remaining(p)
<1>1. CASE TimePasses
  <2>1. left \in Nat
    BY DEF SweepTypeOK
  <2> QED BY <1>1, <2>1, TimeRemaining DEF TimePasses, loopVars
<1>2. CASE Sleep
  BY <1>2, TimeRemaining, LatencyConstants DEF Sleep, loopVars
<1> QED BY <1>1, <1>2

-----------------------------------------------------------------------------
LEMMA InitNotDue == SweepInit => NotDue
  BY DEF SweepInit, NotDue

LEMMA StepNotDue == SweepTypeOK /\ Order /\ NotDue /\ [SweepNext]_sweepVars => NotDue'
<1> SUFFICES ASSUME SweepTypeOK, Order, NotDue, [SweepNext]_sweepVars,
                    NEW p \in Watched \ settled', NEW q \in settled' \intersect errors'
             PROVE  retryIn'[q] > Remaining(p)'
  BY DEF NotDue
<1>0. SweepTypeOK' /\ Order'
  BY StepLatencyTypes, StepOrder
<1>1. q \in Watched /\ Remaining(p) \in Nat /\ Remaining(p)' \in Nat /\ retryIn[q] \in Nat
  BY <1>0, RemainingType, NextRemaining, LatencyConstants DEF SweepTypeOK
<1> DEFINE Kept == p \notin settled /\ q \in settled \intersect errors
<1>2. Kept => retryIn[q] > Remaining(p)
  BY DEF NotDue
<1>3. ASSUME Kept, retryIn' = retryIn, Remaining(p)' <= Remaining(p)
      PROVE  retryIn'[q] > Remaining(p)'
  BY <1>1, <1>2, <1>3
<1> HIDE DEF Kept
<1>4. ASSUME NEW v \in Watched, Notice(v) \/ BeginFetch(v)
      PROVE  retryIn'[q] > Remaining(p)'
  <2>1. Kept /\ retryIn' = retryIn
    BY <1>4 DEF Notice, BeginFetch, loopVars, Kept
  <2> QED BY <1>0, <1>3, <1>4, <2>1, OthersTurn
<1>5. ASSUME NEW v \in Watched, Skip(v) \/ PassTrusted(v)
      PROVE  retryIn'[q] > Remaining(p)'
  <2>1. Kept /\ retryIn' = retryIn /\ v # p
    BY <1>5 DEF Skip, PassTrusted, Wanted, loopVars, Kept
  <2> QED BY <1>0, <1>3, <1>5, <2>1, OthersTurn
<1>6. CASE TimePasses \/ Sleep
  <2>1. PICK units \in Nat :
            /\ Elapse(units)
            /\ UNCHANGED <<settled, errors, lost>>
            /\ \A r \in Watched : Remaining(r)' + units <= Remaining(r)
    BY <1>0, <1>6, Time
  <2>2. Kept
    BY <2>1 DEF Kept
  <2>3. retryIn[q] - units <= retryIn'[q] /\ retryIn'[q] \in Nat
    BY <1>1, <2>1, ElapseTypes, LatencyConstants
  <2> QED BY <1>1, <1>2, <2>1, <2>2, <2>3
<1>7. CASE NextTag \/ AwaitLock
  <2>1. Kept /\ retryIn' = retryIn
    BY <1>7 DEF NextTag, AwaitLock, loopVars, Kept
  <2> QED BY <1>0, <1>3, <1>7, <2>1, OthersTurn
<1>8. CASE EndFetch
  <2>1. PICK written \in BOOLEAN :
          /\ EndPass(written)
          /\ settled' = IF written THEN {now} ELSE settled \union {now}
    BY <1>8 DEF EndFetch
  <2>2. ~written
    BY <2>1 DEF EndPass
  <2>3. /\ p # now /\ p \notin settled /\ now \in Watched
        /\ retryIn' = [retryIn EXCEPT ![now] = Retry]
        /\ errors' = errors \union {now}
    BY <2>1, <2>2 DEF EndPass, SweepTypeOK
  <2>4. Remaining(p)' <= Remaining(p) /\ now \notin Chances(p)'
    BY <1>0, <1>8, <2>3, EndRemaining
  <2>5. CASE q = now
    <3>1. retryIn'[q] = Retry
      BY <2>3, <2>5 DEF SweepTypeOK
    <3>2. Remaining(p)' < LatencyBound
      BY <1>0, <2>3, <2>4, NextRemainingBound
    <3> QED BY <1>1, <3>1, <3>2, LatencyConstants
  <2>6. CASE q # now
    <3>1. Kept /\ retryIn'[q] = retryIn[q]
      BY <2>1, <2>2, <2>3, <2>6 DEF Kept, SweepTypeOK
    <3> QED BY <1>1, <1>2, <2>4, <3>1
  <2> QED BY <2>5, <2>6
<1>9. ASSUME NEW plugins \in SUBSET Watched, Lose(plugins) PROVE FALSE
  BY <1>9 DEF Lose
<1>10. CASE UNCHANGED sweepVars
  <2>1. Kept /\ retryIn' = retryIn
    BY <1>10 DEF sweepVars, loopVars, Kept
  <2> QED BY <1>0, <1>3, <1>10, <2>1, OthersTurn
<1> QED BY <1>4, <1>5, <1>6, <1>7, <1>8, <1>9, <1>10 DEF SweepNext

-----------------------------------------------------------------------------
LEMMA InitQuiet == SweepInit => QuietInTime
<1> SUFFICES ASSUME SweepInit, NEW p \in Watched PROVE quiet[p] + Remaining(p) < QuietBound
  BY DEF QuietInTime
<1>1. quiet[p] = 0 /\ Chances(p) \subseteq Watched \ {p} /\ Behind(p) = 1 /\ TimeLeft = PassTime
  BY LatencyConstants DEF SweepInit, TimeLeft, PassTime, Zero, Chances, Ahead, Before, Behind, Watched
<1>2. Cardinality(Chances(p)) + 1 <= K
  BY <1>1, OneFewer, FinitePlugins
<1>3. Cardinality(Chances(p)) \in Nat
  BY <1>1, FinitePlugins
<1>4. Cardinality(Chances(p)) * (Poll + PassTime) <= (K - 1) * (Poll + PassTime)
  BY <1>2, <1>3, Longer, LatencyConstants
<1>5. /\ (K - 1) * (Poll + PassTime) \in Nat
      /\ Cardinality(Chances(p)) * (Poll + PassTime) \in Nat
  BY <1>3, ProductType, LatencyConstants
<1> QED BY <1>1, <1>4, <1>5, LatencyConstants DEF Remaining

LEMMA StepQuiet ==
  SweepTypeOK /\ Order /\ NotDue /\ QuietInTime /\ [SweepNext]_sweepVars => QuietInTime'
<1> SUFFICES ASSUME SweepTypeOK, Order, NotDue, QuietInTime, [SweepNext]_sweepVars,
                    NEW p \in Watched
             PROVE  quiet'[p] + Remaining(p)' < QuietBound
  BY LatencyConstants DEF QuietInTime, QuietBound
<1>0. SweepTypeOK' /\ Order'
  BY StepLatencyTypes, StepOrder
<1>1. /\ Remaining(p) \in Nat /\ Remaining(p)' \in Nat
      /\ quiet[p] \in Nat /\ quiet[p] + Remaining(p) < QuietBound
  BY <1>0, RemainingType, NextRemaining DEF SweepTypeOK, QuietInTime
<1>2. ASSUME quiet'[p] = quiet[p], Remaining(p)' <= Remaining(p)
      PROVE  quiet'[p] + Remaining(p)' < QuietBound
  BY <1>1, <1>2, LatencyConstants
\* Its record has just been written, or needed no heartbeat.
<1>3. ASSUME quiet'[p] \in Nat, quiet'[p] < Heartbeat, p \in settled'
      PROVE  quiet'[p] + Remaining(p)' < QuietBound
  <2>1. Remaining(p)' + Poll <= LatencyBound
    BY <1>0, <1>3, NextRemainingBound
  <2>2. QuietBound + Poll = Heartbeat + LatencyBound
    BY LatencyConstants DEF LatencyBound, QuietBound
  <2> QED BY <1>1, <1>3, <2>1, <2>2, LatencyConstants
<1>4. ASSUME NEW v \in Watched, Notice(v) \/ BeginFetch(v)
      PROVE  quiet'[p] + Remaining(p)' < QuietBound
  BY <1>0, <1>2, <1>4, OthersTurn DEF Notice, BeginFetch
<1>5. ASSUME NEW v \in Watched, Skip(v) \/ PassTrusted(v)
      PROVE  quiet'[p] + Remaining(p)' < QuietBound
  <2>1. CASE p = v
    <3>1. p \in settled'
      BY <1>5, <2>1 DEF Skip, PassTrusted, Wanted, loopVars
    <3>2. quiet'[p] \in Nat /\ quiet'[p] < Heartbeat
      BY <1>1, <1>5, <2>1, LatencyConstants DEF Skip, PassTrusted, SweepTypeOK
    <3> QED BY <1>3, <3>1, <3>2
  <2>2. CASE p # v
    <3>1. quiet'[p] = quiet[p]
      BY <1>5, <2>2 DEF Skip, PassTrusted, SweepTypeOK
    <3> QED BY <1>0, <1>2, <1>5, <2>2, <3>1, OthersTurn
  <2> QED BY <2>1, <2>2
<1>6. CASE TimePasses \/ Sleep
  <2>1. PICK units \in Nat :
            /\ Elapse(units)
            /\ \A r \in Watched : Remaining(r)' + units <= Remaining(r)
    BY <1>0, <1>6, Time
  <2>2. quiet'[p] = quiet[p] + units
    BY <2>1, ElapseTypes
  <2> QED BY <1>1, <2>1, <2>2, LatencyConstants
<1>7. CASE NextTag \/ AwaitLock
  BY <1>0, <1>2, <1>7, OthersTurn DEF NextTag, AwaitLock
<1>8. CASE EndFetch
  <2>1. quiet' = [quiet EXCEPT ![now] = 0] /\ now \in settled'
    BY <1>8 DEF EndFetch, EndPass
  <2>2. CASE p = now
    <3>1. quiet'[p] = 0
      BY <2>1, <2>2 DEF SweepTypeOK
    <3> QED BY <1>3, <2>1, <2>2, <3>1, LatencyConstants
  <2>3. CASE p # now
    <3>1. quiet'[p] = quiet[p]
      BY <2>1, <2>3 DEF SweepTypeOK
    <3> QED BY <1>0, <1>2, <1>8, <2>3, <3>1, OthersTurn
  <2> QED BY <2>2, <2>3
<1>9. ASSUME NEW plugins \in SUBSET Watched, Lose(plugins)
      PROVE  quiet'[p] + Remaining(p)' < QuietBound
  <2>1. quiet'[p] = 0
    BY <1>9 DEF Lose, Zero
  <2>2. Remaining(p)' <= LatencyBound
    BY <1>0, NextRemainingBound
  <2>3. LatencyBound < QuietBound
    BY LatencyConstants DEF LatencyBound, QuietBound
  <2> QED BY <1>1, <2>1, <2>2, <2>3, LatencyConstants
<1>10. CASE UNCHANGED sweepVars
  BY <1>0, <1>2, <1>10, OthersTurn DEF sweepVars
<1> QED BY <1>4, <1>5, <1>6, <1>7, <1>8, <1>9, <1>10 DEF SweepNext

-----------------------------------------------------------------------------
LEMMA InitLost == SweepInit => LostInTime
  BY LatencyConstants DEF SweepInit, LostInTime

LEMMA StepLost ==
  SweepTypeOK /\ Order /\ NotDue /\ LostInTime /\ [SweepNext]_sweepVars => LostInTime'
<1> SUFFICES ASSUME SweepTypeOK, Order, NotDue, LostInTime, [SweepNext]_sweepVars
             PROVE  LostInTime'
  OBVIOUS
<1>0. SweepTypeOK' /\ Order'
  BY StepLatencyTypes, StepOrder
<1>1. /\ age \in Nat /\ lost \subseteq Watched \ trusted /\ lost' \subseteq Watched
      /\ \A p \in Watched : Remaining(p) \in Nat /\ Remaining(p)' \in Nat
  BY <1>0, RemainingType, NextRemaining DEF SweepTypeOK
<1>2. LatencyBound \in Nat
  BY LatencyConstants
<1>3. ASSUME age' = age, lost' \subseteq lost,
             \A p \in lost' : p \notin settled' /\ Remaining(p)' <= Remaining(p)
      PROVE  LostInTime'
  <2>1. age' <= LatencyBound
    BY <1>3 DEF LostInTime
  <2>2. ASSUME NEW p \in lost' PROVE age' + Remaining(p)' <= LatencyBound
    BY <1>1, <1>2, <1>3, <2>2 DEF LostInTime
  <2> QED BY <1>3, <2>1, <2>2, <1>2 DEF LostInTime, LatencyBound
<1>4. ASSUME NEW v \in Watched, Notice(v) \/ BeginFetch(v) PROVE LostInTime'
  <2>1. age' = age /\ lost' = lost /\ settled' = settled
    BY <1>4 DEF Notice, BeginFetch, loopVars
  <2>2. \A p \in lost' : p \notin settled' /\ Remaining(p)' <= Remaining(p)
    BY <1>0, <1>1, <1>4, <2>1, OthersTurn DEF LostInTime
  <2> QED BY <1>3, <2>1, <2>2
<1>5. ASSUME NEW v \in Watched, Skip(v) \/ PassTrusted(v) PROVE LostInTime'
  <2>1. age' = age /\ lost' = lost /\ settled' = settled \union {v}
    BY <1>5 DEF Skip, PassTrusted, Wanted, loopVars
  <2>2. v \notin lost
    BY <1>1, <1>5 DEF Skip, PassTrusted, Wanted, LostInTime
  <2>3. \A p \in lost' : p \notin settled' /\ Remaining(p)' <= Remaining(p)
    BY <1>0, <1>1, <1>5, <2>1, <2>2, OthersTurn DEF LostInTime
  <2> QED BY <1>3, <2>1, <2>3
<1>6. CASE TimePasses \/ Sleep
  <2>1. PICK units \in Nat :
            /\ Elapse(units)
            /\ UNCHANGED <<settled, errors, lost>>
            /\ \A p \in Watched : Remaining(p)' + units <= Remaining(p)
    BY <1>0, <1>6, Time
  <2>2. CASE lost = {}
    BY <1>2, <2>1, <2>2 DEF Elapse, LostInTime, LatencyBound
  <2>3. CASE lost # {}
    <3>1. age' = age + units
      BY <2>1, <2>3 DEF Elapse
    <3>2. \A p \in lost : age' + Remaining(p)' <= LatencyBound /\ p \notin settled
      BY <1>1, <1>2, <2>1, <3>1 DEF LostInTime
    <3>3. age' <= LatencyBound
      BY <1>1, <1>2, <2>3, <3>1, <3>2
    <3> QED BY <2>1, <3>2, <3>3 DEF LostInTime, LatencyBound
  <2> QED BY <2>2, <2>3
<1>7. CASE NextTag \/ AwaitLock
  <2>1. age' = age /\ lost' = lost /\ settled' = settled
    BY <1>7 DEF NextTag, AwaitLock, loopVars
  <2>2. \A p \in lost' : p \notin settled' /\ Remaining(p)' <= Remaining(p)
    BY <1>0, <1>1, <1>7, <2>1, OthersTurn DEF LostInTime
  <2> QED BY <1>3, <2>1, <2>2
<1>8. CASE EndFetch
  <2>1. age' = age /\ lost' = lost \ {now} /\ settled' \subseteq settled \union {now}
    BY <1>8 DEF EndFetch, EndPass
  <2>2. \A p \in lost' : p \notin settled' /\ Remaining(p)' <= Remaining(p)
    BY <1>0, <1>1, <1>8, <2>1, OthersTurn DEF LostInTime
  <2> QED BY <1>3, <2>1, <2>2
<1>9. ASSUME NEW plugins \in SUBSET Watched, Lose(plugins) PROVE LostInTime'
  <2>1. age' = 0 /\ settled' = {}
    BY <1>9 DEF Lose
  <2>2. \A p \in lost' : Remaining(p)' <= LatencyBound
    BY <1>0, <1>1, NextRemainingBound
  <2> QED BY <1>1, <1>2, <2>1, <2>2 DEF LostInTime, LatencyBound
<1>10. CASE UNCHANGED sweepVars
  <2>1. age' = age /\ lost' = lost /\ settled' = settled
    BY <1>10 DEF sweepVars, loopVars
  <2>2. \A p \in lost' : p \notin settled' /\ Remaining(p)' <= Remaining(p)
    BY <1>0, <1>1, <1>10, <2>1, OthersTurn DEF LostInTime
  <2> QED BY <1>3, <2>1, <2>2
<1> QED BY <1>4, <1>5, <1>6, <1>7, <1>8, <1>9, <1>10 DEF SweepNext

-----------------------------------------------------------------------------
\* Of the observer of one plugin nothing of this changes.
LEMMA InitTiming == ObserverInit => TimingInv
  BY InitLatencyTypes, InitOrder, InitNotDue, InitQuiet, InitLost
  DEF ObserverInit, TimingInv

LEMMA StepTiming == TimingInv /\ [ObserverNext]_<<settleVars, sweepVars>> => TimingInv'
<1> SUFFICES ASSUME TimingInv, [ObserverNext]_<<settleVars, sweepVars>> PROVE TimingInv'
  OBVIOUS
<1>1. [SweepNext]_sweepVars
  BY DEF ObserverNext
<1> QED BY <1>1, StepLatencyTypes, StepOrder, StepNotDue, StepQuiet, StepLost DEF TimingInv

\* Types and order of the observer of all plugins, however many there are and
\* whatever the intervals, the budget and the order of the losses.
THEOREM LatencyTypeCorrect == ObserverSpec => []SweepTypeOK
<1>1. TimingInv => SweepTypeOK
  BY DEF TimingInv
<1> QED BY <1>1, InitTiming, StepTiming, PTL DEF ObserverSpec

\* Trust that Codex withdrew is restored or reported within LatencyBound of
\* the last withdrawal: a fetch that fails, a retry that falls due and the
\* writes of trust for other plugins are all paid for by it.
THEOREM RepairsInTime == ObserverSpec => []RepairedInTime
<1>1. TimingInv => RepairedInTime
  BY DEF TimingInv, LostInTime, RepairedInTime
<1> QED BY <1>1, InitTiming, StepTiming, PTL DEF ObserverSpec

\* No plugin's status record is without a heartbeat for QuietBound, a plugin
\* whose last pass failed and one that waits for the fetches of others
\* included.
THEOREM HeartbeatsInTime == ObserverSpec => []HeartbeatInTime
<1>1. TimingInv => HeartbeatInTime
  <2> SUFFICES ASSUME TimingInv, NEW p \in Watched PROVE quiet[p] < QuietBound
    BY DEF HeartbeatInTime
  <2>1. quiet[p] \in Nat /\ Remaining(p) \in Nat /\ quiet[p] + Remaining(p) < QuietBound
    BY RemainingType DEF TimingInv, SweepTypeOK, QuietInTime
  <2> QED BY <2>1, LatencyConstants
<1> QED BY <1>1, InitTiming, StepTiming, PTL DEF ObserverSpec

-----------------------------------------------------------------------------
(***************************************************************************)
(* The loop over one plugin.                                               *)
(***************************************************************************)
Labels == {"watch", "sleep", "snapshot", "pause", "validate", "reconcile"}

SettleTypes ==
    /\ mode \in {"all", "one"}
    /\ pc \in Labels
    /\ mark \in Nat \ {0} /\ whole \in BOOLEAN /\ deep \in BOOLEAN /\ writes \in Nat
    /\ baseline \in 0..mark /\ previous \in 0..mark
    /\ waited \in Nat /\ failed \in BOOLEAN /\ silent \in Nat

\* How long the loop has been silent, by where it stands.
Silence ==
    /\ pc = "sleep" => silent < Heartbeat
    /\ pc = "watch" => silent < Heartbeat + Poll
    /\ pc \in {"snapshot", "pause", "validate", "reconcile"} =>
         silent < Heartbeat + Poll + waited
    /\ pc = "snapshot" => waited < Settle + Poll
    /\ pc \in {"pause", "validate", "reconcile"} => waited < Settle

\* While the signature is the one the wait began with, it has been read once
\* and then found the same, and the payload found incomplete, at every poll.
Waiting ==
    mark = baseline =>
        /\ pc = "snapshot" =>
             \/ previous = 0 /\ waited = 0
             \/ previous = mark /\ waited = Poll
             \/ previous = mark /\ (deep \/ ~whole)
        /\ pc = "pause" => previous = mark /\ (waited = 0 \/ deep \/ ~whole)
        /\ pc = "validate" => previous = mark

SettleInv == SettleTypes /\ Silence /\ Waiting /\ ReportOfPresent

-----------------------------------------------------------------------------
LEMMA SettleConstants ==
    /\ Poll \in Nat /\ Poll > 0 /\ Heartbeat \in Nat /\ Heartbeat > 0
    /\ Settle \in Nat /\ Settle > Poll
  BY LatencyAssumption, SettleAssumption

LEMMA InitSettle == SettleInit => SettleInv
<1> SUFFICES ASSUME SettleInit PROVE SettleInv
  OBVIOUS
<1>1. SettleTypes
  <2>1. deep \in BOOLEAN /\ failed \in BOOLEAN /\ whole \in BOOLEAN
    BY Zenon DEF SettleInit
  <2> QED BY <2>1 DEF SettleInit, SettleTypes, Labels
<1>2. Silence
  BY SettleConstants DEF SettleInit, Silence
<1>3. mark # baseline
  BY DEF SettleInit
<1> QED BY <1>1, <1>2, <1>3 DEF SettleInv, Waiting, ReportOfPresent

\* Each action of run_loop, and Codex's.
LEMMA WatchKeeps == SettleInv /\ mode' = mode /\ (Unchanged \/ Changed) => SettleInv'
<1> SUFFICES ASSUME SettleInv, mode' = mode, Unchanged \/ Changed PROVE SettleInv'
  OBVIOUS
<1> USE DEF SettleInv
<1>1. SettleTypes'
  BY DEF Unchanged, Changed, cacheVars, SettleTypes, Labels
<1>2. Silence'
  BY SettleConstants DEF Unchanged, Changed, cacheVars, SettleTypes, Silence
<1>3. Waiting'
  BY DEF Unchanged, Changed, cacheVars, Waiting
<1>4. ReportOfPresent'
  BY DEF Unchanged, Changed, cacheVars, ReportOfPresent
<1> QED BY <1>1, <1>2, <1>3, <1>4

LEMMA SnapshotKeeps == SettleInv /\ mode' = mode /\ Snapshot => SettleInv'
<1> SUFFICES ASSUME SettleInv, mode' = mode, Snapshot PROVE SettleInv'
  OBVIOUS
<1> USE DEF SettleInv
<1>1. SettleTypes'
  BY DEF Snapshot, cacheVars, SettleTypes, Labels
<1>2. Silence'
  BY SettleConstants DEF Snapshot, cacheVars, SettleTypes, Silence
<1>3. Waiting'
  BY SettleConstants DEF Snapshot, cacheVars, SettleTypes, Waiting
<1>4. ReportOfPresent'
  BY DEF Snapshot, cacheVars, ReportOfPresent
<1> QED BY <1>1, <1>2, <1>3, <1>4

LEMMA ValidateKeeps == SettleInv /\ mode' = mode /\ Validate => SettleInv'
<1> SUFFICES ASSUME SettleInv, mode' = mode, Validate PROVE SettleInv'
  OBVIOUS
<1> USE DEF SettleInv
<1>1. SettleTypes'
  BY DEF Validate, SettleTypes, Labels
<1>2. Silence'
  BY SettleConstants DEF Validate, SettleTypes, Silence
<1>3. Waiting'
  BY DEF Validate, Waiting
<1>4. ReportOfPresent'
  BY DEF Validate, ReportOfPresent
<1> QED BY <1>1, <1>2, <1>3, <1>4

\* Giving up is right: when the signature has not changed, what was found
\* incomplete at the last poll still is, unless it was changed below.
LEMMA PassKeeps == SettleInv /\ mode' = mode /\ (GiveUp \/ Reconcile) => SettleInv'
<1> SUFFICES ASSUME SettleInv, mode' = mode, GiveUp \/ Reconcile PROVE SettleInv'
  OBVIOUS
<1> USE DEF SettleInv
<1>1. SettleTypes'
  <2>1. failed' \in BOOLEAN
    BY Zenon DEF GiveUp, Reconcile, EndsPass
  <2>2. deep' \in BOOLEAN
    BY Zenon DEF GiveUp, Reconcile, SettleTypes
  <2>3. UNCHANGED <<mark, whole, writes, baseline, previous, waited>>
        /\ silent' = 0 /\ pc' = "sleep"
    BY DEF GiveUp, Reconcile, EndsPass
  <2> QED BY <2>1, <2>2, <2>3 DEF SettleTypes, Labels
<1>2. Silence'
  BY SettleConstants DEF GiveUp, Reconcile, EndsPass, Silence
<1>3. Waiting'
  BY DEF GiveUp, Reconcile, EndsPass, Waiting
<1>4. CASE GiveUp
  <2>1. mark = baseline => deep \/ ~whole
    BY <1>4, SettleConstants DEF GiveUp, SettleTypes, Waiting
  <2> QED BY <1>4, <2>1, <1>1, <1>2, <1>3
          DEF GiveUp, EndsPass, SettleTypes, ReportOfPresent
<1>5. CASE Reconcile
  BY <1>5, <1>1, <1>2, <1>3 DEF Reconcile, EndsPass, SettleTypes, ReportOfPresent
<1> QED BY <1>4, <1>5

LEMMA PauseKeeps == SettleInv /\ mode' = mode /\ Pause => SettleInv'
<1> SUFFICES ASSUME SettleInv, mode' = mode, Pause PROVE SettleInv'
  OBVIOUS
<1> USE SettleConstants DEF SettleInv
<1>1. SettleTypes'
  BY DEF Pause, cacheVars, SettleTypes, Labels
<1>2. Silence'
  BY DEF Pause, cacheVars, SettleTypes, Silence
<1>3. Waiting'
  BY DEF Pause, cacheVars, SettleTypes, Waiting
<1>4. ReportOfPresent'
  BY DEF Pause, cacheVars, ReportOfPresent
<1> QED BY <1>1, <1>2, <1>3, <1>4

LEMMA CodexKeeps ==
  ASSUME SettleInv, mode' = mode, NEW below \in BOOLEAN, CodexWrites(below)
  PROVE  SettleInv'
<1> USE DEF SettleInv
<1>1. SettleTypes'
  BY DEF CodexWrites, SettleTypes, Labels
<1>2. Silence'
  BY DEF CodexWrites, Silence
<1>3. CASE below
  BY <1>1, <1>2, <1>3 DEF CodexWrites, Waiting, ReportOfPresent, SettleTypes
<1>4. CASE ~below
  <2>1. mark' # baseline'
    BY <1>4 DEF CodexWrites, SettleTypes
  <2> QED BY <1>1, <1>2, <2>1 DEF Waiting, ReportOfPresent
<1> QED BY <1>3, <1>4

LEMMA StepSettle == SettleInv /\ [ObserverNext]_<<settleVars, sweepVars>> => SettleInv'
<1> SUFFICES ASSUME SettleInv, [ObserverNext]_<<settleVars, sweepVars>> PROVE SettleInv'
  OBVIOUS
<1>1. ASSUME UNCHANGED settleVars PROVE SettleInv'
  BY <1>1 DEF settleVars, cacheVars, SettleInv, SettleTypes, Silence, Waiting,
              ReportOfPresent
<1>2. ASSUME SettleNext, mode' = mode PROVE SettleInv'
  BY <1>2, WatchKeeps, SnapshotKeeps, ValidateKeeps, PassKeeps, PauseKeeps, CodexKeeps
     DEF SettleNext
<1> QED BY <1>1, <1>2 DEF ObserverNext

LEMMA SettleInvariant == ObserverSpec => []SettleInv
<1>1. ObserverInit => SettleInv
  BY InitSettle DEF ObserverInit
<1> QED BY <1>1, StepSettle, PTL DEF ObserverSpec

\* run_loop's report is of the payload there is, or Codex has since changed
\* something that its signature does not show.
THEOREM ReportsPresent == ObserverSpec => []ReportOfPresent
<1>1. SettleInv => ReportOfPresent
  BY DEF SettleInv
<1> QED BY <1>1, SettleInvariant, PTL

\* run_loop's record is never without a heartbeat for longer than the bound.
THEOREM SilenceIsBounded == ObserverSpec => []SilenceBounded
<1>1. SettleInv => SilenceBounded
  BY SettleConstants
     DEF SettleInv, SettleTypes, Labels, Silence, SilenceBounded, SilenceBound
<1> QED BY <1>1, SettleInvariant, PTL
================================================================================
