------------------------ MODULE ObserverLoop_proofs ------------------------
(***************************************************************************)
(* Proofs about ObserverLoop, for any number of plugins, any set of them   *)
(* whose reconcile raises, and any number of changes and deaths.           *)
(***************************************************************************)
EXTENDS ObserverLoop, TLAPS

LEMMA InitTypeOK == Init => TypeOK
<1> SUFFICES ASSUME Init PROVE TypeOK
  OBVIOUS
<1>1. AllFalse \in [Plugins -> BOOLEAN]
  BY DEF AllFalse
<1>2. writes \in 0..MaxWrites /\ deaths \in 0..MaxDeaths
  BY BoundsAssumption DEF Init
<1>3. /\ payload \in [Plugins -> Payloads]
      /\ status \in [Plugins -> {"none", "ok", "problem"}]
      /\ since \in [Plugins -> {"never", "nothing", "during", "after"}]
  BY DEF Init, Payloads
<1>4. QED
  BY <1>1, <1>2, <1>3 DEF Init, TypeOK, Changes

\* Dying keeps every variable it touches in its type.
LEMMA DieTypeOK ==
  ASSUME TypeOK, Die, UNCHANGED <<hostVars, status, since, writes>>,
         deaths' \in 0..MaxDeaths
  PROVE  TypeOK'
  BY DEF TypeOK, Die, hostVars, AllFalse, Plugins, Nobody, Changes

\* The pass is about a plugin.
PassTarget == pc \notin {"sweep", "dead"} => now \in Plugins

LEMMA PathsTypeOK ==
  ASSUME TypeOK, PassTarget, Paths
  PROVE  TypeOK' /\ PassTarget'
<1>1. CASE Die
  BY <1>1, DieTypeOK DEF Paths, countVars, TypeOK, Die, PassTarget
<1>2. CASE /\ change' = "none"
           /\ IF payload[now] \in {"gone", "broken"}
              THEN Finish(TRUE)
              ELSE pc' = "trust" /\ UNCHANGED failed
           /\ UNCHANGED <<todo, now, memoryVars>>
  BY <1>2 DEF Paths, TypeOK, PassTarget, Finish, hostVars, memoryVars,
              countVars, Changes
<1>3. QED
  BY <1>1, <1>2 DEF Paths

LEMMA WriteTrustTypeOK ==
  ASSUME TypeOK, PassTarget, WriteTrust
  PROVE  TypeOK' /\ PassTarget'
<1>1. PassTarget'
  BY DEF PassTarget, WriteTrust
<1>2. /\ pc' = "refresh" /\ failed' \in BOOLEAN
      /\ UNCHANGED <<payload, recognized, reachable, errors, due>>
  BY DEF WriteTrust, Finish, hostVars, memoryVars
<1>3. /\ trusted' \in [Plugins -> BOOLEAN]
      /\ change' \in Changes
      /\ seen' \in [Plugins -> BOOLEAN]
      /\ settled' \in [Plugins -> BOOLEAN]
  <2>1. CASE UNCHANGED <<hostVars, change, memoryVars>>
    BY <2>1 DEF TypeOK, hostVars, memoryVars
  <2>2. ASSUME NEW verified \in BOOLEAN,
               trusted' = [trusted EXCEPT ![now] = verified],
               change' = IF verified THEN "none" ELSE change,
               IF verified /\ trusted[now] THEN UNCHANGED <<seen, settled>>
               ELSE seen' = AllFalse /\ settled' = AllFalse
        PROVE  /\ trusted' \in [Plugins -> BOOLEAN]
               /\ change' \in Changes
               /\ seen' \in [Plugins -> BOOLEAN]
               /\ settled' \in [Plugins -> BOOLEAN]
    <3>1. trusted' \in [Plugins -> BOOLEAN]
      BY <2>2 DEF TypeOK
    <3>2. change' \in Changes
      BY <2>2 DEF TypeOK, Changes
    <3>3. seen' \in [Plugins -> BOOLEAN] /\ settled' \in [Plugins -> BOOLEAN]
      BY <2>2 DEF TypeOK, AllFalse
    <3>4. QED
      BY <3>1, <3>2, <3>3
  <2>3. QED
    BY <2>1, <2>2 DEF WriteTrust
<1>4. UNCHANGED <<todo, now, status, since, writes, deaths>>
  BY DEF WriteTrust, countVars
<1>5. QED
  BY <1>1, <1>2, <1>3, <1>4 DEF TypeOK

LEMMA StepTypeOK == TypeOK /\ PassTarget /\ [Next]_vars => (TypeOK /\ PassTarget)'
<1> SUFFICES ASSUME TypeOK, PassTarget, [Next]_vars
             PROVE  (TypeOK /\ PassTarget)'
  OBVIOUS
<1> USE DEF hostVars, passVars, memoryVars, countVars, AllFalse
<1>1. CASE Sweep
  BY <1>1 DEF TypeOK, PassTarget, Sweep, Covered
<1>2. ASSUME NEW p \in Plugins, Notice(p) \/ Skip(p) \/ Begin(p)
      PROVE  (TypeOK /\ PassTarget)'
  BY <1>2 DEF TypeOK, PassTarget, Notice, Skip, Begin, Turn
<1>3. CASE Paths
  BY <1>3, PathsTypeOK
<1>4. CASE TrustStatus
  BY <1>4 DEF TypeOK, PassTarget, TrustStatus, Finish, Changes
<1>5. CASE FetchRelease
  BY <1>5 DEF TypeOK, PassTarget, FetchRelease, Finish
<1>6. CASE WriteTrust
  BY <1>6, WriteTrustTypeOK
<1>7. CASE Refresh
  <2>1. status' \in [Plugins -> {"none", "ok", "problem"}]
    BY <1>7 DEF TypeOK, Refresh
  <2>2. since' \in [Plugins -> {"never", "nothing", "during", "after"}]
    BY <1>7 DEF TypeOK, Refresh
  <2>3. QED
    BY <1>7, <2>1, <2>2 DEF TypeOK, PassTarget, Refresh, Changes, Nobody
<1>8. ASSUME NEW p \in Plugins, RetryElapses(p) PROVE (TypeOK /\ PassTarget)'
  BY <1>8 DEF TypeOK, PassTarget, RetryElapses
<1>9. CASE Crash
  <2>1. deaths' \in 0..MaxDeaths
    BY <1>9, BoundsAssumption DEF Crash, TypeOK
  <2>2. QED
    BY <1>9, <2>1, DieTypeOK DEF Crash, Die, PassTarget
<1>10. CASE Restart
  BY <1>10 DEF TypeOK, PassTarget, Restart
<1>11. ASSUME NEW p \in Plugins, NEW new \in Payloads, CodexPayload(p, new)
       PROVE  (TypeOK /\ PassTarget)'
  <2>1. writes' \in 0..MaxWrites
    BY <1>11, BoundsAssumption DEF CodexPayload, External, TypeOK
  <2>2. since' \in [Plugins -> {"never", "nothing", "during", "after"}]
    BY <1>11 DEF CodexPayload, Changed, TypeOK
  <2>3. change' \in Changes
    BY <1>11 DEF CodexPayload, Changed, TypeOK, Changes
  <2>4. QED
    BY <1>11, <2>1, <2>2, <2>3 DEF TypeOK, PassTarget, CodexPayload
<1>12. ASSUME NEW p \in Plugins, NEW t \in BOOLEAN, NEW f \in BOOLEAN,
              CodexConfig(p, t, f)
       PROVE  (TypeOK /\ PassTarget)'
  <2>1. writes' \in 0..MaxWrites
    BY <1>12, BoundsAssumption DEF CodexConfig, External, TypeOK
  <2>2. since' \in [Plugins -> {"never", "nothing", "during", "after"}]
    BY <1>12 DEF CodexConfig, Changed, TypeOK
  <2>3. change' \in Changes
    BY <1>12 DEF CodexConfig, Changed, TypeOK, Changes
  <2>4. QED
    BY <1>12, <2>1, <2>2, <2>3 DEF TypeOK, PassTarget, CodexConfig
<1>13. CASE Outage
  <2>1. writes' \in 0..MaxWrites
    BY <1>13, BoundsAssumption DEF Outage, External, TypeOK
  <2>2. QED
    BY <1>13, <2>1 DEF TypeOK, PassTarget, Outage
<1>14. CASE UNCHANGED vars
  BY <1>14 DEF TypeOK, PassTarget, vars
<1>15. QED
  BY <1>1, <1>2, <1>3, <1>4, <1>5, <1>6, <1>7, <1>8, <1>9, <1>10, <1>11,
     <1>12, <1>13, <1>14 DEF Next, LoopStep, CodexStep

\* Every reachable value has its type.
THEOREM TypeCorrect == Spec => []TypeOK
<1>1. Init => PassTarget
  BY DEF Init, PassTarget
<1>2. QED
  BY <1>1, InitTypeOK, StepTypeOK, PTL DEF Spec

-----------------------------------------------------------------------------
\* What a pass that is about to report success knows, and what a change
\* noticed by the pass says about the last report.
PassTrue ==
    /\ pc = "refresh" /\ ~failed /\ change = "none" => trusted[now]
    /\ change # "none" => pc \notin {"sweep", "dead"} /\ since[now] # "nothing"

StatusInv == TypeOK /\ PassTarget /\ PassTrue /\ StatusTrue

LEMMA StepStatusInv == StatusInv /\ [Next]_vars => StatusInv'
<1> SUFFICES ASSUME StatusInv, [Next]_vars PROVE (PassTrue /\ StatusTrue)'
  BY StepTypeOK DEF StatusInv
<1> USE DEF hostVars, passVars, memoryVars, countVars
<1>1. CASE Sweep
  BY <1>1 DEF StatusInv, PassTrue, StatusTrue, Sweep
<1>2. ASSUME NEW p \in Plugins, Notice(p) \/ Skip(p) \/ Begin(p)
      PROVE  (PassTrue /\ StatusTrue)'
  BY <1>2 DEF StatusInv, PassTrue, StatusTrue, Notice, Skip, Begin, Turn
<1>3. CASE Paths
  BY <1>3 DEF StatusInv, PassTrue, StatusTrue, Paths, Die, Finish
<1>4. CASE TrustStatus
  BY <1>4 DEF StatusInv, PassTrue, StatusTrue, TrustStatus, Finish
<1>5. CASE FetchRelease
  BY <1>5 DEF StatusInv, PassTrue, StatusTrue, FetchRelease, Finish
<1>6. CASE WriteTrust
  <2>1. now \in Plugins /\ pc' = "refresh" /\ UNCHANGED <<now, status, since>>
    BY <1>6 DEF StatusInv, PassTarget, WriteTrust, Finish
  <2>2. CASE UNCHANGED <<trusted, change>> /\ failed'
    BY <1>6, <2>1, <2>2 DEF StatusInv, PassTrue, StatusTrue, WriteTrust
  <2>3. ASSUME NEW verified \in BOOLEAN,
               ~verified => Moved,
               trusted' = [trusted EXCEPT ![now] = verified],
               change' = IF verified THEN "none" ELSE change
        PROVE  (PassTrue /\ StatusTrue)'
    <3>1. trusted'[now] = verified
      BY <2>1, <2>3 DEF StatusInv, TypeOK
    <3>2. ~verified => change' # "none" /\ since[now] # "nothing"
      BY <2>3 DEF StatusInv, PassTrue, Moved
    <3>3. PassTrue'
      BY <1>6, <2>1, <2>3, <3>1, <3>2 DEF StatusInv, PassTrue, WriteTrust
    <3>4. StatusTrue'
      BY <2>1, <2>3, <3>1, <3>2 DEF StatusInv, TypeOK, StatusTrue
    <3>5. QED
      BY <3>3, <3>4
  <2>4. QED
    BY <1>6, <2>2, <2>3 DEF WriteTrust, Finish
<1>7. CASE Refresh
  <2>1. /\ pc = "refresh" /\ now \in Plugins
        /\ pc' = "sweep" /\ change' = "none" /\ trusted' = trusted
        /\ status' = [status EXCEPT ![now] = IF failed THEN "problem" ELSE "ok"]
        /\ since' = [since EXCEPT ![now] = IF change = "none" THEN "nothing"
                                           ELSE "during"]
    BY <1>7 DEF StatusInv, PassTarget, Refresh
  <2>2. StatusTrue'
    BY <2>1 DEF StatusInv, TypeOK, PassTrue, StatusTrue
  <2>3. QED
    BY <2>1, <2>2 DEF PassTrue
<1>8. ASSUME NEW p \in Plugins, RetryElapses(p) PROVE (PassTrue /\ StatusTrue)'
  BY <1>8 DEF StatusInv, PassTrue, StatusTrue, RetryElapses
<1>9. CASE Crash
  BY <1>9 DEF StatusInv, PassTrue, StatusTrue, Crash, Die
<1>10. CASE Restart
  BY <1>10 DEF StatusInv, PassTrue, StatusTrue, Restart
<1>11. ASSUME NEW p \in Plugins, NEW t \in BOOLEAN, NEW what \in Changes \ {"none"},
              trusted' = [trusted EXCEPT ![p] = t], Changed(p, what),
              UNCHANGED <<pc, now, failed, status>>
       PROVE  (PassTrue /\ StatusTrue)'
  <2>1. since' = [since EXCEPT ![p] = IF @ = "nothing" THEN "after" ELSE @]
    BY <1>11 DEF Changed
  <2>2. \A q \in Plugins : since'[q] = "nothing" => q # p /\ since[q] = "nothing"
    BY <2>1 DEF StatusInv, TypeOK
  <2>3. StatusTrue'
    BY <1>11, <2>2 DEF StatusInv, TypeOK, StatusTrue
  <2>4. CASE pc \in {"trust", "fetch", "write", "refresh"} /\ now = p
    <3>1. change' # "none" /\ since'[now] # "nothing"
      BY <1>11, <2>2, <2>4 DEF Changed, Moved, Changes
    <3>2. QED
      BY <1>11, <2>3, <2>4, <3>1 DEF PassTrue
  <2>5. CASE ~(pc \in {"trust", "fetch", "write", "refresh"} /\ now = p)
    <3>1. change' = change
      BY <1>11, <2>5 DEF Changed
    <3>2. pc = "refresh" => trusted'[now] = trusted[now]
      BY <1>11, <2>5 DEF StatusInv, PassTarget, TypeOK
    <3>3. change # "none" => since'[now] # "nothing"
      BY <2>2 DEF StatusInv, PassTarget, PassTrue
    <3>4. QED
      BY <1>11, <2>3, <3>1, <3>2, <3>3 DEF StatusInv, PassTrue
  <2>6. QED
    BY <2>4, <2>5
<1>12. ASSUME NEW p \in Plugins, NEW new \in Payloads, CodexPayload(p, new)
       PROVE  (PassTrue /\ StatusTrue)'
  BY <1>11, <1>12 DEF CodexPayload, Changes
<1>13. ASSUME NEW p \in Plugins, NEW t \in BOOLEAN, NEW f \in BOOLEAN,
              CodexConfig(p, t, f)
       PROVE  (PassTrue /\ StatusTrue)'
  <2>1. CASE t # trusted[p]
    BY <1>11, <1>13, <2>1 DEF CodexConfig, Changes
  <2>2. CASE t = trusted[p]
    <3>1. trusted' = trusted /\ UNCHANGED <<change, since>>
      BY <1>13, <2>2 DEF CodexConfig, StatusInv, TypeOK
    <3>2. QED
      BY <1>13, <3>1 DEF CodexConfig, StatusInv, PassTrue, StatusTrue
  <2>3. QED
    BY <2>1, <2>2
<1>14. CASE Outage
  BY <1>14 DEF StatusInv, PassTrue, StatusTrue, Outage
<1>15. CASE UNCHANGED vars
  BY <1>15 DEF StatusInv, PassTrue, StatusTrue, vars
<1>16. QED
  BY <1>1, <1>2, <1>3, <1>4, <1>5, <1>6, <1>7, <1>8, <1>9, <1>10, <1>12,
     <1>13, <1>14, <1>15 DEF Next, LoopStep, CodexStep

\* The status record claims no continuity that is not there.
THEOREM StatusAlwaysTrue == Spec => []StatusTrue
<1>1. Init => StatusInv
  BY InitTypeOK DEF Init, StatusInv, PassTarget, PassTrue, StatusTrue
<1>2. StatusInv => StatusTrue
  BY DEF StatusInv
<1>3. QED
  BY <1>1, <1>2, StepStatusInv, PTL DEF Spec
=============================================================================
