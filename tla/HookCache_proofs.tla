-------------------------- MODULE HookCache_proofs --------------------------
(***************************************************************************)
(* Proofs about HookCache, for any set of processes, any number of         *)
(* versions and any number of Codex writes.                                *)
(***************************************************************************)
EXTENDS HookCache, TLAPS

\* The entries a step may write are directory entries.
LEMMA EntryTypes ==
    /\ Absent \in Entry
    /\ Foreign \in Entry
    /\ \A b \in Bodies : Dir(b) \in Entry
    /\ \A s \in Slots : LinkTo(s) \in Entry
  BY NAssumption DEF Absent, Foreign, Dir, LinkTo, Entry, Bodies, Slots, Latest

LEMMA SlotFacts ==
    /\ Versions \subseteq Slots
    /\ Latest \in Slots
    /\ Latest \notin Versions
  BY NAssumption DEF Versions, Slots, Latest

LEMMA InitTypeOK == Init => TypeOK
<1> SUFFICES ASSUME Init PROVE TypeOK
  OBVIOUS
<1>1. entry \in [Slots -> Entry]
  <2>1. PICK alien \in SUBSET Slots, full \in SUBSET Versions :
           entry = [s \in Slots |-> IF s \in alien THEN Foreign
                                    ELSE IF s \in full THEN Dir("scripts")
                                    ELSE Absent]
    BY DEF Init
  <2>2. Dir("scripts") \in Entry
    BY EntryTypes DEF Bodies
  <2>3. QED
    BY <2>1, <2>2, EntryTypes
<1>2. writes \in 0..MaxWrites
  BY MaxWritesAssumption DEF Init
<1>3. QED
  BY <1>1, <1>2, SlotFacts DEF Init, TypeOK

\* Returning from a pass keeps every process variable in its type.
LEMMA ReturnTypeOK ==
  ASSUME TypeOK, NEW p \in Procs,
         NEW o \in {"failed", "nolinks", "linked", "killed"}, Return(p, o)
  PROVE  /\ pc' \in [Procs -> {"idle", "listed", "validated", "declared",
                         "scripted", "loaded", "checked", "linking"}]
         /\ listed' \in [Procs -> SUBSET Versions]
         /\ current' \in [Procs -> Slots]
         /\ observed' \in [Procs -> SUBSET Versions]
         /\ todo' \in [Procs -> SUBSET Slots]
         /\ result' \in [Procs -> {"none", "failed", "nolinks", "linked",
                                   "killed"}]
  BY SlotFacts DEF TypeOK, Return, Goto

LEMMA StepTypeOK == TypeOK /\ [Next]_vars => TypeOK'
<1> SUFFICES ASSUME TypeOK, [Next]_vars PROVE TypeOK'
  OBVIOUS
<1> USE SlotFacts
<1>1. ASSUME NEW p \in Procs, List(p) PROVE TypeOK'
  <2>1. CASE Return(p, "failed")
    BY <1>1, <2>1, ReturnTypeOK DEF TypeOK, List, cacheVars, recordHistory
  <2>2. ASSUME NEW v \in Versions,
               listed' = [listed EXCEPT ![p] = RealVersions],
               current' = [current EXCEPT ![p] = v],
               Goto(p, "listed"),
               UNCHANGED <<observed, todo, result>>
        PROVE  TypeOK'
    <3>1. RealVersions \in SUBSET Versions
      BY DEF RealVersions
    <3>2. QED
      BY <1>1, <2>2, <3>1 DEF TypeOK, List, cacheVars, recordHistory, Goto
  <2>3. QED
    BY <1>1, <2>1, <2>2 DEF List
<1>2. ASSUME NEW p \in Procs, Validate(p) PROVE TypeOK'
  BY <1>2, ReturnTypeOK DEF TypeOK, Validate, cacheVars, recordHistory, snapshotVars, Goto
<1>3. ASSUME NEW p \in Procs, ReadDeclarations(p) PROVE TypeOK'
  BY <1>3, ReturnTypeOK
     DEF TypeOK, ReadDeclarations, cacheVars, recordHistory, snapshotVars, Goto
<1>4. ASSUME NEW p \in Procs, ReadScripts(p) PROVE TypeOK'
  BY <1>4, ReturnTypeOK DEF TypeOK, ReadScripts, cacheVars, recordHistory, snapshotVars, Goto
<1>5. ASSUME NEW p \in Procs, LoadState(p) PROVE TypeOK'
  <2>1. PICK versions \in {record, {}} :
           /\ Loaded(p, versions)
           /\ unread' = [unread EXCEPT ![p] = versions # record]
    BY <1>5 DEF LoadState
  <2>2. QED
    BY <2>1 DEF TypeOK, Loaded, cacheVars, Goto
<1>6. ASSUME NEW p \in Procs, CheckSlots(p) PROVE TypeOK'
  BY <1>6, ReturnTypeOK DEF TypeOK, CheckSlots, cacheVars, recordHistory, snapshotVars, Goto
<1>7. ASSUME NEW p \in Procs, SaveState(p) PROVE TypeOK'
  BY <1>7 DEF TypeOK, SaveState, Saved, Goto, Desired, Disturb
<1>8. ASSUME NEW p \in Procs, Link(p) PROVE TypeOK'
  <2>1. CASE Return(p, "killed") /\ UNCHANGED <<entry, quiet>>
    BY <1>8, <2>1, ReturnTypeOK DEF TypeOK, Link, recordHistory
  <2>2. ASSUME NEW s \in todo[p],
               entry' = [entry EXCEPT ![s] = LinkTo(LinkTarget(p, s))],
               todo' = [todo EXCEPT ![p] = @ \ {s}],
               IF entry' = entry THEN UNCHANGED quiet ELSE Disturb(p),
               UNCHANGED <<pc, listed, current, observed, result>>
        PROVE  TypeOK'
    <3>1. LinkTarget(p, s) \in Slots
      BY DEF LinkTarget, TypeOK
    <3>2. LinkTo(LinkTarget(p, s)) \in Entry
      BY <3>1, EntryTypes
    <3>3. entry' \in [Slots -> Entry]
      BY <2>2, <3>2 DEF TypeOK
    <3>4. quiet' \in [Procs -> BOOLEAN]
      BY <2>2 DEF TypeOK, Disturb
    <3>5. QED
      BY <1>8, <2>2, <3>3, <3>4 DEF TypeOK, Link, recordHistory
  <2>3. QED
    BY <1>8, <2>1, <2>2 DEF Link
<1>9. ASSUME NEW p \in Procs, Report(p) PROVE TypeOK'
  BY <1>9, ReturnTypeOK DEF TypeOK, Report, cacheVars, recordHistory
<1>10. ASSUME NEW p \in Procs, Kill(p) PROVE TypeOK'
  BY <1>10, ReturnTypeOK DEF TypeOK, Kill, cacheVars, recordHistory
<1>11. ASSUME NEW new \in [Slots -> Entry], CodexWrite(new) PROVE TypeOK'
  BY <1>11, MaxWritesAssumption DEF TypeOK, CodexWrite, snapshotVars, recordHistory
<1>12. CASE CodexStep
  <2>1. \A v \in Versions, b \in Bodies :
           [entry EXCEPT ![v] = Dir(b)] \in [Slots -> Entry]
    BY EntryTypes DEF TypeOK
  <2>2. \A v \in Versions : [entry EXCEPT ![v] = Absent] \in [Slots -> Entry]
    BY EntryTypes DEF TypeOK
  <2>3. [s \in Slots |-> Absent] \in [Slots -> Entry]
    BY EntryTypes
  <2>4. QED
    BY <1>11, <1>12, <2>1, <2>2, <2>3
       DEF CodexStep, CodexInstall, CodexComplete, CodexSpoil, CodexRemove,
           CodexWipe, Bodies
<1>13. CASE UNCHANGED vars
  BY <1>13 DEF vars, recordHistory, TypeOK
<1>14. QED
  BY <1>1, <1>2, <1>3, <1>4, <1>5, <1>6, <1>7, <1>8, <1>9, <1>10, <1>12,
     <1>13 DEF Next, ReconcileStep

\* Type correctness: every reachable cache is a function from slots to
\* directory entries, the record holds only version names, and a pass only
\* ever wants slots of the plugin's own cache.
THEOREM TypeCorrect == Spec => []TypeOK
  BY InitTypeOK, StepTypeOK, PTL DEF Spec

-----------------------------------------------------------------------------
(***************************************************************************)
(* Unmanaged paths and payload directories survive every reconcile step.   *)
(* A link is only placed on a slot the pass has checked, and an unmanaged  *)
(* path can only go away between the check and the link, never appear.     *)
(***************************************************************************)
CheckedSlots ==
    \A p \in Procs :
        /\ pc[p] \in {"checked", "linking"} =>
              \A s \in Desired(p) : entry[s].kind # "foreign"
        /\ pc[p] = "linking" => todo[p] \subseteq Desired(p)

\* The steps of a pass other than the placing of a link leave the cache.
LEMMA OnlyLinkAndCodexWriteTheCache ==
  ASSUME [Next]_vars, entry' # entry
  PROVE  \/ CodexStep
         \/ \E p \in Procs : Link(p)
  BY DEF Next, ReconcileStep, vars, cacheVars, List, Validate,
         ReadDeclarations, ReadScripts, LoadState, Loaded, CheckSlots, SaveState, Saved,
         Report, Kill

LEMMA NoNewForeign ==
  ASSUME TypeOK, [Next]_vars, NEW s \in Slots, entry'[s].kind = "foreign"
  PROVE  entry[s].kind = "foreign"
<1> USE SlotFacts
<1>1. CASE entry' = entry
  BY <1>1
<1>2. CASE CodexStep
  BY <1>2 DEF CodexStep, CodexInstall, CodexComplete, CodexSpoil,
     CodexRemove, CodexWipe, CodexWrite, Dir, Absent, TypeOK
<1>3. ASSUME NEW p \in Procs, Link(p), entry' # entry PROVE FALSE
             \/ entry[s].kind = "foreign"
  BY <1>3 DEF Link, LinkTo, TypeOK
<1>4. QED
  BY <1>1, <1>2, <1>3, OnlyLinkAndCodexWriteTheCache

LEMMA CheckedSlotsInit == Init => CheckedSlots
  BY DEF Init, CheckedSlots

LEMMA CheckedSlotsStep ==
  TypeOK /\ CheckedSlots /\ [Next]_vars => CheckedSlots'
<1> SUFFICES ASSUME TypeOK, CheckedSlots, [Next]_vars,
                    NEW q \in Procs
             PROVE  /\ pc'[q] \in {"checked", "linking"} =>
                          \A s \in Desired(q)' : entry'[s].kind # "foreign"
                    /\ pc'[q] = "linking" => todo'[q] \subseteq Desired(q)'
  BY DEF CheckedSlots
<1> DEFINE Kept == /\ pc'[q] = pc[q]
                   /\ listed'[q] = listed[q]
                   /\ observed'[q] = observed[q]
                   /\ todo'[q] \subseteq todo[q]
<1>1. Desired(q) \subseteq Slots
  BY SlotFacts DEF Desired, TypeOK
<1>2. CASE Kept
  BY <1>1, <1>2, NoNewForeign DEF CheckedSlots, Desired
<1>3. CASE pc'[q] \notin {"checked", "linking"}
  BY <1>3
<1>4. CASE CheckSlots(q)
  BY <1>1, <1>3, <1>4, NoNewForeign
     DEF CheckSlots, Return, Goto, TypeOK, Desired, Unsafe, snapshotVars,
         cacheVars
<1>5. CASE SaveState(q)
  BY <1>1, <1>5, NoNewForeign DEF SaveState, Saved, Goto, TypeOK, Desired,
     CheckedSlots
<1>6. CASE Link(q)
  BY <1>2, <1>3, <1>6 DEF Link, Return, Goto, TypeOK
<1>7. CASE List(q) \/ Validate(q) \/ ReadDeclarations(q) \/ ReadScripts(q)
           \/ LoadState(q) \/ Report(q) \/ Kill(q)
  <2>1. pc'[q] \notin {"checked", "linking"}
    BY <1>7 DEF List, Validate, ReadDeclarations, ReadScripts, LoadState, Loaded,
       Report, Kill, Return, Goto, TypeOK
  <2>2. QED
    BY <1>3, <2>1
<1>8. ASSUME NEW p \in Procs, p # q, ReconcileStep(p) \/ Kill(p) PROVE Kept
  BY <1>8 DEF ReconcileStep, List, Validate, ReadDeclarations, ReadScripts,
     LoadState, Loaded, CheckSlots, SaveState, Saved, Link, Report, Kill, Return, Goto,
     snapshotVars, TypeOK
<1>9. CASE CodexStep
  <2>1. Kept
    BY <1>9 DEF CodexStep, CodexInstall, CodexComplete, CodexSpoil,
       CodexRemove, CodexWipe, CodexWrite, snapshotVars
  <2>2. QED
    BY <1>2, <2>1
<1>10. CASE UNCHANGED vars
  <2>1. Kept
    BY <1>10 DEF vars
  <2>2. QED
    BY <1>2, <2>1
<1>11. QED
  BY <1>2, <1>4, <1>5, <1>6, <1>7, <1>8, <1>9, <1>10 DEF Next, ReconcileStep

\* The one step that places links spares what is unsafe.
LEMMA StepPreservesUnmanaged ==
  ASSUME TypeOK, CheckedSlots, [Next]_vars, writes' = writes,
         NEW s \in Slots, Unsafe(s)
  PROVE  entry'[s] = entry[s]
<1>1. CASE entry' = entry
  BY <1>1
<1>2. CASE CodexStep
  BY <1>2 DEF CodexStep, CodexInstall, CodexComplete, CodexSpoil,
     CodexRemove, CodexWipe, CodexWrite, TypeOK
<1>3. ASSUME NEW p \in Procs, Link(p) PROVE entry'[s] = entry[s]
  <2>1. todo[p] \subseteq Desired(p) /\ pc[p] = "linking"
    BY <1>3 DEF CheckedSlots, Link
  <2>2. \A t \in todo[p] : entry[t].kind # "foreign"
    BY <2>1 DEF CheckedSlots
  <2>3. QED
    BY <1>3, <2>2 DEF Link, TypeOK, Unsafe
<1>4. QED
  BY <1>1, <1>2, <1>3, OnlyLinkAndCodexWriteTheCache

\* However the steps of any number of reconcilers and of Codex interleave,
\* no reconcile step replaces a payload directory or an unmanaged path.
THEOREM UnmanagedAlwaysPreserved == Spec => UnmanagedPreserved
<1>1. TypeOK /\ CheckedSlots /\ [Next]_vars =>
        [writes' = writes =>
            \A s \in Slots : Unsafe(s) => entry'[s] = entry[s]]_vars
  BY StepPreservesUnmanaged
<1>2. QED
  BY <1>1, CheckedSlotsInit, CheckedSlotsStep, TypeCorrect, PTL
     DEF Spec, UnmanagedPreserved

-----------------------------------------------------------------------------
(***************************************************************************)
(* The record, whatever the interleaving: a pass whose copy of it is as    *)
(* old as the record has all of it, and an alias is made of what was       *)
(* recorded.                                                               *)
(***************************************************************************)
CopyComplete ==
    \A p \in Procs :
        pc[p] \in {"loaded", "checked"} /\ ~unread[p] => record \subseteq observed[p]

AliasesKnown ==
    \A p \in Procs :
        pc[p] = "linking" =>
            todo[p] \ {Latest} \subseteq record \union forgotten

RecordInv == CopyComplete /\ AliasesKnown /\ BackfillRecorded

\* Codex makes no links.
LEMMA CodexMakesNoLinks ==
  ASSUME TypeOK, CodexStep, NEW s \in Slots, entry'[s].kind = "link"
  PROVE  entry'[s] = entry[s]
  BY DEF CodexStep, CodexInstall, CodexComplete, CodexSpoil, CodexRemove,
     CodexWipe, CodexWrite, Dir, Absent, TypeOK

\* What is recorded, or was dropped unseen, stays so.
LEMMA SaveKeepsKnown ==
  ASSUME TypeOK, CopyComplete, NEW p \in Procs, SaveState(p)
  PROVE  /\ record \union forgotten \subseteq record' \union forgotten'
         /\ record \subseteq record' \/ unread[p]
<1>1. pc[p] = "checked" /\ record' = observed[p]
      /\ forgotten' = (forgotten \union (IF unread[p] THEN record ELSE {})) \ record'
  BY DEF SaveState, Saved
<1>2. CASE unread[p]
  BY <1>1, <1>2
<1>3. CASE ~unread[p]
  BY <1>1, <1>3 DEF CopyComplete
<1>4. QED
  BY <1>2, <1>3

\* Nothing but a save changes the record.
LEMMA OnlySaveWritesTheRecord ==
  ASSUME [Next]_vars, ~\E p \in Procs : SaveState(p)
  PROVE  UNCHANGED <<record, forgotten>>
  BY DEF Next, ReconcileStep, vars, cacheVars, recordHistory, List, Validate,
     ReadDeclarations, ReadScripts, LoadState, Loaded, CheckSlots, Link, Report,
     Kill, CodexStep, CodexInstall, CodexComplete, CodexSpoil, CodexRemove,
     CodexWipe, CodexWrite

LEMMA KnownGrows ==
  ASSUME TypeOK, CopyComplete, [Next]_vars
  PROVE  record \union forgotten \subseteq record' \union forgotten'
  BY SaveKeepsKnown, OnlySaveWritesTheRecord

LEMMA CopyCompleteStep ==
  ASSUME TypeOK, CopyComplete, [Next]_vars PROVE CopyComplete'
<1> SUFFICES ASSUME NEW q \in Procs, pc'[q] \in {"loaded", "checked"}, ~unread'[q]
             PROVE  record' \subseteq observed'[q]
  BY DEF CopyComplete
<1>1. CASE LoadState(q)
  <2>1. PICK versions \in {record, {}} :
           /\ Loaded(q, versions)
           /\ unread' = [unread EXCEPT ![q] = versions # record]
    BY <1>1 DEF LoadState
  <2>2. /\ observed'[q] = versions \union listed[q]
        /\ unread'[q] = (versions # record)
        /\ record' = record
    BY <2>1 DEF Loaded, cacheVars, TypeOK
  <2>3. QED
    BY <2>2
<1>2. CASE SaveState(q)
  BY <1>2 DEF SaveState, Saved, Goto, TypeOK
<1>3. CASE CheckSlots(q)
  BY <1>3 DEF CheckSlots, Return, Goto, snapshotVars, cacheVars, recordHistory,
     CopyComplete, TypeOK
<1>4. CASE List(q) \/ Validate(q) \/ ReadDeclarations(q) \/ ReadScripts(q)
           \/ Link(q) \/ Report(q) \/ Kill(q)
  BY <1>4 DEF List, Validate, ReadDeclarations, ReadScripts, Link, Report, Kill,
     Return, Goto, TypeOK
<1>5. ASSUME NEW p \in Procs, p # q, SaveState(p) PROVE record' \subseteq observed'[q]
  BY <1>5 DEF SaveState, Saved, Goto, TypeOK, CopyComplete
<1>6. ASSUME NEW p \in Procs, p # q, ReconcileStep(p) \/ Kill(p), ~SaveState(p)
      PROVE  record' \subseteq observed'[q]
  <2>1. /\ pc'[q] = pc[q] /\ observed'[q] = observed[q]
        /\ unread'[q] = unread[q] /\ record' = record
    BY <1>6 DEF ReconcileStep, List, Validate, ReadDeclarations, ReadScripts,
       LoadState, Loaded, CheckSlots, Link, Report, Kill, Return, Goto,
       snapshotVars, cacheVars, recordHistory, TypeOK
  <2>2. QED
    BY <2>1 DEF CopyComplete
<1>7. CASE CodexStep
  BY <1>7 DEF CodexStep, CodexInstall, CodexComplete, CodexSpoil, CodexRemove,
     CodexWipe, CodexWrite, snapshotVars, recordHistory, CopyComplete
<1>8. CASE UNCHANGED vars
  BY <1>8 DEF vars, CopyComplete
<1>9. QED
  BY <1>1, <1>2, <1>3, <1>4, <1>5, <1>6, <1>7, <1>8 DEF Next, ReconcileStep

LEMMA AliasesKnownStep ==
  ASSUME TypeOK, CopyComplete, AliasesKnown, [Next]_vars PROVE AliasesKnown'
<1> SUFFICES ASSUME NEW q \in Procs, pc'[q] = "linking"
             PROVE  todo'[q] \ {Latest} \subseteq record' \union forgotten'
  BY DEF AliasesKnown
<1>1. CASE pc[q] = "linking" /\ todo'[q] \subseteq todo[q]
  BY <1>1, KnownGrows DEF AliasesKnown
<1>2. CASE SaveState(q)
  BY <1>2 DEF SaveState, Saved, Desired, TypeOK
<1>3. CASE Link(q)
  BY <1>1, <1>3 DEF Link, Return, Goto, TypeOK
<1>4. CASE List(q) \/ Validate(q) \/ ReadDeclarations(q) \/ ReadScripts(q)
           \/ LoadState(q) \/ CheckSlots(q) \/ Report(q) \/ Kill(q)
  BY <1>4 DEF List, Validate, ReadDeclarations, ReadScripts, LoadState, Loaded,
     CheckSlots, Report, Kill, Return, Goto, TypeOK
<1>5. ASSUME NEW p \in Procs, p # q, ReconcileStep(p) \/ Kill(p)
      PROVE  pc'[q] = pc[q] /\ todo'[q] = todo[q]
  BY <1>5 DEF ReconcileStep, List, Validate, ReadDeclarations, ReadScripts,
     LoadState, Loaded, CheckSlots, SaveState, Saved, Link, Report, Kill, Return,
     Goto, snapshotVars, TypeOK
<1>6. CASE CodexStep
  BY <1>1, <1>6 DEF CodexStep, CodexInstall, CodexComplete, CodexSpoil,
     CodexRemove, CodexWipe, CodexWrite, snapshotVars
<1>7. CASE UNCHANGED vars
  BY <1>1, <1>7 DEF vars
<1>8. QED
  BY <1>1, <1>2, <1>3, <1>4, <1>5, <1>6, <1>7 DEF Next, ReconcileStep

LEMMA BackfillStep ==
  ASSUME TypeOK, RecordInv, [Next]_vars PROVE BackfillRecorded'
<1> USE SlotFacts
<1> SUFFICES ASSUME NEW v \in Versions, entry'[v].kind = "link"
             PROVE  v \in record' \union forgotten'
  BY DEF BackfillRecorded
<1>1. CASE entry'[v] = entry[v]
  BY <1>1, KnownGrows DEF RecordInv, BackfillRecorded
<1>2. CASE CodexStep
  BY <1>1, <1>2, CodexMakesNoLinks
<1>3. ASSUME NEW p \in Procs, Link(p), entry'[v] # entry[v]
      PROVE  v \in record' \union forgotten'
  <2>1. v \in todo[p] /\ pc[p] = "linking"
    BY <1>3 DEF Link, TypeOK
  <2>2. QED
    BY <2>1, KnownGrows DEF RecordInv, AliasesKnown
<1>4. QED
  BY <1>1, <1>2, <1>3, OnlyLinkAndCodexWriteTheCache

LEMMA RecordInvInit == Init => RecordInv
<1> SUFFICES ASSUME Init PROVE RecordInv
  OBVIOUS
<1>1. \A s \in Slots : entry[s].kind # "link"
  BY DEF Init, Foreign, Absent, Dir
<1>2. QED
  BY <1>1, SlotFacts DEF Init, RecordInv, CopyComplete, AliasesKnown, BackfillRecorded

LEMMA RecordInvStep == TypeOK /\ RecordInv /\ [Next]_vars => RecordInv'
  BY CopyCompleteStep, AliasesKnownStep, BackfillStep DEF RecordInv

\* For any number of reconcilers: an alias exists only for a version that is
\* recorded, or that was dropped by a pass that had not seen it recorded.
THEOREM BackfillAlwaysRecorded == Spec => []BackfillRecorded
<1>1. RecordInv => BackfillRecorded
  BY DEF RecordInv
<1>2. QED
  BY <1>1, RecordInvInit, RecordInvStep, TypeCorrect, PTL DEF Spec

\* For any number of reconcilers: a version is dropped from the record only
\* by a pass whose read of it failed or that another has overtaken.
THEOREM RecordAlwaysKept == Spec => RecordKept
<1>1. TypeOK /\ RecordInv /\ [Next]_vars =>
        [\/ record \subseteq record'
         \/ \E p \in Procs : unread[p] /\ pc[p] = "checked" /\ pc'[p] = "linking"]_vars
  <2> SUFFICES ASSUME TypeOK, RecordInv, [Next]_vars
               PROVE  \/ record \subseteq record'
                      \/ \E p \in Procs : /\ unread[p]
                                          /\ pc[p] = "checked"
                                          /\ pc'[p] = "linking"
    OBVIOUS
  <2>1. ASSUME NEW p \in Procs, SaveState(p)
        PROVE  /\ pc[p] = "checked" /\ pc'[p] = "linking"
               /\ record \subseteq record' \/ unread[p]
    BY <2>1, SaveKeepsKnown DEF RecordInv, SaveState, Saved, Goto, TypeOK
  <2>2. QED
    BY <2>1, OnlySaveWritesTheRecord
<1>2. QED
  BY <1>1, RecordInvInit, RecordInvStep, TypeCorrect, PTL DEF Spec, RecordKept

-----------------------------------------------------------------------------
(***************************************************************************)
(* One pass after the other. Nothing in the code keeps two passes over one *)
(* cache apart, and the run HookCachePairTopology shows what comes of it   *)
(* when they overlap.                                                      *)
(***************************************************************************)
OneUnderWay == \A p, q \in Procs : pc[p] # "idle" /\ pc[q] # "idle" => p = q

\* What a pass in progress may rely on when no other pass is: the version it
\* listed as newest has not become an alias. It links latest first, so while
\* it links old versions, latest, if it is there, names a version that is
\* not an alias.
PassInProgress ==
    \A p \in Procs :
        /\ pc[p] # "idle" => /\ current[p] \in listed[p]
                             /\ entry[current[p]].kind # "link"
        /\ pc[p] = "linking" =>
              /\ todo[p] \subseteq Desired(p)
              /\ Latest \notin todo[p] /\ entry[Latest].kind = "link" =>
                    entry[Latest].to = current[p]

InSequence == OneUnderWay /\ PassInProgress /\ OneHopTopology
SequenceInv == ~overlapped => InSequence

LEMMA SequenceInvInit == Init => SequenceInv
<1> SUFFICES ASSUME Init PROVE InSequence
  BY DEF SequenceInv
<1>1. \A s \in Slots : entry[s].kind # "link"
  BY DEF Init, Foreign, Absent, Dir
<1>2. QED
  BY <1>1, SlotFacts DEF Init, InSequence, OneUnderWay, PassInProgress, OneHopTopology

LEMMA SequenceCodexStep ==
  ASSUME TypeOK, InSequence, CodexStep PROVE InSequence'
<1>1. UNCHANGED <<record, pc, snapshotVars, result>>
  BY DEF CodexStep, CodexInstall, CodexComplete, CodexSpoil, CodexRemove,
     CodexWipe, CodexWrite
<1>2. OneHopTopology'
  BY CodexMakesNoLinks, SlotFacts DEF InSequence, OneHopTopology
<1>3. PassInProgress'
  <2> SUFFICES ASSUME NEW p \in Procs
               PROVE  /\ pc[p] # "idle" => /\ current[p] \in listed[p]
                                           /\ entry'[current[p]].kind # "link"
                      /\ pc[p] = "linking" =>
                            /\ todo[p] \subseteq Desired(p)
                            /\ Latest \notin todo[p]
                                  /\ entry'[Latest].kind = "link" =>
                                  entry'[Latest].to = current[p]
    BY <1>1 DEF PassInProgress, snapshotVars, Desired
  <2>1. current[p] \in Slots
    BY DEF TypeOK
  <2>2. QED
    BY <2>1, CodexMakesNoLinks, SlotFacts DEF InSequence, PassInProgress
<1>4. QED
  BY <1>1, <1>2, <1>3 DEF InSequence, OneUnderWay

\* The pass ends and nothing else changes.
LEMMA SequenceReturn ==
  ASSUME TypeOK, InSequence, NEW p \in Procs, NEW o, Return(p, o),
         UNCHANGED entry
  PROVE  InSequence'
<1>1. \A q \in Procs : pc'[q] # "idle" =>
         /\ q # p /\ pc'[q] = pc[q] /\ listed'[q] = listed[q]
         /\ current'[q] = current[q] /\ observed'[q] = observed[q]
         /\ todo'[q] = todo[q]
  BY DEF Return, Goto, TypeOK
<1>2. QED
  BY <1>1 DEF InSequence, OneUnderWay, PassInProgress, OneHopTopology, Desired

LEMMA SequenceReconcileStep ==
  ASSUME TypeOK, InSequence, ~overlapped', NEW p \in Procs,
         ReconcileStep(p) \/ Kill(p)
  PROVE  InSequence'
<1> USE SlotFacts
<1>1. \A q \in Procs : q # p => pc[q] = "idle"
  <2>1. CASE List(p)
    BY <2>1 DEF List
  <2>2. CASE ~List(p)
    <3>1. pc[p] # "idle"
      BY <2>2 DEF ReconcileStep, Validate, ReadDeclarations, ReadScripts, LoadState,
         Loaded, CheckSlots, SaveState, Saved, Link, Report, Kill
    <3>2. QED
      BY <3>1 DEF InSequence, OneUnderWay
  <2>3. QED
    BY <2>1, <2>2
<1>a. \A q \in Procs : q # p => pc'[q] = "idle"
  BY <1>1 DEF ReconcileStep, List, Validate, ReadDeclarations, ReadScripts,
     LoadState, Loaded, CheckSlots, SaveState, Saved, Link, Report, Kill, Return,
     Goto, snapshotVars, TypeOK
<1>b. OneUnderWay'
  BY <1>a DEF OneUnderWay
<1>2. CASE List(p)
  <2>1. ASSUME Return(p, "failed") PROVE InSequence'
    BY <1>2, <2>1, SequenceReturn DEF List, cacheVars
  <2>2. ASSUME NEW v \in Versions, Newest(v, RealVersions),
               listed' = [listed EXCEPT ![p] = RealVersions],
               current' = [current EXCEPT ![p] = v],
               Goto(p, "listed")
        PROVE  InSequence'
    BY <1>a, <1>b, <1>2, <2>2 DEF List, cacheVars, Goto, Newest, RealVersions,
       TypeOK, InSequence, PassInProgress, OneHopTopology
  <2>3. QED
    BY <1>2, <2>1, <2>2 DEF List, cacheVars
<1>3. ASSUME UNCHANGED <<entry, listed, current>>, pc[p] # "idle",
             pc'[p] \in {"validated", "declared", "scripted", "loaded", "checked"}
      PROVE  InSequence'
  BY <1>a, <1>b, <1>3 DEF TypeOK, InSequence, PassInProgress, OneHopTopology, Desired
<1>4. CASE Validate(p)
  BY <1>3, <1>4, SequenceReturn DEF Validate, cacheVars, snapshotVars, Goto, TypeOK
<1>5. CASE ReadDeclarations(p)
  BY <1>3, <1>5, SequenceReturn DEF ReadDeclarations, cacheVars, snapshotVars, Goto, TypeOK
<1>6. CASE ReadScripts(p)
  BY <1>3, <1>6, SequenceReturn DEF ReadScripts, cacheVars, snapshotVars, Goto, TypeOK
<1>7. CASE LoadState(p)
  BY <1>3, <1>7 DEF LoadState, Loaded, cacheVars, Goto, TypeOK
<1>8. CASE CheckSlots(p)
  BY <1>3, <1>8, SequenceReturn DEF CheckSlots, cacheVars, snapshotVars, Goto, TypeOK
<1>9. CASE SaveState(p)
  <2>1. PassInProgress'
    BY <1>a, <1>9 DEF SaveState, Saved, Goto, TypeOK, InSequence, PassInProgress,
       Desired
  <2>2. QED
    BY <1>b, <1>9, <2>1 DEF SaveState, Saved, InSequence, OneHopTopology
<1>10. CASE Link(p)
  <2>2. ASSUME Return(p, "killed"), entry' = entry PROVE InSequence'
    BY <2>2, SequenceReturn
  <2>3. ASSUME NEW s \in todo[p], \A t \in todo[p] : s <= t,
               entry' = [entry EXCEPT ![s] = LinkTo(LinkTarget(p, s))],
               todo' = [todo EXCEPT ![p] = @ \ {s}],
               UNCHANGED <<pc, listed, current, observed>>
        PROVE  InSequence'
    <3>1. /\ pc[p] = "linking"
          /\ current[p] \in listed[p]
          /\ current[p] \in Versions
          /\ entry[current[p]].kind # "link"
          /\ s \in {Latest} \union (observed[p] \ listed[p])
          /\ s # current[p]
          /\ s \in Slots
      BY <1>10 DEF Link, InSequence, PassInProgress, Desired, TypeOK
    <3>2. Latest \notin todo[p] \/ s = Latest
      BY <2>3, <3>1 DEF Slots, Latest
    <3>3. CASE s = Latest
      BY <1>a, <1>b, <2>3, <3>1, <3>3
         DEF LinkTo, LinkTarget, TypeOK, InSequence, PassInProgress,
             OneHopTopology, Desired
    <3>4. CASE s # Latest
      <4>1. s \in Versions
        BY <3>1, <3>4 DEF TypeOK
      <4>2. entry' = [entry EXCEPT ![s] = LinkTo(Latest)]
        BY <2>3, <3>4 DEF LinkTarget
      <4>3. entry'[Latest] = entry[Latest]
            /\ entry'[current[p]] = entry[current[p]]
        BY <3>1, <3>4, <4>2 DEF TypeOK
      <4>4. entry[Latest].kind = "link" => entry[Latest].to = current[p]
        BY <3>1, <3>2, <3>4 DEF InSequence, PassInProgress
      <4>5. OneHopTopology'
        BY <3>1, <4>1, <4>2, <4>3, <4>4
           DEF LinkTo, TypeOK, InSequence, OneHopTopology
      <4>6. PassInProgress'
        BY <1>a, <2>3, <3>1, <3>2, <3>4, <4>3
           DEF TypeOK, InSequence, PassInProgress, Desired
      <4>7. QED
        BY <1>b, <4>5, <4>6 DEF InSequence
    <3>5. QED
      BY <3>3, <3>4
  <2>4. QED
    BY <1>10, <2>2, <2>3 DEF Link
<1>11. CASE Report(p)
  BY <1>11, SequenceReturn DEF Report, cacheVars
<1>12. CASE Kill(p)
  BY <1>12, SequenceReturn DEF Kill, cacheVars
<1>14. QED
  BY <1>2, <1>4, <1>5, <1>6, <1>7, <1>8, <1>9, <1>10, <1>11, <1>12
     DEF ReconcileStep

LEMMA SequenceInvStep == TypeOK /\ SequenceInv /\ [Next]_vars => SequenceInv'
<1> SUFFICES ASSUME TypeOK, SequenceInv, [Next]_vars, ~overlapped'
             PROVE  InSequence'
  BY DEF SequenceInv
<1>1. InSequence
  BY DEF SequenceInv, TypeOK, Next, ReconcileStep, vars, List, Validate,
     ReadDeclarations, ReadScripts, LoadState, Loaded, CheckSlots, SaveState, Saved,
     Link, Report, Kill, CodexStep, CodexInstall, CodexComplete, CodexSpoil,
     CodexRemove, CodexWipe, CodexWrite
<1>2. CASE CodexStep
  BY <1>1, <1>2, SequenceCodexStep
<1>3. CASE UNCHANGED vars
  BY <1>1, <1>3 DEF vars, InSequence, OneUnderWay, PassInProgress, OneHopTopology,
     Desired
<1>4. QED
  BY <1>1, <1>2, <1>3, SequenceReconcileStep DEF Next

\* As long as no two passes overlap, whatever Codex does and wherever a pass
\* is killed, the topology stays old-version -> latest -> current-version.
THEOREM OneHopWithoutOverlap == Spec => []OneHopInSequence
<1>1. SequenceInv => OneHopInSequence
  BY DEF SequenceInv, InSequence, OneHopInSequence
<1>2. QED
  BY <1>1, SequenceInvInit, SequenceInvStep, TypeCorrect, PTL DEF Spec

-----------------------------------------------------------------------------
(***************************************************************************)
(* An undisturbed pass tells the truth, however many reconcilers there     *)
(* are: its snapshots stay equal to the cache and the record, and each     *)
(* slot it has linked stays linked, until it reports.                      *)
(***************************************************************************)
EntriesSane ==
    /\ entry[Latest].kind # "dir"
    /\ \A s \in Slots : entry[s].kind = "dir" => entry[s].body \in Bodies

SnapshotsExact(p) ==
    /\ pc[p] # "idle" => /\ listed[p] = RealVersions
                         /\ Newest(current[p], RealVersions)
    /\ pc[p] \in {"validated", "declared"} =>
          entry[current[p]].body \in {"inline", "scripts"}
    /\ pc[p] \in {"scripted", "loaded", "checked", "linking"} =>
          entry[current[p]].body = "scripts"
    /\ pc[p] \in {"loaded", "checked"} =>
          /\ listed[p] \subseteq observed[p]
          /\ observed[p] \subseteq record \union listed[p]
          /\ ~unread[p] => record \subseteq observed[p]
    /\ pc[p] = "linking" => observed[p] = record \union listed[p]

LinksInPlace(p) ==
    pc[p] = "linking" =>
        /\ record = observed[p]
        /\ todo[p] \subseteq Desired(p)
        /\ \A s \in Desired(p) \ todo[p] :
              entry[s] = LinkTo(LinkTarget(p, s))

ReportTrue(p) ==
    pc[p] = "idle" =>
        /\ result[p] = "linked" => Continuity
        /\ result[p] = "nolinks" => NothingToLink
        /\ result[p] = "failed" => CannotRepair

QuietPass(p) ==
    quiet[p] => SnapshotsExact(p) /\ LinksInPlace(p) /\ ReportTrue(p)

QuietInv == EntriesSane /\ \A p \in Procs : QuietPass(p)

LEMMA QuietInvInit == Init => QuietInv
<1> SUFFICES ASSUME Init PROVE QuietInv
  OBVIOUS
<1>1. EntriesSane
  BY SlotFacts DEF Init, EntriesSane, Foreign, Absent, Dir, Bodies
<1>2. QED
  BY <1>1 DEF Init, QuietInv, QuietPass, SnapshotsExact, LinksInPlace,
     ReportTrue

LEMMA EntriesSaneStep ==
  ASSUME TypeOK, EntriesSane, [Next]_vars PROVE EntriesSane'
<1> USE SlotFacts
<1>1. CASE entry' = entry
  BY <1>1 DEF EntriesSane
<1>2. CASE CodexStep
  BY <1>2 DEF CodexStep, CodexInstall, CodexComplete, CodexSpoil,
     CodexRemove, CodexWipe, CodexWrite, Dir, Absent, TypeOK, EntriesSane,
     Bodies
<1>3. ASSUME NEW p \in Procs, Link(p), entry' # entry PROVE EntriesSane'
  BY <1>3 DEF Link, LinkTo, TypeOK, EntriesSane
<1>4. QED
  BY <1>1, <1>2, <1>3, OnlyLinkAndCodexWriteTheCache

\* A process whose own variables, and the cache and record, are unchanged.
LEMMA QuietFrame ==
  ASSUME NEW q \in Procs, QuietPass(q), quiet'[q] => quiet[q],
         quiet'[q] =>
            /\ UNCHANGED <<entry, record>>
            /\ pc'[q] = pc[q]
            /\ listed'[q] = listed[q]
            /\ current'[q] = current[q]
            /\ observed'[q] = observed[q]
            /\ todo'[q] = todo[q]
            /\ result'[q] = result[q]
            /\ unread'[q] = unread[q]
  PROVE  QuietPass(q)'
<1> SUFFICES ASSUME quiet'[q]
             PROVE  SnapshotsExact(q)' /\ LinksInPlace(q)' /\ ReportTrue(q)'
  BY DEF QuietPass
<1>1. RealVersions' = RealVersions
  BY DEF RealVersions
<1>2. SnapshotsExact(q)'
  BY <1>1 DEF QuietPass, SnapshotsExact
<1>3. LinksInPlace(q)'
  BY DEF QuietPass, LinksInPlace, Desired, LinkTarget
<1>4. Continuity' = Continuity
  BY <1>1 DEF Continuity
<1>5. NothingToLink' = NothingToLink
  BY <1>1 DEF NothingToLink
<1>6. CannotRepair' = CannotRepair
  BY <1>1 DEF CannotRepair
<1>7. ReportTrue(q)'
  BY <1>4, <1>5, <1>6 DEF QuietPass, ReportTrue
<1>8. QED
  BY <1>2, <1>3, <1>7

\* Any step that is not q's own either leaves q's world alone or makes q no
\* longer quiet.
LEMMA OthersDisturb ==
  ASSUME TypeOK, NEW q \in Procs, QuietPass(q),
         \/ \E p \in Procs \ {q} : ReconcileStep(p) \/ Kill(p)
         \/ CodexStep
         \/ UNCHANGED vars
  PROVE  QuietPass(q)'
<1>1. ASSUME NEW p \in Procs \ {q}, ReconcileStep(p) \/ Kill(p)
      PROVE  QuietPass(q)'
  <2>1. /\ pc'[q] = pc[q]
        /\ listed'[q] = listed[q]
        /\ current'[q] = current[q]
        /\ observed'[q] = observed[q]
        /\ todo'[q] = todo[q]
        /\ result'[q] = result[q]
    BY <1>1 DEF ReconcileStep, List, Validate, ReadDeclarations, ReadScripts,
       LoadState, Loaded, CheckSlots, SaveState, Saved, Link, Report, Kill, Return, Goto,
       snapshotVars, TypeOK
  <2>2. quiet'[q] => quiet[q] /\ UNCHANGED <<entry, record>>
                    /\ unread'[q] = unread[q]
    BY <1>1 DEF ReconcileStep, List, Validate, ReadDeclarations, ReadScripts,
       LoadState, Loaded, CheckSlots, SaveState, Saved, Link, Report, Kill, Disturb,
       cacheVars, recordHistory, TypeOK
  <2>3. QED
    BY <2>1, <2>2, QuietFrame
<1>2. CASE CodexStep
  <2>1. ~quiet'[q]
    BY <1>2 DEF CodexStep, CodexInstall, CodexComplete, CodexSpoil,
       CodexRemove, CodexWipe, CodexWrite
  <2>2. QED
    BY <2>1 DEF QuietPass
<1>3. CASE UNCHANGED vars
  BY <1>3, QuietFrame DEF vars, recordHistory
<1>4. QED
  BY <1>1, <1>2, <1>3

\* The payload a quiet pass reads is the directory it listed as newest.
LEMMA QuietPayload ==
  ASSUME TypeOK, NEW p \in Procs, EntriesSane, Newest(current[p], RealVersions)
  PROVE  /\ Payload(current[p]) = entry[current[p]]
         /\ entry[current[p]].kind = "dir"
         /\ entry[current[p]].body \in Bodies
         /\ current[p] \in Versions
  BY SlotFacts
     DEF Payload, Hop, Newest, RealVersions, EntriesSane, TypeOK

\* One step of q's own pass, undisturbed.
LEMMA OwnStep ==
  ASSUME TypeOK, QuietInv, EntriesSane', NEW q \in Procs,
         ReconcileStep(q) \/ Kill(q)
  PROVE  QuietPass(q)'
<1> USE SlotFacts
<1> SUFFICES ASSUME quiet'[q]
             PROVE  SnapshotsExact(q)' /\ LinksInPlace(q)' /\ ReportTrue(q)'
  BY DEF QuietPass
<1>a. EntriesSane /\ QuietPass(q)
  BY DEF QuietInv
<1>1. CASE List(q)
  <2>1. UNCHANGED <<entry, record>> /\ RealVersions' = RealVersions
    BY <1>1 DEF List, cacheVars, RealVersions
  <2>2. CASE Return(q, "failed") /\ RealVersions = {}
    BY <2>1, <2>2 DEF Return, Goto, TypeOK, SnapshotsExact, LinksInPlace,
       ReportTrue, CannotRepair
  <2>3. ASSUME NEW v \in Versions, Newest(v, RealVersions),
               listed' = [listed EXCEPT ![q] = RealVersions],
               current' = [current EXCEPT ![q] = v],
               Goto(q, "listed")
        PROVE  SnapshotsExact(q)' /\ LinksInPlace(q)' /\ ReportTrue(q)'
    BY <2>1, <2>3 DEF Goto, TypeOK, SnapshotsExact, LinksInPlace, ReportTrue
  <2>4. QED
    BY <1>1, <2>2, <2>3 DEF List
<1>2. ASSUME quiet[q], pc[q] # "idle"
      PROVE  /\ SnapshotsExact(q)
             /\ LinksInPlace(q)
             /\ Payload(current[q]) = entry[current[q]]
             /\ entry[current[q]].kind = "dir"
             /\ entry[current[q]].body \in Bodies
             /\ current[q] \in Versions
             /\ Newest(current[q], RealVersions)
  BY <1>a, <1>2, QuietPayload DEF QuietPass, SnapshotsExact
<1>3. ASSUME UNCHANGED <<entry, record, listed, current, todo>>,
             quiet[q], pc[q] # "idle", pc'[q] \notin {"idle", "linking"},
             SnapshotsExact(q)'
      PROVE  SnapshotsExact(q)' /\ LinksInPlace(q)' /\ ReportTrue(q)'
  BY <1>3 DEF LinksInPlace, ReportTrue
<1>4. ASSUME NEW o, Return(q, o), UNCHANGED <<entry, record>>,
             o = "linked" => Continuity,
             o = "nolinks" => NothingToLink,
             o = "failed" => CannotRepair
      PROVE  SnapshotsExact(q)' /\ LinksInPlace(q)' /\ ReportTrue(q)'
  <2>1. pc'[q] = "idle" /\ result'[q] = o
    BY <1>4 DEF Return, Goto, TypeOK
  <2>2. RealVersions' = RealVersions
    BY <1>4 DEF RealVersions
  <2>3. Continuity' = Continuity
    BY <1>4, <2>2 DEF Continuity
  <2>4. NothingToLink' = NothingToLink
    BY <1>4, <2>2 DEF NothingToLink
  <2>5. CannotRepair' = CannotRepair
    BY <1>4, <2>2 DEF CannotRepair
  <2>6. QED
    BY <1>4, <2>1, <2>3, <2>4, <2>5 DEF SnapshotsExact, LinksInPlace,
       ReportTrue
<1>5. CASE Validate(q)
  <2>1. quiet[q] /\ pc[q] = "listed" /\ UNCHANGED <<entry, record>>
        /\ RealVersions' = RealVersions
    BY <1>5 DEF Validate, cacheVars, RealVersions
  <2>2. CASE Goto(q, "validated") /\ UNCHANGED snapshotVars
             /\ Payload(current[q]).body \in {"inline", "scripts"}
    BY <1>2, <1>3, <2>1, <2>2
       DEF Goto, TypeOK, SnapshotsExact, snapshotVars
  <2>3. CASE Return(q, "failed")
             /\ Payload(current[q]).body \notin {"inline", "scripts"}
    BY <1>2, <1>4, <2>1, <2>3 DEF CannotRepair, Bodies
  <2>4. QED
    BY <1>5, <2>2, <2>3 DEF Validate
<1>6. CASE ReadDeclarations(q)
  <2>1. quiet[q] /\ pc[q] = "validated" /\ UNCHANGED <<entry, record>>
        /\ RealVersions' = RealVersions
    BY <1>6 DEF ReadDeclarations, cacheVars, RealVersions
  <2>2. Payload(current[q]).body \in {"inline", "scripts"}
    BY <1>2, <2>1 DEF SnapshotsExact
  <2>3. Goto(q, "declared") /\ UNCHANGED snapshotVars
    BY <1>6, <2>2 DEF ReadDeclarations
  <2>4. QED
    BY <1>2, <1>3, <2>1, <2>3 DEF Goto, TypeOK, SnapshotsExact, snapshotVars
<1>7. CASE ReadScripts(q)
  <2>1. quiet[q] /\ pc[q] = "declared" /\ UNCHANGED <<entry, record>>
        /\ RealVersions' = RealVersions
    BY <1>7 DEF ReadScripts, cacheVars, RealVersions
  <2>2. Payload(current[q]).body \in {"inline", "scripts"}
    BY <1>2, <2>1 DEF SnapshotsExact
  <2>3. CASE Goto(q, "scripted") /\ UNCHANGED snapshotVars
             /\ Payload(current[q]).body \in {"scripts", "partial"}
    BY <1>2, <1>3, <2>1, <2>2, <2>3
       DEF Goto, TypeOK, SnapshotsExact, snapshotVars
  <2>4. CASE Return(q, "nolinks") /\ Payload(current[q]).body # "scripts"
    <3>1. NothingToLink
      BY <1>2, <2>1, <2>2, <2>4 DEF NothingToLink
    <3>2. QED
      BY <1>4, <2>1, <2>4, <3>1
  <2>5. QED
    BY <1>7, <2>3, <2>4 DEF ReadScripts
<1>8. CASE LoadState(q)
  <2>1. quiet[q] /\ UNCHANGED <<entry, record>>
        /\ RealVersions' = RealVersions
    BY <1>8 DEF LoadState, Loaded, cacheVars, RealVersions
  <2>2. PICK versions \in {record, {}} :
           /\ Loaded(q, versions)
           /\ unread' = [unread EXCEPT ![q] = versions # record]
    BY <1>8 DEF LoadState
  <2>3. /\ pc[q] = "scripted" /\ pc'[q] = "loaded"
        /\ observed'[q] = versions \union listed[q]
        /\ unread'[q] = (versions # record)
        /\ UNCHANGED <<listed, current, todo>>
    BY <2>2 DEF Loaded, Goto, TypeOK
  <2>4. SnapshotsExact(q)'
    BY <1>2, <2>1, <2>3 DEF SnapshotsExact
  <2>5. QED
    BY <1>3, <2>1, <2>3, <2>4
<1>9. CASE CheckSlots(q)
  <2>1. quiet[q] /\ pc[q] = "loaded" /\ UNCHANGED <<entry, record>>
        /\ RealVersions' = RealVersions
    BY <1>9 DEF CheckSlots, cacheVars, RealVersions
  <2>2. CASE Goto(q, "checked") /\ UNCHANGED snapshotVars
    BY <1>2, <1>3, <1>9, <2>1, <2>2
       DEF CheckSlots, Goto, TypeOK, SnapshotsExact, snapshotVars, recordHistory
  <2>3. ASSUME NEW s \in Desired(q), Unsafe(s), Return(q, "failed")
        PROVE  SnapshotsExact(q)' /\ LinksInPlace(q)' /\ ReportTrue(q)'
    <3>1. s \in {Latest} \union (record \ RealVersions)
      BY <1>2, <2>1 DEF Desired, SnapshotsExact
    <3>2. entry[s].kind # "dir"
      BY <1>a, <3>1 DEF EntriesSane, RealVersions, TypeOK
    <3>3. CannotRepair
      BY <2>3, <3>1, <3>2 DEF Unsafe, CannotRepair
    <3>4. QED
      BY <1>4, <2>1, <2>3, <3>3
  <2>4. QED
    BY <1>9, <2>2, <2>3 DEF CheckSlots
<1>10. CASE SaveState(q)
  <2>1. quiet[q] /\ pc[q] = "checked" /\ entry' = entry
        /\ RealVersions' = RealVersions
    BY <1>10 DEF SaveState, Saved, Disturb, RealVersions, TypeOK
  <2>2. SnapshotsExact(q)
    BY <1>2, <2>1
  <2>3. SnapshotsExact(q)' /\ LinksInPlace(q)' /\ ReportTrue(q)'
    BY <1>10, <2>1, <2>2 DEF SaveState, Saved, Goto, TypeOK, SnapshotsExact,
       LinksInPlace, ReportTrue, Desired
  <2>4. QED
    BY <2>3
<1>11. CASE Link(q)
  <2>1. quiet[q] /\ pc[q] = "linking" /\ record' = record
    BY <1>11 DEF Link, Disturb, TypeOK
  <2>2. CASE Return(q, "killed") /\ entry' = entry
    BY <1>4, <2>1, <2>2
  <2>3. ASSUME NEW s \in todo[q], entry[s].kind # "dir",
               entry' = [entry EXCEPT ![s] = LinkTo(LinkTarget(q, s))],
               todo' = [todo EXCEPT ![q] = @ \ {s}],
               UNCHANGED <<pc, listed, current, observed, result>>
        PROVE  SnapshotsExact(q)' /\ LinksInPlace(q)' /\ ReportTrue(q)'
    <3>1. s \in Slots
      BY DEF TypeOK
    <3>2. RealVersions' = RealVersions
      BY <2>3, <3>1 DEF RealVersions, LinkTo, TypeOK
    <3>3. entry'[current[q]] = entry[current[q]]
      BY <1>2, <2>1, <2>3, <3>1 DEF TypeOK
    <3>4. SnapshotsExact(q)'
      BY <1>2, <2>1, <2>3, <3>2, <3>3 DEF SnapshotsExact
    <3>5. LinksInPlace(q)'
      <4>1. Desired(q)' = Desired(q) /\ Desired(q) \subseteq Slots
        BY <2>3 DEF Desired, TypeOK
      <4>2. \A t : LinkTarget(q, t)' = LinkTarget(q, t)
        BY <2>3 DEF LinkTarget
      <4>3. \A t \in Desired(q) \ todo'[q] :
               entry'[t] = LinkTo(LinkTarget(q, t))
        BY <1>2, <2>1, <2>3, <3>1, <4>1 DEF LinksInPlace, TypeOK
      <4>4. record = observed[q] /\ todo'[q] \subseteq Desired(q)
        BY <1>2, <2>1, <2>3 DEF LinksInPlace, TypeOK
      <4>5. QED
        BY <2>1, <2>3, <4>1, <4>2, <4>3, <4>4 DEF LinksInPlace
    <3>6. QED
      BY <2>1, <2>3, <3>4, <3>5 DEF ReportTrue
  <2>4. QED
    BY <1>11, <2>2, <2>3 DEF Link
<1>12. CASE Report(q)
  <2>1. quiet[q] /\ pc[q] = "linking" /\ todo[q] = {}
        /\ UNCHANGED <<entry, record>> /\ Return(q, "linked")
    BY <1>12 DEF Report, cacheVars
  <2>2. /\ \A s \in Desired(q) : entry[s] = LinkTo(LinkTarget(q, s))
        /\ record = observed[q]
        /\ listed[q] = RealVersions
        /\ observed[q] = record \union listed[q]
        /\ entry[current[q]].body = "scripts"
    BY <1>2, <2>1 DEF LinksInPlace, SnapshotsExact
  <2>3. entry[Latest] = LinkTo(current[q])
    BY <2>2 DEF Desired, LinkTarget
  <2>4. \A v \in record \ RealVersions : entry[v] = LinkTo(Latest)
    BY <2>2 DEF Desired, LinkTarget, TypeOK
  <2>5. Continuity
    BY <1>2, <2>1, <2>2, <2>3, <2>4 DEF Continuity
  <2>6. QED
    BY <1>4, <2>1, <2>5
<1>13. CASE Kill(q)
  BY <1>4, <1>13 DEF Kill, cacheVars
<1>14. QED
  BY <1>1, <1>5, <1>6, <1>7, <1>8, <1>9, <1>10, <1>11, <1>12, <1>13
     DEF ReconcileStep

LEMMA QuietInvStep == TypeOK /\ QuietInv /\ [Next]_vars => QuietInv'
<1> SUFFICES ASSUME TypeOK, QuietInv, [Next]_vars PROVE QuietInv'
  OBVIOUS
<1>1. EntriesSane'
  BY EntriesSaneStep DEF QuietInv
<1>2. ASSUME NEW q \in Procs PROVE QuietPass(q)'
  <2>1. QuietPass(q)
    BY DEF QuietInv
  <2>2. CASE ReconcileStep(q) \/ Kill(q)
    BY <1>1, <2>2, OwnStep
  <2>3. CASE ~(ReconcileStep(q) \/ Kill(q))
    BY <2>1, <2>3, OthersDisturb DEF Next
  <2>4. QED
    BY <2>2, <2>3
<1>3. QED
  BY <1>1, <1>2 DEF QuietInv

\* For any number of reconcilers: a pass that nobody disturbed reports
\* success only with path continuity established, or with nothing to link,
\* and refuses only for a reason that is there.
THEOREM CleanPassAlwaysReportsTruth == Spec => []CleanPassReportsTruth
<1>1. QuietInv => CleanPassReportsTruth
  BY DEF QuietInv, QuietPass, ReportTrue, CleanPassReportsTruth
<1>2. QED
  BY <1>1, QuietInvInit, QuietInvStep, TypeCorrect, PTL DEF Spec

LEMMA IdempotentStep ==
  ASSUME TypeOK, QuietInv, [Next]_vars, Continuity, writes' = writes,
         \A p \in Procs : quiet[p] /\ ~unread[p]
  PROVE  UNCHANGED <<entry, record>>
<1> USE SlotFacts
<1>1. PICK c \in Versions :
         /\ Newest(c, RealVersions)
         /\ entry[Latest] = LinkTo(c)
         /\ RealVersions \subseteq record
         /\ \A v \in record \ RealVersions : entry[v] = LinkTo(Latest)
  BY DEF Continuity
<1>2. ~CodexStep
  BY DEF CodexStep, CodexInstall, CodexComplete, CodexSpoil, CodexRemove,
     CodexWipe, CodexWrite, TypeOK
<1>3. ASSUME NEW p \in Procs, SaveState(p)
      PROVE  UNCHANGED <<entry, record>>
  BY <1>1, <1>3, ZenonT(60) DEF SaveState, Saved, QuietInv, QuietPass, SnapshotsExact
<1>4. ASSUME NEW p \in Procs, Link(p)
      PROVE  UNCHANGED <<entry, record>>
  <2>1. /\ listed[p] = RealVersions
        /\ Newest(current[p], RealVersions)
        /\ record = observed[p]
        /\ todo[p] \subseteq Desired(p)
    BY <1>4 DEF Link, QuietInv, QuietPass, SnapshotsExact, LinksInPlace
  <2>2. current[p] = c
    BY <1>1, <2>1 DEF Newest, RealVersions, Versions
  <2>3. \A s \in todo[p] : entry[s] = LinkTo(LinkTarget(p, s))
    BY <1>1, <2>1, <2>2 DEF Desired, LinkTarget
  <2>4. QED
    BY <1>4, <2>3 DEF Link, TypeOK
<1>5. QED
  BY <1>2, <1>3, <1>4 DEF Next, ReconcileStep, vars, cacheVars, List,
     Validate, ReadDeclarations, ReadScripts, LoadState, Loaded, CheckSlots, Report,
     Kill

\* Where continuity holds and no pass holds a stale snapshot, a reconcile
\* step, a kill included, changes neither the cache nor the record, unless its
\* pass could not read the record.
THEOREM ReconcileIdempotent == Spec => Idempotent
<1>1. TypeOK /\ QuietInv /\ [Next]_vars =>
        [Continuity /\ writes' = writes /\ (\A p \in Procs : quiet[p] /\ ~unread[p])
            => UNCHANGED <<entry, record>>]_vars
  BY IdempotentStep
<1>2. QED
  BY <1>1, QuietInvInit, QuietInvStep, TypeCorrect, PTL DEF Spec, Idempotent
=============================================================================
