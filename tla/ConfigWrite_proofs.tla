------------------------- MODULE ConfigWrite_proofs -------------------------
(***************************************************************************)
(* Proofs about ConfigWrite, for any set of writers, any settings and any  *)
(* number of Codex edits.                                                  *)
(***************************************************************************)
EXTENDS ConfigWrite, TLAPS

LEMMA FreshType == Fresh \in File
  BY MaxEditsAssumption DEF Fresh, File, Settings, Edits

\* What the new contents are, for a writer that has asked for something.
LEMMA UpdatedType ==
  ASSUME TypeOK, NEW w \in Writers, want[w] \in Requests
  PROVE  Updated(w) \in [Keys -> Settings]
  BY DEF TypeOK, Updated, File, Requests, Settings

\* Returning from a call keeps every variable it touches in its type.
LEMMA ReturnTypeOK ==
  ASSUME TypeOK, NEW w \in Writers,
         NEW how \in {"written", "unchanged", "refused", "timeout", "failed",
                      "killed"},
         Return(w, how), UNCHANGED <<file, landed, exposed>>
  PROVE  TypeOK'
<1>1. /\ pc' = [pc EXCEPT ![w] = "idle"]
      /\ outcome' = [outcome EXCEPT ![w] = how]
      /\ want' = [want EXCEPT ![w] = NoRequest]
      /\ text' = [text EXCEPT ![w] = Fresh]
      /\ temp' = [temp EXCEPT ![w] = "none"]
      /\ lock' = lock \ {w}
  BY DEF Return, Goto
<1>2. text' \in [Writers -> File]
  BY <1>1, FreshType DEF TypeOK
<1>3. want' \in [Writers -> Requests \union {NoRequest}]
  BY <1>1 DEF TypeOK
<1>4. QED
  BY <1>1, <1>2, <1>3 DEF TypeOK

\* A writer that waits for nothing any more holds the lock exactly while it
\* is inside, alone; its snapshot of the Driver's settings is current; of
\* Codex's part it is at most behind, and behind only if Codex has edited.
Locking ==
    /\ LockHeldInside
    /\ \A v, w \in lock : v = w

Asked(w) == pc[w] # "idle" => want[w] \in Requests

Snapshot(w) ==
    pc[w] \in {"read", "staging", "staged"} =>
        /\ text[w].driver = file.driver
        /\ text[w].codex <= file.codex
        /\ ~exposed[w] => text[w].codex = file.codex

Staging(w) ==
    /\ pc[w] \in {"staging", "staged"} => Updated(w) # text[w].driver
    /\ pc[w] = "staged" => temp[w] = "whole"

WriteInv ==
    /\ TypeOK
    /\ Locking
    /\ \A w \in Writers : Asked(w) /\ Snapshot(w) /\ Staging(w)
    /\ NoDriverUpdateLost
    /\ NeverTorn

LEMMA InitWriteInv == Init => WriteInv
<1> SUFFICES ASSUME Init PROVE WriteInv
  OBVIOUS
<1>1. TypeOK
  BY FreshType, MaxEditsAssumption DEF Init, TypeOK, Settings
<1>2. Locking
  BY DEF Init, Locking, LockHeldInside
<1>3. ASSUME NEW w \in Writers PROVE Asked(w) /\ Snapshot(w) /\ Staging(w)
  BY DEF Init, Asked, Snapshot, Staging
<1>4. NoDriverUpdateLost /\ NeverTorn
  BY DEF Init, NoDriverUpdateLost, NeverTorn, Fresh
<1>5. QED
  BY <1>1, <1>2, <1>3, <1>4 DEF WriteInv

\* What a step leaves alone of a writer leaves that writer's part of the
\* invariant alone, as long as the file is the same.
LEMMA OtherWriter ==
  ASSUME WriteInv, NEW v \in Writers, file' = file,
         pc'[v] = pc[v], want'[v] = want[v], text'[v] = text[v],
         temp'[v] = temp[v], exposed'[v] = exposed[v]
  PROVE  (Asked(v) /\ Snapshot(v) /\ Staging(v))'
<1>1. Updated(v)' = Updated(v)
  BY DEF Updated
<1>2. QED
  BY <1>1 DEF WriteInv, Asked, Snapshot, Staging

\* A return or a kill, at whatever point of the call.
LEMMA ReturnWriteInv ==
  ASSUME WriteInv, NEW w \in Writers,
         NEW how \in {"written", "unchanged", "refused", "timeout", "failed",
                      "killed"},
         Return(w, how), UNCHANGED <<file, landed, exposed>>
  PROVE  WriteInv'
<1>1. TypeOK'
  BY ReturnTypeOK DEF WriteInv
<1>2. /\ pc' = [pc EXCEPT ![w] = "idle"]
      /\ want' = [want EXCEPT ![w] = NoRequest]
      /\ text' = [text EXCEPT ![w] = Fresh]
      /\ temp' = [temp EXCEPT ![w] = "none"]
      /\ lock' = lock \ {w}
  BY DEF Return, Goto
<1>3. Locking'
  BY <1>2 DEF WriteInv, TypeOK, Locking, LockHeldInside
<1>4. ASSUME NEW v \in Writers PROVE (Asked(v) /\ Snapshot(v) /\ Staging(v))'
  <2>1. CASE v = w
    BY <1>2, <2>1 DEF WriteInv, TypeOK, Asked, Snapshot, Staging
  <2>2. CASE v # w
    BY <1>2, <2>2, OtherWriter DEF WriteInv, TypeOK
  <2>3. QED
    BY <2>1, <2>2
<1>5. QED
  BY <1>1, <1>3, <1>4 DEF WriteInv, NoDriverUpdateLost, NeverTorn

LEMMA CallInv ==
  ASSUME WriteInv, NEW w \in Writers, Call(w)
  PROVE  WriteInv'
<1>1. PICK r \in Requests : want' = [want EXCEPT ![w] = r]
  BY DEF Call
<1>2. TypeOK'
  BY <1>1 DEF WriteInv, TypeOK, Call, Goto
<1>3. Locking'
  BY DEF WriteInv, TypeOK, Locking, LockHeldInside, Call, Goto
<1>4. ASSUME NEW v \in Writers PROVE (Asked(v) /\ Snapshot(v) /\ Staging(v))'
  <2>1. CASE v = w
    BY <1>1, <2>1 DEF WriteInv, TypeOK, Asked, Snapshot, Staging, Call, Goto
  <2>2. CASE v # w
    BY <1>1, <2>2, OtherWriter DEF WriteInv, TypeOK, Call, Goto
  <2>3. QED
    BY <2>1, <2>2
<1>5. QED
  BY <1>2, <1>3, <1>4 DEF WriteInv, NoDriverUpdateLost, NeverTorn, Call

LEMMA TakeLockInv ==
  ASSUME WriteInv, NEW w \in Writers, TakeLock(w)
  PROVE  WriteInv'
<1>1. TypeOK'
  BY DEF WriteInv, TypeOK, TakeLock, Goto
<1>2. Locking'
  BY DEF WriteInv, TypeOK, Locking, LockHeldInside, TakeLock, Goto
<1>3. ASSUME NEW v \in Writers PROVE (Asked(v) /\ Snapshot(v) /\ Staging(v))'
  <2>1. CASE v = w
    BY <2>1 DEF WriteInv, TypeOK, Asked, Snapshot, Staging, TakeLock, Goto
  <2>2. CASE v # w
    BY <2>2, OtherWriter DEF WriteInv, TypeOK, TakeLock, Goto
  <2>3. QED
    BY <2>1, <2>2
<1>4. QED
  BY <1>1, <1>2, <1>3 DEF WriteInv, NoDriverUpdateLost, NeverTorn, TakeLock

LEMMA ReadTextInv ==
  ASSUME WriteInv, NEW w \in Writers, ReadText(w)
  PROVE  WriteInv'
<1>1. TypeOK'
  BY DEF WriteInv, TypeOK, ReadText, Goto
<1>2. Locking'
  BY DEF WriteInv, TypeOK, Locking, LockHeldInside, ReadText, Goto
<1>3. ASSUME NEW v \in Writers PROVE (Asked(v) /\ Snapshot(v) /\ Staging(v))'
  <2>1. CASE v = w
    <3>1. text'[w] = file /\ file' = file /\ pc'[w] = "read"
      BY DEF WriteInv, TypeOK, ReadText, Goto
    <3>2. file.codex \in Nat
      BY MaxEditsAssumption DEF WriteInv, TypeOK, File, Edits
    <3>3. Asked(w)'
      BY DEF WriteInv, Asked, ReadText
    <3>4. QED
      BY <2>1, <3>1, <3>2, <3>3 DEF Snapshot, Staging
  <2>2. CASE v # w
    BY <2>2, OtherWriter DEF WriteInv, TypeOK, ReadText, Goto
  <2>3. QED
    BY <2>1, <2>2
<1>4. QED
  BY <1>1, <1>2, <1>3 DEF WriteInv, NoDriverUpdateLost, NeverTorn, ReadText

LEMMA RewriteInv ==
  ASSUME WriteInv, NEW w \in Writers, Rewrite(w)
  PROVE  WriteInv'
<1>1. CASE \E how \in {"refused", "unchanged"} : Return(w, how)
  BY <1>1, ReturnWriteInv DEF Rewrite
<1>2. CASE /\ Updated(w) # text[w].driver
           /\ temp' = [temp EXCEPT ![w] = "torn"]
           /\ Goto(w, "staging")
           /\ UNCHANGED <<lock, want, text, outcome>>
  <2>1. TypeOK'
    BY <1>2 DEF WriteInv, TypeOK, Rewrite, Goto
  <2>2. Locking'
    BY <1>2 DEF WriteInv, TypeOK, Locking, LockHeldInside, Rewrite, Goto
  <2>3. ASSUME NEW v \in Writers
        PROVE  (Asked(v) /\ Snapshot(v) /\ Staging(v))'
    <3>1. CASE v = w
      <4>1. pc[w] = "read" /\ pc'[w] = "staging"
        BY <1>2 DEF WriteInv, TypeOK, Rewrite, Goto
      <4>2. Updated(w)' = Updated(w)
        BY <1>2 DEF Updated
      <4>3. QED
        BY <1>2, <3>1, <4>1, <4>2
           DEF WriteInv, Asked, Snapshot, Staging, Rewrite
    <3>2. CASE v # w
      BY <1>2, <3>2, OtherWriter DEF WriteInv, TypeOK, Rewrite, Goto
    <3>3. QED
      BY <3>1, <3>2
  <2>4. QED
    BY <2>1, <2>2, <2>3 DEF WriteInv, NoDriverUpdateLost, NeverTorn, Rewrite
<1>3. QED
  BY <1>1, <1>2 DEF Rewrite

LEMMA StageInv ==
  ASSUME WriteInv, NEW w \in Writers, Stage(w)
  PROVE  WriteInv'
<1>1. TypeOK'
  BY DEF WriteInv, TypeOK, Stage, Goto
<1>2. Locking'
  BY DEF WriteInv, TypeOK, Locking, LockHeldInside, Stage, Goto
<1>3. ASSUME NEW v \in Writers PROVE (Asked(v) /\ Snapshot(v) /\ Staging(v))'
  <2>1. CASE v = w
    <3>1. pc[w] = "staging" /\ pc'[w] = "staged" /\ temp'[w] = "whole"
      BY DEF WriteInv, TypeOK, Stage, Goto
    <3>2. Updated(w)' = Updated(w)
      BY DEF Updated, Stage
    <3>3. QED
      BY <2>1, <3>1, <3>2 DEF WriteInv, Asked, Snapshot, Staging, Stage
  <2>2. CASE v # w
    BY <2>2, OtherWriter DEF WriteInv, TypeOK, Stage, Goto
  <2>3. QED
    BY <2>1, <2>2
<1>4. QED
  BY <1>1, <1>2, <1>3 DEF WriteInv, NoDriverUpdateLost, NeverTorn, Stage

\* The one step that changes the Driver's settings. The others are outside
\* the locked region, so none of them has a snapshot that it makes stale.
LEMMA ReplaceInv ==
  ASSUME WriteInv, NEW w \in Writers, Replace(w)
  PROVE  WriteInv'
<1>1. /\ pc[w] = "staged" /\ pc'[w] = "replaced"
      /\ file' = [driver |-> Updated(w), codex |-> text[w].codex,
                  whole |-> temp[w] = "whole"]
      /\ landed' = [landed EXCEPT ![want[w].key] = want[w].value]
  BY DEF WriteInv, TypeOK, Replace, Goto
<1>2. want[w] \in Requests /\ temp[w] = "whole" /\ text[w].driver = file.driver
  BY <1>1 DEF WriteInv, Asked, Snapshot, Staging
<1>3. Updated(w) \in [Keys -> Settings]
  BY <1>2, UpdatedType DEF WriteInv
<1>4. TypeOK'
  <2>1. file' \in File
    BY <1>1, <1>3 DEF WriteInv, TypeOK, File
  <2>2. landed' \in [Keys -> Settings]
    BY <1>1, <1>2 DEF WriteInv, TypeOK, Requests, Settings
  <2>3. QED
    BY <2>1, <2>2 DEF WriteInv, TypeOK, Replace, Goto
<1>5. Locking'
  BY <1>1 DEF WriteInv, TypeOK, Locking, LockHeldInside, Replace, Goto
<1>6. ASSUME NEW v \in Writers PROVE (Asked(v) /\ Snapshot(v) /\ Staging(v))'
  <2>1. CASE v = w
    BY <1>1, <1>2, <2>1 DEF Asked, Snapshot, Staging, Replace
  <2>2. CASE v # w
    <3>1. pc[v] \notin {"read", "staging", "staged"} /\ pc'[v] = pc[v]
      BY <1>1, <2>2
         DEF WriteInv, TypeOK, Locking, LockHeldInside, Replace, Goto
    <3>2. QED
      BY <3>1 DEF WriteInv, Asked, Snapshot, Staging, Replace
  <2>3. QED
    BY <2>1, <2>2
<1>7. NoDriverUpdateLost'
  BY <1>1, <1>2 DEF WriteInv, NoDriverUpdateLost, Updated
<1>8. NeverTorn'
  BY <1>1, <1>2 DEF NeverTorn
<1>9. QED
  BY <1>4, <1>5, <1>6, <1>7, <1>8 DEF WriteInv

LEMMA CodexEditInv ==
  ASSUME WriteInv, CodexEdit
  PROVE  WriteInv'
<1>1. PICK e \in Edits : e > file.codex /\ file' = [file EXCEPT !.codex = e]
  BY DEF CodexEdit
<1>2. file' \in File /\ file'.driver = file.driver /\ file'.codex = e
      /\ file'.whole = file.whole
  BY <1>1 DEF WriteInv, TypeOK, File
<1>3. TypeOK'
  BY <1>2 DEF WriteInv, TypeOK, CodexEdit
<1>4. Locking'
  BY DEF WriteInv, Locking, LockHeldInside, CodexEdit
<1>5. ASSUME NEW v \in Writers PROVE (Asked(v) /\ Snapshot(v) /\ Staging(v))'
  <2>1. text[v].codex \in Nat /\ file.codex \in Nat /\ e \in Nat
    BY MaxEditsAssumption DEF WriteInv, TypeOK, File, Edits
  <2>2. Updated(v)' = Updated(v)
    BY DEF Updated, CodexEdit
  <2>3. exposed'[v]
    BY DEF CodexEdit
  <2>4. QED
    BY <1>1, <1>2, <2>1, <2>2, <2>3
       DEF WriteInv, Asked, Snapshot, Staging, CodexEdit
<1>6. QED
  BY <1>2, <1>3, <1>4, <1>5
     DEF WriteInv, NoDriverUpdateLost, NeverTorn, CodexEdit

LEMMA NextWriteInv == WriteInv /\ [Next]_vars => WriteInv'
<1> SUFFICES ASSUME WriteInv, [Next]_vars PROVE WriteInv'
  OBVIOUS
<1>1. ASSUME NEW w \in Writers, Call(w) PROVE WriteInv'
  BY <1>1, CallInv
<1>2. ASSUME NEW w \in Writers, WriterStep(w) PROVE WriteInv'
  <2>1. CASE LockTimeout(w)
    BY <2>1, ReturnWriteInv DEF LockTimeout
  <2>2. CASE Unlock(w)
    BY <2>2, ReturnWriteInv DEF Unlock
  <2>3. QED
    BY <1>2, <2>1, <2>2, TakeLockInv, ReadTextInv, RewriteInv, StageInv,
       ReplaceInv DEF WriterStep
<1>3. ASSUME NEW w \in Writers, Fail(w) PROVE WriteInv'
  BY <1>3, ReturnWriteInv DEF Fail
<1>4. ASSUME NEW w \in Writers, Kill(w) PROVE WriteInv'
  BY <1>4, ReturnWriteInv DEF Kill
<1>5. CASE CodexEdit
  BY <1>5, CodexEditInv
<1>6. CASE UNCHANGED vars
  <2>1. ASSUME NEW v \in Writers
        PROVE  (Asked(v) /\ Snapshot(v) /\ Staging(v))'
    BY <1>6, OtherWriter DEF vars
  <2>2. QED
    BY <1>6, <2>1 DEF WriteInv, TypeOK, Locking, LockHeldInside,
                      NoDriverUpdateLost, NeverTorn, vars
<1>7. QED
  BY <1>1, <1>2, <1>3, <1>4, <1>5, <1>6 DEF Next

LEMMA WriteInvariant == Spec => []WriteInv
  BY InitWriteInv, NextWriteInv, PTL DEF Spec

-----------------------------------------------------------------------------
\* Every reachable value has its type.
THEOREM TypeCorrect == Spec => []TypeOK
<1>1. WriteInv => TypeOK
  BY DEF WriteInv
<1>2. QED
  BY <1>1, WriteInvariant, PTL

\* rewrite_config never loses another Driver writer's setting, whatever the
\* writers, kills, failures and Codex edits.
THEOREM DriverUpdatesKept == Spec => []NoDriverUpdateLost
<1>1. WriteInv => NoDriverUpdateLost
  BY DEF WriteInv
<1>2. QED
  BY <1>1, WriteInvariant, PTL

\* A reader never sees a half-written config.toml.
THEOREM FileAlwaysWhole == Spec => []NeverTorn
<1>1. WriteInv => NeverTorn
  BY DEF WriteInv
<1>2. QED
  BY <1>1, WriteInvariant, PTL

\* The lock is held exactly by a writer inside the locked region.
THEOREM LockDiscipline == Spec => []LockHeldInside
<1>1. WriteInv => LockHeldInside
  BY DEF WriteInv, Locking
<1>2. QED
  BY <1>1, WriteInvariant, PTL

\* Codex's part is rolled back only by a writer during whose locked region
\* Codex edited the file.
THEOREM RollbackOnlyInWindow == Spec => CodexRollbackOnlyInWindow
<1>1. ASSUME WriteInv, [Next]_vars, NEW w \in Writers,
             pc'[w] = "replaced", pc[w] # "replaced", ~exposed[w]
      PROVE  file'.codex = file.codex
  <2>1. Replace(w)
    BY <1>1 DEF WriteInv, TypeOK, Next, WriterStep, Call, TakeLock,
       LockTimeout, ReadText, Rewrite, Stage, Replace, Unlock, Fail, Kill,
       CodexEdit, Return, Goto, vars
  <2>2. QED
    BY <1>1, <2>1 DEF WriteInv, Snapshot, Replace
<1>2. WriteInv /\ [Next]_vars =>
        [\A w \in Writers :
            pc'[w] = "replaced" /\ pc[w] # "replaced" /\ ~exposed[w]
                => file'.codex = file.codex]_vars
  BY <1>1
<1>3. QED
  BY <1>2, WriteInvariant, PTL DEF Spec, CodexRollbackOnlyInWindow

\* The only steps that change what AtomicConfig sees are the rename and
\* Codex's edit; each is a step of it.
LEMMA StepRefines ==
  ASSUME WriteInv, [Next]_vars
  PROVE  [Store!Next]_<<file.driver, file.codex>>
<1>1. ASSUME NEW w \in Writers, Replace(w) PROVE Store!DriverWrite
  <2>1. /\ want[w] \in Requests
        /\ text[w].driver = file.driver
        /\ text[w].codex <= file.codex
        /\ Updated(w) # text[w].driver
    BY <1>1 DEF WriteInv, Asked, Snapshot, Staging, Replace
  <2>2. /\ file'.driver = [file.driver EXCEPT ![want[w].key] = want[w].value]
        /\ file'.codex = text[w].codex
    BY <1>1, <2>1 DEF Replace, Updated
  <2>3. file.driver[want[w].key] # want[w].value
    BY <2>1 DEF Updated, WriteInv, TypeOK, File
  <2>4. file'.codex \in 0..file.codex
    BY <2>1, <2>2, MaxEditsAssumption DEF WriteInv, TypeOK, File, Edits
  <2>5. want[w].key \in Keys /\ want[w].value \in Values
    BY <2>1 DEF Requests
  <2>6. QED
    BY <2>2, <2>3, <2>4, <2>5 DEF Store!DriverWrite
<1>2. CASE CodexEdit
  <2>1. PICK e \in Edits : e > file.codex /\ file' = [file EXCEPT !.codex = e]
    BY <1>2 DEF CodexEdit
  <2>2. file'.codex = e /\ file'.driver = file.driver
    BY <2>1 DEF WriteInv, TypeOK, File
  <2>3. e \in (file.codex + 1)..MaxEdits
    BY <2>1, MaxEditsAssumption DEF WriteInv, TypeOK, File, Edits
  <2>4. QED
    BY <2>2, <2>3 DEF Store!Next, Store!CodexEdit
<1>3. CASE file' = file
  BY <1>3
<1>4. file' = file \/ CodexEdit \/ \E w \in Writers : Replace(w)
  BY DEF Next, WriterStep, Call, TakeLock, LockTimeout, ReadText, Rewrite,
     Stage, Unlock, Fail, Kill, vars
<1>5. QED
  BY <1>1, <1>2, <1>3, <1>4 DEF Store!Next

\* rewrite_config implements what it promises its callers.
THEOREM ImplementsAtomicConfig == Spec => RefinesAtomicConfig
<1>1. Init => Store!Init
  BY DEF Init, Fresh, Store!Init
<1>2. QED
  BY <1>1, StepRefines, WriteInvariant, PTL
     DEF Spec, RefinesAtomicConfig, Store!Spec
=============================================================================
