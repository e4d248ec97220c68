------------------------- MODULE HookInputs_proofs -------------------------
(***************************************************************************)
(* Proofs about the footgun guard, for any command, repository and         *)
(* failures of the probes, and about what the hooks make of their inputs,  *)
(* for inputs of any length, from the lemmas of HookTexts_proofs.          *)
(*                                                                         *)
(* KnownHolds ties the variables the guard remembers to the assignments it *)
(* has noted in the segments it has passed, Taken says what it takes a     *)
(* target for, which is what the target stands for as long as the guard    *)
(* follows the variable (TakenIsMeant). CacheRight ties the answers it     *)
(* remembers to the repository; Handled says what the targets behind it    *)
(* owe their passing to. Wrapped commands are judged by induction over the *)
(* wrappings, trust records over the lines of config.toml.                 *)
(***************************************************************************)
EXTENDS HookInputs, HookTexts_proofs

Visiting == {"first", "second", "ignore"}

\* The last segment whose assignment has been noted.
Noted == IF pc = "segment" THEN at - 1 ELSE at

Remembered(i, n, value) ==
    \/ value = Nothing /\ NotedBy(i, n) = {}
    \/ \E j \in NotedBy(i, n) :
            value = call[j].read /\ \A k \in NotedBy(i, n) : k <= j

\* What the guard takes a target of segment i for: the last value it has read.
Taken(i, word) ==
    IF word \notin Names THEN word
    ELSE IF NotedBy(i, word) = {} THEN Here ELSE call[Latest(NotedBy(i, word))].read

KnownHolds ==
    pc \in Visiting \union {"segment", "git"} =>
        \A n \in Names : Remembered(Noted, n, known[n])

CacheRight ==
    \A p \in Paths : /\ cache[Folder[p]] = "yes" => p \in Primary
                     /\ cache[Folder[p]] = "no" => p \notin Primary

Judged ==
    /\ pc \in {"second", "ignore"} =>
        IF primary THEN File \in Primary
        ELSE File \in Primary => <<at, target>> \in unanswered
    /\ pc = "ignore" => File \in Below

\* The target is allowed, or its probe went unanswered.
Passed(i, t) ==
    Taken(i, call[i].targets[t]) \in Refusable => <<i, t>> \in unanswered

\* The guard has gone past target t of segment i.
Behind(i, t) ==
    \/ verdict = "pass"
    \/ pc \in Visiting \union {"segment", "git"} /\ i < at
    \/ pc \in Visiting /\ i = at /\ t < target
    \/ pc = "git" /\ i = at

Handled ==
    \A i \in DOMAIN call : \A t \in DOMAIN call[i].targets :
        call[i].lexes /\ i \notin raised /\ Behind(i, t) => Passed(i, t)

\* What is refused is taken for a file of a primary checkout.
RefusalsTaken ==
    verdict = "primary" => Taken(at, call[at].targets[target]) \in Primary

Inv ==
    /\ TypeOK /\ KnownHolds /\ CacheRight /\ Judged /\ Handled
    /\ pc # "done" => verdict = Nothing
    /\ pc = "idle" => at = 1 /\ known = [n \in Names |-> Nothing]
    /\ RefusalsTaken

-----------------------------------------------------------------------------
(***************************************************************************)
(* Type correctness.                                                       *)
(***************************************************************************)
LEMMA SegmentTypes ==
  ASSUME NEW s \in Segments
  PROVE  /\ s.kills \in BOOLEAN /\ s.hints \in BOOLEAN /\ s.lexes \in BOOLEAN
         /\ s.assigns \in Names \union {Nothing} /\ s.value \in Paths
         /\ s.read \in Paths \union {Nothing} /\ s.lasts \in BOOLEAN
         /\ s.targets \in Seq(Paths \union Names)
         /\ s.git \in Reasons \union {Nothing}
  BY SegmentAssumption

LEMMA CallTypes ==
  ASSUME TypeOK, NEW i \in DOMAIN call
  PROVE  /\ call[i] \in Segments
         /\ i \in Nat \ {0}
         /\ call[i].targets \in Seq(Paths \union Names)
         /\ DOMAIN call[i].targets = 1..Len(call[i].targets)
         /\ Len(call[i].targets) \in Nat
         /\ \A t \in DOMAIN call[i].targets :
                call[i].targets[t] \in Paths \union Names /\ t \in Nat \ {0}
<1>1. call[i] \in Segments /\ i \in Nat \ {0}
  BY DEF TypeOK
<1>2. call[i].targets \in Seq(Paths \union Names)
  BY <1>1, SegmentTypes
<1>3. QED
  BY <1>1, <1>2

\* While a target is judged, it stands for a file.
LEMMA FileIsPath ==
  ASSUME TypeOK, at \in DOMAIN call, target \in DOMAIN call[at].targets
  PROVE  File \in Paths /\ Folder[File] \in Folders
<1>1. call[at].targets[target] \in Paths \union Names
  BY CallTypes
<1>2. File \in Paths
  BY <1>1, PathAssumption DEF File, Resolved, TypeOK
<1>3. QED
  BY <1>2 DEF Folders

LEMMA EscapeTypes ==
  ASSUME NEW command, Escape(command)
  PROVE  pc' = "done" /\ verdict' \in {"hazard", "pass"}
  BY DEF Escape, Decide

LEMMA JudgeTypes ==
  ASSUME TypeOK, NEW b, Judge(b)
  PROVE  /\ pc' \in {"first", "done"}
         /\ target' \in Nat \ {0}
         /\ verdict' \in Verdicts
  BY DEF Judge, Decide, TypeOK, Verdicts

LEMMA TypeInit == Init => TypeOK
<1> SUFFICES ASSUME Init PROVE TypeOK
  OBVIOUS
<1>1. cache \in [Folders -> {"yes", "no", Nothing}]
  BY DEF Init, Unknown
<1>2. call \in Seq(Segments)
  BY DEF Init
<1>3. known \in [Names -> Paths \union {Nothing}]
  BY DEF Init
<1>4. unanswered \subseteq Nat \X Nat /\ raised \subseteq Nat
  BY DEF Init
<1>5. pc = "idle" /\ verdict \in Verdicts
  BY DEF Init, Verdicts
<1>6. at \in Nat \ {0} /\ target \in Nat \ {0}
  BY DEF Init
<1>7. primary \in BOOLEAN
  BY DEF Init
<1>8. /\ pc \in {"idle", "segment", "first", "second", "ignore", "git", "done"}
      /\ pc \notin {"first", "second", "ignore", "git"}
      /\ pc \notin {"second", "ignore"}
  BY <1>5
<1>9. QED
  BY <1>1, <1>2, <1>3, <1>4, <1>5, <1>6, <1>7, <1>8, Zenon DEF TypeOK

LEMMA TypeStep == TypeOK /\ [Next]_vars => TypeOK'
<1> SUFFICES ASSUME TypeOK, [Next]_vars PROVE TypeOK'
  OBVIOUS
<1>1. ASSUME NEW command \in Seq(Segments), Start(command) PROVE TypeOK'
  <2>1. call' \in Seq(Segments) /\ DOMAIN command \subseteq Nat
    BY <1>1 DEF Start
  <2>2. pc' \in {"segment", "done"} /\ verdict' \in Verdicts
    BY <1>1, EscapeTypes DEF Start, TypeOK, Verdicts
  <2>3. raised' \subseteq Nat
    BY <1>1, <2>1 DEF Start, TypeOK
  <2>4. QED
    BY <1>1, <2>1, <2>2, <2>3 DEF Start, TypeOK
<1>2. CASE Segment
  <2>1. CASE at \notin DOMAIN call
    BY <1>2, <2>1 DEF Segment, Decide, TypeOK, Verdicts
  <2>2. CASE at \in DOMAIN call /\ call[at].kills
    BY <1>2, <2>2 DEF Segment, Decide, TypeOK, Verdicts
  <2>3. CASE at \in DOMAIN call /\ ~call[at].kills /\ ~call[at].lexes
    BY <1>2, <2>3 DEF Segment, NextSegment, TypeOK
  <2>4. CASE at \in DOMAIN call /\ ~call[at].kills /\ call[at].lexes
    <3>1. call[at].assigns \in Names \union {Nothing} /\ call[at].read \in Paths \union {Nothing}
      BY <2>4, CallTypes, SegmentTypes
    <3>2. known' \in [Names -> Paths \union {Nothing}]
      BY <1>2, <2>4, <3>1 DEF Segment, TypeOK
    <3>3. QED
      BY <1>2, <2>4, <3>2 DEF Segment, TypeOK
  <2>5. QED
    BY <2>1, <2>2, <2>3, <2>4, CallTypes, SegmentTypes
<1>3. CASE ProbePrimary
  <2>1. CASE target \notin DOMAIN call[at].targets
    BY <1>3, <2>1 DEF ProbePrimary, TypeOK
  <2>2. CASE target \in DOMAIN call[at].targets
    <3>1. File \in Paths /\ Folder[File] \in Folders
      BY <1>3, <2>2, FileIsPath DEF ProbePrimary, TypeOK
    <3>2. primary' \in BOOLEAN /\ cache' \in [Folders -> {"yes", "no", Nothing}]
      <4>1. cache \in [Folders -> {"yes", "no", Nothing}]
        BY DEF TypeOK
      <4>2. CASE UNCHANGED cache /\ primary' \in BOOLEAN
        BY <4>1, <4>2
      <4>3. CASE /\ primary' = (File \in Primary)
                 /\ cache' = [cache EXCEPT ![Folder[File]] =
                                IF File \in Primary THEN "yes" ELSE "no"]
        BY <4>1, <4>3, <3>1
      <4>4. QED
        BY <1>3, <2>2, <4>2, <4>3 DEF ProbePrimary, Unanswered
    <3>3. unanswered' \subseteq Nat \X Nat
      BY <1>3, <2>2 DEF ProbePrimary, Unanswered, TypeOK
    <3>4. QED
      BY <1>3, <2>2, <3>2, <3>3 DEF ProbePrimary, TypeOK
  <2>3. QED
    BY <2>1, <2>2
<1>4. CASE ProbeRoot
  <2>1. CASE Judge(FALSE)
    BY <1>4, <2>1, JudgeTypes DEF ProbeRoot, TypeOK
  <2>2. CASE pc' = "ignore" /\ UNCHANGED <<target, verdict>>
    BY <1>4, <2>2 DEF ProbeRoot, TypeOK
  <2>3. QED
    BY <1>4, <2>1, <2>2 DEF ProbeRoot
<1>5. CASE CheckIgnore
  <2>0. Remaining \subseteq Nat /\ at \in Nat
    BY DEF Remaining, TypeOK
  <2>1. CASE Judge(File \in Ignored) /\ UNCHANGED raised
    <3>1. pc' \in {"first", "done"} /\ target' \in Nat \ {0} /\ verdict' \in Verdicts
      BY <2>1, JudgeTypes
    <3>2. QED
      BY <1>5, <2>1, <3>1 DEF CheckIgnore, TypeOK
  <2>2. CASE Escape(call) /\ raised' = raised \union Remaining /\ UNCHANGED target
    BY <1>5, <2>2, <2>0, EscapeTypes DEF CheckIgnore, TypeOK, Verdicts
  <2>3. QED
    BY <1>5, <2>1, <2>2 DEF CheckIgnore
<1>6. CASE JudgeGit
  <2>1. call[at].git \in Reasons \union {Nothing}
    BY <1>6, CallTypes, SegmentTypes DEF JudgeGit, TypeOK
  <2>2. QED
    BY <1>6, <2>1 DEF JudgeGit, Decide, NextSegment, TypeOK, Verdicts
<1>7. CASE Killed
  <2>1. Remaining \subseteq Nat
    BY DEF Remaining, TypeOK
  <2>2. QED
    BY <1>7, <2>1 DEF Killed, Decide, TypeOK, Verdicts
<1>8. CASE GiveUpTargets
  BY <1>8 DEF GiveUpTargets, TypeOK
<1>9. CASE UNCHANGED vars
  BY <1>9 DEF vars, TypeOK
<1>10. QED
  BY <1>1, <1>2, <1>3, <1>4, <1>5, <1>6, <1>7, <1>8, <1>9 DEF Next

\* The guard's variables keep their types, for any command and repository.
THEOREM TypeCorrect == Spec => []TypeOK
  BY TypeInit, TypeStep, PTL DEF Spec

-----------------------------------------------------------------------------
(***************************************************************************)
(* What the guard remembers is what it has read last, and as long as it    *)
(* follows a variable that is what holds when the command runs.            *)
(***************************************************************************)
LEMMA RememberedIsTaken ==
  ASSUME TypeOK, NEW i \in Nat, NEW w \in Names, Remembered(i, w, known[w])
  PROVE  Taken(i, w) = IF known[w] = Nothing THEN Here ELSE known[w]
<1>1. CASE known[w] = Nothing /\ NotedBy(i, w) = {}
  BY <1>1 DEF Taken
<1>2. ASSUME NEW j \in NotedBy(i, w), known[w] = call[j].read,
             \A k \in NotedBy(i, w) : k <= j
      PROVE  Taken(i, w) = IF known[w] = Nothing THEN Here ELSE known[w]
  <2>1. j \in DOMAIN call /\ \A k \in NotedBy(i, w) : k \in Nat
    BY DEF NotedBy, TypeOK
  <2>2. known[w] # Nothing
    BY <1>2 DEF NotedBy
  <2>3. \A l \in NotedBy(i, w) :
            (\A k \in NotedBy(i, w) : k <= l) => l = j
    BY <1>2, <2>1
  <2>4. j = Latest(NotedBy(i, w))
    BY <1>2, <2>3 DEF Latest
  <2>5. Taken(i, w) = call[j].read
    BY <2>4 DEF Taken
  <2>6. QED
    BY <1>2, <2>2, <2>5
<1>3. QED
  BY <1>1, <1>2 DEF Remembered

\* A target the guard follows stands for what it is taken for.
LEMMA TakenIsMeant ==
  ASSUME NEW i, NEW w, Follows(i, w)
  PROVE  Taken(i, w) = Means(i, w)
  BY DEF Follows, Taken, Means

LEMMA FileIsTaken ==
  ASSUME TypeOK, KnownHolds, pc \in Visiting, target \in DOMAIN call[at].targets
  PROVE  Taken(at, call[at].targets[target]) = File
<1> DEFINE w == call[at].targets[target]
<1>1. w \in Paths \union Names /\ at \in Nat
  BY CallTypes DEF TypeOK, Visiting
<1>2. CASE w \notin Names
  BY <1>2 DEF Taken, File, Resolved
<1>3. CASE w \in Names
  <2>1. Remembered(at, w, known[w])
    BY <1>3 DEF KnownHolds, Noted, Visiting
  <2> HIDE DEF w
  <2>2. Taken(at, w) = IF known[w] = Nothing THEN Here ELSE known[w]
    BY <1>1, <1>3, <2>1, RememberedIsTaken
  <2>3. QED
    BY <1>3, <2>2 DEF File, Resolved, w
<1>4. QED
  BY <1>2, <1>3

\* A segment that assigns n nothing that can be read changes nothing about n.
LEMMA NothingSet ==
  ASSUME TypeOK, NEW i \in Nat \ {0}, NEW n,
         i \in DOMAIN call =>
            ~(call[i].lexes /\ call[i].assigns = n /\ call[i].read # Nothing)
  PROVE  NotedBy(i, n) = NotedBy(i - 1, n)
  BY DEF NotedBy, TypeOK

LEMMA SameCall ==
  ASSUME UNCHANGED call, NEW i, NEW n
  PROVE  /\ NotedBy(i, n)' = NotedBy(i, n)
         /\ Taken(i, n)' = Taken(i, n)
<1>1. NotedBy(i, n)' = NotedBy(i, n)
  BY DEF NotedBy
<1>2. QED
  BY <1>1 DEF Taken, NotedBy, Latest

LEMMA SameKnown ==
  ASSUME UNCHANGED <<call, known>>, Noted' = Noted, KnownHolds,
         pc \in Visiting \union {"segment", "git"}
  PROVE  KnownHolds'
<1> SUFFICES ASSUME NEW n \in Names PROVE Remembered(Noted, n, known[n])'
  BY DEF KnownHolds
<1>1. Remembered(Noted, n, known[n])
  BY DEF KnownHolds
<1>2. QED
  BY <1>1, SameCall DEF Remembered

LEMMA KnownStep ==
  ASSUME Inv, Next
  PROVE  KnownHolds'
<1> USE DEF Inv
<1>1. ASSUME NEW command \in Seq(Segments), Start(command) PROVE KnownHolds'
  <2>1. CASE pc' = "segment"
    <3>1. Noted' = 0
      BY <1>1, <2>1 DEF Start, Noted
    <3>2. \A n \in Names : NotedBy(0, n)' = {} /\ known'[n] = Nothing
      BY <1>1 DEF Start, NotedBy
    <3>3. QED
      BY <3>1, <3>2 DEF KnownHolds, Remembered
  <2>2. CASE pc' = "done"
    BY <2>2 DEF KnownHolds, Visiting
  <2>3. QED
    BY <1>1, <2>1, <2>2, EscapeTypes DEF Start
<1>2. CASE Segment
  <2>1. CASE pc' = "done"
    BY <2>1 DEF KnownHolds, Visiting
  <2>2. CASE at \in DOMAIN call /\ ~call[at].lexes /\ NextSegment /\ UNCHANGED <<target, known>>
    <3>0. PICK i \in Nat \ {0} : i = at
      BY DEF TypeOK
    <3>1. Noted = i - 1 /\ Noted' = i
      BY <1>2, <2>2, <3>0 DEF Segment, NextSegment, Noted
    <3>2. ASSUME NEW n \in Names PROVE Remembered(Noted, n, known[n])'
      <4>1. Remembered(i - 1, n, known[n])
        BY <1>2, <3>1 DEF KnownHolds, Segment
      <4>2. NotedBy(i, n)' = NotedBy(i - 1, n)
        BY <1>2, <2>2, <3>0, NothingSet, SameCall DEF Segment
      <4>3. Remembered(i, n, known[n])'
        BY <1>2, <2>2, <4>1, <4>2 DEF Remembered, Segment
      <4>4. QED
        BY <3>1, <4>3 DEF Remembered
    <3>3. QED
      BY <3>2 DEF KnownHolds
  <2>3. CASE at \in DOMAIN call /\ call[at].lexes /\ pc' = "first"
    <3>0. PICK i \in Nat \ {0} : i = at
      BY DEF TypeOK
    <3>1. Noted = i - 1 /\ Noted' = i
      BY <1>2, <2>3, <3>0, CallTypes, SegmentTypes DEF Segment, Noted, Decide, NextSegment
    <3>2. /\ UNCHANGED call
          /\ known' = IF call[i].assigns = Nothing \/ call[i].read = Nothing THEN known
                      ELSE [known EXCEPT ![call[i].assigns] = call[i].read]
      BY <1>2, <2>3, <3>0, CallTypes, SegmentTypes DEF Segment, Decide, NextSegment
    <3>3. ASSUME NEW n \in Names PROVE Remembered(i, n, known[n])'
      <4>1. CASE n = call[i].assigns /\ call[i].read # Nothing
        <5>1. known'[n] = call[i].read
          BY <3>2, <4>1, NameAssumption DEF TypeOK
        <5>2. i \in NotedBy(i, n) /\ \A k \in NotedBy(i, n) : k <= i
          BY <2>3, <3>0, <4>1 DEF NotedBy
        <5>3. i \in NotedBy(i, n)' /\ \A k \in NotedBy(i, n)' : k <= i
          BY <3>2, <5>2, SameCall
        <5>4. QED
          BY <3>2, <5>1, <5>3 DEF Remembered
      <4>2. CASE n # call[i].assigns \/ call[i].read = Nothing
        <5>1. known'[n] = known[n]
          BY <3>2, <4>2 DEF TypeOK
        <5>2. NotedBy(i, n)' = NotedBy(i - 1, n)
          BY <3>2, <4>2, NothingSet, SameCall
        <5>3. Remembered(i - 1, n, known[n])
          BY <1>2, <3>1 DEF KnownHolds, Segment
        <5>4. QED
          BY <3>2, <5>1, <5>2, <5>3 DEF Remembered
      <4>3. QED
        BY <4>1, <4>2
    <3>4. ASSUME NEW n \in Names PROVE Remembered(Noted, n, known[n])'
      BY <3>1, <3>3 DEF Remembered
    <3>5. QED
      BY <3>4 DEF KnownHolds
  <2>4. QED
    BY <1>2, <2>1, <2>2, <2>3, CallTypes, SegmentTypes DEF Segment, Decide
<1>3. CASE ProbePrimary
  BY <1>3, SameKnown DEF ProbePrimary, Noted, Visiting
<1>4. CASE ProbeRoot
  <2>1. UNCHANGED <<call, known, at>> /\ pc' \in {"first", "done", "ignore"} /\ pc = "second"
    BY <1>4, JudgeTypes DEF ProbeRoot
  <2>2. QED
    BY <2>1, SameKnown DEF Noted, Visiting
<1>5. CASE CheckIgnore
  <2>1. UNCHANGED <<call, known, at>> /\ pc' \in {"first", "done"} /\ pc = "ignore"
    BY <1>5, JudgeTypes, EscapeTypes DEF CheckIgnore
  <2>2. QED
    BY <2>1, SameKnown DEF Noted, Visiting
<1>6. CASE JudgeGit
  <2>1. CASE pc' = "done"
    BY <2>1 DEF KnownHolds, Visiting
  <2>2. CASE NextSegment
    <3>1. Noted' = Noted
      BY <1>6, <2>2 DEF JudgeGit, NextSegment, Noted, TypeOK
    <3>2. QED
      BY <1>6, <2>2, <3>1, SameKnown DEF JudgeGit, NextSegment
  <2>3. QED
    BY <1>6, <2>1, <2>2 DEF JudgeGit, Decide
<1>7. CASE Killed
  BY <1>7 DEF Killed, Decide, KnownHolds, Visiting
<1>8. CASE GiveUpTargets
  BY <1>8, SameKnown DEF GiveUpTargets, Noted, Visiting
<1>9. QED
  BY <1>1, <1>2, <1>3, <1>4, <1>5, <1>6, <1>7, <1>8 DEF Next

-----------------------------------------------------------------------------
(***************************************************************************)
(* Only definitive answers are cached, and what was probed is known.       *)
(***************************************************************************)
\* A target is probed: it goes unanswered, or its folder has an answer.
LEMMA Probed ==
  ASSUME Inv, ProbePrimary, target \in DOMAIN call[at].targets
  PROVE  /\ CacheRight'
         /\ IF primary' THEN File \in Primary
            ELSE File \in Primary => <<at, target>> \in unanswered'
<1> DEFINE f == Folder[File]
<1>0. File \in Paths /\ f \in Folders /\ CacheRight
  BY FileIsPath DEF Inv, ProbePrimary, TypeOK
<1>1. CASE cache[f] # Nothing /\ primary' = (cache[f] = "yes") /\ UNCHANGED cache
  <2>1. cache[f] \in {"yes", "no"}
    BY <1>0, <1>1 DEF Inv, TypeOK
  <2>2. IF primary' THEN File \in Primary ELSE File \notin Primary
    BY <1>0, <1>1, <2>1 DEF CacheRight
  <2>3. QED
    BY <1>0, <1>1, <2>2 DEF CacheRight
<1>2. CASE Unanswered
  BY <1>0, <1>2 DEF Unanswered, CacheRight
<1>3. CASE /\ primary' = (File \in Primary)
           /\ cache' = [cache EXCEPT ![f] = IF File \in Primary THEN "yes" ELSE "no"]
  <2>1. ASSUME NEW p \in Paths
        PROVE  /\ cache'[Folder[p]] = "yes" => p \in Primary
               /\ cache'[Folder[p]] = "no" => p \notin Primary
    <3>1. CASE Folder[p] = f
      <4>1. p \in Primary <=> File \in Primary
        BY <1>0, <3>1, PathAssumption
      <4>2. cache'[Folder[p]] = IF File \in Primary THEN "yes" ELSE "no"
        BY <1>0, <1>3, <3>1 DEF Inv, TypeOK
      <4>3. QED
        BY <4>1, <4>2
    <3>2. CASE Folder[p] # f
      <4>1. cache'[Folder[p]] = cache[Folder[p]]
        BY <1>3, <3>2 DEF Inv, TypeOK, Folders
      <4>2. QED
        BY <1>0, <4>1 DEF CacheRight
    <3>3. QED
      BY <3>1, <3>2
  <2>2. QED
    BY <1>3, <2>1 DEF CacheRight
<1>4. QED
  BY <1>1, <1>2, <1>3 DEF ProbePrimary

LEMMA CacheStep ==
  ASSUME Inv, Next
  PROVE  CacheRight'
<1>1. CASE UNCHANGED cache
  BY <1>1 DEF Inv, CacheRight
<1>2. CASE ProbePrimary
  BY <1>1, <1>2, Probed DEF ProbePrimary
<1>3. QED
  BY <1>1, <1>2 DEF Next, Start, Segment, ProbeRoot, CheckIgnore, JudgeGit, Killed,
     GiveUpTargets

LEMMA JudgedStep ==
  ASSUME Inv, Next
  PROVE  Judged'
<1>1. CASE pc' \notin {"second", "ignore"}
  BY <1>1 DEF Judged
<1>2. CASE ProbePrimary /\ pc' = "second"
  <2>1. target \in DOMAIN call[at].targets
    BY <1>2, SMTT(60) DEF ProbePrimary
  <2>2. File' = File /\ UNCHANGED <<at, target>>
    BY <1>2 DEF ProbePrimary, File, Resolved
  <2>3. QED
    BY <1>2, <2>1, <2>2, Probed DEF Judged
<1>3. CASE ProbeRoot /\ pc' = "ignore"
  <2>1. /\ pc = "second" /\ File \in Below
        /\ UNCHANGED <<call, at, target, known, primary, unanswered>>
    BY <1>3 DEF ProbeRoot, Judge, Decide
  <2>2. File' = File
    BY <2>1 DEF File, Resolved
  <2>3. QED
    BY <2>1, <2>2 DEF Judged, Inv
<1>4. ASSUME NEW command, Start(command) PROVE pc' \in {"segment", "done"}
  BY <1>4, EscapeTypes DEF Start
<1>5. Segment => pc' \in {"segment", "first", "done"}
  BY DEF Segment, Decide, NextSegment
<1>6. ProbePrimary => pc' \in {"second", "git"}
  BY DEF ProbePrimary
<1>7. ProbeRoot => pc' \in {"first", "done", "ignore"}
  BY JudgeTypes DEF ProbeRoot, Inv
<1>8. CheckIgnore => pc' \in {"first", "done"}
  BY JudgeTypes, EscapeTypes DEF CheckIgnore, Inv
<1>9. JudgeGit => pc' \in {"segment", "done"}
  BY DEF JudgeGit, Decide, NextSegment
<1>10. (Killed => pc' = "done") /\ (GiveUpTargets => pc' = "git")
  BY DEF Killed, GiveUpTargets, Decide
<1>11. QED
  BY <1>1, <1>2, <1>3, <1>4, <1>5, <1>6, <1>7, <1>8, <1>9, <1>10 DEF Next

-----------------------------------------------------------------------------
(***************************************************************************)
(* What the guard has gone past owes its passing to something.             *)
(***************************************************************************)
LEMMA StillPassed ==
  ASSUME UNCHANGED call, unanswered \subseteq unanswered', NEW i, NEW t, Passed(i, t)
  PROVE  Passed(i, t)'
<1>1. Taken(i, call[i].targets[t])' = Taken(i, call[i].targets[t])
  BY DEF Taken, NotedBy, Latest
<1>2. QED
  BY <1>1 DEF Passed

\* Nothing more need be shown than that what is newly behind has passed.
LEMMA KeepsHandled ==
  ASSUME Inv, UNCHANGED call, unanswered \subseteq unanswered', raised \subseteq raised',
         \A i \in DOMAIN call : \A t \in DOMAIN call[i].targets :
            call[i].lexes /\ i \notin raised' /\ Behind(i, t)' =>
                Behind(i, t) \/ Passed(i, t)
  PROVE  Handled'
<1> SUFFICES ASSUME NEW i \in DOMAIN call, NEW t \in DOMAIN call[i].targets,
                    call[i].lexes, i \notin raised', Behind(i, t)'
             PROVE  Passed(i, t)'
  BY DEF Handled
<1>1. Passed(i, t)
  BY DEF Inv, Handled
<1>2. QED
  BY <1>1, StillPassed

\* A target the guard lets pass.
LEMMA JudgePasses ==
  ASSUME Inv, pc \in {"second", "ignore"}, NEW b, Judge(b),
         b => File \in Below \intersect Ignored, pc' = "first"
  PROVE  Passed(at, target)
<1>1. Taken(at, call[at].targets[target]) = File
  BY FileIsTaken DEF Inv, TypeOK, Visiting
<1>2. ~primary \/ b
  BY DEF Judge, Decide
<1>3. CASE b
  BY <1>1, <1>3 DEF Passed, Refusable
<1>4. CASE ~primary
  BY <1>1, <1>4 DEF Passed, Refusable, Inv, Judged
<1>5. QED
  BY <1>2, <1>3, <1>4

LEMMA JudgeHandles ==
  ASSUME Inv, pc \in {"second", "ignore"}, NEW b, Judge(b),
         b => File \in Below \intersect Ignored,
         UNCHANGED <<call, at, unanswered, raised>>
  PROVE  Handled'
<1>1. CASE pc' = "done"
  BY <1>1, KeepsHandled DEF Judge, Decide, Behind, Visiting
<1>2. CASE pc' = "first"
  <2>1. Passed(at, target) /\ target' = target + 1 /\ UNCHANGED verdict
    BY <1>2, JudgePasses DEF Judge, Decide
  <2>2. ASSUME NEW i \in DOMAIN call, NEW t \in DOMAIN call[i].targets, Behind(i, t)'
        PROVE  Behind(i, t) \/ Passed(i, t)
    <3>1. t \in Nat /\ target \in Nat
      BY CallTypes DEF Inv, TypeOK
    <3>2. CASE i = at /\ t = target
      BY <2>1, <3>2
    <3>3. CASE ~(i = at /\ t = target)
      BY <1>2, <2>1, <2>2, <3>1, <3>3 DEF Behind, Visiting
    <3>4. QED
      BY <3>2, <3>3
  <2>3. QED
    BY <2>2, KeepsHandled
<1>3. QED
  BY <1>1, <1>2, JudgeTypes DEF Inv

LEMMA HandledStep ==
  ASSUME Inv, Next
  PROVE  Handled'
<1>1. ASSUME NEW command \in Seq(Segments), Start(command) PROVE Handled'
  <2>1. CASE pc' = "segment" /\ UNCHANGED <<verdict, raised>>
    <3>1. at' = 1 /\ verdict' = Nothing
      BY <1>1, <2>1 DEF Start, Inv
    <3>2. ASSUME NEW i \in DOMAIN command, NEW t PROVE ~Behind(i, t)'
      BY <2>1, <3>1, <3>2 DEF Behind, Visiting, Nothing
    <3>3. QED
      BY <1>1, <3>2 DEF Start, Handled
  <2>2. CASE raised' = DOMAIN command
    BY <1>1, <2>2 DEF Start, Handled
  <2>3. QED
    BY <1>1, <2>1, <2>2 DEF Start
<1>2. CASE Segment
  <2>0. UNCHANGED <<call, unanswered, raised>> /\ at \in Nat \ {0}
    BY <1>2 DEF Segment, Inv, TypeOK
  <2>1. CASE at \notin DOMAIN call
    <3>1. \A i \in DOMAIN call : i < at
      BY <2>0, <2>1 DEF Inv, TypeOK
    <3>2. \A i \in DOMAIN call : \A t : Behind(i, t)
      BY <1>2, <3>1 DEF Behind, Segment
    <3>3. QED
      BY <2>0, <3>2, KeepsHandled
  <2>2. CASE pc' = "done" /\ verdict' = "tmux"
    BY <2>0, <2>2, KeepsHandled DEF Behind, Visiting
  <2>3. CASE at \in DOMAIN call /\ ~call[at].lexes /\ NextSegment
    <3>1. ASSUME NEW i \in DOMAIN call, NEW t, call[i].lexes, Behind(i, t)'
          PROVE  Behind(i, t)
      <4>1. i \in Nat /\ i # at
        BY <2>3, <3>1, CallTypes DEF Inv
      <4>2. verdict' = verdict /\ pc' = "segment" /\ at' = at + 1 /\ pc = "segment"
        BY <1>2, <2>3 DEF Segment, NextSegment
      <4>3. QED
        BY <2>0, <3>1, <4>1, <4>2 DEF Behind, Visiting
    <3>2. QED
      BY <2>0, <3>1, KeepsHandled
  <2>4. CASE pc' = "first" /\ target' = 1 /\ UNCHANGED <<at, verdict>>
    <3>1. ASSUME NEW i \in DOMAIN call, NEW t \in DOMAIN call[i].targets, Behind(i, t)'
          PROVE  Behind(i, t)
      <4>1. t \in Nat \ {0}
        BY CallTypes DEF Inv
      <4>2. QED
        BY <1>2, <2>4, <3>1, <4>1 DEF Behind, Visiting, Segment
    <3>2. QED
      BY <2>0, <3>1, KeepsHandled
  <2>5. QED
    BY <1>2, <2>1, <2>2, <2>3, <2>4, CallTypes, SegmentTypes DEF Segment, Decide, Inv
<1>3. CASE ProbePrimary
  <2>1. /\ UNCHANGED <<call, at, target, verdict, raised>>
        /\ unanswered \subseteq unanswered' /\ pc = "first"
    BY <1>3 DEF ProbePrimary, Unanswered
  <2>2. CASE pc' = "second"
    <3>1. \A i \in DOMAIN call : \A t : Behind(i, t)' => Behind(i, t)
      BY <2>1, <2>2 DEF Behind, Visiting
    <3>2. QED
      BY <2>1, <3>1, KeepsHandled
  <2>3. CASE pc' = "git" /\ target \notin DOMAIN call[at].targets
    <3>1. ASSUME NEW i \in DOMAIN call, NEW t \in DOMAIN call[i].targets, Behind(i, t)'
          PROVE  Behind(i, t)
      <4>1. i = at => t < target
        BY <2>3, CallTypes DEF Inv, TypeOK
      <4>2. QED
        BY <2>1, <2>3, <3>1, <4>1 DEF Behind, Visiting
    <3>2. QED
      BY <2>1, <3>1, KeepsHandled
  <2>4. QED
    BY <1>3, <2>2, <2>3 DEF ProbePrimary
<1>4. CASE ProbeRoot
  <2>1. pc = "second" /\ UNCHANGED <<call, at, unanswered, raised>>
    BY <1>4 DEF ProbeRoot
  <2>2. CASE Judge(FALSE)
    BY <2>1, <2>2, JudgeHandles
  <2>3. CASE pc' = "ignore" /\ UNCHANGED <<target, verdict>>
    <3>1. \A i \in DOMAIN call : \A t : Behind(i, t)' => Behind(i, t)
      BY <2>1, <2>3 DEF Behind, Visiting
    <3>2. QED
      BY <2>1, <3>1, KeepsHandled
  <2>4. QED
    BY <1>4, <2>2, <2>3 DEF ProbeRoot
<1>5. CASE CheckIgnore
  <2>1. pc = "ignore" /\ UNCHANGED <<call, at, unanswered>> /\ File \in Below
    BY <1>5 DEF CheckIgnore, Inv, Judged
  <2>2. CASE Judge(File \in Ignored) /\ UNCHANGED raised
    BY <2>1, <2>2, JudgeHandles
  <2>3. CASE raised' = raised \union Remaining
    <3>1. \A i \in DOMAIN call : \A t : i \notin raised' => Behind(i, t)
      BY <2>1, <2>3 DEF Behind, Visiting, Remaining, Inv, TypeOK
    <3>2. QED
      BY <2>1, <2>3, <3>1, KeepsHandled
  <2>4. QED
    BY <1>5, <2>2, <2>3 DEF CheckIgnore
<1>6. CASE JudgeGit
  <2>1. UNCHANGED <<call, unanswered, raised>> /\ pc = "git" /\ at \in Nat
    BY <1>6 DEF JudgeGit, NextSegment, Inv, TypeOK
  <2>2. CASE pc' = "done" /\ verdict' = call[at].git /\ call[at].git # Nothing
    <3>1. call[at].git \in Reasons
      BY <2>1, <2>2, CallTypes, SegmentTypes DEF Inv, TypeOK
    <3>2. QED
      BY <2>1, <2>2, <3>1, KeepsHandled DEF Behind, Visiting, Reasons
  <2>3. CASE NextSegment
    <3>1. \A i \in DOMAIN call : \A t : Behind(i, t)' => Behind(i, t)
      BY <2>1, <2>3 DEF NextSegment, Behind, Visiting, Inv, TypeOK
    <3>2. QED
      BY <2>1, <3>1, KeepsHandled
  <2>4. QED
    BY <1>6, <2>2, <2>3 DEF JudgeGit, Decide
<1>7. CASE Killed
  <2>1. \A i \in DOMAIN call : \A t : i \notin raised' => Behind(i, t)
    BY <1>7 DEF Killed, Behind, Visiting, Remaining, Inv, TypeOK
  <2>2. QED
    BY <1>7, <2>1, KeepsHandled DEF Killed
<1>8. CASE GiveUpTargets
  <2>1. \A i \in DOMAIN call : \A t :
          i \notin raised' /\ Behind(i, t)' => Behind(i, t)
    BY <1>8 DEF GiveUpTargets, Behind, Visiting
  <2>2. QED
    BY <1>8, <2>1, KeepsHandled DEF GiveUpTargets
<1>9. QED
  BY <1>1, <1>2, <1>3, <1>4, <1>5, <1>6, <1>7, <1>8 DEF Next

-----------------------------------------------------------------------------
(***************************************************************************)
(* The invariant.                                                          *)
(***************************************************************************)
\* A verdict is reached once.
LEMMA VerdictStep ==
  ASSUME Inv, Next
  PROVE  /\ pc # "done"
         /\ pc' # "done" => verdict' = Nothing
         /\ pc' # "idle"
<1>1. ASSUME NEW command \in Seq(Segments), Start(command)
      PROVE  pc # "done" /\ (pc' # "done" => verdict' = Nothing) /\ pc' # "idle"
  BY <1>1, EscapeTypes DEF Start, Inv
<1>2. CASE Segment
  BY <1>2 DEF Segment, Decide, NextSegment, Inv
<1>3. CASE ProbePrimary
  BY <1>3 DEF ProbePrimary, Inv
<1>4. CASE ProbeRoot
  BY <1>4 DEF ProbeRoot, Judge, Decide, Inv
<1>5. CASE CheckIgnore
  <2>1. CASE Judge(File \in Ignored)
    BY <1>5, <2>1 DEF CheckIgnore, Judge, Decide, Inv
  <2>2. CASE Escape(call)
    BY <1>5, <2>2, EscapeTypes DEF CheckIgnore
  <2>3. QED
    BY <1>5, <2>1, <2>2 DEF CheckIgnore
<1>6. CASE JudgeGit
  BY <1>6 DEF JudgeGit, Decide, NextSegment, Inv
<1>7. CASE Killed \/ GiveUpTargets
  BY <1>7 DEF Killed, GiveUpTargets, Decide, Inv
<1>8. QED
  BY <1>1, <1>2, <1>3, <1>4, <1>5, <1>6, <1>7 DEF Next

LEMMA JudgeJustified ==
  ASSUME Inv, pc \in {"second", "ignore"}, NEW b, Judge(b),
         UNCHANGED <<call, at>>
  PROVE  RefusalsTaken'
<1>1. CASE pc' = "first"
  BY <1>1 DEF Judge, Decide, RefusalsTaken, Inv, Nothing
<1>2. CASE pc' = "done"
  <2>1. primary /\ UNCHANGED target
    BY <1>2 DEF Judge, Decide
  <2>2. Taken(at, call[at].targets[target]) \in Primary
    BY <2>1, FileIsTaken DEF Inv, Judged, TypeOK, Visiting
  <2>3. Taken(at, call[at].targets[target])' = Taken(at, call[at].targets[target])
    BY <2>1 DEF Taken, NotedBy, Latest
  <2>4. QED
    BY <2>2, <2>3 DEF RefusalsTaken
<1>3. QED
  BY <1>1, <1>2, JudgeTypes DEF Inv

LEMMA JustifiedStep ==
  ASSUME Inv, Next
  PROVE  RefusalsTaken'
<1>1. CASE verdict' # "primary"
  BY <1>1 DEF RefusalsTaken
<1>2. CASE ProbeRoot /\ Judge(FALSE)
  BY <1>2, JudgeJustified DEF ProbeRoot
<1>3. CASE CheckIgnore /\ Judge(File \in Ignored)
  BY <1>3, JudgeJustified DEF CheckIgnore
<1>4. verdict # "primary"
  BY VerdictStep DEF Inv, Nothing
<1>5. ASSUME NEW command \in Seq(Segments), Start(command) PROVE verdict' # "primary"
  BY <1>4, <1>5, EscapeTypes DEF Start
<1>6. Segment => verdict' # "primary"
  BY <1>4 DEF Segment, Decide, NextSegment
<1>7. ProbePrimary => verdict' # "primary"
  BY <1>4 DEF ProbePrimary
<1>8. ProbeRoot => verdict' # "primary" \/ Judge(FALSE)
  BY <1>4 DEF ProbeRoot
<1>9. CheckIgnore => verdict' # "primary" \/ Judge(File \in Ignored)
  BY <1>4, EscapeTypes DEF CheckIgnore
<1>10. ASSUME JudgeGit PROVE verdict' # "primary"
  <2>1. call[at].git \in Reasons \union {Nothing}
    BY <1>10, CallTypes, SegmentTypes DEF JudgeGit, Inv, TypeOK
  <2>2. QED
    BY <1>4, <1>10, <2>1 DEF JudgeGit, Decide, NextSegment, Reasons, Nothing
<1>11. Killed \/ GiveUpTargets => verdict' # "primary"
  BY <1>4 DEF Killed, GiveUpTargets, Decide
<1>12. QED
  BY <1>1, <1>2, <1>3, <1>5, <1>6, <1>7, <1>8, <1>9, <1>10, <1>11 DEF Next

LEMMA InvInit == Init => Inv
<1> SUFFICES ASSUME Init PROVE Inv
  OBVIOUS
<1>1. TypeOK
  BY TypeInit
<1>2. KnownHolds /\ Judged
  BY DEF Init, KnownHolds, Judged, Visiting
<1>3. CacheRight
  BY DEF Init, CacheRight, Unknown, Folders, Nothing
<1>4. Handled /\ RefusalsTaken
  BY DEF Init, Handled, RefusalsTaken, Nothing
<1>5. QED
  BY <1>1, <1>2, <1>3, <1>4 DEF Init, Inv

LEMMA InvStep == Inv /\ [Next]_vars => Inv'
<1> SUFFICES ASSUME Inv, [Next]_vars PROVE Inv'
  OBVIOUS
<1>1. CASE Next
  <2>1. TypeOK'
    BY <1>1, TypeStep DEF Inv
  <2>2. QED
    BY <1>1, <2>1, KnownStep, CacheStep, JudgedStep, HandledStep, VerdictStep,
       JustifiedStep DEF Inv
<1>2. CASE UNCHANGED vars
  <2>1. TypeOK'
    BY <1>2, TypeStep DEF Inv
  <2>2. KnownHolds'
    BY <1>2 DEF vars, Inv, KnownHolds, Noted, Remembered, NotedBy
  <2>3. CacheRight' /\ Judged'
    BY <1>2 DEF vars, Inv, CacheRight, Judged, File, Resolved
  <2>4. Handled'
    BY <1>2, KeepsHandled DEF vars, Behind
  <2>5. RefusalsTaken'
    BY <1>2 DEF vars, Inv, RefusalsTaken, Taken, NotedBy, Latest
  <2>6. QED
    BY <1>2, <2>1, <2>2, <2>3, <2>4, <2>5 DEF vars, Inv
<1>3. QED
  BY <1>1, <1>2

LEMMA InvRefuses == Inv => PrimaryRefused
<1> SUFFICES ASSUME Inv, verdict = "pass", NEW i \in DOMAIN call,
                    call[i].lexes, i \notin raised, NEW t \in DOMAIN call[i].targets,
                    Follows(i, call[i].targets[t]),
                    Means(i, call[i].targets[t]) \in Refusable
             PROVE  <<i, t>> \in unanswered
  BY DEF PrimaryRefused
<1>1. Passed(i, t)
  BY DEF Inv, Handled, Behind
<1>2. QED
  BY <1>1, TakenIsMeant DEF Passed

\* A command that passes writes no file of a primary checkout that is not
\* allowed runtime state, but for a write whose own probe went unanswered, for
\* segments an exception or the timeout cut short and for a variable the guard
\* has lost, whatever the command, the repository and the answers of git.
THEOREM PrimaryAlwaysRefused == Spec => []PrimaryRefused
  BY InvInit, InvStep, InvRefuses, PTL DEF Spec

\* A write that is refused is one to a primary checkout, or to a variable the
\* guard has lost.
THEOREM RefusalsAlwaysJustified == Spec => []RefusalsJustified
<1>1. Inv => RefusalsJustified
  BY TakenIsMeant DEF Inv, RefusalsTaken, RefusalsJustified
<1>2. QED
  BY <1>1, InvInit, InvStep, PTL DEF Spec

-----------------------------------------------------------------------------
(***************************************************************************)
(* The inputs of the hooks.                                                *)
(***************************************************************************)
\* What is written is made of the pieces of its family.
HookTypes == family \in Families /\ input \in Seq(Alphabet[family])

LEMMA HookTypesHold == HookSpec => []HookTypes
<1>1. HookInit => HookTypes
  BY DEF HookInit, HookTypes
<1>2. HookTypes /\ [HookNext]_<<family, input, vars>> => HookTypes'
  <2> SUFFICES ASSUME HookTypes, [HookNext]_<<family, input, vars>>
               PROVE  HookTypes'
    OBVIOUS
  <2>1. CASE Write
    BY <2>1 DEF HookTypes, Write
  <2>2. CASE Guard
    BY <2>2 DEF HookTypes, Guard
  <2>3. CASE UNCHANGED <<family, input, vars>>
    BY <2>3 DEF HookTypes
  <2>4. QED
    BY <2>1, <2>2, <2>3 DEF HookNext
<1>3. QED
  BY <1>1, <1>2, PTL DEF HookSpec

\* Whatever the hooks are given, the footgun guard among them runs as FootgunGuard
\* says: what is proved of Spec holds here.
THEOREM HooksRunGuard == HookSpec => Spec
<1>1. HookInit => Init
  BY DEF HookInit
<1>2. HookTypes /\ [HookNext]_<<family, input, vars>> => [Next]_vars
  <2> SUFFICES ASSUME HookTypes, HookNext, ~UNCHANGED vars PROVE Next
    BY DEF vars
  <2>1. Guard
    BY DEF HookNext, Write
  <2>2. family = "call" => input \in Seq(Segments)
    BY DEF HookTypes, Alphabet
  <2>3. QED
    BY <2>1, <2>2 DEF Guard, Next
<1>3. QED
  BY <1>1, <1>2, HookTypesHold, PTL DEF HookSpec, Spec

-----------------------------------------------------------------------------
(***************************************************************************)
(* What is fatal to the tmux server, wrapped any number of times.          *)
(***************************************************************************)
\* What Hazardous says at a depth, given what it says one level down.
Judging(depth, below) ==
    [levels \in Commands(TmuxWords) |->
        \/ depth > MaxDepth
        \/ \E seg \in ToSet(levels[1]) : SegmentHazard(seg, Tail(levels), below)]

\* Hazardous, which recurs by depth, may be unfolded.
LEMMA HazardousIs ==
  \A d \in 0..MaxDepth + 1 : Hazardous[d] = Judging(d, Hazardous[d + 1])
<1> DEFINE D == 0..MaxDepth + 1
           step(f, d) == Judging(d, f[d + 1])
           chosen == CHOOSE f : f = [d \in D |-> step(f, d)]
<1>1. D = 0..5 /\ D = {0, 1, 2, 3, 4, 5}
  BY DEF MaxDepth
<1>2. \E f : f = [d \in D |-> step(f, d)]
  <2> DEFINE f5 == Judging(5, <<>>)
             f4 == Judging(4, f5)
             f3 == Judging(3, f4)
             f2 == Judging(2, f3)
             f1 == Judging(1, f2)
             f0 == Judging(0, f1)
             f == [d \in D |-> IF d = 0 THEN f0 ELSE IF d = 1 THEN f1 ELSE IF d = 2 THEN f2
                               ELSE IF d = 3 THEN f3 ELSE IF d = 4 THEN f4 ELSE f5]
  <2>1. \A below : f5 = Judging(5, below)
    BY 5 > MaxDepth DEF Judging, MaxDepth
  <2>2. /\ f4 = Judging(4, f5) /\ f3 = Judging(3, f4) /\ f2 = Judging(2, f3)
        /\ f1 = Judging(1, f2) /\ f0 = Judging(0, f1)
    OBVIOUS
  <2> HIDE DEF f0, f1, f2, f3, f4, f5, D
  <2>3. /\ f[0] = f0 /\ f[1] = f1 /\ f[2] = f2 /\ f[3] = f3 /\ f[4] = f4 /\ f[5] = f5
        /\ f = [d \in D |-> f[d]]
    BY <1>1
  <2> HIDE DEF f
  <2>4. ASSUME NEW d \in D PROVE f[d] = step(f, d)
    <3>1. CASE d = 5
      BY <2>1, <2>3, <3>1
    <3>2. CASE d = 4
      BY <2>2, <2>3, <3>2
    <3>3. CASE d = 3
      BY <2>2, <2>3, <3>3
    <3>4. CASE d = 2
      BY <2>2, <2>3, <3>4
    <3>5. CASE d = 1
      BY <2>2, <2>3, <3>5
    <3>6. CASE d = 0
      BY <2>2, <2>3, <3>6
    <3>7. QED
      BY <1>1, <3>1, <3>2, <3>3, <3>4, <3>5, <3>6
  <2> HIDE DEF step
  <2>5. f = [d \in D |-> step(f, d)]
    BY <2>3, <2>4
  <2>6. QED
    BY <2>5
<1>3. Hazardous = chosen
  BY DEF Hazardous, Judging
<1> HIDE DEF step, D
<1>4. chosen = [d \in D |-> step(chosen, d)]
  BY <1>2
<1> HIDE DEF chosen
<1>5. \A d \in D : chosen[d] = step(chosen, d)
  BY <1>4
<1>6. QED
  BY <1>3, <1>5 DEF step, D

\* What is judged at each depth.
LEMMA HazardOf ==
  ASSUME NEW levels \in Commands(TmuxWords)
  PROVE  /\ Hazardous[MaxDepth + 1][levels] = TRUE
         /\ \A d \in 0..MaxDepth :
                /\ Hazardous[d][levels] \in BOOLEAN
                /\ Hazardous[d][levels] <=>
                        \E seg \in ToSet(levels[1]) :
                            SegmentHazard(seg, Tail(levels), Hazardous[d + 1])
<1>1. MaxDepth + 1 \in 0..MaxDepth + 1 /\ MaxDepth + 1 > MaxDepth
      /\ \A d \in 0..MaxDepth : d \in 0..MaxDepth + 1 /\ ~(d > MaxDepth)
  BY DEF MaxDepth
<1>2. Hazardous[MaxDepth + 1][levels] = TRUE
  <2>1. Hazardous[MaxDepth + 1] = Judging(MaxDepth + 1, Hazardous[MaxDepth + 1 + 1])
    BY <1>1, HazardousIs
  <2>2. QED
    BY <1>1, <2>1 DEF Judging
<1>3. ASSUME NEW d \in 0..MaxDepth
      PROVE  Hazardous[d][levels] = \E seg \in ToSet(levels[1]) :
                            SegmentHazard(seg, Tail(levels), Hazardous[d + 1])
  <2>1. Hazardous[d] = Judging(d, Hazardous[d + 1])
    BY <1>1, HazardousIs
  <2>2. QED
    BY <1>1, <2>1 DEF Judging
<1>4. QED
  BY <1>2, <1>3

\* The levels with k wrappings around the core, if f says what they are with fewer.
Around(f, core, wrappings, k) ==
    IF k = 0 THEN core ELSE WrappedIn(wrappings[k], f[k - 1])

\* The function Wrapped chooses.
Arounds(core, wrappings) ==
    CHOOSE f : f = [k \in 0..Len(wrappings) |-> Around(f, core, wrappings, k)]

\* The function Wrapped recurs by exists, so it may be unfolded.
LEMMA WrappedIs ==
  ASSUME NEW core, NEW W, NEW s \in Seq(W)
  PROVE  /\ Wrapped(core, s) = Arounds(core, s)[Len(s)]
         /\ \A k \in 0..Len(s) : Arounds(core, s)[k] = Around(Arounds(core, s), core, s, k)
<1> DEFINE does(f, k) == Around(f, core, s, k)
           Good == {m \in Nat : \E f : f = [k \in 0..m |-> does(f, k)]}
           chosen == CHOOSE f : f = [k \in 0..Len(s) |-> does(f, k)]
<1>1. 0 \in Good
  <2> DEFINE f == [k \in 0..0 |-> core]
  <2>1. f = [k \in 0..0 |-> does(f, k)]
    BY DEF Around
  <2>2. QED
    BY <2>1
<1>2. ASSUME NEW m \in Nat, m \in Good PROVE m + 1 \in Good
  <2>1. PICK f : f = [k \in 0..m |-> does(f, k)]
    BY <1>2
  <2> DEFINE g == [k \in 0..m + 1 |-> IF k = m + 1 THEN does(f, k) ELSE f[k]]
  <2>2. g = [k \in 0..m + 1 |-> g[k]] /\ \A k \in 0..m : g[k] = f[k]
    OBVIOUS
  <2>3. ASSUME NEW k \in 0..m + 1 PROVE g[k] = does(f, k)
    <3> HIDE DEF does
    <3>1. CASE k = m + 1
      BY <3>1
    <3>2. CASE k # m + 1
      <4>1. k \in 0..m
        BY <3>2
      <4>2. QED
        BY <2>1, <4>1
    <3>3. QED
      BY <3>1, <3>2
  <2> HIDE DEF g
  <2>4. ASSUME NEW k \in 0..m + 1 PROVE does(f, k) = does(g, k)
    <3>1. k = 0 \/ k - 1 \in 0..m
      OBVIOUS
    <3>2. QED
      BY <2>2, <3>1 DEF Around
  <2> HIDE DEF does
  <2>5. g = [k \in 0..m + 1 |-> does(g, k)]
    BY <2>2, <2>3, <2>4
  <2>6. QED
    BY <2>5
<1> HIDE DEF Good, does
<1>3. Len(s) \in Nat /\ Len(s) \in Good
  BY <1>1, <1>2, Induction
<1>4. chosen = [k \in 0..Len(s) |-> does(chosen, k)]
  BY <1>3 DEF Good
<1>5. Arounds(core, s) = chosen
  BY DEF Arounds, does
<1>6. Wrapped(core, s) = Arounds(core, s)[Len(s)]
  BY DEF Wrapped, Arounds, Around
<1> HIDE DEF chosen
<1>7. \A k \in 0..Len(s) : chosen[k] = does(chosen, k)
  BY <1>4
<1>8. QED
  BY <1>5, <1>6, <1>7 DEF does

\* One wrapping more is put around the others.
LEMMA WrappedAppend ==
  ASSUME NEW core, NEW W, NEW s \in Seq(W), NEW w \in W
  PROVE  /\ Wrapped(core, <<>>) = core
         /\ Wrapped(core, Append(s, w)) = WrappedIn(w, Wrapped(core, s))
<1> DEFINE n == Len(s)
           t == Append(s, w)
           f == Arounds(core, s)
           g == Arounds(core, t)
           Good == {k \in Nat : k <= n => f[k] = g[k]}
<1>1. n \in Nat /\ t \in Seq(W) /\ Len(t) = n + 1 /\ t[n + 1] = w
      /\ \A i \in 1..n : t[i] = s[i]
  BY AppendProperties
<1> HIDE DEF t
<1>2. /\ Wrapped(core, s) = f[n]
      /\ \A k \in 0..n : f[k] = Around(f, core, s, k)
  BY WrappedIs
<1>3. /\ Wrapped(core, t) = g[n + 1]
      /\ \A k \in 0..n + 1 : g[k] = Around(g, core, t, k)
  <2>1. t \in Seq(W)
    BY <1>1
  <2>2. QED
    BY <1>1, <2>1, WrappedIs
<1> HIDE DEF n, f, g
<1>4. 0 \in Good
  BY <1>1, <1>2, <1>3, SMTT(60) DEF Around
<1>5. ASSUME NEW k \in Nat, k \in Good PROVE k + 1 \in Good
  <2> SUFFICES ASSUME k + 1 <= n PROVE f[k + 1] = g[k + 1]
    OBVIOUS
  <2>1. k + 1 \in 0..n /\ k + 1 \in 0..n + 1 /\ k + 1 \in 1..n /\ k + 1 # 0 /\ k + 1 - 1 = k
        /\ k <= n
    BY <1>1
  <2>2. f[k + 1] = WrappedIn(s[k + 1], f[k]) /\ g[k + 1] = WrappedIn(t[k + 1], g[k])
    BY <1>2, <1>3, <2>1 DEF Around
  <2>3. QED
    BY <1>1, <1>5, <2>1, <2>2
<1> HIDE DEF Good
<1>6. f[n] = g[n]
  <2>1. n \in Good /\ n <= n
    BY <1>1, <1>4, <1>5, Induction
  <2>2. QED
    BY <2>1 DEF Good
<1>7. g[n + 1] = WrappedIn(w, g[n])
  <2>1. n + 1 \in 0..n + 1 /\ n + 1 # 0 /\ n + 1 - 1 = n
    BY <1>1
  <2>2. QED
    BY <1>1, <1>3, <2>1 DEF Around
<1>8. Wrapped(core, <<>>) = core
  <2>1. ASSUME NEW e \in Seq(W), Len(e) = 0 PROVE Wrapped(core, e) = core
    <3>1. 0 \in 0..Len(e) /\ Len(e) = 0
      BY <2>1
    <3>2. Wrapped(core, e) = Arounds(core, e)[0]
          /\ Arounds(core, e)[0] = Around(Arounds(core, e), core, e, 0)
      BY <3>1, WrappedIs
    <3>3. QED
      BY <3>2, Zenon DEF Around
  <2>2. <<>> \in Seq(W) /\ Len(<<>>) = 0
    OBVIOUS
  <2>3. QED
    BY <2>1, <2>2, Zenon
<1>9. QED
  BY <1>2, <1>3, <1>6, <1>7, <1>8 DEF t

\* It nests what it is put around, or not.
LEMMA NestedAppend ==
  ASSUME NEW W, NEW s \in Seq(W), NEW w \in W
  PROVE  /\ Nested(<<>>) = 0 /\ Nested(s) \in Nat
         /\ Nested(Append(s, w)) = Nested(s) + (IF w \in Nestings THEN 1 ELSE 0)
<1> DEFINE N == Nestings
           A == {i \in DOMAIN s : s[i] \in N}
           t == Append(s, w)
           B == {i \in DOMAIN t : t[i] \in N}
<1> HIDE DEF N
<1>1. Nested(<<>>) = 0
  <2>0. DOMAIN <<>> = {}
    OBVIOUS
  <2>1. {i \in DOMAIN <<>> : <<>>[i] \in Nestings} = {}
    BY <2>0, Zenon
  <2>2. QED
    BY <2>1, FS_EmptySet DEF Nested
<1>2. DOMAIN s = 1..Len(s) /\ Len(s) \in Nat /\ DOMAIN t = 1..Len(s) + 1
      /\ t[Len(s) + 1] = w /\ \A i \in 1..Len(s) : t[i] = s[i]
  BY AppendProperties
<1> HIDE DEF t
<1>3. A \subseteq 1..Len(s) /\ Len(s) + 1 \notin A
  BY <1>2
<1>4. B = A \union (IF w \in N THEN {Len(s) + 1} ELSE {})
  BY <1>2
<1> HIDE DEF A, B
<1>5. IsFiniteSet(A)
  <2>1. IsFiniteSet(1..Len(s))
    BY <1>2, FS_Interval
  <2>2. QED
    BY <1>3, <2>1, FS_Subset
<1>6. Cardinality(A) \in Nat /\ Cardinality(A \union {Len(s) + 1}) = Cardinality(A) + 1
  BY <1>3, <1>5, FS_CardinalityType, FS_AddElement
<1>7. Cardinality(B) = Cardinality(A) + (IF w \in N THEN 1 ELSE 0)
  <2>1. CASE w \in N
    BY <1>4, <1>6, <2>1
  <2>2. CASE w \notin N
    <3>1. B = A
      BY <1>4, <2>2
    <3>2. QED
      BY <1>6, <2>2, <3>1
  <2>3. QED
    BY <2>1, <2>2
<1>8. Nested(s) = Cardinality(A) /\ Nested(Append(s, w)) = Cardinality(B)
  BY Zenon DEF Nested, A, B, N, t
<1>9. QED
  BY <1>1, <1>6, <1>7, <1>8 DEF N

LEMMA BeheadIs ==
  ASSUME NEW S, NEW t \in Seq(S), t # <<>>
  PROVE  /\ t[1] \in S /\ Tail(t) \in Seq(S)
         /\ ToSet(t) = {t[1]} \union ToSet(Tail(t))
         /\ t = <<t[1]>> \o Tail(t)
<1> DEFINE x == t[1]
           r == Tail(t)
           a == <<x>>
           u == a \o r
<1>1. x \in S /\ r \in Seq(S) /\ Len(r) = Len(t) - 1 /\ Len(t) \in Nat \ {0}
      /\ \A i \in 1..Len(r) : r[i] = t[i + 1]
  OBVIOUS
<1>2. a \in Seq(S) /\ Len(a) = 1 /\ a[1] = x /\ ToSet(a) = {x}
  <2>1. a \in Seq(S) /\ Len(a) = 1 /\ a[1] = x
    BY <1>1
  <2>2. QED
    BY <2>1, ToSetOfWords, Zenon
<1>3. x = t[1]
  OBVIOUS
<1> HIDE DEF x, r, a
<1>4. u \in Seq(S) /\ Len(u) = 1 + Len(r)
      /\ (\A i \in 1..Len(a) : u[i] = a[i]) /\ \A k \in 1..Len(r) : u[Len(a) + k] = r[k]
  <2>1. a \in Seq(S) /\ r \in Seq(S)
    BY <1>1, <1>2
  <2>2. u \in Seq(S) /\ Len(u) = Len(a) + Len(r)
        /\ (\A i \in 1..Len(a) : u[i] = a[i]) /\ \A k \in 1..Len(r) : u[Len(a) + k] = r[k]
    BY <2>1, ConcatAt
  <2>3. QED
    BY <1>2, <2>2
<1> HIDE DEF u
<1>5. \A i \in 1..Len(t) : u[i] = t[i]
  <2>1. ASSUME NEW i \in 1..Len(t) PROVE u[i] = t[i]
    <3>1. CASE i = 1
      BY <1>2, <1>3, <1>4, <3>1
    <3>2. CASE i # 1
      <4>1. i - 1 \in 1..Len(r) /\ Len(a) + (i - 1) = i /\ (i - 1) + 1 = i
        BY <1>1, <1>2, <3>2
      <4>2. QED
        BY <1>1, <1>4, <4>1
    <3>3. QED
      BY <3>1, <3>2
  <2>2. QED
    BY <2>1
<1>6. u = t
  BY <1>1, <1>4, <1>5, SeqEqual
<1>7. ToSet(u) = ToSet(a) \union ToSet(r)
  BY <1>1, <1>2, ToSetConcat DEF u
<1>8. QED
  BY <1>1, <1>2, <1>6, <1>7 DEF x, r, a, u

\* A sequence with one element more in front.
LEMMA HeadedIs ==
  ASSUME NEW S, NEW x \in S, NEW t \in Seq(S)
  PROVE  /\ <<x>> \o t \in Seq(S) /\ <<x>> \o t # <<>>
         /\ (<<x>> \o t)[1] = x /\ Tail(<<x>> \o t) = t
         /\ ToSet(<<x>> \o t) = {x} \union ToSet(t)
<1> DEFINE a == <<x>>
<1>1. a \in Seq(S) /\ a # <<>> /\ Tail(a) = <<>> /\ a[1] = x /\ ToSet(a) = {x}
  <2>1. a \in Seq(S) /\ a # <<>> /\ Tail(a) = <<>> /\ a[1] = x
    OBVIOUS
  <2>2. QED
    BY <2>1, ToSetOfWords, Zenon
<1>2. <<>> \o t = t
  OBVIOUS
<1> HIDE DEF a
<1>3. /\ Tail(a \o t) = Tail(a) \o t /\ a \o t # <<>> /\ (a \o t)[1] = a[1]
  BY <1>1, TailConcat
<1>4. a \o t \in Seq(S) /\ ToSet(a \o t) = ToSet(a) \union ToSet(t)
  BY <1>1, ToSetConcat
<1>5. QED
  BY <1>1, <1>2, <1>3, <1>4 DEF a

\* The words of the first level and of those under it.
LEMMA WordsInHeaded ==
  ASSUME NEW x, NEW t, NEW u, ToSet(u) = {x} \union ToSet(t)
  PROVE  WordsIn(u) = (UNION {ToSet(seg) : seg \in ToSet(x)}) \union WordsIn(t)
<1>1. ASSUME NEW word
      PROVE  word \in WordsIn(u) <=>
                (\E seg \in ToSet(x) : word \in ToSet(seg)) \/ word \in WordsIn(t)
  BY Zenon DEF WordsIn
<1>2. QED
  BY <1>1, Zenon

\* The words that are looked at as commands.
CommandHeads == Shells \union Killers \union {"eval", "xargs", "tmux"}

Ungroup(seg) == [i \in DOMAIN seg |-> Ungrouped(seg[i])]

\* What is asked of each position.
HazardAt(words, i, inner, hazardous) ==
    \/ NestedHazard(Base(words[i]), From(words, i + 1), inner, hazardous)
    \/ DirectHazard(Base(words[i]), From(words, i + 1))

LEMMA OnlyHeads ==
  ASSUME NEW words, NEW i, NEW inner, NEW hazardous, Base(words[i]) \notin CommandHeads
  PROVE  ~HazardAt(words, i, inner, hazardous)
BY Zenon DEF HazardAt, NestedHazard, DirectHazard, CommandHeads

\* A segment is judged by its text, or by its words.
LEMMA SegmentHazardIs ==
  ASSUME NEW seg, NEW inner, NEW hazardous
  PROVE  SegmentHazard(seg, inner, hazardous) <=>
            \/ "$(" \in Text(seg, inner) /\ "kill-server" \in Text(seg, inner)
            \/ /\ "'" \in ToSet(seg)
               /\ "tmux" \in Text(seg, inner)
               /\ Text(seg, inner) \intersect {"kill-server", "pkill", "killall"} # {}
            \/ /\ "'" \notin ToSet(seg)
               /\ \E i \in DOMAIN seg : HazardAt(Ungroup(seg), i, inner, hazardous)
<1> DEFINE words == Ungroup(seg)
<1>1. DOMAIN words = DOMAIN seg
  BY DEF Ungroup
<1>2. SegmentHazard(seg, inner, hazardous) <=>
            \/ {"$(", "kill-server"} \subseteq Text(seg, inner)
            \/ /\ "'" \in ToSet(seg)
               /\ "tmux" \in Text(seg, inner)
               /\ Text(seg, inner) \intersect {"kill-server", "pkill", "killall"} # {}
            \/ /\ "'" \notin ToSet(seg)
               /\ \E i \in DOMAIN words : HazardAt(words, i, inner, hazardous)
  BY Zenon DEF SegmentHazard, Ungroup, HazardAt, HeadPositions
<1> HIDE DEF words
<1>3. QED
  BY <1>1, <1>2, Zenon DEF words

\* The words that stand in front of a command.
InertWords == {"env", "-i", "unknown", "--flag", "x", "cd", "dir"}

LEMMA UngroupTypes ==
  /\ TmuxWords \intersect {None} = {}
  /\ \A word \in TmuxWords : Ungrouped(word) \in TmuxWords
  /\ \A word \in InertWords :
        /\ word \in TmuxWords /\ Base(Ungrouped(word)) \notin CommandHeads
        /\ word \notin {"$(", "'", "payload", "tmux", "kill-server", "pkill", "killall"}
<1>1. \A word \in TmuxWords : Ungrouped(word) \in TmuxWords
  BY ZenonT(60) DEF Ungrouped, TmuxWords
<1>2. ASSUME NEW word \in InertWords
      PROVE  /\ word \in TmuxWords /\ Base(Ungrouped(word)) \notin CommandHeads
             /\ word \notin {"$(", "'", "payload", "tmux", "kill-server", "pkill", "killall"}
  <2>1. word \in {"env", "-i", "unknown", "--flag", "x", "cd", "dir"}
    BY Zenon DEF InertWords
  <2>2. Ungrouped(word) = word
    BY <2>1, Zenon DEF Ungrouped
  <2>3. Base(word) = word
    BY <2>1, Zenon DEF Base, Directories
  <2>4. QED
    BY <2>1, <2>2, <2>3, Zenon DEF CommandHeads, Shells, Killers, TmuxWords
<1>3. QED
  BY <1>1, <1>2, Zenon DEF TmuxWords, None

LEMMA UngroupIs ==
  ASSUME NEW seg \in Seq(TmuxWords)
  PROVE  /\ Ungroup(seg) \in Seq(TmuxWords) /\ Len(Ungroup(seg)) = Len(seg)
         /\ \A i \in 1..Len(seg) : Ungroup(seg)[i] = Ungrouped(seg[i])
<1> DEFINE W == TmuxWords
           u == Ungroup(seg)
<1>1. \A word \in W : Ungrouped(word) \in W
  BY UngroupTypes
<1>2. seg \in Seq(W)
  OBVIOUS
<1> HIDE DEF W
<1>3. DOMAIN seg = 1..Len(seg) /\ Len(seg) \in Nat /\ \A i \in 1..Len(seg) : seg[i] \in W
  BY <1>2
<1>4. u \in [1..Len(seg) -> W] /\ \A i \in 1..Len(seg) : u[i] = Ungrouped(seg[i])
  BY <1>1, <1>3 DEF Ungroup
<1>5. u \in Seq(W)
  BY <1>3, <1>4, SeqDef
<1>6. DOMAIN u = 1..Len(u) /\ Len(u) \in Nat /\ DOMAIN u = 1..Len(seg)
  BY <1>4, <1>5, LenProperties
<1> HIDE DEF u
<1>7. Len(u) = Len(seg)
  BY <1>3, <1>6, SameBounds
<1>8. QED
  BY <1>4, <1>5, <1>7 DEF u, W

\* Words in front of a command change nothing about what is judged of it.
LEMMA DisplacedHazard ==
  ASSUME NEW w \in Seq(InertWords), NEW s \in Seq(TmuxWords), NEW inner, NEW hazardous
  PROVE  /\ w \o s \in Seq(TmuxWords)
         /\ ToSet(w \o s) = ToSet(w) \union ToSet(s)
         /\ "$(" \notin ToSet(w)
         /\ SegmentHazard(w \o s, inner, hazardous) <=> SegmentHazard(s, inner, hazardous)
<1> DEFINE u == w \o s
           U == Ungroup(u)
           R == Ungroup(s)
           n == Len(w)
<1>1. w \in Seq(TmuxWords)
  <2>1. InertWords \subseteq TmuxWords
    BY UngroupTypes
  <2>2. QED
    BY <2>1
<1>2. /\ u \in Seq(TmuxWords) /\ n \in Nat /\ Len(s) \in Nat /\ Len(u) = n + Len(s)
      /\ DOMAIN u = 1..n + Len(s) /\ DOMAIN w = 1..n /\ DOMAIN s = 1..Len(s)
      /\ (\A i \in 1..n : u[i] = w[i])
      /\ \A k \in 1..Len(s) : u[n + k] = s[k]
  BY <1>1, ConcatAt
<1>3. ToSet(u) = ToSet(w) \union ToSet(s)
  BY <1>1, ToSetConcat
<1> DEFINE A == Ungroup(w)
           D == InertWords
<1>4. A \in Seq(TmuxWords) /\ Len(A) = n /\ \A i \in 1..n : A[i] = Ungrouped(w[i])
  BY <1>1, UngroupIs
<1>5. R \in Seq(TmuxWords) /\ Len(R) = Len(s) /\ \A i \in 1..Len(s) : R[i] = Ungrouped(s[i])
  BY UngroupIs
<1> HIDE DEF u
<1>6. U \in Seq(TmuxWords) /\ Len(U) = Len(u) /\ \A i \in 1..Len(u) : U[i] = Ungrouped(u[i])
  BY <1>2, UngroupIs
<1> HIDE DEF U, R, A, n
<1>7. U = A \o R
  <2> DEFINE V == A \o R
  <2>1. V \in Seq(TmuxWords) /\ Len(V) = Len(A) + Len(R)
        /\ (\A i \in 1..Len(A) : V[i] = A[i]) /\ \A k \in 1..Len(R) : V[Len(A) + k] = R[k]
    <3>1. A \in Seq(TmuxWords) /\ R \in Seq(TmuxWords)
      BY <1>4, <1>5
    <3>2. QED
      BY <3>1, ConcatAt
  <2> HIDE DEF V
  <2>2. ASSUME NEW i \in 1..Len(U) PROVE U[i] = V[i]
    <3>1. CASE i \in 1..n
      BY <1>2, <1>4, <1>6, <2>1, <3>1
    <3>2. CASE i \notin 1..n
      <4>1. i - n \in 1..Len(s) /\ n + (i - n) = i
        BY <1>2, <1>6, <3>2
      <4>2. U[i] = Ungrouped(u[i]) /\ u[i] = s[i - n] /\ V[i] = R[i - n]
        BY <1>2, <1>4, <1>5, <1>6, <2>1, <4>1
      <4>3. QED
        BY <1>5, <4>1, <4>2
    <3>3. QED
      BY <3>1, <3>2
  <2>3. U = V
    BY <1>2, <1>4, <1>5, <1>6, <2>1, <2>2, SeqEqual
  <2>4. QED
    BY <2>3 DEF V
<1>8. ASSUME NEW k \in 1..Len(s)
      PROVE  U[n + k] = R[k] /\ From(U, n + k + 1) = From(R, k + 1)
  <2>1. U[n + k] = R[k]
    <3>1. n + k \in 1..Len(u)
      BY <1>2
    <3>2. QED
      BY <1>2, <1>5, <1>6, <3>1
  <2>2. k + 1 \in 1..Len(R) + 1 /\ Len(A) + (k + 1) = n + k + 1
    BY <1>2, <1>4, <1>5
  <2>3. A \in Seq(TmuxWords) /\ R \in Seq(TmuxWords)
    BY <1>4, <1>5
  <2>4. From(A \o R, Len(A) + (k + 1)) = From(R, k + 1)
    BY <2>2, <2>3, FromConcat
  <2>5. QED
    BY <1>7, <2>1, <2>2, <2>4
<1>9. ASSUME NEW k \in 1..Len(s)
      PROVE  HazardAt(U, n + k, inner, hazardous) <=> HazardAt(R, k, inner, hazardous)
  BY <1>8 DEF HazardAt
<1>10. ASSUME NEW i \in 1..n PROVE ~HazardAt(U, i, inner, hazardous)
  <2>1. U[i] = Ungrouped(w[i]) /\ w[i] \in InertWords
    <3>1. i \in 1..Len(u) /\ u[i] = w[i]
      BY <1>2
    <3>2. w[i] \in D
      BY <1>2
    <3>3. QED
      BY <1>6, <3>1, <3>2
  <2>2. QED
    BY <2>1, UngroupTypes, OnlyHeads, Zenon
<1>11. (\E i \in DOMAIN u : HazardAt(U, i, inner, hazardous))
          <=> \E k \in DOMAIN s : HazardAt(R, k, inner, hazardous)
  <2>1. ASSUME NEW i \in DOMAIN u, i \notin 1..n PROVE i - n \in DOMAIN s /\ n + (i - n) = i
    BY <1>2, <2>1
  <2>2. ASSUME NEW k \in DOMAIN s PROVE n + k \in DOMAIN u
    BY <1>2
  <2>3. QED
    BY <1>2, <1>9, <1>10, <2>1, <2>2
<1>12. \A word \in ToSet(w) : word \in InertWords
  <2>1. \A i \in 1..n : w[i] \in D
    BY <1>2
  <2>2. QED
    BY <1>2, <2>1 DEF ToSet
<1>13. ToSet(w) \intersect {"$(", "'", "payload", "tmux", "kill-server", "pkill", "killall"} = {}
  BY <1>12, UngroupTypes, Zenon
<1>14. Text(u, inner) = ToSet(w) \union Text(s, inner)
  BY <1>3, <1>13, Zenon DEF Text
<1>15. SegmentHazard(u, inner, hazardous) <=> SegmentHazard(s, inner, hazardous)
  <2>1. /\ "$(" \in Text(u, inner) <=> "$(" \in Text(s, inner)
        /\ "kill-server" \in Text(u, inner) <=> "kill-server" \in Text(s, inner)
        /\ "tmux" \in Text(u, inner) <=> "tmux" \in Text(s, inner)
        /\ "'" \in ToSet(u) <=> "'" \in ToSet(s)
        /\ Text(u, inner) \intersect {"kill-server", "pkill", "killall"}
              = Text(s, inner) \intersect {"kill-server", "pkill", "killall"}
    BY <1>3, <1>13, <1>14, Zenon
  <2>2. QED
    BY <1>11, <2>1, SegmentHazardIs, Zenon DEF U, R
<1>16. QED
  BY <1>2, <1>3, <1>13, <1>15, Zenon DEF u

\* What is proved of levels that n nestings deep hold a command that is, or is
\* not, fatal: no substitution can hide in them unless it is.
Judgable(levels, fatal, n) ==
    /\ levels \in Commands(TmuxWords) /\ levels # <<>> /\ levels[1] # <<>>
    /\ "$(" \in WordsIn(levels) => fatal
    /\ \A d \in 0..MaxDepth + 1 : Hazardous[d][levels] = (fatal \/ d + n > MaxDepth)

\* It is what is asked of the segments of the first level.
LEMMA HeadedJudged ==
  ASSUME NEW x \in Seq(Seq(TmuxWords)), x # <<>>, NEW t \in Commands(TmuxWords),
         NEW fatal \in BOOLEAN, NEW n \in Nat,
         \A seg \in ToSet(x) : "$(" \in ToSet(seg) => fatal,
         "$(" \in WordsIn(t) => fatal,
         \A d \in 0..MaxDepth :
            (\E seg \in ToSet(x) : SegmentHazard(seg, t, Hazardous[d + 1]))
                <=> (fatal \/ d + n > MaxDepth)
  PROVE  Judgable(<<x>> \o t, fatal, n)
<1> DEFINE u == <<x>> \o t
           S == Seq(Seq(TmuxWords))
<1>1. u \in Seq(S) /\ u # <<>> /\ u[1] = x /\ Tail(u) = t /\ ToSet(u) = {x} \union ToSet(t)
  <2>1. x \in S /\ t \in Seq(S)
    BY DEF Commands
  <2> HIDE DEF S
  <2>2. QED
    BY <2>1, HeadedIs
<1> HIDE DEF u
<1>2. u \in Commands(TmuxWords)
  BY <1>1 DEF Commands
<1>3. "$(" \in WordsIn(u) => fatal
  <2>1. WordsIn(u) = (UNION {ToSet(seg) : seg \in ToSet(x)}) \union WordsIn(t)
    BY <1>1, WordsInHeaded
  <2>2. QED
    BY <2>1, Zenon
<1>4. ASSUME NEW d \in 0..MaxDepth + 1
      PROVE  Hazardous[d][u] = (fatal \/ d + n > MaxDepth)
  <2>1. CASE d = MaxDepth + 1
    <3>1. Hazardous[d][u] = TRUE
      <4>1. Hazardous[MaxDepth + 1][u] = TRUE
        BY <1>2, HazardOf
      <4>2. QED
        BY <2>1, <4>1
    <3>2. d + n > MaxDepth
      BY <2>1 DEF MaxDepth
    <3>3. QED
      BY <3>1, <3>2
  <2>2. CASE d # MaxDepth + 1
    <3>1. d \in 0..MaxDepth
      BY <2>2 DEF MaxDepth
    <3>2. /\ Hazardous[d][u] \in BOOLEAN
          /\ Hazardous[d][u] <=> \E seg \in ToSet(x) : SegmentHazard(seg, t, Hazardous[d + 1])
      BY <1>1, <1>2, <3>1, HazardOf
    <3>3. QED
      BY <3>1, <3>2
  <2>3. QED
    BY <2>1, <2>2
<1>5. x # <<>>
  OBVIOUS
<1>6. QED
  BY <1>1, <1>2, <1>3, <1>4, <1>5 DEF Judgable, u

LEMMA JudgedHeaded ==
  ASSUME NEW levels, NEW fatal \in BOOLEAN, NEW n \in Nat, Judgable(levels, fatal, n)
  PROVE  /\ levels[1] \in Seq(Seq(TmuxWords)) /\ levels[1] # <<>>
         /\ Tail(levels) \in Commands(TmuxWords)
         /\ \A seg \in ToSet(levels[1]) : "$(" \in ToSet(seg) => fatal
         /\ "$(" \in WordsIn(Tail(levels)) => fatal
         /\ \A d \in 0..MaxDepth :
                (\E seg \in ToSet(levels[1]) :
                        SegmentHazard(seg, Tail(levels), Hazardous[d + 1]))
                    <=> (fatal \/ d + n > MaxDepth)
<1> DEFINE S == Seq(Seq(TmuxWords))
           x == levels[1]
           t == Tail(levels)
<1>1. levels \in Seq(S) /\ levels # <<>> /\ x # <<>>
  BY DEF Judgable, Commands
<1>2. x \in S /\ t \in Seq(S) /\ ToSet(levels) = {x} \union ToSet(t)
  <2> HIDE DEF S
  <2>1. QED
    BY <1>1, BeheadIs
<1>3. WordsIn(levels) = (UNION {ToSet(seg) : seg \in ToSet(x)}) \union WordsIn(t)
  <2> HIDE DEF x, t
  <2>1. QED
    BY <1>2, WordsInHeaded
<1>4. "$(" \in WordsIn(levels) => fatal
  BY DEF Judgable
<1>5. /\ \A seg \in ToSet(x) : "$(" \in ToSet(seg) => fatal
      /\ "$(" \in WordsIn(t) => fatal
  BY <1>3, <1>4, Zenon
<1>6. ASSUME NEW d \in 0..MaxDepth
      PROVE  (\E seg \in ToSet(x) : SegmentHazard(seg, t, Hazardous[d + 1]))
                    <=> (fatal \/ d + n > MaxDepth)
  <2>1. d \in 0..MaxDepth + 1 /\ levels \in Commands(TmuxWords)
    BY DEF MaxDepth, Judgable
  <2>2. Hazardous[d][levels] <=>
            \E seg \in ToSet(x) : SegmentHazard(seg, t, Hazardous[d + 1])
    BY <2>1, HazardOf
  <2>3. Hazardous[d][levels] = (fatal \/ d + n > MaxDepth)
    BY <2>1 DEF Judgable
  <2>4. QED
    BY <2>2, <2>3
<1>7. QED
  BY <1>1, <1>2, <1>5, <1>6 DEF Commands

\* A command after it, or words in front of it, change nothing.
LEMMA InertHazard ==
  ASSUME NEW w \in Seq(InertWords), NEW inner, NEW hazardous
  PROVE  w \in Seq(TmuxWords) /\ ~SegmentHazard(w, inner, hazardous) /\ "$(" \notin ToSet(w)
<1>1. w \o <<>> = w /\ <<>> \in Seq(TmuxWords)
  OBVIOUS
<1>2. SegmentHazard(w, inner, hazardous) <=> SegmentHazard(<<>>, inner, hazardous)
  BY <1>1, DisplacedHazard, ZenonT(60)
<1>3. ~SegmentHazard(<<>>, inner, hazardous)
  <2>1. DOMAIN <<>> = {}
    OBVIOUS
  <2>2. ToSet(<<>>) = {}
    BY <2>1, Zenon DEF ToSet
  <2>3. QED
    BY <2>1, <2>2, SegmentHazardIs, Zenon DEF Text
<1>4. QED
  BY <1>1, <1>2, <1>3, DisplacedHazard, ZenonT(60)

LEMMA SequelJudged ==
  ASSUME NEW levels, NEW fatal \in BOOLEAN, NEW n \in Nat, Judgable(levels, fatal, n),
         NEW w \in Seq(InertWords)
  PROVE  Judgable(<<Append(levels[1], w)>> \o Tail(levels), fatal, n)
<1> DEFINE S == Seq(TmuxWords)
           b == levels[1]
           t == Tail(levels)
           x == Append(b, w)
<1>1. /\ b \in Seq(Seq(TmuxWords)) /\ b # <<>> /\ t \in Commands(TmuxWords)
      /\ \A seg \in ToSet(b) : "$(" \in ToSet(seg) => fatal
      /\ "$(" \in WordsIn(t) => fatal
      /\ \A d \in 0..MaxDepth :
            (\E seg \in ToSet(b) : SegmentHazard(seg, t, Hazardous[d + 1]))
                    <=> (fatal \/ d + n > MaxDepth)
  BY JudgedHeaded
<1>2. w \in S /\ "$(" \notin ToSet(w) /\ \A h : ~SegmentHazard(w, t, h)
  BY InertHazard
<1> HIDE DEF b, t
<1>3. x \in Seq(S) /\ x # <<>> /\ ToSet(x) = ToSet(b) \union {w}
  <2>1. b \in Seq(S)
    BY <1>1
  <2> HIDE DEF S
  <2>2. QED
    BY <1>2, <2>1, AppendIs, ToSetAppend
<1> HIDE DEF x
<1>4. \A seg \in ToSet(x) : "$(" \in ToSet(seg) => fatal
  BY <1>1, <1>2, <1>3, Zenon
<1>5. ASSUME NEW d \in 0..MaxDepth
      PROVE  (\E seg \in ToSet(x) : SegmentHazard(seg, t, Hazardous[d + 1]))
                    <=> (fatal \/ d + n > MaxDepth)
  <2>1. (\E seg \in ToSet(x) : SegmentHazard(seg, t, Hazardous[d + 1]))
            <=> \E seg \in ToSet(b) : SegmentHazard(seg, t, Hazardous[d + 1])
    BY <1>2, <1>3, Zenon
  <2>2. QED
    BY <1>1, <2>1
<1>6. Judgable(<<x>> \o t, fatal, n)
  <2>1. x \in Seq(Seq(TmuxWords))
    BY <1>3
  <2>2. QED
    BY <1>1, <1>3, <1>4, <1>5, <2>1, HeadedJudged
<1>7. QED
  BY <1>6 DEF x, b, t

LEMMA DisplacedJudged ==
  ASSUME NEW levels, NEW fatal \in BOOLEAN, NEW n \in Nat, Judgable(levels, fatal, n),
         NEW w \in Seq(InertWords)
  PROVE  Judgable(<<<<w \o levels[1][1]>> \o Tail(levels[1])>> \o Tail(levels), fatal, n)
<1> DEFINE S == Seq(TmuxWords)
           b == levels[1]
           t == Tail(levels)
           s == b[1]
           r == Tail(b)
           u == w \o s
           x == <<u>> \o r
<1>1. /\ b \in Seq(Seq(TmuxWords)) /\ b # <<>> /\ t \in Commands(TmuxWords)
      /\ \A seg \in ToSet(b) : "$(" \in ToSet(seg) => fatal
      /\ "$(" \in WordsIn(t) => fatal
      /\ \A d \in 0..MaxDepth :
            (\E seg \in ToSet(b) : SegmentHazard(seg, t, Hazardous[d + 1]))
                    <=> (fatal \/ d + n > MaxDepth)
  BY JudgedHeaded
<1> HIDE DEF b, t
<1>2. s \in S /\ r \in Seq(S) /\ ToSet(b) = {s} \union ToSet(r)
  <2>1. b \in Seq(S)
    BY <1>1
  <2> HIDE DEF S
  <2>2. QED
    BY <1>1, <2>1, BeheadIs
<1> HIDE DEF s, r
<1>3. /\ u \in S /\ "$(" \notin ToSet(w) /\ ToSet(u) = ToSet(w) \union ToSet(s)
      /\ \A h : SegmentHazard(u, t, h) <=> SegmentHazard(s, t, h)
  BY <1>2, DisplacedHazard
<1> HIDE DEF u
<1>4. x \in Seq(S) /\ x # <<>> /\ ToSet(x) = {u} \union ToSet(r)
  <2> HIDE DEF S
  <2>1. QED
    BY <1>2, <1>3, HeadedIs
<1> HIDE DEF x
<1>5. \A seg \in ToSet(x) : "$(" \in ToSet(seg) => fatal
  BY <1>1, <1>2, <1>3, <1>4, Zenon
<1>6. ASSUME NEW d \in 0..MaxDepth
      PROVE  (\E seg \in ToSet(x) : SegmentHazard(seg, t, Hazardous[d + 1]))
                    <=> (fatal \/ d + n > MaxDepth)
  <2>1. (\E seg \in ToSet(x) : SegmentHazard(seg, t, Hazardous[d + 1]))
            <=> \E seg \in ToSet(b) : SegmentHazard(seg, t, Hazardous[d + 1])
    BY <1>2, <1>3, <1>4, Zenon
  <2>2. QED
    BY <1>1, <2>1
<1>7. Judgable(<<x>> \o t, fatal, n)
  <2>1. x \in Seq(Seq(TmuxWords))
    BY <1>4
  <2>2. QED
    BY <1>1, <1>4, <1>5, <1>6, <2>1, HeadedJudged
<1>8. QED
  BY <1>7 DEF x, u, s, r, b, t

\* A scan from the end that looks two positions ahead.
ScansBack(f, n, last, next) ==
    /\ f[n + 1] = last /\ f[n + 2] = last
    /\ \A i \in 1..n : f[i] = next[<<i, f[i + 1], f[i + 2]>>]

LEMMA BackwardScanExists ==
  ASSUME NEW V, NEW n \in Nat, NEW last \in V, NEW D, NEW next \in [D -> V],
         \A i \in Nat, x \in V, y \in V : <<i, x, y>> \in D
  PROVE  \E f \in [1..n + 2 -> V] : ScansBack(f, n, last, next)
<1> DEFINE ScannedTo(f, m) ==
             /\ f[n + 1] = last /\ f[n + 2] = last
             /\ \A i \in n - m + 1..n : f[i] = next[<<i, f[i + 1], f[i + 2]>>]
           Good == {m \in Nat : m <= n => \E f \in [n - m + 1..n + 2 -> V] : ScannedTo(f, m)}
<1>1. 0 \in Good
  <2> DEFINE f == [i \in n - 0 + 1..n + 2 |-> last]
  <2>1. f \in [n - 0 + 1..n + 2 -> V] /\ ScannedTo(f, 0)
    OBVIOUS
  <2>2. QED
    BY <2>1
<1>2. ASSUME NEW m \in Nat, m \in Good PROVE m + 1 \in Good
  <2> SUFFICES ASSUME m + 1 <= n
               PROVE  \E f \in [n - (m + 1) + 1..n + 2 -> V] : ScannedTo(f, m + 1)
    OBVIOUS
  <2>1. PICK f \in [n - m + 1..n + 2 -> V] : ScannedTo(f, m)
    BY <1>2
  <2> DEFINE k == n - m
             new == next[<<k, f[k + 1], f[k + 2]>>]
             g == [i \in k..n + 2 |-> IF i = k THEN new ELSE f[i]]
  <2>2. k \in 1..n /\ k + 1 \in n - m + 1..n + 2 /\ k + 2 \in n - m + 1..n + 2
        /\ n - (m + 1) + 1 = k /\ k \in Nat
    OBVIOUS
  <2>3. new \in V
    BY <2>1, <2>2
  <2>4. g \in [k..n + 2 -> V]
    BY <2>1, <2>3
  <2>5. g[k] = new /\ \A i \in k + 1..n + 2 : g[i] = f[i]
    BY <2>2
  <2> HIDE DEF g
  <2>6. ASSUME NEW i \in k..n PROVE g[i] = next[<<i, g[i + 1], g[i + 2]>>]
    <3>1. g[i + 1] = f[i + 1] /\ g[i + 2] = f[i + 2]
      BY <2>2, <2>5
    <3>2. CASE i = k
      BY <2>5, <3>1, <3>2
    <3>3. CASE i # k
      <4>1. i \in n - m + 1..n /\ i \in k + 1..n + 2
        BY <2>2, <3>3
      <4>2. QED
        BY <2>1, <2>5, <3>1, <4>1
    <3>4. QED
      BY <3>2, <3>3
  <2>7. g[n + 1] = last /\ g[n + 2] = last
    BY <2>1, <2>2, <2>5
  <2>8. g \in [n - (m + 1) + 1..n + 2 -> V] /\ ScannedTo(g, m + 1)
    BY <2>2, <2>4, <2>6, <2>7
  <2>9. QED
    BY <2>8
<1> HIDE DEF Good
<1>3. n \in Good
  BY <1>1, <1>2, Induction
<1>4. n - n + 1 = 1
  OBVIOUS
<1>5. QED
  BY <1>3, <1>4 DEF Good, ScansBack

\* What FlagValues finds from position i on, if f says what it finds further on.
Valued(f, args, flag, i) ==
    IF i > Len(args) THEN <<>>
    ELSE IF args[i] = flag THEN <<At(args, i + 1)>> \o f[i + 2]
    ELSE (IF args[i] \in DOMAIN Fused /\ Fused[args[i]][1] = flag
          THEN <<Fused[args[i]][2]>> ELSE <<>>) \o f[i + 1]

\* Words that give no value for a flag, and the value that others carry.
Bare(word, flag) == word # flag /\ (word \in DOMAIN Fused => Fused[word][1] # flag)
Carries(word, flag, value) ==
    word # flag /\ word \in DOMAIN Fused /\ Fused[word] = <<flag, value>>

LEMMA FusedTypes ==
  \A word \in DOMAIN Fused : Fused[word][2] \in TmuxWords
<1>1. ASSUME NEW word \in DOMAIN Fused PROVE Fused[word][2] \in TmuxWords
  <2>1. word \in {"-Sown/sock", "-L=scratch", "-Ldefault"}
    BY Zenon DEF Fused
  <2>2. Fused["-Sown/sock"] = <<"-S", "own/sock">> /\ Fused["-L=scratch"] = <<"-L", "scratch">>
        /\ Fused["-Ldefault"] = <<"-L", "default">>
    BY Zenon DEF Fused
  <2>3. \A t, a, b : t = <<a, b>> => t[2] = b
    OBVIOUS
  <2>4. /\ Fused["-Sown/sock"][2] = "own/sock" /\ Fused["-L=scratch"][2] = "scratch"
        /\ Fused["-Ldefault"][2] = "default"
    BY <2>2, <2>3
  <2>5. QED
    BY <2>1, <2>4, Zenon DEF TmuxWords
<1>2. QED
  BY <1>1

LEMMA FlagValuesAre ==
  ASSUME NEW args \in Seq(TmuxWords), NEW flag
  PROVE  \E v \in [1..Len(args) + 2 -> Seq(TmuxWords \union {None})] :
            /\ FlagValues(args, flag) = v[1]
            /\ v[Len(args) + 1] = <<>>
            /\ \A i \in 1..Len(args) : v[i] = Valued(v, args, flag, i)
<1> DEFINE n == Len(args)
           W == TmuxWords \union {None}
           V == Seq(W)
           fused(i) == args[i] \in DOMAIN Fused /\ Fused[args[i]][1] = flag
           value(i) == Fused[args[i]][2]
           D == Nat \X V \X V
           next == [z \in D |->
                      IF args[z[1]] = flag THEN <<At(args, z[1] + 1)>> \o z[3]
                      ELSE (IF fused(z[1]) THEN <<value(z[1])>> ELSE <<>>) \o z[2]]
<1>1. n \in Nat /\ <<>> \in V
  OBVIOUS
<1>2. \A i \in Nat : At(args, i) \in W
  BY DEF At
<1>3. \A i \in Nat : fused(i) => value(i) \in W
  BY FusedTypes
<1> HIDE DEF W
<1>4. \A w \in W, s \in V : <<w>> \o s \in V /\ <<>> \o s = s
  BY ConcatProperties
<1> HIDE DEF V, fused, value
<1>5. ASSUME NEW i \in Nat, NEW x \in V, NEW y \in V
      PROVE  (IF args[i] = flag THEN <<At(args, i + 1)>> \o y
              ELSE (IF fused(i) THEN <<value(i)>> ELSE <<>>) \o x) \in V
  <2>1. i + 1 \in Nat
    OBVIOUS
  <2>2. <<At(args, i + 1)>> \o y \in V /\ <<>> \o x \in V
        /\ (fused(i) => <<value(i)>> \o x \in V)
    BY <1>2, <1>3, <1>4, <2>1
  <2>3. QED
    BY <2>2
<1>6. next \in [D -> V]
  <2>1. ASSUME NEW z \in Nat \X V \X V
        PROVE  (IF args[z[1]] = flag THEN <<At(args, z[1] + 1)>> \o z[3]
                ELSE (IF fused(z[1]) THEN <<value(z[1])>> ELSE <<>>) \o z[2]) \in V
    <3>1. z[1] \in Nat /\ z[2] \in V /\ z[3] \in V
      OBVIOUS
    <3>2. QED
      BY <3>1, <1>5, Zenon
  <2>2. QED
    BY <2>1, Zenon
<1>7. \A i \in Nat, x \in V, y \in V :
        next[<<i, x, y>>] = IF args[i] = flag THEN <<At(args, i + 1)>> \o y
                            ELSE (IF fused(i) THEN <<value(i)>> ELSE <<>>) \o x
  OBVIOUS
<1>7a. \A i \in Nat, x \in V, y \in V : <<i, x, y>> \in D
  OBVIOUS
<1> HIDE DEF next, D
<1>8. PICK f \in [1..n + 2 -> V] :
            /\ f[n + 1] = <<>> /\ f[n + 2] = <<>>
            /\ \A i \in 1..n : f[i] = next[<<i, f[i + 1], f[i + 2]>>]
  <2> DEFINE none == <<>>
  <2>1. none \in V
    BY <1>1
  <2> HIDE DEF none
  <2>2. \E f \in [1..n + 2 -> V] : ScansBack(f, n, none, next)
    <3> HIDE DEF n
    <3>1. n \in Nat
      BY <1>1
    <3>2. QED
      BY <3>1, <1>6, <1>7a, <2>1, BackwardScanExists, ZenonT(30)
  <2>3. QED
    BY <2>2 DEF none, ScansBack
<1>9. ASSUME NEW i \in 1..n + 2 PROVE f[i] = Valued(f, args, flag, i)
  <2>1. CASE i \in 1..n
    <3>1. i \in Nat /\ i + 1 \in 1..n + 2 /\ i + 2 \in 1..n + 2 /\ ~(i > Len(args))
      BY <1>1, <2>1
    <3>2. f[i] = IF args[i] = flag THEN <<At(args, i + 1)>> \o f[i + 2]
                 ELSE (IF fused(i) THEN <<value(i)>> ELSE <<>>) \o f[i + 1]
      <4>1. f[i + 1] \in V /\ f[i + 2] \in V /\ f[i] = next[<<i, f[i + 1], f[i + 2]>>]
        BY <1>8, <2>1, <3>1
      <4>2. QED
        BY <1>7, <3>1, <4>1, Zenon
    <3>3. QED
      BY <3>1, <3>2, Zenon DEF Valued, fused, value
  <2>2. CASE i \notin 1..n
    <3>1. (i = n + 1 \/ i = n + 2) /\ i > Len(args)
      BY <1>1, <2>2
    <3>2. QED
      BY <1>8, <3>1 DEF Valued
  <2>3. QED
    BY <2>1, <2>2
<1> DEFINE does(h, i) == Valued(h, args, flag, i)
           chosen == CHOOSE h : h = [i \in 1..Len(args) + 2 |-> does(h, i)]
<1>10. FlagValues(args, flag) = chosen[1]
  BY DEF FlagValues, Valued
<1> HIDE DEF does
<1>11. f = [i \in 1..Len(args) + 2 |-> does(f, i)]
  BY <1>9 DEF does, n
<1>12. chosen = [i \in 1..Len(args) + 2 |-> does(chosen, i)]
  BY <1>11
<1> HIDE DEF chosen
<1>13. \A i \in 1..n + 2 : chosen[i] = does(chosen, i)
  BY <1>12
<1> DEFINE Same == {m \in Nat : \A i \in 1..n + 2 : i + m >= n + 1 => chosen[i] = f[i]}
<1>14. 0 \in Same
  <2>1. ASSUME NEW i \in 1..n + 2, i + 0 >= n + 1 PROVE chosen[i] = f[i]
    <3>1. i > Len(args)
      BY <1>1, <2>1
    <3>2. QED
      BY <1>9, <1>13, <3>1 DEF does, Valued
  <2>2. QED
    BY <2>1
<1>15. ASSUME NEW m \in Nat, m \in Same PROVE m + 1 \in Same
  <2>1. ASSUME NEW i \in 1..n + 2, i + (m + 1) >= n + 1 PROVE chosen[i] = f[i]
    <3>1. CASE i > Len(args)
      BY <1>9, <1>13, <3>1 DEF does, Valued
    <3>2. CASE ~(i > Len(args))
      <4>1. i + 1 \in 1..n + 2 /\ i + 2 \in 1..n + 2 /\ (i + 1) + m >= n + 1 /\ (i + 2) + m >= n + 1
        BY <1>1, <2>1, <3>2
      <4>2. chosen[i + 1] = f[i + 1] /\ chosen[i + 2] = f[i + 2]
        BY <1>15, <4>1
      <4>3. QED
        BY <1>9, <1>13, <4>2 DEF does, Valued
    <3>3. QED
      BY <3>1, <3>2
  <2>2. QED
    BY <2>1
<1> HIDE DEF Same
<1>16. chosen[1] = f[1]
  <2>1. n \in Same /\ 1 \in 1..n + 2 /\ 1 + n >= n + 1
    BY <1>1, <1>14, <1>15, Induction
  <2>2. QED
    BY <2>1 DEF Same
<1>17. QED
  BY <1>8, <1>9, <1>10, <1>16 DEF V, W, n

\* v says what is found for a flag from each position on.
Finds(v, args, flag) ==
    /\ FlagValues(args, flag) = v[1]
    /\ v[Len(args) + 1] = <<>>
    /\ \A i \in 1..Len(args) : Bare(args[i], flag) => v[i] = v[i + 1]
    /\ \A i \in 1..Len(args) - 1 : args[i] = flag => v[i] = <<args[i + 1]>> \o v[i + 2]
    /\ \A i \in 1..Len(args) :
          \A x : Carries(args[i], flag, x) => v[i] = <<x>> \o v[i + 1]

LEMMA FlagSteps ==
  ASSUME NEW args \in Seq(TmuxWords), NEW flag
  PROVE  \E v : Finds(v, args, flag)
<1> DEFINE n == Len(args)
           V == Seq(TmuxWords \union {None})
<1>1. n \in Nat /\ \A i \in 1..n : At(args, i) = args[i]
  BY DEF At
<1>2. PICK v \in [1..n + 2 -> V] :
            /\ FlagValues(args, flag) = v[1] /\ v[n + 1] = <<>>
            /\ \A i \in 1..n : v[i] = Valued(v, args, flag, i)
  BY FlagValuesAre
<1>3. \A s \in V : <<>> \o s = s
  OBVIOUS
<1> HIDE DEF V
<1>4. ASSUME NEW i \in 1..n
      PROVE  /\ Bare(args[i], flag) => v[i] = v[i + 1]
             /\ args[i] = flag => v[i] = <<At(args, i + 1)>> \o v[i + 2]
             /\ \A x : Carries(args[i], flag, x) => v[i] = <<x>> \o v[i + 1]
  <2>1. ~(i > Len(args)) /\ i + 1 \in 1..n + 2
    BY <1>1
  <2>2. v[i + 1] \in V /\ v[i] = Valued(v, args, flag, i)
    BY <1>2, <2>1
  <2>3. <<>> \o v[i + 1] = v[i + 1]
    BY <1>3, <2>2
  <2>4. Bare(args[i], flag) => v[i] = v[i + 1]
    BY <2>1, <2>2, <2>3, Zenon DEF Valued, Bare
  <2>5. args[i] = flag => v[i] = <<At(args, i + 1)>> \o v[i + 2]
    BY <2>1, <2>2, Zenon DEF Valued
  <2>6. ASSUME NEW x, Carries(args[i], flag, x) PROVE v[i] = <<x>> \o v[i + 1]
    <3>1. \A t : t = <<flag, x>> => t[1] = flag /\ t[2] = x
      OBVIOUS
    <3>2. Fused[args[i]][1] = flag /\ Fused[args[i]][2] = x
      BY <2>6, <3>1, Zenon DEF Carries
    <3>3. QED
      BY <2>1, <2>2, <2>6, <3>2, Zenon DEF Valued, Carries
  <2>7. QED
    BY <2>4, <2>5, <2>6
<1>5. ASSUME NEW i \in 1..n - 1, args[i] = flag PROVE v[i] = <<args[i + 1]>> \o v[i + 2]
  <2>1. i \in 1..n /\ i + 1 \in 1..n
    BY <1>1
  <2>2. QED
    BY <1>1, <1>4, <1>5, <2>1
<1>6. QED
  BY <1>2, <1>4, <1>5 DEF Finds

\* Bare words give no value.
LEMMA NoValues ==
  ASSUME NEW args \in Seq(TmuxWords), NEW flag,
         \A word \in ToSet(args) : Bare(word, flag)
  PROVE  FlagValues(args, flag) = <<>>
<1> DEFINE n == Len(args)
<1>0. PICK v : Finds(v, args, flag)
  BY FlagSteps
<1>1. /\ FlagValues(args, flag) = v[1] /\ v[n + 1] = <<>>
      /\ \A i \in 1..n : Bare(args[i], flag) => v[i] = v[i + 1]
  BY <1>0 DEF Finds
<1>2. n \in Nat /\ \A i \in 1..n : args[i] \in ToSet(args)
  BY DEF ToSet
<1> HIDE DEF n
<1> DEFINE Good == {i \in 1..n + 1 : v[1] = v[i]}
<1>3. 1 \in Good
  BY <1>2
<1>4. ASSUME NEW i \in 1..(n + 1) - 1, i \in Good PROVE i + 1 \in Good
  <2>1. i \in 1..n /\ i + 1 \in 1..n + 1
    BY <1>2
  <2>2. Bare(args[i], flag)
    BY <1>2, <2>1
  <2>3. QED
    BY <1>1, <1>4, <2>1, <2>2
<1> HIDE DEF Good
<1>5. n + 1 \in Nat /\ n + 1 \in 1..n + 1
  BY <1>2
<1>6. 1..n + 1 \subseteq Good
  BY <1>3, <1>4, <1>5, InductionUpTo
<1>7. QED
  BY <1>1, <1>5, <1>6 DEF Good

\* The shapes in which values are given below.
LEMMA CarriedFirst ==
  ASSUME NEW a \in TmuxWords, NEW b \in TmuxWords, NEW flag, NEW x,
         Carries(a, flag, x), Bare(b, flag)
  PROVE  FlagValues(<<a, b>>, flag) = <<x>>
<1> DEFINE args == <<a, b>>
<1>1. args \in Seq(TmuxWords) /\ Len(args) = 2 /\ args[1] = a /\ args[2] = b
  OBVIOUS
<1> HIDE DEF args
<1>2. PICK v : Finds(v, args, flag)
  BY <1>1, FlagSteps
<1>3. FlagValues(args, flag) = v[1] /\ v[1] = <<x>> \o v[2] /\ v[2] = v[3] /\ v[3] = <<>>
  BY <1>1, <1>2 DEF Finds
<1>4. <<x>> \o <<>> = <<x>>
  OBVIOUS
<1>5. QED
  BY <1>3, <1>4 DEF args

LEMMA CarriedLast ==
  ASSUME NEW a \in TmuxWords, NEW b \in TmuxWords, NEW flag, NEW x,
         Bare(a, flag), Carries(b, flag, x)
  PROVE  FlagValues(<<a, b>>, flag) = <<x>>
<1> DEFINE args == <<a, b>>
<1>1. args \in Seq(TmuxWords) /\ Len(args) = 2 /\ args[1] = a /\ args[2] = b
  OBVIOUS
<1> HIDE DEF args
<1>2. PICK v : Finds(v, args, flag)
  BY <1>1, FlagSteps
<1>3. FlagValues(args, flag) = v[1] /\ v[1] = v[2] /\ v[2] = <<x>> \o v[3] /\ v[3] = <<>>
  BY <1>1, <1>2 DEF Finds
<1>4. <<x>> \o <<>> = <<x>>
  OBVIOUS
<1>5. QED
  BY <1>3, <1>4 DEF args

LEMMA JoinTwo == \A x, y : <<x>> \o <<y>> = <<x, y>>
<1> TAKE x, y
<1> DEFINE S == {x, y}
           a == <<x>>
           b == <<y>>
           c == <<x, y>>
           u == a \o b
<1>1. a \in Seq(S) /\ b \in Seq(S) /\ c \in Seq(S) /\ Len(a) = 1 /\ Len(b) = 1 /\ Len(c) = 2
      /\ a[1] = x /\ b[1] = y /\ c[1] = x /\ c[2] = y
  OBVIOUS
<1> HIDE DEF a, b, c, S
<1>2. u \in Seq(S) /\ Len(u) = Len(a) + Len(b)
      /\ (\A i \in 1..Len(a) : u[i] = a[i]) /\ \A k \in 1..Len(b) : u[Len(a) + k] = b[k]
  <2>1. a \in Seq(S) /\ b \in Seq(S)
    BY <1>1
  <2>2. QED
    BY <2>1, ConcatAt
<1> HIDE DEF u
<1>3. Len(u) = 2 /\ u[1] = x /\ u[2] = y
  <2>1. 1 \in 1..Len(a) /\ 1 \in 1..Len(b) /\ Len(a) + 1 = 2 /\ Len(a) + Len(b) = 2
    BY <1>1
  <2>2. QED
    BY <1>1, <1>2, <2>1
<1>4. \A i \in 1..Len(u) : u[i] = c[i]
  BY <1>1, <1>3
<1>5. u = c
  BY <1>1, <1>2, <1>3, <1>4, SeqEqual
<1>6. QED
  BY <1>5 DEF u, a, b, c

\* A flag at either place, or at two.
LEMMA GivenValues ==
  ASSUME NEW a \in TmuxWords, NEW b \in TmuxWords, NEW c \in TmuxWords,
         NEW d \in TmuxWords, NEW e \in TmuxWords, NEW flag
  PROVE  /\ a = flag /\ Bare(c, flag) /\ Bare(d, flag) /\ Bare(e, flag) =>
                FlagValues(<<a, b, c, d, e>>, flag) = <<b>>
         /\ Bare(a, flag) /\ Bare(b, flag) /\ c = flag /\ Bare(e, flag) =>
                FlagValues(<<a, b, c, d, e>>, flag) = <<d>>
         /\ Bare(a, flag) /\ b = flag /\ d = flag =>
                FlagValues(<<a, b, c, d, e>>, flag) = <<c, e>>
<1> DEFINE args == <<a, b, c, d, e>>
<1>1. args \in Seq(TmuxWords) /\ Len(args) = 5 /\ args[1] = a /\ args[2] = b
      /\ args[3] = c /\ args[4] = d /\ args[5] = e
  OBVIOUS
<1> HIDE DEF args
<1>2. PICK v : Finds(v, args, flag)
  BY <1>1, FlagSteps
<1>3. /\ v[6] = <<>>
      /\ Bare(a, flag) => v[1] = v[2]
      /\ Bare(b, flag) => v[2] = v[3]
      /\ Bare(c, flag) => v[3] = v[4]
      /\ Bare(d, flag) => v[4] = v[5]
      /\ Bare(e, flag) => v[5] = v[6]
      /\ a = flag => v[1] = <<b>> \o v[3]
      /\ b = flag => v[2] = <<c>> \o v[4]
      /\ c = flag => v[3] = <<d>> \o v[5]
      /\ d = flag => v[4] = <<e>> \o v[6]
      /\ FlagValues(args, flag) = v[1]
  <2>1. /\ \A i \in 1..5 : Bare(args[i], flag) => v[i] = v[i + 1]
        /\ \A i \in 1..4 : args[i] = flag => v[i] = <<args[i + 1]>> \o v[i + 2]
        /\ v[6] = <<>> /\ FlagValues(args, flag) = v[1]
    BY <1>1, <1>2 DEF Finds
  <2>2. /\ Bare(args[1], flag) => v[1] = v[2]
        /\ Bare(args[2], flag) => v[2] = v[3]
        /\ Bare(args[3], flag) => v[3] = v[4]
        /\ Bare(args[4], flag) => v[4] = v[5]
        /\ Bare(args[5], flag) => v[5] = v[6]
    BY <2>1
  <2>3. /\ args[1] = flag => v[1] = <<args[2]>> \o v[3]
        /\ args[2] = flag => v[2] = <<args[3]>> \o v[4]
        /\ args[3] = flag => v[3] = <<args[4]>> \o v[5]
        /\ args[4] = flag => v[4] = <<args[5]>> \o v[6]
    BY <2>1
  <2>4. QED
    BY <1>1, <2>1, <2>2, <2>3
<1>4. \A x, y : <<x>> \o <<>> = <<x>> /\ <<x>> \o <<y>> = <<x, y>>
  <2> TAKE x, y
  <2>1. <<x>> \o <<>> = <<x>>
    OBVIOUS
  <2>2. <<x>> \o <<y>> = <<x, y>>
    BY JoinTwo
  <2>3. QED
    BY <2>1, <2>2
<1>5. QED
  BY <1>3, <1>4 DEF args

\* The words that give no value, and those that carry one.
LEMMA FlagWords ==
  /\ \A flag \in {"-S", "-L"} : Bare("kill-server", flag) /\ Bare("scratch", flag)
                                /\ Bare("default", flag)
  /\ Bare("-L", "-S") /\ Bare("-Ldefault", "-S") /\ Bare("-L=scratch", "-S")
  /\ Carries("-Ldefault", "-L", "default") /\ Carries("-L=scratch", "-L", "scratch")
  /\ Carries("-Sown/sock", "-S", "own/sock")
<1>1. /\ Fused["-Sown/sock"] = <<"-S", "own/sock">> /\ Fused["-L=scratch"] = <<"-L", "scratch">>
      /\ Fused["-Ldefault"] = <<"-L", "default">>
      /\ DOMAIN Fused = {"-Sown/sock", "-L=scratch", "-Ldefault"}
  BY Zenon DEF Fused
<1>2. \A t, a, b : t = <<a, b>> => t[1] = a
  OBVIOUS
<1>3. Fused["-Sown/sock"][1] = "-S" /\ Fused["-L=scratch"][1] = "-L"
      /\ Fused["-Ldefault"][1] = "-L"
  BY <1>1, <1>2
<1>4. QED
  BY <1>1, <1>3, Zenon DEF Bare, Carries

\* A scope permits the kill only when it is the agent's own.
LEMMA NoScope ==
  \A args : FlagValues(args, "-S") = <<>> /\ FlagValues(args, "-L") = <<>> =>
                ~ScopePermitsKill(args)
BY Zenon DEF ScopePermitsKill

LEMMA LastIs ==
  \A x, y : Last(<<x>>) = x /\ Last(<<x, y>>) = y /\ <<x>> # <<>> /\ <<x, y>> # <<>>
BY DEF Last

LEMMA SocketScope ==
  \A args, x : FlagValues(args, "-S") = <<x>> =>
                (ScopePermitsKill(args) <=> x \notin FleetSockets)
BY LastIs, Zenon DEF ScopePermitsKill

LEMMA LabelScope ==
  \A args, x : FlagValues(args, "-S") = <<>> /\ FlagValues(args, "-L") = <<x>> =>
                (ScopePermitsKill(args) <=> x \notin FleetLabels)
BY LastIs, Zenon DEF ScopePermitsKill

LEMMA LabelsScope ==
  \A args, x, y : FlagValues(args, "-S") = <<>> /\ FlagValues(args, "-L") = <<x, y>> =>
                (ScopePermitsKill(args) <=> y \notin FleetLabels)
BY LastIs, Zenon DEF ScopePermitsKill

\* Bare words, in commands of each length that there is below.
LEMMA NoneGiven ==
  ASSUME NEW flag
  PROVE  /\ FlagValues(<<>>, flag) = <<>>
         /\ \A a \in TmuxWords : Bare(a, flag) => FlagValues(<<a>>, flag) = <<>>
         /\ \A a, b \in TmuxWords :
                Bare(a, flag) /\ Bare(b, flag) => FlagValues(<<a, b>>, flag) = <<>>
<1>1. FlagValues(<<>>, flag) = <<>>
  <2> DEFINE t == <<>>
  <2>1. t \in Seq(TmuxWords) /\ DOMAIN t = {}
    OBVIOUS
  <2> HIDE DEF t
  <2>2. ToSet(t) = {}
    BY <2>1, Zenon DEF ToSet
  <2>3. FlagValues(t, flag) = <<>>
    BY <2>1, <2>2, NoValues
  <2>4. QED
    BY <2>3 DEF t
<1>2. ASSUME NEW a \in TmuxWords, Bare(a, flag) PROVE FlagValues(<<a>>, flag) = <<>>
  <2> DEFINE t == <<a>>
  <2>1. t \in Seq(TmuxWords)
    OBVIOUS
  <2>2. ToSet(t) = {a}
    BY ToSetOfWords, Zenon
  <2> HIDE DEF t
  <2>3. FlagValues(t, flag) = <<>>
    BY <1>2, <2>1, <2>2, NoValues
  <2>4. QED
    BY <2>3 DEF t
<1>3. ASSUME NEW a \in TmuxWords, NEW b \in TmuxWords, Bare(a, flag), Bare(b, flag)
      PROVE  FlagValues(<<a, b>>, flag) = <<>>
  <2> DEFINE t == <<a, b>>
  <2>1. t \in Seq(TmuxWords)
    OBVIOUS
  <2>2. ToSet(t) = {a, b}
    BY ToSetOfWords, Zenon
  <2> HIDE DEF t
  <2>3. FlagValues(t, flag) = <<>>
    BY <1>3, <2>1, <2>2, NoValues
  <2>4. QED
    BY <2>3 DEF t
<1>4. QED
  BY <1>1, <1>2, <1>3

\* And words with flags among them.
LEMMA FiveBare ==
  \A flag, a, b, c, d, e :
    /\ {a, b, c, d, e} \subseteq TmuxWords
    /\ Bare(a, flag) /\ Bare(b, flag) /\ Bare(c, flag) /\ Bare(d, flag) /\ Bare(e, flag)
    => FlagValues(<<a, b, c, d, e>>, flag) = <<>>
<1> TAKE flag, a, b, c, d, e
<1> HAVE /\ {a, b, c, d, e} \subseteq TmuxWords
         /\ Bare(a, flag) /\ Bare(b, flag) /\ Bare(c, flag) /\ Bare(d, flag) /\ Bare(e, flag)
<1>1. a \in TmuxWords /\ b \in TmuxWords /\ c \in TmuxWords /\ d \in TmuxWords /\ e \in TmuxWords
  OBVIOUS
<1> DEFINE t == <<a, b, c, d, e>>
<1>2. /\ t \in Seq(TmuxWords) /\ DOMAIN t = {1, 2, 3, 4, 5}
      /\ t[1] = a /\ t[2] = b /\ t[3] = c /\ t[4] = d /\ t[5] = e
  BY <1>1
<1> HIDE DEF t
<1>3. ToSet(t) = {a, b, c, d, e}
  BY <1>2, ZenonT(60) DEF ToSet
<1>4. FlagValues(t, flag) = <<>>
  BY <1>2, <1>3, NoValues
<1>5. QED
  BY <1>4 DEF t

LEMMA OneCarried ==
  \A flag, a, b, x :
    {a, b} \subseteq TmuxWords /\ Carries(a, flag, x) /\ Bare(b, flag)
    => FlagValues(<<a, b>>, flag) = <<x>>
BY CarriedFirst

LEMMA LaterCarried ==
  \A flag, a, b, x :
    {a, b} \subseteq TmuxWords /\ Bare(a, flag) /\ Carries(b, flag, x)
    => FlagValues(<<a, b>>, flag) = <<x>>
BY CarriedLast

LEMMA FirstGiven ==
  \A flag, b, c, d, e :
    /\ {flag, b, c, d, e} \subseteq TmuxWords
    /\ Bare(c, flag) /\ Bare(d, flag) /\ Bare(e, flag)
    => FlagValues(<<flag, b, c, d, e>>, flag) = <<b>>
BY GivenValues

LEMMA ThirdGiven ==
  \A flag, a, b, d, e :
    /\ {flag, a, b, d, e} \subseteq TmuxWords
    /\ Bare(a, flag) /\ Bare(b, flag) /\ Bare(e, flag)
    => FlagValues(<<a, b, flag, d, e>>, flag) = <<d>>
BY GivenValues

LEMMA TwoGiven ==
  \A flag, a, c, e :
    /\ {flag, a, c, e} \subseteq TmuxWords
    /\ Bare(a, flag)
    => FlagValues(<<a, flag, c, flag, e>>, flag) = <<c, e>>
BY GivenValues

LEMMA Scopes ==
  /\ ~ScopePermitsKill(<<>>)
  /\ ~ScopePermitsKill(<<"kill-server">>)
  /\ ~ScopePermitsKill(<<"-Ldefault", "kill-server">>)
  /\ ~ScopePermitsKill(<<"-L", "scratch", "-S", "/tmp/tmux-1000//default", "kill-server">>)
  /\ ~ScopePermitsKill(<<"kill-server", "-L", "scratch", "-L", "default">>)
  /\ ScopePermitsKill(<<"-S", "own/sock", "-L", "default", "kill-server">>)
  /\ ScopePermitsKill(<<"kill-server", "-L=scratch">>)
  /\ ScopePermitsKill(<<"-Sown/sock", "kill-server">>)
<1> DEFINE W == TmuxWords
<1>1. "kill-server" \in W /\ "-Ldefault" \in W /\ "-L" \in W /\ "scratch" \in W /\ "-S" \in W
      /\ "/tmp/tmux-1000//default" \in W /\ "default" \in W /\ "own/sock" \in W
      /\ "-L=scratch" \in W /\ "-Sown/sock" \in W
  BY Zenon DEF TmuxWords
<1> HIDE DEF W
<1>2. /\ Bare("kill-server", "-S") /\ Bare("scratch", "-S") /\ Bare("default", "-S")
      /\ Bare("kill-server", "-L") /\ Bare("scratch", "-L") /\ Bare("default", "-L")
      /\ Bare("-L", "-S") /\ Bare("-Ldefault", "-S") /\ Bare("-L=scratch", "-S")
      /\ Carries("-Ldefault", "-L", "default") /\ Carries("-L=scratch", "-L", "scratch")
      /\ Carries("-Sown/sock", "-S", "own/sock")
  BY FlagWords, Zenon
<1>3. /\ "own/sock" \notin FleetSockets /\ "/tmp/tmux-1000//default" \in FleetSockets
      /\ "default" \in FleetLabels /\ "scratch" \notin FleetLabels
  BY Zenon DEF FleetSockets, FleetLabels, None
<1>4. ~ScopePermitsKill(<<>>)
  BY NoneGiven, NoScope, Zenon
<1>5. ~ScopePermitsKill(<<"kill-server">>)
  BY <1>1, <1>2, NoneGiven, NoScope, Zenon DEF W
<1>6. ~ScopePermitsKill(<<"-Ldefault", "kill-server">>)
  <2>1. FlagValues(<<"-Ldefault", "kill-server">>, "-S") = <<>>
    BY <1>1, <1>2, NoneGiven, Zenon DEF W
  <2>2. FlagValues(<<"-Ldefault", "kill-server">>, "-L") = <<"default">>
    <3>1. {"-Ldefault", "kill-server"} \subseteq TmuxWords
      BY <1>1, Zenon DEF W
    <3>2. QED
      BY <1>2, <3>1, OneCarried, Zenon
  <2>3. QED
    BY <1>3, <2>1, <2>2, LabelScope, Zenon
<1>7. ~ScopePermitsKill(<<"-L", "scratch", "-S", "/tmp/tmux-1000//default", "kill-server">>)
  <2>1. FlagValues(<<"-L", "scratch", "-S", "/tmp/tmux-1000//default", "kill-server">>, "-S")
            = <<"/tmp/tmux-1000//default">>
    BY <1>1, <1>2, ThirdGiven, Zenon DEF W
  <2>2. QED
    BY <1>3, <2>1, SocketScope, Zenon
<1>8. ~ScopePermitsKill(<<"kill-server", "-L", "scratch", "-L", "default">>)
  <2>1. FlagValues(<<"kill-server", "-L", "scratch", "-L", "default">>, "-S") = <<>>
    BY <1>1, <1>2, FiveBare, Zenon DEF W
  <2>2. FlagValues(<<"kill-server", "-L", "scratch", "-L", "default">>, "-L")
            = <<"scratch", "default">>
    BY <1>1, <1>2, TwoGiven, ZenonT(60) DEF W
  <2>3. QED
    BY <1>3, <2>1, <2>2, LabelsScope, Zenon
<1>9. ScopePermitsKill(<<"-S", "own/sock", "-L", "default", "kill-server">>)
  <2>1. FlagValues(<<"-S", "own/sock", "-L", "default", "kill-server">>, "-S")
            = <<"own/sock">>
    BY <1>1, <1>2, FirstGiven, Zenon DEF W
  <2>2. QED
    BY <1>3, <2>1, SocketScope, Zenon
<1>10. ScopePermitsKill(<<"kill-server", "-L=scratch">>)
  <2>1. FlagValues(<<"kill-server", "-L=scratch">>, "-S") = <<>>
    BY <1>1, <1>2, NoneGiven, Zenon DEF W
  <2>2. FlagValues(<<"kill-server", "-L=scratch">>, "-L") = <<"scratch">>
    <3>1. {"kill-server", "-L=scratch"} \subseteq TmuxWords
      BY <1>1, Zenon DEF W
    <3>2. Bare("kill-server", "-L") /\ Carries("-L=scratch", "-L", "scratch")
      BY <1>2
    <3>3. QED
      BY <3>1, <3>2, LaterCarried
  <2>3. QED
    BY <1>3, <2>1, <2>2, LabelScope, Zenon
<1>11. ScopePermitsKill(<<"-Sown/sock", "kill-server">>)
  <2>1. FlagValues(<<"-Sown/sock", "kill-server">>, "-S") = <<"own/sock">>
    BY <1>1, <1>2, OneCarried, Zenon DEF W
  <2>2. QED
    BY <1>3, <2>1, SocketScope, Zenon
<1>12. QED
  BY <1>4, <1>5, <1>6, <1>7, <1>8, <1>9, <1>10, <1>11

\* Some position holds a command that kills the fleet, given the words after
\* it.
HazardIn(words, inner, hazardous) ==
    \E i \in DOMAIN words : HazardAt(words, i, inner, hazardous)
HeadHazard(command, args, inner, hazardous) ==
    NestedHazard(command, args, inner, hazardous) \/ DirectHazard(command, args)

LEMMA HeadThenRest ==
  ASSUME NEW S, NEW words \in Seq(S), words # <<>>, NEW inner, NEW hazardous
  PROVE  HazardIn(words, inner, hazardous) <=>
            \/ HeadHazard(Base(words[1]), Tail(words), inner, hazardous)
            \/ HazardIn(Tail(words), inner, hazardous)
<1> DEFINE t == Tail(words)
<1>1. From(words, 2) = t /\ Len(words) \in Nat \ {0}
  BY FromFirst
<1>2. /\ t \in Seq(S) /\ Len(t) = Len(words) - 1 /\ DOMAIN t = 1..Len(words) - 1
      /\ DOMAIN words = 1..Len(words)
      /\ \A i \in 1..Len(words) - 1 : t[i] = words[i + 1]
  OBVIOUS
<1>3. ASSUME NEW i \in 1..Len(words) - 1
      PROVE  From(t, i + 1) = From(words, i + 1 + 1)
  <2>1. 2 \in 1..Len(words) + 1 /\ i + 1 \in 1..Len(words) - 2 + 2
        /\ 2 + (i + 1) - 1 = i + 1 + 1
    BY <1>1
  <2>2. From(From(words, 2), i + 1) = From(words, 2 + (i + 1) - 1)
    BY <2>1, FromFrom
  <2>3. QED
    BY <1>1, <2>1, <2>2
<1> HIDE DEF t
<1>4. \A i \in 1..Len(words) - 1 :
         HazardAt(t, i, inner, hazardous) <=> HazardAt(words, i + 1, inner, hazardous)
  BY <1>2, <1>3 DEF HazardAt
<1>5. HazardAt(words, 1, inner, hazardous) <=> HeadHazard(Base(words[1]), t, inner, hazardous)
  <2>1. From(words, 1 + 1) = t
    BY <1>1
  <2>2. QED
    BY <2>1, Zenon DEF HazardAt, HeadHazard
<1>6. \A i \in 1..Len(words) : i = 1 \/ (i - 1 \in 1..Len(words) - 1 /\ (i - 1) + 1 = i)
  BY <1>1
<1>7. 1 \in 1..Len(words) /\ \A i \in 1..Len(words) - 1 : i + 1 \in 1..Len(words)
  BY <1>1
<1>8. HazardIn(words, inner, hazardous) <=>
            \E i \in 1..Len(words) : HazardAt(words, i, inner, hazardous)
  BY <1>2, Zenon DEF HazardIn
<1>9. HazardIn(t, inner, hazardous) <=>
            \E i \in 1..Len(words) - 1 : HazardAt(t, i, inner, hazardous)
  BY <1>2, Zenon DEF HazardIn
<1>10. ASSUME NEW i \in 1..Len(words), HazardAt(words, i, inner, hazardous)
       PROVE  \/ HeadHazard(Base(words[1]), t, inner, hazardous)
              \/ \E k \in 1..Len(words) - 1 : HazardAt(t, k, inner, hazardous)
  <2>1. CASE i = 1
    BY <1>5, <1>10, <2>1
  <2>2. CASE i # 1
    <3>1. i - 1 \in 1..Len(words) - 1 /\ (i - 1) + 1 = i
      BY <1>6, <2>2
    <3>2. HazardAt(t, i - 1, inner, hazardous) <=> HazardAt(words, (i - 1) + 1, inner, hazardous)
      BY <1>4, <3>1, Zenon
    <3>3. HazardAt(t, i - 1, inner, hazardous)
      BY <1>10, <3>1, <3>2
    <3>4. QED
      BY <3>1, <3>3
  <2>3. QED
    BY <2>1, <2>2
<1>11. HazardIn(words, inner, hazardous) <=>
            HeadHazard(Base(words[1]), t, inner, hazardous) \/ HazardIn(t, inner, hazardous)
  <2>1. ASSUME HazardIn(t, inner, hazardous) PROVE HazardIn(words, inner, hazardous)
    <3>1. PICK i \in 1..Len(words) - 1 : HazardAt(t, i, inner, hazardous)
      BY <1>9, <2>1
    <3>2. HazardAt(words, i + 1, inner, hazardous) /\ i + 1 \in 1..Len(words)
      BY <1>4, <1>7, <3>1
    <3>3. QED
      BY <1>8, <3>2
  <2>2. QED
    BY <1>5, <1>7, <1>8, <1>9, <1>10, <2>1, Zenon
<1>12. QED
  BY <1>11 DEF t

LEMMA NoHeads ==
  ASSUME NEW words, NEW inner, NEW hazardous, \A word \in ToSet(words) : Base(word) \notin CommandHeads
  PROVE  ~HazardIn(words, inner, hazardous)
<1>1. \A i \in DOMAIN words : Base(words[i]) \notin CommandHeads
  BY Zenon DEF ToSet
<1>2. QED
  BY <1>1, OnlyHeads, Zenon DEF HazardIn

LEMMA HeadHazards ==
  ASSUME NEW args, NEW inner, NEW hazardous
  PROVE  /\ HeadHazard("tmux", args, inner, hazardous) <=>
                "kill-server" \in ToSet(args) /\ ~ScopePermitsKill(args)
         /\ HeadHazard("pkill", args, inner, hazardous) <=>
                ToSet(args) \intersect {"tmux", "^tmux"} # {}
         /\ HeadHazard("xargs", args, inner, hazardous) <=>
                LET aim == AfterFlags(args, Flags, XargsFlagsWithArg)
                IN aim # <<>> /\ Base(aim[1]) = "tmux" /\ ~ScopePermitsKill(Tail(aim))
         /\ HeadHazard("eval", args, inner, hazardous) <=>
                args # <<>> /\ hazardous[Joined(args, inner)]
         /\ HeadHazard("sh", args, inner, hazardous) <=>
                ShellPayload(args) # None /\ hazardous[Script(ShellPayload(args), inner)]
         /\ ~HeadHazard("echo", args, inner, hazardous)
<1>1. HeadHazard("tmux", args, inner, hazardous) <=>
                "kill-server" \in ToSet(args) /\ ~ScopePermitsKill(args)
  BY Zenon DEF HeadHazard, NestedHazard, DirectHazard, Shells, Killers
<1>2. HeadHazard("pkill", args, inner, hazardous) <=>
                ToSet(args) \intersect {"tmux", "^tmux"} # {}
  BY Zenon DEF HeadHazard, NestedHazard, DirectHazard, Shells, Killers
<1>3. HeadHazard("xargs", args, inner, hazardous) <=>
                LET aim == AfterFlags(args, Flags, XargsFlagsWithArg)
                IN aim # <<>> /\ Base(aim[1]) = "tmux" /\ ~ScopePermitsKill(Tail(aim))
  BY Zenon DEF HeadHazard, NestedHazard, DirectHazard, Shells, Killers
<1>4. HeadHazard("eval", args, inner, hazardous) <=>
                args # <<>> /\ hazardous[Joined(args, inner)]
  BY Zenon DEF HeadHazard, NestedHazard, DirectHazard, Shells, Killers
<1>5. HeadHazard("sh", args, inner, hazardous) <=>
                ShellPayload(args) # None /\ hazardous[Script(ShellPayload(args), inner)]
  BY Zenon DEF HeadHazard, NestedHazard, DirectHazard, Shells, Killers
<1>6. ~HeadHazard("echo", args, inner, hazardous)
  BY Zenon DEF HeadHazard, NestedHazard, DirectHazard, Shells, Killers
<1>7. QED
  BY <1>1, <1>2, <1>3, <1>4, <1>5, <1>6, Zenon

LEMMA PlainHazard ==
  ASSUME NEW seg, NEW inner, NEW hazardous, "$(" \notin ToSet(seg), "'" \notin ToSet(seg),
         "payload" \in ToSet(seg) => "$(" \notin WordsIn(inner)
  PROVE  SegmentHazard(seg, inner, hazardous) <=> HazardIn(Ungroup(seg), inner, hazardous)
<1>1. "$(" \notin Text(seg, inner)
  BY Zenon DEF Text
<1>2. DOMAIN Ungroup(seg) = DOMAIN seg
  BY DEF Ungroup
<1>3. QED
  BY <1>1, <1>2, SegmentHazardIs, Zenon DEF HazardIn

LEMMA UngroupPlain ==
  ASSUME NEW seg \in Seq(TmuxWords), "(tmux" \notin ToSet(seg), "kill-server)" \notin ToSet(seg)
  PROVE  Ungroup(seg) = seg
<1>1. \A i \in DOMAIN seg : Ungrouped(seg[i]) = seg[i]
  BY Zenon DEF Ungrouped, ToSet
<1>2. seg = [i \in DOMAIN seg |-> seg[i]]
  OBVIOUS
<1>3. QED
  BY <1>1, <1>2, Zenon DEF Ungroup

\* A level of one segment, in front of others.
LEMMA OneJudged ==
  ASSUME NEW seg \in Seq(TmuxWords), NEW t \in Commands(TmuxWords), NEW fatal \in BOOLEAN,
         NEW n \in Nat, "$(" \in ToSet(seg) => fatal, "$(" \in WordsIn(t) => fatal,
         \A d \in 0..MaxDepth :
            SegmentHazard(seg, t, Hazardous[d + 1]) <=> (fatal \/ d + n > MaxDepth)
  PROVE  Judgable(One(seg) \o t, fatal, n)
<1> DEFINE x == <<seg>>
<1>1. x \in Seq(Seq(TmuxWords)) /\ x # <<>>
  OBVIOUS
<1>2. ToSet(x) = {seg}
  BY ToSetOfWords, Zenon
<1> HIDE DEF x
<1>3. \A s \in ToSet(x) : "$(" \in ToSet(s) => fatal
  BY <1>2, Zenon
<1>4. \A d \in 0..MaxDepth : (\E s \in ToSet(x) : SegmentHazard(s, t, Hazardous[d + 1]))
                                  <=> (fatal \/ d + n > MaxDepth)
  BY <1>2, Zenon
<1>5. Judgable(<<x>> \o t, fatal, n)
  BY <1>1, <1>3, <1>4, HeadedJudged
<1>6. QED
  BY <1>5 DEF x, One

\* A nesting adds a level, and is as fatal as what is nested.
LEMMA NestingJudged ==
  ASSUME NEW w \in Seq(TmuxWords), "$(" \notin ToSet(w), "'" \notin ToSet(w),
         NEW levels, NEW fatal \in BOOLEAN, NEW n \in Nat, Judgable(levels, fatal, n),
         \A h : HazardIn(Ungroup(w), levels, h) <=> h[levels]
  PROVE  Judgable(One(w) \o levels, fatal, n + 1)
<1>1. levels \in Commands(TmuxWords) /\ ("$(" \in WordsIn(levels) => fatal)
  BY DEF Judgable
<1>2. ASSUME NEW d \in 0..MaxDepth
      PROVE  SegmentHazard(w, levels, Hazardous[d + 1]) <=> (fatal \/ d + (n + 1) > MaxDepth)
  <2> DEFINE h == Hazardous[d + 1]
  <2>1. h[levels] = (fatal \/ d + (n + 1) > MaxDepth)
    <3>1. d + 1 \in 0..MaxDepth + 1 /\ (d + 1) + n = d + (n + 1)
      BY DEF MaxDepth
    <3>2. \A e \in 0..MaxDepth + 1 : Hazardous[e][levels] = (fatal \/ e + n > MaxDepth)
      BY DEF Judgable
    <3>3. QED
      BY <3>1, <3>2
  <2> HIDE DEF h
  <2>2. HazardIn(Ungroup(w), levels, h) <=> h[levels]
    OBVIOUS
  <2>3. CASE fatal
    <3>1. HazardIn(Ungroup(w), levels, h)
      BY <2>1, <2>2, <2>3
    <3>2. DOMAIN Ungroup(w) = DOMAIN w
      BY DEF Ungroup
    <3>3. SegmentHazard(w, levels, h)
      BY <3>1, <3>2, SegmentHazardIs, Zenon DEF HazardIn
    <3>4. QED
      BY <2>3, <3>3 DEF h
  <2>4. CASE ~fatal
    <3>1. SegmentHazard(w, levels, h) <=> HazardIn(Ungroup(w), levels, h)
      BY <1>1, <2>4, PlainHazard
    <3>2. QED
      BY <2>1, <2>2, <3>1 DEF h
  <2>5. QED
    BY <2>3, <2>4
<1>3. n + 1 \in Nat /\ ("$(" \in ToSet(w) => fatal)
  OBVIOUS
<1>4. QED
  BY <1>1, <1>2, <1>3, OneJudged

\* What sh -lc runs, and what eval makes of one quoted word.
LEMMA ShellPayloadIs ==
  \A f, p : f \in CommandFlags /\ p \notin CommandFlags => ShellPayload(<<f, p>>) = p
<1> TAKE f, p
<1> HAVE f \in CommandFlags /\ p \notin CommandFlags
<1> DEFINE t == <<f, p>>
<1>1. DOMAIN t = {1, 2} /\ t[1] = f /\ t[2] = p /\ Len(t) = 2
  OBVIOUS
<1> HIDE DEF t
<1>2. {i \in DOMAIN t : t[i] \in CommandFlags} = {1}
  BY <1>1
<1>3. At(t, 2) = p
  BY <1>1 DEF At
<1>4. (CHOOSE i \in {1} : \A j \in {1} : i <= j) = 1
  OBVIOUS
<1>5. ShellPayload(t) = At(t, 1 + 1)
  BY <1>2, <1>4 DEF ShellPayload
<1>6. QED
  BY <1>3, <1>5 DEF t

LEMMA JoinedAlone ==
  ASSUME NEW S, NEW inner \in Seq(Seq(Seq(S))), inner # <<>>, inner[1] # <<>>
  PROVE  Joined(<<"payload">>, inner) = inner
<1> DEFINE args == <<"payload">>
           S2 == Seq(S)
           S3 == Seq(S2)
           b == inner[1]
<1>1. DOMAIN args = {1} /\ args[1] = "payload"
  OBVIOUS
<1>2. ToSet(args) = {"payload"}
  BY ToSetOfWords, Zenon
<1>3. SubSeq(args, 1, 1 - 1) = <<>> /\ From(args, 1 + 1) = <<>>
  BY DEF From
<1>4. (CHOOSE i \in DOMAIN args : args[i] = "payload") = 1
  BY <1>1
<1> HIDE DEF args
<1>5. b \in Seq(S2) /\ b # <<>>
  OBVIOUS
<1>6. <<b>> \o Tail(inner) = inner
  <2>1. inner \in Seq(S3)
    OBVIOUS
  <2> HIDE DEF S3
  <2>2. QED
    BY <2>1, BeheadIs
<1> HIDE DEF b, S2
<1>7. /\ Len(b) \in Nat \ {0} /\ 1 \in 1..Len(b) /\ Len(b) \in 1..Len(b)
      /\ b[1] \in S2 /\ b[Len(b)] \in S2 /\ DOMAIN b = 1..Len(b)
  BY <1>5
<1>8. \A s \in S2 : <<>> \o s = s /\ s \o <<>> = s
  BY DEF S2
<1> DEFINE n == Len(b)
<1>9. [b EXCEPT ![1] = b[1]] = b /\ [b EXCEPT ![n] = b[n]] = b
  <2>1. b = [i \in DOMAIN b |-> b[i]]
    BY <1>5
  <2> HIDE DEF n
  <2>2. QED
    BY <2>1, Zenon
<1>10. [b EXCEPT ![1] = SubSeq(args, 1, 1 - 1) \o @] = b
  <2>1. <<>> \o b[1] = b[1]
    BY <1>7, <1>8
  <2>2. QED
    BY <1>3, <1>9, <2>1
<1>11. [b EXCEPT ![Len(b)] = @ \o From(args, 1 + 1)] = b
  <2>1. b[Len(b)] \o <<>> = b[Len(b)]
    BY <1>7, <1>8
  <2>2. QED
    BY <1>3, <1>9, <2>1
<1>12. Joined(args, inner) = <<b>> \o Tail(inner)
  BY <1>2, <1>4, <1>10, <1>11 DEF Joined, b
<1>13. QED
  BY <1>6, <1>12 DEF args

\* The words after a command that are none themselves.
Quiet == {"kill-server", "ls", "-S", "-L", "scratch", "default", "/tmp/tmux-1000//default",
          "own/sock", "-Sown/sock", "-L=scratch", "-Ldefault", "-f", "^tmux", "vim", "-n", "1"}

LEMMA QuietWords ==
  /\ \A word \in Quiet : /\ word \in TmuxWords /\ Base(word) \notin CommandHeads
                         /\ word \notin {"(tmux", "kill-server)", "$(", "'", "payload"}
  /\ \A word \in {"tmux", "/bin/tmux", "pkill", "xargs", "eval", "echo", "sh", "-lc", "payload"} :
        word \in TmuxWords /\ word \notin {"(tmux", "kill-server)", "$(", "'"}
  /\ Base("tmux") = "tmux" /\ Base("/bin/tmux") = "tmux" /\ Base("pkill") = "pkill"
  /\ Base("xargs") = "xargs" /\ Base("eval") = "eval" /\ Base("echo") = "echo" /\ Base("sh") = "sh"
  /\ Base("-lc") \notin CommandHeads /\ Base("payload") \notin CommandHeads /\ Base("echo") \notin CommandHeads
<1>1. \A word \in Quiet : /\ word \in TmuxWords
                          /\ word \notin {"(tmux", "kill-server)", "$(", "'", "payload"}
  <2>1. \A word \in Quiet : word \in TmuxWords
    BY ZenonT(60) DEF Quiet, TmuxWords
  <2>2. \A word \in Quiet : word \notin {"(tmux", "kill-server)", "$(", "'", "payload"}
    BY ZenonT(60) DEF Quiet
  <2>3. QED
    BY <2>1, <2>2
<1>2. \A word \in Quiet : word \notin CommandHeads
  BY Zenon DEF Quiet, CommandHeads, Shells, Killers
<1>3. \A word \in Quiet : word \notin DOMAIN Directories
  BY Zenon DEF Quiet, Directories
<1>4. \A word \in {"tmux", "/bin/tmux", "pkill", "xargs", "eval", "echo", "sh", "-lc", "payload"} :
        word \in TmuxWords /\ word \notin {"(tmux", "kill-server)", "$(", "'"}
  BY ZenonT(60) DEF TmuxWords
<1>5. /\ Base("tmux") = "tmux" /\ Base("/bin/tmux") = "tmux" /\ Base("pkill") = "pkill"
      /\ Base("xargs") = "xargs" /\ Base("eval") = "eval" /\ Base("echo") = "echo" /\ Base("sh") = "sh"
      /\ Base("-lc") = "-lc" /\ Base("payload") = "payload"
  BY Zenon DEF Base, Directories
<1>6. "-lc" \notin CommandHeads /\ "payload" \notin CommandHeads /\ "echo" \notin CommandHeads
  BY Zenon DEF CommandHeads, Shells, Killers
<1>7. QED
  BY <1>1, <1>2, <1>3, <1>4, <1>5, <1>6, Zenon DEF Base

\* A command on its own is as fatal as its one segment.
LEMMA TextJudged ==
  ASSUME NEW seg \in Seq(TmuxWords), NEW fatal \in BOOLEAN, "$(" \in ToSet(seg) => fatal,
         \A h : SegmentHazard(seg, <<>>, h) <=> fatal
  PROVE  Judgable(One(seg), fatal, 0)
<1>1. \A d \in 0..MaxDepth : SegmentHazard(seg, <<>>, Hazardous[d + 1])
                                <=> (fatal \/ d + 0 > MaxDepth)
  <2>1. \A d \in 0..MaxDepth : ~(d + 0 > MaxDepth)
    BY DEF MaxDepth
  <2>2. QED
    BY <2>1, Zenon
<1>2. <<>> \in Commands(TmuxWords) /\ One(seg) \o <<>> = One(seg)
  BY DEF Commands, One
<1>3. "$(" \notin WordsIn(<<>>)
  <2>1. DOMAIN <<>> = {}
    OBVIOUS
  <2>2. ToSet(<<>>) = {}
    BY <2>1, Zenon DEF ToSet
  <2>3. QED
    BY <2>2, Zenon DEF WordsIn
<1>4. Judgable(One(seg) \o <<>>, fatal, 0)
  BY <1>1, <1>2, <1>3, OneJudged
<1>5. QED
  BY <1>2, <1>4

\* A command is as fatal as its first word makes it, or those after it.
LEMMA CommandJudged ==
  ASSUME NEW seg \in Seq(TmuxWords), NEW w \in Seq(TmuxWords), w = Ungroup(seg), w # <<>>,
         "$(" \notin ToSet(seg), "'" \notin ToSet(seg), "payload" \notin ToSet(seg),
         NEW fatal \in BOOLEAN,
         \A h : (HeadHazard(Base(w[1]), Tail(w), <<>>, h) \/ HazardIn(Tail(w), <<>>, h)) <=> fatal
  PROVE  Judgable(One(seg), fatal, 0)
<1>1. ASSUME NEW h PROVE SegmentHazard(seg, <<>>, h) <=> fatal
  <2>1. SegmentHazard(seg, <<>>, h) <=> HazardIn(w, <<>>, h)
    BY PlainHazard, Zenon
  <2>2. HazardIn(w, <<>>, h) <=> fatal
    BY HeadThenRest
  <2>3. QED
    BY <2>1, <2>2
<1>2. QED
  BY <1>1, TextJudged

\* So is one of tmux or pkill, by its arguments.
LEMMA QuietJudged ==
  ASSUME NEW seg \in Seq(TmuxWords), seg # <<>>, NEW command,
         seg[1] \in {"tmux", "/bin/tmux", "pkill"}, Base(seg[1]) = command,
         ToSet(Tail(seg)) \subseteq Quiet, NEW fatal \in BOOLEAN,
         \A h : HeadHazard(command, Tail(seg), <<>>, h) <=> fatal
  PROVE  Judgable(One(seg), fatal, 0)
<1> DEFINE t == Tail(seg)
           a == seg[1]
<1>1. ToSet(seg) = {a} \union ToSet(t)
  BY BeheadIs
<1> HIDE DEF t, a
<1>2. a \in {"tmux", "/bin/tmux", "pkill"} /\ ToSet(t) \subseteq Quiet
  BY DEF a, t
<1>3. \A word \in ToSet(seg) : word \notin {"(tmux", "kill-server)", "$(", "'", "payload"}
  <2>1. \A word \in {"tmux", "/bin/tmux", "pkill"} :
            word \notin {"(tmux", "kill-server)", "$(", "'", "payload"}
    BY Zenon
  <2>2. QED
    BY <1>1, <1>2, <2>1, QuietWords, Zenon
<1>4. Ungroup(seg) = seg
  BY <1>3, UngroupPlain, Zenon
<1>5. \A h : ~HazardIn(t, <<>>, h)
  BY <1>2, QuietWords, NoHeads, Zenon
<1>6. \A h : (HeadHazard(Base(a), t, <<>>, h) \/ HazardIn(t, <<>>, h)) <=> fatal
  BY <1>5 DEF t, a
<1>7. QED
  BY <1>3, <1>4, <1>6, CommandJudged DEF t, a

LEMMA TmuxJudged ==
  ASSUME NEW seg \in Seq(TmuxWords), seg # <<>>, seg[1] \in {"tmux", "/bin/tmux"},
         NEW t, t = Tail(seg), ToSet(t) \subseteq Quiet
  PROVE  /\ "kill-server" \in ToSet(t) /\ ~ScopePermitsKill(t) => Judgable(One(seg), TRUE, 0)
         /\ "kill-server" \notin ToSet(t) \/ ScopePermitsKill(t) => Judgable(One(seg), FALSE, 0)
<1>1. Base(seg[1]) = "tmux" /\ seg[1] \in {"tmux", "/bin/tmux", "pkill"}
  BY QuietWords, Zenon
<1>2. \A h : HeadHazard("tmux", t, <<>>, h) <=>
                "kill-server" \in ToSet(t) /\ ~ScopePermitsKill(t)
  BY HeadHazards, Zenon
<1>3. ASSUME "kill-server" \in ToSet(t) /\ ~ScopePermitsKill(t)
      PROVE  Judgable(One(seg), TRUE, 0)
  <2>1. TRUE \in BOOLEAN /\ \A h : HeadHazard("tmux", t, <<>>, h) <=> TRUE
    BY <1>2, <1>3
  <2>2. QED
    BY <1>1, <2>1, QuietJudged
<1>4. ASSUME "kill-server" \notin ToSet(t) \/ ScopePermitsKill(t)
      PROVE  Judgable(One(seg), FALSE, 0)
  <2>1. FALSE \in BOOLEAN /\ \A h : HeadHazard("tmux", t, <<>>, h) <=> FALSE
    BY <1>2, <1>4
  <2>2. QED
    BY <1>1, <2>1, QuietJudged
<1>5. QED
  BY <1>3, <1>4

LEMMA PkillJudged ==
  ASSUME NEW seg \in Seq(TmuxWords), seg # <<>>, seg[1] = "pkill",
         NEW t, t = Tail(seg), ToSet(t) \subseteq Quiet
  PROVE  /\ "^tmux" \in ToSet(t) => Judgable(One(seg), TRUE, 0)
         /\ ToSet(t) \intersect {"tmux", "^tmux"} = {} => Judgable(One(seg), FALSE, 0)
<1>1. Base(seg[1]) = "pkill" /\ seg[1] \in {"tmux", "/bin/tmux", "pkill"}
  BY QuietWords, Zenon
<1>2. \A h : HeadHazard("pkill", t, <<>>, h) <=> ToSet(t) \intersect {"tmux", "^tmux"} # {}
  BY HeadHazards, Zenon
<1>3. ASSUME "^tmux" \in ToSet(t) PROVE Judgable(One(seg), TRUE, 0)
  <2>1. ToSet(t) \intersect {"tmux", "^tmux"} # {}
    BY <1>3, Zenon
  <2>2. TRUE \in BOOLEAN /\ \A h : HeadHazard("pkill", t, <<>>, h) <=> TRUE
    BY <1>2, <2>1
  <2>3. QED
    BY <1>1, <2>2, QuietJudged
<1>4. ASSUME ToSet(t) \intersect {"tmux", "^tmux"} = {} PROVE Judgable(One(seg), FALSE, 0)
  <2>1. FALSE \in BOOLEAN /\ \A h : HeadHazard("pkill", t, <<>>, h) <=> FALSE
    BY <1>2, <1>4
  <2>2. QED
    BY <1>1, <2>1, QuietJudged
<1>5. QED
  BY <1>3, <1>4

\* Commands of each length that there is below.
LEMMA CommandsOf ==
  ASSUME NEW S
  PROVE  /\ \A a, b \in S : /\ <<a, b>> \in Seq(S) /\ <<a, b>> # <<>>
                            /\ <<a, b>>[1] = a /\ Tail(<<a, b>>) = <<b>>
         /\ \A a, b, c \in S : /\ <<a, b, c>> \in Seq(S) /\ <<a, b, c>> # <<>>
                               /\ <<a, b, c>>[1] = a /\ Tail(<<a, b, c>>) = <<b, c>>
         /\ \A a, b, c, d \in S : /\ <<a, b, c, d>> \in Seq(S) /\ <<a, b, c, d>> # <<>>
                                  /\ <<a, b, c, d>>[1] = a
                                  /\ Tail(<<a, b, c, d>>) = <<b, c, d>>
         /\ \A a, b, c, d, e, f \in S :
                /\ <<a, b, c, d, e, f>> \in Seq(S) /\ <<a, b, c, d, e, f>> # <<>>
                /\ <<a, b, c, d, e, f>>[1] = a
                /\ Tail(<<a, b, c, d, e, f>>) = <<b, c, d, e, f>>
<1>1. \A a, b \in S : /\ <<a, b>> \in Seq(S) /\ <<a, b>> # <<>>
                      /\ <<a, b>>[1] = a /\ Tail(<<a, b>>) = <<b>>
  OBVIOUS
<1>2. \A a, b, c \in S : /\ <<a, b, c>> \in Seq(S) /\ <<a, b, c>> # <<>>
                         /\ <<a, b, c>>[1] = a /\ Tail(<<a, b, c>>) = <<b, c>>
  OBVIOUS
<1>3. \A a, b, c, d \in S : /\ <<a, b, c, d>> \in Seq(S) /\ <<a, b, c, d>> # <<>>
                            /\ <<a, b, c, d>>[1] = a /\ Tail(<<a, b, c, d>>) = <<b, c, d>>
  OBVIOUS
<1>4. \A a, b, c, d, e, f \in S :
            /\ <<a, b, c, d, e, f>> \in Seq(S) /\ <<a, b, c, d, e, f>> # <<>>
            /\ <<a, b, c, d, e, f>>[1] = a /\ Tail(<<a, b, c, d, e, f>>) = <<b, c, d, e, f>>
  OBVIOUS
<1>5. QED
  BY <1>1, <1>2, <1>3, <1>4

LEMMA ToSetOfFive == \A a, b, c, d, e : ToSet(<<a, b, c, d, e>>) = {a, b, c, d, e}
<1> TAKE a, b, c, d, e
<1> DEFINE t == <<a, b, c, d, e>>
<1>1. /\ DOMAIN t = {1, 2, 3, 4, 5}
      /\ t[1] = a /\ t[2] = b /\ t[3] = c /\ t[4] = d /\ t[5] = e
  OBVIOUS
<1> HIDE DEF t
<1>2. ToSet(t) = {a, b, c, d, e}
  BY <1>1, ZenonT(60) DEF ToSet
<1>3. QED
  BY <1>2 DEF t

\* The same of commands of tmux.
LEMMA TmuxCommand ==
  /\ \A a, b : a \in {"tmux", "/bin/tmux"} /\ b \in Quiet =>
        /\ b = "kill-server" /\ ~ScopePermitsKill(<<b>>) => Judgable(One(<<a, b>>), TRUE, 0)
        /\ b # "kill-server" => Judgable(One(<<a, b>>), FALSE, 0)
  /\ \A a, b, c : a \in {"tmux", "/bin/tmux"} /\ b \in Quiet /\ c \in Quiet =>
        /\ "kill-server" \in {b, c} /\ ~ScopePermitsKill(<<b, c>>) =>
                Judgable(One(<<a, b, c>>), TRUE, 0)
        /\ ScopePermitsKill(<<b, c>>) => Judgable(One(<<a, b, c>>), FALSE, 0)
<1>1. \A word \in Quiet \union {"tmux", "/bin/tmux"} : word \in TmuxWords
  BY QuietWords, Zenon
<1>2. ASSUME NEW a \in {"tmux", "/bin/tmux"}, NEW b \in Quiet
      PROVE  /\ b = "kill-server" /\ ~ScopePermitsKill(<<b>>) => Judgable(One(<<a, b>>), TRUE, 0)
             /\ b # "kill-server" => Judgable(One(<<a, b>>), FALSE, 0)
  <2> DEFINE s == <<a, b>>
             t == <<b>>
  <2>1. s \in Seq(TmuxWords) /\ s # <<>> /\ s[1] = a /\ Tail(s) = t
    BY <1>1, CommandsOf
  <2>2. ToSet(t) = {b}
    BY ToSetOfWords, Zenon
  <2> HIDE DEF s, t
  <2>3. /\ "kill-server" \in ToSet(t) /\ ~ScopePermitsKill(t) => Judgable(One(s), TRUE, 0)
        /\ "kill-server" \notin ToSet(t) \/ ScopePermitsKill(t) => Judgable(One(s), FALSE, 0)
    <3>1. ToSet(t) \subseteq Quiet
      BY <2>2
    <3>2. QED
      BY <2>1, <3>1, TmuxJudged
  <2>4. QED
    BY <2>2, <2>3, Zenon DEF s, t
<1>3. ASSUME NEW a \in {"tmux", "/bin/tmux"}, NEW b \in Quiet, NEW c \in Quiet
      PROVE  /\ "kill-server" \in {b, c} /\ ~ScopePermitsKill(<<b, c>>) =>
                    Judgable(One(<<a, b, c>>), TRUE, 0)
             /\ ScopePermitsKill(<<b, c>>) => Judgable(One(<<a, b, c>>), FALSE, 0)
  <2> DEFINE s == <<a, b, c>>
             t == <<b, c>>
  <2>1. s \in Seq(TmuxWords) /\ s # <<>> /\ s[1] = a /\ Tail(s) = t
    BY <1>1, CommandsOf, SMTT(60)
  <2>2. ToSet(t) = {b, c}
    BY ToSetOfWords, Zenon
  <2> HIDE DEF s, t
  <2>3. /\ "kill-server" \in ToSet(t) /\ ~ScopePermitsKill(t) => Judgable(One(s), TRUE, 0)
        /\ "kill-server" \notin ToSet(t) \/ ScopePermitsKill(t) => Judgable(One(s), FALSE, 0)
    <3>1. ToSet(t) \subseteq Quiet
      BY <2>2
    <3>2. QED
      BY <2>1, <3>1, TmuxJudged
  <2>4. QED
    BY <2>2, <2>3, Zenon DEF s, t
<1>4. QED
  BY <1>2, <1>3

LEMMA LongTmuxCommand ==
  ASSUME NEW a \in {"tmux", "/bin/tmux"}, NEW b, NEW c, NEW d, NEW e, NEW f,
         {b, c, d, e, f} \subseteq Quiet
  PROVE  /\ "kill-server" \in {b, c, d, e, f} /\ ~ScopePermitsKill(<<b, c, d, e, f>>) =>
                Judgable(One(<<a, b, c, d, e, f>>), TRUE, 0)
         /\ ScopePermitsKill(<<b, c, d, e, f>>) => Judgable(One(<<a, b, c, d, e, f>>), FALSE, 0)
<1>1. \A word \in Quiet \union {"tmux", "/bin/tmux"} : word \in TmuxWords
  BY QuietWords, Zenon
<1> DEFINE s == <<a, b, c, d, e, f>>
           t == <<b, c, d, e, f>>
<1>2. s \in Seq(TmuxWords) /\ s # <<>> /\ s[1] = a /\ Tail(s) = t
  <2>1. /\ a \in TmuxWords /\ b \in TmuxWords /\ c \in TmuxWords /\ d \in TmuxWords
        /\ e \in TmuxWords /\ f \in TmuxWords
    BY <1>1
  <2>2. QED
    BY <2>1, CommandsOf
<1>3. ToSet(t) = {b, c, d, e, f}
  BY ToSetOfFive
<1> HIDE DEF s, t
<1>4. /\ "kill-server" \in ToSet(t) /\ ~ScopePermitsKill(t) => Judgable(One(s), TRUE, 0)
      /\ "kill-server" \notin ToSet(t) \/ ScopePermitsKill(t) => Judgable(One(s), FALSE, 0)
  <2>1. ToSet(t) \subseteq Quiet
    BY <1>3
  <2>2. QED
    BY <1>2, <2>1, TmuxJudged
<1>5. QED
  BY <1>3, <1>4, Zenon DEF s, t

LEMMA TmuxCores ==
  /\ Judgable(One(<<"tmux", "kill-server">>), TRUE, 0)
  /\ Judgable(One(<<"/bin/tmux", "-Ldefault", "kill-server">>), TRUE, 0)
  /\ Judgable(One(<<"tmux", "-L", "scratch", "-S", "/tmp/tmux-1000//default", "kill-server">>),
              TRUE, 0)
  /\ Judgable(One(<<"tmux", "kill-server", "-L", "scratch", "-L", "default">>), TRUE, 0)
  /\ Judgable(One(<<"tmux", "ls">>), FALSE, 0)
  /\ Judgable(One(<<"tmux", "-S", "own/sock", "-L", "default", "kill-server">>), FALSE, 0)
  /\ Judgable(One(<<"tmux", "kill-server", "-L=scratch">>), FALSE, 0)
<1>1. /\ "tmux" \in {"tmux", "/bin/tmux"} /\ "/bin/tmux" \in {"tmux", "/bin/tmux"}
      /\ "kill-server" # "ls"
  BY Zenon
<1>2. /\ "kill-server" \in Quiet /\ "-Ldefault" \in Quiet /\ "-L" \in Quiet /\ "scratch" \in Quiet
      /\ "-S" \in Quiet /\ "/tmp/tmux-1000//default" \in Quiet /\ "default" \in Quiet
      /\ "ls" \in Quiet /\ "own/sock" \in Quiet /\ "-L=scratch" \in Quiet
  BY Zenon DEF Quiet
<1>3. Judgable(One(<<"tmux", "kill-server">>), TRUE, 0)
  BY <1>1, <1>2, Scopes, TmuxCommand, Zenon
<1>4. Judgable(One(<<"/bin/tmux", "-Ldefault", "kill-server">>), TRUE, 0)
  BY <1>1, <1>2, Scopes, TmuxCommand, Zenon
<1>5. Judgable(One(<<"tmux", "-L", "scratch", "-S", "/tmp/tmux-1000//default", "kill-server">>),
               TRUE, 0)
  BY <1>1, <1>2, Scopes, LongTmuxCommand, ZenonT(60)
<1>6. Judgable(One(<<"tmux", "kill-server", "-L", "scratch", "-L", "default">>), TRUE, 0)
  BY <1>1, <1>2, Scopes, LongTmuxCommand, Zenon
<1>7. Judgable(One(<<"tmux", "ls">>), FALSE, 0)
  BY <1>1, <1>2, TmuxCommand, Zenon
<1>8. Judgable(One(<<"tmux", "-S", "own/sock", "-L", "default", "kill-server">>), FALSE, 0)
  BY <1>1, <1>2, Scopes, LongTmuxCommand, ZenonT(60)
<1>9. Judgable(One(<<"tmux", "kill-server", "-L=scratch">>), FALSE, 0)
  BY <1>1, <1>2, Scopes, TmuxCommand, Zenon
<1>10. QED
  BY <1>3, <1>4, <1>5, <1>6, <1>7, <1>8, <1>9

LEMMA TwoWords ==
  \A a, b : {a, b} \subseteq TmuxWords =>
    /\ <<a, b>> \in Seq(TmuxWords) /\ <<a, b>> # <<>>
    /\ <<a, b>>[1] = a /\ Tail(<<a, b>>) = <<b>>
BY CommandsOf

LEMMA ThreeWords ==
  \A a, b, c : {a, b, c} \subseteq TmuxWords =>
    /\ <<a, b, c>> \in Seq(TmuxWords) /\ <<a, b, c>> # <<>>
    /\ <<a, b, c>>[1] = a /\ Tail(<<a, b, c>>) = <<b, c>>
BY CommandsOf

LEMMA FourWords ==
  \A a, b, c, d : {a, b, c, d} \subseteq TmuxWords =>
    /\ <<a, b, c, d>> \in Seq(TmuxWords) /\ <<a, b, c, d>> # <<>>
    /\ <<a, b, c, d>>[1] = a /\ Tail(<<a, b, c, d>>) = <<b, c, d>>
BY CommandsOf

LEMMA ShellNests ==
  ASSUME NEW levels, NEW fatal \in BOOLEAN, NEW n \in Nat, Judgable(levels, fatal, n)
  PROVE  Judgable(One(<<"sh", "-lc", "payload">>) \o levels, fatal, n + 1)
<1> DEFINE w == <<"sh", "-lc", "payload">>
           t == <<"-lc", "payload">>
<1>1. w \in Seq(TmuxWords) /\ w # <<>> /\ w[1] = "sh" /\ Tail(w) = t
  <2>1. {"sh", "-lc", "payload"} \subseteq TmuxWords
    BY QuietWords, Zenon
  <2>2. QED
    BY <2>1, ThreeWords, Zenon
<1>2. ToSet(w) = {"sh", "-lc", "payload"} /\ ToSet(t) = {"-lc", "payload"}
  <2>1. ToSet(w) = {"sh", "-lc", "payload"}
    BY ToSetOfThree, Zenon
  <2>2. ToSet(t) = {"-lc", "payload"}
    BY ToSetOfWords, Zenon
  <2>3. QED
    BY <2>1, <2>2
<1>3. ShellPayload(t) = "payload"
  <2>1. "-lc" \in CommandFlags /\ "payload" \notin CommandFlags
    BY Zenon DEF CommandFlags
  <2>2. QED
    BY <2>1, ShellPayloadIs, Zenon
<1> HIDE DEF w, t
<1>4. "$(" \notin ToSet(w) /\ "'" \notin ToSet(w) /\ Ungroup(w) = w
  <2>1. \A word \in ToSet(w) : word \notin {"(tmux", "kill-server)", "$(", "'"}
    BY <1>2, QuietWords, Zenon
  <2>2. QED
    BY <1>1, <2>1, UngroupPlain, Zenon
<1>5. ASSUME NEW h PROVE HazardIn(Ungroup(w), levels, h) <=> h[levels]
  <2>1. ~HazardIn(t, levels, h)
    <3>1. \A word \in ToSet(t) : Base(word) \notin CommandHeads
      BY <1>2, QuietWords, Zenon
    <3>2. QED
      BY <3>1, NoHeads
  <2>2. HeadHazard("sh", t, levels, h) <=> h[levels]
    <3>1. Script("payload", levels) = levels
      BY Zenon DEF Script
    <3>2. "payload" # None
      BY Zenon DEF None
    <3>3. HeadHazard("sh", t, levels, h) <=>
                ShellPayload(t) # None /\ h[Script(ShellPayload(t), levels)]
      BY HeadHazards, Zenon
    <3>4. QED
      BY <1>3, <3>1, <3>2, <3>3, Zenon
  <2>3. HazardIn(w, levels, h) <=>
            HeadHazard(Base(w[1]), Tail(w), levels, h) \/ HazardIn(Tail(w), levels, h)
    BY <1>1, HeadThenRest
  <2>4. Base("sh") = "sh"
    BY QuietWords
  <2>5. QED
    BY <1>1, <1>4, <2>1, <2>2, <2>3, <2>4, Zenon
<1>6. Judgable(One(w) \o levels, fatal, n + 1)
  BY <1>1, <1>4, <1>5, NestingJudged
<1>7. QED
  BY <1>6 DEF w

LEMMA EvalNests ==
  ASSUME NEW levels, NEW fatal \in BOOLEAN, NEW n \in Nat, Judgable(levels, fatal, n)
  PROVE  Judgable(One(<<"eval", "payload">>) \o levels, fatal, n + 1)
<1> DEFINE w == <<"eval", "payload">>
           t == <<"payload">>
<1>1. w \in Seq(TmuxWords) /\ w # <<>> /\ w[1] = "eval" /\ Tail(w) = t
  <2>1. {"eval", "payload"} \subseteq TmuxWords
    BY QuietWords, Zenon
  <2>2. QED
    BY <2>1, TwoWords, Zenon
<1>2. ToSet(w) = {"eval", "payload"} /\ ToSet(t) = {"payload"}
  BY ToSetOfWords, Zenon
<1>3. Joined(t, levels) = levels /\ t # <<>>
  <2>1. levels \in Seq(Seq(Seq(TmuxWords))) /\ levels # <<>> /\ levels[1] # <<>>
    BY DEF Judgable, Commands
  <2>2. QED
    BY <2>1, JoinedAlone
<1> HIDE DEF w, t
<1>4. "$(" \notin ToSet(w) /\ "'" \notin ToSet(w) /\ Ungroup(w) = w
  <2>1. \A word \in ToSet(w) : word \notin {"(tmux", "kill-server)", "$(", "'"}
    BY <1>2, QuietWords, Zenon
  <2>2. QED
    BY <1>1, <2>1, UngroupPlain, Zenon
<1>5. ASSUME NEW h PROVE HazardIn(Ungroup(w), levels, h) <=> h[levels]
  <2>1. ~HazardIn(t, levels, h)
    <3>1. \A word \in ToSet(t) : Base(word) \notin CommandHeads
      BY <1>2, QuietWords, Zenon
    <3>2. QED
      BY <3>1, NoHeads
  <2>2. HeadHazard("eval", t, levels, h) <=> h[levels]
    <3>1. HeadHazard("eval", t, levels, h) <=> t # <<>> /\ h[Joined(t, levels)]
      BY HeadHazards, Zenon
    <3>2. QED
      BY <1>3, <3>1, Zenon
  <2>3. HazardIn(w, levels, h) <=>
            HeadHazard(Base(w[1]), Tail(w), levels, h) \/ HazardIn(Tail(w), levels, h)
    BY <1>1, HeadThenRest
  <2>4. Base("eval") = "eval"
    BY QuietWords
  <2>5. QED
    BY <1>1, <1>4, <2>1, <2>2, <2>3, <2>4, Zenon
<1>6. Judgable(One(w) \o levels, fatal, n + 1)
  BY <1>1, <1>4, <1>5, NestingJudged
<1>7. QED
  BY <1>6 DEF w

\* The commands of pkill.
LEMMA PkillCores ==
  /\ Judgable(One(<<"pkill", "-f", "^tmux">>), TRUE, 0)
  /\ Judgable(One(<<"pkill", "vim">>), FALSE, 0)
<1>1. /\ {"pkill", "-f", "^tmux"} \subseteq TmuxWords /\ {"pkill", "vim"} \subseteq TmuxWords
      /\ {"-f", "^tmux"} \subseteq Quiet /\ {"vim"} \subseteq Quiet
  BY Zenon DEF Quiet, TmuxWords
<1>2. Judgable(One(<<"pkill", "-f", "^tmux">>), TRUE, 0)
  <2> DEFINE s == <<"pkill", "-f", "^tmux">>
             t == <<"-f", "^tmux">>
  <2>1. s \in Seq(TmuxWords) /\ s # <<>> /\ s[1] = "pkill" /\ Tail(s) = t
    BY <1>1, ThreeWords, Zenon
  <2>2. ToSet(t) = {"-f", "^tmux"}
    BY ToSetOfWords, Zenon
  <2> HIDE DEF s, t
  <2>3. ToSet(t) \subseteq Quiet /\ "^tmux" \in ToSet(t)
    BY <1>1, <2>2, Zenon
  <2>4. Judgable(One(s), TRUE, 0)
    BY <2>1, <2>3, PkillJudged
  <2>5. QED
    BY <2>4 DEF s
<1>3. Judgable(One(<<"pkill", "vim">>), FALSE, 0)
  <2> DEFINE s == <<"pkill", "vim">>
             t == <<"vim">>
  <2>1. s \in Seq(TmuxWords) /\ s # <<>> /\ s[1] = "pkill" /\ Tail(s) = t
    BY <1>1, TwoWords, Zenon
  <2>2. ToSet(t) = {"vim"}
    BY ToSetOfWords, Zenon
  <2> HIDE DEF s, t
  <2>3. ToSet(t) \subseteq Quiet /\ ToSet(t) \intersect {"tmux", "^tmux"} = {}
    BY <1>1, <2>2, Zenon
  <2>4. Judgable(One(s), FALSE, 0)
    BY <2>1, <2>3, PkillJudged
  <2>5. QED
    BY <2>4 DEF s
<1>4. QED
  BY <1>2, <1>3

\* A command in parentheses.
LEMMA GroupedCore == Judgable(One(<<"(tmux", "kill-server)">>), TRUE, 0)
<1> DEFINE s == <<"(tmux", "kill-server)">>
           w == <<"tmux", "kill-server">>
           t == <<"kill-server">>
<1>1. /\ {"(tmux", "kill-server)"} \subseteq TmuxWords /\ {"tmux", "kill-server"} \subseteq TmuxWords
  BY Zenon DEF TmuxWords
<1>2. s \in Seq(TmuxWords)
  BY <1>1, TwoWords, Zenon
<1>3. w \in Seq(TmuxWords) /\ w # <<>> /\ w[1] = "tmux" /\ Tail(w) = t
  BY <1>1, TwoWords, Zenon
<1>4. w = Ungroup(s)
  <2>1. \A a, b : Ungroup(<<a, b>>) = <<Ungrouped(a), Ungrouped(b)>>
    BY DEF Ungroup
  <2>2. Ungrouped("(tmux") = "tmux" /\ Ungrouped("kill-server)") = "kill-server"
    BY Zenon DEF Ungrouped
  <2>3. QED
    BY <2>1, <2>2, Zenon
<1>5. "$(" \notin ToSet(s) /\ "'" \notin ToSet(s) /\ "payload" \notin ToSet(s)
  <2>1. ToSet(s) = {"(tmux", "kill-server)"}
    BY ToSetOfWords, Zenon
  <2>2. QED
    BY <2>1, Zenon
<1>6. \A h : HeadHazard("tmux", t, <<>>, h)
  <2>1. ToSet(t) = {"kill-server"}
    BY ToSetOfWords, Zenon
  <2>2. ~ScopePermitsKill(t)
    BY Scopes
  <2> HIDE DEF t
  <2>3. QED
    BY <2>1, <2>2, HeadHazards, Zenon
<1> HIDE DEF s, w, t
<1>7. \A h : (HeadHazard(Base(w[1]), Tail(w), <<>>, h) \/ HazardIn(Tail(w), <<>>, h)) <=> TRUE
  <2>1. Base("tmux") = "tmux"
    BY QuietWords
  <2>2. QED
    BY <1>3, <1>6, <2>1, Zenon
<1>8. TRUE \in BOOLEAN
  OBVIOUS
<1>9. Judgable(One(s), TRUE, 0)
  BY <1>2, <1>3, <1>4, <1>5, <1>7, <1>8, CommandJudged
<1>10. QED
  BY <1>9 DEF s

\* The words that xargs starts tmux with.
LEMMA XargsTarget ==
  ASSUME NEW args \in Seq(TmuxWords), args # <<>>, args[1] \notin Flags
  PROVE  AfterFlags(args, Flags, XargsFlagsWithArg) = args
<1> DEFINE f == Skips(args, Flags, XargsFlagsWithArg)
<1>1. /\ AfterFlags(args, Flags, XargsFlagsWithArg) = f[1]
      /\ \A i \in 1..Len(args) + 2 : At(args, i) \notin Flags => f[i] = From(args, i)
  BY Kinds, AfterFlagsScans
<1>2. 1 \in 1..Len(args) + 2 /\ 1 \in 1..Len(args)
  OBVIOUS
<1>3. At(args, 1) = args[1]
  BY <1>2 DEF At
<1>4. f[1] = From(args, 1)
  BY <1>1, <1>2, <1>3
<1>5. QED
  BY <1>1, <1>4, FromFirst

LEMMA XargsFlagTarget ==
  ASSUME NEW p \in Seq(TmuxWords), NEW y \in Seq(TmuxWords), Len(p) = 2, y # <<>>,
         p[1] \in XargsFlagsWithArg, p[1] \in Flags, p[1] # "--", y[1] \notin Flags
  PROVE  AfterFlags(p \o y, Flags, XargsFlagsWithArg) = y
<1> DEFINE u == p \o y
           f == Skips(u, Flags, XargsFlagsWithArg)
           a == p[1]
           c == y[1]
<1>1. a \in XargsFlagsWithArg /\ a \in Flags /\ a # "--" /\ c \notin Flags /\ Len(y) \in Nat
  OBVIOUS
<1>2. /\ u \in Seq(TmuxWords) /\ Len(u) = 2 + Len(y) /\ u[1] = a /\ At(u, 1) = a
      /\ At(u, 3) = c /\ From(u, 3) = y
  BY AfterTwo
<1> HIDE DEF u, a, c
<1>3. /\ AfterFlags(u, Flags, XargsFlagsWithArg) = f[1]
      /\ \A i \in 1..Len(u) + 2 :
            /\ At(u, i) \notin Flags => f[i] = From(u, i)
            /\ At(u, i) \in Flags /\ u[i] # "--" =>
                    f[i] = f[IF u[i] \in XargsFlagsWithArg THEN i + 2 ELSE i + 1]
  <2>1. u \in Seq(TmuxWords) /\ None \notin Flags
    BY <1>2, Kinds
  <2>2. QED
    BY <2>1, AfterFlagsScans
<1> HIDE DEF f
<1>4. 1 \in 1..Len(u) + 2 /\ 3 \in 1..Len(u) + 2 /\ 1 + 2 = 3
  BY <1>1, <1>2
<1>5. f[1] = f[1 + 2]
  BY <1>1, <1>2, <1>3, <1>4
<1>6. f[3] = From(u, 3)
  BY <1>1, <1>2, <1>3, <1>4
<1>7. QED
  BY <1>2, <1>3, <1>4, <1>5, <1>6 DEF u

LEMMA XargsCores ==
  /\ Judgable(One(<<"xargs", "-n", "1", "tmux">>), TRUE, 0)
  /\ Judgable(One(<<"xargs", "tmux", "-Sown/sock", "kill-server">>), FALSE, 0)
<1>1. Judgable(One(<<"xargs", "-n", "1", "tmux">>), TRUE, 0)
  <2> DEFINE s == <<"xargs", "-n", "1", "tmux">>
             t == <<"-n", "1", "tmux">>
             p == <<"-n", "1">>
             y == <<"tmux">>
  <2>1. {"xargs", "-n", "1", "tmux"} \subseteq TmuxWords /\ {"-n", "1"} \subseteq TmuxWords
        /\ {"tmux"} \subseteq TmuxWords
    BY Zenon DEF TmuxWords
  <2>2. s \in Seq(TmuxWords) /\ s # <<>> /\ s[1] = "xargs" /\ Tail(s) = t
    <3>1. {"xargs", "-n", "1", "tmux"} \subseteq TmuxWords
      BY <2>1
    <3>2. QED
      BY <3>1, FourWords
  <2>3. p \in Seq(TmuxWords) /\ p[1] = "-n"
    BY <2>1, TwoWords, Zenon
  <2>4. y \in Seq(TmuxWords) /\ y # <<>> /\ y[1] = "tmux" /\ Tail(y) = <<>>
    <3>1. \A a \in TmuxWords : /\ <<a>> \in Seq(TmuxWords) /\ <<a>> # <<>>
                               /\ <<a>>[1] = a /\ Tail(<<a>>) = <<>>
      OBVIOUS
    <3>2. "tmux" \in TmuxWords
      BY <2>1
    <3>3. QED
      BY <3>1, <3>2, Zenon
  <2>5. t = p \o y /\ Len(p) = 2
    <3>1. \A a, b, c : <<a, b, c>> = <<a, b>> \o <<c>> /\ Len(<<a, b>>) = 2
      OBVIOUS
    <3>2. QED
      BY <3>1, Zenon
  <2>6. ToSet(s) = {"xargs", "-n", "1", "tmux"}
    <3>1. \A a, b, c, d : ToSet(<<a, b, c, d>>) = {a, b, c, d}
      <4> TAKE a, b, c, d
      <4> DEFINE q == <<a, b, c, d>>
      <4>1. DOMAIN q = {1, 2, 3, 4} /\ q[1] = a /\ q[2] = b /\ q[3] = c /\ q[4] = d
        OBVIOUS
      <4> HIDE DEF q
      <4>2. ToSet(q) = {a, b, c, d}
        BY <4>1, Zenon DEF ToSet
      <4>3. QED
        BY <4>2 DEF q
    <3>2. QED
      BY <3>1, ZenonT(60)
  <2> HIDE DEF s, t, p, y
  <2>7. \A word \in ToSet(s) : word \notin {"(tmux", "kill-server)", "$(", "'", "payload"}
    BY <2>6, Zenon
  <2>8. s = Ungroup(s)
    BY <2>2, <2>7, UngroupPlain, Zenon
  <2>9. AfterFlags(t, Flags, XargsFlagsWithArg) = y
    <3>1. "-n" \in XargsFlagsWithArg /\ "-n" \in Flags /\ "-n" # "--" /\ "tmux" \notin Flags
      BY Zenon DEF XargsFlagsWithArg, Flags
    <3>2. p[1] \in XargsFlagsWithArg /\ p[1] \in Flags /\ p[1] # "--" /\ y[1] \notin Flags
      BY <2>3, <2>4, <3>1, Zenon
    <3>3. QED
      BY <2>3, <2>4, <2>5, <3>2, XargsFlagTarget
  <2>10. \A h : HeadHazard("xargs", t, <<>>, h)
    <3>1. ~ScopePermitsKill(<<>>)
      BY Scopes
    <3>2. Base("tmux") = "tmux"
      BY QuietWords
    <3>3. QED
      BY <2>4, <2>9, <3>1, <3>2, HeadHazards, Zenon
  <2>11. \A h : (HeadHazard(Base(s[1]), Tail(s), <<>>, h) \/ HazardIn(Tail(s), <<>>, h)) <=> TRUE
    <3>1. Base("xargs") = "xargs"
      BY QuietWords
    <3>2. QED
      BY <2>2, <2>10, <3>1, Zenon
  <2>12. TRUE \in BOOLEAN
    OBVIOUS
  <2>13. Judgable(One(s), TRUE, 0)
    BY <2>2, <2>7, <2>8, <2>11, <2>12, CommandJudged
  <2>14. QED
    BY <2>13 DEF s
<1>2. Judgable(One(<<"xargs", "tmux", "-Sown/sock", "kill-server">>), FALSE, 0)
  <2> DEFINE s == <<"xargs", "tmux", "-Sown/sock", "kill-server">>
             t == <<"tmux", "-Sown/sock", "kill-server">>
             r == <<"-Sown/sock", "kill-server">>
  <2>1. {"xargs", "tmux", "-Sown/sock", "kill-server"} \subseteq TmuxWords
        /\ {"tmux", "-Sown/sock", "kill-server"} \subseteq TmuxWords
        /\ {"-Sown/sock", "kill-server"} \subseteq Quiet
    BY Zenon DEF TmuxWords, Quiet
  <2>2. s \in Seq(TmuxWords) /\ s # <<>> /\ s[1] = "xargs" /\ Tail(s) = t
    <3>1. {"xargs", "tmux", "-Sown/sock", "kill-server"} \subseteq TmuxWords
      BY <2>1
    <3>2. QED
      BY <3>1, FourWords
  <2>3. t \in Seq(TmuxWords) /\ t # <<>> /\ t[1] = "tmux" /\ Tail(t) = r
    BY <2>1, ThreeWords, Zenon
  <2>4. ToSet(r) = {"-Sown/sock", "kill-server"}
    BY ToSetOfWords, Zenon
  <2>5. ToSet(t) = {"tmux", "-Sown/sock", "kill-server"}
    BY ToSetOfThree, Zenon
  <2>6. ScopePermitsKill(r)
    BY Scopes
  <2> HIDE DEF s, t, r
  <2>7. ToSet(s) = {"xargs"} \union ToSet(t)
    BY <2>2, BeheadIs
  <2>8. \A word \in ToSet(s) : word \notin {"(tmux", "kill-server)", "$(", "'", "payload"}
    BY <2>5, <2>7, Zenon
  <2>9. s = Ungroup(s)
    BY <2>2, <2>8, UngroupPlain, Zenon
  <2>10. AfterFlags(t, Flags, XargsFlagsWithArg) = t
    <3>1. "tmux" \notin Flags
      BY Zenon DEF Flags
    <3>2. QED
      BY <2>3, <3>1, XargsTarget, Zenon
  <2>11. \A h : ~HeadHazard("xargs", t, <<>>, h)
    BY <2>3, <2>6, <2>10, HeadHazards, Zenon
  <2>12. ASSUME NEW h PROVE ~HazardIn(t, <<>>, h)
    <3>1. HazardIn(t, <<>>, h) <=>
              HeadHazard(Base(t[1]), Tail(t), <<>>, h) \/ HazardIn(Tail(t), <<>>, h)
      BY <2>3, HeadThenRest
    <3>2. Base("tmux") = "tmux"
      BY QuietWords
    <3>3. ~HeadHazard("tmux", r, <<>>, h)
      BY <2>6, HeadHazards, Zenon
    <3>4. ~HazardIn(r, <<>>, h)
      <4>1. \A word \in ToSet(r) : Base(word) \notin CommandHeads
        BY <2>1, <2>4, QuietWords, Zenon
      <4>2. QED
        BY <4>1, NoHeads
    <3>5. QED
      BY <2>3, <3>1, <3>2, <3>3, <3>4, Zenon
  <2>13. \A h : (HeadHazard(Base(s[1]), Tail(s), <<>>, h) \/ HazardIn(Tail(s), <<>>, h)) <=> FALSE
    <3>1. Base("xargs") = "xargs"
      BY QuietWords
    <3>2. QED
      BY <2>2, <2>11, <2>12, <3>1, Zenon
  <2>14. FALSE \in BOOLEAN
    OBVIOUS
  <2>15. Judgable(One(s), FALSE, 0)
    BY <2>2, <2>8, <2>9, <2>13, <2>14, CommandJudged
  <2>16. QED
    BY <2>15 DEF s
<1>3. QED
  BY <1>1, <1>2

LEMMA TextCores ==
  /\ Judgable(One(<<"tmux", "$(", "kill-server">>), TRUE, 0)
  /\ Judgable(One(<<"tmux", "'", "kill-server">>), TRUE, 0)
  /\ Judgable(One(<<"echo", "'">>), FALSE, 0)
<1>1. /\ {"tmux", "$(", "kill-server"} \subseteq TmuxWords
      /\ {"tmux", "'", "kill-server"} \subseteq TmuxWords
      /\ {"echo", "'"} \subseteq TmuxWords
  BY Zenon DEF TmuxWords
<1>2. Judgable(One(<<"tmux", "$(", "kill-server">>), TRUE, 0)
  <2> DEFINE s == <<"tmux", "$(", "kill-server">>
  <2>1. s \in Seq(TmuxWords)
    BY <1>1, ThreeWords, Zenon
  <2>2. ToSet(s) = {"tmux", "$(", "kill-server"}
    BY ToSetOfThree, Zenon
  <2> HIDE DEF s
  <2>3. \A h : SegmentHazard(s, <<>>, h)
    BY <2>2, SegmentHazardIs, Zenon DEF Text
  <2>4. TRUE \in BOOLEAN /\ (\A h : SegmentHazard(s, <<>>, h) <=> TRUE)
    BY <2>3
  <2>5. Judgable(One(s), TRUE, 0)
    BY <2>1, <2>4, TextJudged
  <2>6. QED
    BY <2>5 DEF s
<1>3. Judgable(One(<<"tmux", "'", "kill-server">>), TRUE, 0)
  <2> DEFINE s == <<"tmux", "'", "kill-server">>
  <2>1. s \in Seq(TmuxWords)
    BY <1>1, ThreeWords, Zenon
  <2>2. ToSet(s) = {"tmux", "'", "kill-server"}
    BY ToSetOfThree, Zenon
  <2> HIDE DEF s
  <2>3. \A h : SegmentHazard(s, <<>>, h)
    BY <2>2, SegmentHazardIs, Zenon DEF Text
  <2>4. TRUE \in BOOLEAN /\ (\A h : SegmentHazard(s, <<>>, h) <=> TRUE)
    BY <2>3
  <2>5. Judgable(One(s), TRUE, 0)
    BY <2>1, <2>4, TextJudged
  <2>6. QED
    BY <2>5 DEF s
<1>4. Judgable(One(<<"echo", "'">>), FALSE, 0)
  <2> DEFINE s == <<"echo", "'">>
  <2>1. s \in Seq(TmuxWords)
    BY <1>1, TwoWords, Zenon
  <2>2. ToSet(s) = {"echo", "'"}
    BY ToSetOfWords, Zenon
  <2> HIDE DEF s
  <2>3. \A h : ~SegmentHazard(s, <<>>, h)
    <3>1. Text(s, <<>>) = {"echo", "'"}
      BY <2>2, Zenon DEF Text
    <3>2. QED
      BY <2>2, <3>1, SegmentHazardIs, Zenon
  <2>4. FALSE \in BOOLEAN /\ (\A h : SegmentHazard(s, <<>>, h) <=> FALSE) /\ "$(" \notin ToSet(s)
    <3>1. "$(" \notin ToSet(s)
      BY <2>2, Zenon
    <3>2. QED
      BY <2>3, <3>1
  <2>5. Judgable(One(s), FALSE, 0)
    BY <2>1, <2>4, TextJudged
  <2>6. QED
    BY <2>5 DEF s
<1>5. QED
  BY <1>2, <1>3, <1>4

\* What eval makes of a quoted word and another.
LEMMA JoinedWith ==
  \A a, b : a # "payload" /\ b # "payload" =>
                Joined(<<"payload", b>>, One(<<a>>)) = One(<<a, b>>)
<1> TAKE a, b
<1> HAVE a # "payload" /\ b # "payload"
<1> DEFINE args == <<"payload", b>>
           inner == One(<<a>>)
           head == <<a>>
           level == <<head>>
<1>1. DOMAIN args = {1, 2} /\ args[1] = "payload" /\ args[2] = b /\ Len(args) = 2
  OBVIOUS
<1>2. ToSet(args) = {"payload", b}
  BY ToSetOfWords, Zenon
<1>3. SubSeq(args, 1, 1 - 1) = <<>> /\ From(args, 1 + 1) = <<b>>
  <2>1. From(args, 2) = Tail(args) /\ Tail(args) = <<b>>
    <3>1. args \in Seq({"payload", b}) /\ args # <<>> /\ Tail(args) = <<b>>
      OBVIOUS
    <3> HIDE DEF args
    <3>2. QED
      BY <3>1, FromFirst
  <2>2. QED
    BY <2>1
<1> HIDE DEF args
<1>4. (CHOOSE i \in DOMAIN args : args[i] = "payload") = 1
  BY <1>1
<1>5. inner[1] = level /\ Tail(inner) = <<>>
  BY DEF One
<1>6. DOMAIN level = {1} /\ level[1] = head /\ Len(level) = 1
  OBVIOUS
<1>7. [level EXCEPT ![1] = SubSeq(args, 1, 1 - 1) \o @] = level
  <2>1. <<>> \o head = head
    OBVIOUS
  <2>2. [level EXCEPT ![1] = head] = level
    BY <1>6
  <2>3. QED
    BY <1>3, <1>6, <2>1, <2>2
<1>8. [level EXCEPT ![Len(level)] = @ \o From(args, 1 + 1)] = <<<<a, b>>>>
  <2>1. head \o <<b>> = <<a, b>>
    BY JoinTwo
  <2>2. [level EXCEPT ![1] = <<a, b>>] = <<<<a, b>>>>
    BY <1>6
  <2>3. QED
    BY <1>3, <1>6, <2>1, <2>2
<1>9. <<<<<<a, b>>>>>> \o <<>> = One(<<a, b>>)
  BY DEF One
<1> HIDE DEF inner, level
<1>10. Joined(args, inner) = <<<<<<a, b>>>>>> \o <<>>
  BY <1>2, <1>4, <1>5, <1>7, <1>8 DEF Joined
<1>11. QED
  BY <1>9, <1>10 DEF args, inner

LEMMA OneIs ==
  ASSUME NEW s \in Seq(TmuxWords)
  PROVE  One(s) \in Commands(TmuxWords) /\ WordsIn(One(s)) = ToSet(s)
<1>1. One(s) \in Commands(TmuxWords)
  BY DEF One, Commands
<1>2. ToSet(<<<<s>>>>) = {<<s>>} /\ ToSet(<<s>>) = {s}
  BY ToSetOfWords, Zenon
<1>3. WordsIn(One(s)) = UNION {ToSet(seg) : seg \in UNION {ToSet(level) : level \in {<<s>>}}}
  BY <1>2, Zenon DEF One, WordsIn
<1>4. QED
  BY <1>1, <1>2, <1>3

\* eval puts a command together.
LEMMA EvalCore == Judgable(One(<<"eval", "payload", "kill-server">>) \o One(<<"tmux">>), TRUE, 0)
<1> DEFINE s == <<"eval", "payload", "kill-server">>
           t == <<"payload", "kill-server">>
           tmux == <<"tmux">>
           kill == <<"tmux", "kill-server">>
<1>1. s \in Seq(TmuxWords) /\ s # <<>> /\ s[1] = "eval" /\ Tail(s) = t
  <2>1. {"eval", "payload", "kill-server"} \subseteq TmuxWords
    BY Zenon DEF TmuxWords
  <2>2. QED
    BY <2>1, ThreeWords, Zenon
<1>2. ToSet(s) = {"eval", "payload", "kill-server"}
  BY ToSetOfThree, Zenon
<1>3. tmux \in Seq(TmuxWords) /\ ToSet(tmux) = {"tmux"}
  <2>1. ToSet(tmux) = {"tmux"}
    BY ToSetOfWords, Zenon
  <2>2. \A a \in TmuxWords : <<a>> \in Seq(TmuxWords)
    OBVIOUS
  <2>3. "tmux" \in TmuxWords
    BY QuietWords, Zenon
  <2>4. QED
    BY <2>1, <2>2, <2>3, Zenon
<1>4. Joined(t, One(tmux)) = One(kill)
  <2>1. "tmux" # "payload" /\ "kill-server" # "payload"
    BY Zenon
  <2>2. QED
    BY <2>1, JoinedWith, Zenon
<1>5. t # <<>>
  <2>1. \A a, b : <<a, b>> # <<>>
    OBVIOUS
  <2>2. QED
    BY <2>1, Zenon
<1>6. Judgable(One(kill), TRUE, 0)
  BY TmuxCores
<1> HIDE DEF s, t, tmux, kill
<1>7. One(tmux) \in Commands(TmuxWords) /\ WordsIn(One(tmux)) = {"tmux"}
  BY <1>3, OneIs
<1>8. "$(" \notin WordsIn(One(tmux)) /\ "$(" \notin ToSet(s) /\ "'" \notin ToSet(s)
  BY <1>2, <1>7, Zenon
<1>9. Ungroup(s) = s
  <2>1. "(tmux" \notin ToSet(s) /\ "kill-server)" \notin ToSet(s)
    BY <1>2, Zenon
  <2>2. QED
    BY <1>1, <2>1, UngroupPlain
<1>10. ASSUME NEW d \in 0..MaxDepth
       PROVE  SegmentHazard(s, One(tmux), Hazardous[d + 1]) <=> (TRUE \/ d + 0 > MaxDepth)
  <2> DEFINE h == Hazardous[d + 1]
  <2>1. h[One(kill)] = TRUE
    <3>1. d + 1 \in 0..MaxDepth + 1
      BY DEF MaxDepth
    <3>2. \A e \in 0..MaxDepth + 1 : Hazardous[e][One(kill)] = (TRUE \/ e + 0 > MaxDepth)
      BY <1>6 DEF Judgable
    <3>3. QED
      BY <3>1, <3>2
  <2> HIDE DEF h
  <2>2. HeadHazard("eval", t, One(tmux), h)
    BY <1>4, <1>5, <2>1, HeadHazards, Zenon
  <2>3. Base("eval") = "eval"
    BY QuietWords
  <2>4. HazardIn(s, One(tmux), h) <=>
            HeadHazard(Base(s[1]), Tail(s), One(tmux), h) \/ HazardIn(Tail(s), One(tmux), h)
    BY <1>1, HeadThenRest
  <2>5. SegmentHazard(s, One(tmux), h) <=> HazardIn(Ungroup(s), One(tmux), h)
    BY <1>8, PlainHazard
  <2>6. QED
    BY <1>1, <1>9, <2>2, <2>3, <2>4, <2>5, Zenon DEF h
<1>11. TRUE \in BOOLEAN /\ 0 \in Nat
  OBVIOUS
<1>12. Judgable(One(s) \o One(tmux), TRUE, 0)
  BY <1>1, <1>7, <1>8, <1>10, <1>11, OneJudged
<1>13. QED
  BY <1>12 DEF s, tmux

\* echo only shows what is quoted.
LEMMA EchoCore == Judgable(One(<<"echo", "payload">>) \o One(<<"tmux", "kill-server">>), FALSE, 0)
<1> DEFINE s == <<"echo", "payload">>
           kill == <<"tmux", "kill-server">>
<1>1. {"echo", "payload"} \subseteq TmuxWords /\ {"tmux", "kill-server"} \subseteq TmuxWords
  BY Zenon DEF TmuxWords
<1>2. s \in Seq(TmuxWords)
  BY <1>1, TwoWords, Zenon
<1>3. kill \in Seq(TmuxWords)
  BY <1>1, TwoWords, Zenon
<1>4. ToSet(s) = {"echo", "payload"}
  BY ToSetOfWords, Zenon
<1>5. ToSet(kill) = {"tmux", "kill-server"}
  BY ToSetOfWords, Zenon
<1> HIDE DEF s, kill
<1>6. One(kill) \in Commands(TmuxWords) /\ "$(" \notin WordsIn(One(kill))
  <2>1. One(kill) \in Commands(TmuxWords) /\ WordsIn(One(kill)) = ToSet(kill)
    BY <1>3, OneIs
  <2>2. "$(" \notin ToSet(kill)
    BY <1>5, Zenon
  <2>3. QED
    BY <2>1, <2>2
<1>7. "$(" \notin ToSet(s) /\ "'" \notin ToSet(s) /\ Ungroup(s) = s
  <2>1. \A word \in ToSet(s) : word \notin {"(tmux", "kill-server)", "$(", "'"}
    BY <1>4, Zenon
  <2>2. QED
    BY <1>2, <2>1, UngroupPlain, Zenon
<1>8. \A h : ~SegmentHazard(s, One(kill), h)
  <2>1. \A word \in ToSet(s) : Base(word) \notin CommandHeads
    BY <1>4, QuietWords, Zenon
  <2>2. QED
    BY <1>6, <1>7, <2>1, NoHeads, PlainHazard, Zenon
<1>9. \A d \in 0..MaxDepth : SegmentHazard(s, One(kill), Hazardous[d + 1])
                                 <=> (FALSE \/ d + 0 > MaxDepth)
  <2>1. \A d \in 0..MaxDepth : ~(d + 0 > MaxDepth)
    BY DEF MaxDepth
  <2>2. QED
    BY <1>8, <2>1, Zenon
<1>10. FALSE \in BOOLEAN /\ 0 \in Nat
  OBVIOUS
<1>11. Judgable(One(s) \o One(kill), FALSE, 0)
  BY <1>2, <1>6, <1>7, <1>9, <1>10, OneJudged
<1>12. QED
  BY <1>11 DEF s, kill

LEMMA CoreJudged ==
  /\ \A core \in FleetKills : Judgable(core, TRUE, 0)
  /\ \A core \in Harmless : Judgable(core, FALSE, 0)
<1>1. \A core \in FleetKills : Judgable(core, TRUE, 0)
  BY TmuxCores, GroupedCore, PkillCores, XargsCores, TextCores, EvalCore, Zenon DEF FleetKills
<1>2. \A core \in Harmless : Judgable(core, FALSE, 0)
  BY TmuxCores, PkillCores, XargsCores, TextCores, EchoCore, Zenon DEF Harmless
<1>3. QED
  BY <1>1, <1>2

\* Each wrapping keeps what is judged, one nesting deeper or not.
LEMMA WrappingJudged ==
  ASSUME NEW levels, NEW fatal \in BOOLEAN, NEW n \in Nat, Judgable(levels, fatal, n),
         NEW w \in Wrappings
  PROVE  Judgable(WrappedIn(w, levels), fatal, n + (IF w \in Nestings THEN 1 ELSE 0))
<1>1. w # <<"sh", "-lc", "payload">> /\ w # <<"eval", "payload">> => w \notin Nestings
  BY Zenon DEF Nestings
<1>2. /\ \A a, b : a \in InertWords /\ b \in InertWords => <<a, b>> \in Seq(InertWords)
      /\ \A a, b, c : a \in InertWords /\ b \in InertWords /\ c \in InertWords => <<a, b, c>> \in Seq(InertWords)
  OBVIOUS
<1>3. "env" \in InertWords /\ "-i" \in InertWords /\ "unknown" \in InertWords /\ "--flag" \in InertWords
      /\ "x" \in InertWords /\ "cd" \in InertWords /\ "dir" \in InertWords
  BY Zenon DEF InertWords
<1>4. /\ \A a, b, c, d : a # c => <<a, b>> # <<c, d>>
      /\ \A a, b, c, d, e : <<a, b>> # <<c, d, e>>
      /\ \A a, b, c, d, e, f : a # d => <<a, b, c>> # <<d, e, f>>
  OBVIOUS
<1>5. "env" # "eval" /\ "unknown" # "sh" /\ "cd" # "eval" /\ "env" # "cd"
  BY Zenon
<1>6. CASE w \in Displacing
  <2>1. w \in Seq(InertWords)
    BY <1>2, <1>3, <1>6, Zenon DEF Displacing
  <2>2. w \notin Nestings /\ w \notin Sequels
    BY <1>4, <1>5, <1>6, Zenon DEF Displacing, Nestings, Sequels
  <2>3. WrappedIn(w, levels) = <<<<w \o levels[1][1]>> \o Tail(levels[1])>> \o Tail(levels)
    BY <1>6, <2>2, Zenon DEF WrappedIn
  <2>4. Judgable(WrappedIn(w, levels), fatal, n)
    BY <2>1, <2>3, DisplacedJudged
  <2>5. n + 0 = n
    OBVIOUS
  <2>6. QED
    BY <2>2, <2>4, <2>5
<1>7. CASE w \in Sequels
  <2>1. w \in Seq(InertWords)
    BY <1>2, <1>3, <1>7, Zenon DEF Sequels
  <2>2. w \notin Nestings /\ w \notin Displacing
    BY <1>4, <1>5, <1>7, Zenon DEF Displacing, Nestings, Sequels
  <2>3. WrappedIn(w, levels) = <<Append(levels[1], w)>> \o Tail(levels)
    BY <1>7, <2>2, Zenon DEF WrappedIn
  <2>4. Judgable(WrappedIn(w, levels), fatal, n)
    BY <2>1, <2>3, SequelJudged
  <2>5. n + 0 = n
    OBVIOUS
  <2>6. QED
    BY <2>2, <2>4, <2>5
<1>8. CASE w \in Nestings
  <2>1. w \notin Displacing /\ w \notin Sequels
    BY <1>4, <1>5, <1>8, Zenon DEF Displacing, Nestings, Sequels
  <2>2. WrappedIn(w, levels) = One(w) \o levels
    BY <1>8, <2>1, Zenon DEF WrappedIn
  <2>3. Judgable(One(w) \o levels, fatal, n + 1)
    <3>1. Judgable(One(<<"sh", "-lc", "payload">>) \o levels, fatal, n + 1)
      BY ShellNests
    <3>2. Judgable(One(<<"eval", "payload">>) \o levels, fatal, n + 1)
      BY EvalNests
    <3>3. QED
      BY <1>8, <3>1, <3>2, Zenon DEF Nestings
  <2>4. QED
    BY <1>8, <2>2, <2>3
<1>9. QED
  BY <1>6, <1>7, <1>8 DEF Wrappings

\* So any number of them does.
LEMMA AlwaysJudged ==
  ASSUME NEW core, NEW fatal \in BOOLEAN, Judgable(core, fatal, 0), NEW s \in Seq(Wrappings)
  PROVE  Judgable(Wrapped(core, s), fatal, Nested(s)) /\ Nested(s) \in Nat
<1> DEFINE S == Wrappings
           Good == {t \in Seq(S) : Judgable(Wrapped(core, t), fatal, Nested(t))}
<1> HIDE DEF S
<1>1. <<>> \in Good
  <2>1. \A w \in S : Wrapped(core, <<>>) = core /\ Nested(<<>>) = 0
    <3>1. <<>> \in Seq(S)
      OBVIOUS
    <3>2. QED
      BY <3>1, WrappedAppend, NestedAppend
  <2>2. S # {}
    BY DEF S, Wrappings, Sequels
  <2>3. QED
    BY <2>1, <2>2
<1>2. ASSUME NEW t \in Seq(S), NEW w \in S, t \in Good PROVE Append(t, w) \in Good
  <2>1. Judgable(Wrapped(core, t), fatal, Nested(t))
    BY <1>2
  <2>2. Nested(t) \in Nat /\ Nested(Append(t, w)) = Nested(t) + (IF w \in Nestings THEN 1 ELSE 0)
    BY NestedAppend
  <2>3. Wrapped(core, Append(t, w)) = WrappedIn(w, Wrapped(core, t))
    BY WrappedAppend
  <2>4. w \in Wrappings
    BY DEF S
  <2>5. Judgable(WrappedIn(w, Wrapped(core, t)), fatal,
                 Nested(t) + (IF w \in Nestings THEN 1 ELSE 0))
    BY <2>1, <2>2, <2>4, WrappingJudged
  <2>6. Append(t, w) \in Seq(S)
    OBVIOUS
  <2>7. QED
    BY <2>2, <2>3, <2>5, <2>6
<1> HIDE DEF Good
<1>3. Seq(S) \subseteq Good
  BY <1>1, <1>2, SequenceInduction
<1>4. s \in Good
  BY <1>3 DEF S
<1>5. Nested(s) \in Nat
  <2>1. \A w \in S : Nested(s) \in Nat
    <3>1. s \in Seq(S)
      BY DEF S
    <3>2. QED
      BY <3>1, NestedAppend
  <2>2. S # {}
    BY DEF S, Wrappings, Sequels
  <2>3. QED
    BY <2>1, <2>2
<1>6. QED
  BY <1>4, <1>5 DEF Good

\* No harmless command is one that kills the fleet: each is what it is judged.
LEMMA AlwaysDenied == ASSUME NEW s \in Seq(Wrappings) PROVE FleetKillDeniedUnder(s)
<1>1. ASSUME NEW core \in FleetKills \union Harmless, NEW fatal \in BOOLEAN,
             Judgable(core, fatal, 0)
      PROVE  CommandHazard(Wrapped(core, s), 0) = (fatal \/ Nested(s) > MaxDepth)
  <2>1. Judgable(Wrapped(core, s), fatal, Nested(s)) /\ Nested(s) \in Nat
    BY <1>1, AlwaysJudged
  <2>2. 0 \in 0..MaxDepth + 1 /\ 0 + Nested(s) = Nested(s)
    BY <2>1 DEF MaxDepth
  <2>3. Hazardous[0][Wrapped(core, s)] = (fatal \/ 0 + Nested(s) > MaxDepth)
    BY <2>1, <2>2 DEF Judgable
  <2>4. QED
    BY <2>2, <2>3 DEF CommandHazard
<1>2. ASSUME NEW core \in FleetKills
      PROVE  CommandHazard(Wrapped(core, s), 0) = (core \in FleetKills \/ Nested(s) > MaxDepth)
  <2>1. Judgable(core, TRUE, 0) /\ TRUE \in BOOLEAN
    BY CoreJudged
  <2>2. CommandHazard(Wrapped(core, s), 0) = (TRUE \/ Nested(s) > MaxDepth)
    BY <1>1, <2>1
  <2>3. QED
    BY <2>2
<1>3. ASSUME NEW core \in Harmless
      PROVE  CommandHazard(Wrapped(core, s), 0) = (core \in FleetKills \/ Nested(s) > MaxDepth)
  <2>1. Judgable(core, FALSE, 0) /\ FALSE \in BOOLEAN
    BY CoreJudged
  <2>2. core \notin FleetKills
    <3>1. ASSUME core \in FleetKills PROVE FALSE
      <4>1. Judgable(core, TRUE, 0)
        BY <3>1, CoreJudged
      <4>2. 0 \in 0..MaxDepth + 1
        BY DEF MaxDepth
      <4>3. Hazardous[0][core] = (TRUE \/ 0 + 0 > MaxDepth)
        BY <4>1, <4>2 DEF Judgable
      <4>4. Hazardous[0][core] = (FALSE \/ 0 + 0 > MaxDepth)
        BY <2>1, <4>2 DEF Judgable
      <4>5. QED
        BY <4>3, <4>4 DEF MaxDepth
    <3>2. QED
      BY <3>1
  <2>3. CommandHazard(Wrapped(core, s), 0) = (FALSE \/ Nested(s) > MaxDepth)
    BY <1>1, <2>1
  <2>4. QED
    BY <2>2, <2>3
<1>4. QED
  BY <1>2, <1>3 DEF FleetKillDeniedUnder

-----------------------------------------------------------------------------
(***************************************************************************)
(* The lines of config.toml.                                               *)
(***************************************************************************)
\* Numbers up to a bound have a greatest one, if there are any.
LEMMA MaxIsGreatest ==
  ASSUME NEW n \in Nat, NEW P \in SUBSET (1..n)
  PROVE  /\ P # {} => Max(P) \in P
         /\ \A m \in P : (\A y \in P : m >= y) => Max(P) = m
<1> DEFINE Good == {k \in Nat : \A Q \in SUBSET (1..k) : Q # {} =>
                                    \E m \in Q : \A y \in Q : m >= y}
<1>1. 0 \in Good
  <2>1. 1..0 = {}
    OBVIOUS
  <2>2. QED
    BY <2>1
<1>2. ASSUME NEW k \in Nat, k \in Good PROVE k + 1 \in Good
  <2>1. ASSUME NEW Q \in SUBSET (1..k + 1), Q # {}
        PROVE  \E m \in Q : \A y \in Q : m >= y
    <3>1. CASE k + 1 \in Q
      BY <3>1
    <3>2. CASE k + 1 \notin Q
      <4>1. Q \in SUBSET (1..k)
        BY <3>2
      <4>2. QED
        BY <1>2, <2>1, <4>1
    <3>3. QED
      BY <3>1, <3>2
  <2>2. QED
    BY <2>1
<1> HIDE DEF Good
<1>3. n \in Good
  BY <1>1, <1>2, Induction
<1>4. P # {} => \E m \in P : \A y \in P : m >= y
  BY <1>3 DEF Good
<1>5. P # {} => Max(P) \in P /\ \A y \in P : Max(P) >= y
  BY <1>4 DEF Max
<1>6. ASSUME NEW m \in P, \A y \in P : m >= y PROVE Max(P) = m
  <2>1. Max(P) \in P /\ Max(P) >= m /\ m >= Max(P)
    BY <1>5, <1>6
  <2>2. Max(P) \in Int /\ m \in Int
    <3>1. \A x \in 1..n : x \in Int
      OBVIOUS
    <3>2. QED
      BY <2>1, <3>1, Zenon
  <2>3. QED
    BY <2>1, <2>2
<1>7. QED
  BY <1>5, <1>6

\* The header the last line stands under.
Cur(t) == Heading(t, Len(t))

\* A line more stands under the same header as the last one, or is a header.
LEMMA HeadingAppend ==
  ASSUME NEW S, NEW t \in Seq(S), NEW e \in S
  PROVE  /\ \A i \in 1..Len(t) : Heading(Append(t, e), i) = Heading(t, i)
         /\ Heading(Append(t, e), Len(t) + 1) = IF e \in Headers THEN e ELSE Cur(t)
         /\ Cur(Append(t, e)) = IF e \in Headers THEN e ELSE Cur(t)
<1> DEFINE u == Append(t, e)
           n == Len(t)
           of(s, i) == {j \in 1..i : s[j] \in Headers}
<1>1. /\ n \in Nat /\ Len(u) = n + 1 /\ u[n + 1] = e
      /\ \A j \in 1..n : u[j] = t[j]
  BY AppendProperties
<1> HIDE DEF u, n
<1>2. ASSUME NEW i \in 0..n
      PROVE  /\ of(u, i) = of(t, i) /\ i \in Nat /\ of(t, i) \in SUBSET (1..i)
             /\ of(t, i) # {} => u[Max(of(t, i))] = t[Max(of(t, i))]
  <2>1. /\ of(u, i) = of(t, i) /\ i \in Nat /\ of(t, i) \in SUBSET (1..i)
        /\ 1..i \subseteq 1..n
    BY <1>1
  <2> HIDE DEF of
  <2>2. of(t, i) # {} => Max(of(t, i)) \in of(t, i)
    BY <2>1, MaxIsGreatest
  <2>3. QED
    BY <1>1, <2>1, <2>2
<1>3. ASSUME NEW i \in 0..n PROVE Heading(u, i) = Heading(t, i)
  <2> HIDE DEF of
  <2>1. Heading(u, i) = IF of(u, i) = {} THEN None ELSE u[Max(of(u, i))]
    BY DEF Heading, of
  <2>2. Heading(t, i) = IF of(t, i) = {} THEN None ELSE t[Max(of(t, i))]
    BY DEF Heading, of
  <2>3. QED
    BY <1>2, <2>1, <2>2
<1>4. Heading(u, n + 1) = IF e \in Headers THEN e ELSE Heading(t, n)
  <2>1. Heading(u, n + 1) = IF of(u, n + 1) = {} THEN None ELSE u[Max(of(u, n + 1))]
    BY DEF Heading
  <2>2. CASE e \in Headers
    <3>1. /\ of(u, n + 1) \in SUBSET (1..n + 1) /\ n + 1 \in Nat /\ n + 1 \in of(u, n + 1)
          /\ \A y \in of(u, n + 1) : n + 1 >= y
      BY <1>1, <2>2
    <3> HIDE DEF of
    <3>2. Max(of(u, n + 1)) = n + 1
      BY <3>1, MaxIsGreatest
    <3>3. QED
      BY <1>1, <2>1, <2>2, <3>1, <3>2
  <2>3. CASE e \notin Headers
    <3>1. of(u, n + 1) = of(u, n)
      BY <1>1, <2>3
    <3>2. Heading(u, n) = IF of(u, n) = {} THEN None ELSE u[Max(of(u, n))]
      BY DEF Heading
    <3> HIDE DEF of
    <3>3. Heading(u, n) = Heading(t, n)
      BY <1>1, <1>3
    <3>4. QED
      BY <2>1, <2>3, <3>1, <3>2, <3>3
  <2>4. QED
    BY <2>2, <2>3
<1>5. QED
  BY <1>1, <1>3, <1>4 DEF u, n, Cur

\* No line, no header.
LEMMA NoHeading == Cur(<<>>) = None
BY DEF Cur, Heading

\* The elements picked from the first k, if f says what is picked from fewer.
Picks(f, text, positions, k) ==
    IF k = 0 THEN <<>>
    ELSE IF k \in positions THEN Append(f[k - 1], text[k]) ELSE f[k - 1]

\* The function Picked chooses.
Picking(text, positions) ==
    CHOOSE f : f = [k \in 0..Len(text) |-> Picks(f, text, positions, k)]

\* The function Picked recurs by exists, so it may be unfolded.
LEMMA PickedIs ==
  ASSUME NEW S, NEW s \in Seq(S), NEW P
  PROVE  /\ Picked(s, P) = Picking(s, P)[Len(s)]
         /\ \A k \in 0..Len(s) : Picking(s, P)[k] = Picks(Picking(s, P), s, P, k)
<1> DEFINE does(f, k) == Picks(f, s, P, k)
           Good == {m \in Nat : \E f : f = [k \in 0..m |-> does(f, k)]}
           chosen == CHOOSE f : f = [k \in 0..Len(s) |-> does(f, k)]
<1>1. 0 \in Good
  <2> DEFINE f == [k \in 0..0 |-> <<>>]
  <2>1. f = [k \in 0..0 |-> does(f, k)]
    BY DEF Picks
  <2>2. QED
    BY <2>1
<1>2. ASSUME NEW m \in Nat, m \in Good PROVE m + 1 \in Good
  <2>1. PICK f : f = [k \in 0..m |-> does(f, k)]
    BY <1>2
  <2> DEFINE g == [k \in 0..m + 1 |-> IF k = m + 1 THEN does(f, k) ELSE f[k]]
  <2>2. g = [k \in 0..m + 1 |-> g[k]] /\ \A k \in 0..m : g[k] = f[k]
    OBVIOUS
  <2>3. ASSUME NEW k \in 0..m + 1 PROVE g[k] = does(f, k)
    <3> HIDE DEF does
    <3>1. CASE k = m + 1
      BY <3>1
    <3>2. CASE k # m + 1
      <4>1. k \in 0..m
        BY <3>2
      <4>2. QED
        BY <2>1, <4>1
    <3>3. QED
      BY <3>1, <3>2
  <2> HIDE DEF g
  <2>4. ASSUME NEW k \in 0..m + 1 PROVE does(f, k) = does(g, k)
    <3>1. k = 0 \/ k - 1 \in 0..m
      OBVIOUS
    <3>2. QED
      BY <2>2, <3>1 DEF Picks
  <2> HIDE DEF does
  <2>5. g = [k \in 0..m + 1 |-> does(g, k)]
    BY <2>2, <2>3, <2>4
  <2>6. QED
    BY <2>5
<1> HIDE DEF Good, does
<1>3. Len(s) \in Nat /\ Len(s) \in Good
  BY <1>1, <1>2, Induction
<1>4. chosen = [k \in 0..Len(s) |-> does(chosen, k)]
  BY <1>3 DEF Good
<1>5. Picking(s, P) = chosen
  BY DEF Picking, does
<1>6. Picked(s, P) = Picking(s, P)[Len(s)]
  BY DEF Picked, Picking, Picks
<1> HIDE DEF chosen
<1>7. \A k \in 0..Len(s) : chosen[k] = does(chosen, k)
  BY <1>4
<1>8. QED
  BY <1>5, <1>6, <1>7 DEF does

\* An element more is picked or not, after what is picked of the others.
LEMMA PickedAppend ==
  ASSUME NEW S, NEW s \in Seq(S), NEW e \in S, NEW P, NEW Q,
         \A k \in 1..Len(s) : k \in P <=> k \in Q
  PROVE  Picked(Append(s, e), Q) =
            IF Len(s) + 1 \in Q THEN Append(Picked(s, P), e) ELSE Picked(s, P)
<1> DEFINE n == Len(s)
           t == Append(s, e)
           f == Picking(s, P)
           g == Picking(t, Q)
           Good == {k \in Nat : k <= n => f[k] = g[k]}
<1>1. n \in Nat /\ t \in Seq(S) /\ Len(t) = n + 1 /\ t[n + 1] = e
      /\ \A i \in 1..n : t[i] = s[i]
  BY AppendProperties
<1> HIDE DEF t
<1>2. /\ Picked(s, P) = f[n]
      /\ \A k \in 0..n : f[k] = Picks(f, s, P, k)
  BY PickedIs
<1>3. /\ Picked(t, Q) = g[n + 1]
      /\ \A k \in 0..n + 1 : g[k] = Picks(g, t, Q, k)
  <2>1. t \in Seq(S)
    BY <1>1
  <2>2. QED
    BY <1>1, <2>1, PickedIs
<1>0. \A k \in 1..n : k \in P <=> k \in Q
  OBVIOUS
<1> HIDE DEF n, f, g
<1>4. 0 \in Good
  <2>1. 0 \in 0..n /\ 0 \in 0..n + 1
    BY <1>1
  <2>2. f[0] = Picks(f, s, P, 0) /\ g[0] = Picks(g, t, Q, 0)
    BY <1>2, <1>3, <2>1, Zenon
  <2>3. f[0] = g[0]
    BY <2>2, Zenon DEF Picks
  <2>4. QED
    BY <2>3
<1>5. ASSUME NEW k \in Nat, k \in Good PROVE k + 1 \in Good
  <2> SUFFICES ASSUME k + 1 <= n PROVE f[k + 1] = g[k + 1]
    OBVIOUS
  <2>1. k + 1 \in 0..n /\ k + 1 \in 0..n + 1 /\ k + 1 \in 1..n /\ k + 1 # 0 /\ k + 1 - 1 = k
        /\ k <= n
    BY <1>1
  <2>2. /\ f[k + 1] = IF k + 1 \in P THEN Append(f[k], s[k + 1]) ELSE f[k]
        /\ g[k + 1] = IF k + 1 \in Q THEN Append(g[k], t[k + 1]) ELSE g[k]
    BY <1>2, <1>3, <2>1 DEF Picks
  <2>3. QED
    BY <1>0, <1>1, <1>5, <2>1, <2>2
<1> HIDE DEF Good
<1>6. f[n] = g[n]
  <2>1. n \in Good /\ n <= n
    BY <1>1, <1>4, <1>5, Induction
  <2>2. QED
    BY <2>1 DEF Good
<1>7. g[n + 1] = IF n + 1 \in Q THEN Append(g[n], e) ELSE g[n]
  <2>1. n + 1 \in 0..n + 1 /\ n + 1 # 0 /\ n + 1 - 1 = n
    BY <1>1
  <2>2. QED
    BY <1>1, <1>3, <2>1 DEF Picks
<1>8. QED
  BY <1>2, <1>3, <1>6, <1>7 DEF t, n

LEMMA PickedEmpty == \A P : Picked(<<>>, P) = <<>>
<1>1. ASSUME NEW P PROVE Picked(<<>>, P) = <<>>
  <2>1. ASSUME NEW e \in Seq({}), Len(e) = 0 PROVE Picked(e, P) = <<>>
    <3>1. 0 \in 0..Len(e) /\ Len(e) = 0
      BY <2>1
    <3>2. Picked(e, P) = Picking(e, P)[0] /\ Picking(e, P)[0] = Picks(Picking(e, P), e, P, 0)
      BY <3>1, PickedIs
    <3>3. QED
      BY <3>2, Zenon DEF Picks
  <2>2. <<>> \in Seq({}) /\ Len(<<>>) = 0
    OBVIOUS
  <2>3. QED
    BY <2>1, <2>2, Zenon
<1>2. QED
  BY <1>1

\* What is picked of a text is a text.
LEMMA PickedType ==
  ASSUME NEW S, NEW s \in Seq(S), NEW P
  PROVE  Picked(s, P) \in Seq(S)
<1> DEFINE Good == {t \in Seq(S) : Picked(t, P) \in Seq(S)}
<1>1. <<>> \in Good
  <2>1. Picked(<<>>, P) = <<>> /\ <<>> \in Seq(S)
    BY PickedEmpty
  <2>2. QED
    BY <2>1, Zenon
<1>2. ASSUME NEW t \in Seq(S), NEW e \in S, t \in Good PROVE Append(t, e) \in Good
  <2>1. /\ Append(t, e) \in Seq(S)
        /\ Picked(t, P) \in Seq(S) /\ Append(Picked(t, P), e) \in Seq(S)
    BY <1>2, AppendProperties
  <2>2. Picked(Append(t, e), P) =
            IF Len(t) + 1 \in P THEN Append(Picked(t, P), e) ELSE Picked(t, P)
    BY PickedAppend
  <2>3. QED
    BY <2>1, <2>2
<1> HIDE DEF Good
<1>3. s \in Good
  BY <1>1, <1>2, SequenceInduction
<1>4. QED
  BY <1>3 DEF Good

\* The lines that stand under none of some headers.
Without(lines, H) == Picked(lines, {i \in DOMAIN lines : Heading(lines, i) \notin H})

LEMMA WithoutAppend ==
  ASSUME NEW S, NEW t \in Seq(S), NEW e \in S, NEW H
  PROVE  /\ Without(t, H) \in Seq(S)
         /\ Without(Append(t, e), H) =
                IF Cur(Append(t, e)) \in H THEN Without(t, H) ELSE Append(Without(t, H), e)
<1> DEFINE n == Len(t)
           u == Append(t, e)
           P == {i \in DOMAIN t : Heading(t, i) \notin H}
           Q == {i \in DOMAIN u : Heading(u, i) \notin H}
<1>1. n \in Nat /\ DOMAIN t = 1..n /\ DOMAIN u = 1..n + 1 /\ Len(u) = n + 1
  BY AppendProperties
<1>2. \A i \in 1..n : Heading(u, i) = Heading(t, i)
  BY HeadingAppend
<1>3. Cur(u) = Heading(u, n + 1)
  BY <1>1 DEF Cur
<1> HIDE DEF u
<1>4. \A i \in 1..n : i \in P <=> i \in Q
  BY <1>1, <1>2
<1>5. n + 1 \in Q <=> Cur(u) \notin H
  BY <1>1, <1>3
<1> HIDE DEF P, Q
<1>6. Picked(u, Q) = IF n + 1 \in Q THEN Append(Picked(t, P), e) ELSE Picked(t, P)
  BY <1>4, PickedAppend DEF u
<1>7. Without(u, H) = Picked(u, Q) /\ Without(t, H) = Picked(t, P)
  BY DEF Without, P, Q
<1>8. Without(t, H) \in Seq(S)
  BY <1>7, PickedType
<1>9. QED
  BY <1>5, <1>6, <1>7, <1>8 DEF u

\* A line more says something where it stands, unless it is a header or silent.
LEMMA SaysAppend ==
  ASSUME NEW S, NEW t \in Seq(S), NEW e \in S, NEW h
  PROVE  Says(Append(t, e), h) =
            IF e \notin Headers \union Silent /\ Cur(t) = h
            THEN Append(Says(t, h), e) ELSE Says(t, h)
<1> DEFINE n == Len(t)
           u == Append(t, e)
           X == Headers \union Silent
           P == {i \in DOMAIN t : Heading(t, i) = h /\ t[i] \notin X}
           Q == {i \in DOMAIN u : Heading(u, i) = h /\ u[i] \notin X}
<1>1. /\ n \in Nat /\ DOMAIN t = 1..n /\ DOMAIN u = 1..n + 1
      /\ u[n + 1] = e /\ \A i \in 1..n : u[i] = t[i]
  BY AppendProperties
<1>2. /\ \A i \in 1..n : Heading(u, i) = Heading(t, i)
      /\ Heading(u, n + 1) = IF e \in Headers THEN e ELSE Cur(t)
  BY HeadingAppend
<1>3. e \in Headers => e \in X
  OBVIOUS
<1>4. Says(u, h) = Picked(u, Q) /\ Says(t, h) = Picked(t, P)
  BY DEF Says
<1> HIDE DEF u, X
<1>5. \A i \in 1..n : i \in P <=> i \in Q
  BY <1>1, <1>2
<1>6. n + 1 \in Q <=> e \notin X /\ Cur(t) = h
  BY <1>1, <1>2, <1>3
<1> HIDE DEF P, Q
<1>7. Picked(u, Q) = IF n + 1 \in Q THEN Append(Picked(t, P), e) ELSE Picked(t, P)
  BY <1>5, PickedAppend DEF u
<1>8. QED
  BY <1>4, <1>6, <1>7 DEF u, X

\* The line sets a field.
Sets(line, name) == line \in DOMAIN FieldOf /\ FieldOf[line].name = name

\* A field has the value it is set to last.
LEMMA ValueAppend ==
  ASSUME NEW S, NEW t \in Seq(S), NEW e \in S, NEW key, NEW name
  PROVE  Value(Append(t, e), key, name) =
            IF Cur(Append(t, e)) = HeaderOf(key) /\ Sets(e, name)
            THEN FieldOf[e].value ELSE Value(t, key, name)
<1> DEFINE n == Len(t)
           u == Append(t, e)
           head == HeaderOf(key)
           P == {i \in DOMAIN t : Heading(t, i) = head /\ Sets(t[i], name)}
           Q == {i \in DOMAIN u : Heading(u, i) = head /\ Sets(u[i], name)}
<1>1. /\ n \in Nat /\ DOMAIN t = 1..n /\ DOMAIN u = 1..n + 1 /\ Len(u) = n + 1
      /\ u[n + 1] = e /\ \A i \in 1..n : u[i] = t[i]
  BY AppendProperties
<1>2. \A i \in 1..n : Heading(u, i) = Heading(t, i)
  BY HeadingAppend
<1>3. Heading(u, n + 1) = Cur(u)
  BY <1>1 DEF Cur
<1>4. /\ Value(u, key, name) = IF Q = {} THEN None ELSE FieldOf[u[Max(Q)]].value
      /\ Value(t, key, name) = IF P = {} THEN None ELSE FieldOf[t[Max(P)]].value
  BY DEF Value, Sets
<1> HIDE DEF u, head
<1>5. P \in SUBSET (1..n) /\ Q \in SUBSET (1..n + 1) /\ n + 1 \in Nat
  BY <1>1
<1>6. ASSUME Cur(u) = head, Sets(e, name) PROVE Value(u, key, name) = FieldOf[e].value
  <2>1. n + 1 \in Q /\ Q # {} /\ \A y \in Q : n + 1 >= y
    BY <1>1, <1>3, <1>6
  <2> HIDE DEF Q
  <2>2. Max(Q) = n + 1
    BY <1>5, <2>1, MaxIsGreatest
  <2>3. QED
    BY <1>1, <1>4, <2>1, <2>2
<1>7. ASSUME ~(Cur(u) = head /\ Sets(e, name)) PROVE Value(u, key, name) = Value(t, key, name)
  <2>1. P = Q
    BY <1>1, <1>2, <1>3, <1>7
  <2> HIDE DEF P, Q
  <2>2. P # {} => Max(P) \in 1..n
    <3>1. P # {} => Max(P) \in P
      BY <1>1, <1>5, MaxIsGreatest
    <3>2. QED
      BY <1>5, <3>1, Zenon
  <2>3. P # {} => u[Max(P)] = t[Max(P)]
    BY <1>1, <2>2
  <2>4. Value(u, key, name) = Value(t, key, name)
    BY <1>4, <2>1, <2>3
  <2>5. QED
    BY <2>4
<1>8. Value(u, key, name) =
            IF Cur(u) = head /\ Sets(e, name) THEN FieldOf[e].value ELSE Value(t, key, name)
  BY <1>6, <1>7
<1>9. QED
  BY <1>8 DEF u, head

\* Only blanks at the end are dropped.
LEMMA TrailingEmpty == WithoutTrailing(<<>>) = <<>>
<1>1. \A i \in DOMAIN <<>> : FALSE
  OBVIOUS
<1>2. {i \in DOMAIN <<>> : <<>>[i] # ""} = {}
  BY <1>1, Zenon
<1>3. QED
  BY <1>2, Zenon DEF WithoutTrailing

LEMMA TrailingAppend ==
  ASSUME NEW S, NEW t \in Seq(S), NEW e \in S
  PROVE  /\ WithoutTrailing(t) \in Seq(S)
         /\ WithoutTrailing(Append(t, e)) = IF e = "" THEN WithoutTrailing(t) ELSE Append(t, e)
<1> DEFINE n == Len(t)
           u == Append(t, e)
           blank == ""
           P == {i \in DOMAIN t : t[i] # blank}
           Q == {i \in DOMAIN u : u[i] # blank}
<1>1. /\ n \in Nat /\ DOMAIN t = 1..n /\ DOMAIN u = 1..n + 1 /\ Len(u) = n + 1 /\ u \in Seq(S)
      /\ u[n + 1] = e /\ \A i \in 1..n : u[i] = t[i]
  BY AppendProperties
<1>2. /\ WithoutTrailing(u) = IF Q = {} THEN <<>> ELSE SubSeq(u, 1, Max(Q))
      /\ WithoutTrailing(t) = IF P = {} THEN <<>> ELSE SubSeq(t, 1, Max(P))
  BY DEF WithoutTrailing
<1>3. \A k \in 1..n : SubSeq(u, 1, k) = SubSeq(t, 1, k)
  <2>1. ASSUME NEW k \in 1..n PROVE SubSeq(u, 1, k) = SubSeq(t, 1, k)
    <3>1. k + 1 \in 1..Len(t) + 1 /\ (k + 1) - 1 = k
      BY <1>1
    <3>2. QED
      BY <3>1, PrefixOfAppend
  <2>2. QED
    BY <2>1
<1> HIDE DEF u, blank
<1>5. P \in SUBSET (1..n) /\ Q \in SUBSET (1..n + 1) /\ n + 1 \in Nat
  BY <1>1
<1>9. WithoutTrailing(t) \in Seq(S)
  <2> HIDE DEF P
  <2>1. P # {} => Max(P) \in 1..n
    <3>1. P # {} => Max(P) \in P
      BY <1>1, <1>5, MaxIsGreatest
    <3>2. QED
      BY <1>5, <3>1, Zenon
  <2>2. \A k \in 1..n : SubSeq(t, 1, k) \in Seq(S)
    OBVIOUS
  <2>3. <<>> \in Seq(S)
    OBVIOUS
  <2>4. QED
    BY <1>2, <2>1, <2>2, <2>3
<1>6. ASSUME e # blank PROVE WithoutTrailing(u) = u
  <2>1. n + 1 \in Q /\ Q # {} /\ \A y \in Q : n + 1 >= y
    BY <1>1, <1>6
  <2> HIDE DEF Q
  <2>2. Max(Q) = n + 1
    BY <1>5, <2>1, MaxIsGreatest
  <2>3. SubSeq(u, 1, n + 1) = u
    BY <1>1, SubSeqFull
  <2>4. QED
    BY <1>2, <1>6, <2>1, <2>2, <2>3
<1>7. ASSUME e = blank PROVE WithoutTrailing(u) = WithoutTrailing(t)
  <2>1. P = Q
    BY <1>1, <1>7
  <2> HIDE DEF P, Q
  <2>2. P # {} => Max(P) \in 1..n
    <3>1. P # {} => Max(P) \in P
      BY <1>1, <1>5, MaxIsGreatest
    <3>2. QED
      BY <1>5, <3>1, Zenon
  <2>3. P # {} => SubSeq(u, 1, Max(P)) = SubSeq(t, 1, Max(P))
    BY <1>3, <2>2, Zenon
  <2>4. WithoutTrailing(u) = IF P = {} THEN <<>> ELSE SubSeq(u, 1, Max(P))
    BY <1>2, <2>1, Zenon
  <2>5. QED
    BY <1>2, <2>3, <2>4, Zenon
<1>8. WithoutTrailing(u) = IF e = blank THEN WithoutTrailing(t) ELSE u
  BY <1>6, <1>7
<1>10. QED
  BY <1>8, <1>9 DEF u, blank

\* What a recognized text may go on with.
Fits(t, e) ==
    /\ e # "[hooks.state.odd]"
    /\ e \in DOMAIN KeyOf => e \notin ToSet(t)
    /\ e \notin Headers \union Silent =>
          /\ Cur(t) # "[hooks.state]"
          /\ Cur(t) \in DOMAIN KeyOf => e \in DOMAIN FieldOf

LEMMA RecognizedAppend ==
  ASSUME NEW S, NEW t \in Seq(S), NEW e \in S
  PROVE  Recognized(Append(t, e)) <=> Recognized(t) /\ Fits(t, e)
<1> DEFINE n == Len(t)
           u == Append(t, e)
           X == Headers \union Silent
           K == DOMAIN KeyOf
           F == DOMAIN FieldOf
           odd == "[hooks.state.odd]"
           table == "[hooks.state]"
           once(s) == \A i, j \in DOMAIN s : s[i] \in K /\ s[i] = s[j] => i = j
           clear(c, x) == c # table /\ (c \in K => x \in F)
           plain(s) == \A i \in DOMAIN s : s[i] \notin X => clear(Heading(s, i), s[i])
<1>1. /\ n \in Nat /\ DOMAIN t = 1..n /\ DOMAIN u = 1..n + 1
      /\ u[n + 1] = e /\ \A i \in 1..n : u[i] = t[i]
  BY AppendProperties
<1>2. /\ \A i \in 1..n : Heading(u, i) = Heading(t, i)
      /\ Heading(u, n + 1) = IF e \in Headers THEN e ELSE Cur(t)
  BY HeadingAppend
<1>3. ToSet(u) = ToSet(t) \union {e}
  BY ToSetAppend
<1>4. e \in Headers => e \in X
  OBVIOUS
<1>5. ASSUME NEW s PROVE Recognized(s) <=> odd \notin ToSet(s) /\ once(s) /\ plain(s)
  BY Zenon DEF Recognized
<1>6. Fits(t, e) <=> /\ e # odd
                     /\ e \in K => e \notin ToSet(t)
                     /\ e \notin X => clear(Cur(t), e)
  BY Zenon DEF Fits
<1>7. ToSet(t) = {t[i] : i \in 1..n}
  BY <1>1 DEF ToSet
<1> HIDE DEF u, X, K, F, odd, table, clear, n
<1>8. once(u) <=> once(t) /\ (e \in K => e \notin ToSet(t))
  <2>1. ASSUME once(u) PROVE once(t) /\ (e \in K => e \notin ToSet(t))
    <3>1. once(t)
      <4>1. ASSUME NEW i \in 1..n, NEW j \in 1..n, t[i] \in K, t[i] = t[j] PROVE i = j
        <5>1. i \in 1..n + 1 /\ j \in 1..n + 1
          BY <1>1
        <5>2. QED
          BY <1>1, <2>1, <4>1, <5>1
      <4>2. QED
        BY <1>1, <4>1
    <3>2. ASSUME e \in K, e \in ToSet(t) PROVE FALSE
      <4>1. PICK i \in 1..n : t[i] = e
        BY <1>7, <3>2
      <4>2. i \in 1..n + 1 /\ n + 1 \in 1..n + 1 /\ i # n + 1 /\ u[i] = e
        BY <1>1, <4>1
      <4>3. QED
        BY <1>1, <2>1, <3>2, <4>2
    <3>3. QED
      BY <3>1, <3>2
  <2>2. ASSUME once(t), e \in K => e \notin ToSet(t) PROVE once(u)
    <3>1. ASSUME NEW i \in 1..n + 1, NEW j \in 1..n + 1, u[i] \in K, u[i] = u[j] PROVE i = j
      <4>1. CASE i \in 1..n /\ j \in 1..n
        BY <1>1, <2>2, <3>1, <4>1
      <4>2. CASE i = n + 1 /\ j \in 1..n
        BY <1>1, <1>7, <2>2, <3>1, <4>2
      <4>3. CASE i \in 1..n /\ j = n + 1
        BY <1>1, <1>7, <2>2, <3>1, <4>3
      <4>4. CASE i = n + 1 /\ j = n + 1
        BY <4>4
      <4>5. QED
        BY <1>1, <4>1, <4>2, <4>3, <4>4
    <3>2. QED
      BY <1>1, <3>1
  <2>3. QED
    BY <2>1, <2>2
<1>9. plain(u) <=> plain(t) /\ (e \notin X => clear(Cur(t), e))
  <2>1. ASSUME plain(u) PROVE plain(t) /\ (e \notin X => clear(Cur(t), e))
    <3>1. ASSUME NEW i \in 1..n, t[i] \notin X PROVE clear(Heading(t, i), t[i])
      <4>1. i \in 1..n + 1
        BY <1>1
      <4>2. QED
        BY <1>1, <1>2, <2>1, <3>1, <4>1
    <3>2. ASSUME e \notin X PROVE clear(Cur(t), e)
      <4>1. n + 1 \in 1..n + 1 /\ e \notin Headers
        BY <1>1, <1>4, <3>2
      <4>2. QED
        BY <1>1, <1>2, <2>1, <3>2, <4>1
    <3>3. QED
      BY <1>1, <3>1, <3>2
  <2>2. ASSUME plain(t), e \notin X => clear(Cur(t), e) PROVE plain(u)
    <3>1. ASSUME NEW i \in 1..n + 1, u[i] \notin X PROVE clear(Heading(u, i), u[i])
      <4>1. CASE i \in 1..n
        BY <1>1, <1>2, <2>2, <3>1, <4>1
      <4>2. CASE i = n + 1
        BY <1>1, <1>2, <1>4, <2>2, <3>1, <4>2
      <4>3. QED
        BY <1>1, <4>1, <4>2
    <3>2. QED
      BY <1>1, <3>1
  <2>3. QED
    BY <2>1, <2>2
<1>10. odd \notin ToSet(u) <=> odd \notin ToSet(t) /\ e # odd
  BY <1>3
<1> HIDE DEF once, plain
<1>11. Recognized(u) <=> Recognized(t) /\ Fits(t, e)
  BY <1>5, <1>6, <1>8, <1>9, <1>10, Zenon
<1>12. QED
  BY <1>11 DEF u

Keys == {KeyOf[header] : header \in DOMAIN KeyOf}

\* b says what t does, but for the tables of H that were dropped; those of A
\* among them are back.
Kept(b, t, H, A) ==
    /\ \A h : h \notin H => Says(b, h) = Says(t, h)
    /\ \A key, name : HeaderOf(key) \notin H => Value(b, key, name) = Value(t, key, name)
    /\ \A h \in Headers : h \in ToSet(b) <=> (h \in ToSet(t) /\ h \notin H) \/ h \in A
    /\ Recognized(t) => Recognized(b)

\* They are records trusted now, and switched on or off as before.
Restored(b, t, A) ==
    \A key \in Keys : HeaderOf(key) \in A =>
        Trusted(b, key) /\ Value(b, key, "enabled") = Value(t, key, "enabled")

LEMMA KeptItself == \A t : Kept(t, t, {}, {})
BY Zenon DEF Kept

\* A line more is kept if the text it is added to goes on as it did.
LEMMA KeptAppend ==
  ASSUME NEW S, NEW b \in Seq(S), NEW t \in Seq(S), NEW e \in S, NEW H,
         Kept(b, t, H, {}), Cur(Append(t, e)) \notin H, e \notin Headers => Cur(b) = Cur(t)
  PROVE  Kept(Append(b, e), Append(t, e), H, {}) /\ Cur(Append(b, e)) = Cur(Append(t, e))
<1> DEFINE c == Append(b, e)
           u == Append(t, e)
<1>0. /\ Cur(c) = IF e \in Headers THEN e ELSE Cur(b)
      /\ Cur(u) = IF e \in Headers THEN e ELSE Cur(t)
  BY HeadingAppend
<1>1. Cur(c) = Cur(u) /\ (e \in Headers => e \notin H)
  BY <1>0
<1>2. \A h : h \notin H => Says(c, h) = Says(u, h)
  <2>1. ASSUME NEW h, h \notin H PROVE Says(c, h) = Says(u, h)
    <3>1. Says(b, h) = Says(t, h)
      BY <2>1, Zenon DEF Kept
    <3>2. /\ Says(c, h) = IF e \notin Headers \union Silent /\ Cur(b) = h
                          THEN Append(Says(b, h), e) ELSE Says(b, h)
          /\ Says(u, h) = IF e \notin Headers \union Silent /\ Cur(t) = h
                          THEN Append(Says(t, h), e) ELSE Says(t, h)
      BY SaysAppend
    <3>3. e \notin Headers \union Silent => Cur(b) = Cur(t)
      OBVIOUS
    <3> HIDE DEF c, u
    <3>4. CASE e \notin Headers \union Silent /\ Cur(t) = h
      BY <3>1, <3>2, <3>3, <3>4, Zenon
    <3>5. CASE ~(e \notin Headers \union Silent /\ Cur(t) = h)
      BY <3>1, <3>2, <3>3, <3>5, Zenon
    <3>6. QED
      BY <3>4, <3>5, Zenon
  <2>2. QED
    BY <2>1
<1>3. \A key, name : HeaderOf(key) \notin H => Value(c, key, name) = Value(u, key, name)
  <2>1. ASSUME NEW key, NEW name, HeaderOf(key) \notin H
        PROVE  Value(c, key, name) = Value(u, key, name)
    <3>1. Value(b, key, name) = Value(t, key, name)
      BY <2>1, Zenon DEF Kept
    <3>2. /\ Value(c, key, name) = IF Cur(c) = HeaderOf(key) /\ Sets(e, name)
                                   THEN FieldOf[e].value ELSE Value(b, key, name)
          /\ Value(u, key, name) = IF Cur(u) = HeaderOf(key) /\ Sets(e, name)
                                   THEN FieldOf[e].value ELSE Value(t, key, name)
      BY ValueAppend
    <3> HIDE DEF c, u
    <3>3. CASE Cur(u) = HeaderOf(key) /\ Sets(e, name)
      BY <1>1, <3>1, <3>2, <3>3, Zenon
    <3>4. CASE ~(Cur(u) = HeaderOf(key) /\ Sets(e, name))
      BY <1>1, <3>1, <3>2, <3>4, Zenon
    <3>5. QED
      BY <3>3, <3>4, Zenon
  <2>2. QED
    BY <2>1
<1>4. ToSet(c) = ToSet(b) \union {e} /\ ToSet(u) = ToSet(t) \union {e}
  BY ToSetAppend
<1>5. \A h \in Headers : h \in ToSet(b) <=> h \in ToSet(t) /\ h \notin H
  BY Zenon DEF Kept
<1>6. \A h \in Headers : h \in ToSet(c) <=> h \in ToSet(u) /\ h \notin H
  BY <1>1, <1>4, <1>5
<1>7. Recognized(u) => Recognized(c)
  <2>1. ASSUME Recognized(u) PROVE Recognized(c)
    <3>1. Recognized(t) /\ Fits(t, e)
      BY <2>1, RecognizedAppend
    <3>2. Recognized(b)
      BY <3>1, Zenon DEF Kept
    <3>3. e \in DOMAIN KeyOf => e \notin ToSet(b)
      <4>1. e \in DOMAIN KeyOf => e \notin ToSet(t)
        BY <3>1, Zenon DEF Fits
      <4>2. DOMAIN KeyOf \subseteq Headers
        BY Zenon DEF Headers
      <4>3. QED
        BY <1>5, <4>1, <4>2
    <3>4. Fits(b, e)
      <4>1. e \notin Headers \union Silent => Cur(b) = Cur(t)
        OBVIOUS
      <4>2. QED
        BY <3>1, <3>3, <4>1, Zenon DEF Fits
    <3>5. QED
      BY <3>2, <3>4, RecognizedAppend
  <2>2. QED
    BY <2>1
<1> HIDE DEF c, u
<1>8. Kept(c, u, H, {})
  BY <1>2, <1>3, <1>6, <1>7, Zenon DEF Kept
<1>9. QED
  BY <1>1, <1>8 DEF c, u

\* A line dropped is none that mattered.
LEMMA KeptDrop ==
  ASSUME NEW S, NEW b \in Seq(S), NEW t \in Seq(S), NEW e \in S, NEW H,
         Kept(b, t, H, {}), Cur(Append(t, e)) \in H, None \notin H
  PROVE  Kept(b, Append(t, e), H, {})
<1> DEFINE u == Append(t, e)
<1>0. Cur(u) = IF e \in Headers THEN e ELSE Cur(t)
  BY HeadingAppend
<1>1. e \in Headers => e \in H
  BY <1>0
<1>2. \A h : h \notin H => Says(u, h) = Says(t, h)
  <2>1. ASSUME NEW h, h \notin H PROVE Says(u, h) = Says(t, h)
    <3>1. Says(u, h) = IF e \notin Headers \union Silent /\ Cur(t) = h
                       THEN Append(Says(t, h), e) ELSE Says(t, h)
      BY SaysAppend
    <3>2. ~(e \notin Headers \union Silent /\ Cur(t) = h)
      BY <1>0, <2>1
    <3>3. QED
      BY <3>1, <3>2
  <2>2. QED
    BY <2>1
<1>3. \A key, name : HeaderOf(key) \notin H => Value(u, key, name) = Value(t, key, name)
  <2>1. ASSUME NEW key, NEW name, HeaderOf(key) \notin H
        PROVE  Value(u, key, name) = Value(t, key, name)
    <3>1. Value(u, key, name) = IF Cur(u) = HeaderOf(key) /\ Sets(e, name)
                                THEN FieldOf[e].value ELSE Value(t, key, name)
      BY ValueAppend
    <3>2. QED
      BY <2>1, <3>1, Zenon
  <2>2. QED
    BY <2>1
<1>4. ToSet(u) = ToSet(t) \union {e}
  BY ToSetAppend
<1>5. \A h \in Headers : h \in ToSet(b) <=> h \in ToSet(t) /\ h \notin H
  BY Zenon DEF Kept
<1>6. \A h \in Headers : h \in ToSet(b) <=> h \in ToSet(u) /\ h \notin H
  BY <1>1, <1>4, <1>5
<1>7. Recognized(u) => Recognized(b)
  <2>1. Recognized(u) => Recognized(t)
    BY RecognizedAppend
  <2>2. QED
    BY <2>1, Zenon DEF Kept
<1> HIDE DEF u
<1>8. /\ \A h : h \notin H => Says(b, h) = Says(t, h)
      /\ \A key, name : HeaderOf(key) \notin H => Value(b, key, name) = Value(t, key, name)
  BY Zenon DEF Kept
<1>9. Kept(b, u, H, {})
  BY <1>2, <1>3, <1>6, <1>7, <1>8, Zenon DEF Kept
<1>10. QED
  BY <1>9 DEF u

\* To drop some tables keeps the others.
LEMMA WithoutKept ==
  ASSUME NEW S, NEW t \in Seq(S), NEW H, None \notin H
  PROVE  Kept(Without(t, H), t, H, {})
<1> DEFINE Good == {s \in Seq(S) : /\ Kept(Without(s, H), s, H, {})
                                   /\ Cur(s) \notin H => Cur(Without(s, H)) = Cur(s)}
<1>1. <<>> \in Good
  <2>1. <<>> \in Seq(S)
    OBVIOUS
  <2>2. Without(<<>>, H) = <<>>
    BY Zenon, PickedEmpty DEF Without
  <2>3. Kept(<<>>, <<>>, H, {})
    <3>1. \A h : h \notin ToSet(<<>>)
      BY DEF ToSet
    <3>2. QED
      BY <3>1, Zenon DEF Kept
  <2>4. QED
    BY <2>1, <2>2, <2>3, Zenon
<1>2. ASSUME NEW s \in Seq(S), NEW e \in S, s \in Good PROVE Append(s, e) \in Good
  <2> DEFINE u == Append(s, e)
             w == Without(s, H)
  <2>1. /\ u \in Seq(S) /\ w \in Seq(S)
        /\ Without(u, H) = IF Cur(u) \in H THEN w ELSE Append(w, e)
    BY WithoutAppend, AppendProperties
  <2>2. Kept(w, s, H, {}) /\ (Cur(s) \notin H => Cur(w) = Cur(s))
    BY <1>2
  <2>3. Cur(u) = IF e \in Headers THEN e ELSE Cur(s)
    BY HeadingAppend
  <2>4. CASE Cur(u) \in H
    <3>1. Kept(w, u, H, {})
      BY <2>1, <2>2, <2>4, KeptDrop
    <3>2. QED
      BY <2>1, <2>4, <3>1
  <2>5. CASE Cur(u) \notin H
    <3>1. e \notin Headers => Cur(w) = Cur(s)
      BY <2>2, <2>3, <2>5
    <3>2. Kept(Append(w, e), u, H, {}) /\ Cur(Append(w, e)) = Cur(u)
      BY <2>1, <2>2, <2>5, <3>1, KeptAppend
    <3>3. QED
      BY <2>1, <2>5, <3>2
  <2>6. QED
    BY <2>4, <2>5
<1> HIDE DEF Good
<1>3. t \in Good
  BY <1>1, <1>2, SequenceInduction
<1>4. QED
  BY <1>3 DEF Good

\* Which lines are which.
LEMMA LineKinds ==
  /\ "" \notin Headers /\ "" \notin DOMAIN FieldOf /\ "" \in Silent
  /\ DOMAIN KeyOf \subseteq Headers /\ None \notin Headers
  /\ "[hooks.state.odd]" \in Headers /\ "[hooks.state.odd]" \notin DOMAIN KeyOf
  /\ "[hooks.state]" \in Headers /\ "[hooks.state]" \notin DOMAIN KeyOf
  /\ \A f \in DOMAIN FieldOf : f \notin Headers \union Silent
  /\ \A f \in Silent : f \notin Headers /\ f \notin DOMAIN FieldOf
<1>1. DOMAIN KeyOf = {"[mine]", "[also]", "[old]", "[theirs]"}
  BY Zenon DEF KeyOf
<1>2. DOMAIN FieldOf = {"enabled", "disabled", "hash", "old hash", "content"}
  BY Zenon DEF FieldOf
<1>3. Headers = {"[mine]", "[also]", "[old]", "[theirs]"} \union
                {"[section]", "[hooks.state]", "[hooks.state.odd]"}
  BY <1>1, Zenon DEF Headers, OtherHeaders
<1>4. Silent = {"", "#"} /\ None = "none"
  BY Zenon DEF Silent, None
<1>5. \A f \in DOMAIN FieldOf : f \notin Headers
  BY <1>2, <1>3, Zenon
<1>6. \A f \in DOMAIN FieldOf : f \notin Silent
  BY <1>2, <1>4, Zenon
<1>7. \A f \in DOMAIN FieldOf : f \notin Headers \union Silent
  BY <1>5, <1>6, Zenon
<1>8. "" \notin Headers /\ "" \notin DOMAIN FieldOf /\ "" \in Silent
  BY <1>2, <1>3, <1>4, Zenon
<1>9. DOMAIN KeyOf \subseteq Headers /\ None \notin Headers
  BY <1>1, <1>3, <1>4, Zenon
<1>10. /\ "[hooks.state.odd]" \in Headers /\ "[hooks.state.odd]" \notin DOMAIN KeyOf
       /\ "[hooks.state]" \in Headers /\ "[hooks.state]" \notin DOMAIN KeyOf
  BY <1>1, <1>3, Zenon
<1>11. \A f \in Silent : f \notin Headers /\ f \notin DOMAIN FieldOf
  BY <1>2, <1>3, <1>4, Zenon
<1>12. QED
  BY <1>7, <1>8, <1>9, <1>10, <1>11, Zenon

\* A silent line changes nothing that is read.
LEMMA SilentAdded ==
  ASSUME NEW S, NEW t \in Seq(S), NEW e \in S, e \in Silent
  PROVE  /\ Append(t, e) \in Seq(S) /\ Cur(Append(t, e)) = Cur(t)
         /\ \A h : Says(Append(t, e), h) = Says(t, h)
         /\ \A key, name : Value(Append(t, e), key, name) = Value(t, key, name)
         /\ \A h \in Headers : h \in ToSet(Append(t, e)) <=> h \in ToSet(t)
         /\ Recognized(Append(t, e)) <=> Recognized(t)
<1> DEFINE u == Append(t, e)
<1>1. e \notin Headers /\ e \notin DOMAIN FieldOf
  BY LineKinds, Zenon
<1>2. e \notin DOMAIN KeyOf /\ e # "[hooks.state.odd]"
  BY <1>1, LineKinds, Zenon
<1>3. u \in Seq(S) /\ Cur(u) = Cur(t)
  BY <1>1, HeadingAppend, AppendProperties
<1>4. ASSUME NEW h PROVE Says(u, h) = Says(t, h)
  BY SaysAppend
<1>5. ASSUME NEW key, NEW name PROVE Value(u, key, name) = Value(t, key, name)
  <2>1. ~Sets(e, name)
    BY <1>1, Zenon DEF Sets
  <2>2. QED
    BY <2>1, ValueAppend
<1>6. \A h \in Headers : h \in ToSet(u) <=> h \in ToSet(t)
  BY <1>1, ToSetAppend
<1>7. Recognized(u) <=> Recognized(t)
  <2>1. Fits(t, e)
    BY <1>1, <1>2, Zenon DEF Fits
  <2>2. QED
    BY <2>1, RecognizedAppend
<1> HIDE DEF u
<1>8. QED
  BY <1>3, <1>4, <1>5, <1>6, <1>7, Zenon DEF u

\* Blanks at the end are no loss.
LEMMA TrailingKept ==
  ASSUME NEW S, NEW t \in Seq(S)
  PROVE  Kept(WithoutTrailing(t), t, {}, {}) /\ Cur(WithoutTrailing(t)) = Cur(t)
<1> DEFINE Good == {s \in Seq(S) : /\ Kept(WithoutTrailing(s), s, {}, {})
                                   /\ Cur(WithoutTrailing(s)) = Cur(s)}
<1>1. <<>> \in Good
  <2>1. <<>> \in Seq(S) /\ Kept(<<>>, <<>>, {}, {})
    BY KeptItself
  <2>2. WithoutTrailing(<<>>) = <<>>
    BY TrailingEmpty
  <2>3. QED
    BY <2>1, <2>2, Zenon
<1>2. ASSUME NEW s \in Seq(S), NEW e \in S, s \in Good PROVE Append(s, e) \in Good
  <2> DEFINE u == Append(s, e)
             v == WithoutTrailing(s)
  <2>1. /\ u \in Seq(S)
        /\ WithoutTrailing(u) = IF e = "" THEN v ELSE u
    BY TrailingAppend, AppendProperties
  <2>2. Kept(v, s, {}, {}) /\ Cur(v) = Cur(s)
    BY <1>2
  <2>3. CASE e = ""
    <3> DEFINE w == Append(s, e)
    <3>0. e \in Silent
      BY <2>3, LineKinds, Zenon
    <3>1. /\ Cur(w) = Cur(s)
          /\ \A h : Says(w, h) = Says(s, h)
          /\ \A key, name : Value(w, key, name) = Value(s, key, name)
          /\ \A h \in Headers : h \in ToSet(w) <=> h \in ToSet(s)
          /\ Recognized(w) <=> Recognized(s)
      BY <3>0, SilentAdded
    <3> HIDE DEF w, v
    <3>2. Kept(v, w, {}, {})
      BY <2>2, <3>1, Zenon DEF Kept
    <3>3. u = w /\ WithoutTrailing(u) = v
      BY <2>1, <2>3 DEF w
    <3>4. Kept(WithoutTrailing(u), u, {}, {}) /\ Cur(WithoutTrailing(u)) = Cur(u)
      BY <2>2, <3>1, <3>2, <3>3, Zenon
    <3>5. QED
      BY <2>1, <3>4
  <2>4. CASE e # ""
    <3>1. WithoutTrailing(u) = u
      BY <2>1, <2>4
    <3>2. QED
      BY <2>1, <3>1, KeptItself
  <2>5. QED
    BY <2>3, <2>4
<1> HIDE DEF Good
<1>3. t \in Good
  BY <1>1, <1>2, SequenceInduction
<1>4. QED
  BY <1>3 DEF Good

\* What is kept of what is kept.
LEMMA KeptKept ==
  ASSUME NEW b, NEW c, NEW t, NEW H, NEW A, Kept(c, b, {}, {}), Kept(b, t, H, A)
  PROVE  Kept(c, t, H, A)
BY Zenon DEF Kept

\* A silent line is added.
LEMMA SilentBack ==
  ASSUME NEW S, NEW b \in Seq(S), NEW t, NEW H, NEW A, NEW e \in S, e \in Silent,
         Kept(b, t, H, A), Restored(b, t, A)
  PROVE  Kept(Append(b, e), t, H, A) /\ Restored(Append(b, e), t, A)
<1> DEFINE c == Append(b, e)
<1>1. /\ \A h : Says(c, h) = Says(b, h)
      /\ \A key, name : Value(c, key, name) = Value(b, key, name)
      /\ \A h \in Headers : h \in ToSet(c) <=> h \in ToSet(b)
      /\ Recognized(c) <=> Recognized(b)
  BY SilentAdded
<1> HIDE DEF c
<1>2. Kept(c, t, H, A)
  BY <1>1, Zenon DEF Kept
<1>3. Restored(c, t, A)
  BY <1>1, Zenon DEF Restored, Trusted
<1>4. QED
  BY <1>2, <1>3 DEF c

\* The header of a record that was dropped is added.
LEMMA HeaderBack ==
  ASSUME NEW S, NEW b \in Seq(S), NEW t, NEW H, NEW A, NEW head \in S,
         head \in DOMAIN KeyOf, head \in H, head \notin A,
         Kept(b, t, H, A), Restored(b, t, A)
  PROVE  /\ Kept(Append(b, head), t, H, A \union {head}) /\ Restored(Append(b, head), t, A)
         /\ Append(b, head) \in Seq(S) /\ Cur(Append(b, head)) = head
         /\ \A key, name : HeaderOf(key) = head => Value(Append(b, head), key, name) = None
<1> DEFINE c == Append(b, head)
<1>1. /\ head \in Headers /\ head \notin DOMAIN FieldOf /\ head # "[hooks.state.odd]"
  BY LineKinds, Zenon
<1>2. c \in Seq(S) /\ Cur(c) = head /\ ToSet(c) = ToSet(b) \union {head}
  BY <1>1, HeadingAppend, AppendProperties, ToSetAppend
<1>3. ASSUME NEW h PROVE Says(c, h) = Says(b, h)
  <2>1. head \in Headers \union Silent
    BY <1>1
  <2>2. QED
    BY <2>1, SaysAppend
<1>4. ASSUME NEW key, NEW name PROVE Value(c, key, name) = Value(b, key, name)
  <2>1. ~Sets(head, name)
    BY <1>1, Zenon DEF Sets
  <2>2. QED
    BY <2>1, ValueAppend
<1>5. head \notin ToSet(b)
  BY <1>1, Zenon DEF Kept
<1>6. Recognized(b) => Recognized(c)
  <2>1. Fits(b, head)
    BY <1>1, <1>5, Zenon DEF Fits
  <2>2. QED
    BY <2>1, RecognizedAppend
<1>7. \A h \in Headers : h \in ToSet(b) <=> (h \in ToSet(t) /\ h \notin H) \/ h \in A
  BY Zenon DEF Kept
<1>8. \A h \in Headers : h \in ToSet(c) <=> (h \in ToSet(t) /\ h \notin H) \/ h \in A \union {head}
  BY <1>2, <1>7
<1>9. ASSUME NEW key, NEW name, HeaderOf(key) = head PROVE Value(b, key, name) = None
  <2> DEFINE P == {i \in DOMAIN b : /\ Heading(b, i) = HeaderOf(key)
                                    /\ b[i] \in DOMAIN FieldOf /\ FieldOf[b[i]].name = name}
  <2>1. P = {}
    <3>1. ASSUME NEW i \in 1..Len(b), Heading(b, i) = head PROVE FALSE
      <4> DEFINE above == {j \in 1..i : b[j] \in Headers}
      <4>1. Heading(b, i) = IF above = {} THEN None ELSE b[Max(above)]
        BY DEF Heading
      <4>2. above \in SUBSET (1..i) /\ i \in Nat /\ 1..i \subseteq 1..Len(b)
        OBVIOUS
      <4> HIDE DEF above
      <4>3. above # {} => Max(above) \in above
        BY <4>2, MaxIsGreatest
      <4>4. above # {} => Max(above) \in 1..Len(b)
        BY <4>2, <4>3, Zenon
      <4>5. above # {} => b[Max(above)] \in ToSet(b)
        BY <4>4 DEF ToSet
      <4>6. None # head
        BY <1>1, LineKinds, Zenon
      <4>7. QED
        BY <1>5, <3>1, <4>1, <4>5, <4>6, Zenon
    <3>2. DOMAIN b = 1..Len(b)
      OBVIOUS
    <3>3. QED
      BY <1>9, <3>1, <3>2, Zenon
  <2> HIDE DEF P
  <2>2. Value(b, key, name) = IF P = {} THEN None ELSE FieldOf[b[Max(P)]].value
    BY DEF Value, P
  <2>3. QED
    BY <2>1, <2>2, Zenon
<1> HIDE DEF c
<1>10. Kept(c, t, H, A \union {head})
  BY <1>3, <1>4, <1>6, <1>8, Zenon DEF Kept
<1>11. Restored(c, t, A)
  BY <1>4, Zenon DEF Restored, Trusted
<1>12. QED
  BY <1>2, <1>4, <1>9, <1>10, <1>11, Zenon DEF c

\* c is b with a field more in the record under a header.
Sees(c, b, head, field) ==
    \A key, name : HeaderOf(key) = head =>
        Value(c, key, name) = IF field.name = name THEN field.value ELSE Value(b, key, name)

\* A field of its record is added.
LEMMA FieldBack ==
  ASSUME NEW S, NEW b \in Seq(S), NEW t, NEW H, NEW A, NEW B, NEW head, NEW e \in S,
         head \in DOMAIN KeyOf, head \in H, head \notin B, Cur(b) = head,
         e \in DOMAIN FieldOf, Kept(b, t, H, A), Restored(b, t, B)
  PROVE  /\ Kept(Append(b, e), t, H, A) /\ Restored(Append(b, e), t, B)
         /\ Sees(Append(b, e), b, head, FieldOf[e])
<1> DEFINE c == Append(b, e)
<1>1. /\ e \notin Headers /\ e \notin Silent /\ e \notin DOMAIN KeyOf /\ e # "[hooks.state.odd]"
      /\ head # "[hooks.state]"
  BY LineKinds, Zenon
<1>2. c \in Seq(S) /\ Cur(c) = head /\ ToSet(c) = ToSet(b) \union {e}
  BY <1>1, HeadingAppend, AppendProperties, ToSetAppend
<1>3. ASSUME NEW h, h \notin H PROVE Says(c, h) = Says(b, h)
  <2>1. Cur(b) # h
    BY <1>3
  <2>2. QED
    BY <2>1, SaysAppend
<1>4. ASSUME NEW key, NEW name
      PROVE  Value(c, key, name) =
                IF head = HeaderOf(key) /\ FieldOf[e].name = name
                THEN FieldOf[e].value ELSE Value(b, key, name)
  <2>1. Sets(e, name) <=> FieldOf[e].name = name
    BY Zenon DEF Sets
  <2>2. Value(c, key, name) = IF Cur(c) = HeaderOf(key) /\ Sets(e, name)
                              THEN FieldOf[e].value ELSE Value(b, key, name)
    BY ValueAppend
  <2>3. QED
    BY <1>2, <2>1, <2>2, Zenon
<1>5. Recognized(b) => Recognized(c)
  <2>1. Fits(b, e)
    BY <1>1, Zenon DEF Fits
  <2>2. QED
    BY <2>1, RecognizedAppend
<1>6. \A h \in Headers : h \in ToSet(b) <=> (h \in ToSet(t) /\ h \notin H) \/ h \in A
  BY Zenon DEF Kept
<1>7. \A h \in Headers : h \in ToSet(c) <=> (h \in ToSet(t) /\ h \notin H) \/ h \in A
  BY <1>1, <1>2, <1>6
<1> HIDE DEF c
<1>8. ASSUME NEW key, NEW name, HeaderOf(key) # head PROVE Value(c, key, name) = Value(b, key, name)
  BY <1>4, <1>8, Zenon
<1>9. \A key, name : HeaderOf(key) \notin H => Value(c, key, name) = Value(t, key, name)
  BY <1>8, Zenon DEF Kept
<1>10. Kept(c, t, H, A)
  BY <1>3, <1>5, <1>7, <1>9, Zenon DEF Kept
<1>11. Restored(c, t, B)
  <2>1. ASSUME NEW key \in Keys, HeaderOf(key) \in B
        PROVE  Trusted(c, key) /\ Value(c, key, "enabled") = Value(t, key, "enabled")
    <3>1. HeaderOf(key) # head
      BY <2>1, Zenon
    <3>2. Trusted(b, key) /\ Value(b, key, "enabled") = Value(t, key, "enabled")
      BY <2>1, Zenon DEF Restored
    <3>3. \A name : Value(c, key, name) = Value(b, key, name)
      BY <1>8, <3>1, Zenon
    <3>4. QED
      BY <3>2, <3>3, Zenon DEF Trusted
  <2>2. QED
    BY <2>1, Zenon DEF Restored
<1>12. ASSUME NEW key, NEW name, HeaderOf(key) = head
       PROVE  Value(c, key, name) =
                IF FieldOf[e].name = name THEN FieldOf[e].value ELSE Value(b, key, name)
  BY <1>4, <1>12, Zenon
<1>13. Sees(c, b, head, FieldOf[e])
  BY <1>12, Zenon DEF Sees
<1>14. QED
  BY <1>2, <1>10, <1>11, <1>13, Zenon DEF c

\* The headers of records are named for the hooks.
LEMMA HeadersOf ==
  /\ HeaderOf("mine") = "[mine]" /\ HeaderOf("also") = "[also]" /\ HeaderOf("old") = "[old]"
  /\ HeaderOf("theirs") = "[theirs]" /\ Keys = {"mine", "also", "old", "theirs"}
  /\ DOMAIN KeyOf = {"[mine]", "[also]", "[old]", "[theirs]"}
<1>1. DOMAIN KeyOf = {"[mine]", "[also]", "[old]", "[theirs]"}
  BY Zenon DEF KeyOf
<1>2. /\ KeyOf["[mine]"] = "mine" /\ KeyOf["[also]"] = "also"
      /\ KeyOf["[old]"] = "old" /\ KeyOf["[theirs]"] = "theirs"
  BY Zenon DEF KeyOf
<1>3. HeaderOf("mine") = "[mine]"
  <2>1. \A h \in DOMAIN KeyOf : KeyOf[h] = "mine" <=> h = "[mine]"
    BY <1>1, <1>2, Zenon
  <2>2. QED
    BY <1>1, <2>1, Zenon DEF HeaderOf
<1>4. HeaderOf("also") = "[also]"
  <2>1. \A h \in DOMAIN KeyOf : KeyOf[h] = "also" <=> h = "[also]"
    BY <1>1, <1>2, Zenon
  <2>2. QED
    BY <1>1, <2>1, Zenon DEF HeaderOf
<1>5. HeaderOf("old") = "[old]"
  <2>1. \A h \in DOMAIN KeyOf : KeyOf[h] = "old" <=> h = "[old]"
    BY <1>1, <1>2, Zenon
  <2>2. QED
    BY <1>1, <2>1, Zenon DEF HeaderOf
<1>6. HeaderOf("theirs") = "[theirs]"
  <2>1. \A h \in DOMAIN KeyOf : KeyOf[h] = "theirs" <=> h = "[theirs]"
    BY <1>1, <1>2, Zenon
  <2>2. QED
    BY <1>1, <2>1, Zenon DEF HeaderOf
<1>7. Keys = {"mine", "also", "old", "theirs"}
  BY <1>1, <1>2, Zenon DEF Keys
<1>8. QED
  BY <1>1, <1>3, <1>4, <1>5, <1>6, <1>7, Zenon

LEMMA KeyHeaders ==
  /\ \A key \in Keys : HeaderOf(key) \in DOMAIN KeyOf
  /\ \A k, l \in Keys : HeaderOf(k) = HeaderOf(l) => k = l
<1>1. /\ HeaderOf("mine") = "[mine]" /\ HeaderOf("also") = "[also]" /\ HeaderOf("old") = "[old]"
      /\ HeaderOf("theirs") = "[theirs]" /\ Keys = {"mine", "also", "old", "theirs"}
      /\ DOMAIN KeyOf = {"[mine]", "[also]", "[old]", "[theirs]"}
  BY HeadersOf
<1>2. \A key \in Keys : HeaderOf(key) \in DOMAIN KeyOf
  BY <1>1, Zenon
<1>3. \A k, l \in Keys : HeaderOf(k) = HeaderOf(l) => k = l
  BY <1>1, Zenon
<1>4. QED
  BY <1>2, <1>3

\* The fields of a new record.
LEMMA RecordFields ==
  /\ DOMAIN FieldOf = {"enabled", "disabled", "hash", "old hash", "content"}
  /\ FieldOf["enabled"].name = "enabled" /\ FieldOf["enabled"].value = "on"
  /\ FieldOf["disabled"].name = "enabled" /\ FieldOf["disabled"].value = "off"
  /\ FieldOf["hash"].name = "trusted_hash" /\ FieldOf["hash"].value = "current"
  /\ FieldOf["old hash"].name = "trusted_hash"
  /\ FieldOf["content"].name = "trusted_content_hash" /\ FieldOf["content"].value = "current"
<1>1. DOMAIN FieldOf = {"enabled", "disabled", "hash", "old hash", "content"}
  BY Zenon DEF FieldOf
<1>2. \A f, n, v : f = Field(n, v) => f.name = n /\ f.value = v
  BY DEF Field
<1>3. FieldOf["enabled"].name = "enabled" /\ FieldOf["enabled"].value = "on"
  <2>1. FieldOf["enabled"] = Field("enabled", "on")
    BY Zenon DEF FieldOf
  <2>2. QED
    BY <1>2, <2>1, Zenon
<1>4. FieldOf["disabled"].name = "enabled" /\ FieldOf["disabled"].value = "off"
  <2>1. FieldOf["disabled"] = Field("enabled", "off")
    BY Zenon DEF FieldOf
  <2>2. QED
    BY <1>2, <2>1, Zenon
<1>5. FieldOf["hash"].name = "trusted_hash" /\ FieldOf["hash"].value = "current"
  <2>1. FieldOf["hash"] = Field("trusted_hash", "current")
    BY Zenon DEF FieldOf
  <2>2. QED
    BY <1>2, <2>1, Zenon
<1>6. FieldOf["old hash"].name = "trusted_hash"
  <2>1. FieldOf["old hash"] = Field("trusted_hash", "stale")
    BY Zenon DEF FieldOf
  <2>2. QED
    BY <1>2, <2>1, Zenon
<1>7. FieldOf["content"].name = "trusted_content_hash" /\ FieldOf["content"].value = "current"
  <2>1. FieldOf["content"] = Field("trusted_content_hash", "current")
    BY Zenon DEF FieldOf
  <2>2. QED
    BY <1>2, <2>1, Zenon
<1>8. QED
  BY <1>1, <1>3, <1>4, <1>5, <1>6, <1>7, Zenon

\* A hook is switched on or off, or nobody chose.
LEMMA ChosenValues ==
  ASSUME NEW S, NEW t \in Seq(S), NEW key
  PROVE  Value(t, key, "enabled") \in {"on", "off", None}
<1> DEFINE P == {i \in DOMAIN t : /\ Heading(t, i) = HeaderOf(key)
                                  /\ t[i] \in DOMAIN FieldOf /\ FieldOf[t[i]].name = "enabled"}
<1>1. Value(t, key, "enabled") = IF P = {} THEN None ELSE FieldOf[t[Max(P)]].value
  BY Zenon DEF Value
<1>2. P \in SUBSET (1..Len(t)) /\ Len(t) \in Nat
  <2>1. DOMAIN t = 1..Len(t) /\ Len(t) \in Nat
    OBVIOUS
  <2>2. QED
    BY <2>1, Zenon
<1>3. P # {} => Max(P) \in P
  <2> HIDE DEF P
  <2>1. QED
    BY <1>2, MaxIsGreatest
<1>4. ASSUME P # {} PROVE Value(t, key, "enabled") \in {"on", "off"}
  <2>1. t[Max(P)] \in DOMAIN FieldOf /\ FieldOf[t[Max(P)]].name = "enabled"
    BY <1>3, <1>4, Zenon
  <2>2. t[Max(P)] = "enabled" \/ t[Max(P)] = "disabled"
    BY <2>1, RecordFields, Zenon
  <2>3. Value(t, key, "enabled") = FieldOf[t[Max(P)]].value
    BY <1>1, <1>4, Zenon
  <2>4. QED
    BY <2>2, <2>3, RecordFields, Zenon
<1> HIDE DEF P
<1>5. CASE P = {}
  BY <1>1, <1>5, Zenon
<1>6. CASE P # {}
  BY <1>4, <1>6, Zenon
<1>7. QED
  BY <1>5, <1>6

\* Lines put after a text, one by one.
LEMMA ConcatTo ==
  ASSUME NEW S, NEW b \in Seq(S), NEW w \in Seq(S), NEW v \in Seq(S)
  PROVE  b \o (w \o v) = (b \o w) \o v
BY ConcatAssociative, SMTT(60)

LEMMA ThreeAdded ==
  ASSUME NEW S, NEW b \in Seq(S), NEW w \in S, NEW y \in S, NEW z \in S
  PROVE  b \o (<<w>> \o <<>> \o <<y, z>>) = Append(Append(Append(b, w), y), z)
<1> DEFINE W == <<w>>
           Y == <<y>>
           Z == <<z>>
<1>0. <<y, z>> = Y \o Z
  <2>1. <<y, z>> = Append(<<y>>, z) /\ <<y>> \in Seq(S)
    OBVIOUS
  <2>2. Append(<<y>>, z) = <<y>> \o <<z>>
    BY <2>1, AppendIsConcat
  <2>3. QED
    BY <2>1, <2>2
<1>1. W \in Seq(S) /\ Y \in Seq(S) /\ Z \in Seq(S) /\ W \o <<>> = W
  BY ConcatEmptySeq
<1>2. /\ Append(b, w) = b \o W /\ Append(b, w) \in Seq(S)
      /\ \A c \in Seq(S) : Append(c, y) = c \o Y /\ Append(c, y) \in Seq(S)
      /\ \A c \in Seq(S) : Append(c, z) = c \o Z
  BY AppendIsConcat, AppendProperties
<1> HIDE DEF W, Y, Z
<1>3. /\ b \o (W \o (Y \o Z)) = (b \o W) \o (Y \o Z)
      /\ (b \o W) \o (Y \o Z) = ((b \o W) \o Y) \o Z
  <2>1. Y \o Z \in Seq(S) /\ b \o W \in Seq(S)
    BY <1>1, ConcatProperties
  <2>2. b \o (W \o (Y \o Z)) = (b \o W) \o (Y \o Z)
    <3> DEFINE V == Y \o Z
    <3>1. V \in Seq(S)
      BY <2>1
    <3> HIDE DEF V
    <3>2. b \o (W \o V) = (b \o W) \o V
      BY <1>1, <3>1, ConcatTo, SMTT(60)
    <3>3. QED
      BY <3>2 DEF V
  <2>3. (b \o W) \o (Y \o Z) = ((b \o W) \o Y) \o Z
    BY <1>1, <2>1, ConcatAssociative, SMTT(60)
  <2>4. QED
    BY <2>2, <2>3
<1>4. Append(Append(Append(b, w), y), z) = ((b \o W) \o Y) \o Z
  BY <1>2, Zenon
<1>5. QED
  BY <1>0, <1>1, <1>3, <1>4, Zenon DEF W

LEMMA FourAdded ==
  ASSUME NEW S, NEW b \in Seq(S), NEW w \in S, NEW x \in S, NEW y \in S, NEW z \in S
  PROVE  b \o (<<w>> \o <<x>> \o <<y, z>>) = Append(Append(Append(Append(b, w), x), y), z)
<1> DEFINE W == <<w>>
           X == <<x>>
           V == <<y, z>>
<1>1. W \in Seq(S) /\ X \in Seq(S) /\ V \in Seq(S) /\ X \o <<>> = X
  OBVIOUS
<1>2. Append(b, w) = b \o W /\ Append(b, w) \in Seq(S)
  BY AppendIsConcat, AppendProperties
<1>3. Append(b, w) \o (X \o <<>> \o V) = Append(Append(Append(Append(b, w), x), y), z)
  BY <1>2, ThreeAdded
<1> HIDE DEF W, X, V
<1>4. /\ b \o ((W \o X) \o V) = (b \o W) \o (X \o V)
  <2>1. (W \o X) \o V = W \o (X \o V) /\ X \o V \in Seq(S)
    BY <1>1, ConcatAssociative, ConcatProperties, SMTT(60)
  <2>2. b \o (W \o (X \o V)) = (b \o W) \o (X \o V)
    <3> DEFINE U == X \o V
    <3>1. U \in Seq(S)
      BY <2>1
    <3> HIDE DEF U
    <3>2. b \o (W \o U) = (b \o W) \o U
      BY <1>1, <3>1, ConcatTo, SMTT(60)
    <3>3. QED
      BY <3>2 DEF U
  <2>3. QED
    BY <2>1, <2>2, Zenon
<1>5. QED
  BY <1>1, <1>2, <1>3, <1>4, Zenon DEF W, X, V

\* The lines of a new record after the blank.
Record(lines, key) ==
    <<HeaderOf(key)>> \o EnabledField(Value(lines, key, "enabled")) \o <<"hash", "content">>

\* The record of a hook is added: the hook is trusted again, and as it was.
LEMMA RecordBack ==
  ASSUME NEW S, NEW b \in Seq(S), NEW t \in Seq(S), NEW H, NEW A, NEW key \in Keys,
         Headers \subseteq S, DOMAIN FieldOf \subseteq S,
         HeaderOf(key) \in H, HeaderOf(key) \notin A, Kept(b, t, H, A), Restored(b, t, A)
  PROVE  LET c == b \o Record(t, key)
         IN  /\ c \in Seq(S) /\ Kept(c, t, H, A \union {HeaderOf(key)})
             /\ Restored(c, t, A \union {HeaderOf(key)})
<1> DEFINE head == HeaderOf(key)
           B == A \union {head}
           chosen == Value(t, key, "enabled")
           added(s) == /\ s \in Seq(S) /\ Kept(s, t, H, B) /\ Restored(s, t, A) /\ Cur(s) = head
           first == Append(b, head)
           done(c) == c \in Seq(S) /\ Kept(c, t, H, B) /\ Restored(c, t, B)
<1>1. head \in DOMAIN KeyOf /\ head \in S /\ head \in H /\ head \notin A
  BY KeyHeaders, LineKinds, Zenon
<1>2. \A k \in Keys : HeaderOf(k) = head => k = key
  BY KeyHeaders, Zenon
<1>3. /\ "enabled" \in DOMAIN FieldOf /\ "disabled" \in DOMAIN FieldOf
      /\ "hash" \in DOMAIN FieldOf /\ "content" \in DOMAIN FieldOf
  BY RecordFields, Zenon
<1> HIDE DEF head
<1>4. added(first) /\ Value(first, key, "enabled") = None
  <2>1. /\ Kept(first, t, H, B) /\ Restored(first, t, A) /\ first \in Seq(S) /\ Cur(first) = head
        /\ \A k, name : HeaderOf(k) = head => Value(first, k, name) = None
    BY <1>1, HeaderBack
  <2>2. QED
    BY <2>1, Zenon DEF head
<1> HIDE DEF first
<1>5. ASSUME NEW s, added(s), NEW e \in DOMAIN FieldOf
      PROVE  /\ added(Append(s, e))
             /\ \A name : Value(Append(s, e), key, name) =
                    IF FieldOf[e].name = name THEN FieldOf[e].value ELSE Value(s, key, name)
  <2>1. /\ e \in S /\ s \in Seq(S) /\ Kept(s, t, H, B) /\ Restored(s, t, A)
        /\ Cur(s) = head
    BY <1>5, Zenon
  <2>9. head \in DOMAIN KeyOf /\ head \in H /\ head \notin A
    BY <1>1
  <2> HIDE DEF B, added
  <2> HIDE DEF chosen, done
  <2>2. Kept(Append(s, e), t, H, B) /\ Restored(Append(s, e), t, A)
    BY <2>1, <2>9, FieldBack
  <2>3. Append(s, e) \in Seq(S) /\ Cur(Append(s, e)) = head
    <3>1. e \notin Headers
      BY LineKinds, Zenon
    <3>2. QED
      BY <2>1, <3>1, HeadingAppend, AppendProperties
  <2>4. Sees(Append(s, e), s, head, FieldOf[e])
    BY <2>1, <2>9, FieldBack
  <2>5. QED
    BY <2>2, <2>3, <2>4, Zenon DEF head, B, added, Sees
<1> HIDE DEF added
<1>6. ASSUME NEW s, added(s), Value(s, key, "enabled") = chosen
      PROVE  done(Append(Append(s, "hash"), "content"))
  <2> DEFINE h == Append(s, "hash")
             c == Append(h, "content")
  <2>1. added(h) /\ \A name : Value(h, key, name) =
                IF FieldOf["hash"].name = name THEN FieldOf["hash"].value ELSE Value(s, key, name)
    BY <1>3, <1>5, <1>6, Zenon
  <2> HIDE DEF h
  <2>2. added(c) /\ \A name : Value(c, key, name) =
                IF FieldOf["content"].name = name THEN FieldOf["content"].value ELSE Value(h, key, name)
    BY <1>3, <1>5, <2>1, Zenon
  <2> HIDE DEF c
  <2>3. Value(h, key, "trusted_hash") = "current" /\ Value(h, key, "enabled") = chosen
    <3>1. FieldOf["hash"].name = "trusted_hash" /\ FieldOf["hash"].value = "current"
      BY RecordFields, Zenon
    <3>2. FieldOf["hash"].name # "enabled"
      BY <3>1, Zenon
    <3>3. QED
      BY <1>6, <2>1, <3>1, <3>2, Zenon
  <2>4. /\ Value(c, key, "trusted_content_hash") = "current"
        /\ Value(c, key, "trusted_hash") = "current" /\ Value(c, key, "enabled") = chosen
    <3>1. FieldOf["content"].name = "trusted_content_hash" /\ FieldOf["content"].value = "current"
      BY RecordFields, Zenon
    <3>2. FieldOf["content"].name # "enabled" /\ FieldOf["content"].name # "trusted_hash"
      BY <3>1, Zenon
    <3>3. QED
      BY <2>2, <2>3, <3>1, <3>2, Zenon
  <2>5. Trusted(c, key) /\ Value(c, key, "enabled") = Value(t, key, "enabled")
    BY <2>4, Zenon DEF Trusted
  <2>6. c \in Seq(S) /\ Kept(c, t, H, B) /\ Restored(c, t, A)
    BY <2>2, Zenon DEF added
  <2>7. Restored(c, t, B)
    <3>1. ASSUME NEW k \in Keys, HeaderOf(k) \in B
          PROVE  Trusted(c, k) /\ Value(c, k, "enabled") = Value(t, k, "enabled")
      <4>1. CASE HeaderOf(k) \in A
        BY <2>6, <4>1, Zenon DEF Restored
      <4>2. CASE HeaderOf(k) = head
        BY <1>2, <2>5, <4>2, Zenon
      <4>3. QED
        BY <3>1, <4>1, <4>2
    <3>2. QED
      BY <3>1, Zenon DEF Restored
  <2>8. QED
    BY <2>6, <2>7, Zenon DEF c, h
<1>7. done(b \o Record(t, key))
  <2>0. "hash" \in S /\ "content" \in S /\ "enabled" \in S /\ "disabled" \in S
    BY <1>3, Zenon
  <2> DEFINE last == "hash"
             end == "content"
  <2>9. last \in S /\ end \in S
    BY <2>0
  <2> HIDE DEF last, end
  <2>10. /\ b \o (<<head>> \o <<>> \o <<last, end>>) = Append(Append(first, last), end)
         /\ \A f \in S : b \o (<<head>> \o <<f>> \o <<last, end>>) =
                            Append(Append(Append(first, f), last), end)
    BY <1>1, <2>9, ThreeAdded, FourAdded, SMTT(60) DEF first
  <2>1. ASSUME NEW f \in DOMAIN FieldOf, FieldOf[f].name = "enabled", FieldOf[f].value = chosen,
               EnabledField(chosen) = <<f>>
        PROVE  done(b \o Record(t, key))
    <3>1. added(Append(first, f)) /\ Value(Append(first, f), key, "enabled") = chosen
      BY <1>4, <1>5, <2>1, ZenonT(60)
    <3>2. done(Append(Append(Append(first, f), "hash"), "content"))
      BY <1>6, <3>1, Zenon
    <3>3. b \o (<<head>> \o <<f>> \o <<"hash", "content">>) =
            Append(Append(Append(first, f), "hash"), "content")
      <4>1. f \in S
        BY Zenon
      <4>2. QED
        BY <2>10, <4>1, Zenon DEF last, end
    <3>4. Record(t, key) = <<head>> \o <<f>> \o <<"hash", "content">>
      BY <2>1, Zenon DEF Record, head
    <3>5. QED
      BY <3>2, <3>3, <3>4, Zenon
  <2>2. CASE chosen = "on"
    <3>1. EnabledField(chosen) = <<"enabled">>
      BY <2>2, Zenon DEF EnabledField
    <3>2. FieldOf["enabled"].name = "enabled" /\ FieldOf["enabled"].value = chosen
      BY <2>2, RecordFields, Zenon
    <3>3. QED
      BY <1>3, <2>1, <3>1, <3>2, Zenon
  <2>3. CASE chosen = "off"
    <3>1. EnabledField(chosen) = <<"disabled">>
      BY <2>3, Zenon DEF EnabledField
    <3>2. FieldOf["disabled"].name = "enabled" /\ FieldOf["disabled"].value = chosen
      BY <2>3, RecordFields, Zenon
    <3>3. QED
      BY <1>3, <2>1, <3>1, <3>2, Zenon
  <2>4. CASE chosen = None
    <3>1. EnabledField(chosen) = <<>>
      BY <2>4, Zenon DEF EnabledField, None
    <3>2. done(Append(Append(first, "hash"), "content"))
      BY <1>4, <1>6, <2>4, Zenon
    <3>3. b \o (<<head>> \o <<>> \o <<"hash", "content">>) =
            Append(Append(first, "hash"), "content")
      BY <2>10, Zenon DEF last, end
    <3>4. Record(t, key) = <<head>> \o <<>> \o <<"hash", "content">>
      BY <3>1, Zenon DEF Record, head
    <3>5. QED
      BY <3>2, <3>3, <3>4, Zenon
  <2>5. chosen \in {"on", "off", None}
    BY ChosenValues
  <2>6. QED
    BY <2>2, <2>3, <2>4, <2>5, Zenon
<1>8. QED
  BY <1>7, Zenon DEF head

\* The hooks _with_trust_records writes records for, what it drops for that,
\* and what it leaves.
Stale(lines) == Picked(Hooks, {k \in DOMAIN Hooks : ~Trusted(lines, Hooks[k])})
Dropped(lines) == {HeaderOf(key) : key \in ToSet(Stale(lines)) \union Obsolete}
Remainder(lines) == WithoutTrailing(Without(lines, Dropped(lines)))
NewRecords(lines) ==
    FlattenSeq([k \in DOMAIN Stale(lines) |-> NewRecord(lines, Stale(lines)[k])])

LEMMA RewriteIs ==
  ASSUME NEW lines
  PROVE  WithTrustRecords(lines) =
            IF Stale(lines) = <<>> THEN lines
            ELSE Remainder(lines) \o (IF Remainder(lines) = <<>> THEN NewRecords(lines) ELSE Tail(NewRecords(lines)))
<1>1. Remainder(lines) = WithoutTrailing(Picked(lines, {i \in DOMAIN lines :
                        ~Superseded(lines, i, ToSet(Stale(lines)) \union Obsolete)}))
  BY Zenon DEF Remainder, Without, Dropped, Superseded
<1>2. QED
  BY <1>1, Zenon DEF WithTrustRecords, Stale, NewRecords

LEMMA TwoElements == ASSUME NEW x, NEW y PROVE <<x, y>> = Append(<<x>>, y)
OBVIOUS

\* Picked from two.
LEMMA PickedOfTwo == \A x, y, P :
    Picked(<<x, y>>, P) =
        IF 1 \in P THEN IF 2 \in P THEN <<x, y>> ELSE <<x>>
        ELSE IF 2 \in P THEN <<y>> ELSE <<>>
<1>1. ASSUME NEW x, NEW y, NEW P
      PROVE  Picked(<<x, y>>, P) =
                IF 1 \in P THEN IF 2 \in P THEN <<x, y>> ELSE <<x>>
                ELSE IF 2 \in P THEN <<y>> ELSE <<>>
  <2> DEFINE S == {x, y}
             a == Append(<<>>, x)
             b == Append(a, y)
  <2>1. <<>> \in Seq(S) /\ x \in S /\ y \in S /\ a \in Seq(S) /\ Len(<<>>) = 0 /\ Len(a) = 1
    OBVIOUS
  <2>0. a = <<x>> /\ Append(<<>>, y) = <<y>>
    OBVIOUS
  <2>2. b = <<x, y>>
    <3>1. Append(<<x>>, y) = <<x, y>>
      BY TwoElements
    <3>2. QED
      BY <2>0, <3>1, Zenon
  <2>3. Picked(<<>>, P) = <<>>
    BY PickedEmpty
  <2> HIDE DEF S, a
  <2>4. Picked(Append(<<>>, x), P) = IF 0 + 1 \in P THEN Append(<<>>, x) ELSE <<>>
    <3>1. \A s \in Seq(S), e \in S :
            Picked(Append(s, e), P) =
                IF Len(s) + 1 \in P THEN Append(Picked(s, P), e) ELSE Picked(s, P)
      BY PickedAppend
    <3>2. QED
      BY <2>1, <2>3, <3>1
  <2>5. Picked(b, P) = IF 1 + 1 \in P THEN Append(Picked(a, P), y) ELSE Picked(a, P)
    <3>1. \A s \in Seq(S), e \in S :
            Picked(Append(s, e), P) =
                IF Len(s) + 1 \in P THEN Append(Picked(s, P), e) ELSE Picked(s, P)
      BY PickedAppend
    <3>2. QED
      BY <2>1, <3>1
  <2>6. Picked(a, P) = IF 1 \in P THEN a ELSE <<>>
    BY <2>4 DEF a
  <2>7. Picked(b, P) = IF 2 \in P THEN Append(Picked(a, P), y) ELSE Picked(a, P)
    BY <2>5
  <2> HIDE DEF b
  <2>8. CASE 1 \in P /\ 2 \in P
    BY <2>0, <2>2, <2>6, <2>7, <2>8 DEF b
  <2>9. CASE 1 \in P /\ 2 \notin P
    BY <2>0, <2>2, <2>6, <2>7, <2>9
  <2>10. CASE 1 \notin P /\ 2 \in P
    BY <2>0, <2>2, <2>6, <2>7, <2>10
  <2>11. CASE 1 \notin P /\ 2 \notin P
    BY <2>0, <2>2, <2>6, <2>7, <2>11
  <2>12. QED
    BY <2>8, <2>9, <2>10, <2>11
<1>2. QED
  BY <1>1

\* It is none, one or two that are stale: those that are not trusted.
LEMMA StaleHooks ==
  ASSUME NEW lines
  PROVE  /\ \/ Stale(lines) = <<>> /\ ToSet(Stale(lines)) = {}
            \/ \E k \in Keys : /\ Stale(lines) = <<k>> /\ ToSet(Stale(lines)) = {k}
            \/ \E k, l \in Keys : /\ k # l /\ Stale(lines) = <<k, l>>
                                  /\ ToSet(Stale(lines)) = {k, l}
         /\ ToSet(Stale(lines)) = {key \in ToSet(Hooks) : ~Trusted(lines, key)}
<1> DEFINE m == "mine"
           a == "also"
           P == {k \in DOMAIN Hooks : ~Trusted(lines, Hooks[k])}
<1>1. /\ Hooks = <<m, a>> /\ m # a /\ m \in Keys /\ a \in Keys
  BY HeadersOf, Zenon DEF Hooks
<1>2. ToSet(<<>>) = {} /\ (\A x : ToSet(<<x>>) = {x}) /\ (\A x, y : ToSet(<<x, y>>) = {x, y})
  BY DEF ToSet
<1>3. ToSet(Hooks) = {m, a}
  BY <1>1, <1>2, Zenon
<1> HIDE DEF m, a
<1>4. /\ 1 \in P <=> ~Trusted(lines, m)
      /\ 2 \in P <=> ~Trusted(lines, a)
  <2>1. DOMAIN <<m, a>> = {1, 2} /\ <<m, a>>[1] = m /\ <<m, a>>[2] = a
    OBVIOUS
  <2>2. DOMAIN Hooks = {1, 2} /\ Hooks[1] = m /\ Hooks[2] = a
    BY <1>1, <2>1, Zenon
  <2>3. QED
    BY <2>2, Zenon
<1> HIDE DEF P
<1>5. Stale(lines) = IF 1 \in P THEN IF 2 \in P THEN <<m, a>> ELSE <<m>>
                     ELSE IF 2 \in P THEN <<a>> ELSE <<>>
  <2>1. Stale(lines) = Picked(<<m, a>>, P)
    BY <1>1, Zenon DEF Stale, P
  <2>2. QED
    BY <2>1, PickedOfTwo
<1>6. CASE Trusted(lines, m) /\ Trusted(lines, a)
  <2>1. Stale(lines) = <<>>
    BY <1>4, <1>5, <1>6, Zenon
  <2>2. ToSet(Stale(lines)) = {}
    BY <2>1, <1>2, Zenon
  <2>3. {key \in ToSet(Hooks) : ~Trusted(lines, key)} = {}
    BY <1>3, <1>6, Zenon
  <2>4. QED
    BY <2>1, <2>2, <2>3, Zenon
<1>7. CASE Trusted(lines, m) /\ ~Trusted(lines, a)
  <2>1. Stale(lines) = <<a>>
    BY <1>4, <1>5, <1>7, Zenon
  <2>2. ToSet(Stale(lines)) = {a}
    BY <2>1, <1>2, Zenon
  <2>3. {key \in ToSet(Hooks) : ~Trusted(lines, key)} = {a}
    BY <1>3, <1>7, Zenon
  <2>4. QED
    BY <1>1, <2>1, <2>2, <2>3, Zenon
<1>8. CASE ~Trusted(lines, m) /\ Trusted(lines, a)
  <2>1. Stale(lines) = <<m>>
    BY <1>4, <1>5, <1>8, Zenon
  <2>2. ToSet(Stale(lines)) = {m}
    BY <2>1, <1>2, Zenon
  <2>3. {key \in ToSet(Hooks) : ~Trusted(lines, key)} = {m}
    BY <1>3, <1>8, Zenon
  <2>4. QED
    BY <1>1, <2>1, <2>2, <2>3, Zenon
<1>9. CASE ~Trusted(lines, m) /\ ~Trusted(lines, a)
  <2>1. Stale(lines) = <<m, a>>
    BY <1>4, <1>5, <1>9, Zenon
  <2>2. ToSet(Stale(lines)) = {m, a}
    BY <2>1, <1>2, Zenon
  <2>3. {key \in ToSet(Hooks) : ~Trusted(lines, key)} = {m, a}
    BY <1>3, <1>9, Zenon
  <2>4. QED
    BY <1>1, <2>1, <2>2, <2>3, Zenon
<1>10. QED
  BY <1>6, <1>7, <1>8, <1>9

\* A text goes on after its last line, or after a blank if it has none.
LEMMA GoesOn ==
  ASSUME NEW S, NEW v \in Seq(S), NEW e \in S, NEW q \in Seq(S)
  PROVE  v \o (IF v = <<>> THEN <<e>> \o q ELSE Tail(<<e>> \o q)) =
            (IF v = <<>> THEN Append(<<>>, e) ELSE v) \o q
<1> DEFINE E == <<e>>
<1>1. E \in Seq(S) /\ E # <<>> /\ Tail(E) = <<>> /\ Append(<<>>, e) = E
  OBVIOUS
<1> HIDE DEF E
<1>2. Tail(E \o q) = Tail(E) \o q
  BY <1>1, TailConcat
<1>3. <<>> \o q = q
  BY ConcatEmptySeq
<1>4. Tail(E \o q) = q
  BY <1>1, <1>2, <1>3, Zenon
<1>5. E \o q \in Seq(S) /\ <<>> \o (E \o q) = E \o q
  BY <1>1, ConcatProperties, ConcatEmptySeq
<1>6. CASE v = <<>>
  BY <1>1, <1>5, <1>6, Zenon DEF E
<1>7. CASE v # <<>>
  BY <1>4, <1>7, Zenon DEF E
<1>8. QED
  BY <1>6, <1>7

\* A new record is a blank and the record.
LEMMA NewRecordIs ==
  ASSUME NEW S, NEW t \in Seq(S), NEW key, HeaderOf(key) \in S, DOMAIN FieldOf \subseteq S
  PROVE  /\ Record(t, key) \in Seq(S)
         /\ NewRecord(t, key) = <<"">> \o Record(t, key)
<1> DEFINE h == HeaderOf(key)
           E == EnabledField(Value(t, key, "enabled"))
           T == <<"hash", "content">>
           last == "hash"
           end == "content"
           on == "enabled"
           off == "disabled"
           blank == ""
           R == S \union {blank}
<1>1. last \in S /\ end \in S /\ on \in S /\ off \in S
  BY RecordFields, Zenon
<1>2. E = <<on>> \/ E = <<off>> \/ E = <<>>
  <2>1. CASE Value(t, key, "enabled") = "on"
    BY <2>1, Zenon DEF EnabledField
  <2>2. CASE Value(t, key, "enabled") = "off"
    BY <2>2, Zenon DEF EnabledField
  <2>3. CASE Value(t, key, "enabled") = None
    BY <2>3, Zenon DEF EnabledField, None
  <2>4. Value(t, key, "enabled") \in {"on", "off", None}
    BY ChosenValues
  <2>5. QED
    BY <2>1, <2>2, <2>3, <2>4, Zenon
<1>3. Record(t, key) = <<h>> \o E \o T
  BY Zenon DEF Record
<1>4. NewRecord(t, key) = <<blank, h>> \o E \o T
  BY Zenon DEF NewRecord
<1>5. T = <<last, end>>
  OBVIOUS
<1>0. h \in S
  OBVIOUS
<1> HIDE DEF last, end, on, off, blank, h, E, T
<1>6. E \in Seq(S) /\ T \in Seq(S) /\ <<h>> \in Seq(S)
  <2>1. <<h>> \in Seq(S) /\ <<on>> \in Seq(S) /\ <<off>> \in Seq(S) /\ <<>> \in Seq(S)
    BY <1>0, <1>1
  <2>2. <<last, end>> \in Seq(S)
    BY <1>1
  <2>3. QED
    BY <1>2, <1>5, <2>1, <2>2, Zenon
<1>7. <<h>> \o E \o T \in Seq(S)
  BY <1>6, ConcatProperties
<1>8. <<blank, h>> \o E \o T = <<blank>> \o (<<h>> \o E \o T)
  <2> DEFINE B == <<blank>>
             K == <<h>>
  <2>1. <<blank, h>> = B \o K
    OBVIOUS
  <2>2. B \in Seq(R) /\ K \in Seq(R) /\ E \in Seq(R) /\ T \in Seq(R)
    <3>1. \A s : s \in Seq(S) => s \in Seq(R)
      BY SeqMonotonic
    <3>2. QED
      BY <1>6, <3>1
  <2> HIDE DEF B, K, R
  <2>3. B \o (K \o E) = (B \o K) \o E /\ K \o E \in Seq(R)
    BY <2>2, ConcatTo, ConcatProperties, SMTT(60)
  <2>4. B \o ((K \o E) \o T) = (B \o (K \o E)) \o T
    BY <2>2, <2>3, ConcatTo, SMTT(60)
  <2>5. QED
    BY <2>1, <2>3, <2>4, Zenon DEF B, K
<1>9. QED
  BY <1>3, <1>4, <1>7, <1>8, Zenon DEF blank

\* What the records are put after.
BeforeRecords(lines) == IF Remainder(lines) = <<>> THEN Append(<<>>, "") ELSE Remainder(lines)

LEMMA DroppedHeaders ==
  ASSUME NEW lines
  PROVE  /\ Dropped(lines) \subseteq DOMAIN KeyOf /\ None \notin Dropped(lines)
         /\ \A key \in ToSet(Stale(lines)) : key \in Keys /\ HeaderOf(key) \in Dropped(lines)
<1>1. Obsolete \subseteq Keys
  BY HeadersOf, Zenon DEF Obsolete
<1>2. ToSet(Stale(lines)) \subseteq Keys
  <2>1. ToSet(Stale(lines)) \subseteq ToSet(Hooks)
    BY StaleHooks, Zenon
  <2>2. ToSet(Hooks) \subseteq Keys
    <3>1. \A x, y : ToSet(<<x, y>>) = {x, y}
      BY DEF ToSet
    <3>2. ToSet(Hooks) = {"mine", "also"}
      BY <3>1, Zenon DEF Hooks
    <3>3. QED
      BY <3>2, HeadersOf, Zenon
  <2>3. QED
    BY <2>1, <2>2
<1>3. Dropped(lines) \subseteq DOMAIN KeyOf
  BY <1>1, <1>2, KeyHeaders, Zenon DEF Dropped
<1>4. None \notin Dropped(lines)
  BY <1>3, LineKinds, Zenon
<1>5. \A key \in ToSet(Stale(lines)) : key \in Keys /\ HeaderOf(key) \in Dropped(lines)
  BY <1>2, Zenon DEF Dropped
<1>6. QED
  BY <1>3, <1>4, <1>5

LEMMA BaseKept ==
  ASSUME NEW S, NEW lines \in Seq(S), Silent \subseteq S
  PROVE  /\ BeforeRecords(lines) \in Seq(S) /\ Kept(BeforeRecords(lines), lines, Dropped(lines), {})
         /\ Remainder(lines) \in Seq(S)
<1> DEFINE H == Dropped(lines)
           w == Without(lines, H)
           v == Remainder(lines)
<1>1. None \notin H
  BY DroppedHeaders
<1> HIDE DEF H
<1>2. w \in Seq(S) /\ Kept(w, lines, H, {})
  <2>1. w \in Seq(S)
    BY PickedType DEF Without
  <2>2. QED
    BY <1>1, <2>1, WithoutKept
<1> HIDE DEF w
<1>3. v = WithoutTrailing(w)
  BY Zenon DEF Remainder, w, H
<1>4. WithoutTrailing(w) \in Seq(S) /\ Kept(WithoutTrailing(w), w, {}, {})
  <2>1. PICK e : e \in S
    <3>1. "" \in S
      BY LineKinds, Zenon
    <3>2. QED
      BY <3>1, Zenon
  <2>2. QED
    BY <1>2, <2>1, TrailingAppend, TrailingKept
<1>5. v \in Seq(S) /\ Kept(v, lines, H, {})
  <2>1. Kept(WithoutTrailing(w), lines, H, {})
    BY <1>2, <1>4, KeptKept
  <2>2. QED
    BY <1>3, <1>4, <2>1
<1> HIDE DEF v
<1>6. CASE v = <<>>
  <2> DEFINE e == ""
             c == Append(v, e)
  <2>1. e \in S /\ e \in Silent
    BY LineKinds, Zenon
  <2>2. BeforeRecords(lines) = c
    BY <1>6, Zenon DEF BeforeRecords, v
  <2> HIDE DEF e
  <2>3. Restored(v, lines, {})
    BY Zenon DEF Restored
  <2>4. c \in Seq(S) /\ Kept(c, lines, H, {})
    BY <1>5, <2>1, <2>3, SilentBack, AppendProperties
  <2>5. QED
    BY <1>5, <2>2, <2>4, Zenon DEF H, v
<1>7. CASE v # <<>>
  BY <1>5, <1>7, Zenon DEF BeforeRecords, H, v
<1>8. QED
  BY <1>6, <1>7

\* What is written is the records of the stale hooks, after a blank each.
LEMMA NewRecordsAre ==
  ASSUME NEW S, NEW lines \in Seq(S), Headers \subseteq S, DOMAIN FieldOf \subseteq S, Silent \subseteq S
  PROVE  /\ \A k \in Keys : Stale(lines) = <<k>> => NewRecords(lines) = <<"">> \o Record(lines, k)
         /\ \A k, l \in Keys : Stale(lines) = <<k, l>> =>
                NewRecords(lines) = <<"">> \o ((Record(lines, k) \o <<"">>) \o Record(lines, l))
<1> DEFINE e == ""
           new(key) == NewRecord(lines, key)
           rec(key) == Record(lines, key)
<1>1. e \in S
  BY LineKinds, Zenon
<1>2. ASSUME NEW key \in Keys
      PROVE  rec(key) \in Seq(S) /\ new(key) = <<e>> \o rec(key)
  <2>1. HeaderOf(key) \in S
    BY KeyHeaders, LineKinds, Zenon
  <2>2. QED
    BY <2>1, NewRecordIs
<1>3. \A s : Stale(lines) = s => NewRecords(lines) = FlattenSeq([k \in DOMAIN s |-> new(s[k])])
  BY Zenon DEF NewRecords
<1> HIDE DEF e, new, rec
<1>4. ASSUME NEW key \in Keys
      PROVE  new(key) \in Seq(S)
  <2>1. <<e>> \in Seq(S)
    BY <1>1
  <2>2. QED
    BY <1>2, <2>1, ConcatProperties
<1>5. ASSUME NEW k \in Keys, Stale(lines) = <<k>>
      PROVE  NewRecords(lines) = <<e>> \o rec(k)
  <2>1. [i \in DOMAIN <<k>> |-> new(<<k>>[i])] = Append(<<>>, new(k))
    OBVIOUS
  <2>2. FlattenSeq(Append(<<>>, new(k))) = <<>> \o new(k)
    <3>1. <<>> \in Seq(Seq(S))
      OBVIOUS
    <3>2. QED
      BY <3>1, <1>4, FlattenAppend, FlattenEmpty
  <2>3. <<>> \o new(k) = new(k)
    BY <1>4, ConcatEmptySeq
  <2>4. QED
    BY <1>2, <1>3, <1>5, <2>1, <2>2, <2>3, Zenon
<1>6. ASSUME NEW k \in Keys, NEW l \in Keys, Stale(lines) = <<k, l>>
      PROVE  NewRecords(lines) = <<e>> \o ((rec(k) \o <<e>>) \o rec(l))
  <2>1. [i \in DOMAIN <<k, l>> |-> new(<<k, l>>[i])] = Append(Append(<<>>, new(k)), new(l))
    OBVIOUS
  <2>2. FlattenSeq(Append(Append(<<>>, new(k)), new(l))) = new(k) \o new(l)
    <3>1. <<>> \in Seq(Seq(S)) /\ Append(<<>>, new(k)) \in Seq(Seq(S))
      BY <1>4
    <3>2. FlattenSeq(Append(<<>>, new(k))) = <<>> \o new(k)
      BY <3>1, <1>4, FlattenAppend, FlattenEmpty
    <3>3. <<>> \o new(k) = new(k)
      BY <1>4, ConcatEmptySeq
    <3>4. QED
      BY <3>1, <3>2, <3>3, <1>4, FlattenAppend
  <2> DEFINE E == <<e>>
             q == rec(k)
             r == rec(l)
  <2>3. E \in Seq(S) /\ q \in Seq(S) /\ r \in Seq(S)
    BY <1>1, <1>2
  <2> HIDE DEF E, q, r
  <2>4. (E \o q) \o (E \o r) = E \o ((q \o E) \o r)
    <3>1. E \o r \in Seq(S) /\ q \o E \in Seq(S)
      BY <2>3, ConcatProperties
    <3>2. (q \o E) \o r = q \o (E \o r)
      BY <2>3, ConcatAssociative, SMTT(60)
    <3>3. (E \o q) \o (E \o r) = E \o (q \o (E \o r))
      BY <2>3, <3>1, ConcatAssociative, SMTT(60)
    <3>4. QED
      BY <3>2, <3>3, Zenon
  <2>5. new(k) = E \o q /\ new(l) = E \o r
    BY <1>2 DEF E, q, r
  <2>6. QED
    BY <1>3, <1>6, <2>1, <2>2, <2>4, <2>5, Zenon DEF E, q, r
<1>7. QED
  BY <1>5, <1>6 DEF e, rec

\* The headers of the records that are written.
Back(lines) == {HeaderOf(key) : key \in ToSet(Stale(lines))}

\* The text that is written is the one it was, but for the records it is to
\* have: theirs are trusted now, and the obsolete ones are gone.
LEMMA Rewrites ==
  ASSUME NEW S, NEW lines \in Seq(S), Headers \subseteq S, DOMAIN FieldOf \subseteq S, Silent \subseteq S,
         Stale(lines) # <<>>
  PROVE  /\ WithTrustRecords(lines) \in Seq(S)
         /\ Kept(WithTrustRecords(lines), lines, Dropped(lines), Back(lines))
         /\ Restored(WithTrustRecords(lines), lines, Back(lines))
<1> DEFINE H == Dropped(lines)
           b == BeforeRecords(lines)
           out == WithTrustRecords(lines)
           e == ""
           done == out \in Seq(S) /\ Kept(out, lines, H, Back(lines)) /\ Restored(out, lines, Back(lines))
<1>1. e \in S /\ e \in Silent
  BY LineKinds, Zenon
<1>2. b \in Seq(S) /\ Kept(b, lines, H, {}) /\ Restored(b, lines, {})
  BY BaseKept, Zenon DEF Restored
<1>3. \A key \in ToSet(Stale(lines)) : key \in Keys /\ HeaderOf(key) \in H
  BY DroppedHeaders
<1>4. ASSUME NEW q \in Seq(S), NewRecords(lines) = <<e>> \o q PROVE out = b \o q
  <2> DEFINE v == Remainder(lines)
  <2>1. out = v \o (IF v = <<>> THEN NewRecords(lines) ELSE Tail(NewRecords(lines)))
    BY RewriteIs, Zenon
  <2>2. b = IF v = <<>> THEN Append(<<>>, e) ELSE v
    BY Zenon DEF BeforeRecords
  <2>3. v \in Seq(S)
    BY BaseKept
  <2> HIDE DEF v, out, b, e
  <2>4. v \o (IF v = <<>> THEN <<e>> \o q ELSE Tail(<<e>> \o q)) =
            (IF v = <<>> THEN Append(<<>>, e) ELSE v) \o q
    BY <1>1, <2>3, GoesOn
  <2>5. QED
    BY <1>4, <2>1, <2>2, <2>4, Zenon
<1>5. \A key \in Keys : Record(lines, key) \in Seq(S)
  <2>1. ASSUME NEW key \in Keys PROVE Record(lines, key) \in Seq(S)
    <3>1. HeaderOf(key) \in S
      BY KeyHeaders, LineKinds, Zenon
    <3>2. QED
      BY <3>1, NewRecordIs
  <2>2. QED
    BY <2>1
<1> HIDE DEF H, b
<1>6. ASSUME NEW k \in Keys, Stale(lines) = <<k>>, ToSet(Stale(lines)) = {k}
      PROVE  done
  <2> DEFINE q == Record(lines, k)
             c == b \o q
  <2>1. NewRecords(lines) = <<e>> \o q
    BY <1>6, NewRecordsAre, Zenon
  <2>2. out = c
    BY <1>4, <1>5, <2>1, Zenon
  <2>3. Back(lines) = {HeaderOf(k)} /\ HeaderOf(k) \in H
    BY <1>3, <1>6, Zenon DEF Back
  <2>4. c \in Seq(S) /\ Kept(c, lines, H, {} \union {HeaderOf(k)})
        /\ Restored(c, lines, {} \union {HeaderOf(k)})
    BY <1>2, <2>3, RecordBack
  <2>5. {} \union {HeaderOf(k)} = Back(lines)
    BY <2>3
  <2> HIDE DEF c, out
  <2>6. QED
    BY <2>2, <2>4, <2>5, Zenon
<1>7. ASSUME NEW k \in Keys, NEW l \in Keys, k # l, Stale(lines) = <<k, l>>,
             ToSet(Stale(lines)) = {k, l}
      PROVE  done
  <2> DEFINE q == Record(lines, k)
             r == Record(lines, l)
             c == b \o q
             d == Append(c, e)
             f == d \o r
             A == {HeaderOf(k)}
             B == {HeaderOf(k)} \union {HeaderOf(l)}
  <2>1. NewRecords(lines) = <<e>> \o ((q \o <<e>>) \o r)
    BY <1>7, NewRecordsAre, Zenon
  <2>2. q \in Seq(S) /\ r \in Seq(S) /\ <<e>> \in Seq(S)
    <3>1. q \in Seq(S) /\ r \in Seq(S)
      BY <1>5
    <3> HIDE DEF e
    <3>2. <<e>> \in Seq(S)
      BY <1>1
    <3>3. QED
      BY <3>1, <3>2
  <2>3. /\ Back(lines) = B /\ HeaderOf(k) \in H /\ HeaderOf(l) \in H /\ HeaderOf(l) \notin A
    <3>1. HeaderOf(k) # HeaderOf(l)
      BY <1>7, KeyHeaders, Zenon
    <3>2. QED
      BY <1>3, <1>7, <3>1 DEF Back
  <2>4. c \in Seq(S) /\ Kept(c, lines, H, {} \union A) /\ Restored(c, lines, {} \union A)
    BY <1>2, <2>3, RecordBack
  <2>5. {} \union A = A
    OBVIOUS
  <2>6. (q \o <<e>>) \o r \in Seq(S) /\ out = b \o ((q \o <<e>>) \o r)
    <3>1. q \o <<e>> \in Seq(S)
      BY <2>2, ConcatProperties
    <3>2. (q \o <<e>>) \o r \in Seq(S)
      BY <2>2, <3>1, ConcatProperties
    <3>3. QED
      BY <1>4, <2>1, <3>2, Zenon
  <2>7. b \o ((q \o <<e>>) \o r) = f
    <3> DEFINE E == <<e>>
    <3> HIDE DEF q, r, e, E
    <3>1. q \o E \in Seq(S) /\ E \in Seq(S)
      BY <2>2, ConcatProperties DEF E
    <3>2. b \o ((q \o E) \o r) = (b \o (q \o E)) \o r
      <4> DEFINE u == q \o E
      <4> HIDE DEF u
      <4>1. u \in Seq(S)
        BY <3>1 DEF u
      <4>2. b \o (u \o r) = (b \o u) \o r
        BY <1>2, <2>2, <4>1, ConcatTo, SMTT(60)
      <4>3. QED
        BY <4>2 DEF u
    <3>3. b \o (q \o E) = (b \o q) \o E
      BY <1>2, <2>2, <3>1, ConcatTo, SMTT(60)
    <3>4. d = c \o E
      <4> HIDE DEF c, e
      <4>1. QED
        BY <1>1, <2>4, AppendIsConcat DEF E
    <3>5. QED
      BY <3>2, <3>3, <3>4, Zenon DEF E
  <2> HIDE DEF c, A, e
  <2>8. d \in Seq(S) /\ Kept(d, lines, H, A) /\ Restored(d, lines, A)
    <3>1. Kept(c, lines, H, A) /\ Restored(c, lines, A)
      BY <2>4, <2>5, Zenon
    <3>2. QED
      BY <1>1, <2>4, <3>1, SilentBack, AppendProperties
  <2> HIDE DEF d
  <2>9. f \in Seq(S) /\ Kept(f, lines, H, A \union {HeaderOf(l)})
        /\ Restored(f, lines, A \union {HeaderOf(l)})
    BY <2>3, <2>8, RecordBack
  <2>10. A \union {HeaderOf(l)} = Back(lines)
    BY <2>3 DEF A
  <2> HIDE DEF f, out
  <2>11. QED
    BY <2>6, <2>7, <2>9, <2>10, Zenon
<1>8. done
  BY <1>6, <1>7, StaleHooks, Zenon
<1>9. QED
  BY <1>8, Zenon DEF H

\* The lines a config.toml is made of.
Lines == Headers \union DOMAIN FieldOf \union Silent \union {"key"}

\* Whose records are written, and whose are not.
LEMMA Owners ==
  /\ ToSet(Hooks) \subseteq Keys /\ Obsolete \subseteq Keys
  /\ "old" \in Obsolete /\ HeaderOf("old") = "[old]"
  /\ \A key \in ToSet(Hooks) : key \notin Obsolete
  /\ \A key \in ToSet(Hooks) \union Obsolete : HeaderOf(key) # "[theirs]"
  /\ \A h \in OtherHeaders : h \in Headers /\ h \notin DOMAIN KeyOf
  /\ "[theirs]" \in Headers /\ None \notin Lines
<1>1. ToSet(Hooks) = {"mine", "also"}
  <2>1. \A x, y : ToSet(<<x, y>>) = {x, y}
    BY DEF ToSet
  <2>2. QED
    BY <2>1, Zenon DEF Hooks
<1>2. Obsolete = {"old"}
  BY Zenon DEF Obsolete
<1>3. ToSet(Hooks) \subseteq Keys /\ Obsolete \subseteq Keys
  BY <1>1, <1>2, HeadersOf, Zenon
<1>4. "old" \in Obsolete /\ HeaderOf("old") = "[old]"
  BY <1>2, HeadersOf, Zenon
<1>5. \A key \in ToSet(Hooks) : key \notin Obsolete
  BY <1>1, <1>2, Zenon
<1>6. \A key \in ToSet(Hooks) \union Obsolete : HeaderOf(key) # "[theirs]"
  BY <1>1, <1>2, HeadersOf, Zenon
<1>7. DOMAIN KeyOf = {"[mine]", "[also]", "[old]", "[theirs]"}
  BY HeadersOf
<1>8. \A h \in OtherHeaders : h \in Headers /\ h \notin DOMAIN KeyOf
  BY <1>7, Zenon DEF OtherHeaders, Headers
<1>9. "[theirs]" \in Headers
  BY <1>7, Zenon DEF Headers
<1>10. None \notin Lines
  <2>1. None \notin Headers
    BY LineKinds
  <2>2. None \notin DOMAIN FieldOf
    BY RecordFields, Zenon DEF None
  <2>3. None \notin Silent
    BY Zenon DEF None, Silent
  <2>4. None \notin {"key"}
    BY Zenon DEF None
  <2>5. QED
    BY <2>1, <2>2, <2>3, <2>4, Zenon DEF Lines
<1>11. QED
  BY <1>3, <1>4, <1>5, <1>6, <1>8, <1>9, <1>10, Zenon

\* No hook is stale exactly if all are trusted.
LEMMA NoneStale ==
  ASSUME NEW lines
  PROVE  Stale(lines) = <<>> <=> \A key \in ToSet(Hooks) : Trusted(lines, key)
<1>1. ToSet(Stale(lines)) = {key \in ToSet(Hooks) : ~Trusted(lines, key)}
  BY StaleHooks
<1>2. ASSUME Stale(lines) = <<>> PROVE ToSet(Stale(lines)) = {}
  <2>1. ToSet(<<>>) = {}
    BY DEF ToSet
  <2>2. QED
    BY <1>2, <2>1, Zenon
<1>3. ASSUME Stale(lines) # <<>> PROVE ToSet(Stale(lines)) # {}
  <2>1. \/ \E k \in Keys : /\ Stale(lines) = <<k>> /\ ToSet(Stale(lines)) = {k}
        \/ \E k, l \in Keys : /\ k # l /\ Stale(lines) = <<k, l>>
                              /\ ToSet(Stale(lines)) = {k, l}
    BY <1>3, StaleHooks, Zenon
  <2>2. QED
    BY <2>1
<1>4. QED
  BY <1>1, <1>2, <1>3, Zenon

\* What is rewritten is the config the hooks are to have.
LEMMA LinesRewritten ==
  ASSUME NEW lines \in Seq(Lines)
  PROVE  RewrittenWell(lines)
<1> DEFINE out == WithTrustRecords(lines)
           others == {None, "[theirs]"} \union OtherHeaders
           H == Dropped(lines)
           A == Back(lines)
<1>0. ASSUME Recognized(lines),
             Recognized(out),
             \A key \in ToSet(Hooks) :
                Trusted(out, key) /\ Value(out, key, "enabled") = Value(lines, key, "enabled"),
             \A h \in others : Says(out, h) = Says(lines, h) /\ (h \in ToSet(out) <=> h \in ToSet(lines)),
             out # lines => "[old]" \notin ToSet(out)
      PROVE  RewrittenWell(lines)
  <2>1. WithTrustRecords(out) = out
    <3>1. Stale(out) = <<>>
      BY <1>0, NoneStale, Zenon
    <3>2. QED
      BY <3>1, RewriteIs, Zenon
  <2> HIDE DEF out
  <2>2. QED
    BY <1>0, <2>1, Zenon DEF RewrittenWell, out
<1>1. SUFFICES ASSUME Recognized(lines) PROVE RewrittenWell(lines)
  BY Zenon DEF RewrittenWell
<1>2. CASE Stale(lines) = <<>>
  <2>1. out = lines
    BY <1>2, RewriteIs, Zenon
  <2>2. \A key \in ToSet(Hooks) : Trusted(lines, key)
    BY <1>2, NoneStale, Zenon
  <2> HIDE DEF out, others
  <2>3. QED
    BY <1>0, <1>1, <2>1, <2>2, Zenon
<1>3. CASE Stale(lines) # <<>>
  <2>1. out \in Seq(Lines) /\ Kept(out, lines, H, A) /\ Restored(out, lines, A)
    <3>1. Headers \subseteq Lines /\ DOMAIN FieldOf \subseteq Lines /\ Silent \subseteq Lines
      BY Zenon DEF Lines
    <3>2. QED
      BY <1>3, <3>1, Rewrites
  <2>2. ToSet(Stale(lines)) = {key \in ToSet(Hooks) : ~Trusted(lines, key)}
    BY StaleHooks
  <2>3. \A key \in Keys : HeaderOf(key) \in H <=> key \in ToSet(Stale(lines)) \union Obsolete
    BY <2>2, Owners, KeyHeaders, Zenon DEF Dropped
  <2>4. \A key \in Keys : HeaderOf(key) \in A <=> key \in ToSet(Stale(lines))
    BY <2>2, Owners, KeyHeaders, Zenon DEF Back
  <2>5. None \notin H /\ \A h \in others : h \notin H
    <3>1. H \subseteq DOMAIN KeyOf /\ None \notin H
      BY DroppedHeaders
    <3>2. "[theirs]" \notin H
      BY <2>2, Owners, Zenon DEF Dropped
    <3>3. QED
      BY <3>1, <3>2, Owners, Zenon
  <2>6. A \subseteq H
    BY Zenon DEF Back, Dropped
  <2>7. ASSUME NEW key \in ToSet(Hooks)
        PROVE  Trusted(out, key) /\ Value(out, key, "enabled") = Value(lines, key, "enabled")
    <3>1. key \in Keys /\ key \notin Obsolete
      BY Owners, Zenon
    <3>2. CASE Trusted(lines, key)
      <4>1. HeaderOf(key) \notin H
        BY <2>2, <2>3, <3>1, <3>2, Zenon
      <4>2. \A name : Value(out, key, name) = Value(lines, key, name)
        BY <2>1, <4>1, Zenon DEF Kept
      <4>3. QED
        BY <3>2, <4>2, Zenon DEF Trusted
    <3>3. CASE ~Trusted(lines, key)
      <4>1. HeaderOf(key) \in A
        BY <2>2, <2>4, <3>1, <3>3, Zenon
      <4>2. QED
        BY <2>1, <3>1, <4>1, Zenon DEF Restored
    <3>4. QED
      BY <3>2, <3>3
  <2>8. ASSUME NEW h \in others
        PROVE  Says(out, h) = Says(lines, h) /\ (h \in ToSet(out) <=> h \in ToSet(lines))
    <3>1. h \notin H /\ h \notin A
      BY <2>5, <2>6, Zenon
    <3>2. Says(out, h) = Says(lines, h)
      BY <2>1, <3>1, Zenon DEF Kept
    <3>3. CASE h = None
      <4>1. ToSet(out) \subseteq Lines /\ ToSet(lines) \subseteq Lines
        <5> HIDE DEF out
        <5>1. \A s \in Seq(Lines) : ToSet(s) \subseteq Lines
          BY DEF ToSet
        <5>2. QED
          BY <2>1, <5>1, Zenon
      <4>2. None \notin Lines
        BY Owners, Zenon
      <4>3. QED
        BY <3>2, <3>3, <4>1, <4>2, Zenon
    <3>4. CASE h # None
      <4>1. h \in Headers
        BY <3>4, Owners, Zenon
      <4>2. h \in ToSet(out) <=> h \in ToSet(lines)
        BY <2>1, <3>1, <4>1, Zenon DEF Kept
      <4>3. QED
        BY <3>2, <4>2
    <3>5. QED
      BY <3>3, <3>4
  <2>9. "[old]" \notin ToSet(out)
    <3>1. "old" \in Keys /\ "old" \in Obsolete /\ HeaderOf("old") = "[old]"
      BY Owners, Zenon
    <3>2. "old" \notin ToSet(Stale(lines))
      BY <2>2, <3>1, Owners, Zenon
    <3>3. "[old]" \in H /\ "[old]" \notin A
      BY <2>3, <2>4, <3>1, <3>2, Zenon
    <3>4. "[old]" \in Headers
      BY <3>1, KeyHeaders, LineKinds, Zenon
    <3>5. QED
      BY <2>1, <3>3, <3>4, Zenon DEF Kept
  <2>10. Recognized(out)
    BY <1>1, <2>1, Zenon DEF Kept
  <2> HIDE DEF out, others
  <2>11. QED
    BY <1>0, <1>1, <2>7, <2>8, <2>9, <2>10, Zenon
<1>4. QED
  BY <1>2, <1>3

LEMMA AlwaysRewritten ==
  ASSUME NEW pieces \in Seq(ConfigLines)
  PROVE  RewrittenWell(FlattenSeq(pieces))
<1>1. ConfigLines \subseteq Seq(Lines)
  <2> DEFINE a == "[mine]"
             b == "hash"
             c == "content"
             d == "disabled"
             e == "[also]"
             f == "enabled"
             g == "[old]"
             h == "[theirs]"
             i == "old hash"
             j == "[section]"
             k == "key"
             l == "[hooks.state]"
             m == "[hooks.state.odd]"
             n == ""
             o == "#"
  <2>1. a \in Lines /\ e \in Lines /\ g \in Lines /\ h \in Lines
    BY HeadersOf, Zenon DEF Lines, Headers
  <2>2. j \in Lines /\ l \in Lines /\ m \in Lines
    BY Zenon DEF Lines, Headers, OtherHeaders
  <2>3. b \in Lines /\ c \in Lines /\ d \in Lines /\ f \in Lines /\ i \in Lines
    BY RecordFields, Zenon DEF Lines
  <2>4. k \in Lines /\ n \in Lines /\ o \in Lines
    BY Zenon DEF Lines, Silent
  <2>5. ConfigLines = {<<a>>, <<a, b, c>>, <<a, d>>, <<e, f, b, c>>, <<g, b>>, <<h, i>>, <<j, k>>,
                       <<l>>, <<m>>, <<f>>, <<i>>, <<k>>, <<n>>, <<o>>}
    BY Zenon DEF ConfigLines
  <2> HIDE DEF a, b, c, d, e, f, g, h, i, j, k, l, m, n, o
  <2>6. /\ \A x \in Lines : <<x>> \in Seq(Lines)
        /\ \A x, y \in Lines : <<x, y>> \in Seq(Lines)
    OBVIOUS
  <2>7. <<a, b, c>> \in Seq(Lines) /\ <<e, f, b, c>> \in Seq(Lines)
    BY <2>1, <2>3
  <2>8. <<a>> \in Seq(Lines) /\ <<a, d>> \in Seq(Lines) /\ <<g, b>> \in Seq(Lines)
    BY <2>1, <2>3, <2>6, Zenon
  <2>9. <<h, i>> \in Seq(Lines) /\ <<f>> \in Seq(Lines) /\ <<i>> \in Seq(Lines)
    BY <2>1, <2>3, <2>6, Zenon
  <2>10. <<j, k>> \in Seq(Lines) /\ <<l>> \in Seq(Lines) /\ <<m>> \in Seq(Lines)
    BY <2>2, <2>4, <2>6, Zenon
  <2>11. <<k>> \in Seq(Lines) /\ <<n>> \in Seq(Lines) /\ <<o>> \in Seq(Lines)
    BY <2>4, <2>6, Zenon
  <2>12. QED
    BY <2>5, <2>7, <2>8, <2>9, <2>10, <2>11, Zenon
<1>2. pieces \in Seq(Seq(Lines))
  BY <1>1, SeqMonotonic
<1>3. FlattenSeq(pieces) \in Seq(Lines)
  BY <1>2, FlattenType
<1>4. QED
  BY <1>3, LinesRewritten

-----------------------------------------------------------------------------
(***************************************************************************)
(* What writes agent memory, wrapped any number of times.                  *)
(***************************************************************************)
\* A segment that can be lexed and writes memory.
Identifies(seg, inner, writing) == "'" \notin ToSet(seg) /\ SegmentWrites(seg, inner, writing)

\* What Writes says at a depth, given what it says one level down.
Seeking(depth, below) ==
    [levels \in Commands(MemoryWords) |->
        /\ depth <= MaxMemoryDepth
        /\ \E seg \in ToSet(levels[1]) :
              /\ "'" \notin ToSet(seg)
              /\ SegmentWrites(seg, Tail(levels), below)]

\* Writes, which recurs by depth, may be unfolded.
LEMMA WritesIs ==
  \A d \in 0..MaxMemoryDepth + 1 : Writes[d] = Seeking(d, Writes[d + 1])
<1> DEFINE D == 0..MaxMemoryDepth + 1
           step(f, d) == Seeking(d, f[d + 1])
           chosen == CHOOSE f : f = [d \in D |-> step(f, d)]
<1>1. D = 0..4 /\ D = {0, 1, 2, 3, 4}
  BY DEF MaxMemoryDepth
<1>2. \E f : f = [d \in D |-> step(f, d)]
  <2> DEFINE f4 == Seeking(4, <<>>)
             f3 == Seeking(3, f4)
             f2 == Seeking(2, f3)
             f1 == Seeking(1, f2)
             f0 == Seeking(0, f1)
             f == [d \in D |-> IF d = 0 THEN f0 ELSE IF d = 1 THEN f1 ELSE IF d = 2 THEN f2
                               ELSE IF d = 3 THEN f3 ELSE f4]
  <2>1. \A below : f4 = Seeking(4, below)
    BY ~(4 <= MaxMemoryDepth) DEF Seeking, MaxMemoryDepth
  <2>2. /\ f3 = Seeking(3, f4) /\ f2 = Seeking(2, f3)
        /\ f1 = Seeking(1, f2) /\ f0 = Seeking(0, f1)
    OBVIOUS
  <2> HIDE DEF f0, f1, f2, f3, f4, D
  <2>3. /\ f[0] = f0 /\ f[1] = f1 /\ f[2] = f2 /\ f[3] = f3 /\ f[4] = f4
        /\ f = [d \in D |-> f[d]]
    BY <1>1
  <2> HIDE DEF f
  <2>4. ASSUME NEW d \in D PROVE f[d] = step(f, d)
    <3>1. CASE d = 4
      BY <2>1, <2>3, <3>1
    <3>2. CASE d = 3
      BY <2>2, <2>3, <3>2
    <3>3. CASE d = 2
      BY <2>2, <2>3, <3>3
    <3>4. CASE d = 1
      BY <2>2, <2>3, <3>4
    <3>5. CASE d = 0
      BY <2>2, <2>3, <3>5
    <3>6. QED
      BY <1>1, <3>1, <3>2, <3>3, <3>4, <3>5
  <2> HIDE DEF step
  <2>5. f = [d \in D |-> step(f, d)]
    BY <2>3, <2>4
  <2>6. QED
    BY <2>5
<1>3. Writes = chosen
  BY DEF Writes, Seeking
<1> HIDE DEF step, D
<1>4. chosen = [d \in D |-> step(chosen, d)]
  BY <1>2
<1> HIDE DEF chosen
<1>5. \A d \in D : chosen[d] = step(chosen, d)
  BY <1>4
<1>6. QED
  BY <1>3, <1>5 DEF step, D

\* What is found at each depth.
LEMMA WritesOf ==
  ASSUME NEW levels \in Commands(MemoryWords)
  PROVE  /\ Writes[MaxMemoryDepth + 1][levels] = FALSE
         /\ \A d \in 0..MaxMemoryDepth :
                /\ Writes[d][levels] \in BOOLEAN
                /\ Writes[d][levels] <=>
                        \E seg \in ToSet(levels[1]) :
                            Identifies(seg, Tail(levels), Writes[d + 1])
<1>1. MaxMemoryDepth + 1 \in 0..MaxMemoryDepth + 1 /\ ~(MaxMemoryDepth + 1 <= MaxMemoryDepth)
      /\ \A d \in 0..MaxMemoryDepth : d \in 0..MaxMemoryDepth + 1 /\ d <= MaxMemoryDepth
  BY DEF MaxMemoryDepth
<1>2. Writes[MaxMemoryDepth + 1][levels] = FALSE
  <2>1. Writes[MaxMemoryDepth + 1] = Seeking(MaxMemoryDepth + 1, Writes[MaxMemoryDepth + 1 + 1])
    BY <1>1, WritesIs
  <2>2. QED
    BY <1>1, <2>1 DEF Seeking
<1>3. ASSUME NEW d \in 0..MaxMemoryDepth
      PROVE  Writes[d][levels] = \E seg \in ToSet(levels[1]) :
                            Identifies(seg, Tail(levels), Writes[d + 1])
  <2>1. Writes[d] = Seeking(d, Writes[d + 1])
    BY <1>1, WritesIs
  <2>2. QED
    BY <1>1, <2>1 DEF Seeking, Identifies
<1>4. QED
  BY <1>2, <1>3


\* Every level but the first is untouched by what is before it.
LEMMA AtConcat ==
  ASSUME NEW S, NEW w \in Seq(S), NEW s \in Seq(S), NEW k \in Nat \ {0}
  PROVE  At(w \o s, Len(w) + k) = At(s, k)
<1>1. /\ Len(w) \in Nat /\ Len(s) \in Nat
      /\ DOMAIN (w \o s) = 1..Len(w) + Len(s) /\ DOMAIN s = 1..Len(s)
      /\ \A i \in 1..Len(s) : (w \o s)[Len(w) + i] = s[i]
  BY ConcatAt
<1> DEFINE u == w \o s
           n == Len(w)
           m == Len(s)
<1> HIDE DEF u, n, m
<1>2. /\ n \in Nat /\ m \in Nat /\ DOMAIN u = 1..n + m /\ DOMAIN s = 1..m
      /\ \A i \in 1..m : u[n + i] = s[i]
  BY <1>1 DEF u, n, m
<1>3. n + k \in DOMAIN u <=> k \in DOMAIN s
  BY <1>2
<1>4. At(u, n + k) = At(s, k)
  BY <1>2, <1>3 DEF At
<1>5. QED
  BY <1>4 DEF u, n

\* All elements are picked.
LEMMA PickedAll ==
  ASSUME NEW S, NEW s \in Seq(S), NEW P, 1..Len(s) \subseteq P
  PROVE  Picked(s, P) = s
<1> DEFINE Good == {t \in Seq(S) : \A Q : 1..Len(t) \subseteq Q => Picked(t, Q) = t}
<1>1. <<>> \in Good
  BY PickedEmpty
<1>2. ASSUME NEW t \in Seq(S), NEW e \in S, t \in Good PROVE Append(t, e) \in Good
  <2>1. Append(t, e) \in Seq(S) /\ Len(Append(t, e)) = Len(t) + 1 /\ Len(t) \in Nat
    BY AppendProperties
  <2>2. ASSUME NEW Q, 1..Len(t) + 1 \subseteq Q PROVE Picked(Append(t, e), Q) = Append(t, e)
    <3>1. 1..Len(t) \subseteq Q /\ Len(t) + 1 \in Q
      BY <2>1, <2>2
    <3>2. Picked(t, Q) = t
      BY <1>2, <3>1
    <3>3. Picked(Append(t, e), Q) =
              IF Len(t) + 1 \in Q THEN Append(Picked(t, Q), e) ELSE Picked(t, Q)
      BY PickedAppend
    <3>4. QED
      BY <3>1, <3>2, <3>3
  <2>3. QED
    BY <2>1, <2>2
<1> HIDE DEF Good
<1>3. s \in Good
  BY <1>1, <1>2, SequenceInduction
<1>4. QED
  BY <1>3 DEF Good

\* What is picked of a concatenation is what is picked of its parts.
LEMMA PickedConcat ==
  ASSUME NEW S, NEW w \in Seq(S), NEW s \in Seq(S), NEW P, NEW Q,
         \A k \in 1..Len(s) : k \in Q <=> Len(w) + k \in P
  PROVE  Picked(w \o s, P) = Picked(w, P) \o Picked(s, Q)
<1> DEFINE n == Len(w)
           Good == {t \in Seq(S) : \A R, T :
                      (\A k \in 1..Len(t) : k \in T <=> n + k \in R)
                        => Picked(w \o t, R) = Picked(w, R) \o Picked(t, T)}
<1>1. <<>> \in Good
  <2>1. ASSUME NEW R, NEW T PROVE Picked(w \o <<>>, R) = Picked(w, R) \o Picked(<<>>, T)
    <3>1. Picked(w, R) \in Seq(S) /\ Picked(<<>>, T) = <<>>
      BY PickedType, PickedEmpty
    <3>2. w \o <<>> = w
      OBVIOUS
    <3> HIDE DEF n
    <3>3. QED
      BY <3>1, <3>2
  <2>2. QED
    BY <2>1
<1>2. ASSUME NEW t \in Seq(S), NEW e \in S, t \in Good PROVE Append(t, e) \in Good
  <2>1. /\ Append(t, e) \in Seq(S) /\ Len(Append(t, e)) = Len(t) + 1 /\ Len(t) \in Nat
        /\ n \in Nat
    BY AppendProperties
  <2>2. /\ w \o t \in Seq(S) /\ Len(w \o t) = n + Len(t)
        /\ w \o Append(t, e) = Append(w \o t, e)
    OBVIOUS
  <2>3. ASSUME NEW R, NEW T, \A k \in 1..Len(t) + 1 : k \in T <=> n + k \in R
        PROVE  Picked(w \o Append(t, e), R) = Picked(w, R) \o Picked(Append(t, e), T)
    <3>1. \A k \in 1..Len(t) : k \in T <=> n + k \in R
      BY <2>1, <2>3
    <3>2. Picked(w \o t, R) = Picked(w, R) \o Picked(t, T)
      BY <1>2, <3>1
    <3>3. Picked(Append(t, e), T) =
              IF Len(t) + 1 \in T THEN Append(Picked(t, T), e) ELSE Picked(t, T)
      BY PickedAppend
    <3>4. Picked(Append(w \o t, e), R) =
              IF (n + Len(t)) + 1 \in R THEN Append(Picked(w \o t, R), e) ELSE Picked(w \o t, R)
      <4> DEFINE v == w \o t
      <4>1. v \in Seq(S) /\ Len(v) = n + Len(t)
        BY <2>2
      <4> HIDE DEF v
      <4>2. Picked(Append(v, e), R) =
                IF Len(v) + 1 \in R THEN Append(Picked(v, R), e) ELSE Picked(v, R)
        BY <4>1, PickedAppend
      <4>3. QED
        BY <4>1, <4>2 DEF v
    <3>5. Len(t) + 1 \in T <=> (n + Len(t)) + 1 \in R
      <4>1. Len(t) + 1 \in 1..Len(t) + 1 /\ n + (Len(t) + 1) = (n + Len(t)) + 1
        BY <2>1
      <4>2. QED
        BY <2>3, <4>1
    <3> DEFINE a == Picked(w, R)
               b == Picked(t, T)
    <3>6. a \in Seq(S) /\ b \in Seq(S)
      BY PickedType
    <3> HIDE DEF a, b
    <3>7. a \o Append(b, e) = Append(a \o b, e)
      BY <3>6
    <3>8. CASE Len(t) + 1 \in T
      BY <2>2, <3>2, <3>3, <3>4, <3>5, <3>7, <3>8 DEF a, b
    <3>9. CASE Len(t) + 1 \notin T
      BY <2>2, <3>2, <3>3, <3>4, <3>5, <3>9 DEF a, b
    <3>10. QED
      BY <3>8, <3>9
  <2> HIDE DEF n
  <2>4. QED
    BY <2>1, <2>3
<1> HIDE DEF Good
<1>3. s \in Good
  BY <1>1, <1>2, SequenceInduction
<1>4. QED
  BY <1>3 DEF Good

\* The first element comes first if it is picked.
LEMMA PickedFirst ==
  ASSUME NEW S, NEW s \in Seq(S), s # <<>>, NEW P, 1 \in P
  PROVE  Picked(s, P) # <<>> /\ Picked(s, P)[1] = s[1]
<1> DEFINE x == s[1]
           t == Tail(s)
           Q == {k \in Nat : 1 + k \in P}
<1>1. x \in S /\ t \in Seq(S) /\ s = <<x>> \o t
  BY BeheadIs
<1> HIDE DEF x, t
<1> DEFINE h == <<x>>
<1>2. h \in Seq(S) /\ Len(h) = 1 /\ 1..Len(h) \subseteq P
  BY <1>1
<1> HIDE DEF h, Q
<1>3. Picked(h \o t, P) = Picked(h, P) \o Picked(t, Q)
  <2>1. \A k \in 1..Len(t) : k \in Q <=> Len(h) + k \in P
    BY <1>1, <1>2 DEF Q
  <2>2. t \in Seq(S) /\ h \in Seq(S)
    BY <1>1, <1>2
  <2>3. QED
    BY <2>1, <2>2, PickedConcat, SMTT(60)
<1>4. Picked(h, P) = h
  BY <1>2, PickedAll
<1>5. Picked(t, Q) \in Seq(S)
  BY <1>1, PickedType
<1>6. QED
  <2> DEFINE r == Picked(t, Q)
  <2>1. r \in Seq(S) /\ Picked(s, P) = <<x>> \o r
    BY <1>1, <1>3, <1>4, <1>5 DEF h
  <2> HIDE DEF r
  <2>2. QED
    BY <1>1, <2>1 DEF x



\* Segments that begin with a command.
Commanding(seg) ==
    /\ seg \in Seq(MemoryWords) /\ seg # <<>>
    /\ seg[1] \notin Operators \union Descriptors \union Skippable

\* The positions of the command's words.
WordAt(seg, i) ==
    /\ seg[i] \notin Operators
    /\ At(seg, i - 1) \notin Operators
    /\ ~(seg[i] \in Descriptors /\ At(seg, i + 1) \in Operators)
WordsAt(seg) == {i \in DOMAIN seg : WordAt(seg, i)}

\* Its words are those at these positions.
LEMMA CommandWordsAre == \A seg : CommandWords(seg) = Picked(seg, WordsAt(seg))
BY DEF CommandWords, WordsAt, WordAt

\* None of these words is syntax.
LEMMA EnvWords ==
  /\ "env" \in MemoryWords /\ "-i" \in MemoryWords
  /\ None \notin Operators /\ "env" \notin Operators /\ "-i" \notin Operators
  /\ "env" \notin Descriptors /\ "-i" \notin Descriptors
  /\ "env" \notin Skippable /\ "env" \notin Assignments
  /\ "-i" \in Skippable /\ "-i" # "--" /\ "-i" \notin {"-u", "-C"}
  /\ None \notin Skippable
  /\ "<<" \in Operators /\ RedirectOperators \subseteq Operators
<1>1. "env" \in MemoryWords /\ "-i" \in MemoryWords
  BY Zenon DEF MemoryWords
<1>2. QED
  BY <1>1, Zenon
  DEF Operators, RedirectOperators, Descriptors, Skippable, Flags, Assignments, None

\* Words in front are words of the command.
LEMMA PrefixedWords ==
  ASSUME NEW s \in Seq(MemoryWords)
  PROVE  CommandWords(<<"env", "-i">> \o s) = <<"env", "-i">> \o CommandWords(s)
<1> DEFINE w == <<"env", "-i">>
           u == w \o s
<1>a. w \in Seq(MemoryWords) /\ s \in Seq(MemoryWords)
  BY EnvWords
<1>0. Len(w) = 2
  OBVIOUS
<1>1. w[1] = "env" /\ w[2] = "-i"
  OBVIOUS
<1> HIDE DEF w
<1>2. /\ u \in Seq(MemoryWords) /\ Len(s) \in Nat /\ DOMAIN u = 1..2 + Len(s) /\ DOMAIN s = 1..Len(s)
      /\ u[1] = "env" /\ u[2] = "-i" /\ At(u, 1) = "env" /\ At(u, 2) = "-i"
      /\ \A k \in 1..Len(s) : u[2 + k] = s[k]
  <2>1. /\ u \in Seq(MemoryWords) /\ Len(s) \in Nat /\ Len(u) = Len(w) + Len(s)
        /\ DOMAIN u = 1..Len(w) + Len(s) /\ DOMAIN s = 1..Len(s)
        /\ \A i \in 1..Len(w) : u[i] = w[i] /\ At(u, i) = At(w, i) /\ At(w, i) = w[i]
        /\ \A k \in 1..Len(s) : u[Len(w) + k] = s[k]
    BY <1>a, ConcatAt
  <2>2. 1 \in 1..Len(w) /\ 2 \in 1..Len(w)
    BY <1>0
  <2> HIDE DEF u
  <2>3. QED
    BY <1>0, <1>1, <2>1, <2>2
<1>3. \A k \in Nat \ {0} : At(u, 2 + k) = At(s, k)
  <2>1. \A k \in Nat \ {0} : At(u, Len(w) + k) = At(s, k)
    BY <1>a, AtConcat
  <2>2. QED
    BY <1>0, <2>1
<1> HIDE DEF u
<1>4. 1 \in WordsAt(u) /\ 2 \in WordsAt(u)
  <2>1. At(u, 0) = None
    BY <1>2 DEF At
  <2>2. 1 \in DOMAIN u /\ 2 \in DOMAIN u
    BY <1>2
  <2>3. WordAt(u, 1)
    <3>1. 1 - 1 = 0
      OBVIOUS
    <3>2. QED
      BY <1>2, <2>1, <3>1, EnvWords DEF WordAt
  <2>4. WordAt(u, 2)
    <3>1. 2 - 1 = 1
      OBVIOUS
    <3>2. QED
      BY <1>2, <3>1, EnvWords DEF WordAt
  <2>5. QED
    BY <2>2, <2>3, <2>4 DEF WordsAt
<1>5. ASSUME NEW k \in 1..Len(s) PROVE k \in WordsAt(s) <=> 2 + k \in WordsAt(u)
  <2>1. k \in DOMAIN s /\ 2 + k \in DOMAIN u /\ u[2 + k] = s[k]
    BY <1>2
  <2>2. At(u, (2 + k) + 1) = At(s, k + 1)
    <3>1. (2 + k) + 1 = 2 + (k + 1) /\ k + 1 \in Nat \ {0}
      BY <1>2
    <3>2. QED
      BY <1>3, <3>1
  <2>3. At(u, (2 + k) - 1) \in Operators <=> At(s, k - 1) \in Operators
    <3>1. CASE k = 1
      <4>1. (2 + k) - 1 = 2 /\ k - 1 = 0 /\ At(s, 0) = None
        BY <1>2, <3>1 DEF At
      <4>2. QED
        BY <1>2, <4>1, EnvWords
    <3>2. CASE k # 1
      <4>1. (2 + k) - 1 = 2 + (k - 1) /\ k - 1 \in Nat \ {0}
        BY <1>2, <3>2
      <4>2. QED
        BY <1>3, <4>1
    <3>3. QED
      BY <3>1, <3>2
  <2>4. WordAt(u, 2 + k) <=> WordAt(s, k)
    BY <2>1, <2>2, <2>3 DEF WordAt
  <2>5. QED
    BY <2>1, <2>4 DEF WordsAt
<1>6. Picked(w \o s, WordsAt(u)) = Picked(w, WordsAt(u)) \o Picked(s, WordsAt(s))
  <2>1. \A k \in 1..Len(s) : k \in WordsAt(s) <=> Len(w) + k \in WordsAt(u)
    BY <1>0, <1>5
  <2>2. QED
    BY <1>a, <2>1, PickedConcat
<1>7. Picked(w, WordsAt(u)) = w
  <2>1. 1..Len(w) \subseteq WordsAt(u)
    BY <1>0, <1>4
  <2>2. QED
    BY <1>a, <2>1, PickedAll
<1>8. CommandWords(w \o s) = w \o CommandWords(s)
  BY <1>6, <1>7, CommandWordsAre DEF u
<1>9. QED
  BY <1>8 DEF w

\* Nor do they change which words follow which.
LEMMA PrefixedAfter ==
  ASSUME NEW s \in Seq(MemoryWords), NEW F \in SUBSET Operators
  PROVE  After(<<"env", "-i">> \o s, F) = After(s, F)
<1> DEFINE w == <<"env", "-i">>
           u == w \o s
<1>a. w \in Seq(MemoryWords) /\ s \in Seq(MemoryWords)
  BY EnvWords
<1>0. Len(w) = 2
  OBVIOUS
<1>1. w[1] = "env" /\ w[2] = "-i"
  OBVIOUS
<1> HIDE DEF w
<1>2. /\ Len(s) \in Nat /\ DOMAIN u = 1..2 + Len(s) /\ DOMAIN s = 1..Len(s)
      /\ u[1] = "env" /\ u[2] = "-i"
      /\ \A k \in 1..Len(s) : u[2 + k] = s[k]
  <2>1. /\ Len(s) \in Nat
        /\ DOMAIN u = 1..Len(w) + Len(s) /\ DOMAIN s = 1..Len(s)
        /\ \A i \in 1..Len(w) : u[i] = w[i] /\ At(u, i) = At(w, i) /\ At(w, i) = w[i]
        /\ \A k \in 1..Len(s) : u[Len(w) + k] = s[k]
    BY <1>a, ConcatAt
  <2>2. 1 \in 1..Len(w) /\ 2 \in 1..Len(w)
    BY <1>0
  <2> HIDE DEF u
  <2>3. QED
    BY <1>0, <1>1, <2>1, <2>2
<1>3. \A k \in Nat \ {0} : At(u, 2 + k) = At(s, k)
  <2>1. \A k \in Nat \ {0} : At(u, Len(w) + k) = At(s, k)
    BY <1>a, AtConcat
  <2>2. QED
    BY <1>0, <2>1
<1> HIDE DEF u
<1>4. \A k \in 1..Len(s) : At(u, (2 + k) + 1) = At(s, k + 1)
  <2>1. \A k \in 1..Len(s) : (2 + k) + 1 = 2 + (k + 1) /\ k + 1 \in Nat \ {0}
    BY <1>2
  <2>2. QED
    BY <1>3, <2>1
<1>5. ASSUME NEW x PROVE x \in After(u, F) <=> x \in After(s, F)
  <2>1. x \in After(u, F) <=> \E i \in DOMAIN u : u[i] \in F /\ x = At(u, i + 1)
    BY Zenon DEF After
  <2>2. x \in After(s, F) <=> \E i \in DOMAIN s : s[i] \in F /\ x = At(s, i + 1)
    BY Zenon DEF After
  <2>3. ASSUME NEW i \in DOMAIN u, u[i] \in F, x = At(u, i + 1)
        PROVE  \E k \in DOMAIN s : s[k] \in F /\ x = At(s, k + 1)
    <3>1. i # 1 /\ i # 2
      BY <1>2, <2>3, EnvWords
    <3>2. i - 2 \in 1..Len(s) /\ i = 2 + (i - 2)
      BY <1>2, <3>1
    <3>3. s[i - 2] \in F /\ x = At(s, (i - 2) + 1)
      BY <1>2, <1>4, <2>3, <3>2
    <3>4. QED
      BY <1>2, <3>2, <3>3
  <2>4. ASSUME NEW k \in DOMAIN s, s[k] \in F, x = At(s, k + 1)
        PROVE  \E i \in DOMAIN u : u[i] \in F /\ x = At(u, i + 1)
    <3>1. 2 + k \in DOMAIN u /\ u[2 + k] \in F /\ x = At(u, (2 + k) + 1)
      BY <1>2, <1>4, <2>4
    <3>2. QED
      BY <3>1
  <2>5. QED
    BY <2>1, <2>2, <2>3, <2>4
<1>6. After(u, F) = After(s, F)
  BY <1>5
<1>7. QED
  BY <1>6 DEF u, w

\* The wrapper is stripped again.
LEMMA EnvStripped ==
  ASSUME NEW r \in Seq(MemoryWords), r # <<>>, r[1] \notin Skippable
  PROVE  StripLeadingNoise(<<"env", "-i">> \o r) = StripLeadingNoise(r)
<1> DEFINE i == <<"-i">>
           v == i \o r
           u == <<"env">> \o v
<1>a. i \in Seq(MemoryWords) /\ r \in Seq(MemoryWords)
  BY EnvWords
<1>0. Len(i) = 1
  OBVIOUS
<1>1. i[1] = "-i"
  OBVIOUS
<1>2. <<"env", "-i">> \o r = u
  OBVIOUS
<1> HIDE DEF i
<1>3. /\ v \in Seq(MemoryWords) /\ v[1] = "-i" /\ At(v, 1) = "-i" /\ Len(r) \in Nat /\ Len(v) = 1 + Len(r)
      /\ r[1] \in MemoryWords /\ Len(r) # 0 /\ At(r, 1) = r[1]
  <2>1. /\ v \in Seq(MemoryWords) /\ Len(r) \in Nat /\ Len(v) = Len(i) + Len(r) /\ DOMAIN r = 1..Len(r)
        /\ \A j \in 1..Len(i) : v[j] = i[j] /\ At(v, j) = At(i, j) /\ At(i, j) = i[j]
    BY <1>a, ConcatAt
  <2>2. 1 \in 1..Len(i)
    BY <1>0
  <2>3. Len(r) # 0 /\ 1 \in DOMAIN r /\ r[1] \in MemoryWords
    OBVIOUS
  <2> HIDE DEF v
  <2>4. QED
    BY <1>0, <1>1, <2>1, <2>2, <2>3 DEF At
<1>4. At(v, 2) = r[1]
  <2>1. At(i \o r, Len(i) + 1) = At(r, 1)
    <3>1. 1 \in Nat \ {0}
      OBVIOUS
    <3>2. QED
      BY <1>a, <3>1, AtConcat
  <2>2. QED
    BY <1>0, <1>3, <2>1
<1>5. From(v, 2) = r
  <2>1. From(i \o r, Len(i) + 1) = From(r, 1)
    <3>1. 1 \in 1..Len(r) + 1
      BY <1>3
    <3>2. QED
      BY <1>a, <3>1, FromConcat
  <2>2. From(r, 1) = r
    BY FromFirst
  <2>3. QED
    BY <1>0, <2>1, <2>2
<1> HIDE DEF v
<1>6. AfterFlags(v, Skippable, {"-u", "-C"}) = r
  <2> DEFINE f == Skips(v, Skippable, {"-u", "-C"})
  <2>1. /\ AfterFlags(v, Skippable, {"-u", "-C"}) = f[1]
        /\ \A j \in 1..Len(v) + 2 :
              /\ At(v, j) \notin Skippable => f[j] = From(v, j)
              /\ At(v, j) \in Skippable /\ v[j] # "--" =>
                      f[j] = f[IF v[j] \in {"-u", "-C"} THEN j + 2 ELSE j + 1]
    BY <1>3, EnvWords, AfterFlagsScans
  <2> HIDE DEF f
  <2>2. 1 \in 1..Len(v) + 2 /\ 2 \in 1..Len(v) + 2
    BY <1>3
  <2>3. f[1] = f[2]
    <3>1. f[1] = f[IF v[1] \in {"-u", "-C"} THEN 1 + 2 ELSE 1 + 1]
      BY <1>3, <2>1, <2>2, EnvWords
    <3>2. QED
      BY <1>3, <3>1, EnvWords
  <2>4. f[2] = From(v, 2)
    BY <1>4, <2>1, <2>2
  <2>5. QED
    BY <1>5, <2>1, <2>3, <2>4
<1>7. u \in Seq(MemoryWords) /\ u # <<>> /\ u[1] = "env" /\ Tail(u) = v
  BY <1>3, EnvWords, HeadedIs
<1> HIDE DEF u
<1>8. AfterNoise(u) = r
  <2>1. Base("env") = "env" /\ "env" \in DOMAIN FlagsWithArg /\ FlagsWithArg["env"] = {"-u", "-C"}
    BY BaseOf, WrapperNames, WrapperFlags
  <2>2. AfterNoise(u) = AfterDuration("env", AfterFlags(v, Skippable, {"-u", "-C"}))
    BY <1>7, <2>1, EnvWords, Zenon DEF AfterNoise, Skippable
  <2>3. "env" # "timeout"
    OBVIOUS
  <2>4. QED
    BY <1>6, <2>2, <2>3, Zenon DEF AfterDuration
<1>9. QED
  BY <1>2, <1>7, <1>8, StripOnce

\* What a segment writes depends on its redirections, on the command that is left of its
\* prefix, and on what it is fed.
WritesWith(targets, invocation, fed, inner, writing) ==
    \/ \E t \in targets : IsMemoryPath(t)
    \/ /\ invocation # <<>>
       /\ LET head == Base(invocation[1])  args == Tail(invocation)
          IN CASE head \in Shells ->
                     /\ ShellPayload(args) # None
                     /\ writing[Script(ShellPayload(args), inner)]
               [] head \in Interpreters -> InterpreterWrites(head, args, fed)
               [] OTHER -> \E p \in WrittenPaths(head, args) : IsMemoryPath(p)

\* What a segment writes is seen in its targets, its command and its body.
LEMMA SegmentWritesIs ==
  \A seg, inner, writing :
     SegmentWrites(seg, inner, writing) <=>
        WritesWith(After(seg, RedirectOperators), StripLeadingNoise(CommandWords(seg)),
                   After(seg, {"<<"}), inner, writing)
BY Zenon DEF SegmentWrites, WritesWith, RedirectTargets

\* The command is the first word.
LEMMA CommandFirst ==
  ASSUME NEW s, Commanding(s)
  PROVE  /\ CommandWords(s) \in Seq(MemoryWords) /\ CommandWords(s) # <<>>
         /\ CommandWords(s)[1] = s[1]
<1>1. s \in Seq(MemoryWords) /\ s # <<>> /\ s[1] \notin Operators /\ s[1] \notin Descriptors
  BY DEF Commanding
<1>2. 1 \in DOMAIN s
  BY <1>1
<1>3. At(s, 1 - 1) = None
  <2>1. 1 - 1 = 0 /\ 0 \notin DOMAIN s
    BY <1>1
  <2>2. QED
    BY <2>1 DEF At
<1>4. 1 \in WordsAt(s)
  BY <1>1, <1>2, <1>3, EnvWords DEF WordsAt, WordAt
<1>5. CommandWords(s) = Picked(s, WordsAt(s))
  BY CommandWordsAre
<1>6. Picked(s, WordsAt(s)) \in Seq(MemoryWords)
  BY <1>1, PickedType
<1>7. Picked(s, WordsAt(s)) # <<>> /\ Picked(s, WordsAt(s))[1] = s[1]
  BY <1>1, <1>4, PickedFirst
<1>8. QED
  BY <1>5, <1>6, <1>7

\* A prefix that is stripped changes nothing about what is written.
LEMMA EnvWrites ==
  ASSUME NEW s, Commanding(s), NEW inner, NEW writing
  PROVE  /\ Commanding(<<"env", "-i">> \o s)
         /\ Identifies(<<"env", "-i">> \o s, inner, writing) <=> Identifies(s, inner, writing)
<1> DEFINE w == <<"env", "-i">>
           u == w \o s
<1>1. s \in Seq(MemoryWords) /\ s # <<>> /\ s[1] \notin Skippable
  BY DEF Commanding
<1>2. w \in Seq(MemoryWords) /\ w # <<>> /\ w[1] = "env" /\ ToSet(w) = {"env", "-i"}
  BY EnvWords, ToSetOfWords
<1>3. /\ CommandWords(u) = w \o CommandWords(s)
      /\ After(u, RedirectOperators) = After(s, RedirectOperators)
      /\ After(u, {"<<"}) = After(s, {"<<"})
  <2>1. RedirectOperators \in SUBSET Operators /\ {"<<"} \in SUBSET Operators
    BY EnvWords
  <2>2. QED
    BY <1>1, <2>1, PrefixedWords, PrefixedAfter
<1>4. StripLeadingNoise(CommandWords(u)) = StripLeadingNoise(CommandWords(s))
  <2>1. CommandWords(s) \in Seq(MemoryWords) /\ CommandWords(s) # <<>>
        /\ CommandWords(s)[1] \notin Skippable
    BY <1>1, CommandFirst
  <2> DEFINE r == CommandWords(s)
  <2>2. r \in Seq(MemoryWords) /\ r # <<>> /\ r[1] \notin Skippable
    BY <2>1
  <2> HIDE DEF r
  <2>3. StripLeadingNoise(<<"env", "-i">> \o r) = StripLeadingNoise(r)
    BY <2>2, EnvStripped
  <2>4. QED
    BY <1>3, <2>3 DEF r
<1>5. SegmentWrites(u, inner, writing) <=> SegmentWrites(s, inner, writing)
  <2> HIDE DEF u
  <2>1. QED
    BY <1>3, <1>4, SegmentWritesIs, Zenon
<1> HIDE DEF w
<1>6. /\ u \in Seq(MemoryWords) /\ u # <<>> /\ u[1] = "env"
      /\ ToSet(u) = {"env", "-i"} \union ToSet(s)
  <2>1. w \in Seq(MemoryWords) /\ s \in Seq(MemoryWords) /\ w # <<>>
    BY <1>1, <1>2
  <2>2. ToSet(u) = ToSet(w) \union ToSet(s)
    BY <2>1, ToSetConcat
  <2>3. u # <<>> /\ u[1] = w[1]
    BY <2>1, TailConcat
  <2>4. u \in Seq(MemoryWords)
    BY <2>1
  <2>5. QED
    BY <1>2, <2>2, <2>3, <2>4
<1> HIDE DEF u
<1>7. "'" \in ToSet(u) <=> "'" \in ToSet(s)
  BY <1>6
<1>8. Commanding(u)
  BY <1>6, EnvWords DEF Commanding
<1>9. Identifies(u, inner, writing) <=> Identifies(s, inner, writing)
  BY <1>5, <1>7 DEF Identifies
<1>10. QED
  BY <1>8, <1>9 DEF u, w

\* The commands below.
Programs ==
    {"cat", "rm", "grep", "echo", "make", "tee", "touch", "truncate", "cp", "mv", "sed", "dd",
     "perl", "python3", "sh", "cd"}

\* Programs are words of their own and no wrappers.
LEMMA ProgramWords ==
  \A h \in Programs :
     /\ h \in MemoryWords /\ Base(h) = h
     /\ h \notin Operators \union Descriptors \union Skippable
     /\ h \notin Assignments /\ h \notin DOMAIN FlagsWithArg /\ h # "mise"
<1>1. \A h \in Programs : h \in MemoryWords
  BY Zenon DEF Programs, MemoryWords
<1>2. \A h \in Programs : Base(h) = h
  BY Zenon DEF Programs, Base, Directories
<1>3. \A h \in Programs : h \notin Operators
  BY Zenon DEF Programs, Operators, RedirectOperators
<1>4. \A h \in Programs : h \notin Descriptors
  BY Zenon DEF Programs, Descriptors
<1>5. \A h \in Programs : h \notin Skippable /\ h \notin Assignments
  BY ZenonT(60) DEF Programs, Skippable, Flags, Assignments
<1>6. \A h \in Programs : h \notin DOMAIN FlagsWithArg /\ h # "mise"
  BY WrapperNames, Zenon DEF Programs
<1>7. QED
  BY <1>1, <1>2, <1>3, <1>4, <1>5, <1>6

\* They are not stripped.
LEMMA ProgramInvoked ==
  ASSUME NEW s \in Seq(MemoryWords), s # <<>>, s[1] \in Programs
  PROVE  /\ Commanding(s)
         /\ StripLeadingNoise(CommandWords(s)) = CommandWords(s)
         /\ CommandWords(s) # <<>> /\ Base(CommandWords(s)[1]) = s[1]
<1>1. Commanding(s)
  BY ProgramWords DEF Commanding
<1> DEFINE c == CommandWords(s)
<1>2. c \in Seq(MemoryWords) /\ c # <<>> /\ c[1] = s[1]
  BY <1>1, CommandFirst
<1>3. /\ Base(s[1]) = s[1] /\ s[1] \notin Assignments
      /\ s[1] \notin DOMAIN FlagsWithArg /\ s[1] # "mise"
  BY ProgramWords
<1> HIDE DEF c
<1>4. AfterNoise(c) = c
  BY <1>2, <1>3, Zenon DEF AfterNoise
<1>5. StripLeadingNoise(c) = c
  BY <1>2, <1>4, StripOnce
<1>6. QED
  BY <1>1, <1>2, <1>3, <1>5 DEF c

\* Commands that are neither shells nor interpreters write the files they name.
LEMMA ProgramWrites ==
  ASSUME NEW s \in Seq(MemoryWords), s # <<>>, s[1] \in Programs \ (Shells \union Interpreters),
         NEW inner, NEW writing
  PROVE  SegmentWrites(s, inner, writing) <=>
            \/ \E t \in After(s, RedirectOperators) : IsMemoryPath(t)
            \/ \E p \in WrittenPaths(s[1], Tail(CommandWords(s))) : IsMemoryPath(p)
<1>1. /\ StripLeadingNoise(CommandWords(s)) = CommandWords(s)
      /\ CommandWords(s) # <<>> /\ Base(CommandWords(s)[1]) = s[1]
      /\ s[1] \notin Shells /\ s[1] \notin Interpreters
  BY ProgramInvoked
<1>2. QED
  BY <1>1, SegmentWritesIs, Zenon DEF WritesWith

\* Interpreters run programs.
LEMMA InterpreterRuns ==
  ASSUME NEW s \in Seq(MemoryWords), s # <<>>, s[1] \in Interpreters,
         NEW inner, NEW writing
  PROVE  SegmentWrites(s, inner, writing) <=>
            \/ \E t \in After(s, RedirectOperators) : IsMemoryPath(t)
            \/ InterpreterWrites(s[1], Tail(CommandWords(s)), After(s, {"<<"}))
<1>1. s[1] \in Programs /\ s[1] \notin Shells
  BY Zenon DEF Programs, Interpreters, Shells
<1>2. /\ StripLeadingNoise(CommandWords(s)) = CommandWords(s)
      /\ CommandWords(s) # <<>> /\ Base(CommandWords(s)[1]) = s[1]
  BY <1>1, ProgramInvoked
<1>3. QED
  BY <1>1, <1>2, SegmentWritesIs, Zenon DEF WritesWith

\* What is picked is what stands at the positions.
LEMMA PickedHas ==
  ASSUME NEW S, NEW s \in Seq(S), NEW P
  PROVE  ToSet(Picked(s, P)) = {s[i] : i \in DOMAIN s \intersect P}
<1> DEFINE Good == {t \in Seq(S) : ToSet(Picked(t, P)) = {t[i] : i \in DOMAIN t \intersect P}}
<1>1. <<>> \in Good
  <2>1. ToSet(Picked(<<>>, P)) = {}
    BY PickedEmpty DEF ToSet
  <2>2. QED
    BY <2>1
<1>2. ASSUME NEW t \in Seq(S), NEW e \in S, t \in Good PROVE Append(t, e) \in Good
  <2> DEFINE u == Append(t, e)
             n == Len(t)
  <2>1. /\ u \in Seq(S) /\ n \in Nat /\ DOMAIN u = 1..n + 1 /\ DOMAIN t = 1..n
        /\ u[n + 1] = e /\ \A i \in 1..n : u[i] = t[i]
    BY AppendProperties
  <2>2. Picked(t, P) \in Seq(S)
    BY PickedType
  <2>3. Picked(u, P) = IF n + 1 \in P THEN Append(Picked(t, P), e) ELSE Picked(t, P)
    BY PickedAppend
  <2> HIDE DEF u, n
  <2>4. ToSet(Picked(t, P)) = {t[i] : i \in DOMAIN t \intersect P}
    BY <1>2
  <2>5. CASE n + 1 \in P
    <3>1. ToSet(Picked(u, P)) = ToSet(Picked(t, P)) \union {e}
      BY <2>2, <2>3, <2>5, ToSetAppend
    <3>2. {u[i] : i \in DOMAIN u \intersect P} = {t[i] : i \in DOMAIN t \intersect P} \union {e}
      BY <2>1, <2>5
    <3>3. QED
      BY <2>1, <2>4, <3>1, <3>2 DEF u
  <2>6. CASE n + 1 \notin P
    <3>1. {u[i] : i \in DOMAIN u \intersect P} = {t[i] : i \in DOMAIN t \intersect P}
      BY <2>1, <2>6
    <3>2. QED
      BY <2>1, <2>3, <2>4, <2>6, <3>1 DEF u
  <2>7. QED
    BY <2>5, <2>6
<1> HIDE DEF Good
<1>3. s \in Good
  BY <1>1, <1>2, SequenceInduction
<1>4. QED
  BY <1>3 DEF Good

\* The words that follow others, in commands of each length that there is below.
LEMMA AfterNone ==
  ASSUME NEW words, NEW F, ToSet(words) \intersect F = {}
  PROVE  After(words, F) = {}
BY DEF After, ToSet

\* What follows a flag that is the first word, and no later one.
LEMMA AfterFirst ==
  ASSUME NEW S, NEW u \in Seq(S), Len(u) = 2, NEW F, u[1] \in F, u[2] \notin F
  PROVE  After(u, F) = {u[2]}
<1>1. DOMAIN u = 1..2 /\ 1 + 1 = 2 /\ 2 \in DOMAIN u
  OBVIOUS
<1>2. {i \in DOMAIN u : u[i] \in F} = {1}
  BY <1>1
<1>3. At(u, 1 + 1) = u[2]
  BY <1>1 DEF At
<1>4. QED
  BY <1>2, <1>3 DEF After

\* What follows a flag that is the second word.
LEMMA AfterSecond ==
  ASSUME NEW S, NEW u \in Seq(S), Len(u) = 3, NEW F, u[1] \in F, u[2] \notin F, u[3] \notin F
  PROVE  After(u, F) = {u[2]}
<1>1. DOMAIN u = 1..3 /\ 1 + 1 = 2 /\ 2 \in DOMAIN u
  OBVIOUS
<1>2. {i \in DOMAIN u : u[i] \in F} = {1}
  BY <1>1
<1>3. At(u, 1 + 1) = u[2]
  BY <1>1 DEF At
<1>4. QED
  BY <1>2, <1>3 DEF After

\* What follows a flag that is the third word.
LEMMA AfterThird ==
  ASSUME NEW S, NEW u \in Seq(S), Len(u) = 4, NEW F, u[1] \notin F, u[2] \notin F, u[3] \in F, u[4] \notin F
  PROVE  After(u, F) = {u[4]}
<1>1. DOMAIN u = 1..4 /\ 3 + 1 = 4 /\ 4 \in DOMAIN u
  OBVIOUS
<1>2. {i \in DOMAIN u : u[i] \in F} = {3}
  BY <1>1
<1>3. At(u, 3 + 1) = u[4]
  BY <1>1 DEF At
<1>4. QED
  BY <1>2, <1>3 DEF After

\* What follows a flag that is the fourth word.
LEMMA AfterFourth ==
  ASSUME NEW S, NEW u \in Seq(S), Len(u) = 5, NEW F, u[1] \notin F, u[2] \notin F, u[3] \notin F, u[4] \in F, u[5] \notin F
  PROVE  After(u, F) = {u[5]}
<1>1. DOMAIN u = 1..5 /\ 4 + 1 = 5 /\ 5 \in DOMAIN u
  OBVIOUS
<1>2. {i \in DOMAIN u : u[i] \in F} = {4}
  BY <1>1
<1>3. At(u, 4 + 1) = u[5]
  BY <1>1 DEF At
<1>4. QED
  BY <1>2, <1>3 DEF After

\* The operands among up to three words.
LEMMA OperandIs ==
  ASSUME NEW S, NEW args \in Seq(S), NEW K, NEW x
  PROVE  x \in ToSet(Operands(args, K)) <=>
            \E i \in DOMAIN args : args[i] \notin Flags /\ At(args, i - 1) \notin K /\ x = args[i]
<1> DEFINE P == {i \in DOMAIN args : /\ args[i] \notin Flags
                                      /\ At(args, i - 1) \notin K}
<1>1. Operands(args, K) = Picked(args, P)
  BY DEF Operands
<1>2. ToSet(Picked(args, P)) = {args[i] : i \in DOMAIN args \intersect P}
  <2> HIDE DEF P
  <2>1. QED
    BY PickedHas
<1>3. QED
  BY <1>1, <1>2

\* A single word is an operand unless it is a flag.
LEMMA OneOperand ==
  \A K, a, x : None \notin K => (x \in ToSet(Operands(<<a>>, K)) <=> a \notin Flags /\ x = a)
<1> SUFFICES ASSUME NEW K, NEW a, NEW x, None \notin K
             PROVE  x \in ToSet(Operands(<<a>>, K)) <=> a \notin Flags /\ x = a
  OBVIOUS
<1> DEFINE u == <<a>>
<1>1. u \in Seq({a}) /\ DOMAIN u = {1} /\ u[1] = a
  OBVIOUS
<1> HIDE DEF u
<1>2. At(u, 1 - 1) = None
  BY <1>1 DEF At
<1>3. x \in ToSet(Operands(u, K)) <=>
            \E i \in DOMAIN u : u[i] \notin Flags /\ At(u, i - 1) \notin K /\ x = u[i]
  BY <1>1, OperandIs
<1>4. x \in ToSet(Operands(u, K)) <=> a \notin Flags /\ x = a
  BY <1>1, <1>2, <1>3
<1>5. QED
  BY <1>4 DEF u

\* Which of three words are operands.
LEMMA ThreeOperands ==
  ASSUME NEW S, NEW u \in Seq(S), Len(u) = 3, NEW K, None \notin K
  PROVE  \A x : x \in ToSet(Operands(u, K)) <=>
             \/ u[1] \notin Flags /\ x = u[1]
             \/ u[2] \notin Flags /\ u[1] \notin K /\ x = u[2]
             \/ u[3] \notin Flags /\ u[2] \notin K /\ x = u[3]
<1>1. DOMAIN u = {1, 2, 3} /\ At(u, 1 - 1) = None /\ At(u, 2 - 1) = u[1] /\ At(u, 3 - 1) = u[2]
  <2>1. 1 - 1 = 0 /\ 2 - 1 = 1 /\ 3 - 1 = 2 /\ DOMAIN u = {1, 2, 3}
    OBVIOUS
  <2>2. QED
    BY <2>1 DEF At
<1>2. TAKE x
<1>3. x \in ToSet(Operands(u, K)) <=>
            \E i \in DOMAIN u : u[i] \notin Flags /\ At(u, i - 1) \notin K /\ x = u[i]
  BY OperandIs
<1>4. x \in ToSet(Operands(u, K)) <=>
         \/ u[1] \notin Flags /\ At(u, 1 - 1) \notin K /\ x = u[1]
         \/ u[2] \notin Flags /\ At(u, 2 - 1) \notin K /\ x = u[2]
         \/ u[3] \notin Flags /\ At(u, 3 - 1) \notin K /\ x = u[3]
  BY <1>1, <1>3, Zenon
<1>5. QED
  BY <1>1, <1>4

\* The last of at least two operands.
LEMMA LastOfTwo ==
  ASSUME NEW S, NEW t \in Seq(S), NEW d \in S, NEW e \in S, d \notin Flags, e \notin Flags,
         After(Append(Append(t, d), e), {"-t", "--target-directory"}) = {}
  PROVE  CopyDestinations(Append(Append(t, d), e)) = {e}
<1> DEFINE v == Append(t, d)
           u == Append(v, e)
           n == Len(t)
           Q == {i \in DOMAIN u : /\ u[i] \notin Flags
                                   /\ At(u, i - 1) \notin {}}
<1>1. /\ v \in Seq(S) /\ n \in Nat /\ Len(v) = n + 1 /\ v[n + 1] = d
  BY AppendProperties
<1>2. /\ u \in Seq(S) /\ Len(u) = Len(v) + 1 /\ u[Len(v) + 1] = e /\ DOMAIN u = 1..Len(v) + 1
      /\ \A i \in 1..Len(v) : u[i] = v[i]
  <2> HIDE DEF v
  <2>1. QED
    BY <1>1, AppendProperties
<1> HIDE DEF u
<1>3. n + 1 \in Q /\ Len(v) + 1 \in Q
  <2>1. n + 1 \in 1..Len(v) /\ n + 1 \in DOMAIN u /\ Len(v) + 1 \in DOMAIN u
    BY <1>1, <1>2
  <2> HIDE DEF v, n
  <2>2. u[n + 1] = d /\ u[Len(v) + 1] = e
    BY <1>1, <1>2, <2>1
  <2>3. QED
    BY <2>1, <2>2
<1> HIDE DEF Q
<1>4. Picked(v, Q) = Append(Picked(t, Q), d)
  BY <1>3, PickedAppend
<1>5. Picked(u, Q) = Append(Picked(v, Q), e)
  <2> HIDE DEF v
  <2>1. Picked(Append(v, e), Q) = IF Len(v) + 1 \in Q THEN Append(Picked(v, Q), e) ELSE Picked(v, Q)
    BY <1>1, PickedAppend
  <2>2. QED
    BY <1>3, <2>1 DEF u
<1>6. Operands(u, {}) = Append(Append(Picked(t, Q), d), e)
  BY <1>4, <1>5, Zenon DEF Operands, Q
<1> DEFINE p == Picked(t, Q)
<1>7. p \in Seq(S)
  BY PickedType
<1> HIDE DEF p
<1>8. Len(Append(Append(p, d), e)) > 1 /\ Last(Append(Append(p, d), e)) = e
  <2>1. Append(p, d) \in Seq(S) /\ Len(Append(p, d)) = Len(p) + 1 /\ Len(p) \in Nat
    BY <1>7, AppendProperties
  <2> DEFINE q == Append(p, d)
  <2>2. q \in Seq(S) /\ Len(q) \in Nat /\ Len(q) > 0
    BY <2>1
  <2> HIDE DEF q
  <2>3. Len(Append(q, e)) = Len(q) + 1 /\ Append(q, e)[Len(q) + 1] = e
    BY <2>2, AppendProperties
  <2>4. Len(Append(q, e)) > 1 /\ Append(q, e)[Len(Append(q, e))] = e
    BY <2>2, <2>3
  <2>5. QED
    BY <2>4 DEF q, Last
<1>9. After(u, {"-t", "--target-directory"}) = {}
  BY DEF u, v
<1>10. Len(Operands(u, {})) > 1 /\ Last(Operands(u, {})) = e
  BY <1>6, <1>8 DEF p
<1>11. CopyDestinations(u) = {e}
  BY <1>9, <1>10, Zenon DEF CopyDestinations
<1>12. QED
  BY <1>11 DEF u, v

\* The places below are paths of these lengths.
LEMMA ShortPaths ==
  \A a, b, c, d :
     /\ IsPrefix(<<a, b, c>>, <<a, b, c>>) /\ IsPrefix(<<a, b, c>>, <<a, b, c, d>>)
     /\ \A x, y, z : x # b => /\ ~IsPrefix(<<a, b, c>>, <<a, x, y>>)
                              /\ ~IsPrefix(<<a, b, c>>, <<a, x, y, z>>)
<1>1. /\ \A a, b, c : SubSeq(<<a, b, c>>, 1, 3) = <<a, b, c>> /\ Len(<<a, b, c>>) = 3
      /\ \A a, x, y, z : /\ SubSeq(<<a, x, y, z>>, 1, 3) = <<a, x, y>>
                          /\ Len(<<a, x, y, z>>) = 4
  <2>1. ASSUME NEW a, NEW b, NEW c
        PROVE  SubSeq(<<a, b, c>>, 1, 3) = <<a, b, c>> /\ Len(<<a, b, c>>) = 3
    <3> DEFINE u == <<a, b, c>>
    <3>1. u \in Seq({a, b, c}) /\ Len(u) = 3
      OBVIOUS
    <3> HIDE DEF u
    <3>2. SubSeq(u, 1, Len(u)) = u
      BY <3>1, FromFirst DEF From
    <3>3. QED
      BY <3>1, <3>2 DEF u
  <2>2. ASSUME NEW a, NEW x, NEW y, NEW z
        PROVE  SubSeq(<<a, x, y, z>>, 1, 3) = <<a, x, y>> /\ Len(<<a, x, y, z>>) = 4
    <3> DEFINE S == {a, x, y, z}
               t == <<a, x, y>>
               u == Append(t, z)
    <3>1. t \in Seq(S) /\ Len(t) = 3 /\ z \in S /\ <<a, x, y, z>> = u
      OBVIOUS
    <3>2. Len(<<a, x, y, z>>) = 4
      OBVIOUS
    <3> HIDE DEF t, S
    <3>3. SubSeq(Append(t, z), 1, 4 - 1) = SubSeq(t, 1, 4 - 1)
      <4>1. 4 \in 1..Len(t) + 1
        BY <3>1
      <4>2. t \in Seq(S) /\ z \in S
        BY <3>1
      <4>3. QED
        BY <4>1, <4>2, PrefixOfAppend
    <3>4. SubSeq(t, 1, Len(t)) = t
      BY <3>1, FromFirst DEF From
    <3>5. 4 - 1 = 3
      OBVIOUS
    <3>6. SubSeq(u, 1, 3) = t
      BY <3>1, <3>3, <3>4, <3>5
    <3>7. QED
      BY <3>1, <3>2, <3>6 DEF t
  <2>3. QED
    BY <2>1, <2>2
<1>2. \A a, b, c, x, y : x # b => <<a, b, c>> # <<a, x, y>>
  <2>1. \A a, b, c, x, y : <<a, b, c>>[2] = b /\ <<a, x, y>>[2] = x
    OBVIOUS
  <2>2. QED
    BY <2>1
<1>3. 3 <= 3 /\ 3 <= 4
  OBVIOUS
<1>4. \A s, t : IsPrefix(s, t) <=> Len(s) <= Len(t) /\ SubSeq(s, 1, Len(s)) = SubSeq(t, 1, Len(s))
  BY Zenon DEF IsPrefix
<1>5. ASSUME NEW a, NEW b, NEW c, NEW d
      PROVE  IsPrefix(<<a, b, c>>, <<a, b, c>>) /\ IsPrefix(<<a, b, c>>, <<a, b, c, d>>)
  BY <1>1, <1>3, <1>4, Zenon
<1>6. ASSUME NEW a, NEW b, NEW c, NEW x, NEW y, NEW z, x # b
      PROVE  ~IsPrefix(<<a, b, c>>, <<a, x, y>>) /\ ~IsPrefix(<<a, b, c>>, <<a, x, y, z>>)
  <2>1. <<a, b, c>> # <<a, x, y>>
    BY <1>2, <1>6
  <2> DEFINE p == <<a, b, c>>
             q == <<a, x, y>>
             r == <<a, x, y, z>>
  <2>2. Len(p) = 3 /\ SubSeq(p, 1, 3) = p /\ SubSeq(q, 1, 3) = q /\ SubSeq(r, 1, 3) = q
    BY <1>1
  <2> HIDE DEF p, q, r
  <2>3. ~IsPrefix(p, q) /\ ~IsPrefix(p, r)
    <3>1. p # q
      BY <2>1 DEF p, q
    <3>2. QED
      BY <1>4, <2>2, <3>1
  <2>4. QED
    BY <2>3 DEF p, q, r
<1>7. QED
  BY <1>5, <1>6

\* What is at the end of a path.
LEMMA EndOfThree ==
  \A a, b, c :
     /\ <<a, b, c>>[Len(<<a, b, c>>)] = c
     /\ At(<<a, b, c>>, Len(<<a, b, c>>) - 2) = a
<1> SUFFICES ASSUME NEW a, NEW b, NEW c
             PROVE  /\ <<a, b, c>>[Len(<<a, b, c>>)] = c
                    /\ At(<<a, b, c>>, Len(<<a, b, c>>) - 2) = a
  OBVIOUS
<1> DEFINE u == <<a, b, c>>
<1>1. DOMAIN u = 1..3 /\ Len(u) = 3 /\ u[3] = c /\ u[1] = a
  OBVIOUS
<1> HIDE DEF u
<1>2. Len(u) - 2 = 1 /\ 1 \in DOMAIN u
  BY <1>1
<1>3. u[Len(u)] = c /\ At(u, Len(u) - 2) = a
  BY <1>1, <1>2 DEF At
<1>4. QED
  BY <1>3 DEF u

\* The last of four words, and the one before it.
LEMMA EndOfFour ==
  \A a, b, c, d :
     /\ <<a, b, c, d>>[Len(<<a, b, c, d>>)] = d
     /\ At(<<a, b, c, d>>, Len(<<a, b, c, d>>) - 1) = c
<1> SUFFICES ASSUME NEW a, NEW b, NEW c, NEW d
             PROVE  /\ <<a, b, c, d>>[Len(<<a, b, c, d>>)] = d
                    /\ At(<<a, b, c, d>>, Len(<<a, b, c, d>>) - 1) = c
  OBVIOUS
<1> DEFINE u == <<a, b, c, d>>
<1>1. DOMAIN u = 1..4 /\ Len(u) = 4 /\ u[4] = d /\ u[3] = c
  OBVIOUS
<1> HIDE DEF u
<1>2. Len(u) - 1 = 3 /\ 3 \in DOMAIN u
  BY <1>1
<1>3. u[Len(u)] = d /\ At(u, Len(u) - 1) = c
  BY <1>1, <1>2 DEF At
<1>4. QED
  BY <1>3 DEF u

\* The last of five words, and those before it.
LEMMA EndOfFive ==
  \A a, b, c, d, e :
     /\ <<a, b, c, d, e>>[Len(<<a, b, c, d, e>>)] = e
     /\ At(<<a, b, c, d, e>>, Len(<<a, b, c, d, e>>) - 2) = c
     /\ At(<<a, b, c, d, e>>, Len(<<a, b, c, d, e>>) - 3) = b
<1> SUFFICES ASSUME NEW a, NEW b, NEW c, NEW d, NEW e
             PROVE  /\ <<a, b, c, d, e>>[Len(<<a, b, c, d, e>>)] = e
                    /\ At(<<a, b, c, d, e>>, Len(<<a, b, c, d, e>>) - 2) = c
                    /\ At(<<a, b, c, d, e>>, Len(<<a, b, c, d, e>>) - 3) = b
  OBVIOUS
<1> DEFINE u == <<a, b, c, d, e>>
<1>1. DOMAIN u = 1..5 /\ Len(u) = 5 /\ u[5] = e /\ u[3] = c /\ u[2] = b
  OBVIOUS
<1> HIDE DEF u
<1>2. Len(u) - 2 = 3 /\ 3 \in DOMAIN u /\ Len(u) - 3 = 2 /\ 2 \in DOMAIN u
  BY <1>1
<1>3. u[Len(u)] = e /\ At(u, Len(u) - 2) = c /\ At(u, Len(u) - 3) = b
  BY <1>1, <1>2 DEF At
<1>4. QED
  BY <1>3 DEF u

\* The last of six words, and those before it.
LEMMA EndOfSix ==
  \A a, b, c, d, e, f :
     /\ <<a, b, c, d, e, f>>[Len(<<a, b, c, d, e, f>>)] = f
     /\ At(<<a, b, c, d, e, f>>, Len(<<a, b, c, d, e, f>>) - 1) = e
<1> SUFFICES ASSUME NEW a, NEW b, NEW c, NEW d, NEW e, NEW f
             PROVE  /\ <<a, b, c, d, e, f>>[Len(<<a, b, c, d, e, f>>)] = f
                    /\ At(<<a, b, c, d, e, f>>, Len(<<a, b, c, d, e, f>>) - 1) = e
  OBVIOUS
<1> DEFINE u == <<a, b, c, d, e, f>>
<1>1. DOMAIN u = 1..6 /\ Len(u) = 6 /\ u[6] = f /\ u[5] = e
  OBVIOUS
<1> HIDE DEF u
<1>2. Len(u) - 1 = 5 /\ 5 \in DOMAIN u
  BY <1>1
<1>3. u[Len(u)] = f /\ At(u, Len(u) - 1) = e
  BY <1>1, <1>2 DEF At
<1>4. QED
  BY <1>3 DEF u

\* Paths that name memory by how they end.
LEMMA NamedByEnd ==
  /\ \A a, b, c, d, e, f : f \in Markdown /\ e = "memory" => NamesMemory(<<a, b, c, d, e, f>>)
  /\ \A a, b, c, d, e : e = "memory" /\ c = "projects" /\ b = ".claude" =>
                            NamesMemory(<<a, b, c, d, e>>)
  /\ \A a, b, c, d : d \in Markdown /\ c = "memory" => NamesMemory(<<a, b, c, d>>)
<1>1. ASSUME NEW a, NEW b, NEW c, NEW d, NEW e, NEW f, f \in Markdown, e = "memory"
      PROVE  NamesMemory(<<a, b, c, d, e, f>>)
  <2> DEFINE u == <<a, b, c, d, e, f>>
  <2>1. u[Len(u)] = f /\ At(u, Len(u) - 1) = e
    BY EndOfSix
  <2> HIDE DEF u
  <2>2. NamesMemory(u)
    BY <1>1, <2>1, Zenon DEF NamesMemory
  <2>3. QED
    BY <2>2 DEF u
<1>2. ASSUME NEW a, NEW b, NEW c, NEW d, NEW e, e = "memory", c = "projects", b = ".claude"
      PROVE  NamesMemory(<<a, b, c, d, e>>)
  <2> DEFINE u == <<a, b, c, d, e>>
  <2>1. u[Len(u)] = e /\ At(u, Len(u) - 2) = c /\ At(u, Len(u) - 3) = b
    BY EndOfFive
  <2> HIDE DEF u
  <2>2. NamesMemory(u)
    BY <1>2, <2>1, Zenon DEF NamesMemory
  <2>3. QED
    BY <2>2 DEF u
<1>3. ASSUME NEW a, NEW b, NEW c, NEW d, d \in Markdown, c = "memory"
      PROVE  NamesMemory(<<a, b, c, d>>)
  <2> DEFINE u == <<a, b, c, d>>
  <2>1. u[Len(u)] = d /\ At(u, Len(u) - 1) = c
    BY EndOfFour
  <2> HIDE DEF u
  <2>2. NamesMemory(u)
    BY <1>3, <2>1, Zenon DEF NamesMemory
  <2>3. QED
    BY <2>2 DEF u
<1>4. QED
  BY <1>1, <1>2, <1>3

\* Which paths name memory, or seem to.
LEMMA PathsName ==
  /\ NamesMemory(<<"~", ".codex", "memories">>)
  /\ NamesMemory(<<"~", ".claude", "projects", "p", "memory", "n.md">>)
  /\ NamesMemory(<<"~", ".claude", "projects", "p", "memory">>)
  /\ NamesMemory(<<"~", ".codex", "memories", "x">>)
  /\ NamesMemory(<<"~", "docs", "memory", "n.md">>)
  /\ ~NamesMemory(<<"~", "docs", "memory">>)
  /\ ~NamesMemory(<<"~", "docs", "memory", "n.txt">>)
<1>1. NamesMemory(<<"~", ".codex", "memories">>) /\ NamesMemory(<<"~", ".codex", "memories", "x">>)
  BY ShortPaths, Zenon DEF NamesMemory
<1>2. NamesMemory(<<"~", ".claude", "projects", "p", "memory", "n.md">>)
  BY NamedByEnd, Zenon DEF Markdown
<1>3. NamesMemory(<<"~", ".claude", "projects", "p", "memory">>)
  BY NamedByEnd, Zenon
<1>4. ~NamesMemory(<<"~", "docs", "memory">>)
  <2> DEFINE u == <<"~", "docs", "memory">>
  <2>1. u[Len(u)] = "memory" /\ At(u, Len(u) - 2) = "~"
    BY EndOfThree, Zenon
  <2>2. ~IsPrefix(<<"~", ".codex", "memories">>, u)
    BY ShortPaths, "docs" # ".codex", Zenon
  <2> HIDE DEF u
  <2>3. "memory" \notin Markdown /\ "~" # "projects"
    BY Zenon DEF Markdown
  <2>4. ~NamesMemory(u)
    BY <2>1, <2>2, <2>3, Zenon DEF NamesMemory
  <2>5. QED
    BY <2>4 DEF u
<1>5. ~NamesMemory(<<"~", "docs", "memory", "n.txt">>)
  <2> DEFINE u == <<"~", "docs", "memory", "n.txt">>
  <2>1. u[Len(u)] = "n.txt"
    BY EndOfFour, Zenon
  <2>2. ~IsPrefix(<<"~", ".codex", "memories">>, u)
    BY ShortPaths, "docs" # ".codex", Zenon
  <2> HIDE DEF u
  <2>3. "n.txt" \notin Markdown /\ "n.txt" # "memory"
    BY Zenon DEF Markdown
  <2>4. ~NamesMemory(u)
    BY <2>1, <2>2, <2>3, Zenon DEF NamesMemory
  <2>5. QED
    BY <2>4 DEF u
<1>6. NamesMemory(<<"~", "docs", "memory", "n.md">>)
  BY NamedByEnd, Zenon DEF Markdown
<1>7. QED
  BY <1>1, <1>2, <1>3, <1>4, <1>5, <1>6

\* Exactly these places are memory or taken for it, however they are reached.
LEMMA MemoryPathIs == \A word : IsMemoryPath(word) <=> word \in TakenForMemory
<1>1. DOMAIN Places = {"store", "note", "folder", "link", "docs", "log", "stray"}
  BY DEF Places
<1>2. /\ Places["store"] = {<<"~", ".codex", "memories">>}
      /\ Places["note"] = {<<"~", ".claude", "projects", "p", "memory", "n.md">>}
      /\ Places["folder"] = {<<"~", ".claude", "projects", "p", "memory">>}
      /\ Places["link"] = {<<"~", "x">>, <<"~", ".codex", "memories", "x">>}
      /\ Places["docs"] = {<<"~", "docs", "memory">>}
      /\ Places["log"] = {<<"~", "docs", "memory", "n.txt">>}
      /\ Places["stray"] = {<<"~", "docs", "memory", "n.md">>}
  BY DEF Places
<1>3. /\ IsMemoryPath("store") /\ IsMemoryPath("note") /\ IsMemoryPath("folder")
      /\ IsMemoryPath("link") /\ IsMemoryPath("stray")
  BY <1>1, <1>2, PathsName, Zenon DEF IsMemoryPath
<1>4. ~IsMemoryPath("docs") /\ ~IsMemoryPath("log")
  BY <1>1, <1>2, PathsName, Zenon DEF IsMemoryPath
<1>5. \A word : word \notin DOMAIN Places => ~IsMemoryPath(word)
  BY Zenon DEF IsMemoryPath
<1>6. QED
  BY <1>1, <1>3, <1>4, <1>5, Zenon DEF TakenForMemory, MemoryPlaces

\* A segment writes memory or not, whatever it is wrapped in.
SegmentJudged(seg, fatal) ==
    Commanding(seg) /\ \A inner, writing : Identifies(seg, inner, writing) <=> fatal

\* Words with no meaning to the shell.
Plain == MemoryWords \ (Operators \union {"'"})

\* Programs that write nothing but where they are redirected to.
Readers == {"cat", "rm", "grep", "echo", "make", "cd"}

\* Readers are programs that write no operand.
LEMMA ReaderNames ==
  \A h \in Readers : h \in Programs \ (Shells \union Interpreters) /\ \A args : WrittenPaths(h, args) = {}
<1>1. \A h \in Readers : h \in Programs
  BY Zenon DEF Readers, Programs
<1>2. \A h \in Readers : h \notin Shells /\ h \notin Interpreters
  BY Zenon DEF Readers, Shells, Interpreters
<1>3. ASSUME NEW h \in Readers, NEW args PROVE WrittenPaths(h, args) = {}
  <2>1. /\ h # "tee" /\ h # "touch" /\ h # "truncate" /\ h # "sed" /\ h # "dd"
        /\ h \notin {"cp", "mv", "install", "ln"}
    BY Zenon DEF Readers
  <2>2. QED
    BY <2>1, Zenon DEF WrittenPaths
<1>4. QED
  BY <1>1, <1>2, <1>3

\* A reader writes memory if it is redirected there.
LEMMA ReaderJudged ==
  ASSUME NEW s \in Seq(MemoryWords), s # <<>>, s[1] \in Readers, "'" \notin ToSet(s),
         NEW fatal \in BOOLEAN,
         (\E t \in After(s, RedirectOperators) : IsMemoryPath(t)) <=> fatal
  PROVE  SegmentJudged(s, fatal)
<1>1. s[1] \in Programs \ (Shells \union Interpreters) /\ \A args : WrittenPaths(s[1], args) = {}
  BY ReaderNames
<1>2. Commanding(s)
  BY <1>1, ProgramInvoked
<1>3. ASSUME NEW inner, NEW writing PROVE Identifies(s, inner, writing) <=> fatal
  <2>1. SegmentWrites(s, inner, writing) <=>
            \/ \E t \in After(s, RedirectOperators) : IsMemoryPath(t)
            \/ \E p \in WrittenPaths(s[1], Tail(CommandWords(s))) : IsMemoryPath(p)
    BY <1>1, ProgramWrites
  <2>2. WrittenPaths(s[1], Tail(CommandWords(s))) = {}
    BY <1>1, Zenon
  <2>3. QED
    BY <2>1, <2>2, Zenon DEF Identifies
<1>4. QED
  BY <1>2, <1>3 DEF SegmentJudged

\* A segment without redirections is its command.
LEMMA WholeCommand ==
  ASSUME NEW s \in Seq(MemoryWords), ToSet(s) \subseteq Plain
  PROVE  CommandWords(s) = s /\ After(s, RedirectOperators) = {} /\ "'" \notin ToSet(s)
<1>1. \A i \in DOMAIN s : s[i] \in ToSet(s)
  BY DEF ToSet
<1>2. \A x \in ToSet(s) : x \notin Operators
  BY DEF Plain
<1>3. None \notin Operators
  BY EnvWords
<1>4. \A i : At(s, i) \notin Operators
  BY <1>1, <1>2, <1>3 DEF At
<1>5. DOMAIN s \subseteq WordsAt(s)
  <2>1. ASSUME NEW i \in DOMAIN s PROVE WordAt(s, i)
    <3>1. s[i] \notin Operators
      BY <1>1, <1>2
    <3>2. QED
      BY <1>4, <3>1, Zenon DEF WordAt
  <2>2. QED
    BY <2>1 DEF WordsAt
<1>6. 1..Len(s) \subseteq WordsAt(s)
  BY <1>5
<1>7. Picked(s, WordsAt(s)) = s
  BY <1>6, PickedAll
<1>8. CommandWords(s) = s
  BY <1>7, CommandWordsAre
<1>9. After(s, RedirectOperators) = {}
  <2>1. ToSet(s) \intersect RedirectOperators = {}
    BY <1>2, EnvWords
  <2>2. QED
    BY <2>1, AfterNone
<1>10. "'" \notin ToSet(s)
  BY DEF Plain
<1>11. QED
  BY <1>8, <1>9, <1>10

\* A writer writes memory if it writes such an operand.
LEMMA WriterJudged ==
  ASSUME NEW s \in Seq(MemoryWords), s # <<>>, s[1] \in Programs \ (Shells \union Interpreters),
         ToSet(s) \subseteq Plain, NEW fatal \in BOOLEAN,
         (\E p \in WrittenPaths(s[1], Tail(s)) : IsMemoryPath(p)) <=> fatal
  PROVE  SegmentJudged(s, fatal)
<1>1. CommandWords(s) = s /\ After(s, RedirectOperators) = {} /\ "'" \notin ToSet(s)
  BY WholeCommand
<1>2. Commanding(s)
  BY ProgramInvoked
<1>3. ASSUME NEW inner, NEW writing PROVE Identifies(s, inner, writing) <=> fatal
  <2>1. SegmentWrites(s, inner, writing) <=>
            \/ \E t \in After(s, RedirectOperators) : IsMemoryPath(t)
            \/ \E p \in WrittenPaths(s[1], Tail(CommandWords(s))) : IsMemoryPath(p)
    BY ProgramWrites
  <2>2. QED
    BY <1>1, <2>1, Zenon DEF Identifies
<1>4. QED
  BY <1>2, <1>3 DEF SegmentJudged

\* An interpreter writes memory if its program does.
LEMMA InterpreterJudged ==
  ASSUME NEW s \in Seq(MemoryWords), s # <<>>, s[1] \in Interpreters, "'" \notin ToSet(s),
         After(s, RedirectOperators) = {}, NEW fatal \in BOOLEAN,
         InterpreterWrites(s[1], Tail(CommandWords(s)), After(s, {"<<"})) <=> fatal
  PROVE  SegmentJudged(s, fatal)
<1>1. s[1] \in Programs
  BY Zenon DEF Programs, Interpreters
<1>2. Commanding(s)
  BY <1>1, ProgramInvoked
<1>3. ASSUME NEW inner, NEW writing PROVE Identifies(s, inner, writing) <=> fatal
  <2>1. SegmentWrites(s, inner, writing) <=>
            \/ \E t \in After(s, RedirectOperators) : IsMemoryPath(t)
            \/ InterpreterWrites(s[1], Tail(CommandWords(s)), After(s, {"<<"}))
    BY InterpreterRuns
  <2>2. QED
    BY <2>1, Zenon DEF Identifies
<1>4. QED
  BY <1>2, <1>3 DEF SegmentJudged

\* A segment that cannot be lexed passes.
LEMMA UnreadableJudged ==
  ASSUME NEW s \in Seq(MemoryWords), s # <<>>, s[1] \in Programs, "'" \in ToSet(s)
  PROVE  SegmentJudged(s, FALSE)
<1>1. Commanding(s)
  BY ProgramInvoked
<1>2. QED
  BY <1>1, Zenon DEF SegmentJudged, Identifies

\* Commands by their words.
Worded(s, first, rest, words) ==
    /\ s \in Seq(MemoryWords) /\ s # <<>> /\ s[1] = first /\ Tail(s) = rest
    /\ ToSet(s) = words

\* Two words as a sequence.
LEMMA WordsOfTwo ==
  \A a, b : {a, b} \subseteq MemoryWords =>
     /\ Worded(<<a, b>>, a, <<b>>, {a, b})
     /\ Worded(<<a, b>>, a, Tail(<<a, b>>), {a, b})
<1> TAKE a, b
<1> HAVE {a, b} \subseteq MemoryWords
<1> DEFINE s == <<a, b>>
<1>1. s # <<>> /\ s[1] = a
  OBVIOUS
<1>2. s \in Seq(MemoryWords)
  OBVIOUS
<1>3. Tail(s) = <<b>>
  OBVIOUS
<1>4. DOMAIN s = {1, 2} /\ s[1] = a /\ s[2] = b
  OBVIOUS
<1> HIDE DEF s
<1>5. ToSet(s) = {a, b}
  BY <1>4 DEF ToSet
<1>6. Worded(s, a, <<b>>, {a, b}) /\ Worded(s, a, Tail(s), {a, b})
  BY <1>1, <1>2, <1>3, <1>5, Zenon DEF Worded
<1>7. QED
  BY <1>6 DEF s

\* Three words as a sequence.
LEMMA WordsOfThree ==
  \A a, b, c : {a, b, c} \subseteq MemoryWords =>
     /\ Worded(<<a, b, c>>, a, <<b, c>>, {a, b, c})
     /\ Worded(<<a, b, c>>, a, Tail(<<a, b, c>>), {a, b, c})
<1> TAKE a, b, c
<1> HAVE {a, b, c} \subseteq MemoryWords
<1> DEFINE s == <<a, b, c>>
<1>1. s # <<>> /\ s[1] = a
  OBVIOUS
<1>2. s \in Seq(MemoryWords)
  OBVIOUS
<1>3. Tail(s) = <<b, c>>
  OBVIOUS
<1>4. DOMAIN s = {1, 2, 3} /\ s[1] = a /\ s[2] = b /\ s[3] = c
  OBVIOUS
<1> HIDE DEF s
<1>5. ToSet(s) = {a, b, c}
  BY <1>4 DEF ToSet
<1>6. Worded(s, a, <<b, c>>, {a, b, c}) /\ Worded(s, a, Tail(s), {a, b, c})
  BY <1>1, <1>2, <1>3, <1>5, Zenon DEF Worded
<1>7. QED
  BY <1>6 DEF s

\* Four words as a sequence.
LEMMA WordsOfFour ==
  \A a, b, c, d : {a, b, c, d} \subseteq MemoryWords =>
     /\ Worded(<<a, b, c, d>>, a, <<b, c, d>>, {a, b, c, d})
     /\ Worded(<<a, b, c, d>>, a, Tail(<<a, b, c, d>>), {a, b, c, d})
<1> TAKE a, b, c, d
<1> HAVE {a, b, c, d} \subseteq MemoryWords
<1> DEFINE s == <<a, b, c, d>>
<1>1. s # <<>> /\ s[1] = a
  OBVIOUS
<1>2. s \in Seq(MemoryWords)
  OBVIOUS
<1>3. Tail(s) = <<b, c, d>>
  OBVIOUS
<1>4. DOMAIN s = {1, 2, 3, 4} /\ s[1] = a /\ s[2] = b /\ s[3] = c /\ s[4] = d
  OBVIOUS
<1> HIDE DEF s
<1>5. ToSet(s) = {a, b, c, d}
  BY <1>4 DEF ToSet
<1>6. Worded(s, a, <<b, c, d>>, {a, b, c, d}) /\ Worded(s, a, Tail(s), {a, b, c, d})
  BY <1>1, <1>2, <1>3, <1>5, Zenon DEF Worded
<1>7. QED
  BY <1>6 DEF s

\* Five words as a sequence.
LEMMA WordsOfFive ==
  \A a, b, c, d, e : {a, b, c, d, e} \subseteq MemoryWords =>
     /\ Worded(<<a, b, c, d, e>>, a, <<b, c, d, e>>, {a, b, c, d, e})
     /\ Worded(<<a, b, c, d, e>>, a, Tail(<<a, b, c, d, e>>), {a, b, c, d, e})
<1> TAKE a, b, c, d, e
<1> HAVE {a, b, c, d, e} \subseteq MemoryWords
<1> DEFINE s == <<a, b, c, d, e>>
<1>1. s # <<>> /\ s[1] = a
  OBVIOUS
<1>2. s \in Seq(MemoryWords)
  OBVIOUS
<1>3. Tail(s) = <<b, c, d, e>>
  OBVIOUS
<1>4. DOMAIN s = {1, 2, 3, 4, 5} /\ s[1] = a /\ s[2] = b /\ s[3] = c /\ s[4] = d /\ s[5] = e
  OBVIOUS
<1> HIDE DEF s
<1>5. ToSet(s) = {a, b, c, d, e}
  BY <1>4 DEF ToSet
<1>6. Worded(s, a, <<b, c, d, e>>, {a, b, c, d, e}) /\ Worded(s, a, Tail(s), {a, b, c, d, e})
  BY <1>1, <1>2, <1>3, <1>5, Zenon DEF Worded
<1>7. QED
  BY <1>6 DEF s

\* The words of the commands below that mean nothing to the shell.
Arguments ==
    {"x", "y", "2", "0", "-a", "-c", "-i", "-r", "-s", "-t", "-", "s/a/b/", "if=x",
     "of=note", "script", "write note", "write docs", "payload", "dir"}

\* Arguments are plain, some are flags and none is a place.
LEMMA ArgumentWords ==
  /\ \A a \in Arguments \union DOMAIN Places \union Programs : a \in Plain
  /\ \A a \in DOMAIN Places \union Programs : a \notin Flags
  /\ \A a \in Arguments : a \notin TakenForMemory
  /\ "docs" \in DOMAIN Places /\ "docs" \notin TakenForMemory
  /\ \A a \in {"x", "y", "0", "s/a/b/", "if=x", "of=note", "script", "write note", "-"} :
        a \notin Flags
  /\ {"-a", "-c", "-i", "-r", "-s", "-t"} \subseteq Flags
  /\ TakenForMemory \subseteq DOMAIN Places
<1>1. DOMAIN Places = {"store", "note", "folder", "link", "docs", "log", "stray"}
  BY DEF Places
<1>2. \A a \in Arguments : a \in MemoryWords /\ a \notin Operators /\ a # "'"
  <2>1. \A a \in Arguments : a \in MemoryWords
    BY Zenon DEF Arguments, MemoryWords
  <2>2. \A a \in Arguments : a \notin Operators
    BY Zenon DEF Arguments, Operators, RedirectOperators
  <2>3. \A a \in Arguments : a # "'"
    BY Zenon DEF Arguments
  <2>4. QED
    BY <2>1, <2>2, <2>3
<1>3. \A a \in DOMAIN Places : a \in MemoryWords /\ a \notin Operators /\ a # "'"
  BY <1>1, Zenon DEF MemoryWords, Operators, RedirectOperators
<1>4. \A a \in Programs : a # "'" /\ a \in MemoryWords /\ a \notin Operators
  BY ProgramWords, Zenon DEF Programs
<1>5. \A a \in Arguments \union DOMAIN Places \union Programs : a \in Plain
  BY <1>2, <1>3, <1>4 DEF Plain
<1>6. \A a \in DOMAIN Places : a \notin Flags
  BY <1>1, Zenon DEF Flags
<1>7. \A a \in Programs : a \notin Flags
  BY Zenon DEF Programs, Flags
<1>8. \A a \in Arguments : a \notin TakenForMemory
  BY Zenon DEF Arguments, TakenForMemory, MemoryPlaces
<1>13. "docs" \in DOMAIN Places /\ "docs" \notin TakenForMemory
  BY <1>1, Zenon DEF TakenForMemory, MemoryPlaces
<1>9. \A a \in {"x", "y", "0", "s/a/b/", "if=x", "of=note", "script", "write note", "-"} :
        a \notin Flags
  BY Zenon DEF Flags
<1>10. {"-a", "-c", "-i", "-r", "-s", "-t"} \subseteq Flags
  BY Zenon DEF Flags
<1>11. TakenForMemory \subseteq DOMAIN Places
  BY <1>1, Zenon DEF TakenForMemory, MemoryPlaces
<1>12. QED
  BY <1>5, <1>6, <1>7, <1>8, <1>13, <1>9, <1>10, <1>11

\* Readers write where they are redirected to.
LEMMA ReaderCommands ==
  \A a, b, c, d, e : a \in Readers /\ {b, c, d, e} \subseteq MemoryWords \ {"'"} =>
     /\ {b, c, d} \intersect RedirectOperators = {} =>
           /\ SegmentJudged(<<a, b>>, FALSE) /\ SegmentJudged(<<a, b, c>>, FALSE)
           /\ SegmentJudged(<<a, b, c, d>>, FALSE)
     /\ c \in RedirectOperators /\ {b, d} \intersect RedirectOperators = {} =>
           SegmentJudged(<<a, b, c, d>>, d \in TakenForMemory)
     /\ d \in RedirectOperators /\ {b, c, e} \intersect RedirectOperators = {} =>
           SegmentJudged(<<a, b, c, d, e>>, e \in TakenForMemory)
<1> TAKE a, b, c, d, e
<1> HAVE a \in Readers /\ {b, c, d, e} \subseteq MemoryWords \ {"'"}
<1>1. /\ a \in MemoryWords /\ a # "'" /\ a \notin RedirectOperators
      /\ {a, b, c, d, e} \subseteq MemoryWords /\ "'" \notin {a, b, c, d, e}
      /\ {a, b} \subseteq MemoryWords /\ {a, b, c} \subseteq MemoryWords
      /\ {a, b, c, d} \subseteq MemoryWords
  <2>1. a \in Programs
    BY ReaderNames
  <2>2. a \in Plain
    BY <2>1, ArgumentWords
  <2>3. QED
    BY <2>2, EnvWords DEF Plain
<1>2. ASSUME {b, c, d} \intersect RedirectOperators = {}
      PROVE  SegmentJudged(<<a, b>>, FALSE)
  <2> DEFINE s == <<a, b>>
  <2>0. {a, b} \subseteq MemoryWords
    BY <1>1
  <2>1. s \in Seq(MemoryWords) /\ s # <<>> /\ s[1] = a /\ ToSet(s) = {a, b}
    <3>1. Worded(s, a, Tail(s), {a, b})
      BY <2>0, WordsOfTwo, Zenon
    <3>2. QED
      BY <3>1, Zenon DEF Worded
  <2> HIDE DEF s
  <2>2. After(s, RedirectOperators) = {}
    BY <1>1, <1>2, <2>1, AfterNone
  <2>3. SegmentJudged(s, FALSE)
    <3>1. s[1] \in Readers /\ "'" \notin ToSet(s)
      BY <1>1, <2>1
    <3>2. (\E t \in After(s, RedirectOperators) : IsMemoryPath(t)) <=> FALSE
      BY <2>2
    <3>3. QED
      BY <2>1, <3>1, <3>2, ReaderJudged
  <2>4. QED
    BY <2>3 DEF s
<1>3. ASSUME {b, c, d} \intersect RedirectOperators = {}
      PROVE  SegmentJudged(<<a, b, c>>, FALSE)
  <2> DEFINE s == <<a, b, c>>
  <2>0. {a, b, c} \subseteq MemoryWords
    BY <1>1
  <2>1. s \in Seq(MemoryWords) /\ s # <<>> /\ s[1] = a /\ ToSet(s) = {a, b, c}
    <3>1. Worded(s, a, Tail(s), {a, b, c})
      BY <2>0, WordsOfThree, Zenon
    <3>2. QED
      BY <3>1, Zenon DEF Worded
  <2> HIDE DEF s
  <2>2. After(s, RedirectOperators) = {}
    BY <1>1, <1>3, <2>1, AfterNone
  <2>3. SegmentJudged(s, FALSE)
    <3>1. s[1] \in Readers /\ "'" \notin ToSet(s)
      BY <1>1, <2>1
    <3>2. (\E t \in After(s, RedirectOperators) : IsMemoryPath(t)) <=> FALSE
      BY <2>2
    <3>3. QED
      BY <2>1, <3>1, <3>2, ReaderJudged
  <2>4. QED
    BY <2>3 DEF s
<1>4. ASSUME {b, c, d} \intersect RedirectOperators = {}
      PROVE  SegmentJudged(<<a, b, c, d>>, FALSE)
  <2> DEFINE s == <<a, b, c, d>>
  <2>0. {a, b, c, d} \subseteq MemoryWords
    BY <1>1
  <2>1. s \in Seq(MemoryWords) /\ s # <<>> /\ s[1] = a /\ ToSet(s) = {a, b, c, d}
    <3>1. Worded(s, a, Tail(s), {a, b, c, d})
      BY <2>0, WordsOfFour, Zenon
    <3>2. QED
      BY <3>1, Zenon DEF Worded
  <2> HIDE DEF s
  <2>2. After(s, RedirectOperators) = {}
    BY <1>1, <1>4, <2>1, AfterNone
  <2>3. SegmentJudged(s, FALSE)
    <3>1. s[1] \in Readers /\ "'" \notin ToSet(s)
      BY <1>1, <2>1
    <3>2. (\E t \in After(s, RedirectOperators) : IsMemoryPath(t)) <=> FALSE
      BY <2>2
    <3>3. QED
      BY <2>1, <3>1, <3>2, ReaderJudged
  <2>4. QED
    BY <2>3 DEF s
<1>5. ASSUME c \in RedirectOperators, b \notin RedirectOperators, d \notin RedirectOperators
      PROVE  SegmentJudged(<<a, b, c, d>>, d \in TakenForMemory)
  <2> DEFINE s == <<a, b, c, d>>
             fatal == d \in TakenForMemory
  <2>0. {a, b, c, d} \subseteq MemoryWords
    BY <1>1
  <2>1. s \in Seq(MemoryWords) /\ s # <<>> /\ s[1] = a /\ ToSet(s) = {a, b, c, d}
    <3>1. Worded(s, a, Tail(s), {a, b, c, d})
      BY <2>0, WordsOfFour, Zenon
    <3>2. QED
      BY <3>1, Zenon DEF Worded
  <2>2. Len(s) = 4 /\ s[1] = a /\ s[2] = b /\ s[3] = c /\ s[4] = d
    OBVIOUS
  <2> HIDE DEF s
  <2>7. After(s, RedirectOperators) = {d}
    <3>1. s \in Seq(MemoryWords)
      BY <2>1
    <3>2. After(s, RedirectOperators) = {s[4]}
      <4>1. /\ s[1] \notin RedirectOperators
            /\ s[2] \notin RedirectOperators
            /\ s[3] \in RedirectOperators
            /\ s[4] \notin RedirectOperators
        BY <1>1, <1>5, <2>2
      <4>2. QED
        BY <2>2, <3>1, <4>1, AfterThird
    <3>3. QED
      BY <2>2, <3>2
  <2>3. (\E t \in After(s, RedirectOperators) : IsMemoryPath(t)) <=> fatal
    BY <2>7, MemoryPathIs, Zenon
  <2>4. fatal \in BOOLEAN
    OBVIOUS
  <2> HIDE DEF fatal
  <2>5. SegmentJudged(s, fatal)
    <3>1. s[1] \in Readers /\ "'" \notin ToSet(s)
      BY <1>1, <2>1
    <3>2. QED
      BY <2>1, <2>3, <2>4, <3>1, ReaderJudged
  <2>6. QED
    BY <2>5 DEF s, fatal
<1>6. ASSUME d \in RedirectOperators, b \notin RedirectOperators, c \notin RedirectOperators,
             e \notin RedirectOperators
      PROVE  SegmentJudged(<<a, b, c, d, e>>, e \in TakenForMemory)
  <2> DEFINE s == <<a, b, c, d, e>>
             fatal == e \in TakenForMemory
  <2>0. {a, b, c, d, e} \subseteq MemoryWords
    BY <1>1
  <2>1. s \in Seq(MemoryWords) /\ s # <<>> /\ s[1] = a /\ ToSet(s) = {a, b, c, d, e}
    <3>1. Worded(s, a, Tail(s), {a, b, c, d, e})
      BY <2>0, WordsOfFive, Zenon
    <3>2. QED
      BY <3>1, Zenon DEF Worded
  <2>2. Len(s) = 5 /\ s[1] = a /\ s[2] = b /\ s[3] = c /\ s[4] = d /\ s[5] = e
    OBVIOUS
  <2> HIDE DEF s
  <2>7. After(s, RedirectOperators) = {e}
    <3>1. s \in Seq(MemoryWords)
      BY <2>1
    <3>2. After(s, RedirectOperators) = {s[5]}
      <4>1. /\ s[1] \notin RedirectOperators
            /\ s[2] \notin RedirectOperators
            /\ s[3] \notin RedirectOperators
            /\ s[4] \in RedirectOperators
            /\ s[5] \notin RedirectOperators
        BY <1>1, <1>6, <2>2
      <4>2. QED
        BY <2>2, <3>1, <4>1, AfterFourth
    <3>3. QED
      BY <2>2, <3>2
  <2>3. (\E t \in After(s, RedirectOperators) : IsMemoryPath(t)) <=> fatal
    BY <2>7, MemoryPathIs, Zenon
  <2>4. fatal \in BOOLEAN
    OBVIOUS
  <2> HIDE DEF fatal
  <2>5. SegmentJudged(s, fatal)
    <3>1. s[1] \in Readers /\ "'" \notin ToSet(s)
      BY <1>1, <2>1
    <3>2. QED
      BY <2>1, <2>3, <2>4, <3>1, ReaderJudged
  <2>6. QED
    BY <2>5 DEF s, fatal
<1>7. QED
  BY <1>2, <1>3, <1>4, <1>5, <1>6

\* What of these operands is memory.
LEMMA OperandMemory ==
  \A K, a, b, c : None \notin K =>
     /\ a \in Flags /\ a \notin K /\ b \notin Flags /\ b \notin K /\ c \notin Flags
           /\ b \notin TakenForMemory =>
           ((\E p \in ToSet(Operands(<<a, b, c>>, K)) : IsMemoryPath(p)) <=> c \in TakenForMemory)
     /\ a \in Flags /\ a \in K /\ b \notin K /\ c \notin Flags =>
           ((\E p \in ToSet(Operands(<<a, b, c>>, K)) : IsMemoryPath(p)) <=> c \in TakenForMemory)
     /\ a \notin Flags =>
           ((\E p \in ToSet(Operands(<<a>>, K)) : IsMemoryPath(p)) <=> a \in TakenForMemory)
<1> TAKE K, a, b, c
<1> HAVE None \notin K
<1> DEFINE u == <<a, b, c>>
<1>0. u \in Seq({a, b, c}) /\ Len(u) = 3 /\ u[1] = a /\ u[2] = b /\ u[3] = c
  OBVIOUS
<1>m. IsMemoryPath(b) <=> b \in TakenForMemory
  BY MemoryPathIs
<1>n. IsMemoryPath(c) <=> c \in TakenForMemory
  BY MemoryPathIs
<1> HIDE DEF u
<1>o. \A x : x \in ToSet(Operands(u, K)) <=>
             \/ a \notin Flags /\ x = a
             \/ b \notin Flags /\ a \notin K /\ x = b
             \/ c \notin Flags /\ b \notin K /\ x = c
  BY <1>0, ThreeOperands
<1>1. ASSUME a \in Flags, a \notin K, b \notin Flags, b \notin K, c \notin Flags, b \notin TakenForMemory
      PROVE  (\E p \in ToSet(Operands(u, K)) : IsMemoryPath(p)) <=> c \in TakenForMemory
  <2>1. ToSet(Operands(u, K)) = {b, c}
    BY <1>1, <1>o
  <2>2. QED
    BY <1>1, <1>m, <1>n, <2>1
<1>2. ASSUME a \in Flags, a \in K, b \notin K, c \notin Flags
      PROVE  (\E p \in ToSet(Operands(u, K)) : IsMemoryPath(p)) <=> c \in TakenForMemory
  <2>1. ToSet(Operands(u, K)) = {c}
    BY <1>2, <1>o
  <2>2. QED
    BY <1>n, <2>1
<1>3. ASSUME a \notin Flags
      PROVE  (\E p \in ToSet(Operands(<<a>>, K)) : IsMemoryPath(p)) <=> a \in TakenForMemory
  <2>1. \A x : x \in ToSet(Operands(<<a>>, K)) <=> x = a
    BY <1>3, OneOperand, Zenon
  <2>2. QED
    BY <2>1, MemoryPathIs, Zenon
<1>4. QED
  BY <1>1, <1>2, <1>3 DEF u

\* Programs that write some of their operands.
Writers == {"tee", "touch", "truncate", "cp", "mv", "sed", "dd", "rm"}

\* Writers are programs that run no others.
LEMMA WriterNames == \A h \in Writers : h \in Programs \ (Shells \union Interpreters)
<1>1. \A h \in Writers : h \in Programs
  BY Zenon DEF Writers, Programs
<1>2. \A h \in Writers : h \notin Shells /\ h \notin Interpreters
  BY Zenon DEF Writers, Shells, Interpreters
<1>3. QED
  BY <1>1, <1>2

\* Some of these paths are memory.
Memory(paths) == \E p \in paths : IsMemoryPath(p)

\* Writers are judged by what they write.
LEMMA TwoJudged ==
  ASSUME NEW h \in Writers, NEW a \in Plain, NEW fatal \in BOOLEAN,
         Memory(WrittenPaths(h, <<a>>)) <=> fatal
  PROVE  SegmentJudged(<<h, a>>, fatal)
<1>1. h \in Programs \ (Shells \union Interpreters) /\ h \in Plain
  BY WriterNames, ArgumentWords
<1>2. {h, a} \subseteq MemoryWords
  BY <1>1 DEF Plain
<1> DEFINE s == <<h, a>>
           r == <<a>>
<1>3. Worded(s, h, r, {h, a})
  BY <1>2, WordsOfTwo, Zenon
<1> HIDE DEF s, r
<1>4. /\ s \in Seq(MemoryWords) /\ s # <<>> /\ s[1] = h /\ Tail(s) = r
      /\ ToSet(s) \subseteq Plain
  <2>1. /\ s \in Seq(MemoryWords) /\ s # <<>> /\ s[1] = h /\ Tail(s) = r
        /\ ToSet(s) = {h, a}
    BY <1>3, Zenon DEF Worded
  <2>2. {h, a} \subseteq Plain
    BY <1>1
  <2>3. QED
    BY <2>1, <2>2
<1>5. (\E p \in WrittenPaths(s[1], Tail(s)) : IsMemoryPath(p)) <=> fatal
  BY <1>4, Zenon DEF Memory, r
<1>6. SegmentJudged(s, fatal)
  BY <1>1, <1>4, <1>5, WriterJudged
<1>7. QED
  BY <1>6 DEF s

\* A writer of two arguments.
LEMMA ThreeJudged ==
  ASSUME NEW h \in Writers, NEW a \in Plain, NEW b \in Plain, NEW fatal \in BOOLEAN,
         Memory(WrittenPaths(h, <<a, b>>)) <=> fatal
  PROVE  SegmentJudged(<<h, a, b>>, fatal)
<1>1. h \in Programs \ (Shells \union Interpreters) /\ h \in Plain
  BY WriterNames, ArgumentWords
<1>2. {h, a, b} \subseteq MemoryWords
  BY <1>1 DEF Plain
<1> DEFINE s == <<h, a, b>>
           r == <<a, b>>
<1>3. Worded(s, h, r, {h, a, b})
  BY <1>2, WordsOfThree, Zenon
<1> HIDE DEF s, r
<1>4. /\ s \in Seq(MemoryWords) /\ s # <<>> /\ s[1] = h /\ Tail(s) = r
      /\ ToSet(s) \subseteq Plain
  <2>1. /\ s \in Seq(MemoryWords) /\ s # <<>> /\ s[1] = h /\ Tail(s) = r
        /\ ToSet(s) = {h, a, b}
    BY <1>3, Zenon DEF Worded
  <2>2. {h, a, b} \subseteq Plain
    BY <1>1
  <2>3. QED
    BY <2>1, <2>2
<1>5. (\E p \in WrittenPaths(s[1], Tail(s)) : IsMemoryPath(p)) <=> fatal
  BY <1>4, Zenon DEF Memory, r
<1>6. SegmentJudged(s, fatal)
  BY <1>1, <1>4, <1>5, WriterJudged
<1>7. QED
  BY <1>6 DEF s

\* A writer of three arguments.
LEMMA FourJudged ==
  ASSUME NEW h \in Writers, NEW a \in Plain, NEW b \in Plain, NEW c \in Plain, NEW fatal \in BOOLEAN,
         Memory(WrittenPaths(h, <<a, b, c>>)) <=> fatal
  PROVE  SegmentJudged(<<h, a, b, c>>, fatal)
<1>1. h \in Programs \ (Shells \union Interpreters) /\ h \in Plain
  BY WriterNames, ArgumentWords
<1>2. {h, a, b, c} \subseteq MemoryWords
  BY <1>1 DEF Plain
<1> DEFINE s == <<h, a, b, c>>
           r == <<a, b, c>>
<1>3. Worded(s, h, r, {h, a, b, c})
  BY <1>2, WordsOfFour, Zenon
<1> HIDE DEF s, r
<1>4. /\ s \in Seq(MemoryWords) /\ s # <<>> /\ s[1] = h /\ Tail(s) = r
      /\ ToSet(s) \subseteq Plain
  <2>1. /\ s \in Seq(MemoryWords) /\ s # <<>> /\ s[1] = h /\ Tail(s) = r
        /\ ToSet(s) = {h, a, b, c}
    BY <1>3, Zenon DEF Worded
  <2>2. {h, a, b, c} \subseteq Plain
    BY <1>1
  <2>3. QED
    BY <2>1, <2>2
<1>5. (\E p \in WrittenPaths(s[1], Tail(s)) : IsMemoryPath(p)) <=> fatal
  BY <1>4, Zenon DEF Memory, r
<1>6. SegmentJudged(s, fatal)
  BY <1>1, <1>4, <1>5, WriterJudged
<1>7. QED
  BY <1>6 DEF s

\* A writer of four arguments.
LEMMA FiveJudged ==
  ASSUME NEW h \in Writers, NEW a \in Plain, NEW b \in Plain, NEW c \in Plain, NEW d \in Plain, NEW fatal \in BOOLEAN,
         Memory(WrittenPaths(h, <<a, b, c, d>>)) <=> fatal
  PROVE  SegmentJudged(<<h, a, b, c, d>>, fatal)
<1>1. h \in Programs \ (Shells \union Interpreters) /\ h \in Plain
  BY WriterNames, ArgumentWords
<1>2. {h, a, b, c, d} \subseteq MemoryWords
  BY <1>1 DEF Plain
<1> DEFINE s == <<h, a, b, c, d>>
           r == <<a, b, c, d>>
<1>3. Worded(s, h, r, {h, a, b, c, d})
  BY <1>2, WordsOfFive, Zenon
<1> HIDE DEF s, r
<1>4. /\ s \in Seq(MemoryWords) /\ s # <<>> /\ s[1] = h /\ Tail(s) = r
      /\ ToSet(s) \subseteq Plain
  <2>1. /\ s \in Seq(MemoryWords) /\ s # <<>> /\ s[1] = h /\ Tail(s) = r
        /\ ToSet(s) = {h, a, b, c, d}
    BY <1>3, Zenon DEF Worded
  <2>2. {h, a, b, c, d} \subseteq Plain
    BY <1>1
  <2>3. QED
    BY <2>1, <2>2
<1>5. (\E p \in WrittenPaths(s[1], Tail(s)) : IsMemoryPath(p)) <=> fatal
  BY <1>4, Zenon DEF Memory, r
<1>6. SegmentJudged(s, fatal)
  BY <1>1, <1>4, <1>5, WriterJudged
<1>7. QED
  BY <1>6 DEF s

\* What each writes.
LEMMA WritersWrite ==
  /\ \A args : WrittenPaths("tee", args) = ToSet(Operands(args, {}))
  /\ \A args : WrittenPaths("touch", args) = ToSet(Operands(args, {"-r", "-d", "-t"}))
  /\ \A args : WrittenPaths("truncate", args) = ToSet(Operands(args, {"-s", "-r"}))
  /\ \A args : WrittenPaths("cp", args) = CopyDestinations(args)
  /\ \A args : WrittenPaths("mv", args) = CopyDestinations(args)
  /\ \A args : WrittenPaths("rm", args) = {}
  /\ \A args : WrittenPaths("sed", args) =
                 IF "-i" \in ToSet(args) THEN ToSet(Operands(args, {"-e", "-f"})) ELSE {}
  /\ \A args : "of=note" \in ToSet(args) => WrittenPaths("dd", args) = {"note"}
<1>1. \A args : WrittenPaths("tee", args) = ToSet(Operands(args, {}))
  BY Zenon DEF WrittenPaths
<1>2. \A args : WrittenPaths("touch", args) = ToSet(Operands(args, {"-r", "-d", "-t"}))
  BY Zenon DEF WrittenPaths
<1>3. \A args : WrittenPaths("truncate", args) = ToSet(Operands(args, {"-s", "-r"}))
  BY Zenon DEF WrittenPaths
<1>4. \A args : WrittenPaths("cp", args) = CopyDestinations(args)
  BY Zenon DEF WrittenPaths
<1>5. \A args : WrittenPaths("mv", args) = CopyDestinations(args)
  BY Zenon DEF WrittenPaths
<1>6. \A args : WrittenPaths("rm", args) = {}
  BY ReaderNames DEF Readers
<1>7. \A args : WrittenPaths("sed", args) =
                 IF "-i" \in ToSet(args) THEN ToSet(Operands(args, {"-e", "-f"})) ELSE {}
  <2>1. ASSUME NEW args, "-i" \in ToSet(args)
        PROVE  WrittenPaths("sed", args) = ToSet(Operands(args, {"-e", "-f"}))
    BY <2>1, Zenon DEF WrittenPaths
  <2>2. ASSUME NEW args, "-i" \notin ToSet(args) PROVE WrittenPaths("sed", args) = {}
    BY <2>2, Zenon DEF WrittenPaths
  <2>3. QED
    BY <2>1, <2>2
<1>8. \A args : "of=note" \in ToSet(args) => WrittenPaths("dd", args) = {"note"}
  BY Zenon DEF WrittenPaths
<1>9. QED
  BY <1>1, <1>2, <1>3, <1>4, <1>5, <1>6, <1>7, <1>8

\* Words of short commands.
LEMMA AmongWords ==
  /\ \A a, b, c : a \in ToSet(<<a, b, c>>)
  /\ \A a, b : b \in ToSet(<<a, b>>)
  /\ \A a, b, x : x # a /\ x # b => x \notin ToSet(<<a, b>>)
<1>1. \A a, b, c : a \in ToSet(<<a, b, c>>)
  BY ToSetOfThree
<1>2. \A a, b : b \in ToSet(<<a, b>>)
  BY ToSetOfWords
<1>3. \A a, b, x : x # a /\ x # b => x \notin ToSet(<<a, b>>)
  BY ToSetOfWords
<1>4. QED
  BY <1>1, <1>2, <1>3

\* Whether copies go to memory.
LEMMA CopiesToMemory ==
  /\ \A a, b, c, d :
        /\ a # "-t" /\ a # "--target-directory" /\ b \notin Flags /\ c \notin Flags
        /\ d \notin Flags
        => (Memory(CopyDestinations(<<a, b, c, d>>)) <=> d \in TakenForMemory)
  /\ \A c, d : c \notin Flags /\ d \notin Flags =>
        (Memory(CopyDestinations(<<c, d>>)) <=> d \in TakenForMemory)
  /\ \A a, b, c : a = "-t" /\ b \notin Flags /\ c \notin Flags =>
        (Memory(CopyDestinations(<<a, b, c>>)) <=> b \in TakenForMemory)
<1> DEFINE F == {"-t", "--target-directory"}
<1>1. "-t" \in Flags /\ "--target-directory" \in Flags
  BY Zenon DEF Flags
<1>2. \A p : Memory({p}) <=> p \in TakenForMemory
  BY MemoryPathIs, Zenon DEF Memory
<1> HIDE DEF F
<1>3. ASSUME NEW a, NEW b, NEW c, NEW d, a # "-t", a # "--target-directory",
             b \notin Flags, c \notin Flags, d \notin Flags
      PROVE  Memory(CopyDestinations(<<a, b, c, d>>)) <=> d \in TakenForMemory
  <2>0. F \intersect {a, b, c, d} = {}
    BY <1>1, <1>3 DEF F
  <2> DEFINE t == <<a, b>>
             S == {a, b, c, d}
  <2>1. t \in Seq(S) /\ c \in S /\ d \in S /\ <<a, b, c, d>> = Append(Append(t, c), d)
    OBVIOUS
  <2>2. After(<<a, b, c, d>>, F) = {}
    <3>1. ToSet(<<a, b, c, d>>) \intersect F = {}
      <4> DEFINE u == <<a, b, c, d>>
      <4>1. DOMAIN u = {1, 2, 3, 4} /\ u[1] = a /\ u[2] = b /\ u[3] = c /\ u[4] = d
        OBVIOUS
      <4> HIDE DEF u
      <4>2. ToSet(u) = {a, b, c, d}
        BY <4>1 DEF ToSet
      <4>3. ToSet(u) \intersect F = {}
        BY <2>0, <1>3, <4>2
      <4>4. QED
        BY <4>3 DEF u
    <3>2. QED
      BY <3>1, AfterNone
  <2>3. After(Append(Append(t, c), d), F) = {}
    BY <2>1, <2>2
  <2> HIDE DEF t, S
  <2>4. CopyDestinations(Append(Append(t, c), d)) = {d}
    BY <2>0, <1>3, <2>1, <2>3, LastOfTwo DEF F
  <2>5. CopyDestinations(<<a, b, c, d>>) = {d}
    BY <2>1, <2>4
  <2>6. QED
    BY <1>2, <2>5
<1>4. ASSUME NEW c, NEW d, c \notin Flags, d \notin Flags
      PROVE  Memory(CopyDestinations(<<c, d>>)) <=> d \in TakenForMemory
  <2>0. F \intersect {c, d} = {}
    BY <1>1, <1>4 DEF F
  <2> DEFINE t == <<>>
             S == {c, d}
  <2>1. t \in Seq(S) /\ c \in S /\ d \in S /\ <<c, d>> = Append(Append(t, c), d)
    OBVIOUS
  <2>2. After(<<c, d>>, F) = {}
    <3>1. ToSet(<<c, d>>) \intersect F = {}
      BY <2>0, ToSetOfWords
    <3>2. QED
      BY <3>1, AfterNone
  <2>3. After(Append(Append(t, c), d), F) = {}
    BY <2>1, <2>2
  <2> HIDE DEF t, S
  <2>4. CopyDestinations(Append(Append(t, c), d)) = {d}
    BY <2>0, <1>4, <2>1, <2>3, LastOfTwo DEF F
  <2>5. CopyDestinations(<<c, d>>) = {d}
    BY <2>1, <2>4
  <2>6. QED
    BY <1>2, <2>5
<1>5. ASSUME NEW a, NEW b, NEW c, a = "-t", b \notin Flags, c \notin Flags
      PROVE  Memory(CopyDestinations(<<a, b, c>>)) <=> b \in TakenForMemory
  <2>1. a \in F /\ b \notin F /\ c \notin F
    BY <1>1, <1>5 DEF F
  <2> DEFINE u == <<a, b, c>>
             S == {a, b, c}
  <2>2. u \in Seq(S) /\ Len(u) = 3 /\ u[1] = a /\ u[2] = b /\ u[3] = c
    OBVIOUS
  <2> HIDE DEF u, S
  <2>5. After(u, F) = {b}
    BY <2>1, <2>2, AfterSecond
  <2>6. CopyDestinations(u) = {b}
    BY <2>5, Zenon DEF CopyDestinations, F
  <2>3. CopyDestinations(<<a, b, c>>) = {b}
    BY <2>6 DEF u
  <2>4. QED
    BY <1>2, <2>3
<1>6. QED
  BY <1>3, <1>4, <1>5

\* The commands that write a place.
LEMMA PlacesWritten ==
  ASSUME NEW place \in DOMAIN Places
  PROVE  /\ Memory(WrittenPaths("tee", <<"-a", "docs", place>>)) <=> place \in TakenForMemory
         /\ Memory(WrittenPaths("tee", <<place>>)) <=> place \in TakenForMemory
         /\ Memory(WrittenPaths("sed", <<"-i", "s/a/b/", place>>)) <=> place \in TakenForMemory
         /\ Memory(WrittenPaths("cp", <<"-r", "x", "y", place>>)) <=> place \in TakenForMemory
         /\ Memory(WrittenPaths("mv", <<"-t", place, "x">>)) <=> place \in TakenForMemory
         /\ Memory(WrittenPaths("truncate", <<"-s", "0", place>>)) <=> place \in TakenForMemory
         /\ ~Memory(WrittenPaths("rm", <<place>>))
         /\ ~Memory(WrittenPaths("cp", <<place, "x">>))
         /\ ~Memory(WrittenPaths("mv", <<"-t", "x", place>>))
         /\ ~Memory(WrittenPaths("touch", <<"-r", place, "x">>))
         /\ ~Memory(WrittenPaths("sed", <<"x", place>>))
         /\ Memory(WrittenPaths("dd", <<"if=x", "of=note">>))
<1>1. /\ place \notin Flags /\ "docs" \notin Flags /\ "docs" \notin TakenForMemory
      /\ "s/a/b/" \notin Flags /\ "s/a/b/" \notin TakenForMemory
      /\ "x" \notin Flags /\ "x" \notin TakenForMemory /\ "y" \notin Flags
      /\ "-r" # "-t" /\ "-r" # "--target-directory"
      /\ "-a" \in Flags /\ "-i" \in Flags /\ "-r" \in Flags /\ "-s" \in Flags
  BY ArgumentWords, Zenon DEF Arguments
<1>2. None \notin {} /\ None \notin {"-e", "-f"} /\ None \notin {"-s", "-r"}
      /\ None \notin {"-r", "-d", "-t"}
  BY Zenon DEF None
<1>3. \A p : IsMemoryPath(p) <=> p \in TakenForMemory
  BY MemoryPathIs
<1>4. \A p : Memory({p}) <=> p \in TakenForMemory
  BY <1>3, Zenon DEF Memory
<1>5. ~Memory({})
  BY Zenon DEF Memory
<1>6. Memory(WrittenPaths("tee", <<"-a", "docs", place>>)) <=> place \in TakenForMemory
  <2>1. Memory(ToSet(Operands(<<"-a", "docs", place>>, {}))) <=> place \in TakenForMemory
    BY <1>1, <1>2, OperandMemory, Zenon DEF Memory
  <2>2. QED
    BY <2>1, WritersWrite, Zenon
<1>7. Memory(WrittenPaths("tee", <<place>>)) <=> place \in TakenForMemory
  <2>1. Memory(ToSet(Operands(<<place>>, {}))) <=> place \in TakenForMemory
    BY <1>1, <1>2, OperandMemory, Zenon DEF Memory
  <2>2. QED
    BY <2>1, WritersWrite, Zenon
<1>8. Memory(WrittenPaths("sed", <<"-i", "s/a/b/", place>>)) <=> place \in TakenForMemory
  <2>1. "-i" \notin {"-e", "-f"} /\ "s/a/b/" \notin {"-e", "-f"}
    BY Zenon
  <2>2. Memory(ToSet(Operands(<<"-i", "s/a/b/", place>>, {"-e", "-f"}))) <=> place \in TakenForMemory
    BY <1>1, <1>2, <2>1, OperandMemory, Zenon DEF Memory
  <2>3. "-i" \in ToSet(<<"-i", "s/a/b/", place>>)
    BY AmongWords, Zenon
  <2>4. QED
    BY <2>2, <2>3, WritersWrite, Zenon
<1>9. Memory(WrittenPaths("cp", <<"-r", "x", "y", place>>)) <=> place \in TakenForMemory
  <2>1. Memory(CopyDestinations(<<"-r", "x", "y", place>>)) <=> place \in TakenForMemory
    BY <1>1, CopiesToMemory, Zenon
  <2>2. QED
    BY <2>1, WritersWrite, Zenon
<1>10. Memory(WrittenPaths("mv", <<"-t", place, "x">>)) <=> place \in TakenForMemory
  <2>1. Memory(CopyDestinations(<<"-t", place, "x">>)) <=> place \in TakenForMemory
    BY <1>1, CopiesToMemory, Zenon
  <2>2. QED
    BY <2>1, WritersWrite, Zenon
<1>11. Memory(WrittenPaths("truncate", <<"-s", "0", place>>)) <=> place \in TakenForMemory
  <2>1. "-s" \in {"-s", "-r"} /\ "0" \notin {"-s", "-r"}
    BY Zenon
  <2>2. Memory(ToSet(Operands(<<"-s", "0", place>>, {"-s", "-r"}))) <=> place \in TakenForMemory
    BY <1>1, <1>2, <2>1, OperandMemory, Zenon DEF Memory
  <2>3. QED
    BY <2>2, WritersWrite, Zenon
<1>12. ~Memory(WrittenPaths("rm", <<place>>))
  BY <1>5, WritersWrite, Zenon
<1>13. ~Memory(WrittenPaths("cp", <<place, "x">>))
  <2>1. ~Memory(CopyDestinations(<<place, "x">>))
    BY <1>1, CopiesToMemory, Zenon
  <2>2. QED
    BY <2>1, WritersWrite, Zenon
<1>14. ~Memory(WrittenPaths("mv", <<"-t", "x", place>>))
  <2>1. ~Memory(CopyDestinations(<<"-t", "x", place>>))
    BY <1>1, CopiesToMemory, Zenon
  <2>2. QED
    BY <2>1, WritersWrite, Zenon
<1>15. ~Memory(WrittenPaths("touch", <<"-r", place, "x">>))
  <2>1. "-r" \in {"-r", "-d", "-t"} /\ place \notin {"-r", "-d", "-t"}
    BY <1>1, Zenon DEF Flags
  <2>2. Memory(ToSet(Operands(<<"-r", place, "x">>, {"-r", "-d", "-t"}))) <=> "x" \in TakenForMemory
    BY <1>1, <1>2, <2>1, OperandMemory, Zenon DEF Memory
  <2>3. QED
    BY <1>1, <2>2, WritersWrite, Zenon
<1>16. ~Memory(WrittenPaths("sed", <<"x", place>>))
  <2>1. "-i" # "x" /\ "-i" # place
    BY <1>1, Zenon
  <2>2. "-i" \notin ToSet(<<"x", place>>)
    BY <2>1, AmongWords, Zenon
  <2>3. WrittenPaths("sed", <<"x", place>>) = {}
    <3> DEFINE u == <<"x", place>>
    <3>1. "-i" \notin ToSet(u)
      BY <2>2
    <3> HIDE DEF u
    <3>2. WrittenPaths("sed", u) = {}
      BY <3>1, WritersWrite
    <3>3. QED
      BY <3>2 DEF u
  <2>4. QED
    BY <1>5, <2>3, Zenon
<1>17. Memory(WrittenPaths("dd", <<"if=x", "of=note">>))
  <2>1. "of=note" \in ToSet(<<"if=x", "of=note">>)
    BY AmongWords, Zenon
  <2>2. Memory({"note"})
    BY <1>4, Zenon DEF TakenForMemory, MemoryPlaces
  <2>3. QED
    BY <2>1, <2>2, WritersWrite, Zenon
<1>18. QED
  BY <1>6, <1>7, <1>8, <1>9, <1>10, <1>11, <1>12, <1>13, <1>14, <1>15, <1>16, <1>17

\* The words before a redirection at the end.
LEMMA FedCommand ==
  ASSUME NEW a \in MemoryWords, NEW b \in MemoryWords, NEW c \in Operators, NEW d \in MemoryWords,
         a \notin Operators, b \notin Operators \union Descriptors, d \notin Operators
  PROVE  /\ <<a, b, c, d>> \in Seq(MemoryWords) /\ CommandWords(<<a, b, c, d>>) = <<a, b>>
         /\ <<a, b, c, d>> # <<>> /\ <<a, b, c, d>>[1] = a
         /\ ToSet(<<a, b, c, d>>) = {a, b, c, d}
         /\ \A F : F \subseteq Operators => After(<<a, b, c, d>>, F) = IF c \in F THEN {d} ELSE {}
<1> DEFINE S == MemoryWords
           t == <<a, b>>
           v == Append(t, c)
           s == Append(v, d)
<1>1. c \in MemoryWords
  BY Zenon DEF MemoryWords
<1>2. <<a, b, c, d>> = s
  OBVIOUS
<1>3. t \in Seq(S) /\ Len(t) = 2 /\ t[1] = a /\ t[2] = b
  OBVIOUS
<1>4. v \in Seq(S) /\ Len(v) = 3 /\ v[1] = a /\ v[2] = b /\ v[3] = c
  BY <1>1
<1>5. s \in Seq(S) /\ Len(s) = 4 /\ s[1] = a /\ s[2] = b /\ s[3] = c /\ s[4] = d
  BY <1>1
<1>6. a \in S /\ b \in S /\ c \in S /\ d \in S
  BY <1>1
<1> HIDE DEF S, t, v, s
<1>7. At(s, 1 - 1) = None /\ At(s, 2 - 1) = a /\ At(s, 2 + 1) = c /\ At(s, 4 - 1) = c /\ At(s, 1 + 1) = b
  <2>1. /\ 1 - 1 = 0 /\ 2 - 1 = 1 /\ 2 + 1 = 3 /\ 4 - 1 = 3 /\ 1 + 1 = 2
        /\ DOMAIN s = 1..4
    BY <1>5
  <2>2. QED
    BY <1>5, <2>1 DEF At
<1>8. WordAt(s, 1) /\ WordAt(s, 2) /\ ~WordAt(s, 3) /\ ~WordAt(s, 4)
  <2>1. WordAt(s, 1)
    BY <1>5, <1>7, EnvWords DEF WordAt
  <2>2. WordAt(s, 2)
    BY <1>5, <1>7 DEF WordAt
  <2>3. ~WordAt(s, 3)
    BY <1>5 DEF WordAt
  <2>4. ~WordAt(s, 4)
    BY <1>7 DEF WordAt
  <2>5. QED
    BY <2>1, <2>2, <2>3, <2>4
<1>9. 1 \in WordsAt(s) /\ 2 \in WordsAt(s) /\ 3 \notin WordsAt(s) /\ 4 \notin WordsAt(s)
  <2>1. DOMAIN s = 1..4
    BY <1>5
  <2>2. QED
    BY <1>8, <2>1 DEF WordsAt
<1> DEFINE P == WordsAt(s)
<1> HIDE DEF P
<1>10. Picked(t, P) = t
  <2>1. 1..Len(t) \subseteq P
    BY <1>3, <1>9 DEF P
  <2>2. QED
    BY <1>3, <2>1, PickedAll
<1>11. Picked(v, P) = t
  <2>0. t \in Seq(S) /\ c \in S
    BY <1>3, <1>6
  <2>1. Picked(Append(t, c), P) =
            IF Len(t) + 1 \in P THEN Append(Picked(t, P), c) ELSE Picked(t, P)
    BY <2>0, PickedAppend
  <2>2. Len(t) + 1 = 3
    BY <1>3
  <2>3. QED
    BY <1>9, <1>10, <2>1, <2>2 DEF P, v
<1>12. Picked(s, P) = t
  <2>0. v \in Seq(S) /\ d \in S
    BY <1>4, <1>6
  <2>1. Picked(Append(v, d), P) =
            IF Len(v) + 1 \in P THEN Append(Picked(v, P), d) ELSE Picked(v, P)
    BY <2>0, PickedAppend
  <2>2. Len(v) + 1 = 4
    BY <1>4
  <2>3. QED
    BY <1>9, <1>11, <2>1, <2>2 DEF P, s
<1>13. CommandWords(s) = t
  BY <1>12, CommandWordsAre DEF P
<1>14. ToSet(s) = {a, b, c, d}
  <2>1. DOMAIN s = {1, 2, 3, 4}
    BY <1>5
  <2>2. QED
    BY <1>5, <2>1 DEF ToSet
<1>15. ASSUME NEW F, F \subseteq Operators PROVE After(s, F) = IF c \in F THEN {d} ELSE {}
  <2>1. s[1] \notin F /\ s[2] \notin F /\ s[4] \notin F
    BY <1>5, <1>15
  <2>2. CASE c \in F
    <3>1. After(s, F) = {s[4]}
      BY <1>5, <2>1, <2>2, AfterThird
    <3>2. QED
      BY <1>5, <2>2, <3>1
  <2>3. CASE c \notin F
    <3>1. ToSet(s) \intersect F = {}
      BY <1>5, <1>14, <2>1, <2>3
    <3>2. QED
      BY <2>3, <3>1, AfterNone
  <2>4. QED
    BY <2>2, <2>3
<1>16. s # <<>>
  BY <1>5
<1>17. QED
  BY <1>2, <1>5, <1>13, <1>14, <1>15, <1>16 DEF S, t

\* What an interpreter makes of its arguments.
LEMMA InterpretersWrite ==
  /\ \A fed : InterpreterWrites("python3", <<"-c", "write note">>, fed)
  /\ InterpreterWrites("python3", <<"-">>, {"write note"})
  /\ \A fed : ~InterpreterWrites("python3", <<"script">>, fed)
  /\ \A place \in DOMAIN Places : \A fed :
        InterpreterWrites("perl", <<"-i", "x", place>>, fed) <=> place \in TakenForMemory
<1>1. \A head, args, fed : head # "perl" =>
        /\ After(args, ProgramFlags) \intersect WritingPrograms # {} =>
              InterpreterWrites(head, args, fed)
        /\ After(args, ProgramFlags) = {} =>
              (InterpreterWrites(head, args, fed) <=>
                  ToSet(Operands(args, {})) \subseteq {"-"} /\ fed \intersect WritingPrograms # {})
  BY DEF InterpreterWrites
<1>2. "python3" # "perl"
  OBVIOUS
<1>3. \A fed : InterpreterWrites("python3", <<"-c", "write note">>, fed)
  <2> DEFINE u == <<"-c", "write note">>
  <2>1. u \in Seq({"-c", "write note"}) /\ Len(u) = 2 /\ u[1] = "-c" /\ u[2] = "write note"
    OBVIOUS
  <2>2. "-c" \in ProgramFlags /\ "write note" \notin ProgramFlags /\ "write note" \in WritingPrograms
    BY Zenon DEF ProgramFlags, WritingPrograms
  <2> HIDE DEF u
  <2>3. After(u, ProgramFlags) = {u[2]}
    BY <2>1, <2>2, AfterFirst
  <2>4. After(u, ProgramFlags) \intersect WritingPrograms # {}
    BY <2>1, <2>2, <2>3
  <2>5. \A fed : InterpreterWrites("python3", u, fed)
    BY <1>1, <1>2, <2>4
  <2>6. QED
    BY <2>5 DEF u
<1>4. \A a, x : (x \in ToSet(Operands(<<a>>, {})) <=> a \notin Flags /\ x = a)
              /\ ToSet(<<a>>) = {a}
  BY OneOperand, ToSetOfWords
<1>5. InterpreterWrites("python3", <<"-">>, {"write note"})
  <2> DEFINE u == <<"-">>
  <2>1. After(u, ProgramFlags) = {}
    <3>1. "-" \notin ProgramFlags
      BY Zenon DEF ProgramFlags
    <3>2. ToSet(u) \intersect ProgramFlags = {}
      BY <1>4, <3>1
    <3>3. QED
      BY <3>2, AfterNone
  <2>2. ToSet(Operands(u, {})) \subseteq {"-"}
    BY <1>4
  <2>3. {"write note"} \intersect WritingPrograms # {}
    BY DEF WritingPrograms
  <2> HIDE DEF u
  <2>4. InterpreterWrites("python3", u, {"write note"})
    BY <1>1, <1>2, <2>1, <2>2, <2>3
  <2>5. QED
    BY <2>4 DEF u
<1>6. \A fed : ~InterpreterWrites("python3", <<"script">>, fed)
  <2> DEFINE u == <<"script">>
  <2>1. After(u, ProgramFlags) = {}
    <3>1. "script" \notin ProgramFlags
      BY Zenon DEF ProgramFlags
    <3>2. ToSet(u) \intersect ProgramFlags = {}
      BY <1>4, <3>1
    <3>3. QED
      BY <3>2, AfterNone
  <2>2. "script" \in ToSet(Operands(u, {})) /\ "script" # "-"
    <3>1. "script" \notin Flags
      BY ArgumentWords
    <3>2. QED
      BY <1>4, <3>1
  <2> HIDE DEF u
  <2>3. \A fed : ~InterpreterWrites("python3", u, fed)
    BY <1>1, <1>2, <2>1, <2>2
  <2>4. QED
    BY <2>3 DEF u
<1>7. ASSUME NEW place \in DOMAIN Places, NEW fed
      PROVE  InterpreterWrites("perl", <<"-i", "x", place>>, fed) <=> place \in TakenForMemory
  <2> DEFINE u == <<"-i", "x", place>>
             S == {"-i", "x", place}
  <2>1. u \in Seq(S) /\ Len(u) = 3 /\ u[1] = "-i" /\ u[2] = "x" /\ u[3] = place
    OBVIOUS
  <2>2. ToSet(u) = {"-i", "x", place}
    BY ToSetOfThree
  <2> HIDE DEF u, S
  <2>3. "-i" \notin ProgramFlags /\ "x" \notin ProgramFlags /\ place \notin ProgramFlags
    <3>1. ProgramFlags \subseteq Flags
      BY Zenon DEF ProgramFlags, Flags
    <3>2. "-i" \notin ProgramFlags /\ "x" \notin ProgramFlags
      BY Zenon DEF ProgramFlags
    <3>3. QED
      BY <3>1, <3>2, ArgumentWords
  <2>4. After(u, ProgramFlags) = {}
    BY <2>2, <2>3, AfterNone
  <2>5. "x" \in ToSet(Operands(u, {})) /\ "x" # "-"
    <3>1. "x" \notin Flags /\ None \notin {}
      BY ArgumentWords
    <3>2. u[2] \in ToSet(Operands(u, {})) <=>
             \/ u[1] \notin Flags /\ u[2] = u[1]
             \/ u[2] \notin Flags /\ u[1] \notin {} /\ u[2] = u[2]
             \/ u[3] \notin Flags /\ u[2] \notin {} /\ u[2] = u[3]
      BY <2>1, <3>1, ThreeOperands
    <3>3. QED
      BY <2>1, <3>1, <3>2
  <2>6. (\E a \in ToSet(u) : IsMemoryPath(a)) <=> place \in TakenForMemory
    <3>1. /\ ~IsMemoryPath("-i") /\ ~IsMemoryPath("x")
          /\ IsMemoryPath(place) <=> place \in TakenForMemory
      BY MemoryPathIs, Zenon DEF TakenForMemory, MemoryPlaces
    <3>2. QED
      BY <2>2, <3>1
  <2>7. "-i" \in ToSet(u)
    BY <2>2
  <2>8. InterpreterWrites("perl", u, fed) <=> place \in TakenForMemory
    BY <2>4, <2>5, <2>6, <2>7 DEF InterpreterWrites
  <2>9. QED
    BY <2>8 DEF u
<1>8. QED
  BY <1>3, <1>5, <1>6, <1>7

\* Words and their classes, as they are needed below.
LEMMA WordClasses ==
  /\ {"cat", "make", "rm", "grep", "echo"} \subseteq Readers
  /\ {"tee", "touch", "truncate", "cp", "mv", "sed", "dd", "rm"} \subseteq Writers
  /\ {">", ">>|"} \subseteq RedirectOperators
  /\ {"<", "<<", ">&"} \intersect RedirectOperators = {}
  /\ {">", ">>|", "<", "<<", ">&"} \subseteq Operators
  /\ {">", ">>|", "<", "<<", ">&"} \subseteq MemoryWords \ {"'"}
  /\ "'" \in MemoryWords
  /\ \A a \in Plain : a \in MemoryWords \ {"'"} /\ a \notin RedirectOperators
<1>1. {"cat", "make", "rm", "grep", "echo"} \subseteq Readers
  BY Zenon DEF Readers
<1>2. {"tee", "touch", "truncate", "cp", "mv", "sed", "dd", "rm"} \subseteq Writers
  BY Zenon DEF Writers
<1>3. {">", ">>|"} \subseteq RedirectOperators
  BY Zenon DEF RedirectOperators
<1>4. {"<", "<<", ">&"} \intersect RedirectOperators = {}
  BY Zenon DEF RedirectOperators
<1>5. {">", ">>|", "<", "<<", ">&"} \subseteq Operators
  BY Zenon DEF Operators, RedirectOperators
<1>6. {">", ">>|", "<", "<<", ">&"} \subseteq MemoryWords \ {"'"}
  <2>1. Operators \subseteq MemoryWords
    BY Zenon DEF MemoryWords
  <2>2. "'" \notin {">", ">>|", "<", "<<", ">&"}
    BY Zenon
  <2>3. QED
    BY <1>5, <2>1, <2>2
<1>7. "'" \in MemoryWords
  BY Zenon DEF MemoryWords
<1>8. \A a \in Plain : a \in MemoryWords \ {"'"} /\ a \notin RedirectOperators
  BY EnvWords DEF Plain
<1>9. QED
  BY <1>1, <1>2, <1>3, <1>4, <1>5, <1>6, <1>7, <1>8

\* Readers, by the words they are given.
LEMMA ReaderWords ==
  /\ \A a, b : a \in Readers /\ b \in Plain => SegmentJudged(<<a, b>>, FALSE)
  /\ \A a, b, c : a \in Readers /\ b \in MemoryWords \ {"'"} /\ b \notin RedirectOperators
                      /\ c \in Plain => SegmentJudged(<<a, b, c>>, FALSE)
  /\ \A a, b, c, d : a \in Readers /\ b \in Plain /\ c \in MemoryWords \ {"'"}
                      /\ c \notin RedirectOperators /\ d \in Plain => SegmentJudged(<<a, b, c, d>>, FALSE)
  /\ \A a, b, c, d : a \in Readers /\ b \in Plain /\ c \in MemoryWords \ {"'"}
                      /\ c \in RedirectOperators /\ d \in Plain
                      => SegmentJudged(<<a, b, c, d>>, d \in TakenForMemory)
  /\ \A a, b, c, d, e : a \in Readers /\ b \in MemoryWords \ {"'"} /\ b \notin RedirectOperators
                      /\ c \in Plain /\ d \in MemoryWords \ {"'"} /\ d \in RedirectOperators
                      /\ e \in Plain
                      => SegmentJudged(<<a, b, c, d, e>>, e \in TakenForMemory)
<1>0. \A a \in Plain : a \in MemoryWords \ {"'"} /\ a \notin RedirectOperators
  BY WordClasses
<1>1. ASSUME NEW a, NEW b, a \in Readers, b \in Plain PROVE SegmentJudged(<<a, b>>, FALSE)
  <2>1. {b, b, b, b} \subseteq MemoryWords \ {"'"} /\ {b, b, b} \intersect RedirectOperators = {}
    BY <1>0, <1>1
  <2>2. QED
    BY <1>1, <2>1, ReaderCommands, ZenonT(60)
<1>2. ASSUME NEW a, NEW b, NEW c, a \in Readers, b \in MemoryWords \ {"'"},
             b \notin RedirectOperators, c \in Plain
      PROVE  SegmentJudged(<<a, b, c>>, FALSE)
  <2>1. {b, c, b, b} \subseteq MemoryWords \ {"'"} /\ {b, c, b} \intersect RedirectOperators = {}
    BY <1>0, <1>2
  <2>2. \A d, e : /\ {b, c, d, e} \subseteq MemoryWords \ {"'"}
                  /\ {b, c, d} \intersect RedirectOperators = {}
                 => SegmentJudged(<<a, b, c>>, FALSE)
    BY <1>2, ReaderCommands, Zenon
  <2>3. QED
    BY <2>1, <2>2, Zenon
<1>3. ASSUME NEW a, NEW b, NEW c, NEW d, a \in Readers, b \in Plain, c \in MemoryWords \ {"'"},
             c \notin RedirectOperators, d \in Plain
      PROVE  SegmentJudged(<<a, b, c, d>>, FALSE)
  <2>1. {b, c, d, b} \subseteq MemoryWords \ {"'"} /\ {b, c, d} \intersect RedirectOperators = {}
    BY <1>0, <1>3
  <2>2. QED
    BY <1>3, <2>1, ReaderCommands, Zenon
<1>4. ASSUME NEW a, NEW b, NEW c, NEW d, a \in Readers, b \in Plain, c \in MemoryWords \ {"'"},
             c \in RedirectOperators, d \in Plain
      PROVE  SegmentJudged(<<a, b, c, d>>, d \in TakenForMemory)
  <2>1. {b, c, d, b} \subseteq MemoryWords \ {"'"} /\ {b, d} \intersect RedirectOperators = {}
    BY <1>0, <1>4
  <2>2. QED
    BY <1>4, <2>1, ReaderCommands, Zenon
<1>5. ASSUME NEW a, NEW b, NEW c, NEW d, NEW e, a \in Readers, b \in MemoryWords \ {"'"},
             b \notin RedirectOperators, c \in Plain, d \in MemoryWords \ {"'"},
             d \in RedirectOperators, e \in Plain
      PROVE  SegmentJudged(<<a, b, c, d, e>>, e \in TakenForMemory)
  <2>1. {b, c, d, e} \subseteq MemoryWords \ {"'"} /\ {b, c, e} \intersect RedirectOperators = {}
    BY <1>0, <1>5
  <2>2. QED
    BY <1>5, <2>1, ReaderCommands, Zenon
<1>6. QED
  BY <1>1, <1>2, <1>3, <1>4, <1>5

\* A program on standard input is run unless a script is named.
LEMMA FedInterpreter ==
  /\ SegmentJudged(<<"python3", "-", "<<", "write note">>, TRUE)
  /\ SegmentJudged(<<"python3", "script", "<<", "write note">>, FALSE)
<1>1. ASSUME NEW b \in {"-", "script"}, NEW fatal \in BOOLEAN,
             InterpreterWrites("python3", <<b>>, {"write note"}) <=> fatal
      PROVE  SegmentJudged(<<"python3", b, "<<", "write note">>, fatal)
  <2> DEFINE a == "python3"
             c == "<<"
             d == "write note"
             s == <<a, b, c, d>>
  <2>1. /\ a \in MemoryWords /\ b \in MemoryWords /\ d \in MemoryWords /\ c \in Operators
        /\ a \notin Operators /\ b \notin Operators /\ d \notin Operators
        /\ c \notin RedirectOperators
        /\ a # "'" /\ b # "'" /\ c # "'" /\ d # "'"
    <3>1. a \in Plain /\ b \in Plain /\ d \in Plain
      BY ArgumentWords, Zenon DEF Arguments, Programs
    <3>2. c # "'"
      BY Zenon
    <3>3. QED
      BY <3>1, <3>2, WordClasses DEF Plain
  <2>2. b \notin Descriptors
    BY Zenon DEF Descriptors
  <2>a. a \in Interpreters
    BY Zenon DEF Interpreters
  <2>b. InterpreterWrites(a, <<b>>, {d}) <=> fatal
    BY <1>1
  <2>c. c \in {"<<"}
    OBVIOUS
  <2> HIDE DEF a, c, d, s
  <2>3. /\ s \in Seq(MemoryWords) /\ CommandWords(s) = <<a, b>> /\ s # <<>> /\ s[1] = a
        /\ ToSet(s) = {a, b, c, d}
        /\ \A F : F \subseteq Operators => After(s, F) = IF c \in F THEN {d} ELSE {}
    <3>1. b \notin Operators \union Descriptors
      BY <2>1, <2>2
    <3>2. QED
      BY <2>1, <3>1, FedCommand DEF s
  <2>4. After(s, RedirectOperators) = {} /\ After(s, {"<<"}) = {d}
    BY <2>1, <2>3, <2>c, EnvWords
  <2>5. Tail(<<a, b>>) = <<b>>
    OBVIOUS
  <2>6. InterpreterWrites(s[1], Tail(CommandWords(s)), After(s, {"<<"})) <=> fatal
    BY <2>3, <2>4, <2>5, <2>b, Zenon
  <2>7. "'" \notin ToSet(s) /\ s[1] \in Interpreters
    BY <2>1, <2>3, <2>a
  <2>8. SegmentJudged(s, fatal)
    BY <2>3, <2>4, <2>6, <2>7, InterpreterJudged
  <2>9. QED
    BY <2>8 DEF s, a, c, d
<1>2. InterpreterWrites("python3", <<"-">>, {"write note"}) <=> TRUE
  BY InterpretersWrite
<1>3. InterpreterWrites("python3", <<"script">>, {"write note"}) <=> FALSE
  BY InterpretersWrite
<1>4. QED
  BY <1>1, <1>2, <1>3, Zenon

\* Commands that write a place are found to, and no others.
LEMMA WritingJudged ==
  ASSUME NEW place \in DOMAIN Places, NEW seg \in Writing(place)
  PROVE  SegmentJudged(seg, place \in TakenForMemory)
<1> DEFINE fatal == place \in TakenForMemory
<1>1. /\ place \in Plain /\ "docs" \in Plain /\ "x" \in Plain /\ "y" \in Plain /\ "2" \in Plain
      /\ "write docs" \in Plain /\ "-a" \in Plain /\ "-i" \in Plain /\ "s/a/b/" \in Plain
      /\ "-r" \in Plain /\ "-t" \in Plain /\ "-s" \in Plain /\ "0" \in Plain /\ "perl" \in Plain
  BY ArgumentWords, Zenon DEF Arguments, Programs
<1>2. SegmentJudged(<<"cat", "x", ">", place>>, fatal)
  BY <1>1, WordClasses, ReaderWords, Zenon
<1>3. SegmentJudged(<<"make", "2", ">>|", place>>, fatal)
  BY <1>1, WordClasses, ReaderWords, Zenon
<1>4. SegmentJudged(<<"cat", "<<", "write docs", ">", place>>, fatal)
  BY <1>1, WordClasses, ReaderWords, Zenon
<1>0. fatal \in BOOLEAN
  OBVIOUS
<1>w. {"tee", "touch", "truncate", "cp", "mv", "sed", "dd", "rm"} \subseteq Writers
  BY WordClasses
<1>5. SegmentJudged(<<"tee", "-a", "docs", place>>, fatal)
  <2>1. Memory(WrittenPaths("tee", <<"-a", "docs", place>>)) <=> place \in TakenForMemory
    BY PlacesWritten, Zenon
  <2>2. "tee" \in Writers
    BY <1>w
  <2> HIDE DEF fatal
  <2>3. Memory(WrittenPaths("tee", <<"-a", "docs", place>>)) <=> fatal
    BY <2>1 DEF fatal
  <2>4. QED
    BY <1>0, <1>1, <2>2, <2>3, FourJudged, Zenon
<1>6. SegmentJudged(<<"sed", "-i", "s/a/b/", place>>, fatal)
  <2>1. Memory(WrittenPaths("sed", <<"-i", "s/a/b/", place>>)) <=> place \in TakenForMemory
    BY PlacesWritten, Zenon
  <2>2. "sed" \in Writers
    BY <1>w
  <2> HIDE DEF fatal
  <2>3. Memory(WrittenPaths("sed", <<"-i", "s/a/b/", place>>)) <=> fatal
    BY <2>1 DEF fatal
  <2>4. QED
    BY <1>0, <1>1, <2>2, <2>3, FourJudged, Zenon
<1>7. SegmentJudged(<<"cp", "-r", "x", "y", place>>, fatal)
  <2>1. Memory(WrittenPaths("cp", <<"-r", "x", "y", place>>)) <=> place \in TakenForMemory
    BY PlacesWritten, Zenon
  <2>2. "cp" \in Writers
    BY <1>w
  <2> HIDE DEF fatal
  <2>3. Memory(WrittenPaths("cp", <<"-r", "x", "y", place>>)) <=> fatal
    BY <2>1 DEF fatal
  <2>4. QED
    <3>1. "-r" \in Plain /\ "x" \in Plain /\ "y" \in Plain /\ place \in Plain
      BY <1>1
    <3>2. QED
      BY <1>0, <2>2, <2>3, <3>1, FiveJudged, Zenon
<1>8. SegmentJudged(<<"mv", "-t", place, "x">>, fatal)
  <2>1. Memory(WrittenPaths("mv", <<"-t", place, "x">>)) <=> place \in TakenForMemory
    BY PlacesWritten, Zenon
  <2>2. "mv" \in Writers
    BY <1>w
  <2> HIDE DEF fatal
  <2>3. Memory(WrittenPaths("mv", <<"-t", place, "x">>)) <=> fatal
    BY <2>1 DEF fatal
  <2>4. QED
    BY <1>0, <1>1, <2>2, <2>3, FourJudged, Zenon
<1>9. SegmentJudged(<<"truncate", "-s", "0", place>>, fatal)
  <2>1. Memory(WrittenPaths("truncate", <<"-s", "0", place>>)) <=> place \in TakenForMemory
    BY PlacesWritten, Zenon
  <2>2. "truncate" \in Writers
    BY <1>w
  <2> HIDE DEF fatal
  <2>3. Memory(WrittenPaths("truncate", <<"-s", "0", place>>)) <=> fatal
    BY <2>1 DEF fatal
  <2>4. QED
    BY <1>0, <1>1, <2>2, <2>3, FourJudged, Zenon
<1>10. SegmentJudged(<<"perl", "-i", "x", place>>, fatal)
  <2> DEFINE s == <<"perl", "-i", "x", place>>
  <2>1. {"perl", "-i", "x", place} \subseteq Plain
    BY <1>1
  <2>2. {"perl", "-i", "x", place} \subseteq MemoryWords
    BY <2>1 DEF Plain
  <2>3. Worded(s, "perl", <<"-i", "x", place>>, {"perl", "-i", "x", place})
    BY <2>2, WordsOfFour, Zenon
  <2>4. InterpreterWrites("perl", <<"-i", "x", place>>, After(s, {"<<"})) <=> fatal
    BY InterpretersWrite, Zenon
  <2> DEFINE r == <<"-i", "x", place>>
  <2> HIDE DEF s, r, fatal
  <2>5. /\ s \in Seq(MemoryWords) /\ s # <<>> /\ s[1] = "perl" /\ Tail(s) = r
        /\ ToSet(s) \subseteq Plain
    <3>1. /\ s \in Seq(MemoryWords) /\ s # <<>> /\ s[1] = "perl" /\ Tail(s) = r
          /\ ToSet(s) = {"perl", "-i", "x", place}
      BY <2>3, Zenon DEF Worded, r
    <3>2. QED
      BY <2>1, <3>1
  <2>6. CommandWords(s) = s /\ After(s, RedirectOperators) = {} /\ "'" \notin ToSet(s)
    BY <2>5, WholeCommand
  <2>7. s[1] \in Interpreters
    BY <2>5, Zenon DEF Interpreters
  <2>8. InterpreterWrites(s[1], Tail(CommandWords(s)), After(s, {"<<"})) <=> fatal
    BY <2>4, <2>5, <2>6, Zenon DEF r
  <2>9. SegmentJudged(s, fatal)
    BY <1>0, <2>5, <2>6, <2>7, <2>8, InterpreterJudged
  <2>10. QED
    BY <2>9 DEF s
<1>11. QED
  BY <1>2, <1>3, <1>4, <1>5, <1>6, <1>7, <1>8, <1>9, <1>10, Zenon DEF Writing

\* Commands that only mention a place write no memory.
LEMMA MentioningJudged ==
  ASSUME NEW place \in DOMAIN Places, NEW seg \in Mentioning(place)
  PROVE  SegmentJudged(seg, FALSE)
<1>1. /\ place \in Plain /\ "x" \in Plain /\ "2" \in Plain /\ "payload" \in Plain
      /\ "write note" \in Plain /\ "-r" \in Plain /\ "-t" \in Plain
  BY ArgumentWords, Zenon DEF Arguments
<1>w. /\ {"tee", "touch", "truncate", "cp", "mv", "sed", "dd", "rm"} \subseteq Writers
      /\ FALSE \in BOOLEAN
  BY WordClasses
<1>2. SegmentJudged(<<"cat", place>>, FALSE)
  BY <1>1, WordClasses, ReaderWords, Zenon
<1>3. SegmentJudged(<<"rm", place>>, FALSE)
  BY <1>1, <1>w, PlacesWritten, TwoJudged, Zenon
<1>4. SegmentJudged(<<"grep", "x", "<", place>>, FALSE)
  BY <1>1, WordClasses, ReaderWords, Zenon
<1>5. SegmentJudged(<<"cp", place, "x">>, FALSE)
  BY <1>1, <1>w, PlacesWritten, ThreeJudged, Zenon
<1>6. SegmentJudged(<<"mv", "-t", "x", place>>, FALSE)
  BY <1>1, <1>w, PlacesWritten, FourJudged, Zenon
<1>7. SegmentJudged(<<"touch", "-r", place, "x">>, FALSE)
  BY <1>1, <1>w, PlacesWritten, FourJudged, Zenon
<1>8. SegmentJudged(<<"echo", "payload", ">&", "2">>, FALSE)
  BY <1>1, WordClasses, ReaderWords, Zenon
<1>9. SegmentJudged(<<"sed", "x", place>>, FALSE)
  BY <1>1, <1>w, PlacesWritten, ThreeJudged, Zenon
<1>10. SegmentJudged(<<"cat", "<<", "write note">>, FALSE)
  BY <1>1, WordClasses, ReaderWords, Zenon
<1>11. SegmentJudged(<<"cat", "'", ">", place>>, FALSE)
  <2>1. {"cat", "'", ">", place} \subseteq MemoryWords
    BY <1>1, WordClasses, ArgumentWords DEF Plain, Programs
  <2> DEFINE s == <<"cat", "'", ">", place>>
  <2>2. Worded(s, "cat", Tail(s), {"cat", "'", ">", place})
    BY <2>1, WordsOfFour, Zenon
  <2> HIDE DEF s
  <2>3. s \in Seq(MemoryWords) /\ s # <<>> /\ s[1] = "cat" /\ "'" \in ToSet(s)
    BY <2>2, Zenon DEF Worded
  <2>4. s[1] \in Programs
    BY <2>3, Zenon DEF Programs
  <2>5. SegmentJudged(s, FALSE)
    BY <2>3, <2>4, UnreadableJudged
  <2>6. QED
    BY <2>5 DEF s
<1>12. SegmentJudged(<<"python3", "script", "<<", "write note">>, FALSE)
  BY FedInterpreter
<1>13. QED
  BY <1>2, <1>3, <1>4, <1>5, <1>6, <1>7, <1>8, <1>9, <1>10, <1>11, <1>12, Zenon DEF Mentioning

\* Programs and dd are found to write the note.
LEMMA WritingNoteJudged ==
  ASSUME NEW seg \in WritingNote
  PROVE  SegmentJudged(seg, TRUE)
<1>1. SegmentJudged(<<"python3", "-", "<<", "write note">>, TRUE)
  BY FedInterpreter
<1>2. SegmentJudged(<<"dd", "if=x", "of=note">>, TRUE)
  <2>1. "if=x" \in Plain /\ "of=note" \in Plain
    BY ArgumentWords, Zenon DEF Arguments
  <2>2. "dd" \in Writers /\ TRUE \in BOOLEAN
    BY WordClasses
  <2>3. Memory(WrittenPaths("dd", <<"if=x", "of=note">>)) <=> TRUE
    <3>1. "note" \in DOMAIN Places
      BY DEF Places
    <3>2. QED
      BY <3>1, PlacesWritten, Zenon
  <2>4. QED
    BY <2>1, <2>2, <2>3, ThreeJudged, Zenon
<1>3. SegmentJudged(<<"python3", "-c", "write note">>, TRUE)
  <2> DEFINE s == <<"python3", "-c", "write note">>
             r == <<"-c", "write note">>
  <2>1. {"python3", "-c", "write note"} \subseteq Plain
    BY ArgumentWords, Zenon DEF Arguments, Programs
  <2>2. {"python3", "-c", "write note"} \subseteq MemoryWords
    BY <2>1 DEF Plain
  <2>3. Worded(s, "python3", r, {"python3", "-c", "write note"})
    BY <2>2, WordsOfThree, Zenon
  <2>4. \A fed : InterpreterWrites("python3", r, fed)
    BY InterpretersWrite
  <2> HIDE DEF s, r
  <2>5. /\ s \in Seq(MemoryWords) /\ s # <<>> /\ s[1] = "python3" /\ Tail(s) = r
        /\ ToSet(s) \subseteq Plain
    <3>1. /\ s \in Seq(MemoryWords) /\ s # <<>> /\ s[1] = "python3" /\ Tail(s) = r
          /\ ToSet(s) = {"python3", "-c", "write note"}
      BY <2>3, Zenon DEF Worded
    <3>2. QED
      BY <2>1, <3>1
  <2>6. CommandWords(s) = s /\ After(s, RedirectOperators) = {} /\ "'" \notin ToSet(s)
    BY <2>5, WholeCommand
  <2>7. s[1] \in Interpreters
    BY <2>5, Zenon DEF Interpreters
  <2>8. InterpreterWrites(s[1], Tail(CommandWords(s)), After(s, {"<<"})) <=> TRUE
    BY <2>4, <2>5, <2>6, Zenon
  <2>9. SegmentJudged(s, TRUE)
    BY <2>5, <2>6, <2>7, <2>8, InterpreterJudged
  <2>10. QED
    BY <2>9 DEF s
<1>4. QED
  BY <1>1, <1>2, <1>3, Zenon DEF WritingNote

\* What is proved of levels that n nestings deep write memory or do not: the
\* depth at which they are looked at is all that hides it.
MemoryHolds(levels, fatal, n) ==
    /\ levels \in Commands(MemoryWords) /\ levels # <<>> /\ levels[1] # <<>>
    /\ Commanding(levels[1][1])
    /\ \A d \in 0..MaxMemoryDepth + 1 : Writes[d][levels] = (fatal /\ d + n <= MaxMemoryDepth)

\* It is what is asked of the segments of the first level.
LEMMA HeadedHolds ==
  ASSUME NEW x \in Seq(Seq(MemoryWords)), x # <<>>, Commanding(x[1]),
         NEW t \in Commands(MemoryWords), NEW fatal \in BOOLEAN, NEW n \in Nat,
         \A d \in 0..MaxMemoryDepth :
            (\E seg \in ToSet(x) : Identifies(seg, t, Writes[d + 1]))
                <=> (fatal /\ d + n <= MaxMemoryDepth)
  PROVE  MemoryHolds(<<x>> \o t, fatal, n)
<1> DEFINE u == <<x>> \o t
           S == Seq(Seq(MemoryWords))
<1>1. u \in Seq(S) /\ u # <<>> /\ u[1] = x /\ Tail(u) = t
  <2>1. x \in S /\ t \in Seq(S)
    BY DEF Commands
  <2> HIDE DEF S
  <2>2. QED
    BY <2>1, HeadedIs
<1> HIDE DEF u
<1>2. u \in Commands(MemoryWords)
  BY <1>1 DEF Commands
<1>3. ASSUME NEW d \in 0..MaxMemoryDepth + 1
      PROVE  Writes[d][u] = (fatal /\ d + n <= MaxMemoryDepth)
  <2>1. CASE d = MaxMemoryDepth + 1
    <3>1. Writes[d][u] = FALSE
      <4>1. Writes[MaxMemoryDepth + 1][u] = FALSE
        BY <1>2, WritesOf
      <4>2. QED
        BY <2>1, <4>1
    <3>2. ~(d + n <= MaxMemoryDepth)
      BY <2>1 DEF MaxMemoryDepth
    <3>3. QED
      BY <3>1, <3>2
  <2>2. CASE d # MaxMemoryDepth + 1
    <3>1. d \in 0..MaxMemoryDepth
      BY <2>2 DEF MaxMemoryDepth
    <3>2. /\ Writes[d][u] \in BOOLEAN
          /\ Writes[d][u] <=> \E seg \in ToSet(x) : Identifies(seg, t, Writes[d + 1])
      BY <1>1, <1>2, <3>1, WritesOf
    <3>3. QED
      BY <3>1, <3>2
  <2>3. QED
    BY <2>1, <2>2
<1>4. x # <<>> /\ Commanding(x[1])
  OBVIOUS
<1>5. QED
  BY <1>1, <1>2, <1>3, <1>4 DEF MemoryHolds, u

\* And it follows from what is proved of the levels.
LEMMA HoldsHeaded ==
  ASSUME NEW levels, NEW fatal \in BOOLEAN, NEW n \in Nat, MemoryHolds(levels, fatal, n)
  PROVE  /\ levels[1] \in Seq(Seq(MemoryWords)) /\ levels[1] # <<>>
         /\ Commanding(levels[1][1]) /\ Tail(levels) \in Commands(MemoryWords)
         /\ \A d \in 0..MaxMemoryDepth :
                (\E seg \in ToSet(levels[1]) : Identifies(seg, Tail(levels), Writes[d + 1]))
                    <=> (fatal /\ d + n <= MaxMemoryDepth)
<1> DEFINE S == Seq(Seq(MemoryWords))
           x == levels[1]
           t == Tail(levels)
<1>1. levels \in Seq(S) /\ levels # <<>> /\ x # <<>> /\ Commanding(x[1])
  BY DEF MemoryHolds, Commands
<1>2. x \in S /\ t \in Seq(S)
  <2> HIDE DEF S
  <2>1. QED
    BY <1>1, BeheadIs
<1>3. ASSUME NEW d \in 0..MaxMemoryDepth
      PROVE  (\E seg \in ToSet(x) : Identifies(seg, t, Writes[d + 1]))
                    <=> (fatal /\ d + n <= MaxMemoryDepth)
  <2>1. d \in 0..MaxMemoryDepth + 1 /\ levels \in Commands(MemoryWords)
    BY DEF MaxMemoryDepth, MemoryHolds
  <2>2. Writes[d][levels] <=> \E seg \in ToSet(x) : Identifies(seg, t, Writes[d + 1])
    BY <2>1, WritesOf
  <2>3. Writes[d][levels] = (fatal /\ d + n <= MaxMemoryDepth)
    BY <2>1 DEF MemoryHolds
  <2>4. QED
    BY <2>2, <2>3
<1>4. QED
  BY <1>1, <1>2, <1>3 DEF Commands

\* cd after it changes nothing.
LEMMA CdHolds ==
  ASSUME NEW levels, NEW fatal \in BOOLEAN, NEW n \in Nat, MemoryHolds(levels, fatal, n)
  PROVE  MemoryHolds(<<Append(levels[1], <<"cd", "dir">>)>> \o Tail(levels), fatal, n)
<1> DEFINE S == Seq(MemoryWords)
           w == <<"cd", "dir">>
           b == levels[1]
           t == Tail(levels)
           x == Append(b, w)
<1>1. /\ b \in Seq(Seq(MemoryWords)) /\ b # <<>> /\ Commanding(b[1]) /\ t \in Commands(MemoryWords)
      /\ \A d \in 0..MaxMemoryDepth :
            (\E seg \in ToSet(b) : Identifies(seg, t, Writes[d + 1]))
                    <=> (fatal /\ d + n <= MaxMemoryDepth)
  BY HoldsHeaded
<1>2. SegmentJudged(w, FALSE)
  <2>1. "cd" \in Readers
    BY Zenon DEF Readers
  <2>2. "dir" \in Plain
    BY ArgumentWords, Zenon DEF Arguments
  <2>3. QED
    BY <2>1, <2>2, ReaderWords, Zenon
<1> HIDE DEF b, t, w
<1>3. w \in S /\ \A h : ~Identifies(w, t, h)
  BY <1>2 DEF SegmentJudged, Commanding
<1>4. /\ x \in Seq(S) /\ x # <<>> /\ ToSet(x) = ToSet(b) \union {w}
      /\ x[1] = b[1]
  <2>1. b \in Seq(S) /\ 1 \in 1..Len(b)
    <3>1. Len(b) \in Nat /\ Len(b) # 0
      BY <1>1
    <3>2. QED
      BY <1>1, <3>1
  <2> HIDE DEF S
  <2>2. QED
    BY <1>3, <2>1, AppendIs, ToSetAppend
<1> HIDE DEF x
<1>5. ASSUME NEW d \in 0..MaxMemoryDepth
      PROVE  (\E seg \in ToSet(x) : Identifies(seg, t, Writes[d + 1]))
                    <=> (fatal /\ d + n <= MaxMemoryDepth)
  <2>1. (\E seg \in ToSet(x) : Identifies(seg, t, Writes[d + 1]))
            <=> \E seg \in ToSet(b) : Identifies(seg, t, Writes[d + 1])
    BY <1>3, <1>4, Zenon
  <2>2. QED
    BY <1>1, <2>1
<1>6. MemoryHolds(<<x>> \o t, fatal, n)
  <2>1. x \in Seq(Seq(MemoryWords))
    BY <1>4
  <2>2. Commanding(x[1])
    BY <1>1, <1>4
  <2>3. QED
    BY <1>1, <1>4, <1>5, <2>1, <2>2, HeadedHolds
<1>7. QED
  BY <1>6 DEF x, b, t, w

\* env in front of it changes nothing.
LEMMA EnvHolds ==
  ASSUME NEW levels, NEW fatal \in BOOLEAN, NEW n \in Nat, MemoryHolds(levels, fatal, n)
  PROVE  MemoryHolds(<<<<<<"env", "-i">> \o levels[1][1]>> \o Tail(levels[1])>> \o Tail(levels),
                     fatal, n)
<1> DEFINE S == Seq(MemoryWords)
           w == <<"env", "-i">>
           b == levels[1]
           t == Tail(levels)
           s == b[1]
           r == Tail(b)
           u == w \o s
           x == <<u>> \o r
<1>1. /\ b \in Seq(Seq(MemoryWords)) /\ b # <<>> /\ Commanding(s) /\ t \in Commands(MemoryWords)
      /\ \A d \in 0..MaxMemoryDepth :
            (\E seg \in ToSet(b) : Identifies(seg, t, Writes[d + 1]))
                    <=> (fatal /\ d + n <= MaxMemoryDepth)
  BY HoldsHeaded
<1> HIDE DEF b, t
<1>2. s \in S /\ r \in Seq(S) /\ ToSet(b) = {s} \union ToSet(r)
  <2>1. b \in Seq(S)
    BY <1>1
  <2> HIDE DEF S
  <2>2. QED
    BY <1>1, <2>1, BeheadIs
<1> HIDE DEF s, r
<1>3. /\ Commanding(u)
      /\ \A h : Identifies(u, t, h) <=> Identifies(s, t, h)
  BY <1>1, EnvWrites
<1> HIDE DEF u
<1>4. x \in Seq(S) /\ x # <<>> /\ ToSet(x) = {u} \union ToSet(r) /\ x[1] = u
  <2>1. u \in S
    BY <1>3 DEF Commanding
  <2> HIDE DEF S
  <2>2. QED
    BY <1>2, <2>1, HeadedIs
<1> HIDE DEF x
<1>5. ASSUME NEW d \in 0..MaxMemoryDepth
      PROVE  (\E seg \in ToSet(x) : Identifies(seg, t, Writes[d + 1]))
                    <=> (fatal /\ d + n <= MaxMemoryDepth)
  <2>1. (\E seg \in ToSet(x) : Identifies(seg, t, Writes[d + 1]))
            <=> \E seg \in ToSet(b) : Identifies(seg, t, Writes[d + 1])
    BY <1>2, <1>3, <1>4, Zenon
  <2>2. QED
    BY <1>1, <2>1
<1>6. MemoryHolds(<<x>> \o t, fatal, n)
  <2>1. x \in Seq(Seq(MemoryWords))
    BY <1>4
  <2>2. Commanding(x[1])
    BY <1>3, <1>4
  <2>3. QED
    BY <1>1, <1>4, <1>5, <2>1, <2>2, HeadedHolds
<1>7. QED
  BY <1>6 DEF x, u, s, r, b, t, w

\* A shell's script is looked into one level down.
LEMMA ShellWrites ==
  LET w == <<"sh", "-lc", "payload">>
  IN Commanding(w) /\ \A levels, h : Identifies(w, levels, h) <=> h[levels]
<1> DEFINE w == <<"sh", "-lc", "payload">>
           t == <<"-lc", "payload">>
<1>1. /\ w \in Seq(MemoryWords) /\ w # <<>> /\ w[1] = "sh" /\ Tail(w) = t
      /\ ToSet(w) = {"sh", "-lc", "payload"}
  <2>1. {"sh", "-lc", "payload"} \subseteq MemoryWords
    BY Zenon DEF MemoryWords
  <2>2. Worded(w, "sh", t, {"sh", "-lc", "payload"})
    BY <2>1, WordsOfThree, Zenon
  <2>3. QED
    BY <2>2, Zenon DEF Worded
<1>2. ShellPayload(t) = "payload"
  <2>1. "-lc" \in CommandFlags /\ "payload" \notin CommandFlags
    BY Zenon DEF CommandFlags
  <2>2. QED
    BY <2>1, ShellPayloadIs, Zenon
<1> HIDE DEF w, t
<1>3. ToSet(w) \subseteq Plain
  <2>1. "sh" \in Plain /\ "payload" \in Plain
    BY ArgumentWords, Zenon DEF Arguments, Programs
  <2>2. "-lc" \in Plain
    BY Zenon DEF Plain, MemoryWords, Operators, RedirectOperators
  <2>3. QED
    BY <1>1, <2>1, <2>2
<1>4. CommandWords(w) = w /\ After(w, RedirectOperators) = {} /\ "'" \notin ToSet(w)
  BY <1>1, <1>3, WholeCommand
<1>5. /\ Commanding(w) /\ StripLeadingNoise(CommandWords(w)) = CommandWords(w)
      /\ Base(CommandWords(w)[1]) = "sh"
  <2>1. w[1] \in Programs
    BY <1>1, Zenon DEF Programs
  <2>2. QED
    BY <1>1, <2>1, ProgramInvoked
<1>6. ASSUME NEW levels, NEW h PROVE Identifies(w, levels, h) <=> h[levels]
  <2>1. SegmentWrites(w, levels, h) <=> WritesWith({}, w, After(w, {"<<"}), levels, h)
    BY <1>4, <1>5, SegmentWritesIs, Zenon
  <2>2. "sh" \in Shells /\ "payload" # None /\ Script("payload", levels) = levels
    BY Zenon DEF Shells, None, Script
  <2>3. Base(w[1]) = "sh"
    BY <1>4, <1>5
  <2>4. WritesWith({}, w, After(w, {"<<"}), levels, h) <=> h[levels]
    <3> DEFINE fed == After(w, {"<<"})
    <3>1. Base(w[1]) \in Shells /\ Base(w[1]) \notin Interpreters
      BY <2>2, <2>3, Zenon DEF Interpreters
    <3>2. w # <<>> /\ Tail(w) = t
      BY <1>1
    <3> HIDE DEF fed
    <3>3. WritesWith({}, w, fed, levels, h) <=>
              ShellPayload(t) # None /\ h[Script(ShellPayload(t), levels)]
      BY <3>1, <3>2, Zenon DEF WritesWith
    <3>4. QED
      BY <1>2, <2>2, <3>3, Zenon DEF fed
  <2>5. QED
    BY <1>4, <2>1, <2>4, Zenon DEF Identifies
<1>7. QED
  BY <1>5, <1>6 DEF w

\* A single segment on a level.
LEMMA AloneHolds ==
  ASSUME NEW seg, Commanding(seg), NEW t \in Commands(MemoryWords), NEW fatal \in BOOLEAN,
         NEW n \in Nat,
         \A d \in 0..MaxMemoryDepth :
            Identifies(seg, t, Writes[d + 1]) <=> (fatal /\ d + n <= MaxMemoryDepth)
  PROVE  MemoryHolds(One(seg) \o t, fatal, n)
<1> DEFINE x == <<seg>>
<1>1. seg \in Seq(MemoryWords)
  BY DEF Commanding
<1>2. x \in Seq(Seq(MemoryWords)) /\ x # <<>> /\ x[1] = seg
  BY <1>1
<1>3. ToSet(x) = {seg}
  BY ToSetOfWords, Zenon
<1> HIDE DEF x
<1>4. \A d \in 0..MaxMemoryDepth :
            (\E s \in ToSet(x) : Identifies(s, t, Writes[d + 1]))
                <=> (fatal /\ d + n <= MaxMemoryDepth)
  BY <1>3, Zenon
<1>5. MemoryHolds(<<x>> \o t, fatal, n)
  BY <1>2, <1>4, HeadedHolds
<1>6. QED
  BY <1>5 DEF x, One

\* A shell around it is one nesting more.
LEMMA ShellHolds ==
  ASSUME NEW levels, NEW fatal \in BOOLEAN, NEW n \in Nat, MemoryHolds(levels, fatal, n)
  PROVE  MemoryHolds(One(<<"sh", "-lc", "payload">>) \o levels, fatal, n + 1)
<1> DEFINE w == <<"sh", "-lc", "payload">>
<1>1. Commanding(w) /\ \A l, h : Identifies(w, l, h) <=> h[l]
  BY ShellWrites
<1> HIDE DEF w
<1>2. levels \in Commands(MemoryWords)
  BY DEF MemoryHolds
<1>3. ASSUME NEW d \in 0..MaxMemoryDepth
      PROVE  Identifies(w, levels, Writes[d + 1]) <=> (fatal /\ d + (n + 1) <= MaxMemoryDepth)
  <2>1. d + 1 \in 0..MaxMemoryDepth + 1 /\ (d + 1) + n = d + (n + 1)
    BY DEF MaxMemoryDepth
  <2>2. \A e \in 0..MaxMemoryDepth + 1 :
            Writes[e][levels] = (fatal /\ e + n <= MaxMemoryDepth)
    BY DEF MemoryHolds
  <2>3. Writes[d + 1][levels] = (fatal /\ d + (n + 1) <= MaxMemoryDepth)
    BY <2>1, <2>2
  <2>4. Identifies(w, levels, Writes[d + 1]) <=> Writes[d + 1][levels]
    BY <1>1
  <2>5. QED
    BY <2>3, <2>4
<1>4. n + 1 \in Nat
  OBVIOUS
<1>5. MemoryHolds(One(w) \o levels, fatal, n + 1)
  BY <1>1, <1>2, <1>3, <1>4, AloneHolds
<1>6. QED
  BY <1>5 DEF w

\* Each wrapping keeps what is judged, one nesting deeper or not.
LEMMA WrappingHolds ==
  ASSUME NEW levels, NEW fatal \in BOOLEAN, NEW n \in Nat, MemoryHolds(levels, fatal, n),
         NEW w \in MemoryWrappings
  PROVE  MemoryHolds(WrappedIn(w, levels), fatal, n + (IF w \in Nestings THEN 1 ELSE 0))
<1>1. /\ \A a, b, c, d : a # c => <<a, b>> # <<c, d>>
      /\ \A a, b, c, d, e : <<a, b>> # <<c, d, e>>
      /\ \A a, b, c, d, e, f : a # d => <<a, b, c>> # <<d, e, f>>
  OBVIOUS
<1>2. "env" # "eval" /\ "unknown" # "sh" /\ "cd" # "eval" /\ "env" # "cd"
  BY Zenon
<1>3. n + 0 = n
  OBVIOUS
<1>4. CASE w = <<"env", "-i">>
  <2>1. w \in Displacing /\ w \notin Nestings /\ w \notin Sequels
    BY <1>1, <1>2, <1>4, Zenon DEF Displacing, Nestings, Sequels
  <2>2. WrappedIn(w, levels) = <<<<w \o levels[1][1]>> \o Tail(levels[1])>> \o Tail(levels)
    BY <2>1, Zenon DEF WrappedIn
  <2>3. MemoryHolds(WrappedIn(w, levels), fatal, n)
    BY <1>4, <2>2, EnvHolds
  <2>4. QED
    BY <1>3, <2>1, <2>3
<1>5. CASE w = <<"cd", "dir">>
  <2>1. w \in Sequels /\ w \notin Nestings /\ w \notin Displacing
    BY <1>1, <1>2, <1>5, Zenon DEF Displacing, Nestings, Sequels
  <2>2. WrappedIn(w, levels) = <<Append(levels[1], w)>> \o Tail(levels)
    BY <2>1, Zenon DEF WrappedIn
  <2>3. MemoryHolds(WrappedIn(w, levels), fatal, n)
    BY <1>5, <2>2, CdHolds
  <2>4. QED
    BY <1>3, <2>1, <2>3
<1>6. CASE w = <<"sh", "-lc", "payload">>
  <2>1. w \in Nestings /\ w \notin Displacing /\ w \notin Sequels
    BY <1>1, <1>2, <1>6, Zenon DEF Displacing, Nestings, Sequels
  <2>2. WrappedIn(w, levels) = One(w) \o levels
    BY <2>1, Zenon DEF WrappedIn
  <2>3. MemoryHolds(WrappedIn(w, levels), fatal, n + 1)
    BY <1>6, <2>2, ShellHolds
  <2>4. QED
    BY <2>1, <2>3
<1>7. QED
  BY <1>4, <1>5, <1>6 DEF MemoryWrappings

\* So any number of them does.
LEMMA AlwaysHolds ==
  ASSUME NEW core, NEW fatal \in BOOLEAN, MemoryHolds(core, fatal, 0),
         NEW s \in Seq(MemoryWrappings)
  PROVE  MemoryHolds(Wrapped(core, s), fatal, Nested(s)) /\ Nested(s) \in Nat
<1> DEFINE S == MemoryWrappings
           Good == {t \in Seq(S) : MemoryHolds(Wrapped(core, t), fatal, Nested(t))}
<1>0. S # {}
  BY DEF MemoryWrappings
<1> HIDE DEF S
<1>1. <<>> \in Good
  <2>1. \A w \in S : Wrapped(core, <<>>) = core /\ Nested(<<>>) = 0
    <3>1. <<>> \in Seq(S)
      OBVIOUS
    <3>2. QED
      BY <3>1, WrappedAppend, NestedAppend
  <2>2. QED
    BY <1>0, <2>1
<1>2. ASSUME NEW t \in Seq(S), NEW w \in S, t \in Good PROVE Append(t, w) \in Good
  <2>1. MemoryHolds(Wrapped(core, t), fatal, Nested(t))
    BY <1>2
  <2>2. Nested(t) \in Nat /\ Nested(Append(t, w)) = Nested(t) + (IF w \in Nestings THEN 1 ELSE 0)
    BY NestedAppend
  <2>3. Wrapped(core, Append(t, w)) = WrappedIn(w, Wrapped(core, t))
    BY WrappedAppend
  <2>4. w \in MemoryWrappings
    BY DEF S
  <2>5. MemoryHolds(WrappedIn(w, Wrapped(core, t)), fatal,
                    Nested(t) + (IF w \in Nestings THEN 1 ELSE 0))
    BY <2>1, <2>2, <2>4, WrappingHolds
  <2>6. Append(t, w) \in Seq(S)
    OBVIOUS
  <2>7. QED
    BY <2>2, <2>3, <2>5, <2>6
<1> HIDE DEF Good
<1>3. Seq(S) \subseteq Good
  BY <1>1, <1>2, SequenceInduction
<1>4. s \in Good
  BY <1>3 DEF S
<1>5. Nested(s) \in Nat
  <2>1. \A w \in S : Nested(s) \in Nat
    <3>1. s \in Seq(S)
      BY DEF S
    <3>2. QED
      BY <3>1, NestedAppend
  <2>2. QED
    BY <1>0, <2>1
<1>6. QED
  BY <1>4, <1>5 DEF Good

\* A command that is judged is so whatever else is quoted.
LEMMA JudgedHolds ==
  ASSUME NEW seg, NEW fatal \in BOOLEAN, SegmentJudged(seg, fatal), NEW t \in Commands(MemoryWords)
  PROVE  MemoryHolds(One(seg) \o t, fatal, 0)
<1>1. Commanding(seg) /\ \A inner, writing : Identifies(seg, inner, writing) <=> fatal
  BY DEF SegmentJudged
<1>2. \A d \in 0..MaxMemoryDepth :
        Identifies(seg, t, Writes[d + 1]) <=> (fatal /\ d + 0 <= MaxMemoryDepth)
  <2>1. \A d \in 0..MaxMemoryDepth : d + 0 <= MaxMemoryDepth
    BY DEF MaxMemoryDepth
  <2>2. QED
    BY <1>1, <2>1
<1>3. 0 \in Nat
  OBVIOUS
<1>4. QED
  BY <1>1, <1>2, <1>3, AloneHolds

\* Wrapped in any way, a command writes memory if it does so unwrapped, and is
\* not nested too deep.
LEMMA AlwaysWrites ==
  ASSUME NEW seg, NEW fatal \in BOOLEAN, SegmentJudged(seg, fatal), NEW s \in Seq(MemoryWrappings)
  PROVE  CommandWrites(Wrapped(One(seg) \o One(<<"tee", "note">>), s), 0)
            = (fatal /\ Nested(s) <= MaxMemoryDepth)
<1> DEFINE core == One(seg) \o One(<<"tee", "note">>)
           u == Wrapped(core, s)
<1>1. MemoryHolds(core, fatal, 0)
  <2>1. "tee" \in MemoryWords /\ "note" \in MemoryWords
    BY Zenon DEF MemoryWords, Places
  <2>2. <<"tee", "note">> \in Seq(MemoryWords)
    BY <2>1
  <2>3. One(<<"tee", "note">>) \in Commands(MemoryWords)
    BY <2>2 DEF One, Commands
  <2>4. QED
    BY <2>3, JudgedHolds
<1> HIDE DEF core
<1>2. MemoryHolds(u, fatal, Nested(s)) /\ Nested(s) \in Nat
  BY <1>1, AlwaysHolds
<1> HIDE DEF u
<1>3. 0 \in 0..MaxMemoryDepth + 1 /\ 0 + Nested(s) = Nested(s)
  BY <1>2 DEF MaxMemoryDepth
<1>4. Writes[0][u] = (fatal /\ 0 + Nested(s) <= MaxMemoryDepth)
  BY <1>2, <1>3 DEF MemoryHolds
<1>5. CommandWrites(u, 0) = (fatal /\ Nested(s) <= MaxMemoryDepth)
  BY <1>3, <1>4 DEF CommandWrites
<1>6. QED
  BY <1>5 DEF u, core

\* So exactly the commands that write memory are identified.
LEMMA AlwaysIdentified == ASSUME NEW s \in Seq(MemoryWrappings) PROVE MemoryJudgedUnder(s)
<1> DEFINE identified(seg) == CommandWrites(Wrapped(One(seg) \o One(<<"tee", "note">>), s), 0)
           shallow == Nested(s) <= MaxMemoryDepth
<1>1. ASSUME NEW place \in DOMAIN Places, NEW seg \in Writing(place)
      PROVE  identified(seg) = (place \in TakenForMemory /\ shallow)
  <2>1. SegmentJudged(seg, place \in TakenForMemory) /\ (place \in TakenForMemory) \in BOOLEAN
    BY WritingJudged
  <2>2. QED
    BY <2>1, AlwaysWrites
<1>2. ASSUME NEW place \in DOMAIN Places, NEW seg \in Mentioning(place)
      PROVE  ~identified(seg)
  <2>1. SegmentJudged(seg, FALSE) /\ FALSE \in BOOLEAN
    BY MentioningJudged
  <2>2. identified(seg) = (FALSE /\ shallow)
    BY <2>1, AlwaysWrites
  <2>3. QED
    BY <2>2
<1>3. ASSUME NEW seg \in WritingNote PROVE identified(seg) = shallow
  <2>1. SegmentJudged(seg, TRUE) /\ TRUE \in BOOLEAN
    BY WritingNoteJudged
  <2>2. identified(seg) = (TRUE /\ shallow)
    BY <2>1, AlwaysWrites
  <2>3. QED
    BY <2>2
<1> HIDE DEF identified, shallow
<1>4. /\ \A place \in DOMAIN Places :
            /\ \A seg \in Writing(place) : identified(seg) = (place \in TakenForMemory /\ shallow)
            /\ \A seg \in Mentioning(place) : ~identified(seg)
      /\ \A seg \in WritingNote : identified(seg) = shallow
  BY <1>1, <1>2, <1>3, Zenon
<1>5. QED
  BY <1>4, Zenon DEF MemoryJudgedUnder, identified, shallow

\* The nearest of the directories that have a configuration.
LEMMA NearestIs ==
  ASSUME NEW n \in Nat, NEW P \in SUBSET (1..n), NEW k \in P
  PROVE  LET m == CHOOSE i \in P : \A j \in P : i <= j
         IN m \in P /\ \A j \in P : m <= j
<1> DEFINE Good == {a \in Nat : \A i \in P : i <= a => \E m \in P : \A j \in P : m <= j}
<1>0. \A i \in P : i \in Nat \ {0}
  OBVIOUS
<1>1. 0 \in Good
  BY <1>0
<1>2. ASSUME NEW a \in Nat, a \in Good PROVE a + 1 \in Good
  <2>1. ASSUME NEW i \in P, i <= a + 1 PROVE \E m \in P : \A j \in P : m <= j
    <3>1. CASE \E j \in P : j <= a
      BY <1>2, <3>1
    <3>2. CASE \A j \in P : ~(j <= a)
      <4>1. \A j \in P : i <= j
        BY <1>0, <2>1, <3>2
      <4>2. QED
        BY <4>1
    <3>3. QED
      BY <3>1, <3>2
  <2>2. QED
    BY <2>1
<1> HIDE DEF Good
<1>3. n \in Good
  BY <1>1, <1>2, Induction
<1>4. k <= n
  OBVIOUS
<1>5. \E m \in P : \A j \in P : m <= j
  BY <1>3, <1>4 DEF Good
<1>6. QED
  BY <1>5

\* The hooks search for the configuration that governs a directory.
LEMMA GovernedIs ==
  ASSUME NEW env \in {None, "plugin", "other", "garbage"}, NEW chain \in Seq(Directory)
  PROVE  ProjectDir(env, chain) = "plugin" <=>
            IF env # None THEN env = "plugin"
            ELSE \E i \in DOMAIN chain :
                    chain[i] = "plugin" /\ \A j \in 1..i - 1 : chain[j] = "none"
<1> DEFINE found == {i \in DOMAIN chain : chain[i] # "none"}
<1>0. "none" # "plugin"
  BY Zenon
<1>1. DOMAIN chain = 1..Len(chain) /\ Len(chain) \in Nat
  OBVIOUS
<1>2. CASE env # None
  BY <1>2, Zenon DEF ProjectDir
<1>3. CASE env = None /\ found = {}
  <2>1. ProjectDir(env, chain) = "none"
    BY <1>3, Zenon DEF ProjectDir
  <2>2. \A i \in DOMAIN chain : chain[i] # "plugin"
    BY <1>0, <1>3
  <2>3. QED
    BY <1>0, <1>3, <2>1, <2>2, Zenon
<1>4. CASE env = None /\ found # {}
  <2> DEFINE m == CHOOSE i \in found : \A j \in found : i <= j
  <2>1. found \in SUBSET (1..Len(chain))
    BY <1>1
  <2>2. m \in found /\ \A j \in found : m <= j
    <3>1. PICK k \in found : TRUE
      BY <1>4
    <3> HIDE DEF found
    <3>2. QED
      BY <1>1, <2>1, <3>1, NearestIs
  <2>3. ProjectDir(env, chain) = chain[m]
    BY <1>4, Zenon DEF ProjectDir
  <2> HIDE DEF m
  <2>4. m \in DOMAIN chain /\ chain[m] # "none"
    BY <2>2
  <2>5. \A j \in 1..m - 1 : chain[j] = "none"
    BY <1>1, <2>2, <2>4
  <2>6. ASSUME NEW i \in DOMAIN chain, chain[i] = "plugin", \A j \in 1..i - 1 : chain[j] = "none"
        PROVE  chain[m] = "plugin"
    <3>1. i \in found
      BY <1>0, <2>6
    <3>2. m <= i
      BY <2>2, <3>1
    <3>3. ~(m \in 1..i - 1)
      BY <2>4, <2>6
    <3>4. m = i
      BY <1>1, <2>4, <3>2, <3>3
    <3>5. QED
      BY <2>6, <3>4
  <2>7. QED
    BY <1>4, <2>3, <2>4, <2>5, <2>6, Zenon
<1>5. QED
  BY <1>2, <1>3, <1>4

\* What each tool says it writes.
LEMMA CallsWrite ==
  ASSUME NEW tool \in {"Write", "Edit", "apply_patch", "Bash", "Read"}, NEW place \in DOMAIN Places
  PROVE  WritesMemory([tool |-> tool, paths |-> {"docs", place}, command |-> One(<<"tee", place>>)])
            <=> tool # "Read" /\ place \in TakenForMemory
<1> DEFINE asked == [tool |-> tool, paths |-> {"docs", place}, command |-> One(<<"tee", place>>)]
           fatal == place \in TakenForMemory
<1>1. CommandWrites(One(<<"tee", place>>), 0) = fatal
  <2>0. fatal \in BOOLEAN
    OBVIOUS
  <2>1. Memory(WrittenPaths("tee", <<place>>)) <=> place \in TakenForMemory
    BY PlacesWritten, Zenon
  <2>2. "tee" \in Writers
    BY WordClasses
  <2>3. place \in Plain
    BY ArgumentWords
  <2> HIDE DEF fatal
  <2>4. Memory(WrittenPaths("tee", <<place>>)) <=> fatal
    BY <2>1 DEF fatal
  <2>5. SegmentJudged(<<"tee", place>>, fatal)
    BY <2>0, <2>2, <2>3, <2>4, TwoJudged, Zenon
  <2>6. <<>> \in Commands(MemoryWords)
    BY DEF Commands
  <2>7. MemoryHolds(One(<<"tee", place>>) \o <<>>, fatal, 0)
    BY <2>0, <2>5, <2>6, JudgedHolds
  <2>8. One(<<"tee", place>>) \o <<>> = One(<<"tee", place>>)
    BY DEF One
  <2>9. 0 \in 0..MaxMemoryDepth + 1 /\ 0 + 0 <= MaxMemoryDepth
    BY DEF MaxMemoryDepth
  <2>10. Writes[0][One(<<"tee", place>>)] = (fatal /\ 0 + 0 <= MaxMemoryDepth)
    BY <2>7, <2>8, <2>9 DEF MemoryHolds
  <2>11. QED
    BY <2>0, <2>9, <2>10 DEF CommandWrites
<1>2. (\E p \in {"docs", place} : IsMemoryPath(p)) <=> fatal
  <2>1. "docs" \notin TakenForMemory
    BY ArgumentWords
  <2>2. QED
    BY <2>1, MemoryPathIs
<1>3. /\ asked.tool = tool /\ asked.paths = {"docs", place}
      /\ asked.command = One(<<"tee", place>>)
  OBVIOUS
<1>4. /\ "Read" # "Bash" /\ "Read" \notin {"Write", "Edit", "apply_patch"}
      /\ "Bash" \notin {"Write", "Edit", "apply_patch"} /\ "Bash" # "Read"
  BY Zenon
<1> HIDE DEF asked, fatal
<1>5. CASE tool = "Bash"
  <2>1. WritesMemory(asked) = CommandWrites(One(<<"tee", place>>), 0)
    BY <1>3, <1>4, <1>5, Zenon DEF WritesMemory
  <2>2. QED
    BY <1>1, <1>4, <1>5, <2>1 DEF fatal, asked
<1>6. CASE tool \in {"Write", "Edit", "apply_patch"}
  <2>1. tool # "Bash" /\ tool # "Read"
    BY <1>4, <1>6
  <2>2. WritesMemory(asked) <=> \E p \in {"docs", place} : IsMemoryPath(p)
    BY <1>3, <1>6, <2>1, Zenon DEF WritesMemory
  <2>3. QED
    BY <1>2, <2>1, <2>2 DEF fatal, asked
<1>7. CASE tool = "Read"
  <2>1. ~WritesMemory(asked)
    BY <1>3, <1>4, <1>7, Zenon DEF WritesMemory
  <2>2. QED
    BY <1>7, <2>1 DEF asked
<1>8. QED
  BY <1>5, <1>6, <1>7

\* The shortest raw create is one.
LEMMA ShortCreate == IsRawBdCreate(<<"bd", "create">>)
<1> DEFINE words == <<"bd", "create">>
<1>1. DOMAIN words = 1..2 /\ words[1] = "bd" /\ words[2] = "create" /\ Len(words) = 2
  OBVIOUS
<1>2. words \in Seq({"bd", "create"})
  OBVIOUS
<1>3. "bd" # "'" /\ "create" # "'" /\ Base("bd") = "bd"
  BY Zenon DEF Base, Directories
<1> HIDE DEF words
<1>4. ASSUME NEW i \in 1..2 PROVE ~Quoted(words, i)
  <2> DEFINE sub == SubSeq(words, 1, i)
  <2>1. DOMAIN sub = 1..i /\ \A j \in 1..i : sub[j] = words[j]
    BY <1>1, <1>2
  <2> HIDE DEF sub
  <2>2. \A j \in 1..i : words[j] # "'"
    BY <1>1, <1>3
  <2>3. {j \in DOMAIN sub : sub[j] = "'"} = {}
    BY <2>1, <2>2
  <2>4. Count(sub, "'") = 0
    BY <2>3, FS_EmptySet DEF Count
  <2>5. 0 % 2 # 1
    OBVIOUS
  <2>6. QED
    BY <2>4, <2>5 DEF Quoted, sub
<1>5. ~Quoted(words, Len(words))
  BY <1>1, <1>4
<1>6. ASSUME NEW stops PROVE RunsCreate(words, stops)
  <2>1. (1 + 1..2 - 1) \intersect stops = {}
    OBVIOUS
  <2>2. 1 \in DOMAIN words /\ 2 \in DOMAIN words /\ 1 < 2
    BY <1>1
  <2>3. Base(words[1]) = "bd" /\ ~Quoted(words, 1) /\ words[2] = "create" /\ ~Quoted(words, 2)
    BY <1>1, <1>3, <1>4
  <2>4. QED
    BY <2>1, <2>2, <2>3 DEF RunsCreate
<1>7. IsRawBdCreate(words)
  BY <1>5, <1>6, Zenon DEF IsRawBdCreate
<1>8. QED
  BY <1>7 DEF words

\* All the hooks agree on where they apply.
LEMMA HooksAlwaysAgree ==
  ASSUME NEW env \in {None, "plugin", "other", "garbage"}, NEW chain \in Seq(Directory)
  PROVE  HooksAgree(env, chain)
<1> DEFINE governed ==
             IF env # None THEN env = "plugin"
             ELSE \E i \in DOMAIN chain :
                    chain[i] = "plugin" /\ \A j \in 1..i - 1 : chain[j] = "none"
           here == ProjectDir(env, chain) = "plugin"
           refused == MemoryRefused([tool |-> "Write", paths |-> {"note"}], env, chain)
<1>1. here <=> governed
  BY GovernedIs
<1> HIDE DEF governed
<1>2. RefusedWhereGoverned(env, chain)
  <2>1. ASSUME NEW tool \in {"Write", "Edit", "apply_patch", "Bash", "Read"}, NEW place \in DOMAIN Places
        PROVE  MemoryRefused([tool |-> tool, paths |-> {"docs", place},
                              command |-> One(<<"tee", place>>)], env, chain)
                  = (governed /\ tool # "Read" /\ place \in TakenForMemory)
    <3> DEFINE asked == [tool |-> tool, paths |-> {"docs", place},
                        command |-> One(<<"tee", place>>)]
    <3>1. WritesMemory(asked) <=> tool # "Read" /\ place \in TakenForMemory
      BY CallsWrite
    <3> HIDE DEF asked
    <3>2. MemoryRefused(asked, env, chain) = (WritesMemory(asked) /\ here)
      BY Zenon DEF MemoryRefused
    <3>3. MemoryRefused(asked, env, chain) \in BOOLEAN /\ governed \in BOOLEAN
      BY <3>2 DEF governed
    <3>4. QED
      BY <1>1, <3>1, <3>2, <3>3 DEF asked
  <2>2. QED
    BY <2>1, Zenon DEF RefusedWhereGoverned, governed
<1>3. refused <=> here
  <2> DEFINE asked == [tool |-> "Write", paths |-> {"note"}]
  <2>1. asked.tool = "Write" /\ asked.paths = {"note"}
    OBVIOUS
  <2>2. IsMemoryPath("note")
    BY MemoryPathIs, Zenon DEF TakenForMemory, MemoryPlaces
  <2> HIDE DEF asked
  <2>3. WritesMemory(asked)
    <3>1. "Write" # "Bash" /\ "Write" \in {"Write", "Edit", "apply_patch"}
      BY Zenon
    <3>2. WritesMemory(asked) <=> \E p \in {"note"} : IsMemoryPath(p)
      BY <2>1, <3>1, Zenon DEF WritesMemory
    <3>3. QED
      BY <2>2, <3>2
  <2>4. MemoryRefused(asked, env, chain) <=> here
    BY <2>3, Zenon DEF MemoryRefused
  <2>5. QED
    BY <2>4 DEF asked
<1>4. ASSUME NEW store \in {"absent", "unreadable", "readable"}, NEW t \in BackgroundTables
      PROVE  AuditWarns(FALSE, env, chain, store, [k \in {t} |-> 1])
                = (store = "readable" /\ refused)
  <2> DEFINE rows == [k \in {t} |-> 1]
  <2>1. DOMAIN rows = {t} /\ rows[t] = 1
    OBVIOUS
  <2> HIDE DEF rows
  <2>2. BackgroundCounts(rows)[t] = 1
    BY <2>1 DEF BackgroundCounts
  <2>3. \E s \in BackgroundTables : BackgroundCounts(rows)[s] > 0
    BY <2>2
  <2>4. AuditWarns(FALSE, env, chain, store, rows) = (here /\ store = "readable")
    BY <2>3, Zenon DEF AuditWarns
  <2> HIDE DEF refused, here
  <2>5. (here /\ store = "readable") = (store = "readable" /\ refused)
    <3>1. refused \in BOOLEAN /\ here \in BOOLEAN
      BY DEF refused, here, MemoryRefused
    <3>2. QED
      BY <1>3, <3>1
  <2>6. QED
    BY <2>4, <2>5 DEF rows
<1>5. CreateRefused("Bash", <<"bd", "create">>, env) = (env # None /\ refused)
  <2>1. CreateRefused("Bash", <<"bd", "create">>, env) <=> env = "plugin"
    BY ShortCreate, Zenon DEF CreateRefused
  <2>2. env = "plugin" <=> env # None /\ here
    <3>1. None # "plugin"
      BY Zenon DEF None
    <3>2. env # None => ProjectDir(env, chain) = env
      BY Zenon DEF ProjectDir
    <3>3. QED
      BY <3>1, <3>2
  <2>3. CreateRefused("Bash", <<"bd", "create">>, env) \in BOOLEAN
    BY DEF CreateRefused
  <2> HIDE DEF refused, here
  <2>4. QED
    BY <1>3, <2>1, <2>2, <2>3
<1>6. QED
  BY <1>2, <1>4, <1>5, Zenon DEF HooksAgree

-----------------------------------------------------------------------------
(***************************************************************************)
(* What the hooks make of their inputs.                                    *)
(***************************************************************************)
\* However long a command is, _split_on_operators cuts it into segments at the
\* separators the shell sees and at the & of >& and &>, up to the first double
\* quote that is escaped within double quotes.
THEOREM AlwaysSegmentsAsShell == HookSpec => []SegmentsAsShell
<1>1. HookTypes => SegmentsAsShell
  BY AlwaysCutAsBuilt DEF HookTypes, SegmentsAsShell, Alphabet
<1>2. QED
  BY <1>1, HookTypesHold, PTL

\* However many lines a command has, a segment is handed the here-document it
\* reads and no other (_own_bodies), unless a line up to it holds two of them or
\* an earlier one mentions the name it spells.
THEOREM BodiesAlwaysOwn == HookSpec => []OwnBodiesOnly
<1>1. HookTypes => OwnBodiesOnly
  BY AlwaysOwnBodies DEF HookTypes, OwnBodiesOnly, Alphabet
<1>2. QED
  BY <1>1, HookTypesHold, PTL

\* block_raw_bd_create takes a command of any number of words for a raw create if
\* the shell would run one that can be lexed and quotes no punctuation, and else
\* only if bd create is mentioned or line breaks are quoted here and not there.
THEOREM RawCreateAlwaysJudged == HookSpec => []RawCreateJudged
<1>1. HookTypes => RawCreateJudged
  BY CreateAlwaysJudged DEF HookTypes, RawCreateJudged, Alphabet
<1>2. QED
  BY <1>1, HookTypesHold, PTL

\* warn_shadow_ledger warns of a task list in a plan until somebody has typed
\* again, however long the transcript is.
THEOREM ShadowLedgerAlwaysWarned == HookSpec => []ShadowLedgerWarned
<1>1. HookTypes => ShadowLedgerWarned
  BY AlwaysWarns DEF HookTypes, ShadowLedgerWarned, Alphabet
<1>2. QED
  BY <1>1, HookTypesHold, PTL

\* However many operands, options and redirections a command has, redirect_targets
\* finds the files it writes but for >|, glued redirections, sed -Ei and wrapped
\* editors, and more than those only for >|, tee and sed -i.
THEOREM TargetsAlwaysSeen == HookSpec => []TargetsSeen
<1>1. HookTypes => TargetsSeen
  BY AlwaysTargetsAsWritten DEF HookTypes, TargetsSeen, Alphabet
<1>2. QED
  BY <1>1, HookTypesHold, PTL

\* However many wrappers are stacked around a git command, strip_leading_noise
\* leaves it to be refused for what it does, or for the lefthook they switch off.
THEOREM WrappersAlwaysTransparent == HookSpec => []WrappersTransparent
<1>1. HookTypes => WrappersTransparent
  BY AlwaysTransparent DEF HookTypes, WrappersTransparent, Alphabet
<1>2. QED
  BY <1>1, HookTypesHold, PTL

\* A command that kills the tmux server all agents share is denied, and no
\* other is, in any number of wrappings (_footgun_tmux.py).
THEOREM FleetKillAlwaysDenied == HookSpec => []FleetKillDenied
<1>1. HookTypes => FleetKillDenied
  BY AlwaysDenied DEF HookTypes, FleetKillDenied, Alphabet
<1>2. QED
  BY <1>1, HookTypesHold, PTL

\* However many lines config.toml has, what codex_hook_trust writes leaves every
\* hook trusted, switched on or off as it was, and every other table as it was.
THEOREM RecordsAlwaysRewritten == HookSpec => []RecordsRewritten
<1>1. HookTypes => RecordsRewritten
  BY AlwaysRewritten DEF HookTypes, RecordsRewritten, Alphabet
<1>2. QED
  BY <1>1, HookTypesHold, PTL

\* However a command is wrapped and nested, the hooks take it for a write of agent
\* memory if it is one they look deep enough to see, and besides those only if it
\* writes a .md in another directory called memory; all tools are refused alike
\* where the nearest configuration, of any length, declares the plugin.
THEOREM MemoryAlwaysJudged == HookSpec => []MemoryJudged
<1>1. HookTypes /\ family = "wrappings" /\ ToSet(input) \subseteq MemoryWrappings =>
          MemoryJudgedUnder(input)
  <2>1. SUFFICES ASSUME HookTypes, family = "wrappings", ToSet(input) \subseteq MemoryWrappings
                 PROVE  input \in Seq(MemoryWrappings)
    BY AlwaysIdentified
  <2>2. input \in Seq(Wrappings)
    BY <2>1 DEF HookTypes, Alphabet
  <2>3. \A i \in DOMAIN input : input[i] \in MemoryWrappings
    BY <2>1 DEF ToSet
  <2>4. QED
    BY <2>2, <2>3
<1>2. HookTypes /\ family = "directories" =>
          \A env \in {None, "plugin", "other", "garbage"} : HooksAgree(env, input)
  BY HooksAlwaysAgree DEF HookTypes, Alphabet
<1>3. HookTypes /\ family = "config" => UncommentedAsBuilt(input)
  BY AlwaysUncommented DEF HookTypes, Alphabet
<1>4. HookTypes => MemoryJudged
  BY <1>1, <1>2, <1>3 DEF MemoryJudged
<1>5. QED
  BY <1>4, HookTypesHold, PTL

\* The guard as the hooks run it keeps what is proved of it alone.
THEOREM HooksRefusePrimary == HookSpec => [](PrimaryRefused /\ RefusalsJustified)
BY HooksRunGuard, PrimaryAlwaysRefused, RefusalsAlwaysJustified, PTL
=============================================================================
