--------------------------- MODULE StopGate_proofs ---------------------------
(***************************************************************************)
(* Proofs about StopGate, for any age limits and any number of changes.    *)
(*                                                                         *)
(* Decided says what a decision has established so far that no change in   *)
(* the middle can take back; Undisturbed adds what still holds as long as  *)
(* nothing has changed.                                                    *)
(***************************************************************************)
EXTENDS StopGate, TLAPS

Late == {"producer", "shared", "own"}

\* What is settled once a decision has come to a label ...
Settled(label) ==
    /\ label # "payload" => /\ event = [form |-> "object", topic |-> "named"]
                            /\ ~reentry
    /\ LetsGo(marker) => settled
    /\ \A k \in Kinds : Vouched(k) => k \in vouched
    /\ seen.state = "active" /\ Complete(seen) => settled
    /\ label \in Late => Complete(seen)
    /\ label \in {"shared", "own"} => seen.producer = "registered"
    /\ label = "own" /\ found => "registered" \in vouched

\* ... and what is still so if nothing has changed.
Still(label) ==
    /\ label \notin {"payload", "transcript"} => transcript = "other"
    /\ label \notin {"payload", "transcript", "root"} => root = "found"
    /\ label \notin {"payload", "transcript", "root", "path"} => path = "owned"
    /\ label \in Late \union {"judge"} => seen = marker
    /\ label \in Late => Fresh(seen)
    /\ label = "own" => /\ registry["shared"] # "undecodable"
                        /\ found <=> registry["shared"] = "lists"

Decided == turn = "stopping" => Settled(pc)

Undisturbed == turn = "stopping" /\ quiet => Still(pc)

Inv == TypeOK /\ Decided /\ Undisturbed

-----------------------------------------------------------------------------
(***************************************************************************)
(* Type correctness.                                                       *)
(***************************************************************************)
Labels == {"idle", "payload", "transcript", "root", "path", "exists", "read",
           "judge", "producer", "shared", "own"}

LEMMA Values ==
    /\ Missing \in Markers
    /\ Missing.state = "missing"
    /\ NoEvent \in Events
  BY DEF Missing, Inert, Markers, NoEvent, Events

\* The hook writes none of what it reads.
LEMMA EvidenceTypes ==
  ASSUME TypeOK, Unchanged
  PROVE  /\ clock' \in 0..MaxTime
         /\ changes' \in 0..MaxChanges
         /\ root' \in {"found", "none", "failing"}
         /\ path' \in {"owned", "redirected"}
         /\ marker' \in Markers
         /\ process' \in {"matching", "other", "gone"}
         /\ registry' \in [Files -> {"lists", "lacks", "undecodable"}]
         /\ transcript' \in {"override", "other", "undecodable"}
  BY DEF TypeOK, Unchanged, evidenceVars

LEMMA AnswerTypes ==
  ASSUME TypeOK, Unchanged, NEW allow, Answer(allow)
  PROVE  TypeOK'
<1>1. /\ turn' \in {"running", "ended"}
      /\ reentry' \in BOOLEAN
      /\ event' \in Events
      /\ pc' = "idle"
      /\ seen' \in Markers /\ seen'.state = "missing"
      /\ found' \in BOOLEAN /\ quiet' \in BOOLEAN /\ settled' \in BOOLEAN
      /\ vouched' \subseteq Kinds
  BY Values DEF Answer
<1>2. QED
  BY <1>1, EvidenceTypes DEF TypeOK

LEMMA ProceedTypes ==
  ASSUME TypeOK, Unchanged, NEW label \in Labels \ {"idle"}, Proceed(label),
         pc # "idle",
         seen.state = "active" <=> label \in {"judge", "producer", "shared", "own"}
  PROVE  TypeOK'
<1>1. /\ turn' = turn /\ reentry' \in BOOLEAN /\ event' \in Events
      /\ pc' = label
      /\ seen' = seen /\ seen \in Markers
      /\ found' \in BOOLEAN /\ quiet' \in BOOLEAN /\ settled' \in BOOLEAN
      /\ vouched' \subseteq Kinds
  BY DEF Proceed, TypeOK, turnVars, historyVars
<1>2. turn \in {"running", "stopping", "ended"} /\ turn = "stopping"
  BY DEF TypeOK
<1>3. pc' \in Labels /\ pc' # "idle"
  BY <1>1
<1>4. QED
  BY <1>1, <1>2, <1>3, EvidenceTypes DEF TypeOK, Labels

LEMMA GateStepTypes ==
  ASSUME TypeOK, GateStep
  PROVE  TypeOK'
<1>0. seen.state = "active" <=> pc \in {"judge", "producer", "shared", "own"}
  BY DEF TypeOK
<1>1. CASE ReadPayload
  BY <1>0, <1>1, AnswerTypes, ProceedTypes DEF ReadPayload, Labels
<1>2. CASE ReadTranscript
  BY <1>0, <1>2, AnswerTypes, ProceedTypes DEF ReadTranscript, Labels
<1>3. CASE FindProject
  BY <1>0, <1>3, AnswerTypes, ProceedTypes DEF FindProject, Labels
<1>4. CASE OwnedMarker
  BY <1>0, <1>4, AnswerTypes, ProceedTypes DEF OwnedMarker, Labels
<1>5. CASE MarkerExists
  BY <1>0, <1>5, AnswerTypes, ProceedTypes DEF MarkerExists, Labels
<1>6. CASE ReadMarker
  <2>1. CASE pc' = "judge" /\ marker.state = "active" /\ seen' = marker
             /\ UNCHANGED <<turnVars, found, historyVars>>
    <3>1. /\ turn' = "stopping" /\ reentry' \in BOOLEAN /\ event' \in Events
          /\ seen' \in Markers /\ seen'.state = "active"
          /\ found' \in BOOLEAN /\ quiet' \in BOOLEAN /\ settled' \in BOOLEAN
          /\ vouched' \subseteq Kinds
      BY <1>6, <2>1 DEF ReadMarker, TypeOK, turnVars, historyVars
    <3>2. QED
      BY <1>6, <2>1, <3>1, EvidenceTypes DEF ReadMarker, TypeOK
  <2>2. QED
    BY <1>6, <2>1, AnswerTypes DEF ReadMarker
<1>7. CASE Judge
  BY <1>0, <1>7, AnswerTypes, ProceedTypes DEF Judge, Labels
<1>8. CASE CheckProducer
  BY <1>0, <1>8, AnswerTypes, ProceedTypes DEF CheckProducer, Labels
<1>9. CASE ReadRegistry
  <2>1. CASE /\ pc = "shared" /\ pc' = "own"
             /\ found' = (registry["shared"] = "lists")
             /\ UNCHANGED <<turnVars, seen, historyVars>>
    <3>1. /\ turn' = "stopping" /\ reentry' \in BOOLEAN /\ event' \in Events
          /\ seen' \in Markers /\ seen'.state = "active"
          /\ found' \in BOOLEAN /\ quiet' \in BOOLEAN /\ settled' \in BOOLEAN
          /\ vouched' \subseteq Kinds
      BY <1>0, <2>1 DEF TypeOK, turnVars, historyVars
    <3>2. QED
      BY <1>9, <2>1, <3>1, EvidenceTypes DEF ReadRegistry, TypeOK
  <2>2. QED
    BY <1>9, <2>1, AnswerTypes DEF ReadRegistry
<1> QED
  BY <1>1, <1>2, <1>3, <1>4, <1>5, <1>6, <1>7, <1>8, <1>9 DEF GateStep

LEMMA WorldStepTypes ==
  ASSUME TypeOK, WorldStep
  PROVE  TypeOK'
<1>1. Noted
  BY DEF WorldStep, MarkerChange, ProcessChange, RegistryChange,
         TranscriptChange, PlaceChange, Tick, Change
<1>2. /\ turn' = turn /\ pc' = pc /\ seen' = seen
      /\ reentry' \in BOOLEAN /\ event' \in Events
      /\ found' \in BOOLEAN /\ quiet' \in BOOLEAN /\ settled' \in BOOLEAN
  BY <1>1 DEF Noted, turnVars, TypeOK
<1>3. vouched' \subseteq Kinds
  BY <1>1 DEF Noted, TypeOK
<1>4. clock' \in 0..MaxTime /\ changes' \in 0..MaxChanges
  BY BoundsAssumption, SMT
  DEF WorldStep, MarkerChange, ProcessChange, RegistryChange,
      TranscriptChange, PlaceChange, Tick, Change, TypeOK
<1>5. /\ root' \in {"found", "none", "failing"}
      /\ path' \in {"owned", "redirected"}
      /\ marker' \in Markers
      /\ process' \in {"matching", "other", "gone"}
      /\ transcript' \in {"override", "other", "undecodable"}
  BY DEF WorldStep, MarkerChange, ProcessChange, RegistryChange,
         TranscriptChange, PlaceChange, Tick, TypeOK, evidenceVars
<1>6. registry' \in [Files -> {"lists", "lacks", "undecodable"}]
  BY DEF WorldStep, MarkerChange, ProcessChange, RegistryChange,
         TranscriptChange, PlaceChange, Tick, TypeOK, evidenceVars
<1> QED
  BY <1>2, <1>3, <1>4, <1>5, <1>6 DEF TypeOK

LEMMA TypeInit == Init => TypeOK
<1> SUFFICES ASSUME Init PROVE TypeOK
  OBVIOUS
<1>1. clock \in 0..MaxTime /\ changes \in 0..MaxChanges
  BY BoundsAssumption DEF Init
<1>2. registry \in [Files -> {"lists", "lacks", "undecodable"}]
  BY DEF Init
<1>3. QED
  BY <1>1, <1>2, Values DEF Init, TypeOK

LEMMA TypeStep == TypeOK /\ [Next]_vars => TypeOK'
<1> SUFFICES ASSUME TypeOK, [Next]_vars PROVE TypeOK'
  OBVIOUS
<1>1. CASE Stop
  <2>1. /\ turn' = "stopping" /\ pc' = "payload" /\ seen' = seen
        /\ event' \in Events /\ pc = "idle"
        /\ seen' \in Markers /\ seen'.state # "active"
    BY <1>1 DEF Stop, TypeOK
  <2>2. /\ reentry' \in BOOLEAN /\ found' \in BOOLEAN /\ quiet' \in BOOLEAN
        /\ settled' \in BOOLEAN /\ vouched' \subseteq Kinds
    BY <1>1 DEF Stop, TypeOK, LetsGo
  <2>3. Unchanged
    BY <1>1 DEF Stop, Unchanged
  <2>4. QED
    BY <2>1, <2>2, <2>3, EvidenceTypes DEF TypeOK
<1>2. CASE Prompt
  BY <1>2 DEF Prompt, TypeOK, historyVars
<1>3. CASE GateStep
  BY <1>3, GateStepTypes
<1>4. CASE WorldStep
  BY <1>4, WorldStepTypes
<1>5. CASE UNCHANGED vars
  BY <1>5 DEF vars, evidenceVars, turnVars, historyVars, TypeOK
<1> QED
  BY <1>1, <1>2, <1>3, <1>4, <1>5 DEF Next

\* Every reachable state is of the stated types, and the label, the turn and
\* the marker that was read agree, for any limits and bounds.
THEOREM TypeCorrect == Spec => []TypeOK
<1>1. Init => TypeOK
  BY TypeInit
<1>2. TypeOK /\ [Next]_vars => TypeOK'
  BY TypeStep
<1> QED
  BY <1>1, <1>2, PTL DEF Spec

-----------------------------------------------------------------------------
(***************************************************************************)
(* The decision.                                                           *)
(***************************************************************************)
LEMMA InitDecided == Init => Decided /\ Undisturbed
  BY DEF Init, Decided, Undisturbed

\* An answer ends the decision, and with it what had been established.
LEMMA AnswerEnds ==
  ASSUME NEW allow, Answer(allow)
  PROVE  Decided' /\ Undisturbed'
<1>1. turn' # "stopping"
  BY DEF Answer
<1>2. QED
  BY <1>1 DEF Decided, Undisturbed

LEMMA ProceedKeeps ==
  ASSUME Unchanged, NEW label, Proceed(label),
         turn = "stopping" => Settled(label),
         turn = "stopping" /\ quiet => Still(label)
  PROVE  Decided' /\ Undisturbed'
<1>1. /\ pc' = label
      /\ turn' = turn /\ reentry' = reentry /\ event' = event
      /\ seen' = seen /\ found' = found
      /\ quiet' = quiet /\ settled' = settled /\ vouched' = vouched
      /\ clock' = clock /\ marker' = marker /\ registry' = registry
      /\ root' = root /\ path' = path /\ transcript' = transcript
      /\ process' = process
  BY DEF Proceed, Unchanged, turnVars, historyVars, evidenceVars
<1>2. turn = "stopping" => Settled(label)'
  BY <1>1 DEF Settled, LetsGo, Complete, Vouched, Live, Registered
<1>3. turn = "stopping" /\ quiet => Still(label)'
  BY <1>1 DEF Still, Fresh
<1> QED
  BY <1>1, <1>2, <1>3 DEF Decided, Undisturbed

LEMMA GateStepDecides ==
  ASSUME TypeOK, Decided, Undisturbed, GateStep
  PROVE  Decided' /\ Undisturbed'
<1>0. /\ turn = "stopping"
      /\ Settled(pc)
      /\ quiet => Still(pc)
      /\ Unchanged
      /\ seen.state = "active" <=> pc \in {"judge", "producer", "shared", "own"}
  <2>1. pc # "idle" /\ Unchanged
    BY DEF GateStep, ReadPayload, ReadTranscript, FindProject, OwnedMarker,
           MarkerExists, ReadMarker, Judge, CheckProducer, ReadRegistry, Files
  <2>2. QED
    BY <2>1 DEF TypeOK, Decided, Undisturbed
<1>1. CASE ReadPayload
  <2>1. pc = "payload"
    BY <1>1 DEF ReadPayload
  <2>2. CASE /\ event.form = "object" /\ ~reentry /\ event.topic = "named"
             /\ Proceed("transcript")
    <3>1. event = [form |-> "object", topic |-> "named"]
      BY <2>2 DEF TypeOK, Events
    <3>2. Settled("transcript")
      BY <1>0, <2>1, <2>2, <3>1 DEF Settled, Late
    <3>3. Still("transcript")
      BY DEF Still, Late
    <3>4. QED
      BY <1>0, <2>2, <3>2, <3>3, ProceedKeeps
  <2>3. QED
    BY <1>1, <2>2, AnswerEnds DEF ReadPayload
<1>2. CASE ReadTranscript
  <2>1. pc = "transcript"
    BY <1>2 DEF ReadTranscript
  <2>2. CASE transcript = "other" /\ Proceed("root")
    <3>1. Settled("root") /\ Still("root")
      BY <1>0, <2>1, <2>2 DEF Settled, Still, Late
    <3>2. QED
      BY <1>0, <2>2, <3>1, ProceedKeeps
  <2>3. QED
    BY <1>2, <2>2, AnswerEnds DEF ReadTranscript
<1>3. CASE FindProject
  <2>1. pc = "root"
    BY <1>3 DEF FindProject
  <2>2. CASE root = "found" /\ Proceed("path")
    <3>1. Settled("path") /\ (quiet => Still("path"))
      BY <1>0, <2>1, <2>2 DEF Settled, Still, Late
    <3>2. QED
      BY <1>0, <2>2, <3>1, ProceedKeeps
  <2>3. QED
    BY <1>3, <2>2, AnswerEnds DEF FindProject
<1>4. CASE OwnedMarker
  <2>1. pc = "path"
    BY <1>4 DEF OwnedMarker
  <2>2. CASE path = "owned" /\ Proceed("exists")
    <3>1. Settled("exists") /\ (quiet => Still("exists"))
      BY <1>0, <2>1, <2>2 DEF Settled, Still, Late
    <3>2. QED
      BY <1>0, <2>2, <3>1, ProceedKeeps
  <2>3. QED
    BY <1>4, <2>2, AnswerEnds DEF OwnedMarker
<1>5. CASE MarkerExists
  <2>1. pc = "exists"
    BY <1>5 DEF MarkerExists
  <2>2. CASE Proceed("read")
    <3>1. Settled("read") /\ (quiet => Still("read"))
      BY <1>0, <2>1 DEF Settled, Still, Late
    <3>2. QED
      BY <1>0, <2>2, <3>1, ProceedKeeps
  <2>3. QED
    BY <1>5, <2>2, AnswerEnds DEF MarkerExists
<1>6. CASE ReadMarker
  <2>1. pc = "read"
    BY <1>6 DEF ReadMarker
  <2>2. CASE /\ marker.state = "active" /\ pc' = "judge" /\ seen' = marker
             /\ UNCHANGED <<turnVars, found, historyVars>>
    <3>1. /\ turn' = turn /\ reentry' = reentry /\ event' = event
          /\ found' = found
          /\ quiet' = quiet /\ settled' = settled /\ vouched' = vouched
          /\ clock' = clock /\ marker' = marker /\ registry' = registry
          /\ root' = root /\ path' = path /\ transcript' = transcript
          /\ process' = process
      BY <1>0, <2>2 DEF Unchanged, turnVars, historyVars, evidenceVars
    <3>2. Settled("judge")'
      <4>1. Complete(marker) => settled
        BY <1>0, <2>2 DEF Settled, LetsGo
      <4>2. LetsGo(marker)' <=> LetsGo(marker)
        BY <3>1 DEF LetsGo, Complete
      <4>3. \A k \in Kinds : Vouched(k)' <=> Vouched(k)
        BY <3>1 DEF Vouched, Live, Registered
      <4>4. QED
        BY <1>0, <2>1, <2>2, <3>1, <4>1, <4>2, <4>3
        DEF Settled, Late, Complete
    <3>3. quiet => Still("judge")'
      BY <1>0, <2>1, <2>2, <3>1 DEF Still, Late
    <3>4. QED
      BY <2>2, <3>1, <3>2, <3>3 DEF Decided, Undisturbed
  <2>3. QED
    BY <1>6, <2>2, AnswerEnds DEF ReadMarker
<1>7. CASE Judge
  <2>1. pc = "judge"
    BY <1>7 DEF Judge
  <2>2. CASE Fresh(seen) /\ Complete(seen) /\ Proceed("producer")
    <3>1. Settled("producer") /\ (quiet => Still("producer"))
      BY <1>0, <2>1, <2>2 DEF Settled, Still, Late
    <3>2. QED
      BY <1>0, <2>2, <3>1, ProceedKeeps
  <2>3. QED
    BY <1>7, <2>2, AnswerEnds DEF Judge
<1>8. CASE CheckProducer
  <2>1. pc = "producer"
    BY <1>8 DEF CheckProducer
  <2>2. CASE seen.producer = "registered" /\ Proceed("shared")
    <3>1. Settled("shared") /\ (quiet => Still("shared"))
      BY <1>0, <2>1, <2>2 DEF Settled, Still, Late
    <3>2. QED
      BY <1>0, <2>2, <3>1, ProceedKeeps
  <2>3. QED
    BY <1>8, <2>2, AnswerEnds DEF CheckProducer
<1>9. CASE ReadRegistry
  <2>1. CASE /\ pc = "shared" /\ registry["shared"] # "undecodable"
             /\ pc' = "own" /\ found' = (registry["shared"] = "lists")
             /\ UNCHANGED <<turnVars, seen, historyVars>>
    <3>1. /\ turn' = turn /\ reentry' = reentry /\ event' = event
          /\ seen' = seen
          /\ quiet' = quiet /\ settled' = settled /\ vouched' = vouched
          /\ clock' = clock /\ marker' = marker /\ registry' = registry
          /\ root' = root /\ path' = path /\ transcript' = transcript
          /\ process' = process
      BY <1>0, <2>1 DEF Unchanged, turnVars, historyVars, evidenceVars
    <3>2. found' => "registered" \in vouched
      <4>1. found' => Vouched("registered")
        BY <2>1 DEF Vouched, Registered, Files
      <4>2. QED
        BY <1>0, <4>1 DEF Settled, Kinds
    <3>3. Settled("own")'
      <4>1. \A k \in Kinds : Vouched(k)' <=> Vouched(k)
        BY <3>1 DEF Vouched, Live, Registered
      <4>2. QED
        BY <1>0, <2>1, <3>1, <3>2, <4>1 DEF Settled, Late, LetsGo, Complete
    <3>4. quiet => Still("own")'
      BY <1>0, <2>1, <3>1 DEF Still, Late, Fresh
    <3>5. QED
      BY <2>1, <3>1, <3>3, <3>4 DEF Decided, Undisturbed
  <2>2. QED
    BY <1>9, <2>1, AnswerEnds DEF ReadRegistry
<1> QED
  BY <1>1, <1>2, <1>3, <1>4, <1>5, <1>6, <1>7, <1>8, <1>9 DEF GateStep

\* Changes from outside only add to what was so during the decision, and end
\* its being undisturbed.
LEMMA WorldStepDecides ==
  ASSUME TypeOK, Decided, WorldStep
  PROVE  Decided' /\ Undisturbed'
<1>1. Noted
  BY DEF WorldStep, MarkerChange, ProcessChange, RegistryChange,
         TranscriptChange, PlaceChange, Tick, Change
<1>2. /\ turn' = turn /\ reentry' = reentry /\ event' = event
      /\ pc' = pc /\ seen' = seen /\ found' = found
      /\ quiet' = FALSE
  BY <1>1 DEF Noted, turnVars
<1>3. CASE turn = "stopping"
  <2>1. pc # "idle"
    BY <1>3 DEF TypeOK
  <2>2. (settled => settled') /\ (LetsGo(marker') => settled')
    BY <1>1, <2>1 DEF Noted
  <2>3. vouched \subseteq vouched'
    BY <1>1, <2>1 DEF Noted
  <2>4. \A k \in Kinds : Vouched(k)' => k \in vouched'
    BY <1>1, <2>1 DEF Noted
  <2>5. Settled(pc)'
    BY <1>2, <1>3, <2>2, <2>3, <2>4 DEF Decided, Settled, LetsGo, Complete
  <2>6. QED
    BY <1>2, <2>5 DEF Decided, Undisturbed
<1>4. CASE turn # "stopping"
  BY <1>2, <1>4 DEF Decided, Undisturbed
<1> QED
  BY <1>3, <1>4

LEMMA StopDecides ==
  ASSUME TypeOK, Stop
  PROVE  Decided' /\ Undisturbed'
<1>1. /\ pc' = "payload" /\ seen' = seen /\ seen.state # "active"
      /\ marker' = marker /\ process' = process /\ registry' = registry
  BY DEF Stop, TypeOK, evidenceVars
<1>2. settled' = LetsGo(marker) /\ vouched' = {k \in Kinds : Vouched(k)}
  BY DEF Stop
<1>3. Settled("payload")'
  BY <1>1, <1>2 DEF Settled, Late, LetsGo, Complete, Vouched, Live, Registered
<1>4. Still("payload")'
  BY DEF Still, Late
<1> QED
  BY <1>1, <1>3, <1>4 DEF Decided, Undisturbed

LEMMA DecidedStep == Inv /\ [Next]_vars => Inv'
<1> SUFFICES ASSUME Inv, [Next]_vars PROVE Decided' /\ Undisturbed'
  BY TypeStep DEF Inv
<1> USE DEF Inv
<1>1. CASE Stop
  BY <1>1, StopDecides
<1>2. CASE Prompt
  BY <1>2 DEF Prompt, Decided, Undisturbed
<1>3. CASE GateStep
  BY <1>3, GateStepDecides
<1>4. CASE WorldStep
  BY <1>4, WorldStepDecides
<1>5. CASE UNCHANGED vars
  <2>1. /\ turn' = turn /\ reentry' = reentry /\ event' = event
        /\ pc' = pc /\ seen' = seen /\ found' = found
        /\ quiet' = quiet /\ settled' = settled /\ vouched' = vouched
        /\ clock' = clock /\ marker' = marker /\ registry' = registry
        /\ root' = root /\ path' = path /\ transcript' = transcript
        /\ process' = process
    BY <1>5 DEF vars, evidenceVars, turnVars, historyVars
  <2>2. Settled(pc)' <=> Settled(pc)
    BY <2>1 DEF Settled, LetsGo, Complete, Vouched, Live, Registered
  <2>3. Still(pc)' <=> Still(pc)
    BY <2>1 DEF Still, Fresh
  <2>4. QED
    BY <2>1, <2>2, <2>3 DEF Decided, Undisturbed
<1> QED
  BY <1>1, <1>2, <1>3, <1>4, <1>5 DEF Next

LEMMA Invariance == Spec => []Inv
<1>1. Init => Inv
  BY TypeInit, InitDecided DEF Inv
<1> QED
  BY <1>1, DecidedStep, PTL DEF Spec

\* Only the hook answers.
LEMMA OnlyHookAnswers ==
  ASSUME TypeOK, [Next]_vars, Answered
  PROVE  GateStep /\ turn = "stopping" /\ pc # "idle"
<1>1. CASE Stop
  BY <1>1 DEF Stop, Answered
<1>2. CASE Prompt
  BY <1>2 DEF Prompt, Answered
<1>3. CASE GateStep
  BY <1>3 DEF TypeOK, Answered
<1>4. CASE WorldStep
  BY <1>4 DEF WorldStep, MarkerChange, ProcessChange, RegistryChange,
     TranscriptChange, PlaceChange, Tick, Change, Noted, turnVars, Answered
<1>5. CASE UNCHANGED vars
  BY <1>5 DEF vars, turnVars, Answered
<1> QED
  BY <1>1, <1>2, <1>3, <1>4, <1>5 DEF Next

\* Whatever changes meanwhile, a blocked reentry was one Codex gave input
\* that is no JSON.
THEOREM NeverTrapped == Spec => BlockedOnce
<1>1. Inv /\ [Next]_vars =>
        (Answered /\ ~Allowed /\ reentry => event.form = "broken")
  <2> SUFFICES ASSUME Inv, [Next]_vars, Answered, ~Allowed, reentry
               PROVE  event.form = "broken"
    OBVIOUS
  <2>1. GateStep /\ turn = "stopping"
    BY OnlyHookAnswers DEF Inv
  <2>2. pc = "payload"
    BY <2>1 DEF Inv, Decided, Settled
  <2>3. ReadPayload
    BY <2>1, <2>2 DEF GateStep, ReadTranscript, FindProject, OwnedMarker,
       MarkerExists, ReadMarker, Judge, CheckProducer, ReadRegistry, Files
  <2>4. turn' # "ended" /\ turn' # "stopping"
    BY DEF Answered, Allowed
  <2>5. QED
    BY <2>1, <2>3, <2>4 DEF ReadPayload, Answer, Proceed, turnVars
<1> QED
  BY <1>1, Invariance, PTL DEF Spec, BlockedOnce

LEMMA AnswerTurn ==
  ASSUME NEW allow, Answer(allow)
  PROVE  (allow => turn' = "ended") /\ (~allow => turn' = "running")
  BY DEF Answer

\* A turn the hook lets end on the marker's word was let go by the marker
\* during this decision, and its producer was verifiable during it, whatever
\* changed in between.
THEOREM OnlyOnEvidence == Spec => AllowedOnEvidence
<1>1. Inv /\ [Next]_vars =>
        (Allowed /\ pc \notin {"payload", "transcript"} =>
           settled /\ (pc # "read" => seen.producer \in vouched))
  <2> SUFFICES ASSUME Inv, [Next]_vars, Allowed,
                      pc \notin {"payload", "transcript"}
               PROVE  settled /\ (pc # "read" => seen.producer \in vouched)
    OBVIOUS
  <2>1. GateStep /\ turn = "stopping" /\ turn' = "ended"
    BY OnlyHookAnswers DEF Inv, Allowed
  <2>2. Settled(pc)
    BY <2>1 DEF Inv, Decided
  <2>3. seen.state = "active" <=> pc \in {"judge", "producer", "shared", "own"}
    BY DEF Inv, TypeOK
  <2>4. ASSUME NEW label, Proceed(label) PROVE FALSE
    BY <2>1, <2>4 DEF Proceed, turnVars
  <2>5. ~Answer(FALSE)
    BY <2>1, AnswerTurn
  <2>6. CASE ReadMarker
    <3>1. pc = "read" /\ marker.state = "inactive"
      BY <2>1, <2>5, <2>6 DEF ReadMarker, turnVars
    <3>2. QED
      BY <2>2, <3>1 DEF Settled, LetsGo
  <2>7. CASE CheckProducer
    <3>1. pc = "producer" /\ seen.producer = "local" /\ Live
      BY <2>1, <2>4, <2>7 DEF CheckProducer, Answer, Live
    <3>2. "local" \in vouched
      BY <2>2, <3>1 DEF Settled, Vouched, Kinds
    <3>3. QED
      BY <2>2, <2>3, <3>1, <3>2 DEF Settled, Late
  <2>8. CASE ReadRegistry
    <3>1. pc = "own" /\ (found \/ registry["own"] = "lists")
      BY <2>1, <2>5, <2>8, AnswerTurn DEF ReadRegistry, turnVars
    <3>2. registry["own"] = "lists" => Vouched("registered")
      BY DEF Vouched, Registered, Files
    <3>3. "registered" \in vouched
      BY <2>2, <3>1, <3>2 DEF Settled, Kinds
    <3>4. QED
      BY <2>2, <2>3, <3>1, <3>3 DEF Settled, Late
  <2>9. ReadMarker \/ CheckProducer \/ ReadRegistry
    BY <2>1, <2>4, <2>5
    DEF GateStep, ReadPayload, ReadTranscript, FindProject, OwnedMarker,
        MarkerExists, Judge
  <2>10. QED
    BY <2>6, <2>7, <2>8, <2>9
<1> QED
  BY <1>1, Invariance, PTL DEF Spec, AllowedOnEvidence

\* A decision during which nothing changes allows exactly what the contract
\* allows.
THEOREM DecidesByContract == Spec => UndisturbedDecision
<1>1. Inv /\ [Next]_vars => (Answered /\ quiet => (Allowed <=> MayEnd))
  <2> SUFFICES ASSUME Inv, [Next]_vars, Answered, quiet
               PROVE  turn' = "ended" <=> MayEnd
    BY DEF Allowed
  <2>1. GateStep /\ turn = "stopping" /\ turn' # "stopping"
    BY OnlyHookAnswers DEF Inv, Answered
  <2>2. Settled(pc) /\ Still(pc)
    BY <2>1 DEF Inv, Decided, Undisturbed
  <2>3. /\ seen.state = "active" <=> pc \in {"judge", "producer", "shared", "own"}
        /\ event \in Events
    BY DEF Inv, TypeOK
  <2>4. ASSUME NEW label, Proceed(label) PROVE FALSE
    BY <2>1, <2>4 DEF Proceed, turnVars
  <2>5. ~UNCHANGED turnVars
    BY <2>1 DEF turnVars
  <2>6. pc # "payload" => 
          /\ event.form = "object" /\ event.topic = "named" /\ ~reentry
    BY <2>2 DEF Settled
  <2>7. CASE ReadPayload
    BY <2>3, <2>4, <2>7, AnswerTurn DEF ReadPayload, MayEnd, Events
  <2>8. CASE ReadTranscript
    BY <2>4, <2>6, <2>8, AnswerTurn DEF ReadTranscript, MayEnd
  <2>9. CASE FindProject
    BY <2>2, <2>4, <2>6, <2>9, AnswerTurn DEF FindProject, MayEnd, Still
  <2>10. CASE OwnedMarker
    BY <2>2, <2>4, <2>6, <2>10, AnswerTurn DEF OwnedMarker, MayEnd, Still
  <2>11. CASE MarkerExists
    BY <2>2, <2>4, <2>6, <2>11, AnswerTurn
    DEF MarkerExists, MayEnd, Still, Evidence
  <2>12. CASE ReadMarker
    BY <2>2, <2>5, <2>6, <2>12, AnswerTurn
    DEF ReadMarker, MayEnd, Still, Evidence
  <2>13. CASE Judge
    BY <2>2, <2>3, <2>4, <2>6, <2>13, AnswerTurn
    DEF Judge, MayEnd, Still, Evidence, Fresh, Complete
  <2>14. CASE CheckProducer
    <3>1. /\ transcript = "other" /\ root = "found" /\ path = "owned"
          /\ seen = marker /\ Fresh(seen) /\ Complete(seen)
          /\ seen.state = "active"
      BY <2>2, <2>3, <2>14 DEF CheckProducer, Still, Settled, Late
    <3>2. MayEnd <=> Evidence(marker)
      BY <2>6, <2>14, <3>1 DEF MayEnd, CheckProducer
    <3>3. turn' = "ended" <=> seen.producer = "local" /\ Live
      BY <2>4, <2>14 DEF CheckProducer, Answer, Live
    <3>4. seen.producer # "registered"
      BY <2>4, <2>14 DEF CheckProducer
    <3>5. QED
      BY <3>1, <3>2, <3>3, <3>4 DEF Evidence, Fresh, Complete, Live
  <2>15. CASE ReadRegistry
    <3>1. pc \in Files
      BY <2>15 DEF ReadRegistry, Files
    <3>2. /\ transcript = "other" /\ root = "found" /\ path = "owned"
          /\ seen = marker /\ Fresh(seen) /\ Complete(seen)
          /\ seen.state = "active" /\ seen.producer = "registered"
      BY <2>2, <2>3, <3>1 DEF Files, Still, Settled, Late
    <3>3. MayEnd <=> Evidence(marker)
      BY <2>6, <3>1, <3>2 DEF MayEnd, Files
    <3>4. Evidence(marker) <=>
            /\ registry["shared"] = "lists" \/ registry["own"] = "lists"
            /\ registry["shared"] # "undecodable"
            /\ registry["own"] # "undecodable"
      BY <3>2 DEF Evidence, Fresh, Complete, Files
    <3>5. turn' = "ended" <=> 
            /\ registry["shared"] = "lists" \/ registry["own"] = "lists"
            /\ registry["shared"] # "undecodable"
            /\ registry["own"] # "undecodable"
      BY <2>2, <2>5, <2>15, AnswerTurn DEF ReadRegistry, Still, Files
    <3>6. QED
      BY <3>3, <3>4, <3>5
  <2>16. QED
    BY <2>1, <2>7, <2>8, <2>9, <2>10, <2>11, <2>12, <2>13, <2>14, <2>15
    DEF GateStep
<1> QED
  BY <1>1, Invariance, PTL DEF Spec, UndisturbedDecision
=============================================================================
