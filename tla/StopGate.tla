------------------------------ MODULE StopGate ------------------------------
(***************************************************************************)
(* The Stop hook that keeps a supervising session from ending its turn     *)
(* (supervisor_completion_gate.py, _supervisor_producers.py). A decision   *)
(* reads, one after another, the transcript, the project, the marker and   *)
(* the evidence for the wake producer the marker names: a process, or two  *)
(* registry files. The session, the overseer and the producers go on       *)
(* changing all of these meanwhile, and time goes on.                      *)
(*                                                                         *)
(* One session with one topic; a marker is what the rules tell apart of a  *)
(* JSON object: whether it supervises, since when it has not been          *)
(* refreshed, what it says of obligations and disposition, and how the     *)
(* producer it names can be verified.                                      *)
(***************************************************************************)
EXTENDS Integers

CONSTANTS
    MaxAge,     \* age at which a marker is stale
    Ahead,      \* how far in the future its timestamp may lie
    MaxTime,    \* bound on the clock
    MaxChanges  \* bound on changes during turns

ASSUME AgeAssumption == MaxAge \in Nat /\ Ahead \in Nat
ASSUME BoundsAssumption == MaxTime \in Nat /\ MaxChanges \in Nat

VARIABLES
    clock, changes,
    root,       \* the governed project: resolved, not there, or git fails
    path,       \* the marker's path: its own, or redirected by a link
    marker, process, registry,
    transcript, \* the last real user text in it
    turn, reentry, event,
    pc, seen, found,
    quiet,      \* history: nothing has changed since the decision began
    settled,    \* history: the marker has let go since it began
    vouched     \* history: producers that were verifiable since then

evidenceVars == <<root, path, marker, process, registry, transcript>>
turnVars == <<turn, reentry, event>>
historyVars == <<quiet, settled, vouched>>
vars == <<clock, changes, evidenceVars, turnVars, pc, seen, found, historyVars>>

Times == 0..(MaxTime + Ahead + 1)
Kinds == {"local", "registered", "unknown"}
Files == {"shared", "own"}

\* "garbled" is a marker that cannot be read, is no JSON object, names another
\* topic or has no Boolean for supervision_active. "complete" is a marker with
\* no open obligation that is plan-complete without a question or asks the
\* maintainer exactly one; "unsettled" any other or unknown disposition.
Inert(state) == [state |-> state, updated |-> 0, account |-> "open",
                 producer |-> "unknown"]
Missing == Inert("missing")
Markers ==
    {Inert(s) : s \in {"missing", "garbled", "inactive"}}
    \union [state : {"active"}, updated : Times,
            account : {"open", "unsettled", "complete"}, producer : Kinds]

Events == [form : {"object", "other", "broken"},
           topic : {"blank", "unsafe", "named"}]
NoEvent == [form |-> "object", topic |-> "blank"]

TypeOK ==
    /\ clock \in 0..MaxTime
    /\ changes \in 0..MaxChanges
    /\ root \in {"found", "none", "failing"}
    /\ path \in {"owned", "redirected"}
    /\ marker \in Markers
    /\ process \in {"matching", "other", "gone"}
    /\ registry \in [Files -> {"lists", "lacks", "undecodable"}]
    /\ transcript \in {"override", "other", "undecodable"}
    /\ turn \in {"running", "stopping", "ended"}
    /\ reentry \in BOOLEAN
    /\ event \in Events
    /\ pc \in {"idle", "payload", "transcript", "root", "path", "exists",
               "read", "judge", "producer", "shared", "own"}
    /\ pc = "idle" <=> turn # "stopping"
    /\ seen \in Markers
    /\ seen.state = "active" <=> pc \in {"judge", "producer", "shared", "own"}
    /\ found \in BOOLEAN
    /\ quiet \in BOOLEAN
    /\ settled \in BOOLEAN
    /\ vouched \subseteq Kinds

\* A session that has just begun its first turn, with no marker yet.
Init ==
    /\ clock = 0
    /\ changes = 0
    /\ root = "found"
    /\ path = "owned"
    /\ marker = Missing
    /\ process = "gone"
    /\ registry = [f \in Files |-> "lacks"]
    /\ transcript = "other"
    /\ turn = "running"
    /\ reentry = FALSE
    /\ event = NoEvent
    /\ pc = "idle"
    /\ seen = Missing
    /\ found = FALSE
    /\ quiet = FALSE
    /\ settled = FALSE
    /\ vouched = {}

-----------------------------------------------------------------------------
(***************************************************************************)
(* The rules, as they read at one instant.                                 *)
(***************************************************************************)
\* Mutant of Fresh: a timestamp of the future is as good as any.
NotOld(m) == clock - m.updated <= MaxAge

\* _staleness_reason
Fresh(m) == m.updated <= clock + Ahead /\ clock - m.updated <= MaxAge

\* _completion_reason
Complete(m) == m.account = "complete"

\* _local_producer_reason: the command line of the pid holds both the
\* expected command and the identity.
Live == process = "matching"

\* _registered_producer_reason
Registered == \E f \in Files : registry[f] = "lists"

Vouched(kind) ==
    (kind = "local" /\ Live) \/ (kind = "registered" /\ Registered)

LetsGo(m) ==
    m.state = "inactive" \/ (m.state = "active" /\ Complete(m))

\* The contract's conditions for the end of a turn (contracts.md, supervisor
\* completion gate), all taken at one instant.
Evidence(m) ==
    \/ m.state = "inactive"
    \/ /\ m.state = "active"
       /\ (m.updated <= clock + Ahead /\ clock - m.updated <= MaxAge)
       /\ m.account = "complete"
       /\ \/ m.producer = "local" /\ process = "matching"
          \/ /\ m.producer = "registered"
             /\ "lists" \in {registry[f] : f \in Files}
             /\ "undecodable" \notin {registry[f] : f \in Files}

MayEnd ==
    /\ event.form # "broken"
    /\ \/ event.form = "other" \/ reentry \/ event.topic = "blank"
       \/ event.topic = "named" /\ transcript = "override"
       \/ /\ event.topic = "named"
          /\ transcript = "other"
          /\ root = "found"
          /\ path = "owned"
          /\ Evidence(marker)

-----------------------------------------------------------------------------
(***************************************************************************)
(* The session.                                                            *)
(***************************************************************************)
\* The model wants to end its turn: Codex runs the hook.
Stop ==
    /\ turn = "running"
    /\ turn' = "stopping"
    /\ event' \in Events
    /\ pc' = "payload"
    /\ UNCHANGED <<clock, changes, evidenceVars, reentry, seen, found>>
    /\ quiet' = TRUE
    /\ settled' = LetsGo(marker)
    /\ vouched' = {k \in Kinds : Vouched(k)}

\* The user begins another turn.
Prompt ==
    /\ turn = "ended"
    /\ turn' = "running"
    /\ \E t \in {"override", "other"} : transcript' = t
    /\ UNCHANGED <<clock, changes, root, path, marker, process, registry,
                   reentry, event, pc, seen, found, historyVars>>

-----------------------------------------------------------------------------
(***************************************************************************)
(* The hook.                                                               *)
(***************************************************************************)
\* An answer. A block continues the turn and makes the next Stop a reentry.
Answer(allow) ==
    /\ turn' = IF allow THEN "ended" ELSE "running"
    /\ reentry' = ~allow
    /\ event' = NoEvent
    /\ pc' = "idle"
    /\ seen' = Missing
    /\ found' = FALSE
    /\ quiet' = FALSE
    /\ settled' = FALSE
    /\ vouched' = {}

Proceed(label) ==
    pc' = label /\ UNCHANGED <<turnVars, seen, found, historyVars>>

Unchanged == UNCHANGED <<clock, changes, evidenceVars>>

\* Mutant of ReadPayload: stop_hook_active is not looked at.
ReadPayloadAlways ==
    /\ pc = "payload"
    /\ \/ event.form = "broken" /\ Answer(FALSE)
       \/ event.form = "other" /\ Answer(TRUE)
       \/ event.form = "object" /\ event.topic = "unsafe" /\ Answer(FALSE)
       \/ event.form = "object" /\ event.topic = "blank" /\ Answer(TRUE)
       \/ event.form = "object" /\ event.topic = "named"
          /\ Proceed("transcript")
    /\ Unchanged

\* Input that is not JSON raises, and every exception is a block; JSON that is
\* no object is let through, and so is stop_hook_active.
ReadPayload ==
    LET supervised == event.form = "object" /\ ~reentry
    IN  /\ pc = "payload"
        /\ \/ event.form = "broken" /\ Answer(FALSE)
           \/ event.form = "other" /\ Answer(TRUE)
           \/ event.form = "object" /\ reentry /\ Answer(TRUE)
           \/ supervised /\ event.topic = "unsafe" /\ Answer(FALSE)
           \/ supervised /\ event.topic = "blank" /\ Answer(TRUE)
           \/ supervised /\ event.topic = "named" /\ Proceed("transcript")
        /\ Unchanged

\* _is_stop_override
ReadTranscript ==
    /\ pc = "transcript"
    /\ \/ transcript = "override" /\ Answer(TRUE)
       \/ transcript = "undecodable" /\ Answer(FALSE)
       \/ transcript = "other" /\ Proceed("root")
    /\ Unchanged

FindProject ==
    /\ pc = "root"
    /\ \/ root = "found" /\ Proceed("path")
       \/ root # "found" /\ Answer(FALSE)
    /\ Unchanged

OwnedMarker ==
    /\ pc = "path"
    /\ \/ path = "owned" /\ Proceed("exists")
       \/ path # "owned" /\ Answer(FALSE)
    /\ Unchanged

MarkerExists ==
    /\ pc = "exists"
    /\ \/ marker.state # "missing" /\ Proceed("read")
       \/ marker.state = "missing" /\ Answer(FALSE)
    /\ Unchanged

ReadMarker ==
    /\ pc = "read"
    /\ \/ marker.state \in {"missing", "garbled"} /\ Answer(FALSE)
       \/ marker.state = "inactive" /\ Answer(TRUE)
       \/ /\ marker.state = "active"
          /\ pc' = "judge"
          /\ seen' = marker
          /\ UNCHANGED <<turnVars, found, historyVars>>
    /\ Unchanged

\* The reasons the marker itself gives. (The code looks at the producer even
\* then, without effect.)
Judge ==
    /\ pc = "judge"
    /\ \/ Fresh(seen) /\ Complete(seen) /\ Proceed("producer")
       \/ ~(Fresh(seen) /\ Complete(seen)) /\ Answer(FALSE)
    /\ Unchanged

\* Mutant of CheckProducer: any process of that pid will do.
CheckPid ==
    /\ pc = "producer"
    /\ \/ seen.producer = "unknown" /\ Answer(FALSE)
       \/ seen.producer = "local" /\ Answer(process # "gone")
       \/ seen.producer = "registered" /\ Proceed("shared")
    /\ Unchanged

\* wake_producer_block_reason. "unknown" also stands for a producer without
\* proof of cold re-entry and for incomplete fields.
CheckProducer ==
    /\ pc = "producer"
    /\ \/ seen.producer = "unknown" /\ Answer(FALSE)
       \/ seen.producer = "local" /\ Answer(Live)
       \/ seen.producer = "registered" /\ Proceed("shared")
    /\ Unchanged

\* _registered_identities: a file that is missing or no JSON is passed over, a
\* file that is not UTF-8 raises.
ReadRegistry ==
    /\ \/ /\ pc = "shared"
          /\ registry["shared"] # "undecodable"
          /\ pc' = "own"
          /\ found' = (registry["shared"] = "lists")
          /\ UNCHANGED <<turnVars, seen, historyVars>>
       \/ /\ pc = "own"
          /\ registry["own"] # "undecodable"
          /\ Answer(found \/ registry["own"] = "lists")
       \/ /\ pc \in Files
          /\ registry[pc] = "undecodable"
          /\ Answer(FALSE)
    /\ Unchanged

GateStep ==
    \/ ReadPayload
    \/ ReadTranscript
    \/ FindProject
    \/ OwnedMarker
    \/ MarkerExists
    \/ ReadMarker
    \/ Judge
    \/ CheckProducer
    \/ ReadRegistry

-----------------------------------------------------------------------------
(***************************************************************************)
(* Everybody else, at any time.                                            *)
(***************************************************************************)
Noted ==
    /\ UNCHANGED <<turnVars, pc, seen, found>>
    /\ quiet' = FALSE
    /\ settled' = (pc # "idle" /\ (settled \/ LetsGo(marker')))
    /\ vouched' = IF pc = "idle" THEN {}
                  ELSE vouched \union {k \in Kinds : Vouched(k)'}

Change ==
    /\ changes < MaxChanges
    /\ changes' = changes + 1
    /\ UNCHANGED clock
    /\ Noted

\* The session or the overseer replaces the marker.
MarkerChange ==
    /\ marker' \in Markers \ {marker}
    /\ UNCHANGED <<root, path, process, registry, transcript>>
    /\ Change

\* A producer starts or ends; its pid may go to another program.
ProcessChange ==
    /\ process' \in {"matching", "other", "gone"} \ {process}
    /\ UNCHANGED <<root, path, marker, registry, transcript>>
    /\ Change

RegistryChange ==
    /\ \E f \in Files, r \in {"lists", "lacks", "undecodable"} :
          r # registry[f] /\ registry' = [registry EXCEPT ![f] = r]
    /\ UNCHANGED <<root, path, marker, process, transcript>>
    /\ Change

TranscriptChange ==
    /\ transcript' \in {"override", "other", "undecodable"} \ {transcript}
    /\ UNCHANGED <<root, path, marker, process, registry>>
    /\ Change

PlaceChange ==
    /\ \/ root' \in {"found", "none", "failing"} \ {root} /\ UNCHANGED path
       \/ path' \in {"owned", "redirected"} \ {path} /\ UNCHANGED root
    /\ UNCHANGED <<marker, process, registry, transcript>>
    /\ Change

Tick ==
    /\ clock < MaxTime
    /\ clock' = clock + 1
    /\ UNCHANGED <<changes, evidenceVars>>
    /\ Noted

WorldStep ==
    \/ MarkerChange
    \/ ProcessChange
    \/ RegistryChange
    \/ TranscriptChange
    \/ PlaceChange
    \/ Tick

Next == Stop \/ Prompt \/ GateStep \/ WorldStep

Spec == Init /\ [][Next]_vars

-----------------------------------------------------------------------------
(***************************************************************************)
(* Properties.                                                             *)
(***************************************************************************)
Answered == turn = "stopping" /\ turn' # "stopping"
Allowed == Answered /\ turn' = "ended"

\* A decision during which nothing changes is the contract's: the chain of
\* early returns over ten readings, exceptions included, allows exactly what
\* the contract's conditions allow, and blocks the rest.
UndisturbedDecision ==
    [][Answered /\ quiet => (Allowed <=> MayEnd)]_vars

\* Whatever changes in the middle, a supervised session that is let go by its
\* marker was let go by it at some instant of this decision, and the producer
\* that marker named could be verified at some instant of it: nothing from
\* before the decision counts.
AllowedOnEvidence ==
    [][Allowed /\ pc \notin {"payload", "transcript"} =>
          settled /\ (pc # "read" => seen.producer \in vouched)]_vars

\* The gate never traps a session: of the Stops of one turn it blocks the
\* first at most, if Codex delivers the input it documents.
BlockedOnce ==
    [][Answered /\ ~Allowed /\ reentry => event.form = "broken"]_vars
=============================================================================
