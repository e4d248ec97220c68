----------------------------- MODULE FootgunGuard -----------------------------
(***************************************************************************)
(* One call of the footgun guard (livespec_footgun_guard.py) from the      *)
(* payload to the verdict: segment by segment and, for each file a segment *)
(* writes, the probes of git that tell whether it lies in a primary        *)
(* checkout and whether it is allowed runtime state there                  *)
(* (_footgun_primary_checkout.py). Any probe may go unanswered, and Codex  *)
(* stops the hook when its time is up. What TmuxHazard and ShellWords make *)
(* of a segment are fields of it here.                                     *)
(***************************************************************************)
EXTENDS Naturals, Sequences

CONSTANTS
    Paths,      \* the files that are written
    Primary,    \* those in a checkout that is its repository's primary
    Below,      \* those below tmp/overseer/<topic>/ of their checkout
    Ignored,    \* those git's ignore rules match
    Folder,     \* the directory whose checkout decides about a file
    Here,       \* a file in the working directory
    Names,      \* shell variables
    Segments    \* the segments a command may have

Nothing == "none"
Reasons == {"no-verify", "core.bare", "lefthook"}
Verdicts == {Nothing, "pass", "tmux", "primary", "hazard"} \union Reasons

ASSUME PathAssumption ==
    /\ Primary \subseteq Paths /\ Below \subseteq Paths /\ Ignored \subseteq Paths
    /\ Here \in Paths
    /\ \A p, q \in Paths : Folder[p] = Folder[q] => (p \in Primary <=> q \in Primary)

\* A target names a file or a variable that holds one. An assignment at the
\* head of a segment sets its variable to a value; the guard may read the
\* value, something else (a literal with an expansion in it), or nothing (a
\* relative path, a substitution, one behind such an assignment). It lasts
\* when no command follows it.
ASSUME SegmentAssumption ==
    \A s \in Segments :
        /\ s.kills \in BOOLEAN /\ s.hints \in BOOLEAN /\ s.lexes \in BOOLEAN
        /\ s.assigns \in Names \union {Nothing} /\ s.value \in Paths
        /\ s.read \in Paths \union {Nothing} /\ s.lasts \in BOOLEAN
        /\ s.targets \in Seq(Paths \union Names)
        /\ s.git \in Reasons \union {Nothing}
ASSUME NameAssumption ==
    /\ Names \intersect Paths = {}
    /\ Nothing \notin Names \union Paths

VARIABLES
    call,       \* the segments of the command
    pc,         \* where the guard stands
    at,         \* the segment it looks at
    target,     \* the target of that segment
    known,      \* what the guard has read leading assignments to set
    cache,      \* folders with a definitive answer, and that answer
    primary,    \* is the target in a primary checkout?
    verdict,
    unanswered, \* history: visits whose first probe was not answered
    raised      \* history: the segments an exception or the timeout cut short
vars == <<call, pc, at, target, known, cache, primary, verdict, unanswered, raised>>

Folders == {Folder[p] : p \in Paths}
Unknown == [f \in Folders |-> Nothing]

TypeOK ==
    /\ call \in Seq(Segments)
    /\ pc \in {"idle", "segment", "first", "second", "ignore", "git", "done"}
    /\ at \in Nat \ {0} /\ target \in Nat \ {0}
    /\ pc \in {"first", "second", "ignore", "git"} => at \in DOMAIN call
    /\ pc \in {"second", "ignore"} => target \in DOMAIN call[at].targets
    /\ known \in [Names -> Paths \union {Nothing}]
    /\ cache \in [Folders -> {"yes", "no", Nothing}]
    /\ primary \in BOOLEAN
    /\ verdict \in Verdicts
    /\ unanswered \subseteq Nat \X Nat
    /\ raised \subseteq Nat

Init ==
    /\ call = <<>>
    /\ pc = "idle"
    /\ at = 1 /\ target = 1
    /\ known = [n \in Names |-> Nothing]
    /\ cache = Unknown
    /\ primary = FALSE
    /\ verdict = Nothing
    /\ unanswered = {} /\ raised = {}

-----------------------------------------------------------------------------
Hints(command) == \E i \in DOMAIN command : command[i].hints

Decide(outcome) == pc' = "done" /\ verdict' = outcome

\* An exception nobody expected: the one hazard that fails closed.
Escape(command) == Decide(IF Hints(command) THEN "hazard" ELSE "pass")

\* The payload is read. A malformed one is judged by its text alone.
Start(command) ==
    /\ pc = "idle"
    /\ call' = command
    /\ \/ pc' = "segment" /\ UNCHANGED <<verdict, raised>>
       \/ Escape(command) /\ raised' = DOMAIN command
    /\ UNCHANGED <<at, target, known, cache, primary, unanswered>>

NextSegment ==
    /\ pc' = "segment"
    /\ at' = at + 1
    /\ UNCHANGED <<call, verdict>>

\* Mutant of Segment: a variable keeps the first value it was set to.
SegmentOnceKnown ==
    /\ pc = "segment"
    /\ at \in DOMAIN call
    /\ pc' = "first"
    /\ target' = 1
    /\ known' = IF call[at].assigns \notin Names \/ known[call[at].assigns] # Nothing
                THEN known ELSE [known EXCEPT ![call[at].assigns] = call[at].read]
    /\ UNCHANGED <<at, verdict, call, cache, primary, unanswered, raised>>

\* _check_segment up to the probes: a segment that reaches tmux is denied,
\* one that cannot be lexed is passed over, and assignments that can be read
\* are noted before the targets are looked at. One that cannot leaves the
\* variable as it was noted before.
Segment ==
    /\ pc = "segment"
    /\ IF at \notin DOMAIN call THEN Decide("pass") /\ UNCHANGED <<at, target, known>>
       ELSE LET seg == call[at] IN
            IF seg.kills THEN Decide("tmux") /\ UNCHANGED <<at, target, known>>
            ELSE IF ~seg.lexes THEN NextSegment /\ UNCHANGED <<target, known>>
            ELSE /\ pc' = "first"
                 /\ target' = 1
                 /\ known' = IF seg.assigns = Nothing \/ seg.read = Nothing THEN known
                             ELSE [known EXCEPT ![seg.assigns] = seg.read]
                 /\ UNCHANGED <<at, verdict>>
    /\ UNCHANGED <<call, cache, primary, unanswered, raised>>

\* The file a target stands for; a variable nobody set is a name like any
\* other, in the working directory.
Resolved(word) ==
    IF word \notin Names THEN word
    ELSE IF known[word] = Nothing THEN Here ELSE known[word]
File == Resolved(call[at].targets[target])

\* Mutant of Unanswered: the failure is remembered as an answer.
UnansweredCached ==
    /\ primary' = FALSE
    /\ cache' = [cache EXCEPT ![Folder[File]] = "no"]
    /\ unanswered' = unanswered \union {<<at, target>>}

\* A failed probe is no answer: not a primary for now, asked again next time.
Unanswered ==
    /\ primary' = FALSE
    /\ unanswered' = unanswered \union {<<at, target>>}
    /\ UNCHANGED cache

\* is_primary_checkout: the two git commands are one probe.
ProbePrimary ==
    /\ pc = "first"
    /\ IF target \notin DOMAIN call[at].targets
       THEN pc' = "git" /\ UNCHANGED <<primary, cache, unanswered>>
       ELSE /\ pc' = "second"
            /\ IF cache[Folder[File]] # Nothing
               THEN primary' = (cache[Folder[File]] = "yes") /\ UNCHANGED <<cache, unanswered>>
               ELSE \/ Unanswered
                    \/ /\ primary' = (File \in Primary)
                       /\ cache' = [cache EXCEPT ![Folder[File]] =
                                       IF File \in Primary THEN "yes" ELSE "no"]
                       /\ UNCHANGED unanswered
    /\ UNCHANGED <<call, at, target, known, verdict, raised>>

\* Refuse, or go on to the next target.
Judge(runtimeState) ==
    IF primary /\ ~runtimeState THEN Decide("primary") /\ UNCHANGED target
    ELSE pc' = "first" /\ target' = target + 1 /\ UNCHANGED verdict

\* is_allowed_primary_runtime_state asks for the root anew, and denies the
\* exception when there is no answer or the file is not where it applies.
ProbeRoot ==
    /\ pc = "second"
    /\ \/ Judge(FALSE)
       \/ /\ File \in Primary \intersect Below
          /\ pc' = "ignore"
          /\ UNCHANGED <<target, verdict>>
    /\ UNCHANGED <<call, at, known, cache, primary, unanswered, raised>>

\* The segments the guard has not finished.
Remaining == {i \in DOMAIN call : i >= at}

\* git check-ignore. That it takes too long gives up the whole decision.
CheckIgnore ==
    /\ pc = "ignore"
    /\ \/ Judge(File \in Ignored) /\ UNCHANGED raised
       \/ /\ Escape(call)
          /\ raised' = raised \union Remaining
          /\ UNCHANGED target
    /\ UNCHANGED <<call, at, known, cache, primary, unanswered>>

\* A path that cannot be resolved, an answer of git that cannot be decoded and
\* a check-ignore that cannot be started give up the targets of the segment.
GiveUpTargets ==
    /\ pc \in {"first", "second", "ignore"}
    /\ target \in DOMAIN call[at].targets
    /\ pc' = "git"
    /\ raised' = raised \union {at}
    /\ UNCHANGED <<call, at, target, known, cache, primary, verdict, unanswered>>

JudgeGit ==
    /\ pc = "git"
    /\ IF call[at].git # Nothing THEN Decide(call[at].git) /\ UNCHANGED <<call, at>>
       ELSE NextSegment
    /\ UNCHANGED <<target, known, cache, primary, unanswered, raised>>

\* Codex ends a hook that has run for its timeout and goes on without it.
Killed ==
    /\ pc \in {"first", "second", "ignore"}
    /\ Decide("pass")
    /\ raised' = raised \union Remaining
    /\ UNCHANGED <<call, at, target, known, cache, primary, unanswered>>

Next ==
    \/ \E command \in Seq(Segments) : Start(command)
    \/ Segment \/ ProbePrimary \/ ProbeRoot \/ CheckIgnore
    \/ GiveUpTargets \/ JudgeGit \/ Killed

Spec == Init /\ [][Next]_vars

-----------------------------------------------------------------------------
Refusable == Primary \ (Below \intersect Ignored)

\* The assignments to a variable that the shell has made when it comes to the
\* redirections of segment i, and those the guard has noted by then.
SetBefore(i, n) == {j \in DOMAIN call : j < i /\ call[j].assigns = n /\ call[j].lasts}
NotedBy(i, n) ==
    {j \in DOMAIN call :
        j <= i /\ call[j].lexes /\ call[j].assigns = n /\ call[j].read # Nothing}
Latest(S) == CHOOSE j \in S : \A k \in S : k <= j

\* What a target of segment i stands for when the command runs.
Means(i, word) ==
    IF word \in Names THEN call[Latest(SetBefore(i, word))].value ELSE word

\* The guard follows a variable whose last assignment it has read. It has lost
\* one that the command does not set, that was set to what it cannot read or
\* reads wrong, or for one command only, or by the segment itself.
Follows(i, word) ==
    word \in Names =>
        /\ SetBefore(i, word) # {} /\ NotedBy(i, word) # {}
        /\ LET last == Latest(NotedBy(i, word)) IN
            last = Latest(SetBefore(i, word)) /\ call[last].read = call[last].value

\* A command that passes writes no file of a primary checkout but allowed
\* runtime state, with three exceptions. The probe of that very write went
\* unanswered. An exception cut its segment short; check-ignore that cannot
\* be asked is one, where is_allowed_primary_runtime_state says that any
\* uncertainty denies. Or the write is to a variable the guard has lost, and
\* is judged by the last value it has read, whatever the variable now holds.
PrimaryRefused ==
    verdict = "pass" =>
        \A i \in DOMAIN call :
            call[i].lexes /\ i \notin raised =>
                \A t \in DOMAIN call[i].targets :
                    LET word == call[i].targets[t] IN
                    Follows(i, word) /\ Means(i, word) \in Refusable =>
                        <<i, t>> \in unanswered

\* What is refused as a write to a primary checkout is a target in one, unless
\* it is a variable the guard has lost: no answer is remembered for another
\* folder. (What is a target but not written, such as a word of sed's script
\* taken from the working directory, is the business of TargetsSeen.)
RefusalsJustified ==
    verdict = "primary" =>
        LET word == call[at].targets[target] IN
        Follows(at, word) => Means(at, word) \in Primary
=============================================================================
