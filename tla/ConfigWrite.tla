---------------------------- MODULE ConfigWrite ----------------------------
(***************************************************************************)
(* Driver writes to the host's Codex config.toml                           *)
(* (dev-tooling/codex_config_write.py). Every Driver write, from the       *)
(* provisioner's reconciler or the observer's, goes through rewrite_config *)
(* under an advisory lock on a sibling file. Codex edits the same file and *)
(* takes no lock. A writer may be killed between any two of its steps.     *)
(*                                                                         *)
(* The file's text is abstracted to what the promises tell apart: the      *)
(* settings the Driver writes, one per plugin (its trust records), which   *)
(* any writer may want to change, and Codex's part.                        *)
(***************************************************************************)
EXTENDS Naturals

CONSTANTS
    Writers,       \* Driver processes that write the file
    Keys,          \* the settings: one per covered plugin
    Values,        \* values a writer may want for a setting
    Unset,         \* the value of a setting nobody has written
    MaxEdits,      \* bound on Codex's edits
    Unrecognized   \* the Codex edits that leave a format no rewrite accepts

ASSUME UnsetAssumption == Unset \notin Values
ASSUME MaxEditsAssumption == MaxEdits \in Nat

VARIABLES
    file,     \* the settings in config.toml, and whether it is whole
    lock,     \* the writers holding the flock: none or one
    pc,       \* where each writer stands in rewrite_config
    want,     \* the setting the writer's rewrite would change, and to what
    text,     \* the file as the writer read it
    temp,     \* the call's temporary file in the same directory
    outcome,  \* how the writer's last call ended
    landed,   \* history: the value last put in place for each setting
    exposed   \* history: Codex edited since the writer took the lock

vars == <<file, lock, pc, want, text, temp, outcome, landed, exposed>>

Settings == Values \union {Unset}
Edits == 0..MaxEdits
Requests == [key : Keys, value : Values]
NoRequest == [key |-> Unset, value |-> Unset]
File == [driver : [Keys -> Settings], codex : Edits, whole : BOOLEAN]

TypeOK ==
    /\ file \in File
    /\ lock \in SUBSET Writers
    /\ pc \in [Writers -> {"idle", "waiting", "locked", "read", "staging",
                           "staged", "replaced"}]
    /\ want \in [Writers -> Requests \union {NoRequest}]
    /\ text \in [Writers -> File]
    /\ temp \in [Writers -> {"none", "torn", "whole"}]
    /\ outcome \in [Writers -> {"none", "written", "unchanged", "refused",
                                "timeout", "failed", "killed"}]
    /\ landed \in [Keys -> Settings]
    /\ exposed \in [Writers -> BOOLEAN]

Fresh == [driver |-> [k \in Keys |-> Unset], codex |-> 0, whole |-> TRUE]

Init ==
    /\ file = Fresh
    /\ lock = {}
    /\ pc = [w \in Writers |-> "idle"]
    /\ want = [w \in Writers |-> NoRequest]
    /\ text = [w \in Writers |-> Fresh]
    /\ temp = [w \in Writers |-> "none"]
    /\ outcome = [w \in Writers |-> "none"]
    /\ landed = [k \in Keys |-> Unset]
    /\ exposed = [w \in Writers |-> FALSE]

-----------------------------------------------------------------------------
\* Mutant of Updated: the settings are written anew, without the others'.
OwnSettingOnly(w) ==
    [k \in Keys |-> IF k = want[w].key THEN want[w].value ELSE Unset]

\* What the caller's rewrite makes of the settings it was given: every
\* setting but its own is carried over.
Updated(w) == [text[w].driver EXCEPT ![want[w].key] = want[w].value]

Goto(w, label) == pc' = [pc EXCEPT ![w] = label]

\* Mutant of Return: the descriptor is not closed.
LeakLock(w, how) ==
    /\ Goto(w, "idle")
    /\ outcome' = [outcome EXCEPT ![w] = how]
    /\ want' = [want EXCEPT ![w] = NoRequest]
    /\ text' = [text EXCEPT ![w] = Fresh]
    /\ temp' = [temp EXCEPT ![w] = "none"]
    /\ UNCHANGED lock

\* rewrite_config returns, or its process ends: the snapshot is forgotten
\* and the descriptor closed, which drops the lock if the writer held it. A
\* temporary file that a kill or a failed unlink leaves behind has a random
\* name and is never opened again.
Return(w, how) ==
    /\ Goto(w, "idle")
    /\ outcome' = [outcome EXCEPT ![w] = how]
    /\ want' = [want EXCEPT ![w] = NoRequest]
    /\ text' = [text EXCEPT ![w] = Fresh]
    /\ temp' = [temp EXCEPT ![w] = "none"]
    /\ lock' = lock \ {w}

Call(w) ==
    /\ pc[w] = "idle"
    /\ \E r \in Requests : want' = [want EXCEPT ![w] = r]
    /\ Goto(w, "waiting")
    /\ UNCHANGED <<file, lock, text, temp, outcome, landed, exposed>>

\* Mutant of TakeLock: the lock file is keyed to the process.
TakeOwnLock(w) ==
    /\ pc[w] = "waiting"
    /\ lock' = lock \union {w}
    /\ exposed' = [exposed EXCEPT ![w] = FALSE]
    /\ Goto(w, "locked")
    /\ UNCHANGED <<file, want, text, temp, outcome, landed>>

\* flock with LOCK_NB succeeds.
TakeLock(w) ==
    /\ pc[w] = "waiting"
    /\ lock = {}
    /\ lock' = {w}
    /\ exposed' = [exposed EXCEPT ![w] = FALSE]
    /\ Goto(w, "locked")
    /\ UNCHANGED <<file, want, text, temp, outcome, landed>>

\* Mutant of LockTimeout: the wait has no deadline.
WaitForever(w) == FALSE

\* An attempt after the deadline finds the lock taken.
LockTimeout(w) ==
    /\ pc[w] = "waiting"
    /\ lock # {}
    /\ Return(w, "timeout")
    /\ UNCHANGED <<file, landed, exposed>>

\* Mutant of ReadText: the text is rebuilt from the Driver's settings.
ReadDriverPart(w) ==
    /\ pc[w] = "locked"
    /\ text' = [text EXCEPT ![w] = [file EXCEPT !.codex = 0]]
    /\ Goto(w, "read")
    /\ UNCHANGED <<file, lock, want, temp, outcome, landed, exposed>>

ReadText(w) ==
    /\ pc[w] = "locked"
    /\ text' = [text EXCEPT ![w] = file]
    /\ Goto(w, "read")
    /\ UNCHANGED <<file, lock, want, temp, outcome, landed, exposed>>

\* The caller's rewrite: it refuses a format it does not recognize, and
\* nothing is written when the text already says what is wanted. Otherwise
\* mkstemp creates the temporary file.
Rewrite(w) ==
    /\ pc[w] = "read"
    /\ \/ /\ text[w].codex \in Unrecognized
          /\ Return(w, "refused")
       \/ /\ text[w].codex \notin Unrecognized
          /\ Updated(w) = text[w].driver
          /\ Return(w, "unchanged")
       \/ /\ text[w].codex \notin Unrecognized
          /\ Updated(w) # text[w].driver
          /\ temp' = [temp EXCEPT ![w] = "torn"]
          /\ Goto(w, "staging")
          /\ UNCHANGED <<lock, want, text, outcome>>
    /\ UNCHANGED <<file, landed, exposed>>

\* Mutant of Stage: the rename does not wait for the flush.
StageUnflushed(w) ==
    /\ pc[w] = "staging"
    /\ Goto(w, "staged")
    /\ UNCHANGED <<file, lock, want, text, temp, outcome, landed, exposed>>

\* write, flush and fsync of the whole new text.
Stage(w) ==
    /\ pc[w] = "staging"
    /\ temp' = [temp EXCEPT ![w] = "whole"]
    /\ Goto(w, "staged")
    /\ UNCHANGED <<file, lock, want, text, outcome, landed, exposed>>

\* The rename puts in place whatever the temporary file holds.
Replace(w) ==
    /\ pc[w] = "staged"
    /\ file' = [driver |-> Updated(w),
                codex |-> text[w].codex,
                whole |-> temp[w] = "whole"]
    /\ temp' = [temp EXCEPT ![w] = "none"]
    /\ landed' = [landed EXCEPT ![want[w].key] = want[w].value]
    /\ Goto(w, "replaced")
    /\ UNCHANGED <<lock, want, text, outcome, exposed>>

Unlock(w) ==
    /\ pc[w] = "replaced"
    /\ Return(w, "written")
    /\ UNCHANGED <<file, landed, exposed>>

\* An OSError while opening, reading, writing or renaming is reported.
Fail(w) ==
    /\ pc[w] \in {"waiting", "locked", "read", "staging", "staged"}
    /\ Return(w, "failed")
    /\ UNCHANGED <<file, landed, exposed>>

\* The process is killed. The kernel closes its descriptors.
Kill(w) ==
    /\ pc[w] # "idle"
    /\ Return(w, "killed")
    /\ UNCHANGED <<file, landed, exposed>>

WriterStep(w) ==
    \/ TakeLock(w)
    \/ LockTimeout(w)
    \/ ReadText(w)
    \/ Rewrite(w)
    \/ Stage(w)
    \/ Replace(w)
    \/ Unlock(w)

CodexEdit ==
    /\ file.codex < MaxEdits
    /\ \E e \in Edits : e > file.codex /\ file' = [file EXCEPT !.codex = e]
    /\ exposed' = [w \in Writers |-> TRUE]
    /\ UNCHANGED <<lock, pc, want, text, temp, outcome, landed>>

Next ==
    \/ \E w \in Writers : Call(w)
    \/ \E w \in Writers : WriterStep(w)
    \/ \E w \in Writers : Fail(w)
    \/ \E w \in Writers : Kill(w)
    \/ CodexEdit

Spec == Init /\ [][Next]_vars

\* A call that is under way is scheduled; nobody has to call, fail, be
\* killed or edit.
FairSpec == Spec /\ \A w \in Writers : WF_vars(WriterStep(w))

-----------------------------------------------------------------------------
(***************************************************************************)
(* Properties.                                                             *)
(***************************************************************************)
\* Driver writers never lose one another's settings: whatever writers,
\* kills and Codex edits have interleaved, the file says of each setting
\* what was last put in place for it.
NoDriverUpdateLost == file.driver = landed

\* An interrupted write leaves the complete prior or the complete new file.
NeverTorn == file.whole

\* A lock is held by one writer at most, and only while that writer is
\* inside the locked region: a writer that failed, gave up or was killed
\* wedges nobody.
LockHeldInside ==
    \A w \in Writers :
        w \in lock <=> pc[w] \in {"locked", "read", "staging", "staged",
                                 "replaced"}

\* A Driver step rolls back Codex's part of the file only if Codex edited it
\* after the writer took the lock: the documented window, and no wider.
CodexRollbackOnlyInWindow ==
    [][\A w \in Writers :
          pc'[w] = "replaced" /\ pc[w] # "replaced" /\ ~exposed[w]
              => file'.codex = file.codex]_vars

\* The wait for the lock is bounded: every call returns.
EveryCallReturns ==
    \A w \in Writers : pc[w] # "idle" ~> pc[w] = "idle"

\* What the module promises its callers: see AtomicConfig.
Store == INSTANCE AtomicConfig WITH driver <- file.driver,
                                    codex <- file.codex
RefinesAtomicConfig == Store!Spec
=============================================================================
