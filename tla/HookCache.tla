----------------------------- MODULE HookCache -----------------------------
(***************************************************************************)
(* One covered plugin's versioned hook cache, as kept usable by the        *)
(* Driver's reconciler (dev-tooling/codex_hook_cache_reconcile.py with its *)
(* payload and alias halves) while Codex deletes, replaces and rewrites    *)
(* the payload directories underneath it.                                  *)
(*                                                                         *)
(* The cache directory is a function from slots to directory entries. A    *)
(* slot is a version name, numbered in the order of version_sort_key, or   *)
(* the alias name "latest". A reconcile pass is a sequence of separate     *)
(* file-system reads and writes, so each of them is an action: between any *)
(* two, Codex may write, another reconciler may take a step (nothing       *)
(* serialises the passes of the observer and of the provisioner), and the  *)
(* process may be killed.                                                  *)
(***************************************************************************)
EXTENDS Naturals

CONSTANTS
    Procs,      \* reconciler processes: the observer, provisioner runs
    N,          \* number of version names
    MaxWrites   \* bound on the number of Codex writes in a behaviour

ASSUME NAssumption == N \in Nat \ {0}
ASSUME MaxWritesAssumption == MaxWrites \in Nat

VARIABLES
    entry,      \* the plugin's cache directory: slot -> directory entry
    record,     \* observed_versions in the state file outside the cache
    pc,         \* where each reconcile pass stands
    listed,     \* the pass's snapshot of the real version directories
    current,    \* the newest of them, the target the pass wants for latest
    observed,   \* the pass's union of its snapshot and the loaded record
    todo,       \* alias slots the pass has still to link
    result,     \* outcome of the process's last finished pass
    quiet,      \* history: nobody else changed the cache or the record
                \* since the process's last pass began
    unread,     \* history: the record is not what the pass has loaded, as its
                \* read failed or another pass has saved it since
    forgotten,  \* history: versions that such a pass has dropped from it
    overlapped, \* history: a pass has begun while another was under way
    writes      \* number of Codex writes so far

vars == <<entry, record, pc, listed, current, observed, todo, result, quiet,
          unread, forgotten, overlapped, writes>>
recordHistory == <<unread, forgotten>>
cacheVars == <<entry, record, writes>>
snapshotVars == <<listed, current, observed, todo>>

Versions == 1..N
Latest == 0
Slots == 0..N

(***************************************************************************)
(* Directory entries. A payload directory is "partial" while it is being   *)
(* written, removed or is broken: it fails validation. A complete payload  *)
(* either declares versioned hook scripts or only "inline" hooks that name *)
(* no path under the plugin root. "foreign" stands for what alias_status   *)
(* calls unsafe besides a directory: a plain file, or a link that leaves   *)
(* the cache.                                                              *)
(***************************************************************************)
Bodies == {"partial", "inline", "scripts"}
Entry == [kind : {"absent", "dir", "link", "foreign"},
          to : Slots,
          body : Bodies \union {"none"}]

Absent == [kind |-> "absent", to |-> Latest, body |-> "none"]
Foreign == [kind |-> "foreign", to |-> Latest, body |-> "none"]
Dir(b) == [kind |-> "dir", to |-> Latest, body |-> b]
LinkTo(s) == [kind |-> "link", to |-> s, body |-> "none"]

RealVersions == {v \in Versions : entry[v].kind = "dir"}

Newest(v, S) == v \in S /\ \A w \in S : w <= v

\* Opening a path under slot s follows links. Driver links lead from a
\* version to latest or from latest to a version, so two hops reach the
\* payload or show that there is none (dangling, or a loop).
Hop(s) == IF entry[s].kind = "link" THEN entry[s].to ELSE s
Payload(s) == entry[Hop(Hop(s))]

Unsafe(s) == entry[s].kind \in {"dir", "foreign"}

\* Mutant of Desired: no alias for versions that are gone.
OnlyLatest(p) == {Latest}

\* What a pass wants: latest, and an alias for every observed version that
\* has no real directory any more.
Desired(p) == {Latest} \union (observed[p] \ listed[p])
LinkTarget(p, s) == IF s = Latest THEN current[p] ELSE Latest

TypeOK ==
    /\ entry \in [Slots -> Entry]
    /\ record \subseteq Versions
    /\ pc \in [Procs -> {"idle", "listed", "validated", "declared",
                         "scripted", "loaded", "checked", "linking"}]
    /\ listed \in [Procs -> SUBSET Versions]
    /\ current \in [Procs -> Slots]
    /\ observed \in [Procs -> SUBSET Versions]
    /\ todo \in [Procs -> SUBSET Slots]
    /\ result \in [Procs -> {"none", "failed", "nolinks", "linked", "killed"}]
    /\ quiet \in [Procs -> BOOLEAN]
    /\ unread \in [Procs -> BOOLEAN]
    /\ forgotten \subseteq Versions
    /\ overlapped \in BOOLEAN
    /\ writes \in 0..MaxWrites

\* A fresh host: some payloads installed, at most one slot occupied by
\* something that is not Codex's or the Driver's, no record yet.
Init ==
    /\ \E alien \in SUBSET Slots, full \in SUBSET Versions :
          /\ \A s, t \in alien : s = t
          /\ alien \intersect full = {}
          /\ entry = [s \in Slots |-> IF s \in alien THEN Foreign
                                      ELSE IF s \in full THEN Dir("scripts")
                                      ELSE Absent]
    /\ record = {}
    /\ pc = [p \in Procs |-> "idle"]
    /\ listed = [p \in Procs |-> {}]
    /\ current = [p \in Procs |-> Latest]
    /\ observed = [p \in Procs |-> {}]
    /\ todo = [p \in Procs |-> {}]
    /\ result = [p \in Procs |-> "none"]
    /\ quiet = [p \in Procs |-> TRUE]
    /\ unread = [p \in Procs |-> FALSE]
    /\ forgotten = {}
    /\ overlapped = FALSE
    /\ writes = 0

-----------------------------------------------------------------------------
(***************************************************************************)
(* The reconcile pass.                                                     *)
(***************************************************************************)
Goto(p, label) == pc' = [pc EXCEPT ![p] = label]

\* The pass returns, or dies, and forgets its snapshots.
Return(p, outcome) ==
    /\ Goto(p, "idle")
    /\ result' = [result EXCEPT ![p] = outcome]
    /\ listed' = [listed EXCEPT ![p] = {}]
    /\ current' = [current EXCEPT ![p] = Latest]
    /\ observed' = [observed EXCEPT ![p] = {}]
    /\ todo' = [todo EXCEPT ![p] = {}]

\* Everybody but p has had the cache or the record changed under it.
Disturb(p) == quiet' = [q \in Procs |-> q = p /\ quiet[q]]

\* real_versions: an empty cache is a failed pass.
List(p) ==
    /\ pc[p] = "idle"
    /\ quiet' = [quiet EXCEPT ![p] = TRUE]
    /\ overlapped' = (overlapped \/ \E q \in Procs : pc[q] # "idle")
    /\ \/ /\ RealVersions = {}
          /\ Return(p, "failed")
       \/ \E v \in Versions :
             /\ Newest(v, RealVersions)
             /\ listed' = [listed EXCEPT ![p] = RealVersions]
             /\ current' = [current EXCEPT ![p] = v]
             /\ Goto(p, "listed")
             /\ UNCHANGED <<observed, todo, result>>
    /\ UNCHANGED <<cacheVars, recordHistory>>

\* validate_payload on <root>/<current>.
Validate(p) ==
    /\ pc[p] = "listed"
    /\ \/ /\ Payload(current[p]).body \in {"inline", "scripts"}
          /\ Goto(p, "validated")
          /\ UNCHANGED <<snapshotVars, result>>
       \/ /\ Payload(current[p]).body \notin {"inline", "scripts"}
          /\ Return(p, "failed")
    /\ UNCHANGED <<cacheVars, quiet, recordHistory, overlapped>>

\* registered_hook_declarations reads the manifest and the registrations
\* again; of a partial payload either file may or may not be readable.
ReadDeclarations(p) ==
    /\ pc[p] = "validated"
    /\ \/ /\ Payload(current[p]).body # "none"
          /\ Goto(p, "declared")
          /\ UNCHANGED <<snapshotVars, result>>
       \/ /\ Payload(current[p]).body \in {"partial", "none"}
          /\ Return(p, "failed")
    /\ UNCHANGED <<cacheVars, quiet, recordHistory, overlapped>>

\* declared_hook_scripts reads them a third time and drops its problems: a
\* payload that lists no versioned script, or none any more, ends the pass
\* successfully with no alias touched.
ReadScripts(p) ==
    /\ pc[p] = "declared"
    /\ \/ /\ Payload(current[p]).body \in {"scripts", "partial"}
          /\ Goto(p, "scripted")
          /\ UNCHANGED <<snapshotVars, result>>
       \/ /\ Payload(current[p]).body # "scripts"
          /\ Return(p, "nolinks")
    /\ UNCHANGED <<cacheVars, quiet, recordHistory, overlapped>>

\* What the pass has of the record from now on.
Loaded(p, versions) ==
    /\ pc[p] = "scripted"
    /\ observed' = [observed EXCEPT ![p] = versions \union listed[p]]
    /\ Goto(p, "loaded")
    /\ UNCHANGED <<cacheVars, listed, current, todo, result, quiet, forgotten, overlapped>>

\* Mutant of LoadState: the record on disk is not consulted.
ForgetRecord(p) ==
    /\ Loaded(p, {})
    /\ unread' = [unread EXCEPT ![p] = FALSE]

\* load_state, united with the snapshot. A record that cannot be read, or
\* is not a list, counts as none, and the pass goes on.
LoadState(p) ==
    \E versions \in {record, {}} :
        /\ Loaded(p, versions)
        /\ unread' = [unread EXCEPT ![p] = versions # record]

\* Mutant of CheckSlots: only directories are refused.
CheckDirectories(p) ==
    /\ pc[p] = "loaded"
    /\ \/ /\ \A s \in Desired(p) : entry[s].kind # "dir"
          /\ Goto(p, "checked")
          /\ UNCHANGED <<snapshotVars, result>>
       \/ /\ \E s \in Desired(p) : entry[s].kind = "dir"
          /\ Return(p, "failed")
    /\ UNCHANGED <<cacheVars, quiet, recordHistory, overlapped>>

\* alias_status of every desired slot; one unsafe slot refuses the pass.
CheckSlots(p) ==
    /\ pc[p] = "loaded"
    /\ \/ /\ \A s \in Desired(p) : ~Unsafe(s)
          /\ Goto(p, "checked")
          /\ UNCHANGED <<snapshotVars, result>>
       \/ /\ \E s \in Desired(p) : Unsafe(s)
          /\ Return(p, "failed")
    /\ UNCHANGED <<cacheVars, quiet, recordHistory, overlapped>>

\* The whole record is replaced, whatever it holds by now.
Saved(p, versions) ==
    /\ pc[p] = "checked"
    /\ record' = versions
    /\ todo' = [todo EXCEPT ![p] = Desired(p)]
    /\ Goto(p, "linking")
    /\ IF record' = record THEN UNCHANGED <<quiet, unread>>
       ELSE /\ Disturb(p)
            /\ unread' = [q \in Procs |-> q # p]
    /\ forgotten' = (forgotten \union (IF unread[p] THEN record ELSE {})) \ record'
    /\ UNCHANGED <<entry, writes, listed, current, observed, result, overlapped>>

\* Mutant of SaveState: the snapshot is saved instead of the union.
SaveListed(p) == Saved(p, listed[p])

\* save_state: an atomic replacement by what this pass computed.
SaveState(p) == Saved(p, observed[p])

\* Mutant of Link: the old versions are linked before latest is retargeted.
LinkOldFirst(p) ==
    /\ pc[p] = "linking"
    /\ \E s \in todo[p] :
          /\ \A t \in todo[p] : s >= t
          /\ entry[s].kind # "dir"
          /\ entry' = [entry EXCEPT ![s] = LinkTo(LinkTarget(p, s))]
          /\ todo' = [todo EXCEPT ![p] = @ \ {s}]
          /\ IF entry' = entry THEN UNCHANGED quiet ELSE Disturb(p)
    /\ UNCHANGED <<pc, listed, current, observed, result, record, writes, recordHistory, overlapped>>

\* Mutant of Link: an existing link is unlinked before it is made again.
LinkByUnlinking(p) ==
    /\ pc[p] = "linking"
    /\ \E s \in todo[p] :
          /\ \A t \in todo[p] : s <= t
          /\ \/ /\ entry[s].kind = "link"
                /\ entry' = [entry EXCEPT ![s] = Absent]
                /\ UNCHANGED todo
             \/ /\ entry[s].kind \in {"absent", "foreign"}
                /\ entry' = [entry EXCEPT ![s] = LinkTo(LinkTarget(p, s))]
                /\ todo' = [todo EXCEPT ![p] = @ \ {s}]
    /\ Disturb(p)
    /\ UNCHANGED <<pc, listed, current, observed, result, record, writes, recordHistory, overlapped>>

\* link, in the order of the desired mapping: latest first, then the old
\* versions ascending. Renaming a link onto a directory raises, and nothing
\* catches it: the process dies.
Link(p) ==
    /\ pc[p] = "linking"
    /\ \E s \in todo[p] :
          /\ \A t \in todo[p] : s <= t
          /\ \/ /\ entry[s].kind = "dir"
                /\ Return(p, "killed")
                /\ UNCHANGED <<entry, quiet>>
             \/ /\ entry[s].kind # "dir"
                /\ entry' = [entry EXCEPT ![s] = LinkTo(LinkTarget(p, s))]
                /\ todo' = [todo EXCEPT ![p] = @ \ {s}]
                /\ IF entry' = entry THEN UNCHANGED quiet ELSE Disturb(p)
                /\ UNCHANGED <<pc, listed, current, observed, result>>
    /\ UNCHANGED <<record, writes, recordHistory, overlapped>>

Report(p) ==
    /\ pc[p] = "linking"
    /\ todo[p] = {}
    /\ Return(p, "linked")
    /\ UNCHANGED <<cacheVars, quiet, recordHistory, overlapped>>

\* The process is killed, or an unexpected OSError ends it, at any point.
Kill(p) ==
    /\ pc[p] # "idle"
    /\ Return(p, "killed")
    /\ UNCHANGED <<cacheVars, quiet, recordHistory, overlapped>>

ReconcileStep(p) ==
    \/ List(p)
    \/ Validate(p)
    \/ ReadDeclarations(p)
    \/ ReadScripts(p)
    \/ LoadState(p)
    \/ CheckSlots(p)
    \/ SaveState(p)
    \/ Link(p)
    \/ Report(p)

-----------------------------------------------------------------------------
(***************************************************************************)
(* Codex, which takes no lock and tells nobody. A version directory        *)
(* appears incrementally and disappears incrementally, may be rewritten in *)
(* place, and the whole tree may be replaced.                              *)
(***************************************************************************)
CodexWrite(new) ==
    /\ writes < MaxWrites
    /\ writes' = writes + 1
    /\ entry' = new
    /\ quiet' = [p \in Procs |-> FALSE]
    /\ UNCHANGED <<record, pc, snapshotVars, result, recordHistory, overlapped>>

CodexInstall ==
    \E v \in Versions :
        /\ entry[v].kind \in {"absent", "link"}
        /\ CodexWrite([entry EXCEPT ![v] = Dir("partial")])

CodexComplete ==
    \E v \in Versions, b \in {"inline", "scripts"} :
        /\ entry[v] = Dir("partial")
        /\ CodexWrite([entry EXCEPT ![v] = Dir(b)])

CodexSpoil ==
    \E v \in Versions :
        /\ entry[v].kind = "dir"
        /\ entry[v].body # "partial"
        /\ CodexWrite([entry EXCEPT ![v] = Dir("partial")])

CodexRemove ==
    \E v \in Versions :
        /\ entry[v].kind = "dir"
        /\ CodexWrite([entry EXCEPT ![v] = Absent])

CodexWipe ==
    /\ \E s \in Slots : entry[s] # Absent
    /\ CodexWrite([s \in Slots |-> Absent])

CodexStep ==
    \/ CodexInstall
    \/ CodexComplete
    \/ CodexSpoil
    \/ CodexRemove
    \/ CodexWipe

Next ==
    \/ \E p \in Procs : ReconcileStep(p)
    \/ \E p \in Procs : Kill(p)
    \/ CodexStep

Spec == Init /\ [][Next]_vars

-----------------------------------------------------------------------------
(***************************************************************************)
(* Properties.                                                             *)
(***************************************************************************)
\* Every managed link is a hop of old-version -> latest -> current-version,
\* and the version latest names is not itself an alias: no path loops. This
\* is the topology the reconciler's module comment promises.
OneHopTopology ==
    /\ \A v \in Versions : entry[v].kind = "link" => entry[v].to = Latest
    /\ entry[Latest].kind = "link" =>
          /\ entry[Latest].to \in Versions
          /\ entry[entry[Latest].to].kind # "link"

\* It holds at every instant, whatever Codex does and wherever passes are
\* killed, as long as no two passes have overlapped: nothing but that breaks
\* it, and latest must be retargeted before the old versions are aliased.
OneHopInSequence == ~overlapped => OneHopTopology

\* An alias exists only for a version in the plugin's own record, at every
\* instant and so across a kill, as the record is saved before the first
\* link; or for one that a pass has dropped from the record without having
\* seen it there.
BackfillRecorded ==
    \A v \in Versions : entry[v].kind = "link" => v \in record \union forgotten

\* No pass that has loaded the record as it is drops a version from it: only
\* one whose read of it failed, or that another pass has overtaken between its
\* load and its save, which no lock holds together, forgets a version.
RecordKept ==
    [][\/ record \subseteq record'
       \/ \E p \in Procs : unread[p] /\ pc[p] = "checked" /\ pc'[p] = "linking"]_vars

\* No reconcile step, in whatever order the steps of several processes and
\* of Codex fall, replaces a payload directory or an unmanaged path.
UnmanagedPreserved ==
    [][writes' = writes =>
          \A s \in Slots : Unsafe(s) => entry'[s] = entry[s]]_vars

\* Path continuity: latest leads to the newest payload, which is complete,
\* and so does every recorded version that has no directory of its own.
Continuity ==
    \E c \in Versions :
        /\ Newest(c, RealVersions)
        /\ entry[c].body = "scripts"
        /\ entry[Latest] = LinkTo(c)
        /\ RealVersions \subseteq record
        /\ \A v \in record \ RealVersions : entry[v] = LinkTo(Latest)

\* The newest payload is complete and names no versioned path at all.
NothingToLink ==
    \E c \in Versions : Newest(c, RealVersions) /\ entry[c].body = "inline"

\* A reason to refuse: nothing installed, a newest payload that is not
\* complete, or an unmanaged path where an alias belongs.
CannotRepair ==
    \/ RealVersions = {}
    \/ \E c \in Versions : Newest(c, RealVersions) /\ entry[c].body = "partial"
    \/ \E s \in {Latest} \union record : entry[s].kind = "foreign"

\* The report of a pass is true of the cache, from whatever state earlier
\* kills, races and Codex writes had left it in, as long as nobody else has
\* changed anything since the pass began: success with links means path
\* continuity, success without links means there was nothing to link, and
\* a refusal means there is a reason for one.
CleanPassReportsTruth ==
    \A p \in Procs : pc[p] = "idle" /\ quiet[p] =>
        /\ result[p] = "linked" => Continuity
        /\ result[p] = "nolinks" => NothingToLink
        /\ result[p] = "failed" => CannotRepair

\* Rerunning a pass where continuity holds changes nothing, unless it cannot
\* read the record.
Idempotent ==
    [][Continuity /\ writes' = writes /\ (\A p \in Procs : quiet[p] /\ ~unread[p])
          => UNCHANGED <<entry, record>>]_vars
=============================================================================
