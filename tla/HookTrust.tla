------------------------------ MODULE HookTrust ------------------------------
(***************************************************************************)
(* The trust half of a reconcile pass for one covered plugin               *)
(* (dev-tooling/codex_hook_trust.py, codex_hook_release.py and the release *)
(* fetch): decide whether Codex's own records already cover the installed  *)
(* payload and, if not, compare the payload with its release and record    *)
(* the trust.                                                              *)
(*                                                                         *)
(* The pass reads the payload many times: for the declarations, for the    *)
(* entry points those declarations name, for the content hash, for the     *)
(* labels of a problem. Each reading is an action here, and Codex, which   *)
(* takes no part in any lock, may rewrite the payload in place or edit the *)
(* trust records between any two of them, and also between the reading of  *)
(* the configuration under the Driver's lock and the rename that puts the  *)
(* new text in its place (codex_config_write.py); ConfigWrite has the lock *)
(* and the temporary file in detail.                                       *)
(***************************************************************************)
EXTENDS Naturals

CONSTANTS
    Procs,      \* processes that run passes: observer, provisioner
    OwnKeys,    \* hook keys of the plugin: <plugin>@<marketplace>:...
    OtherKeys,  \* hook keys of other plugins
    MaxWrites   \* bound on the number of changes Codex makes

ASSUME KeysDisjoint == OwnKeys \intersect OtherKeys = {}
ASSUME MaxWritesIsNat == MaxWrites \in Nat

VARIABLES
    released,   \* keys the release tag declares; a tag does not move
    payload,    \* the installed version directory
    config,     \* the hooks.state tables of config.toml
    recognized, \* their format is the known one
    pc,
    hooks,      \* the pass's (key, declaration hash) pairs
    recorded,   \* the pass's copy of the plugin's tables
    content,    \* what the pass's content hash has been fed so far
    fed,        \* how many of the three parts of the payload that is
    text,       \* the tables of the configuration it is about to replace
    result,     \* outcome of the process's last pass
    quiet,      \* history: nobody else changed payload or config since the
                \* process's last pass began
    writes

vars == <<released, payload, config, recognized, pc, hooks, recorded, content,
          fed, text, result, quiet, writes>>
readVars == <<hooks, recorded, content, fed, text>>
hostVars == <<released, payload, config, recognized, writes>>

Keys == OwnKeys \union OtherKeys

(***************************************************************************)
(* A declaration is known by its hash; "bad" stands for one that cannot be *)
(* read or is malformed. A hook that is not declared is "emptied" when its *)
(* registration file is there and registers nothing at all, "none" when    *)
(* the file is not there or registers something else. The code is every    *)
(* entry point and the helpers in its directory, the rest every other      *)
(* file. "genuine" bytes are those of the release; code that is "lacking"  *)
(* is genuine but for a helper that was deleted. An "odd" rest has an      *)
(* entry the content hash cannot read.                                     *)
(***************************************************************************)
Declarations == {"none", "emptied", "genuine", "changed", "bad"}
Codes == {"gone", "genuine", "lacking", "changed"}
Rests == {"one", "two", "odd"}
Payloads == [decl : [OwnKeys -> Declarations], code : Codes, rest : Rests]

\* A table: the operator's selection and the two hashes, each maybe unset. A
\* content hash is what was hashed; no hash is of an odd rest. Who wrote the
\* hashes is history.
Selections == {"unset", "on", "off"}
Table == [enabled : Selections, decl : Declarations, content : Payloads,
          by : {"codex", "driver"}]
NoPairs == [k \in OwnKeys |-> "none"]
NoHash == [decl |-> NoPairs, code |-> "gone", rest |-> "odd"]
Untrusted(e) ==
    [enabled |-> e, decl |-> "none", content |-> NoHash, by |-> "codex"]
NoText == [k \in Keys |-> Untrusted("unset")]
NoTables == [k \in OwnKeys |-> Untrusted("unset")]

\* hook_registrations with the entries of every group.
Readable(decl) == \A k \in OwnKeys : decl[k] # "bad"
Declared(decl) == {k \in OwnKeys : decl[k] \notin {"none", "emptied"}}
ReleaseDecl == [k \in OwnKeys |-> IF k \in released THEN "genuine" ELSE "none"]

\* Every hook of decl has a table with its hash and the content hash.
Covers(tables, decl, hash) ==
    \A k \in Declared(decl) :
        tables[k].decl = decl[k] /\ tables[k].content = hash

\* Codex trusts the installed hooks.
Trusted == Readable(payload.decl) /\ Covers(config, payload.decl, payload)

TypeOK ==
    /\ released \subseteq OwnKeys
    /\ payload \in Payloads
    /\ config \in [Keys -> Table]
    /\ recognized \in BOOLEAN
    /\ pc \in [Procs -> {"idle", "config", "status", "fetch", "compare",
                         "files", "mismatch", "unfetched", "unverified",
                         "hash", "write", "replace"}]
    /\ hooks \in [Procs -> [OwnKeys -> Declarations]]
    /\ recorded \in [Procs -> [OwnKeys -> Table]]
    /\ content \in [Procs -> Payloads]
    /\ fed \in [Procs -> 0..3]
    /\ text \in [Procs -> [Keys -> Table]]
    /\ result \in [Procs -> {"none", "ok", "failed", "killed"}]
    /\ quiet \in [Procs -> BOOLEAN]
    /\ writes \in 0..MaxWrites

\* The plugin declares a hook and has no record, whatever its bytes are.
Init ==
    /\ released \in SUBSET OwnKeys
    /\ payload \in {b \in Payloads : Declared(b.decl) # {}}
    /\ config = [k \in Keys |-> IF k \in OwnKeys THEN Untrusted("unset")
                               ELSE Untrusted("on")]
    /\ recognized = TRUE
    /\ pc = [p \in Procs |-> "idle"]
    /\ hooks = [p \in Procs |-> NoPairs]
    /\ recorded = [p \in Procs |-> NoTables]
    /\ content = [p \in Procs |-> NoHash]
    /\ fed = [p \in Procs |-> 0]
    /\ text = [p \in Procs |-> NoText]
    /\ result = [p \in Procs |-> "none"]
    /\ quiet = [p \in Procs |-> TRUE]
    /\ writes = 0

-----------------------------------------------------------------------------
Goto(p, label) == pc' = [pc EXCEPT ![p] = label]

\* The pass returns, or dies, and forgets what it has read.
Return(p, outcome) ==
    /\ Goto(p, "idle")
    /\ result' = [result EXCEPT ![p] = outcome]
    /\ hooks' = [hooks EXCEPT ![p] = NoPairs]
    /\ recorded' = [recorded EXCEPT ![p] = NoTables]
    /\ content' = [content EXCEPT ![p] = NoHash]
    /\ fed' = [fed EXCEPT ![p] = 0]
    /\ text' = [text EXCEPT ![p] = NoText]

(***************************************************************************)
(* trust_status: do Codex's records cover the installed hooks?             *)
(***************************************************************************)
\* installed_hook_keys. A declaration that cannot be read is not trusted.
ReadInstalled(p) ==
    /\ pc[p] = "idle"
    /\ IF Readable(payload.decl)
       THEN /\ hooks' = [hooks EXCEPT ![p] = payload.decl]
            /\ Goto(p, "config")
       ELSE /\ Goto(p, "fetch")
            /\ UNCHANGED hooks
    /\ quiet' = [quiet EXCEPT ![p] = TRUE]
    /\ UNCHANGED <<hostVars, recorded, content, fed, text, result>>

\* The records; a format that is not recognized is a problem to report. (A
\* file that cannot be read counts as not recognized: it fails the pass too,
\* at the release fetch, which reads the same file.)
ReadRecords(p) ==
    /\ pc[p] = "config"
    /\ \/ /\ recognized
          /\ recorded' = [recorded EXCEPT ![p] = [k \in OwnKeys |-> config[k]]]
          /\ Goto(p, "status")
          /\ UNCHANGED <<hooks, content, fed, text, result>>
       \/ /\ ~recognized
          /\ Return(p, "failed")
    /\ UNCHANGED <<hostVars, quiet>>

\* _plugin_content_hash reads the tree file by file: here declarations, code
\* and rest, each as it is when its turn comes.
Feed(p, part) ==
    /\ fed[p] = part
    /\ fed' = [fed EXCEPT ![p] = part + 1]
    /\ UNCHANGED <<pc, hooks, recorded, text, result>>

Fingerprint(p) ==
    /\ pc[p] \in {"status", "hash"}
    /\ \/ Feed(p, 0) /\ content' = [content EXCEPT ![p].decl = payload.decl]
       \/ Feed(p, 1) /\ content' = [content EXCEPT ![p].code = payload.code]
       \/ /\ payload.rest # "odd"
          /\ Feed(p, 2) /\ content' = [content EXCEPT ![p].rest = payload.rest]
       \/ /\ payload.rest = "odd"
          /\ fed[p] = 2
          /\ IF pc[p] = "hash" THEN Return(p, "failed")
             ELSE Goto(p, "fetch") /\ UNCHANGED <<readVars, result>>
    /\ UNCHANGED <<hostVars, quiet>>

\* Mutant of CompareRecords: the content hash is not compared.
CompareRecordsByDeclaration(p) ==
    /\ pc[p] = "status"
    /\ fed[p] = 3
    /\ IF \A k \in Declared(hooks[p]) : recorded[p][k].decl = hooks[p][k]
       THEN Return(p, "ok")
       ELSE Goto(p, "fetch") /\ UNCHANGED <<readVars, result>>
    /\ UNCHANGED <<hostVars, quiet>>

CompareRecords(p) ==
    /\ pc[p] = "status"
    /\ fed[p] = 3
    /\ IF Covers(recorded[p], hooks[p], content[p])
       THEN Return(p, "ok")
       ELSE Goto(p, "fetch") /\ UNCHANGED <<readVars, result>>
    /\ UNCHANGED <<hostVars, quiet>>

(***************************************************************************)
(* The release and the comparison with it.                                 *)
(***************************************************************************)
\* release_payload: the tag is fetched, or for whatever reason is not.
FetchRelease(p) ==
    /\ pc[p] = "fetch"
    /\ Goto(p, "compare") \/ Goto(p, "unfetched")
    /\ hooks' = [hooks EXCEPT ![p] = NoPairs]
    /\ recorded' = [recorded EXCEPT ![p] = NoTables]
    /\ content' = [content EXCEPT ![p] = NoHash]
    /\ fed' = [fed EXCEPT ![p] = 0]
    /\ UNCHANGED <<hostVars, text, result, quiet>>

\* Mutant of MatchDeclarations: a hook the release lacks is let through.
MatchReleased(p) ==
    /\ pc[p] = "compare"
    /\ IF /\ Readable(payload.decl)
          /\ \A k \in released : payload.decl[k] = "genuine"
       THEN /\ hooks' = [hooks EXCEPT ![p] = payload.decl]
            /\ Goto(p, "files")
       ELSE Goto(p, "mismatch") /\ UNCHANGED hooks
    /\ UNCHANGED <<hostVars, recorded, content, fed, text, result, quiet>>

\* _matching_declarations: every declaration file equals the release's. A file
\* that differs is reported by the events it registers itself, so that one
\* emptied of them is not reported, and its hooks are left out.
MatchDeclarations(p) ==
    /\ pc[p] = "compare"
    /\ IF \A k \in OwnKeys : payload.decl[k] \in {ReleaseDecl[k], "emptied"}
       THEN /\ hooks' = [hooks EXCEPT ![p] = payload.decl]
            /\ Goto(p, "files")
       ELSE Goto(p, "mismatch") /\ UNCHANGED hooks
    /\ UNCHANGED <<hostVars, recorded, content, fed, text, result, quiet>>

\* Mutant of CompareFiles: only that the entry points exist is checked.
CompareFilesExist(p) ==
    /\ pc[p] \in {"files", "mismatch"}
    /\ \/ /\ payload.code # "gone"
          /\ Goto(p, IF pc[p] = "files" THEN "hash" ELSE "unverified")
          /\ UNCHANGED <<readVars, result>>
       \/ /\ payload.code = "gone"
          /\ Return(p, "killed")
    /\ UNCHANGED <<hostVars, quiet>>

\* _entrypoint_problems. It looks up the declarations once more: while they
\* name no entry point, or cannot be read, no file is compared. Only what is
\* installed is compared, so a helper that was deleted is not missed. Reading
\* an entry point that is gone raises, and nothing catches it.
CompareFiles(p) ==
    /\ pc[p] \in {"files", "mismatch"}
    /\ \E compared \in BOOLEAN :
          /\ "genuine" \in {payload.decl[k] : k \in OwnKeys}
                /\ Readable(payload.decl) => compared
          /\ compared =>
                {payload.decl[k] : k \in OwnKeys}
                    \intersect {"genuine", "changed"} # {}
          /\ \/ /\ compared /\ payload.code = "gone"
                /\ Return(p, "killed")
             \/ /\ ~compared \/ payload.code # "gone"
                /\ IF pc[p] = "files" /\ (compared => payload.code \in {"genuine", "lacking"})
                   THEN /\ Goto(p, "hash")
                        /\ UNCHANGED hooks
                   ELSE /\ Goto(p, "unverified")
                        /\ hooks' = [hooks EXCEPT ![p] = NoPairs]
                /\ UNCHANGED <<recorded, content, fed, text, result>>
    /\ UNCHANGED <<hostVars, quiet>>

\* untrusted_hook_problems names the hooks that are installed by now. If
\* there is none, there is no problem to report: the pass ends well, or
\* goes on with no hook to record.
NameUnverified(p) ==
    /\ pc[p] \in {"unfetched", "unverified"}
    /\ \/ /\ Declared(payload.decl) # {}
          /\ Return(p, "failed")
       \/ /\ Declared(payload.decl) = {}
          /\ pc[p] = "unfetched"
          /\ Return(p, "ok")
       \/ /\ Declared(payload.decl) = {}
          /\ pc[p] = "unverified"
          /\ Goto(p, "hash")
          /\ UNCHANGED <<readVars, result>>
    /\ UNCHANGED <<hostVars, quiet>>

(***************************************************************************)
(* The records are written.                                                *)
(***************************************************************************)
FinishHash(p) ==
    /\ pc[p] = "hash"
    /\ fed[p] = 3
    /\ Goto(p, "write")
    /\ UNCHANGED <<hostVars, readVars, result, quiet>>

\* The tables a write replaces, and the plugin's own that it drops, for a
\* hook that is no longer declared, when it replaces any.
Stale(p, tables) ==
    {k \in Declared(hooks[p]) : \/ tables[k].decl # hooks[p][k]
                               \/ tables[k].content # content[p]}

Obsolete(p) == OwnKeys \ Declared(hooks[p])

\* Mutant of Record: the operator's selection is lost.
RecordAfresh(p, k) ==
    [enabled |-> "unset", decl |-> hooks[p][k], content |-> content[p],
     by |-> "driver"]

Record(p, k) ==
    [enabled |-> text[p][k].enabled, decl |-> hooks[p][k],
     content |-> content[p], by |-> "driver"]

\* _with_trust_records, of the text that was read.
Rewritten(p) ==
    [k \in Keys |-> CASE k \in Stale(p, text[p]) -> Record(p, k)
                      [] k \in Obsolete(p) -> Untrusted("unset")
                      [] OTHER -> text[p][k]]

\* rewrite_config: the lock is taken and the configuration read. If its text
\* is to stay as it is, that is all.
ReadConfig(p) ==
    /\ pc[p] = "write"
    /\ \A q \in Procs : pc[q] # "replace"
    /\ recognized
    /\ \/ /\ Stale(p, config) = {}
          /\ Return(p, "ok")
       \/ /\ Stale(p, config) # {}
          /\ Goto(p, "replace")
          /\ text' = [text EXCEPT ![p] = config]
          /\ UNCHANGED <<hooks, recorded, content, fed, result>>
    /\ UNCHANGED <<hostVars, quiet>>

\* The new text takes the place of whatever the file holds by now.
ReplaceConfig(p) ==
    /\ pc[p] = "replace"
    /\ config' = Rewritten(p)
    /\ recognized' = TRUE
    /\ quiet' = IF config' = config /\ recognized THEN quiet
                ELSE [q \in Procs |-> q = p /\ quiet[q]]
    /\ Return(p, "ok")
    /\ UNCHANGED <<released, payload, writes>>

\* The lock is not to be had, the format is not recognized, or the write
\* fails: nothing is written.
RefuseWrite(p) ==
    /\ pc[p] \in {"write", "replace"}
    /\ Return(p, "failed")
    /\ UNCHANGED <<hostVars, quiet>>

Kill(p) ==
    /\ pc[p] # "idle"
    /\ Return(p, "killed")
    /\ UNCHANGED <<hostVars, quiet>>

PassStep(p) ==
    \/ ReadInstalled(p)
    \/ ReadRecords(p)
    \/ Fingerprint(p)
    \/ CompareRecords(p)
    \/ FetchRelease(p)
    \/ MatchDeclarations(p)
    \/ CompareFiles(p)
    \/ NameUnverified(p)
    \/ FinishHash(p)
    \/ ReadConfig(p)
    \/ ReplaceConfig(p)
    \/ RefuseWrite(p)

-----------------------------------------------------------------------------
(***************************************************************************)
(* Codex, and the operator in its hook browser.                            *)
(***************************************************************************)
Outside ==
    /\ writes < MaxWrites
    /\ writes' = writes + 1
    /\ quiet' = [p \in Procs |-> FALSE]
    /\ UNCHANGED <<released, pc, readVars, result>>

\* Part of the payload is rewritten in place.
CodexPayload ==
    /\ Outside
    /\ \/ \E k \in OwnKeys, d \in Declarations :
             payload' = [payload EXCEPT !.decl[k] = d]
       \/ \E c \in Codes : payload' = [payload EXCEPT !.code = c]
       \/ \E r \in Rests : payload' = [payload EXCEPT !.rest = r]
    /\ payload' # payload
    /\ UNCHANGED <<config, recognized>>

\* The operator grants trust to a hook as it is installed, takes it back, or
\* switches a hook on or off.
CodexTable(k, table) ==
    /\ Outside
    /\ recognized
    /\ table # config[k]
    /\ config' = [config EXCEPT ![k] = table]
    /\ UNCHANGED <<payload, recognized>>

CodexGrant ==
    \E k \in OwnKeys :
        /\ k \in Declared(payload.decl)
        /\ payload.decl[k] # "bad"
        /\ payload.rest # "odd"
        /\ CodexTable(k, [config[k] EXCEPT !.decl = payload.decl[k],
                                           !.content = payload,
                                           !.by = "codex"])

CodexWithdraw ==
    \E k \in OwnKeys : CodexTable(k, Untrusted(config[k].enabled))

CodexSelect ==
    \E k \in Keys, e \in {"on", "off"} :
        CodexTable(k, [config[k] EXCEPT !.enabled = e])

CodexFormat ==
    /\ Outside
    /\ recognized' = ~recognized
    /\ UNCHANGED <<payload, config>>

CodexStep ==
    \/ CodexPayload
    \/ CodexGrant
    \/ CodexWithdraw
    \/ CodexSelect
    \/ CodexFormat

Next ==
    \/ \E p \in Procs : PassStep(p)
    \/ \E p \in Procs : Kill(p)
    \/ CodexStep

Spec == Init /\ [][Next]_vars

-----------------------------------------------------------------------------
(***************************************************************************)
(* Properties.                                                             *)
(***************************************************************************)
\* Whatever Codex rewrites in the middle of a pass, a record the Driver has
\* written carries the release's hash of a hook the release declares: a hook
\* whose definition differs is never trusted (contracts.md, trust
\* continuity).
EstablishedFromRelease ==
    \A k \in OwnKeys : config[k].by = "driver" =>
        k \in released /\ config[k].decl = ReleaseDecl[k]

\* When nobody else has changed anything since the pass began, what is about
\* to be recorded is every hook of the payload, each declared as in the
\* release, and the hash of the whole of it. Of the release's declarations
\* and code nothing is changed; what may be missing is what the comparison
\* does not look for, the hooks of a registration file that was emptied and
\* a helper that was deleted.
VerifiedBeforeWrite ==
    \A p \in Procs :
        pc[p] \in {"write", "replace"} /\ quiet[p] /\ Declared(hooks[p]) # {} =>
            /\ hooks[p] = payload.decl
            /\ \A k \in OwnKeys : payload.decl[k] \in {ReleaseDecl[k], "emptied"}
            /\ payload.code \in {"genuine", "lacking"}
            /\ content[p] = payload

\* The report of a pass is true of the host, as long as nobody else has
\* changed anything since the pass began: no problem means that Codex trusts
\* every installed hook, a problem that it does not or that the records or
\* the payload cannot be read.
ReportTrue ==
    \A p \in Procs : pc[p] = "idle" /\ quiet[p] =>
        /\ result[p] = "ok" => recognized /\ Trusted
        /\ result[p] = "failed" =>
              ~recognized \/ ~Trusted \/ payload.rest = "odd"

\* A Driver write leaves every other plugin's tables alone, and of the hooks
\* the release declares keeps the operator's choice of on or off, even if
\* the operator made it while the pass was under way. There are two
\* exceptions. What Codex or the operator has changed since the text was
\* read under the lock is overwritten, the window contracts.md grants; and
\* a hook whose registration file the pass found emptied loses its table,
\* the choice with it, when another hook's is written.
Unraced(p) == {k \in Keys : config[k] = text[p][k]}

OperatorChoicesKept ==
    [][writes' = writes /\ config' # config =>
          \E p \in Procs :
             /\ pc[p] = "replace"
             /\ \A k \in OtherKeys \intersect Unraced(p) :
                   config'[k] = config[k]
             /\ \A k \in released \intersect Unraced(p) :
                   hooks[p][k] # "emptied" =>
                      config'[k].enabled = config[k].enabled]_vars
=============================================================================
