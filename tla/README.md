# A TLA+ development of livespec-driver-codex

livespec-driver-codex keeps livespec's guards working inside Codex. Codex
installs plugins into a versioned cache, deletes and rewrites that cache on its
own, and runs a plugin's hooks only while its `config.toml` holds trust records
that match the installed bytes. The Driver therefore consists of guards that run
as hooks, and of host tooling that keeps the hooks' paths resolving and their
trust recorded. The modules here model the host tooling's protocols, that is what
several unsynchronised processes (two reconcilers, Codex, observers, a
supervisor) do to a cache directory, its records and one configuration file, and
the guards: the supervisor completion gate and the footgun guard as processes that
decide while what they ask changes or fails, and the guards' judgements of
commands, files and transcripts as operators over every small input.

## Inventory

| component | source | state | operations | interacts with |
|---|---|---|---|---|
| reconciler | `dev-tooling/codex_hook_cache_reconcile.py`, `_codex_hook_cache_aliases.py`, `_codex_hook_cache_payload.py` | the plugin's cache directory (real versions, aliases, `latest`), `observed_versions` in a state file | `reconcile`: list, validate, read registrations, load record, check slots, save record, link | Codex writes the same directory; a second reconciler may run at the same time |
| config writer | `dev-tooling/codex_config_write.py` | `config.toml`, sibling lock file, temporary file | `rewrite_config`: lock with deadline, read, rewrite, stage, rename | called by trust; Codex edits the file without the lock |
| trust | `dev-tooling/codex_hook_trust.py`, `codex_hook_release.py`, `_codex_hook_release_source.py` | trust records in `config.toml` | `trust_status`, fetch of the release tag, comparison, content hash, `reconcile_trust` | reads the payload Codex may be rewriting |
| all-plugin reconcile, coverage | `dev-tooling/codex_hook_cache_all.py`, `_codex_hook_cache_coverage.py` | none | `reconcile_all`, `covered_plugin_roots` | called by the observer and the provisioner |
| observer loop | `dev-tooling/codex_hook_cache_observe.py`, `_codex_hook_cache_fingerprint.py` | `seen`, `settled`, `errors`, `retry_at` in memory | sweep, notice, reconcile, refresh, heartbeat; single-plugin `run_loop` | supervisor restarts it; writes status records |
| process and health | `dev-tooling/_codex_hook_cache_process.py`, `_codex_hook_cache_report.py` | status record per plugin | `health`, `health_after_provisioner`, `ensure`, `stop`, `spawn`, `provision_all`, `status_all` | provisioner reads what the observer writes |
| provisioner, supervisors | `dev-tooling/ensure-codex-plugins.sh`, `.service`, `.plist` | none | sequence of external commands; `Restart=always` | starts everything above |
| stop gate | `livespec/hooks/supervisor_completion_gate.py`, `_supervisor_producers.py` | none (reads marker, process table, registries) | one decision per Stop event | session and overseer change what it reads |
| footgun guard | `livespec/hooks/livespec_footgun_guard.py`, `_footgun_*.py` | per call: known variables, cached probe results | one decision per shell command, segment by segment | asks git about each written file; Codex ends it after 10 s |
| memory and ledger guards | `livespec/hooks/block_auto_memory.py`, `_memory_shell_writes.py`, `block_raw_bd_create.py`, `no_shadow_ledger.py` | none | one decision per tool call or turn | read a `.livespec.jsonc`, the environment, a transcript |
| memory audit, hook support | `livespec/hooks/codex_background_memory_audit.py`, `_livespec_project.py`, `_result.py`, `hooks.json` | none | scan and report | |
| skills, specification, gates | `livespec/skills`, `SPECIFICATION`, `dev-tooling/check-*.sh` | none | | prompt text and CI scripts |

What makes each part correct:

- reconciler: the topology stays `old-version -> latest -> current-version`; what
  is not the Driver's is never replaced; only recorded versions are aliased; the
  record forgets only what a failed read or an overlapping pass makes it forget; a
  report is true; a rerun changes nothing.
- config writer: no Driver setting is lost; the file is always whole; a dead or
  slow writer blocks nobody for ever; Codex's part is rolled back only in the
  window the module documents.
- observer: a plugin Codex does not trust ends up trusted or reported; retries
  repair; one plugin's failure does not reach the others; the loop comes to rest.
- trust: no declaration or code that differs from the release's is recorded, and the
  operator's choices outlive a write but in the window the writer documents.
- health: a record is not taken for newer, or for alive, when it is not.
- stop gate: fails closed, and never traps a session.
- footgun guard: no write to a primary checkout and no fleet kill passes but for the
  failures it names; nothing else is refused, but for variables it has lost.
- memory and ledger guards: the writes, creates and turns meant, however they are
  wrapped, nested, quoted or spread over lines, and no others but the ones each
  property names.
- observer, in time: lost trust is repaired or reported, and heartbeats are
  written, within a bound.

The hard behaviours are interleavings without locks (two reconcilers, Codex),
values read once and used later, kills between two file-system steps, a loop
whose own writes change what it watches, and text that must be read as the shell
reads it. They are listed with their lines under
`hazards` in `PROJECT.json`.

## Modules

| module | what it is |
|---|---|
| `HookCache` | the reconciler's pass over one plugin's cache, for any number of processes, with Codex |
| `HookCache_proofs` | theorems about it |
| `ConfigWrite` | `rewrite_config` for any number of writers, with Codex |
| `AtomicConfig` | what `ConfigWrite` implements: a store in which a Driver write is one step |
| `ConfigWrite_proofs` | theorems about it, the refinement among them |
| `ObserverLoop` | `run_all_loop` and the pass it runs for one plugin, with Codex, the network and the supervisor |
| `ObserverLoop_proofs` | theorems about it |
| `HookTrust` | one trust pass: status, fetch, comparison with the release, content hash, records; with Codex and the operator |
| `HookTrust_proofs` | theorems about it |
| `ObserverHealth` | the status records observers write and the provisioning run that reads them |
| `StopGate` | one decision of the supervisor completion gate, over the Stops of a session |
| `StopGate_proofs` | theorems about it |
| `ObserverLatency` | the timing of `run_all_loop`, with a clock |
| `SettleLoop` | composes `ObserverLatency` with `run_loop`, the observer of a single plugin, with a clock |
| `ObserverTiming_proofs` | theorems about `ObserverHealth` and about both loops' timing |
| `ShellText` | scans of raw text: segments, here-documents, comments |
| `ShellWords` | the words of a segment: wrappers, and the git rules |
| `TmuxHazard` | does a command reach the fleet's tmux server? |
| `MemoryWrites` | does a call write agent memory, and is it refused? |
| `LedgerHooks` | raw `bd create`, shadow ledgers, background memory |
| `WriteTargets` | which files does a segment write? |
| `TrustRecords` | the trust records in the text of `config.toml`, line by line |
| `FootgunGuard` | one call of the footgun guard, step by step, with git and Codex |
| `HookInputs` | composes the modules from `ShellText` on: every input of a bounded length |
| `HookTexts_proofs` | lemmas about texts of any length: segments, here-documents, wrappers, targets |
| `HookInputs_proofs` | theorems about `FootgunGuard`, and about the judgements of inputs of any length |
| `MCHookCache`, `MCConfigWrite`, `MCObserverLoop`, `MCHookTrust`, `MCObserverHealth`, `MCStopGate`, `MCHookInputs` | instances for TLC |

### HookCache

`entry` maps slots to directory entries. A slot is a version name, numbered in
the order of `version_sort_key`, or `latest` (0). `record` is the state file.
One action per file-system access of `reconcile()`: `List` (`real_versions`),
`Validate`, `ReadDeclarations`, `ReadScripts` (the registrations are read three
times, and each time the payload may differ), `LoadState`, `CheckSlots`
(`alias_status`), `SaveState`, `Link` (one slot at a time, `latest` first),
`Report`. `Kill` may fall anywhere; it also stands for the `OSError` of a rename
onto a directory, which nothing catches. Checking all slots is one action: each
check reads one slot and any change by Codex in between has the same effect as
one before or after the whole, except that a refusal may then rest on an older
reading. Payload bytes are `partial`, `inline` (complete, names no versioned
path) or `scripts`.

Codex may install, complete, spoil, remove or wipe, at any instant. `quiet` is a
history variable: nobody else has changed the cache or the record since the
process's last pass began. `LoadState` may fail: a record that cannot be read, is not
JSON or is not a list counts as empty and the pass goes on
(`_codex_hook_cache_aliases.py:37-42`), so that its save drops every version it has
not listed. `unread[p]` says that p's copy of the record is not what is on disk,
because the read failed or because another pass has saved since; `forgotten` are the
versions such passes have dropped, `overlapped` that two passes have been under way
at once.

The branch of `reconcile()` that takes `config_path` and `release_payload`
(lines 157-171) is not modelled: no caller in the repository passes them outside
tests.

### ConfigWrite

`file` holds one setting per plugin (its trust records), Codex's part as a
version number, and whether the text is whole. A call takes the lock or gives up
after a deadline (`LockTimeout`: an attempt that finds the lock taken), reads,
rewrites (refuses a format it does not know, or finds nothing to change), stages
a temporary file and renames it. `Fail` is an `OSError` at any of these, `Kill`
is the end of the process; both close the descriptor, which is what frees the
lock. `landed` and `exposed` are history variables. A setting's new value depends
on the text only through that setting, as in `_with_trust_records`.

Codex's own edit is one step that leaves the Driver's settings alone. An edit
computed by Codex from an earlier read is Codex's to get right and outside the
model.

### ObserverLoop

A plugin's signature covers its payload files and the mtime of `config.toml`. The
loop only compares stored signatures with the current one, and mtimes in
nanoseconds do not come back, so `seen[p]` and `settled[p]` are Booleans: the
stored signature is the current one. A change of the payload makes them false for
one plugin, a change of `config.toml` for all.

`Sweep` discovers the covered plugins, then each is visited in order: `Notice`,
`Skip` or `Begin`. A pass is `Paths` (what `HookCache` models in detail),
`TrustStatus`, `FetchRelease`, `WriteTrust` (verification, hash and what
`ConfigWrite` models), `Refresh`. Codex may change payload, records or record
format between any two; `change` remembers what it changed of the plugin since the
pass last read it, because the pass goes on with the version directory it found.
`Raises` are plugins whose reconcile raises an exception nothing catches, such as
a state directory that cannot be written (`save_state`). `Crash` and `Restart`
lose the loop's memory but not the status record. The heartbeat rewrites the same
report, so `Skip` has no effect on `status`. Time is abstract: `RetryElapses`
says that a retry time has come.

### HookTrust

What `ObserverLoop` takes as the steps `TrustStatus`, `FetchRelease` and
`WriteTrust`, reading by reading. `payload` is a plugin's installed payload in
three parts: its hook declarations (per hook none, the release's, changed, or
unusable), the code beside the entry points, and the rest of the tree, which no
comparison covers but the content hash does. The comparison is the code's, with its
two gaps: a registration file that is there but registers nothing yields no label and
so no problem (`"emptied"`, `codex_hook_release.py:119-122`), and helpers are looked
for among the installed files only, so that one that was deleted is not missed
(`"lacking"`, `:173-188`). `config` has one table per hook:
whether the operator switched it on or off, and the two hashes. A hash is what was
hashed; `Feed` reads the three parts at three instants. `CompareFiles` looks the
declarations up once more, as `_entrypoint_problems` does, and so compares what is
declared by then; `NameUnverified` reads them a third time for the report, and
finds no problem when nothing is declared any more. The module allows any number
of passes at once (observer and provisioner), and the proofs cover them; the run
has one pass and an environment that changes everything around it. The write is two steps: `ReadConfig` takes the lock and reads the configuration,
`ReplaceConfig` renames the new text over whatever the file holds by then, and Codex
and the operator, who take no lock, may edit it in between. `text` is what was read.
Field `by` of a table is history: who wrote its hashes last.

A release that cannot be fetched, for whatever reason, is one outcome of
`FetchRelease`; `ObserverLatency` has its attempts and its budget. Records are
tables here; `TrustRecords` has the lines.

### ObserverHealth

`record[p]` is plugin `p`'s status record, which every observer of the plugin
writes. A reconcile is a look (`ObserverLook`) and, later, a stamp
(`ObserverStamp`); between reconciles `WriteHeartbeat` repeats the last report with a
new beat. `ManualStart` and `ManualLook` are `run_loop`, the single-plugin
observer, which reconciles paths and knows nothing of trust. A dead observer's
record stays, its pid may go to another program (`Reuse`), and the supervisor
restarts its own. The provisioning run is `Begin` (the script's check of the
supervisor, the pid it passes on where `ExpectPid`, and the discovery of plugins),
`ReconcileLook` and `ReconcileStamp` per plugin, `Recheck` (the second discovery),
`Verdict` or `Raise`, and `End`. `sound` abstracts what a reconcile finds out or
restores. Each stamp takes a time of its own: times are floats, and two equal
ones do not occur. A clock that steps back, and records without a usable time, are
left out.

### StopGate

A decision reads, in this order, the payload, the transcript, the project, the
marker's path, whether the marker exists, the marker, and then the process or the
two registry files its producer names; `pc` is how far it has come. Everything
read may change between any two readings. An exception is an `Answer(FALSE)` at the
place where it occurs, for `main` turns every exception into a block. A marker is
reduced to what the rules tell apart: active, inactive, missing or garbled; its
time; its account of obligations and disposition; the kind of its producer.
`stop_hook_active` is `reentry`: Codex sets it on a Stop that follows a block, and
this gate is the only Stop hook of the repository that blocks (the other two
warn). `quiet`, `settled` and `vouched` are history variables of the
decision in progress.

### ObserverLatency

The loop of `ObserverLoop` without payloads, crashes and races inside a pass, but
with time: `Sleep` takes a poll, `TimePasses` what an attempt to clone, or a wait for
the lock of `config.toml`, takes, and everything else none. `Wait` is
`CONFIG_LOCK_WAIT_SECONDS` and one lock poll, for the deadline is looked at after each
attempt: a pass whose payload is the release's waits for up to that (`AwaitLock`)
before it writes or reports. A fetch tries the two spellings of the tag one after the
other (`BeginFetch`, `NextTag`) within one budget; `EndFetch` may follow either, and
writes trust only after `AwaitLock`. `age` is the time since Codex last withdrew trust
while some loss is neither repaired nor reported, `quiet[p]` the time since then and since
`p`'s record was written. Both count from Codex's last write because a
configuration that keeps changing keeps every signature from being seen twice, and
with it every pass and every heartbeat. Crashes are left out: a restart begins
again with nothing seen.

### SettleLoop

`mode` is the loop `main` starts. `run_loop` goes through `pc`: `Unchanged` or
`Changed` at the head of an iteration, then, in `await_complete_payload`,
`Snapshot`, `Validate` and `GiveUp`, then `Reconcile` (what `HookCache` models in
detail) and, in either loop, `Pause` for the two sleeps. `mark` is the signature
`fingerprint` takes, which covers a version directory's time and no file below it;
`whole` says whether the newest payload would validate. `CodexWrites` changes both,
or the payload alone, at any instant. `waited` and `silent` are times; `deep` is a
history variable: Codex has changed the payload below its directory since the loop
last read it. `EndsPass` keeps the signature taken before the wait as the baseline,
which is what lets the next iteration see what was written during it. An empty
cache is one that is not whole. What a failed reconcile has besides an incomplete
payload (a refused slot, a raised `OSError`) is in `HookCache` and `ObserverLoop`.

### The guards' judgements

`HookInputs` has one family of inputs per judgement. An input grows by one piece
per step, so that each input up to the family's bound is a state, and the
invariants compare the judgement with what the input was built from.

- `ShellText`. A text is a sequence of characters by kind; the scan
  (`_split_on_operators`, `_strip_jsonc_comments`) is a function that says what the
  code knows before each character. The reference is the list of pieces: what
  separates is separator, what is quoted or escaped is not. Here-documents are
  lines; `Named` is what the expression of `_split_heredoc_bodies` finds, which
  sees no quotes and only the first here-document of a line, and `Real` what the shell
  does. The pieces and lines include those on which the two differ; the property then
  says what the code makes of them, or that it says nothing (`CutWithin`,
  `KnowsQuotes`, `ToldApart`).
- `ShellWords`, `TmuxHazard`, `MemoryWrites`. Words come from the finite set that
  some rule tells apart. A command is a sequence of levels, the payload of a
  `sh -c` or an `eval` being the next. `FleetSockets` and `Places` are the outcome
  of path normalisation (a table from spelling to what it resolves to, links
  followed), and a program's text is what it names and does.
- `WriteTargets`. A segment is a command followed by operands and redirections, each
  with the files it really writes; those must be among the targets, unless the
  command is one of `UnreadEditors` or the redirection a `Clobber`, and only `tee`,
  `sed -i` and `>|` may have more.
- `TrustRecords`. A text is a sequence of lines: headers of tables, fields by what
  they set, blanks and comments. The rewritten text is compared with the old one by
  what each table says, by whether it is still there, by whether every hook is
  trusted and switched on or off as before, and by being read and left alone by the
  next pass.
- `LedgerHooks`. `IsRawBdCreate` keeps quotes and line breaks, because the choice
  between lexing by line and as a whole is what the code is about; `ShellRunsCreate` is
  what the shell runs, a `bd` at the head of a command whose subcommand is `create`.
  Transcript entries have an author and kinds of blocks; check boxes are a count.
- `FootgunGuard` is the process: `Segment`, `ProbePrimary`, `ProbeRoot`,
  `CheckIgnore`, `JudgeGit`. Each probe may go unanswered; `GiveUpTargets` is the
  `OSError` or `ValueError` that ends a segment's targets (a path that cannot be
  resolved, an answer that cannot be decoded, a `check-ignore` that cannot start); a
  `check-ignore` that times out ends the whole decision (`Escape`); `Killed` is Codex's
  timeout. A segment may begin with an assignment (`assigns`), whose `value` the guard
  may `read` as it is, as something else, or not at all (`_literal_assignments`), and
  which `lasts` or, in front of a command, does not. `known` is what the guard has
  read. `Means` is what a target stands for in the shell and `Follows` whether the
  guard's last reading is still that. The fields of a segment are what the modules
  above make of its text. `unanswered` and `raised` are history variables.

## Runs

| run | bounds | shows |
|---|---|---|
| `cache_pair` | 2 processes, 2 versions, 3 Codex writes, symmetric processes | `OneHopInSequence`, `BackfillRecorded`, `RecordKept`, `CleanPassReportsTruth`, `UnmanagedPreserved`, `Idempotent` through every race and every kill |
| `cache_pair_topology` | 2 processes, 2 versions, 2 writes | violated: overlapping passes leave `latest` and a version pointing at each other |
| `config_write` | 2 writers, 2 settings, 2 values, 2 Codex edits, the second unrecognised, fair | the safety properties, `RefinesAtomicConfig`, `EveryCallReturns` |
| `observer_live` | 2 plugins, 3 external changes, 1 crash, fair | `StatusTrue`, `NoticedUnlessRaced`, `RetryRepairs`, `ComesToRest` |
| `observer_raises_first` | the first raises, nothing changes | violated: the other plugin is never reconciled |
| `observer_absorbs` | 2 plugins, 1 change | violated: `TrustedOrReported` |
| `trust_pass` | 1 pass after another, 2 symmetric hooks, 1 table of another plugin, 2 outside changes, also within the write | `EstablishedFromRelease`, `VerifiedBeforeWrite`, `ReportTrue`, `OperatorChoicesKept` |
| `health_expected` | 1 plugin, 2 pids, one of them a manual observer's, 4 stamps or ticks, stale after 2, 2 changes, pid passed on | `VerdictOfThisRun`, `RaisesOnlyOnNewcomers` |
| `stop_gate` | stale after 0, 1 ahead, 1 tick, 3 changes | `UndisturbedDecision`, `AllowedOnEvidence`, `BlockedOnce` |
| `observer_stated_latency` | 1 plugin, poll 1, fetch up to 3, lock wait up to 1, 1 loss | violated: `StatedLatency` |
| `observer_timing` | 2 plugins, poll 2, fetch up to 5, lock wait up to 3, heartbeat 5, retry 50, 2 losses; a settle wait of 5 and 5 writes for the single-plugin observer | `RepairedInTime`, `HeartbeatInTime`, `ReportOfPresent`, `SilenceBounded` |
| `hook_inputs` | texts of 4 pieces, here-documents of 5 lines, 3 wrappers, 5 nestings, 6 words around a create, 4 transcript entries, 3 directories, 4 operands or redirections, 4 pieces of `config.toml`, 3 segments | the ten properties of the guards, and `RecordsRewritten` |

Why the bounds are enough. The topology properties relate `latest`, the version it
named and the version it is to name: two versions, and a third only repeats the
second, for aliases meet in `latest` alone; a pair of passes contains every sequence of
single ones. Every race found needs at most two Codex writes; one more is allowed in
`cache_pair`. In `ConfigWrite` a lost update takes two writers and two settings,
a rollback one edit before and one after the lock. In `ObserverLoop` one change
inside a pass, one in another plugin's pass and one outage are three; a third
plugin adds nothing the second does not, since plugins meet only in the shared
mtime and in the order of the sweep. In `HookTrust` the races need one change
between two readings of one pass; two let a first change be undone; and two hooks
let one be obsolete while the other's record is stale. A second pass at the same
time is left to the proofs, which hold for any number: each writes under the lock
what it has verified itself. In
`ObserverHealth` a verdict turns on one look and one stamp of each side, a
heartbeat and its staleness: four instants, and two changes to kill an observer
and reuse its pid, or to break a plugin under an observer. `StopGate` with a limit
of 0 and 1 ahead has a fresh time, a stale one, one just admissible and one too far
ahead; three changes can, for instance, withdraw a marker, start its producer and
let the transcript say otherwise within one decision, or set up a marker and a
producer before it and change one of them within. `observer_timing` needs a second plugin
whose fetch and lock wait delay the first, a second loss during a sweep, and a poll of
more than one unit; both bounds are attained, so no smaller one would pass. For the
single-plugin observer a wait of 5 holds three pairs of snapshots, and five writes keep it from ever settling, with one
left for what comes after. In `hook_inputs` the scans remember one
character or the quote they are in, so that a piece, its neighbours and one more
tell any two readings apart (an escaped quote is lost for good, so nothing after it can
tell more); five lines hold a mention, a line of two here-documents, the body of one
and a later reader; five nestings exceed both depth limits (4 and 3); six
words hold a quoted and an unquoted line break around `bd` and `create`; four pieces
of `config.toml` put a record between two tables and a stray line, or an obsolete
record between two stale ones; and three
segments let one failed probe be followed by a write to the same folder, and a
variable be set, set again to what cannot be read, and used.

Types are proved for each proof module and checked in no run. The safety
properties of passing runs are also proved for every bound. Deadlock is checked in every run but `health_expected` and
`hook_inputs`. In the first the clock is bounded, and a host on which no plugin is
installed and the supervisor's observer has died while its last pid is another
program's has, with all bounds spent, nothing left to do; in the second an input
that has reached its bound, and a guard that has answered, are the end.

Fairness. `ConfigWrite`: weak fairness of each writer's own steps; a call under
way is a running process, and the lock attempt is repeated every 50 ms, so that
the time-out is not a step the scheduler could withhold. Nobody has to call, fail,
die or edit. `ObserverLoop`: weak fairness of the loop (one sequential process),
of time passing until a retry, and of the supervisor's restart (`Restart=always`).
Codex, the network and crashes are not fair and bounded, so that "once Codex
stops" needs no premise.

## Findings

1. Two reconcilers can leave `latest -> 2 -> latest` (`cache_pair_topology`). With 1
   and 2 installed, one pass lists and saves both; Codex removes 2; the other pass
   lists 1 and links `latest` to it; the first links `latest` to 2, its newest; the
   second links 2, which is recorded and gone, to `latest`. Trust writes are
   serialised, passes over the cache are not. `OneHopInSequence` shows that nothing but
   an overlap breaks the topology. A later pass
   repairs the loop; the observer's signature does not include aliases, so it does
   not notice one by itself.
2. The signature stored as settled is taken after the pass, so a change between
   the pass's reads and that line is never reconciled (`observer_absorbs`).
   `NoticedUnlessRaced` shows that this is the only way a change is missed.
3. An exception from one plugin's reconcile ends the sweep, and after the restart
   the next one (`observer_raises_first`).
4. Trust may take longer to be restored or reported than
   `trust_reconcile_latency_seconds` says (`observer_stated_latency`): its 2 polls and
   K fetches leave out the wait for the lock of `config.toml`, and, with several
   plugins, the polls their writes cost each other.

Other limits show as the premises without which a checked property fails.

- `RecordKept` excepts a pass that could not read the record, for which every version
  is a new one, and a pass that another has overtaken between its load and its save,
  for the record is read, extended and replaced without a lock. `BackfillRecorded`
  therefore speaks of versions a pass has dropped, and `Idempotent` of passes that
  have read the record.
- `VerifiedBeforeWrite` speaks of an undisturbed pass: the content hash that goes
  into a trust record is of bytes read again after the comparison with the
  release. `EstablishedFromRelease` needs no such premise, because the
  declarations are not read again. Even undisturbed, a pass records a payload whose
  registration file was emptied of hooks or that lacks a helper of the release.
- `OperatorChoicesKept` excepts what is changed between the reading under the lock and
  the rename, the window `codex_config_write.py:9-10` and
  `SPECIFICATION/contracts.md:516-518` grant, and the table of a hook whose
  registration file was emptied: it is dropped as obsolete, the operator's choice with
  it, when another hook's record is written.
- `VerdictOfThisRun` excepts a look from before the run that is stamped during it:
  results are ordered by when they were stamped, not by when they were read.
- `RaisesOnlyOnNewcomers` says when `provision_all` ends in a `KeyError`, the
  plugins after it unreported: when a plugin becomes covered during the run.
- `VerdictOfThisRun` also needs the expected pid. On Linux the script passes none
  (`ensure-codex-plugins.sh:53`), and the record of any live process answers for the
  supervisor's, against `SPECIFICATION/contracts.md:544-546`.
- `LatencyBound` is (K + 1) polls, K fetches and K waits for the lock.
  `trust_reconcile_latency_seconds` says 2 polls and K fetches: of several plugins, each
  trust write changes the next one's signature after it was seen and costs it a poll,
  and each pass may wait for the lock after its fetch (finding 4).
- `SilenceBound` is a heartbeat interval and a wait, each to the next poll; with the
  code's numbers that is above two minutes, while a record counts as stale after
  60 s. An observer that waits for a payload Codex is still writing therefore counts
  as unhealthy, and `ensure`, which gives a new one 10 s, stops it and starts
  another.
- `ReportOfPresent` excepts changes below a version directory. `run_loop` says that it
  reconciles "each completed payload change" (`codex_hook_cache_observe.py:115`), but
  its signature shows none of those, so a payload completed below its directory
  after the wait stays reported as incomplete until something else changes; and two
  equal snapshots do not say that nothing was written below in between.
- `QuietBound` with the code's numbers and two plugins is 87 s, while a heartbeat
  counts as stale after 60 s: a sweep that fetches two releases slowly makes
  the records of healthy plugins count as stale.
- `PrimaryRefused` excepts the writes whose own probe was not answered, and the
  segments cut short. `is_allowed_primary_runtime_state` says that "any probe
  uncertainty denies the exception, leaving the caller's primary checkout refusal
  in force" (`_footgun_primary_checkout.py:141-148`); a `check-ignore` that cannot
  start, or times out, raises instead and gives up the refusal (`:164`). A git that
  exits with an error, for whatever reason, counts as a definitive no.
- `PrimaryRefused` and `RefusalsJustified` except targets named by a variable the guard
  has lost. `_literal_assignments` notes only literal absolute values and leaves the
  older value standing past any other assignment (`livespec_footgun_guard.py:97-103`):
  after `X=/tmp/f; X=rel` a write to `$X` is judged as one to `/tmp/f`, passed though
  it is to the primary checkout, or refused though it is not. The same happens where a
  value holds an expansion, where an assignment is for one command only
  (`X=/tmp/f cmd > $X`), and where the command does not set the variable at all.
- `SegmentsAsShell`. `_split_on_operators` says that "a separator inside quotes is never
  a separator" (`_footgun_shell.py:122-125`). It takes a double quote that is escaped
  within double quotes for the end of them, and from there on separators for quoted text
  and quoted text for separators: of `echo "\""; tmux kill-server` the second command
  is no segment. The `&` of `>&` and `&>` is cut at although the shell sees none, so
  that a duplication `>&2` reaches `redirect_targets` only from callers that do not cut.
  Outside the pieces of `CommandPieces` there is more: an escaped backslash at the end
  of a line joins it with the next; `<<<` and the shift operator are taken for
  here-documents.
- `OwnBodiesOnly`. `_own_bodies` says that "both ways a body can be mis-attributed are
  closed at once" (`_memory_shell_writes.py:246-255`). They are not where a mention in
  quotes has the terminator of a later here-document, whose body it then precedes, nor
  where two here-documents stand in one line, for the scan finds only the first
  (`ToldApart`).
- `MemoryJudged`. `SPECIFICATION/contracts.md:203,231-232` limits the refusal to
  `~/.claude/projects/<slug>/memory/*.md` and the Codex store; `_names_memory` takes any
  `.md` in a directory called `memory` for memory (`_memory_shell_writes.py:121`). The
  programs given to an interpreter are judged by their text, and likewise by more than
  the writes in it.
- `RawCreateJudged`. Besides commands that run `bd create`, the hook refuses those that
  mention it as words of one command (`echo bd create`) and those with both quoted and
  unquoted line breaks, which its header (`block_raw_bd_create.py:38-44`) calls the
  costlier error. `_command_lines` calls the whole-command fallback "the only case where
  the newline-fusing this split exists to prevent cannot occur anyway" (`:126-129`); with
  both kinds of break it does occur. Quoted control punctuation in front of `create`
  hides a command that runs it.
- `TargetsSeen`. Of `>| file` the target found is `|`, though `_split_on_operators` keeps
  `>|` and its target in one segment so that a consumer sees the written file
  (`_footgun_shell.py:128-132`). `cmd>file` is not seen to redirect, `sed -Ei` not to
  edit in place, and a wrapper or an assignment in front of `tee`, `sed` or `dd` hides
  what they write. `tee` and `sed -i` take more words for files than they write, and so
  a word like the script of `sed` is looked up in the working directory, which may be
  a primary checkout; the comment at
  `tests/hooks/test_footgun_primary_checkout.py:64-66` says that such a word never
  resolves to one.
- `RecordsRewritten` is about what tables say: comments and blanks inside a replaced
  record are lost. A header of a hook's record in another spelling (spaces, single
  quotes, a dotted key under `[hooks]`) is not recognised as one, and a second table is
  appended; a line of a multi-line array that begins with `[` ends a table.
- `marketplace_source` notes only the headers of marketplaces, so a `source` in a
  table that follows the marketplace's, of whatever kind, replaces the marketplace's
  own (`_codex_hook_release_source.py:60-75`).
- `version_sort_key` breaks ties by name: a prerelease (`1.0.0-rc1`) sorts after its
  release, and `latest` points at it when both are installed.
- `mise exec -- exec cmd` loses the second `exec`, and flags of `mise` that take an
  argument hide the command. An `eval`, an unknown wrapper and a fourth nesting are
  not looked through by the memory guard, as its docstring says; `git -C dir apply`
  is judged in the working directory.

## Proofs

TLAPS checks every proof for all values of the constants, under the assumptions
the modules name (`NAssumption`, `MaxWritesAssumption`, `UnsetAssumption`,
`MaxEditsAssumption`, `KAssumption`, `RaisesAssumption`, `BoundsAssumption`,
`KeysDisjoint`, `MaxWritesIsNat`, `PidsAssumption`, `ExpectAssumption`,
`TimeAssumption`, `AgeAssumption`, `PathAssumption`, `SegmentAssumption`,
`NameAssumption`, `LatencyAssumption`, `SettleAssumption`).

`HookCache_proofs`.
- `TypeCorrect`, one step per action.
- `UnmanagedAlwaysPreserved`. `UnmanagedPreserved` does not follow from types: a
  link may replace a foreign path that appeared after the check only if Codex
  could create one, so the invariant `CheckedSlots` says that a slot a pass has
  checked is not foreign; a directory that appears is met by the rename's refusal.
- `OneHopWithoutOverlap`, for any number of processes as long as no two passes have
  overlapped; when they do it is false, as `cache_pair_topology` shows. The inductive
  invariant `InSequence` adds what the one pass in progress knows of the disk: the
  target of `latest` is a version it listed, and the slots still to link hold nothing
  that makes a loop meanwhile.
- `BackfillAlwaysRecorded` and `RecordAlwaysKept`, for any number of overlapping passes.
  `CopyComplete` says that a pass that has read the record, and has not been overtaken,
  still has all of it; `AliasesKnown` that what a pass is about to link is recorded or
  has been forgotten.
- `CleanPassAlwaysReportsTruth` and `ReconcileIdempotent`, for any number of
  processes. `QuietInv` says, of each process that has not been disturbed, how its
  snapshots relate to the present cache at each label of the pass.

`ConfigWrite_proofs`. `WriteInv` strengthens the properties with: one lock holder
at most, a holder's snapshot of the Driver's settings is the file's, its snapshot
of Codex's part is the file's or Codex has edited since the lock, the staged file
is whole and differs from the snapshot. From it follow `DriverUpdatesKept`,
`FileAlwaysWhole`, `LockDiscipline`, `RollbackOnlyInWindow`, and with
`StepRefines` the refinement `ImplementsAtomicConfig`: the rename is
`DriverWrite`, Codex's edit is `CodexEdit`, everything else stutters.

`ObserverLoop_proofs`. `StatusAlwaysTrue` from `StatusInv`: a pass about to report
success with nothing changed under it has a trusted plugin, and a change under it
has already marked the last report as outdated.

`HookTrust_proofs`. `DeclarationsFromRelease` rests on `RecordsFromRelease`, which says of
the configuration and of the text a write has read that the Driver's tables carry the
release's declarations, and on `PairsFromRelease`: from the comparison on, the hooks
a pass will record carry the release's declarations or are none (`"emptied"` among
these), whatever the payload says by then. `UndisturbedPassVerifies` adds
`Verified`: of a pass nobody has disturbed, what it has established of the payload
is still so, and the parts of the hash read so far are the payload's. `ReportsAreTrue` adds
`ReportInv`: before the fetch such a pass holds what the host has (declarations,
tables, parts of the hash), and beyond it the reason it has come that far is still
there: Codex does not trust the payload, or it cannot be hashed. That is why a pass
that ends well without a write, or writes no hook at all, is never one that had
something to record. `ChoicesKept` is one step per action; only `ReplaceConfig`
writes, and it knows of a table that is as it was read what it makes of it.

`ObserverTiming_proofs`, of what a provisioning run reports.
`VerdictsAreOfTheRun` assumes `ExpectPid`. Its invariant
`RunInv` follows a result on its way from the look to the verdict: a task under way
(`Tasked`) and the run's own report (`Reported`) carry an outcome that was so during
the run; a record on disk (`Recorded`) or in an observer's memory (`Remembered`)
does too, or is older than the run's report of the plugin; `Supervisor` keeps
hand-started observers apart from the expected pid. `OnlyNewcomersRaise` rests on
`Known`: a plugin that is covered by now has a report, is about to have one, or is
new.

`StopGate_proofs`. `Settled` says what a decision has established at each label
that no change takes back, `Still` what holds as long as nothing has changed. A
step from label to label is then one lemma (`ProceedKeeps`) and an answer another
(`AnswerEnds`); `DecidesByContract`, `OnlyOnEvidence` and `NeverTrapped` look at
the answering step only.

`HookInputs_proofs`, of the guard. `PrimaryAlwaysRefused` and `RefusalsAlwaysJustified`, for
commands of any length, files, folders and variables. The invariant has four parts
beside the types: `KnownHolds` (what the guard knows of a variable is the last value it
has read, so that it takes a target for `Taken`, which is what the target means where the
guard follows it: `TakenIsMeant`), `CacheRight` (a remembered answer is right for its folder), `Judged`
(the answer for the target in hand is right, or is a no that was not answered) and
`Handled` (every target before the one in hand is allowed, unanswered, or in a
segment cut short). `CacheRight` is what a failed probe must not disturb.
`HooksRunGuard` is a refinement: every step of `HookInputs` is a step of the guard or
leaves it alone, so that both properties hold of it as the hooks run it
(`HooksRefusePrimary`).

Of the guards' judgements, for inputs of any length, from the lemmas of `HookTexts_proofs`: `Bound` is an arbitrary
constant there. Each follows from the types of `HookInputs` alone, since the property
is about one input, and most by induction over the pieces the input is built from.
Inductions are stated with sets (`Induction`, `InductionUpTo`, `SequenceInduction`),
because the library's theorems take an operator; and a function that a definition
chooses recursively is shown to exist before it is unfolded (`ScanExists`,
`SkipsExist`, `StripsExist`, `HazardousIs`, `WrappedIs`, `FlagValuesAre`, `PickedIs`,
and `FlattenSeq` likewise).

- `AlwaysSegmentsAsShell`: the scan is plain again at the end of every piece but an
  escaped quote, so that up to the first of those it cuts each piece in a longer text as
  it does by itself (`ModeScans`). Joined lines are pieces of two blanks by then.
- `BodiesAlwaysOwn`: what a here-document holds depends on its terminator alone
  (`BodyIsUntil`), so the scan that sees no quotes and the shell read the same body; and
  among the bodies with one terminator the n-th belongs to the n-th segment that spells
  it, because a set of places that ends earlier is smaller (`AtItsPlace`) and, while
  lines can be told apart, those captured and those spelled are the same.
- `WrappersAlwaysTransparent`: a wrapper in front of something that runs is stripped
  and leaves it to be read on (`WrapperIsStripped`); the induction is over the wrappers.
  Whether lefthook is off depends on the words they have between them
  (`LefthookDisabled`).
- `TargetsAlwaysSeen`: no piece ends in a redirection that waits for its file, so what a
  segment opens is the union of what its pieces open (`OpensConcat`), and its words
  are theirs.
- `RawCreateAlwaysJudged`: the hook and the shell differ in where they cut: a quoted line
  break where another is not, which only mixed breaks allow, or quoted punctuation.
- `ShadowLedgerAlwaysWarned`: an entry is in this turn exactly when nobody has typed
  from it on (`FromHas`), and of the entries one is typed and one block lists tasks.
- `FleetKillAlwaysDenied`: the induction is over the wrappings of a command, for every
  depth at once, because a wrapper that opens another shell moves the command it wraps
  one level down. `Judgable` says of a command that at every depth it is judged fatal
  or too deep exactly as it should be; the cores are judged one by one, a wrapper that
  nests adds one level and every other leaves the judgement as it was. So a kill of
  the fleet's server is denied however it is wrapped, and what nests too deep is.
- `RecordsAlwaysRewritten`: the induction is over the lines of `config.toml`, though
  what a line means depends on the header above it. `Kept` says that one list of lines
  says what another does but for some dropped tables, of which some are back.
  Dropping the superseded lines and the trailing blanks keeps that, and so does adding
  a record's header and each of its fields; `Restored` adds that
  the hooks are then trusted and switched on or off as before. That nothing is left to
  do for the next rewriting follows because none of the records is stale (`NoneStale`).
- `MemoryAlwaysJudged`: of commands, by induction over the wrappings, as for tmux.
  `MemoryHolds` says that a command is found to write the memory at every depth exactly
  when it does and its nesting can still be followed. The cores are judged one form at a
  time (`ReaderJudged`, `WriterJudged`, `InterpreterJudged`, `UnreadableJudged`) from the
  words that are left of a segment without its redirections (`CommandWordsAre`, `PickedConcat`)
  and the operands among them. Of directories: the search up the tree ends at the
  nearest configuration (`NearestIs`), so the hooks agree on where they apply
  (`GovernedIs`, `HooksAlwaysAgree`). Of comments: the scan that strips them and the
  grammar are in step at the end of every piece (`PieceRead`), so what is
  left of a text is what is left of its pieces (`UncommentedConcat`).

`ObserverTiming_proofs`, of the time the loop over all plugins takes. `RepairsInTime` and
`HeartbeatsInTime`, for any number of plugins, losses, polls and budgets. They assume
`LatencyAssumption`, of which `Retry >= LatencyBound` is the one condition the code's
numbers meet only up to a size: 300 s are enough for seven plugins. The argument
measures how long a plugin may still have to wait: `Remaining` is a poll for each
sweep it waits for (`Behind`), a poll, a fetch and a wait for the lock for each other
plugin that may still fetch before it (`Chances`), and what is left of the pass under
way (`TimeLeft`). Every
step that takes time shrinks it by that time, and no visit to another plugin makes
it grow: a fetch that ends with a write of trust costs everyone a sweep, but was one
of their chances (`EndRemaining`). That needs `Order`: in the order of the visits the
unseen plugins come before the seen, the noticed ones are side by side, and a
fetch begins only once all are seen. `NotDue` excludes the one thing that could break that
order, a failed pass that falls due again while others still wait. `LostInTime` and
`QuietInTime` then bound the age of a loss and of a record together with what
remains. An earlier `QuietBound`, one poll shorter, passed with a poll of one unit;
the proof did not go through, and a poll of two units showed it wrong.

Of the loop over one plugin. `ReportsPresent` and `SilenceIsBounded`, for every poll, wait,
heartbeat interval and number of writes, whichever loop runs. The invariant
`SettleInv` adds `Waiting` (as long as the signature is the one the wait began with,
it was read once and at every later poll found the same and the payload incomplete,
so that giving up tells the truth) and `Silence` (how long the record has been
silent at each label, given the time waited).

Only model-checked: liveness
(`EveryCallReturns`, `NoticedUnlessRaced`, `RetryRepairs`, `ComesToRest`), because
TLAPS has no proof rules for fairness and `ENABLED`.

## Not modelled

Named in `PROJECT.json` with reasons. In short: parsing of TOML, JSON and
manifests, and `shlex` itself; `ensure`, `stop` and
`spawn`; which lines name a marketplace's source, and the catalog; the order of
prerelease versions; durability of a rename against a power failure.

## Plan

1. `ensure`, `stop` and `spawn` around `SettleLoop`: two ensures at once, a pid read
   from a record that belongs to another program by the time it is signalled, and an
   observer that is stopped because it waits.
2. The composition of `ObserverLatency` with `ObserverHealth`: a slow sweep and the age of a record.
3. The composition of `HookTrust` with `ConfigWrite` (the pass's write as a call of
   the writer), and an abstract specification of trust that `HookTrust` implements.
4. Pure parts: `VersionOrder`, and the readers of marketplaces and catalogs.
5. Theorems: the main safety property of 1 to 3; path continuity of `HookCache`
   composed with `ObserverLoop`.
