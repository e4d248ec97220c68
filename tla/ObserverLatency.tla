---------------------------- MODULE ObserverLatency ----------------------------
(***************************************************************************)
(* How long run_all_loop (codex_hook_cache_observe.py) takes to restore or *)
(* report lost trust, and for how long it leaves a status record without a *)
(* heartbeat. Time goes by while it sleeps, while a release is fetched and *)
(* while the trust write waits for the lock of config.toml, which happens  *)
(* for one plugin after the other; it is counted in units.                 *)
(* Signatures are Booleans as in ObserverLoop: what this module adds is    *)
(* the clock, and it leaves out payloads, crashes and the races inside a   *)
(* pass, which are ObserverLoop's.                                         *)
(***************************************************************************)
EXTENDS Naturals

CONSTANTS
    K,          \* number of plugins
    Poll,       \* POLL_SECONDS
    Fetch,      \* RELEASE_FETCH_BUDGET_SECONDS
    Wait,       \* CONFIG_LOCK_WAIT_SECONDS and one _LOCK_POLL_SECONDS
    Retry,      \* RETRY_AFTER_FAILURE_SECONDS
    Heartbeat,  \* HEARTBEAT_SECONDS
    MaxLosses   \* bound on the times Codex withdraws trust

\* The plugins the loop visits.
Watched == 1..K

\* The time a pass may take that looks for trust.
PassTime == Fetch + Wait

\* Each plugin may have its trust written before the next is looked at, which
\* changes the signature of that one and costs it a poll.
LatencyBound == (K + 1) * Poll + K * PassTime
QuietBound == Heartbeat + K * Poll + K * PassTime

ASSUME LatencyAssumption ==
    /\ K \in Nat \ {0} /\ Poll \in Nat \ {0} /\ Fetch \in Nat /\ Wait \in Nat
    /\ Heartbeat \in Nat /\ Heartbeat > Poll
    /\ MaxLosses \in Nat
    /\ Retry \in Nat /\ Retry >= LatencyBound

VARIABLES
    unvisited,  \* the plugins the current sweep has still to visit
    now,        \* the plugin whose release is being fetched, or 0
    stage,      \* 1, 2: its tag is being cloned by that spelling;
                \* 3: its trust write waits for the lock of config.toml
    left,       \* time that clone, or that wait, will still take
    budget,     \* time left of its RELEASE_FETCH_BUDGET_SECONDS, or of Wait
    trusted,
    seen,       \* the plugin's signature is the one stored in seen
    settled,    \* the plugin's signature is the one stored in settled
    errors,     \* the plugin's last pass reported a problem
    retryIn,    \* time until it is retried
    lost,       \* plugins whose loss is neither repaired nor reported
    age,        \* history: time since Codex last withdrew trust, while some are
    quiet,      \* time since then and since the plugin's record was written
    losses

fetchVars == <<now, stage, left, budget>>
loopVars == <<trusted, seen, settled, errors>>
sweepVars == <<unvisited, fetchVars, loopVars, retryIn, lost, age, quiet, losses>>

SweepTypeOK ==
    /\ unvisited \subseteq Watched
    /\ now \in Watched \union {0} /\ stage \in 1..3
    /\ budget \in 0..(IF stage = 3 THEN Wait ELSE Fetch) /\ left \in 0..budget
    /\ trusted \subseteq Watched /\ seen \subseteq Watched
    /\ settled \subseteq Watched /\ errors \subseteq Watched
    /\ lost \subseteq Watched \ trusted
    /\ retryIn \in [Watched -> 0..Retry]
    /\ age \in Nat /\ quiet \in [Watched -> Nat]
    /\ losses \in 0..MaxLosses

Zero == [p \in Watched |-> 0]

\* The observer has come to rest.
SweepInit ==
    /\ unvisited = {} /\ now = 0 /\ stage = 1 /\ left = 0 /\ budget = Fetch
    /\ trusted = Watched /\ seen = Watched /\ settled = Watched
    /\ errors = {} /\ lost = {}
    /\ retryIn = Zero /\ age = 0 /\ quiet = Zero
    /\ losses = 0

-----------------------------------------------------------------------------
Elapse(units) ==
    /\ age' = IF lost = {} THEN 0 ELSE age + units
    /\ quiet' = [p \in Watched |-> quiet[p] + units]
    /\ retryIn' = [p \in Watched |-> IF retryIn[p] > units THEN retryIn[p] - units ELSE 0]

\* The sweep visits the plugins in order.
Turn(p) == now = 0 /\ p \in unvisited /\ \A q \in unvisited : p <= q

\* The signature is new, or a failed pass is due again.
Wanted(p) == p \notin settled \/ (p \in errors /\ retryIn[p] = 0)

\* A signature that has changed is left to the next sweep.
Notice(p) ==
    /\ Turn(p)
    /\ p \notin seen
    /\ seen' = seen \union {p}
    /\ unvisited' = unvisited \ {p}
    /\ UNCHANGED <<fetchVars, trusted, settled, errors, retryIn, lost, age, quiet, losses>>

\* Mutant of Skip: a plugin whose last pass failed gets no heartbeat.
SkipFailed(p) ==
    /\ Turn(p)
    /\ p \in seen
    /\ ~Wanted(p)
    /\ unvisited' = unvisited \ {p}
    /\ quiet' = IF quiet[p] >= Heartbeat /\ p \notin errors
                THEN [quiet EXCEPT ![p] = 0] ELSE quiet
    /\ UNCHANGED <<fetchVars, loopVars, retryIn, lost, age, losses>>

\* Nothing is wanted, and the heartbeat is written when it is due.
Skip(p) ==
    /\ Turn(p)
    /\ p \in seen
    /\ ~Wanted(p)
    /\ unvisited' = unvisited \ {p}
    /\ quiet' = IF quiet[p] >= Heartbeat THEN [quiet EXCEPT ![p] = 0] ELSE quiet
    /\ UNCHANGED <<fetchVars, loopVars, retryIn, lost, age, losses>>

\* A pass over a plugin that is trusted fetches nothing.
PassTrusted(p) ==
    /\ Turn(p)
    /\ p \in seen /\ Wanted(p) /\ p \in trusted
    /\ unvisited' = unvisited \ {p}
    /\ settled' = settled \union {p}
    /\ errors' = errors \ {p}
    /\ quiet' = [quiet EXCEPT ![p] = 0]
    /\ UNCHANGED <<fetchVars, trusted, seen, retryIn, lost, age, losses>>

\* The release is fetched: its tag is cloned by its first spelling.
BeginFetch(p) ==
    /\ Turn(p)
    /\ p \in seen /\ Wanted(p) /\ p \notin trusted
    /\ now' = p
    /\ stage' = 1
    /\ budget' = Fetch
    /\ left' \in 0..Fetch
    /\ UNCHANGED <<unvisited, loopVars, retryIn, lost, age, quiet, losses>>

\* The clone, or the wait, has taken its time.
TimePasses ==
    /\ left > 0
    /\ left' = 0
    /\ budget' = budget - left
    /\ Elapse(left)
    /\ UNCHANGED <<unvisited, now, stage, loopVars, lost, losses>>

\* Mutant of NextTag: the second spelling has a budget of its own.
NextTagAfresh ==
    /\ now # 0 /\ left = 0
    /\ stage = 1
    /\ stage' = 2
    /\ budget' = Fetch
    /\ left' \in 0..Fetch
    /\ UNCHANGED <<unvisited, now, loopVars, retryIn, lost, age, quiet, losses>>

\* The first spelling has failed or timed out: the second may take what it
\* left of the budget, and is not tried when that is nothing.
NextTag ==
    /\ now # 0 /\ left = 0
    /\ stage = 1 /\ budget > 0
    /\ stage' = 2
    /\ left' \in 0..budget
    /\ UNCHANGED <<unvisited, now, budget, loopVars, retryIn, lost, age, quiet, losses>>

\* A spelling was cloned, the payload is the release's, and its trust is to be
\* written: rewrite_config polls for the lock until its deadline.
AwaitLock ==
    /\ now # 0 /\ left = 0
    /\ stage \in {1, 2}
    /\ stage' = 3
    /\ budget' = Wait
    /\ left' \in 0..Wait
    /\ UNCHANGED <<unvisited, now, loopVars, retryIn, lost, age, quiet, losses>>

\* The pass ends with the plugin trusted or reported: trusted only if the lock
\* was taken, reported when the release could not be fetched, when the payload
\* is another or when the lock was not to be had.
EndPass(written) ==
    /\ now # 0 /\ left = 0
    /\ written => stage = 3
    /\ now' = 0
    /\ unvisited' = unvisited \ {now}
    /\ lost' = lost \ {now}
    /\ quiet' = [quiet EXCEPT ![now] = 0]
    /\ IF written
       THEN /\ trusted' = trusted \union {now}
            /\ errors' = errors \ {now}
            /\ UNCHANGED retryIn
       ELSE /\ errors' = errors \union {now}
            /\ retryIn' = [retryIn EXCEPT ![now] = Retry]
            /\ UNCHANGED trusted
    /\ stage' = 1 /\ budget' = Fetch
    /\ UNCHANGED <<left, age, losses>>

\* The signature is taken anew for this plugin; a trust record that was
\* written changes that of every other.
EndFetch ==
    \E written \in BOOLEAN :
        /\ EndPass(written)
        /\ seen' = IF written THEN {now} ELSE seen \union {now}
        /\ settled' = IF written THEN {now} ELSE settled \union {now}

\* The sweep is over: sleep, and begin another.
Sleep ==
    /\ unvisited = {} /\ now = 0
    /\ unvisited' = Watched
    /\ Elapse(Poll)
    /\ UNCHANGED <<fetchVars, loopVars, lost, losses>>

\* Codex withdraws the trust of some plugins in one write of config.toml.
Lose(plugins) ==
    /\ losses < MaxLosses
    /\ plugins # {} /\ plugins \subseteq trusted
    /\ trusted' = trusted \ plugins
    /\ lost' = lost \union plugins
    /\ losses' = losses + 1
    /\ seen' = {} /\ settled' = {}
    /\ age' = 0 /\ quiet' = Zero
    /\ UNCHANGED <<unvisited, fetchVars, errors, retryIn>>

SweepNext ==
    \/ \E p \in Watched : Notice(p) \/ Skip(p) \/ PassTrusted(p) \/ BeginFetch(p)
    \/ TimePasses \/ NextTag \/ AwaitLock
    \/ EndFetch
    \/ Sleep
    \/ \E plugins \in SUBSET Watched : Lose(plugins)

SweepSpec == SweepInit /\ [][SweepNext]_sweepVars

-----------------------------------------------------------------------------
\* Lost trust is restored or reported within the bound, counted from the
\* last time Codex withdrew any: no trust write, failing plugin or retry makes
\* another plugin wait for more than one poll, one fetch and one wait for the
\* lock each.
RepairedInTime == age <= LatencyBound

\* The same within the worst case the code states for it,
\* trust_reconcile_latency_seconds: two polls and a fetch for every plugin.
StatedLatency == age <= 2 * Poll + K * Fetch

\* While Codex leaves the configuration alone, no record is without a
\* heartbeat for as long as a heartbeat interval and, for every plugin, a fetch,
\* a wait for the lock and a poll: a write of trust for one has every other left
\* to the next sweep.
HeartbeatInTime == \A p \in Watched : quiet[p] < QuietBound
=============================================================================
