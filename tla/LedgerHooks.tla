------------------------------ MODULE LedgerHooks ------------------------------
(***************************************************************************)
(* The hooks that keep work in the ledger: a raw bd create is refused      *)
(* (block_raw_bd_create.py), and when a turn ends a warning names the      *)
(* planning artifacts that hold a task list (no_shadow_ledger.py) or the   *)
(* background memory that is not empty (codex_background_memory_audit.py). *)
(***************************************************************************)
EXTENDS MemoryWrites

(***************************************************************************)
(* bd create. A command is a sequence of words; "nl" ends a line, "'"      *)
(* opens or closes a quote, and "&&" holds shell control punctuation.      *)
(***************************************************************************)
CreateWords == {"bd", "create", "list", "-C", "env", "&&", "nl", "'"}
Control == {"&&"}

Count(words, word) == Cardinality({i \in DOMAIN words : words[i] = word})
Quoted(words, i) == Count(SubSeq(words, 1, i), "'") % 2 = 1

\* Every line can be lexed by itself: no line break is quoted.
LinesLex(words) ==
    /\ ~Quoted(words, Len(words))
    /\ \A i \in DOMAIN words : words[i] = "nl" => ~Quoted(words, i)

\* A bd whose arguments, up to the next of the positions stops, hold create.
RunsCreate(words, stops) ==
    \E i, j \in DOMAIN words :
        /\ i < j
        /\ Base(words[i]) = "bd" /\ ~Quoted(words, i)
        /\ words[j] = "create" /\ ~Quoted(words, j)
        /\ (i + 1..j - 1) \intersect stops = {}

\* Mutant of IsRawBdCreate: the command is lexed as a whole.
IsRawBdCreateInWhole(words) ==
    /\ ~Quoted(words, Len(words))
    /\ RunsCreate(words, {k \in DOMAIN words : words[k] \in Control})

\* Line by line, or the command as a whole when a quote spans lines; a word
\* that holds control punctuation ends the arguments even if it is quoted.
IsRawBdCreate(words) ==
    /\ ~Quoted(words, Len(words))
    /\ RunsCreate(words, {k \in DOMAIN words :
            \/ words[k] \in Control
            \/ words[k] = "nl" /\ LinesLex(words)})

\* What the shell makes of the same words. A command ends at a line break or
\* punctuation that is not quoted, and begins behind its wrappers.
ShellStops(words) ==
    {k \in DOMAIN words : words[k] \in Control \union {"nl"} /\ ~Quoted(words, k)}
BeginsCommand(words, i) ==
    \E b \in 0..i - 1 :
        /\ b = 0 \/ b \in ShellStops(words)
        /\ \A k \in b + 1..i - 1 : words[k] = "env"

\* The words between two positions are bd's own options: each second one that
\* begins is a -C, and the next, a word or a quoted string, its argument.
OptionsBetween(words, i, j) ==
    LET begins == {k \in i + 1..j - 1 : ~Quoted(words, k - 1)}
        rank == [k \in begins |-> Cardinality({l \in begins : l <= k})]
    IN /\ Cardinality(begins) % 2 = 0
       /\ \A k \in begins : rank[k] % 2 = 1 => words[k] = "-C"

\* One command holds bd and, behind it, create: the shell runs bd create if
\* bd is the command and create its subcommand, and otherwise they are only
\* mentioned.
Together(words, i, j) ==
    /\ i < j
    /\ words[i] = "bd" /\ ~Quoted(words, i)
    /\ words[j] = "create" /\ ~Quoted(words, j)
    /\ (i + 1..j - 1) \intersect ShellStops(words) = {}
ShellRunsCreate(words) ==
    \E i, j \in DOMAIN words :
        /\ Together(words, i, j)
        /\ BeginsCommand(words, i) /\ OptionsBetween(words, i, j)
MentionsCreate(words) ==
    \E i, j \in DOMAIN words :
        /\ Together(words, i, j)
        /\ ~(BeginsCommand(words, i) /\ OptionsBetween(words, i, j))

\* One line break is quoted and another is not.
MixesBreaks(words) ==
    LET breaks == {i \in DOMAIN words : words[i] = "nl"}
    IN \E i, j \in breaks : Quoted(words, i) # Quoted(words, j)

\* A command that is refused runs bd create, unless it mentions it or mixes
\* quoted and unquoted line breaks. Every command that runs bd create and that
\* the hook can lex is refused, unless it has quoted punctuation.
CreateJudged(words) ==
    LET lexes == ~Quoted(words, Len(words))
        quotedControl ==
            \E k \in DOMAIN words : words[k] \in Control /\ Quoted(words, k)
    IN /\ IsRawBdCreate(words) =>
              ShellRunsCreate(words) \/ MentionsCreate(words) \/ MixesBreaks(words)
       /\ ShellRunsCreate(words) /\ lexes /\ ~quotedControl => IsRawBdCreate(words)

\* The project is the one the environment names; there is no other search.
CreateRefused(tool, words, env) ==
    tool = "Bash" /\ IsRawBdCreate(words) /\ env = "plugin"

-----------------------------------------------------------------------------
(***************************************************************************)
(* The shadow ledger. An entry of a transcript has an author and blocks;   *)
(* a write has the number of check boxes in what it wrote.                 *)
(***************************************************************************)
CheckboxThreshold == 3
PersistingTools == {"Write", "Edit", "MultiEdit"}
PlanningArtifacts == {"plan/a.md", "handoff.md"}

Entry(type, blocks) == [type |-> type, blocks |-> blocks]
Block(kind) == [kind |-> kind, tool |-> None, path |-> None, boxes |-> 0]
Call(tool, path, boxes) ==
    [kind |-> "tool_use", tool |-> tool, path |-> path, boxes |-> boxes]
TranscriptEntries ==
    {Entry("user", {Block("text")}), Entry("user", {Block("tool_result")}),
     Entry("user", {Block("text"), Block("tool_result")}), Entry("user", {}),
     Entry("malformed", {}),
     Entry("assistant", {Call("Write", "plan/a.md", 3), Block("text")}),
     Entry("assistant", {Call("Edit", "handoff.md", 2), Call("Bash", "plan/a.md", 3)}),
     Entry("assistant", {Call("MultiEdit", "src/a.py", 4)})}

\* Mutant of IsRealUserEntry: every entry of a user begins a turn.
IsUserEntry(entry) == entry.type = "user"

\* Somebody typed it: it has text and delivers no tool's result.
IsRealUserEntry(entry) ==
    LET kinds == {b.kind : b \in entry.blocks}
    IN entry.type = "user" /\ "text" \in kinds /\ "tool_result" \notin kinds

\* The writes after the last such entry.
LastTurnWrites(entries) ==
    LET typed == {i \in DOMAIN entries : IsRealUserEntry(entries[i])}
    IN {b \in UNION {entries[i].blocks : i \in {i \in DOMAIN entries :
                        entries[i].type = "assistant" /\ \A j \in typed : j < i}} :
            b.kind = "tool_use" /\ b.tool \in PersistingTools /\ b.path # None}

Warns(stopHookActive, entries) ==
    /\ ~stopHookActive
    /\ \E w \in LastTurnWrites(entries) :
            w.path \in PlanningArtifacts /\ w.boxes >= CheckboxThreshold

\* A task list written to a plan is warned of, however many tool results
\* come after it, until somebody has typed again.
WarnsOfThisTurn(entries) ==
    Warns(FALSE, entries) <=>
        \E i \in DOMAIN entries :
            /\ Call("Write", "plan/a.md", 3) \in entries[i].blocks
            /\ Entry("user", {Block("text")}) \notin ToSet(From(entries, i))

-----------------------------------------------------------------------------
(***************************************************************************)
(* The background memory: "absent", "unreadable", or the number of rows of *)
(* each table, a table that is missing counting none.                      *)
(***************************************************************************)
BackgroundTables == {"jobs", "stage1_outputs"}

BackgroundCounts(rows) ==
    [t \in BackgroundTables |-> IF t \in DOMAIN rows THEN rows[t] ELSE 0]

AuditWarns(stopHookActive, env, chain, store, rows) ==
    /\ ~stopHookActive
    /\ ProjectDir(env, chain) = "plugin"
    /\ store = "readable"
    /\ \E t \in BackgroundTables : BackgroundCounts(rows)[t] > 0

\* The audit warns exactly where memory writes are refused; a raw create is
\* refused in no other project, but only where the environment names it.
HooksAgree(env, chain) ==
    LET refused == MemoryRefused([tool |-> "Write", paths |-> {"note"}], env, chain)
    IN /\ RefusedWhereGoverned(env, chain)
       /\ \A store \in {"absent", "unreadable", "readable"}, t \in BackgroundTables :
            AuditWarns(FALSE, env, chain, store, [k \in {t} |-> 1])
                = (store = "readable" /\ refused)
       /\ CreateRefused("Bash", <<"bd", "create">>, env)
            = (env # None /\ refused)
==============================================================================
