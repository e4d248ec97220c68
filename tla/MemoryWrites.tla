----------------------------- MODULE MemoryWrites -----------------------------
(***************************************************************************)
(* Does a tool call write into an agent's memory directory, and is it      *)
(* refused (block_auto_memory.py, _memory_shell_writes.py)? Commands are   *)
(* levels of segments as in TmuxHazard; redirections are words of their    *)
(* own, and the word after "<<" stands for the body the segment is fed.    *)
(***************************************************************************)
EXTENDS TmuxHazard

MaxMemoryDepth == 3

\* Paths by their components, as written and with links followed.
Places ==
    [place \in {"store", "note", "folder", "link", "docs", "log", "stray"} |->
        CASE place = "store" -> {<<"~", ".codex", "memories">>}
          [] place = "note" -> {<<"~", ".claude", "projects", "p", "memory", "n.md">>}
          [] place = "folder" -> {<<"~", ".claude", "projects", "p", "memory">>}
          [] place = "link" -> {<<"~", "x">>, <<"~", ".codex", "memories", "x">>}
          [] place = "docs" -> {<<"~", "docs", "memory">>}
          [] place = "log" -> {<<"~", "docs", "memory", "n.txt">>}
          [] place = "stray" -> {<<"~", "docs", "memory", "n.md">>}]
Markdown == {"n.md"}

NamesMemory(path) ==
    LET end == Len(path)
    IN \/ IsPrefix(<<"~", ".codex", "memories">>, path)
       \/ path[end] \in Markdown /\ At(path, end - 1) = "memory"
       \/ path[end] = "memory" /\ At(path, end - 2) = "projects"
             /\ At(path, end - 3) = ".claude"

IsMemoryPath(word) ==
    word \in DOMAIN Places /\ \E path \in Places[word] : NamesMemory(path)

-----------------------------------------------------------------------------
(***************************************************************************)
(* The words of a segment.                                                 *)
(***************************************************************************)
RedirectOperators == {">", ">>", ">|", ">>|", "&>", "&>>"}
Operators == RedirectOperators \union {"<", "<<", "<<<", ">&", "<&"}
Descriptors == {"1", "2"}

\* The words but for redirections, and the files those write.
CommandWords(seg) ==
    Picked(seg, {i \in DOMAIN seg :
        /\ seg[i] \notin Operators
        /\ At(seg, i - 1) \notin Operators
        /\ ~(seg[i] \in Descriptors /\ At(seg, i + 1) \in Operators)})
After(words, flags) == {At(words, i + 1) : i \in {i \in DOMAIN words : words[i] \in flags}}
RedirectTargets(seg) == After(seg, RedirectOperators)

\* Words that are neither flags nor the argument of a flag in skipAfter.
Operands(args, skipAfter) ==
    Picked(args, {i \in DOMAIN args : /\ args[i] \notin Flags
                                       /\ At(args, i - 1) \notin skipAfter})

\* Mutant of CopyDestinations: -t is an option like any other.
LastOperand(args) ==
    IF Len(Operands(args, {})) > 1 THEN {Last(Operands(args, {}))} ELSE {}

CopyDestinations(args) ==
    IF After(args, {"-t", "--target-directory"}) # {}
    THEN After(args, {"-t", "--target-directory"})
    ELSE IF Len(Operands(args, {})) > 1 THEN {Last(Operands(args, {}))} ELSE {}

WrittenPaths(head, args) ==
    CASE head = "tee" -> ToSet(Operands(args, {}))
      [] head = "touch" -> ToSet(Operands(args, {"-r", "-d", "-t"}))
      [] head = "truncate" -> ToSet(Operands(args, {"-s", "-r"}))
      [] head \in {"cp", "mv", "install", "ln"} -> CopyDestinations(args)
      [] head = "sed" /\ "-i" \in ToSet(args) -> ToSet(Operands(args, {"-e", "-f"}))
      [] head = "dd" /\ "of=note" \in ToSet(args) -> {"note"}
      [] OTHER -> {}

\* Programs by what their text names and does.
Interpreters == {"python3", "perl"}
ProgramFlags == {"-c", "-e"}
WritingPrograms == {"write note"}

\* perl -i edits its operands; a program is inline, or stdin when no script
\* is named.
InterpreterWrites(head, args, stdin) ==
    \/ head = "perl" /\ "-i" \in ToSet(args) /\ \E a \in ToSet(args) : IsMemoryPath(a)
    \/ IF After(args, ProgramFlags) # {}
       THEN After(args, ProgramFlags) \intersect WritingPrograms # {}
       ELSE /\ ToSet(Operands(args, {})) \subseteq {"-"}
            /\ stdin \intersect WritingPrograms # {}

SegmentWrites(seg, inner, writing) ==
    LET invocation == StripLeadingNoise(CommandWords(seg))
    IN \/ \E t \in RedirectTargets(seg) : IsMemoryPath(t)
       \/ /\ invocation # <<>>
          /\ LET head == Base(invocation[1])  args == Tail(invocation)
             IN CASE head \in Shells ->
                        /\ ShellPayload(args) # None
                        /\ writing[Script(ShellPayload(args), inner)]
                  [] head \in Interpreters ->
                        InterpreterWrites(head, args, After(seg, {"<<"}))
                  [] OTHER ->
                        \E p \in WrittenPaths(head, args) : IsMemoryPath(p)

\* The words of the commands that are judged below.
MemoryWords ==
    DOMAIN Places \union Operators \union
    {"cat", "rm", "grep", "echo", "make", "tee", "touch", "truncate", "cp", "mv", "sed",
     "dd", "perl", "python3", "sh", "env", "cd", "-", "-a", "-c", "-i", "-lc", "-r", "-s",
     "-t", "0", "2", "x", "y", "s/a/b/", "if=x", "of=note", "dir", "script", "write note",
     "write docs", "payload", "'"}

\* A segment that cannot be lexed, and what is nested too deep, passes.
Writes[depth \in 0..MaxMemoryDepth + 1] ==
    [levels \in Commands(MemoryWords) |->
        /\ depth <= MaxMemoryDepth
        /\ \E seg \in ToSet(levels[1]) :
              /\ "'" \notin ToSet(seg)
              /\ SegmentWrites(seg, Tail(levels), Writes[depth + 1])]

CommandWrites(levels, depth) == Writes[depth][levels]

-----------------------------------------------------------------------------
(***************************************************************************)
(* The hook. A directory has no .livespec.jsonc ("none"), one that names   *)
(* an implementation plugin, one that does not, or one that cannot be      *)
(* parsed, which raises and lets the call pass.                            *)
(***************************************************************************)
Directory == {"none", "plugin", "other", "garbage"}

\* The directory the environment names, or else the nearest one, from the
\* working directory up, that has a configuration.
ProjectDir(env, chain) ==
    IF env # None THEN env
    ELSE LET found == {i \in DOMAIN chain : chain[i] # "none"}
         IN IF found = {} THEN "none"
            ELSE chain[CHOOSE i \in found : \A j \in found : i <= j]

\* What a call to a tool says that it writes; the paths of a patch are those
\* it adds, updates, deletes or moves to.
WritesMemory(call) ==
    CASE call.tool = "Bash" -> CommandWrites(call.command, 0)
      [] call.tool \in {"Write", "Edit", "apply_patch"} ->
            \E p \in call.paths : IsMemoryPath(p)
      [] OTHER -> FALSE

MemoryRefused(call, env, chain) ==
    WritesMemory(call) /\ ProjectDir(env, chain) = "plugin"

-----------------------------------------------------------------------------
(***************************************************************************)
(* Segments that write a place, and segments that only mention one.        *)
(***************************************************************************)
Writing(place) ==
    {<<"cat", "x", ">", place>>, <<"make", "2", ">>|", place>>,
     <<"cat", "<<", "write docs", ">", place>>, <<"tee", "-a", "docs", place>>,
     <<"sed", "-i", "s/a/b/", place>>, <<"cp", "-r", "x", "y", place>>,
     <<"mv", "-t", place, "x">>, <<"truncate", "-s", "0", place>>,
     <<"perl", "-i", "x", place>>}
WritingNote ==
    {<<"python3", "-c", "write note">>, <<"python3", "-", "<<", "write note">>,
     <<"dd", "if=x", "of=note">>}
Mentioning(place) ==
    {<<"cat", place>>, <<"rm", place>>, <<"grep", "x", "<", place>>,
     <<"cp", place, "x">>, <<"mv", "-t", "x", place>>, <<"touch", "-r", place, "x">>,
     <<"echo", "payload", ">&", "2">>, <<"sed", "x", place>>,
     <<"python3", "script", "<<", "write note">>, <<"cat", "<<", "write note">>,
     <<"cat", "'", ">", place>>}

MemoryWrappings == {<<"env", "-i">>, <<"sh", "-lc", "payload">>, <<"cd", "dir">>}
\* The places of an agent's memory, and one that is none but is taken for it:
\* a .md in a directory that happens to be called memory.
MemoryPlaces == {"store", "note", "folder", "link"}
TakenForMemory == MemoryPlaces \union {"stray"}

\* Whatever the form, the wrapper and the nesting, up to the depth the hook
\* looks into, exactly the commands that write memory or what is taken for it
\* are identified.
MemoryJudgedUnder(wrappings) ==
    LET Identified(seg) ==
            CommandWrites(Wrapped(One(seg) \o One(<<"tee", "note">>), wrappings), 0)
        shallow == Nested(wrappings) <= MaxMemoryDepth
    IN /\ \A place \in DOMAIN Places :
            /\ \A seg \in Writing(place) :
                  Identified(seg) = (place \in TakenForMemory /\ shallow)
            /\ \A seg \in Mentioning(place) : ~Identified(seg)
       /\ \A seg \in WritingNote : Identified(seg) = shallow

\* A call is refused whichever tool makes it, and only where a configuration
\* no nearer one hides, or the environment, declares the plugin.
RefusedWhereGoverned(env, chain) ==
    LET governed ==
            IF env # None THEN env = "plugin"
            ELSE \E i \in DOMAIN chain :
                    chain[i] = "plugin" /\ \A j \in 1..i - 1 : chain[j] = "none"
    IN \A tool \in {"Write", "Edit", "apply_patch", "Bash", "Read"}, place \in DOMAIN Places :
            MemoryRefused([tool |-> tool, paths |-> {"docs", place},
                           command |-> One(<<"tee", place>>)], env, chain)
                = (governed /\ tool # "Read" /\ place \in TakenForMemory)
=============================================================================
