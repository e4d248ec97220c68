------------------------------ MODULE TmuxHazard ------------------------------
(***************************************************************************)
(* Does a command reach the tmux server all agents share                   *)
(* (_footgun_tmux.py)? A command is a sequence of levels: the first is     *)
(* what the shell runs, a sequence of segments, and the word "payload" in  *)
(* a level is a quoted word whose text is the next level. "$(" stands for  *)
(* a command substitution and "'" for a quote that is never closed.        *)
(***************************************************************************)
EXTENDS ShellWords

MaxDepth == 4
Commands(words) == Seq(Seq(Seq(words)))
Shells == {"sh", "bash"}
CommandFlags == {"-c", "-lc"}
Killers == {"kill", "killall", "pkill"}
XargsFlagsWithArg == {"-a", "-d", "-n", "-P", "-s", "-L"}

\* Parentheses and braces are stripped from a word's edges.
Ungrouped(word) ==
    CASE word = "(tmux" -> "tmux" [] word = "kill-server)" -> "kill-server"
      [] OTHER -> word

\* A flag written together with its value.
Fused ==
    [word \in {"-Sown/sock", "-L=scratch", "-Ldefault"} |->
        CASE word = "-Sown/sock" -> <<"-S", "own/sock">>
          [] word = "-L=scratch" -> <<"-L", "scratch">>
          [] word = "-Ldefault" -> <<"-L", "default">>]

\* Values that do not name a place of the agent's own: after lexical
\* normalization they are, or lie in, the directory of the default socket,
\* or they are relative to a directory the hook does not know.
FleetSockets == {None, "bare", "/tmp/tmux-1000//default", "/tmp/./tmux-1000/x",
                 "/tmp/tmux-1000/../tmux-1000/default/"}
FleetLabels == {None, "default", "/run/default"}

\* Every value given for a flag.
FlagValues(args, flag) ==
    LET values[i \in 1..Len(args) + 2] ==
            IF i > Len(args) THEN <<>>
            ELSE IF args[i] = flag THEN <<At(args, i + 1)>> \o values[i + 2]
            ELSE (IF args[i] \in DOMAIN Fused /\ Fused[args[i]][1] = flag
                  THEN <<Fused[args[i]][2]>> ELSE <<>>) \o values[i + 1]
    IN values[1]

\* Mutant of ScopePermitsKill: the first flag of either kind decides.
FirstFlagPermitsKill(args) ==
    LET flags == SelectSeq(args, LAMBDA a : a \in {"-S", "-L"})
        flag == At(flags, 1)
    IN flag # None
       /\ FlagValues(args, flag)[1] \notin FleetSockets \union FleetLabels

\* -S beats -L, and the last of a kind counts.
ScopePermitsKill(args) ==
    LET sockets == FlagValues(args, "-S")  labels == FlagValues(args, "-L")
    IN IF sockets # <<>> THEN Last(sockets) \notin FleetSockets
       ELSE labels # <<>> /\ Last(labels) \notin FleetLabels

\* The first -c of a shell is followed by its script.
ShellPayload(args) ==
    LET flags == {i \in DOMAIN args : args[i] \in CommandFlags}
    IN IF flags = {} THEN None ELSE At(args, 1 + CHOOSE i \in flags :
                                                \A j \in flags : i <= j)

\* The levels of a word's text.
Script(word, inner) == IF word = "payload" THEN inner ELSE <<<<<<word>>>>>>

\* eval joins its words, and a quoted one loses its quotes.
Joined(args, inner) ==
    IF "payload" \notin ToSet(args) THEN <<<<args>>>>
    ELSE LET i == CHOOSE i \in DOMAIN args : args[i] = "payload"
             headed == [inner[1] EXCEPT ![1] = SubSeq(args, 1, i - 1) \o @]
         IN <<[headed EXCEPT ![Len(headed)] = @ \o From(args, i + 1)]>>
            \o Tail(inner)

\* What is judged of the next level is given as a function.
NestedHazard(command, args, inner, hazardous) ==
    \/ /\ command \in Shells
       /\ ShellPayload(args) # None
       /\ hazardous[Script(ShellPayload(args), inner)]
    \/ /\ command = "eval"
       /\ args # <<>>
       /\ hazardous[Joined(args, inner)]

DirectHazard(command, args) ==
    LET target == AfterFlags(args, Flags, XargsFlagsWithArg)
    IN \/ command = "xargs" /\ target # <<>> /\ Base(target[1]) = "tmux"
          /\ ~ScopePermitsKill(Tail(target))
       \/ command = "tmux" /\ "kill-server" \in ToSet(args)
          /\ ~ScopePermitsKill(args)
       \/ command \in Killers /\ ToSet(args) \intersect {"tmux", "^tmux"} # {}

\* Every position is scanned for a command, whatever stands before it.
HeadPositions(words) == DOMAIN words

\* All words in the text of a segment, those in its quoted words included.
WordsIn(levels) == UNION {ToSet(seg) : seg \in UNION {ToSet(level) : level \in ToSet(levels)}}
Text(seg, inner) ==
    ToSet(seg) \union (IF "payload" \in ToSet(seg) THEN WordsIn(inner) ELSE {})

SegmentHazard(seg, inner, hazardous) ==
    LET text == Text(seg, inner)
        words == [i \in DOMAIN seg |-> Ungrouped(seg[i])]
    IN \/ {"$(", "kill-server"} \subseteq text
       \/ /\ "'" \in ToSet(seg)
          /\ "tmux" \in text
          /\ text \intersect {"kill-server", "pkill", "killall"} # {}
       \/ /\ "'" \notin ToSet(seg)
          /\ \E i \in HeadPositions(words) :
                LET command == Base(words[i])  args == From(words, i + 1)
                IN \/ NestedHazard(command, args, inner, hazardous)
                   \/ DirectHazard(command, args)

\* The words of the commands that are judged below.
TmuxWords ==
    {"tmux", "(tmux", "/bin/tmux", "kill-server", "kill-server)", "ls", "-S", "-L",
     "scratch", "default", "/tmp/tmux-1000//default", "own/sock", "-Sown/sock",
     "-L=scratch", "-Ldefault", "pkill", "-f", "^tmux", "vim", "xargs", "-n", "1",
     "$(", "'", "echo", "eval", "payload", "sh", "-lc", "env", "-i", "unknown",
     "--flag", "x", "cd", "dir"}

\* A payload is a whole command line; what is nested too deep to be looked
\* at is denied.
Hazardous[depth \in 0..MaxDepth + 1] ==
    [levels \in Commands(TmuxWords) |->
        \/ depth > MaxDepth
        \/ \E seg \in ToSet(levels[1]) :
              SegmentHazard(seg, Tail(levels), Hazardous[depth + 1])]

CommandHazard(levels, depth) == Hazardous[depth][levels]

-----------------------------------------------------------------------------
(***************************************************************************)
(* A command is built around an invocation that does or does not kill the  *)
(* fleet, which none of the wrappings changes.                             *)
(***************************************************************************)
One(words) == <<<<words>>>>
FleetKills ==
    {One(<<"tmux", "kill-server">>), One(<<"(tmux", "kill-server)">>),
     One(<<"/bin/tmux", "-Ldefault", "kill-server">>),
     One(<<"tmux", "-L", "scratch", "-S", "/tmp/tmux-1000//default", "kill-server">>),
     One(<<"tmux", "kill-server", "-L", "scratch", "-L", "default">>),
     One(<<"pkill", "-f", "^tmux">>), One(<<"xargs", "-n", "1", "tmux">>),
     One(<<"tmux", "$(", "kill-server">>), One(<<"tmux", "'", "kill-server">>),
     One(<<"eval", "payload", "kill-server">>) \o One(<<"tmux">>)}
Harmless ==
    {One(<<"tmux", "ls">>), One(<<"pkill", "vim">>), One(<<"echo", "'">>),
     One(<<"tmux", "-S", "own/sock", "-L", "default", "kill-server">>),
     One(<<"tmux", "kill-server", "-L=scratch">>),
     One(<<"xargs", "tmux", "-Sown/sock", "kill-server">>),
     One(<<"echo", "payload">>) \o One(<<"tmux", "kill-server">>)}

Displacing == {<<"env", "-i">>, <<"unknown", "--flag", "x">>}
Nestings == {<<"sh", "-lc", "payload">>, <<"eval", "payload">>}
Sequels == {<<"cd", "dir">>}
Wrappings == Displacing \union Nestings \union Sequels

WrappedIn(w, levels) ==
    CASE w \in Displacing ->
            <<<<w \o levels[1][1]>> \o Tail(levels[1])>> \o Tail(levels)
      [] w \in Nestings -> One(w) \o levels
      [] w \in Sequels -> <<Append(levels[1], w)>> \o Tail(levels)

Wrapped(core, wrappings) ==
    LET levels[k \in 0..Len(wrappings)] ==
            IF k = 0 THEN core ELSE WrappedIn(wrappings[k], levels[k - 1])
    IN levels[Len(wrappings)]

Nested(wrappings) == Cardinality({i \in DOMAIN wrappings : wrappings[i] \in Nestings})

FleetKillDeniedUnder(wrappings) ==
    \A core \in FleetKills \union Harmless :
        CommandHazard(Wrapped(core, wrappings), 0)
            = (core \in FleetKills \/ Nested(wrappings) > MaxDepth)
=============================================================================
