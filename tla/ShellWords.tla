------------------------------ MODULE ShellWords ------------------------------
(***************************************************************************)
(* The words of one segment: the prefix that only re-executes another      *)
(* command is stripped, and what is left is judged when it is git          *)
(* (_footgun_shell.py, livespec_footgun_guard.py). The words that matter   *)
(* to some hook are listed by class; any other string is just a word.      *)
(***************************************************************************)
EXTENDS ShellText

Assignments == {"X=1", "LEFTHOOK=0"}
LefthookOff == {"LEFTHOOK=0"}
Durations == {"5", "5s"}
\* Words with a leading dash, "-" alone excepted.
Flags == {"--", "-a", "-c", "-C", "-cX", "-d", "-e", "-f", "-i", "-k", "-lc",
          "-n", "-o", "-oL", "-p", "-P", "-q", "-r", "-s", "-S", "-L", "-t", "-u",
          "--get", "--no-verify", "--git-dir", "--target-directory"}

\* Words with a directory in front, and the name of the command they run.
Directories ==
    [word \in {"/bin/env", "/bin/git", "/bin/tmux", "/bin/bd"} |->
        CASE word = "/bin/env" -> "env" [] word = "/bin/git" -> "git"
          [] word = "/bin/tmux" -> "tmux" [] word = "/bin/bd" -> "bd"]
Base(word) == IF word \in DOMAIN Directories THEN Directories[word] ELSE word

\* The wrappers, and their flags that take the next word.
FlagsWithArg ==
    [command |-> {}, env |-> {"-u", "-C"}, exec |-> {"-a"},
     ionice |-> {"-c", "-n", "-p", "-P", "-u"}, nice |-> {"-n"}, nohup |-> {},
     setsid |-> {}, stdbuf |-> {"-i", "-o", "-e"},
     sudo |-> {"-u", "-g", "-C", "-p", "-r", "-t"}, time |-> {"-o", "-f"},
     timeout |-> {"-s", "-k"}]

From(words, i) == SubSeq(words, i, Len(words))

\* Mutant of AfterFlags: no flag takes an argument.
AfterBareFlags(words, skipped, takesNext) ==
    LET others == {i \in DOMAIN words : words[i] \notin skipped \ {"--"}}
    IN IF others = {} THEN <<>>
       ELSE LET i == CHOOSE i \in others : \A j \in others : i <= j
            IN From(words, IF words[i] = "--" THEN i + 1 ELSE i)

\* The words after a command's flags, the arguments they take and the "--".
AfterFlags(words, skipped, takesNext) ==
    LET after[i \in 1..Len(words) + 2] ==
            IF At(words, i) \notin skipped THEN From(words, i)
            ELSE IF words[i] = "--" THEN From(words, i + 1)
            ELSE after[IF words[i] \in takesNext THEN i + 2 ELSE i + 1]
    IN after[1]

\* mise takes no arguments of its flags into account.
AfterMise(words) ==
    LET others == {i \in DOMAIN words : words[i] \notin Flags \union {"exec", "x"}}
    IN IF others = {} THEN <<>>
       ELSE From(words, CHOOSE i \in others : \A j \in others : i <= j)

\* timeout alone has a duration before its command.
AfterDuration(wrapper, words) ==
    IF wrapper = "timeout" /\ words # <<>> /\ words[1] \in Durations
    THEN Tail(words) ELSE words

\* The words after the first assignment or wrapper; all of them if they begin
\* with none.
AfterNoise(words) ==
    LET first == Base(words[1])  rest == Tail(words)
    IN CASE words[1] \in Assignments -> rest
         [] first \in DOMAIN FlagsWithArg ->
                AfterDuration(first, AfterFlags(rest, Flags \union Assignments,
                                                FlagsWithArg[first]))
         [] first = "mise" -> AfterMise(rest)
         [] OTHER -> words

\* What remains is looked at again, so wrappers may be stacked: what becomes of
\* the last n words.
StripLeadingNoise(words) ==
    LET strip[n \in 0..Len(words)] ==
            LET last == From(words, Len(words) - n + 1)
                left == AfterNoise(last)
            IN IF last = <<>> \/ left = last THEN last ELSE strip[Len(left)]
    IN strip[Len(words)]

\* The prefix that was stripped switches lefthook off, wherever it says so.
DisablesLefthook(words) ==
    \E i \in 1..Len(words) - Len(StripLeadingNoise(words)) :
        words[i] \in LefthookOff

-----------------------------------------------------------------------------
GitOptionsWithArg == {"-C", "-c", "--git-dir"}
Truthy == {"true", "1"}

\* The words from git's subcommand on.
GitSubcommand(words) ==
    IF words = <<>> \/ Base(words[1]) # "git" THEN <<>>
    ELSE AfterFlags(Tail(words), Flags, GitOptionsWithArg)

GitReason(words) ==
    LET git == GitSubcommand(StripLeadingNoise(words))
        args == ToSet(From(git, 2))
    IN CASE DisablesLefthook(words) -> "lefthook"
         [] ~DisablesLefthook(words) /\ git # <<>> ->
              CASE git[1] \in {"commit", "push"} /\ "--no-verify" \in args ->
                      "no-verify"
                [] git[1] = "config" /\ "--get" \notin args
                      /\ \/ "core.bare" \in args /\ args \intersect Truthy # {}
                         \/ "core.bare=true" \in args -> "core.bare"
                [] OTHER -> None
         [] OTHER -> None

(***************************************************************************)
(* A segment is built from wrappers and an invocation; the wrappers change *)
(* nothing but for switching lefthook off.                                 *)
(***************************************************************************)
Wrappers ==
    {<<"X=1">>, <<"LEFTHOOK=0">>, <<"/bin/env", "-i", "X=1">>,
     <<"env", "-u", "HOME", "LEFTHOOK=0">>, <<"sudo", "-u", "bob", "--">>,
     <<"timeout", "-s", "KILL", "5s">>, <<"nice", "-n", "5">>, <<"command">>,
     <<"mise", "exec", "--">>, <<"stdbuf", "-oL">>, <<"time", "-f", "%e">>}
Invocations ==
    {<<<<"git", "commit", "--no-verify">>, "no-verify">>,
     <<<<"/bin/git", "-C", "repo", "push", "--no-verify">>, "no-verify">>,
     <<<<"git", "config", "core.bare", "true">>, "core.bare">>,
     <<<<"git", "-c", "k=v", "config", "core.bare=true">>, "core.bare">>,
     <<<<"git", "--git-dir", "commit", "log", "--no-verify">>, None>>,
     <<<<"git", "config", "--get", "core.bare", "true">>, None>>,
     <<<<"echo", "git", "commit", "--no-verify", "LEFTHOOK=0">>, None>>}

WrappersTransparentFor(wrappers) ==
    \A i \in Invocations :
        GitReason(FlattenSeq(wrappers) \o i[1]) =
            IF \E w \in ToSet(wrappers) : ToSet(w) \intersect LefthookOff # {}
            THEN "lefthook" ELSE i[2]
=============================================================================
