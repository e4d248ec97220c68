---------------------------- MODULE MCHookInputs ----------------------------
(***************************************************************************)
(* HookInputs on a repository with a primary checkout, a worktree ("side") *)
(* and the segments that tell the guard's cases apart.                     *)
(***************************************************************************)
EXTENDS HookInputs

MCBound ==
    [command |-> 4, heredocs |-> 5, config |-> 4, wrappers |-> 3, wrappings |-> 5,
     create |-> 6, transcript |-> 4, directories |-> 3,
     edits |-> 4, records |-> 4, call |-> 3]

MCPaths == {"src", "conf", "state", "draft", "side"}
MCFolder == [p \in MCPaths |->
    CASE p \in {"src", "conf"} -> "root" [] p = "side" -> "side" [] OTHER -> "tmp"]

MCSegment(targets, git) ==
    [kills |-> FALSE, hints |-> targets = <<>>, lexes |-> TRUE, assigns |-> Nothing,
     value |-> "side", read |-> Nothing, lasts |-> TRUE, targets |-> targets,
     git |-> git]
MCSet(value, read) ==
    [MCSegment(<<>>, Nothing) EXCEPT !.assigns = "V", !.value = value, !.read = read]
MCSegments ==
    {MCSegment(<<"side", "src">>, Nothing),
     MCSegment(<<"conf">>, "no-verify"),
     MCSegment(<<"state", "draft">>, Nothing),
     MCSegment(<<"V">>, Nothing),
     MCSet("side", "side"), MCSet("src", "src"), MCSet("src", Nothing),
     [MCSet("src", "src") EXCEPT !.targets = <<"V">>, !.lasts = FALSE],
     [MCSegment(<<>>, Nothing) EXCEPT !.kills = TRUE],
     [MCSegment(<<"src">>, Nothing) EXCEPT !.lexes = FALSE]}
=============================================================================
