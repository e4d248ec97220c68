------------------------------ MODULE HookInputs ------------------------------
(***************************************************************************)
(* What the hooks of livespec/hooks/hooks.json make of their inputs. An    *)
(* input of one family is written piece by piece, so every input up to the *)
(* bound of its family is a state; a command for the footgun guard may be  *)
(* handed to it at any length, and the guard then runs step by step.       *)
(***************************************************************************)
EXTENDS LedgerHooks, WriteTargets, TrustRecords, FootgunGuard

CONSTANTS
    Bound       \* for each family, the length of its longest input

VARIABLES
    family,     \* what is written
    input       \* as far as it has been written

Families == {"command", "heredocs", "config", "wrappers", "wrappings", "create",
             "transcript", "directories", "edits", "records", "call"}
Alphabet ==
    [command |-> CommandPieces, heredocs |-> HeredocLines, config |-> ConfigPieces,
     wrappers |-> Wrappers, wrappings |-> Wrappings, create |-> CreateWords,
     transcript |-> TranscriptEntries, directories |-> Directory,
     edits |-> EditPieces, records |-> ConfigLines, call |-> Segments]

HookInit ==
    /\ Init
    /\ family \in Families
    /\ input = <<>>

Write ==
    /\ pc = "idle"
    /\ Len(input) < Bound[family]
    /\ \E piece \in Alphabet[family] : input' = Append(input, piece)
    /\ UNCHANGED <<family, vars>>

Guard ==
    /\ family = "call"
    /\ \/ Start(input)
       \/ Segment
       \/ ProbePrimary
       \/ ProbeRoot
       \/ CheckIgnore
       \/ GiveUpTargets
       \/ JudgeGit
       \/ Killed
    /\ UNCHANGED <<family, input>>

HookNext == Write \/ Guard

HookSpec == HookInit /\ [][HookNext]_<<family, input, vars>>

-----------------------------------------------------------------------------
\* A command is cut into segments at every separator the shell sees and at none
\* that is quoted or escaped, in >| or in a joined line, with two exceptions:
\* the & of >& and &> is cut at though it is none, and nothing is said of what
\* follows the first double quote that is escaped within double quotes, for
\* _split_on_operators takes it for the end of them.
SegmentsAsShell == family = "command" => CutAsBuilt(input)

\* A segment is handed the here-document it reads and no other, though the scan
\* for them also finds those that are only mentioned. _own_bodies cannot tell
\* them apart, and nothing is said, where two stand in a line up to this one, or
\* an earlier line mentions one of the name that the segment spells.
OwnBodiesOnly == family = "heredocs" => OwnBodies(input)

\* Wrappers stacked around a git command change nothing about its refusal.
WrappersTransparent == family = "wrappers" => WrappersTransparentFor(input)

\* A command that kills the fleet's tmux server is denied, and one that does
\* not passes, under any wrapping the guard looks through.
FleetKillDenied == family = "wrappings" => FleetKillDeniedUnder(input)

\* Every write of agent memory is identified, and besides those only a write of
\* a .md in another directory called memory, which is_memory_path takes for one;
\* all tools are refused them alike, in governed projects only: the nearest
\* .livespec.jsonc says so, less its comments and nothing in a string that
\* looks like one.
MemoryJudged ==
    /\ family = "wrappings" /\ ToSet(input) \subseteq MemoryWrappings =>
        MemoryJudgedUnder(input)
    /\ family = "directories" =>
        \A env \in {None, "plugin", "other", "garbage"} : HooksAgree(env, input)
    /\ family = "config" => UncommentedAsBuilt(input)

\* A command that runs bd create is taken for one, across line breaks, if it can
\* be lexed and quotes no control punctuation. Others are taken for one only if
\* they mention bd create as words of one command, as echo bd create does, or mix
\* line breaks that are quoted and that are not (_command_lines, _is_raw_bd_create).
RawCreateJudged == family = "create" => CreateJudged(input)

\* A task list in a plan is warned of until somebody has typed again.
ShadowLedgerWarned == family = "transcript" => WarnsOfThisTurn(input)

\* The files a segment writes are among those git is asked about, unless they are
\* written by >|, by a redirection glued to a word, by sed with -i behind another
\* letter or by a wrapped editor: redirect_targets does not see these. It asks
\* about more only for >|, for tee and for sed -i, whose script is one of them.
TargetsSeen ==
    family = "edits" => \A editor \in Editors : TargetsAsWritten(editor, input)

\* A trust write leaves all hooks trusted and switched on or off as they were,
\* every other table saying what it said, and nothing to do for the next.
RecordsRewritten == family = "records" => RewrittenWell(FlattenSeq(input))
=============================================================================
