----------------------------- MODULE WriteTargets -----------------------------
(***************************************************************************)
(* Which files does a segment write (redirect_targets in                   *)
(* _footgun_primary_checkout.py)? What it finds are the targets FootgunGuard *)
(* asks git about. The words are those of shlex: a redirection stands alone, *)
(* is joined to its file, or is glued to the word before it.               *)
(***************************************************************************)
EXTENDS MemoryWrites

Redirections == {">", ">>", "2>"}
Duplications == {"2>&1"}
\* What follows the > or >> within a word that begins like a redirection.
JoinedTo ==
    [word \in {">f", "2>>g", "2>&1", ">&", ">|"} |->
        CASE word = ">f" -> "f" [] word = "2>>g" -> "g"
          [] word = "2>&1" -> "&1" [] word = ">&" -> "&" [] word = ">|" -> "|"]

\* Mutant of Duplicates: only a duplication in one word is known.
DuplicatesInOneWord(words, i) == words[i] \in Duplications

\* The word makes one descriptor a copy of another, and opens no file.
Duplicates(words, i) ==
    \/ words[i] \in Duplications
    \/ words[i] \in {">&", "<&"} /\ At(words, i + 1) \in Descriptors

RedirectionTargets(words) ==
    LET opening == {i \in DOMAIN words : ~Duplicates(words, i)}
    IN {words[i + 1] : i \in {i \in opening \ {Len(words)} : words[i] \in Redirections}}
       \union {JoinedTo[words[i]] : i \in {i \in opening : words[i] \in DOMAIN JoinedTo}}

InPlace == {"-i", "-i.bak", "--in-place"}
OutputOf == [word \in {"of=f"} |-> "f"]
Dashed == Flags \union InPlace \union {"-"}

\* git apply and git am write the working directory.
CommandTargets(words) ==
    LET head == Base(words[1])  args == ToSet(Tail(words))
    IN CASE head = "tee" -> args \ Dashed
         [] head = "sed" /\ args \intersect InPlace # {} -> args \ Dashed
         [] head = "dd" -> {OutputOf[a] : a \in args \intersect DOMAIN OutputOf}
         [] head = "git" /\ At(GitSubcommand(words), 1) \in {"apply", "am"} -> {"."}
         [] OTHER -> {}

Targets(words) ==
    IF words = <<>> THEN {} ELSE RedirectionTargets(words) \union CommandTargets(words)

-----------------------------------------------------------------------------
(***************************************************************************)
(* A segment is a command and then operands and redirections in any order. *)
(***************************************************************************)
Edits(words, operands, files) == [words |-> words, operands |-> operands, files |-> files]
ReadEditors ==
    {Edits(<<"cat">>, FALSE, {}), Edits(<<"tee", "-a">>, TRUE, {}),
     Edits(<<"sed", "-n", "script">>, FALSE, {}),
     Edits(<<"sed", "-i.bak", "script">>, TRUE, {}),
     Edits(<<"dd", "if=in", "of=f">>, FALSE, {"f"}),
     Edits(<<"git", "-c", "k=v", "am">>, FALSE, {"."}),
     Edits(<<"git", "-c", "am", "log">>, FALSE, {})}
\* The code does not see that these write: a redirection glued to a word, -i
\* behind another letter, and an editor behind a wrapper.
UnreadEditors ==
    {Edits(<<"cat>f">>, FALSE, {"f"}), Edits(<<"sed", "-Ei", "script">>, TRUE, {}),
     Edits(<<"sudo", "tee">>, TRUE, {})}
Editors == ReadEditors \union UnreadEditors

Piece(words, operand, writes) == [words |-> words, operand |-> operand, writes |-> writes]
\* The code takes the pipe of >| for the file.
Clobber == Piece(<<">|", "f">>, FALSE, {"f"})
EditPieces ==
    {Clobber, Piece(<<"f">>, TRUE, {}), Piece(<<"h">>, TRUE, {}), Piece(<<"-q">>, FALSE, {}),
     Piece(<<">", "f">>, FALSE, {"f"}), Piece(<<"2>", "g">>, FALSE, {"g"}),
     Piece(<<">f">>, FALSE, {"f"}), Piece(<<"2>>g">>, FALSE, {"g"}),
     Piece(<<"<", "in">>, FALSE, {}), Piece(<<"2>&1">>, FALSE, {}),
     Piece(<<">&", "1">>, FALSE, {})}

\* Every file is a target that the segment writes by a command and redirections
\* that are read. Nothing else is, but that the pipe of >| is, and that tee
\* and sed -i take the words of redirections, and sed its script, for files.
TargetsAsWritten(editor, pieces) ==
    LET words == editor.words \o FlattenSeq([i \in DOMAIN pieces |-> pieces[i].words])
        edits == editor \in ReadEditors /\ editor.operands
        operands == IF edits THEN {p \in ToSet(pieces) : p.operand} ELSE {}
        read == (IF editor \in ReadEditors THEN editor.files ELSE {})
                    \union (UNION {p.writes : p \in ToSet(pieces) \ {Clobber}})
                    \union (UNION {ToSet(p.words) : p \in operands})
        syntax == UNION {ToSet(p.words) : p \in {p \in ToSet(pieces) : ~p.operand}}
    IN /\ read \subseteq Targets(words)
       /\ Targets(words) \ read \subseteq
            (IF edits THEN {"script"} \union (syntax \ Dashed) ELSE {})
                \union (IF Clobber \in ToSet(pieces) THEN {"|"} ELSE {})
===============================================================================
