------------------------------ MODULE ShellText ------------------------------
(***************************************************************************)
(* The scans of raw text the hooks rest on: a Bash command is cut into     *)
(* segments and parted from its here-documents (_footgun_shell.py), each   *)
(* here-document is handed to the segment that reads it                    *)
(* (_memory_shell_writes.py), and comments are removed from a              *)
(* .livespec.jsonc (_livespec_project.py, copied in two other hooks). A    *)
(* text is a sequence of characters of which only the kind matters; a scan *)
(* is a function that says what it knows before each of them. Each result  *)
(* is compared with what the text was built from: pieces, or lines.        *)
(***************************************************************************)
EXTENDS Integers, SequencesExt

None == "none"
At(text, i) == IF i \in DOMAIN text THEN text[i] ELSE None

\* The elements at some positions, in order.
Picked(text, positions) ==
    LET picked[n \in 0..Len(text)] ==
            IF n = 0 THEN <<>>
            ELSE IF n \in positions THEN Append(picked[n - 1], text[n]) ELSE picked[n - 1]
    IN picked[Len(text)]

-----------------------------------------------------------------------------
(***************************************************************************)
(* Segments. "'" and "''" are the two quotes, "\\" the backslash, "nl" a   *)
(* newline, "_" a blank, "x" anything else.                                *)
(***************************************************************************)
Quotes == {"'", "''"}
Separators == {";", "|", "&", "nl"}

\* A backslash and the newline after it become a blank before anything else
\* is looked at.
JoinLineContinuations(text) ==
    [i \in DOMAIN text |->
        IF \/ text[i] = "\\" /\ At(text, i + 1) = "nl"
           \/ text[i] = "nl" /\ At(text, i - 1) = "\\"
        THEN "_" ELSE text[i]]

\* Mutant of KeepsNext: nothing but a backslash does.
OnlyEscapes(text, i) == text[i] = "\\"

\* Outside quotes, the character and the next are copied together.
KeepsNext(text, i) ==
    text[i] = "\\" \/ <<text[i], At(text, i + 1)>> = <<">", "|">>

\* What the scan of _split_on_operators knows before character i: it is
\* inside a quote, or the character is the second of a pair that is kept
\* ("\\" and what it escapes, ">|") or dropped ("&&", "||").
Mode(text) ==
    LET mode[i \in 1..Len(text) + 1] ==
            IF i = 1 THEN "plain"
            ELSE LET before == mode[i - 1]  char == text[i - 1]
                 IN CASE before \in Quotes ->
                            IF char = before THEN "plain" ELSE before
                      [] before \in {"kept", "dropped"} -> "plain"
                      [] before = "plain" /\ char \in Quotes -> char
                      [] before = "plain" /\ KeepsNext(text, i - 1) -> "kept"
                      [] before = "plain" /\ char \in {"&", "|"}
                            /\ At(text, i) = char -> "dropped"
                      [] OTHER -> "plain"
    IN mode

\* The positions at which a command is cut into segments.
Cuts(text) ==
    LET joined == JoinLineContinuations(text)
        mode == Mode(joined)
    IN {i \in DOMAIN joined :
            \/ mode[i] = "plain" /\ joined[i] \in Separators
            \/ mode[i] = "dropped"}

(***************************************************************************)
(* The pieces a command is built from. The shell sees a separator in       *)
(* SeparatorPieces alone; a file follows a redirection.                    *)
(***************************************************************************)
SeparatorPieces == {<<"&", "&">>, <<"|", "|">>, <<";">>, <<"|">>, <<"nl">>}
BothRedirections == {<<">", "&", "x">>, <<"&", ">", "x">>}
EscapedQuote == <<"''", "\\", "''", "''">>
CommandPieces == SeparatorPieces \union BothRedirections \union
    {<<"x">>, <<"'", ";", "''", "'">>, <<"''", "'", "|", "nl", "''">>,
     <<"'", "\\", "'">>, <<"\\", ";">>, <<"\\", "'">>, <<"\\", "nl">>,
     <<">", "|">>, EscapedQuote}

\* Where piece k of a text begins, less one.
Offset(pieces, k) == Len(FlattenSeq(SubSeq(pieces, 1, k - 1)))

\* Where a piece is cut: a separator everywhere, and >& and &> at their &,
\* which the scan takes for one.
CutWithin(piece) ==
    {i \in DOMAIN piece :
        piece \in SeparatorPieces \/ (piece \in BothRedirections /\ piece[i] = "&")}

\* The scan has lost the quotes from the first double quote that is escaped
\* within double quotes on: it takes it for the end of them.
KnowsQuotes(pieces, k) == \A j \in 1..k : pieces[j] # EscapedQuote

CutAsBuilt(pieces) ==
    \A k \in DOMAIN pieces : KnowsQuotes(pieces, k) =>
        \A i \in DOMAIN pieces[k] :
            Offset(pieces, k) + i \in Cuts(FlattenSeq(pieces)) <=> i \in CutWithin(pieces[k])

-----------------------------------------------------------------------------
(***************************************************************************)
(* Here-documents. A line of a command is the terminator it mentions in    *)
(* quotes, those of its own here-documents in order, and the one it spells *)
(* by itself; the patterns see no quotes. A command line is one segment.   *)
(***************************************************************************)
Line(mention, own, ends) == [mention |-> mention, own |-> own, ends |-> ends]
HeredocLines ==
    {Line(None, <<>>, None), Line("M", <<>>, None), Line("A", <<>>, None),
     Line(None, <<"A">>, None), Line(None, <<"B">>, None), Line(None, <<"A", "B">>, None),
     Line("M", <<"A">>, None), Line(None, <<>>, "A"), Line(None, <<>>, "B"),
     Line(None, <<>>, "M")}

\* Before each line, the terminators that end the here-documents still to be
\* read. opens[line] are those its here-documents have.
Within(lines, opens) ==
    LET within[i \in 1..Len(lines) + 1] ==
            IF i = 1 THEN <<>>
            ELSE IF within[i - 1] = <<>> THEN opens[lines[i - 1]]
                 ELSE IF lines[i - 1].ends = Head(within[i - 1]) THEN Tail(within[i - 1])
                      ELSE within[i - 1]
    IN within

\* The expression for a here-document finds the first in a line, and only it.
Named == [line \in HeredocLines |->
              CASE line.mention # None -> <<line.mention>>
                [] line.mention = None /\ line.own # <<>> -> <<Head(line.own)>>
                [] OTHER -> <<>>]

\* _split_heredoc_bodies keeps the lines outside a here-document.
KeptLines(lines) ==
    {i \in DOMAIN lines : Within(lines, Named)[i] = <<>>}

\* The lines of the first body that line i introduces, to a scan that reads
\* opens.
Body(lines, opens, i) ==
    {j \in i + 1..Len(lines) :
        \A k \in i + 1..j : /\ Within(lines, opens)[k] # <<>>
                            /\ lines[k].ends # Head(opens[lines[i]])}

\* Mutant of Due: the bodies are dealt out in order, whatever they are called.
DueInOrder(lines, i, name) ==
    LET asking == {j \in KeptLines(lines) : j <= i /\ lines[j].own # <<>>}
        pool == {j \in KeptLines(lines) : Named[lines[j]] # <<>>}
    IN {j \in pool : Cardinality({k \in pool : k <= j}) = Cardinality(asking)}

\* The line whose body segment i is handed as that of name: the n-th segment
\* to spell a name takes the n-th body that was captured under it.
Due(lines, i, name) ==
    LET asking == {j \in KeptLines(lines) : j <= i /\ name \in ToSet(lines[j].own)}
        pool == {j \in KeptLines(lines) : Named[lines[j]] = <<name>>}
    IN {j \in pool : Cardinality({k \in pool : k <= j}) = Cardinality(asking)}

\* _own_bodies, for each << of a segment.
Claimed(lines, i) ==
    UNION {Body(lines, Named, j) :
            j \in UNION {Due(lines, i, name) : name \in ToSet(lines[i].own)}}

\* The shell knows what is quoted, and reads one body after the other.
Real == [line \in HeredocLines |-> line.own]

\* Two here-documents stand in the line, or seem to.
Crowded(line) == Len(line.own) > 1 \/ (line.own # <<>> /\ line.mention # None)

\* No line up to i is crowded, and none before it mentions a name i spells.
ToldApart(lines, i) ==
    \A j \in KeptLines(lines) :
        /\ j <= i => ~Crowded(lines[j])
        /\ j < i => lines[j].mention \notin ToSet(lines[i].own)

OwnBodies(lines) ==
    \A i \in KeptLines(lines) :
        Within(lines, Real)[i] = <<>> /\ ToldApart(lines, i) =>
            Claimed(lines, i) = IF lines[i].own = <<>> THEN {}
                                ELSE Body(lines, Real, i)

-----------------------------------------------------------------------------
(***************************************************************************)
(* Comments. "q" is the quote of JSON.                                     *)
(***************************************************************************)
\* What the scan of _strip_jsonc_comments knows before character i. "open"
\* and "close" are the second characters of /* and of */.
Reading(text) ==
    LET reading[i \in 1..Len(text) + 1] ==
            IF i = 1 THEN "value"
            ELSE LET before == reading[i - 1]
                     char == text[i - 1]
                     pair == <<char, At(text, i)>>
                 IN CASE before = "value" /\ char = "q" -> "string"
                      [] before = "value" /\ pair = <<"/", "/">> -> "line"
                      [] before = "value" /\ pair = <<"/", "*">> -> "open"
                      [] before = "string" /\ char = "q" -> "value"
                      [] before = "string" /\ char = "\\" -> "escaped"
                      [] before = "escaped" -> "string"
                      [] before = "line" /\ At(text, i) = "nl" -> "value"
                      [] before = "open" -> "block"
                      [] before = "block" /\ pair = <<"*", "/">> -> "close"
                      [] before = "close" -> "value"
                      [] OTHER -> before
    IN reading

\* The positions of the characters that are left: those of values and
\* strings but for the first character of a comment.
Uncommented(text) ==
    {i \in DOMAIN text :
        /\ Reading(text)[i] \in {"value", "string", "escaped"}
        /\ Reading(text)[i + 1] \notin {"line", "open"}}

\* The pieces of a configuration and how many characters of each, from its
\* end, belong to the value.
ConfigPieces ==
    {<<"x">>, <<"q", "/", "/", "q">>, <<"q", "\\", "q", "/", "*", "q">>,
     <<"q", "\\", "\\", "q">>, <<"/", "/", "q", "nl">>, <<"/", "/", "/", "*", "nl">>,
     <<"/", "*", "/", "q", "*", "*", "/">>, <<"/", "*", "/", "/", "nl", "*", "/">>}
Left(piece) ==
    IF piece[1] # "/" THEN Len(piece) ELSE IF piece[2] = "/" THEN 1 ELSE 0

UncommentedAsBuilt(pieces) ==
    Uncommented(FlattenSeq(pieces)) =
        UNION {Offset(pieces, k + 1) - Left(pieces[k]) + 1..Offset(pieces, k + 1) :
                k \in DOMAIN pieces}
=============================================================================
