----------------------------- MODULE TrustRecords -----------------------------
(***************************************************************************)
(* The text of config.toml as codex_hook_trust.py reads and rewrites it,   *)
(* line by line and without a TOML parser. HookTrust has the records as    *)
(* tables and ConfigWrite the rewriting as one setting: here is why they   *)
(* may. A line is the header of a table, a field, a blank or a comment.    *)
(***************************************************************************)
EXTENDS ShellText

\* The hooks that are to be trusted, in order, and one that is no more.
Hooks == <<"mine", "also">>
Obsolete == {"old"}

\* Headers of hook records, headers of any other table, and one that begins
\* like a record's but is written in some other way.
KeyOf ==
    [header \in {"[mine]", "[also]", "[old]", "[theirs]"} |->
        CASE header = "[mine]" -> "mine" [] header = "[also]" -> "also"
          [] header = "[old]" -> "old" [] header = "[theirs]" -> "theirs"]
HeaderOf(key) == CHOOSE header \in DOMAIN KeyOf : KeyOf[header] = key
OtherHeaders == {"[section]", "[hooks.state]", "[hooks.state.odd]"}
Headers == DOMAIN KeyOf \union OtherHeaders

\* The fields of a record, by line; any other line is somebody else's field.
Field(name, value) == [name |-> name, value |-> value]
FieldOf ==
    [line \in {"enabled", "disabled", "hash", "old hash", "content"} |->
        CASE line = "enabled" -> Field("enabled", "on")
          [] line = "disabled" -> Field("enabled", "off")
          [] line = "hash" -> Field("trusted_hash", "current")
          [] line = "old hash" -> Field("trusted_hash", "stale")
          [] line = "content" -> Field("trusted_content_hash", "current")]
Silent == {"", "#"}

\* The header a line stands under, its own if it is one.
Heading(lines, i) ==
    LET above == {j \in 1..i : lines[j] \in Headers}
    IN IF above = {} THEN None ELSE lines[Max(above)]

\* Mutant of Superseded: only another record ends a record.
SupersededUpToNextRecord(lines, i, keys) ==
    LET above == {j \in 1..i : lines[j] \in DOMAIN KeyOf}
    IN above # {} /\ KeyOf[lines[Max(above)]] \in keys

\* The line belongs to the record of one of these hooks.
Superseded(lines, i, keys) ==
    Heading(lines, i) \in {HeaderOf(key) : key \in keys}

-----------------------------------------------------------------------------
\* _parse_recognized_state refuses what it does not know near the records.
Recognized(lines) ==
    /\ "[hooks.state.odd]" \notin ToSet(lines)
    /\ \A i, j \in DOMAIN lines :
            lines[i] \in DOMAIN KeyOf /\ lines[i] = lines[j] => i = j
    /\ \A i \in {i \in DOMAIN lines : lines[i] \notin Headers \union Silent} :
            /\ Heading(lines, i) # "[hooks.state]"
            /\ Heading(lines, i) \in DOMAIN KeyOf => lines[i] \in DOMAIN FieldOf

\* A field's last value in a hook's record.
Value(lines, key, name) ==
    LET given == {i \in DOMAIN lines :
                    /\ Heading(lines, i) = HeaderOf(key)
                    /\ lines[i] \in DOMAIN FieldOf /\ FieldOf[lines[i]].name = name}
    IN IF given = {} THEN None ELSE FieldOf[lines[Max(given)]].value

Trusted(lines, key) ==
    /\ Value(lines, key, "trusted_hash") = "current"
    /\ Value(lines, key, "trusted_content_hash") = "current"

\* A new record keeps the operator's choice.
EnabledField(chosen) ==
    CASE chosen = "on" -> <<"enabled">> [] chosen = "off" -> <<"disabled">>
      [] OTHER -> <<>>
NewRecord(lines, key) ==
    <<"", HeaderOf(key)>> \o EnabledField(Value(lines, key, "enabled")) \o <<"hash", "content">>

WithoutTrailing(lines) ==
    LET kept == {i \in DOMAIN lines : lines[i] # ""}
    IN IF kept = {} THEN <<>> ELSE SubSeq(lines, 1, Max(kept))

\* _with_trust_records: nothing is written unless some hook's record is not
\* the one it should have; then those and the obsolete ones are removed and
\* new ones appended. The first blank only ends the last line that is left.
WithTrustRecords(lines) ==
    LET stale == Picked(Hooks, {k \in DOMAIN Hooks : ~Trusted(lines, Hooks[k])})
        retained == WithoutTrailing(Picked(lines, {i \in DOMAIN lines :
                        ~Superseded(lines, i, ToSet(stale) \union Obsolete)}))
        new == FlattenSeq([k \in DOMAIN stale |-> NewRecord(lines, stale[k])])
    IN IF stale = <<>> THEN lines
       ELSE retained \o (IF retained = <<>> THEN new ELSE Tail(new))

-----------------------------------------------------------------------------
ConfigLines ==
    {<<"[mine]">>, <<"[mine]", "hash", "content">>, <<"[mine]", "disabled">>,
     <<"[also]", "enabled", "hash", "content">>, <<"[old]", "hash">>,
     <<"[theirs]", "old hash">>, <<"[section]", "key">>, <<"[hooks.state]">>,
     <<"[hooks.state.odd]">>, <<"enabled">>, <<"old hash">>, <<"key">>, <<"">>, <<"#">>}

\* What a table says, whoever reads it.
Says(lines, header) ==
    Picked(lines, {i \in DOMAIN lines : /\ Heading(lines, i) = header
                                        /\ lines[i] \notin Headers \union Silent})

RewrittenWell(lines) ==
    LET out == WithTrustRecords(lines)
        others == {None, "[theirs]"} \union OtherHeaders
    IN Recognized(lines) =>
        /\ Recognized(out)
        /\ WithTrustRecords(out) = out
        /\ \A key \in ToSet(Hooks) :
              /\ Trusted(out, key)
              /\ Value(out, key, "enabled") = Value(lines, key, "enabled")
        /\ \A h \in others :
              /\ Says(out, h) = Says(lines, h)
              /\ h \in ToSet(out) <=> h \in ToSet(lines)
        /\ out # lines => "[old]" \notin ToSet(out)
===============================================================================
