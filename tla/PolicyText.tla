----------------------------- MODULE PolicyText -----------------------------
(***************************************************************************)
(* The text of a policy file: the concrete-syntax parser and the edits of  *)
(* policy_edit.py, what the loader of policy.py makes of the text, and the *)
(* text it writes.  A text is a sequence of tokens.  Blanks within a line  *)
(* and the way a scalar is quoted (all but one) are no tokens; line ends   *)
(* and comments are, and what stands inside a comment may be any token.    *)
(***************************************************************************)
EXTENDS Naturals, SequencesExt

Decisions == {"allow", "ask", "deny"}
\* _DECISIONS: the order in which the lists are written.
DecisionOrder == <<"allow", "ask", "deny">>
Punctuation == {"{", "}", "[", "]", ":", ",", "//", "/*", "*/", "end"}
NL == "nl"
IsWord(token) == token \notin Punctuation \cup {NL}

\* The JSON value of a scalar: one spelling of Read is quoted in the other way.
Decode(word) == IF word = "'Read'" THEN "Read" ELSE word
\* What parse_rule and serialize make of a JSON value.  Read(*) is another value for the
\* rule Read; typo is no rule.
NoRule == "no rule"
Canonical(value) ==
    CASE value = "Read(*)" -> "Read" [] value = "typo" -> NoRule [] OTHER -> value

-----------------------------------------------------------------------------
(* The parser: a node is the span of a value, with the value of a scalar or the   *)
(* parts of a container.                                                           *)

At(text, i) == IF i \in DOMAIN text THEN text[i] ELSE "end"

\* The first index from i on that holds the token, or one past the end.
Find(text, i, token) == Min({j \in i..Len(text) : text[j] = token} \cup {Len(text) + 1})

\* The first index from i on that is in no comment and no line end.  An open block
\* comment runs beyond the end.
RECURSIVE SkipTrivia(_, _)
SkipTrivia(text, i) ==
    CASE At(text, i) = NL -> SkipTrivia(text, i + 1)
      [] At(text, i) = "//" -> SkipTrivia(text, Find(text, i, NL))
      [] At(text, i) = "/*" -> SkipTrivia(text, Find(text, i, "*/") + 1)
      [] OTHER -> i

NoKey == "no key"
NoNode ==
    [ok |-> FALSE, kind |-> "none", start |-> 0, end |-> 0, value |-> NoKey, parts |-> <<>>]
Closer(open) == IF open = "{" THEN "}" ELSE "]"

RECURSIVE Parts(_, _, _, _)
RECURSIVE ParseValue(_, _)

\* The members or items from i on, after those in parts, up to the closing delimiter.
Parts(text, open, i, parts) ==
    LET first == SkipTrivia(text, i)
        key == IF open = "{" THEN Decode(At(text, first)) ELSE NoKey
        colon == SkipTrivia(text, first + 1)
        value == ParseValue(text, IF open = "{" THEN colon + 1 ELSE first)
        after == SkipTrivia(text, value.end + 1)
        Part(comma) == [key |-> key, value |-> value, comma |-> comma]
    IN CASE At(text, first) = Closer(open) -> [ok |-> TRUE, close |-> first, parts |-> parts]
         [] At(text, first) # Closer(open)
              /\ (open = "{" => IsWord(At(text, first)) /\ At(text, colon) = ":")
              /\ value.ok /\ At(text, after) \in {Closer(open), ","} ->
                IF At(text, after) = "," THEN Parts(text, open, after + 1, Append(parts, Part(after)))
                ELSE [ok |-> TRUE, close |-> after, parts |-> Append(parts, Part(0))]
         [] OTHER -> [ok |-> FALSE, close |-> 0, parts |-> <<>>]

ParseValue(text, i) ==
    LET start == SkipTrivia(text, i)
        body == Parts(text, At(text, start), start + 1, <<>>)
    IN CASE At(text, start) \in {"{", "["} /\ body.ok ->
                [NoNode EXCEPT !.ok = TRUE, !.kind = At(text, start), !.start = start,
                               !.end = body.close, !.parts = body.parts]
         [] IsWord(At(text, start)) ->
                [NoNode EXCEPT !.ok = TRUE, !.kind = "scalar", !.start = start, !.end = start,
                               !.value = Decode(At(text, start))]
         [] OTHER -> NoNode

\* The document, if it is an object and nothing but trivia follows it.
Decoded(text) ==
    LET root == ParseValue(text, 1)
    IN IF root.kind = "{" /\ SkipTrivia(text, root.end + 1) = Len(text) + 1 THEN root
       ELSE NoNode

RECURSIVE KeysUnique(_)
KeysUnique(node) ==
    /\ \A i, j \in DOMAIN node.parts :
        node.parts[i].key = node.parts[j].key /\ i # j => node.kind # "{"
    /\ \A i \in DOMAIN node.parts : KeysUnique(node.parts[i].value)
\* An edit refuses a text in which a key is given twice.
ParseDocument(text) ==
    LET root == Decoded(text) IN IF KeysUnique(root) THEN root ELSE NoNode

\* The value of a key, the last one as JSON decoders choose.
Member(node, key) ==
    LET at == {i \in DOMAIN node.parts : node.parts[i].key = key}
    IN IF at = {} THEN NoNode ELSE node.parts[Max(at)].value

-----------------------------------------------------------------------------
(* The loader. *)

Values(array) ==
    [i \in DOMAIN array.parts |->
        LET item == array.parts[i].value IN IF item.kind = "scalar" THEN item.value ELSE "typo"]

\* The values in a decision's list, and the rules they are.  What is no rule is skipped.
RawList(root, d) ==
    LET array == Member(Member(root, "permissions"), d)
    IN IF array.kind = "[" THEN Values(array) ELSE <<>>
\* Mutant: what is no rule is written back as it is.
RulesOfRaw(raw) == raw
RulesOf(raw) ==
    SelectSeq([i \in DOMAIN raw |-> Canonical(raw[i])], LAMBDA rule : rule # NoRule)
Rules(root, d) == RulesOf(RawList(root, d))

\* shell.redirection stands as one setting; a value that is no decision is ignored.
Unset == "unset"
RawSetting(root) ==
    LET node == Member(root, "shell") IN IF node.kind = "scalar" THEN node.value ELSE Unset
Setting(root) == IF RawSetting(root) \in Decisions THEN RawSetting(root) ELSE Unset

\* The top-level keys in order, each once.
Once(seq) == FoldLeft(LAMBDA done, x : IF Contains(done, x) THEN done ELSE Append(done, x), <<>>, seq)
TopKeys(root) == Once([i \in DOMAIN root.parts |-> root.parts[i].key])

\* save_policy_file: every key the file had (unknown ones hold scalars here), the
\* permissions and the setting as given.  version, which is added when it is missing, and
\* python.calls are left out.
Separated(pieces) ==
    FlattenSeq([i \in DOMAIN pieces |->
        pieces[i] \o (IF i < Len(pieces) THEN <<",", NL>> ELSE <<NL>>)])
List(rules) ==
    IF rules = <<>> THEN <<"[", "]">>
    ELSE <<"[", NL>> \o Separated([i \in DOMAIN rules |-> <<rules[i]>>]) \o <<"]">>
Permissions(lists) ==
    <<"{", NL>> \o Separated([i \in DOMAIN DecisionOrder |->
        <<DecisionOrder[i], ":">> \o List(Once(lists[DecisionOrder[i]]))]) \o <<"}">>
Save(root, lists, setting) ==
    LET keys == Once(TopKeys(root) \o <<"permissions">>
                     \o (IF setting = Unset THEN <<>> ELSE <<"shell">>))
        Rendered(key) ==
            CASE key = "permissions" -> Permissions(lists)
              [] key = "shell" -> <<setting>>
              [] OTHER -> <<Member(root, key).value>>
    IN <<"{", NL>> \o Separated([i \in DOMAIN keys |-> <<keys[i], ":">> \o Rendered(keys[i])])
                   \o <<"}", NL>>

\* The texts that _new_policy_text and write_default_policy give a missing file.
NewPolicyText == <<"{", NL, "permissions", ":", "{", "}", NL, "}", NL>>
DefaultText == Save(NoNode, [d \in Decisions |-> <<>>], Unset)

-----------------------------------------------------------------------------
(* Edits of a text with its document that change only what they must.  The result *)
(* of one that is refused is the text Refused.                                     *)

Refused == <<>>
Multiline(text, node) == Contains(SubSeq(text, node.start, node.end), NL)

\* After the last part, if it has no comma yet.
NeedsComma(node) == node.parts # <<>> /\ Last(node.parts).comma = 0
\* Mutant: the comma goes before the closing delimiter, behind what a comment hides.
WithCommaAtClose(text, node) ==
    IF NeedsComma(node)
    THEN InsertAt(text, IF text[node.end - 1] = NL THEN node.end - 1 ELSE node.end, ",")
    ELSE text
WithComma(text, node) ==
    IF NeedsComma(node) THEN InsertAt(text, Last(node.parts).value.end + 1, ",") ELSE text

Splice(text, i, tokens) == SubSeq(text, 1, i - 1) \o tokens \o SubSeq(text, i, Len(text))
\* On lines of its own before the closing delimiter, or on the line of it.
AppendPart(text, node, tokens) ==
    LET commaed == WithComma(text, node)
        close == node.end + Len(commaed) - Len(text)
        before == IF commaed[close - 1] = NL THEN <<>> ELSE <<NL>>
    IN Splice(commaed, close,
              IF Multiline(text, node) THEN before \o tokens \o <<NL>> ELSE tokens)

DecisionArray(d, rule) == <<d, ":", "[", NL, rule, NL, "]">>
InsertDecisionArray(text, permissions, d, rule) ==
    AppendPart(text, permissions, DecisionArray(d, rule))
InsertPermissions(text, root, d, rule) ==
    AppendPart(text, root, <<"permissions", ":", "{", NL>> \o DecisionArray(d, rule) \o <<NL, "}">>)

\* A decision that is given must be an array, in every edit.
Editable(permissions) ==
    /\ permissions.kind = "{"
    /\ \A d \in Decisions : Member(permissions, d).kind \in {"none", "["}
Matching(array, value) == {i \in DOMAIN array.parts : Values(array)[i] = Decode(value)}

AddRule(text, root, d, value) ==
    LET permissions == Member(root, "permissions")
        array == Member(permissions, d)
        rule == Canonical(Decode(value))
        matches == Matching(array, rule)
    IN CASE ~root.ok \/ rule = NoRule -> Refused
         [] root.ok /\ rule # NoRule /\ ~permissions.ok -> InsertPermissions(text, root, d, rule)
         [] root.ok /\ rule # NoRule /\ Editable(permissions) ->
               CASE ~array.ok -> InsertDecisionArray(text, permissions, d, rule)
                 [] array.ok /\ matches = {} -> AppendPart(text, array, <<rule>>)
                 [] array.ok /\ Cardinality(matches) = 1 -> text
                 [] OTHER -> Refused
         [] OTHER -> Refused

\* The array, of an editable document, of a decision that one value matches.
TheMatch(root, d, value) ==
    LET permissions == Member(root, "permissions")
        array == Member(permissions, d)
    IN IF Editable(permissions) /\ array.ok /\ Cardinality(Matching(array, value)) = 1
       THEN [array |-> array, index |-> Max(Matching(array, value))]
       ELSE [array |-> NoNode, index |-> 0]

ReplaceRule(text, root, d, old, value) ==
    LET found == TheMatch(root, d, old)
        rule == Canonical(Decode(value))
    IN IF found.index = 0 \/ rule = NoRule
          \/ Matching(found.array, rule) \ {found.index} # {} THEN Refused
       ELSE ReplaceAt(text, found.array.parts[found.index].value.start, rule)

Without(text, spans) ==
    FoldLeft(LAMBDA rest, i : IF i \in spans THEN rest ELSE Append(rest, text[i]),
             <<>>, [i \in DOMAIN text |-> i])
\* With the comma behind it, or else the one before.
RemoveRule(text, root, d, value) ==
    LET found == TheMatch(root, d, value)
        part == found.array.parts[found.index]
        spans == {part.value.start} \cup
                 (CASE part.comma # 0 -> {part.comma}
                    [] part.comma = 0 /\ found.index > 1 -> {found.array.parts[found.index - 1].comma}
                    [] OTHER -> {})
    IN IF found.index = 0 THEN Refused
       ELSE Without(text, spans)
=============================================================================
