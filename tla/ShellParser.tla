----------------------------- MODULE ShellParser -----------------------------
(***************************************************************************)
(* From the syntax tree of a command line to the segments that the policy  *)
(* judges (shell.py): every construct, substitutions wherever they stand,  *)
(* redirections, and the wrappers bash -c, eval, env, nohup and the like.  *)
(*                                                                         *)
(* The trees are those of the Tree-sitter library as shell.py reads them.  *)
(* A line is grown construct by construct.  The spelling of words and what *)
(* a segment is given as its input are left out.                           *)
(***************************************************************************)
EXTENDS Naturals, SequencesExt

CONSTANTS
    Simple,     \* bound: the nodes lines are grown from
    Beside,     \* bound: the nodes put next to one, or taking a substitution
    Execs,      \* bound: what is put before a command, as in env X=1
    Programs,   \* bound: what is put before a program text, as in bash -c
    Late,       \* bound: the words found behind a redirection
    MaxDepth    \* bound: constructs around a node

ASSUME BoundsAssumption == MaxDepth \in Nat

VARIABLES line, depth
vars == <<line, depth>>

-----------------------------------------------------------------------------
(* Trees.  A word is a sequence of letters or parts; one that is quoted may hold a  *)
(* program, and one with a substitution holds the commands substituted.             *)

Word(letters) == [letters |-> letters, kind |-> "plain", body |-> <<>>]
Quoted(node) == [letters |-> <<"text">>, kind |-> "text", body |-> <<node>>]
Substitution(kind, node) == [letters |-> <<"sub">>, kind |-> kind, body |-> <<node>>]
Substitutes == {"command", "process"}

\* aside are words of which only the substitutions matter: assignments before a command,
\* subjects, patterns, what a loop runs over, the expression of a test.
Node(type, aside, words, parts, files) ==
    [type |-> type, aside |-> aside, words |-> words, parts |-> parts, files |-> files]
Command(words) == Node("command", <<>>, words, <<>>, <<>>)
Broken == Node("broken", <<>>, <<>>, <<>>, <<>>)
\* A redirection to a file, with the words behind it, or a heredoc.
File(target, late) == [here |-> FALSE, target |-> target, late |-> late]
Heredoc(body) == [here |-> TRUE, target |-> body, late |-> <<>>]

Segment(argv, redirects) == [ok |-> TRUE, argv |-> argv, redirects |-> redirects]
Unsupported == [ok |-> FALSE, argv |-> <<>>, redirects |-> <<>>]
Failed == <<Unsupported>>
Marker == Word(<<"[">>)

-----------------------------------------------------------------------------
(* Wrappers. *)

IsOption(word) == word.letters[1] \in {"-", "--"} /\ Len(word.letters) > 1
IsCluster(word) == word.letters[1] = "-" /\ Len(word.letters) > 1
Options(word) == ToSet(Tail(word.letters))
IsEnd(word) == word.letters = <<"--">>
IsAssignment(word) == Contains(word.letters, "=")
Name(argv) == argv[1].letters[1]

Shells == {"bash", "sh", "zsh"}
NoArgShellFlags == {"e", "f", "i", "l", "m", "n", "p", "s", "t", "u", "v", "x"}
NoArgOptions ==
    [command |-> {"p", "v", "V"}, exec |-> {"c", "l"}, nohup |-> {}, setsid |-> {"c", "f", "w"},
     env |-> {"i"}, nice |-> {}, time |-> {"p"}]
OpaqueWrappers ==
    {"timeout", "sudo", "doas", "su", "runuser", "xargs", "stdbuf", "ionice", "chrt", "setarch",
     "setpriv", "unshare", "watch", "parallel", "flock", "eval"}

IsSafeBundle(word) ==
    IsCluster(word) /\ Last(word.letters) = "c" /\ Options(word) \ {"c"} \subseteq NoArgShellFlags
IsNoArgCluster(word) == IsCluster(word) /\ Options(word) \subseteq NoArgShellFlags

\* command -v only says what a name stands for.  Mutant: only the first option is looked at.
FirstOptionLookup(argv) ==
    /\ Len(argv) > 1 /\ Name(argv) = "command"
    /\ IsOption(argv[2]) /\ Options(argv[2]) \cap {"v", "V"} # {}
IsCommandLookup(argv) ==
    argv # <<>> /\ Name(argv) = "command" /\
    \E i \in 2..Len(argv) :
        /\ \A j \in 2..i : IsOption(argv[j])
        /\ Options(argv[i]) \cap {"v", "V"} # {}

\* A shell with a command flag that is not unwrapped.  c is one only behind letters that
\* take no argument.  Mutant: only in a flag that could be unwrapped.
BundleIsOpaque(argv) ==
    argv # <<>> /\ Name(argv) \in Shells /\ \E i \in 2..Len(argv) : IsSafeBundle(argv[i])
IsOpaqueShell(argv) ==
    /\ argv # <<>> /\ Name(argv) \in Shells
    /\ \E i \in 2..Len(argv) :
        LET letters == argv[i].letters
        IN /\ \A j \in 2..i : ~IsEnd(argv[j])
           /\ IsCluster(argv[i])
           /\ \E c \in 2..Len(letters) :
                letters[c] = "c" /\ ToSet(SubSeq(letters, 2, c - 1)) \subseteq NoArgShellFlags
\* Evaluation asks about such a segment unless a rule matches it.
Asked(argv) ==
    /\ argv # <<>> /\ ~IsCommandLookup(argv)
    /\ IsOpaqueShell(argv) \/ Name(argv) \in DOMAIN NoArgOptions \cup OpaqueWrappers

-----------------------------------------------------------------------------
(* The segments of a tree. *)

Kept(words) == SelectSeq(words, LAMBDA word : word.kind \notin Substitutes)
Concat(f(_), seq) == FlattenSeq([i \in DOMAIN seq |-> f(seq[i])])

\* The text of words joined with blanks: one quoted program, or plain words.
Program(words) ==
    IF Len(words) = 1 /\ words[1].kind = "text" THEN words[1].body[1] ELSE Command(words)

RECURSIVE Extract(_), ParsePipeline(_), Unwrapped(_), Substituted(_)

\* The segments of the commands substituted in words.
Substituted(words) ==
    LET Inner(word) == IF word.kind \in Substitutes THEN Concat(Extract, word.body) ELSE <<>>
    IN Concat(Inner, words)

\* Failed if anything in the tree is not understood.
ParsePipeline(node) ==
    LET segments == Extract(node)
    IN IF \E i \in DOMAIN segments : ~segments[i].ok THEN Failed ELSE segments

\* The program after -c, if only options without arguments come before.
UnwrapShell(argv) ==
    LET flag == SelectInSeq(Tail(argv), LAMBDA word : ~IsNoArgCluster(word)) + 1
    IN IF /\ Len(argv) >= 3 /\ Name(argv) \in Shells
          /\ flag \in 2..(Len(argv) - 1) /\ IsSafeBundle(argv[flag])
       THEN ParsePipeline(Program(<<argv[flag + 1]>>)) ELSE Failed

\* The command after the options of a wrapper, unwrapped in its turn.
UnwrapExec(argv) ==
    LET intact == <<Segment(argv, <<>>)>>
        Skipped(word) ==
            \/ Name(argv) = "env" /\ IsAssignment(word)
            \/ IsCluster(word) /\ Options(word) \subseteq NoArgOptions[Name(argv)]
        first == SelectInSeq(Tail(argv), LAMBDA word : ~Skipped(word)) + 1
        start == IF IsEnd(argv[first]) THEN first + 1 ELSE first
        inner == SubSeq(argv, start, Len(argv))
        evaluated == ParsePipeline(Program(Tail(argv)))
    IN CASE argv = <<>> \/ Len(argv) = 1 -> intact
         [] Len(argv) > 1 /\ Name(argv) = "eval" ->
                IF evaluated = Failed THEN intact ELSE evaluated
         [] Len(argv) > 1 /\ Name(argv) \in DOMAIN NoArgOptions /\ ~IsCommandLookup(argv) ->
                IF first = 1 \/ IsOption(argv[first]) \/ inner = <<>> THEN intact
                ELSE Unwrapped(inner)
         [] OTHER -> intact

\* A shell's program, or what is behind another wrapper.
Unwrapped(argv) ==
    LET program == UnwrapShell(argv)
    IN IF program # Failed THEN program ELSE UnwrapExec(argv)

\* A file, the words behind it and what is substituted.  A process substitution is no
\* file, and what follows it takes its place.
Redirect(file) ==
    LET operands == SelectSeq(<<file.target>> \o file.late, LAMBDA word : word.kind # "process")
        none == file.here \/ operands = <<>>
    IN [redirects |-> IF none THEN <<>> ELSE <<Head(operands)>>,
        late |-> IF none THEN <<>> ELSE Kept(Tail(operands)),
        inner |-> Substituted(<<file.target>> \o file.late)]

\* What may stand before a redirection, apart from a command.
Redirectable == {"control", "predicate", "declaration"}
\* Redirections and the words behind them go to the last segment; the words behind a
\* shell's program do not.
ExtractRedirected(node) ==
    LET body == node.parts
        direct == body # <<>> /\ body[1].type = "command"
        argv == Kept(body[1].words)
        shell == direct /\ UnwrapShell(argv) # Failed
        segments ==
            CASE body = <<>> -> <<>>
              [] direct -> Unwrapped(argv)
              [] body # <<>> /\ body[1].type \in Redirectable -> Extract(body[1])
              [] OTHER -> Failed
        read == [i \in DOMAIN node.files |-> Redirect(node.files[i])]
        redirects == Concat(LAMBDA r : r.redirects, read)
        late == Concat(LAMBDA r : r.late, read)
        inner == (IF direct THEN Substituted(body[1].aside \o body[1].words) ELSE <<>>)
                    \o Concat(LAMBDA r : r.inner, read)
    IN CASE segments = <<>> /\ late # <<>> -> Failed
         [] segments = <<>> /\ late = <<>> -> <<Segment(<<>>, redirects)>> \o inner
         [] OTHER ->
                Front(segments)
                \o <<[Last(segments) EXCEPT
                        !.argv = @ \o (IF shell THEN <<>> ELSE late),
                        !.redirects = @ \o redirects]>>
                \o inner

Extract(node) ==
    LET argv == Kept(node.words)
        inner == Substituted(node.aside \o node.words)
    IN CASE node.type = "command" -> Unwrapped(argv) \o inner
         [] node.type = "redirected" -> ExtractRedirected(node)
         [] node.type \in {"control", "for"} -> inner \o Concat(Extract, node.parts)
         [] node.type = "predicate" -> <<Segment(<<Marker>>, <<>>)>> \o inner
         [] node.type = "assignment" -> inner
         [] node.type = "declaration" -> <<Segment(argv, <<>>)>> \o inner
         [] OTHER -> Failed

-----------------------------------------------------------------------------
(* Lines. *)

Init == line \in Simple /\ depth = 0

Grow(node) == depth < MaxDepth /\ depth' = depth + 1 /\ line' = node

\* env X=1 line
Prefix ==
    \E exec \in Execs :
        line.type = "command" /\ Grow([line EXCEPT !.words = exec \o @])
\* bash -c 'line' word
Wrap ==
    \E program \in Programs, late \in Late \cup {<<>>} :
        /\ Name(program) = "eval" => late = <<>>
        /\ Grow(Command(program \o <<Quoted(line)>> \o late))
\* cmd $(line), $(line), X=$(line) cmd, X=$(line), export $(line), [ $(line) ], for x in ..
Substitute ==
    \E kind \in Substitutes :
        LET word == Substitution(kind, line)
        IN \/ Grow(Command(<<word>>))
           \/ \E node \in Beside :
                Grow([node EXCEPT !.words = Append(@, word)]) \/ Grow([node EXCEPT !.aside = <<word>>])
           \/ Grow(Node("declaration", <<>>, <<Word(<<"export">>), word>>, <<>>, <<>>))
           \/ \E type \in {"assignment", "predicate"} : Grow(Node(type, <<word>>, <<>>, <<>>, <<>>))
           \/ \E type \in {"for", "control"}, node \in Beside :
                Grow(Node(type, <<word>>, <<>>, <<node>>, <<>>))
\* line; line, line && line, line | line, if, while, case, functions, groups; loops with for
Group ==
    \E type \in {"control", "for"}, node \in Beside :
        \/ Grow(Node(type, <<>>, <<>>, <<line, node>>, <<>>))
        \/ Grow(Node(type, <<>>, <<>>, <<node, line>>, <<>>))
\* line > file word, line > $(line), cat <<EOF
RedirectLine ==
    \E late \in Late \cup {<<>>}, node \in Beside, kind \in Substitutes :
        LET word == Substitution(kind, line)
            file == Word(<<"file">>)
        IN \/ line.type # "redirected"
                /\ Grow(Node("redirected", <<>>, <<>>, <<line>>, <<File(file, late)>>))
           \/ Grow(Node("redirected", <<>>, <<>>, <<node>>, <<File(word, <<>>)>>))
           \/ Grow(Node("redirected", <<>>, <<>>, <<node>>, <<File(file, <<word>> \o late)>>))
           \/ Grow(Node("redirected", <<>>, <<>>, <<node>>, <<File(file, late), Heredoc(word)>>))
           \/ Grow(Node("redirected", <<>>, <<>>, <<>>, <<File(file, <<>>), File(word, <<>>)>>))

Next == Prefix \/ Wrap \/ Substitute \/ Group \/ RedirectLine
Spec == Init /\ [][Next]_vars

-----------------------------------------------------------------------------
(* What a line does when it runs, found without the parser: commands, files and     *)
(* late words, each with the wrappers it is started through.                        *)

Run(argv, through) == [what |-> "command", words |-> argv, through |-> through]
Written(target, through) == [what |-> "file", words |-> <<target>>, through |-> through]
\* A command nobody can name.
Anything == <<Word(<<"anything">>)>>

RECURSIVE Effects(_, _), Started(_, _)
\* By a command with these words.
Started(argv, through) ==
    LET own == {Run(argv, through)}
        deeper == through \cup {argv}
        rest == Tail(argv)
        operand == SelectInSeq(rest, LAMBDA word : ~IsOption(word) /\ ~IsEnd(word) /\ ~IsAssignment(word))
        options == {rest[i] : i \in {j \in 1..(operand - 1) : IsOption(rest[j])}}
        lookup == Name(argv) = "command" /\ \E word \in options : Options(word) \cap {"v", "V"} # {}
        flag == SelectInSeq(rest, LAMBDA word : IsCluster(word) /\ "c" \in Options(word))
    IN CASE argv = <<>> -> own
         [] argv # <<>> /\ Name(argv) \in Shells /\ flag \in 1..(Len(rest) - 1) ->
                Effects(Program(<<rest[flag + 1]>>), deeper)
         [] argv # <<>> /\ Name(argv) = "eval" /\ rest # <<>> -> Effects(Program(rest), deeper)
         [] argv # <<>> /\ Name(argv) \in OpaqueWrappers \ {"eval"} -> {Run(Anything, deeper)}
         [] argv # <<>> /\ Name(argv) \in DOMAIN NoArgOptions /\ ~lookup /\ operand > 0 ->
                IF \A word \in options : Options(word) \subseteq NoArgOptions[Name(argv)]
                THEN Started(SubSeq(rest, operand, Len(rest)), deeper)
                ELSE {Run(Anything, deeper)}
         [] OTHER -> own

Effects(node, through) ==
    LET targets == {node.files[i].target : i \in DOMAIN node.files}
        files == {node.files[i].target : i \in {j \in DOMAIN node.files : ~node.files[j].here}}
        late == UNION {ToSet(node.files[i].late) : i \in DOMAIN node.files}
        words == ToSet(node.aside) \cup ToSet(node.words) \cup targets \cup late
        within == ToSet(node.parts) \cup
                  UNION {ToSet(word.body) : word \in {w \in words : w.kind \in Substitutes}}
    IN UNION {Effects(inner, through) : inner \in within}
       \cup {Written(target, through) : target \in {t \in files : t.kind # "process"}}
       \cup CASE node.type = "command" -> Started(Kept(node.words), through)
              [] node.type = "declaration" -> {Run(Kept(node.words), through)}
              [] node.type = "predicate" -> {Run(<<Marker>>, through)}
              [] node.type = "broken" -> {Run(Anything, through)}
              [] OTHER -> {}

-----------------------------------------------------------------------------
(* Properties. *)

Segments == ParsePipeline(line)
\* The same words, and perhaps some from behind a redirection.
Extended(argv, words) ==
    /\ IsPrefix(words, argv)
    /\ ToSet(SubSeq(argv, Len(words) + 1, Len(argv))) \subseteq UNION {ToSet(late) : late \in Late}
Shows(segment, effect) ==
    \/ effect.what = "command" /\ Extended(segment.argv, effect.words)
    \/ effect.what = "file" /\ Contains(segment.redirects, effect.words[1])
    \/ Asked(segment.argv) /\ \E argv \in effect.through : Extended(segment.argv, argv)

\* Every command a line may start and every file it redirects to, in whatever construct,
\* substitution, program text or wrapper, is in a segment, or behind a wrapper that is
\* asked about, unless the whole line is (shell.py _extract_segments and
\* docs/architecture.md: an unknown command hidden later in the same program).
NothingLost ==
    LET segments == Segments
    IN segments # Failed =>
        \A effect \in Effects(line, {}) : \E i \in DOMAIN segments : Shows(segments[i], effect)

\* No segment is a command that the line does not start: neither patterns, subjects and
\* file names nor what a wrapper is given besides its program are judged as commands.
NothingInvented ==
    LET segments == Segments
        commands == {effect \in Effects(line, {}) : effect.what = "command"}
    IN segments # Failed =>
        \A i \in DOMAIN segments :
            segments[i].argv # <<>> => \E effect \in commands : Shows(segments[i], effect)
=============================================================================
