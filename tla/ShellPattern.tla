---------------------------- MODULE ShellPattern ----------------------------
(***************************************************************************)
(* The pattern language of Shell rules, src/agentperm/shellpattern.py: the *)
(* parser reads the terms of one pattern, then a command of growing length *)
(* is matched against it, as a rule that allows and as one that denies.    *)
(*                                                                         *)
(* An argument, a glob and a term's member are sequences of parts: "-" or  *)
(* "--" first, the letters of a cluster one by one, a name or a value in   *)
(* one part, "=" and quotes on their own.                                  *)
(***************************************************************************)
EXTENDS Naturals, FiniteSets, SequencesExt

CONSTANTS
    Texts,      \* the patterns, each a sequence of terms as shell_tokens.tokenize cuts it
    Programs,   \* the first arguments
    Arguments,  \* the other arguments
    Inputs,     \* the literal standard inputs, None among them
    Strangers,  \* options to put into a command, without values of their own
    MaxLength   \* bound: arguments of a command

ASSUME LengthAssumption == MaxLength \in Nat

VARIABLES
    text,     \* the terms still to be read
    pattern,  \* what they were read into
    status,   \* "reading", "ready" or "refused"
    argv,     \* the command
    stdin     \* its literal input

vars == <<text, pattern, status, argv, stdin>>

None == <<"none">>
Dashes == <<"--">>
IsFlag(arg) == arg = Dashes \/ (Len(arg) > 1 /\ Head(arg) \in {"-", "--"})
IsLong(arg) == Head(arg) = "--"

\* A flag with its value, as in --flag=value.
Equals(arg) == SelectInSeq(arg, LAMBDA part : part = "=")
AtomOf(arg) == IF Equals(arg) = 0 THEN arg ELSE SubSeq(arg, 1, Equals(arg) - 1)
ValueOf(arg) == SubSeq(arg, Equals(arg) + 1, Len(arg))
ValidName(flag) == Len(flag) > 1 /\ ToSet(flag) \cap {"=", "*"} = {}

ASSUME StrangerAssumption ==
    \A option \in Strangers :
        option \in Seq(STRING) /\ IsFlag(option) /\ option # Dashes /\ Equals(option) = 0

ASSUME NoneAssumption == None \notin Programs \cup Arguments

Empty == [path |-> <<>>, flags |-> {}, sets |-> {}, values |-> {}, sql |-> {},
          closed |-> FALSE, open |-> FALSE, exact |-> FALSE,
          only |-> FALSE, arity |-> FALSE, stdin |-> FALSE]

Init ==
    /\ text \in Texts /\ stdin \in Inputs
    /\ pattern = Empty /\ status = "reading" /\ argv = <<>>

-----------------------------------------------------------------------------
(* The parser: a term is a sigil, a kind and members. *)

Term == Head(text)
Members == ToSet(Term.members)
Capture(kind) == [kind |-> kind, globs |-> {}, negated |-> FALSE]
OneOf(globs, negated) == [kind |-> "word", globs |-> globs, negated |-> negated]
Constraint(atom, disposition, glob) == [atom |-> atom, disposition |-> disposition, glob |-> glob]

AllFlags == \A m \in Members : IsFlag(m)
AllNamed == \A m \in Members : IsFlag(m) /\ ValidName(m)

\* The errors of a single term.
Plain == Term.sigil = ""
Accepted ==
    CASE Term.kind = "gap" -> Term.sigil # "?"
      [] Term.kind \in {"dashes", "sql", "shell", "exec", "word"} -> Plain
      [] Term.kind = "stdin" -> Plain /\ ~pattern.stdin
      [] Term.kind = "sqlvalues" -> Plain /\ Members # {} /\ AllNamed
      [] Term.kind = "anyflag" -> Term.sigil # "?"
      [] Term.kind = "only" -> Plain /\ ~pattern.only /\ AllNamed
      [] Term.kind = "values" -> Plain /\ ~pattern.arity /\ AllNamed
      [] Term.kind = "flag" ->
            /\ \A m \in Members : ValidName(AtomOf(m))
            /\ ~Plain => \A m \in Members : Equals(m) = 0
      [] Term.kind = "set" ->
            IF AllFlags THEN AllNamed
            ELSE Term.sigil # "?" /\ \A m \in Members : ~IsFlag(m)

Read(kind) == status = "reading" /\ text # <<>> /\ Accepted /\ Term.kind = kind
Keep(read) == pattern' = read /\ text' = Tail(text) /\ UNCHANGED <<status, argv, stdin>>
OnPath(term) == Keep([pattern EXCEPT !.path = Append(@, term)])
Constrained(disposition) == {Constraint(m, disposition, None) : m \in Members}

ReadGap ==
    /\ Read("gap")
    /\ IF Plain THEN OnPath(Capture("gap")) ELSE Keep([pattern EXCEPT !.exact = TRUE])
ReadDashes == Read("dashes") /\ OnPath(OneOf({Dashes}, FALSE))
ReadCapture == \E kind \in {"sql", "shell", "exec"} : Read(kind) /\ OnPath(Capture(kind))
ReadStdin == Read("stdin") /\ Keep([pattern EXCEPT !.stdin = TRUE])
ReadSqlValues ==
    /\ Read("sqlvalues")
    /\ Keep([pattern EXCEPT !.values = @ \cup Members, !.sql = @ \cup {Members}])
ReadAnyFlag ==
    /\ Read("anyflag")
    /\ Keep(IF Plain THEN [pattern EXCEPT !.open = TRUE] ELSE [pattern EXCEPT !.closed = TRUE])
ReadOnly ==
    /\ Read("only")
    /\ Keep([pattern EXCEPT !.only = TRUE, !.closed = TRUE, !.flags = @ \cup Constrained("permitted")])
ReadValues ==
    /\ Read("values")
    /\ Keep([pattern EXCEPT !.arity = TRUE, !.values = @ \cup Members])

Disposition == [sigil \in {"", "!", "?"} |->
    CASE sigil = "!" -> "forbidden" [] sigil = "?" -> "permitted" [] OTHER -> "required"]
ReadFlag ==
    LET m == Term.members[1]
        glob == IF Equals(m) = 0 THEN None ELSE ValueOf(m)
    IN /\ Read("flag")
       /\ Keep([pattern EXCEPT
            !.flags = @ \cup {Constraint(AtomOf(m), Disposition[Term.sigil], glob)},
            !.values = @ \cup (IF glob = None THEN {} ELSE {AtomOf(m)})])
ReadFlagSet ==
    /\ Read("set") /\ AllFlags
    /\ Keep(IF Plain THEN [pattern EXCEPT !.sets = @ \cup {Members}]
            ELSE [pattern EXCEPT !.flags = @ \cup Constrained(Disposition[Term.sigil])])
ReadWords ==
    \/ Read("set") /\ ~AllFlags /\ OnPath(OneOf(Members, Term.sigil = "!"))
    \/ Read("word") /\ OnPath(OneOf(Members, FALSE))

\* What is checked when all terms are read.
Kinds == [i \in DOMAIN pattern.path |-> pattern.path[i].kind]
Complete ==
    /\ pattern.path # <<>>
    /\ ~(pattern.closed /\ pattern.open)
    /\ Contains(Kinds, "exec") =>
        /\ ~Contains(Front(Kinds), "exec") /\ ToSet(Kinds) \subseteq {"word", "exec"}
        /\ pattern.flags = {} /\ pattern.sets = {} /\ pattern.values = {}
Refused == status = "reading" /\ IF text = <<>> THEN ~Complete ELSE ~Accepted
Refuse == Refused /\ status' = "refused" /\ UNCHANGED <<text, pattern, argv, stdin>>
Finish ==
    /\ status = "reading" /\ text = <<>> /\ Complete
    /\ status' = "ready" /\ UNCHANGED <<text, pattern, argv, stdin>>

-----------------------------------------------------------------------------
(* The reading of a command: operands, the flags seen, and the values of each. *)

\* The longest value flag that a short argument begins with.
ShortPrefixes(arg, values) ==
    {f \in values : ~IsLong(f) /\ Len(f) < Len(arg) /\ IsPrefix(f, arg)}
Letters(arg) == {<<"-", letter>> : letter \in ToSet(Tail(arg))}
\* A value that looks like a flag counts as one.  Mutant: it does not.
ConsumedIgnored(arg, values) == {}
ConsumedAtoms(arg, values) ==
    LET prefixes == ShortPrefixes(arg, values)
    IN CASE ~IsFlag(arg) \/ arg = Dashes -> {}
         [] IsFlag(arg) /\ arg # Dashes /\ IsLong(arg) -> {AtomOf(arg)}
         [] IsFlag(arg) /\ ~IsLong(arg) /\ prefixes # {} ->
                {CHOOSE f \in prefixes : \A g \in prefixes : Len(g) <= Len(f)}
         [] OTHER -> Letters(arg)

Quotes == {"'", "\""}
Attached(value) ==
    IF Len(value) >= 2 /\ Head(value) \in Quotes /\ Last(value) = Head(value)
    THEN SubSeq(value, 2, Len(value) - 1) ELSE value

\* The state of split_and_normalize: awaited is the flag whose value comes next.
Start(program) ==
    [operands |-> <<program>>, optional |-> {}, atoms |-> {}, values |-> {},
     past |-> FALSE, unknown |-> FALSE, awaited |-> None]
\* values holds pairs of a flag and a value; a missing one is None.
See(s, atoms, pairs) == [s EXCEPT !.atoms = @ \cup atoms, !.values = @ \cup pairs, !.unknown = FALSE]

TakeValue(s, arg, values) ==
    [See(s, ConsumedAtoms(arg, values), {<<s.awaited, IF IsFlag(arg) THEN None ELSE arg>>})
        EXCEPT !.awaited = None]
\* Mutant: what follows an unknown option is an operand for sure.
TakeOperandForSure(s, arg) == [s EXCEPT !.operands = Append(@, arg), !.unknown = FALSE]
TakeOperand(s, arg) ==
    LET operands == Append(s.operands, arg)
    IN [s EXCEPT !.operands = operands, !.unknown = FALSE,
                 !.optional = @ \cup (IF s.unknown THEN {Len(operands)} ELSE {})]
TakeDashes(s, keepDashes) ==
    [s EXCEPT !.past = TRUE, !.unknown = FALSE,
              !.operands = IF keepDashes THEN Append(@, Dashes) ELSE @]
TakeLong(s, arg, values, known) ==
    CASE Equals(arg) # 0 -> See(s, {AtomOf(arg)}, {<<AtomOf(arg), Attached(ValueOf(arg))>>})
      [] Equals(arg) = 0 /\ arg \in values -> [See(s, {arg}, {}) EXCEPT !.awaited = arg]
      [] OTHER -> [See(s, {arg}, {}) EXCEPT !.unknown = arg \notin known]
\* The first letter of a cluster that takes a value takes the rest of it.
TakeShort(s, arg, values, known) ==
    LET at == SelectInSeq(Tail(arg), LAMBDA letter : <<"-", letter>> \in values) + 1
        atom == <<"-", arg[at]>>
        rest == SubSeq(arg, at + 1, Len(arg))
        value == Attached(IF rest # <<>> /\ Head(rest) = "=" THEN Tail(rest) ELSE rest)
    IN CASE arg \in values -> [See(s, {arg}, {}) EXCEPT !.awaited = arg]
         [] arg \notin values /\ at = 1 ->
                [See(s, Letters(arg), {}) EXCEPT !.unknown = ~(Letters(arg) \subseteq known)]
         [] arg \notin values /\ at > 1 /\ rest # <<>> ->
                See(s, Letters(SubSeq(arg, 1, at)), {<<atom, value>>})
         [] OTHER -> [See(s, Letters(arg), {}) EXCEPT !.awaited = atom]

Take(s, arg, values, known, keepDashes) ==
    CASE s.awaited # None -> TakeValue(s, arg, values)
      [] s.awaited = None /\ ~s.past /\ arg = Dashes -> TakeDashes(s, keepDashes)
      [] s.awaited = None /\ (s.past \/ ~IsFlag(arg)) -> TakeOperand(s, arg)
      [] s.awaited = None /\ ~s.past /\ IsFlag(arg) /\ arg # Dashes /\ IsLong(arg) ->
            TakeLong(s, arg, values, known)
      [] OTHER -> TakeShort(s, arg, values, known)
Split(command, values, known, keepDashes) ==
    LET s == FoldLeft(LAMBDA t, arg : Take(t, arg, values, known, keepDashes),
                      Start(Head(command)), Tail(command))
    IN IF s.awaited = None THEN s ELSE See(s, {}, {<<s.awaited, None>>})

-----------------------------------------------------------------------------
(* Matching. *)

\* fnmatch with a star at the end or nowhere.
Fits(actual, glob) ==
    IF glob # <<>> /\ Last(glob) = "*" THEN IsPrefix(Front(glob), actual) ELSE actual = glob
Basename(arg) == SubSeq(arg, SelectLastInSeq(arg, LAMBDA part : part = "/") + 1, Len(arg))
\* Does the operand at o match?  The program goes by its basename unless the glob has a path.
Hit(term, operands, o) ==
    LET actual(glob) == IF o = 1 /\ ~Contains(glob, "/") THEN Basename(operands[o]) ELSE operands[o]
    IN term.kind = "word" => (\E glob \in term.globs : Fits(actual(glob), glob)) # term.negated

\* How many operands the path may consume in all, when the terms before p have consumed o.
\* Mutant: an optional operand is always skipped.
Points(path, operands) == (1..(Len(path) + 1)) \X (0..Len(operands))
MatchPathSkipping(path, operands, optional) ==
    LET counts[at \in Points(path, operands)] ==
            LET p == at[1]
                o == at[2]
            IN IF p > Len(path) THEN {o}
               ELSE IF o + 1 \in optional THEN counts[<<p, o + 1>>]
               ELSE IF path[p].kind = "gap" THEN UNION {counts[<<p + 1, n>>] : n \in o..Len(operands)}
               ELSE IF o < Len(operands) /\ Hit(path[p], operands, o + 1) THEN counts[<<p + 1, o + 1>>]
               ELSE {}
    IN counts[<<1, 0>>]
MatchPath(path, operands, optional) ==
    LET counts[at \in Points(path, operands)] ==
            LET p == at[1]
                o == at[2]
                skipped == IF o + 1 \in optional THEN counts[<<p, o + 1>>] ELSE {}
            IN CASE p > Len(path) -> IF o + 1 \in optional THEN skipped ELSE {o}
                 [] p <= Len(path) /\ path[p].kind = "gap" ->
                        (UNION {counts[<<p + 1, n>>] : n \in o..Len(operands)}) \cup skipped
                 [] p <= Len(path) /\ path[p].kind = "exec" ->
                        IF o < Len(operands) THEN {Len(operands)} ELSE {}
                 [] OTHER ->
                        skipped \cup (IF o < Len(operands) /\ Hit(path[p], operands, o + 1)
                                      THEN counts[<<p + 1, o + 1>>] ELSE {})
    IN counts[<<1, 0>>]

\* The reading that match_shell_pattern makes of a command.
Known(p) == {c.atom : c \in p.flags} \cup UNION p.sets
KeepsDashes(p) == \E i \in DOMAIN p.path : p.path[i] = OneOf({Dashes}, FALSE)
Reading(p, command) == Split(command, p.values, Known(p), KeepsDashes(p))

PathMatches(p, s, ambiguous) ==
    LET counts == MatchPath(p.path, s.operands, IF ambiguous THEN s.optional ELSE {})
    IN IF p.exact THEN Len(s.operands) \in counts ELSE counts # {}
ConstraintHolds(c, s) ==
    CASE c.disposition = "required" ->
            /\ c.atom \in s.atoms
            /\ c.glob # None =>
                LET seen == {pair[2] : pair \in {v \in s.values : v[1] = c.atom}}
                IN seen # {} /\ \A value \in seen : value # None /\ Fits(value, c.glob)
      [] c.disposition = "forbidden" -> c.atom \notin s.atoms
      [] OTHER -> TRUE
Permitted(p) == {c.atom : c \in {d \in p.flags : d.disposition # "forbidden"}} \cup UNION p.sets
Match(p, command, ambiguous) ==
    LET s == Reading(p, command)
    IN /\ PathMatches(p, s, ambiguous)
       /\ \A c \in p.flags : ConstraintHolds(c, s)
       /\ \A group \in p.sets : group \cap s.atoms # {}
       /\ p.closed => s.atoms \subseteq Permitted(p)

\* match_shell_pattern_details reads the command again, knowing the values only.
IsDynamic(value) == Contains(value, "$x")
\* How many operands are consumed before the term at i.
Consumed(p, operands, i) ==
    FoldLeft(LAMBDA o, j :
        CASE p.path[j].kind = "gap" ->
                LET left == Len(operands) - (Len(p.path) - j) IN IF left > o THEN left ELSE o
          [] p.path[j].kind = "exec" -> Len(operands)
          [] OTHER -> o + 1,
        0, [j \in 1..(i - 1) |-> j])
Captured(p, command, i) ==
    LET operands == Split(command, p.values, {}, FALSE).operands
        o == Consumed(p, operands, i) + 1
    IN IF o \in DOMAIN operands THEN operands[o] ELSE None
Places(p, kinds) == {i \in DOMAIN p.path : p.path[i].kind \in kinds}
SqlValues(p, command) ==
    {pair \in Split(command, p.values, {}, FALSE).values : pair[1] \in UNION p.sql}
\* The values captured, or no match at all.
Details(p, command, input, ambiguous) ==
    /\ Match(p, command, ambiguous)
    /\ \A i \in Places(p, {"sql", "shell"}) : Captured(p, command, i) # None
    /\ \A i \in Places(p, {"sql"}) : ~IsDynamic(Captured(p, command, i))
    /\ \A pair \in SqlValues(p, command) : pair[2] # None /\ ~IsDynamic(pair[2])
    /\ \A flags \in p.sql : \E pair \in SqlValues(p, command) : pair[1] \in flags
    /\ p.stdin => input # None

Extend ==
    /\ status = "ready" /\ Len(argv) < MaxLength
    /\ \E arg \in (IF argv = <<>> THEN Programs ELSE Arguments) : argv' = Append(argv, arg)
    /\ UNCHANGED <<text, pattern, status, stdin>>

Next ==
    \/ ReadGap \/ ReadDashes \/ ReadCapture \/ ReadStdin \/ ReadSqlValues \/ ReadAnyFlag
    \/ ReadOnly \/ ReadValues \/ ReadFlag \/ ReadFlagSet \/ ReadWords
    \/ Refuse \/ Finish \/ Extend

Spec == Init /\ [][Next]_vars

-----------------------------------------------------------------------------
(* Properties. *)

Matchable == status = "ready" /\ argv # <<>>

\* What the document says of paths: the terms stand, in their order, for operands in theirs,
\* each next to the one before unless a gap is between; <EXEC> takes all the rest.
Aligned(path, operands, exact) ==
    \E end \in [0..Len(path) -> 0..Len(operands)] :
        /\ end[0] = 0
        /\ exact => end[Len(path)] = Len(operands)
        /\ \A i \in DOMAIN path :
            CASE path[i].kind = "gap" -> end[i] >= end[i - 1]
              [] path[i].kind = "exec" -> end[i - 1] < end[i] /\ end[i] = Len(operands)
              [] OTHER -> end[i] = end[i - 1] + 1 /\ Hit(path[i], operands, end[i])
Dropping(operands, gone) ==
    FoldLeft(LAMBDA rest, o : IF o \in gone THEN rest ELSE Append(rest, operands[o]),
             <<>>, [o \in DOMAIN operands |-> o])

\* A rule that allows matches the path of the operands as they stand; one that denies or
\* asks matches it under some guess which words after unknown options are their values, and
\* so wherever an allowing one does (docs/pattern-dsl.md 5.2, 5.3).
PathReadings ==
    Matchable =>
        LET s == Reading(pattern, argv)
        IN /\ PathMatches(pattern, s, FALSE) <=> Aligned(pattern.path, s.operands, pattern.exact)
           /\ PathMatches(pattern, s, TRUE) <=>
                \E gone \in SUBSET s.optional :
                    Aligned(pattern.path, Dropping(s.operands, gone), pattern.exact)

\* "Deny and ask rules conservatively explore both interpretations so an option value cannot
\* hide a dangerous path" (docs/pattern-dsl.md 5.2): a denying rule that applies to a command
\* still applies when an option it does not know and a value are put in anywhere before --
\* that is not behind another option, unless the rule closes its options.  One exception the
\* document does not name: the operand that a rule with <SQL> captures may be another one
\* then, and if that is dynamic the rule does not apply (match_shell_pattern_details).
Unheard(p, option) == ({option} \cup Letters(option)) \cap (Known(p) \cup p.values) = {}
OptionsEnd(command) ==
    LET at == SelectInSeq(command, LAMBDA arg : arg = Dashes)
    IN IF at = 0 THEN Len(command) + 1 ELSE at
CapturesDynamic(p, command) ==
    \E i \in Places(p, {"sql"}) : IsDynamic(Captured(p, command, i))
DenyNotHidden ==
    (Matchable /\ ~pattern.closed /\ Details(pattern, argv, stdin, TRUE)) =>
        \A at \in 2..OptionsEnd(argv), option \in Strangers, word \in Arguments :
            (Unheard(pattern, option) /\ ~IsFlag(word) /\ ~IsFlag(argv[at - 1])) =>
                LET longer == InsertAt(InsertAt(argv, at, word), at, option)
                IN Details(pattern, longer, stdin, TRUE) \/ CapturesDynamic(pattern, longer)

\* The options as a reader of the command line sees them: every word with a dash before any
\* --, cut at the first letter that takes a value; a value is the rest of the word or the
\* next one, when that has no dash.
OptionPlaces(command) == {i \in 2..(OptionsEnd(command) - 1) : IsFlag(command[i])}
Seen(p, arg) ==
    CASE arg \in p.values -> {arg}
      [] arg \notin p.values /\ IsLong(arg) -> {AtomOf(arg)}
      [] OTHER -> {<<"-", arg[j]>> : j \in {k \in 2..Len(arg) :
                        \A l \in 2..(k - 1) : <<"-", arg[l]>> \notin p.values}}
NextWord(command, i) ==
    IF i < Len(command) /\ ~IsFlag(command[i + 1]) THEN command[i + 1] ELSE None
ValueSeen(p, flag, command, i) ==
    LET arg == command[i]
        cut == SelectInSeq(arg, LAMBDA part : part = flag[2])
        rest == SubSeq(arg, cut + 1, Len(arg))
    IN IF rest = <<>> THEN NextWord(command, i)
       ELSE Attached(IF Head(rest) = "=" THEN Tail(rest) ELSE rest)

\* Where a rule matches, whether it allows or denies, no option of the command is one it
\* forbids or, when closed, one it does not list, however options are clustered or stand
\* where a value is expected; every value given to an option with a glob is one it fits; and
\* no value of an SQL option goes unread (5.4, "Any repeated method occurrence must be GET").
OptionsHold ==
    \A ambiguous \in BOOLEAN :
        (Matchable /\ Details(pattern, argv, stdin, ambiguous)) =>
            LET seen == UNION {Seen(pattern, argv[i]) : i \in OptionPlaces(argv)}
            IN /\ \A c \in pattern.flags : c.disposition = "forbidden" => c.atom \notin seen
               /\ pattern.closed => seen \subseteq Permitted(pattern)
               /\ \A i \in OptionPlaces(argv), flag \in pattern.values :
                    (flag \in Seen(pattern, argv[i]) /\ ~IsFlag(argv[i - 1])) =>
                        LET value == ValueSeen(pattern, flag, argv, i)
                        IN /\ \A c \in pattern.flags : c.atom = flag /\ c.glob # None =>
                                value # None /\ Fits(value, c.glob)
                           /\ flag \in UNION pattern.sql =>
                                value # None /\ <<flag, value>> \in SqlValues(pattern, argv)
=============================================================================
