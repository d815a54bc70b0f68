--------------------------- MODULE ShellDecision ---------------------------
(***************************************************************************)
(* The verdict of the merged policy on a shell command line: _decide_shell *)
(* of src/agentperm/domain/evaluation.py with the semantic captures, the   *)
(* inline Python, the SQL and the redirections it looks into.              *)
(*                                                                         *)
(* A command stands for an argument vector and its literal input.  Which   *)
(* rules match it and what they capture, which Python calls it makes, and  *)
(* which SQL a rule understands are data.  The policy grows layer by layer *)
(* and the line command by command, so that the verdicts of a line and of  *)
(* a longer one, or under one more layer, can be compared.                 *)
(***************************************************************************)
EXTENDS Verdicts, FiniteSets

CONSTANTS
    Commands,     \* the commands, numbered: captures hold later ones only
    Builtin,      \* what the evaluator knows of a command when no rule speaks
    Source,       \* the inline Python of the commands that run some
    Layers,       \* the policy layers there may be
    Redirects,    \* the redirections a command may get
    MaxLayers,    \* bound: layers
    MaxCommands,  \* bound: commands of the line
    MaxRedirects  \* bound: redirections of the line

Fallback == [lookup |-> "Allow", inert |-> "Allow", opaque |-> "Ask",
             dynamic |-> "Ask", other |-> "NoOpinion"]
\* A redirection to the null device or a file has a setting and a default.
Default == [stderr_to_dev_null |-> "Allow", stdout_to_dev_null |-> "Allow",
            stdout_to_file |-> "Ask", append_to_file |-> "Ask"]
Settings == DOMAIN Default
Unset == [s \in Settings |-> "unset"]

\* What a pattern captures of a command comes later; segments, and lines, of some
\* commands: nothing is kept of a line that is not parsed.
Later(c) == {d \in Commands : d > c}
Segments(commands) == [command : commands, redirects : SUBSET Redirects]
Lines(commands) ==
    {l \in [parseable : BOOLEAN, segments : Seq(Segments(commands))] : l.parseable \/ l.segments = <<>>}
\* All the rules, and all the Python calls, that the layers list.
LayerRules == UNION {UNION {Range(layer.rules[list]) : list \in Lists} : layer \in Layers}
LayerCalls == UNION {UNION {Range(layer.calls[list]) : list \in Lists} : layer \in Layers}

ASSUME CommandAssumption ==
    /\ Commands \subseteq Nat /\ IsFiniteSet(Commands)
    /\ Builtin \in [Commands -> DOMAIN Fallback \cup {"empty", "marker"}]
    /\ DOMAIN Source \subseteq Commands
ASSUME RedirectAssumption ==
    \A r \in Redirects : r.shape \in Settings \cup {"fd_dup", "input", "unrecognized"}
ASSUME LayerAssumption ==
    \A layer \in Layers :
        /\ layer.rules \in [Lists -> Seq(LayerRules)]
        /\ layer.calls \in [Lists -> Seq(LayerCalls)]
        /\ layer.redirection \in [Settings -> Lists \cup {"unset"}]
ASSUME CaptureAssumption ==
    \A rule \in LayerRules : rule.kind = "shell" =>
        \A c \in Commands \cap DOMAIN rule.captures :
            /\ rule.captures[c].exec \subseteq Later(c)
            /\ rule.captures[c].shell \subseteq Lines(Later(c))
ASSUME BoundAssumption == {MaxLayers, MaxCommands, MaxRedirects} \subseteq Nat

VARIABLES
    policy,  \* the merged policy
    depth,   \* how many layers it was merged from
    line     \* the parsed command line

vars == <<policy, depth, line>>

NoLine == [parseable |-> TRUE, segments |-> <<>>]

-----------------------------------------------------------------------------
(* The policy. *)

\* RedirectionPolicy.merged_with: a layer overrides the settings it has.
PickSettings(base, layer) ==
    [s \in Settings |-> IF layer[s] = "unset" THEN base[s] ELSE layer[s]]

Merged(base, layer) ==
    [rules |-> MergedWith(base.rules, layer.rules),
     calls |-> MergedWith(base.calls, layer.calls),   \* PythonCallPolicy.merged_with
     redirection |-> PickSettings(base.redirection, layer.redirection),
     paths |-> base.paths \cup layer.paths]

\* The rules of one kind, with the list they stand in.
RulesOf(p, kind) == {rule \in Range(AllRules(p.rules)) : rule[2].kind = kind}
NoRule == <<"NoOpinion", [kind |-> "none"]>>

-----------------------------------------------------------------------------
(* SQL and inline Python. *)

\* SqlPolicyService.decide: Deny rules of any name first; nothing matching is Ask.
DecideSql(p, captured) ==
    LET offered(rule) ==
            rule[1] = "Deny" \/ captured.profile = "any" \/ captured.profile = rule[2].name
        matching == {rule \in RulesOf(p, "sql") : offered(rule) /\ captured.text \in rule[2].texts}
    IN  FirstOf(AllRules(p.rules), matching, <<"Ask", "no SQL rule">>)[1]

\* PythonCallPolicy.decision_for
DecisionFor(p, target) ==
    FirstOf(AllRules(p.calls), Lists \X {target}, <<"NoOpinion", target>>)[1]

PatternOf(p, call) ==
    FirstOf(AllRules(p.rules), {rule \in RulesOf(p, "python") : call.target \in rule[2].targets}, NoRule)
\* match_call of PythonSqlAnalysis, for the first pattern that has the target.
MatchCall(p, call, decision, pattern) ==
    IF decision = "Deny" THEN {"Deny"}
    ELSE IF ~call.static THEN {"Ask"}
    ELSE {decision} \cup {DecideSql(p, [text |-> t, profile |-> pattern.profile]) : t \in call.texts}
\* visit_Call: a pattern takes the place of the call policy.
VisitCall(p, call) ==
    LET rule == PatternOf(p, call)
        said == DecisionFor(p, call.target)
    IN  IF rule # NoRule THEN MatchCall(p, call, rule[1], rule[2])
        ELSE IF said # "NoOpinion" THEN {said}
        ELSE IF call.unsafe THEN {"Ask"} ELSE {}

Readonly(p) == \E rule \in RulesOf(p, "readonly") : rule[1] = "Allow"
\* Mutant: a pattern in the policy is enough to judge all Python by it.
AnalyzePythonAlways(p, c) ==
    IF c \notin DOMAIN Source \/ ~(Readonly(p) \/ RulesOf(p, "python") # {}) THEN {}
    ELSE IF ~Source[c].static THEN {"Ask"}
    ELSE {Strictest({"Allow"} \cup (IF Source[c].odd THEN {"Ask"} ELSE {})
                    \cup UNION {VisitCall(p, call) : call \in Source[c].calls})}
\* analyze_python_segment, where some rule is about Python: no verdict without the
\* Readonly rule if no pattern has a call of this source.
AnalyzePython(p, c) ==
    IF c \notin DOMAIN Source \/ ~(Readonly(p) \/ RulesOf(p, "python") # {}) THEN {}
    ELSE IF ~Source[c].static THEN {"Ask"}
    ELSE IF ~Readonly(p) /\ \A call \in Source[c].calls : PatternOf(p, call) = NoRule THEN {}
    ELSE {Strictest({"Allow"} \cup (IF Source[c].odd THEN {"Ask"} ELSE {})
                    \cup UNION {VisitCall(p, call) : call \in Source[c].calls})}

-----------------------------------------------------------------------------
(* Redirections. *)

\* _evaluate_redirect: an allowed one has no opinion of its own.
EvaluateRedirect(p, paths, r) ==
    LET said == IF p.redirection[r.shape] = "unset" THEN Default[r.shape] ELSE p.redirection[r.shape]
    IN  IF r.shape \in {"fd_dup", "input"} THEN "NoOpinion"
        ELSE IF r.shape = "unrecognized" THEN "Ask"
        ELSE IF r.shape \in {"stdout_to_file", "append_to_file"} /\ r.path \in paths THEN "NoOpinion"
        ELSE IF said = "Allow" THEN "NoOpinion" ELSE said

\* Every Allow rule that matches the command lends its paths.
AllowPaths(p, c) ==
    p.paths \cup UNION {rule[2].paths : rule \in
        {x \in RulesOf(p, "shell") : x[1] = "Allow" /\ c \in x[2].firm}}

EvaluateRedirects(p, segment) ==
    Strictest({EvaluateRedirect(p, AllowPaths(p, segment.command), r) : r \in segment.redirects})

-----------------------------------------------------------------------------
(* The verdicts of a command, a segment and a line. *)

\* match_shell_pattern_details: Allow rules match firmly, the others also where an
\* option's value is in doubt; a pattern whose captures find nothing does not match.
Matches(rule, c) ==
    /\ c \in IF rule[1] = "Allow" THEN rule[2].firm ELSE rule[2].wide
    /\ c \in DOMAIN rule[2].captures
MatchOf(p, c) ==
    FirstOf(AllRules(p.rules), {rule \in RulesOf(p, "shell") : Matches(rule, c)}, NoRule)
CapturesOf(p, c) == MatchOf(p, c)[2].captures[c]

\* nested_exec: a command by itself, without redirections.
Bare(c) == [command |-> c, redirects |-> {}]

\* Mutant: the joins are mixed up.
DecideSegmentAggregated(p, of, segment) ==
    Aggregate({EvaluateRedirects(p, segment), of[segment.command]})
\* _decide_segment; "of" gives the verdicts of commands.
DecideSegment(p, of, segment) ==
    Strictest({EvaluateRedirects(p, segment), of[segment.command]})

\* _decide_shell
DecideShell(p, of, l) ==
    IF l.parseable
    THEN Aggregate({DecideSegment(p, of, l.segments[i]) : i \in DOMAIN l.segments})
    ELSE "Ask"

\* The first matching rule, and what it captures.
DecideByRule(p, of, c) ==
    LET captured == CapturesOf(p, c)
    IN  IF MatchOf(p, c) = NoRule THEN {}
        ELSE {Aggregate({MatchOf(p, c)[1]}
                 \cup {DecideSql(p, q) : q \in captured.sql}
                 \cup {DecideShell(p, of, l) : l \in captured.shell}
                 \cup {DecideSegment(p, of, Bare(d)) : d \in captured.exec})}

\* _match_bash; "of" gives the verdicts of the commands captured by this one.
DecideCommand(p, of, c) ==
    LET said == DecideByRule(p, of, c) \cup AnalyzePython(p, c)
    IN  IF Builtin[c] = "empty" THEN "NoOpinion"
        ELSE IF Builtin[c] = "marker" THEN "Allow"
        ELSE IF said # {} THEN Strictest(said) ELSE Fallback[Builtin[c]]
\* The verdict of every command.
MatchBash(p) ==
    LET of[c \in Commands] == DecideCommand(p, of, c)
    IN  of

Decide(p, l) == DecideShell(p, MatchBash(p), l)
Verdict == Decide(policy, line)

-----------------------------------------------------------------------------
(* Policies and lines. *)

\* merged_policy: one more layer, nearer to the target.
MergeLayer ==
    /\ depth < MaxLayers /\ depth' = depth + 1
    /\ \E layer \in Layers : policy' = Merged(policy, layer)
    /\ UNCHANGED line

\* parse_pipeline: one more command ...
AddCommand ==
    /\ line.parseable /\ Len(line.segments) < MaxCommands
    /\ \E c \in Commands : line' = [line EXCEPT !.segments = Append(@, Bare(c))]
    /\ UNCHANGED <<policy, depth>>

\* ... one more redirection of a command ...
RedirectCount ==
    FoldFunction(LAMBDA segment, sum : Cardinality(segment.redirects) + sum, 0, line.segments)
AddRedirect ==
    /\ line.parseable /\ RedirectCount < MaxRedirects
    /\ \E i \in DOMAIN line.segments, r \in Redirects :
           line' = [line EXCEPT !.segments[i].redirects = @ \cup {r}]
    /\ UNCHANGED <<policy, depth>>

\* ... or syntax that is not analysed: nothing is kept of the line.
Unparseable ==
    /\ line.parseable
    /\ line' = [parseable |-> FALSE, segments |-> <<>>]
    /\ UNCHANGED <<policy, depth>>

Init ==
    /\ policy = [rules |-> NoPolicy, calls |-> NoPolicy, redirection |-> Unset, paths |-> {}]
    /\ depth = 0
    /\ line = NoLine

Next == MergeLayer \/ AddCommand \/ AddRedirect \/ Unparseable
Spec == Init /\ [][Next]_vars

-----------------------------------------------------------------------------
(* What a line runs and what is said of each part of it. *)

\* The commands a line leads to through the captures of the rules that speak.
Silent == [sql |-> {}, shell |-> {}, exec |-> {}]
Inside(c) ==
    IF Builtin[c] \in {"empty", "marker"} \/ MatchOf(policy, c) = NoRule
    THEN Silent ELSE CapturesOf(policy, c)
Parts(segment) ==
    {Bare(d) : d \in Inside(segment.command).exec}
    \cup UNION {Range(l.segments) : l \in Inside(segment.command).shell}
Reached ==
    LET upTo[n \in 0..Cardinality(Commands)] ==
            IF n = 0 THEN Range(line.segments)
            ELSE LET before == upTo[n - 1]
                 IN  before \cup UNION {Parts(segment) : segment \in before}
    IN  upTo[Cardinality(Commands)]

\* What every rule, setting and analysis says of a segment by itself.
Opinions(segment) ==
    LET c == segment.command
    IN  {EvaluateRedirects(policy, segment)} \cup
        (IF Builtin[c] \in {"empty", "marker"} THEN {}
         ELSE AnalyzePython(policy, c)
              \cup (IF MatchOf(policy, c) = NoRule THEN {} ELSE {MatchOf(policy, c)[1]})
              \cup {DecideSql(policy, q) : q \in Inside(c).sql})
\* A segment that some rule, the analysis of Python or the evaluator approves.
Approved(segment) ==
    LET c == segment.command
    IN  /\ "Allow" \in Opinions(segment)
           \/ (Builtin[c] \in {"marker", "inert", "lookup"} /\ Opinions(segment) = {"NoOpinion"})
        /\ {"Ask", "Deny"} \cap Opinions(segment) = {}
        /\ \A l \in Inside(c).shell : l.parseable /\ l.segments # <<>>

\* "Strictest wins", "Allow + NoOpinion -> Ask" (docs/architecture.md), however
\* deep the captures nest: a line is approved if and only if every command it
\* leads to is approved by itself, with its redirections, its SQL and its Python.
ApprovedWhole ==
    Verdict = "Allow" <=>
        line.parseable /\ line.segments # <<>> /\ \A segment \in Reached : Approved(segment)

\* "Deny from any segment beats everything", and nothing else denies: a Deny rule
\* that matches a command the line leads to, or SQL it captures, wherever the rule
\* stands; a setting of a redirection; or the Python.
DenyRules(kind) == {rule[2] : rule \in {x \in RulesOf(policy, kind) : x[1] = "Deny"}}
Denied(segment) ==
    LET c == segment.command
    IN  \/ \E r \in segment.redirects :
               EvaluateRedirect(policy, AllowPaths(policy, c), r) = "Deny"
        \/ /\ Builtin[c] \notin {"empty", "marker"}
           /\ \/ \E rule \in DenyRules("shell") : c \in rule.wide \cap DOMAIN rule.captures
              \/ \E rule \in DenyRules("sql"), q \in Inside(c).sql : q.text \in rule.texts
              \/ "Deny" \in AnalyzePython(policy, c)
DeniedForCause == Verdict = "Deny" <=> \E segment \in Reached : Denied(segment)

\* Another command or redirection never makes a line that has a verdict laxer: a
\* line is at least as strict as every line it extends.
NeverLaxer(from, to) ==
    Strictness[from] <= Strictness[to] /\ (to = "Allow" => from = "Allow")
Shorter ==
    {[line EXCEPT !.segments = RemoveAt(@, i)] : i \in DOMAIN line.segments}
    \cup UNION {{[line EXCEPT !.segments[i].redirects = @ \ {r}] : r \in line.segments[i].redirects}
                    : i \in DOMAIN line.segments}
LongerNeverLaxer ==
    \A l \in Shorter : l.segments # <<>> => NeverLaxer(Decide(policy, l), Verdict)

\* A layer that only denies (commands, Python calls, SQL) never makes a verdict
\* laxer, although its rules about Python also start the analysis of Python.
OnlyDenies(layer) ==
    /\ \A lists \in {layer.rules, layer.calls} : lists.Ask = <<>> /\ lists.Allow = <<>>
    /\ layer.redirection = Unset /\ layer.paths = {}
DenyLayerTightens ==
    \A layer \in Layers :
        OnlyDenies(layer) => NeverLaxer(Verdict, Decide(Merged(policy, layer), line))
=============================================================================
