------------------------- MODULE ShellDecisionProofs -------------------------
(* Theorems about the verdict of a line, for any commands, rules and layers. *)
EXTENDS ShellDecision, DataFacts

Policies ==
    [rules : Merges(LayerRules), calls : Merges(LayerCalls),
     redirection : [Settings -> Lists \cup {"unset"}],
     paths : SUBSET UNION {layer.paths : layer \in Layers}]
\* The policies and the lines there can be.
WellFormed == policy \in Policies /\ line \in Lines(Commands)

-----------------------------------------------------------------------------
(* Commands: what is captured comes later, so what holds of a command when it   *)
(* holds of the later ones holds of all of them.                                *)

LEMMA LaterCounts ==
  ASSUME NEW c \in Commands
  PROVE  /\ IsFiniteSet(Later(c)) /\ Cardinality(Later(c)) \in Nat
         /\ Cardinality(Later(c)) < Cardinality(Commands) /\ Cardinality(Commands) \in Nat
         /\ \A d \in Later(c) : d \in Commands /\ Cardinality(Later(d)) < Cardinality(Later(c))
<1>1. Commands \subseteq Nat /\ IsFiniteSet(Commands)
  BY CommandAssumption
<1>2. Later(c) \in SUBSET Commands /\ c \notin Later(c)
  BY <1>1 DEF Later
<1>3. /\ IsFiniteSet(Later(c)) /\ Cardinality(Later(c)) <= Cardinality(Commands)
      /\ (Cardinality(Later(c)) = Cardinality(Commands) => Later(c) = Commands)
  BY <1>1, <1>2, FS_Subset
<1>4. Cardinality(Later(c)) \in Nat /\ Cardinality(Commands) \in Nat
  BY <1>1, <1>3, FS_CardinalityType
<1>5. ASSUME NEW d \in Later(c) PROVE d \in Commands /\ Cardinality(Later(d)) < Cardinality(Later(c))
  <2>0. c \in Nat /\ d \in Nat /\ d > c /\ d \in Commands
    BY <1>1 DEF Later
  <2>1. Later(d) \in SUBSET Later(c) /\ d \notin Later(d) /\ d \in Commands
    <3>1. ASSUME NEW e \in Later(d) PROVE e \in Later(c)
      <4>1. e \in Commands /\ e \in Nat /\ e > d
        BY <1>1 DEF Later
      <4>2. e > c
        BY <2>0, <4>1
      <4> QED BY <4>1, <4>2 DEF Later
    <3>2. d \notin Later(d)
      BY <2>0 DEF Later
    <3> QED BY <2>0, <3>1, <3>2
  <2>2. /\ IsFiniteSet(Later(d)) /\ Cardinality(Later(d)) <= Cardinality(Later(c))
        /\ (Cardinality(Later(d)) = Cardinality(Later(c)) => Later(d) = Later(c))
    BY <1>3, <2>1, FS_Subset
  <2>3. Cardinality(Later(d)) \in Nat
    BY <2>2, FS_CardinalityType
  <2> QED BY <1>4, <2>1, <2>2, <2>3
<1> QED BY <1>2, <1>3, <1>4, <1>5

LEMMA LaterFirst ==
  ASSUME NEW T \in SUBSET Commands, \A c \in Commands : Later(c) \subseteq T => c \in T
  PROVE  T = Commands
<1> SUFFICES ASSUME T # Commands PROVE FALSE
  OBVIOUS
<1> DEFINE M == {Cardinality(Later(c)) : c \in Commands \ T}
<1>1. M \in SUBSET Nat /\ M # {}
  BY LaterCounts
<1>2. PICK m \in M : \A k \in M : m <= k
  <2> HIDE DEF M
  <2> QED BY <1>1, Least
<1>3. PICK c \in Commands \ T : m = Cardinality(Later(c))
  BY <1>2
<1>4. PICK d \in Later(c) : d \notin T
  BY <1>3
<1>5. d \in Commands \ T /\ Cardinality(Later(d)) < m /\ m \in Nat /\ Cardinality(Later(d)) \in Nat
  BY <1>3, <1>4, LaterCounts
<1>6. m <= Cardinality(Later(d))
  BY <1>2, <1>5
<1> QED BY <1>5, <1>6

-----------------------------------------------------------------------------
(* What each part of the evaluation may say. *)

LEMMA EmptyPolicy ==
  [rules |-> NoPolicy, calls |-> NoPolicy, redirection |-> Unset, paths |-> {}] \in Policies
BY DEF Policies, Merges, NoPolicy, Unset

LEMMA MergedIs ==
  ASSUME NEW p \in Policies, NEW layer \in Layers
  PROVE  /\ Merged(p, layer) \in Policies
         /\ Merged(p, layer).rules = MergedWith(p.rules, layer.rules)
         /\ Merged(p, layer).calls = MergedWith(p.calls, layer.calls)
<1>1. layer.rules \in RuleLists(LayerRules) /\ layer.calls \in RuleLists(LayerCalls)
  BY LayerAssumption DEF RuleLists
<1>2. p.rules \in Merges(LayerRules) /\ p.calls \in Merges(LayerCalls)
  BY DEF Policies
<1>3. MergedWith(p.rules, layer.rules) \in Merges(LayerRules)
  BY <1>1, <1>2, MergedWithIs
<1>4. MergedWith(p.calls, layer.calls) \in Merges(LayerCalls)
  BY <1>1, <1>2, MergedWithIs
<1>5. PickSettings(p.redirection, layer.redirection) \in [Settings -> Lists \cup {"unset"}]
  BY LayerAssumption DEF PickSettings, Policies
<1>6. p.paths \cup layer.paths \in SUBSET UNION {l.paths : l \in Layers}
  BY DEF Policies
<1> QED BY <1>3, <1>4, <1>5, <1>6 DEF Merged, Policies

\* All the rules of a policy, and the ones of a kind.
LEMMA RulesIs ==
  ASSUME NEW p \in Policies
  PROVE  /\ p.rules \in Merges(LayerRules) /\ p.calls \in Merges(LayerCalls)
         /\ AllRules(p.rules) \in Seq(Lists \X LayerRules)
         /\ AllRules(p.calls) \in Seq(Lists \X LayerCalls)
         /\ Range(AllRules(p.rules)) \subseteq Lists \X LayerRules
         /\ \A kind : RulesOf(p, kind) \subseteq Range(AllRules(p.rules))
<1>1. p.rules \in Merges(LayerRules) /\ p.calls \in Merges(LayerCalls)
  BY DEF Policies
<1>2. AllRules(p.rules) \in Seq(Lists \X LayerRules)
  BY <1>1, AllRulesIs
<1>3. AllRules(p.calls) \in Seq(Lists \X LayerCalls)
  BY <1>1, AllRulesIs
<1>4. Range(AllRules(p.rules)) \subseteq Lists \X LayerRules
  BY <1>2, RangeIndexed
<1> QED BY <1>1, <1>2, <1>3, <1>4 DEF RulesOf

\* The first rule of a set: one of Lists, of the set, and Deny if any is; or the default.
Speaks(f, M, none) ==
  /\ (f \in M /\ f \in Lists \X LayerRules) \/ (f = none /\ M = {})
  /\ \A x \in M : x[1] = "Deny" => f \in M /\ f[1] = "Deny"
LEMMA FirstSays ==
  ASSUME NEW p \in Policies, NEW M \in SUBSET Range(AllRules(p.rules)), NEW none
  PROVE  Speaks(FirstOf(AllRules(p.rules), M, none), M, none)
<1>0. PICK f : f = FirstOf(AllRules(p.rules), M, none)
  OBVIOUS
<1>1. PICK r \in Merges(LayerRules) : r = p.rules
  BY RulesIs
<1>2. M \cap Range(AllRules(r)) = M /\ f = FirstOf(AllRules(r), M, none)
  BY <1>0, <1>1
<1>3. /\ \/ f \in M \cap Range(AllRules(r)) /\ f \in Lists \X LayerRules
         \/ f = none /\ M \cap Range(AllRules(r)) = {}
      /\ \A x \in M \cap Range(AllRules(r)) : x[1] = "Deny" => f \in M /\ f[1] = "Deny"
  BY <1>2, FirstRuleIs
<1>4. PICK N : N = M \cap Range(AllRules(r))
  OBVIOUS
<1>5. N = M
  BY <1>2, <1>4
<1> QED BY <1>0, <1>3, <1>4, <1>5 DEF Speaks

LEMMA DecideSqlIs ==
  ASSUME NEW p \in Policies, NEW q
  PROVE  /\ DecideSql(p, q) \in Lists
         /\ DecideSql(p, q) = "Deny" <=>
                \E rule \in RulesOf(p, "sql") : rule[1] = "Deny" /\ q.text \in rule[2].texts
<1> DEFINE M == {rule \in RulesOf(p, "sql") :
                    (rule[1] = "Deny" \/ q.profile = "any" \/ q.profile = rule[2].name)
                    /\ q.text \in rule[2].texts}
<1>1. PICK f : f = FirstOf(AllRules(p.rules), M, <<"Ask", "no SQL rule">>)
  OBVIOUS
<1>2. DecideSql(p, q) = f[1]
  BY <1>1 DEF DecideSql
<1>3. M \subseteq RulesOf(p, "sql") /\ M \subseteq Range(AllRules(p.rules))
  BY RulesIs
<1>4. \A x : x \in M /\ x[1] = "Deny" <=> x \in RulesOf(p, "sql") /\ x[1] = "Deny" /\ q.text \in x[2].texts
  OBVIOUS
<1> HIDE DEF M
<1>5. PICK N, none : N = M /\ none = <<"Ask", "no SQL rule">>
  OBVIOUS
<1>6. f = FirstOf(AllRules(p.rules), N, none) /\ N \in SUBSET Range(AllRules(p.rules))
  BY <1>1, <1>3, <1>5
<1>7. Speaks(f, N, none)
  BY <1>6, FirstSays
<1>8. none[1] = "Ask" /\ "Ask" \in Lists
  BY <1>5 DEF Lists
<1>9. f[1] \in Lists
  BY <1>7, <1>8 DEF Speaks
<1>10. f[1] = "Deny" <=> \E x \in N : x[1] = "Deny"
  BY <1>7, <1>8 DEF Speaks
<1>11. f[1] = "Deny" <=> \E rule \in RulesOf(p, "sql") : rule[1] = "Deny" /\ q.text \in rule[2].texts
  BY <1>3, <1>4, <1>5, <1>10
<1> QED BY <1>2, <1>9, <1>11

\* The rule a command matches, or none.
LEMMA MatchOfIs ==
  ASSUME NEW p \in Policies, NEW c
  PROVE  Speaks(MatchOf(p, c), {rule \in RulesOf(p, "shell") : Matches(rule, c)}, NoRule)
<1>1. {rule \in RulesOf(p, "shell") : Matches(rule, c)} \in SUBSET Range(AllRules(p.rules))
  BY RulesIs
<1>2. PICK M : M = {rule \in RulesOf(p, "shell") : Matches(rule, c)}
  OBVIOUS
<1>3. MatchOf(p, c) = FirstOf(AllRules(p.rules), M, NoRule)
  BY <1>2 DEF MatchOf
<1>4. Speaks(FirstOf(AllRules(p.rules), M, NoRule), M, NoRule)
  BY <1>1, <1>2, FirstSays
<1> QED BY <1>2, <1>3, <1>4

LEMMA NoRuleIs == \A S : NoRule \notin Lists \X S
BY DEF NoRule, Lists

LEMMA CapturedLater ==
  ASSUME NEW p \in Policies, NEW c \in Commands, MatchOf(p, c) # NoRule
  PROVE  /\ MatchOf(p, c)[1] \in Lists
         /\ CapturesOf(p, c).exec \subseteq Later(c)
         /\ CapturesOf(p, c).shell \subseteq Lines(Later(c))
<1>1. PICK f, M : f = MatchOf(p, c) /\ M = {rule \in RulesOf(p, "shell") : Matches(rule, c)}
  OBVIOUS
<1>2. Speaks(f, M, NoRule)
  BY <1>1, MatchOfIs
<1>3. f \in M /\ f \in Lists \X LayerRules
  BY <1>1, <1>2 DEF Speaks
<1>4. f[2].kind = "shell" /\ c \in DOMAIN f[2].captures /\ f[1] \in Lists /\ f[2] \in LayerRules
  BY <1>1, <1>3 DEF RulesOf, Matches
<1>5. CapturesOf(p, c) = f[2].captures[c]
  BY <1>1 DEF CapturesOf
<1> QED BY <1>1, <1>4, <1>5, CaptureAssumption

LEMMA PatternOfIs ==
  ASSUME NEW p \in Policies, NEW call
  PROVE  Speaks(PatternOf(p, call), {rule \in RulesOf(p, "python") : call.target \in rule[2].targets}, NoRule)
<1>1. {rule \in RulesOf(p, "python") : call.target \in rule[2].targets} \in SUBSET Range(AllRules(p.rules))
  BY RulesIs
<1>2. PICK M : M = {rule \in RulesOf(p, "python") : call.target \in rule[2].targets}
  OBVIOUS
<1>3. PatternOf(p, call) = FirstOf(AllRules(p.rules), M, NoRule)
  BY <1>2 DEF PatternOf
<1>4. Speaks(FirstOf(AllRules(p.rules), M, NoRule), M, NoRule)
  BY <1>1, <1>2, FirstSays
<1> QED BY <1>2, <1>3, <1>4

LEMMA DecisionForIs ==
  ASSUME NEW p \in Policies, NEW target
  PROVE  DecisionFor(p, target) \in Decisions
<1>1. PICK M, none : M = Lists \X {target} /\ none = <<"NoOpinion", target>>
  OBVIOUS
<1>2. PICK r \in Merges(LayerCalls) : r = p.calls
  BY RulesIs
<1>3. PICK f : f = FirstOf(AllRules(r), M, none)
  OBVIOUS
<1>4. f \in M \/ f = none
  BY <1>3, FirstRuleIs
<1>5. DecisionFor(p, target) = f[1]
  BY <1>1, <1>2, <1>3 DEF DecisionFor
<1>6. f[1] \in Decisions
  BY <1>1, <1>4 DEF Decisions
<1> QED BY <1>5, <1>6

LEMMA VisitCallIs ==
  ASSUME NEW p \in Policies, NEW call
  PROVE  VisitCall(p, call) \subseteq Lists
<1>1. PICK rule : rule = PatternOf(p, call)
  OBVIOUS
<1>2. rule # NoRule => rule[1] \in Lists
  BY <1>1, PatternOfIs DEF Speaks
<1>3. ASSUME rule # NoRule PROVE MatchCall(p, call, rule[1], rule[2]) \subseteq Lists
  <2>1. \A q : DecideSql(p, q) \in Lists
    BY DecideSqlIs
  <2> QED BY <1>2, <1>3, <2>1 DEF MatchCall, Lists
<1>4. DecisionFor(p, call.target) \in Decisions
  BY DecisionForIs
<1> QED BY <1>1, <1>3, <1>4 DEF VisitCall, Decisions, Lists

LEMMA AnalyzePythonIs ==
  ASSUME NEW p \in Policies, NEW c
  PROVE  AnalyzePython(p, c) = {} \/ \E x \in Lists : AnalyzePython(p, c) = {x}
<1> DEFINE D == {"Allow"} \cup (IF Source[c].odd THEN {"Ask"} ELSE {})
                    \cup UNION {VisitCall(p, call) : call \in Source[c].calls}
<1>1. D \in SUBSET Lists /\ "Allow" \in D
  BY VisitCallIs DEF Lists
<1>2. AnalyzePython(p, c) \in {{}, {"Ask"}, {Strictest(D)}}
  BY DEF AnalyzePython
<1> HIDE DEF D
<1>3. D \in SUBSET Decisions
  BY <1>1 DEF Decisions
<1>4. Strictest(D) \in Lists
  BY <1>1, <1>3, StrictestIs DEF Lists
<1> QED BY <1>2, <1>4 DEF Lists

\* A redirection never allows.
LEMMA RedirectIs ==
  ASSUME NEW p \in Policies, NEW paths, NEW r \in Redirects
  PROVE  EvaluateRedirect(p, paths, r) \in {"Deny", "Ask", "NoOpinion"}
<1>1. r.shape \in Settings \cup {"fd_dup", "input", "unrecognized"}
  BY RedirectAssumption
<1>2. PICK said : said = IF p.redirection[r.shape] = "unset" THEN Default[r.shape] ELSE p.redirection[r.shape]
  OBVIOUS
<1>3. r.shape \in Settings => said \in Lists
  BY <1>2 DEF Policies, Settings, Default, Lists
<1>4. EvaluateRedirect(p, paths, r) \in {"NoOpinion", "Ask"} \/
        (r.shape \in Settings /\ said # "Allow" /\ EvaluateRedirect(p, paths, r) = said)
  BY <1>1, <1>2 DEF EvaluateRedirect
<1> QED BY <1>3, <1>4 DEF Lists

LEMMA RedirectsIs ==
  ASSUME NEW p \in Policies, NEW s, s.redirects \subseteq Redirects
  PROVE  /\ EvaluateRedirects(p, s) \in {"Deny", "Ask", "NoOpinion"}
         /\ EvaluateRedirects(p, s) \in Decisions
         /\ EvaluateRedirects(p, s) = "Deny" <=>
                \E r \in s.redirects : EvaluateRedirect(p, AllowPaths(p, s.command), r) = "Deny"
<1> DEFINE D == {EvaluateRedirect(p, AllowPaths(p, s.command), r) : r \in s.redirects}
<1>1. D \subseteq {"Deny", "Ask", "NoOpinion"}
  BY RedirectIs
<1>2. EvaluateRedirects(p, s) = Strictest(D)
  BY DEF EvaluateRedirects
<1>3. "Deny" \in D <=> \E r \in s.redirects : EvaluateRedirect(p, AllowPaths(p, s.command), r) = "Deny"
  OBVIOUS
<1> HIDE DEF D
<1>4. D \in SUBSET Decisions /\ "Allow" \notin D
  BY <1>1 DEF Decisions, Lists
<1>5. Strictest(D) = IF "Deny" \in D THEN "Deny" ELSE IF "Ask" \in D THEN "Ask"
                     ELSE IF "Allow" \in D THEN "Allow" ELSE "NoOpinion"
  BY <1>4, StrictestIs
<1>6. Strictest(D) \in {"Deny", "Ask", "NoOpinion"} /\ (Strictest(D) = "Deny" <=> "Deny" \in D)
  BY <1>4, <1>5
<1> QED BY <1>2, <1>3, <1>6 DEF Decisions, Lists

-----------------------------------------------------------------------------
(* The verdict of a command, given the verdicts of the later ones. *)

Gives(of, C) == \A d \in C : of[d] \in Decisions
Same(of, from, C) == \A d \in C : of[d] = from[d]

LEMMA SegmentIn ==
  ASSUME NEW p \in Policies, NEW C, NEW s \in Segments(C), NEW of, Gives(of, C)
  PROVE  DecideSegment(p, of, s) \in Decisions
<1>1. s.redirects \subseteq Redirects /\ of[s.command] \in Decisions
  BY DEF Segments, Gives
<1>2. PICK e, o : e = EvaluateRedirects(p, s) /\ o = of[s.command]
  OBVIOUS
<1>3. {e, o} \in SUBSET Decisions
  BY <1>1, <1>2, RedirectsIs
<1> QED BY <1>2, <1>3, StrictestIn DEF DecideSegment

LEMMA BareIn ==
  ASSUME NEW C, NEW d \in C
  PROVE  Bare(d) \in Segments(C)
BY DEF Bare, Segments

\* What is said of the segments of a line.
Said(p, of, l) == {DecideSegment(p, of, l.segments[i]) : i \in DOMAIN l.segments}
LEMMA LineIn ==
  ASSUME NEW p \in Policies, NEW C, NEW l \in Lines(C), NEW of, Gives(of, C)
  PROVE  /\ Said(p, of, l) \in SUBSET Decisions
         /\ DecideShell(p, of, l) \in Decisions
         /\ DecideShell(p, of, l) = IF l.parseable THEN Aggregate(Said(p, of, l)) ELSE "Ask"
         /\ \A i \in DOMAIN l.segments : l.segments[i] \in Segments(C)
<1>1. PICK segments \in Seq(Segments(C)) : segments = l.segments
  BY DEF Lines
<1>2. \A i \in DOMAIN segments : segments[i] \in Segments(C)
  OBVIOUS
<1>3. \A i \in DOMAIN segments : DecideSegment(p, of, segments[i]) \in Decisions
  BY <1>2, SegmentIn
<1>4. Said(p, of, l) \in SUBSET Decisions
  BY <1>1, <1>3 DEF Said
<1>5. Aggregate(Said(p, of, l)) \in Decisions
  BY <1>4, AggregateIs
<1>6. DecideShell(p, of, l) = IF l.parseable THEN Aggregate(Said(p, of, l)) ELSE "Ask"
  BY DEF DecideShell, Said
<1> QED BY <1>1, <1>2, <1>4, <1>5, <1>6 DEF Decisions, Lists

\* What the rule that matches gives: its list and the verdicts on what it captures.
RuleSays(p, of, c) ==
  {MatchOf(p, c)[1]}
  \cup {DecideSql(p, q) : q \in CapturesOf(p, c).sql}
  \cup {DecideShell(p, of, l) : l \in CapturesOf(p, c).shell}
  \cup {DecideSegment(p, of, Bare(d)) : d \in CapturesOf(p, c).exec}
LEMMA RuleIn ==
  ASSUME NEW p \in Policies, NEW c \in Commands, NEW of, Gives(of, Later(c))
  PROVE  /\ DecideByRule(p, of, c) = IF MatchOf(p, c) = NoRule THEN {} ELSE {Aggregate(RuleSays(p, of, c))}
         /\ MatchOf(p, c) # NoRule => RuleSays(p, of, c) \in SUBSET Decisions
         /\ DecideByRule(p, of, c) \in SUBSET Decisions
<1>1. DecideByRule(p, of, c) = IF MatchOf(p, c) = NoRule THEN {} ELSE {Aggregate(RuleSays(p, of, c))}
  BY DEF DecideByRule, RuleSays
<1>2. ASSUME MatchOf(p, c) # NoRule PROVE RuleSays(p, of, c) \in SUBSET Decisions
  <2>1. /\ MatchOf(p, c)[1] \in Lists
        /\ CapturesOf(p, c).exec \subseteq Later(c)
        /\ CapturesOf(p, c).shell \subseteq Lines(Later(c))
    BY <1>2, CapturedLater
  <2>2. \A q : DecideSql(p, q) \in Decisions
    BY DecideSqlIs DEF Decisions
  <2>3. \A l \in CapturesOf(p, c).shell : DecideShell(p, of, l) \in Decisions
    BY <2>1, LineIn
  <2>4. \A d \in CapturesOf(p, c).exec : DecideSegment(p, of, Bare(d)) \in Decisions
    <3>1. \A d \in CapturesOf(p, c).exec : Bare(d) \in Segments(Later(c))
      BY <2>1, BareIn
    <3> QED BY <3>1, SegmentIn
  <2> QED BY <2>1, <2>2, <2>3, <2>4 DEF RuleSays, Decisions
<1>3. MatchOf(p, c) # NoRule => Aggregate(RuleSays(p, of, c)) \in Decisions
  BY <1>2, AggregateIs
<1> QED BY <1>1, <1>2, <1>3

LEMMA BuiltinIs ==
  ASSUME NEW c \in Commands
  PROVE  Builtin[c] \in {"empty", "marker"} \/ Fallback[Builtin[c]] \in {"Allow", "Ask", "NoOpinion"}
<1>1. Builtin[c] \in DOMAIN Fallback \cup {"empty", "marker"}
  BY CommandAssumption
<1>2. \A x \in DOMAIN Fallback : Fallback[x] \in {"Allow", "Ask", "NoOpinion"}
  BY DEF Fallback
<1> QED BY <1>1, <1>2

LEMMA CommandIn ==
  ASSUME NEW p \in Policies, NEW c \in Commands, NEW of, Gives(of, Later(c))
  PROVE  DecideCommand(p, of, c) \in Decisions
<1>1. PICK said : said = DecideByRule(p, of, c) \cup AnalyzePython(p, c)
  OBVIOUS
<1>2. said \in SUBSET Decisions
  BY <1>1, RuleIn, AnalyzePythonIs DEF Decisions
<1>3. DecideCommand(p, of, c) =
        IF Builtin[c] = "empty" THEN "NoOpinion" ELSE IF Builtin[c] = "marker" THEN "Allow"
        ELSE IF said # {} THEN Strictest(said) ELSE Fallback[Builtin[c]]
  BY <1>1 DEF DecideCommand
<1>4. Strictest(said) \in Decisions
  BY <1>2, StrictestIn
<1> QED BY <1>3, <1>4, BuiltinIs DEF Decisions, Lists

\* It depends on the verdicts of the later ones only.
LEMMA SegmentSame ==
  ASSUME NEW p, NEW C, NEW s \in Segments(C), NEW of, NEW from, Same(of, from, C)
  PROVE  DecideSegment(p, of, s) = DecideSegment(p, from, s)
<1>1. s.command \in C
  BY DEF Segments
<1> QED BY <1>1 DEF DecideSegment, Same

LEMMA LineSame ==
  ASSUME NEW p, NEW C, NEW l \in Lines(C), NEW of, NEW from, Same(of, from, C)
  PROVE  DecideShell(p, of, l) = DecideShell(p, from, l)
<1>1. PICK segments \in Seq(Segments(C)) : segments = l.segments
  BY DEF Lines
<1>2. \A i \in DOMAIN segments : segments[i] \in Segments(C)
  OBVIOUS
<1>3. \A i \in DOMAIN segments : DecideSegment(p, of, segments[i]) = DecideSegment(p, from, segments[i])
  BY <1>2, SegmentSame
<1>4. Said(p, of, l) = Said(p, from, l)
  BY <1>1, <1>3 DEF Said
<1> QED BY <1>4 DEF DecideShell, Said

LEMMA CommandSame ==
  ASSUME NEW p \in Policies, NEW c \in Commands, NEW of, NEW from, Same(of, from, Later(c))
  PROVE  DecideCommand(p, of, c) = DecideCommand(p, from, c)
<1>1. DecideByRule(p, of, c) = DecideByRule(p, from, c)
  <2>1. CASE MatchOf(p, c) = NoRule
    BY <2>1 DEF DecideByRule
  <2>2. CASE MatchOf(p, c) # NoRule
    <3>1. /\ CapturesOf(p, c).exec \subseteq Later(c)
          /\ CapturesOf(p, c).shell \subseteq Lines(Later(c))
      BY <2>2, CapturedLater
    <3>2. \A l \in CapturesOf(p, c).shell : DecideShell(p, of, l) = DecideShell(p, from, l)
      BY <3>1, LineSame
    <3>3. \A d \in CapturesOf(p, c).exec : DecideSegment(p, of, Bare(d)) = DecideSegment(p, from, Bare(d))
      <4>1. \A d \in CapturesOf(p, c).exec : Bare(d) \in Segments(Later(c))
        BY <3>1, BareIn
      <4> QED BY <4>1, SegmentSame
    <3>4. RuleSays(p, of, c) = RuleSays(p, from, c)
      BY <3>2, <3>3 DEF RuleSays
    <3>5. DecideByRule(p, of, c) = {Aggregate(RuleSays(p, of, c))}
      BY <2>2 DEF DecideByRule, RuleSays
    <3>6. DecideByRule(p, from, c) = {Aggregate(RuleSays(p, from, c))}
      BY <2>2 DEF DecideByRule, RuleSays
    <3> QED BY <3>4, <3>5, <3>6
  <2> QED BY <2>1, <2>2
<1> QED BY <1>1 DEF DecideCommand

-----------------------------------------------------------------------------
(* The verdicts of all commands exist, and each follows from the later ones.    *)

\* Right where at most so many commands are left.
RightUpto(p, of, n) ==
  \A c \in Commands : Cardinality(Later(c)) < n => of[c] = DecideCommand(p, of, c)
LEMMA VerdictsExist ==
  ASSUME NEW p \in Policies
  PROVE  \E of \in [Commands -> Decisions] : \A c \in Commands : of[c] = DecideCommand(p, of, c)
<1> DEFINE T == {n \in Nat : \E of \in [Commands -> Decisions] : RightUpto(p, of, n)}
<1>1. 0 \in T
  <2> DEFINE g == [c \in Commands |-> "Ask"]
  <2>1. g \in [Commands -> Decisions]
    BY DEF Decisions, Lists
  <2>2. \A c \in Commands : ~(Cardinality(Later(c)) < 0)
    BY LaterCounts
  <2> QED BY <2>1, <2>2 DEF RightUpto
<1>2. ASSUME NEW n \in T PROVE n + 1 \in T
  <2>1. PICK f \in [Commands -> Decisions] : RightUpto(p, f, n)
    OBVIOUS
  <2> DEFINE g == [c \in Commands |-> DecideCommand(p, f, c)]
  <2>2. \A c \in Commands : DecideCommand(p, f, c) \in Decisions
    <3>1. \A c \in Commands : Gives(f, Later(c))
      BY <2>1 DEF Gives, Later
    <3> QED BY <3>1, CommandIn
  <2>3. g \in [Commands -> Decisions] /\ \A c \in Commands : g[c] = DecideCommand(p, f, c)
    BY <2>2
  <2> HIDE DEF g
  <2>4. ASSUME NEW c \in Commands, Cardinality(Later(c)) < n + 1
        PROVE  g[c] = DecideCommand(p, g, c)
    <3>1. \A d \in Later(c) : d \in Commands /\ Cardinality(Later(d)) < n
      <4>1. Cardinality(Later(c)) \in Nat /\ n \in Nat
        BY LaterCounts
      <4>2. \A d \in Later(c) : d \in Commands /\ Cardinality(Later(d)) < Cardinality(Later(c)) /\ Cardinality(Later(d)) \in Nat
        BY LaterCounts
      <4> QED BY <2>4, <4>1, <4>2
    <3>2. \A d \in Later(c) : f[d] = g[d]
      BY <2>1, <2>3, <3>1 DEF RightUpto
    <3>3. DecideCommand(p, f, c) = DecideCommand(p, g, c)
      BY <3>2, CommandSame DEF Same
    <3> QED BY <2>3, <3>3
  <2>5. RightUpto(p, g, n + 1) /\ n + 1 \in Nat
    BY <2>4 DEF RightUpto
  <2> QED BY <2>3, <2>5
<1>3. T = Nat
  <2>1. T \in SUBSET Nat
    OBVIOUS
  <2> HIDE DEF T
  <2> QED BY <1>1, <1>2, <2>1, Inductive
<1>4. Cardinality(Commands) \in Nat
  BY CommandAssumption, FS_CardinalityType
<1>5. PICK of \in [Commands -> Decisions] : RightUpto(p, of, Cardinality(Commands))
  BY <1>3, <1>4
<1>6. \A c \in Commands : of[c] = DecideCommand(p, of, c)
  BY <1>5, LaterCounts DEF RightUpto
<1> QED BY <1>6

LEMMA MatchBashIs ==
  ASSUME NEW p \in Policies
  PROVE  /\ MatchBash(p) \in [Commands -> Decisions]
         /\ \A c \in Commands : MatchBash(p)[c] = DecideCommand(p, MatchBash(p), c)
<1> DEFINE Body(g) == [c \in Commands |-> DecideCommand(p, g, c)]
<1>1. PICK f \in [Commands -> Decisions] : \A c \in Commands : f[c] = DecideCommand(p, f, c)
  BY VerdictsExist
<1>2. f = Body(f)
  BY <1>1
<1>3. PICK g : g = Body(g) /\ MatchBash(p) = g
  BY <1>2 DEF MatchBash
<1>4. \A c \in Commands : g[c] = DecideCommand(p, g, c)
  BY <1>3
<1> DEFINE T == {c \in Commands : g[c] \in Decisions}
<1>5. ASSUME NEW c \in Commands, Later(c) \subseteq T PROVE c \in T
  <2>1. Gives(g, Later(c))
    BY <1>5 DEF Gives
  <2>2. DecideCommand(p, g, c) \in Decisions
    BY <2>1, CommandIn
  <2> QED BY <1>4, <2>2
<1>6. T = Commands
  <2>1. T \in SUBSET Commands
    OBVIOUS
  <2> HIDE DEF T
  <2> QED BY <1>5, <2>1, LaterFirst
<1>7. g \in [Commands -> Decisions]
  <2>1. \A c \in Commands : g[c] \in Decisions
    BY <1>6
  <2>2. g = [c \in Commands |-> g[c]]
    BY <1>3
  <2> QED BY <2>1, <2>2
<1> QED BY <1>3, <1>4, <1>7

LEMMA AllGiven ==
  ASSUME NEW p \in Policies, NEW C \in SUBSET Commands
  PROVE  Gives(MatchBash(p), C)
BY MatchBashIs DEF Gives

-----------------------------------------------------------------------------
(* Verdicts that are never laxer. *)

LEMMA LaxerIs ==
  ASSUME NEW a \in Decisions, NEW b \in Decisions
  PROVE  NeverLaxer(a, b) <=>
           /\ a = "Deny" => b = "Deny"
           /\ a = "Ask" => b \in {"Ask", "Deny"}
           /\ a = "Allow" => b # "NoOpinion"
           /\ b = "Allow" => a = "Allow"
BY DEF NeverLaxer, Strictness, Decisions, Lists

\* Every decision of the one side stands for one of the other that is never laxer.
Tightened(D, E) ==
  /\ \A x \in D : \E y \in E : NeverLaxer(x, y)
  /\ \A y \in E : \E x \in D : NeverLaxer(x, y)
LEMMA AggregateTighter ==
  ASSUME NEW D \in SUBSET Decisions, NEW E \in SUBSET Decisions, Tightened(D, E)
  PROVE  NeverLaxer(Aggregate(D), Aggregate(E))
<1>1. /\ \A x \in D : \E y \in E : x \in Decisions /\ y \in Decisions /\ NeverLaxer(x, y)
      /\ \A y \in E : \E x \in D : x \in Decisions /\ y \in Decisions /\ NeverLaxer(x, y)
  BY DEF Tightened
<1>2. PICK a \in Decisions, b \in Decisions : a = Aggregate(D) /\ b = Aggregate(E)
  BY AggregateIs
<1>3. /\ a = "Deny" <=> "Deny" \in D
      /\ a = "Allow" <=> D = {"Allow"}
      /\ a = "NoOpinion" <=> D \subseteq {"NoOpinion"}
  BY <1>2, AggregateIs
<1>4. /\ b = "Deny" <=> "Deny" \in E
      /\ b = "Allow" <=> E = {"Allow"}
      /\ b = "NoOpinion" <=> E \subseteq {"NoOpinion"}
  BY <1>2, AggregateIs
<1>5. "Deny" \in D => "Deny" \in E
  BY <1>1, LaxerIs
<1>6. ASSUME E = {"Allow"} PROVE D = {"Allow"}
  <2>1. \A x \in D : x = "Allow"
    BY <1>1, <1>6, LaxerIs
  <2>2. PICK x \in D : TRUE
    BY <1>1, <1>6
  <2> QED BY <2>1, <2>2
<1>7. E \subseteq {"NoOpinion"} => D \subseteq {"NoOpinion"}
  BY <1>1, LaxerIs DEF Decisions, Lists
<1>8. a \in {"Deny", "Ask", "Allow", "NoOpinion"} /\ b \in {"Deny", "Ask", "Allow", "NoOpinion"}
  BY DEF Decisions, Lists
<1>9. NeverLaxer(a, b)
  BY <1>3, <1>4, <1>5, <1>6, <1>7, <1>8, LaxerIs
<1> QED BY <1>2, <1>9

LEMMA PairTighter ==
  ASSUME NEW a \in Decisions, NEW b \in Decisions, NEW c \in Decisions, NEW d \in Decisions,
         NeverLaxer(a, c), NeverLaxer(b, d)
  PROVE  NeverLaxer(Strictest({a, b}), Strictest({c, d}))
<1>1. PICK D \in SUBSET Decisions, E \in SUBSET Decisions : D = {a, b} /\ E = {c, d}
  OBVIOUS
<1>2. PICK e \in Decisions, f \in Decisions : e = Strictest(D) /\ f = Strictest(E)
  BY StrictestIn
<1>3. e = IF "Deny" \in D THEN "Deny" ELSE IF "Ask" \in D THEN "Ask"
          ELSE IF "Allow" \in D THEN "Allow" ELSE "NoOpinion"
  BY <1>2, StrictestIs
<1>4. f = IF "Deny" \in E THEN "Deny" ELSE IF "Ask" \in E THEN "Ask"
          ELSE IF "Allow" \in E THEN "Allow" ELSE "NoOpinion"
  BY <1>2, StrictestIs
<1>5. {a, b, c, d} \subseteq {"Deny", "Ask", "Allow", "NoOpinion"}
  BY DEF Decisions, Lists
<1>6. NeverLaxer(e, f)
  BY <1>1, <1>3, <1>4, <1>5, LaxerIs
<1> QED BY <1>1, <1>2, <1>6

LEMMA AggregateMore ==
  ASSUME NEW D \in SUBSET Decisions, NEW E \in SUBSET Decisions, D \subseteq E, D # {}
  PROVE  NeverLaxer(Aggregate(D), Aggregate(E))
<1>1. PICK a \in Decisions, b \in Decisions : a = Aggregate(D) /\ b = Aggregate(E)
  BY AggregateIs
<1>2. /\ a = "Deny" <=> "Deny" \in D
      /\ a = "Allow" <=> D = {"Allow"}
      /\ a = "NoOpinion" <=> D \subseteq {"NoOpinion"}
  BY <1>1, AggregateIs
<1>3. /\ b = "Deny" <=> "Deny" \in E
      /\ b = "Allow" <=> E = {"Allow"}
      /\ b = "NoOpinion" <=> E \subseteq {"NoOpinion"}
  BY <1>1, AggregateIs
<1>4. E = {"Allow"} => D = {"Allow"}
  OBVIOUS
<1>5. a \in {"Deny", "Ask", "Allow", "NoOpinion"} /\ b \in {"Deny", "Ask", "Allow", "NoOpinion"}
  BY DEF Decisions, Lists
<1>6. NeverLaxer(a, b)
  BY <1>2, <1>3, <1>4, <1>5, LaxerIs
<1> QED BY <1>1, <1>6

-----------------------------------------------------------------------------
(* A longer line is never laxer. *)

LEMMA RemovedIs ==
  ASSUME NEW S, NEW s \in Seq(S), NEW i \in 1..Len(s)
  PROVE  /\ RemoveAt(s, i) \in Seq(S)
         /\ Range(RemoveAt(s, i)) \subseteq Range(s)
<1>1. Len(s) \in Nat /\ i \in Nat
  OBVIOUS
<1>2. PICK a, b : a = SubSeq(s, 1, i - 1) /\ b = SubSeq(s, i + 1, Len(s))
  OBVIOUS
<1>3. /\ a \in Seq(S) /\ Len(a) = i - 1
      /\ \A j \in 1..(i - 1) : a[j] = s[j]
  <2>1. \A j \in 1..(i - 1) : s[j] \in S
    OBVIOUS
  <2> QED BY <1>1, <1>2, <2>1, SubSeqProperties
<1>4. /\ b \in Seq(S) /\ Len(b) = Len(s) - i
      /\ \A j \in 1..(Len(s) - i) : b[j] = s[i + j]
  <2>1. \A j \in (i + 1)..Len(s) : s[j] \in S
    OBVIOUS
  <2>2. SubSeq(s, i + 1, Len(s)) = [j \in 1..(Len(s) - i) |-> s[i + j]]
    BY <1>1
  <2>3. \A j \in 1..(Len(s) - i) : i + j \in (i + 1)..Len(s)
    BY <1>1
  <2>4. SubSeq(s, i + 1, Len(s)) \in [1..(Len(s) - i) -> S]
    BY <2>1, <2>2, <2>3
  <2>5. Len(s) - i \in Nat
    BY <1>1
  <2> QED BY <1>2, <2>2, <2>4, <2>5, SeqDef
<1>5. RemoveAt(s, i) = a \o b
  BY <1>2 DEF RemoveAt
<1>6. a \o b \in Seq(S) /\ Range(a \o b) = Range(a) \cup Range(b)
  BY <1>3, <1>4, ConcatProperties, RangeConcatenation
<1>7. Range(a) = {a[j] : j \in 1..(i - 1)} /\ Range(b) = {b[j] : j \in 1..(Len(s) - i)}
      /\ Range(s) = {s[j] : j \in 1..Len(s)}
  BY <1>3, <1>4, RangeIndexed
<1>8. Range(a) \subseteq Range(s)
  BY <1>1, <1>3, <1>7
<1>9. Range(b) \subseteq Range(s)
  <2>1. \A j \in 1..(Len(s) - i) : i + j \in 1..Len(s)
    BY <1>1
  <2> QED BY <1>4, <1>7, <2>1
<1> QED BY <1>5, <1>6, <1>8, <1>9

LEMMA SaidIs ==
  ASSUME NEW p, NEW C, NEW l \in Lines(C), NEW of
  PROVE  Said(p, of, l) = {DecideSegment(p, of, s) : s \in Range(l.segments)}
<1>1. PICK segments \in Seq(Segments(C)) : segments = l.segments
  BY DEF Lines
<1>2. Range(segments) = {segments[i] : i \in 1..Len(segments)} /\ DOMAIN segments = 1..Len(segments)
  BY RangeIndexed
<1> QED BY <1>1, <1>2 DEF Said

\* Without a segment.
LEMMA FewerNeverLaxer ==
  ASSUME NEW p \in Policies, NEW l \in Lines(Commands), NEW m \in Lines(Commands),
         l.parseable, m.parseable, l.segments # <<>>, Range(l.segments) \subseteq Range(m.segments),
         NEW of, Gives(of, Commands)
  PROVE  NeverLaxer(DecideShell(p, of, l), DecideShell(p, of, m))
<1>1. /\ DecideShell(p, of, l) = Aggregate(Said(p, of, l))
      /\ DecideShell(p, of, m) = Aggregate(Said(p, of, m))
      /\ Said(p, of, l) \in SUBSET Decisions /\ Said(p, of, m) \in SUBSET Decisions
  BY LineIn
<1>2. Said(p, of, l) \subseteq Said(p, of, m)
  BY SaidIs
<1>3. Said(p, of, l) # {}
  <2>1. PICK segments \in Seq(Segments(Commands)) : segments = l.segments
    BY DEF Lines
  <2>2. 1 \in DOMAIN segments
    BY <2>1
  <2> QED BY <2>1, <2>2 DEF Said
<1> QED BY <1>1, <1>2, <1>3, AggregateMore

LEMMA RedirectsTighter ==
  ASSUME NEW p \in Policies, NEW s, NEW t, s.command = t.command,
         s.redirects \subseteq t.redirects, t.redirects \subseteq Redirects
  PROVE  NeverLaxer(EvaluateRedirects(p, s), EvaluateRedirects(p, t))
<1> DEFINE D == {EvaluateRedirect(p, AllowPaths(p, s.command), r) : r \in s.redirects}
           E == {EvaluateRedirect(p, AllowPaths(p, t.command), r) : r \in t.redirects}
<1>1. EvaluateRedirects(p, s) = Strictest(D) /\ EvaluateRedirects(p, t) = Strictest(E)
  BY DEF EvaluateRedirects
<1>2. D \subseteq E
  OBVIOUS
<1>3. E \subseteq {"Deny", "Ask", "NoOpinion"}
  BY RedirectIs
<1> HIDE DEF D, E
<1>4. D \in SUBSET Decisions /\ E \in SUBSET Decisions /\ "Allow" \notin D /\ "Allow" \notin E
  BY <1>2, <1>3 DEF Decisions, Lists
<1>5. PICK a \in Decisions, b \in Decisions : a = Strictest(D) /\ b = Strictest(E)
  BY <1>4, StrictestIn
<1>6. a = IF "Deny" \in D THEN "Deny" ELSE IF "Ask" \in D THEN "Ask" ELSE "NoOpinion"
  BY <1>4, <1>5, StrictestIs
<1>7. b = IF "Deny" \in E THEN "Deny" ELSE IF "Ask" \in E THEN "Ask" ELSE "NoOpinion"
  BY <1>4, <1>5, StrictestIs
<1>8. NeverLaxer(a, b)
  BY <1>2, <1>6, <1>7, LaxerIs
<1> QED BY <1>1, <1>5, <1>8

LEMMA NotLaxerItself == \A a \in Decisions : NeverLaxer(a, a)
BY LaxerIs DEF Decisions, Lists

\* A segment with fewer redirections.
LEMMA SegmentTighter ==
  ASSUME NEW p \in Policies, NEW s \in Segments(Commands), NEW t \in Segments(Commands),
         s.command = t.command, s.redirects \subseteq t.redirects,
         NEW of, Gives(of, Commands)
  PROVE  NeverLaxer(DecideSegment(p, of, s), DecideSegment(p, of, t))
<1>1. s.redirects \subseteq Redirects /\ t.redirects \subseteq Redirects /\ t.command \in Commands
  BY DEF Segments
<1>2. PICK a \in Decisions, b \in Decisions, o \in Decisions :
        a = EvaluateRedirects(p, s) /\ b = EvaluateRedirects(p, t) /\ o = of[t.command]
  BY <1>1, RedirectsIs DEF Gives
<1>3. NeverLaxer(a, b) /\ NeverLaxer(o, o)
  BY <1>1, <1>2, RedirectsTighter, NotLaxerItself
<1>4. NeverLaxer(Strictest({a, o}), Strictest({b, o}))
  BY <1>3, PairTighter
<1> QED BY <1>2, <1>4 DEF DecideSegment

\* Lines of as many segments, each at least as strict.
LEMMA LineTighter ==
  ASSUME NEW p \in Policies, NEW q \in Policies, NEW C, NEW l \in Lines(C), NEW m \in Lines(C),
         l.parseable = m.parseable, DOMAIN l.segments = DOMAIN m.segments,
         NEW of, NEW from, Gives(of, C), Gives(from, C),
         \A i \in DOMAIN m.segments :
            NeverLaxer(DecideSegment(p, of, l.segments[i]), DecideSegment(q, from, m.segments[i]))
  PROVE  NeverLaxer(DecideShell(p, of, l), DecideShell(q, from, m))
<1>1. /\ DecideShell(p, of, l) = IF l.parseable THEN Aggregate(Said(p, of, l)) ELSE "Ask"
      /\ Said(p, of, l) \in SUBSET Decisions
  BY LineIn
<1>2. /\ DecideShell(q, from, m) = IF l.parseable THEN Aggregate(Said(q, from, m)) ELSE "Ask"
      /\ Said(q, from, m) \in SUBSET Decisions
  BY LineIn
<1>3. Tightened(Said(p, of, l), Said(q, from, m))
  BY DEF Tightened, Said
<1>4. NeverLaxer(Aggregate(Said(p, of, l)), Aggregate(Said(q, from, m)))
  BY <1>1, <1>2, <1>3, AggregateTighter
<1>5. NeverLaxer("Ask", "Ask")
  BY NotLaxerItself DEF Decisions, Lists
<1> QED BY <1>1, <1>2, <1>4, <1>5

LEMMA LongerHolds ==
  ASSUME WellFormed
  PROVE  LongerNeverLaxer
<1>1. PICK p \in Policies, m \in Lines(Commands) : p = policy /\ m = line
  BY DEF WellFormed
<1>2. PICK of : of = MatchBash(p)
  OBVIOUS
<1>3. Gives(of, Commands)
  BY <1>2, AllGiven
<1>4. PICK segments \in Seq(Segments(Commands)) : segments = m.segments
  BY DEF Lines
<1>5. DOMAIN segments = 1..Len(segments) /\ Len(segments) \in Nat
      /\ \A i \in DOMAIN segments : segments[i] \in Segments(Commands)
  OBVIOUS
<1>6. m = [parseable |-> m.parseable, segments |-> segments] /\ m.parseable \in BOOLEAN
  BY <1>4 DEF Lines
<1>7. (\E i \in DOMAIN segments : TRUE) => m.parseable
  BY <1>4, <1>5 DEF Lines
<1>8. ASSUME NEW l, l \in Shorter, l.segments # <<>>
      PROVE  NeverLaxer(DecideShell(p, of, l), DecideShell(p, of, m))
  <2>1. CASE \E i \in DOMAIN segments : l = [m EXCEPT !.segments = RemoveAt(@, i)]
    <3>1. PICK i \in DOMAIN segments : l = [m EXCEPT !.segments = RemoveAt(@, i)]
      BY <2>1
    <3>2. PICK rest : rest = RemoveAt(segments, i)
      OBVIOUS
    <3>3. rest \in Seq(Segments(Commands)) /\ Range(rest) \subseteq Range(segments)
      BY <1>5, <3>2, RemovedIs
    <3>4. l = [parseable |-> TRUE, segments |-> rest]
      BY <1>4, <1>6, <1>7, <3>1, <3>2
    <3>5. l \in Lines(Commands) /\ l.parseable /\ Range(l.segments) \subseteq Range(m.segments)
      BY <1>4, <3>3, <3>4 DEF Lines
    <3> QED BY <1>3, <1>7, <1>8, <3>5, FewerNeverLaxer
  <2>2. CASE \E i \in DOMAIN segments : \E r \in segments[i].redirects :
                l = [m EXCEPT !.segments[i].redirects = @ \ {r}]
    <3>0. PICK i \in DOMAIN segments : \E r \in segments[i].redirects :
                l = [m EXCEPT !.segments[i].redirects = @ \ {r}]
      BY <2>2
    <3>1. PICK r \in segments[i].redirects :
                l = [m EXCEPT !.segments[i].redirects = @ \ {r}]
      BY <3>0
    <3>2. PICK s \in Segments(Commands) : s = segments[i]
      BY <1>5
    <3>3. PICK t : t = [command |-> s.command, redirects |-> s.redirects \ {r}]
      OBVIOUS
    <3>4. s = [command |-> s.command, redirects |-> s.redirects] /\ s.redirects \subseteq Redirects
          /\ s.command \in Commands
      BY DEF Segments
    <3>5. t \in Segments(Commands) /\ t.command = s.command /\ t.redirects \subseteq s.redirects
      BY <3>3, <3>4 DEF Segments
    <3>6. t = [s EXCEPT !.redirects = @ \ {r}]
      <4>1. PICK u : u = s.redirects \ {r}
        OBVIOUS
      <4>2. s \in [command : Commands, redirects : SUBSET Redirects]
        BY DEF Segments
      <4>3. [s EXCEPT !.redirects = u] = [command |-> s.command, redirects |-> u]
        BY <4>2
      <4> QED BY <3>3, <4>1, <4>3
    <3>7. PICK rest : rest = [segments EXCEPT ![i] = t]
      OBVIOUS
    <3>8. rest \in Seq(Segments(Commands)) /\ DOMAIN rest = DOMAIN segments
          /\ rest[i] = t /\ \A j \in DOMAIN segments : j # i => rest[j] = segments[j]
      BY <1>5, <3>5, <3>7
    <3>9. l = [parseable |-> m.parseable, segments |-> rest]
      BY <1>4, <1>6, <3>1, <3>2, <3>6, <3>7
    <3>10. l \in Lines(Commands) /\ l.parseable = m.parseable /\ DOMAIN l.segments = DOMAIN m.segments
      BY <1>4, <1>6, <1>7, <3>8, <3>9 DEF Lines
    <3>11. ASSUME NEW j \in DOMAIN m.segments
           PROVE NeverLaxer(DecideSegment(p, of, l.segments[j]), DecideSegment(p, of, m.segments[j]))
      <4>1. CASE j = i
        <5>1. l.segments[j] = t /\ m.segments[j] = s
          BY <1>4, <3>2, <3>8, <3>9, <4>1
        <5> QED BY <1>3, <3>5, <5>1, SegmentTighter
      <4>2. CASE j # i
        <5>1. l.segments[j] = m.segments[j] /\ m.segments[j] \in Segments(Commands)
          BY <1>4, <1>5, <3>8, <3>9, <4>2
        <5>2. PICK d \in Decisions : d = DecideSegment(p, of, m.segments[j])
          BY <1>3, <5>1, SegmentIn
        <5> QED BY <5>1, <5>2, NotLaxerItself
      <4> QED BY <4>1, <4>2
    <3> QED BY <1>3, <3>10, <3>11, LineTighter
  <2>3. l \in {[m EXCEPT !.segments = RemoveAt(@, i)] : i \in DOMAIN segments}
           \cup UNION {{[m EXCEPT !.segments[i].redirects = @ \ {r}] : r \in segments[i].redirects}
                          : i \in DOMAIN segments}
    BY <1>1, <1>4, <1>8 DEF Shorter
  <2> QED BY <2>1, <2>2, <2>3
<1>9. ASSUME NEW l, l \in Shorter, l.segments # <<>>
      PROVE  NeverLaxer(Decide(policy, l), Verdict)
  BY <1>1, <1>2, <1>8, <1>9 DEF Decide, Verdict
<1> QED BY <1>9 DEF LongerNeverLaxer

-----------------------------------------------------------------------------
(* One more layer that only denies. *)

\* The same rule, or a Deny rule.
Firmer(f, g) == g = f \/ g[1] = "Deny"
LEMMA FirmerFirst ==
  ASSUME NEW S, NEW r \in Merges(S), NEW l \in RuleLists(S), OnlyDeny(l), NEW K, NEW none
  PROVE  Firmer(FirstOf(AllRules(r), K \cap Range(AllRules(r)), none),
                FirstOf(AllRules(MergedWith(r, l)), K \cap Range(AllRules(MergedWith(r, l))), none))
<1>1. PICK t \in Merges(S) : t = MergedWith(r, l)
  BY MergedWithIs
<1>2. AllRules(r) \in Seq(Lists \X S) /\ AllRules(t) \in Seq(Lists \X S)
  BY AllRulesIs
<1>3. PICK f : f = FirstOf(AllRules(r), K, none)
  OBVIOUS
<1>4. PICK g : g = FirstOf(AllRules(t), K, none)
  OBVIOUS
<1>5. FirstOf(AllRules(r), K \cap Range(AllRules(r)), none) = f
  BY <1>2, <1>3, FirstOfAmong
<1>6. FirstOf(AllRules(t), K \cap Range(AllRules(t)), none) = g
  BY <1>2, <1>4, FirstOfAmong
<1>7. g = FirstOf(AllRules(MergedWith(r, l)), K, none)
  BY <1>1, <1>4
<1>8. g = f \/ (g \in K /\ g[1] = "Deny")
  BY <1>3, <1>7, DenyLayerFirst
<1> QED BY <1>1, <1>5, <1>6, <1>8 DEF Firmer

\* The rules stay, and the new ones are Deny rules.
LEMMA DenyRange ==
  ASSUME NEW S, NEW r \in Merges(S), NEW l \in RuleLists(S), OnlyDeny(l)
  PROVE  /\ Range(AllRules(r)) \subseteq Range(AllRules(MergedWith(r, l)))
         /\ \A x \in Range(AllRules(MergedWith(r, l))) : x[1] # "Deny" => x \in Range(AllRules(r))
<1>1. PICK t \in Merges(S) : t = MergedWith(r, l)
  BY MergedWithIs
<1>2. Range(t.precedence) = Range(r.precedence) /\ Range(t.Deny) = Range(r.Deny) \cup Range(l.Deny)
  BY <1>1, MergedWithIs
<1>3. Range(AllRules(r)) = {<<"Deny", x>> : x \in Range(r.Deny)} \cup Range(r.precedence)
  BY AllRulesIs
<1>4. Range(AllRules(t)) = {<<"Deny", x>> : x \in Range(t.Deny)} \cup Range(t.precedence)
  BY AllRulesIs
<1>5. Range(AllRules(r)) \subseteq Range(AllRules(t))
  BY <1>2, <1>3, <1>4
<1>6. \A x \in Range(AllRules(t)) : x[1] # "Deny" => x \in Range(AllRules(r))
  BY <1>2, <1>3, <1>4
<1> QED BY <1>1, <1>5, <1>6

\* A policy, and what one more layer that only denies makes of it.
Denies(p, layer, q) == OnlyDenies(layer) /\ q = Merged(p, layer)
LEMMA DeniesIs ==
  ASSUME NEW p \in Policies, NEW layer \in Layers, NEW q, Denies(p, layer, q)
  PROVE  /\ q \in Policies
         /\ layer.rules \in RuleLists(LayerRules) /\ OnlyDeny(layer.rules)
         /\ layer.calls \in RuleLists(LayerCalls) /\ OnlyDeny(layer.calls)
         /\ p.rules \in Merges(LayerRules) /\ q.rules = MergedWith(p.rules, layer.rules)
         /\ p.calls \in Merges(LayerCalls) /\ q.calls = MergedWith(p.calls, layer.calls)
         /\ q.redirection = p.redirection /\ q.paths = p.paths
<1>1. q \in Policies /\ q.rules = MergedWith(p.rules, layer.rules) /\ q.calls = MergedWith(p.calls, layer.calls)
  BY MergedIs DEF Denies
<1>2. layer.rules \in RuleLists(LayerRules) /\ layer.calls \in RuleLists(LayerCalls)
  BY LayerAssumption DEF RuleLists
<1>3. OnlyDeny(layer.rules) /\ OnlyDeny(layer.calls)
  BY DEF Denies, OnlyDenies, OnlyDeny
<1>4. q.paths = p.paths
  BY DEF Denies, OnlyDenies, Merged
<1>5. q.redirection = p.redirection
  <2>1. p.redirection \in [Settings -> Lists \cup {"unset"}]
    BY DEF Policies
  <2>2. \A s \in Settings : layer.redirection[s] = "unset"
    BY DEF Denies, OnlyDenies, Unset
  <2>3. PickSettings(p.redirection, layer.redirection) = p.redirection
    BY <2>1, <2>2 DEF PickSettings
  <2> QED BY <2>3 DEF Denies, Merged
<1> QED BY <1>1, <1>2, <1>3, <1>4, <1>5, RulesIs

LEMMA DeniesRules ==
  ASSUME NEW p \in Policies, NEW layer \in Layers, NEW q, Denies(p, layer, q)
  PROVE  \A kind : /\ RulesOf(p, kind) \subseteq RulesOf(q, kind)
                   /\ \A x \in RulesOf(q, kind) : x[1] # "Deny" => x \in RulesOf(p, kind)
<1>1. PICK r \in Merges(LayerRules), l \in RuleLists(LayerRules) : r = p.rules /\ l = layer.rules
  BY DeniesIs
<1>2. OnlyDeny(l) /\ q.rules = MergedWith(r, l)
  BY <1>1, DeniesIs
<1>3. /\ Range(AllRules(r)) \subseteq Range(AllRules(MergedWith(r, l)))
      /\ \A x \in Range(AllRules(MergedWith(r, l))) : x[1] # "Deny" => x \in Range(AllRules(r))
  BY <1>2, DenyRange
<1>4. /\ Range(AllRules(p.rules)) \subseteq Range(AllRules(q.rules))
      /\ \A x \in Range(AllRules(q.rules)) : x[1] # "Deny" => x \in Range(AllRules(p.rules))
  BY <1>1, <1>2, <1>3
<1> QED BY <1>4 DEF RulesOf

\* The first rule of those that K holds, before and after.
LEMMA DeniesFirst ==
  ASSUME NEW p \in Policies, NEW layer \in Layers, NEW q, Denies(p, layer, q), NEW K, NEW none
  PROVE  Firmer(FirstOf(AllRules(p.rules), K \cap Range(AllRules(p.rules)), none),
                FirstOf(AllRules(q.rules), K \cap Range(AllRules(q.rules)), none))
<1>1. PICK r \in Merges(LayerRules), l \in RuleLists(LayerRules) : r = p.rules /\ l = layer.rules
  BY DeniesIs
<1>2. OnlyDeny(l) /\ q.rules = MergedWith(r, l)
  BY <1>1, DeniesIs
<1>3. Firmer(FirstOf(AllRules(r), K \cap Range(AllRules(r)), none),
             FirstOf(AllRules(MergedWith(r, l)), K \cap Range(AllRules(MergedWith(r, l))), none))
  BY <1>2, FirmerFirst
<1> QED BY <1>1, <1>2, <1>3

LEMMA DeniesMatch ==
  ASSUME NEW p \in Policies, NEW layer \in Layers, NEW q, Denies(p, layer, q), NEW c
  PROVE  Firmer(MatchOf(p, c), MatchOf(q, c))
<1> DEFINE K == {rule \in Lists \X LayerRules : rule[2].kind = "shell" /\ Matches(rule, c)}
<1>1. q \in Policies
  BY DeniesIs
<1>2. {rule \in RulesOf(p, "shell") : Matches(rule, c)} = K \cap Range(AllRules(p.rules))
  BY RulesIs DEF RulesOf
<1>3. {rule \in RulesOf(q, "shell") : Matches(rule, c)} = K \cap Range(AllRules(q.rules))
  BY <1>1, RulesIs DEF RulesOf
<1> HIDE DEF K
<1> QED BY <1>2, <1>3, DeniesFirst DEF MatchOf

LEMMA DeniesPattern ==
  ASSUME NEW p \in Policies, NEW layer \in Layers, NEW q, Denies(p, layer, q), NEW call
  PROVE  Firmer(PatternOf(p, call), PatternOf(q, call))
<1> DEFINE K == {rule \in Lists \X LayerRules : rule[2].kind = "python" /\ call.target \in rule[2].targets}
<1>1. q \in Policies
  BY DeniesIs
<1>2. {rule \in RulesOf(p, "python") : call.target \in rule[2].targets} = K \cap Range(AllRules(p.rules))
  BY RulesIs DEF RulesOf
<1>3. {rule \in RulesOf(q, "python") : call.target \in rule[2].targets} = K \cap Range(AllRules(q.rules))
  BY <1>1, RulesIs DEF RulesOf
<1> HIDE DEF K
<1> QED BY <1>2, <1>3, DeniesFirst DEF PatternOf

LEMMA DeniesSql ==
  ASSUME NEW p \in Policies, NEW layer \in Layers, NEW q, Denies(p, layer, q), NEW x
  PROVE  NeverLaxer(DecideSql(p, x), DecideSql(q, x))
<1> DEFINE K == {rule \in Lists \X LayerRules : rule[2].kind = "sql"
                    /\ (rule[1] = "Deny" \/ x.profile = "any" \/ x.profile = rule[2].name)
                    /\ x.text \in rule[2].texts}
           Mp == {rule \in RulesOf(p, "sql") :
                    (rule[1] = "Deny" \/ x.profile = "any" \/ x.profile = rule[2].name)
                    /\ x.text \in rule[2].texts}
           Mq == {rule \in RulesOf(q, "sql") :
                    (rule[1] = "Deny" \/ x.profile = "any" \/ x.profile = rule[2].name)
                    /\ x.text \in rule[2].texts}
<1>1. q \in Policies
  BY DeniesIs
<1>2. Mp = K \cap Range(AllRules(p.rules))
  BY RulesIs DEF RulesOf
<1>3. Mq = K \cap Range(AllRules(q.rules))
  BY <1>1, RulesIs DEF RulesOf
<1>4. PICK none : none = <<"Ask", "no SQL rule">>
  OBVIOUS
<1>5. /\ DecideSql(p, x) = FirstOf(AllRules(p.rules), Mp, none)[1]
      /\ DecideSql(q, x) = FirstOf(AllRules(q.rules), Mq, none)[1]
  BY <1>4 DEF DecideSql
<1> HIDE DEF K, Mp, Mq
<1>6. Firmer(FirstOf(AllRules(p.rules), Mp, none), FirstOf(AllRules(q.rules), Mq, none))
  BY <1>2, <1>3, DeniesFirst
<1>7. PICK a \in Decisions, b \in Decisions : a = DecideSql(p, x) /\ b = DecideSql(q, x)
  BY <1>1, DecideSqlIs DEF Decisions
<1>8. b = a \/ b = "Deny"
  BY <1>5, <1>6, <1>7 DEF Firmer
<1>9. NeverLaxer(a, b)
  BY <1>8, LaxerIs DEF Decisions, Lists
<1> QED BY <1>7, <1>9

LEMMA DenyStrictest == \A a \in Decisions : NeverLaxer(a, "Deny")
BY LaxerIs DEF Decisions, Lists

LEMMA DeniesCalls ==
  ASSUME NEW p \in Policies, NEW layer \in Layers, NEW q, Denies(p, layer, q), NEW target
  PROVE  DecisionFor(q, target) \in {DecisionFor(p, target), "Deny"}
<1>1. PICK r \in Merges(LayerCalls), l \in RuleLists(LayerCalls) : r = p.calls /\ l = layer.calls
  BY DeniesIs
<1>2. OnlyDeny(l) /\ q.calls = MergedWith(r, l)
  BY <1>1, DeniesIs
<1>3. PICK K, none : K = Lists \X {target} /\ none = <<"NoOpinion", target>>
  OBVIOUS
<1>4. PICK f, g : f = FirstOf(AllRules(r), K, none) /\ g = FirstOf(AllRules(MergedWith(r, l)), K, none)
  OBVIOUS
<1>5. g = f \/ (g \in K /\ g[1] = "Deny")
  BY <1>2, <1>4, DenyLayerFirst
<1>6. DecisionFor(p, target) = f[1] /\ DecisionFor(q, target) = g[1]
  BY <1>1, <1>2, <1>3, <1>4 DEF DecisionFor
<1> QED BY <1>5, <1>6

\* What the calls give is never laxer.
LEMMA DeniesVisit ==
  ASSUME NEW p \in Policies, NEW layer \in Layers, NEW q, Denies(p, layer, q), NEW call,
         NEW x \in VisitCall(p, call)
  PROVE  \E y \in VisitCall(q, call) : NeverLaxer(x, y)
<1>1. PICK f, g : f = PatternOf(p, call) /\ g = PatternOf(q, call)
  OBVIOUS
<1>2. g = f \/ g[1] = "Deny"
  BY <1>1, DeniesPattern DEF Firmer
<1>3. x \in Decisions
  BY VisitCallIs DEF Decisions
<1>4. CASE g[1] = "Deny"
  <2>1. g # NoRule
    BY <1>4 DEF NoRule
  <2>2. VisitCall(q, call) = {"Deny"}
    BY <1>1, <1>4, <2>1 DEF VisitCall, MatchCall
  <2> QED BY <1>3, <2>2, DenyStrictest
<1>5. CASE g = f /\ f # NoRule
  <2>1. VisitCall(p, call) = MatchCall(p, call, f[1], f[2])
    BY <1>1, <1>5 DEF VisitCall
  <2>2. VisitCall(q, call) = MatchCall(q, call, f[1], f[2])
    BY <1>1, <1>5 DEF VisitCall
  <2>3. CASE f[1] = "Deny" \/ ~call.static
    <3>1. MatchCall(p, call, f[1], f[2]) = MatchCall(q, call, f[1], f[2])
      BY <2>3 DEF MatchCall
    <3> QED BY <1>3, <2>1, <2>2, <3>1, NotLaxerItself
  <2>4. CASE ~(f[1] = "Deny" \/ ~call.static)
    <3>1. x = f[1] \/ \E t \in call.texts : x = DecideSql(p, [text |-> t, profile |-> f[2].profile])
      BY <2>1, <2>4 DEF MatchCall
    <3>2. CASE x = f[1]
      <4>1. x \in VisitCall(q, call)
        BY <2>2, <2>4, <3>2 DEF MatchCall
      <4> QED BY <1>3, <4>1, NotLaxerItself
    <3>3. CASE \E t \in call.texts : x = DecideSql(p, [text |-> t, profile |-> f[2].profile])
      <4>1. PICK t \in call.texts : x = DecideSql(p, [text |-> t, profile |-> f[2].profile])
        BY <3>3
      <4>2. PICK z : z = [text |-> t, profile |-> f[2].profile]
        OBVIOUS
      <4>3. DecideSql(q, z) \in VisitCall(q, call)
        BY <2>2, <2>4, <4>1, <4>2 DEF MatchCall
      <4>4. NeverLaxer(x, DecideSql(q, z))
        BY <4>1, <4>2, DeniesSql
      <4> QED BY <4>3, <4>4
    <3> QED BY <3>1, <3>2, <3>3
  <2> QED BY <2>3, <2>4
<1>6. CASE g = f /\ f = NoRule
  <2>1. DecisionFor(q, call.target) \in {DecisionFor(p, call.target), "Deny"}
    BY DeniesCalls
  <2>2. VisitCall(q, call) = VisitCall(p, call) \/ VisitCall(q, call) = {"Deny"}
    BY <1>1, <1>6, <2>1 DEF VisitCall
  <2> QED BY <1>3, <2>2, DenyStrictest, NotLaxerItself
<1> QED BY <1>2, <1>4, <1>5, <1>6

LEMMA StrictestTighter ==
  ASSUME NEW D \in SUBSET Lists, NEW E \in SUBSET Lists, "Allow" \in D, "Allow" \in E,
         \A x \in D : \E y \in E : NeverLaxer(x, y)
  PROVE  NeverLaxer(Strictest(D), Strictest(E))
<1>1. D \in SUBSET Decisions /\ E \in SUBSET Decisions
  BY DEF Decisions
<1>2. PICK a \in Decisions, b \in Decisions : a = Strictest(D) /\ b = Strictest(E)
  BY <1>1, StrictestIn
<1>3. a = IF "Deny" \in D THEN "Deny" ELSE IF "Ask" \in D THEN "Ask" ELSE "Allow"
  BY <1>1, <1>2, StrictestIs
<1>4. b = IF "Deny" \in E THEN "Deny" ELSE IF "Ask" \in E THEN "Ask" ELSE "Allow"
  BY <1>1, <1>2, StrictestIs
<1>5. "Deny" \in D => "Deny" \in E
  BY <1>1, LaxerIs
<1>6. "Ask" \in D => "Ask" \in E \/ "Deny" \in E
  BY <1>1, LaxerIs
<1>7. NeverLaxer(a, b)
  BY <1>3, <1>4, <1>5, <1>6, LaxerIs
<1> QED BY <1>2, <1>7

\* What the Python of a command gives, once it is looked into.
Heard(p, c) == {"Allow"} \cup (IF Source[c].odd THEN {"Ask"} ELSE {})
                         \cup UNION {VisitCall(p, call) : call \in Source[c].calls}
LEMMA HeardIs ==
  ASSUME NEW p \in Policies, NEW c
  PROVE  Heard(p, c) \in SUBSET Lists /\ "Allow" \in Heard(p, c)
BY VisitCallIs DEF Heard, Lists

LEMMA DeniesReadonly ==
  ASSUME NEW p \in Policies, NEW layer \in Layers, NEW q, Denies(p, layer, q)
  PROVE  /\ Readonly(q) = Readonly(p)
         /\ RulesOf(p, "python") # {} => RulesOf(q, "python") # {}
<1>1. \A x \in RulesOf(q, "readonly") : x[1] = "Allow" => x \in RulesOf(p, "readonly")
  BY DeniesRules
<1>2. RulesOf(p, "readonly") \subseteq RulesOf(q, "readonly") /\ RulesOf(p, "python") \subseteq RulesOf(q, "python")
  BY DeniesRules
<1> QED BY <1>1, <1>2 DEF Readonly

\* No verdict stays none or becomes Ask or Deny; a verdict stays one, never laxer.
LEMMA DeniesPython ==
  ASSUME NEW p \in Policies, NEW layer \in Layers, NEW q, Denies(p, layer, q), NEW c
  PROVE  /\ AnalyzePython(p, c) = {} => AnalyzePython(q, c) \in {{}, {"Ask"}, {"Deny"}}
         /\ \A x \in Decisions : AnalyzePython(p, c) = {x} =>
                \E y \in Decisions : AnalyzePython(q, c) = {y} /\ NeverLaxer(x, y)
<1>1. q \in Policies /\ Readonly(q) = Readonly(p) /\ (RulesOf(p, "python") # {} => RulesOf(q, "python") # {})
  BY DeniesIs, DeniesReadonly
<1> DEFINE Looks(r) == Readonly(r) \/ RulesOf(r, "python") # {}
           Quiet(r) == ~Readonly(r) /\ \A call \in Source[c].calls : PatternOf(r, call) = NoRule
<1>2. AnalyzePython(p, c) = IF c \notin DOMAIN Source \/ ~Looks(p) THEN {}
        ELSE IF ~Source[c].static THEN {"Ask"} ELSE IF Quiet(p) THEN {} ELSE {Strictest(Heard(p, c))}
  BY DEF AnalyzePython, Heard
<1>3. AnalyzePython(q, c) = IF c \notin DOMAIN Source \/ ~Looks(q) THEN {}
        ELSE IF ~Source[c].static THEN {"Ask"} ELSE IF Quiet(q) THEN {} ELSE {Strictest(Heard(q, c))}
  BY DEF AnalyzePython, Heard
<1>4. Looks(p) => Looks(q)
  BY <1>1
<1>5. Quiet(q) => Quiet(p)
  <2>1. \A call \in Source[c].calls : PatternOf(q, call) = PatternOf(p, call) \/ PatternOf(q, call)[1] = "Deny"
    BY DeniesPattern DEF Firmer
  <2>2. NoRule[1] # "Deny"
    BY DEF NoRule
  <2> QED BY <1>1, <2>1, <2>2
<1>6. (Quiet(p) \/ ~Looks(p)) /\ ~Quiet(q) => Strictest(Heard(q, c)) = "Deny"
  <2> SUFFICES ASSUME Quiet(p) \/ ~Looks(p), ~Quiet(q) PROVE Strictest(Heard(q, c)) = "Deny"
    OBVIOUS
  <2>1. ~Readonly(q) /\ \A call \in Source[c].calls : PatternOf(p, call) = NoRule
    <3>1. ASSUME ~Looks(p), NEW call \in Source[c].calls PROVE PatternOf(p, call) = NoRule
      <4>1. PICK M : M = {rule \in RulesOf(p, "python") : call.target \in rule[2].targets}
        OBVIOUS
      <4>2. M = {}
        BY <3>1, <4>1
      <4>3. Speaks(PatternOf(p, call), M, NoRule)
        BY <4>1, PatternOfIs
      <4> QED BY <4>2, <4>3 DEF Speaks
    <3> QED BY <1>1, <3>1
  <2>2. PICK call \in Source[c].calls : PatternOf(q, call) # NoRule
    BY <2>1
  <2>3. PatternOf(q, call)[1] = "Deny"
    BY <2>1, <2>2, DeniesPattern DEF Firmer
  <2>4. VisitCall(q, call) = {"Deny"}
    BY <2>2, <2>3 DEF VisitCall, MatchCall
  <2>5. "Deny" \in Heard(q, c)
    BY <2>2, <2>4 DEF Heard
  <2>6. Heard(q, c) \in SUBSET Decisions
    BY <1>1, HeardIs DEF Decisions
  <2> QED BY <2>5, <2>6, StrictestIs
<1>7. NeverLaxer(Strictest(Heard(p, c)), Strictest(Heard(q, c)))
  <2>1. PICK D \in SUBSET Lists, E \in SUBSET Lists : D = Heard(p, c) /\ E = Heard(q, c)
    BY <1>1, HeardIs
  <2>2. "Allow" \in D /\ "Allow" \in E
    BY <1>1, <2>1, HeardIs
  <2>3. ASSUME NEW x \in D PROVE \E y \in E : NeverLaxer(x, y)
    <3>1. CASE \E call \in Source[c].calls : x \in VisitCall(p, call)
      <4>1. PICK call \in Source[c].calls : x \in VisitCall(p, call)
        BY <3>1
      <4>2. PICK y \in VisitCall(q, call) : NeverLaxer(x, y)
        BY <4>1, DeniesVisit
      <4> QED BY <2>1, <4>1, <4>2 DEF Heard
    <3>2. CASE ~ \E call \in Source[c].calls : x \in VisitCall(p, call)
      <4>1. x \in E
        BY <2>1, <3>2 DEF Heard
      <4> QED BY <4>1, NotLaxerItself DEF Decisions
    <3> QED BY <3>1, <3>2
  <2> QED BY <2>1, <2>2, <2>3, StrictestTighter
<1>8. Strictest(Heard(p, c)) \in Decisions /\ Strictest(Heard(q, c)) \in Decisions /\ "Ask" \in Decisions
      /\ NeverLaxer("Ask", "Ask")
  <2>1. Heard(p, c) \in SUBSET Decisions /\ Heard(q, c) \in SUBSET Decisions
    BY <1>1, HeardIs DEF Decisions
  <2> QED BY <2>1, StrictestIn, NotLaxerItself DEF Decisions, Lists
<1> HIDE DEF Looks, Quiet
<1>9. AnalyzePython(p, c) = {} => AnalyzePython(q, c) \in {{}, {"Ask"}, {"Deny"}}
  BY <1>2, <1>3, <1>6
<1>10. ASSUME NEW x \in Decisions, AnalyzePython(p, c) = {x}
       PROVE  \E y \in Decisions : AnalyzePython(q, c) = {y} /\ NeverLaxer(x, y)
  <2>1. CASE ~Source[c].static
    <3>1. x = "Ask" /\ AnalyzePython(q, c) = {"Ask"}
      BY <1>2, <1>3, <1>4, <1>10, <2>1
    <3> QED BY <1>8, <3>1
  <2>2. CASE Source[c].static
    <3>1. x = Strictest(Heard(p, c)) /\ AnalyzePython(q, c) = {Strictest(Heard(q, c))}
      BY <1>2, <1>3, <1>4, <1>5, <1>10, <2>2
    <3> QED BY <1>7, <1>8, <3>1
  <2> QED BY <2>1, <2>2
<1> QED BY <1>9, <1>10

LEMMA DeniesRedirects ==
  ASSUME NEW p \in Policies, NEW layer \in Layers, NEW q, Denies(p, layer, q), NEW s
  PROVE  EvaluateRedirects(q, s) = EvaluateRedirects(p, s)
<1>1. {x \in RulesOf(q, "shell") : x[1] = "Allow" /\ s.command \in x[2].firm}
        = {x \in RulesOf(p, "shell") : x[1] = "Allow" /\ s.command \in x[2].firm}
  BY DeniesRules
<1>2. q.paths = p.paths /\ q.redirection = p.redirection
  BY DeniesIs
<1>3. AllowPaths(q, s.command) = AllowPaths(p, s.command)
  BY <1>1, <1>2 DEF AllowPaths
<1>4. \A paths, r : EvaluateRedirect(q, paths, r) = EvaluateRedirect(p, paths, r)
  BY <1>2 DEF EvaluateRedirect
<1> QED BY <1>3, <1>4 DEF EvaluateRedirects

\* The verdicts of these commands are never laxer.
Tighter(of, from, C) == \A d \in C : NeverLaxer(of[d], from[d])
LEMMA DeniesSegment ==
  ASSUME NEW p \in Policies, NEW layer \in Layers, NEW q, Denies(p, layer, q),
         NEW of, NEW from, NEW C, Gives(of, C), Gives(from, C), Tighter(of, from, C), NEW s \in Segments(C)
  PROVE  NeverLaxer(DecideSegment(p, of, s), DecideSegment(q, from, s))
<1>1. s.redirects \subseteq Redirects /\ s.command \in C
  BY DEF Segments
<1>2. PICK e \in Decisions : e = EvaluateRedirects(p, s) /\ e = EvaluateRedirects(q, s)
  BY <1>1, RedirectsIs, DeniesRedirects
<1>3. PICK a \in Decisions, b \in Decisions : a = of[s.command] /\ b = from[s.command]
  BY <1>1 DEF Gives
<1>4. NeverLaxer(a, b) /\ NeverLaxer(e, e)
  BY <1>1, <1>3, NotLaxerItself DEF Tighter
<1>5. NeverLaxer(Strictest({e, a}), Strictest({e, b}))
  BY <1>4, PairTighter
<1> QED BY <1>2, <1>3, <1>5 DEF DecideSegment

LEMMA DeniesLine ==
  ASSUME NEW p \in Policies, NEW layer \in Layers, NEW q, Denies(p, layer, q),
         NEW of, NEW from, NEW C, Gives(of, C), Gives(from, C), Tighter(of, from, C), NEW l \in Lines(C)
  PROVE  NeverLaxer(DecideShell(p, of, l), DecideShell(q, from, l))
<1>1. q \in Policies
  BY DeniesIs
<1>2. PICK segments \in Seq(Segments(C)) : segments = l.segments
  BY DEF Lines
<1>3. \A i \in DOMAIN segments : segments[i] \in Segments(C)
  OBVIOUS
<1>4. \A i \in DOMAIN l.segments :
         NeverLaxer(DecideSegment(p, of, l.segments[i]), DecideSegment(q, from, l.segments[i]))
  BY <1>2, <1>3, DeniesSegment
<1> QED BY <1>1, <1>4, LineTighter

LEMMA DeniesRule ==
  ASSUME NEW p \in Policies, NEW layer \in Layers, NEW q, Denies(p, layer, q), NEW c \in Commands,
         NEW of, NEW from, Gives(of, Later(c)), Gives(from, Later(c)), Tighter(of, from, Later(c))
  PROVE  /\ DecideByRule(p, of, c) = {} => DecideByRule(q, from, c) \in {{}, {"Deny"}}
         /\ \A x \in Decisions : DecideByRule(p, of, c) = {x} =>
                \E y \in Decisions : DecideByRule(q, from, c) = {y} /\ NeverLaxer(x, y)
<1>1. q \in Policies
  BY DeniesIs
<1>2. PICK f, g : f = MatchOf(p, c) /\ g = MatchOf(q, c)
  OBVIOUS
<1>3. g = f \/ g[1] = "Deny"
  BY <1>2, DeniesMatch DEF Firmer
<1>4. /\ DecideByRule(p, of, c) = IF f = NoRule THEN {} ELSE {Aggregate(RuleSays(p, of, c))}
      /\ f # NoRule => RuleSays(p, of, c) \in SUBSET Decisions
  BY <1>2, RuleIn
<1>5. /\ DecideByRule(q, from, c) = IF g = NoRule THEN {} ELSE {Aggregate(RuleSays(q, from, c))}
      /\ g # NoRule => RuleSays(q, from, c) \in SUBSET Decisions
  BY <1>1, <1>2, RuleIn
<1>6. CASE g[1] = "Deny"
  <2>1. g # NoRule
    BY <1>6 DEF NoRule
  <2>2. "Deny" \in RuleSays(q, from, c)
    BY <1>2, <1>6 DEF RuleSays
  <2>3. Aggregate(RuleSays(q, from, c)) = "Deny"
    BY <1>5, <2>1, <2>2, AggregateIs
  <2>4. DecideByRule(q, from, c) = {"Deny"} /\ "Deny" \in Decisions
    BY <1>5, <2>1, <2>3 DEF Decisions, Lists
  <2> QED BY <2>4, DenyStrictest
<1>7. CASE g = f /\ f = NoRule
  BY <1>4, <1>5, <1>7
<1>8. CASE g = f /\ f # NoRule
  <2>1. CapturesOf(q, c) = CapturesOf(p, c)
    BY <1>2, <1>8 DEF CapturesOf
  <2>2. CapturesOf(p, c).exec \subseteq Later(c) /\ CapturesOf(p, c).shell \subseteq Lines(Later(c))
        /\ f[1] \in Decisions
    BY <1>2, <1>8, CapturedLater DEF Decisions
  <2>3. \A x \in CapturesOf(p, c).sql : NeverLaxer(DecideSql(p, x), DecideSql(q, x))
    BY DeniesSql
  <2>4. \A l \in CapturesOf(p, c).shell : NeverLaxer(DecideShell(p, of, l), DecideShell(q, from, l))
    BY <2>2, DeniesLine
  <2>5. \A d \in CapturesOf(p, c).exec :
           NeverLaxer(DecideSegment(p, of, Bare(d)), DecideSegment(q, from, Bare(d)))
    <3>1. \A d \in CapturesOf(p, c).exec : Bare(d) \in Segments(Later(c))
      BY <2>2, BareIn
    <3> QED BY <3>1, DeniesSegment
  <2>6. NeverLaxer(f[1], f[1])
    BY <2>2, NotLaxerItself
  <2>7. PICK X : X = CapturesOf(p, c)
    OBVIOUS
  <2>8. RuleSays(p, of, c) = {f[1]} \cup {DecideSql(p, x) : x \in X.sql}
          \cup {DecideShell(p, of, l) : l \in X.shell} \cup {DecideSegment(p, of, Bare(d)) : d \in X.exec}
    BY <1>2, <2>7 DEF RuleSays
  <2>9. RuleSays(q, from, c) = {f[1]} \cup {DecideSql(q, x) : x \in X.sql}
          \cup {DecideShell(q, from, l) : l \in X.shell} \cup {DecideSegment(q, from, Bare(d)) : d \in X.exec}
    BY <1>2, <1>8, <2>1, <2>7 DEF RuleSays
  <2>10. Tightened(RuleSays(p, of, c), RuleSays(q, from, c))
    <3>1. \A x \in RuleSays(p, of, c) : \E y \in RuleSays(q, from, c) : NeverLaxer(x, y)
      BY <2>3, <2>4, <2>5, <2>6, <2>7, <2>8, <2>9
    <3>2. \A y \in RuleSays(q, from, c) : \E x \in RuleSays(p, of, c) : NeverLaxer(x, y)
      BY <2>3, <2>4, <2>5, <2>6, <2>7, <2>8, <2>9
    <3> QED BY <3>1, <3>2 DEF Tightened
  <2>11. PICK a \in Decisions, b \in Decisions :
           a = Aggregate(RuleSays(p, of, c)) /\ b = Aggregate(RuleSays(q, from, c))
    BY <1>4, <1>5, <1>8, AggregateIs
  <2>12. NeverLaxer(a, b)
    BY <1>4, <1>5, <1>8, <2>10, <2>11, AggregateTighter
  <2> QED BY <1>4, <1>5, <1>8, <2>11, <2>12
<1> QED BY <1>3, <1>6, <1>7, <1>8

\* More may be said, if it is Ask or Deny.
LEMMA StrictestSaid ==
  ASSUME NEW D \in SUBSET Decisions, NEW E \in SUBSET Decisions, D # {},
         \A x \in D : \E y \in E : NeverLaxer(x, y),
         \A y \in E : y \in {"Ask", "Deny"} \/ \E x \in D : NeverLaxer(x, y)
  PROVE  NeverLaxer(Strictest(D), Strictest(E))
<1>1. PICK a \in Decisions, b \in Decisions : a = Strictest(D) /\ b = Strictest(E)
  BY StrictestIn
<1>2. a = IF "Deny" \in D THEN "Deny" ELSE IF "Ask" \in D THEN "Ask"
          ELSE IF "Allow" \in D THEN "Allow" ELSE "NoOpinion"
  BY <1>1, StrictestIs
<1>3. b = IF "Deny" \in E THEN "Deny" ELSE IF "Ask" \in E THEN "Ask"
          ELSE IF "Allow" \in E THEN "Allow" ELSE "NoOpinion"
  BY <1>1, StrictestIs
<1>4. "Deny" \in D => "Deny" \in E
  BY LaxerIs
<1>5. "Ask" \in D => "Ask" \in E \/ "Deny" \in E
  BY LaxerIs
<1>6. "Allow" \in D => "Allow" \in E \/ "Ask" \in E \/ "Deny" \in E
  BY LaxerIs DEF Decisions, Lists
<1>7. "Allow" \in E => "Allow" \in D
  BY LaxerIs
<1>8. NeverLaxer(a, b)
  BY <1>2, <1>3, <1>4, <1>5, <1>6, <1>7, LaxerIs
<1> QED BY <1>1, <1>8

LEMMA DeniesCommand ==
  ASSUME NEW p \in Policies, NEW layer \in Layers, NEW q, Denies(p, layer, q), NEW c \in Commands,
         NEW of, NEW from, Gives(of, Later(c)), Gives(from, Later(c)), Tighter(of, from, Later(c))
  PROVE  NeverLaxer(DecideCommand(p, of, c), DecideCommand(q, from, c))
<1>1. q \in Policies
  BY DeniesIs
<1>2. PICK A, B, P, Q : /\ A = DecideByRule(p, of, c) /\ B = DecideByRule(q, from, c)
                        /\ P = AnalyzePython(p, c) /\ Q = AnalyzePython(q, c)
  OBVIOUS
<1>3. /\ A = {} => B \in {{}, {"Deny"}}
      /\ \A x \in Decisions : A = {x} => \E y \in Decisions : B = {y} /\ NeverLaxer(x, y)
  BY <1>2, DeniesRule
<1>4. /\ P = {} => Q \in {{}, {"Ask"}, {"Deny"}}
      /\ \A x \in Decisions : P = {x} => \E y \in Decisions : Q = {y} /\ NeverLaxer(x, y)
  BY <1>2, DeniesPython
<1>5. A = {} \/ \E x \in Decisions : A = {x}
  <2>1. MatchOf(p, c) # NoRule => Aggregate(RuleSays(p, of, c)) \in Decisions
    BY RuleIn, AggregateIs
  <2> QED BY <1>2, <2>1, RuleIn
<1>6. P = {} \/ \E x \in Decisions : P = {x}
  BY <1>2, AnalyzePythonIs DEF Decisions
<1>7. PICK D, E : D = A \cup P /\ E = B \cup Q
  OBVIOUS
<1>8. D \in SUBSET Decisions /\ E \in SUBSET Decisions
  BY <1>3, <1>4, <1>5, <1>6, <1>7 DEF Decisions, Lists
<1>9. \A x \in D : \E y \in E : NeverLaxer(x, y)
  BY <1>3, <1>4, <1>5, <1>6, <1>7
<1>10. \A y \in E : y \in {"Ask", "Deny"} \/ \E x \in D : NeverLaxer(x, y)
  BY <1>3, <1>4, <1>5, <1>6, <1>7
<1>11. DecideCommand(p, of, c) =
        IF Builtin[c] = "empty" THEN "NoOpinion" ELSE IF Builtin[c] = "marker" THEN "Allow"
        ELSE IF D # {} THEN Strictest(D) ELSE Fallback[Builtin[c]]
  BY <1>2, <1>7 DEF DecideCommand
<1>12. DecideCommand(q, from, c) =
        IF Builtin[c] = "empty" THEN "NoOpinion" ELSE IF Builtin[c] = "marker" THEN "Allow"
        ELSE IF E # {} THEN Strictest(E) ELSE Fallback[Builtin[c]]
  BY <1>2, <1>7 DEF DecideCommand
<1>13. CASE Builtin[c] \in {"empty", "marker"}
  <2>1. DecideCommand(p, of, c) \in Decisions /\ DecideCommand(q, from, c) = DecideCommand(p, of, c)
    BY <1>11, <1>12, <1>13 DEF Decisions, Lists
  <2> QED BY <2>1, NotLaxerItself
<1>14. CASE Builtin[c] \notin {"empty", "marker"} /\ D # {}
  <2>1. E # {}
    BY <1>9, <1>14
  <2>2. NeverLaxer(Strictest(D), Strictest(E))
    BY <1>8, <1>9, <1>10, <1>14, StrictestSaid
  <2> QED BY <1>11, <1>12, <1>14, <2>1, <2>2
<1>15. CASE Builtin[c] \notin {"empty", "marker"} /\ D = {}
  <2>1. PICK x \in Decisions : x = Fallback[Builtin[c]] /\ x # "Deny"
    BY <1>15, BuiltinIs DEF Decisions, Lists
  <2>2. CASE E = {}
    <3>1. DecideCommand(p, of, c) = x /\ DecideCommand(q, from, c) = x
      BY <1>11, <1>12, <1>15, <2>1, <2>2
    <3> QED BY <3>1, NotLaxerItself
  <2>3. CASE E # {}
    <3>1. E \subseteq {"Ask", "Deny"}
      BY <1>10, <1>15
    <3>2. Strictest(E) \in {"Ask", "Deny"}
      BY <1>8, <2>3, <3>1, StrictestIs
    <3>3. NeverLaxer(x, Strictest(E))
      BY <2>1, <3>2, LaxerIs DEF Decisions, Lists
    <3>4. DecideCommand(p, of, c) = x /\ DecideCommand(q, from, c) = Strictest(E)
      BY <1>11, <1>12, <1>15, <2>1, <2>3
    <3> QED BY <3>3, <3>4
  <2> QED BY <2>2, <2>3
<1> QED BY <1>13, <1>14, <1>15

LEMMA DeniesAll ==
  ASSUME NEW p \in Policies, NEW layer \in Layers, NEW q, Denies(p, layer, q)
  PROVE  Tighter(MatchBash(p), MatchBash(q), Commands)
<1>1. q \in Policies
  BY DeniesIs
<1>2. PICK of, from : of = MatchBash(p) /\ from = MatchBash(q)
  OBVIOUS
<1>3. /\ Gives(of, Commands) /\ \A c \in Commands : of[c] = DecideCommand(p, of, c)
      /\ Gives(from, Commands) /\ \A c \in Commands : from[c] = DecideCommand(q, from, c)
  BY <1>1, <1>2, MatchBashIs DEF Gives
<1> DEFINE T == {c \in Commands : NeverLaxer(of[c], from[c])}
<1>4. ASSUME NEW c \in Commands, Later(c) \subseteq T PROVE c \in T
  <2>1. Gives(of, Later(c)) /\ Gives(from, Later(c))
    BY <1>3 DEF Gives, Later
  <2>2. Tighter(of, from, Later(c))
    BY <1>4 DEF Tighter
  <2>3. NeverLaxer(DecideCommand(p, of, c), DecideCommand(q, from, c))
    BY <2>1, <2>2, DeniesCommand
  <2> QED BY <1>3, <2>3
<1>5. T = Commands
  <2>1. T \in SUBSET Commands
    OBVIOUS
  <2> HIDE DEF T
  <2> QED BY <1>4, <2>1, LaterFirst
<1> QED BY <1>2, <1>5 DEF Tighter

LEMMA DenyLayerHolds ==
  ASSUME WellFormed
  PROVE  DenyLayerTightens
<1>1. PICK p \in Policies, m \in Lines(Commands) : p = policy /\ m = line
  BY DEF WellFormed
<1>2. ASSUME NEW layer \in Layers, OnlyDenies(layer)
      PROVE  NeverLaxer(Decide(p, m), Decide(Merged(p, layer), m))
  <2>1. PICK q \in Policies : q = Merged(p, layer)
    BY MergedIs
  <2>2. Denies(p, layer, q)
    BY <1>2, <2>1 DEF Denies
  <2>3. PICK of, from : of = MatchBash(p) /\ from = MatchBash(q)
    OBVIOUS
  <2>4. Tighter(of, from, Commands)
    BY <2>2, <2>3, DeniesAll
  <2>5. Gives(of, Commands) /\ Gives(from, Commands)
    BY <2>3, AllGiven
  <2>6. NeverLaxer(DecideShell(p, of, m), DecideShell(q, from, m))
    BY <2>2, <2>4, <2>5, DeniesLine
  <2> QED BY <2>1, <2>3, <2>6 DEF Decide
<1> QED BY <1>1, <1>2 DEF DenyLayerTightens, Verdict

-----------------------------------------------------------------------------
(* What a line leads to. *)

InPart(t, inside) ==
  (\E l \in inside.shell : t \in Range(l.segments)) \/ (\E d \in inside.exec : t = Bare(d))
LEMMA InParts == \A s, t : t \in Parts(s) <=> InPart(t, Inside(s.command))
BY DEF Parts, InPart

LEMMA PartsIs ==
  ASSUME WellFormed, NEW s \in Segments(Commands)
  PROVE  Parts(s) \in SUBSET Segments(Commands) /\ \A t \in Parts(s) : t.command \in Later(s.command)
<1>1. PICK c \in Commands : c = s.command
  BY DEF Segments
<1>2. Inside(c).exec \subseteq Later(c) /\ Inside(c).shell \subseteq Lines(Later(c))
  <2>1. CASE Inside(c) = Silent
    BY <2>1 DEF Silent
  <2>2. CASE Inside(c) # Silent
    <3>1. Inside(c) = CapturesOf(policy, c) /\ MatchOf(policy, c) # NoRule /\ policy \in Policies
      BY <2>2 DEF Inside, WellFormed
    <3> QED BY <3>1, CapturedLater
  <2> QED BY <2>1, <2>2
<1>3. ASSUME NEW t \in Parts(s) PROVE t \in Segments(Later(c))
  <2>1. CASE \E l \in Inside(c).shell : t \in Range(l.segments)
    <3>1. PICK l \in Lines(Later(c)) : t \in Range(l.segments)
      BY <1>2, <2>1
    <3>2. PICK segments \in Seq(Segments(Later(c))) : segments = l.segments
      BY DEF Lines
    <3> QED BY <3>1, <3>2, RangeIndexed
  <2>2. CASE \E d \in Inside(c).exec : t = Bare(d)
    BY <1>2, <2>2, BareIn
  <2> QED BY <1>1, <1>3, <2>1, <2>2, InParts DEF InPart
<1>4. \A t \in Segments(Later(c)) : t \in Segments(Commands) /\ t.command \in Later(c)
  BY DEF Segments, Later
<1> QED BY <1>1, <1>3, <1>4

Grow(X) == X \cup UNION {Parts(s) : s \in X}
Grows(f) == /\ f[0] = Range(line.segments)
            /\ \A i \in 1..Cardinality(Commands) : f[i] = Grow(f[i - 1])
LEMMA ReachedBuilt ==
  ASSUME WellFormed
  PROVE  /\ Range(line.segments) \subseteq Segments(Commands)
         /\ \E f \in [0..Cardinality(Commands) -> SUBSET Segments(Commands)] :
                Grows(f) /\ Reached = f[Cardinality(Commands)]
<1> DEFINE N == Cardinality(Commands)
           V == SUBSET Segments(Commands)
           step == [x \in V \X (1..N) |-> Grow(x[1])]
<1>1. N \in Nat
  BY CommandAssumption, FS_CardinalityType
<1>2. PICK segments \in Seq(Segments(Commands)) : segments = line.segments
  BY DEF WellFormed, Lines
<1>3. PICK base \in V : base = Range(line.segments)
  BY <1>2, RangeIndexed
<1>4. \A X \in V : Grow(X) \in V
  BY PartsIs DEF Grow
<1> HIDE DEF N
<1>5. step \in [V \X (1..N) -> V]
  <2> HIDE DEF V
  <2> QED BY <1>4
<1>6. PICK f \in [0..N -> V] : Defines(f, N, base, step)
  <2> HIDE DEF V, step
  <2> QED BY <1>1, <1>3, <1>5, Recursion
<1>7. f[0] = base /\ \A i \in 1..N : f[i] = Grow(f[i - 1])
  <2>1. ASSUME NEW i \in 1..N PROVE f[i] = Grow(f[i - 1])
    <3>1. f[i - 1] \in V
      <4> HIDE DEF V
      <4> QED BY <1>1, <1>6
    <3>2. PICK X \in V : X = f[i - 1]
      BY <3>1
    <3>3. f[i] = step[<<X, i>>]
      BY <1>6, <3>2 DEF Defines
    <3>4. <<X, i>> \in V \X (1..N)
      OBVIOUS
    <3>5. step[<<X, i>>] = Grow(X)
      <4> HIDE DEF V, Grow
      <4> QED BY <3>4
    <3> QED BY <3>2, <3>3, <3>5
  <2> QED BY <1>6, <2>1 DEF Defines
<1> HIDE DEF step
<1> DEFINE Body(g) == [n \in 0..N |->
                IF n = 0 THEN Range(line.segments)
                ELSE LET before == g[n - 1] IN before \cup UNION {Parts(segment) : segment \in before}]
<1>8. \A g, n : n \in 0..N => Body(g)[n] = IF n = 0 THEN base ELSE Grow(g[n - 1])
  BY <1>3 DEF Grow
<1>9. f = Body(f)
  <2>1. \A n \in 0..N : Body(f)[n] = f[n]
    <3>1. \A n \in 0..N : n = 0 \/ n \in 1..N
      BY <1>1
    <3> HIDE DEF Body
    <3> QED BY <1>7, <1>8, <3>1
  <2>2. Body(f) = [n \in 0..N |-> Body(f)[n]]
    OBVIOUS
  <2>3. f = [n \in 0..N |-> f[n]]
    <3> HIDE DEF V
    <3> QED BY <1>6
  <2> HIDE DEF Body
  <2> QED BY <2>1, <2>2, <2>3
<1>10. PICK g : g = Body(g) /\ Reached = g[N]
  BY <1>9 DEF Reached, N
<1>11. \A n \in 0..N : g[n] = IF n = 0 THEN base ELSE Grow(g[n - 1])
  <2> HIDE DEF Body
  <2> QED BY <1>8, <1>10
<1>12. g[N] = f[N]
  <2>1. g[0] = f[0]
    BY <1>1, <1>7, <1>11
  <2>2. \A i \in 1..N : g[i] = Grow(g[i - 1])
    BY <1>1, <1>11
  <2>3. InStep(g, f, N)
    BY <1>7, <2>2 DEF InStep
  <2> QED BY <1>1, <2>1, <2>3, AgreeAtEnd
<1> QED BY <1>3, <1>6, <1>7, <1>10, <1>12 DEF Grows, N

\* A set of segments with what they lead to.
Closed(X) == \A s \in X : Parts(s) \subseteq X
\* Early in the sequence, or near the last command.
Early(f, n) ==
  \A s \in f[n] : (n # 0 /\ s \in f[n - 1])
                    \/ Cardinality(Later(s.command)) + n < Cardinality(Commands)

LEMMA ReachedLeast ==
  ASSUME WellFormed, NEW X, Range(line.segments) \subseteq X, Closed(X)
  PROVE  Reached \subseteq X
<1> DEFINE N == Cardinality(Commands)
<1>1. N \in Nat
  BY CommandAssumption, FS_CardinalityType
<1>2. PICK f \in [0..N -> SUBSET Segments(Commands)] : Grows(f) /\ Reached = f[N]
  BY ReachedBuilt
<1>3. f[0] = Range(line.segments) /\ \A i \in 1..N : f[i] = Grow(f[i - 1])
  BY <1>2 DEF Grows
<1> HIDE DEF N
<1> DEFINE T == {n \in Nat : n <= N => f[n] \subseteq X}
<1>4. 0 \in T
  BY <1>3
<1>5. ASSUME NEW n \in T PROVE n + 1 \in T
  <2> SUFFICES ASSUME n + 1 <= N PROVE f[n + 1] \subseteq X
    OBVIOUS
  <2>1. n + 1 \in 1..N /\ (n + 1) - 1 = n /\ f[n] \subseteq X
    BY <1>1
  <2>2. f[n + 1] = Grow(f[n])
    BY <1>3, <2>1
  <2> QED BY <2>1, <2>2 DEF Grow, Closed
<1>6. T = Nat
  <2>1. T \in SUBSET Nat
    OBVIOUS
  <2> HIDE DEF T
  <2> QED BY <1>4, <1>5, <2>1, Inductive
<1> QED BY <1>1, <1>2, <1>6

LEMMA ReachedIs ==
  ASSUME WellFormed
  PROVE  /\ Reached \in SUBSET Segments(Commands)
         /\ Range(line.segments) \subseteq Reached
         /\ Closed(Reached)
<1> DEFINE N == Cardinality(Commands)
<1>1. N \in Nat
  BY CommandAssumption, FS_CardinalityType
<1>2. PICK f \in [0..N -> SUBSET Segments(Commands)] : Grows(f) /\ Reached = f[N]
  BY ReachedBuilt
<1>3. f[0] = Range(line.segments) /\ \A i \in 1..N : f[i] = Grow(f[i - 1])
  BY <1>2 DEF Grows
<1>0. \A n \in 0..N : \A s \in f[n] :
         /\ s \in Segments(Commands) /\ s.command \in Commands
         /\ Cardinality(Later(s.command)) \in Nat /\ Cardinality(Later(s.command)) < N
  <2> SUFFICES ASSUME NEW n \in 0..N, NEW s \in f[n]
               PROVE /\ s \in Segments(Commands) /\ s.command \in Commands
                     /\ Cardinality(Later(s.command)) \in Nat /\ Cardinality(Later(s.command)) < N
    OBVIOUS
  <2>1. s \in Segments(Commands)
    BY <1>2
  <2>2. s.command \in Commands
    BY <2>1 DEF Segments
  <2> QED BY <2>1, <2>2, LaterCounts
<1> HIDE DEF N
<1> DEFINE T == {n \in Nat : n <= N => Range(line.segments) \subseteq f[n] /\ Early(f, n)}
<1>4. 0 \in T
  <2>1. Early(f, 0)
    <3> SUFFICES ASSUME NEW s \in f[0] PROVE Cardinality(Later(s.command)) + 0 < N
      BY DEF Early, N
    <3>1. 0 \in 0..N
      BY <1>1
    <3>2. Cardinality(Later(s.command)) \in Nat /\ Cardinality(Later(s.command)) < N
      BY <1>0, <3>1
    <3> QED BY <1>1, <3>2
  <2> QED BY <1>3, <2>1
<1>5. ASSUME NEW n \in T PROVE n + 1 \in T
  <2> SUFFICES ASSUME n + 1 <= N PROVE Range(line.segments) \subseteq f[n + 1] /\ Early(f, n + 1)
    OBVIOUS
  <2>1. /\ n \in Nat /\ n + 1 \in 1..N /\ (n + 1) - 1 = n /\ n \in 0..N /\ n <= N
        /\ Range(line.segments) \subseteq f[n] /\ Early(f, n)
    BY <1>1
  <2>2. f[n + 1] = Grow(f[n])
    BY <1>3, <2>1
  <2>3. ASSUME NEW s \in f[n + 1]
        PROVE  s \in f[n] \/ Cardinality(Later(s.command)) + (n + 1) < N
    <3>1. CASE s \in f[n]
      BY <3>1
    <3>2. CASE s \notin f[n]
      <4>1. PICK t \in f[n] : s \in Parts(t)
        BY <2>2, <3>2 DEF Grow
      <4>2. t \in Segments(Commands) /\ t.command \in Commands /\ Cardinality(Later(t.command)) \in Nat
        BY <1>0, <2>1
      <4>3. s.command \in Later(t.command)
        BY <4>1, <4>2, PartsIs
      <4>4. s.command \in Commands /\ Cardinality(Later(s.command)) < Cardinality(Later(t.command))
        BY <4>2, <4>3, LaterCounts
      <4>5. Cardinality(Later(s.command)) \in Nat
        BY <4>4, LaterCounts
      <4>6. Cardinality(Later(t.command)) + n < N
        <5>1. CASE n # 0 /\ t \in f[n - 1]
          <6>1. n \in 1..N
            BY <1>1, <2>1, <5>1
          <6>2. s \in f[n]
            BY <1>3, <4>1, <5>1, <6>1 DEF Grow
          <6> QED BY <3>2, <6>2
        <5>2. CASE ~(n # 0 /\ t \in f[n - 1])
          BY <2>1, <5>2 DEF Early, N
        <5> QED BY <5>1, <5>2
      <4>7. PICK x \in Nat, y \in Nat : x = Cardinality(Later(s.command)) /\ y = Cardinality(Later(t.command))
        BY <4>2, <4>5
      <4> QED BY <1>1, <2>1, <4>4, <4>6, <4>7
    <3> QED BY <3>1, <3>2
  <2>4. Early(f, n + 1)
    BY <2>1, <2>3 DEF Early, N
  <2>5. Range(line.segments) \subseteq f[n + 1]
    BY <2>1, <2>2 DEF Grow
  <2> QED BY <2>4, <2>5
<1>6. T = Nat
  <2>1. T \in SUBSET Nat
    OBVIOUS
  <2> HIDE DEF T
  <2> QED BY <1>4, <1>5, <2>1, Inductive
<1>7. Range(line.segments) \subseteq f[N] /\ Early(f, N)
  BY <1>1, <1>6
<1>8. ASSUME NEW s \in f[N] PROVE Parts(s) \subseteq f[N]
  <2>1. N \in 0..N /\ Cardinality(Later(s.command)) \in Nat
    BY <1>0, <1>1
  <2>2. ~(Cardinality(Later(s.command)) + N < N)
    BY <1>1, <2>1
  <2>3. N # 0 /\ s \in f[N - 1]
    BY <1>7, <2>2 DEF Early, N
  <2>4. N \in 1..N
    BY <1>1, <2>3
  <2>5. f[N] = Grow(f[N - 1])
    BY <1>3, <2>4
  <2> QED BY <2>3, <2>5 DEF Grow
<1>9. f[N] \in SUBSET Segments(Commands)
  BY <1>1, <1>2 DEF N
<1> QED BY <1>2, <1>7, <1>8, <1>9 DEF Closed, N

-----------------------------------------------------------------------------
(* When a line is denied, and when it is allowed. *)

LEMMA LineDenies ==
  ASSUME NEW p \in Policies, NEW C, NEW l \in Lines(C), NEW of, Gives(of, C)
  PROVE  /\ DecideShell(p, of, l) = "Deny" <=>
                \E s \in Range(l.segments) : DecideSegment(p, of, s) = "Deny"
         /\ DecideShell(p, of, l) = "Allow" <=>
                /\ l.parseable /\ l.segments # <<>>
                /\ \A s \in Range(l.segments) : DecideSegment(p, of, s) = "Allow"
<1>1. PICK D : D = Said(p, of, l)
  OBVIOUS
<1>2. /\ D \in SUBSET Decisions
      /\ DecideShell(p, of, l) = IF l.parseable THEN Aggregate(D) ELSE "Ask"
  BY <1>1, LineIn
<1>3. D = {DecideSegment(p, of, s) : s \in Range(l.segments)}
  BY <1>1, SaidIs
<1>4. /\ Aggregate(D) = "Deny" <=> "Deny" \in D
      /\ Aggregate(D) = "Allow" <=> D = {"Allow"}
  BY <1>2, AggregateIs
<1>5. "Deny" \in D <=> \E s \in Range(l.segments) : DecideSegment(p, of, s) = "Deny"
  BY <1>3
<1>6. /\ ~l.parseable => l.segments = <<>>
      /\ Range(l.segments) = {} <=> l.segments = <<>>
  <2>1. PICK segments \in Seq(Segments(C)) : segments = l.segments /\ (l.parseable \/ l.segments = <<>>)
    BY DEF Lines
  <2>2. Range(segments) = {segments[i] : i \in 1..Len(segments)}
    BY RangeIndexed
  <2>3. segments = <<>> <=> 1..Len(segments) = {}
    <3>1. segments # <<>> => Len(segments) \in Nat /\ Len(segments) # 0
      OBVIOUS
    <3>2. segments # <<>> => 1 \in 1..Len(segments)
      BY <3>1
    <3>3. Len(<<>>) = 0 /\ 1..0 = {}
      OBVIOUS
    <3> QED BY <3>2, <3>3
  <2> QED BY <2>1, <2>2, <2>3
<1>7. D = {"Allow"} <=> Range(l.segments) # {} /\ \A s \in Range(l.segments) : DecideSegment(p, of, s) = "Allow"
  BY <1>3
<1>8. DecideShell(p, of, l) = "Deny" <=> "Deny" \in D
  BY <1>2, <1>4, <1>5, <1>6
<1>9. DecideShell(p, of, l) = "Allow" <=> l.parseable /\ D = {"Allow"}
  BY <1>2, <1>4
<1> QED BY <1>5, <1>6, <1>7, <1>8, <1>9

LEMMA RuleDenies ==
  ASSUME NEW p \in Policies, NEW c \in Commands, NEW of, Gives(of, Commands),
         MatchOf(p, c) # NoRule, NEW a, a = Aggregate(RuleSays(p, of, c))
  PROVE  /\ a \in Lists
         /\ a = "Deny" <=>
              \/ MatchOf(p, c)[1] = "Deny"
              \/ \E q \in CapturesOf(p, c).sql : DecideSql(p, q) = "Deny"
              \/ \E t : InPart(t, CapturesOf(p, c)) /\ DecideSegment(p, of, t) = "Deny"
         /\ a = "Allow" <=>
              /\ MatchOf(p, c)[1] = "Allow"
              /\ \A q \in CapturesOf(p, c).sql : DecideSql(p, q) = "Allow"
              /\ \A l \in CapturesOf(p, c).shell : l.parseable /\ l.segments # <<>>
              /\ \A t : InPart(t, CapturesOf(p, c)) => DecideSegment(p, of, t) = "Allow"
<1>1. PICK X, f : X = CapturesOf(p, c) /\ f = MatchOf(p, c)
  OBVIOUS
<1>2. f[1] \in Lists /\ X.exec \subseteq Later(c) /\ X.shell \subseteq Lines(Later(c))
  BY <1>1, CapturedLater
<1>3. Gives(of, Later(c))
  BY DEF Gives, Later
<1>4. PICK D \in SUBSET Decisions : D = RuleSays(p, of, c)
  BY <1>3, RuleIn
<1>5. D = {f[1]} \cup {DecideSql(p, q) : q \in X.sql}
             \cup {DecideShell(p, of, l) : l \in X.shell} \cup {DecideSegment(p, of, Bare(d)) : d \in X.exec}
  BY <1>1, <1>4 DEF RuleSays
<1>6. /\ a \in Decisions
      /\ a = "Deny" <=> "Deny" \in D
      /\ a = "Allow" <=> D = {"Allow"}
      /\ a = "NoOpinion" <=> D \subseteq {"NoOpinion"}
  BY <1>4, AggregateIs
<1>7. a \in Lists
  <2>1. f[1] \in D /\ f[1] # "NoOpinion"
    BY <1>2, <1>5 DEF Lists
  <2> QED BY <1>6, <2>1 DEF Decisions
<1>8. \A l \in X.shell :
        /\ DecideShell(p, of, l) = "Deny" <=> \E s \in Range(l.segments) : DecideSegment(p, of, s) = "Deny"
        /\ DecideShell(p, of, l) = "Allow" <=>
                /\ l.parseable /\ l.segments # <<>>
                /\ \A s \in Range(l.segments) : DecideSegment(p, of, s) = "Allow"
  BY <1>2, <1>3, LineDenies
<1>9. "Deny" \in D <=>
         \/ f[1] = "Deny"
         \/ \E q \in X.sql : DecideSql(p, q) = "Deny"
         \/ \E l \in X.shell : DecideShell(p, of, l) = "Deny"
         \/ \E d \in X.exec : DecideSegment(p, of, Bare(d)) = "Deny"
  BY <1>5
<1>10. D = {"Allow"} <=>
         /\ f[1] = "Allow"
         /\ \A q \in X.sql : DecideSql(p, q) = "Allow"
         /\ \A l \in X.shell : DecideShell(p, of, l) = "Allow"
         /\ \A d \in X.exec : DecideSegment(p, of, Bare(d)) = "Allow"
  BY <1>5
<1>11. (\E t : InPart(t, X) /\ DecideSegment(p, of, t) = "Deny") <=>
         \/ \E l \in X.shell : DecideShell(p, of, l) = "Deny"
         \/ \E d \in X.exec : DecideSegment(p, of, Bare(d)) = "Deny"
  BY <1>8 DEF InPart
<1>12. ((\A l \in X.shell : l.parseable /\ l.segments # <<>>)
          /\ (\A t : InPart(t, X) => DecideSegment(p, of, t) = "Allow")) <=>
         /\ \A l \in X.shell : DecideShell(p, of, l) = "Allow"
         /\ \A d \in X.exec : DecideSegment(p, of, Bare(d)) = "Allow"
  BY <1>8 DEF InPart
<1>13. a = "Deny" <=>
         \/ f[1] = "Deny"
         \/ \E q \in X.sql : DecideSql(p, q) = "Deny"
         \/ \E t : InPart(t, X) /\ DecideSegment(p, of, t) = "Deny"
  BY <1>6, <1>9, <1>11
<1>14. a = "Allow" <=>
         /\ f[1] = "Allow"
         /\ \A q \in X.sql : DecideSql(p, q) = "Allow"
         /\ \A l \in X.shell : l.parseable /\ l.segments # <<>>
         /\ \A t : InPart(t, X) => DecideSegment(p, of, t) = "Allow"
  BY <1>6, <1>10, <1>12
<1> QED BY <1>1, <1>7, <1>13, <1>14

LEMMA DenyRulesAre ==
  ASSUME NEW p \in Policies, p = policy, NEW c
  PROVE  /\ MatchOf(p, c)[1] = "Deny" <=>
                \E rule \in DenyRules("shell") : c \in rule.wide \cap DOMAIN rule.captures
         /\ \A q : DecideSql(p, q) = "Deny" <=> \E rule \in DenyRules("sql") : q.text \in rule.texts
<1>1. \A kind : DenyRules(kind) = {rule[2] : rule \in {x \in RulesOf(p, kind) : x[1] = "Deny"}}
  BY DEF DenyRules
<1>2. \A q : DecideSql(p, q) = "Deny" <=> \E rule \in DenyRules("sql") : q.text \in rule.texts
  BY <1>1, DecideSqlIs
<1>3. PICK f, M : f = MatchOf(p, c) /\ M = {rule \in RulesOf(p, "shell") : Matches(rule, c)}
  OBVIOUS
<1>4. Speaks(f, M, NoRule)
  BY <1>3, MatchOfIs
<1>5. NoRule[1] # "Deny"
  BY DEF NoRule
<1>6. f[1] = "Deny" <=> \E x \in M : x[1] = "Deny"
  BY <1>4, <1>5 DEF Speaks
<1>7. \A x : x \in M /\ x[1] = "Deny" <=>
               x \in RulesOf(p, "shell") /\ x[1] = "Deny" /\ c \in x[2].wide \cap DOMAIN x[2].captures
  BY <1>3 DEF Matches
<1>8. f[1] = "Deny" <=> \E rule \in DenyRules("shell") : c \in rule.wide \cap DOMAIN rule.captures
  BY <1>1, <1>6, <1>7
<1> QED BY <1>2, <1>3, <1>8

\* What is said of a command: by the rule it matches, the analysis of its Python, or,
\* where neither speaks, the evaluator.
LEMMA CommandSays ==
  ASSUME NEW p \in Policies, NEW c \in Commands, Builtin[c] \notin {"empty", "marker"},
         NEW of, Gives(of, Commands), NEW P, P = AnalyzePython(p, c),
         NEW a, a = Aggregate(RuleSays(p, of, c)), NEW o, o = DecideCommand(p, of, c)
  PROVE  /\ MatchOf(p, c) # NoRule =>
              /\ o = "Deny" <=> a = "Deny" \/ "Deny" \in P
              /\ o = "Allow" <=> a = "Allow" /\ P \subseteq {"Allow"}
         /\ MatchOf(p, c) = NoRule =>
              /\ o = "Deny" <=> "Deny" \in P
              /\ o = "Allow" <=> P = {"Allow"} \/ (P = {} /\ Builtin[c] \in {"inert", "lookup"})
<1>1. Gives(of, Later(c))
  BY DEF Gives, Later
<1>2. P = {} \/ \E x \in Lists : P = {x}
  BY AnalyzePythonIs
<1>3. MatchOf(p, c) # NoRule => a \in Lists
  BY RuleDenies
<1>4. PICK A : A = DecideByRule(p, of, c)
  OBVIOUS
<1>5. A = IF MatchOf(p, c) = NoRule THEN {} ELSE {a}
  BY <1>1, <1>4, RuleIn
<1>6. PICK D : D = A \cup P
  OBVIOUS
<1>7. o = IF D # {} THEN Strictest(D) ELSE Fallback[Builtin[c]]
  BY <1>4, <1>6 DEF DecideCommand
<1>8. D \in SUBSET Lists
  BY <1>2, <1>3, <1>5, <1>6
<1>9. Strictest(D) = IF "Deny" \in D THEN "Deny" ELSE IF "Ask" \in D THEN "Ask"
                     ELSE IF "Allow" \in D THEN "Allow" ELSE "NoOpinion"
  BY <1>8, StrictestIs DEF Decisions
<1>10. /\ D # {} => (o = "Deny" <=> "Deny" \in D)
       /\ D # {} => (o = "Allow" <=> D = {"Allow"})
  BY <1>7, <1>8, <1>9 DEF Lists
<1>11. D = {} => o # "Deny" /\ (o = "Allow" <=> Builtin[c] \in {"inert", "lookup"})
  <2>1. Builtin[c] \in DOMAIN Fallback
    BY CommandAssumption
  <2>2. \A x \in DOMAIN Fallback :
           Fallback[x] # "Deny" /\ (Fallback[x] = "Allow" <=> x \in {"inert", "lookup"})
    BY DEF Fallback
  <2> QED BY <1>7, <2>1, <2>2
<1>12. CASE MatchOf(p, c) # NoRule
  <2>1. D = {a} \cup P
    BY <1>5, <1>6, <1>12
  <2>2. "Deny" \in D <=> a = "Deny" \/ "Deny" \in P
    BY <2>1
  <2>3. D = {"Allow"} <=> a = "Allow" /\ P \subseteq {"Allow"}
    BY <2>1
  <2>4. D # {}
    BY <2>1
  <2> QED BY <1>10, <1>12, <2>2, <2>3, <2>4
<1>13. CASE MatchOf(p, c) = NoRule
  <2>1. D = P
    BY <1>5, <1>6, <1>13
  <2> QED BY <1>10, <1>11, <1>13, <2>1
<1> QED BY <1>12, <1>13

\* The verdict of a segment of the line or of what it leads to.
VerdictOf(s) == DecideSegment(policy, MatchBash(policy), s)
LEMMA SegmentDenies ==
  ASSUME WellFormed, NEW s \in Segments(Commands)
  PROVE  VerdictOf(s) = "Deny" <=> Denied(s) \/ \E t \in Parts(s) : VerdictOf(t) = "Deny"
<1>1. PICK p \in Policies : p = policy
  BY DEF WellFormed
<1>2. PICK c \in Commands : c = s.command
  BY DEF Segments
<1>3. PICK of, P, e, o : of = MatchBash(p) /\ P = AnalyzePython(p, c) /\ e = EvaluateRedirects(p, s) /\ o = of[c]
  OBVIOUS
<1>4. Gives(of, Commands) /\ o = DecideCommand(p, of, c) /\ o \in Decisions
  BY <1>3, MatchBashIs DEF Gives
<1>5. s.redirects \subseteq Redirects
  BY DEF Segments
<1>6. /\ e \in Decisions
      /\ e = "Deny" <=> \E r \in s.redirects : EvaluateRedirect(p, AllowPaths(p, c), r) = "Deny"
  BY <1>2, <1>3, <1>5, RedirectsIs
<1>7. VerdictOf(s) = "Deny" <=> e = "Deny" \/ o = "Deny"
  <2>1. VerdictOf(s) = Strictest({e, o})
    BY <1>1, <1>2, <1>3 DEF VerdictOf, DecideSegment
  <2>2. Strictest({e, o}) = "Deny" <=> "Deny" \in {e, o}
    <3>1. PICK D \in SUBSET Decisions : D = {e, o}
      BY <1>4, <1>6
    <3>2. Strictest(D) = "Deny" <=> "Deny" \in D
      BY <3>1, StrictestIs
    <3> QED BY <3>1, <3>2
  <2> QED BY <2>1, <2>2
<1>8. \A t : t \in Parts(s) <=> InPart(t, Inside(c))
  BY <1>2, InParts
<1>9. \A t : VerdictOf(t) = DecideSegment(p, of, t)
  BY <1>1, <1>3 DEF VerdictOf
<1>10. Denied(s) <=>
        \/ e = "Deny"
        \/ /\ Builtin[c] \notin {"empty", "marker"}
           /\ \/ MatchOf(p, c)[1] = "Deny"
              \/ \E q \in Inside(c).sql : DecideSql(p, q) = "Deny"
              \/ "Deny" \in P
  <2>1. MatchOf(p, c)[1] = "Deny" <=>
                \E rule \in DenyRules("shell") : c \in rule.wide \cap DOMAIN rule.captures
    BY <1>1, DenyRulesAre
  <2>2. \A q : DecideSql(p, q) = "Deny" <=> \E rule \in DenyRules("sql") : q.text \in rule.texts
    BY <1>1, DenyRulesAre
  <2> QED BY <1>1, <1>2, <1>3, <1>6, <2>1, <2>2 DEF Denied
<1>11. \A t : ~InPart(t, Silent)
  BY DEF InPart, Silent
<1>12. CASE Builtin[c] \in {"empty", "marker"}
  <2>1. o # "Deny"
    BY <1>4, <1>12 DEF DecideCommand
  <2>2. Inside(c) = Silent
    BY <1>12 DEF Inside
  <2> QED BY <1>7, <1>8, <1>10, <1>11, <1>12, <2>1, <2>2
<1>13. CASE Builtin[c] \notin {"empty", "marker"} /\ MatchOf(p, c) = NoRule
  <2>1. Inside(c) = Silent
    BY <1>1, <1>13 DEF Inside
  <2>2. o = "Deny" <=> "Deny" \in P
    BY <1>3, <1>4, <1>13, CommandSays
  <2>3. MatchOf(p, c)[1] # "Deny" /\ Silent.sql = {}
    BY <1>13 DEF NoRule, Silent
  <2> QED BY <1>7, <1>8, <1>10, <1>11, <1>13, <2>1, <2>2, <2>3
<1>14. CASE Builtin[c] \notin {"empty", "marker"} /\ MatchOf(p, c) # NoRule
  <2>1. Inside(c) = CapturesOf(p, c)
    BY <1>1, <1>14 DEF Inside
  <2>2. PICK a : a = Aggregate(RuleSays(p, of, c))
    OBVIOUS
  <2>3. o = "Deny" <=> a = "Deny" \/ "Deny" \in P
    BY <1>3, <1>4, <1>14, <2>2, CommandSays
  <2>4. a = "Deny" <=>
              \/ MatchOf(p, c)[1] = "Deny"
              \/ \E q \in CapturesOf(p, c).sql : DecideSql(p, q) = "Deny"
              \/ \E t : InPart(t, CapturesOf(p, c)) /\ DecideSegment(p, of, t) = "Deny"
    BY <1>4, <1>14, <2>2, RuleDenies
  <2>5. (\E t : InPart(t, CapturesOf(p, c)) /\ DecideSegment(p, of, t) = "Deny") <=>
            \E t \in Parts(s) : VerdictOf(t) = "Deny"
    BY <1>8, <1>9, <2>1
  <2> QED BY <1>7, <1>10, <1>14, <2>1, <2>3, <2>4, <2>5
<1> QED BY <1>12, <1>13, <1>14

LEMMA SegmentAllows ==
  ASSUME WellFormed, NEW s \in Segments(Commands)
  PROVE  VerdictOf(s) = "Allow" <=> Approved(s) /\ \A t \in Parts(s) : VerdictOf(t) = "Allow"
<1>1. PICK p \in Policies : p = policy
  BY DEF WellFormed
<1>2. PICK c \in Commands : c = s.command
  BY DEF Segments
<1>3. PICK of, P, e, o : of = MatchBash(p) /\ P = AnalyzePython(p, c) /\ e = EvaluateRedirects(p, s) /\ o = of[c]
  OBVIOUS
<1>4. Gives(of, Commands) /\ o = DecideCommand(p, of, c) /\ o \in Decisions
  BY <1>3, MatchBashIs DEF Gives
<1>5. s.redirects \subseteq Redirects
  BY DEF Segments
<1>6. e \in {"Deny", "Ask", "NoOpinion"} /\ e \in Decisions
  BY <1>2, <1>3, <1>5, RedirectsIs
<1>7. VerdictOf(s) = "Allow" <=> e = "NoOpinion" /\ o = "Allow"
  <2>1. VerdictOf(s) = Strictest({e, o})
    BY <1>1, <1>2, <1>3 DEF VerdictOf, DecideSegment
  <2>2. Strictest({e, o}) = "Allow" <=> e = "NoOpinion" /\ o = "Allow"
    <3>1. PICK D \in SUBSET Decisions : D = {e, o}
      BY <1>4, <1>6
    <3>2. Strictest(D) = IF "Deny" \in D THEN "Deny" ELSE IF "Ask" \in D THEN "Ask"
                         ELSE IF "Allow" \in D THEN "Allow" ELSE "NoOpinion"
      BY <3>1, StrictestIs
    <3>3. o \in {"Deny", "Ask", "Allow", "NoOpinion"}
      BY <1>4 DEF Decisions, Lists
    <3> QED BY <1>6, <3>1, <3>2, <3>3
  <2> QED BY <2>1, <2>2
<1>8. \A t : t \in Parts(s) <=> InPart(t, Inside(c))
  BY <1>2, InParts
<1>9. \A t : VerdictOf(t) = DecideSegment(p, of, t)
  BY <1>1, <1>3 DEF VerdictOf
<1>10. \A t : ~InPart(t, Silent)
  BY DEF InPart, Silent
<1>11. P \subseteq Lists /\ (P = {} \/ \E x \in Lists : P = {x})
  BY <1>3, AnalyzePythonIs
<1>12. PICK O : O = Opinions(s)
  OBVIOUS
<1>13. Approved(s) <=>
         /\ "Allow" \in O \/ (Builtin[c] \in {"marker", "inert", "lookup"} /\ O = {"NoOpinion"})
         /\ "Ask" \notin O /\ "Deny" \notin O
         /\ \A l \in Inside(c).shell : l.parseable /\ l.segments # <<>>
  BY <1>2, <1>12 DEF Approved
<1>14. O = {e} \cup (IF Builtin[c] \in {"empty", "marker"} THEN {}
                     ELSE P \cup (IF MatchOf(p, c) = NoRule THEN {} ELSE {MatchOf(p, c)[1]})
                          \cup {DecideSql(p, q) : q \in Inside(c).sql})
  BY <1>1, <1>2, <1>3, <1>12 DEF Opinions
<1>15. Silent.sql = {} /\ Silent.shell = {}
  BY DEF Silent
<1>16. CASE Builtin[c] \in {"empty", "marker"}
  <2>1. Inside(c) = Silent
    BY <1>16 DEF Inside
  <2>2. O = {e}
    BY <1>14, <1>16
  <2>3. o = "Allow" <=> Builtin[c] = "marker"
    BY <1>4, <1>16 DEF DecideCommand
  <2>4. Approved(s) <=> e = "NoOpinion" /\ Builtin[c] = "marker"
    BY <1>6, <1>13, <1>15, <1>16, <2>1, <2>2
  <2> QED BY <1>7, <1>8, <1>10, <2>1, <2>3, <2>4
<1>17. CASE Builtin[c] \notin {"empty", "marker"} /\ MatchOf(p, c) = NoRule
  <2>1. Inside(c) = Silent
    BY <1>1, <1>17 DEF Inside
  <2>2. O = {e} \cup P
    <3>1. {DecideSql(p, q) : q \in Inside(c).sql} = {}
      BY <1>15, <2>1
    <3> QED BY <1>14, <1>17, <3>1
  <2>3. o = "Allow" <=> P = {"Allow"} \/ (P = {} /\ Builtin[c] \in {"inert", "lookup"})
    BY <1>3, <1>4, <1>17, CommandSays
  <2>4. Approved(s) <=> e = "NoOpinion" /\ (P = {"Allow"} \/ (P = {} /\ Builtin[c] \in {"inert", "lookup"}))
    <3>1. CASE P = {}
      BY <1>6, <1>13, <1>15, <1>17, <2>1, <2>2, <3>1
    <3>2. CASE P # {}
      <4>1. PICK x \in Lists : P = {x}
        BY <1>11, <3>2
      <4>2. O = {e, x} /\ x \in {"Deny", "Ask", "Allow"}
        BY <2>2, <4>1 DEF Lists
      <4> QED BY <1>6, <1>13, <1>15, <1>17, <2>1, <4>1, <4>2
    <3> QED BY <3>1, <3>2
  <2> QED BY <1>7, <1>8, <1>10, <2>1, <2>3, <2>4
<1>18. CASE Builtin[c] \notin {"empty", "marker"} /\ MatchOf(p, c) # NoRule
  <2>1. Inside(c) = CapturesOf(p, c)
    BY <1>1, <1>18 DEF Inside
  <2>2. PICK a : a = Aggregate(RuleSays(p, of, c))
    OBVIOUS
  <2>3. o = "Allow" <=> a = "Allow" /\ P \subseteq {"Allow"}
    BY <1>3, <1>4, <1>18, <2>2, CommandSays
  <2>4. PICK X, d : X = CapturesOf(p, c) /\ d = MatchOf(p, c)[1]
    OBVIOUS
  <2>5. a = "Allow" <=>
              /\ d = "Allow"
              /\ \A q \in X.sql : DecideSql(p, q) = "Allow"
              /\ \A l \in X.shell : l.parseable /\ l.segments # <<>>
              /\ \A t : InPart(t, X) => DecideSegment(p, of, t) = "Allow"
    BY <1>4, <1>18, <2>2, <2>4, RuleDenies
  <2>6. (\A t : InPart(t, X) => DecideSegment(p, of, t) = "Allow") <=>
            \A t \in Parts(s) : VerdictOf(t) = "Allow"
    BY <1>8, <1>9, <2>1, <2>4
  <2>7. PICK Q : Q = {DecideSql(p, q) : q \in X.sql}
    OBVIOUS
  <2>8. O = {e, d} \cup P \cup Q
    BY <1>14, <1>18, <2>1, <2>4, <2>7
  <2>9. d \in {"Deny", "Ask", "Allow"} /\ Q \subseteq {"Deny", "Ask", "Allow"} /\ P \subseteq {"Deny", "Ask", "Allow"}
    BY <1>11, <1>18, <2>4, <2>7, CapturedLater, DecideSqlIs DEF Lists
  <2>10. (\A q \in X.sql : DecideSql(p, q) = "Allow") <=> Q \subseteq {"Allow"}
    BY <2>7
  <2>11. ("Allow" \in O \/ (Builtin[c] \in {"marker", "inert", "lookup"} /\ O = {"NoOpinion"}))
           /\ "Ask" \notin O /\ "Deny" \notin O
         <=> e = "NoOpinion" /\ d = "Allow" /\ P \subseteq {"Allow"} /\ Q \subseteq {"Allow"}
    BY <1>6, <2>8, <2>9
  <2>12. Approved(s) <=>
           /\ e = "NoOpinion" /\ d = "Allow" /\ P \subseteq {"Allow"} /\ Q \subseteq {"Allow"}
           /\ \A l \in X.shell : l.parseable /\ l.segments # <<>>
    BY <1>13, <2>1, <2>4, <2>11
  <2> QED BY <1>7, <2>3, <2>5, <2>6, <2>10, <2>12
<1> QED BY <1>16, <1>17, <1>18

\* The verdict of the line, by the verdicts of its segments.
LEMMA VerdictIs ==
  ASSUME WellFormed
  PROVE  /\ Verdict = "Deny" <=> \E s \in Range(line.segments) : VerdictOf(s) = "Deny"
         /\ Verdict = "Allow" <=>
                /\ line.parseable /\ line.segments # <<>>
                /\ \A s \in Range(line.segments) : VerdictOf(s) = "Allow"
<1>0. PICK p \in Policies, l \in Lines(Commands) : p = policy /\ l = line
  BY DEF WellFormed
<1>1. PICK of : p = policy /\ l = line /\ of = MatchBash(p)
  BY <1>0
<1>2. Gives(of, Commands)
  BY <1>1, AllGiven
<1>3. Verdict = DecideShell(p, of, l) /\ \A s : VerdictOf(s) = DecideSegment(p, of, s)
  BY <1>1 DEF Verdict, Decide, VerdictOf
<1>4. /\ DecideShell(p, of, l) = "Deny" <=>
                \E s \in Range(l.segments) : DecideSegment(p, of, s) = "Deny"
      /\ DecideShell(p, of, l) = "Allow" <=>
                /\ l.parseable /\ l.segments # <<>>
                /\ \A s \in Range(l.segments) : DecideSegment(p, of, s) = "Allow"
  BY <1>2, LineDenies
<1> QED BY <1>1, <1>3, <1>4

\* Down from the line to what it leads to, and up from the last commands.
LEMMA DeniedHolds ==
  ASSUME WellFormed
  PROVE  DeniedForCause
<1>1. /\ Reached \in SUBSET Segments(Commands) /\ Range(line.segments) \subseteq Reached /\ Closed(Reached)
  BY ReachedIs
<1>2. ASSUME Verdict # "Deny", NEW s \in Reached PROVE ~Denied(s)
  <2> DEFINE X == {t \in Segments(Commands) : VerdictOf(t) # "Deny"}
  <2>1. Range(line.segments) \subseteq X
    BY <1>1, <1>2, VerdictIs
  <2>2. Closed(X)
    BY SegmentDenies, PartsIs DEF Closed
  <2>3. Reached \subseteq X
    <3> HIDE DEF X
    <3> QED BY <2>1, <2>2, ReachedLeast
  <2> QED BY <2>3, SegmentDenies
<1>3. ASSUME \A s \in Reached : ~Denied(s) PROVE Verdict # "Deny"
  <2> DEFINE T == {c \in Commands : \A s \in Reached : s.command = c => VerdictOf(s) # "Deny"}
  <2>1. ASSUME NEW c \in Commands, Later(c) \subseteq T PROVE c \in T
    <3> SUFFICES ASSUME NEW s \in Reached, s.command = c PROVE VerdictOf(s) # "Deny"
      OBVIOUS
    <3>1. s \in Segments(Commands) /\ Parts(s) \subseteq Reached
      BY <1>1 DEF Closed
    <3>2. \A t \in Parts(s) : t.command \in T
      BY <2>1, <3>1, PartsIs
    <3>3. \A t \in Parts(s) : VerdictOf(t) # "Deny"
      BY <3>1, <3>2
    <3> QED BY <1>3, <3>1, <3>3, SegmentDenies
  <2>2. T = Commands
    <3>1. T \in SUBSET Commands
      OBVIOUS
    <3> HIDE DEF T
    <3> QED BY <2>1, <3>1, LaterFirst
  <2>3. \A s \in Reached : s.command \in Commands
    BY <1>1 DEF Segments
  <2>4. \A s \in Reached : VerdictOf(s) # "Deny"
    BY <2>2, <2>3
  <2> QED BY <1>1, <2>4, VerdictIs
<1> QED BY <1>2, <1>3 DEF DeniedForCause

LEMMA ApprovedHolds ==
  ASSUME WellFormed
  PROVE  ApprovedWhole
<1>1. /\ Reached \in SUBSET Segments(Commands) /\ Range(line.segments) \subseteq Reached /\ Closed(Reached)
  BY ReachedIs
<1>2. ASSUME Verdict = "Allow", NEW s \in Reached PROVE Approved(s)
  <2> DEFINE X == {t \in Segments(Commands) : VerdictOf(t) = "Allow"}
  <2>1. Range(line.segments) \subseteq X
    BY <1>1, <1>2, VerdictIs
  <2>2. Closed(X)
    BY SegmentAllows, PartsIs DEF Closed
  <2>3. Reached \subseteq X
    <3> HIDE DEF X
    <3> QED BY <2>1, <2>2, ReachedLeast
  <2> QED BY <2>3, SegmentAllows
<1>3. ASSUME \A s \in Reached : Approved(s), NEW r \in Reached PROVE VerdictOf(r) = "Allow"
  <2> DEFINE T == {c \in Commands : \A s \in Reached : s.command = c => VerdictOf(s) = "Allow"}
  <2>1. ASSUME NEW c \in Commands, Later(c) \subseteq T PROVE c \in T
    <3> SUFFICES ASSUME NEW s \in Reached, s.command = c PROVE VerdictOf(s) = "Allow"
      OBVIOUS
    <3>1. s \in Segments(Commands) /\ Parts(s) \subseteq Reached
      BY <1>1 DEF Closed
    <3>2. \A t \in Parts(s) : t.command \in T
      BY <2>1, <3>1, PartsIs
    <3>3. \A t \in Parts(s) : VerdictOf(t) = "Allow"
      BY <3>1, <3>2
    <3> QED BY <1>3, <3>1, <3>3, SegmentAllows
  <2>2. T = Commands
    <3>1. T \in SUBSET Commands
      OBVIOUS
    <3> HIDE DEF T
    <3> QED BY <2>1, <3>1, LaterFirst
  <2>3. r.command \in Commands
    BY <1>1 DEF Segments
  <2> QED BY <2>2, <2>3
<1>4. Verdict = "Allow" => line.parseable /\ line.segments # <<>>
  BY VerdictIs
<1>5. line.parseable /\ line.segments # <<>> /\ (\A s \in Reached : Approved(s)) => Verdict = "Allow"
  BY <1>1, <1>3, VerdictIs
<1> QED BY <1>2, <1>4, <1>5 DEF ApprovedWhole

-----------------------------------------------------------------------------
(* The theorems. *)

LEMMA BareAdded ==
  ASSUME NEW l \in Lines(Commands), l.parseable, NEW c \in Commands
  PROVE  [l EXCEPT !.segments = Append(@, Bare(c))] \in Lines(Commands)
<1>1. Bare(c) \in Segments(Commands)
  BY BareIn
<1>2. PICK segments \in Seq(Segments(Commands)) : segments = l.segments
  BY DEF Lines
<1>3. Append(segments, Bare(c)) \in Seq(Segments(Commands))
  BY <1>1, AppendProperties
<1>4. l \in [parseable : BOOLEAN, segments : Seq(Segments(Commands))]
  BY DEF Lines
<1>5. PICK more : more = Append(segments, Bare(c))
  OBVIOUS
<1>6. [l EXCEPT !.segments = more] \in [parseable : BOOLEAN, segments : Seq(Segments(Commands))]
      /\ [l EXCEPT !.segments = more].parseable
  BY <1>3, <1>4, <1>5
<1> QED BY <1>2, <1>5, <1>6 DEF Lines

LEMMA RedirectAdded ==
  ASSUME NEW l \in Lines(Commands), l.parseable, NEW i \in DOMAIN l.segments, NEW r \in Redirects
  PROVE  [l EXCEPT !.segments[i].redirects = @ \cup {r}] \in Lines(Commands)
<1>1. PICK segments \in Seq(Segments(Commands)) : segments = l.segments
  BY DEF Lines
<1>2. PICK s \in Segments(Commands) : s = segments[i]
  BY <1>1
<1>3. PICK t : t = [s EXCEPT !.redirects = @ \cup {r}]
  OBVIOUS
<1>4. t \in Segments(Commands)
  BY <1>3 DEF Segments
<1>5. PICK rest : rest = [segments EXCEPT ![i] = t]
  OBVIOUS
<1>6. rest \in Seq(Segments(Commands))
  BY <1>1, <1>4, <1>5
<1>7. l \in [parseable : BOOLEAN, segments : Seq(Segments(Commands))]
  BY DEF Lines
<1>8. [l EXCEPT !.segments = rest] \in [parseable : BOOLEAN, segments : Seq(Segments(Commands))]
      /\ [l EXCEPT !.segments = rest].parseable
  BY <1>6, <1>7
<1>9. [l EXCEPT !.segments[i].redirects = @ \cup {r}] = [l EXCEPT !.segments = rest]
  BY <1>1, <1>2, <1>3, <1>5
<1> QED BY <1>8, <1>9 DEF Lines

LEMMA InitWellFormed == Init => WellFormed
<1>1. NoLine \in Lines(Commands)
  BY DEF NoLine, Lines
<1> QED BY <1>1, EmptyPolicy DEF Init, WellFormed

LEMMA NextWellFormed == WellFormed /\ [Next]_vars => WellFormed'
<1> SUFFICES ASSUME WellFormed, [Next]_vars PROVE WellFormed'
  OBVIOUS
<1>1. PICK p \in Policies, l \in Lines(Commands) : p = policy /\ l = line
  BY DEF WellFormed
<1>2. CASE MergeLayer
  <2>1. PICK layer \in Layers : policy' = Merged(p, layer)
    BY <1>1, <1>2 DEF MergeLayer
  <2>2. policy' \in Policies
    BY <2>1, MergedIs
  <2> QED BY <1>2, <2>2 DEF MergeLayer, WellFormed
<1>3. CASE AddCommand
  <2>1. PICK c \in Commands : line' = [l EXCEPT !.segments = Append(@, Bare(c))]
    BY <1>1, <1>3 DEF AddCommand
  <2>2. line' \in Lines(Commands)
    BY <1>1, <1>3, <2>1, BareAdded DEF AddCommand
  <2> QED BY <1>3, <2>2 DEF AddCommand, WellFormed
<1>4. CASE AddRedirect
  <2>1. PICK i \in DOMAIN l.segments, r \in Redirects :
           line' = [l EXCEPT !.segments[i].redirects = @ \cup {r}]
    BY <1>1, <1>4 DEF AddRedirect
  <2>2. line' \in Lines(Commands)
    BY <1>1, <1>4, <2>1, RedirectAdded DEF AddRedirect
  <2> QED BY <1>4, <2>2 DEF AddRedirect, WellFormed
<1>5. CASE Unparseable
  <2>1. line' \in Lines(Commands)
    BY <1>5 DEF Unparseable, Lines
  <2> QED BY <1>5, <2>1 DEF Unparseable, WellFormed
<1>6. CASE UNCHANGED vars
  BY <1>6 DEF vars, WellFormed
<1> QED BY <1>2, <1>3, <1>4, <1>5, <1>6 DEF Next

\* The policies and the lines are always well-formed: what the theorems below rest on.
THEOREM AlwaysWellFormed == Spec => []WellFormed
BY InitWellFormed, NextWellFormed, PTL DEF Spec

\* A line is allowed if and only if every command it leads to is approved by itself,
\* however deep the captures of _match_bash nest.
THEOREM ApprovedByParts == Spec => []ApprovedWhole
BY AlwaysWellFormed, ApprovedHolds, PTL

\* A line is denied if and only if a rule, a setting or the Python of a command it leads
\* to denies: _decide_shell, wherever the Deny rule stands in the policy.
THEOREM DeniedByParts == Spec => []DeniedForCause
BY AlwaysWellFormed, DeniedHolds, PTL

\* One more command or redirection never makes the verdict of _decide_shell laxer.
THEOREM LongerIsStricter == Spec => []LongerNeverLaxer
BY AlwaysWellFormed, LongerHolds, PTL

\* One more layer that only denies (merged_with) never makes the verdict laxer, whatever
\* the analysis of Python makes of it.
THEOREM DenyLayerIsStricter == Spec => []DenyLayerTightens
BY AlwaysWellFormed, DenyLayerHolds, PTL
==============================================================================
