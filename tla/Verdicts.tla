------------------------------ MODULE Verdicts ------------------------------
(***************************************************************************)
(* Rule lists and verdicts, as domain/evaluation.py combines them: the     *)
(* merge of policy layers and the joins of decisions.                      *)
(***************************************************************************)
EXTENDS Naturals, SequencesExt

Lists == {"Deny", "Ask", "Allow"}   \* permissions.Deny, .Ask and .Allow
Decisions == Lists \cup {"NoOpinion"}

NoRules == [Deny |-> <<>>, Ask |-> <<>>, Allow |-> <<>>]
NoPolicy == [Deny |-> <<>>, precedence |-> <<>>]

\* dict.fromkeys: the first of equal elements stays.
Unique(s) ==
    LET kept[i \in 0..Len(s)] ==
            LET before == kept[i - 1]
            IN  IF i = 0 THEN <<>>
                ELSE IF Contains(before, s[i]) THEN before ELSE Append(before, s[i])
    IN  kept[Len(s)]

Tagged(decision, rules) == [i \in DOMAIN rules |-> <<decision, rules[i]>>]

\* _non_deny_rules of a policy that was never merged.
NonDeny(layer) == Tagged("Ask", layer.Ask) \o Tagged("Allow", layer.Allow)

\* Mutant: the outer layer comes first.
MergedOuterFirst(base, layer) ==
    [Deny |-> Unique(base.Deny \o layer.Deny),
     precedence |-> Unique(base.precedence \o NonDeny(layer))]
\* merged_with: the more specific layer's Ask and Allow rules come first.
MergedWith(base, layer) ==
    [Deny |-> Unique(base.Deny \o layer.Deny),
     precedence |-> Unique(NonDeny(layer) \o base.precedence)]

\* Mutant: the Deny rules come last.
DenyLast(policy) == policy.precedence \o Tagged("Deny", policy.Deny)
\* all_rules: the order in which the rules are tried.
AllRules(policy) == Tagged("Deny", policy.Deny) \o policy.precedence

\* The loops over the rules: the first one that applies, or a default.
FirstOf(rules, applying, default) ==
    LET i == SelectInSeq(rules, LAMBDA rule : rule \in applying)
    IN  IF i = 0 THEN default ELSE rules[i]

Strictness == [Deny |-> 3, Ask |-> 2, Allow |-> 1, NoOpinion |-> 0]
\* _stricter, and the maximum of aggregate.
Strictest(decisions) ==
    IF decisions = {} THEN "NoOpinion"
    ELSE CHOOSE d \in decisions : \A e \in decisions : Strictness[e] <= Strictness[d]
\* aggregate: the strictest, but Allow beside NoOpinion is Ask.
Aggregate(decisions) ==
    LET strictest == Strictest(decisions)
    IN  IF strictest = "Allow" /\ "NoOpinion" \in decisions THEN "Ask" ELSE strictest
=============================================================================
