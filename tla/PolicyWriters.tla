---------------------------- MODULE PolicyWriters ----------------------------
(***************************************************************************)
(* One policy file and everything that writes it: the plans of the API,    *)
(* agentperm import and init, the default written by edit and import, and  *)
(* people with an editor.  import and init read the file, compute and      *)
(* replace it in two steps with no lock; a plan is compared first.         *)
(***************************************************************************)
EXTENDS PolicyText

CONSTANTS
    Documents,   \* bound: the texts a user may start with
    Chunks,      \* bound: what one hand edit inserts, at any place
    Edits,       \* bound: the edits a client asks for
    Added,       \* bound: what an import or an init brings: lists of rules and a setting
    MaxHand,     \* bound: hand edits
    MaxRuns      \* bound: plans, imports and inits

ASSUME BoundsAssumption == MaxHand \in Nat /\ MaxRuns \in Nat

VARIABLES
    text,     \* the file, Absent when there is none
    plan,     \* the plan under review, None when there is none
    merge,    \* the import or init that has read the file, None when there is none
    last,     \* history: the program that wrote the file as it is, None when it is a user's
    hand, runs

vars == <<text, plan, merge, last, hand, runs>>

Absent == <<>>
None == [name |-> "none"]

Init ==
    /\ text \in Documents \cup {Absent}
    /\ plan = None /\ merge = None /\ last = None
    /\ hand = 0 /\ runs = 0

Count == runs < MaxRuns /\ runs' = runs + 1

-----------------------------------------------------------------------------
(* The API. *)

Edited(source, root, edit) ==
    CASE edit.action = "add" -> AddRule(source, root, edit.decision, edit.rule)
      [] edit.action = "replace" -> ReplaceRule(source, root, edit.decision, edit.old, edit.rule)
      [] edit.action = "remove" -> RemoveRule(source, root, edit.decision, edit.rule)

\* validate_policy_text finds no error.
Valid(root) ==
    LET permissions == Member(root, "permissions")
    IN /\ root.ok
       /\ permissions.kind \in {"none", "{"}
       /\ \A d \in Decisions :
            /\ Member(permissions, d).kind \in {"none", "["}
            /\ ~Contains(RawList(root, d), "typo")
       /\ RawSetting(root) \in Decisions \cup {Unset}

\* policy.plan: refused, or remembered with the text it was made for.
Plan ==
    LET source == IF text = Absent THEN NewPolicyText ELSE text
        root == ParseDocument(source)
    IN /\ plan = None /\ Count
       /\ \E edit \in Edits :
            \E after \in {Edited(source, root, edit)} :
               /\ after # Refused /\ Valid(Decoded(after))
               /\ after = source => text = Absent
               /\ plan' = [name |-> "plan", edit |-> edit, before |-> text, after |-> after]
       /\ UNCHANGED <<text, merge, last, hand>>

\* policy.apply compares and replaces, or finds the plan stale.
Apply ==
    /\ plan # None
    /\ IF text = plan.before THEN text' = plan.after /\ last' = [name |-> "plan"]
       ELSE UNCHANGED <<text, last>>
    /\ plan' = None
    /\ UNCHANGED <<merge, hand, runs>>

-----------------------------------------------------------------------------
(* import and init. *)

News(rules, brought) == SelectSeq(brought, LAMBDA rule : ~Contains(rules, rule))
Merged(read, brought) ==
    [d \in Decisions |-> Rules(read, d) \o Once(News(Rules(read, d), brought.lists[d]))]
\* A setting that the file takes is kept.  Mutant: the brought one wins.
OverriddenSetting(read, brought) ==
    IF brought.setting = Unset THEN Setting(read) ELSE brought.setting
FilledSetting(read, brought) ==
    IF Setting(read) = Unset THEN brought.setting ELSE Setting(read)
Nothing(read, brought) ==
    /\ \A d \in Decisions : News(Rules(read, d), brought.lists[d]) = <<>>
    /\ FilledSetting(read, brought) = Setting(read)

\* A missing file is written first: the default by import, all templates by init.
\* A fresh file has every entry of the templates once, in the first list that has it.
Earlier(lists, d) ==
    UNION {ToSet(lists[DecisionOrder[i]]) :
            i \in {j \in DOMAIN DecisionOrder : \A k \in 1..j : DecisionOrder[k] # d}}
Fresh(brought) ==
    Save(NoNode, [d \in Decisions |-> SelectSeq(brought.lists[d],
                    LAMBDA entry : entry \notin Earlier(brought.lists, d))], brought.setting)
WriteFresh(brought) ==
    /\ text = Absent /\ Count
    /\ \/ brought.name = "import" /\ text' = DefaultText
       \/ brought.name = "init" /\ text' = Fresh(brought)
    /\ last' = [name |-> "fresh"]
    /\ UNCHANGED <<plan, merge, hand>>
\* agentperm edit does the same for the editor.
WriteDefault ==
    /\ text = Absent /\ Count
    /\ text' = DefaultText
    /\ last' = [name |-> "fresh"]
    /\ UNCHANGED <<plan, merge, hand>>

Read(brought) ==
    LET root == Decoded(text)
    IN /\ merge = None /\ Count
       /\ root.ok /\ ~Nothing(root, brought)
       /\ merge' = [name |-> "merge", read |-> root, brought |-> brought]
       /\ UNCHANGED <<text, plan, last, hand>>
SaveMerged ==
    /\ merge # None
    /\ text' = Save(merge.read, Merged(merge.read, merge.brought),
                    FilledSetting(merge.read, merge.brought))
    /\ last' = merge /\ merge' = None
    /\ UNCHANGED <<plan, hand, runs>>

\* Somebody with an editor.
HandEdit(chunk, i) ==
    /\ hand < MaxHand /\ hand' = hand + 1
    /\ i \in 1..(Len(text) + 1)
    /\ text' = Splice(text, i, chunk) /\ last' = None
    /\ UNCHANGED <<plan, merge, runs>>

Next ==
    \/ Plan \/ Apply
    \/ \E brought \in Added : WriteFresh(brought) \/ Read(brought)
    \/ WriteDefault \/ SaveMerged
    \/ \E chunk \in Chunks, i \in 1..(Len(text) + 1) : HandEdit(chunk, i)

Spec == Init /\ [][Next]_vars

-----------------------------------------------------------------------------
(* Properties. *)

\* The edits as a client means them: on one list of values, the others left alone.
Placed(list, value) == {i \in DOMAIN list : list[i] = Decode(value)}
Meant(list, edit) ==
    CASE edit.action = "add" ->
            IF Contains(list, Canonical(Decode(edit.rule))) THEN list
            ELSE Append(list, Canonical(Decode(edit.rule)))
      [] edit.action = "replace" ->
            [i \in DOMAIN list |-> IF i \in Placed(list, edit.old) THEN Canonical(Decode(edit.rule))
                                   ELSE list[i]]
      [] edit.action = "remove" -> SelectSeq(list, LAMBDA value : value # Decode(edit.rule))

\* Is s what is left of t when some of its tokens go?
Embedded(s, t) ==
    FoldLeft(LAMBDA i, token : IF i < Len(s) /\ s[i + 1] = token THEN i + 1 ELSE i, 0, t) = Len(s)

\* An edit that is not refused does to the whole document what the client means by it,
\* before any validation: the list becomes that, every other list and setting stays, the
\* result can be edited again, and of the text before, with its comments, line ends and
\* spellings, nothing but the value edited and one comma is gone (policy_edit.py: "Only
\* the bytes needed for the requested permission edit are changed").
Exact(source, before, edit, edited) ==
    \A after \in {ParseDocument(edited)} :
       /\ after.ok
       /\ \A d \in Decisions :
            RawList(after, d) = IF d = edit.decision THEN Meant(RawList(before, d), edit)
                                ELSE RawList(before, d)
       /\ RawSetting(after) = RawSetting(before)
       /\ IsPrefix(TopKeys(before), TopKeys(after))
       /\ CASE edit.action = "add" -> Embedded(source, edited)
            [] edit.action = "replace" ->
                /\ Len(edited) = Len(source)
                /\ Cardinality({i \in DOMAIN source : source[i] # edited[i]}) <= 1
            [] edit.action = "remove" ->
                Embedded(edited, source) /\ Len(source) - Len(edited) \in {1, 2}
EditsAreExact ==
    (plan = None /\ merge = None /\ runs < MaxRuns) =>
        LET source == IF text = Absent THEN NewPolicyText ELSE text
            before == ParseDocument(source)
        IN \A edit \in Edits :
            \A edited \in {Edited(source, before, edit)} :
               edited # Refused => Exact(source, before, edit, edited)

\* import and init only add: of the file as they read it, every rule is still there, in
\* its list and order and without a double, every rule they brought follows, the file's own
\* setting stands, and no key is lost (docs/cli.md, init and import).
SaveOnlyAdds ==
    last.name = "merge" =>
        \A read \in {last.read}, saved \in {Decoded(text)} :
           /\ \A d \in Decisions :
                /\ IsPrefix(Once(Rules(read, d)), Rules(saved, d))
                /\ ToSet(Rules(saved, d)) = ToSet(Rules(read, d)) \cup ToSet(last.brought.lists[d])
           /\ Setting(read) # Unset => Setting(saved) = Setting(read)
           /\ ToSet(TopKeys(read)) \subseteq ToSet(TopKeys(saved))

\* No program leaves a file behind that another must refuse, whatever the file was like and
\* whoever wrote it meanwhile: it loads, plans can be made for it, and what was merged in
\* brings nothing new a second time.
WrittenInOrder ==
    last # None =>
        LET written == ParseDocument(text)
        IN Valid(written) /\ (last.name = "merge" => Nothing(written, last.brought))
=============================================================================
