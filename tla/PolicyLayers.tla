---------------------------- MODULE PolicyLayers ----------------------------
(***************************************************************************)
(* How one request is decided from the policy documents on disk:           *)
(* _policy_paths and _load_policy_sources of src/agentperm/policy.py find  *)
(* and load them, merged_with of domain/evaluation.py and _decide_layers   *)
(* of scoped_policy.py are the two ways of combining them, and aggregate   *)
(* combines the verdicts of the paths a request names.                     *)
(*                                                                         *)
(* How a rule matches is not modelled here: Matching holds the rules that  *)
(* do, with the list they stand in, because paths match more widely in     *)
(* Deny and Ask rules than in Allow rules.  The documents do not change    *)
(* while a hook reads them.  What one holds is chosen when it is first     *)
(* read, which is as good as choosing all of them at the start.            *)
(***************************************************************************)
EXTENDS Verdicts, FiniteSets, TLC

CONSTANTS
    Documents,    \* the policy documents
    None,         \* a directory without a policy document
    Rules,        \* permission rules
    Matching,     \* the rules that match the request, by the list they are in
    Contents,     \* what a document may hold
    Directories,  \* how many directories a walk visits, the home one first
    Stacks        \* how many walks: lexical and resolved ancestries of targets

\* A document that cannot be read or parsed, or whose include matches no file.
Broken == [Deny |-> <<>>, Ask |-> <<>>, Allow |-> <<>>, include |-> {}, ok |-> FALSE]

ASSUME NoneAssumption == None \notin Documents
ASSUME MatchingAssumption == Matching \subseteq Lists \X Rules
ASSUME ContentsAssumption ==
    \A c \in Contents :
        /\ DOMAIN c = Lists \cup {"include", "ok"}
        /\ \A list \in Lists : c[list] \in Seq(Rules)
        /\ c.include \subseteq Documents
        /\ c.ok \in BOOLEAN
ASSUME BoundAssumption == Directories \in Nat \ {0} /\ Stacks \in Nat \ {0}

VARIABLES
    disk,      \* the documents read so far and what they hold
    home,      \* the document of the home directory, or None
    at,        \* the walk: the document of each directory visited, outermost first
    stack,     \* the documents being loaded and the includes still to visit
    loaded,    \* the documents this root has loaded
    sources,   \* the same in the order they are applied
    layers,    \* policy_layers: the rules of each root
    policy,    \* merged_policy: the roots merged so far
    verdicts,  \* the verdicts of the walks that ended, by both ways
    outcome    \* "walking", "decided" or "refused" (PolicyError)

walk == <<at, stack, loaded, sources, layers, policy>>
vars == <<disk, home, walk, verdicts, outcome>>

-----------------------------------------------------------------------------
(* Rule lists and verdicts. *)

\* _combine_same_layer: each list is the union of the sources' lists in order.
CombineSameLayer(docs) ==
    LET Union(list) == Unique(FlattenSeq([i \in DOMAIN docs |-> disk[docs[i]][list]]))
    IN  [Deny |-> Union("Deny"), Ask |-> Union("Ask"), Allow |-> Union("Allow")]

\* The verdict of the first matching rule, and the rule it cites.
FirstMatch(rules) == FirstOf(rules, Matching, <<"NoOpinion", None>>)

\* Policy.decide of the merged policy.
DecideMerged == FirstMatch(AllRules(policy))

LayerDenies == [i \in DOMAIN layers |-> Tagged("Deny", layers[i].Deny)]
LayerOthers == [i \in DOMAIN layers |-> NonDeny(layers[i])]
DecideLayersOutward == FirstMatch(FlattenSeq(LayerDenies) \o FlattenSeq(LayerOthers))
\* _decide_layers: any layer's Deny, then the nearest layer with an opinion.
DecideLayers ==
    FirstMatch(FlattenSeq(LayerDenies) \o FlattenSeq(Reverse(LayerOthers)))

Decision == Aggregate({verdicts[i].layered[1] : i \in DOMAIN verdicts})

-----------------------------------------------------------------------------
(* Loading a root and what it includes, depth first. *)

Walking == outcome = "walking"
Top == Last(stack)
Active == {stack[i].doc : i \in DOMAIN stack}
\* Reading a document: the first read finds out what it holds.
Read(d) ==
    IF d \in DOMAIN disk THEN UNCHANGED disk
    ELSE \E c \in Contents :
             disk' = [x \in DOMAIN disk \cup {d} |-> IF x = d THEN c ELSE disk[x]]
Enter(d, below) ==
    /\ Read(d)
    /\ IF disk'[d].ok
       THEN /\ stack' = Append(below, [doc |-> d, todo |-> disk'[d].include])
            /\ UNCHANGED outcome
       ELSE /\ outcome' = "refused"
            /\ stack' = below
\* The top of the stack with one include less to visit.
Advanced(d) == [stack EXCEPT ![Len(stack)].todo = @ \ {d}]

\* Every root is loaded on its own: what another root loaded is loaded again.
NewRoot == sources' = <<>> /\ loaded' = {}

\* The next directory: without a document, with one already seen, or a new root.
VisitDirectory ==
    /\ Walking /\ stack = <<>> /\ Len(at) < Directories
    /\ \E d \in IF at = <<>> THEN {home} ELSE Documents \cup {None} :
           /\ at' = Append(at, d)
           /\ IF d = None \/ d \in Range(at)
              THEN UNCHANGED <<disk, stack, loaded, sources, outcome>>
              ELSE Enter(d, <<>>) /\ NewRoot
    /\ UNCHANGED <<home, layers, policy, verdicts>>

\* An include, in an order the model leaves open.
VisitInclude ==
    /\ Walking /\ stack # <<>>
    /\ \E d \in Top.todo \ (Active \cup loaded) : Enter(d, Advanced(d))
    /\ UNCHANGED <<home, at, loaded, sources, layers, policy, verdicts>>

SkipLoaded ==
    /\ Walking /\ stack # <<>>
    /\ \E d \in (Top.todo \cap loaded) \ Active : stack' = Advanced(d)
    /\ UNCHANGED <<disk, home, at, loaded, sources, layers, policy, verdicts, outcome>>
SkipCycle ==
    /\ Walking /\ stack # <<>>
    /\ \E d \in Top.todo \cap Active : stack' = Advanced(d)
    /\ UNCHANGED <<disk, home, at, loaded, sources, layers, policy, verdicts, outcome>>
RefuseLoaded ==
    /\ Walking /\ stack # <<>>
    /\ Top.todo \cap (Active \cup loaded) # {}
    /\ outcome' = "refused"
    /\ UNCHANGED <<disk, home, walk, verdicts>>
\* An include that is being loaded is a cycle.
RefuseCycle ==
    /\ Walking /\ stack # <<>>
    /\ Top.todo \cap Active # {}
    /\ outcome' = "refused"
    /\ UNCHANGED <<disk, home, walk, verdicts>>

Marked == loaded \cup {Top.doc}
\* Everything the document includes is loaded; with the root a layer is complete.
LeaveDocument ==
    /\ Walking /\ stack # <<>> /\ Top.todo = {}
    /\ stack' = Front(stack)
    /\ loaded' = Marked
    /\ sources' = Append(sources, Top.doc)
    /\ IF Len(stack) = 1
       THEN /\ layers' = Append(layers, CombineSameLayer(sources'))
            /\ policy' = MergedWith(policy, CombineSameLayer(sources'))
       ELSE UNCHANGED <<layers, policy>>
    /\ UNCHANGED <<disk, home, at, verdicts, outcome>>

\* The walk ends in a verdict; the next target or its resolved path is walked anew.
FinishWalk ==
    /\ Walking /\ stack = <<>> /\ Len(at) = Directories
    /\ verdicts' = Append(verdicts, [at |-> at, layered |-> DecideLayers, merged |-> DecideMerged])
    /\ IF Len(verdicts') = Stacks
       THEN outcome' = "decided" /\ UNCHANGED walk
       ELSE /\ at' = <<>> /\ stack' = <<>> /\ loaded' = {} /\ sources' = <<>>
            /\ layers' = <<>> /\ policy' = NoPolicy
            /\ UNCHANGED outcome
    /\ UNCHANGED <<disk, home>>

Init ==
    /\ disk = <<>>
    /\ home \in Documents \cup {None}
    /\ at = <<>> /\ stack = <<>> /\ loaded = {} /\ sources = <<>>
    /\ layers = <<>> /\ policy = NoPolicy
    /\ verdicts = <<>>
    /\ outcome = "walking"

Next == VisitDirectory \/ VisitInclude \/ SkipLoaded \/ RefuseCycle
        \/ LeaveDocument \/ FinishWalk
Spec == Init /\ [][Next]_vars

-----------------------------------------------------------------------------
(* What the documents on disk say, without any walk. *)

\* The least set of documents that holds d and all that its members include.
Closed(docs) == \A d \in docs \cap DOMAIN disk : disk[d].include \subseteq docs
Reached(d) == {e \in Documents : \A docs \in SUBSET Documents :
                   d \in docs /\ Closed(docs) => e \in docs}
OnCycle(d) == \E e \in disk[d].include : d \in Reached(e)
\* The rules of the document in directory k and of all it includes.
Says(dirs, k, list) ==
    \E d \in Reached(dirs[k]) : \E rule \in Range(disk[d][list]) : <<list, rule>> \in Matching
\* The directories that contribute a layer: aliases of an outer document do not.
Roots(dirs) ==
    {k \in DOMAIN dirs : dirs[k] # None /\ \A j \in 1..(k - 1) : dirs[j] # dirs[k]}
\* Deny anywhere is a floor; then the nearest layer with an opinion, Ask first.
Expected(dirs) ==
    LET opinionated == {k \in Roots(dirs) : Says(dirs, k, "Ask") \/ Says(dirs, k, "Allow")}
        nearest == CHOOSE k \in opinionated : \A j \in opinionated : j <= k
    IN  IF \E k \in Roots(dirs) : Says(dirs, k, "Deny") THEN "Deny"
        ELSE IF opinionated = {} THEN "NoOpinion"
        ELSE IF Says(dirs, nearest, "Ask") THEN "Ask" ELSE "Allow"

\* "Deny rules union across every file ...; for Ask and Allow the nearest matching
\* policy wins", however the layer's rules are split over included documents
\* (docs/getting-started.md, the doc of load_policy_layer): the verdict of a walk
\* is the one read off the include graph.
NearestWins ==
    \A i \in DOMAIN verdicts : verdicts[i].layered[1] = Expected(verdicts[i].at)

\* A request decided over the merged policy and one decided layer by layer get the
\* same verdict for the same rule: merged_policy and _decide_layers agree.
MergedAsLayered ==
    \A i \in DOMAIN verdicts : verdicts[i].merged = verdicts[i].layered

\* Within a root each document is applied once and after all it includes, so an
\* including document has the last word, whatever the shape of the include graph.
IncludesFirst ==
    \A i \in DOMAIN sources :
        /\ disk[sources[i]].include \subseteq {sources[j] : j \in 1..(i - 1)}
        /\ \A j \in 1..(i - 1) : sources[j] # sources[i]

\* A walk is refused only for an include cycle or a document that cannot be read,
\* and decides nothing when its roots reach one.
RefusedForCause ==
    LET bad(d) == d \in DOMAIN disk /\ (~disk[d].ok \/ OnCycle(d))
    IN  /\ outcome = "refused" => \E d \in Documents : bad(d)
        /\ \A i \in DOMAIN verdicts : \A k \in Roots(verdicts[i].at) :
               \A d \in Reached(verdicts[i].at[k]) : ~bad(d)

\* A request with several targets is approved only if every walk of every target
\* approves it, and is denied if one denies it.
AllTargetsApproved ==
    outcome = "decided" =>
        LET said == {Expected(verdicts[i].at) : i \in DOMAIN verdicts}
        IN  /\ Decision = "Allow" <=> said = {"Allow"}
            /\ Decision = "Deny" <=> "Deny" \in said
=============================================================================
