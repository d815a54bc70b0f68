------------------------- MODULE HookInstallProofs -------------------------
(* Theorems about HookInstall, for any tools, any hooks found in the files, and *)
(* any number of edits, commands and faults.                                    *)
EXTENDS HookInstall, DataFacts

-----------------------------------------------------------------------------
(* Hooks, and what is left of one. *)

LEMMA HookIs ==
  ASSUME NEW h \in Hooks
  PROVE  /\ \/ h \notin Bridges /\ ~IsBridge(h) /\ h.down = None /\ h.cmd \in Tools
            \/ h \in Bridges /\ IsBridge(h) /\ h.cmd = "agentperm"
                /\ h.down \in Tools \cup {None} /\ h = Bridge(h.down)
<1>1. CASE h \in Bridges
  BY <1>1 DEF Bridges, Bridge, IsBridge
<1>2. CASE h \notin Bridges
  <2>1. PICK c \in Tools : h = Foreign(c)
    BY <1>2 DEF Hooks
  <2> QED BY <1>2, <2>1, ToolsAssumption DEF Foreign, IsBridge
<1> QED BY <1>1, <1>2

LEMMA ForeignIs ==
  ASSUME NEW c \in Tools
  PROVE  /\ Foreign(c) \in Hooks \ Bridges /\ ~IsBridge(Foreign(c))
         /\ Foreign(c).cmd = c /\ Foreign(c).down = None
<1>1. Foreign(c) \in Hooks /\ Foreign(c).cmd = c /\ Foreign(c).down = None
  BY DEF Hooks, Foreign
<1>2. ~IsBridge(Foreign(c))
  BY <1>1, ToolsAssumption DEF IsBridge
<1> QED BY <1>1, <1>2, HookIs

LEMMA BridgeIs ==
  ASSUME NEW c \in Tools \cup {None}
  PROVE  /\ Bridge(c) \in Hooks \cap Bridges /\ IsBridge(Bridge(c))
         /\ Bridge(c).cmd = "agentperm" /\ Bridge(c).down = c
         /\ Group("all", Bridge(c)) \in Groups
         /\ Group("all", Bridge(c)).hooks = <<Bridge(c)>>
         /\ Group("all", Bridge(c)).matcher = "all"
BY DEF Hooks, Bridges, Bridge, IsBridge, Group, Groups

LEMMA RequotedIs ==
  ASSUME NEW c \in Tools \cup {None}
  PROVE  /\ Requoted(c) \in Tools \cup {None}
         /\ c = None => Requoted(c) = None
         /\ c # None => c \in Tools /\ Requoted(c) \in Tools /\ Requoted(c) = Quoted[c]
         /\ Requoted(Requoted(c)) = Requoted(c)
<1>1. CASE c = None
  BY <1>1 DEF Requoted
<1>2. CASE c # None
  <2>1. c \in Tools /\ Requoted(c) = Quoted[c] /\ Quoted[c] \in Tools /\ Quoted[Quoted[c]] = Quoted[c]
    BY <1>2, QuotedAssumption DEF Requoted
  <2>2. Requoted(Quoted[c]) = Quoted[Quoted[c]]
    BY <2>1, ToolsAssumption DEF Requoted
  <2> QED BY <1>2, <2>1, <2>2
<1> QED BY <1>1, <1>2

\* A hook of another tool stays; a bridge goes, or leaves the words of the command it was
\* composed with.
LEMMA LeftIs ==
  ASSUME NEW h \in Hooks, NEW r \in BOOLEAN
  PROVE  /\ h \notin Bridges => Left(h, r) = <<h>>
         /\ h \in Bridges /\ (~r \/ h.down = None) => Left(h, r) = <<>>
         /\ h \in Bridges /\ r /\ h.down # None =>
                Left(h, r) = <<Foreign(Quoted[h.down])>>
                    /\ Foreign(Quoted[h.down]) \in Hooks \ Bridges
         /\ Left(h, r) \in Seq(Hooks)
         /\ Range(Left(h, r)) \cap Bridges = {}
<1>1. CASE h \notin Bridges
  <2>1. Left(h, r) = <<h>>
    BY <1>1, HookIs DEF Left, WithoutBridge, Dropped
  <2> QED BY <1>1, <2>1 DEF Range
<1>2. CASE h \in Bridges /\ (~r \/ h.down = None)
  <2>1. Left(h, r) = <<>>
    BY <1>2, HookIs DEF Left, WithoutBridge, Dropped
  <2> QED BY <1>2, <2>1 DEF Range
<1>3. CASE h \in Bridges /\ r /\ h.down # None
  <2>1. h.down \in Tools /\ Requoted(h.down) = Quoted[h.down] /\ Quoted[h.down] \in Tools
    BY <1>3, HookIs, RequotedIs
  <2>2. Left(h, r) = <<Foreign(Quoted[h.down])>>
    BY <1>3, <2>1, HookIs DEF Left, WithoutBridge, Dropped
  <2>3. Foreign(Quoted[h.down]) \in Hooks \ Bridges
    BY <2>1, ForeignIs
  <2> DEFINE k == Foreign(Quoted[h.down])
  <2> HIDE DEF k
  <2>4. <<k>> \in Seq(Hooks) /\ Range(<<k>>) = {k} /\ k \notin Bridges
    BY <2>3 DEF Range, k
  <2>5. Left(h, r) \in Seq(Hooks) /\ Range(Left(h, r)) \cap Bridges = {}
    BY <2>2, <2>4 DEF k
  <2> QED BY <1>3, <2>2, <2>3, <2>5
<1> QED BY <1>1, <1>2, <1>3

-----------------------------------------------------------------------------
(* The operators on lists, as lists made of what each element becomes. *)

Lefts(r) == [h \in Hooks |-> Left(h, r)]
LeftGroups(r) == [g \in Groups |-> LeftGroup(g, r)]
TheirHooks == [g \in Groups |-> g.hooks]
Chosen(S, C) == [x \in S |-> IF x \in C THEN <<x>> ELSE <<>>]

LEMMA LeftHooksIs ==
  ASSUME NEW g \in Groups, NEW r \in BOOLEAN
  PROVE  /\ g.hooks \in Seq(Hooks) /\ g.hooks # <<>> /\ g.matcher \in {"all", "some"}
         /\ Makes(Lefts(r), Hooks, Hooks)
         /\ LeftHooks(g, r) = Chained(Lefts(r), g.hooks)
         /\ LeftHooks(g, r) \in Seq(Hooks)
<1>1. g.hooks \in Seq(Hooks) /\ g.hooks # <<>> /\ g.matcher \in {"all", "some"}
  BY DEF Groups
<1>2. Makes(Lefts(r), Hooks, Hooks)
  <2>1. \A h \in Hooks : Left(h, r) \in Seq(Hooks)
    BY LeftIs
  <2> QED BY <2>1 DEF Makes, Lefts
<1>3. [i \in DOMAIN g.hooks |-> Left(g.hooks[i], r)] = [i \in DOMAIN g.hooks |-> Lefts(r)[g.hooks[i]]]
  BY <1>1 DEF Lefts
<1>4. LeftHooks(g, r) = Chained(Lefts(r), g.hooks)
  BY <1>3 DEF LeftHooks, Chained
<1> QED BY <1>1, <1>2, <1>4, ChainedIs

LEMMA LeftGroupIs ==
  ASSUME NEW g \in Groups, NEW r \in BOOLEAN
  PROVE  /\ LeftGroup(g, r) \in Seq(Groups)
         /\ LeftHooks(g, r) = <<>> => LeftGroup(g, r) = <<>>
         /\ LeftHooks(g, r) # <<>> =>
                \E h \in Groups : /\ LeftGroup(g, r) = <<h>> /\ h.matcher = g.matcher
                                  /\ h.hooks = LeftHooks(g, r)
<1> DEFINE h == [g EXCEPT !.hooks = LeftHooks(g, r)]
<1>1. CASE LeftHooks(g, r) = <<>>
  BY <1>1 DEF LeftGroup
<1>2. CASE LeftHooks(g, r) # <<>>
  <2>1. LeftGroup(g, r) = <<h>>
    BY <1>2 DEF LeftGroup
  <2>2. h.matcher = g.matcher /\ h.hooks = LeftHooks(g, r) /\ h \in Groups
    BY <1>2, LeftHooksIs DEF Groups
  <2>3. <<h>> \in Seq(Groups)
    BY <2>2
  <2> HIDE DEF h
  <2> QED BY <1>2, <2>1, <2>2, <2>3
<1> QED BY <1>1, <1>2

LEMMA StripIs ==
  ASSUME NEW gs \in Seq(Groups), NEW r \in BOOLEAN
  PROVE  /\ Makes(LeftGroups(r), Groups, Groups)
         /\ Strip(gs, r) = Chained(LeftGroups(r), gs)
         /\ Strip(gs, r) \in Seq(Groups)
<1>1. Makes(LeftGroups(r), Groups, Groups)
  <2>1. \A g \in Groups : LeftGroup(g, r) \in Seq(Groups)
    BY LeftGroupIs
  <2> QED BY <2>1 DEF Makes, LeftGroups
<1>2. [i \in DOMAIN gs |-> LeftGroup(gs[i], r)] = [i \in DOMAIN gs |-> LeftGroups(r)[gs[i]]]
  BY DEF LeftGroups
<1>3. Strip(gs, r) = Chained(LeftGroups(r), gs)
  BY <1>2 DEF Strip, Chained
<1> QED BY <1>1, <1>3, ChainedIs

LEMMA AllHooksIs ==
  ASSUME NEW gs \in Seq(Groups)
  PROVE  /\ Makes(TheirHooks, Groups, Hooks)
         /\ AllHooks(gs) = Chained(TheirHooks, gs)
         /\ AllHooks(gs) \in Seq(Hooks)
<1>1. Makes(TheirHooks, Groups, Hooks)
  BY DEF Makes, TheirHooks, Groups
<1>2. [i \in DOMAIN gs |-> gs[i].hooks] = [i \in DOMAIN gs |-> TheirHooks[gs[i]]]
  BY DEF TheirHooks
<1>3. AllHooks(gs) = Chained(TheirHooks, gs)
  BY <1>2 DEF AllHooks, Chained
<1> QED BY <1>1, <1>3, ChainedIs

LEMMA KeptIs ==
  ASSUME NEW S, NEW s \in Seq(S), NEW C
  PROVE  /\ Makes(Chosen(S, C), S, S)
         /\ Kept(s, C) = Chained(Chosen(S, C), s)
         /\ Kept(s, C) \in Seq(S)
         /\ Range(Kept(s, C)) = Range(s) \cap C
<1>1. Makes(Chosen(S, C), S, S)
  BY DEF Makes, Chosen
<1>2. [i \in DOMAIN s |-> IF s[i] \in C THEN <<s[i]>> ELSE <<>>]
        = [i \in DOMAIN s |-> Chosen(S, C)[s[i]]]
  BY DEF Chosen
<1>3. Kept(s, C) = Chained(Chosen(S, C), s)
  BY <1>2 DEF Kept, Chained
<1>4. Kept(s, C) \in Seq(S)
  BY <1>1, <1>3, ChainedIs
<1>5. Range(Kept(s, C)) = UNION {Range(Chosen(S, C)[x]) : x \in Range(s)}
  BY <1>1, <1>3, ChainedRange
<1>6. \A x \in Range(s) : Range(Chosen(S, C)[x]) = {x} \cap C
  <2> SUFFICES ASSUME NEW x \in Range(s) PROVE Range(Chosen(S, C)[x]) = {x} \cap C
    OBVIOUS
  <2>1. x \in S
    BY RangeIndexed
  <2> QED BY <2>1 DEF Chosen, Range
<1> QED BY <1>1, <1>3, <1>4, <1>5, <1>6

\* The elements kept of two lists, one after the other.
LEMMA KeptConcat ==
  ASSUME NEW S, NEW s \in Seq(S), NEW t \in Seq(S), NEW C
  PROVE  Kept(s \o t, C) = Kept(s, C) \o Kept(t, C)
<1>1. s \o t \in Seq(S)
  OBVIOUS
<1>2. Makes(Chosen(S, C), S, S)
  BY KeptIs
<1>3. Chained(Chosen(S, C), s \o t) = Chained(Chosen(S, C), s) \o Chained(Chosen(S, C), t)
  <2> DEFINE f == Chosen(S, C)
  <2>1. Makes(f, S, S)
    BY <1>2
  <2> HIDE DEF f
  <2>2. Chained(f, s \o t) = Chained(f, s) \o Chained(f, t)
    BY <2>1, ChainedConcat
  <2> QED BY <2>2 DEF f
<1>4. Kept(s, C) = Chained(Chosen(S, C), s) /\ Kept(t, C) = Chained(Chosen(S, C), t)
  BY KeptIs
<1> DEFINE st == s \o t
<1>5. st \in Seq(S)
  BY <1>1
<1> HIDE DEF st
<1>6. Kept(st, C) = Chained(Chosen(S, C), st)
  BY <1>5, KeptIs
<1> QED BY <1>3, <1>4, <1>6 DEF st

LEMMA KeptSingle ==
  ASSUME NEW x, NEW C
  PROVE  Kept(<<x>>, C) = IF x \in C THEN <<x>> ELSE <<>>
<1> DEFINE S == {x}
<1>1. x \in S /\ <<x>> \in Seq(S)
  OBVIOUS
<1>2. Makes(Chosen(S, C), S, S) /\ Kept(<<x>>, C) = Chained(Chosen(S, C), <<x>>)
  BY <1>1, KeptIs
<1>3. Chained(Chosen(S, C), <<x>>) = Chosen(S, C)[x]
  BY <1>1, <1>2, ChainedSingle
<1> QED BY <1>1, <1>2, <1>3 DEF Chosen

\* One element more is kept or not.
LEMMA KeptMore ==
  ASSUME NEW S, NEW s \in Seq(S), NEW x \in S, NEW C
  PROVE  Kept(s \o <<x>>, C) = IF x \in C THEN Kept(s, C) \o <<x>> ELSE Kept(s, C)
<1> DEFINE t == <<x>>
<1>1. t \in Seq(S)
  OBVIOUS
<1>3. Kept(t, C) = IF x \in C THEN t ELSE <<>>
  BY KeptSingle
<1> HIDE DEF t
<1>2. Kept(s \o t, C) = Kept(s, C) \o Kept(t, C)
  BY <1>1, KeptConcat
<1>4. Kept(s, C) \o <<>> = Kept(s, C)
  BY KeptIs, ConcatEmptySeq
<1> QED BY <1>2, <1>3, <1>4 DEF t

-----------------------------------------------------------------------------
(* What stripping and merging do to a list. *)

\* No hook of agentperm's is in the list.
Clean(groups) == Range(AllHooks(groups)) \cap Bridges = {}
Added(groups, c) == Append(groups, Group("all", Bridge(c)))

LEMMA AllRange ==
  ASSUME NEW gs \in Seq(Groups)
  PROVE  /\ Range(AllHooks(gs)) = UNION {Range(g.hooks) : g \in Range(gs)}
         /\ Range(AllHooks(gs)) \subseteq Hooks
         /\ Range(gs) \subseteq Groups
<1>1. Range(AllHooks(gs)) = UNION {Range(TheirHooks[g]) : g \in Range(gs)}
  BY AllHooksIs, ChainedRange
<1>2. Range(gs) \subseteq Groups
  BY RangeIndexed
<1>3. \A g \in Range(gs) : TheirHooks[g] = g.hooks
  BY <1>2 DEF TheirHooks
<1>4. Range(AllHooks(gs)) \subseteq Hooks
  BY AllHooksIs, RangeIndexed
<1> QED BY <1>1, <1>2, <1>3, <1>4

LEMMA LeftRange ==
  ASSUME NEW g \in Groups, NEW r \in BOOLEAN
  PROVE  Range(LeftHooks(g, r)) = UNION {Range(Left(h, r)) : h \in Range(g.hooks)}
<1>1. Range(LeftHooks(g, r)) = UNION {Range(Lefts(r)[h]) : h \in Range(g.hooks)}
  BY LeftHooksIs, ChainedRange
<1>2. Range(g.hooks) \subseteq Hooks
  BY LeftHooksIs, RangeIndexed
<1>3. \A h \in Range(g.hooks) : Lefts(r)[h] = Left(h, r)
  BY <1>2 DEF Lefts
<1> QED BY <1>1, <1>3

\* The hooks that are left are what is left of the hooks.
LEMMA StripRange ==
  ASSUME NEW gs \in Seq(Groups), NEW r \in BOOLEAN
  PROVE  Range(AllHooks(Strip(gs, r))) = UNION {Range(Left(h, r)) : h \in Range(AllHooks(gs))}
<1>1. Strip(gs, r) \in Seq(Groups) /\ Range(gs) \subseteq Groups
  BY StripIs, AllRange
<1>2. Range(Strip(gs, r)) = UNION {Range(LeftGroup(g, r)) : g \in Range(gs)}
  <2>1. Range(Strip(gs, r)) = UNION {Range(LeftGroups(r)[g]) : g \in Range(gs)}
    BY StripIs, ChainedRange
  <2>2. \A g \in Range(gs) : LeftGroups(r)[g] = LeftGroup(g, r)
    BY <1>1 DEF LeftGroups
  <2> QED BY <2>1, <2>2
<1>3. Range(AllHooks(Strip(gs, r))) = UNION {Range(k.hooks) : k \in Range(Strip(gs, r))}
  BY <1>1, AllRange
<1>4. \A g \in Range(gs) :
        UNION {Range(k.hooks) : k \in Range(LeftGroup(g, r))} = Range(LeftHooks(g, r))
  <2> SUFFICES ASSUME NEW g \in Range(gs)
               PROVE  UNION {Range(k.hooks) : k \in Range(LeftGroup(g, r))} = Range(LeftHooks(g, r))
    OBVIOUS
  <2>1. g \in Groups
    BY <1>1
  <2>2. CASE LeftHooks(g, r) = <<>>
    <3>1. LeftGroup(g, r) = <<>>
      BY <2>1, <2>2, LeftGroupIs
    <3> QED BY <2>2, <3>1, FirstsEmpty
  <2>3. CASE LeftHooks(g, r) # <<>>
    <3>1. PICK k \in Groups : LeftGroup(g, r) = <<k>> /\ k.hooks = LeftHooks(g, r)
      BY <2>1, <2>3, LeftGroupIs
    <3>2. Range(<<k>>) = {k}
      BY DEF Range
    <3> QED BY <3>1, <3>2
  <2> QED BY <2>2, <2>3
<1>5. Range(AllHooks(Strip(gs, r))) = UNION {Range(LeftHooks(g, r)) : g \in Range(gs)}
  BY <1>2, <1>3, <1>4
<1>6. \A g \in Range(gs) :
        Range(LeftHooks(g, r)) = UNION {Range(Left(h, r)) : h \in Range(g.hooks)}
  BY <1>1, LeftRange
<1>7. Range(AllHooks(gs)) = UNION {Range(g.hooks) : g \in Range(gs)}
  BY AllRange
<1> QED BY <1>5, <1>6, <1>7

\* What is stripped holds no hook of agentperm's.
LEMMA StripCleans ==
  ASSUME NEW gs \in Seq(Groups), NEW r \in BOOLEAN
  PROVE  Clean(Strip(gs, r))
<1>1. \A h \in Range(AllHooks(gs)) : Range(Left(h, r)) \cap Bridges = {}
  BY AllRange, LeftIs
<1> QED BY <1>1, StripRange DEF Clean

\* Stripping a list without such hooks changes nothing.
LEMMA CleanStripped ==
  ASSUME NEW gs \in Seq(Groups), NEW r \in BOOLEAN, Clean(gs)
  PROVE  Strip(gs, r) = gs
<1>1. \A g \in Range(gs) : LeftGroups(r)[g] = <<g>>
  <2> SUFFICES ASSUME NEW g \in Range(gs) PROVE LeftGroups(r)[g] = <<g>>
    OBVIOUS
  <2>1. g \in Groups
    BY AllRange
  <2>2. Range(g.hooks) \subseteq Hooks \ Bridges
    <3>1. Range(g.hooks) \subseteq Range(AllHooks(gs))
      BY AllRange
    <3> QED BY <3>1, AllRange DEF Clean
  <2>3. \A h \in Range(g.hooks) : Lefts(r)[h] = <<h>>
    BY <2>2, LeftIs DEF Lefts
  <2>4. LeftHooks(g, r) = g.hooks
    BY <2>1, <2>3, LeftHooksIs, ChainedSame
  <2>5. LeftGroup(g, r) = <<[g EXCEPT !.hooks = g.hooks]>>
    BY <2>1, <2>4, LeftHooksIs DEF LeftGroup
  <2>6. [g EXCEPT !.hooks = g.hooks] = g
    BY <2>1 DEF Groups
  <2> QED BY <2>1, <2>5, <2>6 DEF LeftGroups
<1> QED BY <1>1, StripIs, ChainedSame

LEMMA AddedIs ==
  ASSUME NEW gs \in Seq(Groups), NEW c \in Tools \cup {None}
  PROVE  /\ Added(gs, c) \in Seq(Groups)
         /\ AllHooks(Added(gs, c)) = AllHooks(gs) \o <<Bridge(c)>>
         /\ \A r \in BOOLEAN : ~r \/ c = None => Strip(Added(gs, c), r) = Strip(gs, r)
<1> DEFINE g == Group("all", Bridge(c))
<1>1. g \in Groups /\ g.hooks = <<Bridge(c)>> /\ Bridge(c) \in Hooks /\ Bridge(c) \in Bridges
        /\ Bridge(c).down = c
  BY BridgeIs
<1> HIDE DEF g
<1>2. Append(gs, g) \in Seq(Groups)
  BY <1>1, AppendProperties
<1>3. AllHooks(Append(gs, g)) = AllHooks(gs) \o <<Bridge(c)>>
  <2>1. Chained(TheirHooks, Append(gs, g)) = Chained(TheirHooks, gs) \o TheirHooks[g]
    BY <1>1, AllHooksIs, ChainedAppend
  <2>2. TheirHooks[g] = <<Bridge(c)>>
    BY <1>1 DEF TheirHooks
  <2> QED BY <1>2, <2>1, <2>2, AllHooksIs
<1>4. ASSUME NEW r \in BOOLEAN, ~r \/ c = None PROVE Strip(Append(gs, g), r) = Strip(gs, r)
  <2>1. LeftHooks(g, r) = <<>>
    <3>1. LeftHooks(g, r) = Chained(Lefts(r), <<Bridge(c)>>) /\ Makes(Lefts(r), Hooks, Hooks)
      BY <1>1, LeftHooksIs
    <3>2. Chained(Lefts(r), <<Bridge(c)>>) = Lefts(r)[Bridge(c)]
      BY <1>1, <3>1, ChainedSingle
    <3>3. Left(Bridge(c), r) = <<>>
      BY <1>1, <1>4, LeftIs
    <3> QED BY <1>1, <3>1, <3>2, <3>3 DEF Lefts
  <2>2. LeftGroups(r)[g] = <<>>
    BY <1>1, <2>1, LeftGroupIs DEF LeftGroups
  <2>3. Chained(LeftGroups(r), Append(gs, g)) = Chained(LeftGroups(r), gs) \o LeftGroups(r)[g]
    BY <1>1, StripIs, ChainedAppend
  <2>4. Strip(Append(gs, g), r) = Strip(gs, r) \o <<>>
    BY <1>2, <2>2, <2>3, StripIs
  <2> QED BY <2>4, StripIs, ConcatEmptySeq
<1> QED BY <1>2, <1>3, <1>4 DEF Added, g

\* The command that a list passes on to is that of its last bridge, if it had none before.
LEMMA PassthroughIs ==
  ASSUME NEW gs \in Seq(Groups)
  PROVE  /\ Passthrough(gs) \in Tools \cup {None}
         /\ Composed(gs) \in Seq(Hooks)
         /\ Range(Composed(gs)) = Range(AllHooks(gs)) \cap (Bridges \ {Bridge(None)})
         /\ Composed(gs) = <<>> => Passthrough(gs) = None
         /\ Composed(gs) # <<>> => Head(Composed(gs)) \in Range(Composed(gs))
                                     /\ Passthrough(gs) = Head(Composed(gs)).down
<1>1. /\ Composed(gs) \in Seq(Hooks)
      /\ Range(Composed(gs)) = Range(AllHooks(gs)) \cap (Bridges \ {Bridge(None)})
  BY AllHooksIs, KeptIs DEF Composed
<1>2. CASE Composed(gs) = <<>>
  BY <1>1, <1>2 DEF Passthrough
<1>3. CASE Composed(gs) # <<>>
  <2>1. Head(Composed(gs)) = Composed(gs)[1] /\ 1 \in 1..Len(Composed(gs))
    BY <1>1, <1>3, EmptySeq
  <2>2. Head(Composed(gs)) \in Range(Composed(gs))
    BY <1>1, <2>1, RangeIndexed
  <2>3. Head(Composed(gs)) \in Bridges \cap Hooks
    BY <1>1, <2>2, RangeIndexed
  <2>4. Passthrough(gs) = Head(Composed(gs)).down
    BY <1>3 DEF Passthrough
  <2> QED BY <1>1, <1>3, <2>2, <2>3, <2>4, HookIs
<1> QED BY <1>2, <1>3

LEMMA PassthroughAdded ==
  ASSUME NEW gs \in Seq(Groups), Clean(gs), NEW c \in Tools \cup {None}
  PROVE  Passthrough(gs) = None /\ Passthrough(Added(gs, c)) = c
<1> DEFINE C == Bridges \ {Bridge(None)}
<1>1. Kept(AllHooks(gs), C) = <<>>
  <2>1. Kept(AllHooks(gs), C) \in Seq(Hooks) /\ Range(Kept(AllHooks(gs), C)) = {}
    BY AllHooksIs, KeptIs DEF Clean
  <2> QED BY <2>1, EmptyRange
<1>2. Bridge(c) \in Hooks /\ Bridge(c) \in Bridges /\ Bridge(c).down = c
        /\ Bridge(None).down = None
  BY BridgeIs
<1>3. Composed(Added(gs, c)) = Kept(AllHooks(gs) \o <<Bridge(c)>>, C)
  BY AddedIs DEF Composed
<1>4. Bridge(c) \in C <=> c # None
  BY <1>2
<1> HIDE DEF C
<1>5. Composed(Added(gs, c)) = IF c = None THEN <<>> ELSE <<Bridge(c)>>
  <2>1. AllHooks(gs) \in Seq(Hooks)
    BY AllHooksIs
  <2>2. Kept(AllHooks(gs) \o <<Bridge(c)>>, C)
          = IF Bridge(c) \in C THEN Kept(AllHooks(gs), C) \o <<Bridge(c)>> ELSE Kept(AllHooks(gs), C)
    BY <1>2, <2>1, KeptMore
  <2>3. <<>> \o <<Bridge(c)>> = <<Bridge(c)>>
    BY <1>2
  <2> QED BY <1>1, <1>3, <1>4, <2>2, <2>3
<1>6. Passthrough(Added(gs, c)) = c
  BY <1>2, <1>5 DEF Passthrough
<1>7. Composed(gs) = <<>>
  BY <1>1 DEF Composed, C
<1> QED BY <1>6, <1>7 DEF Passthrough

\* A merged list holds one bridge, at its end, and merging it again changes nothing.
LEMMA MergeIs ==
  ASSUME NEW gs \in Seq(Groups)
  PROVE  /\ Merge(gs) = Added(Strip(gs, FALSE), Requoted(Passthrough(gs)))
         /\ Merge(gs) \in Seq(Groups)
         /\ Merge(Merge(gs)) = Merge(gs)
         /\ Strip(Merge(gs), FALSE) = Strip(gs, FALSE)
<1> DEFINE s == Strip(gs, FALSE)
           c == Requoted(Passthrough(gs))
<1>1. Merge(gs) = Added(s, c)
  BY DEF Merge, Added
<1>2. s \in Seq(Groups) /\ Clean(s) /\ c \in Tools \cup {None}
  BY StripIs, StripCleans, PassthroughIs, RequotedIs
<1>3. Strip(s, FALSE) = s
  BY <1>2, CleanStripped
<1>7. Requoted(c) = c
  BY PassthroughIs, RequotedIs
<1> HIDE DEF s, c
<1>4. Added(s, c) \in Seq(Groups) /\ Strip(Added(s, c), FALSE) = s
  BY <1>2, <1>3, AddedIs
<1>5. Passthrough(Added(s, c)) = c
  BY <1>2, PassthroughAdded
<1>6. Merge(Added(s, c)) = Added(s, c)
  BY <1>4, <1>5, <1>7 DEF Merge, Added
<1> QED BY <1>1, <1>4, <1>6 DEF s, c

LEMMA AskedIs ==
  ASSUME NEW gs \in Seq(Groups)
  PROVE  /\ Clean(gs) => Len(Asked(gs)) = 0
         /\ Len(Asked(Merge(gs))) = 1
<1>1. ASSUME NEW s \in Seq(Groups), Clean(s) PROVE Asked(s) = <<>>
  <2>1. Kept(AllHooks(s), Bridges) \in Seq(Hooks) /\ Range(Kept(AllHooks(s), Bridges)) = {}
    BY <1>1, AllHooksIs, KeptIs DEF Clean
  <2> QED BY <2>1, EmptyRange DEF Asked
<1> DEFINE s == Strip(gs, FALSE)
           c == Requoted(Passthrough(gs))
<1>2. s \in Seq(Groups) /\ Clean(s) /\ c \in Tools \cup {None} /\ Merge(gs) = Added(s, c)
  BY StripIs, StripCleans, PassthroughIs, RequotedIs, MergeIs
<1> HIDE DEF s, c
<1>3. Bridge(c) \in Hooks /\ Bridge(c) \in Bridges
  BY <1>2, BridgeIs
<1>4. Asked(Added(s, c)) = Kept(AllHooks(s) \o <<Bridge(c)>>, Bridges)
  BY <1>2, AddedIs DEF Asked
<1>5. Asked(Added(s, c)) = <<Bridge(c)>>
  <2>1. AllHooks(s) \in Seq(Hooks)
    BY <1>2, AllHooksIs
  <2>2. Kept(AllHooks(s) \o <<Bridge(c)>>, Bridges) = Kept(AllHooks(s), Bridges) \o <<Bridge(c)>>
    <3>1. \A b \in Hooks : Kept(AllHooks(s) \o <<b>>, Bridges) =
            IF b \in Bridges THEN Kept(AllHooks(s), Bridges) \o <<b>> ELSE Kept(AllHooks(s), Bridges)
      BY <2>1, KeptMore
    <3> QED BY <1>3, <3>1
  <2>3. Kept(AllHooks(s), Bridges) = <<>>
    BY <1>1, <1>2 DEF Asked
  <2>4. <<>> \o <<Bridge(c)>> = <<Bridge(c)>>
    BY <1>3
  <2> QED BY <1>4, <2>2, <2>3, <2>4
<1>6. Len(<<Bridge(c)>>) = 1
  OBVIOUS
<1> QED BY <1>1, <1>2, <1>5, <1>6, EmptySeq
-----------------------------------------------------------------------------
(* What an adapter makes of the lists of a file. *)

EventLists == [Events -> Seq(Groups)]
FileLists == [ListFiles -> EventLists]
Owner(f) == IF f \in AgentFiles \cup {Standalone} THEN "kiro" ELSE f[2]
Handled(f) == Adds(Owner(f)) \cup Strips(Owner(f))

\* Installed and Uninstalled, one event at a time.
InstalledList(f, e, gs) ==
    IF e \in Strips(Owner(f)) THEN Strip(gs, TRUE)
    ELSE IF e \notin Adds(Owner(f)) THEN gs
    ELSE IF f = Standalone THEN Added(<<>>, None)
    ELSE IF f \in AgentFiles THEN Added(Strip(gs, FALSE), None)
    ELSE Merge(gs)
UninstalledList(f, e, gs) ==
    IF e \notin Handled(f) THEN gs
    ELSE IF f \in AgentFiles \cup {Standalone} THEN Strip(gs, FALSE)
    ELSE Strip(gs, TRUE)

LEMMA AdaptersAre == Adapters = {"claude", "codex", "opencode", "gemini", "kiro"}
<1>1. DOMAIN Order = {1, 2, 3, 4, 5}
  <2>1. Len(Order) = 5 /\ DOMAIN Order = 1..Len(Order)
    BY DEF Order
  <2>2. 1..5 = {1, 2, 3, 4, 5}
    OBVIOUS
  <2> QED BY <2>1, <2>2
<1>2. /\ Order[1] = "claude" /\ Order[2] = "codex" /\ Order[3] = "opencode"
      /\ Order[4] = "gemini" /\ Order[5] = "kiro"
  BY DEF Order
<1> QED BY <1>1, <1>2 DEF Adapters, ToSet

LEMMA FileIs ==
  ASSUME NEW f \in ListFiles
  PROVE  \/ /\ f \in {"direct", "rulesync"} \X Configured /\ f[1] \in {"direct", "rulesync"}
            /\ f[2] \in Configured /\ Owner(f) = f[2] /\ f \notin AgentFiles /\ f # Standalone
         \/ f \in AgentFiles /\ f[1] = "agent" /\ Owner(f) = "kiro" /\ f # Standalone
         \/ f = Standalone /\ f[1] = "standalone" /\ Owner(f) = "kiro" /\ f \notin AgentFiles
<1>1. CASE f \in {"direct", "rulesync"} \X Configured
  <2>1. f[1] \in {"direct", "rulesync"} /\ f[2] \in Configured
    BY <1>1
  <2>2. f \notin AgentFiles /\ f # Standalone
    BY <2>1 DEF AgentFiles, Standalone
  <2> QED BY <1>1, <2>1, <2>2 DEF Owner
<1>2. CASE f \in AgentFiles
  BY <1>2 DEF AgentFiles, Standalone, Owner
<1>3. CASE f = Standalone
  BY <1>3 DEF Standalone, Owner, AgentFiles
<1> QED BY <1>1, <1>2, <1>3 DEF ListFiles

LEMMA HandledIs ==
  ASSUME NEW f \in ListFiles
  PROVE  /\ Adds(Owner(f)) \subseteq Events /\ Strips(Owner(f)) \subseteq Events
         /\ f \in AgentFiles \cup {Standalone} => Adds(Owner(f)) = {"pre"} /\ Strips(Owner(f)) = {}
         /\ Adds(Owner(f)) \cap Strips(Owner(f)) = {}
BY FileIs DEF Adds, Strips, Events

LEMMA ListIs ==
  ASSUME NEW f, NEW e, NEW gs \in Seq(Groups)
  PROVE  /\ InstalledList(f, e, gs) \in Seq(Groups)
         /\ UninstalledList(f, e, gs) \in Seq(Groups)
<1>1. <<>> \in Seq(Groups) /\ Added(<<>>, None) \in Seq(Groups)
  BY AddedIs, EmptySeq
<1>2. \A r \in BOOLEAN : Strip(gs, r) \in Seq(Groups)
  BY StripIs
<1>3. Added(Strip(gs, FALSE), None) \in Seq(Groups) /\ Merge(gs) \in Seq(Groups)
  BY <1>2, AddedIs, MergeIs
<1> QED BY <1>1, <1>2, <1>3 DEF InstalledList, UninstalledList

\* The lists of a file after install, event by event.
LEMMA InstalledIs ==
  ASSUME NEW f \in ListFiles, NEW lists \in EventLists
  PROVE  /\ Installed(f, lists) = [e \in Events |-> InstalledList(f, e, lists[e])]
         /\ Installed(f, lists) \in EventLists
<1>0. \A e \in Events : lists[e] \in Seq(Groups)
  BY DEF EventLists
<1>1. Installed(f, lists) = [e \in Events |-> InstalledList(f, e, lists[e])]
  <2>1. CASE f \notin AgentFiles \cup {Standalone}
    <3>1. f[1] \in {"direct", "rulesync"} /\ f[1] # "agent" /\ f # Standalone /\ Owner(f) = f[2]
      BY <2>1, FileIs
    <3>2. Installed(f, lists) = [e \in Events |-> IF e \in Adds(f[2]) THEN Merge(lists[e])
                                    ELSE IF e \in Strips(f[2]) THEN Strip(lists[e], TRUE)
                                    ELSE lists[e]]
      <4> DEFINE new == [e \in Events |-> IF e \in Adds(f[2]) THEN Merge(lists[e])
                                    ELSE IF e \in Strips(f[2]) THEN Strip(lists[e], TRUE)
                                    ELSE lists[e]]
                 agent == [lists EXCEPT !["pre"] = Append(Strip(@, FALSE), Group("all", Bridge(None)))]
                 alone == [lists EXCEPT !["pre"] = <<Group("all", Bridge(None))>>]
      <4>1. Installed(f, lists) = CASE f[1] \in {"direct", "rulesync"} -> new
                                    [] f[1] = "agent" -> agent [] f = Standalone -> alone
        BY DEF Installed
      <4> HIDE DEF new, agent, alone
      <4>2. Installed(f, lists) = new
        BY <3>1, <4>1
      <4> QED BY <4>2 DEF new
    <3>3. Adds(f[2]) \cap Strips(f[2]) = {}
      BY <3>1, HandledIs
    <3>4. ASSUME NEW e \in Events
          PROVE  InstalledList(f, e, lists[e]) = IF e \in Adds(f[2]) THEN Merge(lists[e])
                                    ELSE IF e \in Strips(f[2]) THEN Strip(lists[e], TRUE)
                                    ELSE lists[e]
      BY <2>1, <3>1, <3>3 DEF InstalledList
    <3> QED BY <3>2, <3>4
  <2>2. CASE f \in AgentFiles
    <3>1. /\ f[1] = "agent" /\ f # Standalone
          /\ Adds(Owner(f)) = {"pre"} /\ Strips(Owner(f)) = {}
      BY <2>2, FileIs, HandledIs
    <3>2. Installed(f, lists) = [lists EXCEPT !["pre"] = Added(Strip(lists["pre"], FALSE), None)]
      BY <3>1 DEF Installed, Added
    <3>3. lists = [e \in Events |-> lists[e]]
      BY DEF EventLists
    <3>4. ASSUME NEW e \in Events
          PROVE  InstalledList(f, e, lists[e])
                   = IF e = "pre" THEN Added(Strip(lists["pre"], FALSE), None) ELSE lists[e]
      BY <2>2, <3>1 DEF InstalledList
    <3> QED BY <3>2, <3>3, <3>4
  <2>3. CASE f = Standalone
    <3>1. /\ f[1] \notin {"direct", "rulesync", "agent"} /\ f \notin AgentFiles
          /\ Adds(Owner(f)) = {"pre"} /\ Strips(Owner(f)) = {}
      BY <2>3, FileIs, HandledIs
    <3>2. Added(<<>>, None) = <<Group("all", Bridge(None))>>
      BY DEF Added
    <3>3. Installed(f, lists) = [lists EXCEPT !["pre"] = Added(<<>>, None)]
      <4>1. Installed(f, lists) = [lists EXCEPT !["pre"] = <<Group("all", Bridge(None))>>]
        BY <2>3, <3>1 DEF Installed
      <4> QED BY <3>2, <4>1
    <3>4. lists = [e \in Events |-> lists[e]]
      BY DEF EventLists
    <3>5. ASSUME NEW e \in Events
          PROVE  InstalledList(f, e, lists[e]) = IF e = "pre" THEN Added(<<>>, None) ELSE lists[e]
      BY <2>3, <3>1 DEF InstalledList
    <3> QED BY <3>3, <3>4, <3>5
  <2> QED BY <2>1, <2>2, <2>3
<1>2. \A e \in Events : InstalledList(f, e, lists[e]) \in Seq(Groups)
  BY <1>0, ListIs
<1> QED BY <1>1, <1>2 DEF EventLists

\* The lists of a file after uninstall, event by event.
LEMMA UninstalledIs ==
  ASSUME NEW f \in ListFiles, NEW lists \in EventLists
  PROVE  /\ Uninstalled(f, lists) = [e \in Events |-> UninstalledList(f, e, lists[e])]
         /\ Uninstalled(f, lists) \in EventLists
<1>0. \A e \in Events : lists[e] \in Seq(Groups)
  BY DEF EventLists
<1>1. Uninstalled(f, lists) = [e \in Events |-> UninstalledList(f, e, lists[e])]
  <2>1. CASE f \notin AgentFiles \cup {Standalone}
    <3>1. f[1] \in {"direct", "rulesync"} /\ Owner(f) = f[2]
      BY <2>1, FileIs
    <3>2. Uninstalled(f, lists) = [e \in Events |-> IF e \in Adds(f[2]) \cup Strips(f[2])
                                                  THEN Strip(lists[e], TRUE) ELSE lists[e]]
      BY <3>1 DEF Uninstalled
    <3>3. ASSUME NEW e \in Events
          PROVE  UninstalledList(f, e, lists[e])
                   = IF e \in Adds(f[2]) \cup Strips(f[2]) THEN Strip(lists[e], TRUE) ELSE lists[e]
      BY <2>1, <3>1 DEF UninstalledList, Handled
    <3> QED BY <3>2, <3>3
  <2>2. CASE f \in AgentFiles \cup {Standalone}
    <3>1. f[1] \notin {"direct", "rulesync"}
      BY <2>2, FileIs
    <3>2. Handled(f) = {"pre"}
      BY <2>2, HandledIs DEF Handled
    <3>3. Uninstalled(f, lists) = [lists EXCEPT !["pre"] = Strip(lists["pre"], FALSE)]
      BY <3>1 DEF Uninstalled
    <3>4. lists = [e \in Events |-> lists[e]]
      BY DEF EventLists
    <3>5. ASSUME NEW e \in Events
          PROVE  UninstalledList(f, e, lists[e])
                   = IF e = "pre" THEN Strip(lists["pre"], FALSE) ELSE lists[e]
      BY <2>2, <3>2 DEF UninstalledList
    <3> QED BY <3>3, <3>4, <3>5
  <2> QED BY <2>1, <2>2
<1>2. \A e \in Events : UninstalledList(f, e, lists[e]) \in Seq(Groups)
  BY <1>0, ListIs
<1> QED BY <1>1, <1>2 DEF EventLists

\* A list with one bridge, and one without.
LEMMA OneAsked ==
  ASSUME NEW gs \in Seq(Groups), Clean(gs)
  PROVE  Merge(gs) = Added(gs, None) /\ Len(Asked(Added(gs, None))) = 1
<1>1. Strip(gs, FALSE) = gs /\ Passthrough(gs) = None
  BY CleanStripped, PassthroughAdded
<1>2. Merge(gs) = Added(gs, None)
  BY <1>1, MergeIs, RequotedIs
<1> QED BY <1>2, AskedIs

LEMMA EmptyIsClean == <<>> \in Seq(Groups) /\ Clean(<<>>)
<1>1. AllHooks(<<>>) = <<>>
  <2>1. Chained(TheirHooks, <<>>) = <<>> /\ <<>> \in Seq(Groups)
    BY ChainedEmpty, EmptySeq
  <2> QED BY <2>1, AllHooksIs
<1> QED BY <1>1, FirstsEmpty, EmptySeq DEF Clean

\* A list that install has handled stays as it is when install handles it again, and has
\* one bridge if its agent fires the event, and none if install strips it.
LEMMA InstalledTwice ==
  ASSUME NEW f \in ListFiles, NEW e \in Events, NEW gs \in Seq(Groups)
  PROVE  /\ InstalledList(f, e, InstalledList(f, e, gs)) = InstalledList(f, e, gs)
         /\ e \in Handled(f) =>
                Len(Asked(InstalledList(f, e, gs))) = IF e \in Adds(Owner(f)) THEN 1 ELSE 0
<1> DEFINE new == InstalledList(f, e, gs)
           s == Strip(gs, FALSE)
<1>0. /\ new \in Seq(Groups) /\ s \in Seq(Groups) /\ Clean(s)
      /\ Adds(Owner(f)) \cap Strips(Owner(f)) = {}
  BY ListIs, StripIs, StripCleans, HandledIs
<1> SUFFICES /\ InstalledList(f, e, new) = new
             /\ e \in Handled(f) => Len(Asked(new)) = IF e \in Adds(Owner(f)) THEN 1 ELSE 0
  OBVIOUS
<1>1. CASE e \in Strips(Owner(f))
  <2>1. new = Strip(gs, TRUE) /\ InstalledList(f, e, new) = Strip(new, TRUE)
    BY <1>1 DEF InstalledList
  <2>2. Clean(new)
    BY <2>1, StripCleans
  <2> HIDE DEF new, s
  <2>3. Strip(new, TRUE) = new /\ Len(Asked(new)) = 0
    BY <1>0, <2>2, CleanStripped, AskedIs
  <2> QED BY <1>0, <1>1, <2>1, <2>3
<1>2. CASE e \notin Handled(f)
  BY <1>2 DEF InstalledList, Handled
<1>3. CASE e \in Adds(Owner(f)) /\ e \notin Strips(Owner(f)) /\ f = Standalone
  <2>1. new = Added(<<>>, None) /\ InstalledList(f, e, new) = Added(<<>>, None)
    BY <1>3 DEF InstalledList
  <2> QED BY <1>3, <2>1, OneAsked, EmptyIsClean
<1>4. CASE e \in Adds(Owner(f)) /\ e \notin Strips(Owner(f)) /\ f # Standalone /\ f \in AgentFiles
  <2>1. new = Added(s, None) /\ InstalledList(f, e, new) = Added(Strip(new, FALSE), None)
    BY <1>4 DEF InstalledList
  <2> HIDE DEF new, s
  <2>2. Strip(Added(s, None), FALSE) = Strip(s, FALSE) /\ Strip(s, FALSE) = s
    BY <1>0, AddedIs, CleanStripped
  <2>3. Len(Asked(Added(s, None))) = 1
    BY <1>0, OneAsked
  <2> QED BY <1>4, <2>1, <2>2, <2>3
<1>5. CASE e \in Adds(Owner(f)) /\ e \notin Strips(Owner(f)) /\ f # Standalone /\ f \notin AgentFiles
  <2>1. new = Merge(gs) /\ InstalledList(f, e, new) = Merge(new)
    BY <1>5 DEF InstalledList
  <2>2. Merge(Merge(gs)) = Merge(gs) /\ Len(Asked(Merge(gs))) = 1
    BY MergeIs, AskedIs
  <2> QED BY <1>5, <2>1, <2>2
<1> QED BY <1>1, <1>2, <1>3, <1>4, <1>5 DEF Handled

\* A list of before agentperm came, or the one with its hook that install makes of it.
Round(f, e, b, gs) == gs = b \/ (e \in Adds(Owner(f)) /\ gs = Added(b, None))

LEMMA RoundKept ==
  ASSUME NEW f \in ListFiles \ {Standalone}, NEW e \in Events, NEW b \in Seq(Groups), Clean(b),
         NEW gs, Round(f, e, b, gs)
  PROVE  /\ Round(f, e, b, InstalledList(f, e, gs))
         /\ UninstalledList(f, e, gs) = b
<1>0. Adds(Owner(f)) \cap Strips(Owner(f)) = {}
  BY HandledIs
<1>1. \A r \in BOOLEAN : Strip(b, r) = b
  BY CleanStripped
<1>2. \A r \in BOOLEAN : Strip(Added(b, None), r) = b
  BY <1>1, AddedIs
<1>3. Merge(b) = Added(b, None)
  BY OneAsked
<1>4. Merge(Added(b, None)) = Added(b, None)
  BY <1>3, MergeIs
<1>5. UninstalledList(f, e, gs) = b
  <2>1. CASE gs = b
    BY <1>1, <2>1 DEF UninstalledList
  <2>2. CASE e \in Adds(Owner(f)) /\ gs = Added(b, None)
    BY <1>2, <2>2 DEF UninstalledList, Handled
  <2> QED BY <2>1, <2>2 DEF Round
<1>6. Round(f, e, b, InstalledList(f, e, gs))
  <2>1. CASE e \in Adds(Owner(f))
    <3>1. gs \in {b, Added(b, None)}
      BY DEF Round
    <3>2. InstalledList(f, e, gs) = Added(b, None)
      BY <1>0, <1>1, <1>2, <1>3, <1>4, <2>1, <3>1 DEF InstalledList
    <3> QED BY <2>1, <3>2 DEF Round
  <2>2. CASE e \notin Adds(Owner(f))
    <3>1. gs = b
      BY <2>2 DEF Round
    <3> QED BY <1>1, <2>2, <3>1 DEF Round, InstalledList
  <2> QED BY <2>1, <2>2
<1> QED BY <1>5, <1>6

-----------------------------------------------------------------------------
(* The steps of a command, and the inductive invariant. *)

AllFiles == ListFiles \cup {Features, Plugin}
Step == [adapter : Adapters, file : AllFiles]
StepOf(a, file) == [adapter |-> a, file |-> file]
\* What an adapter has to have handled for its agent to be guarded.
Needs(a, mode) ==
    CASE a = "opencode" -> {Plugin}
      [] a = "kiro" -> {<<"agent", "global">>, Standalone}
      [] a = "codex" /\ mode = "direct" -> {<<mode, a>>, Features}
      [] OTHER -> {<<mode, a>>}

LEMMA JoinedTwo ==
  ASSUME NEW S, NEW x \in S, NEW y \in S
  PROVE  <<x>> \o <<y>> = <<x, y>>
<1> DEFINE a == <<x>>
           c == <<x, y>>
<1>1. /\ a \in Seq(S) /\ Len(a) = 1 /\ a[1] = x /\ c[1] = x
      /\ c \in Seq(S) /\ Len(c) = 2 /\ c[2] = y
  OBVIOUS
<1> HIDE DEF a, c
<1>2. /\ Append(a, y) \in Seq(S) /\ Len(Append(a, y)) = 2
      /\ \A i \in 1..1 : Append(a, y)[i] = a[i]
      /\ Append(a, y)[2] = y
  <2>1. /\ Append(a, y) \in Seq(S) /\ Len(Append(a, y)) = Len(a) + 1
        /\ \A i \in 1..Len(a) : Append(a, y)[i] = a[i]
        /\ Append(a, y)[Len(a) + 1] = y
    <3>1. \A s \in Seq(S), v \in S :
            /\ Append(s, v) \in Seq(S) /\ Len(Append(s, v)) = Len(s) + 1
            /\ \A i \in 1..Len(s) : Append(s, v)[i] = s[i]
            /\ Append(s, v)[Len(s) + 1] = v
      BY AppendProperties
    <3> QED BY <1>1, <3>1
  <2>2. Len(a) + 1 = 2
    BY <1>1
  <2> QED BY <1>1, <2>1, <2>2
<1>3. \A i \in 1..2 : i \in 1..1 \/ i = 2
  OBVIOUS
<1>4. \A i \in 1..1 : a[i] = c[i]
  BY <1>1
<1>5. Append(a, y) = c
  BY <1>1, <1>2, <1>3, <1>4, SeqEqual
<1>6. Append(a, y) = a \o <<y>>
  BY <1>1, AppendIsConcat
<1> QED BY <1>5, <1>6 DEF a, c

LEMMA JoinedThree ==
  ASSUME NEW S, NEW x \in S, NEW y \in S, NEW z \in S
  PROVE  <<x, y>> \o <<z>> = <<x, y, z>>
<1> DEFINE a == <<x, y>>
           c == <<x, y, z>>
<1>1. /\ a \in Seq(S) /\ Len(a) = 2 /\ a[1] = x /\ c[1] = x /\ a[2] = y /\ c[2] = y
      /\ c \in Seq(S) /\ Len(c) = 3 /\ c[3] = z
  OBVIOUS
<1> HIDE DEF a, c
<1>2. /\ Append(a, z) \in Seq(S) /\ Len(Append(a, z)) = 3
      /\ \A i \in 1..2 : Append(a, z)[i] = a[i]
      /\ Append(a, z)[3] = z
  <2>1. /\ Append(a, z) \in Seq(S) /\ Len(Append(a, z)) = Len(a) + 1
        /\ \A i \in 1..Len(a) : Append(a, z)[i] = a[i]
        /\ Append(a, z)[Len(a) + 1] = z
    <3>1. \A s \in Seq(S), v \in S :
            /\ Append(s, v) \in Seq(S) /\ Len(Append(s, v)) = Len(s) + 1
            /\ \A i \in 1..Len(s) : Append(s, v)[i] = s[i]
            /\ Append(s, v)[Len(s) + 1] = v
      BY AppendProperties
    <3> QED BY <1>1, <3>1
  <2>2. Len(a) + 1 = 3
    BY <1>1
  <2> QED BY <1>1, <2>1, <2>2
<1>3. \A i \in 1..3 : i \in 1..2 \/ i = 3
  OBVIOUS
<1>4. \A i \in 1..2 : a[i] = c[i]
  BY <1>1
<1>5. Append(a, z) = c
  BY <1>1, <1>2, <1>3, <1>4, SeqEqual
<1>6. Append(a, z) = a \o <<z>>
  BY <1>1, AppendIsConcat
<1> QED BY <1>5, <1>6 DEF a, c

LEMMA FilesAre ==
  ASSUME NEW a \in Adapters, NEW mode \in {"direct", "rulesync"}, NEW workspace \in BOOLEAN
  PROVE  /\ Files(a, mode, workspace) \in Seq(AllFiles)
         /\ InstallFiles(a, mode, workspace) \in Seq(AllFiles)
         /\ Needs(a, mode) \subseteq Range(InstallFiles(a, mode, workspace))
<1> DEFINE global == <<"agent", "global">>
           local == <<"agent", "workspace">>
           own == <<mode, a>>
<1>1. /\ global \in AllFiles /\ local \in AllFiles /\ Standalone \in AllFiles
      /\ Plugin \in AllFiles /\ Features \in AllFiles
      /\ a \in Configured => own \in AllFiles
  BY DEF AllFiles, ListFiles, AgentFiles
<1>2. a \in Configured \/ a = "opencode" \/ a = "kiro"
  BY AdaptersAre DEF Configured
<1> HIDE DEF global, local, own
<1>3. CASE a \in Configured
  <2>1. Files(a, mode, workspace) = <<own>> /\ a # "opencode" /\ a # "kiro"
    BY <1>3 DEF Files, Configured, own
  <2>2. CASE a = "codex" /\ mode = "direct"
    <3>0. <<own>> \o <<Features>> = <<own, Features>>
      BY <1>1, <1>3, JoinedTwo
    <3>1. InstallFiles(a, mode, workspace) = <<own, Features>>
      BY <2>1, <2>2, <3>0 DEF InstallFiles
    <3>2. Needs(a, mode) = {own, Features}
      BY <2>2 DEF Needs, own
    <3>3. Range(<<own, Features>>) = {own, Features}
      BY DEF Range
    <3> QED BY <1>1, <1>3, <2>1, <3>1, <3>2, <3>3
  <2>3. CASE ~(a = "codex" /\ mode = "direct")
    <3>0. <<own>> \o <<>> = <<own>>
      BY <1>1, <1>3
    <3>1. InstallFiles(a, mode, workspace) = <<own>>
      BY <2>1, <2>3, <3>0 DEF InstallFiles
    <3>2. Needs(a, mode) = {own}
      BY <2>1, <2>3 DEF Needs, own
    <3>3. Range(<<own>>) = {own}
      BY DEF Range
    <3> QED BY <1>1, <1>3, <2>1, <3>1, <3>2, <3>3
  <2> QED BY <2>2, <2>3
<1>4. CASE a = "opencode"
  <2>1. Files(a, mode, workspace) = <<Plugin>>
    BY <1>4 DEF Files, Configured
  <2>2. InstallFiles(a, mode, workspace) = <<Plugin>>
    BY <1>4, <2>1 DEF InstallFiles
  <2>3. Needs(a, mode) = {Plugin}
    BY <1>4 DEF Needs
  <2>4. Range(<<Plugin>>) = {Plugin}
    BY DEF Range
  <2> QED BY <1>1, <2>1, <2>2, <2>3, <2>4
<1>5. CASE a = "kiro"
  <2> DEFINE s == IF workspace THEN <<global, local, Standalone>> ELSE <<global, Standalone>>
  <2>1. KiroFiles(workspace) = s
    <3>1. KiroFiles(workspace) = <<global>> \o (IF workspace THEN <<local>> ELSE <<>>) \o <<Standalone>>
      BY DEF KiroFiles, global, local
    <3>2. (<<global>> \o <<local>>) \o <<Standalone>> = <<global, local, Standalone>>
      <4>1. <<global>> \o <<local>> = <<global, local>>
        BY <1>1, JoinedTwo
      <4>2. <<global, local>> \o <<Standalone>> = <<global, local, Standalone>>
        BY <1>1, JoinedThree
      <4> QED BY <4>1, <4>2
    <3>3. (<<global>> \o <<>>) \o <<Standalone>> = <<global, Standalone>>
      <4>1. <<global>> \o <<>> = <<global>>
        BY <1>1
      <4>2. <<global>> \o <<Standalone>> = <<global, Standalone>>
        BY <1>1, JoinedTwo
      <4> QED BY <4>1, <4>2
    <3> QED BY <3>1, <3>2, <3>3
  <2>2. Files(a, mode, workspace) = s
    BY <1>5, <2>1 DEF Files, Configured
  <2>3. s \in Seq(AllFiles)
    BY <1>1
  <2>4. {global, Standalone} \subseteq Range(s)
    <3>1. CASE workspace
      <4>1. 1 \in DOMAIN s /\ 3 \in DOMAIN s /\ s[1] = global /\ s[3] = Standalone
        BY <3>1
      <4> QED BY <4>1 DEF Range
    <3>2. CASE ~workspace
      <4>1. 1 \in DOMAIN s /\ 2 \in DOMAIN s /\ s[1] = global /\ s[2] = Standalone
        BY <3>2
      <4> QED BY <4>1 DEF Range
    <3> QED BY <3>1, <3>2
  <2> HIDE DEF s
  <2>5. s \o <<>> = s
    BY <2>3, ConcatEmptySeq
  <2>6. InstallFiles(a, mode, workspace) = s
    BY <1>5, <2>2, <2>5 DEF InstallFiles
  <2>7. Needs(a, mode) = {global, Standalone}
    BY <1>5 DEF Needs, global
  <2> QED BY <2>2, <2>3, <2>4, <2>6, <2>7
<1> QED BY <1>2, <1>3, <1>4, <1>5

LEMMA StepsAre ==
  ASSUME NEW a \in Adapters, NEW files \in Seq(AllFiles)
  PROVE  /\ Steps(a, files) \in Seq(Step)
         /\ Range(Steps(a, files)) = {StepOf(a, file) : file \in Range(files)}
<1>1. /\ Steps(a, files) = [i \in 1..Len(files) |-> StepOf(a, files[i])]
      /\ \A i \in 1..Len(files) : files[i] \in AllFiles /\ StepOf(a, files[i]) \in Step
  BY DEF Steps, StepOf, Step
<1> HIDE DEF Step
<1>2. Steps(a, files) \in Seq(Step) /\ DOMAIN Steps(a, files) = 1..Len(files)
  BY <1>1
<1>3. \A i \in 1..Len(files) : Steps(a, files)[i] = StepOf(a, files[i])
  BY <1>1
<1> QED BY <1>2, <1>3 DEF Range

LEMMA OrderIs ==
  /\ Order \in Seq(Adapters) /\ Range(Order) = Adapters
  /\ \A i \in DOMAIN Order : Order[i] \in Adapters
<1>1. Order \in Seq(Adapters)
  BY AdaptersAre DEF Order
<1>2. Range(Order) = Adapters /\ \A i \in DOMAIN Order : Order[i] \in Adapters
  BY DEF Range, Adapters, ToSet
<1> QED BY <1>1, <1>2

\* Install has a step for every file an adapter needs.
LEMMA InstallStepsAre ==
  ASSUME NEW mode \in {"direct", "rulesync"}, NEW workspace \in BOOLEAN
  PROVE  /\ InstallSteps(mode, workspace) \in Seq(Step)
         /\ \A a \in Adapters : \A file \in Needs(a, mode) :
                StepOf(a, file) \in Range(InstallSteps(mode, workspace))
<1> DEFINE P(a) == Steps(a, InstallFiles(a, mode, workspace))
           f == [a \in Adapters |-> P(a)]
<1>1. \A a \in Adapters : P(a) \in Seq(Step)
  BY FilesAre, StepsAre
<1>2. \A a \in Adapters : \A file \in Needs(a, mode) : StepOf(a, file) \in Range(P(a))
  <2> SUFFICES ASSUME NEW a \in Adapters, NEW file \in Needs(a, mode)
               PROVE  StepOf(a, file) \in Range(P(a))
    OBVIOUS
  <2>1. file \in Range(InstallFiles(a, mode, workspace))
    BY FilesAre
  <2> QED BY <2>1, FilesAre, StepsAre
<1>3. InstallSteps(mode, workspace) = FlattenSeq([i \in DOMAIN Order |-> P(Order[i])])
  BY DEF InstallSteps
<1> HIDE DEF P
<1>4. Makes(f, Adapters, Step)
  BY <1>1 DEF Makes
<1>5. [i \in DOMAIN Order |-> P(Order[i])] = [i \in DOMAIN Order |-> f[Order[i]]]
  BY OrderIs
<1>6. \A a \in Adapters : f[a] = P(a)
  OBVIOUS
<1> HIDE DEF f
<1>7. InstallSteps(mode, workspace) = Chained(f, Order)
  BY <1>3, <1>5 DEF Chained
<1>8. InstallSteps(mode, workspace) \in Seq(Step)
  BY <1>4, <1>7, OrderIs, ChainedIs
<1>9. Range(InstallSteps(mode, workspace)) = UNION {Range(f[a]) : a \in Range(Order)}
  BY <1>4, <1>7, OrderIs, ChainedRange
<1> QED BY <1>2, <1>6, <1>8, <1>9, OrderIs

LEMMA UninstallStepsAre ==
  ASSUME NEW modes \in Seq({"direct", "rulesync"}), NEW workspace \in BOOLEAN
  PROVE  UninstallSteps(modes, workspace) \in Seq(Step)
<1> DEFINE Modal == {"direct", "rulesync"}
           P(a) == FlattenSeq([m \in DOMAIN modes |-> Steps(a, Files(a, modes[m], workspace))])
           f == [a \in Adapters |-> P(a)]
<1>1. ASSUME NEW a \in Adapters PROVE P(a) \in Seq(Step)
  <2> DEFINE g == [m \in Modal |-> Steps(a, Files(a, m, workspace))]
  <2>1. Makes(g, Modal, Step)
    <3>1. \A m \in Modal : Steps(a, Files(a, m, workspace)) \in Seq(Step)
      BY FilesAre, StepsAre
    <3> QED BY <3>1 DEF Makes
  <2>2. [m \in DOMAIN modes |-> Steps(a, Files(a, modes[m], workspace))]
          = [m \in DOMAIN modes |-> g[modes[m]]]
    OBVIOUS
  <2>3. P(a) = Chained(g, modes)
    BY <2>2 DEF Chained
  <2> HIDE DEF g, P, Modal
  <2>4. modes \in Seq(Modal)
    BY DEF Modal
  <2> QED BY <2>1, <2>3, <2>4, ChainedIs
<1>2. UninstallSteps(modes, workspace) = FlattenSeq([i \in DOMAIN Order |-> P(Order[i])])
  BY DEF UninstallSteps
<1> HIDE DEF P
<1>3. Makes(f, Adapters, Step)
  BY <1>1 DEF Makes
<1>4. [i \in DOMAIN Order |-> P(Order[i])] = [i \in DOMAIN Order |-> f[Order[i]]]
  BY OrderIs
<1> HIDE DEF f
<1>5. UninstallSteps(modes, workspace) = Chained(f, Order)
  BY <1>2, <1>4 DEF Chained
<1> QED BY <1>3, <1>5, OrderIs, ChainedIs

Jobs == [name : {"idle", "install", "uninstall"}, mode : {"none", "auto", "direct", "rulesync"},
         todo : Seq(Step), done : SUBSET AllFiles, failed : SUBSET Adapters]
Typed ==
    /\ hooks \in FileLists
    /\ job \in Jobs /\ last \in Jobs
    /\ job.name = "idle" => job = Idle
    /\ last.todo = <<>>
    /\ job # Idle => last = Idle

\* What a command has handled stands, and what its adapters need is handled or to come.
InstallHolds(j) ==
    j.name = "install" =>
        /\ j.mode \in {"direct", "rulesync"}
        /\ \A f \in j.done \cap ListFiles : Installed(f, hooks[f]) = hooks[f]
        /\ Features \in j.done => features = "hooks"
        /\ Plugin \in j.done => plugin = "own"
        /\ \A a \in Adapters \ j.failed : \A file \in Needs(a, j.mode) :
                file \in j.done \/ StepOf(a, file) \in Range(j.todo)
UninstallHolds(j) ==
    (j.name = "uninstall" /\ base # None) =>
        \A f \in (j.done \cap ListFiles) \ {Standalone} : hooks[f] = base[f]

\* Since the lists were without agentperm, they are as they were or have its hook added.
BaseHolds ==
    base # None =>
        /\ base \in FileLists
        /\ \A f \in ListFiles, e \in Events : Clean(base[f][e])
        /\ \A f \in ListFiles \ {Standalone}, e \in Events :
                Round(f, e, base[f][e], hooks[f][e])

Inv ==
    /\ Typed /\ BaseHolds
    /\ InstallHolds(job) /\ InstallHolds(last)
    /\ UninstallHolds(job) /\ UninstallHolds(last)

LEMMA IdleIs ==
  /\ Idle \in Jobs /\ Idle.name = "idle" /\ Idle.todo = <<>> /\ Idle.done = {} /\ Idle.failed = {}
  /\ InstallHolds(Idle) /\ UninstallHolds(Idle)
<1>1. <<>> \in Seq(Step)
  BY EmptySeq
<1>2. Idle \in Jobs
  BY <1>1 DEF Idle, Jobs
<1>3. Idle.name = "idle" /\ Idle.todo = <<>> /\ Idle.done = {} /\ Idle.failed = {}
  BY DEF Idle
<1> QED BY <1>2, <1>3 DEF InstallHolds, UninstallHolds

LEMMA OnlyIs ==
  ASSUME NEW f \in ListFiles, NEW e \in Events, NEW groups \in Seq(Groups)
  PROVE  Only(f, e, groups) \in FileLists
<1>1. <<>> \in Seq(Groups)
  BY EmptySeq
<1>2. \A file \in ListFiles : [event \in Events |->
          IF file = f /\ event = e THEN groups ELSE <<>>] \in EventLists
  BY <1>1 DEF EventLists
<1> QED BY <1>2 DEF Only, FileLists

LEMMA InitInv == Init => Inv
<1> SUFFICES ASSUME Init PROVE Inv
  OBVIOUS
<1>1. hooks \in FileLists
  <2>1. CASE hooks = Only(<<"direct", "claude">>, "perm", <<Group("all", Bridge(None))>>)
    <3>1. <<"direct", "claude">> \in ListFiles /\ "perm" \in Events
      BY DEF ListFiles, Configured, Events
    <3> DEFINE g == Group("all", Bridge(None))
               lists == <<g>>
    <3>2. g \in Groups
      BY BridgeIs
    <3>3. lists \in Seq(Groups)
      <4> HIDE DEF g
      <4> QED BY <3>2
    <3> HIDE DEF lists
    <3> QED BY <2>1, <3>1, <3>3, OnlyIs DEF lists
  <2>2. CASE \E found \in Arranged : hooks = Only(found[1], found[2], found[3])
    BY <2>2, OnlyIs, ArrangedAssumption
  <2>3. CASE hooks = Only(Standalone, "pre", <<>>)
    <3>1. Standalone \in ListFiles /\ "pre" \in Events /\ <<>> \in Seq(Groups)
      BY EmptySeq DEF ListFiles, Events
    <3> QED BY <2>3, <3>1, OnlyIs
  <2> QED BY <2>1, <2>2, <2>3 DEF Init
<1>2. job = Idle /\ last = Idle /\ base = None
  BY DEF Init
<1>3. Typed
  BY <1>1, <1>2, IdleIs DEF Typed
<1> QED BY <1>2, <1>3, IdleIs DEF Inv, BaseHolds

\* A step taken is a file handled.
LEMMA Advanced ==
  ASSUME job \in Jobs, job.todo # <<>>, Advance
  PROVE  /\ Current \in Step /\ Current.file \in AllFiles /\ Current.adapter \in Adapters
         /\ job' \in Jobs
         /\ job'.name = job.name /\ job'.mode = job.mode /\ job'.failed = job.failed
         /\ job'.done = job.done \cup {Current.file}
         /\ \A a, file : file \in job.done \/ StepOf(a, file) \in Range(job.todo) =>
                file \in job'.done \/ StepOf(a, file) \in Range(job'.todo)
<1> DEFINE s == job.todo
<1>1. s \in Seq(Step) /\ s # <<>> /\ Current = Head(s)
  BY DEF Jobs, Current
<1> HIDE DEF s
<1>2. Head(s) \in Step /\ Tail(s) \in Seq(Step)
  BY <1>1, HeadTailProperties
<1>3. ASSUME NEW x \in Range(s) PROVE x = Head(s) \/ x \in Range(Tail(s))
  <2>1. PICK i \in 1..Len(s) : s[i] = x
    BY <1>1, RangeIndexed
  <2>2. CASE i = 1
    BY <1>1, <2>1, <2>2
  <2>3. CASE i # 1
    <3>1. /\ Len(Tail(s)) = Len(s) - 1 /\ Len(s) \in Nat
          /\ \A k \in 1..Len(Tail(s)) : Tail(s)[k] = s[k + 1]
      BY <1>1, HeadTailProperties
    <3>2. PICK k \in 1..Len(Tail(s)) : k + 1 = i
      <4>1. i - 1 \in 1..Len(Tail(s)) /\ (i - 1) + 1 = i
        BY <2>3, <3>1
      <4> QED BY <4>1
    <3>3. Tail(s)[k] = x
      BY <2>1, <3>1, <3>2
    <3>4. Range(Tail(s)) = {Tail(s)[m] : m \in 1..Len(Tail(s))}
      BY <1>2, RangeIndexed
    <3> QED BY <3>3, <3>4
  <2> QED BY <2>2, <2>3
<1>4. job' = [job EXCEPT !.todo = Tail(s), !.done = job.done \cup {Current.file}]
  BY DEF Advance, s
<1>5. Current.file \in AllFiles /\ Current.adapter \in Adapters
  BY <1>1, <1>2 DEF Step
<1>6. /\ job' \in Jobs /\ job'.todo = Tail(s)
      /\ job'.name = job.name /\ job'.mode = job.mode /\ job'.failed = job.failed
      /\ job'.done = job.done \cup {Current.file}
  BY <1>2, <1>4, <1>5 DEF Jobs
<1>7. ASSUME NEW a, NEW file, file \in job.done \/ StepOf(a, file) \in Range(s)
      PROVE  file \in job'.done \/ StepOf(a, file) \in Range(job'.todo)
  <2>1. CASE StepOf(a, file) = Head(s)
    <3>1. Current.file = file
      BY <1>1, <2>1 DEF StepOf
    <3> QED BY <1>6, <3>1
  <2>2. CASE StepOf(a, file) # Head(s)
    BY <1>3, <1>6, <1>7, <2>2
  <2> QED BY <2>1, <2>2
<1> QED BY <1>1, <1>2, <1>5, <1>6, <1>7 DEF s

\* Rewriting a file keeps what is known of the lists.
LEMMA RewriteInv == Inv /\ RewriteList => Inv'
<1> SUFFICES ASSUME Inv, RewriteList PROVE Inv'
  OBVIOUS
<1> DEFINE f == Current.file
           new == IF job.name = "install" THEN Installed(f, hooks[f]) ELSE Uninstalled(f, hooks[f])
<1>1. /\ hooks \in FileLists /\ job \in Jobs /\ job.todo # <<>> /\ f \in ListFiles
      /\ last \in Jobs /\ Advance
      /\ UNCHANGED <<features, plugin, last, base>>
  BY DEF Inv, Typed, RewriteList
<1>2. hooks' = [hooks EXCEPT ![f] = new]
  BY DEF RewriteList
<1>3. hooks[f] \in EventLists
  BY <1>1 DEF FileLists
<1>4. new \in EventLists
  BY <1>1, <1>3, InstalledIs, UninstalledIs
<1>5. /\ job' \in Jobs
      /\ job'.name = job.name /\ job'.mode = job.mode /\ job'.failed = job.failed
      /\ job'.done = job.done \cup {f}
      /\ \A a, file : file \in job.done \/ StepOf(a, file) \in Range(job.todo) =>
             file \in job'.done \/ StepOf(a, file) \in Range(job'.todo)
  BY <1>1, Advanced
<1>7. job.name # "idle" /\ last = Idle
  BY <1>1, IdleIs DEF Inv, Typed
<1> HIDE DEF new
<1>8. /\ hooks' \in FileLists /\ hooks'[f] = new
      /\ \A g \in ListFiles \ {f} : hooks'[g] = hooks[g]
  BY <1>1, <1>2, <1>4 DEF FileLists
<1> HIDE DEF f
<1>9. Typed'
  BY <1>1, <1>5, <1>7, <1>8 DEF Inv, Typed
<1>10. ASSUME base # None
       PROVE  /\ base \in FileLists
              /\ \A g \in ListFiles, e \in Events : Clean(base[g][e])
              /\ \A g \in ListFiles \ {Standalone}, e \in Events :
                    Round(g, e, base[g][e], hooks[g][e]) /\ base[g][e] \in Seq(Groups)
  BY <1>10 DEF Inv, BaseHolds, FileLists, EventLists
<1>11. ASSUME base # None, f # Standalone, NEW e \in Events
       PROVE  /\ Round(f, e, base[f][e], new[e])
              /\ job.name = "uninstall" => new[e] = base[f][e]
  <2>1. f \in ListFiles \ {Standalone}
    BY <1>1, <1>11
  <2>2. /\ Round(f, e, base[f][e], InstalledList(f, e, hooks[f][e]))
        /\ UninstalledList(f, e, hooks[f][e]) = base[f][e]
    BY <1>10, <1>11, <2>1, RoundKept
  <2>3. CASE job.name = "install"
    <3>1. new[e] = InstalledList(f, e, hooks[f][e])
      BY <1>1, <1>3, <2>3, InstalledIs DEF new, f
    <3> QED BY <2>2, <2>3, <3>1
  <2>4. CASE job.name # "install"
    <3>1. new[e] = UninstalledList(f, e, hooks[f][e])
      BY <1>1, <1>3, <2>4, UninstalledIs DEF new, f
    <3> QED BY <2>2, <3>1 DEF Round
  <2> QED BY <2>3, <2>4
<1>12. BaseHolds'
  <2> SUFFICES ASSUME base # None, NEW g \in ListFiles \ {Standalone}, NEW e \in Events
               PROVE  Round(g, e, base[g][e], hooks'[g][e])
    BY <1>1, <1>10 DEF BaseHolds
  <2>1. CASE g = f
    BY <1>8, <1>11, <2>1
  <2>2. CASE g # f
    BY <1>8, <1>10, <2>2
  <2> QED BY <2>1, <2>2
<1>13. ASSUME job.name = "install" PROVE Installed(f, new) = new
  <2>1. new = [e \in Events |-> InstalledList(f, e, hooks[f][e])]
    BY <1>1, <1>3, <1>13, InstalledIs DEF new, f
  <2>2. Installed(f, new) = [e \in Events |-> InstalledList(f, e, new[e])]
    BY <1>1, <1>4, InstalledIs
  <2>3. \A e \in Events : hooks[f][e] \in Seq(Groups)
    BY <1>3 DEF EventLists, f
  <2>4. \A e \in Events : InstalledList(f, e, new[e]) = new[e]
    BY <1>1, <2>1, <2>3, InstalledTwice
  <2>5. new = [e \in Events |-> new[e]]
    BY <1>4 DEF EventLists
  <2> QED BY <2>2, <2>4, <2>5
<1>14. InstallHolds(job)'
  <2> SUFFICES ASSUME job.name = "install" PROVE InstallHolds(job)'
    BY <1>5 DEF InstallHolds
  <2>1. /\ job.mode \in {"direct", "rulesync"}
        /\ \A g \in job.done \cap ListFiles : Installed(g, hooks[g]) = hooks[g]
        /\ Features \in job.done => features = "hooks"
        /\ Plugin \in job.done => plugin = "own"
        /\ \A a \in Adapters \ job.failed : \A file \in Needs(a, job.mode) :
                file \in job.done \/ StepOf(a, file) \in Range(job.todo)
    BY DEF Inv, InstallHolds
  <2>2. Features \notin ListFiles /\ Plugin \notin ListFiles
    BY DEF Features, Plugin, ListFiles, AgentFiles, Standalone
  <2>3. \A g \in job'.done \cap ListFiles : Installed(g, hooks'[g]) = hooks'[g]
    BY <1>5, <1>8, <1>13, <2>1
  <2>4. Features \in job'.done => features' = "hooks"
    BY <1>1, <1>5, <2>1, <2>2
  <2>5. Plugin \in job'.done => plugin' = "own"
    BY <1>1, <1>5, <2>1, <2>2
  <2>6. \A a \in Adapters \ job'.failed : \A file \in Needs(a, job'.mode) :
                file \in job'.done \/ StepOf(a, file) \in Range(job'.todo)
    BY <1>5, <2>1
  <2> QED BY <1>5, <2>1, <2>3, <2>4, <2>5, <2>6 DEF InstallHolds
<1>15. UninstallHolds(job)'
  <2> SUFFICES ASSUME job.name = "uninstall", base # None,
                      NEW g \in (job.done \cup {f}) \cap ListFiles, g # Standalone
               PROVE  hooks'[g] = base[g]
    BY <1>1, <1>5 DEF UninstallHolds
  <2>1. CASE g = f
    <3>1. base[f] \in EventLists
      BY <1>1, <1>10 DEF FileLists
    <3>2. \A e \in Events : new[e] = base[f][e]
      BY <1>11, <2>1
    <3>3. new = base[f]
      BY <1>4, <3>1, <3>2 DEF EventLists
    <3> QED BY <1>8, <2>1, <3>3
  <2>2. CASE g # f
    BY <1>8, <2>2 DEF Inv, UninstallHolds
  <2> QED BY <2>1, <2>2
<1>16. (InstallHolds(last) /\ UninstallHolds(last))'
  BY <1>1, <1>7, IdleIs DEF InstallHolds, UninstallHolds
<1> QED BY <1>9, <1>12, <1>14, <1>15, <1>16 DEF Inv

\* The commands start with nothing handled.
LEMMA InstallInv ==
  ASSUME Inv, NEW option \in {"auto", "direct", "rulesync"}, NEW workspace \in BOOLEAN,
         Install(option, workspace)
  PROVE  Inv'
<1> DEFINE mode == ResolvedMode(option)
           todo == InstallSteps(mode, workspace)
<1>1. mode \in {"direct", "rulesync"}
  BY DEF ResolvedMode
<1>2. /\ todo \in Seq(Step)
      /\ \A a \in Adapters : \A file \in Needs(a, mode) : StepOf(a, file) \in Range(todo)
  BY <1>1, InstallStepsAre
<1>3. /\ job = Idle /\ last' = Idle
      /\ job' = [Idle EXCEPT !.name = "install", !.mode = mode, !.todo = todo]
      /\ UNCHANGED <<hooks, features, plugin>>
      /\ base' = IF BridgeFree(hooks) THEN hooks ELSE base
  BY DEF Install, Start
<1> HIDE DEF mode, todo
<1>4. /\ job' \in Jobs /\ job'.name = "install" /\ job'.mode = mode /\ job'.todo = todo
      /\ job'.done = {} /\ job'.failed = {}
  BY <1>1, <1>2, <1>3 DEF Idle, Jobs
<1>5. Typed'
  BY <1>3, <1>4, IdleIs DEF Inv, Typed
<1>6. InstallHolds(job)' /\ UninstallHolds(job)'
  BY <1>1, <1>2, <1>4 DEF InstallHolds, UninstallHolds
<1>7. InstallHolds(last)' /\ UninstallHolds(last)'
  BY <1>3, IdleIs DEF InstallHolds, UninstallHolds
<1>8. BaseHolds'
  <2>1. CASE ~BridgeFree(hooks)
    BY <1>3, <2>1 DEF Inv, BaseHolds
  <2>2. CASE BridgeFree(hooks)
    <3>1. base' = hooks /\ hooks' = hooks /\ hooks \in FileLists
      BY <1>3, <2>2 DEF Inv, Typed
    <3>2. ASSUME NEW f \in ListFiles, NEW e \in Events PROVE Clean(hooks[f][e])
      <4> DEFINE s == AllHooks(hooks[f][e])
      <4>1. hooks[f][e] \in Seq(Groups)
        BY <3>1 DEF FileLists, EventLists
      <4>2. s \in Seq(Hooks)
        BY <4>1, AllHooksIs
      <4>3. \A i \in DOMAIN s : ~IsBridge(s[i])
        BY <2>2 DEF BridgeFree
      <4> HIDE DEF s
      <4>4. \A i \in DOMAIN s : s[i] \in Hooks
        BY <4>2
      <4>5. \A i \in DOMAIN s : s[i] \notin Bridges
        BY <4>3, <4>4, HookIs
      <4> QED BY <4>5 DEF Clean, Range, s
    <3> QED BY <3>1, <3>2 DEF BaseHolds, Round
  <2> QED BY <2>1, <2>2
<1> QED BY <1>5, <1>6, <1>7, <1>8 DEF Inv

LEMMA UninstallInv ==
  ASSUME Inv, NEW option \in {"auto", "direct", "rulesync"}, NEW workspace \in BOOLEAN,
         Uninstall(option, workspace)
  PROVE  Inv'
<1> DEFINE modes == Modes(option)
           todo == UninstallSteps(modes, workspace)
<1>1. modes \in Seq({"direct", "rulesync"})
  <2>1. CASE option = "auto"
    BY <2>1 DEF Modes
  <2>2. CASE option # "auto"
    BY <2>2 DEF Modes
  <2> QED BY <2>1, <2>2
<1>2. todo \in Seq(Step)
  <2> HIDE DEF modes
  <2> QED BY <1>1, UninstallStepsAre
<1>3. /\ job = Idle /\ last' = Idle
      /\ job' = [Idle EXCEPT !.name = "uninstall", !.mode = option, !.todo = todo]
      /\ UNCHANGED <<hooks, features, plugin, base>>
  BY DEF Uninstall, Start
<1> HIDE DEF modes, todo
<1>4. /\ job' \in Jobs /\ job'.name = "uninstall" /\ job'.done = {}
  BY <1>2, <1>3 DEF Idle, Jobs
<1>5. Typed'
  BY <1>3, <1>4, IdleIs DEF Inv, Typed
<1>6. InstallHolds(job)' /\ UninstallHolds(job)'
  BY <1>4 DEF InstallHolds, UninstallHolds
<1>7. InstallHolds(last)' /\ UninstallHolds(last)'
  BY <1>3, IdleIs DEF InstallHolds, UninstallHolds
<1>8. BaseHolds'
  BY <1>3 DEF Inv, BaseHolds
<1> QED BY <1>5, <1>6, <1>7, <1>8 DEF Inv

\* The other files a command writes.
LEMMA OtherFileInv == Inv /\ (EnableFeature \/ RewritePlugin) => Inv'
<1> SUFFICES ASSUME Inv, EnableFeature \/ RewritePlugin PROVE Inv'
  OBVIOUS
<1>1. /\ job \in Jobs /\ last \in Jobs /\ job.todo # <<>> /\ Advance
      /\ Current.file \in {Features, Plugin}
      /\ UNCHANGED <<hooks, last, base>>
  BY DEF Inv, Typed, EnableFeature, RewritePlugin
<1>2. /\ job' \in Jobs
      /\ job'.name = job.name /\ job'.mode = job.mode /\ job'.failed = job.failed
      /\ job'.done = job.done \cup {Current.file}
      /\ \A a, file : file \in job.done \/ StepOf(a, file) \in Range(job.todo) =>
             file \in job'.done \/ StepOf(a, file) \in Range(job'.todo)
  BY <1>1, Advanced
<1>3. job.name # "idle" /\ last = Idle
  BY <1>1, IdleIs DEF Inv, Typed
<1>4. Features \notin ListFiles /\ Plugin \notin ListFiles /\ Features # Plugin
  BY DEF Features, Plugin, ListFiles, AgentFiles, Standalone
<1>5. job'.done \cap ListFiles = job.done \cap ListFiles
  BY <1>1, <1>2, <1>4
<1>6. Typed'
  BY <1>1, <1>2, <1>3 DEF Inv, Typed
<1>7. InstallHolds(job)'
  <2> SUFFICES ASSUME job.name = "install" PROVE InstallHolds(job)'
    BY <1>2 DEF InstallHolds
  <2>1. /\ job.mode \in {"direct", "rulesync"}
        /\ \A g \in job.done \cap ListFiles : Installed(g, hooks[g]) = hooks[g]
        /\ Features \in job.done => features = "hooks"
        /\ Plugin \in job.done => plugin = "own"
        /\ \A a \in Adapters \ job.failed : \A file \in Needs(a, job.mode) :
                file \in job.done \/ StepOf(a, file) \in Range(job.todo)
    BY DEF Inv, InstallHolds
  <2>2. \/ Current.file = Features /\ features' = "hooks" /\ plugin' = plugin
        \/ Current.file = Plugin /\ plugin' = "own" /\ features' = features
    BY DEF EnableFeature, RewritePlugin
  <2>3. Features \in job'.done => features' = "hooks"
    BY <1>2, <1>4, <2>1, <2>2
  <2>4. Plugin \in job'.done => plugin' = "own"
    BY <1>2, <1>4, <2>1, <2>2
  <2>5. \A a \in Adapters \ job'.failed : \A file \in Needs(a, job'.mode) :
                file \in job'.done \/ StepOf(a, file) \in Range(job'.todo)
    BY <1>2, <2>1
  <2>6. \A g \in job'.done \cap ListFiles : Installed(g, hooks'[g]) = hooks'[g]
    BY <1>1, <1>5, <2>1
  <2> QED BY <1>2, <2>1, <2>3, <2>4, <2>5, <2>6 DEF InstallHolds
<1>8. UninstallHolds(job)'
  BY <1>1, <1>2, <1>5 DEF Inv, UninstallHolds
<1>9. (InstallHolds(last) /\ UninstallHolds(last))'
  BY <1>1, <1>3, IdleIs DEF InstallHolds, UninstallHolds
<1>10. BaseHolds'
  BY <1>1 DEF Inv, BaseHolds
<1> QED BY <1>6, <1>7, <1>8, <1>9, <1>10 DEF Inv

\* The steps of an adapter that failed go, those of the others stay.
LEMMA FailsInv == Inv /\ AdapterFails => Inv'
<1> SUFFICES ASSUME Inv, AdapterFails PROVE Inv'
  OBVIOUS
<1> DEFINE others == {s \in ToSet(job.todo) : s.adapter # Current.adapter}
           todo == Kept(job.todo, others)
<1>1. /\ job \in Jobs /\ last \in Jobs /\ job.todo # <<>>
      /\ UNCHANGED <<hooks, features, plugin, last, base>>
      /\ job' = [job EXCEPT !.failed = job.failed \cup {Current.adapter}, !.todo = todo]
  BY DEF Inv, Typed, AdapterFails
<1>2. job.todo \in Seq(Step)
  BY <1>1 DEF Jobs
<1>3. Current \in Step /\ Current.adapter \in Adapters
  <2>1. Current \in Step
    BY <1>1, <1>2, HeadTailProperties DEF Current
  <2> QED BY <2>1 DEF Step
<1>4. todo \in Seq(Step) /\ Range(todo) = Range(job.todo) \cap others
  <2> HIDE DEF others
  <2> QED BY <1>2, KeptIs
<1>5. ASSUME NEW a, NEW file, a # Current.adapter, StepOf(a, file) \in Range(job.todo)
      PROVE  StepOf(a, file) \in Range(todo)
  <2>1. StepOf(a, file).adapter = a
    BY DEF StepOf
  <2>2. StepOf(a, file) \in ToSet(job.todo)
    BY <1>5 DEF Range, ToSet
  <2>3. StepOf(a, file) \in others
    BY <1>5, <2>1, <2>2
  <2> QED BY <1>4, <1>5, <2>3
<1> HIDE DEF others, todo
<1>6. /\ job' \in Jobs /\ job'.name = job.name /\ job'.mode = job.mode /\ job'.done = job.done
      /\ job'.failed = job.failed \cup {Current.adapter} /\ job'.todo = todo
  BY <1>1, <1>3, <1>4 DEF Jobs
<1>7. job.name # "idle" /\ last = Idle
  BY <1>1, IdleIs DEF Inv, Typed
<1>8. Typed'
  BY <1>1, <1>6, <1>7 DEF Inv, Typed
<1>9. InstallHolds(job)'
  BY <1>1, <1>5, <1>6 DEF Inv, InstallHolds
<1>10. UninstallHolds(job)'
  BY <1>1, <1>6 DEF Inv, UninstallHolds
<1>11. (InstallHolds(last) /\ UninstallHolds(last))'
  BY <1>1, <1>7, IdleIs DEF InstallHolds, UninstallHolds
<1>12. BaseHolds'
  BY <1>1 DEF Inv, BaseHolds
<1> QED BY <1>8, <1>9, <1>10, <1>11, <1>12 DEF Inv

LEMMA EndInv == Inv /\ (Exit \/ Kill) => Inv'
<1> SUFFICES ASSUME Inv, Exit \/ Kill PROVE Inv'
  OBVIOUS
<1>1. /\ job \in Jobs /\ last \in Jobs /\ job # Idle /\ last = Idle
      /\ UNCHANGED <<hooks, features, plugin, base>> /\ job' = Idle
      /\ \/ last' = job /\ job.todo = <<>>
         \/ last' = last
  BY DEF Inv, Typed, Exit, Kill
<1>2. Typed'
  BY <1>1, IdleIs DEF Inv, Typed
<1>3. InstallHolds(job)' /\ UninstallHolds(job)'
  BY <1>1, IdleIs DEF InstallHolds, UninstallHolds
<1>4. (InstallHolds(last) /\ UninstallHolds(last))'
  BY <1>1 DEF Inv, InstallHolds, UninstallHolds
<1>5. BaseHolds'
  BY <1>1 DEF Inv, BaseHolds
<1> QED BY <1>2, <1>3, <1>4, <1>5 DEF Inv

\* An edit makes lists of hooks of lists of hooks.
LEMMA EditInv ==
  ASSUME Inv, NEW f \in ListFiles, NEW e \in Events, NEW groups \in Seq(Groups),
         Edit(f, e, groups)
  PROVE  Inv'
<1>1. /\ hooks \in FileLists /\ job = Idle /\ job' = Idle /\ last' = Idle /\ base' = None
      /\ hooks' = [hooks EXCEPT ![f] = [hooks[f] EXCEPT ![e] = groups]]
  BY DEF Inv, Typed, Edit
<1>2. [hooks[f] EXCEPT ![e] = groups] \in EventLists
  BY <1>1 DEF FileLists, EventLists
<1>3. hooks' \in FileLists
  BY <1>1, <1>2 DEF FileLists
<1>4. Typed'
  BY <1>1, <1>3, IdleIs DEF Typed
<1> QED BY <1>1, <1>4, IdleIs DEF Inv, BaseHolds, InstallHolds, UninstallHolds

LEMMA ByHandInv ==
  ASSUME Inv, NEW f \in ListFiles, NEW e \in Events, NEW c \in Tools,
         AddGroup(f, e, c) \/ JoinGroup(f, e, c) \/ Compose(f, e, c) \/ AddBridge(f, e, c)
  PROVE  Inv'
<1> DEFINE gs == hooks[f][e]
<1>1. gs \in Seq(Groups)
  BY DEF Inv, Typed, FileLists, EventLists
<1>2. \A h \in Hooks : Group("some", h) \in Groups
  <2>1. \A h \in Hooks : <<h>> \in Seq(Hooks) \ {<<>>}
    OBVIOUS
  <2> QED BY <2>1 DEF Group, Groups
<1>3. Foreign(c) \in Hooks /\ Bridge(c) \in Hooks
  BY ForeignIs, BridgeIs
<1> HIDE DEF gs
<1>4. CASE AddGroup(f, e, c)
  <2>1. Append(gs, Group("some", Foreign(c))) \in Seq(Groups)
    BY <1>1, <1>2, <1>3, AppendProperties
  <2> QED BY <1>4, <2>1, EditInv DEF AddGroup, gs
<1>5. CASE AddBridge(f, e, c)
  <2>1. Append(gs, Group("some", Bridge(c))) \in Seq(Groups)
    BY <1>1, <1>2, <1>3, AppendProperties
  <2> QED BY <1>5, <2>1, EditInv DEF AddBridge, gs
<1>6. CASE JoinGroup(f, e, c)
  <2>1. PICK i \in DOMAIN gs : Edit(f, e, [gs EXCEPT ![i].hooks = Append(gs[i].hooks, Foreign(c))])
    BY <1>6 DEF JoinGroup, gs
  <2> DEFINE g == [gs[i] EXCEPT !.hooks = Append(gs[i].hooks, Foreign(c))]
  <2>2. gs[i] \in Groups /\ gs[i].hooks \in Seq(Hooks)
    <3>1. gs[i] \in Groups
      BY <1>1
    <3> QED BY <3>1, LeftHooksIs
  <2>3. Append(gs[i].hooks, Foreign(c)) \in Seq(Hooks) \ {<<>>}
    BY <1>3, <2>2, AppendProperties
  <2>4. g \in Groups
    BY <2>2, <2>3 DEF Groups
  <2>5. [gs EXCEPT ![i].hooks = Append(gs[i].hooks, Foreign(c))] = [gs EXCEPT ![i] = g]
    OBVIOUS
  <2> HIDE DEF g
  <2>6. [gs EXCEPT ![i] = g] \in Seq(Groups)
    BY <1>1, <2>1, <2>4
  <2> QED BY <2>1, <2>5, <2>6, EditInv
<1>7. CASE Compose(f, e, c)
  <2>1. PICK i \in DOMAIN gs : \E j \in DOMAIN gs[i].hooks :
            IsBridge(gs[i].hooks[j]) /\ Edit(f, e, [gs EXCEPT ![i].hooks[j].down = c])
    BY <1>7, Zenon DEF Compose, gs
  <2>2. gs[i] \in Groups /\ gs[i].hooks \in Seq(Hooks)
    <3>1. gs[i] \in Groups
      BY <1>1
    <3> QED BY <3>1, LeftHooksIs
  <2>3. PICK j \in DOMAIN gs[i].hooks :
            IsBridge(gs[i].hooks[j]) /\ Edit(f, e, [gs EXCEPT ![i].hooks[j].down = c])
    BY <2>1
  <2> DEFINE s == gs[i].hooks
             t == [s EXCEPT ![j].down = c]
             g == [gs[i] EXCEPT !.hooks = t]
  <2>4. s[j] \in Hooks /\ IsBridge(s[j])
    BY <2>2, <2>3
  <2>5. [s[j] EXCEPT !.down = c] = Bridge(c)
    BY <2>4, HookIs DEF Bridge
  <2>6. t = [s EXCEPT ![j] = Bridge(c)]
    BY <2>5
  <2>7. t \in Seq(Hooks) \ {<<>>}
    BY <1>3, <2>2, <2>3, <2>6
  <2>8. [gs EXCEPT ![i].hooks[j].down = c] = [gs EXCEPT ![i] = g]
    OBVIOUS
  <2> HIDE DEF t
  <2>9. g \in Groups
    BY <2>2, <2>7 DEF Groups
  <2> HIDE DEF g
  <2>10. [gs EXCEPT ![i] = g] \in Seq(Groups)
    BY <1>1, <2>1, <2>9
  <2> QED BY <2>3, <2>8, <2>10, EditInv
<1> QED BY <1>4, <1>5, <1>6, <1>7

LEMMA StepInv == Inv /\ [Next]_vars => Inv'
<1> SUFFICES ASSUME Inv, [Next]_vars PROVE Inv'
  OBVIOUS
<1>1. CASE \E option \in {"auto", "direct", "rulesync"}, workspace \in BOOLEAN :
              Install(option, workspace) \/ Uninstall(option, workspace)
  BY <1>1, InstallInv, UninstallInv
<1>2. CASE RewriteList
  BY <1>2, RewriteInv
<1>3. CASE EnableFeature \/ RewritePlugin
  BY <1>3, OtherFileInv
<1>4. CASE AdapterFails
  BY <1>4, FailsInv
<1>5. CASE Exit \/ Kill
  BY <1>5, EndInv
<1>6. CASE \E f \in ListFiles, e \in Events, c \in Tools :
              AddGroup(f, e, c) \/ JoinGroup(f, e, c) \/ Compose(f, e, c) \/ AddBridge(f, e, c)
  BY <1>6, ByHandInv
<1>7. CASE UNCHANGED vars
  BY <1>7 DEF vars, Inv, Typed, BaseHolds, InstallHolds, UninstallHolds
<1> QED BY <1>1, <1>2, <1>3, <1>4, <1>5, <1>6, <1>7 DEF Next

\* The hook lists, the command that runs and the one that ended are always of their types,
\* and every file is as the history of commands says.
THEOREM Invariant == Spec => []Inv
<1>1. Init => Inv
  BY InitInv
<1>2. Inv /\ [Next]_vars => Inv'
  BY StepInv
<1> QED BY <1>1, <1>2, PTL DEF Spec

\* Installing again changes no file: what install has handled it makes the same of again
\* (HookInstall.InstallIsStable; docs/cli.md "byte-stable across runs").
THEOREM StableAgain == Spec => []InstallIsStable
<1>1. Inv => InstallIsStable
  BY DEF Inv, InstallHolds, InstallIsStable
<1> QED BY <1>1, Invariant, PTL

\* Uninstalling what one or more installs made, after any failures and kills and in any
\* modes, leaves the lists of before the first of them in every file it handled but
\* Kiro's standalone one (HookInstall.RoundTrip).
THEOREM BackToBase == Spec => []RoundTrip
<1>1. Inv => RoundTrip
  BY DEF Inv, UninstallHolds, RoundTrip
<1> QED BY <1>1, Invariant, PTL

LEMMA GuardedIs ==
  ASSUME Inv, last.name = "install", NEW a \in Adapters \ last.failed
  PROVE  Guarded(a)
<1>1. /\ last \in Jobs /\ hooks \in FileLists /\ last.todo = <<>>
      /\ last.mode \in {"direct", "rulesync"}
      /\ \A f \in last.done \cap ListFiles : Installed(f, hooks[f]) = hooks[f]
      /\ Features \in last.done => features = "hooks"
      /\ Plugin \in last.done => plugin = "own"
      /\ \A file \in Needs(a, last.mode) :
              file \in last.done \/ StepOf(a, file) \in Range(last.todo)
  BY DEF Inv, Typed, InstallHolds
<1>2. \A file \in Needs(a, last.mode) : file \in last.done
  BY <1>1, FirstsEmpty
<1>3. a \in {"claude", "codex", "opencode", "gemini", "kiro"}
  BY AdaptersAre
<1>4. ASSUME NEW f \in last.done \cap ListFiles, f[2] = a \/ (a = "kiro" /\ f \in AgentFiles),
             NEW e \in Adds(a) \cup Strips(a)
      PROVE  Len(Asked(hooks[f][e])) = IF e \in Adds(a) THEN 1 ELSE 0
  <2>1. Owner(f) = a
    <3>1. CASE f \in AgentFiles
      <4>1. f[2] \in {"global", "workspace"}
        BY <3>1 DEF AgentFiles
      <4>2. a = "kiro"
        BY <1>3, <1>4, <4>1
      <4> QED BY <3>1, <4>2, FileIs
    <3>2. CASE f = Standalone
      <4>1. f[2] = "kiro" /\ f \notin AgentFiles
        BY <3>2, FileIs DEF Standalone
      <4> QED BY <1>4, <3>2, <4>1, FileIs
    <3>3. CASE f \notin AgentFiles /\ f # Standalone
      BY <1>4, <3>3, FileIs
    <3> QED BY <3>1, <3>2, <3>3
  <2>2. e \in Handled(f) /\ e \in Events
    BY <2>1, HandledIs DEF Handled
  <2>3. hooks[f] \in EventLists /\ hooks[f][e] \in Seq(Groups)
    BY <1>1, <2>2 DEF FileLists, EventLists
  <2>4. Installed(f, hooks[f]) = [d \in Events |-> InstalledList(f, d, hooks[f][d])]
    BY <2>3, InstalledIs
  <2>5. hooks[f][e] = InstalledList(f, e, hooks[f][e])
    BY <1>1, <2>2, <2>4
  <2>6. Len(Asked(InstalledList(f, e, hooks[f][e]))) = IF e \in Adds(Owner(f)) THEN 1 ELSE 0
    BY <2>2, <2>3, InstalledTwice
  <2> QED BY <2>1, <2>5, <2>6
<1>5. /\ a \in Configured => <<last.mode, a>> \in last.done
      /\ a = "codex" /\ last.mode = "direct" => features = "hooks"
      /\ a = "opencode" => plugin = "own"
      /\ a = "kiro" => {<<"agent", "global">>, Standalone} \subseteq last.done
  <2>1. CASE a = "opencode"
    <3>1. Needs(a, last.mode) = {Plugin}
      BY <2>1 DEF Needs
    <3> QED BY <1>1, <1>2, <2>1, <3>1 DEF Configured
  <2>2. CASE a = "kiro"
    <3>1. Needs(a, last.mode) = {<<"agent", "global">>, Standalone}
      BY <2>2 DEF Needs
    <3> QED BY <1>2, <2>2, <3>1 DEF Configured
  <2>3. CASE a = "codex" /\ last.mode = "direct"
    <3>1. Needs(a, last.mode) = {<<last.mode, a>>, Features}
      BY <2>3 DEF Needs
    <3> QED BY <1>1, <1>2, <2>3, <3>1
  <2>4. CASE a # "opencode" /\ a # "kiro" /\ ~(a = "codex" /\ last.mode = "direct")
    <3>1. Needs(a, last.mode) = {<<last.mode, a>>}
      BY <2>4 DEF Needs
    <3> QED BY <1>2, <2>4, <3>1
  <2> QED BY <2>1, <2>2, <2>3, <2>4
<1> QED BY <1>4, <1>5 DEF Guarded

\* When an install ends, every agent whose adapter did not fail is asked exactly once per
\* event it fires, in every file the install handled, whichever files were found, edited
\* and left half done before (HookInstall.GuardedUnlessFailed; cli.py _cmd_install).
THEOREM AgentsGuarded == Spec => []GuardedUnlessFailed
<1>1. Inv => GuardedUnlessFailed
  BY GuardedIs DEF GuardedUnlessFailed
<1> QED BY <1>1, Invariant, PTL

-----------------------------------------------------------------------------
(* The hooks of other tools. *)

LEMMA EmbeddedSelf ==
  ASSUME NEW V, NEW s \in Seq(V)
  PROVE  Embedded(s, s) /\ (\A t : Embedded(<<>>, t))
<1>1. Embedded(s, s)
  <2> DEFINE place == [i \in DOMAIN s |-> i]
  <2>1. place \in [DOMAIN s -> DOMAIN s]
    OBVIOUS
  <2>2. \A i \in DOMAIN s : s[i] = s[place[i]]
    OBVIOUS
  <2>3. \A i, j \in DOMAIN s : i < j => place[i] < place[j]
    OBVIOUS
  <2> HIDE DEF place
  <2> QED BY <2>1, <2>2, <2>3 DEF Embedded
<1>2. ASSUME NEW t PROVE Embedded(<<>>, t)
  <2> DEFINE none == <<>>
             place == [i \in {} |-> i]
  <2>1. DOMAIN none = {}
    OBVIOUS
  <2>2. place \in [{} -> DOMAIN t]
    OBVIOUS
  <2> HIDE DEF none, place
  <2>3. Embedded(none, t)
    BY <2>1, <2>2 DEF Embedded
  <2> QED BY <2>3 DEF none
<1> QED BY <1>1, <1>2

LEMMA EmbeddedConcat ==
  ASSUME NEW V, NEW s \in Seq(V), NEW t \in Seq(V), NEW u \in Seq(V), NEW v \in Seq(V),
         Embedded(s, t), Embedded(u, v)
  PROVE  Embedded(s \o u, t \o v)
<1>1. PICK p \in [DOMAIN s -> DOMAIN t] :
          /\ \A i \in DOMAIN s : s[i] = t[p[i]]
          /\ \A i, j \in DOMAIN s : i < j => p[i] < p[j]
  BY DEF Embedded
<1>2. PICK q \in [DOMAIN u -> DOMAIN v] :
          /\ \A i \in DOMAIN u : u[i] = v[q[i]]
          /\ \A i, j \in DOMAIN u : i < j => q[i] < q[j]
  BY DEF Embedded
<1> DEFINE l == Len(s)
           m == Len(t)
           su == s \o u
           tv == t \o v
           place == [i \in 1..(l + Len(u)) |-> IF i <= l THEN p[i] ELSE m + q[i - l]]
<1>3. /\ l \in Nat /\ m \in Nat /\ Len(u) \in Nat /\ Len(v) \in Nat
      /\ DOMAIN s = 1..l /\ DOMAIN t = 1..m /\ DOMAIN u = 1..Len(u) /\ DOMAIN v = 1..Len(v)
  BY RangeIndexed
<1>4. /\ su \in Seq(V) /\ Len(su) = l + Len(u)
      /\ \A i \in 1..(l + Len(u)) : su[i] = IF i <= l THEN s[i] ELSE u[i - l]
      /\ tv \in Seq(V) /\ Len(tv) = m + Len(v)
      /\ \A i \in 1..(m + Len(v)) : tv[i] = IF i <= m THEN t[i] ELSE v[i - m]
  BY ConcatProperties
<1>5. DOMAIN su = 1..(l + Len(u)) /\ DOMAIN tv = 1..(m + Len(v))
  BY <1>4, RangeIndexed
<1> HIDE DEF l, m, su, tv
<1>6. ASSUME NEW i \in 1..(l + Len(u))
      PROVE  \/ /\ i <= l /\ i \in DOMAIN s /\ place[i] = p[i] /\ p[i] \in 1..m
             \/ /\ ~(i <= l) /\ i - l \in DOMAIN u /\ place[i] = m + q[i - l]
                /\ q[i - l] \in 1..Len(v)
  <2>1. CASE i <= l
    <3>1. i \in DOMAIN s
      BY <1>3, <2>1
    <3> QED BY <1>1, <1>3, <2>1, <3>1
  <2>2. CASE ~(i <= l)
    <3>1. i - l \in DOMAIN u
      BY <1>3, <2>2
    <3>2. q[i - l] \in 1..Len(v)
      BY <1>2, <1>3, <3>1
    <3> QED BY <2>2, <3>1, <3>2
  <2> QED BY <2>1, <2>2
<1>7. place \in [1..(l + Len(u)) -> 1..(m + Len(v))]
  <2>1. \A i \in 1..(l + Len(u)) : place[i] \in 1..(m + Len(v))
    <3> SUFFICES ASSUME NEW i \in 1..(l + Len(u)) PROVE place[i] \in 1..(m + Len(v))
      OBVIOUS
    <3> HIDE DEF place
    <3>1. CASE i <= l
      BY <1>3, <1>6, <3>1
    <3>2. CASE ~(i <= l)
      <4>1. place[i] = m + q[i - l] /\ q[i - l] \in 1..Len(v)
        BY <1>6, <3>2
      <4> QED BY <1>3, <4>1
    <3> QED BY <3>1, <3>2
  <2>2. place = [i \in 1..(l + Len(u)) |-> place[i]]
    OBVIOUS
  <2> HIDE DEF place
  <2> QED BY <2>1, <2>2
<1> HIDE DEF place
<1>8. ASSUME NEW i \in 1..(l + Len(u)) PROVE su[i] = tv[place[i]]
  <2>1. CASE i <= l
    <3>1. place[i] = p[i] /\ p[i] \in 1..m /\ i \in DOMAIN s
      BY <1>6, <2>1
    <3>2. p[i] \in 1..(m + Len(v)) /\ p[i] <= m
      BY <1>3, <3>1
    <3>3. tv[p[i]] = t[p[i]]
      BY <1>4, <3>2
    <3>4. su[i] = s[i]
      BY <1>4, <2>1
    <3> QED BY <1>1, <3>1, <3>3, <3>4
  <2>2. CASE ~(i <= l)
    <3> DEFINE k == q[i - l]
    <3>1. place[i] = m + k /\ k \in 1..Len(v) /\ i - l \in DOMAIN u
      BY <1>6, <2>2
    <3>2. u[i - l] = v[k]
      BY <1>2, <3>1
    <3> HIDE DEF k
    <3>3. m + k \in 1..(m + Len(v)) /\ ~(m + k <= m) /\ (m + k) - m = k
      BY <1>3, <3>1
    <3>4. tv[m + k] = v[k]
      BY <1>4, <3>3
    <3>5. su[i] = u[i - l]
      BY <1>4, <2>2
    <3> QED BY <3>1, <3>2, <3>4, <3>5
  <2> QED BY <2>1, <2>2
<1>9. ASSUME NEW i \in 1..(l + Len(u)), NEW j \in 1..(l + Len(u)), i < j
      PROVE  place[i] < place[j]
  <2>1. CASE j <= l
    <3>1. i <= l
      BY <1>3, <1>9, <2>1
    <3>2. place[i] = p[i] /\ i \in DOMAIN s /\ place[j] = p[j] /\ j \in DOMAIN s
      BY <1>6, <2>1, <3>1
    <3> QED BY <1>1, <1>9, <3>2
  <2>2. CASE ~(j <= l) /\ i <= l
    <3> DEFINE x == p[i]
               y == q[j - l]
    <3>1. place[i] = x /\ x \in 1..m
      BY <1>6, <2>2
    <3>2. place[j] = m + y /\ y \in 1..Len(v)
      BY <1>6, <2>2
    <3> HIDE DEF x, y
    <3>3. x < m + y
      BY <1>3, <3>1, <3>2
    <3> QED BY <3>1, <3>2, <3>3
  <2>3. CASE ~(j <= l) /\ ~(i <= l)
    <3>1. place[i] = m + q[i - l] /\ q[i - l] \in 1..Len(v) /\ i - l \in DOMAIN u
      BY <1>6, <2>3
    <3>2. place[j] = m + q[j - l] /\ q[j - l] \in 1..Len(v) /\ j - l \in DOMAIN u
      BY <1>6, <2>3
    <3>3. i - l < j - l
      BY <1>3, <1>9
    <3> DEFINE x == q[i - l]
               y == q[j - l]
    <3>4. x < y /\ x \in 1..Len(v) /\ y \in 1..Len(v) /\ place[i] = m + x /\ place[j] = m + y
      BY <1>2, <3>1, <3>2, <3>3
    <3> HIDE DEF x, y
    <3>5. m + x < m + y
      BY <1>3, <3>4
    <3> QED BY <3>4, <3>5
  <2> QED BY <2>1, <2>2, <2>3
<1>10. Embedded(su, tv)
  <2> DEFINE D == 1..(l + Len(u))
             E == 1..(m + Len(v))
  <2>1. /\ DOMAIN su = D /\ DOMAIN tv = E /\ place \in [D -> E]
        /\ \A i \in D : su[i] = tv[place[i]]
        /\ \A i, j \in D : i < j => place[i] < place[j]
    BY <1>5, <1>7, <1>8, <1>9
  <2> HIDE DEF D, E
  <2> QED BY <2>1 DEF Embedded
<1> QED BY <1>10 DEF su, tv

\* Lists made of lists that are embedded, element by element, are embedded.
LEMMA EmbeddedChains ==
  ASSUME NEW S, NEW V, NEW f, NEW g, Makes(f, S, V), Makes(g, S, V),
         \A x \in S : Embedded(f[x], g[x]), NEW s \in Seq(S)
  PROVE  Embedded(Chained(f, s), Chained(g, s))
<1> DEFINE T == {r \in Seq(S) : Embedded(Chained(f, r), Chained(g, r))}
<1>1. <<>> \in T
  <2>1. Chained(f, <<>>) = <<>> /\ Chained(g, <<>>) = <<>> /\ <<>> \in Seq(S)
    BY ChainedEmpty, EmptySeq
  <2> QED BY <2>1, EmbeddedSelf
<1>2. ASSUME NEW r \in T, NEW x \in S PROVE Append(r, x) \in T
  <2>1. r \in Seq(S) /\ Embedded(Chained(f, r), Chained(g, r))
    OBVIOUS
  <2>2. /\ Append(r, x) \in Seq(S)
        /\ Chained(f, r) \in Seq(V) /\ Chained(f, Append(r, x)) = Chained(f, r) \o f[x]
        /\ Chained(g, r) \in Seq(V) /\ Chained(g, Append(r, x)) = Chained(g, r) \o g[x]
    BY <2>1, ChainedAppend, AppendProperties
  <2>3. f[x] \in Seq(V) /\ g[x] \in Seq(V)
    BY DEF Makes
  <2>4. Embedded(Chained(f, r) \o f[x], Chained(g, r) \o g[x])
    BY <2>1, <2>2, <2>3, EmbeddedConcat
  <2> QED BY <2>2, <2>4
<1>3. T \in SUBSET Seq(S)
  OBVIOUS
<1> HIDE DEF T
<1>4. T = Seq(S)
  BY <1>1, <1>2, <1>3, SeqInduction
<1> QED BY <1>4 DEF T

\* What is made of a list that is made of a list.
LEMMA ChainedTwice ==
  ASSUME NEW S, NEW V, NEW W, NEW f, NEW k, NEW h, Makes(f, S, V), Makes(k, V, W), Makes(h, S, W),
         \A x \in S : h[x] = Chained(k, f[x]), NEW s \in Seq(S)
  PROVE  Chained(k, Chained(f, s)) = Chained(h, s)
<1> DEFINE T == {r \in Seq(S) : Chained(k, Chained(f, r)) = Chained(h, r)}
<1>1. <<>> \in T
  <2>1. Chained(f, <<>>) = <<>> /\ Chained(k, <<>>) = <<>> /\ Chained(h, <<>>) = <<>>
        /\ <<>> \in Seq(S)
    BY ChainedEmpty, EmptySeq
  <2> QED BY <2>1
<1>2. ASSUME NEW r \in T, NEW x \in S PROVE Append(r, x) \in T
  <2>1. r \in Seq(S) /\ Chained(k, Chained(f, r)) = Chained(h, r)
    OBVIOUS
  <2>2. /\ Append(r, x) \in Seq(S)
        /\ Chained(f, r) \in Seq(V) /\ Chained(f, Append(r, x)) = Chained(f, r) \o f[x]
        /\ Chained(h, Append(r, x)) = Chained(h, r) \o h[x]
    <3>1. Append(r, x) \in Seq(S)
      BY <2>1, AppendProperties
    <3>2. Chained(f, r) \in Seq(V) /\ Chained(f, Append(r, x)) = Chained(f, r) \o f[x]
      BY <2>1, ChainedAppend
    <3>3. Chained(h, Append(r, x)) = Chained(h, r) \o h[x]
      BY <2>1, ChainedAppend
    <3> QED BY <3>1, <3>2, <3>3
  <2>3. f[x] \in Seq(V)
    BY DEF Makes
  <2>4. Chained(k, Chained(f, r) \o f[x]) = Chained(k, Chained(f, r)) \o Chained(k, f[x])
    <3> DEFINE q == Chained(f, r)
               y == f[x]
    <3>1. q \in Seq(V) /\ y \in Seq(V)
      BY <2>2, <2>3
    <3> HIDE DEF q, y
    <3>2. Chained(k, q \o y) = Chained(k, q) \o Chained(k, y)
      <4>1. \A a, b \in Seq(V) : Chained(k, a \o b) = Chained(k, a) \o Chained(k, b)
        BY ChainedConcat
      <4> QED BY <3>1, <4>1
    <3> QED BY <3>2 DEF q, y
  <2>5. h[x] = Chained(k, f[x])
    OBVIOUS
  <2>6. Chained(k, Chained(f, Append(r, x))) = Chained(h, Append(r, x))
    BY <2>1, <2>2, <2>4, <2>5
  <2> QED BY <2>2, <2>6
<1>3. T \in SUBSET Seq(S)
  OBVIOUS
<1> HIDE DEF T
<1>4. T = Seq(S)
  BY <1>1, <1>2, <1>3, SeqInduction
<1> QED BY <1>4 DEF T

Entries == {"all", "some"} \X Tools
EntryOf(m) == [h \in Hooks |-> IF IsBridge(h) THEN <<>> ELSE <<<<m, h.cmd>>>>]
EntriesIn == [g \in Groups |-> StandingIn(g)]

LEMMA EntryIs ==
  ASSUME NEW m \in {"all", "some"}
  PROVE  Makes(EntryOf(m), Hooks, Entries)
<1>1. \A h \in Hooks : (IF IsBridge(h) THEN <<>> ELSE <<<<m, h.cmd>>>>) \in Seq(Entries)
  <2> SUFFICES ASSUME NEW h \in Hooks
               PROVE  (IF IsBridge(h) THEN <<>> ELSE <<<<m, h.cmd>>>>) \in Seq(Entries)
    OBVIOUS
  <2>1. CASE IsBridge(h)
    BY <2>1, EmptySeq
  <2>2. CASE ~IsBridge(h)
    <3> DEFINE x == <<m, h.cmd>>
    <3>1. x \in Entries
      BY <2>2, HookIs DEF Entries
    <3> HIDE DEF x
    <3>2. <<x>> \in Seq(Entries)
      BY <3>1
    <3> QED BY <2>2, <3>2 DEF x
  <2> QED BY <2>1, <2>2
<1> QED BY <1>1 DEF Makes, EntryOf

LEMMA StandingInIs ==
  ASSUME NEW g \in Groups
  PROVE  /\ StandingIn(g) = Chained(EntryOf(g.matcher), g.hooks)
         /\ StandingIn(g) \in Seq(Entries)
<1>1. g.hooks \in Seq(Hooks) /\ g.matcher \in {"all", "some"}
  BY LeftHooksIs
<1>2. [i \in DOMAIN g.hooks |->
          IF IsBridge(g.hooks[i]) THEN <<>> ELSE <<<<g.matcher, g.hooks[i].cmd>>>>]
        = [i \in DOMAIN g.hooks |-> EntryOf(g.matcher)[g.hooks[i]]]
  BY <1>1 DEF EntryOf
<1>3. StandingIn(g) = Chained(EntryOf(g.matcher), g.hooks)
  BY <1>2 DEF StandingIn, Chained
<1> QED BY <1>1, <1>3, EntryIs, ChainedIs

LEMMA StandingIs ==
  ASSUME NEW gs \in Seq(Groups)
  PROVE  /\ Makes(EntriesIn, Groups, Entries)
         /\ Standing(gs) = Chained(EntriesIn, gs)
         /\ Standing(gs) \in Seq(Entries)
<1>1. Makes(EntriesIn, Groups, Entries)
  BY StandingInIs DEF Makes, EntriesIn
<1>2. [i \in DOMAIN gs |-> StandingIn(gs[i])] = [i \in DOMAIN gs |-> EntriesIn[gs[i]]]
  BY DEF EntriesIn
<1>3. Standing(gs) = Chained(EntriesIn, gs)
  BY <1>2 DEF Standing, Chained
<1> QED BY <1>1, <1>3, ChainedIs

\* A hook of another tool is among what is left of it, with the matcher of its group.
LEMMA LeftStands ==
  ASSUME NEW g \in Groups, NEW r \in BOOLEAN
  PROVE  /\ Standing(LeftGroup(g, r)) \in Seq(Entries)
         /\ Embedded(StandingIn(g), Standing(LeftGroup(g, r)))
<1> DEFINE m == g.matcher
           k == EntryOf(m)
           left == Lefts(r)
           h == [x \in Hooks |-> Chained(k, left[x])]
<1>1. g.hooks \in Seq(Hooks) /\ m \in {"all", "some"} /\ Makes(left, Hooks, Hooks)
        /\ LeftHooks(g, r) = Chained(left, g.hooks) /\ LeftHooks(g, r) \in Seq(Hooks)
  BY LeftHooksIs
<1> HIDE DEF m
<1>2. Makes(k, Hooks, Entries)
  BY <1>1, EntryIs
<1>3. \A x \in Hooks : left[x] \in Seq(Hooks) /\ left[x] = Left(x, r)
  BY <1>1 DEF Makes, Lefts
<1> HIDE DEF left, k
<1>4. \A x \in Hooks : Chained(k, left[x]) \in Seq(Entries)
  BY <1>2, <1>3, ChainedIs
<1>5. Makes(h, Hooks, Entries) /\ \A x \in Hooks : h[x] = Chained(k, left[x])
  BY <1>4 DEF Makes
<1> HIDE DEF h
<1>6. Chained(k, LeftHooks(g, r)) = Chained(h, g.hooks)
  BY <1>1, <1>2, <1>5, ChainedTwice
<1>7. ASSUME NEW x \in Hooks PROVE Embedded(k[x], h[x])
  <2>0. h[x] \in Seq(Entries) /\ k[x] \in Seq(Entries)
    BY <1>2, <1>5 DEF Makes
  <2>1. CASE x \in Bridges
    <3>1. k[x] = <<>>
      BY <2>1, HookIs DEF k, EntryOf
    <3> QED BY <3>1, EmbeddedSelf, EmptySeq
  <2>2. CASE x \notin Bridges
    <3>1. left[x] = <<x>>
      BY <1>3, <2>2, LeftIs
    <3>2. Chained(k, <<x>>) = k[x]
      BY <1>2, ChainedSingle
    <3>3. h[x] = k[x]
      BY <1>5, <3>1, <3>2
    <3> QED BY <2>0, <3>3, EmbeddedSelf
  <2> QED BY <2>1, <2>2
<1>8. Embedded(Chained(k, g.hooks), Chained(h, g.hooks))
  BY <1>1, <1>2, <1>5, <1>7, EmbeddedChains
<1>9. StandingIn(g) = Chained(k, g.hooks)
  BY StandingInIs DEF k, m
<1>10. Standing(LeftGroup(g, r)) = Chained(k, LeftHooks(g, r))
  <2>1. CASE LeftHooks(g, r) = <<>>
    <3>1. LeftGroup(g, r) = <<>> /\ <<>> \in Seq(Groups)
      BY <2>1, LeftGroupIs, EmptySeq
    <3>2. Standing(<<>>) = Chained(EntriesIn, <<>>)
      BY <3>1, StandingIs
    <3> QED BY <2>1, <3>1, <3>2, ChainedEmpty
  <2>2. CASE LeftHooks(g, r) # <<>>
    <3>1. PICK l \in Groups : LeftGroup(g, r) = <<l>> /\ l.matcher = m /\ l.hooks = LeftHooks(g, r)
      BY <2>2, LeftGroupIs DEF m
    <3>2. <<l>> \in Seq(Groups)
      OBVIOUS
    <3>3. Standing(<<l>>) = Chained(EntriesIn, <<l>>) /\ Makes(EntriesIn, Groups, Entries)
      BY <3>2, StandingIs
    <3>4. Chained(EntriesIn, <<l>>) = EntriesIn[l]
      BY <3>3, ChainedSingle
    <3>5. EntriesIn[l] = StandingIn(l)
      BY DEF EntriesIn
    <3>6. StandingIn(l) = Chained(k, LeftHooks(g, r))
      BY <3>1, StandingInIs DEF k
    <3> QED BY <3>1, <3>3, <3>4, <3>5, <3>6
  <2> QED BY <2>1, <2>2
<1>11. Standing(LeftGroup(g, r)) \in Seq(Entries)
  BY LeftGroupIs, StandingIs
<1> QED BY <1>6, <1>8, <1>9, <1>10, <1>11

LEMMA StripStands ==
  ASSUME NEW gs \in Seq(Groups), NEW r \in BOOLEAN
  PROVE  Embedded(Standing(gs), Standing(Strip(gs, r)))
<1> DEFINE k == EntriesIn
           left == LeftGroups(r)
           h == [g \in Groups |-> Standing(LeftGroup(g, r))]
<1>1. Makes(left, Groups, Groups) /\ Strip(gs, r) = Chained(left, gs) /\ Strip(gs, r) \in Seq(Groups)
  BY StripIs
<1>2. Makes(k, Groups, Entries) /\ Standing(gs) = Chained(k, gs)
        /\ Standing(Strip(gs, r)) = Chained(k, Strip(gs, r))
  BY <1>1, StandingIs
<1>3. Makes(h, Groups, Entries)
  BY LeftStands DEF Makes
<1>4. \A g \in Groups : h[g] = Chained(k, left[g])
  <2> SUFFICES ASSUME NEW g \in Groups PROVE h[g] = Chained(k, left[g])
    OBVIOUS
  <2>1. left[g] = LeftGroup(g, r) /\ LeftGroup(g, r) \in Seq(Groups)
    BY LeftGroupIs DEF LeftGroups
  <2>2. Standing(LeftGroup(g, r)) = Chained(k, LeftGroup(g, r))
    BY <2>1, StandingIs
  <2> QED BY <2>1, <2>2
<1>5. \A g \in Groups : Embedded(k[g], h[g])
  BY LeftStands DEF EntriesIn
<1> HIDE DEF k, left, h
<1>6. Chained(k, Chained(left, gs)) = Chained(h, gs)
  BY <1>1, <1>2, <1>3, <1>4, ChainedTwice
<1>7. Embedded(Chained(k, gs), Chained(h, gs))
  BY <1>2, <1>3, <1>5, EmbeddedChains
<1> QED BY <1>1, <1>2, <1>6, <1>7

LEMMA AddedStands ==
  ASSUME NEW gs \in Seq(Groups), NEW s \in Seq(Entries), NEW c \in Tools \cup {None},
         Embedded(s, Standing(gs))
  PROVE  Embedded(s, Standing(Added(gs, c)))
<1> DEFINE g == Group("all", Bridge(c))
<1>1. g \in Groups /\ Append(gs, g) = Added(gs, c) /\ Append(gs, g) \in Seq(Groups)
  BY BridgeIs, AddedIs DEF Added
<1> HIDE DEF g
<1>2. /\ Standing(Append(gs, g)) = Chained(EntriesIn, Append(gs, g)) /\ Makes(EntriesIn, Groups, Entries)
      /\ Standing(gs) = Chained(EntriesIn, gs) /\ Standing(gs) \in Seq(Entries)
  BY <1>1, StandingIs
<1>3. Chained(EntriesIn, Append(gs, g)) = Chained(EntriesIn, gs) \o EntriesIn[g]
  <2>1. \A s2 \in Seq(Groups), x \in Groups :
            Chained(EntriesIn, Append(s2, x)) = Chained(EntriesIn, s2) \o EntriesIn[x]
    BY <1>2, ChainedAppend
  <2> QED BY <1>1, <2>1
<1>4. EntriesIn[g] \in Seq(Entries)
  BY <1>1, <1>2 DEF Makes
<1>5. Embedded(s \o <<>>, Standing(gs) \o EntriesIn[g])
  <2>1. Embedded(<<>>, EntriesIn[g]) /\ <<>> \in Seq(Entries)
    BY EmbeddedSelf, EmptySeq
  <2> QED BY <1>2, <1>4, <2>1, EmbeddedConcat
<1>6. s \o <<>> = s
  BY ConcatEmptySeq
<1> QED BY <1>1, <1>2, <1>3, <1>5, <1>6

\* Neither command loses a hook of another tool or the order of two.
LEMMA ListStands ==
  ASSUME NEW f \in ListFiles \ {Standalone}, NEW e, NEW gs \in Seq(Groups)
  PROVE  /\ Embedded(Standing(gs), Standing(InstalledList(f, e, gs)))
         /\ Embedded(Standing(gs), Standing(UninstalledList(f, e, gs)))
<1>1. Standing(gs) \in Seq(Entries) /\ Embedded(Standing(gs), Standing(gs))
  BY StandingIs, EmbeddedSelf
<1>2. \A r \in BOOLEAN : Strip(gs, r) \in Seq(Groups) /\ Embedded(Standing(gs), Standing(Strip(gs, r)))
  BY StripIs, StripStands
<1>3. Embedded(Standing(gs), Standing(Added(Strip(gs, FALSE), None)))
  BY <1>1, <1>2, AddedStands
<1>4. Embedded(Standing(gs), Standing(Merge(gs)))
  <2> DEFINE s == Strip(gs, FALSE)
             c == Requoted(Passthrough(gs))
             t == Standing(gs)
  <2>1. /\ s \in Seq(Groups) /\ c \in Tools \cup {None} /\ Merge(gs) = Added(s, c)
        /\ t \in Seq(Entries) /\ Embedded(t, Standing(s))
    BY <1>1, <1>2, MergeIs, PassthroughIs, RequotedIs
  <2> HIDE DEF s, c, t
  <2>2. Embedded(t, Standing(Added(s, c)))
    BY <2>1, AddedStands
  <2> QED BY <2>1, <2>2 DEF t
<1> QED BY <1>1, <1>2, <1>3, <1>4 DEF InstalledList, UninstalledList

-----------------------------------------------------------------------------
(* The commands that hooks were composed with. *)

\* The commands of a hook, as Commands counts them.
Of(h) == {h.cmd, h.down} \ {None, "agentperm"}

LEMMA CommandsAre ==
  ASSUME NEW gs
  PROVE  Commands(gs) = UNION {Of(h) : h \in Range(AllHooks(gs))}
<1>1. Range(AllHooks(gs)) = ToSet(AllHooks(gs))
  BY DEF Range, ToSet
<1> QED BY <1>1 DEF Commands, Of

LEMMA RangeSingle == ASSUME NEW x PROVE Range(<<x>>) = {x}
  BY DEF Range

LEMMA OfIs ==
  ASSUME NEW h \in Hooks
  PROVE  /\ h \notin Bridges => Of(h) = {h.cmd}
         /\ h \in Bridges => Of(h) = {h.down} \ {None}
<1>1. None \notin Tools /\ "agentperm" \notin Tools
  BY ToolsAssumption
<1>2. CASE h \notin Bridges
  <2>1. h.down = None /\ h.cmd \in Tools
    BY <1>2, HookIs
  <2> QED BY <1>1, <1>2, <2>1 DEF Of
<1>3. CASE h \in Bridges
  <2>1. h.cmd = "agentperm" /\ h.down \in Tools \cup {None}
    BY <1>3, HookIs
  <2> QED BY <1>1, <1>3, <2>1 DEF Of
<1> QED BY <1>2, <1>3

\* The commands of gs may only stay, or come back as their words.
Kin(C) == C \cup {Quoted[x] : x \in C}

LEMMA KinOf ==
  ASSUME NEW gs \in Seq(Groups), NEW h \in Range(AllHooks(gs))
  PROVE  Of(h) \subseteq Commands(gs) /\ Kin(Of(h)) \subseteq Kin(Commands(gs))
<1>1. Of(h) \subseteq Commands(gs)
  BY CommandsAre
<1> QED BY <1>1 DEF Kin

\* The composed hooks of a list, each with a command.
LEMMA ComposedAre ==
  ASSUME NEW gs \in Seq(Groups)
  PROVE  \A h \in Range(Composed(gs)) :
            /\ h \in Range(AllHooks(gs)) /\ h \in Hooks /\ h \in Bridges
            /\ h.down \in Tools /\ Of(h) = {h.down}
<1> SUFFICES ASSUME NEW h \in Range(Composed(gs))
             PROVE  /\ h \in Range(AllHooks(gs)) /\ h \in Hooks /\ h \in Bridges
                    /\ h.down \in Tools /\ Of(h) = {h.down}
  OBVIOUS
<1>1. h \in Range(AllHooks(gs)) /\ h \in Bridges /\ h # Bridge(None)
  BY PassthroughIs
<1>2. h \in Hooks
  BY <1>1, AllRange
<1>3. h.down \in Tools
  BY <1>1, <1>2, HookIs
<1>4. Of(h) = {h.down}
  BY <1>1, <1>2, <1>3, OfIs, ToolsAssumption
<1> QED BY <1>1, <1>2, <1>3, <1>4

\* Stripping a list with its composed hooks restored leaves the words of their commands.
LEMMA RestoredCommands ==
  ASSUME NEW gs \in Seq(Groups)
  PROVE  /\ Commands(Strip(gs, TRUE)) \subseteq Kin(Commands(gs))
         /\ \A h \in Range(Composed(gs)) : Quoted[h.down] \in Commands(Strip(gs, TRUE))
<1> DEFINE L(h) == Range(Left(h, TRUE))
           H == Range(AllHooks(gs))
           R == Range(AllHooks(Strip(gs, TRUE)))
<1>1. R = UNION {L(h) : h \in H} /\ H \subseteq Hooks
  BY StripRange, AllRange
<1>2. ASSUME NEW h \in Hooks, h \in Bridges, h.down # None
      PROVE  \E k : L(h) = {k} /\ Of(k) = {Quoted[h.down]} /\ Of(h) = {h.down}
  <2> DEFINE k == Foreign(Quoted[h.down])
  <2>1. h.down \in Tools /\ Quoted[h.down] \in Tools
    BY <1>2, HookIs, RequotedIs
  <2>2. Left(h, TRUE) = <<k>> /\ k \in Hooks \ Bridges /\ k.cmd = Quoted[h.down]
    BY <1>2, <2>1, LeftIs, ForeignIs
  <2> HIDE DEF k
  <2>3. L(h) = {k}
    BY <2>2, RangeSingle
  <2>4. Of(k) = {Quoted[h.down]} /\ Of(h) = {h.down}
    BY <1>2, <2>2, OfIs
  <2> QED BY <2>3, <2>4
<1>3. ASSUME NEW h \in Hooks, NEW k \in L(h) PROVE Of(k) \subseteq Kin(Of(h))
  <2>1. CASE h \notin Bridges
    <3>1. L(h) = {h}
      BY <2>1, LeftIs, RangeSingle
    <3> QED BY <3>1 DEF Kin
  <2>2. CASE h \in Bridges /\ h.down = None
    <3>1. L(h) = {}
      BY <2>2, LeftIs, FirstsEmpty
    <3> QED BY <3>1
  <2>3. CASE h \in Bridges /\ h.down # None
    <3>1. Of(k) = {Quoted[h.down]} /\ Of(h) = {h.down}
      BY <1>2, <2>3
    <3> QED BY <3>1 DEF Kin
  <2> QED BY <2>1, <2>2, <2>3
<1>4. Commands(Strip(gs, TRUE)) = UNION {Of(k) : k \in R}
  BY CommandsAre
<1>5. ASSUME NEW k \in R PROVE Of(k) \subseteq Kin(Commands(gs))
  <2>1. PICK h \in H : k \in L(h)
    BY <1>1
  <2>2. Of(k) \subseteq Kin(Of(h))
    BY <1>1, <1>3, <2>1
  <2> QED BY <2>2, KinOf
<1>6. ASSUME NEW h \in Range(Composed(gs)) PROVE Quoted[h.down] \in UNION {Of(k) : k \in R}
  <2>1. h \in H /\ h \in Hooks /\ h \in Bridges /\ h.down # None
    BY ComposedAre, ToolsAssumption
  <2>2. PICK k : L(h) = {k} /\ Of(k) = {Quoted[h.down]}
    BY <1>2, <2>1
  <2>3. k \in R
    BY <1>1, <2>1, <2>2
  <2> QED BY <2>2, <2>3
<1> QED BY <1>4, <1>5, <1>6

\* Stripping it without leaves the hooks of other tools.
LEMMA DroppedRange ==
  ASSUME NEW gs \in Seq(Groups)
  PROVE  /\ Range(AllHooks(Strip(gs, FALSE))) = Range(AllHooks(gs)) \ Bridges
         /\ Commands(Strip(gs, FALSE)) \subseteq Commands(gs)
<1> DEFINE L(h) == Range(Left(h, FALSE))
           H == Range(AllHooks(gs))
           R == Range(AllHooks(Strip(gs, FALSE)))
<1>1. R = UNION {L(h) : h \in H} /\ H \subseteq Hooks
  BY StripRange, AllRange
<1>2. ASSUME NEW h \in H PROVE L(h) = {h} \ Bridges
  <2>1. h \in Hooks
    BY <1>1
  <2>2. CASE h \notin Bridges
    <3>1. L(h) = {h}
      BY <2>1, <2>2, LeftIs, RangeSingle
    <3> QED BY <2>2, <3>1
  <2>3. CASE h \in Bridges
    <3>1. L(h) = {}
      BY <2>1, <2>3, LeftIs, FirstsEmpty
    <3> QED BY <2>3, <3>1
  <2> QED BY <2>2, <2>3
<1>3. Commands(gs) = UNION {Of(h) : h \in H}
  BY CommandsAre
<1>4. Commands(Strip(gs, FALSE)) = UNION {Of(h) : h \in R}
  BY CommandsAre
<1> HIDE DEF L, H, R
<1>5. R = H \ Bridges
  BY <1>1, <1>2
<1>6. Commands(Strip(gs, FALSE)) \subseteq Commands(gs)
  BY <1>3, <1>4, <1>5
<1> QED BY <1>5, <1>6 DEF H, R

LEMMA AddedCommands ==
  ASSUME NEW gs \in Seq(Groups), NEW c \in Tools \cup {None}
  PROVE  Commands(Added(gs, c)) = Commands(gs) \cup ({c} \ {None})
<1> DEFINE b == Bridge(c)
           q == AllHooks(gs)
<1>1. q \in Seq(Hooks) /\ AllHooks(Added(gs, c)) = q \o <<b>>
  BY AllHooksIs, AddedIs
<1>2. b \in Hooks /\ Of(b) = {c} \ {None}
  BY BridgeIs, OfIs
<1>3. Commands(gs) = UNION {Of(h) : h \in Range(q)}
  BY CommandsAre
<1>4. Commands(Added(gs, c)) = UNION {Of(h) : h \in Range(AllHooks(Added(gs, c)))}
  BY CommandsAre
<1> HIDE DEF b, q
<1>5. Range(Append(q, b)) = Range(q) \cup {b} /\ Append(q, b) = q \o <<b>>
  BY <1>1, <1>2, RangeAppend, AppendIsConcat
<1>6. Commands(Added(gs, c)) = UNION {Of(h) : h \in Range(q) \cup {b}}
  BY <1>1, <1>4, <1>5
<1> QED BY <1>2, <1>3, <1>6

\* A merged list passes on the words of the first command it was composed with.
LEMMA MergedCommands ==
  ASSUME NEW gs \in Seq(Groups)
  PROVE  /\ Commands(Merge(gs)) \subseteq Kin(Commands(gs))
         /\ Composed(gs) # <<>> => Quoted[Composed(gs)[1].down] \in Commands(Merge(gs))
<1> DEFINE c == Requoted(Passthrough(gs))
           s == Strip(gs, FALSE)
<1>1. s \in Seq(Groups) /\ c \in Tools \cup {None} /\ Merge(gs) = Added(s, c)
  BY StripIs, MergeIs, PassthroughIs, RequotedIs
<1>2. Commands(s) \subseteq Commands(gs)
  BY DroppedRange
<1>3. CASE Composed(gs) = <<>>
  <2>1. c = None
    BY <1>3, PassthroughIs, RequotedIs
  <2> HIDE DEF c, s
  <2>2. Commands(Merge(gs)) = Commands(s) \cup ({c} \ {None})
    BY <1>1, AddedCommands
  <2> QED BY <1>2, <1>3, <2>1, <2>2 DEF Kin
<1>4. CASE Composed(gs) # <<>>
  <2> DEFINE b == Head(Composed(gs))
  <2>1. b \in Range(Composed(gs)) /\ Passthrough(gs) = b.down /\ b = Composed(gs)[1]
    BY <1>4, PassthroughIs
  <2> HIDE DEF b
  <2>2. b \in Range(AllHooks(gs)) /\ b.down \in Tools /\ Of(b) = {b.down}
    BY <2>1, ComposedAre
  <2>3. c = Quoted[b.down] /\ c # None
    BY <2>1, <2>2, RequotedIs, ToolsAssumption
  <2>4. b.down \in Commands(gs)
    BY <2>2, KinOf
  <2>5. c \in Kin(Commands(gs))
    BY <2>3, <2>4 DEF Kin
  <2> HIDE DEF c, s
  <2>6. Commands(Merge(gs)) = Commands(s) \cup ({c} \ {None})
    BY <1>1, AddedCommands
  <2>7. Commands(gs) \subseteq Kin(Commands(gs))
    BY DEF Kin
  <2> QED BY <1>2, <2>1, <2>3, <2>5, <2>6, <2>7
<1> QED BY <1>3, <1>4

\* What either command makes of a list: which commands may be there, and which must.
Stays(h, C) == {h.down, Quoted[h.down]} \cap C # {}

LEMMA InstalledCommands ==
  ASSUME NEW f \in ListFiles \ {Standalone}, NEW e, NEW gs \in Seq(Groups)
  PROVE  /\ Commands(InstalledList(f, e, gs)) \subseteq Kin(Commands(gs))
         /\ f \notin AgentFiles =>
              \A i \in DOMAIN Composed(gs) : (e \in Adds(Owner(f)) => i = 1) =>
                  Stays(Composed(gs)[i], Commands(InstalledList(f, e, gs)))
<1> DEFINE new == InstalledList(f, e, gs)
           composed == Composed(gs)
<1>0. /\ composed \in Seq(Hooks) /\ Range(composed) = {composed[i] : i \in DOMAIN composed}
      /\ Commands(gs) \subseteq Kin(Commands(gs)) /\ Adds(Owner(f)) \cap Strips(Owner(f)) = {}
  BY PassthroughIs, HandledIs DEF Kin, Range
<1>1. CASE e \in Strips(Owner(f))
  <2>1. new = Strip(gs, TRUE)
    BY <1>1 DEF InstalledList
  <2>2. /\ Commands(new) \subseteq Kin(Commands(gs))
        /\ \A h \in Range(composed) : Quoted[h.down] \in Commands(new)
    BY <2>1, RestoredCommands
  <2> HIDE DEF new, composed
  <2> QED BY <1>0, <2>2 DEF Stays, new, composed
<1>2. CASE e \notin Strips(Owner(f)) /\ e \notin Adds(Owner(f))
  <2>1. new = gs
    BY <1>2 DEF InstalledList
  <2>2. \A h \in Range(composed) : h.down \in Commands(gs)
    BY ComposedAre, KinOf
  <2> HIDE DEF new, composed
  <2> QED BY <1>0, <2>1, <2>2 DEF Stays, new, composed
<1>3. CASE e \notin Strips(Owner(f)) /\ e \in Adds(Owner(f)) /\ f \in AgentFiles
  <2>1. new = Added(Strip(gs, FALSE), None) /\ Strip(gs, FALSE) \in Seq(Groups)
    BY <1>3, StripIs DEF InstalledList
  <2> DEFINE s == Strip(gs, FALSE)
  <2> HIDE DEF s
  <2>2. Commands(Added(s, None)) = Commands(s) \cup ({None} \ {None})
    <3>1. s \in Seq(Groups)
      BY <2>1 DEF s
    <3> QED BY <3>1, AddedCommands
  <2>3. Commands(new) = Commands(s) /\ Commands(s) \subseteq Commands(gs)
    BY <2>1, <2>2, DroppedRange DEF s
  <2> HIDE DEF new, composed
  <2> QED BY <1>0, <1>3, <2>3 DEF new
<1>4. CASE e \notin Strips(Owner(f)) /\ e \in Adds(Owner(f)) /\ f \notin AgentFiles
  <2>1. new = Merge(gs)
    BY <1>4 DEF InstalledList
  <2>2. /\ Commands(new) \subseteq Kin(Commands(gs))
        /\ composed # <<>> => Quoted[composed[1].down] \in Commands(new)
    BY <2>1, MergedCommands
  <2>3. DOMAIN composed # {} => composed # <<>>
    BY <1>0, EmptySeq
  <2> HIDE DEF new, composed
  <2> QED BY <1>4, <2>2, <2>3 DEF Stays, new, composed
<1> QED BY <1>1, <1>2, <1>3, <1>4

LEMMA UninstalledCommands ==
  ASSUME NEW f \in ListFiles \ {Standalone}, NEW e, NEW gs \in Seq(Groups)
  PROVE  /\ Commands(UninstalledList(f, e, gs)) \subseteq Kin(Commands(gs))
         /\ f \notin AgentFiles =>
              \A i \in DOMAIN Composed(gs) :
                  Stays(Composed(gs)[i], Commands(UninstalledList(f, e, gs)))
<1> DEFINE new == UninstalledList(f, e, gs)
           composed == Composed(gs)
<1>0. /\ Range(composed) = {composed[i] : i \in DOMAIN composed}
      /\ Commands(gs) \subseteq Kin(Commands(gs))
  BY DEF Kin, Range
<1>1. CASE e \notin Handled(f)
  <2>1. new = gs
    BY <1>1 DEF UninstalledList
  <2>2. \A h \in Range(composed) : h.down \in Commands(gs)
    BY ComposedAre, KinOf
  <2> HIDE DEF new, composed
  <2> QED BY <1>0, <2>1, <2>2 DEF Stays, new, composed
<1>2. CASE e \in Handled(f) /\ f \in AgentFiles
  <2>1. new = Strip(gs, FALSE)
    BY <1>2 DEF UninstalledList
  <2> HIDE DEF new, composed
  <2> QED BY <1>0, <1>2, <2>1, DroppedRange DEF new
<1>3. CASE e \in Handled(f) /\ f \notin AgentFiles
  <2>1. new = Strip(gs, TRUE)
    BY <1>3 DEF UninstalledList
  <2>2. /\ Commands(new) \subseteq Kin(Commands(gs))
        /\ \A h \in Range(composed) : Quoted[h.down] \in Commands(new)
    BY <2>1, RestoredCommands
  <2> HIDE DEF new, composed
  <2> QED BY <1>0, <2>2 DEF Stays, new, composed
<1> QED BY <1>1, <1>2, <1>3

\* Neither command loses, changes or reorders a hook of another tool in a file it merges
\* into; a command composed with one stays, or comes back as its quoted words, and none
\* appears (HookInstall.OthersKept; adapters/base.py merge_nested_hooks,
\* strip_nested_hooks).
THEOREM OthersAreKept == Spec => OthersKept
<1>1. ASSUME Inv, RewriteList, NEW f, f = Current.file, f # Standalone, NEW e \in Events
      PROVE  LET before == Commands(hooks[f][e])
                 after == Commands(hooks'[f][e])
             IN  /\ Embedded(Standing(hooks[f][e]), Standing(hooks'[f][e]))
                 /\ after \subseteq before \cup {Quoted[c] : c \in before}
                 /\ f \notin AgentFiles =>
                     \A h \in Carried(f, e) : {h.down, Quoted[h.down]} \cap after # {}
  <2> DEFINE gs == hooks[f][e]
             new == hooks'[f][e]
             composed == Composed(gs)
  <2>1. f \in ListFiles \ {Standalone} /\ hooks \in FileLists
    BY <1>1 DEF RewriteList, Inv, Typed
  <2>2. hooks[f] \in EventLists /\ gs \in Seq(Groups)
    BY <2>1 DEF FileLists, EventLists
  <2>3. hooks'[f] = IF job.name = "install" THEN Installed(f, hooks[f]) ELSE Uninstalled(f, hooks[f])
    BY <1>1, <2>1 DEF RewriteList, FileLists
  <2>4. /\ Installed(f, hooks[f]) = [d \in Events |-> InstalledList(f, d, hooks[f][d])]
        /\ Uninstalled(f, hooks[f]) = [d \in Events |-> UninstalledList(f, d, hooks[f][d])]
    BY <2>1, <2>2, InstalledIs, UninstalledIs
  <2>5. f \notin AgentFiles => f[2] = Owner(f)
    BY <2>1 DEF Owner
  <2>6. Carried(f, e) = {composed[i] : i \in
            {i \in DOMAIN composed : job.name = "install" /\ e \in Adds(f[2]) => i = 1}}
    BY DEF Carried
  <2>7. CASE job.name = "install"
    <3>1. new = InstalledList(f, e, gs)
      BY <2>3, <2>4, <2>7
    <3>2. Embedded(Standing(gs), Standing(InstalledList(f, e, gs)))
      BY <2>1, <2>2, ListStands
    <3>3. /\ Commands(InstalledList(f, e, gs)) \subseteq Kin(Commands(gs))
          /\ f \notin AgentFiles =>
               \A i \in DOMAIN composed : (e \in Adds(Owner(f)) => i = 1) =>
                   Stays(composed[i], Commands(InstalledList(f, e, gs)))
      BY <2>1, <2>2, InstalledCommands
    <3> HIDE DEF gs, new, composed
    <3> QED BY <2>5, <2>6, <2>7, <3>1, <3>2, <3>3 DEF Kin, Stays, gs, new
  <2>8. CASE job.name # "install"
    <3>1. new = UninstalledList(f, e, gs)
      BY <2>3, <2>4, <2>8
    <3>2. Embedded(Standing(gs), Standing(UninstalledList(f, e, gs)))
      BY <2>1, <2>2, ListStands
    <3>3. /\ Commands(UninstalledList(f, e, gs)) \subseteq Kin(Commands(gs))
          /\ f \notin AgentFiles =>
               \A i \in DOMAIN composed : Stays(composed[i], Commands(UninstalledList(f, e, gs)))
      BY <2>1, <2>2, UninstalledCommands
    <3> HIDE DEF gs, new, composed
    <3> QED BY <2>6, <3>1, <3>2, <3>3 DEF Kin, Stays, gs, new
  <2> QED BY <2>7, <2>8
<1>2. Inv /\ [Next]_vars =>
        [RewriteList =>
          LET f == Current.file IN
          f # Standalone =>
          \A e \in Events :
            LET before == Commands(hooks[f][e])
                after == Commands(hooks'[f][e])
            IN  /\ Embedded(Standing(hooks[f][e]), Standing(hooks'[f][e]))
                /\ after \subseteq before \cup {Quoted[c] : c \in before}
                /\ f \notin AgentFiles =>
                    \A h \in Carried(f, e) : {h.down, Quoted[h.down]} \cap after # {}]_vars
  BY <1>1
<1> QED BY <1>2, Invariant, PTL DEF Spec, OthersKept
=============================================================================
