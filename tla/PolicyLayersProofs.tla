------------------------- MODULE PolicyLayersProofs -------------------------
(* Theorems about the loading of policy documents, for any include graph. *)
EXTENDS PolicyLayers, DataFacts

Frame == [doc : Documents, todo : SUBSET Documents]
LoadType ==
    /\ DOMAIN disk \subseteq Documents
    /\ \A d \in DOMAIN disk : disk[d] \in Contents
    /\ home \in Documents \cup {None}
    /\ stack \in Seq(Frame)
    /\ sources \in Seq(Documents)
    /\ loaded = {sources[i] : i \in 1..Len(sources)}

\* The document below another one on the stack is waiting for that one.
Awaited(i) == IF i < Len(stack) THEN {stack[i + 1].doc} ELSE {}
\* A document on the stack has been read, is there once, is not loaded yet, and
\* what it includes is loaded, still to visit, or the next one on the stack.
FrameAt(i) ==
    /\ stack[i].doc \in DOMAIN disk \ loaded
    /\ \A j \in 1..(i - 1) : stack[j].doc # stack[i].doc
    /\ stack[i].todo \subseteq disk[stack[i].doc].include
    /\ disk[stack[i].doc].include \subseteq stack[i].todo \cup loaded \cup Awaited(i)
LoadInv ==
    /\ LoadType
    /\ loaded \subseteq DOMAIN disk
    /\ Walking => \A i \in 1..Len(stack) : FrameAt(i)
    /\ IncludesFirst

\* Reading one more document changes none that was read.
LEMMA ReadDisk ==
  ASSUME LoadType, NEW d \in Documents, Read(d)
  PROVE  /\ DOMAIN disk' = DOMAIN disk \cup {d} /\ DOMAIN disk' \subseteq Documents
         /\ \A x \in DOMAIN disk : disk'[x] = disk[x]
         /\ \A x \in DOMAIN disk' : disk'[x] \in Contents /\ disk'[x].include \subseteq Documents
<1>1. CASE d \in DOMAIN disk
  BY <1>1, ContentsAssumption DEF Read, LoadType
<1>2. CASE d \notin DOMAIN disk
  <2>1. PICK c \in Contents :
            disk' = [x \in DOMAIN disk \cup {d} |-> IF x = d THEN c ELSE disk[x]]
    BY <1>2 DEF Read
  <2> QED BY <1>2, <2>1, ContentsAssumption DEF LoadType
<1> QED BY <1>1, <1>2

\* The top of the stack with one include less is the stack otherwise unchanged.
LEMMA AdvancedStack ==
  ASSUME LoadType, stack # <<>>, NEW d
  PROVE  /\ Len(stack) \in Nat \ {0}
         /\ Advanced(d) \in Seq(Frame) /\ Len(Advanced(d)) = Len(stack)
         /\ \A i \in 1..Len(stack) : Advanced(d)[i].doc = stack[i].doc
         /\ \A i \in 1..(Len(stack) - 1) : Advanced(d)[i] = stack[i]
         /\ Advanced(d)[Len(stack)].todo = stack[Len(stack)].todo \ {d}
<1>1. Len(stack) \in Nat \ {0} /\ stack[Len(stack)] \in Frame
  BY DEF LoadType
<1>2. [stack[Len(stack)] EXCEPT !.todo = @ \ {d}] \in Frame
  BY <1>1 DEF Frame
<1>3. Advanced(d) = [stack EXCEPT ![Len(stack)] = [stack[Len(stack)] EXCEPT !.todo = @ \ {d}]]
  BY DEF Advanced
<1> QED BY <1>1, <1>2, <1>3 DEF LoadType, Frame

\* The invariant holds at first, and every action keeps it.
LEMMA InitLoadInv == Init => LoadInv
BY DEF Init, LoadInv, LoadType, IncludesFirst

\* Applied documents stay in order while more are read.
LEMMA KeepsIncludesFirst ==
  ASSUME LoadInv, UNCHANGED sources, \A x \in DOMAIN disk : disk'[x] = disk[x]
  PROVE  IncludesFirst'
<1>1. ASSUME NEW i \in DOMAIN sources PROVE disk'[sources[i]] = disk[sources[i]]
  BY DEF LoadInv, LoadType
<1> QED BY <1>1 DEF LoadInv, IncludesFirst

LEMMA VisitDirectoryLoadInv == LoadInv /\ VisitDirectory => LoadInv'
<1> SUFFICES ASSUME LoadInv, VisitDirectory PROVE LoadInv'
  OBVIOUS
<1> USE DEF LoadInv
<1>1. PICK d \in Documents \cup {None} :
          IF d = None \/ d \in Range(at)
          THEN UNCHANGED <<disk, stack, loaded, sources, outcome>>
          ELSE Enter(d, <<>>) /\ NewRoot
  BY DEF VisitDirectory, LoadType
<1>2. UNCHANGED home
  BY DEF VisitDirectory
<1>3. CASE UNCHANGED <<disk, stack, loaded, sources, outcome>>
  BY <1>2, <1>3 DEF LoadType, IncludesFirst, FrameAt, Awaited, Walking
<1>4. CASE d \in Documents /\ Enter(d, <<>>) /\ NewRoot
  <2>1. /\ DOMAIN disk' = DOMAIN disk \cup {d} /\ DOMAIN disk' \subseteq Documents
        /\ \A x \in DOMAIN disk' : disk'[x] \in Contents /\ disk'[x].include \subseteq Documents
    BY <1>4, ReadDisk DEF Enter
  <2>2. sources' = <<>> /\ loaded' = {}
    BY <1>4 DEF NewRoot
  <2>3. CASE stack' = <<>>
    BY <1>2, <2>1, <2>2, <2>3 DEF LoadType, IncludesFirst
  <2>4. CASE stack' = <<[doc |-> d, todo |-> disk'[d].include]>>
    <3>1. stack' \in Seq(Frame) /\ Len(stack') = 1
      BY <1>4, <2>1, <2>4 DEF Frame
    <3>2. FrameAt(1)'
      BY <2>1, <2>2, <2>4, <3>1 DEF FrameAt, Awaited
    <3> QED BY <1>2, <2>1, <2>2, <3>1, <3>2 DEF LoadType, IncludesFirst
  <2> QED BY <1>4, <2>3, <2>4 DEF Enter
<1> QED BY <1>1, <1>3, <1>4

LEMMA VisitIncludeLoadInv == LoadInv /\ VisitInclude => LoadInv'
<1> SUFFICES ASSUME LoadInv, VisitInclude PROVE LoadInv'
  OBVIOUS
<1> USE DEF LoadInv
<1> DEFINE n == Len(stack)
<1>1. PICK d \in Top.todo \ (Active \cup loaded) : Enter(d, Advanced(d))
  BY DEF VisitInclude
<1>2. UNCHANGED <<home, loaded, sources>> /\ Walking /\ stack # <<>>
  BY DEF VisitInclude
<1>3. n \in Nat \ {0} /\ stack \in Seq(Frame) /\ stack[n] \in Frame /\ Top = stack[n]
  BY <1>2 DEF LoadType, Top, Last
<1>4. d \in Documents /\ d \in stack[n].todo /\ d \notin loaded
  BY <1>1, <1>3 DEF Frame
<1>5. \A i \in 1..n : stack[i].doc # d
  BY <1>1, <1>3 DEF Active
<1>6. /\ DOMAIN disk' = DOMAIN disk \cup {d} /\ DOMAIN disk' \subseteq Documents
      /\ \A x \in DOMAIN disk : disk'[x] = disk[x]
      /\ \A x \in DOMAIN disk' : disk'[x] \in Contents /\ disk'[x].include \subseteq Documents
  BY <1>1, <1>4, ReadDisk DEF Enter
<1>7. IncludesFirst'
  BY <1>2, <1>6, KeepsIncludesFirst
<1>8. CASE stack' = Advanced(d) /\ ~Walking'
  BY <1>2, <1>6, <1>7, <1>8, AdvancedStack DEF LoadType
<1>9. CASE stack' = Append(Advanced(d), [doc |-> d, todo |-> disk'[d].include])
  <2>1. [doc |-> d, todo |-> disk'[d].include] \in Frame
    BY <1>4, <1>6 DEF Frame
  <2>2. Advanced(d) \in Seq(Frame) /\ Len(Advanced(d)) = n
    BY <1>2, AdvancedStack
  <2>3. /\ stack' \in Seq(Frame) /\ Len(stack') = n + 1
        /\ stack'[n + 1] = [doc |-> d, todo |-> disk'[d].include]
        /\ \A i \in 1..n : stack'[i] = Advanced(d)[i]
    BY <1>3, <1>9, <2>1, <2>2
  <2>4. \A i \in 1..n : stack'[i].doc = stack[i].doc
    BY <1>2, <2>3, AdvancedStack
  <2>5. \A i \in 1..(n - 1) : stack'[i] = stack[i]
    BY <1>2, <1>3, <2>3, AdvancedStack
  <2>6. stack'[n].todo = stack[n].todo \ {d}
    BY <1>2, <1>3, <2>3, AdvancedStack
  <2>7. ASSUME NEW i \in 1..(n + 1) PROVE FrameAt(i)'
    <3>1. CASE i \in 1..(n - 1)
      <4>1. FrameAt(i)
        BY <1>2, <1>3, <3>1
      <4>2. Awaited(i)' = Awaited(i)
        <5>1. i + 1 \in 1..n /\ i < Len(stack) /\ i < Len(stack')
          BY <1>3, <2>3, <3>1
        <5>2. stack'[i + 1].doc = stack[i + 1].doc
          BY <2>4, <5>1
        <5> QED BY <5>1, <5>2 DEF Awaited
      <4>3. \A j \in 1..(i - 1) : stack'[j].doc # stack'[i].doc
        BY <1>3, <2>4, <3>1, <4>1 DEF FrameAt
      <4> QED BY <1>2, <1>6, <2>5, <3>1, <4>1, <4>2, <4>3 DEF FrameAt
    <3>2. CASE i = n
      <4>1. FrameAt(n)
        BY <1>2, <1>3
      <4>2. Awaited(n) = {} /\ Awaited(i)' = {d}
        <5>1. ~(n < Len(stack)) /\ i < Len(stack') /\ stack'[i + 1].doc = d
          BY <1>3, <2>3, <3>2
        <5> QED BY <5>1 DEF Awaited
      <4>3. \A j \in 1..(n - 1) : stack'[j].doc # stack'[n].doc
        BY <1>3, <2>4, <4>1 DEF FrameAt
      <4>4. stack'[n].doc = stack[n].doc /\ stack[n].doc \in DOMAIN disk
        BY <1>3, <2>4, <4>1 DEF FrameAt
      <4>5. stack[n].doc \in DOMAIN disk' \ loaded' /\ disk'[stack[n].doc] = disk[stack[n].doc]
        BY <1>2, <1>6, <4>1, <4>4 DEF FrameAt
      <4>6. /\ stack'[n].todo \subseteq disk'[stack[n].doc].include
            /\ disk'[stack[n].doc].include \subseteq stack'[n].todo \cup loaded' \cup Awaited(i)'
        BY <1>2, <2>6, <4>1, <4>2, <4>5 DEF FrameAt
      <4> QED BY <3>2, <4>3, <4>4, <4>5, <4>6 DEF FrameAt
    <3>3. CASE i = n + 1
      <4>1. \A j \in 1..((n + 1) - 1) : stack'[j].doc # stack'[n + 1].doc
        BY <1>3, <1>5, <2>3, <2>4
      <4>2. stack'[n + 1].doc = d /\ stack'[n + 1].todo = disk'[d].include
        BY <2>3
      <4> QED BY <1>2, <1>4, <1>6, <3>3, <4>1, <4>2 DEF FrameAt
    <3> QED BY <1>3, <3>1, <3>2, <3>3
  <2> QED BY <1>2, <1>6, <1>7, <2>3, <2>7 DEF LoadType
<1> QED BY <1>1, <1>8, <1>9 DEF Enter, Walking

LEMMA SkipLoadedLoadInv == LoadInv /\ SkipLoaded => LoadInv'
<1> SUFFICES ASSUME LoadInv, SkipLoaded PROVE LoadInv'
  OBVIOUS
<1> USE DEF LoadInv
<1> DEFINE n == Len(stack)
<1>1. PICK d \in loaded : stack' = Advanced(d)
  BY DEF SkipLoaded
<1>2. UNCHANGED <<disk, home, loaded, sources, outcome>> /\ Walking /\ stack # <<>>
  BY DEF SkipLoaded
<1>3. n \in Nat \ {0} /\ stack' \in Seq(Frame) /\ Len(stack') = n
  BY <1>1, <1>2, AdvancedStack
<1>4. \A i \in 1..n : stack'[i].doc = stack[i].doc
  BY <1>1, <1>2, AdvancedStack
<1>5. \A i \in 1..n : stack[i].todo \ {d} \subseteq stack'[i].todo
                      /\ stack'[i].todo \subseteq stack[i].todo
  <2>1. \A i \in 1..(n - 1) : stack'[i] = stack[i]
    BY <1>1, <1>2, AdvancedStack
  <2>2. stack'[n].todo = stack[n].todo \ {d}
    BY <1>1, <1>2, AdvancedStack
  <2> QED BY <1>3, <2>1, <2>2
<1>6. ASSUME NEW i \in 1..n PROVE FrameAt(i)'
  <2>1. FrameAt(i)
    BY <1>2
  <2>2. Awaited(i)' = Awaited(i)
    <3>1. i < n => i + 1 \in 1..n
      BY <1>3
    <3>2. i < n => stack'[i + 1].doc = stack[i + 1].doc
      BY <1>4, <3>1
    <3> QED BY <1>3, <3>2 DEF Awaited
  <2>3. \A j \in 1..(i - 1) : stack'[j].doc # stack'[i].doc
    BY <1>3, <1>4, <2>1 DEF FrameAt
  <2> QED BY <1>1, <1>2, <1>4, <1>5, <2>1, <2>2, <2>3 DEF FrameAt
<1>7. IncludesFirst'
  BY <1>2, KeepsIncludesFirst
<1> QED BY <1>2, <1>3, <1>6, <1>7 DEF LoadType

\* The front of a sequence is the sequence without its last element.
LEMMA FrontProperties ==
  ASSUME NEW S, NEW s \in Seq(S), Len(s) \in Nat \ {0}
  PROVE  /\ Front(s) \in Seq(S) /\ Len(Front(s)) = Len(s) - 1
         /\ \A i \in 1..(Len(s) - 1) : Front(s)[i] = s[i]
<1>1. Front(s) = SubSeq(s, 1, Len(s) - 1)
  BY DEF Front
<1>2. PICK k \in Nat : Len(s) = k + 1
  OBVIOUS
<1>3. Front(s) = SubSeq(s, 1, k)
  BY <1>1, <1>2
<1>4. \A i \in 1..k : s[i] \in S
  BY <1>2
<1>5. /\ SubSeq(s, 1, k) \in Seq(S)
      /\ Len(SubSeq(s, 1, k)) = IF 1 <= k THEN k - 1 + 1 ELSE 0
      /\ \A i \in 1..(k - 1 + 1) : SubSeq(s, 1, k)[i] = s[1 + i - 1]
  BY <1>4, SubSeqProperties
<1>6. (IF 1 <= k THEN k - 1 + 1 ELSE 0) = k /\ k - 1 + 1 = k /\ Len(s) - 1 = k
  BY <1>2
<1>7. ASSUME NEW i \in 1..k PROVE SubSeq(s, 1, k)[i] = s[i]
  <2>1. 1 + i - 1 = i /\ i \in 1..(k - 1 + 1)
    BY <1>6
  <2> QED BY <1>5, <2>1
<1> QED BY <1>3, <1>5, <1>6, <1>7

\* Where IncludesFirst comes from: what the document includes is loaded by now.
LEMMA LeaveDocumentLoadInv == LoadInv /\ LeaveDocument => LoadInv'
<1> SUFFICES ASSUME LoadInv, LeaveDocument PROVE LoadInv'
  OBVIOUS
<1> USE DEF LoadInv
<1> DEFINE n == Len(stack)
           m == Len(sources)
           d == stack[n].doc
<1>1. /\ UNCHANGED <<disk, home, outcome>> /\ Walking /\ stack # <<>> /\ Top.todo = {}
      /\ stack' = Front(stack) /\ loaded' = Marked /\ sources' = Append(sources, Top.doc)
  BY DEF LeaveDocument
<1>2. n \in Nat \ {0} /\ stack \in Seq(Frame) /\ stack[n] \in Frame /\ Top = stack[n]
  BY <1>1 DEF LoadType, Top, Last
<1>3. d \in Documents /\ stack[n].todo = {} /\ FrameAt(n) /\ Awaited(n) = {}
  BY <1>1, <1>2 DEF Frame, Awaited
<1>4. d \in DOMAIN disk \ loaded /\ disk[d].include \subseteq loaded
  BY <1>3 DEF FrameAt
<1>5. loaded' = loaded \cup {d} /\ sources' = Append(sources, d)
  BY <1>1, <1>2 DEF Marked
<1>6. /\ sources' \in Seq(Documents) /\ Len(sources') = m + 1 /\ m \in Nat
      /\ sources'[m + 1] = d /\ \A i \in 1..m : sources'[i] = sources[i]
  BY <1>3, <1>5 DEF LoadType
<1>7. loaded' = {sources'[i] : i \in 1..(m + 1)}
  <2>1. loaded = {sources[i] : i \in 1..m}
    BY DEF LoadType
  <2> QED BY <1>5, <1>6, <2>1
<1>8. /\ stack' \in Seq(Frame) /\ Len(stack') = n - 1
      /\ \A i \in 1..(n - 1) : stack'[i] = stack[i]
  BY <1>1, <1>2, FrontProperties
<1>9. ASSUME NEW i \in 1..(n - 1) PROVE FrameAt(i)'
  <2>1. FrameAt(i) /\ stack'[i] = stack[i] /\ i \in 1..n
    BY <1>1, <1>2, <1>8
  <2>2. stack[i].doc # d
    BY <1>2, <1>3 DEF FrameAt
  <2>3. Awaited(i) \subseteq Awaited(i)' \cup {d}
    <3>1. i < Len(stack) /\ (i = n - 1 \/ i + 1 \in 1..(n - 1))
      BY <1>2
    <3>2. CASE i = n - 1
      BY <1>2, <3>1, <3>2 DEF Awaited
    <3>3. CASE i + 1 \in 1..(n - 1)
      <4>1. i < Len(stack') /\ stack'[i + 1] = stack[i + 1]
        BY <1>2, <1>8, <3>3
      <4> QED BY <3>1, <4>1 DEF Awaited
    <3> QED BY <3>1, <3>2, <3>3
  <2>4. \A j \in 1..(i - 1) : stack'[j].doc # stack'[i].doc
    BY <1>2, <1>8, <2>1 DEF FrameAt
  <2> QED BY <1>1, <1>5, <2>1, <2>2, <2>3, <2>4 DEF FrameAt
<1>10. IncludesFirst'
  <2>1. ASSUME NEW i \in 1..(m + 1)
        PROVE  /\ disk[sources'[i]].include \subseteq {sources'[j] : j \in 1..(i - 1)}
               /\ \A j \in 1..(i - 1) : sources'[j] # sources'[i]
    <3>1. CASE i \in 1..m
      <4>1. /\ disk[sources[i]].include \subseteq {sources[j] : j \in 1..(i - 1)}
            /\ \A j \in 1..(i - 1) : sources[j] # sources[i]
        BY <3>1 DEF IncludesFirst, LoadType
      <4>2. \A j \in 1..(i - 1) : sources'[j] = sources[j]
        BY <1>6, <3>1
      <4> QED BY <1>6, <3>1, <4>1, <4>2
    <3>2. CASE i = m + 1
      <4>1. loaded = {sources'[j] : j \in 1..m}
        BY <1>6 DEF LoadType
      <4>2. \A j \in 1..m : sources'[j] # d
        BY <1>4, <4>1
      <4> QED BY <1>4, <1>6, <3>2, <4>1, <4>2
    <3> QED BY <1>6, <3>1, <3>2
  <2>2. DOMAIN sources' = 1..(m + 1)
    BY <1>6
  <2> QED BY <1>1, <2>1, <2>2 DEF IncludesFirst
<1>11. loaded' \subseteq DOMAIN disk'
  BY <1>1, <1>4, <1>5
<1> QED BY <1>1, <1>6, <1>7, <1>8, <1>9, <1>10, <1>11 DEF LoadType

LEMMA NextLoadInv == LoadInv /\ [Next]_vars => LoadInv'
<1> SUFFICES ASSUME LoadInv, [Next]_vars PROVE LoadInv'
  OBVIOUS
<1>1. CASE RefuseCycle
  BY <1>1 DEF RefuseCycle, walk, LoadInv, LoadType, IncludesFirst, Walking
<1>2. CASE FinishWalk
  <2>1. CASE UNCHANGED walk
    BY <1>2, <2>1 DEF FinishWalk, walk, LoadInv, LoadType, IncludesFirst, FrameAt, Awaited,
      Walking
  <2>2. CASE stack' = <<>> /\ loaded' = {} /\ sources' = <<>>
    BY <1>2, <2>2 DEF FinishWalk, LoadInv, LoadType, IncludesFirst
  <2> QED BY <1>2, <2>1, <2>2 DEF FinishWalk
<1>3. CASE UNCHANGED vars
  BY <1>3 DEF vars, walk, LoadInv, LoadType, IncludesFirst, FrameAt, Awaited, Walking
<1> QED BY <1>1, <1>2, <1>3, VisitDirectoryLoadInv, VisitIncludeLoadInv, SkipLoadedLoadInv,
     LeaveDocumentLoadInv DEF Next

\* Whatever the documents include, an including document is applied after all it
\* includes, and each document of a root once (_load_policy_sources).
THEOREM IncludesApplied == Spec => []IncludesFirst
<1>1. LoadInv => IncludesFirst
  BY DEF LoadInv
<1> QED BY <1>1, InitLoadInv, NextLoadInv, PTL DEF Spec

-----------------------------------------------------------------------------
(* A refusal has a cause, and a verdict is reached only where there is none. *)

Bad(d) == d \in DOMAIN disk /\ (~disk[d].ok \/ OnCycle(d))
\* Documents that were read and are fine, with all they include.
Sound(docs) ==
    \A d \in docs : disk[d].include \subseteq docs /\ disk[d].ok /\ ~OnCycle(d)
Settled(d) == \E docs \in SUBSET DOMAIN disk : d \in docs /\ Sound(docs)
Fine == {d \in DOMAIN disk : Settled(d)}
Leads == [d \in Documents |-> Reached(d)]

\* A document on the stack leads to the ones above it.
ChainedAt(i) ==
    /\ disk[stack[i].doc].ok
    /\ i < Len(stack) => stack[i + 1].doc \in disk[stack[i].doc].include
    /\ \A j \in i..Len(stack) : stack[j].doc \in Leads[stack[i].doc]
\* The roots of a walk are settled but the one that is being loaded.
CauseInv ==
    /\ LoadInv
    /\ at \in Seq(Documents \cup {None})
    /\ \E S : verdicts \in Seq(S)
    /\ \A d \in loaded : disk[d].ok
    /\ Walking =>
        /\ \A i \in 1..Len(stack) : ChainedAt(i)
        /\ stack # <<>> => Len(at) > 0 /\ stack[1].doc = at[Len(at)]
        /\ \A k \in Roots(at) : at[k] \in Fine \/ (stack # <<>> /\ k = Len(at))
    /\ \A i \in DOMAIN verdicts : \A k \in Roots(verdicts[i].at) : verdicts[i].at[k] \in Fine
    /\ outcome = "refused" => \E d \in Documents : Bad(d)

\* A document reaches itself and what the documents it reaches include.
LEMMA ReachedItself ==
  ASSUME NEW d \in Documents
  PROVE  d \in Reached(d)
BY DEF Reached

LEMMA ReachedInclude ==
  ASSUME NEW d, NEW e \in Reached(d), e \in DOMAIN disk, NEW f \in disk[e].include, f \in Documents
  PROVE  f \in Reached(d)
BY DEF Reached, Closed

\* Reading more documents takes nothing back.
LEMMA ReachedGrows ==
  ASSUME DOMAIN disk \subseteq DOMAIN disk', \A x \in DOMAIN disk : disk'[x] = disk[x],
         NEW d, NEW e \in Reached(d)
  PROVE  e \in Reached(d)'
<1>1. \A docs \in SUBSET Documents : Closed(docs)' => Closed(docs)
  BY DEF Closed
<1> QED BY <1>1 DEF Reached

LEMMA SettledStays ==
  ASSUME DOMAIN disk \subseteq DOMAIN disk', \A x \in DOMAIN disk : disk'[x] = disk[x],
         DOMAIN disk \subseteq Documents, NEW d, Settled(d)
  PROVE  Settled(d)'
<1>1. PICK S \in SUBSET DOMAIN disk : d \in S /\ Sound(S)
  BY DEF Settled
<1>2. ASSUME NEW e \in S PROVE ~OnCycle(e)'
  <2> SUFFICES ASSUME NEW f \in disk[e].include, e \in Reached(f)' PROVE FALSE
    BY <1>1 DEF OnCycle
  <2>1. f \in S
    BY <1>1 DEF Sound
  <2>2. ASSUME NEW docs \in SUBSET Documents, f \in docs, Closed(docs)
        PROVE  e \in docs
    <3>1. Closed(docs \cap S)'
      BY <1>1, <2>2 DEF Closed, Sound
    <3>2. f \in docs \cap S /\ docs \cap S \in SUBSET Documents
      BY <2>1, <2>2
    <3> QED BY <3>1, <3>2 DEF Reached
  <2>3. e \in Reached(f)
    BY <1>1, <2>2 DEF Reached
  <2> QED BY <1>1, <2>3 DEF Sound, OnCycle
<1>3. Sound(S)'
  BY <1>1, <1>2 DEF Sound
<1> QED BY <1>1, <1>3 DEF Settled

LEMMA FineGrows ==
  ASSUME DOMAIN disk \subseteq DOMAIN disk', \A x \in DOMAIN disk : disk'[x] = disk[x],
         DOMAIN disk \subseteq Documents
  PROVE  Fine \subseteq Fine'
BY SettledStays DEF Fine

LEMMA LeadsGrow ==
  ASSUME DOMAIN disk \subseteq DOMAIN disk', \A x \in DOMAIN disk : disk'[x] = disk[x]
  PROVE  \A d \in Documents : Leads[d] \subseteq Leads'[d]
BY ReachedGrows DEF Leads

LEMMA LeadsProperties ==
  /\ \A d \in Documents : d \in Leads[d]
  /\ \A d \in Documents : \A e \in Leads[d] \cap DOMAIN disk :
        disk[e].include \cap Documents \subseteq Leads[d]
BY ReachedItself, ReachedInclude DEF Leads

\* The first of these of the documents as they are after a step.
LEMMA LeadsPropertiesNext ==
  \A d \in Documents : d \in Leads'[d]
BY DEF Leads, Reached

\* A step that reads nothing changes neither.
LEMMA NothingRead ==
  ASSUME disk' = disk
  PROVE  Fine' = Fine /\ Leads' = Leads
BY DEF Fine, Leads, Settled, Sound, OnCycle, Reached, Closed

LEMMA SettledReaches ==
  ASSUME DOMAIN disk \subseteq Documents, NEW d, Settled(d), NEW e \in Reached(d)
  PROVE  ~Bad(e)
<1>1. PICK S \in SUBSET DOMAIN disk : d \in S /\ Sound(S)
  BY DEF Settled
<1>2. Closed(S) /\ S \in SUBSET Documents
  BY <1>1 DEF Closed, Sound
<1>3. e \in S
  BY <1>1, <1>2 DEF Reached
<1> QED BY <1>1, <1>3 DEF Sound, Bad

\* Documents of which each includes only earlier ones are on no cycle.
LEMMA OrderedSound ==
  ASSUME DOMAIN disk \subseteq Documents, NEW s \in Seq(DOMAIN disk),
         \A i \in 1..Len(s) : /\ disk[s[i]].ok
                              /\ disk[s[i]].include \subseteq {s[j] : j \in 1..(i - 1)}
                              /\ \A j \in 1..(i - 1) : s[j] # s[i]
  PROVE  Sound({s[i] : i \in 1..Len(s)})
<1> DEFINE Before(i) == {s[j] : j \in 1..(i - 1)}
<1>1. Len(s) \in Nat /\ \A i \in 1..Len(s) : s[i] \in DOMAIN disk
  OBVIOUS
<1>2. ASSUME NEW i \in 1..Len(s) PROVE ~OnCycle(s[i])
  <2>1. Before(i) \in SUBSET Documents /\ s[i] \notin Before(i)
    BY <1>1
  <2>2. \A j \in 1..(i - 1) : j \in 1..Len(s) /\ Before(j) \subseteq Before(i)
    BY <1>1
  <2>3. Closed(Before(i))
    BY <1>1, <2>2 DEF Closed
  <2>4. \A f \in disk[s[i]].include : Reached(f) \subseteq Before(i)
    BY <2>1, <2>3 DEF Reached
  <2> QED BY <2>1, <2>4 DEF OnCycle
<1>3. \A i \in 1..Len(s) : disk[s[i]].include \subseteq {s[j] : j \in 1..Len(s)}
  BY <1>1
<1> QED BY <1>2, <1>3 DEF Sound

\* One more directory: the earlier ones keep their roots.
LEMMA AppendedRoots ==
  ASSUME at \in Seq(Documents \cup {None}), NEW d \in Documents \cup {None}, at' = Append(at, d)
  PROVE  /\ at' \in Seq(Documents \cup {None}) /\ Len(at') = Len(at) + 1 /\ Len(at) \in Nat
         /\ at'[Len(at')] = d
         /\ \A k \in Roots(at') : k = Len(at') \/ (k \in Roots(at) /\ at'[k] = at[k])
         /\ d = None \/ d \in Range(at) => Len(at') \notin Roots(at')
<1>1. /\ at' \in Seq(Documents \cup {None}) /\ Len(at') = Len(at) + 1 /\ Len(at) \in Nat
      /\ at'[Len(at) + 1] = d
      /\ \A k \in 1..Len(at) : at'[k] = at[k]
  OBVIOUS
<1>2. DOMAIN at' = 1..(Len(at) + 1) /\ DOMAIN at = 1..Len(at)
  BY <1>1
<1>3. ASSUME NEW k \in Roots(at'), k # Len(at') PROVE k \in Roots(at) /\ at'[k] = at[k]
  <2>1. k \in 1..Len(at) /\ at'[k] # None /\ \A j \in 1..(k - 1) : at'[j] # at'[k]
    BY <1>1, <1>2, <1>3 DEF Roots
  <2>2. at'[k] = at[k] /\ \A j \in 1..(k - 1) : at'[j] = at[j]
    BY <1>1, <2>1
  <2> QED BY <1>2, <2>1, <2>2 DEF Roots
<1>4. ASSUME d \in Range(at) PROVE Len(at') \notin Roots(at')
  <2>1. PICK j \in 1..Len(at) : at[j] = d
    BY <1>2, <1>4 DEF Range
  <2>2. at'[j] = at'[Len(at')] /\ j \in 1..(Len(at') - 1)
    BY <1>1, <2>1
  <2> QED BY <2>2 DEF Roots
<1>5. d = None => Len(at') \notin Roots(at')
  BY <1>1 DEF Roots
<1> QED BY <1>1, <1>3, <1>4, <1>5

LEMMA InitCauseInv == Init => CauseInv
<1> SUFFICES ASSUME Init PROVE CauseInv
  OBVIOUS
<1>1. verdicts \in Seq({}) /\ at = <<>> /\ at \in Seq(Documents \cup {None})
  BY DEF Init
<1>2. Roots(at) = {}
  BY <1>1 DEF Roots
<1> QED BY <1>1, <1>2, InitLoadInv DEF Init, CauseInv

LEMMA VisitDirectoryCauseInv == CauseInv /\ VisitDirectory => CauseInv'
<1> SUFFICES ASSUME CauseInv, VisitDirectory PROVE CauseInv'
  OBVIOUS
<1> USE DEF CauseInv
<1>1. PICK d \in Documents \cup {None} :
          /\ at' = Append(at, d)
          /\ IF d = None \/ d \in Range(at)
             THEN UNCHANGED <<disk, stack, loaded, sources, outcome>>
             ELSE Enter(d, <<>>) /\ NewRoot
  BY DEF VisitDirectory, LoadInv, LoadType
<1>2. /\ at' \in Seq(Documents \cup {None}) /\ Len(at') = Len(at) + 1 /\ Len(at) \in Nat
      /\ at'[Len(at')] = d
      /\ \A k \in Roots(at') : k = Len(at') \/ (k \in Roots(at) /\ at'[k] = at[k])
      /\ d = None \/ d \in Range(at) => Len(at') \notin Roots(at')
  BY <1>1, AppendedRoots
<1>3. verdicts' = verdicts /\ Walking /\ stack = <<>> /\ \A k \in Roots(at) : at[k] \in Fine
  BY DEF VisitDirectory
<1>4. LoadInv'
  BY VisitDirectoryLoadInv
<1>5. CASE (d = None \/ d \in Range(at)) /\ UNCHANGED <<disk, stack, loaded, sources, outcome>>
  <2>1. Fine' = Fine
    BY <1>5, NothingRead
  <2>2. \A k \in Roots(at') : at'[k] \in Fine'
    BY <1>2, <1>3, <1>5, <2>1
  <2>3. \A i \in DOMAIN verdicts' : \A k \in Roots(verdicts'[i].at) : verdicts'[i].at[k] \in Fine'
    BY <1>3, <2>1
  <2>4. Len(stack') = 0 /\ outcome' # "refused"
    BY <1>3, <1>5 DEF Walking
  <2> QED BY <1>2, <1>3, <1>4, <1>5, <2>2, <2>3, <2>4
<1>6. CASE d \in Documents /\ Enter(d, <<>>) /\ NewRoot
  <2>1. /\ DOMAIN disk' = DOMAIN disk \cup {d} /\ DOMAIN disk \subseteq Documents
        /\ \A x \in DOMAIN disk : disk'[x] = disk[x]
        /\ disk'[d].include \subseteq Documents
    BY <1>6, ReadDisk DEF Enter, LoadInv, LoadType
  <2>2. loaded' = {}
    BY <1>6 DEF NewRoot
  <2>3. Fine \subseteq Fine'
    BY <2>1, FineGrows
  <2>4. \A i \in DOMAIN verdicts' : \A k \in Roots(verdicts'[i].at) : verdicts'[i].at[k] \in Fine'
    BY <1>3, <2>3
  <2>5. \A k \in Roots(at') : at'[k] \in Fine' \/ k = Len(at')
    BY <1>2, <1>3, <2>3
  <2>6. CASE disk'[d].ok
    <3>1. /\ stack' = <<[doc |-> d, todo |-> disk'[d].include]>> /\ outcome' = outcome
      BY <1>6, <2>6 DEF Enter
    <3>2. Len(stack') = 1 /\ stack'[1].doc = d /\ stack' # <<>> /\ d \in Leads'[d]
      BY <1>6, <3>1, LeadsPropertiesNext
    <3>3. ChainedAt(1)'
      BY <2>6, <3>2 DEF ChainedAt
    <3> QED BY <1>2, <1>3, <1>4, <2>2, <2>4, <2>5, <3>1, <3>2, <3>3 DEF Walking
  <2>7. CASE ~disk'[d].ok
    <3>1. outcome' = "refused" /\ Bad(d)'
      BY <1>6, <2>1, <2>7 DEF Enter, Bad
    <3> QED BY <1>2, <1>3, <1>4, <1>6, <2>2, <2>4, <3>1 DEF Walking
  <2> QED BY <2>6, <2>7
<1> QED BY <1>1, <1>5, <1>6

LEMMA VisitIncludeCauseInv == CauseInv /\ VisitInclude => CauseInv'
<1> SUFFICES ASSUME CauseInv, VisitInclude PROVE CauseInv'
  OBVIOUS
<1> USE DEF CauseInv
<1> DEFINE n == Len(stack)
<1>1. PICK d \in Top.todo \ (Active \cup loaded) : Enter(d, Advanced(d))
  BY DEF VisitInclude
<1>2. UNCHANGED <<at, loaded, verdicts>> /\ Walking /\ stack # <<>>
  BY DEF VisitInclude
<1>3. LoadInv' /\ LoadInv /\ LoadType
  BY VisitIncludeLoadInv DEF LoadInv
<1>4. n \in Nat \ {0} /\ stack \in Seq(Frame) /\ stack[n] \in Frame /\ Top = stack[n] /\ FrameAt(n)
  BY <1>2 DEF LoadInv, LoadType, Top, Last
<1>5. d \in Documents /\ d \in disk[stack[n].doc].include /\ stack[n].doc \in DOMAIN disk
  BY <1>1, <1>4 DEF Frame, FrameAt
<1>6. /\ DOMAIN disk' = DOMAIN disk \cup {d} /\ DOMAIN disk \subseteq Documents
      /\ \A x \in DOMAIN disk : disk'[x] = disk[x]
      /\ disk'[d].include \subseteq Documents
  BY <1>1, <1>3, <1>5, ReadDisk DEF Enter, LoadType
<1>7. Fine \subseteq Fine'
  BY <1>6, FineGrows
<1>8. \A i \in DOMAIN verdicts' : \A k \in Roots(verdicts'[i].at) : verdicts'[i].at[k] \in Fine'
  BY <1>2, <1>7
<1>9. \A x \in loaded' : disk'[x].ok
  BY <1>2, <1>3, <1>6 DEF LoadInv
<1>10. CASE ~disk'[d].ok
  <2>1. outcome' = "refused" /\ Bad(d)'
    BY <1>1, <1>6, <1>10 DEF Enter, Bad
  <2> QED BY <1>2, <1>3, <1>5, <1>8, <1>9, <2>1 DEF Walking
<1>11. CASE disk'[d].ok
  <2>0. /\ stack' = Append(Advanced(d), [doc |-> d, todo |-> disk'[d].include])
        /\ outcome' = outcome
    BY <1>1, <1>11 DEF Enter
  <2>1. [doc |-> d, todo |-> disk'[d].include] \in Frame
    BY <1>5, <1>6 DEF Frame
  <2>2. Advanced(d) \in Seq(Frame) /\ Len(Advanced(d)) = n
        /\ \A i \in 1..n : Advanced(d)[i].doc = stack[i].doc
    BY <1>2, <1>3, AdvancedStack
  <2>3. /\ Len(stack') = n + 1 /\ stack'[n + 1].doc = d
        /\ \A i \in 1..n : stack'[i].doc = stack[i].doc
    BY <1>4, <2>0, <2>1, <2>2
  <2>4. ASSUME NEW i \in 1..n PROVE ChainedAt(i)'
    <3>1. /\ ChainedAt(i) /\ FrameAt(i)
          /\ stack[i].doc \in DOMAIN disk /\ stack[i].doc \in Documents
      BY <1>2, <1>6 DEF LoadInv, FrameAt
    <3>2. disk'[stack[i].doc] = disk[stack[i].doc] /\ stack'[i].doc = stack[i].doc
      BY <1>6, <2>3, <3>1
    <3>3. stack'[i + 1].doc \in disk'[stack'[i].doc].include
      <4>1. CASE i = n
        BY <1>5, <2>3, <3>2, <4>1
      <4>2. CASE i < n
        <5>1. i + 1 \in 1..n
          BY <1>4, <4>2
        <5>2. stack[i + 1].doc \in disk[stack[i].doc].include
          BY <3>1, <4>2 DEF ChainedAt
        <5> QED BY <2>3, <3>2, <5>1, <5>2
      <4> QED BY <1>4, <4>1, <4>2
    <3>4. \A j \in i..n : stack[j].doc \in Leads'[stack[i].doc]
      BY <1>6, <3>1, LeadsGrow DEF ChainedAt
    <3>5. d \in Leads'[stack[i].doc]
      <4>1. stack[n].doc \in Leads[stack[i].doc]
        BY <1>4, <3>1 DEF ChainedAt
      <4>2. d \in Leads[stack[i].doc]
        BY <1>5, <3>1, <4>1, LeadsProperties
      <4> QED BY <1>6, <3>1, <4>2, LeadsGrow
    <3>6. \A j \in i..(n + 1) : stack'[j].doc \in Leads'[stack[i].doc]
      <4> SUFFICES ASSUME NEW j \in i..(n + 1) PROVE stack'[j].doc \in Leads'[stack[i].doc]
        OBVIOUS
      <4>1. j = n + 1 \/ (j \in i..n /\ j \in 1..n)
        BY <1>4
      <4> QED BY <2>3, <3>4, <3>5, <4>1
    <3> QED BY <2>3, <3>1, <3>2, <3>3, <3>6 DEF ChainedAt
  <2>5. ASSUME NEW i \in 1..Len(stack'), i = n + 1 PROVE ChainedAt(i)'
    <3>1. stack'[i].doc = d /\ d \in Leads'[d]
      BY <1>5, <2>3, <2>5, LeadsPropertiesNext
    <3>2. ~(i < Len(stack')) /\ \A j \in i..Len(stack') : j = i
      BY <1>4, <2>3, <2>5
    <3> QED BY <1>11, <3>1, <3>2 DEF ChainedAt
  <2>6. ASSUME NEW i \in 1..Len(stack') PROVE ChainedAt(i)'
    <3>1. i \in 1..n \/ i = n + 1
      BY <1>4, <2>3
    <3> QED BY <2>4, <2>5, <3>1
  <2>7. stack' # <<>> /\ stack'[1].doc = at'[Len(at')] /\ Len(at') > 0
    BY <1>2, <1>4, <2>3
  <2>8. \A k \in Roots(at') : at'[k] \in Fine' \/ (stack' # <<>> /\ k = Len(at'))
    BY <1>2, <1>7, <2>7
  <2> QED BY <1>2, <1>3, <1>8, <1>9, <2>0, <2>6, <2>7, <2>8 DEF Walking
<1> QED BY <1>10, <1>11

LEMMA SkipLoadedCauseInv == CauseInv /\ SkipLoaded => CauseInv'
<1> SUFFICES ASSUME CauseInv, SkipLoaded PROVE CauseInv'
  OBVIOUS
<1> USE DEF CauseInv
<1>1. PICK d : stack' = Advanced(d)
  BY DEF SkipLoaded
<1>2. UNCHANGED <<disk, at, loaded, verdicts, outcome>> /\ Walking /\ stack # <<>>
  BY DEF SkipLoaded
<1>3. LoadInv' /\ LoadType
  BY SkipLoadedLoadInv DEF LoadInv
<1>4. /\ Len(stack) \in Nat \ {0} /\ Len(stack') = Len(stack) /\ stack' \in Seq(Frame)
      /\ \A i \in 1..Len(stack) : stack'[i].doc = stack[i].doc
  BY <1>1, <1>2, <1>3, AdvancedStack
<1>5. Fine' = Fine /\ Leads' = Leads
  BY <1>2, NothingRead
<1>6. ASSUME NEW i \in 1..Len(stack') PROVE ChainedAt(i)'
  <2>1. ChainedAt(i) /\ stack'[i].doc = stack[i].doc
    BY <1>2, <1>4
  <2>2. \A j \in i..Len(stack) : stack'[j].doc = stack[j].doc
    BY <1>4
  <2>3. i < Len(stack) => stack'[i + 1].doc = stack[i + 1].doc
    BY <1>4
  <2>4. Leads'[stack'[i].doc] = Leads[stack[i].doc]
    BY <1>5, <2>1
  <2> QED BY <1>2, <1>4, <2>1, <2>2, <2>3, <2>4 DEF ChainedAt
<1>7. stack' # <<>> /\ stack'[1].doc = at'[Len(at')]
  BY <1>2, <1>4
<1>8. outcome' # "refused"
  BY <1>2 DEF Walking
<1>9. /\ \A k \in Roots(at') : at'[k] \in Fine' \/ (stack' # <<>> /\ k = Len(at'))
      /\ \A i \in DOMAIN verdicts' : \A k \in Roots(verdicts'[i].at) : verdicts'[i].at[k] \in Fine'
  BY <1>2, <1>5, <1>7
<1> QED BY <1>2, <1>3, <1>6, <1>7, <1>8, <1>9

\* The document found again on the stack leads to itself.
LEMMA RefuseCycleCauseInv == CauseInv /\ RefuseCycle => CauseInv'
<1> SUFFICES ASSUME CauseInv, RefuseCycle PROVE CauseInv'
  OBVIOUS
<1> USE DEF CauseInv
<1> DEFINE n == Len(stack)
<1>1. /\ UNCHANGED <<disk, home, at, stack, loaded, sources, layers, policy, verdicts>>
      /\ outcome' = "refused" /\ Walking /\ stack # <<>>
  BY DEF RefuseCycle, walk
<1>2. n \in Nat \ {0} /\ stack[n] \in Frame /\ Top = stack[n] /\ FrameAt(n)
  BY <1>1 DEF LoadInv, LoadType, Top, Last
<1>3. PICK i \in 1..n : stack[i].doc \in stack[n].todo
  <2>1. DOMAIN stack = 1..n /\ stack[n].todo \cap Active # {}
    BY <1>1, <1>2 DEF RefuseCycle, LoadInv, LoadType
  <2>2. PICK d \in stack[n].todo : d \in {stack[i].doc : i \in 1..n}
    BY <2>1 DEF Active
  <2> QED BY <2>2
<1>4. /\ stack[i].doc \in disk[stack[n].doc].include /\ stack[n].doc \in DOMAIN disk
      /\ stack[i].doc \in Documents /\ stack[i].doc \in DOMAIN disk
  BY <1>1, <1>2, <1>3 DEF FrameAt, Frame, LoadInv
<1>5. OnCycle(stack[i].doc)
  <2>1. CASE i = n
    BY <1>4, <2>1, ReachedItself DEF OnCycle
  <2>2. CASE i # n
    <3>1. i + 1 \in 1..n /\ i < n /\ n \in (i + 1)..n
      BY <1>2, <2>2
    <3>2. /\ stack[i + 1].doc \in disk[stack[i].doc].include
          /\ stack[n].doc \in Leads[stack[i + 1].doc] /\ stack[i + 1].doc \in Documents
      BY <1>1, <3>1 DEF ChainedAt, LoadInv, LoadType, FrameAt
    <3>3. stack[i].doc \in Leads[stack[i + 1].doc]
      BY <1>4, <3>2, LeadsProperties
    <3> QED BY <3>2, <3>3 DEF OnCycle, Leads
  <2> QED BY <2>1, <2>2
<1>6. Bad(stack[i].doc)'
  BY <1>1, <1>4, <1>5 DEF Bad, OnCycle, Reached, Closed
<1>7. LoadInv'
  BY <1>1 DEF LoadInv, LoadType, IncludesFirst, Walking
<1>8. \A j \in DOMAIN verdicts' : \A k \in Roots(verdicts'[j].at) : verdicts'[j].at[k] \in Fine'
  BY <1>1, NothingRead
<1> QED BY <1>1, <1>4, <1>6, <1>7, <1>8 DEF Walking

\* With its root the documents it loaded are settled.
LEMMA LeaveDocumentCauseInv == CauseInv /\ LeaveDocument => CauseInv'
<1> SUFFICES ASSUME CauseInv, LeaveDocument PROVE CauseInv'
  OBVIOUS
<1> USE DEF CauseInv
<1> DEFINE n == Len(stack)
           d == stack[n].doc
<1>1. /\ UNCHANGED <<disk, at, verdicts, outcome>> /\ Walking /\ stack # <<>>
      /\ stack' = Front(stack) /\ loaded' = Marked
  BY DEF LeaveDocument
<1>2. LoadInv' /\ LoadInv
  BY LeaveDocumentLoadInv
<1>3. n \in Nat \ {0} /\ stack \in Seq(Frame) /\ stack[n] \in Frame /\ Top = stack[n] /\ FrameAt(n)
  BY <1>1 DEF LoadInv, LoadType, Top, Last
<1>4. /\ stack' \in Seq(Frame) /\ Len(stack') = n - 1
      /\ \A i \in 1..(n - 1) : stack'[i] = stack[i]
  BY <1>1, <1>3, FrontProperties
<1>5. loaded' = loaded \cup {d} /\ \A x \in loaded' : disk'[x].ok
  <2>1. disk[d].ok
    BY <1>1, <1>3 DEF ChainedAt
  <2> QED BY <1>1, <1>3, <2>1 DEF Marked
<1>6. Fine' = Fine /\ Leads' = Leads
  BY <1>1, NothingRead
<1>7. ASSUME NEW i \in 1..Len(stack') PROVE ChainedAt(i)'
  <2>1. ChainedAt(i) /\ stack'[i] = stack[i] /\ i \in 1..(n - 1)
    BY <1>1, <1>3, <1>4
  <2>2. \A j \in i..(n - 1) : stack'[j] = stack[j] /\ j \in i..n
    BY <1>3, <1>4
  <2>3. i < n - 1 => stack'[i + 1] = stack[i + 1]
    BY <1>3, <1>4
  <2>4. Leads'[stack'[i].doc] = Leads[stack[i].doc]
    BY <1>6, <2>1
  <2>5. disk'[stack'[i].doc].ok
    BY <1>1, <2>1 DEF ChainedAt
  <2>6. i < n - 1 => stack'[i + 1].doc \in disk'[stack'[i].doc].include
    BY <1>1, <1>3, <2>1, <2>3 DEF ChainedAt
  <2>7. \A j \in i..(n - 1) : stack'[j].doc \in Leads'[stack'[i].doc]
    BY <2>1, <2>2, <2>4 DEF ChainedAt
  <2> QED BY <1>4, <2>5, <2>6, <2>7 DEF ChainedAt
<1>8. stack' # <<>> => n > 1 /\ stack'[1] = stack[1]
  BY <1>3, <1>4
<1>9. n = 1 => at[Len(at)] \in Fine
  <2> SUFFICES ASSUME n = 1 PROVE at[Len(at)] \in Fine
    OBVIOUS
  <2>1. at[Len(at)] \in loaded'
    BY <1>1, <1>5
  <2>2. /\ sources' \in Seq(Documents) /\ loaded' = {sources'[i] : i \in 1..Len(sources')}
        /\ loaded' \subseteq DOMAIN disk /\ DOMAIN disk \subseteq Documents
    BY <1>1, <1>2 DEF LoadInv, LoadType
  <2>3. Len(sources') \in Nat /\ DOMAIN sources' = 1..Len(sources')
    BY <2>2
  <2>4. sources' \in Seq(DOMAIN disk)
    BY <2>2, <2>3, SeqDef
  <2>5. \A i \in 1..Len(sources') :
            /\ disk[sources'[i]].ok
            /\ disk[sources'[i]].include \subseteq {sources'[j] : j \in 1..(i - 1)}
            /\ \A j \in 1..(i - 1) : sources'[j] # sources'[i]
    BY <1>1, <1>2, <1>5, <2>2, <2>3 DEF LoadInv, IncludesFirst
  <2>6. Sound(loaded')
    BY <2>2, <2>4, <2>5, OrderedSound
  <2> QED BY <2>1, <2>2, <2>6 DEF Fine, Settled
<1>10. \A k \in Roots(at') : at'[k] \in Fine' \/ (stack' # <<>> /\ k = Len(at'))
  <2>1. CASE n = 1
    BY <1>1, <1>6, <1>9, <2>1
  <2>2. CASE n # 1
    BY <1>1, <1>3, <1>4, <1>6, <2>2
  <2> QED BY <2>1, <2>2
<1>11. \A i \in DOMAIN verdicts' : \A k \in Roots(verdicts'[i].at) : verdicts'[i].at[k] \in Fine'
  BY <1>1, <1>6
<1>12. outcome' # "refused"
  BY <1>1 DEF Walking
<1> QED BY <1>1, <1>2, <1>5, <1>7, <1>8, <1>10, <1>11, <1>12

LEMMA FinishWalkCauseInv == CauseInv /\ FinishWalk => CauseInv'
<1> SUFFICES ASSUME CauseInv, FinishWalk PROVE CauseInv'
  OBVIOUS
<1> USE DEF CauseInv
<1> DEFINE v == [at |-> at, layered |-> DecideLayers, merged |-> DecideMerged]
<1>1. /\ Walking /\ stack = <<>> /\ disk' = disk /\ verdicts' = Append(verdicts, v)
      /\ \A k \in Roots(at) : at[k] \in Fine
  BY DEF FinishWalk
<1>2. LoadInv'
  BY NextLoadInv DEF Next
<1>3. PICK S : verdicts \in Seq(S)
  OBVIOUS
<1>4. verdicts \in Seq(S \cup {v})
  BY <1>3, SeqDef
<1> HIDE DEF v
<1>5. /\ verdicts' \in Seq(S \cup {v})
      /\ \A i \in DOMAIN verdicts' : verdicts'[i] = v \/ (i \in DOMAIN verdicts /\ verdicts'[i] = verdicts[i])
  BY <1>1, <1>4
<1>6. \A i \in DOMAIN verdicts' : \A k \in Roots(verdicts'[i].at) : verdicts'[i].at[k] \in Fine'
  <2> SUFFICES ASSUME NEW i \in DOMAIN verdicts', NEW k \in Roots(verdicts'[i].at)
               PROVE  verdicts'[i].at[k] \in Fine
    BY <1>1, NothingRead
  <2>1. v.at = at
    BY DEF v
  <2> QED BY <1>1, <1>5, <2>1
<1>7. CASE UNCHANGED walk
  BY <1>1, <1>2, <1>5, <1>6, <1>7, NothingRead DEF FinishWalk, walk, Walking, ChainedAt
<1>8. CASE at' = <<>> /\ stack' = <<>> /\ loaded' = {} /\ outcome' = outcome
  <2>1. Roots(at') = {} /\ Len(stack') = 0 /\ at' \in Seq(Documents \cup {None})
    BY <1>8 DEF Roots
  <2> QED BY <1>1, <1>2, <1>5, <1>6, <1>8, <2>1 DEF Walking
<1> QED BY <1>7, <1>8 DEF FinishWalk

LEMMA NextCauseInv == CauseInv /\ [Next]_vars => CauseInv'
<1> SUFFICES ASSUME CauseInv, [Next]_vars PROVE CauseInv'
  OBVIOUS
<1>1. CASE UNCHANGED vars
  <2>1. LoadInv'
    BY NextLoadInv DEF CauseInv
  <2>2. Fine' = Fine
    BY <1>1, NothingRead DEF vars
  <2>3. \A i : ChainedAt(i)' <=> ChainedAt(i)
    BY <1>1, NothingRead DEF vars, walk, ChainedAt
  <2>4. \A d : Bad(d)' <=> Bad(d)
    BY <1>1 DEF vars, Bad, OnCycle, Reached, Closed
  <2> QED BY <1>1, <2>1, <2>2, <2>3, <2>4 DEF vars, walk, CauseInv, Walking
<1> QED BY <1>1, VisitDirectoryCauseInv, VisitIncludeCauseInv, SkipLoadedCauseInv, RefuseCycleCauseInv,
     LeaveDocumentCauseInv, FinishWalkCauseInv DEF Next

\* A walk is refused only for a cycle or a document that is broken, and a verdict is
\* reached only where the roots reach neither (_load_policy_sources).
THEOREM CyclesFound == Spec => []RefusedForCause
<1>1. CauseInv => RefusedForCause
  <2> SUFFICES ASSUME CauseInv PROVE RefusedForCause
    OBVIOUS
  <2>1. \A i \in DOMAIN verdicts : \A k \in Roots(verdicts[i].at) :
            \A d \in Reached(verdicts[i].at[k]) : ~Bad(d)
    BY SettledReaches DEF CauseInv, LoadInv, LoadType, Fine
  <2> QED BY <2>1 DEF CauseInv, RefusedForCause, Bad
<1> QED BY <1>1, InitCauseInv, NextCauseInv, PTL DEF Spec

-----------------------------------------------------------------------------
(* What a sequence of layers and the policy merged from them decide. *)

Layer == [Deny : Seq(Rules), Ask : Seq(Rules), Allow : Seq(Rules)]
Policy == [Deny : Seq(Rules), precedence : Seq(Lists \X Rules)]
Denials(ls) == [i \in DOMAIN ls |-> Tagged("Deny", ls[i].Deny)]
Opinions(ls) == [i \in DOMAIN ls |-> NonDeny(ls[i])]
Denies(ls) == FlattenSeq(Denials(ls))
Others(ls) == FlattenSeq(Reverse(Opinions(ls)))
Ruled == Lists \X Rules

LEMMA TaggedRules ==
  ASSUME NEW list \in Lists, NEW s \in Seq(Rules)
  PROVE  Tagged(list, s) \in Seq(Ruled)
<1>1. Tagged(list, s) \in Seq({list} \X Rules)
  BY FirstsTagged
<1>2. {list} \X Rules \subseteq Ruled
  BY DEF Ruled
<1> QED BY <1>1, <1>2, SeqMonotonic

LEMMA NonDenyRules ==
  ASSUME NEW L \in Layer
  PROVE  NonDeny(L) \in Seq(Ruled)
<1>1. Tagged("Ask", L.Ask) \in Seq(Ruled) /\ Tagged("Allow", L.Allow) \in Seq(Ruled)
  BY TaggedRules DEF Layer, Lists
<1> QED BY <1>1, ConcatProperties DEF NonDeny

\* One more layer: its Deny rules come last, its others first.
LEMMA OneMoreLayer ==
  ASSUME NEW ls \in Seq(Layer), NEW L \in Layer
  PROVE  /\ Append(ls, L) \in Seq(Layer)
         /\ Denies(ls) \in Seq(Ruled) /\ Others(ls) \in Seq(Ruled)
         /\ Denies(Append(ls, L)) = Denies(ls) \o Tagged("Deny", L.Deny)
         /\ Others(Append(ls, L)) = NonDeny(L) \o Others(ls)
<1> DEFINE n == Len(ls)
           new == Append(ls, L)
<1>1. /\ new \in Seq(Layer) /\ n \in Nat /\ DOMAIN ls = 1..n /\ DOMAIN new = 1..(n + 1)
      /\ Len(new) = n + 1 /\ new[n + 1] = L /\ \A i \in 1..n : new[i] = ls[i] /\ ls[i] \in Layer
  OBVIOUS
<1> HIDE DEF new, n
<1>2. \A M \in Layer : Tagged("Deny", M.Deny) \in Seq(Ruled) /\ NonDeny(M) \in Seq(Ruled)
  BY TaggedRules, NonDenyRules DEF Layer, Lists
<1>3. Denials(ls) \in Seq(Seq(Ruled)) /\ Opinions(ls) \in Seq(Seq(Ruled))
  BY <1>1, <1>2 DEF Denials, Opinions
<1>4. Len(Denials(ls)) = n /\ Len(Opinions(ls)) = n
  BY <1>1, <1>2 DEF Denials, Opinions
<1>5. Reverse(Opinions(ls)) \in Seq(Seq(Ruled))
  BY <1>3, ReverseIs
<1>6. Denials(new) = Append(Denials(ls), Tagged("Deny", L.Deny))
  <2>1. Append(Denials(ls), Tagged("Deny", L.Deny)) \in Seq(Seq(Ruled))
    BY <1>2, <1>3
  <2>2. Denials(new) \in Seq(Seq(Ruled)) /\ Len(Denials(new)) = n + 1
    BY <1>1, <1>2 DEF Denials
  <2>3. ASSUME NEW i \in 1..(n + 1)
        PROVE  Denials(new)[i] = Append(Denials(ls), Tagged("Deny", L.Deny))[i]
    <3>1. CASE i = n + 1
      BY <1>1, <1>3, <1>4, <3>1 DEF Denials
    <3>2. CASE i # n + 1
      <4>1. i \in 1..n
        BY <1>1, <3>2
      <4>2. Append(Denials(ls), Tagged("Deny", L.Deny))[i] = Denials(ls)[i]
        BY <1>3, <1>4, <4>1
      <4> QED BY <1>1, <4>1, <4>2 DEF Denials
    <3> QED BY <3>1, <3>2
  <2>4. Len(Append(Denials(ls), Tagged("Deny", L.Deny))) = n + 1
    BY <1>1, <1>3, <1>4
  <2> QED BY <2>1, <2>2, <2>3, <2>4, SeqEqual
<1>7. Reverse(Opinions(new)) = <<NonDeny(L)>> \o Reverse(Opinions(ls))
  <2> DEFINE new2 == Reverse(Opinions(new))
             old == Reverse(Opinions(ls))
             both == <<NonDeny(L)>> \o old
  <2>1. Opinions(new) \in Seq(Seq(Ruled)) /\ Len(Opinions(new)) = n + 1
    BY <1>1, <1>2 DEF Opinions
  <2>2. /\ new2 \in Seq(Seq(Ruled)) /\ Len(new2) = n + 1
        /\ \A i \in 1..(n + 1) : new2[i] = Opinions(new)[((n + 1) - i) + 1]
    <3>1. PICK o \in Seq(Seq(Ruled)) : o = Opinions(new) /\ Len(o) = n + 1
      BY <2>1
    <3>2. /\ Reverse(o) \in Seq(Seq(Ruled)) /\ Len(Reverse(o)) = Len(o)
          /\ \A i \in 1..Len(o) : Reverse(o)[i] = o[(Len(o) - i) + 1]
      BY ReverseIs
    <3> QED BY <3>1, <3>2
  <2>3. Len(old) = n /\ \A i \in 1..n : old[i] = Opinions(ls)[(n - i) + 1]
    <3>1. PICK o \in Seq(Seq(Ruled)) : o = Opinions(ls) /\ Len(o) = n
      BY <1>3, <1>4
    <3>2. /\ Len(Reverse(o)) = Len(o)
          /\ \A i \in 1..Len(o) : Reverse(o)[i] = o[(Len(o) - i) + 1]
      BY ReverseIs
    <3> QED BY <3>1, <3>2
  <2>4. /\ both \in Seq(Seq(Ruled)) /\ Len(both) = n + 1
        /\ both[1] = NonDeny(L) /\ \A i \in 2..(n + 1) : both[i] = old[i - 1]
    <3> HIDE DEF old
    <3> QED BY <1>2, <1>1, <1>5, <2>3 DEF old
  <2> HIDE DEF new2, old, both
  <2>5. ASSUME NEW i \in 1..(n + 1) PROVE new2[i] = both[i]
    <3>1. CASE i = 1
      <4>1. ((n + 1) - i) + 1 = n + 1 /\ n + 1 \in 1..(n + 1)
        BY <1>1, <3>1
      <4>2. Opinions(new)[n + 1] = NonDeny(L)
        BY <1>1, <4>1 DEF Opinions
      <4> QED BY <2>2, <2>4, <3>1, <4>1, <4>2
    <3>2. CASE i # 1
      <4>1. PICK j \in 1..n : j = ((n + 1) - i) + 1
        BY <1>1, <3>2
      <4>2. i \in 2..(n + 1) /\ i - 1 \in 1..n /\ (n - (i - 1)) + 1 = j /\ j \in 1..(n + 1)
        BY <1>1, <3>2, <4>1
      <4>3. Opinions(new)[j] = Opinions(ls)[j]
        BY <1>1, <4>1, <4>2 DEF Opinions
      <4>4. new2[i] = Opinions(new)[j]
        BY <2>2, <4>1
      <4>5. both[i] = Opinions(ls)[j]
        BY <2>3, <2>4, <4>2
      <4> QED BY <4>3, <4>4, <4>5
    <3> QED BY <3>1, <3>2
  <2>6. new2 = both
    BY <2>2, <2>4, <2>5, SeqEqual
  <2> QED BY <2>6 DEF new2, both, old
<1>8. Denies(new) = Denies(ls) \o Tagged("Deny", L.Deny)
  BY <1>2, <1>3, <1>6, FlattenAppend DEF Denies
<1>9. Others(new) = NonDeny(L) \o Others(ls)
  BY <1>2, <1>5, <1>7, FlattenCons DEF Others
<1>10. Denies(ls) \in Seq(Ruled) /\ Others(ls) \in Seq(Ruled)
  BY <1>3, <1>5, FlattenIs DEF Denies, Others
<1> QED BY <1>1, <1>8, <1>9, <1>10 DEF new

\* The first match is the first of the rules that match, if there is one.
LEMMA FirstMatchIs ==
  ASSUME NEW s \in Seq(Ruled)
  PROVE  /\ Firsts(s, Matching) = {} => FirstMatch(s) = <<"NoOpinion", None>>
         /\ \A x \in Firsts(s, Matching) : FirstMatch(s) = x
BY FirstOfIs DEF FirstMatch

\* The first match of two sequences, by that of each.
LEMMA FirstMatchConcat ==
  ASSUME NEW s \in Seq(Ruled), NEW t \in Seq(Ruled)
  PROVE  /\ Firsts(s, Matching) # {} =>
                FirstMatch(s \o t) \in Firsts(s, Matching)
         /\ Firsts(s, Matching) = {} /\ Firsts(t, Matching) # {} =>
                FirstMatch(s \o t) \in Firsts(t, Matching)
         /\ Firsts(s, Matching) = {} /\ Firsts(t, Matching) = {} =>
                FirstMatch(s \o t) = <<"NoOpinion", None>>
<1>1. PICK u \in Seq(Ruled) : u = s \o t
  BY ConcatProperties
<1>2. Firsts(u, Matching) = IF Firsts(s, Matching) = {} THEN Firsts(t, Matching)
                            ELSE Firsts(s, Matching)
  BY <1>1, FirstsConcat
<1> QED BY <1>1, <1>2, FirstMatchIs

LEMMA TaggedSpeaks ==
  ASSUME NEW list \in Lists, NEW s \in Seq(Rules)
  PROVE  /\ Firsts(Tagged(list, s), Matching) = {} <=>
                \A rule \in Range(s) : <<list, rule>> \notin Matching
         /\ \A x \in Firsts(Tagged(list, s), Matching) : x[1] = list
<1> DEFINE N == Under(list, Rules, Matching)
<1>1. Firsts(Tagged(list, s), Matching) = With(list, Firsts(s, N))
  <2>1. TagsKept(Rules, Matching)
    BY TagsAreKept
  <2> QED BY <2>1 DEF TagsKept
<1>2. Firsts(s, N) = {} <=> \A i \in 1..Len(s) : s[i] \notin N
  <2> HIDE DEF N
  <2> QED BY FirstsOne
<1>3. Range(s) = {s[i] : i \in 1..Len(s)} /\ Range(s) \subseteq Rules
  BY RangeIndexed
<1>4. With(list, Firsts(s, N)) = {} <=> Firsts(s, N) = {}
  BY DEF With
<1>5. \A rule \in Rules : rule \in N <=> <<list, rule>> \in Matching
  BY DEF Under
<1> HIDE DEF N
<1>6. (\A i \in 1..Len(s) : s[i] \notin N) <=> \A rule \in Range(s) : <<list, rule>> \notin Matching
  BY <1>3, <1>5
<1>7. \A x \in Firsts(Tagged(list, s), Matching) : x[1] = list
  BY <1>1 DEF With
<1> QED BY <1>1, <1>2, <1>4, <1>6, <1>7

-----------------------------------------------------------------------------
(* The merged policy decides as the layers do. *)

Alike == {t \in Policy \X Seq(Layer) :
    /\ Firsts(Tagged("Deny", t[1].Deny), Matching) = Firsts(Denies(t[2]), Matching)
    /\ Firsts(t[1].precedence, Matching) = Firsts(Others(t[2]), Matching)}

LEMMA AlikeAtFirst == <<NoPolicy, <<>>>> \in Alike
<1>1. NoPolicy \in Policy /\ <<>> \in Seq(Layer)
  BY DEF NoPolicy, Policy
<1>2. Denials(<<>>) = <<>> /\ Opinions(<<>>) = <<>> /\ Reverse(<<>>) = <<>>
  BY DEF Denials, Opinions, Reverse
<1>3. Denies(<<>>) = <<>> /\ Others(<<>>) = <<>>
  BY <1>2, FlattenEmpty DEF Denies, Others
<1>4. Tagged("Deny", <<>>) = <<>>
  BY DEF Tagged
<1> QED BY <1>1, <1>3, <1>4 DEF Alike, NoPolicy

LEMMA AlikeMerged ==
  ASSUME NEW p, NEW ls, <<p, ls>> \in Alike, NEW L \in Layer
  PROVE  <<MergedWith(p, L), Append(ls, L)>> \in Alike
<1>1. /\ p \in Policy /\ ls \in Seq(Layer)
      /\ Firsts(Tagged("Deny", p.Deny), Matching) = Firsts(Denies(ls), Matching)
      /\ Firsts(p.precedence, Matching) = Firsts(Others(ls), Matching)
  BY DEF Alike
<1>2. /\ Append(ls, L) \in Seq(Layer)
      /\ Denies(ls) \in Seq(Ruled) /\ Others(ls) \in Seq(Ruled)
      /\ Denies(Append(ls, L)) = Denies(ls) \o Tagged("Deny", L.Deny)
      /\ Others(Append(ls, L)) = NonDeny(L) \o Others(ls)
  BY <1>1, OneMoreLayer
<1>3. PICK a \in Seq(Rules), b \in Seq(Rules) : a = p.Deny /\ b = L.Deny
  BY <1>1 DEF Policy, Layer
<1>4. PICK u \in Seq(Ruled), v \in Seq(Ruled) : u = NonDeny(L) /\ v = p.precedence
  BY <1>1, NonDenyRules DEF Policy, Ruled
<1> DEFINE N == Under("Deny", Rules, Matching)
<1>5. \A s \in Seq(Rules) : Firsts(Tagged("Deny", s), Matching) = With("Deny", Firsts(s, N))
  <2>1. TagsKept(Rules, Matching)
    BY TagsAreKept
  <2> QED BY <2>1 DEF TagsKept
<1> HIDE DEF N
<1>6. PICK c \in Seq(Rules) : c = a \o b
  BY ConcatProperties
<1>7. /\ Firsts(c, N) = IF Firsts(a, N) = {} THEN Firsts(b, N) ELSE Firsts(a, N)
      /\ Unique(c) \in Seq(Rules) /\ Firsts(Unique(c), N) = Firsts(c, N)
  <2>1. Unique(c) \in Seq(Rules) /\ Firsts(Unique(c), N) = Firsts(c, N)
    BY UniqueKeeps
  <2>2. Firsts(a \o b, N) = IF Firsts(a, N) = {} THEN Firsts(b, N) ELSE Firsts(a, N)
    BY FirstsConcat
  <2> QED BY <1>6, <2>1, <2>2
<1>8. Tagged("Deny", b) \in Seq(Ruled)
  BY TaggedRules DEF Lists
<1>9. Firsts(Denies(ls) \o Tagged("Deny", b), Matching) =
          IF Firsts(Denies(ls), Matching) = {} THEN Firsts(Tagged("Deny", b), Matching)
          ELSE Firsts(Denies(ls), Matching)
  BY <1>2, <1>8, FirstsConcat
<1>10. Firsts(Tagged("Deny", Unique(c)), Matching) = Firsts(Denies(ls) \o Tagged("Deny", b), Matching)
  <2>1. Firsts(Denies(ls), Matching) = With("Deny", Firsts(a, N))
    BY <1>1, <1>3, <1>5
  <2>2. Firsts(Tagged("Deny", b), Matching) = With("Deny", Firsts(b, N))
    BY <1>5
  <2>3. Firsts(Tagged("Deny", Unique(c)), Matching) = With("Deny", Firsts(c, N))
    BY <1>5, <1>7
  <2>4. Firsts(Denies(ls), Matching) = {} <=> Firsts(a, N) = {}
    BY <2>1 DEF With
  <2> QED BY <1>7, <1>9, <2>1, <2>2, <2>3, <2>4
<1>11. PICK w \in Seq(Ruled) : w = u \o v
  BY ConcatProperties
<1>12. /\ Firsts(w, Matching) = IF Firsts(u, Matching) = {} THEN Firsts(v, Matching)
                                ELSE Firsts(u, Matching)
       /\ Unique(w) \in Seq(Ruled) /\ Firsts(Unique(w), Matching) = Firsts(w, Matching)
  <2>1. Unique(w) \in Seq(Ruled) /\ Firsts(Unique(w), Matching) = Firsts(w, Matching)
    BY UniqueKeeps
  <2>2. Firsts(u \o v, Matching) = IF Firsts(u, Matching) = {} THEN Firsts(v, Matching)
                                   ELSE Firsts(u, Matching)
    BY FirstsConcat
  <2> QED BY <1>11, <2>1, <2>2
<1>13. Firsts(u \o Others(ls), Matching) =
          IF Firsts(u, Matching) = {} THEN Firsts(Others(ls), Matching) ELSE Firsts(u, Matching)
  BY <1>2, FirstsConcat
<1>14. MergedWith(p, L) = [Deny |-> Unique(c), precedence |-> Unique(w)]
  BY <1>3, <1>4, <1>6, <1>11 DEF MergedWith
<1>15. MergedWith(p, L) \in Policy
  BY <1>7, <1>12, <1>14 DEF Policy, Ruled
<1>16. Firsts(Unique(w), Matching) = Firsts(u \o Others(ls), Matching)
  BY <1>1, <1>4, <1>12, <1>13
<1>17. /\ Firsts(Tagged("Deny", MergedWith(p, L).Deny), Matching) = Firsts(Denies(Append(ls, L)), Matching)
       /\ Firsts(MergedWith(p, L).precedence, Matching) = Firsts(Others(Append(ls, L)), Matching)
  BY <1>2, <1>3, <1>4, <1>10, <1>14, <1>16
<1> QED BY <1>2, <1>15, <1>17 DEF Alike

LEMMA AlikeDecide ==
  ASSUME NEW p, NEW ls, <<p, ls>> \in Alike
  PROVE  FirstMatch(AllRules(p)) = FirstMatch(Denies(ls) \o Others(ls))
<1>1. /\ p \in Policy /\ ls \in Seq(Layer)
      /\ Firsts(Tagged("Deny", p.Deny), Matching) = Firsts(Denies(ls), Matching)
      /\ Firsts(p.precedence, Matching) = Firsts(Others(ls), Matching)
  BY DEF Alike
<1>2. PICK a \in Seq(Ruled), b \in Seq(Ruled) : a = Tagged("Deny", p.Deny) /\ b = p.precedence
  BY <1>1, TaggedRules DEF Policy, Lists, Ruled
<1>3. PICK c \in Seq(Ruled), d \in Seq(Ruled) : c = Denies(ls) /\ d = Others(ls)
  <2>1. [Deny |-> <<>>, Ask |-> <<>>, Allow |-> <<>>] \in Layer
    BY DEF Layer
  <2> QED BY <1>1, <2>1, OneMoreLayer
<1>4. /\ Firsts(a \o b, Matching) = Firsts(c \o d, Matching)
      /\ a \o b \in Seq(Ruled) /\ c \o d \in Seq(Ruled)
  <2>1. Firsts(a \o b, Matching) = IF Firsts(a, Matching) = {} THEN Firsts(b, Matching)
                                   ELSE Firsts(a, Matching)
    BY FirstsConcat
  <2>2. Firsts(c \o d, Matching) = IF Firsts(c, Matching) = {} THEN Firsts(d, Matching)
                                   ELSE Firsts(c, Matching)
    BY FirstsConcat
  <2> QED BY <1>1, <1>2, <1>3, <2>1, <2>2, ConcatProperties
<1>5. FirstMatch(a \o b) = FirstMatch(c \o d)
  <2>1. PICK s \in Seq(Ruled), t \in Seq(Ruled) : s = a \o b /\ t = c \o d
    BY <1>4
  <2> QED BY <1>4, <2>1, FirstMatchIs
<1> QED BY <1>2, <1>3, <1>5 DEF AllRules

-----------------------------------------------------------------------------
(* The layers decide as the roots say. *)

Dirs == Seq(Documents \cup {None})
Speakers == [Lists -> SUBSET Documents]
Denying(dirs, sp) == {k \in Roots(dirs) : dirs[k] \in sp["Deny"]}
Opining(dirs, sp) == {k \in Roots(dirs) : dirs[k] \in sp["Ask"] \cup sp["Allow"]}
Nearest(dirs, sp, k) == k \in Opining(dirs, sp) /\ \A j \in Opining(dirs, sp) : j <= k
\* The layers of some directories hold what the documents in them say.
Tells(dirs, sp, ls) ==
    /\ Firsts(Denies(ls), Matching) = {} <=> Denying(dirs, sp) = {}
    /\ \A x \in Firsts(Denies(ls), Matching) : x[1] = "Deny"
    /\ Firsts(Others(ls), Matching) = {} <=> Opining(dirs, sp) = {}
    /\ \A x \in Firsts(Others(ls), Matching) :
           \E k : /\ Nearest(dirs, sp, k)
                  /\ x[1] = IF dirs[k] \in sp["Ask"] THEN "Ask" ELSE "Allow"
Told == {t \in Dirs \X Speakers \X Seq(Layer) : Tells(t[1], t[2], t[3])}

LEMMA ToldAtFirst == ASSUME NEW sp \in Speakers PROVE <<<<>>, sp, <<>>>> \in Told
<1>1. <<>> \in Dirs /\ <<>> \in Seq(Layer)
  BY DEF Dirs
<1>2. Denials(<<>>) = <<>> /\ Opinions(<<>>) = <<>> /\ Reverse(<<>>) = <<>>
  BY DEF Denials, Opinions, Reverse
<1>3. Denies(<<>>) = <<>> /\ Others(<<>>) = <<>>
  BY <1>2, FlattenEmpty DEF Denies, Others
<1>4. Roots(<<>>) = {}
  BY DEF Roots
<1>5. Denying(<<>>, sp) = {} /\ Opining(<<>>, sp) = {} /\ Firsts(<<>>, Matching) = {}
  BY <1>4, FirstsEmpty DEF Denying, Opining
<1> QED BY <1>1, <1>3, <1>5 DEF Told, Tells

\* One more directory: the roots before it stay.
LEMMA RootsAppended ==
  ASSUME NEW dirs \in Dirs, NEW d \in Documents \cup {None}
  PROVE  /\ Append(dirs, d) \in Dirs
         /\ Len(dirs) \in Nat /\ Roots(dirs) \subseteq 1..Len(dirs)
         /\ \A k \in 1..Len(dirs) : Append(dirs, d)[k] = dirs[k]
         /\ Append(dirs, d)[Len(dirs) + 1] = d
         /\ Roots(Append(dirs, d)) =
                IF d = None \/ d \in Range(dirs) THEN Roots(dirs)
                ELSE Roots(dirs) \cup {Len(dirs) + 1}
<1> DEFINE n == Len(dirs)
           new == Append(dirs, d)
<1>1. /\ new \in Dirs /\ n \in Nat /\ DOMAIN dirs = 1..n /\ DOMAIN new = 1..(n + 1)
      /\ new[n + 1] = d /\ \A k \in 1..n : new[k] = dirs[k]
  BY DEF Dirs
<1>2. Range(dirs) = {dirs[k] : k \in 1..n}
  BY <1>1 DEF Range
<1> HIDE DEF n, new
<1>3. \A k \in 1..n : 1..(k - 1) \subseteq 1..n
  BY <1>1
<1>4. \A k \in 1..n : k \in Roots(new) <=> k \in Roots(dirs)
  BY <1>1, <1>3 DEF Roots
<1>5. n + 1 \in Roots(new) <=> (d # None /\ d \notin Range(dirs))
  <2>1. (n + 1) - 1 = n /\ n + 1 \in 1..(n + 1)
    BY <1>1
  <2>2. (\A j \in 1..n : new[j] # d) <=> d \notin Range(dirs)
    BY <1>1, <1>2
  <2> QED BY <1>1, <2>1, <2>2 DEF Roots
<1>6. Roots(new) \subseteq 1..(n + 1) /\ Roots(dirs) \subseteq 1..n
  BY <1>1 DEF Roots
<1>7. \A k \in 1..(n + 1) : k \in 1..n \/ k = n + 1
  BY <1>1
<1> QED BY <1>1, <1>4, <1>5, <1>6, <1>7 DEF new, n

\* A directory without a document of its own tells nothing.
LEMMA ToldSkip ==
  ASSUME NEW dirs, NEW sp, NEW ls, <<dirs, sp, ls>> \in Told,
         NEW d \in Documents \cup {None}, d = None \/ d \in Range(dirs)
  PROVE  <<Append(dirs, d), sp, ls>> \in Told
<1>1. dirs \in Dirs /\ sp \in Speakers /\ ls \in Seq(Layer) /\ Tells(dirs, sp, ls)
  BY DEF Told
<1> DEFINE new == Append(dirs, d)
<1>2. new \in Dirs /\ Roots(new) = Roots(dirs) /\ \A k \in Roots(dirs) : new[k] = dirs[k]
  BY <1>1, RootsAppended
<1> HIDE DEF new
<1>3. Denying(new, sp) = Denying(dirs, sp) /\ Opining(new, sp) = Opining(dirs, sp)
  BY <1>2 DEF Denying, Opining
<1>4. \A k : Nearest(new, sp, k) <=> Nearest(dirs, sp, k)
  BY <1>3 DEF Nearest
<1>5. \A k : Nearest(dirs, sp, k) => new[k] = dirs[k]
  BY <1>2 DEF Nearest, Opining
<1> QED BY <1>1, <1>2, <1>3, <1>4, <1>5 DEF Told, Tells, new

\* A root of its own tells what its layer holds.
LEMMA ToldRoot ==
  ASSUME NEW dirs, NEW sp, NEW ls, <<dirs, sp, ls>> \in Told,
         NEW d \in Documents, d \notin Range(dirs), NEW L \in Layer,
         \A list \in Lists : d \in sp[list] <=> \E rule \in Range(L[list]) : <<list, rule>> \in Matching
  PROVE  <<Append(dirs, d), sp, Append(ls, L)>> \in Told
<1>1. dirs \in Dirs /\ sp \in Speakers /\ ls \in Seq(Layer) /\ Tells(dirs, sp, ls)
  BY DEF Told
<1> DEFINE new == Append(dirs, d)
           both == Append(ls, L)
           n == Len(dirs)
<1>2. /\ new \in Dirs /\ n \in Nat /\ Roots(dirs) \subseteq 1..n
      /\ Roots(new) = Roots(dirs) \cup {n + 1}
      /\ new[n + 1] = d /\ \A k \in Roots(dirs) : new[k] = dirs[k]
  <2>1. d # None /\ d \in Documents \cup {None}
    BY NoneAssumption
  <2>2. /\ new \in Dirs /\ n \in Nat /\ Roots(dirs) \subseteq 1..n /\ new[n + 1] = d
        /\ \A k \in 1..n : new[k] = dirs[k]
    BY <1>1, <2>1, RootsAppended
  <2>3. Roots(new) = Roots(dirs) \cup {n + 1}
    BY <1>1, <2>1, RootsAppended
  <2> HIDE DEF new, n
  <2> QED BY <2>2, <2>3
<1>3. /\ both \in Seq(Layer) /\ Denies(ls) \in Seq(Ruled) /\ Others(ls) \in Seq(Ruled)
      /\ Denies(both) = Denies(ls) \o Tagged("Deny", L.Deny)
      /\ Others(both) = NonDeny(L) \o Others(ls)
  BY <1>1, OneMoreLayer
<1> HIDE DEF new, both, n
<1>4. PICK a \in Seq(Ruled), b \in Seq(Ruled), c \in Seq(Ruled) :
          a = Tagged("Deny", L.Deny) /\ b = Tagged("Ask", L.Ask) /\ c = Tagged("Allow", L.Allow)
  BY TaggedRules DEF Layer, Lists
<1>5. /\ Firsts(a, Matching) = {} <=> d \notin sp["Deny"]
      /\ Firsts(b, Matching) = {} <=> d \notin sp["Ask"]
      /\ Firsts(c, Matching) = {} <=> d \notin sp["Allow"]
      /\ \A x \in Firsts(a, Matching) : x[1] = "Deny"
      /\ \A x \in Firsts(b, Matching) : x[1] = "Ask"
      /\ \A x \in Firsts(c, Matching) : x[1] = "Allow"
  BY <1>4, TaggedSpeaks DEF Layer, Lists
<1>6. PICK e \in Seq(Ruled) : e = b \o c
  BY ConcatProperties
<1>7. Firsts(e, Matching) = IF Firsts(b, Matching) = {} THEN Firsts(c, Matching) ELSE Firsts(b, Matching)
  BY <1>6, FirstsConcat
<1>8. Firsts(Denies(both), Matching) =
          IF Firsts(Denies(ls), Matching) = {} THEN Firsts(a, Matching) ELSE Firsts(Denies(ls), Matching)
  BY <1>3, <1>4, FirstsConcat
<1>9. Firsts(Others(both), Matching) =
          IF Firsts(e, Matching) = {} THEN Firsts(Others(ls), Matching) ELSE Firsts(e, Matching)
  <2>1. e = NonDeny(L)
    BY <1>4, <1>6 DEF NonDeny
  <2> QED BY <1>3, <2>1, FirstsConcat
<1>10. Denying(new, sp) = Denying(dirs, sp) \cup (IF d \in sp["Deny"] THEN {n + 1} ELSE {})
  BY <1>2 DEF Denying
<1>11. Opining(new, sp) = Opining(dirs, sp) \cup
                              (IF d \in sp["Ask"] \cup sp["Allow"] THEN {n + 1} ELSE {})
  BY <1>2 DEF Opining
<1>12. /\ Firsts(Denies(both), Matching) = {} <=> Denying(new, sp) = {}
       /\ \A x \in Firsts(Denies(both), Matching) : x[1] = "Deny"
  BY <1>1, <1>5, <1>8, <1>10 DEF Tells
<1>13. Firsts(Others(both), Matching) = {} <=> Opining(new, sp) = {}
  BY <1>1, <1>5, <1>7, <1>9, <1>11 DEF Tells
<1>14. ASSUME NEW x \in Firsts(Others(both), Matching)
       PROVE  \E k : /\ Nearest(new, sp, k)
                     /\ x[1] = IF new[k] \in sp["Ask"] THEN "Ask" ELSE "Allow"
  <2>1. CASE d \in sp["Ask"] \cup sp["Allow"]
    <3>1. Nearest(new, sp, n + 1)
      <4>1. \A j \in Opining(dirs, sp) : j \in 1..n
        BY <1>2 DEF Opining
      <4> QED BY <1>2, <1>11, <2>1, <4>1 DEF Nearest
    <3>2. x[1] = IF new[n + 1] \in sp["Ask"] THEN "Ask" ELSE "Allow"
      BY <1>2, <1>5, <1>7, <1>9, <1>14, <2>1
    <3> QED BY <3>1, <3>2
  <2>2. CASE d \notin sp["Ask"] \cup sp["Allow"]
    <3>1. Opining(new, sp) = Opining(dirs, sp)
      BY <1>11, <2>2
    <3>2. x \in Firsts(Others(ls), Matching)
      BY <1>5, <1>7, <1>9, <1>14, <2>2
    <3>3. PICK k : /\ Nearest(dirs, sp, k)
                   /\ x[1] = IF dirs[k] \in sp["Ask"] THEN "Ask" ELSE "Allow"
      BY <1>1, <3>2 DEF Tells
    <3>4. Nearest(new, sp, k) /\ new[k] = dirs[k]
      BY <1>2, <3>1, <3>3 DEF Nearest, Opining
    <3> QED BY <3>3, <3>4
  <2> QED BY <2>1, <2>2
<1> QED BY <1>1, <1>2, <1>3, <1>12, <1>13, <1>14 DEF Told, Tells, new, both

\* The verdict that some directories call for.
Meant(dirs, sp, x) ==
    IF Denying(dirs, sp) # {} THEN x = "Deny"
    ELSE IF Opining(dirs, sp) = {} THEN x = "NoOpinion"
    ELSE \E k : /\ Nearest(dirs, sp, k)
                /\ x = IF dirs[k] \in sp["Ask"] THEN "Ask" ELSE "Allow"
Expectations == {t \in Dirs \X Speakers \X Decisions : Meant(t[1], t[2], t[3])}

LEMMA ToldDecide ==
  ASSUME NEW dirs, NEW sp, NEW ls, <<dirs, sp, ls>> \in Told
  PROVE  <<dirs, sp, FirstMatch(Denies(ls) \o Others(ls))[1]>> \in Expectations
<1>1. dirs \in Dirs /\ sp \in Speakers /\ ls \in Seq(Layer) /\ Tells(dirs, sp, ls)
  BY DEF Told
<1>2. PICK c \in Seq(Ruled), d \in Seq(Ruled) : c = Denies(ls) /\ d = Others(ls)
  <2>1. [Deny |-> <<>>, Ask |-> <<>>, Allow |-> <<>>] \in Layer
    BY DEF Layer
  <2> QED BY <1>1, <2>1, OneMoreLayer
<1>3. /\ Firsts(c, Matching) # {} => FirstMatch(c \o d) \in Firsts(c, Matching)
      /\ Firsts(c, Matching) = {} /\ Firsts(d, Matching) # {} =>
            FirstMatch(c \o d) \in Firsts(d, Matching)
      /\ Firsts(c, Matching) = {} /\ Firsts(d, Matching) = {} =>
            FirstMatch(c \o d) = <<"NoOpinion", None>>
  BY FirstMatchConcat
<1>4. PICK m : m = FirstMatch(c \o d)
  OBVIOUS
<1>5. Meant(dirs, sp, m[1])
  BY <1>1, <1>2, <1>3, <1>4 DEF Meant, Tells
<1>6. m[1] \in Decisions
  BY <1>5 DEF Meant, Decisions, Lists
<1> QED BY <1>1, <1>2, <1>4, <1>5, <1>6 DEF Expectations

\* What directories tell and mean depends on what their roots say only.
LEMMA SameRoots ==
  ASSUME NEW dirs \in Dirs, NEW sp \in Speakers, NEW sq \in Speakers,
         \A k \in Roots(dirs) : \A list \in Lists : dirs[k] \in sp[list] <=> dirs[k] \in sq[list]
  PROVE  /\ \A ls : <<dirs, sp, ls>> \in Told => <<dirs, sq, ls>> \in Told
         /\ \A x : <<dirs, sp, x>> \in Expectations => <<dirs, sq, x>> \in Expectations
<1>1. Denying(dirs, sp) = Denying(dirs, sq) /\ Opining(dirs, sp) = Opining(dirs, sq)
  BY DEF Denying, Opining, Lists
<1>2. \A k : Nearest(dirs, sp, k) <=> Nearest(dirs, sq, k)
  BY <1>1 DEF Nearest
<1>3. \A k : Nearest(dirs, sp, k) => (dirs[k] \in sp["Ask"] <=> dirs[k] \in sq["Ask"])
  BY DEF Nearest, Opining, Lists
<1>4. \A ls : Tells(dirs, sp, ls) => Tells(dirs, sq, ls)
  BY <1>1, <1>2, <1>3 DEF Tells
<1>5. \A x : Meant(dirs, sp, x) => Meant(dirs, sq, x)
  BY <1>1, <1>2, <1>3 DEF Meant
<1> QED BY <1>4, <1>5 DEF Told, Expectations

-----------------------------------------------------------------------------
(* What the documents say. *)

Speaks == [list \in Lists |-> {d \in Documents :
              \E e \in Leads[d] : \E rule \in Range(disk[e][list]) : <<list, rule>> \in Matching}]

LEMMA SpeaksIs ==
  /\ Speaks \in Speakers
  /\ \A dirs \in Dirs : \A k \in Roots(dirs) : \A list \in Lists :
        Says(dirs, k, list) <=> dirs[k] \in Speaks[list]
<1>1. Speaks \in Speakers
  BY DEF Speaks, Speakers
<1>2. ASSUME NEW dirs \in Dirs, NEW k \in Roots(dirs), NEW list \in Lists
      PROVE  Says(dirs, k, list) <=> dirs[k] \in Speaks[list]
  <2>1. dirs[k] \in Documents
    BY DEF Roots, Dirs
  <2> QED BY <2>1 DEF Says, Speaks, Leads
<1> QED BY <1>1, <1>2

LEMMA SpeaksNext == Speaks' \in Speakers
BY DEF Speaks, Speakers

LEMMA ExpectedIs ==
  ASSUME NEW dirs, NEW x, <<dirs, Speaks, x>> \in Expectations
  PROVE  x = Expected(dirs)
<1>1. dirs \in Dirs /\ Meant(dirs, Speaks, x)
  BY DEF Expectations
<1>2. \A k \in Roots(dirs) : \A list \in Lists : Says(dirs, k, list) <=> dirs[k] \in Speaks[list]
  BY <1>1, SpeaksIs
<1> DEFINE opinionated == {k \in Roots(dirs) : Says(dirs, k, "Ask") \/ Says(dirs, k, "Allow")}
           nearest == CHOOSE k \in opinionated : \A j \in opinionated : j <= k
<1>3. opinionated = Opining(dirs, Speaks)
  BY <1>2 DEF Opining, Lists
<1>4. (\E k \in Roots(dirs) : Says(dirs, k, "Deny")) <=> Denying(dirs, Speaks) # {}
  BY <1>2 DEF Denying, Lists
<1>5. Expected(dirs) = IF \E k \in Roots(dirs) : Says(dirs, k, "Deny") THEN "Deny"
                       ELSE IF opinionated = {} THEN "NoOpinion"
                       ELSE IF Says(dirs, nearest, "Ask") THEN "Ask" ELSE "Allow"
  BY DEF Expected
<1>6. ASSUME NEW k, Nearest(dirs, Speaks, k)
      PROVE  nearest = k /\ k \in Roots(dirs)
  <2>1. k \in opinionated /\ \A j \in opinionated : j <= k
    BY <1>3, <1>6 DEF Nearest
  <2>2. opinionated \subseteq Nat
    <3>1. None \in Documents \cup {None}
      OBVIOUS
    <3>2. Len(dirs) \in Nat /\ Roots(dirs) \subseteq 1..Len(dirs)
      BY <1>1, <3>1, RootsAppended
    <3>3. opinionated \subseteq Roots(dirs)
      OBVIOUS
    <3> HIDE DEF opinionated
    <3> QED BY <3>2, <3>3
  <2> HIDE DEF opinionated
  <2>3. nearest \in opinionated /\ \A j \in opinionated : j <= nearest
    BY <2>1
  <2> HIDE DEF nearest
  <2>4. nearest = k
    BY <2>1, <2>2, <2>3
  <2> QED BY <1>6, <2>4 DEF Nearest, Opining
<1> HIDE DEF opinionated, nearest
<1>7. CASE Denying(dirs, Speaks) # {}
  BY <1>1, <1>4, <1>5, <1>7 DEF Meant
<1>8. CASE Denying(dirs, Speaks) = {} /\ Opining(dirs, Speaks) = {}
  BY <1>1, <1>3, <1>4, <1>5, <1>8 DEF Meant
<1>9. CASE Denying(dirs, Speaks) = {} /\ Opining(dirs, Speaks) # {}
  <2>1. PICK k : /\ Nearest(dirs, Speaks, k)
                 /\ x = IF dirs[k] \in Speaks["Ask"] THEN "Ask" ELSE "Allow"
    BY <1>1, <1>9 DEF Meant
  <2>2. nearest = k /\ k \in Roots(dirs)
    BY <1>6, <2>1
  <2>3. Says(dirs, nearest, "Ask") <=> dirs[k] \in Speaks["Ask"]
    BY <1>2, <2>2 DEF Lists
  <2> QED BY <1>3, <1>4, <1>5, <1>9, <2>1, <2>3
<1> QED BY <1>7, <1>8, <1>9

\* What a settled document says is not changed by what is read later.
LEMMA SettledSpeaks ==
  ASSUME DOMAIN disk \subseteq DOMAIN disk', \A x \in DOMAIN disk : disk'[x] = disk[x],
         DOMAIN disk \subseteq Documents, NEW d \in Fine, NEW list \in Lists
  PROVE  d \in Speaks[list] <=> d \in Speaks'[list]
<1>1. d \in DOMAIN disk /\ d \in Documents
  BY DEF Fine
<1>2. PICK S \in SUBSET DOMAIN disk : d \in S /\ Sound(S)
  BY DEF Fine, Settled
<1>3. S \in SUBSET Documents /\ \A e \in S : disk[e].include \subseteq S /\ disk'[e] = disk[e]
  BY <1>2 DEF Sound
<1>4. Closed(S)
  BY <1>3 DEF Closed
<1>5. Reached(d) \subseteq S
  BY <1>2, <1>3, <1>4 DEF Reached
<1>6. ASSUME NEW e, e \in Reached(d)' PROVE e \in Reached(d)
  <2>1. ASSUME NEW T \in SUBSET Documents, d \in T, Closed(T) PROVE e \in T
    <3>1. T \cap S \in SUBSET Documents /\ d \in T \cap S
      BY <1>2, <1>3, <2>1
    <3>2. Closed(T \cap S)'
      BY <1>3, <2>1 DEF Closed
    <3> QED BY <1>6, <3>1, <3>2 DEF Reached
  <2>2. e \in Documents
    BY <1>6 DEF Reached
  <2> QED BY <2>1, <2>2 DEF Reached
<1>7. \A e : e \in Reached(d) => e \in Reached(d)'
  BY ReachedGrows
<1>8. Leads'[d] = Leads[d] /\ \A e \in Leads[d] : disk'[e] = disk[e]
  BY <1>1, <1>3, <1>5, <1>6, <1>7 DEF Leads
<1> QED BY <1>1, <1>8 DEF Speaks

\* What was told, and what is expected, of settled roots stays when more is read.
LEMMA SettledStaysTold ==
  ASSUME DOMAIN disk \subseteq DOMAIN disk', \A x \in DOMAIN disk : disk'[x] = disk[x],
         DOMAIN disk \subseteq Documents,
         NEW dirs \in Dirs, \A k \in Roots(dirs) : dirs[k] \in Fine
  PROVE  /\ \A ls : <<dirs, Speaks, ls>> \in Told => <<dirs, Speaks', ls>> \in Told
         /\ \A x : <<dirs, Speaks, x>> \in Expectations => <<dirs, Speaks', x>> \in Expectations
<1>1. \A k \in Roots(dirs) : \A list \in Lists : dirs[k] \in Speaks[list] <=> dirs[k] \in Speaks'[list]
  BY SettledSpeaks
<1>2. PICK sp \in Speakers, sq \in Speakers : sp = Speaks /\ sq = Speaks'
  BY SpeaksIs, SpeaksNext
<1>3. \A k \in Roots(dirs) : \A list \in Lists : dirs[k] \in sp[list] <=> dirs[k] \in sq[list]
  BY <1>1, <1>2
<1> QED BY <1>2, <1>3, SameRoots

LEMMA NothingReadSpeaks == ASSUME disk' = disk PROVE Speaks' = Speaks
BY NothingRead DEF Speaks

\* A layer holds the rules of its documents.
LEMMA CombinedRules ==
  ASSUME \A x \in DOMAIN disk : disk[x] \in Contents, NEW docs \in Seq(DOMAIN disk)
  PROVE  /\ CombineSameLayer(docs) \in Layer
         /\ \A list \in Lists : Range(CombineSameLayer(docs)[list]) =
                UNION {Range(disk[docs[i]][list]) : i \in 1..Len(docs)}
<1>1. /\ Len(docs) \in Nat /\ DOMAIN docs = 1..Len(docs)
      /\ \A i \in 1..Len(docs) : docs[i] \in DOMAIN disk
  OBVIOUS
<1> DEFINE Each(list) == [i \in DOMAIN docs |-> disk[docs[i]][list]]
           Union(list) == Unique(FlattenSeq(Each(list)))
           All(list) == UNION {Range(disk[docs[i]][list]) : i \in 1..Len(docs)}
<1>2. CombineSameLayer(docs) = [Deny |-> Union("Deny"), Ask |-> Union("Ask"), Allow |-> Union("Allow")]
  BY DEF CombineSameLayer
<1>3. ASSUME NEW list \in Lists
      PROVE  Union(list) \in Seq(Rules) /\ Range(Union(list)) = All(list)
  <2>1. \A i \in 1..Len(docs) : disk[docs[i]][list] \in Seq(Rules)
    BY <1>1, ContentsAssumption
  <2>2. /\ Each(list) \in [1..Len(docs) -> Seq(Rules)]
        /\ \A i \in 1..Len(docs) : Each(list)[i] = disk[docs[i]][list]
    BY <1>1, <2>1
  <2> HIDE DEF Each
  <2>3. PICK ss \in Seq(Seq(Rules)) : ss = Each(list)
    BY <1>1, <2>2, SeqDef
  <2>4. Len(ss) = Len(docs)
    BY <1>1, <2>2, <2>3
  <2>5. PICK f \in Seq(Rules) : f = FlattenSeq(ss)
    BY FlattenIs
  <2>6. Range(f) = UNION {Range(ss[i]) : i \in 1..Len(ss)}
    BY <2>5, FlattenRange
  <2>7. Range(f) = All(list)
    <3>1. \A i \in 1..Len(ss) : Range(ss[i]) = Range(disk[docs[i]][list])
      BY <2>2, <2>3, <2>4
    <3> QED BY <2>4, <2>6, <3>1
  <2>8. Unique(f) \in Seq(Rules) /\ Range(Unique(f)) = Range(f)
    BY UniqueKeeps
  <2> QED BY <2>3, <2>5, <2>7, <2>8
<1> HIDE DEF Union, Each
<1>4. CombineSameLayer(docs) \in Layer
  BY <1>2, <1>3 DEF Layer, Lists
<1>5. \A list \in Lists : CombineSameLayer(docs)[list] = Union(list)
  BY <1>2 DEF Lists
<1> QED BY <1>3, <1>4, <1>5

-----------------------------------------------------------------------------
(* Every walk has told so far what its directories call for. *)

\* The directories visited but the one whose root is being loaded.
Entered == IF stack = <<>> THEN at ELSE Front(at)
VerdictAt(i) ==
    /\ verdicts[i].merged = verdicts[i].layered
    /\ <<verdicts[i].at, Speaks, verdicts[i].layered[1]>> \in Expectations
DecideInv ==
    /\ CauseInv
    /\ Walking =>
        /\ <<policy, layers>> \in Alike
        /\ <<Entered, Speaks, layers>> \in Told
        /\ stack # <<>> => /\ loaded \subseteq Leads[stack[1].doc]
                           /\ stack[1].doc \notin Range(Entered)
    /\ \A i \in DOMAIN verdicts : VerdictAt(i)

LEMMA FrontOfAppend ==
  ASSUME NEW S, NEW s \in Seq(S), NEW x \in S
  PROVE  Front(Append(s, x)) = s
<1>1. PICK t \in Seq(S) : t = Append(s, x)
  BY AppendProperties
<1>2. Len(t) \in Nat \ {0} /\ Len(t) = Len(s) + 1 /\ \A i \in 1..Len(s) : t[i] = s[i]
  BY <1>1
<1>3. Front(t) \in Seq(S) /\ Len(Front(t)) = Len(t) - 1 /\ \A i \in 1..(Len(t) - 1) : Front(t)[i] = t[i]
  BY <1>2, FrontProperties
<1> QED BY <1>1, <1>2, <1>3

\* The root that is being loaded is that of the last directory.
LEMMA EnteredIs ==
  ASSUME CauseInv, Walking
  PROVE  /\ Entered \in Dirs
         /\ \A k \in Roots(Entered) : Entered[k] \in Fine
         /\ stack = <<>> => Entered = at
         /\ stack # <<>> => at = Append(Entered, stack[1].doc)
<1>1. at \in Dirs
  BY DEF CauseInv, Dirs
<1>2. CASE stack = <<>>
  BY <1>1, <1>2 DEF Entered, CauseInv
<1>3. CASE stack # <<>>
  <2>1. PICK dirs \in Dirs, n \in Nat \ {0} : dirs = at /\ n = Len(at)
    BY <1>1, <1>3 DEF CauseInv, Dirs
  <2>2. /\ Front(dirs) \in Dirs /\ Len(Front(dirs)) = n - 1
        /\ \A i \in 1..(n - 1) : Front(dirs)[i] = dirs[i]
    BY <2>1, FrontProperties DEF Dirs
  <2>3. dirs[n] \in Documents \cup {None}
    BY <2>1 DEF Dirs
  <2>4. dirs = Append(Front(dirs), dirs[n])
    BY <2>1, <2>2, <2>3 DEF Dirs
  <2>5. DOMAIN Front(dirs) = 1..(n - 1) /\ DOMAIN dirs = 1..n
    BY <2>1, <2>2 DEF Dirs
  <2>6. \A k \in 1..(n - 1) : 1..(k - 1) \subseteq 1..(n - 1) /\ k \in 1..n /\ k # n
    BY <2>1
  <2>7. \A k \in Roots(Front(dirs)) :
            k \in 1..(n - 1) /\ k \in Roots(dirs) /\ Front(dirs)[k] = dirs[k]
    BY <2>2, <2>5, <2>6 DEF Roots
  <2>8. Entered = Front(dirs) /\ stack[1].doc = dirs[n]
    BY <1>3, <2>1 DEF Entered, CauseInv
  <2>9. \A k \in Roots(dirs) : dirs[k] \in Fine \/ k = n
    BY <2>1 DEF CauseInv
  <2> QED BY <1>3, <2>1, <2>2, <2>4, <2>6, <2>7, <2>8, <2>9
<1> QED BY <1>2, <1>3

\* Reading more keeps what was told and the verdicts.
LEMMA MoreReadKeeps ==
  ASSUME DecideInv, Walking,
         DOMAIN disk \subseteq DOMAIN disk', \A x \in DOMAIN disk : disk'[x] = disk[x],
         verdicts' = verdicts
  PROVE  /\ <<Entered, Speaks', layers>> \in Told
         /\ \A i \in DOMAIN verdicts' : VerdictAt(i)'
<1>1. DOMAIN disk \subseteq Documents /\ CauseInv
  BY DEF DecideInv, CauseInv, LoadInv, LoadType
<1>2. PICK dirs \in Dirs : dirs = Entered
  BY <1>1, EnteredIs
<1>3. <<dirs, Speaks', layers>> \in Told
  <2>1. \A k \in Roots(dirs) : dirs[k] \in Fine
    BY <1>1, <1>2, EnteredIs
  <2>2. <<dirs, Speaks, layers>> \in Told
    BY <1>2 DEF DecideInv
  <2> QED BY <1>1, <2>1, <2>2, SettledStaysTold
<1>4. ASSUME NEW i \in DOMAIN verdicts
      PROVE  VerdictAt(i)'
  <2>1. PICK v : v = verdicts[i] /\ v = verdicts'[i]
    OBVIOUS
  <2>2. v.merged = v.layered /\ <<v.at, Speaks, v.layered[1]>> \in Expectations
    BY <2>1 DEF DecideInv, VerdictAt
  <2>3. \A k \in Roots(v.at) : v.at[k] \in Fine
    BY <1>1, <2>1 DEF CauseInv
  <2>4. v.at \in Dirs
    BY <2>2 DEF Expectations
  <2>5. <<v.at, Speaks', v.layered[1]>> \in Expectations
    BY <1>1, <2>2, <2>3, <2>4, SettledStaysTold
  <2> QED BY <2>1, <2>2, <2>5 DEF VerdictAt
<1> QED BY <1>2, <1>3, <1>4

LEMMA InitDecideInv == Init => DecideInv
<1> SUFFICES ASSUME Init PROVE DecideInv
  OBVIOUS
<1>1. policy = NoPolicy /\ layers = <<>> /\ at = <<>> /\ stack = <<>> /\ verdicts = <<>>
  BY DEF Init
<1>2. <<policy, layers>> \in Alike
  BY <1>1, AlikeAtFirst
<1>3. <<Entered, Speaks, layers>> \in Told
  BY <1>1, SpeaksIs, ToldAtFirst DEF Entered
<1>4. DOMAIN verdicts = {}
  BY <1>1
<1> QED BY <1>1, <1>2, <1>3, <1>4, InitCauseInv DEF DecideInv

LEMMA VisitDirectoryDecideInv == DecideInv /\ VisitDirectory => DecideInv'
<1> SUFFICES ASSUME DecideInv, VisitDirectory PROVE DecideInv'
  OBVIOUS
<1>1. PICK d \in Documents \cup {None} :
          /\ at' = Append(at, d)
          /\ IF d = None \/ d \in Range(at)
             THEN UNCHANGED <<disk, stack, loaded, sources, outcome>>
             ELSE Enter(d, <<>>) /\ NewRoot
  BY DEF VisitDirectory, DecideInv, CauseInv, LoadInv, LoadType
<1>2. CauseInv /\ CauseInv' /\ LoadType
  BY VisitDirectoryCauseInv DEF DecideInv, CauseInv, LoadInv
<1>3. UNCHANGED <<layers, policy, verdicts>> /\ Walking /\ stack = <<>>
  BY DEF VisitDirectory
<1>4. Entered = at
  BY <1>3 DEF Entered
<1>5. CASE (d = None \/ d \in Range(at)) /\ UNCHANGED <<disk, stack, loaded, sources, outcome>>
  <2>1. Speaks' = Speaks
    BY <1>5, NothingReadSpeaks
  <2>2. Entered' = Append(at, d)
    BY <1>1, <1>3, <1>5 DEF Entered
  <2>3. <<Append(at, d), Speaks, layers>> \in Told
    BY <1>3, <1>4, <1>5, ToldSkip DEF DecideInv
  <2>4. \A i \in DOMAIN verdicts' : VerdictAt(i)'
    BY <1>3, <2>1 DEF DecideInv, VerdictAt
  <2> QED BY <1>2, <1>3, <1>5, <2>1, <2>2, <2>3, <2>4 DEF DecideInv
<1>6. CASE d \in Documents /\ d \notin Range(at) /\ Enter(d, <<>>) /\ NewRoot
  <2>1. DOMAIN disk \subseteq DOMAIN disk' /\ \A x \in DOMAIN disk : disk'[x] = disk[x]
    BY <1>2, <1>6, ReadDisk DEF Enter
  <2>2. /\ <<Entered, Speaks', layers>> \in Told
        /\ \A i \in DOMAIN verdicts' : VerdictAt(i)'
    BY <1>3, <2>1, MoreReadKeeps
  <2>3. CASE disk'[d].ok
    <3>1. stack' = <<[doc |-> d, todo |-> disk'[d].include]>> /\ loaded' = {} /\ Walking'
      BY <1>3, <1>6, <2>3 DEF Enter, NewRoot, Walking
    <3>2. stack' # <<>> /\ stack'[1].doc = d
      BY <3>1
    <3>3. Entered' = at
      <4>1. Front(at') = at
        BY <1>1, <1>2, FrontOfAppend DEF CauseInv
      <4> QED BY <3>2, <4>1 DEF Entered
    <3> QED BY <1>2, <1>3, <1>4, <1>6, <2>2, <3>1, <3>2, <3>3 DEF DecideInv
  <2>4. CASE ~disk'[d].ok
    <3>1. ~Walking'
      BY <1>6, <2>4 DEF Enter, Walking
    <3> QED BY <1>2, <2>2, <3>1 DEF DecideInv
  <2> QED BY <2>3, <2>4
<1> QED BY <1>1, <1>5, <1>6

LEMMA VisitIncludeDecideInv == DecideInv /\ VisitInclude => DecideInv'
<1> SUFFICES ASSUME DecideInv, VisitInclude PROVE DecideInv'
  OBVIOUS
<1>1. PICK d \in Top.todo \ (Active \cup loaded) : Enter(d, Advanced(d))
  BY DEF VisitInclude
<1>2. UNCHANGED <<at, loaded, layers, policy, verdicts>> /\ Walking /\ stack # <<>>
  BY DEF VisitInclude
<1>3. CauseInv /\ CauseInv' /\ LoadType
  BY VisitIncludeCauseInv DEF DecideInv, CauseInv, LoadInv
<1>4. Len(stack) \in Nat \ {0} /\ stack[Len(stack)] \in Frame /\ stack[1] \in Frame
  BY <1>2, <1>3 DEF LoadType
<1>5. d \in Documents
  BY <1>1, <1>3, <1>4 DEF Top, Last, Frame
<1>6. DOMAIN disk \subseteq DOMAIN disk' /\ \A x \in DOMAIN disk : disk'[x] = disk[x]
  BY <1>1, <1>3, <1>5, ReadDisk DEF Enter
<1>7. /\ <<Entered, Speaks', layers>> \in Told
      /\ \A i \in DOMAIN verdicts' : VerdictAt(i)'
  BY <1>2, <1>6, MoreReadKeeps
<1>8. CASE ~disk'[d].ok
  <2>1. ~Walking'
    BY <1>1, <1>8 DEF Enter, Walking
  <2> QED BY <1>3, <1>7, <2>1 DEF DecideInv
<1>9. CASE disk'[d].ok
  <2>1. /\ stack' = Append(Advanced(d), [doc |-> d, todo |-> disk'[d].include]) /\ Walking'
    BY <1>1, <1>2, <1>9 DEF Enter, Walking
  <2>2. Advanced(d) \in Seq(Frame) /\ Len(Advanced(d)) = Len(stack) /\ Advanced(d)[1].doc = stack[1].doc
    BY <1>2, <1>3, <1>4, AdvancedStack
  <2>3. stack' # <<>> /\ stack'[1].doc = stack[1].doc
    BY <1>4, <2>1, <2>2
  <2>4. Entered' = Entered
    BY <1>2, <2>3 DEF Entered
  <2>5. stack[1].doc \in Documents /\ Leads[stack[1].doc] \subseteq Leads'[stack[1].doc]
    BY <1>4, <1>6, LeadsGrow DEF Frame
  <2>6. loaded' \subseteq Leads'[stack'[1].doc] /\ stack'[1].doc \notin Range(Entered')
    BY <1>2, <2>3, <2>4, <2>5 DEF DecideInv
  <2>7. <<policy', layers'>> \in Alike /\ <<Entered', Speaks', layers'>> \in Told
    BY <1>2, <1>7, <2>4 DEF DecideInv
  <2> QED BY <1>3, <1>7, <2>6, <2>7 DEF DecideInv
<1> QED BY <1>8, <1>9

LEMMA SkipLoadedDecideInv == DecideInv /\ SkipLoaded => DecideInv'
<1> SUFFICES ASSUME DecideInv, SkipLoaded PROVE DecideInv'
  OBVIOUS
<1>1. PICK d : stack' = Advanced(d)
  BY DEF SkipLoaded
<1>2. UNCHANGED <<disk, at, loaded, layers, policy, verdicts, outcome>> /\ Walking /\ stack # <<>>
  BY DEF SkipLoaded
<1>3. CauseInv /\ CauseInv' /\ LoadType
  BY SkipLoadedCauseInv DEF DecideInv, CauseInv, LoadInv
<1>4. /\ Len(stack) \in Nat \ {0} /\ Len(stack') = Len(stack) /\ stack' \in Seq(Frame)
      /\ \A i \in 1..Len(stack) : stack'[i].doc = stack[i].doc
  BY <1>1, <1>2, <1>3, AdvancedStack
<1>5. stack' # <<>> /\ stack'[1].doc = stack[1].doc
  BY <1>4
<1>6. Entered' = Entered /\ Speaks' = Speaks /\ Leads' = Leads
  BY <1>2, <1>5, NothingRead, NothingReadSpeaks DEF Entered
<1>7. \A i \in DOMAIN verdicts' : VerdictAt(i)'
  BY <1>2, <1>6 DEF DecideInv, VerdictAt
<1> QED BY <1>2, <1>3, <1>5, <1>6, <1>7 DEF DecideInv

\* With its root the documents it loaded are all that the root leads to.
LEMMA LeaveDocumentDecideInv == DecideInv /\ LeaveDocument => DecideInv'
<1> SUFFICES ASSUME DecideInv, LeaveDocument PROVE DecideInv'
  OBVIOUS
<1> DEFINE n == Len(stack)
           d == stack[n].doc
<1>1. /\ UNCHANGED <<disk, at, verdicts, outcome>> /\ Walking /\ stack # <<>>
      /\ stack' = Front(stack) /\ loaded' = Marked
      /\ IF n = 1
         THEN /\ layers' = Append(layers, CombineSameLayer(sources'))
              /\ policy' = MergedWith(policy, CombineSameLayer(sources'))
         ELSE UNCHANGED <<layers, policy>>
  BY DEF LeaveDocument
<1>2. CauseInv /\ CauseInv' /\ LoadInv /\ LoadInv'
  BY LeaveDocumentCauseInv DEF DecideInv, CauseInv
<1>3. n \in Nat \ {0} /\ stack \in Seq(Frame) /\ stack[1] \in Frame /\ Top = stack[n]
  BY <1>1, <1>2 DEF LoadInv, LoadType, Top, Last
<1>4. /\ stack' \in Seq(Frame) /\ Len(stack') = n - 1
      /\ \A i \in 1..(n - 1) : stack'[i] = stack[i]
  BY <1>1, <1>3, FrontProperties
<1>5. Speaks' = Speaks /\ Leads' = Leads
  BY <1>1, NothingRead, NothingReadSpeaks
<1>6. \A i \in DOMAIN verdicts' : VerdictAt(i)'
  BY <1>1, <1>5 DEF DecideInv, VerdictAt
<1>7. loaded' \subseteq Leads[stack[1].doc]
  <2>1. d \in Leads[stack[1].doc]
    BY <1>1, <1>2, <1>3 DEF CauseInv, ChainedAt
  <2> QED BY <1>1, <1>3, <2>1 DEF Marked, DecideInv
<1>8. CASE n # 1
  <2>1. stack' # <<>> /\ stack'[1] = stack[1]
    BY <1>3, <1>4, <1>8
  <2>2. Entered' = Entered
    BY <1>1, <2>1 DEF Entered
  <2> QED BY <1>1, <1>2, <1>5, <1>6, <1>7, <1>8, <2>1, <2>2 DEF DecideInv
<1>9. CASE n = 1
  <2>1. stack' = <<>> /\ d = stack[1].doc /\ d \in Documents
    BY <1>3, <1>4, <1>9 DEF Frame
  <2>2. Entered' = Append(Entered, d)
    BY <1>1, <1>2, <2>1, EnteredIs DEF Entered
  <2>3. /\ sources' \in Seq(Documents) /\ loaded' = {sources'[i] : i \in 1..Len(sources')}
        /\ loaded' \subseteq DOMAIN disk /\ DOMAIN disk \subseteq Documents
        /\ \A x \in DOMAIN disk : disk[x] \in Contents
    BY <1>1, <1>2 DEF LoadInv, LoadType
  <2>4. PICK docs \in Seq(DOMAIN disk) : docs = sources'
    <3>1. Len(sources') \in Nat /\ DOMAIN sources' = 1..Len(sources')
      BY <2>3
    <3> QED BY <2>3, <3>1, SeqDef
  <2>5. Leads[d] = {docs[i] : i \in 1..Len(docs)}
    <3>1. d \in loaded'
      BY <1>1, <1>3 DEF Marked
    <3>2. \A i \in 1..Len(docs) : disk[docs[i]].include \subseteq {docs[j] : j \in 1..Len(docs)}
      <4>1. Len(docs) \in Nat /\ DOMAIN docs = 1..Len(docs)
        OBVIOUS
      <4>2. \A i \in 1..Len(docs) : disk[docs[i]].include \subseteq {docs[j] : j \in 1..(i - 1)}
        BY <1>1, <1>2, <2>4, <4>1 DEF LoadInv, IncludesFirst
      <4>3. \A i \in 1..Len(docs) : 1..(i - 1) \subseteq 1..Len(docs)
        BY <4>1
      <4> QED BY <4>2, <4>3
    <3>3. Closed(loaded') /\ loaded' \in SUBSET Documents
      BY <2>3, <2>4, <3>2 DEF Closed
    <3>4. Reached(d) \subseteq loaded'
      BY <3>1, <3>3 DEF Reached
    <3>5. Leads[d] \subseteq loaded'
      BY <2>1, <3>4 DEF Leads
    <3> QED BY <1>7, <2>1, <2>3, <2>4, <3>5
  <2>6. PICK L \in Layer :
            /\ L = CombineSameLayer(docs)
            /\ \A list \in Lists : Range(L[list]) = UNION {Range(disk[docs[i]][list]) : i \in 1..Len(docs)}
    BY <2>3, CombinedRules
  <2>7. layers' = Append(layers, L) /\ policy' = MergedWith(policy, L)
    BY <1>1, <1>9, <2>4, <2>6
  <2>8. <<policy, layers>> \in Alike /\ <<Entered, Speaks, layers>> \in Told
    BY <1>1 DEF DecideInv
  <2>9. <<policy', layers'>> \in Alike
    <3>1. PICK p, ls : p = policy /\ ls = layers
      OBVIOUS
    <3>2. <<MergedWith(p, L), Append(ls, L)>> \in Alike
      BY <2>8, <3>1, AlikeMerged
    <3> QED BY <2>7, <3>1, <3>2
  <2>10. \A list \in Lists :
            d \in Speaks[list] <=> \E rule \in Range(L[list]) : <<list, rule>> \in Matching
    <3> SUFFICES ASSUME NEW list \in Lists
                 PROVE  d \in Speaks[list] <=>
                            \E rule \in Range(L[list]) : <<list, rule>> \in Matching
      OBVIOUS
    <3>1. PICK x : x = d
      OBVIOUS
    <3> HIDE DEF d
    <3>2. x \in Speaks[list] <=>
              \E e \in Leads[x] : \E rule \in Range(disk[e][list]) : <<list, rule>> \in Matching
      BY <2>1, <3>1 DEF Speaks
    <3>3. Leads[x] = {docs[i] : i \in 1..Len(docs)}
      BY <2>5, <3>1
    <3>4. Range(L[list]) = UNION {Range(disk[docs[i]][list]) : i \in 1..Len(docs)}
      BY <2>6
    <3> QED BY <3>1, <3>2, <3>3, <3>4
  <2>11. <<Entered', Speaks', layers'>> \in Told
    <3>1. PICK dirs, sp, ls : dirs = Entered /\ sp = Speaks /\ ls = layers
      OBVIOUS
    <3>2. d \notin Range(dirs)
      BY <1>1, <2>1, <3>1 DEF DecideInv
    <3> HIDE DEF d
    <3>3. <<Append(dirs, d), sp, Append(ls, L)>> \in Told
      BY <2>1, <2>8, <2>10, <3>1, <3>2, ToldRoot
    <3> QED BY <1>5, <2>2, <2>7, <3>1, <3>3
  <2> QED BY <1>2, <1>6, <2>1, <2>9, <2>11 DEF DecideInv
<1> QED BY <1>8, <1>9

\* The verdict of a walk is the one its directories call for, decided either way.
LEMMA FinishWalkDecideInv == DecideInv /\ FinishWalk => DecideInv'
<1> SUFFICES ASSUME DecideInv, FinishWalk PROVE DecideInv'
  OBVIOUS
<1>1. PICK v : /\ v = [at |-> at, layered |-> DecideLayers, merged |-> DecideMerged]
               /\ verdicts' = Append(verdicts, v)
  BY DEF FinishWalk
<1>2. disk' = disk /\ Walking /\ stack = <<>>
  BY DEF FinishWalk
<1>3. CauseInv /\ CauseInv'
  BY FinishWalkCauseInv DEF DecideInv
<1>4. Speaks' = Speaks /\ Leads' = Leads
  BY <1>2, NothingRead, NothingReadSpeaks
<1>5. Entered = at /\ <<policy, layers>> \in Alike /\ <<at, Speaks, layers>> \in Told
  BY <1>2 DEF DecideInv, Entered
<1>6. v.merged = v.layered /\ <<v.at, Speaks, v.layered[1]>> \in Expectations
  <2>1. PICK p, ls : p = policy /\ ls = layers
    OBVIOUS
  <2>2. PICK m : m = FirstMatch(Denies(ls) \o Others(ls))
    OBVIOUS
  <2>3. v.layered = m
    BY <1>1, <2>1, <2>2 DEF DecideLayers, LayerDenies, LayerOthers, Denies, Others, Denials, Opinions
  <2>4. v.merged = m
    BY <1>1, <1>5, <2>1, <2>2, AlikeDecide DEF DecideMerged
  <2>5. <<at, Speaks, m[1]>> \in Expectations
    BY <1>5, <2>1, <2>2, ToldDecide
  <2> QED BY <1>1, <2>3, <2>4, <2>5
<1>7. \A i \in DOMAIN verdicts' : VerdictAt(i)'
  <2>1. PICK S : verdicts \in Seq(S)
    BY <1>3 DEF CauseInv
  <2>2. verdicts \in Seq(S \cup {v})
    BY <2>1, SeqDef
  <2>3. \A i \in DOMAIN verdicts' : verdicts'[i] = v \/ (i \in DOMAIN verdicts /\ verdicts'[i] = verdicts[i])
    BY <1>1, <2>2
  <2>4. \A i \in DOMAIN verdicts : VerdictAt(i)
    BY DEF DecideInv
  <2> QED BY <1>4, <1>6, <2>3, <2>4 DEF VerdictAt
<1>8. CASE outcome' = "decided" /\ UNCHANGED walk
  <2>1. ~Walking'
    BY <1>8 DEF Walking
  <2> QED BY <1>3, <1>7, <2>1 DEF DecideInv
<1>9. CASE /\ at' = <<>> /\ stack' = <<>> /\ layers' = <<>> /\ policy' = NoPolicy
           /\ outcome' = outcome
  <2>1. Entered' = <<>>
    BY <1>9 DEF Entered
  <2>2. <<policy', layers'>> \in Alike /\ <<Entered', Speaks', layers'>> \in Told
    BY <1>9, <2>1, SpeaksNext, AlikeAtFirst, ToldAtFirst
  <2> QED BY <1>3, <1>7, <1>9, <2>2 DEF DecideInv
<1> QED BY <1>8, <1>9 DEF FinishWalk

LEMMA NextDecideInv == DecideInv /\ [Next]_vars => DecideInv'
<1> SUFFICES ASSUME DecideInv, [Next]_vars PROVE DecideInv'
  OBVIOUS
<1>1. CauseInv'
  BY NextCauseInv DEF DecideInv
<1>2. CASE RefuseCycle
  <2>1. Speaks' = Speaks /\ verdicts' = verdicts /\ ~Walking'
    BY <1>2, NothingReadSpeaks DEF RefuseCycle, Walking
  <2>2. \A i \in DOMAIN verdicts' : VerdictAt(i)'
    BY <2>1 DEF DecideInv, VerdictAt
  <2> QED BY <1>1, <2>1, <2>2 DEF DecideInv
<1>3. CASE UNCHANGED vars
  <2>1. Speaks' = Speaks /\ Leads' = Leads /\ Entered' = Entered
    BY <1>3, NothingRead, NothingReadSpeaks DEF vars, walk, Entered
  <2>2. \A i \in DOMAIN verdicts' : VerdictAt(i)'
    BY <1>3, <2>1 DEF vars, DecideInv, VerdictAt
  <2> QED BY <1>1, <1>3, <2>1, <2>2 DEF vars, walk, DecideInv, Walking
<1> QED BY <1>2, <1>3, VisitDirectoryDecideInv, VisitIncludeDecideInv, SkipLoadedDecideInv,
     LeaveDocumentDecideInv, FinishWalkDecideInv DEF Next

LEMMA AlwaysDecided == Spec => []DecideInv
BY InitDecideInv, NextDecideInv, PTL DEF Spec

\* The verdict of a walk is the one that the include graph calls for, for any documents,
\* rules and directories: the floor of denials, then the nearest root with an opinion
\* (_load_policy_sources, _combine_same_layer and _decide_layers).
THEOREM NearestDecides == Spec => []NearestWins
<1>1. DecideInv => NearestWins
  <2> SUFFICES ASSUME DecideInv, NEW i \in DOMAIN verdicts
               PROVE  verdicts[i].layered[1] = Expected(verdicts[i].at)
    BY DEF NearestWins
  <2>1. PICK v : v = verdicts[i]
    OBVIOUS
  <2> QED BY <2>1, ExpectedIs DEF DecideInv, VerdictAt
<1> QED BY <1>1, AlwaysDecided, PTL

\* The merged policy gives the verdict, and cites the rule, that the layers give
\* (merged_with and Policy.decide against _decide_layers).
THEOREM MergedDecides == Spec => []MergedAsLayered
<1>1. DecideInv => MergedAsLayered
  BY DEF DecideInv, VerdictAt, MergedAsLayered
<1> QED BY <1>1, AlwaysDecided, PTL

\* However many targets a request names, it is approved only where the include graph
\* of each calls for that, and denied where one calls for that (aggregate).
THEOREM TargetsApproved == Spec => []AllTargetsApproved
<1>1. DecideInv => AllTargetsApproved
  <2> SUFFICES ASSUME DecideInv PROVE AllTargetsApproved
    OBVIOUS
  <2>1. \A i \in DOMAIN verdicts : verdicts[i].layered[1] = Expected(verdicts[i].at)
                                   /\ verdicts[i].layered[1] \in Decisions
    <3> SUFFICES ASSUME NEW i \in DOMAIN verdicts
                 PROVE  verdicts[i].layered[1] = Expected(verdicts[i].at)
                        /\ verdicts[i].layered[1] \in Decisions
      OBVIOUS
    <3>1. PICK v : v = verdicts[i]
      OBVIOUS
    <3>2. <<v.at, Speaks, v.layered[1]>> \in Expectations
      BY <3>1 DEF DecideInv, VerdictAt
    <3>3. v.layered[1] \in Decisions
      BY <3>2 DEF Expectations
    <3> QED BY <3>1, <3>2, <3>3, ExpectedIs
  <2>2. PICK said \in SUBSET Decisions : said = {verdicts[i].layered[1] : i \in DOMAIN verdicts}
    BY <2>1
  <2>3. said = {Expected(verdicts[i].at) : i \in DOMAIN verdicts}
    BY <2>1, <2>2
  <2>4. Decision = Aggregate(said)
    BY <2>2 DEF Decision
  <2> QED BY <2>3, <2>4, AggregateIs DEF AllTargetsApproved
<1> QED BY <1>1, AlwaysDecided, PTL
=============================================================================
