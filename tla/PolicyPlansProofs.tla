------------------------- MODULE PolicyPlansProofs -------------------------
(* Theorems about PolicyPlans, for every value of its constants: what the protocol  *)
(* does to plans, and what to the policy files when nobody else changes the files   *)
(* of a plan meanwhile; and that it implements PolicyStore, for every sole writer.  *)
EXTENDS PolicyPlansStore, TLAPS

\* Where p's loop over the files of a plan stands, and which call runs it.
LoopAt(p) ==
    /\ pc[p] \in {"checking", "writing", "validating"} =>
            job[p].next \in 1..Len(job[p].items)
    /\ pc[p] = "restoring" => job[p].next \in 0..Len(job[p].items)
    /\ pc[p] \in {"checking", "persisting"} => Len(job[p].items) > 0
    /\ pc[p] = "persisting" => job[p].next = 1
    /\ pc[p] \in {"persisting", "writing", "validating", "closing"} =>
            job[p].kind = "apply"
    /\ pc[p] \notin {"idle", "planning"} => job[p].id \in Ids
    /\ Changing(p) /\ job[p].kind = "apply" => job[p].undo \in Ids
LoopOK == \A p \in Procs : LoopAt(p)

\* A document in the directory is the one its id was written with, and it
\* changes at least one file.
DocsOK ==
    \A d \in Ids :
        /\ docs[d] # NoDoc => docs[d] = log[d]
        /\ log[d] # NoDoc => Len(log[d].items) > 0

TypeInv == TypeOK /\ LoopOK /\ DocsOK

\* The initial states are well typed.
LEMMA InitTypeInv == Init => TypeInv
<1> SUFFICES ASSUME Init PROVE TypeInv
  OBVIOUS
<1>1. TypeOK
  BY TextAssumption, BoundAssumption
  DEF Init, TypeOK, NoJob, Job, Contents, Phases, Results
<1>2. LoopOK /\ DocsOK
  BY DEF Init, LoopOK, LoopAt, Changing, DocsOK
<1> QED BY <1>1, <1>2 DEF TypeInv

\* The item a loop is at is an item of a plan.
LEMMA CurrentItem ==
  ASSUME TypeInv, NEW p \in Procs,
         job[p].next \in 1..Len(job[p].items)
  PROVE  Current(p) \in Item
BY DEF TypeInv, TypeOK, Job, Current

\* Moving a job's loop counter changes nothing else of it.
LEMMA NextJob ==
  ASSUME NEW j \in Job, NEW n \in Nat
  PROVE  /\ [j EXCEPT !.next = n] \in Job
         /\ [j EXCEPT !.next = n].next = n
         /\ [j EXCEPT !.next = n].items = j.items
         /\ [j EXCEPT !.next = n].kind = j.kind
         /\ [j EXCEPT !.next = n].id = j.id
         /\ [j EXCEPT !.next = n].undo = j.undo
         /\ [j EXCEPT !.next = n].todo = j.todo
BY DEF Job

\* Nor does noting its undo plan.
LEMMA UndoJob ==
  ASSUME NEW j \in Job, NEW d \in Ids
  PROVE  /\ [j EXCEPT !.undo = d] \in Job
         /\ [j EXCEPT !.undo = d].undo = d
         /\ [j EXCEPT !.undo = d].next = j.next
         /\ [j EXCEPT !.undo = d].items = j.items
         /\ [j EXCEPT !.undo = d].kind = j.kind
         /\ [j EXCEPT !.undo = d].id = j.id
         /\ [j EXCEPT !.undo = d].todo = j.todo
BY DEF Job

\* A loop step keeps the job well typed and stays within the plan.
LEMMA LoopStep ==
  ASSUME TypeInv, NEW p \in Procs, NEW phase \in Phases, NEW first \in Nat,
         job[p].next \in 1..Len(job[p].items),
         LoopUp(p, phase, first)
  PROVE  /\ pc' \in [Procs -> Phases] /\ job' \in [Procs -> Job]
         /\ \A q \in Procs \ {p} : pc'[q] = pc[q] /\ job'[q] = job[q]
         /\ job'[p].items = job[p].items /\ job'[p].kind = job[p].kind
         /\ job'[p].id = job[p].id /\ job'[p].undo = job[p].undo
         /\ job'[p].todo = job[p].todo
         /\ \/ pc'[p] = pc[p] /\ job'[p].next = job[p].next + 1
               /\ job[p].next < Len(job[p].items)
            \/ pc'[p] = phase /\ job'[p].next = first
               /\ job[p].next = Len(job[p].items)
<1> USE DEF TypeInv, TypeOK
<1>0. job[p] \in Job /\ job[p].next \in Nat /\ Len(job[p].items) \in Nat
  BY DEF Job
<1>1. CASE Last(p)
  <2>1. job' = [job EXCEPT ![p] = [job[p] EXCEPT !.next = first]]
    BY <1>1 DEF LoopUp
  <2>2. pc' = [pc EXCEPT ![p] = phase]
    BY <1>1 DEF LoopUp, Goto
  <2> QED BY <1>0, <1>1, <2>1, <2>2, NextJob DEF Last
<1>2. CASE ~Last(p)
  <2>1. job' = [job EXCEPT ![p] = [job[p] EXCEPT !.next = job[p].next + 1]] /\ pc' = pc
    BY <1>2 DEF LoopUp
  <2>2. job[p].next + 1 \in Nat /\ job[p].next < Len(job[p].items)
    BY <1>0, <1>2 DEF Last
  <2> QED BY <1>0, <2>1, <2>2, NextJob
<1> QED BY <1>1, <1>2

\* The local variables of a call that starts.
LEMMA FreshJob ==
  /\ NoJob \in Job
  /\ \A r \in Seq(Targets) : [NoJob EXCEPT !.todo = r] \in Job
  /\ \A d \in Ids, doc \in Doc :
        [NoJob EXCEPT !.id = d, !.kind = doc.kind, !.items = doc.items, !.next = 1] \in Job
<1>1. NoJob \in Job
  BY DEF NoJob, Job
<1>2. ASSUME NEW r \in Seq(Targets) PROVE [NoJob EXCEPT !.todo = r] \in Job
  BY <1>1 DEF Job
<1>3. ASSUME NEW d \in Ids, NEW doc \in Doc
      PROVE  [NoJob EXCEPT !.id = d, !.kind = doc.kind, !.items = doc.items, !.next = 1] \in Job
  BY <1>1 DEF Job, Doc
<1> QED BY <1>1, <1>2, <1>3

\* A failing write takes one off the fault budget.
LEMMA FaultType ==
  ASSUME left \in [faults : Nat, crashes : Nat, edits : Nat], Fault
  PROVE  left' \in [faults : Nat, crashes : Nat, edits : Nat]
BY DEF Fault

\* A call that returns leaves a phase and a result.
LEMMA ReturnType ==
  ASSUME TypeOK, NEW p \in Procs, NEW outcome \in Results, Return(p, outcome)
  PROVE  /\ pc' \in [Procs -> Phases] /\ result' \in [Procs -> Results]
         /\ pc'[p] = "idle" /\ \A q \in Procs \ {p} : pc'[q] = pc[q]
BY DEF TypeOK, Return, Goto, Phases

\* Dropping expired documents takes away none that is still valid.
LEMMA PurgeDrops ==
  ASSUME TypeOK, docs' \in {docs, Purged}
  PROVE  /\ docs' \in [Ids -> Doc \cup {NoDoc}]
         /\ \A d \in Ids : /\ docs'[d] # NoDoc => docs'[d] = docs[d]
                           /\ docs[d] # NoDoc => docs'[d] = docs[d] \/ docs[d].expires < now
BY DEF TypeOK, Purged, Expired

\* Storing a document purges others and keeps the directory well formed.
LEMMA StoredType ==
  ASSUME TypeOK, DocsOK, NEW d \in Ids, NEW kind \in {"apply", "undo"},
         NEW items \in Seq(Item), Stored(d, kind, items)
  PROVE  /\ docs' \in [Ids -> Doc \cup {NoDoc}]
         /\ log' \in [Ids -> Doc \cup {NoDoc}]
         /\ Len(items) > 0 => DocsOK'
<1> DEFINE new == [kind |-> kind, items |-> items, expires |-> now + TTL]
<1>1. new \in Doc /\ new.items = items
  BY BoundAssumption DEF Doc, TypeOK
<1>2. /\ docs' = [x \in Ids |-> IF x = d THEN new
                                ELSE IF Expired(x) THEN NoDoc ELSE docs[x]]
      /\ log' = [log EXCEPT ![d] = new]
  BY DEF Stored, Purged
<1> HIDE DEF new
<1> QED BY <1>1, <1>2 DEF TypeOK, DocsOK

\* Deleting a document, or failing to, keeps the directory well formed.
LEMMA DeletedType ==
  ASSUME TypeOK, DocsOK, NEW d \in Ids, NEW ok \in BOOLEAN, Deleted(d, ok), log' = log
  PROVE  /\ docs' \in [Ids -> Doc \cup {NoDoc}] /\ DocsOK'
         /\ left' \in [faults : Nat, crashes : Nat, edits : Nat]
<1>1. CASE ok
  BY <1>1 DEF Deleted, TypeOK, DocsOK
<1>2. CASE ~ok
  BY <1>2 DEF Deleted, TypeOK, DocsOK
<1> QED BY <1>1, <1>2

\* A process that moves on leaves the others where they are.
LEMMA OneProcess ==
  ASSUME LoopOK, NEW p \in Procs,
         \A q \in Procs \ {p} : pc'[q] = pc[q] /\ job'[q] = job[q],
         LoopAt(p)'
  PROVE  LoopOK'
BY DEF LoopOK, LoopAt, Changing

\* Every step of the protocol keeps the types and the loop positions.
LEMMA NextTypeInv == TypeInv /\ [Next]_vars => TypeInv'
<1> SUFFICES ASSUME TypeInv, [Next]_vars PROVE TypeInv'
  OBVIOUS
<1> USE DEF TypeInv, directory
<1>1. ASSUME NEW p \in Procs, PlanStart(p) PROVE TypeInv'
  <2>1. TypeOK'
    <3>1. PICK r \in Requests : job' = [job EXCEPT ![p] = [NoJob EXCEPT !.todo = r]]
      BY <1>1 DEF PlanStart
    <3>2. job' \in [Procs -> Job]
      BY <3>1, FreshJob, RequestAssumption DEF TypeOK
    <3> QED BY <1>1, <3>2 DEF PlanStart, TypeOK, Goto, Phases, Results
  <2>2. LoopOK'
    <3>1. \A q \in Procs \ {p} : pc'[q] = pc[q] /\ job'[q] = job[q]
      BY <1>1 DEF PlanStart, TypeOK, LoopOK, LoopAt, Goto, NoJob
    <3>2. LoopAt(p)'
      BY <1>1 DEF PlanStart, LoopOK, LoopAt, DocsOK, Changing, TypeOK, Goto, NoJob
    <3> QED BY <3>1, <3>2, OneProcess
  <2>3. DocsOK'
    BY <1>1 DEF PlanStart, TypeOK, LoopOK, DocsOK
  <2> QED BY <2>1, <2>2, <2>3
<1>2. ASSUME NEW p \in Procs, PlanRead(p) PROVE TypeInv'
  <2>1. TypeOK'
    <3> DEFINE t == Head(job[p].todo)
    <3>1. PICK after \in Valid :
            job' = [job EXCEPT
                ![p].todo = Tail(@),
                ![p].items = IF after = text[t] THEN @
                             ELSE Append(@, [target |-> t, before |-> text[t],
                                             after |-> after])]
      BY <1>2 DEF PlanRead
    <3>2. t \in Targets /\ Tail(job[p].todo) \in Seq(Targets) /\ job[p] \in Job
      BY <1>2 DEF PlanRead, TypeOK, Job
    <3>3. [target |-> t, before |-> text[t], after |-> after] \in Item
      BY <3>2, TextAssumption DEF TypeOK, Item
    <3> DEFINE new == IF after = text[t] THEN job[p].items
                      ELSE Append(job[p].items, [target |-> t, before |-> text[t],
                                                 after |-> after])
    <3>4. new \in Seq(Item)
      BY <3>2, <3>3 DEF Job
    <3>5. job' = [job EXCEPT ![p] = [job[p] EXCEPT !.todo = Tail(job[p].todo), !.items = new]]
      BY <3>1, <3>2 DEF TypeOK, Job
    <3> HIDE DEF new
    <3>6. [job[p] EXCEPT !.todo = Tail(job[p].todo), !.items = new] \in Job
      BY <3>2, <3>4 DEF Job
    <3>7. job' \in [Procs -> Job]
      BY <3>5, <3>6 DEF TypeOK
    <3> QED BY <1>2, <3>7 DEF PlanRead, TypeOK
  <2>2. LoopOK'
    <3>1. \A q \in Procs \ {p} : pc'[q] = pc[q] /\ job'[q] = job[q]
      BY <1>2 DEF PlanRead, TypeOK, LoopOK, LoopAt
    <3>2. LoopAt(p)'
      BY <1>2 DEF PlanRead, LoopOK, LoopAt, DocsOK, Changing, TypeOK
    <3> QED BY <3>1, <3>2, OneProcess
  <2>3. DocsOK'
    BY <1>2 DEF PlanRead, TypeOK, LoopOK, DocsOK
  <2> QED BY <2>1, <2>2, <2>3
<1>3. ASSUME NEW p \in Procs, PlanRefuse(p) PROVE TypeInv'
  <2>1. TypeOK'
    BY <1>3, ReturnType DEF PlanRefuse, TypeOK, LoopOK, LoopAt, DocsOK, Results
  <2>2. LoopOK'
    <3>1. \A q \in Procs \ {p} : pc'[q] = pc[q] /\ job'[q] = job[q]
      BY <1>3, ReturnType DEF PlanRefuse, TypeOK, LoopOK, LoopAt, Results
    <3>2. LoopAt(p)'
      BY <1>3, ReturnType DEF PlanRefuse, LoopOK, LoopAt, DocsOK, Changing, TypeOK, Results
    <3> QED BY <3>1, <3>2, OneProcess
  <2>3. DocsOK'
    BY <1>3 DEF PlanRefuse, TypeOK, LoopOK, DocsOK
  <2> QED BY <2>1, <2>2, <2>3
<1>4. ASSUME NEW p \in Procs, PlanPersist(p) PROVE TypeInv'
  <2>1. TypeOK'
    BY <1>4, ReturnType, StoredType DEF PlanPersist, TypeOK, LoopOK, LoopAt, DocsOK, Results, Job
  <2>2. LoopOK'
    <3>1. \A q \in Procs \ {p} : pc'[q] = pc[q] /\ job'[q] = job[q]
      BY <1>4, ReturnType DEF PlanPersist, TypeOK, LoopOK, LoopAt, Results
    <3>2. LoopAt(p)'
      BY <1>4, ReturnType DEF PlanPersist, LoopOK, LoopAt, DocsOK, Changing, TypeOK, Results
    <3> QED BY <3>1, <3>2, OneProcess
  <2>3. DocsOK'
    <3>1. job[p].items \in Seq(Item) /\ Len(job[p].items) > 0
      BY <1>4 DEF PlanPersist, TypeOK, Job
    <3> QED BY <1>4, <3>1, StoredType DEF PlanPersist
  <2> QED BY <2>1, <2>2, <2>3
<1>5. ASSUME NEW p \in Procs, Begin(p) PROVE TypeInv'
  <2>1. TypeOK'
    <3>1. PICK d \in known :
            /\ docs[d] # NoDoc
            /\ job' = [job EXCEPT ![p] = [NoJob EXCEPT
                        !.id = d, !.kind = docs[d].kind,
                        !.items = docs[d].items, !.next = 1]]
      BY <1>5 DEF Begin
    <3>2. d \in Ids /\ docs[d] \in Doc
      BY <3>1 DEF TypeOK
    <3>3. job' \in [Procs -> Job]
      BY <3>1, <3>2, FreshJob DEF TypeOK
    <3> QED BY <1>5, <3>3 DEF Begin, TypeOK, Goto, Phases, Results
  <2>2. LoopOK'
    <3>1. \A q \in Procs \ {p} : pc'[q] = pc[q] /\ job'[q] = job[q]
      BY <1>5 DEF Begin, TypeOK, LoopOK, LoopAt, Goto, NoJob, Doc
    <3>2. LoopAt(p)'
      BY <1>5 DEF Begin, LoopOK, LoopAt, DocsOK, Changing, TypeOK, Goto, NoJob, Doc
    <3> QED BY <3>1, <3>2, OneProcess
  <2>3. DocsOK'
    BY <1>5 DEF Begin, TypeOK, LoopOK, DocsOK
  <2> QED BY <2>1, <2>2, <2>3
<1>6. ASSUME NEW p \in Procs, BeginExpired(p) PROVE TypeInv'
  <2>1. TypeOK'
    BY <1>6 DEF BeginExpired, TypeOK, LoopOK, LoopAt, DocsOK, Results
  <2>2. LoopOK'
    <3>1. \A q \in Procs \ {p} : pc'[q] = pc[q] /\ job'[q] = job[q]
      BY <1>6 DEF BeginExpired, TypeOK, LoopOK, LoopAt
    <3>2. LoopAt(p)'
      BY <1>6 DEF BeginExpired, LoopOK, LoopAt, DocsOK, Changing, TypeOK
    <3> QED BY <3>1, <3>2, OneProcess
  <2>3. DocsOK'
    BY <1>6 DEF BeginExpired, TypeOK, LoopOK, DocsOK
  <2> QED BY <2>1, <2>2, <2>3
<1>7. ASSUME NEW p \in Procs, Check(p) PROVE TypeInv'
  <2>1. TypeOK'
    BY <1>7, LoopStep DEF Check, TypeOK, LoopOK, LoopAt, DocsOK, Phases
  <2>2. LoopOK'
    <3>1. \A q \in Procs \ {p} : pc'[q] = pc[q] /\ job'[q] = job[q]
      BY <1>7, LoopStep DEF Check, TypeOK, LoopOK, LoopAt, Phases, Job
    <3>2. LoopAt(p)'
      BY <1>7, LoopStep DEF Check, LoopOK, LoopAt, DocsOK, Changing, TypeOK, Phases, Job
    <3> QED BY <3>1, <3>2, OneProcess
  <2>3. DocsOK'
    BY <1>7 DEF Check, TypeOK, LoopOK, DocsOK
  <2> QED BY <2>1, <2>2, <2>3
<1>8. ASSUME NEW p \in Procs, CheckStale(p) PROVE TypeInv'
  <2>1. TypeOK'
    BY <1>8, ReturnType DEF CheckStale, TypeOK, LoopOK, LoopAt, DocsOK, Results
  <2>2. LoopOK'
    <3>1. \A q \in Procs \ {p} : pc'[q] = pc[q] /\ job'[q] = job[q]
      BY <1>8, ReturnType DEF CheckStale, TypeOK, LoopOK, LoopAt, Results
    <3>2. LoopAt(p)'
      BY <1>8, ReturnType DEF CheckStale, LoopOK, LoopAt, DocsOK, Changing, TypeOK, Results
    <3> QED BY <3>1, <3>2, OneProcess
  <2>3. DocsOK'
    BY <1>8 DEF CheckStale, TypeOK, LoopOK, DocsOK
  <2> QED BY <2>1, <2>2, <2>3
<1>9. ASSUME NEW p \in Procs, PersistUndo(p) PROVE TypeInv'
  <2>1. TypeOK'
    <3>1. PICK d \in Ids : Stored(d, "undo", job[p].items) /\ job' = [job EXCEPT ![p].undo = d]
      BY <1>9 DEF PersistUndo
    <3>2. job' = [job EXCEPT ![p] = [job[p] EXCEPT !.undo = d]] /\ job[p] \in Job
      BY <3>1 DEF TypeOK
    <3>4. job' \in [Procs -> Job]
      BY <3>2, UndoJob DEF TypeOK
    <3>3. job[p].items \in Seq(Item)
      BY DEF TypeOK, Job
    <3> QED BY <1>9, <3>1, <3>3, <3>4, StoredType DEF PersistUndo, TypeOK, Goto, Phases
  <2>2. LoopOK'
    <3>1. \A q \in Procs \ {p} : pc'[q] = pc[q] /\ job'[q] = job[q]
      BY <1>9 DEF PersistUndo, TypeOK, LoopOK, LoopAt, Goto, Job
    <3>2. LoopAt(p)'
      <4>1. PICK d \in Ids : job' = [job EXCEPT ![p].undo = d]
        BY <1>9 DEF PersistUndo
      <4>2. job' = [job EXCEPT ![p] = [job[p] EXCEPT !.undo = d]] /\ job[p] \in Job
        BY <4>1 DEF TypeOK
      <4>3. job'[p] = [job[p] EXCEPT !.undo = d]
        BY <4>2 DEF TypeOK
      <4>4. /\ job'[p].undo = d /\ job'[p].next = job[p].next /\ job'[p].items = job[p].items
            /\ job'[p].kind = job[p].kind /\ job'[p].id = job[p].id
        BY <4>1, <4>2, <4>3 DEF Job
      <4>5. pc[p] = "persisting" /\ pc'[p] = "writing"
        BY <1>9 DEF PersistUndo, Goto, TypeOK
      <4>6. Len(job[p].items) \in Nat
        BY <4>2 DEF Job
      <4> QED BY <4>4, <4>5, <4>6 DEF LoopOK, LoopAt, Changing
    <3> QED BY <3>1, <3>2, OneProcess
  <2>3. DocsOK'
    BY <1>9, StoredType DEF PersistUndo, TypeOK, LoopOK, DocsOK, Job, LoopAt
  <2> QED BY <2>1, <2>2, <2>3
<1>10. ASSUME NEW p \in Procs, PersistFail(p) PROVE TypeInv'
  <2>1. TypeOK'
    <3>1. docs' \in [Ids -> Doc \cup {NoDoc}]
      BY <1>10, PurgeDrops DEF PersistFail
    <3> QED BY <1>10, <3>1, FaultType, ReturnType DEF PersistFail, TypeOK, Results
  <2>2. LoopOK'
    <3>1. \A q \in Procs \ {p} : pc'[q] = pc[q] /\ job'[q] = job[q]
      BY <1>10, ReturnType DEF PersistFail, TypeOK, LoopOK, LoopAt, Results
    <3>2. LoopAt(p)'
      BY <1>10, ReturnType DEF PersistFail, LoopOK, LoopAt, DocsOK, Changing, TypeOK, Results
    <3> QED BY <3>1, <3>2, OneProcess
  <2>3. DocsOK'
    <3>1. \A d \in Ids : docs'[d] # NoDoc => docs'[d] = docs[d]
      BY <1>10, PurgeDrops DEF PersistFail
    <3> QED BY <1>10, <3>1 DEF PersistFail, DocsOK
  <2> QED BY <2>1, <2>2, <2>3
<1>11. ASSUME NEW p \in Procs, Write(p) PROVE TypeInv'
  <2>1. TypeOK'
    <3>1. text' \in [Targets -> Contents]
      BY <1>11, CurrentItem DEF Write, TypeOK, LoopOK, LoopAt, Item, Contents
    <3> QED BY <3>1, <1>11, LoopStep DEF Write, TypeOK, LoopOK, LoopAt, Phases
  <2>2. LoopOK'
    <3>1. \A q \in Procs \ {p} : pc'[q] = pc[q] /\ job'[q] = job[q]
      BY <1>11, LoopStep DEF Write, TypeOK, LoopOK, LoopAt, Phases, Job
    <3>2. LoopAt(p)'
      BY <1>11, LoopStep DEF Write, LoopOK, LoopAt, DocsOK, Changing, TypeOK, Phases, Job
    <3> QED BY <3>1, <3>2, OneProcess
  <2>3. DocsOK'
    BY <1>11 DEF Write, TypeOK, LoopOK, DocsOK
  <2> QED BY <2>1, <2>2, <2>3
<1>12. ASSUME NEW p \in Procs, WriteFail(p) PROVE TypeInv'
  <2>1. TypeOK'
    <3>1. job[p].next - 1 \in Nat
      BY <1>12 DEF WriteFail, LoopOK, LoopAt, TypeOK, Job
    <3>2. job' = [job EXCEPT ![p] = [job[p] EXCEPT !.next = job[p].next - 1]]
      BY <1>12 DEF WriteFail, RollbackFrom
    <3>3. job' \in [Procs -> Job]
      BY <3>1, <3>2, NextJob DEF TypeOK
    <3> QED BY <1>12, <3>3, FaultType DEF WriteFail, TypeOK, RollbackFrom, Goto, Phases
  <2>2. LoopOK'
    <3>1. \A q \in Procs \ {p} : pc'[q] = pc[q] /\ job'[q] = job[q]
      BY <1>12, NextJob DEF WriteFail, TypeOK, LoopOK, LoopAt, RollbackFrom, Goto, Job
    <3>2. LoopAt(p)'
      <4>1. job' = [job EXCEPT ![p] = [job[p] EXCEPT !.next = job[p].next - 1]]
        BY <1>12 DEF WriteFail, RollbackFrom, Goto
      <4>2. job[p] \in Job /\ job[p].next - 1 \in 0..Len(job[p].items)
        BY <1>12 DEF WriteFail, LoopOK, LoopAt, TypeOK, Job
      <4>3. job'[p] = [job[p] EXCEPT !.next = job[p].next - 1]
        BY <4>1 DEF TypeOK
      <4>4. /\ job'[p].next = job[p].next - 1 /\ job'[p].items = job[p].items
            /\ job'[p].kind = job[p].kind /\ job'[p].id = job[p].id
            /\ job'[p].undo = job[p].undo
        BY <4>2, <4>3, NextJob DEF Job
      <4>5. Changing(p) /\ pc'[p] = "restoring"
        BY <1>12 DEF WriteFail, RollbackFrom, Goto, Changing, TypeOK
      <4> QED BY <4>2, <4>4, <4>5 DEF LoopOK, LoopAt, Changing
    <3> QED BY <3>1, <3>2, OneProcess
  <2>3. DocsOK'
    BY <1>12 DEF WriteFail, TypeOK, LoopOK, DocsOK
  <2> QED BY <2>1, <2>2, <2>3
<1>13. ASSUME NEW p \in Procs, Validate(p) PROVE TypeInv'
  <2>1. TypeOK'
    BY <1>13, LoopStep DEF Validate, TypeOK, LoopOK, LoopAt, DocsOK, Phases
  <2>2. LoopOK'
    <3>1. \A q \in Procs \ {p} : pc'[q] = pc[q] /\ job'[q] = job[q]
      BY <1>13, LoopStep DEF Validate, TypeOK, LoopOK, LoopAt, Phases, Job
    <3>2. LoopAt(p)'
      BY <1>13, LoopStep DEF Validate, LoopOK, LoopAt, DocsOK, Changing, TypeOK, Phases, Job
    <3> QED BY <3>1, <3>2, OneProcess
  <2>3. DocsOK'
    BY <1>13 DEF Validate, TypeOK, LoopOK, DocsOK
  <2> QED BY <2>1, <2>2, <2>3
<1>14. ASSUME NEW p \in Procs, ValidateFail(p) PROVE TypeInv'
  <2>1. TypeOK'
    <3>1. job' \in [Procs -> Job]
      BY <1>14, NextJob DEF ValidateFail, TypeOK, LoopOK, LoopAt, RollbackFrom, Job
    <3> QED BY <3>1, <1>14, FaultType DEF ValidateFail, TypeOK, RollbackFrom, Goto, Phases
  <2>2. LoopOK'
    <3>1. \A q \in Procs \ {p} : pc'[q] = pc[q] /\ job'[q] = job[q]
      BY <1>14, NextJob DEF ValidateFail, TypeOK, LoopOK, LoopAt, RollbackFrom, Goto, Job
    <3>2. LoopAt(p)'
      <4>1. job' = [job EXCEPT ![p] = [job[p] EXCEPT !.next = Len(job[p].items)]]
        BY <1>14 DEF ValidateFail, RollbackFrom, Goto
      <4>2. job[p] \in Job /\ Len(job[p].items) \in 0..Len(job[p].items)
        BY <1>14 DEF ValidateFail, LoopOK, LoopAt, TypeOK, Job
      <4>3. job'[p] = [job[p] EXCEPT !.next = Len(job[p].items)]
        BY <4>1 DEF TypeOK
      <4>4. /\ job'[p].next = Len(job[p].items) /\ job'[p].items = job[p].items
            /\ job'[p].kind = job[p].kind /\ job'[p].id = job[p].id
            /\ job'[p].undo = job[p].undo
        BY <4>2, <4>3, NextJob DEF Job
      <4>5. Changing(p) /\ pc'[p] = "restoring"
        BY <1>14 DEF ValidateFail, RollbackFrom, Goto, Changing, TypeOK
      <4> QED BY <4>2, <4>4, <4>5 DEF LoopOK, LoopAt, Changing
    <3> QED BY <3>1, <3>2, OneProcess
  <2>3. DocsOK'
    BY <1>14 DEF ValidateFail, TypeOK, LoopOK, DocsOK
  <2> QED BY <2>1, <2>2, <2>3
<1>15. ASSUME NEW p \in Procs, Restore(p) PROVE TypeInv'
  <2>1. TypeOK'
    <3>1. job[p].next - 1 \in Nat /\ job[p].next \in 1..Len(job[p].items)
      BY <1>15 DEF Restore, LoopOK, LoopAt, TypeOK, Job
    <3>2. job' = [job EXCEPT ![p] = [job[p] EXCEPT !.next = job[p].next - 1]]
      BY <1>15 DEF Restore
    <3>3. job' \in [Procs -> Job]
      BY <3>1, <3>2, NextJob DEF TypeOK
    <3>4. text' \in [Targets -> Contents]
      BY <1>15, <3>1, CurrentItem DEF Restore, TypeOK, Item
    <3> QED BY <1>15, <3>3, <3>4 DEF Restore, TypeOK
  <2>2. LoopOK'
    <3>1. \A q \in Procs \ {p} : pc'[q] = pc[q] /\ job'[q] = job[q]
      BY <1>15, NextJob DEF Restore, TypeOK, LoopOK, LoopAt, Job
    <3>2. LoopAt(p)'
      <4>1. job' = [job EXCEPT ![p] = [job[p] EXCEPT !.next = job[p].next - 1]]
        BY <1>15 DEF Restore
      <4>2. job[p] \in Job /\ job[p].next - 1 \in 0..Len(job[p].items)
        BY <1>15 DEF Restore, LoopOK, LoopAt, TypeOK, Job
      <4>3. job'[p] = [job[p] EXCEPT !.next = job[p].next - 1]
        BY <4>1 DEF TypeOK
      <4>4. /\ job'[p].next = job[p].next - 1 /\ job'[p].items = job[p].items
            /\ job'[p].kind = job[p].kind /\ job'[p].id = job[p].id
            /\ job'[p].undo = job[p].undo
        BY <4>2, <4>3, NextJob DEF Job
      <4>5. Changing(p) /\ pc'[p] = "restoring"
        BY <1>15 DEF Restore, Changing, TypeOK
      <4> QED BY <4>2, <4>4, <4>5 DEF LoopOK, LoopAt, Changing
    <3> QED BY <3>1, <3>2, OneProcess
  <2>3. DocsOK'
    BY <1>15 DEF Restore, TypeOK, LoopOK, DocsOK
  <2> QED BY <2>1, <2>2, <2>3
<1>16. ASSUME NEW p \in Procs, RestoreFail(p) PROVE TypeInv'
  <2>1. TypeOK'
    BY <1>16, FaultType, ReturnType DEF RestoreFail, TypeOK, LoopOK, LoopAt, DocsOK, Changing, Results
  <2>2. LoopOK'
    <3>1. \A q \in Procs \ {p} : pc'[q] = pc[q] /\ job'[q] = job[q]
      BY <1>16, ReturnType DEF RestoreFail, TypeOK, LoopOK, LoopAt, Results
    <3>2. LoopAt(p)'
      BY <1>16, ReturnType DEF RestoreFail, LoopOK, LoopAt, DocsOK, Changing, TypeOK, Results
    <3> QED BY <3>1, <3>2, OneProcess
  <2>3. DocsOK'
    BY <1>16 DEF RestoreFail, TypeOK, LoopOK, DocsOK
  <2> QED BY <2>1, <2>2, <2>3
<1>17. ASSUME NEW p \in Procs, RolledBack(p) PROVE TypeInv'
  <2>1. TypeOK'
    BY <1>17, DeletedType, ReturnType DEF RolledBack, TypeOK, LoopOK, LoopAt, DocsOK, Changing, Results
  <2>2. LoopOK'
    <3>1. \A q \in Procs \ {p} : pc'[q] = pc[q] /\ job'[q] = job[q]
      BY <1>17, ReturnType DEF RolledBack, TypeOK, LoopOK, LoopAt, Results
    <3>2. LoopAt(p)'
      BY <1>17, ReturnType DEF RolledBack, LoopOK, LoopAt, DocsOK, Changing, TypeOK, Results
    <3> QED BY <3>1, <3>2, OneProcess
  <2>3. DocsOK'
    BY <1>17, DeletedType DEF RolledBack, TypeOK, LoopOK, DocsOK, LoopAt, Changing
  <2> QED BY <2>1, <2>2, <2>3
<1>18. ASSUME NEW p \in Procs, Undone(p) PROVE TypeInv'
  <2>1. TypeOK'
    BY <1>18, DeletedType, ReturnType DEF Undone, TypeOK, LoopOK, LoopAt, DocsOK, Changing, Results
  <2>2. LoopOK'
    <3>1. \A q \in Procs \ {p} : pc'[q] = pc[q] /\ job'[q] = job[q]
      BY <1>18, ReturnType DEF Undone, TypeOK, LoopOK, LoopAt, Results
    <3>2. LoopAt(p)'
      BY <1>18, ReturnType DEF Undone, LoopOK, LoopAt, DocsOK, Changing, TypeOK, Results
    <3> QED BY <3>1, <3>2, OneProcess
  <2>3. DocsOK'
    BY <1>18, DeletedType DEF Undone, TypeOK, LoopOK, DocsOK, LoopAt, Changing
  <2> QED BY <2>1, <2>2, <2>3
<1>19. ASSUME NEW p \in Procs, Applied(p) PROVE TypeInv'
  <2>1. TypeOK'
    BY <1>19, DeletedType, ReturnType DEF Applied, TypeOK, LoopOK, LoopAt, DocsOK, Changing, Results
  <2>2. LoopOK'
    <3>1. \A q \in Procs \ {p} : pc'[q] = pc[q] /\ job'[q] = job[q]
      BY <1>19, ReturnType DEF Applied, TypeOK, LoopOK, LoopAt, Results
    <3>2. LoopAt(p)'
      BY <1>19, ReturnType DEF Applied, LoopOK, LoopAt, DocsOK, Changing, TypeOK, Results
    <3> QED BY <3>1, <3>2, OneProcess
  <2>3. DocsOK'
    BY <1>19, DeletedType DEF Applied, TypeOK, LoopOK, DocsOK, LoopAt, Changing
  <2> QED BY <2>1, <2>2, <2>3
<1>20. ASSUME NEW p \in Procs, Crash(p) PROVE TypeInv'
  <2>1. TypeOK'
    BY <1>20, ReturnType DEF Crash, TypeOK, LoopOK, LoopAt, DocsOK, Results
  <2>2. LoopOK'
    <3>1. \A q \in Procs \ {p} : pc'[q] = pc[q] /\ job'[q] = job[q]
      BY <1>20, ReturnType DEF Crash, TypeOK, LoopOK, LoopAt, Results
    <3>2. LoopAt(p)'
      BY <1>20, ReturnType DEF Crash, LoopOK, LoopAt, DocsOK, Changing, TypeOK, Results
    <3> QED BY <3>1, <3>2, OneProcess
  <2>3. DocsOK'
    BY <1>20 DEF Crash, TypeOK, LoopOK, DocsOK
  <2> QED BY <2>1, <2>2, <2>3
<1>21. ASSUME NEW t \in Targets, Edit(t) PROVE TypeInv'
  <2>1. text' \in [Targets -> Contents] /\ left' \in [faults : Nat, crashes : Nat, edits : Nat]
    BY <1>21 DEF Edit, TypeOK
  <2> QED BY <1>21, <2>1 DEF Edit, TypeOK, LoopOK, LoopAt, DocsOK, Changing
<1>22. CASE Tick
  BY <1>22 DEF Tick, TypeOK, LoopOK, LoopAt, DocsOK, Changing
<1>23. CASE UNCHANGED vars
  BY <1>23 DEF vars, TypeOK, LoopOK, LoopAt, DocsOK, Changing
<1> QED
  BY <1>1, <1>2, <1>3, <1>4, <1>5, <1>6, <1>7, <1>8, <1>9, <1>10, <1>11, <1>12, <1>13, <1>14, <1>15, <1>16, <1>17, <1>18, <1>19, <1>20, <1>21, <1>22, <1>23
  DEF Next, Request, Run

\* TypeOK holds for every number of processes, files and texts and for every
\* bound: no step of the protocol leaves the types.
THEOREM Typing == Spec => []TypeOK
<1>1. TypeInv => TypeOK
  BY DEF TypeInv
<1> QED BY InitTypeInv, NextTypeInv, <1>1, PTL DEF Spec

-----------------------------------------------------------------------------
(* Recovery metadata. *)

\* p has files changed and not yet restored, by an apply.
Holds(p) == job[p].kind = "apply" /\ (Changing(p) \/ result[p] = "torn")

\* Its undo document is written and kept, and nobody else has its id.
HoldAt(p) ==
    Holds(p) =>
        LET d == job[p].undo
        IN /\ d \in Ids /\ d \notin known /\ log[d] # NoDoc
           /\ log[d].kind = "undo" /\ log[d].items = job[p].items
           /\ docs[d] = log[d] \/ log[d].expires < now

\* A running call works on a plan some client was told of.
CallAt(p) ==
    /\ pc[p] \notin {"idle", "planning"} => job[p].id \in known
    /\ pc[p] # "idle" => result[p] = "none"

\* No two calls hold the same undo document.
Apart ==
    \A p, q \in Procs : p # q /\ Holds(p) /\ Holds(q) => job[p].undo # job[q].undo

\* A client is only ever told of ids that were written.
KnownWritten == \A d \in known : log[d] # NoDoc

HoldInv == (\A p \in Procs : HoldAt(p) /\ CallAt(p)) /\ Apart /\ KnownWritten
RecInv == TypeInv /\ HoldInv

\* Storing a document under a new id leaves the held ones alone.
LEMMA StoredKeeps ==
  ASSUME TypeInv, NEW d \in Ids, log[d] = NoDoc, NEW kind \in {"apply", "undo"},
         NEW items \in Seq(Item), Stored(d, kind, items)
  PROVE  /\ \A x \in Ids : log[x] # NoDoc =>
                /\ x # d /\ log'[x] = log[x]
                /\ docs[x] = log[x] => docs'[x] = log[x] \/ log[x].expires < now
         /\ docs'[d] = log'[d] /\ log'[d] # NoDoc
         /\ log'[d].kind = kind /\ log'[d].items = items
<1> DEFINE new == [kind |-> kind, items |-> items, expires |-> now + TTL]
<1>1. new \in Doc /\ new.items = items /\ new.kind = kind /\ new # NoDoc
  BY BoundAssumption, DocAssumption DEF Doc, TypeOK, TypeInv
<1>2. /\ docs' = [x \in Ids |-> IF x = d THEN new
                                ELSE IF Expired(x) THEN NoDoc ELSE docs[x]]
      /\ log' = [log EXCEPT ![d] = new]
  BY DEF Stored, Purged
<1> HIDE DEF new
<1> QED BY <1>1, <1>2 DEF TypeInv, TypeOK, Expired

\* A step of p that leaves the plan directory and its own plan alone, and
\* holds no undo document it did not hold before.
LEMMA QuietStep ==
  ASSUME RecInv, NEW p \in Procs,
         docs' = docs, log' = log, now' = now, known' = known,
         \A q \in Procs \ {p} : pc'[q] = pc[q] /\ job'[q] = job[q] /\ result'[q] = result[q],
         Holds(p)' => /\ Holds(p) /\ job'[p].undo = job[p].undo
                      /\ job'[p].items = job[p].items,
         CallAt(p)'
  PROVE  HoldInv'
<1>1. ASSUME NEW q \in Procs, q # p PROVE HoldAt(q)' /\ CallAt(q)' /\ (Holds(q)' => Holds(q))
  BY <1>1 DEF RecInv, HoldInv, HoldAt, CallAt, Holds, Changing
<1>2. HoldAt(p)'
  BY DEF RecInv, HoldInv, HoldAt
<1>3. Apart' /\ KnownWritten'
  BY <1>1 DEF RecInv, HoldInv, Apart, KnownWritten
<1> QED BY <1>1, <1>2, <1>3 DEF HoldInv

\* A step of p that stores a document under a fresh id, or deletes one that
\* nobody holds, and may tell a client of ids that nobody holds.
LEMMA DirectoryStep ==
  ASSUME RecInv, NEW p \in Procs, now' = now,
         \A q \in Procs \ {p} : pc'[q] = pc[q] /\ job'[q] = job[q] /\ result'[q] = result[q],
         \A q \in Procs \ {p} : Holds(q) =>
            LET d == job[q].undo
            IN /\ d \notin known' /\ log'[d] = log[d]
               /\ docs'[d] = docs[d] \/ log[d].expires < now,
         \A d \in known : d \in known', \A d \in known' : log'[d] # NoDoc,
         HoldAt(p)', CallAt(p)',
         \A q \in Procs \ {p} : Holds(p)' /\ Holds(q) => job'[p].undo # job[q].undo
  PROVE  HoldInv'
<1>1. ASSUME NEW q \in Procs, q # p PROVE HoldAt(q)' /\ CallAt(q)' /\ (Holds(q)' => Holds(q))
  BY <1>1 DEF RecInv, HoldInv, HoldAt, CallAt, Holds, Changing
<1>3. Apart' /\ KnownWritten'
  BY <1>1 DEF RecInv, HoldInv, Apart, KnownWritten
<1> QED BY <1>1, <1>3 DEF HoldInv

\* Every step keeps the recovery metadata of the calls that need it.
LEMMA NextRecInv == RecInv /\ [Next]_vars => RecInv'
<1> SUFFICES ASSUME RecInv, [Next]_vars
             PROVE  HoldInv'
  BY NextTypeInv DEF RecInv, HoldInv
<1> USE DEF directory
<1>0. TypeInv /\ TypeOK /\ LoopOK /\ DocsOK
  BY DEF RecInv, HoldInv, TypeInv
<1>1. ASSUME NEW p \in Procs, PlanStart(p)
      PROVE  HoldInv'
  <2>1. \A q \in Procs \ {p} : pc'[q] = pc[q] /\ job'[q] = job[q] /\ result'[q] = result[q]
    BY <1>0, <1>1 DEF PlanStart, Return, Goto, TypeOK, Phases, LoopOK, LoopAt, Job
  <2>2. Holds(p)' => Holds(p) /\ job'[p].undo = job[p].undo /\ job'[p].items = job[p].items
    BY <1>0, <1>1 DEF PlanStart, Return, Goto, TypeOK, Phases, LoopOK, LoopAt, Job, NoJob, Holds, Changing, RecInv, HoldInv, CallAt
  <2>3. CallAt(p)'
    BY <1>0, <1>1 DEF PlanStart, Return, Goto, TypeOK, Phases, LoopOK, LoopAt, Job, NoJob, RecInv, HoldInv, CallAt
  <2> QED BY <1>1, <2>1, <2>2, <2>3, QuietStep DEF PlanStart
<1>2. ASSUME NEW p \in Procs, PlanRead(p)
      PROVE  HoldInv'
  <2>1. \A q \in Procs \ {p} : pc'[q] = pc[q] /\ job'[q] = job[q] /\ result'[q] = result[q]
    BY <1>0, <1>2 DEF PlanRead, TypeOK, Phases, LoopOK, LoopAt, Job
  <2>2. Holds(p)' => Holds(p) /\ job'[p].undo = job[p].undo /\ job'[p].items = job[p].items
    BY <1>0, <1>2 DEF PlanRead, TypeOK, Phases, LoopOK, LoopAt, Job, NoJob, Holds, Changing, RecInv, HoldInv, CallAt
  <2>3. CallAt(p)'
    BY <1>0, <1>2 DEF PlanRead, TypeOK, Phases, LoopOK, LoopAt, Job, NoJob, RecInv, HoldInv, CallAt
  <2> QED BY <1>2, <2>1, <2>2, <2>3, QuietStep DEF PlanRead
<1>3. ASSUME NEW p \in Procs, PlanRefuse(p)
      PROVE  HoldInv'
  <2>1. \A q \in Procs \ {p} : pc'[q] = pc[q] /\ job'[q] = job[q] /\ result'[q] = result[q]
    BY <1>0, <1>3 DEF PlanRefuse, Return, Goto, TypeOK, Phases, LoopOK, LoopAt, Job
  <2>2. Holds(p)' => Holds(p) /\ job'[p].undo = job[p].undo /\ job'[p].items = job[p].items
    BY <1>0, <1>3 DEF PlanRefuse, Return, Goto, TypeOK, Phases, LoopOK, LoopAt, Job, NoJob, Holds, Changing, RecInv, HoldInv, CallAt
  <2>3. CallAt(p)'
    BY <1>0, <1>3 DEF PlanRefuse, Return, Goto, TypeOK, Phases, LoopOK, LoopAt, Job, NoJob, RecInv, HoldInv, CallAt
  <2> QED BY <1>3, <2>1, <2>2, <2>3, QuietStep DEF PlanRefuse
<1>4. ASSUME NEW p \in Procs, PlanPersist(p)
      PROVE  HoldInv'
  <2>f. \A q \in Procs \ {p} : pc'[q] = pc[q] /\ job'[q] = job[q] /\ result'[q] = result[q]
    BY <1>0, <1>4 DEF PlanPersist, Return, Goto, TypeOK
  <2>1. PICK d \in Ids : /\ Fresh(d) /\ Stored(d, "apply", job[p].items)
                        /\ known' = known \cup {d}
    BY <1>4 DEF PlanPersist
  <2>d. log[d] = NoDoc
    BY <2>1 DEF Fresh
  <2>2. job[p].items \in Seq(Item)
    BY <1>0 DEF TypeOK, Job
  <2>3. \A x \in Ids : log[x] # NoDoc =>
            /\ x # d /\ log'[x] = log[x]
            /\ docs[x] = log[x] => docs'[x] = log[x] \/ log[x].expires < now
    BY <1>0, <2>1, <2>d, <2>2, StoredKeeps
  <2>4. \A q \in Procs \ {p} : Holds(q) =>
            LET u == job[q].undo
            IN /\ u \notin known' /\ log'[u] = log[u]
               /\ docs'[u] = docs[u] \/ log[u].expires < now
    BY <2>1, <2>3 DEF RecInv, HoldInv, HoldAt
  <2>5. HoldAt(p)' /\ CallAt(p)' /\ ~Holds(p)'
    BY <1>0, <1>4 DEF PlanPersist, Return, Goto, TypeOK, HoldAt, CallAt, Holds, Changing
  <2>6. log'[d] # NoDoc
    BY <1>0, <2>1, <2>d, <2>2, StoredKeeps
  <2>7. \A x \in known' : log'[x] # NoDoc
    BY <1>0, <2>1, <2>3, <2>6 DEF RecInv, HoldInv, KnownWritten, TypeOK
  <2> QED BY <1>4, <2>f, <2>1, <2>4, <2>5, <2>7, DirectoryStep DEF PlanPersist
<1>5. ASSUME NEW p \in Procs, Begin(p)
      PROVE  HoldInv'
  <2>1. \A q \in Procs \ {p} : pc'[q] = pc[q] /\ job'[q] = job[q] /\ result'[q] = result[q]
    BY <1>0, <1>5 DEF Begin, Return, Goto, TypeOK, Phases, LoopOK, LoopAt, Job
  <2>2. Holds(p)' => Holds(p) /\ job'[p].undo = job[p].undo /\ job'[p].items = job[p].items
    BY <1>0, <1>5 DEF Begin, Return, Goto, TypeOK, Phases, LoopOK, LoopAt, Job, NoJob, Holds, Changing, RecInv, HoldInv, CallAt
  <2>3. CallAt(p)'
    BY <1>0, <1>5 DEF Begin, Return, Goto, TypeOK, Phases, LoopOK, LoopAt, Job, NoJob, RecInv, HoldInv, CallAt
  <2> QED BY <1>5, <2>1, <2>2, <2>3, QuietStep DEF Begin
<1>6. ASSUME NEW p \in Procs, BeginExpired(p)
      PROVE  HoldInv'
  <2>1. PICK d \in known : Expired(d) /\ docs' = [docs EXCEPT ![d] = NoDoc]
    BY <1>6 DEF BeginExpired
  <2>2. \A q \in Procs : pc'[q] = pc[q] /\ job'[q] = job[q]
                          /\ (q # p => result'[q] = result[q])
    BY <1>0, <1>6 DEF BeginExpired, TypeOK
  <2>3. \A q \in Procs \ {p} : Holds(q) => docs'[job[q].undo] = docs[job[q].undo]
    BY <1>0, <2>1 DEF RecInv, HoldInv, HoldAt, TypeOK
  <2>4. \A q \in Procs \ {p} : Holds(q) => job[q].undo \notin known
    BY DEF RecInv, HoldInv, HoldAt
  <2>5. HoldAt(p)' /\ CallAt(p)' /\ ~Holds(p)'
    BY <1>0, <1>6 DEF BeginExpired, TypeOK, HoldAt, CallAt, Holds, Changing
  <2>6. \A x \in known' : log'[x] # NoDoc
    BY <1>6 DEF BeginExpired, RecInv, HoldInv, KnownWritten
  <2> QED BY <1>6, <2>2, <2>3, <2>4, <2>5, <2>6, DirectoryStep DEF BeginExpired
<1>7. ASSUME NEW p \in Procs, Check(p)
      PROVE  HoldInv'
  <2>1. \A q \in Procs \ {p} : pc'[q] = pc[q] /\ job'[q] = job[q] /\ result'[q] = result[q]
    BY <1>0, <1>7, LoopStep DEF Check, TypeOK, Phases, LoopOK, LoopAt, Job
  <2>2. Holds(p)' => Holds(p) /\ job'[p].undo = job[p].undo /\ job'[p].items = job[p].items
    BY <1>0, <1>7, LoopStep DEF Check, TypeOK, Phases, LoopOK, LoopAt, Job, NoJob, Holds, Changing, RecInv, HoldInv, CallAt
  <2>3. CallAt(p)'
    BY <1>0, <1>7, LoopStep DEF Check, TypeOK, Phases, LoopOK, LoopAt, Job, NoJob, RecInv, HoldInv, CallAt
  <2> QED BY <1>7, <2>1, <2>2, <2>3, QuietStep DEF Check
<1>8. ASSUME NEW p \in Procs, CheckStale(p)
      PROVE  HoldInv'
  <2>1. \A q \in Procs \ {p} : pc'[q] = pc[q] /\ job'[q] = job[q] /\ result'[q] = result[q]
    BY <1>0, <1>8 DEF CheckStale, Return, Goto, TypeOK, Phases, LoopOK, LoopAt, Job
  <2>2. Holds(p)' => Holds(p) /\ job'[p].undo = job[p].undo /\ job'[p].items = job[p].items
    BY <1>0, <1>8 DEF CheckStale, Return, Goto, TypeOK, Phases, LoopOK, LoopAt, Job, NoJob, Holds, Changing, RecInv, HoldInv, CallAt
  <2>3. CallAt(p)'
    BY <1>0, <1>8 DEF CheckStale, Return, Goto, TypeOK, Phases, LoopOK, LoopAt, Job, NoJob, RecInv, HoldInv, CallAt
  <2> QED BY <1>8, <2>1, <2>2, <2>3, QuietStep DEF CheckStale
<1>9. ASSUME NEW p \in Procs, PersistUndo(p)
      PROVE  HoldInv'
  <2>f. \A q \in Procs \ {p} : pc'[q] = pc[q] /\ job'[q] = job[q] /\ result'[q] = result[q]
    BY <1>0, <1>9 DEF PersistUndo, Return, Goto, TypeOK
  <2>1. PICK d \in Ids : /\ Fresh(d) /\ Stored(d, "undo", job[p].items)
                        /\ job' = [job EXCEPT ![p].undo = d]
    BY <1>9 DEF PersistUndo
  <2>d. log[d] = NoDoc
    BY <2>1 DEF Fresh
  <2>2. job[p].items \in Seq(Item) /\ job[p] \in Job
    BY <1>0 DEF TypeOK, Job
  <2>3. \A x \in Ids : log[x] # NoDoc =>
            /\ x # d /\ log'[x] = log[x]
            /\ docs[x] = log[x] => docs'[x] = log[x] \/ log[x].expires < now
    BY <1>0, <2>1, <2>d, <2>2, StoredKeeps
  <2>4. \A q \in Procs \ {p} : Holds(q) =>
            LET u == job[q].undo
            IN /\ u # d /\ u \notin known /\ log'[u] = log[u]
               /\ docs'[u] = docs[u] \/ log[u].expires < now
    BY <2>1, <2>3 DEF RecInv, HoldInv, HoldAt
  <2>5. /\ job'[p].undo = d /\ job'[p].items = job[p].items /\ job'[p].id = job[p].id
    <3>1. job'[p] = [job[p] EXCEPT !.undo = d]
      BY <1>0, <2>1 DEF TypeOK
    <3> QED BY <2>1, <2>2, <3>1 DEF Job
  <2>6. /\ docs'[d] = log'[d] /\ log'[d] # NoDoc
        /\ log'[d].kind = "undo" /\ log'[d].items = job[p].items
    BY <1>0, <2>1, <2>d, <2>2, StoredKeeps
  <2>7. d \notin known
    BY <2>d DEF RecInv, HoldInv, KnownWritten
  <2>8. HoldAt(p)'
    BY <1>9, <2>5, <2>6, <2>7 DEF PersistUndo, HoldAt
  <2>9. CallAt(p)'
    BY <1>0, <1>9, <2>5 DEF PersistUndo, Goto, TypeOK, CallAt, RecInv, HoldInv
  <2>10. \A x \in known' : log'[x] # NoDoc
    BY <1>0, <1>9, <2>3 DEF PersistUndo, RecInv, HoldInv, KnownWritten, TypeOK
  <2> QED BY <1>9, <2>f, <2>4, <2>5, <2>8, <2>9, <2>10, DirectoryStep DEF PersistUndo
<1>10. ASSUME NEW p \in Procs, PersistFail(p)
      PROVE  HoldInv'
  <2>1. \A q \in Procs \ {p} : pc'[q] = pc[q] /\ job'[q] = job[q] /\ result'[q] = result[q]
    BY <1>0, <1>10 DEF PersistFail, Return, Goto, TypeOK, Phases, LoopOK, LoopAt, Job
  <2>2. HoldAt(p)' /\ CallAt(p)' /\ ~Holds(p)'
    BY <1>0, <1>10 DEF PersistFail, Return, Goto, TypeOK, HoldAt, CallAt, Holds, Changing
  <2>3. \A q \in Procs \ {p} : Holds(q) =>
            LET d == job[q].undo
            IN d \notin known /\ (docs'[d] = docs[d] \/ log[d].expires < now)
    <3>1. SUFFICES ASSUME NEW q \in Procs \ {p}, Holds(q)
                   PROVE  LET d == job[q].undo
                          IN d \notin known /\ (docs'[d] = docs[d] \/ log[d].expires < now)
      OBVIOUS
    <3>2. HoldAt(q)
      BY DEF RecInv, HoldInv
    <3> QED BY <1>0, <1>10, <3>1, <3>2, PurgeDrops DEF PersistFail, HoldAt
  <2>4. \A x \in known' : log'[x] # NoDoc
    BY <1>10 DEF PersistFail, RecInv, HoldInv, KnownWritten
  <2> QED BY <1>10, <2>1, <2>2, <2>3, <2>4, DirectoryStep DEF PersistFail
<1>11. ASSUME NEW p \in Procs, Write(p)
      PROVE  HoldInv'
  <2>1. \A q \in Procs \ {p} : pc'[q] = pc[q] /\ job'[q] = job[q] /\ result'[q] = result[q]
    BY <1>0, <1>11, LoopStep DEF Write, TypeOK, Phases, LoopOK, LoopAt, Job
  <2>2. Holds(p)' => Holds(p) /\ job'[p].undo = job[p].undo /\ job'[p].items = job[p].items
    BY <1>0, <1>11, LoopStep DEF Write, TypeOK, Phases, LoopOK, LoopAt, Job, NoJob, Holds, Changing, RecInv, HoldInv, CallAt
  <2>3. CallAt(p)'
    BY <1>0, <1>11, LoopStep DEF Write, TypeOK, Phases, LoopOK, LoopAt, Job, NoJob, RecInv, HoldInv, CallAt
  <2> QED BY <1>11, <2>1, <2>2, <2>3, QuietStep DEF Write
<1>12. ASSUME NEW p \in Procs, WriteFail(p)
      PROVE  HoldInv'
  <2>1. \A q \in Procs \ {p} : pc'[q] = pc[q] /\ job'[q] = job[q] /\ result'[q] = result[q]
    BY <1>0, <1>12 DEF WriteFail, RollbackFrom, Goto, TypeOK, Phases, LoopOK, LoopAt, Job
  <2>2. Holds(p)' => Holds(p) /\ job'[p].undo = job[p].undo /\ job'[p].items = job[p].items
    BY <1>0, <1>12 DEF WriteFail, RollbackFrom, Goto, TypeOK, Phases, LoopOK, LoopAt, Job, NoJob, Holds, Changing, RecInv, HoldInv, CallAt
  <2>3. CallAt(p)'
    BY <1>0, <1>12 DEF WriteFail, RollbackFrom, Goto, TypeOK, Phases, LoopOK, LoopAt, Job, NoJob, RecInv, HoldInv, CallAt
  <2> QED BY <1>12, <2>1, <2>2, <2>3, QuietStep DEF WriteFail
<1>13. ASSUME NEW p \in Procs, Validate(p)
      PROVE  HoldInv'
  <2>1. \A q \in Procs \ {p} : pc'[q] = pc[q] /\ job'[q] = job[q] /\ result'[q] = result[q]
    BY <1>0, <1>13, LoopStep DEF Validate, TypeOK, Phases, LoopOK, LoopAt, Job
  <2>2. Holds(p)' => Holds(p) /\ job'[p].undo = job[p].undo /\ job'[p].items = job[p].items
    BY <1>0, <1>13, LoopStep DEF Validate, TypeOK, Phases, LoopOK, LoopAt, Job, NoJob, Holds, Changing, RecInv, HoldInv, CallAt
  <2>3. CallAt(p)'
    BY <1>0, <1>13, LoopStep DEF Validate, TypeOK, Phases, LoopOK, LoopAt, Job, NoJob, RecInv, HoldInv, CallAt
  <2> QED BY <1>13, <2>1, <2>2, <2>3, QuietStep DEF Validate
<1>14. ASSUME NEW p \in Procs, ValidateFail(p)
      PROVE  HoldInv'
  <2>1. \A q \in Procs \ {p} : pc'[q] = pc[q] /\ job'[q] = job[q] /\ result'[q] = result[q]
    BY <1>0, <1>14 DEF ValidateFail, RollbackFrom, Goto, TypeOK, Phases, LoopOK, LoopAt, Job
  <2>2. Holds(p)' => Holds(p) /\ job'[p].undo = job[p].undo /\ job'[p].items = job[p].items
    BY <1>0, <1>14 DEF ValidateFail, RollbackFrom, Goto, TypeOK, Phases, LoopOK, LoopAt, Job, NoJob, Holds, Changing, RecInv, HoldInv, CallAt
  <2>3. CallAt(p)'
    BY <1>0, <1>14 DEF ValidateFail, RollbackFrom, Goto, TypeOK, Phases, LoopOK, LoopAt, Job, NoJob, RecInv, HoldInv, CallAt
  <2> QED BY <1>14, <2>1, <2>2, <2>3, QuietStep DEF ValidateFail
<1>15. ASSUME NEW p \in Procs, Restore(p)
      PROVE  HoldInv'
  <2>1. \A q \in Procs \ {p} : pc'[q] = pc[q] /\ job'[q] = job[q] /\ result'[q] = result[q]
    BY <1>0, <1>15 DEF Restore, TypeOK, Phases, LoopOK, LoopAt, Job
  <2>2. Holds(p)' => Holds(p) /\ job'[p].undo = job[p].undo /\ job'[p].items = job[p].items
    BY <1>0, <1>15 DEF Restore, TypeOK, Phases, LoopOK, LoopAt, Job, NoJob, Holds, Changing, RecInv, HoldInv, CallAt
  <2>3. CallAt(p)'
    BY <1>0, <1>15 DEF Restore, TypeOK, Phases, LoopOK, LoopAt, Job, NoJob, RecInv, HoldInv, CallAt
  <2> QED BY <1>15, <2>1, <2>2, <2>3, QuietStep DEF Restore
<1>16. ASSUME NEW p \in Procs, RestoreFail(p)
      PROVE  HoldInv'
  <2>f. \A q \in Procs \ {p} : pc'[q] = pc[q] /\ job'[q] = job[q] /\ result'[q] = result[q]
    BY <1>0, <1>16 DEF RestoreFail, Return, Goto, TypeOK
  <2>1. CASE job[p].kind = "apply"
    <3>1. Holds(p) /\ known' = known \cup {job[p].undo} /\ docs' = docs /\ log' = log
      BY <1>16, <2>1 DEF RestoreFail, Holds, Changing
    <3>2. \A q \in Procs \ {p} : Holds(q) => job[q].undo \notin known'
      BY <3>1 DEF RecInv, HoldInv, HoldAt, Apart
    <3>3. HoldAt(p)' /\ CallAt(p)' /\ ~Holds(p)'
      BY <1>0, <1>16, <2>1 DEF RestoreFail, Return, Goto, TypeOK, HoldAt, CallAt, Holds, Changing
    <3>4. \A x \in known' : log'[x] # NoDoc
      BY <3>1 DEF RecInv, HoldInv, HoldAt, KnownWritten
    <3> QED BY <1>16, <2>f, <3>1, <3>2, <3>3, <3>4, DirectoryStep DEF RestoreFail
  <2>2. CASE job[p].kind # "apply"
    <3>1. CallAt(p)' /\ ~Holds(p)'
      BY <1>0, <1>16, <2>2 DEF RestoreFail, Return, Goto, TypeOK, CallAt, Holds, Changing
    <3> QED BY <1>16, <2>f, <2>2, <3>1, QuietStep DEF RestoreFail
  <2> QED BY <2>1, <2>2
<1>17. ASSUME NEW p \in Procs, RolledBack(p)
      PROVE  HoldInv'
  <2>f. \A q \in Procs \ {p} : pc'[q] = pc[q] /\ job'[q] = job[q] /\ result'[q] = result[q]
    BY <1>0, <1>17 DEF RolledBack, Return, Goto, TypeOK
  <2>1. PICK ok \in BOOLEAN : Deleted(job[p].undo, ok)
    BY <1>17 DEF RolledBack
  <2>2. \A q \in Procs \ {p} : Holds(q) =>
            job[q].undo \in Ids /\ job[q].undo # job[p].undo /\ job[q].undo \notin known'
    BY <1>0, <1>17 DEF RolledBack, RecInv, HoldInv, HoldAt, CallAt, Apart, Holds, Changing, LoopOK, LoopAt
  <2>3. \A x \in Ids : x # job[p].undo => docs'[x] = docs[x]
    BY <1>0, <2>1 DEF Deleted, TypeOK
  <2>4. HoldAt(p)' /\ CallAt(p)' /\ ~Holds(p)'
    BY <1>0, <1>17 DEF RolledBack, Return, Goto, TypeOK, HoldAt, CallAt, Holds, Changing
  <2>5. \A x \in known' : log'[x] # NoDoc
    BY <1>0, <1>17 DEF RolledBack, RecInv, HoldInv, HoldAt, KnownWritten, Holds, Changing, LoopOK, LoopAt
  <2> QED BY <1>17, <2>f, <2>2, <2>3, <2>4, <2>5, DirectoryStep DEF RolledBack
<1>18. ASSUME NEW p \in Procs, Undone(p)
      PROVE  HoldInv'
  <2>f. \A q \in Procs \ {p} : pc'[q] = pc[q] /\ job'[q] = job[q] /\ result'[q] = result[q]
    BY <1>0, <1>18 DEF Undone, Return, Goto, TypeOK
  <2>1. PICK ok \in BOOLEAN : Deleted(job[p].id, ok)
    BY <1>18 DEF Undone
  <2>2. \A q \in Procs \ {p} : Holds(q) =>
            job[q].undo \in Ids /\ job[q].undo # job[p].id /\ job[q].undo \notin known'
    BY <1>0, <1>18 DEF Undone, RecInv, HoldInv, HoldAt, CallAt, Apart, Holds, Changing, LoopOK, LoopAt
  <2>3. \A x \in Ids : x # job[p].id => docs'[x] = docs[x]
    BY <1>0, <2>1 DEF Deleted, TypeOK
  <2>4. HoldAt(p)' /\ CallAt(p)' /\ ~Holds(p)'
    BY <1>0, <1>18 DEF Undone, Return, Goto, TypeOK, HoldAt, CallAt, Holds, Changing
  <2>5. \A x \in known' : log'[x] # NoDoc
    BY <1>0, <1>18 DEF Undone, RecInv, HoldInv, HoldAt, KnownWritten, Holds, Changing, LoopOK, LoopAt
  <2> QED BY <1>18, <2>f, <2>2, <2>3, <2>4, <2>5, DirectoryStep DEF Undone
<1>19. ASSUME NEW p \in Procs, Applied(p)
      PROVE  HoldInv'
  <2>f. \A q \in Procs \ {p} : pc'[q] = pc[q] /\ job'[q] = job[q] /\ result'[q] = result[q]
    BY <1>0, <1>19 DEF Applied, Return, Goto, TypeOK
  <2>1. PICK ok \in BOOLEAN : Deleted(job[p].id, ok)
    BY <1>19 DEF Applied
  <2>2. \A q \in Procs \ {p} : Holds(q) =>
            job[q].undo \in Ids /\ job[q].undo # job[p].id /\ job[q].undo \notin known'
    BY <1>0, <1>19 DEF Applied, RecInv, HoldInv, HoldAt, CallAt, Apart, Holds, Changing, LoopOK, LoopAt
  <2>3. \A x \in Ids : x # job[p].id => docs'[x] = docs[x]
    BY <1>0, <2>1 DEF Deleted, TypeOK
  <2>4. HoldAt(p)' /\ CallAt(p)' /\ ~Holds(p)'
    BY <1>0, <1>19 DEF Applied, Return, Goto, TypeOK, HoldAt, CallAt, Holds, Changing
  <2>5. \A x \in known' : log'[x] # NoDoc
    BY <1>0, <1>19 DEF Applied, RecInv, HoldInv, HoldAt, KnownWritten, Holds, Changing, LoopOK, LoopAt
  <2> QED BY <1>19, <2>f, <2>2, <2>3, <2>4, <2>5, DirectoryStep DEF Applied
<1>20. ASSUME NEW p \in Procs, Crash(p)
      PROVE  HoldInv'
  <2>1. \A q \in Procs \ {p} : pc'[q] = pc[q] /\ job'[q] = job[q] /\ result'[q] = result[q]
    BY <1>0, <1>20 DEF Crash, Return, Goto, TypeOK, Phases, LoopOK, LoopAt, Job
  <2>2. Holds(p)' => Holds(p) /\ job'[p].undo = job[p].undo /\ job'[p].items = job[p].items
    BY <1>0, <1>20 DEF Crash, Return, Goto, TypeOK, Phases, LoopOK, LoopAt, Job, NoJob, Holds, Changing, RecInv, HoldInv, CallAt
  <2>3. CallAt(p)'
    BY <1>0, <1>20 DEF Crash, Return, Goto, TypeOK, Phases, LoopOK, LoopAt, Job, NoJob, RecInv, HoldInv, CallAt
  <2> QED BY <1>20, <2>1, <2>2, <2>3, QuietStep DEF Crash
<1>21. ASSUME NEW t \in Targets, Edit(t)
       PROVE  HoldInv'
  BY <1>21 DEF Edit, RecInv, HoldInv, HoldAt, CallAt, Apart, KnownWritten, Holds, Changing
<1>22. CASE Tick
  BY <1>0, <1>22 DEF Tick, RecInv, HoldInv, HoldAt, CallAt, Apart, KnownWritten, Holds, Changing, TypeOK, Doc
<1>23. CASE UNCHANGED vars
  BY <1>23 DEF vars, RecInv, HoldInv, HoldAt, CallAt, Apart, KnownWritten, Holds, Changing
<1> QED
  BY <1>1, <1>2, <1>3, <1>4, <1>5, <1>6, <1>7, <1>8, <1>9, <1>10, <1>11, <1>12, <1>13, <1>14, <1>15, <1>16, <1>17, <1>18, <1>19, <1>20, <1>21, <1>22, <1>23
  DEF Next, Request, Run

\* Whatever other processes, writers, failures and crashes do: while an apply
\* is changing files, and after it was killed doing so, its undo document is in
\* the plan directory until it expires.
THEOREM Recovery == Spec => []RecoveryBeforeChange
<1>1. Init => RecInv
  <2>1. ASSUME Init PROVE HoldInv
    BY <2>1 DEF Init, HoldInv, HoldAt, CallAt, Apart, KnownWritten, Holds, Changing
  <2> QED BY <2>1, InitTypeInv DEF RecInv
<1>2. RecInv => RecoveryBeforeChange
  BY DEF RecInv, HoldInv, HoldAt, Holds, RecoveryBeforeChange, Items
<1> QED BY <1>1, <1>2, NextRecInv, PTL DEF Spec

-----------------------------------------------------------------------------
(* Who moves in a step, and what a step does to the plans. *)

\* The steps of p that change neither the plan p works on nor its call.
Keeps(p) ==
    /\ job'[p].items = job[p].items /\ job'[p].todo = job[p].todo
    /\ job'[p].kind = job[p].kind /\ job'[p].id = job[p].id


\* A step of q moves q alone.
LEMMA Alone ==
  ASSUME TypeInv, NEW p \in Procs, NEW q \in Procs, p # q,
         Request(q) \/ Run(q) \/ Crash(q)
  PROVE  pc'[p] = pc[p] /\ job'[p] = job[p] /\ result'[p] = result[p]
<1> USE DEF TypeInv, TypeOK, Goto, Return
<1>1. CASE PlanStart(q) BY <1>1 DEF PlanStart
<1>2. CASE Begin(q) BY <1>2 DEF Begin
<1>3. CASE BeginExpired(q) BY <1>3 DEF BeginExpired
<1>4. CASE PlanRead(q) BY <1>4 DEF PlanRead
<1>5. CASE PlanRefuse(q) BY <1>5 DEF PlanRefuse
<1>6. CASE PlanPersist(q) BY <1>6 DEF PlanPersist
<1>7. CASE Check(q) BY <1>7 DEF Check, LoopUp
<1>8. CASE CheckStale(q) BY <1>8 DEF CheckStale
<1>9. CASE PersistUndo(q) BY <1>9 DEF PersistUndo
<1>10. CASE PersistFail(q) BY <1>10 DEF PersistFail
<1>11. CASE Write(q) BY <1>11 DEF Write, LoopUp
<1>12. CASE WriteFail(q) BY <1>12 DEF WriteFail, RollbackFrom
<1>13. CASE Validate(q) BY <1>13 DEF Validate, LoopUp
<1>14. CASE ValidateFail(q) BY <1>14 DEF ValidateFail, RollbackFrom
<1>15. CASE Restore(q) BY <1>15 DEF Restore
<1>16. CASE RestoreFail(q) BY <1>16 DEF RestoreFail
<1>17. CASE RolledBack(q) BY <1>17 DEF RolledBack
<1>18. CASE Undone(q) BY <1>18 DEF Undone
<1>19. CASE Applied(q) BY <1>19 DEF Applied
<1>20. CASE Crash(q) BY <1>20 DEF Crash
<1> QED
  BY <1>1, <1>2, <1>3, <1>4, <1>5, <1>6, <1>7, <1>8, <1>9, <1>10, <1>11, <1>12, <1>13,
     <1>14, <1>15, <1>16, <1>17, <1>18, <1>19, <1>20 DEF Request, Run

\* In a step, p moves or is left alone.
LEMMA MoverOrNot ==
  ASSUME TypeInv, [Next]_vars, NEW p \in Procs
  PROVE  \/ Request(p) \/ Run(p) \/ Crash(p)
         \/ pc'[p] = pc[p] /\ job'[p] = job[p] /\ result'[p] = result[p]
<1>1. ASSUME NEW q \in Procs, Request(q) \/ Run(q) \/ Crash(q)
      PROVE  \/ Request(p) \/ Run(p) \/ Crash(p)
             \/ pc'[p] = pc[p] /\ job'[p] = job[p] /\ result'[p] = result[p]
  BY <1>1, Alone
<1>2. ASSUME NEW t \in Targets, Edit(t)
      PROVE  pc'[p] = pc[p] /\ job'[p] = job[p] /\ result'[p] = result[p]
  BY <1>2 DEF Edit
<1>3. CASE Tick
  BY <1>3 DEF Tick
<1>4. CASE UNCHANGED vars
  BY <1>4 DEF vars
<1> QED BY <1>1, <1>2, <1>3, <1>4 DEF Next

\* Apart from starting a call and reading a file, p stays with its plan.
LEMMA PlanKept ==
  ASSUME TypeInv, NEW p \in Procs, Request(p) \/ Run(p) \/ Crash(p)
  PROVE  PlanStart(p) \/ Begin(p) \/ PlanRead(p) \/ Keeps(p)
<1> USE DEF TypeInv, TypeOK, Keeps
<1>0. job[p] \in Job
  OBVIOUS
<1>3. CASE BeginExpired(p) BY <1>3 DEF BeginExpired
<1>5. CASE PlanRefuse(p) BY <1>5 DEF PlanRefuse
<1>6. CASE PlanPersist(p) BY <1>6 DEF PlanPersist
<1>7. CASE Check(p) BY <1>7, LoopStep DEF Check, LoopOK, LoopAt, Phases, Job
<1>8. CASE CheckStale(p) BY <1>8 DEF CheckStale
<1>9. CASE PersistUndo(p)
  <2>1. PICK d \in Ids : job' = [job EXCEPT ![p].undo = d]
    BY <1>9 DEF PersistUndo
  <2>2. job'[p] = [job[p] EXCEPT !.undo = d]
    BY <2>1
  <2> QED BY <1>0, <2>2, UndoJob
<1>10. CASE PersistFail(p) BY <1>10 DEF PersistFail
<1>11. CASE Write(p) BY <1>11, LoopStep DEF Write, LoopOK, LoopAt, Phases, Job
<1>12. CASE WriteFail(p)
  <2>1. job'[p] = [job[p] EXCEPT !.next = job[p].next - 1]
    BY <1>12 DEF WriteFail, RollbackFrom
  <2>2. job[p].next - 1 \in Nat
    BY <1>0, <1>12 DEF WriteFail, LoopOK, LoopAt, Job
  <2> QED BY <1>0, <2>1, <2>2, NextJob
<1>13. CASE Validate(p) BY <1>13, LoopStep DEF Validate, LoopOK, LoopAt, Phases, Job
<1>14. CASE ValidateFail(p)
  <2>1. job'[p] = [job[p] EXCEPT !.next = Len(job[p].items)] /\ Len(job[p].items) \in Nat
    BY <1>0, <1>14 DEF ValidateFail, RollbackFrom, Job
  <2> QED BY <1>0, <2>1, NextJob
<1>15. CASE Restore(p)
  <2>1. job'[p] = [job[p] EXCEPT !.next = job[p].next - 1]
    BY <1>15 DEF Restore
  <2>2. job[p].next - 1 \in Nat
    BY <1>0, <1>15 DEF Restore, LoopOK, LoopAt, Job
  <2> QED BY <1>0, <2>1, <2>2, NextJob
<1>16. CASE RestoreFail(p) BY <1>16 DEF RestoreFail
<1>17. CASE RolledBack(p) BY <1>17 DEF RolledBack
<1>18. CASE Undone(p) BY <1>18 DEF Undone
<1>19. CASE Applied(p) BY <1>19 DEF Applied
<1>20. CASE Crash(p) BY <1>20 DEF Crash
<1> QED
  BY <1>3, <1>5, <1>6, <1>7, <1>8, <1>9, <1>10, <1>11, <1>12, <1>13,
     <1>14, <1>15, <1>16, <1>17, <1>18, <1>19, <1>20 DEF Request, Run

\* Documents are written under fresh ids only, with the plan of a process.
LEMMA LogStep ==
  ASSUME TypeInv, [Next]_vars
  PROVE  /\ \A d \in Ids : log[d] # NoDoc => log'[d] = log[d]
         /\ \A d \in Ids : log'[d] # log[d] => \E p \in Procs : log'[d].items = job[p].items
<1> USE DEF directory
<1>1. CASE log' = log
  BY <1>1
<1>2. ASSUME NEW p \in Procs, NEW d \in Ids, NEW kind \in {"apply", "undo"},
             Fresh(d), Stored(d, kind, job[p].items)
      PROVE  /\ \A x \in Ids : log[x] # NoDoc => log'[x] = log[x]
             /\ \A x \in Ids : log'[x] # log[x] => log'[x].items = job[p].items
  <2>1. log[d] = NoDoc /\ job[p].items \in Seq(Item)
    BY <1>2 DEF Fresh, TypeInv, TypeOK, Job
  <2>2. log' = [log EXCEPT ![d] = [kind |-> kind, items |-> job[p].items, expires |-> now + TTL]]
    BY <1>2 DEF Stored
  <2>3. log \in [Ids -> Doc \cup {NoDoc}]
    BY DEF TypeInv, TypeOK
  <2> QED BY <2>1, <2>2, <2>3
<1>3. ASSUME NEW p \in Procs, PlanPersist(p) \/ PersistUndo(p)
      PROVE  \E d \in Ids, kind \in {"apply", "undo"} : Fresh(d) /\ Stored(d, kind, job[p].items)
  BY <1>3 DEF PlanPersist, PersistUndo
<1>4. \/ log' = log
      \/ \E p \in Procs : PlanPersist(p) \/ PersistUndo(p)
  BY DEF Next, Request, Run, PlanStart, PlanRead, PlanRefuse, Begin, BeginExpired, Check,
         CheckStale, PersistFail, Write, WriteFail, Validate, ValidateFail, Restore, RestoreFail,
         RolledBack, Undone, Applied, Crash, Edit, Tick, vars
<1> QED BY <1>1, <1>2, <1>3, <1>4
-----------------------------------------------------------------------------
(* Plans name every file once. *)

\* The plans that name no file twice, and the lists of files to read for one.
Plans == {s \in Seq(Item) : \A i, j \in 1..Len(s) : i # j => s[i].target # s[j].target}
Lists == {r \in Seq(Targets) : \A i, j \in 1..Len(r) : i # j => r[i] # r[j]}

\* What p has read and what it has still to read are different files.
DistinctAt(p) ==
    /\ job[p].items \in Plans /\ job[p].todo \in Lists
    /\ \A i \in 1..Len(job[p].items), k \in 1..Len(job[p].todo) :
            job[p].items[i].target # job[p].todo[k]

\* A call that applies or undoes works on a document that was written so.
DocumentAt(p) ==
    pc[p] \notin {"idle", "planning"} =>
        LET d == job[p].id
        IN log[d] # NoDoc /\ log[d].kind = job[p].kind /\ log[d].items = job[p].items

PlansInv ==
    /\ RecInv
    /\ \A p \in Procs : DistinctAt(p) /\ DocumentAt(p)
    /\ \A d \in Ids : log[d] # NoDoc => log[d].items \in Plans

\* A file read next is none of those read before.
LEMMA ReadDistinct ==
  ASSUME NEW items \in Plans, NEW todo \in Lists, todo # <<>>,
         \A i \in 1..Len(items), k \in 1..Len(todo) : items[i].target # todo[k],
         NEW before \in Contents, NEW after \in Texts
  PROVE  LET new == Append(items, [target |-> Head(todo), before |-> before, after |-> after])
         IN /\ new \in Plans /\ Tail(todo) \in Lists
            /\ \A i \in 1..Len(items), k \in 1..Len(Tail(todo)) : items[i].target # Tail(todo)[k]
            /\ \A i \in 1..Len(new), k \in 1..Len(Tail(todo)) : new[i].target # Tail(todo)[k]
<1> DEFINE item == [target |-> Head(todo), before |-> before, after |-> after]
           new == Append(items, item)
<1>1. items \in Seq(Item) /\ todo \in Seq(Targets) /\ Len(items) \in Nat /\ Len(todo) \in Nat
  BY DEF Plans, Lists
<1>2. Head(todo) = todo[1] /\ Head(todo) \in Targets /\ Len(todo) > 0
  BY <1>1
<1>3. item \in Item /\ item.target = todo[1]
  BY <1>2 DEF Item
<1> HIDE DEF item
<1>4. /\ Tail(todo) \in Seq(Targets) /\ Len(Tail(todo)) = Len(todo) - 1
      /\ \A k \in 1..Len(Tail(todo)) : Tail(todo)[k] = todo[k + 1]
  BY <1>1, <1>2
<1>5. /\ new \in Seq(Item) /\ Len(new) = Len(items) + 1
      /\ \A i \in 1..Len(items) : new[i] = items[i]
      /\ new[Len(items) + 1] = item
  BY <1>1, <1>3
<1> HIDE DEF new
<1>6. Tail(todo) \in Lists
  <2>1. \A i, j \in 1..Len(Tail(todo)) : i # j => Tail(todo)[i] # Tail(todo)[j]
    BY <1>1, <1>4 DEF Lists
  <2> QED BY <1>4, <2>1 DEF Lists
<1>7. new \in Plans
  <2>1. ASSUME NEW i \in 1..Len(new), NEW j \in 1..Len(new), i # j
        PROVE  new[i].target # new[j].target
    <3>1. CASE i \in 1..Len(items) /\ j \in 1..Len(items)
      BY <1>5, <2>1, <3>1 DEF Plans
    <3>2. CASE i = Len(items) + 1 /\ j \in 1..Len(items)
      BY <1>1, <1>2, <1>3, <1>5, <3>2
    <3>3. CASE j = Len(items) + 1 /\ i \in 1..Len(items)
      BY <1>1, <1>2, <1>3, <1>5, <3>3
    <3> QED BY <1>1, <1>5, <2>1, <3>1, <3>2, <3>3
  <2> QED BY <1>5, <2>1 DEF Plans
<1>8. \A i \in 1..Len(items), k \in 1..Len(Tail(todo)) : items[i].target # Tail(todo)[k]
  BY <1>1, <1>4
<1>9. ASSUME NEW i \in 1..Len(new), NEW k \in 1..Len(Tail(todo))
      PROVE  new[i].target # Tail(todo)[k]
  <2>1. CASE i \in 1..Len(items)
    BY <1>5, <1>8, <2>1
  <2>2. CASE i = Len(items) + 1
    <3>1. new[i].target = todo[1]
      BY <1>3, <1>5, <2>2
    <3>2. Tail(todo)[k] = todo[k + 1] /\ k + 1 \in 1..Len(todo) /\ k + 1 # 1 /\ 1 \in 1..Len(todo)
      BY <1>1, <1>2, <1>4, <1>9
    <3>3. todo[1] # todo[k + 1]
      BY <3>2 DEF Lists
    <3> QED BY <3>1, <3>2, <3>3
  <2> QED BY <1>1, <1>5, <2>1, <2>2
<1> QED BY <1>6, <1>7, <1>8, <1>9 DEF new, item

\* Every step keeps the plans of all processes distinct and written.
LEMMA NextPlansInv == PlansInv /\ [Next]_vars => PlansInv'
<1> SUFFICES ASSUME PlansInv, [Next]_vars PROVE PlansInv'
  OBVIOUS
<1> USE DEF PlansInv
<1>0. TypeInv /\ TypeOK /\ LoopOK /\ DocsOK
  BY DEF RecInv, TypeInv
<1>1. RecInv'
  BY NextRecInv
<1>2. /\ \A d \in Ids : log[d] # NoDoc => log'[d] = log[d]
      /\ \A d \in Ids : log'[d] # log[d] => \E p \in Procs : log'[d].items = job[p].items
  BY <1>0, LogStep
<1>3. \A d \in Ids : log'[d] # NoDoc => log'[d].items \in Plans
  BY <1>2 DEF DistinctAt
<1>4. ASSUME NEW p \in Procs PROVE DistinctAt(p)'
  <2>1. CASE PlanStart(p)
    <3>1. PICK r \in Requests : job' = [job EXCEPT ![p] = [NoJob EXCEPT !.todo = r]]
      BY <2>1 DEF PlanStart
    <3>2. job'[p] = [NoJob EXCEPT !.todo = r]
      BY <1>0, <3>1 DEF TypeOK
    <3>3. job'[p].items = <<>> /\ job'[p].todo = r
      BY <3>2 DEF NoJob
    <3>4. r \in Lists /\ <<>> \in Plans /\ Len(<<>>) = 0
      BY RequestAssumption DEF Lists, Plans
    <3> QED BY <3>3, <3>4 DEF DistinctAt
  <2>2. CASE Begin(p)
    <3>1. PICK d \in known :
            /\ docs[d] # NoDoc
            /\ job' = [job EXCEPT ![p] = [NoJob EXCEPT
                        !.id = d, !.kind = docs[d].kind,
                        !.items = docs[d].items, !.next = 1]]
      BY <2>2 DEF Begin
    <3>2. d \in Ids /\ docs[d] = log[d] /\ log[d] # NoDoc
      BY <1>0, <3>1 DEF TypeOK, DocsOK
    <3>3. job'[p].items = log[d].items /\ job'[p].todo = <<>>
      BY <1>0, <3>1, <3>2 DEF TypeOK, NoJob
    <3>4. <<>> \in Lists /\ Len(<<>>) = 0
      BY DEF Lists
    <3> QED BY <3>2, <3>3, <3>4 DEF DistinctAt
  <2>3. CASE PlanRead(p)
    <3> DEFINE t == Head(job[p].todo)
               new(after) == Append(job[p].items,
                                [target |-> t, before |-> text[t], after |-> after])
    <3>1. PICK after \in Valid :
            job' = [job EXCEPT
                ![p].todo = Tail(@),
                ![p].items = IF after = text[t] THEN @ ELSE new(after)]
      BY <2>3 DEF PlanRead
    <3>2. job[p].todo # <<>> /\ job[p] \in Job /\ t \in Targets /\ text[t] \in Contents /\ after \in Texts
      BY <1>0, <2>3, TextAssumption DEF PlanRead, TypeOK, Job
    <3>3. /\ job'[p].todo = Tail(job[p].todo)
          /\ job'[p].items = IF after = text[t] THEN job[p].items ELSE new(after)
      BY <1>0, <3>1, <3>2 DEF TypeOK, Job
    <3>4. /\ new(after) \in Plans /\ Tail(job[p].todo) \in Lists
          /\ \A i \in 1..Len(job[p].items), k \in 1..Len(Tail(job[p].todo)) :
                job[p].items[i].target # Tail(job[p].todo)[k]
          /\ \A i \in 1..Len(new(after)), k \in 1..Len(Tail(job[p].todo)) :
                new(after)[i].target # Tail(job[p].todo)[k]
      <4>1. /\ job[p].items \in Plans /\ job[p].todo \in Lists
            /\ \A i \in 1..Len(job[p].items), k \in 1..Len(job[p].todo) :
                    job[p].items[i].target # job[p].todo[k]
        BY DEF DistinctAt
      <4>2. PICK items \in Plans, todo \in Lists, before \in Contents :
                items = job[p].items /\ todo = job[p].todo /\ before = text[t]
        BY <3>2, <4>1
      <4>3. todo # <<>> /\ \A i \in 1..Len(items), k \in 1..Len(todo) : items[i].target # todo[k]
        BY <3>2, <4>1, <4>2
      <4>4. LET made == Append(items, [target |-> Head(todo), before |-> before, after |-> after])
            IN /\ made \in Plans /\ Tail(todo) \in Lists
               /\ \A i \in 1..Len(items), k \in 1..Len(Tail(todo)) :
                     items[i].target # Tail(todo)[k]
               /\ \A i \in 1..Len(made), k \in 1..Len(Tail(todo)) :
                     made[i].target # Tail(todo)[k]
        BY <3>2, <4>3, ReadDistinct
      <4>5. new(after) = Append(items, [target |-> Head(todo), before |-> before, after |-> after])
        BY <4>2
      <4> HIDE DEF new, t
      <4> QED BY <4>2, <4>4, <4>5
    <3> HIDE DEF new, t
    <3> QED BY <3>3, <3>4 DEF DistinctAt
  <2>4. CASE Keeps(p) \/ job'[p] = job[p]
    BY <2>4 DEF Keeps, DistinctAt
  <2> QED BY <1>0, <2>1, <2>2, <2>3, <2>4, MoverOrNot, PlanKept
<1>5. ASSUME NEW p \in Procs PROVE DocumentAt(p)'
  <2>0. ASSUME DocumentAt(p), pc[p] \notin {"idle", "planning"}, Keeps(p) \/ job'[p] = job[p]
        PROVE  DocumentAt(p)'
    BY <1>0, <1>2, <2>0 DEF DocumentAt, Keeps, LoopOK, LoopAt
  <2>1. CASE pc'[p] \in {"idle", "planning"}
    BY <2>1 DEF DocumentAt
  <2>2. CASE Begin(p)
    <3>1. PICK d \in known :
            /\ docs[d] # NoDoc
            /\ job' = [job EXCEPT ![p] = [NoJob EXCEPT
                        !.id = d, !.kind = docs[d].kind,
                        !.items = docs[d].items, !.next = 1]]
      BY <2>2 DEF Begin
    <3>2. d \in Ids /\ docs[d] = log[d] /\ log[d] # NoDoc /\ log'[d] = log[d]
      BY <1>0, <1>2, <3>1 DEF TypeOK, DocsOK
    <3>3. job'[p].items = log[d].items /\ job'[p].kind = log[d].kind /\ job'[p].id = d
      BY <1>0, <3>1, <3>2 DEF TypeOK, NoJob
    <3> QED BY <3>2, <3>3 DEF DocumentAt
  <2>3. CASE pc'[p] \notin {"idle", "planning"} /\ ~Begin(p)
    <3>1. pc[p] \notin {"idle", "planning"}
      BY <1>0, <2>3, MoverOrNot
      DEF Request, Run, PlanStart, BeginExpired, PlanRead, PlanRefuse, PlanPersist, PersistFail,
          Check, CheckStale, PersistUndo, Write, WriteFail, Validate, ValidateFail, Restore,
          RestoreFail, RolledBack, Undone, Applied, Crash, Return, Goto, TypeOK
    <3>2. Keeps(p) \/ job'[p] = job[p]
      BY <1>0, <2>3, <3>1, MoverOrNot, PlanKept DEF PlanStart, PlanRead
    <3> QED BY <2>0, <3>1, <3>2
  <2> QED BY <2>1, <2>2, <2>3
<1> QED BY <1>1, <1>3, <1>4, <1>5

\* The invariant of the plans holds of the whole protocol.
LEMMA PlansHold == Spec => []PlansInv
<1>1. Init => PlansInv
  <2>1. ASSUME Init PROVE RecInv
    BY <2>1, InitTypeInv
    DEF Init, RecInv, HoldInv, HoldAt, CallAt, Apart, KnownWritten, Holds, Changing
  <2>2. <<>> \in Plans /\ <<>> \in Lists /\ Len(<<>>) = 0
    BY DEF Plans, Lists
  <2>3. ASSUME Init, NEW p \in Procs PROVE DistinctAt(p) /\ DocumentAt(p)
    BY <2>2, <2>3 DEF Init, NoJob, DistinctAt, DocumentAt
  <2>4. ASSUME Init, NEW d \in Ids PROVE log[d] = NoDoc
    BY <2>4 DEF Init
  <2> QED BY <2>1, <2>3, <2>4 DEF PlansInv
<1> QED BY <1>1, NextPlansInv, PTL DEF Spec
-----------------------------------------------------------------------------
(* What the files hold while a call is under way. *)

New(p, j) == text[job[p].items[j].target] = job[p].items[j].after
Old(p, j) == text[job[p].items[j].target] = job[p].items[j].before

\* The files p has compared, written or still to restore, and the others.
FilesAt(p) ==
    \A j \in 1..Len(job[p].items) :
        /\ pc[p] = "checking" /\ j < job[p].next =>
                IF job[p].kind = "apply" THEN Old(p, j) ELSE New(p, j)
        /\ pc[p] = "persisting" => Old(p, j)
        /\ pc[p] = "writing" => IF j < job[p].next THEN New(p, j) ELSE Old(p, j)
        /\ pc[p] \in {"validating", "closing"} => New(p, j)
        /\ pc[p] = "restoring" => IF j <= job[p].next THEN New(p, j) ELSE Old(p, j)
FilesOK == \A p \in Procs : FilesAt(p)
FilesInv == PlansInv /\ FilesOK

\* Nobody but p changes, in this step, a file of p's plan.
Undisturbed(p) ==
    \/ Run(p)
    \/ \A j \in 1..Len(job[p].items) :
            text'[job[p].items[j].target] = text[job[p].items[j].target]

\* While a call is under way, others leave the files of its plan alone.
OthersWait == \A p \in Procs : pc[p] # "idle" => Undisturbed(p)

\* And they do so until the process starts its next call.
OthersStay == \A p \in Procs : Undisturbed(p)

\* A step of the loop over the files, as far as this process is concerned.
LEMMA ItemsOf ==
  ASSUME TypeInv, NEW p \in Procs
  PROVE  /\ job[p] \in Job /\ Len(job[p].items) \in Nat /\ job[p].next \in Nat
         /\ \A j \in 1..Len(job[p].items) :
                job[p].items[j] \in Item /\ job[p].items[j].target \in Targets
<1>1. job[p] \in Job
  BY DEF TypeInv, TypeOK
<1>2. job[p].items \in Seq(Item) /\ job[p].next \in Nat
  BY <1>1 DEF Job
<1>3. \A j \in 1..Len(job[p].items) : job[p].items[j] \in Item
  BY <1>2
<1> QED BY <1>1, <1>2, <1>3 DEF Item

\* Replacing one file of a plan leaves the other files of the plan alone.
LEMMA OneFile ==
  ASSUME PlansInv, NEW p \in Procs, NEW n \in 1..Len(job[p].items),
         \E x : text' = [text EXCEPT ![job[p].items[n].target] = x]
  PROVE  \A j \in 1..Len(job[p].items) :
            j # n => text'[job[p].items[j].target] = text[job[p].items[j].target]
<1>1. TypeInv /\ job[p].items \in Plans
  BY DEF PlansInv, RecInv, DistinctAt
<1>2. ASSUME NEW j \in 1..Len(job[p].items), j # n
      PROVE  job[p].items[j].target # job[p].items[n].target
  BY <1>1, <1>2 DEF Plans
<1>3. \A j \in 1..Len(job[p].items) : job[p].items[j].target \in DOMAIN text
  BY <1>1, ItemsOf DEF TypeInv, TypeOK
<1> QED BY <1>2, <1>3

\* The steps of p keep what p knows of its files.
LEMMA OwnFiles ==
  ASSUME PlansInv, NEW p \in Procs, FilesAt(p), Run(p)
  PROVE  FilesAt(p)'
<1> USE DEF New, Old
<1>0. TypeInv /\ TypeOK /\ LoopOK
  BY DEF PlansInv, RecInv, TypeInv
<1>1. /\ job[p] \in Job /\ Len(job[p].items) \in Nat /\ job[p].next \in Nat
      /\ \A j \in 1..Len(job[p].items) :
                job[p].items[j] \in Item /\ job[p].items[j].target \in Targets
  BY <1>0, ItemsOf
<1>2. CASE pc'[p] \in {"idle", "planning"}
  BY <1>2 DEF FilesAt
<1>3. CASE PlanRead(p) \/ PlanRefuse(p) \/ PlanPersist(p) \/ CheckStale(p) \/ PersistFail(p)
           \/ RestoreFail(p) \/ RolledBack(p) \/ Undone(p) \/ Applied(p)
  <2>1. pc'[p] \in {"idle", "planning"}
    BY <1>0, <1>3 DEF PlanRead, PlanRefuse, PlanPersist, CheckStale, PersistFail, RestoreFail,
       RolledBack, Undone, Applied, Return, Goto, TypeOK
  <2> QED BY <1>2, <2>1
<1>4. CASE Check(p)
  <2>1. /\ pc[p] = "checking" /\ text' = text /\ job[p].next \in 1..Len(job[p].items)
        /\ text[Current(p).target] = Expected(p)
    BY <1>0, <1>4 DEF Check, LoopOK, LoopAt
  <2>2. /\ job'[p].items = job[p].items /\ job'[p].kind = job[p].kind
        /\ \/ pc'[p] = "checking" /\ job'[p].next = job[p].next + 1
           \/ /\ pc'[p] = "persisting" /\ job[p].kind = "apply" /\ job[p].next = Len(job[p].items)
           \/ /\ pc'[p] = "restoring" /\ job[p].kind # "apply"
              /\ job'[p].next = Len(job[p].items) /\ job[p].next = Len(job[p].items)
    BY <1>0, <1>1, <1>4, <2>1, LoopStep DEF Check, Phases
  <2>3. IF job[p].kind = "apply" THEN Old(p, job[p].next) ELSE New(p, job[p].next)
    BY <2>1 DEF Expected, Current
  <2>4. \A j \in 1..job[p].next : IF job[p].kind = "apply" THEN Old(p, j) ELSE New(p, j)
    BY <1>1, <2>1, <2>3 DEF FilesAt
  <2> QED BY <1>1, <2>1, <2>2, <2>4 DEF FilesAt
<1>5. CASE PersistUndo(p)
  <2>1. pc[p] = "persisting" /\ pc'[p] = "writing" /\ text' = text /\ job[p].next = 1
    BY <1>0, <1>5 DEF PersistUndo, Goto, TypeOK, LoopOK, LoopAt
  <2>2. job'[p].items = job[p].items /\ job'[p].next = job[p].next
    <3>1. PICK d \in Ids : job' = [job EXCEPT ![p].undo = d]
      BY <1>5 DEF PersistUndo
    <3>2. job'[p] = [job[p] EXCEPT !.undo = d]
      BY <1>0, <3>1 DEF TypeOK
    <3> QED BY <1>1, <3>2, UndoJob
  <2> QED BY <1>1, <2>1, <2>2 DEF FilesAt
<1>6. CASE Write(p)
  <2> DEFINE n == job[p].next
  <2>1. /\ pc[p] = "writing" /\ n \in 1..Len(job[p].items)
        /\ text' = [text EXCEPT ![job[p].items[n].target] = job[p].items[n].after]
    BY <1>0, <1>6 DEF Write, Current, LoopOK, LoopAt
  <2>2. /\ job'[p].items = job[p].items
        /\ \/ pc'[p] = "writing" /\ job'[p].next = n + 1
           \/ pc'[p] = "validating" /\ n = Len(job[p].items)
    BY <1>0, <1>1, <1>6, <2>1, LoopStep DEF Write, Phases
  <2>3. \A j \in 1..Len(job[p].items) :
            j # n => text'[job[p].items[j].target] = text[job[p].items[j].target]
    BY <2>1, OneFile
  <2>4. text'[job[p].items[n].target] = job[p].items[n].after
    BY <1>0, <1>1, <2>1 DEF TypeOK
  <2>5. \A j \in 1..Len(job[p].items) : IF j < n THEN New(p, j) ELSE Old(p, j)
    BY <2>1 DEF FilesAt
  <2>6. \A j \in 1..Len(job[p].items) :
            /\ j < n => text'[job[p].items[j].target] = job[p].items[j].after
            /\ j > n => text'[job[p].items[j].target] = job[p].items[j].before
    BY <1>1, <2>1, <2>3, <2>5
  <2>7. n \in Nat /\ Len(job[p].items) \in Nat
    BY <1>1
  <2> HIDE DEF n
  <2>8. CASE pc'[p] = "writing" /\ job'[p].next = n + 1
    <3>1. ASSUME NEW j \in 1..Len(job'[p].items)
          PROVE  IF j < job'[p].next THEN New(p, j)' ELSE Old(p, j)'
      <4>1. j \in 1..Len(job[p].items) /\ j \in Nat
        BY <2>2
      <4>2. CASE j < n
        BY <2>2, <2>6, <2>7, <2>8, <4>1, <4>2
      <4>3. CASE j = n
        BY <2>2, <2>4, <2>7, <2>8, <4>3
      <4>4. CASE j > n
        BY <2>2, <2>6, <2>7, <2>8, <4>1, <4>4
      <4> QED BY <2>7, <4>1, <4>2, <4>3, <4>4
    <3> QED BY <2>8, <3>1 DEF FilesAt
  <2>9. CASE pc'[p] = "validating" /\ n = Len(job[p].items)
    <3>1. ASSUME NEW j \in 1..Len(job'[p].items) PROVE New(p, j)'
      <4>1. j \in 1..Len(job[p].items) /\ j \in Nat /\ (j < n \/ j = n)
        BY <2>2, <2>7, <2>9
      <4> QED BY <2>2, <2>4, <2>6, <4>1
    <3> QED BY <2>9, <3>1 DEF FilesAt
  <2> QED BY <2>2, <2>8, <2>9
<1>7. CASE WriteFail(p)
  <2>1. pc[p] = "writing" /\ pc'[p] = "restoring" /\ text' = text /\ job[p].next - 1 \in Nat
    BY <1>0, <1>1, <1>7 DEF WriteFail, RollbackFrom, Goto, TypeOK, LoopOK, LoopAt
  <2>2. job'[p].items = job[p].items /\ job'[p].next = job[p].next - 1
    <3>1. job'[p] = [job[p] EXCEPT !.next = job[p].next - 1]
      BY <1>0, <1>7 DEF WriteFail, RollbackFrom, TypeOK
    <3> QED BY <1>1, <2>1, <3>1, NextJob
  <2> QED BY <1>1, <2>1, <2>2 DEF FilesAt
<1>8. CASE Validate(p)
  <2>1. pc[p] = "validating" /\ text' = text /\ job[p].next \in 1..Len(job[p].items)
    BY <1>0, <1>8 DEF Validate, LoopOK, LoopAt
  <2>2. job'[p].items = job[p].items /\ pc'[p] \in {"validating", "closing"}
    BY <1>0, <1>1, <1>8, <2>1, LoopStep DEF Validate, Phases
  <2> QED BY <1>1, <2>1, <2>2 DEF FilesAt
<1>9. CASE ValidateFail(p)
  <2>1. pc[p] = "validating" /\ pc'[p] = "restoring" /\ text' = text
    BY <1>0, <1>9 DEF ValidateFail, RollbackFrom, Goto, TypeOK
  <2>2. job'[p].items = job[p].items /\ job'[p].next = Len(job[p].items)
    <3>1. job'[p] = [job[p] EXCEPT !.next = Len(job[p].items)]
      BY <1>0, <1>9 DEF ValidateFail, RollbackFrom, TypeOK
    <3> QED BY <1>1, <3>1, NextJob
  <2> QED BY <1>1, <2>1, <2>2 DEF FilesAt
<1>10. CASE Restore(p)
  <2> DEFINE n == job[p].next
  <2>1. /\ pc[p] = "restoring" /\ pc'[p] = "restoring" /\ n \in 1..Len(job[p].items) /\ n - 1 \in Nat
        /\ text' = [text EXCEPT ![job[p].items[n].target] = job[p].items[n].before]
    BY <1>0, <1>1, <1>10 DEF Restore, Current, LoopOK, LoopAt
  <2>2. job'[p].items = job[p].items /\ job'[p].next = n - 1
    <3>1. job'[p] = [job[p] EXCEPT !.next = job[p].next - 1]
      BY <1>0, <1>10 DEF Restore, TypeOK
    <3> QED BY <1>1, <2>1, <3>1, NextJob
  <2>3. \A j \in 1..Len(job[p].items) :
            j # n => text'[job[p].items[j].target] = text[job[p].items[j].target]
    BY <2>1, OneFile
  <2>4. text'[job[p].items[n].target] = job[p].items[n].before
    BY <1>0, <1>1, <2>1 DEF TypeOK
  <2>5. ASSUME NEW j \in 1..Len(job'[p].items)
        PROVE  IF j <= job'[p].next THEN New(p, j)' ELSE Old(p, j)'
    <3>1. j \in 1..Len(job[p].items)
      BY <2>2, <2>5
    <3>2. CASE j = n
      BY <1>1, <2>1, <2>2, <2>4, <3>2
    <3>3. CASE j # n
      <4>1. IF j <= n THEN New(p, j) ELSE Old(p, j)
        BY <2>1, <3>1 DEF FilesAt
      <4>2. j <= n <=> j <= n - 1
        BY <1>1, <3>1, <3>3
      <4> QED BY <2>2, <2>3, <3>1, <3>3, <4>1, <4>2
    <3> QED BY <3>2, <3>3
  <2> QED BY <2>1, <2>2, <2>5 DEF FilesAt
<1> QED
  BY <1>3, <1>4, <1>5, <1>6, <1>7, <1>8, <1>9, <1>10 DEF Run

\* So do all other steps that leave its files alone while its call is running.
LEMMA NextFilesAt ==
  ASSUME PlansInv, [Next]_vars, NEW p \in Procs, FilesAt(p),
         pc[p] # "idle" => Undisturbed(p)
  PROVE  FilesAt(p)'
<1>0. TypeInv /\ TypeOK
  BY DEF PlansInv, RecInv, TypeInv
<1>1. CASE Run(p)
  BY <1>1, OwnFiles
<1>2. CASE Crash(p) \/ PlanStart(p)
  <2>1. pc'[p] \in {"idle", "planning"}
    BY <1>0, <1>2 DEF Crash, PlanStart, Return, Goto, TypeOK
  <2> QED BY <2>1 DEF FilesAt
<1>3. CASE Begin(p)
  <2>1. pc'[p] = "checking" /\ job'[p].next = 1
    BY <1>0, <1>3 DEF Begin, Goto, TypeOK, NoJob
  <2> QED BY <2>1 DEF FilesAt
<1>4. CASE ~Run(p) /\ pc'[p] = pc[p] /\ job'[p] = job[p]
  BY <1>4 DEF FilesAt, Undisturbed, New, Old
<1>5. CASE BeginExpired(p)
  <2>1. pc'[p] = "idle"
    BY <1>5 DEF BeginExpired
  <2> QED BY <2>1 DEF FilesAt
<1> QED BY <1>0, <1>1, <1>2, <1>3, <1>4, <1>5, MoverOrNot DEF Request

\* What the processes know of their files holds as long as others wait.
LEMMA FilesHold == Spec /\ [][OthersWait]_vars => []FilesInv
<1>1. Init => FilesOK
  BY DEF Init, FilesOK, FilesAt
<1>2. PlansInv /\ FilesOK /\ [Next]_vars /\ [OthersWait]_vars => FilesOK'
  <2> SUFFICES ASSUME PlansInv, FilesOK, [Next]_vars, [OthersWait]_vars,
                      NEW p \in Procs
               PROVE  FilesAt(p)'
    BY DEF FilesOK
  <2>1. CASE OthersWait
    BY <2>1, NextFilesAt DEF OthersWait, FilesOK
  <2>2. CASE UNCHANGED vars
    BY <2>2 DEF vars, FilesOK, FilesAt, New, Old
  <2> QED BY <2>1, <2>2
<1> QED BY <1>1, <1>2, PlansHold, PTL DEF Spec, FilesInv

\* Compare-and-swap holds for every number of processes, files and failures, as long
\* as the files of a plan are left alone between their comparison and the end of the call:
\* the checks before the first write protect every later write, rollback and undo.
THEOREM Reviewed == Spec /\ [][OthersWait]_vars => []ReplacesReviewedText
<1>1. FilesInv => ReplacesReviewedText
  <2> SUFFICES ASSUME FilesInv, NEW p \in Procs
               PROVE  /\ pc[p] = "writing" => text[Current(p).target] = Current(p).before
                      /\ pc[p] = "restoring" /\ job[p].next > 0 =>
                            text[Current(p).target] = Current(p).after
    BY DEF ReplacesReviewedText
  <2>1. TypeInv /\ FilesAt(p) /\ LoopAt(p)
    BY DEF FilesInv, FilesOK, PlansInv, RecInv, TypeInv, LoopOK
  <2>2. Len(job[p].items) \in Nat /\ job[p].next \in Nat
    BY <2>1, ItemsOf
  <2>3. ASSUME pc[p] = "writing" PROVE Old(p, job[p].next)
    BY <2>1, <2>2, <2>3 DEF FilesAt, LoopAt
  <2>4. ASSUME pc[p] = "restoring", job[p].next > 0 PROVE New(p, job[p].next)
    BY <2>1, <2>2, <2>4 DEF FilesAt, LoopAt
  <2> QED BY <2>3, <2>4 DEF Old, New, Current
<1> QED BY <1>1, FilesHold, PTL

\* No step drops a valid undo document whose files are not restored.
LEMMA DropStep ==
  ASSUME FilesInv, [Next]_vars, NEW d \in Ids,
         docs[d] # NoDoc, docs'[d] = NoDoc, docs[d].kind = "undo", ~Expired(d)
  PROVE  \A j \in DOMAIN docs[d].items :
            text[docs[d].items[j].target] = docs[d].items[j].before
<1> USE DEF directory
<1>0. TypeInv /\ TypeOK /\ DocsOK /\ HoldInv /\ LoopOK
  BY DEF FilesInv, PlansInv, RecInv, TypeInv
<1>1. docs[d] = log[d] /\ log[d] # NoDoc /\ docs[d] \in Doc
  BY <1>0 DEF DocsOK, TypeOK
<1>2. ASSUME NEW p \in Procs, PlanPersist(p) \/ PersistUndo(p) PROVE FALSE
  <2>1. PICK e \in Ids, kind \in {"apply", "undo"} : Fresh(e) /\ Stored(e, kind, job[p].items)
    BY <1>2 DEF PlanPersist, PersistUndo
  <2>2. log[e] = NoDoc /\ job[p].items \in Seq(Item)
    BY <1>0, <2>1 DEF Fresh, TypeOK, Job
  <2>3. docs'[d] = log[d] \/ log[d].expires < now
    BY <1>0, <1>1, <2>1, <2>2, StoredKeeps
  <2> QED BY <1>1, <2>3 DEF Expired
<1>3. ASSUME NEW p \in Procs, PersistFail(p) \/ BeginExpired(p) PROVE FALSE
  <2>1. CASE PersistFail(p)
    BY <1>0, <1>1, <2>1, PurgeDrops DEF PersistFail, Expired
  <2>2. CASE BeginExpired(p)
    BY <1>0, <1>1, <2>2 DEF BeginExpired, TypeOK
  <2> QED BY <1>3, <2>1, <2>2
<1>4. ASSUME NEW p \in Procs, RolledBack(p) \/ Undone(p) \/ Applied(p)
      PROVE  /\ docs[d].items = job[p].items
             /\ pc[p] = "restoring" /\ job[p].next = 0
  <2>1. FilesAt(p) /\ HoldAt(p) /\ DocumentAt(p) /\ LoopAt(p)
    BY <1>0 DEF FilesInv, FilesOK, PlansInv, HoldInv, LoopOK
  <2>2. CASE RolledBack(p)
    <3>1. d = job[p].undo /\ Holds(p)
      BY <1>0, <1>1, <2>2 DEF RolledBack, Deleted, TypeOK, Holds, Changing
    <3> QED BY <1>1, <2>1, <2>2, <3>1 DEF HoldAt, RolledBack
  <2>3. CASE Undone(p)
    <3>1. d = job[p].id
      BY <1>0, <1>1, <2>3 DEF Undone, Deleted, TypeOK
    <3> QED BY <1>1, <2>1, <2>3, <3>1 DEF DocumentAt, Undone
  <2>4. CASE Applied(p)
    <3>1. d = job[p].id /\ pc[p] = "closing"
      BY <1>0, <1>1, <2>4 DEF Applied, Deleted, TypeOK
    <3>2. log[d].kind = "apply"
      BY <2>1, <3>1 DEF DocumentAt, LoopAt
    <3> QED BY <1>1, <3>2
  <2> QED BY <1>4, <2>2, <2>3, <2>4
<1>5. ASSUME NEW p \in Procs, RolledBack(p) \/ Undone(p) \/ Applied(p)
      PROVE  \A j \in DOMAIN docs[d].items :
                text[docs[d].items[j].target] = docs[d].items[j].before
  <2>1. FilesAt(p) /\ TypeInv
    BY <1>0 DEF FilesInv, FilesOK
  <2>2. DOMAIN job[p].items = 1..Len(job[p].items) /\ Len(job[p].items) \in Nat
    BY <1>0 DEF TypeOK, Job
  <2>3. \A j \in 1..Len(job[p].items) : Old(p, j)
    BY <1>4, <1>5, <2>1, <2>2 DEF FilesAt
  <2> QED BY <1>4, <1>5, <2>2, <2>3 DEF Old
<1>6. \/ \E p \in Procs : PlanPersist(p) \/ PersistUndo(p)
      \/ \E p \in Procs : PersistFail(p) \/ BeginExpired(p)
      \/ \E p \in Procs : RolledBack(p) \/ Undone(p) \/ Applied(p)
  BY DEF Next, Request, Run, PlanStart, PlanRead, PlanRefuse, Begin, Check,
         CheckStale, Write, WriteFail, Validate, ValidateFail, Restore, RestoreFail,
         Crash, Edit, Tick, vars
<1> QED BY <1>2, <1>3, <1>5, <1>6

\* Recovery data is never lost too early: for any number of processes and failures, with
\* others waiting, a valid undo document goes only when its files are restored.
THEOREM Dropped == Spec /\ [][OthersWait]_vars => DropsOnlyWhenRestored
<1>1. FilesInv /\ [Next]_vars =>
        [\A d \in Ids :
            docs[d] # NoDoc /\ docs'[d] = NoDoc /\ docs[d].kind = "undo" /\ ~Expired(d) =>
                \A j \in DOMAIN docs[d].items :
                    text[docs[d].items[j].target] = docs[d].items[j].before]_vars
  BY DropStep
<1> QED BY <1>1, FilesHold, PTL DEF Spec, DropsOnlyWhenRestored
-----------------------------------------------------------------------------
(* What the files hold when a call has ended. *)

\* p's files hold the new texts up to the k-th, and the old ones from there on.
TornAt(p, k) ==
    \A j \in 1..Len(job[p].items) : IF j <= k THEN New(p, j) ELSE Old(p, j)

EndedAt(p) ==
    /\ result[p] = "applied" => \A j \in 1..Len(job[p].items) : New(p, j)
    /\ result[p] \in {"failed", "undone"} => \A j \in 1..Len(job[p].items) : Old(p, j)
    /\ result[p] \in {"torn", "unrecovered", "partial"} =>
            \E k \in 0..Len(job[p].items) : TornAt(p, k)
EndedOK == \A p \in Procs : EndedAt(p)

\* A call that is changing files has changed a prefix of its plan.
LEMMA ChangingPrefix ==
  ASSUME FilesInv, NEW p \in Procs, Changing(p)
  PROVE  \E k \in 0..Len(job[p].items) :
            TornAt(p, k) /\ (pc[p] = "restoring" => k = job[p].next)
<1>1. TypeInv /\ FilesAt(p) /\ LoopAt(p)
  BY DEF FilesInv, FilesOK, PlansInv, RecInv, TypeInv, LoopOK
<1>2. Len(job[p].items) \in Nat /\ job[p].next \in Nat
  BY <1>1, ItemsOf
<1>3. CASE pc[p] = "writing"
  <2>1. job[p].next - 1 \in 0..Len(job[p].items)
    BY <1>1, <1>2, <1>3 DEF LoopAt
  <2>2. TornAt(p, job[p].next - 1)
    BY <1>1, <1>2, <1>3 DEF FilesAt, TornAt
  <2> QED BY <1>3, <2>1, <2>2
<1>4. CASE pc[p] \in {"validating", "closing"}
  <2>1. TornAt(p, Len(job[p].items)) /\ Len(job[p].items) \in 0..Len(job[p].items)
    BY <1>1, <1>2, <1>4 DEF FilesAt, TornAt
  <2> QED BY <1>4, <2>1
<1>5. CASE pc[p] = "restoring"
  <2>1. TornAt(p, job[p].next) /\ job[p].next \in 0..Len(job[p].items)
    BY <1>1, <1>2, <1>5 DEF FilesAt, TornAt, LoopAt
  <2> QED BY <2>1
<1> QED BY <1>3, <1>4, <1>5 DEF Changing

\* A call that ends leaves its files as its result says.
LEMMA OwnEnd ==
  ASSUME FilesInv, NEW p \in Procs, Run(p) \/ Crash(p), EndedAt(p)
  PROVE  EndedAt(p)'
<1>0. TypeInv /\ TypeOK /\ CallAt(p) /\ FilesAt(p) /\ LoopAt(p)
  BY DEF FilesInv, FilesOK, PlansInv, RecInv, HoldInv, TypeInv, LoopOK
<1>1. Len(job[p].items) \in Nat /\ job[p].next \in Nat
  BY <1>0, ItemsOf
<1>2. CASE result'[p] \in {"none", "planned", "refused", "stale", "aborted"}
  BY <1>2 DEF EndedAt
<1>3. CASE PlanRead(p) \/ PlanRefuse(p) \/ PlanPersist(p) \/ Check(p) \/ CheckStale(p)
           \/ PersistUndo(p) \/ Write(p) \/ WriteFail(p) \/ Validate(p) \/ ValidateFail(p)
           \/ Restore(p)
  <2>1. pc[p] # "idle" /\ (result'[p] = result[p] \/ result'[p] \in {"planned", "refused", "stale"})
    BY <1>0, <1>3 DEF PlanRead, PlanRefuse, PlanPersist, Check, CheckStale, PersistUndo, Write,
       WriteFail, Validate, ValidateFail, Restore, Return, TypeOK
  <2> QED BY <1>0, <1>2, <2>1 DEF CallAt
<1>4. CASE PersistFail(p)
  <2>1. text' = text /\ job' = job /\ (result'[p] = "refused" \/ (pc[p] = "persisting" /\ result'[p] = "failed"))
    BY <1>0, <1>4 DEF PersistFail, Return, TypeOK
  <2>2. CASE pc[p] = "persisting" /\ result'[p] = "failed"
    <3>1. \A j \in 1..Len(job[p].items) : Old(p, j)
      BY <1>0, <2>2 DEF FilesAt
    <3> QED BY <2>1, <2>2, <3>1 DEF EndedAt, Old
  <2> QED BY <1>2, <2>1, <2>2
<1>5. CASE RolledBack(p) \/ Undone(p)
  <2>1. /\ text' = text /\ job' = job /\ result'[p] \in {"failed", "undone"}
        /\ pc[p] = "restoring" /\ job[p].next = 0
    BY <1>0, <1>5 DEF RolledBack, Undone, Return, TypeOK
  <2>2. \A j \in 1..Len(job[p].items) : Old(p, j)
    BY <1>0, <1>1, <2>1 DEF FilesAt
  <2> QED BY <2>1, <2>2 DEF EndedAt, Old
<1>6. CASE Applied(p)
  <2>1. text' = text /\ job' = job /\ result'[p] = "applied" /\ pc[p] = "closing"
    BY <1>0, <1>6 DEF Applied, Return, TypeOK
  <2>2. \A j \in 1..Len(job[p].items) : New(p, j)
    BY <1>0, <2>1 DEF FilesAt
  <2> QED BY <2>1, <2>2 DEF EndedAt, New
<1>7. CASE RestoreFail(p) \/ (Crash(p) /\ Changing(p))
  <2>1. text' = text /\ job' = job /\ result'[p] \in {"torn", "unrecovered", "partial"}
    BY <1>0, <1>7 DEF RestoreFail, Crash, Return, TypeOK
  <2>2. Changing(p)
    BY <1>7 DEF RestoreFail, Changing
  <2>3. PICK k \in 0..Len(job[p].items) : TornAt(p, k)
    BY <2>2, ChangingPrefix
  <2>4. TornAt(p, k)'
    BY <2>1, <2>3 DEF TornAt, New, Old
  <2> QED BY <2>1, <2>4 DEF EndedAt
<1>8. CASE Crash(p) /\ ~Changing(p)
  <2>1. result'[p] = "aborted"
    BY <1>0, <1>8 DEF Crash, Return, TypeOK
  <2> QED BY <1>2, <2>1
<1> QED BY <1>3, <1>4, <1>5, <1>6, <1>7, <1>8 DEF Run

\* Results keep telling the truth while others leave the files of ended calls alone too.
LEMMA EndedHolds == Spec /\ [][OthersStay]_vars => [](FilesInv /\ EndedOK)
<1>1. OthersStay => OthersWait
  BY DEF OthersStay, OthersWait
<1>2. Spec /\ [][OthersStay]_vars => []FilesInv
  BY <1>1, FilesHold, PTL
<1>3. Init => EndedOK
  BY DEF Init, EndedOK, EndedAt
<1>4. FilesInv /\ EndedOK /\ [Next]_vars /\ [OthersStay]_vars => EndedOK'
  <2> SUFFICES ASSUME FilesInv, EndedOK, [Next]_vars, [OthersStay]_vars,
                      NEW p \in Procs
               PROVE  EndedAt(p)'
    BY DEF EndedOK
  <2>0. TypeInv /\ EndedAt(p) /\ TypeOK
    BY DEF FilesInv, PlansInv, RecInv, TypeInv, EndedOK
  <2>1. CASE Run(p) \/ Crash(p)
    BY <2>0, <2>1, OwnEnd
  <2>2. CASE Request(p)
    <3>1. result'[p] \in {"none", "refused"}
      BY <2>0, <2>2 DEF Request, PlanStart, Begin, BeginExpired, TypeOK
    <3> QED BY <3>1 DEF EndedAt
  <2>3. CASE /\ ~Run(p) /\ ~UNCHANGED vars
             /\ pc'[p] = pc[p] /\ job'[p] = job[p] /\ result'[p] = result[p]
    <3>1. \A j \in 1..Len(job[p].items) :
            text'[job[p].items[j].target] = text[job[p].items[j].target]
      BY <2>3 DEF OthersStay, Undisturbed
    <3>2. \A j \in 1..Len(job[p].items) : (New(p, j)' <=> New(p, j)) /\ (Old(p, j)' <=> Old(p, j))
      BY <2>3, <3>1 DEF New, Old
    <3>3. \A k \in 0..Len(job[p].items) : TornAt(p, k) => TornAt(p, k)'
      BY <2>3, <3>2 DEF TornAt
    <3> QED BY <2>0, <2>3, <3>2, <3>3 DEF EndedAt
  <2>4. CASE UNCHANGED vars
    BY <2>0, <2>4 DEF vars, EndedAt, TornAt, New, Old
  <2> QED BY <2>0, <2>1, <2>2, <2>3, <2>4, MoverOrNot
<1> QED BY <1>2, <1>3, <1>4, PTL DEF Spec

\* All or nothing, for every number of processes, files, failures and kills: as long as
\* others leave its files alone, what a call reports is what the files hold.
THEOREM Whole == Spec /\ [][OthersStay]_vars => []AllOrNothing
<1>1. FilesInv /\ EndedOK => AllOrNothing
  <2> SUFFICES ASSUME FilesInv, EndedOK, NEW p \in Procs
               PROVE  /\ result[p] = "applied" => AppliedUpTo(p, Len(Items(p)))
                      /\ result[p] \in {"failed", "undone"} => AppliedUpTo(p, 0)
    BY DEF AllOrNothing
  <2>1. EndedAt(p) /\ Len(job[p].items) \in Nat
    BY ItemsOf DEF EndedOK, FilesInv, PlansInv, RecInv
  <2> QED BY <2>1 DEF EndedAt, AppliedUpTo, Items, Side, New, Old
<1> QED BY <1>1, EndedHolds, PTL

\* However a call is cut short, by a kill at any step or a rollback or undo that fails at
\* any file, what it leaves is a prefix of its plan.
THEOREM Torn == Spec /\ [][OthersStay]_vars => []TornIsPrefix
<1>1. FilesInv /\ EndedOK => TornIsPrefix
  <2> SUFFICES ASSUME FilesInv, EndedOK, NEW p \in Procs,
                      result[p] \in {"torn", "unrecovered", "partial"}
               PROVE  \E k \in 0..Len(Items(p)) : AppliedUpTo(p, k)
    BY DEF TornIsPrefix
  <2>1. EndedAt(p) /\ Len(job[p].items) \in Nat
    BY ItemsOf DEF EndedOK, FilesInv, PlansInv, RecInv
  <2>2. PICK k \in 0..Len(job[p].items) : TornAt(p, k)
    BY <2>1 DEF EndedAt
  <2>3. AppliedUpTo(p, k)
    BY <2>1, <2>2 DEF TornAt, AppliedUpTo, Items, Side, New, Old
  <2> QED BY <2>3 DEF Items
<1> QED BY <1>1, EndedHolds, PTL

-----------------------------------------------------------------------------
(* One process, no other writer: nobody is there to disturb. *)

SoleWriter == (\A p, q \in Procs : p = q) /\ MaxEdits = 0

\* The budget of outside edits, which a sole writer has none of.
NoEdit == left.edits = 0

\* No step takes back that nobody edits.
LEMMA Unedited == ASSUME SoleWriter PROVE Spec => [](TypeInv /\ NoEdit)
<1> USE DEF NoEdit
<1>1. Init => NoEdit
  BY SoleWriter DEF Init, SoleWriter
<1>2. TypeInv /\ NoEdit /\ [Next]_vars => NoEdit'
  <2> SUFFICES ASSUME TypeInv, NoEdit, [Next]_vars PROVE NoEdit'
    OBVIOUS
  <2>1. left \in [faults : Nat, crashes : Nat, edits : Nat]
    BY DEF TypeInv, TypeOK
  <2>2. \/ left' = left \/ left' = [left EXCEPT !.faults = @ - 1]
        \/ left' = [left EXCEPT !.crashes = @ - 1] \/ \E t \in Targets : Edit(t)
    BY DEF Next, Request, Run, PlanStart, PlanRead, PlanRefuse, PlanPersist,
           Begin, BeginExpired, Check, CheckStale, PersistUndo, PersistFail, Write, WriteFail, Validate,
           ValidateFail, Restore, RestoreFail, RolledBack, Undone, Applied, Crash, Tick, Fault,
           Deleted, vars
  <2>3. ASSUME NEW t \in Targets, Edit(t) PROVE FALSE
    BY <2>3 DEF Edit
  <2> QED BY <2>1, <2>2, <2>3
<1>3. Spec => []TypeInv
  BY InitTypeInv, NextTypeInv, PTL DEF Spec
<1> QED BY <1>1, <1>2, <1>3, PTL DEF Spec

\* Where one API process at a time runs and nothing else writes the files, every step
\* leaves the files of a plan to the process that works on it.
THEOREM SoleUndisturbed == ASSUME SoleWriter PROVE Spec => [][OthersStay]_vars
<1>1. TypeInv /\ NoEdit /\ [Next]_vars => [OthersStay]_vars
  <2> SUFFICES ASSUME TypeInv, NoEdit, Next, NEW p \in Procs
               PROVE  Undisturbed(p)
    BY DEF OthersStay
  <2>1. CASE text' = text
    BY <2>1 DEF Undisturbed
  <2>2. CASE \E q \in Procs : Run(q)
    BY <2>2, SoleWriter DEF SoleWriter, Undisturbed
  <2>3. ASSUME NEW q \in Procs, Request(q) \/ Crash(q) PROVE text' = text
    BY <2>3 DEF Request, PlanStart, Begin, BeginExpired, Crash
  <2>4. ASSUME NEW t \in Targets, Edit(t) PROVE FALSE
    BY <2>4 DEF Edit, NoEdit
  <2>5. CASE Tick
    BY <2>1, <2>5 DEF Tick
  <2> QED BY <2>1, <2>2, <2>3, <2>4, <2>5 DEF Next
<1> QED BY <1>1, Unedited, PTL DEF Spec

-----------------------------------------------------------------------------
(* The sole process and the refinement of PolicyStore. *)

\* There is one process, and it is the one the mapping looks at.
LEMMA SoleProcess ==
  ASSUME SoleWriter, Procs # {}
  PROVE  sole \in Procs /\ \A p \in Procs : p = sole
BY DEF SoleWriter, sole

-----------------------------------------------------------------------------
(* The mapping. *)

\* A file of the plan is found at its own place in it.
LEMMA IndexOfItem ==
  ASSUME FilesInv, sole \in Procs, NEW j \in 1..Len(job[sole].items)
  PROVE  HasItem(job[sole].items[j].target) /\ IndexOf(job[sole].items[j].target) = j
<1>1. job[sole].items \in Plans
  BY DEF FilesInv, PlansInv, DistinctAt
<1>2. \A i \in 1..Len(job[sole].items) :
        job[sole].items[i].target = job[sole].items[j].target => i = j
  BY <1>1 DEF Plans
<1>3. \E i \in 1..Len(job[sole].items) : job[sole].items[i].target = job[sole].items[j].target
  OBVIOUS
<1> QED BY <1>2, <1>3 DEF HasItem, IndexOf, Items

\* A file that has a place in the plan is the file at that place.
LEMMA ItemOfIndex ==
  ASSUME NEW t \in Targets, HasItem(t)
  PROVE  IndexOf(t) \in 1..Len(job[sole].items) /\ job[sole].items[IndexOf(t)].target = t
BY DEF HasItem, IndexOf, Items

\* Before a call changes files and after it has ended, callers see the files.
LEMMA BarQuiet ==
  ASSUME TypeOK, ~Changing(sole)
  PROVE  storeBar = text
BY DEF TypeOK, storeBar

\* While it changes them, callers see the side of the plan it started from.
LEMMA BarChanging ==
  ASSUME FilesInv, sole \in Procs, Changing(sole)
  PROVE  /\ job[sole].kind = "apply" => Store!Before(job[sole].items)
         /\ job[sole].kind # "apply" => Store!After(job[sole].items)
<1>1. \A j \in 1..Len(job[sole].items) :
        /\ HasItem(job[sole].items[j].target) /\ IndexOf(job[sole].items[j].target) = j
        /\ job[sole].items[j].target \in Targets
  BY IndexOfItem, ItemsOf DEF FilesInv, PlansInv, RecInv
<1> QED BY <1>1 DEF storeBar, Store!Before, Store!After, Items

\* A call that ends, with the first k files of its plan new and the others
\* old, has taken effect up to the k-th change.
LEMMA BarEnds ==
  ASSUME FilesInv, sole \in Procs, Changing(sole), ~Changing(sole)', text' = text,
         NEW k, TornAt(sole, k)
  PROVE  storeBar' = Store!Prefix(job[sole].items, k)
<1>1. storeBar' = [t \in Targets |-> text[t]]
  BY DEF storeBar
<1>2. ASSUME NEW t \in Targets
      PROVE  text[t] = Store!Prefix(job[sole].items, k)[t]
  <2>1. CASE HasItem(t)
    <3>1. IndexOf(t) \in 1..Len(job[sole].items) /\ job[sole].items[IndexOf(t)].target = t
      BY <2>1, ItemOfIndex
    <3>2. Store!Prefix(job[sole].items, k)[t] =
            IF IndexOf(t) <= k THEN job[sole].items[IndexOf(t)].after
                               ELSE job[sole].items[IndexOf(t)].before
      BY <2>1 DEF Store!Prefix, HasItem, IndexOf, Items
    <3> QED BY <3>1, <3>2 DEF TornAt, New, Old
  <2>2. CASE ~HasItem(t)
    BY <2>2 DEF Store!Prefix, storeBar, HasItem, Items
  <2> QED BY <2>1, <2>2
<1>3. Store!Prefix(job[sole].items, k) = [t \in Targets |-> Store!Prefix(job[sole].items, k)[t]]
  BY DEF Store!Prefix
<1> QED BY <1>1, <1>2, <1>3

\* Steps in the middle of a call, which change nothing but files of its plan,
\* change nothing of what callers see.
LEMMA BarStays ==
  ASSUME sole \in Procs, Changing(sole), Changing(sole)',
         job'[sole].items = job[sole].items, job'[sole].kind = job[sole].kind,
         \A t \in Targets : ~HasItem(t) => text'[t] = text[t]
  PROVE  storeBar' = storeBar
BY DEF storeBar, HasItem, IndexOf, Items

\* Nor does the step with which a call begins to change files.
LEMMA BarBegins ==
  ASSUME TypeOK, sole \in Procs, ~Changing(sole), text' = text,
         job'[sole].items = job[sole].items, job'[sole].kind = job[sole].kind,
         \A j \in 1..Len(job[sole].items) :
            IF job[sole].kind = "apply" THEN Old(sole, j) ELSE New(sole, j)
  PROVE  storeBar' = storeBar
<1>1. storeBar = [t \in Targets |-> text[t]]
  BY DEF storeBar
<1>2. ASSUME NEW t \in Targets PROVE storeBar'[t] = text[t]
  <2>1. CASE HasItem(t)
    <3>1. IndexOf(t) \in 1..Len(job[sole].items) /\ job[sole].items[IndexOf(t)].target = t
      BY <2>1, ItemOfIndex
    <3>2. HasItem(t)' /\ IndexOf(t)' = IndexOf(t)
      BY <2>1 DEF HasItem, IndexOf, Items
    <3> QED BY <3>1, <3>2 DEF storeBar, New, Old, Items
  <2>2. CASE ~HasItem(t)
    <3>1. ~HasItem(t)'
      BY <2>2 DEF HasItem, Items
    <3> QED BY <3>1 DEF storeBar
  <2> QED BY <2>1, <2>2
<1>3. storeBar' = [t \in Targets |-> storeBar'[t]]
  BY DEF storeBar
<1> QED BY <1>1, <1>2, <1>3

-----------------------------------------------------------------------------
(* The plans clients know of. *)

\* Nobody is told of a new plan.
LEMMA PlansSame ==
  ASSUME FilesInv, [Next]_vars, known' = known, NEW kind
  PROVE  PlansOf(kind)' = PlansOf(kind)
<1>1. \A d \in known : log'[d] = log[d]
  BY LogStep DEF FilesInv, PlansInv, RecInv, HoldInv, KnownWritten, TypeInv, TypeOK
<1> QED BY <1>1 DEF PlansOf

\* A client is told of one document more.
LEMMA PlansAdd ==
  ASSUME FilesInv, [Next]_vars, NEW e \in Ids, known' = known \cup {e}, NEW kind
  PROVE  PlansOf(kind)' = PlansOf(kind) \cup (IF log'[e].kind = kind THEN {log'[e].items} ELSE {})
<1>1. \A d \in known : log'[d] = log[d]
  BY LogStep DEF FilesInv, PlansInv, RecInv, HoldInv, KnownWritten, TypeInv, TypeOK
<1> QED BY <1>1 DEF PlansOf

\* The plan of a running call is one its client knows.
LEMMA OwnPlan ==
  ASSUME FilesInv, NEW p \in Procs, pc[p] \notin {"idle", "planning"}
  PROVE  job[p].items \in PlansOf(job[p].kind) /\ job[p].kind \in {"apply", "undo"}
BY ItemsOf DEF FilesInv, PlansInv, RecInv, HoldInv, CallAt, DocumentAt, PlansOf, Job
-----------------------------------------------------------------------------
(* Every step of the protocol is a step of the store, or changes nothing of it. *)

\* The steps in which callers see nothing happen.
LEMMA QuietSteps ==
  ASSUME FilesInv, [Next]_vars, sole \in Procs, known' = known, storeBar' = storeBar
  PROVE  UNCHANGED Store!storeVars
BY PlansSame DEF Store!storeVars

\* The steps before the first change of a file, and of calls that make none.
LEMMA EarlyStep ==
  ASSUME FilesInv, [Next]_vars, sole \in Procs,
         \/ PlanStart(sole) \/ Begin(sole) \/ BeginExpired(sole) \/ PlanRead(sole)
         \/ PlanRefuse(sole) \/ CheckStale(sole) \/ PersistFail(sole)
         \/ Tick \/ UNCHANGED vars \/ (Crash(sole) /\ ~Changing(sole))
  PROVE  UNCHANGED Store!storeVars
<1> USE DEF directory, Goto, Return
<1>0. TypeOK
  BY DEF FilesInv, PlansInv, RecInv, TypeInv
<1>1. text' = text /\ known' = known
  BY DEF PlanStart, Begin, BeginExpired, PlanRead, PlanRefuse, CheckStale, PersistFail, Tick, vars, Crash
<1>2. CASE Tick \/ UNCHANGED vars
  <2>1. pc' = pc /\ job' = job
    BY <1>2 DEF Tick, vars
  <2>2. storeBar' = storeBar
    BY <1>1, <2>1 DEF storeBar, Changing, HasItem, IndexOf, Items
  <2> QED BY <1>1, <2>2, QuietSteps
<1>3. CASE ~(Tick \/ UNCHANGED vars)
  <2>1. ~Changing(sole) /\ ~Changing(sole)'
    BY <1>0, <1>3 DEF PlanStart, Begin, BeginExpired, PlanRead, PlanRefuse, CheckStale, PersistFail,
       Crash, Changing, TypeOK
  <2>2. storeBar = [t \in Targets |-> text[t]] /\ storeBar' = [t \in Targets |-> text'[t]]
    BY <2>1 DEF storeBar
  <2> QED BY <1>1, <2>2, QuietSteps
<1> QED BY <1>2, <1>3

\* The comparisons, and the undo document of an apply.
LEMMA CheckStep ==
  ASSUME FilesInv, [Next]_vars, sole \in Procs, Check(sole) \/ PersistUndo(sole)
  PROVE  UNCHANGED Store!storeVars
<1>0. TypeInv /\ TypeOK /\ LoopAt(sole) /\ FilesAt(sole) /\ ~Changing(sole)
  BY DEF FilesInv, FilesOK, PlansInv, RecInv, TypeInv, LoopOK, Check, PersistUndo, Changing
<1>1. text' = text /\ known' = known
  BY DEF Check, PersistUndo, directory
<1>2. Keeps(sole)
  BY <1>0, PlanKept DEF Run, Check, PersistUndo, PlanStart, Begin, PlanRead
<1>3. CASE ~Changing(sole)'
  <2>1. storeBar = [t \in Targets |-> text[t]] /\ storeBar' = [t \in Targets |-> text'[t]]
    BY <1>0, <1>3 DEF storeBar
  <2> QED BY <1>1, <2>1, QuietSteps
<1>4. CASE Changing(sole)'
  <2>1. \A j \in 1..Len(job[sole].items) :
            IF job[sole].kind = "apply" THEN Old(sole, j) ELSE New(sole, j)
    <3>1. CASE PersistUndo(sole)
      BY <1>0, <3>1 DEF PersistUndo, FilesAt, LoopAt
    <3>2. CASE Check(sole)
      <4>1. job[sole].next \in 1..Len(job[sole].items) /\ Len(job[sole].items) \in Nat
        BY <1>0, <3>2, ItemsOf DEF Check, LoopAt
      <4>2. job[sole].next = Len(job[sole].items)
        BY <1>0, <1>4, <3>2 DEF Check, LoopUp, Last, Goto, Changing, TypeOK
      <4>3. IF job[sole].kind = "apply" THEN Old(sole, job[sole].next) ELSE New(sole, job[sole].next)
        BY <3>2 DEF Check, Expected, Current, Old, New
      <4> QED BY <1>0, <3>2, <4>1, <4>2, <4>3 DEF FilesAt, Check
    <3> QED BY <3>1, <3>2
  <2>2. storeBar' = storeBar
    BY <1>0, <1>1, <1>2, <2>1, BarBegins DEF Keeps
  <2> QED BY <1>1, <2>2, QuietSteps
<1> QED BY <1>3, <1>4

\* The writes, the second reading, and the way back of a rollback or an undo.
LEMMA ChangeStep ==
  ASSUME FilesInv, [Next]_vars, sole \in Procs,
         Write(sole) \/ WriteFail(sole) \/ Validate(sole) \/ ValidateFail(sole) \/ Restore(sole)
  PROVE  UNCHANGED Store!storeVars
<1>0. TypeInv /\ TypeOK /\ LoopAt(sole)
  BY DEF FilesInv, FilesOK, PlansInv, RecInv, TypeInv, LoopOK
<1>1. Changing(sole) /\ Changing(sole)' /\ known' = known
  BY <1>0 DEF Write, WriteFail, Validate, ValidateFail, Restore, LoopUp, RollbackFrom, Goto, Changing,
     directory, TypeOK
<1>2. Keeps(sole)
  BY <1>0, <1>1, PlanKept DEF Run, Write, WriteFail, Validate, ValidateFail, Restore, PlanStart, Begin, PlanRead
<1>3. \A t \in Targets : ~HasItem(t) => text'[t] = text[t]
  <2>1. CASE Write(sole) \/ Restore(sole)
    <3>1. job[sole].next \in 1..Len(job[sole].items)
      BY <1>0, <2>1, ItemsOf DEF Write, Restore, LoopAt
    <3>2. HasItem(Current(sole).target)
      BY <3>1 DEF HasItem, Items, Current
    <3>3. \A t \in Targets : t # Current(sole).target => text'[t] = text[t]
      BY <1>0, <2>1 DEF Write, Restore, TypeOK
    <3> QED BY <3>2, <3>3
  <2>2. CASE WriteFail(sole) \/ Validate(sole) \/ ValidateFail(sole)
    BY <2>2 DEF WriteFail, Validate, ValidateFail
  <2> QED BY <2>1, <2>2
<1>4. storeBar' = storeBar
  BY <1>1, <1>2, <1>3, BarStays DEF Keeps
<1> QED BY <1>1, <1>4, QuietSteps

\* Storing a new plan is a review.
LEMMA PersistStep ==
  ASSUME FilesInv, [Next]_vars, sole \in Procs, PlanPersist(sole)
  PROVE  Store!Review
<1>0. TypeInv /\ TypeOK
  BY DEF FilesInv, PlansInv, RecInv, TypeInv
<1>1. PICK e \in Ids : /\ Fresh(e) /\ Stored(e, "apply", job[sole].items)
                       /\ known' = known \cup {e}
  BY DEF PlanPersist
<1>2. log[e] = NoDoc /\ job[sole].items \in Seq(Item)
  BY <1>0, <1>1 DEF Fresh, TypeOK, Job
<1>3. log'[e].kind = "apply"
  BY <1>0, <1>1, <1>2, StoredKeeps
<1>4. PlansOf("undo")' = PlansOf("undo") /\ PlansOf("apply") \subseteq PlansOf("apply")'
  <2>1. /\ PlansOf("undo")' = PlansOf("undo") \cup
                                (IF log'[e].kind = "undo" THEN {log'[e].items} ELSE {})
        /\ PlansOf("apply")' = PlansOf("apply") \cup
                                (IF log'[e].kind = "apply" THEN {log'[e].items} ELSE {})
    BY <1>1, PlansAdd
  <2>2. PlansOf("undo")' = PlansOf("undo")
    BY <1>3, <2>1
  <2>3. PlansOf("apply") \subseteq PlansOf("apply")'
    BY <2>1
  <2> QED BY <2>2, <2>3
<1>5. ~Changing(sole) /\ ~Changing(sole)' /\ text' = text
  BY <1>0 DEF PlanPersist, Return, Goto, Changing, TypeOK
<1>6. storeBar' = storeBar
  BY <1>5 DEF storeBar
<1> QED BY <1>4, <1>6 DEF Store!Review

\* A call that returns has taken effect whole, not at all, or is cut short.
LEMMA EndStep ==
  ASSUME FilesInv, [Next]_vars, sole \in Procs,
         \/ Applied(sole) \/ Undone(sole) \/ RolledBack(sole) \/ RestoreFail(sole)
         \/ (Crash(sole) /\ Changing(sole))
  PROVE  [Store!StoreNext]_(Store!storeVars)
<1> DEFINE items == job[sole].items
<1>0. /\ TypeInv /\ TypeOK /\ LoopAt(sole) /\ FilesAt(sole) /\ HoldAt(sole)
      /\ Len(items) \in Nat
  BY ItemsOf DEF FilesInv, FilesOK, PlansInv, RecInv, HoldInv, TypeInv, LoopOK
<1>1. Changing(sole) /\ ~Changing(sole)' /\ text' = text
  BY <1>0 DEF Applied, Undone, RolledBack, RestoreFail, Crash, Return, Goto, Changing, TypeOK
<1>2. items \in PlansOf(job[sole].kind) /\ job[sole].kind \in {"apply", "undo"}
  BY <1>1, OwnPlan DEF Changing
<1>3. /\ job[sole].kind = "apply" => Store!Before(items)
      /\ job[sole].kind = "undo" => Store!After(items)
  BY <1>1, BarChanging
<1>4. ASSUME job[sole].kind = "apply", known' = known \cup {job[sole].undo}
      PROVE  /\ PlansOf("apply")' = PlansOf("apply")
             /\ PlansOf("undo")' = PlansOf("undo") \cup {items}
  <2>1. Holds(sole) /\ job[sole].undo \in Ids
    BY <1>0, <1>1, <1>4 DEF Holds, HoldAt
  <2>2. log'[job[sole].undo] = log[job[sole].undo]
    BY <1>0, <2>1, LogStep DEF HoldAt
  <2>3. log'[job[sole].undo].kind = "undo" /\ log'[job[sole].undo].items = items
    BY <1>0, <2>1, <2>2 DEF HoldAt
  <2> QED BY <1>4, <2>1, <2>3, PlansAdd
<1>5. ASSUME known' = known
      PROVE  PlansOf("apply")' = PlansOf("apply") /\ PlansOf("undo")' = PlansOf("undo")
  BY <1>5, PlansSame
<1>6. CASE Applied(sole)
  <2>1. job[sole].kind = "apply" /\ known' = known \cup {job[sole].undo}
    BY <1>0, <1>6 DEF Applied, LoopAt
  <2>2. TornAt(sole, Len(items))
    BY <1>0, <1>6 DEF Applied, FilesAt, TornAt
  <2>3. storeBar' = Store!Prefix(items, Len(items))
    BY <1>1, <2>2, BarEnds
  <2>4. Store!Apply(items)
    BY <1>2, <1>3, <1>4, <2>1, <2>3 DEF Store!Apply
  <2> QED BY <1>2, <2>1, <2>4 DEF Store!StoreNext
<1>7. CASE Undone(sole)
  <2>1. job[sole].kind = "undo" /\ known' = known
    BY <1>0, <1>2, <1>7 DEF Undone
  <2>2. TornAt(sole, 0)
    BY <1>0, <1>7 DEF Undone, FilesAt, TornAt
  <2>3. storeBar' = Store!Prefix(items, 0)
    BY <1>1, <2>2, BarEnds
  <2>4. Store!Undo(items)
    BY <1>2, <1>3, <1>5, <2>1, <2>3 DEF Store!Undo
  <2> QED BY <1>2, <2>1, <2>4 DEF Store!StoreNext
<1>8. CASE RestoreFail(sole) \/ Crash(sole)
  <2>1. PICK k \in 0..Len(items) : TornAt(sole, k)
    BY <1>1, ChangingPrefix
  <2>2. storeBar' = Store!Prefix(items, k)
    BY <1>1, <2>1, BarEnds
  <2>3. \/ known' = known
        \/ job[sole].kind = "apply" /\ known' = known \cup {job[sole].undo}
    BY <1>8 DEF RestoreFail, Crash, directory
  <2>4. /\ PlansOf("apply")' = PlansOf("apply")
        /\ PlansOf("undo")' \in {PlansOf("undo"), PlansOf("undo") \cup {items}}
    BY <1>4, <1>5, <2>3
  <2>5. Store!Tear(items)
    BY <1>2, <1>3, <2>1, <2>2, <2>4 DEF Store!Tear
  <2> QED BY <1>2, <2>5 DEF Store!StoreNext
<1>9. CASE RolledBack(sole)
  <2>1. job[sole].kind = "apply" /\ known' = known
    BY <1>9 DEF RolledBack
  <2>2. TornAt(sole, 0)
    BY <1>0, <1>9 DEF RolledBack, FilesAt, TornAt
  <2>3. storeBar' = storeBar
    <3>1. storeBar' = [t \in Targets |-> text[t]]
      BY <1>1 DEF storeBar
    <3>2. ASSUME NEW t \in Targets PROVE text[t] = storeBar[t]
      <4>1. CASE HasItem(t)
        <5>1. IndexOf(t) \in 1..Len(items) /\ items[IndexOf(t)].target = t
          BY <4>1, ItemOfIndex
        <5>2. text[t] = items[IndexOf(t)].before
          BY <1>0, <2>2, <5>1 DEF TornAt, Old
        <5> QED BY <1>1, <2>1, <4>1, <5>2 DEF storeBar, Items
      <4>2. CASE ~HasItem(t)
        BY <4>2 DEF storeBar
      <4> QED BY <4>1, <4>2
    <3>3. storeBar = [t \in Targets |-> storeBar[t]]
      BY DEF storeBar
    <3> QED BY <3>1, <3>2, <3>3
  <2> QED BY <2>1, <2>3, QuietSteps
<1> QED BY <1>6, <1>7, <1>8, <1>9

\* Where one API process at a time runs and nothing else writes the files, the protocol
\* of single writes, failures, rollbacks, kills and expiring documents implements a store that
\* changes by whole reviewed plans, for every number of files, texts and documents:
\* nothing of a call in progress can be told from outside, except where one is cut short.
THEOREM SoleImplements ==
  ASSUME SoleWriter, Procs # {}
  PROVE  Spec => ImplementsStore
<1> USE SoleProcess
<1>1. Init => Store!StoreInit
  <2> SUFFICES ASSUME Init PROVE Store!StoreInit
    OBVIOUS
  <2>1. TypeOK /\ known = {} /\ ~Changing(sole)
    BY InitTypeInv DEF TypeInv, Init, Changing
  <2>2. storeBar = text
    BY <2>1, BarQuiet
  <2> QED BY <2>1, <2>2 DEF Store!StoreInit, PlansOf, TypeOK
<1>2. FilesInv /\ NoEdit /\ [Next]_vars => [Store!StoreNext]_(Store!storeVars)
  <2> SUFFICES ASSUME FilesInv, NoEdit, [Next]_vars PROVE [Store!StoreNext]_(Store!storeVars)
    OBVIOUS
  <2>1. CASE \/ PlanStart(sole) \/ Begin(sole) \/ BeginExpired(sole) \/ PlanRead(sole)
             \/ PlanRefuse(sole) \/ CheckStale(sole) \/ PersistFail(sole)
             \/ Tick \/ UNCHANGED vars \/ (Crash(sole) /\ ~Changing(sole))
    BY <2>1, EarlyStep
  <2>2. CASE Check(sole) \/ PersistUndo(sole)
    BY <2>2, CheckStep
  <2>3. CASE Write(sole) \/ WriteFail(sole) \/ Validate(sole) \/ ValidateFail(sole) \/ Restore(sole)
    BY <2>3, ChangeStep
  <2>4. CASE PlanPersist(sole)
    BY <2>4, PersistStep DEF Store!StoreNext
  <2>5. CASE \/ Applied(sole) \/ Undone(sole) \/ RolledBack(sole) \/ RestoreFail(sole)
             \/ (Crash(sole) /\ Changing(sole))
    BY <2>5, EndStep
  <2>6. CASE \E t \in Targets : Edit(t)
    BY <2>6 DEF Edit, NoEdit
  <2> QED BY <2>1, <2>2, <2>3, <2>4, <2>5, <2>6 DEF Next, Request, Run
<1>3. Spec => [](FilesInv /\ NoEdit)
  <2>1. OthersStay => OthersWait
    BY DEF OthersStay, OthersWait
  <2> QED BY <2>1, SoleUndisturbed, FilesHold, Unedited, PTL
<1> QED BY <1>1, <1>2, <1>3, PTL DEF Spec, ImplementsStore, Store!StoreSpec
=============================================================================
