--------------------------- MODULE AppReviewProofs ---------------------------
(***************************************************************************)
(* That the proposal on the review screen answers the inputs on it, for    *)
(* any rules, repositories, number of Tasks at a time, rounds and changes. *)
(***************************************************************************)
EXTENDS AppReview, TLAPS

\* A proposal of a round and a revision that there were; one of this revision was asked for
\* about the repositories now selected, or before a later round selected more.
Answers(p, rev, repositories, round, wide) ==
    /\ p \in Proposals /\ p.round <= round /\ p.revision <= rev
    /\ p.revision = rev =>
         p.repositories \subseteq repositories /\ (p.repositories # repositories => p.round < wide)
Current(p) == Answers(p, revision, selected, rounds, widened)

\* A Task that waits for Codex was started for inputs that there were.
TaskAt(t) ==
    /\ tasks[t] \in Task \cup {NoTask}
    /\ At(t, "codex") => Current(tasks[t].for)
TasksInv == tasks \in [Tasks -> Task \cup {NoTask}] /\ \A t \in Tasks : TaskAt(t)
InputsInv ==
    /\ revision \in 0..MaxRevisions /\ rounds \in 0..MaxRounds
    /\ selected \in SUBSET Repositories /\ widened \in 0..rounds
    /\ proposal \in Proposals \cup {None}
    /\ proposal # None => proposal.round <= rounds
    /\ ignored \in BOOLEAN
ReviewInv == TasksInv /\ InputsInv /\ ProposalOfInputs

\* What the inputs may do without making a waiting question one about other inputs.
Kept ==
    \A p : Answers(p, revision, selected, rounds, widened) =>
           Answers(p, revision', selected', rounds', widened')

\* They stay as they are, or get a new revision ...
LEMMA SameInputs ==
    ASSUME UNCHANGED <<inputs, rounds>>
    PROVE  Kept
BY DEF inputs, Kept

LEMMA NewRevision ==
    ASSUME InputsInv, revision' = revision + 1, UNCHANGED <<rounds, widened>>
    PROVE  Kept
<1> SUFFICES ASSUME NEW p, Answers(p, revision, selected, rounds, widened)
             PROVE  Answers(p, revision', selected', rounds', widened')
    BY DEF Kept
<1>1. p.revision <= revision /\ p.revision \in Nat /\ revision \in Nat
    BY BoundAssumption DEF Answers, Proposals, InputsInv
<1>2. p.revision <= revision' /\ p.revision # revision'  BY <1>1
<1> QED  BY <1>2 DEF Answers

\* ... or a new round begins, which may select more.
LEMMA NewRound ==
    ASSUME InputsInv, rounds' = rounds + 1, UNCHANGED revision, selected \subseteq selected',
           widened' = IF selected' = selected THEN widened ELSE rounds'
    PROVE  Kept
<1> SUFFICES ASSUME NEW p, Answers(p, revision, selected, rounds, widened)
             PROVE  Answers(p, revision', selected', rounds', widened')
    BY DEF Kept
<1>1. /\ p.round \in Nat /\ rounds \in Nat /\ widened \in Nat
      /\ p.round <= rounds /\ p \in Proposals /\ p.revision <= revision
    BY BoundAssumption DEF Answers, Proposals, InputsInv
<1>2. p.round <= rounds' /\ p.round < rounds'  BY <1>1
<1>3. ASSUME p.revision = revision
      PROVE  /\ p.repositories \subseteq selected'
             /\ p.repositories # selected' => p.round < widened'
    <2>1. p.repositories \subseteq selected /\ (p.repositories # selected => p.round < widened)
        BY <1>3 DEF Answers
    <2>2. CASE selected' = selected  BY <2>1, <2>2
    <2>3. CASE selected' # selected  BY <1>2, <2>1, <2>3
    <2> QED  BY <2>2, <2>3
<1> QED  BY <1>1, <1>2, <1>3 DEF Answers

-----------------------------------------------------------------------------
(* What the operators that change the Tasks do to TasksInv. *)

\* The Tasks in ts that wait for Codex have their questions.
Asking(ts) ==
    /\ ts \in [Tasks -> Task \cup {NoTask}]
    /\ \A t \in Tasks : ts[t] # NoTask /\ ts[t].at = "codex" => Current(ts[t].for)

\* A new Task is one, and one that asks Codex carries a proposal to be filled in.
LEMMA StartedTasks ==
    ASSUME NEW old, Asking(old), Kept,
           NEW kind \in {"analyse", "revise", "plan", "apply", "undo"},
           NEW stage \in {"codex", "starting", "planning", "applying", "verifying",
                          "taking back", "undoing"},
           NEW asked \in Proposals \cup {None},
           stage = "codex" => Answers(asked, revision', selected', rounds', widened'),
           tasks' \in Started(old, kind, stage, asked)
    PROVE  TasksInv'
<1> DEFINE new == [kind |-> kind, at |-> stage, for |-> asked, rules |-> {}, cancelled |-> FALSE]
<1>1. new \in Task /\ new.at = stage /\ new.for = asked  BY DEF Task
<1>2. PICK u \in Tasks : tasks' = [old EXCEPT ![u] = new]  BY DEF Started
<1>3. tasks' \in [Tasks -> Task \cup {NoTask}]  BY <1>1, <1>2 DEF Asking
<1> HIDE DEF new
<1>4. ASSUME NEW t \in Tasks, At(t, "codex")'
      PROVE  Answers(tasks'[t].for, revision', selected', rounds', widened')
    <2>1. CASE t = u
        <3>1. tasks'[t] = new  BY <1>2, <2>1 DEF Asking
        <3> QED  BY <1>1, <1>4, <3>1 DEF At
    <2>2. CASE t # u
        <3>1. tasks'[t] = old[t]  BY <1>2, <2>2 DEF Asking
        <3>2. Current(old[t].for)  BY <1>4, <3>1 DEF At, Running, Asking
        <3> QED  BY <3>1, <3>2 DEF Current, Kept
    <2> QED  BY <2>1, <2>2
<1> QED  BY <1>3, <1>4 DEF TasksInv, TaskAt, Current

\* Cancelling marks Tasks and changes nothing else of them.
LEMMA CancelledTasks ==
    ASSUME TasksInv
    PROVE  Asking(PlanningCancelled(tasks))
<1> DEFINE ts == PlanningCancelled(tasks)
<1> SUFFICES ASSUME NEW t \in Tasks
             PROVE  /\ ts[t] \in Task \cup {NoTask}
                    /\ ts[t] # NoTask /\ ts[t].at = "codex" => Current(ts[t].for)
    BY DEF PlanningCancelled, Asking
<1>1. ts[t] = IF tasks[t].kind = "plan" THEN [tasks[t] EXCEPT !.cancelled = TRUE] ELSE tasks[t]
    BY DEF PlanningCancelled
<1>2. CASE tasks[t].kind = "plan"
    <2>1. tasks[t] # NoTask  BY <1>2 DEF NoTask
    <2>2. tasks[t] \in Task  BY <2>1 DEF TasksInv, TaskAt
    <2>3. /\ ts[t] \in Task /\ ts[t].at = tasks[t].at /\ ts[t].for = tasks[t].for
        BY <1>1, <1>2, <2>2 DEF Task
    <2> QED  BY <2>1, <2>3 DEF TasksInv, TaskAt, At, Running
<1>3. CASE tasks[t].kind # "plan"  BY <1>1, <1>3 DEF TasksInv, TaskAt, At, Running
<1> QED  BY <1>2, <1>3

\* The Tasks that run as they are.
LEMMA SameTasks == ASSUME TasksInv PROVE Asking(tasks)
BY DEF TasksInv, TaskAt, At, Running, Asking

\* Tasks that are only marked, or left alone, while the inputs change.
LEMMA MarkedTasks ==
    ASSUME NEW ts, Asking(ts), Kept, tasks' = ts
    PROVE  TasksInv'
<1>1. ASSUME NEW t \in Tasks, At(t, "codex")'
      PROVE  Answers(tasks'[t].for, revision', selected', rounds', widened')
    <2>1. Current(ts[t].for)  BY <1>1 DEF Asking, At, Running
    <2> QED  BY <2>1 DEF Current, Kept
<1> QED  BY <1>1 DEF Asking, TasksInv, TaskAt, Current

\* A Task that gets another record, which asks Codex nothing.
LEMMA OtherTask ==
    ASSUME TasksInv, Kept, NEW t \in Tasks, NEW new \in Task \cup {NoTask},
           new # NoTask => new.at # "codex",
           tasks' = [tasks EXCEPT ![t] = new]
    PROVE  TasksInv'
<1> DEFINE ts == [tasks EXCEPT ![t] = new]
<1>1. ts \in [Tasks -> Task \cup {NoTask}]  BY DEF TasksInv
<1>2. ASSUME NEW u \in Tasks, ts[u] # NoTask, ts[u].at = "codex"  PROVE Current(ts[u].for)
    <2>1. u # t /\ ts[u] = tasks[u]  BY <1>2 DEF TasksInv
    <2> QED  BY <1>2, <2>1 DEF TasksInv, TaskAt, At, Running
<1>3. Asking(ts)  BY <1>1, <1>2 DEF Asking
<1> QED  BY <1>3, MarkedTasks

\* A Task that has ended, or gone on to a later await.
LEMMA EndedTasks ==
    ASSUME TasksInv, Kept, NEW t \in Tasks, tasks' = Ended(t)
    PROVE  TasksInv'
BY OtherTask DEF Ended

LEMMA MovedTasks ==
    ASSUME TasksInv, Kept, NEW t \in Tasks, Running(t), NEW stage \in {"verifying", "taking back"},
           tasks' = Moved(t, stage)
    PROVE  TasksInv'
<1>1. tasks[t] \in Task  BY DEF TasksInv, TaskAt, Running
<1>2. PICK new : new = [tasks[t] EXCEPT !.at = stage]  OBVIOUS
<1>3. new \in Task /\ new.at = stage  BY <1>1, <1>2 DEF Task
<1>4. tasks' = [tasks EXCEPT ![t] = new]  BY <1>2 DEF Moved
<1> QED  BY <1>3, <1>4, OtherTask

\* A Task that asks for a plan, or finds nothing to plan.
LEMMA PreparedTasks ==
    ASSUME TasksInv, Kept, NEW t \in Tasks, Running(t), NEW p \in Proposals \cup {None},
           NEW before, NEW after, Prepare(t, p, before, after)
    PROVE  TasksInv'
<1>1. CASE ~NeedsPlan(p)  BY <1>1, EndedTasks DEF Prepare
<1>2. CASE NeedsPlan(p)
    <2>1. tasks[t] \in Task  BY DEF TasksInv, TaskAt, Running
    <2>2. p.chosen \in SUBSET Rules  BY <1>2 DEF NeedsPlan, Proposals
    <2>3. PICK new : new = [tasks[t] EXCEPT !.at = "planning", !.for = None, !.rules = p.chosen]
        OBVIOUS
    <2>4. new \in Task /\ new.at = "planning"  BY <2>1, <2>2, <2>3 DEF Task
    <2>5. tasks' = [tasks EXCEPT ![t] = new]  BY <1>2, <2>3 DEF Prepare
    <2> QED  BY <2>4, <2>5, OtherTask
<1> QED  BY <1>1, <1>2

-----------------------------------------------------------------------------
(* The invariant. *)

LEMMA InitReviewInv == Init => ReviewInv
<1> SUFFICES ASSUME Init PROVE ReviewInv
    OBVIOUS
<1>1. TasksInv  BY DEF Init, TasksInv, TaskAt, At, Running
<1>2. revision \in 0..MaxRevisions /\ rounds \in 0..MaxRounds /\ widened \in 0..rounds
    BY BoundAssumption DEF Init
<1>3. InputsInv  BY <1>2 DEF Init, InputsInv
<1> QED  BY <1>1, <1>3 DEF Init, ReviewInv, ProposalOfInputs

\* The inputs change: a proposal is dropped, or kept and the change remembered.
LEMMA InputsChange ==
    ASSUME ReviewInv, InputDidChange
    PROVE  ReviewInv'
<1>1. Kept  BY NewRevision DEF ReviewInv, InputDidChange
<1>2. tasks' = PlanningCancelled(tasks) \/ tasks' = tasks  BY DEF InputDidChange
<1>3. TasksInv'  BY <1>1, <1>2, CancelledTasks, SameTasks, MarkedTasks DEF ReviewInv
<1>4. revision' \in 0..MaxRevisions
    BY BoundAssumption DEF ReviewInv, InputsInv, InputDidChange
<1>5. InputsInv'  BY <1>4 DEF ReviewInv, InputsInv, InputDidChange
<1>6. ProposalOfInputs'  BY DEF ReviewInv, InputDidChange, ProposalOfInputs
<1> QED  BY <1>3, <1>5, <1>6 DEF ReviewInv

\* Codex is asked for the inputs as they are.
LEMMA AskedProposal ==
    ASSUME NEW round \in 1..MaxRounds, NEW repositories \in SUBSET Repositories,
           revision \in 0..MaxRevisions, NEW wide
    PROVE  /\ Asked(round, repositories) \in Proposals
           /\ Answers(Asked(round, repositories), revision, repositories, round, wide)
BY BoundAssumption DEF Asked, Proposals, Answers

\* A round more, for a wider selection or the same.
LEMMA RoundInputs ==
    ASSUME ReviewInv, rounds < MaxRounds, rounds' = rounds + 1,
           UNCHANGED <<revision, proposal, ignored>>,
           selected' \in SUBSET Repositories, selected \subseteq selected',
           widened' = IF selected' = selected THEN widened ELSE rounds'
    PROVE  /\ rounds' \in 1..MaxRounds /\ Kept
           /\ InputsInv' /\ ProposalOfInputs'
<1>1. rounds' \in 1..MaxRounds /\ rounds \in Nat /\ widened' \in 0..rounds'
    BY BoundAssumption DEF ReviewInv, InputsInv
<1>2. Kept  BY NewRound DEF ReviewInv
<1>3. proposal # None => proposal.round <= rounds' /\ proposal.round < rounds'
    BY <1>1, BoundAssumption DEF ReviewInv, InputsInv, Proposals
<1>4. InputsInv'  BY <1>1, <1>3 DEF ReviewInv, InputsInv
<1>5. ASSUME proposal # None, ~ignored
      PROVE  /\ proposal.revision = revision /\ proposal.repositories \subseteq selected'
             /\ proposal.repositories # selected' => proposal.round < widened'
    <2>1. /\ proposal.revision = revision /\ proposal.repositories \subseteq selected
          /\ proposal.repositories # selected => proposal.round < widened
        BY <1>5 DEF ReviewInv, ProposalOfInputs
    <2>2. CASE selected' = selected  BY <2>1, <2>2
    <2>3. CASE selected' # selected  BY <1>3, <1>5, <2>1, <2>3
    <2> QED  BY <2>2, <2>3
<1>6. ProposalOfInputs'  BY <1>5 DEF ProposalOfInputs
<1> QED  BY <1>1, <1>2, <1>4, <1>6

LEMMA UserReviewInv ==
    ASSUME ReviewInv, User
    PROVE  ReviewInv'
<1> USE DEF ReviewInv
<1>1. CASE InputDidChange  BY <1>1, InputsChange
<1>2. CASE Analyse
    <2>1. rounds' \in 1..MaxRounds /\ Kept /\ InputsInv' /\ ProposalOfInputs'
        BY <1>2, RoundInputs DEF Analyse, inputs, InputsInv
    <2>2. /\ Asked(rounds', selected) \in Proposals
          /\ Answers(Asked(rounds', selected), revision', selected', rounds', widened')
        BY <1>2, <2>1, AskedProposal DEF Analyse, inputs, InputsInv
    <2>3. TasksInv'  BY <1>2, <2>1, <2>2, SameTasks, StartedTasks DEF Analyse
    <2> QED  BY <2>1, <2>3
<1>3. CASE Revise
    <2>1. CASE proposal = None
        <3>1. Kept /\ tasks' = tasks  BY <1>3, <2>1, SameInputs DEF Revise, inputs
        <3>2. TasksInv'  BY <3>1, SameTasks, MarkedTasks
        <3> QED  BY <1>3, <2>1, <3>2 DEF Revise, InputsInv, ProposalOfInputs
    <2>2. CASE proposal # None
        <3>1. selected' \in SUBSET Repositories /\ selected \subseteq selected'
            BY <1>3, <2>2 DEF Revise, IncludeMentioned, InputsInv
        <3>2. rounds' \in 1..MaxRounds /\ Kept /\ InputsInv' /\ ProposalOfInputs'
            BY <1>3, <2>2, <3>1, RoundInputs DEF Revise
        <3>3. /\ Asked(rounds', selected') \in Proposals
              /\ Answers(Asked(rounds', selected'), revision', selected', rounds', widened')
            BY <1>3, <2>2, <3>1, <3>2, AskedProposal DEF Revise, InputsInv
        <3>4. TasksInv'  BY <1>3, <2>2, <3>2, <3>3, SameTasks, StartedTasks DEF Revise
        <3> QED  BY <3>2, <3>4
    <2> QED  BY <2>1, <2>2
<1>4. CASE Choose
    <2>1. PICK chosen \in SUBSET Rules : proposal' = [proposal EXCEPT !.chosen = chosen]
        BY <1>4 DEF Choose
    <2>2. proposal \in Proposals  BY <1>4 DEF Choose, InputsInv
    <2>3. /\ proposal' \in Proposals /\ proposal'.revision = proposal.revision
          /\ proposal'.repositories = proposal.repositories /\ proposal'.round = proposal.round
        BY <2>1, <2>2 DEF Proposals
    <2>4. Kept  BY <1>4, SameInputs DEF Choose
    <2>5. TasksInv'  BY <1>4, <2>4, CancelledTasks, StartedTasks DEF Choose
    <2>6. InputsInv' /\ ProposalOfInputs'
        BY <1>4, <2>2, <2>3, NoneAssumption DEF Choose, inputs, InputsInv, ProposalOfInputs
    <2> QED  BY <2>5, <2>6
<1>5. CASE Apply \/ Undo
    <2>1. Kept  BY <1>5, SameInputs DEF Apply, Undo, review
    <2>2. TasksInv'  BY <1>5, <2>1, SameTasks, StartedTasks DEF Apply, Undo
    <2> QED  BY <1>5, <2>2 DEF Apply, Undo, review, inputs, InputsInv, ProposalOfInputs
<1>6. CASE Discard
    <2>1. Kept /\ tasks' = tasks  BY <1>6, SameInputs DEF Discard
    <2>2. TasksInv'  BY <2>1, SameTasks, MarkedTasks
    <2> QED  BY <1>6, <2>2 DEF Discard, Discarded, inputs, InputsInv, ProposalOfInputs
<1>7. CASE AcceptURL
    <2>1. tasks' = PlanningCancelled(tasks) \/ tasks' = tasks  BY <1>7 DEF AcceptURL
    <2>2. Kept  BY <1>7, SameInputs, NewRevision DEF AcceptURL, inputs
    <2>3. TasksInv'  BY <2>1, <2>2, CancelledTasks, SameTasks, MarkedTasks
    <2>4. revision' \in 0..MaxRevisions  BY <1>7, BoundAssumption DEF AcceptURL, InputsInv
    <2>5. InputsInv' /\ ProposalOfInputs'
        BY <1>7, <2>4 DEF AcceptURL, Discarded, InputsInv, ProposalOfInputs
    <2> QED  BY <2>3, <2>5
<1>8. CASE ReturnToReview \/ ConfigureCurrentCommand
    <2>1. Kept /\ tasks' = tasks
        BY <1>8, SameInputs DEF ReturnToReview, ConfigureCurrentCommand, review
    <2>2. TasksInv'  BY <2>1, SameTasks, MarkedTasks
    <2> QED  BY <1>8, <2>2 DEF ReturnToReview, ConfigureCurrentCommand, review, inputs, InputsInv,
                               ProposalOfInputs
<1> QED  BY <1>1, <1>2, <1>3, <1>4, <1>5, <1>6, <1>7, <1>8 DEF User

\* Only an answer to the inputs as they are becomes a proposal.
LEMMA AnswerReviewInv ==
    ASSUME ReviewInv, NEW t \in Tasks, AnswerArrives(t)
    PROVE  ReviewInv'
<1> USE DEF ReviewInv
<1>1. Current(tasks[t].for) /\ tasks[t].for.revision = revision
    BY DEF AnswerArrives, CurrentAnswer, TasksInv, TaskAt
<1>2. PICK chosen \in SUBSET Rules : proposal' = [tasks[t].for EXCEPT !.chosen = chosen]
    BY DEF AnswerArrives
<1>3. tasks[t].for \in Proposals  BY <1>1 DEF Current, Answers
<1>4. /\ proposal' \in Proposals /\ proposal'.revision = revision
      /\ proposal'.round = tasks[t].for.round
      /\ proposal'.repositories = tasks[t].for.repositories
    BY <1>1, <1>2, <1>3 DEF Proposals
<1>5. Kept  BY SameInputs DEF AnswerArrives
<1>6. TasksInv'  BY <1>4, <1>5, PreparedTasks DEF AnswerArrives, At
<1>7. InputsInv' /\ ProposalOfInputs'
    BY <1>1, <1>4 DEF AnswerArrives, inputs, Current, Answers, InputsInv, ProposalOfInputs
<1> QED  BY <1>6, <1>7

LEMMA StepReviewInv ==
    ASSUME ReviewInv, NEW t \in Tasks, Step(t)
    PROVE  ReviewInv'
<1> USE DEF ReviewInv
<1>1. CASE AnswerArrives(t)  BY <1>1, AnswerReviewInv
<1>2. CASE AnswerFails(t) \/ PlanFails(t) \/ PlanCancelled(t) \/ ApplyFails(t) \/ TakenBack(t)
           \/ UndoFails(t)
    <2>1. UNCHANGED review /\ tasks' = Ended(t)
        BY <1>2 DEF AnswerFails, PlanFails, PlanCancelled, ApplyFails, TakenBack, UndoFails
    <2>2. TasksInv'  BY <2>1, SameInputs, EndedTasks DEF review
    <2> QED  BY <2>1, <2>2 DEF review, inputs, InputsInv, ProposalOfInputs
<1>3. CASE PlanStarts(t)
    <2>1. TasksInv'  BY <1>3, SameInputs, PreparedTasks DEF PlanStarts, At, InputsInv
    <2> QED  BY <1>3, <2>1 DEF PlanStarts, inputs, InputsInv, ProposalOfInputs
<1>4. CASE PlanArrives(t) \/ Verified(t)
    <2>1. TasksInv'  BY <1>4, SameInputs, EndedTasks DEF PlanArrives, Verified
    <2> QED  BY <1>4, <2>1 DEF PlanArrives, Verified, inputs, InputsInv, ProposalOfInputs
<1>5. CASE Applies(t) \/ VerifyFails(t)
    <2>1. UNCHANGED review  BY <1>5 DEF Applies, VerifyFails
    <2>2. Kept  BY <2>1, SameInputs DEF review
    <2>3. TasksInv'  BY <1>5, <2>2, MovedTasks DEF Applies, VerifyFails, At
    <2> QED  BY <2>1, <2>3 DEF review, inputs, InputsInv, ProposalOfInputs
<1>6. CASE Undone(t)
    <2>1. TasksInv'  BY <1>6, SameInputs, PreparedTasks DEF Undone, At, InputsInv
    <2> QED  BY <1>6, <2>1 DEF Undone, inputs, InputsInv, ProposalOfInputs
<1> QED  BY <1>1, <1>2, <1>3, <1>4, <1>5, <1>6 DEF Step

LEMMA NextReviewInv == ReviewInv /\ [Next]_vars => ReviewInv'
<1> SUFFICES ASSUME ReviewInv, [Next]_vars PROVE ReviewInv'
    OBVIOUS
<1>1. CASE User  BY <1>1, UserReviewInv
<1>2. CASE \E t \in Tasks : Step(t)  BY <1>2, StepReviewInv
<1>3. CASE UNCHANGED vars
    <2>1. UNCHANGED review /\ tasks' = tasks  BY <1>3 DEF vars
    <2>2. TasksInv'  BY <2>1, SameInputs, SameTasks, MarkedTasks DEF review, ReviewInv
    <2> QED  BY <2>1, <2>2 DEF ReviewInv, review, inputs, InputsInv, ProposalOfInputs
<1> QED  BY <1>1, <1>2, <1>3 DEF Next

\* Whatever answers come late, out of order or to inputs that have changed, the proposal on
\* the screen was asked for under the revision of the inputs on the screen
\* (AppModel.swift:199) and about the repositories selected on it, or about fewer of them if
\* the feedback of a later round selected more (AppModel.swift:250), unless the code keeps
\* it because its change is being applied or can be undone.
THEOREM ReviewedProposal == Spec => []ProposalOfInputs
<1>1. ReviewInv => ProposalOfInputs  BY DEF ReviewInv
<1> QED  BY InitReviewInv, NextReviewInv, <1>1, PTL DEF Spec
=============================================================================
