----------------------------- MODULE AppReview -----------------------------
(***************************************************************************)
(* The review screen of the macOS app: AppModel of                         *)
(* apps/macos/AgentpermConfig/Sources/AgentpermConfig/AppModel.swift.      *)
(*                                                                         *)
(* AppModel is bound to the main actor, so its synchronous parts do not    *)
(* interleave; its Tasks give way at every await, and the user goes on     *)
(* clicking meanwhile.  Each await is a step boundary here.  The answers   *)
(* of Codex and of the agentperm API (PolicyPlans) come from outside; of   *)
(* a plan only the rules are known that it would write.                    *)
(***************************************************************************)
EXTENDS Naturals, FiniteSets

CONSTANTS
    Rules,         \* the rules Codex may propose
    Repositories,  \* the repositories found on the machine
    None,          \* no proposal
    Tasks,         \* bound: numbered places for the Tasks that run at a time
    MaxRounds,     \* bound: analyses and revisions asked for
    MaxRevisions   \* bound: changes of the inputs

ASSUME BoundAssumption == Tasks \subseteq Nat /\ MaxRounds \in Nat /\ MaxRevisions \in Nat

\* The proposal of a round: what Codex was asked about and the rules chosen in it.
Proposals == [round : 1..MaxRounds, revision : 0..MaxRevisions,
              repositories : SUBSET Repositories, chosen : SUBSET Rules]
ASSUME NoneAssumption == None \notin Proposals

VARIABLES
    phase,     \* ReviewPhase: which screen is shown
    revision,  \* inputRevision: command, repositories, workflow, settings
    selected,  \* selectedRepositoryPaths
    rounds,    \* how often Codex was asked
    proposal,  \* the proposal on the screen and the rules chosen in it
    plan,      \* planID and preparedFiles: the rules in the diff; none without a plan
    undoable,  \* undoID is set
    tasks,     \* the running Tasks
    ignored,   \* history: the inputs changed and the proposal was kept
    widened    \* history: the last round whose feedback selected more repositories

inputs == <<revision, selected, widened>>
review == <<inputs, rounds, proposal, plan, undoable, ignored>>
vars == <<phase, review, tasks>>

Spinners == {"analysing", "revising", "applying"}
Phases == Spinners \cup {"composing", "reviewing", "applied", "failed"}
Task == [kind : {"analyse", "revise", "plan", "apply", "undo"},
         at : {"codex", "starting", "planning", "applying", "verifying", "taking back", "undoing"},
         for : Proposals \cup {None},   \* what Codex was asked for
         rules : SUBSET Rules,          \* what the planner was asked for
         cancelled : BOOLEAN]
NoTask == [kind |-> "none"]

Running(t) == tasks[t] # NoTask
Ended(t) == [tasks EXCEPT ![t] = NoTask]
At(t, stage) == Running(t) /\ tasks[t].at = stage
Moved(t, stage) == [tasks EXCEPT ![t].at = stage]
\* planningTask?.cancel(): a Task learns of it only when it next looks.
PlanningCancelled(ts) ==
    [t \in Tasks |-> IF ts[t].kind = "plan" THEN [ts[t] EXCEPT !.cancelled = TRUE] ELSE ts[t]]
\* A new Task, in the first free place.
Started(ts, kind, stage, asked) ==
    LET free == {u \in Tasks : ts[u] = NoTask}
    IN  {[ts EXCEPT ![t] = [kind |-> kind, at |-> stage, for |-> asked, rules |-> {},
                           cancelled |-> FALSE]]
            : t \in {u \in free : \A v \in free : u <= v}}
\* What a Task asks Codex for captures the inputs and their revision.
Asked(round, repositories) ==
    [round |-> round, revision |-> revision, repositories |-> repositories, chosen |-> {}]

-----------------------------------------------------------------------------
(* What the user does. *)

\* inputDidChange: another command or workflow, ad hoc instructions, settings that
\* are saved, or repositories clicked, cleared or found anew, on whatever screen.
\* (What SettingsView edits in the workflows before Save calls nothing and is left
\* out: the revision stands for the workflow as it was when it last changed.)
InputDidChange ==
    /\ revision < MaxRevisions
    /\ revision' = revision + 1
    /\ selected' \in SUBSET Repositories
    /\ IF phase # "applying" /\ proposal # None /\ ~undoable
       THEN /\ tasks' = PlanningCancelled(tasks)
            /\ plan' = {} /\ proposal' = None /\ ignored' = FALSE
            /\ phase' = "composing"
       ELSE /\ ignored' = (ignored \/ proposal # None)
            /\ UNCHANGED <<tasks, plan, proposal, phase>>
    /\ UNCHANGED <<rounds, undoable, widened>>

Analyse ==
    /\ phase = "composing" /\ rounds < MaxRounds
    /\ rounds' = rounds + 1
    /\ phase' = "analysing"
    /\ tasks' \in Started(tasks, "analyse", "codex", Asked(rounds', selected))
    /\ UNCHANGED <<inputs, proposal, plan, undoable, ignored>>

\* includeRepositoriesMentioned: the repositories whose names or paths the feedback
\* contains join the selection, which is no inputDidChange.
IncludeMentioned == \E mentioned \in SUBSET Repositories : selected' = selected \cup mentioned

\* Without a proposal there is no thread to resume.
Revise ==
    /\ phase = "reviewing"
    /\ IF proposal = None
       THEN phase' = "failed" /\ UNCHANGED <<selected, widened, rounds, tasks>>
       ELSE /\ rounds < MaxRounds
            /\ rounds' = rounds + 1
            /\ IncludeMentioned
            /\ widened' = IF selected' = selected THEN widened ELSE rounds'
            /\ phase' = "revising"
            /\ tasks' \in Started(tasks, "revise", "codex", Asked(rounds', selected'))
    /\ UNCHANGED <<revision, proposal, plan, undoable, ignored>>

\* setRuleSelected, toggleTarget: another choice, and refreshPlan.
Choose ==
    /\ phase = "reviewing" /\ proposal # None
    /\ \E chosen \in SUBSET Rules \ {proposal.chosen} :
           proposal' = [proposal EXCEPT !.chosen = chosen]
    /\ tasks' \in Started(PlanningCancelled(tasks), "plan", "starting", None)
    /\ UNCHANGED <<phase, inputs, rounds, plan, undoable, ignored>>

\* The button has a keyboard shortcut and stays enabled while it applies.
Apply ==
    /\ phase \in {"reviewing", "applying"}
    /\ proposal # None /\ plan # {}
    /\ phase' = "applying"
    /\ tasks' \in Started(tasks, "apply", "applying", None)
    /\ UNCHANGED review

Undo ==
    /\ phase = "applied" /\ undoable
    /\ tasks' \in Started(tasks, "undo", "undoing", None)
    /\ UNCHANGED <<phase, review>>

\* discard: Tasks run on, and inputRevision stays.
Discarded ==
    /\ proposal' = None /\ plan' = {} /\ undoable' = FALSE /\ ignored' = FALSE
    /\ phase' = "composing"
Discard ==
    /\ phase \in {"reviewing", "applied", "failed"}
    /\ Discarded
    /\ UNCHANGED <<inputs, rounds, tasks>>

\* accept(url:): another command may come with it; then discard.
AcceptURL ==
    /\ \/ UNCHANGED <<revision, tasks>>
       \/ /\ revision < MaxRevisions
          /\ revision' = revision + 1
          /\ tasks' = IF phase # "applying" /\ proposal # None /\ ~undoable
                      THEN PlanningCancelled(tasks) ELSE tasks
    /\ Discarded
    /\ UNCHANGED <<selected, widened, rounds>>

ReturnToReview ==
    /\ phase = "failed"
    /\ phase' = IF proposal = None THEN "composing" ELSE "reviewing"
    /\ UNCHANGED <<review, tasks>>

\* From the Explain view, which the picker shows at any time.
ConfigureCurrentCommand ==
    /\ proposal = None /\ phase # "composing"
    /\ phase' = "composing"
    /\ UNCHANGED <<review, tasks>>

User == \/ InputDidChange \/ Analyse \/ Revise \/ Choose \/ Apply \/ Undo
        \/ Discard \/ AcceptURL \/ ReturnToReview \/ ConfigureCurrentCommand

-----------------------------------------------------------------------------
(* What the Tasks do, from one await to the next. *)

\* refreshPreparedFiles up to its await, with the proposal of that instant: the
\* plan is asked for, or there is nothing to plan.
NeedsPlan(p) == p # None /\ p.chosen # {}
Prepare(t, p, before, after) ==
    IF NeedsPlan(p)
    THEN /\ tasks' = [tasks EXCEPT ![t] = [@ EXCEPT !.at = "planning", !.for = None, !.rules = p.chosen]]
         /\ phase' = before
         /\ UNCHANGED plan
    ELSE /\ tasks' = Ended(t)
         /\ phase' = after
         /\ plan' = {}

\* The answer of Codex, for the inputs as they are now.
AnyAnswer(t) == Running(t)
CurrentAnswer(t) == tasks[t].for.revision = revision
AnswerArrives(t) ==
    /\ At(t, "codex") /\ CurrentAnswer(t)
    /\ \E chosen \in SUBSET Rules :
           proposal' = [tasks[t].for EXCEPT !.chosen = chosen]
    /\ Prepare(t, proposal', phase, "reviewing")
    /\ ignored' = FALSE
    /\ UNCHANGED <<inputs, rounds, undoable>>

\* Codex failed, timed out or answered for other inputs.
AnswerDropped(t) ==
    /\ At(t, "codex")
    /\ tasks' = Ended(t)
    /\ UNCHANGED <<phase, review>>
AnswerFails(t) ==
    /\ At(t, "codex")
    /\ tasks' = Ended(t)
    /\ phase' = "failed"
    /\ UNCHANGED review

\* The Task of refreshPlan gets its turn.
PlanStarts(t) ==
    /\ At(t, "starting")
    /\ Prepare(t, proposal, phase, phase)
    /\ UNCHANGED <<inputs, rounds, proposal, undoable, ignored>>

\* policy.plan answered, even if the Task was cancelled since.
PlanArrives(t) ==
    /\ At(t, "planning")
    /\ tasks' = Ended(t)
    /\ plan' = tasks[t].rules
    /\ phase' = IF tasks[t].kind \in {"analyse", "revise"} THEN "reviewing" ELSE phase
    /\ UNCHANGED <<inputs, rounds, proposal, undoable, ignored>>

\* It failed, or the cancellation came out as a failure of the compatibility check.
PlanFails(t) ==
    /\ At(t, "planning")
    /\ tasks' = Ended(t)
    /\ phase' = "failed"
    /\ UNCHANGED review

PlanCancelled(t) ==
    /\ At(t, "planning") /\ tasks[t].cancelled
    /\ tasks' = Ended(t)
    /\ UNCHANGED <<phase, review>>

\* PolicyApplier.apply: policy.apply, then the checks of verify.
Applies(t) ==
    /\ At(t, "applying")
    /\ tasks' = Moved(t, "verifying")
    /\ UNCHANGED <<phase, review>>

ApplyFails(t) ==
    /\ At(t, "applying")
    /\ tasks' = Ended(t)
    /\ phase' = "failed"
    /\ UNCHANGED review

Verified(t) ==
    /\ At(t, "verifying")
    /\ tasks' = Ended(t)
    /\ undoable' = TRUE
    /\ phase' = "applied"
    /\ UNCHANGED <<inputs, rounds, proposal, plan, ignored>>

VerifyFails(t) ==
    /\ At(t, "verifying")
    /\ tasks' = Moved(t, "taking back")
    /\ UNCHANGED <<phase, review>>

\* The rollback of a failed check, which may fail itself.
TakenBack(t) ==
    /\ At(t, "taking back")
    /\ tasks' = Ended(t)
    /\ phase' = "failed"
    /\ UNCHANGED review

\* policy.undo restored the files; the plan of the proposal is made anew.
Undone(t) ==
    /\ At(t, "undoing")
    /\ undoable' = FALSE
    /\ Prepare(t, proposal, "reviewing", "reviewing")
    /\ UNCHANGED <<inputs, rounds, proposal, ignored>>

UndoFails(t) ==
    /\ At(t, "undoing")
    /\ tasks' = Ended(t)
    /\ phase' = "failed"
    /\ UNCHANGED review

Step(t) == \/ AnswerArrives(t) \/ AnswerFails(t) \/ PlanStarts(t) \/ PlanArrives(t)
           \/ PlanFails(t) \/ PlanCancelled(t) \/ Applies(t) \/ ApplyFails(t)
           \/ Verified(t) \/ VerifyFails(t) \/ TakenBack(t) \/ Undone(t) \/ UndoFails(t)

Init ==
    /\ phase = "composing" /\ revision = 0 /\ rounds = 0
    /\ selected \in SUBSET Repositories /\ widened = 0
    /\ proposal = None /\ plan = {} /\ undoable = FALSE
    /\ tasks = [t \in Tasks |-> NoTask]
    /\ ignored = FALSE

Next == User \/ \E t \in Tasks : Step(t)
Spec == Init /\ [][Next]_vars
\* Every external call has a timeout (30 s for agentperm, 300 s for Codex).
FairSpec == Spec /\ \A t \in Tasks : WF_vars(Step(t))

-----------------------------------------------------------------------------
(* Properties. *)

\* The proposal on the screen answers the inputs on the screen, whatever answers
\* come late, unless inputDidChange kept it because a change is being applied or
\* can be undone: it was asked for under their revision and about the selected
\* repositories, or about fewer if the feedback of a later round, which has no
\* answer yet or got none, selected more.
ProposalOfInputs ==
    proposal # None /\ ~ignored =>
        /\ proposal.revision = revision
        /\ proposal.repositories \subseteq selected
        /\ proposal.repositories # selected => proposal.round < widened

\* No spinner stays, however many Tasks were started, forgotten (discard does not
\* cancel them) and answered out of order or with a failure.
SpinnerEnds == phase \in Spinners ~> phase \notin Spinners
=============================================================================
