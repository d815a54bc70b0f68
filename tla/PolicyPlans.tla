---------------------------- MODULE PolicyPlans ----------------------------
(***************************************************************************)
(* The plan / apply / undo protocol of src/agentperm/policy_api.py.        *)
(*                                                                         *)
(* Every request of the JSON API runs in a process of its own.  A process  *)
(* reads policy files one at a time, keeps plan documents in a shared plan *)
(* directory and replaces policy files one at a time (fileio.atomic_write  *)
(* makes ONE replacement atomic).  There is no lock, so other API          *)
(* processes and other writers of the same files run between any two of    *)
(* these steps, any of the writes may fail, and the process may be killed. *)
(***************************************************************************)
EXTENDS Integers, Sequences, FiniteSets

CONSTANTS
    Procs,        \* API processes
    Targets,      \* policy files that can be planned for
    Texts,        \* file contents, up to what the protocol tells apart
    Valid,        \* the contents validate_policy_text has no error for
    Absent,       \* the file does not exist ("before": null)
    Ids,          \* plan ids (secrets.token_urlsafe)
    NoId,         \* no plan id
    NoDoc,        \* no document under this id in the plan directory
    Requests,     \* the target lists a client asks a plan for
    TTL,          \* _PLAN_TTL_SECONDS
    MaxTime,      \* bound: the last instant of the clock
    MaxFaults,    \* bound: failing writes
    MaxCrashes,   \* bound: killed processes
    MaxEdits      \* bound: changes by writers outside this protocol

ASSUME TextAssumption ==
    /\ Valid \subseteq Texts
    /\ Absent \notin Texts
ASSUME IdAssumption == NoId \notin Ids
ASSUME RequestAssumption ==
    \A r \in Requests :
        /\ r \in Seq(Targets)
        /\ \A i, j \in 1..Len(r) : i # j => r[i] # r[j]
ASSUME BoundAssumption ==
    /\ TTL \in Nat /\ MaxTime \in Nat
    /\ MaxFaults \in Nat /\ MaxCrashes \in Nat /\ MaxEdits \in Nat

VARIABLES
    text,    \* the policy files
    docs,    \* the plan directory
    now,     \* int(time.time())
    pc,      \* where each process is
    job,     \* the local variables of each process
    result,  \* how the last call of each process ended
    log,     \* history: the document every id was ever written with
    known,   \* history: the ids some response has carried to a client
    left     \* the faults, crashes and edits that may still happen

vars == <<text, docs, now, pc, job, result, log, known, left>>
directory == <<docs, log, known>>

Contents == Texts \cup {Absent}
Item == [target: Targets, before: Contents, after: Texts]
Doc == [kind: {"apply", "undo"}, items: Seq(Item), expires: Nat]
ASSUME DocAssumption == NoDoc \notin Doc
Job == [id: Ids \cup {NoId}, undo: Ids \cup {NoId}, kind: {"apply", "undo"},
        items: Seq(Item), todo: Seq(Targets), next: Nat]
Phases == {"idle", "planning", "checking", "persisting", "writing",
           "validating", "restoring", "closing"}
Results == {"none", "planned", "refused", "stale", "failed", "applied",
            "undone", "unrecovered", "partial", "aborted", "torn"}

NoJob == [id |-> NoId, undo |-> NoId, kind |-> "apply",
          items |-> <<>>, todo |-> <<>>, next |-> 0]

Init ==
    /\ text \in [Targets -> Valid \cup {Absent}]
    /\ docs = [d \in Ids |-> NoDoc]
    /\ now = 0
    /\ pc = [p \in Procs |-> "idle"]
    /\ job = [p \in Procs |-> NoJob]
    /\ result = [p \in Procs |-> "none"]
    /\ log = docs
    /\ known = {}
    /\ left = [faults |-> MaxFaults, crashes |-> MaxCrashes, edits |-> MaxEdits]

-----------------------------------------------------------------------------
(* Steps of a process, and the plan directory. *)

Current(p) == job[p].items[job[p].next]
Last(p) == job[p].next = Len(job[p].items)

Goto(p, phase) == pc' = [pc EXCEPT ![p] = phase]

\* The call returns: a result, or an exception the API boundary reports.
Return(p, outcome) ==
    /\ Goto(p, "idle")
    /\ result' = [result EXCEPT ![p] = outcome]

\* Mutant: the loop never advances.
LoopUpStuck(p, phase, first) ==
    IF Last(p)
    THEN /\ Goto(p, phase)
         /\ job' = [job EXCEPT ![p].next = first]
    ELSE UNCHANGED <<pc, job>>

\* The loop over the files goes on in the same phase, or moves to the next.
LoopUp(p, phase, first) ==
    IF Last(p)
    THEN /\ Goto(p, phase)
         /\ job' = [job EXCEPT ![p].next = first]
    ELSE /\ job' = [job EXCEPT ![p].next = @ + 1]
         /\ UNCHANGED pc

\* secrets.token_urlsafe: an id that was never used; which one does not matter.
Fresh(d) == log[d] = NoDoc /\ d = CHOOSE e \in Ids : log[e] = NoDoc

Expired(d) == docs[d] # NoDoc /\ docs[d].expires < now

\* _remove_expired_plans
Purged == [d \in Ids |-> IF Expired(d) THEN NoDoc ELSE docs[d]]

\* _write_plan: drop every expired document, then store the new one.
Stored(d, kind, items) ==
    LET new == [kind |-> kind, items |-> items, expires |-> now + TTL]
    IN /\ docs' = [Purged EXCEPT ![d] = new]
       /\ log' = [log EXCEPT ![d] = new]

\* _delete_plan, whose OSError apply and undo suppress: TRUE deletes.
Deleted(d, ok) ==
    /\ docs' = IF ok THEN [docs EXCEPT ![d] = NoDoc] ELSE docs
    /\ ok \/ left.faults > 0
    /\ left' = IF ok THEN left ELSE [left EXCEPT !.faults = @ - 1]

Fault == left.faults > 0 /\ left' = [left EXCEPT !.faults = @ - 1]

-----------------------------------------------------------------------------
(* policy.plan *)

\* Bound: a call that may store a document starts only while an id is left
\* for it and for every such call under way.
Room ==
    Cardinality({d \in Ids : log[d] = NoDoc})
        > Cardinality({p \in Procs : pc[p] \in {"planning", "checking", "persisting"}})

PlanStart(p) ==
    /\ pc[p] = "idle"
    /\ Room
    /\ \E r \in Requests : job' = [job EXCEPT ![p] = [NoJob EXCEPT !.todo = r]]
    /\ Goto(p, "planning")
    /\ result' = [result EXCEPT ![p] = "none"]
    /\ UNCHANGED <<text, now, directory, left>>

\* One file: read it, edit it; a file the edits leave as it is gets no entry.
PlanRead(p) ==
    /\ pc[p] = "planning" /\ job[p].todo # <<>>
    /\ LET t == Head(job[p].todo)
       IN \E after \in Valid :
            job' = [job EXCEPT
                ![p].todo = Tail(@),
                ![p].items = IF after = text[t] THEN @
                             ELSE Append(@, [target |-> t, before |-> text[t],
                                             after |-> after])]
    /\ UNCHANGED <<text, now, pc, result, directory, left>>

\* The edits do not fit the text, give an invalid one, or change nothing.
PlanRefuse(p) ==
    /\ pc[p] = "planning"
    /\ job[p].todo # <<>> \/ job[p].items = <<>>
    /\ Return(p, "refused")
    /\ UNCHANGED <<text, now, job, directory, left>>

PlanPersist(p) ==
    /\ pc[p] = "planning" /\ job[p].todo = <<>> /\ job[p].items # <<>>
    /\ \E d \in Ids :
        /\ Fresh(d)
        /\ Stored(d, "apply", job[p].items)
        /\ known' = known \cup {d}
    /\ Return(p, "planned")
    /\ UNCHANGED <<text, now, job, left>>

-----------------------------------------------------------------------------
(* policy.apply and policy.undo: read the plan, compare every file. *)

\* _read_plan of a document that is there, of this kind and not expired.
Begin(p) ==
    /\ pc[p] = "idle"
    /\ \E d \in known :
        /\ docs[d] # NoDoc /\ ~Expired(d)
        /\ docs[d].kind = "apply" => Room
        /\ job' = [job EXCEPT ![p] = [NoJob EXCEPT
                        !.id = d, !.kind = docs[d].kind,
                        !.items = docs[d].items, !.next = 1]]
    /\ Goto(p, "checking")
    /\ result' = [result EXCEPT ![p] = "none"]
    /\ UNCHANGED <<text, now, directory, left>>

\* _read_plan of an expired document deletes it.  A deletion that fails raises there and
\* changes nothing, as a document that cannot be read does: neither is a step.
BeginExpired(p) ==
    /\ pc[p] = "idle"
    /\ \E d \in known :
        /\ Expired(d)
        /\ docs' = [docs EXCEPT ![d] = NoDoc]
    /\ result' = [result EXCEPT ![p] = "refused"]
    /\ UNCHANGED <<text, now, pc, job, log, known, left>>

\* Mutant: the text is not compared.
ExpectedAnything(p) == text[Current(p).target]

\* _assert_current, one file: "before" for an apply, "after" for an undo.
Expected(p) == IF job[p].kind = "apply" THEN Current(p).before ELSE Current(p).after

\* Mutant: the undo plan is not persisted before the first write.
CheckThenWrite(p) ==
    /\ pc[p] = "checking"
    /\ text[Current(p).target] = Expected(p)
    /\ IF job[p].kind = "apply"
       THEN LoopUp(p, "writing", 1)
       ELSE LoopUp(p, "restoring", Len(job[p].items))
    /\ UNCHANGED <<text, now, result, directory, left>>

Check(p) ==
    /\ pc[p] = "checking"
    /\ text[Current(p).target] = Expected(p)
    /\ IF job[p].kind = "apply"
       THEN LoopUp(p, "persisting", 1)
       ELSE LoopUp(p, "restoring", Len(job[p].items))
    /\ UNCHANGED <<text, now, result, directory, left>>

CheckStale(p) ==
    /\ pc[p] = "checking"
    /\ text[Current(p).target] # Expected(p)
    /\ Return(p, "stale")
    /\ UNCHANGED <<text, now, job, directory, left>>

-----------------------------------------------------------------------------
(* policy.apply: recovery metadata, the writes, validation. *)

PersistUndo(p) ==
    /\ pc[p] = "persisting"
    /\ \E d \in Ids :
        /\ Fresh(d)
        /\ Stored(d, "undo", job[p].items)
        /\ job' = [job EXCEPT ![p].undo = d]
    /\ Goto(p, "writing")
    /\ UNCHANGED <<text, now, result, known, left>>

\* _write_plan fails, maybe after it has dropped the expired documents; the
\* new undo plan, or the plan under review, is not stored.
PersistFail(p) ==
    /\ \/ pc[p] = "persisting" /\ Return(p, "failed")
       \/ /\ pc[p] = "planning" /\ job[p].todo = <<>> /\ job[p].items # <<>>
          /\ Return(p, "refused")
    /\ Fault
    /\ docs' \in {docs, Purged}
    /\ UNCHANGED <<text, now, job, log, known>>

Write(p) ==
    /\ pc[p] = "writing"
    /\ text' = [text EXCEPT ![Current(p).target] = Current(p).after]
    /\ LoopUp(p, "validating", 1)
    /\ UNCHANGED <<now, result, directory, left>>

\* Mutant: the rollback leaves out the last file written.
RollbackFromPrevious(p, n) ==
    /\ Goto(p, "restoring")
    /\ job' = [job EXCEPT ![p].next = n - 1]

\* The exception handler restores the files written so far, last one first.
RollbackFrom(p, n) ==
    /\ Goto(p, "restoring")
    /\ job' = [job EXCEPT ![p].next = n]

WriteFail(p) ==
    /\ pc[p] = "writing"
    /\ Fault
    /\ RollbackFrom(p, job[p].next - 1)
    /\ UNCHANGED <<text, now, result, directory>>

\* Every file is read again once all are written.
Validate(p) ==
    /\ pc[p] = "validating"
    /\ text[Current(p).target] \in Valid
    /\ LoopUp(p, "closing", 0)
    /\ UNCHANGED <<text, now, result, directory, left>>

\* The file is not the one just written (or cannot be read).
ValidateFail(p) ==
    /\ pc[p] = "validating"
    /\ \/ text[Current(p).target] \notin Valid /\ UNCHANGED left
       \/ Fault
    /\ RollbackFrom(p, Len(job[p].items))
    /\ UNCHANGED <<text, now, result, directory>>

-----------------------------------------------------------------------------
(* _restore_before: the rollback of an apply, and the body of an undo. *)

\* A file that did not exist before is unlinked, any other one rewritten.
Restore(p) ==
    /\ pc[p] = "restoring" /\ job[p].next > 0
    /\ text' = [text EXCEPT ![Current(p).target] = Current(p).before]
    /\ job' = [job EXCEPT ![p].next = @ - 1]
    /\ UNCHANGED <<now, pc, result, directory, left>>

\* A rollback that fails names the undo plan in its error message; an undo
\* that fails just ends.
RestoreFail(p) ==
    /\ pc[p] = "restoring" /\ job[p].next > 0
    /\ Fault
    /\ IF job[p].kind = "apply"
       THEN known' = known \cup {job[p].undo} /\ Return(p, "unrecovered")
       ELSE UNCHANGED known /\ Return(p, "partial")
    /\ UNCHANGED <<text, now, job, docs, log>>

\* The rollback is complete: the undo plan is deleted and the error raised.
RolledBack(p) ==
    /\ pc[p] = "restoring" /\ job[p].next = 0 /\ job[p].kind = "apply"
    /\ \E ok \in BOOLEAN : Deleted(job[p].undo, ok)
    /\ Return(p, "failed")
    /\ UNCHANGED <<text, now, job, log, known>>

Undone(p) ==
    /\ pc[p] = "restoring" /\ job[p].next = 0 /\ job[p].kind = "undo"
    /\ \E ok \in BOOLEAN : Deleted(job[p].id, ok)
    /\ Return(p, "undone")
    /\ UNCHANGED <<text, now, job, log, known>>

Applied(p) ==
    /\ pc[p] = "closing"
    /\ \E ok \in BOOLEAN : Deleted(job[p].id, ok)
    /\ known' = known \cup {job[p].undo}
    /\ Return(p, "applied")
    /\ UNCHANGED <<text, now, job, log>>

-----------------------------------------------------------------------------
(* What the process does not control. *)

\* Changing is when files may differ from both sides of the running plan.
Changing(p) == pc[p] \in {"writing", "validating", "restoring", "closing"}

Crash(p) ==
    /\ pc[p] # "idle"
    /\ left.crashes > 0
    /\ left' = [left EXCEPT !.crashes = @ - 1]
    /\ Return(p, IF Changing(p) THEN "torn" ELSE "aborted")
    /\ UNCHANGED <<text, now, job, directory>>

\* agentperm init, edit and import, an editor, git: any other writer.
Edit(t) ==
    /\ left.edits > 0
    /\ left' = [left EXCEPT !.edits = @ - 1]
    /\ \E x \in Contents \ {text[t]} : text' = [text EXCEPT ![t] = x]
    /\ UNCHANGED <<now, pc, job, result, directory>>

Tick ==
    /\ now < MaxTime
    /\ now' = now + 1
    /\ UNCHANGED <<text, pc, job, result, directory, left>>

Request(p) == PlanStart(p) \/ Begin(p) \/ BeginExpired(p)
Run(p) ==
    \/ PlanRead(p) \/ PlanRefuse(p) \/ PlanPersist(p)
    \/ Check(p) \/ CheckStale(p) \/ PersistUndo(p) \/ PersistFail(p)
    \/ Write(p) \/ WriteFail(p) \/ Validate(p) \/ ValidateFail(p)
    \/ Restore(p) \/ RestoreFail(p) \/ RolledBack(p) \/ Undone(p) \/ Applied(p)

Next ==
    \/ \E p \in Procs : Request(p) \/ Run(p) \/ Crash(p)
    \/ \E t \in Targets : Edit(t)
    \/ Tick

Spec == Init /\ [][Next]_vars

\* The operating system lets a started process run until its call returns.
FairSpec == Spec /\ \A p \in Procs : WF_vars(Run(p))

-----------------------------------------------------------------------------
(* Properties *)

\* The types of the files, the plan directory and the processes' variables.
TypeOK ==
    /\ text \in [Targets -> Contents]
    /\ docs \in [Ids -> Doc \cup {NoDoc}]
    /\ now \in Nat
    /\ pc \in [Procs -> Phases]
    /\ job \in [Procs -> Job]
    /\ result \in [Procs -> Results]
    /\ log \in [Ids -> Doc \cup {NoDoc}]
    /\ known \subseteq Ids
    /\ left \in [faults : Nat, crashes : Nat, edits : Nat]

Items(p) == job[p].items
Side(p, j, before) == IF before THEN Items(p)[j].before ELSE Items(p)[j].after
\* The first k files of p's plan hold the new text, the others the old one.
AppliedUpTo(p, k) ==
    \A j \in 1..Len(Items(p)) : text[Items(p)[j].target] = Side(p, j, j > k)

\* "Persist recovery metadata before touching any policy": while an apply is
\* changing files, and after it was killed doing so, the plan directory holds
\* an undo document for exactly these files, unless its time is over.  Plan
\* creations of other processes purge the directory meanwhile.
RecoveryBeforeChange ==
    \A p \in Procs :
        job[p].kind = "apply" /\ (Changing(p) \/ result[p] = "torn") =>
            LET d == job[p].undo
            IN /\ d \in Ids /\ log[d] # NoDoc
               /\ log[d].kind = "undo" /\ log[d].items = Items(p)
               /\ docs[d] = log[d] \/ log[d].expires < now

\* Compare-and-swap: whatever an apply, a rollback or an undo is about to
\* replace is the text the plan recorded for that side, although the compare
\* ran over all files before the first of them was written.
ReplacesReviewedText ==
    \A p \in Procs :
        /\ pc[p] = "writing" => text[Current(p).target] = Current(p).before
        /\ pc[p] = "restoring" /\ job[p].next > 0 =>
                text[Current(p).target] = Current(p).after

\* "Apply one reviewed plan exactly, or leave every target unchanged", as the
\* caller sees it when the call has ended; an undo restores every file.
AllOrNothing ==
    \A p \in Procs :
        /\ result[p] = "applied" => AppliedUpTo(p, Len(Items(p)))
        /\ result[p] \in {"failed", "undone"} => AppliedUpTo(p, 0)

\* However a call ends early (killed, or its rollback failed), the files are a
\* prefix of the plan in the new state and the rest in the old one: the undo
\* document that stays behind tells every file's two possible texts.
TornIsPrefix ==
    \A p \in Procs :
        result[p] \in {"torn", "unrecovered", "partial"} =>
            \E k \in 0..Len(Items(p)) : AppliedUpTo(p, k)

\* An undo document that is still valid is dropped only once every file it
\* covers holds its old text again: no recovery data is lost too early.
DropsOnlyWhenRestored ==
    [][\A d \in Ids :
        docs[d] # NoDoc /\ docs'[d] = NoDoc /\ docs[d].kind = "undo" /\ ~Expired(d) =>
            \A j \in DOMAIN docs[d].items :
                text[docs[d].items[j].target] = docs[d].items[j].before]_vars

\* A call that was started ends, whatever fails on the way.
CallsReturn == \A p \in Procs : pc[p] # "idle" ~> pc[p] = "idle"

\* What a comment of apply_policy_plan promises: whenever files were changed
\* the client holds an undo identity that can be used, that is, whose check of
\* every file succeeds.
UsableUndoIdentity ==
    \A p \in Procs : result[p] = "unrecovered" => AppliedUpTo(p, Len(Items(p)))
=============================================================================
