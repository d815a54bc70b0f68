-------------------------- MODULE PolicyPlansStore --------------------------
(***************************************************************************)
(* The plan protocol, when one API process at a time runs and nothing else *)
(* writes the files, implements PolicyStore: while a call is changing      *)
(* files its caller still sees the state it started from, and every call   *)
(* takes effect at the step in which it returns.                           *)
(***************************************************************************)
EXTENDS PolicyPlans

\* The only API process.
sole == CHOOSE p \in Procs : TRUE

HasItem(t) == \E j \in 1..Len(Items(sole)) : Items(sole)[j].target = t
IndexOf(t) == CHOOSE j \in 1..Len(Items(sole)) : Items(sole)[j].target = t

\* Until it returns, an apply has changed nothing and an undo has not either.
storeBar ==
    [t \in Targets |->
        IF Changing(sole) /\ HasItem(t)
        THEN IF job[sole].kind = "apply"
             THEN Items(sole)[IndexOf(t)].before
             ELSE Items(sole)[IndexOf(t)].after
        ELSE text[t]]

PlansOf(kind) == {log[d].items : d \in {x \in known : log[x].kind = kind}}

Store == INSTANCE PolicyStore WITH
    store <- storeBar, reviewed <- PlansOf("apply"), undoable <- PlansOf("undo")

\* Every plan takes effect whole and on the reviewed texts, or not at all,
\* except where a call is cut short: policy.apply and policy.undo as one step.
ImplementsStore == Store!StoreSpec
=============================================================================
