----------------------------- MODULE PolicyStore -----------------------------
(***************************************************************************)
(* What the plan protocol promises its callers: a set of policy files that *)
(* changes by whole reviewed plans only, each from exactly the texts that  *)
(* were reviewed.  The one exception the code admits is a call that is cut *)
(* short (killed, or failing twice): it may leave a prefix of the plan.    *)
(***************************************************************************)
EXTENDS Integers, Sequences

CONSTANTS Targets, Contents

VARIABLES
    store,     \* the policy files
    reviewed,  \* the plans a client may apply
    undoable   \* the plans a client may undo

storeVars == <<store, reviewed, undoable>>

Before(items) == \A j \in 1..Len(items) : store[items[j].target] = items[j].before
After(items) == \A j \in 1..Len(items) : store[items[j].target] = items[j].after

\* The files with the first k changes of the plan, and without the others.
Prefix(items, k) ==
    [t \in Targets |->
        IF \E j \in 1..Len(items) : items[j].target = t
        THEN LET j == CHOOSE i \in 1..Len(items) : items[i].target = t
             IN IF j <= k THEN items[j].after ELSE items[j].before
        ELSE store[t]]

StoreInit ==
    /\ store \in [Targets -> Contents]
    /\ reviewed = {}
    /\ undoable = {}

Review ==
    /\ reviewed \subseteq reviewed'
    /\ UNCHANGED <<store, undoable>>

Apply(items) ==
    /\ items \in reviewed /\ Before(items)
    /\ store' = Prefix(items, Len(items))
    /\ undoable' = undoable \cup {items}
    /\ UNCHANGED reviewed

Undo(items) ==
    /\ items \in undoable /\ After(items)
    /\ store' = Prefix(items, 0)
    /\ UNCHANGED <<reviewed, undoable>>

Tear(items) ==
    /\ \/ items \in reviewed /\ Before(items)
       \/ items \in undoable /\ After(items)
    /\ \E k \in 0..Len(items) : store' = Prefix(items, k)
    /\ undoable' \in {undoable, undoable \cup {items}}
    /\ UNCHANGED reviewed

StoreNext ==
    \/ Review
    \/ \E items \in reviewed \cup undoable : Apply(items) \/ Undo(items) \/ Tear(items)

StoreSpec == StoreInit /\ [][StoreNext]_storeVars
=============================================================================
