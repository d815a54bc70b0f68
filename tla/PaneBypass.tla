----------------------------- MODULE PaneBypass -----------------------------
(***************************************************************************)
(* The zellij plugin (zellij-plugin/src/main.rs) that owns the flag files, *)
(* together with the hooks of HookCheck that read them.                    *)
(*                                                                         *)
(* A session runs an instance of the plugin in every tab.  zellij sends    *)
(* each instance the layout after every change; an instance handles one    *)
(* event at a time and knows the panes only from the layouts it has        *)
(* handled so far.  Flag files outlive the session; pane ids start again.  *)
(***************************************************************************)
EXTENDS HookCheck, Sequences

CONSTANTS
    Plugins,      \* the plugin instances of a session
    MaxInbox,     \* bound: layouts an instance may lag behind
    MaxSessions   \* bound: sessions of this name, one after the other

ASSUME SessionAssumption == MaxInbox \in Nat /\ MaxSessions \in Nat \ {0}

VARIABLES
    live,      \* the terminal panes of the session
    focus,     \* those that have the focus of their tab (is_focused)
    used,      \* the pane ids given out in this session
    plug,      \* the state of every instance
    inbox,     \* the layouts zellij has sent to an instance
    session,   \* the session's number
    swept      \* history: no session before this one, or cleaned up in this one

paneVars == <<live, focus, used, plug, inbox, session, swept>>
vars == <<checkVars, paneVars>>

\* bypass_on, a copy of the directory for the indicator, is left out.
Plugin == [granted : BOOLEAN, focused : Panes \cup {NoPane},
           phase : {"ready", "create", "remove"}]
Manifest == [live : SUBSET Panes, focus : SUBSET Panes]
Loaded == [granted |-> FALSE, focused |-> NoPane, phase |-> "ready"]

PaneInit ==
    /\ Init /\ flags = {}
    /\ trusted  \* the directory ensure_dir makes, under the usual umask
    /\ live = {} /\ focus = {} /\ used = {}
    /\ plug = [i \in Plugins |-> Loaded]
    /\ inbox = [i \in Plugins |-> <<>>]
    /\ session = 1 /\ swept = TRUE

-----------------------------------------------------------------------------
(* zellij (external). *)

\* The layout changes; in every tab (and layer) some pane has the focus.
Layout(panes) ==
    /\ \A i \in Plugins : Len(inbox[i]) < MaxInbox
    /\ live' = panes
    /\ focus' \in {f \in SUBSET panes : f = {} <=> panes = {}}
    /\ inbox' = [i \in Plugins |->
                    Append(inbox[i], [live |-> live', focus |-> focus'])]
    /\ UNCHANGED <<checkVars, plug, session, swept>>

OpenPane == \E p \in Panes \ used : Layout(live \cup {p}) /\ used' = used \cup {p}
ClosePane == \E p \in live : Layout(live \ {p}) /\ UNCHANGED used
FocusPane == live # {} /\ Layout(live) /\ UNCHANGED used

\* The session ends and another one of the same name starts: its instances
\* are new and its pane ids start again.  Nothing touches the flag files.
NewSession ==
    /\ session < MaxSessions
    /\ session' = session + 1 /\ swept' = FALSE
    /\ live' = {} /\ focus' = {} /\ used' = {}
    /\ plug' = [i \in Plugins |-> Loaded]
    /\ inbox' = [i \in Plugins |-> <<>>]
    /\ UNCHANGED checkVars

-----------------------------------------------------------------------------
(* The plugin. *)

Ready(i) == plug[i].phase = "ready"

\* update, PermissionRequestResult
Grant(i) ==
    /\ Ready(i) /\ ~plug[i].granted
    /\ plug' = [plug EXCEPT ![i].granted = TRUE]
    /\ UNCHANGED <<checkVars, live, focus, used, inbox, session, swept>>

\* Mutant: the layout's panes are noted, stale files stay.
PaneUpdateKeepsFiles(i) ==
    /\ Ready(i) /\ inbox[i] # <<>>
    /\ LET m == Head(inbox[i])
       IN \E f \in IF m.focus = {} THEN {NoPane} ELSE m.focus :
            plug' = [plug EXCEPT ![i].focused = f]
    /\ inbox' = [inbox EXCEPT ![i] = Tail(@)]
    /\ swept' = (swept \/ plug[i].granted)
    /\ UNCHANGED <<checkVars, live, focus, used, session>>

\* update, PaneUpdate: the focused pane is the last one of the layout that has
\* the focus of its tab; then cleanup_stale.
PaneUpdate(i) ==
    /\ Ready(i) /\ inbox[i] # <<>>
    /\ LET m == Head(inbox[i])
           kept == IF plug[i].granted THEN flags \cap m.live ELSE flags
       IN /\ \E f \in IF m.focus = {} THEN {NoPane} ELSE m.focus :
                plug' = [plug EXCEPT ![i].focused = f]
          /\ IF kept = flags THEN UNCHANGED checkVars ELSE FlagsBecome(kept)
    /\ inbox' = [inbox EXCEPT ![i] = Tail(@)]
    /\ swept' = (swept \/ plug[i].granted)
    /\ UNCHANGED <<live, focus, used, session>>

\* pipe, "toggle": is there a flag file for the focused pane?
Pipe(i) ==
    /\ Ready(i) /\ plug[i].granted /\ plug[i].focused # NoPane
    /\ plug' = [plug EXCEPT ![i].phase =
                    IF plug[i].focused \in flags THEN "remove" ELSE "create"]
    /\ UNCHANGED <<checkVars, live, focus, used, inbox, session, swept>>

\* ... then remove it or create it; another instance may have done so already.
Toggle(i) ==
    /\ ~Ready(i)
    /\ LET p == plug[i].focused
           new == IF plug[i].phase = "create" THEN flags \cup {p} ELSE flags \ {p}
       IN /\ IF new = flags THEN UNCHANGED checkVars ELSE FlagsBecome(new)
          /\ plug' = [plug EXCEPT ![i].phase = "ready"]
    /\ UNCHANGED <<live, focus, used, inbox, session, swept>>

-----------------------------------------------------------------------------
\* An agent starts a call in a pane of the session or outside zellij.
Running(r) ==
    /\ \/ Begin(r) /\ call'[r].pane \in live \cup {NoPane}
       \/ Hook(r) \/ Finish(r) \/ FireAgain(r) \/ HookDies(r) \/ AgentDies(r)
    /\ UNCHANGED paneVars

PaneNext ==
    \/ OpenPane \/ ClosePane \/ FocusPane \/ NewSession
    \/ \E i \in Plugins : Grant(i) \/ PaneUpdate(i) \/ Pipe(i) \/ Toggle(i)
    \/ \E r \in Runs : Running(r)

PaneSpec == PaneInit /\ [][PaneNext]_vars

\* zellij hands an instance its events and messages in turn, so a layout that
\* waits is handled however often the toggle is pressed; a handler runs to its
\* end.
FairPaneSpec ==
    PaneSpec /\ \A i \in Plugins : SF_vars(PaneUpdate(i)) /\ WF_vars(Toggle(i))

-----------------------------------------------------------------------------
(* Properties *)

\* The types of the session and of the plugin instances.
PaneTypeOK ==
    /\ live \subseteq Panes /\ focus \subseteq live /\ used \subseteq Panes
    /\ plug \in [Plugins -> Plugin]
    /\ inbox \in [Plugins -> Seq(Manifest)]
    /\ session \in 1..MaxSessions /\ swept \in BOOLEAN

\* A flag never outlasts the knowledge that its pane is gone: while the file
\* of a closed pane exists, an instance that may delete it has a layout without
\* the pane still to handle, however the instances lag behind each other and
\* whichever of them switched the flag on too late.  What an earlier session of
\* the name left behind waits for the first layout handled after Grant.
CleanupPending ==
    swept =>
      \A p \in flags \ live :
        \E i \in Plugins :
            /\ plug[i].granted
            /\ \E n \in 1..Len(inbox[i]) : p \notin inbox[i][n].live

\* "The next focus / pane change triggers cleanup of any stale flag files": in
\* a session that has begun to clean up, the flag of a closed pane goes.
StaleFlagsGo ==
    \A p \in Panes :
        swept /\ p \in flags \ live ~> p \notin flags \/ ~swept
=============================================================================
