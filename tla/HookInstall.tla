---------------------------- MODULE HookInstall ----------------------------
(***************************************************************************)
(* agentperm install and agentperm uninstall (cli.py, adapters/): one      *)
(* command at a time rewrites the hook files of five agents, file by file, *)
(* while users and other tools keep hooks of their own in the same files.  *)
(*                                                                         *)
(* A file holds, per event, a list of groups of hooks.  The flat lists of  *)
(* rulesync and Kiro are lists of groups of one hook.  A list that is      *)
(* empty and one that is absent are the same to every reader, so the       *)
(* deletion of emptied containers is not seen here.                        *)
(***************************************************************************)
EXTENDS Naturals, FiniteSets, SequencesExt

CONSTANTS
    Tools,        \* commands that other tools put into hooks
    Quoted,       \* what shlex.join makes of the words of a command
    None,         \* no command
    Arranged,     \* bound: a list found with hooks composed by hand, <<file, event, groups>>
    Editable,     \* bound: the lists <<file, event>> that are edited by hand
    MaxEdits,     \* bound: edits by users and other tools
    MaxCommands,  \* bound: commands run
    MaxFaults     \* bound: failures and kills

ASSUME ToolsAssumption == None \notin Tools /\ "agentperm" \notin Tools
\* The words are what the command's text says before the shell expands anything, and each
\* is quoted: ~, $VAR, a redirection or || of the text is a literal word of Quoted.  Text
\* that is quoted so has the words it was made of.
ASSUME QuotedAssumption ==
    Quoted \in [Tools -> Tools] /\ \A c \in Tools : Quoted[Quoted[c]] = Quoted[c]
ASSUME BoundsAssumption == MaxEdits \in Nat /\ MaxCommands \in Nat /\ MaxFaults \in Nat

VARIABLES
    hooks,     \* the hook lists: file -> event -> sequence of groups
    features,  \* [features] of Codex's config.toml
    plugin,    \* OpenCode's plugins/agentperm.js
    rulesync,  \* does ~/.rulesync exist?
    job,       \* the command that runs: its name, mode and the steps left
    last,      \* the command that ended last, Idle when a file has been edited since
    base,      \* history: the lists before agentperm came, None once edited
    edits, commands, faults

vars == <<hooks, features, plugin, rulesync, job, last, base, edits, commands, faults>>

-----------------------------------------------------------------------------
(* Lists of hooks. *)

Bridge(down) == [cmd |-> "agentperm", down |-> down]
Foreign(c) == [cmd |-> c, down |-> None]
IsBridge(h) == h.cmd = "agentperm"
Bridges == {Bridge(down) : down \in Tools \cup {None}}
Hooks == {Foreign(c) : c \in Tools} \cup Bridges
Groups == [matcher : {"all", "some"}, hooks : Seq(Hooks) \ {<<>>}]
Group(m, h) == [matcher |-> m, hooks |-> <<h>>]

Requoted(c) == IF c = None THEN None ELSE Quoted[c]
WithoutBridge(h) ==
    IF ~IsBridge(h) THEN <<h>>
    ELSE IF h.down = None THEN <<>> ELSE <<Foreign(Requoted(h.down))>>
Dropped(h) == IF IsBridge(h) THEN <<>> ELSE <<h>>

\* Removing agentperm's entries restores the hooks they were composed with or not.  A
\* group that is left without hooks goes too.
Left(h, restores) == IF restores THEN WithoutBridge(h) ELSE Dropped(h)
LeftHooks(g, restores) == FlattenSeq([i \in DOMAIN g.hooks |-> Left(g.hooks[i], restores)])
LeftGroup(g, restores) ==
    IF LeftHooks(g, restores) = <<>> THEN <<>>
    ELSE <<[g EXCEPT !.hooks = LeftHooks(g, restores)]>>
Strip(groups, restores) == FlattenSeq([i \in DOMAIN groups |-> LeftGroup(groups[i], restores)])

\* The elements of s that are in chosen, in order.
Kept(s, chosen) == FlattenSeq([i \in DOMAIN s |-> IF s[i] \in chosen THEN <<s[i]>> ELSE <<>>])
AllHooks(groups) == FlattenSeq([i \in DOMAIN groups |-> groups[i].hooks])
Composed(groups) == Kept(AllHooks(groups), Bridges \ {Bridge(None)})
Passthrough(groups) ==
    IF Composed(groups) = <<>> THEN None ELSE Head(Composed(groups)).down

\* Mutant: the entry is appended without removing the one that is there.
MergeAgain(groups) == Append(groups, Group("all", Bridge(Requoted(Passthrough(groups)))))
\* Mutant: groups that hold agentperm's hook go with all their hooks.
MergeOverGroups(groups) ==
    Append(SelectSeq(groups, LAMBDA g : \A i \in DOMAIN g.hooks : ~IsBridge(g.hooks[i])),
           Group("all", Bridge(Requoted(Passthrough(groups)))))
Merge(groups) ==
    Append(Strip(groups, FALSE), Group("all", Bridge(Requoted(Passthrough(groups)))))

-----------------------------------------------------------------------------
(* The files, and what an adapter makes of each. *)

Events == {"pre", "perm"}
Configured == {"claude", "codex", "gemini"}
\* ADAPTERS, in order.
Order == <<"claude", "codex", "opencode", "gemini", "kiro">>
Adapters == ToSet(Order)

AgentFiles == {<<"agent", "global">>, <<"agent", "workspace">>}
Standalone == <<"standalone", "kiro">>
ListFiles == ({"direct", "rulesync"} \X Configured) \cup AgentFiles \cup {Standalone}
Features == <<"features", "codex">>
Plugin == <<"plugin", "opencode">>

\* What is found is a list of groups of hooks.  A group without hooks, which either command
\* would drop, is one nobody writes.
ASSUME ArrangedAssumption == \A found \in Arranged :
    found[1] \in ListFiles /\ found[2] \in Events /\ found[3] \in Seq(Groups)

Adds(a) == IF a = "codex" THEN {"pre", "perm"} ELSE {"pre"}
Strips(a) == IF a = "claude" THEN {"perm"} ELSE {}

Installed(f, lists) ==
    CASE f[1] \in {"direct", "rulesync"} ->
            [e \in Events |-> IF e \in Adds(f[2]) THEN Merge(lists[e])
                              ELSE IF e \in Strips(f[2]) THEN Strip(lists[e], TRUE)
                              ELSE lists[e]]
      [] f[1] = "agent" ->
            [lists EXCEPT !["pre"] = Append(Strip(@, FALSE), Group("all", Bridge(None)))]
      [] f = Standalone -> [lists EXCEPT !["pre"] = <<Group("all", Bridge(None))>>]

\* Mutant: uninstall forgets the events that only install names as stale.
UninstalledFirst(f, lists) == [lists EXCEPT !["pre"] = Strip(@, TRUE)]
Uninstalled(f, lists) ==
    CASE f[1] \in {"direct", "rulesync"} ->
            [e \in Events |-> IF e \in Adds(f[2]) \cup Strips(f[2])
                              THEN Strip(lists[e], TRUE) ELSE lists[e]]
      [] OTHER -> [lists EXCEPT !["pre"] = Strip(@, FALSE)]

\* The files an adapter rewrites in a mode, in order.
KiroFiles(workspace) ==
    <<<<"agent", "global">>>> \o (IF workspace THEN <<<<"agent", "workspace">>>> ELSE <<>>)
                              \o <<Standalone>>
Files(a, mode, workspace) ==
    CASE a \in Configured -> <<<<mode, a>>>>
      [] a = "opencode" -> <<Plugin>>
      [] a = "kiro" -> KiroFiles(workspace)
InstallFiles(a, mode, workspace) ==
    Files(a, mode, workspace)
        \o (IF a = "codex" /\ mode = "direct" THEN <<Features>> ELSE <<>>)

Steps(a, files) == [i \in DOMAIN files |-> [adapter |-> a, file |-> files[i]]]
InstallSteps(mode, workspace) ==
    FlattenSeq([i \in DOMAIN Order |->
                   Steps(Order[i], InstallFiles(Order[i], mode, workspace))])
UninstallSteps(modes, workspace) ==
    FlattenSeq([i \in DOMAIN Order |->
        FlattenSeq([m \in DOMAIN modes |-> Steps(Order[i], Files(Order[i], modes[m], workspace))])])

-----------------------------------------------------------------------------
Idle == [name |-> "idle", mode |-> "none", todo |-> <<>>, done |-> {}, failed |-> {}]

\* A fresh home; one an older installer left behind (an entry under an event Claude does
\* not fire, the deprecated feature key, another version of the plugin); one where
\* another program has the plugin's name; and one with hooks composed by hand.
Only(f, e, groups) ==
    [file \in ListFiles |-> [event \in Events |->
        IF file = f /\ event = e THEN groups ELSE <<>>]]
Init ==
    /\ \/ /\ hooks = Only(<<"direct", "claude">>, "perm", <<Group("all", Bridge(None))>>)
          /\ features = "legacy" /\ plugin = "older"
       \/ /\ \E found \in Arranged : hooks = Only(found[1], found[2], found[3])
          /\ features = "unset" /\ plugin = "absent"
       \/ /\ hooks = Only(Standalone, "pre", <<>>)
          /\ features = "hooks" /\ plugin = "other"
    /\ rulesync = (plugin # "other")
    /\ job = Idle /\ last = Idle
    /\ base = None
    /\ edits = 0 /\ commands = 0 /\ faults = 0

BridgeFree(lists) ==
    \A f \in ListFiles, e \in Events :
        \A i \in DOMAIN AllHooks(lists[f][e]) : ~IsBridge(AllHooks(lists[f][e])[i])

Start(name, mode, todo) ==
    /\ job = Idle
    /\ commands < MaxCommands /\ commands' = commands + 1
    /\ job' = [Idle EXCEPT !.name = name, !.mode = mode, !.todo = todo]
    /\ last' = Idle
    /\ UNCHANGED <<hooks, features, plugin, rulesync, edits, faults>>

\* --mode: rulesync needs its directory, auto goes by it.
ResolvedMode(option) ==
    IF option = "auto" THEN (IF rulesync THEN "rulesync" ELSE "direct") ELSE option
Install(option, workspace) ==
    /\ option = "rulesync" => rulesync
    /\ Start("install", ResolvedMode(option), InstallSteps(ResolvedMode(option), workspace))
    /\ base' = IF BridgeFree(hooks) THEN hooks ELSE base

Modes(option) == IF option = "auto" THEN <<"direct", "rulesync">> ELSE <<option>>
Uninstall(option, workspace) ==
    /\ Start("uninstall", option, UninstallSteps(Modes(option), workspace))
    /\ UNCHANGED base

Current == Head(job.todo)
Advance ==
    job' = [job EXCEPT !.todo = Tail(@), !.done = @ \cup {Current.file}]

\* One file is read, changed and replaced.
RewriteList ==
    /\ job.todo # <<>> /\ Current.file \in ListFiles
    /\ hooks' = [hooks EXCEPT ![Current.file] =
                    IF job.name = "install" THEN Installed(Current.file, @)
                    ELSE Uninstalled(Current.file, @)]
    /\ Advance
    /\ UNCHANGED <<features, plugin, rulesync, last, base, edits, commands, faults>>

EnableFeature ==
    /\ job.todo # <<>> /\ Current.file = Features
    /\ features' = "hooks"
    /\ Advance
    /\ UNCHANGED <<hooks, plugin, rulesync, last, base, edits, commands, faults>>

\* install writes its plugin over whatever is there, uninstall deletes what it recognises.
RewritePlugin ==
    /\ job.todo # <<>> /\ Current.file = Plugin
    /\ plugin' = IF job.name = "install" THEN "own"
                 ELSE IF plugin \in {"own", "older"} THEN "absent" ELSE plugin
    /\ Advance
    /\ UNCHANGED <<hooks, features, rulesync, last, base, edits, commands, faults>>

\* A file cannot be read, parsed or written: the rest of its adapter is skipped.
\* Mutant: the failure ends the command, which still reports the others.
AdapterFailsAll ==
    /\ job.todo # <<>>
    /\ faults < MaxFaults /\ faults' = faults + 1
    /\ job' = [job EXCEPT !.failed = @ \cup {Current.adapter}, !.todo = <<>>]
    /\ UNCHANGED <<hooks, features, plugin, rulesync, last, base, edits, commands>>
AdapterFails ==
    /\ job.todo # <<>>
    /\ faults < MaxFaults /\ faults' = faults + 1
    /\ job' = [job EXCEPT !.failed = @ \cup {Current.adapter},
                          !.todo = Kept(@, {s \in ToSet(@) : s.adapter # Current.adapter})]
    /\ UNCHANGED <<hooks, features, plugin, rulesync, last, base, edits, commands>>

\* The command prints its report and exits, with 1 if an adapter failed.
Exit ==
    /\ job # Idle /\ job.todo = <<>>
    /\ last' = job /\ job' = Idle
    /\ UNCHANGED <<hooks, features, plugin, rulesync, base, edits, commands, faults>>

Kill ==
    /\ job # Idle
    /\ faults < MaxFaults /\ faults' = faults + 1
    /\ job' = Idle
    /\ UNCHANGED <<hooks, features, plugin, rulesync, last, base, edits, commands>>

-----------------------------------------------------------------------------
(* Users and other tools.  A command handles a file in one step, so an edit while  *)
(* it runs is one before or after it for that file, and only these are modelled.   *)

Edit(f, e, groups) ==
    /\ <<f, e>> \in Editable /\ job = Idle
    /\ edits < MaxEdits /\ edits' = edits + 1
    /\ hooks' = [hooks EXCEPT ![f][e] = groups]
    /\ last' = Idle
    /\ base' = None
    /\ UNCHANGED <<features, plugin, rulesync, job, commands, faults>>

\* A hook with a matcher of its own, or one more in a group that is there.
AddGroup(f, e, c) == Edit(f, e, Append(hooks[f][e], Group("some", Foreign(c))))
JoinGroup(f, e, c) ==
    /\ f[1] = "direct"
    /\ \E i \in DOMAIN hooks[f][e] :
        Edit(f, e, [hooks[f][e] EXCEPT ![i].hooks = Append(@, Foreign(c))])
\* check --passthrough c, as docs/adapters.md tells to configure it.
Compose(f, e, c) ==
    \E i \in DOMAIN hooks[f][e] : \E j \in DOMAIN hooks[f][e][i].hooks :
        /\ IsBridge(hooks[f][e][i].hooks[j])
        /\ Edit(f, e, [hooks[f][e] EXCEPT ![i].hooks[j].down = c])
\* An agentperm hook for some tools only, next to the one installed.
AddBridge(f, e, c) == Edit(f, e, Append(hooks[f][e], Group("some", Bridge(c))))

Next ==
    \/ \E option \in {"auto", "direct", "rulesync"}, workspace \in BOOLEAN :
        Install(option, workspace) \/ Uninstall(option, workspace)
    \/ RewriteList \/ EnableFeature \/ RewritePlugin \/ AdapterFails \/ Exit \/ Kill
    \/ \E f \in ListFiles, e \in Events, c \in Tools :
        AddGroup(f, e, c) \/ JoinGroup(f, e, c) \/ Compose(f, e, c) \/ AddBridge(f, e, c)

Spec == Init /\ [][Next]_vars

-----------------------------------------------------------------------------
(* Properties. *)

\* The hooks of other tools in a group and in a list, with their matchers.
StandingIn(g) ==
    FlattenSeq([i \in DOMAIN g.hooks |->
        IF IsBridge(g.hooks[i]) THEN <<>> ELSE <<<<g.matcher, g.hooks[i].cmd>>>>])
Standing(groups) == FlattenSeq([i \in DOMAIN groups |-> StandingIn(groups[i])])
Embedded(s, t) ==
    \E place \in [DOMAIN s -> DOMAIN t] :
        /\ \A i \in DOMAIN s : s[i] = t[place[i]]
        /\ \A i, j \in DOMAIN s : i < j => place[i] < place[j]
Commands(groups) ==
    (UNION {{h.cmd, h.down} : h \in ToSet(AllHooks(groups))}) \ {None, "agentperm"}

\* The compositions a command carries over: install, which writes one entry, the first.
Carried(f, e) ==
    LET composed == Composed(hooks[f][e]) IN
    {composed[i] : i \in
        {i \in DOMAIN composed : job.name = "install" /\ e \in Adds(f[2]) => i = 1}}

\* Neither command loses, changes or reorders a hook of another tool in a file it merges
\* into.  A command composed with --passthrough stays, inside the new entry or as a hook
\* of its own, as it was written or as its quoted words, and none appears that was not
\* there (adapters/base.py merge_nested_hooks, strip_nested_hooks).  Of several
\* compositions in a list install keeps the first.  Kiro's standalone file, which install
\* replaces, and compositions in Kiro's files are excepted.
OthersKept ==
    [][RewriteList =>
        LET f == Current.file IN
        f # Standalone =>
        \A e \in Events :
            LET before == Commands(hooks[f][e])
                after == Commands(hooks'[f][e])
            IN  /\ Embedded(Standing(hooks[f][e]), Standing(hooks'[f][e]))
                /\ after \subseteq before \cup {Quoted[c] : c \in before}
                /\ f \notin AgentFiles =>
                    \A h \in Carried(f, e) : {h.down, Quoted[h.down]} \cap after # {}]_vars

Asked(groups) == Kept(AllHooks(groups), Bridges)
\* The events an agent's entries are for, and those a stale one is removed from.
Guarded(a) ==
    /\ \A f \in last.done \cap ListFiles : f[2] = a \/ (a = "kiro" /\ f \in AgentFiles) =>
        \A e \in Adds(a) \cup Strips(a) :
            Len(Asked(hooks[f][e])) = IF e \in Adds(a) THEN 1 ELSE 0
    /\ a \in Configured => <<last.mode, a>> \in last.done
    /\ a = "codex" /\ last.mode = "direct" => features = "hooks"
    /\ a = "opencode" => plugin = "own"
    /\ a = "kiro" => {<<"agent", "global">>, Standalone} \subseteq last.done

\* When an install ends, every agent whose adapter is not reported as failed is asked
\* exactly once per event it fires, whatever failed before it (cli.py _cmd_install).
GuardedUnlessFailed ==
    last.name = "install" =>
        \A a \in Adapters \ last.failed : Guarded(a)

\* Installing again changes no file (docs/cli.md: "byte-stable across runs").
InstallIsStable ==
    last.name = "install" =>
        \A f \in last.done \cap ListFiles : Installed(f, hooks[f]) = hooks[f]

\* Uninstalling what one or more installs made, in any modes and after failures and
\* kills, leaves in every file it handled the lists from before the first of them;
\* only Kiro's standalone file may have lost what install overwrote.
RoundTrip ==
    (last.name = "uninstall" /\ base # None) =>
        \A f \in (last.done \cap ListFiles) \ {Standalone} : hooks[f] = base[f]
=============================================================================
