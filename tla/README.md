# agentperm in TLA+

agentperm gives coding agents one permission policy. Before a tool runs, the agent starts
`agentperm check` as a hook; the hook reads policy documents and answers *allow*, *ask*,
*deny* or nothing. Around that sit a JSON API that edits the policies (used by a macOS app),
a command line that installs the hook, imports rules and writes policies, and a zellij plugin that
switches the prompts of a pane off. This directory models those parts, checks them on small instances
with TLC and proves, with TLAPS and for every instance, the main properties of the plan protocol (its
refinement included), the hook, the plugin, the loader, the evaluation, the path matching of patterns,
the installation and the review screen. Paths below are relative to the repository; `agentperm/` is `src/agentperm/`.

Contents: [inventory](#the-system), [modules](#the-modules), [runs](#the-runs),
[fairness](#fairness), [proofs](#the-proofs), [disagreements](#where-code-and-documents-disagree),
[limits](#what-is-not-modelled), [plan](#plan).

## The system

| Component | State | Operations | Hard behaviour | What makes it correct |
|---|---|---|---|---|
| Plan API (`policy_api.py`, `api.py`, `fileio.py`) | policy files, a directory of plan and undo documents with a lifetime | `policy.plan`, `policy.apply`, `policy.undo`, one process per request | no lock; several files written one by one; writes fail; processes are killed; documents expire and every call purges them | all or nothing; only reviewed texts replaced; recovery data precedes every change and is not lost |
| Hook check (`cli.py` `cmd_check`, `hook_passthrough.py`, `adapters/`) | none of its own; reads policy and flag file | parse the payload, decide, two coercions, downstream hook, answer per agent | policy and flag change between steps; Codex and OpenCode fire two hooks per call; a broken policy takes another path | a denied call runs only if its hook died; every approval has a reason; what runs under a broken policy, and how, is known |
| Pane bypass (`zellij-plugin/src/main.rs`) | a flag file per pane; per plugin instance the pane it believes focused | toggle, cleanup on every layout | an instance per tab, each behind the layout; files outlive sessions and pane ids restart | no flag for a closed pane stays |
| Discovery, includes, layers (`policy.py`, `scoped_policy.py`) | documents loaded, include stack | walk the directories, load includes depth first, combine, merge | diamonds, cycles, links to a document met before; lexical and resolved paths | the verdict is the one read off the include graph; two ways of combining layers agree |
| Evaluation (`domain/evaluation.py`, settings in `domain/model.py`) | the merged policy | match rules in order, judge captures, Python, SQL and redirections, join | two different joins; nested captures; the first match decides what else is judged | nothing is approved that was not judged; deny wins; longer is never laxer |
| Redirections (`shell_redirection.py`) | – | verdict per redirection | settings, defaults and paths lent by rules | part of the above |
| SQL (`sql/`) and Python (`pythoncode.py`) analysis | – | effects of a text | parsing; patterns take the place of the call policy | part of the above |
| Shell parser (`shell.py`, `shell_words.py`) | – | from syntax trees to segments | substitutions anywhere, redirections around lists, wrappers within wrappers, options with values | every command and file of a line is in a segment or behind a wrapper that is asked about |
| Pattern language (`shellpattern.py`, `shell_tokens.py`) | – | parse a pattern; match an argument vector | clusters, attached values, `--`, gaps, options nobody declared | a match is what the documents say; an option cannot hide a denied command |
| Policy edits (`policy_edit.py`) | the text of a policy file | parse with comments and trailing commas; add, replace, remove a value | commas and comments, keys given twice | an edit changes what it names and nothing else |
| Policy writers (`cli.py` import, init, edit) | one policy file | read, merge, save; write a default | no comparison before saving | a save keeps every rule it read and can be read again |
| Hook installation (`cli.py`, `adapters/base.py`, `kiro.py`, `codex.py`, `opencode.py`) | hook files of five agents, in two places each | install, uninstall, in three modes | other tools' hooks in the same lists, passthroughs, failures half way | one entry per event; uninstall undoes install; foreign hooks survive |
| macOS review screen (`AppModel.swift`, `PolicyApplier.swift`) | phase, inputs, proposal, plan, undo id, running Tasks | analyse, revise, choose, apply, undo, discard, open a URL | Tasks yield at every await; answers come late and out of order; cancellation is not recall | a proposal answers the inputs shown; no spinner stays |
| Validation, explanations, listing | – | read-only reports | – | – |

How they interact. The hook process *reads* the policy files that the plan API, the command
line and editors *write*; nothing locks them. The hook reads the flag files the plugin
creates and removes. The app calls the API in processes of its own, and Codex in another.
Inside the hook, discovery gives layers; evaluation merges them (shell, MCP) or decides layer by
layer (file tools); for a shell line evaluation calls the parser, the pattern matcher, the
Python and SQL analyses and the redirections, and calls itself for what a rule captures.

## The modules

| Module | Models | Notes |
|---|---|---|
| `PolicyPlans` | `policy_api.py` | the plan protocol, many processes |
| `PolicyStore` | – | abstract: files change by whole reviewed plans |
| `PolicyPlansStore` | – | the refinement mapping from the first to the second |
| `PolicyPlansProofs` | – | theorems `Typing` and `Recovery`; `Reviewed`, `Dropped`, `Whole` and `Torn` on the files of a plan; `SoleUndisturbed` and `SoleImplements` on the refinement |
| `HookCheck` | `cmd_check`, adapters, passthrough | one tool call from payload to answer |
| `PaneBypass` | `main.rs`, composed with `HookCheck` | takes the place of the free flag changes of `HookCheck` |
| `HookProofs` | – | theorems `HookTyping`, `Approval`, `Denial`, `Visible`, `Downstream` and `Bypass` on hooks; `PaneTyping` and `Cleanup` on the plugin, and what follows for hooks under it |
| `Verdicts` | rule lists, merge and joins of `domain/evaluation.py` | used by the next two |
| `PolicyLayers` | `policy.py`, `scoped_policy.py` | loading and combining documents |
| `DataFacts` | – | lemmas on sequences, folds, rule lists and joins, for the proofs about layers, verdicts, installation and patterns |
| `PolicyLayersProofs` | – | theorems `IncludesApplied`, `CyclesFound`, `NearestDecides`, `MergedDecides` and `TargetsApproved` |
| `ShellDecision` | `_decide_shell` and everything it calls | the verdict of a command line |
| `ShellDecisionProofs` | – | theorems `ApprovedByParts`, `DeniedByParts`, `LongerIsStricter` and `DenyLayerIsStricter` |
| `ShellParser` | `shell.py` | from the tree of a line to its segments |
| `ShellPattern` | `shellpattern.py`, `shell_tokens.py` | parsing a pattern, reading and matching a command |
| `ShellPatternProofs` | – | theorems `PathsAsRead`, `DenyReadsMore` and `NothingHidesADeny` |
| `PolicyText` | `policy_edit.py`, loading and saving in `policy.py` | a policy file as tokens; pure operators |
| `PolicyWriters` | API plans, `import`, `init`, `edit`, editors on one file | uses `PolicyText` |
| `HookInstall` | `_cmd_install`, `_cmd_uninstall`, adapters | one command at a time, file by file |
| `HookInstallProofs` | – | theorems `AgentsGuarded`, `StableAgain`, `BackToBase` and `OthersAreKept` |
| `AppReview` | `AppModel.swift`, `PolicyApplier.swift` | the review screen |
| `AppReviewProofs` | – | theorem `ReviewedProposal` |
| `MC…` | – | values for the constants, symmetry |

**PolicyPlans.** `text` is the policy files, `docs` the plan directory, `now` the clock.
`pc[p]` is where process `p` stands in its function and `job[p]` its local variables; one step
is one file read, one `atomic_write` or one document written or deleted, because
`os.replace` makes exactly one replacement atomic. `PlanRead` to `PlanPersist` are
`create_policy_plan`; `Begin`, `Check`, `PersistUndo`, `Write`, `Validate`, `Applied` the normal path
of `apply_policy_plan`; `Restore` and `RolledBack` its handler; `Begin`, `Check`, `Restore`,
`Undone` the undo, which has no rollback of its own (`RestoreFail` ends it as "partial").
`PersistFail`, `WriteFail`, `ValidateFail`, `RestoreFail` and the suppressed failure in `Deleted` are the
writes that fail; `Crash` kills a process at any step; `Edit` is any other writer;
`Tick` lets documents expire. The edits of a plan are abstracted to the new text of each file.
`log`, `known` and `left` are history and bounds. `log` remembers what every id was written
with, `known` which ids a client has been told.

**PolicyStore** has the promise: `Apply` and `Undo` change all files of a plan at once, from
exactly the recorded texts; `Tear` is the one exception the code admits, a call cut short.
`PolicyPlansStore` shows that one process at a time implements it: until a call returns its
caller sees the state it began with.

**HookCheck.** `Read`, `Decide`, `Probe`, `RunPassthrough`/`NoPassthrough`, `Answer` are the stages of `cmd_check` in
order; `Begin`, `Finish`, `FireAgain` are the agent (external, from what the adapters say of
each). The policy's verdict is a free choice at `Decide` and so covers any policy change; `FlagsBecome`
changes the flag files between any two steps. `HookDies` is a hook that crashes or is killed at the timeout it was installed with: the answer is `Lost` and the
agent goes on without it, as `bridgeDecision` does with any status but 0. `AgentDies` ends the whole call.
`steady` and `ever` remember whether the flag was honoured throughout or at some instant.

**PaneBypass** replaces the free changes of the flags by what the plugin does: each instance has
its state and an `inbox` of layouts it has not handled yet; `Pipe` reads the directory and `Toggle` acts on what
it read, so two instances interleave. `bypass_on` and the indicator are left out: they change
no file. `swept` remembers that a layout has been handled by an instance with the permission since the session began: before that nothing looks at what an
earlier session of the name has left, afterwards the properties are about every flag, of whatever session. The composition takes no step that `HookCheck`
does not allow, so what is proved of hooks holds under the plugin.

**PolicyLayers.** `VisitDirectory` is one directory of `_policy_paths`, the rest is the recursive `visit` of
`_load_policy_sources` with its stack written out (`VisitInclude`, `SkipLoaded`, `RefuseCycle`,
`LeaveDocument`). What a document holds is chosen when it is first read, which gives every
include graph. The stack is a variable and the folds come from the community modules,
so the module has no recursion.

**ShellDecision.** The policy grows by `MergeLayer`, the line by `AddCommand`, `AddRedirect` and `Unparseable`;
`Verdict` is what the code would answer in each state. Which rules match which command and what
they capture is data (a rule has the sets `firm` and `wide` of commands it matches in an Allow rule and
elsewhere, and its captures); the order of rules, the joins, the recursion into captures, the
Python and SQL verdicts, redirections and the fallbacks are the code's. Captures hold later
commands only, as a captured text is a proper part of its command. `DecideCommand` is the body of `_match_bash`, given
the verdicts of what the command captures; `MatchBash` closes the recursion.

**ShellParser.** The trees are those of the Tree-sitter library as `shell.py` reads them: `type` stands for a class of
node types handled alike (`control` for programs, lists, pipelines, conditionals, functions and groups). A line grows from a
command by `Prefix` (`env X=1 …`), `Wrap` (`bash -c '…'`, `eval '…'`), `Substitute`, `Group` and `RedirectLine`, and
`ParsePipeline` gives its segments. `Effects` is the reference: what the line runs and writes, found with sets and
without the order, the unwrapping and the failures of the parser.

**ShellPattern.** Parsing is a state machine with one action per kind of term (`ReadGap` … `ReadWords`, `Refuse`,
`Finish`); afterwards `Extend` grows the command and `Match` and `Details` are evaluated in each state. An argument is a
sequence of letters, so clusters, attached values and prefixes are really cut. `Split` is `split_and_normalize`, a fold that takes one
argument at a time; `MatchPath` is the recursion over gaps and ambiguous operands. The references (`Seen`, the
readings in `PathReadings`) read a command word by word, as a person would.

**PolicyText** and **PolicyWriters.** A text is a sequence of tokens in which line ends and comments count. `ParseDocument` is the
parser of `policy_edit.py`, `AddRule`, `ReplaceRule` and `RemoveRule` its splices, `Decoded` what the loader sees, `Save` what
`save_policy` writes. `PolicyWriters` interleaves `Plan`/`Apply`, `Read`/`SaveMerged` (import and init take two steps), the
defaults written into a missing file, and `HandEdit`, which may insert a comment or a comma anywhere.

**HookInstall.** `hooks` is every list of every file, `job` the command that runs with the files it has still to rewrite. `RewriteList`
reads, merges and replaces one file, as the adapters do; `AdapterFails` skips the rest of one adapter, `Kill` all. A composed command that is moved is taken apart by `shlex.split` and put together by
`shlex.join`: `Quoted` gives what that makes of it, any idempotent function of commands. Other tools
and users act between commands (`AddGroup`, `JoinGroup`, `Compose`, `AddBridge`). Emptied containers that the code deletes equal absent ones.

**AppReview.** Synchronous parts of the main actor are atomic, each await is a boundary.
A Task is `at` the await it stands at. Cancelling only marks a Task; `PlanArrives` ignores the
mark as the code does. In the "applying" screen an overlay takes the clicks but the shortcut
of Apply stays live, so only `Apply` is enabled there. `selected` is the selection of repositories, which `Revise` widens by those the feedback mentions
(`IncludeMentioned`) without a new `revision`; `widened` remembers the round that last did.

## The runs

| Run | Expect | Question | Bounds |
|---|---|---|---|
| `PlansSole` | pass | Is a plan applied or undone whole and only over the reviewed texts, with recovery data at every instant, whatever fails? Does every call return? | 1 process, 2 files, 2 valid texts, 3 ids, TTL 0, 2 instants, 2 failures, 1 kill |
| `PlansShared` | pass | Does the undo document of one process survive the purges, applies and undos of another and outside writers? | 2 processes, 1 valid and 1 invalid text, 3 ids, 1 failure, kill and edit each |
| `PlansUndoIdentity` | violation | Can the client use the undo identity it was given? | 1 process, 2 failures |
| `HookVerdicts` | pass | Every agent, wiring and payload shape, with flag and policy changing between steps | 1 call, 1 pane |
| `BypassPanes` | pass | Are flags of closed panes removed, in later sessions of the name too? | 2 instances, 1 pane, 1 layout behind, 2 sessions, 1 Codex call |
| `LayersWalk` | pass | Does a walk give what the include graph says, both ways, for every graph? | 3 documents, 3 directories, 2 walks, 2 rules |
| `ShellVerdicts` | pass | Is a line approved if and only if every command it leads to is, denied only for a cause, never laxer when longer or under a layer that denies? | 10 commands, 16 layers, 2 merged, 2 commands and 1 redirection per line |
| `ShellSegments` | pass | Is every command, file and word of a line in a segment, and is no argument judged as a command? | 5 nodes, 3 constructs around them |
| `ShellPatterns` | pass | Is a match what a reader of the command sees, and can nothing be hidden from a denying pattern? | 17 patterns, commands of 4 arguments |
| `PolicyWriters` | pass | Does an edit do exactly what it says, and does every save keep what was read and stay readable? | 5 documents, 22 edits, 1 hand edit, 2 writers |
| `InstallRounds` | pass | After any installs and uninstalls, are agents asked once, are other tools' hooks kept, is everything taken back? | 3 commands, 1 failure or kill, 1 edit, 2 foreign commands (one is what quoting makes of the other) |
| `AppReview` | pass | Is the proposal the one for the inputs on screen, and does every spinner end? | 1 rule, 1 repository, 3 Tasks, 2 rounds with Codex, 1 change of inputs |

Why these bounds. Two files are the fewest for which a plan can be half applied, two failures
the fewest for a rollback that fails; three ids allow a plan, its undo and one more, so a plan whose deletion failed
can be presented again next to a new one. With TTL 0 every document can expire at the only tick, between any two
steps. A call that may store a document starts only if an id is left for it (`Room`), so
the bound on ids never blocks a call half way. Two instances of the plugin are enough for one to miss what the other
did; one pane suffices because a file is tested by its own id only. Three documents have every include shape the loader
tells apart (chain, diamond with its root, cycle of two and three, document shared by two roots),
three directories a home, an outer and a nearer layer. In `ShellVerdicts` the ten commands are one for
each branch of `_match_bash` and the layers one for each kind of rule, setting and path; two merged layers let
every kind stand outside and inside of every other. Three Tasks let an old answer, a new one and an apply way at once. In `ShellSegments` three constructs put a redirection into a program text
into a substitution; the nodes are a command, one behind an opaque wrapper, a lookup, a declaration and a syntax
error. The patterns of `ShellPatterns` have each kind of term at least once, the arguments those that
matter to them; with four arguments an option, its value, a gap and an operand meet. `Strangers`, the options put into a
command, are a letter, a cluster and a long name that no pattern knows, and the word after them is any argument without a dash. One hand edit in `PolicyWriters` is enough to put a comment, line
end or comma next to every token an edit looks at. Three commands in `InstallRounds` are install, install in another
mode, uninstall. Symmetry is used where only invariants and action properties are checked (`PlansShared`: processes;
`LayersWalk`: documents).

`CHECK_DEADLOCK FALSE` is set everywhere: every model may come to rest, when its bounds are used
up or when nobody asks for anything.

What the passing runs show, by property:

- `RecoveryBeforeChange`: whoever dies while files are being changed, the undo document is there
  or its time is over. `AllOrNothing`, `TornIsPrefix`: a failing call leaves the old texts,
  and a call cut short a prefix of the plan. `ReplacesReviewedText`: what is overwritten is what was recorded.
  `DropsOnlyWhenRestored`: a valid undo document goes only when nothing is left to restore.
  `ImplementsStore`: all this together, as a refinement.
- `DeniedNeverRuns`, `ApprovalJustified`, `BypassApproves`, `BrokenPolicyVisible`, `DownstreamOnlyUnresolved`: the
  path of a verdict through coercions, two hooks, a downstream hook and the adapter to what the agent does. They name the ways around: a denied call runs where
  Claude decides itself or the hook died; a call with a broken policy runs where a downstream hook answered, the hook died, or
  Codex or OpenCode had no prompt of their own for it and so fired only the hook before the tool, which acts on a denial.
- `CleanupPending`, `StaleFlagsGo`: once a session cleans up, a flag of a closed pane is always about to be removed and is.
- `NearestWins`, `MergedAsLayered`, `IncludesFirst`, `RefusedForCause`, `AllTargetsApproved`: loading gives
  the meaning of the include graph, both ways of deciding agree down to the rule cited.
- `ApprovedWhole`, `DeniedForCause`: verdicts of lines against a definition over the set of all
  commands a line leads to, which does not use the joins. `LongerNeverLaxer`, `DenyLayerTightens`: monotonicity.
- `NothingLost`, `NothingInvented`: the segments are the commands and files of the line, or an opaque wrapper stands for them.
- `PathReadings`: a path matches if and only if some reading of the command (every undeclared option with or without the next
  word as its value, for denying rules) lays it on the operands. `DenyNotHidden`: an option unknown to the
  pattern and a word, put anywhere before `--` except right behind another option, do not keep a denying rule from applying (pattern, constraints and captures), unless
  they make the operand it captures as SQL a dynamic one. `OptionsHold`: constraints on options hold of the options as they stand.
- `EditsAreExact`, `SaveOnlyAdds`, `WrittenInOrder`: edits against lists of values, token by token; merges keep and add;
  no program leaves a file another must refuse.
- `GuardedUnlessFailed`, `InstallIsStable`, `RoundTrip`, `OthersKept`: one entry per event unless reported, a second
  install changes nothing, uninstalling gives back the lists of before, foreign hooks stay in place and order, composed ones as written or as their quoted words.
  (One entry per event is counted per file this install handles: after a direct and then a rulesync install both places have one.)
- `ProposalOfInputs`, `SpinnerEnds`: late and lost answers do no harm to the screen; the proposal shown was asked for under the revision shown, and about
  the repositories shown or, after feedback that added some and got no answer yet or none, about fewer.

## Fairness

- `PolicyPlans!FairSpec`: weak fairness of `Run(p)`, the steps of a process that has been started. The
  operating system schedules it, and no step waits for another process as there is no lock. Nobody has to make requests.
- `PaneBypass!FairPaneSpec`: strong fairness of `PaneUpdate(i)` and weak of `Toggle(i)`. zellij hands an instance events in turn,
  and an instance in the middle of a handler finishes it. Strong, as toggles may come between again and again and disable the
  update for a moment, while the layout waits at its place in the queue.
- `AppReview!FairSpec`: weak fairness of `Step(t)`. Every external call has a timeout (30 s for
  agentperm, 300 s for Codex in `AgentpermAPI.swift` and `CodexService.swift`), so a Task always gets an answer or a failure.

## The proofs

`PolicyPlansProofs` proves, for every number of processes, files, texts, ids and every bound:

- `Typing`: `Spec => []TypeOK`. `TypeOK` is not inductive, as the loops index the items of a plan:
  `TypeInv` adds `LoopOK` (where the counter of each loop may stand at each place of the program) and
  `DocsOK` (what is in the directory is what its id was written with, and is not empty).
- `Recovery`: `Spec => []RecoveryBeforeChange`. The inductive invariant `RecInv` adds `HoldInv`: an apply
  that is changing files *holds* an undo document whose id nobody has been told (`HoldAt`), a call
  works on an id that was told (`CallAt`), two processes hold different documents
  (`Apart`), and every told id was written (`KnownWritten`). That is the point of the argument: no other process can consume an undo
  document before its apply returns, as nobody knows its id, and purges take only expired ones. `QuietStep` and `DirectoryStep`
  carry this over all steps that leave or change the directory; `NextRecInv` has one step per action.

The second part of `PolicyPlansProofs` proves what a plan does to its files. `PlansShared` states none of it, and `ReplacesReviewedText` does not hold there: the
comparison and the writes are not atomic, so another writer may come between. Each theorem says what it needs of the others.
`OthersWait` is that nobody else changes a file of a plan in a step taken while its call is under way, `OthersStay` that nobody
does until the process starts its next call; both speak of the files of *that* plan only and allow any number
of processes, on other files or at other times.

- `Reviewed`: `Spec /\ [][OthersWait]_vars => []ReplacesReviewedText`, and `Dropped`, likewise, of `DropsOnlyWhenRestored`. `PlansInv` adds to `RecInv`
  that a plan names each file once; `FilesAt` says, at every place of a call, which of its files hold the new text and which
  the old one, by the counter of the loop. Without the distinct files one write could undo what an earlier check found.
- `Whole` and `Torn`: `AllOrNothing` and `TornIsPrefix` under `[][OthersStay]_vars`. `EndedAt` carries over what `FilesAt` says to the
  result of a call that has ended: what it reports is what the files hold, or the prefix at which it was cut short.
- `SoleUndisturbed`: one process and no edit (`SoleWriter`) imply both conditions.
- `SoleImplements`: `Spec => ImplementsStore` for a sole writer, however many files, texts, ids, failures and kills. The mapping shows
  the old texts until a call returns. So `EarlyStep`, `CheckStep`, `ChangeStep` and `PersistStep` are stutters, by `FilesAt`; `EndStep` is the
  one step in which `Apply`, `Undo`, a return without effect or `Tear` happens, and the plans a client may name grow as in the store.

`HookProofs` proves, for every set of calls, hooks and panes, with the flags and the verdict of
the policy changing freely between any two steps:

- `HookTyping`: `Spec => []TypeOK` (proved for every instance, so no run repeats it), with `TypeInv` adding that a hook that is about to look at the flag
  carries a decision.
- `Approval`: `Spec => []ApprovalJustified`. `ApprovalAt` says at every place of the hook that an approving
  verdict or answer has its `Reason`, and that a flag honoured now counts as honoured at some instant. It is needed because the
  reason (an Allow, or a flag seen by `Probe`) and the answer are several steps apart and the flag may be gone in between.
- `Denial`: `Spec => []DeniedNeverRuns`. `DeniedAt` carries a denial from `Decide` through both coercions and past
  the downstream hook to the answer, for every agent that is `Bound` by it; if the call ran, the answer was lost.
- `Visible`: `Spec => []BrokenPolicyVisible`. `BrokenAt` carries the question a broken policy turns into past both coercions (neither
  touches it) and the downstream hook to the answer of every agent, and from there to what the agent does.
- `Downstream`: `Spec => []DownstreamOnlyUnresolved`. `DownstreamAt` says that a flag seen throughout is honoured now, that a verdict
  the policy reached is still in hand unless the call is in Claude's own bypass mode, and so that the downstream hook is only asked
  when nothing was decided.
- `Bypass`: `Spec => []BypassApproves`, on top of the last one. `OpenAt` follows a call that the policy left open and whose flag was on
  all the time: the probe must find the flag, so an approval is in hand and never the downstream hook, and each adapter writes it wherever its agent would prompt.

It proves of the plugin, for every number of panes, instances, sessions and layouts behind:

- `PaneTyping`. `ApprovalUnderPlugin` and `DenialUnderPlugin` are the theorems above for the composition, each of whose steps is one of
  `HookCheck` or leaves its variables alone (lemma `PaneImplements`).
- `Cleanup`: `PaneSpec => []CleanupPending`. `CleanInv` adds, per instance (`LagAt`), that its last unhandled layout is the session's
  state, and that it has still to hear of the end of a pane it believes focused (`Missing`). That is why an instance that switches the
  flag of a closed pane on, acting on what it believes, is itself bound to remove it.

`PolicyLayersProofs` proves `IncludesApplied`: `Spec => []IncludesFirst` for every include graph, document content and bound.
`LoadInv` says of each document on the stack (`FrameAt`) that it is there once, is not loaded yet, and that what it includes
is loaded, still to visit or the next one on the stack: when nothing is left to visit, everything it includes is loaded.
On top of it, `CyclesFound`: `Spec => []RefusedForCause`, that cycle detection is right in both directions. `ChainedAt` says that
a document on the stack leads to all above it, so an include found on the stack closes a real cycle; `Settled`, that a root that was left is in a set of documents
closed under includes, all readable and on no cycle (`OrderedSound`: each includes only earlier ones), and reading more documents does not change that (`SettledStays`).
No induction over the include graph is needed: what a document reaches is the least closed set, so one closed set without the document suffices.
Three more theorems are about the verdict, for every number of directories, documents and rules:

- `NearestDecides`, `MergedDecides`, `TargetsApproved`: `NearestWins`, `MergedAsLayered` and `AllTargetsApproved`. Two inductive facts meet in `DecideInv`. `Alike` relates
  the merged policy to the layers it was merged from: the first rule that matches is the same in both, in the list of denials and in the rest,
  although merging drops doubles and puts the nearer layer first. It is kept by `MergedWith` (`AlikeMerged`). `Told` says that each layer speaks exactly as the documents
  its root reaches, which needs that an include graph was walked completely; `Expectations` is then the verdict by what each root says, and
  is shown to grow with each directory as the layered loop does (`SpeaksNext`, `ExpectedIs`).

`DataFacts` has the lemmas on data: what `Unique`, `FlattenSeq`, `Reverse`, `Tagged`, `FirstOf`, `MergedWith`, `Aggregate` and `Strictest` give for every argument. The theorems of
the library on induction take an operator, which no installed prover can instantiate. `Inductive` takes a set instead: a set of naturals with 0 and the
successor of each member holds all of them (from the theorems on finite sets). With it, `Recursion` gives the existence of a function defined step by step,
and `Agree` that there is one only; so the folds of the community modules, which are `CHOOSE`s, can be unfolded.

`ShellDecisionProofs` proves the four verdict properties for every set of commands, rules, captures, redirections, Python and SQL:

- `ApprovedByParts` and `DeniedByParts`: a line is allowed, or denied, exactly for what is said of the segments it leads to. `WellFormed` (`AlwaysWellFormed`, inductive) types the merged policy and the line.
  Captures hold later commands only, so what holds of a command when it holds of all later ones holds of all (`LaterFirst`); by that
  induction the recursive verdict exists and is the only solution of `_match_bash`'s equation (`VerdictsExist`, `MatchBashIs`). `SegmentDenies` and `SegmentAllows` say when one
  segment denies and allows, by its own opinions and its parts; `Reached` is the least set closed under parts (`ReachedIs`, `ReachedLeast`), which
  brings a verdict down to a segment that causes it, and back up.
- `LongerIsStricter`: `NeverLaxer` as an order that `Aggregate` and `Strictest` respect (`AggregateTighter`, `AggregateMore`, `PairTighter`).
- `DenyLayerIsStricter`: with a layer that only denies, the first rule of any kind is the same one or a Deny rule (`DenyLayerFirst`, `Firmer`), and
  when it is the same one the captures are the same. What is left is the analysis of Python, which such a layer may start: where it
  takes the place of a fallback or of no opinion, it must not be laxer than that.

`HookInstallProofs` proves the four properties of `HookInstall`, for any tools, hooks found, edits, commands, failures and kills:

- On lists: what stripping, merging and restoring make of a list of groups is a list made element by element (`Chained`), so facts on one hook or group
  carry over by induction on sequences (`SeqInduction`). A stripped list is `Clean`; a clean list is left alone (`CleanStripped`); a merged one has one
  bridge, at its end, that passes on what the list passed on (`MergeIs`, `PassthroughAdded`). `InstalledList` and `UninstalledList` say what the adapters make
  of one list, `InstalledIs` and `UninstalledIs` that this is what they do to a file.
- `StableAgain`: `Spec => []InstallIsStable`, by `InstalledTwice`, since `Inv` says of every file handled that installing makes the same of it (`InstallHolds`).
- `AgentsGuarded`: `Spec => []GuardedUnlessFailed`. `InstallHolds` says besides that a file an adapter needs (`Needs`) is handled or still to come as long as the
  adapter has not failed, which a failure of *another* adapter must not change (`FailsInv`); what a file has been made of has one bridge per event.
- `BackToBase`: `Spec => []RoundTrip`. `BaseHolds` says that since the lists were without agentperm every list is as it was, or that with agentperm's entry added
  (`Round`). Installs keep this whatever file they stop at, and uninstalling either gives the list of before (`RoundKept`).
- `OthersAreKept`: `Spec => OthersKept`. `Embedded` holds of lists made of lists when it holds element by element (`EmbeddedChains`), so it comes down to one hook in
  one group (`LeftStands`); the commands composed with a bridge are followed through restoring and merging, each with its quoted words (`Kin`, `RestoredCommands`, `MergedCommands`,
  `InstalledCommands`, `UninstalledCommands`). That quoting is idempotent is what makes a second install change nothing.

`ShellPatternProofs` proves `PathsAsRead`, `Spec => []PathReadings`, for every set of patterns, programs and arguments and commands of any length, `DenyReadsMore`, that
a rule that denies matches whatever it would match as one that allows, and `NothingHidesADeny`, `Spec => []DenyNotHidden`:

- `MatchPath` is a recursion that goes on in the path, in the operands or in both. `CountsExist` builds its solution row by row, and any two agree, so the `CHOOSE` behind a
  recursive function can be unfolded (`CountsAre`).
- `Walked` is an alignment in the operands that counts those passed over: each operand between two terms is one that may be gone. `CountedWalked` says that what is counted
  are the ends of such walks, in both directions; `WalkedAligned` and `AlignedWalked` carry a walk to an alignment of the operands that are left and back,
  by `Ranks`, which says where each operand stands among those (`RankFacts`).
- `SplitBuilt` and `SplitOperands`: the program is never an option's value, whatever the command. Two facts come from the parser (`Inv`): nothing stands after `<EXEC>`
  in a path, where the matcher stops reading, and only words of the command become operands.
- For `NothingHidesADeny` a command and the longer one are read side by side. Up to the option the two folds agree (`ReadAlong`); there the longer one
  sees the option's letters and takes the word for an operand that may be gone (`BothBegin`), and each argument after that keeps the two `Alongside` (`BothTake`).
  So a walk of the shorter command is one of the longer in which the word is gone (`WalkedPast`, `PathPast`), and the
  constraints hold as before, because the pattern does not know the option (`StillHolds`). `ConsumedMore` and `StillApplies` add the captures: a longer command has
  an operand to capture wherever the shorter one has, and the rule applies unless that is a dynamic one.

`AppReviewProofs` proves `ReviewedProposal`: `Spec => []ProposalOfInputs`. `ReviewInv` adds that a Task that waits for Codex carries
the revision it was started for (`TaskAt`), so that the comparison when the answer comes is with the inputs of that moment; `Answers`
says of what a Task waits for, and of the proposal, that it is about the selected repositories or, before the round `widened`, about some of them. One lemma
per way the Tasks change, and one step per action.

Assumptions used:

- `TextAssumption`, `IdAssumption`, `RequestAssumption` (a request names a file once: `create_policy_plan` refuses a second `target_id`, `policy_api.py:118`),
  `BoundAssumption`, `DocAssumption` of `PolicyPlans`; that ids are never reused is `Fresh` (`secrets.token_urlsafe(24)`). In `Typing` and `Recovery` outside writers,
  failures and kills are unrestricted; the theorems on files have the conditions above.
- `PaneAssumption` and `CallAssumption` of `HookCheck` (the calls are calls, no pane is the absence of one), `SessionAssumption` of `PaneBypass`,
  `BoundAssumption` and `NoneAssumption` of `AppReview`, `NoneAssumption`, `MatchingAssumption`, `ContentsAssumption` and `BoundAssumption` of `PolicyLayers` (what documents hold is well typed).
- `StrangerAssumption` of `ShellPattern`: the options put in are options, not `--` and without a `=`.
- `CommandAssumption`, `LayerAssumption`, `RedirectAssumption`, `CaptureAssumption` of `ShellDecision`. The commands are finitely many and what a rule captures of a command is later: a captured
  text is a proper part of its command's text, so captures come to an end, as the recursion in the code must. A captured program text that cannot be parsed has no segments (`parse_pipeline`).
  `LayerAssumption` gives layers their types.
- `NoneAssumption` of `ShellPattern`: no argument is the absence of one.
- `ToolsAssumption`, `QuotedAssumption` and `ArrangedAssumption` of `HookInstall`: a tool's command is not agentperm's; words that are quoted already are quoted to themselves; what is found in a file is a list of groups that hold hooks.

TLC evaluates each of them on the instances of the runs.

Only model-checked: `CallsReturn`, `StaleFlagsGo` and `SpinnerEnds` are liveness under fairness, out of the prover's reach.
`PolicyText`, `PolicyWriters` and `ShellParser` are written with recursive operators, for which the prover has no SMT backend, so `EditsAreExact`, `SaveOnlyAdds`, `WrittenInOrder`,
`NothingLost` and `NothingInvented` stay with TLC. So does `OptionsHold` of
`ShellPattern`: it compares letters and clusters of arguments, for which the instance has small words and the theorem would need
a theory of spellings (what a letter, a name and a value may be).

## Where code and documents disagree

Checked by a run:

- **Undo after a double failure** (`PlansUndoIdentity`): when a write and the rollback fail, the error names a recovery plan, but
  `policy.undo` compares *every* file with its new text first and refuses, as some were never written.

Found while modelling, most with a counterexample of TLC; no run repeats them:

- **Deny under bypassPermissions**: the first coercion (`cli.py:481`) turns *deny* into no opinion, the second turns that into *allow* when
  the pane's flag is on; `docs/cli.md:287` says deny rules still bite.
- **Flags outlive sessions**: nothing removes them when a session ends (`main.rs:139` looks only at panes of the layout), so a
  pane of the next session of that name can open with bypass on; compare `zellij-plugin/README.md:53-54`.
- **A nearer rule can hide a denied command**: the first matching Shell rule decides what is captured (`evaluation.py:221`); a project's
  `Shell(wrapper)` hides what the global `Shell(wrapper <EXEC>)` would have found and denied; compare `README.md:144-145`.
- **The plan behind Apply**: a late or failed plan request leaves the plan of another proposal (`AppModel.swift:433`, `ContentView.swift:516`).
- **What a capture gets**: `shellpattern.py:606-607` says a gap before a capture takes the smallest prefix that lets the rest match; line 612
  makes it take the largest. `Shell(bash ... <SHELL>)` on `bash a b` matches with `a` and hands over `b`. The command is also read
  again for the captures without keeping `--` (line 601), so in patterns with `--` they shift by one, and `<EXEC>`
  takes raw arguments (line 614) where `docs/pattern-dsl.md` speaks of normalized operands.
- **A broken policy that is not seen**: `docs/cli.md:250-251` says it is visible instead of silently bypassed. OpenCode's `tool.execute.before` acts on *deny* alone
  (`opencode.py:71-73`) and so does Codex's PreToolUse answer (`codex.py:104-108`), so a call for which these agents have no prompt of their own runs with *ask*
  in hand. `BrokenPolicyVisible` names this exception.
- **A denying rule that captures SQL**: `docs/pattern-dsl.md:417-418` says an option value cannot hide a dangerous path from a denying rule. It can when the rule has `<SQL>`: with
  an option of unknown arity the value becomes what is captured, and if that is dynamic (`$x`) the rule does not apply at all (`shellpattern.py:620`, used at
  `evaluation.py:197`). `DenyNotHidden` names this exception.
- **Composed commands are quoted**: `_without_bridge` says it restores the hook that was passed through (`base.py:182`); the command goes through `shlex.split` and
  `shlex.join` (lines 190, 199, 222), so after a second install or an uninstall `~`, `$VAR`, a redirection or `||` in it is a literal word and the command may not run.
- **Kiro's standalone file**: `docs/cli.md:45` says other content is preserved untouched; install replaces the whole file (`kiro.py:115-133`).

Other behaviour a reader may not expect: a hook that crashes or is killed lets the call go on as if it had said nothing, a denied call too (`opencode.py:52`).
Feedback that mentions a repository selects it without a new revision of the inputs (`AppModel.swift:250`, `468-476`): when the revision fails, the old proposal stands beside
the wider selection, and the next plan of its rules is made for that selection (`AppModel.swift:427-431`). What is edited in the workflows of the settings takes effect before
Save, without `inputDidChange` (`AppModel.swift:399-413`). Two instances of the plugin that act on one toggle may undo each other. `_assert_current` and the writes after it are not atomic, so two
processes, or one and an editor, can overwrite a text nobody reviewed (`ReplacesReviewedText` fails as soon as `PlansSole` is given a second
process or an edit); `import` and `init` can lose a plan applied between their reading and their saving; a merge drops comments, entries that do not parse and unknown
keys under `permissions`; a fresh `init` removes doubles across the lists, a merge does not. An addition that makes a line unparseable turns *deny* into *ask* (`LongerNeverLaxer` is about lines that
parse); settings of redirections and allowed paths of a nearer layer override a *deny* setting, as the policy reference documents;
a `pythonCalls.deny` entry is not consulted where a Python SQL pattern has the call. Of several passthroughs in a list install keeps the first; Kiro keeps none;
uninstall run in another directory leaves the workspace agents of the first; OpenCode's plugin is overwritten by install even when
uninstall would not recognise it; the feature flag of Codex stays.
Words behind a redirection join the last segment also when that came from `env bash -c '…'`, whose parameters they are; a word behind
a process substitution that is redirected from counts as the file; an assignment behind `env --` counts as the command. The lines of `ShellSegments` avoid the last two.

## What is not modelled

- Characters. Command lines, patterns and policy texts are trees or sequences of letters and tokens; how words are scanned, quoted,
  escaped and unescaped, and stars in the middle of a word, are left out. Which rule matches which command
  is data of `ShellDecision` and `PolicyLayers`, though `ShellPattern` has the matching itself. Path anchors of rules are left out.
- What a segment is given as its input: literals piped by `echo` and `printf`, heredoc texts (`stdin_source`). The Python and SQL syntax walks
  (`pythoncode.py`, `sql/parser.py`, `sql/python_capture.py`) are pure functions over syntax trees of libraries.
- In `PolicyWriters`: `python.calls` and the version number; `shell.redirection` is one setting; unknown keys hold scalars; strings are one token;
  indentation. In `HookInstall`: timeouts, status messages, `--dry-run`, two commands at a time (a file's read, merge and replacement is one step).
- SQL profiles of patterns, MCP patterns, rule descriptions, explanations and listing: they change nothing and are judged nowhere else.
- Documents that change during a walk: `PolicyLayers` reads stable documents. `PolicyPlans` and `PolicyLayers` are not composed.
- Edits of workflows in the settings that are not saved. The app's repository discovery, target choice on screen, Explain view, settings store and demo mode.
- What verification after an apply checks: a free outcome (`Verified`, `VerifyFails`).
- Read-only operations (explain, sources, validate, list): they change nothing.

## Plan

1. The composition of `PolicyPlans` with the reads of a hook (`PolicyLayers`): which mixtures of old and new documents a hook can decide by.
2. The inputs of segments (pipes of literals, heredocs) in `ShellParser`, and `ShellDecision` over its segments.

To check: `tlc -config PlansSole.cfg MCPolicyPlans` and so on, a run's module being named in `PROJECT.json`; `tlapm PolicyPlansProofs.tla` and the other modules named `…Proofs`.
