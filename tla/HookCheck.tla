----------------------------- MODULE HookCheck -----------------------------
(***************************************************************************)
(* One tool call of a coding agent and the agentperm hooks it fires:       *)
(* cmd_check of src/agentperm/cli.py, the adapters' parse_event and        *)
(* write_verdict, and run_passthrough.                                     *)
(*                                                                         *)
(* Every hook is a process of its own: it reads the payload, asks the      *)
(* policy, looks at the pane's bypass flag, may run a downstream hook, and *)
(* answers.  The policy and the flag may change between any two of these   *)
(* steps and between the two hooks of one call.  What the agent does with  *)
(* an answer is not in this repository: it is modelled from the adapters   *)
(* and marked external.                                                    *)
(***************************************************************************)
EXTENDS Integers, FiniteSets

CONSTANTS
    Runs,     \* tool calls of agents
    Panes,    \* zellij panes
    NoPane,   \* no (usable) ZELLIJ_PANE_ID and ZELLIJ_SESSION_NAME
    Calls     \* the tool calls to look at

Agents == {"claude", "codex", "opencode", "gemini", "kiro"}
Decisions == {"allow", "ask", "deny", "no-opinion"}
Events == {"PreToolUse", "PermissionRequest", "tool.execute.before",
           "permission.ask", "BeforeTool", "preToolUse", "auto"}
Call == [agent : Agents,                   \* who runs the tool
         as : Agents \cup {"auto"},        \* --agent
         event : {"exact", "auto"},        \* --event
         named : BOOLEAN,                  \* the payload has a hook_event_name
         form : {"malformed", "object"},   \* the payload
         tool : {"none", "gemini", "kiro", "codex-mcp", "other"},  \* tool_name
         permission : {"none", "untyped", "typed"},                \* permission
         mode : {"default", "bypassPermissions"},
         pane : Panes \cup {NoPane},
         downstream : BOOLEAN]             \* --passthrough

ASSUME PaneAssumption == NoPane \notin Panes
ASSUME CallAssumption == Calls \subseteq Call

VARIABLES
    flags,    \* the panes with a flag file in the session's bypass directory
    trusted,  \* _bypass_dir_is_safe
    pc,       \* where the hook of each run is; "idle" before and after the call
    call,     \* what is called
    stage,    \* 1: the hook before the tool, 2: the one before a prompt
    said,     \* what the policy said to this hook
    verdict,  \* the verdict the hook carries
    answer,   \* what the hook wrote
    result,   \* how the call ended
    steady,   \* history: the pane's flag was honoured since the call began
    ever      \* history: it was honoured at some instant of the call

hookVars == <<pc, call, stage, said, verdict, answer, result, steady, ever>>
checkVars == <<flags, trusted, hookVars>>

Phases == {"idle", "reading", "deciding", "probing", "passing", "writing", "answered"}
Says == {"allow", "ask", "deny", "empty", "downstream", "lost"}
Outcomes == {"none", "ran", "prompted", "blocked", "killed"}
Empty == [says |-> "empty", input |-> FALSE]
Lost == [says |-> "lost", input |-> FALSE]  \* the hook ended without an answer

-----------------------------------------------------------------------------
(* The adapters. *)

\* effective_event: the option, or with "auto" the payload's event if it has one.
EffectiveEvent(c, fired) ==
    IF c.event = "exact" \/ c.named THEN fired ELSE "auto"

\* select_adapter
SelectAdapter(c, event) ==
    CASE c.as # "auto" -> c.as
      [] c.as = "auto" /\ event = "preToolUse" -> "kiro"
      [] c.as = "auto" /\ event = "BeforeTool" -> "gemini"
      [] OTHER ->
            CASE c.tool = "gemini" -> "gemini"
              [] c.tool = "kiro" -> "kiro"
              [] OTHER ->
                    IF event = "PermissionRequest" /\ c.permission # "none" THEN "codex"
                    ELSE IF event = "permission.ask" THEN "opencode"
                    ELSE "claude"

\* parse_event gives a request: the payload has the fields the adapter needs.
Parses(adapter, event, c) ==
    LET usesPermission ==
            \/ adapter = "codex" /\ event = "PermissionRequest" /\ c.permission # "none"
            \/ adapter = "opencode" /\ event # "tool.execute.before"
    IN IF usesPermission THEN c.permission = "typed" ELSE c.tool # "none"

\* mcp_bypass_input: Claude in bypass mode calls a tool of a Codex MCP server.
McpBypassInput(c) == c.mode = "bypassPermissions" /\ c.tool = "codex-mcp"

\* write_verdict of each adapter, as the decision the agent finds in it.
ClaudeSays(v, event, input) ==
    CASE event = "PreToolUse" /\ v # "no-opinion" ->
            [says |-> v, input |-> input /\ v # "deny"]
      [] event = "PreToolUse" /\ v = "no-opinion" -> [says |-> "empty", input |-> input]
      [] event = "PermissionRequest" /\ v \in {"allow", "deny"} ->
            [says |-> v, input |-> FALSE]
      [] OTHER -> Empty

\* Mutant: Codex hears of a denial only where it would prompt.
CodexSaysOnPrompt(v, event) ==
    IF event = "PermissionRequest" /\ v \in {"allow", "deny"}
    THEN [says |-> v, input |-> FALSE]
    ELSE Empty

CodexSays(v, event) ==
    IF \/ event = "PreToolUse" /\ v = "deny"
       \/ event = "PermissionRequest" /\ v \in {"allow", "deny"}
    THEN [says |-> v, input |-> FALSE]
    ELSE Empty

GeminiSays(v) ==
    IF v = "no-opinion" THEN Empty
    ELSE [says |-> IF v = "ask" THEN "deny" ELSE v, input |-> FALSE]

PlainSays(v) == IF v = "no-opinion" THEN Empty ELSE [says |-> v, input |-> FALSE]

WriteVerdict(adapter, v, event, input) ==
    CASE adapter = "claude" -> ClaudeSays(v, event, input)
      [] adapter = "codex" -> CodexSays(v, event)
      [] adapter = "gemini" -> GeminiSays(v)
      [] OTHER -> PlainSays(v)

\* coerce_for_permission_mode
CoerceForPermissionMode(v, c, adapter) ==
    IF adapter = "claude" /\ c.mode = "bypassPermissions" THEN "no-opinion" ELSE v

Honoured(p) == trusted /\ p \in flags

\* Mutants: the flag file is not looked for; "no-opinion" is left alone.
CoerceAnyPane(v, p) == IF v \in {"ask", "no-opinion"} /\ trusted THEN "allow" ELSE v
CoerceOnlyAsk(v, p) == IF v = "ask" /\ Honoured(p) THEN "allow" ELSE v

\* coerce_for_pane_bypass
CoerceForPaneBypass(v, p) ==
    IF v \in {"ask", "no-opinion"} /\ Honoured(p) THEN "allow" ELSE v

-----------------------------------------------------------------------------
(* The agent around the hooks (external). *)

Fired(agent, n) ==
    CASE agent = "claude" -> "PreToolUse"
      [] agent = "codex" -> IF n = 1 THEN "PreToolUse" ELSE "PermissionRequest"
      [] agent = "opencode" -> IF n = 1 THEN "tool.execute.before" ELSE "permission.ask"
      [] agent = "gemini" -> "BeforeTool"
      [] agent = "kiro" -> "preToolUse"

HooksPrompts(agent) == agent \in {"codex", "opencode"}

EventOf(r) == EffectiveEvent(call[r], Fired(call[r].agent, stage[r]))
AdapterOf(r) == SelectAdapter(call[r], EventOf(r))

\* How a call ends on an answer.  Codex and OpenCode take a veto before the
\* tool, and an approval only where they would prompt.  An answer that is lost is
\* no answer: the call goes on as if agentperm had nothing to say.
Settles(agent, n, says) ==
    IF says = "deny" THEN {"blocked"}
    ELSE IF says = "downstream" THEN {"ran", "prompted", "blocked"}
    ELSE IF n = 1 /\ HooksPrompts(agent) THEN {"ran"}
    ELSE CASE says = "allow" -> {"ran"}
           [] says = "ask" -> {"prompted"}
           [] OTHER -> IF n = 2 THEN {"prompted"} ELSE {"ran", "prompted"}

\* Otherwise it would prompt, and asks the second hook first.
AsksAgain(agent, n, says) ==
    n = 1 /\ HooksPrompts(agent) /\ says # "deny"

-----------------------------------------------------------------------------
NoCall == CHOOSE c \in Call : c.pane = NoPane

Init ==
    /\ flags \in SUBSET Panes
    /\ trusted \in BOOLEAN
    /\ pc = [r \in Runs |-> "idle"]
    /\ call = [r \in Runs |-> NoCall]
    /\ stage = [r \in Runs |-> 1]
    /\ said = [r \in Runs |-> "none"]
    /\ verdict = [r \in Runs |-> "none"]
    /\ answer = [r \in Runs |-> Empty]
    /\ result = [r \in Runs |-> "none"]
    /\ steady = [r \in Runs |-> FALSE]
    /\ ever = [r \in Runs |-> FALSE]

Goto(r, phase) == pc' = [pc EXCEPT ![r] = phase]

\* The agent fires the hook of stage n.
Fire(r, n) ==
    /\ Goto(r, "reading")
    /\ stage' = [stage EXCEPT ![r] = n]
    /\ said' = [said EXCEPT ![r] = "none"]
    /\ verdict' = [verdict EXCEPT ![r] = "none"]
    /\ answer' = [answer EXCEPT ![r] = Empty]
    /\ UNCHANGED <<flags, trusted>>

Begin(r) ==
    /\ pc[r] = "idle" /\ result[r] = "none"
    /\ \E c \in Calls :
        /\ call' = [call EXCEPT ![r] = c]
        /\ steady' = [steady EXCEPT ![r] = Honoured(c.pane)]
        /\ ever' = [ever EXCEPT ![r] = Honoured(c.pane)]
    /\ Fire(r, 1)
    /\ UNCHANGED result

\* cmd_check up to the request: a payload it cannot use gets no verdict.
Read(r) ==
    /\ pc[r] = "reading"
    /\ Goto(r, IF call[r].form = "object" /\ Parses(AdapterOf(r), EventOf(r), call[r])
               THEN "deciding" ELSE "passing")
    /\ UNCHANGED <<flags, trusted, call, stage, said, verdict, answer, result, steady, ever>>

\* Mutant: a policy that cannot be loaded has no opinion.
DecideLeniently(r) ==
    /\ pc[r] = "deciding"
    /\ \E d \in Decisions \cup {"error"} :
        /\ said' = [said EXCEPT ![r] = d]
        /\ verdict' = [verdict EXCEPT ![r] =
                IF d = "error" THEN "no-opinion"
                ELSE CoerceForPermissionMode(d, call[r], AdapterOf(r))]
        /\ Goto(r, IF d = "error" THEN "passing" ELSE "probing")
    /\ UNCHANGED <<flags, trusted, call, stage, answer, result, steady, ever>>

\* decide_with_discovered_policy: any decision, or a policy that cannot load.
Decide(r) ==
    /\ pc[r] = "deciding"
    /\ \E d \in Decisions \cup {"error"} :
        /\ said' = [said EXCEPT ![r] = d]
        /\ verdict' = [verdict EXCEPT ![r] =
                IF d = "error" THEN "ask"
                ELSE CoerceForPermissionMode(d, call[r], AdapterOf(r))]
        /\ Goto(r, IF d = "error" THEN "passing" ELSE "probing")
    /\ UNCHANGED <<flags, trusted, call, stage, answer, result, steady, ever>>

\* Mutant: the downstream hook is run before the verdict is looked at.
ProbeThenPass(r) ==
    /\ pc[r] = "probing"
    /\ verdict' = [verdict EXCEPT ![r] = CoerceForPaneBypass(verdict[r], call[r].pane)]
    /\ Goto(r, "passing")
    /\ UNCHANGED <<flags, trusted, call, stage, said, answer, result, steady, ever>>

Probe(r) ==
    /\ pc[r] = "probing"
    /\ LET v == CoerceForPaneBypass(verdict[r], call[r].pane)
       IN /\ verdict' = [verdict EXCEPT ![r] = v]
          /\ Goto(r, IF v \in {"allow", "deny"} THEN "writing" ELSE "passing")
    /\ UNCHANGED <<flags, trusted, call, stage, said, answer, result, steady, ever>>

\* run_passthrough relays the downstream hook's answer ...
RunPassthrough(r) ==
    /\ pc[r] = "passing" /\ call[r].downstream
    /\ Goto(r, "answered")
    /\ answer' = [answer EXCEPT ![r] = [says |-> "downstream", input |-> FALSE]]
    /\ UNCHANGED <<flags, trusted, call, stage, said, verdict, result, steady, ever>>

\* ... unless there is none, or it cannot be started.
NoPassthrough(r) ==
    /\ pc[r] = "passing"
    /\ Goto(r, "writing")
    /\ UNCHANGED <<flags, trusted, call, stage, said, verdict, answer, result, steady, ever>>

Answer(r) ==
    /\ pc[r] = "writing"
    /\ Goto(r, "answered")
    /\ answer' = [answer EXCEPT ![r] =
            IF verdict[r] = "none" THEN Empty
            ELSE WriteVerdict(AdapterOf(r), verdict[r], EventOf(r),
                              said[r] # "error" /\ McpBypassInput(call[r]))]
    /\ UNCHANGED <<flags, trusted, call, stage, said, verdict, result, steady, ever>>

\* The agent acts on the answer (external).
Finish(r) ==
    /\ pc[r] = "answered"
    /\ Goto(r, "idle")
    /\ result' \in {[result EXCEPT ![r] = o] :
            o \in Settles(call[r].agent, stage[r], answer[r].says)}
    /\ UNCHANGED <<flags, trusted, call, stage, said, verdict, answer, steady, ever>>

FireAgain(r) ==
    /\ pc[r] = "answered"
    /\ AsksAgain(call[r].agent, stage[r], answer[r].says)
    /\ Fire(r, 2)
    /\ UNCHANGED <<call, result, steady, ever>>

\* A hook crashes, or is killed at the timeout it was installed with: the agent
\* finds no answer and goes on without (external; bridgeDecision: null).
HookDies(r) ==
    /\ pc[r] \notin {"idle", "answered"}
    /\ Goto(r, "answered")
    /\ answer' = [answer EXCEPT ![r] = Lost]
    /\ UNCHANGED <<flags, trusted, call, stage, said, verdict, result, steady, ever>>

\* The agent ends in the middle of the call, with its pane for instance (external).
AgentDies(r) ==
    /\ pc[r] # "idle"
    /\ Goto(r, "idle")
    /\ result' = [result EXCEPT ![r] = "killed"]
    /\ UNCHANGED <<flags, trusted, call, stage, said, verdict, answer, steady, ever>>

\* The files of the bypass directory change (external here; PaneBypass says how).
FlagsBecome(new) ==
    /\ flags' = new
    /\ steady' = [r \in Runs |-> steady[r] /\ (pc[r] = "idle" \/ call[r].pane \in new)]
    /\ ever' = [r \in Runs |-> ever[r] \/ (pc[r] # "idle" /\ trusted /\ call[r].pane \in new)]
    /\ UNCHANGED <<trusted, pc, call, stage, said, verdict, answer, result>>

Hook(r) ==
    \/ Read(r) \/ Decide(r) \/ Probe(r) \/ RunPassthrough(r) \/ NoPassthrough(r) \/ Answer(r)
Agent(r) == Begin(r) \/ Finish(r) \/ FireAgain(r) \/ HookDies(r) \/ AgentDies(r)

Next ==
    \/ \E r \in Runs : Hook(r) \/ Agent(r)
    \/ \E new \in SUBSET Panes : FlagsBecome(new)

Spec == Init /\ [][Next]_checkVars

-----------------------------------------------------------------------------
(* Properties *)

\* The types of the flag directory and of every run.
TypeOK ==
    /\ flags \subseteq Panes
    /\ trusted \in BOOLEAN
    /\ pc \in [Runs -> Phases]
    /\ call \in [Runs -> Call]
    /\ stage \in [Runs -> {1, 2}]
    /\ said \in [Runs -> Decisions \cup {"error", "none"}]
    /\ verdict \in [Runs -> Decisions \cup {"none"}]
    /\ answer \in [Runs -> [says : Says, input : BOOLEAN]]
    /\ result \in [Runs -> Outcomes]
    /\ steady \in [Runs -> BOOLEAN]
    /\ ever \in [Runs -> BOOLEAN]

\* The hooks agentperm installs name their agent and their event, and an agent
\* sends the payload it documents.
Installed(c) == c.as = c.agent /\ c.event = "exact"
WellFormed(c) ==
    /\ c.form = "object" /\ c.tool # "none" /\ c.permission # "untyped"
    /\ c.agent = "opencode" => c.permission = "typed"
\* Claude's own bypass mode, in which agentperm leaves every decision to Claude.
DefersToClaude(c) == c.agent = "claude" /\ c.mode = "bypassPermissions"

\* A call the policy denies does not run: not by the pane's bypass flag, not by
\* a downstream hook, not because only one of the agent's two hooks may veto.
\* What gets through is a denial that never reached the agent: its hook ended
\* between the decision and the answer.
DeniedNeverRuns ==
    \A r \in Runs :
        /\ said[r] = "deny" /\ result[r] = "ran"
        /\ Installed(call[r])
        => DefersToClaude(call[r]) \/ answer[r].says = "lost"

\* An approval written by agentperm is the policy's, or the pane's flag was
\* honoured at some instant of the call; a policy that cannot be loaded
\* approves nothing, whatever the flag says.
ApprovalJustified ==
    \A r \in Runs :
        answer[r].says = "allow" =>
            said[r] = "allow" \/ (ever[r] /\ said[r] # "error")

\* "Approve everything I haven't denied": with the flag on from the beginning
\* to the end of a call no prompt is left, for any agent, unless the policy
\* denied the call or could not be loaded, or the last hook gave no answer.
BypassApproves ==
    \A r \in Runs :
        /\ steady[r] /\ pc[r] = "idle"
        /\ Installed(call[r]) /\ WellFormed(call[r])
        /\ said[r] \in {"ask", "no-opinion"} /\ answer[r].says # "lost"
        => result[r] # "prompted"

\* "The broken policy is visible instead of silently bypassed": a call whose hook
\* could not load the policy does not run unseen, in Claude's bypass mode and
\* under the pane's flag neither, unless a downstream hook answered or the hook
\* died.  Before the tool Codex and OpenCode act on a denial only: what they run
\* without a prompt of their own they run under a broken policy too.
BrokenPolicyVisible ==
    \A r \in Runs :
        /\ said[r] = "error" /\ result[r] = "ran"
        /\ Installed(call[r])
        => \/ answer[r].says \in {"downstream", "lost"}
           \/ stage[r] = 1 /\ HooksPrompts(call[r].agent)

\* A downstream hook is asked only what is still open after the policy and the
\* pane's flag have spoken, so a steady bypass never reaches it.
DownstreamOnlyUnresolved ==
    \A r \in Runs :
        answer[r].says = "downstream" =>
            /\ said[r] \in {"allow", "deny"} =>
                    AdapterOf(r) = "claude" /\ call[r].mode = "bypassPermissions"
            /\ steady[r] => said[r] \in {"none", "error"}
=============================================================================
