------------------------------ MODULE HookProofs -----------------------------
(* Theorems about HookCheck and PaneBypass, for any number of tool calls,  *)
(* panes, instances of the plugin and sessions.                            *)
EXTENDS PaneBypass, TLAPS

-----------------------------------------------------------------------------
(* The hooks, whatever the flags do (HookCheck). *)

\* There is a call outside of zellij.
LEMMA NoCallType == NoCall \in Call /\ NoCall.pane = NoPane
<1>1. DEFINE c == [agent |-> "claude", as |-> "claude", event |-> "exact", named |-> TRUE,
                   form |-> "object", tool |-> "other", permission |-> "none",
                   mode |-> "default", pane |-> NoPane, downstream |-> FALSE]
<1>2. c \in Call /\ c.pane = NoPane
  BY DEF Call, Agents
<1> QED BY <1>2 DEF NoCall

\* An adapter writes one of the answers, and approves only what is approved.
LEMMA WriteVerdictType ==
  ASSUME NEW adapter, NEW v \in Decisions, NEW event, NEW input \in BOOLEAN
  PROVE  LET written == WriteVerdict(adapter, v, event, input)
         IN /\ written \in [says : Says, input : BOOLEAN]
            /\ written.says = "allow" => v = "allow"
BY DEF WriteVerdict, ClaudeSays, CodexSays, GeminiSays, PlainSays, Empty, Says, Decisions

\* A decision stays a decision through both coercions.
LEMMA CoerceType ==
  ASSUME NEW v \in Decisions, NEW c, NEW adapter, NEW p
  PROVE  /\ CoerceForPermissionMode(v, c, adapter) \in {v, "no-opinion"}
         /\ CoerceForPaneBypass(v, p) \in {v, "allow"}
         /\ CoerceForPaneBypass(v, p) # v => v # "deny" /\ Honoured(p)
BY DEF CoerceForPermissionMode, CoerceForPaneBypass, Decisions

\* Carrying a verdict is what a hook does between deciding and its answer.
TypeInv ==
    /\ TypeOK
    /\ \A r \in Runs : pc[r] = "probing" => verdict[r] \in Decisions

LEMMA InitTypeInv == Init => TypeInv
BY NoCallType DEF Init, TypeInv, TypeOK, Phases, Decisions, Says, Outcomes, Empty

\* Starting a hook keeps the types.
LEMMA FireType ==
  ASSUME TypeOK, NEW r \in Runs, NEW n \in {1, 2}, Fire(r, n)
  PROVE  /\ flags' \subseteq Panes /\ trusted' \in BOOLEAN
         /\ pc' = [pc EXCEPT ![r] = "reading"] /\ pc' \in [Runs -> Phases]
         /\ stage' \in [Runs -> {1, 2}]
         /\ said' \in [Runs -> Decisions \cup {"error", "none"}]
         /\ verdict' \in [Runs -> Decisions \cup {"none"}]
         /\ answer' \in [Runs -> [says : Says, input : BOOLEAN]]
         /\ \A q \in Runs \ {r} : verdict'[q] = verdict[q]
BY DEF Fire, Goto, TypeOK, Phases, Says, Empty

LEMMA NextTypeInv == TypeInv /\ [Next]_checkVars => TypeInv'
<1> SUFFICES ASSUME TypeInv, [Next]_checkVars PROVE TypeInv'
  OBVIOUS
<1> USE DEF TypeInv
<1>1. ASSUME NEW r \in Runs, Begin(r) PROVE TypeInv'
  <2>1. PICK c \in Calls : /\ call' = [call EXCEPT ![r] = c]
                           /\ steady' = [steady EXCEPT ![r] = Honoured(c.pane)]
                           /\ ever' = [ever EXCEPT ![r] = Honoured(c.pane)]
    BY <1>1 DEF Begin
  <2>2. Honoured(c.pane) \in BOOLEAN
    BY DEF Honoured, TypeOK
  <2>3. TypeOK'
    BY <1>1, <2>1, <2>2, FireType, CallAssumption DEF Begin, TypeOK
  <2>4. /\ pc' = [pc EXCEPT ![r] = "reading"] /\ pc \in [Runs -> Phases]
        /\ \A q \in Runs \ {r} : verdict'[q] = verdict[q]
    BY <1>1, FireType DEF Begin, TypeOK
  <2>5. ASSUME NEW q \in Runs, pc'[q] = "probing" PROVE verdict'[q] \in Decisions
    <3>1. q # r /\ pc[q] = "probing"
      BY <2>4, <2>5
    <3> QED BY <2>4, <3>1
  <2> QED BY <2>3, <2>5
<1>2. ASSUME NEW r \in Runs, Read(r) PROVE TypeInv'
  BY <1>2 DEF Read, Goto, TypeOK, Phases
<1>3. ASSUME NEW r \in Runs, Decide(r) PROVE TypeInv'
  <2>1. PICK d \in Decisions \cup {"error"} :
          /\ said' = [said EXCEPT ![r] = d]
          /\ verdict' = [verdict EXCEPT ![r] =
                IF d = "error" THEN "ask"
                ELSE CoerceForPermissionMode(d, call[r], AdapterOf(r))]
          /\ Goto(r, IF d = "error" THEN "passing" ELSE "probing")
    BY <1>3 DEF Decide
  <2>2. (IF d = "error" THEN "ask"
         ELSE CoerceForPermissionMode(d, call[r], AdapterOf(r))) \in Decisions
    BY <2>1, CoerceType DEF Decisions
  <2> QED BY <1>3, <2>1, <2>2 DEF Decide, Goto, TypeOK, Phases
<1>4. ASSUME NEW r \in Runs, Probe(r) PROVE TypeInv'
  <2>1. CoerceForPaneBypass(verdict[r], call[r].pane) \in Decisions
    BY <1>4, CoerceType DEF Probe, Decisions
  <2> QED BY <1>4, <2>1 DEF Probe, Goto, TypeOK, Phases
<1>5. ASSUME NEW r \in Runs, RunPassthrough(r) PROVE TypeInv'
  BY <1>5 DEF RunPassthrough, Goto, TypeOK, Phases, Says
<1>12. ASSUME NEW r \in Runs, NoPassthrough(r) PROVE TypeInv'
  BY <1>12 DEF NoPassthrough, Goto, TypeOK, Phases
<1>6. ASSUME NEW r \in Runs, Answer(r) PROVE TypeInv'
  <2>1. (said[r] # "error" /\ McpBypassInput(call[r])) \in BOOLEAN
    BY DEF McpBypassInput
  <2>2. answer' \in [Runs -> [says : Says, input : BOOLEAN]]
    BY <1>6, <2>1, WriteVerdictType DEF Answer, TypeOK, Empty, Says
  <2> QED BY <1>6, <2>2 DEF Answer, Goto, TypeOK, Phases
<1>7. ASSUME NEW r \in Runs, Finish(r) PROVE TypeInv'
  <2>1. PICK o \in Settles(call[r].agent, stage[r], answer[r].says) :
            result' = [result EXCEPT ![r] = o]
    BY <1>7 DEF Finish
  <2>2. o \in Outcomes
    BY <2>1 DEF Settles, Outcomes
  <2> QED BY <1>7, <2>1, <2>2 DEF Finish, Goto, TypeOK, Phases
<1>8. ASSUME NEW r \in Runs, FireAgain(r) PROVE TypeInv'
  BY <1>8, FireType DEF FireAgain, TypeOK
<1>9. ASSUME NEW r \in Runs, AgentDies(r) PROVE TypeInv'
  BY <1>9 DEF AgentDies, Goto, TypeOK, Phases, Outcomes
<1>13. ASSUME NEW r \in Runs, HookDies(r) PROVE TypeInv'
  BY <1>13 DEF HookDies, Goto, TypeOK, Phases, Says, Lost
<1>10. ASSUME NEW new \in SUBSET Panes, FlagsBecome(new) PROVE TypeInv'
  <2>1. \A r \in Runs : (steady[r] /\ (pc[r] = "idle" \/ call[r].pane \in new)) \in BOOLEAN
    OBVIOUS
  <2>2. \A r \in Runs : (ever[r] \/ (pc[r] # "idle" /\ trusted /\ call[r].pane \in new)) \in BOOLEAN
    OBVIOUS
  <2> QED BY <1>10, <2>1, <2>2 DEF FlagsBecome, TypeOK
<1>11. CASE UNCHANGED checkVars
  BY <1>11 DEF checkVars, hookVars, TypeOK
<1> QED BY <1>1, <1>2, <1>3, <1>4, <1>5, <1>6, <1>7, <1>8, <1>9, <1>10, <1>11, <1>12, <1>13
        DEF Next, Hook, Agent

\* The types of the flag directory and of every run, however many there are.
THEOREM HookTyping == Spec => []TypeOK
<1>1. TypeInv => TypeOK
  BY DEF TypeInv
<1> QED BY <1>1, InitTypeInv, NextTypeInv, PTL DEF Spec

-----------------------------------------------------------------------------
\* A verdict or an answer that approves has its reason, at every place of the
\* hook; a hook has no answer before it wrote one, and forgets what the policy
\* said when it starts again.
Reason(r) == said[r] = "allow" \/ (ever[r] /\ said[r] # "error")
ApprovalAt(r) ==
    /\ verdict[r] = "allow" \/ answer[r].says = "allow" => Reason(r)
    /\ pc[r] # "idle" /\ Honoured(call[r].pane) => ever[r]
    /\ pc[r] = "probing" => said[r] # "error"
    /\ pc[r] \in {"reading", "deciding"} => said[r] = "none"
    /\ pc[r] \in {"reading", "deciding", "probing", "passing", "writing"} =>
            answer[r].says # "allow"
ApprovalInv == TypeInv /\ \A r \in Runs : ApprovalAt(r)

\* A step of one run leaves the others alone.
LEMMA OtherRuns ==
  ASSUME ApprovalInv, NEW r \in Runs, ApprovalAt(r)', TypeInv',
         UNCHANGED <<flags, trusted>>,
         \A q \in Runs \ {r} :
            /\ pc'[q] = pc[q] /\ call'[q] = call[q] /\ said'[q] = said[q]
            /\ verdict'[q] = verdict[q] /\ answer'[q] = answer[q] /\ ever'[q] = ever[q]
  PROVE  ApprovalInv'
<1> SUFFICES ASSUME NEW q \in Runs PROVE ApprovalAt(q)'
  BY DEF ApprovalInv
<1>1. CASE q = r
  BY <1>1
<1>2. CASE q # r
  BY <1>2 DEF ApprovalInv, ApprovalAt, Reason, Honoured
<1> QED BY <1>1, <1>2

LEMMA NextApprovalInv == ApprovalInv /\ [Next]_checkVars => ApprovalInv'
<1> SUFFICES ASSUME ApprovalInv, [Next]_checkVars PROVE ApprovalInv'
  OBVIOUS
<1>0. TypeInv' /\ TypeInv /\ TypeOK
  BY NextTypeInv DEF ApprovalInv, TypeInv
<1>1. ASSUME NEW r \in Runs, Begin(r) PROVE ApprovalInv'
  <2>1. PICK c \in Calls : /\ call' = [call EXCEPT ![r] = c]
                           /\ ever' = [ever EXCEPT ![r] = Honoured(c.pane)]
    BY <1>1 DEF Begin
  <2>2. ApprovalAt(r)'
    BY <1>0, <1>1, <2>1 DEF Begin, Fire, Goto, TypeOK, ApprovalAt, Reason, Honoured, Empty
  <2> QED BY <1>0, <1>1, <2>1, <2>2, OtherRuns DEF Begin, Fire, Goto, TypeOK
<1>2. ASSUME NEW r \in Runs, Read(r) PROVE ApprovalInv'
  <2>1. ApprovalAt(r)'
    BY <1>0, <1>2 DEF Read, Goto, TypeOK, ApprovalInv, ApprovalAt, Reason, Honoured
  <2> QED BY <1>0, <1>2, <2>1, OtherRuns DEF Read, Goto, TypeOK
<1>3. ASSUME NEW r \in Runs, Decide(r) PROVE ApprovalInv'
  <2>1. PICK d \in Decisions \cup {"error"} :
          /\ said' = [said EXCEPT ![r] = d]
          /\ verdict' = [verdict EXCEPT ![r] =
                IF d = "error" THEN "ask"
                ELSE CoerceForPermissionMode(d, call[r], AdapterOf(r))]
          /\ Goto(r, IF d = "error" THEN "passing" ELSE "probing")
    BY <1>3 DEF Decide
  <2>2. verdict'[r] = "allow" => d = "allow"
    BY <1>0, <2>1, CoerceType DEF TypeOK
  <2>3. ApprovalAt(r)'
    BY <1>0, <1>3, <2>1, <2>2 DEF Decide, Goto, TypeOK, ApprovalInv, ApprovalAt, Reason, Honoured
  <2> QED BY <1>0, <1>3, <2>1, <2>3, OtherRuns DEF Decide, Goto, TypeOK
<1>4. ASSUME NEW r \in Runs, Probe(r) PROVE ApprovalInv'
  <2> DEFINE v == CoerceForPaneBypass(verdict[r], call[r].pane)
  <2>1. v = verdict[r] \/ (v = "allow" /\ Honoured(call[r].pane))
    BY <1>0, <1>4, CoerceType DEF Probe, TypeInv
  <2>2. verdict' = [verdict EXCEPT ![r] = v]
    BY <1>4 DEF Probe
  <2>3. ApprovalAt(r)'
    BY <1>0, <1>4, <2>1, <2>2 DEF Probe, Goto, TypeOK, ApprovalInv, ApprovalAt, Reason, Honoured
  <2> QED BY <1>0, <1>4, <2>3, OtherRuns DEF Probe, Goto, TypeOK
<1>5. ASSUME NEW r \in Runs, RunPassthrough(r) PROVE ApprovalInv'
  <2>1. ApprovalAt(r)'
    BY <1>0, <1>5 DEF RunPassthrough, Goto, TypeOK, ApprovalInv, ApprovalAt, Reason, Honoured
  <2> QED BY <1>0, <1>5, <2>1, OtherRuns DEF RunPassthrough, Goto, TypeOK
<1>6. ASSUME NEW r \in Runs, NoPassthrough(r) PROVE ApprovalInv'
  <2>1. ApprovalAt(r)'
    BY <1>0, <1>6 DEF NoPassthrough, Goto, TypeOK, ApprovalInv, ApprovalAt, Reason, Honoured
  <2> QED BY <1>0, <1>6, <2>1, OtherRuns DEF NoPassthrough, Goto, TypeOK
<1>7. ASSUME NEW r \in Runs, Answer(r) PROVE ApprovalInv'
  <2>1. (said[r] # "error" /\ McpBypassInput(call[r])) \in BOOLEAN
    BY DEF McpBypassInput
  <2>2. answer'[r].says = "allow" => verdict[r] = "allow"
    BY <1>0, <1>7, <2>1, WriteVerdictType DEF Answer, TypeOK, Empty
  <2>3. ApprovalAt(r)'
    BY <1>0, <1>7, <2>2 DEF Answer, Goto, TypeOK, ApprovalInv, ApprovalAt, Reason, Honoured
  <2> QED BY <1>0, <1>7, <2>3, OtherRuns DEF Answer, Goto, TypeOK
<1>8. ASSUME NEW r \in Runs, Finish(r) PROVE ApprovalInv'
  <2>1. ApprovalAt(r)'
    BY <1>0, <1>8 DEF Finish, Goto, TypeOK, ApprovalInv, ApprovalAt, Reason, Honoured
  <2> QED BY <1>0, <1>8, <2>1, OtherRuns DEF Finish, Goto, TypeOK
<1>9. ASSUME NEW r \in Runs, FireAgain(r) PROVE ApprovalInv'
  <2>1. ApprovalAt(r)'
    BY <1>0, <1>9 DEF FireAgain, Fire, Goto, TypeOK, ApprovalInv, ApprovalAt, Reason, Honoured, Empty
  <2> QED BY <1>0, <1>9, <2>1, OtherRuns DEF FireAgain, Fire, Goto, TypeOK
<1>10. ASSUME NEW r \in Runs, AgentDies(r) PROVE ApprovalInv'
  <2>1. ApprovalAt(r)'
    BY <1>0, <1>10 DEF AgentDies, Goto, TypeOK, ApprovalInv, ApprovalAt, Reason, Honoured
  <2> QED BY <1>0, <1>10, <2>1, OtherRuns DEF AgentDies, Goto, TypeOK
<1>13. ASSUME NEW r \in Runs, HookDies(r) PROVE ApprovalInv'
  <2>1. ApprovalAt(r)'
    BY <1>0, <1>13 DEF HookDies, Goto, Lost, TypeOK, ApprovalInv, ApprovalAt, Reason, Honoured
  <2> QED BY <1>0, <1>13, <2>1, OtherRuns DEF HookDies, Goto, TypeOK
<1>11. ASSUME NEW new \in SUBSET Panes, FlagsBecome(new) PROVE ApprovalInv'
  <2> SUFFICES ASSUME NEW r \in Runs PROVE ApprovalAt(r)'
    BY <1>0 DEF ApprovalInv
  <2>1. ever'[r] = (ever[r] \/ (pc[r] # "idle" /\ trusted /\ call[r].pane \in new))
    BY <1>11 DEF FlagsBecome
  <2> QED BY <1>11, <2>1 DEF FlagsBecome, ApprovalInv, ApprovalAt, Reason, Honoured
<1>12. CASE UNCHANGED checkVars
  BY <1>0, <1>12 DEF checkVars, hookVars, ApprovalInv, ApprovalAt, Reason, Honoured
<1> QED BY <1>1, <1>2, <1>3, <1>4, <1>5, <1>6, <1>7, <1>8, <1>9, <1>10, <1>11, <1>12, <1>13
        DEF Next, Hook, Agent

\* However the flag and the policy change between the steps of a hook and between
\* the two hooks of a call, an approval is the policy's or the pane's flag was
\* honoured at some instant of the call.
THEOREM Approval == Spec => []ApprovalJustified
<1>1. Init => ApprovalInv
  BY InitTypeInv, NoCallType, PaneAssumption
  DEF Init, ApprovalInv, ApprovalAt, Reason, Empty
<1>2. ApprovalInv => ApprovalJustified
  BY DEF ApprovalInv, ApprovalAt, Reason, ApprovalJustified
<1> QED BY <1>1, <1>2, NextApprovalInv, PTL DEF Spec

-----------------------------------------------------------------------------
\* A call of an installed hook whose denial agentperm does not leave to Claude.
Bound(r) == Installed(call[r]) /\ ~DefersToClaude(call[r])
\* Where a denied call stands: its hook carries the denial, has written it or died,
\* and the agent did not run the tool unless the answer was lost.
DeniedAt(r) ==
    /\ pc[r] \in {"reading", "deciding"} => said[r] = "none"
    /\ pc[r] # "idle" => result[r] = "none"
    /\ said[r] = "deny" /\ Bound(r) =>
        /\ pc[r] # "passing"
        /\ pc[r] \in {"probing", "writing"} => verdict[r] = "deny"
        /\ pc[r] = "answered" => answer[r].says \in {"deny", "lost"}
        /\ result[r] = "ran" => answer[r].says = "lost"
DeniedInv == TypeInv /\ \A r \in Runs : DeniedAt(r)

\* The hooks agentperm installs tell the agent of a denial, whichever event it is.
LEMMA DenialWritten ==
  ASSUME TypeOK, NEW r \in Runs, Bound(r), NEW input \in BOOLEAN
  PROVE  WriteVerdict(AdapterOf(r), "deny", EventOf(r), input).says = "deny"
<1>1. /\ AdapterOf(r) = call[r].agent
      /\ EventOf(r) = Fired(call[r].agent, stage[r])
      /\ call[r].agent \in Agents /\ stage[r] \in {1, 2}
  BY DEF TypeOK, Bound, Installed, AdapterOf, EventOf, SelectAdapter, EffectiveEvent, Call, Agents
<1>2. CASE call[r].agent = "claude"
  BY <1>1, <1>2 DEF Fired, WriteVerdict, ClaudeSays
<1>3. CASE call[r].agent = "codex"
  BY <1>1, <1>3 DEF Fired, WriteVerdict, CodexSays
<1>4. CASE call[r].agent = "gemini"
  BY <1>1, <1>4 DEF WriteVerdict, GeminiSays
<1>5. CASE call[r].agent \in {"opencode", "kiro"}
  BY <1>1, <1>5 DEF WriteVerdict, PlainSays
<1> QED BY <1>1, <1>2, <1>3, <1>4, <1>5 DEF Agents

\* A denial survives the first coercion, except where Claude is left to decide.
LEMMA DenialKept ==
  ASSUME TypeOK, NEW r \in Runs, Bound(r)
  PROVE  CoerceForPermissionMode("deny", call[r], AdapterOf(r)) = "deny"
BY DEF TypeOK, Bound, Installed, DefersToClaude, AdapterOf, SelectAdapter, CoerceForPermissionMode,
       Call, Agents

\* A step of one run leaves the others alone.
LEMMA OtherDenied ==
  ASSUME DeniedInv, NEW r \in Runs, DeniedAt(r)', TypeInv',
         \A q \in Runs \ {r} :
            /\ pc'[q] = pc[q] /\ call'[q] = call[q] /\ said'[q] = said[q]
            /\ verdict'[q] = verdict[q] /\ answer'[q] = answer[q] /\ result'[q] = result[q]
  PROVE  DeniedInv'
<1> SUFFICES ASSUME NEW q \in Runs PROVE DeniedAt(q)'
  BY DEF DeniedInv
<1>1. CASE q = r
  BY <1>1
<1>2. CASE q # r
  BY <1>2 DEF DeniedInv, DeniedAt, Bound
<1> QED BY <1>1, <1>2

LEMMA NextDeniedInv == DeniedInv /\ [Next]_checkVars => DeniedInv'
<1> SUFFICES ASSUME DeniedInv, [Next]_checkVars PROVE DeniedInv'
  OBVIOUS
<1>0. TypeInv' /\ TypeInv /\ TypeOK
  BY NextTypeInv DEF DeniedInv, TypeInv
<1>1. ASSUME NEW r \in Runs, Begin(r) PROVE DeniedInv'
  <2>1. PICK c \in Calls : call' = [call EXCEPT ![r] = c]
    BY <1>1 DEF Begin
  <2>2. DeniedAt(r)'
    BY <1>0, <1>1, <2>1 DEF Begin, Fire, Goto, TypeOK, DeniedAt
  <2> QED BY <1>0, <1>1, <2>1, <2>2, OtherDenied DEF Begin, Fire, Goto, TypeOK
<1>2. ASSUME NEW r \in Runs, Read(r) PROVE DeniedInv'
  <2>1. DeniedAt(r)'
    BY <1>0, <1>2 DEF Read, Goto, TypeOK, DeniedInv, DeniedAt, Bound
  <2> QED BY <1>0, <1>2, <2>1, OtherDenied DEF Read, Goto, TypeOK
<1>3. ASSUME NEW r \in Runs, Decide(r) PROVE DeniedInv'
  <2>1. PICK d \in Decisions \cup {"error"} :
          /\ said' = [said EXCEPT ![r] = d]
          /\ verdict' = [verdict EXCEPT ![r] =
                IF d = "error" THEN "ask"
                ELSE CoerceForPermissionMode(d, call[r], AdapterOf(r))]
          /\ Goto(r, IF d = "error" THEN "passing" ELSE "probing")
    BY <1>3 DEF Decide
  <2>2. d = "deny" /\ Bound(r) => verdict'[r] = "deny"
    BY <1>0, <2>1, DenialKept DEF TypeOK
  <2>3. DeniedAt(r)'
    BY <1>0, <1>3, <2>1, <2>2 DEF Decide, Goto, TypeOK, DeniedInv, DeniedAt, Bound
  <2> QED BY <1>0, <1>3, <2>1, <2>3, OtherDenied DEF Decide, Goto, TypeOK
<1>4. ASSUME NEW r \in Runs, Probe(r) PROVE DeniedInv'
  <2> DEFINE v == CoerceForPaneBypass(verdict[r], call[r].pane)
  <2>1. verdict[r] = "deny" => v = "deny"
    BY DEF CoerceForPaneBypass
  <2>2. /\ verdict' = [verdict EXCEPT ![r] = v]
        /\ pc' = [pc EXCEPT ![r] = IF v \in {"allow", "deny"} THEN "writing" ELSE "passing"]
    BY <1>4 DEF Probe, Goto
  <2> HIDE DEF v
  <2>3. DeniedAt(r)'
    BY <1>0, <1>4, <2>1, <2>2 DEF Probe, TypeOK, DeniedInv, DeniedAt, Bound
  <2> QED BY <1>0, <1>4, <2>2, <2>3, OtherDenied DEF Probe, TypeOK
<1>5. ASSUME NEW r \in Runs, RunPassthrough(r) PROVE DeniedInv'
  <2>1. DeniedAt(r)'
    BY <1>0, <1>5 DEF RunPassthrough, Goto, TypeOK, DeniedInv, DeniedAt, Bound
  <2> QED BY <1>0, <1>5, <2>1, OtherDenied DEF RunPassthrough, Goto, TypeOK
<1>6. ASSUME NEW r \in Runs, NoPassthrough(r) PROVE DeniedInv'
  <2>1. DeniedAt(r)'
    BY <1>0, <1>6 DEF NoPassthrough, Goto, TypeOK, DeniedInv, DeniedAt, Bound
  <2> QED BY <1>0, <1>6, <2>1, OtherDenied DEF NoPassthrough, Goto, TypeOK
<1>7. ASSUME NEW r \in Runs, Answer(r) PROVE DeniedInv'
  <2>1. (said[r] # "error" /\ McpBypassInput(call[r])) \in BOOLEAN
    BY DEF McpBypassInput
  <2>2. verdict[r] = "deny" /\ Bound(r) => answer'[r].says = "deny"
    BY <1>0, <1>7, <2>1, DenialWritten DEF Answer, TypeOK
  <2>3. DeniedAt(r)'
    BY <1>0, <1>7, <2>2 DEF Answer, Goto, TypeOK, DeniedInv, DeniedAt, Bound
  <2> QED BY <1>0, <1>7, <2>3, OtherDenied DEF Answer, Goto, TypeOK
<1>8. ASSUME NEW r \in Runs, Finish(r) PROVE DeniedInv'
  <2>1. PICK o \in Settles(call[r].agent, stage[r], answer[r].says) :
            result' = [result EXCEPT ![r] = o]
    BY <1>8 DEF Finish
  <2>2. answer[r].says = "deny" => o # "ran"
    BY <2>1 DEF Settles
  <2>3. DeniedAt(r)'
    BY <1>0, <1>8, <2>1, <2>2 DEF Finish, Goto, TypeOK, DeniedInv, DeniedAt, Bound
  <2> QED BY <1>0, <1>8, <2>1, <2>3, OtherDenied DEF Finish, Goto, TypeOK
<1>9. ASSUME NEW r \in Runs, FireAgain(r) PROVE DeniedInv'
  <2>1. DeniedAt(r)'
    BY <1>0, <1>9 DEF FireAgain, Fire, Goto, TypeOK, DeniedInv, DeniedAt
  <2> QED BY <1>0, <1>9, <2>1, OtherDenied DEF FireAgain, Fire, Goto, TypeOK
<1>10. ASSUME NEW r \in Runs, AgentDies(r) PROVE DeniedInv'
  <2>1. DeniedAt(r)'
    BY <1>0, <1>10 DEF AgentDies, Goto, TypeOK, DeniedInv, DeniedAt, Bound
  <2> QED BY <1>0, <1>10, <2>1, OtherDenied DEF AgentDies, Goto, TypeOK
<1>13. ASSUME NEW r \in Runs, HookDies(r) PROVE DeniedInv'
  <2>1. DeniedAt(r)'
    BY <1>0, <1>13 DEF HookDies, Goto, Lost, TypeOK, DeniedInv, DeniedAt, Bound
  <2> QED BY <1>0, <1>13, <2>1, OtherDenied DEF HookDies, Goto, TypeOK
<1>11. ASSUME NEW new \in SUBSET Panes, FlagsBecome(new) PROVE DeniedInv'
  BY <1>0, <1>11 DEF FlagsBecome, DeniedInv, DeniedAt, Bound
<1>12. CASE UNCHANGED checkVars
  BY <1>0, <1>12 DEF checkVars, hookVars, DeniedInv, DeniedAt, Bound
<1> QED BY <1>1, <1>2, <1>3, <1>4, <1>5, <1>6, <1>7, <1>8, <1>9, <1>10, <1>11, <1>12, <1>13
        DEF Next, Hook, Agent

\* A call the policy denies does not run: the denial passes both coercions, is
\* never offered to a downstream hook, and is written for every agent and event.
THEOREM Denial == Spec => []DeniedNeverRuns
<1>1. Init => DeniedInv
  BY InitTypeInv DEF Init, DeniedInv, DeniedAt
<1>2. DeniedInv => DeniedNeverRuns
  BY DEF DeniedInv, DeniedAt, Bound, DeniedNeverRuns
<1> QED BY <1>1, <1>2, NextDeniedInv, PTL DEF Spec
-----------------------------------------------------------------------------
\* A call for which an answer decides whether the tool runs: where Codex and OpenCode
\* prompt, and before the tool of the others.
Heard(r) == Installed(call[r]) /\ ~(stage[r] = 1 /\ HooksPrompts(call[r].agent))
\* The answer keeps the agent from running the tool by itself; at its own prompt no
\* answer does, too.
Stops(r) == answer[r].says \in {"ask", "deny"} \/ (answer[r].says = "empty" /\ stage[r] = 2)
\* What a hook that could not load the policy has in hand, and what it has answered.
BrokenAt(r) ==
    /\ pc[r] \in {"reading", "deciding"} => said[r] = "none"
    /\ pc[r] # "idle" => result[r] = "none"
    /\ said[r] = "error" =>
        /\ pc[r] # "probing"
        /\ pc[r] \in {"passing", "writing"} => verdict[r] = "ask"
        /\ pc[r] = "answered" /\ Heard(r) => Stops(r) \/ answer[r].says \in {"downstream", "lost"}
        /\ result[r] = "ran" /\ Heard(r) => answer[r].says \in {"downstream", "lost"}
BrokenInv == TypeInv /\ \A r \in Runs : BrokenAt(r)

\* A question keeps every agent from running the tool: Gemini takes it as a refusal,
\* Codex finds no approval at its prompt.
LEMMA QuestionWritten ==
  ASSUME TypeOK, NEW r \in Runs, Heard(r), NEW input \in BOOLEAN
  PROVE  LET says == WriteVerdict(AdapterOf(r), "ask", EventOf(r), input).says
         IN says \in {"ask", "deny"} \/ (says = "empty" /\ stage[r] = 2)
<1>1. /\ AdapterOf(r) = call[r].agent
      /\ EventOf(r) = Fired(call[r].agent, stage[r])
      /\ call[r].agent \in Agents /\ stage[r] \in {1, 2}
      /\ HooksPrompts(call[r].agent) => stage[r] = 2
  BY DEF TypeOK, Heard, Installed, AdapterOf, EventOf, SelectAdapter, EffectiveEvent, Call, Agents
<1>2. CASE call[r].agent = "claude"
  BY <1>1, <1>2 DEF Fired, WriteVerdict, ClaudeSays
<1>3. CASE call[r].agent = "gemini"
  BY <1>1, <1>3 DEF WriteVerdict, GeminiSays
<1>4. CASE call[r].agent \in {"opencode", "kiro"}
  BY <1>1, <1>4 DEF WriteVerdict, PlainSays
<1>5. CASE call[r].agent = "codex"
  BY <1>1, <1>5 DEF Fired, HooksPrompts, WriteVerdict, CodexSays, Empty
<1> QED BY <1>1, <1>2, <1>3, <1>4, <1>5 DEF Agents

\* A step of one run leaves the others alone.
LEMMA OtherBroken ==
  ASSUME BrokenInv, NEW r \in Runs, BrokenAt(r)', TypeInv',
         \A q \in Runs \ {r} :
            /\ pc'[q] = pc[q] /\ call'[q] = call[q] /\ said'[q] = said[q]
            /\ verdict'[q] = verdict[q] /\ answer'[q] = answer[q] /\ result'[q] = result[q]
            /\ stage'[q] = stage[q]
  PROVE  BrokenInv'
<1> SUFFICES ASSUME NEW q \in Runs PROVE BrokenAt(q)'
  BY DEF BrokenInv
<1>1. CASE q = r
  BY <1>1
<1>2. CASE q # r
  BY <1>2 DEF BrokenInv, BrokenAt, Heard, Stops
<1> QED BY <1>1, <1>2

LEMMA NextBrokenInv == BrokenInv /\ [Next]_checkVars => BrokenInv'
<1> SUFFICES ASSUME BrokenInv, [Next]_checkVars PROVE BrokenInv'
  OBVIOUS
<1>0. TypeInv' /\ TypeInv /\ TypeOK
  BY NextTypeInv DEF BrokenInv, TypeInv
<1>1. ASSUME NEW r \in Runs, Begin(r) PROVE BrokenInv'
  <2>1. PICK c \in Calls : call' = [call EXCEPT ![r] = c]
    BY <1>1 DEF Begin
  <2>2. BrokenAt(r)'
    BY <1>0, <1>1, <2>1 DEF Begin, Fire, Goto, TypeOK, BrokenAt
  <2> QED BY <1>0, <1>1, <2>1, <2>2, OtherBroken DEF Begin, Fire, Goto, TypeOK
<1>2. ASSUME NEW r \in Runs, Read(r) PROVE BrokenInv'
  <2>1. BrokenAt(r)'
    BY <1>0, <1>2 DEF Read, Goto, TypeOK, BrokenInv, BrokenAt
  <2> QED BY <1>0, <1>2, <2>1, OtherBroken DEF Read, Goto, TypeOK
<1>3. ASSUME NEW r \in Runs, Decide(r) PROVE BrokenInv'
  <2>1. PICK d \in Decisions \cup {"error"} :
          /\ said' = [said EXCEPT ![r] = d]
          /\ verdict' = [verdict EXCEPT ![r] =
                IF d = "error" THEN "ask"
                ELSE CoerceForPermissionMode(d, call[r], AdapterOf(r))]
          /\ Goto(r, IF d = "error" THEN "passing" ELSE "probing")
    BY <1>3 DEF Decide
  <2>2. BrokenAt(r)'
    BY <1>0, <1>3, <2>1 DEF Decide, Decisions, Goto, TypeOK, BrokenInv, BrokenAt
  <2> QED BY <1>0, <1>3, <2>1, <2>2, OtherBroken DEF Decide, Goto, TypeOK
<1>4. ASSUME NEW r \in Runs, Probe(r) PROVE BrokenInv'
  <2>1. said[r] # "error" /\ said' = said
    BY <1>4 DEF Probe, BrokenInv, BrokenAt
  <2>2. BrokenAt(r)'
    BY <1>0, <1>4, <2>1 DEF Probe, Goto, TypeOK, BrokenInv, BrokenAt
  <2> QED BY <1>0, <1>4, <2>2, OtherBroken DEF Probe, Goto, TypeOK
<1>5. ASSUME NEW r \in Runs, RunPassthrough(r) PROVE BrokenInv'
  <2>1. BrokenAt(r)'
    BY <1>0, <1>5 DEF RunPassthrough, Goto, TypeOK, BrokenInv, BrokenAt
  <2> QED BY <1>0, <1>5, <2>1, OtherBroken DEF RunPassthrough, Goto, TypeOK
<1>6. ASSUME NEW r \in Runs, NoPassthrough(r) PROVE BrokenInv'
  <2>1. BrokenAt(r)'
    BY <1>0, <1>6 DEF NoPassthrough, Goto, TypeOK, BrokenInv, BrokenAt
  <2> QED BY <1>0, <1>6, <2>1, OtherBroken DEF NoPassthrough, Goto, TypeOK
<1>7. ASSUME NEW r \in Runs, Answer(r) PROVE BrokenInv'
  <2>1. (said[r] # "error" /\ McpBypassInput(call[r])) \in BOOLEAN
    BY DEF McpBypassInput
  <2>2. Heard(r)' = Heard(r) /\ pc'[r] = "answered"
    BY <1>0, <1>7 DEF Answer, Goto, TypeOK, Heard
  <2>3. said[r] = "error" /\ Heard(r) => Stops(r)'
    BY <1>0, <1>7, <2>1, QuestionWritten DEF Answer, TypeOK, BrokenInv, BrokenAt, Stops
  <2>4. BrokenAt(r)'
    BY <1>0, <1>7, <2>2, <2>3 DEF Answer, BrokenInv, BrokenAt
  <2> QED BY <1>0, <1>7, <2>4, OtherBroken DEF Answer, Goto, TypeOK
<1>8. ASSUME NEW r \in Runs, Finish(r) PROVE BrokenInv'
  <2>1. PICK o \in Settles(call[r].agent, stage[r], answer[r].says) :
          result' = [result EXCEPT ![r] = o]
    BY <1>8 DEF Finish
  <2>2. Heard(r) /\ Stops(r) => o # "ran"
    BY <2>1 DEF Heard, Stops, Settles, HooksPrompts
  <2>3. BrokenAt(r)'
    BY <1>0, <1>8, <2>1, <2>2 DEF Finish, Goto, TypeOK, BrokenInv, BrokenAt, Heard
  <2> QED BY <1>0, <1>8, <2>1, <2>3, OtherBroken DEF Finish, Goto, TypeOK
<1>9. ASSUME NEW r \in Runs, FireAgain(r) PROVE BrokenInv'
  <2>1. BrokenAt(r)'
    BY <1>0, <1>9 DEF FireAgain, Fire, Goto, TypeOK, BrokenInv, BrokenAt
  <2> QED BY <1>0, <1>9, <2>1, OtherBroken DEF FireAgain, Fire, Goto, TypeOK
<1>10. ASSUME NEW r \in Runs, AgentDies(r) PROVE BrokenInv'
  <2>1. BrokenAt(r)'
    BY <1>0, <1>10 DEF AgentDies, Goto, TypeOK, BrokenInv, BrokenAt, Heard, Stops
  <2> QED BY <1>0, <1>10, <2>1, OtherBroken DEF AgentDies, Goto, TypeOK
<1>13. ASSUME NEW r \in Runs, HookDies(r) PROVE BrokenInv'
  <2>1. BrokenAt(r)'
    BY <1>0, <1>13 DEF HookDies, Goto, Lost, TypeOK, BrokenInv, BrokenAt, Heard, Stops
  <2> QED BY <1>0, <1>13, <2>1, OtherBroken DEF HookDies, Goto, TypeOK
<1>11. ASSUME NEW new \in SUBSET Panes, FlagsBecome(new) PROVE BrokenInv'
  BY <1>0, <1>11 DEF FlagsBecome, BrokenInv, BrokenAt, Heard, Stops
<1>12. CASE UNCHANGED checkVars
  BY <1>0, <1>12 DEF checkVars, hookVars, BrokenInv, BrokenAt, Heard, Stops
<1> QED BY <1>1, <1>2, <1>3, <1>4, <1>5, <1>6, <1>7, <1>8, <1>9, <1>10, <1>11, <1>12, <1>13
        DEF Next, Hook, Agent

\* A call whose hook could not load the policy does not run unseen, whatever its mode
\* and the pane's flag, where the agent hears more than a denial.
THEOREM Visible == Spec => []BrokenPolicyVisible
<1>1. Init => BrokenInv
  BY InitTypeInv DEF Init, BrokenInv, BrokenAt
<1>2. BrokenInv => BrokenPolicyVisible
  BY DEF BrokenInv, BrokenAt, Heard, BrokenPolicyVisible
<1> QED BY <1>1, <1>2, NextBrokenInv, PTL DEF Spec

-----------------------------------------------------------------------------
\* Claude decides by itself, whatever the policy said.
Deferred(r) == AdapterOf(r) = "claude" /\ call[r].mode = "bypassPermissions"
\* What is still open: a definite word of the policy only if it was dropped, nothing but
\* an error or no request under a steady flag.
Unresolved(r) ==
    /\ said[r] \in {"allow", "deny"} => Deferred(r)
    /\ steady[r] => said[r] \in {"none", "error"}
DownstreamAt(r) ==
    /\ pc[r] # "idle" /\ steady[r] => Honoured(call[r].pane)
    /\ pc[r] \in {"reading", "deciding"} => said[r] = "none"
    /\ pc[r] \notin {"idle", "answered"} => answer[r].says # "downstream"
    /\ pc[r] = "probing" /\ said[r] \in {"allow", "deny"} => Deferred(r) \/ verdict[r] = said[r]
    /\ pc[r] = "passing" => Unresolved(r)
    /\ answer[r].says = "downstream" => Unresolved(r)
DownstreamInv == TypeInv /\ \A r \in Runs : DownstreamAt(r)

\* No adapter writes what only a downstream hook says.
LEMMA NeverWritten ==
  ASSUME NEW adapter, NEW v \in Decisions, NEW event, NEW input \in BOOLEAN
  PROVE  WriteVerdict(adapter, v, event, input).says # "downstream"
BY DEF WriteVerdict, ClaudeSays, CodexSays, GeminiSays, PlainSays, Empty, Decisions

\* A step of one run that leaves the flags alone leaves the others alone.
LEMMA OtherDownstream ==
  ASSUME DownstreamInv, NEW r \in Runs, DownstreamAt(r)', TypeInv',
         flags' = flags, trusted' = trusted,
         \A q \in Runs \ {r} :
            /\ pc'[q] = pc[q] /\ call'[q] = call[q] /\ said'[q] = said[q] /\ stage'[q] = stage[q]
            /\ verdict'[q] = verdict[q] /\ answer'[q] = answer[q] /\ steady'[q] = steady[q]
  PROVE  DownstreamInv'
<1> SUFFICES ASSUME NEW q \in Runs PROVE DownstreamAt(q)'
  BY DEF DownstreamInv
<1>1. CASE q = r
  BY <1>1
<1>2. CASE q # r
  <2>1. /\ AdapterOf(q)' = AdapterOf(q) /\ Honoured(call[q].pane)' = Honoured(call[q].pane)
        /\ Deferred(q)' = Deferred(q)
    BY <1>2 DEF AdapterOf, EventOf, Honoured, Deferred
  <2> QED BY <1>2, <2>1 DEF DownstreamInv, DownstreamAt, Unresolved
<1> QED BY <1>1, <1>2

LEMMA NextDownstreamInv == DownstreamInv /\ [Next]_checkVars => DownstreamInv'
<1> SUFFICES ASSUME DownstreamInv, [Next]_checkVars PROVE DownstreamInv'
  OBVIOUS
<1>0. TypeInv' /\ TypeInv /\ TypeOK
  BY NextTypeInv DEF DownstreamInv, TypeInv
<1>1. ASSUME NEW r \in Runs, Begin(r) PROVE DownstreamInv'
  <2>1. PICK c \in Calls : /\ call' = [call EXCEPT ![r] = c]
                           /\ steady' = [steady EXCEPT ![r] = Honoured(c.pane)]
    BY <1>1 DEF Begin
  <2>2. DownstreamAt(r)'
    BY <1>0, <1>1, <2>1 DEF Begin, Fire, Goto, Empty, TypeOK, DownstreamAt, Honoured
  <2> QED BY <1>0, <1>1, <2>1, <2>2, OtherDownstream DEF Begin, Fire, Goto, TypeOK
<1>2. ASSUME NEW r \in Runs, Read(r) PROVE DownstreamInv'
  <2>1. DownstreamAt(r)'
    BY <1>0, <1>2 DEF Read, Goto, TypeOK, DownstreamInv, DownstreamAt, Unresolved, Honoured
  <2> QED BY <1>0, <1>2, <2>1, OtherDownstream DEF Read, Goto, TypeOK
<1>3. ASSUME NEW r \in Runs, Decide(r) PROVE DownstreamInv'
  <2>1. PICK d \in Decisions \cup {"error"} :
          /\ said' = [said EXCEPT ![r] = d]
          /\ verdict' = [verdict EXCEPT ![r] =
                IF d = "error" THEN "ask"
                ELSE CoerceForPermissionMode(d, call[r], AdapterOf(r))]
          /\ Goto(r, IF d = "error" THEN "passing" ELSE "probing")
    BY <1>3 DEF Decide
  <2>2. Deferred(r)' = Deferred(r)
    BY <1>3 DEF Decide, Deferred, AdapterOf, EventOf
  <2>3. d # "error" => Deferred(r) \/ verdict'[r] = d
    BY <1>0, <2>1 DEF TypeOK, CoerceForPermissionMode, Deferred
  <2>4. DownstreamAt(r)'
    BY <1>0, <1>3, <2>1, <2>2, <2>3
    DEF Decide, Goto, TypeOK, DownstreamInv, DownstreamAt, Unresolved, Honoured, Decisions
  <2> QED BY <1>0, <1>3, <2>1, <2>4, OtherDownstream DEF Decide, Goto, TypeOK
<1>4. ASSUME NEW r \in Runs, Probe(r) PROVE DownstreamInv'
  <2> DEFINE v == CoerceForPaneBypass(verdict[r], call[r].pane)
  <2>1. /\ verdict[r] \in {"allow", "deny"} => v = verdict[r]
        /\ steady[r] => v \in {"allow", "deny"}
    BY <1>0, <1>4 DEF Probe, CoerceForPaneBypass, DownstreamInv, DownstreamAt, TypeInv, Decisions
  <2>2. /\ verdict' = [verdict EXCEPT ![r] = v]
        /\ pc' = [pc EXCEPT ![r] = IF v \in {"allow", "deny"} THEN "writing" ELSE "passing"]
    BY <1>4 DEF Probe, Goto
  <2>3. /\ Deferred(r)' = Deferred(r) /\ Honoured(call[r].pane)' = Honoured(call[r].pane)
        /\ pc[r] = "probing" /\ said' = said /\ steady' = steady /\ answer' = answer
    BY <1>4 DEF Probe, Deferred, AdapterOf, EventOf, Honoured
  <2> HIDE DEF v
  <2>4. DownstreamAt(r)'
    BY <1>0, <2>1, <2>2, <2>3 DEF TypeOK, DownstreamInv, DownstreamAt, Unresolved
  <2> QED BY <1>0, <1>4, <2>2, <2>4, OtherDownstream DEF Probe, TypeOK
<1>5. ASSUME NEW r \in Runs, RunPassthrough(r) PROVE DownstreamInv'
  <2>1. Deferred(r)' = Deferred(r) /\ Honoured(call[r].pane)' = Honoured(call[r].pane)
    BY <1>5 DEF RunPassthrough, Deferred, AdapterOf, EventOf, Honoured
  <2>2. DownstreamAt(r)'
    BY <1>0, <1>5, <2>1 DEF RunPassthrough, Goto, TypeOK, DownstreamInv, DownstreamAt, Unresolved
  <2> QED BY <1>0, <1>5, <2>2, OtherDownstream DEF RunPassthrough, Goto, TypeOK
<1>6. ASSUME NEW r \in Runs, NoPassthrough(r) PROVE DownstreamInv'
  <2>1. Deferred(r)' = Deferred(r) /\ Honoured(call[r].pane)' = Honoured(call[r].pane)
    BY <1>6 DEF NoPassthrough, Deferred, AdapterOf, EventOf, Honoured
  <2>2. DownstreamAt(r)'
    BY <1>0, <1>6, <2>1 DEF NoPassthrough, Goto, TypeOK, DownstreamInv, DownstreamAt, Unresolved
  <2> QED BY <1>0, <1>6, <2>2, OtherDownstream DEF NoPassthrough, Goto, TypeOK
<1>7. ASSUME NEW r \in Runs, Answer(r) PROVE DownstreamInv'
  <2>1. (said[r] # "error" /\ McpBypassInput(call[r])) \in BOOLEAN
    BY DEF McpBypassInput
  <2>2. answer'[r].says # "downstream"
    BY <1>0, <1>7, <2>1, NeverWritten DEF Answer, TypeOK, Empty
  <2>3. Honoured(call[r].pane)' = Honoured(call[r].pane)
    BY <1>7 DEF Answer, Honoured
  <2>4. DownstreamAt(r)'
    BY <1>0, <1>7, <2>2, <2>3 DEF Answer, Goto, TypeOK, DownstreamInv, DownstreamAt
  <2> QED BY <1>0, <1>7, <2>4, OtherDownstream DEF Answer, Goto, TypeOK
<1>8. ASSUME NEW r \in Runs, Finish(r) PROVE DownstreamInv'
  <2>1. Deferred(r)' = Deferred(r)
    BY <1>8 DEF Finish, Deferred, AdapterOf, EventOf
  <2>2. DownstreamAt(r)'
    BY <1>0, <1>8, <2>1 DEF Finish, Goto, TypeOK, DownstreamInv, DownstreamAt, Unresolved
  <2> QED BY <1>0, <1>8, <2>2, OtherDownstream DEF Finish, Goto, TypeOK
<1>9. ASSUME NEW r \in Runs, FireAgain(r) PROVE DownstreamInv'
  <2>1. DownstreamAt(r)'
    BY <1>0, <1>9 DEF FireAgain, Fire, Goto, Empty, TypeOK, DownstreamInv, DownstreamAt, Honoured
  <2> QED BY <1>0, <1>9, <2>1, OtherDownstream DEF FireAgain, Fire, Goto, TypeOK
<1>10. ASSUME NEW r \in Runs, AgentDies(r) PROVE DownstreamInv'
  <2>1. Deferred(r)' = Deferred(r) /\ Honoured(call[r].pane)' = Honoured(call[r].pane)
    BY <1>10 DEF AgentDies, Deferred, AdapterOf, EventOf, Honoured
  <2>2. DownstreamAt(r)'
    BY <1>0, <1>10, <2>1 DEF AgentDies, Goto, TypeOK, DownstreamInv, DownstreamAt, Unresolved
  <2> QED BY <1>0, <1>10, <2>2, OtherDownstream DEF AgentDies, Goto, TypeOK
<1>13. ASSUME NEW r \in Runs, HookDies(r) PROVE DownstreamInv'
  <2>1. Deferred(r)' = Deferred(r) /\ Honoured(call[r].pane)' = Honoured(call[r].pane)
    BY <1>13 DEF HookDies, Deferred, AdapterOf, EventOf, Honoured
  <2>2. DownstreamAt(r)'
    BY <1>0, <1>13, <2>1 DEF HookDies, Goto, Lost, TypeOK, DownstreamInv, DownstreamAt, Unresolved
  <2> QED BY <1>0, <1>13, <2>2, OtherDownstream DEF HookDies, Goto, TypeOK
<1>11. ASSUME NEW new \in SUBSET Panes, FlagsBecome(new) PROVE DownstreamInv'
  <2> SUFFICES ASSUME NEW r \in Runs PROVE DownstreamAt(r)'
    BY <1>0 DEF DownstreamInv
  <2>1. Deferred(r)' = Deferred(r)
    BY <1>11 DEF FlagsBecome, Deferred, AdapterOf, EventOf
  <2>2. steady'[r] = (steady[r] /\ (pc[r] = "idle" \/ call[r].pane \in new))
    BY <1>11 DEF FlagsBecome
  <2> QED BY <1>11, <2>1, <2>2 DEF FlagsBecome, DownstreamInv, DownstreamAt, Unresolved, Honoured
<1>12. CASE UNCHANGED checkVars
  <2> SUFFICES ASSUME NEW r \in Runs PROVE DownstreamAt(r)'
    BY <1>0 DEF DownstreamInv
  <2>1. Deferred(r)' = Deferred(r) /\ Honoured(call[r].pane)' = Honoured(call[r].pane)
    BY <1>12 DEF checkVars, hookVars, Deferred, AdapterOf, EventOf, Honoured
  <2> QED BY <1>12, <2>1 DEF checkVars, hookVars, DownstreamInv, DownstreamAt, Unresolved
<1> QED BY <1>1, <1>2, <1>3, <1>4, <1>5, <1>6, <1>7, <1>8, <1>9, <1>10, <1>11, <1>12, <1>13
        DEF Next, Hook, Agent

\* A downstream hook is asked only what the policy and the pane's flag left open.
THEOREM Downstream == Spec => []DownstreamOnlyUnresolved
<1>1. Init => DownstreamInv
  BY InitTypeInv DEF Init, Empty, DownstreamInv, DownstreamAt
<1>2. DownstreamInv => DownstreamOnlyUnresolved
  BY DEF DownstreamInv, DownstreamAt, Unresolved, Deferred, DownstreamOnlyUnresolved
<1> QED BY <1>1, <1>2, NextDownstreamInv, PTL DEF Spec
-----------------------------------------------------------------------------
\* A call with the flag on so far, on which the policy has not come to a decision.
Open(r) ==
    steady[r] /\ Installed(call[r]) /\ WellFormed(call[r]) /\ said[r] \in {"ask", "no-opinion"}
\* The answer leaves the agent nothing to ask: before the tool, Codex and OpenCode do
\* not prompt, and everywhere else it is an approval, unless it was lost.
LeavesNoPrompt(r) ==
    answer[r].says \in {"allow", "lost"} \/ (stage[r] = 1 /\ HooksPrompts(call[r].agent))
OpenAt(r) ==
    Open(r) =>
        /\ pc[r] = "probing" => verdict[r] \in {"ask", "no-opinion"}
        /\ pc[r] = "writing" => verdict[r] = "allow"
        /\ pc[r] = "answered" => LeavesNoPrompt(r)
        /\ pc[r] = "idle" => result[r] # "prompted" \/ answer[r].says = "lost"
OpenInv == DownstreamInv /\ \A r \in Runs : OpenAt(r)

\* An approval is written as one, by every agent's adapter, where the agent would prompt.
LEMMA ApprovalWritten ==
  ASSUME TypeOK, NEW r \in Runs, Installed(call[r]), NEW input \in BOOLEAN
  PROVE  \/ WriteVerdict(AdapterOf(r), "allow", EventOf(r), input).says = "allow"
         \/ stage[r] = 1 /\ HooksPrompts(call[r].agent)
<1>1. /\ AdapterOf(r) = call[r].agent
      /\ EventOf(r) = Fired(call[r].agent, stage[r])
      /\ call[r].agent \in Agents /\ stage[r] \in {1, 2}
  BY DEF TypeOK, Installed, AdapterOf, EventOf, SelectAdapter, EffectiveEvent, Call, Agents
<1>2. CASE call[r].agent = "claude"
  BY <1>1, <1>2 DEF Fired, WriteVerdict, ClaudeSays
<1>3. CASE call[r].agent = "codex"
  BY <1>1, <1>3 DEF Fired, WriteVerdict, CodexSays, HooksPrompts
<1>4. CASE call[r].agent = "gemini"
  BY <1>1, <1>4 DEF WriteVerdict, GeminiSays
<1>5. CASE call[r].agent \in {"opencode", "kiro"}
  BY <1>1, <1>5 DEF WriteVerdict, PlainSays
<1> QED BY <1>1, <1>2, <1>3, <1>4, <1>5 DEF Agents

\* A step of one run that leaves the flags alone leaves the others alone.
LEMMA OtherOpen ==
  ASSUME OpenInv, NEW r \in Runs, OpenAt(r)', DownstreamInv',
         \A q \in Runs \ {r} :
            /\ pc'[q] = pc[q] /\ call'[q] = call[q] /\ said'[q] = said[q] /\ stage'[q] = stage[q]
            /\ verdict'[q] = verdict[q] /\ answer'[q] = answer[q] /\ steady'[q] = steady[q]
            /\ result'[q] = result[q]
  PROVE  OpenInv'
<1> SUFFICES ASSUME NEW q \in Runs PROVE OpenAt(q)'
  BY DEF OpenInv
<1>1. CASE q = r
  BY <1>1
<1>2. CASE q # r
  BY <1>2 DEF OpenInv, OpenAt, Open, LeavesNoPrompt
<1> QED BY <1>1, <1>2

LEMMA NextOpenInv == OpenInv /\ [Next]_checkVars => OpenInv'
<1> SUFFICES ASSUME OpenInv, [Next]_checkVars PROVE OpenInv'
  OBVIOUS
<1>0. DownstreamInv' /\ DownstreamInv /\ TypeOK
  BY NextDownstreamInv DEF OpenInv, DownstreamInv, TypeInv
<1>1. ASSUME NEW r \in Runs, Begin(r) PROVE OpenInv'
  <2>1. PICK c \in Calls : call' = [call EXCEPT ![r] = c] /\ steady' = [steady EXCEPT ![r] = Honoured(c.pane)]
    BY <1>1 DEF Begin
  <2>2. OpenAt(r)'
    BY <1>0, <1>1 DEF Begin, Fire, TypeOK, OpenAt, Open
  <2> QED BY <1>0, <1>1, <2>1, <2>2, OtherOpen DEF Begin, Fire, Goto, TypeOK
<1>2. ASSUME NEW r \in Runs, Read(r) PROVE OpenInv'
  <2>1. OpenAt(r)'
    BY <1>0, <1>2 DEF Read, Goto, TypeOK, OpenAt, Open
  <2> QED BY <1>0, <1>2, <2>1, OtherOpen DEF Read, Goto, TypeOK
<1>3. ASSUME NEW r \in Runs, Decide(r) PROVE OpenInv'
  <2>1. PICK d \in Decisions \cup {"error"} :
          /\ said' = [said EXCEPT ![r] = d]
          /\ verdict' = [verdict EXCEPT ![r] =
                IF d = "error" THEN "ask"
                ELSE CoerceForPermissionMode(d, call[r], AdapterOf(r))]
          /\ Goto(r, IF d = "error" THEN "passing" ELSE "probing")
    BY <1>3 DEF Decide
  <2>2. d \in {"ask", "no-opinion"} => verdict'[r] \in {"ask", "no-opinion"} /\ pc'[r] = "probing"
    BY <1>0, <2>1 DEF TypeOK, CoerceForPermissionMode, Goto
  <2>3. OpenAt(r)'
    BY <1>0, <2>1, <2>2 DEF TypeOK, OpenAt, Open
  <2> QED BY <1>0, <1>3, <2>1, <2>3, OtherOpen DEF Decide, Goto, TypeOK
<1>4. ASSUME NEW r \in Runs, Probe(r) PROVE OpenInv'
  <2> DEFINE v == CoerceForPaneBypass(verdict[r], call[r].pane)
  <2>1. Open(r) => v = "allow"
    BY <1>0, <1>4 DEF Probe, CoerceForPaneBypass, DownstreamInv, DownstreamAt, OpenInv, OpenAt, Open
  <2>2. /\ verdict' = [verdict EXCEPT ![r] = v]
        /\ pc' = [pc EXCEPT ![r] = IF v \in {"allow", "deny"} THEN "writing" ELSE "passing"]
    BY <1>4 DEF Probe, Goto
  <2>3. Open(r)' = Open(r)
    BY <1>4 DEF Probe, Open
  <2> HIDE DEF v
  <2>4. OpenAt(r)'
    BY <1>0, <2>1, <2>2, <2>3 DEF TypeOK, OpenAt
  <2> QED BY <1>0, <1>4, <2>2, <2>4, OtherOpen DEF Probe, TypeOK
<1>5. ASSUME NEW r \in Runs, RunPassthrough(r) \/ NoPassthrough(r) PROVE OpenInv'
  <2>1. pc[r] = "passing" /\ Open(r)' = Open(r)
    BY <1>5 DEF RunPassthrough, NoPassthrough, Open
  <2>2. ~Open(r)
    BY <1>0, <2>1 DEF DownstreamInv, DownstreamAt, Unresolved, Open
  <2> QED BY <1>0, <1>5, <2>1, <2>2, OtherOpen
          DEF RunPassthrough, NoPassthrough, Goto, TypeOK, OpenAt
<1>6. ASSUME NEW r \in Runs, Answer(r) PROVE OpenInv'
  <2>1. (said[r] # "error" /\ McpBypassInput(call[r])) \in BOOLEAN
    BY DEF McpBypassInput
  <2>2. /\ pc[r] = "writing" /\ pc'[r] = "answered"
        /\ Open(r)' = Open(r) /\ stage' = stage /\ call' = call
    BY <1>0, <1>6 DEF Answer, Goto, TypeOK, Open
  <2>3. Open(r) => verdict[r] = "allow" /\ Installed(call[r])
    BY <2>2 DEF OpenInv, OpenAt, Open
  <2>4. Open(r) => LeavesNoPrompt(r)'
    BY <1>0, <1>6, <2>1, <2>2, <2>3, ApprovalWritten DEF Answer, TypeOK, LeavesNoPrompt
  <2>5. OpenAt(r)'
    BY <2>2, <2>4 DEF OpenAt
  <2> QED BY <1>0, <1>6, <2>5, OtherOpen DEF Answer, Goto, TypeOK
<1>7. ASSUME NEW r \in Runs, Finish(r) PROVE OpenInv'
  <2>1. PICK o \in Settles(call[r].agent, stage[r], answer[r].says) :
          result' = [result EXCEPT ![r] = o]
    BY <1>7 DEF Finish
  <2>2. Open(r) => LeavesNoPrompt(r) /\ answer[r].says # "downstream"
    BY <1>0, <1>7 DEF Finish, OpenInv, OpenAt, Open, DownstreamInv, DownstreamAt, Unresolved
  <2>3. Open(r) => o # "prompted" \/ answer[r].says = "lost"
    BY <2>1, <2>2 DEF LeavesNoPrompt, Settles
  <2>4. OpenAt(r)'
    BY <1>0, <1>7, <2>1, <2>3 DEF Finish, Goto, TypeOK, OpenAt, Open
  <2> QED BY <1>0, <1>7, <2>1, <2>4, OtherOpen DEF Finish, Goto, TypeOK
<1>8. ASSUME NEW r \in Runs, FireAgain(r) PROVE OpenInv'
  <2>1. OpenAt(r)'
    BY <1>0, <1>8 DEF FireAgain, Fire, TypeOK, OpenAt, Open
  <2> QED BY <1>0, <1>8, <2>1, OtherOpen DEF FireAgain, Fire, Goto, TypeOK
<1>9. ASSUME NEW r \in Runs, AgentDies(r) PROVE OpenInv'
  <2>1. OpenAt(r)'
    BY <1>0, <1>9 DEF AgentDies, Goto, TypeOK, OpenAt
  <2> QED BY <1>0, <1>9, <2>1, OtherOpen DEF AgentDies, Goto, TypeOK
<1>12. ASSUME NEW r \in Runs, HookDies(r) PROVE OpenInv'
  <2>1. OpenAt(r)'
    BY <1>0, <1>12 DEF HookDies, Goto, Lost, TypeOK, OpenAt, LeavesNoPrompt
  <2> QED BY <1>0, <1>12, <2>1, OtherOpen DEF HookDies, Goto, TypeOK
<1>10. ASSUME NEW new \in SUBSET Panes, FlagsBecome(new) PROVE OpenInv'
  <2> SUFFICES ASSUME NEW r \in Runs PROVE OpenAt(r)'
    BY <1>0 DEF OpenInv
  <2>1. steady'[r] => steady[r]
    BY <1>10 DEF FlagsBecome
  <2> QED BY <1>10, <2>1 DEF FlagsBecome, OpenInv, OpenAt, Open, LeavesNoPrompt
<1>11. CASE UNCHANGED checkVars
  BY <1>0, <1>11 DEF checkVars, hookVars, OpenInv, OpenAt, Open, LeavesNoPrompt
<1> QED BY <1>1, <1>2, <1>3, <1>4, <1>5, <1>6, <1>7, <1>8, <1>9, <1>10, <1>11, <1>12
        DEF Next, Hook, Agent

\* Under a flag that is on from the beginning to the end of a call the user is not asked,
\* by any agent, what the policy left open.
THEOREM Bypass == Spec => []BypassApproves
<1>1. Init => OpenInv
  <2>1. Init => DownstreamInv
    BY InitTypeInv DEF Init, Empty, DownstreamInv, DownstreamAt
  <2>2. Init => \A r \in Runs : OpenAt(r)
    BY DEF Init, OpenAt, Open
  <2> QED BY <2>1, <2>2 DEF OpenInv
<1>2. OpenInv => BypassApproves
  BY DEF OpenInv, OpenAt, Open, BypassApproves
<1> QED BY <1>1, <1>2, NextOpenInv, PTL DEF Spec

-----------------------------------------------------------------------------
(* The plugin that sets and clears the flags, and the hooks under it (PaneBypass). *)

\* An instance in the middle of a toggle has the permission and a pane.
AtWork(i) == plug[i].phase # "ready" => plug[i].granted /\ plug[i].focused \in Panes
PaneTypeInv ==
    /\ flags \subseteq Panes
    /\ PaneTypeOK
    /\ \A i \in Plugins : AtWork(i)

LEMMA InitPaneTypeInv == PaneInit => PaneTypeInv
BY PaneAssumption, SessionAssumption
DEF PaneInit, Init, PaneTypeInv, PaneTypeOK, AtWork, Plugin, Manifest, Loaded

\* A new layout goes to every instance and leaves the rest as it is.
LEMMA LayoutType ==
  ASSUME PaneTypeInv, NEW panes \in SUBSET Panes, Layout(panes)
  PROVE  /\ live' = panes /\ focus' \subseteq panes
         /\ inbox' \in [Plugins -> Seq(Manifest)]
         /\ \A i \in Plugins : inbox'[i] = Append(inbox[i], [live |-> panes, focus |-> focus'])
         /\ UNCHANGED <<flags, plug, session, swept>>
<1>1. live' = panes /\ focus' \subseteq panes
  BY DEF Layout
<1>2. [live |-> panes, focus |-> focus'] \in Manifest
  BY <1>1 DEF Manifest
<1>3. \A i \in Plugins : inbox'[i] = Append(inbox[i], [live |-> panes, focus |-> focus'])
  BY <1>1 DEF Layout
<1>4. \A i \in Plugins : inbox[i] \in Seq(Manifest)
  BY DEF PaneTypeInv, PaneTypeOK
<1>5. inbox' \in [Plugins -> Seq(Manifest)]
  <2>1. \A i \in Plugins : Append(inbox[i], [live |-> panes, focus |-> focus']) \in Seq(Manifest)
    BY <1>2, <1>4
  <2> QED BY <1>1, <2>1 DEF Layout
<1> QED BY <1>1, <1>3, <1>5 DEF Layout, checkVars

\* Taking a layout from the inbox of an instance.
LEMMA TailType ==
  ASSUME PaneTypeInv, NEW i \in Plugins, inbox[i] # <<>>,
         inbox' = [inbox EXCEPT ![i] = Tail(@)]
  PROVE  /\ inbox' \in [Plugins -> Seq(Manifest)]
         /\ Head(inbox[i]) \in Manifest /\ Head(inbox[i]) = inbox[i][1]
         /\ Len(inbox'[i]) = Len(inbox[i]) - 1 /\ Len(inbox[i]) \in Nat \ {0}
         /\ \A n \in 1..(Len(inbox[i]) - 1) : inbox'[i][n] = inbox[i][n + 1]
         /\ \A j \in Plugins \ {i} : inbox'[j] = inbox[j]
<1>1. inbox[i] \in Seq(Manifest)
  BY DEF PaneTypeInv, PaneTypeOK
<1> QED BY <1>1 DEF PaneTypeInv, PaneTypeOK

LEMMA NextPaneTypeInv == PaneTypeInv /\ [PaneNext]_vars => PaneTypeInv'
<1> SUFFICES ASSUME PaneTypeInv, [PaneNext]_vars PROVE PaneTypeInv'
  OBVIOUS
<1>1. ASSUME NEW p \in Panes \ used, Layout(live \cup {p}), used' = used \cup {p}
      PROVE  PaneTypeInv'
  <2>1. live \cup {p} \in SUBSET Panes
    BY DEF PaneTypeInv, PaneTypeOK
  <2> QED BY <1>1, <2>1, LayoutType DEF PaneTypeInv, PaneTypeOK, AtWork
<1>2. ASSUME NEW p \in live, Layout(live \ {p}), UNCHANGED used PROVE PaneTypeInv'
  <2>1. live \ {p} \in SUBSET Panes
    BY DEF PaneTypeInv, PaneTypeOK
  <2> QED BY <1>2, <2>1, LayoutType DEF PaneTypeInv, PaneTypeOK, AtWork
<1>3. CASE FocusPane
  <2>1. live \in SUBSET Panes /\ Layout(live) /\ UNCHANGED used
    BY <1>3 DEF FocusPane, PaneTypeInv, PaneTypeOK
  <2> QED BY <2>1, LayoutType DEF PaneTypeInv, PaneTypeOK, AtWork
<1>4. CASE NewSession
  <2>1. session \in Nat /\ 1 <= session /\ session < MaxSessions /\ session' = session + 1 /\ swept' = FALSE
    BY <1>4, SessionAssumption DEF NewSession, PaneTypeInv, PaneTypeOK
  <2>2. session' \in 1..MaxSessions
    BY <2>1, SessionAssumption
  <2>3. plug' \in [Plugins -> Plugin] /\ \A i \in Plugins : plug'[i].phase = "ready"
    BY <1>4 DEF NewSession, Loaded, Plugin
  <2>4. inbox' \in [Plugins -> Seq(Manifest)]
    BY <1>4 DEF NewSession
  <2>5. flags' = flags /\ live' = {} /\ focus' = {} /\ used' = {}
    BY <1>4 DEF NewSession, checkVars
  <2> QED BY <2>1, <2>2, <2>3, <2>4, <2>5 DEF PaneTypeInv, PaneTypeOK, AtWork
<1>5. ASSUME NEW i \in Plugins, Grant(i) PROVE PaneTypeInv'
  BY <1>5 DEF Grant, Ready, checkVars, PaneTypeInv, PaneTypeOK, AtWork, Plugin
<1>6. ASSUME NEW i \in Plugins, PaneUpdate(i) PROVE PaneTypeInv'
  <2>1. Head(inbox[i]) \in Manifest /\ inbox' \in [Plugins -> Seq(Manifest)]
    BY <1>6, TailType DEF PaneUpdate
  <2>2. PICK f \in Panes \cup {NoPane} : plug' = [plug EXCEPT ![i].focused = f]
    BY <1>6, <2>1 DEF PaneUpdate, Manifest
  <2>3. flags' \subseteq flags
    BY <1>6 DEF PaneUpdate, FlagsBecome, checkVars
  <2>4. plug' \in [Plugins -> Plugin] /\ \A j \in Plugins : AtWork(j)'
    BY <1>6, <2>2 DEF PaneUpdate, Ready, PaneTypeInv, PaneTypeOK, AtWork, Plugin
  <2>5. UNCHANGED <<live, focus, used, session>> /\ swept' \in BOOLEAN
    BY <1>6 DEF PaneUpdate, PaneTypeInv, PaneTypeOK, Plugin
  <2> QED BY <2>1, <2>3, <2>4, <2>5 DEF PaneTypeInv, PaneTypeOK
<1>7. ASSUME NEW i \in Plugins, Pipe(i) PROVE PaneTypeInv'
  <2>1. PICK phase \in {"remove", "create"} : plug' = [plug EXCEPT ![i].phase = phase]
    BY <1>7 DEF Pipe
  <2>2. plug \in [Plugins -> Plugin] /\ plug[i].granted /\ plug[i].focused \in Panes
    BY <1>7 DEF Pipe, PaneTypeInv, PaneTypeOK, Plugin
  <2>3. plug' \in [Plugins -> Plugin] /\ \A j \in Plugins : AtWork(j)'
    BY <2>1, <2>2 DEF PaneTypeInv, AtWork, Plugin
  <2> QED BY <1>7, <2>3 DEF Pipe, checkVars, PaneTypeInv, PaneTypeOK
<1>8. ASSUME NEW i \in Plugins, Toggle(i) PROVE PaneTypeInv'
  <2>1. plug[i].focused \in Panes
    BY <1>8 DEF Toggle, Ready, PaneTypeInv, AtWork
  <2>2. flags' \subseteq flags \cup {plug[i].focused}
    BY <1>8 DEF Toggle, FlagsBecome, checkVars
  <2>3. plug' \in [Plugins -> Plugin] /\ \A j \in Plugins : AtWork(j)'
    BY <1>8 DEF Toggle, PaneTypeInv, PaneTypeOK, AtWork, Plugin
  <2>4. UNCHANGED <<live, focus, used, inbox, session, swept>>
    BY <1>8 DEF Toggle
  <2> QED BY <2>1, <2>2, <2>3, <2>4 DEF PaneTypeInv, PaneTypeOK
<1>9. ASSUME NEW r \in Runs, Running(r) PROVE PaneTypeInv'
  <2>1. UNCHANGED flags
    BY <1>9 DEF Running, Begin, Fire, Hook, Read, Decide, Probe, RunPassthrough, NoPassthrough,
                Answer, Finish, FireAgain, HookDies, AgentDies
  <2> QED BY <1>9, <2>1 DEF Running, paneVars, PaneTypeInv, PaneTypeOK, AtWork
<1>10. CASE UNCHANGED vars
  BY <1>10 DEF vars, checkVars, paneVars, PaneTypeInv, PaneTypeOK, AtWork
<1> QED
  BY <1>1, <1>2, <1>3, <1>4, <1>5, <1>6, <1>7, <1>8, <1>9, <1>10 DEF PaneNext, OpenPane, ClosePane

\* The types of the session and of the instances.
THEOREM PaneTyping == PaneSpec => []PaneTypeOK
<1>1. PaneTypeInv => PaneTypeOK
  BY DEF PaneTypeInv
<1> QED BY <1>1, InitPaneTypeInv, NextPaneTypeInv, PTL DEF PaneSpec

\* Whatever a plugin instance does is a change of the flag files that HookCheck
\* allows, or nothing to a hook: what is shown of HookCheck holds under the plugin.
LEMMA PaneImplements == PaneSpec => Spec
<1>1. PaneInit => Init
  BY DEF PaneInit
<1>2. PaneTypeInv /\ [PaneNext]_vars => [Next]_checkVars
  <2> SUFFICES ASSUME PaneTypeInv, [PaneNext]_vars PROVE [Next]_checkVars
    OBVIOUS
  <2>1. ASSUME OpenPane \/ ClosePane \/ FocusPane \/ NewSession PROVE UNCHANGED checkVars
    BY <2>1 DEF OpenPane, ClosePane, FocusPane, NewSession, Layout
  <2>2. ASSUME NEW i \in Plugins, Grant(i) \/ Pipe(i) PROVE UNCHANGED checkVars
    BY <2>2 DEF Grant, Pipe
  <2>3. ASSUME NEW i \in Plugins, PaneUpdate(i) PROVE [Next]_checkVars
    <3>1. \A n : flags \cap n \in SUBSET Panes
      BY DEF PaneTypeInv
    <3> QED BY <2>3, <3>1 DEF PaneUpdate, Next, PaneTypeInv
  <2>4. ASSUME NEW i \in Plugins, Toggle(i) PROVE [Next]_checkVars
    <3>1. plug[i].focused \in Panes
      BY <2>4 DEF Toggle, Ready, PaneTypeInv, AtWork
    <3>2. flags \cup {plug[i].focused} \in SUBSET Panes /\ flags \ {plug[i].focused} \in SUBSET Panes
      BY <3>1 DEF PaneTypeInv
    <3> QED BY <2>4, <3>2 DEF Toggle, Next
  <2>5. ASSUME NEW r \in Runs, Running(r) PROVE Next
    BY <2>5 DEF Running, Next, Agent
  <2>6. CASE UNCHANGED vars
    BY <2>6 DEF vars
  <2> QED BY <2>1, <2>2, <2>3, <2>4, <2>5, <2>6 DEF PaneNext
<1> QED BY <1>1, <1>2, InitPaneTypeInv, NextPaneTypeInv, PTL DEF PaneSpec, Spec

-----------------------------------------------------------------------------
\* An instance has a layout without this pane still to handle.
Missing(i, p) == \E n \in 1..Len(inbox[i]) : p \notin inbox[i][n].live
\* What an instance has not handled yet ends in the layout of the session, and
\* tells of the end of the pane it believes focused.
LagAt(i) ==
    /\ \A n \in 1..Len(inbox[i]) : inbox[i][n].focus \subseteq inbox[i][n].live
    /\ inbox[i] # <<>> => inbox[i][Len(inbox[i])].live = live
    /\ plug[i].focused \in Panes \ live => Missing(i, plug[i].focused)
CleanInv ==
    /\ PaneTypeInv
    /\ \A i \in Plugins : LagAt(i)
    /\ swept /\ flags # {} => \E i \in Plugins : plug[i].granted
    /\ swept => \A p \in flags \ live : \E i \in Plugins : plug[i].granted /\ Missing(i, p)

\* A layout is one more thing to handle: nothing is forgotten, and every closed
\* pane is missing from it.
LEMMA LayoutLag ==
  ASSUME CleanInv, NEW panes \in SUBSET Panes, Layout(panes), NEW i \in Plugins
  PROVE  /\ LagAt(i)'
         /\ \A p : Missing(i, p) => Missing(i, p)'
         /\ \A p : p \notin panes => Missing(i, p)'
<1> DEFINE m == [live |-> panes, focus |-> focus']
<1>1. /\ live' = panes /\ focus' \subseteq panes
      /\ inbox'[i] = Append(inbox[i], m) /\ UNCHANGED plug
      /\ inbox[i] \in Seq(Manifest) /\ m \in Manifest
  BY LayoutType DEF CleanInv, PaneTypeInv, PaneTypeOK, Manifest
<1>2. /\ Len(inbox'[i]) = Len(inbox[i]) + 1 /\ Len(inbox[i]) \in Nat
      /\ inbox'[i][Len(inbox[i]) + 1] = m
      /\ \A n \in 1..Len(inbox[i]) : inbox'[i][n] = inbox[i][n]
  BY <1>1
<1>3. m.live = panes /\ m.focus \subseteq panes
  BY <1>1
<1> HIDE DEF m
<1>4. \A p : Missing(i, p) => Missing(i, p)'
  BY <1>2 DEF Missing
<1>5. \A p : p \notin panes => Missing(i, p)'
  BY <1>2, <1>3 DEF Missing
<1>6. ASSUME NEW n \in 1..Len(inbox'[i]) PROVE inbox'[i][n].focus \subseteq inbox'[i][n].live
  <2>1. CASE n = Len(inbox[i]) + 1
    BY <1>2, <1>3, <2>1
  <2>2. CASE n \in 1..Len(inbox[i])
    BY <1>2, <2>2 DEF CleanInv, LagAt
  <2> QED BY <1>2, <2>1, <2>2
<1>7. inbox'[i] # <<>> => inbox'[i][Len(inbox'[i])].live = live'
  BY <1>1, <1>2, <1>3
<1>8. LagAt(i)'
  BY <1>1, <1>5, <1>6, <1>7 DEF LagAt
<1> QED BY <1>4, <1>5, <1>8

\* A new layout keeps the invariant.
LEMMA LayoutClean ==
  ASSUME CleanInv, PaneTypeInv', NEW panes \in SUBSET Panes, Layout(panes)
  PROVE  CleanInv'
<1>1. /\ live' = panes /\ UNCHANGED <<flags, plug, session, swept>>
  BY LayoutType DEF CleanInv
<1>2. \A i \in Plugins : LagAt(i)'
  BY LayoutLag
<1>3. ASSUME swept, NEW p \in flags \ panes
      PROVE  \E i \in Plugins : plug[i].granted /\ Missing(i, p)'
  <2>1. PICK i \in Plugins : plug[i].granted
    BY <1>3 DEF CleanInv
  <2> QED BY <1>3, <2>1, LayoutLag
<1> QED BY <1>1, <1>2, <1>3 DEF CleanInv

LEMMA NextCleanInv == CleanInv /\ [PaneNext]_vars => CleanInv'
<1> SUFFICES ASSUME CleanInv, [PaneNext]_vars PROVE CleanInv'
  OBVIOUS
<1>0. PaneTypeInv /\ PaneTypeInv' /\ PaneTypeOK
  BY NextPaneTypeInv DEF CleanInv, PaneTypeInv
<1>1. CASE OpenPane \/ ClosePane \/ FocusPane
  <2>1. PICK panes \in SUBSET Panes : Layout(panes)
    BY <1>0, <1>1 DEF OpenPane, ClosePane, FocusPane, PaneTypeOK
  <2> QED BY <1>0, <2>1, LayoutClean
<1>2. CASE NewSession
  <2>1. ~swept'
    BY <1>2 DEF NewSession
  <2>2. \A i \in Plugins : inbox'[i] = <<>> /\ plug'[i] = Loaded
    BY <1>2 DEF NewSession
  <2>3. \A i \in Plugins : LagAt(i)'
    BY <2>2, PaneAssumption DEF LagAt, Loaded
  <2> QED BY <1>0, <2>1, <2>3 DEF CleanInv
<1>3. ASSUME NEW i \in Plugins, Grant(i) PROVE CleanInv'
  <2>1. \A j \in Plugins : /\ plug'[j].focused = plug[j].focused
                           /\ plug[j].granted => plug'[j].granted
    BY <1>0, <1>3 DEF Grant, PaneTypeOK, Plugin
  <2> QED BY <1>0, <1>3, <2>1 DEF Grant, checkVars, CleanInv, LagAt, Missing
<1>4. ASSUME NEW i \in Plugins, PaneUpdate(i) PROVE CleanInv'
  <2> DEFINE m == Head(inbox[i])
             kept == IF plug[i].granted THEN flags \cap m.live ELSE flags
  <2>1. /\ inbox[i] # <<>> /\ m \in Manifest /\ m = inbox[i][1]
        /\ Len(inbox'[i]) = Len(inbox[i]) - 1 /\ Len(inbox[i]) \in Nat \ {0}
        /\ \A n \in 1..(Len(inbox[i]) - 1) : inbox'[i][n] = inbox[i][n + 1]
        /\ \A j \in Plugins \ {i} : inbox'[j] = inbox[j]
    BY <1>0, <1>4, TailType DEF PaneUpdate
  <2>2. PICK f \in IF m.focus = {} THEN {NoPane} ELSE m.focus : plug' = [plug EXCEPT ![i].focused = f]
    BY <1>4 DEF PaneUpdate
  <2>3. flags' = kept /\ swept' = (swept \/ plug[i].granted) /\ UNCHANGED live
    BY <1>4 DEF PaneUpdate, FlagsBecome, checkVars
  <2>4. /\ plug'[i].focused = f
        /\ \A j \in Plugins : plug'[j].granted = plug[j].granted
        /\ \A j \in Plugins \ {i} : plug'[j] = plug[j]
    BY <1>0, <2>2 DEF PaneTypeOK, Plugin
  <2>5. \A j \in Plugins \ {i} : LagAt(j)' /\ \A p : Missing(j, p) => Missing(j, p)'
    BY <2>1, <2>3, <2>4 DEF CleanInv, LagAt, Missing
  <2>6. m.focus \subseteq m.live
    BY <2>1 DEF CleanInv, LagAt
  <2>7. \A p : Missing(i, p) => Missing(i, p)' \/ p \notin m.live
    <3> SUFFICES ASSUME NEW p, Missing(i, p), p \in m.live PROVE Missing(i, p)'
      OBVIOUS
    <3>1. PICK n \in 1..Len(inbox[i]) : p \notin inbox[i][n].live
      BY DEF Missing
    <3>2. n - 1 \in 1..(Len(inbox[i]) - 1) /\ inbox'[i][n - 1] = inbox[i][n]
      BY <2>1, <3>1
    <3> QED BY <2>1, <3>1, <3>2 DEF Missing
  <2>8. inbox'[i] # <<>> => inbox'[i][Len(inbox'[i])].live = live
    <3>1. inbox'[i] # <<>> => Len(inbox[i]) - 1 \in 1..(Len(inbox[i]) - 1)
      BY <1>0, <2>1 DEF PaneTypeInv, PaneTypeOK
    <3>2. inbox[i][Len(inbox[i])].live = live
      BY <2>1 DEF CleanInv, LagAt
    <3> QED BY <2>1, <3>1, <3>2
  <2>9. f \in Panes \ live => Missing(i, f)'
    <3> SUFFICES ASSUME f \in Panes \ live PROVE Missing(i, f)'
      OBVIOUS
    <3>1. f \in m.live
      BY <2>2, <2>6, PaneAssumption
    <3>2. inbox[i][Len(inbox[i])].live = live /\ Len(inbox[i]) \in 1..Len(inbox[i])
      BY <2>1 DEF CleanInv, LagAt
    <3>3. Missing(i, f)
      BY <3>2 DEF Missing
    <3> QED BY <2>7, <3>1, <3>3
  <2>10. LagAt(i)'
    <3>1. \A n \in 1..Len(inbox'[i]) : inbox'[i][n].focus \subseteq inbox'[i][n].live
      BY <2>1 DEF CleanInv, LagAt
    <3> QED BY <2>3, <2>4, <2>8, <2>9, <3>1 DEF LagAt
  <2>11. ASSUME swept', NEW p \in flags' \ live
         PROVE  \E j \in Plugins : plug'[j].granted /\ Missing(j, p)'
    <3>1. CASE ~swept
      <4>1. plug[i].granted /\ p \in m.live
        BY <2>3, <2>11, <3>1
      <4>2. inbox[i][Len(inbox[i])].live = live /\ Len(inbox[i]) \in 1..Len(inbox[i])
        BY <2>1 DEF CleanInv, LagAt
      <4>3. Missing(i, p)
        BY <2>11, <4>2 DEF Missing
      <4> QED BY <2>4, <2>7, <4>1, <4>3
    <3>2. CASE swept
      <4>1. PICK j \in Plugins : plug[j].granted /\ Missing(j, p)
        BY <2>3, <2>11, <3>2 DEF CleanInv
      <4>2. CASE j = i
        BY <2>3, <2>4, <2>7, <2>11, <4>1, <4>2
      <4>3. CASE j # i
        BY <2>4, <2>5, <4>1, <4>3
      <4> QED BY <4>2, <4>3
    <3> QED BY <3>1, <3>2
  <2>12. swept' /\ flags' # {} => \E j \in Plugins : plug'[j].granted
    BY <2>3, <2>4 DEF CleanInv
  <2> QED BY <1>0, <2>3, <2>5, <2>10, <2>11, <2>12 DEF CleanInv
<1>5. ASSUME NEW i \in Plugins, Pipe(i) PROVE CleanInv'
  <2>1. \A j \in Plugins : plug'[j].focused = plug[j].focused /\ plug'[j].granted = plug[j].granted
    BY <1>0, <1>5 DEF Pipe, PaneTypeOK, Plugin
  <2> QED BY <1>0, <1>5, <2>1 DEF Pipe, checkVars, CleanInv, LagAt, Missing
<1>6. ASSUME NEW i \in Plugins, Toggle(i) PROVE CleanInv'
  <2>1. \A j \in Plugins : plug'[j].focused = plug[j].focused /\ plug'[j].granted = plug[j].granted
    BY <1>0, <1>6 DEF Toggle, PaneTypeOK, Plugin
  <2>2. plug[i].granted /\ plug[i].focused \in Panes
    BY <1>0, <1>6 DEF Toggle, Ready, PaneTypeInv, AtWork
  <2>3. flags' \subseteq flags \cup {plug[i].focused} /\ UNCHANGED <<live, swept, inbox>>
    BY <1>6 DEF Toggle, FlagsBecome, checkVars
  <2>4. \A j \in Plugins : LagAt(j)'
    BY <2>1, <2>3 DEF CleanInv, LagAt, Missing
  <2>5. ASSUME swept, NEW p \in flags' \ live
        PROVE  \E j \in Plugins : plug'[j].granted /\ Missing(j, p)'
    <3>1. CASE p \in flags
      BY <2>1, <2>3, <2>5, <3>1 DEF CleanInv, Missing
    <3>2. CASE p = plug[i].focused
      BY <2>1, <2>2, <2>3, <2>5, <3>2 DEF CleanInv, LagAt, Missing
    <3> QED BY <2>3, <3>1, <3>2
  <2> QED BY <1>0, <2>1, <2>2, <2>3, <2>4, <2>5 DEF CleanInv
<1>7. ASSUME NEW r \in Runs, Running(r) PROVE CleanInv'
  <2>1. UNCHANGED flags
    BY <1>7 DEF Running, Begin, Fire, Hook, Read, Decide, Probe, RunPassthrough, NoPassthrough,
                Answer, Finish, FireAgain, HookDies, AgentDies
  <2> QED BY <1>0, <1>7, <2>1 DEF Running, paneVars, CleanInv, LagAt, Missing
<1>8. CASE UNCHANGED vars
  BY <1>0, <1>8 DEF vars, checkVars, paneVars, CleanInv, LagAt, Missing
<1> QED
  BY <1>1, <1>2, <1>3, <1>4, <1>5, <1>6, <1>7, <1>8 DEF PaneNext

\* In the first session of a name, and in a later one from its first cleanup on, the
\* flag of a closed pane never outlasts the layouts that tell of its end: some
\* instance that may delete it has one of them still to handle, however many
\* instances lag behind one another.
THEOREM Cleanup == PaneSpec => []CleanupPending
<1>1. PaneInit => CleanInv
  <2>1. ASSUME PaneInit PROVE \A i \in Plugins : LagAt(i)
    BY <2>1, PaneAssumption DEF PaneInit, LagAt, Loaded
  <2> QED BY <2>1, InitPaneTypeInv DEF PaneInit, CleanInv
<1>2. CleanInv => CleanupPending
  BY DEF CleanInv, Missing, CleanupPending
<1> QED BY <1>1, <1>2, NextCleanInv, PTL DEF PaneSpec

\* What is shown of hooks under any change of the flags holds under the plugin.
THEOREM ApprovalUnderPlugin == PaneSpec => []ApprovalJustified
BY PaneImplements, Approval, PTL

THEOREM DenialUnderPlugin == PaneSpec => []DeniedNeverRuns
BY PaneImplements, Denial, PTL
==============================================================================
