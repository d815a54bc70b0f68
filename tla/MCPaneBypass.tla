---------------------------- MODULE MCPaneBypass ----------------------------
(* A Codex call, with its two hooks, in a pane of a session with two tabs. *)
EXTENDS PaneBypass, TLC

CONSTANT p1

\* A Codex tool call in the pane.
MCCalls ==
    {[agent |-> "codex", as |-> "codex", event |-> "exact", named |-> TRUE,
      form |-> "object", tool |-> "other", permission |-> "none",
      mode |-> "default", pane |-> p1, downstream |-> FALSE]}
=============================================================================
