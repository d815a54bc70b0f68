---------------------------- MODULE MCHookCheck ----------------------------
(* Every wiring of one hook in one pane, and what its payload may look like. *)
EXTENDS HookCheck

CONSTANTS p1

\* The calls of hooks wired as installed.
Exact ==
    {c \in Call :
        /\ c.as = c.agent /\ c.event = "exact" /\ c.named
        /\ c.tool = "codex-mcp" => c.agent = "claude"
        /\ c.tool \in {"none", "other", "codex-mcp"}}
\* The calls of hooks wired by hand with the automatic choices.
Auto ==
    {c \in Call :
        /\ c.as = "auto" /\ c.event = "auto"
        /\ c.form = "object" /\ c.permission # "untyped"
        /\ c.tool = "codex-mcp" => c.agent = "claude"}
MCCalls == {c \in Exact \cup Auto : c.form = "malformed" => c.tool = "none"}
=============================================================================
