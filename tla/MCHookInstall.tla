--------------------------- MODULE MCHookInstall ---------------------------
(* Hand edits in one list of every kind of file. *)
EXTENDS HookInstall

MCEditable == {<<<<"direct", "claude">>, "pre">>, <<<<"rulesync", "codex">>, "perm">>,
               <<<<"agent", "global">>, "pre">>, <<Standalone, "pre">>}
\* Two hooks in a group, one composed with the other tool's, and a second composition.
MCArranged ==
    {<<f, "pre", <<[matcher |-> "some", hooks |-> <<Foreign("literal"), Bridge("expanded")>>],
                   Group("some", Bridge("literal"))>>>>
        : f \in {<<"direct", "gemini">>, <<"agent", "global">>}}
\* One command is plain words; another is its words only after the shell has expanded it.
MCQuoted == [c \in Tools |-> IF c = "expanded" THEN "literal" ELSE c]
=============================================================================
