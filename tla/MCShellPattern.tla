--------------------------- MODULE MCShellPattern ---------------------------
(* Patterns of the documentation and the tests, cut down, and wrong ones. *)
EXTENDS ShellPattern

T(sigil, kind, members) == [sigil |-> sigil, kind |-> kind, members |-> members]
W(word) == T("", "word", <<word>>)
F(flag) == T("", "flag", <<flag>>)
Git == <<"git">>
Push == <<"push">>
C == <<"-", "C">>
Force == <<"--", "force">>
Short == <<"-", "f">>

\* git push, with options and exact; docker ... push; mise -- just; sed !{-f,--force}.
MCTexts == {
    <<W(Git), W(Push)>>,
    <<W(Git), W(Push), T("!", "gap", <<>>)>>,
    <<W(<<"bin", "/", "git">>), T("!", "set", <<Push, <<"p", "*">> >>), T("?", "set", <<Short>>)>>,
    <<T("", "values", <<C>>), W(Git), W(Push), F(Force), T("", "set", <<Short, C>>)>>,
    <<W(Git), T("", "gap", <<>>), W(Push), T("!", "gap", <<>>), T("!", "flag", <<Force>>)>>,
    <<W(Git), T("", "dashes", <<>>), W(Push)>>,
    <<W(Git), T("", "only", <<C, Short>>), T("", "values", <<C>>)>>,
    <<W(Git), F(<<"-", "C", "=", "p", "*">>), T("!", "set", <<Force, Short>>)>>,
    <<W(Git), F(<<"--", "force", "=", "push">>), T("!", "anyflag", <<>>)>>,
    <<W(Git), T("", "exec", <<>>)>>,
    <<W(Git), T("", "sql", <<>>), T("", "sqlvalues", <<C>>), T("", "anyflag", <<>>)>>,
    <<W(Git), T("", "sqlvalues", <<C, Force>>), T("", "stdin", <<>>)>>,
    <<W(Git), T("", "gap", <<>>), W(Push), T("", "shell", <<>>)>>,
    \* Refused: no command, ?..., an open and closed set, an <EXEC> with options.
    <<F(Force)>>, <<W(Git), T("?", "gap", <<>>)>>,
    <<W(Git), T("", "anyflag", <<>>), T("!", "anyflag", <<>>)>>,
    <<W(Git), F(Short), T("", "exec", <<>>)>> }

MCPrograms == { Git, <<"bin", "/", "git">> }
MCArguments == { Push, <<"$x">>, Dashes, <<"-">>, Short, C, <<"-", "f", "C", "=", "push">>, <<"-", "C", "p">>, Force,
                 <<"--", "force", "=", "'", "push", "'">> }
MCStrangers == {<<"-", "z">>, <<"-", "y", "z">>, <<"--", "zone">>}
MCInputs == { None, <<"select">> }
=============================================================================
