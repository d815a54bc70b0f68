-------------------------- MODULE MCShellDecision --------------------------
(* A wrapper, a database client, inline Python and commands of every kind. *)
EXTENDS ShellDecision

\* 1 wrapper, 2 psql, 3 python with a query, 4 rm, 5 echo, 6 [, 7 no command,
\* 8 bash -c with a program that is not known, 9 python that logs, 10 python with
\* a source that is not known
MCCommands == 1..10
MCBuiltin ==
    [c \in MCCommands |->
        CASE c = 5 -> "inert" [] c = 6 -> "marker" [] c = 7 -> "empty" [] c = 8 -> "opaque"
          [] OTHER -> "other"]
Calls(target) == [target |-> target, static |-> TRUE, texts |-> {"query"}, unsafe |-> FALSE]
MCSource ==
    (3 :> [static |-> TRUE, odd |-> FALSE, calls |-> {Calls("execute")}])
    @@ (9 :> [static |-> TRUE, odd |-> FALSE, calls |-> {Calls("log")}])
    @@ (10 :> [static |-> FALSE, odd |-> FALSE, calls |-> {}])

ToFile == [shape |-> "stdout_to_file", path |-> "tmp"]
Appends == [shape |-> "append_to_file", path |-> "etc"]
MCRedirects == {ToFile, Appends}

Shell(c, captured, paths) ==
    [kind |-> "shell", firm |-> {c}, wide |-> {c}, captures |-> (c :> captured), paths |-> paths]
Wrapper == Shell(1, Silent, {})
WrapperExec == Shell(1, [Silent EXCEPT !.exec = {4}], {})
\* The captured program is: rm; echo > tmp, and one that cannot be parsed.
Program == [parseable |-> TRUE,
            segments |-> <<Bare(4), [command |-> 5, redirects |-> {ToFile}]>>]
WrapperShell == Shell(1, [Silent EXCEPT !.shell = {Program}], {})
WrapperOdd == Shell(1, [Silent EXCEPT !.shell = {[parseable |-> FALSE, segments |-> <<>>]}], {})
Psql == Shell(2, [Silent EXCEPT !.sql = {[text |-> "query", profile |-> "any"]}], {})
Rm == Shell(4, Silent, {})
Echo == Shell(5, Silent, {"tmp"})
\* Deny and Ask rules match rm also where an option's value is in doubt.
Doubtful == [Rm EXCEPT !.firm = {}]
Query == [kind |-> "sql", name |-> "reads", texts |-> {"query"}]
Execute == [kind |-> "python", targets |-> {"execute"}, profile |-> "reads"]
ReadonlyRule == [kind |-> "readonly"]

Nothing == [rules |-> NoRules, calls |-> NoRules, redirection |-> Unset, paths |-> {}]
With(deny, ask, allow) == [Nothing EXCEPT !.rules = [Deny |-> deny, Ask |-> ask, Allow |-> allow]]

MCLayers ==
    {With(<<Rm>>, <<>>, <<WrapperExec>>), With(<<>>, <<>>, <<WrapperShell, Rm>>),
     With(<<>>, <<>>, <<Wrapper, Rm>>), With(<<>>, <<>>, <<WrapperOdd, Echo>>),
     With(<<>>, <<Rm>>, <<Rm, WrapperExec>>), With(<<Doubtful>>, <<>>, <<>>),
     With(<<>>, <<>>, <<Psql, Query>>), With(<<Query>>, <<>>, <<>>), With(<<>>, <<Query>>, <<Execute>>),
     With(<<Execute>>, <<>>, <<>>), With(<<>>, <<Execute>>, <<ReadonlyRule>>),
     [Nothing EXCEPT !.redirection.stdout_to_file = "Deny"],
     [Nothing EXCEPT !.redirection.append_to_file = "Allow"],
     [Nothing EXCEPT !.paths = {"tmp"}],
     [Nothing EXCEPT !.calls.Deny = <<"log">>], [Nothing EXCEPT !.calls.Allow = <<"log", "execute">>]}
\* A policy that denies rm, also through the wrapper, and one that allows the wrapper.
FloorLayers == {With(<<Rm>>, <<>>, <<WrapperExec>>), With(<<>>, <<>>, <<Wrapper>>)}
=============================================================================
