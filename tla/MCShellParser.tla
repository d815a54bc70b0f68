---------------------------- MODULE MCShellParser ----------------------------
(* Lines for ShellParser: a few commands and the wrappers that are told apart. *)
EXTENDS ShellParser

W(letter) == Word(<<letter>>)
O(letters) == Word(<<"-">> \o letters)

MCSimple ==
    {Command(<<W("rm"), W("x")>>), Command(<<W("timeout"), W("rm")>>),
     Command(<<W("command"), O(<<"p">>), O(<<"v">>), W("rm")>>),
     Node("declaration", <<>>, <<W("export"), W("A")>>, <<>>, <<>>), Broken}
MCBeside == {Command(<<W("rm"), W("y")>>)}
MCExecs ==
    {<<W("env"), O(<<"i">>), Word(<<"X", "=">>)>>, <<W("nice"), O(<<"n">>), W("5")>>,
     <<W("nohup"), Word(<<"--">>)>>, <<W("env")>>}
MCPrograms ==
    {<<W("bash"), O(<<"c">>)>>, <<W("sh"), O(<<"l">>), O(<<"x", "c">>)>>,
     <<W("bash"), Word(<<"--", "norc">>), O(<<"c">>)>>, <<W("zsh"), O(<<"c", "l">>)>>,
     <<W("eval")>>}
MCLate == {<<W("late")>>}
=============================================================================
