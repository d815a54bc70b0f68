--------------------------- MODULE MCPolicyWriters ---------------------------
(* Documents as users write them, comments and slips to insert, edits and merges. *)
EXTENDS PolicyWriters

MCDocuments ==
    { \* On one line, a list missing, an unknown key.
      <<"{", "permissions", ":", "{", "allow", ":", "[", "Write", ",", "'Read'", "]", "}", ",",
        "extra", ":", "x", "}">>,
      \* On lines, with comments, a trailing comma, a rule given as two values and a typo.
      <<"{", NL, "//", "allow", "]", NL, "shell", ":", "deny", ",", NL,
        "permissions", ":", "{", NL,
        "allow", ":", "[", NL, "Read", ",", "//", "Write", ",", NL, "Read(*)", NL, "]", ",", NL,
        "ask", ":", "[", "typo", ",", "]", NL, "}", NL, "}", NL>>,
      \* An empty list with a comment, a setting that is no decision.
      <<"{", "shell", ":", "typo", ",", NL, "permissions", ":", "{", "ask", ":", "[", "/*", "Write",
        NL, "*/", "]", NL, "}", ",", NL, "}", NL>>,
      \* A key given twice; a decision that is no array.
      <<"{", "permissions", ":", "{", "allow", ":", "[", "Write", "]", ",",
        "allow", ":", "[", "Read", "]", "}", "}">>,
      <<"{", "permissions", ":", "{", "ask", ":", "Write", "}", "}">> }

MCChunks == { <<NL>>, <<"//", "Write", ",", NL>>, <<"//">>, <<"/*", NL, "]", "*/">>, <<",">> }

MCRules == {"Read", "Read(*)", "Write", "typo"}
MCEdits ==
    [action : {"add", "remove"}, decision : {"allow", "ask"}, rule : MCRules]
    \cup [action : {"replace"}, decision : {"allow"}, rule : {"Read(*)", "Write"},
          old : {"Read", "Read(*)", "typo"}]

Lists(allow, ask, deny) == [d \in Decisions |->
    CASE d = "allow" -> allow [] d = "ask" -> ask [] OTHER -> deny]
MCAdded == {
    [name |-> "import", lists |-> Lists(<<"Read", "Read">>, <<>>, <<"Write">>), setting |-> Unset],
    [name |-> "init", lists |-> Lists(<<"Write">>, <<"Read">>, <<>>), setting |-> "ask"] }
=============================================================================
