--------------------------- MODULE MCPolicyLayers ---------------------------
(* Documents that include each other at will, two matching rules. *)
EXTENDS PolicyLayers

CONSTANTS r1, r2

Holds(deny, ask, allow, includes) ==
    {[Deny |-> deny, Ask |-> ask, Allow |-> allow, include |-> i, ok |-> TRUE]
        : i \in includes}
\* Documents without rules, with Ask and Allow, and with Allow, that include each
\* other at will; one with Deny, and one that cannot be read.
MCContents ==
    {Broken} \cup Holds(<<r1>>, <<>>, <<>>, {{}})
    \cup UNION {Holds(<<>>, <<>>, <<>>, SUBSET Documents),
                Holds(<<>>, <<r1>>, <<r2>>, SUBSET Documents),
                Holds(<<>>, <<>>, <<r1>>, SUBSET Documents)}
MCMatching == Lists \X Rules
MCSymmetry == Permutations(Documents)
=============================================================================
