------------------------- MODULE ShellPatternProofs -------------------------
(* Theorems about ShellPattern, for every set of patterns and of arguments: what *)
(* the matching of a path computes is what the document says of paths, a rule    *)
(* that denies matches what one that allows does, and no option hides a command. *)
EXTENDS ShellPattern, DataFacts

-----------------------------------------------------------------------------
(* The recursion of MatchPath. *)

\* When e is among the counts at p and o, given the counts at what follows.
Leads(c, path, operands, optional, p, o, e) ==
    \/ p > Len(path) /\ o + 1 \notin optional /\ e = o
    \/ (p > Len(path) \/ path[p].kind # "exec") /\ o + 1 \in optional /\ e \in c[<<p, o + 1>>]
    \/ p <= Len(path) /\ path[p].kind = "gap" /\ \E k \in o..Len(operands) : e \in c[<<p + 1, k>>]
    \/ p <= Len(path) /\ path[p].kind = "exec" /\ o < Len(operands) /\ e = Len(operands)
    \/ /\ p <= Len(path) /\ path[p].kind \notin {"gap", "exec"}
       /\ o < Len(operands) /\ Hit(path[p], operands, o + 1) /\ e \in c[<<p + 1, o + 1>>]

\* The right side of the recursion.
Body(c, path, operands, optional, p, o) ==
    LET skipped == IF o + 1 \in optional THEN c[<<p, o + 1>>] ELSE {}
    IN CASE p > Len(path) -> IF o + 1 \in optional THEN skipped ELSE {o}
         [] p <= Len(path) /\ path[p].kind = "gap" ->
                (UNION {c[<<p + 1, n>>] : n \in o..Len(operands)}) \cup skipped
         [] p <= Len(path) /\ path[p].kind = "exec" ->
                IF o < Len(operands) THEN {Len(operands)} ELSE {}
         [] OTHER ->
                skipped \cup (IF o < Len(operands) /\ Hit(path[p], operands, o + 1)
                              THEN c[<<p + 1, o + 1>>] ELSE {})

LEMMA BodyLeads ==
  ASSUME NEW c, NEW path, NEW operands, NEW optional, Len(path) \in Nat,
         NEW p \in 1..(Len(path) + 1), NEW o, NEW e
  PROVE  e \in Body(c, path, operands, optional, p, o) <=> Leads(c, path, operands, optional, p, o, e)
<1> DEFINE hit == o < Len(operands) /\ Hit(path[p], operands, o + 1)
           above == UNION {c[<<p + 1, n>>] : n \in o..Len(operands)}
<1>1. e \in above <=> \E k \in o..Len(operands) : e \in c[<<p + 1, k>>]
  OBVIOUS
<1> HIDE DEF above, hit
<1>2. CASE p > Len(path)
  BY <1>2 DEF Body, Leads
<1>3. CASE p <= Len(path) /\ path[p].kind = "gap"
  <2>1. Body(c, path, operands, optional, p, o) =
            above \cup (IF o + 1 \in optional THEN c[<<p, o + 1>>] ELSE {})
    BY <1>3 DEF Body, above
  <2>2. Leads(c, path, operands, optional, p, o, e) <=>
            e \in above \/ (o + 1 \in optional /\ e \in c[<<p, o + 1>>])
    BY <1>1, <1>3 DEF Leads
  <2> QED BY <2>1, <2>2
<1>4. CASE p <= Len(path) /\ path[p].kind = "exec"
  BY <1>4 DEF Body, Leads
<1>5. CASE p <= Len(path) /\ path[p].kind \notin {"gap", "exec"}
  <2>1. Body(c, path, operands, optional, p, o) =
            (IF o + 1 \in optional THEN c[<<p, o + 1>>] ELSE {})
            \cup (IF hit THEN c[<<p + 1, o + 1>>] ELSE {})
    BY <1>5 DEF Body, hit
  <2> QED BY <1>5, <2>1 DEF Leads, hit
<1> QED BY <1>2, <1>3, <1>4, <1>5

LEMMA LeadsWithin ==
  ASSUME NEW path, NEW operands, Len(path) \in Nat, Len(operands) \in Nat,
         NEW optional, optional \subseteq 2..Len(operands),
         NEW c \in [Points(path, operands) -> SUBSET (0..Len(operands))],
         NEW p \in 1..(Len(path) + 1), NEW o \in 0..Len(operands), NEW e,
         Leads(c, path, operands, optional, p, o, e)
  PROVE  e \in 0..Len(operands)
<1> DEFINE P == Points(path, operands)
<1>1. \A k \in 0..Len(operands) : <<p, k>> \in P /\ (p <= Len(path) => <<p + 1, k>> \in P)
  BY DEF Points
<1>2. /\ o + 1 \in optional => o + 1 \in 0..Len(operands)
      /\ o < Len(operands) => o + 1 \in 0..Len(operands)
      /\ o..Len(operands) \subseteq 0..Len(operands)
  OBVIOUS
<1>3. \A at \in P : c[at] \subseteq 0..Len(operands)
  OBVIOUS
<1> HIDE DEF P
<1>4. o + 1 \in optional /\ e \in c[<<p, o + 1>>] => e \in 0..Len(operands)
  BY <1>1, <1>2, <1>3
<1>5. ASSUME p <= Len(path), NEW k \in 0..Len(operands), e \in c[<<p + 1, k>>]
      PROVE  e \in 0..Len(operands)
  BY <1>1, <1>3, <1>5
<1>6. CASE p <= Len(path) /\ \E k \in o..Len(operands) : e \in c[<<p + 1, k>>]
  BY <1>2, <1>5, <1>6
<1>7. CASE p <= Len(path) /\ o < Len(operands) /\ e \in c[<<p + 1, o + 1>>]
  BY <1>2, <1>5, <1>7
<1>8. CASE e = o \/ e = Len(operands)
  BY <1>8
<1> QED BY <1>4, <1>6, <1>7, <1>8 DEF Leads

\* The counts: a function that solves the recursion.
Solves(c, path, operands, optional) ==
    \A p \in 1..(Len(path) + 1), o \in 0..Len(operands) : \A e :
        e \in c[<<p, o>>] <=> Leads(c, path, operands, optional, p, o, e)

\* It exists, as the least of the functions that hold all that they lead to.
LEMMA CountsExist ==
  ASSUME NEW path, NEW operands, Len(path) \in Nat, Len(operands) \in Nat,
         NEW optional, optional \subseteq 2..Len(operands)
  PROVE  \E c \in [Points(path, operands) -> SUBSET (0..Len(operands))] :
            Solves(c, path, operands, optional)
<1> DEFINE n == Len(path)
           m == Len(operands)
           P == Points(path, operands)
           V == [P -> SUBSET (0..m)]
           L(c, at, e) == Leads(c, path, operands, optional, at[1], at[2], e)
           C == {c \in V : \A at \in P, e \in 0..m : L(c, at, e) => e \in c[at]}
           least == [at \in P |-> {e \in 0..m : \A c \in C : e \in c[at]}]
           next == [at \in P |-> {e \in 0..m : L(least, at, e)}]
<1>1. \A p, o : <<p, o>> \in P <=> p \in 1..(n + 1) /\ o \in 0..m
  BY DEF Points
<1>2. ASSUME NEW c \in V, NEW d \in V, \A at \in P : c[at] \subseteq d[at],
             NEW at \in P, NEW e, L(c, at, e)
      PROVE  L(d, at, e)
  <2>1. PICK p \in 1..(n + 1), o \in 0..m : at = <<p, o>>
    BY DEF Points
  <2>2. o + 1 \in optional => <<p, o + 1>> \in P
    BY <1>1
  <2>3. p <= n => \A k \in o..m : <<p + 1, k>> \in P
    BY <1>1
  <2>4. p <= n /\ o < m => <<p + 1, o + 1>> \in P
    BY <1>1
  <2>5. at[1] = p /\ at[2] = o
    BY <2>1
  <2> HIDE DEF P, V
  <2> QED BY <1>2, <2>2, <2>3, <2>4, <2>5 DEF Leads
<1>3. least \in V /\ next \in V
  OBVIOUS
<1>4. \A c \in C, at \in P : least[at] \subseteq c[at]
  OBVIOUS
<1>5. \A at \in P : next[at] \subseteq least[at]
  <2> SUFFICES ASSUME NEW at \in P, NEW e \in 0..m, L(least, at, e), NEW c \in C
               PROVE  e \in c[at]
    OBVIOUS
  <2>1. c \in V /\ \A x \in P : least[x] \subseteq c[x]
    BY <1>4
  <2> HIDE DEF least, next, L, P, V
  <2>2. L(c, at, e)
    BY <1>2, <1>3, <2>1
  <2> QED BY <2>2
<1>6. next \in C
  <2> SUFFICES ASSUME NEW at \in P, NEW e \in 0..m, L(next, at, e) PROVE e \in next[at]
    BY <1>3
  <2> HIDE DEF least, L, P, V
  <2>1. L(least, at, e)
    <3> HIDE DEF next
    <3> QED BY <1>2, <1>3, <1>5
  <2> QED BY <2>1
<1>7. \A at \in P : least[at] = next[at]
  <2> HIDE DEF least, next, C, P
  <2> QED BY <1>4, <1>5, <1>6
<1>8. \A p \in 1..(n + 1), o \in 0..m : \A e :
            e \in least[<<p, o>>] <=> Leads(least, path, operands, optional, p, o, e)
  <2> SUFFICES ASSUME NEW p \in 1..(n + 1), NEW o \in 0..m, NEW e
               PROVE  e \in least[<<p, o>>] <=> Leads(least, path, operands, optional, p, o, e)
    OBVIOUS
  <2>1. <<p, o>> \in P /\ <<p, o>>[1] = p /\ <<p, o>>[2] = o
    BY <1>1
  <2>2. e \in next[<<p, o>>] <=> e \in 0..m /\ L(least, <<p, o>>, e)
    <3> HIDE DEF least, L, P
    <3> QED BY <2>1
  <2>3. L(least, <<p, o>>, e) => e \in 0..m
    <3> HIDE DEF least
    <3> QED BY <1>3, <2>1, LeadsWithin
  <2> HIDE DEF least, next, P
  <2> QED BY <1>7, <2>1, <2>2, <2>3
<1> HIDE DEF least
<1> QED BY <1>3, <1>8 DEF Solves

LEMMA CountsAre ==
  ASSUME NEW path, NEW operands, Len(path) \in Nat, Len(operands) \in Nat,
         NEW optional, optional \subseteq 2..Len(operands)
  PROVE  \E c : Solves(c, path, operands, optional) /\ MatchPath(path, operands, optional) = c[<<1, 0>>]
<1> DEFINE P == Points(path, operands)
           F(c) == [at \in P |-> Body(c, path, operands, optional, at[1], at[2])]
           counts == CHOOSE c : c = F(c)
<1>1. MatchPath(path, operands, optional) = counts[<<1, 0>>]
  BY DEF MatchPath, Body
<1>2. PICK c \in [P -> SUBSET (0..Len(operands))] : Solves(c, path, operands, optional)
  BY CountsExist
<1>3. ASSUME NEW at \in P, NEW d
      PROVE  \E p \in 1..(Len(path) + 1), o \in 0..Len(operands) :
                /\ at = <<p, o>> /\ at[1] = p /\ at[2] = o
                /\ \A e : e \in Body(d, path, operands, optional, p, o)
                            <=> Leads(d, path, operands, optional, p, o, e)
  <2>1. PICK p \in 1..(Len(path) + 1), o \in 0..Len(operands) : at = <<p, o>>
    BY DEF Points
  <2>2. \A e : e \in Body(d, path, operands, optional, p, o)
                <=> Leads(d, path, operands, optional, p, o, e)
    BY BodyLeads
  <2> QED BY <2>1, <2>2
<1>4. ASSUME NEW at \in P PROVE c[at] = Body(c, path, operands, optional, at[1], at[2])
  <2>1. PICK p \in 1..(Len(path) + 1), o \in 0..Len(operands) :
                /\ at = <<p, o>> /\ at[1] = p /\ at[2] = o
                /\ \A e : e \in Body(c, path, operands, optional, p, o)
                            <=> Leads(c, path, operands, optional, p, o, e)
    BY <1>3
  <2>2. \A e : e \in c[at] <=> e \in Body(c, path, operands, optional, p, o)
    BY <1>2, <2>1 DEF Solves
  <2>3. c[at] = Body(c, path, operands, optional, p, o)
    BY <2>2, Zenon
  <2> QED BY <2>1, <2>3
<1>5. counts = F(counts)
  <2>1. c = [at \in P |-> c[at]]
    BY <1>2
  <2> HIDE DEF P
  <2>2. c = F(c)
    BY <1>4, <2>1, Zenon
  <2> QED BY <2>2
<1> HIDE DEF counts
<1>6. Solves(counts, path, operands, optional)
  <2> SUFFICES ASSUME NEW p \in 1..(Len(path) + 1), NEW o \in 0..Len(operands), NEW e
               PROVE  e \in counts[<<p, o>>] <=> Leads(counts, path, operands, optional, p, o, e)
    BY DEF Solves
  <2>1. <<p, o>> \in P /\ <<p, o>>[1] = p /\ <<p, o>>[2] = o
    BY DEF Points
  <2> HIDE DEF P
  <2>2. counts[<<p, o>>] = Body(counts, path, operands, optional, p, o)
    BY <1>5, <2>1
  <2> QED BY <2>2, BodyLeads
<1> QED BY <1>1, <1>6

\* What holds at p and o when it holds at all later operands, and at every operand for the
\* next term, holds everywhere.
Backwards(R, n, m) ==
    \A p \in 1..(n + 1), o \in 0..m :
        /\ \A k \in (o + 1)..m : <<p, k>> \in R
        /\ p <= n => \A k \in 0..m : <<p + 1, k>> \in R
        => <<p, o>> \in R
LEMMA FromTheEnd ==
  ASSUME NEW n \in Nat, NEW m \in Nat, NEW R, Backwards(R, n, m)
  PROVE  \A p \in 1..(n + 1), o \in 0..m : <<p, o>> \in R
<1> DEFINE Row(p) == \A o \in 0..m : <<p, o>> \in R
           T == {k \in Nat : k <= n => Row((n + 1) - k)}
<1>1. ASSUME NEW p \in 1..(n + 1), p <= n => Row(p + 1) PROVE Row(p)
  <2> DEFINE U == {k \in Nat : \A o \in 0..m : m - o < k => <<p, o>> \in R}
  <2>1. 0 \in U
    OBVIOUS
  <2>2. ASSUME NEW k \in U PROVE k + 1 \in U
    <3> SUFFICES ASSUME NEW o \in 0..m, m - o < k + 1 PROVE <<p, o>> \in R
      OBVIOUS
    <3>1. \A l \in (o + 1)..m : l \in 0..m /\ m - l < k
      OBVIOUS
    <3>2. \A l \in (o + 1)..m : <<p, l>> \in R
      BY <3>1
    <3> QED BY <1>1, <3>2 DEF Backwards
  <2>3. U \in SUBSET Nat
    OBVIOUS
  <2>4. U = Nat
    <3> HIDE DEF U
    <3> QED BY <2>1, <2>2, <2>3, Inductive
  <2>5. m + 1 \in U
    <3> HIDE DEF U
    <3> QED BY <2>4
  <2> QED BY <2>5
<1>2. 0 \in T
  <2>1. (n + 1) - 0 = n + 1 /\ n + 1 \in 1..(n + 1) /\ ~(n + 1 <= n)
    OBVIOUS
  <2> HIDE DEF Row
  <2> QED BY <1>1, <2>1
<1>3. ASSUME NEW k \in T PROVE k + 1 \in T
  <2> SUFFICES ASSUME k + 1 <= n PROVE Row((n + 1) - (k + 1))
    OBVIOUS
  <2>1. /\ k \in Nat /\ k <= n /\ (n + 1) - (k + 1) \in 1..(n + 1)
        /\ ((n + 1) - (k + 1)) + 1 = (n + 1) - k
    OBVIOUS
  <2> HIDE DEF Row
  <2>2. Row((n + 1) - k)
    BY <2>1
  <2> QED BY <1>1, <2>1, <2>2
<1>4. T \in SUBSET Nat
  OBVIOUS
<1>5. T = Nat
  <2> HIDE DEF T
  <2> QED BY <1>2, <1>3, <1>4, Inductive
<1>6. ASSUME NEW p \in 1..(n + 1) PROVE Row(p)
  <2>1. p = n + 1 \/ p \in 1..n
    OBVIOUS
  <2>2. CASE p = n + 1
    <3>1. 0 \in T /\ 0 <= n /\ (n + 1) - 0 = p
      BY <1>2, <2>2
    <3> HIDE DEF Row
    <3> QED BY <3>1
  <2>3. CASE p \in 1..n
    <3>1. (n + 1) - p \in Nat /\ (n + 1) - p <= n /\ (n + 1) - ((n + 1) - p) = p
      BY <2>3
    <3>2. (n + 1) - p \in T
      <4> HIDE DEF T
      <4> QED BY <1>5, <3>1
    <3> HIDE DEF Row
    <3> QED BY <3>1, <3>2
  <2> QED BY <2>1, <2>2, <2>3
<1> QED BY <1>6

-----------------------------------------------------------------------------
(* Walks: how the terms of a path take the operands, some of which are gone. *)

\* The term at i takes the operands from a + 1 to b.
Takes(path, operands, gone, i, a, b) ==
    /\ a <= b
    /\ path[i].kind = "exec" => b = Len(operands) /\ \E k \in (a + 1)..b : k \notin gone
    /\ path[i].kind \notin {"gap", "exec"} =>
            /\ a < b /\ b \notin gone /\ \A k \in (a + 1)..(b - 1) : k \in gone
            /\ Hit(path[i], operands, b)
\* The terms from p on take the operands from o + 1 on, and those up to e that follow are gone.
Walks(path, operands, gone, end, p, o, e) ==
    /\ end \in [(p - 1)..Len(path) -> o..Len(operands)]
    /\ end[p - 1] = o
    /\ \A i \in p..Len(path) : Takes(path, operands, gone, i, end[i - 1], end[i])
    /\ e \in end[Len(path)]..Len(operands)
    /\ \A k \in (end[Len(path)] + 1)..e : k \in gone
Later(optional, o) == {k \in optional : k > o}
Reached(path, operands, optional, p, o, e) ==
    \E gone \in SUBSET Later(optional, o) : \E end : Walks(path, operands, gone, end, p, o, e)

\* A path in which nothing follows an <EXEC>.
ExecLast(path) == \A i \in 1..Len(path) : path[i].kind = "exec" => i = Len(path)

\* One more term before a walk.
LEMMA WalksBefore ==
  ASSUME NEW path, NEW operands, Len(path) \in Nat, Len(operands) \in Nat,
         NEW gone, NEW end, NEW p \in 1..Len(path), NEW o \in 0..Len(operands),
         NEW b \in 0..Len(operands), NEW e,
         Walks(path, operands, gone, end, p + 1, b, e), Takes(path, operands, gone, p, o, b)
  PROVE  \E start : Walks(path, operands, gone, start, p, o, e)
<1> DEFINE n == Len(path)
           m == Len(operands)
           start == [i \in (p - 1)..n |-> IF i = p - 1 THEN o ELSE end[i]]
<1>1. o <= b /\ (p + 1) - 1 = p
  BY DEF Takes
<1>2. /\ end \in [p..n -> b..m] /\ end[p] = b
      /\ \A i \in (p + 1)..n : Takes(path, operands, gone, i, end[i - 1], end[i])
      /\ e \in end[n]..m /\ \A k \in (end[n] + 1)..e : k \in gone
  BY <1>1 DEF Walks
<1>3. \A i \in p..n : i \in (p - 1)..n /\ i # p - 1 /\ end[i] \in o..m
  BY <1>1, <1>2
<1>4. start \in [(p - 1)..n -> o..m]
  BY <1>3
<1>5. start[p - 1] = o /\ \A i \in p..n : start[i] = end[i]
  BY <1>3
<1> HIDE DEF start
<1>6. ASSUME NEW i \in p..n PROVE Takes(path, operands, gone, i, start[i - 1], start[i])
  <2>1. CASE i = p
    BY <1>2, <1>5, <2>1
  <2>2. CASE i # p
    <3>1. i \in (p + 1)..n /\ i - 1 \in p..n
      BY <2>2
    <3> QED BY <1>2, <1>5, <3>1
  <2> QED BY <2>1, <2>2
<1>7. start[n] = end[n]
  BY <1>5
<1> QED BY <1>2, <1>4, <1>5, <1>6, <1>7 DEF Walks

\* One more operand that is gone before a walk.
LEMMA WalksSkipping ==
  ASSUME NEW path, NEW operands, Len(path) \in Nat, Len(operands) \in Nat,
         NEW gone, NEW end, NEW p \in 1..(Len(path) + 1), NEW o \in 0..(Len(operands) - 1), NEW e,
         Walks(path, operands, gone, end, p, o + 1, e),
         p <= Len(path) => path[p].kind # "exec"
  PROVE  \E start : Walks(path, operands, gone \cup {o + 1}, start, p, o, e)
<1> DEFINE n == Len(path)
           m == Len(operands)
           more == gone \cup {o + 1}
           start == [i \in (p - 1)..n |-> IF i = p - 1 THEN o ELSE end[i]]
<1>1. /\ end \in [(p - 1)..n -> (o + 1)..m] /\ end[p - 1] = o + 1
      /\ \A i \in p..n : Takes(path, operands, gone, i, end[i - 1], end[i])
      /\ e \in end[n]..m /\ \A k \in (end[n] + 1)..e : k \in gone
  BY DEF Walks
<1>2. \A i \in (p - 1)..n : end[i] \in (o + 1)..m
  BY <1>1
<1>3. start \in [(p - 1)..n -> o..m]
  BY <1>2
<1>4. start[p - 1] = o /\ \A i \in p..n : start[i] = end[i]
  OBVIOUS
<1> HIDE DEF start
<1>5. ASSUME NEW i \in p..n PROVE Takes(path, operands, more, i, start[i - 1], start[i])
  <2>1. Takes(path, operands, gone, i, end[i - 1], end[i])
    BY <1>1
  <2>2. end[i - 1] \in (o + 1)..m /\ end[i] \in (o + 1)..m
    BY <1>2
  <2>3. \A k \in (end[i - 1] + 1)..m : k \notin gone => k \notin more
    BY <2>2
  <2>4. Takes(path, operands, more, i, end[i - 1], end[i])
    BY <2>1, <2>2, <2>3 DEF Takes
  <2>5. CASE i = p
    <3>1. path[i].kind # "exec" /\ start[i - 1] = o /\ start[i] = end[i] /\ end[i - 1] = o + 1
      BY <1>1, <1>4, <2>5
    <3>2. \A k \in (o + 1)..(end[i] - 1) : k = o + 1 \/ k \in (end[i - 1] + 1)..(end[i] - 1)
      BY <2>2, <3>1
    <3> QED BY <2>2, <2>4, <3>1, <3>2 DEF Takes
  <2>6. CASE i # p
    <3>1. i - 1 \in p..n
      BY <2>6
    <3> QED BY <1>4, <2>4, <3>1
  <2> QED BY <2>5, <2>6
<1>6. start[n] \in o..m /\ e \in start[n]..m /\ \A k \in (start[n] + 1)..e : k \in more
  <2>1. CASE p <= n
    <3>1. start[n] = end[n] /\ end[n] \in (o + 1)..m
      BY <1>2, <1>4, <2>1
    <3> QED BY <1>1, <3>1
  <2>2. CASE p = n + 1
    <3>1. start[n] = o /\ end[n] = o + 1
      BY <1>1, <1>4, <2>2
    <3> QED BY <1>1, <3>1
  <2> QED BY <2>1, <2>2
<1> QED BY <1>3, <1>4, <1>5, <1>6 DEF Walks

\* What the recursion counts is reached by a walk.
LEMMA CountsReached ==
  ASSUME NEW path, NEW operands, Len(path) \in Nat, Len(operands) \in Nat, ExecLast(path),
         NEW optional, optional \subseteq 2..Len(operands),
         NEW c, Solves(c, path, operands, optional)
  PROVE  \A p \in 1..(Len(path) + 1), o \in 0..Len(operands) : \A e :
            e \in c[<<p, o>>] => Reached(path, operands, optional, p, o, e)
<1> DEFINE n == Len(path)
           m == Len(operands)
           OK(p, o) == \A e : e \in c[<<p, o>>] => Reached(path, operands, optional, p, o, e)
           R == {at \in (1..(n + 1)) \X (0..m) : OK(at[1], at[2])}
<1>1. ASSUME NEW p \in 1..(n + 1), NEW o \in 0..m,
             \A k \in (o + 1)..m : OK(p, k), p <= n => \A k \in 0..m : OK(p + 1, k),
             NEW e, e \in c[<<p, o>>]
      PROVE  Reached(path, operands, optional, p, o, e)
  <2>1. Leads(c, path, operands, optional, p, o, e)
    BY <1>1 DEF Solves
  <2>2. CASE p > n /\ o + 1 \notin optional /\ e = o
    <3> DEFINE end == [i \in (p - 1)..n |-> o]
    <3>1. p = n + 1
      BY <2>2
    <3>2. end \in [(p - 1)..n -> o..m] /\ end[n] = o /\ end[p - 1] = o
      BY <3>1
    <3>3. (end[n] + 1)..e = {} /\ p..n = {} /\ e \in end[n]..m
      BY <2>2, <3>1, <3>2
    <3>4. Walks(path, operands, {}, end, p, o, e)
      BY <3>2, <3>3 DEF Walks
    <3> QED BY <3>4 DEF Reached
  <2>3. CASE (p > n \/ path[p].kind # "exec") /\ o + 1 \in optional /\ e \in c[<<p, o + 1>>]
    <3>1. o \in 0..(m - 1) /\ o + 1 \in (o + 1)..m
      BY <2>3
    <3>2. PICK gone, end : gone \in SUBSET Later(optional, o + 1) /\
                Walks(path, operands, gone, end, p, o + 1, e)
      BY <1>1, <2>3, <3>1 DEF Reached
    <3>3. gone \cup {o + 1} \in SUBSET Later(optional, o)
      <4>1. o + 1 \in Later(optional, o)
        BY <2>3, <3>1 DEF Later
      <4>2. \A k \in Later(optional, o + 1) : k \in Later(optional, o)
        BY DEF Later
      <4> QED BY <3>2, <4>1, <4>2
    <3>4. p <= n => path[p].kind # "exec"
      BY <2>3
    <3>5. \E start : Walks(path, operands, gone \cup {o + 1}, start, p, o, e)
      BY <3>1, <3>2, <3>4, WalksSkipping
    <3> QED BY <3>3, <3>5 DEF Reached
  <2>4. ASSUME p <= n, NEW b \in o..m, e \in c[<<p + 1, b>>],
               \A gone \in SUBSET Later(optional, b) : Takes(path, operands, gone, p, o, b)
        PROVE  Reached(path, operands, optional, p, o, e)
    <3>1. b \in 0..m /\ p \in 1..n
      BY <2>4
    <3>2. PICK gone, end : gone \in SUBSET Later(optional, b) /\
                Walks(path, operands, gone, end, p + 1, b, e)
      BY <1>1, <2>4, <3>1 DEF Reached
    <3>3. gone \in SUBSET Later(optional, o)
      <4>1. \A k \in Later(optional, b) : k \in Later(optional, o)
        BY <2>4 DEF Later
      <4> QED BY <3>2, <4>1
    <3>4. \E start : Walks(path, operands, gone, start, p, o, e)
      BY <2>4, <3>1, <3>2, WalksBefore
    <3> QED BY <3>3, <3>4 DEF Reached
  <2>5. CASE p <= n /\ path[p].kind = "gap" /\ \E k \in o..m : e \in c[<<p + 1, k>>]
    <3>1. PICK k \in o..m : e \in c[<<p + 1, k>>]
      BY <2>5
    <3>2. \A gone : Takes(path, operands, gone, p, o, k)
      BY <2>5 DEF Takes
    <3> QED BY <2>4, <2>5, <3>1, <3>2
  <2>6. CASE p <= n /\ path[p].kind = "exec" /\ o < m /\ e = m
    <3> DEFINE end == [i \in (p - 1)..n |-> IF i = p - 1 THEN o ELSE m]
    <3>1. p = n
      BY <2>6 DEF ExecLast
    <3>2. end \in [(p - 1)..n -> o..m] /\ end[n] = m /\ end[p - 1] = o
      BY <3>1
    <3> HIDE DEF end
    <3>3. (end[n] + 1)..e = {} /\ e \in end[n]..m
      BY <2>6, <3>2
    <3>4. Takes(path, operands, {}, p, o, m)
      BY <2>6 DEF Takes
    <3>5. \A i \in p..n : i = p /\ end[i - 1] = o /\ end[i] = m
      BY <3>1, <3>2
    <3>6. Walks(path, operands, {}, end, p, o, e)
      BY <3>2, <3>3, <3>4, <3>5 DEF Walks
    <3> QED BY <3>6 DEF Reached
  <2>7. CASE /\ p <= n /\ path[p].kind \notin {"gap", "exec"}
             /\ o < m /\ Hit(path[p], operands, o + 1) /\ e \in c[<<p + 1, o + 1>>]
    <3>1. \A gone \in SUBSET Later(optional, o + 1) : o + 1 \notin gone
      BY <2>7 DEF Later
    <3>2. (o + 1)..((o + 1) - 1) = {} /\ o + 1 \in o..m
      BY <2>7
    <3>3. \A gone \in SUBSET Later(optional, o + 1) : Takes(path, operands, gone, p, o, o + 1)
      BY <2>7, <3>1, <3>2 DEF Takes
    <3> QED BY <2>4, <2>7, <3>2, <3>3
  <2> QED BY <2>1, <2>2, <2>3, <2>5, <2>6, <2>7 DEF Leads
<1>2. Backwards(R, n, m)
  <2> SUFFICES ASSUME NEW p \in 1..(n + 1), NEW o \in 0..m,
                      \A k \in (o + 1)..m : <<p, k>> \in R,
                      p <= n => \A k \in 0..m : <<p + 1, k>> \in R
               PROVE  <<p, o>> \in R
    BY DEF Backwards
  <2>1. \A k \in (o + 1)..m : OK(p, k)
    OBVIOUS
  <2>2. p <= n => \A k \in 0..m : OK(p + 1, k)
    OBVIOUS
  <2>3. OK(p, o)
    BY <1>1, <2>1, <2>2
  <2> HIDE DEF OK
  <2> QED BY <2>3
<1>3. \A p \in 1..(n + 1), o \in 0..m : <<p, o>> \in R
  <2> HIDE DEF R
  <2> QED BY <1>2, FromTheEnd
<1> QED BY <1>3

\* What is counted behind optional operands is counted before them, too.
LEMMA CountsSkip ==
  ASSUME NEW path, NEW operands, Len(path) \in Nat, Len(operands) \in Nat,
         NEW optional, NEW c, Solves(c, path, operands, optional),
         NEW p \in 1..(Len(path) + 1), p <= Len(path) => path[p].kind # "exec",
         NEW q \in 0..Len(operands), NEW e, e \in c[<<p, q>>],
         NEW a \in 0..q, \A k \in (a + 1)..q : k \in optional
  PROVE  e \in c[<<p, a>>]
<1> DEFINE T == {k \in Nat : \A b \in a..q : q - b = k => e \in c[<<p, b>>]}
<1>1. 0 \in T
  <2> SUFFICES ASSUME NEW b \in a..q, q - b = 0 PROVE e \in c[<<p, b>>]
    OBVIOUS
  <2>1. b = q
    OBVIOUS
  <2> QED BY <2>1
<1>2. ASSUME NEW k \in T PROVE k + 1 \in T
  <2> SUFFICES ASSUME NEW b \in a..q, q - b = k + 1 PROVE e \in c[<<p, b>>]
    OBVIOUS
  <2>1. k \in Nat /\ b + 1 \in a..q /\ q - (b + 1) = k /\ b + 1 \in (a + 1)..q /\ b \in 0..Len(operands)
    OBVIOUS
  <2>2. e \in c[<<p, b + 1>>]
    BY <2>1
  <2> HIDE DEF T
  <2>3. Leads(c, path, operands, optional, p, b, e)
    BY <2>1, <2>2 DEF Leads
  <2> QED BY <2>1, <2>3 DEF Solves
<1>3. T \in SUBSET Nat
  OBVIOUS
<1> HIDE DEF T
<1>4. T = Nat
  BY <1>1, <1>2, <1>3, Inductive
<1>5. a \in a..q /\ q - a \in Nat
  OBVIOUS
<1> QED BY <1>4, <1>5 DEF T

\* At the end of the path, something is counted, and all the operands if the rest is gone.
EndsCounted(c, path, operands, gone, o) ==
    \E e \in c[<<Len(path) + 1, o>>] :
        (\A k \in (o + 1)..Len(operands) : k \in gone) => e = Len(operands)
LEMMA CountsAtEnd ==
  ASSUME NEW path, NEW operands, Len(path) \in Nat, Len(operands) \in Nat,
         NEW optional, optional \subseteq 2..Len(operands),
         NEW c, Solves(c, path, operands, optional),
         NEW gone \in SUBSET optional, NEW o \in 0..Len(operands)
  PROVE  EndsCounted(c, path, operands, gone, o)
<1> DEFINE m == Len(operands)
           q == Len(path) + 1
           Good(b) == \E e \in c[<<q, b>>] : (\A k \in (b + 1)..m : k \in gone) => e = m
           T == {k \in Nat : \A b \in 0..m : m - b = k => Good(b)}
<1>0. q \in 1..(Len(path) + 1) /\ q > Len(path)
  OBVIOUS
<1>1. ASSUME NEW b \in 0..m, b + 1 \notin optional PROVE b \in c[<<q, b>>]
  <2>1. Leads(c, path, operands, optional, q, b, b)
    BY <1>0, <1>1 DEF Leads
  <2> HIDE DEF q
  <2> QED BY <1>0, <2>1 DEF Solves
<1>2. ASSUME NEW b \in 0..m, b + 1 \in optional, NEW e \in c[<<q, b + 1>>] PROVE e \in c[<<q, b>>]
  <2>1. Leads(c, path, operands, optional, q, b, e)
    BY <1>0, <1>2 DEF Leads
  <2> HIDE DEF q
  <2> QED BY <1>0, <2>1 DEF Solves
<1> HIDE DEF q
<1>3. 0 \in T
  <2> SUFFICES ASSUME NEW b \in 0..m, m - b = 0 PROVE Good(b)
    OBVIOUS
  <2>1. b = m /\ b + 1 \notin optional
    OBVIOUS
  <2> QED BY <1>1, <2>1
<1>4. ASSUME NEW k \in T PROVE k + 1 \in T
  <2> SUFFICES ASSUME NEW b \in 0..m, m - b = k + 1 PROVE Good(b)
    <3> HIDE DEF Good
    <3> QED OBVIOUS
  <2>1. k \in Nat /\ b + 1 \in 0..m /\ m - (b + 1) = k /\ b + 1 \in (b + 1)..m
    OBVIOUS
  <2>2. Good(b + 1)
    <3> HIDE DEF Good
    <3> QED BY <2>1
  <2>3. CASE b + 1 \in optional
    <3>1. PICK e \in c[<<q, b + 1>>] : (\A j \in ((b + 1) + 1)..m : j \in gone) => e = m
      BY <2>2
    <3>2. e \in c[<<q, b>>]
      BY <1>2, <2>3
    <3>3. (\A j \in (b + 1)..m : j \in gone) => e = m
      BY <3>1
    <3> QED BY <3>2, <3>3
  <2>4. CASE b + 1 \notin optional
    <3>1. b \in c[<<q, b>>]
      BY <1>1, <2>4
    <3>2. b + 1 \notin gone
      BY <2>4
    <3> QED BY <2>1, <3>1, <3>2
  <2> QED BY <2>3, <2>4
<1>5. T \in SUBSET Nat
  OBVIOUS
<1> HIDE DEF T, Good
<1>6. T = Nat
  BY <1>3, <1>4, <1>5, Inductive
<1>7. m - o \in Nat
  OBVIOUS
<1>8. Good(o)
  BY <1>6, <1>7 DEF T
<1> QED BY <1>8 DEF Good, q, EndsCounted

\* A walk of the whole path from the first operand on.
Walked(path, operands, gone, exact, end) ==
    /\ end \in [0..Len(path) -> 0..Len(operands)] /\ end[0] = 0
    /\ \A i \in 1..Len(path) : Takes(path, operands, gone, i, end[i - 1], end[i])
    /\ exact => \A k \in (end[Len(path)] + 1)..Len(operands) : k \in gone

\* Every walk is counted.
LEMMA WalksCounted ==
  ASSUME NEW path, NEW operands, Len(path) \in Nat, Len(operands) \in Nat, ExecLast(path),
         NEW optional, optional \subseteq 2..Len(operands),
         NEW c, Solves(c, path, operands, optional),
         NEW gone \in SUBSET optional, NEW exact, NEW end,
         Walked(path, operands, gone, exact, end)
  PROVE  \E e \in c[<<1, 0>>] : exact => e = Len(operands)
<1> DEFINE n == Len(path)
           m == Len(operands)
           Good(e) == (\A k \in (end[n] + 1)..m : k \in gone) => e = m
           From(i) == \E e \in c[<<i + 1, end[i]>>] : Good(e)
           T == {k \in Nat : k <= n => From(n - k)}
<1>0. /\ end \in [0..n -> 0..m] /\ end[0] = 0
      /\ \A i \in 1..n : Takes(path, operands, gone, i, end[i - 1], end[i])
      /\ exact => \A k \in (end[n] + 1)..m : k \in gone
  BY DEF Walked
<1>1. 0 \in T
  <2>1. end[n] \in 0..m /\ n - 0 = n
    BY <1>0
  <2>2. PICK o \in 0..Len(operands) : o = end[n]
    BY <2>1
  <2>3. EndsCounted(c, path, operands, gone, o)
    BY CountsAtEnd
  <2>4. From(n)
    BY <2>2, <2>3 DEF EndsCounted
  <2> HIDE DEF From
  <2> QED BY <2>1, <2>4
<1>2. ASSUME NEW i \in 1..n, From(i) PROVE From(i - 1)
  <2> DEFINE a == end[i - 1]
             b == end[i]
  <2>1. /\ a \in 0..m /\ b \in 0..m
        /\ i \in 1..(n + 1) /\ i <= n /\ (i - 1) + 1 = i
    BY <1>0
  <2>2. Takes(path, operands, gone, i, a, b)
    BY <1>0
  <2>3. PICK e \in c[<<i + 1, b>>] : Good(e)
    BY <1>2
  <2> HIDE DEF a, b, Good
  <2>4. CASE path[i].kind = "gap"
    <3>1. b \in a..m
      BY <2>1, <2>2 DEF Takes
    <3>2. Leads(c, path, operands, optional, i, a, e)
      BY <2>1, <2>3, <2>4, <3>1 DEF Leads
    <3>3. e \in c[<<i, a>>]
      BY <2>1, <3>2 DEF Solves
    <3> QED BY <2>1, <2>3, <3>3 DEF a
  <2>5. CASE path[i].kind = "exec"
    <3>1. a < m
      BY <2>1, <2>2, <2>5 DEF Takes
    <3>2. Leads(c, path, operands, optional, i, a, m)
      BY <2>1, <2>5, <3>1 DEF Leads
    <3>3. m \in c[<<i, a>>]
      BY <2>1, <3>2 DEF Solves
    <3>4. Good(m)
      BY DEF Good
    <3> QED BY <2>1, <3>3, <3>4 DEF a
  <2>6. CASE path[i].kind \notin {"gap", "exec"}
    <3>1. /\ a < b /\ Hit(path[i], operands, b)
          /\ \A k \in (a + 1)..(b - 1) : k \in optional
      BY <2>2, <2>6 DEF Takes
    <3>2. b - 1 \in 0..m /\ b - 1 < m /\ (b - 1) + 1 = b /\ a \in 0..(b - 1)
      BY <2>1, <3>1
    <3>3. Leads(c, path, operands, optional, i, b - 1, e)
      BY <2>1, <2>3, <2>6, <3>1, <3>2 DEF Leads
    <3>4. e \in c[<<i, b - 1>>]
      BY <2>1, <3>2, <3>3 DEF Solves
    <3>5. e \in c[<<i, a>>]
      BY <2>1, <2>6, <3>1, <3>2, <3>4, CountsSkip
    <3> QED BY <2>1, <2>3, <3>5 DEF a
  <2> QED BY <2>4, <2>5, <2>6
<1> HIDE DEF From
<1>3. ASSUME NEW k \in T PROVE k + 1 \in T
  <2> SUFFICES ASSUME k + 1 <= n PROVE From(n - (k + 1))
    OBVIOUS
  <2>1. k \in Nat /\ n - k \in 1..n /\ (n - k) - 1 = n - (k + 1) /\ k <= n
    OBVIOUS
  <2> QED BY <1>2, <2>1
<1>4. T \in SUBSET Nat
  OBVIOUS
<1>5. n \in T
  <2> HIDE DEF T
  <2> QED BY <1>1, <1>3, <1>4, Inductive
<1>6. From(0)
  BY <1>5
<1>7. PICK e \in c[<<1, 0>>] : Good(e)
  <2>1. PICK e \in c[<<0 + 1, end[0]>>] : Good(e)
    BY <1>6 DEF From
  <2>2. 0 + 1 = 1 /\ end[0] = 0
    BY <1>0
  <2> QED BY <2>1, <2>2
<1> QED BY <1>0, <1>7

-----------------------------------------------------------------------------
(* The folds, which take a set of places by its greatest one. *)

LEMMA MaxIs ==
  ASSUME NEW n \in Nat, NEW s \in SUBSET (1..n), s # {}
  PROVE  Max(s) \in s /\ \A x \in s : x <= Max(s)
<1> DEFINE T == {k \in Nat : \E x \in s : k = n - x}
<1>0. PICK z \in s : TRUE
  OBVIOUS
<1>1. T \in SUBSET Nat /\ T # {}
  <2>1. n - z \in T
    OBVIOUS
  <2> QED BY <2>1
<1>2. PICK t \in T : \A k \in T : t <= k
  BY <1>1, Least
<1>3. PICK y \in s : t = n - y
  OBVIOUS
<1>4. ASSUME NEW x \in s PROVE y >= x
  <2>1. n - x \in T
    OBVIOUS
  <2> HIDE DEF T
  <2>2. t <= n - x
    BY <1>2, <2>1
  <2>3. x \in 1..n /\ y \in 1..n
    OBVIOUS
  <2> QED BY <1>3, <2>2, <2>3
<1>5. Max(s) \in s /\ \A x \in s : Max(s) >= x
  BY <1>4 DEF Max
<1> QED BY <1>5

LEMMA MaxTop ==
  ASSUME NEW n \in Nat, NEW s \in SUBSET (1..(n + 1))
  PROVE  /\ n + 1 \in s => Max(s) = n + 1 /\ s \ {n + 1} \in SUBSET (1..n)
         /\ n + 1 \notin s => s \in SUBSET (1..n)
         /\ s # {} => Max(s) \in s /\ s \ {Max(s)} \in SUBSET (1..(n + 1))
<1>1. s # {} => Max(s) \in s /\ \A x \in s : x <= Max(s)
  <2>1. n + 1 \in Nat
    OBVIOUS
  <2> QED BY <2>1, MaxIs
<1>2. ASSUME n + 1 \in s PROVE Max(s) = n + 1
  <2>1. Max(s) \in 1..(n + 1) /\ n + 1 <= Max(s)
    BY <1>1, <1>2
  <2> QED BY <2>1
<1>3. \A x \in s : x # n + 1 => x \in 1..n
  OBVIOUS
<1> QED BY <1>1, <1>2, <1>3

LEMMA Intervals ==
  ASSUME NEW n \in Nat, NEW i \in 1..n
  PROVE  /\ 1..i \in SUBSET (1..n) /\ 1..i # {} /\ Max(1..i) = i
         /\ (1..i) \ {i} = 1..(i - 1)
<1>1. 1..i \in SUBSET (1..n) /\ i \in 1..i /\ (1..i) \ {i} = 1..(i - 1)
  OBVIOUS
<1>2. Max(1..i) \in 1..i /\ \A x \in 1..i : x <= Max(1..i)
  BY <1>1, MaxIs
<1> QED BY <1>1, <1>2

\* What the folds of the module do at a place: count the operands that a term consumes, drop
\* those that are gone, or read the arguments of a command.
Counting(path, length, o, j) ==
    CASE path[j].kind = "gap" ->
            LET left == length - (Len(path) - j) IN IF left > o THEN left ELSE o
      [] path[j].kind = "exec" -> length
      [] OTHER -> o + 1
Once(w, before, i) ==
    IF w.counts THEN Counting(w.path, w.length, before, i)
    ELSE IF w.reads THEN Take(before, w.args[i], w.values, w.known, w.dashes)
    ELSE IF i \in w.gone THEN before ELSE Append(before, w.args[i])
Fold(w, base, n, f) ==
    [s \in SUBSET (1..n) |-> IF s = {} THEN base ELSE Once(w, f[s \ {Max(s)}], Max(s))]
Folded(w, base, n) == (CHOOSE f : f = Fold(w, base, n, f))[1..n]
Builds(kept, w, base, n) == kept[0] = base /\ \A i \in 1..n : kept[i] = Once(w, kept[i - 1], i)
LEMMA FoldBuilt ==
  ASSUME NEW w, NEW base, NEW n \in Nat
  PROVE  \E kept : Builds(kept, w, base, n) /\ Folded(w, base, n) = kept[n]
<1> DEFINE Step(f, s) == IF s = {} THEN base ELSE Once(w, f[s \ {Max(s)}], Max(s))
           To(k, f) == [s \in SUBSET (1..k) |-> Step(f, s)]
           T == {k \in Nat : \E f : f = To(k, f)}
           iter == CHOOSE f : f = To(n, f)
<1>1. 0 \in T
  <2> DEFINE f == [s \in SUBSET (1..0) |-> base]
  <2>1. \A s \in SUBSET (1..0) : s = {}
    OBVIOUS
  <2>2. f = To(0, f)
    BY <2>1
  <2> QED BY <2>2
<1>2. ASSUME NEW k \in T PROVE k + 1 \in T
  <2>0. k \in Nat
    OBVIOUS
  <2>1. PICK f : f = To(k, f)
    OBVIOUS
  <2> DEFINE g == [s \in SUBSET (1..(k + 1)) |->
                      IF k + 1 \in s THEN Once(w, f[s \ {k + 1}], k + 1) ELSE f[s]]
  <2>2. \A s \in SUBSET (1..k) : g[s] = f[s] /\ f[s] = Step(f, s)
    <3> HIDE DEF Step
    <3>1. \A s \in SUBSET (1..k) : s \in SUBSET (1..(k + 1)) /\ k + 1 \notin s
      BY <2>0
    <3>2. \A s \in SUBSET (1..k) : f[s] = Step(f, s)
      BY <2>1
    <3> QED BY <3>1, <3>2
  <2>3. ASSUME NEW s \in SUBSET (1..(k + 1)) PROVE g[s] = Step(g, s)
    <3>1. CASE k + 1 \in s
      <4>1. Max(s) = k + 1 /\ s \ {k + 1} \in SUBSET (1..k)
        BY <2>0, <3>1, MaxTop
      <4>2. g[s] = Once(w, f[s \ {k + 1}], k + 1)
        BY <3>1
      <4>3. g[s \ {k + 1}] = f[s \ {k + 1}]
        BY <2>2, <4>1
      <4> HIDE DEF g
      <4> QED BY <3>1, <4>1, <4>2, <4>3
    <3>2. CASE k + 1 \notin s
      <4>1. s \in SUBSET (1..k)
        BY <2>0, <3>2, MaxTop
      <4>2. s # {} => s \ {Max(s)} \in SUBSET (1..k)
        BY <4>1
      <4>3. g[s] = Step(f, s) /\ (s # {} => g[s \ {Max(s)}] = f[s \ {Max(s)}])
        <5> HIDE DEF g, Step
        <5> QED BY <2>2, <4>1, <4>2
      <4> HIDE DEF g
      <4> QED BY <4>3
    <3> QED BY <3>1, <3>2
  <2>4. g = To(k + 1, g)
    <3>1. g = [s \in SUBSET (1..(k + 1)) |-> g[s]]
      OBVIOUS
    <3> HIDE DEF g, Step
    <3> QED BY <2>3, <3>1, Zenon
  <2> HIDE DEF g, Step
  <2> QED BY <2>0, <2>4
<1>3. T = Nat
  <2>1. T \in SUBSET Nat
    OBVIOUS
  <2> HIDE DEF T
  <2> QED BY <1>1, <1>2, <2>1, Inductive
<1>4. iter = To(n, iter)
  <2>1. n \in T
    <3> HIDE DEF T
    <3> QED BY <1>3
  <2>2. \E f : f = To(n, f)
    BY <2>1
  <2> HIDE DEF To
  <2> QED BY <2>2
<1> HIDE DEF iter
<1> DEFINE kept == [i \in 0..n |-> iter[1..i]]
<1>6. ASSUME NEW i \in 1..n PROVE kept[i] = Once(w, kept[i - 1], i)
  <2>1. 1..i \in SUBSET (1..n) /\ 1..i # {} /\ Max(1..i) = i /\ (1..i) \ {i} = 1..(i - 1)
    BY Intervals
  <2>2. iter[1..i] = Step(iter, 1..i)
    <3> HIDE DEF Step
    <3> QED BY <1>4, <2>1
  <2>3. kept[i] = iter[1..i] /\ kept[i - 1] = iter[1..(i - 1)]
    OBVIOUS
  <2> HIDE DEF kept
  <2> QED BY <2>1, <2>2, <2>3
<1>7. kept[0] = base
  <2>1. 1..0 = {} /\ {} \in SUBSET (1..n)
    OBVIOUS
  <2>2. iter[{}] = Step(iter, {})
    <3> HIDE DEF Step
    <3> QED BY <1>4, <2>1
  <2> QED BY <2>1, <2>2
<1>8. kept[n] = iter[1..n]
  OBVIOUS
<1> HIDE DEF kept
<1>9. Folded(w, base, n) = iter[1..n]
  BY DEF Folded, Fold, iter
<1> QED BY <1>6, <1>7, <1>8, <1>9 DEF Builds

LEMMA DroppingBuilt ==
  ASSUME NEW operands, NEW n \in Nat, DOMAIN operands = 1..n, NEW gone
  PROVE  \E kept :
            /\ Builds(kept, [counts |-> FALSE, reads |-> FALSE, args |-> operands, gone |-> gone], <<>>, n)
            /\ Dropping(operands, gone) = kept[n]
<1> DEFINE w == [counts |-> FALSE, reads |-> FALSE, args |-> operands, gone |-> gone]
           order == [o \in DOMAIN operands |-> o]
           Given(f) == [s \in SUBSET (DOMAIN order) |->
                          IF s = {} THEN <<>>
                          ELSE IF order[Max(s)] \in gone THEN f[s \ {Max(s)}]
                               ELSE Append(f[s \ {Max(s)}], operands[order[Max(s)]])]
<1>1. Dropping(operands, gone) = (CHOOSE f : f = Given(f))[DOMAIN order]
  BY DEF Dropping, FoldLeft, MapThenFoldSet
<1>2. DOMAIN order = 1..n /\ \A i \in 1..n : order[i] = i
  OBVIOUS
<1>3. \A s : s \in SUBSET (1..n) /\ s # {} => order[Max(s)] = Max(s)
  BY <1>2, MaxIs
<1> HIDE DEF order
<1>4. \A f : Given(f) = Fold(w, <<>>, n, f)
  BY <1>2, <1>3 DEF Fold, Once
<1> HIDE DEF Given
<1>5. Dropping(operands, gone) = Folded(w, <<>>, n)
  BY <1>1, <1>2, <1>4 DEF Folded
<1> HIDE DEF w
<1>6. \E kept : Builds(kept, w, <<>>, n) /\ Folded(w, <<>>, n) = kept[n]
  BY FoldBuilt
<1> QED BY <1>5, <1>6 DEF w

\* What Split makes of a command, argument by argument.
Reads(command, values, known, dashes) ==
    [counts |-> FALSE, reads |-> TRUE, args |-> Tail(command), values |-> values,
     known |-> known, dashes |-> dashes]
ReadBy(kept, read, command, values, known, dashes) ==
    LET s == kept[Len(command) - 1]
    IN /\ Builds(kept, Reads(command, values, known, dashes), Start(Head(command)), Len(command) - 1)
       /\ read = IF s.awaited = None THEN s ELSE See(s, {}, {<<s.awaited, None>>})
SplitBy(read, command, values, known, dashes) ==
    \E kept : ReadBy(kept, read, command, values, known, dashes)

LEMMA SplitBuilt ==
  ASSUME NEW S, NEW command \in Seq(S), command # <<>>, NEW values, NEW known, NEW dashes
  PROVE  SplitBy(Split(command, values, known, dashes), command, values, known, dashes)
<1> DEFINE w == [counts |-> FALSE, reads |-> TRUE, args |-> Tail(command), values |-> values,
                 known |-> known, dashes |-> dashes]
           start == Start(Head(command))
           n == Len(command) - 1
           Given(f) == [s \in SUBSET (DOMAIN Tail(command)) |->
                          IF s = {} THEN start
                          ELSE Take(f[s \ {Max(s)}], Tail(command)[Max(s)], values, known, dashes)]
           folded == (CHOOSE f : f = Given(f))[DOMAIN Tail(command)]
<1>1. Split(command, values, known, dashes) =
            IF folded.awaited = None THEN folded ELSE See(folded, {}, {<<folded.awaited, None>>})
  BY DEF Split, FoldLeft, MapThenFoldSet
<1>2. n \in Nat /\ DOMAIN Tail(command) = 1..n
  BY EmptySeq, HeadTailProperties
<1> HIDE DEF start, n
<1>3. \A f : Given(f) = Fold(w, start, n, f)
  BY <1>2 DEF Fold, Once
<1> HIDE DEF Given
<1>4. folded = Folded(w, start, n)
  BY <1>2, <1>3 DEF Folded
<1> HIDE DEF w, folded
<1>5. \E kept : Builds(kept, w, start, n) /\ Folded(w, start, n) = kept[n]
  BY <1>2, FoldBuilt
<1> QED BY <1>1, <1>4, <1>5 DEF w, start, n, SplitBy, ReadBy, Reads

-----------------------------------------------------------------------------
(* The operands of a command as it is read. *)

IsState(s) ==
    DOMAIN s = {"operands", "optional", "atoms", "values", "past", "unknown", "awaited"}
\* The program is no optional operand.
OperandsOK(s, S) ==
    /\ IsState(s)
    /\ s.operands \in Seq(S) /\ Len(s.operands) >= 1
    /\ s.optional \subseteq 2..Len(s.operands)

LEMMA SeeIs ==
  ASSUME NEW s, IsState(s), NEW atoms, NEW pairs, NEW u, u = See(s, atoms, pairs)
  PROVE  /\ IsState(u) /\ u.operands = s.operands /\ u.optional = s.optional
         /\ u.atoms = s.atoms \cup atoms /\ u.values = s.values \cup pairs
         /\ u.past = s.past /\ u.unknown = FALSE /\ u.awaited = s.awaited
BY DEF IsState, See

\* What reads an argument as an option: another flag is awaited, or unknown.
LEMMA WithIs ==
  ASSUME NEW s, IsState(s), NEW x
  PROVE  /\ \A u : u = [s EXCEPT !.awaited = x] =>
                /\ IsState(u) /\ u.operands = s.operands /\ u.optional = s.optional
                /\ u.atoms = s.atoms /\ u.values = s.values
                /\ u.past = s.past /\ u.unknown = s.unknown /\ u.awaited = x
         /\ \A u : u = [s EXCEPT !.unknown = x] =>
                /\ IsState(u) /\ u.operands = s.operands /\ u.optional = s.optional
                /\ u.atoms = s.atoms /\ u.values = s.values
                /\ u.past = s.past /\ u.unknown = x /\ u.awaited = s.awaited
BY DEF IsState

LEMMA TakeKeeps ==
  ASSUME NEW S, NEW s, OperandsOK(s, S), Dashes \in S, NEW arg \in S,
         NEW values, NEW known, NEW dashes, NEW t, t = Take(s, arg, values, known, dashes)
  PROVE  OperandsOK(t, S)
<1> DEFINE Same(u) == IsState(u) /\ u.operands = s.operands /\ u.optional = s.optional
<1>0. IsState(s)
  BY DEF OperandsOK
<1>1. ASSUME NEW atoms, NEW pairs, NEW u, u = See(s, atoms, pairs) PROVE Same(u)
  <2>1. u = See(s, atoms, pairs)
    BY <1>1
  <2> QED BY <1>0, <2>1 DEF See, IsState
<1>2. ASSUME NEW u, Same(u), NEW x, NEW v,
             v = [u EXCEPT !.awaited = x] \/ v = [u EXCEPT !.unknown = x]
      PROVE  Same(v)
  BY <1>2, WithIs
<1>3. Same(t) => OperandsOK(t, S)
  BY DEF OperandsOK
<1>10. ASSUME NEW atoms, NEW pairs, NEW x, NEW u,
              \/ u = See(s, atoms, pairs)
              \/ u = [See(s, atoms, pairs) EXCEPT !.awaited = x]
              \/ u = [See(s, atoms, pairs) EXCEPT !.unknown = x]
       PROVE  Same(u)
  <2>1. PICK v : v = See(s, atoms, pairs)
    OBVIOUS
  <2>2. Same(v)
    BY <1>1, <2>1
  <2>3. u = v \/ u = [v EXCEPT !.awaited = x] \/ u = [v EXCEPT !.unknown = x]
    BY <1>10, <2>1
  <2> HIDE DEF Same
  <2> QED BY <1>2, <2>2, <2>3
<1>4. ASSUME NEW e \in S
      PROVE  /\ Append(s.operands, e) \in Seq(S)
             /\ Len(Append(s.operands, e)) = Len(s.operands) + 1
             /\ Len(s.operands) \in Nat
  BY AppendProperties DEF OperandsOK
<1>5. CASE s.awaited # None
  <2>1. t = TakeValue(s, arg, values)
    BY <1>5 DEF Take
  <2> DEFINE u == See(s, ConsumedAtoms(arg, values), {<<s.awaited, IF IsFlag(arg) THEN None ELSE arg>>})
  <2>2. t = [u EXCEPT !.awaited = None]
    BY <2>1 DEF TakeValue
  <2>3. Same(u)
    BY <1>1
  <2> HIDE DEF u
  <2> QED BY <1>2, <1>3, <2>2, <2>3
<1>6. CASE s.awaited = None /\ ~s.past /\ arg = Dashes
  <2>1. t = TakeDashes(s, dashes)
    BY <1>6 DEF Take, IsFlag
  <2>2. /\ IsState(t) /\ t.optional = s.optional
        /\ t.operands = IF dashes THEN Append(s.operands, Dashes) ELSE s.operands
    BY <2>1 DEF TakeDashes, IsState, OperandsOK
  <2> QED BY <1>4, <2>2 DEF OperandsOK
<1>7. CASE s.awaited = None /\ (s.past \/ ~IsFlag(arg)) /\ ~(~s.past /\ arg = Dashes)
  <2>1. t = TakeOperand(s, arg)
    BY <1>7 DEF Take
  <2>2. t = [s EXCEPT !.operands = Append(s.operands, arg), !.unknown = FALSE,
                      !.optional = @ \cup (IF s.unknown THEN {Len(Append(s.operands, arg))} ELSE {})]
    BY <2>1 DEF TakeOperand
  <2>3. IsState(s)
    BY DEF OperandsOK
  <2>4. /\ IsState(t) /\ t.operands = Append(s.operands, arg)
        /\ t.optional = s.optional \cup (IF s.unknown THEN {Len(Append(s.operands, arg))} ELSE {})
    BY <2>2, <2>3 DEF IsState
  <2>5. t.optional \subseteq s.optional \cup {Len(Append(s.operands, arg))}
    BY <2>4
  <2> QED BY <1>4, <2>4, <2>5 DEF OperandsOK
<1>8. CASE s.awaited = None /\ ~s.past /\ IsFlag(arg) /\ arg # Dashes /\ IsLong(arg)
  <2>1. t = TakeLong(s, arg, values, known)
    BY <1>8 DEF Take
  <2>2. \/ t = See(s, {AtomOf(arg)}, {<<AtomOf(arg), Attached(ValueOf(arg))>>})
        \/ t = [See(s, {arg}, {}) EXCEPT !.awaited = arg]
        \/ t = [See(s, {arg}, {}) EXCEPT !.unknown = arg \notin known]
    BY <2>1 DEF TakeLong
  <2>3. Same(t)
    <3> HIDE DEF Same
    <3>1. CASE t = See(s, {AtomOf(arg)}, {<<AtomOf(arg), Attached(ValueOf(arg))>>})
      BY <1>10, <3>1
    <3>2. CASE t = [See(s, {arg}, {}) EXCEPT !.awaited = arg]
      BY <1>10, <3>2
    <3>3. CASE t = [See(s, {arg}, {}) EXCEPT !.unknown = arg \notin known]
      <4>1. PICK x : t = [See(s, {arg}, {}) EXCEPT !.unknown = x]
        BY <3>3
      <4> QED BY <1>10, <4>1
    <3> QED BY <2>2, <3>1, <3>2, <3>3
  <2> QED BY <1>3, <2>3
<1>9. CASE s.awaited = None /\ ~s.past /\ IsFlag(arg) /\ arg # Dashes /\ ~IsLong(arg)
  <2>1. t = TakeShort(s, arg, values, known)
    BY <1>9 DEF Take
  <2> DEFINE at == SelectInSeq(Tail(arg), LAMBDA letter : <<"-", letter>> \in values) + 1
             atom == <<"-", arg[at]>>
             rest == SubSeq(arg, at + 1, Len(arg))
             value == Attached(IF rest # <<>> /\ Head(rest) = "=" THEN Tail(rest) ELSE rest)
             strange == ~(Letters(arg) \subseteq known)
             cut == Letters(SubSeq(arg, 1, at))
  <2>2. t = CASE arg \in values -> [See(s, {arg}, {}) EXCEPT !.awaited = arg]
              [] arg \notin values /\ at = 1 -> [See(s, Letters(arg), {}) EXCEPT !.unknown = strange]
              [] arg \notin values /\ at > 1 /\ rest # <<>> -> See(s, cut, {<<atom, value>>})
              [] OTHER -> [See(s, Letters(arg), {}) EXCEPT !.awaited = atom]
    BY <2>1 DEF TakeShort
  <2> HIDE DEF at, atom, rest, value, strange, cut
  <2>3. \/ t = [See(s, {arg}, {}) EXCEPT !.awaited = arg]
        \/ t = [See(s, Letters(arg), {}) EXCEPT !.unknown = strange]
        \/ t = See(s, cut, {<<atom, value>>})
        \/ t = [See(s, Letters(arg), {}) EXCEPT !.awaited = atom]
    BY <2>2
  <2>4. Same(t)
    <3> HIDE DEF Same
    <3>1. CASE t = [See(s, {arg}, {}) EXCEPT !.awaited = arg]
      BY <1>10, <3>1
    <3>2. CASE t = [See(s, Letters(arg), {}) EXCEPT !.unknown = strange]
      BY <1>10, <3>2
    <3>3. CASE t = See(s, cut, {<<atom, value>>})
      BY <1>10, <3>3
    <3>4. CASE t = [See(s, Letters(arg), {}) EXCEPT !.awaited = atom]
      BY <1>10, <3>4
    <3> QED BY <2>3, <3>1, <3>2, <3>3, <3>4
  <2> QED BY <1>3, <2>4
<1> QED BY <1>5, <1>6, <1>7, <1>8, <1>9

LEMMA UpTo ==
  ASSUME NEW n \in Nat, NEW T, 0 \in T, \A i \in 1..n : i - 1 \in T => i \in T
  PROVE  \A i \in 0..n : i \in T
<1> DEFINE U == {k \in Nat : k <= n => k \in T}
<1>1. ASSUME NEW k \in U PROVE k + 1 \in U
  <2>1. k \in Nat /\ (k + 1 <= n => k \in T /\ k + 1 \in 1..n /\ (k + 1) - 1 = k)
    OBVIOUS
  <2> QED BY <2>1
<1>2. 0 \in U /\ U \in SUBSET Nat
  OBVIOUS
<1>3. U = Nat
  <2> HIDE DEF U
  <2> QED BY <1>1, <1>2, Inductive
<1> QED BY <1>3

ReadUp(kept, n, command, values, known, dashes, S) ==
    /\ n \in Nat
    /\ kept[0] = Start(Head(command))
    /\ \A i \in 1..n : kept[i] = Take(kept[i - 1], command[i + 1], values, known, dashes)
    /\ \A i \in 0..n : OperandsOK(kept[i], S)
LEMMA ReadBuilds ==
  ASSUME NEW S, NEW command \in Seq(S), command # <<>>, Dashes \in S,
         NEW values, NEW known, NEW dashes, NEW n, n = Len(command) - 1,
         NEW kept, NEW read, ReadBy(kept, read, command, values, known, dashes)
  PROVE  ReadUp(kept, n, command, values, known, dashes, S)
<1> DEFINE w == Reads(command, values, known, dashes)
           start == Start(Head(command))
<1>1. /\ n \in Nat /\ Head(command) \in S
      /\ \A i \in 1..n : Tail(command)[i] = command[i + 1] /\ command[i + 1] \in S
  <2>1. /\ Head(command) \in S /\ Tail(command) \in Seq(S) /\ Len(Tail(command)) = Len(command) - 1
        /\ \A i \in 1..Len(Tail(command)) : Tail(command)[i] = command[i + 1]
    BY HeadTailProperties
  <2>2. Len(command) \in Nat /\ Len(command) # 0 /\ \A i \in 1..Len(command) : command[i] \in S
    BY EmptySeq
  <2> QED BY <2>1, <2>2
<1>0. Builds(kept, w, start, n)
  BY DEF ReadBy
<1>2. kept[0] = start
  BY <1>0 DEF Builds
<1>3. \A i \in 1..n : kept[i] = Take(kept[i - 1], command[i + 1], values, known, dashes)
  <2> SUFFICES ASSUME NEW i \in 1..n
               PROVE  kept[i] = Take(kept[i - 1], command[i + 1], values, known, dashes)
    OBVIOUS
  <2>1. kept[i] = Once(w, kept[i - 1], i)
    <3> HIDE DEF w, start
    <3> QED BY <1>0 DEF Builds
  <2>2. kept[i] = Take(kept[i - 1], Tail(command)[i], values, known, dashes)
    BY <2>1 DEF Once, Reads
  <2> QED BY <1>1, <2>2
<1> DEFINE T == {i \in 0..n : OperandsOK(kept[i], S)}
<1>4. 0 \in T
  <2>1. /\ IsState(start) /\ start.operands = <<Head(command)>> /\ start.optional = {}
    BY DEF Start, IsState
  <2>2. <<Head(command)>> \in Seq(S) /\ Len(<<Head(command)>>) = 1
    BY <1>1
  <2> HIDE DEF start
  <2>3. OperandsOK(kept[0], S)
    BY <1>2, <2>1, <2>2 DEF OperandsOK
  <2> QED BY <1>1, <2>3
<1>5. ASSUME NEW i \in 1..n, i - 1 \in T PROVE i \in T
  <2>1. OperandsOK(kept[i - 1], S) /\ i \in 0..n
    BY <1>1, <1>5
  <2>2. OperandsOK(kept[i], S)
    BY <1>1, <1>3, <2>1, TakeKeeps
  <2> QED BY <2>1, <2>2
<1>6. \A i \in 0..n : OperandsOK(kept[i], S)
  <2> HIDE DEF T
  <2>1. \A i \in 0..n : i \in T
    BY <1>1, <1>4, <1>5, UpTo
  <2> QED BY <2>1 DEF T
<1> QED BY <1>1, <1>2, <1>3, <1>6 DEF ReadUp

LEMMA SplitOperands ==
  ASSUME NEW S, NEW command \in Seq(S), command # <<>>, Dashes \in S,
         NEW values, NEW known, NEW dashes
  PROVE  OperandsOK(Split(command, values, known, dashes), S)
<1>1. PICK s, n : s = Split(command, values, known, dashes) /\ n = Len(command) - 1
  OBVIOUS
<1>2. PICK kept : ReadBy(kept, s, command, values, known, dashes)
  BY <1>1, SplitBuilt DEF SplitBy
<1>6. s = IF kept[n].awaited = None THEN kept[n] ELSE See(kept[n], {}, {<<kept[n].awaited, None>>})
  BY <1>1, <1>2 DEF ReadBy
<1>3. n \in Nat /\ \A i \in 0..n : OperandsOK(kept[i], S)
  BY <1>1, <1>2, ReadBuilds DEF ReadUp
<1>4. OperandsOK(kept[n], S)
  BY <1>3
<1>5. CASE s = See(kept[n], {}, {<<kept[n].awaited, None>>})
  <2>1. IsState(kept[n])
    BY <1>4 DEF OperandsOK
  <2>2. IsState(s) /\ s.operands = kept[n].operands /\ s.optional = kept[n].optional
    BY <1>5, <2>1 DEF See, IsState
  <2> QED BY <1>1, <1>4, <2>2 DEF OperandsOK
<1> QED BY <1>1, <1>4, <1>5, <1>6

-----------------------------------------------------------------------------
(* Alignments of the operands that are left. *)

\* How many of the first i operands are left when those in gone go.
Ranks(r, d, operands, gone) ==
    /\ r \in [0..Len(operands) -> Nat] /\ r[0] = 0
    /\ \A i \in 1..Len(operands) :
          IF i \in gone THEN r[i] = r[i - 1]
          ELSE r[i] = r[i - 1] + 1 /\ r[i] <= Len(d) /\ d[r[i]] = operands[i]
    /\ Len(d) = r[Len(operands)]

LEMMA DroppingRanks ==
  ASSUME NEW S, NEW operands \in Seq(S), NEW gone
  PROVE  \E r : Ranks(r, Dropping(operands, gone), operands, gone)
<1> DEFINE m == Len(operands)
           w == [counts |-> FALSE, reads |-> FALSE, args |-> operands, gone |-> gone]
           d == Dropping(operands, gone)
<1>1. m \in Nat /\ DOMAIN operands = 1..m /\ \A i \in 1..m : operands[i] \in S
  OBVIOUS
<1>2. PICK kept : Builds(kept, w, <<>>, m) /\ d = kept[m]
  BY <1>1, DroppingBuilt
<1> HIDE DEF m, d
<1>3. /\ kept[0] = <<>>
      /\ \A i \in 1..m : kept[i] = IF i \in gone THEN kept[i - 1]
                                    ELSE Append(kept[i - 1], operands[i])
  BY <1>2 DEF Builds, Once
<1> HIDE DEF w
<1> DEFINE T == {i \in 0..m : kept[i] \in Seq(S)}
<1>4. 0 \in T
  <2>1. <<>> \in Seq(S)
    OBVIOUS
  <2>2. kept[0] \in Seq(S)
    BY <1>3, <2>1
  <2>3. 0 \in 0..m
    BY <1>1
  <2> QED BY <2>2, <2>3
<1>5. ASSUME NEW i \in 1..m, i - 1 \in T PROVE i \in T
  <2>1. kept[i - 1] \in Seq(S) /\ operands[i] \in S /\ i \in 0..m
    BY <1>1, <1>5
  <2>2. kept[i] \in Seq(S)
    <3>1. Append(kept[i - 1], operands[i]) \in Seq(S)
      BY <2>1, AppendProperties
    <3>2. i \in gone => kept[i] = kept[i - 1]
      BY <1>3
    <3>3. i \notin gone => kept[i] = Append(kept[i - 1], operands[i])
      BY <1>3
    <3> QED BY <2>1, <3>1, <3>2, <3>3
  <2> QED BY <2>1, <2>2
<1>6. \A i \in 0..m : kept[i] \in Seq(S)
  <2> HIDE DEF T
  <2>1. \A i \in 0..m : i \in T
    BY <1>1, <1>4, <1>5, UpTo
  <2> QED BY <2>1 DEF T
<1> HIDE DEF T
<1> DEFINE r == [i \in 0..m |-> Len(kept[i])]
<1>7. r \in [0..m -> Nat] /\ r[0] = 0 /\ \A i \in 0..m : r[i] = Len(kept[i])
  BY <1>1, <1>3, <1>6
<1> HIDE DEF r
\* What is kept stays where it is.
<1> DEFINE U(i) == {j \in 0..m : i <= j => /\ r[i] <= r[j]
                                         /\ \A k \in 1..r[i] : kept[j][k] = kept[i][k]}
<1>8. ASSUME NEW i \in 0..m PROVE \A j \in 0..m : j \in U(i)
  <2>1. 0 \in U(i)
    BY <1>1, <1>7
  <2>2. ASSUME NEW j \in 1..m, j - 1 \in U(i) PROVE j \in U(i)
    <3>1. SUFFICES ASSUME i <= j
                   PROVE r[i] <= r[j] /\ \A k \in 1..r[i] : kept[j][k] = kept[i][k]
      BY <1>1
    <3>2. CASE i = j
      BY <1>7, <3>2
    <3>3. CASE i <= j - 1
      <4>1. /\ j - 1 \in 0..m /\ j \in 0..m
            /\ r[i] <= r[j - 1] /\ \A k \in 1..r[i] : kept[j - 1][k] = kept[i][k]
        BY <1>1, <2>2, <3>3
      <4>2. kept[j - 1] \in Seq(S) /\ operands[j] \in S /\ r[j - 1] = Len(kept[j - 1]) /\ r[i] \in Nat
        BY <1>1, <1>6, <1>7, <4>1
      <4>3. /\ Len(Append(kept[j - 1], operands[j])) = r[j - 1] + 1 /\ r[j - 1] \in Nat
            /\ \A k \in 1..r[j - 1] : Append(kept[j - 1], operands[j])[k] = kept[j - 1][k]
        BY <4>2, AppendProperties
      <4>4. r[j - 1] <= r[j] /\ \A k \in 1..r[j - 1] : kept[j][k] = kept[j - 1][k]
        <5>1. r[j] = Len(kept[j])
          BY <1>7, <4>1
        <5>2. CASE j \in gone
          <6>1. kept[j] = kept[j - 1]
            BY <1>3, <5>2
          <6> QED BY <4>2, <4>3, <5>1, <6>1
        <5>3. CASE j \notin gone
          <6> DEFINE more == Append(kept[j - 1], operands[j])
          <6>1. kept[j] = more
            BY <1>3, <5>3
          <6>2. /\ Len(more) = r[j - 1] + 1 /\ r[j - 1] \in Nat
                /\ \A k \in 1..r[j - 1] : more[k] = kept[j - 1][k]
            BY <4>3
          <6> HIDE DEF more
          <6> QED BY <5>1, <6>1, <6>2
        <5> QED BY <5>2, <5>3
      <4>5. r[j] \in Nat
        BY <1>7, <4>1
      <4>6. r[i] <= r[j]
        BY <4>1, <4>2, <4>4, <4>5
      <4>7. ASSUME NEW k \in 1..r[i] PROVE kept[j][k] = kept[i][k]
        <5>1. k \in 1..r[j - 1]
          BY <4>1, <4>2
        <5> QED BY <4>1, <4>4, <5>1
      <4> QED BY <4>6, <4>7
    <3> QED BY <1>1, <3>1, <3>2, <3>3
  <2> HIDE DEF U
  <2> QED BY <1>1, <2>1, <2>2, UpTo
<1>9. \A i \in 0..m : r[i] <= r[m] /\ \A k \in 1..r[i] : d[k] = kept[i][k]
  <2> SUFFICES ASSUME NEW i \in 0..m PROVE r[i] <= r[m] /\ \A k \in 1..r[i] : d[k] = kept[i][k]
    OBVIOUS
  <2>1. m \in 0..m /\ i <= m
    BY <1>1
  <2> QED BY <1>2, <1>8, <2>1
<1> HIDE DEF U
<1>10. ASSUME NEW i \in 1..m
       PROVE  IF i \in gone THEN r[i] = r[i - 1]
              ELSE r[i] = r[i - 1] + 1 /\ r[i] <= Len(d) /\ d[r[i]] = operands[i]
  <2>1. i \in 0..m /\ i - 1 \in 0..m /\ m \in 0..m
    BY <1>1
  <2>2. CASE i \in gone
    BY <1>3, <1>7, <2>1, <2>2
  <2>3. CASE i \notin gone
    <3>1. kept[i] = Append(kept[i - 1], operands[i]) /\ kept[i - 1] \in Seq(S) /\ operands[i] \in S
      BY <1>1, <1>3, <1>6, <2>1, <2>3
    <3>2. /\ Len(kept[i]) = Len(kept[i - 1]) + 1 /\ Len(kept[i - 1]) \in Nat
          /\ kept[i][Len(kept[i])] = operands[i]
      BY <3>1, AppendProperties
    <3>3. r[i] = r[i - 1] + 1 /\ r[i] \in 1..r[i] /\ kept[i][r[i]] = operands[i]
      <4>1. r[i] = Len(kept[i]) /\ r[i - 1] = Len(kept[i - 1])
        BY <1>7, <2>1
      <4>2. PICK l \in Nat : l = Len(kept[i - 1])
        BY <3>2
      <4> QED BY <3>2, <4>1, <4>2
    <3>4. Len(d) = r[m]
      BY <1>2, <1>7, <2>1
    <3> QED BY <1>9, <2>1, <2>3, <3>3, <3>4
  <2> QED BY <2>2, <2>3
<1>11. Len(d) = r[m]
  <2>1. m \in 0..m
    BY <1>1
  <2> QED BY <1>2, <1>7, <2>1
<1> QED BY <1>7, <1>10, <1>11 DEF Ranks, m, d

\* Ranks grow where operands are left, and only there.
Grow(r, operands, gone) ==
    \A i, j \in 0..Len(operands) : i <= j =>
        /\ r[i] <= r[j]
        /\ r[i] = r[j] <=> \A k \in (i + 1)..j : k \in gone
\* Each rank is the one of an operand that is left.
Found(r, operands, gone) ==
    \A x \in 0..r[Len(operands)] :
        \E i \in 0..Len(operands) : r[i] = x /\ (i = 0 \/ i \notin gone)
\* The program stays first.
First(r, operands, gone) ==
    \A i \in 1..Len(operands) : i \notin gone => (r[i] = 1 <=> i = 1)
LEMMA RankFacts ==
  ASSUME NEW operands, Len(operands) \in Nat, NEW gone, gone \subseteq 2..Len(operands),
         NEW d, NEW r, Ranks(r, d, operands, gone)
  PROVE  Grow(r, operands, gone) /\ Found(r, operands, gone) /\ First(r, operands, gone)
<1> DEFINE m == Len(operands)
           T(i) == {j \in 0..m : i <= j =>
                        /\ r[i] <= r[j]
                        /\ r[i] = r[j] <=> \A k \in (i + 1)..j : k \in gone}
           Ranked(x) == \E i \in 0..m : r[i] = x /\ (i = 0 \/ i \notin gone)
           U == {j \in 0..m : \A x \in 0..r[j] : Ranked(x)}
<1>1. /\ m \in Nat /\ r \in [0..m -> Nat] /\ r[0] = 0
      /\ \A i \in 1..m : r[i] = IF i \in gone THEN r[i - 1] ELSE r[i - 1] + 1
  BY DEF Ranks
<1>2. \A i \in 1..m : i - 1 \in 0..m /\ i \in 0..m /\ r[i - 1] \in Nat /\ r[i] \in Nat
  BY <1>1
<1> HIDE DEF m
<1>3. ASSUME NEW i \in 0..m PROVE \A j \in 0..m : j \in T(i)
  <2>1. 0 \in T(i)
    BY <1>1
  <2>2. ASSUME NEW j \in 1..m, j - 1 \in T(i) PROVE j \in T(i)
    <3> SUFFICES ASSUME i <= j
                 PROVE  /\ r[i] <= r[j]
                        /\ r[i] = r[j] <=> \A k \in (i + 1)..j : k \in gone
      BY <1>2
    <3>1. r[i] \in Nat
      BY <1>1
    <3>2. CASE i = j
      BY <1>1, <3>1, <3>2
    <3>3. CASE i <= j - 1
      <4>1. /\ r[i] <= r[j - 1]
            /\ r[i] = r[j - 1] <=> \A k \in (i + 1)..(j - 1) : k \in gone
        BY <2>2, <3>3
      <4>2. \A k : k \in (i + 1)..j <=> k \in (i + 1)..(j - 1) \/ k = j
        BY <1>1, <3>3
      <4>3. r[j] = IF j \in gone THEN r[j - 1] ELSE r[j - 1] + 1
        BY <1>1
      <4>4. r[j - 1] \in Nat /\ r[j] \in Nat
        BY <1>2
      <4> HIDE DEF T
      <4>5. CASE j \in gone
        <5>1. r[j] = r[j - 1]
          BY <4>3, <4>5
        <5>2. (\A k \in (i + 1)..j : k \in gone) <=> \A k \in (i + 1)..(j - 1) : k \in gone
          BY <4>2, <4>5
        <5> QED BY <4>1, <5>1, <5>2
      <4>6. CASE j \notin gone
        <5>1. r[j] = r[j - 1] + 1
          BY <4>3, <4>6
        <5>2. r[i] < r[j]
          BY <3>1, <4>1, <4>4, <5>1
        <5>3. ~\A k \in (i + 1)..j : k \in gone
          BY <4>2, <4>6
        <5> QED BY <3>1, <4>4, <5>2, <5>3
      <4> QED BY <4>5, <4>6
    <3> QED BY <1>1, <3>2, <3>3
  <2> HIDE DEF T
  <2> QED BY <1>1, <2>1, <2>2, UpTo
<1>4. m \in U
  <2>1. 0 \in U
    BY <1>1
  <2>2. ASSUME NEW j \in 1..m, j - 1 \in U PROVE j \in U
    <3> SUFFICES ASSUME NEW x \in 0..r[j] PROVE Ranked(x)
      BY <1>2
    <3>1. CASE x \in 0..r[j - 1]
      <4> HIDE DEF Ranked
      <4> QED BY <2>2, <3>1
    <3>2. CASE x \notin 0..r[j - 1]
      <4>1. j \notin gone /\ x = r[j]
        BY <1>1, <1>2, <3>2
      <4> QED BY <1>2, <4>1
    <3> QED BY <3>1, <3>2
  <2> HIDE DEF U
  <2>3. \A j \in 0..m : j \in U
    BY <1>1, <2>1, <2>2, UpTo
  <2> QED BY <1>1, <2>3
<1>5. ASSUME NEW i \in 1..m, i \notin gone PROVE r[i] = 1 <=> i = 1
  <2>1. 1 \notin gone /\ 1 \in 1..m /\ 1 \in 0..m
    BY <1>1 DEF m
  <2>2. r[1] = 1
    BY <1>1, <2>1
  <2>3. CASE i # 1
    <3>1. 1 <= i - 1 /\ i - 1 \in 0..m
      BY <1>1, <2>3
    <3>2. r[1] <= r[i - 1]
      BY <1>3, <2>1, <3>1
    <3> QED BY <1>1, <1>2, <1>5, <2>2, <2>3, <3>2
  <2> QED BY <2>2, <2>3
<1>6. Grow(r, operands, gone)
  BY <1>3 DEF Grow, m
<1>7. Found(r, operands, gone)
  BY <1>4 DEF Found, m
<1>8. First(r, operands, gone)
  BY <1>5 DEF First, m
<1> QED BY <1>6, <1>7, <1>8

\* The term at i takes the operands from a + 1 to b of those that are left.
TakesLeft(path, d, i, a, b) ==
    CASE path[i].kind = "gap" -> b >= a
      [] path[i].kind = "exec" -> a < b /\ b = Len(d)
      [] OTHER -> b = a + 1 /\ Hit(path[i], d, b)

\* An operand matches a term where it stands among those that are left.
LEMMA HitLeft ==
  ASSUME NEW operands, Len(operands) \in Nat, NEW gone, gone \subseteq 2..Len(operands),
         NEW d, NEW r, Ranks(r, d, operands, gone),
         NEW b \in 1..Len(operands), b \notin gone, NEW term
  PROVE  Hit(term, d, r[b]) <=> Hit(term, operands, b)
<1>0. First(r, operands, gone)
  BY RankFacts
<1>1. r[b] = 1 <=> b = 1
  BY <1>0 DEF First
<1>2. d[r[b]] = operands[b]
  BY DEF Ranks
<1> QED BY <1>1, <1>2 DEF Hit

LEMMA TakesRank ==
  ASSUME NEW path, NEW operands, Len(operands) \in Nat,
         NEW gone, gone \subseteq 2..Len(operands),
         NEW d, NEW r, Ranks(r, d, operands, gone),
         NEW i, NEW a \in 0..Len(operands), NEW b \in 0..Len(operands),
         Takes(path, operands, gone, i, a, b)
  PROVE  TakesLeft(path, d, i, r[a], r[b])
<1>0. Grow(r, operands, gone)
  BY RankFacts
<1>1. a <= b /\ r[a] <= r[b] /\ (r[a] = r[b] <=> \A k \in (a + 1)..b : k \in gone)
  BY <1>0 DEF Takes, Grow
<1>2. r[a] \in Nat /\ r[b] \in Nat
  BY DEF Ranks
<1>3. CASE path[i].kind = "gap"
  BY <1>1, <1>2, <1>3 DEF TakesLeft
<1>4. CASE path[i].kind = "exec"
  <2>1. b = Len(operands) /\ \E k \in (a + 1)..b : k \notin gone
    BY <1>4 DEF Takes
  <2>2. r[b] = Len(d)
    BY <2>1 DEF Ranks
  <2>3. r[a] < r[b]
    BY <1>1, <1>2, <2>1
  <2> QED BY <1>4, <2>2, <2>3 DEF TakesLeft
<1>5. CASE path[i].kind \notin {"gap", "exec"}
  <2>1. /\ a < b /\ b \notin gone /\ \A k \in (a + 1)..(b - 1) : k \in gone
        /\ Hit(path[i], operands, b)
    BY <1>5 DEF Takes
  <2>2. b \in 1..Len(operands) /\ b - 1 \in 0..Len(operands) /\ a <= b - 1
    BY <2>1
  <2>3. r[a] = r[b - 1]
    BY <1>0, <2>1, <2>2 DEF Grow
  <2>4. r[b] = r[b - 1] + 1
    BY <2>1, <2>2 DEF Ranks
  <2>5. Hit(path[i], d, r[b])
    BY <2>1, <2>2, HitLeft
  <2> QED BY <1>5, <2>3, <2>4, <2>5 DEF TakesLeft
<1> QED BY <1>3, <1>4, <1>5

\* Conversely, when the operands at the ends are not gone.
LEMMA TakesBack ==
  ASSUME NEW path, NEW operands, Len(operands) \in Nat,
         NEW gone, gone \subseteq 2..Len(operands),
         NEW d, NEW r, Ranks(r, d, operands, gone),
         NEW i, NEW a \in 0..Len(operands), NEW b \in 0..Len(operands),
         a = 0 \/ a \notin gone,
         IF path[i].kind = "exec" THEN b = Len(operands) ELSE b = 0 \/ b \notin gone,
         TakesLeft(path, d, i, r[a], r[b])
  PROVE  Takes(path, operands, gone, i, a, b)
<1>0. Grow(r, operands, gone)
  BY RankFacts
<1>1. r[a] \in Nat /\ r[b] \in Nat /\ r[a] <= r[b]
  <2>1. r[a] \in Nat /\ r[b] \in Nat
    BY DEF Ranks
  <2> QED BY <2>1 DEF TakesLeft
<1>2. a <= b
  <2> SUFFICES ASSUME b < a PROVE FALSE
    OBVIOUS
  <2>1. r[b] <= r[a] /\ (r[b] = r[a] <=> \A k \in (b + 1)..a : k \in gone)
    BY <1>0 DEF Grow
  <2>2. a \in (b + 1)..a /\ a # 0
    OBVIOUS
  <2> QED BY <1>1, <2>1, <2>2
<1>3. r[a] = r[b] <=> \A k \in (a + 1)..b : k \in gone
  BY <1>0, <1>2 DEF Grow
<1>4. CASE path[i].kind = "gap"
  BY <1>2, <1>4 DEF Takes
<1>5. CASE path[i].kind = "exec"
  <2>1. r[a] < r[b] /\ b = Len(operands)
    BY <1>5 DEF TakesLeft
  <2>2. \E k \in (a + 1)..b : k \notin gone
    BY <1>1, <1>3, <2>1
  <2> QED BY <1>2, <1>5, <2>1, <2>2 DEF Takes
<1>6. CASE path[i].kind \notin {"gap", "exec"}
  <2>1. r[b] = r[a] + 1 /\ Hit(path[i], d, r[b])
    BY <1>6 DEF TakesLeft
  <2>2. b \in 1..Len(operands) /\ b \notin gone /\ a < b /\ b - 1 \in 0..Len(operands) /\ a <= b - 1
    <3>1. a # b
      BY <1>1, <2>1
    <3> QED BY <1>2, <1>6, <3>1
  <2>3. r[b] = r[b - 1] + 1 /\ r[b - 1] \in Nat
    BY <2>2 DEF Ranks
  <2>4. r[a] = r[b - 1]
    <3>1. PICK x \in Nat : x = r[a]
      BY <1>1
    <3>2. PICK y \in Nat : y = r[b - 1]
      BY <2>3
    <3>3. r[b] = x + 1 /\ r[b] = y + 1
      BY <2>1, <2>3, <3>1, <3>2
    <3>4. x = y
      BY <3>3
    <3> QED BY <3>1, <3>2, <3>4
  <2>5. \A k \in (a + 1)..(b - 1) : k \in gone
    BY <1>0, <2>2, <2>4 DEF Grow
  <2>6. Hit(path[i], operands, b)
    BY <2>1, <2>2, HitLeft
  <2> QED BY <1>2, <1>6, <2>2, <2>5, <2>6 DEF Takes
<1> QED BY <1>4, <1>5, <1>6

LEMMA WalkedAligned ==
  ASSUME NEW path, DOMAIN path = 1..Len(path), Len(path) \in Nat,
         NEW operands, Len(operands) \in Nat,
         NEW gone, gone \subseteq 2..Len(operands),
         NEW d, NEW r, Ranks(r, d, operands, gone),
         NEW exact, NEW end, Walked(path, operands, gone, exact, end)
  PROVE  Aligned(path, d, exact)
<1> DEFINE n == Len(path)
           m == Len(operands)
           left == [i \in 0..n |-> r[end[i]]]
<1>0. Grow(r, operands, gone)
  BY RankFacts
<1>1. /\ end \in [0..n -> 0..m] /\ end[0] = 0
      /\ \A i \in 1..n : Takes(path, operands, gone, i, end[i - 1], end[i])
      /\ exact => \A k \in (end[n] + 1)..m : k \in gone
  BY DEF Walked
<1>2. r \in [0..m -> Nat] /\ r[0] = 0 /\ Len(d) = r[m]
  BY DEF Ranks
<1>3. ASSUME NEW i \in 0..n PROVE left[i] = r[end[i]] /\ left[i] \in 0..Len(d)
  <2>1. end[i] \in 0..m /\ end[i] <= m /\ m \in 0..m
    BY <1>1
  <2>2. r[end[i]] <= r[m] /\ r[end[i]] \in Nat /\ r[m] \in Nat
    BY <1>0, <1>2, <2>1 DEF Grow
  <2> QED BY <1>2, <2>2
<1>4. left \in [0..n -> 0..Len(d)] /\ left[0] = 0
  BY <1>1, <1>2, <1>3
<1>5. ASSUME NEW i \in 1..n PROVE TakesLeft(path, d, i, left[i - 1], left[i])
  <2>1. i \in 0..n /\ i - 1 \in 0..n /\ end[i] \in 0..m /\ end[i - 1] \in 0..m
    BY <1>1
  <2>2. TakesLeft(path, d, i, r[end[i - 1]], r[end[i]])
    BY <1>1, <2>1, TakesRank
  <2> HIDE DEF left
  <2> QED BY <1>3, <2>1, <2>2
<1>6. exact => left[n] = Len(d)
  <2> SUFFICES ASSUME exact PROVE left[n] = Len(d)
    OBVIOUS
  <2>1. n \in 0..n /\ end[n] \in 0..m /\ m \in 0..m /\ end[n] <= m
    BY <1>1
  <2>2. \A k \in (end[n] + 1)..m : k \in gone
    BY <1>1
  <2>3. r[end[n]] = r[m]
    BY <1>0, <2>1, <2>2 DEF Grow
  <2> HIDE DEF left
  <2> QED BY <1>2, <1>3, <2>1, <2>3
<1> HIDE DEF left
<1>7. \A i \in DOMAIN path :
            CASE path[i].kind = "gap" -> left[i] >= left[i - 1]
              [] path[i].kind = "exec" -> left[i - 1] < left[i] /\ left[i] = Len(d)
              [] OTHER -> left[i] = left[i - 1] + 1 /\ Hit(path[i], d, left[i])
  BY <1>5, Zenon DEF TakesLeft
<1> QED BY <1>4, <1>6, <1>7 DEF Aligned

LEMMA AlignedWalked ==
  ASSUME NEW path, DOMAIN path = 1..Len(path), Len(path) \in Nat, ExecLast(path),
         NEW operands, Len(operands) \in Nat,
         NEW gone, gone \subseteq 2..Len(operands),
         NEW d, NEW r, Ranks(r, d, operands, gone),
         NEW exact, Aligned(path, d, exact)
  PROVE  \E end : Walked(path, operands, gone, exact, end)
<1> DEFINE n == Len(path)
           m == Len(operands)
<1>0. Grow(r, operands, gone) /\ Found(r, operands, gone)
  BY RankFacts
<1>1. r \in [0..m -> Nat] /\ r[0] = 0 /\ Len(d) = r[m] /\ r[m] \in Nat
  BY DEF Ranks
<1>2. PICK left \in [0..n -> 0..Len(d)] :
            /\ left[0] = 0
            /\ exact => left[n] = Len(d)
            /\ \A i \in DOMAIN path :
                CASE path[i].kind = "gap" -> left[i] >= left[i - 1]
                  [] path[i].kind = "exec" -> left[i - 1] < left[i] /\ left[i] = Len(d)
                  [] OTHER -> left[i] = left[i - 1] + 1 /\ Hit(path[i], d, left[i])
  BY DEF Aligned
<1>3. \A i \in 1..n : TakesLeft(path, d, i, left[i - 1], left[i])
  BY <1>2, Zenon DEF TakesLeft
<1> DEFINE Exec(i) == i > 0 /\ path[i].kind = "exec"
           At(i, o) == r[o] = left[i] /\ IF Exec(i) THEN o = m ELSE o = 0 \/ o \notin gone
           end == [i \in 0..n |-> CHOOSE o \in 0..m : At(i, o)]
<1>4. \A i \in 1..n : Exec(i) => i = n
  BY Zenon DEF ExecLast
<1>5. ASSUME NEW i \in 0..n PROVE \E o \in 0..m : At(i, o)
  <2>1. CASE Exec(i)
    <3>1. i \in 1..n /\ path[i].kind = "exec"
      BY <2>1
    <3>2. TakesLeft(path, d, i, left[i - 1], left[i])
      BY <1>3, <3>1
    <3>3. left[i] = r[m]
      BY <1>1, <3>1, <3>2 DEF TakesLeft
    <3>4. m \in 0..m
      OBVIOUS
    <3> HIDE DEF m, Exec
    <3> QED BY <2>1, <3>3, <3>4
  <2>2. CASE ~Exec(i)
    <3>1. left[i] \in 0..r[m]
      BY <1>1, <1>2
    <3>2. \E o \in 0..m : r[o] = left[i] /\ (o = 0 \/ o \notin gone)
      BY <1>0, <3>1 DEF Found
    <3> HIDE DEF m, Exec
    <3> QED BY <2>2, <3>2
  <2> QED BY <2>1, <2>2
<1>6. ASSUME NEW i \in 0..n PROVE end[i] \in 0..m /\ At(i, end[i])
  <2> HIDE DEF m, At
  <2> QED BY <1>5
<1> HIDE DEF At, Exec
<1>7. end \in [0..n -> 0..m]
  <2>1. end = [i \in 0..n |-> end[i]]
    OBVIOUS
  <2> HIDE DEF end, m
  <2> QED BY <1>6, <2>1
<1> HIDE DEF end
<1>8. end[0] = 0
  <2>1. 0 \in 0..n /\ ~Exec(0)
    BY DEF Exec
  <2>2. end[0] \in 0..m /\ r[end[0]] = 0 /\ (end[0] = 0 \/ end[0] \notin gone)
    BY <1>2, <1>6, <2>1 DEF At
  <2>3. CASE end[0] \in 1..m /\ end[0] \notin gone
    <3>1. end[0] - 1 \in 0..m
      BY <2>3
    <3>2. r[end[0]] = r[end[0] - 1] + 1
      BY <2>3 DEF Ranks
    <3>3. r[end[0] - 1] \in Nat
      BY <1>1, <3>1
    <3> QED BY <2>2, <3>2, <3>3
  <2> QED BY <2>2, <2>3
<1>9. ASSUME NEW i \in 1..n PROVE Takes(path, operands, gone, i, end[i - 1], end[i])
  <2>1. i \in 0..n /\ i - 1 \in 0..n /\ i > 0 /\ i - 1 # n
    OBVIOUS
  <2>2. ~Exec(i - 1)
    <3>1. i - 1 = 0 \/ i - 1 \in 1..n
      OBVIOUS
    <3>2. i - 1 = 0 => ~Exec(i - 1)
      BY DEF Exec
    <3>3. \A j \in 1..n : j # n => ~Exec(j)
      BY <1>4, Zenon
    <3> QED BY <2>1, <3>1, <3>2, <3>3, Zenon
  <2>3. end[i - 1] \in 0..m /\ (end[i - 1] = 0 \/ end[i - 1] \notin gone)
    BY <1>6, <2>1, <2>2 DEF At
  <2>4. IF path[i].kind = "exec" THEN end[i] = m ELSE end[i] = 0 \/ end[i] \notin gone
    <3>1. At(i, end[i]) /\ (Exec(i) <=> path[i].kind = "exec")
      BY <1>6, <2>1 DEF Exec
    <3> QED BY <3>1 DEF At
  <2>5. TakesLeft(path, d, i, r[end[i - 1]], r[end[i]])
    <3>1. r[end[i - 1]] = left[i - 1] /\ r[end[i]] = left[i]
      BY <1>6, <2>1 DEF At
    <3> QED BY <1>3, <3>1
  <2>6. end[i] \in 0..m
    BY <1>6, <2>1
  <2> QED BY <2>3, <2>4, <2>5, <2>6, TakesBack
<1>10. ASSUME exact PROVE \A k \in (end[n] + 1)..m : k \in gone
  <2>1. n \in 0..n /\ end[n] \in 0..m /\ r[end[n]] = left[n] /\ m \in 0..m
    BY <1>6 DEF At
  <2>2. r[end[n]] = r[m] /\ end[n] <= m
    BY <1>1, <1>2, <1>10, <2>1
  <2> QED BY <1>0, <2>1, <2>2 DEF Grow
<1> QED BY <1>7, <1>8, <1>9, <1>10 DEF Walked

-----------------------------------------------------------------------------
(* What MatchPath counts. *)

Counted(counts, operands, exact) == IF exact THEN Len(operands) \in counts ELSE counts # {}
CountsWalked(path, operands, optional, exact) ==
    Counted(MatchPath(path, operands, optional), operands, exact) <=>
        \E gone \in SUBSET optional : \E end : Walked(path, operands, gone, exact, end)

LEMMA CountedWalked ==
  ASSUME NEW path, Len(path) \in Nat, ExecLast(path),
         NEW operands, Len(operands) \in Nat,
         NEW optional, optional \subseteq 2..Len(operands), NEW exact \in BOOLEAN
  PROVE  CountsWalked(path, operands, optional, exact)
<1> DEFINE n == Len(path)
           m == Len(operands)
           counts == MatchPath(path, operands, optional)
<1>1. PICK c : Solves(c, path, operands, optional) /\ counts = c[<<1, 0>>]
  BY CountsAre
<1> HIDE DEF counts
<1>2. ASSUME NEW e \in counts, exact => e = m
      PROVE  \E gone \in SUBSET optional : \E end : Walked(path, operands, gone, exact, end)
  <2>1. Reached(path, operands, optional, 1, 0, e)
    <3>1. 1 \in 1..(n + 1) /\ 0 \in 0..m /\ e \in c[<<1, 0>>]
      BY <1>1
    <3>2. \A p \in 1..(n + 1), o \in 0..m : \A x :
                x \in c[<<p, o>>] => Reached(path, operands, optional, p, o, x)
      BY <1>1, CountsReached
    <3> QED BY <3>1, <3>2
  <2>2. PICK gone, end : gone \in SUBSET Later(optional, 0) /\ Walks(path, operands, gone, end, 1, 0, e)
    BY <2>1 DEF Reached
  <2>3. gone \in SUBSET optional
    BY <2>2 DEF Later
  <2>4. /\ end \in [0..n -> 0..m] /\ end[0] = 0
        /\ \A i \in 1..n : Takes(path, operands, gone, i, end[i - 1], end[i])
        /\ \A k \in (end[n] + 1)..e : k \in gone
    <3>1. 1 - 1 = 0
      OBVIOUS
    <3> QED BY <2>2, <3>1 DEF Walks
  <2>5. Walked(path, operands, gone, exact, end)
    BY <1>2, <2>4 DEF Walked
  <2> QED BY <2>3, <2>5
<1>3. ASSUME NEW gone \in SUBSET optional, NEW end, Walked(path, operands, gone, exact, end)
      PROVE  \E e \in counts : exact => e = m
  <2>1. \E e \in c[<<1, 0>>] : exact => e = m
    BY <1>1, <1>3, WalksCounted
  <2> QED BY <1>1, <2>1
<1>4. Counted(counts, operands, exact) <=> \E e \in counts : exact => e = m
  BY DEF Counted
<1>5. Counted(counts, operands, exact) <=>
            \E gone \in SUBSET optional : \E end : Walked(path, operands, gone, exact, end)
  BY <1>2, <1>3, <1>4
<1> QED BY <1>5 DEF counts, CountsWalked

LEMMA DroppedWalked ==
  ASSUME NEW path, DOMAIN path = 1..Len(path), Len(path) \in Nat, ExecLast(path),
         NEW S, NEW operands \in Seq(S),
         NEW gone, gone \subseteq 2..Len(operands), NEW exact
  PROVE  Aligned(path, Dropping(operands, gone), exact) <=>
            \E end : Walked(path, operands, gone, exact, end)
<1>1. PICK r : Ranks(r, Dropping(operands, gone), operands, gone)
  BY DroppingRanks
<1>2. PICK d : d = Dropping(operands, gone)
  OBVIOUS
<1>3. Len(operands) \in Nat /\ Ranks(r, d, operands, gone)
  BY <1>1, <1>2
<1>4. Aligned(path, d, exact) => \E end : Walked(path, operands, gone, exact, end)
  BY <1>3, AlignedWalked
<1>5. ASSUME NEW end, Walked(path, operands, gone, exact, end) PROVE Aligned(path, d, exact)
  BY <1>3, <1>5, WalkedAligned
<1> QED BY <1>2, <1>4, <1>5

LEMMA StandingWalked ==
  ASSUME NEW path, DOMAIN path = 1..Len(path), Len(path) \in Nat, ExecLast(path),
         NEW operands, Len(operands) \in Nat, NEW exact
  PROVE  Aligned(path, operands, exact) <=> \E end : Walked(path, operands, {}, exact, end)
<1> DEFINE r == [i \in 0..Len(operands) |-> i]
<1>1. Ranks(r, operands, operands, {})
  BY DEF Ranks
<1> HIDE DEF r
<1>2. {} \subseteq 2..Len(operands)
  OBVIOUS
<1>3. Aligned(path, operands, exact) => \E end : Walked(path, operands, {}, exact, end)
  BY <1>1, <1>2, AlignedWalked
<1>4. ASSUME NEW end, Walked(path, operands, {}, exact, end) PROVE Aligned(path, operands, exact)
  BY <1>1, <1>2, <1>4, WalkedAligned
<1> QED BY <1>3, <1>4

LEMMA PathIs ==
  ASSUME NEW p, DOMAIN p.path = 1..Len(p.path), Len(p.path) \in Nat, ExecLast(p.path),
         p.exact \in BOOLEAN, NEW S, NEW s, OperandsOK(s, S)
  PROVE  /\ PathMatches(p, s, FALSE) <=> Aligned(p.path, s.operands, p.exact)
         /\ PathMatches(p, s, TRUE) <=>
                \E gone \in SUBSET s.optional : Aligned(p.path, Dropping(s.operands, gone), p.exact)
<1>1. s.operands \in Seq(S) /\ Len(s.operands) \in Nat /\ s.optional \subseteq 2..Len(s.operands)
  BY DEF OperandsOK
<1>2. PathMatches(p, s, FALSE) <=> Counted(MatchPath(p.path, s.operands, {}), s.operands, p.exact)
  BY DEF PathMatches, Counted
<1>3. PathMatches(p, s, TRUE) <=>
            Counted(MatchPath(p.path, s.operands, s.optional), s.operands, p.exact)
  BY DEF PathMatches, Counted
<1>4. Counted(MatchPath(p.path, s.operands, {}), s.operands, p.exact) <=>
            \E gone \in SUBSET {} : \E end : Walked(p.path, s.operands, gone, p.exact, end)
  <2>1. {} \subseteq 2..Len(s.operands)
    BY Zenon
  <2>2. CountsWalked(p.path, s.operands, {}, p.exact)
    BY <1>1, <2>1, CountedWalked
  <2> QED BY <2>2 DEF CountsWalked
<1>5. Counted(MatchPath(p.path, s.operands, s.optional), s.operands, p.exact) <=>
            \E gone \in SUBSET s.optional : \E end : Walked(p.path, s.operands, gone, p.exact, end)
  <2>1. CountsWalked(p.path, s.operands, s.optional, p.exact)
    BY <1>1, CountedWalked
  <2> QED BY <2>1 DEF CountsWalked
<1>6. Aligned(p.path, s.operands, p.exact) <=>
            \E end : Walked(p.path, s.operands, {}, p.exact, end)
  BY <1>1, StandingWalked
<1>7. \A gone \in SUBSET s.optional :
            Aligned(p.path, Dropping(s.operands, gone), p.exact) <=>
                \E end : Walked(p.path, s.operands, gone, p.exact, end)
  <2> SUFFICES ASSUME NEW gone \in SUBSET s.optional
               PROVE  Aligned(p.path, Dropping(s.operands, gone), p.exact) <=>
                            \E end : Walked(p.path, s.operands, gone, p.exact, end)
    OBVIOUS
  <2>1. gone \subseteq 2..Len(s.operands)
    BY <1>1
  <2> QED BY <1>1, <2>1, DroppedWalked
<1>8. SUBSET {} = {{}}
  OBVIOUS
<1>9. PathMatches(p, s, FALSE) <=> Aligned(p.path, s.operands, p.exact)
  BY <1>2, <1>4, <1>6, <1>8
<1>10. PathMatches(p, s, TRUE) <=>
            \E gone \in SUBSET s.optional : Aligned(p.path, Dropping(s.operands, gone), p.exact)
  BY <1>3, <1>5, <1>7
<1> QED BY <1>9, <1>10

-----------------------------------------------------------------------------
(* What holds of the pattern and of the command in every state. *)

PatternType ==
    /\ DOMAIN pattern = {"path", "flags", "sets", "values", "sql", "closed", "open",
                         "exact", "only", "arity", "stdin"}
    /\ pattern.exact \in BOOLEAN
    /\ \E T : pattern.path \in Seq(T)
Inv ==
    /\ PatternType
    /\ status = "ready" => Complete
    /\ argv \in Seq(Programs \cup Arguments)

LEMMA Begins == Init => Inv
<1> SUFFICES ASSUME Init PROVE Inv
  OBVIOUS
<1>1. PatternType
  <2>1. pattern = Empty /\ <<>> \in Seq({})
    BY DEF Init
  <2> QED BY <2>1 DEF PatternType, Empty
<1>2. argv \in Seq(Programs \cup Arguments)
  <2>1. argv = <<>>
    BY DEF Init
  <2> QED BY <2>1
<1> QED BY <1>1, <1>2 DEF Inv, Init

\* A term that is read adds to one of the pattern's parts.
LEMMA ReadsOn ==
  ASSUME Inv, Next
  PROVE  PatternType' /\ (pattern' = pattern \/ status' = "reading")
<1>0. PatternType
  BY DEF Inv
<1>1. ASSUME NEW term, pattern' = [pattern EXCEPT !.path = Append(@, term)] PROVE PatternType'
  <2>1. PICK T : pattern.path \in Seq(T)
    BY <1>0 DEF PatternType
  <2> DEFINE U == T \cup {term}
  <2>2. term \in U /\ pattern.path \in Seq(U)
    <3>1. T \subseteq U
      OBVIOUS
    <3> HIDE DEF U
    <3>2. pattern.path \in Seq(U)
      BY <2>1, <3>1, SeqMonotonic
    <3> QED BY <3>2 DEF U
  <2> HIDE DEF U
  <2>3. Append(pattern.path, term) \in Seq(U)
    BY <2>2, AppendProperties
  <2>4. pattern'.path = Append(pattern.path, term)
    BY <1>0, <1>1 DEF PatternType
  <2>5. \E V : pattern'.path \in Seq(V)
    BY <2>3, <2>4
  <2>6. DOMAIN pattern' = DOMAIN pattern /\ pattern'.exact = pattern.exact
    BY <1>0, <1>1 DEF PatternType
  <2> QED BY <1>0, <2>5, <2>6 DEF PatternType
<1>2. ASSUME DOMAIN pattern' = DOMAIN pattern, pattern'.path = pattern.path,
             pattern'.exact = pattern.exact \/ pattern'.exact = TRUE
      PROVE  PatternType'
  BY <1>0, <1>2 DEF PatternType
<1>3. CASE ReadGap
  <2>1. status' = "reading"
    BY <1>3 DEF ReadGap, OnPath, Keep, Read
  <2>2. \/ pattern' = [pattern EXCEPT !.path = Append(@, Capture("gap"))]
        \/ pattern' = [pattern EXCEPT !.exact = TRUE]
    BY <1>3 DEF ReadGap, OnPath, Keep
  <2>3. CASE pattern' = [pattern EXCEPT !.path = Append(@, Capture("gap"))]
    BY <1>1, <2>1, <2>3
  <2>4. CASE pattern' = [pattern EXCEPT !.exact = TRUE]
    <3>1. /\ DOMAIN pattern' = DOMAIN pattern /\ pattern'.path = pattern.path
          /\ pattern'.exact = TRUE
      BY <1>0, <2>4 DEF PatternType
    <3> QED BY <1>2, <2>1, <3>1
  <2> QED BY <2>2, <2>3, <2>4
<1>4. CASE ReadDashes
  BY <1>1, <1>4 DEF ReadDashes, Read, OnPath, Keep
<1>5. CASE ReadCapture
  BY <1>1, <1>5 DEF ReadCapture, Read, OnPath, Keep
<1>6. CASE ReadWords
  BY <1>1, <1>6 DEF ReadWords, Read, OnPath, Keep
<1>7. ASSUME NEW read, status = "reading", Keep(read), DOMAIN read = DOMAIN pattern,
             read.path = pattern.path, read.exact = pattern.exact
      PROVE  PatternType' /\ status' = "reading"
  <2>1. pattern' = read /\ status' = "reading"
    BY <1>7 DEF Keep
  <2> QED BY <1>2, <1>7, <2>1
<1>8. CASE ReadStdin
  <2>1. PICK read : Keep(read) /\ read = [pattern EXCEPT !.stdin = TRUE]
    BY <1>8 DEF ReadStdin
  <2>2. DOMAIN read = DOMAIN pattern /\ read.path = pattern.path /\ read.exact = pattern.exact
    BY <1>0, <2>1 DEF PatternType
  <2> QED BY <1>7, <1>8, <2>1, <2>2 DEF ReadStdin, Read
<1>9. CASE ReadSqlValues
  <2>1. PICK read : Keep(read) /\ read = [pattern EXCEPT !.values = @ \cup Members, !.sql = @ \cup {Members}]
    BY <1>9 DEF ReadSqlValues
  <2>2. DOMAIN read = DOMAIN pattern /\ read.path = pattern.path /\ read.exact = pattern.exact
    BY <1>0, <2>1 DEF PatternType
  <2> QED BY <1>7, <1>9, <2>1, <2>2 DEF ReadSqlValues, Read
<1>10. CASE ReadAnyFlag
  <2>1. PICK read :
            /\ Keep(read)
            /\ \/ read = [pattern EXCEPT !.open = TRUE]
               \/ read = [pattern EXCEPT !.closed = TRUE]
    BY <1>10 DEF ReadAnyFlag
  <2>2. DOMAIN read = DOMAIN pattern /\ read.path = pattern.path /\ read.exact = pattern.exact
    BY <1>0, <2>1 DEF PatternType
  <2> QED BY <1>7, <1>10, <2>1, <2>2 DEF ReadAnyFlag, Read
<1>11. CASE ReadOnly
  <2>1. PICK read : Keep(read) /\ read = [pattern EXCEPT !.only = TRUE, !.closed = TRUE,
                                            !.flags = @ \cup Constrained("permitted")]
    BY <1>11 DEF ReadOnly
  <2>2. DOMAIN read = DOMAIN pattern /\ read.path = pattern.path /\ read.exact = pattern.exact
    BY <1>0, <2>1 DEF PatternType
  <2> QED BY <1>7, <1>11, <2>1, <2>2 DEF ReadOnly, Read
<1>12. CASE ReadValues
  <2>1. PICK read : Keep(read) /\ read = [pattern EXCEPT !.arity = TRUE, !.values = @ \cup Members]
    BY <1>12 DEF ReadValues
  <2>2. DOMAIN read = DOMAIN pattern /\ read.path = pattern.path /\ read.exact = pattern.exact
    BY <1>0, <2>1 DEF PatternType
  <2> QED BY <1>7, <1>12, <2>1, <2>2 DEF ReadValues, Read
<1>13. CASE ReadFlag
  <2> DEFINE m == Term.members[1]
             glob == IF Equals(m) = 0 THEN None ELSE ValueOf(m)
             taking == IF glob = None THEN {} ELSE {AtomOf(m)}
             constraint == Constraint(AtomOf(m), Disposition[Term.sigil], glob)
  <2>1. PICK read : Keep(read) /\ read = [pattern EXCEPT !.flags = @ \cup {constraint},
                                                        !.values = @ \cup taking]
    BY <1>13 DEF ReadFlag
  <2> HIDE DEF taking, constraint
  <2>2. DOMAIN read = DOMAIN pattern /\ read.path = pattern.path /\ read.exact = pattern.exact
    BY <1>0, <2>1 DEF PatternType
  <2> QED BY <1>7, <1>13, <2>1, <2>2 DEF ReadFlag, Read
<1>14. CASE ReadFlagSet
  <2>1. PICK read :
            /\ Keep(read)
            /\ \/ read = [pattern EXCEPT !.sets = @ \cup {Members}]
               \/ read = [pattern EXCEPT !.flags = @ \cup Constrained(Disposition[Term.sigil])]
    BY <1>14 DEF ReadFlagSet
  <2>2. DOMAIN read = DOMAIN pattern /\ read.path = pattern.path /\ read.exact = pattern.exact
    BY <1>0, <2>1 DEF PatternType
  <2> QED BY <1>7, <1>14, <2>1, <2>2 DEF ReadFlagSet, Read
<1>15. CASE Refuse \/ Finish \/ Extend
  <2>1. pattern' = pattern
    BY <1>15 DEF Refuse, Finish, Extend
  <2> QED BY <1>0, <2>1 DEF PatternType
<1> QED BY <1>3, <1>4, <1>5, <1>6, <1>8, <1>9, <1>10, <1>11, <1>12, <1>13, <1>14, <1>15 DEF Next

LEMMA Goes == Inv /\ [Next]_vars => Inv'
<1> SUFFICES ASSUME Inv, [Next]_vars PROVE Inv'
  OBVIOUS
<1>1. CASE UNCHANGED vars
  BY <1>1 DEF Inv, vars, PatternType, Complete, Kinds
<1>2. CASE Next
  <2>1. PatternType' /\ (pattern' = pattern \/ status' = "reading")
    BY <1>2, ReadsOn
  <2>2. status' = "ready" => Complete'
    <3>1. CASE pattern' = pattern
      <4>1. Complete' <=> Complete
        BY <3>1 DEF Complete, Kinds
      <4>2. status' = "ready" => status = "ready" \/ Complete
        BY <1>2 DEF Next, ReadGap, ReadDashes, ReadCapture, ReadStdin, ReadSqlValues,
            ReadAnyFlag, ReadOnly, ReadValues, ReadFlag, ReadFlagSet, ReadWords, OnPath, Keep,
            Refuse, Finish, Extend
      <4> QED BY <4>1, <4>2 DEF Inv
    <3>2. CASE status' = "reading"
      BY <3>2
    <3> QED BY <2>1, <3>1, <3>2
  <2>3. argv' \in Seq(Programs \cup Arguments)
    <3>1. CASE argv' = argv
      BY <3>1 DEF Inv
    <3>2. ASSUME NEW arg \in Programs \cup Arguments, argv' = Append(argv, arg)
          PROVE  argv' \in Seq(Programs \cup Arguments)
      BY <3>2, AppendProperties DEF Inv
    <3>3. argv' = argv \/ \E arg \in Programs \cup Arguments : argv' = Append(argv, arg)
      BY <1>2 DEF Next, ReadGap, ReadDashes, ReadCapture, ReadStdin, ReadSqlValues,
            ReadAnyFlag, ReadOnly, ReadValues, ReadFlag, ReadFlagSet, ReadWords, OnPath, Keep,
            Refuse, Finish, Extend
    <3> QED BY <3>1, <3>2, <3>3
  <2> QED BY <2>1, <2>2, <2>3 DEF Inv
<1> QED BY <1>1, <1>2

\* Nothing follows an <EXEC> in a pattern that was read.
LEMMA ExecEnds ==
  ASSUME Inv, status = "ready"
  PROVE  /\ DOMAIN pattern.path = 1..Len(pattern.path) /\ Len(pattern.path) \in Nat
         /\ ExecLast(pattern.path)
<1> DEFINE path == pattern.path
           n == Len(path)
<1>1. DOMAIN path = 1..n /\ n \in Nat
  BY LenProperties DEF Inv, PatternType
<1>2. Contains(Kinds, "exec") => ~Contains(Front(Kinds), "exec")
  BY DEF Inv, Complete
<1>3. PICK V : \A i \in 1..n : path[i].kind \in V
  <2> DEFINE V == {path[i].kind : i \in 1..n}
  <2>1. \A i \in 1..n : path[i].kind \in V
    OBVIOUS
  <2> QED BY <2>1
<1>4. /\ Kinds \in Seq(V) /\ Len(Kinds) = n
      /\ \A i \in 1..n : Kinds[i] = path[i].kind
  <2>1. Kinds = [i \in 1..n |-> path[i].kind]
    BY <1>1 DEF Kinds
  <2> HIDE DEF n
  <2> QED BY <1>1, <1>3, <2>1
<1> HIDE DEF path, n
<1>5. \A i \in 1..(n - 1) : Front(Kinds)[i] = Kinds[i] /\ i \in 1..Len(Front(Kinds))
  <2>1. \A i \in 1..(n - 1) : Kinds[i] \in V
    BY <1>1, <1>3, <1>4
  <2>2. CASE n = 0
    BY <2>2
  <2>3. CASE n # 0
    <3>1. (n - 1 \in Int /\ 1 \in Int /\ 1 <= (n - 1)) \/ n - 1 = 0
      BY <1>1, <2>3
    <3>2. /\ Len(SubSeq(Kinds, 1, n - 1)) = IF 1 <= n - 1 THEN (n - 1) - 1 + 1 ELSE 0
          /\ \A i \in 1..((n - 1) - 1 + 1) : SubSeq(Kinds, 1, n - 1)[i] = Kinds[1 + i - 1]
      BY <1>1, <2>1, SubSeqProperties
    <3> QED BY <1>1, <1>4, <3>1, <3>2 DEF Front
  <2> QED BY <2>2, <2>3
<1>6. ASSUME NEW i \in 1..n, path[i].kind = "exec" PROVE i = n
  <2>1. Contains(Kinds, "exec")
    BY <1>1, <1>4, <1>6 DEF Contains
  <2>2. CASE i # n
    <3>1. i \in 1..(n - 1)
      BY <1>1, <2>2
    <3>2. Contains(Front(Kinds), "exec")
      BY <1>4, <1>5, <1>6, <3>1 DEF Contains
    <3> QED BY <1>2, <2>1, <3>2
  <2> QED BY <2>2
<1> QED BY <1>1, <1>6 DEF ExecLast, path, n

\* What the matching works with: a path, and operands of which the program is not optional.
LEMMA ReadingIs ==
  ASSUME Inv, Matchable, NEW s, s = Reading(pattern, argv)
  PROVE  /\ OperandsOK(s, Programs \cup Arguments \cup {Dashes})
         /\ DOMAIN pattern.path = 1..Len(pattern.path) /\ Len(pattern.path) \in Nat
         /\ ExecLast(pattern.path) /\ pattern.exact \in BOOLEAN
<1> DEFINE S == Programs \cup Arguments \cup {Dashes}
<1>1. status = "ready" /\ argv # <<>> /\ argv \in Seq(S) /\ Dashes \in S
  <2>1. argv \in Seq(Programs \cup Arguments) /\ Programs \cup Arguments \subseteq S
    BY DEF Inv
  <2> HIDE DEF S
  <2>2. argv \in Seq(S)
    BY <2>1, SeqMonotonic
  <2> QED BY <2>2 DEF Matchable, S
<1> HIDE DEF S
<1>2. OperandsOK(s, S)
  BY <1>1, SplitOperands DEF Reading
<1>3. /\ DOMAIN pattern.path = 1..Len(pattern.path) /\ Len(pattern.path) \in Nat
      /\ ExecLast(pattern.path) /\ pattern.exact \in BOOLEAN
  BY <1>1, ExecEnds DEF Inv, PatternType
<1> QED BY <1>2, <1>3 DEF S

\* PathReadings, for every set of patterns, programs and arguments: what MatchPath counts
\* for a rule that allows is an alignment of the operands as they stand, and for one that
\* denies or asks an alignment of those that are left under some guess.
THEOREM PathsAsRead == Spec => []PathReadings
<1>1. Inv => PathReadings
  <2> SUFFICES ASSUME Inv, Matchable
               PROVE  LET s == Reading(pattern, argv)
                      IN /\ PathMatches(pattern, s, FALSE)
                                <=> Aligned(pattern.path, s.operands, pattern.exact)
                         /\ PathMatches(pattern, s, TRUE) <=>
                                \E gone \in SUBSET s.optional :
                                    Aligned(pattern.path, Dropping(s.operands, gone), pattern.exact)
    BY DEF PathReadings
  <2>1. PICK s : s = Reading(pattern, argv)
    OBVIOUS
  <2>2. /\ OperandsOK(s, Programs \cup Arguments \cup {Dashes})
        /\ DOMAIN pattern.path = 1..Len(pattern.path) /\ Len(pattern.path) \in Nat
        /\ ExecLast(pattern.path) /\ pattern.exact \in BOOLEAN
    BY <2>1, ReadingIs
  <2>3. /\ PathMatches(pattern, s, FALSE) <=> Aligned(pattern.path, s.operands, pattern.exact)
        /\ PathMatches(pattern, s, TRUE) <=>
                \E gone \in SUBSET s.optional :
                    Aligned(pattern.path, Dropping(s.operands, gone), pattern.exact)
    BY <2>2, PathIs
  <2> QED BY <2>1, <2>3
<1> QED BY <1>1, Begins, Goes, PTL DEF Spec

\* A rule that denies matches every command that it would match as one that allows: the
\* reading in which no word is an option's value is among those it explores.
AllowedIsDenied ==
    (Matchable /\ Match(pattern, argv, FALSE)) => Match(pattern, argv, TRUE)

THEOREM DenyReadsMore == Spec => []AllowedIsDenied
<1>1. Inv => AllowedIsDenied
  <2> SUFFICES ASSUME Inv, Matchable, Match(pattern, argv, FALSE)
               PROVE  Match(pattern, argv, TRUE)
    BY Zenon DEF AllowedIsDenied
  <2>1. PICK s : s = Reading(pattern, argv)
    OBVIOUS
  <2>2. /\ OperandsOK(s, Programs \cup Arguments \cup {Dashes})
        /\ ExecLast(pattern.path) /\ pattern.exact \in BOOLEAN
        /\ DOMAIN pattern.path = 1..Len(pattern.path) /\ Len(pattern.path) \in Nat
    BY <2>1, ReadingIs
  <2>3. PathMatches(pattern, s, FALSE)
    BY <2>1 DEF Match
  <2>4. Aligned(pattern.path, s.operands, pattern.exact)
    BY <2>2, <2>3, PathIs
  <2>5. Len(s.operands) \in Nat /\ s.operands \in Seq(Programs \cup Arguments \cup {Dashes})
        /\ s.optional \subseteq 2..Len(s.operands)
    BY <2>2 DEF OperandsOK
  <2>6. PICK end : Walked(pattern.path, s.operands, {}, pattern.exact, end)
    BY <2>2, <2>4, <2>5, StandingWalked
  <2>7. {} \in SUBSET s.optional
    BY Zenon
  <2>8. CountsWalked(pattern.path, s.operands, s.optional, pattern.exact)
    BY <2>2, <2>5, CountedWalked
  <2>9. PathMatches(pattern, s, TRUE)
    BY <2>6, <2>7, <2>8 DEF CountsWalked, PathMatches, Counted
  <2> QED BY <2>1, <2>9 DEF Match
<1> QED BY <1>1, Begins, Goes, PTL DEF Spec

-----------------------------------------------------------------------------
(* A command and the same with an option nobody knows and a word put in, read side by side. *)

\* Where the operand at j stands when another one is put in at k.
Past(k, j) == IF j < k THEN j ELSE j + 1

\* One operand more, at k.
Paired(u, v, k) ==
    /\ Len(v) = Len(u) + 1 /\ k \in 2..Len(v)
    /\ \A j \in 1..Len(u) : v[Past(k, j)] = u[j]

\* The longer command saw more options, has one more operand, at k, and that one is optional.
Alongside(s, t, k, more) ==
    /\ t.atoms = s.atoms \cup more /\ t.values = s.values
    /\ t.past = s.past /\ t.unknown = s.unknown /\ t.awaited = s.awaited
    /\ Paired(s.operands, t.operands, k)
    /\ k \in t.optional /\ \A j \in s.optional : Past(k, j) \in t.optional

\* An option or a value was read: the operands are the same.
Saw(s, t, atoms, values, unknown, awaited) ==
    /\ t.atoms = s.atoms \cup atoms /\ t.values = s.values \cup values
    /\ t.past = s.past /\ t.unknown = unknown /\ t.awaited = awaited
    /\ t.operands = s.operands /\ t.optional = s.optional

Awaiting(s, atoms, pairs, x) == [See(s, atoms, pairs) EXCEPT !.awaited = x]
Unsure(s, atoms, pairs, x) == [See(s, atoms, pairs) EXCEPT !.unknown = x]
LEMMA SeeSaw ==
  ASSUME NEW s, IsState(s), NEW atoms, NEW values, NEW x
  PROVE  /\ Saw(s, See(s, atoms, values), atoms, values, FALSE, s.awaited)
         /\ Saw(s, Awaiting(s, atoms, values, x), atoms, values, FALSE, x)
         /\ Saw(s, Unsure(s, atoms, values, x), atoms, values, x, s.awaited)
<1>1. PICK u : u = See(s, atoms, values)
  OBVIOUS
<1>2. /\ IsState(u) /\ u.operands = s.operands /\ u.optional = s.optional
      /\ u.atoms = s.atoms \cup atoms /\ u.values = s.values \cup values
      /\ u.past = s.past /\ u.unknown = FALSE /\ u.awaited = s.awaited
  BY <1>1 DEF See, IsState
<1>3. Saw(s, u, atoms, values, FALSE, s.awaited)
  BY <1>2 DEF Saw
<1>4. Saw(s, Awaiting(s, atoms, values, x), atoms, values, FALSE, x)
  <2>1. PICK v : v = Awaiting(s, atoms, values, x)
    OBVIOUS
  <2>2. v = [u EXCEPT !.awaited = x]
    BY <1>1, <2>1 DEF Awaiting
  <2>3. /\ v.operands = u.operands /\ v.optional = u.optional
        /\ v.atoms = u.atoms /\ v.values = u.values
        /\ v.past = u.past /\ v.unknown = u.unknown /\ v.awaited = x
    BY <1>2, <2>2, WithIs
  <2>4. Saw(s, v, atoms, values, FALSE, x)
    BY <1>2, <2>3 DEF Saw
  <2> QED BY <2>1, <2>4
<1>5. Saw(s, Unsure(s, atoms, values, x), atoms, values, x, s.awaited)
  <2>1. PICK v : v = Unsure(s, atoms, values, x)
    OBVIOUS
  <2>2. v = [u EXCEPT !.unknown = x]
    BY <1>1, <2>1 DEF Unsure
  <2>3. /\ v.operands = u.operands /\ v.optional = u.optional
        /\ v.atoms = u.atoms /\ v.values = u.values
        /\ v.past = u.past /\ v.unknown = x /\ v.awaited = u.awaited
    BY <1>2, <2>2, WithIs
  <2>4. Saw(s, v, atoms, values, x, s.awaited)
    BY <1>2, <2>3 DEF Saw
  <2> QED BY <2>1, <2>4
<1> QED BY <1>1, <1>3, <1>4, <1>5

\* What an argument that is no operand does depends on what is awaited alone.
Sees(arg, values, known, dashes, awaited, past, atoms, pairs, unknown, next) ==
    \A s : IsState(s) /\ s.awaited = awaited /\ s.past = past =>
        Saw(s, Take(s, arg, values, known, dashes), atoms, pairs, unknown, next)
LEMMA TakeSees ==
  ASSUME NEW arg, NEW values, NEW known, NEW dashes, NEW awaited, NEW past,
         awaited # None \/ (~past /\ IsFlag(arg) /\ arg # Dashes)
  PROVE  \E atoms, pairs, unknown, next :
            Sees(arg, values, known, dashes, awaited, past, atoms, pairs, unknown, next)
<1>1. CASE awaited # None
  <2> DEFINE atoms == ConsumedAtoms(arg, values)
             pairs == {<<awaited, IF IsFlag(arg) THEN None ELSE arg>>}
  <2>1. ASSUME NEW s, IsState(s), s.awaited = awaited, s.past = past
        PROVE  Saw(s, Take(s, arg, values, known, dashes), atoms, pairs, FALSE, None)
    <3>1. Take(s, arg, values, known, dashes) = TakeValue(s, arg, values)
      BY <1>1, <2>1 DEF Take
    <3>2. TakeValue(s, arg, values) = Awaiting(s, atoms, pairs, None)
      BY <2>1 DEF TakeValue, Awaiting
    <3> HIDE DEF atoms, pairs
    <3>3. Saw(s, Awaiting(s, atoms, pairs, None), atoms, pairs, FALSE, None)
      BY <2>1, SeeSaw
    <3> QED BY <3>1, <3>2, <3>3
  <2> HIDE DEF atoms, pairs
  <2>2. Sees(arg, values, known, dashes, awaited, past, atoms, pairs, FALSE, None)
    BY <2>1 DEF Sees
  <2> QED BY <2>2
<1>2. CASE awaited = None /\ ~past /\ IsFlag(arg) /\ arg # Dashes /\ IsLong(arg)
  <2>1. \A s : s.awaited = awaited /\ s.past = past =>
            Take(s, arg, values, known, dashes) = TakeLong(s, arg, values, known)
    BY <1>2 DEF Take
  <2> DEFINE value == Attached(ValueOf(arg))
  <2>2. CASE Equals(arg) # 0
    <3> DEFINE atoms == {AtomOf(arg)}
               pairs == {<<AtomOf(arg), value>>}
    <3>1. \A s : TakeLong(s, arg, values, known) = See(s, atoms, pairs)
      BY <2>2 DEF TakeLong, Awaiting, Unsure
    <3> HIDE DEF atoms, pairs
    <3>2. Sees(arg, values, known, dashes, awaited, past, atoms, pairs, FALSE, None)
      BY <1>2, <2>1, <3>1, SeeSaw DEF Sees
    <3> QED BY <3>2
  <2>3. CASE Equals(arg) = 0 /\ arg \in values
    <3>1. \A s : TakeLong(s, arg, values, known) = Awaiting(s, {arg}, {}, arg)
      BY <2>3 DEF TakeLong, Awaiting, Unsure
    <3>2. Sees(arg, values, known, dashes, awaited, past, {arg}, {}, FALSE, arg)
      <4> SUFFICES ASSUME NEW s, IsState(s), s.awaited = awaited, s.past = past
                   PROVE  Saw(s, Take(s, arg, values, known, dashes), {arg}, {}, FALSE, arg)
        BY DEF Sees
      <4> QED BY <2>1, <3>1, SeeSaw
    <3> QED BY <3>2
  <2>4. CASE Equals(arg) = 0 /\ arg \notin values
    <3> DEFINE unknown == arg \notin known
    <3>1. \A s : TakeLong(s, arg, values, known) = Unsure(s, {arg}, {}, unknown)
      BY <2>4 DEF TakeLong, Awaiting, Unsure
    <3> HIDE DEF unknown
    <3>2. Sees(arg, values, known, dashes, awaited, past, {arg}, {}, unknown, None)
      <4> SUFFICES ASSUME NEW s, IsState(s), s.awaited = awaited, s.past = past
                   PROVE  Saw(s, Take(s, arg, values, known, dashes), {arg}, {}, unknown, None)
        BY DEF Sees
      <4> QED BY <1>2, <2>1, <3>1, SeeSaw
    <3> QED BY <3>2
  <2> QED BY <2>2, <2>3, <2>4
<1>3. CASE awaited = None /\ ~past /\ IsFlag(arg) /\ arg # Dashes /\ ~IsLong(arg)
  <2>1. \A s : s.awaited = awaited /\ s.past = past =>
            Take(s, arg, values, known, dashes) = TakeShort(s, arg, values, known)
    BY <1>3 DEF Take
  <2> DEFINE at == SelectInSeq(Tail(arg), LAMBDA letter : <<"-", letter>> \in values) + 1
             atom == <<"-", arg[at]>>
             rest == SubSeq(arg, at + 1, Len(arg))
             value == Attached(IF rest # <<>> /\ Head(rest) = "=" THEN Tail(rest) ELSE rest)
             strange == ~(Letters(arg) \subseteq known)
             cut == Letters(SubSeq(arg, 1, at))
             letters == Letters(arg)
             pairs == {<<atom, value>>}
  <2>2. \A s : TakeShort(s, arg, values, known) =
            CASE arg \in values -> Awaiting(s, {arg}, {}, arg)
              [] arg \notin values /\ at = 1 -> Unsure(s, letters, {}, strange)
              [] arg \notin values /\ at > 1 /\ rest # <<>> -> See(s, cut, pairs)
              [] OTHER -> Awaiting(s, letters, {}, atom)
    BY DEF TakeShort, Awaiting, Unsure
  <2> HIDE DEF at, atom, rest, value, strange, cut, letters, pairs
  <2>3. CASE arg \in values
    <3>1. \A s : TakeShort(s, arg, values, known) = Awaiting(s, {arg}, {}, arg)
      BY <2>2, <2>3
    <3>2. Sees(arg, values, known, dashes, awaited, past, {arg}, {}, FALSE, arg)
      <4> SUFFICES ASSUME NEW s, IsState(s), s.awaited = awaited, s.past = past
                   PROVE  Saw(s, Take(s, arg, values, known, dashes), {arg}, {}, FALSE, arg)
        BY DEF Sees
      <4> QED BY <2>1, <3>1, SeeSaw
    <3> QED BY <3>2
  <2>4. CASE arg \notin values /\ at = 1
    <3>1. \A s : TakeShort(s, arg, values, known) = Unsure(s, letters, {}, strange)
      BY <2>2, <2>4
    <3>2. Sees(arg, values, known, dashes, awaited, past, letters, {}, strange, None)
      <4> SUFFICES ASSUME NEW s, IsState(s), s.awaited = awaited, s.past = past
                   PROVE  Saw(s, Take(s, arg, values, known, dashes), letters, {}, strange, None)
        BY DEF Sees
      <4> QED BY <1>3, <2>1, <3>1, SeeSaw
    <3> QED BY <3>2
  <2>5. CASE arg \notin values /\ at # 1 /\ at > 1 /\ rest # <<>>
    <3>1. \A s : TakeShort(s, arg, values, known) = See(s, cut, pairs)
      BY <2>2, <2>5
    <3>2. Sees(arg, values, known, dashes, awaited, past, cut, pairs, FALSE, None)
      BY <1>3, <2>1, <3>1, SeeSaw DEF Sees
    <3> QED BY <3>2
  <2>6. CASE arg \notin values /\ at # 1 /\ ~(at > 1 /\ rest # <<>>)
    <3>1. \A s : TakeShort(s, arg, values, known) = Awaiting(s, letters, {}, atom)
      BY <2>2, <2>6
    <3>2. Sees(arg, values, known, dashes, awaited, past, letters, {}, FALSE, atom)
      <4> SUFFICES ASSUME NEW s, IsState(s), s.awaited = awaited, s.past = past
                   PROVE  Saw(s, Take(s, arg, values, known, dashes), letters, {}, FALSE, atom)
        BY DEF Sees
      <4> QED BY <2>1, <3>1, SeeSaw
    <3> QED BY <3>2
  <2> QED BY <2>3, <2>4, <2>5, <2>6
<1> QED BY <1>1, <1>2, <1>3

\* One operand more.
Extended(u, operands, e) ==
    /\ Len(operands) \in Nat
    /\ Len(u) = Len(operands) + 1 /\ u[Len(u)] = e
    /\ \A j \in 1..Len(operands) : u[j] = operands[j]
LEMMA AppendExtends ==
  ASSUME NEW S, NEW operands \in Seq(S), NEW e \in S, NEW u, u = Append(operands, e)
  PROVE  Extended(u, operands, e)
<1>1. /\ Len(Append(operands, e)) = Len(operands) + 1 /\ Append(operands, e)[Len(operands) + 1] = e
      /\ \A j \in 1..Len(operands) : Append(operands, e)[j] = operands[j]
      /\ Len(operands) \in Nat
  BY AppendProperties
<1> QED BY <1>1 DEF Extended

\* An operand that is read by both.
LEMMA BothAppend ==
  ASSUME NEW q, NEW r, NEW k, Paired(q, r, k), NEW e,
         NEW u, Extended(u, q, e), NEW v, Extended(v, r, e)
  PROVE  Paired(u, v, k) /\ Past(k, Len(u)) = Len(v)
<1>1. PICK m \in Nat : m = Len(q)
  BY DEF Extended
<1>2. /\ Len(u) = m + 1 /\ Len(r) = m + 1 /\ Len(v) = m + 2 /\ k \in 2..(m + 1)
  BY <1>1 DEF Extended, Paired
<1>3. /\ u[m + 1] = e /\ v[m + 2] = e /\ \A j \in 1..m : u[j] = q[j]
      /\ \A j \in 1..(m + 1) : v[j] = r[j]
      /\ \A j \in 1..m : r[Past(k, j)] = q[j]
  BY <1>1, <1>2 DEF Extended, Paired
<1>4. Past(k, m + 1) = m + 2 /\ \A j \in 1..m : Past(k, j) \in 1..(m + 1)
  BY <1>2 DEF Past
<1>5. \A j \in 1..(m + 1) : j = m + 1 \/ j \in 1..m
  OBVIOUS
<1>6. \A j \in 1..(m + 1) : v[Past(k, j)] = u[j]
  BY <1>3, <1>4, <1>5
<1>7. k \in 2..(m + 2) /\ Len(v) = Len(u) + 1
  BY <1>2
<1> QED BY <1>2, <1>4, <1>6, <1>7 DEF Paired

\* One argument more: both stay side by side.
LEMMA BothTake ==
  ASSUME NEW S, NEW s, NEW t, OperandsOK(s, S), OperandsOK(t, S), Dashes \in S,
         NEW k, NEW more, Alongside(s, t, k, more), NEW arg \in S,
         NEW values, NEW known, NEW dashes,
         NEW u, u = Take(s, arg, values, known, dashes),
         NEW v, v = Take(t, arg, values, known, dashes)
  PROVE  Alongside(u, v, k, more)
<1>1. /\ IsState(s) /\ IsState(t) /\ s.operands \in Seq(S) /\ t.operands \in Seq(S)
      /\ s.optional \subseteq 2..Len(s.operands)
  BY DEF OperandsOK
<1>2. t.past = s.past /\ t.unknown = s.unknown /\ t.awaited = s.awaited
  BY DEF Alongside
<1>6. Paired(s.operands, t.operands, k)
  BY DEF Alongside
<1>3. CASE s.awaited # None \/ (~s.past /\ IsFlag(arg) /\ arg # Dashes)
  <2>1. PICK atoms, pairs, unknown, next :
            Sees(arg, values, known, dashes, s.awaited, s.past, atoms, pairs, unknown, next)
    BY <1>3, TakeSees
  <2>2. Saw(s, u, atoms, pairs, unknown, next) /\ Saw(t, v, atoms, pairs, unknown, next)
    BY <1>1, <1>2, <2>1 DEF Sees
  <2> QED BY <2>2 DEF Saw, Alongside
<1>4. CASE s.awaited = None /\ ~s.past /\ arg = Dashes
  <2>1. u = TakeDashes(s, dashes) /\ v = TakeDashes(t, dashes)
    BY <1>2, <1>4 DEF Take, IsFlag
  <2>2. /\ u.optional = s.optional /\ u.atoms = s.atoms /\ u.values = s.values
        /\ u.past = TRUE /\ u.unknown = FALSE /\ u.awaited = s.awaited
        /\ u.operands = IF dashes THEN Append(s.operands, Dashes) ELSE s.operands
    BY <1>1, <2>1 DEF TakeDashes, IsState
  <2>3. /\ v.optional = t.optional /\ v.atoms = t.atoms /\ v.values = t.values
        /\ v.past = TRUE /\ v.unknown = FALSE /\ v.awaited = t.awaited
        /\ v.operands = IF dashes THEN Append(t.operands, Dashes) ELSE t.operands
    BY <1>1, <2>1 DEF TakeDashes, IsState
  <2>4. Paired(u.operands, v.operands, k)
    <3>1. CASE dashes
      <4>1. u.operands = Append(s.operands, Dashes) /\ v.operands = Append(t.operands, Dashes)
        BY <2>2, <2>3, <3>1
      <4>2. Extended(u.operands, s.operands, Dashes) /\ Extended(v.operands, t.operands, Dashes)
        BY <1>1, <4>1, AppendExtends
      <4> QED BY <1>6, <4>2, BothAppend
    <3>2. CASE ~dashes
      BY <1>6, <2>2, <2>3, <3>2
    <3> QED BY <3>1, <3>2
  <2> QED BY <1>2, <2>2, <2>3, <2>4 DEF Alongside
<1>5. CASE s.awaited = None /\ (s.past \/ ~IsFlag(arg)) /\ ~(~s.past /\ arg = Dashes)
  <2>1. u = TakeOperand(s, arg) /\ v = TakeOperand(t, arg)
    BY <1>2, <1>5 DEF Take
  <2>2. /\ u.operands = Append(s.operands, arg) /\ u.atoms = s.atoms /\ u.values = s.values
        /\ u.past = s.past /\ u.unknown = FALSE /\ u.awaited = s.awaited
        /\ u.optional = s.optional \cup (IF s.unknown THEN {Len(u.operands)} ELSE {})
    BY <1>1, <2>1 DEF TakeOperand, IsState
  <2>3. /\ v.operands = Append(t.operands, arg) /\ v.atoms = t.atoms /\ v.values = t.values
        /\ v.past = t.past /\ v.unknown = FALSE /\ v.awaited = t.awaited
        /\ v.optional = t.optional \cup (IF t.unknown THEN {Len(v.operands)} ELSE {})
    BY <1>1, <2>1 DEF TakeOperand, IsState
  <2>7. Extended(u.operands, s.operands, arg) /\ Extended(v.operands, t.operands, arg)
    BY <1>1, <2>2, <2>3, AppendExtends
  <2>4. Paired(u.operands, v.operands, k) /\ Past(k, Len(u.operands)) = Len(v.operands)
    BY <1>6, <2>7, BothAppend
  <2>5. k \in v.optional /\ \A j \in u.optional : Past(k, j) \in v.optional
    <3>1. k \in t.optional /\ \A j \in s.optional : Past(k, j) \in t.optional
      BY DEF Alongside
    <3>2. CASE s.unknown
      BY <1>2, <2>2, <2>3, <2>4, <3>1, <3>2
    <3>3. CASE ~s.unknown
      BY <1>2, <2>2, <2>3, <2>4, <3>1, <3>3
    <3> QED BY <3>2, <3>3
  <2>6. /\ v.atoms = u.atoms \cup more /\ v.values = u.values
        /\ v.past = u.past /\ v.unknown = u.unknown /\ v.awaited = u.awaited
    BY <1>2, <2>2, <2>3 DEF Alongside
  <2> QED BY <2>4, <2>5, <2>6 DEF Alongside
<1> QED BY <1>3, <1>4, <1>5

-----------------------------------------------------------------------------
(* A walk of the operands of the one is a walk of those of the other. *)

\* Past leaves k out and the rest in order.
Skips(k, m) ==
    /\ \A j \in 0..m : Past(k, j) \in 0..(m + 1) /\ Past(k, j) # k /\ (Past(k, j) = 0 <=> j = 0)
                       /\ (Past(k, j) = 1 <=> j = 1)
    /\ \A i, j \in 0..m : (i < j <=> Past(k, i) < Past(k, j)) /\ (Past(k, i) = Past(k, j) <=> i = j)
    /\ \A x \in 1..(m + 1) : x # k => \E j \in 1..m : x = Past(k, j)
LEMMA PastSkips ==
  ASSUME NEW m \in Nat, NEW k \in 2..(m + 1)
  PROVE  Skips(k, m)
<1>1. \A j \in 0..m : Past(k, j) \in 0..(m + 1) /\ Past(k, j) # k /\ (Past(k, j) = 0 <=> j = 0)
                       /\ (Past(k, j) = 1 <=> j = 1)
  BY DEF Past
<1>2. \A i, j \in 0..m : (i < j <=> Past(k, i) < Past(k, j)) /\ (Past(k, i) = Past(k, j) <=> i = j)
  BY DEF Past
<1>3. ASSUME NEW x \in 1..(m + 1), x # k PROVE \E j \in 1..m : x = Past(k, j)
  <2>1. CASE x < k
    <3>1. x \in 1..m /\ x = Past(k, x)
      BY <2>1 DEF Past
    <3> QED BY <3>1
  <2>2. CASE x > k
    <3>1. x - 1 \in 1..m /\ x = Past(k, x - 1)
      BY <2>2 DEF Past
    <3> QED BY <3>1
  <2> QED BY <1>3, <2>1, <2>2
<1> QED BY <1>1, <1>2, <1>3 DEF Skips

\* The operands that are gone, and the one at k with them.
GoneToo(gone, k) == {Past(k, j) : j \in gone} \cup {k}
TermEnd(path, i, k, b, m) == IF path[i].kind = "exec" THEN m + 1 ELSE Past(k, b)
LEMMA TakesPast ==
  ASSUME NEW path, NEW q, NEW r, NEW m \in Nat, m = Len(q), NEW k, Paired(q, r, k),
         NEW gone, gone \subseteq 2..m, NEW i, NEW a \in 0..m, NEW b \in 0..m,
         Takes(path, q, gone, i, a, b)
  PROVE  Takes(path, r, GoneToo(gone, k), i, Past(k, a), TermEnd(path, i, k, b, m))
<1>1. Len(r) = m + 1 /\ k \in 2..(m + 1) /\ \A j \in 1..m : r[Past(k, j)] = q[j]
  BY DEF Paired
<1>2. Skips(k, m)
  BY <1>1, PastSkips
<1>3. /\ \A j \in 0..m : j \notin gone => Past(k, j) \notin GoneToo(gone, k)
      /\ \A j \in gone : Past(k, j) \in GoneToo(gone, k)
      /\ k \in GoneToo(gone, k)
  <2>1. ASSUME NEW j \in 0..m, j \notin gone, Past(k, j) \in GoneToo(gone, k) PROVE FALSE
    <3>1. Past(k, j) # k
      BY <1>2 DEF Skips
    <3>2. PICK l \in gone : Past(k, j) = Past(k, l)
      BY <2>1, <3>1 DEF GoneToo
    <3>3. l \in 0..m
      OBVIOUS
    <3>4. j = l
      BY <1>2, <3>2, <3>3 DEF Skips
    <3> QED BY <2>1, <3>4
  <2>2. (\A j \in gone : Past(k, j) \in GoneToo(gone, k)) /\ k \in GoneToo(gone, k)
    BY DEF GoneToo
  <2> QED BY <2>1, <2>2
<1>4. a <= b
  BY DEF Takes
<1>5. Past(k, a) \in 0..(m + 1) /\ Past(k, b) \in 0..(m + 1) /\ Past(k, a) <= Past(k, b)
  BY <1>2, <1>4 DEF Skips
<1>6. CASE path[i].kind = "gap"
  BY <1>5, <1>6 DEF Takes, TermEnd
<1>7. CASE path[i].kind = "exec"
  <2>1. PICK x \in (a + 1)..b : x \notin gone
    BY <1>7 DEF Takes
  <2>2. Past(k, x) \in (Past(k, a) + 1)..(m + 1) /\ Past(k, x) \notin GoneToo(gone, k)
    <3>1. x \in 0..m /\ a < x
      BY <2>1
    <3> QED BY <1>2, <1>3, <1>5, <2>1, <3>1 DEF Skips
  <2>3. TermEnd(path, i, k, b, m) = m + 1
    BY <1>7 DEF TermEnd
  <2> QED BY <1>1, <1>5, <1>7, <2>2, <2>3 DEF Takes
<1>8. CASE path[i].kind \notin {"gap", "exec"}
  <2>1. a < b /\ b \notin gone /\ (\A x \in (a + 1)..(b - 1) : x \in gone) /\ Hit(path[i], q, b)
    BY <1>8 DEF Takes
  <2>2. Past(k, a) < Past(k, b) /\ Past(k, b) \notin GoneToo(gone, k)
    BY <1>2, <1>3, <2>1 DEF Skips
  <2>3. ASSUME NEW x \in (Past(k, a) + 1)..(Past(k, b) - 1) PROVE x \in GoneToo(gone, k)
    <3>1. x \in 1..(m + 1)
      BY <1>5
    <3>2. CASE x # k
      <4>1. PICK j \in 1..m : x = Past(k, j)
        BY <1>2, <3>1, <3>2 DEF Skips
      <4>2. a < j /\ j < b
        BY <1>2, <1>5, <4>1 DEF Skips
      <4> QED BY <1>3, <2>1, <4>1, <4>2
    <3> QED BY <1>3, <3>2
  <2>4. Hit(path[i], r, Past(k, b))
    <3>1. b \in 1..m
      BY <2>1
    <3>2. r[Past(k, b)] = q[b] /\ (Past(k, b) = 1 <=> b = 1)
      BY <1>1, <1>2, <3>1 DEF Skips
    <3> QED BY <2>1, <3>2 DEF Hit
  <2>5. TermEnd(path, i, k, b, m) = Past(k, b)
    BY <1>8 DEF TermEnd
  <2> QED BY <1>5, <1>8, <2>2, <2>3, <2>4, <2>5 DEF Takes
<1> QED BY <1>6, <1>7, <1>8

LEMMA WalkedPast ==
  ASSUME NEW path, Len(path) \in Nat, ExecLast(path),
         NEW q, Len(q) \in Nat, NEW r, NEW k, Paired(q, r, k),
         NEW gone, gone \subseteq 2..Len(q), NEW exact, NEW end, Walked(path, q, gone, exact, end)
  PROVE  \E last : Walked(path, r, GoneToo(gone, k), exact, last)
<1>1. PICK n \in Nat, m \in Nat : n = Len(path) /\ m = Len(q)
  OBVIOUS
<1>2. /\ end \in [0..n -> 0..m] /\ end[0] = 0
      /\ \A i \in 1..n : Takes(path, q, gone, i, end[i - 1], end[i])
      /\ exact => \A x \in (end[n] + 1)..m : x \in gone
  BY <1>1 DEF Walked
<1>3. Len(r) = m + 1 /\ k \in 2..(m + 1)
  BY <1>1 DEF Paired
<1>4. Skips(k, m)
  BY <1>3, PastSkips
<1> DEFINE last == [i \in 0..n |-> IF i = 0 THEN 0 ELSE TermEnd(path, i, k, end[i], m)]
<1>5. last \in [0..n -> 0..(m + 1)]
  <2>1. \A i \in 0..n : Past(k, end[i]) \in 0..(m + 1) /\ m + 1 \in 0..(m + 1)
    BY <1>2, <1>4 DEF Skips
  <2>2. \A i \in 0..n : (IF i = 0 THEN 0 ELSE TermEnd(path, i, k, end[i], m)) \in 0..(m + 1)
    BY <2>1 DEF TermEnd
  <2> QED BY <2>2
<1>6. \A i \in 0..n : path[i].kind # "exec" \/ i = 0 => last[i] = Past(k, end[i])
  <2>1. Past(k, 0) = 0
    BY <1>3 DEF Past
  <2> QED BY <1>2, <2>1 DEF TermEnd
<1>7. \A i \in 1..n : last[i] = TermEnd(path, i, k, end[i], m)
  OBVIOUS
<1> HIDE DEF last
<1>8. ASSUME NEW i \in 1..n PROVE Takes(path, r, GoneToo(gone, k), i, last[i - 1], last[i])
  <2>1. i - 1 \in 0..n /\ i - 1 # n /\ (i - 1 = 0 \/ i - 1 \in 1..n)
    OBVIOUS
  <2>2. i - 1 = 0 \/ path[i - 1].kind # "exec"
    BY <1>1, <2>1 DEF ExecLast
  <2>3. last[i - 1] = Past(k, end[i - 1])
    BY <1>6, <2>1, <2>2
  <2>4. end[i - 1] \in 0..m /\ end[i] \in 0..m /\ gone \subseteq 2..m
    <3>1. i - 1 \in 0..n /\ i \in 0..n /\ end \in [0..n -> 0..m]
      BY <1>2, <2>1
    <3>2. end[i - 1] \in 0..m /\ end[i] \in 0..m
      BY <3>1
    <3>3. gone \subseteq 2..m
      BY <1>1
    <3> QED BY <3>2, <3>3
  <2>5. Takes(path, q, gone, i, end[i - 1], end[i])
    BY <1>2
  <2>6. Takes(path, r, GoneToo(gone, k), i, Past(k, end[i - 1]), TermEnd(path, i, k, end[i], m))
    BY <1>1, <2>4, <2>5, TakesPast
  <2> QED BY <1>7, <2>3, <2>6
<1>9. ASSUME exact, NEW x \in (last[n] + 1)..(m + 1) PROVE x \in GoneToo(gone, k)
  <2>0. last[n] \in 0..(m + 1) /\ x \in 1..(m + 1) /\ end[n] \in 0..m
    BY <1>2, <1>5
  <2>1. n = 0 \/ path[n].kind # "exec"
    <3>1. n \in 1..n /\ path[n].kind = "exec" => last[n] = m + 1
      BY <1>7 DEF TermEnd
    <3> QED BY <1>9, <2>0, <3>1
  <2>2. last[n] = Past(k, end[n])
    BY <1>6, <2>1
  <2>3. CASE x # k
    <3>1. PICK j \in 1..m : x = Past(k, j)
      BY <1>4, <2>0, <2>3 DEF Skips
    <3>2. end[n] < j
      BY <1>4, <2>0, <2>2, <3>1 DEF Skips
    <3>3. j \in gone
      BY <1>2, <1>9, <2>0, <3>2
    <3> QED BY <3>1, <3>3 DEF GoneToo
  <2> QED BY <2>3 DEF GoneToo
<1>10. last[0] = 0
  BY DEF last
<1>11. Walked(path, r, GoneToo(gone, k), exact, last)
  BY <1>1, <1>3, <1>5, <1>8, <1>9, <1>10 DEF Walked
<1> QED BY <1>11

\* The longer command matches the path of a denying rule when the shorter one does.
LEMMA PathPast ==
  ASSUME NEW p, Len(p.path) \in Nat, ExecLast(p.path), p.exact \in BOOLEAN,
         NEW S, NEW s, NEW t, OperandsOK(s, S), OperandsOK(t, S),
         NEW k, NEW more, Alongside(s, t, k, more), PathMatches(p, s, TRUE)
  PROVE  PathMatches(p, t, TRUE)
<1>1. /\ Len(s.operands) \in Nat /\ s.optional \subseteq 2..Len(s.operands)
      /\ Len(t.operands) \in Nat /\ t.optional \subseteq 2..Len(t.operands)
  BY DEF OperandsOK
<1>2. /\ CountsWalked(p.path, s.operands, s.optional, p.exact)
      /\ CountsWalked(p.path, t.operands, t.optional, p.exact)
  BY <1>1, CountedWalked
<1>3. \A u : PathMatches(p, u, TRUE) <=>
            Counted(MatchPath(p.path, u.operands, u.optional), u.operands, p.exact)
  BY DEF PathMatches, Counted
<1>4. PICK gone \in SUBSET s.optional : \E end : Walked(p.path, s.operands, gone, p.exact, end)
  BY <1>2, <1>3 DEF CountsWalked
<1>5. \E last : Walked(p.path, t.operands, GoneToo(gone, k), p.exact, last)
  <2>1. Paired(s.operands, t.operands, k) /\ gone \subseteq 2..Len(s.operands)
    BY <1>1 DEF Alongside
  <2> QED BY <1>1, <1>4, <2>1, WalkedPast
<1>6. GoneToo(gone, k) \in SUBSET t.optional
  <2>1. k \in t.optional /\ \A j \in gone : Past(k, j) \in t.optional
    BY DEF Alongside
  <2> QED BY <2>1 DEF GoneToo
<1> QED BY <1>2, <1>3, <1>5, <1>6 DEF CountsWalked


-----------------------------------------------------------------------------
(* Single arguments. *)

LEMMA TakeStranger ==
  ASSUME NEW option \in Seq(STRING), IsFlag(option), option # Dashes, Equals(option) = 0,
         NEW values, NEW known, NEW dashes,
         ({option} \cup Letters(option)) \cap (known \cup values) = {},
         NEW s, IsState(s), s.awaited = None, s.past = FALSE
  PROVE  \E atoms : /\ atoms \subseteq {option} \cup Letters(option)
                    /\ Saw(s, Take(s, option, values, known, dashes), atoms, {}, TRUE, None)
<1>1. option \notin values /\ option \notin known
  OBVIOUS
<1>2. CASE IsLong(option)
  <2>1. Take(s, option, values, known, dashes) = TakeLong(s, option, values, known)
    BY <1>2 DEF Take
  <2>2. TakeLong(s, option, values, known) = Unsure(s, {option}, {}, option \notin known)
    BY <1>1 DEF TakeLong, Unsure
  <2>3. (option \notin known) = TRUE
    BY <1>1
  <2>4. TakeLong(s, option, values, known) = Unsure(s, {option}, {}, TRUE)
    BY <2>2, <2>3, Zenon
  <2>5. Saw(s, Unsure(s, {option}, {}, TRUE), {option}, {}, TRUE, None)
    BY SeeSaw
  <2> QED BY <2>1, <2>4, <2>5
<1>3. CASE ~IsLong(option)
  <2>1. Take(s, option, values, known, dashes) = TakeShort(s, option, values, known)
    BY <1>3 DEF Take
  <2> DEFINE letters == Letters(option)
             at == SelectInSeq(Tail(option), LAMBDA letter : <<"-", letter>> \in values) + 1
             strange == ~(letters \subseteq known)
  <2>2. option # <<>> /\ Len(option) > 1
    BY DEF IsFlag, Dashes
  <2>3. /\ Tail(option) \in Seq(STRING) /\ Len(Tail(option)) = Len(option) - 1
        /\ Len(option) \in Nat
    BY <2>2, HeadTailProperties
  <2>4. \A i \in 1..Len(Tail(option)) : <<"-", Tail(option)[i]>> \in letters
    <3>1. \A i \in 1..Len(Tail(option)) : Tail(option)[i] \in ToSet(Tail(option))
      <4>1. \A tail : tail \in Seq(STRING) => \A i \in 1..Len(tail) : tail[i] \in ToSet(tail)
        BY DEF ToSet
      <4> QED BY <2>3, <4>1
    <3>2. \A letter \in ToSet(Tail(option)) : <<"-", letter>> \in letters
      BY DEF Letters
    <3> QED BY <3>1, <3>2
  <2>5. letters \cap (known \cup values) = {}
    OBVIOUS
  <2>6. at = 1
    <3>1. \A i \in 1..Len(Tail(option)) : <<"-", Tail(option)[i]>> \notin values
      <4> HIDE DEF letters
      <4> QED BY <2>4, <2>5
    <3> DEFINE found == {i \in 1..Len(Tail(option)) : <<"-", Tail(option)[i]>> \in values}
    <3>2. found = {}
      BY <3>1
    <3>3. at = (IF found # {} THEN Min(found) ELSE 0) + 1
      BY DEF SelectInSeq
    <3> HIDE DEF found
    <3> QED BY <3>2, <3>3
  <2>7. strange = TRUE
    <3>1. 1 \in 1..Len(Tail(option))
      BY <2>2, <2>3
    <3>2. <<"-", Tail(option)[1]>> \in letters
      BY <2>4, <3>1
    <3> HIDE DEF letters
    <3>3. ~(letters \subseteq known)
      BY <2>5, <3>2
    <3> QED BY <3>3
  <2>8. TakeShort(s, option, values, known) = Unsure(s, letters, {}, strange)
    <3> DEFINE atom == <<"-", option[at]>>
               rest == SubSeq(option, at + 1, Len(option))
               value == Attached(IF rest # <<>> /\ Head(rest) = "=" THEN Tail(rest) ELSE rest)
               cut == Letters(SubSeq(option, 1, at))
               pairs == {<<atom, value>>}
    <3>1. TakeShort(s, option, values, known) =
            CASE option \in values -> Awaiting(s, {option}, {}, option)
              [] option \notin values /\ at = 1 -> Unsure(s, letters, {}, strange)
              [] option \notin values /\ at > 1 /\ rest # <<>> -> See(s, cut, pairs)
              [] OTHER -> Awaiting(s, letters, {}, atom)
      BY DEF TakeShort, Awaiting, Unsure
    <3> HIDE DEF at, atom, rest, value, cut, pairs, strange, letters
    <3> QED BY <1>1, <2>6, <3>1
  <2> HIDE DEF letters, strange
  <2>9. Saw(s, Unsure(s, letters, {}, TRUE), letters, {}, TRUE, None)
    BY SeeSaw
  <2> QED BY <2>1, <2>7, <2>8, <2>9 DEF letters
<1> QED BY <1>2, <1>3

LEMMA TakeWord ==
  ASSUME NEW s, IsState(s), s.past = FALSE, NEW arg, ~IsFlag(arg),
         NEW values, NEW known, NEW dashes, NEW t, t = Take(s, arg, values, known, dashes)
  PROVE  t.awaited = None /\ t.unknown = FALSE /\ t.past = FALSE
<1>1. arg # Dashes
  BY DEF IsFlag
<1>2. CASE s.awaited # None
  <2>1. PICK atoms, pairs : t = Awaiting(s, atoms, pairs, None)
    BY <1>2 DEF Take, TakeValue, Awaiting
  <2>2. Saw(s, t, atoms, pairs, FALSE, None)
    BY <2>1, SeeSaw
  <2> QED BY <2>2 DEF Saw
<1>3. CASE s.awaited = None
  <2>1. t = TakeOperand(s, arg)
    BY <1>1, <1>3 DEF Take
  <2> QED BY <1>3, <2>1 DEF TakeOperand, IsState
<1> QED BY <1>2, <1>3

LEMMA TakePast ==
  ASSUME NEW s, IsState(s), s.past = FALSE, NEW arg, arg # Dashes,
         NEW values, NEW known, NEW dashes, NEW t, t = Take(s, arg, values, known, dashes)
  PROVE  t.past = FALSE
<1>1. CASE IsFlag(arg)
  <2>1. PICK atoms, pairs, unknown, next :
            Sees(arg, values, known, dashes, s.awaited, FALSE, atoms, pairs, unknown, next)
    BY <1>1, TakeSees
  <2>2. Saw(s, t, atoms, pairs, unknown, next)
    BY <2>1 DEF Sees
  <2> QED BY <2>2 DEF Saw
<1>2. CASE ~IsFlag(arg)
  BY <1>2, TakeWord
<1> QED BY <1>1, <1>2

\* An option nobody knows and the word after it.
Beside(s, t, option) ==
    \E k, more : more \subseteq {option} \cup Letters(option) /\ Alongside(s, t, k, more)
LEMMA BothBegin ==
  ASSUME NEW S, NEW s, OperandsOK(s, S), s.awaited = None, s.past = FALSE, s.unknown = FALSE,
         NEW option \in Seq(STRING), IsFlag(option), option # Dashes, Equals(option) = 0,
         NEW values, NEW known, NEW dashes,
         ({option} \cup Letters(option)) \cap (known \cup values) = {},
         NEW word \in S, ~IsFlag(word),
         NEW u, u = Take(s, option, values, known, dashes), IsState(u),
         NEW t, t = Take(u, word, values, known, dashes)
  PROVE  Beside(s, t, option)
<1>1. IsState(s) /\ s.operands \in Seq(S) /\ Len(s.operands) \in Nat /\ Len(s.operands) >= 1
      /\ s.optional \subseteq 2..Len(s.operands)
  BY DEF OperandsOK
<1>2. PICK more : /\ more \subseteq {option} \cup Letters(option)
                  /\ Saw(s, u, more, {}, TRUE, None)
  BY <1>1, TakeStranger
<1>3. /\ u.operands = s.operands /\ u.optional = s.optional /\ u.atoms = s.atoms \cup more
      /\ u.values = s.values /\ u.past = FALSE /\ u.unknown = TRUE /\ u.awaited = None
  BY <1>2 DEF Saw
<1>4. t = TakeOperand(u, word)
  BY <1>3 DEF Take, IsFlag
<1>5. PICK q : q = Append(s.operands, word)
  OBVIOUS
<1>6. /\ t.operands = q /\ t.optional = s.optional \cup {Len(q)} /\ t.atoms = s.atoms \cup more
      /\ t.values = s.values /\ t.past = FALSE /\ t.unknown = FALSE /\ t.awaited = None
  BY <1>3, <1>4, <1>5 DEF TakeOperand, IsState
<1>7. Extended(q, s.operands, word)
  BY <1>1, <1>5, AppendExtends
<1>8. PICK m \in Nat : m = Len(s.operands)
  BY <1>1
<1>9. m >= 1 /\ Len(q) = m + 1 /\ (\A j \in 1..m : q[j] = s.operands[j]) /\ \A j \in 1..m : Past(m + 1, j) = j
  BY <1>1, <1>7, <1>8 DEF Extended, Past
<1>10. Paired(s.operands, q, m + 1)
  BY <1>8, <1>9 DEF Paired
<1>11. \A j \in s.optional : j \in 1..m
  BY <1>1, <1>8
<1>12. m + 1 \in t.optional /\ \A j \in s.optional : Past(m + 1, j) \in t.optional
  BY <1>6, <1>9, <1>11
<1>13. Alongside(s, t, m + 1, more)
  BY <1>6, <1>10, <1>12 DEF Alongside
<1> QED BY <1>2, <1>13 DEF Beside


-----------------------------------------------------------------------------
(* The two commands. *)

Longer(longer, command, at, e) ==
    /\ Len(longer) = Len(command) + 1
    /\ \A i \in 1..(at - 1) : longer[i] = command[i]
    /\ longer[at] = e
    /\ \A i \in at..Len(command) : longer[i + 1] = command[i]
LEMMA Inserted ==
  ASSUME NEW S, NEW command \in Seq(S), NEW at \in 1..(Len(command) + 1), NEW e \in S,
         NEW longer, longer = InsertAt(command, at, e)
  PROVE  longer \in Seq(S) /\ Longer(longer, command, at, e)
<1>1. PICK n \in Nat : n = Len(command) /\ \A i \in 1..n : command[i] \in S
  OBVIOUS
<1>2. PICK left, right : left = SubSeq(command, 1, at - 1) /\ right = SubSeq(command, at, n)
  OBVIOUS
<1>3. /\ left \in Seq(S) /\ Len(left) = at - 1
      /\ \A i \in 1..(at - 1) : left[i] = command[i]
  <2>1. 1 \in Int /\ at - 1 \in Int /\ \A i \in 1..(at - 1) : command[i] \in S
    BY <1>1
  <2>2. /\ SubSeq(command, 1, at - 1) \in Seq(S)
        /\ Len(SubSeq(command, 1, at - 1)) = IF 1 <= at - 1 THEN (at - 1) - 1 + 1 ELSE 0
        /\ \A i \in 1..((at - 1) - 1 + 1) : SubSeq(command, 1, at - 1)[i] = command[1 + i - 1]
    BY <2>1, SubSeqProperties
  <2>3. /\ left \in Seq(S)
        /\ Len(left) = IF 1 <= at - 1 THEN (at - 1) - 1 + 1 ELSE 0
        /\ \A i \in 1..((at - 1) - 1 + 1) : left[i] = command[1 + i - 1]
    BY <1>2, <2>2
  <2> QED BY <1>1, <2>3
<1>4. /\ right \in Seq(S) /\ Len(right) = (n + 1) - at
      /\ \A i \in 1..((n + 1) - at) : right[i] = command[(at + i) - 1]
  <2>1. at \in Int /\ n \in Int /\ \A i \in at..n : command[i] \in S
    BY <1>1
  <2>2. /\ SubSeq(command, at, n) \in Seq(S)
        /\ Len(SubSeq(command, at, n)) = IF at <= n THEN n - at + 1 ELSE 0
        /\ \A i \in 1..(n - at + 1) : SubSeq(command, at, n)[i] = command[at + i - 1]
    BY <2>1, SubSeqProperties
  <2>3. /\ right \in Seq(S)
        /\ Len(right) = IF at <= n THEN n - at + 1 ELSE 0
        /\ \A i \in 1..(n - at + 1) : right[i] = command[at + i - 1]
    BY <1>2, <2>2
  <2> QED BY <1>1, <2>3
<1>5. PICK one : one = <<e>>
  OBVIOUS
<1>6. one \in Seq(S) /\ Len(one) = 1 /\ one[1] = e
  BY <1>5
<1>7. PICK begin : begin = left \o one
  OBVIOUS
<1>8. /\ begin \in Seq(S) /\ Len(begin) = at
      /\ \A i \in 1..at : begin[i] = IF i <= at - 1 THEN left[i] ELSE one[i - (at - 1)]
  <2>1. /\ begin \in Seq(S) /\ Len(begin) = Len(left) + Len(one)
        /\ \A i \in 1..(Len(left) + Len(one)) :
                begin[i] = IF i <= Len(left) THEN left[i] ELSE one[i - Len(left)]
    BY <1>3, <1>6, <1>7, ConcatProperties
  <2>2. Len(left) + Len(one) = at
    BY <1>3, <1>6
  <2> QED BY <1>3, <2>1, <2>2
<1>9. longer = begin \o right
  BY <1>1, <1>2, <1>5, <1>7 DEF InsertAt
<1>10. /\ longer \in Seq(S) /\ Len(longer) = n + 1
       /\ \A i \in 1..(n + 1) : longer[i] = IF i <= at THEN begin[i] ELSE right[i - at]
  <2>1. /\ longer \in Seq(S) /\ Len(longer) = Len(begin) + Len(right)
        /\ \A i \in 1..(Len(begin) + Len(right)) :
                longer[i] = IF i <= Len(begin) THEN begin[i] ELSE right[i - Len(begin)]
    <3>1. \A x \in Seq(S), y \in Seq(S) :
            /\ x \o y \in Seq(S) /\ Len(x \o y) = Len(x) + Len(y)
            /\ \A i \in 1..(Len(x) + Len(y)) : (x \o y)[i] = IF i <= Len(x) THEN x[i] ELSE y[i - Len(x)]
      BY ConcatProperties
    <3>2. PICK both : both = begin \o right
      OBVIOUS
    <3>3. /\ both \in Seq(S) /\ Len(both) = Len(begin) + Len(right)
          /\ \A i \in 1..(Len(begin) + Len(right)) :
                both[i] = IF i <= Len(begin) THEN begin[i] ELSE right[i - Len(begin)]
      BY <1>4, <1>8, <3>1, <3>2
    <3>4. longer = both
      BY <1>9, <3>2
    <3> QED BY <3>3, <3>4
  <2>2. Len(begin) + Len(right) = n + 1
    BY <1>1, <1>4, <1>8
  <2> QED BY <1>8, <2>1, <2>2
<1>11. \A i \in 1..(at - 1) : longer[i] = command[i]
  <2> SUFFICES ASSUME NEW i \in 1..(at - 1) PROVE longer[i] = command[i]
    OBVIOUS
  <2>1. i \in 1..(n + 1) /\ i <= at /\ i \in 1..at /\ i <= at - 1
    BY <1>1
  <2>2. longer[i] = begin[i] /\ begin[i] = left[i] /\ left[i] = command[i]
    BY <1>3, <1>8, <1>10, <2>1
  <2> QED BY <2>2
<1>12. longer[at] = e
  <2>1. at \in 1..(n + 1) /\ at \in 1..at /\ at <= at /\ ~(at <= at - 1) /\ at - (at - 1) = 1
    BY <1>1
  <2>2. longer[at] = begin[at]
    BY <1>10, <2>1
  <2>3. begin[at] = one[1]
    BY <1>8, <2>1
  <2> QED BY <1>6, <2>2, <2>3
<1>13. \A i \in at..n : longer[i + 1] = command[i]
  <2> SUFFICES ASSUME NEW i \in at..n PROVE longer[i + 1] = command[i]
    OBVIOUS
  <2>1. /\ i + 1 \in 1..(n + 1) /\ ~(i + 1 <= at) /\ (i + 1) - at \in 1..((n + 1) - at)
        /\ (at + ((i + 1) - at)) - 1 = i
    BY <1>1
  <2>2. longer[i + 1] = right[(i + 1) - at]
    BY <1>10, <2>1
  <2>3. right[(i + 1) - at] = command[i]
    BY <1>4, <2>1
  <2> QED BY <2>2, <2>3
<1> QED BY <1>1, <1>10, <1>11, <1>12, <1>13 DEF Longer

LongerByTwo(longer, command, at, option, word) ==
    /\ Len(longer) = Len(command) + 2
    /\ \A i \in 1..(at - 1) : longer[i] = command[i]
    /\ longer[at] = option /\ longer[at + 1] = word
    /\ \A i \in at..Len(command) : longer[i + 2] = command[i]
LEMMA InsertedTwo ==
  ASSUME NEW S, NEW command \in Seq(S), NEW at \in 2..(Len(command) + 1),
         NEW option \in S, NEW word \in S,
         NEW longer, longer = InsertAt(InsertAt(command, at, word), at, option)
  PROVE  longer \in Seq(S) /\ LongerByTwo(longer, command, at, option, word)
<1>1. PICK c : c = InsertAt(command, at, word)
  OBVIOUS
<1>2. PICK n \in Nat : n = Len(command)
  OBVIOUS
<1>3. at \in 1..(Len(command) + 1)
  BY <1>2
<1>10. c \in Seq(S) /\ Longer(c, command, at, word)
  BY <1>1, <1>3, Inserted
<1>4. /\ Len(c) = Len(command) + 1
      /\ \A i \in 1..(at - 1) : c[i] = command[i]
      /\ c[at] = word
      /\ \A i \in at..Len(command) : c[i + 1] = command[i]
  BY <1>10 DEF Longer
<1>5. at \in 1..(Len(c) + 1) /\ longer = InsertAt(c, at, option)
  BY <1>1, <1>2, <1>4
<1>11. longer \in Seq(S) /\ Longer(longer, c, at, option)
  BY <1>5, <1>10, Inserted
<1>6. /\ longer \in Seq(S) /\ Len(longer) = Len(c) + 1
      /\ \A i \in 1..(at - 1) : longer[i] = c[i]
      /\ longer[at] = option
      /\ \A i \in at..Len(c) : longer[i + 1] = c[i]
  BY <1>11 DEF Longer
<1>7. longer[at + 1] = word
  <2>1. at \in at..Len(c)
    BY <1>2, <1>4
  <2> QED BY <1>4, <1>6, <2>1
<1>8. ASSUME NEW i \in at..n PROVE longer[i + 2] = command[i]
  <2>1. i + 1 \in at..Len(c) /\ (i + 1) + 1 = i + 2
    BY <1>2, <1>4
  <2>2. longer[(i + 1) + 1] = c[i + 1]
    BY <1>6, <2>1
  <2> QED BY <1>2, <1>4, <2>1, <2>2
<1>9. Len(longer) = Len(command) + 2 /\ \A i \in 1..(at - 1) : longer[i] = command[i]
  BY <1>2, <1>4, <1>6
<1> QED BY <1>2, <1>6, <1>7, <1>8, <1>9, <1>11 DEF LongerByTwo

\* Before the end of the options no argument is "--".
LEMMA BeforeDashes ==
  ASSUME NEW S, NEW command \in Seq(S), NEW at \in 2..OptionsEnd(command)
  PROVE  at \in 2..(Len(command) + 1) /\ \A i \in 1..(at - 1) : command[i] # Dashes
<1>1. PICK n \in Nat : n = Len(command)
  OBVIOUS
<1> DEFINE I == {i \in 1..n : command[i] = Dashes}
<1>2. OptionsEnd(command) = IF (IF I # {} THEN Min(I) ELSE 0) = 0 THEN n + 1 ELSE IF I # {} THEN Min(I) ELSE 0
  BY <1>1 DEF OptionsEnd, SelectInSeq
<1>3. I \subseteq 1..n
  OBVIOUS
<1>4. CASE I = {}
  <2>1. OptionsEnd(command) = n + 1
    <3> HIDE DEF I
    <3> QED BY <1>2, <1>4
  <2>2. \A i \in 1..n : command[i] # Dashes
    BY <1>4
  <2> QED BY <1>1, <2>1, <2>2
<1>5. CASE I # {}
  <2>1. PICK low \in I : \A x \in I : low <= x
    <3>1. I \in SUBSET Nat
      OBVIOUS
    <3> HIDE DEF I
    <3> QED BY <1>5, <3>1, Least
  <2>2. Min(I) = low
    <3> HIDE DEF I
    <3>1. \A x : x \in I /\ (\A y \in I : x <= y) => x = low
      BY <1>3, <2>1
    <3> QED BY <2>1, <3>1 DEF Min
  <2>3. OptionsEnd(command) = low /\ low \in 1..n
    <3> HIDE DEF I
    <3> QED BY <1>2, <1>3, <1>5, <2>1, <2>2
  <2>4. ASSUME NEW i \in 1..(at - 1), command[i] = Dashes PROVE FALSE
    <3>1. i \in I /\ i < low
      BY <2>3, <2>4
    <3> HIDE DEF I
    <3> QED BY <2>1, <2>3, <3>1
  <2> QED BY <1>1, <2>3, <2>4
<1> QED BY <1>4, <1>5


-----------------------------------------------------------------------------
(* The two readings. *)

\* What the last lemma needs of an option and of the word after it.
Unknown(option, values, known) ==
    /\ option \in Seq(STRING) /\ IsFlag(option) /\ option # Dashes /\ Equals(option) = 0
    /\ ({option} \cup Letters(option)) \cap (known \cup values) = {}
LEMMA ReadAlong ==
  ASSUME NEW S, Dashes \in S, NEW command \in Seq(S), NEW at \in 2..OptionsEnd(command),
         ~IsFlag(command[at - 1]),
         NEW option \in S, NEW word \in S, ~IsFlag(word),
         NEW values, NEW known, NEW dashes, Unknown(option, values, known),
         NEW longer, longer = InsertAt(InsertAt(command, at, word), at, option),
         command # <<>>
  PROVE  Beside(Split(command, values, known, dashes), Split(longer, values, known, dashes), option)
<1>1. PICK n, h : n = Len(command) - 1 /\ h = at - 2
  OBVIOUS
<1>2. at \in 2..(Len(command) + 1) /\ \A i \in 1..(at - 1) : command[i] # Dashes
  BY BeforeDashes
<1>21. longer \in Seq(S) /\ LongerByTwo(longer, command, at, option, word)
  BY <1>2, InsertedTwo
<1>3. /\ longer \in Seq(S) /\ Len(longer) = Len(command) + 2
      /\ \A i \in 1..(at - 1) : longer[i] = command[i]
      /\ longer[at] = option /\ longer[at + 1] = word
      /\ \A i \in at..Len(command) : longer[i + 2] = command[i]
  BY <1>21 DEF LongerByTwo
<1>4. n \in Nat /\ h \in 0..n /\ Len(longer) - 1 = n + 2 /\ longer # <<>> /\ Len(command) = n + 1
  <2>1. Len(command) \in Nat /\ Len(command) # 0
    BY EmptySeq
  <2>2. Len(longer) # 0
    BY <1>3, <2>1
  <2> QED BY <1>1, <1>2, <1>3, <2>1, <2>2
<1>5. PICK s, t : s = Split(command, values, known, dashes) /\ t = Split(longer, values, known, dashes)
  OBVIOUS
<1>6. PICK kept : ReadBy(kept, s, command, values, known, dashes)
  BY <1>5, SplitBuilt DEF SplitBy
<1>7. PICK held : ReadBy(held, t, longer, values, known, dashes)
  BY <1>3, <1>4, <1>5, SplitBuilt DEF SplitBy
<1>8. /\ kept[0] = Start(Head(command))
      /\ \A i \in 1..n : kept[i] = Take(kept[i - 1], command[i + 1], values, known, dashes)
      /\ \A i \in 0..n : OperandsOK(kept[i], S)
  <2>1. ReadUp(kept, n, command, values, known, dashes, S)
    BY <1>1, <1>6, ReadBuilds
  <2> QED BY <2>1 DEF ReadUp
<1>9. /\ held[0] = Start(Head(longer))
      /\ \A i \in 1..(n + 2) : held[i] = Take(held[i - 1], longer[i + 1], values, known, dashes)
      /\ \A i \in 0..(n + 2) : OperandsOK(held[i], S)
  <2>1. n + 2 = Len(longer) - 1
    BY <1>4
  <2>2. ReadUp(held, n + 2, longer, values, known, dashes, S)
    BY <1>3, <1>4, <1>7, <2>1, ReadBuilds
  <2> QED BY <2>2 DEF ReadUp
\* Up to the place both are read alike.
<1> DEFINE Open(i) == IsState(kept[i]) /\ kept[i].past = FALSE
           T == {i \in 0..n : i <= h => held[i] = kept[i] /\ Open(i)}
<1>22. \A i \in 0..n : IsState(kept[i])
  BY <1>8 DEF OperandsOK
<1>10. \A i \in 0..n : i \in T
  <2>1. 0 \in T
    <3>1. Head(longer) = Head(command)
      <4>1. longer[1] = command[1]
        BY <1>2, <1>3
      <4> QED BY <4>1
    <3>2. Start(Head(command)).past = FALSE
      BY DEF Start
    <3>3. 0 \in 0..n /\ Open(0)
      BY <1>4, <1>8, <1>22, <3>2
    <3>4. held[0] = kept[0]
      BY <1>8, <1>9, <3>1
    <3> HIDE DEF Open
    <3> QED BY <3>3, <3>4
  <2>2. ASSUME NEW i \in 1..n, i - 1 \in T, i <= h PROVE held[i] = kept[i] /\ Open(i)
    <3>0. i - 1 \in 0..n /\ i \in 0..n /\ i - 1 <= h /\ i + 1 \in 1..(at - 1) /\ i \in 1..(n + 2)
      BY <1>1, <1>2, <1>4, <2>2
    <3>1. held[i - 1] = kept[i - 1] /\ Open(i - 1)
      <4> HIDE DEF Open
      <4> QED BY <2>2, <3>0
    <3>3. longer[i + 1] = command[i + 1] /\ command[i + 1] # Dashes
      BY <1>2, <1>3, <3>0
    <3>4. held[i] = kept[i]
      BY <1>8, <1>9, <3>0, <3>1, <3>3
    <3>5. kept[i] = Take(kept[i - 1], command[i + 1], values, known, dashes)
      BY <1>8
    <3>6. kept[i].past = FALSE
      <4>1. PICK b, c, arg : b = kept[i - 1] /\ c = kept[i] /\ arg = command[i + 1]
        OBVIOUS
      <4>2. c = Take(b, arg, values, known, dashes) /\ arg # Dashes
        BY <3>3, <3>5, <4>1
      <4>3. IsState(b) /\ b.past = FALSE
        BY <3>1, <4>1
      <4>4. c.past = FALSE
        BY <4>2, <4>3, TakePast
      <4> QED BY <4>1, <4>4
    <3> QED BY <1>22, <3>0, <3>4, <3>6
  <2>3. ASSUME NEW i \in 1..n, i - 1 \in T PROVE i \in T
    <3>1. i \in 0..n
      BY <1>4
    <3> HIDE DEF Open
    <3> SUFFICES ASSUME i <= h PROVE held[i] = kept[i] /\ Open(i)
      BY <3>1
    <3> HIDE DEF T
    <3> QED BY <2>2, <2>3
  <2> HIDE DEF T
  <2> QED BY <1>4, <2>1, <2>3, UpTo
<1>23. \A i \in 0..h : held[i] = kept[i] /\ Open(i)
  <2> HIDE DEF Open
  <2>1. \A i \in 0..h : i \in 0..n /\ i <= h
    BY <1>4
  <2> QED BY <1>10, <2>1
<1> HIDE DEF T
<1>11. held[h] = kept[h] /\ kept[h].past = FALSE
  <2>1. h \in 0..h
    BY <1>4
  <2> QED BY <1>23, <2>1
<1>12. kept[h].awaited = None /\ kept[h].unknown = FALSE
  <2>1. CASE h = 0
    BY <1>8, <2>1 DEF Start
  <2>2. CASE h # 0
    <3>1. h \in 1..n /\ h - 1 \in 0..h /\ h + 1 = at - 1
      BY <1>1, <1>2, <1>4, <2>2
    <3>2. kept[h - 1].past = FALSE /\ IsState(kept[h - 1])
      BY <1>23, <3>1
    <3>3. kept[h] = Take(kept[h - 1], command[at - 1], values, known, dashes)
      BY <1>8, <3>1
    <3>4. PICK b, c, arg : b = kept[h - 1] /\ c = kept[h] /\ arg = command[at - 1]
      OBVIOUS
    <3>5. c = Take(b, arg, values, known, dashes) /\ ~IsFlag(arg) /\ IsState(b) /\ b.past = FALSE
      BY <3>2, <3>3, <3>4
    <3>6. c.awaited = None /\ c.unknown = FALSE
      BY <3>5, TakeWord
    <3> QED BY <3>4, <3>6
  <2> QED BY <2>1, <2>2
\* There the longer one reads the option and the word.
<1>13. PICK k, more : /\ more \subseteq {option} \cup Letters(option)
                      /\ Alongside(kept[h], held[h + 2], k, more)
  <2>1. /\ h + 1 \in 1..(n + 2) /\ h + 2 \in 1..(n + 2) /\ h \in 0..n /\ h + 1 \in 0..(n + 2)
        /\ (h + 1) - 1 = h /\ (h + 2) - 1 = h + 1 /\ (h + 1) + 1 = at /\ (h + 2) + 1 = at + 1
    BY <1>1, <1>2, <1>4
  <2>2. held[h + 1] = Take(kept[h], option, values, known, dashes)
    <3>1. held[h + 1] = Take(held[(h + 1) - 1], longer[(h + 1) + 1], values, known, dashes)
      BY <1>9, <2>1
    <3> QED BY <1>3, <1>11, <2>1, <3>1
  <2>3. held[h + 2] = Take(held[h + 1], word, values, known, dashes)
    <3>1. held[h + 2] = Take(held[(h + 2) - 1], longer[(h + 2) + 1], values, known, dashes)
      BY <1>9, <2>1
    <3> QED BY <1>3, <2>1, <3>1
  <2>4. OperandsOK(kept[h], S) /\ IsState(held[h + 1])
    BY <1>8, <1>9, <2>1 DEF OperandsOK
  <2>5. Beside(kept[h], held[h + 2], option)
    BY <1>11, <1>12, <2>2, <2>3, <2>4, BothBegin DEF Unknown
  <2> QED BY <2>5 DEF Beside
<1> DEFINE U == {i \in 0..n : h <= i => Alongside(kept[i], held[i + 2], k, more)}
<1>14. \A i \in 0..n : i \in U
  <2>1. 0 \in U
    <3>1. h <= 0 => h = 0
      BY <1>4
    <3> QED BY <1>4, <1>13, <3>1
  <2>2. ASSUME NEW i \in 1..n, i - 1 \in U PROVE i \in U
    <3> SUFFICES ASSUME h <= i PROVE Alongside(kept[i], held[i + 2], k, more)
      BY <1>4
    <3>1. CASE h = i
      BY <1>13, <3>1
    <3>2. CASE h <= i - 1
      <4>1. /\ i - 1 \in 0..n /\ (i - 1) + 2 = i + 1 /\ i + 1 \in 0..(n + 2) /\ i + 2 \in 1..(n + 2)
            /\ (i + 2) - 1 = i + 1 /\ (i + 2) + 1 = (i + 1) + 2 /\ i + 1 \in at..Len(command)
        BY <1>1, <1>4, <3>2
      <4>2. Alongside(kept[i - 1], held[i + 1], k, more)
        BY <2>2, <3>2, <4>1
      <4>3. longer[(i + 1) + 2] = command[i + 1] /\ command[i + 1] \in S
        <5>1. i + 1 \in 1..Len(command)
          BY <1>4
        <5> QED BY <1>3, <4>1, <5>1
      <4>4. held[i + 2] = Take(held[i + 1], command[i + 1], values, known, dashes)
        BY <1>9, <4>1, <4>3
      <4>5. kept[i] = Take(kept[i - 1], command[i + 1], values, known, dashes)
        BY <1>8
      <4>6. OperandsOK(kept[i - 1], S) /\ OperandsOK(held[i + 1], S)
        BY <1>8, <1>9, <4>1
      <4> QED BY <4>2, <4>3, <4>4, <4>5, <4>6, BothTake
    <3> QED BY <1>4, <3>1, <3>2
  <2> HIDE DEF U
  <2> QED BY <1>4, <2>1, <2>2, UpTo
<1>15. Alongside(kept[n], held[n + 2], k, more)
  <2>1. n \in U /\ h <= n
    BY <1>4, <1>14
  <2> QED BY <2>1
<1> HIDE DEF U
\* And at the end of both an option may still wait for its value.
<1>16. PICK a, b : a = kept[n] /\ b = held[n + 2]
  OBVIOUS
<1>17. /\ s = IF a.awaited = None THEN a ELSE See(a, {}, {<<a.awaited, None>>})
       /\ t = IF b.awaited = None THEN b ELSE See(b, {}, {<<b.awaited, None>>})
  BY <1>1, <1>4, <1>6, <1>7, <1>16 DEF ReadBy
<1>18. Alongside(a, b, k, more) /\ b.awaited = a.awaited
  BY <1>15, <1>16 DEF Alongside
<1>19. IsState(a) /\ IsState(b)
  <2>1. n \in 0..n /\ n + 2 \in 0..(n + 2)
    BY <1>4
  <2> QED BY <1>8, <1>9, <1>16, <2>1 DEF OperandsOK
<1>20. Alongside(s, t, k, more)
  <2>1. CASE a.awaited = None
    BY <1>17, <1>18, <2>1
  <2>2. CASE a.awaited # None
    <3>1. PICK pairs : pairs = {<<a.awaited, None>>}
      OBVIOUS
    <3>2. s = See(a, {}, pairs) /\ t = See(b, {}, pairs)
      BY <1>17, <1>18, <2>2, <3>1
    <3>3. Saw(a, s, {}, pairs, FALSE, a.awaited) /\ Saw(b, t, {}, pairs, FALSE, b.awaited)
      BY <1>19, <3>2, SeeSaw
    <3> QED BY <1>18, <3>3 DEF Saw, Alongside
  <2> QED BY <2>1, <2>2
<1> QED BY <1>5, <1>13, <1>20 DEF Beside

\* The constraints of a rule do not speak of an option it does not know.
LEMMA StillHolds ==
  ASSUME NEW p, NEW s, NEW t, NEW option, Beside(s, t, option), Unheard(p, option),
         \A c \in p.flags : ConstraintHolds(c, s),
         \A group \in p.sets : group \cap s.atoms # {}
  PROVE  /\ \A c \in p.flags : ConstraintHolds(c, t)
         /\ \A group \in p.sets : group \cap t.atoms # {}
<1>1. PICK k, more : more \subseteq {option} \cup Letters(option) /\ Alongside(s, t, k, more)
  BY DEF Beside
<1>2. t.atoms = s.atoms \cup more /\ t.values = s.values
  BY <1>1 DEF Alongside
<1>3. ASSUME NEW c \in p.flags PROVE ConstraintHolds(c, t)
  <2>1. c.atom \notin more
    <3>1. c.atom \in Known(p)
      BY DEF Known
    <3> QED BY <1>1, <3>1 DEF Unheard
  <2>2. c.atom \in t.atoms <=> c.atom \in s.atoms
    BY <1>2, <2>1
  <2>3. ConstraintHolds(c, s)
    OBVIOUS
  <2> QED BY <1>2, <2>2, <2>3 DEF ConstraintHolds
<1>4. \A group \in p.sets : group \cap t.atoms # {}
  BY <1>2
<1> QED BY <1>3, <1>4

LEMMA NotHidden ==
  ASSUME Inv, Matchable, ~pattern.closed, Match(pattern, argv, TRUE),
         NEW at \in 2..OptionsEnd(argv), NEW option \in Strangers, NEW word \in Arguments,
         Unheard(pattern, option), ~IsFlag(word), ~IsFlag(argv[at - 1]),
         NEW longer, longer = InsertAt(InsertAt(argv, at, word), at, option)
  PROVE  Match(pattern, longer, TRUE)
<1> DEFINE S == Programs \cup Arguments \cup {Dashes} \cup Strangers
<1>1. argv \in Seq(S) /\ Dashes \in S /\ option \in S /\ word \in S /\ argv # <<>>
  <2>1. argv \in Seq(Programs \cup Arguments) /\ Programs \cup Arguments \subseteq S
    BY DEF Inv
  <2>2. Dashes \in S /\ option \in S /\ word \in S /\ argv # <<>>
    BY DEF Matchable
  <2> HIDE DEF S
  <2> QED BY <2>1, <2>2, SeqMonotonic
<1> HIDE DEF S
<1>2. PICK values, known, dashes :
            values = pattern.values /\ known = Known(pattern) /\ dashes = KeepsDashes(pattern)
  OBVIOUS
<1>3. Unknown(option, values, known)
  BY <1>2, StrangerAssumption DEF Unknown, Unheard
<1>4. PICK s, t : s = Split(argv, values, known, dashes) /\ t = Split(longer, values, known, dashes)
  OBVIOUS
<1>5. s = Reading(pattern, argv) /\ t = Reading(pattern, longer)
  BY <1>2, <1>4 DEF Reading
<1>6. Beside(s, t, option)
  BY <1>1, <1>3, <1>4, ReadAlong
<1>7. OperandsOK(s, S)
  BY <1>1, <1>4, SplitOperands
<1>8. OperandsOK(t, S)
  <2>1. at \in 2..(Len(argv) + 1)
    BY <1>1, BeforeDashes
  <2>4. longer \in Seq(S) /\ LongerByTwo(longer, argv, at, option, word)
    BY <1>1, <2>1, InsertedTwo
  <2>2. longer \in Seq(S) /\ Len(longer) = Len(argv) + 2
    BY <2>4 DEF LongerByTwo
  <2>3. longer # <<>>
    BY <1>1, <2>2
  <2> QED BY <1>1, <1>4, <2>2, <2>3, SplitOperands
<1>9. /\ PathMatches(pattern, s, TRUE)
      /\ \A c \in pattern.flags : ConstraintHolds(c, s)
      /\ \A group \in pattern.sets : group \cap s.atoms # {}
  BY <1>5 DEF Match
<1>10. PathMatches(pattern, t, TRUE)
  <2>1. Len(pattern.path) \in Nat /\ ExecLast(pattern.path) /\ pattern.exact \in BOOLEAN
    BY <1>5, ReadingIs
  <2> QED BY <1>6, <1>7, <1>8, <1>9, <2>1, PathPast DEF Beside
<1>11. /\ \A c \in pattern.flags : ConstraintHolds(c, t)
       /\ \A group \in pattern.sets : group \cap t.atoms # {}
  BY <1>6, <1>9, StillHolds
<1> QED BY <1>5, <1>10, <1>11 DEF Match

-----------------------------------------------------------------------------
(* The values that a rule captures. *)

CountsBy(counted, kept, path, length, n) ==
    /\ Builds(kept, [counts |-> TRUE, path |-> path, length |-> length], 0, n)
    /\ counted = kept[n]
LEMMA ConsumedBuilt ==
  ASSUME NEW p, NEW operands, NEW n \in Nat
  PROVE  \E kept : CountsBy(Consumed(p, operands, n + 1), kept, p.path, Len(operands), n)
<1> DEFINE w == [counts |-> TRUE, path |-> p.path, length |-> Len(operands)]
           order == [j \in 1..((n + 1) - 1) |-> j]
           Given(f) == [s \in SUBSET (DOMAIN order) |->
                          IF s = {} THEN 0
                          ELSE Counting(p.path, Len(operands), f[s \ {Max(s)}], order[Max(s)])]
<1>1. Consumed(p, operands, n + 1) = (CHOOSE f : f = Given(f))[DOMAIN order]
  BY DEF Consumed, FoldLeft, MapThenFoldSet, Counting
<1>2. DOMAIN order = 1..n /\ \A j \in 1..n : order[j] = j
  OBVIOUS
<1>3. \A s : s \in SUBSET (1..n) /\ s # {} => order[Max(s)] = Max(s)
  BY <1>2, MaxIs
<1> HIDE DEF order
<1>4. \A f : Given(f) = Fold(w, 0, n, f)
  BY <1>2, <1>3 DEF Fold, Once
<1> HIDE DEF Given
<1>5. Consumed(p, operands, n + 1) = Folded(w, 0, n)
  BY <1>1, <1>2, <1>4 DEF Folded
<1> HIDE DEF w
<1>6. \E kept : Builds(kept, w, 0, n) /\ Folded(w, 0, n) = kept[n]
  BY FoldBuilt
<1> QED BY <1>5, <1>6 DEF w, CountsBy

\* Of one operand more, at most one more is consumed before a term.
LEMMA ConsumedMore ==
  ASSUME NEW p, Len(p.path) \in Nat, NEW i \in 1..Len(p.path), NEW u, NEW v,
         Len(u) \in Nat, Len(v) = Len(u) + 1
  PROVE  /\ Consumed(p, u, i) \in Nat /\ Consumed(p, v, i) \in Nat
         /\ Consumed(p, v, i) <= Consumed(p, u, i) + 1
<1>1. PICK n \in Nat : n = i - 1 /\ n + 1 = i
  OBVIOUS
<1>2. PICK a : CountsBy(Consumed(p, u, n + 1), a, p.path, Len(u), n)
  BY ConsumedBuilt
<1>3. PICK b : CountsBy(Consumed(p, v, n + 1), b, p.path, Len(v), n)
  BY ConsumedBuilt
<1>4. PICK path, length : path = p.path /\ length = Len(u)
  OBVIOUS
<1>5. /\ a[0] = 0 /\ b[0] = 0
      /\ \A j \in 1..n : a[j] = Counting(path, length, a[j - 1], j)
      /\ \A j \in 1..n : b[j] = Counting(path, length + 1, b[j - 1], j)
  BY <1>2, <1>3, <1>4 DEF CountsBy, Builds, Once
<1> DEFINE Near(x, y) == x \in Nat /\ y \in Nat /\ y <= x + 1
           T == {j \in 0..n : Near(a[j], b[j])}
<1>6. 0 \in T
  BY <1>5
<1>7. ASSUME NEW j \in 1..n, j - 1 \in T PROVE j \in T
  <2>1. PICK x, y : x = a[j - 1] /\ y = b[j - 1] /\ Near(x, y)
    BY <1>7
  <2>2. a[j] = Counting(path, length, x, j) /\ b[j] = Counting(path, length + 1, y, j)
    BY <1>5, <2>1
  <2>3. length \in Nat /\ Len(path) \in Nat /\ j \in Nat /\ x \in Nat /\ y \in Nat /\ y <= x + 1
    BY <1>4, <2>1
  <2>4. Near(Counting(path, length, x, j), Counting(path, length + 1, y, j))
    <3>1. CASE path[j].kind = "gap"
      <4>1. PICK l : l = length - (Len(path) - j) /\ l \in Int
        BY <2>3
      <4>2. (length + 1) - (Len(path) - j) = l + 1
        BY <2>3, <4>1
      <4>3. Counting(path, length, x, j) = IF l > x THEN l ELSE x
        BY <3>1, <4>1 DEF Counting
      <4>4. Counting(path, length + 1, y, j) = IF l + 1 > y THEN l + 1 ELSE y
        BY <3>1, <4>2 DEF Counting
      <4>5. PICK c, d : /\ c = (IF l > x THEN l ELSE x)
                        /\ d = (IF l + 1 > y THEN l + 1 ELSE y)
        OBVIOUS
      <4>6. c \in Nat /\ d \in Nat /\ d <= c + 1
        BY <2>3, <4>1, <4>5
      <4> QED BY <4>3, <4>4, <4>5, <4>6
    <3>2. CASE path[j].kind = "exec"
      <4>1. Counting(path, length, x, j) = length /\ Counting(path, length + 1, y, j) = length + 1
        BY <3>2 DEF Counting
      <4> QED BY <2>3, <4>1
    <3>3. CASE path[j].kind # "gap" /\ path[j].kind # "exec"
      <4>1. Counting(path, length, x, j) = x + 1 /\ Counting(path, length + 1, y, j) = y + 1
        BY <3>3 DEF Counting
      <4> QED BY <2>3, <4>1
    <3> QED BY <3>1, <3>2, <3>3
  <2> HIDE DEF Near
  <2>5. Near(a[j], b[j]) /\ j \in 0..n
    BY <2>2, <2>4
  <2> QED BY <2>5
<1>8. n \in T
  <2> HIDE DEF T
  <2>1. \A j \in 0..n : j \in T
    BY <1>6, <1>7, UpTo
  <2> QED BY <2>1
<1>9. Near(a[n], b[n])
  <2> HIDE DEF Near
  <2> QED BY <1>8
<1> QED BY <1>1, <1>2, <1>3, <1>9 DEF CountsBy

\* What a command gives to the captures of a rule.
LEMMA CapturedIs ==
  ASSUME NEW p, NEW command, NEW i, NEW s, s = Split(command, p.values, {}, FALSE)
  PROVE  /\ Captured(p, command, i) = IF Consumed(p, s.operands, i) + 1 \in DOMAIN s.operands
                                      THEN s.operands[Consumed(p, s.operands, i) + 1] ELSE None
         /\ SqlValues(p, command) = {pair \in s.values : pair[1] \in UNION p.sql}
BY DEF Captured, SqlValues

LEMMA StillApplies ==
  ASSUME Inv, Matchable, ~pattern.closed, Details(pattern, argv, stdin, TRUE),
         NEW at \in 2..OptionsEnd(argv), NEW option \in Strangers, NEW word \in Arguments,
         Unheard(pattern, option), ~IsFlag(word), ~IsFlag(argv[at - 1]),
         NEW longer, longer = InsertAt(InsertAt(argv, at, word), at, option)
  PROVE  Details(pattern, longer, stdin, TRUE) \/ CapturesDynamic(pattern, longer)
<1> DEFINE S == Programs \cup Arguments \cup {Dashes} \cup {option}
<1>1. argv \in Seq(S) /\ Dashes \in S /\ option \in S /\ word \in S /\ argv # <<>>
  <2>1. argv \in Seq(Programs \cup Arguments) /\ Programs \cup Arguments \subseteq S
    BY DEF Inv
  <2>2. Dashes \in S /\ option \in S /\ word \in S /\ argv # <<>>
    BY DEF Matchable
  <2> HIDE DEF S
  <2> QED BY <2>1, <2>2, SeqMonotonic
<1>2. None \notin S
  <2>1. None \notin Programs \cup Arguments
    BY NoneAssumption
  <2>2. None # Dashes
    BY DEF None, Dashes
  <2>3. option # None
    <3>1. IsFlag(option) /\ option # Dashes
      BY StrangerAssumption
    <3>2. Len(option) > 1
      BY <3>1 DEF IsFlag
    <3>3. \A x : x = None => ~(Len(x) > 1)
      BY DEF None
    <3> QED BY <3>2, <3>3, Zenon
  <2> QED BY <2>1, <2>2, <2>3
<1> HIDE DEF S
<1>3. PICK values, none : values = pattern.values /\ none = {}
  OBVIOUS
<1>4. Unknown(option, values, none)
  BY <1>3, StrangerAssumption DEF Unknown, Unheard
<1>5. PICK s, t : s = Split(argv, values, none, FALSE) /\ t = Split(longer, values, none, FALSE)
  OBVIOUS
<1>6. Beside(s, t, option)
  BY <1>1, <1>4, <1>5, ReadAlong
<1>7. OperandsOK(s, S)
  BY <1>1, <1>5, SplitOperands
<1>8. OperandsOK(t, S)
  <2>1. at \in 2..(Len(argv) + 1)
    BY <1>1, BeforeDashes
  <2>2. longer \in Seq(S) /\ Len(longer) = Len(argv) + 2
    BY <1>1, <2>1, InsertedTwo DEF LongerByTwo
  <2>3. longer # <<>>
    BY <1>1, <2>2
  <2> QED BY <1>1, <1>5, <2>2, <2>3, SplitOperands
<1>9. t.values = s.values /\ Len(t.operands) = Len(s.operands) + 1
  BY <1>6 DEF Beside, Alongside, Paired
<1>10. SqlValues(pattern, longer) = SqlValues(pattern, argv)
  <2>1. SqlValues(pattern, argv) = {pair \in s.values : pair[1] \in UNION pattern.sql}
    BY <1>3, <1>5 DEF SqlValues
  <2>2. SqlValues(pattern, longer) = {pair \in t.values : pair[1] \in UNION pattern.sql}
    BY <1>3, <1>5 DEF SqlValues
  <2> QED BY <1>9, <2>1, <2>2
<1>11. ASSUME NEW i \in Places(pattern, {"sql", "shell"}) PROVE Captured(pattern, longer, i) # None
  <2>1. Len(pattern.path) \in Nat /\ i \in 1..Len(pattern.path)
    BY ReadingIs DEF Places
  <2>2. PICK u, v : u = s.operands /\ v = t.operands
    OBVIOUS
  <2>3. /\ Len(u) \in Nat /\ Len(v) = Len(u) + 1
        /\ DOMAIN u = 1..Len(u) /\ DOMAIN v = 1..Len(v)
        /\ \A o \in 1..Len(v) : v[o] \in S
    BY <1>7, <1>8, <1>9, <2>2 DEF OperandsOK
  <2>4. PICK a, b : a = Consumed(pattern, u, i) /\ b = Consumed(pattern, v, i)
    OBVIOUS
  <2>5. a \in Nat /\ b \in Nat /\ b <= a + 1
    BY <2>1, <2>3, <2>4, ConsumedMore
  <2>6. Captured(pattern, argv, i) = IF a + 1 \in DOMAIN u THEN u[a + 1] ELSE None
    BY <1>3, <1>5, <2>2, <2>4, CapturedIs
  <2>7. Captured(pattern, longer, i) = IF b + 1 \in DOMAIN v THEN v[b + 1] ELSE None
    BY <1>3, <1>5, <2>2, <2>4, CapturedIs
  <2>8. a + 1 \in DOMAIN u
    BY <2>6 DEF Details
  <2>9. b + 1 \in 1..Len(v)
    BY <2>3, <2>5, <2>8
  <2> QED BY <1>2, <2>3, <2>7, <2>9
<1>12. Match(pattern, longer, TRUE)
  BY NotHidden DEF Details
<1>13. SUFFICES ASSUME ~CapturesDynamic(pattern, longer) PROVE Details(pattern, longer, stdin, TRUE)
  OBVIOUS
<1>14. \A i \in Places(pattern, {"sql"}) : ~IsDynamic(Captured(pattern, longer, i))
  BY <1>13 DEF CapturesDynamic
<1>15. /\ \A pair \in SqlValues(pattern, longer) : pair[2] # None /\ ~IsDynamic(pair[2])
       /\ \A flags \in pattern.sql : \E pair \in SqlValues(pattern, longer) : pair[1] \in flags
       /\ pattern.stdin => stdin # None
  BY <1>10 DEF Details
<1> QED BY <1>11, <1>12, <1>14, <1>15 DEF Details

\* DenyNotHidden, for every set of patterns, arguments and unknown options: the reading with an
\* option and a word more goes beside the one without, the word is optional, and so every
\* alignment of the shorter command is one of the longer in which the word is gone.  The
\* captures of the longer find an operand too, and the values of its options are the same.
THEOREM NothingHidesADeny == Spec => []DenyNotHidden
<1>1. Inv => DenyNotHidden
  <2> SUFFICES ASSUME Inv, Matchable, ~pattern.closed, Details(pattern, argv, stdin, TRUE),
                      NEW at \in 2..OptionsEnd(argv), NEW option \in Strangers, NEW word \in Arguments,
                      Unheard(pattern, option), ~IsFlag(word), ~IsFlag(argv[at - 1])
               PROVE  LET longer == InsertAt(InsertAt(argv, at, word), at, option)
                      IN Details(pattern, longer, stdin, TRUE) \/ CapturesDynamic(pattern, longer)
    BY Zenon DEF DenyNotHidden
  <2> QED BY StillApplies, Zenon
<1> QED BY <1>1, Begins, Goes, PTL DEF Spec
=============================================================================
