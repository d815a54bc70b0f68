------------------------------ MODULE DataFacts ------------------------------
(* Facts about sequences, folds and decisions that the proofs cite: functions    *)
(* defined by recursion over an initial part of the naturals exist and agree, so *)
(* what Unique, FlattenSeq, Reverse and the joins of decisions return is proved. *)
EXTENDS Verdicts, FiniteSetTheorems, SequenceTheorems, TLAPS

\* Every set of naturals that holds 0 and the successor of each member holds all: the
\* induction of the proofs below.  The successor would map the members up to a number
\* that is missing, one to one, to fewer.
LEMMA Inductive ==
  ASSUME NEW T \in SUBSET Nat, 0 \in T, \A n \in T : n + 1 \in T
  PROVE  T = Nat
<1>1. ASSUME NEW m \in Nat, m \notin T PROVE FALSE
  <2> DEFINE below == T \cap (0..m)
             up == [x \in below |-> x + 1]
  <2>1. IsFiniteSet(below) /\ 0 \in below
    <3>1. IsFiniteSet(0..m) /\ below \in SUBSET (0..m)
      BY <1>1, FS_Interval
    <3>2. 0 \in below
      BY <1>1
    <3> HIDE DEF below
    <3> QED BY <3>1, <3>2, FS_Subset
  <2>2. up \in Injection(below, below \ {0})
    BY <1>1 DEF Injection, IsInjective
  <2>3. IsFiniteSet(below \ {0}) /\ Cardinality(below \ {0}) = Cardinality(below) - 1
    BY <2>1, FS_RemoveElement
  <2> HIDE DEF below, up
  <2>4. Cardinality(below) <= Cardinality(below \ {0})
    BY <2>2, <2>3, FS_Injection
  <2>5. Cardinality(below) \in Nat
    BY <2>1, FS_CardinalityType
  <2> QED BY <2>3, <2>4, <2>5
<1> QED BY <1>1

\* A value for 0 and a step from each number to the next one make a function.
Defines(f, n, b, step) == f[0] = b /\ \A i \in 1..n : f[i] = step[<<f[i - 1], i>>]
LEMMA Recursion ==
  ASSUME NEW n \in Nat, NEW V, NEW b \in V, NEW step \in [V \X (1..n) -> V]
  PROVE  \E f \in [0..n -> V] : Defines(f, n, b, step)
<1> DEFINE Upto(m) == \E f \in [0..m -> V] :
                         f[0] = b /\ \A i \in 1..m : f[i] = step[<<f[i - 1], i>>]
           T == {m \in Nat : m <= n => Upto(m)}
<1>1. 0 \in T
  <2> DEFINE g == [i \in 0..0 |-> b]
  <2>1. g \in [0..0 -> V] /\ g[0] = b /\ 1..0 = {}
    OBVIOUS
  <2> HIDE DEF g
  <2>2. Upto(0)
    BY <2>1
  <2> HIDE DEF Upto
  <2> QED BY <2>2
<1>2. ASSUME NEW m \in T PROVE m + 1 \in T
  <2> SUFFICES ASSUME m + 1 <= n PROVE Upto(m + 1)
    OBVIOUS
  <2>1. m \in Nat /\ m <= n
    OBVIOUS
  <2>2. PICK f \in [0..m -> V] : f[0] = b /\ \A i \in 1..m : f[i] = step[<<f[i - 1], i>>]
    BY <2>1
  <2>3. f[m] \in V /\ <<f[m], m + 1>> \in V \X (1..n)
    BY <2>1, <2>2
  <2> DEFINE g == [i \in 0..(m + 1) |-> IF i = m + 1 THEN step[<<f[m], m + 1>>] ELSE f[i]]
  <2>4. g \in [0..(m + 1) -> V]
    BY <2>1, <2>3
  <2>5. g[0] = b /\ \A i \in 0..m : g[i] = f[i]
    BY <2>1, <2>2
  <2>6. g[m + 1] = step[<<f[m], m + 1>>] /\ g[m] = f[m]
    BY <2>1, <2>5
  <2> HIDE DEF g
  <2>7. ASSUME NEW i \in 1..(m + 1) PROVE g[i] = step[<<g[i - 1], i>>]
    <3>1. CASE i = m + 1
      <4>1. i - 1 = m
        BY <2>1, <3>1
      <4> QED BY <2>6, <3>1, <4>1
    <3>2. CASE i # m + 1
      <4>1. i \in 1..m /\ i - 1 \in 0..m /\ i \in 0..m
        BY <2>1, <3>2
      <4> QED BY <2>2, <2>5, <4>1
    <3> QED BY <3>1, <3>2
  <2> QED BY <2>4, <2>5, <2>7
<1> HIDE DEF Upto
<1>3. T = Nat
  <2> HIDE DEF T
  <2>1. T \in SUBSET Nat BY DEF T
  <2> QED BY <1>1, <1>2, <2>1, Inductive
<1>4. Upto(n)
  BY <1>3
<1> QED BY <1>4 DEF Upto, Defines

\* Two functions that start alike and go on alike agree.
InStep(f, g, n) == \A i \in 1..n : f[i - 1] = g[i - 1] => f[i] = g[i]
LEMMA Agree ==
  ASSUME NEW n \in Nat, NEW f, NEW g, f[0] = g[0], InStep(f, g, n)
  PROVE  \A i \in 0..n : f[i] = g[i]
<1> DEFINE T == {m \in Nat : m <= n => f[m] = g[m]}
<1>1. ASSUME NEW m \in T PROVE m + 1 \in T
  <2>1. m + 1 <= n => m + 1 \in 1..n /\ (m + 1) - 1 = m /\ m <= n
    OBVIOUS
  <2> QED BY <2>1 DEF InStep
<1>2. 0 \in T
  OBVIOUS
<1>3. T \in SUBSET Nat
  OBVIOUS
<1> HIDE DEF T
<1>4. T = Nat
  BY <1>1, <1>2, <1>3, Inductive
<1> QED BY <1>4 DEF T

\* A set of naturals that is not empty has a least member.
LEMMA Least ==
  ASSUME NEW S \in SUBSET Nat, S # {}
  PROVE  \E m \in S : \A k \in S : m <= k
<1> SUFFICES ASSUME \A m \in S : \E k \in S : ~(m <= k) PROVE FALSE
  OBVIOUS
<1> DEFINE T == {n \in Nat : \A k \in S : n <= k}
<1>1. ASSUME NEW n \in T PROVE n + 1 \in T
  <2>1. n \notin S
    OBVIOUS
  <2>2. \A k \in S : k \in Nat /\ n <= k /\ n # k
    BY <2>1
  <2> QED BY <2>2
<1>2. 0 \in T /\ T \in SUBSET Nat
  OBVIOUS
<1>3. T = Nat
  <2> HIDE DEF T
  <2> QED BY <1>1, <1>2, Inductive
<1>4. PICK m \in S : TRUE
  OBVIOUS
<1>5. m + 1 \in T
  BY <1>3
<1> QED BY <1>5

-----------------------------------------------------------------------------
(* Sequences: the first elements that are in a set. *)

Firsts(s, M) == {s[i] : i \in {j \in 1..Len(s) : s[j] \in M /\ \A k \in 1..(j - 1) : s[k] \notin M}}

\* There is one if there is any.
LEMMA FirstsOne ==
  ASSUME NEW S, NEW s \in Seq(S), NEW M
  PROVE  /\ Firsts(s, M) \subseteq M \cap S
         /\ \A x, y \in Firsts(s, M) : x = y
         /\ Firsts(s, M) = {} <=> \A i \in 1..Len(s) : s[i] \notin M
<1>1. Len(s) \in Nat /\ \A i \in 1..Len(s) : s[i] \in S
  OBVIOUS
<1>2. Firsts(s, M) \subseteq M \cap S
  BY <1>1 DEF Firsts
<1>3. ASSUME NEW x \in Firsts(s, M), NEW y \in Firsts(s, M) PROVE x = y
  <2>1. PICK i \in 1..Len(s) : s[i] = x /\ s[i] \in M /\ \A k \in 1..(i - 1) : s[k] \notin M
    BY <1>3 DEF Firsts
  <2>2. PICK j \in 1..Len(s) : s[j] = y /\ s[j] \in M /\ \A k \in 1..(j - 1) : s[k] \notin M
    BY <1>3 DEF Firsts
  <2>3. ~(i < j) /\ ~(j < i)
    BY <1>1, <2>1, <2>2
  <2> QED BY <1>1, <2>1, <2>2, <2>3
<1>4. ASSUME NEW i \in 1..Len(s), s[i] \in M PROVE Firsts(s, M) # {}
  <2> DEFINE I == {j \in 1..Len(s) : s[j] \in M}
  <2>1. I \in SUBSET Nat /\ I # {}
    BY <1>4
  <2>2. PICK m \in I : \A k \in I : m <= k
    <3> HIDE DEF I
    <3> QED BY <2>1, Least
  <2>3. \A k \in 1..(m - 1) : k \in 1..Len(s) /\ ~(m <= k)
    BY <1>1
  <2>4. m \in 1..Len(s) /\ s[m] \in M /\ \A k \in 1..(m - 1) : s[k] \notin M
    BY <2>2, <2>3
  <2> QED BY <2>4 DEF Firsts
<1>5. (\A i \in 1..Len(s) : s[i] \notin M) => Firsts(s, M) = {}
  BY DEF Firsts
<1> QED BY <1>2, <1>3, <1>4, <1>5

LEMMA FirstsConcat ==
  ASSUME NEW S, NEW s \in Seq(S), NEW t \in Seq(S), NEW M
  PROVE  Firsts(s \o t, M) = IF Firsts(s, M) = {} THEN Firsts(t, M) ELSE Firsts(s, M)
<1> DEFINE u == s \o t
           m == Len(s)
           n == Len(t)
<1>1. /\ m \in Nat /\ n \in Nat /\ u \in Seq(S) /\ Len(u) = m + n
      /\ \A i \in 1..m : u[i] = s[i]
      /\ \A i \in (m + 1)..(m + n) : u[i] = t[i - m]
  BY ConcatProperties, LenProperties
<1> HIDE DEF u, m, n
<1>2. Firsts(s, M) = {} <=> \A i \in 1..m : s[i] \notin M
  BY FirstsOne DEF m
<1>3. CASE Firsts(s, M) # {}
  <2>1. PICK x \in Firsts(s, M) : TRUE
    BY <1>3
  <2>2. PICK i \in 1..m : s[i] = x /\ s[i] \in M /\ \A k \in 1..(i - 1) : s[k] \notin M
    BY <2>1 DEF Firsts, m
  <2>3. i \in 1..Len(u) /\ u[i] = x /\ \A k \in 1..(i - 1) : k \in 1..m
    BY <1>1, <2>2
  <2>4. \A k \in 1..(i - 1) : u[k] \notin M
    BY <1>1, <2>2, <2>3
  <2>5. x \in Firsts(u, M)
    BY <2>2, <2>3, <2>4 DEF Firsts
  <2>6. Firsts(u, M) = {x} /\ Firsts(s, M) = {x}
    BY <1>1, <2>1, <2>5, FirstsOne
  <2> QED BY <1>3, <2>6 DEF u
<1>4. CASE Firsts(s, M) = {} /\ Firsts(t, M) # {}
  <2>1. PICK x \in Firsts(t, M) : TRUE
    BY <1>4
  <2>2. PICK i \in 1..n : t[i] = x /\ t[i] \in M /\ \A k \in 1..(i - 1) : t[k] \notin M
    BY <2>1 DEF Firsts, n
  <2>3. m + i \in 1..Len(u) /\ m + i \in (m + 1)..(m + n) /\ (m + i) - m = i
    BY <1>1, <2>2
  <2>4. u[m + i] = x
    BY <1>1, <2>2, <2>3
  <2>5. ASSUME NEW k \in 1..((m + i) - 1) PROVE u[k] \notin M
    <3>1. CASE k <= m
      <4>1. k \in 1..m
        BY <1>1, <3>1
      <4> QED BY <1>1, <1>2, <1>4, <4>1
    <3>2. CASE ~(k <= m)
      <4>1. k \in (m + 1)..(m + n) /\ k - m \in 1..(i - 1)
        BY <1>1, <2>2, <3>2
      <4> QED BY <1>1, <2>2, <4>1
    <3> QED BY <3>1, <3>2
  <2>6. x \in Firsts(u, M)
    BY <2>2, <2>3, <2>4, <2>5 DEF Firsts
  <2>7. Firsts(u, M) = {x} /\ Firsts(t, M) = {x}
    BY <1>1, <2>1, <2>6, FirstsOne
  <2> QED BY <1>4, <2>7 DEF u
<1>5. CASE Firsts(s, M) = {} /\ Firsts(t, M) = {}
  <2>1. \A i \in 1..n : t[i] \notin M
    BY <1>5, FirstsOne DEF n
  <2>2. ASSUME NEW k \in 1..(m + n) PROVE u[k] \notin M
    <3>1. CASE k <= m
      <4>1. k \in 1..m
        BY <1>1, <3>1
      <4> QED BY <1>1, <1>2, <1>5, <4>1
    <3>2. CASE ~(k <= m)
      <4>1. k \in (m + 1)..(m + n) /\ k - m \in 1..n
        BY <1>1, <3>2
      <4> QED BY <1>1, <2>1, <4>1
    <3> QED BY <3>1, <3>2
  <2>3. Firsts(u, M) = {}
    BY <1>1, <2>2, FirstsOne
  <2> QED BY <1>5, <2>3 DEF u
<1> QED BY <1>3, <1>4, <1>5

\* What of S is in M under a tag, and elements under a tag.
Under(d, S, M) == {y \in S : <<d, y>> \in M}
With(d, X) == {<<d, x>> : x \in X}
LEMMA FirstsTagged ==
  ASSUME NEW S, NEW s \in Seq(S), NEW d, NEW M
  PROVE  /\ Tagged(d, s) \in Seq({d} \X S) /\ Len(Tagged(d, s)) = Len(s)
         /\ Firsts(Tagged(d, s), M) = With(d, Firsts(s, Under(d, S, M)))
<1> DEFINE t == Tagged(d, s)
           N == {y \in S : <<d, y>> \in M}
<1>1. Len(s) \in Nat /\ DOMAIN s = 1..Len(s) /\ \A i \in 1..Len(s) : s[i] \in S
  OBVIOUS
<1>2. t \in Seq({d} \X S) /\ Len(t) = Len(s) /\ \A i \in 1..Len(s) : t[i] = <<d, s[i]>>
  BY <1>1 DEF Tagged
<1> HIDE DEF t
<1>3. \A i \in 1..Len(s) : t[i] \in M <=> s[i] \in N
  BY <1>1, <1>2
<1> HIDE DEF N
<1>4. \A i \in 1..Len(s) : \A k \in 1..(i - 1) : k \in 1..Len(s)
  BY <1>1
<1>5. Firsts(t, M) = {<<d, x>> : x \in Firsts(s, N)}
  BY <1>2, <1>3, <1>4 DEF Firsts
<1> QED BY <1>2, <1>5 DEF t, N, With, Under

TagsKept(S, M) == \A d, s : s \in Seq(S) =>
                     Firsts(Tagged(d, s), M) = With(d, Firsts(s, Under(d, S, M)))
LEMMA TagsAreKept ==
  ASSUME NEW S, NEW M
  PROVE  TagsKept(S, M)
<1> SUFFICES ASSUME NEW d, NEW s, s \in Seq(S)
             PROVE  Firsts(Tagged(d, s), M) = With(d, Firsts(s, Under(d, S, M)))
  BY DEF TagsKept
<1>1. /\ Tagged(d, s) \in Seq({d} \X S) /\ Len(Tagged(d, s)) = Len(s)
      /\ Firsts(Tagged(d, s), M) = With(d, Firsts(s, Under(d, S, M)))
  BY FirstsTagged, ZenonT(40)
<1> QED BY <1>1

LEMMA RangeIndexed ==
  ASSUME NEW S, NEW s \in Seq(S)
  PROVE  /\ Len(s) \in Nat /\ DOMAIN s = 1..Len(s) /\ Range(s) = {s[i] : i \in 1..Len(s)}
         /\ Range(s) \subseteq S
BY DEF Range

\* What Unique builds, element by element.
LEMMA UniqueBuilt ==
  ASSUME NEW S, NEW s \in Seq(S)
  PROVE  \E kept \in [0..Len(s) -> Seq(S)] :
            /\ kept[0] = <<>> /\ Unique(s) = kept[Len(s)]
            /\ \A i \in 1..Len(s) : kept[i] = IF s[i] \in Range(kept[i - 1]) THEN kept[i - 1]
                                              ELSE Append(kept[i - 1], s[i])
<1> DEFINE n == Len(s)
           step == [p \in Seq(S) \X (1..n) |-> IF Contains(p[1], s[p[2]]) THEN p[1]
                                               ELSE Append(p[1], s[p[2]])]
<1>1. n \in Nat /\ \A i \in 1..n : s[i] \in S
  OBVIOUS
<1>2. step \in [Seq(S) \X (1..n) -> Seq(S)]
  <2> SUFFICES ASSUME NEW p \in Seq(S) \X (1..n)
               PROVE  (IF Contains(p[1], s[p[2]]) THEN p[1] ELSE Append(p[1], s[p[2]])) \in Seq(S)
    OBVIOUS
  <2>1. p[1] \in Seq(S) /\ p[2] \in 1..n
    OBVIOUS
  <2> HIDE DEF n
  <2>2. s[p[2]] \in S
    BY <1>1, <2>1
  <2> QED BY <2>1, <2>2, AppendProperties
<1>3. PICK f \in [0..n -> Seq(S)] : Defines(f, n, <<>>, step)
  <2> HIDE DEF n, step
  <2>1. <<>> \in Seq(S)
    OBVIOUS
  <2> QED BY <1>1, <1>2, <2>1, Recursion
<1>4. \A i \in 1..n : f[i] = IF Contains(f[i - 1], s[i]) THEN f[i - 1] ELSE Append(f[i - 1], s[i])
  <2> SUFFICES ASSUME NEW i \in 1..n
               PROVE f[i] = IF Contains(f[i - 1], s[i]) THEN f[i - 1] ELSE Append(f[i - 1], s[i])
    OBVIOUS
  <2>1. f[i - 1] \in Seq(S)
    BY <1>1, <1>3
  <2>2. <<f[i - 1], i>> \in Seq(S) \X (1..n)
    BY <2>1
  <2> QED BY <1>3, <2>2 DEF Defines
<1>0. f[0] = <<>>
  BY <1>3 DEF Defines
<1> HIDE DEF step
<1> DEFINE Body(g) == [i \in 0..n |-> IF i = 0 THEN <<>>
                          ELSE IF Contains(g[i - 1], s[i]) THEN g[i - 1] ELSE Append(g[i - 1], s[i])]
<1>5. f = Body(f)
  <2>1. \A i \in 0..n : i = 0 \/ i \in 1..n
    BY <1>1
  <2> QED BY <1>0, <1>3, <1>4, <2>1
<1>6. \E g : g = Body(g) /\ Unique(s) = g[n]
  BY <1>5 DEF Unique
<1>7. PICK g : g = Body(g) /\ Unique(s) = g[n]
  BY <1>6
<1>8. g[0] = <<>> /\ \A i \in 1..n : g[i] = IF Contains(g[i - 1], s[i]) THEN g[i - 1]
                                           ELSE Append(g[i - 1], s[i])
  <2> HIDE DEF n
  <2>1. g[0] = <<>>
    BY <1>1, <1>7
  <2>2. \A i \in 1..n : i \in 0..n /\ i # 0
    BY <1>1
  <2> QED BY <1>7, <2>1, <2>2
<1> HIDE DEF Body
<1>9. \A i \in 0..n : g[i] = f[i]
  <2>1. InStep(g, f, n)
    BY <1>4, <1>8 DEF InStep
  <2> HIDE DEF n
  <2> QED BY <1>0, <1>1, <1>8, <2>1, Agree
<1>10. \A i \in 1..n : f[i - 1] \in Seq(S) /\ (Contains(f[i - 1], s[i]) <=> s[i] \in Range(f[i - 1]))
  <2> SUFFICES ASSUME NEW i \in 1..n
               PROVE f[i - 1] \in Seq(S) /\ (Contains(f[i - 1], s[i]) <=> s[i] \in Range(f[i - 1]))
    OBVIOUS
  <2>1. f[i - 1] \in Seq(S)
    BY <1>1, <1>3
  <2>2. PICK q \in Seq(S) : q = f[i - 1]
    BY <2>1
  <2>3. Range(q) = {q[j] : j \in 1..Len(q)}
    BY RangeIndexed
  <2>4. Contains(q, s[i]) <=> s[i] \in Range(q)
    BY <2>3 DEF Contains
  <2> QED BY <2>1, <2>2, <2>4
<1>11. \A i \in 1..n : f[i] = IF s[i] \in Range(f[i - 1]) THEN f[i - 1] ELSE Append(f[i - 1], s[i])
  BY <1>4, <1>10
<1>12. n \in 0..n /\ Unique(s) = f[n]
  BY <1>1, <1>7, <1>9
<1> QED BY <1>0, <1>3, <1>11, <1>12

LEMMA RangeAppend ==
  ASSUME NEW S, NEW s \in Seq(S), NEW x \in S
  PROVE  Range(Append(s, x)) = Range(s) \cup {x}
<1>1. /\ Append(s, x) \in Seq(S) /\ Len(Append(s, x)) = Len(s) + 1 /\ Len(s) \in Nat
      /\ \A i \in 1..Len(s) : Append(s, x)[i] = s[i]
      /\ Append(s, x)[Len(s) + 1] = x
  OBVIOUS
<1>2. Range(Append(s, x)) = {Append(s, x)[i] : i \in 1..(Len(s) + 1)}
  BY <1>1, RangeIndexed
<1>3. Range(s) = {s[i] : i \in 1..Len(s)}
  BY RangeIndexed
<1> QED BY <1>1, <1>2, <1>3

LEMMA FirstsEmpty == ASSUME NEW M PROVE Firsts(<<>>, M) = {} /\ Range(<<>>) = {}
BY DEF Firsts, Range

LEMMA FirstsSingle ==
  ASSUME NEW x, NEW M
  PROVE  Firsts(<<x>>, M) = {x} \cap M
<1>1. Len(<<x>>) = 1 /\ <<x>>[1] = x /\ 1..1 = {1} /\ 1..0 = {}
  OBVIOUS
<1> QED BY <1>1 DEF Firsts

LEMMA FirstsAppend ==
  ASSUME NEW S, NEW s \in Seq(S), NEW x \in S, NEW M
  PROVE  Firsts(Append(s, x), M) = IF Firsts(s, M) = {} THEN {x} \cap M ELSE Firsts(s, M)
<1>1. Append(s, x) = s \o <<x>> /\ <<x>> \in Seq(S)
  BY AppendIsConcat
<1>2. Firsts(s \o <<x>>, M) = IF Firsts(s, M) = {} THEN Firsts(<<x>>, M) ELSE Firsts(s, M)
  BY <1>1, FirstsConcat
<1> QED BY <1>1, <1>2, FirstsSingle

\* The part of a sequence up to a place, and what one more element does.
LEMMA Prefix ==
  ASSUME NEW S, NEW s \in Seq(S), NEW i \in 1..Len(s)
  PROVE  /\ SubSeq(s, 1, i - 1) \in Seq(S) /\ s[i] \in S
         /\ SubSeq(s, 1, i) = Append(SubSeq(s, 1, i - 1), s[i])
<1>1. Len(s) \in Nat /\ s[i] \in S /\ \A j \in 1..i : s[j] \in S
  OBVIOUS
<1>2. SubSeq(s, 1, i - 1) \in Seq(S) /\ Len(SubSeq(s, 1, i - 1)) = i - 1
  BY <1>1, SubSeqProperties
<1>3. SubSeq(s, 1, i) \in Seq(S) /\ Len(SubSeq(s, 1, i)) = i
  BY <1>1, SubSeqProperties
<1>4. \A j \in 1..(i - 1) : SubSeq(s, 1, i - 1)[j] = s[j]
  BY <1>1
<1>5. \A j \in 1..i : SubSeq(s, 1, i)[j] = s[j]
  BY <1>1
<1> QED BY <1>1, <1>2, <1>3, <1>4, <1>5

\* Unique keeps the elements and, for every set, the first one in it.
LEMMA UniqueKeeps ==
  ASSUME NEW S, NEW s \in Seq(S), NEW M
  PROVE  /\ Unique(s) \in Seq(S)
         /\ Range(Unique(s)) = Range(s)
         /\ Firsts(Unique(s), M) = Firsts(s, M)
<1> DEFINE n == Len(s)
           Before(i) == SubSeq(s, 1, i)
<1>1. PICK kept \in [0..n -> Seq(S)] :
            /\ kept[0] = <<>> /\ Unique(s) = kept[n]
            /\ \A i \in 1..n : kept[i] = IF s[i] \in Range(kept[i - 1]) THEN kept[i - 1]
                                         ELSE Append(kept[i - 1], s[i])
  BY UniqueBuilt
<1>2. n \in Nat /\ Before(0) = <<>> /\ Before(n) = s
  BY SubSeqFull, SubSeqEmpty
<1>3. \A i \in 1..n : Before(i - 1) \in Seq(S) /\ s[i] \in S /\ Before(i) = Append(Before(i - 1), s[i])
  BY Prefix
<1>4. \A i \in 1..n : i - 1 \in 0..n /\ i \in 0..n /\ kept[i - 1] \in Seq(S)
  <2> HIDE DEF n
  <2> QED BY <1>1, <1>2
<1> HIDE DEF n, Before
<1> DEFINE f == [i \in 0..n |-> <<Range(kept[i]), Firsts(kept[i], M)>>]
           g == [i \in 0..n |-> <<Range(Before(i)), Firsts(Before(i), M)>>]
<1>5. f[0] = g[0]
  BY <1>1, <1>2
<1>6. ASSUME NEW i \in 1..n, f[i - 1] = g[i - 1] PROVE f[i] = g[i]
  <2>1. PICK k \in Seq(S), b \in Seq(S), x \in S : k = kept[i - 1] /\ b = Before(i - 1) /\ x = s[i]
    BY <1>3, <1>4
  <2>2. Range(k) = Range(b) /\ Firsts(k, M) = Firsts(b, M)
    BY <1>4, <1>6, <2>1
  <2>3. /\ Range(Append(b, x)) = Range(b) \cup {x}
        /\ Firsts(Append(b, x), M) = IF Firsts(b, M) = {} THEN {x} \cap M ELSE Firsts(b, M)
    <3>1. Range(Append(b, x)) = Range(b) \cup {x}
      BY RangeAppend
    <3>2. Firsts(Append(b, x), M) = IF Firsts(b, M) = {} THEN {x} \cap M ELSE Firsts(b, M)
      BY FirstsAppend
    <3> QED BY <3>1, <3>2
  <2>4. /\ Range(Append(k, x)) = Range(k) \cup {x}
        /\ Firsts(Append(k, x), M) = IF Firsts(k, M) = {} THEN {x} \cap M ELSE Firsts(k, M)
    <3>1. Range(Append(k, x)) = Range(k) \cup {x}
      BY RangeAppend
    <3>2. Firsts(Append(k, x), M) = IF Firsts(k, M) = {} THEN {x} \cap M ELSE Firsts(k, M)
      BY FirstsAppend
    <3> QED BY <3>1, <3>2
  <2>5. x \in Range(b) /\ Firsts(b, M) = {} => x \notin M
    <3>1. Range(b) = {b[j] : j \in 1..Len(b)}
      BY RangeIndexed
    <3>2. Firsts(b, M) = {} <=> \A j \in 1..Len(b) : b[j] \notin M
      BY FirstsOne
    <3> QED BY <3>1, <3>2
  <2>6. kept[i] = IF x \in Range(k) THEN k ELSE Append(k, x)
    BY <1>1, <2>1
  <2>7. Before(i) = Append(b, x)
    BY <1>3, <2>1
  <2>8. Range(kept[i]) = Range(Before(i)) /\ Firsts(kept[i], M) = Firsts(Before(i), M)
    BY <2>2, <2>3, <2>4, <2>5, <2>6, <2>7
  <2> QED BY <1>4, <2>8
<1>7. f[n] = g[n]
  <2>1. n \in 0..n
    BY <1>2
  <2>2. InStep(f, g, n)
    BY <1>6 DEF InStep
  <2> HIDE DEF f, g
  <2> QED BY <1>2, <1>5, <2>1, <2>2, Agree
<1>8. n \in 0..n /\ kept[n] \in Seq(S)
  BY <1>1, <1>2
<1>9. Range(kept[n]) = Range(Before(n)) /\ Firsts(kept[n], M) = Firsts(Before(n), M)
  BY <1>7, <1>8
<1> QED BY <1>1, <1>2, <1>8, <1>9

-----------------------------------------------------------------------------
(* Sequences of sequences. *)

LEMMA AgreeAtEnd ==
  ASSUME NEW n \in Nat, NEW f, NEW g, f[0] = g[0], InStep(f, g, n)
  PROVE  f[n] = g[n]
<1>1. n \in 0..n
  OBVIOUS
<1> QED BY <1>1, Agree

\* What FlattenSeq builds, sequence by sequence.
Joins(f, ss) == f[0] = <<>> /\ \A i \in 1..Len(ss) : f[i] = f[i - 1] \o ss[i]
LEMMA Flattened ==
  ASSUME NEW S, NEW ss \in Seq(Seq(S))
  PROVE  \E f \in [0..Len(ss) -> Seq(S)] : Joins(f, ss) /\ FlattenSeq(ss) = f[Len(ss)]
<1> DEFINE n == Len(ss)
           step == [p \in Seq(S) \X (1..n) |-> p[1] \o ss[p[2]]]
<1>1. n \in Nat /\ \A i \in 1..n : ss[i] \in Seq(S)
  OBVIOUS
<1> HIDE DEF n
<1>2. step \in [Seq(S) \X (1..n) -> Seq(S)]
  <2> SUFFICES ASSUME NEW p \in Seq(S) \X (1..n) PROVE p[1] \o ss[p[2]] \in Seq(S)
    OBVIOUS
  <2>1. p[1] \in Seq(S) /\ ss[p[2]] \in Seq(S)
    BY <1>1
  <2> QED BY <2>1, ConcatProperties
<1>3. PICK f \in [0..n -> Seq(S)] : Defines(f, n, <<>>, step)
  <2> HIDE DEF step
  <2>1. <<>> \in Seq(S)
    OBVIOUS
  <2> QED BY <1>1, <1>2, <2>1, Recursion
<1>4. \A i \in 1..n : f[i - 1] \in Seq(S) /\ f[i] = f[i - 1] \o ss[i]
  <2> SUFFICES ASSUME NEW i \in 1..n PROVE f[i - 1] \in Seq(S) /\ f[i] = f[i - 1] \o ss[i]
    OBVIOUS
  <2>1. f[i - 1] \in Seq(S)
    BY <1>1, <1>3
  <2>2. <<f[i - 1], i>> \in Seq(S) \X (1..n)
    BY <2>1
  <2> QED BY <1>3, <2>1, <2>2 DEF Defines
<1>5. f[0] = <<>>
  BY <1>3 DEF Defines
<1> HIDE DEF step
<1>6. Joins(f, ss)
  BY <1>4, <1>5 DEF Joins, n
<1>7. CASE n = 0
  <2>1. ss = <<>> /\ FlattenSeq(ss) = ss
    BY <1>7 DEF n, FlattenSeq
  <2> QED BY <1>3, <1>5, <1>6, <1>7, <2>1 DEF n
<1>8. CASE n # 0
  <2> DEFINE Body(g) == [i \in 1..n |-> IF i = 1 THEN ss[i] ELSE g[i - 1] \o ss[i]]
             h == [i \in 1..n |-> f[i]]
  <2>1. ASSUME NEW i \in 1..n PROVE h[i] = Body(h)[i]
    <3>1. CASE i = 1
      <4>1. 1 \in 1..n /\ 1 - 1 = 0
        BY <1>1, <3>1
      <4>2. f[1] = <<>> \o ss[1] /\ ss[1] \in Seq(S)
        BY <1>1, <1>4, <1>5, <4>1
      <4>3. f[1] = ss[1]
        BY <4>2, ConcatEmptySeq
      <4> QED BY <3>1, <4>1, <4>3
    <3>2. CASE i # 1
      <4>1. i - 1 \in 1..n
        BY <1>1, <3>2
      <4>2. h[i - 1] = f[i - 1]
        BY <4>1
      <4> HIDE DEF h
      <4> QED BY <1>4, <3>2, <4>2 DEF h
    <3> QED BY <3>1, <3>2
  <2>2. h = Body(h)
    BY <2>1
  <2>3. PICK g : g = Body(g) /\ FlattenSeq(ss) = g[n]
    BY <1>8, <2>2 DEF FlattenSeq, n
  <2> HIDE DEF h
  <2>4. ASSUME NEW i \in 1..n PROVE g[i] = IF i = 1 THEN ss[i] ELSE g[i - 1] \o ss[i]
    BY <2>3
  <2> HIDE DEF Body
  <2> DEFINE e == [i \in 0..n |-> IF i = 0 THEN <<>> ELSE g[i]]
  <2>5. ASSUME NEW i \in 1..n, e[i - 1] = f[i - 1] PROVE e[i] = f[i]
    <3>1. CASE i = 1
      <4>1. 1 \in 1..n /\ 1 - 1 = 0 /\ 1 \in 0..n /\ e[1] = g[1]
        BY <1>1, <3>1
      <4>2. f[1] = <<>> \o ss[1] /\ ss[1] \in Seq(S) /\ g[1] = ss[1]
        BY <1>1, <1>4, <1>5, <2>4, <4>1
      <4>3. f[1] = ss[1]
        BY <4>2, ConcatEmptySeq
      <4> QED BY <3>1, <4>1, <4>2, <4>3
    <3>2. CASE i # 1
      <4>1. i - 1 \in 1..n /\ e[i - 1] = g[i - 1] /\ e[i] = g[i]
        BY <1>1, <3>2
      <4>2. g[i] = g[i - 1] \o ss[i]
        BY <2>4, <3>2
      <4>3. f[i] = f[i - 1] \o ss[i]
        BY <1>4
      <4> HIDE DEF e
      <4> QED BY <2>5, <4>1, <4>2, <4>3
    <3> QED BY <3>1, <3>2
  <2>6. e[0] = f[0] /\ n \in 0..n /\ e[n] = g[n]
    BY <1>1, <1>5, <1>8
  <2>7. InStep(e, f, n)
    BY <2>5 DEF InStep
  <2> HIDE DEF e
  <2>8. e[n] = f[n]
    BY <1>1, <2>6, <2>7, Agree
  <2> QED BY <1>3, <1>6, <2>3, <2>6, <2>8 DEF n
<1> QED BY <1>7, <1>8

LEMMA FlattenIs ==
  ASSUME NEW S, NEW ss \in Seq(Seq(S))
  PROVE  FlattenSeq(ss) \in Seq(S)
<1>1. Len(ss) \in Nat /\ Len(ss) \in 0..Len(ss)
  OBVIOUS
<1>2. PICK f \in [0..Len(ss) -> Seq(S)] : FlattenSeq(ss) = f[Len(ss)]
  BY Flattened
<1> QED BY <1>1, <1>2

LEMMA FlattenEmpty == FlattenSeq(<<>>) = <<>>
BY DEF FlattenSeq

\* Three members put together, in either order.
Associative(X) == \A a, b, c \in X : (a \o b) \o c = a \o (b \o c)

LEMMA SeqAssociative ==
  ASSUME NEW S
  PROVE  Associative(Seq(S))
<1> SUFFICES ASSUME NEW a \in Seq(S), NEW b \in Seq(S), NEW c \in Seq(S)
             PROVE  (a \o b) \o c = a \o (b \o c)
  BY DEF Associative
<1> QED BY ConcatAssociative

LEMMA FlattenAppend ==
  ASSUME NEW S, NEW ss \in Seq(Seq(S)), NEW s \in Seq(S)
  PROVE  FlattenSeq(Append(ss, s)) = FlattenSeq(ss) \o s
<1> DEFINE tt == Append(ss, s)
           n == Len(ss)
<1>1. /\ tt \in Seq(Seq(S)) /\ Len(tt) = n + 1 /\ n \in Nat
      /\ tt[n + 1] = s /\ \A i \in 1..n : tt[i] = ss[i]
  OBVIOUS
<1>2. PICK f \in [0..n -> Seq(S)] : Joins(f, ss) /\ FlattenSeq(ss) = f[n]
  BY Flattened
<1> HIDE DEF tt, n
<1>3. PICK g \in [0..Len(tt) -> Seq(S)] : Joins(g, tt) /\ FlattenSeq(tt) = g[Len(tt)]
  BY <1>1, Flattened
<1>4. \A i \in 1..n : g[i] = g[i - 1] \o ss[i] /\ f[i] = f[i - 1] \o ss[i]
  <2> SUFFICES ASSUME NEW i \in 1..n
               PROVE  g[i] = g[i - 1] \o ss[i] /\ f[i] = f[i - 1] \o ss[i]
    OBVIOUS
  <2>1. i \in 1..Len(tt) /\ tt[i] = ss[i]
    BY <1>1
  <2> QED BY <1>2, <1>3, <2>1 DEF Joins, n
<1>5. InStep(g, f, n) /\ g[0] = f[0]
  BY <1>2, <1>3, <1>4 DEF InStep, Joins
<1>6. g[n] = f[n]
  BY <1>1, <1>5, AgreeAtEnd
<1>7. g[n + 1] = g[n] \o s
  <2>1. n + 1 \in 1..Len(tt) /\ (n + 1) - 1 = n
    BY <1>1
  <2> QED BY <1>1, <1>3, <2>1 DEF Joins
<1> QED BY <1>1, <1>2, <1>3, <1>6, <1>7 DEF tt

LEMMA FlattenCons ==
  ASSUME NEW S, NEW ss \in Seq(Seq(S)), NEW s \in Seq(S)
  PROVE  FlattenSeq(<<s>> \o ss) = s \o FlattenSeq(ss)
<1> DEFINE tt == <<s>> \o ss
           n == Len(ss)
<1>1. /\ tt \in Seq(Seq(S)) /\ Len(tt) = n + 1 /\ n \in Nat
      /\ tt[1] = s /\ \A i \in 1..n : tt[i + 1] = ss[i]
  OBVIOUS
<1>2. PICK f \in [0..n -> Seq(S)] : Joins(f, ss) /\ FlattenSeq(ss) = f[n]
  BY Flattened
<1> HIDE DEF tt, n
<1>3. PICK g \in [0..Len(tt) -> Seq(S)] : Joins(g, tt) /\ FlattenSeq(tt) = g[Len(tt)]
  BY <1>1, Flattened
<1> DEFINE d == [i \in 0..n |-> g[i + 1]]
           e == [i \in 0..n |-> s \o f[i]]
<1>4. d[0] = e[0]
  <2>1. 1 \in 1..Len(tt) /\ 1 - 1 = 0 /\ 0 \in 0..n /\ 0 + 1 = 1
    BY <1>1
  <2>2. g[1] = g[0] \o tt[1] /\ g[0] = <<>> /\ f[0] = <<>>
    BY <1>2, <1>3, <2>1 DEF Joins
  <2>3. <<>> \o s = s /\ s \o <<>> = s
    BY ConcatEmptySeq
  <2>4. d[0] = g[1] /\ e[0] = s \o f[0]
    BY <2>1
  <2> HIDE DEF d, e
  <2> QED BY <1>1, <2>2, <2>3, <2>4
<1>5. ASSUME NEW i \in 1..n, d[i - 1] = e[i - 1] PROVE d[i] = e[i]
  <2>1. /\ i \in 0..n /\ i - 1 \in 0..n /\ i + 1 \in 1..Len(tt)
        /\ (i - 1) + 1 = i /\ (i + 1) - 1 = i
    BY <1>1
  <2>2. g[i + 1] = g[i] \o ss[i] /\ f[i] = f[i - 1] \o ss[i]
    BY <1>1, <1>2, <1>3, <2>1 DEF Joins, n
  <2>3. d[i] = g[i + 1] /\ e[i] = s \o f[i] /\ d[i - 1] = g[i] /\ e[i - 1] = s \o f[i - 1]
    BY <2>1
  <2>4. f[i - 1] \in Seq(S) /\ ss[i] \in Seq(S)
    <3>1. ss[i] \in Seq(S)
      BY DEF n
    <3> QED BY <1>2, <2>1, <3>1
  <2>5. PICK a \in Seq(S), b \in Seq(S) : a = f[i - 1] /\ b = ss[i]
    BY <2>4
  <2> HIDE DEF d, e
  <2>6. (s \o a) \o b = s \o (a \o b)
    <3>1. Associative(Seq(S))
      BY SeqAssociative
    <3> QED BY <3>1, Zenon DEF Associative
  <2> QED BY <1>5, <2>2, <2>3, <2>5, <2>6
<1>6. InStep(d, e, n)
  BY <1>5 DEF InStep
<1>7. n \in 0..n /\ d[n] = g[n + 1] /\ e[n] = s \o f[n]
  <2>1. n \in 0..n
    BY <1>1
  <2> HIDE DEF n
  <2> QED BY <2>1
<1> HIDE DEF d, e
<1>8. d[n] = e[n]
  BY <1>1, <1>4, <1>6, AgreeAtEnd
<1> QED BY <1>1, <1>2, <1>3, <1>7, <1>8 DEF tt

LEMMA FlattenRange ==
  ASSUME NEW S, NEW ss \in Seq(Seq(S))
  PROVE  Range(FlattenSeq(ss)) = UNION {Range(ss[i]) : i \in 1..Len(ss)}
<1> DEFINE n == Len(ss)
<1>1. n \in Nat /\ \A i \in 1..n : ss[i] \in Seq(S)
  OBVIOUS
<1>2. PICK f \in [0..n -> Seq(S)] : Joins(f, ss) /\ FlattenSeq(ss) = f[n]
  BY Flattened
<1>0. \A i \in 1..n : f[i] = f[i - 1] \o ss[i]
  BY <1>2 DEF Joins
<1> HIDE DEF n
<1> DEFINE d == [i \in 0..n |-> Range(f[i])]
           e == [i \in 0..n |-> UNION {Range(ss[j]) : j \in 1..i}]
<1>3. d[0] = e[0]
  <2>1. f[0] = <<>> /\ 1..0 = {}
    BY <1>2 DEF Joins
  <2> QED BY <1>1, <2>1, FirstsEmpty
<1>4. ASSUME NEW i \in 1..n, d[i - 1] = e[i - 1] PROVE d[i] = e[i]
  <2>1. i \in 0..n /\ i - 1 \in 0..n /\ f[i - 1] \in Seq(S) /\ ss[i] \in Seq(S)
    BY <1>1, <1>2
  <2>2. Range(f[i]) = Range(f[i - 1]) \cup Range(ss[i])
    <3>1. PICK a \in Seq(S), b \in Seq(S) : a = f[i - 1] /\ b = ss[i]
      BY <2>1
    <3>2. Range(a \o b) = Range(a) \cup Range(b)
      BY RangeConcatenation
    <3> QED BY <1>0, <3>1, <3>2
  <2>3. 1..i = (1..(i - 1)) \cup {i}
    BY <2>1
  <2>4. e[i] = e[i - 1] \cup Range(ss[i])
    BY <2>1, <2>3
  <2>5. d[i] = Range(f[i]) /\ d[i - 1] = Range(f[i - 1])
    BY <2>1
  <2> HIDE DEF d, e
  <2> QED BY <1>4, <2>2, <2>4, <2>5
<1>5. InStep(d, e, n)
  BY <1>4 DEF InStep
<1>6. n \in 0..n /\ d[n] = Range(f[n]) /\ e[n] = UNION {Range(ss[j]) : j \in 1..n}
  BY <1>1
<1> HIDE DEF d, e
<1>7. d[n] = e[n]
  BY <1>1, <1>3, <1>5, AgreeAtEnd
<1> QED BY <1>2, <1>6, <1>7 DEF n

-----------------------------------------------------------------------------
(* Induction over sequences, and lists made of what each element becomes. *)

\* A set that holds the empty sequence and the extensions of its members is all of Seq(S).
LEMMA SeqInduction ==
  ASSUME NEW S, NEW T \in SUBSET Seq(S), <<>> \in T,
         \A s \in T, x \in S : Append(s, x) \in T
  PROVE  T = Seq(S)
<1> DEFINE N == {n \in Nat : \A s \in Seq(S) : Len(s) = n => s \in T}
<1>1. 0 \in N
  <2> SUFFICES ASSUME NEW s \in Seq(S), Len(s) = 0 PROVE s \in T
    OBVIOUS
  <2>1. s = <<>>
    BY EmptySeq
  <2> QED BY <2>1
<1>2. ASSUME NEW n \in N PROVE n + 1 \in N
  <2> SUFFICES ASSUME NEW s \in Seq(S), Len(s) = n + 1 PROVE s \in T
    OBVIOUS
  <2>1. n \in Nat /\ s # <<>>
    BY EmptySeq
  <2>2. PICK front \in Seq(S), x \in S : s = Append(front, x)
    BY <2>1, SequenceEmptyOrAppend
  <2>3. Len(front) = n
    BY <2>1, <2>2, AppendProperties, LenProperties
  <2>4. front \in T
    BY <2>3
  <2> QED BY <2>2, <2>4
<1>3. N = Nat
  BY <1>1, <1>2, Inductive
<1>4. \A s \in Seq(S) : Len(s) \in N
  BY <1>3, LenProperties
<1> QED BY <1>4

\* What every element of s becomes under f, put together.
Chained(f, s) == FlattenSeq([i \in DOMAIN s |-> f[s[i]]])
Makes(f, S, V) == f \in [S -> Seq(V)]

LEMMA ChainedEmpty == ASSUME NEW f PROVE Chained(f, <<>>) = <<>>
<1>1. [i \in DOMAIN <<>> |-> f[<<>>[i]]] = <<>>
  OBVIOUS
<1> QED BY <1>1, FlattenEmpty DEF Chained

LEMMA ChainedAppend ==
  ASSUME NEW S, NEW V, NEW f, Makes(f, S, V), NEW s \in Seq(S), NEW x \in S
  PROVE  /\ Chained(f, s) \in Seq(V)
         /\ Chained(f, Append(s, x)) = Chained(f, s) \o f[x]
<1> DEFINE m == [i \in DOMAIN s |-> f[s[i]]]
           n == [i \in DOMAIN Append(s, x) |-> f[Append(s, x)[i]]]
<1>1. m \in Seq(Seq(V)) /\ f[x] \in Seq(V)
  BY DEF Makes
<1>2. n = Append(m, f[x])
  OBVIOUS
<1> HIDE DEF m, n
<1>3. FlattenSeq(n) = FlattenSeq(m) \o f[x] /\ FlattenSeq(m) \in Seq(V)
  BY <1>1, <1>2, FlattenAppend, FlattenIs
<1> QED BY <1>3 DEF Chained, m, n

\* The elements are those that the elements become.
LEMMA ChainedRange ==
  ASSUME NEW S, NEW V, NEW f, Makes(f, S, V), NEW s \in Seq(S)
  PROVE  Range(Chained(f, s)) = UNION {Range(f[x]) : x \in Range(s)}
<1> DEFINE m == [i \in DOMAIN s |-> f[s[i]]]
<1>1. m \in Seq(Seq(V)) /\ Len(m) = Len(s) /\ \A i \in 1..Len(s) : m[i] = f[s[i]]
  BY DEF Makes
<1> HIDE DEF m
<1>2. Range(FlattenSeq(m)) = UNION {Range(m[i]) : i \in 1..Len(m)}
  BY <1>1, FlattenRange
<1>3. Range(s) = {s[i] : i \in 1..Len(s)}
  BY RangeIndexed
<1> QED BY <1>1, <1>2, <1>3 DEF Chained, m

\* One element: itself.
LEMMA ChainedSingle ==
  ASSUME NEW S, NEW V, NEW f, Makes(f, S, V), NEW x \in S
  PROVE  Chained(f, <<x>>) = f[x]
<1>1. <<>> \in Seq(S) /\ Append(<<>>, x) = <<x>> /\ f[x] \in Seq(V)
  BY DEF Makes
<1>2. \A s \in Seq(S) : Chained(f, Append(s, x)) = Chained(f, s) \o f[x]
  BY ChainedAppend
<1>3. Chained(f, <<x>>) = <<>> \o f[x]
  BY <1>1, <1>2, ChainedEmpty
<1> QED BY <1>1, <1>3, ConcatEmptySeq

LEMMA ChainedIs ==
  ASSUME NEW S, NEW V, NEW f, Makes(f, S, V), NEW s \in Seq(S)
  PROVE  Chained(f, s) \in Seq(V)
<1> DEFINE m == [i \in DOMAIN s |-> f[s[i]]]
<1>1. m \in Seq(Seq(V)) /\ Len(m) = Len(s) /\ \A i \in 1..Len(s) : m[i] = f[s[i]]
  BY DEF Makes
<1> HIDE DEF m
<1>2. FlattenSeq(m) \in Seq(V)
  BY <1>1, FlattenIs
<1> QED BY <1>2 DEF Chained, m

\* Two lists, one after the other.
LEMMA ChainedConcat ==
  ASSUME NEW S, NEW V, NEW f, Makes(f, S, V), NEW s \in Seq(S), NEW t \in Seq(S)
  PROVE  Chained(f, s \o t) = Chained(f, s) \o Chained(f, t)
<1> DEFINE T == {u \in Seq(S) : Chained(f, s \o u) = Chained(f, s) \o Chained(f, u)}
<1>0. \A u \in Seq(S) : Chained(f, u) \in Seq(V)
  BY ChainedIs
<1>1. <<>> \in T
  <2>1. s \o <<>> = s /\ Chained(f, s) \o <<>> = Chained(f, s)
    BY <1>0, ConcatEmptySeq
  <2> QED BY <2>1, ChainedEmpty, EmptySeq
<1>2. ASSUME NEW u \in T, NEW x \in S PROVE Append(u, x) \in T
  <2>1. s \o Append(u, x) = Append(s \o u, x) /\ s \o u \in Seq(S) /\ Append(u, x) \in Seq(S)
    OBVIOUS
  <2>0. \A v \in Seq(S) : Chained(f, Append(v, x)) = Chained(f, v) \o f[x]
    BY ChainedAppend
  <2>2. /\ Chained(f, Append(s \o u, x)) = Chained(f, s \o u) \o f[x]
        /\ Chained(f, Append(u, x)) = Chained(f, u) \o f[x]
    BY <2>0, <2>1
  <2>3. (Chained(f, s) \o Chained(f, u)) \o f[x] = Chained(f, s) \o (Chained(f, u) \o f[x])
    <3>1. Chained(f, s) \in Seq(V) /\ Chained(f, u) \in Seq(V) /\ f[x] \in Seq(V)
      BY <1>0 DEF Makes
    <3>2. Associative(Seq(V))
      BY SeqAssociative
    <3> QED BY <3>1, <3>2 DEF Associative
  <2> QED BY <2>1, <2>2, <2>3
<1>3. T = Seq(S)
  <2> HIDE DEF T
  <2>1. T \in SUBSET Seq(S)
    BY DEF T
  <2> QED BY <1>1, <1>2, <2>1, SeqInduction
<1> QED BY <1>3

\* Where every element becomes itself, so does the list.
LEMMA ChainedSame ==
  ASSUME NEW S, NEW f, Makes(f, S, S), NEW s \in Seq(S),
         \A x \in Range(s) : f[x] = <<x>>
  PROVE  Chained(f, s) = s
<1> DEFINE T == {u \in Seq(S) : (\A x \in Range(u) : f[x] = <<x>>) => Chained(f, u) = u}
<1>1. <<>> \in T
  BY ChainedEmpty, EmptySeq
<1>2. ASSUME NEW u \in T, NEW x \in S PROVE Append(u, x) \in T
  <2> SUFFICES ASSUME \A y \in Range(Append(u, x)) : f[y] = <<y>>
               PROVE  Chained(f, Append(u, x)) = Append(u, x)
    OBVIOUS
  <2>1. Range(Append(u, x)) = Range(u) \cup {x}
    BY RangeAppend
  <2>2. \A v \in Seq(S) : Chained(f, Append(v, x)) = Chained(f, v) \o f[x]
    BY ChainedAppend
  <2>3. Chained(f, Append(u, x)) = u \o <<x>>
    BY <2>1, <2>2
  <2> QED BY <2>3, AppendIsConcat
<1>3. T = Seq(S)
  <2> HIDE DEF T
  <2>1. T \in SUBSET Seq(S)
    BY DEF T
  <2> QED BY <1>1, <1>2, <2>1, SeqInduction
<1> QED BY <1>3

\* Only an empty list has an empty range.
LEMMA EmptyRange ==
  ASSUME NEW S, NEW s \in Seq(S)
  PROVE  s = <<>> <=> Range(s) = {}
<1>1. s # <<>> => s[1] \in Range(s)
  BY RangeIndexed, EmptySeq
<1> QED BY <1>1, FirstsEmpty

-----------------------------------------------------------------------------
(* The joins of decisions. *)

\* The strictest of some decisions is the first of Deny, Ask and Allow among them.
LEMMA StrictestIs ==
  ASSUME NEW D \in SUBSET Decisions
  PROVE  Strictest(D) = IF "Deny" \in D THEN "Deny" ELSE IF "Ask" \in D THEN "Ask"
                        ELSE IF "Allow" \in D THEN "Allow" ELSE "NoOpinion"
<1> DEFINE Above(d) == \A e \in D : Strictness[e] <= Strictness[d]
<1>1. /\ Strictness["Deny"] = 3 /\ Strictness["Ask"] = 2
      /\ Strictness["Allow"] = 1 /\ Strictness["NoOpinion"] = 0
  BY DEF Strictness
<1>2. D \subseteq {"Deny", "Ask", "Allow", "NoOpinion"}
  BY DEF Decisions, Lists
<1>3. \A d \in D : Above(d) =>
          d = IF "Deny" \in D THEN "Deny" ELSE IF "Ask" \in D THEN "Ask"
              ELSE IF "Allow" \in D THEN "Allow" ELSE "NoOpinion"
  BY <1>1, <1>2
<1>4. D # {} => \E d \in D : Above(d)
  <2>1. "Deny" \in D => Above("Deny")
    BY <1>1, <1>2
  <2>2. "Deny" \notin D /\ "Ask" \in D => Above("Ask")
    BY <1>1, <1>2
  <2>3. "Deny" \notin D /\ "Ask" \notin D /\ "Allow" \in D => Above("Allow")
    BY <1>1, <1>2
  <2>4. D = {"NoOpinion"} => Above("NoOpinion")
    BY <1>1
  <2> HIDE DEF Above
  <2> QED BY <1>2, <2>1, <2>2, <2>3, <2>4
<1>5. CASE D = {}
  BY <1>5 DEF Strictest
<1>6. CASE D # {}
  <2>1. Strictest(D) = CHOOSE d \in D : Above(d)
    BY <1>6 DEF Strictest
  <2> HIDE DEF Above
  <2>2. Strictest(D) \in D /\ Above(Strictest(D))
    BY <1>4, <1>6, <2>1
  <2> QED BY <1>3, <2>2
<1> QED BY <1>5, <1>6

LEMMA AggregateIs ==
  ASSUME NEW D \in SUBSET Decisions
  PROVE  /\ Aggregate(D) \in Decisions
         /\ Aggregate(D) = "Deny" <=> "Deny" \in D
         /\ Aggregate(D) = "Allow" <=> D = {"Allow"}
         /\ Aggregate(D) = "NoOpinion" <=> D \subseteq {"NoOpinion"}
<1>1. D \subseteq {"Deny", "Ask", "Allow", "NoOpinion"}
  BY DEF Decisions, Lists
<1>2. Aggregate(D) = IF "Deny" \in D THEN "Deny" ELSE IF "Ask" \in D THEN "Ask"
                     ELSE IF "Allow" \in D
                          THEN IF "NoOpinion" \in D THEN "Ask" ELSE "Allow"
                          ELSE "NoOpinion"
  BY StrictestIs DEF Aggregate
<1> QED BY <1>1, <1>2 DEF Decisions, Lists

LEMMA StrictestIn ==
  ASSUME NEW D \in SUBSET Decisions
  PROVE  Strictest(D) \in Decisions
BY StrictestIs DEF Decisions, Lists

LEMMA ReverseIs ==
  ASSUME NEW S, NEW s \in Seq(S)
  PROVE  /\ Reverse(s) \in Seq(S) /\ Len(Reverse(s)) = Len(s)
         /\ \A i \in 1..Len(s) : Reverse(s)[i] = s[(Len(s) - i) + 1]
<1>1. Len(s) \in Nat /\ \A i \in 1..Len(s) : s[i] \in S /\ (Len(s) - i) + 1 \in 1..Len(s)
  OBVIOUS
<1> QED BY <1>1 DEF Reverse

-----------------------------------------------------------------------------
(* The first rule that applies, and merged rule lists. *)

LEMMA FirstOfIs ==
  ASSUME NEW S, NEW s \in Seq(S), NEW M, NEW default
  PROVE  /\ Firsts(s, M) = {} => FirstOf(s, M, default) = default
         /\ \A x \in Firsts(s, M) : FirstOf(s, M, default) = x
<1> DEFINE I == {i \in 1..Len(s) : s[i] \in M}
           m == CHOOSE i \in I : \A j \in I : i <= j
<1>1. FirstOf(s, M, default) = IF I = {} THEN default ELSE IF m = 0 THEN default ELSE s[m]
  BY DEF FirstOf, SelectInSeq, Min
<1>2. I \in SUBSET Nat /\ Len(s) \in Nat
  OBVIOUS
<1>3. I = {} <=> Firsts(s, M) = {}
  <2>1. Firsts(s, M) = {} <=> \A i \in 1..Len(s) : s[i] \notin M
    BY FirstsOne
  <2> QED BY <2>1
<1>4. ASSUME I # {} PROVE m # 0 /\ s[m] \in Firsts(s, M)
  <2>1. m \in I /\ \A j \in I : m <= j
    <3> HIDE DEF I
    <3> QED BY <1>2, <1>4, Least
  <2> HIDE DEF m
  <2>2. m \in 1..Len(s) /\ s[m] \in M
    BY <2>1
  <2>3. \A k \in 1..(m - 1) : k \in 1..Len(s) /\ ~(m <= k)
    BY <1>2, <2>2
  <2>4. \A k \in 1..(m - 1) : s[k] \notin M
    BY <2>1, <2>3
  <2> QED BY <2>2, <2>4 DEF Firsts
<1>5. \A x, y \in Firsts(s, M) : x = y
  BY FirstsOne
<1> HIDE DEF I, m
<1> QED BY <1>1, <1>3, <1>4, <1>5

\* It applies and is there, or nothing there applies.
LEMMA FirstOfIn ==
  ASSUME NEW S, NEW s \in Seq(S), NEW M, NEW default
  PROVE  \/ /\ FirstOf(s, M, default) \in M \cap Range(s)
            /\ Firsts(s, M) = {FirstOf(s, M, default)}
         \/ /\ FirstOf(s, M, default) = default
            /\ Firsts(s, M) = {} /\ M \cap Range(s) = {}
<1>1. Range(s) = {s[i] : i \in 1..Len(s)}
  BY RangeIndexed
<1>2. /\ Firsts(s, M) \subseteq M
      /\ \A x, y \in Firsts(s, M) : x = y
      /\ Firsts(s, M) = {} <=> \A i \in 1..Len(s) : s[i] \notin M
  BY FirstsOne
<1>3. Firsts(s, M) \subseteq Range(s)
  BY <1>1 DEF Firsts
<1>4. PICK f : f = FirstOf(s, M, default)
  OBVIOUS
<1>5. /\ Firsts(s, M) = {} => f = default
      /\ \A x \in Firsts(s, M) : f = x
  BY <1>4, FirstOfIs
<1>6. CASE Firsts(s, M) = {}
  BY <1>1, <1>2, <1>4, <1>5, <1>6
<1>7. CASE Firsts(s, M) # {}
  <2>1. PICK x \in Firsts(s, M) : TRUE
    BY <1>7
  <2>2. f = x /\ Firsts(s, M) = {x}
    BY <1>2, <1>5, <2>1
  <2> QED BY <1>2, <1>3, <1>4, <2>1, <2>2
<1> QED BY <1>6, <1>7
-----------------------------------------------------------------------------
(* Merged rule lists. *)

RuleLists(S) == [Lists -> Seq(S)]
OnlyDeny(l) == l.Ask = <<>> /\ l.Allow = <<>>
Merges(S) == [Deny : Seq(S), precedence : Seq({"Ask", "Allow"} \X S)]

LEMMA AllRulesIs ==
  ASSUME NEW S, NEW p \in Merges(S)
  PROVE  /\ Tagged("Deny", p.Deny) \in Seq(Lists \X S) /\ p.precedence \in Seq(Lists \X S)
         /\ AllRules(p) \in Seq(Lists \X S)
         /\ \A M : Firsts(AllRules(p), M) =
                IF Firsts(Tagged("Deny", p.Deny), M) = {} THEN Firsts(p.precedence, M)
                ELSE Firsts(Tagged("Deny", p.Deny), M)
         /\ Range(AllRules(p)) = {<<"Deny", x>> : x \in Range(p.Deny)} \cup Range(p.precedence)
<1>1. PICK d \in Seq(S), o \in Seq({"Ask", "Allow"} \X S) : d = p.Deny /\ o = p.precedence
  BY DEF Merges
<1>2. Tagged("Deny", d) \in Seq({"Deny"} \X S) /\ Len(Tagged("Deny", d)) = Len(d)
  BY FirstsTagged
<1>3. {"Deny"} \X S \subseteq Lists \X S /\ {"Ask", "Allow"} \X S \subseteq Lists \X S
  BY DEF Lists
<1>4. Tagged("Deny", d) \in Seq(Lists \X S) /\ o \in Seq(Lists \X S)
  BY <1>1, <1>2, <1>3, SeqMonotonic
<1>5. PICK t \in Seq(Lists \X S) : t = Tagged("Deny", d)
  BY <1>4
<1>6. AllRules(p) = t \o o /\ t \o o \in Seq(Lists \X S)
  BY <1>1, <1>4, <1>5, ConcatProperties DEF AllRules
<1>7. \A M : Firsts(t \o o, M) = IF Firsts(t, M) = {} THEN Firsts(o, M) ELSE Firsts(t, M)
  BY <1>4, FirstsConcat
<1>8. Range(t) = {<<"Deny", x>> : x \in Range(d)}
  <2>1. Len(t) = Len(d) /\ \A i \in 1..Len(d) : t[i] = <<"Deny", d[i]>>
    BY <1>2, <1>5 DEF Tagged
  <2>2. Range(t) = {t[i] : i \in 1..Len(t)} /\ Range(d) = {d[i] : i \in 1..Len(d)}
    BY RangeIndexed
  <2> QED BY <2>1, <2>2
<1>9. Range(t \o o) = Range(t) \cup Range(o)
  BY <1>4, RangeConcatenation
<1> QED BY <1>1, <1>4, <1>5, <1>6, <1>7, <1>8, <1>9

LEMMA NonDenyIs ==
  ASSUME NEW S, NEW l \in RuleLists(S)
  PROVE  /\ NonDeny(l) \in Seq({"Ask", "Allow"} \X S)
         /\ OnlyDeny(l) => NonDeny(l) = <<>>
<1>1. PICK a \in Seq(S), b \in Seq(S) : a = l.Ask /\ b = l.Allow
  BY DEF RuleLists, Lists
<1>2. Tagged("Ask", a) \in Seq({"Ask"} \X S) /\ Tagged("Allow", b) \in Seq({"Allow"} \X S)
  BY FirstsTagged
<1>3. {"Ask"} \X S \subseteq {"Ask", "Allow"} \X S /\ {"Allow"} \X S \subseteq {"Ask", "Allow"} \X S
  OBVIOUS
<1>4. Tagged("Ask", a) \in Seq({"Ask", "Allow"} \X S) /\ Tagged("Allow", b) \in Seq({"Ask", "Allow"} \X S)
  BY <1>2, <1>3, SeqMonotonic
<1>5. NonDeny(l) = Tagged("Ask", a) \o Tagged("Allow", b)
  BY <1>1 DEF NonDeny
<1>6. Tagged("Ask", <<>>) = <<>> /\ Tagged("Allow", <<>>) = <<>> /\ <<>> \o <<>> = <<>>
  BY DEF Tagged
<1>7. OnlyDeny(l) => NonDeny(l) = <<>>
  BY <1>1, <1>5, <1>6 DEF OnlyDeny
<1> QED BY <1>4, <1>5, <1>7, ConcatProperties

\* A merge with one more layer, and with one that has Deny rules only.
LEMMA MergedWithIs ==
  ASSUME NEW S, NEW p \in Merges(S), NEW l \in RuleLists(S)
  PROVE  /\ MergedWith(p, l) \in Merges(S)
         /\ OnlyDeny(l) =>
              /\ Range(MergedWith(p, l).precedence) = Range(p.precedence)
              /\ \A M : Firsts(MergedWith(p, l).precedence, M) = Firsts(p.precedence, M)
              /\ Range(MergedWith(p, l).Deny) = Range(p.Deny) \cup Range(l.Deny)
<1> DEFINE T == {"Ask", "Allow"} \X S
<1>1. PICK a \in Seq(S), b \in Seq(S), v \in Seq(T) : a = p.Deny /\ b = l.Deny /\ v = p.precedence
  BY DEF Merges, RuleLists, Lists
<1>2. PICK u \in Seq(T) : u = NonDeny(l)
  BY NonDenyIs
<1> HIDE DEF T
<1>3. PICK c \in Seq(S), w \in Seq(T) : c = a \o b /\ w = u \o v
  BY ConcatProperties
<1>4. Unique(c) \in Seq(S) /\ Range(Unique(c)) = Range(c)
  BY UniqueKeeps
<1>5. Unique(w) \in Seq(T) /\ Range(Unique(w)) = Range(w) /\ \A M : Firsts(Unique(w), M) = Firsts(w, M)
  BY UniqueKeeps
<1>6. MergedWith(p, l) = [Deny |-> Unique(c), precedence |-> Unique(w)]
  BY <1>1, <1>2, <1>3 DEF MergedWith
<1>7. MergedWith(p, l) \in Merges(S)
  BY <1>4, <1>5, <1>6 DEF Merges, T
<1>8. Range(c) = Range(a) \cup Range(b)
  BY <1>3, RangeConcatenation
<1>9. OnlyDeny(l) => w = v
  <2>1. OnlyDeny(l) => u = <<>>
    BY <1>2, NonDenyIs
  <2>2. <<>> \o v = v
    BY ConcatEmptySeq
  <2> QED BY <1>3, <2>1, <2>2
<1> QED BY <1>1, <1>4, <1>5, <1>6, <1>7, <1>8, <1>9

\* The first rule that applies: a Deny rule if any applies.
LEMMA FirstRuleIs ==
  ASSUME NEW S, NEW p \in Merges(S), NEW M, NEW default, NEW f, f = FirstOf(AllRules(p), M, default)
  PROVE  /\ \/ f \in M \cap Range(AllRules(p)) /\ f \in Lists \X S
            \/ f = default /\ M \cap Range(AllRules(p)) = {}
         /\ \A x \in M \cap Range(AllRules(p)) : x[1] = "Deny" => f \in M /\ f[1] = "Deny"
<1> DEFINE d == Tagged("Deny", p.Deny)
           s == AllRules(p)
<1>1. /\ d \in Seq(Lists \X S) /\ p.precedence \in Seq(Lists \X S) /\ s \in Seq(Lists \X S)
      /\ Firsts(s, M) = IF Firsts(d, M) = {} THEN Firsts(p.precedence, M) ELSE Firsts(d, M)
      /\ Range(s) = {<<"Deny", x>> : x \in Range(p.Deny)} \cup Range(p.precedence)
  BY AllRulesIs
<1>2. Range(s) \subseteq Lists \X S
  BY <1>1, RangeIndexed
<1>3. \/ f \in M \cap Range(s) /\ Firsts(s, M) = {f}
      \/ f = default /\ Firsts(s, M) = {} /\ M \cap Range(s) = {}
  BY <1>1, FirstOfIn
<1>4. ASSUME NEW x \in M \cap Range(s), x[1] = "Deny"
      PROVE  f \in M /\ f[1] = "Deny"
  <2>1. \A y \in Range(p.precedence) : y[1] # "Deny"
    <3>1. PICK o \in Seq({"Ask", "Allow"} \X S) : o = p.precedence
      BY DEF Merges
    <3>2. Range(o) \subseteq {"Ask", "Allow"} \X S
      BY RangeIndexed
    <3> QED BY <3>1, <3>2
  <2>2. PICK r \in Range(p.Deny) : x = <<"Deny", r>>
    BY <1>1, <1>4, <2>1
  <2>3. PICK a \in Seq(S) : a = p.Deny
    BY DEF Merges
  <2>4. PICK i \in 1..Len(a) : r = a[i]
    BY <2>2, <2>3, RangeIndexed
  <2>5. Len(d) = Len(a) /\ \A j \in 1..Len(a) : d[j] = <<"Deny", a[j]>>
    BY <2>3 DEF Tagged
  <2>6. d[i] \in M /\ i \in 1..Len(d)
    BY <1>4, <2>2, <2>4, <2>5
  <2> HIDE DEF d, s
  <2>7. Firsts(d, M) # {}
    BY <1>1, <2>6, FirstsOne
  <2>8. Firsts(d, M) = {f} /\ f \in M
    BY <1>1, <1>3, <2>7
  <2>9. PICK j \in 1..Len(d) : f = d[j]
    BY <2>8 DEF Firsts
  <2> QED BY <2>5, <2>8, <2>9
<1> QED BY <1>2, <1>3, <1>4

\* Only what is among the rules matters of what applies.
LEMMA FirstOfAmong ==
  ASSUME NEW S, NEW s \in Seq(S), NEW K, NEW default
  PROVE  FirstOf(s, K \cap Range(s), default) = FirstOf(s, K, default)
<1>1. Range(s) = {s[i] : i \in 1..Len(s)}
  BY RangeIndexed
<1>2. \A i \in 1..Len(s) : s[i] \in K \cap Range(s) <=> s[i] \in K
  BY <1>1
<1>3. \A i \in 1..Len(s) : \A k \in 1..(i - 1) : k \in 1..Len(s)
  OBVIOUS
<1>4. Firsts(s, K \cap Range(s)) = Firsts(s, K)
  BY <1>2, <1>3 DEF Firsts
<1>5. PICK f, g : f = FirstOf(s, K \cap Range(s), default) /\ g = FirstOf(s, K, default)
  OBVIOUS
<1>6. \/ Firsts(s, K \cap Range(s)) = {f}
      \/ f = default /\ Firsts(s, K \cap Range(s)) = {}
  BY <1>5, FirstOfIn
<1>7. \/ Firsts(s, K) = {g}
      \/ g = default /\ Firsts(s, K) = {}
  BY <1>5, FirstOfIn
<1>8. f = g
  <2>1. PICK A : A = Firsts(s, K)
    OBVIOUS
  <2>2. A = {f} \/ (f = default /\ A = {})
    BY <1>4, <1>6, <2>1
  <2>3. A = {g} \/ (g = default /\ A = {})
    BY <1>7, <2>1
  <2> QED BY <2>2, <2>3
<1> QED BY <1>5, <1>8

\* One more layer that only denies: a Deny rule comes first, or the same rule as before.
LEMMA DenyLayerFirst ==
  ASSUME NEW S, NEW p \in Merges(S), NEW l \in RuleLists(S), OnlyDeny(l),
         NEW K, NEW default, NEW f, f = FirstOf(AllRules(p), K, default),
         NEW g, g = FirstOf(AllRules(MergedWith(p, l)), K, default)
  PROVE  g = f \/ (g \in K /\ g[1] = "Deny")
<1>1. PICK q \in Merges(S) : q = MergedWith(p, l)
  BY MergedWithIs
<1>2. /\ Firsts(q.precedence, K) = Firsts(p.precedence, K)
      /\ Range(q.Deny) = Range(p.Deny) \cup Range(l.Deny)
  BY <1>1, MergedWithIs
<1>3. PICK a \in Seq(S), b \in Seq(S) : a = p.Deny /\ b = q.Deny
  BY DEF Merges
<1> DEFINE d == Tagged("Deny", a)
           e == Tagged("Deny", b)
<1>4. d \in Seq(Lists \X S) /\ e \in Seq(Lists \X S)
  BY <1>1, <1>3, AllRulesIs
<1>5. /\ Len(d) = Len(a) /\ \A j \in 1..Len(a) : d[j] = <<"Deny", a[j]>>
      /\ Len(e) = Len(b) /\ \A j \in 1..Len(b) : e[j] = <<"Deny", b[j]>>
  <2>1. Len(d) = Len(a) /\ \A j \in 1..Len(a) : d[j] = <<"Deny", a[j]>>
    BY DEF Tagged
  <2>2. Len(e) = Len(b) /\ \A j \in 1..Len(b) : e[j] = <<"Deny", b[j]>>
    BY DEF Tagged
  <2> QED BY <2>1, <2>2
<1> HIDE DEF d, e
<1>6. /\ AllRules(p) \in Seq(Lists \X S) /\ AllRules(q) \in Seq(Lists \X S)
      /\ Firsts(AllRules(p), K) = IF Firsts(d, K) = {} THEN Firsts(p.precedence, K) ELSE Firsts(d, K)
      /\ Firsts(AllRules(q), K) = IF Firsts(e, K) = {} THEN Firsts(q.precedence, K) ELSE Firsts(e, K)
  BY <1>1, <1>3, AllRulesIs DEF d, e
<1>7. \/ f \in K /\ Firsts(AllRules(p), K) = {f}
      \/ f = default /\ Firsts(AllRules(p), K) = {}
  BY <1>6, FirstOfIn
<1>8. \/ g \in K /\ Firsts(AllRules(q), K) = {g}
      \/ g = default /\ Firsts(AllRules(q), K) = {}
  BY <1>1, <1>6, FirstOfIn
<1>9. CASE Firsts(e, K) # {}
  <2>1. Firsts(e, K) = {g} /\ g \in K
    BY <1>6, <1>8, <1>9
  <2>2. PICK j \in 1..Len(e) : g = e[j]
    BY <2>1 DEF Firsts
  <2> QED BY <1>5, <2>1, <2>2
<1>10. CASE Firsts(e, K) = {}
  <2>1. \A j \in 1..Len(e) : e[j] \notin K
    <3>1. PICK u \in Seq(Lists \X S) : u = e
      BY <1>4
    <3>2. Firsts(u, K) = {} <=> \A j \in 1..Len(u) : u[j] \notin K
      BY FirstsOne
    <3>3. Firsts(u, K) = {}
      BY <1>10, <3>1
    <3> QED BY <3>1, <3>2, <3>3
  <2>2. ASSUME NEW j \in 1..Len(d) PROVE d[j] \notin K
    <3>1. Range(a) = {a[i] : i \in 1..Len(a)} /\ Range(b) = {b[i] : i \in 1..Len(b)}
      BY RangeIndexed
    <3>2. j \in 1..Len(a)
      BY <1>5
    <3>3. a[j] \in Range(b)
      BY <1>2, <1>3, <3>1, <3>2
    <3>4. PICK i \in 1..Len(b) : b[i] = a[j]
      BY <3>1, <3>3
    <3>5. e[i] = d[j] /\ i \in 1..Len(e)
      BY <1>5, <3>4
    <3> QED BY <2>1, <3>5
  <2>3. Firsts(d, K) = {}
    BY <1>4, <2>2, FirstsOne
  <2>4. PICK A, B, C, D, E, F : /\ A = Firsts(AllRules(q), K) /\ B = Firsts(AllRules(p), K)
                                /\ C = Firsts(e, K) /\ D = Firsts(d, K)
                                /\ E = Firsts(q.precedence, K) /\ F = Firsts(p.precedence, K)
    OBVIOUS
  <2>5. A = E /\ B = F /\ E = F
    <3>1. C = {} /\ D = {}
      BY <1>10, <2>3, <2>4
    <3>2. E = F
      BY <1>2, <2>4
    <3>3. A = IF C = {} THEN E ELSE C
      BY <1>6, <2>4
    <3>4. B = IF D = {} THEN F ELSE D
      BY <1>6, <2>4
    <3> QED BY <3>1, <3>2, <3>3, <3>4
  <2>6. A = {f} \/ (f = default /\ A = {})
    BY <1>7, <2>4, <2>5
  <2>7. A = {g} \/ (g = default /\ A = {})
    BY <1>8, <2>4
  <2>8. f = g
    <3>1. CASE A = {}
      BY <2>6, <2>7, <3>1
    <3>2. CASE A # {}
      <4>1. A = {f} /\ A = {g}
        BY <2>6, <2>7, <3>2
      <4>2. f \in A
        BY <4>1
      <4> QED BY <4>1, <4>2
    <3> QED BY <3>1, <3>2
  <2> QED BY <2>8
<1> QED BY <1>9, <1>10
==============================================================================
