----------------------------- MODULE FiniteSums -----------------------------
(***************************************************************************)
(* Induction over numbers and over the subsets of a finite set, and what   *)
(* SumFunction of the community modules computes.                          *)
(*                                                                         *)
(* The induction rests on the least element of a set of numbers (WFMin of  *)
(* WellFoundedInduction), which is a statement about sets: no operator has *)
(* to be found by the provers.                                             *)
(***************************************************************************)
EXTENDS Integers, FiniteSets, Functions, WellFoundedInduction, FiniteSetTheorems, TLAPS

\* A set of natural numbers has a least element.
LEMMA Least ==
    ASSUME NEW T, T \subseteq Nat, T # {}
    PROVE  \E x \in T : \A y \in T : x =< y
<1>1. IsWellFoundedOn(OpToRel(<, Nat), Nat)
  BY NatLessThanWellFounded
<1>2. \E x \in T : \A y \in T : <<y, x>> \notin OpToRel(<, Nat)
  BY <1>1, WFMin
<1>3. PICK x \in T : \A y \in T : <<y, x>> \notin OpToRel(<, Nat)
  BY <1>2
<1>4. ASSUME NEW y \in T
      PROVE  x =< y
  <2>1. <<y, x>> \notin {p \in Nat \X Nat : p[1] < p[2]}
    BY <1>3 DEF OpToRel
  <2>2. <<y, x>> \in Nat \X Nat
    OBVIOUS
  <2> QED
    BY <2>1, <2>2
<1> QED
  BY <1>4

\* Induction, for the numbers up to n that are in a set.
LEMMA UpTo ==
    ASSUME NEW n \in Nat, NEW T, 0 \in T,
           \A k \in 0 .. (n - 1) : k \in T => k + 1 \in T
    PROVE  \A k \in 0 .. n : k \in T
<1> SUFFICES ASSUME NEW m \in 0 .. n, m \notin T
             PROVE  FALSE
  OBVIOUS
<1> DEFINE Bad == {k \in 0 .. n : k \notin T}
<1>1. Bad \subseteq Nat /\ Bad # {}
  OBVIOUS
<1>2. PICK x \in Bad : \A y \in Bad : x =< y
  BY <1>1, Least
<1>3. x # 0
  OBVIOUS
<1>4. x - 1 \in 0 .. (n - 1) /\ x - 1 \notin Bad
  BY <1>2, <1>3
<1>5. x - 1 \in T /\ (x - 1) + 1 = x
  BY <1>4
<1> QED
  BY <1>4, <1>5

-----------------------------------------------------------------------------
(***************************************************************************)
(* Sums: the recursive function that SumFunction is defined with exists,   *)
(* is an integer on every subset, and moves by the difference when one     *)
(* value of the function is replaced.                                      *)
(***************************************************************************)
Pick(s) == CHOOSE x \in s : TRUE

\* g[s] is the sum of f over s, for the subsets s of S with at most k elements.
SumsUpTo(g, f, S, k) ==
    \A s \in SUBSET S : Cardinality(s) =< k =>
        g[s] = IF s = {} THEN 0 ELSE f[Pick(s)] + g[s \ {Pick(s)}]

Sums(g, f, S) ==
    g = [s \in SUBSET S |-> IF s = {} THEN 0 ELSE f[Pick(s)] + g[s \ {Pick(s)}]]

LEMMA SumFunctionIs ==
    ASSUME NEW f
    PROVE  SumFunction(f) = (CHOOSE g : Sums(g, f, DOMAIN f))[DOMAIN f]
BY Zenon DEF SumFunction, SumFunctionOnSet, FoldFunctionOnSet, MapThenFoldSet, Sums, Pick

\* Without the picked element a set has one element less.
LEMMA Picked ==
    ASSUME NEW S, IsFiniteSet(S), NEW s \in SUBSET S, s # {}
    PROVE  /\ Pick(s) \in s /\ s \ {Pick(s)} \in SUBSET S
           /\ Cardinality(s) \in Nat /\ Cardinality(s \ {Pick(s)}) = Cardinality(s) - 1
           /\ Cardinality(s) # 0
<1>1. Pick(s) \in s
  BY Zenon DEF Pick
<1>2. IsFiniteSet(s)
  BY FS_Subset
<1>3. Cardinality(s) \in Nat /\ (Cardinality(s) = 0 => s = {})
  BY <1>2, FS_CardinalityType, FS_EmptySet
<1>4. Cardinality(s \ {Pick(s)}) = Cardinality(s) - 1
  BY <1>1, <1>2, FS_RemoveElement
<1> QED
  BY <1>1, <1>3, <1>4

\* Induction over the subsets of a finite set, for the subsets that are in a set.
LEMMA SubsetInduction ==
    ASSUME NEW S, IsFiniteSet(S), NEW T, {} \in T,
           \A s \in SUBSET S : s # {} /\ s \ {Pick(s)} \in T => s \in T
    PROVE  \A s \in SUBSET S : s \in T
<1> DEFINE n == Cardinality(S)
           K == {k \in 0 .. n : \A s \in SUBSET S : Cardinality(s) = k => s \in T}
<1>1. n \in Nat
  BY FS_CardinalityType
<1>2. \A s \in SUBSET S : IsFiniteSet(s) /\ Cardinality(s) \in 0 .. n
  BY <1>1, FS_Subset, FS_CardinalityType
<1>3. 0 \in K
  BY <1>1, <1>2, FS_EmptySet
<1>4. \A k \in 0 .. (n - 1) : k \in K => k + 1 \in K
  <2> SUFFICES ASSUME NEW k \in 0 .. (n - 1), k \in K, NEW s \in SUBSET S,
                      Cardinality(s) = k + 1
               PROVE  s \in T
    BY <1>1
  <2>1. s # {}
    BY FS_EmptySet
  <2>2. s \ {Pick(s)} \in SUBSET S /\ Cardinality(s \ {Pick(s)}) = k
    BY <2>1, Picked
  <2> QED
    BY <2>1, <2>2
<1> HIDE DEF n
<1>5. \A k \in 0 .. n : k \in K
  <2> HIDE DEF K
  <2> QED
    BY <1>1, <1>3, <1>4, UpTo
<1> QED
  BY <1>2, <1>5

LEMMA SumsExist ==
    ASSUME NEW S, IsFiniteSet(S), NEW f \in [S -> Int]
    PROVE  \E g : Sums(g, f, S)
<1> DEFINE n == Cardinality(S)
           K == {k \in 0 .. n : \E g \in [SUBSET S -> Int] : SumsUpTo(g, f, S, k)}
<1>1. n \in Nat
  BY FS_CardinalityType
<1>2. \A s \in SUBSET S : Cardinality(s) \in 0 .. n /\ (Cardinality(s) = 0 => s = {})
  BY <1>1, FS_Subset, FS_CardinalityType, FS_EmptySet
<1> HIDE DEF n
<1>3. 0 \in K
  <2> DEFINE g == [s \in SUBSET S |-> 0]
  <2>1. g \in [SUBSET S -> Int]
    OBVIOUS
  <2>2. SumsUpTo(g, f, S, 0)
    BY <1>2 DEF SumsUpTo
  <2>3. 0 \in 0 .. n
    BY <1>1
  <2> HIDE DEF g
  <2> QED
    BY <2>1, <2>2, <2>3, Zenon
<1>4. \A k \in 0 .. (n - 1) : k \in K => k + 1 \in K
  <2> SUFFICES ASSUME NEW k \in 0 .. (n - 1), k \in K
               PROVE  k + 1 \in K
    OBVIOUS
  <2>1. PICK g \in [SUBSET S -> Int] : SumsUpTo(g, f, S, k)
    OBVIOUS
  <2> DEFINE h == [s \in SUBSET S |-> IF Cardinality(s) =< k THEN g[s]
                                      ELSE IF s = {} THEN 0
                                      ELSE f[Pick(s)] + g[s \ {Pick(s)}]]
  <2>2. \A s \in SUBSET S : s # {} =>
           /\ Pick(s) \in S /\ s \ {Pick(s)} \in SUBSET S
           /\ Cardinality(s \ {Pick(s)}) = Cardinality(s) - 1
    BY Picked
  <2>3. h \in [SUBSET S -> Int]
    BY <2>2
  <2>4. ASSUME NEW s \in SUBSET S, Cardinality(s) =< k + 1
        PROVE  h[s] = IF s = {} THEN 0 ELSE f[Pick(s)] + h[s \ {Pick(s)}]
    <3>1. Cardinality(s) \in Nat
      BY <1>2
    <3>2. s # {} => h[s \ {Pick(s)}] = g[s \ {Pick(s)}]
      BY <2>2, <2>4, <3>1
    <3>3. CASE Cardinality(s) =< k
      BY <2>1, <3>2, <3>3 DEF SumsUpTo
    <3>4. CASE ~(Cardinality(s) =< k)
      BY <3>2, <3>4
    <3> QED
      BY <3>3, <3>4
  <2> HIDE DEF h
  <2>5. SumsUpTo(h, f, S, k + 1)
    BY <2>4 DEF SumsUpTo
  <2> QED
    BY <1>1, <2>3, <2>5
<1>5. \A k \in 0 .. n : k \in K
  <2> HIDE DEF K
  <2> QED
    BY <1>1, <1>3, <1>4, UpTo
<1>6. n \in K
  <2> HIDE DEF K
  <2> QED
    BY <1>1, <1>5
<1>7. PICK g \in [SUBSET S -> Int] : SumsUpTo(g, f, S, n)
  BY <1>6, Zenon
<1>8. \A s \in SUBSET S : Cardinality(s) =< n
  BY <1>1, <1>2
<1>9. \A s \in SUBSET S : g[s] = IF s = {} THEN 0 ELSE f[Pick(s)] + g[s \ {Pick(s)}]
  BY <1>7, <1>8, Zenon DEF SumsUpTo
<1>10. Sums(g, f, S)
  BY <1>9 DEF Sums
<1> QED
  BY <1>10

\* The two sums differ by what the replaced value contributes.
LEMMA SumsExcept ==
    ASSUME NEW S, IsFiniteSet(S), NEW f \in [S -> Int], NEW e \in [S -> Int],
           NEW a \in S, \A s \in S : s # a => e[s] = f[s],
           NEW g, Sums(g, f, S), NEW h, Sums(h, e, S)
    PROVE  g[S] \in Int /\ h[S] = g[S] - f[a] + e[a]
<1> DEFINE d(s) == IF a \in s THEN e[a] - f[a] ELSE 0
           T == {s \in SUBSET S : g[s] \in Int /\ h[s] = g[s] + d(s)}
<1>1. \A s \in SUBSET S : g[s] = IF s = {} THEN 0 ELSE f[Pick(s)] + g[s \ {Pick(s)}]
  BY DEF Sums
<1>2. \A s \in SUBSET S :
         h[s] = IF s = {} THEN 0 ELSE e[Pick(s)] + h[s \ {Pick(s)}]
  BY DEF Sums
<1>3. {} \in T
  <2>1. g[{}] = 0 /\ h[{}] = 0
    BY <1>1, <1>2, Zenon
  <2> QED
    BY <2>1
<1>4. ASSUME NEW s \in SUBSET S, s # {}, s \ {Pick(s)} \in T
      PROVE  s \in T
  <2> DEFINE p == Pick(s)
             t == s \ {p}
  <2>1. p \in s /\ p \in S
    BY <1>4, Picked
  <2>2. g[s] = f[p] + g[t] /\ h[s] = e[p] + h[t]
    BY <1>1, <1>2, <1>4
  <2>3. g[t] \in Int /\ h[t] = g[t] + d(t)
    BY <1>4
  <2>4. a \in t <=> a \in s /\ a # p
    OBVIOUS
  <2> HIDE DEF p, t
  <2>5. CASE a = p
    BY <2>1, <2>2, <2>3, <2>4, <2>5
  <2>6. CASE a # p
    BY <2>1, <2>2, <2>3, <2>4, <2>6
  <2> QED
    BY <2>5, <2>6
<1>5. \A s \in SUBSET S : s \in T
  <2> HIDE DEF T
  <2> QED
    BY <1>3, <1>4, SubsetInduction
<1>6. g[S] \in Int /\ h[S] = g[S] + (e[a] - f[a])
  BY <1>5
<1> QED
  BY <1>6

\* SumFunction is such a sum.
LEMMA SumOf ==
    ASSUME NEW S, IsFiniteSet(S), NEW f \in [S -> Int]
    PROVE  \E g : Sums(g, f, S) /\ SumFunction(f) = g[S]
<1> DEFINE g == CHOOSE i : Sums(i, f, S)
<1>1. SumFunction(f) = g[S]
  BY SumFunctionIs
<1>2. \E i : Sums(i, f, S)
  BY SumsExist
<1>3. Sums(g, f, S)
  BY <1>2, Zenon
<1> QED
  BY <1>1, <1>3, Zenon

LEMMA SumExcept ==
    ASSUME NEW S, IsFiniteSet(S), NEW f \in [S -> Int], NEW a \in S, NEW x \in Int
    PROVE  /\ SumFunction(f) \in Int
           /\ SumFunction([f EXCEPT ![a] = x]) = SumFunction(f) - f[a] + x
<1>1. PICK e \in [S -> Int] : e = [f EXCEPT ![a] = x]
  OBVIOUS
<1>2. e[a] = x /\ \A s \in S : s # a => e[s] = f[s]
  BY <1>1
<1>3. PICK g : Sums(g, f, S) /\ SumFunction(f) = g[S]
  BY SumOf
<1>4. PICK h : Sums(h, e, S) /\ SumFunction(e) = h[S]
  BY SumOf
<1>5. g[S] \in Int /\ h[S] = g[S] - f[a] + e[a]
  BY <1>2, <1>3, <1>4, SumsExcept
<1> QED
  BY <1>1, <1>2, <1>3, <1>4, <1>5

\* The sum over a set is a value plus the sum over the rest, whichever value
\* is taken out.
LEMMA SumsRemove ==
    ASSUME NEW S, IsFiniteSet(S), NEW f \in [S -> Int], NEW g, Sums(g, f, S)
    PROVE  \A s \in SUBSET S : /\ g[s] \in Int
                               /\ \A a \in s : g[s] = f[a] + g[s \ {a}]
<1> DEFINE n == Cardinality(S)
           Good(s) == g[s] \in Int /\ \A a \in s : g[s] = f[a] + g[s \ {a}]
           K == {k \in 0 .. n : \A s \in SUBSET S : Cardinality(s) =< k => Good(s)}
<1>1. n \in Nat
  BY FS_CardinalityType
<1>2. \A s \in SUBSET S : /\ Cardinality(s) \in 0 .. n /\ (Cardinality(s) = 0 => s = {})
                          /\ \A a \in s : Cardinality(s \ {a}) = Cardinality(s) - 1
  <2> TAKE s \in SUBSET S
  <2>1. IsFiniteSet(s) /\ Cardinality(s) =< n
    BY FS_Subset
  <2>2. Cardinality(s) \in Nat /\ (Cardinality(s) = 0 => s = {})
    BY <2>1, FS_CardinalityType, FS_EmptySet
  <2>3. \A a \in s : Cardinality(s \ {a}) = Cardinality(s) - 1
    BY <2>1, FS_RemoveElement
  <2> QED
    BY <1>1, <2>1, <2>2, <2>3
<1>3. \A s \in SUBSET S : g[s] = IF s = {} THEN 0 ELSE f[Pick(s)] + g[s \ {Pick(s)}]
  BY DEF Sums
<1> HIDE DEF n
<1>4. 0 \in K
  <2>1. Good({})
    <3>1. g[{}] = 0
      BY <1>3, Zenon
    <3> QED
      BY <3>1
  <2>2. \A s \in SUBSET S : Cardinality(s) =< 0 => s = {}
    BY <1>2
  <2> HIDE DEF Good
  <2> QED
    BY <1>1, <2>1, <2>2
<1>5. \A k \in 0 .. (n - 1) : k \in K => k + 1 \in K
  <2> SUFFICES ASSUME NEW k \in 0 .. (n - 1), k \in K, NEW s \in SUBSET S,
                      Cardinality(s) =< k + 1
               PROVE  Good(s)
    BY <1>1
  <2>1. \A t \in SUBSET S : Cardinality(t) =< k => Good(t)
    OBVIOUS
  <2>2. CASE s = {}
    <3>1. g[{}] = 0
      BY <1>3, Zenon
    <3> QED
      BY <2>2, <3>1
  <2>3. CASE s # {}
    <3> DEFINE p == Pick(s)
    <3>1. p \in s /\ p \in S
      BY <2>3, Picked
    <3>2. g[s] = f[p] + g[s \ {p}]
      BY <1>3, <2>3
    <3>3. \A a \in s : s \ {a} \in SUBSET S /\ Good(s \ {a})
      <4> TAKE a \in s
      <4>1. s \ {a} \in SUBSET S /\ Cardinality(s \ {a}) =< k
        BY <1>2
      <4> HIDE DEF Good
      <4> QED
        BY <2>1, <4>1
    <3> HIDE DEF p
    <3>4. g[s] \in Int
      <4>1. g[s \ {p}] \in Int /\ f[p] \in Int
        BY <3>1, <3>3
      <4> QED
        BY <3>2, <4>1
    <3>5. ASSUME NEW a \in s, a # p
          PROVE  g[s] = f[a] + g[s \ {a}]
      <4>1. (s \ {a}) \ {p} = (s \ {p}) \ {a}
        OBVIOUS
      <4>2. PICK rest : rest = (s \ {a}) \ {p}
        OBVIOUS
      <4>3. g[s \ {a}] = f[p] + g[rest]
        BY <3>1, <3>3, <3>5, <4>2
      <4>4. g[s \ {p}] = f[a] + g[rest]
        BY <3>1, <3>3, <3>5, <4>1, <4>2
      <4>5. g[rest] \in Int
        <5>1. rest \in SUBSET S /\ Cardinality(rest) =< k
          <6>1. s \ {a} \in SUBSET S /\ p \in s \ {a} /\ rest \in SUBSET S
            BY <3>1, <3>5, <4>2
          <6>2. Cardinality(rest) = Cardinality(s \ {a}) - 1
            BY <1>2, <4>2, <6>1
          <6>3. Cardinality(s \ {a}) = Cardinality(s) - 1 /\ Cardinality(s) \in Nat
            BY <1>2, <3>5
          <6> QED
            BY <6>1, <6>2, <6>3
        <5> QED
          BY <2>1, <5>1
      <4>6. f[a] \in Int /\ f[p] \in Int
        BY <3>1, <3>5
      <4> HIDE DEF Good
      <4> QED
        BY <3>2, <4>3, <4>4, <4>5, <4>6
    <3> QED
      BY <3>2, <3>4, <3>5
  <2> QED
    BY <2>2, <2>3
<1>6. \A k \in 0 .. n : k \in K
  <2> HIDE DEF K
  <2> QED
    BY <1>1, <1>4, <1>5, UpTo
<1>7. \A s \in SUBSET S : Good(s)
  <2> TAKE s \in SUBSET S
  <2>1. n \in K /\ Cardinality(s) =< n
    <3> HIDE DEF K
    <3> QED
      BY <1>1, <1>2, <1>6
  <2> HIDE DEF Good
  <2> QED
    BY <2>1
<1> QED
  BY <1>7

\* One function gives the sums over all subsets.
LEMMA SumsOfSubsets ==
    ASSUME NEW S, IsFiniteSet(S), NEW f \in [S -> Int], NEW g, Sums(g, f, S), NEW u \in SUBSET S
    PROVE  SumFunction([x \in u |-> f[x]]) = g[u]
<1> DEFINE e == [x \in u |-> f[x]]
<1>1. IsFiniteSet(u) /\ e \in [u -> Int]
  BY FS_Subset
<1>2. \A x \in u : e[x] = f[x]
  OBVIOUS
<1> HIDE DEF e
<1>3. PICK h : Sums(h, e, u) /\ SumFunction(e) = h[u]
  BY <1>1, SumOf
<1>4. \A s \in SUBSET u : h[s] = IF s = {} THEN 0 ELSE e[Pick(s)] + h[s \ {Pick(s)}]
  BY <1>3 DEF Sums
<1>5. \A s \in SUBSET S : g[s] = IF s = {} THEN 0 ELSE f[Pick(s)] + g[s \ {Pick(s)}]
  BY DEF Sums
<1> DEFINE T == {s \in SUBSET u : h[s] = g[s]}
<1>6. {} \in T
  <2>1. h[{}] = 0 /\ g[{}] = 0
    BY <1>4, <1>5, Zenon
  <2> QED
    BY <2>1
<1>7. ASSUME NEW s \in SUBSET u, s # {}, s \ {Pick(s)} \in T
      PROVE  s \in T
  <2>1. Pick(s) \in u /\ h[s \ {Pick(s)}] = g[s \ {Pick(s)}]
    BY <1>1, <1>7, Picked
  <2>2. h[s] = e[Pick(s)] + h[s \ {Pick(s)}] /\ g[s] = f[Pick(s)] + g[s \ {Pick(s)}]
    BY <1>4, <1>5, <1>7
  <2> QED
    BY <1>2, <2>1, <2>2
<1>8. \A s \in SUBSET u : s \in T
  <2> HIDE DEF T
  <2> QED
    BY <1>1, <1>6, <1>7, SubsetInduction
<1> QED
  BY <1>3, <1>8 DEF e

\* g[s] is the sum of f over the subset s of S: what one more element adds,
\* and that a larger set has no smaller sum.
SubsetSums(g, f, S) ==
    /\ \A s \in SUBSET S : SumFunction([x \in s |-> f[x]]) = g[s]
    /\ g[{}] = 0
    /\ \A s \in SUBSET S : \A a \in S \ s : g[s \cup {a}] = g[s] + f[a]
    /\ \A s, u \in SUBSET S : s \subseteq u => g[s] =< g[u]

\* Natural numbers have such sums over the subsets of a finite set.
THEOREM SumsOver ==
    ASSUME NEW S, IsFiniteSet(S), NEW f \in [S -> Nat]
    PROVE  \E g \in [SUBSET S -> Nat] : SubsetSums(g, f, S)
<1>1. f \in [S -> Int]
  OBVIOUS
<1>2. PICK g : Sums(g, f, S)
  BY <1>1, SumsExist
<1>3. \A s \in SUBSET S : SumFunction([x \in s |-> f[x]]) = g[s]
  BY <1>1, <1>2, SumsOfSubsets
<1>4. \A s \in SUBSET S : g[s] \in Int /\ \A a \in s : g[s] = f[a] + g[s \ {a}]
  BY <1>1, <1>2, SumsRemove
<1>5. g = [s \in SUBSET S |-> g[s]] /\ g[{}] = 0
  BY <1>2 DEF Sums
<1>6. \A s \in SUBSET S : \A a \in S \ s : g[s \cup {a}] = g[s] + f[a]
  <2> TAKE s \in SUBSET S
  <2> TAKE a \in S \ s
  <2>1. PICK u \in SUBSET S : u = s \cup {a}
    OBVIOUS
  <2>2. u \ {a} = s /\ a \in u
    BY <2>1
  <2>3. g[u] = f[a] + g[s] /\ g[s] \in Int /\ f[a] \in Int
    BY <1>1, <1>4, <2>2
  <2> QED
    BY <2>1, <2>3
<1> DEFINE T == {d \in SUBSET S : \A s \in SUBSET S : g[s] =< g[s \cup d]}
<1>7. {} \in T
  <2>1. \A s \in SUBSET S : s \cup {} = s /\ g[s] \in Int
    BY <1>4
  <2> QED
    BY <2>1
<1>8. ASSUME NEW d \in SUBSET S, d # {}, d \ {Pick(d)} \in T
      PROVE  d \in T
  <2> SUFFICES ASSUME NEW s \in SUBSET S
               PROVE  g[s] =< g[s \cup d]
    OBVIOUS
  <2>1. PICK p \in d : p = Pick(d)
    BY <1>8, Picked
  <2>2. PICK less \in SUBSET S : less = s \cup (d \ {p})
    OBVIOUS
  <2>3. g[s] =< g[less] /\ g[s] \in Int /\ g[less] \in Int
    BY <1>4, <1>8, <2>1, <2>2
  <2>4. CASE p \in s
    <3>1. s \cup d = less
      BY <2>2, <2>4
    <3> QED
      BY <2>3, <3>1
  <2>5. CASE p \notin s
    <3>1. s \cup d = less \cup {p} /\ p \in S \ less
      BY <2>2, <2>5
    <3>2. g[s \cup d] = g[less] + f[p] /\ f[p] \in Nat
      BY <1>6, <3>1
    <3> QED
      BY <2>3, <3>2
  <2> QED
    BY <2>4, <2>5
<1>9. \A d \in SUBSET S : d \in T
  <2> HIDE DEF T
  <2> QED
    BY <1>7, <1>8, SubsetInduction
<1>10. \A s, u \in SUBSET S : s \subseteq u => g[s] =< g[u]
  <2> TAKE s, u \in SUBSET S
  <2> HAVE s \subseteq u
  <2>1. s \cup u = u
    OBVIOUS
  <2>2. g[s] =< g[s \cup u]
    BY <1>9
  <2> QED
    BY <2>1, <2>2
<1>11. g \in [SUBSET S -> Nat]
  <2>1. \A s \in SUBSET S : g[s] \in Nat
    <3> TAKE s \in SUBSET S
    <3>1. {} \in SUBSET S /\ {} \subseteq s
      OBVIOUS
    <3>2. g[{}] =< g[s] /\ g[s] \in Int
      BY <1>4, <1>10, <3>1
    <3> QED
      BY <1>5, <3>2
  <2> QED
    BY <1>5, <2>1
<1>12. SubsetSums(g, f, S)
  BY <1>3, <1>5, <1>6, <1>10, Zenon DEF SubsetSums
<1> QED
  BY <1>11, <1>12
=============================================================================
