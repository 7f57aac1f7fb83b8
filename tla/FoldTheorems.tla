---------------------------- MODULE FoldTheorems ----------------------------
(***************************************************************************)
(* What FoldLeft computes, for an arbitrary step Op.  A proof module       *)
(* instantiates this module with the step of one of its folds, and cites   *)
(* the theorem below for it.                                               *)
(***************************************************************************)
EXTENDS SequencesExt, FiniteSums

CONSTANT Op(_, _)

Fold(base, seq) == FoldLeft(Op, base, seq)

\* The step leads from A to A, with elements of E.
Closed(A, E) == \A x \in A, e \in E : Op(x, e) \in A

\* r[k] is the fold of the first k elements.
Trace(r, base, seq) ==
    /\ r[0] = base
    /\ \A k \in 1 .. Len(seq) : r[k] = Op(r[k - 1], seq[k])
    /\ r[Len(seq)] = Fold(base, seq)

\* g is the recursive function that FoldLeft is defined with, on the subsets
\* of the first k positions.
Iterates(g, base, seq, k) ==
    g = [s \in SUBSET (1 .. k) |->
           IF s = {} THEN base ELSE Op(g[s \ {Max(s)}], seq[Max(s)])]
-----------------------------------------------------------------------------
\* A set of positions has a largest one.
LEMMA Largest ==
    ASSUME NEW n \in Nat, NEW s \in SUBSET (1 .. n), s # {}
    PROVE  Max(s) \in s /\ \A y \in s : Max(s) >= y
<1> DEFINE T == {n - x : x \in s}
<1>1. T \subseteq Nat /\ T # {}
  OBVIOUS
<1>2. PICK t \in T : \A u \in T : t =< u
  BY <1>1, Least
<1>3. PICK x \in s : t = n - x
  OBVIOUS
<1>4. \A y \in s : x >= y
  <2> TAKE y \in s
  <2>1. n - y \in T
    OBVIOUS
  <2>2. n - x =< n - y
    BY <1>2, <1>3, <2>1
  <2> QED
    BY <2>2
<1>5. \E z \in s : \A y \in s : z >= y
  BY <1>4
<1> QED
  BY <1>5 DEF Max

LEMMA LargestIs ==
    ASSUME NEW n \in Nat, NEW s \in SUBSET (1 .. n), NEW x \in s, \A y \in s : x >= y
    PROVE  Max(s) = x
<1>1. Max(s) \in s /\ Max(s) >= x
  BY Largest
<1>2. x \in 1 .. n /\ Max(s) \in 1 .. n
  BY <1>1
<1>3. x >= Max(s)
  BY <1>1
<1> QED
  BY <1>1, <1>2, <1>3

\* The recursive function exists, for every prefix.
LEMMA IterateExists ==
    ASSUME NEW A, NEW E, NEW base \in A, NEW seq \in Seq(E), Closed(A, E)
    PROVE  \E g : Iterates(g, base, seq, Len(seq))
<1> DEFINE n == Len(seq)
           P(k) == \E g \in [SUBSET (1 .. k) -> A] : Iterates(g, base, seq, k)
           T == {k \in 0 .. n : P(k)}
<1>1. 0 \in T
  <2> DEFINE g == [s \in SUBSET (1 .. 0) |-> base]
  <2>1. \A s \in SUBSET (1 .. 0) : s = {}
    OBVIOUS
  <2>2. g \in [SUBSET (1 .. 0) -> A] /\ Iterates(g, base, seq, 0)
    BY <2>1 DEF Iterates
  <2> QED
    BY <2>2
<1>2. ASSUME NEW k \in 0 .. (n - 1), k \in T
      PROVE  k + 1 \in T
  <2>1. PICK g \in [SUBSET (1 .. k) -> A] : Iterates(g, base, seq, k)
    BY <1>2
  <2> DEFINE e == seq[k + 1]
             h == [s \in SUBSET (1 .. (k + 1)) |->
                     IF k + 1 \in s THEN Op(g[s \ {k + 1}], e) ELSE g[s]]
  <2>2. e \in E
    OBVIOUS
  <2>3. \A s \in SUBSET (1 .. (k + 1)) :
           /\ s \ {k + 1} \in SUBSET (1 .. k)
           /\ k + 1 \notin s => s \in SUBSET (1 .. k)
    OBVIOUS
  <2>4. h \in [SUBSET (1 .. (k + 1)) -> A]
    BY <2>2, <2>3 DEF Closed
  <2>5. ASSUME NEW s \in SUBSET (1 .. (k + 1))
        PROVE  h[s] = IF s = {} THEN base ELSE Op(h[s \ {Max(s)}], seq[Max(s)])
    <3>1. CASE k + 1 \in s
      <4>1. Max(s) = k + 1
        <5>1. k + 1 \in Nat /\ \A y \in s : k + 1 >= y
          OBVIOUS
        <5> QED
          BY <3>1, <5>1, LargestIs
      <4>2. h[s \ {k + 1}] = g[s \ {k + 1}]
        BY <2>3
      <4> QED
        BY <3>1, <4>1, <4>2
    <3>2. CASE k + 1 \notin s
      <4>1. s \in SUBSET (1 .. k) /\ h[s] = g[s]
        BY <2>3, <3>2
      <4>2. g[s] = IF s = {} THEN base ELSE Op(g[s \ {Max(s)}], seq[Max(s)])
        BY <2>1, <4>1 DEF Iterates
      <4>3. s \ {Max(s)} \in SUBSET (1 .. (k + 1)) /\ k + 1 \notin s \ {Max(s)}
        BY <3>2
      <4>4. h[s \ {Max(s)}] = g[s \ {Max(s)}]
        BY <4>3
      <4> QED
        BY <4>1, <4>2, <4>4
    <3> QED
      BY <3>1, <3>2
  <2>6. Iterates(h, base, seq, k + 1)
    BY <2>4, <2>5 DEF Iterates
  <2>7. P(k + 1)
    <3> HIDE DEF h
    <3> QED
      BY <2>4, <2>6
  <2>8. k + 1 \in 0 .. n
    OBVIOUS
  <2> QED
    BY <2>7, <2>8
<1>3. n \in T
  <2> HIDE DEF T
  <2>1. \A k \in 0 .. n : k \in T
    BY <1>1, <1>2, UpTo
  <2> QED
    BY <2>1
<1> QED
  BY <1>3

\* A fold whose step stays in A is the last of a sequence of values in A, each
\* made from the one before by one step.
THEOREM FoldLeftTrace ==
    ASSUME NEW A, NEW E, NEW base \in A, NEW seq \in Seq(E), Closed(A, E)
    PROVE  \E r \in [0 .. Len(seq) -> A] : Trace(r, base, seq)
<1> DEFINE n == Len(seq)
           g == CHOOSE h : Iterates(h, base, seq, n)
           r == [k \in 0 .. n |-> g[1 .. k]]
<1>1. Iterates(g, base, seq, n)
  BY IterateExists
<1>2. Fold(base, seq) = g[1 .. n]
  <2>1. DOMAIN seq = 1 .. n
    OBVIOUS
  <2> QED
    BY <2>1, Zenon DEF Fold, FoldLeft, MapThenFoldSet, Iterates
<1> HIDE DEF g
<1>3. g[1 .. 0] = base
  BY <1>1 DEF Iterates
<1>4. ASSUME NEW k \in 1 .. n
      PROVE  g[1 .. k] = Op(g[1 .. (k - 1)], seq[k])
  <2>1. k \in 1 .. k /\ 1 .. k \in SUBSET (1 .. n) /\ n \in Nat
    OBVIOUS
  <2>2. (1 .. k) \ {k} = 1 .. (k - 1)
    OBVIOUS
  <2>3. \A y \in 1 .. k : k >= y
    OBVIOUS
  <2>4. Max(1 .. k) = k
    BY <2>1, <2>3, LargestIs
  <2> QED
    BY <1>1, <2>1, <2>2, <2>4 DEF Iterates
<1>5. \A k \in 0 .. n : g[1 .. k] \in A
  <2> DEFINE T == {k \in 0 .. n : g[1 .. k] \in A}
  <2>1. 0 \in T
    BY <1>3
  <2>2. ASSUME NEW k \in 0 .. (n - 1), k \in T
        PROVE  k + 1 \in T
    <3>1. k + 1 \in 1 .. n /\ (k + 1) - 1 = k /\ seq[k + 1] \in E
      OBVIOUS
    <3>2. g[1 .. (k + 1)] = Op(g[1 .. k], seq[k + 1])
      BY <1>4, <3>1
    <3> QED
      BY <2>2, <3>1, <3>2 DEF Closed
  <2> HIDE DEF T
  <2>3. \A k \in 0 .. n : k \in T
    BY <2>1, <2>2, UpTo
  <2> QED
    BY <2>3 DEF T
<1>6. r \in [0 .. n -> A] /\ Trace(r, base, seq)
  BY <1>2, <1>3, <1>4, <1>5 DEF Trace
<1> QED
  BY <1>6
=============================================================================
