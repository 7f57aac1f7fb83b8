--------------------------- MODULE StakingProofs ---------------------------
(***************************************************************************)
(* Theorems about Staking, for every set of validators, genesis committee, *)
(* stake, penalty, delay and bound.                                        *)
(***************************************************************************)
EXTENDS Staking, FiniteSums

\* What folds compute (FoldTheorems), for each fold of the queues.
DueFold == INSTANCE FoldTheorems WITH Op <- KeepDue
NotDueFold == INSTANCE FoldTheorems WITH Op <- KeepNotDue
JoinFold == INSTANCE FoldTheorems WITH Op <- Join
LeaveFold == INSTANCE FoldTheorems WITH Op <- Leave

\* Sequences over S that repeat nothing, and queues that repeat no key.
Distinct(S) == {s \in Seq(S) : IsInjective(s)}

DistinctKeys(q) == IsInjective([i \in DOMAIN q |-> q[i].pk])
-----------------------------------------------------------------------------
(***************************************************************************)
(* Sequences: the removal of one element, and appending one.               *)
(***************************************************************************)
\* Position j of a sequence after the removal of position i was position
\* Skip(i, j) before.
Skip(i, j) == IF j < i THEN j ELSE j + 1

LEMMA RemoveAtIs ==
    ASSUME NEW S, NEW s \in Seq(S), NEW i \in 1 .. Len(s)
    PROVE  /\ RemoveAt(s, i) \in Seq(S)
           /\ Len(RemoveAt(s, i)) = Len(s) - 1
           /\ \A j \in 1 .. (Len(s) - 1) : RemoveAt(s, i)[j] = s[Skip(i, j)]
<1> DEFINE p == SubSeq(s, 1, i - 1)
           t == SubSeq(s, i + 1, Len(s))
<1>0. Len(s) \in Nat /\ i \in Nat
  OBVIOUS
<1>1. p \in Seq(S) /\ Len(p) = i - 1 /\ \A j \in 1 .. (i - 1) : p[j] = s[j]
  OBVIOUS
<1>2. t \in Seq(S) /\ Len(t) = Len(s) - i /\ \A j \in 1 .. (Len(s) - i) : t[j] = s[i + j]
  OBVIOUS
<1>3. RemoveAt(s, i) = p \o t
  BY DEF RemoveAt
<1> HIDE DEF p, t
<1>4. p \o t \in Seq(S) /\ Len(p \o t) = Len(s) - 1
  <2>1. p \in Seq(S) /\ t \in Seq(S)
    BY <1>1, <1>2
  <2>2. p \o t \in Seq(S) /\ Len(p \o t) = Len(p) + Len(t)
    BY <2>1
  <2>3. (i - 1) + (Len(s) - i) = Len(s) - 1
    BY <1>0
  <2> QED
    BY <1>1, <1>2, <2>2, <2>3
<1>5. ASSUME NEW j \in 1 .. (Len(s) - 1)
      PROVE  (p \o t)[j] = s[Skip(i, j)]
  <2>1. CASE j < i
    BY <1>1, <1>2, <2>1 DEF Skip
  <2>2. CASE j >= i
    <3>1. (p \o t)[j] = t[j - (i - 1)]
      BY <1>1, <1>2, <2>2
    <3>2. j - (i - 1) \in 1 .. (Len(s) - i) /\ i + (j - (i - 1)) = j + 1
      BY <2>2
    <3> QED
      BY <1>2, <2>2, <3>1, <3>2 DEF Skip
  <2>3. j < i \/ j >= i
    BY <1>0
  <2> QED
    BY <2>1, <2>2, <2>3
<1> QED
  BY <1>3, <1>4, <1>5

\* The positions that are left are different ones.
LEMMA SkipIs ==
    ASSUME NEW n \in Nat, NEW i \in 1 .. n
    PROVE  /\ \A j \in 1 .. (n - 1) : Skip(i, j) \in 1 .. n /\ Skip(i, j) # i
           /\ \A j, k \in 1 .. (n - 1) : Skip(i, j) = Skip(i, k) => j = k
BY DEF Skip

\* The first position with a property is one.
LEMMA FirstIs ==
    ASSUME NEW n \in Nat, NEW I \in SUBSET (1 .. n), I # {}
    PROVE  Min(I) \in I
<1>1. I \subseteq Nat
  OBVIOUS
<1>2. \E x \in I : \A y \in I : x =< y
  BY <1>1, Least
<1> QED
  BY <1>2 DEF Min

\* What is left of a committee when e leaves.
LEMMA RemoveFirstIs ==
    ASSUME NEW S, NEW s \in Distinct(S), NEW e
    PROVE  RemoveFirst(s, e) \in Distinct(S)
<1>1. s \in Seq(S) /\ IsInjective(s)
  BY DEF Distinct
<1>2. CASE \E i \in 1 .. Len(s) : s[i] = e
  <2> DEFINE I == {i \in 1 .. Len(s) : s[i] = e}
             i == Min(I)
             r == RemoveAt(s, i)
  <2>1. i \in 1 .. Len(s)
    <3>1. I \in SUBSET (1 .. Len(s)) /\ I # {} /\ Len(s) \in Nat
      BY <1>1, <1>2
    <3>2. i \in I
      BY <3>1, FirstIs
    <3> QED
      BY <3>2
  <2>2. RemoveFirst(s, e) = r
    BY <1>2 DEF RemoveFirst, SelectInSeq
  <2> HIDE DEF i
  <2>3. r \in Seq(S) /\ Len(r) = Len(s) - 1 /\ \A j \in 1 .. (Len(s) - 1) : r[j] = s[Skip(i, j)]
    BY <1>1, <2>1, RemoveAtIs
  <2> HIDE DEF r
  <2>4. IsInjective(r)
    <3>1. Len(s) \in Nat /\ DOMAIN r = 1 .. (Len(s) - 1) /\ DOMAIN s = 1 .. Len(s)
      BY <1>1, <2>3
    <3>2. ASSUME NEW j \in DOMAIN r, NEW k \in DOMAIN r, r[j] = r[k]
          PROVE  j = k
      <4>1. r[j] = s[Skip(i, j)] /\ r[k] = s[Skip(i, k)]
        BY <2>3, <3>1
      <4>2. Skip(i, j) \in DOMAIN s /\ Skip(i, k) \in DOMAIN s
        BY <2>1, <3>1, SkipIs
      <4>3. Skip(i, j) = Skip(i, k)
        BY <1>1, <3>2, <4>1, <4>2 DEF IsInjective
      <4> QED
        BY <2>1, <3>1, <4>3, SkipIs
    <3> QED
      BY <3>2 DEF IsInjective
  <2> QED
    BY <2>2, <2>3, <2>4 DEF Distinct
<1>3. CASE ~\E i \in 1 .. Len(s) : s[i] = e
  BY <1>3 DEF RemoveFirst
<1> QED
  BY <1>2, <1>3

\* What is left of a queue when its first entry of v is dropped.
LEMMA DequeueIs ==
    ASSUME NEW q \in Seq(Entry), DistinctKeys(q), NEW v
    PROVE  /\ Dequeue(q, v) \in Seq(Entry)
           /\ DistinctKeys(Dequeue(q, v))
           /\ \A j \in DOMAIN Dequeue(q, v) :
                 /\ Dequeue(q, v)[j].pk # v
                 /\ \E k \in DOMAIN q : Dequeue(q, v)[j] = q[k]
<1>1. \A j, k \in DOMAIN q : q[j].pk = q[k].pk => j = k
  BY DEF DistinctKeys, IsInjective
<1>2. CASE \E i \in 1 .. Len(q) : q[i].pk = v
  <2> DEFINE I == {i \in 1 .. Len(q) : q[i].pk = v}
             i == Min(I)
             r == RemoveAt(q, i)
  <2>1. i \in 1 .. Len(q) /\ q[i].pk = v
    <3>1. I \in SUBSET (1 .. Len(q)) /\ I # {} /\ Len(q) \in Nat
      BY <1>2
    <3>2. i \in I
      BY <3>1, FirstIs
    <3> QED
      BY <3>2
  <2>2. Dequeue(q, v) = r
    BY <1>2 DEF Dequeue, RemoveFirstMatch, SelectInSeq
  <2> HIDE DEF i
  <2>3. /\ r \in Seq(Entry) /\ Len(r) = Len(q) - 1
        /\ \A j \in 1 .. (Len(q) - 1) : r[j] = q[Skip(i, j)]
    BY <2>1, RemoveAtIs
  <2> HIDE DEF r
  <2>4. Len(q) \in Nat /\ DOMAIN r = 1 .. (Len(q) - 1) /\ DOMAIN q = 1 .. Len(q)
    BY <2>3
  <2>5. \A j \in DOMAIN r :
           r[j] = q[Skip(i, j)] /\ Skip(i, j) \in DOMAIN q /\ Skip(i, j) # i
    BY <2>1, <2>3, <2>4, SkipIs
  <2>6. DistinctKeys(r)
    <3>1. ASSUME NEW j \in DOMAIN r, NEW k \in DOMAIN r, r[j].pk = r[k].pk
          PROVE  j = k
      <4>1. Skip(i, j) = Skip(i, k)
        BY <1>1, <2>5, <3>1
      <4> QED
        BY <2>1, <2>4, <4>1, SkipIs
    <3> QED
      BY <3>1 DEF DistinctKeys, IsInjective
  <2>7. \A j \in DOMAIN r : r[j].pk # v /\ \E k \in DOMAIN q : r[j] = q[k]
    BY <1>1, <2>1, <2>4, <2>5
  <2> QED
    BY <2>2, <2>3, <2>6, <2>7
<1>3. CASE ~\E i \in 1 .. Len(q) : q[i].pk = v
  <2>1. Dequeue(q, v) = q
    BY <1>3 DEF Dequeue, RemoveFirstMatch
  <2> QED
    BY <1>3, <2>1
<1> QED
  BY <1>2, <1>3

\* Appending what is new keeps the elements different.
LEMMA AppendDistinct ==
    ASSUME NEW S, NEW s \in Distinct(S), NEW e \in S, ~Contains(s, e)
    PROVE  Append(s, e) \in Distinct(S)
<1>1. s \in Seq(S) /\ Len(s) \in Nat /\ DOMAIN s = 1 .. Len(s)
  BY DEF Distinct
<1>2. \A i, j \in 1 .. Len(s) : s[i] = s[j] => i = j
  BY <1>1 DEF Distinct, IsInjective
<1>3. \A i \in 1 .. Len(s) : s[i] # e
  BY DEF Contains
<1> DEFINE t == Append(s, e)
<1>4. /\ t \in Seq(S) /\ DOMAIN t = 1 .. (Len(s) + 1)
      /\ t[Len(s) + 1] = e /\ \A i \in 1 .. Len(s) : t[i] = s[i]
  BY <1>1
<1> HIDE DEF t
<1>5. \A i \in DOMAIN t : i \in 1 .. Len(s) \/ i = Len(s) + 1
  BY <1>1, <1>4
<1>6. \A i, j \in DOMAIN t : t[i] = t[j] => i = j
  BY <1>2, <1>3, <1>4, <1>5
<1> QED
  BY <1>4, <1>6 DEF t, Distinct, IsInjective

LEMMA AppendKeys ==
    ASSUME NEW q \in Seq(Entry), DistinctKeys(q), NEW e \in Entry,
           \A i \in DOMAIN q : q[i].pk # e.pk
    PROVE  Append(q, e) \in Seq(Entry) /\ DistinctKeys(Append(q, e))
<1>1. Len(q) \in Nat /\ DOMAIN q = 1 .. Len(q)
  OBVIOUS
<1>2. \A i, j \in 1 .. Len(q) : q[i].pk = q[j].pk => i = j
  BY <1>1 DEF DistinctKeys, IsInjective
<1> DEFINE t == Append(q, e)
<1>3. /\ t \in Seq(Entry) /\ DOMAIN t = 1 .. (Len(q) + 1)
      /\ t[Len(q) + 1] = e /\ \A i \in 1 .. Len(q) : t[i] = q[i]
  OBVIOUS
<1> HIDE DEF t
<1>4. \A i \in DOMAIN t : i \in 1 .. Len(q) \/ i = Len(q) + 1
  BY <1>1, <1>3
<1>5. \A i, j \in DOMAIN t : t[i].pk = t[j].pk => i = j
  BY <1>1, <1>2, <1>3, <1>4
<1> QED
  BY <1>3, <1>5 DEF t, DistinctKeys, IsInjective
-----------------------------------------------------------------------------
(***************************************************************************)
(* The queues.                                                             *)
(***************************************************************************)
\* The folds of the model are those of the instances.
LEMMA FoldsAre ==
    ASSUME NEW q, NEW c
    PROVE  /\ Due(q) = DueFold!Fold(<<>>, q)
           /\ NotDue(q) = NotDueFold!Fold(<<>>, q)
           /\ Activate(c) = JoinFold!Fold(c, Due(pending))
           /\ Retire(c) = LeaveFold!Fold(c, Due(exiting))
<1>1. Due(q) = DueFold!Fold(<<>>, q)
  BY Zenon DEF Due, FoldLeft, MapThenFoldSet, Max, DueFold!Fold, DueFold!FoldLeft,
               DueFold!MapThenFoldSet, DueFold!Max
<1>2. NotDue(q) = NotDueFold!Fold(<<>>, q)
  BY Zenon DEF NotDue, FoldLeft, MapThenFoldSet, Max, NotDueFold!Fold, NotDueFold!FoldLeft,
               NotDueFold!MapThenFoldSet, NotDueFold!Max
<1>3. Activate(c) = JoinFold!Fold(c, Due(pending))
  BY Zenon DEF Activate, FoldLeft, MapThenFoldSet, Max, JoinFold!Fold, JoinFold!FoldLeft,
               JoinFold!MapThenFoldSet, JoinFold!Max
<1>4. Retire(c) = LeaveFold!Fold(c, Due(exiting))
  BY Zenon DEF Retire, FoldLeft, MapThenFoldSet, Max, LeaveFold!Fold, LeaveFold!FoldLeft,
               LeaveFold!MapThenFoldSet, LeaveFold!Max
<1> QED
  BY <1>1, <1>2, <1>3, <1>4

\* The due entries of a queue are entries of it.
LEMMA DueIs ==
    ASSUME NEW q \in Seq(Entry)
    PROVE  Due(q) \in Seq({e \in Entry : e.at <= view /\ \E k \in DOMAIN q : e = q[k]})
<1> DEFINE In == {e \in Entry : \E k \in DOMAIN q : e = q[k]}
           Out == {e \in In : e.at <= view}
<1>1. q \in Seq(In)
  OBVIOUS
<1>2. DueFold!Closed(Seq(Out), In)
  BY DEF DueFold!Closed, KeepDue
<1>3. <<>> \in Seq(Out)
  OBVIOUS
<1> HIDE DEF In, Out
<1>4. PICK r \in [0 .. Len(q) -> Seq(Out)] : DueFold!Trace(r, <<>>, q)
  BY <1>1, <1>2, <1>3, DueFold!FoldLeftTrace
<1>5. r[Len(q)] = Due(q) /\ Len(q) \in 0 .. Len(q)
  BY <1>4, FoldsAre DEF DueFold!Trace
<1>6. Due(q) \in Seq(Out)
  BY <1>4, <1>5
<1> QED
  BY <1>6 DEF In, Out

\* Those that are not due stay in the queue, one for each key.
LEMMA NotDueIs ==
    ASSUME NEW q \in Seq(Entry)
    PROVE  /\ NotDue(q) \in Seq(Entry)
           /\ \A j \in DOMAIN NotDue(q) :
                 NotDue(q)[j].at > view /\ \E k \in DOMAIN q : NotDue(q)[j] = q[k]
           /\ DistinctKeys(q) => DistinctKeys(NotDue(q))
<1> DEFINE n == Len(q)
<1>1. <<>> \in Seq(Entry) /\ n \in Nat /\ DOMAIN q = 1 .. n
  OBVIOUS
<1>2. NotDueFold!Closed(Seq(Entry), Entry)
  BY DEF NotDueFold!Closed, KeepNotDue
<1>3. PICK r \in [0 .. n -> Seq(Entry)] : NotDueFold!Trace(r, <<>>, q)
  BY <1>1, <1>2, NotDueFold!FoldLeftTrace
<1>4. /\ r[0] = <<>> /\ r[n] = NotDue(q)
      /\ \A k \in 1 .. n : r[k] = IF q[k].at > view THEN Append(r[k - 1], q[k]) ELSE r[k - 1]
  BY <1>3, FoldsAre DEF NotDueFold!Trace, KeepNotDue
<1> DEFINE From(k) == \A j \in DOMAIN r[k] :
                         r[k][j].at > view /\ \E i \in 1 .. k : r[k][j] = q[i]
           Good(k) == From(k) /\ (DistinctKeys(q) => DistinctKeys(r[k]))
           T == {k \in 0 .. n : Good(k)}
<1>5. 0 \in T
  BY <1>1, <1>4 DEF DistinctKeys, IsInjective
<1>6. ASSUME NEW k \in 0 .. (n - 1), k \in T
      PROVE  k + 1 \in T
  <2>1. k + 1 \in 1 .. n /\ (k + 1) - 1 = k /\ q[k + 1] \in Entry /\ k \in 0 .. n
    BY <1>1
  <2>2. r[k] \in Seq(Entry) /\ From(k) /\ (DistinctKeys(q) => DistinctKeys(r[k]))
    BY <1>3, <1>6, <2>1
  <2>3. CASE q[k + 1].at > view
    <3> DEFINE s == r[k]
               t == Append(s, q[k + 1])
    <3>1. r[k + 1] = t
      BY <1>4, <2>1, <2>3
    <3>2. /\ DOMAIN t = 1 .. (Len(s) + 1) /\ DOMAIN s = 1 .. Len(s) /\ Len(s) \in Nat
          /\ t[Len(s) + 1] = q[k + 1] /\ \A j \in 1 .. Len(s) : t[j] = s[j]
      BY <2>1, <2>2
    <3>3. \A j \in DOMAIN t : j \in DOMAIN s \/ j = Len(s) + 1
      BY <3>2
    <3>4. From(k + 1)
      <4>1. \A j \in DOMAIN t : t[j].at > view /\ \E i \in 1 .. (k + 1) : t[j] = q[i]
        <5> TAKE j \in DOMAIN t
        <5>1. CASE j \in DOMAIN s
          <6>1. t[j] = s[j] /\ s[j].at > view
            BY <2>2, <3>2, <5>1
          <6>2. PICK i \in 1 .. k : s[j] = q[i]
            BY <2>2, <5>1
          <6>3. i \in 1 .. (k + 1)
            BY <2>1
          <6> QED
            BY <6>1, <6>2, <6>3
        <5>2. CASE j = Len(s) + 1
          <6>1. k + 1 \in 1 .. (k + 1)
            BY <2>1
          <6> QED
            BY <2>3, <3>2, <5>2, <6>1
        <5> QED
          BY <3>3, <5>1, <5>2
      <4> QED
        BY <3>1, <4>1
    <3>5. DistinctKeys(q) => DistinctKeys(r[k + 1])
      <4> SUFFICES ASSUME DistinctKeys(q) PROVE DistinctKeys(t)
        BY <3>1
      <4>1. \A j \in DOMAIN s : s[j].pk # q[k + 1].pk
        <5> TAKE j \in DOMAIN s
        <5>1. PICK i \in 1 .. k : s[j] = q[i]
          BY <2>2
        <5>2. i \in DOMAIN q /\ k + 1 \in DOMAIN q /\ i # k + 1
          BY <1>1, <2>1
        <5> QED
          BY <5>1, <5>2 DEF DistinctKeys, IsInjective
      <4> QED
        BY <2>1, <2>2, <4>1, AppendKeys
    <3> QED
      BY <2>1, <3>4, <3>5
  <2>4. CASE ~(q[k + 1].at > view)
    <3>1. r[k + 1] = r[k]
      BY <1>4, <2>1, <2>4
    <3>2. From(k + 1)
      <4>1. \A i \in 1 .. k : i \in 1 .. (k + 1)
        BY <2>1
      <4> QED
        BY <2>2, <3>1, <4>1
    <3> QED
      BY <2>1, <2>2, <3>1, <3>2
  <2> QED
    BY <2>3, <2>4
<1>7. n \in T
  <2> HIDE DEF T
  <2>1. \A k \in 0 .. n : k \in T
    BY <1>1, <1>5, <1>6, UpTo
  <2> QED
    BY <1>1, <2>1
<1>8. From(n) /\ (DistinctKeys(q) => DistinctKeys(r[n]))
  BY <1>7
<1>9. \A j \in DOMAIN r[n] : r[n][j].at > view /\ \E k \in DOMAIN q : r[n][j] = q[k]
  BY <1>1, <1>8
<1>10. r[n] \in Seq(Entry)
  BY <1>1, <1>3
<1> QED
  BY <1>4, <1>8, <1>9, <1>10

\* Activation: whoever has a seat had one, or was due.
LEMMA ActivateIs ==
    ASSUME NEW S, NEW c \in Distinct(S), Due(pending) \in Seq({e \in Entry : e.pk \in S})
    PROVE  Activate(c) \in Distinct(S)
<1> DEFINE E == {e \in Entry : e.pk \in S}
           q == Due(pending)
<1>1. JoinFold!Closed(Distinct(S), E)
  BY AppendDistinct DEF JoinFold!Closed, Join
<1> HIDE DEF E, q
<1>2. q \in Seq(E) /\ Len(q) \in Nat
  BY DEF E, q
<1>3. PICK r \in [0 .. Len(q) -> Distinct(S)] : JoinFold!Trace(r, c, q)
  BY <1>1, <1>2, JoinFold!FoldLeftTrace
<1>4. r[Len(q)] = JoinFold!Fold(c, q) /\ Len(q) \in 0 .. Len(q)
  BY <1>2, <1>3 DEF JoinFold!Trace
<1> QED
  BY <1>3, <1>4, FoldsAre DEF q

\* Retirement gives nobody a seat.
LEMMA RetireIs ==
    ASSUME NEW S, NEW c \in Distinct(S), Due(exiting) \in Seq(Entry)
    PROVE  Retire(c) \in Distinct(S)
<1> DEFINE q == Due(exiting)
<1>1. LeaveFold!Closed(Distinct(S), Entry)
  BY RemoveFirstIs DEF LeaveFold!Closed, Leave
<1> HIDE DEF q
<1>2. q \in Seq(Entry) /\ Len(q) \in Nat
  BY DEF q
<1>3. PICK r \in [0 .. Len(q) -> Distinct(S)] : LeaveFold!Trace(r, c, q)
  BY <1>1, <1>2, LeaveFold!FoldLeftTrace
<1>4. r[Len(q)] = LeaveFold!Fold(c, q) /\ Len(q) \in 0 .. Len(q)
  BY <1>2, <1>3 DEF LeaveFold!Trace
<1> QED
  BY <1>3, <1>4, FoldsAre DEF q
-----------------------------------------------------------------------------
(***************************************************************************)
(* Amounts.                                                                *)
(***************************************************************************)
LEMMA Constants ==
    /\ Word \in Nat /\ 0 < Word /\ GenesisStake \in 0 .. (Word - 1)
    /\ MinStake \in Nat /\ 0 < MinStake
    /\ EquivocationSlash \in Nat /\ LivenessPenalty \in Nat
    /\ MaxScore \in Nat /\ Delay \in Nat
    /\ MaxView \in Nat /\ MaxTxs \in Nat /\ MaxFailures \in Nat
BY StakingAssumption

\* Arithmetic modulo the word: it loses value or none.
LEMMA Wrapped ==
    ASSUME NEW x \in Nat
    PROVE  x % Word \in 0 .. (Word - 1) /\ x % Word =< x /\ (x < Word => x % Word = x)
<1>1. Word \in Nat /\ 0 < Word
  BY Constants
<1> QED
  BY <1>1

LEMMA KeyIs ==
    ASSUME NEW q \in Seq(Entry), NEW i \in DOMAIN q
    PROVE  q[i].pk \in Validator
<1>1. q[i] \in Entry
  OBVIOUS
<1> QED
  BY <1>1 DEF Entry

LEMMA MinusIs ==
    ASSUME NEW x \in Nat, NEW y \in Nat
    PROVE  Minus(x, y) \in 0 .. x
BY DEF Minus
-----------------------------------------------------------------------------
(***************************************************************************)
(* The invariant.  Its parts need each other: the committee that           *)
(* persist_state writes back has distinct seats because the one in memory  *)
(* has, pending validators are inactive because it is the persisted one as *)
(* long as no block failed, no seat is lost because it never lacks a       *)
(* member,                                                                 *)
(* and a slashed validator leaves the queue because it waits only once.    *)
(***************************************************************************)
RegistryOK ==
    /\ committee \in Distinct(Validator) /\ known \in Distinct(Validator)
    /\ pending \in Seq(Entry) /\ DistinctKeys(pending)
    /\ exiting \in Seq(Entry)

Funds == [Validator -> 0 .. (Word - 1)]

AmountsOK ==
    /\ stakes \in Funds /\ balance \in Funds /\ accounts \subseteq Validator
    /\ overflowed \in BOOLEAN
    /\ scores \in [Validator -> 0 .. MaxScore]

ExecutionOK ==
    /\ phase \in {"idle", "evidence", "payload"}
    /\ view \in 0 .. MaxView /\ txs \in 0 .. MaxTxs /\ failures \in 0 .. MaxFailures

\* The copy of the committee in memory has all its members; between two blocks it
\* is the stored one, unless an execution was cut short.
CopyCurrent ==
    /\ failures = 0 /\ phase = "idle" => known = committee
    /\ \A v \in Validator : Contains(committee, v) => Contains(known, v)

Inv == RegistryOK /\ AmountsOK /\ ExecutionOK /\ CopyCurrent /\ PendingFunded

LEMMA InvIs == Inv => TypeOK /\ SeatsDistinct
BY DEF Inv, RegistryOK, AmountsOK, ExecutionOK, Funds, TypeOK, SeatsDistinct, Distinct,
       DistinctKeys

\* The members of a committee are those of its set.
LEMMA Members ==
    ASSUME NEW S, NEW c \in Distinct(S), NEW v, Contains(c, v)
    PROVE  v \in S
BY DEF Distinct, Contains

LEMMA InitInv == Init => Inv
<1> SUFFICES ASSUME Init PROVE Inv
  OBVIOUS
<1>1. RegistryOK
  <2>1. committee \in Distinct(Validator) /\ known \in Distinct(Validator)
    BY StakingAssumption DEF Init, Distinct
  <2>2. <<>> \in Seq(Entry) /\ DistinctKeys(<<>>)
    BY DEF DistinctKeys, IsInjective
  <2> QED
    BY <2>1, <2>2 DEF Init, RegistryOK
<1>2. AmountsOK
  <2>1. stakes \in Funds
    BY Constants DEF Init, Funds
  <2>2. balance \in Funds
    BY Constants DEF Init, Funds
  <2>3. scores \in [Validator -> 0 .. MaxScore]
    BY Constants DEF Init
  <2> QED
    BY <2>1, <2>2, <2>3, StakingAssumption DEF Init, AmountsOK
<1>3. ExecutionOK
  BY Constants DEF Init, ExecutionOK
<1>4. CopyCurrent /\ PendingFunded
  BY DEF Init, CopyCurrent, PendingFunded
<1> QED
  BY <1>1, <1>2, <1>3, <1>4 DEF Inv

\* Steps of the executor that change neither registry nor funds.
LEMMA StartBlockInv ==
    ASSUME Inv, NEW v \in (view + 1) .. MaxView, StartBlock(v)
    PROVE  Inv'
<1> USE DEF Inv, StartBlock, registry, funds
<1>1. RegistryOK'
  BY DEF RegistryOK
<1>2. AmountsOK'
  BY DEF AmountsOK
<1>3. ExecutionOK'
  BY Constants DEF ExecutionOK
<1>4. CopyCurrent'
  BY DEF CopyCurrent
<1>5. PendingFunded'
  BY DEF PendingFunded
<1> QED
  BY <1>1, <1>2, <1>3, <1>4, <1>5

LEMMA FailBlockInv == ASSUME Inv, FailBlock PROVE Inv'
<1> USE DEF Inv, FailBlock, registry, funds
<1>1. RegistryOK'
  BY DEF RegistryOK
<1>2. AmountsOK'
  BY DEF AmountsOK
<1>3. ExecutionOK' /\ failures' # 0
  BY Constants DEF ExecutionOK
<1>4. CopyCurrent' /\ PendingFunded'
  BY <1>3 DEF CopyCurrent, PendingFunded
<1> QED
  BY <1>1, <1>2, <1>3, <1>4

LEMMA RestartInv == ASSUME Inv, Restart PROVE Inv'
<1> USE DEF Inv, Restart, registry, funds
<1>1. RegistryOK'
  BY DEF RegistryOK
<1>2. AmountsOK'
  BY DEF AmountsOK
<1>3. ExecutionOK' /\ (failures' = 0 => failures = 0)
  BY Constants DEF ExecutionOK
<1>4. CopyCurrent'
  BY DEF CopyCurrent
<1>5. PendingFunded'
  BY <1>3 DEF PendingFunded
<1> QED
  BY <1>1, <1>2, <1>3, <1>4, <1>5

\* persist_state writes back what is stored already, unless a block failed.
LEMMA PersistStateInv == ASSUME Inv, PersistState PROVE Inv'
<1> USE DEF Inv, PersistState, funds, execution
<1>1. RegistryOK'
  BY DEF RegistryOK
<1>2. AmountsOK'
  BY DEF AmountsOK
<1>3. ExecutionOK'
  BY DEF ExecutionOK
<1>4. CopyCurrent'
  BY DEF CopyCurrent
<1>5. PendingFunded'
  <2>1. failures = 0 => committee' = committee
    BY DEF CopyCurrent
  <2> QED
    BY <2>1 DEF PendingFunded
<1> QED
  BY <1>1, <1>2, <1>3, <1>4, <1>5

\* A committee is one of its own members; whoever is left had a seat.
LEMMA OwnMembers ==
    ASSUME NEW c \in Distinct(Validator)
    PROVE  c \in Distinct({v \in Validator : Contains(c, v)})
<1>1. c \in Seq(Validator) /\ IsInjective(c) /\ DOMAIN c = 1 .. Len(c)
  BY DEF Distinct
<1>2. \A i \in DOMAIN c : Contains(c, c[i]) /\ c[i] \in Validator
  BY <1>1 DEF Contains
<1>3. c \in Seq({v \in Validator : Contains(c, v)})
  BY <1>1, <1>2
<1> QED
  BY <1>1, <1>3 DEF Distinct

LEMMA LeftOver ==
    ASSUME NEW c \in Distinct(Validator), NEW e, NEW v, Contains(RemoveFirst(c, e), v)
    PROVE  Contains(c, v)
<1> DEFINE S == {w \in Validator : Contains(c, w)}
<1>1. c \in Distinct(S)
  BY OwnMembers
<1> HIDE DEF S
<1>2. RemoveFirst(c, e) \in Distinct(S)
  BY <1>1, RemoveFirstIs
<1>3. v \in S
  BY <1>2, Members
<1> QED
  BY <1>3 DEF S

\* Evidence costs stake; below the minimum the offender loses its seat and its
\* place in the queue.
LEMMA SlashEquivocationInv ==
    ASSUME Inv, NEW o \in Validator, SlashEquivocation(o)
    PROVE  Inv'
<1> USE DEF SlashEquivocation, funds, execution
<1>1. RegistryOK /\ AmountsOK /\ ExecutionOK /\ PendingFunded
  BY DEF Inv
<1>2. /\ stakes' \in Funds /\ stakes'[o] \in Nat
      /\ \A v \in Validator \ {o} : stakes'[v] = stakes[v]
  <2>1. stakes \in Funds /\ stakes[o] \in 0 .. (Word - 1) /\ Word \in Nat
    BY <1>1, Constants DEF AmountsOK, Funds
  <2>2. Minus(stakes[o], EquivocationSlash) \in 0 .. stakes[o]
    <3>1. stakes[o] \in Nat /\ EquivocationSlash \in Nat
      BY <2>1, Constants
    <3> QED
      BY <3>1, MinusIs
  <2>3. Minus(stakes[o], EquivocationSlash) \in 0 .. (Word - 1)
    BY <2>1, <2>2
  <2> QED
    BY <2>1, <2>3 DEF Funds
<1>3. CASE stakes'[o] < MinStake
  <2>1. /\ pending' = Dequeue(pending, o) /\ committee' = RemoveFirst(committee, o)
    BY <1>3
  <2>2. /\ pending' \in Seq(Entry) /\ DistinctKeys(pending')
        /\ \A j \in DOMAIN pending' :
              pending'[j].pk # o /\ \E k \in DOMAIN pending : pending'[j] = pending[k]
    BY <1>1, <2>1, DequeueIs DEF RegistryOK
  <2>3. committee' \in Distinct(Validator)
    BY <1>1, <2>1, RemoveFirstIs DEF RegistryOK
  <2>4. RegistryOK'
    BY <1>1, <2>2, <2>3 DEF RegistryOK
  <2>5. PendingFunded'
    <3> SUFFICES ASSUME failures = 0, ~overflowed, NEW j \in DOMAIN pending'
                 PROVE  ~Contains(committee', pending'[j].pk) /\ stakes'[pending'[j].pk] >= MinStake
      BY DEF PendingFunded
    <3>1. PICK k \in DOMAIN pending : pending'[j] = pending[k]
      BY <2>2
    <3>2. pending[k].pk \in Validator /\ pending[k].pk # o
      BY <1>1, <2>2, <3>1, KeyIs DEF RegistryOK
    <3>3. ~Contains(committee, pending[k].pk) /\ stakes[pending[k].pk] >= MinStake
      BY <1>1 DEF PendingFunded
    <3>4. ~Contains(committee', pending[k].pk)
      BY <1>1, <2>1, <3>3, LeftOver DEF RegistryOK
    <3> QED
      BY <1>2, <3>1, <3>2, <3>3, <3>4
  <2>6. CopyCurrent'
    <3>1. \A v : Contains(committee', v) => Contains(committee, v)
      BY <1>1, <2>1, LeftOver DEF RegistryOK
    <3> QED
      BY <3>1 DEF Inv, CopyCurrent
  <2> QED
    BY <1>1, <1>2, <2>4, <2>5, <2>6 DEF Inv, AmountsOK, ExecutionOK
<1>4. CASE ~(stakes'[o] < MinStake)
  <2>1. UNCHANGED <<pending, committee>>
    BY <1>4
  <2>2. stakes'[o] >= MinStake
    BY <1>2, <1>4, Constants
  <2>3. PendingFunded'
    <3> SUFFICES ASSUME failures = 0, ~overflowed, NEW j \in DOMAIN pending
                 PROVE  ~Contains(committee, pending[j].pk) /\ stakes'[pending[j].pk] >= MinStake
      BY <2>1 DEF PendingFunded
    <3>1. pending[j].pk \in Validator
      BY <1>1, KeyIs DEF RegistryOK
    <3> QED
      BY <1>1, <1>2, <2>2, <3>1 DEF PendingFunded
  <2> QED
    BY <1>1, <1>2, <2>1, <2>3 DEF Inv, RegistryOK, AmountsOK, ExecutionOK, CopyCurrent
<1> QED
  BY <1>3, <1>4

\* The leader that is penalized has a seat, so it is not waiting for one.
LEMMA FailedLeaderIs ==
    ASSUME Inv, committee # <<>>
    PROVE  FailedLeader \in Validator /\ Contains(committee, FailedLeader)
<1>1. committee \in Seq(Validator) /\ Len(committee) \in Nat /\ Len(committee) # 0
  BY DEF Inv, RegistryOK, Distinct
<1>2. view \in Int
  BY Constants DEF Inv, ExecutionOK
<1> DEFINE n == Len(committee)
           i == ((view - 1) % n) + 1
<1>3. i \in 1 .. n
  <2> HIDE DEF n
  <2>1. n \in Nat /\ n # 0
    BY <1>1 DEF n
  <2>2. (view - 1) % n \in 0 .. (n - 1)
    BY <1>2, <2>1
  <2> QED
    BY <2>1, <2>2
<1>4. FailedLeader = committee[i]
  BY DEF FailedLeader
<1> QED
  BY <1>1, <1>3, <1>4 DEF Contains

LEMMA ProcessLivenessInv ==
    ASSUME Inv, NEW author \in Validator, NEW timedOut \in BOOLEAN,
           ProcessLiveness(author, timedOut)
    PROVE  Inv'
<1> USE DEF ProcessLiveness, funds
<1>1. RegistryOK /\ AmountsOK /\ ExecutionOK /\ PendingFunded
  BY DEF Inv
<1> DEFINE rewarded == [scores EXCEPT ![author] = Minus(@, 1)]
<1>2. rewarded \in [Validator -> 0 .. MaxScore]
  <2>1. scores[author] \in 0 .. MaxScore /\ MaxScore \in Nat
    BY <1>1, Constants DEF AmountsOK
  <2>2. Minus(scores[author], 1) \in 0 .. scores[author]
    <3>1. scores[author] \in Nat /\ 1 \in Nat
      BY <2>1
    <3> QED
      BY <3>1, MinusIs
  <2>3. Minus(scores[author], 1) \in 0 .. MaxScore
    BY <2>1, <2>2
  <2> QED
    BY <1>1, <2>3 DEF AmountsOK
<1>3. ExecutionOK' /\ ((\A v : Contains(committee', v) => Contains(committee, v)) => CopyCurrent')
  BY <1>1 DEF Inv, ExecutionOK, CopyCurrent
<1>4. CASE timedOut /\ view > 1 /\ committee # <<>>
  <2> DEFINE f == FailedLeader
             score == rewarded[f] + 1
  <2>1. f \in Validator /\ Contains(committee, f)
    BY <1>4, FailedLeaderIs
  <2>2. /\ stakes' = [stakes EXCEPT ![f] = Minus(@, LivenessPenalty)]
        /\ scores' = [rewarded EXCEPT ![f] = IF score > MaxScore THEN 0 ELSE score]
        /\ committee' = IF score > MaxScore THEN RemoveFirst(committee, f) ELSE committee
    BY <1>4 DEF Penalize
  <2> HIDE DEF f
  <2>3. scores' \in [Validator -> 0 .. MaxScore]
    <3>1. rewarded[f] \in 0 .. MaxScore /\ MaxScore \in Nat
      BY <1>2, <2>1, Constants
    <3>2. (IF score > MaxScore THEN 0 ELSE score) \in 0 .. MaxScore
      BY <3>1
    <3> QED
      BY <1>2, <2>2, <3>2
  <2>4. stakes' \in Funds /\ \A v \in Validator \ {f} : stakes'[v] = stakes[v]
    <3>1. stakes \in Funds /\ stakes[f] \in 0 .. (Word - 1) /\ Word \in Nat
      BY <1>1, <2>1, Constants DEF AmountsOK, Funds
    <3>2. Minus(stakes[f], LivenessPenalty) \in 0 .. stakes[f]
      <4>1. stakes[f] \in Nat /\ LivenessPenalty \in Nat
        BY <3>1, Constants
      <4> QED
        BY <4>1, MinusIs
    <3>3. Minus(stakes[f], LivenessPenalty) \in 0 .. (Word - 1)
      BY <3>1, <3>2
    <3> QED
      BY <2>1, <2>2, <3>1, <3>3 DEF Funds
  <2>5. /\ committee' \in Distinct(Validator)
        /\ \A v : Contains(committee', v) => Contains(committee, v)
    BY <1>1, <2>2, RemoveFirstIs, LeftOver DEF RegistryOK
  <2>6. RegistryOK' /\ AmountsOK'
    BY <1>1, <2>3, <2>4, <2>5 DEF RegistryOK, AmountsOK
  <2>7. PendingFunded'
    <3> SUFFICES ASSUME failures = 0, ~overflowed, NEW j \in DOMAIN pending
                 PROVE  ~Contains(committee', pending[j].pk) /\ stakes'[pending[j].pk] >= MinStake
      BY DEF PendingFunded
    <3>1. pending[j].pk \in Validator
      BY <1>1, KeyIs DEF RegistryOK
    <3>2. ~Contains(committee, pending[j].pk) /\ stakes[pending[j].pk] >= MinStake
      BY <1>1 DEF PendingFunded
    <3> QED
      BY <2>1, <2>4, <2>5, <3>1, <3>2
  <2> QED
    BY <1>3, <2>5, <2>6, <2>7 DEF Inv
<1>5. CASE ~(timedOut /\ view > 1 /\ committee # <<>>)
  <2>1. scores' = rewarded /\ UNCHANGED <<stakes, committee>>
    BY <1>5
  <2> QED
    BY <1>1, <1>2, <1>3, <2>1 DEF Inv, RegistryOK, AmountsOK, PendingFunded
<1> QED
  BY <1>4, <1>5
-----------------------------------------------------------------------------
(***************************************************************************)
(* Transactions.                                                           *)
(***************************************************************************)
\* What a call of the staking contract does to the funds: only those of its
\* sender change; together they lose at least the payment, less what is
\* locked of it.  Without an overflow the stake is exact.
LEMMA PayIs ==
    ASSUME AmountsOK, NEW a \in Validator, NEW x \in Nat, NEW l \in Nat,
           NEW r \in 0 .. stakes[a], Pay(a, x, l, r)
    PROVE  /\ stakes' \in Funds /\ balance' \in Funds /\ overflowed' \in BOOLEAN
           /\ accounts' = accounts
           /\ stakes' = [stakes EXCEPT ![a] = stakes'[a]]
           /\ balance' = [balance EXCEPT ![a] = balance'[a]]
           /\ balance'[a] + stakes'[a] =< balance[a] + stakes[a] - x + l
           /\ ~overflowed' => ~overflowed /\ stakes'[a] = stakes[a] - r + l
<1>1. Word \in Nat /\ stakes[a] \in 0 .. (Word - 1) /\ balance[a] \in 0 .. (Word - 1)
  BY Constants DEF AmountsOK, Funds
<1>2. balance[a] + r - x \in Nat /\ stakes[a] - r + l \in Nat
  BY <1>1 DEF Pay
<1> DEFINE b == (balance[a] + r - x) % Word
           s == (stakes[a] - r + l) % Word
<1>3. b \in 0 .. (Word - 1) /\ b =< balance[a] + r - x
  BY <1>2, Wrapped
<1>4. /\ s \in 0 .. (Word - 1) /\ s =< stakes[a] - r + l
      /\ stakes[a] - r + l < Word => s = stakes[a] - r + l
  BY <1>2, Wrapped
<1>5. stakes' = [stakes EXCEPT ![a] = s] /\ balance' = [balance EXCEPT ![a] = b]
  BY DEF Pay
<1> HIDE DEF b, s
<1>6. /\ stakes' \in Funds /\ balance' \in Funds /\ stakes'[a] = s /\ balance'[a] = b
      /\ stakes' = [stakes EXCEPT ![a] = stakes'[a]]
      /\ balance' = [balance EXCEPT ![a] = balance'[a]]
  BY <1>3, <1>4, <1>5 DEF AmountsOK, Funds
<1>7. overflowed' \in BOOLEAN /\ accounts' = accounts
  BY DEF Pay
<1>8. balance'[a] + stakes'[a] =< balance[a] + stakes[a] - x + l
  BY <1>1, <1>3, <1>4, <1>6
<1>9. ~overflowed' => ~overflowed /\ stakes[a] + l < Word
  <2>1. ~overflowed' => ~overflowed /\ ~(stakes[a] + l >= Word)
    BY DEF Pay
  <2> QED
    BY <1>1, <2>1
<1>10. stakes[a] + l < Word => stakes[a] - r + l < Word
  BY <1>1
<1> QED
  BY <1>4, <1>6, <1>7, <1>8, <1>9, <1>10

LEMMA AmountIs == ASSUME NEW x \in Amount PROVE x \in Nat
BY StakingAssumption, Constants

\* A transaction leaves the committees alone.
LEMMA TxExecution ==
    ASSUME Inv, NextTx, committee' = committee
    PROVE  ExecutionOK' /\ CopyCurrent'
BY Constants DEF Inv, NextTx, ExecutionOK, CopyCurrent

\* The entry that stake() adds is new and its validator has no seat.
LEMMA EnqueueIs ==
    ASSUME Inv, NEW a \in Validator, Enqueue(a)
    PROVE  /\ pending' \in Seq(Entry) /\ DistinctKeys(pending')
           /\ \A j \in DOMAIN pending' :
                 \/ j \in DOMAIN pending /\ pending'[j] = pending[j]
                 \/ pending'[j].pk = a /\ ~Contains(committee, a)
<1>1. pending \in Seq(Entry) /\ DistinctKeys(pending) /\ Len(pending) \in Nat
  BY DEF Inv, RegistryOK
<1>2. CASE Contains(committee, a) \/ IsPending(a)
  BY <1>1, <1>2 DEF Enqueue
<1>3. CASE ~Contains(committee, a) /\ ~IsPending(a)
  <2> DEFINE e == [pk |-> a, at |-> view + Delay]
  <2>1. e \in Entry
    <3>1. view + Delay \in Nat
      BY Constants DEF Inv, ExecutionOK
    <3> QED
      BY <3>1 DEF Entry
  <2>2. e.pk = a /\ pending' = Append(pending, e)
    BY <1>3 DEF Enqueue
  <2> HIDE DEF e
  <2>3. pending' \in Seq(Entry) /\ DistinctKeys(pending')
    BY <1>1, <1>3, <2>1, <2>2, AppendKeys DEF IsPending
  <2>4. \A j \in DOMAIN pending' : j \in DOMAIN pending \/ j = Len(pending) + 1
    BY <1>1, <2>1, <2>2
  <2>5. \A j \in DOMAIN pending : pending'[j] = pending[j]
    BY <1>1, <2>1, <2>2
  <2>6. pending'[Len(pending) + 1] = e
    BY <1>1, <2>1, <2>2
  <2> QED
    BY <1>3, <2>2, <2>3, <2>4, <2>5, <2>6
<1> QED
  BY <1>2, <1>3

LEMMA StakeInv ==
    ASSUME Inv, NEW a \in Validator, NEW x \in Amount, Stake(a, x)
    PROVE  Inv'
<1>1. NextTx /\ x >= MinStake /\ Pay(a, x, x, 0) /\ Enqueue(a)
      /\ UNCHANGED <<committee, exiting, scores>>
  BY DEF Stake
<1>2. RegistryOK /\ AmountsOK /\ PendingFunded
  BY DEF Inv
<1>3. x \in Nat /\ stakes[a] \in Nat /\ 0 \in 0 .. stakes[a]
  BY <1>2, AmountIs, Constants DEF AmountsOK, Funds
<1>4. /\ stakes' \in Funds /\ balance' \in Funds /\ overflowed' \in BOOLEAN
      /\ stakes' = [stakes EXCEPT ![a] = stakes'[a]] /\ accounts' = accounts
      /\ ~overflowed' => ~overflowed /\ stakes'[a] = stakes[a] - 0 + x
  BY <1>1, <1>2, <1>3, PayIs
<1>5. /\ pending' \in Seq(Entry) /\ DistinctKeys(pending')
      /\ \A j \in DOMAIN pending' :
            \/ j \in DOMAIN pending /\ pending'[j] = pending[j]
            \/ pending'[j].pk = a /\ ~Contains(committee, a)
  BY <1>1, EnqueueIs
<1>6. RegistryOK' /\ AmountsOK'
  BY <1>1, <1>2, <1>4, <1>5 DEF RegistryOK, AmountsOK, NextTx
<1>7. PendingFunded'
  <2> SUFFICES ASSUME failures = 0, ~overflowed', NEW j \in DOMAIN pending'
               PROVE  ~Contains(committee, pending'[j].pk) /\ stakes'[pending'[j].pk] >= MinStake
    BY <1>1 DEF PendingFunded, NextTx
  <2>1. stakes'[a] >= MinStake
    BY <1>1, <1>3, <1>4, Constants
  <2>2. CASE j \in DOMAIN pending /\ pending'[j] = pending[j]
    <3>1. ~Contains(committee, pending[j].pk) /\ stakes[pending[j].pk] >= MinStake
      BY <1>2, <1>4, <2>2 DEF PendingFunded
    <3>2. pending[j].pk \in Validator
      BY <1>2, <2>2, KeyIs DEF RegistryOK
    <3>3. pending[j].pk # a => stakes'[pending[j].pk] = stakes[pending[j].pk]
      BY <1>2, <1>4, <3>2 DEF AmountsOK, Funds
    <3> QED
      BY <2>1, <2>2, <3>1, <3>3
  <2>3. CASE pending'[j].pk = a /\ ~Contains(committee, a)
    BY <2>1, <2>3
  <2> QED
    BY <1>5, <2>2, <2>3
<1> QED
  BY <1>1, <1>6, <1>7, TxExecution DEF Inv

\* Calls that leave the queue of pending validators and the committee alone,
\* and release funds only of a validator that is not waiting.
LEMMA CallInv ==
    ASSUME Inv, NextTx, NEW a \in Validator, NEW x \in Nat, NEW r \in 0 .. stakes[a],
           Pay(a, x, 0, r), r = 0 \/ ~IsPending(a),
           UNCHANGED <<committee, pending, scores>>, exiting' \in Seq(Entry)
    PROVE  Inv'
<1>1. RegistryOK /\ AmountsOK /\ PendingFunded
  BY DEF Inv
<1>2. stakes[a] \in Nat
  BY <1>1, Constants DEF AmountsOK, Funds
<1>3. /\ stakes' \in Funds /\ balance' \in Funds /\ overflowed' \in BOOLEAN
      /\ stakes' = [stakes EXCEPT ![a] = stakes'[a]] /\ accounts' = accounts
      /\ ~overflowed' => ~overflowed /\ stakes'[a] = stakes[a] - r + 0
  BY <1>1, PayIs
<1>4. RegistryOK' /\ AmountsOK'
  BY <1>1, <1>3 DEF RegistryOK, AmountsOK, NextTx
<1>5. PendingFunded'
  <2> SUFFICES ASSUME failures = 0, ~overflowed', NEW j \in DOMAIN pending
               PROVE  ~Contains(committee, pending[j].pk) /\ stakes'[pending[j].pk] >= MinStake
    BY DEF PendingFunded, NextTx
  <2>1. ~Contains(committee, pending[j].pk) /\ stakes[pending[j].pk] >= MinStake
    BY <1>1, <1>3 DEF PendingFunded
  <2>2. pending[j].pk \in Validator
    BY <1>1, KeyIs DEF RegistryOK
  <2>3. pending[j].pk # a => stakes'[pending[j].pk] = stakes[pending[j].pk]
    BY <1>1, <1>3, <2>2 DEF AmountsOK, Funds
  <2>4. pending[j].pk = a => stakes'[a] = stakes[a]
    BY <1>2, <1>3 DEF IsPending
  <2> QED
    BY <2>1, <2>3, <2>4
<1> QED
  BY <1>4, <1>5, TxExecution DEF Inv

LEMMA TransferInv ==
    ASSUME Inv, NEW a \in Validator, NEW b \in Validator, NEW x \in Nat, Transfer(a, b, x)
    PROVE  Inv'
<1>1. /\ NextTx /\ a # b /\ balance[a] >= x /\ balance[b] + x < Word
      /\ balance' = [balance EXCEPT ![a] = @ - x, ![b] = @ + x] /\ accounts' = accounts \cup {b}
      /\ UNCHANGED <<committee, pending, exiting, stakes, scores, overflowed>>
  BY DEF Transfer, CanTransfer, registry
<1>2. RegistryOK /\ AmountsOK /\ PendingFunded
  BY DEF Inv
<1>3. balance' \in Funds
  <2>1. Word \in Nat /\ balance \in Funds
        /\ balance[a] \in 0 .. (Word - 1) /\ balance[b] \in 0 .. (Word - 1)
    BY <1>2, Constants DEF AmountsOK, Funds
  <2>2. balance[a] - x \in 0 .. (Word - 1) /\ balance[b] + x \in 0 .. (Word - 1)
    BY <1>1, <2>1
  <2> QED
    BY <1>1, <2>1, <2>2 DEF Funds
<1> QED
  BY <1>1, <1>2, <1>3, TxExecution DEF Inv, RegistryOK, AmountsOK, PendingFunded, NextTx

LEMMA TxInv == ASSUME Inv, Tx PROVE Inv'
<1>1. PICK a \in Validator, x \in Amount :
          Stake(a, x) \/ Unstake(a, x) \/ Withdraw(a, x) \/ IdleCall(a, x)
          \/ \E b \in Validator : Transfer(a, b, x)
  BY DEF Tx
<1>2. x \in Nat /\ stakes[a] \in Nat /\ 0 \in 0 .. stakes[a] /\ stakes[a] \in 0 .. stakes[a]
  BY AmountIs, Constants DEF Inv, AmountsOK, Funds
<1>3. exiting \in Seq(Entry)
  BY DEF Inv, RegistryOK
<1>4. CASE Stake(a, x)
  BY <1>4, StakeInv
<1>5. CASE Unstake(a, x)
  <2>1. [pk |-> a, at |-> view + Delay] \in Entry
    <3>1. view + Delay \in Nat
      BY Constants DEF Inv, ExecutionOK
    <3> QED
      BY <3>1 DEF Entry
  <2>2. exiting' \in Seq(Entry)
    BY <1>3, <1>5, <2>1 DEF Unstake
  <2> QED
    BY <1>2, <1>5, <2>2, CallInv DEF Unstake
<1>6. CASE Withdraw(a, x)
  BY <1>2, <1>3, <1>6, CallInv DEF Withdraw, CanWithdraw
<1>7. CASE IdleCall(a, x)
  BY <1>2, <1>3, <1>7, CallInv DEF IdleCall
<1>8. CASE \E b \in Validator : Transfer(a, b, x)
  BY <1>2, <1>8, TransferInv
<1> QED
  BY <1>1, <1>4, <1>5, <1>6, <1>7, <1>8
-----------------------------------------------------------------------------
(***************************************************************************)
(* The end of a block, and crashes.                                        *)
(***************************************************************************)
\* The queues give seats to due entries only, and keep the others.
LEMMA QueuesIs ==
    ASSUME Inv, ProcessQueues
    PROVE  /\ committee' \in Distinct(Validator)
           /\ pending' \in Seq(Entry) /\ DistinctKeys(pending') /\ exiting' \in Seq(Entry)
           /\ \A j \in DOMAIN pending' : \E k \in DOMAIN pending :
                 /\ pending'[j] = pending[k]
                 /\ Contains(committee', pending[k].pk) => Contains(committee, pending[k].pk)
<1>1. /\ committee \in Distinct(Validator)
      /\ pending \in Seq(Entry) /\ DistinctKeys(pending) /\ exiting \in Seq(Entry)
  BY DEF Inv, RegistryOK
<1>2. CASE Changed
  <2>1. /\ committee' = Retire(Activate(committee))
        /\ pending' = NotDue(pending) /\ exiting' = NotDue(exiting)
    BY <1>2 DEF ProcessQueues
  <2> DEFINE D == Due(pending)
             S == {v \in Validator : Contains(committee, v) \/ \E i \in DOMAIN D : D[i].pk = v}
  <2>2. D \in Seq({e \in Entry : e.at <= view /\ \E k \in DOMAIN pending : e = pending[k]})
    BY <1>1, DueIs
  <2> HIDE DEF D
  <2>3. D \in Seq({e \in Entry : e.pk \in S})
    <3>1. D \in Seq(Entry)
      BY <2>2
    <3>2. \A i \in DOMAIN D : D[i] \in Entry /\ D[i].pk \in S
      BY <3>1, KeyIs
    <3> QED
      BY <3>1, <3>2
  <2>4. committee \in Distinct(S)
    <3>1. committee \in Distinct({v \in Validator : Contains(committee, v)})
      BY <1>1, OwnMembers
    <3> QED
      BY <3>1 DEF Distinct
  <2> HIDE DEF S
  <2>5. Activate(committee) \in Distinct(S)
    BY <2>3, <2>4, ActivateIs DEF D
  <2>6. Due(exiting) \in Seq(Entry)
    <3>1. Due(exiting) \in Seq({e \in Entry :
                                  e.at <= view /\ \E k \in DOMAIN exiting : e = exiting[k]})
      BY <1>1, DueIs
    <3> QED
      BY <3>1
  <2>7. committee' \in Distinct(S)
    BY <2>1, <2>5, <2>6, RetireIs
  <2>8. committee' \in Distinct(Validator)
    BY <2>7 DEF Distinct, S
  <2>9. /\ pending' \in Seq(Entry) /\ DistinctKeys(pending') /\ exiting' \in Seq(Entry)
        /\ \A j \in DOMAIN pending' :
              pending'[j].at > view /\ \E k \in DOMAIN pending : pending'[j] = pending[k]
    BY <1>1, <2>1, NotDueIs
  <2>10. ASSUME NEW j \in DOMAIN pending'
         PROVE  \E k \in DOMAIN pending :
                   /\ pending'[j] = pending[k]
                   /\ Contains(committee', pending[k].pk) => Contains(committee, pending[k].pk)
    <3>1. PICK k \in DOMAIN pending : pending'[j] = pending[k]
      BY <2>9
    <3>2. pending[k].at > view
      BY <2>9, <3>1
    <3>3. ASSUME Contains(committee', pending[k].pk), ~Contains(committee, pending[k].pk)
          PROVE  FALSE
      <4>1. pending[k].pk \in S
        BY <2>7, <3>3, Members
      <4>2. PICK i \in DOMAIN D : D[i].pk = pending[k].pk
        BY <3>3, <4>1 DEF S
      <4>3. D[i].at <= view /\ \E m \in DOMAIN pending : D[i] = pending[m]
        BY <2>2
      <4>4. PICK m \in DOMAIN pending : D[i] = pending[m]
        BY <4>3
      <4>5. m = k
        BY <1>1, <4>2, <4>4 DEF DistinctKeys, IsInjective
      <4>6. pending[k].at \in Nat /\ view \in Int
        <5>1. pending[k] \in Entry
          BY <1>1
        <5> QED
          BY <5>1, Constants DEF Entry, Inv, ExecutionOK
      <4> QED
        BY <3>2, <4>3, <4>4, <4>5, <4>6
    <3> QED
      BY <3>1, <3>3
  <2> QED
    BY <2>8, <2>9, <2>10
<1>3. CASE ~Changed
  BY <1>1, <1>3 DEF ProcessQueues
<1> QED
  BY <1>2, <1>3

LEMMA EndBlockInv == ASSUME Inv, EndBlock PROVE Inv'
<1> USE DEF EndBlock, funds
<1>1. RegistryOK /\ AmountsOK /\ ExecutionOK /\ PendingFunded
  BY DEF Inv
<1>2. /\ committee' \in Distinct(Validator)
      /\ pending' \in Seq(Entry) /\ DistinctKeys(pending') /\ exiting' \in Seq(Entry)
      /\ \A j \in DOMAIN pending' : \E k \in DOMAIN pending :
            /\ pending'[j] = pending[k]
            /\ Contains(committee', pending[k].pk) => Contains(committee, pending[k].pk)
  BY QueuesIs
<1>3. RegistryOK'
  BY <1>2 DEF RegistryOK
<1>4. AmountsOK'
  BY <1>1 DEF AmountsOK
<1>5. ExecutionOK' /\ CopyCurrent'
  BY <1>1 DEF ExecutionOK, CopyCurrent
<1>6. PendingFunded'
  BY <1>1, <1>2 DEF PendingFunded
<1> QED
  BY <1>3, <1>4, <1>5, <1>6 DEF Inv

\* After a crash inside a call only the types and the seats are left to show.
LEMMA CrashInCallIs ==
    ASSUME Inv, CrashInCall, committee' = committee
    PROVE  ExecutionOK' /\ CopyCurrent' /\ PendingFunded'
<1>1. ExecutionOK' /\ failures' # 0
  BY Constants DEF Inv, CrashInCall, ExecutionOK
<1> QED
  BY <1>1 DEF CrashInCall, CopyCurrent, PendingFunded

LEMMA CrashInStakeInv ==
    ASSUME Inv, NEW a \in Validator, NEW x \in Amount, CrashInStake(a, x)
    PROVE  Inv'
<1>1. /\ CrashInCall /\ Enqueue(a)
      /\ UNCHANGED <<committee, exiting, scores, accounts, balance>>
      /\ stakes' = [stakes EXCEPT ![a] = (@ + x) % Word]
      /\ known' = committee
  BY DEF CrashInStake, CrashInCall
<1>2. RegistryOK'
  BY <1>1, EnqueueIs DEF Inv, RegistryOK
<1>3. stakes' \in Funds
  <2>1. stakes \in Funds /\ stakes[a] + x \in Nat
    BY AmountIs, Constants DEF Inv, AmountsOK, Funds
  <2>2. (stakes[a] + x) % Word \in 0 .. (Word - 1)
    BY <2>1, Wrapped
  <2> QED
    BY <1>1, <2>1, <2>2 DEF Funds
<1>4. overflowed' \in BOOLEAN
  BY DEF CrashInStake
<1>5. AmountsOK'
  BY <1>1, <1>3, <1>4 DEF Inv, AmountsOK
<1> QED
  BY <1>1, <1>2, <1>5, CrashInCallIs DEF Inv

LEMMA CrashInWithdrawInv ==
    ASSUME Inv, NEW a \in Validator, CrashInWithdraw(a)
    PROVE  Inv'
<1>1. /\ CrashInCall
      /\ UNCHANGED <<committee, pending, exiting, scores, accounts, balance, overflowed>>
      /\ stakes' = [stakes EXCEPT ![a] = 0]
      /\ known' = committee
  BY DEF CrashInWithdraw, CrashInCall, funds
<1>2. RegistryOK'
  BY <1>1 DEF Inv, RegistryOK
<1>3. stakes' \in Funds
  BY <1>1, Constants DEF Inv, AmountsOK, Funds
<1>4. AmountsOK'
  BY <1>1, <1>3 DEF Inv, AmountsOK
<1> QED
  BY <1>1, <1>2, <1>4, CrashInCallIs DEF Inv

LEMMA CrashInTransferInv ==
    ASSUME Inv, NEW a \in Validator, NEW b \in Validator, NEW x \in Amount,
           CrashInTransfer(a, b, x)
    PROVE  Inv'
<1>1. /\ CrashInCall /\ balance[a] >= x /\ balance[b] + x < Word
      /\ UNCHANGED <<committee, pending, exiting, stakes, scores, overflowed>>
      /\ known' = committee
  BY DEF CrashInTransfer, CanTransfer, CrashInCall, registry
<1>2. RegistryOK'
  BY <1>1 DEF Inv, RegistryOK
<1>3. balance' \in Funds /\ accounts' \subseteq Validator
  <2>1. /\ Word \in Nat /\ x \in Nat /\ balance \in Funds /\ accounts \subseteq Validator
        /\ balance[a] \in 0 .. (Word - 1) /\ balance[b] \in 0 .. (Word - 1)
    BY AmountIs, Constants DEF Inv, AmountsOK, Funds
  <2>2. balance[a] - x \in 0 .. (Word - 1) /\ balance[b] + x \in 0 .. (Word - 1)
    BY <1>1, <2>1
  <2> QED
    BY <2>1, <2>2 DEF CrashInTransfer, Funds
<1>4. AmountsOK'
  BY <1>1, <1>3 DEF Inv, AmountsOK
<1> QED
  BY <1>1, <1>2, <1>4, CrashInCallIs DEF Inv

\* The invariant holds throughout.
LEMMA InvCorrect == Spec => []Inv
<1>1. Inv /\ [Next]_vars => Inv'
  <2> SUFFICES ASSUME Inv, [Next]_vars PROVE Inv'
    OBVIOUS
  <2>1. CASE Next
    BY <2>1, StartBlockInv, SlashEquivocationInv, ProcessLivenessInv, TxInv, EndBlockInv,
       FailBlockInv, RestartInv, CrashInStakeInv, CrashInWithdrawInv, CrashInTransferInv,
       PersistStateInv
       DEF Next
  <2>2. CASE UNCHANGED vars
    BY <2>2 DEF vars, registry, funds, execution, Inv, RegistryOK, AmountsOK, ExecutionOK,
                CopyCurrent, PendingFunded
  <2> QED
    BY <2>1, <2>2
<1> QED
  BY <1>1, InitInv, PTL DEF Spec

\* Funds stay within a word and scores below the threshold, whatever is
\* staked, slashed or cut short.
THEOREM StakingTypes == Spec => []TypeOK
<1>1. Inv => TypeOK
  BY InvIs
<1> QED
  BY <1>1, InvCorrect, PTL

\* No validator ever has two seats or waits twice for one, in storage or in
\* memory, through activations, exits, slashings, failed blocks and restarts.
THEOREM OneSeatEach == Spec => []SeatsDistinct
<1>1. Inv => SeatsDistinct
  BY InvIs
<1> QED
  BY <1>1, InvCorrect, PTL

\* No seat is lost between two blocks: whoever was given one is in the copy of
\* the committee that persist_state writes back, also when this copy is stale
\* because an execution failed half way, and after every restart.
THEOREM SeatsKept == Spec => WriteBackKeepsSeats
<1>1. Inv /\ [Next]_vars =>
        [phase = "idle" => \A v \in Validator : Contains(committee, v) => Contains(committee', v)]_vars
  <2> SUFFICES ASSUME Inv, Next, phase = "idle", NEW v \in Validator, Contains(committee, v)
               PROVE  Contains(committee', v)
    OBVIOUS
  <2>1. CASE PersistState
    BY <2>1 DEF PersistState, Inv, CopyCurrent
  <2>2. CASE committee' = committee
    BY <2>2
  <2>3. PersistState \/ committee' = committee
    BY DEF Next, StartBlock, SlashEquivocation, ProcessLiveness, Tx, Stake, Unstake, Withdraw,
           IdleCall, Transfer, NextTx, EndBlock, FailBlock, Restart, CrashInStake,
           CrashInWithdraw, CrashInTransfer, CrashInCall, registry
  <2> QED
    BY <2>1, <2>2, <2>3
<1> QED
  BY <1>1, InvCorrect, PTL DEF Spec, WriteBackKeepsSeats

\* As long as no execution was cut short and no sum wrapped around, whoever
\* waits for a seat has none and has the stake that is required.
THEOREM WaitingFunded == Spec => []PendingFunded
<1>1. Inv => PendingFunded
  BY DEF Inv
<1> QED
  BY <1>1, InvCorrect, PTL
-----------------------------------------------------------------------------
(***************************************************************************)
(* Funds: what a step takes from one account it adds to at most one other. *)
(***************************************************************************)
LEMMA FundsSum ==
    ASSUME NEW f \in Funds, NEW a \in Validator, NEW x \in Int
    PROVE  /\ SumFunction(f) \in Int /\ f[a] \in Nat
           /\ SumFunction([f EXCEPT ![a] = x]) = SumFunction(f) - f[a] + x
<1>1. f \in [Validator -> Int] /\ f[a] \in Nat
  BY Constants DEF Funds
<1>2. IsFiniteSet(Validator)
  BY StakingAssumption
<1> QED
  BY <1>1, <1>2, SumExcept

LEMMA FundsInt == ASSUME NEW f \in Funds PROVE SumFunction(f) \in Int
<1>1. Rich \in Validator /\ 0 \in Int
  BY StakingAssumption
<1> QED
  BY <1>1, FundsSum

\* A step that slashes a.
LEMMA SlashShrinks ==
    ASSUME Inv, NEW a \in Validator, NEW p \in Nat,
           stakes' = [stakes EXCEPT ![a] = Minus(@, p)], balance' = balance
    PROVE  Total' =< Total
<1> DEFINE x == Minus(stakes[a], p)
<1>1. stakes \in Funds /\ balance \in Funds
  BY DEF Inv, AmountsOK
<1>2. stakes[a] \in Nat
  BY <1>1, Constants DEF Funds
<1>3. x \in 0 .. stakes[a]
  BY <1>2, MinusIs
<1>4. stakes' = [stakes EXCEPT ![a] = x]
  OBVIOUS
<1> HIDE DEF x
<1>5. SumFunction(stakes) \in Int /\ SumFunction(balance) \in Int
  BY <1>1, FundsInt
<1>6. x \in Int
  BY <1>2, <1>3
<1>7. SumFunction(stakes') = SumFunction(stakes) - stakes[a] + x
  <2>1. SumFunction([stakes EXCEPT ![a] = x]) = SumFunction(stakes) - stakes[a] + x
    BY <1>1, <1>6, FundsSum
  <2> QED
    BY <1>4, <2>1
<1> QED
  BY <1>2, <1>3, <1>5, <1>7 DEF Total

\* A call whose sender pays at least what it locks.
LEMMA PayShrinks ==
    ASSUME Inv, NEW a \in Validator, NEW x \in Nat, NEW l \in 0 .. x,
           NEW r \in 0 .. stakes[a], Pay(a, x, l, r)
    PROVE  Total' =< Total
<1> DEFINE b == balance'[a]
           s == stakes'[a]
<1>1. stakes \in Funds /\ balance \in Funds
  BY DEF Inv, AmountsOK
<1>2. /\ stakes' \in Funds /\ balance' \in Funds
      /\ stakes' = [stakes EXCEPT ![a] = s]
      /\ balance' = [balance EXCEPT ![a] = b]
      /\ b + s =< balance[a] + stakes[a] - x + l
  BY PayIs DEF Inv
<1>3. b \in Int /\ s \in Int
  BY <1>2, Constants DEF Funds
<1> HIDE DEF b, s
<1>4. /\ SumFunction(stakes) \in Int /\ stakes[a] \in Nat
      /\ SumFunction(stakes') = SumFunction(stakes) - stakes[a] + s
  BY <1>1, <1>2, <1>3, FundsSum
<1>5. /\ SumFunction(balance) \in Int /\ balance[a] \in Nat
      /\ SumFunction(balance') = SumFunction(balance) - balance[a] + b
  BY <1>1, <1>2, <1>3, FundsSum
<1> QED
  BY <1>2, <1>3, <1>4, <1>5 DEF Total

\* A transfer.
LEMMA TransferKeeps ==
    ASSUME Inv, NEW a \in Validator, NEW b \in Validator, NEW x \in Nat, Transfer(a, b, x)
    PROVE  Total' =< Total
<1> DEFINE f == [balance EXCEPT ![a] = balance[a] - x]
           y == balance[b] + x
<1>1. stakes \in Funds /\ balance \in Funds
  BY DEF Inv, AmountsOK
<1>2. balance[a] \in 0 .. (Word - 1) /\ balance[b] \in Nat /\ balance[a] >= x /\ a # b
  BY <1>1, Constants DEF Funds, Transfer, CanTransfer
<1>3. f \in Funds /\ f[b] = balance[b] /\ y \in Int
  BY <1>1, <1>2, Constants DEF Funds
<1>4. balance' = [f EXCEPT ![b] = y] /\ stakes' = stakes
  BY <1>1, <1>2 DEF Transfer, registry, Funds
<1>5. balance[a] - x \in Int
  BY <1>2
<1>6. /\ SumFunction(balance) \in Int
      /\ SumFunction(f) = SumFunction(balance) - balance[a] + (balance[a] - x)
  BY <1>1, <1>5, FundsSum
<1>7. SumFunction(stakes) \in Int
  BY <1>1, FundsInt
<1> HIDE DEF f
<1>8. SumFunction(balance') = SumFunction(f) - balance[b] + y
  BY <1>3, <1>4, FundsSum
<1> QED
  BY <1>2, <1>4, <1>6, <1>7, <1>8 DEF Total

LEMMA TxShrinks == ASSUME Inv, Tx PROVE Total' =< Total
<1>1. PICK a \in Validator, x \in Amount :
         \/ Stake(a, x)
         \/ Unstake(a, x)
         \/ Withdraw(a, x)
         \/ IdleCall(a, x)
         \/ \E b \in Validator : Transfer(a, b, x)
  BY DEF Tx
<1>2. x \in Nat /\ stakes[a] \in Nat
  BY AmountIs, Constants DEF Inv, AmountsOK, Funds
<1>3. CASE Stake(a, x)
  <2>1. Pay(a, x, x, 0) /\ x \in 0 .. x /\ 0 \in 0 .. stakes[a]
    BY <1>2, <1>3 DEF Stake
  <2> QED
    BY <1>2, <2>1, PayShrinks
<1>4. CASE Unstake(a, x) \/ IdleCall(a, x)
  <2>1. Pay(a, x, 0, 0) /\ 0 \in 0 .. x /\ 0 \in 0 .. stakes[a]
    BY <1>2, <1>4 DEF Unstake, IdleCall
  <2> QED
    BY <1>2, <2>1, PayShrinks
<1>5. CASE Withdraw(a, x)
  <2>1. Pay(a, x, 0, stakes[a]) /\ 0 \in 0 .. x /\ stakes[a] \in 0 .. stakes[a]
    BY <1>2, <1>5 DEF Withdraw
  <2> QED
    BY <1>2, <2>1, PayShrinks
<1>6. CASE \E b \in Validator : Transfer(a, b, x)
  BY <1>2, <1>6, TransferKeeps
<1> QED
  BY <1>1, <1>3, <1>4, <1>5, <1>6

\* The steps that move no funds.
LEMMA FundsKept ==
    ASSUME Inv, balance' = balance, stakes' = stakes
    PROVE  Total' =< Total
<1>1. stakes \in Funds /\ balance \in Funds
  BY DEF Inv, AmountsOK
<1>2. SumFunction(stakes) \in Int /\ SumFunction(balance) \in Int
  BY <1>1, FundsInt
<1> QED
  BY <1>2 DEF Total

LEMMA LivenessShrinks ==
    ASSUME Inv, NEW author \in Validator, NEW timedOut \in BOOLEAN,
           ProcessLiveness(author, timedOut)
    PROVE  Total' =< Total
<1>1. balance' = balance
  BY DEF ProcessLiveness, funds
<1>2. CASE timedOut /\ view > 1 /\ committee # <<>>
  <2>1. stakes' = [stakes EXCEPT ![FailedLeader] = Minus(@, LivenessPenalty)]
    BY <1>2 DEF ProcessLiveness, Penalize
  <2>2. FailedLeader \in Validator
    BY <1>2, FailedLeaderIs DEF Inv
  <2> QED
    BY <1>1, <2>1, <2>2, SlashShrinks, Constants
<1>3. CASE ~(timedOut /\ view > 1 /\ committee # <<>>)
  BY <1>1, <1>3, FundsKept DEF ProcessLiveness
<1> QED
  BY <1>2, <1>3

\* One amount of an account changes, by at most x.
LEMMA OneGrows ==
    ASSUME Inv, NEW a \in Validator, NEW x \in Nat, NEW y \in Int,
           \/ stakes' = [stakes EXCEPT ![a] = y] /\ balance' = balance /\ y =< stakes[a] + x
           \/ balance' = [balance EXCEPT ![a] = y] /\ stakes' = stakes /\ y =< balance[a] + x
    PROVE  Total' =< Total + x
<1>1. stakes \in Funds /\ balance \in Funds
  BY DEF Inv, AmountsOK
<1>2. /\ SumFunction(stakes) \in Int /\ stakes[a] \in Nat
      /\ SumFunction([stakes EXCEPT ![a] = y]) = SumFunction(stakes) - stakes[a] + y
  BY <1>1, FundsSum
<1>3. /\ SumFunction(balance) \in Int /\ balance[a] \in Nat
      /\ SumFunction([balance EXCEPT ![a] = y]) = SumFunction(balance) - balance[a] + y
  BY <1>1, FundsSum
<1> QED
  BY <1>2, <1>3 DEF Total

\* A crash between the two writes of a transaction that carries x.
LEMMA CrashGrows ==
    ASSUME Inv, NEW a \in Validator, NEW b \in Validator, NEW x \in Amount,
           CrashInStake(a, x) \/ CrashInTransfer(a, b, x)
    PROVE  Total' =< Total + x
<1>1. x \in Nat /\ stakes[a] \in Nat /\ balance[a] \in Nat /\ balance[b] \in Nat /\ Word \in Nat
  BY AmountIs, Constants DEF Inv, AmountsOK, Funds
<1>2. CASE CrashInStake(a, x)
  <2> DEFINE y == (stakes[a] + x) % Word
  <2>1. y \in Int /\ y =< stakes[a] + x
    <3>1. stakes[a] + x \in Nat
      BY <1>1
    <3> HIDE DEF y
    <3>2. y \in 0 .. (Word - 1) /\ y =< stakes[a] + x
      BY <3>1, Wrapped DEF y
    <3> QED
      BY <1>1, <3>2
  <2>2. stakes' = [stakes EXCEPT ![a] = y] /\ balance' = balance
    BY <1>2 DEF CrashInStake
  <2> HIDE DEF y
  <2> QED
    BY <1>1, <2>1, <2>2, OneGrows
<1>3. CASE CrashInTransfer(a, b, x)
  <2>1. /\ stakes' = stakes
        /\ \/ balance' = [balance EXCEPT ![a] = balance[a] - x]
           \/ balance' = [balance EXCEPT ![b] = balance[b] + x]
    BY <1>3 DEF CrashInTransfer, registry
  <2> DEFINE y == balance[a] - x
             z == balance[b] + x
  <2>2. y \in Int /\ y =< balance[a] + x /\ z \in Int /\ z =< balance[b] + x
    BY <1>1
  <2>3. \/ balance' = [balance EXCEPT ![a] = y]
        \/ balance' = [balance EXCEPT ![b] = z]
    BY <2>1
  <2> HIDE DEF y, z
  <2>4. CASE balance' = [balance EXCEPT ![a] = y]
    BY <1>1, <2>1, <2>2, <2>4, OneGrows
  <2>5. CASE balance' = [balance EXCEPT ![b] = z]
    BY <1>1, <2>1, <2>2, <2>5, OneGrows
  <2> QED
    BY <2>3, <2>4, <2>5
<1> QED
  BY <1>2, <1>3

LEMMA CrashInWithdrawShrinks ==
    ASSUME Inv, NEW a \in Validator, CrashInWithdraw(a)
    PROVE  Total' =< Total + 0
<1>1. stakes' = [stakes EXCEPT ![a] = 0] /\ balance' = balance
  BY DEF CrashInWithdraw, funds
<1>2. stakes[a] \in Nat
  BY Constants DEF Inv, AmountsOK, Funds
<1> DEFINE y == 0
<1>3. y \in Int /\ y =< stakes[a] + y /\ stakes' = [stakes EXCEPT ![a] = y] /\ y \in Nat
  BY <1>1, <1>2
<1> HIDE DEF y
<1>4. Total' =< Total + y
  BY <1>1, <1>3, OneGrows
<1> QED
  BY <1>4 DEF y

\* No step makes the funds grow, free and locked ones together: every refund was
\* locked, and every lock was paid for.  Only an execution that is cut short may
\* create funds, and no more than one transaction carries.
THEOREM FundsConserved == Spec => FundsNeverGrow
<1>1. Inv /\ [Next]_vars =>
        [\E x \in IF failures' = failures THEN {0} ELSE Amount \cup {0} : Total' <= Total + x]_vars
  <2> SUFFICES ASSUME Inv, Next
               PROVE  \E x \in IF failures' = failures THEN {0} ELSE Amount \cup {0} :
                         Total' <= Total + x
    OBVIOUS
  <2>1. failures \in Nat /\ Total \in Int
    <3>1. stakes \in Funds /\ balance \in Funds /\ failures \in Nat
      BY Constants DEF Inv, AmountsOK, ExecutionOK
    <3> QED
      BY <3>1, FundsInt DEF Total
  <2>2. CASE Total' =< Total
    BY <2>1, <2>2
  <2>3. ASSUME CrashInCall
        PROVE  failures' # failures
    BY <2>1, <2>3 DEF CrashInCall
  <2>4. ASSUME NEW o \in Validator, SlashEquivocation(o)
        PROVE  Total' =< Total
    BY <2>4, SlashShrinks, Constants DEF SlashEquivocation, funds
  <2>5. CASE \/ \E v \in (view + 1) .. MaxView : StartBlock(v)
             \/ EndBlock \/ FailBlock \/ Restart \/ PersistState
    <3>1. Total' =< Total
      BY <2>5, FundsKept DEF StartBlock, EndBlock, FailBlock, Restart, PersistState, registry,
                             funds
    <3> QED
      BY <2>2, <3>1
  <2>6. ASSUME NEW a \in Validator, NEW b \in Validator, NEW x \in Amount,
               CrashInStake(a, x) \/ CrashInTransfer(a, b, x)
        PROVE  failures' # failures /\ Total' =< Total + x
    BY <2>3, <2>6, CrashGrows DEF CrashInStake, CrashInTransfer
  <2>7. ASSUME NEW a \in Validator, CrashInWithdraw(a)
        PROVE  failures' # failures /\ Total' =< Total + 0
    BY <2>3, <2>7, CrashInWithdrawShrinks DEF CrashInWithdraw
  <2> QED
    BY <2>2, <2>4, <2>5, <2>6, <2>7, LivenessShrinks, TxShrinks DEF Next
<1> QED
  BY <1>1, InvCorrect, PTL DEF Spec, FundsNeverGrow
=============================================================================
