---------------------------- MODULE LedgerProofs ----------------------------
(***************************************************************************)
(* Theorems about Ledger, for every number of nodes, set of transactions,  *)
(* gas limit, number of views, calls and crashes.  The first half is about *)
(* pools and the execution history, and never looks inside ExecuteBlock;   *)
(* the second is about what executing and filling blocks comes to.         *)
(***************************************************************************)
EXTENDS Ledger, FiniteSums

\* Stored blocks exist, so that no later proposal can replace them.
StoredCreated == \A n \in Node : stored[n] \subseteq DOMAIN header

\* Nothing above the saved height has been executed.
ExecutedFinal ==
    \A n \in Node : \A i \in DOMAIN executed[n] : executed[n][i] =< final[n]

\* The invariant's part about what is executed.
HistoryPart ==
    /\ final \in [Node -> Height]
    /\ executed \in [Node -> Seq(View)]
    /\ ExecutedFinal
    /\ CommittedAtMostOnce

\* The invariant's part about what is in the pool.
PoolPart ==
    /\ pool \in [Node -> SUBSET Tx]
    /\ accepted \in [Node -> SUBSET Tx]
    /\ stored \in [Node -> SUBSET Height]
    /\ StoredCreated
    /\ NothingDropped

Inv == HistoryPart /\ PoolPart

-----------------------------------------------------------------------------
(***************************************************************************)
(* What the parts of the invariant need of a step.                         *)
(***************************************************************************)
\* The elements of a sequence are of its type.
LEMMA Elements ==
    ASSUME NEW S, NEW s \in Seq(S), NEW i \in DOMAIN s
    PROVE  s[i] \in S
OBVIOUS

\* A step that changes none of the variables of the execution history.
HistoryKept == UNCHANGED <<final, executed>>

\* Node n saves a higher view without executing anything.
HistoryRaised(n, v) ==
    final[n] < v /\ final' = [final EXCEPT ![n] = v] /\ UNCHANGED executed

\* Node n saves the view of a block above its height, and executes the block.
HistoryExtended(n, b) ==
    /\ final[n] < b
    /\ final' = [final EXCEPT ![n] = b]
    /\ executed' = [executed EXCEPT ![n] = Append(@, b)]

HistoryMove(n) ==
    HistoryKept \/ \E b \in View : HistoryRaised(n, b) \/ HistoryExtended(n, b)

\* These keep the history increasing and below the saved height.
LEMMA HistoryStep ==
    ASSUME Inv, NEW n \in Node, HistoryMove(n)
    PROVE  HistoryPart'
<1> USE DEF View, Height, HistoryPart
<1>1. /\ final \in [Node -> Height] /\ executed \in [Node -> Seq(View)]
      /\ ExecutedFinal /\ CommittedAtMostOnce
  BY DEF Inv
<1>2. MaxView \in Nat
  BY SizeAssumption
<1>3. CASE HistoryKept
  BY <1>1, <1>3 DEF HistoryKept, ExecutedFinal, CommittedAtMostOnce
<1>4. ASSUME NEW b \in View, HistoryRaised(n, b)
      PROVE  HistoryPart'
  <2>1. final' \in [Node -> Height] /\ executed' = executed
    BY <1>1, <1>2, <1>4 DEF HistoryRaised
  <2>2. ASSUME NEW p \in Node, NEW i \in DOMAIN executed[p]
        PROVE  executed[p][i] =< final'[p]
    <3>1. executed[p] \in Seq(View)
      BY <1>1
    <3>2. executed[p][i] \in View
      BY <2>2, <3>1, Elements
    <3>3. executed[p][i] =< final[p]
      BY <1>1 DEF ExecutedFinal
    <3>4. final'[p] >= final[p] /\ final[p] \in Nat /\ final'[p] \in Nat
      BY <1>1, <1>2, <1>4 DEF HistoryRaised
    <3> QED
      BY <1>2, <3>2, <3>3, <3>4
  <2> QED
    BY <1>1, <2>1, <2>2 DEF ExecutedFinal, CommittedAtMostOnce
<1>5. ASSUME NEW b \in View, HistoryExtended(n, b)
      PROVE  HistoryPart'
  <2>1. final' \in [Node -> Height] /\ executed' \in [Node -> Seq(View)]
    BY <1>1, <1>2, <1>5 DEF HistoryExtended
  <2>2. executed'[n] = Append(executed[n], b) /\ final'[n] = b /\ final[n] < b
    BY <1>1, <1>5 DEF HistoryExtended
  <2>3. \A p \in Node : p # n => executed'[p] = executed[p] /\ final'[p] = final[p]
    BY <1>1, <1>5 DEF HistoryExtended
  <2> DEFINE s == executed[n]
             t == Append(s, b)
  <2>4. s \in Seq(View) /\ final[n] \in Nat /\ b \in Nat
    BY <1>1, <1>2
  <2>5. DOMAIN t = 1 .. (Len(s) + 1) /\ DOMAIN s = 1 .. Len(s) /\ Len(s) \in Nat
    BY <2>4
  <2>6. t[Len(s) + 1] = b /\ \A i \in 1 .. Len(s) : t[i] = s[i]
    BY <2>4
  <2>7. \A i \in 1 .. Len(s) : s[i] < b /\ s[i] \in Nat
    <3>1. \A i \in 1 .. Len(s) : s[i] \in View
      BY <2>4, <2>5, Elements
    <3>2. \A i \in 1 .. Len(s) : s[i] =< final[n]
      BY <1>1, <2>5 DEF ExecutedFinal
    <3> HIDE DEF s
    <3> QED
      BY <1>2, <2>2, <2>4, <3>1, <3>2
  <2>8. \A i \in DOMAIN t : t[i] =< b
    <3>1. \A i \in DOMAIN t : i \in 1 .. Len(s) \/ i = Len(s) + 1
      BY <2>5
    <3> HIDE DEF t, s
    <3> QED
      BY <2>4, <2>6, <2>7, <3>1
  <2>9. \A i, j \in DOMAIN t : i < j => t[i] < t[j]
    <3> SUFFICES ASSUME NEW i \in DOMAIN t, NEW j \in DOMAIN t, i < j
                 PROVE  t[i] < t[j]
      OBVIOUS
    <3>1. i \in 1 .. Len(s) /\ (j \in 1 .. Len(s) \/ j = Len(s) + 1)
      BY <2>5
    <3>2. CASE j \in 1 .. Len(s)
      <4>1. s[i] < s[j]
        BY <1>1, <2>5, <3>1, <3>2 DEF CommittedAtMostOnce
      <4> QED
        BY <2>6, <3>1, <3>2, <4>1
    <3>3. CASE j = Len(s) + 1
      <4> HIDE DEF t, s
      <4> QED
        BY <2>6, <2>7, <3>1, <3>3
    <3> QED
      BY <3>1, <3>2, <3>3
  <2>10. ExecutedFinal'
    <3>1. ASSUME NEW p \in Node, NEW i \in DOMAIN executed'[p]
          PROVE  executed'[p][i] =< final'[p]
      BY <1>1, <2>2, <2>3, <2>8, <3>1 DEF ExecutedFinal
    <3> QED
      BY <3>1 DEF ExecutedFinal
  <2>11. CommittedAtMostOnce'
    <3>1. ASSUME NEW p \in Node
          PROVE  \A i, j \in DOMAIN executed'[p] : i < j => executed'[p][i] < executed'[p][j]
      BY <1>1, <2>2, <2>3, <2>9, <3>1 DEF CommittedAtMostOnce
    <3> QED
      BY <3>1 DEF CommittedAtMostOnce
  <2> QED
    BY <2>1, <2>10, <2>11
<1> QED
  BY <1>3, <1>4, <1>5 DEF HistoryMove

PoolKept == UNCHANGED <<pool, accepted, stored, header>>

\* Transaction t enters the pool of n.
PoolGrown(n, t) == Insert(n, t) /\ UNCHANGED <<stored, header>>

\* Node n stores block b, new or already created, and cleans its pool.
PoolCleaned(n, b) ==
    /\ b \in DOMAIN header'
    /\ \A c \in DOMAIN header : c \in DOMAIN header' /\ header'[c] = header[c]
    /\ stored' = [stored EXCEPT ![n] = @ \cup {b}]
    /\ RemoveTransactions(n, header'[b].payload)
    /\ UNCHANGED accepted

\* Node n loses what it had in memory.
PoolLost(n) ==
    /\ pool' = [pool EXCEPT ![n] = {}]
    /\ accepted' = [accepted EXCEPT ![n] = {}]
    /\ UNCHANGED <<stored, header>>

PoolMove(n) ==
    \/ PoolKept
    \/ \E t \in Tx : PoolGrown(n, t)
    \/ \E b \in View : PoolCleaned(n, b)
    \/ PoolLost(n)

\* None of these drops a transaction that a running node has accepted.
LEMMA PoolStep ==
    ASSUME Inv, NEW n \in Node, PoolMove(n)
    PROVE  PoolPart'
<1> USE DEF PoolPart
<1>1. /\ pool \in [Node -> SUBSET Tx] /\ accepted \in [Node -> SUBSET Tx]
      /\ stored \in [Node -> SUBSET Height] /\ StoredCreated /\ NothingDropped
  BY DEF Inv
<1>2. CASE PoolKept
  BY <1>1, <1>2 DEF PoolKept, StoredCreated, NothingDropped
<1>3. ASSUME NEW t \in Tx, PoolGrown(n, t)
      PROVE  PoolPart'
  <2>1. /\ pool' \in [Node -> SUBSET Tx] /\ accepted' \in [Node -> SUBSET Tx]
        /\ stored' = stored /\ header' = header
    BY <1>1, <1>3 DEF PoolGrown, Insert
  <2>2. ASSUME NEW p \in Node, NEW u \in accepted'[p]
        PROVE  u \in pool'[p] \/ \E c \in stored[p] : u \in ToSet(header[c].payload)
    <3>1. u \in accepted[p] \/ (p = n /\ u = t)
      BY <1>1, <1>3, <2>2 DEF PoolGrown, Insert
    <3>2. pool[p] \subseteq pool'[p] /\ (p = n => t \in pool'[p])
      BY <1>1, <1>3 DEF PoolGrown, Insert
    <3> QED
      BY <1>1, <3>1, <3>2 DEF NothingDropped
  <2> QED
    BY <1>1, <2>1, <2>2 DEF StoredCreated, NothingDropped
<1>4. ASSUME NEW b \in View, PoolCleaned(n, b)
      PROVE  PoolPart'
  <2>1. b \in Height
    BY SizeAssumption DEF View, Height
  <2>2. /\ pool' \in [Node -> SUBSET Tx] /\ accepted' = accepted
        /\ stored' \in [Node -> SUBSET Height]
    BY <1>1, <1>4, <2>1 DEF PoolCleaned, RemoveTransactions
  <2>3. \A p \in Node : stored[p] \subseteq stored'[p]
                        /\ stored'[p] \subseteq stored[p] \cup {b}
    BY <1>1, <1>4 DEF PoolCleaned
  <2>4. StoredCreated'
    BY <1>1, <1>4, <2>3 DEF PoolCleaned, StoredCreated
  <2>5. ASSUME NEW p \in Node, NEW u \in accepted[p]
        PROVE  u \in pool'[p] \/ \E c \in stored'[p] : u \in ToSet(header'[c].payload)
    <3>1. CASE u \in pool[p]
      <4>1. u \in pool'[p] \/ (p = n /\ u \in ToSet(header'[b].payload))
        BY <1>1, <1>4, <3>1 DEF PoolCleaned, RemoveTransactions
      <4>2. b \in stored'[n]
        BY <1>1, <1>4 DEF PoolCleaned
      <4> QED
        BY <4>1, <4>2
    <3>2. CASE \E c \in stored[p] : u \in ToSet(header[c].payload)
      <4>1. PICK c \in stored[p] : u \in ToSet(header[c].payload)
        BY <3>2
      <4>2. c \in stored'[p] /\ c \in DOMAIN header
        BY <1>1, <2>3, <4>1 DEF StoredCreated
      <4>3. header'[c] = header[c]
        BY <1>4, <4>2 DEF PoolCleaned
      <4> QED
        BY <4>1, <4>2, <4>3
    <3> QED
      BY <1>1, <2>5, <3>1, <3>2 DEF NothingDropped
  <2> QED
    BY <1>1, <2>2, <2>4, <2>5 DEF NothingDropped
<1>5. CASE PoolLost(n)
  <2>1. /\ pool' \in [Node -> SUBSET Tx] /\ accepted' \in [Node -> SUBSET Tx]
        /\ stored' = stored /\ header' = header
    BY <1>1, <1>5 DEF PoolLost
  <2>2. \A p \in Node : accepted'[p] = {} \/ (pool'[p] = pool[p] /\ accepted'[p] = accepted[p])
    BY <1>1, <1>5 DEF PoolLost
  <2> QED
    BY <1>1, <2>1, <2>2 DEF StoredCreated, NothingDropped
<1> QED
  BY <1>2, <1>3, <1>4, <1>5 DEF PoolMove

-----------------------------------------------------------------------------
(***************************************************************************)
(* Every action is one of these moves of each part.                        *)
(***************************************************************************)
LEMMA InitInv == Init => Inv
<1> SUFFICES ASSUME Init PROVE Inv
  OBVIOUS
<1>1. 0 \in Height /\ <<>> \in Seq(View)
  BY SizeAssumption DEF Height
<1>2. HistoryPart
  BY <1>1 DEF Init, HistoryPart, ExecutedFinal, CommittedAtMostOnce
<1>3. PoolPart
  BY <1>1 DEF Init, PoolPart, StoredCreated, NothingDropped
<1> QED
  BY <1>2, <1>3 DEF Inv

\* A proposal adds its block to what exists, and stores it.
LEMMA ProposeMoves ==
    ASSUME Inv, NEW n \in Node, NEW v \in View, Propose(n, v)
    PROVE  HistoryKept /\ PoolCleaned(n, v)
<1>1. PICK parent, fee, payload, r :
          RemoveTransactions(n, payload) /\ Create(v, parent, payload, fee, r)
  BY DEF Propose
<1>2. v \notin DOMAIN header
  BY DEF Propose, Created
<1>3. /\ DOMAIN header' = DOMAIN header \cup {v}
      /\ \A c \in DOMAIN header : header'[c] = header[c]
      /\ header'[v].payload = payload
  BY <1>1, <1>2 DEF Create
<1> QED
  BY <1>1, <1>3 DEF Propose, HistoryKept, PoolCleaned

\* So do the other actions, each in its own way.
LEMMA NextMoves ==
    ASSUME Inv, Next
    PROVE  \E n \in Node : HistoryMove(n) /\ PoolMove(n)
<1>1. ASSUME NEW n \in Node, NEW t \in Tx,
             RpcCheck(n, t) \/ RpcInsert(n, t) \/ TransactionReceived(n, t)
      PROVE  HistoryKept /\ (PoolKept \/ PoolGrown(n, t))
  BY <1>1 DEF RpcCheck, RpcInsert, TransactionReceived, HistoryKept, PoolKept, PoolGrown,
              durable, world
<1>2. ASSUME NEW n \in Node, NEW v \in View, ValidateAndStore(n, v)
      PROVE  HistoryKept /\ PoolCleaned(n, v)
  BY <1>2 DEF ValidateAndStore, HistoryKept, PoolCleaned, Created, world
<1>3. ASSUME NEW n \in Node, NEW v \in View, FormQC(n, v)
      PROVE  HistoryKept /\ PoolKept
  BY <1>3 DEF FormQC, HistoryKept, PoolKept, memory, world
<1>4. ASSUME NEW n \in Node, NEW v \in View, FinalizeBlock(n, v)
      PROVE  HistoryExtended(n, v) /\ PoolKept
  <2>1. v > final[n] <=> final[n] < v
    BY DEF Inv, HistoryPart, View, Height
  <2> QED
    BY <1>4, <2>1 DEF FinalizeBlock, HistoryExtended, PoolKept, memory, world
<1>5. ASSUME NEW n \in Node, NEW v \in View, FinalizeSkipped(n, v)
      PROVE  HistoryRaised(n, v) /\ PoolKept
  BY <1>5 DEF FinalizeSkipped, HistoryRaised, PoolKept, memory, world
<1>6. ASSUME NEW n \in Node, NEW v \in View, CrashInCommit(n, v)
      PROVE  HistoryExtended(n, v) /\ PoolLost(n)
  BY <1>6 DEF CrashInCommit, LoseMemory, HistoryExtended, PoolLost
<1>7. ASSUME NEW n \in Node, Restart(n)
      PROVE  HistoryKept /\ PoolLost(n)
  BY <1>7 DEF Restart, LoseMemory, HistoryKept, PoolLost, durable
<1> QED
  BY <1>1, <1>2, <1>3, <1>4, <1>5, <1>6, <1>7, ProposeMoves
     DEF Next, HistoryMove, PoolMove

LEMMA InvCorrect == Spec => []Inv
<1>1. Inv /\ [Next]_vars => Inv'
  <2> SUFFICES ASSUME Inv, [Next]_vars PROVE Inv'
    OBVIOUS
  <2>1. CASE Next
    BY <2>1, NextMoves, HistoryStep, PoolStep DEF Inv
  <2>2. CASE UNCHANGED vars
    BY <2>2 DEF vars, memory, durable, world, Inv, HistoryPart, PoolPart, ExecutedFinal,
                CommittedAtMostOnce, StoredCreated, NothingDropped
  <2> QED
    BY <2>1, <2>2
<1> QED
  BY <1>1, InitInv, PTL DEF Spec

\* on_finalize_vote saves the height before it executes, so that no block is
\* executed twice against the persistent accounts, whenever the process dies.
THEOREM ExecutedOnce == Spec => []CommittedAtMostOnce
<1>1. Inv => CommittedAtMostOnce
  BY DEF Inv, HistoryPart
<1> QED
  BY <1>1, InvCorrect, PTL

\* Every transaction a running node has accepted is in its pool or in a block
\* that it stores: remove_transactions takes only what a stored block carries.
THEOREM PoolKeepsAccepted == Spec => []NothingDropped
<1>1. Inv => NothingDropped
  BY DEF Inv, PoolPart
<1> QED
  BY <1>1, InvCorrect, PTL

-----------------------------------------------------------------------------
\* A node computes with the limit it was started with or, once restarted, with
\* the default.
LimitKnown == limit \in [Node -> {ConfigLimit, DefaultLimit}]

\* Only a proposal creates a block.
LEMMA CreatedByPropose ==
    ASSUME Next, NEW v \in View, ~Created(v), Created(v)'
    PROVE  \E n \in Node : Propose(n, v)
<1>1. header' # header
  BY DEF Created
<1>2. PICK n \in Node, w \in View : Propose(n, w)
  BY <1>1 DEF Next, RpcCheck, RpcInsert, TransactionReceived, ValidateAndStore, FormQC,
              FinalizeBlock, FinalizeSkipped, CrashInCommit, Restart, world
<1>3. DOMAIN header' = DOMAIN header \cup {w}
  BY <1>2 DEF Propose, Create
<1> QED
  BY <1>2, <1>3 DEF Created

-----------------------------------------------------------------------------
(***************************************************************************)
(* Executing and filling blocks: accounts spend each nonce once, blocks    *)
(* stay below the gas limit they were filled for, the base fee moves       *)
(* slowly, and the selection of transactions is greedy.                    *)
(***************************************************************************)
\* What folds compute (FoldTheorems), for the two loops over transactions.
ExecFold == INSTANCE FoldTheorems WITH Op <- ExecuteTx
FillFold == INSTANCE FoldTheorems WITH Op <- TakeIfFits

\* Accounts in which every transaction of the EVM that was charged sits at the
\* position of its nonce.
OrderedAccounts ==
    {a \in Accounts : \A s \in Sender : \A i \in DOMAIN a.sent[s] :
        ~a.sent[s][i].system => a.sent[s][i].nonce = i - 1}

IsCharged(a, t) == \E i \in DOMAIN a.sent[t.sender] : a.sent[t.sender][i] = t

\* How often t should have paid.
Due(a, t) == IF IsCharged(a, t) THEN 1 ELSE 0

\* Ordered accounts in which what t paid is off by at most d[t].
BalancedAccounts(d) ==
    {a \in OrderedAccounts : \A t \in Tx : ~t.system =>
        Due(a, t) - d[t] =< a.received[t] /\ a.received[t] =< Due(a, t) + d[t]}

\* What execute_block hands from one transaction to the next.
Result(d) == [ok : BOOLEAN, acct : BalancedAccounts(d), gas_used : Nat, changed : BOOLEAN]

\* w[k] is the gas that the first k transactions of s may use.
GasUpTo(w, s) ==
    /\ w \in [0 .. Len(s) -> Nat]
    /\ w[0] = 0
    /\ \A k \in 1 .. Len(s) : w[k] = w[k - 1] + s[k].gas_limit

\* The transactions of s may use no more than the bound.
FitsIn(s, bound) == \E w : GasUpTo(w, s) /\ w[Len(s)] =< bound

-----------------------------------------------------------------------------
(***************************************************************************)
(* Execution.                                                              *)
(***************************************************************************)
LEMMA TxIs ==
    ASSUME NEW t \in Tx
    PROVE  /\ t.sender \in Sender /\ t.sender \in Nat /\ t.nonce \in Nat
           /\ t.max_fee \in Nat /\ t.max_priority \in Nat
           /\ t.gas_limit \in Nat /\ t.gas_used \in Nat /\ t.gas_used =< t.gas_limit
           /\ t.system \in BOOLEAN /\ t.reverts \in BOOLEAN
<1>1. t.sender \in Sender
  BY DEF Sender
<1> QED
  BY <1>1, TxAssumption

\* What charging and crediting change.
LEMMA ChargeIs ==
    ASSUME NEW a \in Accounts, NEW t \in Tx
    PROVE  /\ Charge(a, t) \in Accounts
           /\ Charge(a, t).sent[t.sender] = Append(a.sent[t.sender], t)
           /\ \A s \in Sender : s # t.sender => Charge(a, t).sent[s] = a.sent[s]
           /\ Charge(a, t).received = a.received
<1>1. t.sender \in Sender
  BY TxIs
<1>2. a.sent \in [Sender -> Seq(Tx)] /\ a.received \in [Tx -> Nat]
      /\ a = [sent |-> a.sent, received |-> a.received]
  BY DEF Accounts
<1> DEFINE new == [a.sent EXCEPT ![t.sender] = Append(@, t)]
<1>3. new \in [Sender -> Seq(Tx)] /\ new[t.sender] = Append(a.sent[t.sender], t)
      /\ \A s \in Sender : s # t.sender => new[s] = a.sent[s]
  BY <1>1, <1>2
<1>4. Charge(a, t) = [sent |-> new, received |-> a.received]
  <2>1. Charge(a, t) = [a EXCEPT !.sent = new]
    BY Zenon DEF Charge
  <2> HIDE DEF new
  <2> QED
    BY <1>2, <2>1
<1> HIDE DEF new
<1> QED
  BY <1>2, <1>3, <1>4 DEF Accounts

LEMMA CreditIs ==
    ASSUME NEW a \in Accounts, NEW t \in Tx
    PROVE  /\ Credit(a, t) \in Accounts
           /\ Credit(a, t).sent = a.sent
           /\ Credit(a, t).received[t] = a.received[t] + 1
           /\ \A u \in Tx : u # t => Credit(a, t).received[u] = a.received[u]
<1>1. a.sent \in [Sender -> Seq(Tx)] /\ a.received \in [Tx -> Nat]
      /\ a = [sent |-> a.sent, received |-> a.received]
  BY DEF Accounts
<1> DEFINE new == [a.received EXCEPT ![t] = @ + 1]
<1>2. new \in [Tx -> Nat] /\ new[t] = a.received[t] + 1
      /\ \A u \in Tx : u # t => new[u] = a.received[u]
  BY <1>1
<1>3. Credit(a, t) = [sent |-> a.sent, received |-> new]
  <2>1. Credit(a, t) = [a EXCEPT !.received = new]
    BY Zenon DEF Credit
  <2> HIDE DEF new
  <2> QED
    BY <1>1, <2>1
<1> HIDE DEF new
<1> QED
  BY <1>1, <1>2, <1>3 DEF Accounts

\* A transaction that is charged goes to the position of its nonce.
LEMMA ChargeOrdered ==
    ASSUME NEW a \in OrderedAccounts, NEW t \in Tx,
           t.system \/ t.nonce = Nonce(a, t.sender)
    PROVE  Charge(a, t) \in OrderedAccounts
<1>1. t.sender \in Sender /\ t.nonce \in Nat
  BY TxIs
<1>2. a \in Accounts /\ a.sent \in [Sender -> Seq(Tx)]
  BY DEF OrderedAccounts, Accounts
<1> DEFINE c == Charge(a, t).sent
           q == a.sent[t.sender]
           u == Append(q, t)
<1>3. q \in Seq(Tx) /\ u \in Seq(Tx)
  BY <1>1, <1>2
<1>4. Charge(a, t) \in Accounts /\ c[t.sender] = u
      /\ \A s \in Sender : s # t.sender => c[s] = a.sent[s]
  BY <1>2, ChargeIs
<1> HIDE DEF c
<1>5. /\ DOMAIN u = 1 .. (Len(q) + 1) /\ DOMAIN q = 1 .. Len(q) /\ Len(q) \in Nat
      /\ u[Len(q) + 1] = t
      /\ \A i \in 1 .. Len(q) : u[i] = q[i]
  BY <1>3
<1>6. \A i \in 1 .. Len(q) : ~q[i].system => q[i].nonce = i - 1
  BY <1>1, <1>5 DEF OrderedAccounts
<1>7. t.system \/ t.nonce = Len(q)
  BY DEF Nonce
<1>8. \A i \in DOMAIN u : ~u[i].system => u[i].nonce = i - 1
  <2> TAKE i \in DOMAIN u
  <2>1. i \in 1 .. Len(q) \/ i = Len(q) + 1
    BY <1>5
  <2> HIDE DEF u, q
  <2>2. CASE i \in 1 .. Len(q)
    BY <2>2, <1>5, <1>6
  <2>3. CASE i = Len(q) + 1
    <3>1. u[i] = t /\ i - 1 = Len(q)
      BY <2>3, <1>5
    <3> QED
      BY <3>1, <1>7
  <2> QED
    BY <2>1, <2>2, <2>3
<1>9. \A s \in Sender : \A i \in DOMAIN c[s] : ~c[s][i].system => c[s][i].nonce = i - 1
  <2> TAKE s \in Sender
  <2>1. CASE s = t.sender
    BY <2>1, <1>4, <1>8
  <2>2. CASE s # t.sender
    <3>1. \A i \in DOMAIN a.sent[s] : ~a.sent[s][i].system => a.sent[s][i].nonce = i - 1
      BY DEF OrderedAccounts
    <3>2. c[s] = a.sent[s]
      BY <1>4, <2>2
    <3> QED
      BY <3>1, <3>2
  <2> QED
    BY <2>1, <2>2
<1> QED
  BY <1>4, <1>9 DEF OrderedAccounts, c

\* Charging t is what makes t charged.
LEMMA ChargeCharges ==
    ASSUME NEW a \in Accounts, NEW t \in Tx, NEW u \in Tx
    PROVE  IsCharged(Charge(a, t), u) <=> IsCharged(a, u) \/ u = t
<1>1. t.sender \in Sender /\ u.sender \in Sender
  BY TxIs
<1> DEFINE q == a.sent[t.sender]
           c == Charge(a, t).sent
<1>2. q \in Seq(Tx)
  BY <1>1 DEF Accounts
<1>3. c[t.sender] = Append(q, t) /\ \A s \in Sender : s # t.sender => c[s] = a.sent[s]
  BY ChargeIs
<1>4. /\ DOMAIN Append(q, t) = 1 .. (Len(q) + 1) /\ DOMAIN q = 1 .. Len(q) /\ Len(q) \in Nat
      /\ Append(q, t)[Len(q) + 1] = t
      /\ \A i \in 1 .. Len(q) : Append(q, t)[i] = q[i]
  BY <1>2
<1>5. \A i \in 1 .. (Len(q) + 1) : i \in 1 .. Len(q) \/ i = Len(q) + 1
  BY <1>4
<1> HIDE DEF c
<1>6. CASE u.sender = t.sender
  <2>1. IsCharged(a, u) <=> \E i \in 1 .. Len(q) : q[i] = u
    BY <1>4, <1>6 DEF IsCharged
  <2>2. IsCharged(Charge(a, t), u) <=> \E i \in 1 .. (Len(q) + 1) : Append(q, t)[i] = u
    BY <1>3, <1>4, <1>6 DEF IsCharged, c
  <2> HIDE DEF q
  <2>3. 1 .. Len(q) \subseteq 1 .. (Len(q) + 1) /\ Len(q) + 1 \in 1 .. (Len(q) + 1)
    BY <1>4
  <2> QED
    BY <1>4, <1>5, <2>1, <2>2, <2>3
<1>7. CASE u.sender # t.sender
  <2>1. c[u.sender] = a.sent[u.sender] /\ u # t
    BY <1>1, <1>3, <1>7
  <2> QED
    BY <2>1 DEF IsCharged, c
<1> QED
  BY <1>6, <1>7

\* A transaction with the sender's nonce has not been charged.
LEMMA NotChargedBefore ==
    ASSUME NEW a \in OrderedAccounts, NEW t \in Tx, ~t.system, t.nonce = Nonce(a, t.sender)
    PROVE  ~IsCharged(a, t)
<1> SUFFICES ASSUME NEW i \in DOMAIN a.sent[t.sender], a.sent[t.sender][i] = t
             PROVE  FALSE
  BY DEF IsCharged
<1>1. t.sender \in Sender
  BY TxIs
<1>2. a.sent[t.sender] \in Seq(Tx)
  BY <1>1 DEF OrderedAccounts, Accounts
<1>3. t.nonce = i - 1
  BY <1>1 DEF OrderedAccounts
<1>4. i \in 1 .. Len(a.sent[t.sender]) /\ Len(a.sent[t.sender]) \in Nat
  BY <1>2
<1> QED
  BY <1>3, <1>4 DEF Nonce

LEMMA DueIs ==
    ASSUME NEW a \in Accounts, NEW t \in Tx, NEW u \in Tx
    PROVE  /\ Due(a, u) \in {0, 1}
           /\ u # t => Due(Charge(a, t), u) = Due(a, u)
           /\ Due(Charge(a, t), t) = 1
           /\ Due(Credit(a, t), u) = Due(a, u)
<1>1. Credit(a, t).sent = a.sent
  BY CreditIs
<1>2. IsCharged(Credit(a, t), u) <=> IsCharged(a, u)
  BY <1>1 DEF IsCharged
<1> QED
  BY <1>2, ChargeCharges DEF Due

LEMMA BalancedIs ==
    ASSUME NEW d \in [Tx -> Nat], NEW a \in BalancedAccounts(d)
    PROVE  /\ a \in OrderedAccounts /\ a \in Accounts
           /\ \A u \in Tx : d[u] \in Nat /\ a.received[u] \in Nat /\ Due(a, u) \in {0, 1}
           /\ \A u \in Tx : ~u.system =>
                Due(a, u) - d[u] =< a.received[u] /\ a.received[u] =< Due(a, u) + d[u]
<1>1. a \in OrderedAccounts /\ a \in Accounts
  BY DEF BalancedAccounts, OrderedAccounts
<1>2. a.received \in [Tx -> Nat]
  BY <1>1 DEF Accounts
<1>3. \A u \in Tx : d[u] \in Nat /\ a.received[u] \in Nat /\ Due(a, u) \in {0, 1}
  BY <1>2 DEF Due
<1>4. \A u \in Tx : ~u.system =>
         Due(a, u) - d[u] =< a.received[u] /\ a.received[u] =< Due(a, u) + d[u]
  BY DEF BalancedAccounts
<1> QED
  BY <1>1, <1>3, <1>4

\* A call of the staking contract is charged only.
LEMMA SystemBalanced ==
    ASSUME NEW d \in [Tx -> Nat], NEW a \in BalancedAccounts(d), NEW t \in Tx, t.system
    PROVE  Charge(a, t) \in BalancedAccounts(d)
<1>1. a \in OrderedAccounts /\ a \in Accounts
  BY BalancedIs
<1>2. Charge(a, t) \in OrderedAccounts /\ Charge(a, t).received = a.received
  BY <1>1, ChargeOrdered, ChargeIs
<1>3. ASSUME NEW u \in Tx, ~u.system
      PROVE  Due(Charge(a, t), u) = Due(a, u)
  BY <1>1, <1>3, DueIs
<1> QED
  BY <1>2, <1>3, BalancedIs DEF BalancedAccounts

\* A transaction of the EVM that is charged and credited.
LEMMA PaidBalanced ==
    ASSUME NEW d \in [Tx -> Nat], NEW a \in BalancedAccounts(d), NEW t \in Tx,
           ~t.system, t.nonce = Nonce(a, t.sender)
    PROVE  Credit(Charge(a, t), t) \in BalancedAccounts(d)
<1> DEFINE b == Charge(a, t)
           c == Credit(b, t)
<1>1. a \in OrderedAccounts /\ a \in Accounts
  BY BalancedIs
<1>2. b \in OrderedAccounts /\ b \in Accounts /\ b.received = a.received
  BY <1>1, ChargeOrdered, ChargeIs
<1>3. c \in Accounts /\ c.sent = b.sent /\ c.received[t] = a.received[t] + 1
      /\ \A u \in Tx : u # t => c.received[u] = a.received[u]
  <2> HIDE DEF b
  <2> QED
    BY <1>2, CreditIs
<1>4. c \in OrderedAccounts
  <2> HIDE DEF c, b
  <2> QED
    BY <1>2, <1>3 DEF OrderedAccounts
<1>5. Due(a, t) = 0
  BY <1>1, NotChargedBefore DEF Due
<1>6. Due(c, t) = 1 /\ \A u \in Tx : u # t => Due(c, u) = Due(a, u)
  BY <1>1, <1>2, DueIs
<1> HIDE DEF c, b
<1>7. ASSUME NEW u \in Tx, ~u.system
      PROVE  Due(c, u) - d[u] =< c.received[u] /\ c.received[u] =< Due(c, u) + d[u]
  <2>1. /\ Due(a, u) - d[u] =< a.received[u] /\ a.received[u] =< Due(a, u) + d[u]
        /\ d[u] \in Nat /\ a.received[u] \in Nat
    BY <1>7, BalancedIs
  <2>2. CASE u = t
    BY <1>3, <1>5, <1>6, <2>1, <2>2
  <2>3. CASE u # t
    BY <1>3, <1>6, <2>1, <2>3
  <2> QED
    BY <2>2, <2>3
<1>8. c \in BalancedAccounts(d)
  BY <1>4, <1>7 DEF BalancedAccounts
<1> QED
  BY <1>8 DEF c, b

\* One that is charged or credited only, when the process dies in between.
LEMMA TornBalanced ==
    ASSUME NEW d \in [Tx -> Nat], NEW a \in BalancedAccounts(d), NEW t \in Tx,
           ~t.system, t.nonce = Nonce(a, t.sender), NEW e, e = [d EXCEPT ![t] = @ + 1]
    PROVE  Charge(a, t) \in BalancedAccounts(e) /\ Credit(a, t) \in BalancedAccounts(e)
<1> DEFINE b == Charge(a, t)
           c == Credit(a, t)
<1>1. a \in OrderedAccounts /\ a \in Accounts
  BY BalancedIs
<1>2. b \in OrderedAccounts /\ b.received = a.received
  BY <1>1, ChargeOrdered, ChargeIs
<1>3. c \in Accounts /\ c.sent = a.sent /\ c.received[t] = a.received[t] + 1
      /\ \A u \in Tx : u # t => c.received[u] = a.received[u]
  BY <1>1, CreditIs
<1>4. c \in OrderedAccounts
  <2> HIDE DEF c
  <2> QED
    BY <1>1, <1>3 DEF OrderedAccounts
<1>5. Due(a, t) = 0
  BY <1>1, NotChargedBefore DEF Due
<1>6. /\ Due(b, t) = 1 /\ \A u \in Tx : u # t => Due(b, u) = Due(a, u)
      /\ \A u \in Tx : Due(c, u) = Due(a, u)
  BY <1>1, DueIs
<1> HIDE DEF c, b
<1>7. ASSUME NEW u \in Tx, ~u.system
      PROVE  /\ Due(b, u) - e[u] =< b.received[u] /\ b.received[u] =< Due(b, u) + e[u]
             /\ Due(c, u) - e[u] =< c.received[u] /\ c.received[u] =< Due(c, u) + e[u]
  <2>1. /\ Due(a, u) - d[u] =< a.received[u] /\ a.received[u] =< Due(a, u) + d[u]
        /\ d[u] \in Nat /\ a.received[u] \in Nat /\ Due(a, u) \in {0, 1}
    BY <1>7, BalancedIs
  <2>2. CASE u = t
    <3>1. e[u] = d[u] + 1
      BY <2>2
    <3> QED
      BY <1>2, <1>3, <1>5, <1>6, <2>1, <2>2, <3>1
  <2>3. CASE u # t
    <3>1. e[u] = d[u]
      BY <2>3
    <3> QED
      BY <1>2, <1>3, <1>6, <2>1, <2>3, <3>1
  <2> QED
    BY <2>2, <2>3
<1>8. b \in BalancedAccounts(e) /\ c \in BalancedAccounts(e)
  BY <1>2, <1>4, <1>7 DEF BalancedAccounts
<1> QED
  BY <1>8 DEF c, b

\* What one transaction does to the result.
LEMMA ExecuteTxIs ==
    ASSUME NEW d \in [Tx -> Nat], NEW r \in Result(d), NEW t \in Tx
    PROVE  /\ ExecuteTx(r, t) \in Result(d)
           /\ ExecuteTx(r, t).gas_used =< r.gas_used + t.gas_limit
<1>1. /\ r.acct \in BalancedAccounts(d) /\ r.gas_used \in Nat /\ r.ok \in BOOLEAN
      /\ r.changed \in BOOLEAN
      /\ r = [ok |-> r.ok, acct |-> r.acct, gas_used |-> r.gas_used, changed |-> r.changed]
  BY DEF Result
<1>2. t.gas_used \in Nat /\ t.gas_limit \in Nat /\ t.gas_used =< t.gas_limit
  BY TxIs
<1>3. CASE ExecuteTx(r, t) = r
  BY <1>1, <1>2, <1>3
<1>4. CASE /\ t.system
           /\ ExecuteTx(r, t) = [r EXCEPT !.acct = Charge(@, t), !.changed = TRUE]
  <2>1. Charge(r.acct, t) \in BalancedAccounts(d)
    BY <1>1, <1>4, SystemBalanced
  <2>2. ExecuteTx(r, t) = [ok |-> r.ok, acct |-> Charge(r.acct, t), gas_used |-> r.gas_used,
                           changed |-> TRUE]
    BY <1>1, <1>4
  <2> QED
    BY <1>1, <1>2, <2>1, <2>2 DEF Result
<1>5. CASE ExecuteTx(r, t) = [r EXCEPT !.ok = FALSE]
  <2>1. ExecuteTx(r, t) = [ok |-> FALSE, acct |-> r.acct, gas_used |-> r.gas_used,
                           changed |-> r.changed]
    BY <1>1, <1>5
  <2> QED
    BY <1>1, <1>2, <2>1 DEF Result
<1>6. CASE ExecuteTx(r, t) = [r EXCEPT !.gas_used = @ + t.gas_used]
  BY <1>1, <1>2, <1>6 DEF Result
<1>7. CASE /\ ~t.system /\ ~Refuses(r, t)
           /\ ExecuteTx(r, t) = [r EXCEPT !.acct = Credit(Charge(@, t), t), !.changed = TRUE,
                                          !.gas_used = @ + t.gas_used]
  <2>1. Credit(Charge(r.acct, t), t) \in BalancedAccounts(d)
    BY <1>1, <1>7, PaidBalanced DEF Refuses
  <2>2. ExecuteTx(r, t) = [ok |-> r.ok, acct |-> Credit(Charge(r.acct, t), t),
                           gas_used |-> r.gas_used + t.gas_used, changed |-> TRUE]
    BY <1>1, <1>7
  <2> QED
    BY <1>1, <1>2, <2>1, <2>2 DEF Result
<1> QED
  BY <1>3, <1>4, <1>5, <1>6, <1>7, Zenon DEF ExecuteTx

\* Executing s leaves the accounts balanced, wherever the execution stops, and
\* uses no more gas than its transactions may.
LEMMA ExecutePartIs ==
    ASSUME NEW d \in [Tx -> Nat], NEW a \in BalancedAccounts(d), NEW payload, NEW bound,
           NEW s \in Seq(Tx)
    PROVE  /\ ExecutePart(a, payload, bound, s) \in Result(d)
           /\ \A limits \in Nat : FitsIn(s, limits)
                 => ExecutePart(a, payload, bound, s).gas_used =< limits
<1> DEFINE e == ExecutePart(a, payload, bound, s)
           n == Len(s)
           start == Start(a, payload, bound)
<1>1. e = ExecFold!Fold(start, s)
  BY Zenon DEF ExecutePart, FoldLeft, MapThenFoldSet, Max, ExecFold!Fold, ExecFold!FoldLeft,
               ExecFold!MapThenFoldSet, ExecFold!Max
<1>2. start \in Result(d)
  BY DEF Result, Start
<1>3. ExecFold!Closed(Result(d), Tx)
  BY ExecuteTxIs DEF ExecFold!Closed
<1>4. start.gas_used = 0
  BY DEF Start
<1> HIDE DEF start, e
<1>5. PICK r \in [0 .. n -> Result(d)] : ExecFold!Trace(r, start, s)
  BY <1>2, <1>3, ExecFold!FoldLeftTrace
<1>6. /\ r[0] = start /\ r[n] = e /\ n \in Nat
      /\ \A k \in 1 .. n : r[k] = ExecuteTx(r[k - 1], s[k])
  BY <1>1, <1>5 DEF ExecFold!Trace
<1>7. e \in Result(d)
  BY <1>6
<1>8. ASSUME NEW limits \in Nat, FitsIn(s, limits)
      PROVE  e.gas_used =< limits
  <2>1. PICK w : GasUpTo(w, s) /\ w[n] =< limits
    BY <1>8 DEF FitsIn
  <2>2. /\ w \in [0 .. n -> Nat] /\ w[0] = 0
        /\ \A k \in 1 .. n : w[k] = w[k - 1] + s[k].gas_limit
    BY <2>1 DEF GasUpTo
  <2> DEFINE T == {k \in 0 .. n : r[k].gas_used =< w[k]}
  <2>3. 0 \in T
    BY <1>4, <1>6, <2>2
  <2>4. ASSUME NEW k \in 0 .. (n - 1), k \in T
        PROVE  k + 1 \in T
    <3>1. k + 1 \in 1 .. n /\ (k + 1) - 1 = k /\ s[k + 1] \in Tx /\ k \in 0 .. n
          /\ k + 1 \in 0 .. n
      BY <1>6
    <3>2. r[k + 1] = ExecuteTx(r[k], s[k + 1])
      BY <1>6, <3>1
    <3>3. w[k + 1] = w[k] + s[k + 1].gas_limit
      BY <2>2, <3>1
    <3>4. r[k] \in Result(d) /\ r[k + 1] \in Result(d)
      BY <3>1
    <3>5. r[k + 1].gas_used =< r[k].gas_used + s[k + 1].gas_limit
      BY <3>1, <3>2, <3>4, ExecuteTxIs
    <3>6. r[k].gas_used \in Nat /\ r[k + 1].gas_used \in Nat
      BY <3>4 DEF Result
    <3>7. w[k] \in Nat /\ s[k + 1].gas_limit \in Nat
      BY <2>2, <3>1, TxIs
    <3>8. r[k].gas_used =< w[k]
      BY <2>4
    <3>9. r[k + 1].gas_used =< w[k + 1]
      BY <3>3, <3>5, <3>6, <3>7, <3>8
    <3> QED
      BY <3>1, <3>9
  <2> HIDE DEF T
  <2>5. \A k \in 0 .. n : k \in T
    BY <1>6, <2>3, <2>4, UpTo
  <2>6. r[n].gas_used =< w[n]
    BY <1>6, <2>5 DEF T
  <2>7. r[n].gas_used \in Nat /\ w[n] \in Nat
    BY <1>6, <2>2 DEF Result
  <2> QED
    BY <1>6, <2>1, <2>6, <2>7
<1> QED
  BY <1>7, <1>8 DEF e

-----------------------------------------------------------------------------
(***************************************************************************)
(* Selection.                                                              *)
(***************************************************************************)
\* What filling a block hands from one transaction to the next.
Filling(bound) == {f \in [bound : {bound}, gas : 0 .. bound, block : Seq(Tx)] :
                     \E w : GasUpTo(w, f.block) /\ w[Len(f.block)] = f.gas}

\* One more transaction, whose gas still fits.
LEMMA TakeIs ==
    ASSUME NEW bound \in Nat, NEW f \in Filling(bound), NEW t \in Tx
    PROVE  TakeIfFits(f, t) \in Filling(bound)
<1>1. /\ f \in [bound : {bound}, gas : 0 .. bound, block : Seq(Tx)]
      /\ f.bound = bound /\ f.gas \in 0 .. bound /\ f.block \in Seq(Tx)
  BY DEF Filling
<1>2. t.gas_limit \in Nat
  BY TxIs
<1>3. PICK w : GasUpTo(w, f.block) /\ w[Len(f.block)] = f.gas
  BY DEF Filling
<1> DEFINE s == f.block
           u == Append(s, t)
           g == f.gas + t.gas_limit
           v == [k \in 0 .. (Len(s) + 1) |-> IF k = Len(s) + 1 THEN g ELSE w[k]]
<1>4. CASE f.gas < f.bound /\ g =< f.bound
  <2>1. TakeIfFits(f, t) = [bound |-> bound, gas |-> g, block |-> u]
    BY <1>1, <1>4 DEF TakeIfFits
  <2>2. u \in Seq(Tx) /\ Len(u) = Len(s) + 1 /\ Len(s) \in Nat /\ u[Len(s) + 1] = t
        /\ \A k \in 1 .. Len(s) : u[k] = s[k]
    BY <1>1
  <2>3. g \in 0 .. bound
    BY <1>1, <1>2, <1>4
  <2>4. /\ w \in [0 .. Len(s) -> Nat] /\ w[0] = 0 /\ w[Len(s)] = f.gas
        /\ \A k \in 1 .. Len(s) : w[k] = w[k - 1] + s[k].gas_limit
    BY <1>3 DEF GasUpTo
  <2>5. v \in [0 .. Len(u) -> Nat] /\ v[0] = 0 /\ v[Len(u)] = g
    <3> HIDE DEF s, u, g
    <3> QED
      BY <2>2, <2>3, <2>4
  <2>6. \A k \in 1 .. Len(u) : v[k] = v[k - 1] + u[k].gas_limit
    <3> TAKE k \in 1 .. Len(u)
    <3>1. k \in 1 .. Len(s) \/ k = Len(s) + 1
      BY <2>2
    <3>2. CASE k \in 1 .. Len(s)
      <4>1. v[k] = w[k] /\ v[k - 1] = w[k - 1] /\ u[k] = s[k]
        <5> HIDE DEF s, u, g
        <5> QED
          BY <2>2, <3>2
      <4> QED
        BY <2>4, <3>2, <4>1
    <3>3. CASE k = Len(s) + 1
      <4>1. v[k] = g /\ v[k - 1] = w[Len(s)] /\ u[k] = t
        <5> HIDE DEF s, u, g
        <5> QED
          BY <2>2, <3>3
      <4> QED
        BY <2>4, <4>1
    <3> QED
      BY <3>1, <3>2, <3>3
  <2>7. GasUpTo(v, u)
    BY <2>5, <2>6 DEF GasUpTo
  <2> HIDE DEF v, u, g
  <2>8. \E x : GasUpTo(x, u) /\ x[Len(u)] = g
    BY <2>5, <2>7
  <2> QED
    BY <2>1, <2>2, <2>3, <2>8 DEF Filling
<1>5. CASE ~(f.gas < f.bound /\ g =< f.bound)
  BY <1>5 DEF TakeIfFits
<1> QED
  BY <1>4, <1>5

\* An empty block.
LEMMA BaseFilling ==
    ASSUME NEW bound \in Nat
    PROVE  [bound |-> bound, gas |-> 0, block |-> <<>>] \in Filling(bound)
<1> DEFINE base == [bound |-> bound, gas |-> 0, block |-> <<>>]
<1> DEFINE w == [k \in {0} |-> 0]
<1>1. 0 .. Len(<<>>) = {0} /\ Len(<<>>) = 0 /\ 1 .. 0 = {}
  OBVIOUS
<1>2. GasUpTo(w, <<>>) /\ w[Len(<<>>)] = 0
  BY <1>1 DEF GasUpTo
<1>3. \E x : GasUpTo(x, base.block) /\ x[Len(base.block)] = base.gas
  <2>1. base.block = <<>> /\ base.gas = 0
    OBVIOUS
  <2> HIDE DEF w, base
  <2> QED
    BY <1>2, <2>1, Zenon
<1>4. base \in [bound : {bound}, gas : 0 .. bound, block : Seq(Tx)]
  OBVIOUS
<1> HIDE DEF base
<1>5. base \in Filling(bound)
  BY <1>3, <1>4 DEF Filling
<1> QED
  BY <1>5 DEF base

LEMMA FillIs ==
    ASSUME NEW bound \in Nat, NEW s \in Seq(Tx)
    PROVE  Fill(s, bound) \in Seq(Tx) /\ FitsIn(Fill(s, bound), bound)
<1> DEFINE base == [bound |-> bound, gas |-> 0, block |-> <<>>]
           f == FillFold!Fold(base, s)
<1>1. Fill(s, bound) = f.block
  BY Zenon DEF Fill, FoldLeft, MapThenFoldSet, Max, FillFold!Fold, FillFold!FoldLeft,
               FillFold!MapThenFoldSet, FillFold!Max
<1>2. base \in Filling(bound)
  BY BaseFilling
<1>3. FillFold!Closed(Filling(bound), Tx)
  BY TakeIs DEF FillFold!Closed
<1>4. f \in Filling(bound)
  <2> HIDE DEF base
  <2>1. PICK r \in [0 .. Len(s) -> Filling(bound)] : FillFold!Trace(r, base, s)
    BY <1>2, <1>3, FillFold!FoldLeftTrace
  <2> QED
    BY <2>1 DEF FillFold!Trace
<1> HIDE DEF f
<1>5. f.block \in Seq(Tx) /\ f.gas =< bound
  BY <1>4 DEF Filling
<1>6. PICK w : GasUpTo(w, f.block) /\ w[Len(f.block)] = f.gas
  BY <1>4 DEF Filling
<1> QED
  BY <1>1, <1>5, <1>6 DEF FitsIn

\* What a leader puts into a block comes from its pool and fits in its limit.
LEMMA SelectedIs ==
    ASSUME NEW n \in Node, pool[n] \in SUBSET Tx, IsFiniteSet(pool[n]), limit[n] \in Nat,
           NEW fee, NEW payload \in TransactionsForBlock(n, fee)
    PROVE  payload \in Seq(Tx) /\ FitsIn(payload, limit[n])
<1> DEFINE S == {t \in pool[n] : t.max_fee >= fee}
<1>1. PICK s \in Sorted(S, fee) : payload = Fill(s, limit[n])
  BY DEF TransactionsForBlock
<1>2. IsFiniteSet(S)
  BY FS_Subset
<1>3. Cardinality(S) \in Nat
  BY <1>2, FS_CardinalityType
<1>4. s \in [1 .. Cardinality(S) -> S]
  BY <1>1 DEF Sorted, SetToSeqs
<1>5. s \in Seq(Tx)
  <2>1. S \subseteq Tx
    OBVIOUS
  <2> HIDE DEF S
  <2>2. s \in [1 .. Cardinality(S) -> Tx]
    BY <1>4, <2>1
  <2> QED
    BY <1>3, <2>2
<1> QED
  BY <1>1, <1>5, FillIs

-----------------------------------------------------------------------------
(***************************************************************************)
(* The base fee.                                                           *)
(***************************************************************************)
\* A part of a whole, rounded down, is no more than the whole.
LEMMA PartOf ==
    ASSUME NEW a \in Nat, NEW t \in Nat \ {0}, NEW d \in 0 .. t
    PROVE  (a * d) \div t \in 0 .. a
<1> DEFINE q == (a * d) \div t
<1>1. a * d \in Nat /\ a * t \in Nat /\ a * d =< a * t
  OBVIOUS
<1>2. q \in Nat /\ q * t =< a * d
  BY <1>1
<1>3. q * t =< a * t
  BY <1>1, <1>2
<1>4. q =< a
  BY <1>2, <1>3
<1> QED
  BY <1>2, <1>4

LEMMA Eighth ==
    ASSUME NEW a \in Nat
    PROVE  a \div 8 \in Nat /\ 8 * (a \div 8) =< a
OBVIOUS

\* The bound of FeeBounded on the rise, for a part q that is added to the fee.
LEMMA RiseBounded ==
    ASSUME NEW fee \in Nat, NEW target \in Nat \ {0}, NEW used \in Nat, used > target,
           NEW small \in Nat, small =< target, NEW large \in Nat, used =< large
    PROVE  LET q == (fee * (used - target)) \div target
           IN  8 * small * (fee + q \div 8) =< (7 * small + large) * fee
<1> DEFINE over == used - target
           q == (fee * over) \div target
           e == q \div 8
<1>1. over \in Nat /\ over =< large - small /\ large - small \in Nat
  OBVIOUS
<1> HIDE DEF over
<1>2. fee * over \in Nat /\ fee * over =< fee * (large - small)
  BY <1>1
<1>3. q \in Nat /\ target * q =< fee * over
  BY <1>2
<1>4. e \in Nat /\ 8 * e =< q
  BY <1>3, Eighth
<1> HIDE DEF q, e
<1>5. small * (8 * e) =< small * q
  BY <1>4, <1>3
<1>6. small * q =< target * q
  BY <1>3
<1>7. small * (8 * e) =< fee * (large - small)
  BY <1>1, <1>2, <1>3, <1>4, <1>5, <1>6
<1>8. 8 * small * (fee + e) = 8 * (small * fee) + small * (8 * e)
  BY <1>4
<1>9. (7 * small + large) * fee = 8 * (small * fee) + fee * (large - small)
  BY <1>1
<1>10. 8 * small * (fee + e) =< (7 * small + large) * fee
  BY <1>1, <1>4, <1>7, <1>8, <1>9
<1> QED
  BY <1>10 DEF q, e, over

\* The formula of calculate_next_base_fee: the fee falls by at most an eighth;
\* it rises by what the gas used and the target allow.
LEMMA NextBaseFeeIs ==
    ASSUME NEW parent, parent.gas_used \in Nat, parent.base_fee \in Nat,
           NEW bound \in Nat \ {0, 1},
           NEW small \in Nat, small =< bound \div 2,
           NEW large \in Nat, parent.gas_used =< large, small =< large
    PROVE  /\ NextBaseFee(parent, bound) \in Nat
           /\ 8 * NextBaseFee(parent, bound) >= 7 * parent.base_fee
           /\ 8 * small * NextBaseFee(parent, bound) =< (7 * small + large) * parent.base_fee
<1> DEFINE target == bound \div 2
           used == parent.gas_used
           fee == parent.base_fee
           rise == (fee * (used - target)) \div target
           fall == (fee * (target - used)) \div target
<1>1. used \in Nat /\ fee \in Nat /\ target \in Nat \ {0} /\ small =< target /\ used =< large
  OBVIOUS
<1> HIDE DEF target, used, fee
\* A fee that does not rise is within the bound.
<1>2. ASSUME NEW f \in Nat, f =< fee
      PROVE  8 * small * f =< (7 * small + large) * fee
  <2>1. 8 * small \in Nat /\ 8 * small =< 7 * small + large
    OBVIOUS
  <2>2. (8 * small) * f =< (8 * small) * fee
    BY <1>1, <1>2, <2>1
  <2>3. (8 * small) * fee =< (7 * small + large) * fee
    BY <1>1, <2>1
  <2> QED
    BY <1>1, <1>2, <2>1, <2>2, <2>3
<1>3. CASE used = target
  <2>1. NextBaseFee(parent, bound) = fee
    BY <1>3 DEF NextBaseFee, target, used, fee
  <2> QED
    BY <1>1, <1>2, <2>1 DEF fee
<1>4. CASE used > target
  <2>1. NextBaseFee(parent, bound) = fee + rise \div 8
    <3>1. used # target
      BY <1>1, <1>4
    <3> QED
      BY <1>4, <3>1, Zenon DEF NextBaseFee, target, used, fee
  <2>2. rise \in Nat
    <3>1. used - target \in Nat
      BY <1>1, <1>4
    <3>2. fee * (used - target) \in Nat
      BY <1>1, <3>1
    <3> QED
      BY <1>1, <3>2
  <2>3. 8 * small * (fee + rise \div 8) =< (7 * small + large) * fee
    BY <1>1, <1>4, RiseBounded
  <2> HIDE DEF rise
  <2>4. rise \div 8 \in Nat /\ 8 * (rise \div 8) =< rise
    BY <2>2, Eighth
  <2>5. /\ fee + rise \div 8 \in Nat /\ 8 * (fee + rise \div 8) >= 7 * fee
    BY <1>1, <2>2, <2>4
  <2> QED
    BY <2>1, <2>3, <2>5 DEF fee
<1>5. CASE used < target
  <2>1. NextBaseFee(parent, bound) = fee - fall \div 8
    <3>1. used # target /\ ~(used > target)
      BY <1>1, <1>5
    <3> QED
      BY <3>1, Zenon DEF NextBaseFee, target, used, fee
  <2>2. fall \in 0 .. fee
    <3>1. target - used \in 0 .. target
      BY <1>1, <1>5
    <3> QED
      BY <1>1, <3>1, PartOf
  <2> HIDE DEF fall
  <2>3. fall \div 8 \in Nat /\ 8 * (fall \div 8) =< fall
    BY <2>2, Eighth
  <2>4. /\ fee - fall \div 8 \in Nat /\ 8 * (fee - fall \div 8) >= 7 * fee
        /\ fee - fall \div 8 =< fee
    BY <1>1, <2>2, <2>3
  <2> QED
    BY <1>2, <2>1, <2>4 DEF fee
<1> QED
  BY <1>1, <1>3, <1>4, <1>5

-----------------------------------------------------------------------------
(***************************************************************************)
(* The invariant.  A parent exists when its block is created and no block  *)
(* is replaced, so a fee is forever compared with the one it came from; a  *)
(* payload is made of transactions and fits in a limit, so what executing  *)
(* it yields is known; pools are finite, so that they can be sorted.       *)
(***************************************************************************)
BlocksPart ==
    /\ DOMAIN header \subseteq Height
    /\ \A b \in DOMAIN header : header[b] \in Header /\ header[b].parent \in DOMAIN header

AccountsPart ==
    /\ torn \in [Node -> [Tx -> Nat]]
    /\ acct \in [Node -> OrderedAccounts]
    /\ \A n \in Node : acct[n] \in BalancedAccounts(torn[n])

NodesPart ==
    /\ checking \in [Node -> SUBSET Tx]
    /\ gossip \in [Node -> SUBSET Tx]
    /\ LimitKnown
    /\ preferred \in [Node -> Height]
    /\ \A n \in Node : IsFiniteSet(pool[n])

CountsPart == sends \in 0 .. MaxSends /\ crashes \in 0 .. MaxCrashes

ExecInv == BlocksPart /\ AccountsPart /\ FeeBounded /\ NodesPart /\ CountsPart

-----------------------------------------------------------------------------
LEMMA Sizes ==
    /\ MaxView \in Nat \ {0} /\ 0 \in Height /\ View \subseteq Height /\ View \subseteq Nat
    /\ Height \subseteq Nat
    /\ \A b \in View : b - 1 \in Height
    /\ ConfigLimit \in Nat \ {0, 1} /\ DefaultLimit \in Nat \ {0, 1}
    /\ ConfigLimit \in Gas /\ DefaultLimit \in Gas
    /\ LargestLimit \in Nat /\ ConfigLimit =< LargestLimit /\ DefaultLimit =< LargestLimit
    /\ SmallestTarget \in Nat /\ SmallestTarget =< LargestLimit
    /\ SmallestTarget =< ConfigLimit \div 2 /\ SmallestTarget =< DefaultLimit \div 2
BY SizeAssumption, LimitAssumption DEF View, Height, Gas, LargestLimit, SmallestTarget

LEMMA NoAccountsBalanced ==
    ASSUME NEW d \in [Tx -> Nat]
    PROVE  NoAccounts \in BalancedAccounts(d) /\ NoAccounts \in OrderedAccounts
           /\ NoAccounts \in Accounts
<1>1. NoAccounts \in Accounts
  BY DEF NoAccounts, Accounts
<1>2. \A s \in Sender : NoAccounts.sent[s] = <<>> /\ DOMAIN NoAccounts.sent[s] = {}
  BY DEF NoAccounts
<1>3. NoAccounts \in OrderedAccounts
  BY <1>1, <1>2 DEF OrderedAccounts
<1>4. \A t \in Tx : NoAccounts.received[t] = 0 /\ d[t] \in Nat /\ Due(NoAccounts, t) = 0
  BY <1>2, TxIs DEF NoAccounts, Due, IsCharged
<1> QED
  BY <1>1, <1>3, <1>4 DEF BalancedAccounts

LEMMA InitExecInv == Init => ExecInv
<1> SUFFICES ASSUME Init PROVE ExecInv
  OBVIOUS
<1>1. GenesisHeader \in Header /\ GenesisHeader.parent = 0
  <2>1. 0 \in Gas /\ InitialBaseFee \in Nat /\ <<>> \in Seq(Tx) /\ 0 \in Height
    BY Sizes, SizeAssumption DEF Gas
  <2>2. NoAccounts \in Accounts
    BY DEF NoAccounts, Accounts
  <2> QED
    BY <2>1, <2>2 DEF GenesisHeader, Header
<1>2. DOMAIN header = {0} /\ header[0] = GenesisHeader
  BY DEF Init
<1>3. BlocksPart
  BY <1>1, <1>2, Sizes DEF BlocksPart
<1>4. AccountsPart
  <2>1. torn \in [Node -> [Tx -> Nat]] /\ \A n \in Node : acct[n] = NoAccounts
    BY DEF Init
  <2>2. \A n \in Node : acct[n] \in BalancedAccounts(torn[n]) /\ acct[n] \in OrderedAccounts
    BY <2>1, NoAccountsBalanced
  <2>3. acct \in [Node -> OrderedAccounts]
    BY <2>2 DEF Init
  <2> QED
    BY <2>1, <2>2, <2>3 DEF AccountsPart
<1>5. FeeBounded
  <2>1. \A b \in View : ~Created(b)
    BY <1>2 DEF Created, View
  <2> QED
    BY <2>1 DEF FeeBounded
<1>6. NodesPart
  <2>1. \A n \in Node : IsFiniteSet(pool[n])
    BY FS_EmptySet DEF Init
  <2> QED
    BY <2>1, Sizes DEF Init, NodesPart, LimitKnown
<1>7. CountsPart
  BY SizeAssumption DEF Init, CountsPart
<1> QED
  BY <1>3, <1>4, <1>5, <1>6, <1>7 DEF ExecInv

\* A proposal adds a block that is within the leader's limit and whose fee was
\* computed from its parent's.
LEMMA ProposeBlocks ==
    ASSUME Inv, ExecInv, NEW n \in Node, NEW v \in View, Propose(n, v)
    PROVE  BlocksPart' /\ FeeBounded'
<1>1. PICK parent, payload :
        /\ parent \in ProposalParent(n, v)
        /\ payload \in TransactionsForBlock(n, NextBaseFee(header[parent], limit[n]))
        /\ Create(v, parent, payload, NextBaseFee(header[parent], limit[n]),
                  ExecuteOnOverlay(n, payload))
  BY DEF Propose
<1> DEFINE fee == NextBaseFee(header[parent], limit[n])
           r == ExecuteOnOverlay(n, payload)
           old == header[parent]
           new == [parent |-> parent, payload |-> payload, base_fee |-> fee,
                   gas_used |-> r.gas_used, state_root |-> StateRoot(r, parent)]
<1>2. v \notin DOMAIN header
  BY DEF Propose, Created
<1>3. /\ DOMAIN header' = DOMAIN header \cup {v} /\ header'[v] = new
      /\ \A b \in DOMAIN header : header'[b] = header[b]
  BY <1>1, <1>2 DEF Create
<1>4. parent \in DOMAIN header
  BY <1>1 DEF ProposalParent, Inv, PoolPart, StoredCreated
<1>5. /\ old \in Header /\ old.gas_used \in Gas /\ old.base_fee \in Nat
      /\ old.state_root \in Accounts /\ parent \in Height
  BY <1>4 DEF ExecInv, BlocksPart, Header
<1>6. limit[n] \in {ConfigLimit, DefaultLimit}
  BY DEF ExecInv, NodesPart, LimitKnown
<1>7. limit[n] \in Nat \ {0, 1} /\ limit[n] \in Gas /\ Gas \subseteq Nat
  BY <1>6, Sizes DEF Gas
<1>8. /\ fee \in Nat /\ 8 * fee >= 7 * old.base_fee
      /\ 8 * SmallestTarget * fee =< (7 * SmallestTarget + LargestLimit) * old.base_fee
  <2>1. old.gas_used \in Nat /\ old.gas_used =< LargestLimit
    BY <1>5, <1>7 DEF Gas
  <2>2. SmallestTarget =< limit[n] \div 2 /\ SmallestTarget \in Nat
        /\ LargestLimit \in Nat /\ SmallestTarget =< LargestLimit
    BY <1>6, Sizes
  <2>3. old.base_fee \in Nat /\ limit[n] \in Nat \ {0, 1}
    BY <1>5, <1>7
  <2> QED
    BY <2>1, <2>2, <2>3, NextBaseFeeIs, Zenon
<1>9. payload \in Seq(Tx) /\ FitsIn(payload, limit[n])
  <2>1. pool[n] \in SUBSET Tx /\ IsFiniteSet(pool[n]) /\ limit[n] \in Nat
    BY <1>7 DEF Inv, PoolPart, ExecInv, NodesPart
  <2> QED
    BY <1>1, <2>1, SelectedIs
<1>10. r \in Result(torn[n]) /\ r.gas_used =< limit[n]
  <2>1. acct[n] \in BalancedAccounts(torn[n]) /\ torn[n] \in [Tx -> Nat]
    BY DEF ExecInv, AccountsPart
  <2> QED
    BY <1>7, <1>9, <2>1, ExecutePartIs DEF ExecuteOnOverlay, ExecuteBlock
<1> HIDE DEF fee, r, old
<1>11. r.gas_used \in Gas
  <2>1. r.gas_used \in Nat
    BY <1>10 DEF Result
  <2> QED
    BY <1>7, <1>10, <2>1, Sizes DEF Gas
<1>12. StateRoot(r, parent) \in Accounts
  BY <1>5, <1>10 DEF StateRoot, Result, BalancedAccounts, OrderedAccounts, old
<1>13. new \in Header
  BY <1>5, <1>8, <1>9, <1>11, <1>12 DEF Header
<1>14. new.parent = parent /\ new.base_fee = fee
  OBVIOUS
<1> HIDE DEF new
<1>15. BlocksPart'
  <2>1. DOMAIN header \subseteq Height
        /\ \A b \in DOMAIN header : header[b] \in Header /\ header[b].parent \in DOMAIN header
    BY DEF ExecInv, BlocksPart
  <2> QED
    BY <1>3, <1>4, <1>13, <1>14, <2>1, Sizes DEF BlocksPart
<1>16. ASSUME NEW b \in View, Created(b)'
       PROVE  \/ /\ Created(b) /\ header'[b].base_fee = header[b].base_fee
                 /\ header'[header'[b].parent].base_fee = header[header[b].parent].base_fee
              \/ /\ b = v /\ header'[b].base_fee = fee
                 /\ header'[header'[b].parent].base_fee = old.base_fee
  <2>1. CASE b = v
    BY <2>1, <1>3, <1>4, <1>14 DEF old
  <2>2. CASE b # v
    <3>1. b \in DOMAIN header
      BY <1>3, <1>16, <2>2 DEF Created
    <3>2. header[b].parent \in DOMAIN header
      BY <3>1 DEF ExecInv, BlocksPart
    <3> QED
      BY <1>3, <3>1, <3>2 DEF Created
  <2> QED
    BY <2>1, <2>2
<1>17. FeeBounded'
  <2>1. FeeBounded
    BY DEF ExecInv
  <2> QED
    BY <1>8, <1>16, <2>1 DEF FeeBounded
<1> QED
  BY <1>15, <1>17

\* A stored block carries transactions.
LEMMA StoredPayload ==
    ASSUME Inv, ExecInv, NEW n \in Node, NEW b \in stored[n]
    PROVE  header[b].payload \in Seq(Tx)
<1>1. b \in DOMAIN header
  BY DEF Inv, PoolPart, StoredCreated
<1> QED
  BY <1>1 DEF ExecInv, BlocksPart, Header

\* Executing a block leaves balanced accounts.
LEMMA CommitWhole ==
    ASSUME Inv, ExecInv, NEW n \in Node, NEW b \in stored[n],
           acct' = [acct EXCEPT ![n] = ExecuteBlock(@, header[b].payload, ConfigLimit).acct],
           UNCHANGED torn
    PROVE  AccountsPart'
<1>1. /\ torn \in [Node -> [Tx -> Nat]] /\ acct \in [Node -> OrderedAccounts]
      /\ \A p \in Node : acct[p] \in BalancedAccounts(torn[p])
  BY DEF ExecInv, AccountsPart
<1> DEFINE e == ExecuteBlock(acct[n], header[b].payload, ConfigLimit)
<1>2. e \in Result(torn[n])
  BY <1>1, StoredPayload, ExecutePartIs DEF ExecuteBlock
<1> HIDE DEF e
<1>3. e.acct \in BalancedAccounts(torn[n]) /\ e.acct \in OrderedAccounts
  BY <1>2 DEF Result, BalancedAccounts
<1>4. acct' = [acct EXCEPT ![n] = e.acct]
  BY DEF e
<1> QED
  BY <1>1, <1>3, <1>4 DEF AccountsPart

\* So does executing the beginning of it, up to the one transaction that is
\* charged or credited only, which is counted.
LEMMA CommitTorn ==
    ASSUME Inv, ExecInv, NEW n \in Node, NEW b \in stored[n], CommitPart(n, b)
    PROVE  AccountsPart'
<1>1. /\ torn \in [Node -> [Tx -> Nat]] /\ acct \in [Node -> OrderedAccounts]
      /\ \A p \in Node : acct[p] \in BalancedAccounts(torn[p])
  BY DEF ExecInv, AccountsPart
<1> DEFINE payload == header[b].payload
           r(k) == ExecutePart(acct[n], payload, ConfigLimit, SubSeq(payload, 1, k))
<1>2. payload \in Seq(Tx)
  BY StoredPayload
<1>3. PICK k \in 0 .. Len(payload) :
        \/ /\ acct' = [acct EXCEPT ![n] = r(k).acct]
           /\ UNCHANGED torn
        \/ /\ k < Len(payload)
           /\ ~payload[k + 1].system /\ ~Refuses(r(k), payload[k + 1])
           /\ \/ acct' = [acct EXCEPT ![n] = Charge(r(k).acct, payload[k + 1])]
              \/ acct' = [acct EXCEPT ![n] = Credit(r(k).acct, payload[k + 1])]
           /\ torn' = [torn EXCEPT ![n][payload[k + 1]] = @ + 1]
  BY DEF CommitPart
<1> DEFINE a == r(k).acct
           t == payload[k + 1]
<1>4. SubSeq(payload, 1, k) \in Seq(Tx)
  BY <1>2
<1>5. r(k) \in Result(torn[n])
  BY <1>1, <1>4, ExecutePartIs
<1> HIDE DEF r
<1>6. a \in BalancedAccounts(torn[n])
  BY <1>5 DEF Result
<1> HIDE DEF a
<1>7. CASE acct' = [acct EXCEPT ![n] = a] /\ UNCHANGED torn
  BY <1>1, <1>6, <1>7 DEF AccountsPart, BalancedAccounts
<1>8. ASSUME k < Len(payload), ~t.system, ~Refuses(r(k), t),
             NEW c \in {Charge(a, t), Credit(a, t)}, acct' = [acct EXCEPT ![n] = c],
             torn' = [torn EXCEPT ![n][t] = @ + 1]
      PROVE  AccountsPart'
  <2>1. t \in Tx
    BY <1>2, <1>8
  <2>2. t.nonce = Nonce(a, t.sender)
    BY <1>8 DEF Refuses, a
  <2> HIDE DEF t
  <2>3. torn[n] \in [Tx -> Nat]
    BY <1>1
  <2>4. torn' = [torn EXCEPT ![n] = [torn[n] EXCEPT ![t] = @ + 1]]
    BY <1>8
  <2>5. torn'[n] = [torn[n] EXCEPT ![t] = @ + 1]
    BY <1>1, <2>4
  <2>6. torn' \in [Node -> [Tx -> Nat]]
    BY <1>1, <2>1, <2>3, <2>4
  <2>7. c \in BalancedAccounts(torn'[n])
    BY <1>6, <1>8, <2>1, <2>2, <2>3, <2>5, TornBalanced
  <2>8. c \in OrderedAccounts
    BY <2>7 DEF BalancedAccounts
  <2>9. \A p \in Node : p # n => acct'[p] = acct[p] /\ torn'[p] = torn[p]
    BY <1>1, <1>8, <2>4
  <2>10. acct'[n] = c /\ acct' \in [Node -> OrderedAccounts]
    BY <1>1, <1>8, <2>8
  <2>11. \A p \in Node : acct'[p] \in BalancedAccounts(torn'[p])
    BY <1>1, <2>7, <2>9, <2>10
  <2> QED
    BY <2>6, <2>10, <2>11 DEF AccountsPart, BalancedAccounts
<1> QED
  BY <1>3, <1>7, <1>8 DEF a

\* What else the actions do to a node's own state.
LEMMA NodesStep ==
    ASSUME Inv, ExecInv, Next
    PROVE  NodesPart' /\ CountsPart'
<1>1. /\ checking \in [Node -> SUBSET Tx] /\ gossip \in [Node -> SUBSET Tx]
      /\ LimitKnown /\ preferred \in [Node -> Height] /\ pool \in [Node -> SUBSET Tx]
      /\ stored \in [Node -> SUBSET Height]
      /\ \A n \in Node : IsFiniteSet(pool[n])
      /\ sends \in 0 .. MaxSends /\ crashes \in 0 .. MaxCrashes
  BY DEF ExecInv, NodesPart, CountsPart, Inv, PoolPart
<1>2. MaxSends \in Nat /\ MaxCrashes \in Nat
  BY SizeAssumption
<1>3. ASSUME NEW n \in Node, NEW t \in Tx, RpcCheck(n, t)
      PROVE  NodesPart' /\ CountsPart'
  BY <1>1, <1>2, <1>3 DEF RpcCheck, NodesPart, CountsPart, LimitKnown, durable
<1>4. ASSUME NEW n \in Node, NEW t \in Tx, Insert(n, t)
      PROVE  \A p \in Node : IsFiniteSet(pool'[p])
  <2> TAKE p \in Node
  <2>1. pool'[p] = pool[p] \/ pool'[p] = pool[p] \cup {t}
    BY <1>1, <1>4 DEF Insert
  <2>2. IsFiniteSet(pool[p]) /\ IsFiniteSet(pool[p] \cup {t})
    BY <1>1, FS_AddElement
  <2> QED
    BY <2>1, <2>2
<1>5. ASSUME NEW n \in Node, NEW t \in Tx, RpcInsert(n, t)
      PROVE  NodesPart' /\ CountsPart'
  <2>1. UNCHANGED <<limit, preferred, sends, crashes>>
    BY <1>5 DEF RpcInsert, durable
  <2>2. checking' \in [Node -> SUBSET Tx] /\ gossip' \in [Node -> SUBSET Tx]
    BY <1>1, <1>5 DEF RpcInsert
  <2>3. \A p \in Node : IsFiniteSet(pool'[p])
    BY <1>1, <1>4, <1>5 DEF RpcInsert
  <2> QED
    BY <1>1, <2>1, <2>2, <2>3 DEF NodesPart, CountsPart, LimitKnown
<1>6. ASSUME NEW n \in Node, NEW t \in Tx, TransactionReceived(n, t)
      PROVE  NodesPart' /\ CountsPart'
  <2>1. UNCHANGED <<limit, checking, preferred, sends, crashes>>
    BY <1>6 DEF TransactionReceived, durable
  <2>2. gossip' \in [Node -> SUBSET Tx]
    BY <1>1, <1>6 DEF TransactionReceived
  <2>3. \A p \in Node : IsFiniteSet(pool'[p])
    BY <1>1, <1>4, <1>6 DEF TransactionReceived
  <2> QED
    BY <1>1, <2>1, <2>2, <2>3 DEF NodesPart, CountsPart, LimitKnown
<1>7. ASSUME NEW n \in Node, NEW payload, RemoveTransactions(n, payload)
      PROVE  \A p \in Node : IsFiniteSet(pool'[p])
  <2> TAKE p \in Node
  <2>1. pool'[p] \subseteq pool[p]
    BY <1>1, <1>7 DEF RemoveTransactions
  <2> QED
    BY <1>1, <2>1, FS_Subset
<1>8. ASSUME NEW n \in Node, NEW v \in View, Propose(n, v)
      PROVE  NodesPart' /\ CountsPart'
  <2>1. UNCHANGED <<limit, checking, gossip, preferred, sends, crashes>>
    BY <1>8 DEF Propose
  <2>2. \E payload : RemoveTransactions(n, payload)
    BY <1>8 DEF Propose
  <2> QED
    BY <1>1, <1>7, <2>1, <2>2 DEF NodesPart, CountsPart, LimitKnown
<1>9. ASSUME NEW n \in Node, NEW v \in View, ValidateAndStore(n, v)
      PROVE  NodesPart' /\ CountsPart'
  <2>1. UNCHANGED <<limit, checking, gossip, sends, crashes>>
    BY <1>9 DEF ValidateAndStore, world
  <2>2. \A p \in Node : IsFiniteSet(pool'[p])
    BY <1>7, <1>9 DEF ValidateAndStore
  <2>3. preferred' \in [Node -> Height]
    BY <1>1, <1>9, Sizes DEF ValidateAndStore
  <2> QED
    BY <1>1, <2>1, <2>2, <2>3 DEF NodesPart, CountsPart, LimitKnown
<1>10. ASSUME NEW n \in Node, NEW v \in View, FormQC(n, v)
       PROVE  NodesPart' /\ CountsPart'
  BY <1>1, <1>10, Sizes DEF FormQC, NodesPart, CountsPart, LimitKnown, memory, world
<1>11. ASSUME NEW n \in Node, NEW v \in View, FinalizeBlock(n, v) \/ FinalizeSkipped(n, v)
       PROVE  NodesPart' /\ CountsPart'
  BY <1>1, <1>11 DEF FinalizeBlock, FinalizeSkipped, NodesPart, CountsPart, LimitKnown,
                     memory, world
<1>12. ASSUME NEW n \in Node, LoseMemory(n), UNCHANGED <<gossip, preferred, sends>>
       PROVE  NodesPart' /\ CountsPart'
  <2>1. \A p \in Node : pool'[p] = pool[p] \/ pool'[p] = {}
    BY <1>1, <1>12 DEF LoseMemory
  <2>2. \A p \in Node : IsFiniteSet(pool'[p])
    BY <1>1, <2>1, FS_EmptySet
  <2> QED
    BY <1>1, <1>2, <1>12, <2>2 DEF LoseMemory, NodesPart, CountsPart, LimitKnown
<1>13. ASSUME NEW n \in Node, Restart(n) \/ \E v \in View : CrashInCommit(n, v)
       PROVE  NodesPart' /\ CountsPart'
  BY <1>12, <1>13 DEF Restart, CrashInCommit, durable
<1> QED
  BY <1>3, <1>5, <1>6, <1>8, <1>9, <1>10, <1>11, <1>13 DEF Next

\* Only a proposal changes the blocks.
LEMMA BlocksStep ==
    ASSUME Inv, ExecInv, Next
    PROVE  BlocksPart' /\ FeeBounded'
<1>1. CASE UNCHANGED header
  BY <1>1 DEF ExecInv, BlocksPart, FeeBounded, Created
<1>2. UNCHANGED header \/ \E n \in Node, v \in View : Propose(n, v)
  BY DEF Next, RpcCheck, RpcInsert, TransactionReceived, ValidateAndStore, FormQC,
         FinalizeBlock, FinalizeSkipped, CrashInCommit, Restart, world
<1> QED
  BY <1>1, <1>2, ProposeBlocks

\* Only finalization changes the persistent accounts.
LEMMA AccountsStep ==
    ASSUME Inv, ExecInv, Next
    PROVE  AccountsPart'
<1>1. CASE UNCHANGED <<acct, torn>>
  BY <1>1 DEF ExecInv, AccountsPart
<1>2. ASSUME NEW n \in Node, NEW v \in View, FinalizeBlock(n, v)
      PROVE  AccountsPart'
  BY <1>2, CommitWhole DEF FinalizeBlock
<1>3. ASSUME NEW n \in Node, NEW v \in View, CrashInCommit(n, v)
      PROVE  AccountsPart'
  BY <1>3, CommitTorn DEF CrashInCommit
<1>4. \/ UNCHANGED <<acct, torn>>
      \/ \E n \in Node, v \in View : FinalizeBlock(n, v) \/ CrashInCommit(n, v)
  BY DEF Next, RpcCheck, RpcInsert, TransactionReceived, Propose, ValidateAndStore, FormQC,
         FinalizeSkipped, Restart, durable
<1> QED
  BY <1>1, <1>2, <1>3, <1>4

LEMMA ExecInvCorrect == Spec => []ExecInv
<1>1. Inv /\ ExecInv /\ [Next]_vars => ExecInv'
  <2> SUFFICES ASSUME Inv, ExecInv, [Next]_vars PROVE ExecInv'
    OBVIOUS
  <2>1. CASE Next
    BY <2>1, NodesStep, BlocksStep, AccountsStep DEF ExecInv
  <2>2. CASE UNCHANGED vars
    BY <2>2 DEF vars, memory, durable, world, ExecInv, BlocksPart, AccountsPart, FeeBounded,
                Created, NodesPart, LimitKnown, CountsPart
  <2> QED
    BY <2>1, <2>2
<1> QED
  BY <1>1, InitExecInv, InvCorrect, PTL DEF Spec

-----------------------------------------------------------------------------
(***************************************************************************)
(* The theorems.                                                           *)
(***************************************************************************)
\* Every variable keeps its type.  The part that takes an argument is the gas
\* of a block: get_transactions_for_block fills it up to the sum of the gas
\* limits, execute_block uses no more of each transaction than its limit, so
\* that a block never uses more than the limit of the leader.
THEOREM LedgerTypes == Spec => []TypeOK
<1>1. Inv /\ ExecInv => TypeOK
  <2> SUFFICES ASSUME Inv, ExecInv PROVE TypeOK
    OBVIOUS
  <2>1. acct \in [Node -> Accounts] /\ torn \in [Node -> [Tx -> Nat]]
    BY DEF ExecInv, AccountsPart, OrderedAccounts
  <2>2. DOMAIN header \subseteq Height /\ Range(header) \subseteq Header
    BY DEF ExecInv, BlocksPart, Range
  <2> QED
    BY <2>1, <2>2 DEF Inv, HistoryPart, PoolPart, ExecInv, NodesPart, CountsPart, LimitKnown,
                      TypeOK
<1> QED
  BY <1>1, InvCorrect, ExecInvCorrect, PTL

\* No transaction of the EVM is charged twice on a node: however often it is
\* sent and included, and wherever the execution of a block ends, it is charged
\* at the position of its nonce.  It pays out as often as it is charged, except
\* for the times that the process died between the commits of its two accounts.
THEOREM EffectOnce == Spec => []SpentOnce
<1>1. ExecInv => SpentOnce
  <2> SUFFICES ASSUME ExecInv, NEW n \in Node, NEW t \in Tx, ~t.system
               PROVE  LET charged == {i \in DOMAIN acct[n].sent[t.sender] :
                                         acct[n].sent[t.sender][i] = t}
                      IN  \E c \in {0, 1} :
                            /\ charged = {} <=> c = 0
                            /\ \A i, j \in charged : i = j
                            /\ acct[n].received[t] \in (c - torn[n][t]) .. (c + torn[n][t])
    BY DEF SpentOnce
  <2> DEFINE a == acct[n]
             d == torn[n]
             q == a.sent[t.sender]
             charged == {i \in DOMAIN q : q[i] = t}
  <2>1. a \in BalancedAccounts(d) /\ d \in [Tx -> Nat]
    BY DEF ExecInv, AccountsPart
  <2> HIDE DEF a, d
  <2>2. /\ a \in OrderedAccounts /\ d[t] \in Nat /\ a.received[t] \in Nat /\ Due(a, t) \in {0, 1}
        /\ Due(a, t) - d[t] =< a.received[t] /\ a.received[t] =< Due(a, t) + d[t]
    BY <2>1, BalancedIs
  <2>3. q \in Seq(Tx) /\ \A i \in DOMAIN q : ~q[i].system => q[i].nonce = i - 1
    BY <2>2, TxIs DEF OrderedAccounts, Accounts
  <2>4. \A i, j \in charged : i = j
    <3> SUFFICES ASSUME NEW i \in charged, NEW j \in charged PROVE i = j
      OBVIOUS
    <3>1. t.nonce = i - 1 /\ t.nonce = j - 1
      BY <2>3
    <3>2. i \in Nat /\ j \in Nat
      BY <2>3
    <3> QED
      BY <3>1, <3>2
  <2>5. charged = {} <=> Due(a, t) = 0
    BY DEF Due, IsCharged
  <2>6. a.received[t] \in (Due(a, t) - d[t]) .. (Due(a, t) + d[t])
    BY <2>2
  <2> HIDE DEF charged
  <2>7. \E c \in {0, 1} : /\ charged = {} <=> c = 0
                          /\ \A i, j \in charged : i = j
                          /\ a.received[t] \in (c - d[t]) .. (c + d[t])
    BY <2>2, <2>4, <2>5, <2>6
  <2> QED
    BY <2>7, Zenon DEF charged, q, a, d
<1> QED
  BY <1>1, ExecInvCorrect, PTL

\* Whatever gas limits the nodes are started with, and after any restarts, the
\* base fee of a block is at least seven eighths of its parent's, and exceeds it
\* by no more than the smallest target and the largest limit allow: an eighth,
\* if all limits are one and the same even number.
THEOREM FeeMovesSlowly == Spec => []FeeBounded
<1>1. ExecInv => FeeBounded
  BY DEF ExecInv
<1> QED
  BY <1>1, ExecInvCorrect, PTL

-----------------------------------------------------------------------------
(***************************************************************************)
(* The selection is greedy: what filling a block leaves out had no room    *)
(* next to what was taken before.                                          *)
(***************************************************************************)
\* A larger set of transactions may use more gas.
LEMMA GasGrows ==
    ASSUME NEW S \in SUBSET Tx, IsFiniteSet(S), NEW c \in SUBSET S, NEW d \in SUBSET S,
           c \subseteq d
    PROVE  GasOfSet(c) \in Nat /\ GasOfSet(d) \in Nat /\ GasOfSet(c) =< GasOfSet(d)
<1> DEFINE gasOf == [t \in S |-> t.gas_limit]
<1>1. gasOf \in [S -> Nat] /\ \A t \in S : gasOf[t] = t.gas_limit
  BY TxIs
<1> HIDE DEF gasOf
<1>2. PICK g \in [SUBSET S -> Nat] : SubsetSums(g, gasOf, S)
  BY <1>1, SumsOver
<1>3. \A e \in SUBSET S : GasOfSet(e) = g[e]
  <2> TAKE e \in SUBSET S
  <2>1. [t \in e |-> t.gas_limit] = [x \in e |-> gasOf[x]]
    BY <1>1
  <2> QED
    BY <1>2, <2>1, Zenon DEF GasOfSet, SubsetSums
<1> QED
  BY <1>2, <1>3 DEF SubsetSums

\* A sequence without repetitions that is as long as a finite set is large
\* holds all of it.
LEMMA SortedCovers ==
    ASSUME NEW S, IsFiniteSet(S), NEW s \in [1 .. Cardinality(S) -> S], IsInjective(s)
    PROVE  \A t \in S : \E i \in DOMAIN s : s[i] = t
<1> DEFINE n == Cardinality(S)
           R == {s[i] : i \in 1 .. n}
<1>1. n \in Nat
  BY FS_CardinalityType
<1>2. IsFiniteSet(R) /\ Cardinality(R) = n
  <2>1. s \in Bijection(1 .. n, R)
    BY <1>1 DEF IsInjective, Bijection, Injection, Surjection
  <2>2. IsFiniteSet(1 .. n) /\ Cardinality(1 .. n) = n
    BY <1>1, FS_Interval
  <2> QED
    BY <2>1, <2>2, FS_Bijection DEF ExistsBijection
<1>3. R \subseteq S
  OBVIOUS
<1>4. R = S
  BY <1>2, <1>3, FS_Subset
<1> QED
  BY <1>4

\* What was taken before position i of s leaves no room for s[i].
NoRoom(s, i, chosen, bound) ==
    \E before \in SUBSET chosen :
       /\ \A u \in before : \E j \in 1 .. (i - 1) : u = s[j]
       /\ GasOfSet(before) >= bound \/ GasOfSet(before) + s[i].gas_limit > bound

LEMMA ToSetAppend ==
    ASSUME NEW S, NEW q \in Seq(S), NEW e \in S
    PROVE  ToSet(Append(q, e)) = ToSet(q) \cup {e}
<1> DEFINE u == Append(q, e)
<1>1. /\ DOMAIN u = 1 .. (Len(q) + 1) /\ DOMAIN q = 1 .. Len(q) /\ Len(q) \in Nat
      /\ u[Len(q) + 1] = e /\ \A i \in 1 .. Len(q) : u[i] = q[i]
  OBVIOUS
<1>2. DOMAIN u = DOMAIN q \cup {Len(q) + 1}
  BY <1>1
<1> HIDE DEF u
<1>3. {u[i] : i \in DOMAIN u} = {q[i] : i \in DOMAIN q} \cup {e}
  BY <1>1, <1>2
<1> QED
  BY <1>3 DEF ToSet, u

LEMMA FillSelects ==
    ASSUME NEW bound \in Nat, NEW S \in SUBSET Tx, IsFiniteSet(S), NEW s \in Seq(S),
           IsInjective(s)
    PROVE  LET chosen == ToSet(Fill(s, bound))
           IN  /\ chosen \subseteq S
               /\ GasOfSet(chosen) =< bound
               /\ \A i \in DOMAIN s : s[i] \in chosen \/ NoRoom(s, i, chosen, bound)
<1> DEFINE n == Len(s)
           base == [bound |-> bound, gas |-> 0, block |-> <<>>]
           gasOf == [t \in S |-> t.gas_limit]
<1>1. n \in Nat /\ s \in Seq(Tx) /\ DOMAIN s = 1 .. n /\ \A i \in 1 .. n : s[i] \in S
  OBVIOUS
<1>2. gasOf \in [S -> Nat] /\ \A t \in S : gasOf[t] = t.gas_limit
  BY TxIs
<1> HIDE DEF gasOf
<1>3. PICK g \in [SUBSET S -> Nat] : SubsetSums(g, gasOf, S)
  BY <1>2, SumsOver
<1>4. \A c \in SUBSET S : GasOfSet(c) = g[c]
  <2> TAKE c \in SUBSET S
  <2>1. [t \in c |-> t.gas_limit] = [x \in c |-> gasOf[x]]
    BY <1>2
  <2> QED
    BY <1>3, <2>1, Zenon DEF GasOfSet, SubsetSums
<1>5. Fill(s, bound) = FillFold!Fold(base, s).block
  BY Zenon DEF Fill, FoldLeft, MapThenFoldSet, Max, FillFold!Fold, FillFold!FoldLeft,
               FillFold!MapThenFoldSet, FillFold!Max
<1>6. base.block = <<>> /\ base.gas = 0
  OBVIOUS
<1>7. base \in Filling(bound)
  BY BaseFilling
<1>8. FillFold!Closed(Filling(bound), Tx)
  BY TakeIs DEF FillFold!Closed
<1> HIDE DEF base
<1>9. PICK r \in [0 .. n -> Filling(bound)] : FillFold!Trace(r, base, s)
  BY <1>1, <1>7, <1>8, FillFold!FoldLeftTrace
<1>10. /\ r[0] = base /\ Fill(s, bound) = r[n].block
       /\ \A k \in 1 .. n : r[k] = TakeIfFits(r[k - 1], s[k])
  BY <1>5, <1>9 DEF FillFold!Trace
<1> DEFINE C(k) == ToSet(r[k].block)
<1>11. \A k \in 0 .. n : /\ r[k].bound = bound /\ r[k].gas \in 0 .. bound
                         /\ r[k].block \in Seq(Tx)
                         /\ r[k] \in [bound : {bound}, gas : 0 .. bound, block : Seq(Tx)]
  BY <1>9 DEF Filling
\* One turn.
<1>12. ASSUME NEW k \in 1 .. n
       PROVE  \/ /\ r[k].gas = r[k - 1].gas + s[k].gas_limit
                 /\ C(k) = C(k - 1) \cup {s[k]}
              \/ /\ r[k] = r[k - 1]
                 /\ r[k - 1].gas >= bound \/ r[k - 1].gas + s[k].gas_limit > bound
  <2>1. PICK f : f = r[k - 1]
    OBVIOUS
  <2>2. /\ f.bound = bound /\ f.gas \in 0 .. bound /\ f.block \in Seq(Tx)
        /\ f \in [bound : {bound}, gas : 0 .. bound, block : Seq(Tx)]
    BY <1>1, <1>11, <2>1
  <2>3. PICK t \in Tx : t = s[k]
    BY <1>1
  <2>4. t.gas_limit \in Nat
    BY TxIs
  <2>5. CASE f.gas < f.bound /\ f.gas + t.gas_limit =< f.bound
    <3>1. TakeIfFits(f, t) = [bound |-> bound, gas |-> f.gas + t.gas_limit,
                              block |-> Append(f.block, t)]
      BY <2>2, <2>5 DEF TakeIfFits
    <3>2. TakeIfFits(f, t).gas = f.gas + t.gas_limit
          /\ TakeIfFits(f, t).block = Append(f.block, t)
      BY <3>1
    <3>3. ToSet(Append(f.block, t)) = ToSet(f.block) \cup {t}
      BY <2>2, ToSetAppend
    <3> QED
      BY <1>10, <2>1, <2>3, <3>2, <3>3
  <2>6. CASE ~(f.gas < f.bound /\ f.gas + t.gas_limit =< f.bound)
    <3>1. TakeIfFits(f, t) = f
      BY <2>6 DEF TakeIfFits
    <3>2. f.gas >= bound \/ f.gas + t.gas_limit > bound
      BY <2>2, <2>4, <2>6
    <3> QED
      BY <1>10, <2>1, <2>3, <3>1, <3>2
  <2> QED
    BY <2>5, <2>6
\* What is taken comes from the positions so far, and the gas is its sum.
<1>13. ASSUME NEW k \in 0 .. n
       PROVE  C(k) \in SUBSET {s[j] : j \in 1 .. k} /\ r[k].gas = g[C(k)]
  <2> DEFINE T == {m \in 0 .. n : C(m) \in SUBSET {s[j] : j \in 1 .. m} /\ r[m].gas = g[C(m)]}
  <2>1. 0 \in T
    <3>1. C(0) = {}
      BY <1>6, <1>10 DEF ToSet
    <3>2. r[0].gas = g[C(0)]
      BY <1>3, <1>6, <1>10, <3>1 DEF SubsetSums
    <3> HIDE DEF C
    <3> QED
      BY <1>1, <3>1, <3>2
  <2>2. ASSUME NEW m \in 0 .. (n - 1), m \in T
        PROVE  m + 1 \in T
    <3>1. m \in 0 .. n /\ m + 1 \in 1 .. n /\ (m + 1) - 1 = m /\ m + 1 \in 0 .. n
      BY <1>1
    <3>2. C(m) \in SUBSET {s[j] : j \in 1 .. m} /\ r[m].gas = g[C(m)]
      BY <2>2
    <3>3. {s[j] : j \in 1 .. m} \subseteq {s[j] : j \in 1 .. (m + 1)}
      OBVIOUS
    <3>4. s[m + 1] \in S /\ s[m + 1] \in {s[j] : j \in 1 .. (m + 1)}
      BY <1>1, <3>1
    <3>5. s[m + 1] \notin {s[j] : j \in 1 .. m}
      <4>1. \A j \in 1 .. m : s[j] # s[m + 1]
        BY <1>1, <3>1 DEF IsInjective
      <4> QED
        BY <4>1
    <3>6. C(m) \in SUBSET S
      BY <1>1, <3>1, <3>2
    <3>7. gasOf[s[m + 1]] = s[m + 1].gas_limit
      BY <1>2, <3>4
    <3> HIDE DEF C
    <3>8. CASE r[m + 1].gas = r[m].gas + s[m + 1].gas_limit /\ C(m + 1) = C(m) \cup {s[m + 1]}
      <4>1. C(m + 1) \in SUBSET {s[j] : j \in 1 .. (m + 1)}
        BY <3>2, <3>3, <3>4, <3>8
      <4>2. s[m + 1] \in S \ C(m)
        BY <3>2, <3>4, <3>5
      <4>3. g[C(m + 1)] = g[C(m)] + gasOf[s[m + 1]]
        BY <1>3, <3>6, <3>8, <4>2 DEF SubsetSums
      <4> QED
        BY <3>1, <3>2, <3>7, <3>8, <4>1, <4>3
    <3>9. CASE r[m + 1] = r[m]
      <4>1. C(m + 1) = C(m)
        BY <3>9 DEF C
      <4> QED
        BY <3>1, <3>2, <3>3, <3>9, <4>1
    <3> QED
      BY <1>12, <3>1, <3>8, <3>9
  <2> HIDE DEF T
  <2>3. \A m \in 0 .. n : m \in T
    BY <1>1, <2>1, <2>2, UpTo
  <2> QED
    BY <2>3 DEF T
\* Nothing is taken back.
<1>14. ASSUME NEW i \in 0 .. n
       PROVE  C(i) \subseteq C(n)
  <2> DEFINE T == {m \in 0 .. n : m >= i => C(i) \subseteq C(m)}
  <2>1. 0 \in T
    BY <1>1
  <2>2. ASSUME NEW m \in 0 .. (n - 1), m \in T
        PROVE  m + 1 \in T
    <3>1. m + 1 \in 1 .. n /\ (m + 1) - 1 = m /\ m + 1 \in 0 .. n
      BY <1>1
    <3>2. C(m) \subseteq C(m + 1)
      BY <1>12, <3>1
    <3>3. m + 1 >= i => m >= i \/ m + 1 = i
      OBVIOUS
    <3>4. m >= i => C(i) \subseteq C(m)
      BY <2>2
    <3> HIDE DEF C
    <3> QED
      BY <3>1, <3>2, <3>3, <3>4
  <2> HIDE DEF T
  <2>3. \A m \in 0 .. n : m \in T
    BY <1>1, <2>1, <2>2, UpTo
  <2>4. n \in T /\ n >= i
    BY <1>1, <2>3
  <2> QED
    BY <2>4 DEF T
<1>15. PICK chosen : chosen = ToSet(Fill(s, bound))
  OBVIOUS
<1>16. chosen = C(n) /\ n \in 0 .. n
  BY <1>1, <1>10, <1>15
<1>17. \A k \in 0 .. n : C(k) \subseteq S
  <2> TAKE k \in 0 .. n
  <2>1. C(k) \in SUBSET {s[j] : j \in 1 .. k}
    BY <1>13
  <2>2. {s[j] : j \in 1 .. k} \subseteq S
    BY <1>1
  <2> HIDE DEF C
  <2> QED
    BY <2>1, <2>2
<1>18. chosen \subseteq S /\ GasOfSet(chosen) =< bound
  <2>1. GasOfSet(chosen) = r[n].gas
    BY <1>4, <1>13, <1>16, <1>17
  <2> QED
    BY <1>11, <1>16, <1>17, <2>1
<1>19. ASSUME NEW i \in DOMAIN s, s[i] \notin chosen
       PROVE  NoRoom(s, i, chosen, bound)
  <2>1. i \in 1 .. n /\ i - 1 \in 0 .. n /\ i \in 0 .. n
    BY <1>1
  <2>2. s[i] \notin C(i)
    BY <1>14, <1>16, <1>19, <2>1
  <2>3. r[i - 1].gas >= bound \/ r[i - 1].gas + s[i].gas_limit > bound
    BY <1>12, <2>1, <2>2
  <2>4. C(i - 1) \in SUBSET {s[j] : j \in 1 .. (i - 1)} /\ r[i - 1].gas = g[C(i - 1)]
    BY <1>13, <2>1
  <2>5. C(i - 1) \in SUBSET chosen /\ C(i - 1) \in SUBSET S
    BY <1>14, <1>16, <1>17, <2>1
  <2> HIDE DEF C
  <2>6. GasOfSet(C(i - 1)) = r[i - 1].gas
    BY <1>4, <2>4, <2>5
  <2>7. \A u \in C(i - 1) : \E j \in 1 .. (i - 1) : u = s[j]
    BY <2>4
  <2> QED
    BY <2>3, <2>5, <2>6, <2>7 DEF NoRoom
<1> QED
  BY <1>15, <1>18, <1>19

\* A proposal takes from the pool what its limit and the order of the tips
\* give: get_transactions_for_block leaves out an affordable transaction only
\* if those not ranked after it fill the block or leave too little room.
THEOREM GreedySelection == Spec => SelectionGreedy
<1>1. ASSUME Inv, ExecInv, Next, NEW v \in View, ~Created(v), Created(v)'
      PROVE  LET n == Leader(v)
                 b == header'[v]
                 chosen == ToSet(b.payload)
             IN  /\ GasOfSet(chosen) =< limit[n]
                 /\ chosen \subseteq pool[n]
                 /\ \A t \in pool[n] \ chosen : t.max_fee >= b.base_fee =>
                       LET gas == GasOfSet({u \in chosen : ~Before(t, u, b.base_fee)})
                       IN  gas >= limit[n] \/ gas + t.gas_limit > limit[n]
  <2>1. PICK n \in Node : Propose(n, v)
    BY <1>1, CreatedByPropose
  <2>2. Leader(v) = n
    BY <2>1 DEF Propose
  <2>3. PICK fee, payload, parent, r :
          /\ payload \in TransactionsForBlock(n, fee)
          /\ Create(v, parent, payload, fee, r)
    BY <2>1 DEF Propose
  <2>4. header'[v].payload = payload /\ header'[v].base_fee = fee
    BY <2>3 DEF Create
  <2> DEFINE S == {t \in pool[n] : t.max_fee >= fee}
             bound == limit[n]
             chosen == ToSet(payload)
  <2>5. PICK s \in Sorted(S, fee) : payload = Fill(s, bound)
    BY <2>3 DEF TransactionsForBlock
  <2>6. S \in SUBSET Tx /\ IsFiniteSet(S) /\ S \subseteq pool[n]
    <3>1. pool[n] \in SUBSET Tx /\ IsFiniteSet(pool[n])
      BY <1>1 DEF Inv, PoolPart, ExecInv, NodesPart
    <3> QED
      BY <3>1, FS_Subset
  <2>7. bound \in Nat
    BY <1>1, Sizes DEF ExecInv, NodesPart, LimitKnown
  <2>8. \A t \in pool[n] : t.max_fee >= fee => t \in S
    OBVIOUS
  <2> HIDE DEF S, bound
  <2>9. /\ s \in SetToSeqs(S)
        /\ \A i, j \in DOMAIN s : i < j => ~Before(s[j], s[i], fee)
    BY <2>5, Zenon DEF Sorted
  <2>10. s \in [1 .. Cardinality(S) -> S] /\ IsInjective(s) /\ Cardinality(S) \in Nat
    BY <2>6, <2>9, FS_CardinalityType DEF SetToSeqs, IsInjective
  <2>11. s \in Seq(S) /\ DOMAIN s = 1 .. Cardinality(S)
    BY <2>10
  <2>12. \A t \in S : \E i \in DOMAIN s : s[i] = t
    BY <2>6, <2>10, <2>11, SortedCovers
  <2>13. /\ chosen \subseteq S /\ GasOfSet(chosen) =< bound
         /\ \A i \in DOMAIN s : s[i] \in chosen \/ NoRoom(s, i, chosen, bound)
    BY <2>5, <2>6, <2>7, <2>10, <2>11, FillSelects
  <2> HIDE DEF chosen
  <2>14. ASSUME NEW t \in pool[n] \ chosen, t.max_fee >= fee
         PROVE  LET gas == GasOfSet({u \in chosen : ~Before(t, u, fee)})
                IN  gas >= bound \/ gas + t.gas_limit > bound
    <3>1. PICK i \in DOMAIN s : s[i] = t
      BY <2>8, <2>12, <2>14
    <3>2. PICK before \in SUBSET chosen :
            /\ \A u \in before : \E j \in 1 .. (i - 1) : u = s[j]
            /\ GasOfSet(before) >= bound \/ GasOfSet(before) + t.gas_limit > bound
      BY <2>13, <2>14, <3>1 DEF NoRoom
    <3> DEFINE first == {u \in chosen : ~Before(t, u, fee)}
    <3>3. before \subseteq first
      <4> SUFFICES ASSUME NEW u \in before PROVE ~Before(t, u, fee)
        OBVIOUS
      <4>1. PICK j \in 1 .. (i - 1) : u = s[j]
        BY <3>2
      <4>2. i \in 1 .. Cardinality(S) /\ j \in 1 .. Cardinality(S) /\ j < i
        BY <2>10, <2>11
      <4> QED
        BY <2>9, <2>11, <3>1, <4>1, <4>2
    <3>4. first \in SUBSET S /\ before \in SUBSET S
      BY <2>13
    <3> HIDE DEF first
    <3>5. GasOfSet(before) =< GasOfSet(first) /\ GasOfSet(before) \in Nat /\ GasOfSet(first) \in Nat
      BY <2>6, <3>3, <3>4, GasGrows
    <3>6. t.gas_limit \in Nat
      <4>1. t \in Tx
        BY <1>1, <2>14 DEF Inv, PoolPart
      <4> QED
        BY <4>1, TxIs
    <3>7. GasOfSet(first) >= bound \/ GasOfSet(first) + t.gas_limit > bound
      BY <2>7, <3>2, <3>5, <3>6
    <3> QED
      BY <3>7 DEF first
  <2> QED
    BY <2>2, <2>4, <2>6, <2>13, <2>14 DEF chosen, bound
<1>2. ASSUME Inv, ExecInv, [Next]_vars
      PROVE  [\A v \in View : ~Created(v) /\ Created(v)' =>
                LET n == Leader(v)
                    b == header'[v]
                    chosen == ToSet(b.payload)
                IN  /\ GasOfSet(chosen) =< limit[n]
                    /\ chosen \subseteq pool[n]
                    /\ \A t \in pool[n] \ chosen : t.max_fee >= b.base_fee =>
                          LET gas == GasOfSet({u \in chosen : ~Before(t, u, b.base_fee)})
                          IN  gas >= limit[n] \/ gas + t.gas_limit > limit[n]]_vars
  BY <1>1, <1>2, Zenon
<1> QED
  BY <1>2, InvCorrect, ExecInvCorrect, PTL DEF Spec, SelectionGreedy
=============================================================================
