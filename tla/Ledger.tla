------------------------------- MODULE Ledger -------------------------------
(***************************************************************************)
(* What happens to transactions on the nodes of an Ockham network: the     *)
(* pool (src/tx_pool.rs) and the RPC call that feeds it (src/rpc.rs), the  *)
(* proposal built from it with its base fee, the execution on an overlay   *)
(* by leader and validators (src/consensus.rs, src/vm.rs, StateOverlay of  *)
(* src/storage.rs, StateManager of src/state.rs) and the execution against *)
(* the persistent accounts when a view is finalized.                       *)
(*                                                                         *)
(* Consensus itself is the subject of Simplex.  Here a view has at most    *)
(* one block, named by the view; a block that enough nodes store may be    *)
(* certified, and any view above the finalized one may be finalized.       *)
(*                                                                         *)
(* Of a sender's account we keep the sequence of the transactions that     *)
(* were charged to it, whose length is its nonce, and of the account that  *)
(* a transaction pays how often that happened; balances suffice.  Each of  *)
(* the two is committed in a database transaction of its own.  Nodes of    *)
(* the Merkle tree are stored by position, one version only, and a root is *)
(* recomputed from what is stored: a fork at a parent's root reads the     *)
(* accounts the node has committed, and its root says what they became.    *)
(***************************************************************************)
EXTENDS Integers, FiniteSets, SequencesExt

CONSTANTS
    N,               \* number of nodes, all of them validators
    MaxView,         \* bound: the last view with a proposal
    Tx,              \* the transactions clients send
    MaxTxGas,        \* MAX_TX_GAS_LIMIT
    ConfigLimit,     \* block gas limit the nodes are started with
    DefaultLimit,    \* DEFAULT_BLOCK_GAS_LIMIT
    InitialBaseFee,  \* INITIAL_BASE_FEE
    MaxSends,        \* bound: calls of send_transaction in a behaviour
    MaxCrashes       \* bound: crashes and restarts in a behaviour

ASSUME SizeAssumption ==
    /\ N \in Nat \ {0} /\ MaxView \in Nat \ {0} /\ MaxCrashes \in Nat
    /\ MaxSends \in Nat /\ MaxTxGas \in Nat /\ InitialBaseFee \in Nat

\* A limit below 2 makes the gas target zero, and the fee a division by zero.
ASSUME LimitAssumption == ConfigLimit \in Nat \ {0, 1} /\ DefaultLimit \in Nat \ {0, 1}

\* system: the call goes to the staking contract.  reverts: the EVM runs it and
\* it fails.  gas_used: what its execution costs.
ASSUME TxAssumption ==
    /\ Tx \subseteq [sender : Nat, nonce : Nat, max_fee : Nat, max_priority : Nat,
                     gas_limit : Nat, gas_used : Nat, system : BOOLEAN, reverts : BOOLEAN]
    /\ \A t \in Tx : t.gas_used =< t.gas_limit

Node == 0 .. (N - 1)
View == 1 .. MaxView
Height == 0 .. MaxView             \* blocks; 0 is genesis
Sender == {t.sender : t \in Tx}
Accounts == [sent : [Sender -> Seq(Tx)], received : [Tx -> Nat]]

LargestLimit == IF ConfigLimit > DefaultLimit THEN ConfigLimit ELSE DefaultLimit
Gas == 0 .. LargestLimit

Header == [parent : Height, payload : Seq(Tx), base_fee : Nat, gas_used : Gas,
           state_root : Accounts]

VARIABLES
    \* in memory, lost in a crash
    pool,        \* transactions of TxPool
    checking,    \* RPC threads between the nonce check and the insertion
    limit,       \* SimplexState::block_gas_limit
    \* durable
    stored,      \* blocks in storage
    preferred,   \* preferred_block
    final,       \* finalized_height
    acct,        \* accounts of the persistent state
    \* the world outside the node
    gossip,      \* transactions the network may still deliver to a node
    header,      \* contents of every block created so far
    sends,       \* calls of send_transaction so far
    crashes,     \* crashes so far
    \* history
    accepted,    \* what entered the node's pool since it started
    executed,    \* blocks executed against the persistent state, in order
    torn         \* how often the node died between the two writes of a transaction

memory == <<pool, checking, limit>>
durable == <<stored, preferred, final, acct>>
world == <<gossip, header, sends, crashes>>
vars == <<memory, durable, world, accepted, executed, torn>>

NoAccounts == [sent |-> [s \in Sender |-> <<>>], received |-> [t \in Tx |-> 0]]

GenesisHeader ==
    [parent |-> 0, payload |-> <<>>, base_fee |-> InitialBaseFee, gas_used |-> 0,
     state_root |-> NoAccounts]

\* Type invariant; a block never uses more gas than the limit it was built for.
TypeOK ==
    /\ pool \in [Node -> SUBSET Tx]
    /\ checking \in [Node -> SUBSET Tx]
    /\ limit \in [Node -> {ConfigLimit, DefaultLimit}]
    /\ stored \in [Node -> SUBSET Height]
    /\ preferred \in [Node -> Height]
    /\ final \in [Node -> Height]
    /\ acct \in [Node -> Accounts]
    /\ gossip \in [Node -> SUBSET Tx]
    /\ DOMAIN header \subseteq Height /\ Range(header) \subseteq Header
    /\ sends \in 0 .. MaxSends
    /\ crashes \in 0 .. MaxCrashes
    /\ accepted \in [Node -> SUBSET Tx]
    /\ executed \in [Node -> Seq(View)]
    /\ torn \in [Node -> [Tx -> Nat]]

Init ==
    /\ pool = [n \in Node |-> {}]
    /\ checking = [n \in Node |-> {}]
    /\ limit = [n \in Node |-> ConfigLimit]
    /\ stored = [n \in Node |-> {0}]
    /\ preferred = [n \in Node |-> 0]
    /\ final = [n \in Node |-> 0]
    /\ acct = [n \in Node |-> NoAccounts]
    /\ gossip = [n \in Node |-> {}]
    /\ header = [b \in {0} |-> GenesisHeader]
    /\ sends = 0
    /\ crashes = 0
    /\ accepted = [n \in Node |-> {}]
    /\ executed = [n \in Node |-> <<>>]
    /\ torn = [n \in Node |-> [t \in Tx |-> 0]]
-----------------------------------------------------------------------------
(***************************************************************************)
(* The transaction pool.                                                   *)
(***************************************************************************)
Nonce(accounts, s) == Len(accounts.sent[s])

\* The checks of add_transaction before it takes the pool's lock.  A nonce
\* ahead of the account's is accepted.
Admissible(n, t) ==
    /\ t.gas_limit =< MaxTxGas
    /\ t.nonce >= Nonce(acct[n], t.sender)

Insert(n, t) ==
    /\ pool' = [pool EXCEPT ![n] = @ \cup {t}]
    /\ accepted' = [accepted EXCEPT ![n] = @ \cup {t}]

EffectiveTip(t, fee) ==
    IF t.max_priority < t.max_fee - fee THEN t.max_priority ELSE t.max_fee - fee

\* Strictly before in the order in which a block is filled.
Before(t, u, fee) ==
    \/ EffectiveTip(t, fee) > EffectiveTip(u, fee)
    \/ /\ EffectiveTip(t, fee) = EffectiveTip(u, fee)
       /\ \/ t.sender < u.sender
          \/ t.sender = u.sender /\ t.nonce < u.nonce

\* Wrong variant: first come, first served.
SortedByArrival(S, fee) == SetToSeqs(S)

\* The orders sort_by may leave: equal elements come in any order.
Sorted(S, fee) ==
    {s \in SetToSeqs(S) : \A i, j \in DOMAIN s : i < j => ~Before(s[j], s[i], fee)}

\* One turn of the loop that fills a block: a transaction that does not fit is
\* passed over, and nothing is added to a full block.
TakeIfFits(f, t) ==
    IF f.gas < f.bound /\ f.gas + t.gas_limit =< f.bound
    THEN [f EXCEPT !.gas = @ + t.gas_limit, !.block = Append(@, t)]
    ELSE f

Fill(s, bound) == FoldLeft(TakeIfFits, [bound |-> bound, gas |-> 0, block |-> <<>>], s).block

\* The results get_transactions_for_block may return.
TransactionsForBlock(n, fee) ==
    {Fill(s, limit[n]) : s \in Sorted({t \in pool[n] : t.max_fee >= fee}, fee)}

RemoveTransactions(n, payload) == pool' = [pool EXCEPT ![n] = @ \ ToSet(payload)]
-----------------------------------------------------------------------------
(***************************************************************************)
(* Base fee: calculate_next_base_fee.                                      *)
(***************************************************************************)
\* Wrong variant: forgets the denominator that limits the change.
NextBaseFeeUndamped(parent, bound) ==
    LET target == bound \div 2
        used == parent.gas_used
        fee == parent.base_fee
    IN  IF used > target THEN fee + (fee * (used - target)) \div target
        ELSE fee - (fee * (target - used)) \div target

NextBaseFee(parent, bound) ==
    LET target == bound \div 2
        used == parent.gas_used
        fee == parent.base_fee
    IN  IF used = target THEN fee
        ELSE IF used > target THEN fee + ((fee * (used - target)) \div target) \div 8
        ELSE fee - ((fee * (target - used)) \div target) \div 8
-----------------------------------------------------------------------------
(***************************************************************************)
(* execute_block, on the accounts a.                                       *)
(***************************************************************************)
\* The two accounts that a transaction changes.
Charge(a, t) == [a EXCEPT !.sent[t.sender] = Append(@, t)]
Credit(a, t) == [a EXCEPT !.received[t] = @ + 1]

\* The EVM refuses a wrong nonce, and a tip above the fee.
Refuses(r, t) == t.nonce # Nonce(r.acct, t.sender) \/ t.max_priority > t.max_fee

\* Wrong variant: the EVM is not told the nonce of the transaction.
ExecuteTxAnyNonce(r, t) ==
    IF ~r.ok THEN r
    ELSE IF t.system THEN [r EXCEPT !.acct = Charge(@, t), !.changed = TRUE]
    ELSE IF t.reverts THEN [r EXCEPT !.gas_used = @ + t.gas_used]
    ELSE [r EXCEPT !.acct = Credit(Charge(@, t), t), !.changed = TRUE,
                   !.gas_used = @ + t.gas_used]

\* A call of the staking contract bumps the nonce without comparing it and costs
\* no gas.  What the EVM refuses ends the block with an error; what a reverted
\* transaction changed is not committed.
ExecuteTx(r, t) ==
    IF ~r.ok THEN r
    ELSE IF t.system THEN [r EXCEPT !.acct = Charge(@, t), !.changed = TRUE]
    ELSE IF Refuses(r, t) THEN [r EXCEPT !.ok = FALSE]
    ELSE IF t.reverts THEN [r EXCEPT !.gas_used = @ + t.gas_used]
    ELSE [r EXCEPT !.acct = Credit(Charge(@, t), t), !.changed = TRUE,
                   !.gas_used = @ + t.gas_used]

\* The gas limits of the whole payload are looked at before its first transaction.
Start(a, payload, bound) ==
    [ok |-> \A t \in ToSet(payload) : t.gas_limit =< MaxTxGas /\ t.gas_limit =< bound,
     acct |-> a, gas_used |-> 0, changed |-> FALSE]

\* Only the transactions of s, which the payload begins with.
ExecutePart(a, payload, bound, s) == FoldLeft(ExecuteTx, Start(a, payload, bound), s)

ExecuteBlock(a, payload, bound) == ExecutePart(a, payload, bound, payload)

\* Leader and validators execute on an overlay over the node's accounts, in a
\* tree forked at the parent's root: the root changes with the first update.
ExecuteOnOverlay(n, payload) == ExecuteBlock(acct[n], payload, limit[n])

StateRoot(r, parent) == IF r.changed THEN r.acct ELSE header[parent].state_root
-----------------------------------------------------------------------------
(***************************************************************************)
(* RPC and gossip.                                                         *)
(***************************************************************************)
\* send_transaction on a thread of the RPC server: the account is read before
\* the pool is locked, and the event loop runs in between.
RpcCheck(n, t) ==
    /\ sends < MaxSends
    /\ sends' = sends + 1
    /\ t \notin checking[n]
    /\ Admissible(n, t)
    /\ checking' = [checking EXCEPT ![n] = @ \cup {t}]
    /\ UNCHANGED <<pool, limit, durable, gossip, header, crashes, accepted, executed, torn>>

\* A new transaction is handed to the event loop for gossip.
RpcInsert(n, t) ==
    /\ t \in checking[n]
    /\ checking' = [checking EXCEPT ![n] = @ \ {t}]
    /\ \/ /\ t \notin pool[n]
          /\ Insert(n, t)
          /\ gossip' = [p \in Node |-> IF p = n THEN gossip[p] ELSE gossip[p] \cup {t}]
       \/ /\ t \in pool[n]
          /\ UNCHANGED <<pool, accepted, gossip>>
    /\ UNCHANGED <<limit, durable, header, sends, crashes, executed, torn>>

\* TransactionReceived in the event loop; nothing is forwarded.
TransactionReceived(n, t) ==
    /\ t \in gossip[n]
    /\ gossip' = [gossip EXCEPT ![n] = @ \ {t}]
    /\ \/ /\ Admissible(n, t) /\ t \notin pool[n]
          /\ Insert(n, t)
       \/ /\ ~Admissible(n, t) \/ t \in pool[n]
          /\ UNCHANGED <<pool, accepted>>
    /\ UNCHANGED <<checking, limit, durable, header, sends, crashes, executed, torn>>
-----------------------------------------------------------------------------
(***************************************************************************)
(* Consensus, as far as it touches transactions.                           *)
(***************************************************************************)
Leader(v) == v % N
Threshold == (N * 2) \div 3 + 1

\* Enough nodes hold the block to have certified it with their votes.
Certified(b) == b = 0 \/ Cardinality({n \in Node : b \in stored[n]}) >= Threshold

\* A QC of the view before names the parent, or is for the dummy block: then
\* the preferred block is extended, even a later one when the QC comes late.
ProposalParent(n, v) ==
    {b \in {v - 1, preferred[n]} : b \in stored[n] /\ Certified(b)}

Created(b) == b \in DOMAIN header

\* The block of view v: the caller's choices and the result r of its execution.
Create(v, parent, payload, fee, r) ==
    header' = [b \in DOMAIN header \cup {v} |->
                 IF b = v
                 THEN [parent |-> parent, payload |-> payload, base_fee |-> fee,
                       gas_used |-> r.gas_used, state_root |-> StateRoot(r, parent)]
                 ELSE header[b]]

\* Wrong variant: the pool is cleaned up even if the execution fails.
ProposeCleansFirst(n, v) ==
    /\ Leader(v) = n
    /\ ~Created(v)
    /\ \E parent \in ProposalParent(n, v) :
         LET fee == NextBaseFee(header[parent], limit[n])
         IN  \E payload \in TransactionsForBlock(n, fee) :
               LET r == ExecuteOnOverlay(n, payload)
               IN  /\ RemoveTransactions(n, payload)
                   /\ IF r.ok
                      THEN /\ Create(v, parent, payload, fee, r)
                           /\ stored' = [stored EXCEPT ![n] = @ \cup {v}]
                      ELSE UNCHANGED <<header, stored>>
    /\ UNCHANGED <<checking, limit, preferred, final, acct, gossip, sends, crashes, accepted, executed, torn>>

\* try_propose and on_vote: create_proposal, execution on an overlay, clean up
\* and save.  If the execution fails nothing changes and there is no block.
Propose(n, v) ==
    /\ Leader(v) = n
    /\ ~Created(v)
    /\ \E parent \in ProposalParent(n, v) :
         LET fee == NextBaseFee(header[parent], limit[n])
         IN  \E payload \in TransactionsForBlock(n, fee) :
               LET r == ExecuteOnOverlay(n, payload)
               IN  /\ r.ok
                   /\ RemoveTransactions(n, payload)
                   /\ Create(v, parent, payload, fee, r)
    /\ stored' = [stored EXCEPT ![n] = @ \cup {v}]
    /\ UNCHANGED <<checking, limit, preferred, final, acct, gossip, sends, crashes, accepted, executed, torn>>

\* validate_and_store_block: the block is executed again and its roots must
\* agree; the base fee and the sum of the gas limits are not looked at.  A
\* block that fails is dropped without a trace.  justify is a QC of the parent
\* or, when the view before timed out, of the dummy block.
ValidateAndStore(n, b) ==
    /\ b \notin stored[n]
    /\ Created(b)
    /\ header[b].parent \in stored[n]
    /\ LET r == ExecuteOnOverlay(n, header[b].payload)
       IN  /\ r.ok
           /\ StateRoot(r, header[b].parent) = header[b].state_root
           /\ r.gas_used = header[b].gas_used       \* in the receipts root
    /\ stored' = [stored EXCEPT ![n] = @ \cup {b}]
    /\ preferred' = [preferred EXCEPT ![n] =
                       IF header[b].parent = b - 1 /\ @ < b - 1 THEN b - 1 ELSE @]
    /\ RemoveTransactions(n, header[b].payload)
    /\ UNCHANGED <<checking, limit, final, acct, world, accepted, executed, torn>>

\* on_vote forms a QC for b: update_preferred_chain.
FormQC(n, b) ==
    /\ Created(b) /\ Certified(b)
    /\ preferred[n] < b
    /\ preferred' = [preferred EXCEPT ![n] = b]
    /\ UNCHANGED <<memory, stored, final, acct, world, accepted, executed, torn>>

\* on_finalize_vote: the height is saved, then the block is executed against
\* the persistent accounts.  An error in the middle leaves what was committed
\* before it.
FinalizeBlock(n, b) ==
    /\ b > final[n]
    /\ b \in stored[n] /\ Certified(b)
    /\ final' = [final EXCEPT ![n] = b]
    /\ acct' = [acct EXCEPT ![n] = ExecuteBlock(@, header[b].payload, ConfigLimit).acct]
    /\ executed' = [executed EXCEPT ![n] = Append(@, b)]
    /\ UNCHANGED <<memory, stored, preferred, world, accepted, torn>>

\* Wrong variant: off by one.
FinalizeSkippedNext(n, v) ==
    /\ v > final[n]
    /\ final' = [final EXCEPT ![n] = v + 1]
    /\ UNCHANGED <<memory, stored, preferred, acct, world, accepted, executed, torn>>

\* The view is finalized for the dummy block, or the block is not in storage.
FinalizeSkipped(n, v) ==
    /\ v > final[n]
    /\ final' = [final EXCEPT ![n] = v]
    /\ UNCHANGED <<memory, stored, preferred, acct, world, accepted, executed, torn>>

\* What a process loses: the pool, and the configured gas limit.
LoseMemory(n) ==
    /\ crashes < MaxCrashes
    /\ crashes' = crashes + 1
    /\ pool' = [pool EXCEPT ![n] = {}]
    /\ checking' = [checking EXCEPT ![n] = {}]
    /\ limit' = [limit EXCEPT ![n] = DefaultLimit]
    /\ accepted' = [accepted EXCEPT ![n] = {}]

\* What is committed of block b when the process dies: some transactions, and of
\* the one that follows, which the EVM executed, both accounts or only one.
CommitPart(n, b) ==
    \E k \in 0 .. Len(header[b].payload) :
        LET payload == header[b].payload
            r == ExecutePart(acct[n], payload, ConfigLimit, SubSeq(payload, 1, k))
            t == payload[k + 1]
        IN  \/ /\ acct' = [acct EXCEPT ![n] = r.acct]
               /\ UNCHANGED torn
            \/ /\ k < Len(payload)
               /\ r.ok /\ ~t.system /\ ~Refuses(r, t) /\ ~t.reverts
               /\ \/ acct' = [acct EXCEPT ![n] = Charge(r.acct, t)]
                  \/ acct' = [acct EXCEPT ![n] = Credit(r.acct, t)]
               /\ torn' = [torn EXCEPT ![n][t] = @ + 1]

\* Wrong variant: the height is saved after the execution.
CrashInCommitUnsaved(n, b) ==
    /\ LoseMemory(n)
    /\ b > final[n]
    /\ b \in stored[n] /\ Certified(b)
    /\ executed' = [executed EXCEPT ![n] = Append(@, b)]
    /\ CommitPart(n, b)
    /\ UNCHANGED <<final, stored, preferred, gossip, header, sends>>

\* The process dies in on_finalize_vote, after the height was saved and before
\* all accounts were committed.
CrashInCommit(n, b) ==
    /\ LoseMemory(n)
    /\ b > final[n]
    /\ b \in stored[n] /\ Certified(b)
    /\ final' = [final EXCEPT ![n] = b]
    /\ executed' = [executed EXCEPT ![n] = Append(@, b)]
    /\ CommitPart(n, b)
    /\ UNCHANGED <<stored, preferred, gossip, header, sends>>

Restart(n) ==
    /\ LoseMemory(n)
    /\ UNCHANGED <<durable, gossip, header, sends, executed, torn>>

Next ==
    \E n \in Node :
       \/ \E t \in Tx : RpcCheck(n, t) \/ RpcInsert(n, t) \/ TransactionReceived(n, t)
       \/ \E v \in View :
             \/ Propose(n, v)
             \/ ValidateAndStore(n, v)
             \/ FormQC(n, v)
             \/ FinalizeBlock(n, v)
             \/ FinalizeSkipped(n, v)
             \/ CrashInCommit(n, v)
       \/ Restart(n)

Spec == Init /\ [][Next]_vars
-----------------------------------------------------------------------------
(***************************************************************************)
(* Properties                                                              *)
(***************************************************************************)
\* A transaction of the EVM is charged at most once on a node, although it may be
\* sent again, be included in several blocks, and be committed with some of them
\* failing half way (the nonce check of execute_block).  It pays out as often as
\* it is charged, except for once, up or down, for each time that the process
\* died between the commits of its two accounts.
SpentOnce ==
    \A n \in Node, t \in Tx : ~t.system =>
        LET charged == {i \in DOMAIN acct[n].sent[t.sender] : acct[n].sent[t.sender][i] = t}
        IN  \E c \in {0, 1} :
              /\ charged = {} <=> c = 0
              /\ \A i, j \in charged : i = j
              /\ acct[n].received[t] \in (c - torn[n][t]) .. (c + torn[n][t])

\* No block is executed twice against the persistent accounts, whenever the
\* process dies: on_finalize_vote saves the height first.
CommittedAtMostOnce ==
    \A n \in Node : \A i, j \in DOMAIN executed[n] : i < j => executed[n][i] < executed[n][j]

\* What a running node accepted into its pool is still there or in a block it
\* has stored: a proposal or a validation that fails costs no transaction.
NothingDropped ==
    \A n \in Node : \A t \in accepted[n] :
        t \in pool[n] \/ \E b \in stored[n] : t \in ToSet(header[b].payload)

SmallestTarget == (IF ConfigLimit < DefaultLimit THEN ConfigLimit ELSE DefaultLimit) \div 2

\* The base fee falls by at most an eighth of the parent's (the denominator of
\* calculate_next_base_fee), and rises by at most an eighth of it times (L - T) / T,
\* L the largest gas limit and T the smallest target.  That is an eighth as well
\* when every node has the same even limit; it is more with a restarted node that
\* fell back to the default limit, or with a target that is rounded down.
FeeBounded ==
    \A b \in View : Created(b) =>
        LET fee == header[header[b].parent].base_fee
        IN  /\ 8 * header[b].base_fee >= 7 * fee
            /\ 8 * SmallestTarget * header[b].base_fee =< (7 * SmallestTarget + LargestLimit) * fee

GasOfSet(S) == SumFunction([t \in S |-> t.gas_limit])

\* A proposal leaves out an affordable transaction of the pool only if those
\* that are not ranked after it fill the block or leave too little room for it:
\* the reference definition of get_transactions_for_block.
SelectionGreedy ==
    [][\A v \in View : ~Created(v) /\ Created(v)' =>
         LET n == Leader(v)
             b == header'[v]
             chosen == ToSet(b.payload)
         IN  /\ GasOfSet(chosen) =< limit[n]
             /\ chosen \subseteq pool[n]
             /\ \A t \in pool[n] \ chosen : t.max_fee >= b.base_fee =>
                   LET gas == GasOfSet({u \in chosen : ~Before(t, u, b.base_fee)})
                   IN  gas >= limit[n] \/ gas + t.gas_limit > limit[n]
      ]_vars

(***************************************************************************)
(* What comments say and the code does not keep.                           *)
(***************************************************************************)
\* The accounts after the chain that ends in block b.
ChainState(b) ==
    LET state[i \in Height] ==
          IF i = 0 THEN NoAccounts
          ELSE IF ~Created(i) THEN NoAccounts
          ELSE ExecuteBlock(state[header[i].parent], header[i].payload, ConfigLimit).acct
    IN  state[b]

\* consensus.rs:230, "Fork state from Parent Root"; docs/consensus_flow.md,
\* "State Root: Result of executing the transactions".
RootOfChain == \A b \in View : Created(b) => header[b].state_root = ChainState(b)
=============================================================================
