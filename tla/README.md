# A TLA+ verification of Ockham

Ockham is a small proof-of-stake chain in Rust: Simplex consensus over a libp2p
gossip network, an EVM for execution, and a system contract for staking. This
directory holds TLA+ models of its core, TLC configurations for small instances,
and TLAPS proofs. All paths below are relative to the repository; `tla/` is self-contained.

## 1. The system: inventory

| Component | State | Operations | Interaction |
|---|---|---|---|
| Consensus (`src/consensus.rs`, `SimplexState`) | current view, finalized height, preferred block and view, last voted view; votes per view; orphan buffer; persisted `ConsensusState`, blocks, QCs | `on_proposal`, `on_vote`, `on_finalize_vote`, `on_timeout`, `try_propose`, `on_block_request`, `on_block_response`, `persist_state`, reload in `new` | called by the event loop; returns actions; calls the executor, the pools and the storage |
| Event loop (`src/main.rs`) | action stack, `consensus_started`, 30 s view timer | one branch per network event, timer, RPC transaction | pops actions from the end of the vector, broadcasts them, loops own votes back |
| Evidence pool (`src/evidence_pool.rs`) | evidence per author | add, get all, remove | filled by `on_vote` and gossip; emptied into blocks |
| Executor and validator registry (`src/vm.rs`) | committee, activation and exit queues, stakes, inactivity scores, balances | equivocation and liveness slashing, `stake`, `unstake`, `withdraw`, end-of-block queues | run on an overlay to validate a block, on the database to commit it; the committee is copied into `SimplexState` |
| Transaction pool (`src/tx_pool.rs`) | pending transactions | add, select by tip and gas, remove | RPC, gossip, proposals |
| Base fee (`calculate_next_base_fee`) | none | pure function of the parent block | proposals |
| Storage (`src/storage.rs`) | redb tables; `StateOverlay` for ephemeral execution | save and get, one database transaction each | everyone |
| World state (`src/state.rs`) | sparse Merkle tree | commit account and slot, fork, root | executor |
| Network task (`src/network.rs`) | two bounded channels | forward gossip and connections as events, publish and dial on command | event loop |
| RPC server (`src/rpc.rs`) | none of its own | `send_transaction`, `suggest_base_fee`, queries | own threads, next to the event loop: pool, storage |
| Crypto, client, types | - | - | - |

What is hard here, and what makes a component correct:

- **Consensus.** Nodes see votes, blocks and timeouts in different orders, messages
  are lost, nodes crash and come back with what they persisted. Correct means: a QC
  is backed by real votes; a view is entered, a block proposed, preferred,
  finalized or committed only on top of real certificates; ancestries are complete;
  persisted progress never goes back; honest nodes are not accused; with timely
  messages every view is finalized.
- **Registry.** `execute_block` is not atomic: every save is a database transaction
  of its own, and errors leave a part of a block behind; `persist_state` then
  writes the committee in memory back over the stored one. Correct means: seats
  are distinct, a write-back takes no seat away, validators that wait are funded,
  and funds are not created but by a crash that cuts a call in two.
- **Transactions.** They enter through RPC threads and gossip, sit in pools, are chosen,
  executed on an overlay by each node and once more when the block is final, on
  accounts that may have moved on. Correct means: nothing is charged twice and nothing
  accepted gets lost, also with crashes in the middle of a commit; what is paid is what is
  charged, unless a crash tears the two apart; blocks are filled by tip and gas; the fee
  moves slowly.
- **Tasks and channels.** Event loop and network task feed each other. Correct means that
  the loop always gets back to its timer.

`PROJECT.json` lists the hazards line by line, also those no property covers yet.

## 2. Modules

| Module | Content |
|---|---|
| `Simplex` | `SimplexState` and the event loop on every node, gossip, crashes; properties |
| `MCSimplex` | action constraints for TLC (partial-order reduction, scenarios), a next-state relation without timers |
| `Notary` | the abstract specification: signatures, certificates, views, finalized views |
| `SimplexProofs` | TLAPS: type correctness and complete ancestries |
| `SimplexCertificates` | TLAPS: everything is backed by votes |
| `SimplexRefinement` | TLAPS: `Simplex` implements `Notary`; nothing persisted goes back |
| `SimplexEvidence` | TLAPS: evidence is sound, votes are not doubled before a restart, voters hold what they voted for |
| `Staking` | the validator registry during the execution of finalized blocks; properties |
| `MCStaking` | a two-validator instance |
| `StakingProofs` | TLAPS: types, distinct seats, write-backs, funded validators, conserved funds |
| `Ledger` | pool, base fee, proposals, ephemeral execution and commit on every node; properties |
| `MCLedger` | the transactions of the instance, and which of them is sent first |
| `LedgerProofs` | TLAPS: no double commit or effect, no lost transaction, selection, fees |
| `FoldTheorems` | TLAPS: what `FoldLeft` computes, for any step operator |
| `FiniteSums` | TLAPS: least elements, induction over finite sets, sums |
| `Network` | event loop and network task of one node with their channels |

### Simplex

`st[n]` holds the five consensus fields of node `n`, `saved[n]` their persisted copy.
`votes_received`, `finalize_votes`, `orphans`, `evidence_pool` and `queue` (the
action stack) are memory; `blocks`, `qcs`, `committed` are the database. `inbox[n]`
is what gossip may still deliver to `n`; since nothing forces a delivery, loss
and unbounded delay are behaviours. `header` records the contents of all
blocks, `cast` all votes ever broadcast (a history variable used by properties).

One step is one handler, with all it saves and the actions it returns: `Receive`
dispatches a message to `OnVote`, `OnProposal`, `OnBlockResponse`, `OnBlockRequest` or
`OnEvidence`; `Timeout` is the timer; `PeerConnected` and `PeerConnectedPropose` are
the startup with `try_propose`, whose votes are broadcast and not looped back
(`PopBooting`); `PopVote`, `PopMessage` work off the stack, and own votes go to `OnVote`
again, in the LIFO order of the code. The recursion of `on_block_response` over
waiting orphans is a `drain` item on the stack (`PopDrain`), worked off before
anything else happens on the node. `Restart` is a crash between two steps and the
reload of `SimplexState::new` (`Reload`). Every save is a database transaction of its
own, so a node can also die inside a handler: `CrashInVote` after `save_qc`, after
the new preferred block, after the new view or after the proposal's block was saved;
`CrashInFinalize` between the saved height and the execution; `CrashInStore`
between the preferred block, the block and the view of a received proposal. What
such a handler would have returned is never broadcast.

Data: a block is a view and a tag that stands for the rest of its contents; its parent,
justify hash and evidence are in `header`. `Zero` is the dummy hash. The
results of executing a block are `ExecOutcomes`. Signatures are valid and hashes do
not collide: all modelled nodes run this code. Messages reach a node only after its
first `PeerConnected` event, since gossip needs a connection.

### Notary

What remains of consensus without messages, queues, timers, storage and crashes. A step
of node `n` may sign one vote of its own, write down one certificate for a view that has
none, enter a later view, and finalize a later view with or without its block, and each
of them only if the votes signed by then suffice. Sets of votes that suffice are the
constant `Quorum`. `Simplex!Promise` is the refinement mapping: `signed <- cast`,
`cert <- qcs`, `entered`, `final` and `commits` from `st` and `committed`; `Quorum` is the
sets of at least `Threshold` nodes. `ImplementsNotary` is the abstract
specification as a property of `Simplex`.

### Staking

A block is executed in steps: `StartBlock`, `SlashEquivocation` for each valid
piece of evidence, `ProcessLiveness`, one step per transaction (`Stake`, `Unstake`,
`Withdraw`, `IdleCall`, and `Transfer` for the EVM), then `EndBlock`, which
processes the queues and reloads the committee. `FailBlock` is an `Err` in the
payload, `Restart` a crash between two writes, `CrashInStake` and `CrashInWithdraw`
a crash between the two writes of one call, `CrashInTransfer` one between the commits
of the two accounts of a transfer, which come in either order. At genesis only `Rich` has an
account (`accounts`); another validator has one after a transfer to it, and calls the
contract only then, because `process_system_contract` unwraps the sender's account. Between blocks `PersistState`
writes the committee in memory back. `Word` stands for 2^256 and arithmetic
wraps as `U256` does. A validator is a key pair with its address. Gas, nonces
and receipts are left out; evidence is whatever validation accepts, any number of
times.

### Ledger

`pool[n]` is the `TxPool`, `checking[n]` the RPC threads between the nonce check and the
pool's lock (`RpcCheck`, `RpcInsert`), `gossip[n]` the transactions under way
(`TransactionReceived`). `Propose` is `try_propose` (and the same lines in `on_vote`):
fee of the parent, selection, execution on an overlay, clean-up, save.
`ValidateAndStore` executes again and compares; `FormQC` moves the preferred block;
`FinalizeBlock` saves the height and executes against `acct[n]`; `FinalizeSkipped` is a
view finalized for the dummy or for a block that is not stored; `CrashInCommit`
is a crash after the height was saved and before everything was committed: after any number of
transactions (`ExecutePart`) and, of the next one, with no account, only the sender's
or only the recipient's (`CommitPart`), since `execute_block` commits every account in a
database transaction of its own, in the order of a hash map.
`Restart` loses the pool and the configured gas limit (`limit`).

Of the accounts we keep `sent`, for every sender the sequence of the transactions that were
charged to it, so that its length is the nonce, and `received`, how often a transaction has
paid its recipient. `torn[n][t]` is history: how often node `n` died between the two
commits of `t`. A recipient that is paid and a sender whose nonce is the old one is a state the
code can be in, and a stored block with the same transaction then pays a second time;
the run reaches it, and `SpentOnce` says what remains true: a transaction is charged once,
and pays off by at most one for each such crash. `ExecuteTx` has the cases of the payload loop: a call of the staking contract
(no nonce check, no gas), an EVM error, which ends the block, a revert, whose
changes are not committed (nor its nonce), and success. `StateRoot` is what
`StateManager` computes: the accounts found in storage, or the parent's root as long as
nothing was updated. `accepted`, `executed` and `torn` are history. Consensus is reduced to what
matters for transactions: one block per view, certified when enough nodes store it, and
any view above the last may be finalized.

### Network

`outgoing` is what the task has still to send to the loop, `todo` how many commands the
current handler of the loop has still to send; while one is not empty its side waits in
`send` and takes nothing from its own channel.

## 3. Runs

Properties that hold:

| Run | Instance | Shows |
|---|---|---|
| `SimplexTimeouts` | 2 validators, 2 views, timers any time | `TypeOK`, `JustifyCertified`, `ViewJustified`, `FinalizedCertified`, `OnlyCrashesAccuse`, `ImplementsNotary` |
| `SimplexRestart` | 2 validators, 2 views, 2 block contents, 1 crash between or inside handlers, the timer of node 0 in view 1 | `QCBacked`, `PreferredCertified`, `EvidenceSound`, `VotersHoldBlock`, `NoRollback`, `ImplementsNotary` |
| `SimplexSync` | 1 validator, 1 learner, 3 views, execution may fail | `AncestorsStored`, `CommittedCertified` |
| `SimplexTimely` | 2 validators, 3 views, no timers, fair, executions succeed | `AllFinalize` |
| `Staking` | 2 validators, 4 views, 1 transaction per block, 1 failure | `TypeOK`, `SeatsDistinct`, `PendingFunded`, `WriteBackKeepsSeats`, `FundsNeverGrow` |
| `Ledger` | 2 nodes, 2 views, 3 transactions, 2 calls, 1 crash, two gas limits | `TypeOK`, `SpentOnce`, `CommittedAtMostOnce`, `NothingDropped`, `FeeBounded`, `SelectionGreedy` |

Statements of the repository that the code does not keep (each run ends in a
counterexample; details in `PROJECT.json`, "findings"):

| Run | Statement | What happens |
|---|---|---|
| `SimplexForgets` | "We already voted for this view (or a higher one). Do not vote again." and "Honest nodes MUST NOT equivocate" (`src/consensus.rs:460`) | a late QC of an old view makes its next leader propose in the past, and `last_voted_view` goes back; the leader of a view voted in since restarts, proposes and votes there again, because `try_propose` ignores `last_voted_view`; and the first node votes there a second time too |
| `SimplexFork` | the block is immutable (`docs/consensus_flow.md:52`) | Finalize votes for the block and for the dummy add up; a later leader extends an older block |
| `SimplexStuck` | "When a node gathers 2f+1 votes for the same BlockHash in View V [...] The node advances to View V+1" (`docs/consensus_flow.md:43`, `:46`) | both nodes vote for the block of view 2; node 1 times out before node 0's vote arrives, and its timeout vote replaces its block vote in its own tally; node 0 forms the QC and is in view 3, node 1 has received the same votes, never counts them as a quorum and stays in view 2, whose successor it leads |
| `StakingQueues` | "Process Queues (End of Block)" (`src/vm.rs:196`) | due exits are dropped only if the committee changed: the owner of the genesis account unstakes, is slashed out, and its due entry stays |
| `LedgerParent` | "Fork state from Parent Root" (`src/consensus.rs:230`) | a block on top of one that is not committed yet is executed without its parent's effects, and its root leaves them out |
| `NetworkSaturated` | "Validators time out" (`docs/consensus_flow.md:61`) | both channels full: loop and task wait for each other, and the timer is never served again |

**Bounds.** Two validators make the threshold two, so every certificate needs the
message of another node: all the interleavings of votes, timeouts and proposals happen,
and leadership alternates. (The theorems below remove the bound for the safety
properties.) Two views contain a proposal on a certificate, a proposal on a dummy
certificate, a fast forward and a late certificate for the view before; three views
are needed for a chain of orphans two deep and for extending an older block.
With a threshold of one, the learner of `SimplexSync` is
the node that has to synchronize and all its orders of arrival are explored; here the
validator never waits. `SimplexRestart` has only the timer of node 0 in the first view, because timers are
checked in `SimplexTimeouts`: the view then ends with a dummy certificate or with a block, and
a timeout vote and a block vote of one author meet; its two tags let a restarted leader
produce a different block. In `Staking` four views and a delay of one let a validator be activated,
slashed out, exit and come back; stakes of 3 with a minimum of 2 and penalties of 1
put every threshold one step away, and a word of 8 makes sums wrap around. The
same run with two transactions per block has also been carried out (10.6 million
states before the crashes inside calls were added). In `Ledger` two views contain
a block on genesis, one on its uncommitted or committed parent, and a skipped view; the
transactions are two of one sender, the later with the better tip and reverting, and
a staking call, with gas limits of 3, 2 and 2. The nodes are started with a limit of 6, and the
default is 3: a restarted node goes back to it, because `SimplexState::new` then ignores the
configuration (`src/consensus.rs:121`), so that blocks are filled, validated and priced with
either, not everything fits in the smaller one, its target is rounded down, and a parent can
have used three times the target that its child's fee is computed with: the fee then
rises by a quarter instead of an eighth. Two
calls suffice for a transaction and its repetition, on one node or two, and for two
competing ones; `PaymentFirst` lets the first call bring the payment to the first leader and the
second one anything to any node. The fees start at 16, twice the denominator, so that rounding
and an exact eighth both occur. `LedgerParent` has one limit of 4 and no such constraint. `Network`
has channels of 2 instead of 100; the cycle of waiting does not depend on the size.

**Reduction.** `RunToCompletion` lets a node finish its stack before another node
moves. A node's steps in between read only its own state and add messages to the
other inboxes, so they commute with the steps of others. `OneEarlyTimer` and
`LateLeader` restrict two violation runs to a scenario: a counterexample of a part of
the behaviours is one of the whole. `PaymentFirst` restricts the run `Ledger`; the theorems
about its properties do not. Deadlock is not checked: the bounds on views
and blocks end every behaviour.

**Fairness.** `AllFinalize` is stated under `TimelySpec`: weak fairness of each node's
steps, because the loop never sleeps while an event or action is there, and no
timeouts, because gossip is assumed faster than the 30 s timer. It also assumes that
every execution succeeds (`ExecOutcomes`): a block that a validator cannot execute is dropped,
and without its vote there is no quorum of two. `ViewsAdvance`
is refuted under `TickingSpec`, which is generous to the code: strong fairness for the
delivery of every message and weak fairness for the timer. `LoopReturns` is refuted
although sends happen whenever there is room and `select`, which picks at random among
the branches that are ready, is strongly fair to each of them.

**Mutants.** Every property of a passing run is violated by a wrong variant of one
definition that stands in the module next to it ("Wrong variant" in its comment).

## 4. Proofs

The theorems about `Simplex` hold for every number of validators and learners, views,
tags and crashes, and for every set of execution outcomes that contains success. They
assume only its named `ASSUME`s (sizes are naturals, special values are distinct).
All invariants and action properties of the passing runs are theorems.

`SimplexProofs` shows `Spec => []StructInv`. `StructInv` adds to the type invariant
and `AncestorsStored` that whatever refers to a block refers to one that was created:
links of headers (`LinksCreated`), buffered orphans (`OrphansCreated`), items of the stack
(`QueueCreated`) and messages under way (`InboxCreated`). Without these,
`header[b].parent` of a received block could be anything. Results: `TypeCorrect`
(`TypeOK`), `AncestryStored` (`AncestorsStored`).

`SimplexCertificates` shows `Spec => []CertInv` on top of it. None of the
certificate properties is inductive alone, since they feed each other: a stored QC
goes into a header, from there into the preferred block and view of
others, into Finalize votes on a stack, into the network, into counts, and back into
a QC. `CertInv` says of each of these places that what it holds was really voted:
`VotesBacked` (counted Notarize votes were cast or are being handled),
`FinalizeBacked`, `QueueGood`, `HeadersGood`, `StatesGood` (for `st` and `saved`, so that
a restart preserves it), `QCsGood`, `CommitsGood`, `InboxCast`, `CastGood`. The step
from counts to `Supermajority` is arithmetic on `Threshold` and a cardinality lemma.
Results: `StoredQCsBacked`, `ProposalsJustified`, `PreferredBacked`, `ViewsJustified`,
`FinalizationBacked`, `CommitsBacked`.

`SimplexRefinement` shows `Spec => ImplementsNotary` (`Refinement`) and
`Spec => NoRollback` (`NeverBehind`). Its invariant `Inv` adds to the two above that
memory and database agree on the consensus fields (`Persisted`): a reload after a crash
anywhere in a handler then continues from fields that are not behind. For each handler and
crash a *frame* lemma says which fields it can change and how: at most one vote of the
node itself is added to `cast` (`CastFrame`), at most one missing QC is filled in
(`QCsFrame`), a block is committed only together with its height (`CommitFrame`), and
the fields only move up (`NotBehind`). What backs a new certificate, view or height is
then read off `CertInv` in the state *after* the step, so that no handler has to be
looked at twice; `CertBacked` turns it into a quorum of the notary.

`SimplexEvidence` shows `Spec => []EvidenceInv`. Evidence is made of a vote that was
counted and one that is being handled, travels as a message and comes back as an
item of a stack or in a block, so `EvidenceSound` needs the same of all three places
(`PoolsProved`, `InboxProved`, `StacksHeld`), and `VotesBacked` of `CertInv` for the counted
vote. `VotersHoldBlock` needs that a vote still on a stack names a stored block
(`StacksHeld`). `OneProposal` says that, before the first crash, a view has at most one block: a
leader creates it when it starts, or in the step that stores the QC of the view before,
and both happen once. Results: `VotersServe`, `EvidenceIsSound`; `HonestUntilRestart`
(no node votes for two blocks of a view while `crashes = 0`, the part of "Honest nodes MUST
NOT equivocate" that is true), and from the two `AccusedAfterRestart`
(`OnlyCrashesAccuse`). The proof cannot rest on
`last_voted_view`, as the comment in `on_proposal` suggests: `on_vote` can lower that
field, which is the finding of `SimplexForgets`. It rests on `OneProposal` instead.

`StakingProofs` holds for every finite set of validators, all amounts and all
thresholds. Its invariant is the types, `SeatsDistinct`, `PendingFunded` and `CopyCurrent`
together. `CopyCurrent` says that every member of the stored committee is in the copy in
memory, whatever failed or was cut short before: slashing only takes members away, and those
that join do so in the last write of a block, just before the copy is made. `SeatsKept`
(`WriteBackKeepsSeats`) follows from it. As to seats, a due entry joins the committee only if it is not there, and no
queue has a key twice, so the folds of `ProcessQueues` keep sequences injective, also on
a committee that `persist_state` has brought back. `FundsConserved` (`FundsNeverGrow`) is
about sums over all validators: each call changes one account and one stake by amounts
that cancel or shrink, with or without wrapping around, and `SumExcept` of `FiniteSums`
says what that does to a sum. A crash between the two writes of a call or transfer keeps one of
the two changes, so that the sum grows by the amount at most. `IsFiniteSet(Validator)` is assumed for it: otherwise
there is no sum.

`LedgerProofs` holds for every number of nodes, set of transactions, limits and crashes. Its
first invariant `Inv` adds that nothing above the saved height was executed (`ExecutedFinal`,
which makes `CommittedAtMostOnce` inductive) and that stored blocks exist (`StoredCreated`: no
later proposal changes a block that keeps a transaction for `NothingDropped`). Every action
is classified as a move of the history and a move of the pool, and each kind of move is
treated once. Results: `ExecutedOnce`, `PoolKeepsAccepted`. The second, `ExecInv`, looks inside
blocks and accounts. Every EVM transaction that was charged sits at the position of its nonce
(`OrderedAccounts`), so that one with the sender's nonce was not charged before
(`NotChargedBefore`), and what a transaction has paid differs from what it was charged by at most
`torn` (`BalancedAccounts`, with the allowed difference as its parameter): a complete execution
keeps the difference, wherever it stops, and a crash between the two commits changes it by one
(`TornBalanced`). Blocks have created parents and use no more gas than a limit allows
(`BlocksPart`); `FeeBounded` is inductive with that, because `RiseBounded` bounds the rise by
the smallest target and the largest limit alone; pools are finite (`NodesPart`), or they could not
be sorted. Results: `LedgerTypes`, `EffectOnce` (`SpentOnce`), `GreedySelection`, and
`FeeMovesSlowly` (`FeeBounded`), without any assumption on the two limits: an eighth in both
directions if they are the same even number, more upwards otherwise, since a restarted
node computes the fee with another target, and an odd limit has a target that is rounded down.

Induction over data. `FiniteSums` gets it from the library's `WFMin`: a nonempty set of
naturals has a least element, and a counterexample of least size is none.
`FoldTheorems` uses it for `FoldLeft` with a step that is a constant operator of the
module; `StakingProofs` and `LedgerProofs` instantiate it with the steps of their folds
(`KeepDue`, `KeepNotDue`, `Join`, `Leave`, `ExecuteTx`, `TakeIfFits`), which therefore have
names. `FoldLeftTrace` turns a fold into the sequence of its intermediate results, and an
invariant of these is again shown by a least counterexample.

Only model-checked: `AllFinalize`, liveness under fairness, which is out of the prover's reach.

## 5. Not modelled

- A committee that changes while consensus runs: `Simplex` has a fixed one, `Staking`
  shows how it changes on one node. The product of the two is out of TLC's reach, and
  with it leaders that nodes disagree about and the division by an empty committee.
- Staking calls on the overlay: `Ledger` has their effect on nonces, `Staking` their effect
  on stakes at commit.
- More than two accounts of a transaction (the fee's receiver, contracts and their slots), and
  the crash between saving an account and updating its leaf of the Merkle tree
  (`commit_account`): in `Ledger` a root is always that of the stored accounts.
- `suggest_base_fee`: a query, with a copy of the fee formula and the configured limit.
- The EVM's interpreter, logs, the receipts tree, the layout of the Merkle tree,
  cryptography, libp2p, RPC queries and the client: libraries, I/O or data
  transformations without a protocol of their own.

## 6. Plan

Done: `Simplex` with crashes anywhere in a handler, `Notary` and the refinement;
`Staking`; `Ledger`; `Network`; theorems for every invariant and action property that
the passing runs check. Left: what can be certified in one view (before a restart one block
and the dummy, by `HonestUntilRestart`; with restarts, how many blocks a committee
with learners can certify), and for how long `LoopReturns` holds in `Network`, as a bound
on what the loop sends per event.
