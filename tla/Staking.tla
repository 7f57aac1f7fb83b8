------------------------------ MODULE Staking ------------------------------
(***************************************************************************)
(* The validator registry of one Ockham node: what executing finalized     *)
(* blocks against the persistent state (src/vm.rs) does to the committee,  *)
(* the activation and exit queues, the stakes and the inactivity scores,   *)
(* and the copy of the committee that SimplexState keeps in memory and     *)
(* writes back in persist_state (src/consensus.rs).                        *)
(*                                                                         *)
(* Every save_consensus_state and commit_account is a database             *)
(* transaction of its own, so execute_block is not atomic: it is a         *)
(* sequence of steps here, and an error or a crash leaves what was done.   *)
(*                                                                         *)
(* A validator stands for a key pair and the address derived from it.      *)
(* Amounts are in units such that Word plays the role of 2^256.  A missing *)
(* entry of the stakes and scores maps counts as 0: every member of the    *)
(* committee and of the queues has a stakes entry.                         *)
(***************************************************************************)
EXTENDS Integers, FiniteSets, Sequences, SequencesExt, Functions

CONSTANTS
    Validator,          \* keys that may stake
    GenesisCommittee,   \* sequence of validators
    Rich,               \* owner of the genesis account, key 0
    Word,               \* 2^256
    GenesisStake,       \* 5000
    MinStake,           \* 2000
    EquivocationSlash,  \* 1000
    LivenessPenalty,    \* 10
    MaxScore,           \* 50, the inactivity threshold
    Delay,              \* 10 views, for activation and for exit
    Amount,             \* values that transactions carry
    MaxView,            \* bound on the views of blocks
    MaxTxs,             \* bound on the transactions of a block
    MaxFailures         \* bound on failed executions and restarts

ASSUME StakingAssumption ==
    /\ IsFiniteSet(Validator)
    /\ GenesisCommittee \in Seq(Validator) /\ IsInjective(GenesisCommittee)
    /\ GenesisCommittee # <<>> /\ Rich \in Validator
    /\ {Word, GenesisStake, MinStake, EquivocationSlash, LivenessPenalty, MaxScore,
        Delay, MaxView, MaxTxs, MaxFailures} \subseteq Nat
    /\ GenesisStake < Word /\ 0 < MinStake
    /\ Amount \subseteq 0 .. (Word - 1)

VARIABLES
    \* the persisted ConsensusState and the accounts
    committee,   \* active validators, in order
    pending,     \* pending_validators: keys and activation views
    exiting,     \* exiting_validators: keys and exit views
    stakes,      \* locked funds
    scores,      \* inactivity_scores
    accounts,    \* validators whose address has an account
    balance,     \* free funds of the accounts; 0 without one
    \* in memory
    known,       \* SimplexState::committee
    \* the execution of blocks
    phase,       \* "idle", or the part of execute_block that runs
    view,        \* of the block in execution, or of the last one
    txs,         \* transactions executed of this block
    failures,    \* executions cut short so far
    overflowed   \* history: some sum of funds has wrapped around

registry == <<committee, pending, exiting, stakes, scores>>
execution == <<phase, view, txs, failures>>
funds == <<accounts, balance, overflowed>>
vars == <<registry, funds, known, execution>>

Entry == [pk : Validator, at : Nat]

\* Type invariant: in particular funds stay within a word.
TypeOK ==
    /\ committee \in Seq(Validator) /\ known \in Seq(Validator)
    /\ pending \in Seq(Entry) /\ exiting \in Seq(Entry)
    /\ stakes \in [Validator -> 0 .. (Word - 1)]
    /\ accounts \subseteq Validator /\ balance \in [Validator -> 0 .. (Word - 1)]
    /\ scores \in [Validator -> 0 .. MaxScore]
    /\ phase \in {"idle", "evidence", "payload"}
    /\ view \in 0 .. MaxView /\ txs \in 0 .. MaxTxs /\ failures \in 0 .. MaxFailures
    /\ overflowed \in BOOLEAN

Init ==
    /\ committee = GenesisCommittee
    /\ known = GenesisCommittee
    /\ pending = <<>>
    /\ exiting = <<>>
    /\ stakes = [v \in Validator |->
                    IF Contains(GenesisCommittee, v) THEN GenesisStake ELSE 0]
    /\ accounts = {Rich}
    /\ balance = [v \in Validator |-> IF v = Rich THEN Word - 1 ELSE 0]
    /\ scores = [v \in Validator |-> 0]
    /\ phase = "idle"
    /\ view = 0
    /\ txs = 0
    /\ failures = 0
    /\ overflowed = FALSE
-----------------------------------------------------------------------------
(***************************************************************************)
(* Execution of a block: slashing.                                         *)
(***************************************************************************)
\* Subtraction that stops at zero.
Minus(a, b) == IF a < b THEN 0 ELSE a - b

IsPending(v) == \E i \in DOMAIN pending : pending[i].pk = v
IsExiting(v) == \E i \in DOMAIN exiting : exiting[i].pk = v

\* The queue q without the first entry of v.
Dequeue(q, v) == RemoveFirstMatch(q, LAMBDA e : e.pk = v)

\* on_finalize_vote hands the finalized block to the executor.
StartBlock(v) ==
    /\ phase = "idle"
    /\ phase' = "evidence"
    /\ view' = v
    /\ txs' = 0
    /\ UNCHANGED <<registry, funds, known, failures>>

\* Wrong variant: the activation queue is not searched.
SlashEquivocationActiveOnly(o) ==
    /\ phase = "evidence"
    /\ stakes' = [stakes EXCEPT ![o] = Minus(@, EquivocationSlash)]
    /\ committee' = IF stakes'[o] < MinStake THEN RemoveFirst(committee, o) ELSE committee
    /\ UNCHANGED <<pending, exiting, scores, funds, known, execution>>

\* One valid piece of evidence against o; invalid ones are skipped.
SlashEquivocation(o) ==
    /\ phase = "evidence"
    /\ stakes' = [stakes EXCEPT ![o] = Minus(@, EquivocationSlash)]
    /\ IF stakes'[o] < MinStake
       THEN /\ pending' = Dequeue(pending, o)
            /\ committee' = RemoveFirst(committee, o)
       ELSE UNCHANGED <<pending, committee>>
    /\ UNCHANGED <<exiting, scores, funds, known, execution>>

\* The leader the registry, as it is now, has for the view before the block's.
FailedLeader == committee[((view - 1) % Len(committee)) + 1]

\* Wrong variant: the leader is removed and keeps its score.
PenalizeKeepsScore(s) ==
    LET f == FailedLeader
        score == s[f] + 1
    IN  /\ stakes' = [stakes EXCEPT ![f] = Minus(@, LivenessPenalty)]
        /\ scores' = [s EXCEPT ![f] = score]
        /\ committee' = IF score > MaxScore THEN RemoveFirst(committee, f) ELSE committee

\* The failed leader loses stake, and its seat once its score is too high.
Penalize(s) ==
    LET f == FailedLeader
        score == s[f] + 1
    IN  /\ stakes' = [stakes EXCEPT ![f] = Minus(@, LivenessPenalty)]
        /\ scores' = [s EXCEPT ![f] = IF score > MaxScore THEN 0 ELSE score]
        /\ committee' = IF score > MaxScore THEN RemoveFirst(committee, f) ELSE committee

\* The author is rewarded; if the justify QC is one for a timeout, the failed
\* leader is penalized.
ProcessLiveness(author, timedOut) ==
    /\ phase = "evidence"
    /\ phase' = "payload"
    /\ LET rewarded == [scores EXCEPT ![author] = Minus(@, 1)]
       IN  IF timedOut /\ view > 1 /\ committee # <<>>
           THEN Penalize(rewarded)
           ELSE scores' = rewarded /\ UNCHANGED <<stakes, committee>>
    /\ UNCHANGED <<pending, exiting, funds, known, view, txs, failures>>
-----------------------------------------------------------------------------
(***************************************************************************)
(* Execution of a block: its transactions.                                 *)
(***************************************************************************)
NextTx ==
    /\ phase = "payload"
    /\ txs < MaxTxs
    /\ txs' = txs + 1
    /\ UNCHANGED <<known, phase, view, failures>>

\* Wrong variant: the released funds stay on the books.
PayTwice(a, x, l, r) ==
    /\ a \in accounts /\ balance[a] >= x
    /\ balance' = [balance EXCEPT ![a] = (@ + r - x) % Word]
    /\ stakes' = [stakes EXCEPT ![a] = (@ + l) % Word]
    /\ overflowed' = (overflowed \/ balance[a] + r >= Word \/ stakes[a] + l >= Word)
    /\ UNCHANGED accounts

\* A call of the system contract: the sender a pays x, which nobody receives;
\* l of its funds are locked, r of them released.  A sender without an account
\* makes the call panic: that is a Restart.
Pay(a, x, l, r) ==
    /\ a \in accounts /\ balance[a] >= x
    /\ balance' = [balance EXCEPT ![a] = (@ + r - x) % Word]
    /\ stakes' = [stakes EXCEPT ![a] = (@ - r + l) % Word]
    /\ overflowed' = (overflowed \/ balance[a] + r >= Word \/ stakes[a] + l >= Word)
    /\ UNCHANGED accounts

\* a waits for its seat, unless it has one or is waiting already.
Enqueue(a) ==
    pending' = IF Contains(committee, a) \/ IsPending(a) THEN pending
               ELSE Append(pending, [pk |-> a, at |-> view + Delay])

Stake(a, x) ==
    /\ NextTx
    /\ x >= MinStake
    /\ Pay(a, x, x, 0)
    /\ Enqueue(a)
    /\ UNCHANGED <<committee, exiting, scores>>

Unstake(a, x) ==
    /\ NextTx
    /\ Contains(committee, a)
    /\ Pay(a, x, 0, 0)
    /\ exiting' = Append(exiting, [pk |-> a, at |-> view + Delay])
    /\ UNCHANGED <<committee, pending, scores>>

CanWithdraw(a) ==
    /\ ~Contains(committee, a) /\ ~IsPending(a) /\ ~IsExiting(a)
    /\ stakes[a] > 0

\* The whole stake is refunded.
Withdraw(a, x) ==
    /\ NextTx
    /\ CanWithdraw(a)
    /\ Pay(a, x, 0, stakes[a])
    /\ UNCHANGED <<committee, pending, exiting, scores>>

\* A call that changes nothing but is paid for: a stake that is too low, an
\* unstake or withdraw that is refused, an unknown function.
IdleCall(a, x) ==
    /\ NextTx
    /\ Pay(a, x, 0, 0)
    /\ UNCHANGED <<committee, pending, exiting, scores>>

\* A value transfer that the EVM accepts; fees are left out.
CanTransfer(a, b, x) ==
    a # b /\ a \in accounts /\ balance[a] >= x /\ balance[b] + x < Word

\* Both accounts are committed; b's comes into being.
Transfer(a, b, x) ==
    /\ NextTx
    /\ CanTransfer(a, b, x)
    /\ balance' = [balance EXCEPT ![a] = @ - x, ![b] = @ + x]
    /\ accounts' = accounts \cup {b}
    /\ UNCHANGED <<registry, overflowed>>
-----------------------------------------------------------------------------
(***************************************************************************)
(* Execution of a block: the queues, and the end.                          *)
(***************************************************************************)
KeepDue(q, e) == IF e.at <= view THEN Append(q, e) ELSE q
KeepNotDue(q, e) == IF e.at > view THEN Append(q, e) ELSE q

Due(q) == FoldLeft(KeepDue, <<>>, q)
NotDue(q) == FoldLeft(KeepNotDue, <<>>, q)

\* Wrong variant: appended without looking.
ActivateAlways(c) == FoldLeft(LAMBDA s, e : Append(s, e.pk), c, Due(pending))

Join(c, e) == IF Contains(c, e.pk) THEN c ELSE Append(c, e.pk)
Leave(c, e) == RemoveFirst(c, e.pk)

\* Due entries join the committee c, in the order of the queue, and others leave it.
Activate(c) == FoldLeft(Join, c, Due(pending))
Retire(c) == FoldLeft(Leave, c, Due(exiting))

\* The flag that decides whether the registry is saved: somebody joined or left.
Changed ==
    \/ \E i \in DOMAIN Due(pending) : ~Contains(committee, Due(pending)[i].pk)
    \/ \E i \in DOMAIN Due(exiting) : Contains(Activate(committee), Due(exiting)[i].pk)

ProcessQueues ==
    IF Changed
    THEN /\ committee' = Retire(Activate(committee))
         /\ pending' = NotDue(pending)
         /\ exiting' = NotDue(exiting)
    ELSE UNCHANGED <<committee, pending, exiting>>

\* Wrong variant: the committee in memory is not reloaded.
EndBlockStale ==
    /\ phase = "payload"
    /\ phase' = "idle"
    /\ ProcessQueues
    /\ UNCHANGED <<stakes, scores, funds, known, view, txs, failures>>

\* execute_block returns Ok and on_finalize_vote reloads the committee.
EndBlock ==
    /\ phase = "payload"
    /\ phase' = "idle"
    /\ ProcessQueues
    /\ known' = committee'
    /\ UNCHANGED <<stakes, scores, funds, view, txs, failures>>

\* execute_block returns Err in the middle of the payload (a gas limit, a
\* sender without funds, an EVM error): logged, and nothing is undone.
FailBlock ==
    /\ phase = "payload"
    /\ failures < MaxFailures
    /\ phase' = "idle"
    /\ failures' = failures + 1
    /\ UNCHANGED <<registry, funds, known, view, txs>>

\* A crash, and the reload of SimplexState::new.  finalized_height was saved
\* before the execution began: the block is not executed again.
Restart ==
    /\ phase # "idle" => failures < MaxFailures
    /\ phase' = "idle"
    /\ known' = committee
    /\ failures' = IF phase = "idle" THEN failures ELSE failures + 1
    /\ UNCHANGED <<registry, funds, view, txs>>

\* The process dies in the middle of a transaction, and restarts.
CrashInCall ==
    /\ phase = "payload"
    /\ txs < MaxTxs
    /\ failures < MaxFailures
    /\ phase' = "idle"
    /\ known' = committee
    /\ failures' = failures + 1
    /\ UNCHANGED <<view, txs>>

\* The stake is recorded, and the sender has not paid yet.
CrashInStake(a, x) ==
    /\ CrashInCall
    /\ x >= MinStake /\ a \in accounts /\ balance[a] >= x
    /\ stakes' = [stakes EXCEPT ![a] = (@ + x) % Word]
    /\ overflowed' = (overflowed \/ stakes[a] + x >= Word)
    /\ Enqueue(a)
    /\ UNCHANGED <<committee, exiting, scores, accounts, balance>>

\* The stake is cleared, and the sender has not been credited yet.
CrashInWithdraw(a) ==
    /\ CrashInCall
    /\ a \in accounts /\ CanWithdraw(a)
    /\ stakes' = [stakes EXCEPT ![a] = 0]
    /\ UNCHANGED <<committee, pending, exiting, scores, funds>>

\* Only one of the two accounts is committed: the map they are in has no order.
CrashInTransfer(a, b, x) ==
    /\ CrashInCall
    /\ CanTransfer(a, b, x)
    /\ \/ balance' = [balance EXCEPT ![a] = @ - x] /\ UNCHANGED accounts
       \/ balance' = [balance EXCEPT ![b] = @ + x] /\ accounts' = accounts \cup {b}
    /\ UNCHANGED <<registry, overflowed>>

\* persist_state, in any handler that runs between two blocks.
PersistState ==
    /\ phase = "idle"
    /\ committee' = known
    /\ UNCHANGED <<pending, exiting, stakes, scores, funds, known, execution>>

Tx ==
    \E a \in Validator, x \in Amount :
        \/ Stake(a, x)
        \/ Unstake(a, x)
        \/ Withdraw(a, x)
        \/ IdleCall(a, x)
        \/ \E b \in Validator : Transfer(a, b, x)

Next ==
    \/ \E v \in (view + 1) .. MaxView : StartBlock(v)
    \/ \E o \in Validator : SlashEquivocation(o)
    \/ \E author \in Validator, timedOut \in BOOLEAN : ProcessLiveness(author, timedOut)
    \/ Tx
    \/ EndBlock
    \/ FailBlock
    \/ Restart
    \/ \E a \in Validator, x \in Amount : CrashInStake(a, x)
    \/ \E a \in Validator : CrashInWithdraw(a)
    \/ \E a, b \in Validator, x \in Amount : CrashInTransfer(a, b, x)
    \/ PersistState

Spec == Init /\ [][Next]_vars
-----------------------------------------------------------------------------
(***************************************************************************)
(* Properties                                                              *)
(***************************************************************************)
\* No validator has two seats or waits twice, although persist_state may bring
\* back a member that is waiting again: leaders are seats, quorums count them.
SeatsDistinct ==
    /\ IsInjective(committee) /\ IsInjective(known)
    /\ IsInjective([i \in DOMAIN pending |-> pending[i].pk])

Total == SumFunction(balance) + SumFunction(stakes)

\* Free and locked funds together never grow: no sequence of stakes, slashes,
\* exits and withdrawals refunds more than was locked.  An execution that is cut
\* short, between two writes of one transaction, creates no more than the value
\* that this transaction carries.
FundsNeverGrow ==
    [][\E x \in IF failures' = failures THEN {0} ELSE Amount \cup {0} :
           Total' <= Total + x]_vars

\* What runs between two blocks takes no seat away: whoever the last blocks gave
\* one is in the copy that persist_state writes back, also after executions that
\* failed half way and left this copy stale, and after restarts.
WriteBackKeepsSeats ==
    [][phase = "idle" => \A v \in Validator : Contains(committee, v) => Contains(committee', v)]_vars

\* Without failed executions, whoever waits for activation is not active and
\* still has the stake that is required, after any slashing; unless a sum of
\* funds has wrapped around (the genesis account alone has 2^256 - 1).
PendingFunded ==
    failures = 0 /\ ~overflowed =>
        \A i \in DOMAIN pending :
            /\ ~Contains(committee, pending[i].pk)
            /\ stakes[pending[i].pk] >= MinStake

(***************************************************************************)
(* What a comment says and the code does not keep.                         *)
(***************************************************************************)
\* vm.rs:196, "Process Queues (End of Block)", vm.rs:218, "Process Exiting ->
\* Removed": once a block is executed no entry is left that was due.
QueuesProcessed ==
    failures = 0 /\ phase = "idle" =>
        \A i \in DOMAIN exiting : exiting[i].at > view
=============================================================================
