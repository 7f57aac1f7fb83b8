------------------------------ MODULE Simplex ------------------------------
(***************************************************************************)
(* The Simplex consensus state machine of one Ockham node                  *)
(* (src/consensus.rs), run by the event loop of src/main.rs on every node  *)
(* of a network with a fixed committee.                                    *)
(*                                                                         *)
(* A node handles one event at a time.  A handler returns a vector of      *)
(* actions; the loop pops them from the END of the vector, broadcasts      *)
(* each, and hands an own vote back to on_vote, whose actions are pushed   *)
(* on the same vector.  queue[n] is that vector as a stack, top first, so  *)
(* the actions a handler returns are written here in the order in which    *)
(* they are popped: the reverse of the order of the source.                *)
(*                                                                         *)
(* The data is abstracted to what consensus tells apart.  A block is named *)
(* by its view and a tag that stands for the rest of its contents          *)
(* (transactions, signer order, roots); header holds the fields consensus  *)
(* reads.  Signatures are always valid, because every modelled node runs   *)
(* this code: faults are crashes and a network that delays, reorders and   *)
(* loses.                                                                  *)
(***************************************************************************)
EXTENDS Integers, FiniteSets, Sequences

CONSTANTS
    N,             \* size of the committee (public keys of ids 0 .. N-1)
    Learners,      \* number of further nodes that run the same code
    MaxView,       \* bound: no node proposes or times out in a later view
    Tag,           \* what tells two blocks of one view apart
    MaxCrashes,    \* bound: crashes and restarts in a behaviour
    ExecOutcomes,  \* possible results of Executor::execute_block
    Zero,          \* Hash::default(), the hash of the dummy block
    Genesis,       \* the hash of the genesis block
    None           \* the absent value of an Option

Committee == 0 .. (N - 1)
Node == 0 .. (N + Learners - 1)

View == 1 .. MaxView                \* views in which votes are cast
Height == 0 .. MaxView              \* views of QCs; 0 is that of genesis
Block == View \X Tag
Hash == Block \cup {Genesis}

ASSUME CommitteeAssumption == N \in Nat \ {0} /\ Learners \in Nat
ASSUME BoundsAssumption == MaxView \in Nat \ {0} /\ MaxCrashes \in Nat
ASSUME ExecAssumption == ExecOutcomes \subseteq BOOLEAN /\ TRUE \in ExecOutcomes
ASSUME HashAssumption ==
    /\ Zero \notin Hash \cup {None}
    /\ None \notin Hash
    /\ Genesis \notin Block

(***************************************************************************)
(* Messages, which are also the items of the action queue.                 *)
(***************************************************************************)
Vote == [type : {"vote"}, vtype : {"Notarize", "Finalize"}, view : View,
         hash : Block \cup {Zero}, author : Node]

Evidence == [type : {"evidence"}, author : Node, view : View,
             vote_a : Block, vote_b : Block]

BlockMessage == [type : {"proposal", "response", "request"}, hash : Block]

Message == Vote \cup Evidence \cup BlockMessage

\* What the action stack holds: messages to broadcast, and the orphans that
\* on_block_response has still to process (DrainOrphan).
Drain == [type : {"drain"}, hash : Block]
Item == Message \cup Drain

Header == [parent : Hash, justify : Block \cup {Zero}, evidence : SUBSET Evidence]

ASSUME HeaderAssumption == None \notin Header

VARIABLES
    \* in memory, lost in a crash
    st,               \* consensus fields of SimplexState
    votes_received,   \* Notarize votes: view -> author -> hash
    finalize_votes,   \* Finalize votes: view -> authors
    orphans,          \* blocks buffered until their parent is stored
    evidence_pool,    \* equivocation evidence to be included in a block
    mode,             \* "off", "booting" (try_propose's actions), "on"
    queue,            \* the event loop's action stack
    \* durable
    saved,            \* the persisted ConsensusState
    blocks,           \* hashes of the blocks in storage
    qcs,              \* view -> hash certified by the stored QC
    committed,        \* blocks executed against the persistent state
    \* the world outside the node
    inbox,            \* messages the network may still deliver to a node
    header,           \* contents of every block ever created
    cast,             \* history: every vote ever broadcast
    crashes           \* crashes so far

memory == <<st, votes_received, finalize_votes, orphans, evidence_pool, mode, queue>>
durable == <<saved, blocks, qcs, committed>>
world == <<inbox, header, cast, crashes>>
vars == <<memory, durable, world>>

ConsensusState ==
    [view : View \cup {MaxView + 1}, finalized_height : Height,
     preferred_block : Hash, preferred_view : Height, last_voted_view : Height]

\* The state the consensus handlers touch.
HandlerTypeOK ==
    /\ st \in [Node -> ConsensusState]
    /\ votes_received \in [Node -> [View -> [Node -> Block \cup {Zero, None}]]]
    /\ finalize_votes \in [Node -> [View -> SUBSET Node]]
    /\ orphans \in [Node -> SUBSET Block]
    /\ evidence_pool \in [Node -> SUBSET Evidence]
    /\ queue \in [Node -> Seq(Item)]
    /\ saved \in [Node -> ConsensusState]
    /\ blocks \in [Node -> SUBSET Hash]
    /\ qcs \in [Node -> [Height -> Block \cup {Zero, None}]]
    /\ committed \in [Node -> SUBSET Block]
    /\ header \in [Block -> Header \cup {None}]

\* The state of the event loops and of the network.
LoopTypeOK ==
    /\ mode \in [Node -> {"off", "booting", "on"}]
    /\ inbox \in [Node -> SUBSET Message]
    /\ cast \in SUBSET Vote
    /\ crashes \in 0 .. MaxCrashes

\* Type invariant.
TypeOK == HandlerTypeOK /\ LoopTypeOK
-----------------------------------------------------------------------------
(***************************************************************************)
(* Helpers of SimplexState.                                                *)
(***************************************************************************)
Leader(v) == v % N

\* Wrong variant: two thirds instead of more than two thirds.
ThresholdTwoThirds == (N * 2) \div 3

Threshold == (N * 2) \div 3 + 1

create_vote(n, v, h, t) ==
    [type |-> "vote", vtype |-> t, view |-> v, hash |-> h, author |-> n]

\* The Finalize vote for a block's justify QC, if that QC is not genesis'.
FinalizeJustify(n, v, h) ==
    IF v > 0 THEN <<create_vote(n, v, h, "Finalize")>> ELSE <<>>

UpdatePreferredChain(s, v, h) ==
    IF h # Zero /\ v >= s.preferred_view
    THEN [s EXCEPT !.preferred_view = v, !.preferred_block = h]
    ELSE s

\* Wrong variant: the fields are not saved.
PersistStateLost(n, s) ==
    /\ st' = [st EXCEPT ![n] = s]
    /\ UNCHANGED saved

\* Every assignment to a consensus field is followed by persist_state.
PersistState(n, s) ==
    /\ st' = [st EXCEPT ![n] = s]
    /\ saved' = [saved EXCEPT ![n] = s]

\* A dummy QC extends the last certified block, any other QC its own block.
ParentFor(s, h) == IF h = Zero THEN s.preferred_block ELSE h

\* Node n creates, executes and stores block b on top of the QC <<v, h>>.
\* b is a fresh name, or that of an earlier block with equal contents.
CreateProposal(n, b, v, parent, h) ==
    LET hd == [parent |-> parent, justify |-> h, evidence |-> evidence_pool[n]]
    IN  /\ b[1] = v
        /\ header[b] \in {None, hd}
        /\ header' = [header EXCEPT ![b] = hd]
        /\ blocks' = [blocks EXCEPT ![n] = @ \cup {b}]

CanPropose(n, v, parent) ==
    /\ v =< MaxView
    /\ Leader(v) = n
    /\ parent \in blocks[n]
-----------------------------------------------------------------------------
Init ==
    LET genesis == [view |-> 1, finalized_height |-> 0, preferred_block |-> Genesis,
                    preferred_view |-> 0, last_voted_view |-> 0]
    IN  /\ st = [n \in Node |-> genesis]
        /\ saved = [n \in Node |-> genesis]
        /\ votes_received = [n \in Node |-> [v \in View |-> [a \in Node |-> None]]]
        /\ finalize_votes = [n \in Node |-> [v \in View |-> {}]]
        /\ orphans = [n \in Node |-> {}]
        /\ evidence_pool = [n \in Node |-> {}]
        /\ mode = [n \in Node |-> "off"]
        /\ queue = [n \in Node |-> <<>>]
        /\ blocks = [n \in Node |-> {Genesis}]
        /\ qcs = [n \in Node |-> [v \in Height |-> IF v = 0 THEN Zero ELSE None]]
        /\ committed = [n \in Node |-> {}]
        /\ inbox = [n \in Node |-> {}]
        /\ header = [b \in Block |-> None]
        /\ cast = {}
        /\ crashes = 0
-----------------------------------------------------------------------------
(***************************************************************************)
(* on_vote, for a Notarize vote m: handled by n with rest left on the      *)
(* stack.                                                                  *)
(***************************************************************************)
\* The view's votes once m is inserted: a later vote replaces an earlier one.
Tally(n, m) == [votes_received[n][m.view] EXCEPT ![m.author] = m.hash]

\* Wrong variant: counts the votes of the view, whatever their hash.
CountForView(n, m) == Cardinality({a \in Node : Tally(n, m)[a] # None})

CountForBlock(n, m) == Cardinality({a \in Node : Tally(n, m)[a] = m.hash})

\* Wrong variant: a timeout vote next to a block vote is equivocation.
IsEquivocationWithDummy(n, m) ==
    votes_received[n][m.view][m.author] \notin {None, m.hash}

IsEquivocation(n, m) ==
    LET existing == votes_received[n][m.view][m.author]
    IN  /\ existing \notin {None, Zero, m.hash}
        /\ m.hash # Zero

\* What add_evidence keeps.  Its checks that both votes have one author and one
\* view are part of the record, which has one of each.
IsNewEvidence(n, e) == e \notin evidence_pool[n] /\ e.vote_a # e.vote_b

AddEvidence(n, e) ==
    evidence_pool' = [evidence_pool EXCEPT ![n] =
                         IF IsNewEvidence(n, e) THEN @ \cup {e} ELSE @]

OnEquivocation(n, m, rest) ==
    LET e == [type |-> "evidence", author |-> m.author, view |-> m.view,
              vote_a |-> votes_received[n][m.view][m.author], vote_b |-> m.hash]
    IN  /\ IsEquivocation(n, m)
        /\ AddEvidence(n, e)
        /\ queue' = [queue EXCEPT ![n] = IF IsNewEvidence(n, e) THEN <<e>> \o rest
                                         ELSE rest]
        /\ UNCHANGED <<st, votes_received, finalize_votes, orphans, durable, header>>

\* Wrong variant: storage is not asked for an earlier QC of the view.
FormsQCAgain(n, m) == CountForBlock(n, m) >= Threshold

FormsQC(n, m) ==
    /\ CountForBlock(n, m) >= Threshold
    /\ qcs[n][m.view] = None

RecordVote(n, m) ==
    /\ ~IsEquivocation(n, m)
    /\ votes_received' = [votes_received EXCEPT ![n][m.view] = Tally(n, m)]

OnVoteCounted(n, m, rest) ==
    /\ RecordVote(n, m)
    /\ ~FormsQC(n, m)
    /\ queue' = [queue EXCEPT ![n] = rest]
    /\ UNCHANGED <<st, finalize_votes, orphans, evidence_pool, durable, header>>

\* Wrong variant: skips a view.
AfterQCSkips(n, m) ==
    LET s == UpdatePreferredChain(st[n], m.view, m.hash)
    IN  IF m.view + 1 > s.view THEN [s EXCEPT !.view = m.view + 2] ELSE s

\* The fields of n after it has stored the QC: preferred chain, next view.
AfterQC(n, m) ==
    LET s == UpdatePreferredChain(st[n], m.view, m.hash)
    IN  IF m.view + 1 > s.view THEN [s EXCEPT !.view = m.view + 1] ELSE s

SaveQC(n, m) == qcs' = [qcs EXCEPT ![n][m.view] = m.hash]

\* Wrong variant: no Finalize vote for the certified view.
OnVoteQCSilent(n, m, rest) ==
    /\ RecordVote(n, m)
    /\ FormsQC(n, m)
    /\ ~CanPropose(n, m.view + 1, ParentFor(AfterQC(n, m), m.hash))
    /\ SaveQC(n, m)
    /\ PersistState(n, AfterQC(n, m))
    /\ queue' = [queue EXCEPT ![n] = rest]
    /\ UNCHANGED <<finalize_votes, orphans, evidence_pool, blocks, committed, header>>

\* A QC forms and n does not propose on it: it is not the next leader, or
\* lacks the parent, or the execution of its block fails.
OnVoteQC(n, m, rest) ==
    /\ RecordVote(n, m)
    /\ FormsQC(n, m)
    /\ CanPropose(n, m.view + 1, ParentFor(AfterQC(n, m), m.hash))
          => FALSE \in ExecOutcomes
    /\ SaveQC(n, m)
    /\ PersistState(n, AfterQC(n, m))
    /\ queue' = [queue EXCEPT ![n] =
                    <<create_vote(n, m.view, m.hash, "Finalize")>> \o rest]
    /\ UNCHANGED <<finalize_votes, orphans, evidence_pool, blocks, committed, header>>

\* A QC forms and n, the leader of the next view, proposes on it.
OnVoteQCPropose(n, m, rest) ==
    /\ RecordVote(n, m)
    /\ FormsQC(n, m)
    /\ LET v == m.view + 1
           s == AfterQC(n, m)
           parent == ParentFor(s, m.hash)
       IN  /\ CanPropose(n, v, parent)
           /\ SaveQC(n, m)
           /\ PersistState(n, [s EXCEPT !.last_voted_view = v])
           /\ \E b \in Block :
                 /\ CreateProposal(n, b, v, parent, m.hash)
                 /\ queue' = [queue EXCEPT ![n] =
                        FinalizeJustify(n, m.view, m.hash)
                        \o <<create_vote(n, v, b, "Notarize"),
                             [type |-> "proposal", hash |-> b],
                             create_vote(n, m.view, m.hash, "Finalize")>>
                        \o rest]
    /\ UNCHANGED <<finalize_votes, orphans, evidence_pool, committed>>

(***************************************************************************)
(* on_finalize_vote: votes are counted per view, whatever their hash.      *)
(***************************************************************************)
FinalizeTally(n, m) == finalize_votes[n][m.view] \cup {m.author}

\* Wrong variant: commits everything in storage.
CommitStored(n, h) == committed' = [committed EXCEPT ![n] = blocks[n] \ {Genesis}]

\* The block is executed against the persistent state if it is stored (and
\* its execution succeeds); a dummy or a missing block is skipped.
CommitFinalized(n, h) ==
    \/ /\ h \in blocks[n]
       /\ committed' = [committed EXCEPT ![n] = @ \cup {h}]
    \/ /\ h \in blocks[n] => FALSE \in ExecOutcomes
       /\ UNCHANGED committed

\* Wrong variant: one more than a third of the Finalize votes is enough.
OnFinalizeVoteMinority(n, m, rest) ==
    /\ finalize_votes' = [finalize_votes EXCEPT ![n][m.view] = FinalizeTally(n, m)]
    /\ IF /\ Cardinality(FinalizeTally(n, m)) >= N \div 3 + 1
          /\ m.view > st[n].finalized_height
       THEN /\ PersistState(n, [st[n] EXCEPT !.finalized_height = m.view])
            /\ CommitFinalized(n, m.hash)
       ELSE UNCHANGED <<st, saved, committed>>
    /\ queue' = [queue EXCEPT ![n] = rest]
    /\ UNCHANGED <<votes_received, orphans, evidence_pool, blocks, qcs, header>>

OnFinalizeVote(n, m, rest) ==
    /\ finalize_votes' = [finalize_votes EXCEPT ![n][m.view] = FinalizeTally(n, m)]
    /\ IF /\ Cardinality(FinalizeTally(n, m)) >= Threshold
          /\ m.view > st[n].finalized_height
       THEN /\ PersistState(n, [st[n] EXCEPT !.finalized_height = m.view])
            /\ CommitFinalized(n, m.hash)
       ELSE UNCHANGED <<st, saved, committed>>
    /\ queue' = [queue EXCEPT ![n] = rest]
    /\ UNCHANGED <<votes_received, orphans, evidence_pool, blocks, qcs, header>>

OnVote(n, m, rest) ==
    \/ /\ m.vtype = "Finalize"
       /\ OnFinalizeVote(n, m, rest)
    \/ /\ m.vtype = "Notarize"
       /\ \/ OnEquivocation(n, m, rest)
          \/ OnVoteCounted(n, m, rest)
          \/ OnVoteQC(n, m, rest)
          \/ OnVoteQCPropose(n, m, rest)
-----------------------------------------------------------------------------
(***************************************************************************)
(* validate_and_store_block.  The committee is fixed here, so the check of *)
(* the committee hash succeeds; execution is one of ExecOutcomes.          *)
(***************************************************************************)
\* Wrong variant: the parent is not looked up.
OrphanedNever(n, b) == b \notin blocks[n] /\ header[b].parent = Zero

Orphaned(n, b) ==
    /\ b \notin blocks[n]
    /\ header[b].parent \notin blocks[n]

BufferOrphan(n, b, rest) ==
    /\ Orphaned(n, b)
    /\ orphans' = [orphans EXCEPT ![n] = @ \cup {b}]
    /\ queue' = [queue EXCEPT ![n] =
                    <<[type |-> "request", hash |-> header[b].parent]>> \o rest]
    /\ UNCHANGED <<st, saved, blocks, evidence_pool>>

\* A block that is not yet stored fails to execute: the handler returns Err.
RejectBlock(n, b, rest) ==
    /\ b \notin blocks[n] /\ ~Orphaned(n, b)
    /\ FALSE \in ExecOutcomes
    /\ queue' = [queue EXCEPT ![n] = rest]
    /\ UNCHANGED <<st, saved, blocks, evidence_pool, orphans>>

\* Wrong variant: prefers the new block instead of the one its QC certifies.
AfterStoreOptimistic(n, b) ==
    IF b \in blocks[n] THEN st[n] ELSE UpdatePreferredChain(st[n], b[1], b)

\* b is stored, now or already; the fields of n once it is.
AfterStore(n, b) ==
    IF b \in blocks[n] THEN st[n]
    ELSE UpdatePreferredChain(st[n], b[1] - 1, header[b].justify)

\* Wrong variant: the block is validated and not saved.
StoreBlockForgotten(n, b) ==
    /\ ~Orphaned(n, b)
    /\ UNCHANGED <<blocks, evidence_pool>>

StoreBlock(n, b) ==
    /\ ~Orphaned(n, b)
    /\ blocks' = [blocks EXCEPT ![n] = @ \cup {b}]
    /\ evidence_pool' = [evidence_pool EXCEPT ![n] =
                            IF b \in blocks[n] THEN @ ELSE @ \ header[b].evidence]

(***************************************************************************)
(* on_proposal                                                             *)
(***************************************************************************)
ProposalVotes(n, b) ==
    FinalizeJustify(n, b[1] - 1, header[b].justify)
    \o <<create_vote(n, b[1], b, "Notarize")>>

OnProposalStored(n, b, rest) ==
    LET s == [AfterStore(n, b) EXCEPT !.view = b[1]]
    IN  /\ StoreBlock(n, b)
        /\ IF b[1] =< s.last_voted_view
           THEN /\ PersistState(n, s)
                /\ queue' = [queue EXCEPT ![n] = rest]
           ELSE /\ PersistState(n, [s EXCEPT !.last_voted_view = b[1]])
                /\ queue' = [queue EXCEPT ![n] = ProposalVotes(n, b) \o rest]
        /\ UNCHANGED orphans

OnProposal(n, b, rest) ==
    /\ \/ /\ b[1] < st[n].view
          /\ queue' = [queue EXCEPT ![n] = rest]
          /\ UNCHANGED <<st, saved, blocks, evidence_pool, orphans>>
       \/ /\ b[1] >= st[n].view
          /\ \/ BufferOrphan(n, b, rest)
             \/ RejectBlock(n, b, rest)
             \/ OnProposalStored(n, b, rest)
    /\ UNCHANGED <<votes_received, finalize_votes, qcs, committed, header>>

(***************************************************************************)
(* on_block_response.  The recursion over the orphans of a stored block is *)
(* a "drain" item left on the stack: it is worked off before anything else *)
(* the node does.                                                          *)
(***************************************************************************)
Waiting(n, b, pending) == {o \in pending : header[o].parent = b}

OnResponseStored(n, b, pending, rest) ==
    LET s == AfterStore(n, b)
    IN  /\ StoreBlock(n, b)
        /\ PersistState(n, IF b[1] >= s.view THEN [s EXCEPT !.view = b[1]] ELSE s)
        /\ orphans' = [orphans EXCEPT ![n] = pending]
        /\ queue' = [queue EXCEPT ![n] =
                        IF Waiting(n, b, pending) = {} THEN rest
                        ELSE <<[type |-> "drain", hash |-> b]>> \o rest]

OnBlockResponse(n, b, rest) ==
    /\ \/ BufferOrphan(n, b, rest)
       \/ RejectBlock(n, b, rest)
       \/ OnResponseStored(n, b, orphans[n], rest)
    /\ UNCHANGED <<votes_received, finalize_votes, qcs, committed, header>>

\* One of the orphans that wait for b is processed.
DrainOrphan(n, b, rest) ==
    /\ \E o \in Waiting(n, b, orphans[n]) :
          LET pending == orphans[n] \ {o}
              left == IF Waiting(n, b, pending) = {} THEN rest
                      ELSE <<[type |-> "drain", hash |-> b]>> \o rest
          IN  \/ OnResponseStored(n, o, pending, left)
              \/ /\ o \notin blocks[n]
                 /\ FALSE \in ExecOutcomes
                 /\ orphans' = [orphans EXCEPT ![n] = pending]
                 /\ queue' = [queue EXCEPT ![n] = left]
                 /\ UNCHANGED <<st, saved, blocks, evidence_pool>>
    /\ UNCHANGED <<votes_received, finalize_votes, qcs, committed, header>>

(***************************************************************************)
(* on_block_request, and evidence from the network                         *)
(***************************************************************************)
OnBlockRequest(n, h, rest) ==
    /\ queue' = [queue EXCEPT ![n] =
                    IF h \in blocks[n]
                    THEN <<[type |-> "response", hash |-> h]>> \o rest
                    ELSE rest]
    /\ UNCHANGED <<st, votes_received, finalize_votes, orphans, evidence_pool,
                   durable, header>>

OnEvidence(n, e, rest) ==
    /\ AddEvidence(n, e)
    /\ queue' = [queue EXCEPT ![n] = rest]
    /\ UNCHANGED <<st, votes_received, finalize_votes, orphans, durable, header>>
-----------------------------------------------------------------------------
(***************************************************************************)
(* The event loop of main.rs.                                              *)
(***************************************************************************)
Idle(n) == mode[n] = "on" /\ queue[n] = <<>>

\* A network event: the network delivers one message to n.
Receive(n, m) ==
    /\ Idle(n)
    /\ m \in inbox[n]
    /\ inbox' = [inbox EXCEPT ![n] = @ \ {m}]
    /\ \/ m.type = "vote" /\ OnVote(n, m, <<>>)
       \/ m.type = "proposal" /\ OnProposal(n, m.hash, <<>>)
       \/ m.type = "response" /\ OnBlockResponse(n, m.hash, <<>>)
       \/ m.type = "request" /\ OnBlockRequest(n, m.hash, <<>>)
       \/ m.type = "evidence" /\ OnEvidence(n, m, <<>>)
    /\ UNCHANGED <<mode, cast, crashes>>

\* Gossip: every other node may get the message, later, earlier or never.
Broadcast(n, m) ==
    /\ inbox' = [p \in Node |-> IF p = n THEN inbox[p] ELSE inbox[p] \cup {m}]
    /\ cast' = IF m.type = "vote" THEN cast \cup {m} ELSE cast

\* The loop pops an action.  An own vote is looped back into on_vote.
PopVote(n) ==
    /\ mode[n] = "on"
    /\ queue[n] # <<>>
    /\ LET m == Head(queue[n])
       IN  /\ m.type = "vote"
           /\ Broadcast(n, m)
           /\ OnVote(n, m, Tail(queue[n]))
    /\ UNCHANGED <<mode, crashes>>

PopMessage(n) ==
    /\ mode[n] = "on"
    /\ queue[n] # <<>>
    /\ LET m == Head(queue[n])
       IN  /\ m.type \in {"proposal", "response", "request", "evidence"}
           /\ Broadcast(n, m)
    /\ queue' = [queue EXCEPT ![n] = Tail(@)]
    /\ UNCHANGED <<st, votes_received, finalize_votes, orphans, evidence_pool, mode,
                   durable, header, crashes>>

PopDrain(n) ==
    /\ mode[n] = "on"
    /\ queue[n] # <<>>
    /\ Head(queue[n]).type = "drain"
    /\ DrainOrphan(n, Head(queue[n]).hash, Tail(queue[n]))
    /\ UNCHANGED <<mode, world>>

\* The first PeerConnected starts consensus: try_propose, whose actions are
\* broadcast without looping the votes back (mode "booting").
TryPropose(n) ==
    LET v == st[n].view
        h == qcs[n][v - 1]
    IN  /\ h # None
        /\ CanPropose(n, v, ParentFor(st[n], h))
        /\ \E b \in Block :
              /\ CreateProposal(n, b, v, ParentFor(st[n], h), h)
              /\ queue' = [queue EXCEPT ![n] =
                     FinalizeJustify(n, v - 1, h)
                     \o <<create_vote(n, v, b, "Notarize"),
                          [type |-> "proposal", hash |-> b]>>]
        /\ evidence_pool' = [evidence_pool EXCEPT ![n] = {}]

PeerConnectedPropose(n) ==
    /\ mode[n] = "off"
    /\ TryPropose(n)
    /\ mode' = [mode EXCEPT ![n] = "booting"]
    /\ UNCHANGED <<st, votes_received, finalize_votes, orphans,
                   saved, qcs, committed, inbox, cast, crashes>>

PeerConnected(n) ==
    /\ mode[n] = "off"
    /\ LET v == st[n].view
           h == qcs[n][v - 1]
       IN  h # None /\ CanPropose(n, v, ParentFor(st[n], h)) => FALSE \in ExecOutcomes
    /\ mode' = [mode EXCEPT ![n] = "on"]
    /\ UNCHANGED <<st, votes_received, finalize_votes, orphans, evidence_pool, queue,
                   durable, world>>

PopBooting(n) ==
    /\ mode[n] = "booting"
    /\ queue[n] # <<>>
    /\ LET m == Head(queue[n])
       IN  m.type \in {"vote", "proposal"} /\ Broadcast(n, m)
    /\ queue' = [queue EXCEPT ![n] = Tail(@)]
    /\ mode' = [mode EXCEPT ![n] = IF Tail(queue[n]) = <<>> THEN "on" ELSE @]
    /\ UNCHANGED <<st, votes_received, finalize_votes, orphans, evidence_pool,
                   durable, header, crashes>>

\* Wrong variant: the timer moves the node to the next view.
TimeoutAdvances(n) ==
    /\ Idle(n)
    /\ st[n].view =< MaxView
    /\ queue' = [queue EXCEPT ![n] = <<create_vote(n, st[n].view, Zero, "Notarize")>>]
    /\ PersistState(n, [st[n] EXCEPT !.view = @ + 1])
    /\ UNCHANGED <<votes_received, finalize_votes, orphans, evidence_pool, mode,
                   blocks, qcs, committed, world>>

\* The view timer ticks: on_timeout(current_view) votes for the dummy block.
Timeout(n) ==
    /\ Idle(n)
    /\ st[n].view =< MaxView
    /\ queue' = [queue EXCEPT ![n] = <<create_vote(n, st[n].view, Zero, "Notarize")>>]
    /\ UNCHANGED <<st, votes_received, finalize_votes, orphans, evidence_pool, mode,
                   durable, world>>

\* The process dies and SimplexState::new reloads the fields s that were
\* persisted last.
Reload(n, s) ==
    /\ crashes < MaxCrashes
    /\ crashes' = crashes + 1
    /\ PersistState(n, s)
    /\ votes_received' = [votes_received EXCEPT ![n] = [v \in View |-> [a \in Node |-> None]]]
    /\ finalize_votes' = [finalize_votes EXCEPT ![n] = [v \in View |-> {}]]
    /\ orphans' = [orphans EXCEPT ![n] = {}]
    /\ evidence_pool' = [evidence_pool EXCEPT ![n] = {}]
    /\ mode' = [mode EXCEPT ![n] = "off"]
    /\ queue' = [queue EXCEPT ![n] = <<>>]

\* A crash between two steps.
Restart(n) ==
    /\ mode[n] # "off"
    /\ Reload(n, saved[n])
    /\ UNCHANGED <<blocks, qcs, committed, inbox, header, cast>>

(***************************************************************************)
(* Crashes inside a handler: each write to storage is a transaction of its *)
(* own, so any prefix of the writes of a handler may survive.              *)
(***************************************************************************)
\* on_vote: the QC, the preferred chain, the view, the block on top.
CrashInVote(n, m) ==
    LET s == AfterQC(n, m)
        parent == ParentFor(s, m.hash)
    IN  /\ m.vtype = "Notarize"
        /\ ~IsEquivocation(n, m)
        /\ FormsQC(n, m)
        /\ SaveQC(n, m)
        /\ \/ /\ \E t \in {saved[n], UpdatePreferredChain(st[n], m.view, m.hash), s} :
                    Reload(n, t)
              /\ UNCHANGED <<blocks, header>>
           \/ /\ CanPropose(n, m.view + 1, parent)
              /\ \E b \in Block : CreateProposal(n, b, m.view + 1, parent, m.hash)
              /\ Reload(n, s)
        /\ UNCHANGED committed

\* on_finalize_vote: finalized_height before the execution of the block.
CrashInFinalize(n, m) ==
    /\ m.vtype = "Finalize"
    /\ Cardinality(FinalizeTally(n, m)) >= Threshold
    /\ m.view > st[n].finalized_height
    /\ Reload(n, [st[n] EXCEPT !.finalized_height = m.view])
    /\ UNCHANGED <<blocks, qcs, committed, header>>

\* validate_and_store_block: the preferred chain, the block; on_proposal and
\* on_block_response: the view, before last_voted_view and the orphans.
CrashInStore(n, b) ==
    /\ ~Orphaned(n, b)
    /\ \/ /\ b \notin blocks[n]
          /\ Reload(n, AfterStore(n, b))
          /\ UNCHANGED blocks
       \/ /\ \E v \in {st[n].view, b[1]} :
                /\ v >= st[n].view
                /\ Reload(n, [AfterStore(n, b) EXCEPT !.view = v])
          /\ blocks' = [blocks EXCEPT ![n] = @ \cup {b}]
    /\ UNCHANGED <<qcs, committed, header>>

CrashReceiving(n, m) ==
    /\ Idle(n)
    /\ m \in inbox[n]
    /\ inbox' = [inbox EXCEPT ![n] = @ \ {m}]
    /\ \/ m.type = "vote" /\ (CrashInVote(n, m) \/ CrashInFinalize(n, m))
       \/ m.type = "proposal" /\ m.hash[1] >= st[n].view /\ CrashInStore(n, m.hash)
       \/ m.type = "response" /\ CrashInStore(n, m.hash)
    /\ UNCHANGED cast

CrashPopping(n) ==
    /\ mode[n] = "on"
    /\ queue[n] # <<>>
    /\ LET m == Head(queue[n])
       IN  \/ /\ m.type = "vote"
              /\ Broadcast(n, m)
              /\ CrashInVote(n, m) \/ CrashInFinalize(n, m)
           \/ /\ m.type = "drain"
              /\ \E o \in Waiting(n, m.hash, orphans[n]) : CrashInStore(n, o)
              /\ UNCHANGED <<inbox, cast>>

Crash(n) ==
    \/ Restart(n)
    \/ CrashPopping(n)
    \/ \E m \in inbox[n] : CrashReceiving(n, m)

\* The node works off its action stack.
Pop(n) == PopVote(n) \/ PopMessage(n) \/ PopDrain(n) \/ PopBooting(n)

\* The node starts, or takes an event from the network or an action from the
\* stack.
Step(n) ==
    \/ PeerConnectedPropose(n)
    \/ PeerConnected(n)
    \/ \E m \in inbox[n] : Receive(n, m)
    \/ Pop(n)

Next == \E n \in Node : Step(n) \/ Timeout(n) \/ Crash(n)

Spec == Init /\ [][Next]_vars

\* The loop never sleeps while it has work, and gossip delivers what was sent.
Fairness == \A n \in Node : WF_vars(Step(n))

\* Behaviours in which every message beats the 30 s view timer.
TimelyNext == \E n \in Node : Step(n)
TimelySpec == Init /\ [][TimelyNext]_vars /\ Fairness

\* Behaviours in which the timer keeps ticking, without crashes, and every
\* message sent is delivered.  Only timeout votes are sent again and again:
\* each of them, and the others together, get strong fairness.
IsTimeoutVote(m) == m.type = "vote" /\ m.vtype = "Notarize" /\ m.hash = Zero

ReceiveTimeoutVote(n, v) ==
    \E m \in inbox[n] : IsTimeoutVote(m) /\ m.view = v /\ Receive(n, m)

ReceiveOther(n) == \E m \in inbox[n] : ~IsTimeoutVote(m) /\ Receive(n, m)

TickingNext == \E n \in Node : Step(n) \/ Timeout(n)
TickingSpec ==
    /\ Init /\ [][TickingNext]_vars
    /\ \A n \in Node :
          /\ WF_vars(PeerConnectedPropose(n) \/ PeerConnected(n) \/ Pop(n))
          /\ WF_vars(Timeout(n))
          /\ SF_vars(ReceiveOther(n))
          /\ \A v \in View : SF_vars(ReceiveTimeoutVote(n, v))
-----------------------------------------------------------------------------
(***************************************************************************)
(* Properties                                                              *)
(***************************************************************************)
NotarizeVoters(v, h) == {a \in Node : create_vote(a, v, h, "Notarize") \in cast}

FinalizeVoters(v) ==
    {a \in Node : \E h \in Block \cup {Zero} : create_vote(a, v, h, "Finalize") \in cast}

\* More than two thirds of the committee's size.
Supermajority(S) == 3 * Cardinality(S) > 2 * N

Certified(v, h) == Supermajority(NotarizeVoters(v, h))

Created(b) == header[b] # None

\* Every stored QC, on every node and after any restart, is backed by Notarize
\* votes that more than two thirds of a committee's worth of nodes broadcast
\* for exactly that view and hash (on_vote's aggregation).
QCBacked ==
    \A n \in Node, v \in View : qcs[n][v] # None => Certified(v, qcs[n][v])

\* A block carries a QC for the view just before its own that is really
\* backed by votes, and extends a certified block (or genesis): what
\* try_propose and on_vote put together when they propose.
JustifyCertified ==
    \A b \in Block : Created(b) =>
        /\ b[1] > 1 => Certified(b[1] - 1, header[b].justify)
        /\ header[b].parent # Genesis => Certified(header[b].parent[1], header[b].parent)

\* The block a leader extends after a timeout is certified, in the view it is
\* preferred for (update_preferred_chain, from own QCs, blocks and restarts).
PreferredCertified ==
    \A n \in Node : st[n].preferred_block # Genesis =>
        /\ st[n].preferred_block[1] = st[n].preferred_view
        /\ Certified(st[n].preferred_view, st[n].preferred_block)

\* No node is in a view whose predecessor was not certified, however it got
\* there: by a QC of its own, a fast forward to a block, or a restart.
ViewJustified ==
    \A n \in Node : st[n].view > 1 =>
        \E h \in Block \cup {Zero} : Certified(st[n].view - 1, h)

\* A finalized view has a supermajority of Finalize votes and was certified:
\* on_finalize_vote never gets ahead of notarization.
FinalizedCertified ==
    \A n \in Node : LET v == st[n].finalized_height IN v > 0 =>
        /\ Supermajority(FinalizeVoters(v))
        /\ \E h \in Block \cup {Zero} : Certified(v, h)

\* A block executed against the persistent state was certified in its view.
CommittedCertified ==
    \A n \in Node : \A b \in committed[n] : Certified(b[1], b)

\* A stored block has its whole ancestry in storage (validate_and_store_block
\* buffers orphans, create_proposal refuses a missing parent): one step here,
\* all ancestors by following it.
AncestorsStored ==
    \A n \in Node : Genesis \in blocks[n] /\ \A b \in blocks[n] \ {Genesis} :
        Created(b) /\ header[b].parent \in blocks[n]

\* Whoever voted for a block still has it, also after a restart: a certified
\* block can be served to nodes that request it.
VotersHoldBlock ==
    \A m \in cast : m.vtype = "Notarize" /\ m.hash # Zero => m.hash \in blocks[m.author]

\* Evidence names two real blocks for which its author really voted in one
\* view: a timeout vote next to a block vote is no evidence.
EvidenceSound ==
    \A n \in Node : \A e \in evidence_pool[n] :
        /\ e.vote_a # e.vote_b /\ Zero \notin {e.vote_a, e.vote_b}
        /\ \A h \in {e.vote_a, e.vote_b} :
              create_vote(e.author, e.view, h, "Notarize") \in cast

\* Nodes that were never restarted are not accused, by anybody.
OnlyCrashesAccuse == crashes = 0 => \A n \in Node : evidence_pool[n] = {}

\* View, finalized height and preferred view never go back, across restarts.
NoRollback ==
    [][\A n \in Node :
         /\ st'[n].view >= st[n].view
         /\ st'[n].finalized_height >= st[n].finalized_height
         /\ st'[n].preferred_view >= st[n].preferred_view]_vars

\* The notary that a network of nodes implements.
Promise == INSTANCE Notary WITH
    Quorum <- {Q \in SUBSET Node : Cardinality(Q) >= Threshold},
    Slot <- Height,
    signed <- cast,
    cert <- qcs,
    entered <- [n \in Node |-> st[n].view],
    final <- [n \in Node |-> st[n].finalized_height],
    commits <- committed

\* Every handler, timer and crash of every node is a step of the notary or no
\* step at all: certificates are written once and backed when written, views
\* and finalized heights move up only with their votes, a node signs only for
\* itself, and blocks are committed only when their view is finalized.
ImplementsNotary == Promise!Spec

\* When every message arrives in time and every execution succeeds, every node
\* finalizes the last view.
AllFinalize == <>(\A n \in Node : st[n].finalized_height = MaxView)

(***************************************************************************)
(* What documents and comments say and the code does not keep.             *)
(***************************************************************************)
\* consensus.rs:461, "Honest nodes MUST NOT equivocate".
NoEquivocation ==
    \A m, k \in cast :
        /\ m.vtype = "Notarize" /\ k.vtype = "Notarize"
        /\ m.author = k.author /\ m.view = k.view
        /\ m.hash # Zero /\ k.hash # Zero
        => m.hash = k.hash

\* consensus.rs:460, "We already voted for this view (or a higher one). Do not
\* vote again": on_proposal, in the views that the node does not lead.
FollowersVoteOnce ==
    \A m, k \in cast :
        /\ m.vtype = "Notarize" /\ k.vtype = "Notarize"
        /\ m.author = k.author /\ m.view = k.view /\ Leader(m.view) # m.author
        /\ m.hash # Zero /\ k.hash # Zero
        => m.hash = k.hash

\* b is c or an ancestor of c.
Extends(c, b) ==
    LET anc[i \in 0 .. MaxView] ==
          IF i = 0 THEN {c}
          ELSE anc[i - 1] \cup {header[x].parent : x \in anc[i - 1] \ {Genesis}}
    IN  b \in anc[MaxView]

\* docs/consensus_flow.md, finalization: "The block for View V and its
\* ancestors are considered immutable": later proposals extend it.
FinalizedImmutable ==
    \A n \in Node : \A b \in committed[n], c \in Block :
        Created(c) /\ c[1] > b[1] => Extends(c, b)

\* docs/consensus_flow.md, QC formation: "When a node gathers 2f+1 votes for the
\* same BlockHash in View V: [...] The node advances to View V+1".  Where every
\* vote that was broadcast is delivered, every node gathers them.
ViewsAdvance ==
    \A n \in Node, v \in View, Q \in {S \in SUBSET Node : Supermajority(S)} :
        (\E b \in Block : b[1] = v /\ Q \subseteq NotarizeVoters(v, b)) ~> st[n].view > v
=============================================================================
