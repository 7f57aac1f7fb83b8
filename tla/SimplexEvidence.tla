-------------------------- MODULE SimplexEvidence --------------------------
(***************************************************************************)
(* What votes and evidence are worth: whoever voted for a block has it,    *)
(* evidence rests on two votes that were really cast, and without crashes  *)
(* there is nobody to accuse: proofs for every value of the constants of   *)
(* Simplex.                                                                *)
(***************************************************************************)
EXTENDS SimplexRefinement

-----------------------------------------------------------------------------
(***************************************************************************)
(* The inductive invariant, on top of Inv of SimplexRefinement.            *)
(***************************************************************************)
\* Evidence that rests on two votes for different blocks.
Proved ==
    {e \in Evidence :
        /\ e.vote_a # e.vote_b
        /\ create_vote(e.author, e.view, e.vote_a, "Notarize") \in cast
        /\ create_vote(e.author, e.view, e.vote_b, "Notarize") \in cast}

\* A vote names a block that is held (in the set held), if it names one.
Backs(m, held) == m.vtype = "Notarize" /\ m.hash # Zero => m.hash \in held

\* Items node n may have on its stack.
HeldItem(n) ==
    {m \in Item : /\ m.type = "vote" => Backs(m, blocks[n])
                  /\ m.type = "evidence" => m \in Proved}

StacksHeld == \A n \in Node : queue[n] \in Seq(HeldItem(n))

PoolsProved == \A n \in Node : evidence_pool[n] \subseteq Proved

InboxProved == \A n \in Node : \A m \in inbox[n] : m.type = "evidence" => m \in Proved

\* The leader of a view creates its block when it starts, or when it stores
\* the QC of the view before: one block at most.
OneProposal ==
    \A b \in CreatedBlock :
        /\ mode[Leader(b[1])] # "off" /\ qcs[Leader(b[1])][b[1] - 1] # None
        /\ \A c \in CreatedBlock : c[1] = b[1] => c = b

EvidenceInv ==
    /\ VotersHoldBlock /\ StacksHeld /\ PoolsProved /\ InboxProved
    /\ crashes = 0 => OneProposal

-----------------------------------------------------------------------------
(***************************************************************************)
(* What one handler of node n may do.                                      *)
(***************************************************************************)
Grows == cast \subseteq cast' /\ \A p \in Node : blocks[p] \subseteq blocks'[p]

\* n returns the stack q of items that are held.
Returns(n, q) == q \in Seq(HeldItem(n)') /\ queue' = [queue EXCEPT ![n] = q]

\* Header b is written by the leader that stores the QC of the view before.
CreatesOnQC(n, b) ==
    /\ Leader(b[1]) = n
    /\ qcs[n][b[1] - 1] = None /\ qcs'[n][b[1] - 1] # None
    /\ \E hd : header' = [header EXCEPT ![b] = hd]

Handled(n) ==
    /\ Grows
    /\ \E q : Returns(n, q)
    /\ PoolsProved'
    /\ UNCHANGED header \/ \E b \in Block : CreatesOnQC(n, b)

\* What is known before a handler of n runs, with rest left on its stack.
Before(n, rest) ==
    /\ HandlerInv /\ HandlerTypeOK' /\ VotesBacked /\ PoolsProved
    /\ cast \subseteq cast'
    /\ rest \in Seq(HeldItem(n))

-----------------------------------------------------------------------------
(***************************************************************************)
(* Lemmas on items.                                                        *)
(***************************************************************************)
\* What is held and proved stays so.
LEMMA HeldGrows ==
    ASSUME Grows
    PROVE  Proved \subseteq Proved' /\ \A n \in Node : HeldItem(n) \subseteq HeldItem(n)'
<1>1. Proved \subseteq Proved'
  BY DEF Proved, Grows
<1> QED
  BY <1>1 DEF HeldItem, Backs, Grows

LEMMA RestHeld ==
    ASSUME Grows, NEW n \in Node, NEW rest \in Seq(HeldItem(n))
    PROVE  rest \in Seq(HeldItem(n)')
  BY HeldGrows, SeqMono

\* Finalize votes, own votes for a stored block, and messages about blocks.
LEMMA VoteHeld ==
    ASSUME NEW n \in Node, NEW m \in Vote, Backs(m, blocks'[n])
    PROVE  m \in HeldItem(n)'
  BY DEF HeldItem, Item, Message, Vote

LEMMA OtherHeld ==
    ASSUME NEW n \in Node, NEW m \in BlockMessage \cup Drain
    PROVE  m \in HeldItem(n)'
  BY DEF HeldItem, Item, Message, BlockMessage, Drain

LEMMA FinalizeHeld ==
    ASSUME NEW n \in Node, NEW v \in View, NEW h \in Block \cup {Zero}
    PROVE  create_vote(n, v, h, "Finalize") \in HeldItem(n)'
<1>1. create_vote(n, v, h, "Finalize") \in Vote
  BY VoteType
<1>2. Backs(create_vote(n, v, h, "Finalize"), blocks'[n])
  BY DEF Backs, create_vote
<1> QED
  BY <1>1, <1>2, VoteHeld

LEMMA NotarizeHeld ==
    ASSUME NEW n \in Node, NEW b \in Block, b \in blocks'[n]
    PROVE  create_vote(n, b[1], b, "Notarize") \in HeldItem(n)'
<1>1. b[1] \in View
  BY DEF Block
<1>2. create_vote(n, b[1], b, "Notarize") \in Vote
  BY <1>1, VoteType
<1>3. Backs(create_vote(n, b[1], b, "Notarize"), blocks'[n])
  BY DEF Backs, create_vote
<1> QED
  BY <1>2, <1>3, VoteHeld

LEMMA FinalizeJustifyHeld ==
    ASSUME NEW n \in Node, NEW v \in Height, NEW h \in Block \cup {Zero}
    PROVE  FinalizeJustify(n, v, h) \in Seq(HeldItem(n)')
<1>1. CASE v > 0
  <2>1. v \in View
    BY <1>1, BoundsAssumption DEF View, Height
  <2>2. create_vote(n, v, h, "Finalize") \in HeldItem(n)'
    BY <2>1, FinalizeHeld
  <2> QED
    BY <1>1, <2>2 DEF FinalizeJustify
<1>2. CASE ~(v > 0)
  BY <1>2 DEF FinalizeJustify
<1> QED
  BY <1>1, <1>2

-----------------------------------------------------------------------------
(***************************************************************************)
(* The handlers.                                                           *)
(***************************************************************************)
\* A handler that stores nothing, accuses nobody and returns nothing new.
LEMMA NothingReturned ==
    ASSUME NEW n \in Node, NEW rest, Before(n, rest), queue' = [queue EXCEPT ![n] = rest],
           UNCHANGED <<blocks, evidence_pool, header>>
    PROVE  Handled(n)
<1>1. Grows
  BY DEF Grows, Before
<1>2. PoolsProved'
  BY <1>1, HeldGrows DEF Before, PoolsProved
<1>3. Returns(n, rest)
  BY <1>1, RestHeld DEF Before, Returns
<1> QED
  BY <1>1, <1>2, <1>3 DEF Handled

\* The evidence of on_vote: the earlier vote was received, so it was cast.
LEMMA OnEquivocationHeld ==
    ASSUME NEW n \in Node, NEW m \in Vote, NEW rest, Before(n, rest), m \in cast',
           m.vtype = "Notarize", OnEquivocation(n, m, rest)
    PROVE  Handled(n)
<1> DEFINE old == votes_received[n][m.view][m.author]
           e == [type |-> "evidence", author |-> m.author, view |-> m.view,
                 vote_a |-> old, vote_b |-> m.hash]
           q == IF IsNewEvidence(n, e) THEN <<e>> \o rest ELSE rest
<1>1. /\ HandlerTypeOK /\ VotesBacked /\ PoolsProved /\ cast \subseteq cast'
      /\ rest \in Seq(HeldItem(n))
  BY DEF Before, HandlerInv
<1>2. Grows /\ header' = header
  BY <1>1 DEF Grows, OnEquivocation, durable
<1>3. m.view \in View /\ m.author \in Node
  BY DEF Vote
<1>4. old \in Block /\ m.hash \in Block /\ old # m.hash
  BY <1>1, <1>3 DEF OnEquivocation, IsEquivocation, HandlerTypeOK, Vote
<1>5. create_vote(m.author, m.view, old, "Notarize") \in cast'
  BY <1>1, <1>3 DEF VotesBacked, OnEquivocation, IsEquivocation
<1>6. create_vote(m.author, m.view, m.hash, "Notarize") \in cast'
  BY NotarizeIdentity
<1> HIDE DEF old
<1>7. e \in Evidence
  BY <1>3, <1>4 DEF Evidence
<1>8. e \in Proved'
  BY <1>4, <1>5, <1>6, <1>7 DEF Proved
<1>9. e \in HeldItem(n)'
  BY <1>7, <1>8 DEF HeldItem, Item, Message
<1>10. evidence_pool' = [evidence_pool EXCEPT ![n] = @ \cup {e}]
       /\ queue' = [queue EXCEPT ![n] = q]
  BY <1>1, <1>4 DEF OnEquivocation, AddEvidence, IsNewEvidence, HandlerTypeOK, old
<1> HIDE DEF e
<1>11. Returns(n, q)
  <2>1. rest \in Seq(HeldItem(n)')
    BY <1>1, <1>2, RestHeld
  <2> QED
    BY <1>9, <1>10, <2>1 DEF Returns
<1>12. PoolsProved'
  BY <1>1, <1>2, <1>8, <1>10, HeldGrows DEF PoolsProved, HandlerTypeOK
<1> QED
  BY <1>2, <1>11, <1>12 DEF Handled

\* A leader stores its block before it votes for it.
LEMMA OnVoteQCProposeHeld ==
    ASSUME NEW n \in Node, NEW m \in Vote, NEW rest, Before(n, rest),
           OnVoteQCPropose(n, m, rest)
    PROVE  Handled(n)
<1> DEFINE v == m.view + 1
           parent == ParentFor(AfterQC(n, m), m.hash)
           q(b) == FinalizeJustify(n, m.view, m.hash)
                   \o <<create_vote(n, v, b, "Notarize"),
                        [type |-> "proposal", hash |-> b],
                        create_vote(n, m.view, m.hash, "Finalize")>>
                   \o rest
<1>1. /\ HandlerTypeOK /\ PoolsProved /\ cast \subseteq cast'
      /\ rest \in Seq(HeldItem(n))
  BY DEF Before, HandlerInv
<1>2. /\ FormsQC(n, m) /\ SaveQC(n, m) /\ CanPropose(n, v, parent)
      /\ UNCHANGED evidence_pool
  BY DEF OnVoteQCPropose
<1>3. PICK b \in Block : CreateProposal(n, b, v, parent, m.hash)
                         /\ queue' = [queue EXCEPT ![n] = q(b)]
  BY DEF OnVoteQCPropose
<1>4. /\ b[1] = v /\ blocks' = [blocks EXCEPT ![n] = @ \cup {b}]
      /\ \E hd : header' = [header EXCEPT ![b] = hd]
  BY <1>3 DEF CreateProposal
<1>5. Grows /\ b \in blocks'[n]
  BY <1>1, <1>4 DEF Grows, HandlerTypeOK
<1>6. m.view \in View /\ m.view \in Height /\ m.hash \in Block \cup {Zero}
  BY BoundsAssumption DEF Vote, View, Height
<1>7. Returns(n, q(b))
  <2>1. rest \in Seq(HeldItem(n)')
    BY <1>1, <1>5, RestHeld
  <2>2. FinalizeJustify(n, m.view, m.hash) \in Seq(HeldItem(n)')
    BY <1>6, FinalizeJustifyHeld
  <2>3. create_vote(n, v, b, "Notarize") \in HeldItem(n)'
    BY <1>4, <1>5, NotarizeHeld
  <2>4. [type |-> "proposal", hash |-> b] \in HeldItem(n)'
    <3>1. [type |-> "proposal", hash |-> b] \in BlockMessage
      BY DEF BlockMessage
    <3> QED
      BY <3>1, OtherHeld
  <2>5. create_vote(n, m.view, m.hash, "Finalize") \in HeldItem(n)'
    BY <1>6, FinalizeHeld
  <2> QED
    BY <1>3, <2>1, <2>2, <2>3, <2>4, <2>5 DEF Returns
<1>8. CreatesOnQC(n, b)
  <2>1. b[1] - 1 = m.view /\ m.hash # None
    BY <1>4, <1>6, HashAssumption DEF View, Hash
  <2>2. qcs[n][m.view] = None /\ qcs'[n][m.view] = m.hash
    BY <1>1, <1>2, <1>6 DEF FormsQC, SaveQC, HandlerTypeOK
  <2> QED
    BY <1>2, <1>4, <2>1, <2>2 DEF CreatesOnQC, CanPropose
<1>9. PoolsProved'
  BY <1>1, <1>2, <1>5, HeldGrows DEF PoolsProved
<1> QED
  BY <1>5, <1>7, <1>8, <1>9 DEF Handled

LEMMA OnVoteHeld ==
    ASSUME NEW n \in Node, NEW m \in Vote, NEW rest, Before(n, rest), m \in cast',
           OnVote(n, m, rest)
    PROVE  Handled(n)
<1>1. CASE OnFinalizeVote(n, m, rest)
  BY <1>1, NothingReturned DEF OnFinalizeVote
<1>2. CASE m.vtype = "Notarize" /\ OnEquivocation(n, m, rest)
  BY <1>2, OnEquivocationHeld
<1>3. CASE OnVoteCounted(n, m, rest)
  BY <1>3, NothingReturned DEF OnVoteCounted, durable
<1>4. CASE OnVoteQC(n, m, rest)
  <2> DEFINE k == create_vote(n, m.view, m.hash, "Finalize")
  <2>1. /\ queue' = [queue EXCEPT ![n] = <<k>> \o rest]
        /\ UNCHANGED <<blocks, evidence_pool, header>>
    BY <1>4 DEF OnVoteQC
  <2>2. Grows
    BY <2>1 DEF Grows, Before
  <2>3. k \in HeldItem(n)'
    BY FinalizeHeld DEF Vote
  <2> HIDE DEF k
  <2>4. rest \in Seq(HeldItem(n)')
    BY <2>2, RestHeld DEF Before
  <2>5. Returns(n, <<k>> \o rest)
    BY <2>1, <2>3, <2>4 DEF Returns
  <2>6. PoolsProved'
    BY <2>1, <2>2, HeldGrows DEF Before, PoolsProved
  <2> QED
    BY <2>1, <2>2, <2>5, <2>6 DEF Handled
<1>5. CASE OnVoteQCPropose(n, m, rest)
  BY <1>5, OnVoteQCProposeHeld
<1> QED
  BY <1>1, <1>2, <1>3, <1>4, <1>5 DEF OnVote

\* What storing a block does: blocks are added, evidence is dropped.
LEMMA StoreBlockHeld ==
    ASSUME NEW n \in Node, NEW rest, Before(n, rest), NEW b \in CreatedBlock,
           StoreBlock(n, b)
    PROVE  Grows /\ PoolsProved' /\ b \in blocks'[n]
<1>1. HandlerTypeOK /\ PoolsProved /\ cast \subseteq cast'
  BY DEF Before, HandlerInv
<1>2. Grows /\ b \in blocks'[n]
  BY <1>1 DEF StoreBlock, Grows, HandlerTypeOK
<1>3. \A p \in Node : evidence_pool'[p] \subseteq evidence_pool[p]
  BY <1>1 DEF StoreBlock, HandlerTypeOK
<1> QED
  BY <1>1, <1>2, <1>3, HeldGrows DEF PoolsProved

\* A block that waits for its parent is requested, or a block is dropped.
LEMMA BufferOrphanHeld ==
    ASSUME NEW n \in Node, NEW rest, Before(n, rest), NEW b \in CreatedBlock,
           BufferOrphan(n, b, rest), UNCHANGED header
    PROVE  Handled(n)
<1> DEFINE k == [type |-> "request", hash |-> header[b].parent]
<1>1. header[b].parent \in Block
  BY DEF Before, BufferOrphan, Orphaned, HandlerInv, LinksCreated, AncestorsStored,
         CreatedBlock
<1>2. k \in BlockMessage
  BY <1>1 DEF BlockMessage
<1>3. /\ queue' = [queue EXCEPT ![n] = <<k>> \o rest]
      /\ UNCHANGED <<blocks, evidence_pool>>
  BY DEF BufferOrphan
<1>4. Grows
  BY <1>3 DEF Grows, Before
<1> HIDE DEF k
<1>5. k \in HeldItem(n)' /\ rest \in Seq(HeldItem(n)')
  BY <1>2, <1>4, OtherHeld, RestHeld DEF Before
<1>6. Returns(n, <<k>> \o rest)
  BY <1>3, <1>5 DEF Returns
<1>7. PoolsProved'
  BY <1>3, <1>4, HeldGrows DEF Before, PoolsProved
<1> QED
  BY <1>4, <1>6, <1>7 DEF Handled

\* on_proposal: the block is stored before the vote is returned.
LEMMA OnProposalHeld ==
    ASSUME NEW n \in Node, NEW rest, Before(n, rest), NEW b \in CreatedBlock,
           OnProposal(n, b, rest)
    PROVE  Handled(n)
<1>1. HandlerTypeOK /\ UNCHANGED header
  BY DEF Before, HandlerInv, OnProposal
<1>2. CASE BufferOrphan(n, b, rest)
  BY <1>1, <1>2, BufferOrphanHeld
<1>3. CASE queue' = [queue EXCEPT ![n] = rest] /\ UNCHANGED <<blocks, evidence_pool>>
  BY <1>1, <1>3, NothingReturned
<1>4. CASE OnProposalStored(n, b, rest)
  <2>1. Grows /\ PoolsProved' /\ b \in blocks'[n]
    BY <1>4, StoreBlockHeld DEF OnProposalStored
  <2>2. rest \in Seq(HeldItem(n)')
    BY <2>1, RestHeld DEF Before
  <2>3. b \in Block /\ b[1] - 1 \in Height /\ header[b].justify \in Block \cup {Zero}
    BY <1>1, HeaderType
  <2>4. ProposalVotes(n, b) \in Seq(HeldItem(n)')
    <3>1. FinalizeJustify(n, b[1] - 1, header[b].justify) \in Seq(HeldItem(n)')
      BY <2>3, FinalizeJustifyHeld
    <3>2. create_vote(n, b[1], b, "Notarize") \in HeldItem(n)'
      BY <2>1, <2>3, NotarizeHeld
    <3> QED
      BY <3>1, <3>2 DEF ProposalVotes
  <2>5. \/ queue' = [queue EXCEPT ![n] = rest]
        \/ queue' = [queue EXCEPT ![n] = ProposalVotes(n, b) \o rest]
    BY <1>4, Zenon DEF OnProposalStored
  <2>6. \E q : Returns(n, q)
    <3>1. ProposalVotes(n, b) \o rest \in Seq(HeldItem(n)')
      BY <2>2, <2>4
    <3> QED
      BY <2>2, <2>5, <3>1, Zenon DEF Returns
  <2> QED
    BY <1>1, <2>1, <2>6 DEF Handled
<1> QED
  BY <1>2, <1>3, <1>4 DEF OnProposal, RejectBlock

\* on_block_response and the orphans it drains return no vote.
LEMMA DrainHeld ==
    ASSUME NEW n \in Node, NEW rest \in Seq(HeldItem(n)), NEW b \in Block, NEW S
    PROVE  (IF S = {} THEN rest ELSE <<[type |-> "drain", hash |-> b]>> \o rest)
              \in Seq(HeldItem(n))
<1>1. [type |-> "drain", hash |-> b] \in HeldItem(n)
  BY DEF HeldItem, Item, Drain
<1> QED
  BY <1>1

LEMMA OnResponseStoredHeld ==
    ASSUME NEW n \in Node, NEW rest, Before(n, rest), NEW b \in CreatedBlock, NEW pending,
           OnResponseStored(n, b, pending, rest), UNCHANGED header
    PROVE  Handled(n)
<1> DEFINE q == IF Waiting(n, b, pending) = {} THEN rest
                ELSE <<[type |-> "drain", hash |-> b]>> \o rest
<1>1. Grows /\ PoolsProved'
  BY StoreBlockHeld DEF OnResponseStored
<1>2. q \in Seq(HeldItem(n)) /\ queue' = [queue EXCEPT ![n] = q]
  BY DrainHeld DEF OnResponseStored, Before, CreatedBlock
<1> HIDE DEF q
<1>3. Returns(n, q)
  BY <1>1, <1>2, RestHeld DEF Returns
<1> QED
  BY <1>1, <1>3 DEF Handled

LEMMA OnBlockResponseHeld ==
    ASSUME NEW n \in Node, NEW rest, Before(n, rest), NEW b \in CreatedBlock,
           OnBlockResponse(n, b, rest)
    PROVE  Handled(n)
  BY BufferOrphanHeld, NothingReturned, OnResponseStoredHeld DEF OnBlockResponse, RejectBlock

LEMMA DrainOrphanHeld ==
    ASSUME NEW n \in Node, NEW rest, Before(n, rest), NEW b \in CreatedBlock,
           DrainOrphan(n, b, rest)
    PROVE  Handled(n)
<1> DEFINE left(o) == IF Waiting(n, b, orphans[n] \ {o}) = {} THEN rest
                      ELSE <<[type |-> "drain", hash |-> b]>> \o rest
<1>1. UNCHANGED header
  BY DEF DrainOrphan
<1>2. PICK o \in Waiting(n, b, orphans[n]) :
         \/ OnResponseStored(n, o, orphans[n] \ {o}, left(o))
         \/ /\ queue' = [queue EXCEPT ![n] = left(o)]
            /\ UNCHANGED <<blocks, evidence_pool>>
  BY Zenon DEF DrainOrphan
<1>3. o \in CreatedBlock
  BY <1>2 DEF Waiting, Before, HandlerInv, OrphansCreated
<1>4. left(o) \in Seq(HeldItem(n))
  BY DrainHeld DEF Before, CreatedBlock
<1> HIDE DEF left
<1>5. Before(n, left(o))
  BY <1>4 DEF Before
<1> QED
  BY <1>1, <1>2, <1>3, <1>5, OnResponseStoredHeld, NothingReturned

LEMMA OnBlockRequestHeld ==
    ASSUME NEW n \in Node, NEW rest, Before(n, rest), NEW h \in CreatedBlock,
           OnBlockRequest(n, h, rest)
    PROVE  Handled(n)
<1> DEFINE k == [type |-> "response", hash |-> h]
           q == IF h \in blocks[n] THEN <<k>> \o rest ELSE rest
<1>1. k \in HeldItem(n)
  BY DEF HeldItem, Item, Message, BlockMessage, CreatedBlock
<1>2. q \in Seq(HeldItem(n)) /\ queue' = [queue EXCEPT ![n] = q]
  BY <1>1 DEF OnBlockRequest, Before
<1> HIDE DEF q
<1>3. Before(n, q)
  BY <1>2 DEF Before
<1> QED
  BY <1>2, <1>3, NothingReturned DEF OnBlockRequest, durable

\* Evidence from a peer was proved when the peer sent it.
LEMMA OnEvidenceHeld ==
    ASSUME NEW n \in Node, NEW rest, Before(n, rest), NEW e \in Proved,
           OnEvidence(n, e, rest)
    PROVE  Handled(n)
<1>1. HandlerTypeOK /\ PoolsProved
  BY DEF Before, HandlerInv
<1>2. Grows /\ UNCHANGED header
  BY DEF Grows, Before, OnEvidence, durable
<1>3. Returns(n, rest)
  BY <1>2, RestHeld DEF Before, Returns, OnEvidence
<1>4. PoolsProved'
  BY <1>1, <1>2, HeldGrows DEF OnEvidence, AddEvidence, PoolsProved, HandlerTypeOK
<1> QED
  BY <1>2, <1>3, <1>4 DEF Handled

-----------------------------------------------------------------------------
(***************************************************************************)
(* The steps of a node.                                                    *)
(***************************************************************************)
\* What node n puts under way: nothing, or an item that was on its stack.
Sent(n) ==
    \/ cast' = cast /\ \A p \in Node : inbox'[p] \subseteq inbox[p]
    \/ \E m \in HeldItem(n) : Broadcast(n, m) /\ (m.type = "vote" => m.author = n)

\* What node n creates: nothing, or the block of a view it leads, when it
\* starts or stores the QC of the view before.
Creates(n, b) ==
    /\ Leader(b[1]) = n
    /\ mode[n] = "off" \/ qcs[n][b[1] - 1] = None
    /\ mode'[n] # "off" /\ qcs'[n][b[1] - 1] # None
    /\ \E hd : header' = [header EXCEPT ![b] = hd]

MayCreate(n) ==
    \/ crashes' # 0
    \/ /\ crashes' = crashes
       /\ \A p \in Node : mode'[p] = "off" => mode[p] = "off"
       /\ UNCHANGED header \/ \E b \in Block : Creates(n, b)

LEMMA SentHeld ==
    ASSUME StructInv, EvidenceInv, Grows, NEW n \in Node, Sent(n)
    PROVE  VotersHoldBlock' /\ InboxProved'
<1>1. /\ cast \subseteq Vote /\ VotersHoldBlock /\ InboxProved
      /\ Proved \subseteq Proved'
  BY HeldGrows DEF StructInv, LoopTypeOK, EvidenceInv
<1>2. ASSUME NEW m \in cast
      PROVE  m.vtype = "Notarize" /\ m.hash # Zero => m.hash \in blocks'[m.author]
  BY <1>1 DEF VotersHoldBlock, Grows, Vote
<1>3. CASE cast' = cast /\ \A p \in Node : inbox'[p] \subseteq inbox[p]
  BY <1>1, <1>2, <1>3 DEF VotersHoldBlock, InboxProved
<1>4. ASSUME NEW m \in HeldItem(n), Broadcast(n, m), m.type = "vote" => m.author = n
      PROVE  VotersHoldBlock' /\ InboxProved'
  <2>1. m.type = "vote" => Backs(m, blocks'[n])
    BY <1>4 DEF HeldItem, Backs, Grows
  <2>2. VotersHoldBlock'
    BY <1>2, <1>4, <2>1 DEF VotersHoldBlock, Broadcast, Backs
  <2>3. m.type = "evidence" => m \in Proved'
    BY <1>1 DEF HeldItem
  <2>4. InboxProved'
    BY <1>1, <1>4, <2>3 DEF InboxProved, Broadcast
  <2> QED
    BY <2>2, <2>4
<1> QED
  BY <1>3, <1>4 DEF Sent

LEMMA StacksKept ==
    ASSUME HandlerTypeOK, StacksHeld, Grows, NEW n \in Node, NEW q, Returns(n, q)
    PROVE  StacksHeld'
<1>1. \A p \in Node : queue[p] \in Seq(HeldItem(p)')
  BY RestHeld DEF StacksHeld
<1> QED
  BY <1>1 DEF Returns, StacksHeld, HandlerTypeOK

\* A QC that is stored stays.
LEMMA QCsStay ==
    ASSUME HandlerTypeOK, NEW n \in Node, QCsFrame(n), NEW p \in Node, NEW v \in Height,
           qcs[p][v] # None
    PROVE  qcs'[p][v] # None
<1>1. CASE UNCHANGED qcs
  BY <1>1
<1>2. ASSUME NEW w \in View, NEW h \in Block \cup {Zero},
             qcs[n][w] = None, qcs' = [qcs EXCEPT ![n][w] = h]
      PROVE  qcs'[p][v] # None
  <2>1. h # None /\ w \in Height
    BY HashAssumption, BoundsAssumption DEF Hash, View, Height
  <2> QED
    BY <1>2, <2>1 DEF HandlerTypeOK
<1> QED
  BY <1>1, <1>2 DEF QCsFrame

\* The leader of a view is a node.
LEMMA LeaderIs ==
    ASSUME NEW v \in View
    PROVE  Leader(v) \in Node
<1>1. N \in Nat /\ N > 0 /\ Learners \in Nat /\ v \in Nat
  BY CommitteeAssumption, BoundsAssumption DEF View
<1>2. v % N \in 0 .. (N - 1)
  BY <1>1
<1> QED
  BY <1>1, <1>2 DEF Leader, Node

\* A leader that starts or stores a QC has not created the block before.
LEMMA OneProposalKept ==
    ASSUME HandlerTypeOK, EvidenceInv, NEW n \in Node, QCsFrame(n), MayCreate(n)
    PROVE  (crashes = 0 => OneProposal)'
<1> SUFFICES ASSUME crashes' = 0
             PROVE  OneProposal'
  OBVIOUS
<1>1. OneProposal /\ \A p \in Node : mode'[p] = "off" => mode[p] = "off"
  BY DEF MayCreate, EvidenceInv
<1>2. \A c \in CreatedBlock : c[1] - 1 \in Height /\ Leader(c[1]) \in Node
  BY HeaderType, LeaderIs
<1>3. \A c \in CreatedBlock :
         mode'[Leader(c[1])] # "off" /\ qcs'[Leader(c[1])][c[1] - 1] # None
  BY <1>1, <1>2, QCsStay DEF OneProposal
<1>4. CASE UNCHANGED header
  BY <1>1, <1>3, <1>4, SameHeaders DEF OneProposal
<1>5. ASSUME NEW b \in Block, Creates(n, b)
      PROVE  OneProposal'
  <2>1. \A c \in CreatedBlock : c[1] # b[1]
    BY <1>1, <1>5 DEF OneProposal, Creates
  <2>2. CreatedBlock' \subseteq CreatedBlock \cup {b}
    BY <1>5 DEF Creates, CreatedBlock, Created, HandlerTypeOK
  <2>3. mode'[Leader(b[1])] # "off" /\ qcs'[Leader(b[1])][b[1] - 1] # None
    BY <1>5 DEF Creates
  <2> QED
    BY <1>1, <1>3, <2>1, <2>2, <2>3 DEF OneProposal
<1> QED
  BY <1>4, <1>5 DEF MayCreate

\* The parts of a step, put together.
LEMMA Settled ==
    ASSUME Inv, EvidenceInv, NEW n \in Node, QCsFrame(n),
           Grows, \E q : Returns(n, q), PoolsProved', Sent(n), MayCreate(n)
    PROVE  EvidenceInv'
<1>1. StructInv /\ HandlerTypeOK /\ StacksHeld
  BY DEF Inv, StructInv, HandlerInv, EvidenceInv
<1>2. VotersHoldBlock' /\ InboxProved'
  BY <1>1, SentHeld
<1>3. StacksHeld'
  BY <1>1, StacksKept
<1>4. (crashes = 0 => OneProposal)'
  BY <1>1, OneProposalKept
<1> QED
  BY <1>2, <1>3, <1>4 DEF EvidenceInv

\* A handler that runs in a loop that is on.
LEMMA HandledSettles ==
    ASSUME Inv, EvidenceInv, NEW n \in Node, QCsFrame(n), Handled(n), Sent(n),
           mode[n] = "on", UNCHANGED <<mode, crashes>>
    PROVE  EvidenceInv'
<1>1. ASSUME NEW b \in Block, CreatesOnQC(n, b)
      PROVE  Creates(n, b)
  BY <1>1 DEF CreatesOnQC, Creates
<1>2. MayCreate(n)
  BY <1>1 DEF MayCreate, Handled
<1> QED
  BY <1>2, Settled DEF Handled

\* What is known when a handler of n starts.
LEMMA BeforeIs ==
    ASSUME Inv, EvidenceInv, StructInv', cast \subseteq cast', NEW n \in Node,
           NEW rest \in Seq(HeldItem(n))
    PROVE  Before(n, rest)
  BY DEF Before, Inv, StructInv, HandlerInv, CertInv, CertHandler, EvidenceInv

\* The top of a stack and what is below it.
LEMMA HeldStack ==
    ASSUME Inv, EvidenceInv, NEW n \in Node, queue[n] # <<>>
    PROVE  /\ Head(queue[n]) \in HeldItem(n) /\ Tail(queue[n]) \in Seq(HeldItem(n))
           /\ Head(queue[n]) \in ValidItem
           /\ Head(queue[n]).type = "vote" => Head(queue[n]).author = n
<1>1. queue[n] \in Seq(HeldItem(n))
  BY DEF EvidenceInv, StacksHeld
<1>2. Head(queue[n]) \in HeldItem(n) /\ Tail(queue[n]) \in Seq(HeldItem(n))
  BY <1>1
<1>3. Head(queue[n]) \in GoodItem(n) /\ Head(queue[n]) \in ValidItem
  BY GoodStack DEF Inv, CertInv
<1> QED
  BY <1>2, <1>3 DEF GoodItem

LEMMA ReceiveHeld ==
    ASSUME Inv, EvidenceInv, StructInv', NEW n \in Node, QCsFrame(n),
           NEW m \in inbox[n], Receive(n, m)
    PROVE  EvidenceInv'
<1>1. /\ m \in ValidItem /\ (m.type = "vote" => m \in cast)
      /\ (m.type = "evidence" => m \in Proved)
  BY DEF Inv, StructInv, InboxCreated, CertInv, InboxCast, EvidenceInv, InboxProved
<1>2. cast' = cast /\ mode[n] = "on" /\ UNCHANGED <<mode, crashes>>
  BY DEF Receive, Idle
<1>3. Sent(n)
  BY <1>2 DEF Receive, Sent, Inv, StructInv, LoopTypeOK
<1>4. <<>> \in Seq(HeldItem(n))
  OBVIOUS
<1>5. Before(n, <<>>)
  BY <1>2, <1>4, BeforeIs
<1>6. /\ m.type = "vote" => m \in Vote
      /\ m.type \in {"proposal", "response", "request"} => m.hash \in CreatedBlock
  BY <1>1, ItemKinds
<1>7. Handled(n)
  <2>1. CASE m.type = "vote" /\ OnVote(n, m, <<>>)
    BY <1>1, <1>2, <1>5, <1>6, <2>1, OnVoteHeld
  <2>2. CASE m.type = "proposal" /\ OnProposal(n, m.hash, <<>>)
    BY <1>5, <1>6, <2>2, OnProposalHeld
  <2>3. CASE m.type = "response" /\ OnBlockResponse(n, m.hash, <<>>)
    BY <1>5, <1>6, <2>3, OnBlockResponseHeld
  <2>4. CASE m.type = "request" /\ OnBlockRequest(n, m.hash, <<>>)
    BY <1>5, <1>6, <2>4, OnBlockRequestHeld
  <2>5. CASE m.type = "evidence" /\ OnEvidence(n, m, <<>>)
    BY <1>1, <1>5, <2>5, OnEvidenceHeld
  <2> QED
    BY <2>1, <2>2, <2>3, <2>4, <2>5 DEF Receive
<1> QED
  BY <1>2, <1>3, <1>7, HandledSettles

LEMMA PopVoteHeld ==
    ASSUME Inv, EvidenceInv, StructInv', NEW n \in Node, QCsFrame(n), PopVote(n)
    PROVE  EvidenceInv'
<1> DEFINE m == Head(queue[n])
           rest == Tail(queue[n])
<1>1. /\ m \in HeldItem(n) /\ rest \in Seq(HeldItem(n)) /\ m \in Vote /\ m.author = n
      /\ m.type = "vote"
  BY HeldStack, ItemKinds DEF PopVote
<1>2. /\ Broadcast(n, m) /\ OnVote(n, m, rest)
      /\ mode[n] = "on" /\ UNCHANGED <<mode, crashes>>
  BY DEF PopVote
<1> HIDE DEF m, rest
<1>3. Sent(n) /\ cast \subseteq cast' /\ m \in cast'
  BY <1>1, <1>2 DEF Sent, Broadcast
<1>4. Before(n, rest)
  BY <1>1, <1>3, BeforeIs
<1>5. Handled(n)
  BY <1>1, <1>2, <1>3, <1>4, OnVoteHeld
<1> QED
  BY <1>2, <1>3, <1>5, HandledSettles

\* An item is broadcast and has no other effect.
LEMMA PublishHeld ==
    ASSUME Inv, EvidenceInv, StructInv', NEW n \in Node, QCsFrame(n), queue[n] # <<>>,
           Broadcast(n, Head(queue[n])), queue' = [queue EXCEPT ![n] = Tail(@)],
           mode[n] # "off", \A p \in Node : mode'[p] = "off" => mode[p] = "off",
           UNCHANGED <<evidence_pool, blocks, header, crashes>>
    PROVE  EvidenceInv'
<1> DEFINE m == Head(queue[n])
           rest == Tail(queue[n])
<1>1. m \in HeldItem(n) /\ rest \in Seq(HeldItem(n)) /\ (m.type = "vote" => m.author = n)
  BY HeldStack
<1>2. Broadcast(n, m) /\ queue' = [queue EXCEPT ![n] = rest]
  OBVIOUS
<1> HIDE DEF m, rest
<1>3. Sent(n) /\ cast \subseteq cast'
  BY <1>1, <1>2 DEF Sent, Broadcast
<1>4. Before(n, rest)
  BY <1>1, <1>3, BeforeIs
<1>5. Handled(n)
  BY <1>2, <1>4, NothingReturned
<1>6. MayCreate(n)
  BY DEF MayCreate
<1> QED
  BY <1>3, <1>5, <1>6, Settled DEF Handled

LEMMA PopDrainHeld ==
    ASSUME Inv, EvidenceInv, StructInv', NEW n \in Node, QCsFrame(n), PopDrain(n)
    PROVE  EvidenceInv'
<1>1. /\ mode[n] = "on" /\ UNCHANGED <<mode, crashes, cast, inbox>>
      /\ DrainOrphan(n, Head(queue[n]).hash, Tail(queue[n]))
  BY DEF PopDrain, world
<1>2. Tail(queue[n]) \in Seq(HeldItem(n)) /\ Head(queue[n]).hash \in CreatedBlock
  BY HeldStack, ItemKinds DEF PopDrain
<1>3. Before(n, Tail(queue[n]))
  BY <1>1, <1>2, BeforeIs
<1>4. Handled(n)
  BY <1>1, <1>2, <1>3, DrainOrphanHeld
<1>5. Sent(n)
  BY <1>1 DEF Sent
<1> QED
  BY <1>1, <1>4, <1>5, HandledSettles

\* The first proposal of a node that starts.
LEMMA PeerConnectedProposeHeld ==
    ASSUME Inv, EvidenceInv, StructInv', NEW n \in Node, QCsFrame(n),
           PeerConnectedPropose(n)
    PROVE  EvidenceInv'
<1> DEFINE v == st[n].view
           h == qcs[n][v - 1]
           q(b) == FinalizeJustify(n, v - 1, h)
                   \o <<create_vote(n, v, b, "Notarize"), [type |-> "proposal", hash |-> b]>>
<1>1. HandlerTypeOK /\ mode \in [Node -> {"off", "booting", "on"}]
  BY DEF Inv, StructInv, HandlerInv, LoopTypeOK
<1>2. /\ h # None /\ v =< MaxView /\ Leader(v) = n
      /\ evidence_pool' = [evidence_pool EXCEPT ![n] = {}]
      /\ mode[n] = "off" /\ mode' = [mode EXCEPT ![n] = "booting"]
      /\ UNCHANGED <<qcs, inbox, cast, crashes>>
  BY DEF PeerConnectedPropose, TryPropose, CanPropose
<1>3. PICK b \in Block : CreateProposal(n, b, v, ParentFor(st[n], h), h)
                         /\ queue' = [queue EXCEPT ![n] = q(b)]
  BY DEF PeerConnectedPropose, TryPropose
<1>4. /\ b[1] = v /\ blocks' = [blocks EXCEPT ![n] = @ \cup {b}]
      /\ \E hd : header' = [header EXCEPT ![b] = hd]
  BY <1>3 DEF CreateProposal
<1>5. Grows /\ b \in blocks'[n]
  BY <1>1, <1>2, <1>4 DEF Grows, HandlerTypeOK
<1>6. v \in View /\ v - 1 \in Height
  BY <1>4, BoundsAssumption DEF Block, View, Height
<1>7. h \in Block \cup {Zero}
  BY <1>1, <1>2, <1>6 DEF HandlerTypeOK
<1>8. Returns(n, q(b))
  <2>1. FinalizeJustify(n, v - 1, h) \in Seq(HeldItem(n)')
    BY <1>6, <1>7, FinalizeJustifyHeld
  <2>2. create_vote(n, v, b, "Notarize") \in HeldItem(n)'
    BY <1>4, <1>5, NotarizeHeld
  <2>3. [type |-> "proposal", hash |-> b] \in HeldItem(n)'
    <3>1. [type |-> "proposal", hash |-> b] \in BlockMessage
      BY DEF BlockMessage
    <3> QED
      BY <3>1, OtherHeld
  <2> QED
    BY <1>3, <2>1, <2>2, <2>3 DEF Returns
<1>9. PoolsProved'
  BY <1>1, <1>2, <1>5, HeldGrows DEF EvidenceInv, PoolsProved, HandlerTypeOK
<1>10. Creates(n, b)
  BY <1>1, <1>2, <1>4 DEF Creates
<1>11. MayCreate(n)
  BY <1>1, <1>2, <1>10 DEF MayCreate
<1>12. Sent(n)
  BY <1>2 DEF Sent
<1> QED
  BY <1>5, <1>8, <1>9, <1>11, <1>12, Settled

\* A start without a proposal, and the view timer.
LEMMA QuietHeld ==
    ASSUME Inv, EvidenceInv, StructInv', NEW n \in Node, QCsFrame(n),
           PeerConnected(n) \/ Timeout(n)
    PROVE  EvidenceInv'
<1>1. HandlerTypeOK /\ mode \in [Node -> {"off", "booting", "on"}] /\ StacksHeld
  BY DEF Inv, StructInv, HandlerInv, LoopTypeOK, EvidenceInv
<1>2. UNCHANGED <<evidence_pool, blocks, header, cast, inbox, crashes>>
  BY DEF PeerConnected, Timeout, durable, world
<1>3. Grows
  BY <1>2 DEF Grows
<1>4. PoolsProved' /\ Sent(n)
  BY <1>2, <1>3, HeldGrows DEF EvidenceInv, PoolsProved, Sent
<1>5. MayCreate(n)
  BY <1>1, <1>2 DEF MayCreate, PeerConnected, Timeout
<1>6. \E q : Returns(n, q)
  <2>1. CASE PeerConnected(n)
    <3>1. queue' = [queue EXCEPT ![n] = queue[n]]
      BY <1>1, <2>1 DEF PeerConnected, HandlerTypeOK
    <3>2. queue[n] \in Seq(HeldItem(n)')
      BY <1>1, <1>3, RestHeld DEF StacksHeld
    <3> QED
      BY <3>1, <3>2 DEF Returns
  <2>2. CASE Timeout(n)
    <3> DEFINE m == create_vote(n, st[n].view, Zero, "Notarize")
    <3>1. queue' = [queue EXCEPT ![n] = <<m>>]
      BY <2>2 DEF Timeout
    <3>2. st[n].view \in View
      BY <1>1, <2>2, BoundsAssumption DEF Timeout, HandlerTypeOK, ConsensusState, View
    <3>3. m \in Vote /\ Backs(m, blocks'[n])
      BY <3>2, VoteType DEF Backs, create_vote
    <3> HIDE DEF m
    <3>4. <<m>> \in Seq(HeldItem(n)')
      BY <3>3, VoteHeld
    <3> QED
      BY <3>1, <3>4 DEF Returns
  <2> QED
    BY <2>1, <2>2
<1> QED
  BY <1>3, <1>4, <1>5, <1>6, Settled

\* A crash: the stack and the pool are lost, the blocks stay.
LEMMA ReloadHeld ==
    ASSUME Inv, EvidenceInv, NEW n \in Node, QCsFrame(n), NEW s, Reload(n, s),
           \A p \in Node : blocks[p] \subseteq blocks'[p], Sent(n)
    PROVE  EvidenceInv'
<1>1. HandlerTypeOK /\ crashes \in 0 .. MaxCrashes /\ PoolsProved
  BY DEF Inv, StructInv, HandlerInv, LoopTypeOK, EvidenceInv
<1>2. Grows
  BY DEF Grows, Sent, Broadcast
<1>3. <<>> \in Seq(HeldItem(n)')
  OBVIOUS
<1>4. Returns(n, <<>>)
  BY <1>3 DEF Returns, Reload
<1>5. PoolsProved'
  BY <1>1, <1>2, HeldGrows DEF Reload, PoolsProved, HandlerTypeOK
<1>6. MayCreate(n)
  BY <1>1, BoundsAssumption DEF MayCreate, Reload
<1> QED
  BY <1>2, <1>4, <1>5, <1>6, Settled

\* What a handler had written when the process died.
LEMMA CrashedInVote ==
    ASSUME HandlerTypeOK, NEW n \in Node, NEW m, CrashInVote(n, m)
    PROVE  (\E s : Reload(n, s)) /\ \A p \in Node : blocks[p] \subseteq blocks'[p]
<1>1. \E s : Reload(n, s)
  BY Zenon DEF CrashInVote
<1>2. UNCHANGED blocks \/ \E b \in Block : blocks' = [blocks EXCEPT ![n] = @ \cup {b}]
  BY DEF CrashInVote, CreateProposal
<1> QED
  BY <1>1, <1>2 DEF HandlerTypeOK

LEMMA CrashedInStore ==
    ASSUME HandlerTypeOK, NEW n \in Node, NEW b, CrashInStore(n, b)
    PROVE  (\E s : Reload(n, s)) /\ \A p \in Node : blocks[p] \subseteq blocks'[p]
<1>1. \E s : Reload(n, s)
  BY Zenon DEF CrashInStore
<1>2. UNCHANGED blocks \/ blocks' = [blocks EXCEPT ![n] = @ \cup {b}]
  BY Zenon DEF CrashInStore
<1> QED
  BY <1>1, <1>2 DEF HandlerTypeOK

LEMMA CrashHeld ==
    ASSUME Inv, EvidenceInv, NEW n \in Node, QCsFrame(n), Crash(n)
    PROVE  EvidenceInv'
<1>1. HandlerTypeOK /\ inbox \in [Node -> SUBSET Message]
  BY DEF Inv, StructInv, HandlerInv, LoopTypeOK
<1>2. CASE Restart(n)
  <2>1. Sent(n) /\ Reload(n, saved[n]) /\ UNCHANGED blocks
    BY <1>2 DEF Restart, Sent
  <2> QED
    BY <2>1, ReloadHeld
<1>3. ASSUME NEW m \in inbox[n], CrashReceiving(n, m)
      PROVE  EvidenceInv'
  <2>1. Sent(n)
    BY <1>1, <1>3 DEF CrashReceiving, Sent
  <2>2. CrashInVote(n, m) \/ CrashInFinalize(n, m) \/ CrashInStore(n, m.hash)
    BY <1>3 DEF CrashReceiving
  <2>3. (\E s : Reload(n, s)) /\ \A p \in Node : blocks[p] \subseteq blocks'[p]
    BY <1>1, <2>2, CrashedInVote, CrashedInStore DEF CrashInFinalize
  <2> QED
    BY <2>1, <2>3, ReloadHeld
<1>4. CASE CrashPopping(n)
  <2> DEFINE m == Head(queue[n])
  <2>1. m \in HeldItem(n) /\ (m.type = "vote" => m.author = n)
    BY <1>4, HeldStack DEF CrashPopping
  <2>2. CASE Broadcast(n, m) /\ (CrashInVote(n, m) \/ CrashInFinalize(n, m))
    <3>1. Sent(n)
      BY <2>1, <2>2 DEF Sent
    <3>2. (\E s : Reload(n, s)) /\ \A p \in Node : blocks[p] \subseteq blocks'[p]
      BY <1>1, <2>2, CrashedInVote DEF CrashInFinalize
    <3> QED
      BY <3>1, <3>2, ReloadHeld
  <2>3. CASE /\ \E o \in Waiting(n, m.hash, orphans[n]) : CrashInStore(n, o)
             /\ UNCHANGED <<inbox, cast>>
    <3>1. Sent(n)
      BY <2>3 DEF Sent
    <3>2. (\E s : Reload(n, s)) /\ \A p \in Node : blocks[p] \subseteq blocks'[p]
      BY <1>1, <2>3, CrashedInStore
    <3> QED
      BY <3>1, <3>2, ReloadHeld
  <2> QED
    BY <1>4, <2>2, <2>3, Zenon DEF CrashPopping
<1> QED
  BY <1>2, <1>3, <1>4 DEF Crash

-----------------------------------------------------------------------------
(***************************************************************************)
(* The theorems.                                                           *)
(***************************************************************************)
LEMMA InitHeld == Init => EvidenceInv
<1> SUFFICES ASSUME Init PROVE EvidenceInv
  OBVIOUS
<1> USE DEF Init
<1>1. VotersHoldBlock /\ PoolsProved /\ InboxProved
  BY DEF VotersHoldBlock, PoolsProved, InboxProved
<1>2. StacksHeld
  <2>1. \A n \in Node : queue[n] = <<>>
    OBVIOUS
  <2> QED
    BY <2>1 DEF StacksHeld
<1>3. CreatedBlock = {}
  BY DEF CreatedBlock, Created
<1>4. OneProposal
  BY <1>3 DEF OneProposal
<1> QED
  BY <1>1, <1>2, <1>4 DEF EvidenceInv

LEMMA NextHeld == Inv /\ EvidenceInv /\ [Next]_vars => EvidenceInv'
<1> SUFFICES ASSUME Inv, EvidenceInv, [Next]_vars PROVE EvidenceInv'
  OBVIOUS
<1>1. StructInv'
  BY NextInv DEF Inv
<1>2. CASE UNCHANGED vars
  BY <1>2 DEF vars, memory, durable, world, EvidenceInv, VotersHoldBlock, StacksHeld,
              HeldItem, PoolsProved, InboxProved, Proved, OneProposal, CreatedBlock, Created
<1>3. CASE Next
  <2>1. PICK n \in Node : Step(n) \/ Timeout(n) \/ Crash(n)
    BY <1>3 DEF Next
  <2>2. QCsFrame(n)
    BY <2>1, StepFrame DEF Frame
  <2>3. CASE PopMessage(n) \/ PopBooting(n)
    <3>1. mode \in [Node -> {"off", "booting", "on"}]
      BY DEF Inv, StructInv, LoopTypeOK
    <3>2. mode[n] # "off" /\ \A p \in Node : mode'[p] = "off" => mode[p] = "off"
      BY <2>3, <3>1 DEF PopMessage, PopBooting
    <3> QED
      BY <1>1, <2>2, <2>3, <3>2, PublishHeld DEF PopMessage, PopBooting, durable
  <2> QED
    BY <1>1, <2>1, <2>2, <2>3, PeerConnectedProposeHeld, QuietHeld, ReceiveHeld,
       PopVoteHeld, PopDrainHeld, CrashHeld DEF Step, Pop
<1> QED
  BY <1>2, <1>3

LEMMA EvidenceCorrect == Spec => []EvidenceInv
<1>1. Init => EvidenceInv
  BY InitHeld
<1>2. Inv /\ EvidenceInv /\ [Next]_vars => EvidenceInv'
  BY NextHeld
<1> QED
  BY <1>1, <1>2, InvCorrect, PTL DEF Spec

\* Whoever voted for a block has it in storage, then and after any number of
\* crashes: on_proposal and create_proposal save a block before they vote.
THEOREM VotersServe == Spec => []VotersHoldBlock
<1>1. EvidenceInv => VotersHoldBlock
  BY DEF EvidenceInv
<1> QED
  BY <1>1, EvidenceCorrect, PTL

\* Evidence in any pool, found or received, names two different blocks for
\* which the accused node broadcast votes in one view: on_vote neither takes a
\* timeout vote for a second vote nor loses the first.
THEOREM EvidenceIsSound == Spec => []EvidenceSound
<1>1. EvidenceInv => EvidenceSound
  <2> SUFFICES ASSUME EvidenceInv, NEW n \in Node, NEW e \in evidence_pool[n]
               PROVE  /\ e.vote_a # e.vote_b /\ Zero \notin {e.vote_a, e.vote_b}
                      /\ \A h \in {e.vote_a, e.vote_b} :
                            create_vote(e.author, e.view, h, "Notarize") \in cast
    BY DEF EvidenceSound
  <2>1. e \in Proved
    BY DEF EvidenceInv, PoolsProved
  <2>2. Zero \notin Block
    BY HashAssumption DEF Hash
  <2> QED
    BY <2>1, <2>2 DEF Proved, Evidence
<1> QED
  BY <1>1, EvidenceCorrect, PTL

\* Two block votes of one node and view, in the votes that were cast, take two
\* blocks of that view.
LEMMA NoDoubleVote ==
    ASSUME Inv, EvidenceInv, crashes = 0
    PROVE  NoEquivocation
<1>1. OneProposal
  BY DEF EvidenceInv
<1>2. ASSUME NEW m \in cast, m.vtype = "Notarize", m.hash # Zero
      PROVE  m.hash \in CreatedBlock /\ m.hash[1] = m.view
  <2>1. m \in Vote /\ GoodVote(cast, m)
    BY DEF Inv, StructInv, LoopTypeOK, CertInv, CastGood
  <2>2. m.hash \in Block /\ m.hash[1] = m.view /\ m.author \in Node
    BY <1>2, <2>1 DEF GoodVote, Vote
  <2>3. m.hash \in blocks[m.author]
    BY <1>2 DEF EvidenceInv, VotersHoldBlock
  <2>4. Created(m.hash)
    BY <2>2, <2>3, HashAssumption DEF Inv, StructInv, HandlerInv, AncestorsStored
  <2> QED
    BY <2>2, <2>4 DEF CreatedBlock
<1> QED
  BY <1>1, <1>2 DEF NoEquivocation, OneProposal

\* "Honest nodes MUST NOT equivocate" (consensus.rs:461) holds for as long as
\* no node was restarted: a restart is the only way to a second vote.
THEOREM HonestUntilRestart == Spec => [](crashes = 0 => NoEquivocation)
<1>1. Inv /\ EvidenceInv => (crashes = 0 => NoEquivocation)
  BY NoDoubleVote
<1> QED
  BY <1>1, InvCorrect, EvidenceCorrect, PTL

\* Nobody is accused before the first restart, whatever is delayed, lost,
\* reordered or timed out: evidence takes two votes, and there are none.
THEOREM AccusedAfterRestart == Spec => []OnlyCrashesAccuse
<1>1. Inv /\ EvidenceInv => OnlyCrashesAccuse
  <2> SUFFICES ASSUME Inv, EvidenceInv, crashes = 0, NEW n \in Node,
                      NEW e \in evidence_pool[n]
               PROVE  FALSE
    BY DEF OnlyCrashesAccuse
  <2> DEFINE k(h) == create_vote(e.author, e.view, h, "Notarize")
  <2>1. e \in Proved
    BY DEF EvidenceInv, PoolsProved
  <2>2. /\ k(e.vote_a) \in cast /\ k(e.vote_b) \in cast /\ e.vote_a # e.vote_b
        /\ e.vote_a # Zero /\ e.vote_b # Zero
    BY <2>1, HashAssumption DEF Proved, Evidence, Hash
  <2>3. \A h : /\ k(h).vtype = "Notarize" /\ k(h).hash = h
               /\ k(h).author = e.author /\ k(h).view = e.view
    BY DEF create_vote
  <2>4. NoEquivocation
    BY NoDoubleVote
  <2> HIDE DEF k
  <2> QED
    BY <2>2, <2>3, <2>4 DEF NoEquivocation
<1> QED
  BY <1>1, InvCorrect, EvidenceCorrect, PTL
=============================================================================
