--------------------------- MODULE SimplexProofs ---------------------------
(***************************************************************************)
(* Proofs about Simplex, for every size of the committee, number of        *)
(* learners, bound on views and crashes, and outcome of block execution.   *)
(***************************************************************************)
EXTENDS Simplex, FiniteSetTheorems, TLAPS

-----------------------------------------------------------------------------
(***************************************************************************)
(* The inductive invariant.  What keeps a node from following a dangling   *)
(* hash is that every block named anywhere (in an orphan buffer, a queue,  *)
(* an inbox, a header) was created by a proposal.                          *)
(***************************************************************************)
CreatedBlock == {b \in Block : Created(b)}

ValidItem ==
    Vote \cup Evidence
    \cup [type : {"proposal", "response", "request", "drain"}, hash : CreatedBlock]

LinksCreated == \A b \in CreatedBlock : header[b].parent \in CreatedBlock \cup {Genesis}

OrphansCreated == \A n \in Node : orphans[n] \subseteq CreatedBlock

QueueCreated == \A n \in Node : queue[n] \in Seq(ValidItem)

InboxCreated == \A n \in Node : inbox[n] \subseteq ValidItem

HandlerInv ==
    /\ HandlerTypeOK
    /\ AncestorsStored
    /\ LinksCreated
    /\ OrphansCreated
    /\ QueueCreated

StructInv == HandlerInv /\ LoopTypeOK /\ InboxCreated

\* What a step does to headers: created blocks keep their contents.
HeadersKept == \A b \in CreatedBlock : header'[b] = header[b]

-----------------------------------------------------------------------------
(***************************************************************************)
(* Lemmas on types.                                                        *)
(***************************************************************************)
\* A sequence over a set is a sequence over any larger set.
LEMMA SeqMono ==
    ASSUME NEW S, NEW T, S \subseteq T, NEW q \in Seq(S)
    PROVE  q \in Seq(T)
<1>1. q \in [1 .. Len(q) -> S] /\ Len(q) \in Nat
  OBVIOUS
<1>2. q \in [1 .. Len(q) -> T]
  BY <1>1
<1> QED
  BY <1>1, <1>2

\* create_vote makes a vote.
LEMMA VoteType ==
    ASSUME NEW n \in Node, NEW v \in View, NEW h \in Block \cup {Zero},
           NEW t \in {"Notarize", "Finalize"}
    PROVE  create_vote(n, v, h, t) \in Vote
  BY DEF create_vote, Vote

\* The Finalize vote for a justify QC, if any, is a sequence of votes.
LEMMA FinalizeJustifyType ==
    ASSUME NEW n \in Node, NEW v \in Height, NEW h \in Block \cup {Zero}
    PROVE  FinalizeJustify(n, v, h) \in Seq(Vote)
<1>1. CASE v > 0
  <2>1. v \in View
    BY <1>1, BoundsAssumption DEF View, Height
  <2>2. create_vote(n, v, h, "Finalize") \in Vote
    BY <2>1, VoteType
  <2> QED
    BY <1>1, <2>2 DEF FinalizeJustify
<1>2. CASE ~(v > 0)
  BY <1>2 DEF FinalizeJustify
<1> QED
  BY <1>1, <1>2

\* update_preferred_chain keeps the fields in their types.
LEMMA PreferredType ==
    ASSUME NEW s \in ConsensusState, NEW v \in Height, NEW h \in Block \cup {Zero}
    PROVE  /\ UpdatePreferredChain(s, v, h) \in ConsensusState
           /\ UpdatePreferredChain(s, v, h).view = s.view
           /\ UpdatePreferredChain(s, v, h).last_voted_view = s.last_voted_view
  BY DEF UpdatePreferredChain, ConsensusState, Hash

\* Votes and evidence are always valid items, and valid items are items.
LEMMA ValidItems ==
    ASSUME HandlerTypeOK
    PROVE  /\ Vote \subseteq ValidItem /\ Evidence \subseteq ValidItem
           /\ ValidItem \subseteq Item
  BY DEF ValidItem, Item, Message, BlockMessage, Drain, CreatedBlock

\* Headers that are kept keep the validity of items.
LEMMA ValidItemGrows ==
    ASSUME HandlerTypeOK, HeadersKept
    PROVE  CreatedBlock \subseteq CreatedBlock' /\ ValidItem \subseteq ValidItem'
<1>1. CreatedBlock \subseteq CreatedBlock'
  BY DEF HeadersKept, CreatedBlock, Created
<1> QED
  BY <1>1 DEF ValidItem

\* A handler that leaves headers alone leaves the set of valid items alone.
LEMMA SameHeaders ==
    ASSUME header' = header
    PROVE  CreatedBlock' = CreatedBlock /\ ValidItem' = ValidItem /\ HeadersKept
  BY DEF CreatedBlock, ValidItem, HeadersKept, Created

\* Replacing the stack of one node by valid items keeps all stacks valid.
LEMMA QueueSet ==
    ASSUME HandlerInv, HandlerTypeOK', HeadersKept, NEW n \in Node,
           NEW q \in Seq(ValidItem'), queue' = [queue EXCEPT ![n] = q]
    PROVE  QueueCreated'
<1>1. ValidItem \subseteq ValidItem'
  BY ValidItemGrows DEF HandlerInv
<1>2. ASSUME NEW p \in Node PROVE queue'[p] \in Seq(ValidItem')
  <2>1. queue[p] \in Seq(ValidItem)
    BY DEF HandlerInv, QueueCreated
  <2>2. queue[p] \in Seq(ValidItem')
    BY <1>1, <2>1, SeqMono
  <2> QED
    BY <2>2 DEF HandlerInv, HandlerTypeOK
<1> QED
  BY <1>2 DEF QueueCreated

\* A stack of valid items is a stack of items.
LEMMA QueueType ==
    ASSUME HandlerTypeOK, NEW n \in Node, NEW q \in Seq(ValidItem')
    PROVE  [queue EXCEPT ![n] = q] \in [Node -> Seq(Item)]
<1>1. ValidItem' \subseteq Item
  BY DEF ValidItem, Item, Message, BlockMessage, Drain, CreatedBlock
<1>2. q \in Seq(Item)
  BY <1>1, SeqMono
<1> QED
  BY <1>2 DEF HandlerTypeOK

-----------------------------------------------------------------------------
(***************************************************************************)
(* on_vote keeps the invariant.                                            *)
(***************************************************************************)
\* on_vote that detects a double vote keeps the invariant.
LEMMA OnEquivocationInv ==
    ASSUME HandlerInv, NEW n \in Node, NEW m \in Vote, NEW rest \in Seq(ValidItem),
           OnEquivocation(n, m, rest)
    PROVE  HandlerInv' /\ HeadersKept
<1> DEFINE e == [type |-> "evidence", author |-> m.author, view |-> m.view,
                 vote_a |-> votes_received[n][m.view][m.author], vote_b |-> m.hash]
           q == IF IsNewEvidence(n, e) THEN <<e>> \o rest ELSE rest
<1>1. HandlerTypeOK
  BY DEF HandlerInv
<1>2. e \in Evidence
  BY <1>1 DEF OnEquivocation, IsEquivocation, HandlerTypeOK, Vote, Evidence
<1>3. CreatedBlock' = CreatedBlock /\ ValidItem' = ValidItem /\ HeadersKept
  BY SameHeaders DEF OnEquivocation
<1>4. e \in ValidItem
  BY <1>1, <1>2, ValidItems
<1>5. q \in Seq(ValidItem')
  BY <1>3, <1>4
<1>6. queue' = [queue EXCEPT ![n] = q]
  BY DEF OnEquivocation
<1>7. queue' \in [Node -> Seq(Item)]
  BY <1>1, <1>5, <1>6, QueueType
<1>8. evidence_pool' \in [Node -> SUBSET Evidence]
  BY <1>1, <1>2 DEF OnEquivocation, AddEvidence, HandlerTypeOK
<1>9. HandlerTypeOK'
  BY <1>1, <1>7, <1>8 DEF OnEquivocation, durable, HandlerTypeOK
<1>10. QueueCreated'
  BY <1>3, <1>5, <1>6, <1>9, QueueSet
<1>11. AncestorsStored' /\ LinksCreated' /\ OrphansCreated'
  BY <1>3 DEF OnEquivocation, durable, HandlerInv, AncestorsStored, LinksCreated,
              OrphansCreated, Created
<1> QED
  BY <1>3, <1>9, <1>10, <1>11 DEF HandlerInv

\* The table of a view's votes stays well typed.
LEMMA RecordVoteType ==
    ASSUME HandlerTypeOK, NEW n \in Node, NEW m \in Vote, RecordVote(n, m)
    PROVE  votes_received' \in [Node -> [View -> [Node -> Block \cup {Zero, None}]]]
<1>1. Tally(n, m) \in [Node -> Block \cup {Zero, None}]
  BY DEF HandlerTypeOK, Tally, Vote
<1> QED
  BY <1>1 DEF HandlerTypeOK, RecordVote, Vote

\* on_vote below the quorum keeps the invariant.
LEMMA OnVoteCountedInv ==
    ASSUME HandlerInv, NEW n \in Node, NEW m \in Vote, NEW rest \in Seq(ValidItem),
           OnVoteCounted(n, m, rest)
    PROVE  HandlerInv' /\ HeadersKept
<1>1. HandlerTypeOK
  BY DEF HandlerInv
<1>2. CreatedBlock' = CreatedBlock /\ ValidItem' = ValidItem /\ HeadersKept
  BY SameHeaders DEF OnVoteCounted
<1>3. queue' = [queue EXCEPT ![n] = rest] /\ rest \in Seq(ValidItem')
  BY <1>2 DEF OnVoteCounted
<1>4. queue' \in [Node -> Seq(Item)]
  BY <1>1, <1>3, QueueType
<1>5. votes_received' \in [Node -> [View -> [Node -> Block \cup {Zero, None}]]]
  BY <1>1, RecordVoteType DEF OnVoteCounted
<1>6. HandlerTypeOK'
  BY <1>1, <1>4, <1>5 DEF OnVoteCounted, durable, HandlerTypeOK
<1>7. QueueCreated'
  BY <1>2, <1>3, <1>6, QueueSet
<1>8. AncestorsStored' /\ LinksCreated' /\ OrphansCreated'
  BY <1>2 DEF OnVoteCounted, durable, HandlerInv, AncestorsStored, LinksCreated,
              OrphansCreated, Created
<1> QED
  BY <1>2, <1>6, <1>7, <1>8 DEF HandlerInv

\* The consensus fields stay well typed when a QC forms.
LEMMA AfterQCType ==
    ASSUME HandlerTypeOK, NEW n \in Node, NEW m \in Vote
    PROVE  AfterQC(n, m) \in ConsensusState
<1> DEFINE s == UpdatePreferredChain(st[n], m.view, m.hash)
<1>1. m.view \in View /\ m.view \in Height /\ m.hash \in Block \cup {Zero}
  BY BoundsAssumption DEF Vote, View, Height
<1>2. s \in ConsensusState
  BY <1>1, PreferredType DEF HandlerTypeOK
<1>3. m.view + 1 \in View \cup {MaxView + 1}
  BY <1>1, BoundsAssumption DEF View
<1> QED
  BY <1>2, <1>3 DEF AfterQC, ConsensusState

\* Storing a QC and the fields keeps them well typed.
LEMMA SaveQCType ==
    ASSUME HandlerTypeOK, NEW n \in Node, NEW m \in Vote, SaveQC(n, m)
    PROVE  qcs' \in [Node -> [Height -> Block \cup {Zero, None}]]
<1>1. m.view \in Height /\ m.hash \in Block \cup {Zero, None}
  BY BoundsAssumption DEF Vote, View, Height
<1> QED
  BY <1>1 DEF SaveQC, HandlerTypeOK

\* persist_state keeps the fields, in memory and on disk, well typed.
LEMMA PersistType ==
    ASSUME HandlerTypeOK, NEW n \in Node, NEW s \in ConsensusState, PersistState(n, s)
    PROVE  st' \in [Node -> ConsensusState] /\ saved' \in [Node -> ConsensusState]
  BY DEF PersistState, HandlerTypeOK

\* A proposal on a stored parent creates a block whose ancestry is stored.
LEMMA CreateProposalInv ==
    ASSUME HandlerInv, NEW n \in Node, NEW b \in Block, NEW v, NEW parent,
           parent \in blocks[n], NEW h \in Block \cup {Zero},
           CreateProposal(n, b, v, parent, h)
    PROVE  /\ header' \in [Block -> Header \cup {None}]
           /\ blocks' \in [Node -> SUBSET Hash]
           /\ HeadersKept /\ LinksCreated' /\ AncestorsStored'
           /\ b \in CreatedBlock' /\ CreatedBlock \subseteq CreatedBlock'
<1> DEFINE hd == [parent |-> parent, justify |-> h, evidence |-> evidence_pool[n]]
<1>1. HandlerTypeOK
  BY DEF HandlerInv
<1>2. parent \in Hash /\ hd \in Header
  BY <1>1 DEF HandlerTypeOK, Header
<1>3. header' = [header EXCEPT ![b] = hd] /\ header[b] \in {None, hd}
  BY DEF CreateProposal
<1>4. header' \in [Block -> Header \cup {None}]
  BY <1>1, <1>2, <1>3 DEF HandlerTypeOK
<1>5. blocks' = [blocks EXCEPT ![n] = @ \cup {b}]
  BY DEF CreateProposal
<1>6. blocks' \in [Node -> SUBSET Hash]
  BY <1>1, <1>5 DEF HandlerTypeOK, Hash
<1>7. hd # None
  \* A header is a record with a parent, and None is no header.
  BY <1>2, HeaderAssumption
<1>8. HeadersKept
  BY <1>1, <1>3 DEF HeadersKept, CreatedBlock, Created, HandlerTypeOK
<1>9. b \in CreatedBlock' /\ CreatedBlock \subseteq CreatedBlock'
  BY <1>1, <1>3, <1>7, <1>8 DEF HeadersKept, CreatedBlock, Created, HandlerTypeOK
<1>10. parent \in CreatedBlock \cup {Genesis}
  BY <1>1 DEF HandlerInv, HandlerTypeOK, AncestorsStored, CreatedBlock, Hash
<1>11. CreatedBlock' = CreatedBlock \cup {b}
  BY <1>1, <1>3, <1>7 DEF CreatedBlock, Created, HandlerTypeOK
<1>12. LinksCreated'
  <2>1. ASSUME NEW c \in CreatedBlock' PROVE header'[c].parent \in CreatedBlock' \cup {Genesis}
    <3>1. CASE c = b
      BY <3>1, <1>1, <1>3, <1>9, <1>10 DEF HandlerTypeOK
    <3>2. CASE c # b
      <4>1. c \in CreatedBlock /\ header'[c] = header[c]
        BY <3>2, <1>11, <1>8 DEF HeadersKept
      <4> QED
        BY <4>1, <1>9 DEF HandlerInv, LinksCreated
    <3> QED
      BY <3>1, <3>2
  <2> QED
    BY <2>1 DEF LinksCreated
<1>13. AncestorsStored'
  <2>1. ASSUME NEW p \in Node, NEW c \in blocks'[p] \ {Genesis}
        PROVE  Created(c)' /\ header'[c].parent \in blocks'[p]
    <3>1. CASE c \in blocks[p]
      <4>1. c \in CreatedBlock /\ header[c].parent \in blocks[p]
        BY <3>1, <1>1 DEF HandlerInv, AncestorsStored, CreatedBlock, HandlerTypeOK, Hash
      <4> QED
        BY <4>1, <1>1, <1>5, <1>8, <1>9 DEF HeadersKept, CreatedBlock, HandlerTypeOK
    <3>2. CASE c \notin blocks[p]
      <4>1. p = n /\ c = b
        BY <3>2, <1>1, <1>5 DEF HandlerTypeOK
      <4> QED
        BY <4>1, <1>1, <1>3, <1>5, <1>7 DEF HandlerTypeOK, Created
    <3> QED
      BY <3>1, <3>2
  <2>2. \A p \in Node : Genesis \in blocks'[p]
    BY <1>1, <1>5 DEF HandlerInv, AncestorsStored, HandlerTypeOK
  <2> QED
    BY <2>1, <2>2 DEF AncestorsStored
<1> QED
  BY <1>4, <1>6, <1>8, <1>9, <1>12, <1>13

\* on_vote that forms a QC without proposing keeps the invariant.
LEMMA OnVoteQCInv ==
    ASSUME HandlerInv, NEW n \in Node, NEW m \in Vote, NEW rest \in Seq(ValidItem),
           OnVoteQC(n, m, rest)
    PROVE  HandlerInv' /\ HeadersKept
<1> DEFINE q == <<create_vote(n, m.view, m.hash, "Finalize")>> \o rest
<1>1. HandlerTypeOK
  BY DEF HandlerInv
<1>2. CreatedBlock' = CreatedBlock /\ ValidItem' = ValidItem /\ HeadersKept
  BY SameHeaders DEF OnVoteQC
<1>3. create_vote(n, m.view, m.hash, "Finalize") \in ValidItem
  BY <1>1, VoteType, ValidItems DEF Vote
<1>4. queue' = [queue EXCEPT ![n] = q] /\ q \in Seq(ValidItem')
  BY <1>2, <1>3 DEF OnVoteQC
<1>5. queue' \in [Node -> Seq(Item)]
  BY <1>1, <1>4, QueueType
<1>6. votes_received' \in [Node -> [View -> [Node -> Block \cup {Zero, None}]]]
  BY <1>1, RecordVoteType DEF OnVoteQC
<1>7. st' \in [Node -> ConsensusState] /\ saved' \in [Node -> ConsensusState]
  BY <1>1, AfterQCType, PersistType DEF OnVoteQC
<1>8. qcs' \in [Node -> [Height -> Block \cup {Zero, None}]]
  BY <1>1, SaveQCType DEF OnVoteQC
<1>9. HandlerTypeOK'
  BY <1>1, <1>5, <1>6, <1>7, <1>8 DEF OnVoteQC, HandlerTypeOK
<1>10. QueueCreated'
  BY <1>2, <1>4, <1>9, QueueSet
<1>11. AncestorsStored' /\ LinksCreated' /\ OrphansCreated'
  BY <1>2 DEF OnVoteQC, HandlerInv, AncestorsStored, LinksCreated, OrphansCreated, Created
<1> QED
  BY <1>2, <1>9, <1>10, <1>11 DEF HandlerInv

\* on_vote that forms a QC and proposes the next block keeps the invariant.
LEMMA OnVoteQCProposeInv ==
    ASSUME HandlerInv, NEW n \in Node, NEW m \in Vote, NEW rest \in Seq(ValidItem),
           OnVoteQCPropose(n, m, rest)
    PROVE  HandlerInv' /\ HeadersKept
<1> DEFINE v == m.view + 1
           s == AfterQC(n, m)
           parent == ParentFor(s, m.hash)
           q(b) == FinalizeJustify(n, m.view, m.hash)
                   \o <<create_vote(n, v, b, "Notarize"),
                        [type |-> "proposal", hash |-> b],
                        create_vote(n, m.view, m.hash, "Finalize")>>
                   \o rest
<1>1. HandlerTypeOK
  BY DEF HandlerInv
<1>2. m.view \in View /\ m.view \in Height /\ m.hash \in Block \cup {Zero}
  BY BoundsAssumption DEF Vote, View, Height
<1>3. v =< MaxView /\ parent \in blocks[n]
  BY DEF OnVoteQCPropose, CanPropose
<1>4. v \in View /\ v \in Height
  BY <1>2, <1>3, BoundsAssumption DEF View, Height
<1>5. PICK b \in Block : CreateProposal(n, b, v, parent, m.hash)
                         /\ queue' = [queue EXCEPT ![n] = q(b)]
  BY DEF OnVoteQCPropose
<1>6. /\ header' \in [Block -> Header \cup {None}]
      /\ blocks' \in [Node -> SUBSET Hash]
      /\ HeadersKept /\ LinksCreated' /\ AncestorsStored'
      /\ b \in CreatedBlock' /\ CreatedBlock \subseteq CreatedBlock'
  BY <1>2, <1>3, <1>5, CreateProposalInv
<1>7. ValidItem \subseteq ValidItem' /\ Vote \subseteq ValidItem'
  BY <1>1, <1>6, ValidItemGrows DEF ValidItem
<1>8. q(b) \in Seq(ValidItem')
  <2>1. FinalizeJustify(n, m.view, m.hash) \in Seq(ValidItem')
    BY <1>2, <1>7, FinalizeJustifyType, SeqMono
  <2>2. /\ create_vote(n, v, b, "Notarize") \in ValidItem'
        /\ create_vote(n, m.view, m.hash, "Finalize") \in ValidItem'
    BY <1>2, <1>4, <1>7, VoteType
  <2>3. [type |-> "proposal", hash |-> b] \in ValidItem'
    BY <1>6 DEF ValidItem
  <2>4. rest \in Seq(ValidItem')
    BY <1>7, SeqMono
  <2> QED
    BY <2>1, <2>2, <2>3, <2>4
<1>9. queue' \in [Node -> Seq(Item)]
  BY <1>1, <1>5, <1>8, QueueType
<1>10. votes_received' \in [Node -> [View -> [Node -> Block \cup {Zero, None}]]]
  BY <1>1, RecordVoteType DEF OnVoteQCPropose
<1>11. [s EXCEPT !.last_voted_view = v] \in ConsensusState
  BY <1>1, <1>4, AfterQCType DEF ConsensusState
<1>12. st' \in [Node -> ConsensusState] /\ saved' \in [Node -> ConsensusState]
  <2>1. PersistState(n, [s EXCEPT !.last_voted_view = v])
    BY DEF OnVoteQCPropose
  <2> QED
    BY <1>1, <1>11, <2>1, PersistType
<1>13. qcs' \in [Node -> [Height -> Block \cup {Zero, None}]]
  BY <1>1, SaveQCType DEF OnVoteQCPropose
<1>14. HandlerTypeOK'
  BY <1>1, <1>6, <1>9, <1>10, <1>12, <1>13 DEF OnVoteQCPropose, HandlerTypeOK
<1>15. QueueCreated'
  BY <1>5, <1>6, <1>8, <1>14, QueueSet
<1>16. OrphansCreated'
  BY <1>6 DEF OnVoteQCPropose, HandlerInv, OrphansCreated
<1> QED
  BY <1>6, <1>14, <1>15, <1>16 DEF HandlerInv

\* on_finalize_vote, with or without a commit, keeps the invariant.
LEMMA OnFinalizeVoteInv ==
    ASSUME HandlerInv, NEW n \in Node, NEW m \in Vote, NEW rest \in Seq(ValidItem),
           OnFinalizeVote(n, m, rest)
    PROVE  HandlerInv' /\ HeadersKept
<1>1. HandlerTypeOK
  BY DEF HandlerInv
<1>2. CreatedBlock' = CreatedBlock /\ ValidItem' = ValidItem /\ HeadersKept
  BY SameHeaders DEF OnFinalizeVote
<1>3. queue' = [queue EXCEPT ![n] = rest] /\ rest \in Seq(ValidItem')
  BY <1>2 DEF OnFinalizeVote
<1>4. queue' \in [Node -> Seq(Item)]
  BY <1>1, <1>3, QueueType
<1>5. m.view \in View /\ m.view \in Height /\ m.hash \in Block \cup {Zero} /\ m.author \in Node
  BY BoundsAssumption DEF Vote, View, Height
<1>6. finalize_votes' \in [Node -> [View -> SUBSET Node]]
  BY <1>1, <1>5 DEF OnFinalizeVote, FinalizeTally, HandlerTypeOK
<1>7. [st[n] EXCEPT !.finalized_height = m.view] \in ConsensusState
  <2>1. st[n] \in ConsensusState
    BY <1>1 DEF HandlerTypeOK
  <2> QED
    BY <1>5, <2>1 DEF ConsensusState
<1>8. st' \in [Node -> ConsensusState] /\ saved' \in [Node -> ConsensusState]
  BY <1>1, <1>7, PersistType DEF OnFinalizeVote, HandlerTypeOK
<1>9. committed' \in [Node -> SUBSET Block]
  <2>1. m.hash \in blocks[n] => m.hash \in Block
    BY <1>1, <1>5, HashAssumption DEF HandlerTypeOK
  <2>2. \/ m.hash \in blocks[n] /\ committed' = [committed EXCEPT ![n] = @ \cup {m.hash}]
        \/ committed' = committed
    BY Zenon DEF OnFinalizeVote, CommitFinalized
  <2>3. committed \in [Node -> SUBSET Block]
    BY <1>1 DEF HandlerTypeOK
  <2> QED
    BY <2>1, <2>2, <2>3
<1>10. HandlerTypeOK'
  BY <1>1, <1>4, <1>6, <1>8, <1>9 DEF OnFinalizeVote, HandlerTypeOK
<1>11. QueueCreated'
  BY <1>2, <1>3, <1>10, QueueSet
<1>12. AncestorsStored' /\ LinksCreated' /\ OrphansCreated'
  BY <1>2 DEF OnFinalizeVote, HandlerInv, AncestorsStored, LinksCreated, OrphansCreated,
              Created
<1> QED
  BY <1>2, <1>10, <1>11, <1>12 DEF HandlerInv

\* on_vote keeps the invariant, whatever the vote.
LEMMA OnVoteInv ==
    ASSUME HandlerInv, NEW n \in Node, NEW m \in Vote, NEW rest \in Seq(ValidItem),
           OnVote(n, m, rest)
    PROVE  HandlerInv' /\ HeadersKept
  BY OnFinalizeVoteInv, OnEquivocationInv, OnVoteCountedInv, OnVoteQCInv,
     OnVoteQCProposeInv DEF OnVote

-----------------------------------------------------------------------------
(***************************************************************************)
(* Proposals and synchronization keep the invariant.                       *)
(***************************************************************************)
\* A created block has a header, and its justify QC a view below its own.
LEMMA HeaderType ==
    ASSUME HandlerTypeOK, NEW b \in CreatedBlock
    PROVE  /\ b \in Block /\ header[b] \in Header
           /\ b[1] \in View /\ b[1] - 1 \in Height
           /\ header[b].parent \in Hash /\ header[b].justify \in Block \cup {Zero}
<1>1. b \in Block /\ header[b] \in Header
  BY DEF CreatedBlock, Created, HandlerTypeOK
<1>2. b[1] \in View
  BY <1>1 DEF Block
<1>3. b[1] - 1 \in Height
  BY <1>2, BoundsAssumption DEF View, Height
<1> QED
  BY <1>1, <1>2, <1>3 DEF Header

\* The consensus fields stay well typed when a block is stored.
LEMMA AfterStoreType ==
    ASSUME HandlerTypeOK, NEW n \in Node, NEW b \in CreatedBlock
    PROVE  AfterStore(n, b) \in ConsensusState
<1>1. b[1] - 1 \in Height /\ header[b].justify \in Block \cup {Zero}
  BY HeaderType
<1>2. st[n] \in ConsensusState
  BY DEF HandlerTypeOK
<1> QED
  BY <1>1, <1>2, PreferredType DEF AfterStore

\* Saving a block whose parent is stored keeps the ancestry stored.
LEMMA BlockSavedInv ==
    ASSUME HandlerInv, NEW n \in Node, NEW b \in CreatedBlock, ~Orphaned(n, b),
           blocks' = [blocks EXCEPT ![n] = @ \cup {b}], header' = header
    PROVE  blocks' \in [Node -> SUBSET Hash] /\ AncestorsStored' /\ LinksCreated'
<1>1. HandlerTypeOK
  BY DEF HandlerInv
<1>2. b \in Block /\ header[b] \in Header
  BY <1>1, HeaderType
<1>3. blocks' \in [Node -> SUBSET Hash]
  BY <1>1, <1>2 DEF HandlerTypeOK, Hash
<1>4. header[b].parent \in blocks[n]
  BY <1>2, HashAssumption DEF Orphaned, HandlerInv, AncestorsStored
<1>5. AncestorsStored'
  BY <1>1, <1>4 DEF HandlerInv, AncestorsStored, HandlerTypeOK, Created, CreatedBlock
<1>6. LinksCreated'
  BY SameHeaders DEF HandlerInv, LinksCreated
<1> QED
  BY <1>3, <1>5, <1>6

\* validate_and_store_block keeps the ancestry stored.
LEMMA StoreBlockInv ==
    ASSUME HandlerInv, NEW n \in Node, NEW b \in CreatedBlock, StoreBlock(n, b),
           header' = header
    PROVE  /\ blocks' \in [Node -> SUBSET Hash]
           /\ evidence_pool' \in [Node -> SUBSET Evidence]
           /\ AncestorsStored' /\ LinksCreated'
<1>1. evidence_pool' \in [Node -> SUBSET Evidence]
  BY DEF StoreBlock, HandlerInv, HandlerTypeOK
<1> QED
  BY <1>1, BlockSavedInv DEF StoreBlock

\* Buffering a block and requesting its parent keeps the invariant.
LEMMA BufferOrphanInv ==
    ASSUME HandlerInv, NEW n \in Node, NEW b \in CreatedBlock, NEW rest \in Seq(ValidItem),
           BufferOrphan(n, b, rest),
           UNCHANGED <<votes_received, finalize_votes, qcs, committed, header>>
    PROVE  HandlerInv' /\ HeadersKept
<1> DEFINE q == <<[type |-> "request", hash |-> header[b].parent]>> \o rest
<1>1. HandlerTypeOK
  BY DEF HandlerInv
<1>2. CreatedBlock' = CreatedBlock /\ ValidItem' = ValidItem /\ HeadersKept
  BY SameHeaders
<1>3. header[b].parent \in CreatedBlock
  BY DEF BufferOrphan, Orphaned, HandlerInv, LinksCreated, AncestorsStored
<1>4. [type |-> "request", hash |-> header[b].parent] \in ValidItem
  BY <1>3 DEF ValidItem
<1>5. queue' = [queue EXCEPT ![n] = q] /\ q \in Seq(ValidItem')
  BY <1>2, <1>4 DEF BufferOrphan
<1>6. queue' \in [Node -> Seq(Item)]
  BY <1>1, <1>5, QueueType
<1>7. orphans' \in [Node -> SUBSET Block] /\ OrphansCreated'
  BY <1>1, <1>2, HeaderType DEF BufferOrphan, HandlerInv, HandlerTypeOK, OrphansCreated
<1>8. HandlerTypeOK'
  BY <1>1, <1>6, <1>7 DEF BufferOrphan, HandlerTypeOK
<1>9. QueueCreated'
  BY <1>2, <1>5, <1>8, QueueSet
<1>10. AncestorsStored' /\ LinksCreated'
  BY <1>2 DEF BufferOrphan, HandlerInv, AncestorsStored, LinksCreated, Created
<1> QED
  BY <1>2, <1>7, <1>8, <1>9, <1>10 DEF HandlerInv

\* A block is dropped, or consumed without effect.
LEMMA IgnoreBlockInv ==
    ASSUME HandlerInv, NEW n \in Node, NEW rest \in Seq(ValidItem),
           NEW pending \in SUBSET orphans[n],
           queue' = [queue EXCEPT ![n] = rest],
           orphans' = [orphans EXCEPT ![n] = pending],
           UNCHANGED <<st, saved, blocks, evidence_pool>>,
           UNCHANGED <<votes_received, finalize_votes, qcs, committed, header>>
    PROVE  HandlerInv' /\ HeadersKept
<1>1. HandlerTypeOK
  BY DEF HandlerInv
<1>2. CreatedBlock' = CreatedBlock /\ ValidItem' = ValidItem /\ HeadersKept
  BY SameHeaders
<1>3. queue' \in [Node -> Seq(Item)]
  BY <1>1, <1>2, QueueType
<1>4. orphans' \in [Node -> SUBSET Block] /\ OrphansCreated'
  BY <1>1, <1>2 DEF HandlerInv, HandlerTypeOK, OrphansCreated
<1>5. HandlerTypeOK'
  BY <1>1, <1>3, <1>4 DEF HandlerTypeOK
<1>6. QueueCreated'
  BY <1>2, <1>5, QueueSet
<1>7. AncestorsStored' /\ LinksCreated'
  BY <1>2 DEF HandlerInv, AncestorsStored, LinksCreated, Created
<1> QED
  BY <1>2, <1>4, <1>5, <1>6, <1>7 DEF HandlerInv

\* Storing a block, with any new fields, orphans and stack that are valid.
LEMMA StoredInv ==
    ASSUME HandlerInv, NEW n \in Node, NEW b \in CreatedBlock, StoreBlock(n, b),
           NEW s \in ConsensusState, PersistState(n, s),
           NEW pending \in SUBSET orphans[n], orphans' = [orphans EXCEPT ![n] = pending],
           NEW q \in Seq(ValidItem), queue' = [queue EXCEPT ![n] = q],
           UNCHANGED <<votes_received, finalize_votes, qcs, committed, header>>
    PROVE  HandlerInv' /\ HeadersKept
<1>1. HandlerTypeOK
  BY DEF HandlerInv
<1>2. CreatedBlock' = CreatedBlock /\ ValidItem' = ValidItem /\ HeadersKept
  BY SameHeaders
<1>3. queue' \in [Node -> Seq(Item)]
  BY <1>1, <1>2, QueueType
<1>4. orphans' \in [Node -> SUBSET Block] /\ OrphansCreated'
  BY <1>1, <1>2 DEF HandlerInv, HandlerTypeOK, OrphansCreated
<1>5. st' \in [Node -> ConsensusState] /\ saved' \in [Node -> ConsensusState]
  BY <1>1, PersistType
<1>6. /\ blocks' \in [Node -> SUBSET Hash]
      /\ evidence_pool' \in [Node -> SUBSET Evidence]
      /\ AncestorsStored' /\ LinksCreated'
  BY StoreBlockInv
<1>7. HandlerTypeOK'
  BY <1>1, <1>3, <1>4, <1>5, <1>6 DEF HandlerTypeOK
<1>8. QueueCreated'
  BY <1>2, <1>7, QueueSet
<1> QED
  BY <1>2, <1>4, <1>6, <1>7, <1>8 DEF HandlerInv

\* on_proposal keeps the invariant.
LEMMA OnProposalInv ==
    ASSUME HandlerInv, NEW n \in Node, NEW b \in CreatedBlock, NEW rest \in Seq(ValidItem),
           OnProposal(n, b, rest)
    PROVE  HandlerInv' /\ HeadersKept
<1> DEFINE s == [AfterStore(n, b) EXCEPT !.view = b[1]]
<1>1. HandlerTypeOK
  BY DEF HandlerInv
<1>2. UNCHANGED <<votes_received, finalize_votes, qcs, committed, header>>
  BY DEF OnProposal
<1>3. UNCHANGED orphans => orphans' = [orphans EXCEPT ![n] = orphans[n]]
  BY <1>1 DEF HandlerTypeOK
<1>4. CASE BufferOrphan(n, b, rest)
  BY <1>2, <1>4, BufferOrphanInv
<1>5. CASE /\ queue' = [queue EXCEPT ![n] = rest]
           /\ UNCHANGED <<st, saved, blocks, evidence_pool, orphans>>
  BY <1>2, <1>3, <1>5, IgnoreBlockInv
<1>6. CASE OnProposalStored(n, b, rest)
  <2>1. b \in Block /\ b[1] \in View /\ b[1] \in Height /\ b[1] - 1 \in Height
        /\ header[b].justify \in Block \cup {Zero}
    BY <1>1, HeaderType, BoundsAssumption DEF View, Height
  <2>2. s \in ConsensusState /\ [s EXCEPT !.last_voted_view = b[1]] \in ConsensusState
    BY <1>1, <2>1, AfterStoreType DEF ConsensusState
  <2>3. ProposalVotes(n, b) \in Seq(ValidItem)
    <3>1. Vote \subseteq ValidItem
      BY <1>1, ValidItems
    <3>2. FinalizeJustify(n, b[1] - 1, header[b].justify) \in Seq(ValidItem)
      BY <2>1, <3>1, FinalizeJustifyType, SeqMono
    <3>3. create_vote(n, b[1], b, "Notarize") \in ValidItem
      BY <2>1, <3>1, VoteType
    <3> QED
      BY <3>2, <3>3 DEF ProposalVotes
  <2>4. ProposalVotes(n, b) \o rest \in Seq(ValidItem)
    BY <2>3
  <2>5. StoreBlock(n, b) /\ orphans' = [orphans EXCEPT ![n] = orphans[n]]
    BY <1>3, <1>6 DEF OnProposalStored
  <2>6. \/ PersistState(n, s) /\ queue' = [queue EXCEPT ![n] = rest]
        \/ /\ PersistState(n, [s EXCEPT !.last_voted_view = b[1]])
           /\ queue' = [queue EXCEPT ![n] = ProposalVotes(n, b) \o rest]
    BY <1>6, Zenon DEF OnProposalStored
  <2> HIDE DEF s
  <2>7. CASE PersistState(n, s) /\ queue' = [queue EXCEPT ![n] = rest]
    BY <1>2, <2>2, <2>5, <2>7, StoredInv
  <2>8. CASE /\ PersistState(n, [s EXCEPT !.last_voted_view = b[1]])
             /\ queue' = [queue EXCEPT ![n] = ProposalVotes(n, b) \o rest]
    BY <1>2, <2>2, <2>4, <2>5, <2>8, StoredInv
  <2> QED
    BY <2>6, <2>7, <2>8
<1> QED
  BY <1>4, <1>5, <1>6 DEF OnProposal, RejectBlock

\* on_block_response for a block that is stored, or can be.
LEMMA OnResponseStoredInv ==
    ASSUME HandlerInv, NEW n \in Node, NEW b \in CreatedBlock, NEW rest \in Seq(ValidItem),
           NEW pending \in SUBSET orphans[n], OnResponseStored(n, b, pending, rest),
           UNCHANGED <<votes_received, finalize_votes, qcs, committed, header>>
    PROVE  HandlerInv' /\ HeadersKept
<1> DEFINE a == AfterStore(n, b)
           s == IF b[1] >= a.view THEN [a EXCEPT !.view = b[1]] ELSE a
           q == IF Waiting(n, b, pending) = {} THEN rest
                ELSE <<[type |-> "drain", hash |-> b]>> \o rest
<1>1. HandlerTypeOK
  BY DEF HandlerInv
<1>2. b[1] \in View
  BY <1>1, HeaderType
<1>3. s \in ConsensusState
  BY <1>1, <1>2, AfterStoreType DEF ConsensusState
<1>4. [type |-> "drain", hash |-> b] \in ValidItem
  BY DEF ValidItem
<1>5. q \in Seq(ValidItem)
  BY <1>4
<1>6. /\ StoreBlock(n, b) /\ PersistState(n, s)
      /\ orphans' = [orphans EXCEPT ![n] = pending]
      /\ queue' = [queue EXCEPT ![n] = q]
  BY DEF OnResponseStored
<1> HIDE DEF s, q
<1> QED
  BY <1>3, <1>5, <1>6, StoredInv

\* on_block_response keeps the invariant.
LEMMA OnBlockResponseInv ==
    ASSUME HandlerInv, NEW n \in Node, NEW b \in CreatedBlock, NEW rest \in Seq(ValidItem),
           OnBlockResponse(n, b, rest)
    PROVE  HandlerInv' /\ HeadersKept
<1>1. UNCHANGED <<votes_received, finalize_votes, qcs, committed, header>>
  BY DEF OnBlockResponse
<1>2. CASE BufferOrphan(n, b, rest)
  BY <1>1, <1>2, BufferOrphanInv
<1>3. CASE RejectBlock(n, b, rest)
  <2>1. orphans' = [orphans EXCEPT ![n] = orphans[n]]
    BY <1>3 DEF RejectBlock, HandlerInv, HandlerTypeOK
  <2> QED
    BY <1>1, <1>3, <2>1, IgnoreBlockInv DEF RejectBlock
<1>4. CASE OnResponseStored(n, b, orphans[n], rest)
  BY <1>1, <1>4, OnResponseStoredInv
<1> QED
  BY <1>2, <1>3, <1>4 DEF OnBlockResponse

\* Processing one buffered orphan keeps the invariant.
LEMMA DrainOrphanInv ==
    ASSUME HandlerInv, NEW n \in Node, NEW b \in CreatedBlock, NEW rest \in Seq(ValidItem),
           DrainOrphan(n, b, rest)
    PROVE  HandlerInv' /\ HeadersKept
<1> DEFINE left(o) == IF Waiting(n, b, orphans[n] \ {o}) = {} THEN rest
                      ELSE <<[type |-> "drain", hash |-> b]>> \o rest
<1>1. UNCHANGED <<votes_received, finalize_votes, qcs, committed, header>>
  BY DEF DrainOrphan
<1>2. PICK o \in Waiting(n, b, orphans[n]) :
         \/ OnResponseStored(n, o, orphans[n] \ {o}, left(o))
         \/ /\ orphans' = [orphans EXCEPT ![n] = orphans[n] \ {o}]
            /\ queue' = [queue EXCEPT ![n] = left(o)]
            /\ UNCHANGED <<st, saved, blocks, evidence_pool>>
  BY Zenon DEF DrainOrphan
<1>3. o \in CreatedBlock
  BY <1>2 DEF Waiting, HandlerInv, OrphansCreated
<1>4. [type |-> "drain", hash |-> b] \in ValidItem
  BY DEF ValidItem
<1>5. left(o) \in Seq(ValidItem)
  BY <1>4
<1> HIDE DEF left
<1>6. CASE OnResponseStored(n, o, orphans[n] \ {o}, left(o))
  BY <1>1, <1>3, <1>5, <1>6, OnResponseStoredInv
<1>7. CASE /\ orphans' = [orphans EXCEPT ![n] = orphans[n] \ {o}]
           /\ queue' = [queue EXCEPT ![n] = left(o)]
           /\ UNCHANGED <<st, saved, blocks, evidence_pool>>
  BY <1>1, <1>5, <1>7, IgnoreBlockInv
<1> QED
  BY <1>2, <1>6, <1>7

\* on_block_request keeps the invariant.
LEMMA OnBlockRequestInv ==
    ASSUME HandlerInv, NEW n \in Node, NEW h \in CreatedBlock, NEW rest \in Seq(ValidItem),
           OnBlockRequest(n, h, rest)
    PROVE  HandlerInv' /\ HeadersKept
<1> DEFINE q == IF h \in blocks[n] THEN <<[type |-> "response", hash |-> h]>> \o rest
                ELSE rest
<1>1. [type |-> "response", hash |-> h] \in ValidItem
  BY DEF ValidItem
<1>2. q \in Seq(ValidItem)
  BY <1>1
<1>3. queue' = [queue EXCEPT ![n] = q]
  BY DEF OnBlockRequest
<1>4. orphans' = [orphans EXCEPT ![n] = orphans[n]]
  BY DEF OnBlockRequest, HandlerInv, HandlerTypeOK
<1> HIDE DEF q
<1> QED
  BY <1>2, <1>3, <1>4, IgnoreBlockInv DEF OnBlockRequest, durable

\* Evidence from the network keeps the invariant.
LEMMA OnEvidenceInv ==
    ASSUME HandlerInv, NEW n \in Node, NEW e \in Evidence, NEW rest \in Seq(ValidItem),
           OnEvidence(n, e, rest)
    PROVE  HandlerInv' /\ HeadersKept
<1>1. HandlerTypeOK
  BY DEF HandlerInv
<1>2. CreatedBlock' = CreatedBlock /\ ValidItem' = ValidItem /\ HeadersKept
  BY SameHeaders DEF OnEvidence
<1>3. queue' = [queue EXCEPT ![n] = rest] /\ rest \in Seq(ValidItem')
  BY <1>2 DEF OnEvidence
<1>4. queue' \in [Node -> Seq(Item)]
  BY <1>1, <1>3, QueueType
<1>5. evidence_pool' \in [Node -> SUBSET Evidence]
  BY <1>1 DEF OnEvidence, AddEvidence, HandlerTypeOK
<1>6. HandlerTypeOK'
  BY <1>1, <1>4, <1>5 DEF OnEvidence, durable, HandlerTypeOK
<1>7. QueueCreated'
  BY <1>2, <1>3, <1>6, QueueSet
<1>8. AncestorsStored' /\ LinksCreated' /\ OrphansCreated'
  BY <1>2 DEF OnEvidence, durable, HandlerInv, AncestorsStored, LinksCreated,
              OrphansCreated, Created
<1> QED
  BY <1>2, <1>6, <1>7, <1>8 DEF HandlerInv

-----------------------------------------------------------------------------
(***************************************************************************)
(* The event loop keeps the invariant.                                     *)
(***************************************************************************)
\* The type field tells what an item is.
LEMMA ItemKinds ==
    ASSUME NEW m \in ValidItem
    PROVE  /\ m.type = "vote" => m \in Vote
           /\ m.type = "evidence" => m \in Evidence
           /\ m.type \in {"proposal", "response", "request", "drain"} =>
                 m.hash \in CreatedBlock
           /\ m.type # "drain" => m \in Message
  BY DEF ValidItem, Vote, Evidence, Message, BlockMessage, CreatedBlock

\* The top of a stack and what is below it are valid.
LEMMA TopOfStack ==
    ASSUME HandlerInv, NEW n \in Node, queue[n] # <<>>
    PROVE  Head(queue[n]) \in ValidItem /\ Tail(queue[n]) \in Seq(ValidItem)
<1>1. queue[n] \in Seq(ValidItem)
  BY DEF HandlerInv, QueueCreated
<1> QED
  BY <1>1

\* Messages under way stay valid in a step that delivers and sends none.
LEMMA InboxKept ==
    ASSUME StructInv, HeadersKept, inbox' = inbox
    PROVE  InboxCreated'
<1>1. ValidItem \subseteq ValidItem'
  BY ValidItemGrows DEF StructInv, HandlerInv
<1> QED
  BY <1>1 DEF StructInv, InboxCreated

\* A broadcast puts only valid messages under way.
LEMMA BroadcastInv ==
    ASSUME StructInv, HeadersKept, NEW n \in Node, NEW m \in ValidItem, m.type # "drain",
           Broadcast(n, m)
    PROVE  /\ inbox' \in [Node -> SUBSET Message] /\ cast' \in SUBSET Vote
           /\ InboxCreated'
<1>1. m \in Message /\ (m.type = "vote" => m \in Vote)
  BY ItemKinds
<1>2. inbox' \in [Node -> SUBSET Message] /\ cast' \in SUBSET Vote
  BY <1>1 DEF Broadcast, StructInv, LoopTypeOK
<1>3. ValidItem \subseteq ValidItem'
  BY ValidItemGrows DEF StructInv, HandlerInv
<1>4. InboxCreated'
  BY <1>3 DEF Broadcast, StructInv, InboxCreated
<1> QED
  BY <1>2, <1>4

\* A network event keeps the invariant.
LEMMA ReceiveInv ==
    ASSUME StructInv, NEW n \in Node, NEW m \in inbox[n], Receive(n, m)
    PROVE  StructInv'
<1>1. HandlerInv /\ m \in ValidItem
  BY DEF StructInv, InboxCreated
<1>2. <<>> \in Seq(ValidItem)
  OBVIOUS
<1>3. HandlerInv' /\ HeadersKept
  <2>1. CASE m.type = "vote" /\ OnVote(n, m, <<>>)
    BY <1>1, <1>2, <2>1, ItemKinds, OnVoteInv
  <2>2. CASE m.type = "proposal" /\ OnProposal(n, m.hash, <<>>)
    BY <1>1, <1>2, <2>2, ItemKinds, OnProposalInv
  <2>3. CASE m.type = "response" /\ OnBlockResponse(n, m.hash, <<>>)
    BY <1>1, <1>2, <2>3, ItemKinds, OnBlockResponseInv
  <2>4. CASE m.type = "request" /\ OnBlockRequest(n, m.hash, <<>>)
    BY <1>1, <1>2, <2>4, ItemKinds, OnBlockRequestInv
  <2>5. CASE m.type = "evidence" /\ OnEvidence(n, m, <<>>)
    BY <1>1, <1>2, <2>5, ItemKinds, OnEvidenceInv
  <2> QED
    BY <2>1, <2>2, <2>3, <2>4, <2>5 DEF Receive
<1>4. ValidItem \subseteq ValidItem'
  BY <1>1, <1>3, ValidItemGrows DEF HandlerInv
<1>5. LoopTypeOK' /\ InboxCreated'
  BY <1>4 DEF Receive, StructInv, LoopTypeOK, InboxCreated
<1> QED
  BY <1>3, <1>5 DEF StructInv

\* An own vote, broadcast and looped back, keeps the invariant.
LEMMA PopVoteInv ==
    ASSUME StructInv, NEW n \in Node, PopVote(n)
    PROVE  StructInv'
<1> DEFINE m == Head(queue[n])
<1>1. HandlerInv /\ queue[n] # <<>> /\ m.type = "vote"
  BY DEF StructInv, PopVote
<1>2. m \in ValidItem /\ Tail(queue[n]) \in Seq(ValidItem)
  BY <1>1, TopOfStack
<1>3. Broadcast(n, m) /\ OnVote(n, m, Tail(queue[n])) /\ UNCHANGED <<mode, crashes>>
  BY DEF PopVote
<1> HIDE DEF m
<1>4. HandlerInv' /\ HeadersKept
  BY <1>1, <1>2, <1>3, ItemKinds, OnVoteInv
<1>5. /\ inbox' \in [Node -> SUBSET Message] /\ cast' \in SUBSET Vote
      /\ InboxCreated'
  BY <1>1, <1>2, <1>3, <1>4, BroadcastInv
<1>6. LoopTypeOK'
  BY <1>3, <1>5 DEF StructInv, LoopTypeOK
<1> QED
  BY <1>4, <1>5, <1>6 DEF StructInv

\* A step that pops one item and broadcasts it, without further effect.
LEMMA PublishInv ==
    ASSUME StructInv, NEW n \in Node, queue[n] # <<>>, Head(queue[n]).type # "drain",
           Broadcast(n, Head(queue[n])), queue' = [queue EXCEPT ![n] = Tail(@)],
           UNCHANGED <<st, votes_received, finalize_votes, orphans, evidence_pool,
                       durable, header, crashes>>
    PROVE  HandlerInv' /\ inbox' \in [Node -> SUBSET Message] /\ cast' \in SUBSET Vote
           /\ InboxCreated'
<1>1. HandlerInv /\ HandlerTypeOK
  BY DEF StructInv, HandlerInv
<1>2. Head(queue[n]) \in ValidItem /\ Tail(queue[n]) \in Seq(ValidItem)
  BY <1>1, TopOfStack
<1>3. queue' = [queue EXCEPT ![n] = Tail(queue[n])]
  OBVIOUS
<1>4. orphans' = [orphans EXCEPT ![n] = orphans[n]]
  BY <1>1 DEF HandlerTypeOK
<1>5. HandlerInv' /\ HeadersKept
  BY <1>1, <1>2, <1>3, <1>4, IgnoreBlockInv DEF durable
<1> QED
  BY <1>2, <1>5, BroadcastInv

\* Broadcasting any other message keeps the invariant.
LEMMA PopMessageInv ==
    ASSUME StructInv, NEW n \in Node, PopMessage(n)
    PROVE  StructInv'
<1>1. HandlerInv' /\ inbox' \in [Node -> SUBSET Message] /\ cast' \in SUBSET Vote
      /\ InboxCreated'
  BY PublishInv DEF PopMessage
<1> QED
  BY <1>1 DEF PopMessage, StructInv, LoopTypeOK

\* Broadcasting an action of try_propose keeps the invariant.
LEMMA PopBootingInv ==
    ASSUME StructInv, NEW n \in Node, PopBooting(n)
    PROVE  StructInv'
<1>1. HandlerInv' /\ inbox' \in [Node -> SUBSET Message] /\ cast' \in SUBSET Vote
      /\ InboxCreated'
  BY PublishInv DEF PopBooting
<1> QED
  BY <1>1 DEF PopBooting, StructInv, LoopTypeOK

\* Working off an orphan keeps the invariant.
LEMMA PopDrainInv ==
    ASSUME StructInv, NEW n \in Node, PopDrain(n)
    PROVE  StructInv'
<1>1. HandlerInv /\ queue[n] # <<>> /\ Head(queue[n]).type = "drain"
  BY DEF StructInv, PopDrain
<1>2. Head(queue[n]).hash \in CreatedBlock /\ Tail(queue[n]) \in Seq(ValidItem)
  BY <1>1, TopOfStack, ItemKinds
<1>3. HandlerInv' /\ HeadersKept
  BY <1>1, <1>2, DrainOrphanInv DEF PopDrain
<1>4. InboxCreated' /\ LoopTypeOK'
  BY <1>3, InboxKept DEF PopDrain, world, StructInv, LoopTypeOK
<1> QED
  BY <1>3, <1>4 DEF StructInv

\* A start with a proposal keeps the invariant.
LEMMA PeerConnectedProposeInv ==
    ASSUME StructInv, NEW n \in Node, PeerConnectedPropose(n)
    PROVE  StructInv'
<1> DEFINE v == st[n].view
           h == qcs[n][v - 1]
           parent == ParentFor(st[n], h)
           q(b) == FinalizeJustify(n, v - 1, h)
                   \o <<create_vote(n, v, b, "Notarize"), [type |-> "proposal", hash |-> b]>>
<1>1. HandlerInv /\ HandlerTypeOK
  BY DEF StructInv, HandlerInv
<1>2. h # None /\ v =< MaxView /\ parent \in blocks[n]
  BY DEF PeerConnectedPropose, TryPropose, CanPropose
<1>3. v \in View /\ v - 1 \in Height
  <2>1. v \in View \cup {MaxView + 1}
    BY <1>1 DEF HandlerTypeOK, ConsensusState
  <2> QED
    BY <1>2, <2>1, BoundsAssumption DEF View, Height
<1>4. h \in Block \cup {Zero}
  BY <1>1, <1>2, <1>3 DEF HandlerTypeOK
<1>5. PICK b \in Block : CreateProposal(n, b, v, parent, h)
                         /\ queue' = [queue EXCEPT ![n] = q(b)]
  BY DEF PeerConnectedPropose, TryPropose
<1>6. /\ header' \in [Block -> Header \cup {None}]
      /\ blocks' \in [Node -> SUBSET Hash]
      /\ HeadersKept /\ LinksCreated' /\ AncestorsStored'
      /\ b \in CreatedBlock' /\ CreatedBlock \subseteq CreatedBlock'
  BY <1>1, <1>2, <1>4, <1>5, CreateProposalInv
<1>7. Vote \subseteq ValidItem'
  BY DEF ValidItem
<1>8. q(b) \in Seq(ValidItem')
  <2>1. FinalizeJustify(n, v - 1, h) \in Seq(ValidItem')
    BY <1>3, <1>4, <1>7, FinalizeJustifyType, SeqMono
  <2>2. create_vote(n, v, b, "Notarize") \in ValidItem'
    BY <1>3, <1>7, VoteType
  <2>3. [type |-> "proposal", hash |-> b] \in ValidItem'
    BY <1>6 DEF ValidItem
  <2> QED
    BY <2>1, <2>2, <2>3
<1>9. queue' \in [Node -> Seq(Item)]
  BY <1>1, <1>5, <1>8, QueueType
<1>10. evidence_pool' \in [Node -> SUBSET Evidence]
  BY <1>1 DEF PeerConnectedPropose, TryPropose, HandlerTypeOK
<1>11. HandlerTypeOK'
  BY <1>1, <1>6, <1>9, <1>10 DEF PeerConnectedPropose, HandlerTypeOK
<1>12. QueueCreated'
  BY <1>1, <1>5, <1>6, <1>8, <1>11, QueueSet
<1>13. OrphansCreated'
  BY <1>1, <1>6 DEF PeerConnectedPropose, HandlerInv, OrphansCreated
<1>14. InboxCreated' /\ LoopTypeOK'
  BY <1>6, InboxKept DEF PeerConnectedPropose, StructInv, LoopTypeOK
<1> QED
  BY <1>6, <1>11, <1>12, <1>13, <1>14 DEF StructInv, HandlerInv

\* A start without a proposal keeps the invariant.
LEMMA PeerConnectedInv ==
    ASSUME StructInv, NEW n \in Node, PeerConnected(n)
    PROVE  StructInv'
<1>1. UNCHANGED <<st, votes_received, finalize_votes, orphans, evidence_pool, queue,
                  durable, world>>
  BY DEF PeerConnected
<1>2. CreatedBlock' = CreatedBlock /\ ValidItem' = ValidItem
  BY <1>1, SameHeaders DEF world
<1>3. mode' \in [Node -> {"off", "booting", "on"}]
  BY DEF PeerConnected, StructInv, LoopTypeOK
<1> QED
  BY <1>1, <1>2, <1>3
  DEF durable, world, StructInv, HandlerInv, HandlerTypeOK, LoopTypeOK, AncestorsStored,
      LinksCreated, OrphansCreated, QueueCreated, InboxCreated, Created

\* on_timeout keeps the invariant.
LEMMA TimeoutInv ==
    ASSUME StructInv, NEW n \in Node, Timeout(n)
    PROVE  StructInv'
<1> DEFINE q == <<create_vote(n, st[n].view, Zero, "Notarize")>>
<1>1. HandlerInv /\ HandlerTypeOK
  BY DEF StructInv, HandlerInv
<1>2. st[n].view \in View
  <2>1. st[n].view \in View \cup {MaxView + 1} /\ st[n].view =< MaxView
    BY <1>1 DEF Timeout, HandlerTypeOK, ConsensusState
  <2> QED
    BY <2>1, BoundsAssumption DEF View
<1>3. create_vote(n, st[n].view, Zero, "Notarize") \in ValidItem
  BY <1>1, <1>2, VoteType, ValidItems
<1>4. q \in Seq(ValidItem) /\ queue' = [queue EXCEPT ![n] = q]
  BY <1>3 DEF Timeout
<1>5. orphans' = [orphans EXCEPT ![n] = orphans[n]]
  BY <1>1 DEF Timeout, HandlerTypeOK
<1> HIDE DEF q
<1>6. HandlerInv' /\ HeadersKept
  BY <1>1, <1>4, <1>5, IgnoreBlockInv DEF Timeout, durable, world
<1>7. InboxCreated' /\ LoopTypeOK'
  BY <1>6, InboxKept DEF Timeout, world, StructInv, LoopTypeOK
<1> QED
  BY <1>6, <1>7 DEF StructInv

\* A reload keeps the invariant if what was written before it does.
LEMMA ReloadInv ==
    ASSUME HandlerInv, NEW n \in Node, NEW s \in ConsensusState, Reload(n, s),
           header' \in [Block -> Header \cup {None}],
           blocks' \in [Node -> SUBSET Hash],
           qcs' \in [Node -> [Height -> Block \cup {Zero, None}]],
           committed' = committed,
           HeadersKept, LinksCreated', AncestorsStored'
    PROVE  HandlerInv'
<1>1. HandlerTypeOK
  BY DEF HandlerInv
<1>2. <<>> \in Seq(ValidItem') /\ queue' = [queue EXCEPT ![n] = <<>>]
  BY DEF Reload
<1>3. queue' \in [Node -> Seq(Item)]
  BY <1>1, <1>2, QueueType
<1>4. st' \in [Node -> ConsensusState] /\ saved' \in [Node -> ConsensusState]
  BY <1>1, PersistType DEF Reload
<1>5. /\ votes_received' \in [Node -> [View -> [Node -> Block \cup {Zero, None}]]]
      /\ finalize_votes' \in [Node -> [View -> SUBSET Node]]
      /\ orphans' \in [Node -> SUBSET Block]
      /\ evidence_pool' \in [Node -> SUBSET Evidence]
  BY <1>1 DEF Reload, HandlerTypeOK
<1>6. HandlerTypeOK'
  BY <1>1, <1>3, <1>4, <1>5 DEF HandlerTypeOK
<1>7. QueueCreated'
  BY <1>2, <1>6, QueueSet
<1>8. OrphansCreated'
  <2>1. CreatedBlock \subseteq CreatedBlock'
    BY <1>1, ValidItemGrows
  <2>2. \A p \in Node : orphans'[p] \subseteq orphans[p]
    BY <1>1 DEF Reload, HandlerTypeOK
  <2> QED
    BY <2>1, <2>2 DEF HandlerInv, OrphansCreated
<1> QED
  BY <1>6, <1>7, <1>8 DEF HandlerInv

\* The event loop's variables after a reload.
LEMMA ReloadLoop ==
    ASSUME StructInv, NEW n \in Node, NEW s, Reload(n, s)
    PROVE  mode' \in [Node -> {"off", "booting", "on"}] /\ crashes' \in 0 .. MaxCrashes
  BY BoundsAssumption DEF Reload, StructInv, LoopTypeOK

\* A crash between two steps keeps the invariant.
LEMMA RestartInv ==
    ASSUME StructInv, NEW n \in Node, Restart(n)
    PROVE  StructInv'
<1>1. HandlerInv /\ HandlerTypeOK /\ saved[n] \in ConsensusState
  BY DEF StructInv, HandlerInv, HandlerTypeOK
<1>2. CreatedBlock' = CreatedBlock /\ HeadersKept
  BY SameHeaders DEF Restart
<1>3. AncestorsStored' /\ LinksCreated'
  BY <1>1, <1>2 DEF Restart, HandlerInv, AncestorsStored, LinksCreated, Created
<1>4. HandlerInv'
  BY <1>1, <1>2, <1>3, ReloadInv DEF Restart, HandlerTypeOK
<1>5. LoopTypeOK' /\ InboxCreated'
  BY <1>2, ReloadLoop, InboxKept DEF Restart, StructInv, LoopTypeOK
<1> QED
  BY <1>4, <1>5 DEF StructInv

\* What a crash inside a handler leaves behind: some fields were reloaded, and
\* the invariant of the handlers holds.
Crashed(n) == HandlerInv' /\ HeadersKept /\ \E s \in ConsensusState : Reload(n, s)

\* A crash in on_vote after any of its writes keeps the invariant.
LEMMA CrashInVoteInv ==
    ASSUME HandlerInv, NEW n \in Node, NEW m \in Vote, CrashInVote(n, m)
    PROVE  Crashed(n)
<1> DEFINE s == AfterQC(n, m)
           p == UpdatePreferredChain(st[n], m.view, m.hash)
           parent == ParentFor(s, m.hash)
<1>1. HandlerTypeOK
  BY DEF HandlerInv
<1>2. m.view \in Height /\ m.hash \in Block \cup {Zero}
  BY BoundsAssumption DEF Vote, View, Height
<1>3. s \in ConsensusState /\ p \in ConsensusState /\ saved[n] \in ConsensusState
  BY <1>1, <1>2, AfterQCType, PreferredType DEF HandlerTypeOK
<1>4. qcs' \in [Node -> [Height -> Block \cup {Zero, None}]] /\ committed' = committed
  BY <1>1, SaveQCType DEF CrashInVote
<1>5. \/ UNCHANGED <<blocks, header>> /\ \E t \in {saved[n], p, s} : Reload(n, t)
      \/ /\ parent \in blocks[n]
         /\ \E b \in Block : CreateProposal(n, b, m.view + 1, parent, m.hash)
         /\ Reload(n, s)
  BY DEF CrashInVote, CanPropose
<1> HIDE DEF s, p, parent
<1>6. CASE UNCHANGED <<blocks, header>> /\ \E t \in {saved[n], p, s} : Reload(n, t)
  <2>1. PICK t \in ConsensusState : Reload(n, t)
    BY <1>3, <1>6
  <2>2. CreatedBlock' = CreatedBlock /\ HeadersKept
    BY <1>6, SameHeaders
  <2>3. AncestorsStored' /\ LinksCreated'
    BY <1>6, <2>2 DEF HandlerInv, AncestorsStored, LinksCreated, Created
  <2>4. header' \in [Block -> Header \cup {None}] /\ blocks' \in [Node -> SUBSET Hash]
    BY <1>1, <1>6 DEF HandlerTypeOK
  <2> QED
    BY <1>4, <2>1, <2>2, <2>3, <2>4, ReloadInv DEF Crashed
<1>7. CASE /\ parent \in blocks[n]
           /\ \E b \in Block : CreateProposal(n, b, m.view + 1, parent, m.hash)
           /\ Reload(n, s)
  <2>1. /\ header' \in [Block -> Header \cup {None}]
        /\ blocks' \in [Node -> SUBSET Hash]
        /\ HeadersKept /\ LinksCreated' /\ AncestorsStored'
    BY <1>2, <1>7, CreateProposalInv
  <2> QED
    BY <1>3, <1>4, <1>7, <2>1, ReloadInv DEF Crashed
<1> QED
  BY <1>5, <1>6, <1>7

\* A crash in on_finalize_vote before the commit keeps the invariant.
LEMMA CrashInFinalizeInv ==
    ASSUME HandlerInv, NEW n \in Node, NEW m \in Vote, CrashInFinalize(n, m)
    PROVE  Crashed(n)
<1> DEFINE s == [st[n] EXCEPT !.finalized_height = m.view]
<1>1. HandlerTypeOK
  BY DEF HandlerInv
<1>2. s \in ConsensusState
  <2>1. st[n] \in ConsensusState /\ m.view \in Height
    BY <1>1, BoundsAssumption DEF HandlerTypeOK, Vote, View, Height
  <2> QED
    BY <2>1 DEF ConsensusState
<1>3. Reload(n, s) /\ UNCHANGED <<blocks, qcs, committed, header>>
  BY DEF CrashInFinalize
<1> HIDE DEF s
<1>4. CreatedBlock' = CreatedBlock /\ HeadersKept
  BY <1>3, SameHeaders
<1>5. AncestorsStored' /\ LinksCreated'
  BY <1>3, <1>4 DEF HandlerInv, AncestorsStored, LinksCreated, Created
<1> QED
  BY <1>1, <1>2, <1>3, <1>4, <1>5, ReloadInv DEF Crashed, HandlerTypeOK

\* A crash while a block is stored keeps the invariant.
LEMMA CrashInStoreInv ==
    ASSUME HandlerInv, NEW n \in Node, NEW b \in CreatedBlock, CrashInStore(n, b)
    PROVE  Crashed(n)
<1> DEFINE a == AfterStore(n, b)
<1>1. HandlerTypeOK
  BY DEF HandlerInv
<1>2. CreatedBlock' = CreatedBlock /\ HeadersKept
  BY SameHeaders DEF CrashInStore
<1>3. a \in ConsensusState /\ b[1] \in View /\ st[n].view \in View \cup {MaxView + 1}
  BY <1>1, AfterStoreType, HeaderType DEF HandlerTypeOK, ConsensusState
<1>4. \A v \in {st[n].view, b[1]} : [a EXCEPT !.view = v] \in ConsensusState
  BY <1>3 DEF ConsensusState
<1>5. UNCHANGED <<qcs, committed, header>> /\ ~Orphaned(n, b)
  BY DEF CrashInStore
<1>6. CASE Reload(n, a) /\ UNCHANGED blocks
  <2>1. AncestorsStored' /\ LinksCreated'
    BY <1>2, <1>5, <1>6 DEF HandlerInv, AncestorsStored, LinksCreated, Created
  <2> QED
    BY <1>1, <1>2, <1>3, <1>5, <1>6, <2>1, ReloadInv DEF Crashed, HandlerTypeOK
<1>7. CASE /\ \E v \in {st[n].view, b[1]} : Reload(n, [a EXCEPT !.view = v])
           /\ blocks' = [blocks EXCEPT ![n] = @ \cup {b}]
  <2>1. PICK t \in ConsensusState : Reload(n, t)
    BY <1>4, <1>7
  <2>2. blocks' \in [Node -> SUBSET Hash] /\ AncestorsStored' /\ LinksCreated'
    BY <1>5, <1>7, BlockSavedInv
  <2>3. /\ header' \in [Block -> Header \cup {None}]
        /\ qcs' \in [Node -> [Height -> Block \cup {Zero, None}]]
    BY <1>1, <1>5 DEF HandlerTypeOK
  <2> QED
    BY <1>2, <1>5, <2>1, <2>2, <2>3, ReloadInv DEF Crashed
<1> QED
  BY <1>6, <1>7, Zenon DEF CrashInStore

\* A crash while a network event is handled keeps the invariant.
LEMMA CrashReceivingInv ==
    ASSUME StructInv, NEW n \in Node, NEW m \in inbox[n], CrashReceiving(n, m)
    PROVE  StructInv'
<1>1. HandlerInv /\ m \in ValidItem
  BY DEF StructInv, InboxCreated
<1>2. Crashed(n)
  BY <1>1, ItemKinds, CrashInVoteInv, CrashInFinalizeInv, CrashInStoreInv
  DEF CrashReceiving
<1>3. ValidItem \subseteq ValidItem'
  BY <1>1, <1>2, ValidItemGrows DEF HandlerInv, Crashed
<1>4. /\ mode' \in [Node -> {"off", "booting", "on"}] /\ crashes' \in 0 .. MaxCrashes
  BY <1>2, ReloadLoop DEF Crashed
<1>5. LoopTypeOK' /\ InboxCreated'
  BY <1>3, <1>4 DEF CrashReceiving, StructInv, LoopTypeOK, InboxCreated
<1> QED
  BY <1>2, <1>5 DEF StructInv, Crashed

\* A crash while an own vote or an orphan is handled keeps the invariant.
LEMMA CrashPoppingInv ==
    ASSUME StructInv, NEW n \in Node, CrashPopping(n)
    PROVE  StructInv'
<1> DEFINE m == Head(queue[n])
<1>1. HandlerInv /\ queue[n] # <<>>
  BY DEF StructInv, CrashPopping
<1>2. m \in ValidItem
  BY <1>1, TopOfStack
<1>3. \/ /\ m.type = "vote" /\ Broadcast(n, m)
         /\ CrashInVote(n, m) \/ CrashInFinalize(n, m)
      \/ /\ \E o \in Waiting(n, m.hash, orphans[n]) : CrashInStore(n, o)
         /\ UNCHANGED <<inbox, cast>>
  BY DEF CrashPopping
<1> HIDE DEF m
<1>4. CASE /\ m.type = "vote" /\ Broadcast(n, m)
           /\ CrashInVote(n, m) \/ CrashInFinalize(n, m)
  <2>1. Crashed(n)
    BY <1>1, <1>2, <1>4, ItemKinds, CrashInVoteInv, CrashInFinalizeInv
  <2>2. /\ inbox' \in [Node -> SUBSET Message] /\ cast' \in SUBSET Vote
        /\ InboxCreated'
    BY <1>2, <1>4, <2>1, BroadcastInv DEF Crashed
  <2>3. LoopTypeOK'
    BY <2>1, <2>2, ReloadLoop DEF Crashed, LoopTypeOK
  <2> QED
    BY <2>1, <2>2, <2>3 DEF StructInv, Crashed
<1>5. CASE /\ \E o \in Waiting(n, m.hash, orphans[n]) : CrashInStore(n, o)
           /\ UNCHANGED <<inbox, cast>>
  <2>1. PICK o \in CreatedBlock : CrashInStore(n, o)
    BY <1>1, <1>5 DEF Waiting, HandlerInv, OrphansCreated
  <2>2. Crashed(n)
    BY <1>1, <2>1, CrashInStoreInv
  <2>3. InboxCreated' /\ LoopTypeOK'
    BY <1>5, <2>2, InboxKept, ReloadLoop DEF Crashed, StructInv, LoopTypeOK
  <2> QED
    BY <2>2, <2>3 DEF StructInv, Crashed
<1> QED
  BY <1>3, <1>4, <1>5

\* The invariant holds at genesis.
LEMMA InitInv == Init => StructInv
<1> SUFFICES ASSUME Init PROVE StructInv
  OBVIOUS
<1>1. HandlerTypeOK
  <2>1. 1 \in View /\ 0 \in Height
    BY BoundsAssumption DEF View, Height
  <2> QED
    BY <2>1 DEF Init, HandlerTypeOK, ConsensusState, Hash
<1>2. LoopTypeOK
  BY BoundsAssumption DEF Init, LoopTypeOK
<1>3. CreatedBlock = {}
  BY DEF Init, CreatedBlock, Created
<1>4. AncestorsStored /\ LinksCreated /\ OrphansCreated /\ QueueCreated /\ InboxCreated
  BY <1>3 DEF Init, AncestorsStored, LinksCreated, OrphansCreated, QueueCreated, InboxCreated
<1> QED
  BY <1>1, <1>2, <1>4 DEF StructInv, HandlerInv

\* Every step of every node keeps the invariant.
LEMMA NextInv == StructInv /\ [Next]_vars => StructInv'
<1> SUFFICES ASSUME StructInv, [Next]_vars PROVE StructInv'
  OBVIOUS
<1>1. CASE UNCHANGED vars
  <2>1. CreatedBlock' = CreatedBlock /\ ValidItem' = ValidItem
    BY <1>1, SameHeaders DEF vars, world
  <2> QED
    BY <1>1, <2>1
    DEF vars, memory, durable, world, StructInv, HandlerInv, HandlerTypeOK, LoopTypeOK,
        AncestorsStored, LinksCreated, OrphansCreated, QueueCreated, InboxCreated, Created
<1>2. CASE Next
  <2>1. PICK n \in Node : Step(n) \/ Timeout(n) \/ Crash(n)
    BY <1>2 DEF Next
  <2>2. CASE PeerConnectedPropose(n)
    BY <2>2, PeerConnectedProposeInv
  <2>3. CASE PeerConnected(n)
    BY <2>3, PeerConnectedInv
  <2>4. CASE \E m \in inbox[n] : Receive(n, m)
    BY <2>4, ReceiveInv
  <2>5. CASE PopVote(n)
    BY <2>5, PopVoteInv
  <2>6. CASE PopMessage(n)
    BY <2>6, PopMessageInv
  <2>7. CASE PopDrain(n)
    BY <2>7, PopDrainInv
  <2>8. CASE PopBooting(n)
    BY <2>8, PopBootingInv
  <2>9. CASE Timeout(n)
    BY <2>9, TimeoutInv
  <2>10. CASE Restart(n)
    BY <2>10, RestartInv
  <2>11. CASE CrashPopping(n)
    BY <2>11, CrashPoppingInv
  <2>12. CASE \E m \in inbox[n] : CrashReceiving(n, m)
    BY <2>12, CrashReceivingInv
  <2> QED
    BY <2>1, <2>2, <2>3, <2>4, <2>5, <2>6, <2>7, <2>8, <2>9, <2>10, <2>11, <2>12
    DEF Step, Pop, Crash
<1> QED
  BY <1>1, <1>2

-----------------------------------------------------------------------------
\* The structural invariant holds in every reachable state of consensus.
THEOREM StructureCorrect == Spec => []StructInv
<1>1. Init => StructInv
  BY InitInv
<1>2. StructInv /\ [Next]_vars => StructInv'
  BY NextInv
<1> QED
  BY <1>1, <1>2, PTL DEF Spec

\* The type invariant holds in every reachable state of consensus.
THEOREM TypeCorrect == Spec => []TypeOK
<1>1. StructInv => TypeOK
  BY DEF StructInv, HandlerInv, TypeOK
<1> QED
  BY <1>1, StructureCorrect, PTL

\* No node ever stores a block without its parent, whatever the order in which
\* proposals, sync responses and orphans reach it, and across restarts.
THEOREM AncestryStored == Spec => []AncestorsStored
<1>1. StructInv => AncestorsStored
  BY DEF StructInv, HandlerInv
<1> QED
  BY <1>1, StructureCorrect, PTL
=============================================================================
