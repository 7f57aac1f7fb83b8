------------------------- MODULE SimplexRefinement -------------------------
(***************************************************************************)
(* The consensus state machine implements the notary of module Notary, and *)
(* no node ever goes back, whatever is lost or reordered and wherever a    *)
(* node crashes: proofs for every value of the constants of Simplex.       *)
(***************************************************************************)
EXTENDS SimplexCertificates

\* Every assignment to the fields was persisted when its handler returned.
Persisted == \A n \in Node : saved[n] = st[n]

Inv == StructInv /\ CertInv /\ Persisted

-----------------------------------------------------------------------------
(***************************************************************************)
(* What one handler of node n may do to the state the notary sees.         *)
(***************************************************************************)
NotBehind(s, t) ==
    /\ t.view >= s.view
    /\ t.finalized_height >= s.finalized_height
    /\ t.preferred_view >= s.preferred_view

FieldsFrame(n) ==
    \/ UNCHANGED <<st, saved>>
    \/ \E s \in ConsensusState : PersistState(n, s) /\ NotBehind(st[n], s)

QCsFrame(n) ==
    \/ UNCHANGED qcs
    \/ \E v \in View, h \in Block \cup {Zero} :
          qcs[n][v] = None /\ qcs' = [qcs EXCEPT ![n][v] = h]

CommitFrame(n) ==
    \/ UNCHANGED committed
    \/ \E h \in Block :
          /\ h[1] > st[n].finalized_height
          /\ PersistState(n, [st[n] EXCEPT !.finalized_height = h[1]])
          /\ committed' = [committed EXCEPT ![n] = @ \cup {h}]

Frame(n) == FieldsFrame(n) /\ QCsFrame(n) /\ CommitFrame(n)

CastFrame(n) == cast' = cast \/ \E m \in Vote : m.author = n /\ cast' = cast \cup {m}

-----------------------------------------------------------------------------
(***************************************************************************)
(* The fields only move up.                                                *)
(***************************************************************************)
\* The numbers among the fields can be compared.
LEMMA FieldsComparable ==
    ASSUME NEW s \in ConsensusState
    PROVE  /\ s.view \in Nat /\ s.finalized_height \in Nat /\ s.preferred_view \in Nat
           /\ NotBehind(s, s)
  BY BoundsAssumption DEF ConsensusState, View, Height, NotBehind

\* update_preferred_chain takes a QC only if it is not older.
LEMMA PreferredMono ==
    ASSUME NEW s \in ConsensusState, NEW v \in Height, NEW h \in Block \cup {Zero}
    PROVE  NotBehind(s, UpdatePreferredChain(s, v, h))
<1>1. NotBehind(s, s)
  BY FieldsComparable
<1>2. CASE h # Zero /\ v >= s.preferred_view
  <2> DEFINE t == [s EXCEPT !.preferred_view = v, !.preferred_block = h]
  <2>1. /\ t.preferred_view = v /\ t.view = s.view
        /\ t.finalized_height = s.finalized_height
    BY DEF ConsensusState
  <2> HIDE DEF t
  <2>2. NotBehind(s, t)
    BY <1>1, <1>2, <2>1 DEF NotBehind
  <2> QED
    BY <1>2, <2>2 DEF UpdatePreferredChain, t
<1>3. CASE ~(h # Zero /\ v >= s.preferred_view)
  BY <1>1, <1>3 DEF UpdatePreferredChain
<1> QED
  BY <1>2, <1>3

\* Entering a later view is moving up.
LEMMA ViewMono ==
    ASSUME NEW r \in ConsensusState, NEW s \in ConsensusState, NotBehind(r, s),
           NEW v \in Nat, v >= r.view
    PROVE  NotBehind(r, [s EXCEPT !.view = v])
<1>1. LET t == [s EXCEPT !.view = v]
      IN  /\ t.view = v /\ t.finalized_height = s.finalized_height
          /\ t.preferred_view = s.preferred_view
  BY DEF ConsensusState
<1> QED
  BY <1>1 DEF NotBehind

\* The view last voted in is not looked at.
LEMMA LastVotedMono ==
    ASSUME NEW r, NEW s \in ConsensusState, NotBehind(r, s), NEW v
    PROVE  NotBehind(r, [s EXCEPT !.last_voted_view = v])
<1>1. LET t == [s EXCEPT !.last_voted_view = v]
      IN  /\ t.view = s.view /\ t.finalized_height = s.finalized_height
          /\ t.preferred_view = s.preferred_view
  BY DEF ConsensusState
<1> QED
  BY <1>1 DEF NotBehind

\* The fields after a QC was stored.
LEMMA AfterQCMono ==
    ASSUME HandlerTypeOK, NEW n \in Node, NEW m \in Vote
    PROVE  NotBehind(st[n], AfterQC(n, m))
<1> DEFINE s == UpdatePreferredChain(st[n], m.view, m.hash)
           w == m.view + 1
<1>1. m.view \in View /\ m.view \in Height /\ m.hash \in Block \cup {Zero} /\ w \in Nat
  BY BoundsAssumption DEF Vote, View, Height
<1>2. st[n] \in ConsensusState
  BY DEF HandlerTypeOK
<1>3. s \in ConsensusState /\ s.view = st[n].view /\ NotBehind(st[n], s)
  BY <1>1, <1>2, PreferredType, PreferredMono
<1> HIDE DEF s
<1>4. st[n].view \in Nat
  BY <1>2, FieldsComparable
<1>5. w > s.view => NotBehind(st[n], [s EXCEPT !.view = w])
  BY <1>1, <1>2, <1>3, <1>4, ViewMono
<1> QED
  BY <1>3, <1>5 DEF AfterQC, s, w

\* The fields after a block was stored.
LEMMA AfterStoreMono ==
    ASSUME HandlerTypeOK, NEW n \in Node, NEW b \in CreatedBlock
    PROVE  /\ NotBehind(st[n], AfterStore(n, b)) /\ AfterStore(n, b).view = st[n].view
           /\ b[1] >= st[n].view => NotBehind(st[n], [AfterStore(n, b) EXCEPT !.view = b[1]])
<1>1. st[n] \in ConsensusState /\ NotBehind(st[n], st[n])
  BY FieldsComparable DEF HandlerTypeOK
<1>2. b[1] - 1 \in Height /\ header[b].justify \in Block \cup {Zero} /\ b[1] \in View
  BY HeaderType
<1>3. NotBehind(st[n], AfterStore(n, b)) /\ AfterStore(n, b).view = st[n].view
  BY <1>1, <1>2, PreferredMono, PreferredType DEF AfterStore
<1>4. AfterStore(n, b) \in ConsensusState /\ b[1] \in Nat
  BY <1>2, AfterStoreType, BoundsAssumption DEF View
<1> QED
  BY <1>1, <1>3, <1>4, ViewMono

-----------------------------------------------------------------------------
(***************************************************************************)
(* The handlers.                                                           *)
(***************************************************************************)
\* A handler that touches none of it.
LEMMA IdleFrame ==
    ASSUME UNCHANGED <<st, saved, qcs, committed>>, NEW n \in Node
    PROVE  Frame(n)
  BY DEF Frame, FieldsFrame, QCsFrame, CommitFrame

\* The QC of a view is stored once.
LEMMA SaveQCFrame ==
    ASSUME NEW n \in Node, NEW m \in Vote, FormsQC(n, m), SaveQC(n, m)
    PROVE  QCsFrame(n)
  BY DEF FormsQC, SaveQC, QCsFrame, Vote

\* A finalized view is a later one, and its block is of that view.
LEMMA FinalizeMono ==
    ASSUME HandlerTypeOK, NEW n \in Node, NEW m \in Vote, m.view > st[n].finalized_height
    PROVE  /\ [st[n] EXCEPT !.finalized_height = m.view] \in ConsensusState
           /\ NotBehind(st[n], [st[n] EXCEPT !.finalized_height = m.view])
<1> DEFINE t == [st[n] EXCEPT !.finalized_height = m.view]
<1>1. st[n] \in ConsensusState /\ m.view \in Height /\ m.view \in Nat
  BY BoundsAssumption DEF HandlerTypeOK, Vote, View, Height
<1>2. t \in ConsensusState
  BY <1>1 DEF ConsensusState
<1>3. /\ t.view = st[n].view /\ t.preferred_view = st[n].preferred_view
      /\ t.finalized_height = m.view
  BY <1>1 DEF ConsensusState
<1> QED
  BY <1>1, <1>2, <1>3, FieldsComparable DEF NotBehind

\* on_vote.
LEMMA OnVoteFrame ==
    ASSUME HandlerInv, NEW n \in Node, NEW m \in Vote, NEW rest, OnVote(n, m, rest),
           m.hash \in Block => m.hash[1] = m.view
    PROVE  Frame(n)
<1>1. HandlerTypeOK
  BY DEF HandlerInv
<1>2. m.view \in View /\ m.hash \in Block \cup {Zero}
  BY DEF Vote
<1>3. AfterQC(n, m) \in ConsensusState /\ NotBehind(st[n], AfterQC(n, m))
  BY <1>1, AfterQCType, AfterQCMono
<1>4. CASE OnFinalizeVote(n, m, rest)
  <2>1. CASE UNCHANGED <<st, saved, committed>>
    BY <1>4, <2>1, IdleFrame DEF OnFinalizeVote
  <2>2. CASE /\ m.view > st[n].finalized_height
             /\ PersistState(n, [st[n] EXCEPT !.finalized_height = m.view])
             /\ CommitFinalized(n, m.hash)
    <3>1. FieldsFrame(n)
      BY <1>1, <2>2, FinalizeMono DEF FieldsFrame
    <3>2. m.hash \in blocks[n] => m.hash \in Block /\ m.hash[1] = m.view
      BY <1>1, <1>2, HashAssumption DEF HandlerTypeOK
    <3>3. \/ m.hash \in blocks[n] /\ committed' = [committed EXCEPT ![n] = @ \cup {m.hash}]
          \/ committed' = committed
      BY <2>2, Zenon DEF CommitFinalized
    <3>4. CommitFrame(n)
      BY <2>2, <3>2, <3>3 DEF CommitFrame
    <3> QED
      BY <1>4, <3>1, <3>4 DEF Frame, QCsFrame, OnFinalizeVote
  <2> QED
    BY <1>4, <2>1, <2>2, Zenon DEF OnFinalizeVote
<1>5. CASE OnEquivocation(n, m, rest) \/ OnVoteCounted(n, m, rest)
  BY <1>5, IdleFrame DEF OnEquivocation, OnVoteCounted, durable
<1>6. CASE OnVoteQC(n, m, rest)
  <2>1. FieldsFrame(n)
    BY <1>3, <1>6 DEF OnVoteQC, FieldsFrame
  <2> QED
    BY <1>6, <2>1, SaveQCFrame DEF OnVoteQC, Frame, CommitFrame
<1>7. CASE OnVoteQCPropose(n, m, rest)
  <2> DEFINE s == [AfterQC(n, m) EXCEPT !.last_voted_view = m.view + 1]
  <2>1. PersistState(n, s) /\ m.view + 1 =< MaxView
    BY <1>7 DEF OnVoteQCPropose, CanPropose
  <2>2. m.view + 1 \in Height
    BY <1>2, <2>1, BoundsAssumption DEF View, Height
  <2>3. s \in ConsensusState
    BY <1>3, <2>2 DEF ConsensusState
  <2>4. NotBehind(st[n], s)
    BY <1>3, LastVotedMono
  <2> HIDE DEF s
  <2>5. FieldsFrame(n)
    BY <2>1, <2>3, <2>4 DEF FieldsFrame
  <2> QED
    BY <1>7, <2>5, SaveQCFrame DEF OnVoteQCPropose, Frame, CommitFrame
<1> QED
  BY <1>4, <1>5, <1>6, <1>7 DEF OnVote

\* on_proposal.
LEMMA OnProposalFrame ==
    ASSUME HandlerInv, NEW n \in Node, NEW b \in CreatedBlock, NEW rest,
           OnProposal(n, b, rest)
    PROVE  Frame(n)
<1> DEFINE s == [AfterStore(n, b) EXCEPT !.view = b[1]]
<1>1. HandlerTypeOK /\ UNCHANGED <<qcs, committed>>
  BY DEF HandlerInv, OnProposal
<1>2. CASE UNCHANGED <<st, saved>>
  BY <1>1, <1>2, IdleFrame
<1>3. CASE b[1] >= st[n].view /\ OnProposalStored(n, b, rest)
  <2>1. b[1] \in View /\ b[1] \in Height
    BY <1>1, HeaderType, BoundsAssumption DEF View, Height
  <2>2. s \in ConsensusState /\ NotBehind(st[n], s)
    BY <1>1, <1>3, <2>1, AfterStoreType, AfterStoreMono DEF ConsensusState
  <2>3. \/ PersistState(n, s)
        \/ PersistState(n, [s EXCEPT !.last_voted_view = b[1]])
    BY <1>3, Zenon DEF OnProposalStored
  <2> HIDE DEF s
  <2>4. /\ [s EXCEPT !.last_voted_view = b[1]] \in ConsensusState
        /\ NotBehind(st[n], [s EXCEPT !.last_voted_view = b[1]])
    BY <2>1, <2>2, LastVotedMono DEF ConsensusState
  <2> QED
    BY <1>1, <2>2, <2>3, <2>4 DEF Frame, FieldsFrame, QCsFrame, CommitFrame
<1> QED
  BY <1>2, <1>3 DEF OnProposal, BufferOrphan, RejectBlock

\* on_block_response for a block that is stored, or can be.
LEMMA OnResponseStoredFrame ==
    ASSUME HandlerTypeOK, NEW n \in Node, NEW b \in CreatedBlock, NEW pending, NEW rest,
           OnResponseStored(n, b, pending, rest), UNCHANGED <<qcs, committed>>
    PROVE  Frame(n)
<1> DEFINE a == AfterStore(n, b)
           s == IF b[1] >= a.view THEN [a EXCEPT !.view = b[1]] ELSE a
<1>1. b[1] \in View /\ a \in ConsensusState
  BY HeaderType, AfterStoreType
<1>2. s \in ConsensusState /\ NotBehind(st[n], s)
  BY <1>1, AfterStoreMono DEF ConsensusState
<1>3. PersistState(n, s)
  BY DEF OnResponseStored
<1> HIDE DEF s
<1> QED
  BY <1>2, <1>3 DEF Frame, FieldsFrame, QCsFrame, CommitFrame

\* on_block_response.
LEMMA OnBlockResponseFrame ==
    ASSUME HandlerInv, NEW n \in Node, NEW b \in CreatedBlock, NEW rest,
           OnBlockResponse(n, b, rest)
    PROVE  Frame(n)
<1>1. HandlerTypeOK /\ UNCHANGED <<qcs, committed>>
  BY DEF HandlerInv, OnBlockResponse
<1>2. CASE UNCHANGED <<st, saved>>
  BY <1>1, <1>2, IdleFrame
<1>3. CASE OnResponseStored(n, b, orphans[n], rest)
  BY <1>1, <1>3, OnResponseStoredFrame
<1> QED
  BY <1>2, <1>3 DEF OnBlockResponse, BufferOrphan, RejectBlock

\* The recursion over orphans.
LEMMA DrainOrphanFrame ==
    ASSUME HandlerInv, NEW n \in Node, NEW b, NEW rest, DrainOrphan(n, b, rest)
    PROVE  Frame(n)
<1>1. HandlerTypeOK /\ UNCHANGED <<qcs, committed>>
  BY DEF HandlerInv, DrainOrphan
<1>2. PICK o \in Waiting(n, b, orphans[n]) :
         \/ \E left : OnResponseStored(n, o, orphans[n] \ {o}, left)
         \/ UNCHANGED <<st, saved>>
  BY Zenon DEF DrainOrphan
<1>3. o \in CreatedBlock
  BY <1>2 DEF Waiting, HandlerInv, OrphansCreated
<1> QED
  BY <1>1, <1>2, <1>3, IdleFrame, OnResponseStoredFrame

-----------------------------------------------------------------------------
(***************************************************************************)
(* Crashes.                                                                *)
(***************************************************************************)
\* A reload with fields that are not behind.
LEMMA ReloadFrame ==
    ASSUME NEW n \in Node, NEW s \in ConsensusState, NotBehind(st[n], s), Reload(n, s),
           QCsFrame(n), UNCHANGED committed
    PROVE  Frame(n)
  BY DEF Reload, Frame, FieldsFrame, CommitFrame

\* A crash between two steps.
LEMMA RestartFrame ==
    ASSUME HandlerTypeOK, Persisted, NEW n \in Node, Restart(n)
    PROVE  Frame(n)
<1>1. saved[n] \in ConsensusState /\ NotBehind(st[n], saved[n])
  BY FieldsComparable DEF HandlerTypeOK, Persisted
<1> QED
  BY <1>1, ReloadFrame DEF Restart, QCsFrame

\* A crash in on_vote or on_finalize_vote.
LEMMA CrashVoteFrame ==
    ASSUME HandlerTypeOK, Persisted, NEW n \in Node, NEW m \in Vote,
           CrashInVote(n, m) \/ CrashInFinalize(n, m)
    PROVE  Frame(n)
<1> DEFINE s == AfterQC(n, m)
           p == UpdatePreferredChain(st[n], m.view, m.hash)
<1>1. CASE CrashInVote(n, m)
  <2>1. st[n] \in ConsensusState /\ saved[n] = st[n]
    BY DEF HandlerTypeOK, Persisted
  <2>2. m.view \in Height /\ m.hash \in Block \cup {Zero}
    BY BoundsAssumption DEF Vote, View, Height
  <2>3. saved[n] \in ConsensusState /\ NotBehind(st[n], saved[n])
    BY <2>1, FieldsComparable
  <2>4. p \in ConsensusState /\ NotBehind(st[n], p)
    BY <2>1, <2>2, PreferredType, PreferredMono
  <2>5. s \in ConsensusState /\ NotBehind(st[n], s)
    BY AfterQCType, AfterQCMono
  <2>6. \E t \in {saved[n], p, s} : Reload(n, t)
    BY <1>1 DEF CrashInVote
  <2> HIDE DEF s, p
  <2>7. QCsFrame(n) /\ UNCHANGED committed
    BY <1>1, SaveQCFrame DEF CrashInVote
  <2> QED
    BY <2>3, <2>4, <2>5, <2>6, <2>7, ReloadFrame
<1>2. CASE CrashInFinalize(n, m)
  BY <1>2, FinalizeMono, ReloadFrame DEF CrashInFinalize, QCsFrame
<1> QED
  BY <1>1, <1>2

\* A crash while a block is stored.
LEMMA CrashInStoreFrame ==
    ASSUME HandlerTypeOK, NEW n \in Node, NEW b \in CreatedBlock, CrashInStore(n, b)
    PROVE  Frame(n)
<1> DEFINE a == AfterStore(n, b)
<1>1. a \in ConsensusState /\ b[1] \in View /\ a.view = st[n].view /\ NotBehind(st[n], a)
  BY AfterStoreType, HeaderType, AfterStoreMono
<1>2. st[n].view \in View \cup {MaxView + 1} /\ st[n].view \in Nat
  BY FieldsComparable DEF HandlerTypeOK, ConsensusState
<1>3. ASSUME NEW v \in {st[n].view, b[1]}, v >= st[n].view
      PROVE  [a EXCEPT !.view = v] \in ConsensusState
             /\ NotBehind(st[n], [a EXCEPT !.view = v])
  <2>1. v \in Nat
    BY <1>1, <1>2, BoundsAssumption DEF View
  <2>2. st[n] \in ConsensusState
    BY DEF HandlerTypeOK
  <2> QED
    BY <1>1, <1>2, <1>3, <2>1, <2>2, ViewMono DEF ConsensusState
<1>4. QCsFrame(n) /\ UNCHANGED committed
  BY DEF CrashInStore, QCsFrame
<1>5. \/ Reload(n, a)
      \/ \E v \in {st[n].view, b[1]} : v >= st[n].view /\ Reload(n, [a EXCEPT !.view = v])
  BY Zenon DEF CrashInStore
<1> HIDE DEF a
<1> QED
  BY <1>1, <1>3, <1>4, <1>5, ReloadFrame

-----------------------------------------------------------------------------
(***************************************************************************)
(* The steps of a node.                                                    *)
(***************************************************************************)
\* A broadcast vote is the node's own.
LEMMA BroadcastFrame ==
    ASSUME StructInv, CertInv, NEW n \in Node, queue[n] # <<>>,
           Head(queue[n]).type # "drain", Broadcast(n, Head(queue[n]))
    PROVE  CastFrame(n)
<1> DEFINE m == Head(queue[n])
<1>1. m \in GoodItem(n) /\ m \in ValidItem
  BY GoodStack DEF CertInv
<1>2. m.type = "vote" => m \in Vote /\ m.author = n
  BY <1>1, ItemKinds DEF GoodItem
<1> QED
  BY <1>2 DEF Broadcast, CastFrame

\* Every step of node n changes what the notary sees only as Frame allows.
LEMMA StepFrame ==
    ASSUME Inv, NEW n \in Node, Step(n) \/ Timeout(n) \/ Crash(n)
    PROVE  Frame(n) /\ CastFrame(n)
<1>1. StructInv /\ CertInv /\ HandlerInv /\ HandlerTypeOK /\ Persisted
  BY DEF Inv, StructInv, HandlerInv
<1>2. \A m \in inbox[n] : m \in ValidItem /\ (m.type = "vote" => GoodVote(cast, m))
  BY <1>1 DEF StructInv, InboxCreated, CertInv, InboxCast, CastGood
<1>3. queue[n] # <<>> =>
         /\ Head(queue[n]) \in ValidItem
         /\ Head(queue[n]).type = "vote" => GoodVote(cast, Head(queue[n]))
  BY <1>1, GoodStack DEF CertInv
<1>4. CASE PeerConnectedPropose(n)
  BY <1>4, IdleFrame DEF PeerConnectedPropose, CastFrame
<1>5. CASE PeerConnected(n)
  BY <1>5, IdleFrame DEF PeerConnected, durable, world, CastFrame
<1>6. CASE \E m \in inbox[n] : Receive(n, m)
  <2>1. PICK m \in inbox[n] : Receive(n, m)
    BY <1>6
  <2>2. CastFrame(n)
    BY <2>1 DEF Receive, CastFrame
  <2>3. CASE m.type = "vote" /\ OnVote(n, m, <<>>)
    <3>1. m \in Vote /\ (m.hash \in Block => m.hash[1] = m.view)
      BY <1>2, <2>3, ItemKinds DEF GoodVote
    <3> QED
      BY <1>1, <2>2, <2>3, <3>1, OnVoteFrame
  <2>4. CASE m.type = "proposal" /\ OnProposal(n, m.hash, <<>>)
    BY <1>1, <1>2, <2>2, <2>4, ItemKinds, OnProposalFrame
  <2>5. CASE m.type = "response" /\ OnBlockResponse(n, m.hash, <<>>)
    BY <1>1, <1>2, <2>2, <2>5, ItemKinds, OnBlockResponseFrame
  <2>6. CASE m.type = "request" /\ OnBlockRequest(n, m.hash, <<>>)
    BY <2>2, <2>6, IdleFrame DEF OnBlockRequest, durable
  <2>7. CASE m.type = "evidence" /\ OnEvidence(n, m, <<>>)
    BY <2>2, <2>7, IdleFrame DEF OnEvidence, durable
  <2> QED
    BY <2>1, <2>3, <2>4, <2>5, <2>6, <2>7 DEF Receive
<1>7. CASE PopVote(n)
  <2> DEFINE m == Head(queue[n])
  <2>1. queue[n] # <<>> /\ m.type = "vote" /\ Broadcast(n, m) /\ OnVote(n, m, Tail(queue[n]))
    BY <1>7 DEF PopVote
  <2>2. m \in Vote /\ (m.hash \in Block => m.hash[1] = m.view)
    BY <1>3, <2>1, ItemKinds DEF GoodVote
  <2>3. CastFrame(n)
    BY <1>1, <2>1, BroadcastFrame
  <2> HIDE DEF m
  <2> QED
    BY <1>1, <2>1, <2>2, <2>3, OnVoteFrame
<1>8. CASE PopMessage(n)
  BY <1>1, <1>8, IdleFrame, BroadcastFrame DEF PopMessage, durable
<1>9. CASE PopDrain(n)
  BY <1>1, <1>9, DrainOrphanFrame DEF PopDrain, world, CastFrame
<1>10. CASE PopBooting(n)
  BY <1>1, <1>10, IdleFrame, BroadcastFrame DEF PopBooting, durable
<1>11. CASE Timeout(n)
  BY <1>11, IdleFrame DEF Timeout, durable, world, CastFrame
<1>12. CASE Restart(n)
  BY <1>1, <1>12, RestartFrame DEF Restart, CastFrame
<1>13. CASE \E m \in inbox[n] : CrashReceiving(n, m)
  <2>1. PICK m \in inbox[n] : CrashReceiving(n, m)
    BY <1>13
  <2>2. CastFrame(n)
    BY <2>1 DEF CrashReceiving, CastFrame
  <2>3. CASE m.type = "vote" /\ (CrashInVote(n, m) \/ CrashInFinalize(n, m))
    BY <1>1, <1>2, <2>2, <2>3, ItemKinds, CrashVoteFrame
  <2>4. CASE m.type \in {"proposal", "response"} /\ CrashInStore(n, m.hash)
    BY <1>1, <1>2, <2>2, <2>4, ItemKinds, CrashInStoreFrame
  <2> QED
    BY <2>1, <2>3, <2>4 DEF CrashReceiving
<1>14. CASE CrashPopping(n)
  <2> DEFINE m == Head(queue[n])
  <2>1. queue[n] # <<>> /\ m \in ValidItem
    BY <1>3, <1>14 DEF CrashPopping
  <2>2. CASE /\ m.type = "vote" /\ Broadcast(n, m)
             /\ CrashInVote(n, m) \/ CrashInFinalize(n, m)
    BY <1>1, <2>1, <2>2, ItemKinds, BroadcastFrame, CrashVoteFrame
  <2>3. CASE /\ \E o \in Waiting(n, m.hash, orphans[n]) : CrashInStore(n, o)
             /\ UNCHANGED <<inbox, cast>>
    <3>1. PICK o \in CreatedBlock : CrashInStore(n, o)
      BY <1>1, <2>3 DEF Waiting, HandlerInv, OrphansCreated
    <3> QED
      BY <1>1, <2>3, <3>1, CrashInStoreFrame DEF CastFrame
  <2> QED
    BY <1>14, <2>2, <2>3 DEF CrashPopping
<1> QED
  BY <1>4, <1>5, <1>6, <1>7, <1>8, <1>9, <1>10, <1>11, <1>12, <1>13, <1>14
  DEF Step, Pop, Crash

\* Whatever a node does, the fields of the others stay, and what is in memory
\* was saved.
LEMMA FieldsStep ==
    ASSUME Inv, NEW n \in Node, Frame(n)
    PROVE  /\ Persisted'
           /\ \E s \in ConsensusState : st' = [st EXCEPT ![n] = s] /\ NotBehind(st[n], s)
<1>1. /\ st \in [Node -> ConsensusState] /\ saved \in [Node -> ConsensusState]
      /\ Persisted
  BY DEF Inv, StructInv, HandlerInv, HandlerTypeOK
<1>2. CASE UNCHANGED <<st, saved>>
  <2>1. st' = [st EXCEPT ![n] = st[n]] /\ NotBehind(st[n], st[n])
    BY <1>1, <1>2, FieldsComparable
  <2> QED
    BY <1>1, <1>2, <2>1 DEF Persisted
<1>3. CASE \E s \in ConsensusState : PersistState(n, s) /\ NotBehind(st[n], s)
  BY <1>1, <1>3 DEF PersistState, Persisted
<1> QED
  BY <1>2, <1>3 DEF Frame, FieldsFrame

\* The three invariants are inductive together.
LEMMA InvStep == Inv /\ [Next]_vars => Inv'
<1> SUFFICES ASSUME Inv, [Next]_vars PROVE Inv'
  OBVIOUS
<1>1. StructInv' /\ CertInv'
  BY NextInv, NextGood DEF Inv
<1>2. CASE UNCHANGED vars
  BY <1>1, <1>2 DEF vars, memory, durable, Inv, Persisted
<1>3. CASE Next
  <2>1. PICK n \in Node : Step(n) \/ Timeout(n) \/ Crash(n)
    BY <1>3 DEF Next
  <2>2. Frame(n)
    BY <2>1, StepFrame
  <2> QED
    BY <1>1, <2>2, FieldsStep DEF Inv
<1> QED
  BY <1>2, <1>3

\* The combined invariant holds in every reachable state.
THEOREM InvCorrect == Spec => []Inv
<1>1. Init => Inv
  BY InitInv, InitGood DEF Inv, Persisted, Init
<1> QED
  BY <1>1, InvStep, PTL DEF Spec

-----------------------------------------------------------------------------
(***************************************************************************)
(* The refinement.                                                         *)
(***************************************************************************)
\* A supermajority is a quorum of the notary.
LEMMA QuorumReached ==
    ASSUME NEW S, S \subseteq Node, Supermajority(S)
    PROVE  Cardinality(S) >= Threshold
<1>1. IsFiniteSet(S)
  BY NodeFinite, FS_Subset
<1>2. Cardinality(S) \in Nat
  BY <1>1, FS_CardinalityType
<1>3. \A k \in Nat : 3 * k > 2 * N => k >= (N * 2) \div 3 + 1
  BY CommitteeAssumption
<1> QED
  BY <1>2, <1>3 DEF Supermajority, Threshold

\* What the votes c certify is backed in the notary.
LEMMA CertBacked ==
    ASSUME NEW c, NEW v, NEW h, Cert(c, v, h)
    PROVE  Promise!Backed(c, v, h)
<1>1. Promise!Notarizers(c, v, h) = Voters(c, v, h) /\ Voters(c, v, h) \subseteq Node
  BY DEF Promise!Notarizers, Voters, create_vote
<1> QED
  BY <1>1, QuorumReached DEF Cert, Promise!Backed

\* Likewise for Finalize votes.
LEMMA FinalizersBacked ==
    ASSUME NEW c, NEW v, Supermajority(Finalizers(c, v))
    PROVE  Promise!Finalizers(c, v) \in {Q \in SUBSET Node : Cardinality(Q) >= Threshold}
<1>1. Promise!Finalizers(c, v) = Finalizers(c, v) /\ Finalizers(c, v) \subseteq Node
  BY DEF Promise!Finalizers, Promise!Hash, Finalizers, create_vote
<1> QED
  BY <1>1, QuorumReached

\* A certificate is written into an empty slot, with its votes.
LEMMA CertifyStep ==
    ASSUME Inv, Inv', NEW n \in Node, QCsFrame(n)
    PROVE  Promise!Certify(n)
<1>1. CASE UNCHANGED qcs
  BY <1>1 DEF Promise!Certify
<1>2. CASE \E v \in View, h \in Block \cup {Zero} :
              qcs[n][v] = None /\ qcs' = [qcs EXCEPT ![n][v] = h]
  <2>1. PICK v \in View, h \in Block \cup {Zero} :
            qcs[n][v] = None /\ qcs' = [qcs EXCEPT ![n][v] = h]
    BY <1>2
  <2>2. qcs \in [Node -> [Height -> Block \cup {Zero, None}]] /\ v \in Height
    BY BoundsAssumption DEF Inv, StructInv, HandlerInv, HandlerTypeOK, View, Height
  <2>3. qcs'[n][v] = h /\ h # None
    BY <2>1, <2>2, HashAssumption DEF Hash
  <2>4. Cert(cast', v, h)
    BY <2>3 DEF Inv, CertInv, CertHandler, QCsGood, GoodQC
  <2>5. Promise!Backed(cast', v, h)
    BY <2>4, CertBacked
  <2> QED
    BY <2>1, <2>5 DEF Promise!Certify, Promise!Hash
<1> QED
  BY <1>1, <1>2 DEF QCsFrame

\* A node enters a later view with a certificate for the one before.
LEMMA EnterStep ==
    ASSUME Inv, Inv', NEW n \in Node, Frame(n)
    PROVE  Promise!Enter(n)
<1> DEFINE e == [p \in Node |-> st[p].view]
           f == [p \in Node |-> st'[p].view]
<1>1. PICK s \in ConsensusState : st' = [st EXCEPT ![n] = s] /\ NotBehind(st[n], s)
  BY FieldsStep
<1>2. st \in [Node -> ConsensusState]
  BY DEF Inv, StructInv, HandlerInv, HandlerTypeOK
<1>3. st'[n] = s /\ f = [e EXCEPT ![n] = s.view] /\ e[n] = st[n].view
  BY <1>1, <1>2
<1>4. CASE s.view = st[n].view
  <2>1. f = e
    BY <1>3, <1>4
  <2> QED
    BY <2>1 DEF Promise!Enter
<1>5. CASE s.view # st[n].view
  <2> DEFINE v == s.view - 1
  <2>1. s.view > st[n].view /\ s.view > 1 /\ v \in View /\ v + 1 = s.view
    <3>1. s.view >= st[n].view
      BY <1>1 DEF NotBehind
    <3>2. s.view \in View \cup {MaxView + 1} /\ st[n].view \in View \cup {MaxView + 1}
      BY <1>2 DEF ConsensusState
    <3> QED
      BY <1>5, <3>1, <3>2, BoundsAssumption DEF View
  <2>2. \E h \in Block \cup {Zero} : Cert(cast', v, h)
    BY <1>3, <2>1 DEF Inv, CertInv, CertHandler, StatesGood, GoodState, GoodView
  <2>3. \E h \in Block \cup {Zero} : Promise!Backed(cast', v, h)
    BY <2>2, CertBacked
  <2>4. f = [e EXCEPT ![n] = v + 1] /\ v + 1 > e[n]
    BY <1>3, <2>1
  <2> HIDE DEF v
  <2> QED
    BY <2>1, <2>3, <2>4 DEF Promise!Enter, Promise!Hash
<1> QED
  BY <1>4, <1>5

\* A node finalizes a later view with its votes, and commits only with that.
LEMMA FinalizeStep ==
    ASSUME Inv, Inv', NEW n \in Node, Frame(n)
    PROVE  Promise!Finalize(n)
<1> DEFINE e == [p \in Node |-> st[p].finalized_height]
           f == [p \in Node |-> st'[p].finalized_height]
<1>1. PICK s \in ConsensusState : st' = [st EXCEPT ![n] = s] /\ NotBehind(st[n], s)
  BY FieldsStep
<1>2. st \in [Node -> ConsensusState]
  BY DEF Inv, StructInv, HandlerInv, HandlerTypeOK
<1>3. st'[n] = s /\ f = [e EXCEPT ![n] = s.finalized_height]
      /\ e[n] = st[n].finalized_height
  BY <1>1, <1>2
<1>4. \/ UNCHANGED committed
      \/ \E h \in Block :
            /\ h[1] = s.finalized_height /\ h[1] > st[n].finalized_height
            /\ committed' = [committed EXCEPT ![n] = @ \cup {h}]
  <2>1. ASSUME NEW h \in Block,
               PersistState(n, [st[n] EXCEPT !.finalized_height = h[1]])
        PROVE  h[1] = s.finalized_height
    <3>1. st'[n] = [st[n] EXCEPT !.finalized_height = h[1]]
      BY <1>2, <2>1 DEF PersistState
    <3>2. st[n] \in ConsensusState
      BY <1>2
    <3> QED
      BY <1>3, <3>1, <3>2 DEF ConsensusState
  <2> QED
    BY <2>1 DEF Frame, CommitFrame
<1>5. CASE s.finalized_height = st[n].finalized_height
  <2>1. f = e
    BY <1>3, <1>5
  <2>2. st[n].finalized_height \in Nat
    BY <1>2, FieldsComparable
  <2>3. UNCHANGED committed
    BY <1>4, <1>5, <2>2
  <2> QED
    BY <2>1, <2>3 DEF Promise!Finalize
<1>6. CASE s.finalized_height # st[n].finalized_height
  <2> DEFINE v == s.finalized_height
  <2>1. v > st[n].finalized_height /\ v > 0 /\ v \in View
    <3>1. v >= st[n].finalized_height
      BY <1>1 DEF NotBehind
    <3>2. v \in Height /\ st[n].finalized_height \in Height
      BY <1>2 DEF ConsensusState
    <3> QED
      BY <1>6, <3>1, <3>2, BoundsAssumption DEF View, Height
  <2>2. /\ Supermajority(Finalizers(cast', v))
        /\ \E h \in Block \cup {Zero} : Cert(cast', v, h)
    BY <1>3, <2>1 DEF Inv, CertInv, CertHandler, StatesGood, GoodState, GoodFinalized
  <2>3. Promise!Finalizers(cast', v) \in {Q \in SUBSET Node : Cardinality(Q) >= Threshold}
    BY <2>2, FinalizersBacked
  <2>4. f = [e EXCEPT ![n] = v] /\ v > e[n]
    BY <1>3, <2>1
  <2> HIDE DEF v
  <2>5. CASE UNCHANGED committed
    <3>1. PICK h \in Block \cup {Zero} : Promise!Backed(cast', v, h)
      BY <2>2, CertBacked
    <3> QED
      BY <2>1, <2>3, <2>4, <2>5, <3>1 DEF Promise!Finalize, Promise!Hash
  <2>6. CASE \E h \in Block :
               h[1] = v /\ committed' = [committed EXCEPT ![n] = @ \cup {h}]
    <3>1. PICK h \in Block : h[1] = v /\ committed' = [committed EXCEPT ![n] = @ \cup {h}]
      BY <2>6
    <3>2. h \in committed'[n]
      <4>1. committed \in [Node -> SUBSET Block]
        BY DEF Inv, StructInv, HandlerInv, HandlerTypeOK
      <4> QED
        BY <3>1, <4>1
    <3>3. Cert(cast', v, h)
      BY <3>1, <3>2 DEF Inv, CertInv, CertHandler, CommitsGood
    <3>4. Promise!Backed(cast', v, h)
      BY <3>3, CertBacked
    <3> QED
      BY <2>1, <2>3, <2>4, <3>1, <3>4 DEF Promise!Finalize, Promise!Hash
  <2> QED
    BY <1>4, <2>5, <2>6 DEF v
<1> QED
  BY <1>5, <1>6

\* Every step of consensus is a step of the notary or changes nothing it sees.
LEMMA NotaryStep ==
    ASSUME Inv, Inv', [Next]_vars
    PROVE  [Promise!Next]_(Promise!vars)
<1>1. CASE UNCHANGED vars
  BY <1>1 DEF vars, memory, durable, world, Promise!vars
<1>2. CASE Next
  <2>1. PICK n \in Node : Step(n) \/ Timeout(n) \/ Crash(n)
    BY <1>2 DEF Next
  <2>2. Frame(n) /\ CastFrame(n)
    BY <2>1, StepFrame
  <2>3. Promise!Sign(n)
    BY <2>2 DEF CastFrame, Vote, Promise!Sign, Promise!Vote, Promise!Hash
  <2>4. Promise!Certify(n)
    BY <2>2, CertifyStep DEF Frame
  <2>5. Promise!Enter(n) /\ Promise!Finalize(n)
    BY <2>2, EnterStep, FinalizeStep
  <2> QED
    BY <2>3, <2>4, <2>5 DEF Promise!Next
<1> QED
  BY <1>1, <1>2

\* The network of consensus nodes implements the notary: handlers, timers and
\* crashes anywhere in a handler only ever sign, certify, enter, finalize and
\* commit the way the notary does.
THEOREM Refinement == Spec => ImplementsNotary
<1>1. Init => Promise!Init
  BY DEF Init, Promise!Init
<1>2. Inv /\ Inv' /\ [Next]_vars => [Promise!Next]_(Promise!vars)
  BY NotaryStep
<1> QED
  BY <1>1, <1>2, InvCorrect, PTL DEF Spec, ImplementsNotary, Promise!Spec

\* View, finalized height and preferred view never go back, also when a node
\* is reloaded after a crash in the middle of a handler (persist_state).
THEOREM NeverBehind == Spec => NoRollback
<1>1. ASSUME Inv, [Next]_vars
      PROVE  [\A n \in Node : /\ st'[n].view >= st[n].view
                              /\ st'[n].finalized_height >= st[n].finalized_height
                              /\ st'[n].preferred_view >= st[n].preferred_view]_vars
  <2>1. CASE UNCHANGED vars
    BY <2>1
  <2>2. CASE Next
    <3>1. PICK n \in Node : Step(n) \/ Timeout(n) \/ Crash(n)
      BY <2>2 DEF Next
    <3>2. PICK s \in ConsensusState : st' = [st EXCEPT ![n] = s] /\ NotBehind(st[n], s)
      BY <1>1, <3>1, StepFrame, FieldsStep
    <3>3. \A p \in Node : st[p] \in ConsensusState /\ st'[p] = IF p = n THEN s ELSE st[p]
      BY <1>1, <3>2 DEF Inv, StructInv, HandlerInv, HandlerTypeOK
    <3> QED
      BY <3>2, <3>3, FieldsComparable DEF NotBehind
  <2> QED
    BY <1>1, <2>1, <2>2
<1> QED
  BY <1>1, InvCorrect, PTL DEF Spec, NoRollback
=============================================================================
