------------------------ MODULE SimplexCertificates ------------------------
(***************************************************************************)
(* Every certificate, and everything a node does because of one, is backed *)
(* by broadcast votes of more than two thirds of a committee's worth of    *)
(* nodes: proofs for every value of the constants of Simplex.              *)
(***************************************************************************)
EXTENDS SimplexProofs

-----------------------------------------------------------------------------
(***************************************************************************)
(* What the votes c that were cast establish.                              *)
(***************************************************************************)
Voters(c, v, h) == {a \in Node : create_vote(a, v, h, "Notarize") \in c}

Finalizers(c, v) ==
    {a \in Node : \E h \in Block \cup {Zero} : create_vote(a, v, h, "Finalize") \in c}

Cert(c, v, h) == Supermajority(Voters(c, v, h))

\* A certificate for a block is one of the block's own view.
GoodQC(c, v, h) == Cert(c, v, h) /\ (h \in Block => h[1] = v)

\* A block is voted for in its own view, and a Finalize vote has a certificate.
GoodVote(c, m) ==
    /\ m.hash \in Block => m.hash[1] = m.view
    /\ m.vtype = "Finalize" => Cert(c, m.view, m.hash)

\* hd is a possible header of block b.
GoodHeader(c, b, hd) ==
    /\ b[1] = 1 => hd.justify = Zero
    /\ b[1] > 1 => GoodQC(c, b[1] - 1, hd.justify)
    /\ hd.parent # Genesis => Cert(c, hd.parent[1], hd.parent)

GoodPreferred(c, s) ==
    s.preferred_block # Genesis => GoodQC(c, s.preferred_view, s.preferred_block)

GoodView(c, s) == s.view > 1 => \E h \in Block \cup {Zero} : Cert(c, s.view - 1, h)

GoodFinalized(c, s) ==
    s.finalized_height > 0 =>
        /\ Supermajority(Finalizers(c, s.finalized_height))
        /\ \E h \in Block \cup {Zero} : Cert(c, s.finalized_height, h)

GoodState(c, s) == GoodPreferred(c, s) /\ GoodView(c, s) /\ GoodFinalized(c, s)

(***************************************************************************)
(* The inductive invariant, on top of StructInv.                           *)
(***************************************************************************)
\* Items node n may have on its stack.
GoodItem(n) == {m \in ValidItem : m.type = "vote" => m.author = n /\ GoodVote(cast, m)}

VotesBacked ==
    \A n \in Node, v \in View, a \in Node :
        votes_received[n][v][a] # None =>
            create_vote(a, v, votes_received[n][v][a], "Notarize") \in cast

FinalizeBacked ==
    \A n \in Node, v \in View : finalize_votes[n][v] \subseteq Finalizers(cast, v)

QueueGood == \A n \in Node : queue[n] \in Seq(GoodItem(n))

HeadersGood == \A b \in CreatedBlock : GoodHeader(cast, b, header[b])

StatesGood == \A n \in Node : GoodState(cast, st[n]) /\ GoodState(cast, saved[n])

QCsGood ==
    \A n \in Node : /\ qcs[n][0] = Zero
                    /\ \A v \in View : qcs[n][v] # None => GoodQC(cast, v, qcs[n][v])

CommitsGood == \A n \in Node : \A b \in committed[n] : Cert(cast, b[1], b)

CertHandler ==
    /\ VotesBacked /\ FinalizeBacked /\ QueueGood /\ HeadersGood
    /\ StatesGood /\ QCsGood /\ CommitsGood

InboxCast == \A n \in Node : \A m \in inbox[n] : m.type = "vote" => m \in cast

CastGood == \A m \in cast : GoodVote(cast, m)

CertInv == CertHandler /\ InboxCast /\ CastGood

-----------------------------------------------------------------------------
(***************************************************************************)
(* Supermajorities.                                                        *)
(***************************************************************************)
\* There are finitely many nodes.
LEMMA NodeFinite == IsFiniteSet(Node) /\ Cardinality(Node) \in Nat
<1>1. 0 \in Int /\ N + Learners - 1 \in Int
  BY CommitteeAssumption
<1>2. IsFiniteSet(Node)
  BY <1>1, FS_Interval DEF Node
<1> QED
  BY <1>2, FS_CardinalityType

\* A superset of a supermajority is one.
LEMMA SupermajorityMono ==
    ASSUME NEW S, NEW T, S \subseteq T, T \subseteq Node, Supermajority(S)
    PROVE  Supermajority(T)
<1>1. IsFiniteSet(T)
  BY NodeFinite, FS_Subset
<1>2. IsFiniteSet(S) /\ Cardinality(S) =< Cardinality(T)
  BY <1>1, FS_Subset
<1>3. Cardinality(S) \in Nat /\ Cardinality(T) \in Nat
  BY <1>1, <1>2, FS_CardinalityType
<1> QED
  BY <1>2, <1>3, CommitteeAssumption DEF Supermajority

\* The threshold of on_vote and on_finalize_vote is a supermajority.
LEMMA ThresholdSuffices ==
    ASSUME NEW S, S \subseteq Node, Cardinality(S) >= Threshold
    PROVE  Supermajority(S)
<1>1. IsFiniteSet(S)
  BY NodeFinite, FS_Subset
<1>2. Cardinality(S) \in Nat
  BY <1>1, FS_CardinalityType
<1>3. 3 * ((N * 2) \div 3 + 1) > 2 * N
  BY CommitteeAssumption
<1>4. (N * 2) \div 3 + 1 \in Int
  BY CommitteeAssumption
<1> QED
  BY <1>2, <1>3, <1>4, CommitteeAssumption DEF Supermajority, Threshold

(***************************************************************************)
(* Votes that were cast stay cast, so what they establish lasts.           *)
(***************************************************************************)
\* A certificate lasts when more votes are cast.
LEMMA CertMono ==
    ASSUME NEW c, NEW d, c \subseteq d, NEW v, NEW h
    PROVE  Cert(c, v, h) => Cert(d, v, h)
<1>1. Voters(c, v, h) \subseteq Voters(d, v, h) /\ Voters(d, v, h) \subseteq Node
  BY DEF Voters
<1> QED
  BY <1>1, SupermajorityMono DEF Cert

\* A finalization lasts when more votes are cast.
LEMMA FinalizersMono ==
    ASSUME NEW c, NEW d, c \subseteq d, NEW v
    PROVE  /\ Finalizers(c, v) \subseteq Finalizers(d, v)
           /\ Supermajority(Finalizers(c, v)) => Supermajority(Finalizers(d, v))
<1>1. Finalizers(c, v) \subseteq Finalizers(d, v) /\ Finalizers(d, v) \subseteq Node
  BY DEF Finalizers
<1> QED
  BY <1>1, SupermajorityMono

\* Whatever is justified stays justified when more votes are cast.
LEMMA GoodMono ==
    ASSUME NEW c, NEW d, c \subseteq d
    PROVE  /\ \A v, h : GoodQC(c, v, h) => GoodQC(d, v, h)
           /\ \A m : GoodVote(c, m) => GoodVote(d, m)
           /\ \A b, hd : GoodHeader(c, b, hd) => GoodHeader(d, b, hd)
           /\ \A s : GoodState(c, s) => GoodState(d, s)
<1>1. \A v, h : Cert(c, v, h) => Cert(d, v, h)
  BY CertMono
<1>2. \A v, h : GoodQC(c, v, h) => GoodQC(d, v, h)
  BY <1>1 DEF GoodQC
<1>3. \A m : GoodVote(c, m) => GoodVote(d, m)
  BY <1>1 DEF GoodVote
<1>4. \A b, hd : GoodHeader(c, b, hd) => GoodHeader(d, b, hd)
  BY <1>1, <1>2 DEF GoodHeader
<1>5. \A v : Supermajority(Finalizers(c, v)) => Supermajority(Finalizers(d, v))
  BY FinalizersMono
<1>6. \A s : GoodState(c, s) => GoodState(d, s)
  BY <1>1, <1>2, <1>5 DEF GoodState, GoodPreferred, GoodView, GoodFinalized
<1> QED
  BY <1>2, <1>3, <1>4, <1>6

\* A better preferred block, a next view: the fields stay justified.
LEMMA GoodPreferredUpdate ==
    ASSUME NEW c, NEW s \in ConsensusState, GoodState(c, s), NEW v \in Height,
           NEW h \in Block \cup {Zero}, h # Zero => GoodQC(c, v, h)
    PROVE  GoodState(c, UpdatePreferredChain(s, v, h))
<1>1. CASE h # Zero /\ v >= s.preferred_view
  <2> DEFINE t == [s EXCEPT !.preferred_view = v, !.preferred_block = h]
  <2>1. /\ t.preferred_view = v /\ t.preferred_block = h /\ t.view = s.view
        /\ t.finalized_height = s.finalized_height
    BY DEF ConsensusState
  <2> HIDE DEF t
  <2>2. GoodPreferred(c, t)
    BY <1>1, <2>1 DEF GoodPreferred
  <2>3. GoodView(c, t) /\ GoodFinalized(c, t)
    BY <2>1 DEF GoodState, GoodView, GoodFinalized
  <2> QED
    BY <1>1, <2>2, <2>3 DEF GoodState, UpdatePreferredChain, t
<1>2. CASE ~(h # Zero /\ v >= s.preferred_view)
  BY <1>2 DEF UpdatePreferredChain
<1> QED
  BY <1>1, <1>2

\* The fields stay justified in a view whose predecessor is certified.
LEMMA GoodViewUpdate ==
    ASSUME NEW c, NEW s \in ConsensusState, GoodState(c, s), NEW v \in Nat,
           v > 1 => \E h \in Block \cup {Zero} : Cert(c, v - 1, h)
    PROVE  GoodState(c, [s EXCEPT !.view = v])
<1> DEFINE t == [s EXCEPT !.view = v]
<1>1. /\ t.view = v /\ t.preferred_view = s.preferred_view
      /\ t.preferred_block = s.preferred_block /\ t.finalized_height = s.finalized_height
  BY DEF ConsensusState
<1> HIDE DEF t
<1>2. GoodState(c, t)
  BY <1>1 DEF GoodState, GoodPreferred, GoodView, GoodFinalized
<1> QED
  BY <1>2 DEF t

\* The view last voted in needs no justification.
LEMMA GoodLastVotedUpdate ==
    ASSUME NEW c, NEW s \in ConsensusState, GoodState(c, s), NEW v
    PROVE  GoodState(c, [s EXCEPT !.last_voted_view = v])
<1> DEFINE t == [s EXCEPT !.last_voted_view = v]
<1>1. /\ t.view = s.view /\ t.preferred_view = s.preferred_view
      /\ t.preferred_block = s.preferred_block /\ t.finalized_height = s.finalized_height
  BY DEF ConsensusState
<1> HIDE DEF t
<1>2. GoodState(c, t)
  BY <1>1 DEF GoodState, GoodPreferred, GoodView, GoodFinalized
<1> QED
  BY <1>2 DEF t

-----------------------------------------------------------------------------
(***************************************************************************)
(* Handlers: what is known before and after one, and what survives it.     *)
(***************************************************************************)
Context ==
    /\ HandlerInv /\ HandlerInv' /\ HeadersKept
    /\ CertHandler
    /\ cast \subseteq cast'

\* What was established by the votes cast before is established after.
LEMMA CarryOver ==
    ASSUME Context
    PROVE  /\ \A n \in Node, v \in View, a \in Node :
                 votes_received[n][v][a] # None =>
                     create_vote(a, v, votes_received[n][v][a], "Notarize") \in cast'
           /\ \A n \in Node, v \in View : finalize_votes[n][v] \subseteq Finalizers(cast', v)
           /\ \A n \in Node : GoodItem(n) \subseteq GoodItem(n)'
           /\ \A b \in CreatedBlock : GoodHeader(cast', b, header[b])
           /\ \A n \in Node : GoodState(cast', st[n]) /\ GoodState(cast', saved[n])
           /\ \A n \in Node, v \in View : qcs[n][v] # None => GoodQC(cast', v, qcs[n][v])
           /\ \A n \in Node : \A b \in committed[n] : Cert(cast', b[1], b)
<1>1. CertHandler /\ cast \subseteq cast'
  BY DEF Context
<1>2. /\ \A v, h : GoodQC(cast, v, h) => GoodQC(cast', v, h)
      /\ \A m : GoodVote(cast, m) => GoodVote(cast', m)
      /\ \A b, hd : GoodHeader(cast, b, hd) => GoodHeader(cast', b, hd)
      /\ \A x : GoodState(cast, x) => GoodState(cast', x)
  BY <1>1, GoodMono
<1>3. \A v, h : Cert(cast, v, h) => Cert(cast', v, h)
  BY <1>1, CertMono
<1>4. \A v : Finalizers(cast, v) \subseteq Finalizers(cast', v)
  BY <1>1, FinalizersMono
<1>5. ValidItem \subseteq ValidItem'
  BY ValidItemGrows DEF Context, HandlerInv
<1>6. \A n \in Node : GoodItem(n) \subseteq GoodItem(n)'
  BY <1>2, <1>5 DEF GoodItem
<1>7. \A n \in Node, v \in View, a \in Node :
         votes_received[n][v][a] # None =>
             create_vote(a, v, votes_received[n][v][a], "Notarize") \in cast'
  BY <1>1 DEF CertHandler, VotesBacked
<1>8. \A n \in Node, v \in View : finalize_votes[n][v] \subseteq Finalizers(cast', v)
  BY <1>1, <1>4 DEF CertHandler, FinalizeBacked
<1>9. \A b \in CreatedBlock : GoodHeader(cast', b, header[b])
  BY <1>1, <1>2 DEF CertHandler, HeadersGood
<1>10. \A n \in Node : GoodState(cast', st[n]) /\ GoodState(cast', saved[n])
  BY <1>1, <1>2 DEF CertHandler, StatesGood
<1>11. \A n \in Node, v \in View : qcs[n][v] # None => GoodQC(cast', v, qcs[n][v])
  BY <1>1, <1>2 DEF CertHandler, QCsGood
<1>12. \A n \in Node : \A b \in committed[n] : Cert(cast', b[1], b)
  BY <1>1, <1>3 DEF CertHandler, CommitsGood
<1> QED
  BY <1>6, <1>7, <1>8, <1>9, <1>10, <1>11, <1>12

\* One conjunct of CertHandler' for every piece of state that is left alone.
LEMMA Untouched ==
    ASSUME Context
    PROVE  /\ UNCHANGED votes_received => VotesBacked'
           /\ UNCHANGED finalize_votes => FinalizeBacked'
           /\ UNCHANGED header => HeadersGood'
           /\ UNCHANGED <<st, saved>> => StatesGood'
           /\ UNCHANGED qcs => QCsGood'
           /\ UNCHANGED committed => CommitsGood'
<1>1. UNCHANGED votes_received => VotesBacked'
  BY CarryOver DEF VotesBacked
<1>2. UNCHANGED finalize_votes => FinalizeBacked'
  BY CarryOver DEF FinalizeBacked
<1>3. UNCHANGED header => HeadersGood'
  BY CarryOver, SameHeaders DEF HeadersGood
<1>4. UNCHANGED <<st, saved>> => StatesGood'
  BY CarryOver DEF StatesGood
<1>5. UNCHANGED qcs => QCsGood'
  BY CarryOver DEF QCsGood, Context, CertHandler
<1>6. UNCHANGED committed => CommitsGood'
  BY CarryOver DEF CommitsGood
<1> QED
  BY <1>1, <1>2, <1>3, <1>4, <1>5, <1>6

\* Replacing the stack of one node by good items keeps all stacks good.
LEMMA QueueGoodSet ==
    ASSUME Context, NEW n \in Node, NEW q \in Seq(GoodItem(n)'),
           queue' = [queue EXCEPT ![n] = q]
    PROVE  QueueGood'
<1>1. ASSUME NEW p \in Node PROVE queue'[p] \in Seq(GoodItem(p)')
  <2>1. CASE p = n
    BY <2>1 DEF Context, HandlerInv, HandlerTypeOK
  <2>2. CASE p # n
    <3>1. queue[p] \in Seq(GoodItem(p))
      BY DEF Context, CertHandler, QueueGood
    <3>2. queue[p] \in Seq(GoodItem(p)')
      BY <3>1, CarryOver, SeqMono
    <3> QED
      BY <2>2, <3>2 DEF Context, HandlerInv, HandlerTypeOK
  <2> QED
    BY <2>1, <2>2
<1> QED
  BY <1>1 DEF QueueGood

\* Persisting justified fields keeps all fields justified.
LEMMA PersistGood ==
    ASSUME Context, NEW n \in Node, NEW s, GoodState(cast', s), PersistState(n, s)
    PROVE  StatesGood'
<1>1. \A p \in Node : st'[p] = (IF p = n THEN s ELSE st[p])
                      /\ saved'[p] = (IF p = n THEN s ELSE saved[p])
  BY DEF PersistState, Context, HandlerInv, HandlerTypeOK
<1>2. \A p \in Node : GoodState(cast', st[p]) /\ GoodState(cast', saved[p])
  BY CarryOver
<1> QED
  BY <1>1, <1>2 DEF StatesGood

\* A vote node n makes for a block of that view, or with a certificate, is good.
LEMMA OwnVoteGood ==
    ASSUME Context, NEW n \in Node, NEW v \in View, NEW h \in Block \cup {Zero},
           NEW t \in {"Notarize", "Finalize"}, h \in Block => h[1] = v,
           t = "Finalize" => Cert(cast', v, h)
    PROVE  create_vote(n, v, h, t) \in GoodItem(n)'
<1>1. create_vote(n, v, h, t) \in ValidItem'
  BY VoteType DEF ValidItem
<1>2. /\ create_vote(n, v, h, t).author = n /\ create_vote(n, v, h, t).view = v
      /\ create_vote(n, v, h, t).hash = h /\ create_vote(n, v, h, t).vtype = t
  BY DEF create_vote
<1>3. GoodVote(cast', create_vote(n, v, h, t))
  BY <1>2 DEF GoodVote
<1> QED
  BY <1>1, <1>2, <1>3 DEF GoodItem

\* The Finalize vote for a certified justify QC is good.
LEMMA FinalizeJustifyGood ==
    ASSUME Context, NEW n \in Node, NEW v \in Height, NEW h \in Block \cup {Zero},
           v > 0 => GoodQC(cast', v, h)
    PROVE  FinalizeJustify(n, v, h) \in Seq(GoodItem(n)')
<1>1. CASE v > 0
  <2>1. v \in View
    BY <1>1, BoundsAssumption DEF View, Height
  <2>2. create_vote(n, v, h, "Finalize") \in GoodItem(n)'
    BY <1>1, <2>1, OwnVoteGood DEF GoodQC
  <2> QED
    BY <1>1, <2>2 DEF FinalizeJustify
<1>2. CASE ~(v > 0)
  BY <1>2 DEF FinalizeJustify
<1> QED
  BY <1>1, <1>2

\* Other valid items are good.
LEMMA OtherItemGood ==
    ASSUME NEW n \in Node, NEW m \in ValidItem', m.type # "vote"
    PROVE  m \in GoodItem(n)'
  BY DEF GoodItem

\* What is left on a stack stays good.
LEMMA RestGood ==
    ASSUME Context, NEW n \in Node, NEW rest \in Seq(GoodItem(n))
    PROVE  rest \in Seq(GoodItem(n)')
  BY CarryOver, SeqMono

-----------------------------------------------------------------------------
(***************************************************************************)
(* on_vote keeps the invariant.                                            *)
(***************************************************************************)
\* The vote being handled was cast and is good.
VoteContext(n, m, rest) ==
    /\ Context
    /\ m \in cast' /\ GoodVote(cast', m)
    /\ rest \in Seq(GoodItem(n))

\* A vote is what create_vote makes of its fields.
LEMMA NotarizeIdentity ==
    ASSUME NEW m \in Vote
    PROVE  m = create_vote(m.author, m.view, m.hash, m.vtype)
  BY DEF Vote, create_vote

\* Recording a cast vote keeps the table of received votes backed.
LEMMA RecordVoteGood ==
    ASSUME NEW n \in Node, NEW m \in Vote, NEW rest, VoteContext(n, m, rest),
           m.vtype = "Notarize", RecordVote(n, m)
    PROVE  VotesBacked'
<1>1. Context /\ m \in cast' /\ HandlerTypeOK
  BY DEF VoteContext, Context, HandlerInv
<1>2. create_vote(m.author, m.view, m.hash, "Notarize") \in cast'
  BY <1>1, NotarizeIdentity
<1>3. m.view \in View /\ m.author \in Node
  BY DEF Vote
<1>4. ASSUME NEW p \in Node, NEW v \in View, NEW a \in Node, votes_received'[p][v][a] # None
      PROVE  create_vote(a, v, votes_received'[p][v][a], "Notarize") \in cast'
  <2>1. CASE p = n /\ v = m.view /\ a = m.author
    <3>1. votes_received'[p][v][a] = m.hash
      BY <1>1, <1>3, <2>1 DEF RecordVote, Tally, HandlerTypeOK
    <3> QED
      BY <1>2, <2>1, <3>1
  <2>2. CASE ~(p = n /\ v = m.view /\ a = m.author)
    <3>1. votes_received'[p][v][a] = votes_received[p][v][a]
      BY <1>1, <1>3, <2>2 DEF RecordVote, Tally, HandlerTypeOK
    <3> QED
      BY <1>1, <1>4, <3>1, CarryOver
  <2> QED
    BY <2>1, <2>2
<1> QED
  BY <1>4 DEF VotesBacked

\* The quorum check of on_vote: its count is one of votes that were cast.
LEMMA QCFormed ==
    ASSUME NEW n \in Node, NEW m \in Vote, NEW rest, VoteContext(n, m, rest),
           m.vtype = "Notarize", FormsQC(n, m)
    PROVE  GoodQC(cast', m.view, m.hash)
<1> DEFINE S == {a \in Node : Tally(n, m)[a] = m.hash}
<1>1. Context /\ m \in cast' /\ HandlerTypeOK
  BY DEF VoteContext, Context, HandlerInv
<1>2. create_vote(m.author, m.view, m.hash, "Notarize") \in cast'
  BY <1>1, NotarizeIdentity
<1>3. m.view \in View /\ m.author \in Node /\ m.hash # None
  BY HashAssumption DEF Vote, Hash
<1>4. ASSUME NEW a \in S PROVE a \in Voters(cast', m.view, m.hash)
  <2>1. CASE a = m.author
    BY <1>2, <1>3, <2>1 DEF Voters
  <2>2. CASE a # m.author
    <3>1. votes_received[n][m.view][a] = m.hash
      BY <1>1, <1>3, <2>2 DEF Tally, HandlerTypeOK
    <3>2. create_vote(a, m.view, m.hash, "Notarize") \in cast'
      BY <1>1, <1>3, <3>1, CarryOver
    <3> QED
      BY <3>2 DEF Voters
  <2> QED
    BY <2>1, <2>2
<1>5. Supermajority(S)
  BY ThresholdSuffices DEF FormsQC, CountForBlock
<1>6. Voters(cast', m.view, m.hash) \subseteq Node
  BY DEF Voters
<1>7. Cert(cast', m.view, m.hash)
  BY <1>4, <1>5, <1>6, SupermajorityMono DEF Cert
<1> QED
  BY <1>7 DEF GoodQC, VoteContext, GoodVote

\* What a vote handler leaves alone, and evidence of a double vote.
LEMMA OnEquivocationGood ==
    ASSUME NEW n \in Node, NEW m \in Vote, NEW rest, VoteContext(n, m, rest),
           OnEquivocation(n, m, rest)
    PROVE  CertHandler'
<1> DEFINE e == [type |-> "evidence", author |-> m.author, view |-> m.view,
                 vote_a |-> votes_received[n][m.view][m.author], vote_b |-> m.hash]
           q == IF IsNewEvidence(n, e) THEN <<e>> \o rest ELSE rest
<1>1. Context /\ HandlerTypeOK /\ rest \in Seq(GoodItem(n)')
  BY RestGood DEF VoteContext, Context, HandlerInv
<1>2. e \in Evidence
  BY <1>1 DEF OnEquivocation, IsEquivocation, HandlerTypeOK, Vote, Evidence
<1>3. e \in ValidItem' /\ e.type # "vote"
  BY <1>2 DEF ValidItem
<1>4. e \in GoodItem(n)'
  BY <1>3, OtherItemGood
<1>5. q \in Seq(GoodItem(n)') /\ queue' = [queue EXCEPT ![n] = q]
  BY <1>1, <1>4 DEF OnEquivocation
<1> HIDE DEF q
<1>6. QueueGood'
  BY <1>1, <1>5, QueueGoodSet
<1>7. /\ VotesBacked' /\ FinalizeBacked' /\ HeadersGood'
      /\ StatesGood' /\ QCsGood' /\ CommitsGood'
  BY <1>1, Untouched DEF OnEquivocation, durable
<1> QED
  BY <1>6, <1>7 DEF CertHandler

\* A vote that completes no quorum.
LEMMA OnVoteCountedGood ==
    ASSUME NEW n \in Node, NEW m \in Vote, NEW rest, VoteContext(n, m, rest),
           m.vtype = "Notarize", OnVoteCounted(n, m, rest)
    PROVE  CertHandler'
<1>1. Context /\ rest \in Seq(GoodItem(n)')
  BY RestGood DEF VoteContext
<1>2. VotesBacked'
  BY RecordVoteGood DEF OnVoteCounted
<1>3. QueueGood'
  BY <1>1, QueueGoodSet DEF OnVoteCounted
<1>4. FinalizeBacked' /\ HeadersGood' /\ StatesGood' /\ QCsGood' /\ CommitsGood'
  BY <1>1, Untouched DEF OnVoteCounted, durable
<1> QED
  BY <1>2, <1>3, <1>4 DEF CertHandler

\* The fields after a QC are justified by the QC.
LEMMA AfterQCGood ==
    ASSUME NEW n \in Node, NEW m \in Vote, Context, GoodQC(cast', m.view, m.hash)
    PROVE  GoodState(cast', AfterQC(n, m))
<1> DEFINE s == UpdatePreferredChain(st[n], m.view, m.hash)
<1>1. HandlerTypeOK
  BY DEF Context, HandlerInv
<1>2. m.view \in View /\ m.view \in Height /\ m.hash \in Block \cup {Zero}
  BY BoundsAssumption DEF Vote, View, Height
<1>3. st[n] \in ConsensusState /\ GoodState(cast', st[n])
  BY <1>1, CarryOver DEF HandlerTypeOK
<1>4. s \in ConsensusState /\ GoodState(cast', s)
  BY <1>2, <1>3, PreferredType, GoodPreferredUpdate
<1> HIDE DEF s
<1> DEFINE w == m.view + 1
<1>5. w \in Nat /\ w - 1 = m.view
  BY <1>2, BoundsAssumption DEF View
<1> HIDE DEF w
<1>6. \E h \in Block \cup {Zero} : Cert(cast', w - 1, h)
  BY <1>2, <1>5 DEF GoodQC
<1>7. GoodState(cast', [s EXCEPT !.view = w])
  BY <1>4, <1>5, <1>6, GoodViewUpdate
<1> QED
  BY <1>4, <1>7 DEF AfterQC, s, w

\* Storing a backed QC keeps every stored QC backed.
LEMMA SaveQCGood ==
    ASSUME NEW n \in Node, NEW m \in Vote, Context, GoodQC(cast', m.view, m.hash),
           SaveQC(n, m)
    PROVE  QCsGood'
<1>1. HandlerTypeOK /\ \A p \in Node : qcs[p][0] = Zero
  BY DEF Context, HandlerInv, CertHandler, QCsGood
<1>2. m.view \in View /\ m.view \in Height /\ m.view # 0 /\ 0 \in Height /\ View \subseteq Height
  BY BoundsAssumption DEF Vote, View, Height
<1>3. \A p \in Node, v \in Height :
         qcs'[p][v] = IF p = n /\ v = m.view THEN m.hash ELSE qcs[p][v]
  BY <1>1, <1>2 DEF SaveQC, HandlerTypeOK
<1>4. \A p \in Node : qcs'[p][0] = Zero
  BY <1>1, <1>2, <1>3
<1>5. \A p \in Node, v \in View : qcs'[p][v] # None => GoodQC(cast', v, qcs'[p][v])
  BY <1>2, <1>3, CarryOver
<1> QED
  BY <1>4, <1>5 DEF QCsGood

\* A QC forms and nothing is proposed on it.
LEMMA OnVoteQCGood ==
    ASSUME NEW n \in Node, NEW m \in Vote, NEW rest, VoteContext(n, m, rest),
           m.vtype = "Notarize", OnVoteQC(n, m, rest)
    PROVE  CertHandler'
<1> DEFINE q == <<create_vote(n, m.view, m.hash, "Finalize")>> \o rest
<1>1. Context /\ rest \in Seq(GoodItem(n)')
  BY RestGood DEF VoteContext
<1>2. GoodQC(cast', m.view, m.hash)
  BY QCFormed DEF OnVoteQC
<1>3. m.view \in View /\ m.hash \in Block \cup {Zero}
  BY DEF Vote
<1>4. create_vote(n, m.view, m.hash, "Finalize") \in GoodItem(n)'
  BY <1>1, <1>2, <1>3, OwnVoteGood DEF GoodQC
<1>5. q \in Seq(GoodItem(n)') /\ queue' = [queue EXCEPT ![n] = q]
  BY <1>1, <1>4 DEF OnVoteQC
<1> HIDE DEF q
<1>6. QueueGood'
  BY <1>1, <1>5, QueueGoodSet
<1>7. VotesBacked'
  BY RecordVoteGood DEF OnVoteQC
<1>8. StatesGood'
  BY <1>1, <1>2, AfterQCGood, PersistGood DEF OnVoteQC
<1>9. QCsGood'
  BY <1>1, <1>2, SaveQCGood DEF OnVoteQC
<1>10. FinalizeBacked' /\ HeadersGood' /\ CommitsGood'
  BY <1>1, Untouched DEF OnVoteQC
<1> QED
  BY <1>6, <1>7, <1>8, <1>9, <1>10 DEF CertHandler

\* The block a leader extends is certified, or genesis.
LEMMA ParentGood ==
    ASSUME NEW c, NEW s \in ConsensusState, GoodState(c, s), NEW v,
           NEW h \in Block \cup {Zero}, h \in Block => GoodQC(c, v, h)
    PROVE  ParentFor(s, h) # Genesis => Cert(c, ParentFor(s, h)[1], ParentFor(s, h))
<1>1. CASE h = Zero
  <2>1. s.preferred_block \in Block \cup {Genesis}
    BY DEF ConsensusState, Hash
  <2>2. s.preferred_block # Genesis => GoodQC(c, s.preferred_view, s.preferred_block)
    BY DEF GoodState, GoodPreferred
  <2> QED
    BY <1>1, <2>1, <2>2 DEF ParentFor, GoodQC
<1>2. CASE h # Zero
  BY <1>2 DEF ParentFor, GoodQC
<1> QED
  BY <1>1, <1>2

\* A proposal on a certified view and a certified parent has a good header.
LEMMA CreateProposalGood ==
    ASSUME Context, NEW n \in Node, NEW b \in Block, NEW v \in View, NEW parent,
           NEW h, CreateProposal(n, b, v, parent, h),
           v = 1 => h = Zero, v > 1 => GoodQC(cast', v - 1, h),
           parent # Genesis => Cert(cast', parent[1], parent)
    PROVE  HeadersGood'
<1> DEFINE hd == [parent |-> parent, justify |-> h, evidence |-> evidence_pool[n]]
<1>1. HandlerTypeOK
  BY DEF Context, HandlerInv
<1>2. header' = [header EXCEPT ![b] = hd] /\ b[1] = v
  BY DEF CreateProposal
<1>3. hd.parent = parent /\ hd.justify = h
  OBVIOUS
<1> HIDE DEF hd
<1>4. GoodHeader(cast', b, hd)
  BY <1>2, <1>3 DEF GoodHeader
<1>5. ASSUME NEW c \in CreatedBlock' PROVE GoodHeader(cast', c, header'[c])
  <2>1. CASE c = b
    BY <1>1, <1>2, <1>4, <2>1 DEF HandlerTypeOK
  <2>2. CASE c # b
    <3>1. c \in Block /\ header'[c] # None
      BY DEF CreatedBlock, Created
    <3>2. header'[c] = header[c]
      BY <1>1, <1>2, <2>2, <3>1 DEF HandlerTypeOK
    <3>3. c \in CreatedBlock
      BY <3>1, <3>2 DEF CreatedBlock, Created
    <3> QED
      BY <3>2, <3>3, CarryOver
  <2> QED
    BY <2>1, <2>2
<1> QED
  BY <1>5 DEF HeadersGood

\* A QC forms and the next leader proposes on it.
LEMMA OnVoteQCProposeGood ==
    ASSUME NEW n \in Node, NEW m \in Vote, NEW rest, VoteContext(n, m, rest),
           m.vtype = "Notarize", OnVoteQCPropose(n, m, rest)
    PROVE  CertHandler'
<1> DEFINE v == m.view + 1
           s == AfterQC(n, m)
           parent == ParentFor(s, m.hash)
           q(b) == FinalizeJustify(n, m.view, m.hash)
                   \o <<create_vote(n, v, b, "Notarize"),
                        [type |-> "proposal", hash |-> b],
                        create_vote(n, m.view, m.hash, "Finalize")>>
                   \o rest
<1>1. Context /\ HandlerTypeOK /\ rest \in Seq(GoodItem(n)')
  BY RestGood DEF VoteContext, Context, HandlerInv
<1>2. GoodQC(cast', m.view, m.hash)
  BY QCFormed DEF OnVoteQCPropose
<1>3. m.view \in View /\ m.view \in Height /\ m.hash \in Block \cup {Zero}
  BY BoundsAssumption DEF Vote, View, Height
<1>4. v =< MaxView
  BY DEF OnVoteQCPropose, CanPropose
<1>5. v \in View /\ v > 1 /\ v - 1 = m.view
  BY <1>3, <1>4, BoundsAssumption DEF View
<1>6. PICK b \in Block : CreateProposal(n, b, v, parent, m.hash)
                         /\ queue' = [queue EXCEPT ![n] = q(b)]
  BY DEF OnVoteQCPropose
<1>7. b[1] = v
  BY <1>6 DEF CreateProposal
<1>8. s \in ConsensusState /\ GoodState(cast', s)
  BY <1>1, <1>2, AfterQCType, AfterQCGood
<1>9. PersistState(n, [s EXCEPT !.last_voted_view = v])
  BY DEF OnVoteQCPropose
<1> HIDE DEF v, s
<1>10. parent # Genesis => Cert(cast', parent[1], parent)
  BY <1>2, <1>3, <1>8, ParentGood
<1> HIDE DEF parent
<1>11. HeadersGood'
  BY <1>1, <1>2, <1>5, <1>6, <1>10, CreateProposalGood
<1>12. FinalizeJustify(n, m.view, m.hash) \in Seq(GoodItem(n)')
  BY <1>1, <1>2, <1>3, FinalizeJustifyGood
<1>13. create_vote(n, v, b, "Notarize") \in GoodItem(n)'
  BY <1>1, <1>5, <1>7, OwnVoteGood
<1>14. create_vote(n, m.view, m.hash, "Finalize") \in GoodItem(n)'
  BY <1>1, <1>2, <1>3, OwnVoteGood DEF GoodQC
<1>15. [type |-> "proposal", hash |-> b] \in GoodItem(n)'
  <2>1. b \in CreatedBlock'
    <3>1. parent \in blocks[n]
      BY DEF OnVoteQCPropose, CanPropose, parent, s
    <3> QED
      BY <1>1, <1>3, <1>6, <3>1, CreateProposalInv DEF Context
  <2>2. [type |-> "proposal", hash |-> b] \in ValidItem'
    BY <2>1 DEF ValidItem
  <2> QED
    BY <2>2, OtherItemGood
<1>16. q(b) \in Seq(GoodItem(n)')
  BY <1>1, <1>12, <1>13, <1>14, <1>15
<1> HIDE DEF q
<1>17. QueueGood'
  BY <1>1, <1>6, <1>16, QueueGoodSet
<1>18. VotesBacked'
  BY RecordVoteGood DEF OnVoteQCPropose
<1>19. GoodState(cast', [s EXCEPT !.last_voted_view = v])
  BY <1>8, GoodLastVotedUpdate
<1>20. StatesGood'
  BY <1>1, <1>9, <1>19, PersistGood
<1>21. QCsGood'
  BY <1>1, <1>2, SaveQCGood DEF OnVoteQCPropose
<1>22. FinalizeBacked' /\ CommitsGood'
  BY <1>1, Untouched DEF OnVoteQCPropose
<1> QED
  BY <1>11, <1>17, <1>18, <1>20, <1>21, <1>22 DEF CertHandler

\* The quorum check of on_finalize_vote: the votes counted were cast, and the
\* fields with the new height are justified by them.
LEMMA FinalizedGood ==
    ASSUME NEW n \in Node, NEW m \in Vote, NEW rest, VoteContext(n, m, rest),
           m.vtype = "Finalize"
    PROVE  /\ FinalizeTally(n, m) \subseteq Finalizers(cast', m.view)
           /\ Cardinality(FinalizeTally(n, m)) >= Threshold =>
                 GoodState(cast', [st[n] EXCEPT !.finalized_height = m.view])
<1>1. Context /\ HandlerTypeOK
  BY DEF VoteContext, Context, HandlerInv
<1>2. m.view \in View /\ m.author \in Node /\ m.hash \in Block \cup {Zero}
  BY DEF Vote
<1>3. Cert(cast', m.view, m.hash)
  BY DEF VoteContext, GoodVote
<1>4. FinalizeTally(n, m) \subseteq Finalizers(cast', m.view)
  <2>1. create_vote(m.author, m.view, m.hash, "Finalize") \in cast'
    BY NotarizeIdentity DEF VoteContext
  <2>2. m.author \in Finalizers(cast', m.view)
    BY <1>2, <2>1 DEF Finalizers
  <2>3. finalize_votes[n][m.view] \subseteq Finalizers(cast', m.view)
    BY <1>1, <1>2, CarryOver
  <2> QED
    BY <2>2, <2>3 DEF FinalizeTally
<1>5. ASSUME Cardinality(FinalizeTally(n, m)) >= Threshold
      PROVE  GoodState(cast', [st[n] EXCEPT !.finalized_height = m.view])
  <2> DEFINE s == [st[n] EXCEPT !.finalized_height = m.view]
  <2>1. Finalizers(cast', m.view) \subseteq Node
    BY DEF Finalizers
  <2>2. Supermajority(Finalizers(cast', m.view))
    BY <1>4, <1>5, <2>1, ThresholdSuffices, SupermajorityMono
  <2>3. st[n] \in ConsensusState /\ GoodState(cast', st[n])
    BY <1>1, CarryOver DEF HandlerTypeOK
  <2>4. /\ s.finalized_height = m.view /\ s.view = st[n].view
        /\ s.preferred_view = st[n].preferred_view
        /\ s.preferred_block = st[n].preferred_block
    BY <2>3 DEF ConsensusState
  <2> HIDE DEF s
  <2>5. GoodState(cast', s)
    BY <1>2, <1>3, <2>2, <2>3, <2>4 DEF GoodState, GoodPreferred, GoodView, GoodFinalized
  <2> QED
    BY <2>5 DEF s
<1> QED
  BY <1>4, <1>5

\* A Finalize vote, and with the last of them the commit of its block.
LEMMA OnFinalizeVoteGood ==
    ASSUME NEW n \in Node, NEW m \in Vote, NEW rest, VoteContext(n, m, rest),
           m.vtype = "Finalize", OnFinalizeVote(n, m, rest)
    PROVE  CertHandler'
<1>1. Context /\ HandlerTypeOK /\ rest \in Seq(GoodItem(n)')
  BY RestGood DEF VoteContext, Context, HandlerInv
<1>2. m.view \in View /\ m.author \in Node /\ m.hash \in Block \cup {Zero}
  BY DEF Vote
<1>3. Cert(cast', m.view, m.hash) /\ (m.hash \in Block => m.hash[1] = m.view)
  BY DEF VoteContext, GoodVote
<1>4. FinalizeTally(n, m) \subseteq Finalizers(cast', m.view)
  BY FinalizedGood
<1>5. FinalizeBacked'
  <2>1. \A p \in Node, v \in View :
           finalize_votes'[p][v] = IF p = n /\ v = m.view THEN FinalizeTally(n, m)
                                   ELSE finalize_votes[p][v]
    BY <1>1, <1>2 DEF OnFinalizeVote, HandlerTypeOK
  <2> QED
    BY <1>1, <1>4, <2>1, CarryOver DEF FinalizeBacked
<1>6. StatesGood'
  <2>1. CASE /\ Cardinality(FinalizeTally(n, m)) >= Threshold
             /\ PersistState(n, [st[n] EXCEPT !.finalized_height = m.view])
    BY <1>1, <2>1, FinalizedGood, PersistGood
  <2>2. CASE UNCHANGED <<st, saved>>
    BY <1>1, <2>2, Untouched
  <2> QED
    BY <2>1, <2>2, Zenon DEF OnFinalizeVote
<1>7. CommitsGood'
  <2>1. \/ m.hash \in blocks[n] /\ committed' = [committed EXCEPT ![n] = @ \cup {m.hash}]
        \/ committed' = committed
    BY Zenon DEF OnFinalizeVote, CommitFinalized
  <2>2. m.hash \in blocks[n] => m.hash \in Block
    BY <1>1, <1>2, HashAssumption DEF HandlerTypeOK
  <2>3. \A p \in Node : \A b \in committed[p] : Cert(cast', b[1], b)
    BY <1>1, CarryOver
  <2>4. \A p \in Node : \A b \in committed'[p] :
           b \in committed[p] \/ (b = m.hash /\ m.hash \in Block)
    <3>1. committed \in [Node -> SUBSET Block]
      BY <1>1 DEF HandlerTypeOK
    <3> QED
      BY <2>1, <2>2, <3>1
  <2> QED
    BY <1>3, <2>3, <2>4 DEF CommitsGood
<1>8. QueueGood'
  BY <1>1, QueueGoodSet DEF OnFinalizeVote
<1>9. VotesBacked' /\ HeadersGood' /\ QCsGood'
  BY <1>1, Untouched DEF OnFinalizeVote
<1> QED
  BY <1>5, <1>6, <1>7, <1>8, <1>9 DEF CertHandler

\* on_vote, whatever the vote does.
LEMMA OnVoteGood ==
    ASSUME NEW n \in Node, NEW m \in Vote, NEW rest, VoteContext(n, m, rest),
           OnVote(n, m, rest)
    PROVE  CertHandler'
  BY OnFinalizeVoteGood, OnEquivocationGood, OnVoteCountedGood, OnVoteQCGood,
     OnVoteQCProposeGood DEF OnVote

-----------------------------------------------------------------------------
(***************************************************************************)
(* Proposals and synchronization keep the invariant.                       *)
(***************************************************************************)
\* A handler that changes only the stack, orphans and evidence of a node.
LEMMA StackGood ==
    ASSUME Context, NEW n \in Node, NEW q \in Seq(GoodItem(n)'),
           queue' = [queue EXCEPT ![n] = q],
           UNCHANGED <<st, saved, votes_received, finalize_votes, qcs, committed, header>>
    PROVE  CertHandler'
<1>1. QueueGood'
  BY QueueGoodSet
<1>2. /\ VotesBacked' /\ FinalizeBacked' /\ HeadersGood'
      /\ StatesGood' /\ QCsGood' /\ CommitsGood'
  BY Untouched
<1> QED
  BY <1>1, <1>2 DEF CertHandler

\* The request for a missing parent.
LEMMA BufferOrphanGood ==
    ASSUME Context, NEW n \in Node, NEW b \in CreatedBlock, NEW rest \in Seq(GoodItem(n)),
           BufferOrphan(n, b, rest),
           UNCHANGED <<votes_received, finalize_votes, qcs, committed, header>>
    PROVE  CertHandler'
<1> DEFINE e == [type |-> "request", hash |-> header[b].parent]
           q == <<e>> \o rest
<1>1. header[b].parent \in CreatedBlock
  BY DEF BufferOrphan, Orphaned, Context, HandlerInv, LinksCreated, AncestorsStored
<1>2. CreatedBlock' = CreatedBlock
  BY SameHeaders
<1>3. e \in ValidItem' /\ e.type # "vote"
  BY <1>1, <1>2 DEF ValidItem
<1>4. e \in GoodItem(n)'
  BY <1>3, OtherItemGood
<1>5. q \in Seq(GoodItem(n)') /\ queue' = [queue EXCEPT ![n] = q]
  BY <1>4, RestGood DEF BufferOrphan
<1> HIDE DEF q
<1> QED
  BY <1>5, StackGood DEF BufferOrphan

\* The header of a stored block justifies the fields taken from it.
LEMMA AfterStoreGood ==
    ASSUME Context, NEW n \in Node, NEW b \in CreatedBlock
    PROVE  /\ AfterStore(n, b) \in ConsensusState /\ GoodState(cast', AfterStore(n, b))
           /\ GoodState(cast', [AfterStore(n, b) EXCEPT !.view = b[1]])
<1> DEFINE v == b[1]
           h == header[b].justify
           s == AfterStore(n, b)
<1>1. HandlerTypeOK
  BY DEF Context, HandlerInv
<1>2. v \in View /\ v - 1 \in Height /\ h \in Block \cup {Zero} /\ s \in ConsensusState
  BY <1>1, HeaderType, AfterStoreType
<1>3. v = 1 => h = Zero
  BY CarryOver DEF GoodHeader
<1>4. v > 1 => GoodQC(cast', v - 1, h)
  BY CarryOver DEF GoodHeader
<1>5. st[n] \in ConsensusState /\ GoodState(cast', st[n])
  BY <1>1, CarryOver DEF HandlerTypeOK
<1>6. v \in Nat /\ (v = 1 \/ v > 1)
  BY <1>2, BoundsAssumption DEF View
<1>7. h # Zero => GoodQC(cast', v - 1, h)
  BY <1>3, <1>4, <1>6
<1> HIDE DEF v, h
<1>8. GoodState(cast', UpdatePreferredChain(st[n], v - 1, h))
  BY <1>2, <1>5, <1>7, GoodPreferredUpdate
<1>9. GoodState(cast', s)
  BY <1>5, <1>8 DEF AfterStore, v, h
<1> HIDE DEF s
<1>10. v > 1 => \E g \in Block \cup {Zero} : Cert(cast', v - 1, g)
  BY <1>2, <1>4 DEF GoodQC
<1>11. GoodState(cast', [s EXCEPT !.view = v])
  BY <1>2, <1>6, <1>9, <1>10, GoodViewUpdate
<1> QED
  BY <1>2, <1>9, <1>11 DEF s, v

\* Storing a block, with good fields and a good stack.
LEMMA StoredGood ==
    ASSUME Context, NEW n \in Node, NEW s, PersistState(n, s), GoodState(cast', s),
           NEW q \in Seq(GoodItem(n)'), queue' = [queue EXCEPT ![n] = q],
           UNCHANGED <<votes_received, finalize_votes, qcs, committed, header>>
    PROVE  CertHandler'
<1>1. QueueGood'
  BY QueueGoodSet
<1>2. StatesGood'
  BY PersistGood
<1>3. VotesBacked' /\ FinalizeBacked' /\ HeadersGood' /\ QCsGood' /\ CommitsGood'
  BY Untouched
<1> QED
  BY <1>1, <1>2, <1>3 DEF CertHandler

\* on_proposal: the votes it returns are for the block and its certified view.
LEMMA OnProposalGood ==
    ASSUME Context, NEW n \in Node, NEW b \in CreatedBlock, NEW rest \in Seq(GoodItem(n)),
           OnProposal(n, b, rest)
    PROVE  CertHandler'
<1> DEFINE s == [AfterStore(n, b) EXCEPT !.view = b[1]]
<1>1. HandlerTypeOK
  BY DEF Context, HandlerInv
<1>2. UNCHANGED <<votes_received, finalize_votes, qcs, committed, header>>
  BY DEF OnProposal
<1>3. rest \in Seq(GoodItem(n)')
  BY RestGood
<1>4. CASE BufferOrphan(n, b, rest)
  BY <1>2, <1>4, BufferOrphanGood
<1>5. CASE queue' = [queue EXCEPT ![n] = rest] /\ UNCHANGED <<st, saved>>
  BY <1>2, <1>3, <1>5, StackGood
<1>6. CASE OnProposalStored(n, b, rest)
  <2>1. b \in Block /\ b[1] \in View /\ b[1] - 1 \in Height
        /\ header[b].justify \in Block \cup {Zero}
    BY <1>1, HeaderType
  <2>2. AfterStore(n, b) \in ConsensusState /\ GoodState(cast', s)
    BY AfterStoreGood
  <2>3. s \in ConsensusState
    BY <2>1, <2>2 DEF ConsensusState
  <2>4. \/ PersistState(n, s) /\ queue' = [queue EXCEPT ![n] = rest]
        \/ /\ PersistState(n, [s EXCEPT !.last_voted_view = b[1]])
           /\ queue' = [queue EXCEPT ![n] = ProposalVotes(n, b) \o rest]
    BY <1>6, Zenon DEF OnProposalStored
  <2> HIDE DEF s
  <2>5. GoodState(cast', [s EXCEPT !.last_voted_view = b[1]])
    BY <2>2, <2>3, GoodLastVotedUpdate
  <2>6. ProposalVotes(n, b) \in Seq(GoodItem(n)')
    <3> DEFINE v == b[1] - 1
    <3>1. v > 0 => GoodQC(cast', v, header[b].justify)
      <4>1. b[1] > 1 => GoodQC(cast', b[1] - 1, header[b].justify)
        BY CarryOver DEF GoodHeader
      <4> QED
        BY <2>1, <4>1, BoundsAssumption DEF View
    <3>2. v \in Height
      BY <2>1
    <3> HIDE DEF v
    <3>3. FinalizeJustify(n, v, header[b].justify) \in Seq(GoodItem(n)')
      BY <2>1, <3>1, <3>2, FinalizeJustifyGood
    <3>4. create_vote(n, b[1], b, "Notarize") \in GoodItem(n)'
      BY <2>1, OwnVoteGood
    <3> QED
      BY <3>3, <3>4 DEF ProposalVotes, v
  <2>7. ProposalVotes(n, b) \o rest \in Seq(GoodItem(n)')
    BY <1>3, <2>6
  <2>8. CASE PersistState(n, s) /\ queue' = [queue EXCEPT ![n] = rest]
    BY <1>2, <1>3, <2>2, <2>8, StoredGood
  <2>9. CASE /\ PersistState(n, [s EXCEPT !.last_voted_view = b[1]])
             /\ queue' = [queue EXCEPT ![n] = ProposalVotes(n, b) \o rest]
    BY <1>2, <2>5, <2>7, <2>9, StoredGood
  <2> QED
    BY <2>4, <2>8, <2>9
<1> QED
  BY <1>4, <1>5, <1>6 DEF OnProposal, RejectBlock

\* on_block_response for a block that is stored, or can be.
LEMMA OnResponseStoredGood ==
    ASSUME Context, NEW n \in Node, NEW b \in CreatedBlock, NEW rest \in Seq(GoodItem(n)),
           NEW pending, OnResponseStored(n, b, pending, rest),
           UNCHANGED <<votes_received, finalize_votes, qcs, committed, header>>
    PROVE  CertHandler'
<1> DEFINE a == AfterStore(n, b)
           s == IF b[1] >= a.view THEN [a EXCEPT !.view = b[1]] ELSE a
           e == [type |-> "drain", hash |-> b]
           q == IF Waiting(n, b, pending) = {} THEN rest ELSE <<e>> \o rest
<1>1. GoodState(cast', s)
  BY AfterStoreGood
<1>2. CreatedBlock' = CreatedBlock
  BY SameHeaders
<1>3. e \in ValidItem' /\ e.type # "vote"
  BY <1>2 DEF ValidItem
<1>4. e \in GoodItem(n)'
  BY <1>3, OtherItemGood
<1>5. q \in Seq(GoodItem(n)')
  BY <1>4, RestGood
<1>6. PersistState(n, s) /\ queue' = [queue EXCEPT ![n] = q]
  BY DEF OnResponseStored
<1> HIDE DEF s, q
<1> QED
  BY <1>1, <1>5, <1>6, StoredGood

\* on_block_response for a block from a peer.
LEMMA OnBlockResponseGood ==
    ASSUME Context, NEW n \in Node, NEW b \in CreatedBlock, NEW rest \in Seq(GoodItem(n)),
           OnBlockResponse(n, b, rest)
    PROVE  CertHandler'
<1>1. UNCHANGED <<votes_received, finalize_votes, qcs, committed, header>>
  BY DEF OnBlockResponse
<1>2. CASE BufferOrphan(n, b, rest)
  BY <1>1, <1>2, BufferOrphanGood
<1>3. CASE RejectBlock(n, b, rest)
  BY <1>1, <1>3, RestGood, StackGood DEF RejectBlock
<1>4. CASE OnResponseStored(n, b, orphans[n], rest)
  BY <1>1, <1>4, OnResponseStoredGood
<1> QED
  BY <1>2, <1>3, <1>4 DEF OnBlockResponse

\* on_block_response for an orphan whose parent has arrived.
LEMMA DrainOrphanGood ==
    ASSUME Context, NEW n \in Node, NEW b \in CreatedBlock, NEW rest \in Seq(GoodItem(n)),
           DrainOrphan(n, b, rest)
    PROVE  CertHandler'
<1> DEFINE e == [type |-> "drain", hash |-> b]
           left(o) == IF Waiting(n, b, orphans[n] \ {o}) = {} THEN rest ELSE <<e>> \o rest
<1>1. UNCHANGED <<votes_received, finalize_votes, qcs, committed, header>>
  BY DEF DrainOrphan
<1>2. PICK o \in Waiting(n, b, orphans[n]) :
         \/ OnResponseStored(n, o, orphans[n] \ {o}, left(o))
         \/ queue' = [queue EXCEPT ![n] = left(o)] /\ UNCHANGED <<st, saved>>
  BY Zenon DEF DrainOrphan
<1>3. o \in CreatedBlock
  BY <1>2 DEF Waiting, Context, HandlerInv, OrphansCreated
<1>4. e \in ValidItem /\ e.type # "vote"
  BY DEF ValidItem
<1>5. e \in GoodItem(n)
  BY <1>4 DEF GoodItem
<1>6. left(o) \in Seq(GoodItem(n))
  BY <1>5
<1> HIDE DEF left
<1>7. CASE OnResponseStored(n, o, orphans[n] \ {o}, left(o))
  BY <1>1, <1>3, <1>6, <1>7, OnResponseStoredGood
<1>8. CASE queue' = [queue EXCEPT ![n] = left(o)] /\ UNCHANGED <<st, saved>>
  BY <1>1, <1>6, <1>8, RestGood, StackGood
<1> QED
  BY <1>2, <1>7, <1>8

\* on_block_request answers with a block, and evidence is only kept.
LEMMA OnBlockRequestGood ==
    ASSUME Context, NEW n \in Node, NEW h \in CreatedBlock, NEW rest \in Seq(GoodItem(n)),
           OnBlockRequest(n, h, rest)
    PROVE  CertHandler'
<1> DEFINE e == [type |-> "response", hash |-> h]
           q == IF h \in blocks[n] THEN <<e>> \o rest ELSE rest
<1>1. CreatedBlock' = CreatedBlock
  BY SameHeaders DEF OnBlockRequest
<1>2. e \in ValidItem' /\ e.type # "vote"
  BY <1>1 DEF ValidItem
<1>3. e \in GoodItem(n)'
  BY <1>2, OtherItemGood
<1>4. q \in Seq(GoodItem(n)') /\ queue' = [queue EXCEPT ![n] = q]
  BY <1>3, RestGood DEF OnBlockRequest
<1> HIDE DEF q
<1> QED
  BY <1>4, StackGood DEF OnBlockRequest, durable

\* Evidence from the network keeps the invariant.
LEMMA OnEvidenceGood ==
    ASSUME Context, NEW n \in Node, NEW e, NEW rest \in Seq(GoodItem(n)),
           OnEvidence(n, e, rest)
    PROVE  CertHandler'
  BY RestGood, StackGood DEF OnEvidence, durable

-----------------------------------------------------------------------------
(***************************************************************************)
(* The event loop keeps the invariant.                                     *)
(***************************************************************************)
\* What a node has on its stack is good.
LEMMA GoodStack ==
    ASSUME CertHandler, NEW n \in Node, queue[n] # <<>>
    PROVE  /\ Head(queue[n]) \in GoodItem(n) /\ Tail(queue[n]) \in Seq(GoodItem(n))
           /\ Head(queue[n]) \in ValidItem
           /\ Head(queue[n]).type = "vote" => GoodVote(cast, Head(queue[n]))
<1>1. queue[n] \in Seq(GoodItem(n))
  BY DEF CertHandler, QueueGood
<1>2. Head(queue[n]) \in GoodItem(n) /\ Tail(queue[n]) \in Seq(GoodItem(n))
  BY <1>1
<1> QED
  BY <1>2 DEF GoodItem

\* Good items are valid ones.
LEMMA GoodIsValid ==
    ASSUME NEW n \in Node, NEW q \in Seq(GoodItem(n))
    PROVE  q \in Seq(ValidItem)
<1>1. GoodItem(n) \subseteq ValidItem
  BY DEF GoodItem
<1> QED
  BY <1>1, SeqMono

\* A broadcast vote is a cast vote, and a good one if it was good on the stack.
LEMMA BroadcastGood ==
    ASSUME CertInv, NEW n \in Node, NEW m, Broadcast(n, m),
           m.type = "vote" => GoodVote(cast, m)
    PROVE  /\ cast \subseteq cast' /\ InboxCast' /\ CastGood'
           /\ m.type = "vote" => m \in cast' /\ GoodVote(cast', m)
<1>1. cast \subseteq cast' /\ (m.type = "vote" => m \in cast')
  BY DEF Broadcast
<1>2. \A k : GoodVote(cast, k) => GoodVote(cast', k)
  BY <1>1, GoodMono
<1>3. CastGood'
  BY <1>2 DEF Broadcast, CertInv, CastGood
<1>4. InboxCast'
  BY <1>1 DEF Broadcast, CertInv, InboxCast
<1> QED
  BY <1>1, <1>2, <1>3, <1>4

\* A step that casts no vote and delivers none that was not cast.
LEMMA NothingCast ==
    ASSUME CertInv, cast' = cast, \A n \in Node : inbox'[n] \subseteq inbox[n]
    PROVE  InboxCast' /\ CastGood'
  BY DEF CertInv, InboxCast, CastGood

\* A message from the network.
LEMMA ReceiveGood ==
    ASSUME StructInv, CertInv, NEW n \in Node, NEW m \in inbox[n], Receive(n, m)
    PROVE  CertInv'
<1>1. /\ HandlerInv /\ m \in ValidItem /\ CertHandler
      /\ m.type = "vote" => m \in cast /\ GoodVote(cast, m)
  BY DEF StructInv, InboxCreated, CertInv, InboxCast, CastGood
<1>2. <<>> \in Seq(ValidItem) /\ <<>> \in Seq(GoodItem(n))
  OBVIOUS
<1>3. cast' = cast
  BY DEF Receive
<1>4. HandlerInv' /\ HeadersKept => Context
  BY <1>1, <1>3 DEF Context
<1>5. CertHandler'
  <2>1. CASE m.type = "vote" /\ OnVote(n, m, <<>>)
    <3>1. m \in Vote /\ Context
      BY <1>1, <1>2, <1>4, <2>1, ItemKinds, OnVoteInv
    <3>2. VoteContext(n, m, <<>>)
      BY <1>1, <1>2, <1>3, <2>1, <3>1 DEF VoteContext
    <3> QED
      BY <2>1, <3>1, <3>2, OnVoteGood
  <2>2. CASE m.type = "proposal" /\ OnProposal(n, m.hash, <<>>)
    <3>1. m.hash \in CreatedBlock /\ Context
      BY <1>1, <1>2, <1>4, <2>2, ItemKinds, OnProposalInv
    <3> QED
      BY <1>2, <2>2, <3>1, OnProposalGood
  <2>3. CASE m.type = "response" /\ OnBlockResponse(n, m.hash, <<>>)
    <3>1. m.hash \in CreatedBlock /\ Context
      BY <1>1, <1>2, <1>4, <2>3, ItemKinds, OnBlockResponseInv
    <3> QED
      BY <1>2, <2>3, <3>1, OnBlockResponseGood
  <2>4. CASE m.type = "request" /\ OnBlockRequest(n, m.hash, <<>>)
    <3>1. m.hash \in CreatedBlock /\ Context
      BY <1>1, <1>2, <1>4, <2>4, ItemKinds, OnBlockRequestInv
    <3> QED
      BY <1>2, <2>4, <3>1, OnBlockRequestGood
  <2>5. CASE m.type = "evidence" /\ OnEvidence(n, m, <<>>)
    <3>1. Context
      BY <1>1, <1>2, <1>4, <2>5, ItemKinds, OnEvidenceInv
    <3> QED
      BY <1>2, <2>5, <3>1, OnEvidenceGood
  <2> QED
    BY <2>1, <2>2, <2>3, <2>4, <2>5 DEF Receive
<1>6. \A p \in Node : inbox'[p] \subseteq inbox[p]
  BY DEF Receive, StructInv, LoopTypeOK
<1>7. InboxCast' /\ CastGood'
  BY <1>3, <1>6, NothingCast
<1> QED
  BY <1>5, <1>7 DEF CertInv

\* A vote of the node itself, broadcast and looped back.
LEMMA PopVoteGood ==
    ASSUME StructInv, CertInv, NEW n \in Node, PopVote(n)
    PROVE  CertInv'
<1> DEFINE m == Head(queue[n])
           rest == Tail(queue[n])
<1>1. HandlerInv /\ CertHandler /\ queue[n] # <<>> /\ m.type = "vote"
  BY DEF StructInv, CertInv, PopVote
<1>2. Broadcast(n, m) /\ OnVote(n, m, rest)
  BY DEF PopVote
<1>3. m \in ValidItem /\ GoodVote(cast, m) /\ rest \in Seq(GoodItem(n))
  BY <1>1, GoodStack
<1> HIDE DEF m, rest
<1>4. m \in Vote /\ rest \in Seq(ValidItem)
  BY <1>1, <1>3, ItemKinds, GoodIsValid
<1>5. HandlerInv' /\ HeadersKept
  BY <1>1, <1>2, <1>4, OnVoteInv
<1>6. cast \subseteq cast' /\ InboxCast' /\ CastGood' /\ m \in cast' /\ GoodVote(cast', m)
  BY <1>1, <1>2, <1>3, BroadcastGood
<1>7. VoteContext(n, m, rest)
  BY <1>1, <1>3, <1>5, <1>6 DEF VoteContext, Context
<1>8. CertHandler'
  BY <1>2, <1>4, <1>7, OnVoteGood
<1> QED
  BY <1>6, <1>8 DEF CertInv

\* A message broadcast without further effect.
LEMMA PublishGood ==
    ASSUME StructInv, CertInv, NEW n \in Node, queue[n] # <<>>,
           Head(queue[n]).type # "drain",
           Broadcast(n, Head(queue[n])), queue' = [queue EXCEPT ![n] = Tail(@)],
           UNCHANGED <<st, votes_received, finalize_votes, orphans, evidence_pool,
                       durable, header, crashes>>
    PROVE  CertInv'
<1> DEFINE m == Head(queue[n])
           rest == Tail(queue[n])
<1>1. HandlerInv' /\ HeadersKept
  BY PublishInv, SameHeaders
<1>2. CertHandler /\ Broadcast(n, m) /\ queue' = [queue EXCEPT ![n] = rest]
  BY DEF CertInv
<1>3. (m.type = "vote" => GoodVote(cast, m)) /\ rest \in Seq(GoodItem(n))
  BY <1>2, GoodStack
<1> HIDE DEF m, rest
<1>4. cast \subseteq cast' /\ InboxCast' /\ CastGood'
  BY <1>2, <1>3, BroadcastGood
<1>5. Context
  BY <1>1, <1>4 DEF Context, StructInv, CertInv
<1>6. CertHandler'
  BY <1>2, <1>3, <1>5, RestGood, StackGood DEF durable
<1> QED
  BY <1>4, <1>6 DEF CertInv

\* Broadcasting a message other than a vote keeps the invariant.
LEMMA PopMessageGood ==
    ASSUME StructInv, CertInv, NEW n \in Node, PopMessage(n)
    PROVE  CertInv'
  BY PublishGood DEF PopMessage

\* Broadcasting an action of try_propose keeps the invariant.
LEMMA PopBootingGood ==
    ASSUME StructInv, CertInv, NEW n \in Node, PopBooting(n)
    PROVE  CertInv'
  BY PublishGood DEF PopBooting

\* An orphan is processed.
LEMMA PopDrainGood ==
    ASSUME StructInv, CertInv, NEW n \in Node, PopDrain(n)
    PROVE  CertInv'
<1>1. HandlerInv /\ CertHandler /\ queue[n] # <<>> /\ Head(queue[n]).type = "drain"
  BY DEF StructInv, CertInv, PopDrain
<1>2. /\ Head(queue[n]).hash \in CreatedBlock
      /\ Tail(queue[n]) \in Seq(GoodItem(n)) /\ Tail(queue[n]) \in Seq(ValidItem)
  BY <1>1, TopOfStack, ItemKinds, GoodStack
<1>3. cast' = cast /\ inbox' = inbox
  BY DEF PopDrain, world
<1>4. HandlerInv' /\ HeadersKept
  BY <1>1, <1>2, DrainOrphanInv DEF PopDrain
<1>5. Context
  BY <1>1, <1>3, <1>4 DEF Context
<1>6. CertHandler'
  BY <1>2, <1>5, DrainOrphanGood DEF PopDrain
<1>7. InboxCast' /\ CastGood'
  BY <1>3, NothingCast
<1> QED
  BY <1>6, <1>7 DEF CertInv

\* The first proposal of a node that starts, or starts again.
LEMMA PeerConnectedProposeGood ==
    ASSUME StructInv, CertInv, NEW n \in Node, PeerConnectedPropose(n)
    PROVE  CertInv'
<1> DEFINE s == st[n]
           v == s.view
           h == qcs[n][v - 1]
           parent == ParentFor(s, h)
           q(b) == FinalizeJustify(n, v - 1, h)
                   \o <<create_vote(n, v, b, "Notarize"), [type |-> "proposal", hash |-> b]>>
<1>1. HandlerInv /\ HandlerTypeOK /\ CertHandler
  BY DEF StructInv, HandlerInv, CertInv
<1>2. h # None /\ v =< MaxView /\ parent \in blocks[n]
  BY DEF PeerConnectedPropose, TryPropose, CanPropose
<1>3. s \in ConsensusState
  BY <1>1 DEF HandlerTypeOK
<1>4. v \in View /\ v - 1 \in Height
  <2>1. v \in View \cup {MaxView + 1}
    BY <1>3 DEF ConsensusState
  <2> QED
    BY <1>2, <2>1, BoundsAssumption DEF View, Height
<1>5. h \in Block \cup {Zero}
  BY <1>1, <1>2, <1>4 DEF HandlerTypeOK
<1>6. PICK b \in Block : CreateProposal(n, b, v, parent, h)
                         /\ queue' = [queue EXCEPT ![n] = q(b)]
  BY DEF PeerConnectedPropose, TryPropose
<1>7. HandlerInv'
  BY PeerConnectedProposeInv DEF StructInv
<1>8. HeadersKept /\ b \in CreatedBlock' /\ b[1] = v
  BY <1>1, <1>2, <1>5, <1>6, CreateProposalInv DEF CreateProposal
<1>9. cast' = cast /\ inbox' = inbox
  BY DEF PeerConnectedPropose
<1>10. Context
  BY <1>1, <1>7, <1>8, <1>9 DEF Context
<1>11. /\ v = 1 => h = Zero
       /\ v > 1 => GoodQC(cast', v - 1, h)
  <2>1. v = 1 => h = qcs[n][0]
    OBVIOUS
  <2>2. v > 1 => v - 1 \in View
    BY <1>4, BoundsAssumption DEF View
  <2>3. v > 1 => GoodQC(cast', v - 1, h)
    BY <1>2, <1>10, <2>2, CarryOver
  <2> QED
    BY <1>1, <2>1, <2>3 DEF CertHandler, QCsGood
<1>12. GoodState(cast', s)
  BY <1>10, CarryOver
<1>13. v = 1 \/ v > 1
  BY <1>4, BoundsAssumption DEF View
<1>14. h \in Block => GoodQC(cast', v - 1, h)
  BY <1>11, <1>13, HashAssumption DEF Hash
<1>15. v - 1 > 0 => GoodQC(cast', v - 1, h)
  BY <1>4, <1>11, BoundsAssumption DEF View
<1> HIDE DEF s, v, h
<1>16. parent # Genesis => Cert(cast', parent[1], parent)
  BY <1>3, <1>5, <1>12, <1>14, ParentGood
<1> HIDE DEF parent
<1>17. HeadersGood'
  BY <1>4, <1>6, <1>10, <1>11, <1>16, CreateProposalGood
<1>18. FinalizeJustify(n, v - 1, h) \in Seq(GoodItem(n)')
  BY <1>4, <1>5, <1>10, <1>15, FinalizeJustifyGood
<1>19. create_vote(n, v, b, "Notarize") \in GoodItem(n)'
  BY <1>4, <1>8, <1>10, OwnVoteGood
<1>20. [type |-> "proposal", hash |-> b] \in GoodItem(n)'
  <2>1. [type |-> "proposal", hash |-> b] \in ValidItem'
    BY <1>8 DEF ValidItem
  <2> QED
    BY <2>1, OtherItemGood
<1>21. q(b) \in Seq(GoodItem(n)')
  BY <1>18, <1>19, <1>20
<1> HIDE DEF q
<1>22. QueueGood'
  BY <1>6, <1>10, <1>21, QueueGoodSet
<1>23. VotesBacked' /\ FinalizeBacked' /\ StatesGood' /\ QCsGood' /\ CommitsGood'
  BY <1>10, Untouched DEF PeerConnectedPropose
<1>24. InboxCast' /\ CastGood'
  BY <1>9, NothingCast
<1> QED
  BY <1>17, <1>22, <1>23, <1>24 DEF CertInv, CertHandler

\* A start without a proposal.
LEMMA PeerConnectedGood ==
    ASSUME StructInv, CertInv, NEW n \in Node, PeerConnected(n)
    PROVE  CertInv'
<1>1. UNCHANGED <<st, votes_received, finalize_votes, orphans, evidence_pool, queue,
                  durable, world>>
  BY DEF PeerConnected
<1>2. HandlerInv' /\ HeadersKept
  BY <1>1, PeerConnectedInv, SameHeaders DEF StructInv, world
<1>3. Context /\ cast' = cast /\ inbox' = inbox
  BY <1>1, <1>2 DEF Context, StructInv, CertInv, world
<1>4. queue[n] \in Seq(GoodItem(n)) /\ queue' = [queue EXCEPT ![n] = queue[n]]
  BY <1>1 DEF CertInv, CertHandler, QueueGood, StructInv, HandlerInv, HandlerTypeOK
<1>5. CertHandler'
  BY <1>1, <1>3, <1>4, RestGood, StackGood DEF durable, world
<1>6. InboxCast' /\ CastGood'
  BY <1>3, NothingCast
<1> QED
  BY <1>5, <1>6 DEF CertInv

\* A timeout vote names no block.
LEMMA TimeoutGood ==
    ASSUME StructInv, CertInv, NEW n \in Node, Timeout(n)
    PROVE  CertInv'
<1> DEFINE q == <<create_vote(n, st[n].view, Zero, "Notarize")>>
<1>1. HandlerInv' /\ HeadersKept
  BY TimeoutInv, SameHeaders DEF StructInv, Timeout, world
<1>2. Context /\ cast' = cast /\ inbox' = inbox
  BY <1>1 DEF Context, StructInv, CertInv, Timeout, world
<1>3. st[n].view \in View
  <2>1. st[n].view \in View \cup {MaxView + 1} /\ st[n].view =< MaxView
    BY DEF Timeout, StructInv, HandlerInv, HandlerTypeOK, ConsensusState
  <2> QED
    BY <2>1, BoundsAssumption DEF View
<1>4. create_vote(n, st[n].view, Zero, "Notarize") \in GoodItem(n)'
  BY <1>2, <1>3, HashAssumption, OwnVoteGood DEF Hash
<1>5. q \in Seq(GoodItem(n)') /\ queue' = [queue EXCEPT ![n] = q]
  BY <1>4 DEF Timeout
<1> HIDE DEF q
<1>6. CertHandler'
  BY <1>2, <1>5, StackGood DEF Timeout, durable, world
<1>7. InboxCast' /\ CastGood'
  BY <1>2, NothingCast
<1> QED
  BY <1>6, <1>7 DEF CertInv

\* A reload forgets votes; the fields it falls back on must be justified.
LEMMA ReloadGood ==
    ASSUME Context, NEW n \in Node, NEW s, GoodState(cast', s), Reload(n, s),
           HeadersGood', QCsGood', committed' = committed
    PROVE  CertHandler'
<1>1. HandlerTypeOK
  BY DEF Context, HandlerInv
<1>2. VotesBacked'
  <2>1. \A p \in Node : p # n => votes_received'[p] = votes_received[p]
    BY <1>1 DEF Reload, HandlerTypeOK
  <2>2. \A v \in View, a \in Node : votes_received'[n][v][a] = None
    BY <1>1 DEF Reload, HandlerTypeOK
  <2> QED
    BY <2>1, <2>2, CarryOver DEF VotesBacked
<1>3. FinalizeBacked'
  <2>1. \A p \in Node : p # n => finalize_votes'[p] = finalize_votes[p]
    BY <1>1 DEF Reload, HandlerTypeOK
  <2>2. \A v \in View : finalize_votes'[n][v] = {}
    BY <1>1 DEF Reload, HandlerTypeOK
  <2> QED
    BY <2>1, <2>2, CarryOver DEF FinalizeBacked
<1>4. <<>> \in Seq(GoodItem(n)')
  OBVIOUS
<1>5. QueueGood'
  BY <1>4, QueueGoodSet DEF Reload
<1>6. StatesGood'
  BY PersistGood DEF Reload
<1>7. CommitsGood'
  BY Untouched
<1> QED
  BY <1>2, <1>3, <1>5, <1>6, <1>7 DEF CertHandler

\* A crash between two steps falls back on what was persisted.
LEMMA RestartGood ==
    ASSUME StructInv, CertInv, NEW n \in Node, Restart(n)
    PROVE  CertInv'
<1>1. HandlerInv' /\ HeadersKept
  BY RestartInv, SameHeaders DEF StructInv, Restart
<1>2. Context /\ cast' = cast /\ inbox' = inbox
  BY <1>1 DEF Context, StructInv, CertInv, Restart
<1>3. GoodState(cast', saved[n])
  BY <1>2, CarryOver
<1>4. HeadersGood' /\ QCsGood'
  BY <1>2, Untouched DEF Restart
<1>5. CertHandler'
  BY <1>2, <1>3, <1>4, ReloadGood DEF Restart
<1>6. InboxCast' /\ CastGood'
  BY <1>2, NothingCast
<1> QED
  BY <1>5, <1>6 DEF CertInv

\* A crash in on_vote: whatever survives of its writes is justified by the QC.
LEMMA CrashInVoteGood ==
    ASSUME NEW n \in Node, NEW m \in Vote, NEW rest, VoteContext(n, m, rest),
           CrashInVote(n, m)
    PROVE  CertHandler'
<1> DEFINE s == AfterQC(n, m)
           p == UpdatePreferredChain(st[n], m.view, m.hash)
           w == m.view + 1
           parent == ParentFor(s, m.hash)
<1>1. Context /\ HandlerTypeOK /\ m.vtype = "Notarize"
  BY DEF VoteContext, Context, HandlerInv, CrashInVote
<1>2. GoodQC(cast', m.view, m.hash)
  BY <1>1, QCFormed DEF CrashInVote
<1>3. m.view \in View /\ m.view \in Height /\ m.hash \in Block \cup {Zero}
  BY BoundsAssumption DEF Vote, View, Height
<1>4. s \in ConsensusState /\ GoodState(cast', s)
  BY <1>1, <1>2, AfterQCType, AfterQCGood
<1>5. GoodState(cast', p) /\ GoodState(cast', saved[n])
  BY <1>1, <1>2, <1>3, CarryOver, GoodPreferredUpdate DEF HandlerTypeOK
<1>6. QCsGood' /\ committed' = committed
  BY <1>1, <1>2, SaveQCGood DEF CrashInVote
<1>7. \/ header' = header /\ \E t \in {saved[n], p, s} : Reload(n, t)
      \/ /\ w =< MaxView
         /\ \E b \in Block : CreateProposal(n, b, w, parent, m.hash)
         /\ Reload(n, s)
  BY DEF CrashInVote, CanPropose
<1>8. w - 1 = m.view /\ (w =< MaxView => w \in View /\ w > 1)
  BY <1>3, BoundsAssumption DEF View
<1> HIDE DEF s, p, w
<1>9. parent # Genesis => Cert(cast', parent[1], parent)
  BY <1>2, <1>3, <1>4, ParentGood
<1> HIDE DEF parent
<1>10. CASE header' = header /\ \E t \in {saved[n], p, s} : Reload(n, t)
  <2>1. HeadersGood'
    BY <1>1, <1>10, Untouched
  <2> QED
    BY <1>1, <1>4, <1>5, <1>6, <1>10, <2>1, ReloadGood
<1>11. CASE /\ w =< MaxView
            /\ \E b \in Block : CreateProposal(n, b, w, parent, m.hash)
            /\ Reload(n, s)
  <2>1. w \in View /\ w # 1 /\ w > 1 /\ GoodQC(cast', w - 1, m.hash)
    BY <1>2, <1>8, <1>11
  <2>2. HeadersGood'
    BY <1>1, <1>9, <1>11, <2>1, CreateProposalGood
  <2> QED
    BY <1>1, <1>4, <1>6, <1>11, <2>2, ReloadGood
<1> QED
  BY <1>7, <1>10, <1>11

\* A crash in on_finalize_vote: the new height is justified by the votes.
LEMMA CrashInFinalizeGood ==
    ASSUME NEW n \in Node, NEW m \in Vote, NEW rest, VoteContext(n, m, rest),
           CrashInFinalize(n, m)
    PROVE  CertHandler'
<1>1. Context
  BY DEF VoteContext
<1>2. GoodState(cast', [st[n] EXCEPT !.finalized_height = m.view])
  BY FinalizedGood DEF CrashInFinalize
<1>3. HeadersGood' /\ QCsGood'
  BY <1>1, Untouched DEF CrashInFinalize
<1> QED
  BY <1>1, <1>2, <1>3, ReloadGood DEF CrashInFinalize

\* A crash while a block is stored: its header justifies what was written.
LEMMA CrashInStoreGood ==
    ASSUME Context, NEW n \in Node, NEW b \in CreatedBlock, CrashInStore(n, b)
    PROVE  CertHandler'
<1> DEFINE a == AfterStore(n, b)
<1>1. HandlerTypeOK
  BY DEF Context, HandlerInv
<1>2. /\ a \in ConsensusState /\ GoodState(cast', a)
      /\ GoodState(cast', [a EXCEPT !.view = b[1]])
  BY AfterStoreGood
<1>3. [a EXCEPT !.view = st[n].view] = a
  <2>1. st[n] \in ConsensusState
    BY <1>1 DEF HandlerTypeOK
  <2>2. b[1] - 1 \in Height /\ header[b].justify \in Block \cup {Zero}
    BY <1>1, HeaderType
  <2>3. a.view = st[n].view
    BY <2>1, <2>2, PreferredType DEF AfterStore
  <2> QED
    BY <1>2, <2>3 DEF ConsensusState
<1>4. HeadersGood' /\ QCsGood' /\ committed' = committed
  BY Untouched DEF CrashInStore
<1>5. \/ Reload(n, a)
      \/ \E v \in {st[n].view, b[1]} : Reload(n, [a EXCEPT !.view = v])
  BY Zenon DEF CrashInStore
<1> HIDE DEF a
<1>6. PICK t : GoodState(cast', t) /\ Reload(n, t)
  BY <1>2, <1>3, <1>5
<1> QED
  BY <1>4, <1>6, ReloadGood

\* A crash while a network event is handled.
LEMMA CrashReceivingGood ==
    ASSUME StructInv, CertInv, NEW n \in Node, NEW m \in inbox[n], CrashReceiving(n, m)
    PROVE  CertInv'
<1>1. /\ HandlerInv /\ m \in ValidItem /\ CertHandler
      /\ m.type = "vote" => m \in cast /\ GoodVote(cast, m)
  BY DEF StructInv, InboxCreated, CertInv, InboxCast, CastGood
<1>2. cast' = cast
  BY DEF CrashReceiving
<1>3. Crashed(n) => Context
  BY <1>1, <1>2 DEF Context, Crashed
<1>4. <<>> \in Seq(GoodItem(n))
  OBVIOUS
<1>5. CertHandler'
  <2>1. CASE m.type = "vote" /\ (CrashInVote(n, m) \/ CrashInFinalize(n, m))
    <3>1. m \in Vote /\ Context
      BY <1>1, <1>3, <2>1, ItemKinds, CrashInVoteInv, CrashInFinalizeInv
    <3>2. VoteContext(n, m, <<>>)
      BY <1>1, <1>2, <1>4, <2>1, <3>1 DEF VoteContext
    <3> QED
      BY <2>1, <3>1, <3>2, CrashInVoteGood, CrashInFinalizeGood
  <2>2. CASE m.type \in {"proposal", "response"} /\ CrashInStore(n, m.hash)
    <3>1. m.hash \in CreatedBlock /\ Context
      BY <1>1, <1>3, <2>2, ItemKinds, CrashInStoreInv
    <3> QED
      BY <2>2, <3>1, CrashInStoreGood
  <2> QED
    BY <2>1, <2>2 DEF CrashReceiving
<1>6. \A p \in Node : inbox'[p] \subseteq inbox[p]
  BY DEF CrashReceiving, StructInv, LoopTypeOK
<1>7. InboxCast' /\ CastGood'
  BY <1>2, <1>6, NothingCast
<1> QED
  BY <1>5, <1>7 DEF CertInv

\* A crash while an own vote or an orphan is handled.
LEMMA CrashPoppingGood ==
    ASSUME StructInv, CertInv, NEW n \in Node, CrashPopping(n)
    PROVE  CertInv'
<1> DEFINE m == Head(queue[n])
<1>1. HandlerInv /\ CertHandler /\ queue[n] # <<>>
  BY DEF StructInv, CertInv, CrashPopping
<1>2. m \in ValidItem /\ (m.type = "vote" => GoodVote(cast, m))
  BY <1>1, GoodStack
<1>3. \/ /\ m.type = "vote" /\ Broadcast(n, m)
         /\ CrashInVote(n, m) \/ CrashInFinalize(n, m)
      \/ /\ \E o \in Waiting(n, m.hash, orphans[n]) : CrashInStore(n, o)
         /\ UNCHANGED <<inbox, cast>>
  BY DEF CrashPopping
<1> HIDE DEF m
<1>4. CASE /\ m.type = "vote" /\ Broadcast(n, m)
           /\ CrashInVote(n, m) \/ CrashInFinalize(n, m)
  <2>1. m \in Vote /\ Crashed(n)
    BY <1>1, <1>2, <1>4, ItemKinds, CrashInVoteInv, CrashInFinalizeInv
  <2>2. cast \subseteq cast' /\ InboxCast' /\ CastGood' /\ m \in cast' /\ GoodVote(cast', m)
    BY <1>2, <1>4, BroadcastGood
  <2>3. <<>> \in Seq(GoodItem(n))
    OBVIOUS
  <2>4. VoteContext(n, m, <<>>)
    BY <1>1, <2>1, <2>2, <2>3 DEF VoteContext, Context, Crashed
  <2>5. CertHandler'
    BY <1>4, <2>1, <2>4, CrashInVoteGood, CrashInFinalizeGood
  <2> QED
    BY <2>2, <2>5 DEF CertInv
<1>5. CASE /\ \E o \in Waiting(n, m.hash, orphans[n]) : CrashInStore(n, o)
           /\ UNCHANGED <<inbox, cast>>
  <2>1. PICK o \in CreatedBlock : CrashInStore(n, o)
    BY <1>1, <1>5 DEF Waiting, HandlerInv, OrphansCreated
  <2>2. Context
    BY <1>1, <1>5, <2>1, CrashInStoreInv DEF Context, Crashed
  <2>3. CertHandler'
    BY <2>1, <2>2, CrashInStoreGood
  <2>4. InboxCast' /\ CastGood'
    BY <1>5, NothingCast
  <2> QED
    BY <2>3, <2>4 DEF CertInv
<1> QED
  BY <1>3, <1>4, <1>5

\* Nothing has been voted, certified or committed at the start.
LEMMA InitGood == Init => CertInv
<1> SUFFICES ASSUME Init PROVE CertInv
  OBVIOUS
<1>1. VotesBacked /\ FinalizeBacked /\ QueueGood /\ CommitsGood
  BY DEF Init, VotesBacked, FinalizeBacked, QueueGood, CommitsGood
<1>2. HeadersGood
  BY DEF Init, HeadersGood, CreatedBlock, Created
<1>3. StatesGood
  BY DEF Init, StatesGood, GoodState, GoodPreferred, GoodView, GoodFinalized
<1>4. QCsGood
  <2>1. 0 \in Height /\ View \subseteq Height /\ \A v \in View : v # 0
    BY BoundsAssumption DEF View, Height
  <2> QED
    BY <2>1 DEF Init, QCsGood
<1>5. InboxCast /\ CastGood
  BY DEF Init, InboxCast, CastGood
<1> QED
  BY <1>1, <1>2, <1>3, <1>4, <1>5 DEF CertInv, CertHandler

\* Every step keeps the invariant.
LEMMA NextGood == StructInv /\ CertInv /\ [Next]_vars => CertInv'
<1> SUFFICES ASSUME StructInv, CertInv, [Next]_vars PROVE CertInv'
  OBVIOUS
<1>1. CASE UNCHANGED vars
  <2>1. CreatedBlock' = CreatedBlock /\ ValidItem' = ValidItem
    BY <1>1, SameHeaders DEF vars, world
  <2>2. \A n \in Node : GoodItem(n)' = GoodItem(n)
    BY <1>1, <2>1 DEF GoodItem, vars, world
  <2> QED
    BY <1>1, <2>1, <2>2
    DEF vars, memory, durable, world, CertInv, CertHandler, VotesBacked, FinalizeBacked,
        QueueGood, HeadersGood, StatesGood, QCsGood, CommitsGood, InboxCast, CastGood
<1>2. CASE Next
  <2>1. PICK n \in Node : Step(n) \/ Timeout(n) \/ Crash(n)
    BY <1>2 DEF Next
  <2>2. CASE PeerConnectedPropose(n)
    BY <2>2, PeerConnectedProposeGood
  <2>3. CASE PeerConnected(n)
    BY <2>3, PeerConnectedGood
  <2>4. CASE \E m \in inbox[n] : Receive(n, m)
    BY <2>4, ReceiveGood
  <2>5. CASE PopVote(n)
    BY <2>5, PopVoteGood
  <2>6. CASE PopMessage(n)
    BY <2>6, PopMessageGood
  <2>7. CASE PopDrain(n)
    BY <2>7, PopDrainGood
  <2>8. CASE PopBooting(n)
    BY <2>8, PopBootingGood
  <2>9. CASE Timeout(n)
    BY <2>9, TimeoutGood
  <2>10. CASE Restart(n)
    BY <2>10, RestartGood
  <2>11. CASE CrashPopping(n)
    BY <2>11, CrashPoppingGood
  <2>12. CASE \E m \in inbox[n] : CrashReceiving(n, m)
    BY <2>12, CrashReceivingGood
  <2> QED
    BY <2>1, <2>2, <2>3, <2>4, <2>5, <2>6, <2>7, <2>8, <2>9, <2>10, <2>11, <2>12
    DEF Step, Pop, Crash
<1> QED
  BY <1>1, <1>2

-----------------------------------------------------------------------------
\* Certificates are backed by cast votes in every reachable state: the
\* invariant behind the theorems below.
THEOREM CertificatesCorrect == Spec => []CertInv
<1>1. Init => StructInv /\ CertInv
  BY InitInv, InitGood
<1>2. StructInv /\ CertInv /\ [Next]_vars => (StructInv /\ CertInv)'
  BY NextInv, NextGood
<1> QED
  BY <1>1, <1>2, PTL DEF Spec

\* Every QC a node stores was voted for by a supermajority (on_vote).
THEOREM StoredQCsBacked == Spec => []QCBacked
<1>1. CertInv => QCBacked
  BY DEF CertInv, CertHandler, QCsGood, GoodQC, QCBacked, Cert, Certified, Voters,
         NotarizeVoters
<1> QED
  BY <1>1, CertificatesCorrect, PTL

\* A proposal carries a backed QC of the view before and a certified parent
\* (try_propose, on_vote, create_proposal).
THEOREM ProposalsJustified == Spec => []JustifyCertified
<1>1. CertInv => JustifyCertified
  <2> SUFFICES ASSUME CertInv, NEW b \in Block, Created(b)
               PROVE  /\ b[1] > 1 => Certified(b[1] - 1, header[b].justify)
                      /\ header[b].parent # Genesis =>
                            Certified(header[b].parent[1], header[b].parent)
    BY DEF JustifyCertified
  <2>1. GoodHeader(cast, b, header[b])
    BY DEF CertInv, CertHandler, HeadersGood, CreatedBlock
  <2> QED
    BY <2>1 DEF GoodHeader, GoodQC, Cert, Certified, Voters, NotarizeVoters
<1> QED
  BY <1>1, CertificatesCorrect, PTL

\* The block a leader falls back on after a timeout was certified in its view
\* (update_preferred_chain and the reload in SimplexState::new).
THEOREM PreferredBacked == Spec => []PreferredCertified
<1>1. StructInv /\ CertInv => PreferredCertified
  <2> SUFFICES ASSUME StructInv, CertInv, NEW n \in Node, st[n].preferred_block # Genesis
               PROVE  /\ st[n].preferred_block[1] = st[n].preferred_view
                      /\ Certified(st[n].preferred_view, st[n].preferred_block)
    BY DEF PreferredCertified
  <2>1. GoodQC(cast, st[n].preferred_view, st[n].preferred_block)
    BY DEF CertInv, CertHandler, StatesGood, GoodState, GoodPreferred
  <2>2. st[n].preferred_block \in Block
    BY DEF StructInv, HandlerInv, HandlerTypeOK, ConsensusState, Hash
  <2> QED
    BY <2>1, <2>2 DEF GoodQC, Cert, Certified, Voters, NotarizeVoters
<1> QED
  BY <1>1, StructureCorrect, CertificatesCorrect, PTL

\* No node enters a view before the previous one was certified (on_vote,
\* on_proposal, on_block_response).
THEOREM ViewsJustified == Spec => []ViewJustified
<1>1. CertInv => ViewJustified
  BY DEF CertInv, CertHandler, StatesGood, GoodState, GoodView, ViewJustified, Cert,
         Certified, Voters, NotarizeVoters
<1> QED
  BY <1>1, CertificatesCorrect, PTL

\* A finalized view was certified and has a supermajority of Finalize votes
\* (on_finalize_vote).
THEOREM FinalizationBacked == Spec => []FinalizedCertified
<1>1. CertInv => FinalizedCertified
  BY DEF CertInv, CertHandler, StatesGood, GoodState, GoodFinalized, FinalizedCertified,
         Cert, Certified, Voters, NotarizeVoters, Finalizers, FinalizeVoters
<1> QED
  BY <1>1, CertificatesCorrect, PTL

\* Only certified blocks are executed against the persistent state.
THEOREM CommitsBacked == Spec => []CommittedCertified
<1>1. CertInv => CommittedCertified
  BY DEF CertInv, CertHandler, CommitsGood, CommittedCertified, Cert, Certified, Voters,
         NotarizeVoters
<1> QED
  BY <1>1, CertificatesCorrect, PTL
=============================================================================
