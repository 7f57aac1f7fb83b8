------------------------------- MODULE Notary -------------------------------
(***************************************************************************)
(* What the consensus state machine promises, without messages, queues,    *)
(* timers, storage or crashes.  Nodes sign votes.  A node may write down   *)
(* one certificate per view, may enter a view and may finalize a view, and *)
(* each of these only on the strength of votes that were really signed.    *)
(* Nothing written down is ever changed or taken back, no node signs for   *)
(* another, and a block is committed only in the step that finalizes its   *)
(* view.                                                                   *)
(***************************************************************************)
EXTENDS Integers

CONSTANTS
    Node,      \* the nodes that sign
    Quorum,    \* the sets of nodes whose signatures back a certificate
    View,      \* views in which votes are signed, a set of naturals
    Slot,      \* views that have a certificate: View and 0, that of genesis
    Block,     \* what is voted for, pairs of a view and a content
    Zero,      \* the vote for no block
    None       \* no certificate

VARIABLES
    signed,     \* every vote signed so far
    cert,       \* cert[n][v] : what n holds as certified in view v
    entered,    \* entered[n] : the view n is in
    final,      \* final[n] : the last view n has finalized
    commits     \* commits[n] : the blocks n has committed

vars == <<signed, cert, entered, final, commits>>

Hash == Block \cup {Zero}
Vote == [type : {"vote"}, vtype : {"Notarize", "Finalize"}, view : View,
         hash : Hash, author : Node]

Notarizers(S, v, h) ==
    {a \in Node : [type |-> "vote", vtype |-> "Notarize", view |-> v, hash |-> h,
                   author |-> a] \in S}

Finalizers(S, v) ==
    {a \in Node : \E h \in Hash :
        [type |-> "vote", vtype |-> "Finalize", view |-> v, hash |-> h,
         author |-> a] \in S}

Backed(S, v, h) == Notarizers(S, v, h) \in Quorum

Init ==
    /\ signed = {}
    /\ cert = [n \in Node |-> [v \in Slot |-> IF v = 0 THEN Zero ELSE None]]
    /\ entered = [n \in Node |-> 1]
    /\ final = [n \in Node |-> 0]
    /\ commits = [n \in Node |-> {}]

Sign(n) ==
    \/ UNCHANGED signed
    \/ \E m \in Vote : m.author = n /\ signed' = signed \cup {m}

\* One certificate per view, for ever.
Certify(n) ==
    \/ UNCHANGED cert
    \/ \E v \in View, h \in Hash :
          /\ cert[n][v] = None
          /\ Backed(signed', v, h)
          /\ cert' = [cert EXCEPT ![n][v] = h]

\* Views are entered in increasing order, when the one before is certified.
Enter(n) ==
    \/ UNCHANGED entered
    \/ \E v \in View :
          /\ v + 1 > entered[n]
          /\ \E h \in Hash : Backed(signed', v, h)
          /\ entered' = [entered EXCEPT ![n] = v + 1]

\* A view is finalized with a quorum of Finalize votes, once it is certified;
\* its block may be committed with it, and at no other time.
Finalize(n) ==
    \/ UNCHANGED <<final, commits>>
    \/ \E v \in View :
          /\ v > final[n]
          /\ Finalizers(signed', v) \in Quorum
          /\ \E h \in Hash :
                /\ Backed(signed', v, h)
                /\ final' = [final EXCEPT ![n] = v]
                /\ \/ UNCHANGED commits
                   \/ /\ h \in Block /\ h[1] = v
                      /\ commits' = [commits EXCEPT ![n] = @ \cup {h}]

Next == \E n \in Node : Sign(n) /\ Certify(n) /\ Enter(n) /\ Finalize(n)

Spec == Init /\ [][Next]_vars
=============================================================================
