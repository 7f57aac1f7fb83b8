----------------------------- MODULE MCSimplex -----------------------------
(***************************************************************************)
(* Instances of Simplex for TLC.                                           *)
(***************************************************************************)
EXTENDS Simplex

\* One node works off its action stack before another node moves.  A node's
\* steps until its stack is empty read only its own state and only add to the
\* other inboxes, so they commute with the steps of the others.
RunToCompletion ==
    \A n \in Node : queue[n] # <<>> => queue'[n] # queue[n]

\* A part of the behaviours: view 1 ends before a timer fires, node 1's timer does
\* not fire before it has voted for a block of view 2, and node 0's not before view 3.
OneEarlyTimer ==
    /\ RunToCompletion
    /\ \A m \in cast' : IsTimeoutVote(m) =>
         IF m.author = 0 THEN m.view = 3
         ELSE m.view = 2 /\ \E b \in Block : b[1] = 2 /\ 1 \in NotarizeVoters(2, b)

\* A part of the behaviours: only view 2 times out, and not on its leader, node 0.
\* Node 0 gets no votes of others before it has voted in view 3; node 2 gets none
\* of node 0, and Finalize votes reach nobody else.  Once node 0 has voted in views
\* 3 and 2, node 1 crashes; the blocks before that all have the same tag.
LateLeader ==
    /\ RunToCompletion
    /\ \A m \in cast' : IsTimeoutVote(m) => m.view = 2 /\ m.author # 0
    /\ \A n \in Node, v \in View : \A a \in Node \ {n} :
         /\ a \notin finalize_votes'[n][v]
         /\ votes_received'[n][v][a] # None
              => IF n = 0 THEN votes_received[0][3][0] # None ELSE n = 1 \/ a # 0
    /\ crashes = 0 =>
         IF queue[0] = <<>> /\ votes_received[0][2][0] # None /\ votes_received[0][3][0] # None
         THEN mode'[1] = "off"
         ELSE crashes' = 0 /\ \E t \in Tag : \A b \in Block : header'[b] = None \/ b[2] = t

\* Crashes, and the timer of node 0 in view 1.
RestartNext ==
    \/ \E n \in Node : Step(n) \/ Crash(n)
    \/ st[0].view = 1 /\ Timeout(0)
=============================================================================
