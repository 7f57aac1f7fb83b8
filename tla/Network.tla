------------------------------ MODULE Network ------------------------------
(***************************************************************************)
(* One node's event loop (src/main.rs) and its network task                *)
(* (src/network.rs), which talk through two bounded channels: events to    *)
(* the loop, commands to the task.  Both sides wait inside send when the   *)
(* channel is full, and neither reads the other channel while it waits.    *)
(* A third channel brings transactions from the RPC server to the loop.    *)
(*                                                                         *)
(* What an event says matters only as far as its handler broadcasts: a     *)
(* handler is the number of commands that it has still to send.            *)
(***************************************************************************)
EXTENDS Integers, Sequences

CONSTANTS
    Capacity,   \* of each channel (100 in the source)
    MaxFan,     \* bound: commands the handling of one event sends
    MaxPeers    \* bound: peers in one mDNS announcement

\* PeerConnected, or a message: block, vote, evidence, transaction, sync.
NetworkEvent == {"peer", "message"}

VARIABLES
    started,    \* consensus_started
    todo,       \* commands the current handler of the loop has still to send
    events,     \* channel from the task to the loop
    commands,   \* number of commands in the channel from the loop to the task
    outgoing,   \* events the task has still to send
    rpc         \* number of transactions from the RPC server

vars == <<started, todo, events, commands, outgoing, rpc>>

Init ==
    /\ started = FALSE
    /\ todo = 0
    /\ events = <<>>
    /\ commands \in {0, 1}          \* the bootnode is dialled
    /\ outgoing = <<>>
    /\ rpc = 0
-----------------------------------------------------------------------------
(***************************************************************************)
(* The network task: select over the swarm and the commands.               *)
(***************************************************************************)
TaskIdle == outgoing = <<>>

\* A gossip message that can be decoded, or a connection.
SwarmEvent(e) ==
    /\ TaskIdle
    /\ outgoing' = <<e>>
    /\ UNCHANGED <<started, todo, events, commands, rpc>>

\* mDNS discovers several peers, announced one by one.
PeersDiscovered(k) ==
    /\ TaskIdle
    /\ outgoing' = [i \in 1 .. k |-> "peer"]
    /\ UNCHANGED <<started, todo, events, commands, rpc>>

\* event_sender.send(...).await
SendEvent ==
    /\ ~TaskIdle
    /\ Len(events) < Capacity
    /\ events' = Append(events, Head(outgoing))
    /\ outgoing' = Tail(outgoing)
    /\ UNCHANGED <<started, todo, commands, rpc>>

\* The task publishes a message or dials; errors are printed and forgotten.
TakeCommand ==
    /\ TaskIdle
    /\ commands > 0
    /\ commands' = commands - 1
    /\ UNCHANGED <<started, todo, events, outgoing, rpc>>
-----------------------------------------------------------------------------
(***************************************************************************)
(* The event loop.                                                         *)
(***************************************************************************)
LoopIdle == todo = 0

\* What a handler returns is dropped until the first peer has connected; that
\* event itself may start with a proposal.
TakeEvent ==
    /\ LoopIdle
    /\ events # <<>>
    /\ events' = Tail(events)
    /\ started' = (started \/ Head(events) = "peer")
    /\ todo' \in IF started = (Head(events) = "message") THEN 0 .. MaxFan ELSE {0}
    /\ UNCHANGED <<commands, outgoing, rpc>>

\* The timer: a vote for the dummy block, and what handling it brings about.
Tick ==
    /\ LoopIdle
    /\ started
    /\ todo' \in 1 .. MaxFan
    /\ UNCHANGED <<started, events, commands, outgoing, rpc>>

\* A transaction from the RPC server is broadcast.
TakeTransaction ==
    /\ LoopIdle
    /\ rpc > 0
    /\ rpc' = rpc - 1
    /\ todo' = 1
    /\ UNCHANGED <<started, events, commands, outgoing>>

\* command_sender.send(...).await
SendCommand ==
    /\ ~LoopIdle
    /\ commands < Capacity
    /\ commands' = commands + 1
    /\ todo' = todo - 1
    /\ UNCHANGED <<started, events, outgoing, rpc>>

\* A task spawned by send_transaction hands over its transaction.
SendTransaction ==
    /\ rpc < Capacity
    /\ rpc' = rpc + 1
    /\ UNCHANGED <<started, todo, events, commands, outgoing>>

Task ==
    \/ \E e \in NetworkEvent : SwarmEvent(e)
    \/ \E k \in 1 .. MaxPeers : PeersDiscovered(k)
    \/ SendEvent
    \/ TakeCommand

Loop == TakeEvent \/ Tick \/ TakeTransaction \/ SendCommand

Next == Task \/ Loop \/ SendTransaction

\* Both sides run whenever they can, and select, which chooses at random among
\* what is ready, passes over no branch for ever.
Fairness ==
    /\ WF_vars(SendEvent) /\ SF_vars(TakeCommand)
    /\ WF_vars(SendCommand) /\ SF_vars(TakeEvent) /\ SF_vars(Tick) /\ SF_vars(TakeTransaction)

Spec == Init /\ [][Next]_vars /\ Fairness
-----------------------------------------------------------------------------
\* docs/consensus_flow.md, when a view takes too long: "Validators time out".
\* The timer is a branch of the loop's select: the loop always gets back to it.
LoopReturns == []<>LoopIdle
=============================================================================
