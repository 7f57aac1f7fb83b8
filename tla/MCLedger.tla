------------------------------ MODULE MCLedger ------------------------------
(***************************************************************************)
(* Instances of Ledger for TLC.                                            *)
(***************************************************************************)
EXTENDS Ledger

Evm(s, k, fee, tip, gas) ==
    [sender |-> s, nonce |-> k, max_fee |-> fee, max_priority |-> tip, gas_limit |-> gas,
     gas_used |-> gas, system |-> FALSE, reverts |-> FALSE]

Payment == Evm(1, 0, 20, 1, 3)

\* Two transactions of one sender, the later one with the better tip and
\* reverting, and a call of the staking contract by another.
Transactions ==
    {Payment,
     [Evm(1, 1, 20, 2, 2) EXCEPT !.reverts = TRUE],
     [Evm(2, 0, 17, 3, 2) EXCEPT !.system = TRUE]}

\* A part of the behaviours: the first call sends the payment to the leader of
\* the first view; the second one sends it again or sends another transaction,
\* to any node.
PaymentFirst ==
    sends = 0 => \A n \in Node : checking'[n] \subseteq (IF n = Leader(1) THEN {Payment} ELSE {})
=============================================================================
