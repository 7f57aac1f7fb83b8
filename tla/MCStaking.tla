----------------------------- MODULE MCStaking -----------------------------
(***************************************************************************)
(* Small instances of Staking: two genesis validators that may leave and   *)
(* join again.                                                             *)
(***************************************************************************)
EXTENDS Staking

CONSTANTS a, b

MCValidator == {a, b}
MCGenesisCommittee == <<a, b>>
=============================================================================
