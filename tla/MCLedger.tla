------------------------------ MODULE MCLedger ------------------------------
(***************************************************************************)
(* Instances of Ledger for TLC: two addresses, x with two outputs of the   *)
(* genesis block and the proposer y with none.                             *)
(***************************************************************************)
EXTENDS Ledger, TLC

CONSTANTS x, y

MCAddr == {x, y}
MCGenesisOuts == <<Out(x, 3), Out(x, 2)>>

=============================================================================
