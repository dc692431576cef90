------------------------------ MODULE MCEthTx ------------------------------
(* An instance of EthTx for TLC. *)
EXTENDS EthTx

OneOrTwo == {1, 2}
=============================================================================
