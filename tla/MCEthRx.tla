------------------------------- MODULE MCEthRx -------------------------------
(* Model-checking instances of EthRx. *)
EXTENDS EthRx

OneSegment == {1}
UpToTwoSegments == {1, 2}
=============================================================================
