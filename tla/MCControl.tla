------------------------------ MODULE MCControl ------------------------------
(* Instances of ControlProtocol for TLC.                                   *)
EXTENDS ControlInvariant, TLC

Symmetry == Permutations(Clients)
=============================================================================
