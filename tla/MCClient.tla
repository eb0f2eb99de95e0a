------------------------------ MODULE MCClient ------------------------------
(***************************************************************************)
(* Instances of Client for TLC.                                            *)
(***************************************************************************)
EXTENDS Client

NoFaults == {}
AllFaults == PossibleFaults

=============================================================================
