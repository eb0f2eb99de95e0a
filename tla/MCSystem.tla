------------------------------ MODULE MCSystem ------------------------------
(***************************************************************************)
(* Instances of System for TLC.                                            *)
(***************************************************************************)
EXTENDS System

CONSTANTS c1, c2

OneClient == {c1}
TwoClients == {c1, c2}

NoFaults == {}

=============================================================================
