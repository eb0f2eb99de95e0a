------------------------------ MODULE MCServer ------------------------------
(***************************************************************************)
(* Instances of Server for TLC.                                            *)
(***************************************************************************)
EXTENDS ServerInvariants, TLC

CONSTANTS c1, c2

OneClient == {c1}
TwoClients == {c1, c2}

NoFaults == {}
AllFaults == PossibleFaults
ExecFault == {"execve"}

\* Clients are interchangeable in every safety property.
ClientSymmetry == Permutations(Clients)

=============================================================================
