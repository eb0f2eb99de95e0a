---------------------------- MODULE MCSocketPath ----------------------------
(***************************************************************************)
(* The instance of SocketPath for TLC.                                     *)
(***************************************************************************)
EXTENDS SocketPath, TLC

CONSTANTS s1, s2, s3, s4

FourServers == {s1, s2, s3, s4}

\* Servers are interchangeable.
ServerSymmetry == Permutations(Servers)

=============================================================================
