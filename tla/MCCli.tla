------------------------------- MODULE MCCli -------------------------------
(***************************************************************************)
(* Instances of Cli for TLC.                                               *)
(***************************************************************************)
EXTENDS Cli

TwoNames == {"console_socket", "a_path_of_more_than_107_bytes"}
OneLongName == {"a_path_of_more_than_107_bytes"}

AllFaults == PossibleFaults

=============================================================================
