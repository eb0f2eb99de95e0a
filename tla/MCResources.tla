----------------------------- MODULE MCResources -----------------------------
(***************************************************************************)
(* The instance of Resources for TLC.                                      *)
(***************************************************************************)
EXTENDS Resources

AllFaults ==
  {SocketSteps[i] : i \in DOMAIN SocketSteps}
    \cup {ThreadsSteps[i] : i \in DOMAIN ThreadsSteps}
    \cup {ChildSteps[i] : i \in DOMAIN ChildSteps}
    \cup {ClientSteps[i] : i \in DOMAIN ClientSteps}
    \cup {"dup2", "execve"}

=============================================================================
