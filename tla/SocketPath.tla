----------------------------- MODULE SocketPath -----------------------------
(***************************************************************************)
(* Servers that are started on the same pathname: the steps of             *)
(* usockit_server_setup_socket() that touch the file system, of several    *)
(* processes at once, each of which may be killed.  A pathname that is     *)
(* bound names the socket that bound it until somebody unlinks it, also    *)
(* when nobody has that socket open any more.                              *)
(***************************************************************************)
CONSTANTS
  Servers,  \* server processes
  Nobody,   \* the pathname does not exist
  Foreign   \* a file that was there before the first server

ASSUME SocketPathAssumption ==
  Nobody \notin Servers /\ Foreign \notin Servers /\ Nobody # Foreign

VARIABLES
  pc,      \* next step of each server
  path     \* whose socket the pathname names

vars == <<pc, path>>

ServerSteps == {"bind", "listen", "undo", "run", "unlink", "close",
                "failed", "exited", "killed"}

Alive == ServerSteps \ {"failed", "exited", "killed"}

Init ==
  /\ pc = [s \in Servers |-> "bind"]
  /\ path \in {Nobody, Foreign}

Goto(s, from, to) ==
  /\ pc[s] = from
  /\ pc' = [pc EXCEPT ![s] = to]

\* A failed bind(2) after which the pathname is unlinked as well.
BindUnlinking(s) ==
  \/ path = Nobody /\ Goto(s, "bind", "listen") /\ path' = s
  \/ path # Nobody /\ Goto(s, "bind", "failed") /\ path' = Nobody

\* bind(2) creates the pathname, or fails: with EADDRINUSE if there is one,
\* but also for other reasons; the socket is closed.
Bind(s) ==
  \/ path = Nobody /\ Goto(s, "bind", "listen") /\ path' = s
  \/ Goto(s, "bind", "failed") /\ UNCHANGED path

\* listen(2) ...
Listen(s) ==
  /\ \E to \in {"run", "undo"} : Goto(s, "listen", to)
  /\ UNCHANGED path

\* A failed listen(2) after which only the descriptor is closed.
UndoLeaving(s) ==
  /\ Goto(s, "undo", "failed")
  /\ UNCHANGED path

\* A failed start that goes on to the regular end, to unlink once more.
UndoFallingThrough(s) ==
  /\ Goto(s, "undo", "unlink")
  /\ path' = Nobody

\* ... and if it failed, the pathname is unlinked and the socket closed.
Undo(s) ==
  /\ Goto(s, "undo", "failed")
  /\ path' = Nobody

\* usockit_server_setup_threads() returns, the child having run or not.
Run(s) ==
  /\ Goto(s, "run", "unlink")
  /\ UNCHANGED path

\* unlink(2) removes the pathname, whosever socket it names.
Unlink(s) ==
  /\ Goto(s, "unlink", "close")
  /\ path' = Nobody

Close(s) ==
  /\ Goto(s, "close", "exited")
  /\ UNCHANGED path

\* A signal (SIGPIPE among them) ends the server, which leaves the pathname.
Kill(s) ==
  /\ pc[s] \in Alive
  /\ pc' = [pc EXCEPT ![s] = "killed"]
  /\ UNCHANGED path

Next ==
  \E s \in Servers :
    \/ Bind(s) \/ Listen(s) \/ Undo(s) \/ Run(s) \/ Unlink(s) \/ Close(s)
    \/ Kill(s)

Spec == Init /\ [][Next]_vars

-----------------------------------------------------------------------------
(* Type invariant.                                                         *)

TypeOK ==
  /\ pc \in [Servers -> ServerSteps]
  /\ path \in Servers \cup {Nobody, Foreign}

-----------------------------------------------------------------------------
(* Safety.                                                                 *)

\* A server that has bound the pathname keeps it until it unlinks it itself,
\* however many others are started, fail and end meanwhile: clients of that
\* pathname reach this server and no other, and two servers never both listen
\* on it (setup_socket() unlinks only what it has bound).
BoundServerIsReachable ==
  \A s \in Servers : pc[s] \in {"listen", "undo", "run", "unlink"} => path = s

\* A pathname of a server's making is in the way of a new server only if that
\* server is still using it or was killed: no path through setup_socket()
\* leaves it behind.
StaleOnlyAfterKill ==
  path \in Servers => pc[path] \in {"listen", "undo", "run", "unlink", "killed"}

\* A file that a server finds in its way is not removed by it, nor by those
\* that come after it.
ForeignFileKept ==
  [][path = Foreign => path' = Foreign]_vars

=============================================================================
