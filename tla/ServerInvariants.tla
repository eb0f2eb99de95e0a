-------------------------- MODULE ServerInvariants --------------------------
(***************************************************************************)
(* The inductive invariants of Server that TLC checks on an instance of    *)
(* MCServer, and that ServerProofs and ConsoleProofs prove for every one.  *)
(***************************************************************************)
EXTENDS Server

\* Steps of the main thread before it cancels any other thread.
BeforeCancels ==
  { "create_child_wait", "create_client_connection", "create_accept", "pipe",
    "fork", "read_report", "reap", "publish", "broadcast",
    "parent_join_child_wait", "parent_cancel_accept" }

\* ... and before it announces the child.
BeforePublish ==
  { "create_child_wait", "create_client_connection", "create_accept", "pipe",
    "fork", "read_report", "reap", "publish" }

Gone(t) == pc[t] \in {"none", "ended"}

\* The slot: the connection thread holds the mutex through a session, nobody
\* else ever keeps it, and the descriptors in hand are those of clients.
SlotInv ==
  /\ pc["client_connection"] \in {"slot_check", "read", "write", "cleanup"}
       => client_ready_mutex = "client_connection"
  /\ pc["client_connection"] \in {"read", "write", "cleanup"}
       => client_fd \in Clients
  /\ pc["client_connection"] = "write" => buffer \in Clients \X Nat
  /\ pc["accept"]
         \notin {"none", "await_ready", "ready_wait", "accept", "ended"}
       => accept_fd \in Clients

\* The teardown: main gets past a join only when the joined thread is gone.
TeardownInv ==
  /\ pc["main"] \in {"create_child_wait", "destroy", "unlink", "done"}
       => Gone("child_wait")
  /\ pc["main"] \in { "create_child_wait", "create_client_connection",
                      "cancel_child_wait", "join_child_wait", "destroy",
                      "unlink", "done" }
       => Gone("client_connection")
  /\ pc["main"] \in { "create_child_wait", "create_client_connection",
                      "create_accept", "cancel_client_connection",
                      "join_client_connection", "cancel_child_wait",
                      "join_child_wait", "destroy", "unlink", "done" }
       => Gone("accept")

\* Cancellation: what was cancelled when, and what a thread may take with it.
CancelInv ==
  /\ pc["main"] \in BeforeCancels => cancelled = {}
  /\ "client_connection" \in cancelled => Gone("accept")
  /\ "child_wait" \in cancelled => Gone("accept")
  /\ pc["client_connection"] = "ended" => "client_connection" \in cancelled
  /\ child_ready_mutex # Free
       => child_ready_mutex \in cancelled /\ pc[child_ready_mutex] = "ended"
  /\ condition /\ "accept" \in cancelled => pc["child_wait"] = "ended"
  /\ pc["child_wait"] = "ended"
       => \/ condition /\ ChildEnded
          \/ ~condition /\ "child_wait" \in cancelled

\* The latch: nothing passes it before the child and its stdin exist.
LatchInv ==
  /\ pc["main"] \in BeforePublish => ~condition
  /\ condition /\ pc["main"] \notin {"broadcast", "parent_join_child_wait"}
       => pc["child_wait"] = "ended"
  /\ pc["main"] \in {"read_report", "publish"} \/ condition
       => child # "none" /\ child_stdin_fd # "unset"
  /\ child_stdin_fd = "closed"
       => pc["main"]
            \notin BeforePublish \cup {"broadcast", "parent_join_child_wait"}
  /\ pc["child_wait"] = "waitpid" => condition
  /\ pc["accept"] \notin {"none", "await_ready", "ready_wait", "ended"}
       => condition
  /\ client_fd # NoClient => condition

IInv == TypeOK /\ SlotInv /\ TeardownInv /\ CancelInv /\ LatchInv

-----------------------------------------------------------------------------
(* Where a client is: PlacesInv is inductive together with IInv.           *)

\* A client is in one place at a time, and no further once it was refused.
QueueInv ==
  /\ \A i, j \in DOMAIN backlog : backlog[i] = backlog[j] => i = j
  /\ \A c \in Clients :
       /\ ends[c] = "away"
            => ~InBacklog(c) /\ accept_fd # c /\ c \notin refused
       /\ InBacklog(c) => accept_fd # c /\ c \notin refused
       /\ c \in refused /\ accept_fd = c => pc["accept"] = "close"

\* The connection thread has nothing of a client that waits or was refused.
UntouchedInv ==
  \A c \in Clients :
    Waiting(c) \/ c \in refused
      => client_fd # c /\ closing_fd # c /\ received[c] = 0

\* A session starts with the client's first chunk, and what reaches the child
\* was read in a session.
SessionInv ==
  /\ client_fd # NoClient /\ ~InSession /\ pc["client_connection"] # "cleanup"
       => received[client_fd] = 0
  /\ pc["client_connection"] = "write"
       => /\ received[client_fd] > 0
          /\ buffer = <<client_fd, received[client_fd]>>
  /\ \A i \in DOMAIN delivered : received[delivered[i][1]] > 0
  /\ ChildEnded => ~stdin_reader

\* The descriptors in use are open, but for one the accept thread closed as
\* it died.
OpenInv ==
  /\ closing_fd # NoClient => client_fd # closing_fd
  /\ process = "running" /\ Undecided => accept_fd \in fd_open
  /\ process = "running" /\ client_fd # NoClient
       => \/ client_fd \in fd_open
          \/ pc["accept"] = "ended" /\ "accept" \in cancelled

PlacesInv == QueueInv /\ UntouchedInv /\ SessionInv /\ OpenInv

=============================================================================
