---------------------------- MODULE ServerState ----------------------------
(***************************************************************************)
(* The state of one running usockit server (src/server.c), from the first  *)
(* pthread_create(3) of usockit_server_setup_threads() to the end of the   *)
(* process: its four threads, the two heap structures they synchronise on  *)
(* (child_ready_info and client_ready_info), the child program, the        *)
(* listening socket and the clients at the other end of it.                *)
(*                                                                         *)
(* ServerChild has the steps that start, watch and announce the child,     *)
(* ServerClients those that accept and serve clients, Server composes them *)
(* with the main thread's thread creation and teardown.                    *)
(*                                                                         *)
(* File descriptors: a client's server-side descriptor is named by the     *)
(* client.  Nothing opens a descriptor after the accept thread has ended,  *)
(* so a number that was closed is never given to another object while a    *)
(* thread still holds it.                                                  *)
(***************************************************************************)
EXTENDS Naturals, Sequences, FiniteSets

CONSTANTS
  Clients,        \* client processes; each connects at most once
  NoClient,       \* the -1 of a descriptor variable
  MaxChunks,      \* bound: chunks (results of one read(2)) a client may send
  PipeCapacity,   \* chunks the child's stdin pipe holds before write(2) blocks
  ListenBacklog,  \* second argument of listen(2), 1 in the code
  CloseOnExec,    \* is the reporting pipe really closed by exec(3)?
  Faults          \* which of PossibleFaults may happen

PossibleFaults ==
  { "create_child_wait", "create_client_connection", "create_accept",
    "pipe", "fork", "dup2", "execve", "read", "kill_before_exec" }

ASSUME ServerAssumption ==
  /\ NoClient \notin Clients
  /\ MaxChunks \in Nat
  /\ PipeCapacity \in Nat \ {0}
  /\ ListenBacklog \in Nat
  /\ CloseOnExec \in BOOLEAN
  /\ Faults \subseteq PossibleFaults

VARIABLES
  pc,                  \* next step of each thread
  cancelled,           \* threads with a pending pthread_cancel(3)
  woken,               \* threads whose pthread_cond_wait(3) was signalled
  child_ready_mutex,   \* child_ready_info->mutex: Free or its (dead) holder
  condition,           \* child_ready_info->condition
  client_ready_mutex,  \* client_ready_info->mutex: Free or its holder
  client_fd,           \* client_ready_info->client_fd
  accept_fd,           \* local client_fd of the accept thread
  closing_fd,          \* local client_fd of the connection cleanup routine
  buffer,              \* local buffer of the connection thread
  child,               \* life of the child process
  reported,            \* is a child_error in the reporting pipe?
  stdin_reader,        \* does the child still hold the read end of its stdin?
  stdin_pipe,          \* chunks in the child's stdin pipe
  child_stdin_fd,      \* *child_stdin_fd_ptr: the write end of that pipe
  process,             \* the server process
  backlog,             \* connections waiting in the listening socket
  fd_open,             \* clients whose server-side descriptor is open
  ends,                \* each client's own end of its connection
  refused,             \* clients that were sent the rejection message
  sent,                \* number of chunks each client has sent
  received,            \* number of chunks of each client the server has read
  delivered            \* history: chunks written to the child's stdin

threadVars  == <<pc, cancelled, woken>>
readyVars   == <<child_ready_mutex, condition>>
slotVars    == <<client_ready_mutex, client_fd>>
localVars   == <<accept_fd, closing_fd, buffer>>
childVars   == <<child, reported, stdin_reader, stdin_pipe>>
processVars == <<child_stdin_fd, process>>
socketVars  == <<backlog, fd_open, ends, refused>>
streamVars  == <<sent, received, delivered>>

\* Frames of the actions.
syncVars    == <<cancelled, woken, readyVars>>
innerVars   == <<threadVars, readyVars, slotVars, localVars>>
programVars == <<childVars, processVars>>
outerVars   == <<programVars, socketVars, streamVars>>

vars == <<innerVars, outerVars>>

-----------------------------------------------------------------------------

Threads == {"main", "child_wait", "client_connection", "accept"}
Workers == Threads \ {"main"}

\* A mutex no thread holds.
Free == "free"

NoChunk == <<>>

MainSteps ==
  { "create_child_wait", "create_client_connection", "create_accept", "pipe",
    "fork", "read_report", "reap", "publish", "broadcast",
    "parent_join_child_wait", "parent_cancel_accept", "parent_join_accept",
    "close_pipes", "cancel_accept", "join_accept", "cancel_client_connection",
    "join_client_connection", "cancel_child_wait", "join_child_wait",
    "destroy", "unlink", "done" }

ChildWaitSteps == {"none", "await_ready", "ready_wait", "waitpid", "ended"}

ConnectionSteps ==
  { "none", "slot_lock", "slot_check", "slot_wait", "read", "write",
    "cleanup", "close", "ended" }

AcceptSteps ==
  { "none", "await_ready", "ready_wait", "accept", "trylock", "testcancel",
    "signal", "busy", "drop", "reject", "close", "ended" }

Steps == MainSteps \cup ChildWaitSteps \cup ConnectionSteps \cup AcceptSteps

ChildStates == {"none", "forked", "reported", "running", "exited", "failed"}

Init ==
  /\ pc = [t \in Threads |-> IF t = "main" THEN "create_child_wait" ELSE "none"]
  /\ cancelled = {} /\ woken = {}
  /\ child_ready_mutex = Free /\ condition = FALSE
  /\ client_ready_mutex = Free /\ client_fd = NoClient
  /\ accept_fd = NoClient /\ closing_fd = NoClient /\ buffer = NoChunk
  /\ child = "none" /\ reported = FALSE
  /\ stdin_reader = FALSE /\ stdin_pipe = 0
  /\ child_stdin_fd = "unset" /\ process = "running"
  /\ backlog = <<>> /\ fd_open = {}
  /\ ends = [c \in Clients |-> "away"] /\ refused = {}
  /\ sent = [c \in Clients |-> 0] /\ received = [c \in Clients |-> 0]
  /\ delivered = <<>>

-----------------------------------------------------------------------------

\* Thread t, at step from, goes on to step to.
Goto(t, from, to) ==
  /\ pc[t] = from
  /\ pc' = [pc EXCEPT ![t] = to]

\* It does, and changes nothing else.
Move(t, from, to) ==
  /\ Goto(t, from, to)
  /\ UNCHANGED <<syncVars, slotVars, localVars, outerVars>>

\* close(2) of the server's descriptor of c.
CloseFd(c) == fd_open' = fd_open \ {c} /\ UNCHANGED <<backlog, ends, refused>>

\* The process ends: the kernel closes every descriptor it had.
ProcessEnds(how) ==
  /\ process' = how
  /\ fd_open' = {}
  /\ backlog' = <<>>

=============================================================================
