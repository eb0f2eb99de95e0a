------------------------------- MODULE Server -------------------------------
(***************************************************************************)
(* A whole usockit server: the main thread of                              *)
(* usockit_server_setup_threads(), which creates the three other threads,  *)
(* runs the child (ServerChild) and takes everything down again, composed  *)
(* with the accept and connection threads and the clients (ServerClients). *)
(***************************************************************************)
EXTENDS ServerChild, ServerClients

(* The main thread creates the others ...                                  *)

FirstStep == [child_wait |-> "await_ready", client_connection |-> "slot_lock",
              accept |-> "await_ready"]

\* pthread_create(3) of thread t; on failure main starts to take down the
\* threads it has already created.
CreateThread(t, from, next, onFailure) ==
  /\ pc["main"] = from
  /\ \/ pc' = [pc EXCEPT !["main"] = next, ![t] = FirstStep[t]]
     \/ from \in Faults /\ pc' = [pc EXCEPT !["main"] = onFailure]
  /\ UNCHANGED <<syncVars, slotVars, localVars, outerVars>>

CreateThreads ==
  \/ CreateThread("child_wait", "create_child_wait",
                  "create_client_connection", "destroy")
  \/ CreateThread("client_connection", "create_client_connection",
                  "create_accept", "cancel_child_wait")
  \/ CreateThread("accept", "create_accept",
                  "pipe", "cancel_client_connection")

(* ... and ends them, one after the other.                                 *)

\* pthread_cancel(3); of a thread that has ended and was joined it is
\* undefined, and does nothing in glibc.
Cancel(t, from, next) ==
  /\ Goto("main", from, next)
  /\ cancelled' = cancelled \cup {t}
  /\ UNCHANGED <<woken, readyVars, slotVars, localVars, outerVars>>

\* pthread_join(3); a second join of the same thread is undefined, and fails
\* with ESRCH in glibc.
Join(t, from, next) == pc[t] = "ended" /\ Move("main", from, next)

\* A defective order: the accept thread is ended before the child is awaited.
AwaitChildDeathLast ==
  \/ Cancel("accept", "parent_join_child_wait", "parent_cancel_accept")
  \/ Join("accept", "parent_cancel_accept", "parent_join_accept")
  \/ Join("child_wait", "parent_join_accept", "close_pipes")

\* The end of usockit_server_parent(): the child has died.
AwaitChildDeath ==
  \/ Join("child_wait", "parent_join_child_wait", "parent_cancel_accept")
  \/ Cancel("accept", "parent_cancel_accept", "parent_join_accept")
  \/ Join("accept", "parent_join_accept", "close_pipes")

\* A teardown that does not wait for the cancelled connection thread.
TeardownUnjoined ==
  \/ Cancel("accept", "cancel_accept", "join_accept")
  \/ Join("accept", "join_accept", "cancel_client_connection")
  \/ Cancel("client_connection", "cancel_client_connection",
            "cancel_child_wait")
  \/ Cancel("child_wait", "cancel_child_wait", "join_child_wait")
  \/ Join("child_wait", "join_child_wait", "destroy")

\* A defective order: the connection thread is ended before the accept thread.
TeardownConnectionFirst ==
  \/ Cancel("client_connection", "cancel_accept", "join_accept")
  \/ Join("client_connection", "join_accept", "cancel_client_connection")
  \/ Cancel("accept", "cancel_client_connection", "join_client_connection")
  \/ Join("accept", "join_client_connection", "cancel_child_wait")
  \/ Cancel("child_wait", "cancel_child_wait", "join_child_wait")
  \/ Join("child_wait", "join_child_wait", "destroy")

\* The end of usockit_server_setup_threads(), and its error paths.
Teardown ==
  \/ Cancel("accept", "cancel_accept", "join_accept")
  \/ Join("accept", "join_accept", "cancel_client_connection")
  \/ Cancel("client_connection", "cancel_client_connection",
            "join_client_connection")
  \/ Join("client_connection", "join_client_connection", "cancel_child_wait")
  \/ Cancel("child_wait", "cancel_child_wait", "join_child_wait")
  \/ Join("child_wait", "join_child_wait", "destroy")

\* Mutexes and condition variables are destroyed, the structures freed.
Destroy == Move("main", "destroy", "unlink")

\* The end of usockit_server_setup_socket() and of the process: the socket is
\* unlinked and closed, clients still in the backlog are disconnected.
UnlinkAndExit ==
  /\ Goto("main", "unlink", "done")
  /\ ProcessEnds("exited")
  /\ UNCHANGED <<syncVars, slotVars, localVars, childVars, child_stdin_fd,
                 ends, refused, streamVars>>

-----------------------------------------------------------------------------

ReadyWait(t) == LockReady(t) \/ WakeReady(t) \/ CancelReady(t)

MainThread ==
  \/ CreateThreads \/ SetupPipes \/ ForkFails \/ Fork \/ ReadReport \/ Reap
  \/ Publish \/ Broadcast \/ AwaitChildDeath \/ ClosePipes \/ Teardown
  \/ Destroy \/ UnlinkAndExit

\* The steps the scheduler owes each thread of a live process.
ThreadStep(t) ==
  /\ process = "running"
  /\ \/ t = "main" /\ MainThread
     \/ t = "child_wait" /\ (ReadyWait(t) \/ WaitPid)
     \/ t = "client_connection" /\ ConnectionThread
     \/ t = "accept" /\ (ReadyWait(t) \/ AcceptThread)

\* Wake-ups nobody signalled: possible, never owed.
SpuriousWakeup ==
  /\ process = "running"
  /\ SpuriousSlot \/ \E t \in {"child_wait", "accept"} : SpuriousReady(t)

\* What the child does after fork(2) and before its program runs.
ChildStarts ==
  \/ ChildExec
  \/ ChildReportsError
  \/ child = "reported" /\ ChildEnds

ChildStep == ChildStarts \/ ChildEnds \/ ChildReadsStdin \/ ChildClosesStdin

ClientStep(c) == Connect(c) \/ Send(c) \/ Hangup(c)

Next ==
  \/ \E t \in Threads : ThreadStep(t)
  \/ SpuriousWakeup
  \/ ChildStep
  \/ \E c \in Clients : ClientStep(c)

Spec == Init /\ [][Next]_vars

\* The kernel schedules every thread of the server.  Nothing is assumed of the
\* program, of clients, or of spurious wake-ups.
Fairness ==
  /\ WF_vars(ThreadStep("main"))
  /\ WF_vars(ThreadStep("child_wait"))
  /\ WF_vars(ThreadStep("client_connection"))
  /\ WF_vars(ThreadStep("accept"))

FairSpec == Spec /\ Fairness

\* It also schedules the child, up to its program.
StartFairSpec == FairSpec /\ WF_vars(ChildStarts)

-----------------------------------------------------------------------------
(* Type invariant.                                                         *)

PcType ==
  /\ pc \in [Threads -> Steps]
  /\ pc["main"] \in MainSteps /\ pc["child_wait"] \in ChildWaitSteps
  /\ pc["client_connection"] \in ConnectionSteps
  /\ pc["accept"] \in AcceptSteps

SyncType ==
  /\ cancelled \subseteq Workers /\ woken \subseteq Workers
  /\ child_ready_mutex \in {Free, "child_wait", "accept"}
  /\ condition \in BOOLEAN
  /\ client_ready_mutex \in {Free, "client_connection"}

SlotType ==
  /\ client_fd \in Clients \cup {NoClient}
  /\ accept_fd \in Clients \cup {NoClient}
  /\ closing_fd \in Clients \cup {NoClient}
  /\ buffer \in (Clients \X Nat) \cup {NoChunk}

ChildType ==
  /\ child \in ChildStates /\ reported \in BOOLEAN
  /\ stdin_reader \in BOOLEAN
  /\ child_stdin_fd \in {"unset", "open", "closed"}
  /\ process \in {"running", "exited", "killed"}

SocketType ==
  /\ backlog \in Seq(Clients)
  /\ fd_open \subseteq Clients
  /\ ends \in [Clients -> {"away", "connected", "closed"}]
  /\ refused \subseteq Clients

StreamType ==
  /\ sent \in [Clients -> 0..MaxChunks]
  /\ received \in [Clients -> 0..MaxChunks]
  /\ delivered \in Seq(Clients \X Nat)
  /\ stdin_pipe \in 0..PipeCapacity

TypeOK ==
  /\ PcType /\ SyncType /\ SlotType /\ ChildType /\ SocketType /\ StreamType

-----------------------------------------------------------------------------
(* Sessions.                                                               *)

\* The connection thread is forwarding data of client_fd.
InSession == pc["client_connection"] \in {"read", "write"}

\* The accept thread has not decided about the client in its hand.
Undecided == pc["accept"] \in {"trylock", "busy", "drop", "reject", "close"}

\* c has not been handed over yet, nor sent away.
Waiting(c) == ends[c] = "away" \/ InBacklog(c) \/ (accept_fd = c /\ Undecided)

\* c may still get a session, or has one now.
Pending(c) ==
  Waiting(c) \/ (client_fd = c /\ pc["client_connection"] # "cleanup")

\* The server implements the console: what the child's stdin gets is a
\* concatenation of sessions, whatever the two client threads, the clients,
\* and the teardown do in between (accept and client_connection routines).
C == INSTANCE Console WITH
  session  <- IF InSession THEN client_fd ELSE NoClient,
  progress <- IF InSession
                THEN received[client_fd]
                       - (IF pc["client_connection"] = "write" THEN 1 ELSE 0)
                ELSE 0,
  finished <- {c \in Clients : ~Pending(c)}

ImplementsConsole == C!Spec

\* The descriptor of the client being served is never replaced: the accept
\* thread stores one only while it holds the mutex the session holds.
SessionNotStolen ==
  [][InSession /\ InSession' => client_fd' = client_fd]_vars

\* A client that was told to go away is never served, before or after: none
\* of its data reaches the child.
RefusedNeverServed ==
  \A c \in refused :
    /\ client_fd # c
    /\ \A i \in DOMAIN delivered : delivered[i][1] # c

\* A session reads a descriptor that is no longer open only if the accept
\* thread was cancelled between storing and signalling it, so only in the
\* teardown, when nothing can reuse the number.
ClosedOnlyByCancelledAccept ==
  process = "running" /\ InSession /\ client_fd \notin fd_open
    => pc["accept"] = "ended" /\ "accept" \in cancelled

\* What was read of a session and not written to the child is given up only
\* when the child has ended: no closing of the pipe and no cancellation of the
\* connection thread comes between a chunk and a program that could read it.
\* A SIGPIPE that ends the whole server (RejectKills, WriteKills) takes the chunk in
\* hand along and leaves it in the buffer: that is no giving up in this sense.
ChunkLostOnlyToEndedChild ==
  [][buffer # NoChunk /\ buffer' = NoChunk
       => delivered' = Append(delivered, buffer) \/ ChildEnded]_vars

-----------------------------------------------------------------------------
(* Startup and teardown.                                                   *)

\* The memory behind child_pid_ptr and child_stdin_fd_ptr is uninitialized
\* until the fork: no thread that uses it gets past the readiness latch before.
InitializedBeforeUse ==
  /\ pc["child_wait"] = "waitpid" => child # "none"
  /\ pc["accept"] \notin {"none", "await_ready", "ready_wait", "ended"}
       => child_stdin_fd # "unset"
  /\ pc["client_connection"] = "write" => child_stdin_fd # "unset"

\* When the mutexes are destroyed and the structures freed, no thread that
\* uses them is left, on any of the success and error paths.
NoUseAfterFree ==
  pc["main"] \in {"unlink", "done"} =>
    \A t \in Workers : pc[t] \in {"none", "ended"}

\* A thread waits for a mutex that its dead owner will never unlock.
Wedged(t) ==
  /\ pc[t] \in {"await_ready", "ready_wait"}
  /\ child_ready_mutex # Free
  /\ pc[child_ready_mutex] = "ended"

\* Once the child has been announced, no thread gets stuck behind a mutex
\* that a cancelled thread took with it.
ReadyServerNeverWedges ==
  condition => \A t \in {"child_wait", "accept"} : ~Wedged(t)

\* No cancelled thread but the connection thread dies with the client slot
\* locked, and that one only when nobody is left who could want it.
SlotAbandonedLast ==
  client_ready_mutex = "client_connection" /\ pc["client_connection"] = "ended"
    => pc["accept"] \in {"none", "ended"}

\* A thread does not wait in pthread_cond_wait(3) for what has happened already,
\* unless whoever made it happen is about to signal, or was cancelled before.
WakeupsKept ==
  /\ pc["client_connection"] = "slot_wait" /\ client_fd # NoClient
       => \/ "client_connection" \in woken
          \/ pc["accept"] \in {"testcancel", "signal"}
          \/ "accept" \in cancelled
  /\ \A t \in {"child_wait", "accept"} :
       pc[t] = "ready_wait" /\ condition
         => t \in woken \/ pc["main"] = "broadcast"

\* Whom the main thread joins in a step.
Joined ==
  [ parent_join_child_wait |-> "child_wait",
    parent_join_accept     |-> "accept",
    join_accept            |-> "accept",
    join_client_connection |-> "client_connection",
    join_child_wait        |-> "child_wait" ]

\* Thread t of a live server waits for no mutex, signal, thread, process,
\* client or room in a pipe.
CanStep(t) ==
  /\ process = "running" /\ pc[t] \notin {"none", "ended", "done"}
  /\ pc[t] \in {"publish", "await_ready", "ready_wait"}
       => child_ready_mutex = Free
  /\ pc[t] \in {"slot_lock", "slot_wait"} => client_ready_mutex = Free
  /\ pc[t] \in {"ready_wait", "slot_wait"} => t \in woken \cup cancelled
  /\ pc[t] \in DOMAIN Joined => pc[Joined[pc[t]]] = "ended"
  /\ pc[t] \in {"reap", "waitpid"} => ChildEnded
  /\ pc[t] = "read_report" => reported \/ ReportEOF \/ "read" \in Faults
  /\ t \in cancelled
     \/ /\ pc[t] = "accept" => backlog # <<>>
        /\ pc[t] = "read" => Unread(client_fd) > 0 \/ ends[client_fd] = "closed"
        /\ pc[t] = "write"
             => \/ child_stdin_fd = "closed"
                \/ ~stdin_reader \/ stdin_pipe < PipeCapacity

\* Whenever the main thread joins a thread, that one has ended or waits for
\* nothing: each was cancelled in time and gets the mutex its wait needs.  It
\* is awaited without having been cancelled only while the child lives, and
\* one gets stuck only behind a thread that was cancelled before the
\* announcement.
JoinedCanMove ==
  process = "running" /\ pc["main"] \in DOMAIN Joined
    => LET t == Joined[pc["main"]]
       IN  \/ pc[t] = "ended" \/ CanStep(t)
           \/ pc["main"] = "parent_join_child_wait" /\ ~ChildEnded
           \/ ~condition /\ Wedged(t)

\* No thread waits for a signal that was missed, for a mutex whose owner has
\* died, or for the end of a thread that itself waits for ever.
NobodyWaitsInVain ==
  WakeupsKept /\ JoinedCanMove /\ ReadyServerNeverWedges /\ SlotAbandonedLast

\* A thread has a next step exactly when it waits for nothing of the list in
\* CanStep: at no step does the code miss a state it can find.
CanStepIsEnabled ==
  /\ CanStep("main") <=> ENABLED <<ThreadStep("main")>>_vars
  /\ CanStep("child_wait") <=> ENABLED <<ThreadStep("child_wait")>>_vars
  /\ CanStep("client_connection")
       <=> ENABLED <<ThreadStep("client_connection")>>_vars
  /\ CanStep("accept") <=> ENABLED <<ThreadStep("accept")>>_vars

-----------------------------------------------------------------------------
(* Liveness.                                                               *)

\* Chunk k has been written to the child's standard input.
Given(k) == \E i \in DOMAIN delivered : delivered[i] = k

\* Once a client's descriptor is in the slot, the next chunk it has sent is
\* forwarded: no wake-up is lost between the accept thread's unlock and signal
\* and the connection thread's wait, and a session passes on what there is
\* without waiting for more and does not end before.  Only another client in its
\* place, a full pipe, and the end of its reader or of the server excuse it.
HandoverIsServed ==
  \A c \in Clients, n \in 1..MaxChunks :
    client_fd = c /\ received[c] = n - 1 /\ sent[c] >= n
      ~> \/ Given(<<c, n>>)
         \/ client_fd \in Clients \ {c}
         \/ stdin_pipe = PipeCapacity
         \/ ~stdin_reader
         \/ process # "running"

\* A session, however long, keeps no other client waiting: once the child is
\* announced, everybody in the backlog gets into the slot or has the connection
\* closed, be it refused, dropped, or let go with the end of the server.
QueuedIsAnswered ==
  \A c \in Clients :
    InBacklog(c) /\ condition
      ~> client_fd = c \/ ~(InBacklog(c) \/ c \in fd_open)

\* When the child that was announced ends, so does the server, whatever its
\* threads are doing; also when it died before its program was even executed,
\* which looks to the parent like a successful start (server.c:935).
ServerFollowsChild ==
  condition /\ ChildEnded ~> process # "running"

-----------------------------------------------------------------------------
(* Statements of the repository that the code does not keep.               *)

\* CHANGELOG.md:20: "Only one client is now allowed to be connected to the
\* server at the same time. Extra clients will be rejected": past the accept
\* thread and short of a pending close there is at most one open connection.
OneClientConnected ==
  Cardinality(fd_open \ {accept_fd, closing_fd}) <= 1

\* server.c:820, "case of spurious wakeup -> try again": a client for which
\* the slot turned out to be empty is not disconnected unanswered.
EmptySlotIsTriedAgain ==
  [][/\ pc["accept"] = "close" /\ "accept" \notin cancelled
     /\ process' = "running"
       => accept_fd \in refused \/ accept_fd \in fd_open']_vars

\* README.md:32: "client connections are able to be closed and reopened
\* without influencing the original program": no client's hanging up ends the
\* server, and with it the stdin of a program that still reads it.
HangupDoesNotEndConsole ==
  process = "killed" => ~stdin_reader

\* server.c:666: the report of a child that could not start reaches the
\* parent, which returns USOCKIT_SERVER_RET_STATUS_UNKNOWN (server.c:949,955).
FailedStartIsReported ==
  pc["main"] = "reap" ~> process = "exited"

\* server.c:668, "this pipe is also opened with the close-on-exec flag, which
\* means that when the child successfully calls one of the exec(3)-family
\* functions, the parent will receive an EOF": a running child is announced.
RunningChildIsAnnounced ==
  pc["main"] = "read_report" /\ child = "running" ~> pc["main"] # "read_report"

=============================================================================
