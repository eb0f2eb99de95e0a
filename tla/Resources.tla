------------------------------ MODULE Resources ------------------------------
(***************************************************************************)
(* What the main threads of a server and of a client acquire before the    *)
(* program can run, one step after the other, and what they give back when *)
(* one of the steps fails or the program has ended: usockit_server(),      *)
(* usockit_server_setup_socket(), usockit_server_setup_threads() and       *)
(* usockit_server_setup_child() with the child it forks, usockit_client()  *)
(* and usockit_client_connect() with the two threads it creates.  Every    *)
(* error path of the code spells out its own list of what to give back, in *)
(* its own order, and then returns to callers that have lists of theirs.   *)
(***************************************************************************)
EXTENDS Naturals, Sequences

CONSTANT Faults   \* steps that may fail

VARIABLES
  program,    \* "server" or "client"
  build,      \* "pipe2", or "fcntl" where there is no pipe2(2)
  step,       \* index of the step to take next; 0 when giving back
  held,       \* what the main thread has acquired and not given back
  todo,       \* what it gives back, in this order
  child,      \* life of the child process
  child_fds,  \* the descriptors the child has
  child_todo  \* those it still has to close

vars == <<program, build, step, held, todo, child, child_fds, child_todo>>

-----------------------------------------------------------------------------
(* The server.  A step is named for the resource it acquires; main_pipe    *)
(* and reporting_pipe have two ends, and listen, close_on_exec and fork    *)
(* give nothing to hold.                                                   *)

SocketSteps == <<"socket_fd", "path", "listen">>

ThreadsSteps ==
  << "child_ready_info", "child_ready_mutex", "child_ready_cond",
     "client_ready_info", "client_ready_mutex", "client_ready_cond",
     "child_wait_arg", "child_pid_ptr", "client_connection_arg",
     "child_stdin_fd_ptr", "accept_arg",
     "child_wait_thread", "client_connection_thread", "accept_thread" >>

ChildSteps == <<"main_pipe", "reporting_pipe", "close_on_exec", "fork">>

ChildReady    == <<"child_ready_cond", "child_ready_mutex", "child_ready_info">>
ClientReady   == <<"client_ready_cond", "client_ready_mutex", "client_ready_info">>
ChildWaitArg  == <<"child_pid_ptr", "child_wait_arg">>
ConnectionArg == <<"child_stdin_fd_ptr", "client_connection_arg">>
Structures    == <<"accept_arg">> \o ConnectionArg \o ChildWaitArg
                   \o ClientReady \o ChildReady
MainPipe      == <<"main_write", "main_read">>
ReportingPipe == <<"reporting_write", "reporting_read">>

\* What each function gives back when a step of its own fails ...
SocketUndo ==
  [ socket_fd |-> <<>>,
    path      |-> <<"socket_fd">>,
    listen    |-> <<"path", "socket_fd">> ]

ThreadsUndo ==
  [ child_ready_info   |-> <<>>,
    child_ready_mutex  |-> <<"child_ready_info">>,
    child_ready_cond   |-> <<"child_ready_mutex", "child_ready_info">>,
    client_ready_info  |-> ChildReady,
    client_ready_mutex |-> <<"client_ready_info">> \o ChildReady,
    client_ready_cond  |-> <<"client_ready_mutex", "client_ready_info">>
                             \o ChildReady,
    child_wait_arg     |-> ClientReady \o ChildReady,
    child_pid_ptr      |-> <<"child_wait_arg">> \o ClientReady \o ChildReady,
    client_connection_arg |-> ChildWaitArg \o ClientReady \o ChildReady,
    child_stdin_fd_ptr    |-> <<"client_connection_arg">> \o ChildWaitArg
                                \o ClientReady \o ChildReady,
    accept_arg            |-> ConnectionArg \o ChildWaitArg \o ClientReady
                                \o ChildReady,
    child_wait_thread        |-> Structures,
    client_connection_thread |-> <<"child_wait_thread">> \o Structures,
    accept_thread            |-> <<"client_connection_thread",
                                   "child_wait_thread">> \o Structures ]

\* The first pipe forgotten when there is no second.
ChildUndoLeaking ==
  [ main_pipe      |-> <<>>,
    reporting_pipe |-> <<>>,
    close_on_exec  |-> ReportingPipe \o MainPipe,
    fork           |-> ReportingPipe \o MainPipe ]

ChildUndo ==
  [ main_pipe      |-> <<>>,
    reporting_pipe |-> MainPipe,
    close_on_exec  |-> ReportingPipe \o MainPipe,
    fork           |-> ReportingPipe \o MainPipe ]

\* ... and when what it calls has returned.
SocketEnd == <<"path", "socket_fd">>

\* The structures freed before the threads that use them have ended.
ThreadsEndUnjoined ==
  Structures
    \o <<"accept_thread", "client_connection_thread", "child_wait_thread">>

ThreadsEnd ==
  <<"accept_thread", "client_connection_thread", "child_wait_thread">>
    \o Structures

\* The unused end of the reporting pipe closed a second time.
ChildEndTwice(joins) ==
  <<"reporting_write", "main_read">> \o joins
    \o <<"reporting_write", "reporting_read", "main_write">>

\* After fork(2) the parent closes the ends it does not use, runs, and closes
\* the others.  usockit_server_parent() joins two of the threads if the child
\* was announced.
ChildEnd(joins) ==
  <<"reporting_write", "main_read">> \o joins
    \o <<"reporting_read", "main_write">>

-----------------------------------------------------------------------------
(* The client.                                                             *)

ClientSteps ==
  << "client_socket_fd", "result_dest", "result_mutex", "result_cond",
     "connect", "receiving_arg", "receiving_thread",
     "sending_arg", "sending_thread" >>

ResultDest == <<"result_cond", "result_mutex", "result_dest">>

ClientUndo ==
  [ client_socket_fd |-> <<>>,
    result_dest      |-> <<>>,
    result_mutex     |-> <<"result_dest">>,
    result_cond      |-> <<"result_mutex", "result_dest">>,
    connect          |-> ResultDest,
    receiving_arg    |-> ResultDest,
    receiving_thread |-> <<"receiving_arg">> \o ResultDest,
    sending_arg      |-> <<"receiving_thread">> \o ResultDest,
    sending_thread   |-> <<"sending_arg", "receiving_thread">> \o ResultDest ]

ClientEnd == <<"receiving_thread", "sending_thread">> \o ResultDest

\* The socket left to the end of the process.
ClientSocketKept == <<>>

\* usockit_client() closes the socket whatever usockit_client_connect() did.
ClientSocketEnd == <<"client_socket_fd">>

-----------------------------------------------------------------------------

Steps == [ server |-> SocketSteps \o ThreadsSteps \o ChildSteps,
           client |-> ClientSteps ]

Takes(s) ==
  CASE s = "main_pipe"      -> {"main_read", "main_write"}
    [] s = "reporting_pipe" -> {"reporting_read", "reporting_write"}
    [] s \in {"listen", "close_on_exec", "fork", "connect"} -> {}
    [] OTHER -> {s}

\* Everything given back when step s fails, by its function and its callers.
Unwind(s) ==
  CASE s \in DOMAIN SocketUndo  -> SocketUndo[s]
    [] s \in DOMAIN ThreadsUndo -> ThreadsUndo[s] \o SocketEnd
    [] s \in DOMAIN ChildUndo   -> ChildUndo[s] \o ThreadsEnd \o SocketEnd
    [] s = "client_socket_fd"   -> ClientUndo[s]
    [] OTHER                    -> ClientUndo[s] \o ClientSocketEnd

Threads == {"child_wait_thread", "client_connection_thread", "accept_thread",
            "receiving_thread", "sending_thread"}

\* The argument a client's thread copies and frees when it starts.
ArgOf == [receiving_thread |-> "receiving_arg", sending_thread |-> "sending_arg"]

Descriptors == {"socket_fd", "main_read", "main_write",
                "reporting_read", "reporting_write"}

Init ==
  /\ program \in {"server", "client"} /\ build \in {"pipe2", "fcntl"}
  /\ step = 1 /\ held = {} /\ todo = <<>>
  /\ child = "none" /\ child_fds = {} /\ child_todo = <<>>

Current == Steps[program][step]

Last == step = Len(Steps[program])

Acquire ==
  /\ step # 0 /\ ~Last
  /\ held' = held \cup Takes(Current)
  /\ step' = step + 1
  /\ UNCHANGED <<program, build, todo, child, child_fds, child_todo>>

\* A step fails.  A server that is built with pipe2(2) has nothing to do in
\* close_on_exec.
Fail ==
  /\ step # 0
  /\ Current \in Faults
  /\ Current = "close_on_exec" => build = "fcntl"
  /\ todo' = Unwind(Current)
  /\ step' = 0
  /\ UNCHANGED <<program, build, held, child, child_fds, child_todo>>

\* fork(2): the child gets a copy of every descriptor.
Fork ==
  /\ step # 0 /\ Last /\ program = "server"
  /\ \E joins \in {<<>>, <<"child_wait_thread", "accept_thread">>} :
       todo' = ChildEnd(joins) \o ThreadsEnd \o SocketEnd
  /\ step' = 0
  /\ child' = "closing"
  /\ child_fds' = held \cap Descriptors
  /\ child_todo' = <<"reporting_read", "main_write", "socket_fd">>
  /\ UNCHANGED <<program, build, held>>

\* Both threads of the client run.
Started ==
  /\ step # 0 /\ Last /\ program = "client"
  /\ held' = held \cup Takes(Current)
  /\ todo' = ClientEnd \o ClientSocketEnd
  /\ step' = 0
  /\ UNCHANGED <<program, build, child, child_fds, child_todo>>

\* free(3), pthread_mutex_destroy(3), pthread_cond_destroy(3), unlink(2),
\* close(2), or pthread_cancel(3) with pthread_join(3).
GiveBack ==
  /\ step = 0 /\ todo # <<>>
  /\ Head(todo) \in DOMAIN ArgOf => ArgOf[Head(todo)] \notin held
  /\ held' = held \ {Head(todo)}
  /\ todo' = Tail(todo)
  /\ UNCHANGED <<program, build, step, child, child_fds, child_todo>>

\* The first thing both routines of a client do, cancelled or not.
ThreadFreesArg ==
  /\ \E t \in DOMAIN ArgOf :
       /\ t \in held
       /\ ArgOf[t] \in held
       /\ held' = held \ {ArgOf[t]}
  /\ UNCHANGED <<program, build, step, todo, child, child_fds, child_todo>>

-----------------------------------------------------------------------------
(* The child: usockit_server_setup_child() and usockit_server_child().     *)

\* A child that keeps the end its own standard input is written to.
ChildClosesTwo ==
  /\ child = "closing" /\ child_todo # <<>>
  /\ child_fds' = child_fds \ ({Head(child_todo)} \ {"main_write"})
  /\ child_todo' = Tail(child_todo)
  /\ UNCHANGED <<program, build, step, held, todo, child>>

ChildCloses ==
  /\ child = "closing" /\ child_todo # <<>>
  /\ child_fds' = child_fds \ {Head(child_todo)}
  /\ child_todo' = Tail(child_todo)
  /\ UNCHANGED <<program, build, step, held, todo, child>>

\* dup2(2) of the pipe to standard input; the original is closed either way.
ChildDup ==
  /\ child = "closing" /\ child_todo = <<>>
  /\ \/ child' = "exec" /\ child_fds' = (child_fds \ {"main_read"}) \cup {"stdin"}
     \/ /\ "dup2" \in Faults
        /\ child' = "report"
        /\ child_fds' = child_fds \ {"main_read"}
  /\ UNCHANGED <<program, build, step, held, todo, child_todo>>

\* What execvp(3) closes: pipe2(2) opens both ends of the reporting pipe
\* close-on-exec; without it F_SETFD is given O_CLOEXEC, which is no flag of a
\* descriptor and has no effect.
ClosedByExec ==
  IF build = "pipe2" THEN {"reporting_read", "reporting_write"} ELSE {}

ChildExec ==
  /\ child = "exec"
  /\ \/ child' = "program" /\ child_fds' = child_fds \ ClosedByExec
     \/ "execve" \in Faults /\ child' = "report" /\ UNCHANGED child_fds
  /\ UNCHANGED <<program, build, step, held, todo, child_todo>>

ChildEnds ==
  /\ child \in {"report", "program"}
  /\ child' = "gone"
  /\ child_fds' = {}
  /\ UNCHANGED <<program, build, step, held, todo, child_todo>>

Next ==
  \/ Acquire \/ Fail \/ Fork \/ Started \/ GiveBack \/ ThreadFreesArg
  \/ ChildCloses \/ ChildDup \/ ChildExec \/ ChildEnds

Spec == Init /\ [][Next]_vars

-----------------------------------------------------------------------------
(* Type invariant.                                                         *)

Resources ==
  UNION UNION {{Takes(Steps[p][i]) : i \in DOMAIN Steps[p]} : p \in DOMAIN Steps}

TypeOK ==
  /\ program \in {"server", "client"} /\ build \in {"pipe2", "fcntl"}
  /\ step \in 0..Len(Steps[program])
  /\ held \subseteq Resources
  /\ todo \in Seq(Resources)
  /\ child \in {"none", "closing", "exec", "report", "program", "gone"}
  /\ child_fds \subseteq Descriptors \cup {"stdin"}
  /\ child_todo \in Seq(Descriptors)

-----------------------------------------------------------------------------
(* Safety.                                                                 *)

\* On whatever step the start fails, and at a regular end, everything that was
\* acquired has been given back.
NothingLeft == step = 0 /\ todo = <<>> => held = {}

\* Nothing is freed, destroyed, unlinked or closed that is not held, so nothing
\* twice.  Threads are left out: after a regular end two of them are joined a
\* second time, as ServerChild and Server have it.
NothingTwice ==
  step = 0 /\ todo # <<>> => Head(todo) \in held \cup Threads

\* What each resource is used with, or is a part of.
Needs ==
  [ path               |-> {"socket_fd"},
    child_ready_mutex  |-> {"child_ready_info"},
    child_ready_cond   |-> {"child_ready_info"},
    client_ready_mutex |-> {"client_ready_info"},
    client_ready_cond  |-> {"client_ready_info"},
    child_pid_ptr      |-> {"child_wait_arg"},
    child_stdin_fd_ptr |-> {"client_connection_arg"},
    child_wait_thread  |-> {"child_ready_mutex", "child_ready_cond",
                            "child_wait_arg", "child_pid_ptr"},
    client_connection_thread |-> {"client_ready_mutex", "client_ready_cond",
                                  "client_connection_arg", "child_stdin_fd_ptr"},
    accept_thread      |-> {"socket_fd", "child_ready_mutex", "child_ready_cond",
                            "client_ready_mutex", "client_ready_cond",
                            "accept_arg"},
    result_mutex       |-> {"result_dest"},
    result_cond        |-> {"result_dest"},
    receiving_thread   |-> {"client_socket_fd", "result_mutex", "result_cond"},
    sending_thread     |-> {"client_socket_fd", "result_mutex", "result_cond"} ]

\* No thread outlives a lock, a structure or a descriptor it uses, and no lock
\* the memory it is in.
NothingDangling ==
  \A r \in held \cap DOMAIN Needs : Needs[r] \subseteq held

\* The program gets its end of file, and the parent the end of the report:
\* the program has no copy of the end its standard input is written to, nor
\* anything else of the server's, and the parent reads the report with no
\* writing end of its own.  Only a program that was started by a server built
\* without pipe2(2) keeps a writing end of the report, which does not end then
\* before the program does (MCServer, server_fallback_pipe.cfg).
PipesEnd ==
  /\ child = "program" =>
       child_fds = IF build = "pipe2" THEN {"stdin"}
                                      ELSE {"stdin", "reporting_write"}
  /\ child # "none" /\ "main_read" \notin held => "reporting_write" \notin held

-----------------------------------------------------------------------------
(* The inductive invariant.  TLC checks it, ResourcesProofs proves it.     *)

\* Giving back q, in this order, disposes of exactly what is held: of nothing
\* else, of nothing twice but a thread, of no resource before what uses it,
\* and of everything but the arguments that running threads free themselves.
Disposes(q, H) ==
  /\ q \in Seq(Resources)
  /\ \A i \in DOMAIN q : q[i] \in H \cup Threads
  /\ \A i, j \in DOMAIN q : q[i] = q[j] => i = j \/ q[i] \in Threads
  /\ \A i \in DOMAIN q, u \in H \cap DOMAIN Needs :
       q[i] \in Needs[u] => \E j \in 1..(i - 1) : q[j] = u
  /\ \A i \in DOMAIN q, t \in H \cap DOMAIN ArgOf : q[i] # ArgOf[t]
  /\ \A r \in H : \/ \E i \in DOMAIN q : q[i] = r
                  \/ \E t \in H \cap DOMAIN ArgOf : ArgOf[t] = r

\* On the way up the list of the step to come is the right one, on the way
\* down what is left of the list is.
DisposalInv == Disposes(IF step = 0 THEN todo ELSE Unwind(Current), held)

\* On the way up everything of the steps before is held, but for what a thread
\* has freed, and nothing of the steps to come.
AcquiredInv ==
  step # 0 =>
    \A i \in DOMAIN Steps[program] : \A r \in Takes(Steps[program][i]) :
      IF i < step
        THEN \/ r \in held
             \/ \E t \in held \cap DOMAIN ArgOf : ArgOf[t] = r
        ELSE r \notin held

\* The child has what it still has to close and what it needs, and the parent
\* closes its own end of the report first.
ChildInv ==
  /\ child # "none" => step = 0
  /\ child # "none" /\ "reporting_write" \in held
       => todo # <<>> /\ Head(todo) = "reporting_write" /\ "main_read" \in held
  /\ child = "closing" =>
       /\ "reporting_write" \in child_fds
       /\ \A i \in DOMAIN child_todo : child_todo[i] # "reporting_write"
       /\ \A d \in child_fds \ {"main_read", "reporting_write"} :
            \E i \in DOMAIN child_todo : child_todo[i] = d
  /\ child = "exec" => child_fds = {"stdin", "reporting_write"}
  /\ child = "program" =>
       child_fds = {"stdin", "reporting_write"} \ ClosedByExec

IInv == TypeOK /\ NothingDangling /\ DisposalInv /\ AcquiredInv /\ ChildInv

=============================================================================
