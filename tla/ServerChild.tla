---------------------------- MODULE ServerChild ----------------------------
(***************************************************************************)
(* The child program and the threads that start, announce and watch it:    *)
(* usockit_server_setup_child(), usockit_server_parent() and               *)
(* usockit_server_child() on the main thread and in the forked child,      *)
(* usockit_server_thread_routine_child_wait(), and                         *)
(* usockit_server_wait_for_child_ready(), which the accept thread runs too.*)
(***************************************************************************)
EXTENDS ServerState

\* The child process is gone (a zombie or reaped).
ChildEnded == child \in {"exited", "failed"}

\* Where a thread goes on after usockit_server_wait_for_child_ready().
AfterReady == [child_wait |-> "waitpid", accept |-> "accept"]

-----------------------------------------------------------------------------
(* usockit_server_wait_for_child_ready(): no thread ever keeps             *)
(* child_ready_info->mutex across a step of this model except one that is  *)
(* cancelled inside pthread_cond_wait(3): the call reacquires the mutex    *)
(* before the thread ends, and no cleanup handler is pushed to unlock it.  *)

\* pthread_mutex_lock(3) and the first test of the condition.
LockReady(t) ==
  /\ Move(t, "await_ready", IF condition THEN AfterReady[t] ELSE "ready_wait")
  /\ child_ready_mutex = Free

\* pthread_cond_wait(3) returns, having reacquired the mutex ...
LeaveWait(t, next) ==
  /\ Goto(t, "ready_wait", next)
  /\ child_ready_mutex = Free
  /\ woken' = woken \ {t}
  /\ UNCHANGED <<cancelled, readyVars, slotVars, localVars, outerVars>>

\* ... after a signal, and the condition is retested,
WakeReady(t) ==
  /\ t \in woken
  /\ LeaveWait(t, IF condition THEN AfterReady[t] ELSE "ready_wait")

\* A defective wait: "if" where the code has "while".
SpuriousReadyUntested(t) == LeaveWait(t, AfterReady[t])

\* or without a signal; if the condition does not hold yet the thread just
\* waits again.
SpuriousReady(t) == condition /\ LeaveWait(t, AfterReady[t])

\* pthread_cond_wait(3) does not return: the thread ends, holding the mutex.
EndWaiting(t) ==
  /\ Goto(t, "ready_wait", "ended")
  /\ child_ready_mutex = Free
  /\ child_ready_mutex' = t
  /\ woken' = woken \ {t}
  /\ UNCHANGED <<cancelled, condition, slotVars, localVars, outerVars>>

\* A defective wait, which notices a cancellation only when it is signalled.
CancelReadyWoken(t) == t \in cancelled \cap woken /\ EndWaiting(t)

\* A cancelled thread ends inside pthread_cond_wait(3).
CancelReady(t) == t \in cancelled /\ EndWaiting(t)

-----------------------------------------------------------------------------
(* The child process.                                                      *)

\* usockit_server_child(): dup2(2) succeeds and execvp(3) does not return.
ChildExec ==
  /\ child = "forked"
  /\ child' = "running"
  /\ UNCHANGED <<innerVars, reported, stdin_reader, stdin_pipe, processVars,
                 socketVars, streamVars>>

\* dup2(2) or execvp(3) fails: the error goes into the reporting pipe.
ChildReportsError ==
  /\ Faults \cap {"dup2", "execve"} # {}
  /\ child = "forked"
  /\ child' = "reported"
  /\ reported' = TRUE
  /\ UNCHANGED <<innerVars, stdin_reader, stdin_pipe, processVars, socketVars,
                 streamVars>>

\* The process ends: exit(3) after a report, the end of the program, or a
\* signal before the program was even executed.
ChildEnds ==
  /\ \/ child = "reported" /\ child' = "failed"
     \/ child = "running" /\ child' = "exited"
     \/ /\ "kill_before_exec" \in Faults
        /\ child = "forked" /\ child' = "failed"
  /\ stdin_reader' = FALSE
  /\ stdin_pipe' = 0
  /\ UNCHANGED <<innerVars, reported, processVars, socketVars, streamVars>>

\* The program reads its standard input ...
ChildReadsStdin ==
  /\ child = "running"
  /\ stdin_reader
  /\ stdin_pipe > 0
  /\ stdin_pipe' = stdin_pipe - 1
  /\ UNCHANGED <<innerVars, child, reported, stdin_reader, processVars,
                 socketVars, streamVars>>

\* ... or closes it and goes on without.
ChildClosesStdin ==
  /\ child = "running"
  /\ stdin_reader
  /\ stdin_reader' = FALSE
  /\ stdin_pipe' = 0
  /\ UNCHANGED <<innerVars, child, reported, processVars, socketVars,
                 streamVars>>

-----------------------------------------------------------------------------
(* usockit_server_setup_child() and usockit_server_parent(), main thread.  *)

\* Both pipe(2) calls; a failure of the second closes the first again.
SetupPipes ==
  \/ Move("main", "pipe", "fork")
  \/ "pipe" \in Faults /\ Move("main", "pipe", "cancel_accept")

ForkFails == "fork" \in Faults /\ Move("main", "fork", "cancel_accept")

\* fork(2); the parent fills in *child_pid_ptr and *child_stdin_fd_ptr.
Fork ==
  /\ Goto("main", "fork", "read_report")
  /\ child' = "forked"
  /\ stdin_reader' = TRUE
  /\ child_stdin_fd' = "open"
  /\ UNCHANGED <<syncVars, slotVars, localVars, reported, stdin_pipe, process,
                 socketVars, streamVars>>

\* No write end of the reporting pipe is left: read(2) returns 0.
ReportEOF ==
  \/ ChildEnded
  \/ child = "running" /\ CloseOnExec

\* read(2) of the reporting pipe: a child_error, EOF, or a failure.
ReadReport ==
  \/ reported /\ Move("main", "read_report", "reap")
  \/ ~reported /\ ReportEOF /\ Move("main", "read_report", "publish")
  \/ "read" \in Faults /\ Move("main", "read_report", "close_pipes")

\* waitpid(2) of a child that reported an error.
Reap == ChildEnded /\ Move("main", "reap", "close_pipes")

\* condition = true under the mutex.
Publish ==
  /\ Goto("main", "publish", "broadcast")
  /\ child_ready_mutex = Free
  /\ condition' = TRUE
  /\ UNCHANGED <<cancelled, woken, child_ready_mutex, slotVars, localVars,
                 outerVars>>

WakeUp(T, next) ==
  /\ Goto("main", "broadcast", next)
  /\ woken' = woken \cup T
  /\ UNCHANGED <<cancelled, readyVars, slotVars, localVars, outerVars>>

ReadyWaiters == {t \in Threads : pc[t] = "ready_wait"}

\* A pthread_cond_signal(3) where the code broadcasts.
BroadcastToOne ==
  \E T \in SUBSET ReadyWaiters :
    /\ Cardinality(T) = 1 \/ ReadyWaiters = {}
    /\ WakeUp(T, "parent_join_child_wait")

\* A parent that returns without waiting for the child.
BroadcastAndReturn == WakeUp(ReadyWaiters, "close_pipes")

\* pthread_cond_broadcast(3), after the unlock.
Broadcast == WakeUp(ReadyWaiters, "parent_join_child_wait")

\* Back in usockit_server_setup_child(): close(2) of the write end of the
\* child's stdin, while the connection thread is still running.
ClosePipes ==
  /\ Goto("main", "close_pipes", "cancel_accept")
  /\ child_stdin_fd' = "closed"
  /\ UNCHANGED <<syncVars, slotVars, localVars, childVars, process, socketVars,
                 streamVars>>

\* usockit_server_thread_routine_child_wait(): waitpid(2) returns.  The main
\* thread never cancels this thread while it is here, it joins it first.
WaitPid == ChildEnded /\ Move("child_wait", "waitpid", "ended")

=============================================================================
