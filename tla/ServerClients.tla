--------------------------- MODULE ServerClients ---------------------------
(***************************************************************************)
(* The clients of a usockit server and the two threads that deal with      *)
(* them: usockit_server_thread_routine_accept() accepts connections and    *)
(* hands one over through client_ready_info or rejects it,                 *)
(* usockit_server_thread_routine_client_connection() forwards what the     *)
(* client sends to the standard input of the child program.                *)
(*                                                                         *)
(* A cancellation is acted upon at the thread's next cancellation point:   *)
(* a thread that is at one with a cancellation pending does nothing else.  *)
(* A write(2) that raises SIGPIPE ends the whole process: the server       *)
(* neither blocks nor ignores that signal.                                 *)
(***************************************************************************)
EXTENDS ServerState

Unread(c) == sent[c] - received[c]

InBacklog(c) == \E i \in DOMAIN backlog : backlog[i] = c

\* A read(2) in progress keeps the connection alive after a close(2) elsewhere.
ReadWaitsFor(c) ==
  /\ process = "running"
  /\ pc["client_connection"] = "read"
  /\ client_fd = c

-----------------------------------------------------------------------------
(* The client side of the socket.                                          *)

\* connect(2): the kernel queues one connection more than the backlog before
\* it makes further clients wait.
Connect(c) ==
  /\ process = "running"
  /\ ends[c] = "away"
  /\ Len(backlog) <= ListenBacklog
  /\ ends' = [ends EXCEPT ![c] = "connected"]
  /\ backlog' = Append(backlog, c)
  /\ UNCHANGED <<innerVars, programVars, fd_open, refused, streamVars>>

Send(c) ==
  /\ ends[c] = "connected"
  /\ InBacklog(c) \/ c \in fd_open \/ ReadWaitsFor(c)
  /\ sent[c] < MaxChunks
  /\ sent' = [sent EXCEPT ![c] = @ + 1]
  /\ UNCHANGED <<innerVars, programVars, socketVars, received, delivered>>

\* The client closes its end, whether or not it was accepted yet.
Hangup(c) ==
  /\ ends[c] = "connected"
  /\ ends' = [ends EXCEPT ![c] = "closed"]
  /\ UNCHANGED <<innerVars, programVars, backlog, fd_open, refused,
                 streamVars>>

-----------------------------------------------------------------------------
(* usockit_server_thread_routine_accept(), once the child is ready.        *)

\* The accept thread ends while the cleanup handler that closes its client
\* is pushed.
AcceptDiesClosing(from) ==
  /\ Goto("accept", from, "ended")
  /\ "accept" \in cancelled
  /\ CloseFd(accept_fd)
  /\ accept_fd' = NoClient
  /\ UNCHANGED <<syncVars, slotVars, closing_fd, buffer, programVars,
                 streamVars>>

\* accept(2).  A failure is reported and tried again: no change of state.
Accept ==
  /\ Goto("accept", "accept", "trylock")
  /\ "accept" \notin cancelled
  /\ backlog # <<>>
  /\ accept_fd' = Head(backlog)
  /\ fd_open' = fd_open \cup {Head(backlog)}
  /\ backlog' = Tail(backlog)
  /\ UNCHANGED <<syncVars, slotVars, closing_fd, buffer, programVars, ends,
                 refused, streamVars>>

AcceptCancelled == "accept" \in cancelled /\ Move("accept", "accept", "ended")

\* client_fd of client_ready_info is stored.
Store(next) ==
  /\ Goto("accept", "trylock", next)
  /\ client_fd' = accept_fd
  /\ UNCHANGED <<syncVars, client_ready_mutex, localVars, outerVars>>

\* A defective hand-over that stores the descriptor whoever holds the mutex.
InstallUnlocked == Store("testcancel")

\* A defective hand-over that waits for the mutex to get free.
InstallBlocking == client_ready_mutex = Free /\ Store("testcancel")

\* A defective order: the descriptor is stored before the mutex is tried.
InstallThenTry ==
  Store(IF client_ready_mutex = Free THEN "testcancel" ELSE "reject")

\* pthread_mutex_trylock(3): on success client_fd is stored and the mutex
\* unlocked again, with no cancellation point in between.
TryLock ==
  \/ client_ready_mutex = Free /\ Store("testcancel")
  \/ client_ready_mutex # Free /\ Move("accept", "trylock", "busy")

\* pthread_testcancel(3) between the hand-over and the signal.
TestCancel ==
  "accept" \notin cancelled /\ Move("accept", "testcancel", "signal")

\* The hand-over ends with the threads of T signalled.
HandedOn(T) ==
  /\ Goto("accept", "signal", "accept")
  /\ woken' = woken \cup T
  /\ accept_fd' = NoClient
  /\ UNCHANGED <<cancelled, readyVars, slotVars, closing_fd, buffer,
                 programVars, streamVars>>

SlotWaiters == {t \in {"client_connection"} : pc[t] = "slot_wait"}

\* A forgotten pthread_cond_signal(3).
SkipSignal == HandedOn({}) /\ UNCHANGED socketVars

\* A hand-over with do_cleanup left true: the handler closes the descriptor.
SignalClosing == HandedOn(SlotWaiters) /\ CloseFd(accept_fd)

\* pthread_cond_signal(3); do_cleanup is false, so the handler does not run.
Signal == HandedOn(SlotWaiters) /\ UNCHANGED socketVars

\* client_fd is read although another thread holds the mutex.  An int is
\* read in one piece: the value is the one before or after a racing store.
InspectSlot ==
  Move("accept", "busy", IF client_fd = NoClient THEN "drop" ELSE "reject")

\* The slot was empty: pthread_testcancel(3), then "continue" in a loop whose
\* condition is false, which leaves it with do_cleanup set.
Drop == "accept" \notin cancelled /\ Move("accept", "drop", "close")

\* write_all() of the rejection message to a client that is still there.
Reject ==
  /\ Goto("accept", "reject", "close")
  /\ "accept" \notin cancelled
  /\ ends[accept_fd] = "connected"
  /\ refused' = refused \cup {accept_fd}
  /\ UNCHANGED <<syncVars, slotVars, localVars, programVars, backlog, fd_open,
                 ends, streamVars>>

\* The client has already gone: SIGPIPE.
RejectKills ==
  /\ "accept" \notin cancelled
  /\ pc["accept"] = "reject"
  /\ ends[accept_fd] = "closed"
  /\ ProcessEnds("killed")
  /\ UNCHANGED <<innerVars, childVars, child_stdin_fd, ends, refused,
                 streamVars>>

\* pthread_cleanup_pop(1): close(2), itself a cancellation point.
AcceptClose ==
  /\ \/ /\ "accept" \in cancelled
        /\ Goto("accept", "close", "ended") /\ UNCHANGED socketVars
     \/ /\ "accept" \notin cancelled
        /\ Goto("accept", "close", "accept") /\ CloseFd(accept_fd)
  /\ accept_fd' = NoClient
  /\ UNCHANGED <<syncVars, slotVars, closing_fd, buffer, programVars,
                 streamVars>>

AcceptThread ==
  \/ Accept \/ AcceptCancelled \/ TryLock \/ TestCancel \/ Signal
  \/ InspectSlot \/ Drop \/ Reject \/ RejectKills \/ AcceptClose
  \/ \E from \in {"testcancel", "drop", "reject"} : AcceptDiesClosing(from)

-----------------------------------------------------------------------------
(* usockit_server_thread_routine_client_connection().                      *)

\* pthread_mutex_lock(3), not a cancellation point.
LockSlot ==
  /\ Goto("client_connection", "slot_lock", "slot_check")
  /\ client_ready_mutex = Free
  /\ client_ready_mutex' = "client_connection"
  /\ UNCHANGED <<syncVars, client_fd, localVars, outerVars>>

\* Step "read" is in read(2): called with a closed descriptor it fails at once.
NextRead == IF client_fd \in fd_open THEN "read" ELSE "cleanup"

\* while(client_fd == -1): wait, which unlocks the mutex, or start serving.
CheckSlot ==
  \/ /\ client_fd = NoClient
     /\ Goto("client_connection", "slot_check", "slot_wait")
     /\ client_ready_mutex' = Free
     /\ UNCHANGED <<syncVars, client_fd, localVars, outerVars>>
  \/ /\ client_fd # NoClient
     /\ Move("client_connection", "slot_check", NextRead)

\* pthread_cond_wait(3) returns, with the mutex locked again, ...
LeaveSlotWait(next) ==
  /\ Goto("client_connection", "slot_wait", next)
  /\ client_ready_mutex = Free
  /\ client_ready_mutex' = "client_connection"
  /\ woken' = woken \ {"client_connection"}
  /\ UNCHANGED <<cancelled, readyVars, client_fd, localVars, outerVars>>

\* because it was signalled, or spuriously.  A pending cancellation may lose
\* to a signal, but ends a wait that nobody signalled.
WakeSlot == "client_connection" \in woken /\ LeaveSlotWait("slot_check")

SpuriousSlot ==
  /\ "client_connection" \notin woken \cup cancelled
  /\ LeaveSlotWait("slot_check")

\* Cancelled while waiting: the mutex is never unlocked.
CancelSlotWait == "client_connection" \in cancelled /\ LeaveSlotWait("ended")

\* read(2) of at most one buffer from the current client, which may arrive
\* after the descriptor was closed.
ReadChunk ==
  /\ Goto("client_connection", "read", "write")
  /\ "client_connection" \notin cancelled
  /\ Unread(client_fd) > 0
  /\ received' = [received EXCEPT ![client_fd] = @ + 1]
  /\ buffer' = <<client_fd, received[client_fd] + 1>>
  /\ UNCHANGED <<syncVars, slotVars, accept_fd, closing_fd, programVars,
                 socketVars, sent, delivered>>

\* A session that ends when its client has hung up, whatever is still unread.
ReadEndsAtHangup ==
  /\ Move("client_connection", "read", "cleanup")
  /\ "client_connection" \notin cancelled
  /\ ends[client_fd] = "closed"

\* read(2) returns 0: the loop ends, as it does when read(2) fails.
ReadEnds ==
  /\ Move("client_connection", "read", "cleanup")
  /\ "client_connection" \notin cancelled
  /\ Unread(client_fd) = 0
  /\ ends[client_fd] = "closed"

\* The buffer goes into the child's stdin.
Put(next) ==
  /\ Goto("client_connection", "write", next)
  /\ "client_connection" \notin cancelled
  /\ child_stdin_fd = "open"
  /\ stdin_reader
  /\ stdin_pipe < PipeCapacity
  /\ stdin_pipe' = stdin_pipe + 1
  /\ delivered' = Append(delivered, buffer)
  /\ UNCHANGED <<syncVars, slotVars, accept_fd, closing_fd, child, reported,
                 stdin_reader, processVars, socketVars, sent, received>>

\* A write_all() that starts over after a write(2) that did succeed.
WriteChunkAgain == Put("write") /\ UNCHANGED buffer

\* write_all() of the buffer.  A chunk is smaller than PIPE_BUF, so a pipe
\* takes all of it or makes the writer wait.
WriteChunk == Put(NextRead) /\ buffer' = NoChunk

\* The main thread has closed the write end: write(2) fails, the loop ends.
WriteFails ==
  /\ Goto("client_connection", "write", "cleanup")
  /\ "client_connection" \notin cancelled
  /\ child_stdin_fd = "closed"
  /\ buffer' = NoChunk
  /\ UNCHANGED <<syncVars, slotVars, accept_fd, closing_fd, outerVars>>

\* The child has closed its stdin or ended: SIGPIPE, also for a write(2) that
\* was waiting for room when the main thread closed the descriptor.
WriteKills ==
  /\ "client_connection" \notin cancelled
  /\ pc["client_connection"] = "write"
  /\ child_stdin_fd # "unset"
  /\ ~stdin_reader
  /\ ProcessEnds("killed")
  /\ UNCHANGED <<innerVars, childVars, child_stdin_fd, ends, refused,
                 streamVars>>

\* pthread_cleanup_pop(1): the slot is emptied and the mutex unlocked ...
ReleaseSlot ==
  /\ Goto("client_connection", "cleanup", "close")
  /\ closing_fd' = client_fd
  /\ client_fd' = NoClient
  /\ client_ready_mutex' = Free
  /\ UNCHANGED <<syncVars, accept_fd, buffer, outerVars>>

\* ... and the descriptor closed; close(2) is a cancellation point.
CloseClient ==
  /\ \/ /\ "client_connection" \in cancelled
        /\ Goto("client_connection", "close", "ended") /\ UNCHANGED socketVars
     \/ /\ "client_connection" \notin cancelled
        /\ Goto("client_connection", "close", "slot_lock")
        /\ CloseFd(closing_fd)
  /\ closing_fd' = NoClient
  /\ UNCHANGED <<syncVars, slotVars, accept_fd, buffer, programVars,
                 streamVars>>

\* Cancelled in read(2) or write(2): the cleanup routine runs as a handler.
CancelService(from) ==
  /\ Goto("client_connection", from, "ended")
  /\ "client_connection" \in cancelled
  /\ CloseFd(client_fd)
  /\ client_fd' = NoClient
  /\ client_ready_mutex' = Free
  /\ buffer' = NoChunk
  /\ UNCHANGED <<syncVars, accept_fd, closing_fd, programVars, streamVars>>

\* Everything the thread does without waking up spuriously.
ConnectionThread ==
  \/ LockSlot \/ CheckSlot \/ WakeSlot \/ CancelSlotWait
  \/ ReadChunk \/ ReadEnds \/ WriteChunk \/ WriteFails \/ WriteKills
  \/ ReleaseSlot \/ CloseClient
  \/ \E from \in {"read", "write"} : CancelService(from)

=============================================================================
