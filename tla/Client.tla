------------------------------- MODULE Client -------------------------------
(***************************************************************************)
(* A usockit client (src/client.c and src/client/): the main thread of     *)
(* usockit_client_connect(), the receiving thread, which waits for the     *)
(* server's answer, and the sending thread, which copies standard input to *)
(* the socket.  Each of the two ends with a result; the first one to store *)
(* it in *threads_result_dest_ptr decides what the client reports, but for *)
(* a rejection, which replaces a failure to write to the closed socket.    *)
(*                                                                         *)
(* The server is the environment: it may serve, refuse or drop the client, *)
(* and go away at any time (ServerClients has its side of this).           *)
(***************************************************************************)
EXTENDS Naturals

CONSTANTS
  Input,         \* units of data on the client's standard input before its end
  BufferSize,    \* units one read(2) of it returns at most
  SocketBuffer,  \* units the socket takes before write(2) blocks
  Faults         \* which of PossibleFaults may happen

PossibleFaults == {"connect", "create_receiving", "create_sending", "stdin"}

ASSUME ClientAssumption ==
  /\ Input \in Nat
  /\ BufferSize \in Nat \ {0}
  /\ SocketBuffer \in Nat \ {0}
  /\ Faults \subseteq PossibleFaults

VARIABLES
  pc,              \* next step of each thread
  cancelled,       \* threads with a pending pthread_cancel(3)
  woken,           \* was the main thread's pthread_cond_wait(3) signalled?
  mutex,           \* threads_result_dest_ptr->mutex is held by the main thread
  result,          \* threads_result_dest_ptr->result
  local_result,    \* local variable result of each of the two other threads
  threads_result,  \* the main thread's copy of the result
  status,          \* of the process: running, aborted, or the value returned
  left,            \* units of standard input not yet read
  buffer,          \* units read and not yet written by the sending thread
  service,         \* what the server does with the connection
  hung_up,         \* has the server closed its end?
  reset,           \* is there an ECONNRESET to report on the socket?
  inbox,           \* what the server has sent and the client has not read
  unread,          \* units sent that the server has not read
  taken            \* units the server has read

syncVars   == <<mutex, woken, result>>
localVars  == <<local_result, threads_result>>
inputVars  == <<left, buffer>>
socketVars == <<service, hung_up, reset, inbox, unread, taken>>
dataVars   == <<inputVars, socketVars>>

\* Frames of the actions.
stateVars  == <<cancelled, syncVars, localVars, status>>
clientVars == <<pc, stateVars, inputVars>>

vars == <<pc, stateVars, dataVars>>

-----------------------------------------------------------------------------

Threads == {"main", "receiving", "sending"}
Workers == {"receiving", "sending"}

MainSteps ==
  { "connect", "create_receiving", "create_sending", "lock", "check", "wait",
    "copy", "cancel_receiving", "cancel_sending", "unlock", "join_receiving",
    "join_sending", "abandon", "abandon_join", "destroy", "return", "done" }
ReceivingSteps == {"none", "read", "publish", "signal", "ended"}
SendingSteps   == {"none", "read", "write", "publish", "signal", "ended"}
Steps          == MainSteps \cup ReceivingSteps \cup SendingSteps

\* struct usockit_client_threads_result, by origin.
SendingResults   == {"eof", "EPIPE", "ECONNRESET", "stdin_failure"}
ReceivingResults == {"refusal", "read_failure"}
NoResult         == "none"
Results          == SendingResults \cup ReceivingResults \cup {NoResult}

\* enum usockit_client_ret_status
RetStatuses == {"SUCCESS_EOF", "SUCCESS_FUCK_OFF", "UNKNOWN"}

Services == {"absent", "queued", "serving", "refused"}

Init ==
  /\ pc = [t \in Threads |-> IF t = "main" THEN "connect" ELSE "none"]
  /\ cancelled = {} /\ woken = FALSE /\ mutex = FALSE /\ result = NoResult
  /\ local_result = [t \in Workers |-> NoResult] /\ threads_result = NoResult
  /\ status = "running" /\ left = Input /\ buffer = 0
  /\ service = "absent" /\ hung_up = FALSE /\ reset = FALSE
  /\ inbox = "empty" /\ unread = 0 /\ taken = 0

Goto(t, from, to) ==
  /\ status = "running"
  /\ pc[t] = from
  /\ pc' = [pc EXCEPT ![t] = to]

\* It does, and changes nothing else.
Move(t, from, to) ==
  /\ Goto(t, from, to)
  /\ UNCHANGED <<stateVars, dataVars>>

-----------------------------------------------------------------------------
(* The main thread: usockit_client() and usockit_client_connect().         *)

\* connect(2); the mutex and the condition variable exist since before.
Connect ==
  /\ \/ Goto("main", "connect", "create_receiving") /\ service' = "queued"
     \/ /\ "connect" \in Faults
        /\ Goto("main", "connect", "destroy")
        /\ UNCHANGED service
  /\ UNCHANGED <<stateVars, inputVars, hung_up, reset,
                 inbox, unread, taken>>

\* usockit_client_receiving_thread_create() and ..._sending_thread_create(): an
\* allocation and a pthread_create(3); on failure what exists is undone.
CreateThread(t, from, next, onFailure) ==
  /\ status = "running"
  /\ pc["main"] = from
  /\ \/ pc' = [pc EXCEPT !["main"] = next, ![t] = "read"]
     \/ from \in Faults /\ pc' = [pc EXCEPT !["main"] = onFailure]
  /\ UNCHANGED <<stateVars, dataVars>>

CreateThreads ==
  \/ CreateThread("receiving", "create_receiving", "create_sending", "destroy")
  \/ CreateThread("sending", "create_sending", "lock", "abandon")

\* pthread_mutex_lock(3).
Lock ==
  /\ Goto("main", "lock", "check")
  /\ ~mutex
  /\ mutex' = TRUE
  /\ UNCHANGED <<cancelled, woken, result, localVars, status, dataVars>>

\* while(origin == NONE): wait, which unlocks the mutex.
Check ==
  /\ \/ result = NoResult /\ Goto("main", "check", "wait") /\ mutex' = FALSE
     \/ result # NoResult /\ Goto("main", "check", "copy") /\ UNCHANGED mutex
  /\ UNCHANGED <<cancelled, woken, result, localVars, status, dataVars>>

\* pthread_cond_wait(3) returns with the mutex ...
LeaveWait ==
  /\ Goto("main", "wait", "check")
  /\ ~mutex
  /\ mutex' = TRUE
  /\ woken' = FALSE
  /\ UNCHANGED <<cancelled, result, localVars, status, dataVars>>

\* ... signalled or spuriously.
Wake == woken /\ LeaveWait

SpuriousWake == ~woken /\ LeaveWait

CopyResult ==
  /\ Goto("main", "copy", "cancel_receiving")
  /\ threads_result' = result
  /\ UNCHANGED <<cancelled, syncVars, local_result, status, dataVars>>

Cancel(t, from, next) ==
  /\ Goto("main", from, next)
  /\ cancelled' = cancelled \cup {t}
  /\ UNCHANGED <<syncVars, localVars, status, dataVars>>

Join(t, from, next) == pc[t] = "ended" /\ Move("main", from, next)

Unlock(from, next) ==
  /\ Goto("main", from, next)
  /\ mutex' = FALSE
  /\ UNCHANGED <<cancelled, woken, result, localVars, status, dataVars>>

\* The sending thread could not be created: there is only the first to end.
Abandon ==
  \/ Cancel("receiving", "abandon", "abandon_join")
  \/ Join("receiving", "abandon_join", "destroy")

\* A defective order: the mutex is unlocked after the threads were joined.
EndThreadsUnlockingLast ==
  \/ Cancel("receiving", "cancel_receiving", "cancel_sending")
  \/ Cancel("sending", "cancel_sending", "join_receiving")
  \/ Join("receiving", "join_receiving", "join_sending")
  \/ Join("sending", "join_sending", "unlock")
  \/ Unlock("unlock", "destroy") \/ Abandon

\* A forgotten join of the sending thread.
EndThreadsUnjoined ==
  \/ Cancel("receiving", "cancel_receiving", "cancel_sending")
  \/ Cancel("sending", "cancel_sending", "unlock")
  \/ Unlock("unlock", "join_receiving")
  \/ Join("receiving", "join_receiving", "destroy") \/ Abandon

\* Both threads are cancelled with the mutex held, and joined without it.
EndThreads ==
  \/ Cancel("receiving", "cancel_receiving", "cancel_sending")
  \/ Cancel("sending", "cancel_sending", "unlock")
  \/ Unlock("unlock", "join_receiving")
  \/ Join("receiving", "join_receiving", "join_sending")
  \/ Join("sending", "join_sending", "destroy") \/ Abandon

Destroy == Move("main", "destroy", "return")

\* The switch on the origin; a client that never got a result has failed
\* before its threads were both running.
RetStatus(r) ==
  CASE r = "eof"     -> "SUCCESS_EOF"
    [] r = "refusal" -> "SUCCESS_FUCK_OFF"
    [] OTHER         -> "UNKNOWN"

Return ==
  /\ Goto("main", "return", "done")
  /\ status' = RetStatus(threads_result)
  /\ UNCHANGED <<cancelled, syncVars, localVars, dataVars>>

MainThread ==
  \/ Connect \/ CreateThreads \/ Lock \/ Check \/ Wake \/ CopyResult
  \/ EndThreads \/ Destroy \/ Return

-----------------------------------------------------------------------------
(* Both other threads end by storing their result and signalling.  Between *)
(* the lock and the unlock there is no cancellation point.                 *)

\* A write(2) that is not interrupted.
CancelledInRead(t) == t \in cancelled /\ Move(t, "read", "ended")

\* The end of a thread that is cancelled in read(2) or write(2).
Cancelled(t) ==
  /\ t \in cancelled
  /\ \E from \in {"read", "write"} : Move(t, from, "ended")

\* Under the mutex.
Store(t, r) ==
  /\ Goto(t, "publish", "signal")
  /\ ~mutex
  /\ result' = r
  /\ UNCHANGED <<cancelled, mutex, woken, localVars, status, dataVars>>

\* A dispatch that stores a result whether or not there is one already.
DispatchLast == Store("sending", local_result["sending"])

\* usockit_client_threads_dispatch_result(): the first result is kept.
Dispatch ==
  Store("sending",
        IF result = NoResult THEN local_result["sending"] ELSE result)

\* The receiving thread's own version: a rejection replaces an EPIPE.
DispatchOverriding ==
  LET overrides == local_result["receiving"] = "refusal" /\ result = "EPIPE"
  IN  Store("receiving", IF result = NoResult \/ overrides
                           THEN local_result["receiving"] ELSE result)

\* A result stored without a signal.
SkipSignal(t) == Move(t, "signal", "ended")

\* pthread_cond_signal(3), after the unlock; then the thread returns.
Signal(t) ==
  /\ Goto(t, "signal", "ended")
  /\ woken' = (woken \/ pc["main"] = "wait")
  /\ UNCHANGED <<cancelled, mutex, result, localVars, status, dataVars>>

Conclude(t, from, r) ==
  /\ Goto(t, from, "publish")
  /\ t \notin cancelled
  /\ local_result' = [local_result EXCEPT ![t] = r]

-----------------------------------------------------------------------------
(* The receiving thread.                                                   *)

\* read(2) in the receiving thread returns something.
Received(r, inbox_left, reset_left) ==
  /\ Conclude("receiving", "read", r)
  /\ inbox' = inbox_left
  /\ reset' = reset_left
  /\ UNCHANGED <<cancelled, syncVars, threads_result, status, inputVars,
                 service, hung_up, unread, taken>>

\* A failure to read taken for a rejection.
ReceiveAnything ==
  (inbox = "refusal" \/ reset) /\ Received("refusal", "empty", reset)

\* It is the rejection message, or a failure.
Receive ==
  \/ inbox = "refusal" /\ Received("refusal", "empty", reset)
  \/ inbox = "empty" /\ reset /\ Received("read_failure", "empty", FALSE)

\* read(2) returns 0: abort(3).
ReceiveEOF ==
  /\ status = "running"
  /\ pc["receiving"] = "read"
  /\ "receiving" \notin cancelled
  /\ inbox = "empty" /\ ~reset /\ hung_up
  /\ status' = "aborted"
  /\ UNCHANGED <<pc, cancelled, syncVars, localVars, dataVars>>

ReceivingThread ==
  Receive \/ ReceiveEOF \/ DispatchOverriding
  \/ Signal("receiving") \/ Cancelled("receiving")

-----------------------------------------------------------------------------
(* The sending thread.                                                     *)

\* read(2) of standard input returns n units.
TakeInput(n) ==
  /\ Goto("sending", "read", "write")
  /\ "sending" \notin cancelled
  /\ buffer' = n
  /\ left' = left - n
  /\ UNCHANGED <<stateVars, socketVars>>

\* Data written although read(2) returned none.
ReadStdinPastEnd == TakeInput(1)

\* They are some of what is there, a buffer at most.
ReadStdin == \E n \in 1..BufferSize : n <= left /\ TakeInput(n)

\* read(2) returns 0 or fails.
StdinEnds ==
  /\ \/ left = 0 /\ Conclude("sending", "read", "eof")
     \/ "stdin" \in Faults /\ Conclude("sending", "read", "stdin_failure")
  /\ UNCHANGED <<cancelled, syncVars, threads_result, status, dataVars>>

\* write(2) of n units, as many as there is room for; others are dropped.
Write(n, dropped) ==
  /\ n <= buffer /\ unread + n <= SocketBuffer
  /\ "sending" \notin cancelled
  /\ ~hung_up
  /\ unread' = unread + n
  /\ buffer' = buffer - n - dropped
  /\ Goto("sending", "write", IF n + dropped = buffer THEN "read" ELSE "write")
  /\ UNCHANGED <<stateVars, left, service, hung_up, reset, inbox, taken>>

\* A write(2) whose count is not looked at.
WriteOnce == \E n \in 1..SocketBuffer : Write(n, buffer - n)

\* write_all(): the loop goes on with the rest of the buffer until nothing is
\* left of it.
WriteSocket == \E n \in 1..SocketBuffer : Write(n, 0)

\* The server has closed the connection: EPIPE, SIGPIPE being blocked, or
\* the ECONNRESET that a write(2) already waiting for room reports.  What is
\* left of the buffer is lost.
WriteFails ==
  /\ hung_up
  /\ \/ Conclude("sending", "write", "EPIPE") /\ UNCHANGED reset
     \/ reset /\ Conclude("sending", "write", "ECONNRESET") /\ reset' = FALSE
  /\ UNCHANGED <<cancelled, syncVars, threads_result, status, inputVars,
                 service, hung_up, inbox, unread, taken>>

SendingThread ==
  ReadStdin \/ StdinEnds \/ WriteSocket \/ WriteFails \/ Dispatch
  \/ Signal("sending") \/ Cancelled("sending")

-----------------------------------------------------------------------------
(* The server's side of the connection.                                    *)

\* The client is handed over ...
Serve ==
  /\ service = "queued" /\ ~hung_up
  /\ service' = "serving"
  /\ UNCHANGED <<clientVars, hung_up,
                 reset, inbox, unread, taken>>

\* ... or refused, in which case the server reads nothing of what it sent.
Refuse ==
  /\ service = "queued" /\ ~hung_up
  /\ service' = "refused"
  /\ inbox' = IF status = "running" THEN "refusal" ELSE inbox
  /\ UNCHANGED <<clientVars, hung_up,
                 reset, unread, taken>>

\* Some of what is in the socket, not necessarily as it was written.
ServerReads ==
  /\ service = "serving" /\ ~hung_up
  /\ \E n \in 1..SocketBuffer :
       /\ n <= unread
       /\ unread' = unread - n
       /\ taken' = taken + n
  /\ UNCHANGED <<clientVars, service,
                 hung_up, reset, inbox>>

\* The server closes its end: after a rejection, of a dropped client, at the
\* end of a session (its last read(2) may still return data) or of the server.
\* Data it has not read resets the client, and so does a listening socket that
\* is closed with the client in its backlog.
ServerHangsUp ==
  /\ service # "absent" /\ ~hung_up
  /\ hung_up' = TRUE
  /\ \E n \in 0..SocketBuffer, in_backlog \in BOOLEAN :
       /\ n <= unread
       /\ n > 0 => service = "serving"
       /\ in_backlog => service = "queued"
       /\ unread' = unread - n
       /\ taken' = taken + n
       /\ reset' = (n < unread \/ in_backlog)
  /\ UNCHANGED <<clientVars, service,
                 inbox>>

Server == Serve \/ Refuse \/ ServerReads \/ ServerHangsUp

-----------------------------------------------------------------------------

Next ==
  \/ MainThread \/ SpuriousWake
  \/ ReceivingThread \/ SendingThread
  \/ Server

Spec == Init /\ [][Next]_vars

\* The kernel schedules every thread of the client, and a mutex that gets free
\* again and again is not withheld for ever from a thread that waits for it
\* (the main thread could take it back at every spurious wake-up).  Nothing is
\* assumed of the server or of standard input.
Fairness ==
  /\ WF_vars(MainThread)
  /\ WF_vars(ReceivingThread)
  /\ WF_vars(SendingThread)
  /\ SF_vars(DispatchOverriding)
  /\ SF_vars(Dispatch)

FairSpec == Spec /\ Fairness

-----------------------------------------------------------------------------
(* Type invariant.                                                         *)

ThreadType ==
  /\ pc \in [Threads -> Steps]
  /\ pc["main"] \in MainSteps /\ pc["receiving"] \in ReceivingSteps
  /\ pc["sending"] \in SendingSteps

SyncType ==
  /\ cancelled \subseteq Workers
  /\ woken \in BOOLEAN /\ mutex \in BOOLEAN

ResultType ==
  /\ result \in Results /\ threads_result \in Results
  /\ local_result \in [Workers -> Results]
  /\ status \in RetStatuses \cup {"running", "aborted"}

SocketType ==
  /\ service \in Services /\ hung_up \in BOOLEAN /\ reset \in BOOLEAN
  /\ inbox \in {"empty", "refusal"}

StreamType ==
  /\ left \in 0..Input /\ buffer \in 0..BufferSize
  /\ unread \in 0..SocketBuffer /\ taken \in 0..Input

TypeOK == ThreadType /\ SyncType /\ ResultType /\ SocketType /\ StreamType

-----------------------------------------------------------------------------
(* Safety.                                                                 *)

\* When the mutex and the condition variable are destroyed and freed, neither
\* thread is left to lock or signal them, on the failure path either.
NoUseAfterFree ==
  pc["main"] \in {"return", "done"} =>
    \A t \in Workers : pc[t] \in {"none", "ended"}

\* The first result decides: it is replaced only by a rejection, and only if
\* it says that the server had closed the connection.
FirstResultWins ==
  [][result' # result =>
       \/ result = NoResult
       \/ result = "EPIPE" /\ result' = "refusal"]_vars

\* A client that reports the end of its input has put all of it into the
\* socket, nothing twice and nothing left out, however the writes were split
\* up, whatever the server did and whichever thread was faster.
EofMeansAllWritten ==
  status = "SUCCESS_EOF" => left = 0 /\ unread + taken = Input

\* A client that reports a rejection was refused, and none of its data was
\* forwarded.
RefusalIsTrue ==
  status = "SUCCESS_FUCK_OFF" => service = "refused" /\ taken = 0

-----------------------------------------------------------------------------
(* Waiting.                                                                *)

\* The thread that main joins at each of these steps.
Joined == [ join_receiving |-> "receiving", join_sending |-> "sending",
            abandon_join   |-> "receiving" ]

\* Thread t of a running client waits for no mutex, signal, thread, input,
\* answer or room in the socket.
CanStep(t) ==
  /\ status = "running" /\ pc[t] \notin {"none", "ended", "done"}
  /\ pc[t] \in {"lock", "wait", "publish"} => ~mutex
  /\ pc[t] = "wait" => woken
  /\ pc[t] \in DOMAIN Joined => pc[Joined[pc[t]]] = "ended"
  /\ t \in cancelled
     \/ /\ pc[t] = "read" /\ t = "receiving"
             => inbox = "refusal" \/ reset \/ hung_up
        /\ pc[t] = "write" => hung_up \/ unread < SocketBuffer

\* The main thread, asleep or about to sleep, misses no result; it alone keeps
\* the mutex, and only over steps that wait for nothing; and it joins a thread
\* that has ended or can go on, whatever that one was blocked on before.
NobodyWaitsInVain ==
  status = "running" =>
    /\ pc["main"] = "wait" /\ result # NoResult
         => woken \/ \E t \in Workers : pc[t] = "signal"
    /\ mutex => CanStep("main")
    /\ pc["main"] \in DOMAIN Joined
         => LET t == Joined[pc["main"]] IN pc[t] = "ended" \/ CanStep(t)

\* A thread has a next step exactly when it waits for nothing of the list in
\* CanStep, and the receiving thread stores its result as soon as the mutex is
\* free.
CanStepIsEnabled ==
  /\ CanStep("main") <=> ENABLED <<MainThread>>_vars
  /\ CanStep("receiving") <=> ENABLED <<ReceivingThread>>_vars
  /\ CanStep("sending") <=> ENABLED <<SendingThread>>_vars
  /\ CanStep("receiving") /\ pc["receiving"] = "publish"
       <=> ENABLED <<DispatchOverriding>>_vars

-----------------------------------------------------------------------------
(* Liveness.                                                               *)

\* Once a thread has stored a result the client ends, although the other
\* thread may be blocked on standard input, the socket or the mutex.
ResultEndsClient == result # NoResult ~> status # "running"

\* A client notices that the server has gone even while its standard input
\* has nothing for it to send.
HangupEndsClient == hung_up ~> status # "running"

=============================================================================
