---------------------------- MODULE ClientProofs ----------------------------
(***************************************************************************)
(* Proofs about Client, for any amount of input, any room in the socket    *)
(* and any set of faults.                                                  *)
(***************************************************************************)
EXTENDS Client, TLAPS

\* What the actions are put together from.
USE DEF Goto, Move, LeaveWait, Store, Received, TakeInput, Write, Abandon,
        syncVars, localVars, inputVars, socketVars, dataVars, stateVars,
        clientVars

Gone(t) == pc[t] \in {"none", "ended"}

\* The main thread gets past a join only when the joined thread is gone, and
\* has what is not joined never started.
JoinInv ==
  /\ pc["main"] \in {"connect", "create_receiving"} => pc["receiving"] = "none"
  /\ pc["main"] \in {"connect", "create_receiving", "create_sending",
                     "abandon", "abandon_join"} => pc["sending"] = "none"
  /\ pc["main"] \in {"join_sending", "destroy", "return", "done"}
       => Gone("receiving")
  /\ pc["main"] \in {"destroy", "return", "done"} => Gone("sending")

\* No unit of standard input is counted twice, and none is lost before the
\* sending thread has a result; it holds none except while it writes.
StreamInv ==
  /\ left + buffer + unread + taken <= Input
  /\ pc["sending"] \in {"none", "read", "write"}
       => left + buffer + unread + taken = Input
  /\ pc["sending"] \in {"none", "read"} => buffer = 0

\* What the server has done with the connection.
ServiceInv ==
  /\ pc["main"] = "connect" => service = "absent"
  /\ taken > 0 => service = "serving"
  /\ inbox = "refusal" => service = "refused"

\* A result comes from the thread it names, and is true.
ResultInv ==
  /\ local_result["receiving"] \in ReceivingResults \cup {NoResult}
  /\ local_result["sending"] \in SendingResults \cup {NoResult}
  /\ \A r \in {result, threads_result} :
       /\ r = "eof" => local_result["sending"] = "eof"
       /\ r = "refusal" => local_result["receiving"] = "refusal"
  /\ local_result["sending"] # NoResult
       => pc["sending"] \in {"publish", "signal", "ended"}
  /\ local_result["sending"] = "eof" => left = 0 /\ unread + taken = Input
  /\ local_result["receiving"] # NoResult
       => pc["receiving"] \in {"publish", "signal", "ended"}
  /\ local_result["receiving"] = "refusal" => service = "refused"

\* What the client returns.
StatusInv ==
  /\ status = "SUCCESS_EOF" => threads_result = "eof"
  /\ status = "SUCCESS_FUCK_OFF" => threads_result = "refusal"

Inv == TypeOK /\ JoinInv /\ StreamInv /\ ServiceInv /\ ResultInv /\ StatusInv

-----------------------------------------------------------------------------
(* The initial state.                                                      *)

\* Nothing is read, sent or stored yet, and no thread runs but main.
LEMMA InitInv == Init => Inv
<1> SUFFICES ASSUME Init PROVE Inv
  OBVIOUS
<1> USE DEF Init
<1>1. ThreadType /\ SyncType /\ ResultType
  BY DEF ThreadType, SyncType, ResultType, Threads, Workers, Steps, MainSteps,
       ReceivingSteps, SendingSteps, Results, NoResult, RetStatuses
<1>2. SocketType
  BY DEF SocketType, Services
<1>3. StreamType
  BY ClientAssumption DEF StreamType
<1>4. JoinInv /\ StreamInv /\ ServiceInv
  BY ClientAssumption DEF JoinInv, Gone, StreamInv, ServiceInv, Threads
<1>5. ResultInv /\ StatusInv
  BY DEF ResultInv, StatusInv, Workers, NoResult, ReceivingResults,
       SendingResults
<1> QED
  BY <1>1, <1>2, <1>3, <1>4, <1>5 DEF Inv, TypeOK

-----------------------------------------------------------------------------
(* The steps.                                                              *)

\* Each thread stays within its own steps.
LEMMA ThreadTypeStep ==
  ASSUME TypeOK, Next
  PROVE  ThreadType'
<1> USE DEF TypeOK, ThreadType, Threads, Workers, Steps, MainSteps,
            ReceivingSteps, SendingSteps
<1>1. CASE MainThread \/ SpuriousWake
  BY <1>1 DEF MainThread, Connect, CreateThreads, CreateThread, Lock, Check,
       Wake, SpuriousWake, CopyResult, EndThreads, Cancel, Join, Unlock,
       Destroy, Return
<1>2. CASE ReceivingThread
  BY <1>2 DEF ReceivingThread, Receive, ReceiveEOF, DispatchOverriding, Signal,
       Cancelled, Conclude
<1>3. CASE SendingThread
  BY <1>3 DEF SendingThread, ReadStdin, StdinEnds, WriteSocket, WriteFails,
       Dispatch, Signal, Cancelled, Conclude
<1>4. CASE Server
  BY <1>4 DEF Server, Serve, Refuse, ServerReads, ServerHangsUp
<1> QED
  BY <1>1, <1>2, <1>3, <1>4 DEF Next

\* Only the two other threads are ever cancelled.
LEMMA SyncTypeStep ==
  ASSUME TypeOK, Next
  PROVE  SyncType'
<1> USE DEF TypeOK, SyncType, Workers
<1>1. CASE MainThread \/ SpuriousWake
  BY <1>1 DEF MainThread, Connect, CreateThreads, CreateThread, Lock, Check,
       Wake, SpuriousWake, CopyResult, EndThreads, Cancel, Join, Unlock,
       Destroy, Return
<1>2. CASE ReceivingThread
  BY <1>2 DEF ReceivingThread, Receive, ReceiveEOF, DispatchOverriding, Signal,
       Cancelled, Conclude
<1>3. CASE SendingThread
  BY <1>3 DEF SendingThread, ReadStdin, StdinEnds, WriteSocket, WriteFails,
       Dispatch, Signal, Cancelled, Conclude
<1>4. CASE Server
  BY <1>4 DEF Server, Serve, Refuse, ServerReads, ServerHangsUp
<1> QED
  BY <1>1, <1>2, <1>3, <1>4 DEF Next

\* Each result and status is one of those there are.
LEMMA ResultTypeStep ==
  ASSUME TypeOK, Next
  PROVE  ResultType'
<1> USE DEF TypeOK, ThreadType, ResultType, Workers, Results, NoResult,
            RetStatus, RetStatuses, ReceivingResults, SendingResults
<1>1. CASE MainThread \/ SpuriousWake
  BY <1>1 DEF MainThread, Connect, CreateThreads, CreateThread, Lock, Check,
       Wake, SpuriousWake, CopyResult, EndThreads, Cancel, Join, Unlock,
       Destroy, Return
<1>2. CASE ReceivingThread
  BY <1>2 DEF ReceivingThread, Receive, ReceiveEOF, DispatchOverriding, Signal,
       Cancelled, Conclude
<1>3. CASE SendingThread
  BY <1>3 DEF SendingThread, ReadStdin, StdinEnds, WriteSocket, WriteFails,
       Dispatch, Signal, Cancelled, Conclude
<1>4. CASE Server
  BY <1>4 DEF Server, Serve, Refuse, ServerReads, ServerHangsUp
<1> QED
  BY <1>1, <1>2, <1>3, <1>4 DEF Next

\* The connection stays in one of its states.
LEMMA SocketTypeStep ==
  ASSUME TypeOK, Next
  PROVE  SocketType'
<1> USE DEF TypeOK, SocketType, Services
<1>1. CASE MainThread \/ SpuriousWake
  BY <1>1 DEF MainThread, Connect, CreateThreads, CreateThread, Lock, Check,
       Wake, SpuriousWake, CopyResult, EndThreads, Cancel, Join, Unlock,
       Destroy, Return
<1>2. CASE ReceivingThread
  BY <1>2 DEF ReceivingThread, Receive, ReceiveEOF, DispatchOverriding, Signal,
       Cancelled, Conclude
<1>3. CASE SendingThread
  BY <1>3 DEF SendingThread, ReadStdin, StdinEnds, WriteSocket, WriteFails,
       Dispatch, Signal, Cancelled, Conclude
<1>4. CASE Server
  <2>1. CASE ServerHangsUp
    <3>1. /\ hung_up' \in BOOLEAN
          /\ UNCHANGED <<service, inbox>>
      BY <2>1 DEF ServerHangsUp
    <3>2. reset' \in BOOLEAN
      BY <2>1, Zenon DEF ServerHangsUp
    <3> QED
      BY <3>1, <3>2
  <2> QED
    BY <1>4, <2>1 DEF Server, Serve, Refuse, ServerReads
<1> QED
  BY <1>1, <1>2, <1>3, <1>4 DEF Next

\* That taken never passes Input takes StreamInv.
LEMMA StreamTypeStep ==
  ASSUME TypeOK, JoinInv, StreamInv, Next
  PROVE  StreamType'
<1> USE DEF TypeOK, StreamType, StreamInv
<1>1. CASE MainThread \/ SpuriousWake
  BY <1>1 DEF MainThread, Connect, CreateThreads, CreateThread, Lock, Check,
       Wake, SpuriousWake, CopyResult, EndThreads, Cancel, Join, Unlock,
       Destroy, Return
<1>2. CASE ReceivingThread
  BY <1>2 DEF ReceivingThread, Receive, ReceiveEOF, DispatchOverriding, Signal,
       Cancelled, Conclude
<1>3. CASE SendingThread
  BY <1>3, ClientAssumption DEF SendingThread, ReadStdin, StdinEnds,
       WriteSocket, WriteFails, Dispatch, Signal, Cancelled, Conclude
<1>4. CASE Server
        BY <1>4, ClientAssumption DEF Server, Serve, Refuse, ServerReads,
             ServerHangsUp
<1> QED
  BY <1>1, <1>2, <1>3, <1>4 DEF Next

\* The main thread ends both threads before it frees what they use.
LEMMA JoinStep ==
  ASSUME TypeOK, JoinInv, Next
  PROVE  JoinInv'
<1> USE DEF TypeOK, ThreadType, JoinInv, Gone, Threads, Workers
<1>1. CASE MainThread \/ SpuriousWake
  BY <1>1 DEF MainThread, Connect, CreateThreads, CreateThread, Lock, Check,
       Wake, SpuriousWake, CopyResult, EndThreads, Cancel, Join, Unlock,
       Destroy, Return
<1>2. CASE ReceivingThread
  BY <1>2 DEF ReceivingThread, Receive, ReceiveEOF, DispatchOverriding, Signal,
       Cancelled, Conclude
<1>3. CASE SendingThread
  BY <1>3 DEF SendingThread, ReadStdin, StdinEnds, WriteSocket, WriteFails,
       Dispatch, Signal, Cancelled, Conclude
<1>4. CASE Server
  BY <1>4 DEF Server, Serve, Refuse, ServerReads, ServerHangsUp
<1> QED
  BY <1>1, <1>2, <1>3, <1>4 DEF Next

\* Data moves from the input to the thread, the socket and the server.
LEMMA StreamStep ==
  ASSUME TypeOK, JoinInv, StreamInv, Next
  PROVE  StreamInv'
<1> USE DEF TypeOK, ThreadType, StreamType, JoinInv, StreamInv, Threads,
            Workers
<1>1. CASE MainThread \/ SpuriousWake
  BY <1>1 DEF MainThread, Connect, CreateThreads, CreateThread, Lock, Check,
       Wake, SpuriousWake, CopyResult, EndThreads, Cancel, Join, Unlock,
       Destroy, Return
<1>2. CASE ReceivingThread
  BY <1>2 DEF ReceivingThread, Receive, ReceiveEOF, DispatchOverriding, Signal,
       Cancelled, Conclude
<1>3. CASE SendingThread
  BY <1>3 DEF SendingThread, ReadStdin, StdinEnds, WriteSocket, WriteFails,
       Dispatch, Signal, Cancelled, Conclude
<1>4. CASE Server
  BY <1>4 DEF Server, Serve, Refuse, ServerReads, ServerHangsUp
<1> QED
  BY <1>1, <1>2, <1>3, <1>4 DEF Next

\* Only a client that is served is read, only a refused one is told so.
LEMMA ServiceStep ==
  ASSUME TypeOK, ServiceInv, Next
  PROVE  ServiceInv'
<1> USE DEF TypeOK, ThreadType, StreamType, ServiceInv, Threads
<1>1. CASE MainThread \/ SpuriousWake
  BY <1>1 DEF MainThread, Connect, CreateThreads, CreateThread, Lock, Check,
       Wake, SpuriousWake, CopyResult, EndThreads, Cancel, Join, Unlock,
       Destroy, Return
<1>2. CASE ReceivingThread
  BY <1>2 DEF ReceivingThread, Receive, ReceiveEOF, DispatchOverriding, Signal,
       Cancelled, Conclude
<1>3. CASE SendingThread
  BY <1>3 DEF SendingThread, ReadStdin, StdinEnds, WriteSocket, WriteFails,
       Dispatch, Signal, Cancelled, Conclude
<1>4. CASE Server
  BY <1>4 DEF Server, Serve, Refuse, ServerReads, ServerHangsUp
<1> QED
  BY <1>1, <1>2, <1>3, <1>4 DEF Next

\* A thread stores what it has seen, and nobody else stores for it.
LEMMA ResultStep ==
  ASSUME TypeOK, JoinInv, StreamInv, ServiceInv, ResultInv, Next
  PROVE  ResultInv'
<1> USE DEF TypeOK, ThreadType, ResultType, StreamType, JoinInv, StreamInv,
            ServiceInv, ResultInv, Threads, Workers, NoResult,
            ReceivingResults, SendingResults
<1>1. CASE MainThread \/ SpuriousWake
  BY <1>1 DEF MainThread, Connect, CreateThreads, CreateThread, Lock, Check,
       Wake, SpuriousWake, CopyResult, EndThreads, Cancel, Join, Unlock,
       Destroy, Return
<1>2. CASE ReceivingThread
  BY <1>2 DEF ReceivingThread, Receive, ReceiveEOF, DispatchOverriding, Signal,
       Cancelled, Conclude
<1>3. CASE SendingThread
  <2>1. CASE WriteSocket
    BY <2>1 DEF WriteSocket
  <2>2. CASE ReadStdin \/ StdinEnds
    BY <2>2 DEF ReadStdin, StdinEnds, Conclude
  <2>3. CASE ~WriteSocket /\ ~ReadStdin /\ ~StdinEnds
    BY <1>3, <2>3 DEF SendingThread, WriteFails, Dispatch, Signal, Cancelled,
         Conclude
  <2> QED
    BY <2>1, <2>2, <2>3
<1>4. CASE Server
  BY <1>4 DEF Server, Serve, Refuse, ServerReads, ServerHangsUp
<1> QED
  BY <1>1, <1>2, <1>3, <1>4 DEF Next

\* The status returned is that of the main thread's copy of the result.
LEMMA StatusStep ==
  ASSUME TypeOK, StatusInv, Next
  PROVE  StatusInv'
<1> USE DEF TypeOK, ResultType, StatusInv, RetStatus
<1>1. CASE MainThread \/ SpuriousWake
  BY <1>1 DEF MainThread, Connect, CreateThreads, CreateThread, Lock, Check,
       Wake, SpuriousWake, CopyResult, EndThreads, Cancel, Join, Unlock,
       Destroy, Return
<1>2. CASE ReceivingThread
  BY <1>2 DEF ReceivingThread, Receive, ReceiveEOF, DispatchOverriding, Signal,
       Cancelled, Conclude
<1>3. CASE SendingThread
  BY <1>3 DEF SendingThread, ReadStdin, StdinEnds, WriteSocket, WriteFails,
       Dispatch, Signal, Cancelled, Conclude
<1>4. CASE Server
  BY <1>4 DEF Server, Serve, Refuse, ServerReads, ServerHangsUp
<1> QED
  BY <1>1, <1>2, <1>3, <1>4 DEF Next

-----------------------------------------------------------------------------
(* The theorems.                                                           *)

\* Every reachable state satisfies the inductive invariant.
THEOREM Invariance == Spec => []Inv
<1>1. Inv /\ [Next]_vars => Inv'
  <2> SUFFICES ASSUME Inv, [Next]_vars PROVE Inv'
    OBVIOUS
  <2>1. CASE Next
        BY <2>1, ThreadTypeStep, SyncTypeStep, ResultTypeStep, SocketTypeStep,
             StreamTypeStep, JoinStep, StreamStep, ServiceStep, ResultStep,
             StatusStep DEF Inv, TypeOK
  <2>2. CASE UNCHANGED vars
    BY <2>2 DEF vars, Inv, TypeOK, ThreadType, SyncType, ResultType,
         SocketType, StreamType, JoinInv, Gone, StreamInv, ServiceInv,
         ResultInv, StatusInv
  <2> QED
    BY <2>1, <2>2
<1> QED
  BY <1>1, InitInv, PTL DEF Spec

\* Types: among others, the server never reads more than was there to send.
THEOREM TypeCorrect == Spec => []TypeOK
<1>1. Inv => TypeOK
  BY DEF Inv
<1> QED
  BY <1>1, Invariance, PTL

\* The mutex and the condition variable are freed when no thread is left to
\* use them (the end of usockit_client_connect(), on every path).
THEOREM NotUsedAfterFree == Spec => []NoUseAfterFree
<1>1. Inv => NoUseAfterFree
  BY DEF Inv, JoinInv, Gone, NoUseAfterFree, Workers
<1> QED
  BY <1>1, Invariance, PTL

\* The first result is kept, but for a rejection that replaces an EPIPE.
THEOREM FirstWins == Spec => FirstResultWins
<1>1. [Next]_vars
        => (result' # result =>
              \/ result = NoResult
              \/ result = "EPIPE" /\ result' = "refusal")
  <2> SUFFICES ASSUME [Next]_vars, result' # result
               PROVE  \/ result = NoResult
                      \/ result = "EPIPE" /\ result' = "refusal"
    OBVIOUS
  <2>1. CASE UNCHANGED vars
    BY <2>1 DEF vars
  <2>2. CASE MainThread \/ SpuriousWake
    BY <2>2 DEF MainThread, Connect, CreateThreads, CreateThread, Lock, Check,
         Wake, SpuriousWake, CopyResult, EndThreads, Cancel, Join, Unlock,
         Destroy, Return
  <2>3. CASE ReceivingThread
    BY <2>3 DEF ReceivingThread, Receive, ReceiveEOF, DispatchOverriding,
         Signal, Cancelled, Conclude
  <2>4. CASE SendingThread
    BY <2>4 DEF SendingThread, ReadStdin, StdinEnds, WriteSocket, WriteFails,
         Dispatch, Signal, Cancelled, Conclude
  <2>5. CASE Server
    BY <2>5 DEF Server, Serve, Refuse, ServerReads, ServerHangsUp
  <2> QED
    BY <2>1, <2>2, <2>3, <2>4, <2>5 DEF Next
<1> QED
  BY <1>1, PTL DEF Spec, FirstResultWins

\* A client that reports the end of its input has sent all of it.
THEOREM AllWritten == Spec => []EofMeansAllWritten
<1>1. Inv => EofMeansAllWritten
  BY DEF Inv, ResultInv, StatusInv, EofMeansAllWritten
<1> QED
  BY <1>1, Invariance, PTL

\* A client that reports a rejection was refused before any of its data was
\* forwarded.
THEOREM RefusedIndeed == Spec => []RefusalIsTrue
<1>1. Inv => RefusalIsTrue
  BY DEF Inv, TypeOK, StreamType, ServiceInv, ResultInv, StatusInv,
       RefusalIsTrue
<1> QED
  BY <1>1, Invariance, PTL

-----------------------------------------------------------------------------
(* Who waits for what.                                                     *)

\* The main thread has seen a result and ends both threads.
EndingSteps == { "copy", "cancel_receiving", "cancel_sending", "unlock",
                 "join_receiving", "join_sending" }

\* It failed to start, or has ended them.
LeavingSteps == {"abandon", "abandon_join", "destroy", "return"}

\* The main thread is the only one to keep the mutex from one step to another.
MutexInv ==
  mutex <=> pc["main"] \in { "check", "copy", "cancel_receiving",
                             "cancel_sending", "unlock" }

\* A thread that stores a result has one, and one that signals has stored one,
\* if not another was there; without a result a thread ends only if told to.
StoredInv ==
  /\ pc["main"] \in {"connect", "create_receiving"} => result = NoResult
  /\ pc["main"] \in EndingSteps => result # NoResult
  /\ \A t \in Workers :
       /\ pc[t] \in {"publish", "signal"} => local_result[t] # NoResult
       /\ pc[t] = "signal" => result # NoResult
       /\ pc[t] = "ended" => t \in cancelled \/ result # NoResult

\* Before it joins a thread the main thread has created and cancelled it.
AskedInv ==
  /\ pc["main"] \in EndingSteps \cup
       {"create_sending", "lock", "check", "wait", "abandon", "abandon_join"}
       => pc["receiving"] # "none"
  /\ pc["main"] \in EndingSteps \cup {"lock", "check", "wait"}
       => pc["sending"] # "none"
  /\ pc["main"] \in {"cancel_sending", "unlock", "join_receiving",
                     "join_sending", "abandon_join"} => "receiving" \in cancelled
  /\ pc["main"] \in {"unlock", "join_receiving", "join_sending"}
       => "sending" \in cancelled
  /\ cancelled # {} => pc["main"] \in (EndingSteps \ {"copy"}) \cup
                         {"abandon_join", "destroy", "return", "done"}

\* No result is stored while the main thread is between its check and its wait,
\* so that each of them comes with a signal that is still to be sent or was
\* received.
SignalKept ==
  pc["main"] = "wait" /\ result # NoResult
    => woken \/ \E t \in Workers : pc[t] = "signal"

\* The server hangs up on who has connected; a client that has returned is not
\* running.
EndInv ==
  /\ hung_up => service # "absent"
  /\ status = "running" => pc["main"] # "done"

WaitInv == MutexInv /\ StoredInv /\ AskedInv /\ SignalKept /\ EndInv

\* Before anything runs nobody waits.
LEMMA InitWait == Init => WaitInv
BY DEF Init, WaitInv, MutexInv, StoredInv, AskedInv, SignalKept, EndInv,
     EndingSteps, Threads, Workers, NoResult

\* What the main thread does: it creates before it waits, cancels before it
\* joins, and lets go of the mutex before both.
LEMMA MainWaitStep ==
  ASSUME Inv, WaitInv, MainThread \/ SpuriousWake
  PROVE  WaitInv'
<1> USE DEF Inv, TypeOK, ThreadType, SyncType, ResultType, WaitInv, MutexInv,
            StoredInv, AskedInv, SignalKept, EndInv, EndingSteps, Threads,
            Workers, NoResult
<1>1. CASE Connect \/ CreateThreads
  BY <1>1 DEF Connect, CreateThreads, CreateThread, JoinInv, Gone, ResultInv
<1>2. CASE Lock \/ Check \/ Wake \/ SpuriousWake \/ CopyResult
  BY <1>2 DEF Lock, Check, Wake, SpuriousWake, CopyResult
<1>3. CASE EndThreads
  BY <1>3 DEF EndThreads, Cancel, Join, Unlock
<1>4. CASE Destroy \/ Return
  BY <1>4 DEF Destroy, Return, RetStatus
<1> QED
  BY <1>1, <1>2, <1>3, <1>4 DEF MainThread

\* What the others do: a result is stored before its signal.
LEMMA OtherWaitStep ==
  ASSUME Inv, WaitInv, ReceivingThread \/ SendingThread \/ Server
  PROVE  WaitInv'
<1> USE DEF Inv, TypeOK, ThreadType, SyncType, ResultType, WaitInv, MutexInv,
            StoredInv, AskedInv, SignalKept, EndInv, EndingSteps, Threads,
            Workers, NoResult
<1>1. CASE ReceivingThread
  <2>1. CASE Receive \/ ReceiveEOF
    BY <2>1 DEF Receive, ReceiveEOF, Conclude
  <2>2. CASE DispatchOverriding
    <3>1. /\ ~mutex /\ pc["receiving"] = "publish" /\ result' # NoResult
          /\ pc' = [pc EXCEPT !["receiving"] = "signal"]
          /\ UNCHANGED <<cancelled, mutex, woken, local_result, status,
                         hung_up, service>>
      BY <2>2 DEF DispatchOverriding
    <3>2. pc["main"] \notin {"connect", "create_receiving"}
      BY <3>1 DEF JoinInv
    <3> QED
      BY <3>1, <3>2
  <2>3. CASE Signal("receiving")
    BY <2>3 DEF Signal
  <2>4. CASE Cancelled("receiving")
    BY <2>4 DEF Cancelled
  <2> QED
    BY <1>1, <2>1, <2>2, <2>3, <2>4 DEF ReceivingThread
<1>2. CASE SendingThread
  <2>1. CASE ReadStdin \/ StdinEnds \/ WriteSocket \/ WriteFails
    BY <2>1 DEF ReadStdin, StdinEnds, WriteSocket, WriteFails, Conclude
  <2>2. CASE Dispatch
    <3>1. /\ ~mutex /\ pc["sending"] = "publish" /\ result' # NoResult
          /\ pc' = [pc EXCEPT !["sending"] = "signal"]
          /\ UNCHANGED <<cancelled, mutex, woken, local_result, status,
                         hung_up, service>>
      BY <2>2 DEF Dispatch
    <3>2. pc["main"] \notin {"connect", "create_receiving"}
      BY <3>1 DEF JoinInv
    <3> QED
      BY <3>1, <3>2
  <2>3. CASE Signal("sending")
    BY <2>3 DEF Signal
  <2>4. CASE Cancelled("sending")
    BY <2>4 DEF Cancelled
  <2> QED
    BY <1>2, <2>1, <2>2, <2>3, <2>4 DEF SendingThread
<1>3. CASE Server
  BY <1>3 DEF Server, Serve, Refuse, ServerReads, ServerHangsUp
<1> QED
  BY <1>1, <1>2, <1>3

\* In every reachable state.
LEMMA WaitInvariance == Spec => []WaitInv
<1>1. Inv /\ WaitInv /\ [Next]_vars => WaitInv'
  <2> SUFFICES ASSUME Inv, WaitInv, [Next]_vars PROVE WaitInv'
    OBVIOUS
  <2>1. CASE UNCHANGED vars
    BY <2>1 DEF vars, WaitInv, MutexInv, StoredInv, AskedInv, SignalKept, EndInv
  <2> QED
    BY <2>1, MainWaitStep, OtherWaitStep DEF Next
<1> QED
  BY <1>1, InitWait, Invariance, PTL DEF Spec

\* A thread that main joins has ended or waits for nothing: what could block it
\* is a cancellation point, and the mutex is free.
LEMMA JoinedMoves ==
  ASSUME Inv, WaitInv, status = "running", pc["main"] \in DOMAIN Joined
  PROVE  LET t == Joined[pc["main"]]
         IN  pc[t] = "ended" \/ (t \in cancelled /\ CanStep(t))
<1>1. \/ pc["main"] \in {"join_receiving", "abandon_join"}
         /\ Joined[pc["main"]] = "receiving"
      \/ pc["main"] = "join_sending" /\ Joined[pc["main"]] = "sending"
  BY DEF Joined
<1>2. DOMAIN Joined = {"join_receiving", "join_sending", "abandon_join"}
  BY DEF Joined
<1> QED
  BY <1>1, <1>2 DEF Inv, TypeOK, ThreadType, ReceivingSteps, SendingSteps,
     WaitInv, AskedInv, MutexInv, EndingSteps, CanStep

\* No signal is missed, the mutex is held over no step that waits, and nobody
\* is joined who could wait for ever: usockit_client_connect() from its lock to
\* its joins.
THEOREM NoneWaitsInVain == Spec => []NobodyWaitsInVain
<1>1. Inv /\ WaitInv => NobodyWaitsInVain
  <2> SUFFICES ASSUME Inv, WaitInv, status = "running"
               PROVE  NobodyWaitsInVain
    BY DEF NobodyWaitsInVain
  <2>1. mutex => CanStep("main")
    BY DEF WaitInv, MutexInv, CanStep, Joined, Inv, TypeOK, ThreadType
  <2> QED
    BY <2>1, JoinedMoves DEF WaitInv, SignalKept, NobodyWaitsInVain
<1> QED
  BY <1>1, Invariance, WaitInvariance, PTL

-----------------------------------------------------------------------------
(* A result ends the client.  What a prover cannot know of ENABLED is the  *)
(* premise CanStepIsEnabled, an invariant of the run of TLC.               *)

\* The way of the main thread from its first thread to the end.
WaySteps == EndingSteps \cup LeavingSteps \cup
              {"create_sending", "lock", "check", "wait"}

\* Where each of its steps leads when there is a result.
Following(s) ==
  CASE s = "create_sending"               -> {"lock", "abandon"}
    [] s \in {"lock", "wait"}             -> {"check"}
    [] s = "check"                        -> {"copy"}
    [] s = "copy"                         -> {"cancel_receiving"}
    [] s = "cancel_receiving"             -> {"cancel_sending"}
    [] s = "cancel_sending"               -> {"unlock"}
    [] s = "unlock"                       -> {"join_receiving"}
    [] s = "join_receiving"               -> {"join_sending"}
    [] s \in {"join_sending", "abandon_join"} -> {"destroy"}
    [] s = "abandon"                      -> {"abandon_join"}
    [] s = "destroy"                      -> {"return"}
    [] s = "return"                       -> {}

\* The main thread of a client that is to end is at step s ...
MainAt(s) ==
  /\ status = "running" /\ pc["main"] = s
  /\ s \notin LeavingSteps => result # NoResult

\* ... has nothing to wait for there ...
MainFree(s) ==
  /\ MainAt(s)
  /\ s = "wait" => woken
  /\ s \in DOMAIN Joined => pc[Joined[s]] = "ended"

\* ... or has left it behind.
Passed(s) == status # "running" \/ \E next \in Following(s) : MainAt(next)

\* A result is never taken back, and only the main thread takes its steps.
LEMMA ResultStays ==
  ASSUME Inv, WaitInv, Next
  PROVE  /\ result # NoResult => result' # NoResult
         /\ pc'["main"] = pc["main"] \/ MainThread \/ SpuriousWake
<1> USE DEF Inv, TypeOK, ThreadType, ResultType, WaitInv, StoredInv, Threads,
            Workers
<1>1. CASE MainThread \/ SpuriousWake
  BY <1>1 DEF MainThread, Connect, CreateThreads, CreateThread, Lock, Check,
       Wake, SpuriousWake, CopyResult, EndThreads, Cancel, Join, Unlock,
       Destroy, Return
<1>2. CASE ReceivingThread
  BY <1>2 DEF ReceivingThread, Receive, ReceiveEOF, DispatchOverriding, Signal,
       Cancelled, Conclude
<1>3. CASE SendingThread
  BY <1>3 DEF SendingThread, ReadStdin, StdinEnds, WriteSocket, WriteFails,
       Dispatch, Signal, Cancelled, Conclude
<1>4. CASE Server
  BY <1>4 DEF Server, Serve, Refuse, ServerReads, ServerHangsUp
<1> QED
  BY <1>1, <1>2, <1>3, <1>4 DEF Next

\* The main thread goes its way, only forward.
LEMMA MainForward ==
  ASSUME Inv, WaitInv, NEW s \in WaySteps, MainAt(s),
         MainThread \/ SpuriousWake
  PROVE  Passed(s)'
<1> USE DEF Inv, TypeOK, ThreadType, Threads, MainAt, Passed, Following,
            WaySteps, EndingSteps, LeavingSteps
<1>0. CASE Connect
  BY <1>0 DEF Connect
<1>1. CASE CreateThreads
  <2>1. s = "create_sending" /\ UNCHANGED <<status, result>>
    BY <1>1 DEF CreateThreads, CreateThread
  <2>2. pc'["main"] \in {"lock", "abandon"}
    BY <1>1, <2>1 DEF CreateThreads, CreateThread
  <2> QED
    BY <2>1, <2>2
<1>2. CASE Lock \/ Check \/ Wake \/ SpuriousWake \/ CopyResult
  BY <1>2 DEF Lock, Check, Wake, SpuriousWake, CopyResult
<1>3. ASSUME NEW t, NEW from, NEW next,
             \/ Cancel(t, from, next) \/ Join(t, from, next)
             \/ Unlock(from, next)
      PROVE  /\ s = from /\ pc'["main"] = next
             /\ UNCHANGED <<status, result>>
  BY <1>3 DEF Cancel, Join, Unlock
<1>4. CASE EndThreads
  <2>1. PICK t, from, next :
          /\ \/ Cancel(t, from, next) \/ Join(t, from, next)
             \/ Unlock(from, next)
          /\ next \in Following(from)
    BY <1>4 DEF EndThreads
  <2>2. s = from /\ pc'["main"] = next /\ UNCHANGED <<status, result>>
    BY <1>3, <2>1
  <2>3. next \in Following(s) /\ (s \in LeavingSteps => next \in LeavingSteps)
    BY <2>1, <2>2
  <2> HIDE DEF Following, LeavingSteps
  <2> QED
    BY <2>2, <2>3
<1>5. CASE Destroy \/ Return
  BY <1>5 DEF Destroy, Return, RetStatus
<1> QED
  BY <1>0, <1>1, <1>2, <1>4, <1>5 DEF MainThread

LEMMA MainStays ==
  ASSUME Inv, WaitInv, NEW s \in WaySteps, MainAt(s), [Next]_vars
  PROVE  MainAt(s)' \/ Passed(s)'
<1>1. CASE UNCHANGED vars
  BY <1>1 DEF vars, MainAt
<1>2. CASE MainThread \/ SpuriousWake
  BY <1>2, MainForward
<1>3. CASE Next /\ ~(MainThread \/ SpuriousWake)
  BY <1>3, ResultStays DEF MainAt, Passed
<1> QED
  BY <1>1, <1>2, <1>3

\* A worker that has ended stays so, but for one that is created.
LEMMA EndedStays ==
  ASSUME Inv, Next, NEW t \in Workers, pc[t] = "ended",
         pc["main"] \in WaySteps, pc["main"] # "create_sending"
  PROVE  pc'[t] = "ended"
<1> USE DEF Inv, TypeOK, ThreadType, Threads, Workers, WaySteps, EndingSteps,
            LeavingSteps
<1>1. CASE MainThread \/ SpuriousWake
  BY <1>1 DEF MainThread, Connect, CreateThreads, CreateThread, Lock, Check,
       Wake, SpuriousWake, CopyResult, EndThreads, Cancel, Join, Unlock,
       Destroy, Return
<1>2. CASE ReceivingThread
  BY <1>2 DEF ReceivingThread, Receive, ReceiveEOF, DispatchOverriding, Signal,
       Cancelled, Conclude
<1>3. CASE SendingThread
  BY <1>3 DEF SendingThread, ReadStdin, StdinEnds, WriteSocket, WriteFails,
       Dispatch, Signal, Cancelled, Conclude
<1>4. CASE Server
  BY <1>4 DEF Server, Serve, Refuse, ServerReads, ServerHangsUp
<1> QED
  BY <1>1, <1>2, <1>3, <1>4 DEF Next

\* A signal is lost only by the main thread, which it lets go on.
LEMMA WokenStays ==
  ASSUME Inv, Next, woken, ~(MainThread \/ SpuriousWake)
  PROVE  woken'
<1>2. CASE ReceivingThread
  BY <1>2 DEF ReceivingThread, Receive, ReceiveEOF, DispatchOverriding, Signal,
       Cancelled, Conclude
<1>3. CASE SendingThread
  BY <1>3 DEF SendingThread, ReadStdin, StdinEnds, WriteSocket, WriteFails,
       Dispatch, Signal, Cancelled, Conclude
<1>4. CASE Server
  BY <1>4 DEF Server, Serve, Refuse, ServerReads, ServerHangsUp
<1> QED
  BY <1>2, <1>3, <1>4 DEF Next

LEMMA MainFreeStays ==
  ASSUME Inv, WaitInv, NEW s \in WaySteps, MainFree(s), [Next]_vars
  PROVE  MainFree(s)' \/ Passed(s)'
<1>1. MainAt(s)
  BY DEF MainFree
<1>2. CASE UNCHANGED vars
  BY <1>2 DEF vars, MainFree, MainAt
<1>3. CASE MainThread \/ SpuriousWake
  BY <1>1, <1>3, MainForward
<1>4. CASE Next /\ ~(MainThread \/ SpuriousWake)
  <2>1. MainAt(s)' \/ Passed(s)'
    BY <1>1, MainStays
  <2>2. s = "wait" => woken'
    BY <1>4, WokenStays DEF MainFree
  <2>3. s \in DOMAIN Joined => pc'[Joined[s]] = "ended"
    BY <1>4, EndedStays DEF MainFree, MainAt, Joined, Workers
  <2> QED
    BY <2>1, <2>2, <2>3 DEF MainFree
<1> QED
  BY <1>2, <1>3, <1>4

\* A main thread that need not wait goes on.
LEMMA MainGoesOn ==
  ASSUME NEW s \in WaySteps
  PROVE  Spec /\ Fairness /\ []CanStepIsEnabled => (MainFree(s) ~> Passed(s))
<1>1. Inv /\ WaitInv /\ MainFree(s) /\ [Next]_vars => MainFree(s)' \/ Passed(s)'
  BY MainFreeStays
<1>2. Inv /\ WaitInv /\ MainFree(s) /\ <<MainThread>>_vars => Passed(s)'
  BY MainForward DEF MainFree
<1>3. Inv /\ WaitInv /\ MainFree(s) => CanStep("main")
  BY DEF MainFree, MainAt, CanStep, WaitInv, MutexInv, EndInv, WaySteps,
         EndingSteps, LeavingSteps
<1> QED
  BY <1>1, <1>2, <1>3, Invariance, WaitInvariance, PTL
     DEF Spec, Fairness, CanStepIsEnabled

\* The steps where it may have to wait, for t to take n steps at most.
WaitingSteps == DOMAIN Joined \cup {"wait"}

Rank(t) ==
  CASE pc[t] = "ended"   -> 0
    [] pc[t] = "publish" -> 2
    [] OTHER             -> 1

Hinders(t, s, n) ==
  /\ MainAt(s) /\ ~MainFree(s) /\ Rank(t) = n
  /\ IF s = "wait" THEN pc[t] = "signal" ELSE t = Joined[s]

Worker(t) == IF t = "receiving" THEN ReceivingThread ELSE SendingThread

\* Whoever hinders the main thread can go on, ...
LEMMA HindererCanStep ==
  ASSUME Inv, WaitInv, NEW s \in WaitingSteps, NEW t \in Workers, NEW n \in Nat,
         Hinders(t, s, n)
  PROVE  /\ CanStep(t) /\ pc[t] # "ended"
         /\ pc[t] \in {"publish", "signal"} \/ t \in cancelled
<1>1. CASE s = "wait"
  BY <1>1 DEF Hinders, MainAt, CanStep, Joined
<1>2. CASE s # "wait"
  BY <1>2, JoinedMoves DEF Hinders, MainAt, MainFree, WaitingSteps
<1> QED
  BY <1>1, <1>2

\* ... and then is nearer to its end, or has sent the signal.
LEMMA HindererGoesOn ==
  ASSUME Inv, WaitInv, NEW s \in WaitingSteps, NEW t \in Workers, NEW n \in Nat,
         Hinders(t, s, n), Worker(t)
  PROVE  Rank(t)' < n /\ (s = "wait" => woken')
<1> USE DEF Inv, TypeOK, ThreadType, Threads, Workers, Worker, Rank
<1>1. /\ pc[t] # "ended" /\ Rank(t) = n /\ pc["main"] = s
      /\ pc[t] \in {"publish", "signal"} \/ t \in cancelled
      /\ s = "wait" => pc[t] = "signal"
  BY HindererCanStep DEF Hinders, MainAt
<1>2. \/ pc[t] = "publish" /\ pc'[t] = "signal"
      \/ pc'[t] = "ended" /\ (pc[t] = "signal" => Signal(t))
  <2>1. CASE t = "receiving"
    BY <1>1, <2>1 DEF ReceivingThread, Receive, ReceiveEOF, DispatchOverriding,
       Signal, Cancelled, Conclude
  <2>2. CASE t = "sending"
    BY <1>1, <2>2 DEF SendingThread, ReadStdin, StdinEnds, WriteSocket,
       WriteFails, Dispatch, Signal, Cancelled, Conclude
  <2> QED
    BY <2>1, <2>2
<1>3. Rank(t)' < n
  BY <1>1, <1>2
<1>4. s = "wait" => Signal(t)
  BY <1>1, <1>2
<1> QED
  BY <1>1, <1>3, <1>4 DEF Signal

\* Nobody else makes it wait longer.
LEMMA OthersDoNotHinder ==
  ASSUME Inv, Next, NEW t \in Workers, ~(MainThread \/ SpuriousWake), ~Worker(t)
  PROVE  pc'[t] = pc[t]
<1> USE DEF Inv, TypeOK, ThreadType, Threads, Workers, Worker
<1>1. CASE ReceivingThread
  BY <1>1 DEF ReceivingThread, Receive, ReceiveEOF, DispatchOverriding, Signal,
       Cancelled, Conclude
<1>2. CASE SendingThread
  BY <1>2 DEF SendingThread, ReadStdin, StdinEnds, WriteSocket, WriteFails,
       Dispatch, Signal, Cancelled, Conclude
<1>3. CASE Server
  BY <1>3 DEF Server, Serve, Refuse, ServerReads, ServerHangsUp
<1> QED
  BY <1>1, <1>2, <1>3 DEF Next

\* The main thread is let go on, or has to wait for fewer steps.
LEMMA HindranceEnds ==
  ASSUME NEW s \in WaitingSteps, NEW t \in Workers,
         NEW n \in Nat, NEW m \in Nat, n = m + 1
  PROVE  Spec /\ Fairness /\ []CanStepIsEnabled
           => (Hinders(t, s, n)
                 ~> MainFree(s) \/ Passed(s) \/ Hinders(t, s, m))
<1> DEFINE P == Hinders(t, s, n)
           Q == MainFree(s) \/ Passed(s) \/ Hinders(t, s, m)
<1>0. s \in WaySteps
  BY DEF WaitingSteps, WaySteps, EndingSteps, LeavingSteps, Joined
<1>1. Inv /\ WaitInv /\ P /\ Worker(t) /\ Next => Q'
  <2> SUFFICES ASSUME Inv, WaitInv, P, Worker(t), Next,
                      ~MainFree(s)', ~Passed(s)'
               PROVE  Hinders(t, s, m)'
    OBVIOUS
  <2>1. MainAt(s)'
    BY <1>0, MainStays DEF Hinders
  <2>2. Rank(t)' < n /\ (s = "wait" => woken')
    BY HindererGoesOn
  <2>3. s # "wait" /\ t = Joined[s]
    BY <2>1, <2>2 DEF MainFree, Hinders, Joined
  <2>4. pc'[t] # "ended"
    BY <2>1, <2>3 DEF MainFree
  <2>5. n \in 1..2
    BY DEF Hinders, Rank
  <2>6. Rank(t)' = m
    BY <2>2, <2>4, <2>5 DEF Rank
  <2> QED
    BY <2>1, <2>3, <2>6 DEF Hinders
<1>2. Inv /\ WaitInv /\ P /\ [Next]_vars => P' \/ Q'
  <2> SUFFICES ASSUME Inv, WaitInv, P, [Next]_vars, ~Q'
               PROVE  Hinders(t, s, n)'
    OBVIOUS
  <2>1. CASE UNCHANGED vars
    BY <2>1 DEF vars, Hinders, MainFree, MainAt, Rank
  <2>2. CASE MainThread \/ SpuriousWake
    BY <1>0, <2>2, MainForward DEF Hinders
  <2>3. CASE Next /\ Worker(t)
    BY <1>1, <2>3
  <2>4. CASE Next /\ ~(MainThread \/ SpuriousWake) /\ ~Worker(t)
    <3>1. MainAt(s)'
      BY <1>0, MainStays DEF Hinders
    <3>2. pc'[t] = pc[t]
      BY <2>4, OthersDoNotHinder
    <3> QED
      BY <3>1, <3>2 DEF Hinders, Rank
  <2> QED
    BY <2>1, <2>2, <2>3, <2>4
<1>3. Inv /\ WaitInv /\ P => CanStep(t)
  BY HindererCanStep
<1> HIDE DEF P, Q
<1>4. CASE t = "receiving"
  <2>1. Inv /\ WaitInv /\ P /\ <<ReceivingThread>>_vars => Q'
    BY <1>1, <1>4 DEF Worker, Next
  <2>2. Inv /\ WaitInv /\ P => CanStep("receiving")
    BY <1>3, <1>4
  <2>3. Spec /\ Fairness /\ []CanStepIsEnabled => (P ~> Q)
    BY <1>2, <2>1, <2>2, Invariance, WaitInvariance, PTL
       DEF Spec, Fairness, CanStepIsEnabled
  <2> QED
    BY <2>3, PTL DEF P, Q
<1>5. CASE t = "sending"
  <2>1. Inv /\ WaitInv /\ P /\ <<SendingThread>>_vars => Q'
    BY <1>1, <1>5 DEF Worker, Next
  <2>2. Inv /\ WaitInv /\ P => CanStep("sending")
    BY <1>3, <1>5
  <2>3. Spec /\ Fairness /\ []CanStepIsEnabled => (P ~> Q)
    BY <1>2, <2>1, <2>2, Invariance, WaitInvariance, PTL
       DEF Spec, Fairness, CanStepIsEnabled
  <2> QED
    BY <2>3, PTL DEF P, Q
<1> QED
  BY <1>4, <1>5 DEF Workers

\* Every step of the way is behind the main thread in the end.
LEMMA MainPasses ==
  ASSUME NEW s \in WaySteps
  PROVE  Spec /\ Fairness /\ []CanStepIsEnabled => (MainAt(s) ~> Passed(s))
<1>1. Spec /\ Fairness /\ []CanStepIsEnabled => (MainFree(s) ~> Passed(s))
  BY MainGoesOn
<1>2. CASE s \in WaitingSteps
  <2> DEFINE Ends(t, n, m) ==
        Spec /\ Fairness /\ []CanStepIsEnabled
          => (Hinders(t, s, n)
                ~> MainFree(s) \/ Passed(s) \/ Hinders(t, s, m))
  <2>1. ASSUME NEW t \in Workers, NEW n \in Nat, NEW m \in Nat, n = m + 1
        PROVE  Ends(t, n, m)
    BY <1>2, <2>1, HindranceEnds
  <2> HIDE DEF Ends
  <2>2. /\ Ends("receiving", 2, 1) /\ Ends("receiving", 1, 0)
        /\ Ends("sending", 2, 1) /\ Ends("sending", 1, 0)
    BY <2>1 DEF Workers
  <2>3. Inv /\ WaitInv /\ MainAt(s)
          => \/ MainFree(s)
             \/ Hinders("receiving", s, 2) \/ Hinders("receiving", s, 1)
             \/ Hinders("sending", s, 2) \/ Hinders("sending", s, 1)
    <3> SUFFICES ASSUME Inv, WaitInv, MainAt(s), ~MainFree(s)
                 PROVE  \E t \in Workers : Hinders(t, s, 2) \/ Hinders(t, s, 1)
      BY DEF Workers
    <3>1. CASE s = "wait"
      BY <3>1 DEF MainAt, MainFree, WaitInv, SignalKept, LeavingSteps, Joined,
         Hinders, Rank
    <3>2. CASE s \in DOMAIN Joined
      BY <3>2 DEF MainFree, Joined, Hinders, Rank, Workers
    <3> QED
      BY <1>2, <3>1, <3>2 DEF WaitingSteps
  <2>4. \A t : Inv /\ WaitInv /\ Hinders(t, s, 0) => FALSE
    BY <1>2 DEF Hinders, MainFree, Rank, Joined, WaitingSteps
  <2>5. Inv /\ WaitInv
          => ~Hinders("receiving", s, 0) /\ ~Hinders("sending", s, 0)
    BY <2>4
  <2> QED
    BY <1>1, <2>2, <2>3, <2>5, Invariance, WaitInvariance, PTL DEF Ends
<1>3. CASE s \notin WaitingSteps
  <2>1. MainAt(s) => MainFree(s)
    BY <1>3 DEF MainFree, WaitingSteps
  <2> QED
    BY <1>1, <2>1, PTL
<1> QED
  BY <1>2, <1>3

\* The main thread is on its way to the end.
Ending == \E s \in WaySteps : MainAt(s)

\* It gets there.
LEMMA EndingEnds ==
  Spec /\ Fairness /\ []CanStepIsEnabled => (Ending ~> status # "running")
<1> DEFINE Go(s) ==
      Spec /\ Fairness /\ []CanStepIsEnabled => (MainAt(s) ~> Passed(s))
<1>1. ASSUME NEW s \in WaySteps PROVE Go(s)
  BY MainPasses
<1> HIDE DEF Go
<1>2. /\ Go("create_sending") /\ Go("lock") /\ Go("wait") /\ Go("check")
      /\ Go("copy") /\ Go("cancel_receiving") /\ Go("cancel_sending")
      /\ Go("unlock") /\ Go("join_receiving") /\ Go("join_sending")
      /\ Go("abandon") /\ Go("abandon_join") /\ Go("destroy") /\ Go("return")
  BY <1>1 DEF WaySteps, EndingSteps, LeavingSteps
<1> DEFINE Next1(s, next) == Passed(s) => status # "running" \/ MainAt(next)
<1>3. /\ Passed("create_sending")
           => status # "running" \/ MainAt("lock") \/ MainAt("abandon")
      /\ Next1("lock", "check") /\ Next1("wait", "check")
      /\ Next1("check", "copy") /\ Next1("copy", "cancel_receiving")
      /\ Next1("cancel_receiving", "cancel_sending")
      /\ Next1("cancel_sending", "unlock") /\ Next1("unlock", "join_receiving")
      /\ Next1("join_receiving", "join_sending")
      /\ Next1("join_sending", "destroy") /\ Next1("abandon", "abandon_join")
      /\ Next1("abandon_join", "destroy") /\ Next1("destroy", "return")
      /\ Passed("return") => status # "running"
  BY DEF Passed, Following
<1>4. Ending
        => \/ MainAt("create_sending") \/ MainAt("lock") \/ MainAt("wait")
           \/ MainAt("check") \/ MainAt("copy") \/ MainAt("cancel_receiving")
           \/ MainAt("cancel_sending") \/ MainAt("unlock")
           \/ MainAt("join_receiving") \/ MainAt("join_sending")
           \/ MainAt("abandon") \/ MainAt("abandon_join")
           \/ MainAt("destroy") \/ MainAt("return")
  BY DEF Ending, WaySteps, EndingSteps, LeavingSteps
<1> QED
  BY <1>2, <1>3, <1>4, PTL DEF Go

\* Once a thread has stored a result the client ends, whatever the other thread
\* is blocked on: it can be cancelled there, and the main thread misses no
\* signal.
THEOREM ResultEnds ==
  Spec /\ Fairness /\ []CanStepIsEnabled => ResultEndsClient
<1>1. Inv /\ WaitInv /\ result # NoResult => status # "running" \/ Ending
  BY DEF Inv, TypeOK, ThreadType, MainSteps, WaitInv, StoredInv, EndInv, Ending,
     MainAt, WaySteps, EndingSteps, LeavingSteps
<1> QED
  BY <1>1, EndingEnds, Invariance, WaitInvariance, PTL DEF ResultEndsClient

-----------------------------------------------------------------------------
(* A server that has gone ends the client.                                 *)

\* The server has gone, and the thread that will find out does not exist yet,
Uncreated ==
  status = "running" /\ ~Ending /\ hung_up /\ pc["main"] = "create_receiving"

\* or it has its read(2) still before it,
Unheard ==
  status = "running" /\ ~Ending /\ hung_up /\ pc["receiving"] = "read"

\* or it has a result that the main thread has not.
Unstored == status = "running" /\ ~Ending /\ pc["receiving"] = "publish"

\* Until the main thread is on its way out there is no result, nobody is
\* cancelled and the receiving thread, once created, is before its result.
LEMMA BeforeEnding ==
  ASSUME Inv, WaitInv, status = "running", ~Ending
  PROVE  /\ result = NoResult /\ cancelled = {}
         /\ pc["main"] \in { "connect", "create_receiving", "create_sending",
                             "lock", "check", "wait" }
         /\ pc["main"] \in {"create_sending", "lock", "check", "wait"}
              => pc["receiving"] \in {"read", "publish"}
<1>1. result = NoResult
  BY DEF Inv, TypeOK, ThreadType, MainSteps, WaitInv, StoredInv, EndInv, Ending,
     MainAt, WaySteps, EndingSteps, LeavingSteps
<1>2. pc["main"] \in { "connect", "create_receiving", "create_sending",
                       "lock", "check", "wait" }
  BY <1>1 DEF Inv, TypeOK, ThreadType, MainSteps, WaitInv, StoredInv, EndInv,
     Ending, MainAt, WaySteps, EndingSteps, LeavingSteps
<1>3. cancelled = {}
  BY <1>2 DEF WaitInv, AskedInv, EndingSteps
<1> QED
  BY <1>1, <1>2, <1>3 DEF Inv, TypeOK, ThreadType, ReceivingSteps, WaitInv,
     StoredInv, AskedInv, Workers

\* A server that has gone stays away, and of the receiving thread's steps only
\* its own and its creation are taken.
LEMMA HungUpStays ==
  ASSUME Inv, Next, ~ReceivingThread
  PROVE  /\ hung_up => hung_up'
         /\ pc["receiving"] # "none" /\ pc["main"] # "create_receiving"
              => pc'["receiving"] = pc["receiving"]
<1> USE DEF Inv, TypeOK, ThreadType, Threads
<1>1. CASE MainThread \/ SpuriousWake
  BY <1>1 DEF MainThread, Connect, CreateThreads, CreateThread, Lock, Check,
       Wake, SpuriousWake, CopyResult, EndThreads, Cancel, Join, Unlock,
       Destroy, Return
<1>2. CASE SendingThread
  BY <1>2 DEF SendingThread, ReadStdin, StdinEnds, WriteSocket, WriteFails,
       Dispatch, Signal, Cancelled, Conclude
<1>3. CASE Server
  BY <1>3 DEF Server, Serve, Refuse, ServerReads, ServerHangsUp
<1> QED
  BY <1>1, <1>2, <1>3 DEF Next

\* The main thread creates the receiving thread or gives up.
LEMMA ReceiverStarts ==
  Spec /\ Fairness /\ []CanStepIsEnabled
    => (Uncreated ~> Unheard \/ status # "running" \/ Ending)
<1> DEFINE Q == Unheard \/ status # "running" \/ Ending
<1>1. Inv /\ WaitInv /\ Uncreated /\ MainThread => Q'
  <2> SUFFICES ASSUME Inv, WaitInv, Uncreated, MainThread PROVE Q'
    OBVIOUS
  <2>1. CreateThread("receiving", "create_receiving", "create_sending",
                     "destroy")
    BY DEF Uncreated, MainThread, Connect, CreateThreads, CreateThread, Lock,
       Check, Wake, CopyResult, EndThreads, Cancel, Join, Unlock, Destroy,
       Return
  <2>2. UNCHANGED <<status, hung_up>>
    BY <2>1 DEF CreateThread
  <2>3. CASE pc'["receiving"] = "read"
    BY <2>2, <2>3 DEF Uncreated, Unheard
  <2>4. CASE pc'["main"] = "destroy"
    BY <2>2, <2>4 DEF Uncreated, Ending, MainAt, WaySteps, LeavingSteps
  <2> QED
    BY <2>1, <2>3, <2>4 DEF CreateThread, Inv, TypeOK, ThreadType, Threads
<1>2. Inv /\ WaitInv /\ Uncreated /\ [Next]_vars => Uncreated' \/ Q'
  <2> SUFFICES ASSUME Inv, WaitInv, Uncreated, [Next]_vars, ~Q'
               PROVE  Uncreated'
    OBVIOUS
  <2>1. CASE UNCHANGED vars
    BY <2>1 DEF vars, Uncreated
  <2>2. CASE MainThread
    BY <1>1, <2>2
  <2>3. CASE ReceivingThread
    BY <2>3 DEF Uncreated, Inv, JoinInv, ReceivingThread, Receive, ReceiveEOF,
       DispatchOverriding, Signal, Cancelled, Conclude
  <2>4. CASE Next /\ ~MainThread /\ ~ReceivingThread
    <3>1. hung_up'
      BY <2>4, HungUpStays DEF Uncreated
    <3>2. pc'["main"] = "create_receiving"
      BY <2>4, ResultStays DEF Uncreated, SpuriousWake
    <3> QED
      BY <3>1, <3>2 DEF Uncreated
  <2> QED
    BY <2>1, <2>2, <2>3, <2>4
<1>3. Inv /\ WaitInv /\ Uncreated => CanStep("main")
  BY DEF Uncreated, CanStep, Joined
<1> HIDE DEF Q
<1>4. Spec /\ Fairness /\ []CanStepIsEnabled => (Uncreated ~> Q)
  BY <1>1, <1>2, <1>3, Invariance, WaitInvariance, PTL
     DEF Spec, Fairness, CanStepIsEnabled
<1> QED
  BY <1>4, PTL DEF Q

\* Its read(2) returns: the rejection, a failure, or nothing, which aborts.
LEMMA ReceiverHears ==
  Spec /\ Fairness /\ []CanStepIsEnabled
    => (Unheard ~> Unstored \/ status # "running" \/ Ending)
<1> DEFINE Q == Unstored \/ status # "running" \/ Ending
<1>1. Inv /\ WaitInv /\ Unheard /\ ReceivingThread => Q'
  <2> SUFFICES ASSUME Inv, WaitInv, Unheard, ReceivingThread PROVE Q'
    OBVIOUS
  <2>1. cancelled = {}
    BY BeforeEnding DEF Unheard
  <2>2. pc'["receiving"] = "publish" \/ status' # "running"
    BY <2>1 DEF Unheard, ReceivingThread, Receive, ReceiveEOF,
       DispatchOverriding, Signal, Cancelled, Conclude, Inv, TypeOK, ThreadType,
       Threads
  <2> QED
    BY <2>2 DEF Unstored
<1>2. Inv /\ WaitInv /\ Unheard /\ [Next]_vars => Unheard' \/ Q'
  <2> SUFFICES ASSUME Inv, WaitInv, Unheard, [Next]_vars, ~Q'
               PROVE  Unheard'
    OBVIOUS
  <2>1. CASE UNCHANGED vars
    BY <2>1 DEF vars, Unheard
  <2>2. CASE ReceivingThread
    BY <1>1, <2>2
  <2>3. CASE Next /\ ~ReceivingThread
    <3>1. pc["main"] # "create_receiving"
      BY DEF Unheard, Inv, JoinInv
    <3> QED
      BY <2>3, <3>1, HungUpStays DEF Unheard
  <2> QED
    BY <2>1, <2>2, <2>3
<1>3. Inv /\ WaitInv /\ Unheard => CanStep("receiving")
  BY DEF Unheard, CanStep, Joined
<1> HIDE DEF Q
<1>4. Spec /\ Fairness /\ []CanStepIsEnabled => (Unheard ~> Q)
  BY <1>1, <1>2, <1>3, Invariance, WaitInvariance, PTL
     DEF Spec, Fairness, CanStepIsEnabled
<1> QED
  BY <1>4, PTL DEF Q

\* The mutex, which the main thread may take at every spurious wake-up, is free
\* again and again, and so the result is stored.
LEMMA ReceiverStores ==
  Spec /\ Fairness /\ []CanStepIsEnabled
    => (Unstored ~> status # "running" \/ Ending)
<1> DEFINE Q == status # "running" \/ Ending
<1>1. Inv /\ WaitInv /\ pc["receiving"] = "signal" => Q
  <2> SUFFICES ASSUME Inv, WaitInv, pc["receiving"] = "signal", ~Q PROVE FALSE
    OBVIOUS
  <2>1. result # NoResult
    BY DEF WaitInv, StoredInv, Workers
  <2> QED
    BY <2>1, BeforeEnding
<1>2. Inv /\ WaitInv /\ Unstored /\ ReceivingThread
        => (pc["receiving"] = "signal")'
  <2> SUFFICES ASSUME Inv, WaitInv, Unstored, ReceivingThread
               PROVE  pc'["receiving"] = "signal"
    OBVIOUS
  <2> QED
    BY DEF Unstored, ReceivingThread, Receive, ReceiveEOF, DispatchOverriding,
       Signal, Cancelled, Conclude, Inv, TypeOK, ThreadType, Threads
<1>3. Inv /\ WaitInv /\ Unstored /\ [Next]_vars
        => Unstored' \/ Q' \/ (pc["receiving"] = "signal")'
  <2> SUFFICES ASSUME Inv, WaitInv, Unstored, [Next]_vars, ~Q',
                      pc'["receiving"] # "signal"
               PROVE  Unstored'
    OBVIOUS
  <2>1. CASE UNCHANGED vars
    BY <2>1 DEF vars, Unstored
  <2>2. CASE ReceivingThread
    BY <1>2, <2>2
  <2>3. CASE Next /\ ~ReceivingThread
    <3>1. pc["main"] # "create_receiving"
      BY DEF Unstored, Inv, JoinInv
    <3> QED
      BY <2>3, <3>1, HungUpStays DEF Unstored
  <2> QED
    BY <2>1, <2>2, <2>3
<1>4. Inv /\ WaitInv /\ Unstored /\ <<DispatchOverriding>>_vars
        => (pc["receiving"] = "signal")'
  BY <1>2 DEF ReceivingThread
<1>5. Inv /\ WaitInv /\ Unstored /\ mutex => pc["main"] = "check"
  BY BeforeEnding DEF Unstored, WaitInv, MutexInv
<1>6. Inv /\ WaitInv /\ Unstored /\ mutex /\ <<MainThread>>_vars => ~mutex'
  <2> SUFFICES ASSUME Inv, WaitInv, Unstored, mutex, MainThread PROVE ~mutex'
    OBVIOUS
  <2>1. pc["main"] = "check" /\ result = NoResult
    BY <1>5, BeforeEnding DEF Unstored
  <2>2. Check
    BY <2>1 DEF MainThread, Connect, CreateThreads, CreateThread, Lock, Wake,
       CopyResult, EndThreads, Cancel, Join, Unlock, Destroy, Return
  <2> QED
    BY <2>1, <2>2 DEF Check
<1>7. Inv /\ WaitInv /\ Unstored /\ mutex => CanStep("main")
  BY <1>5 DEF Unstored, CanStep, Joined
<1>8. Inv /\ WaitInv /\ Unstored /\ ~mutex
        => CanStep("receiving") /\ pc["receiving"] = "publish"
  BY DEF Unstored, CanStep, Joined
<1> HIDE DEF Q
<1>9. Spec /\ Fairness /\ []CanStepIsEnabled => (Unstored ~> Q)
  BY <1>1, <1>3, <1>4, <1>6, <1>7, <1>8, Invariance, WaitInvariance, PTL
     DEF Spec, Fairness, CanStepIsEnabled
<1> QED
  BY <1>9, PTL DEF Q

\* A client ends when the server has gone: its receiving thread notices even
\* while standard input has nothing to send, and neither the other thread nor a
\* main thread that wakes up again and again keeps it from saying so.
THEOREM HangupEnds ==
  Spec /\ Fairness /\ []CanStepIsEnabled => HangupEndsClient
<1>1. Inv /\ WaitInv /\ hung_up
        => status # "running" \/ Ending \/ Uncreated \/ Unheard \/ Unstored
  <2> SUFFICES ASSUME Inv, WaitInv, hung_up, status = "running", ~Ending
               PROVE  Uncreated \/ Unheard \/ Unstored
    OBVIOUS
  <2>1. pc["main"] # "connect"
    BY DEF WaitInv, EndInv, Inv, ServiceInv
  <2> QED
    BY <2>1, BeforeEnding DEF Uncreated, Unheard, Unstored
<1> QED
  BY <1>1, ReceiverStarts, ReceiverHears, ReceiverStores, EndingEnds,
     Invariance, WaitInvariance, PTL DEF HangupEndsClient

=============================================================================
