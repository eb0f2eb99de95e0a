---------------------------- MODULE ServerProofs ----------------------------
(***************************************************************************)
(* Proofs about Server for any number of clients, any bounds and any set   *)
(* of faults.                                                              *)
(***************************************************************************)
EXTENDS ServerInvariants, TLAPS

\* What the actions are put together from.
USE DEF Goto, Move, CloseFd, Store, HandedOn, SlotWaiters, Put, LeaveWait,
        EndWaiting, LeaveSlotWait, WakeUp, ReadyWaiters, NextRead,
        threadVars, readyVars, slotVars, localVars, childVars, processVars,
        socketVars, streamVars, syncVars, innerVars, programVars, outerVars

-----------------------------------------------------------------------------
(* The initial states.                                                     *)

\* The initial states have the right types.
LEMMA InitTypeOK == Init => TypeOK
<1> SUFFICES ASSUME Init PROVE TypeOK
  OBVIOUS
<1>1. PcType
  BY DEF Init, PcType, Threads, Steps, MainSteps, ChildWaitSteps,
       ConnectionSteps, AcceptSteps
<1>2. SyncType /\ SlotType
  BY DEF Init, SyncType, SlotType, Free, NoChunk
<1>3. ChildType
  BY DEF Init, ChildType, ChildStates
<1>4. SocketType
  BY DEF Init, SocketType
<1>5. StreamType
  BY ServerAssumption DEF Init, StreamType
<1> QED
  BY <1>1, <1>2, <1>3, <1>4, <1>5 DEF TypeOK

\* Before any thread exists there is nothing to hold, cancel or announce.
LEMMA InitInvariant == Init => IInv
<1> SUFFICES ASSUME Init PROVE IInv
  OBVIOUS
<1>1. SlotInv
  BY DEF Init, SlotInv, Threads
<1>2. TeardownInv
  BY DEF Init, TeardownInv, Gone, Threads
<1>3. CancelInv
  BY DEF Init, CancelInv, Threads, Free
<1>4. LatchInv
  BY DEF Init, LatchInv, Threads, BeforePublish
<1> QED
  BY <1>1, <1>2, <1>3, <1>4, InitTypeOK DEF IInv

-----------------------------------------------------------------------------
(* The steps.                                                              *)

\* Every step of the server is a step of one of its actors.
LEMMA Actors ==
  ASSUME Next
  PROVE  \/ MainThread
         \/ \E t \in {"child_wait", "accept"} :
              ReadyWait(t) \/ SpuriousReady(t)
         \/ WaitPid
         \/ process = "running" /\ (ConnectionThread \/ SpuriousSlot)
         \/ process = "running" /\ AcceptThread
         \/ ChildStep
         \/ \E c \in Clients : ClientStep(c)
BY DEF Next, ThreadStep, SpuriousWakeup, Threads

\* Each thread stays within its own steps.
LEMMA PcTypeStep ==
  ASSUME TypeOK, Next
  PROVE  PcType'
<1> USE DEF TypeOK, PcType, Threads, Steps, MainSteps, ChildWaitSteps,
            ConnectionSteps, AcceptSteps
<1>1. CASE MainThread
  BY <1>1 DEF MainThread, CreateThreads, CreateThread, FirstStep, SetupPipes,
       ForkFails, Fork, ReadReport, Reap, Publish, Broadcast, AwaitChildDeath,
       ClosePipes, Teardown, Cancel, Join, Destroy, UnlinkAndExit
<1>2. CASE \E t \in {"child_wait", "accept"} : ReadyWait(t) \/ SpuriousReady(t)
  BY <1>2 DEF ReadyWait, LockReady, WakeReady, CancelReady, SpuriousReady,
       AfterReady
<1>3. CASE WaitPid
  BY <1>3 DEF WaitPid
<1>4. CASE ConnectionThread \/ SpuriousSlot
  BY <1>4 DEF ConnectionThread, LockSlot, CheckSlot, WakeSlot, SpuriousSlot,
       CancelSlotWait, ReadChunk, ReadEnds, WriteChunk, WriteFails, WriteKills,
       ReleaseSlot, CloseClient, CancelService
<1>5. CASE AcceptThread
  BY <1>5 DEF AcceptThread, Accept, AcceptCancelled, TryLock, TestCancel,
       Signal, InspectSlot, Drop, Reject, RejectKills, AcceptClose,
       AcceptDiesClosing
<1>6. CASE ChildStep
  BY <1>6 DEF ChildStep, ChildStarts, ChildExec, ChildReportsError, ChildEnds,
       ChildReadsStdin, ChildClosesStdin
<1>7. CASE \E c \in Clients : ClientStep(c)
  BY <1>7 DEF ClientStep, Connect, Send, Hangup
<1> QED
  BY <1>1, <1>2, <1>3, <1>4, <1>5, <1>6, <1>7, Actors

\* A mutex is free or held by a thread, and only three threads are cancelled.
LEMMA SyncTypeStep ==
  ASSUME TypeOK, Next
  PROVE  SyncType'
<1> USE DEF TypeOK, PcType, SyncType, Threads, Workers, Free
<1>1. CASE MainThread
  BY <1>1 DEF MainThread, CreateThreads, CreateThread, SetupPipes, ForkFails,
       Fork, ReadReport, Reap, Publish, Broadcast, AwaitChildDeath, ClosePipes,
       Teardown, Cancel, Join, Destroy, UnlinkAndExit
<1>2. CASE \E t \in {"child_wait", "accept"} : ReadyWait(t) \/ SpuriousReady(t)
  BY <1>2 DEF ReadyWait, LockReady, WakeReady, CancelReady, SpuriousReady
<1>3. CASE WaitPid
  BY <1>3 DEF WaitPid
<1>4. CASE ConnectionThread \/ SpuriousSlot
  BY <1>4 DEF ConnectionThread, LockSlot, CheckSlot, WakeSlot, SpuriousSlot,
       CancelSlotWait, ReadChunk, ReadEnds, WriteChunk, WriteFails, WriteKills,
       ReleaseSlot, CloseClient, CancelService
<1>5. CASE AcceptThread
  BY <1>5 DEF AcceptThread, Accept, AcceptCancelled, TryLock, TestCancel,
       Signal, InspectSlot, Drop, Reject, RejectKills, AcceptClose,
       AcceptDiesClosing
<1>6. CASE ChildStep
  BY <1>6 DEF ChildStep, ChildStarts, ChildExec, ChildReportsError, ChildEnds,
       ChildReadsStdin, ChildClosesStdin
<1>7. CASE \E c \in Clients : ClientStep(c)
  BY <1>7 DEF ClientStep, Connect, Send, Hangup
<1> QED
  BY <1>1, <1>2, <1>3, <1>4, <1>5, <1>6, <1>7, Actors

\* What is handed over, accepted or read is that of a client.
LEMMA SlotTypeStep ==
  ASSUME TypeOK, SlotInv, Next
  PROVE  SlotType'
<1> USE DEF TypeOK, PcType, SlotType, SocketType, StreamType, NoChunk
<1>1. CASE MainThread
  BY <1>1 DEF MainThread, CreateThreads, CreateThread, SetupPipes, ForkFails,
       Fork, ReadReport, Reap, Publish, Broadcast, AwaitChildDeath, ClosePipes,
       Teardown, Cancel, Join, Destroy, UnlinkAndExit
<1>2. CASE \E t \in {"child_wait", "accept"} : ReadyWait(t) \/ SpuriousReady(t)
  BY <1>2 DEF ReadyWait, LockReady, WakeReady, CancelReady, SpuriousReady
<1>3. CASE WaitPid
  BY <1>3 DEF WaitPid
<1>4. CASE ConnectionThread \/ SpuriousSlot
  <2>1. CASE ReadChunk
    <3>1. client_fd \in Clients
      BY <2>1 DEF ReadChunk, SlotInv
    <3>2. received[client_fd] + 1 \in Nat
      BY <3>1
    <3> QED
      BY <2>1, <3>1, <3>2 DEF ReadChunk
  <2>2. CASE ~ReadChunk
    BY <1>4, <2>2 DEF ConnectionThread, LockSlot, CheckSlot, WakeSlot,
         SpuriousSlot, CancelSlotWait, ReadEnds, WriteChunk, WriteFails,
         WriteKills, ReleaseSlot, CloseClient, CancelService
  <2> QED
    BY <2>1, <2>2
<1>5. CASE AcceptThread
  BY <1>5 DEF AcceptThread, Accept, AcceptCancelled, TryLock, TestCancel,
       Signal, InspectSlot, Drop, Reject, RejectKills, AcceptClose,
       AcceptDiesClosing
<1>6. CASE ChildStep
  BY <1>6 DEF ChildStep, ChildStarts, ChildExec, ChildReportsError, ChildEnds,
       ChildReadsStdin, ChildClosesStdin
<1>7. CASE \E c \in Clients : ClientStep(c)
  BY <1>7 DEF ClientStep, Connect, Send, Hangup
<1> QED
  BY <1>1, <1>2, <1>3, <1>4, <1>5, <1>6, <1>7, Actors

\* The child, its pipe and the process stay in one of their states.
LEMMA ChildTypeStep ==
  ASSUME TypeOK, Next
  PROVE  ChildType'
<1> USE DEF TypeOK, ChildType, ChildStates, ProcessEnds
<1>1. CASE MainThread
  <2>1. CASE CreateThreads \/ SetupPipes \/ ForkFails \/ ReadReport \/ Reap
    BY <2>1 DEF CreateThreads, CreateThread, SetupPipes, ForkFails, ReadReport,
       Reap
  <2>2. CASE Fork \/ Publish \/ Broadcast \/ ClosePipes \/ Destroy
             \/ UnlinkAndExit
    BY <2>2 DEF Fork, Publish, Broadcast, ClosePipes, Destroy, UnlinkAndExit
  <2>3. CASE AwaitChildDeath \/ Teardown
    BY <2>3 DEF AwaitChildDeath, Teardown, Cancel, Join
  <2> QED
    BY <1>1, <2>1, <2>2, <2>3 DEF MainThread
<1>2. CASE \E t \in {"child_wait", "accept"} : ReadyWait(t) \/ SpuriousReady(t)
  BY <1>2 DEF ReadyWait, LockReady, WakeReady, CancelReady, SpuriousReady
<1>3. CASE WaitPid
  BY <1>3 DEF WaitPid
<1>4. CASE ConnectionThread \/ SpuriousSlot
  BY <1>4 DEF ConnectionThread, LockSlot, CheckSlot, WakeSlot, SpuriousSlot,
       CancelSlotWait, ReadChunk, ReadEnds, WriteChunk, WriteFails, WriteKills,
       ReleaseSlot, CloseClient, CancelService
<1>5. CASE AcceptThread
  BY <1>5 DEF AcceptThread, Accept, AcceptCancelled, TryLock, TestCancel,
       Signal, InspectSlot, Drop, Reject, RejectKills, AcceptClose,
       AcceptDiesClosing
<1>6. CASE ChildStep
  BY <1>6 DEF ChildStep, ChildStarts, ChildExec, ChildReportsError, ChildEnds,
       ChildReadsStdin, ChildClosesStdin
<1>7. CASE \E c \in Clients : ClientStep(c)
  BY <1>7 DEF ClientStep, Connect, Send, Hangup
<1> QED
  BY <1>1, <1>2, <1>3, <1>4, <1>5, <1>6, <1>7, Actors

\* The kernel's closing of all descriptors keeps the types of the sockets.
LEMMA ProcessEndsType ==
  ASSUME TypeOK, NEW how, ProcessEnds(how), UNCHANGED <<ends, refused>>
  PROVE  SocketType'
BY DEF TypeOK, SocketType, ProcessEnds

\* A step that leaves the sockets alone keeps their types.
LEMMA UnchangedSocketType ==
  ASSUME TypeOK, UNCHANGED socketVars
  PROVE  SocketType'
BY DEF TypeOK, SocketType

\* The backlog is a sequence of clients, whoever adds to it or takes from it.
LEMMA SocketTypeStep ==
  ASSUME TypeOK, SlotInv, Next
  PROVE  SocketType'
<1>1. CASE MainThread
  <2>1. CASE UnlinkAndExit
    BY <2>1, ProcessEndsType DEF UnlinkAndExit
  <2>2. CASE UNCHANGED socketVars
    BY <2>2, UnchangedSocketType
  <2> QED
    BY <1>1, <2>1, <2>2 DEF MainThread, CreateThreads, CreateThread,
         SetupPipes, ForkFails, Fork, ReadReport, Reap, Publish, Broadcast,
         AwaitChildDeath, ClosePipes, Teardown, Cancel, Join, Destroy
<1>2. CASE \E t \in {"child_wait", "accept"} : ReadyWait(t) \/ SpuriousReady(t)
  BY <1>2, UnchangedSocketType DEF ReadyWait, LockReady, WakeReady,
       CancelReady, SpuriousReady
<1>3. CASE WaitPid
  BY <1>3, UnchangedSocketType DEF WaitPid
<1>4. CASE ConnectionThread \/ SpuriousSlot
  <2>1. CASE WriteKills
    BY <2>1, ProcessEndsType DEF WriteKills
  <2>2. CASE CloseClient \/ \E from \in {"read", "write"} : CancelService(from)
    BY <2>2 DEF CloseClient, CancelService, TypeOK, SocketType
  <2>3. CASE UNCHANGED socketVars
    BY <2>3, UnchangedSocketType
  <2> QED
    BY <1>4, <2>1, <2>2, <2>3 DEF ConnectionThread, LockSlot, CheckSlot,
         WakeSlot, SpuriousSlot, CancelSlotWait, ReadChunk, ReadEnds,
         WriteChunk, WriteFails, ReleaseSlot
<1>5. CASE AcceptThread
  <2>1. CASE RejectKills
    BY <2>1, ProcessEndsType DEF RejectKills
  <2>2. CASE Accept
    <3>1. backlog \in Seq(Clients) /\ backlog # <<>>
      BY <2>2 DEF Accept, TypeOK, SocketType
    <3>2. Head(backlog) \in Clients /\ Tail(backlog) \in Seq(Clients)
      BY <3>1
    <3> QED
      BY <2>2, <3>2 DEF Accept, TypeOK, SocketType
  <2>3. CASE Reject
    BY <2>3 DEF Reject, SlotInv, TypeOK, SocketType
  <2>4. CASE AcceptClose
             \/ \E from \in {"testcancel", "drop", "reject"} :
                   AcceptDiesClosing(from)
    BY <2>4 DEF AcceptClose, AcceptDiesClosing, TypeOK, SocketType
  <2>5. CASE UNCHANGED socketVars
    BY <2>5, UnchangedSocketType
  <2> QED
    BY <1>5, <2>1, <2>2, <2>3, <2>4, <2>5 DEF AcceptThread, AcceptCancelled,
         TryLock, TestCancel, Signal, InspectSlot, Drop
<1>6. CASE ChildStep
  BY <1>6, UnchangedSocketType DEF ChildStep, ChildStarts, ChildExec,
       ChildReportsError, ChildEnds, ChildReadsStdin, ChildClosesStdin
<1>7. CASE \E c \in Clients : ClientStep(c)
  <2> PICK c \in Clients : ClientStep(c)
    BY <1>7
  <2>1. CASE Connect(c)
    <3>1. backlog' \in Seq(Clients)
      BY <2>1 DEF Connect, TypeOK, SocketType
    <3> QED
      BY <2>1, <3>1 DEF Connect, TypeOK, SocketType
  <2>2. CASE Send(c)
    BY <2>2, UnchangedSocketType DEF Send
  <2>3. CASE Hangup(c)
    BY <2>3 DEF Hangup, TypeOK, SocketType
  <2> QED
    BY <2>1, <2>2, <2>3 DEF ClientStep
<1> QED
  BY <1>1, <1>2, <1>3, <1>4, <1>5, <1>6, <1>7, Actors

\* A step that leaves the data alone keeps its types.
LEMMA UnchangedStreamType ==
  ASSUME TypeOK, UNCHANGED <<streamVars, stdin_pipe>>
  PROVE  StreamType'
BY DEF TypeOK, StreamType

\* Counters stay in their bounds: each step that counts has room to.
LEMMA StreamTypeStep ==
  ASSUME TypeOK, SlotInv, Next
  PROVE  StreamType'
<1>1. CASE MainThread
  BY <1>1, UnchangedStreamType DEF MainThread, CreateThreads, CreateThread,
       SetupPipes, ForkFails, Fork, ReadReport, Reap, Publish, Broadcast,
       AwaitChildDeath, ClosePipes, Teardown, Cancel, Join, Destroy,
       UnlinkAndExit
<1>2. CASE \E t \in {"child_wait", "accept"} : ReadyWait(t) \/ SpuriousReady(t)
  BY <1>2, UnchangedStreamType DEF ReadyWait, LockReady, WakeReady,
       CancelReady, SpuriousReady
<1>3. CASE WaitPid
  BY <1>3, UnchangedStreamType DEF WaitPid
<1>4. CASE ConnectionThread \/ SpuriousSlot
  <2>1. CASE ReadChunk
    <3>1. client_fd \in Clients
      BY <2>1 DEF ReadChunk, SlotInv
    <3>2. received[client_fd] + 1 \in 0..MaxChunks
      BY <2>1, <3>1, ServerAssumption DEF ReadChunk, Unread, TypeOK, StreamType
    <3> QED
      BY <2>1, <3>1, <3>2 DEF ReadChunk, TypeOK, StreamType
  <2>2. CASE WriteChunk
    <3>1. delivered' \in Seq(Clients \X Nat)
      BY <2>2 DEF WriteChunk, SlotInv, TypeOK, StreamType
    <3>2. stdin_pipe' \in 0..PipeCapacity
      BY <2>2, ServerAssumption DEF WriteChunk, TypeOK, StreamType
    <3> QED
      BY <2>2, <3>1, <3>2 DEF WriteChunk, TypeOK, StreamType
  <2>3. CASE UNCHANGED <<streamVars, stdin_pipe>>
    BY <2>3, UnchangedStreamType
  <2> QED
    BY <1>4, <2>1, <2>2, <2>3 DEF ConnectionThread, LockSlot, CheckSlot,
         WakeSlot, SpuriousSlot, CancelSlotWait, ReadEnds, WriteFails,
         WriteKills, ReleaseSlot, CloseClient, CancelService
<1>5. CASE AcceptThread
  BY <1>5, UnchangedStreamType DEF AcceptThread, Accept, AcceptCancelled,
       TryLock, TestCancel, Signal, InspectSlot, Drop, Reject, RejectKills,
       AcceptClose, AcceptDiesClosing
<1>6. CASE ChildStep
  BY <1>6, ServerAssumption DEF ChildStep, ChildStarts, ChildExec,
       ChildReportsError, ChildEnds, ChildReadsStdin, ChildClosesStdin, TypeOK,
       StreamType
<1>7. CASE \E c \in Clients : ClientStep(c)
  <2> PICK c \in Clients : ClientStep(c)
    BY <1>7
  <2>1. CASE Send(c)
    <3>1. sent[c] + 1 \in 0..MaxChunks
      BY <2>1, ServerAssumption DEF Send, TypeOK, StreamType
    <3> QED
      BY <2>1, <3>1 DEF Send, TypeOK, StreamType
  <2>2. CASE UNCHANGED <<streamVars, stdin_pipe>>
    BY <2>2, UnchangedStreamType
  <2> QED
    BY <2>1, <2>2 DEF ClientStep, Connect, Hangup
<1> QED
  BY <1>1, <1>2, <1>3, <1>4, <1>5, <1>6, <1>7, Actors

\* The connection thread keeps the mutex it took for as long as it serves.
LEMMA SlotInvStep ==
  ASSUME IInv, Next
  PROVE  SlotInv'
<1> USE DEF IInv, TypeOK, PcType, SyncType, SlotType, SocketType, StreamType,
            SlotInv, Threads, Free, FirstStep
<1>1. CASE MainThread
  BY <1>1 DEF MainThread, CreateThreads, CreateThread, SetupPipes, ForkFails,
       Fork, ReadReport, Reap, Publish, Broadcast, AwaitChildDeath, ClosePipes,
       Teardown, Cancel, Join, Destroy, UnlinkAndExit
<1>2. CASE \E t \in {"child_wait", "accept"} : ReadyWait(t) \/ SpuriousReady(t)
  BY <1>2 DEF ReadyWait, LockReady, WakeReady, CancelReady, SpuriousReady,
       AfterReady
<1>3. CASE WaitPid
  BY <1>3 DEF WaitPid
<1>4. CASE ConnectionThread \/ SpuriousSlot
  BY <1>4 DEF ConnectionThread, LockSlot, CheckSlot, WakeSlot, SpuriousSlot,
       CancelSlotWait, ReadChunk, ReadEnds, WriteChunk, WriteFails, WriteKills,
       ReleaseSlot, CloseClient, CancelService
<1>5. CASE AcceptThread
  <2>1. CASE Accept
    <3>1. Head(backlog) \in Clients
      BY <2>1 DEF Accept
    <3> QED
      BY <2>1, <3>1 DEF Accept
  <2>2. CASE ~Accept
    BY <1>5, <2>2 DEF AcceptThread, AcceptCancelled, TryLock, TestCancel,
         Signal, InspectSlot, Drop, Reject, RejectKills, AcceptClose,
         AcceptDiesClosing
  <2> QED
    BY <2>1, <2>2
<1>6. CASE ChildStep
  BY <1>6 DEF ChildStep, ChildStarts, ChildExec, ChildReportsError, ChildEnds,
       ChildReadsStdin, ChildClosesStdin
<1>7. CASE \E c \in Clients : ClientStep(c)
  BY <1>7 DEF ClientStep, Connect, Send, Hangup
<1> QED
  BY <1>1, <1>2, <1>3, <1>4, <1>5, <1>6, <1>7, Actors

\* Main passes a join only when the joined thread has ended.
LEMMA TeardownInvStep ==
  ASSUME IInv, Next
  PROVE  TeardownInv'
<1> USE DEF IInv, TypeOK, PcType, TeardownInv, Threads, Gone, FirstStep
<1>1. CASE MainThread
  BY <1>1 DEF MainThread, CreateThreads, CreateThread, SetupPipes, ForkFails,
       Fork, ReadReport, Reap, Publish, Broadcast, AwaitChildDeath, ClosePipes,
       Teardown, Cancel, Join, Destroy, UnlinkAndExit
<1>2. CASE \E t \in {"child_wait", "accept"} : ReadyWait(t) \/ SpuriousReady(t)
  BY <1>2 DEF ReadyWait, LockReady, WakeReady, CancelReady, SpuriousReady,
       AfterReady
<1>3. CASE WaitPid
  BY <1>3 DEF WaitPid
<1>4. CASE ConnectionThread \/ SpuriousSlot
  BY <1>4 DEF ConnectionThread, LockSlot, CheckSlot, WakeSlot, SpuriousSlot,
       CancelSlotWait, ReadChunk, ReadEnds, WriteChunk, WriteFails, WriteKills,
       ReleaseSlot, CloseClient, CancelService
<1>5. CASE AcceptThread
  BY <1>5 DEF AcceptThread, Accept, AcceptCancelled, TryLock, TestCancel,
       Signal, InspectSlot, Drop, Reject, RejectKills, AcceptClose,
       AcceptDiesClosing
<1>6. CASE ChildStep
  BY <1>6 DEF ChildStep, ChildStarts, ChildExec, ChildReportsError, ChildEnds,
       ChildReadsStdin, ChildClosesStdin
<1>7. CASE \E c \in Clients : ClientStep(c)
  BY <1>7 DEF ClientStep, Connect, Send, Hangup
<1> QED
  BY <1>1, <1>2, <1>3, <1>4, <1>5, <1>6, <1>7, Actors

\* A thread that ends with a mutex was cancelled, after the accept thread.
LEMMA CancelInvStep ==
  ASSUME IInv, Next
  PROVE  CancelInv'
<1> USE DEF IInv, TypeOK, PcType, SyncType, TeardownInv, CancelInv, LatchInv,
            Threads, Free, Gone, BeforeCancels, BeforePublish, ChildEnded,
            FirstStep
<1>1. CASE MainThread
  BY <1>1 DEF MainThread, CreateThreads, CreateThread, SetupPipes, ForkFails,
       Fork, ReadReport, Reap, Publish, Broadcast, AwaitChildDeath, ClosePipes,
       Teardown, Cancel, Join, Destroy, UnlinkAndExit
<1>2. CASE \E t \in {"child_wait", "accept"} : ReadyWait(t) \/ SpuriousReady(t)
  BY <1>2 DEF ReadyWait, LockReady, WakeReady, CancelReady, SpuriousReady,
       AfterReady
<1>3. CASE WaitPid
  BY <1>3 DEF WaitPid
<1>4. CASE ConnectionThread \/ SpuriousSlot
  BY <1>4 DEF ConnectionThread, LockSlot, CheckSlot, WakeSlot, SpuriousSlot,
       CancelSlotWait, ReadChunk, ReadEnds, WriteChunk, WriteFails, WriteKills,
       ReleaseSlot, CloseClient, CancelService
<1>5. CASE AcceptThread
  BY <1>5 DEF AcceptThread, Accept, AcceptCancelled, TryLock, TestCancel,
       Signal, InspectSlot, Drop, Reject, RejectKills, AcceptClose,
       AcceptDiesClosing
<1>6. CASE ChildStep
  BY <1>6 DEF ChildStep, ChildStarts, ChildExec, ChildReportsError, ChildEnds,
       ChildReadsStdin, ChildClosesStdin
<1>7. CASE \E c \in Clients : ClientStep(c)
  BY <1>7 DEF ClientStep, Connect, Send, Hangup
<1> QED
  BY <1>1, <1>2, <1>3, <1>4, <1>5, <1>6, <1>7, Actors

\* Nothing passes the latch before the child was announced.
LEMMA LatchInvStep ==
  ASSUME IInv, Next
  PROVE  LatchInv'
<1> USE DEF IInv, TypeOK, PcType, LatchInv, TeardownInv, SlotInv, Threads,
            Gone, BeforePublish, ChildEnded, ReportEOF, FirstStep
<1>1. CASE MainThread
  BY <1>1 DEF MainThread, CreateThreads, CreateThread, SetupPipes, ForkFails,
       Fork, ReadReport, Reap, Publish, Broadcast, AwaitChildDeath, ClosePipes,
       Teardown, Cancel, Join, Destroy, UnlinkAndExit
<1>2. CASE \E t \in {"child_wait", "accept"} : ReadyWait(t) \/ SpuriousReady(t)
  BY <1>2 DEF ReadyWait, LockReady, WakeReady, CancelReady, SpuriousReady,
       AfterReady
<1>3. CASE WaitPid
  BY <1>3 DEF WaitPid
<1>4. CASE ConnectionThread \/ SpuriousSlot
  BY <1>4 DEF ConnectionThread, LockSlot, CheckSlot, WakeSlot, SpuriousSlot,
       CancelSlotWait, ReadChunk, ReadEnds, WriteChunk, WriteFails, WriteKills,
       ReleaseSlot, CloseClient, CancelService
<1>5. CASE AcceptThread
  BY <1>5 DEF AcceptThread, Accept, AcceptCancelled, TryLock, TestCancel,
       Signal, InspectSlot, Drop, Reject, RejectKills, AcceptClose,
       AcceptDiesClosing
<1>6. CASE ChildStep
  BY <1>6 DEF ChildStep, ChildStarts, ChildExec, ChildReportsError, ChildEnds,
       ChildReadsStdin, ChildClosesStdin
<1>7. CASE \E c \in Clients : ClientStep(c)
  BY <1>7 DEF ClientStep, Connect, Send, Hangup
<1> QED
  BY <1>1, <1>2, <1>3, <1>4, <1>5, <1>6, <1>7, Actors

-----------------------------------------------------------------------------
(* The theorems.                                                           *)

\* Every reachable state satisfies the inductive invariant.
THEOREM Invariance == Spec => []IInv
<1>1. Init => IInv
  BY InitInvariant
<1>2. IInv /\ [Next]_vars => IInv'
  <2> SUFFICES ASSUME IInv, [Next]_vars PROVE IInv'
    OBVIOUS
  <2>1. CASE Next
    <3>1. TypeOK'
      BY <2>1, PcTypeStep, SyncTypeStep, SlotTypeStep, ChildTypeStep,
           SocketTypeStep, StreamTypeStep DEF IInv, TypeOK
    <3> QED
      BY <2>1, <3>1, SlotInvStep, TeardownInvStep, CancelInvStep, LatchInvStep
           DEF IInv
  <2>2. CASE UNCHANGED vars
    <3>1. TypeOK'
      BY <2>2 DEF vars, IInv, TypeOK, PcType, SyncType, SlotType, ChildType,
         SocketType, StreamType
    <3>2. SlotInv' /\ TeardownInv'
      BY <2>2 DEF vars, IInv, SlotInv, TeardownInv, Gone
    <3>3. CancelInv' /\ LatchInv'
      BY <2>2 DEF vars, IInv, CancelInv, LatchInv, Gone, ChildEnded
    <3> QED
      BY <3>1, <3>2, <3>3 DEF IInv
  <2> QED
    BY <2>1, <2>2
<1> QED
  BY <1>1, <1>2, PTL DEF Spec

\* Type correctness: every variable of the server keeps its type.
THEOREM TypeCorrect == Spec => []TypeOK
<1>1. IInv => TypeOK
  BY DEF IInv
<1> QED
  BY <1>1, Invariance, PTL

\* The descriptor of a session is never replaced by another client's, for any
\* number of clients (accept and client_connection routines).
THEOREM NotStolen == Spec => SessionNotStolen
<1>1. IInv /\ [Next]_vars
        => (InSession /\ InSession' => client_fd' = client_fd)
  <2> SUFFICES ASSUME IInv, [Next]_vars, InSession, InSession'
               PROVE  client_fd' = client_fd
    OBVIOUS
  <2> USE DEF InSession
  <2>1. CASE UNCHANGED vars
    BY <2>1 DEF vars
  <2>2. CASE ConnectionThread \/ SpuriousSlot
    BY <2>2 DEF ConnectionThread, LockSlot, CheckSlot, WakeSlot, SpuriousSlot,
         CancelSlotWait, ReadChunk, ReadEnds, WriteChunk, WriteFails,
         WriteKills, ReleaseSlot, CloseClient, CancelService, IInv, TypeOK,
         PcType, Threads
  <2>3. CASE AcceptThread
    <3>1. client_ready_mutex # Free
      BY DEF IInv, SlotInv, Free
    <3> QED
      BY <2>3, <3>1 DEF AcceptThread, Accept, AcceptCancelled, TryLock,
           TestCancel, Signal, InspectSlot, Drop, Reject, RejectKills,
           AcceptClose, AcceptDiesClosing
  <2>4. CASE MainThread
    BY <2>4 DEF MainThread, CreateThreads, CreateThread, SetupPipes, ForkFails,
         Fork, ReadReport, Reap, Publish, Broadcast, AwaitChildDeath,
         ClosePipes, Teardown, Cancel, Join, Destroy, UnlinkAndExit
  <2>5. CASE \/ \E t \in {"child_wait", "accept"} :
                  ReadyWait(t) \/ SpuriousReady(t)
             \/ WaitPid
    BY <2>5 DEF ReadyWait, LockReady, WakeReady, CancelReady, SpuriousReady,
         WaitPid
  <2>6. CASE ChildStep \/ \E c \in Clients : ClientStep(c)
    BY <2>6 DEF ChildStep, ChildStarts, ChildExec, ChildReportsError,
         ChildEnds, ChildReadsStdin, ChildClosesStdin, ClientStep, Connect,
         Send, Hangup
  <2> QED
    BY <2>1, <2>2, <2>3, <2>4, <2>5, <2>6, Actors
<1> QED
  BY <1>1, Invariance, PTL DEF Spec, SessionNotStolen

\* A chunk taken from a session is given up only when the program that could
\* have read it has ended (the write end of its stdin is closed, and the
\* connection thread cancelled, only after child_wait was joined).  Of a server
\* that SIGPIPE ends with the chunk in hand it says nothing.
THEOREM LostOnlyToEndedChild == Spec => ChunkLostOnlyToEndedChild
<1>1. IInv /\ [Next]_vars
        => (buffer # NoChunk /\ buffer' = NoChunk
              => delivered' = Append(delivered, buffer) \/ ChildEnded)
  <2> SUFFICES ASSUME IInv, [Next]_vars, buffer # NoChunk, buffer' = NoChunk
               PROVE  delivered' = Append(delivered, buffer) \/ ChildEnded
    OBVIOUS
  <2>1. CASE WriteChunk
    BY <2>1 DEF WriteChunk
  <2>2. CASE WriteFails \/ CancelService("read") \/ CancelService("write")
    <3>1. condition
      BY <2>2, ServerAssumption DEF WriteFails, CancelService, IInv, SlotInv,
           LatchInv
    <3>2. pc["main"] \notin {"broadcast", "parent_join_child_wait"}
      BY <2>2 DEF WriteFails, CancelService, IInv, CancelInv, LatchInv,
           BeforeCancels
    <3> QED
      BY <3>1, <3>2 DEF IInv, LatchInv, CancelInv
  <2>3. CASE UNCHANGED buffer
    BY <2>3
  <2>4. CASE ReadChunk
    BY <2>4 DEF ReadChunk, NoChunk
  <2> QED
    <3>1. CASE UNCHANGED vars
      BY <2>3, <3>1 DEF vars
    <3>2. CASE MainThread
      BY <2>3, <3>2 DEF MainThread, CreateThreads, CreateThread, SetupPipes,
           ForkFails, Fork, ReadReport, Reap, Publish, Broadcast,
           AwaitChildDeath, ClosePipes, Teardown, Cancel, Join, Destroy,
           UnlinkAndExit
    <3>3. CASE \/ \E t \in {"child_wait", "accept"} :
                    ReadyWait(t) \/ SpuriousReady(t)
               \/ WaitPid
      BY <2>3, <3>3 DEF ReadyWait, LockReady, WakeReady, CancelReady,
           SpuriousReady, WaitPid
    <3>4. CASE ConnectionThread \/ SpuriousSlot
      BY <2>1, <2>2, <2>3, <2>4, <3>4 DEF ConnectionThread, LockSlot,
           CheckSlot, WakeSlot, SpuriousSlot, CancelSlotWait, ReadEnds,
           WriteKills, ReleaseSlot, CloseClient
    <3>5. CASE AcceptThread
      BY <2>3, <3>5 DEF AcceptThread, Accept, AcceptCancelled, TryLock,
           TestCancel, Signal, InspectSlot, Drop, Reject, RejectKills,
           AcceptClose, AcceptDiesClosing
    <3>6. CASE ChildStep \/ \E c \in Clients : ClientStep(c)
      BY <2>3, <3>6 DEF ChildStep, ChildStarts, ChildExec, ChildReportsError,
           ChildEnds, ChildReadsStdin, ChildClosesStdin, ClientStep, Connect,
           Send, Hangup
    <3> QED
      BY <3>1, <3>2, <3>3, <3>4, <3>5, <3>6, Actors
<1> QED
  BY <1>1, Invariance, PTL DEF Spec, ChunkLostOnlyToEndedChild

\* No thread outlives the structures it uses, whatever step of the start
\* failed (the error paths and the end of usockit_server_setup_threads()).
THEOREM NotUsedAfterFree == Spec => []NoUseAfterFree
<1>1. IInv => NoUseAfterFree
  BY DEF IInv, TeardownInv, Gone, NoUseAfterFree, Workers, Threads
<1> QED
  BY <1>1, Invariance, PTL

\* The memory that only fork(2) fills in is read only afterwards.
THEOREM Initialized == Spec => []InitializedBeforeUse
<1>1. IInv => InitializedBeforeUse
  BY ServerAssumption DEF IInv, SlotInv, LatchInv, InitializedBeforeUse
<1> QED
  BY <1>1, Invariance, PTL

\* A server that has announced its child never wedges behind the mutex of
\* child_ready_info.
THEOREM ReadyNeverWedges == Spec => []ReadyServerNeverWedges
<1>1. IInv => ReadyServerNeverWedges
  BY DEF IInv, TypeOK, SyncType, CancelInv, Gone, Free, ReadyServerNeverWedges,
       Wedged
<1> QED
  BY <1>1, Invariance, PTL

\* The connection thread takes client_ready_info->mutex with it only when the
\* accept thread is gone.
THEOREM AbandonedLast == Spec => []SlotAbandonedLast
<1>1. IInv => SlotAbandonedLast
  BY DEF IInv, CancelInv, Gone, SlotAbandonedLast
<1> QED
  BY <1>1, Invariance, PTL

=============================================================================
