--------------------------- MODULE ProgressProofs ---------------------------
(***************************************************************************)
(* Proofs that a server, for any number of clients, any bounds and any set *)
(* of faults, loses no wake-up and joins only threads that can go on, and  *)
(* what follows from that under fairness.                                  *)
(***************************************************************************)
EXTENDS ConsoleProofs

\* What the actions are put together from.
USE DEF Goto, Move, CloseFd, Store, HandedOn, SlotWaiters, Put, LeaveWait,
        EndWaiting, LeaveSlotWait, WakeUp, ReadyWaiters, NextRead,
        threadVars, readyVars, slotVars, localVars, childVars, processVars,
        socketVars, streamVars, syncVars, innerVars, programVars, outerVars

-----------------------------------------------------------------------------
(* Invariants, each inductive together with those before it.               *)

\* The mutex of the slot is not locked by a thread that wants or waits to lock
\* it, nor by one that has just unlocked it.
HolderInv ==
  client_ready_mutex # Free
    => pc["client_connection"] \notin {"none", "slot_lock", "slot_wait", "close"}

\* What the main thread cancels or joins it has created.
CreatedInv ==
  /\ pc["main"] \notin {"create_child_wait", "destroy", "unlink", "done"}
       => pc["child_wait"] # "none"
  /\ pc["main"] \notin { "create_child_wait", "create_client_connection",
                         "cancel_child_wait", "join_child_wait", "destroy",
                         "unlink", "done" }
       => pc["client_connection"] # "none"
  /\ pc["main"] \notin { "create_child_wait", "create_client_connection",
                         "create_accept", "cancel_client_connection",
                         "join_client_connection", "cancel_child_wait",
                         "join_child_wait", "destroy", "unlink", "done" }
       => pc["accept"] # "none"

\* What it joins it has cancelled before, but for the child_wait thread, which
\* ends after the child that was announced.
AskedInv ==
  /\ pc["main"] \in {"parent_join_accept", "join_accept"}
       => "accept" \in cancelled
  /\ pc["main"] = "join_client_connection" => "client_connection" \in cancelled
  /\ pc["main"] = "join_child_wait" => "child_wait" \in cancelled
  /\ pc["main"] \in { "broadcast", "parent_join_child_wait",
                      "parent_cancel_accept", "parent_join_accept" }
       => condition
  /\ pc["main"] = "done" => process # "running"

\* A signal is used up by the wait it ends.
WokenInv ==
  "client_connection" \in woken => pc["client_connection"] = "slot_wait"

WaitInv == WakeupsKept /\ HolderInv /\ CreatedInv /\ AskedInv /\ WokenInv

\* As long as the program's input is open, a session ends only when its client
\* has hung up and all it has sent was read.
FinishedInv ==
  pc["client_connection"] = "cleanup" =>
    \/ process # "running"
    \/ pc["main"] \notin {"broadcast", "parent_join_child_wait"}
    \/ ends[client_fd] = "closed" /\ Unread(client_fd) = 0

\* Who is connected is connected to a living server, and waits in the backlog for
\* an accept thread that only a cancellation ends; the backlog holds one more
\* than was asked for.
BacklogInv ==
  /\ process # "running" => backlog = <<>> /\ fd_open = {}
  /\ Len(backlog) <= ListenBacklog + 1
  /\ pc["accept"] = "ended" => "accept" \in cancelled

-----------------------------------------------------------------------------
(* Who waits for what.                                                     *)

\* Before any thread exists nobody waits.
LEMMA InitWait == Init => WaitInv
BY DEF Init, WaitInv, WakeupsKept, HolderInv, CreatedInv, AskedInv,
     WokenInv, Threads

\* A descriptor that is stored and a child that is announced wake up whoever
\* waits for them, however the threads are scheduled in between.
LEMMA WakeupsKeptStep ==
  ASSUME IInv, WakeupsKept, Next
  PROVE  WakeupsKept'
<1> USE DEF IInv, TypeOK, PcType, SyncType, SlotType, WakeupsKept, Threads,
            Workers
<1>1. CASE MainThread
  <2>1. CASE CreateThreads
    BY <2>1 DEF CreateThreads, CreateThread, FirstStep, TeardownInv, Gone
  <2> QED
    BY <1>1, <2>1 DEF MainThread, SetupPipes, ForkFails, Fork, ReadReport, Reap,
         Publish, Broadcast, AwaitChildDeath, ClosePipes, Teardown, Cancel,
         Join, Destroy, UnlinkAndExit, ProcessEnds
<1>2. CASE \/ \E t \in {"child_wait", "accept"} :
                ReadyWait(t) \/ SpuriousReady(t)
           \/ WaitPid
  BY <1>2 DEF ReadyWait, LockReady, WakeReady, CancelReady, SpuriousReady,
       AfterReady, WaitPid
<1>3. CASE ConnectionThread \/ SpuriousSlot
  BY <1>3 DEF ConnectionThread, LockSlot, CheckSlot, WakeSlot, SpuriousSlot,
       CancelSlotWait, ReadChunk, ReadEnds, WriteChunk, WriteFails, WriteKills,
       ReleaseSlot, CloseClient, CancelService, ProcessEnds
<1>4. CASE AcceptThread
  BY <1>4 DEF AcceptThread, Accept, AcceptCancelled, TryLock, TestCancel,
       Signal, InspectSlot, Drop, Reject, RejectKills, AcceptClose,
       AcceptDiesClosing, ProcessEnds
<1>5. CASE ChildStep \/ \E c \in Clients : ClientStep(c)
  BY <1>5 DEF ChildStep, ChildStarts, ChildExec, ChildReportsError, ChildEnds,
       ChildReadsStdin, ChildClosesStdin, ClientStep, Connect, Send, Hangup
<1> QED
  BY <1>1, <1>2, <1>3, <1>4, <1>5, Actors

\* The main thread cancels before it joins, and creates before either.
LEMMA WaitInvStep ==
  ASSUME IInv, WaitInv, Next
  PROVE  WaitInv'
<1> USE DEF IInv, TypeOK, PcType, SyncType, WaitInv, HolderInv, CreatedInv,
            AskedInv, WokenInv, Threads, Workers, Free
<1>0. WakeupsKept'
  BY WakeupsKeptStep
<1>1. CASE MainThread
  <2>1. CASE CreateThreads
    BY <1>0, <2>1 DEF CreateThreads, CreateThread, FirstStep, TeardownInv, Gone,
         CancelInv, BeforeCancels
  <2>2. CASE SetupPipes \/ ForkFails \/ Fork \/ ReadReport \/ Reap \/ ClosePipes
    BY <1>0, <2>2 DEF SetupPipes, ForkFails, Fork, ReadReport, Reap, ClosePipes
  <2>3. CASE Publish \/ Destroy \/ UnlinkAndExit
    BY <1>0, <2>3 DEF Publish, Destroy, UnlinkAndExit, ProcessEnds
  <2>6. CASE Broadcast
    BY <1>0, <2>6 DEF Broadcast, ConnectionSteps
  <2>4. CASE AwaitChildDeath
    BY <1>0, <2>4 DEF AwaitChildDeath, Cancel, Join
  <2>5. CASE Teardown
    BY <1>0, <2>5 DEF Teardown, Cancel, Join
  <2> QED
    BY <1>1, <2>1, <2>2, <2>3, <2>4, <2>5, <2>6 DEF MainThread
<1>2. CASE \/ \E t \in {"child_wait", "accept"} :
                ReadyWait(t) \/ SpuriousReady(t)
           \/ WaitPid
  BY <1>0, <1>2 DEF ReadyWait, LockReady, WakeReady, CancelReady,
       SpuriousReady, AfterReady, WaitPid
<1>3. CASE ConnectionThread \/ SpuriousSlot
  BY <1>0, <1>3 DEF ConnectionThread, LockSlot, CheckSlot, WakeSlot,
       SpuriousSlot, CancelSlotWait, ReadChunk, ReadEnds, WriteChunk,
       WriteFails, WriteKills, ReleaseSlot, CloseClient, CancelService,
       ProcessEnds, SlotInv
<1>4. CASE AcceptThread
  BY <1>0, <1>4 DEF AcceptThread, Accept, AcceptCancelled, TryLock,
       TestCancel, Signal, InspectSlot, Drop, Reject, RejectKills,
       AcceptClose, AcceptDiesClosing, ProcessEnds
<1>5. CASE ChildStep \/ \E c \in Clients : ClientStep(c)
  BY <1>0, <1>5 DEF ChildStep, ChildStarts, ChildExec, ChildReportsError,
       ChildEnds, ChildReadsStdin, ChildClosesStdin, ClientStep, Connect,
       Send, Hangup
<1> QED
  BY <1>1, <1>2, <1>3, <1>4, <1>5, Actors

\* In every reachable state.
LEMMA WaitInvariance == Spec => []WaitInv
<1>1. IInv /\ WaitInv /\ [Next]_vars => WaitInv'
  <2> SUFFICES ASSUME IInv, WaitInv, [Next]_vars PROVE WaitInv'
    OBVIOUS
  <2>1. CASE UNCHANGED vars
    BY <2>1 DEF vars, WaitInv, WakeupsKept, HolderInv, CreatedInv, AskedInv,
         WokenInv
  <2> QED
    BY <2>1, WaitInvStep
<1> QED
  BY <1>1, InitWait, Invariance, PTL DEF Spec

-----------------------------------------------------------------------------
(* Whom the main thread joins.                                             *)

\* A thread that was cancelled waits for nothing, but for a mutex perhaps.
LEMMA CancelledCanStep ==
  ASSUME IInv, WaitInv, process = "running", NEW t \in Workers,
         t \in cancelled, pc[t] \notin {"none", "ended", "waitpid"}
  PROVE  \/ CanStep(t)
         \/ pc[t] \in {"await_ready", "ready_wait"} /\ child_ready_mutex # Free
<1> USE DEF IInv, TypeOK, PcType, Threads, Workers
<1>1. /\ pc[t] \in ChildWaitSteps \cup ConnectionSteps \cup AcceptSteps
      /\ pc[t] \in {"slot_lock", "slot_wait"} => t = "client_connection"
  BY DEF ChildWaitSteps, ConnectionSteps, AcceptSteps
<1>2. pc[t] \in {"slot_lock", "slot_wait"} => client_ready_mutex = Free
  BY <1>1 DEF WaitInv, HolderInv
<1> QED
  BY <1>1, <1>2 DEF CanStep, Joined, ChildWaitSteps, ConnectionSteps,
       AcceptSteps

\* Every join of the start and the teardown is of a thread that was created and
\* asked to end, or whose child ends it, and that nothing keeps from ending.
LEMMA JoinedMoves == IInv /\ WaitInv => JoinedCanMove
<1> SUFFICES ASSUME IInv, WaitInv, process = "running",
                    pc["main"] \in DOMAIN Joined
             PROVE  LET t == Joined[pc["main"]]
                    IN  \/ pc[t] = "ended" \/ CanStep(t)
                        \/ pc["main"] = "parent_join_child_wait" /\ ~ChildEnded
                        \/ ~condition /\ Wedged(t)
  BY DEF JoinedCanMove
<1> DEFINE t == Joined[pc["main"]]
<1> USE DEF IInv, TypeOK, PcType, SyncType, Threads, Workers, Joined
<1>1. t \in Workers /\ pc[t] # "none"
  BY DEF WaitInv, CreatedInv
<1>2. CASE pc["main"] = "parent_join_child_wait"
  <2>1. child_ready_mutex = Free /\ condition /\ t = "child_wait"
    BY <1>2 DEF CancelInv, BeforeCancels, WaitInv, AskedInv, Free
  <2>2. pc[t] = "ready_wait" => t \in woken
    BY <1>2, <2>1 DEF WaitInv, WakeupsKept
  <2> QED
    BY <1>1, <1>2, <2>1, <2>2 DEF CanStep, ChildWaitSteps
<1>3. CASE pc["main"] # "parent_join_child_wait"
  <2>1. t \in cancelled
    BY <1>3 DEF WaitInv, AskedInv
  <2>2. CASE pc[t] = "waitpid"
    BY <1>3, <2>2 DEF LatchInv, AcceptSteps, ConnectionSteps
  <2>3. CASE pc[t] \in {"await_ready", "ready_wait"} /\ child_ready_mutex # Free
    <3>1. t \in {"child_wait", "accept"}
      BY <1>1, <2>3 DEF ConnectionSteps
    <3>2. child_ready_mutex \in {"child_wait", "accept"}
      BY <2>3
    <3> QED
      BY <2>3, <3>1, <3>2 DEF CancelInv, Gone, Wedged
  <2> QED
    BY <1>1, <2>1, <2>2, <2>3, CancelledCanStep
<1> QED
  BY <1>2, <1>3

\* No wake-up is lost at the two condition variables, no thread is joined that
\* could wait for ever, and after the announcement no mutex is left locked that
\* anybody wants: the hand-over, the announcement and the teardown of
\* usockit_server_setup_threads() taken together.
THEOREM NoneWaitsInVain == Spec => []NobodyWaitsInVain
<1>1. IInv /\ WaitInv => NobodyWaitsInVain
  BY JoinedMoves DEF WaitInv, NobodyWaitsInVain, ReadyServerNeverWedges,
       SlotAbandonedLast, IInv, TypeOK, SyncType, CancelInv, Gone, Free, Wedged
<1> QED
  BY <1>1, Invariance, WaitInvariance, PTL

-----------------------------------------------------------------------------
(* The server follows its child.  What a prover cannot know of ENABLED is  *)
(* the premise CanStepIsEnabled, an invariant of the runs of TLC.          *)

\* The child that was announced has ended, and the main thread is at step s.
MainAt(s) ==
  condition /\ ChildEnded /\ process = "running" /\ pc["main"] = s

\* The way of the main thread from the announcement to the end.
FollowingSteps ==
  { "broadcast", "parent_join_child_wait", "parent_cancel_accept",
    "parent_join_accept", "close_pipes", "cancel_accept", "join_accept",
    "cancel_client_connection", "join_client_connection", "cancel_child_wait",
    "join_child_wait", "destroy", "unlink" }

Following(s) ==
  CASE s = "broadcast"                -> "parent_join_child_wait"
    [] s = "parent_join_child_wait"   -> "parent_cancel_accept"
    [] s = "parent_cancel_accept"     -> "parent_join_accept"
    [] s = "parent_join_accept"       -> "close_pipes"
    [] s = "close_pipes"              -> "cancel_accept"
    [] s = "cancel_accept"            -> "join_accept"
    [] s = "join_accept"              -> "cancel_client_connection"
    [] s = "cancel_client_connection" -> "join_client_connection"
    [] s = "join_client_connection"   -> "cancel_child_wait"
    [] s = "cancel_child_wait"        -> "join_child_wait"
    [] s = "join_child_wait"          -> "destroy"
    [] s = "destroy"                  -> "unlink"
    [] s = "unlink"                   -> "done"

\* The steps that a thread which is joined has at most before it.
Rank(t) ==
  CASE pc[t] = "ended" -> 0
    [] pc[t] \in { "accept", "testcancel", "drop", "reject", "close", "read",
                   "write", "waitpid" } -> 1
    [] pc[t] \in {"await_ready", "ready_wait", "signal", "busy", "cleanup"} -> 2
    [] pc[t] = "slot_wait" /\ t \notin woken -> 2
    [] pc[t] \in {"slot_check", "trylock"} -> 3
    [] OTHER -> 4

\* The end of the child and its announcement are final, and only the main
\* thread itself takes its steps.
LEMMA EndIsFinal ==
  ASSUME IInv, condition, ChildEnded, Next
  PROVE  /\ condition' /\ ChildEnded'
         /\ pc'["main"] = pc["main"] \/ MainThread
<1> USE DEF IInv, TypeOK, PcType, ChildEnded, LatchInv, BeforePublish, Threads
<1>1. CASE MainThread
  <2>1. condition'
    BY <1>1 DEF MainThread, CreateThreads, CreateThread, SetupPipes, ForkFails,
       Fork, ReadReport, Reap, Publish, Broadcast, AwaitChildDeath, ClosePipes,
       Teardown, Cancel, Join, Destroy, UnlinkAndExit
  <2>2. child' = child
    BY <1>1 DEF MainThread, CreateThreads, CreateThread, SetupPipes, ForkFails,
       Fork, ReadReport, Reap, Publish, Broadcast, AwaitChildDeath, ClosePipes,
       Teardown, Cancel, Join, Destroy, UnlinkAndExit
  <2> QED
    BY <1>1, <2>1, <2>2
<1>2. CASE \/ \E t \in {"child_wait", "accept"} :
                ReadyWait(t) \/ SpuriousReady(t)
           \/ WaitPid
  <2>1. ASSUME NEW t \in {"child_wait", "accept"}, ReadyWait(t) \/ SpuriousReady(t)
        PROVE  UNCHANGED <<condition, child, pc["main"]>>
    BY <2>1 DEF ReadyWait, LockReady, WakeReady, CancelReady, SpuriousReady
  <2>2. WaitPid => UNCHANGED <<condition, child, pc["main"]>>
    BY DEF WaitPid
  <2> QED
    BY <1>2, <2>1, <2>2
<1>3. CASE ConnectionThread \/ SpuriousSlot
  BY <1>3 DEF ConnectionThread, LockSlot, CheckSlot, WakeSlot, SpuriousSlot,
       CancelSlotWait, ReadChunk, ReadEnds, WriteChunk, WriteFails, WriteKills,
       ReleaseSlot, CloseClient, CancelService
<1>4. CASE AcceptThread
  BY <1>4 DEF AcceptThread, Accept, AcceptCancelled, TryLock, TestCancel,
       Signal, InspectSlot, Drop, Reject, RejectKills, AcceptClose,
       AcceptDiesClosing
<1>5. CASE ChildStep \/ \E c \in Clients : ClientStep(c)
  BY <1>5 DEF ChildStep, ChildStarts, ChildExec, ChildReportsError, ChildEnds,
       ChildReadsStdin, ChildClosesStdin, ClientStep, Connect, Send, Hangup
<1> QED
  BY <1>1, <1>2, <1>3, <1>4, <1>5, Actors

\* The main thread goes its way, only forward.
LEMMA MainForward ==
  ASSUME IInv, NEW s \in FollowingSteps, MainAt(s), MainThread
  PROVE  /\ pc'["main"] = Following(s)
         /\ s = "unlink" => process' # "running"
         /\ s \in DOMAIN Joined => pc[Joined[s]] = "ended"
<1> USE DEF MainAt, FollowingSteps, Following, Joined
<1>1. ASSUME NEW t, NEW from, NEW next, Cancel(t, from, next)
      PROVE  s = from /\ pc'["main"] = next
  BY <1>1 DEF Cancel, IInv, TypeOK, PcType, Threads
<1>2. ASSUME NEW t, NEW from, NEW next, Join(t, from, next)
      PROVE  s = from /\ pc'["main"] = next /\ pc[t] = "ended"
  BY <1>2 DEF Join, IInv, TypeOK, PcType, Threads
<1>3. CASE AwaitChildDeath
  BY <1>1, <1>2, <1>3 DEF AwaitChildDeath
<1>4. CASE Teardown
  BY <1>1, <1>2, <1>4 DEF Teardown
<1>5. CASE Broadcast \/ ClosePipes \/ Destroy \/ UnlinkAndExit
  BY <1>5 DEF Broadcast, ClosePipes, Destroy, UnlinkAndExit, ProcessEnds,
     IInv, TypeOK, PcType, Threads
<1> QED
  BY <1>3, <1>4, <1>5 DEF MainThread, CreateThreads, CreateThread, SetupPipes,
     ForkFails, Fork, ReadReport, Reap, Publish

\* Unless the server ends, the main thread stays where it is or goes on.
LEMMA MainStays ==
  ASSUME IInv, NEW s \in FollowingSteps, MainAt(s), [Next]_vars
  PROVE  process' # "running" \/ MainAt(s)' \/ MainAt(Following(s))'
<1>1. CASE UNCHANGED vars
  BY <1>1 DEF vars, MainAt, ChildEnded
<1>2. CASE Next
  BY <1>2, EndIsFinal, MainForward DEF MainAt
<1> QED
  BY <1>1, <1>2

\* A thread that ended stays so while main joins it.
LEMMA EndedStays ==
  ASSUME IInv, Next, NEW t \in Workers, pc[t] = "ended", condition
  PROVE  pc'[t] = "ended"
<1> USE DEF IInv, TypeOK, PcType, Threads, Workers
<1>1. CASE MainThread
  BY <1>1 DEF MainThread, CreateThreads, CreateThread, SetupPipes, ForkFails,
       Fork, ReadReport, Reap, Publish, Broadcast, AwaitChildDeath, ClosePipes,
       Teardown, Cancel, Join, Destroy, UnlinkAndExit, LatchInv, BeforePublish
<1>2. CASE \/ \E u \in {"child_wait", "accept"} :
                ReadyWait(u) \/ SpuriousReady(u)
           \/ WaitPid
  BY <1>2 DEF ReadyWait, LockReady, WakeReady, CancelReady, SpuriousReady,
       WaitPid
<1>3. CASE ConnectionThread \/ SpuriousSlot
  BY <1>3 DEF ConnectionThread, LockSlot, CheckSlot, WakeSlot, SpuriousSlot,
       CancelSlotWait, ReadChunk, ReadEnds, WriteChunk, WriteFails, WriteKills,
       ReleaseSlot, CloseClient, CancelService
<1>4. CASE AcceptThread
  BY <1>4 DEF AcceptThread, Accept, AcceptCancelled, TryLock, TestCancel,
       Signal, InspectSlot, Drop, Reject, RejectKills, AcceptClose,
       AcceptDiesClosing
<1>5. CASE ChildStep \/ \E c \in Clients : ClientStep(c)
  BY <1>5 DEF ChildStep, ChildStarts, ChildExec, ChildReportsError, ChildEnds,
       ChildReadsStdin, ChildClosesStdin, ClientStep, Connect, Send, Hangup
<1> QED
  BY <1>1, <1>2, <1>3, <1>4, <1>5, Actors

\* The main thread is at step s and need not wait there.
MainFree(s) == MainAt(s) /\ (s \in DOMAIN Joined => pc[Joined[s]] = "ended")

LEMMA MainFreeStays ==
  ASSUME IInv, NEW s \in FollowingSteps, MainFree(s), [Next]_vars
  PROVE  process' # "running" \/ MainFree(s)' \/ MainAt(Following(s))'
<1>1. MainAt(s)
  BY DEF MainFree
<1>2. s \in DOMAIN Joined => pc'[Joined[s]] = "ended"
  <2>1. CASE UNCHANGED vars
    BY <2>1 DEF vars, MainFree
  <2>2. ASSUME s \in DOMAIN Joined, Next PROVE pc'[Joined[s]] = "ended"
    <3>1. Joined[s] \in Workers
      BY <2>2 DEF Joined, Workers, Threads
    <3> QED
      BY <1>1, <2>2, <3>1, EndedStays DEF MainFree, MainAt
  <2> QED
    BY <2>1, <2>2
<1> QED
  BY <1>1, <1>2, MainStays DEF MainFree

LEMMA MainGoesOn ==
  ASSUME NEW s \in FollowingSteps, NEW next, next = Following(s)
  PROVE  Spec /\ Fairness /\ []CanStepIsEnabled
           => (MainFree(s) ~> process # "running" \/ MainAt(next))
<1>1. IInv /\ MainFree(s) /\ [Next]_vars
        => MainFree(s)' \/ (process # "running" \/ MainAt(next))'
  BY MainFreeStays
<1>2. IInv /\ MainFree(s) /\ <<ThreadStep("main")>>_vars
        => (process # "running" \/ MainAt(next))'
  <2> SUFFICES ASSUME IInv, MainFree(s), ThreadStep("main"),
                      process' = "running"
               PROVE  MainAt(Following(s))'
    OBVIOUS
  <2>1. MainAt(s) /\ MainThread /\ Next
    BY DEF MainFree, ThreadStep, Next, Threads
  <2> QED
    BY <2>1, MainForward, EndIsFinal DEF MainAt
<1>3. MainFree(s) => CanStep("main")
  BY DEF MainFree, MainAt, CanStep, FollowingSteps
<1> QED
  BY <1>1, <1>2, <1>3, Invariance, PTL DEF Spec, Fairness, CanStepIsEnabled

\* A thread that main joins comes nearer to its end with every step of its own.
LEMMA RankFalls ==
  ASSUME IInv, WaitInv, NEW s \in DOMAIN Joined, MainAt(s),
         ThreadStep(Joined[s])
  PROVE  process' # "running" \/ Rank(Joined[s])' < Rank(Joined[s])
<1> DEFINE t == Joined[s]
<1> USE DEF IInv, TypeOK, PcType, SyncType, Threads, Workers, Rank
<1>1. /\ t \in Workers /\ condition
      /\ t \in {"accept", "client_connection"} => t \in cancelled
  BY DEF Joined, MainAt, WaitInv, AskedInv
<1>2. CASE t = "child_wait"
  <2>1. ReadyWait("child_wait") \/ WaitPid
    BY <1>2 DEF ThreadStep
  <2>2. \/ /\ pc["child_wait"] \in {"await_ready", "ready_wait"}
           /\ pc'["child_wait"] \in {"waitpid", "ended"}
        \/ pc["child_wait"] = "waitpid" /\ pc'["child_wait"] = "ended"
    BY <1>1, <2>1 DEF ReadyWait, LockReady, WakeReady, CancelReady, AfterReady,
       WaitPid
  <2>3. Rank("child_wait")' < Rank("child_wait")
    BY <2>2 DEF Rank
  <2> QED
    BY <1>2, <2>3
<1>3. CASE t = "accept"
  <2>1. ReadyWait("accept") \/ AcceptThread
    BY <1>3 DEF ThreadStep
  <2>2. \/ process' # "running"
        \/ pc'["accept"] = "ended" /\ pc["accept"] # "ended"
        \/ /\ pc["accept"] \in {"await_ready", "ready_wait", "signal"}
           /\ pc'["accept"] = "accept"
        \/ /\ pc["accept"] = "trylock"
           /\ pc'["accept"] \in {"testcancel", "busy"}
        \/ /\ pc["accept"] = "busy"
           /\ pc'["accept"] \in {"drop", "reject"}
    BY <1>1, <1>3, <2>1 DEF ReadyWait, LockReady, WakeReady, CancelReady,
       AfterReady, AcceptThread, Accept, AcceptCancelled, TryLock, TestCancel,
       Signal, InspectSlot, Drop, Reject, RejectKills, AcceptClose,
       AcceptDiesClosing, ProcessEnds
  <2>3. process' # "running" \/ Rank("accept")' < Rank("accept")
    BY <2>2 DEF Rank
  <2> QED
    BY <1>3, <2>3
<1>4. CASE t = "client_connection"
  <2>1. ConnectionThread
    BY <1>4 DEF ThreadStep
  <2>2. LET from == pc["client_connection"]
            to   == pc'["client_connection"]
        IN  \/ process' # "running"
            \/ to = "ended" /\ from # "ended"
            \/ from = "slot_lock" /\ to = "slot_check"
            \/ from = "slot_check" /\ to \in {"read", "cleanup"}
            \/ /\ from = "slot_check" /\ to = "slot_wait"
               /\ "client_connection" \notin woken'
            \/ /\ from = "slot_wait" /\ to = "slot_check"
               /\ "client_connection" \in woken
            \/ from = "cleanup" /\ to = "close"
    BY <1>1, <1>4, <2>1 DEF ConnectionThread, LockSlot, CheckSlot, WakeSlot,
       CancelSlotWait, ReadChunk, ReadEnds, WriteChunk, WriteFails, WriteKills,
       ReleaseSlot, CloseClient, CancelService, ProcessEnds, WaitInv, WokenInv
  <2>3. \/ process' # "running"
        \/ Rank("client_connection")' < Rank("client_connection")
    BY <2>2 DEF Rank
  <2> QED
    BY <1>4, <2>3
<1> QED
  BY <1>1, <1>2, <1>3, <1>4

\* No step takes it back: nobody signals a thread that is about to end.
LEMMA RankNeverRises ==
  ASSUME IInv, WaitInv, NEW s \in DOMAIN Joined, MainAt(s), Next
  PROVE  Rank(Joined[s])' <= Rank(Joined[s])
<1> DEFINE t == Joined[s]
<1> USE DEF IInv, TypeOK, PcType, SyncType, Threads, Workers
<1>0. /\ t \in Workers /\ pc["main"] = s /\ condition
      /\ t \in {"accept", "client_connection"} => t \in cancelled
      /\ t = "client_connection" => Gone("accept")
  BY DEF Joined, MainAt, WaitInv, AskedInv, CancelInv
<1>1. Rank(t) \in 0..4 /\ Rank(t)' \in 0..4
  BY DEF Rank
<1>2. ASSUME pc'[t] = pc[t], woken' \cap {t} = woken \cap {t}
      PROVE  Rank(t)' <= Rank(t)
  BY <1>1, <1>2 DEF Rank
<1>3. CASE MainThread
  <2>1. ASSUME NEW u, NEW from, NEW next, Join(u, from, next)
        PROVE  pc'[t] = pc[t] /\ woken' = woken
    BY <1>0, <2>1 DEF Join
  <2>2. ASSUME NEW u, NEW from, NEW next, Cancel(u, from, next)
        PROVE  pc'[t] = pc[t] /\ woken' = woken
    BY <1>0, <2>2 DEF Cancel
  <2>3. AwaitChildDeath \/ Teardown
    BY <1>3, <1>0 DEF MainThread, CreateThreads, CreateThread, SetupPipes,
       ForkFails, Fork, ReadReport, Reap, Publish, Broadcast, ClosePipes,
       Destroy, UnlinkAndExit, Joined
  <2>4. pc'[t] = pc[t] /\ woken' = woken
    BY <2>1, <2>2, <2>3 DEF AwaitChildDeath, Teardown
  <2> QED
    BY <2>4, <1>2
<1>4. CASE \/ \E u \in {"child_wait", "accept"} :
                ReadyWait(u) \/ SpuriousReady(u)
           \/ WaitPid
  <2>1. \/ pc'[t] = pc[t] /\ woken' \cap {t} = woken \cap {t}
        \/ /\ pc[t] \in {"await_ready", "ready_wait"}
           /\ pc'[t] \in {"accept", "waitpid", "ended"}
        \/ pc[t] = "waitpid" /\ pc'[t] = "ended"
    <3>1. ASSUME NEW u \in {"child_wait", "accept"},
                 ReadyWait(u) \/ SpuriousReady(u)
          PROVE  /\ u # t => pc'[t] = pc[t] /\ woken' \cap {t} = woken \cap {t}
                 /\ pc[u] \in {"await_ready", "ready_wait"}
                 /\ pc'[u] \in {"accept", "waitpid", "ended"}
      <4>1. AfterReady[u] \in {"accept", "waitpid"}
        BY DEF AfterReady
      <4>2. CASE LockReady(u) \/ CancelReady(u)
        BY <1>0, <4>1, <4>2 DEF LockReady, CancelReady
      <4>3. CASE WakeReady(u) \/ SpuriousReady(u)
        BY <1>0, <4>1, <4>3 DEF WakeReady, SpuriousReady
      <4> QED
        BY <3>1, <4>2, <4>3 DEF ReadyWait
    <3>2. CASE WaitPid
      BY <1>0, <3>2 DEF WaitPid
    <3> QED
      BY <1>4, <3>1, <3>2
  <2>2. CASE pc[t] \in {"await_ready", "ready_wait", "waitpid"}
             /\ pc'[t] \in {"accept", "waitpid", "ended"}
    BY <1>1, <2>2 DEF Rank
  <2> QED
    BY <2>1, <2>2, <1>2
<1>5. CASE ConnectionThread \/ SpuriousSlot
  <2>1. CASE ThreadStep("client_connection") /\ t = "client_connection"
             /\ process' = "running"
    BY <2>1, <1>1, RankFalls
  <2>2. CASE t # "client_connection" \/ process' # "running"
    <3>1. pc'[t] = pc[t] /\ woken' \cap {t} = woken \cap {t}
      BY <1>0, <1>5, <2>2 DEF ConnectionThread, LockSlot, CheckSlot, WakeSlot,
         SpuriousSlot, CancelSlotWait, ReadChunk, ReadEnds, WriteChunk,
         WriteFails, WriteKills, ReleaseSlot, CloseClient, CancelService,
         ProcessEnds, MainAt
    <3> QED
      BY <3>1, <1>2
  <2> QED
    BY <1>0, <1>5, <2>1, <2>2 DEF ThreadStep, MainAt, SpuriousSlot
<1>6. CASE AcceptThread
  <2>1. CASE ThreadStep("accept") /\ t = "accept" /\ process' = "running"
    BY <2>1, <1>1, RankFalls
  <2>2. CASE t # "accept" \/ process' # "running"
    <3>1. pc'[t] = pc[t] /\ woken' \cap {t} = woken \cap {t}
      BY <1>0, <1>6, <2>2 DEF AcceptThread, Accept, AcceptCancelled, TryLock,
         TestCancel, Signal, InspectSlot, Drop, Reject, RejectKills,
         AcceptClose, AcceptDiesClosing, ProcessEnds, Gone, MainAt
    <3> QED
      BY <3>1, <1>2
  <2> QED
    BY <1>0, <1>6, <2>1, <2>2 DEF ThreadStep, MainAt
<1>7. CASE ChildStep \/ \E c \in Clients : ClientStep(c)
  <2>1. UNCHANGED <<pc, woken>>
    BY <1>7 DEF ChildStep, ChildStarts, ChildExec, ChildReportsError, ChildEnds,
       ChildReadsStdin, ChildClosesStdin, ClientStep, Connect, Send, Hangup
  <2> QED
    BY <2>1, <1>2
<1> QED
  BY <1>3, <1>4, <1>5, <1>6, <1>7, Actors

\* Before it has ended, it can always take one.
LEMMA RankIsBounded ==
  ASSUME IInv, WaitInv, NEW s \in DOMAIN Joined, MainAt(s)
  PROVE  /\ Rank(Joined[s]) \in 0..4
         /\ Rank(Joined[s]) = 0 => MainFree(s)
         /\ Rank(Joined[s]) > 0 => CanStep(Joined[s])
<1>1. pc[Joined[s]] = "ended" \/ CanStep(Joined[s])
  BY JoinedMoves DEF JoinedCanMove, MainAt
<1> QED
  BY <1>1 DEF Rank, MainFree

\* The joined thread has n steps before it at most.
JoinsWithin(s, n) == MainAt(s) /\ Rank(Joined[s]) <= n

LEMMA JoinedComesNearer ==
  ASSUME NEW s \in DOMAIN Joined, NEW next, next = Following(s),
         NEW n \in Nat, NEW m \in Nat, n = m + 1
  PROVE  Spec /\ Fairness /\ []CanStepIsEnabled
           => (JoinsWithin(s, n) ~> \/ process # "running" \/ MainAt(next)
                                    \/ JoinsWithin(s, m))
<1> DEFINE t == Joined[s]
           P == JoinsWithin(s, n) /\ ~JoinsWithin(s, m)
           Q == process # "running" \/ MainAt(next) \/ JoinsWithin(s, m)
<1>1. IInv /\ WaitInv /\ P /\ [Next]_vars => P' \/ Q'
  <2> SUFFICES ASSUME IInv, WaitInv, P, [Next]_vars, ~MainAt(next)',
                      process' = "running"
               PROVE  JoinsWithin(s, n)'
    OBVIOUS
  <2>1. CASE UNCHANGED vars
    BY <2>1 DEF vars, JoinsWithin, MainAt, ChildEnded, Rank
  <2>2. CASE Next
    <3>1. MainAt(s)'
      BY MainStays DEF JoinsWithin, Joined, FollowingSteps
    <3>2. Rank(t)' <= Rank(t)
      BY <2>2, RankNeverRises DEF JoinsWithin
    <3>3. Rank(t) \in 0..4
      BY RankIsBounded DEF JoinsWithin
    <3>4. Rank(t)' \in 0..4
      BY DEF Rank
    <3> QED
      BY <3>1, <3>2, <3>3, <3>4 DEF JoinsWithin
  <2> QED
    BY <2>1, <2>2
<1>2. IInv /\ WaitInv /\ P /\ <<ThreadStep(t)>>_vars => Q'
  <2> SUFFICES ASSUME IInv, WaitInv, P, ThreadStep(t), ~MainAt(next)',
                      process' = "running"
               PROVE  JoinsWithin(s, m)'
    OBVIOUS
  <2>1. Next
    BY DEF Next, ThreadStep, Threads
  <2>2. MainAt(s)'
    BY <2>1, MainStays DEF JoinsWithin, Joined, FollowingSteps
  <2>3. Rank(t)' < Rank(t)
    BY RankFalls DEF JoinsWithin
  <2>4. Rank(t) \in 0..4
    BY RankIsBounded DEF JoinsWithin
  <2>5. Rank(t)' \in 0..4
    BY DEF Rank
  <2> QED
    BY <2>2, <2>3, <2>4, <2>5 DEF JoinsWithin
<1>3. IInv /\ WaitInv /\ P => CanStep(t)
  <2> SUFFICES ASSUME IInv, WaitInv, P PROVE CanStep(t)
    OBVIOUS
  <2> QED
    BY RankIsBounded DEF JoinsWithin
<1> HIDE DEF P, Q
<1>4. CASE t = "child_wait"
  <2>1. IInv /\ WaitInv /\ P /\ <<ThreadStep("child_wait")>>_vars => Q'
    BY <1>2, <1>4
  <2>2. IInv /\ WaitInv /\ P => CanStep("child_wait")
    BY <1>3, <1>4
  <2>3. Spec /\ Fairness /\ []CanStepIsEnabled => (P ~> Q)
    BY <1>1, <2>1, <2>2, Invariance, WaitInvariance, PTL
       DEF Spec, Fairness, CanStepIsEnabled
  <2> QED
    BY <2>3, PTL DEF P, Q
<1>5. CASE t = "accept"
  <2>1. IInv /\ WaitInv /\ P /\ <<ThreadStep("accept")>>_vars => Q'
    BY <1>2, <1>5
  <2>2. IInv /\ WaitInv /\ P => CanStep("accept")
    BY <1>3, <1>5
  <2>3. Spec /\ Fairness /\ []CanStepIsEnabled => (P ~> Q)
    BY <1>1, <2>1, <2>2, Invariance, WaitInvariance, PTL
       DEF Spec, Fairness, CanStepIsEnabled
  <2> QED
    BY <2>3, PTL DEF P, Q
<1>6. CASE t = "client_connection"
  <2>1. IInv /\ WaitInv /\ P /\ <<ThreadStep("client_connection")>>_vars => Q'
    BY <1>2, <1>6
  <2>2. IInv /\ WaitInv /\ P => CanStep("client_connection")
    BY <1>3, <1>6
  <2>3. Spec /\ Fairness /\ []CanStepIsEnabled => (P ~> Q)
    BY <1>1, <2>1, <2>2, Invariance, WaitInvariance, PTL
       DEF Spec, Fairness, CanStepIsEnabled
  <2> QED
    BY <2>3, PTL DEF P, Q
<1> QED
  BY <1>4, <1>5, <1>6 DEF Joined

LEMMA JoinedEnds ==
  ASSUME NEW s \in DOMAIN Joined, NEW next, next = Following(s)
  PROVE  Spec /\ Fairness /\ []CanStepIsEnabled
           => (MainAt(s) ~> process # "running" \/ MainAt(next))
<1> DEFINE Nearer(n, m) ==
      Spec /\ Fairness /\ []CanStepIsEnabled
        => (JoinsWithin(s, n) ~> \/ process # "running" \/ MainAt(next)
                                 \/ JoinsWithin(s, m))
<1>1. IInv /\ WaitInv /\ MainAt(s) => JoinsWithin(s, 4)
  BY RankIsBounded DEF JoinsWithin
<1>2. ASSUME NEW n \in Nat, NEW m \in Nat, n = m + 1 PROVE Nearer(n, m)
  BY <1>2, JoinedComesNearer
<1> HIDE DEF Nearer
<1>3. Nearer(4, 3) /\ Nearer(3, 2) /\ Nearer(2, 1) /\ Nearer(1, 0)
  BY <1>2
<1>6. IInv /\ WaitInv /\ JoinsWithin(s, 0) => MainFree(s)
  BY RankIsBounded DEF JoinsWithin
<1>7. Spec /\ Fairness /\ []CanStepIsEnabled
        => (MainFree(s) ~> process # "running" \/ MainAt(next))
  BY MainGoesOn DEF Joined, FollowingSteps
<1> QED
  BY <1>1, <1>3, <1>6, <1>7, Invariance, WaitInvariance, PTL DEF Nearer

\* Every step of the way is behind the main thread in the end.
LEMMA MainPasses ==
  ASSUME NEW s \in FollowingSteps, NEW next, next = Following(s)
  PROVE  Spec /\ Fairness /\ []CanStepIsEnabled
           => (MainAt(s) ~> process # "running" \/ MainAt(next))
<1>1. CASE s \in DOMAIN Joined
  BY <1>1, JoinedEnds
<1>2. CASE s \notin DOMAIN Joined
  <2>1. MainAt(s) => MainFree(s)
    BY <1>2 DEF MainFree
  <2>2. Spec /\ Fairness /\ []CanStepIsEnabled
          => (MainFree(s) ~> process # "running" \/ MainAt(next))
    BY MainGoesOn
  <2> QED
    BY <2>1, <2>2, PTL
<1> QED
  BY <1>1, <1>2

\* Once the child is announced and has ended, the server ends too: the main
\* thread passes every step of its way out, whatever the threads it joins were
\* doing when they were cancelled.
THEOREM FollowsChild ==
  Spec /\ Fairness /\ []CanStepIsEnabled => ServerFollowsChild
<1> DEFINE Go(s, next) ==
      Spec /\ Fairness /\ []CanStepIsEnabled
        => (MainAt(s) ~> process # "running" \/ MainAt(next))
<1>1. ASSUME NEW s \in FollowingSteps, NEW next, next = Following(s)
      PROVE  Go(s, next)
  BY <1>1, MainPasses
<1> HIDE DEF Go
<1>2. /\ Go("broadcast", "parent_join_child_wait")
      /\ Go("parent_join_child_wait", "parent_cancel_accept")
      /\ Go("parent_cancel_accept", "parent_join_accept")
      /\ Go("parent_join_accept", "close_pipes")
      /\ Go("close_pipes", "cancel_accept")
      /\ Go("cancel_accept", "join_accept")
      /\ Go("join_accept", "cancel_client_connection")
      /\ Go("cancel_client_connection", "join_client_connection")
      /\ Go("join_client_connection", "cancel_child_wait")
      /\ Go("cancel_child_wait", "join_child_wait")
      /\ Go("join_child_wait", "destroy")
      /\ Go("destroy", "unlink")
      /\ Go("unlink", "done")
  BY <1>1 DEF FollowingSteps, Following
<1>3. IInv /\ WaitInv => ~MainAt("done")
  BY DEF WaitInv, AskedInv, MainAt
<1>4. IInv /\ condition /\ ChildEnded
        => \/ process # "running"
           \/ MainAt("broadcast") \/ MainAt("parent_join_child_wait")
           \/ MainAt("parent_cancel_accept") \/ MainAt("parent_join_accept")
           \/ MainAt("close_pipes") \/ MainAt("cancel_accept")
           \/ MainAt("join_accept") \/ MainAt("cancel_client_connection")
           \/ MainAt("join_client_connection")
           \/ MainAt("cancel_child_wait") \/ MainAt("join_child_wait")
           \/ MainAt("destroy") \/ MainAt("unlink") \/ MainAt("done")
  BY DEF IInv, TypeOK, PcType, MainSteps, LatchInv, BeforePublish, MainAt,
         ChildType
<1> QED
  BY <1>2, <1>3, <1>4, Invariance, WaitInvariance, PTL
     DEF ServerFollowsChild, Go

-----------------------------------------------------------------------------
(* Nobody is left in the backlog.                                          *)

\* A server that has ended has no connections, and no accept thread ends unless
\* main wants it to.
LEMMA BacklogInvariance == Spec => []BacklogInv
<1>1. Init => BacklogInv
  BY ServerAssumption DEF Init, BacklogInv, Threads
<1>2. IInv /\ BacklogInv /\ [Next]_vars => BacklogInv'
  <2> SUFFICES ASSUME IInv, BacklogInv, [Next]_vars PROVE BacklogInv'
    OBVIOUS
  <2> USE DEF IInv, TypeOK, PcType, SocketType, SyncType, BacklogInv, Threads,
              Workers
  <2>1. CASE UNCHANGED vars
    BY <2>1 DEF vars
  <2>2. CASE MainThread
    BY <2>2, ServerAssumption DEF MainThread, CreateThreads, CreateThread,
       FirstStep, SetupPipes, ForkFails, Fork, ReadReport, Reap, Publish,
       Broadcast, AwaitChildDeath, ClosePipes, Teardown, Cancel, Join, Destroy,
       UnlinkAndExit, ProcessEnds
  <2>3. CASE \/ \E t \in {"child_wait", "accept"} :
                  ReadyWait(t) \/ SpuriousReady(t)
             \/ WaitPid
    BY <2>3 DEF ReadyWait, LockReady, WakeReady, CancelReady, SpuriousReady,
       AfterReady, WaitPid
  <2>4. CASE process = "running" /\ (ConnectionThread \/ SpuriousSlot)
    BY <2>4, ServerAssumption DEF ConnectionThread, LockSlot, CheckSlot,
       WakeSlot, SpuriousSlot, CancelSlotWait, ReadChunk, ReadEnds, WriteChunk,
       WriteFails, WriteKills, ReleaseSlot, CloseClient, CancelService,
       ProcessEnds
  <2>5. CASE process = "running" /\ AcceptThread
    BY <2>5, ServerAssumption DEF AcceptThread, Accept, AcceptCancelled,
       TryLock, TestCancel, Signal, InspectSlot, Drop, Reject, RejectKills,
       AcceptClose, AcceptDiesClosing, ProcessEnds
  <2>6. CASE ChildStep
    BY <2>6 DEF ChildStep, ChildStarts, ChildExec, ChildReportsError,
       ChildEnds, ChildReadsStdin, ChildClosesStdin
  <2>7. CASE \E c \in Clients : ClientStep(c)
    BY <2>7, ServerAssumption DEF ClientStep, Connect, Send, Hangup
  <2> QED
    BY <2>1, <2>2, <2>3, <2>4, <2>5, <2>6, <2>7, Actors
<1> QED
  BY <1>1, <1>2, Invariance, PTL DEF Spec

\* The child that was announced lives, and the main thread is at step s.
ServingAt(s) ==
  condition /\ ~ChildEnded /\ process = "running" /\ pc["main"] = s

\* As long as it lives main has cancelled nobody.
LEMMA ServingState ==
  ASSUME IInv, NEW s, ServingAt(s)
  PROVE  /\ s \in {"broadcast", "parent_join_child_wait"}
         /\ cancelled = {} /\ child_ready_mutex = Free
         /\ pc["child_wait"] # "ended"
BY DEF IInv, CancelInv, LatchInv, BeforeCancels, ServingAt, Free

\* Main goes on only to wait for the child's end.
LEMMA ServingStep ==
  ASSUME IInv, NEW s, ServingAt(s), Next
  PROVE  /\ condition'
         /\ \/ pc'["main"] = s
            \/ s = "broadcast" /\ pc'["main"] = "parent_join_child_wait"
<1> USE ServingState DEF IInv, TypeOK, PcType, ServingAt, Threads
<1>1. CASE MainThread
  BY <1>1 DEF MainThread, CreateThreads, CreateThread, SetupPipes, ForkFails,
       Fork, ReadReport, Reap, Publish, Broadcast, AwaitChildDeath, ClosePipes,
       Teardown, Cancel, Join, Destroy, UnlinkAndExit
<1>2. CASE \/ \E t \in {"child_wait", "accept"} :
                ReadyWait(t) \/ SpuriousReady(t)
           \/ WaitPid
  BY <1>2 DEF ReadyWait, LockReady, WakeReady, CancelReady, SpuriousReady,
       WaitPid
<1>3. CASE ConnectionThread \/ SpuriousSlot
  BY <1>3 DEF ConnectionThread, LockSlot, CheckSlot, WakeSlot, SpuriousSlot,
       CancelSlotWait, ReadChunk, ReadEnds, WriteChunk, WriteFails, WriteKills,
       ReleaseSlot, CloseClient, CancelService
<1>4. CASE AcceptThread
  BY <1>4 DEF AcceptThread, Accept, AcceptCancelled, TryLock, TestCancel,
       Signal, InspectSlot, Drop, Reject, RejectKills, AcceptClose,
       AcceptDiesClosing
<1>5. CASE ChildStep \/ \E c \in Clients : ClientStep(c)
  BY <1>5 DEF ChildStep, ChildStarts, ChildExec, ChildReportsError, ChildEnds,
       ChildReadsStdin, ChildClosesStdin, ClientStep, Connect, Send, Hangup
<1> QED
  BY <1>1, <1>2, <1>3, <1>4, <1>5, Actors

\* The steps of the accept thread up to and including its next accept(2).
AcceptRank ==
  CASE pc["accept"] = "accept" -> 1
    [] pc["accept"] \in {"await_ready", "ready_wait", "signal", "close"} -> 2
    [] pc["accept"] \in {"testcancel", "drop", "reject"} -> 3
    [] pc["accept"] = "busy" -> 4
    [] OTHER -> 5

\* Main waits for the child, and the accept thread has at most n steps to go to
\* the end of the accept(2) that takes client c from the backlog.
TakenWithin(c, n) ==
  /\ ServingAt("parent_join_child_wait")
  /\ \E i \in DOMAIN backlog :
       backlog[i] = c /\ 5 * (i - 1) + AcceptRank <= n

\* Client c has left the backlog, or the server is about to end.
Released(c) == ~InBacklog(c) \/ (condition /\ ChildEnded)

\* A step of the accept thread brings it nearer to every client that waits.
LEMMA AcceptComesNearer ==
  ASSUME IInv, ServingAt("parent_join_child_wait"), process' = "running",
         ReadyWait("accept") \/ SpuriousReady("accept") \/ AcceptThread
  PROVE  \/ backlog' = Tail(backlog) /\ AcceptRank = 1 /\ AcceptRank' = 5
         \/ backlog' = backlog /\ AcceptRank' < AcceptRank
<1> USE DEF IInv, TypeOK, PcType, Threads, AcceptRank
<1>1. cancelled = {} /\ condition
  BY ServingState DEF ServingAt
<1>2. CASE Accept
  BY <1>2 DEF Accept
<1>3. CASE ReadyWait("accept") \/ SpuriousReady("accept")
  <2>1. /\ pc["accept"] \in {"await_ready", "ready_wait"}
        /\ pc'["accept"] = "accept" /\ backlog' = backlog
    BY <1>1, <1>3 DEF ReadyWait, LockReady, WakeReady, CancelReady,
       SpuriousReady, AfterReady
  <2> QED
    BY <2>1
<1>4. CASE AcceptThread /\ ~Accept
  <2>1. /\ backlog' = backlog
        /\ \/ pc["accept"] = "trylock" /\ pc'["accept"] \in {"testcancel", "busy"}
           \/ pc["accept"] = "busy" /\ pc'["accept"] \in {"drop", "reject"}
           \/ pc["accept"] = "testcancel" /\ pc'["accept"] = "signal"
           \/ pc["accept"] \in {"drop", "reject"} /\ pc'["accept"] = "close"
           \/ pc["accept"] \in {"signal", "close"} /\ pc'["accept"] = "accept"
    BY <1>1, <1>4 DEF AcceptThread, AcceptCancelled, TryLock, TestCancel,
       Signal, InspectSlot, Drop, Reject, RejectKills, AcceptClose,
       AcceptDiesClosing, ProcessEnds, ServingAt
  <2> QED
    BY <2>1
<1> QED
  BY <1>2, <1>3, <1>4

\* Any other step leaves those who wait where they are.
LEMMA BacklogKept ==
  ASSUME IInv, NEW s, ServingAt(s), process' = "running", Next,
         ~(ReadyWait("accept") \/ SpuriousReady("accept") \/ AcceptThread)
  PROVE  /\ pc'["accept"] = pc["accept"] /\ accept_fd' = accept_fd
         /\ backlog' = backlog \/ \E c \in Clients : backlog' = Append(backlog, c)
<1> USE ServingState DEF IInv, TypeOK, PcType, Threads, ServingAt
<1>1. CASE MainThread
  BY <1>1 DEF MainThread, CreateThreads, CreateThread, SetupPipes, ForkFails,
       Fork, ReadReport, Reap, Publish, Broadcast, AwaitChildDeath, ClosePipes,
       Teardown, Cancel, Join, Destroy, UnlinkAndExit
<1>2. CASE ReadyWait("child_wait") \/ SpuriousReady("child_wait") \/ WaitPid
  BY <1>2 DEF ReadyWait, LockReady, WakeReady, CancelReady, SpuriousReady,
       WaitPid
<1>3. CASE ConnectionThread \/ SpuriousSlot
  BY <1>3 DEF ConnectionThread, LockSlot, CheckSlot, WakeSlot, SpuriousSlot,
       CancelSlotWait, ReadChunk, ReadEnds, WriteChunk, WriteFails, WriteKills,
       ReleaseSlot, CloseClient, CancelService, ProcessEnds
<1>4. CASE ChildStep \/ \E c \in Clients : ClientStep(c)
  BY <1>4 DEF ChildStep, ChildStarts, ChildExec, ChildReportsError, ChildEnds,
       ChildReadsStdin, ChildClosesStdin, ClientStep, Connect, Send, Hangup
<1> QED
  BY <1>1, <1>2, <1>3, <1>4, Actors

\* No step moves a client back, and a step of the accept thread moves it on.
LEMMA TakenStep ==
  ASSUME IInv, PlacesInv, BacklogInv, BacklogInv', NEW c \in Clients,
         NEW n \in Nat, TakenWithin(c, n), Next
  PROVE  /\ Released(c)' \/ TakenWithin(c, n)'
         /\ ThreadStep("accept")
              => Released(c)' \/ TakenWithin(c, n - 1)'
<1> DEFINE Acts == ReadyWait("accept") \/ SpuriousReady("accept") \/ AcceptThread
<1>1. CASE process' # "running" \/ ChildEnded'
  BY <1>1, ServingStep DEF BacklogInv, Released, InBacklog, TakenWithin
<1>2. CASE process' = "running" /\ ~ChildEnded'
  <2>1. ServingAt("parent_join_child_wait")'
    BY <1>2, ServingStep DEF TakenWithin, ServingAt
  <2>2. PICK i \in DOMAIN backlog :
          backlog[i] = c /\ 5 * (i - 1) + AcceptRank <= n
    BY DEF TakenWithin
  <2>3. backlog \in Seq(Clients) /\ i \in 1..Len(backlog) /\ Len(backlog) \in Nat
    BY DEF IInv, TypeOK, SocketType
  <2>4. AcceptRank \in 1..5 /\ AcceptRank' \in 1..5
    BY DEF AcceptRank
  <2>5. n - 1 \in Nat
    BY <2>2, <2>3, <2>4
  <2>6. ASSUME NEW j \in DOMAIN backlog', NEW m \in Nat, backlog'[j] = c,
               5 * (j - 1) + AcceptRank' <= m
        PROVE  TakenWithin(c, m)'
    BY <2>1, <2>6 DEF TakenWithin
  <2>7. CASE Acts
    <3>1. CASE backlog' = Tail(backlog) /\ AcceptRank = 1 /\ AcceptRank' = 5
      <4>1. CASE i = 1
        <5>1. ~InBacklog(c)'
          <6> SUFFICES ASSUME NEW j \in DOMAIN backlog', backlog'[j] = c
                       PROVE  FALSE
            BY DEF InBacklog
          <6>1. j + 1 \in DOMAIN backlog /\ backlog[j + 1] = c /\ j \in Nat \ {0}
            BY <2>3, <3>1
          <6> QED
            BY <2>2, <2>3, <4>1, <6>1 DEF PlacesInv, QueueInv
        <5> QED
          BY <5>1 DEF Released
      <4>2. CASE i # 1
        <5>1. i - 1 \in DOMAIN backlog' /\ backlog'[i - 1] = c
          BY <2>2, <2>3, <3>1, <4>2
        <5>2. 5 * ((i - 1) - 1) + AcceptRank' <= n - 1
          BY <2>2, <2>3, <3>1, <4>2
        <5>3. 5 * ((i - 1) - 1) + AcceptRank' <= n
          BY <2>3, <2>4, <5>2
        <5>4. TakenWithin(c, n - 1)' /\ TakenWithin(c, n)'
          BY <2>6, <2>5, <5>1, <5>2, <5>3
        <5> QED
          BY <5>4
      <4> QED
        BY <4>1, <4>2
    <3>2. CASE backlog' = backlog /\ AcceptRank' < AcceptRank
      <4>1. 5 * (i - 1) + AcceptRank' <= n - 1
        BY <2>2, <2>3, <2>4, <3>2
      <4>2. 5 * (i - 1) + AcceptRank' <= n
        BY <2>3, <2>4, <4>1
      <4>3. TakenWithin(c, n - 1)' /\ TakenWithin(c, n)'
        BY <2>2, <2>3, <2>6, <2>5, <3>2, <4>1, <4>2
      <4> QED
        BY <4>3
    <3> QED
      BY <1>2, <2>7, <3>1, <3>2, AcceptComesNearer DEF TakenWithin
  <2>8. CASE ~Acts
    <3>1. /\ pc'["accept"] = pc["accept"]
          /\ backlog' = backlog \/ \E d \in Clients : backlog' = Append(backlog, d)
      BY <1>2, <2>8, BacklogKept DEF TakenWithin
    <3>2. i \in DOMAIN backlog' /\ backlog'[i] = c
      BY <2>2, <2>3, <3>1
    <3>3. AcceptRank' = AcceptRank
      BY <3>1 DEF AcceptRank
    <3>4. ~ThreadStep("accept")
      BY <2>8 DEF ThreadStep
    <3> QED
      BY <2>1, <2>2, <3>2, <3>3, <3>4 DEF TakenWithin
  <2> QED
    BY <2>7, <2>8
<1> QED
  BY <1>1, <1>2

\* The accept thread has a step as long as somebody waits for it.
LEMMA AcceptCanStep ==
  ASSUME IInv, WaitInv, BacklogInv, NEW c, NEW n, TakenWithin(c, n)
  PROVE  CanStep("accept")
<1>1. /\ cancelled = {} /\ child_ready_mutex = Free /\ backlog # <<>>
      /\ pc["main"] = "parent_join_child_wait" /\ condition
      /\ process = "running"
  BY ServingState DEF TakenWithin, ServingAt, IInv, TypeOK, SocketType
<1>2. pc["accept"] \in AcceptSteps \ {"none", "ended"}
  BY <1>1 DEF IInv, TypeOK, PcType, WaitInv, CreatedInv, BacklogInv
<1>3. pc["accept"] = "ready_wait" => "accept" \in woken
  BY <1>1 DEF WaitInv, WakeupsKept
<1> QED
  BY <1>1, <1>2, <1>3 DEF CanStep, AcceptSteps, Joined

LEMMA ComesNearer ==
  ASSUME NEW c \in Clients, NEW n \in Nat, NEW m \in Nat, n = m + 1
  PROVE  Spec /\ Fairness /\ []CanStepIsEnabled
           => (TakenWithin(c, n) ~> Released(c) \/ TakenWithin(c, m))
<1> DEFINE Known == IInv /\ WaitInv /\ PlacesInv /\ BacklogInv
<1>1. /\ Known /\ BacklogInv' /\ TakenWithin(c, n) /\ [Next]_vars
         => TakenWithin(c, n)' \/ Released(c)'
  <2>1. UNCHANGED vars /\ TakenWithin(c, n) => TakenWithin(c, n)'
    BY DEF vars, TakenWithin, ServingAt, ChildEnded, AcceptRank
  <2> QED
    BY <2>1, TakenStep
<1>2. Known /\ BacklogInv' /\ TakenWithin(c, n) /\ <<ThreadStep("accept")>>_vars
        => Released(c)' \/ TakenWithin(c, m)'
  <2>1. ThreadStep("accept") => Next
    BY DEF Next, Threads
  <2>2. n - 1 = m
    OBVIOUS
  <2> QED
    BY <2>1, <2>2, TakenStep
<1>3. Known /\ TakenWithin(c, n) => CanStep("accept")
  BY AcceptCanStep
<1> QED
  BY <1>1, <1>2, <1>3, Invariance, WaitInvariance, PlacesInvariance,
     BacklogInvariance, PTL DEF Spec, Fairness, CanStepIsEnabled

\* Main does not keep the accept thread waiting for the announcement.
LEMMA BroadcastPasses ==
  ASSUME NEW c \in Clients
  PROVE  Spec /\ Fairness /\ []CanStepIsEnabled
           => (ServingAt("broadcast") /\ InBacklog(c)
                 ~> \/ Released(c)
                    \/ ServingAt("parent_join_child_wait") /\ InBacklog(c))
<1> DEFINE P == ServingAt("broadcast") /\ InBacklog(c)
           Q == \/ Released(c)
                \/ ServingAt("parent_join_child_wait") /\ InBacklog(c)
<1>1. IInv /\ BacklogInv' /\ P /\ [Next]_vars => P' \/ Q'
  <2>1. UNCHANGED vars /\ P => P'
    BY DEF vars, ServingAt, InBacklog, ChildEnded
  <2>2. IInv /\ BacklogInv' /\ P /\ Next => P' \/ Q'
    BY ServingStep DEF ServingAt, Released, BacklogInv, InBacklog
  <2> QED
    BY <2>1, <2>2
<1>2. IInv /\ BacklogInv' /\ P /\ <<ThreadStep("main")>>_vars => Q'
  <2> SUFFICES ASSUME IInv, BacklogInv', P, ThreadStep("main") PROVE Q'
    OBVIOUS
  <2>1. Next
    BY DEF Next, Threads
  <2>2. pc'["main"] # "broadcast"
    BY DEF ThreadStep, MainThread, CreateThreads, CreateThread, SetupPipes,
       ForkFails, Fork, ReadReport, Reap, Publish, Broadcast, AwaitChildDeath,
       ClosePipes, Teardown, Cancel, Join, Destroy, UnlinkAndExit, ServingAt,
       IInv, TypeOK, PcType, Threads
  <2> QED
    BY <1>1, <2>1, <2>2 DEF ServingAt
<1>3. P => CanStep("main")
  BY DEF ServingAt, CanStep, Joined
<1> QED
  BY <1>1, <1>2, <1>3, Invariance, BacklogInvariance, PTL
     DEF Spec, Fairness, CanStepIsEnabled

\* Two can be in a backlog of one, and the second is taken after ten steps.
LEMMA OneIsTaken ==
  ASSUME ListenBacklog = 1, NEW c \in Clients
  PROVE  Spec /\ Fairness /\ []CanStepIsEnabled
           => (InBacklog(c) /\ condition ~> ~InBacklog(c))
<1> DEFINE Nearer(n, m) ==
      Spec /\ Fairness /\ []CanStepIsEnabled
        => (TakenWithin(c, n) ~> Released(c) \/ TakenWithin(c, m))
<1>1. ASSUME NEW n \in Nat, NEW m \in Nat, n = m + 1 PROVE Nearer(n, m)
  BY <1>1, ComesNearer
<1> HIDE DEF Nearer
<1>2. /\ Nearer(10, 9) /\ Nearer(9, 8) /\ Nearer(8, 7) /\ Nearer(7, 6)
      /\ Nearer(6, 5) /\ Nearer(5, 4) /\ Nearer(4, 3) /\ Nearer(3, 2)
      /\ Nearer(2, 1) /\ Nearer(1, 0)
  BY <1>1
<1>3. IInv => ~TakenWithin(c, 0)
  BY DEF TakenWithin, AcceptRank, IInv, TypeOK, SocketType
<1>4. IInv /\ BacklogInv /\ InBacklog(c) /\ condition
        => \/ condition /\ ChildEnded
           \/ ServingAt("broadcast") /\ InBacklog(c)
           \/ ServingAt("parent_join_child_wait") /\ InBacklog(c)
  BY ServingState DEF BacklogInv, InBacklog, ServingAt
<1>5. IInv /\ BacklogInv /\ ServingAt("parent_join_child_wait") /\ InBacklog(c)
        => TakenWithin(c, 10)
  <2> SUFFICES ASSUME IInv, BacklogInv, ServingAt("parent_join_child_wait"),
                      InBacklog(c)
               PROVE  TakenWithin(c, 10)
    OBVIOUS
  <2>1. PICK i \in DOMAIN backlog : backlog[i] = c
    BY DEF InBacklog
  <2>2. i \in 1..2
    BY DEF BacklogInv, IInv, TypeOK, SocketType
  <2>3. AcceptRank \in 1..5
    BY DEF AcceptRank
  <2> QED
    BY <2>1, <2>2, <2>3 DEF TakenWithin
<1>6. BacklogInv /\ process # "running" => ~InBacklog(c)
  BY DEF BacklogInv, InBacklog
<1>7. Released(c) => ~InBacklog(c) \/ (condition /\ ChildEnded)
  BY DEF Released
<1>8. Spec /\ Fairness /\ []CanStepIsEnabled
        => (condition /\ ChildEnded ~> process # "running")
  BY FollowsChild DEF ServerFollowsChild
<1> QED
  BY <1>2, <1>3, <1>4, <1>5, <1>6, <1>7, <1>8, BroadcastPasses, Invariance,
     BacklogInvariance, PTL DEF Nearer

-----------------------------------------------------------------------------
(* Nobody is left without an answer.                                       *)

\* c was handed over, or has no connection any more.
Answered(c) == client_fd = c \/ ~(InBacklog(c) \/ c \in fd_open)

\* The steps of the accept thread to the end of its dealing with a client.
HandRank ==
  CASE pc["accept"] = "trylock" -> 4
    [] pc["accept"] = "busy" -> 3
    [] pc["accept"] \in {"drop", "reject"} -> 2
    [] OTHER -> 1

\* The child that was announced lives, and the accept thread has client c in its
\* hand and at most n steps to go.
InHandWithin(c, n) ==
  /\ ServingAt(pc["main"])
  /\ accept_fd = c /\ Undecided /\ HandRank <= n

\* The announced child has ended, and the server will.
Over == condition /\ ChildEnded

\* Who leaves the backlog gets into the accept thread's hand.
LEMMA LeavesForHand ==
  ASSUME IInv, BacklogInv', NEW c \in Clients, InBacklog(c), condition,
         ServingAt(pc["main"]), Next
  PROVE  \/ InBacklog(c)' /\ condition'
         \/ InHandWithin(c, 4)' \/ Answered(c)' \/ Over'
<1> USE DEF IInv, TypeOK, PcType, Threads, SocketType
<1>1. condition'
  BY ServingStep
<1>2. CASE process' # "running" \/ ChildEnded'
  BY <1>1, <1>2 DEF BacklogInv, Answered, Over, InBacklog
<1>3. CASE process' = "running" /\ ~ChildEnded'
  <2>1. ServingAt(pc["main"])'
    BY <1>1, <1>3 DEF ServingAt
  <2>2. CASE Accept
    <3>1. CASE Head(backlog) = c
      <4>1. accept_fd' = c /\ pc'["accept"] = "trylock"
        BY <2>2, <3>1 DEF Accept
      <4> QED
        BY <2>1, <4>1 DEF InHandWithin, Undecided, HandRank
    <3>2. CASE Head(backlog) # c
      <4>1. PICK i \in DOMAIN backlog : backlog[i] = c
        BY DEF InBacklog
      <4>2. backlog' = Tail(backlog) /\ i \in 1..Len(backlog) /\ i # 1
        BY <2>2, <3>2, <4>1 DEF Accept
      <4>3. i - 1 \in DOMAIN backlog' /\ backlog'[i - 1] = c
        BY <4>1, <4>2
      <4> QED
        BY <1>1, <4>3 DEF InBacklog
    <3> QED
      BY <3>1, <3>2
  <2>3. CASE ~Accept
    <3>1. backlog' = backlog \/ \E d \in Clients : backlog' = Append(backlog, d)
      <4>1. CASE AcceptThread
        BY <1>3, <2>3, <4>1 DEF AcceptThread, AcceptCancelled, TryLock,
           TestCancel, Signal, InspectSlot, Drop, Reject, RejectKills,
           AcceptClose, AcceptDiesClosing, ProcessEnds
      <4>2. CASE ReadyWait("accept") \/ SpuriousReady("accept")
        BY <4>2 DEF ReadyWait, LockReady, WakeReady, CancelReady, SpuriousReady
      <4> QED
        BY <1>3, <4>1, <4>2, BacklogKept
    <3> QED
      BY <1>1, <3>1 DEF InBacklog
  <2> QED
    BY <2>2, <2>3
<1> QED
  BY <1>2, <1>3

\* What the accept thread does next with the client in its hand.
LEMMA HandComesNearer ==
  ASSUME IInv, PlacesInv, NEW c \in Clients, NEW n \in Nat, InHandWithin(c, n),
         process' = "running",
         ReadyWait("accept") \/ SpuriousReady("accept") \/ AcceptThread
  PROVE  \/ Answered(c)'
         \/ accept_fd' = c /\ Undecided' /\ HandRank' <= n - 1
<1> USE DEF IInv, TypeOK, PcType, Threads, InHandWithin, Undecided, HandRank
<1>1. cancelled = {} /\ accept_fd = c
  BY ServingState
<1>2. ~InBacklog(c)
  BY <1>1 DEF PlacesInv, QueueInv
<1>3. CASE TryLock \/ InspectSlot \/ Drop \/ Reject
  <2>1. \/ client_fd' = c
        \/ /\ accept_fd' = c
           /\ \/ pc["accept"] = "trylock" /\ pc'["accept"] = "busy"
              \/ pc["accept"] = "busy" /\ pc'["accept"] \in {"drop", "reject"}
              \/ pc["accept"] \in {"drop", "reject"} /\ pc'["accept"] = "close"
    BY <1>1, <1>3 DEF TryLock, InspectSlot, Drop, Reject
  <2> QED
    BY <2>1 DEF Answered
<1>4. CASE AcceptClose
  <2>1. backlog' = backlog /\ fd_open' = fd_open \ {c}
    BY <1>1, <1>4 DEF AcceptClose
  <2> QED
    BY <1>2, <2>1 DEF Answered, InBacklog
<1>5. CASE ~(TryLock \/ InspectSlot \/ Drop \/ Reject \/ AcceptClose)
  BY <1>1, <1>5 DEF ReadyWait, LockReady, WakeReady, CancelReady,
     SpuriousReady, AcceptThread, Accept, AcceptCancelled, TestCancel, Signal,
     RejectKills, AcceptDiesClosing, ProcessEnds, ServingAt
<1> QED
  BY <1>3, <1>4, <1>5

\* Nobody else takes the client out of its hand.
LEMMA HandStep ==
  ASSUME IInv, PlacesInv, BacklogInv', NEW c \in Clients, NEW n \in Nat,
         InHandWithin(c, n), Next
  PROVE  /\ Answered(c)' \/ Over' \/ InHandWithin(c, n)'
         /\ ThreadStep("accept")
              => Answered(c)' \/ Over' \/ InHandWithin(c, n - 1)'
<1> DEFINE Acts == ReadyWait("accept") \/ SpuriousReady("accept") \/ AcceptThread
<1>1. condition'
  BY ServingStep DEF InHandWithin
<1>2. CASE process' # "running" \/ ChildEnded'
  BY <1>1, <1>2 DEF BacklogInv, Answered, Over, InBacklog
<1>3. CASE process' = "running" /\ ~ChildEnded'
  <2>1. ServingAt(pc["main"])'
    BY <1>1, <1>3 DEF ServingAt
  <2>2. CASE Acts
    <3>1. \/ Answered(c)'
          \/ accept_fd' = c /\ Undecided' /\ HandRank' <= n - 1
      BY <1>3, <2>2, HandComesNearer
    <3>2. HandRank' \in 1..4
      BY DEF HandRank
    <3> QED
      BY <2>1, <3>1, <3>2 DEF InHandWithin
  <2>3. CASE ~Acts
    <3>1. pc'["accept"] = pc["accept"] /\ accept_fd' = accept_fd
      BY <1>3, <2>3, BacklogKept DEF InHandWithin
    <3>2. ~ThreadStep("accept")
      BY <2>3 DEF ThreadStep
    <3> QED
      BY <2>1, <3>1, <3>2 DEF InHandWithin, Undecided, HandRank
  <2> QED
    BY <2>2, <2>3
<1> QED
  BY <1>2, <1>3

LEMMA HandNearer ==
  ASSUME NEW c \in Clients, NEW n \in Nat, NEW m \in Nat, n = m + 1
  PROVE  Spec /\ Fairness /\ []CanStepIsEnabled
           => (InHandWithin(c, n) ~> Answered(c) \/ Over \/ InHandWithin(c, m))
<1> DEFINE P == InHandWithin(c, n)
           Q == Answered(c) \/ Over \/ InHandWithin(c, m)
<1>1. IInv /\ PlacesInv /\ BacklogInv' /\ P /\ [Next]_vars => P' \/ Q'
  <2>1. UNCHANGED vars /\ P => P'
    BY DEF vars, InHandWithin, ServingAt, ChildEnded, Undecided, HandRank
  <2> QED
    BY <2>1, HandStep
<1>2. IInv /\ PlacesInv /\ BacklogInv' /\ P /\ <<ThreadStep("accept")>>_vars
        => Q'
  <2>1. ThreadStep("accept") => Next
    BY DEF Next, Threads
  <2>2. n - 1 = m
    OBVIOUS
  <2> QED
    BY <2>1, <2>2, HandStep
<1>3. P => CanStep("accept")
  BY DEF InHandWithin, Undecided, ServingAt, CanStep, Joined
<1> HIDE DEF P, Q
<1>4. Spec /\ Fairness /\ []CanStepIsEnabled => (P ~> Q)
  BY <1>1, <1>2, <1>3, Invariance, PlacesInvariance, BacklogInvariance, PTL
     DEF Spec, Fairness, CanStepIsEnabled
<1> QED
  BY <1>4 DEF P, Q

\* Whoever has left the backlog is answered after four steps.
LEMMA OneIsAnswered ==
  ASSUME ListenBacklog = 1, NEW c \in Clients
  PROVE  Spec /\ Fairness /\ []CanStepIsEnabled
           => (InBacklog(c) /\ condition ~> Answered(c))
<1> DEFINE Premise == Spec /\ Fairness /\ []CanStepIsEnabled
           Nearer(n, m) ==
             Premise
               => (InHandWithin(c, n)
                     ~> Answered(c) \/ Over \/ InHandWithin(c, m))
           Queued == InBacklog(c) /\ condition
           Q == InHandWithin(c, 4) \/ Answered(c) \/ Over
<1>1. ASSUME NEW n \in Nat, NEW m \in Nat, n = m + 1 PROVE Nearer(n, m)
  BY <1>1, HandNearer
<1> HIDE DEF Nearer
<1>2. Nearer(4, 3) /\ Nearer(3, 2) /\ Nearer(2, 1) /\ Nearer(1, 0)
  BY <1>1
<1>3. ~InHandWithin(c, 0)
  BY DEF InHandWithin, HandRank
<1>4. IInv /\ BacklogInv /\ BacklogInv' /\ Queued /\ ~Q /\ [Next]_vars
        => Queued' \/ Q'
  <2>1. UNCHANGED vars /\ Queued => Queued'
    BY DEF vars, InBacklog
  <2>2. ~Over /\ BacklogInv /\ Queued => ServingAt(pc["main"])
    BY DEF Over, BacklogInv, ServingAt, InBacklog
  <2> QED
    BY <2>1, <2>2, LeavesForHand
<1>5. Premise => (Queued ~> ~InBacklog(c))
  BY OneIsTaken
<1>6. BacklogInv /\ process # "running" => Answered(c)
  BY DEF BacklogInv, Answered, InBacklog
<1>7. Premise => (Over ~> process # "running")
  BY FollowsChild DEF ServerFollowsChild, Over
<1> HIDE DEF Q
<1>8. Premise => (Queued ~> Q)
  BY <1>4, <1>5, Invariance, BacklogInvariance, PTL DEF Queued, Spec
<1> QED
  BY <1>2, <1>3, <1>6, <1>7, <1>8, BacklogInvariance, PTL DEF Nearer, Q

\* However long a session lasts, whoever is in the backlog of a server that
\* calls listen(2) with 1, as the code does, is handed over once the child is
\* announced, or sent away, or let go when the server ends.
THEOREM QueuedAreAnswered ==
  ListenBacklog = 1
    => (Spec /\ Fairness /\ []CanStepIsEnabled => QueuedIsAnswered)
<1> DEFINE Gets(c) == InBacklog(c) /\ condition ~> Answered(c)
           Premise == Spec /\ Fairness /\ []CanStepIsEnabled
<1> SUFFICES ASSUME ListenBacklog = 1 PROVE Premise => QueuedIsAnswered
  OBVIOUS
<1>1. ASSUME NEW c \in Clients PROVE Premise => Gets(c)
  BY OneIsAnswered
<1> HIDE DEF Premise, Gets
<1>2. Premise => \A c \in Clients : Gets(c)
  BY <1>1
<1> QED
  BY <1>2 DEF QueuedIsAnswered, Gets, Answered, Premise

-----------------------------------------------------------------------------
(* What is handed over is served.                                          *)

\* No session that can still be forwarded is cut short.
LEMMA FinishedInvariance == Spec => []FinishedInv
<1>1. Init => FinishedInv
  BY DEF Init, FinishedInv, Threads
<1>2. IInv /\ PlacesInv /\ FinishedInv /\ [Next]_vars => FinishedInv'
  <2> SUFFICES ASSUME IInv, PlacesInv, FinishedInv, [Next]_vars
               PROVE  FinishedInv'
    OBVIOUS
  <2> USE DEF IInv, TypeOK, PcType, SlotType, SocketType, StreamType,
              FinishedInv, Unread, Threads
  <2>1. CASE UNCHANGED vars
    BY <2>1 DEF vars
  <2>2. CASE MainThread
    <3>1. CASE CreateThreads
      BY <3>1 DEF CreateThreads, CreateThread, FirstStep
    <3>2. CASE ~CreateThreads
      <4> DEFINE Aside ==
            /\ UNCHANGED <<client_fd, ends, sent, received>>
            /\ UNCHANGED pc["client_connection"]
            /\ process' = "running" => process = "running"
      <4>a. SetupPipes \/ ForkFails \/ Fork \/ ReadReport \/ Reap => Aside
        BY DEF SetupPipes, ForkFails, Fork, ReadReport, Reap
      <4>b. Publish \/ Broadcast \/ ClosePipes => Aside
        BY DEF Publish, Broadcast, ClosePipes
      <4>c. AwaitChildDeath \/ Teardown => Aside
        BY DEF AwaitChildDeath, Teardown, Cancel, Join
      <4>d. Destroy \/ UnlinkAndExit => Aside
        BY DEF Destroy, UnlinkAndExit, ProcessEnds
      <4>1. Aside
        BY <2>2, <3>2, <4>a, <4>b, <4>c, <4>d DEF MainThread
      <4>2. pc'["main"] \in {"broadcast", "parent_join_child_wait"}
              => pc["main"] \in {"publish", "broadcast"}
        BY <2>2, <3>2 DEF MainThread, SetupPipes, ForkFails, Fork, ReadReport,
           Reap, Publish, Broadcast, AwaitChildDeath, ClosePipes, Teardown,
           Cancel, Join, Destroy, UnlinkAndExit
      <4>3. pc["main"] = "publish" => pc["client_connection"] # "cleanup"
        BY ServerAssumption DEF LatchInv, BeforePublish, SlotInv
      <4> QED
        BY <4>1, <4>2, <4>3
    <3> QED
      BY <3>1, <3>2
  <2>3. CASE \/ \E t \in {"child_wait", "accept"} :
                  ReadyWait(t) \/ SpuriousReady(t)
             \/ WaitPid
    <3>1. ASSUME NEW t \in {"child_wait", "accept"},
                 ReadyWait(t) \/ SpuriousReady(t)
          PROVE  /\ UNCHANGED <<pc["client_connection"], pc["main"]>>
                 /\ UNCHANGED <<client_fd, ends, sent, received, process>>
      BY <3>1 DEF ReadyWait, LockReady, WakeReady, CancelReady, SpuriousReady
    <3>2. WaitPid
            => /\ UNCHANGED <<pc["client_connection"], pc["main"]>>
               /\ UNCHANGED <<client_fd, ends, sent, received, process>>
      BY DEF WaitPid
    <3> QED
      BY <2>3, <3>1, <3>2
  <2>4. CASE process = "running" /\ (ConnectionThread \/ SpuriousSlot)
    <3>1. CASE LockSlot \/ WakeSlot \/ SpuriousSlot \/ CancelSlotWait
               \/ ReadChunk \/ WriteKills \/ ReleaseSlot \/ CloseClient
               \/ \E from \in {"read", "write"} : CancelService(from)
      BY <3>1 DEF LockSlot, WakeSlot, SpuriousSlot, CancelSlotWait, ReadChunk,
         WriteKills, ReleaseSlot, CloseClient, CancelService, ProcessEnds
    <3>2. UNCHANGED pc["main"]
      BY <2>4 DEF ConnectionThread, LockSlot, CheckSlot, WakeSlot,
         SpuriousSlot, CancelSlotWait, ReadChunk, ReadEnds, WriteChunk,
         WriteFails, WriteKills, ReleaseSlot, CloseClient, CancelService
    <3>3. client_fd # NoClient /\ client_fd \notin fd_open
            => pc["main"] \notin {"broadcast", "parent_join_child_wait"}
      BY <2>4 DEF PlacesInv, OpenInv, CancelInv, BeforeCancels
    <3>4. child_stdin_fd = "closed"
            => pc["main"] \notin {"broadcast", "parent_join_child_wait"}
      BY DEF LatchInv
    <3>5. CASE ReadEnds
      BY <3>5 DEF ReadEnds
    <3>6. CASE WriteFails
      BY <3>2, <3>4, <3>6 DEF WriteFails
    <3>7. CASE CheckSlot
      BY <3>2, <3>3, <3>7 DEF CheckSlot
    <3>8. CASE WriteChunk
      <4>1. client_fd # NoClient
        BY <3>8, ServerAssumption DEF WriteChunk, SlotInv
      <4> QED
        BY <3>2, <3>3, <3>8, <4>1 DEF WriteChunk
    <3> QED
      BY <2>4, <3>1, <3>5, <3>6, <3>7, <3>8 DEF ConnectionThread
  <2>5. CASE process = "running" /\ AcceptThread
    <3>1. /\ pc["client_connection"] = "cleanup" => UNCHANGED client_fd
          /\ UNCHANGED <<pc["client_connection"], pc["main"]>>
      BY <2>5 DEF AcceptThread, Accept, AcceptCancelled, TryLock, TestCancel,
         Signal, InspectSlot, Drop, Reject, RejectKills, AcceptClose,
         AcceptDiesClosing, SlotInv, Free
    <3>2. /\ UNCHANGED <<ends, sent, received>>
          /\ process' = "running" => process = "running"
      BY <2>5 DEF AcceptThread, Accept, AcceptCancelled, TryLock, TestCancel,
         Signal, InspectSlot, Drop, Reject, RejectKills, AcceptClose,
         AcceptDiesClosing
    <3> QED
      BY <3>1, <3>2
  <2>6. CASE ChildStep
    BY <2>6 DEF ChildStep, ChildStarts, ChildExec, ChildReportsError,
       ChildEnds, ChildReadsStdin, ChildClosesStdin
  <2>7. CASE \E c \in Clients : ClientStep(c)
    <3>1. PICK c \in Clients : ClientStep(c)
      BY <2>7
    <3>2. pc["client_connection"] = "cleanup" => client_fd \in Clients
      BY DEF SlotInv
    <3>3. CASE Connect(c)
      BY <3>2, <3>3 DEF Connect
    <3>4. CASE Send(c)
      BY <3>2, <3>4 DEF Send
    <3>5. CASE Hangup(c)
      BY <3>2, <3>5 DEF Hangup
    <3> QED
      BY <3>1, <3>3, <3>4, <3>5 DEF ClientStep
  <2> QED
    BY <2>1, <2>2, <2>3, <2>4, <2>5, <2>6, <2>7, Actors
<1> QED
  BY <1>1, <1>2, Invariance, PlacesInvariance, PTL DEF Spec

\* The program can take chunk n of client c, which is the next one in the
\* socket of the client in the slot, or in the connection thread's hand.
Held(c, n) ==
  /\ process = "running" /\ stdin_reader /\ stdin_pipe < PipeCapacity
  /\ client_fd = c /\ sent[c] >= n
  /\ \/ received[c] = n - 1
     \/ received[c] = n /\ pc["client_connection"] = "write"

\* What HandoverIsServed promises of it.
Settled(c, n) ==
  \/ Given(<<c, n>>)
  \/ client_fd \in Clients \ {c}
  \/ stdin_pipe = PipeCapacity
  \/ ~stdin_reader
  \/ process # "running"

\* The connection thread waits for the accept thread's signal.
NeedsSignal ==
  pc["client_connection"] = "slot_wait" /\ "client_connection" \notin woken

\* The steps to the end of the write(2) of chunk n.
ServiceRank(c, n) ==
  CASE pc["client_connection"] = "write" /\ received[c] = n -> 1
    [] pc["client_connection"] = "read" -> 2
    [] \/ pc["client_connection"] = "write" /\ received[c] # n
       \/ pc["client_connection"] = "slot_check" -> 3
    [] \/ pc["client_connection"] = "slot_wait" /\ ~NeedsSignal
       \/ pc["client_connection"] = "slot_lock" -> 4
    [] pc["client_connection"] = "close" -> 5
    [] NeedsSignal /\ pc["accept"] = "signal" -> 6
    [] OTHER -> 7

\* Everything that is known in each state.
Known == IInv /\ WaitInv /\ PlacesInv /\ FinishedInv

\* Who holds a client whose data can be forwarded.
LEMMA HeldState ==
  ASSUME Known, NEW c \in Clients, NEW n \in 1..MaxChunks, Held(c, n)
  PROVE  /\ ServingAt(pc["main"]) /\ cancelled = {}
         /\ pc["client_connection"]
              \in { "slot_lock", "slot_check", "slot_wait", "read", "write",
                    "close" }
         /\ pc["client_connection"] \in {"slot_lock", "slot_wait"}
              => client_ready_mutex = Free
         /\ NeedsSignal => pc["accept"] \in {"testcancel", "signal"}
         /\ pc["client_connection"] = "write" => buffer = <<c, received[c]>>
         /\ c \in fd_open /\ child_stdin_fd = "open"
<1> USE DEF Known, Held
<1>1. client_fd # NoClient /\ condition /\ ~ChildEnded
  BY ServerAssumption DEF IInv, LatchInv, PlacesInv, SessionInv
<1>2. ServingAt(pc["main"]) /\ cancelled = {}
  BY <1>1, ServingState DEF ServingAt
<1>3. pc["main"] \in {"broadcast", "parent_join_child_wait"}
  BY <1>2, ServingState
<1>4. c \in fd_open /\ child_stdin_fd = "open"
  BY <1>1, <1>2, <1>3 DEF PlacesInv, OpenInv, IInv, TypeOK, ChildType, LatchInv
<1>5. pc["client_connection"] \notin {"none", "ended", "cleanup"}
  <2>1. pc["client_connection"] # "cleanup"
    BY <1>3 DEF FinishedInv, Unread, IInv, TypeOK, StreamType
  <2> QED
    BY <1>2, <1>3, <2>1 DEF WaitInv, CreatedInv, IInv, CancelInv
<1>6. /\ pc["client_connection"]
           \in { "slot_lock", "slot_check", "slot_wait", "read", "write",
                 "close" }
      /\ pc["client_connection"] \in {"slot_lock", "slot_wait"}
           => client_ready_mutex = Free
  BY <1>5 DEF IInv, TypeOK, PcType, ConnectionSteps, WaitInv, HolderInv
<1>7. /\ NeedsSignal => pc["accept"] \in {"testcancel", "signal"}
      /\ pc["client_connection"] = "write" => buffer = <<c, received[c]>>
  BY <1>1, <1>2 DEF NeedsSignal, WaitInv, WakeupsKept, PlacesInv, SessionInv
<1> QED
  BY <1>2, <1>4, <1>6, <1>7

\* The connection thread's own steps lead to the write(2) of the chunk.
LEMMA ServiceComesNearer ==
  ASSUME Known, NEW c \in Clients, NEW n \in 1..MaxChunks, Held(c, n),
         ConnectionThread \/ SpuriousSlot, ~Settled(c, n)'
  PROVE  Held(c, n)' /\ ServiceRank(c, n)' < ServiceRank(c, n)
<1> USE DEF IInv, TypeOK, PcType, SyncType, SlotType, StreamType, ChildType,
            Threads, Held, Settled, ServiceRank, NeedsSignal
<1>1. /\ cancelled = {} /\ c \in fd_open /\ child_stdin_fd = "open"
      /\ pc["client_connection"]
           \in { "slot_lock", "slot_check", "slot_wait", "read", "write",
                 "close" }
      /\ pc["client_connection"] = "write" => buffer = <<c, received[c]>>
  BY HeldState
<1>2. client_fd = c /\ c # NoClient /\ process' = "running" /\ n \in Nat
  BY ServerAssumption
<1>3. CASE LockSlot \/ CheckSlot \/ WakeSlot \/ SpuriousSlot \/ CloseClient
  <2>1. /\ LET from == pc["client_connection"]
               to   == pc'["client_connection"]
           IN  \/ from = "slot_lock" /\ to = "slot_check"
               \/ from = "slot_check" /\ to = "read"
               \/ from = "slot_wait" /\ to = "slot_check"
               \/ from = "close" /\ to = "slot_lock"
        /\ UNCHANGED <<client_fd, sent, received, process, stdin_reader,
                       stdin_pipe>>
    BY <1>1, <1>2, <1>3 DEF Known, LockSlot, CheckSlot, WakeSlot, SpuriousSlot,
       CloseClient
  <2> QED
    BY <1>1, <2>1
<1>4. CASE ReadChunk
  BY <1>1, <1>2, <1>4 DEF Known, ReadChunk
<1>5. CASE WriteChunk
  <2>1. CASE received[c] = n
    <3>1. delivered' = Append(delivered, <<c, n>>)
      BY <1>1, <1>5, <2>1 DEF WriteChunk
    <3>2. /\ Len(delivered) + 1 \in DOMAIN delivered'
          /\ delivered'[Len(delivered) + 1] = <<c, n>>
      BY <3>1 DEF Known
    <3> QED
      BY <3>2 DEF Given
  <2>2. CASE received[c] # n
    <3>1. /\ pc["client_connection"] = "write" /\ pc'["client_connection"] = "read"
          /\ stdin_pipe' = stdin_pipe + 1
          /\ UNCHANGED <<client_fd, sent, received, process, stdin_reader>>
      BY <1>1, <1>2, <1>5 DEF Known, WriteChunk
    <3>2. PipeCapacity \in Nat /\ stdin_pipe \in Nat
      BY ServerAssumption DEF Known
    <3> QED
      BY <2>2, <3>1, <3>2
  <2> QED
    BY <2>1, <2>2
<1>6. CASE ReadEnds
  BY <1>1, <1>6 DEF Known, ReadEnds, Unread
<1>7. CASE CancelSlotWait \/ WriteFails \/ WriteKills \/ ReleaseSlot
           \/ \E from \in {"read", "write"} : CancelService(from)
  BY <1>1, <1>2, <1>7 DEF Known, CancelSlotWait, WriteFails, WriteKills,
     ReleaseSlot, CancelService, ProcessEnds
<1> QED
  BY <1>3, <1>4, <1>5, <1>6, <1>7 DEF ConnectionThread

\* The accept thread signals what it has stored, or replaces it.
LEMMA SignalComesNearer ==
  ASSUME Known, NEW c \in Clients, NEW n \in 1..MaxChunks, Held(c, n),
         AcceptThread, ~Settled(c, n)'
  PROVE  /\ Held(c, n)'
         /\ ServiceRank(c, n)' <= ServiceRank(c, n)
         /\ NeedsSignal => ServiceRank(c, n)' < ServiceRank(c, n)
<1> USE DEF IInv, TypeOK, PcType, SyncType, SlotType, StreamType, ChildType,
            Threads, Held, Settled, ServiceRank, NeedsSignal
<1>1. cancelled = {} /\ (NeedsSignal => pc["accept"] \in {"testcancel", "signal"})
  BY HeldState
<1>2. /\ process' = "running" /\ pc'["client_connection"] = pc["client_connection"]
      /\ UNCHANGED <<received, sent, stdin_reader, stdin_pipe>>
  BY DEF Known, AcceptThread, Accept, AcceptCancelled, TryLock, TestCancel,
     Signal, InspectSlot, Drop, Reject, RejectKills, AcceptClose,
     AcceptDiesClosing
<1>3. CASE Signal
  BY <1>1, <1>2, <1>3 DEF Known, Signal
<1>4. CASE TestCancel
  BY <1>1, <1>2, <1>4 DEF Known, TestCancel
<1>5. CASE AcceptThread /\ ~Signal /\ ~TestCancel
  <2>1. woken' = woken /\ client_fd' = c
    BY <1>5 DEF Known, AcceptThread, Accept, AcceptCancelled, TryLock,
       InspectSlot, Drop, Reject, RejectKills, AcceptClose, AcceptDiesClosing,
       SlotInv
  <2>2. ~NeedsSignal
    BY <1>1, <1>5 DEF Known, AcceptThread, Accept, AcceptCancelled, TryLock,
       InspectSlot, Drop, Reject, RejectKills, AcceptClose, AcceptDiesClosing
  <2> QED
    BY <1>2, <2>1, <2>2 DEF Known
<1> QED
  BY <1>3, <1>4, <1>5

\* Nobody else has a part in it.
LEMMA ServiceUndisturbed ==
  ASSUME Known, NEW c \in Clients, NEW n \in 1..MaxChunks, Held(c, n), Next,
         ~(ConnectionThread \/ SpuriousSlot \/ AcceptThread), ~Settled(c, n)'
  PROVE  Held(c, n)' /\ ServiceRank(c, n)' <= ServiceRank(c, n)
<1> USE DEF IInv, TypeOK, PcType, SyncType, SlotType, StreamType, ChildType,
            Threads
<1>0. ServingAt(pc["main"])
  BY HeldState
<1>1. sent[c] \in Nat /\ stdin_pipe \in Nat /\ PipeCapacity \in Nat /\ n \in Nat
  BY ServerAssumption DEF Known
<1>2. /\ UNCHANGED <<client_fd, received>>
      /\ pc'["client_connection"] = pc["client_connection"]
      /\ "client_connection" \in woken' <=> "client_connection" \in woken
      /\ NeedsSignal => pc'["accept"] = pc["accept"]
      /\ sent'[c] \in Nat /\ sent'[c] >= sent[c]
      /\ stdin_pipe' \in Nat /\ stdin_pipe' <= stdin_pipe
  <2> USE <1>1
  <2>1. CASE MainThread
    <3>1. /\ pc["main"] \in {"broadcast", "parent_join_child_wait"}
          /\ pc["child_wait"] # "ended"
      BY <1>0, ServingState DEF Known
    <3>2. Broadcast
      BY <2>1, <3>1 DEF MainThread, CreateThreads, CreateThread, SetupPipes,
         ForkFails, Fork, ReadReport, Reap, Publish, AwaitChildDeath,
         ClosePipes, Teardown, Cancel, Join, Destroy, UnlinkAndExit
    <3> QED
      BY <3>2 DEF Known, Broadcast, ConnectionSteps
  <2>2. CASE \/ \E t \in {"child_wait", "accept"} :
                  ReadyWait(t) \/ SpuriousReady(t)
             \/ WaitPid
    <3>1. NeedsSignal => pc["accept"] \in {"testcancel", "signal"}
      BY HeldState
    <3> QED
      BY <2>2, <3>1 DEF Known, ReadyWait, LockReady, WakeReady, CancelReady,
         SpuriousReady, WaitPid
  <2>3. CASE ChildStep
    BY <2>3, ServerAssumption DEF Known, ChildStep, ChildStarts, ChildExec,
       ChildReportsError, ChildEnds, ChildReadsStdin, ChildClosesStdin
  <2>4. CASE \E d \in Clients : ClientStep(d)
    <3>1. PICK d \in Clients : ClientStep(d)
      BY <2>4
    <3>2. sent'[c] \in Nat /\ sent'[c] >= sent[c]
      BY <3>1 DEF Known, ClientStep, Connect, Send, Hangup
    <3>3. UNCHANGED <<client_fd, received, pc, woken, stdin_pipe>>
      BY <3>1 DEF ClientStep, Connect, Send, Hangup
    <3> QED
      BY <3>2, <3>3 DEF Known
  <2> QED
    BY <2>1, <2>2, <2>3, <2>4, Actors
<1>3. Held(c, n)'
  BY <1>1, <1>2 DEF Held, Settled
<1>4. NeedsSignal' = NeedsSignal
  BY <1>2 DEF NeedsSignal
<1>5. ServiceRank(c, n)' = ServiceRank(c, n)
  BY <1>2, <1>4 DEF ServiceRank
<1> QED
  BY <1>3, <1>5 DEF ServiceRank

\* Whose step it is, and that nothing keeps that thread from it.
LEMMA ServiceCanStep ==
  ASSUME Known, NEW c \in Clients, NEW n \in 1..MaxChunks, Held(c, n)
  PROVE  /\ ServiceRank(c, n) \in 1..7
         /\ ServiceRank(c, n) > 5 <=> NeedsSignal
         /\ NeedsSignal => CanStep("accept")
         /\ ~NeedsSignal => CanStep("client_connection")
<1>1. /\ process = "running"
      /\ pc["client_connection"]
           \in { "slot_lock", "slot_check", "slot_wait", "read", "write",
                 "close" }
      /\ pc["client_connection"] \in {"slot_lock", "slot_wait"}
           => client_ready_mutex = Free
      /\ NeedsSignal => pc["accept"] \in {"testcancel", "signal"}
  BY HeldState DEF Held
<1>2. ServiceRank(c, n) \in 1..7 /\ (ServiceRank(c, n) > 5 <=> NeedsSignal)
  BY <1>1 DEF ServiceRank, NeedsSignal
<1>3. NeedsSignal => CanStep("accept")
  BY <1>1 DEF CanStep, Joined
<1>4. pc["client_connection"] = "read" => Unread(client_fd) > 0
  BY DEF Known, IInv, TypeOK, StreamType, Held, Unread
<1>5. ~NeedsSignal => CanStep("client_connection")
  BY <1>1, <1>4 DEF CanStep, Joined, NeedsSignal, Held
<1> QED
  BY <1>2, <1>3, <1>5

\* The chunk is written within r steps.
ServedWithin(c, n, r) == Held(c, n) /\ ServiceRank(c, n) <= r

\* No step takes it back, and one of the thread whose turn it is takes it on.
LEMMA ServedStep ==
  ASSUME Known, NEW c \in Clients, NEW n \in 1..MaxChunks, NEW r \in Nat,
         NEW m \in Nat, r = m + 1, ServedWithin(c, n, r)
  PROVE  /\ Next => Settled(c, n)' \/ ServedWithin(c, n, r)'
         /\ ThreadStep("client_connection") /\ ~NeedsSignal
              => Settled(c, n)' \/ ServedWithin(c, n, m)'
         /\ ThreadStep("accept") /\ NeedsSignal
              => Settled(c, n)' \/ ServedWithin(c, n, m)'
<1>1. Held(c, n) /\ ServiceRank(c, n) \in 1..7 /\ ServiceRank(c, n)' \in 1..7
  BY ServiceCanStep DEF ServedWithin, ServiceRank
<1>2. ASSUME Next, ~Settled(c, n)' PROVE ServedWithin(c, n, r)'
  <2>1. Held(c, n)' /\ ServiceRank(c, n)' <= ServiceRank(c, n)
    BY <1>1, <1>2, ServiceComesNearer, SignalComesNearer, ServiceUndisturbed
  <2> QED
    BY <1>1, <2>1 DEF ServedWithin
<1>3. ASSUME ThreadStep("client_connection"), ~Settled(c, n)'
      PROVE  ServedWithin(c, n, m)'
  <2>1. Held(c, n)' /\ ServiceRank(c, n)' < ServiceRank(c, n)
    BY <1>1, <1>3, ServiceComesNearer DEF ThreadStep
  <2> QED
    BY <1>1, <2>1 DEF ServedWithin
<1>4. ASSUME ThreadStep("accept"), NeedsSignal, ~Settled(c, n)'
      PROVE  ServedWithin(c, n, m)'
  <2>1. pc["accept"] \in {"testcancel", "signal"}
    BY <1>1, <1>4, HeldState
  <2>2. AcceptThread
    BY <1>4, <2>1 DEF ThreadStep, ReadyWait, LockReady, WakeReady, CancelReady
  <2>3. Held(c, n)' /\ ServiceRank(c, n)' < ServiceRank(c, n)
    BY <1>1, <1>4, <2>2, SignalComesNearer
  <2> QED
    BY <1>1, <2>3 DEF ServedWithin
<1> QED
  BY <1>2, <1>3, <1>4

LEMMA KnownAlways == Spec => []Known
BY Invariance, WaitInvariance, PlacesInvariance, FinishedInvariance, PTL
   DEF Known

LEMMA ServiceNearer ==
  ASSUME NEW c \in Clients, NEW n \in 1..MaxChunks, NEW r \in 1..7,
         NEW m \in Nat, r = m + 1
  PROVE  Spec /\ Fairness /\ []CanStepIsEnabled
           => (ServedWithin(c, n, r) ~> Settled(c, n) \/ ServedWithin(c, n, m))
<1> DEFINE P == ServedWithin(c, n, r) /\ ~ServedWithin(c, n, m)
           Q == Settled(c, n) \/ ServedWithin(c, n, m)
<1>1. Known /\ P /\ [Next]_vars => P' \/ Q'
  <2>1. UNCHANGED vars /\ ServedWithin(c, n, r) => ServedWithin(c, n, r)'
    BY DEF vars, ServedWithin, Held, ServiceRank, NeedsSignal
  <2> QED
    BY <2>1, ServedStep
<1>2. Known /\ P => ServiceRank(c, n) = r /\ (NeedsSignal <=> r > 5)
  BY ServiceCanStep DEF ServedWithin
<1>3. CASE r > 5
  <2>1. Known /\ P /\ <<ThreadStep("accept")>>_vars => Q'
    BY <1>2, <1>3, ServedStep
  <2>2. Known /\ P => CanStep("accept")
    BY <1>2, <1>3, ServiceCanStep DEF ServedWithin
  <2> HIDE DEF P, Q
  <2>3. Spec /\ Fairness /\ []CanStepIsEnabled => (P ~> Q)
    BY <1>1, <2>1, <2>2, KnownAlways, PTL DEF Spec, Fairness, CanStepIsEnabled
  <2> QED
    BY <2>3, PTL DEF P, Q
<1>4. CASE ~(r > 5)
  <2>1. Known /\ P /\ <<ThreadStep("client_connection")>>_vars => Q'
    BY <1>2, <1>4, ServedStep
  <2>2. Known /\ P => CanStep("client_connection")
    BY <1>2, <1>4, ServiceCanStep DEF ServedWithin
  <2> HIDE DEF P, Q
  <2>3. Spec /\ Fairness /\ []CanStepIsEnabled => (P ~> Q)
    BY <1>1, <2>1, <2>2, KnownAlways, PTL DEF Spec, Fairness, CanStepIsEnabled
  <2> QED
    BY <2>3, PTL DEF P, Q
<1> QED
  BY <1>3, <1>4

\* The next chunk of the client in the slot.
LEMMA ChunkIsServed ==
  ASSUME NEW c \in Clients, NEW n \in 1..MaxChunks
  PROVE  Spec /\ Fairness /\ []CanStepIsEnabled
           => (client_fd = c /\ received[c] = n - 1 /\ sent[c] >= n
                 ~> Settled(c, n))
<1> DEFINE Nearer(r, m) ==
      Spec /\ Fairness /\ []CanStepIsEnabled
        => (ServedWithin(c, n, r) ~> Settled(c, n) \/ ServedWithin(c, n, m))
<1>1. ASSUME NEW r \in 1..7, NEW m \in Nat, r = m + 1 PROVE Nearer(r, m)
  BY <1>1, ServiceNearer
<1> HIDE DEF Nearer
<1>2. /\ Nearer(7, 6) /\ Nearer(6, 5) /\ Nearer(5, 4) /\ Nearer(4, 3)
      /\ Nearer(3, 2) /\ Nearer(2, 1) /\ Nearer(1, 0)
  BY <1>1
<1>3. Known /\ client_fd = c /\ received[c] = n - 1 /\ sent[c] >= n
        => Settled(c, n) \/ ServedWithin(c, n, 7)
  <2> SUFFICES ASSUME Known, client_fd = c, received[c] = n - 1, sent[c] >= n,
                      ~Settled(c, n)
               PROVE  ServedWithin(c, n, 7)
    OBVIOUS
  <2>1. Held(c, n)
    BY ServerAssumption DEF Held, Settled, Known, IInv, TypeOK, StreamType
  <2> QED
    BY <2>1, ServiceCanStep DEF ServedWithin
<1>4. Known => ~ServedWithin(c, n, 0)
  BY ServiceCanStep DEF ServedWithin
<1> QED
  BY <1>2, <1>3, <1>4, KnownAlways, PTL DEF Nearer

\* Whatever is sent by a client whose descriptor was handed over gets to the
\* program chunk after chunk, in any number of clients and chunks: the signal is
\* not lost, and the session goes on until everything is forwarded.
THEOREM HandedOverIsServed ==
  Spec /\ Fairness /\ []CanStepIsEnabled => HandoverIsServed
<1> DEFINE Goes(c, n) ==
      client_fd = c /\ received[c] = n - 1 /\ sent[c] >= n ~> Settled(c, n)
           Premise == Spec /\ Fairness /\ []CanStepIsEnabled
<1>1. ASSUME NEW c \in Clients, NEW n \in 1..MaxChunks
      PROVE  Premise => Goes(c, n)
  BY ChunkIsServed
<1> HIDE DEF Premise, Goes
<1>2. Premise => \A c \in Clients, n \in 1..MaxChunks : Goes(c, n)
  BY <1>1
<1> QED
  BY <1>2 DEF HandoverIsServed, Goes, Settled, Premise

=============================================================================
