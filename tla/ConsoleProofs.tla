--------------------------- MODULE ConsoleProofs ---------------------------
(***************************************************************************)
(* Proofs that a server, for any number of clients, any bounds and any set *)
(* of faults, keeps a client in one place of the hand-over at a time and   *)
(* implements Console.                                                     *)
(***************************************************************************)
EXTENDS ServerProofs

\* What the actions are put together from.
USE DEF Goto, Move, CloseFd, Store, HandedOn, SlotWaiters, Put, LeaveWait,
        EndWaiting, LeaveSlotWait, WakeUp, ReadyWaiters, NextRead,
        threadVars, readyVars, slotVars, localVars, childVars, processVars,
        socketVars, streamVars, syncVars, innerVars, programVars, outerVars

-----------------------------------------------------------------------------
(* The backlog.                                                            *)

Distinct(s) == \A i, j \in DOMAIN s : s[i] = s[j] => i = j

\* Taking the first of a queue without duplicates leaves all others.
LEMMA TailOfDistinct ==
  ASSUME NEW S, NEW s \in Seq(S), s # <<>>, Distinct(s)
  PROVE  /\ Distinct(Tail(s))
         /\ \A i \in DOMAIN Tail(s) : Tail(s)[i] # Head(s)
         /\ \A i \in DOMAIN Tail(s) : \E j \in DOMAIN s : s[j] = Tail(s)[i]
         /\ \E i \in DOMAIN s : s[i] = Head(s)
<1>1. /\ Len(s) \in Nat /\ Len(s) > 0 /\ DOMAIN s = 1..Len(s)
      /\ Head(s) = s[1]
  OBVIOUS
<1>2. /\ DOMAIN Tail(s) = 1..(Len(s) - 1)
      /\ \A i \in 1..(Len(s) - 1) : Tail(s)[i] = s[i + 1]
  BY <1>1
<1> QED
  BY <1>1, <1>2 DEF Distinct

\* A newcomer at the end of a queue adds no duplicate.
LEMMA AppendToDistinct ==
  ASSUME NEW S, NEW s \in Seq(S), NEW e \in S, Distinct(s),
         \A i \in DOMAIN s : s[i] # e
  PROVE  /\ Distinct(Append(s, e))
         /\ \A i \in DOMAIN Append(s, e) :
              Append(s, e)[i] = e \/ \E j \in DOMAIN s : s[j] = Append(s, e)[i]
         /\ \A j \in DOMAIN s : \E i \in DOMAIN Append(s, e) :
              Append(s, e)[i] = s[j]
<1>1. /\ Len(s) \in Nat /\ DOMAIN s = 1..Len(s)
      /\ DOMAIN Append(s, e) = 1..(Len(s) + 1)
      /\ \A i \in 1..Len(s) : Append(s, e)[i] = s[i]
      /\ Append(s, e)[Len(s) + 1] = e
  OBVIOUS
<1> QED
  BY <1>1 DEF Distinct

-----------------------------------------------------------------------------
(* The steps.                                                              *)

\* Before any client has connected, nothing is held of one.
LEMMA InitPlaces == Init => PlacesInv
<1> SUFFICES ASSUME Init PROVE PlacesInv
  OBVIOUS
<1>1. QueueInv
  BY ServerAssumption DEF Init, QueueInv, InBacklog
<1>2. UntouchedInv
  BY ServerAssumption DEF Init, UntouchedInv
<1>3. SessionInv
  BY DEF Init, SessionInv, Threads
<1>4. OpenInv
  BY DEF Init, OpenInv, Undecided, Threads
<1> QED
  BY <1>1, <1>2, <1>3, <1>4 DEF PlacesInv

\* A client moves from one place to the next: queue, accept thread, refused.
LEMMA QueueInvStep ==
  ASSUME IInv, QueueInv, Next
  PROVE  QueueInv'
<1> USE DEF IInv, TypeOK, PcType, SlotType, SocketType, QueueInv, InBacklog,
            Threads
<1>1. CASE MainThread
  BY <1>1 DEF MainThread, CreateThreads, CreateThread, FirstStep, SetupPipes,
       ForkFails, Fork, ReadReport, Reap, Publish, Broadcast, AwaitChildDeath,
       ClosePipes, Teardown, Cancel, Join, Destroy, UnlinkAndExit, ProcessEnds,
       TeardownInv, Gone
<1>2. CASE \/ \E t \in {"child_wait", "accept"} :
                ReadyWait(t) \/ SpuriousReady(t)
           \/ WaitPid
  BY <1>2 DEF ReadyWait, LockReady, WakeReady, CancelReady, SpuriousReady,
       AfterReady, WaitPid
<1>3. CASE ConnectionThread \/ SpuriousSlot
  BY <1>3 DEF ConnectionThread, LockSlot, CheckSlot, WakeSlot, SpuriousSlot,
       CancelSlotWait, ReadChunk, ReadEnds, WriteChunk, WriteFails, WriteKills,
       ReleaseSlot, CloseClient, CancelService, ProcessEnds
<1>4. CASE Accept
  <2>1. /\ Distinct(backlog) /\ backlog \in Seq(Clients) /\ backlog # <<>>
        /\ backlog' = Tail(backlog) /\ accept_fd' = Head(backlog)
    BY <1>4 DEF Accept, Distinct
  <2> QED
    BY <1>4, <2>1, TailOfDistinct DEF Accept, Distinct
<1>5. CASE AcceptThread /\ ~Accept
  BY <1>5, ServerAssumption DEF AcceptThread, AcceptCancelled, TryLock,
       TestCancel, Signal, InspectSlot, Drop, Reject, RejectKills, AcceptClose,
       AcceptDiesClosing, ProcessEnds
<1>6. CASE ChildStep
  BY <1>6 DEF ChildStep, ChildStarts, ChildExec, ChildReportsError, ChildEnds,
       ChildReadsStdin, ChildClosesStdin
<1>7. CASE \E c \in Clients : ClientStep(c)
  <2> PICK c \in Clients : ClientStep(c)
    BY <1>7
  <2>1. CASE Connect(c)
    <3>1. /\ Distinct(backlog) /\ \A i \in DOMAIN backlog : backlog[i] # c
          /\ backlog' = Append(backlog, c)
      BY <2>1 DEF Connect, Distinct
    <3> QED
      BY <2>1, <3>1, AppendToDistinct DEF Connect, Distinct
  <2> QED
    BY <2>1 DEF ClientStep, Send, Hangup
<1> QED
  BY <1>1, <1>2, <1>3, <1>4, <1>5, <1>6, <1>7, Actors

\* Whoever waits has waited since it was away, and only who waits is refused.
LEMMA WaitingShrinks ==
  ASSUME IInv, QueueInv, Next, NEW c \in Clients
  PROVE  /\ Waiting(c)' => Waiting(c)
         /\ c \in refused' => c \in refused \/ Waiting(c)
<1> USE DEF IInv, TypeOK, PcType, SlotType, SocketType, Waiting, Undecided,
            InBacklog, Threads
<1>1. CASE MainThread
  BY <1>1 DEF MainThread, CreateThreads, CreateThread, FirstStep, SetupPipes,
       ForkFails, Fork, ReadReport, Reap, Publish, Broadcast, AwaitChildDeath,
       ClosePipes, Teardown, Cancel, Join, Destroy, UnlinkAndExit, ProcessEnds
<1>2. CASE \/ \E t \in {"child_wait", "accept"} :
                ReadyWait(t) \/ SpuriousReady(t)
           \/ WaitPid
  BY <1>2 DEF ReadyWait, LockReady, WakeReady, CancelReady, SpuriousReady,
       AfterReady, WaitPid
<1>3. CASE ConnectionThread \/ SpuriousSlot
  BY <1>3 DEF ConnectionThread, LockSlot, CheckSlot, WakeSlot, SpuriousSlot,
       CancelSlotWait, ReadChunk, ReadEnds, WriteChunk, WriteFails, WriteKills,
       ReleaseSlot, CloseClient, CancelService, ProcessEnds
<1>4. CASE Accept
  <2>1. /\ Distinct(backlog) /\ backlog \in Seq(Clients) /\ backlog # <<>>
        /\ backlog' = Tail(backlog) /\ accept_fd' = Head(backlog)
    BY <1>4 DEF Accept, QueueInv, Distinct
  <2> QED
    BY <1>4, <2>1, TailOfDistinct DEF Accept, Distinct
<1>5. CASE AcceptThread /\ ~Accept
  BY <1>5 DEF AcceptThread, AcceptCancelled, TryLock, TestCancel, Signal,
       InspectSlot, Drop, Reject, RejectKills, AcceptClose, AcceptDiesClosing,
       ProcessEnds
<1>6. CASE ChildStep
  BY <1>6 DEF ChildStep, ChildStarts, ChildExec, ChildReportsError, ChildEnds,
       ChildReadsStdin, ChildClosesStdin
<1>7. CASE \E b \in Clients : ClientStep(b)
  <2> PICK b \in Clients : ClientStep(b)
    BY <1>7
  <2>1. CASE Connect(b)
    <3>1. /\ Distinct(backlog) /\ \A i \in DOMAIN backlog : backlog[i] # b
          /\ backlog' = Append(backlog, b) /\ ends[b] = "away"
      BY <2>1 DEF Connect, QueueInv, Distinct
    <3> QED
      BY <2>1, <3>1, AppendToDistinct DEF Connect
  <2> QED
    BY <2>1 DEF ClientStep, Send, Hangup
<1> QED
  BY <1>1, <1>2, <1>3, <1>4, <1>5, <1>6, <1>7, Actors

\* Only the hand-over and the connection thread's own steps change a session.
LEMMA SessionSteps ==
  ASSUME IInv, Next
  PROVE  \/ process = "running" /\ TryLock
         \/ process = "running" /\ (ConnectionThread \/ SpuriousSlot)
         \/ /\ UNCHANGED <<client_fd, closing_fd, buffer, received, delivered>>
            /\ \/ pc'["client_connection"] = pc["client_connection"]
               \/ /\ pc["client_connection"] \in {"none", "ended"}
                  /\ pc'["client_connection"] = "slot_lock"
<1> USE DEF IInv, TypeOK, PcType, Threads
<1>1. CASE MainThread
  BY <1>1 DEF MainThread, CreateThreads, CreateThread, FirstStep, SetupPipes,
       ForkFails, Fork, ReadReport, Reap, Publish, Broadcast, AwaitChildDeath,
       ClosePipes, Teardown, Cancel, Join, Destroy, UnlinkAndExit, TeardownInv,
       Gone
<1>2. CASE \/ \E t \in {"child_wait", "accept"} :
                ReadyWait(t) \/ SpuriousReady(t)
           \/ WaitPid
  BY <1>2 DEF ReadyWait, LockReady, WakeReady, CancelReady, SpuriousReady,
       WaitPid
<1>3. CASE process = "running" /\ AcceptThread
  BY <1>3 DEF AcceptThread, Accept, AcceptCancelled, TestCancel, Signal,
       InspectSlot, Drop, Reject, RejectKills, AcceptClose, AcceptDiesClosing
<1>4. CASE ChildStep \/ \E c \in Clients : ClientStep(c)
  BY <1>4 DEF ChildStep, ChildStarts, ChildExec, ChildReportsError, ChildEnds,
       ChildReadsStdin, ChildClosesStdin, ClientStep, Connect, Send, Hangup
<1> QED
  BY <1>1, <1>2, <1>3, <1>4, Actors

\* What is stored in the slot stops waiting, and was not refused.
LEMMA HandedOver ==
  ASSUME IInv, QueueInv, TryLock, NEW c \in Clients, client_fd # c,
         client_fd' = c
  PROVE  /\ Waiting(c) /\ ~Waiting(c)' /\ c \notin refused'
         /\ client_ready_mutex = Free
BY DEF TryLock, Waiting, Undecided, InBacklog, QueueInv, IInv, TypeOK, PcType,
     SlotType, SlotInv, Threads

\* The connection thread gets hold of a client that stopped waiting, and of no
\* other.
LEMMA UntouchedInvStep ==
  ASSUME IInv, QueueInv, UntouchedInv, Next
  PROVE  UntouchedInv'
<1> SUFFICES ASSUME NEW c \in Clients, (Waiting(c) \/ c \in refused)'
             PROVE  client_fd' # c /\ closing_fd' # c /\ received'[c] = 0
  BY DEF UntouchedInv
<1>0. client_fd # c /\ closing_fd # c /\ received[c] = 0
  BY WaitingShrinks DEF UntouchedInv
<1>1. CASE TryLock
  <2>1. client_fd' # c
    BY <1>0, <1>1, HandedOver
  <2> QED
    BY <1>0, <1>1, <2>1 DEF TryLock
<1>2. CASE ConnectionThread \/ SpuriousSlot
  BY <1>0, <1>2, ServerAssumption DEF ConnectionThread, LockSlot, CheckSlot,
       WakeSlot, SpuriousSlot, CancelSlotWait, ReadChunk, ReadEnds, WriteChunk,
       WriteFails, WriteKills, ReleaseSlot, CloseClient, CancelService, IInv,
       TypeOK, SlotType, StreamType
<1> QED
  BY <1>0, <1>1, <1>2, SessionSteps

\* A child that has ended reads no more.
LEMMA EndedReadsNothing ==
  ASSUME IInv, Next, ChildEnded => ~stdin_reader
  PROVE  (ChildEnded => ~stdin_reader)'
<1> USE DEF ChildEnded, IInv, TypeOK, ChildType
<1>1. CASE MainThread
  BY <1>1 DEF MainThread, CreateThreads, CreateThread, SetupPipes, ForkFails,
       Fork, ReadReport, Reap, Publish, Broadcast, AwaitChildDeath, ClosePipes,
       Teardown, Cancel, Join, Destroy, UnlinkAndExit
<1>2. CASE \/ \E t \in {"child_wait", "accept"} :
                ReadyWait(t) \/ SpuriousReady(t)
           \/ WaitPid
  BY <1>2 DEF ReadyWait, LockReady, WakeReady, CancelReady, SpuriousReady,
       WaitPid
<1>3. CASE ConnectionThread \/ SpuriousSlot
  BY <1>3 DEF ConnectionThread, LockSlot, CheckSlot, WakeSlot, SpuriousSlot,
       CancelSlotWait, ReadChunk, ReadEnds, WriteChunk, WriteFails, WriteKills,
       ReleaseSlot, CloseClient, CancelService
<1>4. CASE AcceptThread
  BY <1>4 DEF AcceptThread, Accept, AcceptCancelled, TryLock, TestCancel,
       Signal, InspectSlot, Drop, Reject, RejectKills, AcceptClose,
       AcceptDiesClosing
<1>5. CASE ChildStep \/ \E c \in Clients : ClientStep(c)
  BY <1>5 DEF ChildStep, ChildStarts, ChildExec, ChildReportsError, ChildEnds,
       ChildReadsStdin, ChildClosesStdin, ClientStep, Connect, Send, Hangup
<1> QED
  BY <1>1, <1>2, <1>3, <1>4, <1>5, Actors

\* A session reads its client's chunks one after the other and writes each.
LEMMA SessionInvStep ==
  ASSUME IInv, QueueInv, UntouchedInv, SessionInv, Next
  PROVE  SessionInv'
<1> USE DEF IInv, TypeOK, PcType, SlotType, StreamType, SlotInv, InSession,
            Threads
<1>1. (ChildEnded => ~stdin_reader)'
  BY EndedReadsNothing DEF SessionInv
<1>2. CASE TryLock
  <2>1. CASE client_fd' = client_fd
    BY <1>1, <1>2, <2>1 DEF TryLock, SessionInv
  <2>2. CASE client_fd' # client_fd
    <3>1. client_fd' \in Clients
      BY <1>2, <2>2 DEF TryLock
    <3>2. received[client_fd'] = 0 /\ client_ready_mutex = Free
      BY <1>2, <2>2, <3>1, HandedOver DEF UntouchedInv
    <3> QED
      BY <1>1, <1>2, <3>2 DEF TryLock, SessionInv, Free
  <2> QED
    BY <2>1, <2>2
<1>3. CASE ReadChunk
  BY <1>1, <1>3 DEF ReadChunk, SessionInv
<1>4. CASE WriteChunk
  <2>1. /\ delivered \in Seq(Clients \X Nat) /\ buffer \in Clients \X Nat
        /\ delivered' = Append(delivered, buffer) /\ received' = received
        /\ received[buffer[1]] > 0
    BY <1>4 DEF WriteChunk, SessionInv
  <2>2. \A i \in DOMAIN delivered' : received'[delivered'[i][1]] > 0
    <3>1. /\ DOMAIN delivered = 1..Len(delivered) /\ Len(delivered) \in Nat
          /\ DOMAIN delivered' = 1..(Len(delivered) + 1)
          /\ \A i \in 1..Len(delivered) : delivered'[i] = delivered[i]
          /\ delivered'[Len(delivered) + 1] = buffer
      BY <2>1
    <3> QED
      BY <2>1, <3>1 DEF SessionInv
  <2> QED
    BY <1>1, <1>4, <2>2 DEF WriteChunk, SessionInv
<1>5. CASE (ConnectionThread \/ SpuriousSlot) /\ ~ReadChunk /\ ~WriteChunk
  BY <1>1, <1>5, ServerAssumption DEF ConnectionThread, LockSlot, CheckSlot,
       WakeSlot, SpuriousSlot, CancelSlotWait, ReadEnds, WriteFails,
       WriteKills, ReleaseSlot, CloseClient, CancelService, SessionInv
<1> QED
  BY <1>1, <1>2, <1>3, <1>4, <1>5, SessionSteps DEF SessionInv

\* No descriptor is closed while it is in hand, or still in the slot, but by
\* an accept thread that dies.
LEMMA OpenInvStep ==
  ASSUME IInv, QueueInv, UntouchedInv, OpenInv, Next
  PROVE  OpenInv'
<1> USE ServerAssumption
    DEF IInv, TypeOK, PcType, SlotType, SocketType, SlotInv, OpenInv,
        Undecided, Threads
<1>1. CASE MainThread
  BY <1>1 DEF MainThread, CreateThreads, CreateThread, FirstStep, SetupPipes,
       ForkFails, Fork, ReadReport, Reap, Publish, Broadcast, AwaitChildDeath,
       ClosePipes, Teardown, Cancel, Join, Destroy, UnlinkAndExit, ProcessEnds,
       LatchInv, BeforePublish, TeardownInv, Gone, CancelInv, BeforeCancels
<1>2. CASE \/ \E t \in {"child_wait", "accept"} :
                ReadyWait(t) \/ SpuriousReady(t)
           \/ WaitPid
  BY <1>2 DEF ReadyWait, LockReady, WakeReady, CancelReady, SpuriousReady,
       AfterReady, WaitPid
<1>3. CASE ConnectionThread \/ SpuriousSlot
  <2>1. Undecided => accept_fd \in Clients /\ Waiting(accept_fd)
    BY DEF Waiting
  <2> QED
    BY <1>3, <2>1 DEF ConnectionThread, LockSlot, CheckSlot, WakeSlot,
         SpuriousSlot, CancelSlotWait, ReadChunk, ReadEnds, WriteChunk,
         WriteFails, WriteKills, ReleaseSlot, CloseClient, CancelService,
         ProcessEnds, UntouchedInv
<1>4. CASE AcceptThread
  <2>1. Undecided => accept_fd \in Clients /\ Waiting(accept_fd)
    BY DEF Waiting
  <2> QED
    BY <1>4, <2>1 DEF AcceptThread, Accept, AcceptCancelled, TryLock,
         TestCancel, Signal, InspectSlot, Drop, Reject, RejectKills,
         AcceptClose, AcceptDiesClosing, ProcessEnds, UntouchedInv
<1>5. CASE ChildStep \/ \E c \in Clients : ClientStep(c)
  BY <1>5 DEF ChildStep, ChildStarts, ChildExec, ChildReportsError, ChildEnds,
       ChildReadsStdin, ChildClosesStdin, ClientStep, Connect, Send, Hangup
<1> QED
  BY <1>1, <1>2, <1>3, <1>4, <1>5, Actors

-----------------------------------------------------------------------------
(* The theorems.                                                           *)

\* Every reachable state has each client in one place of the hand-over.
THEOREM PlacesInvariance == Spec => []PlacesInv
<1>1. Init => PlacesInv
  BY InitPlaces
<1>2. IInv /\ PlacesInv /\ [Next]_vars => PlacesInv'
  <2> SUFFICES ASSUME IInv, PlacesInv, [Next]_vars PROVE PlacesInv'
    OBVIOUS
  <2>1. CASE Next
    BY <2>1, QueueInvStep, UntouchedInvStep, SessionInvStep, OpenInvStep DEF
         PlacesInv
  <2>2. CASE UNCHANGED vars
    BY <2>2 DEF vars, PlacesInv, QueueInv, InBacklog, UntouchedInv, Waiting,
         Undecided, SessionInv, InSession, ChildEnded, OpenInv
  <2> QED
    BY <2>1, <2>2
<1> QED
  BY <1>1, <1>2, Invariance, PTL DEF Spec

\* A client that was sent the rejection message has no part in the child's
\* input, for any number of clients (accept and client_connection routines).
THEOREM RefusedGetsNothing == Spec => []RefusedNeverServed
<1>1. IInv /\ PlacesInv => RefusedNeverServed
  BY DEF IInv, TypeOK, SocketType, StreamType, PlacesInv, UntouchedInv,
       SessionInv, RefusedNeverServed
<1> QED
  BY <1>1, Invariance, PlacesInvariance, PTL

\* Outside the teardown every session reads a descriptor that is open.
THEOREM ServedWhileOpen == Spec => []ClosedOnlyByCancelledAccept
<1>1. IInv /\ PlacesInv => ClosedOnlyByCancelledAccept
  BY ServerAssumption DEF IInv, SlotInv, InSession, PlacesInv, OpenInv,
       ClosedOnlyByCancelledAccept
<1> QED
  BY <1>1, Invariance, PlacesInvariance, PTL

-----------------------------------------------------------------------------
(* The refinement.                                                         *)

\* A client that can have no session any more never gets one.
LEMMA PendingShrinks ==
  ASSUME IInv, PlacesInv, Next, NEW c \in Clients, Pending(c)'
  PROVE  Pending(c)
<1>1. CASE TryLock
  BY <1>1, WaitingShrinks, HandedOver DEF PlacesInv, Pending, TryLock, IInv,
       TypeOK, PcType, Threads
<1>2. CASE ConnectionThread \/ SpuriousSlot
  BY <1>2, WaitingShrinks, ServerAssumption DEF PlacesInv, Pending,
       ConnectionThread, LockSlot, CheckSlot, WakeSlot, SpuriousSlot,
       CancelSlotWait, ReadChunk, ReadEnds, WriteChunk, WriteFails, WriteKills,
       ReleaseSlot, CloseClient, CancelService, IInv, TypeOK, PcType, Threads
<1> QED
  BY <1>1, <1>2, WaitingShrinks, SessionSteps DEF PlacesInv, Pending

\* The connection thread writes only to a child that is alive, and so before
\* anything could have closed the descriptor it reads.
LEMMA WritesWhileOpen ==
  ASSUME IInv, PlacesInv, WriteChunk, process = "running"
  PROVE  client_fd \in fd_open
BY ServerAssumption DEF WriteChunk, IInv, SlotInv, CancelInv, LatchInv,
     PlacesInv, SessionInv, OpenInv

\* Every step of the server is one of the console, or none that it sees.
LEMMA ConsoleStep ==
  ASSUME IInv, PlacesInv, Next
  PROVE  [C!Next]_C!vars
<1> DEFINE session == IF InSession THEN client_fd ELSE NoClient
           writing == IF pc["client_connection"] = "write" THEN 1 ELSE 0
           progress == IF InSession THEN received[client_fd] - writing ELSE 0
           finished == {c \in Clients : ~Pending(c)}
<1>0. /\ finished \subseteq finished' /\ session \notin finished
      /\ session' \notin finished' /\ finished' \in SUBSET Clients
  BY PendingShrinks, ServerAssumption DEF Pending, InSession
<1>1. ASSUME UNCHANGED <<session, progress, delivered>>
      PROVE  C!Next
  <2>1. \E S \in SUBSET Clients :
          session \notin S /\ finished' = finished \cup S
    BY <1>0, <1>1
  <2> QED
    BY <1>1, <2>1 DEF C!Next, C!Dismiss
<1> USE DEF IInv, TypeOK, PcType, SlotType, StreamType, SlotInv, InSession,
            Threads
<1>2. CASE TryLock
  <2>1. InSession => client_fd' = client_fd
    BY <1>2 DEF TryLock, Free
  <2> QED
    BY <1>1, <1>2, <2>1 DEF TryLock
<1>3. CASE CheckSlot
  <2>1. CASE pc'["client_connection"] = "read"
    <3>1. /\ session = NoClient /\ session' = client_fd
          /\ client_fd \in Clients /\ progress = 0 /\ progress' = 0
          /\ delivered' = delivered
      BY <1>3, <2>1 DEF CheckSlot, PlacesInv, SessionInv
    <3>2. finished' = finished
      BY <1>3, <2>1 DEF CheckSlot, Pending, Waiting, Undecided, InBacklog
    <3>3. C!Begin(client_fd)
      BY <1>0, <3>1, <3>2 DEF C!Begin
    <3> QED
      BY <3>1, <3>3 DEF C!Next
  <2> QED
    BY <1>1, <1>3, <2>1 DEF CheckSlot
<1>4. CASE ReadChunk
  <2>1. client_fd \in Clients /\ received[client_fd] \in Nat
    BY <1>4 DEF ReadChunk
  <2>2. received'[client_fd] - 1 = received[client_fd]
    BY <1>4, <2>1 DEF ReadChunk
  <2> QED
    BY <1>1, <1>4, <2>2 DEF ReadChunk
<1>5. CASE WriteChunk /\ process = "running"
  <2>1. client_fd \in fd_open
    BY <1>5, WritesWhileOpen
  <2>2. /\ session = client_fd /\ session' = client_fd
        /\ client_fd \in Clients /\ received[client_fd] \in Nat
        /\ progress = received[client_fd] - 1
        /\ progress' = received[client_fd]
        /\ delivered' = Append(delivered, <<client_fd, received[client_fd]>>)
    BY <1>5, <2>1 DEF WriteChunk, PlacesInv, SessionInv
  <2>3. finished' = finished
    BY <1>5, <2>1 DEF WriteChunk, Pending, Waiting, Undecided, InBacklog
  <2>4. session # NoClient /\ progress' = progress + 1
    <3>1. session # NoClient
      BY <2>2, ServerAssumption
    <3>2. (received[client_fd] - 1) + 1 = received[client_fd]
      BY <2>2
    <3> QED
      BY <2>2, <3>1, <3>2
  <2>5. delivered' = Append(delivered, <<session, progress + 1>>)
    BY <2>2, <2>4
  <2>6. C!Deliver
    BY <2>2, <2>3, <2>4, <2>5 DEF C!Deliver
  <2> QED
    BY <2>6 DEF C!Next
<1>6. CASE \/ ReadEnds \/ WriteFails
           \/ \E from \in {"read", "write"} : CancelService(from)
  <2>1. /\ session = client_fd /\ session' = NoClient /\ client_fd \in Clients
        /\ progress' = 0 /\ delivered' = delivered
    BY <1>6 DEF ReadEnds, WriteFails, CancelService
  <2>2. \A c \in Clients : Waiting(c)' = Waiting(c)
    BY <1>6 DEF ReadEnds, WriteFails, CancelService, Waiting, Undecided,
         InBacklog
  <2>3. ~Waiting(client_fd)
    BY <2>1 DEF PlacesInv, UntouchedInv
  <2>4. finished' = finished \cup {client_fd}
    <3>1. \A c \in Clients : Pending(c)' = (Pending(c) /\ c # client_fd)
      BY <1>6, <2>1, <2>2, <2>3, ServerAssumption DEF ReadEnds, WriteFails,
           CancelService, Pending
    <3> QED
      BY <2>1, <3>1
  <2>5. C!End
    BY <2>1, <2>4, ServerAssumption DEF C!End
  <2> QED
    BY <2>5 DEF C!Next
<1>7. CASE \/ LockSlot \/ WakeSlot \/ SpuriousSlot \/ CancelSlotWait
           \/ WriteKills \/ ReleaseSlot \/ CloseClient
  BY <1>1, <1>7 DEF LockSlot, WakeSlot, SpuriousSlot, CancelSlotWait,
       WriteKills, ReleaseSlot, CloseClient
<1>8. CASE /\ UNCHANGED <<client_fd, received, delivered>>
           /\ \/ pc'["client_connection"] = pc["client_connection"]
              \/ ~InSession /\ ~InSession'
  BY <1>1, <1>8
<1> QED
  BY <1>2, <1>3, <1>4, <1>5, <1>6, <1>7, <1>8, SessionSteps DEF
       ConnectionThread

\* The server implements the console: what the child's standard input is given
\* is a concatenation of sessions of different clients, each without a gap,
\* whatever the threads, the clients and the teardown do in between.
THEOREM ConsoleRefined == Spec => ImplementsConsole
<1>1. Init => C!Init
  BY ServerAssumption DEF Init, C!Init, InSession, Pending, Waiting, Threads
<1>2. IInv /\ PlacesInv /\ [Next]_vars => [C!Next]_C!vars
  <2> SUFFICES ASSUME IInv, PlacesInv, [Next]_vars PROVE [C!Next]_C!vars
    OBVIOUS
  <2>1. CASE UNCHANGED vars
    BY <2>1 DEF vars, C!vars, InSession, Pending, Waiting, Undecided, InBacklog
  <2> QED
    BY <2>1, ConsoleStep
<1> QED
  BY <1>1, <1>2, Invariance, PlacesInvariance, PTL DEF Spec, ImplementsConsole,
       C!Spec

-----------------------------------------------------------------------------
(* What the console says of the child's input.                             *)

\* The chunks d that were forwarded, as two parts: none is out of place, and
\* all are of sessions that are over, f, or the first p of the session s.
InPlace(d) ==
  /\ \A i \in DOMAIN d :
       \/ d[i][2] = 1
       \/ i > 1 /\ d[i - 1] = <<d[i][1], d[i][2] - 1>>
  /\ \A i, j \in DOMAIN d : d[i] = d[j] => i = j

Forwarded(s, p, f, d) ==
  /\ s \in Clients \cup {NoClient} /\ s \notin f
  /\ p \in Nat /\ (s = NoClient => p = 0)
  /\ f \in SUBSET Clients
  /\ d \in Seq(Clients \X Nat)
  /\ \A i \in DOMAIN d : d[i][1] \in f \/ (d[i][1] = s /\ d[i][2] <= p)
  /\ p > 0 => d # <<>> /\ d[Len(d)] = <<s, p>>

\* The next chunk of a session follows the one before it.
LEMMA NextInPlace ==
  ASSUME NEW s, NEW p, NEW f, NEW d, Forwarded(s, p, f, d), InPlace(d),
         s # NoClient
  PROVE  /\ Forwarded(s, p + 1, f, Append(d, <<s, p + 1>>))
         /\ InPlace(Append(d, <<s, p + 1>>))
<1> DEFINE e == <<s, p + 1>>
           d1 == Append(d, e)
<1>1. /\ s \in Clients /\ p \in Nat /\ d \in Seq(Clients \X Nat)
      /\ e \in Clients \X Nat /\ e[1] = s /\ e[2] = p + 1 /\ e = <<s, p + 1>>
  BY DEF Forwarded
<1>2. /\ Len(d) \in Nat /\ DOMAIN d = 1..Len(d) /\ DOMAIN d1 = 1..(Len(d) + 1)
      /\ \A i \in 1..Len(d) : d1[i] = d[i] /\ d[i] \in Clients \X Nat
      /\ d1[Len(d) + 1] = e /\ Len(d1) = Len(d) + 1
      /\ d1 \in Seq(Clients \X Nat) /\ d1 # <<>>
  <2> HIDE DEF e
  <2> QED
    BY <1>1
<1> HIDE DEF e, d1
<1>3. Forwarded(s, p + 1, f, d1)
  <2>1. \A i \in DOMAIN d1 : \/ d1[i][1] \in f
                             \/ d1[i][1] = s /\ d1[i][2] <= p + 1
    <3> SUFFICES ASSUME NEW i \in DOMAIN d1
                 PROVE  \/ d1[i][1] \in f
                        \/ d1[i][1] = s /\ d1[i][2] <= p + 1
      OBVIOUS
    <3>1. CASE i = Len(d) + 1
      BY <1>1, <1>2, <3>1
    <3>2. CASE i \in 1..Len(d)
      <4>1. /\ d1[i] = d[i] /\ d[i] \in Clients \X Nat /\ d[i][2] \in Nat
            /\ d[i][1] \in f \/ (d[i][1] = s /\ d[i][2] <= p)
        BY <1>2, <3>2 DEF Forwarded
      <4> QED
        BY <1>1, <4>1
    <3> QED
      BY <1>2, <3>1, <3>2
  <2> QED
    BY <1>1, <1>2, <2>1 DEF Forwarded
<1>4. InPlace(d1)
  <2>1. \/ e[2] = 1
        \/ Len(d) + 1 > 1 /\ d1[Len(d)] = <<e[1], e[2] - 1>>
    <3>1. CASE p = 0
      BY <1>1, <3>1
    <3>2. CASE p > 0
      <4>1. /\ Len(d) \in 1..Len(d) /\ d[Len(d)] = <<s, p>>
            /\ (p + 1) - 1 = p
        BY <1>1, <1>2, <3>2 DEF Forwarded
      <4>2. d1[Len(d)] = <<s, p>>
        BY <1>2, <4>1
      <4> QED
        BY <1>1, <1>2, <3>2, <4>1, <4>2
    <3> QED
      BY <1>1, <3>1, <3>2
  <2>2. \A i \in 1..Len(d) : d[i] # e
    <3> SUFFICES ASSUME NEW i \in 1..Len(d) PROVE d[i] # e
      OBVIOUS
    <3>1. /\ d[i][2] \in Nat /\ s \notin f
          /\ d[i][1] \in f \/ (d[i][1] = s /\ d[i][2] <= p)
      BY <1>2 DEF Forwarded
    <3> QED
      BY <1>1, <3>1
  <2>3. \A i \in 1..Len(d) :
          \/ d1[i][2] = 1
          \/ i > 1 /\ d1[i - 1] = <<d1[i][1], d1[i][2] - 1>>
    <3> SUFFICES ASSUME NEW i \in 1..Len(d), d[i][2] # 1
                 PROVE  i > 1 /\ d1[i - 1] = <<d1[i][1], d1[i][2] - 1>>
      BY <1>2
    <3>1. i > 1 /\ d[i - 1] = <<d[i][1], d[i][2] - 1>>
      BY <1>2 DEF InPlace
    <3>2. i - 1 \in 1..Len(d)
      BY <1>2, <3>1
    <3> QED
      BY <1>2, <3>1, <3>2
  <2>4. \A i, j \in DOMAIN d1 : d1[i] = d1[j] => i = j
    <3> SUFFICES ASSUME NEW i \in DOMAIN d1, NEW j \in DOMAIN d1,
                        d1[i] = d1[j], i # j
                 PROVE  FALSE
      OBVIOUS
    <3>1. CASE i \in 1..Len(d) /\ j \in 1..Len(d)
      BY <1>2, <3>1 DEF InPlace
    <3>2. CASE i = Len(d) + 1 /\ j \in 1..Len(d)
      BY <1>2, <2>2, <3>2
    <3>3. CASE i \in 1..Len(d) /\ j = Len(d) + 1
      BY <1>2, <2>2, <3>3
    <3> QED
      BY <1>2, <3>1, <3>2, <3>3
  <2>5. \A i \in DOMAIN d1 :
          \/ d1[i][2] = 1
          \/ i > 1 /\ d1[i - 1] = <<d1[i][1], d1[i][2] - 1>>
    <3> SUFFICES ASSUME NEW i \in DOMAIN d1
                 PROVE  \/ d1[i][2] = 1
                        \/ i > 1 /\ d1[i - 1] = <<d1[i][1], d1[i][2] - 1>>
      OBVIOUS
    <3>1. CASE i = Len(d) + 1
      <4>1. d1[i] = e /\ i - 1 = Len(d)
        BY <1>2, <3>1
      <4> QED
        BY <2>1, <3>1, <4>1
    <3>2. CASE i \in 1..Len(d)
      BY <2>3, <3>2
    <3>3. i \in 1..Len(d) \/ i = Len(d) + 1
      BY <1>2
    <3> QED
      BY <3>1, <3>2, <3>3
  <2> QED
    BY <2>4, <2>5 DEF InPlace
<1> QED
  BY <1>3, <1>4 DEF d1, e

\* The reader of the child's input gets whole sessions: whatever the server's
\* threads, its clients and its teardown do, no chunk is lost, repeated or
\* mixed with another client's in the middle of a client's data.
THEOREM SessionsAreWhole == Spec => []C!WholeSessions
<1> DEFINE s == IF InSession THEN client_fd ELSE NoClient
           p == IF InSession
                  THEN received[client_fd]
                         - (IF pc["client_connection"] = "write" THEN 1 ELSE 0)
                  ELSE 0
           f == {c \in Clients : ~Pending(c)}
           SInv == Forwarded(s, p, f, delivered) /\ InPlace(delivered)
<1>1. C!Init => SInv
  <2> SUFFICES ASSUME C!Init PROVE SInv
    OBVIOUS
  <2>1. s = NoClient /\ p = 0 /\ f = {} /\ delivered = <<>>
    BY DEF C!Init
  <2> HIDE DEF s, p, f
  <2> QED
    BY <2>1, ServerAssumption DEF Forwarded, InPlace
<1>2. SInv /\ [C!Next]_C!vars => SInv'
  <2> SUFFICES ASSUME SInv, [C!Next]_C!vars PROVE SInv'
    OBVIOUS
  <2>1. \/ \E c \in Clients : /\ s = NoClient /\ c \notin f /\ s' = c /\ p' = p
                              /\ f' = f /\ delivered' = delivered
        \/ /\ s # NoClient /\ p' = p + 1 /\ s' = s /\ f' = f
           /\ delivered' = Append(delivered, <<s, p + 1>>)
        \/ /\ s # NoClient /\ s' = NoClient /\ p' = 0 /\ f' = f \cup {s}
           /\ delivered' = delivered
        \/ \E S \in SUBSET Clients :
             /\ s \notin S /\ f' = f \cup S
             /\ s' = s /\ p' = p /\ delivered' = delivered
        \/ s' = s /\ p' = p /\ f' = f /\ delivered' = delivered
    BY DEF C!Next, C!vars, C!Begin, C!Deliver, C!End, C!Dismiss
  <2>2. SInv' <=> Forwarded(s', p', f', delivered') /\ InPlace(delivered')
    BY DEF Forwarded, InPlace
  <2>3. Forwarded(s, p, f, delivered) /\ InPlace(delivered)
    OBVIOUS
  <2> HIDE DEF s, p, f, SInv
  <2>4. CASE \E c \in Clients : /\ s = NoClient /\ c \notin f /\ s' = c
                                /\ p' = p /\ f' = f /\ delivered' = delivered
    <3>1. \A i \in DOMAIN delivered : delivered[i][1] \in f
      <4>1. \A i \in DOMAIN delivered : delivered[i] \in Clients \X Nat
        BY <2>3 DEF Forwarded
      <4> QED
        BY <2>3, <2>4, <4>1, ServerAssumption DEF Forwarded
    <3> QED
      BY <2>2, <2>3, <2>4, <3>1 DEF Forwarded
  <2>5. CASE /\ s # NoClient /\ p' = p + 1 /\ s' = s /\ f' = f
             /\ delivered' = Append(delivered, <<s, p + 1>>)
    BY <2>2, <2>3, <2>5, NextInPlace
  <2>6. CASE /\ s # NoClient /\ s' = NoClient /\ p' = 0 /\ f' = f \cup {s}
             /\ delivered' = delivered
    BY <2>2, <2>3, <2>6, ServerAssumption DEF Forwarded
  <2>7. CASE \E S \in SUBSET Clients :
               /\ s \notin S /\ f' = f \cup S
               /\ s' = s /\ p' = p /\ delivered' = delivered
    BY <2>2, <2>3, <2>7 DEF Forwarded
  <2>8. CASE s' = s /\ p' = p /\ f' = f /\ delivered' = delivered
    BY <2>2, <2>3, <2>8
  <2> QED
    BY <2>1, <2>4, <2>5, <2>6, <2>7, <2>8
<1>3. SInv => C!WholeSessions
  BY DEF InPlace, C!WholeSessions
<1> HIDE DEF SInv
<1> QED
  BY <1>1, <1>2, <1>3, ConsoleRefined, PTL DEF ImplementsConsole, C!Spec

=============================================================================
