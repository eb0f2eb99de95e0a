---------------------------- MODULE SystemProofs ----------------------------
(***************************************************************************)
(* Proofs about System, a client and its server together, for any number   *)
(* of other clients, any bounds and any set of faults of the server.       *)
(***************************************************************************)
EXTENDS System, ProgressProofs, FiniteSetTheorems

\* What the actions are put together from.
USE DEF Goto, Move, CloseFd, Store, HandedOn, SlotWaiters, Put, LeaveWait,
        EndWaiting, LeaveSlotWait, WakeUp, ReadyWaiters, NextRead,
        threadVars, readyVars, slotVars, localVars, childVars, processVars,
        socketVars, streamVars, syncVars, innerVars, programVars, outerVars

-----------------------------------------------------------------------------
(* The server in the system.                                               *)

\* What the server's side does is a step of the server.
LEMMA ServerSideSteps == ServerSide => Next
BY DEF ServerSide, OthersConnect, Next, ClientStep

\* Whatever happens in the system, the server takes one of its steps or none.
LEMMA ServerSteps ==
  ASSUME [SystemNext]_systemVars
  PROVE  [Next]_vars
<1>1. CASE MyStep
  BY <1>1, SystemAssumption DEF MyStep, MyConnect, MySend, MyEnd, MyMain,
       MyReceiving, MySending, MySpuriousWake, Next, ClientStep
<1> QED
  BY <1>1, ServerSideSteps DEF SystemNext, systemVars

\* The server of the system is a server: what is proved of every server holds
\* of it.
THEOREM SystemHasServer == SystemSpec => Spec
<1>1. SystemInit => Init
  BY DEF SystemInit
<1> QED
  BY <1>1, ServerSteps, PTL DEF SystemSpec, Spec

-----------------------------------------------------------------------------
(* What the server has done with the client.                               *)

\* Who was taken neither waits nor was refused, nobody else is in the slot, a
\* client that has ended has closed its socket, and only what was sent is read.
ServiceInv ==
  /\ served \in BOOLEAN
  /\ served => ~Waiting(Me) /\ Me \notin refused
  /\ client_fd = Me => served
  /\ my_status # "running" => ends[Me] # "connected"
  /\ received[Me] <= sent[Me]

\* What is in a sequence after something else was appended was there before.
LEMMA InAppended ==
  ASSUME NEW S, NEW seq \in Seq(S), NEW c \in S, NEW d, d # c,
         NEW i \in DOMAIN Append(seq, c), Append(seq, c)[i] = d
  PROVE  \E j \in DOMAIN seq : seq[j] = d
<1>1. i \in 1..(Len(seq) + 1) /\ i # Len(seq) + 1
  OBVIOUS
<1>2. i \in 1..Len(seq) /\ DOMAIN seq = 1..Len(seq)
  BY <1>1
<1> QED
  BY <1>2

\* Only Me itself opens and closes its own end of the connection, and once the
\* server's end is closed it stays so.
LEMMA OwnEnd ==
  ASSUME IInv, PlacesInv, ServerSide
  PROVE  /\ ends'[Me] = ends[Me]
         /\ sent'[Me] = sent[Me]
         /\ InBacklog(Me)' => InBacklog(Me)
         /\ HungUp => HungUp'
<1> USE SystemAssumption DEF InBacklog, HungUp, ReadWaitsFor, IInv, TypeOK,
                             PcType, SocketType, StreamType, Threads
<1>1. CASE \E t \in Threads : ThreadStep(t)
  <2>1. CASE MainThread
    BY <2>1 DEF MainThread, CreateThreads, CreateThread, FirstStep, SetupPipes,
         ForkFails, Fork, ReadReport, Reap, Publish, Broadcast,
         AwaitChildDeath, ClosePipes, Teardown, Cancel, Join, Destroy,
         UnlinkAndExit, ProcessEnds
  <2>2. CASE \/ \E t \in {"child_wait", "accept"} : ReadyWait(t)
             \/ WaitPid
    BY <2>2 DEF ReadyWait, LockReady, WakeReady, CancelReady, WaitPid
  <2>3. CASE ConnectionThread
    <3>1. CASE LockSlot \/ CheckSlot \/ WakeSlot \/ CancelSlotWait \/ ReadChunk
      BY <3>1 DEF LockSlot, CheckSlot, WakeSlot, CancelSlotWait, ReadChunk
    <3>2. CASE ReadEnds \/ WriteChunk \/ WriteFails \/ WriteKills
      BY <3>2 DEF ReadEnds, WriteChunk, WriteFails, WriteKills, ProcessEnds
    <3>3. CASE \/ ReleaseSlot \/ CloseClient
               \/ \E from \in {"read", "write"} : CancelService(from)
      BY <3>3 DEF ReleaseSlot, CloseClient, CancelService, SlotInv
    <3> QED
      BY <2>3, <3>1, <3>2, <3>3 DEF ConnectionThread
  <2>4. CASE Accept
    <3>1. /\ Distinct(backlog) /\ backlog \in Seq(Clients) /\ backlog # <<>>
          /\ backlog' = Tail(backlog)
      BY <2>4 DEF Accept, PlacesInv, QueueInv, Distinct
    <3>2. /\ \A i \in DOMAIN backlog' :
               \E j \in DOMAIN backlog : backlog[j] = backlog'[i]
          /\ \E i \in DOMAIN backlog : backlog[i] = Head(backlog)
      BY <3>1, TailOfDistinct
    <3>3. InBacklog(Me)' => InBacklog(Me)
      BY <3>2
    <3>4. Me \in fd_open' => Me \in fd_open \/ InBacklog(Me)
      BY <2>4, <3>2 DEF Accept
    <3> QED
      BY <2>4, <3>3, <3>4 DEF Accept
  <2>5. CASE AcceptThread /\ ~Accept
    BY <2>5 DEF AcceptThread, AcceptCancelled, TryLock, TestCancel, Signal,
         InspectSlot, Drop, Reject, RejectKills, AcceptClose,
         AcceptDiesClosing, ProcessEnds, SlotInv, Free
  <2> QED
    BY <1>1, <2>1, <2>2, <2>3, <2>4, <2>5 DEF ThreadStep
<1>2. CASE SpuriousWakeup \/ ChildStep
  <2>1. CASE SpuriousWakeup
    BY <2>1 DEF SpuriousWakeup, SpuriousSlot, SpuriousReady
  <2>2. CASE ChildStep
    BY <2>2 DEF ChildStep, ChildStarts, ChildExec, ChildReportsError, ChildEnds,
         ChildReadsStdin, ChildClosesStdin
  <2> QED
    BY <1>2, <2>1, <2>2
<1>3. CASE OthersConnect
  <2> PICK c \in Clients \ {Me} : Connect(c)
    BY <1>3 DEF OthersConnect
  <2>2. InBacklog(Me)' => InBacklog(Me)
    <3>1. backlog \in Seq(Clients) /\ backlog' = Append(backlog, c)
      BY DEF Connect
    <3>2. \A i \in DOMAIN backlog' :
            backlog'[i] = Me => \E j \in DOMAIN backlog : backlog[j] = Me
      BY <3>1, InAppended
    <3> QED
      BY <3>2
  <2>3. ends'[Me] = ends[Me] /\ UNCHANGED <<sent, fd_open>>
    BY DEF Connect
  <2>4. HungUp => HungUp'
    BY <2>2, <2>3 DEF Connect
  <2> QED
    BY <2>2, <2>3, <2>4
<1> QED
  BY <1>1, <1>2, <1>3 DEF ServerSide

\* A client is refused, handed over or read by one step each.
LEMMA Served ==
  ASSUME IInv, PlacesInv, ServerSide
  PROVE  /\ Me \in refused => Me \in refused'
         /\ Me \in refused' \ refused
              => Reject /\ accept_fd = Me /\ process = "running"
         /\ client_fd' = Me /\ client_fd # Me => TryLock /\ process = "running"
         /\ received'[Me] # received[Me]
              => ReadChunk /\ client_fd = Me /\ process = "running"
<1> USE SystemAssumption, ServerAssumption DEF IInv, TypeOK, SlotType,
                                               StreamType
<1>1. /\ Me \in refused => Me \in refused'
      /\ Me \in refused' \ refused
           => Reject /\ accept_fd = Me /\ process = "running"
  <2>1. CASE MainThread
    BY <2>1 DEF MainThread, CreateThreads, CreateThread, SetupPipes, ForkFails,
         Fork, ReadReport, Reap, Publish, Broadcast, AwaitChildDeath,
         ClosePipes, Teardown, Cancel, Join, Destroy, UnlinkAndExit
  <2>2. CASE \/ \E t \in {"child_wait", "accept"} :
                  ReadyWait(t) \/ SpuriousReady(t)
             \/ WaitPid \/ ChildStep \/ OthersConnect
    BY <2>2 DEF ReadyWait, LockReady, WakeReady, CancelReady, SpuriousReady,
         WaitPid, ChildStep, ChildStarts, ChildExec, ChildReportsError,
         ChildEnds, ChildReadsStdin, ChildClosesStdin, OthersConnect, Connect
  <2>3. CASE ConnectionThread \/ SpuriousSlot
    BY <2>3 DEF ConnectionThread, LockSlot, CheckSlot, WakeSlot, SpuriousSlot,
         CancelSlotWait, ReadChunk, ReadEnds, WriteChunk, WriteFails,
         WriteKills, ReleaseSlot, CloseClient, CancelService
  <2>4. CASE AcceptThread /\ ~Reject
    BY <2>4 DEF AcceptThread, Accept, AcceptCancelled, TryLock, TestCancel,
         Signal, InspectSlot, Drop, RejectKills, AcceptClose, AcceptDiesClosing
  <2>5. Reject => refused' = refused \cup {accept_fd}
    BY DEF Reject
  <2> QED
    BY <2>1, <2>2, <2>3, <2>4, <2>5 DEF ServerSide, ThreadStep, SpuriousWakeup
<1>2. CASE ConnectionThread \/ SpuriousSlot
  <2>1. client_fd' \in {client_fd, NoClient}
    BY <1>2 DEF ConnectionThread, LockSlot, CheckSlot, WakeSlot, SpuriousSlot,
         CancelSlotWait, ReadChunk, ReadEnds, WriteChunk, WriteFails,
         WriteKills, ReleaseSlot, CloseClient, CancelService
  <2>2. received' = received \/ ReadChunk
    BY <1>2 DEF ConnectionThread, LockSlot, CheckSlot, WakeSlot, SpuriousSlot,
         CancelSlotWait, ReadEnds, WriteChunk, WriteFails, WriteKills,
         ReleaseSlot, CloseClient, CancelService
  <2> QED
    BY <1>1, <2>1, <2>2, SessionSteps, ServerSideSteps DEF ReadChunk
<1> QED
  BY <1>1, <1>2, SessionSteps, ServerSideSteps DEF TryLock

\* What is handed over, refused or read is connected to the server's end.
LEMMA ServedIsOpen ==
  ASSUME IInv, PlacesInv, process = "running"
  PROVE  /\ TryLock /\ client_fd # Me /\ client_fd' = Me
              => Waiting(Me) /\ Me \notin refused /\ ends[Me] # "away"
                 /\ ~HungUp /\ ~HungUp'
         /\ Reject /\ accept_fd = Me
              => Waiting(Me) /\ ends[Me] = "connected" /\ ~HungUp /\ ~HungUp'
         /\ ReadChunk /\ client_fd = Me => ~HungUp
<1> USE SystemAssumption DEF IInv, TypeOK, PcType, SocketType, Threads,
                             PlacesInv, QueueInv, OpenInv, Waiting, Undecided,
                             HungUp, ReadWaitsFor
<1> QED
  BY DEF TryLock, Reject, ReadChunk

\* The steps of the client leave alone what the server has of it.
LEMMA OwnSteps ==
  ASSUME IInv, MyStep
  PROVE  /\ served' = served /\ client_fd' = client_fd /\ pc' = pc
         /\ delivered' = delivered /\ condition' = condition /\ child' = child
         /\ received' = received /\ sent'[Me] \in {sent[Me], sent[Me] + 1}
BY DEF MyStep, MyConnect, MySend, MyEnd, MyMain, MyReceiving, MySending,
     MySpuriousWake, Connect, Send, Hangup, vars, IInv, TypeOK, StreamType

\* No other step than its end ends the client.
LEMMA GoesOn ==
  ASSUME MyStep, ~MyEnd
  PROVE  my_status' = "running"
BY DEF MyStep, MyConnect, MySend, MyMain, MyReceiving, MySending,
     MySpuriousWake, Cl!stateVars, Cl!syncVars, Cl!localVars, Cl!Goto, Cl!Move,
     Cl!Connect, Cl!WriteSocket, Cl!Write, Cl!CreateThreads, Cl!CreateThread,
     Cl!Lock, Cl!Check, Cl!Wake, Cl!SpuriousWake, Cl!LeaveWait, Cl!CopyResult,
     Cl!EndThreads, Cl!Cancel, Cl!Join, Cl!Unlock, Cl!Abandon, Cl!Destroy,
     Cl!Receive, Cl!Received, Cl!DispatchOverriding, Cl!Store, Cl!Signal,
     Cl!Cancelled, Cl!ReadStdin, Cl!TakeInput, Cl!StdinEnds, Cl!Conclude,
     Cl!WriteFails, Cl!Dispatch

\* A client's process ends in one step, which closes its end.
LEMMA EndedHasClosed ==
  ASSUME IInv, MyStep, my_status' # "running"
  PROVE  ends'[Me] # "connected"
<1>1. MyEnd
  BY GoesOn
<1> QED
  BY <1>1, SystemAssumption DEF MyEnd, Hangup, IInv, TypeOK, SocketType, vars,
       socketVars

\* A client is taken when it stops waiting, and not before.
LEMMA ServiceInvStep ==
  ASSUME IInv, PlacesInv, PlacesInv', ServiceInv, [SystemNext]_systemVars
  PROVE  ServiceInv'
<1>0. sent[Me] \in Nat /\ received[Me] \in Nat
  BY SystemAssumption DEF IInv, TypeOK, StreamType
<1>1. CASE UNCHANGED systemVars
  BY <1>1 DEF systemVars, vars, myVars, ServiceInv, Waiting, Undecided,
       InBacklog
<1>2. /\ Waiting(Me)' => Waiting(Me)
      /\ Me \in refused' => Me \in refused \/ Waiting(Me)
  <2>1. CASE Next
    BY <2>1, WaitingShrinks, SystemAssumption DEF PlacesInv
  <2>2. CASE UNCHANGED vars
    BY <2>2 DEF vars, Waiting, Undecided, InBacklog
  <2> QED
    BY <2>1, <2>2, ServerSteps
<1>3. CASE MyStep
  BY <1>0, <1>2, <1>3, OwnSteps, EndedHasClosed DEF ServiceInv
<1>4. CASE ServerSide
  <2>1. client_fd' = Me => ~Waiting(Me)' /\ Me \notin refused'
    BY SystemAssumption DEF PlacesInv, UntouchedInv
  <2>2. my_status' = my_status
    BY <1>4 DEF ServerSide, myVars
  <2>3. received'[Me] <= sent'[Me]
    BY <1>0, <1>4, SystemAssumption, OwnEnd, Served DEF ServiceInv, ReadChunk,
         Unread, IInv, TypeOK, StreamType
  <2> QED
    BY <1>2, <1>4, <2>1, <2>2, <2>3, OwnEnd DEF ServerSide, ServiceInv
<1> QED
  BY <1>1, <1>3, <1>4 DEF SystemNext

\* In every reachable state of the system.
LEMMA SystemInvariance == SystemSpec => [](IInv /\ PlacesInv /\ ServiceInv)
<1>1. SystemInit => ServiceInv
  <2> SUFFICES ASSUME SystemInit PROVE ServiceInv
    OBVIOUS
  <2>1. served \in BOOLEAN /\ ~served
    BY DEF SystemInit
  <2> QED
    BY <2>1, SystemAssumption, ServerAssumption DEF SystemInit, Init, Cl!Init,
         ServiceInv
<1>2. /\ IInv /\ PlacesInv /\ PlacesInv' /\ ServiceInv
      /\ [SystemNext]_systemVars
      => ServiceInv'
  BY ServiceInvStep
<1> QED
  BY <1>1, <1>2, SystemHasServer, Invariance, PlacesInvariance, PTL DEF
       SystemSpec

-----------------------------------------------------------------------------
(* The client in the system is a client.                                   *)

\* What the server does to the connection is something Client expects.
LEMMA ServerStep ==
  ASSUME IInv, PlacesInv, ServiceInv, ServerSide
  PROVE  [Cl!Next]_Cl!vars
<1> DEFINE service == Service
           hung_up == HungUp
           unread == Unread(Me)
           taken == received[Me]
<1> USE SystemAssumption
<1>1. /\ UNCHANGED <<myVars, ends[Me], sent[Me]>>
      /\ served \in BOOLEAN /\ hung_up \in BOOLEAN /\ hung_up' \in BOOLEAN
      /\ hung_up => hung_up' /\ service # "absent"
      /\ hung_up' => service # "absent"
      /\ served' = (served \/ client_fd' = Me)
      /\ my_inbox' = IF Me \in refused' \ refused THEN "refusal" ELSE my_inbox
      /\ my_reset' = IF hung_up' /\ ~hung_up
                       THEN unread' > 0 \/ InBacklog(Me) ELSE my_reset
  BY OwnEnd DEF ServerSide, ServiceInv, HungUp, Service
<1>2. /\ sent[Me] \in Nat /\ taken \in Nat /\ unread \in Nat
      /\ unread = sent[Me] - taken /\ unread' = sent[Me] - taken'
  BY <1>1 DEF IInv, TypeOK, StreamType, ServiceInv, Unread
<1>3. taken' # taken
        => /\ taken' = taken + 1 /\ unread > 0 /\ service = "serving"
           /\ ~hung_up /\ refused' = refused /\ client_fd' = client_fd
  BY <1>2, Served, ServedIsOpen DEF ReadChunk, Unread, ServiceInv, IInv,
       TypeOK, StreamType, Service, PlacesInv, QueueInv, Waiting
<1> HIDE DEF hung_up, unread, taken
<1>4. CASE Me \in refused' \ refused
  <2>1. /\ service = "queued" /\ service' = "refused" /\ my_status = "running"
        /\ ~hung_up /\ ~hung_up' /\ taken' = taken
    BY <1>1, <1>4, Served, ServedIsOpen DEF Reject, ServiceInv, Service,
         hung_up, taken
  <2>2. Cl!Refuse
    BY <1>1, <1>2, <1>4, <2>1 DEF Cl!Refuse, Cl!clientVars, Cl!stateVars,
         Cl!syncVars, Cl!localVars, Cl!inputVars, myVars, hung_up, unread,
         taken
  <2> QED
    BY <2>2 DEF Cl!Next, Cl!Server
<1>5. CASE served' # served /\ Me \notin refused' \ refused
  <2>1. /\ service = "queued" /\ service' = "serving"
        /\ ~hung_up /\ ~hung_up' /\ taken' = taken
    BY <1>1, <1>5, Served, ServedIsOpen DEF TryLock, ServiceInv, Service,
         hung_up, taken
  <2>2. Cl!Serve
    BY <1>1, <1>2, <1>5, <2>1 DEF Cl!Serve, Cl!clientVars, Cl!stateVars,
         Cl!syncVars, Cl!localVars, Cl!inputVars, myVars, hung_up, unread,
         taken
  <2> QED
    BY <2>2 DEF Cl!Next, Cl!Server
<1>6. CASE served' = served /\ Me \notin refused' \ refused
  <2>1. service' = service /\ my_inbox' = my_inbox
    BY <1>1, <1>6, Served DEF Service
  <2>2. CASE hung_up' = hung_up /\ taken' = taken
    BY <1>1, <1>2, <2>1, <2>2 DEF Cl!vars, Cl!stateVars, Cl!dataVars,
         Cl!syncVars, Cl!localVars, Cl!inputVars, Cl!socketVars, myVars,
         hung_up, taken, Unread
  <2>3. CASE hung_up' = hung_up /\ taken' # taken
    <3>1. unread' = unread - 1 /\ 1 \in 1..SocketBuffer /\ 1 <= unread
      BY <1>2, <1>3, <2>3
    <3>2. Cl!ServerReads
      BY <1>1, <1>3, <2>1, <2>3, <3>1 DEF Cl!ServerReads, Cl!clientVars,
           Cl!stateVars, Cl!syncVars, Cl!localVars, Cl!inputVars, myVars,
           hung_up, unread, taken
    <3> QED
      BY <3>2 DEF Cl!Next, Cl!Server
  <2>4. CASE ~hung_up /\ hung_up'
    <3>1. InBacklog(Me) => service = "queued"
      BY <1>1, <2>4 DEF ServiceInv, Service, Waiting, PlacesInv, QueueInv
    <3>2. \E n \in 0..SocketBuffer :
            /\ n <= unread /\ (n > 0 => service = "serving")
            /\ unread' = unread - n /\ taken' = taken + n
            /\ my_reset' = (n < unread \/ InBacklog(Me))
      <4>1. CASE taken' = taken
        BY <1>1, <1>2, <2>4, <4>1
      <4>2. CASE taken' # taken
        BY <1>1, <1>2, <1>3, <2>4, <4>2
      <4> QED
        BY <4>1, <4>2
    <3>3. Cl!ServerHangsUp
      BY <1>1, <2>1, <2>4, <3>1, <3>2 DEF Cl!ServerHangsUp, Cl!clientVars,
           Cl!stateVars, Cl!syncVars, Cl!localVars, Cl!inputVars, myVars,
           hung_up, unread, taken
    <3> QED
      BY <3>3 DEF Cl!Next, Cl!Server
  <2> QED
    BY <1>1, <2>2, <2>3, <2>4
<1> QED
  BY <1>4, <1>5, <1>6

\* A step of the client is one of Client: each is written as a joint step.
LEMMA ClientStepIsOne == MyStep => Cl!Next
BY DEF MyStep, MyConnect, MySend, MyEnd, MyMain, MyReceiving, MySending,
     MySpuriousWake, Cl!Next, Cl!MainThread, Cl!ReceivingThread,
     Cl!SendingThread

\* What Client assumes of a server is true of this one: hand-over, rejection,
\* reads and close come in an order it expects, a reset included, whatever the
\* threads of both processes, the child and the other clients do.
THEOREM ClientRefined == SystemSpec => ImplementsClient
<1>1. SystemInit => Cl!Init
  BY DEF SystemInit
<1>2. IInv /\ PlacesInv /\ ServiceInv /\ [SystemNext]_systemVars
      => [Cl!Next]_Cl!vars
  <2> SUFFICES ASSUME IInv, PlacesInv, ServiceInv, [SystemNext]_systemVars
               PROVE  [Cl!Next]_Cl!vars
    OBVIOUS
  <2>1. CASE UNCHANGED systemVars
    BY <2>1 DEF systemVars, vars, myVars, Cl!vars, Cl!stateVars, Cl!dataVars,
         Cl!syncVars, Cl!localVars, Cl!inputVars, Cl!socketVars, Service,
         HungUp, InBacklog, ReadWaitsFor, Unread
  <2> QED
    BY <2>1, ServerStep, ClientStepIsOne DEF SystemNext
<1> QED
  BY <1>1, <1>2, SystemInvariance, PTL DEF SystemSpec, ImplementsClient,
       Cl!Spec

-----------------------------------------------------------------------------
(* What the client reports.                                                *)

\* A client that says it was rejected was, and has left no trace in the input
\* of the program: its exit status can be relied on (client.c, the result of
\* the receiving thread, and server.c, the accept routine).
THEOREM RejectedIsClean == SystemSpec => []RejectedLeavesNothing
<1>1. /\ MaxChunks \in Nat /\ MaxChunks \in Nat \ {0}
      /\ SocketBuffer \in Nat \ {0}
      /\ {"connect"} \subseteq Cl!PossibleFaults
  BY SystemAssumption, ServerAssumption DEF Cl!PossibleFaults
<1>2. SystemSpec => []Cl!RefusalIsTrue
  BY <1>1, ClientRefined, Cl!RefusedIndeed, PTL DEF ImplementsClient
<1>3. Cl!RefusalIsTrue /\ RefusedNeverServed => RejectedLeavesNothing
  BY DEF Cl!RefusalIsTrue, Service, RefusedNeverServed, MyDelivered,
       RejectedLeavesNothing
<1> QED
  BY <1>2, <1>3, SystemHasServer, RefusedGetsNothing, PTL

-----------------------------------------------------------------------------
(* What cuts a client off.                                                 *)

\* The client may still be read from.
HasMore == ends[Me] = "connected" \/ Unread(Me) > 0

\* The descriptor of a client that was taken stays open while the client lives,
\* or has data there, and the child and the server live, and the client never
\* closes its end before it ends; one that ended in abort(3) did so after the
\* server had closed its.
KeptInv ==
  /\ served => condition
  /\ my_status = "running" => ends[Me] # "closed"
  /\ served /\ HasMore /\ ~ChildEnded /\ process = "running"
       => /\ Me \in fd_open /\ closing_fd # Me
          /\ client_fd = Me => pc["client_connection"] # "cleanup"
  /\ my_status = "aborted" => HungUp
  /\ ServedUntilTheEnd

\* Once the child is announced nothing is cancelled, and its stdin not closed,
\* before it has ended.
LEMMA NothingEndsBeforeChild ==
  ASSUME IInv, condition, ~ChildEnded
  PROVE  cancelled = {} /\ child_stdin_fd # "closed"
BY DEF IInv, CancelInv, LatchInv, BeforeCancels, BeforePublish

\* The end of the child and that of the server are final.
LEMMA EndsAreFinal ==
  ASSUME IInv, ServerSide
  PROVE  /\ condition => condition'
         /\ process # "running" => process' # "running"
         /\ condition /\ ChildEnded => ChildEnded'
<1> USE DEF ChildEnded, IInv, LatchInv, BeforePublish
<1>1. CASE MainThread
  BY <1>1 DEF MainThread, CreateThreads, CreateThread, SetupPipes, ForkFails,
       Fork, ReadReport, Reap, Publish, Broadcast, AwaitChildDeath, ClosePipes,
       Teardown, Cancel, Join, Destroy, UnlinkAndExit, ProcessEnds
<1>2. CASE \/ \E t \in {"child_wait", "accept"} :
                ReadyWait(t) \/ SpuriousReady(t)
           \/ WaitPid \/ ChildStep \/ OthersConnect
  BY <1>2 DEF ReadyWait, LockReady, WakeReady, CancelReady, SpuriousReady,
       WaitPid, ChildStep, ChildStarts, ChildExec, ChildReportsError, ChildEnds,
       ChildReadsStdin, ChildClosesStdin, OthersConnect, Connect
<1>3. CASE ConnectionThread \/ SpuriousSlot
  BY <1>3 DEF ConnectionThread, LockSlot, CheckSlot, WakeSlot, SpuriousSlot,
       CancelSlotWait, ReadChunk, ReadEnds, WriteChunk, WriteFails, WriteKills,
       ReleaseSlot, CloseClient, CancelService, ProcessEnds
<1>4. CASE AcceptThread
  BY <1>4 DEF AcceptThread, Accept, AcceptCancelled, TryLock, TestCancel,
       Signal, InspectSlot, Drop, Reject, RejectKills, AcceptClose,
       AcceptDiesClosing, ProcessEnds
<1> QED
  BY <1>1, <1>2, <1>3, <1>4 DEF ServerSide, ThreadStep, SpuriousWakeup

\* No step of the server closes the descriptor of a client that was taken.
LEMMA DescriptorKept ==
  ASSUME IInv, PlacesInv, ServiceInv, KeptInv, ServerSide, served, HasMore,
         condition, ~ChildEnded, process' = "running"
  PROVE  /\ Me \in fd_open' /\ closing_fd' # Me
         /\ client_fd' = Me => pc'["client_connection"] # "cleanup"
<1> USE SystemAssumption, ServerAssumption DEF IInv, TypeOK, PcType, SlotType,
                                               SocketType, Threads
<1>1. cancelled = {} /\ child_stdin_fd # "closed"
  BY NothingEndsBeforeChild
<1>0. ReadEnds => client_fd # Me
  BY DEF HasMore, ReadEnds
<1>2. /\ Me \in fd_open /\ closing_fd # Me
      /\ client_fd = Me => pc["client_connection"] # "cleanup"
      /\ Undecided => accept_fd # Me
  BY EndsAreFinal DEF KeptInv, ServiceInv, Waiting
<1>3. CASE MainThread
  <2>1. /\ UNCHANGED <<fd_open, closing_fd, client_fd>>
        /\ pc'["client_connection"] \in {pc["client_connection"], "slot_lock"}
    BY <1>3 DEF MainThread, CreateThreads, CreateThread, FirstStep, SetupPipes,
         ForkFails, Fork, ReadReport, Reap, Publish, Broadcast,
         AwaitChildDeath, ClosePipes, Teardown, Cancel, Join, Destroy,
         UnlinkAndExit, ProcessEnds
  <2> QED
    BY <1>2, <2>1
<1>4. CASE \/ \E t \in {"child_wait", "accept"} :
                ReadyWait(t) \/ SpuriousReady(t)
           \/ WaitPid \/ ChildStep \/ OthersConnect
  <2>1. /\ UNCHANGED <<fd_open, closing_fd, client_fd>>
        /\ pc'["client_connection"] = pc["client_connection"]
    BY <1>4 DEF ReadyWait, LockReady, WakeReady, CancelReady, SpuriousReady,
         WaitPid, ChildStep, ChildStarts, ChildExec, ChildReportsError,
         ChildEnds, ChildReadsStdin, ChildClosesStdin, OthersConnect, Connect
  <2> QED
    BY <1>2, <2>1
<1>5. CASE ConnectionThread \/ SpuriousSlot
  <2>1. CASE \/ LockSlot \/ CheckSlot \/ WakeSlot \/ SpuriousSlot
             \/ CancelSlotWait \/ ReadChunk \/ ReadEnds
    BY <1>0, <1>1, <1>2, <2>1 DEF LockSlot, CheckSlot, WakeSlot, SpuriousSlot,
       CancelSlotWait, ReadChunk, ReadEnds
  <2>2. CASE WriteChunk \/ WriteFails \/ WriteKills
    BY <1>1, <1>2, <2>2 DEF WriteChunk, WriteFails, WriteKills, ProcessEnds
  <2>3. CASE \/ ReleaseSlot \/ CloseClient
             \/ \E from \in {"read", "write"} : CancelService(from)
    BY <1>1, <1>2, <2>3 DEF ReleaseSlot, CloseClient, CancelService
  <2> QED
    BY <1>5, <2>1, <2>2, <2>3 DEF ConnectionThread
<1>6. CASE AcceptThread
  BY <1>1, <1>2, <1>6 DEF AcceptThread, Accept, AcceptCancelled, TryLock,
       TestCancel, Signal, InspectSlot, Drop, Reject, RejectKills,
       AcceptClose, AcceptDiesClosing, ProcessEnds, Undecided
<1> QED
  BY <1>3, <1>4, <1>5, <1>6 DEF ServerSide, ThreadStep, SpuriousWakeup

\* Neither side gives the other up before the child or the server ends.
LEMMA KeptInvStep ==
  ASSUME IInv, IInv', PlacesInv, ServiceInv, ServiceInv', KeptInv,
         [SystemNext]_systemVars
  PROVE  KeptInv'
<1>1. CASE UNCHANGED systemVars
  BY <1>1 DEF systemVars, vars, myVars, KeptInv, HasMore, HungUp, InBacklog,
       Unread, ReadWaitsFor, ChildEnded, ServedUntilTheEnd
<1>2. CASE MyStep
  <2> USE SystemAssumption DEF IInv, TypeOK, SocketType, KeptInv, HungUp,
                               InBacklog, ReadWaitsFor, ChildEnded, vars
  <2>1. served' = served /\ my_status = "running"
    BY <1>2 DEF MyStep
  <2>2. CASE MyEnd
    <3>1. /\ ends'[Me] = IF ends[Me] = "connected" THEN "closed" ELSE ends[Me]
          /\ UNCHANGED <<condition, child, process, backlog, fd_open,
                         closing_fd, client_fd, pc, sent, received>>
      BY <2>2 DEF MyEnd, Hangup
    <3>2. my_status' # "running" /\ (my_status' = "aborted" => HungUp)
      BY <2>2 DEF MyEnd, Cl!Return, Cl!RetStatus, Cl!ReceiveEOF
    <3> QED
      BY <2>1, <3>1, <3>2 DEF ServedUntilTheEnd, HasMore, Unread
  <2>3. CASE ~MyEnd
    <3>1. my_status' = "running"
      BY <1>2, <2>3, GoesOn
    <3>2. /\ ends'[Me] \in {ends[Me], "connected"}
          /\ served => ends'[Me] = ends[Me] /\ (HasMore' => HasMore)
          /\ UNCHANGED <<condition, child, process, fd_open, closing_fd,
                         client_fd, pc>>
      BY <1>2, <2>3 DEF MyStep, MyConnect, MySend, MyMain, MyReceiving,
           MySending, MySpuriousWake, Connect, Send, ServiceInv, Waiting,
           HasMore, Unread
    <3> QED
      BY <2>1, <3>1, <3>2 DEF ServedUntilTheEnd
  <2> QED
    BY <2>2, <2>3
<1>3. CASE ServerSide
  <2>0. /\ served' => served \/ (client_fd' = Me /\ client_fd # Me)
        /\ served => served' /\ condition
    BY <1>3 DEF ServerSide, ServiceInv, KeptInv
  <2>1. served' => condition'
    BY <1>3, <2>0, SystemAssumption, ServerAssumption, EndsAreFinal DEF IInv,
         LatchInv
  <2>2. (my_status = "running" => ends[Me] # "closed")'
    BY <1>3, OwnEnd DEF ServerSide, myVars, KeptInv
  <2>3. (served /\ HasMore /\ ~ChildEnded /\ process = "running"
           => /\ Me \in fd_open /\ closing_fd # Me
              /\ client_fd = Me => pc["client_connection"] # "cleanup")'
    <3>0. HasMore' => HasMore
      BY <1>3, SystemAssumption, OwnEnd, Served DEF HasMore, Unread, ReadChunk,
           IInv, TypeOK, StreamType
    <3>1. CASE served
      BY <1>3, <2>0, <3>0, <3>1, EndsAreFinal, DescriptorKept
    <3>2. CASE ~served /\ served'
      BY <1>3, <2>0, <3>2, Served, SystemAssumption DEF TryLock, IInv, TypeOK,
           PcType, SlotInv, PlacesInv, UntouchedInv, OpenInv, Waiting,
           Undecided, Free, Threads
    <3> QED
      BY <3>1, <3>2
  <2>4. (my_status = "aborted" => HungUp)'
    BY <1>3, OwnEnd DEF ServerSide, myVars, KeptInv
  <2>5. ServedUntilTheEnd'
    <3>1. CASE served
      BY <1>3, <2>0, <3>1, EndsAreFinal DEF ServerSide, myVars, KeptInv,
           ServedUntilTheEnd
    <3>2. CASE ~served /\ served'
      BY <1>3, <2>0, <2>4, <3>2, Served, ServedIsOpen DEF ServedUntilTheEnd
    <3> QED
      BY <3>1, <3>2 DEF ServedUntilTheEnd
  <2> QED
    BY <2>1, <2>2, <2>3, <2>4, <2>5 DEF KeptInv
<1> QED
  BY <1>1, <1>2, <1>3 DEF SystemNext

\* In every reachable state of the system.
LEMMA KeptInvariance == SystemSpec => []KeptInv
<1>1. SystemInit => KeptInv
  BY SystemAssumption DEF SystemInit, Init, Cl!Init, KeptInv,
       ServedUntilTheEnd
<1>2. /\ IInv /\ IInv' /\ PlacesInv /\ ServiceInv /\ ServiceInv' /\ KeptInv
      /\ [SystemNext]_systemVars
      => KeptInv'
  BY KeptInvStep
<1> QED
  BY <1>1, <1>2, SystemInvariance, PTL DEF SystemSpec

\* A client that the server took is cut off only by the end of the program or
\* of the server: no rejection of another client, no hand-over and no
\* cancellation ever closes its connection before (accept routine and
\* usockit_server_thread_routine_client_connection_cleanup()).
THEOREM KeptUntilTheEnd == SystemSpec => []ServedUntilTheEnd
<1>1. KeptInv => ServedUntilTheEnd
  BY DEF KeptInv
<1> QED
  BY <1>1, KeptInvariance, PTL

-----------------------------------------------------------------------------
(* What reaches the program.                                               *)

\* The chunk of the client that the connection thread has in its hand.
InHand ==
  IF pc["client_connection"] = "write" /\ client_fd = Me THEN 1 ELSE 0

\* Until the program has ended, everything that was read of the client was
\* written to it, but for the chunk in hand.
CountInv ==
  /\ IsFiniteSet(MyDelivered)
  /\ ~(condition /\ ChildEnded)
       => Cardinality(MyDelivered) = received[Me] - InHand

\* A chunk that is written is a new one of its client.
LEMMA Delivering ==
  ASSUME IInv, PlacesInv, IsFiniteSet(MyDelivered), WriteChunk
  PROVE  /\ IsFiniteSet(MyDelivered')
         /\ client_fd = Me
              => Cardinality(MyDelivered') = Cardinality(MyDelivered) + 1
         /\ client_fd # Me => MyDelivered' = MyDelivered
<1> DEFINE n == Len(delivered) + 1
<1>1. /\ delivered \in Seq(Clients \X Nat) /\ buffer \in Clients \X Nat
      /\ delivered' = Append(delivered, buffer) /\ buffer[1] = client_fd
  BY DEF WriteChunk, IInv, TypeOK, StreamType, SlotInv, PlacesInv, SessionInv
<1>2. /\ Len(delivered) \in Nat /\ DOMAIN delivered = 1..Len(delivered)
      /\ DOMAIN delivered' = 1..n /\ delivered'[n] = buffer
      /\ \A i \in DOMAIN delivered : delivered'[i] = delivered[i]
  BY <1>1
<1>3. n \notin MyDelivered
  BY <1>2 DEF MyDelivered
<1>4. CASE client_fd = Me
  <2>1. MyDelivered' = MyDelivered \cup {n}
    BY <1>1, <1>2, <1>4 DEF MyDelivered
  <2> QED
    BY <1>3, <1>4, <2>1, FS_AddElement
<1>5. CASE client_fd # Me
  <2>1. MyDelivered' = MyDelivered
    BY <1>1, <1>2, <1>5 DEF MyDelivered
  <2> QED
    BY <1>5, <2>1
<1> QED
  BY <1>4, <1>5

\* A chunk leaves the connection thread's hand for the program, or for none.
LEMMA CountInvStep ==
  ASSUME IInv, PlacesInv, CountInv, [SystemNext]_systemVars
  PROVE  CountInv'
<1> USE SystemAssumption, ServerAssumption DEF IInv, TypeOK, PcType, SlotType,
                                               StreamType, Threads
<1>1. CASE UNCHANGED systemVars
  BY <1>1 DEF systemVars, vars, CountInv, MyDelivered, InHand, ChildEnded
<1>2. CASE MyStep
  BY <1>2, OwnSteps DEF CountInv, MyDelivered, InHand, ChildEnded
<1>3. CASE ServerSide
  <2>1. CASE WriteChunk
    BY <1>3, <2>1, Delivering, EndsAreFinal, FS_CardinalityType DEF CountInv,
         WriteChunk, InHand
  <2>2. CASE ReadChunk
    BY <1>3, <2>2, EndsAreFinal DEF CountInv, ReadChunk, MyDelivered, InHand
  <2>3. CASE WriteFails \/ \E from \in {"read", "write"} : CancelService(from)
    <3>1. condition /\ ChildEnded
      BY <2>3, NothingEndsBeforeChild DEF WriteFails, CancelService, SlotInv,
           LatchInv
    <3>2. condition' /\ ChildEnded' /\ delivered' = delivered
      BY <1>3, <2>3, <3>1, EndsAreFinal DEF WriteFails, CancelService
    <3> QED
      BY <3>2 DEF CountInv, MyDelivered
  <2>4. CASE TryLock
    <3>1. InHand' = InHand
      BY <2>4 DEF TryLock, SlotInv, InHand, Free
    <3> QED
      BY <1>3, <2>4, <3>1, EndsAreFinal DEF TryLock, CountInv, MyDelivered
  <2>5. CASE \/ LockSlot \/ CheckSlot \/ WakeSlot \/ SpuriousSlot
             \/ CancelSlotWait \/ ReadEnds \/ WriteKills \/ ReleaseSlot
             \/ CloseClient
    <3>1. InHand' = InHand /\ UNCHANGED <<received, delivered>>
      BY <2>5 DEF LockSlot, CheckSlot, WakeSlot, SpuriousSlot, CancelSlotWait,
           ReadEnds, WriteKills, ReleaseSlot, CloseClient, InHand
    <3> QED
      BY <1>3, <3>1, EndsAreFinal DEF CountInv, MyDelivered
  <2>6. CASE /\ UNCHANGED <<client_fd, received, delivered>>
             /\ \/ pc'["client_connection"] = pc["client_connection"]
                \/ /\ pc["client_connection"] \in {"none", "ended"}
                   /\ pc'["client_connection"] = "slot_lock"
    <3>1. InHand' = InHand
      BY <2>6 DEF InHand
    <3> QED
      BY <1>3, <2>6, <3>1, EndsAreFinal DEF CountInv, MyDelivered
  <2> QED
    BY <1>3, <2>1, <2>2, <2>3, <2>4, <2>5, <2>6, SessionSteps, ServerSideSteps
       DEF ConnectionThread
<1> QED
  BY <1>1, <1>2, <1>3 DEF SystemNext

\* In every reachable state of the system.
LEMMA CountInvariance == SystemSpec => []CountInv
<1>1. SystemInit => CountInv
  <2> SUFFICES ASSUME SystemInit PROVE CountInv
    OBVIOUS
  <2>1. MyDelivered = {}
    BY DEF SystemInit, Init, MyDelivered
  <2>2. received[Me] = 0 /\ InHand = 0
    BY SystemAssumption DEF SystemInit, Init, InHand, Threads
  <2> QED
    BY <2>1, <2>2, FS_EmptySet DEF CountInv
<1> QED
  BY <1>1, CountInvStep, SystemInvariance, PTL DEF SystemSpec

\* A client that reports success and was taken has given the program all of
\* its input by the time its connection is closed, if the program lived: the
\* two write_all() loops, the read loop and the order of the teardown together.
THEOREM AllDelivered == SystemSpec => []SuccessIsDelivered
<1>1. /\ MaxChunks \in Nat /\ MaxChunks \in Nat \ {0}
      /\ SocketBuffer \in Nat \ {0}
      /\ {"connect"} \subseteq Cl!PossibleFaults
  BY SystemAssumption, ServerAssumption DEF Cl!PossibleFaults
<1>2. SystemSpec => []Cl!EofMeansAllWritten
  BY <1>1, ClientRefined, Cl!AllWritten, PTL DEF ImplementsClient
<1>3. ASSUME IInv, PlacesInv, ServiceInv, KeptInv, CountInv,
             Cl!EofMeansAllWritten, my_status = "SUCCESS_EOF", served, HungUp,
             process = "running", ~ChildEnded
      PROVE  Cardinality(MyDelivered) = MaxChunks
  <2> USE <1>3, SystemAssumption, ServerAssumption
          DEF IInv, TypeOK, StreamType
  <2>1. condition /\ Me \notin fd_open
    BY DEF KeptInv, HungUp
  <2>2. ~HasMore
    BY <2>1 DEF KeptInv
  <2>3. received[Me] = MaxChunks
    BY <2>2 DEF HasMore, Unread, Cl!EofMeansAllWritten, ServiceInv
  <2>4. InHand = 0
    BY <2>1, NothingEndsBeforeChild DEF InHand, PlacesInv, OpenInv
  <2> QED
    BY <2>3, <2>4 DEF CountInv
<1>4. /\ IInv /\ PlacesInv /\ ServiceInv /\ KeptInv /\ CountInv
      /\ Cl!EofMeansAllWritten
      => SuccessIsDelivered
  BY <1>3 DEF SuccessIsDelivered
<1> QED
  BY <1>2, <1>4, SystemInvariance, KeptInvariance, CountInvariance, PTL

-----------------------------------------------------------------------------
(* Both get on.                                                            *)

\* Under what is said of its scheduling, and if a thread that waits for nothing
\* has a step, the system is fair to both.
Premise ==
  /\ SystemSpec /\ SystemFairness
  /\ []CanStepIsEnabled /\ []Cl!CanStepIsEnabled

\* Who has connected stays connected, or has hung up.
LEMMA NeverAwayAgain ==
  ASSUME IInv, [Next]_vars, ends[Me] # "away"
  PROVE  ends'[Me] # "away"
<1> USE SystemAssumption DEF IInv, TypeOK, SocketType
<1>1. CASE UNCHANGED vars
  BY <1>1 DEF vars
<1>2. CASE MainThread
  BY <1>2 DEF MainThread, CreateThreads, CreateThread, SetupPipes, ForkFails,
     Fork, ReadReport, Reap, Publish, Broadcast, AwaitChildDeath, ClosePipes,
     Teardown, Cancel, Join, Destroy, UnlinkAndExit
<1>3. CASE \/ \E t \in {"child_wait", "accept"} :
                ReadyWait(t) \/ SpuriousReady(t)
           \/ WaitPid
  BY <1>3 DEF ReadyWait, LockReady, WakeReady, CancelReady, SpuriousReady,
     WaitPid
<1>4. CASE ConnectionThread \/ SpuriousSlot
  BY <1>4 DEF ConnectionThread, LockSlot, CheckSlot, WakeSlot, SpuriousSlot,
     CancelSlotWait, ReadChunk, ReadEnds, WriteChunk, WriteFails, WriteKills,
     ReleaseSlot, CloseClient, CancelService
<1>5. CASE AcceptThread
  BY <1>5 DEF AcceptThread, Accept, AcceptCancelled, TryLock, TestCancel,
     Signal, InspectSlot, Drop, Reject, RejectKills, AcceptClose,
     AcceptDiesClosing
<1>6. CASE ChildStep \/ \E c \in Clients : ClientStep(c)
  BY <1>6 DEF ChildStep, ChildStarts, ChildExec, ChildReportsError, ChildEnds,
     ChildReadsStdin, ChildClosesStdin, ClientStep, Connect, Send, Hangup
<1> QED
  BY <1>1, <1>2, <1>3, <1>4, <1>5, <1>6, Actors

\* A client whose server has closed the connection ends.
LEMMA HungUpEnds == Premise => (HungUp ~> my_status # "running")
<1>1. HungUp => ~(ends[Me] = "away")
  BY DEF HungUp
<1>2. /\ MaxChunks \in Nat /\ MaxChunks \in Nat \ {0}
      /\ SocketBuffer \in Nat \ {0}
      /\ {"connect"} \subseteq Cl!PossibleFaults
  BY SystemAssumption, ServerAssumption DEF Cl!PossibleFaults
<1>3. Cl!Spec /\ Cl!Fairness /\ []Cl!CanStepIsEnabled => Cl!HangupEndsClient
  BY <1>2, Cl!HangupEnds
<1> QED
  BY <1>1, <1>3, ClientRefined, PTL
     DEF Premise, SystemFairness, ImplementsClient, Cl!HangupEndsClient

\* A client that is connected to a server that has ended is cut off.
LEMMA EndedCutsOff ==
  ASSUME BacklogInv, process # "running", ends[Me] # "away"
  PROVE  HungUp
BY DEF BacklogInv, HungUp, InBacklog, ReadWaitsFor

\* When the program ends the server does, and with it every client that is
\* connected, although it may be blocked on standard input, on its socket, or
\* in the backlog: nobody has to press a key to get the terminal back.
THEOREM ClientFollows == Premise => ClientFollowsProgram
<1> DEFINE Here == ends[Me] # "away"
<1>1. SystemSpec => Spec
  BY SystemHasServer
<1>2. Premise => (Over ~> process # "running")
  BY <1>1, FollowsChild, PTL
     DEF Premise, SystemFairness, ServerFollowsChild, Over
<1>3. IInv /\ Here /\ [Next]_vars => Here'
  BY NeverAwayAgain
<1>4. BacklogInv /\ process # "running" /\ Here => HungUp
  BY EndedCutsOff
<1>5. Premise => (HungUp ~> my_status # "running")
  BY HungUpEnds
<1>6. Premise => [][Next]_vars /\ []IInv /\ []BacklogInv
  BY <1>1, Invariance, BacklogInvariance, PTL DEF Premise, Spec
<1>7. ends[Me] # "away" => Here
  OBVIOUS
<1> HIDE DEF Here
<1> QED
  BY <1>2, <1>3, <1>4, <1>5, <1>6, <1>7, PTL DEF ClientFollowsProgram, Over

\* Whoever waits in the backlog while the program runs is taken, or ends: it is
\* rejected, dropped, or cut off with the server.
THEOREM ClientAnswered ==
  ListenBacklog = 1 => (Premise => ClientIsAnswered)
<1> SUFFICES ASSUME ListenBacklog = 1 PROVE Premise => ClientIsAnswered
  OBVIOUS
<1> DEFINE Queued == InBacklog(Me) /\ condition
           Here == ends[Me] # "away"
           Gets(c) == Spec /\ Fairness /\ []CanStepIsEnabled
                        => (InBacklog(c) /\ condition ~> Answered(c))
<1>0. ASSUME NEW c \in Clients PROVE Gets(c)
  BY OneIsAnswered
<1> HIDE DEF Gets
<1>1. SystemSpec => Spec
  BY SystemHasServer
<1>2. Gets(Me)
  BY <1>0, SystemAssumption
<1>3. IInv /\ Here /\ [Next]_vars => Here'
  BY NeverAwayAgain
<1>4. PlacesInv /\ Queued => Here
  BY SystemAssumption DEF PlacesInv, QueueInv
<1>5. ServiceInv /\ Here /\ Answered(Me) => served \/ HungUp
  BY DEF ServiceInv, Answered, HungUp, ReadWaitsFor
<1>6. Premise => (HungUp ~> my_status # "running")
  BY HungUpEnds
<1>7. Premise => [][Next]_vars /\ [](IInv /\ PlacesInv /\ ServiceInv)
  BY <1>1, SystemInvariance, PTL DEF Premise, Spec
<1> HIDE DEF Here
<1> QED
  BY <1>1, <1>2, <1>3, <1>4, <1>5, <1>6, <1>7, PTL
     DEF Gets, ClientIsAnswered, Premise, SystemFairness

=============================================================================
