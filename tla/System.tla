------------------------------- MODULE System -------------------------------
(***************************************************************************)
(* A whole usockit server (Server) and, of its clients, one that is a      *)
(* whole usockit client (Client); the others stay what ServerClients makes *)
(* of them.  What each side does to the connection is one joint step:      *)
(* connect(2), write(2) and the close(2) at the client's end are Connect,  *)
(* Send and Hangup there.  One unit of data is what one read(2) of the     *)
(* server returns.                                                         *)
(***************************************************************************)
EXTENDS Server

CONSTANTS
  Me,            \* the client with an inside
  SocketBuffer   \* units its socket takes before write(2) blocks

ASSUME SystemAssumption ==
  /\ Me \in Clients
  /\ MaxChunks > 0
  /\ SocketBuffer \in Nat \ {0}

VARIABLES
  my_pc, my_cancelled, my_mutex, my_woken, my_result, my_local_result,
  my_threads_result, my_status, my_left, my_buffer, my_reset, my_inbox,
  served        \* history: was Me handed over to the connection thread?

myVars == <<my_pc, my_cancelled, my_mutex, my_woken, my_result,
            my_local_result, my_threads_result, my_status, my_left, my_buffer>>

\* What the server has done with the connection of Me.
Service ==
  CASE ends[Me] = "away" -> "absent"
    [] Me \in refused    -> "refused"
    [] served            -> "serving"
    [] OTHER             -> "queued"

\* Has the server's end of it been closed?
HungUp ==
  /\ ends[Me] # "away"
  /\ ~(InBacklog(Me) \/ Me \in fd_open \/ ReadWaitsFor(Me))

\* The client and what is proved of it; its whole input is MaxChunks units.
Cl == INSTANCE ClientProofs WITH
  Input <- MaxChunks, BufferSize <- MaxChunks, Faults <- {"connect"},
  pc <- my_pc, cancelled <- my_cancelled, mutex <- my_mutex,
  woken <- my_woken, result <- my_result, local_result <- my_local_result,
  threads_result <- my_threads_result, status <- my_status, left <- my_left,
  buffer <- my_buffer, reset <- my_reset, inbox <- my_inbox,
  service <- Service, hung_up <- HungUp,
  unread <- Unread(Me), taken <- received[Me]

systemVars == <<vars, myVars, my_reset, my_inbox, served>>

SystemInit == Init /\ served = FALSE /\ Cl!Init

-----------------------------------------------------------------------------
(* Steps of the client that the server sees.                               *)

\* There is nobody to connect to once the server has ended.
MyConnect ==
  /\ \/ Connect(Me)
     \/ process # "running" /\ UNCHANGED vars
  /\ Cl!Connect

MySend == Send(Me) /\ Cl!WriteSocket

\* The process ends, by returning or in abort(3), and closes its end.
MyEnd ==
  /\ IF ends[Me] = "connected" THEN Hangup(Me) ELSE UNCHANGED vars
  /\ Cl!Return \/ Cl!ReceiveEOF

\* All the other steps of its threads.
MyMain ==
  /\ UNCHANGED vars
  /\ \/ Cl!CreateThreads \/ Cl!Lock \/ Cl!Check \/ Cl!Wake \/ Cl!CopyResult
     \/ Cl!EndThreads \/ Cl!Destroy

MyReceiving ==
  /\ UNCHANGED vars
  /\ \/ Cl!Receive \/ Cl!DispatchOverriding
     \/ Cl!Signal("receiving") \/ Cl!Cancelled("receiving")

MySending ==
  /\ UNCHANGED vars
  /\ \/ Cl!ReadStdin \/ Cl!StdinEnds \/ Cl!WriteFails \/ Cl!Dispatch
     \/ Cl!Signal("sending") \/ Cl!Cancelled("sending")

MySpuriousWake == UNCHANGED vars /\ Cl!SpuriousWake

MyStep ==
  /\ my_status = "running"
  /\ UNCHANGED served
  /\ \/ MyConnect \/ MySend \/ MyEnd
     \/ MyMain \/ MyReceiving \/ MySending \/ MySpuriousWake

-----------------------------------------------------------------------------
(* Steps of the server and of the others, as the client sees them.         *)

\* The other clients only connect, so that they hold the slot or want it;
\* what they send and when they leave is in the runs of Server.
OthersConnect == \E c \in Clients \ {Me} : Connect(c)

\* The rejection message arrives; a close(2) of a connection with data that
\* was not read, or that was not even accepted, resets it.
ServerSide ==
  /\ \/ \E t \in Threads : ThreadStep(t)
     \/ SpuriousWakeup
     \/ ChildStep
     \/ OthersConnect
  /\ served' = (served \/ client_fd' = Me)
  /\ my_inbox' = IF Me \in refused' \ refused THEN "refusal" ELSE my_inbox
  /\ my_reset' = IF HungUp' /\ ~HungUp
                   THEN Unread(Me)' > 0 \/ InBacklog(Me) ELSE my_reset
  /\ UNCHANGED myVars

SystemNext == MyStep \/ ServerSide

SystemSpec == SystemInit /\ [][SystemNext]_systemVars

\* The kernel schedules the threads of both, but a connect(2) that finds the
\* backlog full need not ever return.
SystemFairness ==
  /\ Fairness
  /\ [](ends[Me] = "away") \/ Cl!Fairness

-----------------------------------------------------------------------------
(* Properties.                                                             *)

MyDelivered == {i \in DOMAIN delivered : delivered[i][1] = Me}

\* What Client assumes of a server is all that this server ever does: no
\* order of hand-over, rejection, reads and close takes a client by surprise.
ImplementsClient == Cl!Spec

\* A client that reports a rejection has left no trace in the program's input.
RejectedLeavesNothing ==
  my_status = "SUCCESS_FUCK_OFF" => MyDelivered = {}

\* When the server closes the connection of a client that it took and that
\* reports success, the whole input of the client has reached the program, if
\* neither the program nor the server has ended.  A client whose descriptor was
\* overwritten in the slot (server_one_client.cfg) has its connection open
\* until the server ends, and is therefore not one of those.
SuccessIsDelivered ==
  my_status = "SUCCESS_EOF" /\ served /\ HungUp /\ process = "running"
    => ChildEnded \/ Cardinality(MyDelivered) = MaxChunks

\* A client that was taken is cut off only by the end of the program or of
\* the server.
ServedUntilTheEnd ==
  served /\ my_status = "aborted" => ChildEnded \/ process # "running"

\* When the program ends so does the client, whatever it was waiting for:
\* nobody has to press a key to get the terminal back.
ClientFollowsProgram ==
  condition /\ ChildEnded /\ ends[Me] # "away" ~> my_status # "running"

\* A client does not wait at the door for ever: it is taken, or it ends.
ClientIsAnswered ==
  InBacklog(Me) /\ condition ~> served \/ my_status # "running"

=============================================================================
