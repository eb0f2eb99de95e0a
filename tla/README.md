# TLA+ models of usockit

usockit lets several terminals type into the standard input of one program: a
*server* starts the program with a pipe as its standard input and listens on a
Unix socket; a *client* copies its own standard input to that socket. Paths
below are relative to the repository (`src/src/server.c` is the file
`src/server.c` in the repository's own terms).

The modules here model the whole of that: the server with its four threads and
its child, the client with its three threads, the command line, the socket's
pathname, everything that is acquired and given back, and a client and its
server together. TLC checks them on
small instances, the TLA+ proof system proves the most important results for
every instance.

## 1. Inventory

### The system's parts

| Component | Code | State it keeps | Operations | Module |
|---|---|---|---|---|
| Server, main thread | `src/src/server.c` `usockit_server`, `_setup_socket`, `_setup_threads`, `_setup_child`, `_parent` | which threads exist and are cancelled; `child_ready_info` (mutex, condition variable, flag) | create three threads, make two pipes, fork, read the child's report, announce the child, wait for its end, cancel and join, destroy and free, unlink | `Server`, `ServerChild` |
| Server, child_wait thread | `_thread_routine_child_wait`, `_wait_for_child_ready` | none of its own | wait for the announcement, `waitpid` | `ServerChild` |
| Server, accept thread | `_thread_routine_accept` and its cleanup routine | the accepted descriptor, `do_cleanup` | accept, hand over, signal, reject, drop, close | `ServerClients` |
| Server, connection thread | `_thread_routine_client_connection` and its cleanup routine | the slot `client_ready_info` (mutex, condition variable, `client_fd`), a buffer | wait for a client, read, write to the child, release the slot, close | `ServerClients` |
| Child process | `_child`, then the program | its descriptors | `dup2`, `execvp`, report an error, read or close its standard input, end | `ServerChild`, `Resources` |
| Socket pathname | `_setup_socket` | a directory entry | bind, listen, unlink | `SocketPath` |
| Client, main thread | `src/src/client.c` | `threads_result_dest_ptr` (mutex, condition variable, result) | connect, create two threads, wait, copy the result, cancel, join, free, return a status | `Client` |
| Client, receiving thread | `src/src/client/receiving_thread/` | a local result | read the rejection message, store a result, signal; `abort` on end of file | `Client` |
| Client, sending thread | `src/src/client/sending_thread/`, `src/src/client/threads_result.c` | a local result | read standard input, write the socket, store a result, signal | `Client` |
| Command line | `src/src/main.c`, `src/include/usockit/cli.h` | `struct usockit_cli` | parse, append, shrink, destroy, run server or client, exit code | `Cli` |
| Resources | the three files above | memory, locks, threads, descriptors, pipes | acquire in order; undo on failure; give back at the end | `Resources` |
| `write_all` | `src/include/usockit/utils.h` | bytes written | loop of `write` | `Client` (every `write` a step), `ServerClients` (where the loop runs once) |
| Client and server | both ends of one connection | the socket between them | each end's calls as the other end sees them | `System` |

### How they interact

* Main and the two threads that wait for the child share `child_ready_info`: main
  sets the flag under the mutex and broadcasts after unlocking.
* The accept thread and the connection thread share `client_ready_info`: accept
  *tries* the mutex; the connection thread holds it through a whole session and
  releases it only in its wait and its cleanup routine. A busy mutex means "a
  session is going on" (or that the connection thread is just about to wait).
* Main ends the others by `pthread_cancel` and `pthread_join`; where a thread
  dies decides what it leaves locked or open.
* The child's report travels through a close-on-exec pipe: an error struct, or
  an end of file when `exec` succeeds.
* Clients and server meet at the socket: backlog, data, hang-ups in both
  directions, the rejection message.
* In the client the first thread to store a result decides, except that a
  rejection may replace an `EPIPE`.

### What is hard

Three threads with two condition variables, deferred cancellation in the middle
of `pthread_cond_wait`, `read`, `write` and `close`; a mutex used both as a lock
and as an "occupied" flag, and tried without blocking; SIGPIPE; a child that can
fail before or after `fork`, between `fork` and `exec`; a hand-written undo
list for every failing step; results that race with each other and with the main thread. The
list of hazards with their lines is in `PROJECT.json`.

### What makes each part correct

* Slot and sessions: the child's input is a concatenation of sessions, one
  client at a time, no byte lost or repeated in between; a session's descriptor
  is never replaced; a rejected client is never served; a stored descriptor is
  picked up; a long session keeps nobody in the backlog.
* Start and teardown: nothing is used before it is initialized or after it is
  freed, on any error path; no cancelled thread takes along a mutex that
  somebody still needs; the server ends when the program does.
* Pathname: the listening server is the one reached; nothing stale remains but
  after a kill; a foreign file is never removed.
* Resources: everything is given back, once, users before what they use.
* Client: the reported status is true; no thread outlives what it uses; a gone
  server is noticed.
* Command line: the vector never overflows, the program gets exactly its
  arguments, every way out frees the vector.

## 2. Modules

| Module | What it is |
|---|---|
| `ServerState` | constants, variables, initial state of a running server |
| `ServerChild` | child set-up, announcement, the child, the child_wait thread |
| `ServerClients` | clients, accept thread, connection thread |
| `Server` | composes the two with the main thread's creation and teardown; properties |
| `Console` | the abstract specification the server implements |
| `ServerInvariants` | the inductive invariants that TLC checks and the proofs start from |
| `ServerProofs` | theorems about `Server`: start, teardown, the slot |
| `ConsoleProofs` | theorems about `Server`: where clients are, the refinement of `Console`, what it says of the program's input |
| `ProgressProofs` | theorems about `Server`: nobody waits in vain; what is queued, handed over or announced is answered, served, followed to its end; with the invariants only these proofs need |
| `Client`, `ClientProofs` | the client; theorems |
| `System`, `SystemProofs` | a whole client and a whole server; theorems |
| `Cli`, `CliProofs` | the command line; theorems |
| `SocketPath`, `SocketPathProofs` | servers on one pathname; theorems |
| `Resources`, `ResourcesProofs` | acquisition and release, server and client; theorems |
| `MCServer`, `MCClient`, `MCSystem`, `MCCli`, `MCSocketPath`, `MCResources` | values of the constants for TLC |

### From code to actions

*Threads.* `pc[t]` is the next step of thread `t`; `Goto(t, from, to)` is a step.
A step of the model is the code between two points at which another actor can
make a difference: a lock, a wait, a cancellation point, a system call. A section
under a mutex that contains no such point is one step (`TryLock`, `Publish`,
`Dispatch`), a mutex that is held across steps is a variable with its holder.

*Cancellation* is deferred, as in the code: `cancelled` collects what
`pthread_cancel` asked for, and only steps that stand for a cancellation point
look at it (`CancelReady`, `AcceptCancelled`, `AcceptDiesClosing`,
`CancelSlotWait`, `CancelService`, `CloseClient`). `pthread_cond_wait`
reacquires its mutex before the thread dies, and the code pushes no handler that
unlocks it: the holder of `child_ready_mutex` can therefore be a dead thread,
which is what `NobodyWaitsInVain` and `FailedStartIsReported` are about.

*Signals and wake-ups.* `woken` holds the threads a signal or broadcast reached
while they waited; spurious wake-ups are separate steps that are always possible
and never owed. SIGPIPE ends the server process (`WriteKills`, `RejectKills`):
the server neither blocks nor ignores it. The client blocks it and gets `EPIPE`.

*Undefined and unspecified behaviour.* `client_fd` is read without the mutex in
the accept thread: an aligned `int`, so `InspectSlot` sees the value before or
after any store. After a normal run the accept and child_wait threads are
cancelled and joined a second time; glibc ignores the cancellation and returns an
error from the join, and so does the model (`Cancel`, `Join` of an ended thread).
Destroying a locked mutex fails without effect. A `read` or `write` that waits when
another thread closes its descriptor goes on with the open file (`ReadWaitsFor`,
`WriteKills`); one that starts afterwards fails (`ReadEnds`, `WriteFails`).

*Data* is abstract: a chunk is `<<client, number>>`, the result of one `read`.
The server's `write_all` of a chunk is one step: a chunk is smaller than
`PIPE_BUF`, so the pipe takes all of it or makes the writer wait. The client's
is not: a socket takes what it has room for, so `Client!WriteSocket` is one
`write` of the loop, and the server may read, refuse or close between two of
them (`WriteFails` then loses what is left of the buffer).
Descriptors on the server's side are named by the client they belong to; nothing
opens a descriptor after the accept thread has ended, so numbers are not reused
while somebody still holds them.

*Two processes.* `Client` has the server as its environment: `Serve`, `Refuse`,
`ServerReads`, `ServerHangsUp` are all that a server may do. `ServerClients` has
clients that connect, send and hang up as they like. `System` puts a `Client` in
the place of one of the clients of a `Server`. What the client does to the
connection is one joint step of both modules (`MyConnect`, `MySend`, `MyEnd`); a
step of the server changes what the client finds in its socket: a rejection that
was sent to it arrives, a `close` of an end with unread data, or of a listening
socket with the client in its backlog, resets it. `service`, `hung_up`, `unread`
and `taken` of `Client` are functions of the server's state there. That the
server then does nothing `Client` does not expect is a property
(`ImplementsClient`), not an assumption.

*Variants.* Some modules define an operator next to the one that models the code
whose comment says what is defective about it (`InstallUnlocked`,
`TeardownUnjoined`, `AppendTight`, …). They are never part of a specification.
Each is a plausible mistake in the code, and `PROJECT.json` names the property
that notices it: a property that no such mistake breaks would say nothing.

## 3. Runs

States are distinct states, on two workers.

| Run | Instance | What it shows | States |
|---|---|---|---|
| `server_safety` | 2 clients of up to 2 chunks, every fault of a start | the server implements `Console`; sessions are not stolen; a refused client is never served; a session's descriptor is closed under it only by a cancelled accept thread; a chunk is dropped by a living server only when the child has ended; nothing is used before its initialization or after its release; nobody waits for a signal, a mutex or the end of a thread that will never come; `CanStep`, which the proofs of progress use, is what is enabled; and the invariants that `ServerProofs` and `ConsoleProofs` prove inductive | 272,437 |
| `server_live` | 2 clients of up to 1 chunk, a pipe of 2, no faults of a start, fair threads | no lost wake-up at the hand-over: each chunk that the client in the slot has sent is forwarded; whoever is queued gets into the slot or has the connection closed, whatever a session does; the server ends after its child | 142,534 |
| `client` | 4 units of input, read up to 3 at a time, into a socket of 2; every fault, fair | truth of the reported status through partial writes, lifetimes, first result; nobody waits in vain; `CanStep` is what is enabled; a stored result or a gone server ends the client | 10,465 |
| `system` | a client with 2 units of input, and another that wants the slot, no faults | the server is one that `Client` expects; a client that reports a rejection left no trace in the program's input; one that was taken and reports success had all of it delivered by the time its connection is closed, unless the program or the server ended; a taken client is cut off only by the end of program or server | 642,893 |
| `cli_parse` | up to 6 words of 5 kinds, capacity 2, every failing allocation | the vector, the program's arguments, usage errors, the vector freed | 93,002 |
| `resources` | each of 30 steps may fail, with `pipe2` and without | the inductive invariant of `ResourcesProofs`; nothing left, nothing twice, nothing dangling; pipes end, but for the report's writing end that a build without `pipe2` leaves to the program | 678 |
| `socket_path` | 4 servers | reachability, stale and foreign pathnames | 260 |

Runs that find a disagreement between the code and what the repository says of
it, each with one property (`PROJECT.json`, "findings", quotes both sides):

| Run | What happens |
|---|---|
| `server_one_client` | two clients can be connected at once: a second one is handed over before the first was picked up; the first is neither served nor rejected, its descriptor leaks |
| `server_empty_slot` | "try again" is a `continue` in `do … while(false)`: the client is closed unanswered |
| `server_hangup` | rejecting a client that has hung up raises SIGPIPE and ends the server |
| `server_failed_start` | after a failed `exec` the cancelled accept thread takes the mutex along and main's join never returns |
| `server_fallback_pipe` | without `pipe2`, `O_CLOEXEC` is passed where `FD_CLOEXEC` is meant; the report never ends |

Six things the models contain that no property is about:

* A client whose input ends before the rejection arrives reports success although
  nobody served it (`Client!StdinEnds`). `SuccessIsDelivered` is therefore about
  clients that were taken.
* The receiving thread replaces an `EPIPE` by the rejection, "if the sending thread
  already signalled" (`src/src/client/receiving_thread/receiving_thread.c:114`). It
  does so in the shared structure; main may have copied the `EPIPE` before
  (`src/src/client.c:166`) and then reports a failure. `FirstResultWins` says
  what the structure goes through, `RefusalIsTrue` that the report is never
  wrong the other way round.
* `OUT_OF_MEMORY` of `usockit_server()` reaches `cross_support_unreachable()` in
  `main_server` (`Cli!RunServer`), at a line its authors marked as unfinished.
* A child that closes its standard input and goes on ends the server by SIGPIPE at
  the next chunk (`ServerClients!WriteKills`).
* A chunk in the connection thread's hand is lost when SIGPIPE ends the server, whether
  its own write raised the signal or the accept thread's rejection (`server_hangup`).
  `ChunkLostOnlyToEndedChild` is about a server that goes on and drops a chunk;
  `SuccessIsDelivered` is about servers that run.
* A client whose descriptor was overwritten in the slot (`server_one_client`) keeps a
  connection that nobody reads or closes until the server ends. It may report success
  for input that nobody read: `SuccessIsDelivered` looks at closed connections.

### Bounds, and why they are enough

* Clients: every race about the slot is between two of them, one in the slot and
  one at the door, which overwrites it, is refused, dropped or queued. A third
  would be in the backlog, which the accept thread looks at one at a time. Each
  client connects once; a second connection of a person is a second client. The
  theorems of `ServerProofs` hold for any set of clients.
* `MaxChunks` 2: a second chunk is needed for order and repetition within a
  session. Liveness is checked with 1 and proved for any number; the runs that end
  in a few steps have 0 or 1.
* `PipeCapacity` 1: the pipe to the child is full after one chunk, so every
  session may block in `write`. `server_live` has 2, which takes both clients'
  chunks to fill, so that a full pipe hides no lost wake-up.
* Faults: `server_safety` has every failure of a start, a child that dies before
  `exec` among them, so that the start's error paths and the states before `exec`
  are all explored. `server_live` has none, to keep the graph small that TLC
  searches for cycles; the theorems about liveness hold for all of them.
* `ListenBacklog` 1, as in the code: the kernel queues two, which is both clients.
* Client: `Input` 4, read up to `BufferSize` 3 at a time, over `SocketBuffer` 2: a
  buffer is larger than the socket, so that a `write_all` takes up to three writes
  and blocks between them, there is a second buffer after it, the server can
  close with data unread, and the input can end in any of these states.
* System: the other client only connects, so that it holds the slot or wants it;
  what it sends and when it leaves is in `server_safety`. Its two units are
  written one at a time, so that the server closes between them. `ListenBacklog`
  is 1 and `PipeCapacity` 1 as before. The faults of a start are left out here; the
  theorems of `SystemProofs` include them.
* Command line: six words make a vector that starts at 2 grow three times (the
  code starts at 8, where the first growth needs 8 arguments; the proofs cover
  every capacity of at least 2).
* Symmetry over clients and servers is used only in runs without liveness.
* Programs end, so deadlock checking is off everywhere; that nothing stops too
  early is what the liveness properties say.

### Fairness

`Server!FairSpec` has weak fairness for each of the four threads (the kernel schedules
every thread). Nothing is assumed of the child, of clients, or of spurious wake-ups:
what the properties need of the child they state. `StartFairSpec` adds the child's
steps from `fork` up to its program, for the two runs that refute something said
of a start, which would be refuted trivially if the child could stop there.
`Client!FairSpec`
has weak fairness for each thread, and strong fairness for the two steps in which
a thread takes the result's mutex: main takes and releases that mutex at every
spurious wake-up, and weak fairness alone would let it win every time. Nothing is
assumed of the server or of standard input. `SystemFairness` is both together, with
one exception: a client whose `connect` finds the backlog full need not ever get
through, so its threads are assumed to be scheduled only once it is connected. The
fairness of `Client` would take its `connect` for a step that is always possible.

## 4. Proofs

All theorems hold for every value of the constants that satisfies the named
assumptions (`ServerAssumption`, `ClientAssumption`, `SystemAssumption`,
`CliAssumption`, `SocketPathAssumption`; `Resources` needs none).

*Server* (`ServerProofs`). `IInv` is type correctness and four parts that need
each other. `SlotInv`: from the test of the slot to the end of a session the
connection thread holds the mutex, and descriptors in use are those of clients.
`TeardownInv`: main is past a join only if the joined thread has ended.
`CancelInv`: nobody is cancelled before the child is gone; the connection and
child_wait threads are cancelled only when the accept thread is gone, and a dead
owner of `child_ready_mutex` was cancelled in its wait. `LatchInv`: nothing
passes the latch before the announcement, and past main's wait for it the
child_wait thread has ended. Theorems: the invariant itself; that no step
replaces the descriptor of a session (`NotStolen`); that a chunk in hand is written
or given up to an ended child only, as long as SIGPIPE does not end the server
(`LostOnlyToEndedChild`: the pipe is closed and the connection thread cancelled after
main's wait for the child, which `CancelInv` and `LatchInv` carry to these two
steps); that no thread outlives the freed structures (`NotUsedAfterFree`); that memory filled in by `fork` is read
only afterwards (`Initialized`); that an announced child's server never wedges
(`ReadyNeverWedges`); that the slot's mutex is abandoned last (`AbandonedLast`).
The proof has a lemma per part of the invariant and in it a case per actor.

*Where clients are* (`ConsoleProofs`). `PlacesInv` follows each client through the
hand-over. `QueueInv`: it is away, in the backlog once, or in the accept thread's
hand, and refused only from there. `UntouchedInv`: as long as it is in one of these
places, or once it was refused, the slot and the connection thread have nothing of
it. `SessionInv`: a session starts at the client's first chunk, and what the child
was given was read in a session. `OpenInv`: descriptors in use are open, but for one
the accept thread closed as it died. Each part is inductive relative to `IInv` and
the parts before it; `WaitingShrinks` is the lemma they share: nobody gets back to a
place it has left. From it: `RefusedGetsNothing`, `ServedWhileOpen`, and
`ConsoleRefined`, that `Server` implements `Console`. The mapping is that of
`Server!C`: a session is the slot's descriptor while the connection thread reads or
writes, its progress is what was read short of the chunk in hand, and finished is
everybody who is not pending. `ConsoleStep` has a case per step that touches these
three: `CheckSlot` begins a session, `WriteChunk` delivers (the chunk in hand is the
next one, by `SessionInv`), `ReadEnds`, `WriteFails` and `CancelService` end it; any other
step stutters or dismisses a client, since `PendingShrinks`. `SessionsAreWhole` says
what this is worth to the reader of the child's input: `Console!WholeSessions`, each
chunk directly after the one before it of the same client, none twice. It is proved
of `Console` alone, through the mapping: `Forwarded` ties the last chunk to the
session that is open, and all others to it or to sessions that are over.

*Nobody waits in vain* (`ProgressProofs`). `NobodyWaitsInVain` says that no thread
sleeps through what it waits for, that main joins no thread that is itself stuck, and
that no mutex somebody wants is left to a dead thread. Its inductive invariant is
`WaitInv`: `WakeupsKept` (who sleeps although the slot is filled, or the child
announced, was signalled, or the signaller is a step short of it, or was cancelled),
`HolderInv` (who wants the slot's mutex does not hold it), `CreatedInv` and
`AskedInv` (main joins only whom it has created and cancelled), `WokenInv`.
From it and `IInv` follows that a joined thread has a next step, except for the wait
for a living child and the start that fails (`server_failed_start`).

*The server gets on* (`ProgressProofs`). Three liveness properties are theorems as well:
`Spec /\ Fairness /\ []CanStepIsEnabled` implies each of them, for all faults and
both kinds of pipe.

The premise stands for what the prover cannot do: compute `ENABLED`. `CanStep(t)`
lists what thread `t` can wait for. `CanStepIsEnabled` says that this list is exact,
and with it weak fairness becomes a statement the prover can use. It is a state
predicate that TLC checks in `server_safety` (the client's in `client`), in every
reachable state of an instance with all faults; for other instances it is taken on
that evidence and on reading the guards. Each argument is then the one of a fair
scheduler: in a given situation nothing but progress can change it, a step of one
thread is progress, and that thread has a step.

* `FollowsChild`, that a server whose announced child has ended comes to its end:
  main passes each step of its way, because it can go on, or the thread it joins can
  and is so many steps from its end (`NobodyWaitsInVain`). This includes a child
  that died before `exec`.
* `QueuedAreAnswered`, that everybody who is queued gets into the slot or has the
  connection closed. `OneIsTaken` is the way out of the backlog: while the announced
  child lives main cancels nobody (`ServingState`), so the accept thread goes round,
  and never blocks but in `accept`: it only *tries* the mutex. What shrinks is the
  client's place in the backlog and the accept thread's way to the next `accept`
  (`AcceptRank`). From the hand of the accept thread a client is `HandRank` steps from
  the slot, the rejection or the close (`HandComesNearer`). If the child ends first,
  so does the server, by `FollowsChild`, and `BacklogInv` says that an ended server
  has neither a backlog nor an open connection. The theorem is for
  `ListenBacklog = 1`, as the code has it (`src/src/server.c:230`), where the backlog
  holds two; any length would need an induction over places.
* `HandedOverIsServed`, that each chunk which the client in the slot has sent is
  forwarded: if the program can take it (`Held`), `HeldState` shows from the
  invariants that the connection thread is alive, that the mutex it wants is free, and
  that it waits for a signal only when the accept thread is about to send it.
  `ServiceRank` counts its steps to the chunk's `write`. `FinishedInv`, that a session
  ends before its client is finished only if the program or the server ends, is needed
  to exclude a descriptor that is released with the chunk still in the socket.

*System* (`SystemProofs`). `SystemHasServer`: the system's server is a `Server`, so all
of the above holds in it. `ServiceInv` says what `served` (a history variable) means in
terms of the server's places. With it `ServerStep` shows that each step of the server
is one of the four that `Client` expects, or none: the hand-over and the rejection
find a client that waits and an open descriptor, a read one that was handed over, and
the server's end, once closed, stays closed. So `ClientRefined`: the
client in the system is a `Client`, and the theorems of `ClientProofs`, which assume
nothing else of a server, hold of it. `RejectedIsClean` joins two of them: a client
that reports a rejection was refused (`RefusedIndeed`), and who was refused has
nothing in the program's input (`RefusedGetsNothing`). `KeptUntilTheEnd` rests on
`KeptInv`: the descriptor of a client that was taken stays open as long as the
client lives or has data there, and the child and the server live, because nothing
is cancelled and the child's standard input not closed before the child's end
(`NothingEndsBeforeChild`). `AllDelivered`, that a client which reports success has given
the program all of its input by the time its connection is closed, adds a count to
it (`CountInv`): until the child has ended, the program's input holds as many units of
the client as were read of it, but for one in the connection thread's hand. The
descriptor is closed, so by `KeptInv` nothing is left to read; all of the input was sent
(`AllWritten`); and a session with a unit in hand would still have it open.

The two sides get on together as well. `ClientFollows`: when the program ends, so
does every connected client, although it may be blocked on standard input, on its
socket or in the backlog. The server ends (`FollowsChild`), an ended server has no
connection left (`EndedCutsOff`), and a client whose connection is gone ends
(`HangupEnds`, of the client by way of `ClientRefined`). `ClientAnswered`: a
client in the backlog is taken, or ends; its connection is closed if it does not get
into the slot (`QueuedAreAnswered`), and then it ends, as before. Their `Premise` is
`SystemFairness` and the two `CanStepIsEnabled`; the client's speaks of `Client`, so
what TLC says of it in `client` is what is meant. The properties themselves are not
run: with fairness for seven threads TLC gets through a fraction of the smallest
instance in the time a run has.

*Client* (`ClientProofs`). The truth of the reported status is a statement about
the end that follows from a conservation law along the way: units unread on
standard input, in the sending thread's hands, in the socket and taken by the
server add up to the input (`StreamInv`) until the sending thread has a result.
`ResultInv` ties every result that is stored or copied to the thread that saw
it, `ServiceInv` ties the rejection message to a server that never read.
Theorems: `AllWritten`, `RefusedIndeed`, `FirstWins`, `NotUsedAfterFree`.

`NoneWaitsInVain` rests on `WaitInv`: a result that is stored finds main awake, or
signalled, or about to be; main keeps the mutex only over steps that wait for nothing;
whom it joins it has cancelled, or has seen ending. `ResultEnds` and `HangupEnds` are
the client's liveness, from `Spec /\ Fairness /\ []CanStepIsEnabled` as above: main
passes each step from there to its end, being free to go on (`MainFree`), or waiting
for a thread that has a known number of steps left (`Hinders`) and no reason to stop;
and a client whose server is gone has a receiving thread that sees it, whatever the
sending thread is blocked on: it aborts, or finds a rejection first and stores it, by
the strong fairness of the mutex.

*Command line* (`CliProofs`). `ArgsInv` says what the loop has made of the
arguments so far; `AppendFits` is the arithmetic of the vector (growing by half
makes room for two pointers whenever the capacity is at least two; with a
capacity of one it would not). Theorems: `VectorSafe`, `Freed`, `ArgsPassed`,
`UsageAccepted`, `TypeCorrect`.

*Pathname* (`SocketPathProofs`). `Reachable`, `Stale`, `ForeignKept`.

*Resources* (`ResourcesProofs`). The one parameter of `Resources` is the set of steps
that may fail, which TLC's run has all of, and whether the server was built with
`pipe2` is chosen in its initial state, so that the run is exhaustive; what the proof adds
is the reason. `Disposes(q, H)`: giving back the list
`q` in its order disposes of exactly `H`, each thing once and after all that uses it.
`DisposalInv` says this of the undo list of the step to come while the start goes up,
and of what is left of the list on the way down; `AcquiredInv` says what is held at
each step, `ChildInv` what the child has of it: after the `exec` its standard input
alone where there is `pipe2`, and without it the writing end of the report as well,
because `F_SETFD` is given `O_CLOEXEC` (`src/src/server.c:701`). `BothPipesEnd`
therefore states the end of the report without exception only for the first of the two
builds; what comes of it in the second is `server_fallback_pipe`. The proof of a step that succeeds is
that its resource in front of the old list gives the new one (`DisposesFirst`), that of
a failing step that the list in hand is already right, that of giving back
that the rest of a list disposes of the rest (`DisposesRest`). Theorems:
`AllGivenBack`, `GivenBackOnce`, `NoneDangles`, `BothPipesEnd`.

Only model-checked, and why:

* `CanStepIsEnabled` of server and client: the prover does not evaluate `ENABLED`. It
  is the premise of the liveness theorems;
* `QueuedIsAnswered` for a backlog of another length than the code's;
* the statements of the repository that the code does not keep, which TLC refutes.

## 5. Not modelled

* Texts: usage, version, error messages, the wording of the rejection.
* The loop of `write_all` on the server's side, for the two calls in which `write` takes
  everything or fails: less than `PIPE_BUF` into a pipe, eight bytes into a socket
  nothing was written to before.
* Signals other than SIGPIPE, and a kill of the server, except for the pathname
  it leaves behind (`SocketPath!Kill`). The code installs no handler.
* Failures of `pthread_mutex_lock` and the like that the code asserts or ignores.
  A failing `accept` changes no state: the code tries again at once.
* Portability macros, memory tracing, the build.
* Features that `src/roadmap_notes.txt` only plans.

## 6. Plan

Done in this order: the server with its inductive invariant; the client; the command
line, the pathname, the resources; partial writes; where clients are and the
refinement of `Console`, both proved; the system of client and server, and its theorems;
who waits for whom, and from it the liveness of server and client; the resources' proof;
what a client can count on, queued or served, when both sides run together.

What could follow:

1. *More of the system.* The other client as a whole `Client` as well, and a start that
   fails under a client that is already connected; both multiply the states.
2. *Signals.* A server killed at any time, and what its child and its clients see.
