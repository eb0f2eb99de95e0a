-------------------------------- MODULE Cli --------------------------------
(***************************************************************************)
(* The command line of usockit: main() of src/main.c goes through its      *)
(* arguments, collects those after "--" in a vector that grows on demand   *)
(* (struct usockit_cli of cli.h) and runs a server or a client, whose      *)
(* status it turns into an exit code.                                      *)
(***************************************************************************)
EXTENDS Naturals, Sequences

CONSTANTS
  Names,         \* arguments that are not empty, "--" or "--version"
  LongNames,     \* those longer than USOCKIT_SOCKET_PATHNAME_MAX_LENGTH
  MaxArgs,       \* bound: length of a command line
  InitCapacity,  \* USOCKIT_CLI_CHILD_PROGRAM_ARGV_INIT_CAPACITY, 8 in the code
  Null,          \* a null pointer
  Uninit,        \* a value that was never written
  Faults         \* which of PossibleFaults may happen

Empty    == ""
DashDash == "--"
Version  == "--version"
Words    == Names \cup {Empty, DashDash, Version}

PossibleFaults == {"malloc", "realloc", "strdup"}

\* A capacity of 1 would not grow: 1 * 1.5 is cut down to 1 again.
ASSUME CliAssumption ==
  /\ Names \cap {Empty, DashDash, Version} = {}
  /\ LongNames \subseteq Names
  /\ MaxArgs \in Nat
  /\ InitCapacity \in Nat /\ InitCapacity >= 2
  /\ Null \notin Words /\ Uninit \notin Words /\ Null # Uninit
  /\ Faults \subseteq PossibleFaults

VARIABLES
  args,             \* argv[1] up to argv[argc - 1]
  i,                \* the loop's index
  pc,               \* parse, start, server, client, exited
  socket_pathname,  \* the members of struct usockit_cli ...
  child_program,
  capacity,
  size,
  argv,             \* ... and the vector, as a function from its indices
  heap,             \* the vector's memory: none, allocated, freed
  exit_code

vectorVars == <<capacity, size, argv>>
cliVars    == <<socket_pathname, child_program, vectorVars>>

vars == <<args, i, pc, cliVars, heap, exit_code>>

\* The outcome of a cross_support_unreachable(): undefined behaviour.
Unreachable == 256

ExitCodes == {0, 3, 7, 9, 48, 101, 125, Unreachable}

Running == 257

Init ==
  /\ args \in UNION {[1..n -> Words] : n \in 0..MaxArgs}
  /\ i = 1 /\ pc = "parse"
  /\ socket_pathname = Null /\ child_program = FALSE
  /\ capacity = 0 /\ size = 0 /\ argv = <<>> /\ heap = "none"
  /\ exit_code = Running

-----------------------------------------------------------------------------
(* The vector.                                                             *)

\* realloc(3) to n items: what fits is kept, what is new is uninitialized.
Resized(n) == [k \in 0..(n - 1) |-> IF k \in 0..(capacity - 1) THEN argv[k]
                                                             ELSE Uninit]

\* (size_t)(capacity * 1.5)
Grown == capacity + capacity \div 2

\* main() returns; only a vector that was allocated is freed.
Exit(code, destroys) ==
  /\ pc' = "exited"
  /\ exit_code' = code
  /\ heap' = IF destroys THEN "freed" ELSE heap
  /\ UNCHANGED <<args, i, cliVars>>

NextArg ==
  /\ i' = i + 1
  /\ UNCHANGED <<args, pc, exit_code>>

\* usockit_cli_init_child_program_argv()
InitVector ==
  /\ child_program' = TRUE
  /\ capacity' = InitCapacity
  /\ size' = 0
  /\ argv' = [k \in 0..(InitCapacity - 1) |-> IF k = 0 THEN Null ELSE Uninit]
  /\ heap' = "allocated"
  /\ UNCHANGED socket_pathname

\* A vector with no room left for the sentinel.
AppendTight(arg) ==
  LET full == size + 1 > capacity
      kept == IF full THEN Resized(Grown) ELSE argv
  IN  /\ capacity' = IF full THEN Grown ELSE capacity
      /\ argv' = [kept EXCEPT ![size] = arg, ![size + 1] = Null]
      /\ size' = size + 1

\* usockit_cli_append_child_program_arg(): the new item and the sentinel.
AppendArg(arg) ==
  LET full == size + 2 > capacity
      kept == IF full THEN Resized(Grown) ELSE argv
  IN  /\ capacity' = IF full THEN Grown ELSE capacity
      /\ argv' = [kept EXCEPT ![size] = arg, ![size + 1] = Null]
      /\ size' = size + 1

-----------------------------------------------------------------------------
(* The loop over the arguments.                                            *)

AtArg == pc = "parse" /\ i <= Len(args)

\* Empty arguments left out.
ChildArgUnlessEmpty ==
  /\ AtArg
  /\ child_program
  /\ IF args[i] = Empty THEN UNCHANGED vectorVars ELSE AppendArg(args[i])
  /\ NextArg
  /\ UNCHANGED <<socket_pathname, child_program, heap>>

\* An argument after "--".
ChildArg ==
  /\ AtArg
  /\ child_program
  /\ \/ size = 0 /\ args[i] = Empty /\ Exit(9, TRUE)
     \/ /\ size > 0 \/ args[i] # Empty
        /\ \/ /\ AppendArg(args[i])
              /\ NextArg
              /\ UNCHANGED <<socket_pathname, child_program, heap>>
           \/ /\ "realloc" \in Faults
              /\ size + 2 > capacity
              /\ Exit(101, TRUE)

\* "--"
Separator ==
  /\ AtArg
  /\ ~child_program
  /\ args[i] = DashDash
  /\ \/ InitVector /\ NextArg
     \/ "malloc" \in Faults /\ Exit(101, FALSE)

\* "--version"
PrintVersion ==
  /\ AtArg
  /\ ~child_program
  /\ args[i] = Version
  /\ Exit(0, FALSE)

\* A pathname that may be empty.
SocketPathnameUnchecked ==
  /\ AtArg
  /\ ~child_program
  /\ args[i] \notin {DashDash, Version}
  /\ \/ socket_pathname # Null /\ Exit(7, FALSE)
     \/ /\ socket_pathname = Null
        /\ socket_pathname' = args[i]
        /\ NextArg
        /\ UNCHANGED <<child_program, vectorVars, heap>>

\* The socket pathname, which is neither empty nor given twice.
SocketPathname ==
  /\ AtArg
  /\ ~child_program
  /\ args[i] \notin {DashDash, Version}
  /\ \/ socket_pathname # Null /\ Exit(7, FALSE)
     \/ socket_pathname = Null /\ args[i] = Empty /\ Exit(9, FALSE)
     \/ /\ socket_pathname = Null /\ args[i] # Empty
        /\ socket_pathname' = args[i]
        /\ NextArg
        /\ UNCHANGED <<child_program, vectorVars, heap>>

\* A check that forgets that "--" may come without a pathname.
EndArgsUnchecked ==
  /\ pc = "parse"
  /\ i > Len(args)
  /\ \/ socket_pathname \in LongNames /\ Exit(48, child_program)
     \/ /\ socket_pathname \notin LongNames
        /\ pc' = IF child_program THEN "start" ELSE "client"
        /\ UNCHANGED <<args, i, cliVars, heap, exit_code>>

\* An error path that frees nothing.
EndArgsLeaking ==
  /\ pc = "parse"
  /\ i > Len(args)
  /\ \/ socket_pathname = Null /\ Exit(3, FALSE)
     \/ socket_pathname \in LongNames /\ Exit(48, child_program)
     \/ /\ socket_pathname \notin LongNames \cup {Null}
        /\ pc' = IF child_program THEN "start" ELSE "client"
        /\ UNCHANGED <<args, i, cliVars, heap, exit_code>>

\* The checks after the loop.
EndArgs ==
  /\ pc = "parse"
  /\ i > Len(args)
  /\ \/ socket_pathname = Null /\ Exit(3, child_program)
     \/ socket_pathname \in LongNames /\ Exit(48, child_program)
     \/ /\ socket_pathname \notin LongNames \cup {Null}
        /\ pc' = IF child_program THEN "start" ELSE "client"
        /\ UNCHANGED <<args, i, cliVars, heap, exit_code>>

-----------------------------------------------------------------------------
(* main_server() and main_client().                                        *)

\* usockit_cli_shrink_to_fit_child_program_argv(), unless there is no program.
StartServer ==
  /\ pc = "start"
  /\ \/ size = 0 /\ Exit(3, TRUE)
     \/ /\ size > 0
        /\ capacity' = size + 1
        /\ argv' = Resized(size + 1)
        /\ pc' = "server"
        /\ UNCHANGED <<args, i, socket_pathname, child_program, size, heap,
                       exit_code>>
     \/ /\ size > 0
        /\ "realloc" \in Faults
        /\ capacity # size + 1
        /\ Exit(101, TRUE)

\* usockit_server() returns USOCKIT_SERVER_RET_STATUS_SUCCESS or _UNKNOWN, or
\* _OUT_OF_MEMORY, which the switch has no case for.
RunServer ==
  /\ pc = "server"
  /\ \/ \E code \in {0, 125} : Exit(code, TRUE)
     \/ "strdup" \in Faults /\ Exit(Unreachable, FALSE)

\* usockit_client() returns one of its three statuses.
RunClient ==
  /\ pc = "client"
  /\ \E code \in {0, 48, 125} : Exit(code, FALSE)

Next ==
  \/ ChildArg \/ Separator \/ PrintVersion \/ SocketPathname \/ EndArgs
  \/ StartServer \/ RunServer \/ RunClient

Spec == Init /\ [][Next]_vars

-----------------------------------------------------------------------------
(* Type invariant.                                                         *)

TypeOK ==
  /\ args \in Seq(Words)
  /\ i \in 1..(Len(args) + 1)
  /\ pc \in {"parse", "start", "server", "client", "exited"}
  /\ socket_pathname \in Names \cup {Null}
  /\ child_program \in BOOLEAN
  /\ capacity \in Nat /\ size \in Nat
  /\ argv \in [0..(capacity - 1) -> Words \cup {Null, Uninit}]
  /\ heap \in {"none", "allocated", "freed"}
  /\ exit_code \in ExitCodes \cup {Running}

-----------------------------------------------------------------------------
(* Safety.                                                                 *)

\* cli.h:48: the vector has room for its items and the sentinel, everything up
\* to the sentinel is initialized, and the sentinel is a null pointer.
VectorOK ==
  child_program =>
    /\ size < capacity
    /\ \A k \in 0..(size - 1) : argv[k] \in Words
    /\ argv[size] = Null

\* Every way out of main() frees the vector if there is one, and only then:
\* the three destroy functions are each called where they apply.
VectorFreed ==
  pc = "exited" /\ exit_code # Unreachable =>
    heap = IF child_program THEN "freed" ELSE "none"

\* <socket_path> -- <program> [<args>...], as print_usage() states it.
ServerUsage ==
  /\ Len(args) >= 3
  /\ args[1] \in Names /\ args[2] = DashDash
  /\ args[3] # Empty

\* <socket_path>
ClientUsage == Len(args) = 1 /\ args[1] \in Names

\* A server is run only on a command line of the stated form, and then with
\* exactly the arguments after "--", in their order.
ServerGetsItsArgs ==
  pc = "server" =>
    /\ ServerUsage
    /\ socket_pathname = args[1]
    /\ size = Len(args) - 2
    /\ \A k \in 0..(size - 1) : argv[k] = args[k + 3]

\* Only a command line that follows neither form is answered by a usage error,
\* and only one of the two forms runs a client.
UsageIsAccepted ==
  /\ pc = "client" => ClientUsage
  /\ exit_code \in {3, 7, 9} => ~ServerUsage /\ ~ClientUsage

=============================================================================
