------------------------------ MODULE CliProofs ------------------------------
(***************************************************************************)
(* Proofs about Cli, for command lines of any length, any initial capacity *)
(* of at least two and any set of names.                                   *)
(***************************************************************************)
EXTENDS Cli, TLAPS

\* The vector while there is one: it is on the heap until main() returns, has
\* room for two pointers, and whatever is in it ends with the sentinel.
HeapInv ==
  /\ pc # "exited" => heap = IF child_program THEN "allocated" ELSE "none"
  /\ child_program => capacity >= 2

\* The index of the first "--", once it was seen.
Dashes == IF socket_pathname = Null THEN 1 ELSE 2

\* What the loop has made of the arguments before index i.
ArgsInv ==
  pc # "exited" =>
    /\ socket_pathname # Null =>
         i >= 2 /\ socket_pathname = args[1] /\ socket_pathname \in Names
    /\ ~child_program => i = Dashes
    /\ child_program =>
         /\ i = Dashes + 1 + size
         /\ args[Dashes] = DashDash
         /\ \A k \in 0..(size - 1) : argv[k] = args[Dashes + 1 + k]
         /\ size > 0 => args[Dashes + 1] # Empty

\* main_server() and main_client() are called after the loop, on a pathname.
CallInv ==
  /\ pc \in {"start", "server", "client"} =>
       i = Len(args) + 1 /\ socket_pathname # Null
  /\ pc \in {"start", "server"} => child_program
  /\ pc = "client" => ~child_program
  /\ pc = "server" => size > 0
  /\ pc # "exited" => exit_code = Running

Inv ==
  /\ TypeOK /\ VectorOK /\ HeapInv /\ ArgsInv /\ CallInv
  /\ VectorFreed /\ UsageIsAccepted

-----------------------------------------------------------------------------
(* The vector.                                                             *)

\* usockit_cli_append_child_program_arg() writes inside the vector: growing
\* by half makes room for two pointers where there was room for one.
LEMMA AppendFits ==
  ASSUME TypeOK, VectorOK, HeapInv, child_program,
         NEW arg \in Words, AppendArg(arg)
  PROVE  /\ capacity' \in Nat /\ size' = size + 1 /\ size' < capacity'
         /\ capacity' >= 2
         /\ argv' \in [0..(capacity' - 1) -> Words \cup {Null, Uninit}]
         /\ \A k \in 0..(size - 1) : argv'[k] = argv[k]
         /\ argv'[size] = arg /\ argv'[size + 1] = Null
<1> USE DEF TypeOK, VectorOK, HeapInv
<1> DEFINE full == size + 2 > capacity
           n    == IF full THEN Grown ELSE capacity
           kept == IF full THEN Resized(Grown) ELSE argv
           next == [kept EXCEPT ![size] = arg, ![size + 1] = Null]
           S    == Words \cup {Null, Uninit}
<1>1. capacity \div 2 \in Nat /\ (size + 2 > capacity => capacity + capacity \div 2 >= size + 2)
  OBVIOUS
<1>2. n \in Nat /\ n >= 2 /\ size \in Nat /\ size + 1 < n
  BY <1>1 DEF Grown
<1>3. kept \in [0..(n - 1) -> S]
  BY <1>1 DEF Grown, Resized
<1>4. \A k \in 0..(size - 1) : kept[k] = argv[k]
  BY <1>1 DEF Grown, Resized
<1>5. capacity' = n /\ argv' = next /\ size' = size + 1
  BY DEF AppendArg
<1>6. arg \in S /\ Null \in S
  OBVIOUS
<1> HIDE DEF n, kept, S, TypeOK, VectorOK, HeapInv
<1>7. /\ size \in 0..(n - 1) /\ size + 1 \in 0..(n - 1) /\ size # size + 1
      /\ \A k \in 0..(size - 1) : k \in 0..(n - 1) /\ k # size /\ k # size + 1
  BY <1>2
<1>8. /\ next \in [0..(n - 1) -> S]
      /\ next[size] = arg /\ next[size + 1] = Null
      /\ \A k \in 0..(size - 1) : next[k] = argv[k]
  BY <1>3, <1>4, <1>6, <1>7, Zenon
<1>9. size + 1 < n /\ n >= 2 /\ n \in Nat
  BY <1>2
<1> HIDE DEF next
<1> QED
  BY <1>5, <1>8, <1>9, Zenon DEF S

-----------------------------------------------------------------------------
(* One lemma per way a step can end.                                       *)

\* The last index of the loop gives the number of arguments.
LEMMA LastIndex ==
  ASSUME NEW n \in Nat, NEW j, j = n + 1
  PROVE  (j = 2 => n = 1) /\ (j = 3 => n = 2)
  OBVIOUS

\* main() returns, having destroyed the vector if there is one.
LEMMA ExitInv ==
  ASSUME Inv, pc # "exited", pc' = "exited", exit_code' \in ExitCodes,
         exit_code' # Unreachable => heap' = IF child_program THEN "freed" ELSE heap,
         heap' \in {heap, "freed"},
         UNCHANGED <<args, i, cliVars>>,
         exit_code' \in {3, 7, 9} => ~ServerUsage /\ ~ClientUsage
  PROVE  Inv'
<1> USE DEF cliVars, vectorVars
<1>1. TypeOK'
  BY DEF Inv, TypeOK
<1>2. VectorOK'
  BY DEF Inv, VectorOK
<1>3. HeapInv' /\ ArgsInv' /\ CallInv'
  BY DEF Inv, HeapInv, ArgsInv, CallInv
<1>4. VectorFreed'
  BY DEF Inv, VectorFreed, HeapInv
<1>5. UsageIsAccepted'
  BY DEF UsageIsAccepted, ServerUsage, ClientUsage
<1> QED
  BY <1>1, <1>2, <1>3, <1>4, <1>5 DEF Inv

\* An argument after "--" is appended.
LEMMA AppendInv ==
  ASSUME Inv, AtArg, child_program, size > 0 \/ args[i] # Empty,
         AppendArg(args[i]), NextArg,
         UNCHANGED <<socket_pathname, child_program, heap>>
  PROVE  Inv'
<1>1. args \in Seq(Words) /\ args[i] \in Words /\ i \in Nat
  BY DEF Inv, TypeOK, AtArg
<1>2. /\ capacity' \in Nat /\ size' = size + 1 /\ size' < capacity'
      /\ capacity' >= 2
      /\ argv' \in [0..(capacity' - 1) -> Words \cup {Null, Uninit}]
      /\ \A k \in 0..(size - 1) : argv'[k] = argv[k]
      /\ argv'[size] = args[i] /\ argv'[size + 1] = Null
  BY <1>1, AppendFits DEF Inv
<1>3. /\ args' = args /\ pc' = pc /\ exit_code' = exit_code /\ i' = i + 1
      /\ socket_pathname' = socket_pathname /\ child_program' = child_program
      /\ heap' = heap /\ pc = "parse" /\ size \in Nat
  BY DEF NextArg, AtArg, Inv, TypeOK
<1>4. TypeOK'
  <2>1. i + 1 \in 1..(Len(args) + 1) /\ size + 1 \in Nat
    BY <1>1, <1>3 DEF AtArg
  <2> QED
    BY <1>2, <1>3, <2>1, Zenon DEF Inv, TypeOK
<1>5. VectorOK'
  <2>1. \A k \in 0..size : argv'[k] \in Words
    <3>1. \A k \in 0..size : k \in 0..(size - 1) \/ k = size
      BY <1>3
    <3> QED
      BY <1>1, <1>2, <3>1 DEF Inv, VectorOK
  <2>2. size' - 1 = size
    BY <1>2, <1>3
  <2>3. argv'[size'] = Null
    BY <1>2, Zenon
  <2>4. \A k \in 0..(size' - 1) : argv'[k] \in Words
    BY <2>1, <2>2, Zenon
  <2>5. size' < capacity'
    BY <1>2, Zenon
  <2> QED
    BY <2>3, <2>4, <2>5, Zenon DEF VectorOK
<1>6. HeapInv'
  BY <1>2, <1>3 DEF Inv, HeapInv
<1>7. ArgsInv'
  <2>1. /\ i = Dashes + 1 + size /\ args[Dashes] = DashDash
        /\ \A k \in 0..(size - 1) : argv[k] = args[Dashes + 1 + k]
        /\ size > 0 => args[Dashes + 1] # Empty
        /\ Dashes \in {1, 2} /\ Dashes' = Dashes
    BY <1>3 DEF Inv, ArgsInv, Dashes
  <2>2. \A k \in 0..size : argv'[k] = args[Dashes + 1 + k]
    <3>1. \A k \in 0..size : k \in 0..(size - 1) \/ k = size
      BY <1>3
    <3> QED
      BY <1>2, <2>1, <3>1
  <2>3. args[Dashes + 1] # Empty
    BY <1>3, <2>1
  <2>4. i' = Dashes + 1 + size'
    BY <1>2, <1>3, <2>1
  <2>5. 0..(size' - 1) = 0..size
    <3>1. (size + 1) - 1 = size
      BY <1>3
    <3> QED
      BY <1>2, <3>1, Zenon
  <2>6. i + 1 >= 2 /\ (i >= 2 => i + 1 >= 2)
    BY <1>1, <1>3, <2>1
  <2>7. socket_pathname' # Null =>
          i' >= 2 /\ socket_pathname' = args'[1] /\ socket_pathname' \in Names
    BY <1>3, <2>6 DEF Inv, ArgsInv
  <2>8. \A k \in 0..(size' - 1) : argv'[k] = args'[Dashes' + 1 + k]
    BY <1>3, <2>1, <2>2, <2>5, Zenon
  <2>9. args'[Dashes'] = DashDash /\ args'[Dashes' + 1] # Empty
    BY <1>3, <2>1, <2>3, Zenon
  <2>10. i' = Dashes' + 1 + size'
    BY <2>1, <2>4, Zenon
  <2>11. child_program'
    BY <1>3
  <2> QED
    BY <2>7, <2>8, <2>9, <2>10, <2>11, Zenon DEF ArgsInv
<1>8. CallInv' /\ VectorFreed' /\ UsageIsAccepted'
  BY <1>3 DEF Inv, CallInv, VectorFreed, UsageIsAccepted, ServerUsage, ClientUsage
<1> QED
  BY <1>4, <1>5, <1>6, <1>7, <1>8 DEF Inv

\* The first "--" makes an empty vector.
LEMMA SeparatorInv ==
  ASSUME Inv, AtArg, ~child_program, args[i] = DashDash, InitVector, NextArg
  PROVE  Inv'
<1>1. /\ args' = args /\ pc' = pc /\ exit_code' = exit_code /\ i' = i + 1
      /\ socket_pathname' = socket_pathname /\ child_program' = TRUE
      /\ heap' = "allocated" /\ size' = 0 /\ pc = "parse"
      /\ capacity' = InitCapacity
      /\ argv' = [k \in 0..(InitCapacity - 1) |-> IF k = 0 THEN Null ELSE Uninit]
  BY DEF InitVector, NextArg, AtArg
<1>2. args \in Seq(Words) /\ i \in Nat /\ i <= Len(args) /\ Len(args) \in Nat
  BY DEF Inv, TypeOK, AtArg
<1>3. InitCapacity \in Nat /\ InitCapacity >= 2
  BY CliAssumption
<1>4. argv' \in [0..(InitCapacity - 1) -> Words \cup {Null, Uninit}] /\ argv'[0] = Null
  BY <1>1, <1>3
<1>5. TypeOK'
  <2>1. i + 1 \in 1..(Len(args) + 1) /\ 0 \in Nat
    BY <1>2
  <2> QED
    BY <1>1, <1>3, <1>4, <2>1, Zenon DEF Inv, TypeOK
<1>6. VectorOK' /\ HeapInv'
  BY <1>1, <1>3, <1>4 DEF VectorOK, HeapInv
<1>7. ArgsInv'
  <2>1. Dashes' = Dashes /\ i = Dashes /\ Dashes \in {1, 2}
    BY <1>1 DEF Dashes, Inv, ArgsInv
  <2>2. socket_pathname # Null =>
          i + 1 >= 2 /\ socket_pathname = args[1] /\ socket_pathname \in Names
    BY <1>1, <1>2 DEF Inv, ArgsInv
  <2>3. i + 1 = Dashes + 1 + 0
    BY <2>1
  <2> QED
    BY <1>1, <2>1, <2>2, <2>3 DEF ArgsInv
<1>8. CallInv' /\ VectorFreed' /\ UsageIsAccepted'
  BY <1>1 DEF Inv, CallInv, VectorFreed, UsageIsAccepted, ServerUsage, ClientUsage
<1> QED
  BY <1>5, <1>6, <1>7, <1>8 DEF Inv

\* The socket pathname is stored.
LEMMA PathnameInv ==
  ASSUME Inv, AtArg, ~child_program, args[i] \notin {DashDash, Version, Empty},
         socket_pathname = Null, socket_pathname' = args[i], NextArg,
         UNCHANGED <<child_program, vectorVars, heap>>
  PROVE  Inv'
<1>1. /\ args' = args /\ pc' = pc /\ exit_code' = exit_code /\ i' = i + 1
      /\ child_program' = child_program /\ heap' = heap /\ pc = "parse"
      /\ capacity' = capacity /\ size' = size /\ argv' = argv
  BY DEF NextArg, AtArg, vectorVars
<1>2. args \in Seq(Words) /\ i \in Nat /\ i <= Len(args) /\ Len(args) \in Nat
      /\ args[i] \in Words
  BY DEF Inv, TypeOK, AtArg
<1>3. i = 1 /\ args[i] \in Names
  BY <1>1, <1>2 DEF Inv, ArgsInv, Dashes, Words
<1>4. TypeOK'
  <2>1. i + 1 \in 1..(Len(args) + 1)
    BY <1>2
  <2> QED
    BY <1>1, <1>3, <2>1, Zenon DEF Inv, TypeOK
<1>5. VectorOK' /\ HeapInv'
  BY <1>1 DEF Inv, VectorOK, HeapInv
<1>6. socket_pathname' # Null /\ Dashes' = 2
  BY <1>3, CliAssumption DEF Dashes, Words
<1>7. ArgsInv'
  BY <1>1, <1>3, <1>6 DEF ArgsInv
<1>8. CallInv' /\ VectorFreed' /\ UsageIsAccepted'
  BY <1>1 DEF Inv, CallInv, VectorFreed, UsageIsAccepted, ServerUsage, ClientUsage
<1> QED
  BY <1>4, <1>5, <1>7, <1>8 DEF Inv

\* The loop ends with a pathname, and a server or a client is run.
LEMMA CallsInv ==
  ASSUME Inv, pc = "parse", i > Len(args), socket_pathname # Null,
         pc' = IF child_program THEN "start" ELSE "client",
         UNCHANGED <<args, i, cliVars, heap, exit_code>>
  PROVE  Inv'
<1>1. /\ args' = args /\ exit_code' = exit_code /\ i' = i
      /\ child_program' = child_program /\ heap' = heap
      /\ capacity' = capacity /\ size' = size /\ argv' = argv
      /\ socket_pathname' = socket_pathname /\ Dashes' = Dashes
  BY DEF cliVars, vectorVars, Dashes
<1>2. args \in Seq(Words) /\ Len(args) \in Nat /\ i = Len(args) + 1
  BY DEF Inv, TypeOK
<1>3. pc' \in {"start", "client"} /\ (pc' = "start" <=> child_program)
  BY DEF Inv, TypeOK
<1>4. TypeOK'
  BY <1>1, <1>3 DEF Inv, TypeOK
<1>5. VectorOK' /\ HeapInv' /\ ArgsInv' /\ CallInv' /\ VectorFreed'
  BY <1>1, <1>2, <1>3
     DEF Inv, VectorOK, HeapInv, ArgsInv, CallInv, VectorFreed
<1>6. UsageIsAccepted'
  <2>1. ~child_program => args[1] \in Names /\ Len(args) = 1
    <3>1. ~child_program => i = 2 /\ args[1] \in Names
      BY DEF Inv, ArgsInv, Dashes
    <3>2. i = 2 => Len(args) = 1
      BY <1>2, LastIndex, Zenon
    <3> QED
      BY <3>1, <3>2, Zenon
  <2>2. exit_code \notin {3, 7, 9}
    BY DEF Inv, CallInv, Running
  <2> QED
    BY <1>1, <1>3, <2>1, <2>2 DEF UsageIsAccepted, ClientUsage
<1> QED
  BY <1>4, <1>5, <1>6 DEF Inv

\* The vector is shrunk to the arguments and the sentinel.
LEMMA ShrinkInv ==
  ASSUME Inv, pc = "start", size > 0, capacity' = size + 1,
         argv' = Resized(size + 1), pc' = "server",
         UNCHANGED <<args, i, socket_pathname, child_program, size, heap, exit_code>>
  PROVE  Inv'
<1>1. child_program /\ size \in Nat /\ capacity \in Nat /\ size < capacity
      /\ argv \in [0..(capacity - 1) -> Words \cup {Null, Uninit}]
  BY DEF Inv, CallInv, VectorOK, TypeOK
<1>2. /\ args' = args /\ exit_code' = exit_code /\ i' = i
      /\ child_program' = child_program /\ heap' = heap /\ size' = size
      /\ socket_pathname' = socket_pathname /\ Dashes' = Dashes
  BY DEF Dashes
<1>3. Resized(size + 1) = [k \in 0..size |-> argv[k]]
  BY <1>1 DEF Resized
<1>4. argv' = [k \in 0..size |-> argv[k]]
  BY <1>3
<1>5. \A k \in 0..size : argv[k] \in Words \cup {Null, Uninit}
  BY <1>1
<1>6. /\ argv' \in [0..((size + 1) - 1) -> Words \cup {Null, Uninit}]
      /\ size + 1 \in Nat /\ size < size + 1 /\ size + 1 >= 2
  BY <1>1, <1>4, <1>5
<1>7. TypeOK'
  BY <1>2, <1>6, Zenon DEF Inv, TypeOK
<1>8. (\A k \in 0..(size - 1) : argv'[k] = argv[k]) /\ argv'[size] = argv[size]
  BY <1>1, <1>4
<1>9. VectorOK' /\ HeapInv' /\ ArgsInv' /\ CallInv' /\ VectorFreed'
  BY <1>1, <1>2, <1>6, <1>8
     DEF Inv, VectorOK, HeapInv, ArgsInv, CallInv, VectorFreed
<1>10. UsageIsAccepted'
  BY <1>2 DEF Inv, UsageIsAccepted, ServerUsage, ClientUsage
<1> QED
  BY <1>7, <1>9, <1>10 DEF Inv

-----------------------------------------------------------------------------
(* The theorems.                                                           *)

\* Before the first argument there is no vector.
LEMMA InitInv == Init => Inv
<1> SUFFICES ASSUME Init PROVE Inv
  OBVIOUS
<1> USE DEF Init
<1>1. PICK n \in 0..MaxArgs : args \in [1..n -> Words]
  OBVIOUS
<1>2. n \in Nat
  BY CliAssumption
<1>3. args \in Seq(Words) /\ Len(args) \in Nat
  BY <1>1, <1>2
<1>4. <<>> \in [0..(0 - 1) -> Words \cup {Null, Uninit}]
  OBVIOUS
<1>5. TypeOK
  <2>1. 1 \in 1..(Len(args) + 1)
    BY <1>3
  <2> QED
    BY <1>3, <1>4, <2>1 DEF TypeOK
<1> QED
  BY <1>5 DEF Inv, VectorOK, HeapInv, ArgsInv, Dashes, CallInv, VectorFreed,
              UsageIsAccepted, Running

\* Each step preserves the invariant; only the steps that end the program
\* with a usage error have to look at the whole command line.
LEMMA StepInv == Inv /\ [Next]_vars => Inv'
<1> SUFFICES ASSUME Inv, [Next]_vars PROVE Inv'
  OBVIOUS
<1>1. /\ args \in Seq(Words) /\ Len(args) \in Nat /\ i \in 1..(Len(args) + 1)
      /\ size \in Nat /\ child_program \in BOOLEAN
      /\ socket_pathname \in Names \cup {Null}
  BY DEF Inv, TypeOK
<1>2. CASE ChildArg
  <2>1. pc = "parse" /\ child_program /\ AtArg
    BY <1>2 DEF ChildArg, AtArg
  <2>2. CASE size = 0 /\ args[i] = Empty /\ Exit(9, TRUE)
    <3>1. i = Dashes + 1 /\ i <= Len(args)
      BY <1>1, <2>1, <2>2 DEF Inv, ArgsInv, AtArg, Dashes
    <3>2. ~ServerUsage /\ ~ClientUsage
      BY <1>1, <2>1, <2>2, <3>1, CliAssumption
         DEF ServerUsage, ClientUsage, Dashes, Inv, ArgsInv
    <3> QED
      BY <2>1, <2>2, <3>2, ExitInv DEF Exit, ExitCodes, Unreachable
  <2>3. CASE Exit(101, TRUE)
    BY <2>1, <2>3, ExitInv DEF Exit, ExitCodes, Unreachable
  <2>4. CASE /\ size > 0 \/ args[i] # Empty
             /\ AppendArg(args[i]) /\ NextArg
             /\ UNCHANGED <<socket_pathname, child_program, heap>>
    BY <2>1, <2>4, AppendInv
  <2> QED
    BY <1>2, <2>2, <2>3, <2>4 DEF ChildArg
<1>3. CASE Separator
  <2>1. CASE InitVector /\ NextArg
    BY <1>3, <2>1, SeparatorInv DEF Separator
  <2>2. CASE Exit(101, FALSE)
    BY <1>3, <2>2, ExitInv DEF Separator, AtArg, Exit, ExitCodes, Unreachable
  <2> QED
    BY <1>3, <2>1, <2>2 DEF Separator
<1>4. CASE PrintVersion
  BY <1>4, ExitInv DEF PrintVersion, AtArg, Exit, ExitCodes, Unreachable
<1>5. CASE SocketPathname
  <2>1. /\ pc = "parse" /\ ~child_program /\ i <= Len(args) /\ AtArg
        /\ args[i] \notin {DashDash, Version}
    BY <1>5 DEF SocketPathname, AtArg
  <2>2. i = Dashes
    BY <2>1 DEF Inv, ArgsInv
  <2>3. CASE socket_pathname # Null /\ Exit(7, FALSE)
    <3>1. ~ServerUsage /\ ~ClientUsage
      BY <1>1, <2>1, <2>2, <2>3 DEF ServerUsage, ClientUsage, Dashes
    <3> QED
      BY <2>1, <2>3, <3>1, ExitInv DEF Exit, ExitCodes, Unreachable
  <2>4. CASE socket_pathname = Null /\ args[i] = Empty /\ Exit(9, FALSE)
    <3>1. ~ServerUsage /\ ~ClientUsage
      BY <1>1, <2>1, <2>2, <2>4, CliAssumption
         DEF ServerUsage, ClientUsage, Dashes
    <3> QED
      BY <2>1, <2>4, <3>1, ExitInv DEF Exit, ExitCodes, Unreachable
  <2>5. CASE /\ socket_pathname = Null /\ args[i] # Empty
             /\ socket_pathname' = args[i] /\ NextArg
             /\ UNCHANGED <<child_program, vectorVars, heap>>
    BY <2>1, <2>5, PathnameInv
  <2> QED
    BY <1>5, <2>3, <2>4, <2>5 DEF SocketPathname
<1>6. CASE EndArgs
  <2>1. pc = "parse" /\ i > Len(args)
    BY <1>6 DEF EndArgs
  <2>2. CASE socket_pathname = Null /\ Exit(3, child_program)
    <3>1. ~ServerUsage /\ ~ClientUsage
      BY <1>1, <2>1, <2>2, CliAssumption
         DEF ServerUsage, ClientUsage, Dashes, Inv, ArgsInv
    <3> QED
      BY <1>1, <2>1, <2>2, <3>1, ExitInv DEF Exit, ExitCodes, Unreachable
  <2>3. CASE Exit(48, child_program)
    BY <1>1, <2>1, <2>3, ExitInv DEF Exit, ExitCodes, Unreachable
  <2>4. CASE /\ socket_pathname \notin LongNames \cup {Null}
             /\ pc' = IF child_program THEN "start" ELSE "client"
             /\ UNCHANGED <<args, i, cliVars, heap, exit_code>>
    BY <2>1, <2>4, CallsInv
  <2> QED
    BY <1>6, <2>2, <2>3, <2>4 DEF EndArgs
<1>7. CASE StartServer
  <2>1. pc = "start" /\ child_program
    BY <1>7 DEF StartServer, Inv, CallInv
  <2>2. CASE size = 0 /\ Exit(3, TRUE)
    <3>1. i = Len(args) + 1 /\ i = 3
      BY <2>1, <2>2 DEF Inv, CallInv, ArgsInv, Dashes
    <3>2. Len(args) = 2
      BY <1>1, <3>1, LastIndex, Zenon
    <3>3. ~ServerUsage /\ ~ClientUsage
      BY <3>2 DEF ServerUsage, ClientUsage
    <3> QED
      BY <2>1, <2>2, <3>3, ExitInv DEF Exit, ExitCodes, Unreachable
  <2>3. CASE /\ size > 0 /\ capacity' = size + 1 /\ argv' = Resized(size + 1)
             /\ pc' = "server"
             /\ UNCHANGED <<args, i, socket_pathname, child_program, size, heap,
                            exit_code>>
    BY <2>1, <2>3, ShrinkInv
  <2>4. CASE Exit(101, TRUE)
    BY <2>1, <2>4, ExitInv DEF Exit, ExitCodes, Unreachable
  <2> QED
    BY <1>7, <2>2, <2>3, <2>4 DEF StartServer
<1>8. CASE RunServer
  <2>1. pc = "server" /\ child_program
    BY <1>8, <1>1 DEF RunServer, Inv, CallInv, TypeOK, HeapInv
  <2> QED
    BY <1>8, <2>1, ExitInv DEF RunServer, Exit, ExitCodes, Unreachable
<1>9. CASE RunClient
  <2>1. pc = "client" /\ ~child_program
    BY <1>9 DEF RunClient, Inv, CallInv
  <2> QED
    BY <1>9, <2>1, ExitInv DEF RunClient, Exit, ExitCodes, Unreachable
<1>10. CASE UNCHANGED vars
  BY <1>10
     DEF vars, cliVars, vectorVars, Inv, TypeOK, VectorOK, HeapInv, ArgsInv,
         Dashes, CallInv, VectorFreed, UsageIsAccepted, ServerUsage, ClientUsage
<1> QED
  BY <1>2, <1>3, <1>4, <1>5, <1>6, <1>7, <1>8, <1>9, <1>10 DEF Next

\* The invariant holds for every command line.
THEOREM Invariance == Spec => []Inv
  BY InitInv, StepInv, PTL DEF Spec

\* Types: no index, size or exit code is ever out of its range.
THEOREM TypeCorrect == Spec => []TypeOK
<1>1. Inv => TypeOK
  BY DEF Inv
<1> QED
  BY <1>1, Invariance, PTL

\* The vector never overflows and always ends with its sentinel.
THEOREM VectorSafe == Spec => []VectorOK
<1>1. Inv => VectorOK
  BY DEF Inv
<1> QED
  BY <1>1, Invariance, PTL

\* The vector is freed on every way out, and only if there is one.
THEOREM Freed == Spec => []VectorFreed
<1>1. Inv => VectorFreed
  BY DEF Inv
<1> QED
  BY <1>1, Invariance, PTL

\* The program is executed with exactly the arguments it was given.
THEOREM ArgsPassed == Spec => []ServerGetsItsArgs
<1>1. Inv => ServerGetsItsArgs
  <2> SUFFICES ASSUME Inv, pc = "server"
               PROVE  /\ ServerUsage /\ socket_pathname = args[1]
                      /\ size = Len(args) - 2
                      /\ \A k \in 0..(size - 1) : argv[k] = args[k + 3]
    BY DEF ServerGetsItsArgs
  <2>1. /\ child_program /\ size > 0 /\ size \in Nat /\ socket_pathname # Null
        /\ i = Len(args) + 1 /\ Len(args) \in Nat /\ Dashes = 2
    BY DEF Inv, CallInv, TypeOK, Dashes
  <2>2. /\ i = 3 + size /\ args[2] = DashDash /\ args[3] # Empty
        /\ socket_pathname = args[1] /\ args[1] \in Names
        /\ \A k \in 0..(size - 1) : argv[k] = args[3 + k]
    BY <2>1 DEF Inv, ArgsInv
  <2> QED
    BY <2>1, <2>2 DEF ServerUsage
<1> QED
  BY <1>1, Invariance, PTL

\* Usage errors and clients are told apart by the form of the command line.
THEOREM UsageAccepted == Spec => []UsageIsAccepted
<1>1. Inv => UsageIsAccepted
  BY DEF Inv
<1> QED
  BY <1>1, Invariance, PTL

=============================================================================
