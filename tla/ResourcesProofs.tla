-------------------------- MODULE ResourcesProofs --------------------------
(***************************************************************************)
(* Proofs that a server and a client give back exactly what they acquired, *)
(* whichever steps may fail and wherever the start ends.                   *)
(***************************************************************************)
EXTENDS Resources, SequenceTheorems, TLAPS

-----------------------------------------------------------------------------
(* Sequences.                                                              *)

\* The first element of a list that is written out in front of another one.
LEMMA PullTwo ==
  \A a, b \in Resources : \A q \in Seq(Resources) :
    <<a, b>> \o q = <<a>> \o (<<b>> \o q)
<1> TAKE a, b \in Resources
<1>1. <<a>> \in Seq(Resources) /\ <<b>> \in Seq(Resources)
  OBVIOUS
<1>2. <<a, b>> = <<a>> \o <<b>>
  <2>1. <<a, b>> = Append(<<a>>, b)
    OBVIOUS
  <2>2. Append(<<a>>, b) = <<a>> \o <<b>>
    BY <1>1, AppendIsConcat
  <2> QED
    BY <2>1, <2>2
<1> TAKE q \in Seq(Resources)
<1>3. (<<a>> \o <<b>>) \o q = <<a>> \o (<<b>> \o q)
  BY <1>1, ConcatAssociative
<1> QED
  BY <1>2, <1>3

LEMMA PullThree ==
  \A a, b, c \in Resources : \A q \in Seq(Resources) :
    <<a, b, c>> \o q = <<a>> \o (<<b, c>> \o q)
<1> TAKE a, b, c \in Resources
<1>1. /\ <<a>> \in Seq(Resources) /\ <<c>> \in Seq(Resources)
      /\ <<a, b>> \in Seq(Resources) /\ <<b, c>> \in Seq(Resources)
  OBVIOUS
<1>2. <<a, b, c>> = <<a>> \o <<b, c>>
  <2>1. <<a, b, c>> = Append(<<a, b>>, c)
    OBVIOUS
  <2>2. Append(<<a, b>>, c) = <<a, b>> \o <<c>>
    BY <1>1, AppendIsConcat
  <2>3. <<a, b>> \o <<c>> = <<a>> \o (<<b>> \o <<c>>)
    BY <1>1, PullTwo
  <2>4. Append(<<b>>, c) = <<b>> \o <<c>>
    BY <1>1, AppendIsConcat
  <2>5. <<b, c>> = Append(<<b>>, c)
    OBVIOUS
  <2> QED
    BY <2>1, <2>2, <2>3, <2>4, <2>5
<1> TAKE q \in Seq(Resources)
<1>3. (<<a>> \o <<b, c>>) \o q = <<a>> \o (<<b, c>> \o q)
  BY <1>1, ConcatAssociative
<1> QED
  BY <1>2, <1>3

\* ... and in front of several others.
LEMMA PullFromTwo ==
  \A f, p, q \in Seq(Resources) : (f \o p) \o q = f \o (p \o q)
BY ConcatAssociative

LEMMA PullFromThree ==
  \A f, p, q, r \in Seq(Resources) :
    ((f \o p) \o q) \o r = f \o ((p \o q) \o r)
<1> DEFINE S == Seq(Resources)
           O(x, y) == x \o y
<1>1. \A x, y, z \in S : O(O(x, y), z) = O(x, O(y, z))
  BY ConcatAssociative
<1>2. \A x, y \in S : O(x, y) \in S
  BY ConcatProperties
<1> HIDE DEF O, S
<1>3. ASSUME NEW f \in S, NEW p \in S, NEW q \in S, NEW r \in S
      PROVE  O(O(O(f, p), q), r) = O(f, O(O(p, q), r))
  <2>1. O(O(f, p), q) = O(f, O(p, q))
    BY <1>1
  <2>2. O(p, q) \in S
    BY <1>2
  <2> QED
    BY <1>1, <2>1, <2>2
<1> QED
  BY <1>3 DEF O, S

LEMMA PullFromFour ==
  \A f, p, q, r, s \in Seq(Resources) :
    (((f \o p) \o q) \o r) \o s = f \o (((p \o q) \o r) \o s)
<1> DEFINE S == Seq(Resources)
           O(x, y) == x \o y
<1>1. \A x, y, z \in S : O(O(x, y), z) = O(x, O(y, z))
  BY ConcatAssociative
<1>2. \A x, y \in S : O(x, y) \in S
  BY ConcatProperties
<1>3. \A f, p, q, r \in S : O(O(O(f, p), q), r) = O(f, O(O(p, q), r))
  BY PullFromThree
<1> HIDE DEF O, S
<1>4. ASSUME NEW f \in S, NEW p \in S, NEW q \in S, NEW r \in S, NEW s \in S
      PROVE  O(O(O(O(f, p), q), r), s) = O(f, O(O(O(p, q), r), s))
  <2>1. O(O(p, q), r) \in S
    BY <1>2
  <2>2. O(O(f, O(O(p, q), r)), s) = O(f, O(O(O(p, q), r), s))
    BY <1>1, <2>1
  <2> QED
    BY <1>3, <2>2
<1> QED
  BY <1>4 DEF O, S

\* What comes after one element is put in front of a list.
LEMMA InFront ==
  ASSUME NEW E, NEW a \in E, NEW q \in Seq(E)
  PROVE  LET s == <<a>> \o q
         IN  /\ s \in Seq(E) /\ s # <<>>
             /\ DOMAIN q = 1..Len(q) /\ Len(q) \in Nat
             /\ DOMAIN s = 1..(Len(q) + 1)
             /\ s[1] = a /\ \A i \in DOMAIN q : s[i + 1] = q[i]
             /\ \A i \in DOMAIN s : i = 1 \/ (i - 1 \in DOMAIN q /\ s[i] = q[i - 1])
             /\ Head(s) = a /\ Tail(s) = q
<1> DEFINE s == <<a>> \o q
<1>1. <<a>> \in Seq(E) /\ Len(<<a>>) = 1 /\ <<a>>[1] = a
  OBVIOUS
<1>2. /\ s \in Seq(E) /\ Len(s) = 1 + Len(q) /\ Len(q) \in Nat
      /\ \A i \in 1..(1 + Len(q)) : s[i] = IF i <= 1 THEN <<a>>[i] ELSE q[i - 1]
  BY <1>1, ConcatProperties, LenProperties
<1>3. DOMAIN q = 1..Len(q) /\ DOMAIN s = 1..Len(s)
  BY <1>2, LenProperties
<1>4. s # <<>> /\ Head(s) = a
  BY <1>1, <1>2
<1>5. Tail(s) = q
  <2>1. /\ Tail(s) \in Seq(E) /\ Len(Tail(s)) = Len(q)
        /\ \A i \in 1..Len(Tail(s)) : Tail(s)[i] = s[i + 1]
    BY <1>2, <1>4, HeadTailProperties
  <2> HIDE DEF s
  <2>2. \A i \in 1..Len(Tail(s)) : Tail(s)[i] = q[i]
    BY <1>2, <2>1
  <2> QED
    BY <2>1, <2>2, SeqEqual
<1> HIDE DEF s
<1>6. /\ DOMAIN s = 1..(Len(q) + 1)
      /\ s[1] = a /\ \A i \in DOMAIN q : s[i + 1] = q[i]
      /\ \A i \in DOMAIN s : i = 1 \/ (i - 1 \in DOMAIN q /\ s[i] = q[i - 1])
  BY <1>1, <1>2, <1>3
<1> QED
  BY <1>2, <1>3, <1>4, <1>5, <1>6 DEF s

-----------------------------------------------------------------------------
(* Lists of what to give back.                                             *)

LEMMA DisposesNothing == Disposes(<<>>, {})
BY DEF Disposes

\* What is acquired last and used by nothing yet is given back first, and a
\* thread may be ended once more.
LEMMA DisposesFirst ==
  ASSUME NEW q, NEW H, Disposes(q, H), NEW r \in Resources,
         r \in H => r \in Threads,
         \A u \in (H \cup {r}) \cap DOMAIN Needs : r \notin Needs[u],
         \A t \in H \cap DOMAIN ArgOf : ArgOf[t] # r,
         r \in DOMAIN ArgOf
           => ArgOf[r] # r /\ \A i \in DOMAIN q : q[i] # ArgOf[r]
  PROVE  Disposes(<<r>> \o q, H \cup {r})
<1> DEFINE s == <<r>> \o q
           K == H \cup {r}
<1>1. q \in Seq(Resources)
  BY DEF Disposes
<1>2. /\ s \in Seq(Resources)
      /\ DOMAIN q = 1..Len(q) /\ Len(q) \in Nat
      /\ DOMAIN s = 1..(Len(q) + 1)
      /\ s[1] = r /\ \A i \in DOMAIN q : s[i + 1] = q[i]
      /\ \A i \in DOMAIN s : i = 1 \/ (i - 1 \in DOMAIN q /\ s[i] = q[i - 1])
  BY <1>1, InFront
<1> HIDE DEF s
<1>3. \A i \in DOMAIN s : s[i] \in K \cup Threads
  BY <1>2 DEF Disposes
<1>4. \A i, j \in DOMAIN s : s[i] = s[j] => i = j \/ s[i] \in Threads
  BY <1>2 DEF Disposes
<1>5. \A i \in DOMAIN s, u \in K \cap DOMAIN Needs :
        s[i] \in Needs[u] => \E j \in 1..(i - 1) : s[j] = u
  <2> SUFFICES ASSUME NEW i \in DOMAIN s, NEW u \in K \cap DOMAIN Needs,
                      s[i] \in Needs[u]
               PROVE  \E j \in 1..(i - 1) : s[j] = u
    OBVIOUS
  <2>1. i # 1 /\ i - 1 \in DOMAIN q /\ s[i] = q[i - 1]
    BY <1>2
  <2>2. CASE u = r
    BY <1>2, <2>1, <2>2
  <2>3. CASE u # r
    <3>1. PICK j \in 1..((i - 1) - 1) : q[j] = u
      BY <2>1, <2>3 DEF Disposes
    <3>2. j \in DOMAIN q /\ j + 1 \in 1..(i - 1)
      BY <1>2, <2>1, <3>1
    <3>3. s[j + 1] = u
      BY <1>2, <3>1, <3>2
    <3> QED
      BY <3>2, <3>3
  <2> QED
    BY <2>2, <2>3
<1>6. \A i \in DOMAIN s, t \in K \cap DOMAIN ArgOf : s[i] # ArgOf[t]
  BY <1>2 DEF Disposes
<1>7. \A x \in K : \/ \E i \in DOMAIN s : s[i] = x
                  \/ \E t \in K \cap DOMAIN ArgOf : ArgOf[t] = x
  <2> SUFFICES ASSUME NEW x \in K, ~ \E t \in K \cap DOMAIN ArgOf : ArgOf[t] = x
               PROVE  \E i \in DOMAIN s : s[i] = x
    OBVIOUS
  <2>1. CASE x = r
    BY <1>2, <2>1
  <2>2. CASE x # r
    <3>1. PICK i \in DOMAIN q : q[i] = x
      BY <2>2 DEF Disposes
    <3>2. i + 1 \in DOMAIN s /\ s[i + 1] = x
      BY <1>2, <3>1
    <3> QED
      BY <3>2
  <2> QED
    BY <2>1, <2>2
<1> QED
  BY <1>2, <1>3, <1>4, <1>5, <1>6, <1>7 DEF Disposes, s

\* The rest of the list disposes of the rest.
LEMMA DisposesRest ==
  ASSUME NEW q, NEW H, Disposes(q, H), q # <<>>,
         Head(q) \in DOMAIN ArgOf => ArgOf[Head(q)] \notin H
  PROVE  /\ Disposes(Tail(q), H \ {Head(q)})
         /\ \A u \in (H \ {Head(q)}) \cap DOMAIN Needs : Head(q) \notin Needs[u]
<1> DEFINE s == Tail(q)
           r == Head(q)
           K == H \ {r}
<1>1. /\ r = q[1] /\ 1 \in DOMAIN q
      /\ s \in Seq(Resources)
      /\ DOMAIN q = 1..Len(q) /\ Len(q) \in Nat /\ DOMAIN s = 1..(Len(q) - 1)
      /\ \A i \in DOMAIN s : i + 1 \in DOMAIN q /\ s[i] = q[i + 1]
      /\ \A i \in DOMAIN q : i = 1 \/ (i - 1 \in DOMAIN s /\ s[i - 1] = q[i])
  <2>1. q \in Seq(Resources)
    BY DEF Disposes
  <2>2. /\ Len(q) \in Nat \ {0} /\ DOMAIN q = 1..Len(q)
        /\ s \in Seq(Resources) /\ Len(s) = Len(q) - 1
        /\ \A i \in 1..Len(s) : s[i] = q[i + 1]
    BY <2>1, EmptySeq, LenProperties, HeadTailProperties
  <2>3. DOMAIN s = 1..Len(s)
    BY <2>2, LenProperties
  <2>4. r = q[1]
    BY <2>1
  <2> HIDE DEF s, r
  <2> QED
    BY <2>2, <2>3, <2>4
<1> HIDE DEF s, r
<1>2. \A u \in K \cap DOMAIN Needs : r \notin Needs[u]
  BY <1>1 DEF Disposes
<1>3. \A i \in DOMAIN s : s[i] \in K \cup Threads
  <2> SUFFICES ASSUME NEW i \in DOMAIN s PROVE s[i] \in K \cup Threads
    OBVIOUS
  <2>1. i + 1 \in DOMAIN q /\ s[i] = q[i + 1] /\ i + 1 # 1
    BY <1>1
  <2>2. q[i + 1] \in H \cup Threads
    BY <2>1 DEF Disposes
  <2>3. q[i + 1] = q[1] => q[1] \in Threads
    BY <1>1, <2>1 DEF Disposes
  <2> QED
    BY <1>1, <2>1, <2>2, <2>3
<1>4. \A i, j \in DOMAIN s : s[i] = s[j] => i = j \/ s[i] \in Threads
  BY <1>1 DEF Disposes
<1>5. \A i \in DOMAIN s, u \in K \cap DOMAIN Needs :
        s[i] \in Needs[u] => \E j \in 1..(i - 1) : s[j] = u
  <2> SUFFICES ASSUME NEW i \in DOMAIN s, NEW u \in K \cap DOMAIN Needs,
                      s[i] \in Needs[u]
               PROVE  \E j \in 1..(i - 1) : s[j] = u
    OBVIOUS
  <2>1. i + 1 \in DOMAIN q /\ s[i] = q[i + 1]
    BY <1>1
  <2>2. PICK j \in 1..((i + 1) - 1) : q[j] = u
    BY <2>1 DEF Disposes
  <2>3. j # 1 /\ j \in DOMAIN q
    BY <1>1, <2>1, <2>2
  <2>4. j - 1 \in 1..(i - 1) /\ s[j - 1] = u
    BY <1>1, <2>2, <2>3
  <2> QED
    BY <2>4
<1>6. \A i \in DOMAIN s, t \in K \cap DOMAIN ArgOf : s[i] # ArgOf[t]
  BY <1>1 DEF Disposes
<1>7. \A x \in K : \/ \E i \in DOMAIN s : s[i] = x
                  \/ \E t \in K \cap DOMAIN ArgOf : ArgOf[t] = x
  <2> SUFFICES ASSUME NEW x \in K
               PROVE  \/ \E i \in DOMAIN s : s[i] = x
                      \/ \E t \in K \cap DOMAIN ArgOf : ArgOf[t] = x
    OBVIOUS
  <2>1. CASE \E i \in DOMAIN q : q[i] = x
    BY <1>1, <2>1
  <2>2. CASE \E t \in H \cap DOMAIN ArgOf : ArgOf[t] = x
    BY <2>2 DEF r
  <2> QED
    BY <2>1, <2>2 DEF Disposes
<1> QED
  BY <1>1, <1>2, <1>3, <1>4, <1>5, <1>6, <1>7 DEF Disposes, s, r

\* It makes no difference whether a running thread has freed its argument.
LEMMA DisposesArgs ==
  ASSUME NEW q, NEW H, NEW K, Disposes(q, H),
         H \cap DOMAIN ArgOf = K \cap DOMAIN ArgOf,
         \A x : x \in H \/ x \in K
                 => \/ x \in H /\ x \in K
                    \/ \E t \in H \cap DOMAIN ArgOf : ArgOf[t] = x
  PROVE  Disposes(q, K)
<1>1. \A t \in DOMAIN ArgOf : ArgOf[t] \notin DOMAIN Needs \cup Threads
  BY DEF ArgOf, Needs, Threads
<1>2. \A i \in DOMAIN q : q[i] \in K \cup Threads
  BY DEF Disposes
<1>3. \A i \in DOMAIN q, u \in K \cap DOMAIN Needs :
        q[i] \in Needs[u] => \E j \in 1..(i - 1) : q[j] = u
  BY <1>1 DEF Disposes
<1>4. \A r \in K : \/ \E i \in DOMAIN q : q[i] = r
                  \/ \E t \in K \cap DOMAIN ArgOf : ArgOf[t] = r
  BY DEF Disposes
<1> QED
  BY <1>2, <1>3, <1>4 DEF Disposes

-----------------------------------------------------------------------------
(* The steps and their lists.                                              *)

LEMMA ServerSteps ==
  LET S == Steps["server"]
  IN  /\ DOMAIN S = 1..21 /\ Len(S) = 21
      /\ S[1] = "socket_fd" /\ S[2] = "path" /\ S[3] = "listen"
      /\ S[4] = "child_ready_info" /\ S[5] = "child_ready_mutex"
      /\ S[6] = "child_ready_cond" /\ S[7] = "client_ready_info"
      /\ S[8] = "client_ready_mutex" /\ S[9] = "client_ready_cond"
      /\ S[10] = "child_wait_arg" /\ S[11] = "child_pid_ptr"
      /\ S[12] = "client_connection_arg" /\ S[13] = "child_stdin_fd_ptr"
      /\ S[14] = "accept_arg" /\ S[15] = "child_wait_thread"
      /\ S[16] = "client_connection_thread" /\ S[17] = "accept_thread"
      /\ S[18] = "main_pipe" /\ S[19] = "reporting_pipe"
      /\ S[20] = "close_on_exec" /\ S[21] = "fork"
BY DEF Steps, SocketSteps, ThreadsSteps, ChildSteps

LEMMA ClientStepNames ==
  LET S == Steps["client"]
  IN  /\ DOMAIN S = 1..9 /\ Len(S) = 9
      /\ S[1] = "client_socket_fd" /\ S[2] = "result_dest"
      /\ S[3] = "result_mutex" /\ S[4] = "result_cond" /\ S[5] = "connect"
      /\ S[6] = "receiving_arg" /\ S[7] = "receiving_thread"
      /\ S[8] = "sending_arg" /\ S[9] = "sending_thread"
BY DEF Steps, ClientSteps

\* No step is taken twice, and no two steps take the same.
LEMMA OneStepEach ==
  ASSUME NEW p \in {"server", "client"}, NEW i \in DOMAIN Steps[p],
         NEW j \in DOMAIN Steps[p],
         NEW r \in Takes(Steps[p][i]) \cap Takes(Steps[p][j])
  PROVE  i = j
<1>1. CASE p = "server"
  <2>1. Steps[p][i] = Steps[p][j]
    BY <1>1, ServerSteps DEF Takes
  <2> QED
    BY <1>1, <2>1, ServerSteps
<1>2. CASE p = "client"
  BY <1>2, ClientStepNames DEF Takes
<1> QED
  BY <1>1, <1>2

\* What a step takes is a resource.
LEMMA TakesResources ==
  ASSUME NEW p \in {"server", "client"}, NEW i \in DOMAIN Steps[p]
  PROVE  Takes(Steps[p][i]) \subseteq Resources
<1>1. p \in DOMAIN Steps
  BY DEF Steps
<1> QED
  BY <1>1 DEF Resources

\* Whose list it is.
LEMMA UndoNames ==
  /\ DOMAIN SocketUndo = {"socket_fd", "path", "listen"}
  /\ DOMAIN ThreadsUndo =
       { "child_ready_info", "child_ready_mutex", "child_ready_cond",
         "client_ready_info", "client_ready_mutex", "client_ready_cond",
         "child_wait_arg", "child_pid_ptr", "client_connection_arg",
         "child_stdin_fd_ptr", "accept_arg", "child_wait_thread",
         "client_connection_thread", "accept_thread" }
  /\ DOMAIN ChildUndo =
       {"main_pipe", "reporting_pipe", "close_on_exec", "fork"}
BY DEF SocketUndo, ThreadsUndo, ChildUndo

LEMMA SocketLists ==
  /\ Unwind("socket_fd") = <<>>
  /\ Unwind("path") = <<"socket_fd">>
  /\ Unwind("listen") = SocketEnd
BY UndoNames DEF Unwind, SocketUndo, SocketEnd

LEMMA ThreadsLists ==
  /\ Unwind("child_ready_info") = <<>> \o SocketEnd
  /\ Unwind("child_ready_mutex") = <<"child_ready_info">> \o SocketEnd
  /\ Unwind("child_ready_cond")
       = <<"child_ready_mutex", "child_ready_info">> \o SocketEnd
  /\ Unwind("client_ready_info") = ChildReady \o SocketEnd
  /\ Unwind("client_ready_mutex")
       = <<"client_ready_info">> \o ChildReady \o SocketEnd
  /\ Unwind("client_ready_cond")
       = <<"client_ready_mutex", "client_ready_info">> \o ChildReady \o SocketEnd
  /\ Unwind("child_wait_arg") = ClientReady \o ChildReady \o SocketEnd
  /\ Unwind("child_pid_ptr")
       = <<"child_wait_arg">> \o ClientReady \o ChildReady \o SocketEnd
  /\ Unwind("client_connection_arg")
       = ChildWaitArg \o ClientReady \o ChildReady \o SocketEnd
  /\ Unwind("child_stdin_fd_ptr")
       = <<"client_connection_arg">> \o ChildWaitArg \o ClientReady \o ChildReady
           \o SocketEnd
  /\ Unwind("accept_arg")
       = ConnectionArg \o ChildWaitArg \o ClientReady \o ChildReady \o SocketEnd
  /\ Unwind("child_wait_thread") = Structures \o SocketEnd
  /\ Unwind("client_connection_thread")
       = <<"child_wait_thread">> \o Structures \o SocketEnd
  /\ Unwind("accept_thread")
       = <<"client_connection_thread", "child_wait_thread">> \o Structures
           \o SocketEnd
<1>1. ASSUME NEW s \in DOMAIN ThreadsUndo
      PROVE  Unwind(s) = ThreadsUndo[s] \o SocketEnd
  BY UndoNames DEF Unwind
<1> QED
  BY <1>1, UndoNames DEF ThreadsUndo

LEMMA ChildLists ==
  /\ Unwind("main_pipe") = <<>> \o ThreadsEnd \o SocketEnd
  /\ Unwind("reporting_pipe") = MainPipe \o ThreadsEnd \o SocketEnd
  /\ Unwind("close_on_exec")
       = ReportingPipe \o MainPipe \o ThreadsEnd \o SocketEnd
  /\ Unwind("fork") = ReportingPipe \o MainPipe \o ThreadsEnd \o SocketEnd
BY UndoNames DEF Unwind, ChildUndo

LEMMA ClientLists ==
  /\ Unwind("client_socket_fd") = <<>>
  /\ Unwind("result_dest") = <<>> \o ClientSocketEnd
  /\ Unwind("result_mutex") = <<"result_dest">> \o ClientSocketEnd
  /\ Unwind("result_cond") = <<"result_mutex", "result_dest">> \o ClientSocketEnd
  /\ Unwind("connect") = ResultDest \o ClientSocketEnd
  /\ Unwind("receiving_arg") = ResultDest \o ClientSocketEnd
  /\ Unwind("receiving_thread")
       = <<"receiving_arg">> \o ResultDest \o ClientSocketEnd
  /\ Unwind("sending_arg")
       = <<"receiving_thread">> \o ResultDest \o ClientSocketEnd
  /\ Unwind("sending_thread")
       = <<"sending_arg", "receiving_thread">> \o ResultDest \o ClientSocketEnd
BY UndoNames DEF Unwind, ClientUndo

\* The resources, and the lists of them.
LEMMA ServerResources ==
  { "socket_fd", "path", "child_ready_info", "child_ready_mutex",
    "child_ready_cond", "client_ready_info", "client_ready_mutex",
    "client_ready_cond", "child_wait_arg", "child_pid_ptr",
    "client_connection_arg", "child_stdin_fd_ptr", "accept_arg",
    "child_wait_thread", "client_connection_thread", "accept_thread",
    "main_read", "main_write", "reporting_read", "reporting_write" }
    \subseteq Resources
<1>1. \A i \in 1..21 : Takes(Steps["server"][i]) \subseteq Resources
  BY ServerSteps, TakesResources
<1>2. \A s : \/ s \in {"main_pipe", "reporting_pipe"}
            \/ s \in {"listen", "close_on_exec", "fork", "connect"}
            \/ Takes(s) = {s}
  BY DEF Takes
<1>3. /\ {"main_read", "main_write"} = Takes("main_pipe")
      /\ {"reporting_read", "reporting_write"} = Takes("reporting_pipe")
  BY DEF Takes
<1>4. Takes("main_pipe") \subseteq Resources /\ Takes("reporting_pipe") \subseteq Resources
  BY <1>1, ServerSteps
<1>5. \A i \in 1..17 : i = 3 \/ Steps["server"][i] \in Resources
  BY <1>1, <1>2, ServerSteps
<1> QED
  BY <1>3, <1>4, <1>5, ServerSteps

LEMMA ClientResources ==
  { "client_socket_fd", "result_dest", "result_mutex", "result_cond",
    "receiving_arg", "receiving_thread", "sending_arg", "sending_thread" }
    \subseteq Resources
<1>1. \A i \in 1..9 : Takes(Steps["client"][i]) \subseteq Resources
  BY ClientStepNames, TakesResources
<1>2. \A i \in 1..9 : i = 5 \/ Takes(Steps["client"][i]) = {Steps["client"][i]}
  BY ClientStepNames DEF Takes
<1> QED
  BY <1>1, <1>2, ClientStepNames

LEMMA NamedLists ==
  /\ SocketEnd \in Seq(Resources) /\ ChildReady \in Seq(Resources)
  /\ ClientReady \in Seq(Resources) /\ ChildWaitArg \in Seq(Resources)
  /\ ConnectionArg \in Seq(Resources) /\ MainPipe \in Seq(Resources)
  /\ ReportingPipe \in Seq(Resources)
  /\ Structures \in Seq(Resources) /\ ThreadsEnd \in Seq(Resources)
  /\ ResultDest \in Seq(Resources) /\ ClientSocketEnd \in Seq(Resources)
<1>1. /\ SocketEnd \in Seq(Resources) /\ ChildReady \in Seq(Resources)
      /\ ClientReady \in Seq(Resources) /\ ChildWaitArg \in Seq(Resources)
      /\ ConnectionArg \in Seq(Resources) /\ MainPipe \in Seq(Resources)
      /\ ReportingPipe \in Seq(Resources)
  BY ServerResources DEF SocketEnd, ChildReady, ClientReady, ChildWaitArg,
     ConnectionArg, MainPipe, ReportingPipe
<1>2. ResultDest \in Seq(Resources) /\ ClientSocketEnd \in Seq(Resources)
  BY ClientResources DEF ResultDest, ClientSocketEnd
<1>3. Structures \in Seq(Resources)
  <2>1. <<"accept_arg">> \in Seq(Resources)
    BY ServerResources
  <2> QED
    BY <1>1, <2>1, ConcatProperties DEF Structures
<1>4. ThreadsEnd \in Seq(Resources)
  <2>1. <<"accept_thread", "client_connection_thread", "child_wait_thread">>
          \in Seq(Resources)
    BY ServerResources
  <2> QED
    BY <1>3, <2>1, ConcatProperties DEF ThreadsEnd
<1> QED
  BY <1>1, <1>2, <1>3, <1>4

\* Each list is the one before it with what was acquired in between in front.
LEMMA SocketUnwinds ==
  /\ Unwind("socket_fd") = <<>>
  /\ Unwind("path") = <<"socket_fd">> \o Unwind("socket_fd")
  /\ Unwind("listen") = <<"path">> \o Unwind("path")
  /\ Unwind("child_ready_info") = Unwind("listen")
<1>1. <<"socket_fd">> \in Seq(Resources) /\ <<"path">> \in Seq(Resources)
  BY ServerResources
<1>2. SocketEnd = <<"path">> \o <<"socket_fd">>
  <2>1. SocketEnd = Append(<<"path">>, "socket_fd")
    BY DEF SocketEnd
  <2>2. Append(<<"path">>, "socket_fd") = <<"path">> \o <<"socket_fd">>
    BY <1>1, ServerResources, AppendIsConcat
  <2> QED
    BY <2>1, <2>2
<1>3. <<"socket_fd">> \o <<>> = <<"socket_fd">> /\ <<>> \o SocketEnd = SocketEnd
  BY <1>1, NamedLists, ConcatEmptySeq
<1>4. Unwind("child_ready_info") = <<>> \o SocketEnd
  BY ThreadsLists
<1> QED
  BY <1>2, <1>3, <1>4, SocketLists

\* The first of what a function gives back.
LEMMA PullNamed ==
  ASSUME NEW q \in Seq(Resources)
  PROVE  /\ ChildReady \o q
              = <<"child_ready_cond">>
                  \o (<<"child_ready_mutex", "child_ready_info">> \o q)
         /\ ClientReady \o q
              = <<"client_ready_cond">>
                  \o (<<"client_ready_mutex", "client_ready_info">> \o q)
         /\ ChildWaitArg \o q
              = <<"child_pid_ptr">> \o (<<"child_wait_arg">> \o q)
         /\ ConnectionArg \o q
              = <<"child_stdin_fd_ptr">> \o (<<"client_connection_arg">> \o q)
         /\ MainPipe \o q = <<"main_write">> \o (<<"main_read">> \o q)
         /\ ReportingPipe \o q
              = <<"reporting_write">> \o (<<"reporting_read">> \o q)
<1> DEFINE S == Seq(Resources)
           O(x, y) == x \o y
<1>1. \A a, b \in Resources : \A x \in S : O(<<a, b>>, x) = O(<<a>>, O(<<b>>, x))
  BY PullTwo
<1>2. \A a, b, c \in Resources : \A x \in S :
        O(<<a, b, c>>, x) = O(<<a>>, O(<<b, c>>, x))
  BY PullThree
<1>3. q \in S
  OBVIOUS
<1> HIDE DEF O, S
<1> QED
  <2>1. O(ChildReady, q) = O(<<"child_ready_cond">>,
             O(<<"child_ready_mutex", "child_ready_info">>, q))
    <3>1. "child_ready_cond" \in Resources /\ "child_ready_mutex" \in Resources
          /\ "child_ready_info" \in Resources
      BY ServerResources
    <3> QED
      BY <1>2, <1>3, <3>1 DEF ChildReady
  <2>2. O(ClientReady, q) = O(<<"client_ready_cond">>,
             O(<<"client_ready_mutex", "client_ready_info">>, q))
    <3>1. "client_ready_cond" \in Resources /\ "client_ready_mutex" \in Resources
          /\ "client_ready_info" \in Resources
      BY ServerResources
    <3> QED
      BY <1>2, <1>3, <3>1 DEF ClientReady
  <2>3. O(ChildWaitArg, q) = O(<<"child_pid_ptr">>, O(<<"child_wait_arg">>, q))
    <3>1. "child_pid_ptr" \in Resources /\ "child_wait_arg" \in Resources
      BY ServerResources
    <3> QED
      BY <1>1, <1>3, <3>1 DEF ChildWaitArg
  <2>4. O(ConnectionArg, q)
          = O(<<"child_stdin_fd_ptr">>, O(<<"client_connection_arg">>, q))
    <3>1. "child_stdin_fd_ptr" \in Resources /\ "client_connection_arg" \in Resources
      BY ServerResources
    <3> QED
      BY <1>1, <1>3, <3>1 DEF ConnectionArg
  <2>5. O(MainPipe, q) = O(<<"main_write">>, O(<<"main_read">>, q))
    <3>1. "main_write" \in Resources /\ "main_read" \in Resources
      BY ServerResources
    <3> QED
      BY <1>1, <1>3, <3>1 DEF MainPipe
  <2>6. O(ReportingPipe, q)
          = O(<<"reporting_write">>, O(<<"reporting_read">>, q))
    <3>1. "reporting_write" \in Resources /\ "reporting_read" \in Resources
      BY ServerResources
    <3> QED
      BY <1>1, <1>3, <3>1 DEF ReportingPipe
  <2> QED
    BY <2>1, <2>2, <2>3, <2>4, <2>5, <2>6 DEF O

LEMMA PullThreads ==
  ThreadsEnd = <<"accept_thread">>
    \o (<<"client_connection_thread", "child_wait_thread">> \o Structures)
<1> DEFINE O(x, y) == x \o y
           S == Seq(Resources)
<1>1. \A a, b, c \in Resources : \A x \in S :
        O(<<a, b, c>>, x) = O(<<a>>, O(<<b, c>>, x))
  BY PullThree
<1>2. Structures \in S
  BY NamedLists
<1> HIDE DEF O, S
<1>3. /\ "accept_thread" \in Resources /\ "child_wait_thread" \in Resources
      /\ "client_connection_thread" \in Resources
  BY ServerResources
<1>4. O(<<"accept_thread", "client_connection_thread", "child_wait_thread">>,
        Structures)
        = O(<<"accept_thread">>,
            O(<<"client_connection_thread", "child_wait_thread">>, Structures))
  BY <1>1, <1>2, <1>3
<1> QED
  BY <1>4 DEF O, ThreadsEnd

LEMMA ThreadsUnwinds ==
  /\ Unwind("child_ready_mutex")
       = <<"child_ready_info">> \o Unwind("child_ready_info")
  /\ Unwind("child_ready_cond")
       = <<"child_ready_mutex">> \o Unwind("child_ready_mutex")
  /\ Unwind("client_ready_info")
       = <<"child_ready_cond">> \o Unwind("child_ready_cond")
  /\ Unwind("client_ready_mutex")
       = <<"client_ready_info">> \o Unwind("client_ready_info")
  /\ Unwind("client_ready_cond")
       = <<"client_ready_mutex">> \o Unwind("client_ready_mutex")
  /\ Unwind("child_wait_arg")
       = <<"client_ready_cond">> \o Unwind("client_ready_cond")
  /\ Unwind("child_pid_ptr")
       = <<"child_wait_arg">> \o Unwind("child_wait_arg")
  /\ Unwind("client_connection_arg")
       = <<"child_pid_ptr">> \o Unwind("child_pid_ptr")
  /\ Unwind("child_stdin_fd_ptr")
       = <<"client_connection_arg">> \o Unwind("client_connection_arg")
  /\ Unwind("accept_arg")
       = <<"child_stdin_fd_ptr">> \o Unwind("child_stdin_fd_ptr")
  /\ Unwind("child_wait_thread") = <<"accept_arg">> \o Unwind("accept_arg")
  /\ Unwind("client_connection_thread")
       = <<"child_wait_thread">> \o Unwind("child_wait_thread")
  /\ Unwind("accept_thread")
       = <<"client_connection_thread">> \o Unwind("client_connection_thread")
  /\ Unwind("main_pipe") = <<"accept_thread">> \o Unwind("accept_thread")
<1> DEFINE S == Seq(Resources)
           O(x, y) == x \o y
           Split(f, q, g, r) == O(f, q) = O(<<g>>, O(r, q))
<1>1. \A x, y \in S : O(x, y) \in S
  BY ConcatProperties
<1>2. \A f, p, q \in S : O(O(f, p), q) = O(f, O(p, q))
  BY ConcatAssociative
<1>3. \A f, p, q, r \in S : O(O(O(f, p), q), r) = O(f, O(O(p, q), r))
  BY PullFromThree
<1>4. \A f, p, q, r, s \in S :
        O(O(O(O(f, p), q), r), s) = O(f, O(O(O(p, q), r), s))
  BY PullFromFour
<1>5. \A q \in S : O(<<>>, q) = q
  BY ConcatEmptySeq
<1>6. \A q \in S :
        /\ Split(ChildReady, q, "child_ready_cond",
                 <<"child_ready_mutex", "child_ready_info">>)
        /\ Split(ClientReady, q, "client_ready_cond",
                 <<"client_ready_mutex", "client_ready_info">>)
        /\ Split(ChildWaitArg, q, "child_pid_ptr", <<"child_wait_arg">>)
        /\ Split(ConnectionArg, q, "child_stdin_fd_ptr",
                 <<"client_connection_arg">>)
  BY PullNamed
<1>7. \A a, b \in Resources : \A q \in S : Split(<<a, b>>, q, a, <<b>>)
  BY PullTwo
<1>8. \A a, b \in Resources : <<a>> \in S /\ <<a, b>> \in S
  OBVIOUS
<1>9. /\ SocketEnd \in S /\ ChildReady \in S /\ ClientReady \in S
      /\ ChildWaitArg \in S /\ ConnectionArg \in S /\ Structures \in S
  BY NamedLists
<1>10. Unwind("child_ready_info") = O(<<>>, SocketEnd)
  BY ThreadsLists DEF O
<1>11. Unwind("child_ready_mutex") = O(<<"child_ready_info">>, SocketEnd)
  BY ThreadsLists DEF O
<1>12. Unwind("child_ready_cond") = O(<<"child_ready_mutex",
        "child_ready_info">>, SocketEnd)
  BY ThreadsLists DEF O
<1>13. Unwind("client_ready_info") = O(ChildReady, SocketEnd)
  BY ThreadsLists DEF O
<1>14. Unwind("client_ready_mutex") = O(O(<<"client_ready_info">>,
        ChildReady), SocketEnd)
  BY ThreadsLists DEF O
<1>15. Unwind("client_ready_cond") = O(O(<<"client_ready_mutex",
        "client_ready_info">>, ChildReady), SocketEnd)
  BY ThreadsLists DEF O
<1>16. Unwind("child_wait_arg") = O(O(ClientReady, ChildReady), SocketEnd)
  BY ThreadsLists DEF O
<1>17. Unwind("child_pid_ptr") = O(O(O(<<"child_wait_arg">>, ClientReady),
        ChildReady), SocketEnd)
  BY ThreadsLists DEF O
<1>18. Unwind("client_connection_arg") = O(O(O(ChildWaitArg, ClientReady),
        ChildReady), SocketEnd)
  BY ThreadsLists DEF O
<1>19. Unwind("child_stdin_fd_ptr") = O(O(O(O(<<"client_connection_arg">>,
        ChildWaitArg), ClientReady), ChildReady), SocketEnd)
  BY ThreadsLists DEF O
<1>20. Unwind("accept_arg") = O(O(O(O(ConnectionArg, ChildWaitArg),
        ClientReady), ChildReady), SocketEnd)
  BY ThreadsLists DEF O
<1>21. Unwind("child_wait_thread") = O(Structures, SocketEnd)
  BY ThreadsLists DEF O
<1>22. Unwind("client_connection_thread") = O(O(<<"child_wait_thread">>,
        Structures), SocketEnd)
  BY ThreadsLists DEF O
<1>23. Unwind("accept_thread") = O(O(<<"client_connection_thread",
        "child_wait_thread">>, Structures), SocketEnd)
  BY ThreadsLists DEF O
<1> HIDE DEF O, S
<1>24. Unwind("child_ready_info") = SocketEnd
  BY <1>5, <1>9, <1>10
<1>25. Unwind("child_ready_mutex") = O(<<"child_ready_info">>,
        Unwind("child_ready_info"))
  BY <1>11, <1>24
<1>26. Unwind("child_ready_cond") = O(<<"child_ready_mutex">>,
        Unwind("child_ready_mutex"))
  <2>1. "child_ready_mutex" \in Resources /\ "child_ready_info" \in Resources
    BY ServerResources
  <2>2. <<"child_ready_mutex">> \in S /\ <<"child_ready_info">> \in S
    BY <1>8, <2>1
  <2>3. O(<<"child_ready_mutex", "child_ready_info">>, SocketEnd) =
        O(<<"child_ready_mutex">>, O(<<"child_ready_info">>, SocketEnd))
    BY <1>7, <1>9, <2>1 DEF Split
  <2> QED
    BY <2>3, <1>12, <1>11
<1>27. Unwind("client_ready_info") = O(<<"child_ready_cond">>,
        Unwind("child_ready_cond"))
  <2>1. "child_ready_cond" \in Resources /\ "child_ready_mutex" \in Resources
        /\ "child_ready_info" \in Resources
    BY ServerResources
  <2>2. <<"child_ready_cond">> \in S /\ <<"child_ready_mutex", "child_ready_info">> \in S
    BY <1>8, <2>1
  <2>3. O(ChildReady, SocketEnd) = O(<<"child_ready_cond">>,
        O(<<"child_ready_mutex", "child_ready_info">>, SocketEnd))
    BY <1>6, <1>9 DEF Split
  <2> QED
    BY <2>3, <1>13, <1>12
<1>28. Unwind("client_ready_mutex") = O(<<"client_ready_info">>,
        Unwind("client_ready_info"))
  <2>1. <<"client_ready_info">> \in S
    BY <1>8, ServerResources
  <2> QED
    BY <2>1, <1>2, <1>9, <1>14, <1>13
<1>29. Unwind("client_ready_cond") = O(<<"client_ready_mutex">>,
        Unwind("client_ready_mutex"))
  <2>1. "client_ready_mutex" \in Resources /\ "client_ready_info" \in
        Resources
    BY ServerResources
  <2>2. <<"client_ready_mutex">> \in S /\ <<"client_ready_info">> \in S
    BY <1>8, <2>1
  <2>3. O(<<"client_ready_mutex", "client_ready_info">>, ChildReady) =
        O(<<"client_ready_mutex">>, O(<<"client_ready_info">>, ChildReady))
    BY <1>7, <1>9, <2>1 DEF Split
  <2>4. O(<<"client_ready_info">>, ChildReady) \in S
    BY <1>1, <1>9, <2>2
  <2> QED
    BY <2>2, <2>3, <2>4, <1>2, <1>9, <1>15, <1>14
<1>30. Unwind("child_wait_arg") = O(<<"client_ready_cond">>,
        Unwind("client_ready_cond"))
  <2>1. "client_ready_cond" \in Resources /\ "client_ready_mutex" \in
        Resources /\ "client_ready_info" \in Resources
    BY ServerResources
  <2>2. <<"client_ready_cond">> \in S /\ <<"client_ready_mutex", "client_ready_info">> \in S
    BY <1>8, <2>1
  <2>3. O(ClientReady, ChildReady) = O(<<"client_ready_cond">>,
        O(<<"client_ready_mutex", "client_ready_info">>, ChildReady))
    BY <1>6, <1>9 DEF Split
  <2>4. O(<<"client_ready_mutex", "client_ready_info">>, ChildReady) \in S
    BY <1>1, <1>9, <2>2
  <2> QED
    BY <2>2, <2>3, <2>4, <1>2, <1>9, <1>16, <1>15
<1>31. Unwind("child_pid_ptr") = O(<<"child_wait_arg">>,
        Unwind("child_wait_arg"))
  <2>1. <<"child_wait_arg">> \in S
    BY <1>8, ServerResources
  <2> QED
    BY <2>1, <1>3, <1>9, <1>17, <1>16
<1>32. Unwind("client_connection_arg") = O(<<"child_pid_ptr">>,
        Unwind("child_pid_ptr"))
  <2>1. "child_pid_ptr" \in Resources /\ "child_wait_arg" \in Resources
    BY ServerResources
  <2>2. <<"child_pid_ptr">> \in S /\ <<"child_wait_arg">> \in S
    BY <1>8, <2>1
  <2>3. O(ChildWaitArg, ClientReady) = O(<<"child_pid_ptr">>,
        O(<<"child_wait_arg">>, ClientReady))
    BY <1>6, <1>9 DEF Split
  <2>4. O(<<"child_wait_arg">>, ClientReady) \in S
    BY <1>1, <1>9, <2>2
  <2> QED
    BY <2>2, <2>3, <2>4, <1>3, <1>9, <1>18, <1>17
<1>33. Unwind("child_stdin_fd_ptr") = O(<<"client_connection_arg">>,
        Unwind("client_connection_arg"))
  <2>1. <<"client_connection_arg">> \in S
    BY <1>8, ServerResources
  <2> QED
    BY <2>1, <1>4, <1>9, <1>19, <1>18
<1>34. Unwind("accept_arg") = O(<<"child_stdin_fd_ptr">>,
        Unwind("child_stdin_fd_ptr"))
  <2>1. "child_stdin_fd_ptr" \in Resources /\ "client_connection_arg" \in
        Resources
    BY ServerResources
  <2>2. <<"child_stdin_fd_ptr">> \in S /\ <<"client_connection_arg">> \in S
    BY <1>8, <2>1
  <2>3. O(ConnectionArg, ChildWaitArg) = O(<<"child_stdin_fd_ptr">>,
        O(<<"client_connection_arg">>, ChildWaitArg))
    BY <1>6, <1>9 DEF Split
  <2>4. O(<<"client_connection_arg">>, ChildWaitArg) \in S
    BY <1>1, <1>9, <2>2
  <2> QED
    BY <2>2, <2>3, <2>4, <1>4, <1>9, <1>20, <1>19
<1>35. Unwind("child_wait_thread") = O(<<"accept_arg">>, Unwind("accept_arg"))
  <2>1. "accept_arg" \in Resources
    BY ServerResources
  <2>2. <<"accept_arg">> \in S
    BY <1>8, <2>1
  <2> DEFINE X == O(O(O(ConnectionArg, ChildWaitArg), ClientReady), ChildReady)
  <2>3. Structures = O(<<"accept_arg">>, X)
    <3>1. Structures = O(O(O(O(<<"accept_arg">>, ConnectionArg),
                               ChildWaitArg), ClientReady), ChildReady)
      BY DEF Structures, O
    <3> QED
      BY <1>4, <1>9, <2>2, <3>1
  <2>4. X \in S
    BY <1>1, <1>9
  <2>5. O(O(<<"accept_arg">>, X), SocketEnd) = O(<<"accept_arg">>, O(X, SocketEnd))
    BY <1>2, <1>9, <2>2, <2>4
  <2> QED
    BY <2>3, <2>5, <1>21, <1>20
<1>36. Unwind("client_connection_thread") = O(<<"child_wait_thread">>,
        Unwind("child_wait_thread"))
  <2>1. <<"child_wait_thread">> \in S
    BY <1>8, ServerResources
  <2> QED
    BY <2>1, <1>2, <1>9, <1>22, <1>21
<1>37. Unwind("accept_thread") = O(<<"client_connection_thread">>,
        Unwind("client_connection_thread"))
  <2>1. "client_connection_thread" \in Resources /\ "child_wait_thread" \in
        Resources
    BY ServerResources
  <2>2. <<"client_connection_thread">> \in S /\ <<"child_wait_thread">> \in S
    BY <1>8, <2>1
  <2>3. O(<<"client_connection_thread", "child_wait_thread">>, Structures) =
        O(<<"client_connection_thread">>, O(<<"child_wait_thread">>,
        Structures))
    BY <1>7, <1>9, <2>1 DEF Split
  <2>4. O(<<"child_wait_thread">>, Structures) \in S
    BY <1>1, <1>9, <2>2
  <2> QED
    BY <2>2, <2>3, <2>4, <1>2, <1>9, <1>23, <1>22
<1>38. Unwind("main_pipe") = O(<<"accept_thread">>, Unwind("accept_thread"))
  <2>1. /\ "accept_thread" \in Resources /\ "child_wait_thread" \in Resources
        /\ "client_connection_thread" \in Resources
    BY ServerResources
  <2> DEFINE P == <<"client_connection_thread", "child_wait_thread">>
  <2>2. <<"accept_thread">> \in S /\ P \in S
    BY <1>8, <2>1
  <2>3. ThreadsEnd = O(<<"accept_thread">>, O(P, Structures))
    BY PullThreads DEF O
  <2>4. Unwind("main_pipe") = O(ThreadsEnd, SocketEnd)
    <3>1. Unwind("main_pipe") = O(O(<<>>, ThreadsEnd), SocketEnd)
      BY ChildLists DEF O
    <3>2. ThreadsEnd \in S
      BY NamedLists DEF S
    <3> QED
      BY <1>5, <3>1, <3>2
  <2>5. O(P, Structures) \in S
    BY <1>1, <1>9, <2>2
  <2>6. O(O(<<"accept_thread">>, O(P, Structures)), SocketEnd)
          = O(<<"accept_thread">>, O(O(P, Structures), SocketEnd))
    BY <1>2, <1>9, <2>2, <2>5
  <2> QED
    BY <2>3, <2>4, <2>6, <1>23
<1> QED
  BY <1>25, <1>26, <1>27, <1>28, <1>29, <1>30, <1>31, <1>32, <1>33, <1>34,
     <1>35, <1>36, <1>37, <1>38 DEF O

LEMMA PipesUnwind ==
  /\ Unwind("reporting_pipe")
       = <<"main_write">> \o (<<"main_read">> \o Unwind("main_pipe"))
  /\ Unwind("close_on_exec")
       = <<"reporting_write">>
           \o (<<"reporting_read">> \o Unwind("reporting_pipe"))
  /\ Unwind("fork") = Unwind("close_on_exec")
  /\ Unwind("main_pipe") = ThreadsEnd \o SocketEnd
<1> DEFINE S == Seq(Resources)
           O(x, y) == x \o y
<1>1. \A x, y \in S : O(x, y) \in S
  BY ConcatProperties
<1>2. \A f, p, q \in S : O(O(f, p), q) = O(f, O(p, q))
  BY ConcatAssociative
<1>3. \A f, p, q, r \in S : O(O(O(f, p), q), r) = O(f, O(O(p, q), r))
  BY PullFromThree
<1>4. \A q \in S : O(<<>>, q) = q
  BY ConcatEmptySeq
<1>5. \A q \in S :
        /\ O(MainPipe, q) = O(<<"main_write">>, O(<<"main_read">>, q))
        /\ O(ReportingPipe, q)
             = O(<<"reporting_write">>, O(<<"reporting_read">>, q))
  BY PullNamed
<1>6. /\ SocketEnd \in S /\ ThreadsEnd \in S
      /\ MainPipe \in S /\ ReportingPipe \in S
  BY NamedLists
<1>7. /\ Unwind("main_pipe") = O(O(<<>>, ThreadsEnd), SocketEnd)
      /\ Unwind("reporting_pipe") = O(O(MainPipe, ThreadsEnd), SocketEnd)
      /\ Unwind("close_on_exec")
           = O(O(O(ReportingPipe, MainPipe), ThreadsEnd), SocketEnd)
      /\ Unwind("fork")
           = O(O(O(ReportingPipe, MainPipe), ThreadsEnd), SocketEnd)
  BY ChildLists
<1> HIDE DEF O, S
<1>8. Unwind("main_pipe") = O(ThreadsEnd, SocketEnd)
  BY <1>4, <1>6, <1>7
<1>9. Unwind("reporting_pipe") = O(MainPipe, O(ThreadsEnd, SocketEnd))
  BY <1>2, <1>6, <1>7
<1>10. Unwind("close_on_exec") = O(ReportingPipe, Unwind("reporting_pipe"))
  BY <1>3, <1>6, <1>7
<1>11. Unwind("main_pipe") \in S /\ Unwind("reporting_pipe") \in S
  BY <1>1, <1>6, <1>8, <1>9
<1>12. Unwind("reporting_pipe")
         = O(<<"main_write">>, O(<<"main_read">>, Unwind("main_pipe")))
  BY <1>5, <1>8, <1>9, <1>11
<1>13. Unwind("close_on_exec")
         = O(<<"reporting_write">>,
             O(<<"reporting_read">>, Unwind("reporting_pipe")))
  BY <1>5, <1>10, <1>11
<1> QED
  BY <1>7, <1>8, <1>12, <1>13 DEF O

\* What the parent gives back after fork(2).
LEMMA ForkUnwinds ==
  ASSUME NEW joins \in Seq(Resources)
  PROVE  ChildEnd(joins) \o ThreadsEnd \o SocketEnd
           = <<"reporting_write">> \o (<<"main_read">> \o (joins \o
               (<<"reporting_read">> \o (<<"main_write">> \o Unwind("main_pipe")))))
<1> DEFINE S == Seq(Resources)
           O(x, y) == x \o y
           A == <<"reporting_write", "main_read">>
           B == <<"reporting_read", "main_write">>
           Z == Unwind("main_pipe")
<1>1. \A x, y \in S : O(x, y) \in S
  BY ConcatProperties
<1>2. \A f, p, q \in S : O(O(f, p), q) = O(f, O(p, q))
  BY PullFromTwo
<1>3. \A f, p, q, r \in S : O(O(O(f, p), q), r) = O(f, O(O(p, q), r))
  BY PullFromThree
<1>4. \A f, p, q, r, s \in S :
        O(O(O(O(f, p), q), r), s) = O(f, O(O(O(p, q), r), s))
  BY PullFromFour
<1>5. \A q \in S : /\ O(A, q) = O(<<"reporting_write">>, O(<<"main_read">>, q))
                   /\ O(B, q) = O(<<"reporting_read">>, O(<<"main_write">>, q))
  <2>1. \A a, b \in Resources : \A q \in S :
          O(<<a, b>>, q) = O(<<a>>, O(<<b>>, q))
    BY PullTwo
  <2>2. {"reporting_write", "main_read", "reporting_read", "main_write"}
          \subseteq Resources
    BY ServerResources
  <2> HIDE DEF O, S
  <2> QED
    BY <2>1, <2>2
<1>6. A \in S /\ B \in S /\ joins \in S /\ SocketEnd \in S /\ ThreadsEnd \in S
  BY ServerResources, NamedLists
<1>7. Z = O(ThreadsEnd, SocketEnd)
  BY PipesUnwind
<1>8. ChildEnd(joins) = O(O(A, joins), B)
  BY DEF ChildEnd
<1> HIDE DEF O, S, A, B, Z
<1>9. Z \in S
  BY <1>1, <1>6, <1>7
<1>10. O(O(ChildEnd(joins), ThreadsEnd), SocketEnd)
         = O(A, O(O(O(joins, B), ThreadsEnd), SocketEnd))
  BY <1>4, <1>6, <1>8
<1>11. O(O(O(joins, B), ThreadsEnd), SocketEnd)
         = O(joins, O(O(B, ThreadsEnd), SocketEnd))
  BY <1>3, <1>6
<1>12. O(O(B, ThreadsEnd), SocketEnd) = O(B, Z)
  BY <1>2, <1>6, <1>7
<1>13. O(joins, O(B, Z)) \in S
  BY <1>1, <1>6, <1>9
<1>14. O(O(ChildEnd(joins), ThreadsEnd), SocketEnd)
         = O(<<"reporting_write">>, O(<<"main_read">>, O(joins,
             O(<<"reporting_read">>, O(<<"main_write">>, Z)))))
  BY <1>5, <1>9, <1>10, <1>11, <1>12, <1>13
<1> QED
  BY <1>14 DEF O, Z

LEMMA ClientUnwinds ==
  /\ Unwind("client_socket_fd") = <<>>
  /\ Unwind("result_dest")
       = <<"client_socket_fd">> \o Unwind("client_socket_fd")
  /\ Unwind("result_mutex") = <<"result_dest">> \o Unwind("result_dest")
  /\ Unwind("result_cond") = <<"result_mutex">> \o Unwind("result_mutex")
  /\ Unwind("connect") = <<"result_cond">> \o Unwind("result_cond")
  /\ Unwind("receiving_arg") = Unwind("connect")
  /\ Unwind("receiving_thread") = <<"receiving_arg">> \o Unwind("receiving_arg")
  /\ Unwind("sending_arg") = <<"receiving_thread">> \o Unwind("receiving_arg")
  /\ Unwind("sending_thread") = <<"sending_arg">> \o Unwind("sending_arg")
  /\ ClientEnd \o ClientSocketEnd
       = <<"receiving_thread">> \o (<<"sending_thread">> \o Unwind("receiving_arg"))
<1> DEFINE S == Seq(Resources)
           O(x, y) == x \o y
           Split(f, q, g, r) == O(f, q) = O(<<g>>, O(r, q))
           C == ClientSocketEnd
           R == ResultDest
<1>1. \A x, y \in S : O(x, y) \in S
  BY ConcatProperties
<1>2. \A f, p, q \in S : O(O(f, p), q) = O(f, O(p, q))
  BY PullFromTwo
<1>3. \A q \in S : O(<<>>, q) = q /\ O(q, <<>>) = q
  BY ConcatEmptySeq
<1>4. \A q \in S :
        /\ Split(<<"result_mutex", "result_dest">>, q,
                 "result_mutex", <<"result_dest">>)
        /\ Split(R, q, "result_cond", <<"result_mutex", "result_dest">>)
        /\ Split(<<"sending_arg", "receiving_thread">>, q,
                 "sending_arg", <<"receiving_thread">>)
        /\ Split(<<"receiving_thread", "sending_thread">>, q,
                 "receiving_thread", <<"sending_thread">>)
  <2>1. /\ \A a, b \in Resources : \A q \in S : Split(<<a, b>>, q, a, <<b>>)
        /\ \A a, b, c \in Resources : \A q \in S :
             Split(<<a, b, c>>, q, a, <<b, c>>)
    <3>1. \A a, b \in Resources : \A q \in S : Split(<<a, b>>, q, a, <<b>>)
      BY PullTwo
    <3>2. \A a, b, c \in Resources : \A q \in S :
            Split(<<a, b, c>>, q, a, <<b, c>>)
      BY PullThree
    <3> HIDE DEF Split
    <3> QED
      BY <3>1, <3>2
  <2>2. R = <<"result_cond", "result_mutex", "result_dest">>
    BY DEF ResultDest
  <2> HIDE DEF S, Split, R
  <2>3. \A q \in S : Split(<<"result_mutex", "result_dest">>, q,
                         "result_mutex", <<"result_dest">>)
    BY <2>1, ClientResources
  <2>4. \A q \in S : Split(R, q, "result_cond", <<"result_mutex", "result_dest">>)
    BY <2>1, <2>2, ClientResources
  <2>5. \A q \in S : Split(<<"sending_arg", "receiving_thread">>, q,
                         "sending_arg", <<"receiving_thread">>)
    BY <2>1, ClientResources
  <2>6. \A q \in S : Split(<<"receiving_thread", "sending_thread">>, q,
                         "receiving_thread", <<"sending_thread">>)
    BY <2>1, ClientResources
  <2> QED
    BY <2>3, <2>4, <2>5, <2>6
<1>5. /\ C \in S /\ R \in S /\ <<"receiving_arg">> \in S
      /\ <<"receiving_thread">> \in S /\ <<"result_dest">> \in S
      /\ <<"sending_arg">> \in S /\ <<"sending_thread">> \in S
      /\ <<"sending_arg", "receiving_thread">> \in S
      /\ <<"receiving_thread", "sending_thread">> \in S
  BY ClientResources, NamedLists
<1>6. /\ Unwind("client_socket_fd") = <<>>
      /\ Unwind("result_dest") = O(<<>>, C)
      /\ Unwind("result_mutex") = O(<<"result_dest">>, C)
      /\ Unwind("result_cond") = O(<<"result_mutex", "result_dest">>, C)
      /\ Unwind("connect") = O(R, C)
      /\ Unwind("receiving_arg") = O(R, C)
      /\ Unwind("receiving_thread") = O(O(<<"receiving_arg">>, R), C)
      /\ Unwind("sending_arg") = O(O(<<"receiving_thread">>, R), C)
      /\ Unwind("sending_thread")
           = O(O(<<"sending_arg", "receiving_thread">>, R), C)
  BY ClientLists
<1>7. ClientEnd = O(<<"receiving_thread", "sending_thread">>, R)
  BY DEF ClientEnd
<1>8. C = <<"client_socket_fd">>
  BY DEF ClientSocketEnd
<1> HIDE DEF O, S, C, R
<1>9. O(R, C) \in S
  BY <1>1, <1>5
<1>10. /\ O(<<>>, C) = C /\ O(C, <<>>) = C
       /\ O(<<"result_mutex", "result_dest">>, C)
            = O(<<"result_mutex">>, O(<<"result_dest">>, C))
       /\ O(R, C)
            = O(<<"result_cond">>, O(<<"result_mutex", "result_dest">>, C))
  BY <1>3, <1>4, <1>5
<1>11. /\ O(O(<<"receiving_arg">>, R), C) = O(<<"receiving_arg">>, O(R, C))
       /\ O(O(<<"receiving_thread">>, R), C)
            = O(<<"receiving_thread">>, O(R, C))
  BY <1>2, <1>5
<1>12. O(O(<<"sending_arg", "receiving_thread">>, R), C)
         = O(<<"sending_arg">>, O(<<"receiving_thread">>, O(R, C)))
  BY <1>2, <1>4, <1>5, <1>9
<1>13. O(ClientEnd, C)
         = O(<<"receiving_thread">>, O(<<"sending_thread">>, O(R, C)))
  BY <1>2, <1>4, <1>5, <1>7, <1>9
<1> QED
  BY <1>6, <1>8, <1>10, <1>11, <1>12, <1>13 DEF O, C

\* How the list changes with each step that is not the last.
LEMMA StepUnwinds ==
  ASSUME NEW p \in {"server", "client"}, NEW i \in DOMAIN Steps[p],
         i # Len(Steps[p])
  PROVE  LET s == Steps[p][i]
             t == Steps[p][i + 1]
         IN  /\ i + 1 \in DOMAIN Steps[p]
             /\ \/ Takes(s) = {} /\ Unwind(t) = Unwind(s)
                \/ /\ s \notin DOMAIN ArgOf
                   /\ Takes(s) = {s} /\ Unwind(t) = <<s>> \o Unwind(s)
                \/ s = "main_pipe" /\ t = "reporting_pipe"
                \/ s = "reporting_pipe" /\ t = "close_on_exec"
                \/ s = "receiving_thread" /\ t = "sending_arg"
<1> DEFINE Kind(s, t) ==
             \/ Takes(s) = {} /\ Unwind(t) = Unwind(s)
             \/ /\ s \notin DOMAIN ArgOf
                /\ Takes(s) = {s} /\ Unwind(t) = <<s>> \o Unwind(s)
             \/ s = "main_pipe" /\ t = "reporting_pipe"
             \/ s = "reporting_pipe" /\ t = "close_on_exec"
             \/ s = "receiving_thread" /\ t = "sending_arg"
<1>1. \A s : \/ s \in {"main_pipe", "reporting_pipe"}
            \/ s \in {"listen", "close_on_exec", "fork", "connect"}
            \/ Takes(s) = {s}
  BY DEF Takes
<1>2. \A s \in {"listen", "close_on_exec", "fork", "connect"} : Takes(s) = {}
  BY DEF Takes
<1>3. DOMAIN ArgOf = {"receiving_thread", "sending_thread"}
  BY DEF ArgOf
<1>4. /\ Kind("socket_fd", "path") /\ Kind("path", "listen")
      /\ Kind("listen", "child_ready_info")
  BY <1>1, <1>2, <1>3, SocketUnwinds
<1>5. /\ Kind("child_ready_info", "child_ready_mutex")
      /\ Kind("child_ready_mutex", "child_ready_cond")
      /\ Kind("child_ready_cond", "client_ready_info")
      /\ Kind("client_ready_info", "client_ready_mutex")
      /\ Kind("client_ready_mutex", "client_ready_cond")
      /\ Kind("client_ready_cond", "child_wait_arg")
  BY <1>1, <1>3, ThreadsUnwinds
<1>6. /\ Kind("child_wait_arg", "child_pid_ptr")
      /\ Kind("child_pid_ptr", "client_connection_arg")
      /\ Kind("client_connection_arg", "child_stdin_fd_ptr")
      /\ Kind("child_stdin_fd_ptr", "accept_arg")
      /\ Kind("accept_arg", "child_wait_thread")
      /\ Kind("child_wait_thread", "client_connection_thread")
      /\ Kind("client_connection_thread", "accept_thread")
      /\ Kind("accept_thread", "main_pipe")
  BY <1>1, <1>3, ThreadsUnwinds
<1>7. /\ Kind("main_pipe", "reporting_pipe")
      /\ Kind("reporting_pipe", "close_on_exec")
      /\ Kind("close_on_exec", "fork")
  BY <1>2, PipesUnwind
<1>8. /\ Kind("client_socket_fd", "result_dest")
      /\ Kind("result_dest", "result_mutex")
      /\ Kind("result_mutex", "result_cond") /\ Kind("result_cond", "connect")
      /\ Kind("connect", "receiving_arg")
      /\ Kind("receiving_arg", "receiving_thread")
      /\ Kind("receiving_thread", "sending_arg")
      /\ Kind("sending_arg", "sending_thread")
  BY <1>1, <1>2, <1>3, ClientUnwinds
<1> HIDE DEF Kind
<1>9. i + 1 \in DOMAIN Steps[p] /\ Kind(Steps[p][i], Steps[p][i + 1])
  <2>1. CASE p = "server"
    <3>1. i \in 1..20
      BY <2>1, ServerSteps
    <3> QED
      BY <2>1, <3>1, <1>4, <1>5, <1>6, <1>7, ServerSteps
  <2>2. CASE p = "client"
    <3>1. i \in 1..8
      BY <2>2, ClientStepNames
    <3> QED
      BY <2>2, <3>1, <1>8, ClientStepNames
  <2> QED
    BY <2>1, <2>2
<1> QED
  BY <1>9 DEF Kind

-----------------------------------------------------------------------------
(* What uses what.                                                         *)

LEMMA NeedsNames ==
  /\ DOMAIN Needs =
       { "path", "child_ready_mutex", "child_ready_cond", "client_ready_mutex",
         "client_ready_cond", "child_pid_ptr", "child_stdin_fd_ptr",
         "child_wait_thread", "client_connection_thread", "accept_thread",
         "result_mutex", "result_cond", "receiving_thread", "sending_thread" }
  /\ Needs["path"] = {"socket_fd"}
  /\ Needs["child_ready_mutex"] = {"child_ready_info"}
  /\ Needs["child_ready_cond"] = {"child_ready_info"}
  /\ Needs["client_ready_mutex"] = {"client_ready_info"}
  /\ Needs["client_ready_cond"] = {"client_ready_info"}
  /\ Needs["child_pid_ptr"] = {"child_wait_arg"}
  /\ Needs["child_stdin_fd_ptr"] = {"client_connection_arg"}
  /\ Needs["child_wait_thread"]
       = {"child_ready_mutex", "child_ready_cond", "child_wait_arg", "child_pid_ptr"}
  /\ Needs["client_connection_thread"]
       = { "client_ready_mutex", "client_ready_cond", "client_connection_arg",
           "child_stdin_fd_ptr" }
  /\ Needs["accept_thread"]
       = { "socket_fd", "child_ready_mutex", "child_ready_cond",
           "client_ready_mutex", "client_ready_cond", "accept_arg" }
  /\ Needs["result_mutex"] = {"result_dest"}
  /\ Needs["result_cond"] = {"result_dest"}
  /\ Needs["receiving_thread"]
       = {"client_socket_fd", "result_mutex", "result_cond"}
  /\ Needs["sending_thread"]
       = {"client_socket_fd", "result_mutex", "result_cond"}
BY DEF Needs

\* Nothing uses a thread, a thread's own argument or an end of a pipe.
LEMMA NeverNeeded ==
  ASSUME NEW u \in DOMAIN Needs,
         NEW r \in Threads \cup {"receiving_arg", "sending_arg", "main_read",
                    "main_write", "reporting_read", "reporting_write"}
  PROVE  r \notin Needs[u]
BY NeedsNames DEF Threads

\* What is used has been acquired in an earlier step.
LEMMA NeedsEarlier ==
  ASSUME NEW p \in {"server", "client"}, NEW i \in DOMAIN Steps[p],
         NEW r \in Takes(Steps[p][i]) \cap DOMAIN Needs, NEW n \in Needs[r]
  PROVE  \E j \in DOMAIN Steps[p] : j < i /\ n \in Takes(Steps[p][j])
<1>1. \A s : \/ s \in {"main_pipe", "reporting_pipe"}
            \/ s \in {"listen", "close_on_exec", "fork", "connect"}
            \/ Takes(s) = {s}
  BY DEF Takes
<1>2. r = Steps[p][i]
  <2>1. /\ Takes("main_pipe") \cap DOMAIN Needs = {}
        /\ Takes("reporting_pipe") \cap DOMAIN Needs = {}
    BY NeedsNames DEF Takes
  <2>2. \A s \in {"listen", "close_on_exec", "fork", "connect"} : Takes(s) = {}
    BY DEF Takes
  <2> DEFINE s == Steps[p][i]
  <2>3. r \in Takes(s) \cap DOMAIN Needs
    OBVIOUS
  <2> HIDE DEF s
  <2>4. r = s
    BY <1>1, <2>1, <2>2, <2>3
  <2> QED
    BY <2>4 DEF s
<1>3. CASE p = "server"
  <2>1. \E j \in 1..17 : j < i /\ j # 3 /\ n = Steps["server"][j]
    <3>1. i \in 1..17
      BY <1>2, <1>3, ServerSteps, NeedsNames
    <3>2. CASE i \in 1..9
      BY <1>2, <1>3, <3>2, ServerSteps, NeedsNames
    <3>3. CASE i \in 10..14
      BY <1>2, <1>3, <3>3, ServerSteps, NeedsNames
    <3>4. CASE i \in 15..17
      BY <1>2, <1>3, <3>4, ServerSteps, NeedsNames
    <3> QED
      BY <3>1, <3>2, <3>3, <3>4
  <2>2. PICK j \in 1..17 : j < i /\ j # 3 /\ n = Steps["server"][j]
    BY <2>1
  <2>3. n \in Takes(Steps["server"][j])
    BY <2>2, <1>1, ServerSteps
  <2> QED
    BY <1>3, <2>2, <2>3, ServerSteps
<1>4. CASE p = "client"
  <2>1. \E j \in 1..9 : j < i /\ j # 5 /\ n = Steps["client"][j]
    BY <1>2, <1>4, ClientStepNames, NeedsNames
  <2>2. PICK j \in 1..9 : j < i /\ j # 5 /\ n = Steps["client"][j]
    BY <2>1
  <2>3. n \in Takes(Steps["client"][j])
    BY <2>2, <1>1, ClientStepNames
  <2> QED
    BY <1>4, <2>2, <2>3, ClientStepNames
<1> QED
  BY <1>3, <1>4

\* A thread is created right after its argument has been allocated.
LEMMA ArgsBefore ==
  ASSUME NEW p \in {"server", "client"}, NEW i \in DOMAIN Steps[p],
         NEW t \in DOMAIN ArgOf, ArgOf[t] \in Takes(Steps[p][i])
  PROVE  i + 1 \in DOMAIN Steps[p] /\ t \in Takes(Steps[p][i + 1])
<1>1. /\ DOMAIN ArgOf = {"receiving_thread", "sending_thread"}
      /\ ArgOf["receiving_thread"] = "receiving_arg"
      /\ ArgOf["sending_thread"] = "sending_arg"
  BY DEF ArgOf
<1>2. /\ Takes("receiving_thread") = {"receiving_thread"}
      /\ Takes("sending_thread") = {"sending_thread"}
  BY DEF Takes
<1>3. \A s : {"receiving_arg", "sending_arg"} \cap Takes(s) \subseteq {s}
  <2>1. \A s : \/ s \in {"main_pipe", "reporting_pipe"}
              \/ s \in {"listen", "close_on_exec", "fork", "connect"}
              \/ Takes(s) = {s}
    BY DEF Takes
  <2>2. /\ {"receiving_arg", "sending_arg"} \cap Takes("main_pipe") = {}
        /\ {"receiving_arg", "sending_arg"} \cap Takes("reporting_pipe") = {}
    BY DEF Takes
  <2>3. \A s \in {"listen", "close_on_exec", "fork", "connect"} : Takes(s) = {}
    BY DEF Takes
  <2> QED
    BY <2>1, <2>2, <2>3
<1>4. Steps[p][i] = ArgOf[t]
  BY <1>1, <1>3
<1>5. p = "client"
  BY <1>1, <1>4, ServerSteps
<1> QED
  BY <1>1, <1>2, <1>4, <1>5, ClientStepNames

LEMMA StepsDomain ==
  ASSUME TypeOK
  PROVE  /\ program \in {"server", "client"} /\ Len(Steps[program]) \in Nat
         /\ DOMAIN Steps[program] = 1..Len(Steps[program])
         /\ step \in Nat
         /\ step # 0 => step \in DOMAIN Steps[program]
<1>1. program \in {"server", "client"} /\ step \in 0..Len(Steps[program])
  BY DEF TypeOK
<1>2. CASE program = "server"
  BY <1>1, <1>2, ServerSteps
<1>3. CASE program = "client"
  BY <1>1, <1>3, ClientStepNames
<1> QED
  BY <1>1, <1>2, <1>3

-----------------------------------------------------------------------------
(* Every step keeps the inductive invariant.                               *)

\* What a step acquires is new, nothing uses it yet, and all it uses is there.
LEMMA TakesNew ==
  ASSUME IInv, step # 0, NEW r \in Takes(Current)
  PROVE  /\ r \in Resources /\ r \notin held
         /\ \A u \in held \cap DOMAIN Needs : r \notin Needs[u]
         /\ \A t \in held \cap DOMAIN ArgOf : ArgOf[t] # r
         /\ r \in DOMAIN Needs => Needs[r] \subseteq held
<1>1. /\ program \in {"server", "client"} /\ step \in DOMAIN Steps[program]
      /\ DOMAIN Steps[program] = 1..Len(Steps[program])
      /\ Len(Steps[program]) \in Nat /\ step \in Nat
  BY StepsDomain DEF IInv
<1>2. r \in Resources
  BY <1>1, TakesResources DEF Current
<1>3. r \notin held
  BY <1>1 DEF IInv, AcquiredInv, Current
<1>4. \A u \in held \cap DOMAIN Needs : r \notin Needs[u]
  BY <1>3 DEF IInv, NothingDangling
<1>5. \A t \in held \cap DOMAIN ArgOf : ArgOf[t] # r
  <2> SUFFICES ASSUME NEW t \in held \cap DOMAIN ArgOf, ArgOf[t] = r
               PROVE  FALSE
    OBVIOUS
  <2>1. step + 1 \in DOMAIN Steps[program]
        /\ t \in Takes(Steps[program][step + 1])
    BY <1>1, ArgsBefore DEF Current
  <2> QED
    BY <1>1, <2>1 DEF IInv, AcquiredInv
<1>6. ASSUME r \in DOMAIN Needs, NEW n \in Needs[r]
      PROVE  n \in held
  <2>1. PICK j \in DOMAIN Steps[program] :
               j < step /\ n \in Takes(Steps[program][j])
    BY <1>1, <1>6, NeedsEarlier DEF Current
  <2>2. n \in held \/ \E t \in held \cap DOMAIN ArgOf : ArgOf[t] = n
    BY <2>1 DEF IInv, AcquiredInv
  <2>3. \A t \in DOMAIN ArgOf : ArgOf[t] \in {"receiving_arg", "sending_arg"}
    BY DEF ArgOf
  <2>4. n \notin {"receiving_arg", "sending_arg"}
    BY <1>6, NeverNeeded
  <2> QED
    BY <2>2, <2>3, <2>4
<1> QED
  BY <1>2, <1>3, <1>4, <1>5, <1>6

LEMMA AcquireDangling ==
  ASSUME IInv, step # 0, held' = held \cup Takes(Current)
  PROVE  NothingDangling'
<1>1. ASSUME NEW u \in held' \cap DOMAIN Needs
      PROVE  Needs[u] \subseteq held'
  <2>1. CASE u \in held
    BY <2>1, <1>1 DEF IInv, NothingDangling
  <2>2. CASE u \in Takes(Current)
    BY <2>2, <1>1, TakesNew
  <2> QED
    BY <1>1, <2>1, <2>2
<1> QED
  BY <1>1 DEF NothingDangling

LEMMA AcquireAcquired ==
  ASSUME IInv, Acquire
  PROVE  AcquiredInv'
<1>1. /\ program \in {"server", "client"} /\ step \in DOMAIN Steps[program]
      /\ DOMAIN Steps[program] = 1..Len(Steps[program])
      /\ Len(Steps[program]) \in Nat /\ step \in Nat
  BY StepsDomain DEF IInv, Acquire
<1>2. ASSUME NEW i \in DOMAIN Steps[program], NEW r \in Takes(Steps[program][i])
      PROVE  IF i < step + 1
               THEN \/ r \in held'
                    \/ \E t \in held' \cap DOMAIN ArgOf : ArgOf[t] = r
               ELSE r \notin held'
  <2>1. CASE i < step
    BY <1>1, <2>1 DEF IInv, AcquiredInv, Acquire
  <2>2. CASE i = step
    BY <1>1, <2>2 DEF Acquire, Current
  <2>3. CASE i > step
    <3>1. r \notin held
      BY <1>1, <2>3 DEF IInv, AcquiredInv, Acquire
    <3>2. r \notin Takes(Current)
      <4>1. r \in Takes(Current) => i = step
        BY <1>1, OneStepEach DEF Current
      <4> QED
        BY <1>1, <2>3, <4>1
    <3> QED
      BY <1>1, <2>3, <3>1, <3>2 DEF Acquire
  <2> QED
    BY <1>1, <2>1, <2>2, <2>3
<1> QED
  BY <1>2 DEF AcquiredInv, Acquire

\* What was acquired is held, except for the arguments of threads.
LEMMA HeldBefore ==
  ASSUME IInv, step # 0, NEW i \in DOMAIN Steps[program], i < step,
         NEW r \in Takes(Steps[program][i]), r \notin {"receiving_arg", "sending_arg"}
  PROVE  r \in held
<1>1. \A t \in DOMAIN ArgOf : ArgOf[t] \in {"receiving_arg", "sending_arg"}
  BY DEF ArgOf
<1>2. r \in held \/ \E t \in held \cap DOMAIN ArgOf : ArgOf[t] = r
  BY DEF IInv, AcquiredInv
<1> QED
  BY <1>1, <1>2

\* Each acquisition is put in front of the list.
LEMMA AcquireDisposal ==
  ASSUME IInv, Acquire
  PROVE  Disposes(Unwind(Steps[program][step + 1]), held \cup Takes(Current))
<1> DEFINE s == Current
           t == Steps[program][step + 1]
<1>1. /\ program \in {"server", "client"} /\ step \in DOMAIN Steps[program]
      /\ step # Len(Steps[program]) /\ step # 0
  BY StepsDomain DEF IInv, Acquire, Last
<1>2. Disposes(Unwind(s), held)
  BY <1>1 DEF IInv, DisposalInv
<1>3. \A r \in Takes(s) :
        /\ r \in Resources /\ r \notin held
        /\ \A u \in held \cap DOMAIN Needs : r \notin Needs[u]
        /\ \A x \in held \cap DOMAIN ArgOf : ArgOf[x] # r
        /\ r \in DOMAIN Needs => Needs[r] \subseteq held
  BY <1>1, TakesNew
<1>4. \/ Takes(s) = {} /\ Unwind(t) = Unwind(s)
      \/ /\ s \notin DOMAIN ArgOf
         /\ Takes(s) = {s} /\ Unwind(t) = <<s>> \o Unwind(s)
      \/ s = "main_pipe" /\ t = "reporting_pipe"
      \/ s = "reporting_pipe" /\ t = "close_on_exec"
      \/ s = "receiving_thread" /\ t = "sending_arg"
  BY <1>1, StepUnwinds DEF Current
<1> HIDE DEF s, t
<1> SUFFICES Disposes(Unwind(t), held \cup Takes(s))
  BY DEF s, t
<1>5. CASE Takes(s) = {} /\ Unwind(t) = Unwind(s)
  BY <1>2, <1>5
<1>6. CASE /\ s \notin DOMAIN ArgOf
           /\ Takes(s) = {s} /\ Unwind(t) = <<s>> \o Unwind(s)
  <2>1. \A u \in (held \cup {s}) \cap DOMAIN Needs : s \notin Needs[u]
    BY <1>3, <1>6
  <2>2. Disposes(<<s>> \o Unwind(s), held \cup {s})
    BY <1>2, <1>3, <1>6, <2>1, DisposesFirst
  <2> QED
    BY <1>6, <2>2
<1>7. ASSUME NEW q, NEW r, NEW w, Disposes(q, held), Takes(s) = {r, w}, r # w,
             {r, w} \subseteq {"main_read", "main_write", "reporting_read",
                              "reporting_write"}
      PROVE  Disposes(<<w>> \o (<<r>> \o q), held \cup Takes(s))
  <2>1. \A u \in DOMAIN Needs : r \notin Needs[u] /\ w \notin Needs[u]
    BY <1>7, NeverNeeded
  <2>2. \A x \in DOMAIN ArgOf : ArgOf[x] \notin {r, w}
    BY <1>7 DEF ArgOf
  <2>3. r \notin DOMAIN ArgOf /\ w \notin DOMAIN ArgOf
    BY <1>7 DEF ArgOf
  <2>4. r \in Resources /\ r \notin held /\ w \in Resources /\ w \notin held
    BY <1>3, <1>7
  <2>5. Disposes(<<r>> \o q, held \cup {r})
    BY <1>7, <2>1, <2>2, <2>3, <2>4, DisposesFirst
  <2>6. Disposes(<<w>> \o (<<r>> \o q), (held \cup {r}) \cup {w})
    BY <1>7, <2>1, <2>2, <2>3, <2>4, <2>5, DisposesFirst
  <2>7. (held \cup {r}) \cup {w} = held \cup Takes(s)
    BY <1>7
  <2> QED
    BY <2>6, <2>7
<1>8. CASE s = "main_pipe" /\ t = "reporting_pipe"
  <2>1. Takes(s) = {"main_read", "main_write"}
    BY <1>8 DEF Takes
  <2> QED
    BY <1>2, <1>7, <1>8, <2>1, PipesUnwind
<1>9. CASE s = "reporting_pipe" /\ t = "close_on_exec"
  <2>1. Takes(s) = {"reporting_read", "reporting_write"}
    BY <1>9 DEF Takes
  <2> QED
    BY <1>2, <1>7, <1>9, <2>1, PipesUnwind
<1>10. CASE s = "receiving_thread" /\ t = "sending_arg"
  <2> DEFINE r == "receiving_thread"
             a == "receiving_arg"
             X == Unwind("receiving_arg")
             H == held \ {a}
  <2>1. Takes(s) = {r} /\ Unwind(s) = <<a>> \o X /\ Unwind(t) = <<r>> \o X
    BY <1>10, ClientUnwinds DEF Takes
  <2>2. /\ DOMAIN ArgOf = {r, "sending_thread"}
        /\ ArgOf[r] = a /\ ArgOf["sending_thread"] = "sending_arg"
    BY DEF ArgOf
  <2>3. X \in Seq(Resources) /\ a \in Resources
    <3>1. ResultDest \o ClientSocketEnd \in Seq(Resources)
      BY NamedLists, ConcatProperties
    <3> QED
      BY <3>1, ClientResources, ClientLists
  <2> HIDE DEF X
  <2>4. Head(<<a>> \o X) = a /\ Tail(<<a>> \o X) = X /\ <<a>> \o X # <<>>
    BY <2>3, InFront
  <2>5. Disposes(X, H)
    BY <1>2, <2>1, <2>2, <2>4, DisposesRest
  <2>6. \A i \in DOMAIN X : X[i] # a
    BY <2>5 DEF Disposes, Threads
  <2>7. \A u \in DOMAIN Needs : r \notin Needs[u]
    BY NeverNeeded DEF Threads
  <2>8. r \in Resources /\ r \notin held
    BY <1>3, <2>1
  <2>9. Disposes(<<r>> \o X, H \cup {r})
    BY <2>2, <2>5, <2>6, <2>7, <2>8, DisposesFirst
  <2>10. Disposes(<<r>> \o X, held \cup {r})
    <3> DEFINE Q == <<r>> \o X
    <3>1. (H \cup {r}) \cap DOMAIN ArgOf = (held \cup {r}) \cap DOMAIN ArgOf
      BY <2>2
    <3>2. r \in (H \cup {r}) \cap DOMAIN ArgOf /\ ArgOf[r] = a
      BY <2>2
    <3> HIDE DEF Q
    <3>3. Disposes(Q, H \cup {r})
      BY <2>9 DEF Q
    <3> QED
      BY <3>1, <3>2, <3>3, DisposesArgs DEF Q
  <2> QED
    BY <2>1, <2>10
<1> QED
  BY <1>4, <1>5, <1>6, <1>8, <1>9, <1>10

\* After fork(2) the ends of the pipes are closed in another order, and two of
\* the threads may be joined once more.
LEMMA ForkDisposal ==
  ASSUME IInv, step # 0, Last, program = "server",
         NEW joins \in {<<>>, <<"child_wait_thread", "accept_thread">>}
  PROVE  Disposes(ChildEnd(joins) \o ThreadsEnd \o SocketEnd, held)
<1> DEFINE Z == Unwind("main_pipe")
           rw == "reporting_write"
           rr == "reporting_read"
           mw == "main_write"
           mr == "main_read"
           H == (((held \ {rw}) \ {rr}) \ {mw}) \ {mr}
           cw == "child_wait_thread"
           at == "accept_thread"
<1>1. step = 21 /\ Current = "fork"
  BY ServerSteps DEF Last, Current
<1>2. {rw, rr, mw, mr, cw, at} \subseteq held
  <2>1. /\ cw \in Takes("child_wait_thread") /\ at \in Takes("accept_thread")
        /\ mr \in Takes("main_pipe") /\ mw \in Takes("main_pipe")
        /\ rr \in Takes("reporting_pipe") /\ rw \in Takes("reporting_pipe")
    BY DEF Takes
  <2>2. /\ cw \in Takes(Steps[program][15]) /\ at \in Takes(Steps[program][17])
        /\ mr \in Takes(Steps[program][18]) /\ mw \in Takes(Steps[program][18])
        /\ rr \in Takes(Steps[program][19]) /\ rw \in Takes(Steps[program][19])
    BY <2>1, ServerSteps
  <2>3. \A i \in 1..20 : i \in DOMAIN Steps[program] /\ i < step
    BY <1>1, ServerSteps
  <2>4. cw \in held /\ at \in held
    BY <2>2, <2>3, HeldBefore
  <2>5. mr \in held /\ mw \in held
    BY <2>2, <2>3, HeldBefore
  <2>6. rr \in held /\ rw \in held
    BY <2>2, <2>3, HeldBefore
  <2> QED
    BY <2>4, <2>5, <2>6
<1>3. Disposes(Z, H)
  <2>1. Z \in Seq(Resources)
    <3>1. ThreadsEnd \o SocketEnd \in Seq(Resources)
      BY NamedLists, ConcatProperties
    <3> QED
      BY <3>1, PipesUnwind
  <2>2. Unwind("fork") = <<rw>> \o (<<rr>> \o (<<mw>> \o (<<mr>> \o Z)))
    BY PipesUnwind
  <2> HIDE DEF Z
  <2>3. ASSUME NEW q \in Seq(Resources), NEW K, NEW r \in {rw, rr, mw, mr},
               Disposes(<<r>> \o q, K)
        PROVE  Disposes(q, K \ {r})
    <3>1. r \in Resources /\ r \notin DOMAIN ArgOf
      BY ServerResources DEF ArgOf
    <3>2. Head(<<r>> \o q) = r /\ Tail(<<r>> \o q) = q /\ <<r>> \o q # <<>>
      BY <3>1, InFront
    <3> QED
      BY <2>3, <3>1, <3>2, DisposesRest
  <2> DEFINE q1 == <<mr>> \o Z
             q2 == <<mw>> \o q1
             q3 == <<rr>> \o q2
  <2>4. q1 \in Seq(Resources)
    BY <2>1, InFront, ServerResources
  <2>5. q2 \in Seq(Resources)
    <3> HIDE DEF q1
    <3> QED
      BY <2>4, InFront, ServerResources
  <2>6. q3 \in Seq(Resources)
    <3> HIDE DEF q2
    <3> QED
      BY <2>5, InFront, ServerResources
  <2>7. Disposes(<<rw>> \o q3, held)
    BY <1>1, <2>2 DEF IInv, DisposalInv
  <2>8. Disposes(q3, held \ {rw})
    <3> HIDE DEF q3
    <3> QED
      BY <2>3, <2>6, <2>7
  <2>9. Disposes(q2, (held \ {rw}) \ {rr})
    <3> HIDE DEF q2
    <3> QED
      BY <2>3, <2>5, <2>8
  <2>10. Disposes(q1, ((held \ {rw}) \ {rr}) \ {mw})
    <3> HIDE DEF q1
    <3> QED
      BY <2>3, <2>4, <2>9
  <2> QED
    BY <2>1, <2>3, <2>10
<1>4. ASSUME NEW q, NEW K, NEW r \in {rw, rr, mw, mr, cw, at}, Disposes(q, K),
             r \in K => r \in {cw, at}
      PROVE  Disposes(<<r>> \o q, K \cup {r})
  <2>1. r \in Resources /\ r \notin DOMAIN ArgOf
    BY ServerResources DEF ArgOf
  <2>2. \A u \in DOMAIN Needs : r \notin Needs[u]
    BY NeverNeeded DEF Threads
  <2>3. \A t \in DOMAIN ArgOf : ArgOf[t] # r
    BY DEF ArgOf
  <2>4. r \in K => r \in Threads
    BY <1>4 DEF Threads
  <2> QED
    BY <1>4, <2>1, <2>2, <2>3, <2>4, DisposesFirst
<1> DEFINE q1 == <<mw>> \o Z
           q2 == <<rr>> \o q1
           q3 == joins \o q2
           K == (H \cup {mw}) \cup {rr}
<1>5. Disposes(q2, K)
  <2> HIDE DEF Z
  <2>1. Disposes(q1, H \cup {mw})
    BY <1>3, <1>4
  <2> HIDE DEF q1
  <2> QED
    BY <1>4, <2>1
<1>6. q2 \in Seq(Resources)
  BY <1>5 DEF Disposes
<1>7. Disposes(q3, K)
  <2> HIDE DEF q2, K
  <2>1. CASE joins = <<>>
    <3>1. <<>> \o q2 = q2
      BY <1>6, ConcatEmptySeq
    <3> QED
      BY <1>5, <2>1, <3>1
  <2>2. CASE joins = <<cw, at>>
    <3>1. <<cw, at>> \o q2 = <<cw>> \o (<<at>> \o q2)
      BY <1>6, PullTwo, ServerResources
    <3>2. K \cup {at} = K /\ K \cup {cw} = K
      BY <1>2 DEF K
    <3>3. Disposes(<<at>> \o q2, K \cup {at})
      BY <1>2, <1>4, <1>5
    <3> DEFINE q == <<at>> \o q2
    <3> HIDE DEF q
    <3>4. Disposes(q, K)
      BY <3>2, <3>3 DEF q
    <3>5. Disposes(<<cw>> \o q, K \cup {cw})
      BY <1>4, <3>4
    <3>6. Disposes(<<cw>> \o q, K)
      BY <3>2, <3>5
    <3> QED
      BY <2>2, <3>1, <3>6 DEF q
  <2> QED
    BY <2>1, <2>2
<1>8. Disposes(<<rw>> \o (<<mr>> \o q3), (K \cup {mr}) \cup {rw})
  <2> HIDE DEF q3
  <2>1. Disposes(<<mr>> \o q3, K \cup {mr})
    BY <1>4, <1>7
  <2> DEFINE q == <<mr>> \o q3
  <2> HIDE DEF q
  <2>2. Disposes(<<rw>> \o q, (K \cup {mr}) \cup {rw})
    BY <1>4, <2>1 DEF q
  <2> QED
    BY <2>2 DEF q
<1>9. (K \cup {mr}) \cup {rw} = held
  BY <1>2
<1>10. joins \in Seq(Resources)
  <2>1. cw \in Resources /\ at \in Resources
    BY ServerResources
  <2>2. <<cw, at>> \in Seq(Resources) /\ <<>> \in Seq(Resources)
    BY <2>1
  <2> QED
    BY <2>2
<1>11. ChildEnd(joins) \o ThreadsEnd \o SocketEnd = <<rw>> \o (<<mr>> \o q3)
  BY <1>10, ForkUnwinds
<1> QED
  BY <1>8, <1>9, <1>11

\* Both threads of a client run: their arguments are theirs to free.
LEMMA StartedDisposal ==
  ASSUME IInv, step # 0, Last, program = "client"
  PROVE  Disposes(ClientEnd \o ClientSocketEnd, held \cup Takes(Current))
<1> DEFINE r == "receiving_thread"
           a == "receiving_arg"
           s == "sending_thread"
           b == "sending_arg"
           X == Unwind("receiving_arg")
           H == (held \ {b}) \ {a}
           K == held \cup {s}
<1>1. step = 9 /\ Current = s /\ Takes(Current) = {s}
  BY ClientStepNames DEF Last, Current, Takes
<1>2. /\ DOMAIN ArgOf = {r, s} /\ ArgOf[r] = a /\ ArgOf[s] = b
      /\ DOMAIN ArgOf \subseteq Threads
  BY DEF ArgOf, Threads
<1>3. r \in Resources /\ a \in Resources /\ s \in Resources /\ b \in Resources
  BY ClientResources
<1>4. r \in held
  <2>1. r \in Takes(Steps[program][7])
    BY ClientStepNames DEF Takes
  <2>2. 7 \in DOMAIN Steps[program] /\ 7 < step
    BY <1>1, ClientStepNames
  <2> QED
    BY <2>1, <2>2, HeldBefore
<1>5. s \notin held
  BY <1>1, TakesNew
<1>6. X \in Seq(Resources)
  <2>1. ResultDest \o ClientSocketEnd \in Seq(Resources)
    BY NamedLists, ConcatProperties
  <2> QED
    BY <2>1, ClientLists
<1>7. /\ Unwind("sending_thread") = <<b>> \o (<<r>> \o X)
      /\ ClientEnd \o ClientSocketEnd = <<r>> \o (<<s>> \o X)
  BY ClientUnwinds
<1> HIDE DEF X
<1>8. ASSUME NEW x \in Resources, NEW q \in Seq(Resources), NEW G,
             Disposes(<<x>> \o q, G), x \in DOMAIN ArgOf => ArgOf[x] \notin G
      PROVE  Disposes(q, G \ {x})
  <2>1. Head(<<x>> \o q) = x /\ Tail(<<x>> \o q) = q /\ <<x>> \o q # <<>>
    BY InFront
  <2> QED
    BY <1>8, <2>1, DisposesRest
<1>9. Disposes(X, H \ {r})
  <2> DEFINE q == <<r>> \o X
  <2>1. q \in Seq(Resources)
    BY <1>3, <1>6, InFront
  <2>2. Disposes(<<b>> \o q, held)
    BY <1>1, <1>7 DEF IInv, DisposalInv
  <2> HIDE DEF q
  <2>3. Disposes(q, held \ {b})
    BY <1>2, <1>3, <1>8, <2>1, <2>2
  <2>4. Disposes(q, H)
    BY <1>2, <1>4, <2>3, DisposesArgs
  <2> QED
    BY <1>2, <1>3, <1>6, <1>8, <2>4 DEF q
<1>10. ASSUME NEW x \in {r, s}, NEW q, NEW G, Disposes(q, G), x \notin G,
              a \notin G, b \notin G
       PROVE  Disposes(<<x>> \o q, G \cup {x})
  <2>1. \A u \in DOMAIN Needs : x \notin Needs[u]
    BY NeverNeeded DEF Threads
  <2>2. \A t \in DOMAIN ArgOf : ArgOf[t] # x
    BY <1>2
  <2>3. \A i \in DOMAIN q : q[i] # a /\ q[i] # b
    BY <1>10 DEF Disposes, Threads
  <2> QED
    BY <1>2, <1>3, <1>10, <2>1, <2>2, <2>3, DisposesFirst
<1>11. Disposes(<<r>> \o (<<s>> \o X), ((H \ {r}) \cup {s}) \cup {r})
  <2> DEFINE q == <<s>> \o X
  <2>1. Disposes(q, (H \ {r}) \cup {s})
    BY <1>5, <1>9, <1>10
  <2> HIDE DEF q
  <2>2. Disposes(<<r>> \o q, ((H \ {r}) \cup {s}) \cup {r})
    BY <1>10, <2>1
  <2> QED
    BY <2>2 DEF q
<1>12. Disposes(<<r>> \o (<<s>> \o X), K)
  <2> DEFINE q == <<r>> \o (<<s>> \o X)
             G == ((H \ {r}) \cup {s}) \cup {r}
  <2>1. Disposes(q, G)
    BY <1>11
  <2> HIDE DEF q
  <2>2. G \cap DOMAIN ArgOf = K \cap DOMAIN ArgOf
    BY <1>2, <1>4
  <2>3. r \in G \cap DOMAIN ArgOf /\ s \in G \cap DOMAIN ArgOf
    BY <1>2
  <2>4. \A x : x \in G \/ x \in K
                 => \/ x \in G /\ x \in K
                    \/ \E t \in G \cap DOMAIN ArgOf : ArgOf[t] = x
    BY <1>2, <1>4, <2>3
  <2> HIDE DEF G, K
  <2>5. Disposes(q, K)
    BY <2>1, <2>2, <2>4, DisposesArgs
  <2> QED
    BY <2>5 DEF q
<1> QED
  BY <1>1, <1>7, <1>12

\* A client's thread frees its argument while it is held and nothing uses it.
LEMMA FreedByThread ==
  ASSUME IInv, ThreadFreesArg
  PROVE  /\ held' \subseteq held /\ NothingDangling'
         /\ \A x \in held : x \in held' \/ x \in {"receiving_arg", "sending_arg"}
         /\ DisposalInv' /\ AcquiredInv'
<1>1. PICK t \in DOMAIN ArgOf :
             t \in held /\ ArgOf[t] \in held /\ held' = held \ {ArgOf[t]}
  BY DEF ThreadFreesArg
<1>2. \A x \in DOMAIN ArgOf : ArgOf[x] \in {"receiving_arg", "sending_arg"}
  BY DEF ArgOf
<1>3. "receiving_arg" \notin DOMAIN ArgOf /\ "sending_arg" \notin DOMAIN ArgOf
  BY DEF ArgOf
<1>4. \A u \in DOMAIN Needs :
        "receiving_arg" \notin Needs[u] /\ "sending_arg" \notin Needs[u]
  BY NeverNeeded
<1>5. held \cap DOMAIN ArgOf = held' \cap DOMAIN ArgOf
  BY <1>1, <1>2, <1>3
<1>6. NothingDangling'
  BY <1>1, <1>2, <1>4 DEF IInv, NothingDangling
<1>7. DisposalInv'
  <2> DEFINE q == IF step = 0 THEN todo ELSE Unwind(Current)
  <2>1. Disposes(q, held)
    BY DEF IInv, DisposalInv
  <2>2. DisposalInv' = Disposes(q, held')
    BY DEF ThreadFreesArg, DisposalInv, Disposes, Current
  <2> HIDE DEF q
  <2>3. \A x : x \in held \/ x \in held'
                 => \/ x \in held /\ x \in held'
                    \/ \E y \in held \cap DOMAIN ArgOf : ArgOf[y] = x
    BY <1>1
  <2>4. Disposes(q, held')
    BY <1>5, <2>1, <2>3, DisposesArgs
  <2> QED
    BY <2>2, <2>4
<1>8. AcquiredInv'
  <2>1. step' = step /\ program' = program
    BY DEF ThreadFreesArg
  <2>2. t \in held'
    BY <1>1, <1>5
  <2>3. \A r : r \in held => r \in held' \/ r = ArgOf[t]
    BY <1>1
  <2> QED
    BY <1>1, <1>5, <2>1, <2>2, <2>3 DEF IInv, AcquiredInv
<1> QED
  BY <1>1, <1>2, <1>6, <1>7, <1>8

LEMMA InitInv == Init => IInv
<1> SUFFICES ASSUME Init PROVE IInv
  OBVIOUS
<1>1. /\ program \in {"server", "client"} /\ step = 1 /\ held = {}
      /\ Len(Steps[program]) \in Nat /\ 1 \in DOMAIN Steps[program]
      /\ DOMAIN Steps[program] = 1..Len(Steps[program])
      /\ Unwind(Current) = <<>>
  <2>1. program \in {"server", "client"} /\ step = 1 /\ held = {}
    BY DEF Init
  <2>2. CASE program = "server"
    BY <2>1, <2>2, ServerSteps, SocketUnwinds DEF Current
  <2>3. CASE program = "client"
    BY <2>1, <2>3, ClientStepNames, ClientUnwinds DEF Current
  <2> QED
    BY <2>1, <2>2, <2>3
<1>2. TypeOK
  BY <1>1 DEF Init, TypeOK
<1>3. DisposalInv
  BY <1>1, DisposesNothing DEF DisposalInv
<1>4. NothingDangling /\ AcquiredInv /\ ChildInv
  BY <1>1 DEF Init, NothingDangling, AcquiredInv, ChildInv
<1> QED
  BY <1>2, <1>3, <1>4 DEF IInv

LEMMA AcquireInv == IInv /\ Acquire => IInv'
<1> SUFFICES ASSUME IInv, Acquire PROVE IInv'
  OBVIOUS
<1>1. /\ step \in DOMAIN Steps[program] /\ step # Len(Steps[program])
      /\ DOMAIN Steps[program] = 1..Len(Steps[program])
      /\ Len(Steps[program]) \in Nat /\ step \in Nat /\ step + 1 # 0
  BY StepsDomain DEF IInv, Acquire, Last
<1>2. TypeOK'
  <2>1. Takes(Current) \subseteq Resources
    BY TakesNew DEF Acquire
  <2> QED
    BY <1>1, <2>1 DEF IInv, TypeOK, Acquire
<1>3. DisposalInv'
  <2>1. Disposes(Unwind(Steps[program][step + 1]), held \cup Takes(Current))
    BY AcquireDisposal
  <2>2. Disposes(Unwind(Steps[program][step + 1]), held')
    BY <2>1 DEF Acquire
  <2>3. step' = step + 1 /\ step' # 0 /\ program' = program
    BY <1>1 DEF Acquire
  <2>4. Current' = Steps[program][step + 1]
    BY <2>3 DEF Current
  <2> QED
    BY <2>2, <2>3, <2>4 DEF DisposalInv
<1>4. NothingDangling' /\ AcquiredInv'
  BY AcquireDangling, AcquireAcquired DEF Acquire
<1>5. ChildInv'
  BY DEF IInv, ChildInv, ClosedByExec, Acquire
<1> QED
  BY <1>2, <1>3, <1>4, <1>5 DEF IInv

LEMMA FailInv == IInv /\ Fail => IInv'
<1> SUFFICES ASSUME IInv, Fail PROVE IInv'
  OBVIOUS
<1>1. Disposes(todo', held)
  BY DEF Fail, IInv, DisposalInv
<1>2. todo' \in Seq(Resources)
  BY <1>1 DEF Disposes
<1>3. TypeOK'
  BY <1>2, StepsDomain DEF IInv, TypeOK, Fail
<1>4. DisposalInv'
  BY <1>1 DEF DisposalInv, Fail
<1>5. NothingDangling' /\ AcquiredInv' /\ ChildInv'
  BY DEF IInv, NothingDangling, AcquiredInv, ChildInv, ClosedByExec, Fail
<1> QED
  BY <1>3, <1>4, <1>5 DEF IInv

LEMMA StartedInv == IInv /\ Started => IInv'
<1> SUFFICES ASSUME IInv, Started PROVE IInv'
  OBVIOUS
<1>1. Disposes(todo', held')
  BY StartedDisposal DEF Started
<1>2. todo' \in Seq(Resources) /\ Takes(Current) \subseteq Resources
  BY <1>1, TakesNew DEF Disposes, Started
<1>3. TypeOK'
  BY <1>2, StepsDomain DEF IInv, TypeOK, Started
<1>4. DisposalInv'
  BY <1>1 DEF DisposalInv, Started
<1>5. NothingDangling'
  BY AcquireDangling DEF Started
<1>6. AcquiredInv' /\ ChildInv'
  BY DEF IInv, AcquiredInv, ChildInv, ClosedByExec, Started
<1> QED
  BY <1>3, <1>4, <1>5, <1>6 DEF IInv

LEMMA ForkInv == IInv /\ Fork => IInv'
<1> SUFFICES ASSUME IInv, Fork PROVE IInv'
  OBVIOUS
<1>1. PICK joins \in {<<>>, <<"child_wait_thread", "accept_thread">>} :
             todo' = ChildEnd(joins) \o ThreadsEnd \o SocketEnd
  BY DEF Fork
<1>2. Disposes(todo', held)
  BY <1>1, ForkDisposal DEF Fork
<1>3. joins \in Seq(Resources)
  <2>1. "child_wait_thread" \in Resources /\ "accept_thread" \in Resources
    BY ServerResources
  <2>2. /\ <<"child_wait_thread", "accept_thread">> \in Seq(Resources)
        /\ <<>> \in Seq(Resources)
    BY <2>1
  <2> QED
    BY <2>2
<1>4. Head(todo') = "reporting_write" /\ todo' # <<>>
  <2> DEFINE q == <<"main_read">> \o (joins \o
                    (<<"reporting_read">> \o
                      (<<"main_write">> \o Unwind("main_pipe"))))
  <2>1. todo' = <<"reporting_write">> \o q
    BY <1>1, <1>3, ForkUnwinds
  <2>2. q \in Seq(Resources)
    <3>1. \A x, y \in Seq(Resources) : x \o y \in Seq(Resources)
      BY ConcatProperties
    <3>2. /\ <<"main_read">> \in Seq(Resources)
          /\ <<"reporting_read">> \in Seq(Resources)
          /\ <<"main_write">> \in Seq(Resources)
      BY ServerResources
    <3>3. Unwind("main_pipe") \in Seq(Resources)
      BY <3>1, PipesUnwind, NamedLists
    <3> DEFINE O(x, y) == x \o y
               S == Seq(Resources)
    <3> HIDE DEF O, S
    <3>4. O(<<"main_read">>, O(joins, O(<<"reporting_read">>,
              O(<<"main_write">>, Unwind("main_pipe"))))) \in S
      <4>1. \A x, y \in S : O(x, y) \in S
        BY <3>1 DEF O, S
      <4> QED
        BY <1>3, <3>2, <3>3, <4>1 DEF S
    <3> QED
      BY <3>4 DEF O, S
  <2> HIDE DEF q
  <2> QED
    BY <2>1, <2>2, InFront, ServerResources
<1>5. "main_read" \in held /\ "reporting_write" \in held
  <2>1. /\ 18 \in DOMAIN Steps[program] /\ 18 < step
        /\ 19 \in DOMAIN Steps[program] /\ 19 < step
    BY ServerSteps DEF Fork, Last
  <2>2. /\ "main_read" \in Takes(Steps[program][18])
        /\ "reporting_write" \in Takes(Steps[program][19])
    BY ServerSteps DEF Takes, Fork
  <2>3. "main_read" \in held
    BY <2>1, <2>2, HeldBefore DEF Fork
  <2>4. "reporting_write" \in held
    BY <2>1, <2>2, HeldBefore DEF Fork
  <2> QED
    BY <2>3, <2>4
<1>6. TypeOK'
  <2>1. todo' \in Seq(Resources)
    BY <1>2 DEF Disposes
  <2>2. child_todo' \in Seq(Descriptors)
    BY DEF Fork, Descriptors
  <2> QED
    BY <2>1, <2>2, StepsDomain DEF IInv, TypeOK, Fork
<1>7. DisposalInv'
  BY <1>2 DEF DisposalInv, Fork
<1>8. NothingDangling' /\ AcquiredInv'
  BY DEF IInv, NothingDangling, AcquiredInv, Fork
<1>9. ChildInv'
  <2>1. child' = "closing" /\ step' = 0 /\ held' = held
    BY DEF Fork
  <2>2. /\ child_fds' \ {"main_read", "reporting_write"}
             \subseteq {"reporting_read", "main_write", "socket_fd"}
        /\ "reporting_write" \in child_fds'
    BY <1>5 DEF Fork, Descriptors
  <2>3. /\ DOMAIN child_todo' = 1..3
        /\ child_todo'[1] = "reporting_read"
        /\ child_todo'[2] = "main_write"
        /\ child_todo'[3] = "socket_fd"
    BY DEF Fork
  <2> QED
    BY <1>4, <1>5, <2>1, <2>2, <2>3 DEF ChildInv
<1> QED
  BY <1>6, <1>7, <1>8, <1>9 DEF IInv

LEMMA GiveBackInv == IInv /\ GiveBack => IInv'
<1> SUFFICES ASSUME IInv, GiveBack PROVE IInv'
  OBVIOUS
<1>1. Disposes(todo, held)
  BY DEF IInv, DisposalInv, GiveBack
<1>2. /\ Disposes(todo', held')
      /\ \A u \in held' \cap DOMAIN Needs : Head(todo) \notin Needs[u]
  BY <1>1, DisposesRest DEF GiveBack
<1>3. TypeOK'
  <2>1. todo' \in Seq(Resources)
    BY <1>2 DEF Disposes
  <2> QED
    BY <2>1 DEF IInv, TypeOK, GiveBack
<1>4. DisposalInv'
  BY <1>2 DEF DisposalInv, GiveBack
<1>5. NothingDangling'
  BY <1>2 DEF IInv, NothingDangling, GiveBack
<1>6. AcquiredInv'
  BY DEF AcquiredInv, GiveBack
<1>7. ChildInv'
  <2>1. child # "none" => "reporting_write" \notin held'
    BY DEF IInv, ChildInv, GiveBack
  <2> QED
    BY <2>1 DEF IInv, ChildInv, ClosedByExec, GiveBack
<1> QED
  BY <1>3, <1>4, <1>5, <1>6, <1>7 DEF IInv

LEMMA FreesArgInv == IInv /\ ThreadFreesArg => IInv'
<1> SUFFICES ASSUME IInv, ThreadFreesArg PROVE IInv'
  OBVIOUS
<1>1. TypeOK'
  BY FreedByThread DEF IInv, TypeOK, ThreadFreesArg
<1>2. ChildInv'
  BY FreedByThread DEF IInv, ChildInv, ClosedByExec, ThreadFreesArg
<1> QED
  BY <1>1, <1>2, FreedByThread DEF IInv

\* The child changes nothing of its parent's.
LEMMA ChildInvStep ==
  IInv /\ (ChildCloses \/ ChildDup \/ ChildExec \/ ChildEnds) => IInv'
<1> SUFFICES ASSUME IInv, ChildCloses \/ ChildDup \/ ChildExec \/ ChildEnds
             PROVE  IInv'
  OBVIOUS
<1>1. UNCHANGED <<program, build, step, held, todo>>
  BY DEF ChildCloses, ChildDup, ChildExec, ChildEnds
<1>2. NothingDangling' /\ DisposalInv' /\ AcquiredInv'
  BY <1>1
     DEF IInv, NothingDangling, DisposalInv, AcquiredInv, Disposes, Current
<1>3. child # "none" /\ child' # "none"
  BY DEF ChildCloses, ChildDup, ChildExec, ChildEnds
<1>4. TypeOK' /\ ChildInv'
  <2>1. CASE ChildCloses
    <3>1. /\ child_todo \in Seq(Descriptors) /\ child_todo # <<>>
          /\ child_todo' = Tail(child_todo)
          /\ child_fds' = child_fds \ {Head(child_todo)}
          /\ child' = "closing" /\ child = "closing"
      BY <2>1 DEF ChildCloses, IInv, TypeOK
    <3>2. child_todo' \in Seq(Descriptors)
      BY <3>1
    <3>3. /\ DOMAIN child_todo = 1..Len(child_todo) /\ Len(child_todo) \in Nat
          /\ DOMAIN child_todo' = 1..(Len(child_todo) - 1)
          /\ \A j \in DOMAIN child_todo' : child_todo'[j] = child_todo[j + 1]
          /\ 1 \in DOMAIN child_todo /\ Head(child_todo) = child_todo[1]
      <4>1. Len(child_todo) \in Nat \ {0}
        BY <3>1, EmptySeq, LenProperties
      <4> QED
        BY <3>1, <4>1, HeadTailProperties, LenProperties
    <3>4. ASSUME NEW d \in child_fds' \ {"main_read", "reporting_write"}
          PROVE  \E i \in DOMAIN child_todo' : child_todo'[i] = d
      <4>1. PICK i \in DOMAIN child_todo : child_todo[i] = d
        BY <3>1, <3>4 DEF IInv, ChildInv
      <4>2. i # 1
        BY <3>1, <3>3, <3>4, <4>1
      <4>3. (i - 1) \in DOMAIN child_todo' /\ (i - 1) + 1 = i
        BY <3>3, <4>1, <4>2
      <4>4. child_todo'[i - 1] = child_todo[i]
        BY <3>3, <4>3
      <4> QED
        BY <4>1, <4>3, <4>4
    <3>5. /\ "reporting_write" \in child_fds'
          /\ \A i \in DOMAIN child_todo' : child_todo'[i] # "reporting_write"
      <4>1. /\ "reporting_write" \in child_fds
            /\ \A i \in DOMAIN child_todo : child_todo[i] # "reporting_write"
        BY <3>1 DEF IInv, ChildInv
      <4>2. \A i \in DOMAIN child_todo' : i + 1 \in DOMAIN child_todo
        BY <3>3
      <4> QED
        BY <3>1, <3>3, <4>1, <4>2
    <3>6. TypeOK'
      BY <1>1, <3>1, <3>2 DEF IInv, TypeOK
    <3>7. ChildInv'
      BY <1>1, <3>1, <3>4, <3>5 DEF IInv, ChildInv
    <3> QED
      BY <3>6, <3>7
  <2>2. CASE ChildDup
    <3>1. /\ child_fds \subseteq {"main_read", "reporting_write"}
          /\ "reporting_write" \in child_fds
      BY <2>2 DEF ChildDup, IInv, ChildInv
    <3>2. TypeOK'
      BY <1>1, <2>2 DEF ChildDup, IInv, TypeOK
    <3>3. CASE child' = "exec"
      <4>1. child_fds' = (child_fds \ {"main_read"}) \cup {"stdin"}
        BY <2>2, <3>3 DEF ChildDup
      <4>2. child_fds \ {"main_read"} = {"reporting_write"}
        BY <3>1
      <4>3. child_fds' = {"stdin", "reporting_write"}
        BY <4>1, <4>2
      <4> QED
        BY <1>1, <1>3, <3>2, <3>3, <4>3 DEF IInv, ChildInv
    <3>4. CASE child' = "report"
      BY <1>1, <1>3, <3>2, <3>4 DEF IInv, ChildInv
    <3>5. child' \in {"exec", "report"}
      BY <2>2 DEF ChildDup
    <3> QED
      BY <3>2, <3>3, <3>4, <3>5
  <2>3. CASE ChildExec
    <3>1. TypeOK'
      BY <1>1, <2>3 DEF ChildExec, IInv, TypeOK
    <3>2. ChildInv'
      BY <1>1, <2>3 DEF ChildExec, ClosedByExec, IInv, ChildInv
    <3> QED
      BY <3>1, <3>2
  <2>4. CASE ChildEnds
    BY <1>1, <2>4 DEF ChildEnds, IInv, TypeOK, ChildInv
  <2> QED
    BY <2>1, <2>2, <2>3, <2>4
<1> QED
  BY <1>2, <1>4 DEF IInv

\* The inductive invariant holds.
THEOREM Invariance == Spec => []IInv
<1>1. IInv /\ [Next]_vars => IInv'
  <2> SUFFICES ASSUME IInv, [Next]_vars PROVE IInv'
    OBVIOUS
  <2>1. CASE UNCHANGED vars
    BY <2>1 DEF vars, IInv, TypeOK, NothingDangling, DisposalInv, Disposes,
                AcquiredInv, ChildInv, ClosedByExec, Current
  <2> QED
    BY <2>1, AcquireInv, FailInv, StartedInv, ForkInv, GiveBackInv, FreesArgInv,
       ChildInvStep DEF Next
<1> QED
  BY <1>1, InitInv, PTL DEF Spec

-----------------------------------------------------------------------------
(* The theorems.                                                           *)

\* Every list holds resources only, whatever is given back.
THEOREM TypeCorrect == Spec => []TypeOK
<1>1. IInv => TypeOK
  BY DEF IInv
<1> QED
  BY <1>1, Invariance, PTL

\* Whichever steps fail, and at a regular end, everything that was acquired has
\* been given back, and the threads of a client have freed what is theirs.
THEOREM AllGivenBack == Spec => []NothingLeft
<1>1. IInv => NothingLeft
  <2> SUFFICES ASSUME IInv, step = 0, todo = <<>> PROVE held = {}
    BY DEF NothingLeft
  <2>1. Disposes(<<>>, held)
    BY DEF IInv, DisposalInv
  <2>2. \A r \in held : \E t \in held \cap DOMAIN ArgOf : ArgOf[t] = r
    BY <2>1 DEF Disposes
  <2>3. \A t \in DOMAIN ArgOf : ArgOf[t] \notin DOMAIN ArgOf
    BY DEF ArgOf
  <2> QED
    BY <2>2, <2>3
<1> QED
  BY <1>1, Invariance, PTL

\* Nothing but a thread is given back that is not held, so nothing twice.
THEOREM GivenBackOnce == Spec => []NothingTwice
<1>1. IInv => NothingTwice
  <2> SUFFICES ASSUME IInv, step = 0, todo # <<>>
               PROVE  Head(todo) \in held \cup Threads
    BY DEF NothingTwice
  <2>1. Disposes(todo, held) /\ todo \in Seq(Resources)
    BY DEF IInv, DisposalInv, TypeOK
  <2>2. 1 \in DOMAIN todo /\ Head(todo) = todo[1]
    <3>1. Len(todo) \in Nat \ {0}
      BY <2>1, EmptySeq, LenProperties
    <3> QED
      BY <2>1, <3>1, LenProperties
  <2> QED
    BY <2>1, <2>2 DEF Disposes
<1> QED
  BY <1>1, Invariance, PTL

\* No thread outlives what it uses, and no lock the memory it is in.
THEOREM NoneDangles == Spec => []NothingDangling
<1>1. IInv => NothingDangling
  BY DEF IInv
<1> QED
  BY <1>1, Invariance, PTL

\* The program gets its end of file, and the parent the end of the report, but
\* for the writing end that a build without pipe2(2) leaves to the program.
THEOREM BothPipesEnd == Spec => []PipesEnd
<1>1. IInv => PipesEnd
  BY DEF IInv, ChildInv, ClosedByExec, PipesEnd
<1> QED
  BY <1>1, Invariance, PTL

=============================================================================
