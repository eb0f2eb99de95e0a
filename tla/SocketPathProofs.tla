-------------------------- MODULE SocketPathProofs --------------------------
(***************************************************************************)
(* Proofs about SocketPath, for any number of servers.                     *)
(***************************************************************************)
EXTENDS SocketPath, TLAPS

\* The inductive invariant: a pathname of a server's making belongs to the one
\* server that is past its bind and short of its unlink, or was killed there.
PathInv == TypeOK /\ BoundServerIsReachable /\ StaleOnlyAfterKill

\* Each step of one server preserves it.  The steps that write the pathname
\* either find nobody's there (Bind) or their own (Undo, Unlink).
LEMMA PathInvStep == PathInv /\ [Next]_vars => PathInv'
<1> SUFFICES ASSUME PathInv, [Next]_vars PROVE PathInv'
  OBVIOUS
<1> USE SocketPathAssumption
      DEF PathInv, TypeOK, BoundServerIsReachable, StaleOnlyAfterKill, ServerSteps
<1>1. ASSUME NEW s \in Servers, Bind(s) PROVE PathInv'
  BY <1>1 DEF Bind, Goto
<1>2. ASSUME NEW s \in Servers, Listen(s) PROVE PathInv'
  BY <1>2 DEF Listen, Goto
<1>3. ASSUME NEW s \in Servers, Undo(s) PROVE PathInv'
  BY <1>3 DEF Undo, Goto
<1>4. ASSUME NEW s \in Servers, Run(s) PROVE PathInv'
  BY <1>4 DEF Run, Goto
<1>5. ASSUME NEW s \in Servers, Unlink(s) PROVE PathInv'
  BY <1>5 DEF Unlink, Goto
<1>6. ASSUME NEW s \in Servers, Close(s) PROVE PathInv'
  BY <1>6 DEF Close, Goto
<1>7. ASSUME NEW s \in Servers, Kill(s) PROVE PathInv'
  BY <1>7 DEF Kill, Alive
<1>8. CASE UNCHANGED vars
  BY <1>8 DEF vars
<1> QED
  BY <1>1, <1>2, <1>3, <1>4, <1>5, <1>6, <1>7, <1>8 DEF Next

\* The inductive invariant holds of any number of servers on one pathname.
THEOREM PathInvariance == Spec => []PathInv
<1>1. Init => PathInv
  BY SocketPathAssumption
     DEF Init, PathInv, TypeOK, BoundServerIsReachable, StaleOnlyAfterKill,
         ServerSteps
<1> QED
  BY <1>1, PathInvStep, PTL DEF Spec

\* A server that bound the pathname keeps it until it unlinks it itself.
THEOREM Reachable == Spec => []BoundServerIsReachable
<1>1. PathInv => BoundServerIsReachable
  BY DEF PathInv
<1> QED
  BY <1>1, PathInvariance, PTL

\* Only a killed server leaves the pathname behind.
THEOREM Stale == Spec => []StaleOnlyAfterKill
<1>1. PathInv => StaleOnlyAfterKill
  BY DEF PathInv
<1> QED
  BY <1>1, PathInvariance, PTL

\* A file that is no server's is never removed: the steps that unlink are
\* taken only by a server whose socket the pathname names.
THEOREM ForeignKept == Spec => ForeignFileKept
<1>1. PathInv /\ [Next]_vars => [path = Foreign => path' = Foreign]_vars
  <2> SUFFICES ASSUME PathInv, Next, path = Foreign PROVE path' = Foreign
    BY DEF vars
  <2>1. PICK s \in Servers :
          Bind(s) \/ Listen(s) \/ Undo(s) \/ Run(s) \/ Unlink(s) \/ Close(s)
            \/ Kill(s)
    BY DEF Next
  <2>2. pc[s] \notin {"undo", "unlink"}
    BY SocketPathAssumption DEF PathInv, BoundServerIsReachable
  <2> QED
    BY <2>1, <2>2, SocketPathAssumption
       DEF Bind, Listen, Undo, Run, Unlink, Close, Kill, Goto
<1> QED
  BY <1>1, PathInvariance, PTL DEF Spec, ForeignFileKept

=============================================================================
