------------------------------ MODULE Console ------------------------------
(***************************************************************************)
(* What a usockit server promises to the reader of the child program's     *)
(* standard input (README.md, "A Solution"; CHANGELOG.md, v0.1.0-indev02): *)
(* the stream is a concatenation of sessions.  A session belongs to one    *)
(* client, at most one is open at a time, no client gets two, and within   *)
(* it the client's data arrives in order and without a gap.  A client that *)
(* was sent away, or whose session is over, contributes nothing more.      *)
(***************************************************************************)
EXTENDS Naturals, Sequences

CONSTANTS Clients, NoClient

VARIABLES
  session,    \* the client whose data is being forwarded
  progress,   \* chunks of it forwarded in this session
  finished,   \* clients that can have no session any more
  delivered   \* everything the child's standard input was given

vars == <<session, progress, finished, delivered>>

Init ==
  /\ session = NoClient
  /\ progress = 0
  /\ finished = {}
  /\ delivered = <<>>

Begin(c) ==
  /\ session = NoClient
  /\ c \notin finished
  /\ session' = c
  /\ UNCHANGED <<progress, finished, delivered>>

Deliver ==
  /\ session # NoClient
  /\ progress' = progress + 1
  /\ delivered' = Append(delivered, <<session, progress + 1>>)
  /\ UNCHANGED <<session, finished>>

End ==
  /\ session # NoClient
  /\ session' = NoClient
  /\ progress' = 0
  /\ finished' = finished \cup {session}
  /\ UNCHANGED delivered

\* Clients are rejected, dropped or left behind by a server that ends.
Dismiss(S) ==
  /\ session \notin S
  /\ finished' = finished \cup S
  /\ UNCHANGED <<session, progress, delivered>>

Next ==
  \/ \E c \in Clients : Begin(c)
  \/ Deliver
  \/ End
  \/ \E S \in SUBSET Clients : Dismiss(S)

Spec == Init /\ [][Next]_vars

\* What the reader can rely on: a chunk comes directly after the one before it
\* of the same client, and none comes twice, so that each client's data is one
\* uninterrupted stretch of the input that begins with its first chunk.
WholeSessions ==
  /\ \A i \in DOMAIN delivered :
       \/ delivered[i][2] = 1
       \/ i > 1 /\ delivered[i - 1] = <<delivered[i][1], delivered[i][2] - 1>>
  /\ \A i, j \in DOMAIN delivered : delivered[i] = delivered[j] => i = j

=============================================================================
