--------------------------- MODULE CommandService ---------------------------
(***************************************************************************)
(* What the select servers of week 1 promise their clients, with no        *)
(* descriptors, no sets and no rounds: connections are admitted in the     *)
(* order they arrived, an admitted client's request is served in the end,  *)
(* and a connection is released after its client has hung up and every     *)
(* request it sent has been served.  All of it holds until a client that   *)
(* has left while it was being served breaks the service.                  *)
(***************************************************************************)
EXTENDS Integers, Sequences

CONSTANTS
  Conns,   \* connections clients may open, each used once
  Room     \* how many connections may wait to be admitted

VARIABLES
  line,      \* connections waiting to be admitted, oldest first
  admitted,  \* connections being served
  released,  \* connections the service has closed
  asked,     \* connections with a request not yet served
  left,      \* connections whose client has hung up
  down       \* the service has broken down

vars == <<line, admitted, released, asked, left, down>>

Waiting(c) == \E i \in 1..Len(line) : line[i] = c

Init ==
  /\ line = <<>>
  /\ admitted = {}
  /\ released = {}
  /\ asked = {}
  /\ left = {}
  /\ down = FALSE

Arrive(c) ==
  /\ c \notin admitted \cup released
  /\ ~Waiting(c)
  /\ Len(line) < Room
  /\ line' = Append(line, c)
  /\ UNCHANGED <<admitted, released, asked, left, down>>

Ask(c) ==
  /\ Waiting(c) \/ c \in admitted
  /\ c \notin left
  /\ asked' = asked \cup {c}
  /\ UNCHANGED <<line, admitted, released, left, down>>

Leave(c) ==
  /\ Waiting(c) \/ c \in admitted
  /\ left' = left \cup {c}
  /\ UNCHANGED <<line, admitted, released, asked, down>>

Admit ==
  /\ ~down
  /\ line # <<>>
  /\ admitted' = admitted \cup {Head(line)}
  /\ line' = Tail(line)
  /\ UNCHANGED <<released, asked, left, down>>

Serve(c) ==
  /\ ~down
  /\ c \in admitted \cap asked
  /\ asked' = asked \ {c}
  /\ UNCHANGED <<line, admitted, released, left, down>>

Release(c) ==
  /\ ~down
  /\ c \in (admitted \cap left) \ asked
  /\ admitted' = admitted \ {c}
  /\ released' = released \cup {c}
  /\ UNCHANGED <<line, asked, left, down>>

Break(c) ==
  /\ ~down
  /\ c \in admitted \cap left
  /\ down' = TRUE
  /\ UNCHANGED <<line, admitted, released, asked, left>>

Next ==
  \/ Admit
  \/ \E c \in Conns : \/ Arrive(c) \/ Ask(c) \/ Leave(c)
                      \/ Serve(c) \/ Release(c) \/ Break(c)

Spec == Init /\ [][Next]_vars

\* Nobody who has come waits for ever, whatever the others do.
Fairness ==
  /\ WF_vars(Admit)
  /\ \A c \in Conns : WF_vars(Serve(c)) /\ WF_vars(Release(c))

FairSpec == Spec /\ Fairness
=============================================================================
