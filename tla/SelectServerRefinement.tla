----------------------- MODULE SelectServerRefinement -----------------------
(***************************************************************************)
(* The select server implements CommandService: the accept queue is the    *)
(* line, a connection is admitted while a descriptor is open on it, its    *)
(* request is served when recv() has taken all of it, and SIGPIPE is the   *)
(* breakdown.                                                              *)
(***************************************************************************)
EXTENDS SelectServer

Admitted == {c \in Conns : \E f \in ClientFds : owner[f] = c}
Released == {c \in Conns : peer[c] # "idle" /\ ~Attached(c)}
Asked == {c \in Conns : pending[c] > 0}
Left == {c \in Conns : peer[c] \in Gone}
Down == pc = "killed"

Service == INSTANCE CommandService WITH
  Room <- Backlog + 1,
  line <- queue,
  admitted <- Admitted,
  released <- Released,
  asked <- Asked,
  left <- Left,
  down <- Down

\* Every client is admitted in order, served and released, and none is released
\* before it has left, unless one that left has ended the server by SIGPIPE.
\* One thread that runs whenever it can gives each of them its own fairness,
\* unless one of them holds it up for ever.
ServiceSpec == Service!Spec /\ (<>[]Occupied \/ Service!Fairness)
=============================================================================
