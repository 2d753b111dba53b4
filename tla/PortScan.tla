------------------------------ MODULE PortScan ------------------------------
(***************************************************************************)
(* The probes of week 5 that ask UDP ports one after the other and         *)
(* attribute what they hear: the loops of vika5/scanner.cpp, scanner1.cpp  *)
(* and scannernew.cpp, identify_ports of vika5/chat.cpp, and               *)
(* identify_port_with_retry as the first loop of main() in                 *)
(* vika5/puzzlesolver.cpp calls it.                                        *)
(*                                                                         *)
(* None of them looks at the port a datagram came from: it is taken for    *)
(* the answer of the port being asked if it reaches the local port the    *)
(* socket has.  How long a socket lives decides what can go wrong:         *)
(* scanner1 keeps one for the whole scan, identify_port_with_retry opens   *)
(* one per attempt, the others one per port.  Its local port is the        *)
(* kernel's choice, the answers are the services' (both external).         *)
(***************************************************************************)
EXTENDS Integers, Sequences

CONSTANTS
  Programs,    \* which of the five are looked at
  NumPorts,    \* ports to probe: low to high, or the four arguments
  Responders,  \* what responders may be
  Locals,      \* local ports the kernel gives to sockets
  Networks,    \* what wild may be
  Leftovers    \* what a scan of the same ports before may have left under way

ASSUME ProbeAssumption ==
  /\ Programs \subseteq
       {"scanner1", "scanner", "scannernew", "chat", "identify"}
  /\ NumPorts \in Nat \ {0}
  /\ Responders \subseteq SUBSET (1..NumPorts)
  /\ Networks \subseteq BOOLEAN
  /\ Leftovers \subseteq SUBSET [port : 1..NumPorts, local : Locals]

VARIABLES
  program,
  wild,      \* the network: TRUE when datagrams may also be late, duplicated
             \* and reordered, FALSE when they arrive in time and once, or
             \* never; it does not change
  responders,  \* ports that answer a greeting; they do not change
  leftover,  \* greetings to an earlier scan, as master.sh runs one directly
             \* before the solver, under way when this one starts; it does
             \* not change
  pc,        \* "open" a socket, "send", "wait" for an answer, or "done"
  port,
  attempt,
  local,     \* local port of the socket
  heard,     \* the answers the program counts: port asked, port it came from
  requests,  \* datagrams under way to the ports
  replies,   \* datagrams under way to local ports
  asked,     \* history: ports, each with the local ports it was asked from
  failed     \* history: how many attempts at a port, from the first on, have
             \* ended without an answer

history == <<asked, failed>>
vars == <<program, wild, responders, leftover, pc, port, attempt, local,
          heard, requests, replies, history>>

Ports == 1..NumPorts

\* A request to a port, or its answer, by the local port of the socket.
Probes == [port : Ports, local : Locals]

Attempts ==
  CASE program = "scanner" -> 2
    [] program = "identify" -> 3
    [] OTHER -> 1

\* Every variable stays in its range.
TypeOK ==
  /\ program \in Programs
  /\ wild \in BOOLEAN
  /\ responders \subseteq Ports
  /\ pc \in {"open", "send", "wait", "done"}
  /\ port \in 1..(NumPorts + 1)
  /\ pc # "done" => port \in Ports
  /\ attempt \in 0..(Attempts - 1)
  /\ pc \in {"send", "wait"} => local \in Locals
  /\ heard \in Seq([port : Ports, from : Ports])
  /\ leftover \subseteq Probes
  /\ requests \subseteq Probes
  /\ replies \subseteq Probes
  /\ asked \subseteq Probes
  /\ failed \in [Ports -> 0..Attempts]

\* scanner1 exits unless its socket can be opened.  In a wild network answers
\* to an earlier scan may still be under way to local ports it has used.
Init ==
  /\ program \in Programs
  /\ wild \in Networks
  /\ responders \in Responders
  /\ pc = "open"
  /\ port = 1
  /\ attempt = 0
  /\ local = 0
  /\ heard = <<>>
  /\ leftover \in IF wild THEN Leftovers ELSE {{}}
  /\ requests = {}
  /\ replies = leftover
  /\ asked = {}
  /\ failed = [p \in Ports |-> 0]

-----------------------------------------------------------------------------
(* The network.                                                            *)

\* What is left of a set of datagrams when one of them has been delivered.
After(datagrams, m) == IF wild THEN datagrams ELSE datagrams \ {m}

\* What is still under way when a receive timeout has passed.
Outlives(datagrams) == IF wild THEN datagrams ELSE {}

\* A service greets whoever sent to it; other ports are silent.
Answer(q) ==
  /\ q \in requests
  /\ q.port \in responders
  /\ requests' = After(requests, q)
  /\ replies' = replies \cup {q}
  /\ UNCHANGED <<program, wild, responders, leftover, pc, port, attempt,
                 local, heard, history>>

-----------------------------------------------------------------------------
(* The loops.                                                              *)

\* The loop over the ports goes on: scanner1 keeps its socket.
NextPort ==
  /\ port' = port + 1
  /\ attempt' = 0
  /\ pc' = IF port = NumPorts THEN "done"
           ELSE IF program = "scanner1" THEN "send" ELSE "open"

AttemptsLeft == attempt + 1 < Attempts

\* Seeded fault: the counter of the attempts is not advanced.
SameAttempt == attempt

NextAttempt == attempt + 1

\* An attempt brought nothing.
TryAgain ==
  \/ /\ AttemptsLeft
     /\ attempt' = NextAttempt
     /\ pc' = IF program = "identify" THEN "open" ELSE "send"
     /\ UNCHANGED port
  \/ ~AttemptsLeft /\ NextPort

Open ==
  /\ pc = "open"
  /\ local' \in Locals
  /\ pc' = "send"
  /\ UNCHANGED <<program, wild, responders, leftover, port, attempt, heard,
                 requests, replies, history>>

\* identify_port_with_retry gives the attempt up, the others the port.
OpenFails ==
  /\ pc = "open"
  /\ \/ /\ program \in {"scanner", "scannernew", "chat"}
        /\ failed' = [failed EXCEPT ![port] = Attempts]
        /\ NextPort
     \/ /\ program = "identify"
        /\ failed' = [failed EXCEPT ![port] = attempt + 1]
        /\ TryAgain
  /\ UNCHANGED <<program, wild, responders, leftover, local, heard, requests,
                 replies, asked>>

\* The datagram of the present attempt.
Hello == [port |-> port, local |-> local]

Send ==
  /\ pc = "send"
  /\ requests' = requests \cup {Hello}
  /\ asked' = asked \cup {Hello}
  /\ pc' = "wait"
  /\ UNCHANGED <<program, wild, responders, leftover, port, attempt, local,
                 heard, replies, failed>>

\* scanner1 skips the port; the others do not look and wait in vain.
SendFails ==
  /\ pc = "send"
  /\ IF program = "scanner1"
     THEN /\ failed' = [failed EXCEPT ![port] = attempt + 1]
          /\ NextPort
          /\ UNCHANGED asked
     ELSE /\ pc' = "wait"
          /\ asked' = asked \cup {Hello}
          /\ UNCHANGED <<port, attempt, failed>>
  /\ UNCHANGED <<program, wild, responders, leftover, local, heard, requests,
                 replies>>

\* Seeded fault: an answer does not end the attempts at its port.
KeepsTrying == TryAgain

Found == NextPort

\* Seeded fault: the loop has moved on when the port is stored.
CountedLate(m) == [port |-> port + 1, from |-> m.port]

Counted(m) == [port |-> port, from |-> m.port]

Receive(m) ==
  /\ pc = "wait"
  /\ m.local = local
  /\ heard' = Append(heard, Counted(m))
  /\ replies' = After(replies, m)
  /\ Found
  /\ UNCHANGED <<program, wild, responders, leftover, local, requests,
                 history>>

\* Seeded fault: the timeout is mistaken for an answer of the port.
MistakenTimeout == Append(heard, [port |-> port, from |-> port])

HeardNothing == heard

\* recvfrom() ends by its timeout.
Timeout ==
  /\ pc = "wait"
  /\ heard' = HeardNothing
  /\ failed' = [failed EXCEPT ![port] = attempt + 1]
  /\ requests' = Outlives(requests)
  /\ replies' = Outlives(replies)
  /\ TryAgain
  /\ UNCHANGED <<program, wild, responders, leftover, local, asked>>

Probe ==
  \/ Open
  \/ OpenFails
  \/ Send
  \/ SendFails
  \/ \E m \in replies : Receive(m)
  \/ Timeout

Next == Probe \/ \E q \in requests : Answer(q)

Spec == Init /\ [][Next]_vars

\* The program runs: a blocked recvfrom() ends by its timeout.
FairSpec == Spec /\ WF_vars(Probe)

-----------------------------------------------------------------------------

\* The two ports have been asked from one local port, by this scan or by the
\* one before.
FromOneLocal(p, q) ==
  \E l \in Locals :
    {[port |-> p, local |-> l], [port |-> q, local |-> l]}
      \subseteq asked \cup leftover

\* Whatever a program counts as the answer of a port came from that port,
\* unless it is late and this very port and the one it came from were asked
\* from one local port: always so in scanner1, in the others only when the
\* kernel gives one out twice.
AnswersArePorts ==
  \A k \in 1..Len(heard) :
    heard[k].port # heard[k].from =>
      wild /\ FromOneLocal(heard[k].port, heard[k].from)

\* No port is counted twice, and ports are counted in the order asked: the
\* list is a fit argument list for puzzlesolver.
CountedOnce ==
  \A j, k \in 1..Len(heard) : j < k => heard[j].port < heard[k].port

IsHeardFrom(p) == \E k \in 1..Len(heard) : heard[k].from = p

\* A port has been asked from a local port to which the earlier scan left the
\* greeting of a port that is asked later.
LeftoverMet ==
  \E a \in asked, m \in leftover : a.local = m.local /\ a.port < m.port

\* When every port that is asked has been heard from, as the solver demands of
\* its four before it goes on, each greeting is put down to the port it came
\* from: a late one of this scan can only stand for a port that is asked later,
\* and then that port's own is missing.  Only the greeting of a later port that
\* an earlier scan left under way can make up for it.
AllFoundAreRight ==
  (\A p \in Ports : IsHeardFrom(p)) /\ ~LeftoverMet
    => \A k \in 1..Len(heard) : heard[k].port = heard[k].from

IsCounted(p) == \E k \in 1..Len(heard) : heard[k].port = p

\* When the scan is over a port that answers is missing exactly if every one
\* of its attempts failed: fewer losses than attempts do no harm.
MissedOnlyIfAllFailed ==
  pc = "done" => \A p \in Ports : IsCounted(p) <=> failed[p] < Attempts

\* A scan ends, whatever the network does.
Ends == <>(pc = "done")

-----------------------------------------------------------------------------
(* The inductive invariant.                                                *)

\* A datagram under way was sent, by this scan or the one before, and without a
\* wild network there is at most one, of the present attempt.
NetworkInv ==
  /\ requests \subseteq asked
  /\ replies \subseteq asked \cup leftover
  /\ pc = "wait" => Hello \in asked
  /\ ~wild =>
       /\ leftover = {}
       /\ pc # "wait" => requests = {} /\ replies = {}
       /\ pc = "wait" => requests \cup replies \subseteq {Hello}
       /\ requests = {} \/ replies = {}

\* The ports counted so far come before the present one, of which every
\* attempt so far has failed, and those before it are settled.
LoopInv ==
  /\ pc = "done" <=> port > NumPorts
  /\ \A k \in 1..Len(heard) : heard[k].port < port
  /\ \A p \in Ports :
       /\ p < port => (IsCounted(p) <=> failed[p] < Attempts)
       /\ p = port => failed[p] = attempt
       /\ p > port => failed[p] = 0

\* But for what an earlier scan left, nothing comes from a port before it is
\* asked, so the ports asked so far are all heard from only if each was heard
\* from in its turn.
TurnInv ==
  /\ \A a \in asked : a.port <= port
  /\ ~LeftoverMet =>
       /\ \A k \in 1..Len(heard) : heard[k].from <= heard[k].port
       /\ (\A p \in 1..(port - 1) : IsHeardFrom(p))
            => \A k \in 1..Len(heard) : heard[k].port = heard[k].from

\* Inductive: every step of the program and the network keeps it.
IInv ==
  /\ TypeOK
  /\ NetworkInv
  /\ LoopInv
  /\ TurnInv
  /\ AnswersArePorts
  /\ CountedOnce
=============================================================================
