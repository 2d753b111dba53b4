--------------------------- MODULE DatagramExample ---------------------------
(***************************************************************************)
(* The UDP example of week 7: vika7/example_client.cpp sends its list of   *)
(* messages over a connected socket, vika7/example_server.cpp prints what  *)
(* reaches its socket until an empty datagram does.  Any number of clients *)
(* may run at a time; nothing is acknowledged or repeated.                 *)
(*                                                                         *)
(* A message is its place in the list; of its text the length counts.      *)
(***************************************************************************)
EXTENDS Integers, Sequences

CONSTANTS
  Clients,
  Messages,    \* lengths of the messages, in the order of the list
  BufferSize,  \* bytes the server has room for: 25
  Room,        \* datagrams the server's socket holds unread
  Networks     \* what wild may be

ASSUME ExampleAssumption ==
  /\ Messages \in Seq(Nat)
  /\ Messages # <<>>
  /\ BufferSize \in Nat \ {0}
  /\ Room \in Nat
  /\ Networks \subseteq BOOLEAN

VARIABLES
  wild,     \* the network: TRUE when it delays, reorders and loses, FALSE when
            \* a datagram reaches the server's socket in the call that sends
            \* it; it does not change
  server,   \* "unbound", "receiving", "done" or "failed"
  unread,   \* datagrams in the server's socket, oldest first
  printed,  \* what the server has printed
  client,   \* of each client: "sending", "done" or "failed"
  next,     \* of each client: the message it sends next
  refused,  \* clients whose socket holds "connection refused"
  flight,   \* datagrams on their way
  lost      \* history: datagrams that found no server or no room

vars == <<wild, server, unread, printed, client, next, refused, flight, lost>>

Numbers == 1..Len(Messages)
Datagrams == [client : Clients, msg : Numbers]
Lines == [client : Clients, msg : Numbers, length : 1..BufferSize]

\* Every variable stays in its range.
TypeOK ==
  /\ wild \in BOOLEAN
  /\ server \in {"unbound", "receiving", "done", "failed"}
  /\ unread \in Seq(Datagrams)
  /\ printed \in Seq(Lines)
  /\ client \in [Clients -> {"sending", "done", "failed"}]
  /\ next \in [Clients -> 1..(Len(Messages) + 1)]
  /\ \A c \in Clients : client[c] = "sending" => next[c] \in Numbers
  /\ refused \subseteq Clients
  /\ flight \subseteq Datagrams
  /\ lost \subseteq Datagrams

Init ==
  /\ wild \in Networks
  /\ server = "unbound"
  /\ unread = <<>>
  /\ printed = <<>>
  /\ client = [c \in Clients |-> "sending"]
  /\ next = [c \in Clients |-> 1]
  /\ refused = {}
  /\ flight = {}
  /\ lost = {}

\* A datagram reaches the server's host.  Without a socket it is answered by
\* "port unreachable", which a wild network may lose like anything else.
Reach(d) ==
  IF server = "receiving"
  THEN /\ IF Len(unread) < Room
          THEN unread' = Append(unread, d) /\ UNCHANGED lost
          ELSE lost' = lost \cup {d} /\ UNCHANGED unread
       /\ UNCHANGED refused
  ELSE /\ lost' = lost \cup {d}
       /\ \/ refused' = refused \cup {d.client}
          \/ wild /\ UNCHANGED refused
       /\ UNCHANGED unread

Deliver(d) ==
  /\ d \in flight
  /\ flight' = flight \ {d}
  /\ Reach(d)
  /\ UNCHANGED <<wild, server, printed, client, next>>

-----------------------------------------------------------------------------
(* The client.                                                             *)

\* The list is sent in order; the socket is closed after the last message.
Send(c) ==
  LET d == [client |-> c, msg |-> next[c]] IN
  /\ client[c] = "sending"
  /\ c \notin refused
  /\ next' = [next EXCEPT ![c] = @ + 1]
  /\ client' =
       [client EXCEPT ![c] = IF next[c] = Len(Messages) THEN "done" ELSE @]
  /\ IF wild
     THEN flight' = flight \cup {d} /\ UNCHANGED <<unread, refused, lost>>
     ELSE Reach(d) /\ UNCHANGED flight
  /\ UNCHANGED <<wild, server, printed>>

\* send() reports an earlier refusal, or an error of its own.
SendFails(c) ==
  /\ client[c] = "sending"
  /\ client' = [client EXCEPT ![c] = "failed"]
  /\ UNCHANGED <<wild, server, unread, printed, next, refused, flight, lost>>

Client(c) == Send(c) \/ SendFails(c)

-----------------------------------------------------------------------------
(* The server.                                                             *)

\* socket() and bind().
Bind ==
  /\ server = "unbound"
  /\ server' \in {"receiving", "failed"}
  /\ UNCHANGED <<wild, unread, printed, client, next, refused, flight, lost>>

OldestUnread == Head(unread)

\* Seeded fault: only an error ends the loop.
NeverEnds(n) == FALSE

\* The condition of the loop, with the number of bytes received.
EndsLoop(n) == n = 0

\* Seeded fault: the length of the message, as with MSG_TRUNC.
Uncut(d) == Messages[d.msg]

\* recv() cuts what is longer than the buffer off.
Received(d) ==
  IF Messages[d.msg] > BufferSize THEN BufferSize ELSE Messages[d.msg]

Receive ==
  LET d == OldestUnread
      n == Received(d)
  IN
  /\ server = "receiving"
  /\ unread # <<>>
  /\ IF EndsLoop(n)
     THEN server' = "done" /\ UNCHANGED printed
     ELSE /\ printed' =
               Append(printed, [client |-> d.client, msg |-> d.msg, length |-> n])
          /\ UNCHANGED server
  /\ unread' = Tail(unread)
  /\ UNCHANGED <<wild, client, next, refused, flight, lost>>

\* An error of recv() ends the server, with status 0.
ReceiveFails ==
  /\ server = "receiving"
  /\ server' = "failed"
  /\ UNCHANGED <<wild, unread, printed, client, next, refused, flight, lost>>

Server == Bind \/ Receive \/ ReceiveFails

Next ==
  \/ Server
  \/ \E c \in Clients : Client(c)
  \/ \E d \in flight : Deliver(d)

Spec == Init /\ [][Next]_vars

\* Server and clients run; the network owes nobody a delivery.
FairSpec ==
  /\ Spec
  /\ WF_vars(Bind)
  /\ WF_vars(Receive)
  /\ \A c \in Clients : WF_vars(Client(c))

-----------------------------------------------------------------------------

IsPrinted(c, m) ==
  \E k \in 1..Len(printed) : printed[k].client = c /\ printed[k].msg = m

\* On one host each client's messages are printed in the order of its list,
\* and one before them is missing only if the socket had no room for it or the
\* server was not there yet: what follows the empty message is printed only
\* if the empty one was lost.
PrintedAsSent ==
  ~wild => \A k \in 1..Len(printed) :
    LET c == printed[k].client IN
    /\ \A j \in 1..(k - 1) :
         printed[j].client = c => printed[j].msg < printed[k].msg
    /\ \A m \in 1..(printed[k].msg - 1) :
         \/ [client |-> c, msg |-> m] \in lost
         \/ IsPrinted(c, m) /\ Messages[m] # 0

\* On one host the server ends, unless an empty message was lost or a client
\* failed before it: then it is blocked in recv() for ever.
EndsUnlessLost ==
  ~wild => <>(\/ server \in {"done", "failed"}
              \/ \E c \in Clients : client[c] = "failed"
              \/ \E d \in lost : Messages[d.msg] = 0)

-----------------------------------------------------------------------------
(* The inductive invariant.                                                *)

\* On one host what a client has sent is lost, unread or printed while the
\* server reads, and what is unread of a client is in order and comes after
\* what is printed.
LocalInv ==
  /\ flight = {}
  /\ \A k \in 1..Len(unread) :
       LET d == unread[k] IN
       /\ d.msg < next[d.client]
       /\ \A j \in 1..(k - 1) :
            unread[j].client = d.client => unread[j].msg < d.msg
       /\ \A j \in 1..Len(printed) :
            printed[j].client = d.client => printed[j].msg < d.msg
  /\ \A k \in 1..Len(printed) : printed[k].msg < next[printed[k].client]
  /\ server \in {"unbound", "receiving"} =>
       \A c \in Clients : \A m \in 1..(next[c] - 1) :
         \/ [client |-> c, msg |-> m] \in lost
         \/ IsPrinted(c, m)
         \/ \E k \in 1..Len(unread) : unread[k] = [client |-> c, msg |-> m]

\* Inductive: every step of server, clients and network keeps it.  A line is
\* as long as its message, or as the buffer.
IInv ==
  /\ TypeOK
  /\ ~wild => LocalInv
  /\ PrintedAsSent
  /\ \A k \in 1..Len(printed) : printed[k].length = Received(printed[k])
=============================================================================
