---------------------------- MODULE SelectServer ----------------------------
(***************************************************************************)
(* The TCP command server of week 1: vika1/server_modified.cpp and, for    *)
(* the one function in which they differ, vika1/server.cpp.                *)
(*                                                                         *)
(* A single thread runs rounds.  A round copies openSockets, blocks in     *)
(* select(), accepts at most one connection, then walks the clients map in *)
(* ascending descriptor order and reads once from every descriptor         *)
(* select() reported.  Descriptors closed on the way stay in the map until *)
(* the walk is over.  The kernel (accept queue, lowest-free descriptor     *)
(* allocation, socket buffers) and the remote ends take steps between any  *)
(* two steps of the server.                                                *)
(*                                                                         *)
(* Text is abstracted to the connection it came from: one unit of request  *)
(* text is the name of its sender, so that buffer says whose bytes         *)
(* clientCommand is about to interpret.  What a command prints is a number *)
(* of units.  Out-of-band data (exceptSockets) is never sent.              *)
(***************************************************************************)
EXTENDS Integers, Sequences, FiniteSets, FiniteSetsExt

CONSTANTS
  Conns,        \* connections remote ends may open, each used once
  NoConn,       \* the owner of a descriptor that is not open
  ListenSock,   \* descriptor of the listening socket; lower ones are std
  MaxFd,        \* largest descriptor RLIMIT_NOFILE allows
  Backlog,      \* #define BACKLOG
  MaxMsg,       \* most units of request text a recv() finds
  RecvCap,      \* most units a recv() takes: sizeof(buffer)
  MaxOutput,    \* most units a command prints
  SndCap,       \* reply units the kernel holds for a peer before send blocks
  MinusOneBit,  \* the bit FD_SET(-1, ...) touches: 63 on x86-64
  StackBits,    \* contents openSockets may have before the first FD_SET
  StackLens,    \* whether the uninitialised clientLen is usable by accept()
  AcceptErrors, \* TRUE: accept() may also fail with ENFILE or ENOMEM
  Popen         \* TRUE: server_modified.cpp; FALSE: server.cpp

ASSUME ConnsAssumption == NoConn \notin Conns
ASSUME FdAssumption ==
  /\ ListenSock \in Nat
  /\ MaxFd \in Nat
  /\ MinusOneBit \in Nat
  /\ ListenSock < MinusOneBit
  /\ StackBits \subseteq SUBSET Nat
  /\ StackLens \subseteq BOOLEAN
ASSUME BoundAssumption ==
  /\ Backlog \in Nat
  /\ MaxMsg \in Nat \ {0}
  /\ RecvCap \in Nat \ {0}
  /\ MaxOutput \in Nat
  /\ SndCap \in Nat \ {0}
  /\ AcceptErrors \in BOOLEAN
  /\ Popen \in BOOLEAN

VARIABLES
  owner,        \* kernel: descriptor -> connection it is open on, or NoConn
  queue,        \* kernel: accept queue of the listening socket
  pending,      \* kernel: connection -> units of request text not yet read
  unread,       \* kernel: connection -> units of reply its peer has not read
  peer,         \* kernel: connection -> what its remote end has done
  pc,           \* where the server's thread is
  clients,      \* keys of the clients map; Client::sock equals its key
  openSockets,
  readSockets,
  maxfds,
  n,
  cursor,       \* key the walk over clients is at
  clientSocketsToClear,
  buffer,       \* text in buffer up to its first NUL, unit by unit
  unsent,       \* units of a reply send() has not accepted yet
  clientLenOK   \* clientLen is not negative when read as an int

sets == <<clients, openSockets, readSockets, maxfds, clientSocketsToClear>>
walk == <<n, cursor>>
text == <<buffer, unsent, clientLenOK>>
serverVars == <<pc, sets, walk, text>>
kernelVars == <<owner, queue, pending, unread, peer>>
vars == <<kernelVars, serverVars>>

StdFds == 0..(ListenSock - 1)
ClientFds == (ListenSock + 1)..MaxFd
Keys == ClientFds \cup {-1}
FreeFds == {f \in ClientFds : owner[f] = NoConn}
Attached(c) ==
  \/ \E i \in 1..Len(queue) : queue[i] = c
  \/ \E f \in ClientFds : owner[f] = c

\* "closed": the end of stream follows its last request.  "reset": it closed
\* with replies unread and the error waits to be reported.  "broken": the
\* next send() raises SIGPIPE.
Gone == {"closed", "reset", "broken"}

\* Every variable stays in its range.
TypeOK ==
  /\ owner \in [ClientFds -> Conns \cup {NoConn}]
  /\ queue \in Seq(Conns)
  /\ pending \in [Conns -> 0..MaxMsg]
  /\ unread \in [Conns -> 0..SndCap]
  /\ peer \in [Conns -> {"idle", "open"} \cup Gone]
  /\ pc \in {"select", "accept", "clients", "command", "running", "send",
             "sending", "report", "stopped", "killed"}
  /\ clients \in SUBSET Keys
  /\ openSockets \in SUBSET Nat
  /\ readSockets \in SUBSET Nat
  /\ maxfds \in Nat
  /\ n \in Int
  /\ cursor \in Keys \cup {-2}
  /\ clientSocketsToClear \in SUBSET Keys
  /\ buffer \in Seq(Conns)
  /\ unsent \in 0..(MaxOutput + 1)
  /\ clientLenOK \in BOOLEAN

\* main() up to the loop.  open_socket() and listen() succeeded (the program
\* exits otherwise).  openSockets is a local that no FD_ZERO clears and
\* clientLen a local that nothing assigns: both start as the stack left them.
Init ==
  /\ owner = [f \in ClientFds |-> NoConn]
  /\ queue = <<>>
  /\ pending = [c \in Conns |-> 0]
  /\ unread = [c \in Conns |-> 0]
  /\ peer = [c \in Conns |-> "idle"]
  /\ pc = "select"
  /\ clients = {}
  /\ \E bits \in StackBits : openSockets = bits \cup {ListenSock}
  /\ readSockets = {}
  /\ maxfds = ListenSock
  /\ n = 0
  /\ cursor = -2
  /\ clientSocketsToClear = {}
  /\ buffer = <<>>
  /\ unsent = 0
  /\ clientLenOK \in StackLens

-----------------------------------------------------------------------------
(* The remote ends: vika1/client.cpp sends one request and closes,         *)
(* vika1/client_modified.cpp sends its next request when a recv() of a     *)
(* reply returned.  A peer may send while a reply is under way; requests   *)
(* sent before the server reads are one message to recv().                 *)

Connect(c) ==
  /\ peer[c] = "idle"
  /\ Len(queue) <= Backlog
  /\ peer' = [peer EXCEPT ![c] = "open"]
  /\ queue' = Append(queue, c)
  /\ UNCHANGED <<owner, pending, unread, serverVars>>

Request(c) ==
  /\ peer[c] = "open"
  /\ Attached(c)
  /\ pending[c] = 0
  /\ \E len \in 1..MaxMsg : pending' = [pending EXCEPT ![c] = len]
  /\ UNCHANGED <<owner, queue, unread, peer, serverVars>>

ReadReply(c) ==
  /\ peer[c] = "open"
  /\ unread[c] > 0
  /\ unread' = [unread EXCEPT ![c] = 0]
  /\ UNCHANGED <<owner, queue, pending, peer, serverVars>>

\* The peer's process closes its socket or dies: TCP sends a reset when
\* replies were left unread.  Requests already received stay readable.
HangUp(c) ==
  /\ peer[c] = "open"
  /\ peer' = [peer EXCEPT ![c] = IF unread[c] > 0 THEN "reset" ELSE "closed"]
  /\ unread' = [unread EXCEPT ![c] = 0]
  /\ UNCHANGED <<owner, queue, pending, serverVars>>

Peer(c) == Connect(c) \/ Request(c) \/ ReadReply(c) \/ HangUp(c)

-----------------------------------------------------------------------------
(* select() and accept().                                                  *)

\* Descriptors the kernel reports readable: a connection waits in the accept
\* queue, or a client's socket holds data, its end of stream or an error.
Readable ==
  {f \in ClientFds : /\ owner[f] # NoConn
                     /\ pending[owner[f]] > 0 \/ peer[owner[f]] \in Gone}
    \cup {f \in {ListenSock} : queue # <<>>}

\* select() looks at the bits 0..maxfds and nowhere else.
Watched == openSockets \cap 0..maxfds

\* Seeded fault: buffer is not cleared at the top of a round.
KeptBuffer == buffer

\* memset() at the top of a round.
ClearedBuffer == <<>>

RoundStarts ==
  /\ pc = "select"
  /\ buffer' = ClearedBuffer
  /\ clientSocketsToClear' = {}
  /\ UNCHANGED <<kernelVars, clients, openSockets, maxfds, cursor, unsent,
                 clientLenOK>>

\* A standard descriptor, watched if the stack said so, is readable as its
\* terminal likes.
Select ==
  /\ RoundStarts
  /\ Watched \cap FreeFds = {}
  /\ \E std \in SUBSET StdFds : readSockets' = Watched \cap (Readable \cup std)
  /\ readSockets' # {}
  /\ n' = Cardinality(readSockets')
  /\ pc' = "accept"

\* EBADF: a watched descriptor is not open.  The sets are left alone.
SelectFails ==
  /\ RoundStarts
  /\ Watched \cap FreeFds # {}
  /\ readSockets' = openSockets
  /\ n' = -1
  /\ pc' = "stopped"

\* The bit FD_SET, FD_CLR and FD_ISSET address for a descriptor.
Bit(f) == IF f = -1 THEN MinusOneBit ELSE f

\* Seeded fault: maxfds follows the newest descriptor instead of the largest.
LatestFd(f) == f

LargerFd(f) == IF f > maxfds THEN f ELSE maxfds

\* Seeded fault: n is not decremented for the listening socket.
AcceptUncounted == n

LeftAfterAccept == n - 1

\* What the loop does with the result of accept(), which it does not test.
Register(f) ==
  /\ openSockets' = openSockets \cup {Bit(f)}
  /\ maxfds' = LargerFd(f)
  /\ clients' = clients \cup {f}
  /\ n' = LeftAfterAccept
  /\ cursor' = -2
  /\ pc' = IF n' > 0 THEN "clients" ELSE "report"
  /\ UNCHANGED <<readSockets, clientSocketsToClear, text>>

\* accept() returns the lowest free descriptor.
Accept ==
  /\ pc = "accept"
  /\ ListenSock \in readSockets
  /\ clientLenOK
  /\ \E f \in FreeFds :
       /\ \A g \in FreeFds : f <= g
       /\ owner' = [owner EXCEPT ![f] = Head(queue)]
       /\ Register(f)
  /\ queue' = Tail(queue)
  /\ UNCHANGED <<pending, unread, peer>>

\* accept() returns -1: no free descriptor, or no memory (the connection stays
\* in the queue), or a negative length, which the kernel looks at when it has
\* already dequeued the connection.
AcceptFails ==
  /\ pc = "accept"
  /\ ListenSock \in readSockets
  /\ \/ FreeFds = {} /\ queue' = queue
     \/ FreeFds # {} /\ ~clientLenOK /\ queue' = Tail(queue)
     \/ AcceptErrors /\ queue' = queue
  /\ Register(-1)
  /\ UNCHANGED <<owner, pending, unread, peer>>

NothingToAccept ==
  /\ pc = "accept"
  /\ ListenSock \notin readSockets
  /\ cursor' = -2
  /\ pc' = IF n > 0 THEN "clients" ELSE "report"
  /\ UNCHANGED <<kernelVars, sets, n, text>>

-----------------------------------------------------------------------------
(* The walk over the clients map.                                          *)

\* f is the next key of the map, in ascending order, that FD_ISSET accepts.
Reported(f) == f > cursor /\ Bit(f) \in readSockets
NextClient(f) ==
  /\ Reported(f)
  /\ \A g \in clients : Reported(g) => f <= g

\* Units recv() finds; 0 stands for its results <= 0.
Received(f) ==
  IF f \in ClientFds /\ owner[f] # NoConn THEN pending[owner[f]] ELSE 0

\* Seeded fault: the descriptor's bit survives closeClient().
KeptBits(f) == openSockets

ClearedBits(f) == openSockets \ {Bit(f)}

\* Seeded fault: the next lowest descriptor, forgetting the listening socket.
LargestOther(f) == Max((clients \ {f}) \cup {-1})

\* The largest key is looked for starting from maxfds itself, with the closed
\* client still in the map.
MaxAfterClose(f) == Max(clients \cup {maxfds})

\* closeClient().
CloseClient(f) ==
  /\ owner' = IF f = -1 THEN owner ELSE [owner EXCEPT ![f] = NoConn]
  /\ openSockets' = ClearedBits(f)
  /\ maxfds' = IF maxfds = f THEN MaxAfterClose(f) ELSE maxfds

\* Seeded fault: end of stream is acted on before the last request is read.
EndsEarly(f) == Received(f) = 0 \/ peer[owner[f]] \in Gone

Ends(f) == Received(f) = 0

RecvEnds(f) ==
  /\ pc = "clients"
  /\ NextClient(f)
  /\ Ends(f)
  /\ CloseClient(f)
  /\ clientSocketsToClear' = clientSocketsToClear \cup {f}
  /\ n' = n - 1
  /\ cursor' = f
  /\ UNCHANGED <<queue, pending, unread, peer, pc, clients, readSockets, text>>

\* recv() writes its bytes over the front of buffer and adds no NUL.
Overlay(c, len) ==
  [i \in 1..Max({len, Len(buffer)}) |-> IF i <= len THEN c ELSE buffer[i]]

\* A longer message is taken in parts, a round each.
Taken(f) == IF Received(f) < RecvCap THEN Received(f) ELSE RecvCap

RecvMessage(f) ==
  /\ pc = "clients"
  /\ NextClient(f)
  /\ Received(f) > 0
  /\ buffer' = Overlay(owner[f], Taken(f))
  /\ pending' = [pending EXCEPT ![owner[f]] = @ - Taken(f)]
  /\ n' = n - 1
  /\ cursor' = f
  /\ pc' = "command"
  /\ UNCHANGED <<owner, queue, unread, peer, sets, unsent, clientLenOK>>

\* Seeded fault: the closed clients stay in the map.
KeptClients == clients

RemainingClients == clients \ clientSocketsToClear

WalkEnds ==
  /\ pc = "clients"
  /\ ~ \E f \in clients : Reported(f)
  /\ clients' = RemainingClients
  /\ pc' = "report"
  /\ UNCHANGED <<kernelVars, openSockets, readSockets, maxfds,
                 clientSocketsToClear, walk, text>>

\* The bottom of the loop, where sockets left over are reported.
Report ==
  /\ pc = "report"
  /\ pc' = "select"
  /\ UNCHANGED <<kernelVars, sets, walk, text>>

-----------------------------------------------------------------------------
(* clientCommand().                                                        *)

\* The message is not SYS and a command, or system() cannot run it: nothing
\* goes back to the client.
NoReply ==
  /\ pc = "command"
  /\ pc' = "clients"
  /\ UNCHANGED <<kernelVars, sets, walk, text>>

\* popen() or system() starts the command and the thread is in it until it
\* ends; when popen() fails one unit of error text is handed to send().
RunCommand ==
  /\ pc = "command"
  /\ \/ pc' = "running" /\ UNCHANGED unsent
     \/ Popen /\ pc' = "send" /\ unsent' = 1
  /\ UNCHANGED <<kernelVars, sets, walk, buffer, clientLenOK>>

\* The command ends, if it ever does: fgets() meets the end of its output and
\* pclose() returns, and server_modified.cpp has the output to send; or
\* system() returns, and server.cpp is done.
CommandEnds ==
  /\ pc = "running"
  /\ IF Popen THEN pc' = "send" /\ unsent' \in 0..MaxOutput
     ELSE pc' = "clients" /\ UNCHANGED unsent
  /\ UNCHANGED <<kernelVars, sets, walk, buffer, clientLenOK>>

\* An accepted socket is blocking whatever flags the listening socket has:
\* send() copies what fits and keeps the thread until the rest does.
SendSome ==
  /\ pc \in {"send", "sending"}
  /\ unsent > 0
  /\ peer[owner[cursor]] = "open"
  /\ unread[owner[cursor]] < SndCap
  /\ unread' = [unread EXCEPT ![owner[cursor]] = @ + 1]
  /\ unsent' = unsent - 1
  /\ pc' = "sending"
  /\ UNCHANGED <<owner, queue, pending, peer, sets, walk, buffer, clientLenOK>>

SendDone ==
  /\ pc \in {"send", "sending"}
  /\ unsent = 0
  /\ peer[owner[cursor]] \in {"open", "closed"}
  /\ pc' = "clients"
  /\ UNCHANGED <<kernelVars, sets, walk, text>>

\* What is sent to a closed peer is accepted and answered by a reset, which
\* may or may not have arrived by the next send().
SendToClosed ==
  /\ pc \in {"send", "sending"}
  /\ unsent > 0
  /\ peer[owner[cursor]] = "closed"
  /\ \E p \in {"closed", "broken"} : peer' = [peer EXCEPT ![owner[cursor]] = p]
  /\ unsent' = 0
  /\ pc' = "clients"
  /\ UNCHANGED <<owner, queue, pending, unread, sets, walk, buffer,
                 clientLenOK>>

\* After a reset a send() that had copied something returns how much; one
\* that had not takes the pending error, ECONNRESET, with it.
SendReset ==
  /\ pc \in {"send", "sending"}
  /\ peer[owner[cursor]] = "reset"
  /\ peer' = IF pc = "send" THEN [peer EXCEPT ![owner[cursor]] = "broken"]
                            ELSE peer
  /\ unsent' = 0
  /\ pc' = "clients"
  /\ UNCHANGED <<owner, queue, pending, unread, sets, walk, buffer,
                 clientLenOK>>

\* EPIPE: without MSG_NOSIGNAL, SIGPIPE ends the process.
SendKills ==
  /\ pc = "send"
  /\ peer[owner[cursor]] = "broken"
  /\ pc' = "killed"
  /\ UNCHANGED <<kernelVars, sets, walk, text>>

-----------------------------------------------------------------------------

Round ==
  \/ Select
  \/ SelectFails
  \/ Accept
  \/ AcceptFails
  \/ NothingToAccept
  \/ \E f \in clients : RecvEnds(f) \/ RecvMessage(f)
  \/ WalkEnds
  \/ Report

Command ==
  \/ NoReply
  \/ RunCommand
  \/ SendSome
  \/ SendDone
  \/ SendToClosed
  \/ SendReset
  \/ SendKills

Server == Round \/ Command

Next == Server \/ CommandEnds \/ \E c \in Conns : Peer(c)

Spec == Init /\ [][Next]_vars

\* One thread that runs whenever it is not blocked.  Nothing is owed by the
\* commands, which are the clients' choice, nor by the peers.
FairSpec == Spec /\ WF_vars(Server)

\* The one thread is held up by a client: its command runs, or send() waits
\* for it to read.
Occupied ==
  \/ pc = "running"
  \/ /\ pc \in {"send", "sending"}
     /\ unsent > 0
     /\ peer[owner[cursor]] = "open"
     /\ unread[owner[cursor]] = SndCap

-----------------------------------------------------------------------------
(* What a step may never break.                                            *)

\* Outside the walk's own bookkeeping the clients map and the kernel agree on
\* which descriptors are open: deferring clients.erase() past the walk never
\* leaves a dead entry for accept() to overwrite, nor loses a live client.
TableMatchesKernel ==
  \A f \in ClientFds :
    owner[f] # NoConn <=> f \in clients /\ f \notin clientSocketsToClear

\* The clients on descriptors S are looked at by the next select().
PolledWithin(S) ==
  \A f \in S : owner[f] # NoConn => f \in openSockets /\ f <= maxfds

\* However descriptors are closed and reused, select() looks at the listening
\* socket and at every connected client.
EveryClientPolled ==
  /\ ListenSock \in openSockets
  /\ ListenSock <= maxfds
  /\ PolledWithin(ClientFds)

\* The same but for the one descriptor whose bit FD_SET(-1) and FD_CLR(-1)
\* share: no failed accept() can take any other client out of the sets.
OtherClientsPolled == PolledWithin(ClientFds \ {MinusOneBit})

\* "Current open sockets": no bit select() looks at is of a closed descriptor,
\* which would end the server with EBADF.
OpenSocketsAreOpen == Watched \cap FreeFds = {}

\* What the stack left in openSockets never ends the server: select() fails
\* only when a failed accept() has set the bit of -1.
StopsOnlyByMinusOne ==
  pc = "stopped" => MinusOneBit \in Watched /\ -1 \in clients

\* At the bottom of a round every socket select() counted has been handled but
\* the standard descriptors the stack made it look at: without them "ERROR: not
\* all sockets handled" is not printed.
AllHandled == pc = "report" => n = Cardinality(readSockets \cap StdFds)

\* Whatever the stack and failed calls put into the sets, a socket that is
\* counted and not handled can only be a standard descriptor.
OnlyStdUnhandled == pc = "report" /\ n > 0 => readSockets \cap StdFds # {}

\* Every byte clientCommand parses was read in the current round from a
\* client that select() reported.
BufferFromThisRound ==
  pc = "command" =>
    \A i \in 1..Len(buffer) : \E f \in readSockets \cap ClientFds :
      f \in clients /\ owner[f] = buffer[i]

\* A connection is closed only when its peer has hung up and its last request
\* has been read: readiness computed before accept() ran is never stale.
ClosesOnlyFinished ==
  [][\A f \in ClientFds :
       owner[f] # NoConn /\ owner'[f] # owner[f] =>
         peer[owner[f]] \in Gone /\ pending[owner[f]] = 0]_vars

\* Every request that reached the server's host is read to its end, whichever
\* other clients keep the server busy, unless SIGPIPE has ended it or one
\* client holds it up for ever.
RequestServed ==
  \/ <>[]Occupied
  \/ \A c \in Conns : pending[c] > 0 ~> (pending[c] = 0 \/ pc = "killed")

-----------------------------------------------------------------------------
(* The inductive invariant that carries the properties above.              *)

\* The walk has not passed a client it has closed, and it stands on an open
\* descriptor while a command runs.
WalkInv ==
  /\ pc = "accept" => clientSocketsToClear = {}
  /\ pc \in {"clients", "command", "running", "send", "sending", "killed"} =>
       \A f \in clientSocketsToClear : f <= cursor
  /\ pc \in {"select", "report", "stopped"} =>
       clients \cap clientSocketsToClear = {}
  /\ pc \in {"command", "running", "send", "sending", "killed"} =>
       cursor \in ClientFds /\ owner[cursor] # NoConn

\* accept() is called only when a connection waits.
QueueInv == pc = "accept" /\ ListenSock \in readSockets => queue # <<>>

\* maxfds bounds the map, and the listening socket is watched.
MaxInv ==
  /\ ListenSock \in openSockets
  /\ ListenSock <= maxfds
  /\ \A f \in clients : f <= maxfds

\* Up to maxfds a closed descriptor has no bit, whatever the stack held: the
\* lowest-free rule opened every descriptor below maxfds before.  The bit of
\* -1 alone may be set by a failed accept(), whose entry is then in the map.
BitsInv ==
  \A f \in ClientFds :
    f \in Watched /\ owner[f] = NoConn =>
      f = MinusOneBit /\ -1 \in clients \ clientSocketsToClear

\* The descriptors, the sets and the map through a round: inductive by itself.
DescriptorInv ==
  /\ TypeOK
  /\ TableMatchesKernel
  /\ WalkInv
  /\ QueueInv
  /\ MaxInv
  /\ BitsInv
  /\ OtherClientsPolled
  /\ StopsOnlyByMinusOne

\* No connection is in two places, and one that was never opened is in none.
PlaceInv ==
  /\ \A f, g \in ClientFds : owner[f] # NoConn /\ owner[f] = owner[g] => f = g
  /\ \A i, j \in 1..Len(queue) : queue[i] = queue[j] => i = j
  /\ \A f \in ClientFds : \A i \in 1..Len(queue) : owner[f] # queue[i]
  /\ \A c \in Conns : peer[c] = "idle" => ~Attached(c)

\* Unless clientLen makes accept() drop it, a connection whose peer has not
\* hung up is in the queue or on a descriptor.
LiveInv ==
  clientLenOK => \A c \in Conns : peer[c] = "open" => Attached(c)

InRound ==
  pc \in {"accept", "clients", "command", "running", "send", "sending"}

\* Client descriptors select() has reported and the walk has not come to.
Ahead == {f \in readSockets \cap ClientFds : pc = "accept" \/ f > cursor}

\* They stay open and ready, whatever is accepted, closed and run meanwhile.
ReadyInv ==
  InRound => \A f \in Ahead :
    /\ owner[f] # NoConn
    /\ pending[owner[f]] > 0 \/ peer[owner[f]] \in Gone

\* n counts no more than what is ahead, standard descriptors apart.
CountInv ==
  InRound /\ readSockets \cap StdFds = {} =>
    n <= Cardinality(Ahead)
           + (IF pc = "accept" /\ ListenSock \in readSockets THEN 1 ELSE 0)

\* buffer holds text of clients the walk has read from and not closed.
BufferInv ==
  /\ pc = "accept" => buffer = <<>>
  /\ InRound => \A i \in 1..Len(buffer) :
       \E f \in readSockets \cap ClientFds :
         f \in clients /\ f <= cursor /\ owner[f] = buffer[i]

\* What a round makes of the readiness select() reported.
RoundInv ==
  /\ PlaceInv
  /\ LiveInv
  /\ ReadyInv
  /\ CountInv
  /\ BufferInv
  /\ OnlyStdUnhandled

\* Inductive: every step of the server and of its peers keeps it.
IInv == DescriptorInv /\ RoundInv

-----------------------------------------------------------------------------
(* What comments and messages of the source say, and the code does not do. *)

\* "Process any message received from client": the text clientCommand is
\* given is the message of its client and nothing else.
CommandIsSenders ==
  pc = "command" => \A i \in 1..Len(buffer) : buffer[i] = owner[cursor]

\* A client that goes away is a "Client closed connection", not the end of
\* the server.
SurvivesClients == pc # "killed"
=============================================================================
