------------------------- MODULE SelectServerProofs -------------------------
(***************************************************************************)
(* Theorems about the select server, for any number of connections and     *)
(* descriptors, any stack contents and any peers.                          *)
(***************************************************************************)
EXTENDS SelectServerRefinement, FiniteSetTheorems, TLAPS

\* What Max of the community modules is, once a largest element is known.
LEMMA MaxIs ==
  ASSUME NEW S \in SUBSET Int, NEW m \in S, \A k \in S : m >= k
  PROVE  Max(S) = m
<1> DEFINE P(x) == x \in S /\ \A k \in S : x >= k
<1>1. \A x \in S : (\A k \in S : x >= k) => x = m
  OBVIOUS
<1>2. Max(S) \in S /\ \A k \in S : Max(S) >= k
  BY DEF Max
<1> QED BY <1>1, <1>2

\* The larger of two naturals.
LEMMA MaxOfTwo ==
  ASSUME NEW a \in Nat, NEW b \in Nat
  PROVE  Max({a, b}) \in Nat /\ Max({a, b}) >= a /\ Max({a, b}) >= b
         /\ Max({a, b}) \in {a, b}
<1>1. CASE a >= b
  <2>1. Max({a, b}) = a BY <1>1, MaxIs
  <2> QED BY <1>1, <2>1
<1>2. CASE b >= a
  <2>1. Max({a, b}) = b BY <1>2, MaxIs
  <2> QED BY <1>2, <2>1
<1> QED BY <1>1, <1>2

\* Descriptors are integers, keys of real clients are not -1.
LEMMA Descriptors ==
  /\ ClientFds \subseteq Nat
  /\ Keys \subseteq Int
  /\ -1 \notin ClientFds
  /\ ListenSock \notin ClientFds
  /\ \A f \in ClientFds : f > ListenSock /\ Bit(f) = f
  /\ Bit(-1) = MinusOneBit
  /\ \A f \in Keys : Bit(f) \in Nat /\ Bit(f) # ListenSock
BY FdAssumption DEF ClientFds, Keys, Bit

\* closeClient() never lowers maxfds: the map still holds the closed client.
LEMMA CloseKeepsMax ==
  ASSUME TypeOK, MaxInv, NEW f \in Keys, CloseClient(f)
  PROVE  maxfds' = maxfds
<1>1. clients \cup {maxfds} \in SUBSET Int
  BY Descriptors DEF TypeOK
<1>2. \A k \in clients \cup {maxfds} : maxfds >= k
  BY <1>1 DEF MaxInv, TypeOK
<1>3. Max(clients \cup {maxfds}) = maxfds
  BY <1>1, <1>2, MaxIs
<1> QED BY <1>3 DEF CloseClient, MaxAfterClose

\* recv() over the front of buffer leaves text of connections.
LEMMA OverlayType ==
  ASSUME TypeOK, NEW c \in Conns, NEW len \in Nat
  PROVE  Overlay(c, len) \in Seq(Conns)
<1>1. Len(buffer) \in Nat /\ \A i \in 1..Len(buffer) : buffer[i] \in Conns
  BY DEF TypeOK
<1> DEFINE k == Max({len, Len(buffer)})
<1>2. k \in Nat /\ k \in {len, Len(buffer)} /\ k >= len /\ k >= Len(buffer)
  BY <1>1, MaxOfTwo
<1> HIDE DEF k
<1>3. \A i \in 1..k : (IF i <= len THEN c ELSE buffer[i]) \in Conns
  BY <1>1, <1>2
<1>4. [i \in 1..k |-> IF i <= len THEN c ELSE buffer[i]] \in Seq(Conns)
  BY <1>2, <1>3
<1> QED BY <1>4 DEF Overlay, k

-----------------------------------------------------------------------------
(* The initial states.                                                     *)

\* main() reaches its loop with its sets in order, whatever the stack holds.
LEMMA InitDescriptors == Init => DescriptorInv
<1> SUFFICES ASSUME Init PROVE DescriptorInv
  OBVIOUS
<1> USE DEF Init
<1>1. TypeOK
  BY FdAssumption, BoundAssumption, ConnsAssumption
     DEF TypeOK, Gone, Keys
<1>2. TableMatchesKernel
  BY DEF TableMatchesKernel
<1>3. WalkInv /\ QueueInv
  BY DEF WalkInv, QueueInv
<1>4. MaxInv
  BY FdAssumption DEF MaxInv
<1>5. BitsInv
  BY FdAssumption DEF BitsInv, Watched, ClientFds
<1>6. OtherClientsPolled /\ StopsOnlyByMinusOne
  BY DEF OtherClientsPolled, PolledWithin, StopsOnlyByMinusOne
<1> QED BY <1>1, <1>2, <1>3, <1>4, <1>5, <1>6 DEF DescriptorInv

-----------------------------------------------------------------------------
(* Every step keeps DescriptorInv.                                         *)

\* A step that leaves the descriptors, the sets and the map alone keeps what
\* is said of them, provided it keeps the place of the walk.
LEMMA SetsUntouched ==
  ASSUME DescriptorInv,
         UNCHANGED <<owner, clients, openSockets, maxfds, clientSocketsToClear>>
  PROVE  /\ TableMatchesKernel'
         /\ MaxInv'
         /\ BitsInv'
         /\ OtherClientsPolled'
         /\ (pc' # "stopped" \/ pc = "stopped") => StopsOnlyByMinusOne'
<1> USE DEF DescriptorInv
<1>1. TableMatchesKernel'
  BY DEF TableMatchesKernel
<1>2. MaxInv'
  BY DEF MaxInv
<1>3. BitsInv'
  BY DEF BitsInv, Watched
<1>4. OtherClientsPolled'
  BY DEF OtherClientsPolled, PolledWithin
<1>5. (pc' # "stopped" \/ pc = "stopped") => StopsOnlyByMinusOne'
  BY DEF StopsOnlyByMinusOne, Watched
<1> QED BY <1>1, <1>2, <1>3, <1>4, <1>5

\* The remote ends touch only the queue and the socket buffers.
LEMMA PeerStep ==
  ASSUME DescriptorInv, NEW c \in Conns, Peer(c)
  PROVE  DescriptorInv'
<1> USE DEF DescriptorInv
<1>1. UNCHANGED serverVars /\ UNCHANGED owner
  BY DEF Peer, Connect, Request, ReadReply, HangUp
<1>2. TypeOK'
  <2>1. CASE Connect(c)
    BY <2>1, <1>1 DEF Connect, TypeOK, serverVars, sets, walk, text
  <2>2. CASE Request(c)
    BY <2>2, <1>1, BoundAssumption
       DEF Request, TypeOK, serverVars, sets, walk, text
  <2>3. CASE ReadReply(c)
    BY <2>3, <1>1, BoundAssumption
       DEF ReadReply, TypeOK, serverVars, sets, walk, text
  <2>4. CASE HangUp(c)
    BY <2>4, <1>1, BoundAssumption
       DEF HangUp, TypeOK, Gone, serverVars, sets, walk, text
  <2> QED BY <2>1, <2>2, <2>3, <2>4 DEF Peer
<1>3. QueueInv'
  <2>1. queue' = queue \/ queue' = Append(queue, c)
    BY DEF Peer, Connect, Request, ReadReply, HangUp
  <2>2. queue # <<>> => queue' # <<>>
    BY <2>1 DEF TypeOK
  <2> QED BY <1>1, <2>2 DEF QueueInv, serverVars, sets
<1>4. WalkInv'
  BY <1>1 DEF WalkInv, serverVars, sets, walk
<1> QED BY <1>1, <1>2, <1>3, <1>4, SetsUntouched DEF serverVars, sets

\* The top of a round: the descriptors reported are finitely many naturals.
LEMMA SelectStep ==
  ASSUME DescriptorInv, Select
  PROVE  DescriptorInv'
<1> USE DEF DescriptorInv, Select, RoundStarts
<1>1. readSockets' \in SUBSET Nat /\ n' \in Int
  <2>1. PICK std \in SUBSET StdFds :
          readSockets' = Watched \cap (Readable \cup std)
    OBVIOUS
  <2>2. readSockets' \subseteq 0..maxfds
    BY <2>1 DEF Watched
  <2>3. IsFiniteSet(0..maxfds)
    BY FS_Interval DEF TypeOK
  <2>4. IsFiniteSet(readSockets')
    BY <2>2, <2>3, FS_Subset
  <2>5. Cardinality(readSockets') \in Nat
    BY <2>4, FS_CardinalityType
  <2> QED BY <2>2, <2>5
<1>2. TypeOK'
  BY <1>1 DEF TypeOK, kernelVars, ClearedBuffer
<1>3. QueueInv'
  <2>1. ASSUME ListenSock \in readSockets' PROVE queue # <<>>
    <3>1. ListenSock \in Readable \/ ListenSock \in StdFds
      BY <2>1
    <3> QED BY <3>1, FdAssumption, Descriptors DEF Readable, StdFds
  <2> QED BY <2>1 DEF QueueInv, kernelVars
<1>4. clients \cap clientSocketsToClear = {}
  BY DEF WalkInv
<1>5. WalkInv'
  BY DEF WalkInv
<1>6. TableMatchesKernel'
  BY <1>4 DEF TableMatchesKernel, kernelVars
<1>7. MaxInv'
  BY DEF MaxInv
<1>8. BitsInv'
  BY DEF BitsInv, Watched, kernelVars
<1>9. OtherClientsPolled' /\ StopsOnlyByMinusOne'
  BY DEF OtherClientsPolled, PolledWithin, StopsOnlyByMinusOne, kernelVars
<1> QED BY <1>2, <1>3, <1>5, <1>6, <1>7, <1>8, <1>9

\* EBADF: by BitsInv the closed descriptor among the watched ones can only be
\* the one that shares its bit with -1.
LEMMA SelectFailsStep ==
  ASSUME DescriptorInv, SelectFails
  PROVE  DescriptorInv'
<1> USE DEF DescriptorInv, SelectFails, RoundStarts
<1>1. TypeOK'
  BY DEF TypeOK, kernelVars, ClearedBuffer
<1>2. QueueInv' /\ WalkInv'
  BY DEF QueueInv, WalkInv
<1>3. clients \cap clientSocketsToClear = {}
  BY DEF WalkInv
<1>4. TableMatchesKernel'
  BY <1>3 DEF TableMatchesKernel, kernelVars
<1>5. MaxInv'
  BY DEF MaxInv
<1>6. BitsInv'
  BY DEF BitsInv, Watched, kernelVars
<1>7. OtherClientsPolled'
  BY DEF OtherClientsPolled, PolledWithin, kernelVars
<1>8. StopsOnlyByMinusOne'
  <2>1. PICK f \in Watched \cap FreeFds : TRUE
    OBVIOUS
  <2>2. f = MinusOneBit /\ -1 \in clients
    BY <2>1 DEF FreeFds, BitsInv
  <2>3. MinusOneBit \in Watched'
    BY <2>1, <2>2 DEF Watched
  <2> QED BY <2>2, <2>3 DEF StopsOnlyByMinusOne
<1> QED BY <1>1, <1>2, <1>4, <1>5, <1>6, <1>7, <1>8

\* A successful accept(): the descriptor is the lowest free one, so that all
\* those between the old and the new maxfds are open.
LEMMA AcceptStep ==
  ASSUME DescriptorInv, Accept
  PROVE  DescriptorInv'
<1> USE DEF DescriptorInv
<1>1. PICK f \in FreeFds :
        /\ \A g \in FreeFds : f <= g
        /\ owner' = [owner EXCEPT ![f] = Head(queue)]
        /\ Register(f)
  BY DEF Accept
<1> USE DEF Register, LargerFd, LeftAfterAccept
<1>2. f \in ClientFds /\ owner[f] = NoConn /\ Bit(f) = f /\ f \in Nat
  BY <1>1, Descriptors DEF FreeFds
<1>3. queue # <<>> /\ Head(queue) \in Conns /\ queue' \in Seq(Conns)
  BY DEF Accept, QueueInv, TypeOK
<1>4. maxfds' \in Nat /\ maxfds' >= maxfds /\ maxfds' >= f
  BY <1>1, <1>2 DEF TypeOK
<1>5. owner'[f] # NoConn /\ \A g \in ClientFds \ {f} : owner'[g] = owner[g]
  BY <1>1, <1>2, <1>3, ConnsAssumption DEF TypeOK
<1>6. clientSocketsToClear = {} /\ clientSocketsToClear' = {}
  BY <1>1 DEF Accept, WalkInv
<1>7. TypeOK'
  <2>1. owner' \in [ClientFds -> Conns \cup {NoConn}]
    BY <1>1, <1>3 DEF TypeOK
  <2>2. clients' \in SUBSET Keys /\ openSockets' \in SUBSET Nat
    BY <1>1, <1>2 DEF TypeOK, Keys
  <2>3. n' \in Int /\ cursor' \in Keys \cup {-2}
        /\ pc' \in {"clients", "report"}
    BY <1>1 DEF TypeOK
  <2> QED BY <1>1, <1>3, <1>4, <2>1, <2>2, <2>3 DEF TypeOK, Accept, text
<1>8. TableMatchesKernel'
  BY <1>1, <1>5, <1>6 DEF TableMatchesKernel
<1>9. WalkInv' /\ QueueInv'
  BY <1>1, <1>6 DEF WalkInv, QueueInv
<1>10. MaxInv'
  <2>1. ListenSock <= maxfds'
    BY <1>4, FdAssumption DEF MaxInv, TypeOK
  <2>2. \A g \in clients' : g <= maxfds'
    <3>1. clients \subseteq Int
      BY Descriptors DEF TypeOK
    <3> QED BY <1>1, <1>4, <3>1 DEF MaxInv, TypeOK
  <2> QED BY <1>1, <2>1, <2>2 DEF MaxInv
<1>11. BitsInv'
  <2> SUFFICES ASSUME NEW g \in ClientFds, g \in Watched', owner'[g] = NoConn
               PROVE  /\ g = MinusOneBit
                      /\ -1 \in (clients \ clientSocketsToClear)'
    BY DEF BitsInv
  <2>1. g # f /\ owner[g] = NoConn /\ g \in openSockets /\ g \in 0..maxfds'
    BY <1>1, <1>2, <1>5 DEF Watched
  <2>2. f < g
    BY <1>1, <1>2, <2>1, Descriptors DEF FreeFds
  <2>3. g \in 0..maxfds
    BY <1>1, <2>1, <2>2, <1>2 DEF TypeOK
  <2>4. g = MinusOneBit /\ -1 \in clients \ clientSocketsToClear
    BY <2>1, <2>3 DEF BitsInv, Watched
  <2> QED BY <2>4, <1>1, <1>6
<1>12. OtherClientsPolled'
  <2> SUFFICES ASSUME NEW g \in ClientFds \ {MinusOneBit}, owner'[g] # NoConn
               PROVE  g \in openSockets' /\ g <= maxfds'
    BY DEF OtherClientsPolled, PolledWithin
  <2>1. CASE g = f
    BY <2>1, <1>1, <1>2, <1>4
  <2>2. CASE g # f
    <3>1. g \in openSockets /\ g <= maxfds
      BY <2>2, <1>5 DEF OtherClientsPolled, PolledWithin
    <3> QED BY <3>1, <1>1, <1>4, Descriptors DEF TypeOK
  <2> QED BY <2>1, <2>2
<1>13. StopsOnlyByMinusOne'
  BY <1>1 DEF StopsOnlyByMinusOne
<1> QED BY <1>7, <1>8, <1>9, <1>10, <1>11, <1>12, <1>13

\* A failed accept() is registered as -1: no bit but MinusOneBit changes.
LEMMA AcceptFailsStep ==
  ASSUME DescriptorInv, AcceptFails
  PROVE  DescriptorInv'
<1> USE DEF DescriptorInv, Register, LargerFd, LeftAfterAccept
<1>1. Register(-1) /\ UNCHANGED <<owner, pending, unread, peer>>
  BY DEF AcceptFails
<1>2. maxfds' = maxfds /\ openSockets' = openSockets \cup {MinusOneBit}
  BY <1>1, Descriptors DEF TypeOK
<1>3. clientSocketsToClear = {} /\ clientSocketsToClear' = {}
  BY <1>1 DEF AcceptFails, WalkInv
<1>4. queue' \in Seq(Conns)
  <2>1. queue \in Seq(Conns) /\ queue # <<>>
    BY DEF AcceptFails, TypeOK, QueueInv
  <2>2. queue' = queue \/ queue' = Tail(queue)
    BY DEF AcceptFails
  <2> QED BY <2>1, <2>2
<1>5. TypeOK'
  <2>1. clients' \in SUBSET Keys /\ openSockets' \in SUBSET Nat
        /\ maxfds' \in Nat
    BY <1>1, <1>2, FdAssumption DEF TypeOK, Keys
  <2>2. n' \in Int /\ cursor' \in Keys \cup {-2}
        /\ pc' \in {"clients", "report"}
    BY <1>1 DEF TypeOK
  <2> QED BY <1>1, <1>4, <2>1, <2>2 DEF TypeOK, text
<1>6. TableMatchesKernel'
  BY <1>1, <1>3, Descriptors DEF TableMatchesKernel
<1>7. WalkInv' /\ QueueInv'
  BY <1>1, <1>3 DEF WalkInv, QueueInv
<1>8. MaxInv'
  BY <1>1, <1>2 DEF MaxInv, TypeOK
<1>9. BitsInv'
  BY <1>1, <1>2, <1>3 DEF BitsInv, Watched
<1>10. OtherClientsPolled'
  BY <1>1, <1>2 DEF OtherClientsPolled, PolledWithin
<1>11. StopsOnlyByMinusOne'
  BY <1>1 DEF StopsOnlyByMinusOne
<1> QED BY <1>5, <1>6, <1>7, <1>8, <1>9, <1>10, <1>11

\* Nobody to accept: the walk starts, or the round is over.
LEMMA NothingStep ==
  ASSUME DescriptorInv, NothingToAccept
  PROVE  DescriptorInv'
<1> USE DEF DescriptorInv, NothingToAccept
<1>1. TypeOK'
  BY DEF TypeOK, kernelVars, sets, text
<1>2. WalkInv' /\ QueueInv'
  BY DEF WalkInv, QueueInv, sets
<1> QED BY <1>1, <1>2, SetsUntouched DEF kernelVars, sets

\* closeClient(): descriptor, bit and the list of keys to erase move together,
\* and maxfds does not move.
LEMMA RecvEndsStep ==
  ASSUME DescriptorInv, NEW f \in clients, RecvEnds(f)
  PROVE  DescriptorInv'
<1> USE DEF DescriptorInv
<1>1. f \in Keys /\ f \in Int /\ f > cursor
  BY Descriptors DEF TypeOK, RecvEnds, NextClient, Reported
<1>2. maxfds' = maxfds
  BY <1>1, CloseKeepsMax DEF RecvEnds
<1>3. openSockets' = openSockets \ {Bit(f)}
  BY DEF RecvEnds, CloseClient, ClearedBits
<1>4. /\ owner' \in [ClientFds -> Conns \cup {NoConn}]
      /\ f # -1 => owner'[f] = NoConn
      /\ \A g \in ClientFds \ {f} : owner'[g] = owner[g]
  BY <1>1 DEF RecvEnds, CloseClient, TypeOK, Keys
<1>5. clientSocketsToClear' = clientSocketsToClear \cup {f}
      /\ cursor' = f /\ pc = "clients" /\ pc' = pc /\ clients' = clients
  BY DEF RecvEnds
<1>6. TypeOK'
  <2>1. openSockets' \in SUBSET Nat /\ maxfds' \in Nat
    BY <1>2, <1>3 DEF TypeOK
  <2>2. clientSocketsToClear' \in SUBSET Keys /\ cursor' \in Keys \cup {-2}
    BY <1>1, <1>5 DEF TypeOK
  <2>3. n' \in Int
    BY DEF TypeOK, RecvEnds
  <2> QED BY <1>4, <1>5, <2>1, <2>2, <2>3 DEF TypeOK, RecvEnds, text
<1>7. TableMatchesKernel'
  <2> SUFFICES ASSUME NEW g \in ClientFds
               PROVE  owner'[g] # NoConn
                        <=> g \in clients /\ g \notin clientSocketsToClear'
    BY <1>5 DEF TableMatchesKernel
  <2>1. CASE g = f
    BY <2>1, <1>4, <1>5, Descriptors
  <2>2. CASE g # f
    BY <2>2, <1>4, <1>5 DEF TableMatchesKernel
  <2> QED BY <2>1, <2>2
<1>8. WalkInv'
  <2>1. clientSocketsToClear \subseteq Int /\ cursor \in Int
    BY Descriptors DEF TypeOK
  <2>2. \A g \in clientSocketsToClear : g <= cursor
    BY <1>5 DEF WalkInv
  <2>3. \A g \in clientSocketsToClear' : g <= f
    BY <1>1, <1>5, <2>1, <2>2
  <2> QED BY <1>5, <2>3 DEF WalkInv
<1>9. QueueInv'
  BY <1>5 DEF QueueInv
<1>10. MaxInv'
  BY <1>1, <1>2, <1>3, <1>5, Descriptors DEF MaxInv
<1>11. BitsInv'
  <2> SUFFICES ASSUME NEW g \in ClientFds, g \in Watched', owner'[g] = NoConn
               PROVE  /\ g = MinusOneBit
                      /\ -1 \in (clients \ clientSocketsToClear)'
    BY DEF BitsInv
  <2>1. g \in Watched /\ g # Bit(f)
    BY <1>2, <1>3 DEF Watched
  <2>2. g # f
    BY <2>1, Descriptors
  <2>3. owner[g] = NoConn
    BY <1>4, <2>2
  <2>4. g = MinusOneBit /\ -1 \in clients \ clientSocketsToClear
    BY <2>1, <2>3 DEF BitsInv
  <2>5. f # -1
    BY <2>1, <2>4, Descriptors
  <2> QED BY <2>4, <2>5, <1>5
<1>12. OtherClientsPolled'
  <2> SUFFICES ASSUME NEW g \in ClientFds \ {MinusOneBit}, owner'[g] # NoConn
               PROVE  g \in openSockets' /\ g <= maxfds'
    BY DEF OtherClientsPolled, PolledWithin
  <2>1. g # f
    BY <1>4, Descriptors
  <2>2. g \in openSockets /\ g <= maxfds
    BY <2>1, <1>4 DEF OtherClientsPolled, PolledWithin
  <2>3. g # Bit(f)
    BY <2>1, <1>1 DEF Bit
  <2> QED BY <2>2, <2>3, <1>2, <1>3
<1>13. StopsOnlyByMinusOne'
  BY <1>5 DEF StopsOnlyByMinusOne
<1> QED BY <1>6, <1>7, <1>8, <1>9, <1>10, <1>11, <1>12, <1>13

\* A recv() takes some of what has arrived and no more than buffer holds.
LEMMA TakenIs ==
  ASSUME TypeOK, NEW f, Received(f) > 0, f \in ClientFds, owner[f] \in Conns
  PROVE  /\ Received(f) = pending[owner[f]] /\ Received(f) \in 1..MaxMsg
         /\ Taken(f) \in 1..Received(f)
<1>1. Received(f) = pending[owner[f]] /\ Received(f) \in 1..MaxMsg
  BY BoundAssumption, ConnsAssumption DEF Received, TypeOK
<1> QED BY <1>1, BoundAssumption DEF Taken

\* A message is read from a connection, never from -1.
LEMMA RecvMessageStep ==
  ASSUME DescriptorInv, NEW f \in clients, RecvMessage(f)
  PROVE  DescriptorInv'
<1> USE DEF DescriptorInv
<1>1. f \in ClientFds /\ owner[f] # NoConn /\ owner[f] \in Conns
      /\ f \in Int /\ f > cursor
  BY Descriptors DEF RecvMessage, Received, NextClient, Reported, TypeOK
<1>2. /\ Received(f) = pending[owner[f]] /\ Received(f) \in 1..MaxMsg
      /\ Taken(f) \in 1..Received(f)
  BY <1>1, TakenIs DEF RecvMessage
<1>3. buffer' \in Seq(Conns)
  BY <1>1, <1>2, OverlayType, BoundAssumption DEF RecvMessage
<1>4. TypeOK'
  <2>1. pending[owner[f]] - Taken(f) \in 0..MaxMsg
    BY <1>2, BoundAssumption
  <2>2. pending' \in [Conns -> 0..MaxMsg]
    BY <1>1, <2>1 DEF TypeOK, RecvMessage
  <2> QED BY <1>1, <1>3, <2>2, BoundAssumption DEF TypeOK, RecvMessage, sets, Keys
<1>5. WalkInv'
  <2>1. clientSocketsToClear \subseteq Int /\ cursor \in Int
    BY Descriptors DEF TypeOK
  <2>2. \A g \in clientSocketsToClear : g <= cursor
    BY DEF WalkInv, RecvMessage
  <2>3. \A g \in clientSocketsToClear : g <= f
    BY <1>1, <2>1, <2>2
  <2> QED BY <1>1, <2>3 DEF WalkInv, RecvMessage, sets
<1>6. QueueInv'
  BY DEF QueueInv, RecvMessage
<1>7. pc' # "stopped"
  BY DEF RecvMessage
<1> QED BY <1>4, <1>5, <1>6, <1>7, SetsUntouched DEF RecvMessage, sets

\* The walk is over: the entries of closed descriptors go.
LEMMA WalkEndsStep ==
  ASSUME DescriptorInv, WalkEnds
  PROVE  DescriptorInv'
<1> USE DEF DescriptorInv, WalkEnds, RemainingClients
<1>1. TypeOK'
  BY DEF TypeOK, kernelVars, walk, text
<1>2. TableMatchesKernel'
  BY DEF TableMatchesKernel, kernelVars
<1>3. WalkInv' /\ QueueInv'
  BY DEF WalkInv, QueueInv
<1>4. MaxInv'
  BY DEF MaxInv
<1>5. BitsInv'
  BY DEF BitsInv, Watched, kernelVars
<1>6. OtherClientsPolled' /\ StopsOnlyByMinusOne'
  BY DEF OtherClientsPolled, PolledWithin, StopsOnlyByMinusOne, kernelVars
<1> QED BY <1>1, <1>2, <1>3, <1>4, <1>5, <1>6

\* The bottom of the loop.
LEMMA ReportStep ==
  ASSUME DescriptorInv, Report
  PROVE  DescriptorInv'
<1> USE DEF DescriptorInv, Report
<1>1. TypeOK'
  BY DEF TypeOK, kernelVars, sets, walk, text
<1>2. WalkInv' /\ QueueInv'
  BY DEF WalkInv, QueueInv, kernelVars, sets, walk
<1> QED BY <1>1, <1>2, SetsUntouched DEF kernelVars, sets

\* clientCommand() touches the reply and its client's socket only.
LEMMA CommandStep ==
  ASSUME DescriptorInv, Command \/ CommandEnds
  PROVE  DescriptorInv'
<1> USE DEF DescriptorInv, Command, NoReply, RunCommand, CommandEnds,
            SendSome, SendDone, SendToClosed, SendReset, SendKills
<1>1. UNCHANGED <<owner, queue, pending, sets, walk, buffer, clientLenOK>>
      /\ pc \in {"command", "running", "send", "sending"}
      /\ pc' \in {"clients", "running", "send", "sending", "killed"}
  BY DEF kernelVars, text
<1>2. owner[cursor] \in Conns
  BY <1>1 DEF WalkInv, TypeOK
<1>3. TypeOK'
  <2>1. unread' \in [Conns -> 0..SndCap]
    <3>1. CASE SendSome
      <4>1. unread[owner[cursor]] + 1 \in 0..SndCap
        BY <3>1, <1>2, BoundAssumption DEF TypeOK
      <4> QED BY <3>1, <4>1 DEF TypeOK
    <3>2. CASE ~SendSome
      BY <3>2 DEF TypeOK, kernelVars
    <3> QED BY <3>1, <3>2
  <2>2. peer' \in [Conns -> {"idle", "open"} \cup Gone]
    BY <1>2 DEF TypeOK, Gone, kernelVars
  <2>3. unsent' \in 0..(MaxOutput + 1)
    BY BoundAssumption DEF TypeOK, text
  <2> QED BY <1>1, <2>1, <2>2, <2>3 DEF TypeOK, sets, walk
<1>4. WalkInv' /\ QueueInv'
  BY <1>1 DEF WalkInv, QueueInv, sets, walk
<1> QED BY <1>1, <1>3, <1>4, SetsUntouched DEF sets

\* A step of neither the server nor a peer changes nothing of DescriptorInv.
LEMMA Stutter ==
  ASSUME DescriptorInv, UNCHANGED vars
  PROVE  DescriptorInv'
<1> USE DEF DescriptorInv, vars, kernelVars, serverVars, sets, walk, text
<1>1. TypeOK'
  BY DEF TypeOK
<1>2. WalkInv' /\ QueueInv'
  BY DEF WalkInv, QueueInv
<1> QED BY <1>1, <1>2, SetsUntouched

\* The cases above are all the steps there are.
LEMMA NextDescriptors ==
  ASSUME DescriptorInv, [Next]_vars
  PROVE  DescriptorInv'
<1>1. CASE Round
  BY <1>1, SelectStep, SelectFailsStep, AcceptStep, AcceptFailsStep,
     NothingStep, RecvEndsStep, RecvMessageStep, WalkEndsStep, ReportStep
     DEF Round
<1>2. CASE Command \/ CommandEnds
  BY <1>2, CommandStep
<1>3. CASE \E c \in Conns : Peer(c)
  BY <1>3, PeerStep
<1>4. CASE UNCHANGED vars
  BY <1>4, Stutter
<1> QED BY <1>1, <1>2, <1>3, <1>4 DEF Next, Server

-----------------------------------------------------------------------------
(* Every step keeps RoundInv.                                              *)

\* Before the first round nothing is open, reported or counted.
LEMMA InitRound == Init => RoundInv
<1> SUFFICES ASSUME Init PROVE RoundInv
  OBVIOUS
<1> USE DEF Init
<1>1. PlaceInv
  BY ConnsAssumption DEF PlaceInv, Attached
<1>2. LiveInv
  BY DEF LiveInv
<1>3. ReadyInv /\ CountInv /\ BufferInv
  BY DEF ReadyInv, CountInv, BufferInv, InRound
<1>4. OnlyStdUnhandled
  BY DEF OnlyStdUnhandled
<1> QED BY <1>1, <1>2, <1>3, <1>4 DEF RoundInv

\* The descriptors ahead can be counted, before a step and after it.
LEMMA AheadFinite ==
  /\ IsFiniteSet(Ahead) /\ Cardinality(Ahead) \in Nat
  /\ IsFiniteSet(Ahead') /\ Cardinality(Ahead') \in Nat
<1>1. ListenSock + 1 \in Int /\ MaxFd \in Int
  BY FdAssumption
<1>2. IsFiniteSet(ClientFds)
  BY <1>1, FS_Interval DEF ClientFds
<1>3. Ahead \subseteq ClientFds /\ Ahead' \subseteq ClientFds
  BY DEF Ahead
<1>4. IsFiniteSet(Ahead) /\ IsFiniteSet(Ahead')
  BY <1>2, <1>3, FS_Subset
<1> QED BY <1>4, FS_CardinalityType

\* The connections stay where they are.
LEMMA PlacesKept ==
  ASSUME PlaceInv, LiveInv, UNCHANGED <<owner, queue, clientLenOK>>,
         \A c \in Conns : /\ peer'[c] = "idle" => peer[c] = "idle"
                          /\ peer'[c] = "open" => peer[c] = "open"
  PROVE  PlaceInv' /\ LiveInv'
<1>1. PlaceInv'
  BY DEF PlaceInv, Attached
<1>2. LiveInv'
  BY DEF LiveInv, Attached
<1> QED BY <1>1, <1>2

\* What is ahead stays ready while nobody is read from, closed or accepted.
LEMMA ReadinessKept ==
  ASSUME DescriptorInv, RoundInv,
         UNCHANGED <<owner, clients, readSockets, n, cursor, buffer>>,
         InRound' => InRound,
         pc' = "accept" <=> pc = "accept",
         pc' = "report" => pc = "report",
         \A c \in Conns : pending[c] > 0 \/ peer[c] \in Gone =>
                            pending'[c] > 0 \/ peer'[c] \in Gone
  PROVE  ReadyInv' /\ CountInv' /\ BufferInv' /\ OnlyStdUnhandled'
<1> USE DEF DescriptorInv, RoundInv
<1>1. Ahead' = Ahead
  BY DEF Ahead
<1>2. ReadyInv'
  <2>1. \A f \in Ahead : owner[f] # NoConn => owner[f] \in Conns
    BY DEF Ahead, TypeOK
  <2> QED BY <1>1, <2>1 DEF ReadyInv
<1>3. CountInv'
  BY <1>1 DEF CountInv
<1>4. BufferInv'
  BY DEF BufferInv
<1>5. OnlyStdUnhandled'
  BY DEF OnlyStdUnhandled
<1> QED BY <1>2, <1>3, <1>4, <1>5

\* A new connection is in the queue and nowhere else; requests and hanging up
\* only make a client readable.
LEMMA PeerRound ==
  ASSUME DescriptorInv, RoundInv, NEW c \in Conns, Peer(c)
  PROVE  RoundInv'
<1> USE DEF DescriptorInv, RoundInv
<1>1. UNCHANGED serverVars /\ UNCHANGED owner
  BY DEF Peer, Connect, Request, ReadReply, HangUp
<1>2. UNCHANGED <<pc, clients, readSockets, n, cursor, buffer, clientLenOK>>
  BY <1>1 DEF serverVars, sets, walk, text
<1>3. \A d \in Conns : pending[d] > 0 \/ peer[d] \in Gone =>
                         pending'[d] > 0 \/ peer'[d] \in Gone
  <2>1. CASE Connect(c)
    BY <2>1 DEF Connect, TypeOK, Gone
  <2>2. CASE Request(c)
    BY <2>2, BoundAssumption DEF Request, TypeOK
  <2>3. CASE ReadReply(c)
    BY <2>3 DEF ReadReply
  <2>4. CASE HangUp(c)
    BY <2>4 DEF HangUp, TypeOK, Gone
  <2> QED BY <2>1, <2>2, <2>3, <2>4 DEF Peer
<1>4. ReadyInv' /\ CountInv' /\ BufferInv' /\ OnlyStdUnhandled'
  BY <1>1, <1>2, <1>3, ReadinessKept DEF InRound
<1>5. PlaceInv' /\ LiveInv'
  <2>1. CASE Connect(c)
    <3>1. queue \in Seq(Conns) /\ queue' = Append(queue, c) /\ ~Attached(c)
      BY <2>1 DEF Connect, TypeOK, PlaceInv
    <3>2. /\ Len(queue) \in Nat
          /\ Len(queue') = Len(queue) + 1
          /\ queue'[Len(queue) + 1] = c
          /\ \A i \in 1..Len(queue) : queue'[i] = queue[i] /\ queue[i] # c
      BY <3>1 DEF Attached
    <3>3. \A f \in ClientFds : owner'[f] = owner[f] /\ owner[f] # c
      BY <1>1, <3>1 DEF Attached
    <3>4. peer'[c] = "open" /\ \A d \in Conns \ {c} : peer'[d] = peer[d]
      BY <2>1 DEF Connect, TypeOK
    <3>5. \A d \in Conns : Attached(d)' <=> d = c \/ Attached(d)
      BY <3>2, <3>3 DEF Attached
    <3>6. \A i, j \in 1..Len(queue') : queue'[i] = queue'[j] => i = j
      BY <3>2 DEF PlaceInv
    <3>7. \A f \in ClientFds : \A i \in 1..Len(queue') : owner'[f] # queue'[i]
      BY <3>2, <3>3 DEF PlaceInv
    <3>8. PlaceInv'
      BY <3>3, <3>4, <3>5, <3>6, <3>7 DEF PlaceInv
    <3>9. LiveInv'
      BY <1>2, <3>4, <3>5 DEF LiveInv
    <3> QED BY <3>8, <3>9
  <2>2. CASE ~Connect(c)
    <3>1. queue' = queue
      BY <2>2 DEF Peer, Request, ReadReply, HangUp
    <3>2. \A d \in Conns : /\ peer'[d] = "idle" => peer[d] = "idle"
                           /\ peer'[d] = "open" => peer[d] = "open"
      BY <2>2 DEF Peer, Request, ReadReply, HangUp, TypeOK
    <3> QED BY <1>1, <1>2, <3>1, <3>2, PlacesKept
  <2> QED BY <2>1, <2>2
<1> QED BY <1>4, <1>5

\* With no standard descriptor reported, select() counts the clients ahead and
\* the listening socket.
LEMMA SelectCounts ==
  ASSUME Select, readSockets' \cap StdFds = {}
  PROVE  /\ readSockets' \subseteq ClientFds \cup {ListenSock}
         /\ n' = Cardinality(Ahead')
                   + (IF ListenSock \in readSockets' THEN 1 ELSE 0)
<1>1. Ahead' = readSockets' \cap ClientFds
  BY DEF Ahead, Select
<1>2. readSockets' \subseteq ClientFds \cup {ListenSock}
  BY DEF Select, Readable
<1>3. IsFiniteSet(Ahead') /\ Cardinality(Ahead') \in Nat
  BY AheadFinite
<1>4. n' = Cardinality(readSockets')
  BY DEF Select
<1>5. CASE ListenSock \in readSockets'
  <2>1. readSockets' = Ahead' \cup {ListenSock} /\ ListenSock \notin Ahead'
    BY <1>1, <1>2, <1>5, Descriptors
  <2>2. Cardinality(readSockets') = Cardinality(Ahead') + 1
    BY <2>1, <1>3, FS_AddElement
  <2> QED BY <1>2, <1>4, <1>5, <2>2
<1>6. CASE ListenSock \notin readSockets'
  <2>1. readSockets' = Ahead'
    BY <1>1, <1>2, <1>6
  <2>2. Cardinality(readSockets') = Cardinality(Ahead')
    BY <2>1
  <2> QED BY <1>2, <1>3, <1>4, <1>6, <2>2
<1> QED BY <1>5, <1>6

\* select() reports only what is ready, and counts what it reports.
LEMMA SelectRound ==
  ASSUME DescriptorInv, RoundInv, Select
  PROVE  RoundInv'
<1> USE DEF DescriptorInv, RoundInv, Select, RoundStarts
<1>1. PlaceInv' /\ LiveInv'
  BY PlacesKept DEF kernelVars
<1>2. PICK std \in SUBSET StdFds :
        readSockets' = Watched \cap (Readable \cup std)
  OBVIOUS
<1>3. Ahead' = readSockets' \cap ClientFds
  BY DEF Ahead
<1>4. ClientFds \cap StdFds = {} /\ ListenSock \notin ClientFds
  BY FdAssumption DEF ClientFds, StdFds
<1>5. ReadyInv'
  <2>1. Ahead' \subseteq Readable \ {ListenSock}
    BY <1>2, <1>3, <1>4
  <2>2. \A f \in Ahead' : /\ owner[f] # NoConn
                          /\ pending[owner[f]] > 0 \/ peer[owner[f]] \in Gone
    BY <2>1 DEF Readable
  <2> QED BY <2>2 DEF ReadyInv, kernelVars
<1>6. CountInv'
  <2>1. Cardinality(Ahead') \in Nat
    BY AheadFinite
  <2>2. ASSUME readSockets' \cap StdFds = {}
        PROVE  n' = Cardinality(Ahead')
                      + (IF ListenSock \in readSockets' THEN 1 ELSE 0)
    BY <2>2, SelectCounts
  <2> QED BY <2>1, <2>2 DEF CountInv
<1>7. BufferInv'
  BY DEF BufferInv, ClearedBuffer
<1>8. OnlyStdUnhandled'
  BY DEF OnlyStdUnhandled
<1> QED BY <1>1, <1>5, <1>6, <1>7, <1>8

\* After EBADF there is no round.
LEMMA SelectFailsRound ==
  ASSUME DescriptorInv, RoundInv, SelectFails
  PROVE  RoundInv'
<1> USE DEF RoundInv, SelectFails, RoundStarts
<1>1. PlaceInv' /\ LiveInv'
  BY PlacesKept DEF kernelVars
<1>2. ReadyInv' /\ CountInv' /\ BufferInv'
  BY DEF ReadyInv, CountInv, BufferInv, InRound
<1>3. OnlyStdUnhandled'
  BY DEF OnlyStdUnhandled
<1> QED BY <1>1, <1>2, <1>3

\* Once accept() is over, the walk starts with all that was reported ahead of
\* it, provided the descriptors reported keep their connections.
LEMMA WalkBegins ==
  ASSUME DescriptorInv, RoundInv, pc = "accept", pc' \in {"clients", "report"},
         cursor' = -2, UNCHANGED <<readSockets, buffer, pending, peer>>,
         \A f \in Ahead : owner'[f] = owner[f],
         n' = (IF ListenSock \in readSockets THEN n - 1 ELSE n),
         pc' = "report" => ~(n' > 0)
  PROVE  ReadyInv' /\ CountInv' /\ BufferInv' /\ OnlyStdUnhandled'
<1> USE DEF DescriptorInv, RoundInv
<1>1. \A f \in ClientFds : f > -2
  BY Descriptors
<1>2. Ahead' = Ahead
  BY <1>1 DEF Ahead
<1>3. ReadyInv'
  BY <1>2 DEF ReadyInv, InRound
<1>4. CountInv'
  <2>1. Cardinality(Ahead) \in Nat /\ n \in Int
    BY AheadFinite DEF TypeOK
  <2> QED BY <1>2, <2>1 DEF CountInv, InRound
<1>5. BufferInv'
  BY DEF BufferInv
<1>6. OnlyStdUnhandled'
  BY DEF OnlyStdUnhandled
<1> QED BY <1>3, <1>4, <1>5, <1>6

\* The connection accepted moves from the head of the queue to a descriptor
\* that was free and so is not among those reported.
LEMMA AcceptRound ==
  ASSUME DescriptorInv, RoundInv, Accept
  PROVE  RoundInv'
<1> USE DEF DescriptorInv, RoundInv
<1>1. PICK f \in FreeFds : /\ owner' = [owner EXCEPT ![f] = Head(queue)]
                           /\ Register(f)
  BY DEF Accept
<1>2. f \in ClientFds /\ owner[f] = NoConn
  BY <1>1 DEF FreeFds
<1>3. queue \in Seq(Conns) /\ queue # <<>> /\ queue' = Tail(queue)
  BY DEF Accept, QueueInv, TypeOK
<1>4. /\ Len(queue) \in Nat \ {0}
      /\ Head(queue) = queue[1] /\ queue[1] \in Conns
      /\ Len(queue') = Len(queue) - 1
      /\ \A i \in 1..Len(queue') : i + 1 \in 2..Len(queue)
      /\ \A i \in 1..Len(queue') : queue'[i] = queue[i + 1]
  BY <1>3
<1>5. owner'[f] = queue[1] /\ \A g \in ClientFds \ {f} : owner'[g] = owner[g]
  BY <1>1, <1>2, <1>4 DEF TypeOK
<1>6. PlaceInv'
  <2>1. \A g, h \in ClientFds :
          owner'[g] # NoConn /\ owner'[g] = owner'[h] => g = h
    BY <1>2, <1>4, <1>5 DEF PlaceInv
  <2>2. \A i, j \in 1..Len(queue') : queue'[i] = queue'[j] => i = j
    BY <1>4 DEF PlaceInv
  <2>3. \A g \in ClientFds : \A i \in 1..Len(queue') : owner'[g] # queue'[i]
    BY <1>4, <1>5 DEF PlaceInv
  <2>4. \A c \in Conns : Attached(c)' => Attached(c)
    BY <1>4, <1>5 DEF Attached
  <2>5. peer' = peer
    BY DEF Accept
  <2> QED BY <2>1, <2>2, <2>3, <2>4, <2>5 DEF PlaceInv
<1>7. LiveInv'
  <2>1. \A c \in Conns : Attached(c) => Attached(c)'
    <3> SUFFICES ASSUME NEW c \in Conns, Attached(c) PROVE Attached(c)'
      OBVIOUS
    <3>1. CASE \E g \in ClientFds : owner[g] = c
      BY <3>1, <1>2, <1>5, ConnsAssumption DEF Attached
    <3>2. CASE \E i \in 1..Len(queue) : queue[i] = c
      <4>1. PICK i \in 1..Len(queue) : queue[i] = c
        BY <3>2
      <4>2. CASE i = 1
        BY <4>1, <4>2, <1>2, <1>5 DEF Attached
      <4>3. CASE i # 1
        <5>1. i - 1 \in 1..Len(queue') /\ queue'[i - 1] = c
          BY <4>1, <4>3, <1>4
        <5> QED BY <5>1 DEF Attached
      <4> QED BY <4>2, <4>3
    <3> QED BY <3>1, <3>2 DEF Attached
  <2>2. peer' = peer /\ clientLenOK' = clientLenOK
    BY <1>1 DEF Accept, Register, text
  <2> QED BY <2>1, <2>2 DEF LiveInv
<1>8. f \notin Ahead
  BY <1>2 DEF ReadyInv, InRound, Accept
<1>9. \A g \in Ahead : owner'[g] = owner[g]
  BY <1>5, <1>8 DEF Ahead
<1>10. ReadyInv' /\ CountInv' /\ BufferInv' /\ OnlyStdUnhandled'
  BY <1>1, <1>9, WalkBegins DEF Accept, Register, LeftAfterAccept, text
<1> QED BY <1>6, <1>7, <1>10

\* A failed accept() moves no connection; it loses one only when clientLen is
\* not usable.
LEMMA AcceptFailsRound ==
  ASSUME DescriptorInv, RoundInv, AcceptFails
  PROVE  RoundInv'
<1> USE DEF DescriptorInv, RoundInv
<1>1. UNCHANGED <<owner, pending, unread, peer, clientLenOK>>
  BY DEF AcceptFails, Register, text
<1>2. PlaceInv' /\ LiveInv'
  <2>1. CASE queue' = queue
    BY <2>1, <1>1, PlacesKept
  <2>2. CASE queue' # queue
    <3>1. queue \in Seq(Conns) /\ queue # <<>> /\ queue' = Tail(queue)
          /\ ~clientLenOK
      BY <2>2 DEF AcceptFails, QueueInv, TypeOK
    <3>2. /\ Len(queue) \in Nat \ {0}
          /\ Len(queue') = Len(queue) - 1
          /\ \A i \in 1..Len(queue') : i + 1 \in 2..Len(queue)
          /\ \A i \in 1..Len(queue') : queue'[i] = queue[i + 1]
      BY <3>1
    <3>3. \A c \in Conns : Attached(c)' => Attached(c)
      BY <3>2, <1>1 DEF Attached
    <3>4. \A i, j \in 1..Len(queue') : queue'[i] = queue'[j] => i = j
      BY <3>2 DEF PlaceInv
    <3>5. \A g \in ClientFds : \A i \in 1..Len(queue') : owner'[g] # queue'[i]
      BY <3>2, <1>1 DEF PlaceInv
    <3>6. PlaceInv'
      BY <1>1, <3>3, <3>4, <3>5 DEF PlaceInv
    <3>7. LiveInv'
      BY <1>1, <3>1 DEF LiveInv
    <3> QED BY <3>6, <3>7
  <2> QED BY <2>1, <2>2
<1>3. ReadyInv' /\ CountInv' /\ BufferInv' /\ OnlyStdUnhandled'
  BY <1>1, WalkBegins DEF AcceptFails, Register, LeftAfterAccept, text
<1> QED BY <1>2, <1>3

\* Nobody to accept, and so nobody to count.
LEMMA NothingRound ==
  ASSUME DescriptorInv, RoundInv, NothingToAccept
  PROVE  RoundInv'
<1> USE DEF RoundInv
<1>1. PlaceInv' /\ LiveInv'
  BY PlacesKept DEF NothingToAccept, kernelVars, text
<1>2. ReadyInv' /\ CountInv' /\ BufferInv' /\ OnlyStdUnhandled'
  BY WalkBegins DEF NothingToAccept, kernelVars, sets, text
<1> QED BY <1>1, <1>2

\* Visiting the next client takes one descriptor off those ahead: none is
\* passed over, for they are all still in the map.
LEMMA Visit ==
  ASSUME DescriptorInv, RoundInv, pc = "clients", NEW f \in clients,
         NextClient(f), cursor' = f, readSockets' = readSockets,
         pc' # "accept"
  PROVE  /\ Ahead' = Ahead \ {f}
         /\ f # -1 => f \in Ahead
         /\ \A g \in Ahead' : g > f
         /\ Cardinality(Ahead) - 1 <= Cardinality(Ahead')
         /\ f \in Ahead => Cardinality(Ahead') = Cardinality(Ahead) - 1
<1> USE DEF DescriptorInv, RoundInv
<1>1. f \in Keys /\ f > cursor /\ Bit(f) \in readSockets
  BY DEF TypeOK, NextClient, Reported
<1>2. f # -1 => f \in Ahead
  BY <1>1, Descriptors DEF Keys, Ahead
<1>3. \A g \in Ahead : g \in clients /\ Reported(g)
  <2> SUFFICES ASSUME NEW g \in Ahead PROVE g \in clients /\ Reported(g)
    OBVIOUS
  <2>1. g \in ClientFds /\ g \in readSockets /\ g > cursor
    BY DEF Ahead
  <2>2. owner[g] # NoConn
    BY DEF ReadyInv, InRound
  <2>3. g \in clients
    BY <2>1, <2>2 DEF TableMatchesKernel
  <2> QED BY <2>1, <2>3, Descriptors DEF Reported
<1>4. \A g \in Ahead : f <= g
  BY <1>3 DEF NextClient
<1>5. f \in Int /\ cursor \in Int /\ \A g \in ClientFds : g \in Int
  BY <1>1, Descriptors DEF TypeOK
<1>6. Ahead \subseteq ClientFds /\ Ahead' \subseteq ClientFds
  BY DEF Ahead
<1>7. ASSUME NEW g \in ClientFds
      PROVE  /\ g \in Ahead' <=> g \in Ahead /\ g # f
             /\ g \in Ahead' => g > f
  <2>1. g \in Ahead <=> g \in readSockets /\ g > cursor
    BY DEF Ahead
  <2>2. g \in Ahead' <=> g \in readSockets /\ g > f
    BY DEF Ahead
  <2>3. g \in Ahead => f <= g
    BY <1>4
  <2> QED BY <1>1, <1>5, <2>1, <2>2, <2>3
<1>8. Ahead' = Ahead \ {f} /\ \A g \in Ahead' : g > f
  BY <1>6, <1>7
<1>9. IsFiniteSet(Ahead) /\ Cardinality(Ahead) \in Nat
  BY AheadFinite
<1>10. f \in Ahead => Cardinality(Ahead') = Cardinality(Ahead) - 1
  BY <1>8, <1>9, FS_RemoveElement
<1>11. Cardinality(Ahead) - 1 <= Cardinality(Ahead')
  <2>1. CASE f \in Ahead
    BY <2>1, <1>9, <1>10
  <2>2. CASE f \notin Ahead
    <3>1. Ahead' = Ahead
      BY <2>2, <1>8
    <3>2. Cardinality(Ahead') = Cardinality(Ahead)
      BY <3>1
    <3> QED BY <3>2, <1>9
  <2> QED BY <2>1, <2>2
<1> QED BY <1>2, <1>8, <1>10, <1>11

\* The count keeps up with the walk.
LEMMA VisitCounted ==
  ASSUME DescriptorInv, RoundInv, pc = "clients", NEW f \in clients,
         NextClient(f), cursor' = f, readSockets' = readSockets,
         pc' \in {"clients", "command"}, n' = n - 1
  PROVE  CountInv' /\ OnlyStdUnhandled'
<1>1. Cardinality(Ahead) - 1 <= Cardinality(Ahead')
  BY Visit
<1>2. Cardinality(Ahead) \in Nat /\ Cardinality(Ahead') \in Nat /\ n \in Int
  BY AheadFinite DEF DescriptorInv, TypeOK
<1>3. readSockets \cap StdFds = {} => n <= Cardinality(Ahead)
  BY <1>2 DEF RoundInv, CountInv, InRound
<1>4. CountInv'
  BY <1>1, <1>2, <1>3 DEF CountInv
<1> QED BY <1>4 DEF OnlyStdUnhandled

\* A client is closed when it was reported and has nothing left to read: its
\* peer has hung up.
LEMMA EndsFinished ==
  ASSUME DescriptorInv, RoundInv, NEW f \in clients, RecvEnds(f), f # -1
  PROVE  /\ f \in ClientFds /\ owner[f] \in Conns
         /\ peer[owner[f]] \in Gone /\ pending[owner[f]] = 0
<1>1. f \in Ahead
  BY Visit DEF RecvEnds
<1>2. f \in ClientFds /\ owner[f] # NoConn
      /\ (pending[owner[f]] > 0 \/ peer[owner[f]] \in Gone)
  BY <1>1 DEF RoundInv, ReadyInv, InRound, RecvEnds, Ahead
<1>3. owner[f] \in Conns
  BY <1>2 DEF DescriptorInv, TypeOK
<1>4. pending[owner[f]] = 0
  BY <1>2 DEF RecvEnds, Ends, Received
<1> QED BY <1>2, <1>3, <1>4

\* Closing a client leaves no connection behind whose peer still waits.
LEMMA RecvEndsRound ==
  ASSUME DescriptorInv, RoundInv, NEW f \in clients, RecvEnds(f)
  PROVE  RoundInv'
<1> USE DEF DescriptorInv, RoundInv
<1>1. /\ f # -1 => owner'[f] = NoConn
      /\ \A g \in ClientFds \ {f} : owner'[g] = owner[g]
      /\ \A g \in ClientFds : owner'[g] # NoConn => owner'[g] = owner[g]
  BY DEF RecvEnds, CloseClient, TypeOK, Keys
<1>2. /\ UNCHANGED <<queue, pending, peer, pc, clients, readSockets, buffer,
                     clientLenOK>>
      /\ pc = "clients" /\ cursor' = f /\ n' = n - 1 /\ NextClient(f)
  BY DEF RecvEnds, text
<1>3. PlaceInv'
  <2>1. \A g, h \in ClientFds :
          owner'[g] # NoConn /\ owner'[g] = owner'[h] => g = h
    BY <1>1 DEF PlaceInv
  <2>2. \A i \in 1..Len(queue) : queue[i] \in Conns
    BY DEF TypeOK
  <2>3. \A g \in ClientFds : \A i \in 1..Len(queue) : owner'[g] # queue[i]
    BY <1>1, <2>2, ConnsAssumption DEF PlaceInv
  <2>4. \A c \in Conns : Attached(c)' => Attached(c)
    BY <1>1, <1>2, ConnsAssumption DEF Attached
  <2> QED BY <1>2, <2>1, <2>3, <2>4 DEF PlaceInv
<1>4. LiveInv'
  <2>1. ASSUME NEW c \in Conns, peer[c] = "open", Attached(c)
        PROVE  Attached(c)'
    <3>1. f \in ClientFds => owner[f] # c
      BY <2>1, EndsFinished, Descriptors DEF Gone
    <3> QED BY <2>1, <3>1, <1>1, <1>2 DEF Attached
  <2> QED BY <2>1, <1>2 DEF LiveInv
<1>5. ReadyInv'
  <2>1. Ahead' = Ahead \ {f} /\ Ahead \subseteq ClientFds
    BY <1>2, Visit DEF Ahead
  <2> QED BY <1>1, <1>2, <2>1 DEF ReadyInv, InRound
<1>6. CountInv' /\ OnlyStdUnhandled'
  BY <1>2, VisitCounted
<1>7. BufferInv'
  <2>1. f \in Int /\ cursor \in Int /\ f > cursor
    BY <1>2, Descriptors DEF TypeOK, NextClient, Reported
  <2>2. ASSUME NEW i \in 1..Len(buffer)
        PROVE  \E g \in readSockets \cap ClientFds :
                 g \in clients /\ g <= f /\ owner'[g] = buffer[i]
    <3>1. PICK g \in readSockets \cap ClientFds :
            g \in clients /\ g <= cursor /\ owner[g] = buffer[i]
      BY <1>2 DEF BufferInv, InRound
    <3>2. g \in Int /\ g <= f /\ g # f
      BY <2>1, <3>1, Descriptors
    <3> QED BY <1>1, <3>1, <3>2
  <2> QED BY <1>2, <2>2 DEF BufferInv
<1> QED BY <1>3, <1>4, <1>5, <1>6, <1>7

\* The text in front is the client's own; what is behind it was there before.
LEMMA RecvMessageRound ==
  ASSUME DescriptorInv, RoundInv, NEW f \in clients, RecvMessage(f)
  PROVE  RoundInv'
<1> USE DEF DescriptorInv, RoundInv
<1>1. /\ UNCHANGED <<owner, queue, peer, clients, readSockets, clientLenOK>>
      /\ pc = "clients" /\ pc' = "command" /\ cursor' = f /\ n' = n - 1
      /\ NextClient(f)
  BY DEF RecvMessage, sets
<1>2. PlaceInv' /\ LiveInv'
  BY <1>1, PlacesKept
<1>3. f \in ClientFds /\ owner[f] # NoConn /\ owner[f] \in Conns
  BY DEF RecvMessage, Received, TypeOK
<1>4. f \in Ahead /\ Ahead' = Ahead \ {f} /\ Ahead \subseteq ClientFds
  BY <1>1, <1>3, Visit, Descriptors DEF Ahead
<1>5. ReadyInv'
  <2>1. \A c \in Conns \ {owner[f]} : pending'[c] = pending[c]
    BY DEF RecvMessage, TypeOK
  <2>2. \A g \in Ahead' :
          owner[g] # NoConn /\ owner[g] \in Conns \ {owner[f]}
    BY <1>1, <1>3, <1>4 DEF ReadyInv, InRound, PlaceInv, TypeOK
  <2> QED BY <1>1, <1>4, <2>1, <2>2 DEF ReadyInv, InRound
<1>6. CountInv' /\ OnlyStdUnhandled'
  BY <1>1, VisitCounted
<1>7. BufferInv'
  <2>1. f \in Int /\ cursor \in Int /\ f > cursor
    BY <1>1, Descriptors DEF TypeOK, NextClient, Reported
  <2>2. Taken(f) \in Nat /\ Len(buffer) \in Nat
    BY <1>3, TakenIs, BoundAssumption DEF RecvMessage, TypeOK
  <2> DEFINE k == Max({Taken(f), Len(buffer)})
             read == [i \in 1..k |-> IF i <= Taken(f)
                                       THEN owner[f] ELSE buffer[i]]
  <2>3. k \in Nat /\ k \in {Taken(f), Len(buffer)}
    BY <2>2, MaxOfTwo
  <2>4. buffer' = read
    BY DEF RecvMessage, Overlay
  <2> HIDE DEF k
  <2>5. Len(read) = k
    BY <2>3
  <2>6. f \in readSockets
    BY <1>4 DEF Ahead
  <2>7. ASSUME NEW i \in 1..k
        PROVE  \E g \in readSockets \cap ClientFds :
                 g \in clients /\ g <= f /\ owner[g] = read[i]
    <3>1. CASE i <= Taken(f)
      <4>1. read[i] = owner[f]
        BY <3>1
      <4> QED BY <4>1, <2>1, <2>6, <1>3
    <3>2. CASE ~(i <= Taken(f))
      <4>1. i \in 1..Len(buffer) /\ read[i] = buffer[i]
        BY <3>2, <2>2, <2>3
      <4>2. PICK g \in readSockets \cap ClientFds :
              g \in clients /\ g <= cursor /\ owner[g] = buffer[i]
        BY <4>1, <1>1 DEF BufferInv, InRound
      <4>3. g <= f
        BY <4>2, <2>1, Descriptors
      <4> QED BY <4>1, <4>2, <4>3
    <3> QED BY <3>1, <3>2
  <2>8. \A i \in 1..Len(buffer') : \E g \in readSockets \cap ClientFds :
          g \in clients /\ g <= f /\ owner[g] = buffer'[i]
    BY <2>4, <2>5, <2>7
  <2> QED BY <1>1, <2>8 DEF BufferInv
<1> QED BY <1>2, <1>5, <1>6, <1>7

\* When the walk is over nothing is ahead.
LEMMA WalkPassesAll ==
  ASSUME DescriptorInv, RoundInv, WalkEnds
  PROVE  Cardinality(Ahead) = 0
<1> USE DEF DescriptorInv, RoundInv, WalkEnds
<1>1. ASSUME NEW f \in Ahead PROVE FALSE
  <2>1. f \in ClientFds /\ f \in readSockets /\ f > cursor
    BY DEF Ahead
  <2>2. owner[f] # NoConn
    BY DEF ReadyInv, InRound
  <2>3. f \in clients /\ Reported(f)
    BY <2>1, <2>2, Descriptors DEF TableMatchesKernel, Reported
  <2> QED BY <2>3
<1>2. Ahead = {}
  BY <1>1
<1> QED BY <1>2, FS_EmptySet

\* Therefore what is still counted then was a standard descriptor.
LEMMA WalkEndsRound ==
  ASSUME DescriptorInv, RoundInv, WalkEnds
  PROVE  RoundInv'
<1> USE DEF DescriptorInv, RoundInv, WalkEnds
<1>1. PlaceInv' /\ LiveInv'
  BY PlacesKept DEF kernelVars, text
<1>2. ReadyInv' /\ CountInv' /\ BufferInv'
  BY DEF ReadyInv, CountInv, BufferInv, InRound
<1>3. readSockets \cap StdFds = {} => ~(n > 0)
  BY WalkPassesAll DEF CountInv, InRound, TypeOK
<1>4. OnlyStdUnhandled'
  BY <1>3 DEF OnlyStdUnhandled, walk
<1> QED BY <1>1, <1>2, <1>4

\* Between two rounds nothing is ahead.
LEMMA ReportRound ==
  ASSUME DescriptorInv, RoundInv, Report
  PROVE  RoundInv'
<1> USE DEF RoundInv, Report
<1>1. PlaceInv' /\ LiveInv'
  BY PlacesKept DEF kernelVars, text
<1>2. ReadyInv' /\ CountInv' /\ BufferInv'
  BY DEF ReadyInv, CountInv, BufferInv, InRound
<1>3. OnlyStdUnhandled'
  BY DEF OnlyStdUnhandled
<1> QED BY <1>1, <1>2, <1>3

\* A reply changes nothing but the state of a peer that has hung up.
LEMMA CommandRound ==
  ASSUME DescriptorInv, RoundInv, Command \/ CommandEnds
  PROVE  RoundInv'
<1> USE DEF DescriptorInv, RoundInv
<1>1. UNCHANGED <<owner, queue, pending, sets, walk, buffer, clientLenOK>>
      /\ pc \in {"command", "running", "send", "sending"}
      /\ pc' \in {"clients", "running", "send", "sending", "killed"}
  BY DEF Command, NoReply, RunCommand, CommandEnds, SendSome, SendDone, SendToClosed,
         SendReset, SendKills, kernelVars, text
<1>2. owner[cursor] \in Conns
  BY <1>1 DEF WalkInv, TypeOK
<1>3. peer' = peer
      \/ /\ peer[owner[cursor]] \in Gone
         /\ \E p \in Gone : peer' = [peer EXCEPT ![owner[cursor]] = p]
  BY DEF Command, NoReply, RunCommand, CommandEnds, SendSome, SendDone, SendToClosed,
         SendReset, SendKills, kernelVars, Gone
<1>4. \A c \in Conns : /\ peer'[c] = "idle" => peer[c] = "idle"
                       /\ peer'[c] = "open" => peer[c] = "open"
                       /\ peer[c] \in Gone => peer'[c] \in Gone
  BY <1>2, <1>3 DEF TypeOK, Gone
<1>5. PlaceInv' /\ LiveInv'
  BY <1>1, <1>4, PlacesKept
<1>6. ReadyInv' /\ CountInv' /\ BufferInv' /\ OnlyStdUnhandled'
  BY <1>1, <1>4, ReadinessKept DEF InRound, sets, walk
<1> QED BY <1>5, <1>6

\* A step of neither the server nor a peer changes nothing of RoundInv.
LEMMA StutterRound ==
  ASSUME DescriptorInv, RoundInv, UNCHANGED vars
  PROVE  RoundInv'
<1>1. PlaceInv' /\ LiveInv'
  BY PlacesKept DEF RoundInv, vars, kernelVars, serverVars, text
<1>2. ReadyInv' /\ CountInv' /\ BufferInv' /\ OnlyStdUnhandled'
  BY ReadinessKept
     DEF InRound, vars, kernelVars, serverVars, sets, walk, text
<1> QED BY <1>1, <1>2 DEF RoundInv

-----------------------------------------------------------------------------
(* The theorems.                                                           *)

\* Both parts hold when main() enters its loop.
LEMMA InitInv == Init => IInv
BY InitDescriptors, InitRound DEF IInv

\* Both parts are kept by every step.
LEMMA NextInv ==
  ASSUME IInv, [Next]_vars
  PROVE  IInv'
<1> USE DEF IInv
<1>1. DescriptorInv'
  BY NextDescriptors
<1>2. RoundInv'
  <2>1. CASE Round
    BY <2>1, SelectRound, SelectFailsRound, AcceptRound, AcceptFailsRound,
       NothingRound, RecvEndsRound, RecvMessageRound, WalkEndsRound,
       ReportRound DEF Round
  <2>2. CASE Command \/ CommandEnds
    BY <2>2, CommandRound
  <2>3. CASE \E c \in Conns : Peer(c)
    BY <2>3, PeerRound
  <2>4. CASE UNCHANGED vars
    BY <2>4, StutterRound
  <2> QED BY <2>1, <2>2, <2>3, <2>4 DEF Next, Server
<1> QED BY <1>1, <1>2

\* The inductive invariant holds in every behaviour of the server.
THEOREM Invariance == Spec => []IInv
<1> QED BY InitInv, NextInv, PTL DEF Spec

\* Every variable stays in its range: no lookup in main() or clientCommand()
\* leaves the tables, for any number of connections and descriptors.
THEOREM TypeCorrect == Spec => []TypeOK
<1>1. IInv => TypeOK
  BY DEF IInv, DescriptorInv
<1> QED BY <1>1, Invariance, PTL

\* The clients map and the kernel agree although closeClient() and erase()
\* are a whole walk apart.
THEOREM TableAgreement == Spec => []TableMatchesKernel
<1>1. IInv => TableMatchesKernel
  BY DEF IInv, DescriptorInv
<1> QED BY <1>1, Invariance, PTL

\* No failed accept(), closed client or garbage on the stack takes a client
\* other than the one on MinusOneBit out of what select() looks at.
THEOREM OthersPolled == Spec => []OtherClientsPolled
<1>1. IInv => OtherClientsPolled
  BY DEF IInv, DescriptorInv
<1> QED BY <1>1, Invariance, PTL

\* The loop ends only because of the bit of a failed accept(), whatever the
\* uninitialised fd_set held.
THEOREM GarbageHarmless == Spec => []StopsOnlyByMinusOne
<1>1. IInv => StopsOnlyByMinusOne
  BY DEF IInv, DescriptorInv
<1> QED BY <1>1, Invariance, PTL

\* "Not all sockets handled" is never said of a client: deferred erasing,
\* reuse of descriptors and failed calls make the walk miss nobody.
THEOREM OnlyStdLeft == Spec => []OnlyStdUnhandled
<1>1. IInv => OnlyStdUnhandled
  BY DEF IInv, RoundInv
<1> QED BY <1>1, Invariance, PTL

\* clientCommand() parses nothing that was not read in this round.
THEOREM ReadThisRound == Spec => []BufferFromThisRound
<1>1. IInv => BufferFromThisRound
  <2> SUFFICES ASSUME IInv, pc = "command"
               PROVE  \A i \in 1..Len(buffer) :
                        \E f \in readSockets \cap ClientFds :
                          f \in clients /\ owner[f] = buffer[i]
    BY DEF BufferFromThisRound
  <2>1. BufferInv /\ InRound
    BY DEF IInv, RoundInv, InRound
  <2> QED BY <2>1 DEF BufferInv
<1> QED BY <1>1, Invariance, PTL

\* No client is closed before it has hung up and been read to the end, nor
\* is a descriptor given to another connection while it is open.
THEOREM ClosesFinished == Spec => ClosesOnlyFinished
<1> DEFINE Finished ==
      \A f \in ClientFds :
        owner[f] # NoConn /\ owner'[f] # owner[f] =>
          peer[owner[f]] \in Gone /\ pending[owner[f]] = 0
<1>1. ASSUME IInv, [Next]_vars PROVE Finished
  <2>1. CASE UNCHANGED owner
    BY <2>1
  <2>2. CASE Accept
    BY <1>1, <2>2 DEF Accept, FreeFds, IInv, DescriptorInv, TypeOK
  <2>3. ASSUME NEW g \in clients, RecvEnds(g) PROVE Finished
    <3>1. \A f \in ClientFds \ {g} : owner'[f] = owner[f]
      BY <1>1, <2>3 DEF RecvEnds, CloseClient, IInv, DescriptorInv, TypeOK
    <3>2. g \in ClientFds =>
            peer[owner[g]] \in Gone /\ pending[owner[g]] = 0
      BY <1>1, <2>3, EndsFinished, Descriptors DEF IInv
    <3> QED BY <3>1, <3>2
  <2>4. UNCHANGED owner \/ Accept \/ \E g \in clients : RecvEnds(g)
    BY <1>1 DEF Next, Server, Round, Command, Select, SelectFails,
       RoundStarts, AcceptFails, NothingToAccept, RecvMessage, WalkEnds,
       Report, NoReply, RunCommand, CommandEnds, SendSome, SendDone, SendToClosed,
       SendReset, SendKills, Peer, Connect, Request, ReadReply, HangUp,
       vars, kernelVars
  <2> QED BY <2>1, <2>2, <2>3, <2>4
<1>2. IInv /\ [Next]_vars => [Finished]_vars
  BY <1>1
<1> QED BY <1>2, Invariance, PTL DEF Spec, ClosesOnlyFinished

-----------------------------------------------------------------------------
(* While accept() does not fail: no entry of -1, whatever the stack held    *)
(* and whatever the descriptor limit is.                                    *)

\* No accept() fails.
AcceptSucceeds == [][~AcceptFails]_vars

NoFailure == -1 \notin clients

\* Nothing else puts -1 into the map.
LEMMA NoFailureStep ==
  ASSUME NoFailure, [Next]_vars, [~AcceptFails]_vars
  PROVE  NoFailure'
<1>1. CASE AcceptFails
  BY <1>1 DEF vars, serverVars, sets, NoFailure
<1>2. CASE Accept
  BY <1>2, Descriptors DEF Accept, Register, FreeFds, NoFailure
<1>3. CASE WalkEnds
  BY <1>3 DEF WalkEnds, RemainingClients, NoFailure
<1>4. clients' = clients \/ Accept \/ AcceptFails \/ WalkEnds
  BY DEF Next, Server, Round, Command, Select, SelectFails, RoundStarts,
     NothingToAccept, RecvEnds, RecvMessage, Report, NoReply, RunCommand,
     CommandEnds, SendSome, SendDone, SendToClosed, SendReset, SendKills,
     Peer, Connect, Request, ReadReply, HangUp, vars, serverVars, sets
<1> QED BY <1>1, <1>2, <1>3, <1>4 DEF NoFailure

\* The map of main() starts empty.
LEMMA InitNoFailure == Init => NoFailure
BY DEF Init, NoFailure

\* The map holds descriptors only.
THEOREM NoFailureHolds == Spec /\ AcceptSucceeds => []NoFailure
<1>1. NoFailure /\ [Next]_vars /\ [~AcceptFails]_vars => NoFailure'
  BY NoFailureStep
<1> QED BY <1>1, InitNoFailure, PTL DEF Spec, AcceptSucceeds

\* Every client's bit is set: without an entry of -1 each bit is one client's.
BitsSet == \A f \in ClientFds : owner[f] # NoConn => f \in openSockets

\* A bit is cleared with the descriptor it is of, and set with it.
LEMMA BitsSetStep ==
  ASSUME DescriptorInv, NoFailure, BitsSet, [Next]_vars, [~AcceptFails]_vars
  PROVE  BitsSet'
<1>1. CASE Accept
  BY <1>1, Descriptors
     DEF Accept, Register, FreeFds, Bit, BitsSet, DescriptorInv, TypeOK
<1>2. ASSUME NEW g \in clients, RecvEnds(g)
      PROVE  BitsSet'
  <2>1. g # -1
    BY DEF NoFailure
  <2>2. /\ openSockets' = openSockets \ {g}
        /\ owner' = [owner EXCEPT ![g] = NoConn]
    BY <1>2, <2>1 DEF RecvEnds, CloseClient, ClearedBits, Bit
  <2>3. owner \in [ClientFds -> Conns \cup {NoConn}]
    BY DEF DescriptorInv, TypeOK
  <2> QED BY <2>2, <2>3 DEF BitsSet
<1>3. UNCHANGED <<owner, openSockets>> \/ Accept \/ \E g \in clients : RecvEnds(g)
  <2>1. CASE AcceptFails
    BY <2>1 DEF vars, kernelVars, serverVars, sets
  <2>2. CASE ~AcceptFails
    BY <2>2 DEF Next, Server, Round, Command, Select, SelectFails,
       RoundStarts, NothingToAccept, RecvMessage, WalkEnds, Report, NoReply,
       RunCommand, CommandEnds, SendSome, SendDone, SendToClosed, SendReset,
       SendKills, Peer, Connect, Request, ReadReply, HangUp, vars, kernelVars,
       serverVars, sets
  <2> QED BY <2>1, <2>2
<1> QED BY <1>1, <1>2, <1>3 DEF BitsSet

\* As long as accept() does not fail select() looks at every client, whichever
\* descriptors are closed and reused, and whatever the descriptor limit is.
THEOREM AllPolled == Spec /\ AcceptSucceeds => []EveryClientPolled
<1>1. Init => BitsSet
  BY DEF Init, BitsSet
<1>2. /\ IInv /\ NoFailure /\ BitsSet /\ [Next]_vars /\ [~AcceptFails]_vars
      => BitsSet'
  BY BitsSetStep DEF IInv
<1>3. IInv /\ BitsSet => EveryClientPolled
  BY DEF IInv, DescriptorInv, MaxInv, TableMatchesKernel, BitsSet,
         EveryClientPolled, PolledWithin
<1> QED BY <1>1, <1>2, <1>3, Invariance, NoFailureHolds, PTL
           DEF Spec, AcceptSucceeds

\* As long as accept() does not fail select() is never given a descriptor that
\* is closed, whatever bits the stack left in openSockets.
THEOREM OnlyOpenWatched == Spec /\ AcceptSucceeds => []OpenSocketsAreOpen
<1>1. IInv /\ NoFailure => OpenSocketsAreOpen
  BY DEF IInv, DescriptorInv, BitsInv, OpenSocketsAreOpen, FreeFds, NoFailure
<1> QED BY <1>1, Invariance, NoFailureHolds, PTL

\* n counts exactly what the walk has still to come to, and the standard
\* descriptors, which it never comes to.
ExactInv ==
  /\ InRound =>
       n = Cardinality(Ahead) + Cardinality(readSockets \cap StdFds)
             + (IF pc = "accept" /\ ListenSock \in readSockets THEN 1 ELSE 0)
  /\ AllHandled

\* There are finitely many standard descriptors.
LEMMA StdFinite ==
  /\ IsFiniteSet(readSockets \cap StdFds)
  /\ Cardinality(readSockets \cap StdFds) \in Nat
  /\ IsFiniteSet(readSockets' \cap StdFds)
  /\ Cardinality(readSockets' \cap StdFds) \in Nat
<1>1. 0 \in Int /\ ListenSock - 1 \in Int
  BY FdAssumption
<1>2. IsFiniteSet(StdFds)
  BY <1>1, FS_Interval DEF StdFds
<1>3. IsFiniteSet(readSockets \cap StdFds) /\ IsFiniteSet(readSockets' \cap StdFds)
  BY <1>2, FS_Subset
<1> QED BY <1>3, FS_CardinalityType

\* What select() returns is the number of clients, standard descriptors and
\* listening sockets it reports.
LEMMA SelectCountsAll ==
  ASSUME Select
  PROVE  n' = Cardinality(Ahead') + Cardinality(readSockets' \cap StdFds)
                + (IF ListenSock \in readSockets' THEN 1 ELSE 0)
<1> DEFINE S == readSockets' \cap StdFds
           L == readSockets' \cap {ListenSock}
<1>1. Ahead' = readSockets' \cap ClientFds
  BY DEF Ahead, Select
<1>2. readSockets' = (Ahead' \cup S) \cup L
  BY <1>1 DEF Select, Readable
<1>3. /\ IsFiniteSet(Ahead') /\ Cardinality(Ahead') \in Nat
      /\ IsFiniteSet(S) /\ Cardinality(S) \in Nat
  BY AheadFinite, StdFinite
<1>4. Ahead' \cap S = {} /\ ListenSock \notin Ahead' \cup S
  BY <1>1, FdAssumption DEF ClientFds, StdFds
<1>5. /\ IsFiniteSet(Ahead' \cup S)
      /\ Cardinality(Ahead' \cup S) = Cardinality(Ahead') + Cardinality(S)
  <2>1. Cardinality(Ahead' \cap S) = 0
    BY <1>4, FS_EmptySet
  <2>2. /\ IsFiniteSet(Ahead' \cup S)
        /\ Cardinality(Ahead' \cup S)
             = Cardinality(Ahead') + Cardinality(S) - Cardinality(Ahead' \cap S)
    BY <1>3, FS_Union
  <2> QED BY <1>3, <2>1, <2>2
<1>6. n' = Cardinality(readSockets')
  BY DEF Select
<1>7. CASE ListenSock \in readSockets'
  <2>1. readSockets' = (Ahead' \cup S) \cup {ListenSock}
    BY <1>2, <1>7
  <2>2. Cardinality(readSockets') = Cardinality(Ahead' \cup S) + 1
    BY <2>1, <1>4, <1>5, FS_AddElement
  <2> QED BY <1>3, <1>5, <1>6, <1>7, <2>2
<1>8. CASE ListenSock \notin readSockets'
  <2>1. readSockets' = Ahead' \cup S
    BY <1>2, <1>8
  <2>2. Cardinality(readSockets') = Cardinality(Ahead' \cup S)
    BY <2>1
  <2> QED BY <1>3, <1>5, <1>6, <1>8, <2>2
<1> QED BY <1>7, <1>8

\* What is counted stays counted while nobody is visited.
LEMMA ExactKept ==
  ASSUME ExactInv, UNCHANGED <<readSockets, n, cursor>>,
         InRound' => InRound,
         pc' = "accept" <=> pc = "accept",
         pc' = "report" => pc = "report"
  PROVE  ExactInv'
<1>1. Ahead' = Ahead
  BY DEF Ahead
<1> QED BY <1>1 DEF ExactInv, AllHandled

\* accept() is called for one of the sockets counted.
LEMMA ExactAccept ==
  ASSUME IInv, ExactInv, Accept \/ NothingToAccept
  PROVE  ExactInv'
<1>1. /\ pc = "accept" /\ pc' \in {"clients", "report"} /\ cursor' = -2
      /\ readSockets' = readSockets
      /\ n' = (IF ListenSock \in readSockets THEN n - 1 ELSE n)
      /\ pc' = "report" => ~(n' > 0)
  BY DEF Accept, NothingToAccept, Register, LeftAfterAccept, sets
<1>2. \A f \in ClientFds : f > -2
  BY Descriptors
<1>3. Ahead' = Ahead
  BY <1>1, <1>2 DEF Ahead
<1> DEFINE a == Cardinality(Ahead)
           k == Cardinality(readSockets \cap StdFds)
<1>4. a \in Nat /\ k \in Nat /\ n \in Int
  BY AheadFinite, StdFinite DEF IInv, DescriptorInv, TypeOK
<1>5. n' = a + k
  BY <1>1, <1>4 DEF ExactInv, InRound
<1>6. Cardinality(Ahead') = a /\ Cardinality(readSockets' \cap StdFds) = k
  BY <1>1, <1>3
<1>7. pc' = "report" => n' = k
  BY <1>1, <1>4, <1>5
<1> QED BY <1>1, <1>4, <1>5, <1>6, <1>7 DEF ExactInv, InRound, AllHandled

\* The walk visits clients only, each of them counted.
LEMMA ExactVisit ==
  ASSUME IInv, ExactInv, NoFailure, NEW f \in clients,
         RecvEnds(f) \/ RecvMessage(f)
  PROVE  ExactInv'
<1>1. /\ pc = "clients" /\ pc' \in {"clients", "command"} /\ cursor' = f
      /\ readSockets' = readSockets /\ n' = n - 1 /\ NextClient(f)
  BY DEF RecvEnds, RecvMessage, sets
<1>2. f # -1
  BY DEF NoFailure
<1>3. Cardinality(Ahead') = Cardinality(Ahead) - 1
  BY <1>1, <1>2, Visit DEF IInv
<1> DEFINE k == Cardinality(readSockets \cap StdFds)
<1>4. Cardinality(Ahead) \in Nat /\ k \in Nat /\ n = Cardinality(Ahead) + k
  BY <1>1, AheadFinite, StdFinite DEF ExactInv, InRound
<1>5. n' = Cardinality(Ahead') + k
  BY <1>1, <1>3, <1>4
<1>6. Cardinality(Ahead') \in Nat /\ Cardinality(readSockets' \cap StdFds) = k
  BY <1>1, AheadFinite
<1> QED BY <1>1, <1>4, <1>5, <1>6 DEF ExactInv, InRound, AllHandled

\* Every step keeps the count exact.
LEMMA ExactStep ==
  ASSUME IInv, ExactInv, NoFailure, [Next]_vars, [~AcceptFails]_vars
  PROVE  ExactInv'
<1>1. CASE Select
  <2>1. pc' = "accept"
    BY <1>1 DEF Select
  <2> QED BY <1>1, <2>1, SelectCountsAll DEF ExactInv, AllHandled
<1>2. CASE SelectFails
  BY <1>2 DEF SelectFails, RoundStarts, ExactInv, InRound, AllHandled
<1>3. CASE Accept \/ NothingToAccept
  BY <1>3, ExactAccept
<1>4. CASE \E f \in clients : RecvEnds(f) \/ RecvMessage(f)
  BY <1>4, ExactVisit
<1>5. CASE WalkEnds
  <2>1. pc = "clients" /\ pc' = "report" /\ UNCHANGED <<readSockets, n>>
    BY <1>5 DEF WalkEnds, walk
  <2> DEFINE k == Cardinality(readSockets \cap StdFds)
  <2>2. Cardinality(Ahead) = 0 /\ k \in Nat
    BY <1>5, WalkPassesAll, StdFinite DEF IInv
  <2>3. n = k
    BY <2>1, <2>2 DEF ExactInv, InRound
  <2>4. n' = k /\ Cardinality(readSockets' \cap StdFds) = k
    BY <2>1, <2>3
  <2> QED BY <2>1, <2>4 DEF ExactInv, InRound, AllHandled
<1>6. CASE Report
  BY <1>6 DEF Report, ExactInv, InRound, AllHandled, sets
<1>7. CASE Command \/ CommandEnds \/ (\E c \in Conns : Peer(c)) \/ UNCHANGED vars
  <2>1. UNCHANGED <<readSockets, n, cursor>>
        /\ (pc' = pc
            \/ /\ pc \in {"command", "running", "send", "sending"}
               /\ pc' \in {"clients", "running", "send", "sending", "killed"})
    BY <1>7 DEF Command, NoReply, RunCommand, CommandEnds, SendSome, SendDone,
       SendToClosed, SendReset, SendKills, Peer, Connect, Request, ReadReply,
       HangUp, vars, serverVars, sets, walk
  <2>2. (InRound' => InRound) /\ (pc' = "accept" <=> pc = "accept")
        /\ (pc' = "report" => pc = "report")
    BY <2>1 DEF InRound
  <2>3. UNCHANGED <<readSockets, n, cursor>>
    BY <2>1
  <2> QED BY <2>2, <2>3, ExactKept
<1>8. CASE AcceptFails
  <2>1. UNCHANGED vars
    BY <1>8
  <2> QED BY <2>1, <1>7
<1> QED BY <1>1, <1>2, <1>3, <1>4, <1>5, <1>6, <1>7, <1>8 DEF Next, Server, Round

\* As long as accept() does not fail every socket select() counted has been
\* handled at the bottom of the round, the standard descriptors apart that the
\* stack made it look at: n counts exactly those.
THEOREM AllCounted == Spec /\ AcceptSucceeds => []AllHandled
<1>1. Init => ExactInv
  BY DEF Init, ExactInv, InRound, AllHandled
<1>2. /\ IInv /\ NoFailure /\ ExactInv /\ [Next]_vars /\ [~AcceptFails]_vars
      => ExactInv'
  BY ExactStep
<1>3. ExactInv => AllHandled
  BY DEF ExactInv
<1> QED BY <1>1, <1>2, <1>3, Invariance, NoFailureHolds, PTL
           DEF Spec, AcceptSucceeds

-----------------------------------------------------------------------------
(* The server implements CommandService, liveness apart.                   *)

\* What the proof below needs of the source besides IInv.
Usable == IInv /\ clientLenOK

\* Nothing but its first value decides whether clientLen is usable.
LEMMA UsableHolds ==
  ASSUME StackLens \subseteq {TRUE}
  PROVE  Spec => []Usable
<1>1. Init => clientLenOK
  BY DEF Init
<1>2. clientLenOK /\ [Next]_vars => clientLenOK'
  <2> SUFFICES ASSUME clientLenOK, [Next]_vars PROVE clientLenOK'
    OBVIOUS
  <2>1. clientLenOK' = clientLenOK
    BY DEF Next, Server, Round, Command, Select, SelectFails, RoundStarts,
       Accept, AcceptFails, Register, NothingToAccept, RecvEnds, RecvMessage,
       WalkEnds, Report, NoReply, RunCommand, CommandEnds, SendSome, SendDone,
       SendToClosed, SendReset, SendKills, Peer, Connect, Request, ReadReply,
       HangUp, vars, serverVars, text
  <2> QED BY <2>1
<1> QED BY <1>1, <1>2, Invariance, PTL DEF Spec, Usable

\* A connection is attached when it waits or is admitted.
LEMMA AttachedIs ==
  \A c \in Conns : Attached(c) <=> Service!Waiting(c) \/ c \in Admitted
BY DEF Attached, Admitted, Service!Waiting

\* A step that moves no connection and changes neither requests nor who has
\* left is none of the service's.
LEMMA Unseen ==
  ASSUME UNCHANGED <<owner, queue>>,
         pc' = "killed" <=> pc = "killed",
         \A c \in Conns : /\ pending'[c] > 0 <=> pending[c] > 0
                          /\ peer'[c] = "idle" <=> peer[c] = "idle"
                          /\ peer'[c] \in Gone <=> peer[c] \in Gone
  PROVE  UNCHANGED Service!vars
<1>1. Admitted' = Admitted
  BY DEF Admitted
<1>2. Released' = Released
  BY DEF Released, Attached
<1>3. Asked' = Asked
  BY DEF Asked
<1>4. Left' = Left
  BY DEF Left
<1>5. Down' = Down
  BY DEF Down
<1> QED BY <1>1, <1>2, <1>3, <1>4, <1>5 DEF Service!vars

\* The remote ends arrive, ask and leave.
LEMMA PeerImplements ==
  ASSUME Usable, NEW c \in Conns, Peer(c)
  PROVE  [Service!Next]_(Service!vars)
<1> USE DEF Usable, IInv, DescriptorInv, RoundInv
<1>1. UNCHANGED <<owner, pc>>
  BY DEF Peer, Connect, Request, ReadReply, HangUp, serverVars
<1>2. Admitted' = Admitted /\ Down' = Down
  BY <1>1 DEF Admitted, Down
<1>3. CASE Connect(c)
  <2>1. queue \in Seq(Conns) /\ queue' = Append(queue, c) /\ ~Attached(c)
        /\ pending' = pending /\ Len(queue) <= Backlog
    BY <1>3 DEF Connect, TypeOK, PlaceInv
  <2>2. peer[c] = "idle" /\ peer'[c] = "open"
        /\ \A d \in Conns \ {c} : peer'[d] = peer[d]
    BY <1>3 DEF Connect, TypeOK
  <2>3. Attached(c)' /\ \A d \in Conns \ {c} : Attached(d)' <=> Attached(d)
    <3>1. /\ Len(queue) \in Nat
          /\ Len(queue') = Len(queue) + 1
          /\ queue'[Len(queue) + 1] = c
          /\ \A i \in 1..Len(queue) : queue'[i] = queue[i]
      BY <2>1
    <3> QED BY <3>1, <1>1 DEF Attached
  <2>4. Released' = Released
    BY <2>2, <2>3 DEF Released
  <2>5. Asked' = Asked /\ Left' = Left
    BY <2>1, <2>2 DEF Asked, Left, Gone
  <2>6. c \notin Admitted \cup Released /\ ~Service!Waiting(c)
    BY <2>1, <2>2, AttachedIs DEF Released
  <2>7. Len(queue) < Backlog + 1
    BY <2>1, BoundAssumption
  <2>8. Service!Arrive(c)
    BY <1>2, <2>1, <2>4, <2>5, <2>6, <2>7 DEF Service!Arrive
  <2> QED BY <2>8 DEF Service!Next
<1>4. CASE Request(c)
  <2>1. /\ UNCHANGED <<queue, peer>> /\ peer[c] = "open" /\ Attached(c)
        /\ pending'[c] > 0 /\ \A d \in Conns \ {c} : pending'[d] = pending[d]
    BY <1>4, BoundAssumption DEF Request, TypeOK
  <2>2. Released' = Released /\ Left' = Left
    BY <1>1, <2>1 DEF Released, Attached, Left
  <2>3. Asked' = Asked \cup {c}
    BY <2>1 DEF Asked
  <2>4. c \notin Left
    BY <2>1 DEF Left, Gone
  <2>5. Service!Ask(c)
    BY <1>2, <2>1, <2>2, <2>3, <2>4, AttachedIs DEF Service!Ask
  <2> QED BY <2>5 DEF Service!Next
<1>5. CASE ReadReply(c)
  <2>1. UNCHANGED <<queue, pending, peer>>
    BY <1>5 DEF ReadReply
  <2> QED BY <1>1, <2>1, Unseen
<1>6. CASE HangUp(c)
  <2>1. /\ UNCHANGED <<queue, pending>>
        /\ peer[c] = "open" /\ peer'[c] \in Gone
        /\ \A d \in Conns \ {c} : peer'[d] = peer[d]
    BY <1>6 DEF HangUp, TypeOK, Gone
  <2>2. Attached(c)
    BY <2>1 DEF LiveInv
  <2>3. Released' = Released
    BY <1>1, <2>1 DEF Released, Attached, Gone
  <2>4. Asked' = Asked
    BY <2>1 DEF Asked
  <2>5. Left' = Left \cup {c}
    BY <2>1 DEF Left
  <2>6. Service!Leave(c)
    BY <1>2, <2>1, <2>2, <2>3, <2>4, <2>5, AttachedIs DEF Service!Leave
  <2> QED BY <2>6 DEF Service!Next
<1> QED BY <1>3, <1>4, <1>5, <1>6 DEF Peer

\* accept() admits the connection that has waited longest.
LEMMA AcceptImplements ==
  ASSUME Usable, Accept
  PROVE  [Service!Next]_(Service!vars)
<1> USE DEF Usable, IInv, DescriptorInv, RoundInv
<1>1. PICK f \in FreeFds : /\ owner' = [owner EXCEPT ![f] = Head(queue)]
                           /\ Register(f)
  BY DEF Accept
<1>2. f \in ClientFds /\ owner[f] = NoConn
  BY <1>1 DEF FreeFds
<1>3. queue \in Seq(Conns) /\ queue # <<>> /\ queue' = Tail(queue)
      /\ UNCHANGED <<pending, peer>>
  BY DEF Accept, QueueInv, TypeOK
<1>4. /\ Len(queue) \in Nat \ {0}
      /\ Head(queue) = queue[1] /\ queue[1] \in Conns
      /\ Len(queue') = Len(queue) - 1
      /\ \A i \in 1..Len(queue') : i + 1 \in 2..Len(queue)
      /\ \A i \in 1..Len(queue') : queue'[i] = queue[i + 1]
  BY <1>3
<1>5. owner'[f] = queue[1] /\ \A g \in ClientFds \ {f} : owner'[g] = owner[g]
  BY <1>1, <1>2, <1>4 DEF TypeOK
<1>6. Admitted' = Admitted \cup {Head(queue)}
  BY <1>2, <1>4, <1>5, ConnsAssumption DEF Admitted
<1>7. \A c \in Conns : Attached(c)' <=> Attached(c)
  <2> SUFFICES ASSUME NEW c \in Conns PROVE Attached(c)' <=> Attached(c)
    OBVIOUS
  <2>1. Attached(c)' => Attached(c)
    BY <1>4, <1>5 DEF Attached
  <2>2. (\E g \in ClientFds : owner[g] = c) => Attached(c)'
    BY <1>2, <1>5, ConnsAssumption DEF Attached
  <2>3. ASSUME NEW i \in 1..Len(queue), queue[i] = c PROVE Attached(c)'
    <3>1. CASE i = 1
      BY <2>3, <3>1, <1>2, <1>5 DEF Attached
    <3>2. CASE i # 1
      <4>1. i - 1 \in 1..Len(queue') /\ queue'[i - 1] = c
        BY <2>3, <3>2, <1>4
      <4> QED BY <4>1 DEF Attached
    <3> QED BY <3>1, <3>2
  <2> QED BY <2>1, <2>2, <2>3 DEF Attached
<1>8. Released' = Released
  BY <1>3, <1>7 DEF Released
<1>9. Asked' = Asked /\ Left' = Left
  BY <1>3 DEF Asked, Left
<1>10. ~Down /\ Down' = Down
  BY <1>1 DEF Down, Accept, Register
<1>11. Service!Admit
  BY <1>3, <1>6, <1>8, <1>9, <1>10 DEF Service!Admit
<1> QED BY <1>11 DEF Service!Next

\* A recv() that returns text serves the client, one that does not releases
\* it, and one on -1 is nothing to the service.
LEMMA RecvImplements ==
  ASSUME Usable, NEW f \in clients, RecvEnds(f) \/ RecvMessage(f)
  PROVE  [Service!Next]_(Service!vars)
<1> USE DEF Usable, IInv, DescriptorInv, RoundInv
<1>1. ~Down /\ Down' = Down
  BY DEF Down, RecvEnds, RecvMessage
<1>2. CASE RecvMessage(f)
  <2> DEFINE c == owner[f]
  <2>1. f \in ClientFds /\ c # NoConn /\ c \in Conns /\ pending[c] > 0
    BY <1>2 DEF RecvMessage, Received, TypeOK
  <2>2. /\ UNCHANGED <<owner, queue, peer>>
        /\ pending'[c] = pending[c] - Taken(f)
        /\ \A d \in Conns \ {c} : pending'[d] = pending[d]
    BY <1>2, <2>1 DEF RecvMessage, TypeOK
  <2>3. Admitted' = Admitted /\ Released' = Released /\ Left' = Left
    BY <2>2 DEF Admitted, Released, Attached, Left
  <2>4. CASE pending'[c] = 0
    <3>1. Asked' = Asked \ {c}
      BY <2>1, <2>2, <2>4 DEF Asked
    <3>2. c \in Admitted \cap Asked
      BY <2>1 DEF Admitted, Asked
    <3>3. Service!Serve(c)
      BY <1>1, <2>2, <2>3, <3>1, <3>2 DEF Service!Serve
    <3> QED BY <2>1, <3>3 DEF Service!Next
  <2>5. CASE pending'[c] # 0
    <3>1. pending[c] - Taken(f) \in Nat
      BY <1>2, <2>1, TakenIs, BoundAssumption DEF RecvMessage
    <3>2. pending'[c] > 0
      BY <2>2, <2>5, <3>1
    <3>3. Asked' = Asked
      BY <2>1, <2>2, <3>2 DEF Asked
    <3> QED BY <1>1, <2>2, <2>3, <3>3 DEF Service!vars
  <2> QED BY <2>4, <2>5
<1>3. CASE RecvEnds(f) /\ f # -1
  <2>1. /\ f \in ClientFds /\ owner[f] \in Conns
        /\ peer[owner[f]] \in Gone /\ pending[owner[f]] = 0
    BY <1>3, EndsFinished
  <2>2. /\ UNCHANGED <<queue, peer, pending>>
        /\ owner'[f] = NoConn
        /\ \A g \in ClientFds \ {f} : owner'[g] = owner[g]
    BY <1>3, <2>1 DEF RecvEnds, CloseClient, TypeOK
  <2>3. \A g \in ClientFds \ {f} : owner[g] # owner[f]
    BY <2>1, ConnsAssumption DEF PlaceInv
  <2>4. \A i \in 1..Len(queue) : owner[f] # queue[i]
    BY <2>1 DEF PlaceInv
  <2>5. Admitted' = Admitted \ {owner[f]}
    BY <2>1, <2>2, <2>3, ConnsAssumption DEF Admitted
  <2>6. /\ \A d \in Conns \ {owner[f]} : Attached(d)' <=> Attached(d)
        /\ \A d \in Conns : d = owner[f] => ~Attached(d)'
    BY <2>1, <2>2, <2>3, <2>4, ConnsAssumption DEF Attached
  <2>7. Released' = Released \cup {owner[f]}
    BY <2>1, <2>2, <2>6 DEF Released, Gone
  <2>8. Asked' = Asked /\ Left' = Left
    BY <2>2 DEF Asked, Left
  <2>9. owner[f] \in (Admitted \cap Left) \ Asked
    BY <2>1 DEF Admitted, Left, Asked
  <2>10. Service!Release(owner[f])
    BY <1>1, <2>2, <2>5, <2>7, <2>8, <2>9 DEF Service!Release
  <2> QED BY <2>1, <2>10 DEF Service!Next
<1>4. CASE RecvEnds(f) /\ f = -1
  <2>1. UNCHANGED <<owner, queue, peer, pending, pc>>
    BY <1>4 DEF RecvEnds, CloseClient
  <2> QED BY <2>1, Unseen
<1> QED BY <1>2, <1>3, <1>4

\* Of what a reply can do the service sees SIGPIPE alone, and that only a
\* client that has left brings it about.
LEMMA CommandImplements ==
  ASSUME Usable, Command \/ CommandEnds
  PROVE  [Service!Next]_(Service!vars)
<1> USE DEF Usable, IInv, DescriptorInv, RoundInv
<1>1. UNCHANGED <<owner, queue, pending>>
      /\ pc \in {"command", "running", "send", "sending"}
  BY DEF Command, NoReply, RunCommand, CommandEnds, SendSome, SendDone, SendToClosed,
         SendReset, SendKills, kernelVars
<1>2. cursor \in ClientFds /\ owner[cursor] \in Conns
  BY <1>1 DEF WalkInv, TypeOK
<1>3. CASE SendKills
  <2>1. peer' = peer /\ ~Down /\ Down' = TRUE
    BY <1>3 DEF SendKills, Down, kernelVars
  <2>2. Admitted' = Admitted /\ Released' = Released /\ Asked' = Asked
        /\ Left' = Left
    BY <1>1, <2>1 DEF Admitted, Released, Attached, Asked, Left
  <2>3. owner[cursor] \in Admitted \cap Left
    BY <1>2, <1>3 DEF SendKills, Admitted, Left, Gone
  <2>4. Service!Break(owner[cursor])
    BY <1>1, <2>1, <2>2, <2>3 DEF Service!Break
  <2> QED BY <1>2, <2>4 DEF Service!Next
<1>4. CASE ~SendKills
  <2>1. pc' \in {"clients", "running", "send", "sending"}
    BY <1>4 DEF Command, NoReply, RunCommand, CommandEnds, SendSome, SendDone,
                SendToClosed, SendReset
  <2>2. peer' = peer
        \/ /\ peer[owner[cursor]] \in Gone
           /\ \E p \in Gone : peer' = [peer EXCEPT ![owner[cursor]] = p]
    BY <1>4 DEF Command, NoReply, RunCommand, CommandEnds, SendSome, SendDone,
                SendToClosed, SendReset, kernelVars, Gone
  <2>3. \A c \in Conns : /\ peer'[c] = "idle" <=> peer[c] = "idle"
                         /\ peer'[c] \in Gone <=> peer[c] \in Gone
    BY <1>2, <2>2 DEF TypeOK, Gone
  <2> QED BY <1>1, <2>1, <2>3, Unseen
<1> QED BY <1>3, <1>4

\* Every step of the server and of its peers is a step of the service or none.
LEMMA StepImplements ==
  ASSUME Usable, [Next]_vars
  PROVE  [Service!Next]_(Service!vars)
<1>1. CASE \E c \in Conns : Peer(c)
  BY <1>1, PeerImplements
<1>2. CASE Accept
  BY <1>2, AcceptImplements
<1>3. CASE \E f \in clients : RecvEnds(f) \/ RecvMessage(f)
  BY <1>3, RecvImplements
<1>4. CASE Command \/ CommandEnds
  BY <1>4, CommandImplements
<1>5. CASE \/ Select \/ SelectFails \/ AcceptFails \/ NothingToAccept
           \/ WalkEnds \/ Report \/ UNCHANGED vars
  <2>1. UNCHANGED <<owner, queue, pending, peer>>
    BY <1>5 DEF Usable, Select, SelectFails, RoundStarts, AcceptFails,
       Register, NothingToAccept, WalkEnds, Report, vars, kernelVars, text
  <2>2. pc' = "killed" <=> pc = "killed"
    BY <1>5 DEF Select, SelectFails, RoundStarts, AcceptFails, Register,
       NothingToAccept, WalkEnds, Report, vars, serverVars
  <2> QED BY <2>1, <2>2, Unseen
<1> QED BY <1>1, <1>2, <1>3, <1>4, <1>5 DEF Next, Server, Round

\* With a usable clientLen every behaviour of the server is one the service
\* allows: first come first admitted, nothing served that was not asked, no
\* client released that has not left and been served, and no breakdown but by
\* one that has left.
THEOREM Implements ==
  ASSUME StackLens \subseteq {TRUE}
  PROVE  Spec => Service!Spec
<1>1. Init => Service!Init
  <2> SUFFICES ASSUME Init PROVE Service!Init
    OBVIOUS
  <2>1. Admitted = {} /\ Released = {} /\ Asked = {} /\ Left = {}
    BY ConnsAssumption DEF Init, Admitted, Released, Asked, Left, Gone
  <2>2. queue = <<>> /\ Down = FALSE
    BY DEF Init, Down
  <2> QED BY <2>1, <2>2 DEF Service!Init
<1>2. Usable /\ [Next]_vars => [Service!Next]_(Service!vars)
  BY StepImplements
<1> QED BY <1>1, <1>2, UsableHolds, PTL DEF Spec, Service!Spec
=============================================================================
