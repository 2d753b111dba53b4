------------------------ MODULE DatagramExampleProofs ------------------------
(***************************************************************************)
(* What the UDP example guarantees for any number of clients, any list of  *)
(* messages, any buffer and any room in the server's socket.               *)
(***************************************************************************)
EXTENDS DatagramExample, TLAPS

(* The two ends of a queue.                                                *)

LEMMA AppendFacts ==
  ASSUME NEW S, NEW s \in Seq(S), NEW e \in S
  PROVE  /\ Append(s, e) \in Seq(S)
         /\ Len(Append(s, e)) = Len(s) + 1
         /\ \A k \in 1..Len(s) : Append(s, e)[k] = s[k]
         /\ Append(s, e)[Len(s) + 1] = e
  OBVIOUS

LEMMA TailFacts ==
  ASSUME NEW S, NEW s \in Seq(S), s # <<>>
  PROVE  /\ Tail(s) \in Seq(S)
         /\ Len(s) \in Nat \ {0}
         /\ Len(Tail(s)) = Len(s) - 1
         /\ \A k \in 1..Len(Tail(s)) : Tail(s)[k] = s[k + 1]
         /\ Head(s) = s[1] /\ Head(s) \in S
  OBVIOUS

-----------------------------------------------------------------------------
(* Types.                                                                  *)

\* A datagram that reaches the host: what may change, and into what.
LEMMA ReachCases ==
  ASSUME TypeOK, NEW d \in Datagrams, Reach(d)
  PROVE  \/ /\ server = "receiving"
            /\ unread' = Append(unread, d)
            /\ lost' = lost /\ refused' = refused
         \/ /\ unread' = unread
            /\ lost' = lost \cup {d}
            /\ refused' \in {refused, refused \cup {d.client}}
  BY DEF Reach

LEMMA ReachType ==
  ASSUME TypeOK, NEW d \in Datagrams, Reach(d)
  PROVE  /\ unread' \in Seq(Datagrams)
         /\ lost' \subseteq Datagrams
         /\ refused' \subseteq Clients
  <1>1. d.client \in Clients
    BY DEF Datagrams
  <1>2. CASE unread' = Append(unread, d) /\ lost' = lost /\ refused' = refused
    BY <1>2, AppendFacts DEF TypeOK
  <1>3. CASE /\ unread' = unread
             /\ lost' = lost \cup {d}
             /\ refused' \in {refused, refused \cup {d.client}}
    BY <1>1, <1>3 DEF TypeOK
  <1> QED BY <1>2, <1>3, ReachCases

LEMMA LengthType == Len(Messages) \in Nat \ {0}
  BY ExampleAssumption

LEMMA SentType ==
  ASSUME TypeOK, NEW c \in Clients, client[c] = "sending"
  PROVE  [client |-> c, msg |-> next[c]] \in Datagrams
  BY DEF TypeOK, Datagrams

LEMMA ReceivedType ==
  ASSUME NEW d, d.msg \in Numbers
  PROVE  /\ Received(d) \in 0..BufferSize
         /\ Received(d) = 0 <=> Messages[d.msg] = 0
  <1>1. Messages[d.msg] \in Nat
    BY ExampleAssumption DEF Numbers
  <1> QED BY <1>1, ExampleAssumption DEF Received

LEMMA TypeNext ==
  ASSUME TypeOK, Next PROVE TypeOK'
  <1>1. CASE Bind \/ ReceiveFails
    BY <1>1 DEF Bind, ReceiveFails, TypeOK
  <1>2. CASE Receive
    <2>1. OldestUnread \in Datagrams /\ Tail(unread) \in Seq(Datagrams)
      BY <1>2, TailFacts DEF Receive, TypeOK, OldestUnread
    <2>2. OldestUnread.msg \in Numbers /\ OldestUnread.client \in Clients
      BY <2>1 DEF Datagrams
    <2>3. CASE EndsLoop(Received(OldestUnread))
      BY <1>2, <2>1, <2>3 DEF Receive, TypeOK
    <2>4. CASE ~EndsLoop(Received(OldestUnread))
      <3>1. Received(OldestUnread) \in 1..BufferSize
        BY <2>2, <2>4, ReceivedType, ExampleAssumption DEF EndsLoop
      <3>2. [client |-> OldestUnread.client, msg |-> OldestUnread.msg,
             length |-> Received(OldestUnread)] \in Lines
        BY <2>2, <3>1 DEF Lines
      <3>3. printed' =
              Append(printed, [client |-> OldestUnread.client,
                               msg |-> OldestUnread.msg,
                               length |-> Received(OldestUnread)])
        BY <1>2, <2>4 DEF Receive
      <3>4. printed \in Seq(Lines)
        BY DEF TypeOK
      <3>5. printed' \in Seq(Lines)
        BY <3>2, <3>3, <3>4
      <3> QED BY <1>2, <2>1, <2>4, <3>5 DEF Receive, TypeOK
    <2> QED BY <2>3, <2>4
  <1>3. ASSUME NEW c \in Clients, Send(c) PROVE TypeOK'
    <2> DEFINE d == [client |-> c, msg |-> next[c]]
    <2>1. d \in Datagrams /\ next[c] \in Numbers
      BY <1>3, SentType DEF Send, TypeOK
    <2>2. next' \in [Clients -> 1..(Len(Messages) + 1)]
      <3>1. next[c] + 1 \in 1..(Len(Messages) + 1)
        BY <2>1, LengthType DEF Numbers
      <3> QED BY <1>3, <3>1 DEF Send, TypeOK
    <2>3. client' \in [Clients -> {"sending", "done", "failed"}]
      BY <1>3 DEF Send, TypeOK
    <2>4. \A b \in Clients : client'[b] = "sending" => next'[b] \in Numbers
      BY <1>3, <2>1, LengthType DEF Send, TypeOK, Numbers
    <2>5. /\ unread' \in Seq(Datagrams) /\ lost' \subseteq Datagrams
          /\ refused' \subseteq Clients /\ flight' \subseteq Datagrams
      <3>1. CASE wild
        BY <1>3, <2>1, <3>1 DEF Send, TypeOK
      <3>2. CASE ~wild
        <4>1. Reach(d) /\ UNCHANGED flight
          BY <1>3, <3>2 DEF Send
        <4> HIDE DEF d
        <4> QED BY <2>1, <4>1, ReachType DEF TypeOK
      <3> QED BY <3>1, <3>2
    <2> QED BY <1>3, <2>2, <2>3, <2>4, <2>5 DEF Send, TypeOK
  <1>4. ASSUME NEW c \in Clients, SendFails(c) PROVE TypeOK'
    BY <1>4 DEF SendFails, TypeOK
  <1>5. ASSUME NEW d \in flight, Deliver(d) PROVE TypeOK'
    <2>1. d \in Datagrams /\ Reach(d)
      BY <1>5 DEF Deliver, TypeOK
    <2>2. flight' \subseteq Datagrams
      BY <1>5 DEF Deliver, TypeOK
    <2> QED BY <1>5, <2>1, <2>2, ReachType DEF Deliver, TypeOK
  <1> QED BY <1>1, <1>2, <1>3, <1>4, <1>5 DEF Next, Server, Client

-----------------------------------------------------------------------------
(* A step that leaves what was printed alone.                              *)

LEMMA PrintedSame ==
  ASSUME PrintedAsSent, wild' = wild, printed' = printed, lost \subseteq lost'
  PROVE  PrintedAsSent'
  BY DEF PrintedAsSent, IsPrinted

LEMMA LocalSame ==
  ASSUME TypeOK, LocalInv,
         UNCHANGED <<unread, printed, next, flight, lost>>,
         server \in {"unbound", "receiving"} \/ server' \in {"done", "failed"}
  PROVE  LocalInv'
  <1>1. server' \in {"unbound", "receiving"} =>
          server \in {"unbound", "receiving"}
    OBVIOUS
  <1> QED BY <1>1 DEF LocalInv, IsPrinted

-----------------------------------------------------------------------------
(* A message sent on one host.                                             *)

LEMMA SendLocal ==
  ASSUME TypeOK, LocalInv, ~wild, NEW c \in Clients, Send(c)
  PROVE  LocalInv'
  <1> DEFINE d == [client |-> c, msg |-> next[c]]
  <1>1. d \in Datagrams /\ next[c] \in Numbers
    BY SentType DEF Send, TypeOK
  <1>2. /\ Reach(d) /\ UNCHANGED <<flight, printed, server>>
        /\ next' = [next EXCEPT ![c] = @ + 1]
    BY DEF Send
  <1>3. \A b \in Clients : next[b] \in Nat /\ next'[b] \in Nat /\ next[b] <= next'[b]
    BY <1>2, LengthType DEF TypeOK
  <1>4. next'[c] = next[c] + 1 /\ \A b \in Clients \ {c} : next'[b] = next[b]
    BY <1>2 DEF TypeOK
  <1>5. d.client = c /\ d.msg = next[c]
    OBVIOUS
  <1>6. /\ unread \in Seq(Datagrams) /\ printed \in Seq(Lines)
        /\ \A k \in 1..Len(unread) : unread[k] \in Datagrams
        /\ \A k \in 1..Len(printed) : printed[k] \in Lines
    BY DEF TypeOK
  <1>7. \A k \in 1..Len(printed) : printed'[k].msg < next'[printed'[k].client]
    BY <1>2, <1>3, <1>6 DEF LocalInv, Lines, Numbers
  <1> HIDE DEF d
  <1>8. CASE unread' = Append(unread, d) /\ lost' = lost
    <2>1. /\ Len(unread') = Len(unread) + 1
          /\ \A k \in 1..Len(unread) : unread'[k] = unread[k]
          /\ unread'[Len(unread) + 1] = d
      BY <1>1, <1>6, <1>8, AppendFacts
    <2>2. ASSUME NEW k \in 1..Len(unread')
          PROVE  /\ unread'[k].msg < next'[unread'[k].client]
                 /\ \A j \in 1..(k - 1) :
                      unread'[j].client = unread'[k].client
                        => unread'[j].msg < unread'[k].msg
                 /\ \A j \in 1..Len(printed) :
                      printed[j].client = unread'[k].client
                        => printed[j].msg < unread'[k].msg
      <3>1. CASE k \in 1..Len(unread)
        <4>1. unread'[k] = unread[k] /\ unread[k] \in Datagrams
          BY <1>6, <2>1, <3>1
        <4>2. \A j \in 1..(k - 1) : unread'[j] = unread[j]
          BY <1>6, <2>1, <3>1
        <4> QED BY <1>3, <3>1, <4>1, <4>2 DEF LocalInv, Datagrams, Numbers
      <3>2. CASE k = Len(unread) + 1
        <4>1. unread'[k] = d
          BY <2>1, <3>2
        <4>2. \A j \in 1..(k - 1) : j \in 1..Len(unread) /\ unread'[j] = unread[j]
          BY <1>6, <2>1, <3>2
        <4> QED BY <1>3, <1>4, <1>5, <4>1, <4>2 DEF LocalInv
      <3> QED BY <1>6, <2>1, <3>1, <3>2
    <2>3. ASSUME server' \in {"unbound", "receiving"},
                 NEW b \in Clients, NEW m \in 1..(next'[b] - 1)
          PROVE  \/ [client |-> b, msg |-> m] \in lost'
                 \/ IsPrinted(b, m)
                 \/ \E k \in 1..Len(unread') :
                      unread'[k] = [client |-> b, msg |-> m]
      <3>1. CASE b = c /\ m = next[c]
        <4>1. unread'[Len(unread) + 1] = [client |-> b, msg |-> m]
          BY <2>1, <3>1 DEF d
        <4>2. Len(unread) + 1 \in 1..Len(unread')
          BY <1>6, <2>1
        <4> QED BY <4>1, <4>2
      <3>2. CASE ~(b = c /\ m = next[c])
        <4>1. m \in 1..(next[b] - 1)
          BY <1>3, <1>4, <3>2
        <4>2. \A k \in 1..Len(unread) :
                k \in 1..Len(unread') /\ unread'[k] = unread[k]
          BY <1>6, <2>1
        <4> QED BY <1>2, <1>8, <2>3, <4>1, <4>2 DEF LocalInv
      <3> QED BY <3>1, <3>2
    <2>4. flight' = {}
      BY <1>2 DEF LocalInv
    <2> QED BY <1>2, <1>7, <2>2, <2>3, <2>4 DEF LocalInv, IsPrinted
  <1>9. CASE unread' = unread /\ lost' = lost \cup {d}
    <2>1. ASSUME NEW k \in 1..Len(unread)
          PROVE  unread[k].msg < next'[unread[k].client]
      BY <1>3, <1>6 DEF LocalInv, Datagrams, Numbers
    <2>2. ASSUME server' \in {"unbound", "receiving"},
                 NEW b \in Clients, NEW m \in 1..(next'[b] - 1)
          PROVE  \/ [client |-> b, msg |-> m] \in lost'
                 \/ IsPrinted(b, m)
                 \/ \E k \in 1..Len(unread) : unread[k] = [client |-> b, msg |-> m]
      <3>1. CASE b = c /\ m = next[c]
        BY <1>9, <3>1 DEF d
      <3>2. CASE ~(b = c /\ m = next[c])
        <4>1. m \in 1..(next[b] - 1)
          BY <1>3, <1>4, <3>2
        <4> QED BY <1>2, <1>9, <2>2, <4>1 DEF LocalInv
      <3> QED BY <3>1, <3>2
    <2>3. flight' = {}
      BY <1>2 DEF LocalInv
    <2> QED BY <1>2, <1>7, <1>9, <2>1, <2>2, <2>3 DEF LocalInv, IsPrinted
  <1> QED BY <1>1, <1>2, <1>8, <1>9, ReachCases

-----------------------------------------------------------------------------
(* A message received.                                                     *)

LineInv == \A k \in 1..Len(printed) : printed[k].length = Received(printed[k])

LEMMA ReceiveInv ==
  ASSUME TypeOK, ~wild => LocalInv, PrintedAsSent, LineInv, Receive
  PROVE  /\ ~wild => LocalInv'
         /\ PrintedAsSent'
         /\ LineInv'
  <1> DEFINE d == OldestUnread
             line == [client |-> d.client, msg |-> d.msg, length |-> Received(d)]
             Now(b, m) == \E i \in 1..Len(printed') :
                            printed'[i].client = b /\ printed'[i].msg = m
  <1>1. unread \in Seq(Datagrams) /\ printed \in Seq(Lines)
    BY DEF TypeOK
  <1>2. /\ unread # <<>> /\ unread' = Tail(unread)
        /\ UNCHANGED <<wild, next, flight, lost>>
    BY DEF Receive
  <1>3. /\ d = unread[1] /\ d \in Datagrams
        /\ Len(unread) \in Nat \ {0} /\ Len(unread') = Len(unread) - 1
        /\ \A k \in 1..Len(unread') : unread'[k] = unread[k + 1]
    BY <1>1, <1>2, TailFacts DEF OldestUnread
  <1>4. d.msg \in Numbers /\ d.client \in Clients
    BY <1>3 DEF Datagrams
  <1>5. \A k \in 1..Len(unread) : unread[k] \in Datagrams
    BY <1>1
  <1>6. CASE EndsLoop(Received(d))
    <2>1. printed' = printed /\ server' = "done"
      BY <1>6 DEF Receive
    <2>2. ASSUME ~wild, NEW k \in 1..Len(unread')
          PROVE  /\ unread'[k].msg < next[unread'[k].client]
                 /\ \A j \in 1..(k - 1) :
                      unread'[j].client = unread'[k].client
                        => unread'[j].msg < unread'[k].msg
                 /\ \A j \in 1..Len(printed) :
                      printed[j].client = unread'[k].client
                        => printed[j].msg < unread'[k].msg
      <3>1. k + 1 \in 1..Len(unread) /\ unread'[k] = unread[k + 1]
        BY <1>3
      <3>2. \A j \in 1..(k - 1) :
              j + 1 \in 1..((k + 1) - 1) /\ unread'[j] = unread[j + 1]
        BY <1>3
      <3>3. \A j \in 1..((k + 1) - 1) :
              unread[j].client = unread[k + 1].client
                => unread[j].msg < unread[k + 1].msg
        BY <2>2, <3>1 DEF LocalInv
      <3>4. \A j \in 1..(k - 1) :
              unread'[j].client = unread'[k].client
                => unread'[j].msg < unread'[k].msg
        BY <3>1, <3>2, <3>3
      <3> QED BY <2>2, <3>1, <3>4 DEF LocalInv
    <2> QED BY <1>2, <2>1, <2>2 DEF LocalInv, PrintedAsSent, IsPrinted, LineInv
  <1>7. CASE ~EndsLoop(Received(d))
    <2>1. printed' = Append(printed, line) /\ server' = server
          /\ server = "receiving"
      BY <1>7 DEF Receive
    <2>2. line \in Lines
      <3>1. Received(d) \in 1..BufferSize
        BY <1>4, <1>7, ReceivedType, ExampleAssumption DEF EndsLoop
      <3> QED BY <1>4, <3>1 DEF Lines
    <2>3. line.client = d.client /\ line.msg = d.msg /\ line.length = Received(line)
      BY DEF Received
    <2> HIDE DEF line, d
    <2>4. /\ Len(printed) \in Nat
          /\ Len(printed') = Len(printed) + 1
          /\ \A k \in 1..Len(printed) : printed'[k] = printed[k]
          /\ printed'[Len(printed) + 1] = line
          /\ \A k \in 1..Len(printed) : printed[k] \in Lines
      BY <1>1, <2>1, <2>2, AppendFacts
    <2>5. \A b, m : IsPrinted(b, m) => Now(b, m)
      BY <2>4 DEF IsPrinted
    <2>6. LineInv'
      BY <2>3, <2>4 DEF LineInv, Received
    <2>7. ASSUME ~wild PROVE LocalInv'
      <3>1. ASSUME NEW k \in 1..Len(unread')
            PROVE  /\ unread'[k].msg < next[unread'[k].client]
                   /\ \A j \in 1..(k - 1) :
                        unread'[j].client = unread'[k].client
                          => unread'[j].msg < unread'[k].msg
                   /\ \A j \in 1..Len(printed') :
                        printed'[j].client = unread'[k].client
                          => printed'[j].msg < unread'[k].msg
        <4>1. k + 1 \in 1..Len(unread) /\ unread'[k] = unread[k + 1]
          BY <1>3
        <4>2. \A j \in 1..(k - 1) :
                j + 1 \in 1..((k + 1) - 1) /\ unread'[j] = unread[j + 1]
          BY <1>3
        <4>3. d.client = unread[k + 1].client => d.msg < unread[k + 1].msg
          <5>1. 1 \in 1..((k + 1) - 1)
            BY <1>3
          <5> QED BY <1>3, <2>7, <4>1, <5>1 DEF LocalInv
        <4>4. \A j \in 1..Len(printed) :
                printed[j].client = unread[k + 1].client
                  => printed[j].msg < unread[k + 1].msg
          BY <2>7, <4>1 DEF LocalInv
        <4>5. \A j \in 1..Len(printed') :
                printed'[j].client = unread[k + 1].client
                  => printed'[j].msg < unread[k + 1].msg
          <5> SUFFICES ASSUME NEW j \in 1..Len(printed'),
                              printed'[j].client = unread[k + 1].client
                       PROVE  printed'[j].msg < unread[k + 1].msg
            OBVIOUS
          <5>1. CASE j \in 1..Len(printed)
            BY <2>4, <4>4, <5>1
          <5>2. CASE j = Len(printed) + 1
            BY <2>3, <2>4, <4>3, <5>2
          <5> QED BY <2>4, <5>1, <5>2
        <4>6. \A j \in 1..((k + 1) - 1) :
                unread[j].client = unread[k + 1].client
                  => unread[j].msg < unread[k + 1].msg
          BY <2>7, <4>1 DEF LocalInv
        <4>7. \A j \in 1..(k - 1) :
                unread'[j].client = unread'[k].client
                  => unread'[j].msg < unread'[k].msg
          BY <4>1, <4>2, <4>6
        <4> QED BY <2>7, <4>1, <4>5, <4>7 DEF LocalInv
      <3>2. ASSUME NEW k \in 1..Len(printed')
            PROVE  printed'[k].msg < next[printed'[k].client]
        <4>1. d.msg < next[d.client]
          BY <1>3, <2>7 DEF LocalInv
        <4>2. CASE k \in 1..Len(printed)
          BY <2>4, <2>7, <4>2 DEF LocalInv
        <4>3. CASE k = Len(printed) + 1
          BY <2>3, <2>4, <4>1, <4>3
        <4> QED BY <2>4, <4>2, <4>3
      <3>3. ASSUME NEW b \in Clients, NEW m \in 1..(next[b] - 1)
            PROVE  \/ [client |-> b, msg |-> m] \in lost
                   \/ Now(b, m)
                   \/ \E k \in 1..Len(unread') :
                        unread'[k] = [client |-> b, msg |-> m]
        <4>1. CASE [client |-> b, msg |-> m] \in lost \/ IsPrinted(b, m)
          BY <2>5, <4>1
        <4>2. ASSUME NEW k \in 1..Len(unread),
                     unread[k] = [client |-> b, msg |-> m]
              PROVE  \/ Now(b, m)
                     \/ \E i \in 1..Len(unread') :
                          unread'[i] = [client |-> b, msg |-> m]
          <5>1. CASE k = 1
            <6>1. Len(printed) + 1 \in 1..Len(printed')
              BY <2>4
            <6>2. line.client = b /\ line.msg = m
              BY <1>3, <2>3, <4>2, <5>1
            <6> QED BY <2>4, <6>1, <6>2
          <5>2. CASE k # 1
            <6>1. k - 1 \in 1..Len(unread') /\ unread'[k - 1] = unread[(k - 1) + 1]
              BY <1>3, <5>2
            <6>2. (k - 1) + 1 = k
              OBVIOUS
            <6> QED BY <4>2, <6>1, <6>2
          <5> QED BY <5>1, <5>2
        <4> QED BY <2>1, <2>7, <4>1, <4>2 DEF LocalInv
      <3>4. flight' = {}
        BY <1>2, <2>7 DEF LocalInv
      <3> QED BY <1>2, <3>1, <3>2, <3>3, <3>4 DEF LocalInv, IsPrinted
    <2>8. PrintedAsSent'
      <3> SUFFICES ASSUME ~wild, NEW k \in 1..Len(printed')
                   PROVE  /\ \A j \in 1..(k - 1) :
                               printed'[j].client = printed'[k].client
                                 => printed'[j].msg < printed'[k].msg
                          /\ \A m \in 1..(printed'[k].msg - 1) :
                               \/ [client |-> printed'[k].client, msg |-> m] \in lost
                               \/ /\ Now(printed'[k].client, m)
                                  /\ Messages[m] # 0
        BY <1>2 DEF PrintedAsSent, IsPrinted
      <3>1. CASE k \in 1..Len(printed)
        <4>1. \A j \in 1..(k - 1) : j \in 1..Len(printed) /\ printed'[j] = printed[j]
          BY <2>4, <3>1
        <4>2. printed'[k] = printed[k] /\ k \in 1..Len(printed)
          BY <2>4, <3>1
        <4>3. \A j \in 1..(k - 1) :
                printed[j].client = printed[k].client
                  => printed[j].msg < printed[k].msg
          BY <4>2 DEF PrintedAsSent
        <4>4. \A m \in 1..(printed[k].msg - 1) :
                \/ [client |-> printed[k].client, msg |-> m] \in lost
                \/ IsPrinted(printed[k].client, m) /\ Messages[m] # 0
          BY <4>2 DEF PrintedAsSent
        <4> HIDE DEF Now
        <4>5. \A m \in 1..(printed[k].msg - 1) :
                \/ [client |-> printed[k].client, msg |-> m] \in lost
                \/ Now(printed[k].client, m) /\ Messages[m] # 0
          BY <2>5, <4>4
        <4> QED BY <4>1, <4>2, <4>3, <4>5
      <3>2. CASE k = Len(printed) + 1
        <4>1. printed'[k].client = d.client /\ printed'[k].msg = d.msg
          BY <2>3, <2>4, <3>2
        <4>2. \A j \in 1..(k - 1) : j \in 1..Len(printed) /\ printed'[j] = printed[j]
          BY <2>4, <3>2
        <4>3. \A j \in 1..Len(printed) :
                printed[j].client = d.client => printed[j].msg < d.msg
          BY <1>3 DEF LocalInv
        <4>4. ASSUME NEW m \in 1..(d.msg - 1)
              PROVE  \/ [client |-> d.client, msg |-> m] \in lost
                     \/ Now(d.client, m) /\ Messages[m] # 0
          <5>1. m \in 1..(next[d.client] - 1)
            BY <1>3, <1>4 DEF LocalInv, TypeOK, Numbers
          <5>2. ASSUME NEW i \in 1..Len(unread),
                       unread[i] = [client |-> d.client, msg |-> m]
                PROVE  FALSE
            <6>1. unread[i].msg = m /\ unread[i].client = d.client
              BY <5>2
            <6>2. CASE i = 1
              BY <1>3, <1>4, <6>1, <6>2 DEF Numbers
            <6>3. CASE i # 1
              <7>1. 1 \in 1..(i - 1)
                BY <6>3, <1>3
              <7>2. unread[1].msg < unread[i].msg
                BY <1>3, <6>1, <7>1 DEF LocalInv
              <7> QED BY <1>3, <1>4, <6>1, <7>2 DEF Numbers
            <6> QED BY <6>2, <6>3
          <5>3. [client |-> d.client, msg |-> m] \in lost \/ IsPrinted(d.client, m)
            BY <1>4, <2>1, <5>1, <5>2 DEF LocalInv
          <5>4. IsPrinted(d.client, m) => Messages[m] # 0
            <6> SUFFICES ASSUME NEW j \in 1..Len(printed), printed[j].msg = m
                         PROVE  Messages[m] # 0
              BY DEF IsPrinted
            <6>1. printed[j] \in Lines /\ printed[j].length = Received(printed[j])
              BY <2>4 DEF LineInv
            <6>2. printed[j].msg \in Numbers /\ printed[j].length # 0
              BY <6>1, ExampleAssumption DEF Lines
            <6> QED BY <6>1, <6>2, ReceivedType
          <5> QED BY <2>5, <5>3, <5>4
        <4> QED BY <4>1, <4>2, <4>3, <4>4
      <3> QED BY <2>4, <3>1, <3>2
    <2> QED BY <2>6, <2>7, <2>8
  <1> QED BY <1>6, <1>7

-----------------------------------------------------------------------------
(* The theorems.                                                           *)

LEMMA InvInit == Init => IInv
  BY LengthType, ExampleAssumption
     DEF Init, IInv, TypeOK, LocalInv, PrintedAsSent, IsPrinted, Numbers

LEMMA InvNext == IInv /\ [Next]_vars => IInv'
  <1> SUFFICES ASSUME IInv, [Next]_vars PROVE IInv'
    OBVIOUS
  <1>0. TypeOK /\ (~wild => LocalInv) /\ PrintedAsSent /\ LineInv
    BY DEF IInv, LineInv
  <1>1. CASE Receive
    <2>1. wild' = wild
      BY <1>1 DEF Receive
    <2> QED BY <1>0, <1>1, <2>1, TypeNext, ReceiveInv
            DEF IInv, LineInv, Next, Server
  <1>2. CASE Bind \/ ReceiveFails \/ \E c \in Clients : SendFails(c)
    <2>1. UNCHANGED <<wild, unread, printed, next, flight, lost>>
      BY <1>2 DEF Bind, ReceiveFails, SendFails
    <2>2. server \in {"unbound", "receiving"} \/ server' \in {"done", "failed"}
      BY <1>0, <1>2 DEF Bind, ReceiveFails, SendFails, TypeOK
    <2>3. TypeOK'
      BY <1>0, <1>2, TypeNext DEF Next, Server, Client
    <2> QED BY <1>0, <2>1, <2>2, <2>3, LocalSame, PrintedSame
            DEF IInv, LineInv, Received
  <1>3. ASSUME NEW c \in Clients, Send(c) PROVE IInv'
    <2>1. UNCHANGED <<wild, printed>> /\ lost \subseteq lost'
      BY <1>3 DEF Send, Reach
    <2>2. TypeOK'
      BY <1>0, <1>3, TypeNext DEF Next, Client
    <2> QED BY <1>0, <1>3, <2>1, <2>2, SendLocal, PrintedSame
            DEF IInv, LineInv, Received
  <1>4. ASSUME NEW e \in flight, Deliver(e) PROVE IInv'
    <2>1. UNCHANGED <<wild, printed>> /\ lost \subseteq lost'
      BY <1>4 DEF Deliver, Reach
    <2>2. TypeOK'
      BY <1>0, <1>4, TypeNext DEF Next
    <2>3. wild
      BY <1>0 DEF LocalInv
    <2> QED BY <1>0, <2>1, <2>2, <2>3, PrintedSame DEF IInv, LineInv, Received
  <1>5. CASE UNCHANGED vars
    <2>1. /\ UNCHANGED <<wild, unread, printed, next, flight, lost>>
          /\ UNCHANGED server
          /\ server \in {"unbound", "receiving"} \/ server' \in {"done", "failed"}
      BY <1>0, <1>5 DEF vars, TypeOK
    <2>2. TypeOK'
      BY <1>0, <1>5 DEF vars, TypeOK
    <2> QED BY <1>0, <2>1, <2>2, LocalSame, PrintedSame
            DEF IInv, LineInv, Received
  <1>6. CASE Next
    BY <1>1, <1>2, <1>3, <1>4, <1>6 DEF Next, Server, Client
  <1> QED BY <1>5, <1>6

\* IInv holds for any clients, list, buffer and room.
THEOREM Invariance == Spec => []IInv
  BY InvInit, InvNext, PTL DEF Spec

\* On one host the server prints each client's messages in order and misses
\* only those that were lost: it never prints on behind an empty message.
THEOREM PrintsAsSent == Spec => []PrintedAsSent
  <1>1. IInv => PrintedAsSent
    BY DEF IInv
  <1> QED BY <1>1, Invariance, PTL
=============================================================================
