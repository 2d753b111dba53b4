--------------------------- MODULE PortScanProofs ---------------------------
(***************************************************************************)
(* Theorems about the port probes, for any number of ports and any local   *)
(* ports the kernel may choose.                                            *)
(***************************************************************************)
EXTENDS PortScan, TLAPS

\* Every program makes at least one attempt, and keeps their number.
LEMMA AttemptsPositive ==
  ASSUME TypeOK, UNCHANGED program
  PROVE  Attempts \in Nat \ {0} /\ Attempts' = Attempts
BY DEF Attempts

\* The loop over the ports moves on, or ends behind the last port.
LEMMA NextPortType ==
  ASSUME TypeOK, pc # "done", NextPort, UNCHANGED program
  PROVE  /\ pc' \in {"open", "send", "done"}
         /\ port' = port + 1 /\ port' \in 1..(NumPorts + 1) /\ port \in Ports
         /\ pc' = "done" <=> port' > NumPorts
         /\ pc' # "done" => port' \in Ports
         /\ attempt' = 0 /\ attempt' \in 0..(Attempts' - 1)
<1>1. Attempts \in Nat \ {0} /\ Attempts' = Attempts
  BY AttemptsPositive
<1> QED BY <1>1, ProbeAssumption DEF TypeOK, NextPort, Ports

\* An attempt that failed is followed by another one at the same port, or by
\* the next port when it was the last.
LEMMA TryAgainType ==
  ASSUME TypeOK, pc # "done", TryAgain, UNCHANGED program
  PROVE  \/ /\ attempt + 1 = Attempts
            /\ NextPort
         \/ /\ port' = port /\ port \in Ports /\ attempt' = attempt + 1
            /\ attempt' \in 0..(Attempts' - 1)
            /\ pc' \in {"open", "send"}
            /\ attempt + 1 < Attempts
<1>1. Attempts \in Nat \ {0} /\ Attempts' = Attempts
  BY AttemptsPositive
<1> QED BY <1>1 DEF TypeOK, TryAgain, AttemptsLeft, NextAttempt

\* The elements of a sequence are of its set.
LEMMA SeqElements ==
  ASSUME NEW S, NEW s \in Seq(S)
  PROVE  \A k \in 1..Len(s) : s[k] \in S
OBVIOUS

\* What is counted are ports.
LEMMA HeardType ==
  ASSUME heard \in Seq([port : Ports, from : Ports])
  PROVE  \A k \in 1..Len(heard) :
           heard[k].port \in Ports /\ heard[k].from \in Ports
<1>1. \A k \in 1..Len(heard) : heard[k] \in [port : Ports, from : Ports]
  <2> DEFINE S == [port : Ports, from : Ports]
  <2>1. heard \in Seq(S)
    OBVIOUS
  <2> HIDE DEF S
  <2>2. \A k \in 1..Len(heard) : heard[k] \in S
    BY <2>1, SeqElements
  <2> QED BY <2>2 DEF S
<1> QED BY <1>1

\* Delivery and loss only take datagrams away.
LEMMA NetworkShrinks ==
  ASSUME NEW D, NEW m
  PROVE  After(D, m) \subseteq D /\ Outlives(D) \subseteq D
BY DEF After, Outlives

\* The loops start with the first port and nothing under way.
LEMMA InitInv == Init => IInv
<1> SUFFICES ASSUME Init PROVE IInv
  OBVIOUS
<1> USE ProbeAssumption DEF Init
<1>1. Attempts \in Nat \ {0}
  BY DEF Attempts
<1>2. TypeOK
  <2>1. leftover \in SUBSET Probes
    BY DEF Probes, Ports
  <2> QED BY <1>1, <2>1 DEF TypeOK, Ports
<1>3. NetworkInv /\ LoopInv /\ TurnInv /\ AnswersArePorts /\ CountedOnce
  BY DEF NetworkInv, LoopInv, IsCounted, TurnInv, IsHeardFrom,
         AnswersArePorts, CountedOnce, Ports
<1> QED BY <1>2, <1>3 DEF IInv

\* A service answers: the request it takes away is the answer it sends.
LEMMA AnswerStep ==
  ASSUME IInv, NEW q \in requests, Answer(q)
  PROVE  IInv'
<1> USE DEF IInv, Answer, history
<1>1. requests' \subseteq requests /\ q \in asked
  BY NetworkShrinks DEF NetworkInv
<1>2. TypeOK'
  BY <1>1 DEF TypeOK, Attempts
<1>3. ~wild => requests' = requests \ {q}
  BY DEF After
<1>4. NetworkInv'
  BY <1>1, <1>3 DEF NetworkInv, Hello
<1>5. LoopInv'
  BY DEF LoopInv, IsCounted, Attempts
<1>6. TurnInv'
  BY DEF TurnInv, IsHeardFrom, LeftoverMet
<1>7. AnswersArePorts' /\ CountedOnce'
  BY DEF AnswersArePorts, FromOneLocal, CountedOnce
<1> QED BY <1>2, <1>4, <1>5, <1>6, <1>7

\* A socket is opened.
LEMMA OpenStep ==
  ASSUME IInv, Open
  PROVE  IInv'
<1> USE DEF IInv, Open, history
<1>1. TypeOK'
  BY DEF TypeOK, Attempts
<1>2. NetworkInv'
  BY DEF NetworkInv
<1>3. LoopInv'
  BY DEF LoopInv, IsCounted, Attempts
<1>4. TurnInv'
  BY DEF TurnInv, IsHeardFrom, LeftoverMet
<1>5. AnswersArePorts' /\ CountedOnce'
  BY DEF AnswersArePorts, FromOneLocal, CountedOnce
<1> QED BY <1>1, <1>2, <1>3, <1>4, <1>5

\* What is said of the loops survives an attempt that failed: either another
\* one follows, or the port is settled as missed.
LEMMA FailedAttempt ==
  ASSUME IInv, pc # "done", UNCHANGED <<program, heard, asked, leftover>>,
         \/ /\ TryAgain
            /\ failed' = [failed EXCEPT ![port] = attempt + 1]
         \/ /\ NextPort
            /\ failed' = [failed EXCEPT ![port] = Attempts]
  PROVE  /\ LoopInv' /\ TurnInv' /\ CountedOnce'
         /\ failed' \in [Ports -> 0..Attempts']
         /\ pc' \in {"open", "send", "done"}
         /\ port' \in 1..(NumPorts + 1)
         /\ pc' # "done" => port' \in Ports
         /\ attempt' \in 0..(Attempts' - 1)
<1> USE DEF IInv
<1>1. Attempts \in Nat \ {0} /\ Attempts' = Attempts
  BY AttemptsPositive
<1>2. port \in Ports /\ failed[port] = attempt /\ attempt \in 0..(Attempts - 1)
      /\ failed \in [Ports -> 0..Attempts] /\ Ports \subseteq Nat
  BY DEF TypeOK, LoopInv, Ports
<1>3. \A k \in 1..Len(heard) : heard[k].port \in Nat /\ heard[k].port < port
  BY <1>2, HeardType DEF TypeOK, LoopInv
<1>4. CountedOnce'
  BY DEF CountedOnce
<1>5. \A p : IsCounted(p)' <=> IsCounted(p)
  BY DEF IsCounted
<1>6. ~IsCounted(port)
  BY <1>2, <1>3 DEF IsCounted
<1>6a. port' = port \/ port' = port + 1
  BY NextPortType, TryAgainType
<1>6b. TurnInv'
  <2>1. \A a \in asked' : a.port <= port'
    <3>1. \A a \in asked : a.port \in Nat /\ a.port <= port
      BY <1>2 DEF TurnInv, TypeOK, Probes
    <3> QED BY <1>2, <1>6a, <3>1
  <2>2. (\A p \in 1..(port' - 1) : IsHeardFrom(p))
          => \A p \in 1..(port - 1) : IsHeardFrom(p)
    BY <1>2, <1>6a
  <2>3. LeftoverMet' = LeftoverMet
    BY DEF LeftoverMet
  <2> QED BY <2>1, <2>2, <2>3 DEF TurnInv, IsHeardFrom
<1>7. CASE /\ NextPort
           /\ failed' = [failed EXCEPT ![port] = Attempts]
  <2>1. /\ pc' \in {"open", "send", "done"}
        /\ port' = port + 1 /\ port' \in 1..(NumPorts + 1)
        /\ pc' = "done" <=> port' > NumPorts
        /\ pc' # "done" => port' \in Ports
        /\ attempt' = 0 /\ attempt' \in 0..(Attempts' - 1)
    BY <1>7, NextPortType
  <2>2. failed' \in [Ports -> 0..Attempts'] /\ failed'[port] = Attempts
        /\ \A p \in Ports \ {port} : failed'[p] = failed[p]
    BY <1>1, <1>2, <1>7
  <2>3. \A k \in 1..Len(heard') : heard'[k].port < port'
    BY <1>2, <1>3, <2>1
  <2>4. ASSUME NEW p \in Ports
        PROVE  /\ p < port' => (IsCounted(p)' <=> failed'[p] < Attempts')
               /\ p = port' => failed'[p] = attempt'
               /\ p > port' => failed'[p] = 0
    <3>1. CASE p = port
      BY <1>1, <1>2, <1>5, <1>6, <2>1, <2>2, <3>1
    <3>2. CASE p < port
      BY <1>1, <1>2, <1>5, <2>1, <2>2, <3>2 DEF LoopInv
    <3>3. CASE p > port
      BY <1>1, <1>2, <2>1, <2>2, <3>3 DEF LoopInv
    <3> QED BY <1>2, <3>1, <3>2, <3>3
  <2>5. LoopInv'
    BY <2>1, <2>3, <2>4 DEF LoopInv
  <2> QED BY <1>4, <1>6b, <2>1, <2>2, <2>5
<1>8. CASE /\ TryAgain
           /\ failed' = [failed EXCEPT ![port] = attempt + 1]
  <2>1. CASE attempt + 1 = Attempts /\ NextPort
    <3>1. failed' = [failed EXCEPT ![port] = Attempts]
      BY <1>2, <1>8, <2>1
    <3> QED BY <1>7, <2>1, <3>1
  <2>2. CASE /\ port' = port /\ attempt' = attempt + 1
             /\ attempt' \in 0..(Attempts' - 1)
             /\ pc' \in {"open", "send"}
             /\ attempt + 1 < Attempts
    <3>1. failed' \in [Ports -> 0..Attempts'] /\ failed'[port] = attempt'
          /\ \A p \in Ports \ {port} : failed'[p] = failed[p]
      BY <1>1, <1>2, <1>8, <2>2
    <3>2. LoopInv'
      BY <1>1, <1>2, <1>5, <2>2, <3>1 DEF LoopInv
    <3> QED BY <1>2, <1>4, <1>6b, <2>2, <3>1, <3>2 DEF TypeOK
  <2> QED BY <1>8, <2>1, <2>2, TryAgainType
<1> QED BY <1>7, <1>8

\* No socket: scanner gives the port up, identify_port_with_retry an attempt.
LEMMA OpenFailsStep ==
  ASSUME IInv, OpenFails
  PROVE  IInv'
<1> USE DEF IInv
<1>1. /\ pc = "open"
      /\ UNCHANGED <<program, wild, responders, leftover, local, heard, requests,
                     replies, asked>>
  BY DEF OpenFails
<1>2. /\ LoopInv' /\ TurnInv' /\ CountedOnce'
      /\ failed' \in [Ports -> 0..Attempts']
      /\ pc' \in {"open", "send", "done"}
      /\ port' \in 1..(NumPorts + 1)
      /\ pc' # "done" => port' \in Ports
      /\ attempt' \in 0..(Attempts' - 1)
  BY <1>1, FailedAttempt DEF OpenFails
<1>3. program \in {"scanner", "scannernew", "chat", "identify"}
  BY DEF OpenFails
<1>4. pc' # "send"
  BY <1>1, <1>3 DEF OpenFails, TryAgain, NextPort
<1>5. TypeOK'
  BY <1>1, <1>2, <1>4 DEF TypeOK
<1>6. NetworkInv'
  BY <1>1, <1>2 DEF NetworkInv
<1>7. AnswersArePorts'
  BY <1>1 DEF AnswersArePorts, FromOneLocal
<1> QED BY <1>2, <1>5, <1>6, <1>7

\* A greeting is sent, or the program believes it was.
LEMMA SendStep ==
  ASSUME IInv, pc = "send", pc' = "wait",
         asked' = asked \cup {Hello},
         requests' = requests \/ requests' = requests \cup {Hello},
         UNCHANGED <<program, wild, responders, leftover, port, attempt, local,
                     heard, replies, failed>>
  PROVE  IInv'
<1> USE DEF IInv
<1>1. Hello \in Probes /\ Hello' = Hello
  BY DEF TypeOK, Hello, Probes
<1>2. TypeOK'
  BY <1>1 DEF TypeOK, Attempts
<1>3. NetworkInv'
  BY <1>1 DEF NetworkInv
<1>4. LoopInv' /\ CountedOnce'
  BY DEF LoopInv, IsCounted, Attempts, CountedOnce
<1>4a. TurnInv'
  <2>1. \A a \in asked' : a.port <= port'
    BY DEF TurnInv, Hello, TypeOK, Ports
  <2>2. LeftoverMet => LeftoverMet'
    BY DEF LeftoverMet
  <2>3. \A p : IsHeardFrom(p)' <=> IsHeardFrom(p)
    BY DEF IsHeardFrom
  <2>4. ~LeftoverMet =>
          /\ \A k \in 1..Len(heard) : heard[k].from <= heard[k].port
          /\ (\A p \in 1..(port - 1) : IsHeardFrom(p))
               => \A k \in 1..Len(heard) : heard[k].port = heard[k].from
    BY DEF TurnInv
  <2> QED BY <2>1, <2>2, <2>3, <2>4 DEF TurnInv
<1>5. AnswersArePorts'
  <2>1. \A p, q : FromOneLocal(p, q) => FromOneLocal(p, q)'
    BY DEF FromOneLocal
  <2> QED BY <2>1 DEF AnswersArePorts
<1> QED BY <1>2, <1>3, <1>4, <1>4a, <1>5

\* scanner1 skips the port, the others wait in vain.
LEMMA SendFailsStep ==
  ASSUME IInv, SendFails
  PROVE  IInv'
<1> USE DEF IInv
<1>1. CASE program # "scanner1"
  <2>1. /\ pc = "send" /\ pc' = "wait" /\ asked' = asked \cup {Hello}
        /\ UNCHANGED <<program, wild, responders, leftover, port, attempt, local,
                       heard, requests, replies, failed>>
    BY <1>1 DEF SendFails
  <2> QED BY <2>1, SendStep
<1>2. CASE program = "scanner1"
  <2>1. /\ pc = "send" /\ NextPort /\ failed' = [failed EXCEPT ![port] = attempt + 1]
        /\ UNCHANGED <<program, wild, responders, leftover, local, heard,
                       requests, replies, asked>>
    BY <1>2 DEF SendFails
  <2>2. Attempts = 1 /\ attempt = 0 /\ failed[port] = attempt
        /\ failed \in [Ports -> 0..Attempts]
    BY <1>2, <2>1 DEF TypeOK, LoopInv, Attempts
  <2>3. failed' = [failed EXCEPT ![port] = Attempts]
    BY <2>1, <2>2
  <2>4. /\ LoopInv' /\ TurnInv' /\ CountedOnce'
        /\ failed' \in [Ports -> 0..Attempts']
        /\ pc' \in {"open", "send", "done"}
        /\ port' \in 1..(NumPorts + 1)
        /\ pc' # "done" => port' \in Ports
        /\ attempt' \in 0..(Attempts' - 1)
    BY <2>1, <2>3, FailedAttempt
  <2>5. TypeOK'
    BY <2>1, <2>4 DEF TypeOK
  <2>6. NetworkInv'
    BY <2>1, <2>4 DEF NetworkInv
  <2>7. AnswersArePorts'
    BY <2>1 DEF AnswersArePorts, FromOneLocal
  <2> QED BY <2>4, <2>5, <2>6, <2>7
<1> QED BY <1>1, <1>2

\* An answer is counted: it was sent to this local port, so if it is another
\* port's both were asked from there.
LEMMA ReceiveStep ==
  ASSUME IInv, NEW m \in replies, Receive(m)
  PROVE  IInv'
<1> USE DEF IInv
<1> DEFINE entry == [port |-> port, from |-> m.port]
           last == Len(heard) + 1
<1>1. /\ pc = "wait" /\ m.local = local /\ NextPort
      /\ heard' = Append(heard, entry)
      /\ replies' \subseteq replies /\ (~wild => replies' = replies \ {m})
      /\ UNCHANGED <<program, wild, responders, leftover, local, requests,
                     asked, failed>>
  BY NetworkShrinks DEF Receive, Counted, Found, After, history
<1>2. /\ pc' \in {"open", "send", "done"}
      /\ port' = port + 1 /\ port' \in 1..(NumPorts + 1) /\ port \in Ports
      /\ pc' = "done" <=> port' > NumPorts
      /\ pc' # "done" => port' \in Ports
      /\ attempt' = 0 /\ attempt' \in 0..(Attempts' - 1)
  BY <1>1, NextPortType
<1>3. Attempts \in Nat \ {0} /\ Attempts' = Attempts
  BY <1>1, AttemptsPositive
<1>4. /\ m \in asked \cup leftover /\ m \in Probes /\ m.port \in Ports
      /\ m = [port |-> m.port, local |-> local] /\ local \in Locals
      /\ Hello \in asked /\ Hello.local = local /\ Hello.port = port
  BY <1>1 DEF NetworkInv, TypeOK, Probes, Hello
<1>5. /\ entry \in [port : Ports, from : Ports]
      /\ heard \in Seq([port : Ports, from : Ports])
  BY <1>2, <1>4 DEF TypeOK
<1> HIDE DEF entry
<1>6. /\ heard' \in Seq([port : Ports, from : Ports])
      /\ Len(heard') = last /\ heard'[last] = entry
      /\ \A k \in 1..Len(heard) : heard'[k] = heard[k]
      /\ last \in 1..last /\ Len(heard) \in Nat
      /\ \A k \in 1..last : k \in 1..Len(heard) \/ k = last
  BY <1>1, <1>5
<1>7. entry.port = port /\ entry.from = m.port
  BY DEF entry
<1>8. TypeOK'
  BY <1>1, <1>2, <1>3, <1>6 DEF TypeOK
<1>9. NetworkInv'
  <2>1. ~wild => requests = {} /\ replies' = {}
    BY <1>1 DEF NetworkInv
  <2> QED BY <1>1, <1>2, <2>1 DEF NetworkInv
<1>10. AnswersArePorts'
  <2>1. m.port # port => wild /\ FromOneLocal(port, m.port)
    <3>1. CASE wild
      BY <1>4, <3>1 DEF FromOneLocal, Hello
    <3>2. CASE ~wild
      BY <1>1, <1>4, <3>2 DEF NetworkInv
    <3> QED BY <3>1, <3>2
  <2>2. \A p, q : FromOneLocal(p, q)' = FromOneLocal(p, q)
    BY <1>1 DEF FromOneLocal
  <2> QED BY <1>1, <1>6, <1>7, <2>1, <2>2 DEF AnswersArePorts
<1>11. \A k \in 1..Len(heard) : heard[k].port \in Nat /\ heard[k].port < port
  BY <1>5, HeardType DEF LoopInv, Ports
<1>12. CountedOnce'
  <2> SUFFICES ASSUME NEW j \in 1..last, NEW k \in 1..last, j < k
               PROVE  heard'[j].port < heard'[k].port
    BY <1>6 DEF CountedOnce
  <2>1. j \in 1..Len(heard)
    BY <1>6
  <2>2. CASE k = last
    BY <1>6, <1>7, <1>11, <2>1, <2>2
  <2>3. CASE k \in 1..Len(heard)
    BY <1>6, <2>1, <2>3 DEF CountedOnce
  <2> QED BY <1>6, <2>2, <2>3
<1>13. LoopInv'
  <2>1. ASSUME NEW k \in 1..last
        PROVE  heard'[k].port < port'
    <3>1. port \in Nat /\ port' = port + 1
      BY <1>2 DEF Ports
    <3>2. CASE k = last
      BY <1>6, <1>7, <3>1, <3>2
    <3>3. CASE k \in 1..Len(heard)
      BY <1>6, <1>11, <3>1, <3>3
    <3> QED BY <1>6, <3>2, <3>3
  <2>2. ASSUME NEW p \in Ports
        PROVE  /\ p < port' => (IsCounted(p)' <=> failed'[p] < Attempts')
               /\ p = port' => failed'[p] = attempt'
               /\ p > port' => failed'[p] = 0
    <3>1. IsCounted(p)' <=> IsCounted(p) \/ p = port
      BY <1>6, <1>7 DEF IsCounted
    <3>2. port \in Nat /\ p \in Nat /\ failed' = failed
      BY <1>1, <1>2 DEF Ports
    <3>3. attempt < Attempts
      BY <1>3 DEF TypeOK
    <3>4. CASE p = port
      BY <1>2, <1>3, <3>1, <3>2, <3>3, <3>4 DEF LoopInv
    <3>5. CASE p < port
      BY <1>2, <1>3, <3>1, <3>2, <3>5 DEF LoopInv
    <3>6. CASE p > port
      BY <1>2, <3>2, <3>6 DEF LoopInv
    <3> QED BY <3>2, <3>4, <3>5, <3>6
  <2> QED BY <1>2, <1>6, <2>1, <2>2 DEF LoopInv
<1>14. TurnInv'
  <2>1. port \in Nat /\ m.port \in Nat /\ Hello.port \in Nat
    BY <1>2, <1>4 DEF Ports
  <2>2. \A a \in asked' : a.port <= port'
    BY <1>1, <1>2 DEF TurnInv, TypeOK, Probes, Ports
  <2>3. LeftoverMet' = LeftoverMet
    BY <1>1 DEF LeftoverMet
  <2> SUFFICES ASSUME ~LeftoverMet
               PROVE  /\ \A k \in 1..last : heard'[k].from <= heard'[k].port
                      /\ (\A p \in 1..(port' - 1) : IsHeardFrom(p)')
                           => \A k \in 1..last :
                                heard'[k].port = heard'[k].from
    BY <1>6, <2>2, <2>3 DEF TurnInv
  <2>4. m.port <= port
    <3>1. CASE m \in asked
      BY <3>1 DEF TurnInv
    <3>2. CASE m \in leftover
      <4>1. ~(Hello.port < m.port)
        BY <1>1, <1>4, <3>2 DEF LeftoverMet
      <4> QED BY <1>4, <2>1, <4>1
    <3> QED BY <1>4, <3>1, <3>2
  <2>5. \A k \in 1..last : heard'[k].from <= heard'[k].port
    BY <1>6, <1>7, <2>4 DEF TurnInv
  <2>6. ASSUME \A p \in 1..(port' - 1) : IsHeardFrom(p)'
        PROVE  \A k \in 1..last : heard'[k].port = heard'[k].from
    <3>1. \A p \in 1..port : IsHeardFrom(p) \/ p = m.port
      <4>1. \A p : IsHeardFrom(p)' <=> IsHeardFrom(p) \/ p = m.port
        BY <1>6, <1>7 DEF IsHeardFrom
      <4>2. \A p \in 1..port : p \in 1..(port' - 1)
        BY <1>2, <2>1
      <4> QED BY <2>6, <4>1, <4>2
    <3>2. ~IsHeardFrom(port)
      <4>1. \A k \in 1..Len(heard) : heard[k].from \in Nat
        BY <1>5, HeardType DEF Ports
      <4>2. \A k \in 1..Len(heard) : heard[k].from # port
        BY <1>11, <2>1, <4>1 DEF TurnInv
      <4> QED BY <4>2 DEF IsHeardFrom
    <3>3. m.port = port
      BY <1>2, <2>1, <3>1, <3>2 DEF Ports
    <3>4. \A p \in 1..(port - 1) : IsHeardFrom(p)
      BY <2>1, <3>1, <3>3
    <3>5. \A k \in 1..Len(heard) : heard[k].port = heard[k].from
      BY <3>4 DEF TurnInv
    <3> QED BY <1>6, <1>7, <3>3, <3>5
  <2> QED BY <2>5, <2>6
<1> QED BY <1>8, <1>9, <1>10, <1>12, <1>13, <1>14

\* A timeout passes.
LEMMA TimeoutStep ==
  ASSUME IInv, Timeout
  PROVE  IInv'
<1> USE DEF IInv
<1>1. /\ pc = "wait" /\ TryAgain /\ failed' = [failed EXCEPT ![port] = attempt + 1]
      /\ requests' \subseteq requests /\ replies' \subseteq replies
      /\ ~wild => requests' = {} /\ replies' = {}
      /\ UNCHANGED <<program, wild, responders, leftover, local, heard, asked>>
  BY NetworkShrinks DEF Timeout, HeardNothing, Outlives
<1>2. /\ LoopInv' /\ TurnInv' /\ CountedOnce'
      /\ failed' \in [Ports -> 0..Attempts']
      /\ pc' \in {"open", "send", "done"}
      /\ port' \in 1..(NumPorts + 1)
      /\ pc' # "done" => port' \in Ports
      /\ attempt' \in 0..(Attempts' - 1)
  BY <1>1, FailedAttempt
<1>3. TypeOK'
  BY <1>1, <1>2 DEF TypeOK
<1>4. NetworkInv'
  BY <1>1, <1>2 DEF NetworkInv
<1>5. AnswersArePorts'
  BY <1>1 DEF AnswersArePorts, FromOneLocal
<1> QED BY <1>2, <1>3, <1>4, <1>5

\* The invariant of the probes, over either network.
THEOREM Invariance == Spec => []IInv
<1>1. IInv /\ UNCHANGED vars => IInv'
  <2> SUFFICES ASSUME IInv, UNCHANGED vars PROVE IInv'
    OBVIOUS
  <2> USE DEF IInv, vars, history
  <2>1. TypeOK' /\ NetworkInv'
    BY DEF TypeOK, Attempts, NetworkInv, Hello
  <2>2. LoopInv' /\ CountedOnce'
    BY DEF LoopInv, IsCounted, Attempts, CountedOnce
  <2>3. TurnInv'
    BY DEF TurnInv, IsHeardFrom, LeftoverMet
  <2>4. AnswersArePorts'
    BY DEF AnswersArePorts, FromOneLocal
  <2> QED BY <2>1, <2>2, <2>3, <2>4
<1>2. ASSUME IInv, Send PROVE IInv'
  BY <1>2, SendStep DEF Send
<1>3. IInv /\ [Next]_vars => IInv'
  BY <1>1, <1>2, AnswerStep, OpenStep, OpenFailsStep, SendFailsStep,
     ReceiveStep, TimeoutStep DEF Next, Probe
<1> QED BY <1>3, InitInv, PTL DEF Spec

\* An answer is attributed to the port it came from, unless it was late and
\* this port and the one it came from were asked from one local port, by this
\* scan or the one before.
THEOREM Attribution == Spec => []AnswersArePorts
<1>1. IInv => AnswersArePorts
  BY DEF IInv
<1> QED BY <1>1, Invariance, PTL

\* A scan that is over has missed exactly the ports whose every attempt failed,
\* however many ports and attempts there are.
THEOREM Completeness == Spec => []MissedOnlyIfAllFailed
<1>1. IInv => MissedOnlyIfAllFailed
  <2> SUFFICES ASSUME IInv, pc = "done", NEW p \in Ports
               PROVE  IsCounted(p) <=> failed[p] < Attempts
    BY DEF MissedOnlyIfAllFailed
  <2>1. p < port
    BY ProbeAssumption DEF IInv, LoopInv, TypeOK, Ports
  <2> QED BY <2>1 DEF IInv, LoopInv
<1> QED BY <1>1, Invariance, PTL

\* A solver that has heard from every port knows each by its own greeting,
\* however late the greetings of its own attempts come and however local ports
\* are used again, unless an earlier scan has left the greeting of a port at a
\* local port from which it asks a port before that one.
THEOREM Identification == Spec => []AllFoundAreRight
<1>1. IInv => AllFoundAreRight
  <2> SUFFICES ASSUME IInv, \A p \in Ports : IsHeardFrom(p), ~LeftoverMet
               PROVE  \A k \in 1..Len(heard) : heard[k].port = heard[k].from
    BY DEF AllFoundAreRight
  <2>1. \A p \in 1..(port - 1) : p \in Ports
    BY ProbeAssumption DEF IInv, TypeOK, Ports
  <2> QED BY <2>1 DEF IInv, TurnInv
<1> QED BY <1>1, Invariance, PTL

-----------------------------------------------------------------------------
(* A scan comes to an end.                                                 *)

\* The calls made before the present one within its attempt.
Phase == CASE pc = "open" -> 0 [] pc = "send" -> 1 [] OTHER -> 2

\* A bound on what a scan has still to do: a port costs at most three attempts
\* of three calls.
Rank ==
  IF pc = "done" THEN 0
  ELSE 12 * (NumPorts + 1 - port) - (3 * attempt + Phase)

\* While the scan is not over there is something left to count down.
RankInv == Rank \in Nat /\ (Rank = 0 <=> pc = "done")

\* Every step of the program counts down; no answer gives it more to do.
RankFalls == [][/\ Probe => Rank' < Rank
                /\ (\E q \in requests : Answer(q)) => Rank' = Rank]_vars

\* Where the loops are.
LEMMA LoopBounds ==
  ASSUME IInv
  PROVE  /\ NumPorts \in Nat /\ port \in Nat /\ attempt \in 0..2
         /\ Attempts \in 1..3
         /\ pc # "done" => port <= NumPorts
BY ProbeAssumption DEF IInv, TypeOK, Attempts, Ports

LEMMA RankIsNatural == IInv => RankInv
<1> SUFFICES ASSUME IInv PROVE RankInv
  OBVIOUS
<1>1. Phase \in 0..2
  BY DEF Phase
<1> QED BY <1>1, LoopBounds DEF RankInv, Rank

\* The next port is worth more than the attempts of this one.
LEMMA NextPortCounts ==
  ASSUME IInv, pc # "done", NextPort
  PROVE  Rank' < Rank
<1>1. Phase \in 0..2 /\ Phase' \in 0..2
  BY DEF Phase
<1>2. port' = port + 1 /\ attempt' = 0
  BY DEF NextPort
<1>3. pc' # "done" => Rank' = 12 * (NumPorts - port) - Phase'
  BY <1>1, <1>2, LoopBounds DEF Rank
<1>4. /\ Rank \in Int /\ NumPorts - port \in Nat
      /\ Rank >= 12 * (NumPorts - port) + 4
  BY <1>1, LoopBounds DEF Rank
<1>5. pc' = "done" => Rank' = 0
  BY DEF Rank
<1> QED BY <1>1, <1>3, <1>4, <1>5, LoopBounds

\* So does the next attempt at the same port, which opens a socket at most.
LEMMA TryAgainCounts ==
  ASSUME IInv, pc # "done", TryAgain
  PROVE  Rank' < Rank
<1>1. CASE NextPort
  BY <1>1, NextPortCounts
<1>2. CASE AttemptsLeft /\ attempt' = NextAttempt /\ port' = port
             /\ pc' \in {"open", "send"}
  BY <1>2, LoopBounds DEF Rank, Phase, NextAttempt
<1> QED BY <1>1, <1>2 DEF TryAgain

LEMMA ProbeCounts == IInv /\ Probe => Rank' < Rank
<1> SUFFICES ASSUME IInv, Probe PROVE Rank' < Rank
  OBVIOUS
<1>1. CASE Open
  BY <1>1, LoopBounds DEF Open, Rank, Phase
<1>2. CASE OpenFails
  BY <1>2, NextPortCounts, TryAgainCounts DEF OpenFails
<1>3. CASE Send
  BY <1>3, LoopBounds DEF Send, Rank, Phase
<1>4. CASE SendFails
  <2>1. CASE NextPort
    BY <1>4, <2>1, NextPortCounts DEF SendFails
  <2>2. CASE pc = "send" /\ pc' = "wait" /\ UNCHANGED <<port, attempt>>
    BY <2>2, LoopBounds DEF Rank, Phase
  <2> QED BY <1>4, <2>1, <2>2 DEF SendFails
<1>5. CASE \E m \in replies : Receive(m)
  BY <1>5, NextPortCounts DEF Receive, Found
<1>6. CASE Timeout
  BY <1>6, TryAgainCounts DEF Timeout
<1> QED BY <1>1, <1>2, <1>3, <1>4, <1>5, <1>6 DEF Probe

\* Each of the five scans makes a bounded number of calls, whatever the
\* services and the network do: at most twelve for each port.
THEOREM CountsDown == Spec => []RankInv /\ RankFalls
<1>1. (\E q \in requests : Answer(q)) => Rank' = Rank
  BY DEF Answer, Rank, Phase
<1>2. IInv /\ [Next]_vars
        => [/\ Probe => Rank' < Rank
            /\ (\E q \in requests : Answer(q)) => Rank' = Rank]_vars
  BY <1>1, ProbeCounts
<1> QED BY <1>2, RankIsNatural, Invariance, PTL DEF Spec, RankFalls
=============================================================================
