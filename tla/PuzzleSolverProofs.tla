------------------------- MODULE PuzzleSolverProofs -------------------------
(***************************************************************************)
(* What the course of the solvers guarantees for any set of challenges and *)
(* instructions, any number of local ports and any network.                *)
(***************************************************************************)
EXTENDS SolverExchange, TLAPS

(* How a step is left.                                                     *)

LEMMA GoOnCases ==
  ASSUME GoOn, step \in Steps \cup {"knock"}
  PROVE  \/ /\ step = "hello" /\ step' = "sign" /\ pc' = "send"
            /\ attempt' = 0
         \/ /\ step = "sign" /\ step' = "sign" /\ pc' = "exit0"
            /\ attempt' = attempt /\ program = "chat"
         \/ /\ step = "sign" /\ step' = "evil" /\ pc' = "open"
            /\ attempt' = 0 /\ program # "chat"
         \/ /\ step = "evil" /\ step' = "instruct" /\ attempt' = 0
            /\ pc' \in {"open", "send"}
            /\ pc' = "open" <=> program = "puzzlesolver"
         \/ /\ step = "instruct" /\ step' = "packet" /\ pc' = "send"
            /\ attempt' = 0
         \/ /\ step = "packet" /\ step' = "knock" /\ pc' = "send"
            /\ attempt' = 0
         \/ /\ step = "knock" /\ step' = "icmp" /\ pc' = "send"
            /\ attempt' = 0
  <1>1. CASE step = "hello"
    BY <1>1 DEF GoOn, NextStep, OpensSocket, Opener
  <1>2. CASE step = "sign"
    BY <1>2 DEF GoOn, NextStep, OpensSocket, Opener
  <1>3. CASE step = "evil"
    BY <1>3 DEF GoOn, NextStep, OpensSocket, Opener
  <1>4. CASE step = "instruct"
    BY <1>4 DEF GoOn, NextStep, OpensSocket, Opener
  <1>5. CASE step = "packet"
    BY <1>5 DEF GoOn, NextStep, OpensSocket, Opener
  <1>6. CASE step = "knock"
    BY <1>6 DEF GoOn, NextStep, OpensSocket, Opener
  <1> QED BY <1>1, <1>2, <1>3, <1>4, <1>5, <1>6 DEF Steps

\* A failed attempt stays in its step or ends the program.
LEMMA TryAgainCases ==
  ASSUME TypeOK, TryAgain
  PROVE  /\ step' = step
         /\ attempt' \in 0..2
         /\ pc' \in {"send", "exit1"}
  <1>1. attempt \in 0..2 /\ Attempts \in 1..3
    BY DEF TypeOK, Attempts
  <1> QED BY <1>1 DEF TryAgain, NextAttempt, Fail

\* What any of the ways to leave a wait or a send may do.
Leaves ==
  \/ GoOn
  \/ TryAgain
  \/ Fail
  \/ pc' \in {"wait", "exit0"} /\ UNCHANGED <<step, attempt>>

LEMMA SendFailsCases ==
  ASSUME SendFails
  PROVE  /\ pc = "send" /\ step \in Steps
         /\ UNCHANGED <<program, wild, local, told, network, services, sockets,
                        missed>>
         /\ \/ GoOn /\ program = "puzzlesolver1" /\ step = "evil"
            \/ TryAgain
            \/ Fail
            \/ pc' \in {"wait", "exit0"} /\ UNCHANGED <<step, attempt>>
  BY DEF SendFails

LEMMA LeavesType ==
  ASSUME TypeOK, Leaves, step \in Steps \cup {"knock"}
  PROVE  /\ pc' \in {"open", "send", "wait", "exit0", "exit1"}
         /\ step' \in Steps \cup {"knock", "icmp"}
         /\ attempt' \in 0..2
  <1>1. CASE GoOn
    BY <1>1, GoOnCases DEF Steps, TypeOK
  <1>2. CASE TryAgain
    BY <1>2, TryAgainCases DEF TypeOK
  <1>3. CASE Fail
    BY <1>3 DEF Fail, TypeOK
  <1>4. CASE pc' \in {"wait", "exit0"} /\ UNCHANGED <<step, attempt>>
    BY <1>4 DEF TypeOK
  <1> QED BY <1>1, <1>2, <1>3, <1>4 DEF Leaves

-----------------------------------------------------------------------------
(* Types.                                                                  *)

LEMMA TypeInit == Init => TypeOK
  <1> SUFFICES ASSUME Init PROVE TypeOK
    OBVIOUS
  <1>1. 1 \in Locals
    BY SessionAssumption DEF Locals
  <1>2. requests \subseteq Requests /\ replies \subseteq Answers
    BY <1>1 DEF Init, Answers, Noise, Refusal
  <1>3. sockets \subseteq [step : Steps \cup {"greet"}, local : Locals]
    BY <1>1 DEF Init
  <1>4. wild \in BOOLEAN
    BY SessionAssumption DEF Init
  <1> QED BY <1>2, <1>3, <1>4 DEF Init, TypeOK, Steps

LEMMA AnswerType ==
  ASSUME TypeOK, NEW q \in requests, NEW v \in Replies(q), Answer(q, v)
  PROVE  TypeOK'
  <1>1. q \in Requests
    BY DEF TypeOK
  <1>2. q.step \in Steps \cup {"stray"} /\ q.local \in Locals
    BY <1>1 DEF Requests
  <1>3. [step |-> q.step, value |-> v, local |-> q.local] \in Answers
    <2>1. CASE q.step = "hello"
      BY <1>2, <2>1 DEF Replies, Answers
    <2>2. CASE q.step = "instruct"
      BY <1>2, <2>2 DEF Replies, Answers
    <2>3. CASE q.step \in {"sign", "evil", "packet", "stray"}
      <3>1. v \in {Granted, Refusal}
        BY <2>3 DEF Replies
      <3> QED BY <1>2, <2>3, <3>1 DEF Answers
    <2> QED BY <1>2, <2>1, <2>2, <2>3 DEF Steps
  <1>4. requests' \subseteq Requests /\ replies' \subseteq Answers
    BY <1>3 DEF Answer, After, TypeOK
  <1>5. expected' \in Challenges \cup {Noise}
    BY DEF Answer, Replies, TypeOK
  <1>6. required' \in Instructions \cup {Noise}
    BY DEF Answer, Replies, TypeOK, Noise, Refusal
  <1>7. accepted' \subseteq Challenges
    <2>1. CASE q.step = "sign" /\ v = Granted
      <3>1. q.value = expected /\ q.value # Noise
        BY <2>1 DEF Replies, Granted, Refusal
      <3> QED BY <2>1, <3>1 DEF Answer, TypeOK
    <2>2. CASE ~(q.step = "sign" /\ v = Granted)
      BY <2>2 DEF Answer, TypeOK
    <2> QED BY <2>1, <2>2
  <1> QED BY <1>4, <1>5, <1>6, <1>7 DEF Answer, TypeOK, place, told

LEMMA OpenType ==
  ASSUME TypeOK, Open \/ OpenFails PROVE TypeOK'
  <1>1. CASE Open
    <2>1. CASE Opener(step) = step
      <3>1. local' \in Locals
        BY <1>1, <2>1 DEF Open, FreePorts, Locals
      <3>2. step \in Steps
        BY <2>1 DEF Opener, Steps, TypeOK
      <3>3. sockets' \subseteq [step : Steps \cup {"greet"}, local : Locals]
        BY <1>1, <2>1, <3>1, <3>2 DEF Open, TypeOK
      <3> QED BY <1>1, <3>1, <3>3 DEF Open, TypeOK, told, network, services
    <2>2. CASE Opener(step) # step
      <3>1. step # "hello"
        BY <2>2 DEF Opener
      <3> QED BY <1>1, <2>2, <3>1 DEF Open, TypeOK, told, network, services
    <2> QED BY <2>1, <2>2
  <1>2. CASE OpenFails
    BY <1>2 DEF OpenFails, TypeOK, told, network, services
  <1> QED BY <1>1, <1>2

LEMMA SendType ==
  ASSUME TypeOK, Send PROVE TypeOK'
  <1>1. Target \in Steps \cup {"stray"}
    BY DEF Target, Send
  <1>2. Number \in Challenges \cup Instructions \cup {Noise}
    BY DEF Number, TypeOK
  <1>3. requests' \subseteq Requests
    BY <1>1, <1>2 DEF Send, Requests, TypeOK
  <1>4. pc' \in {"wait", "exit0"}
    BY DEF Send, AfterSend
  <1> QED BY <1>3, <1>4 DEF Send, TypeOK, told, services

LEMMA LearnType ==
  ASSUME TypeOK, NEW m \in replies, Learn(m)
  PROVE  /\ peer' \in {"secret", "other"}
         /\ signature' \in Challenges \cup {Noise}
         /\ instruction' \in Instructions \cup {Noise}
         /\ {secret_hidden_port, evil_hidden_port, secret_phrase}'
              \subseteq Steps \cup {"unset"}
  <1>1. m \in Answers
    BY DEF TypeOK
  <1>2. signature' \in Challenges \cup {Noise}
    BY <1>1 DEF Learn, Challenge, Answers, TypeOK
  <1>3. instruction' \in Instructions \cup {Noise}
    BY <1>1 DEF Learn, Instruction, Answers, TypeOK, Noise, Refusal
  <1>4. HoldsPort(m) \/ HoldsQuotes(m) => m.step \in Steps
    BY DEF HoldsPort, HoldsQuotes, Steps
  <1> QED BY <1>2, <1>3, <1>4 DEF Learn, TypeOK

LEMMA ReceiveType ==
  ASSUME TypeOK, NEW m \in replies, Receive(m), step \in Steps
  PROVE  TypeOK'
  <1>1. Leaves
    BY DEF Receive, Leaves
  <1>2. replies' \subseteq Answers
    BY DEF Receive, After, TypeOK
  <1>3. Learn(m)
    BY DEF Receive
  <1>4. local' \in Locals
    BY DEF Receive, TypeOK
  <1> QED BY <1>1, <1>2, <1>3, <1>4, LeavesType, LearnType
          DEF Receive, TypeOK, services

LEMMA TimeoutType ==
  ASSUME TypeOK, Timeout, step \in Steps
  PROVE  TypeOK'
  <1>1. Leaves
    BY DEF Timeout, Leaves
  <1>2. requests' \subseteq Requests /\ replies' \subseteq Answers
    BY DEF Timeout, Outlives, TypeOK
  <1>3. missed' \subseteq Steps
    BY DEF Timeout, TypeOK
  <1>4. local' \in Locals
    BY DEF Timeout, TypeOK
  <1> QED BY <1>1, <1>2, <1>3, <1>4, LeavesType DEF Timeout, TypeOK, told, services

LEMMA OtherType ==
  ASSUME TypeOK, SendFails \/ Knock \/ Ping
  PROVE  TypeOK'
  <1>1. UNCHANGED <<program, wild, local, told, network, services, sockets,
                    missed>>
    BY DEF SendFails, Knock, Ping
  <1>2. local' \in Locals
    BY <1>1 DEF TypeOK, SendFails, Knock, Ping
  <1>3. /\ pc' \in {"open", "send", "wait", "exit0", "exit1"}
        /\ step' \in Steps \cup {"knock", "icmp"}
        /\ attempt' \in 0..2
    <2>1. CASE SendFails
      BY <2>1, SendFailsCases, LeavesType DEF Leaves
    <2>2. CASE Knock
      BY <2>2, LeavesType DEF Knock, Leaves
    <2>3. CASE Ping
      BY <2>3 DEF Ping, TypeOK
    <2> QED BY <2>1, <2>2, <2>3
  <1> QED BY <1>1, <1>2, <1>3 DEF TypeOK, told, network, services

-----------------------------------------------------------------------------
(* How far a program comes.                                                *)

\* The actions that may leave a step, and how they leave it.
Move == SendFails \/ Timeout \/ Knock \/ \E m \in replies : Receive(m)

NextOf(a, b) == step = a /\ step' = b

LEMMA MoveCases ==
  ASSUME TypeOK, CourseInv, Move
  PROVE  /\ UNCHANGED <<program, wild, local, sockets, services>>
         /\ requests' \subseteq requests /\ replies' \subseteq replies
         /\ pc \in {"send", "wait"} /\ step \in Steps \cup {"knock"}
         /\ \/ /\ step' = step
               /\ pc' \in {"send", "exit0", "exit1"}
                    \/ /\ pc' = "wait" /\ program # "puzzlesolver1"
                       /\ step \in Steps
            \/ NextOf("hello", "sign") /\ pc' = "send"
            \/ NextOf("sign", "evil") /\ pc' = "open" /\ program # "chat"
            \/ /\ NextOf("evil", "instruct")
               /\ pc' \in {"open", "send"}
               /\ pc' = "open" <=> program = "puzzlesolver"
            \/ NextOf("instruct", "packet") /\ pc' = "send"
            \/ /\ NextOf("packet", "knock") /\ pc' = "send"
               /\ program = "puzzlesolver"
            \/ NextOf("knock", "icmp") /\ pc' = "send"
  <1>1. UNCHANGED <<program, wild, local, sockets, services>>
    BY DEF Move, SendFails, Timeout, Knock, Receive
  <1>2. requests' \subseteq requests /\ replies' \subseteq replies
    BY DEF Move, SendFails, Timeout, Knock, Receive, network, After, Outlives
  <1>3. pc \in {"send", "wait"} /\ step \in Steps \cup {"knock"}
    BY DEF Move, SendFails, Timeout, Knock, Receive, CourseInv
  <1>4. program \in {"puzzlesolver", "puzzlesolver1", "chat"}
    BY SessionAssumption DEF TypeOK
  <1>5. \/ GoOn /\ (step = "packet" => program = "puzzlesolver")
        \/ TryAgain
        \/ Fail
        \/ /\ step' = step
           /\ \/ pc' = "exit0"
              \/ pc' = "wait" /\ program # "puzzlesolver1" /\ step \in Steps
    <2>1. CASE SendFails
      BY <2>1 DEF SendFails
    <2>2. CASE Timeout
      BY <2>2 DEF Timeout, CourseInv
    <2>3. CASE Knock
      BY <2>3 DEF Knock
    <2>4. CASE \E m \in replies : Receive(m)
      BY <2>4 DEF Receive, CourseInv
    <2> QED BY <2>1, <2>2, <2>3, <2>4 DEF Move
  <1>6. CASE GoOn /\ (step = "packet" => program = "puzzlesolver")
    BY <1>1, <1>2, <1>3, <1>4, <1>6, GoOnCases DEF NextOf
  <1>7. CASE TryAgain
    BY <1>1, <1>2, <1>3, <1>7, TryAgainCases
  <1>8. CASE Fail
    BY <1>1, <1>2, <1>3, <1>8 DEF Fail
  <1> QED BY <1>1, <1>2, <1>3, <1>5, <1>6, <1>7, <1>8

\* The steps of Next besides.
LEMMA NextCases ==
  ASSUME Next
  PROVE  \/ Open \/ OpenFails \/ Send \/ Ping
         \/ Move
         \/ \E q \in requests : \E v \in Replies(q) : Answer(q, v)
  BY DEF Next, Solver, Move

LEMMA CourseNext ==
  ASSUME TypeOK, CourseInv, Next PROVE CourseInv'
  <1>1. CASE \E q \in requests : \E v \in Replies(q) : Answer(q, v)
    BY <1>1 DEF Answer, CourseInv, place
  <1>2. CASE Open \/ OpenFails \/ Ping
    BY <1>2 DEF Open, OpenFails, Ping, CourseInv
  <1>3. CASE Send
    <2>1. program \in {"puzzlesolver", "puzzlesolver1", "chat"}
      BY SessionAssumption DEF TypeOK
    <2> QED BY <1>3, <2>1 DEF Send, AfterSend, CourseInv, Steps
  <1>4. CASE Move
    <2>1. program = "puzzlesolver" \/ step' # "packet" \/ pc' # "wait"
      BY <1>4, MoveCases, SessionAssumption DEF NextOf, CourseInv, TypeOK
    <2>2. pc' = "wait" => step' \in Steps
      BY <1>4, MoveCases DEF NextOf, Steps
    <2> QED BY <1>4, <2>1, <2>2, MoveCases DEF NextOf, CourseInv
  <1> QED BY <1>1, <1>2, <1>3, <1>4, NextCases

-----------------------------------------------------------------------------
(* Sockets.                                                                *)

LEMMA ReusedStays ==
  ASSUME sockets \subseteq sockets', Reused PROVE Reused'
  BY DEF Reused

LEMMA SoFarGrows ==
  ASSUME \/ step' = step
         \/ NextOf("hello", "sign")
         \/ NextOf("sign", "evil")
         \/ NextOf("evil", "instruct")
         \/ NextOf("instruct", "packet")
         \/ NextOf("packet", "knock")
         \/ NextOf("knock", "icmp")
  PROVE  SoFar(step) \subseteq SoFar(step')
  BY DEF SoFar, NextOf

LEMMA SocketNext ==
  ASSUME TypeOK, CourseInv, SocketInv, Next PROVE SocketInv'
  <1>1. CASE \E q \in requests : \E v \in Replies(q) : Answer(q, v)
    <2> SUFFICES ASSUME NEW q \in requests, NEW v \in Replies(q), Answer(q, v)
                 PROVE  SocketInv'
      BY <1>1
    <2>1. UNCHANGED <<program, pc, step, local, sockets>>
      BY DEF Answer, place
    <2>2. ASSUME NEW d \in requests' \cup replies'
          PROVE  /\ [step |-> Opener(d.step), local |-> d.local] \in sockets
                 /\ d.step \in SoFar(step)
      <3>1. d \in requests \cup replies
              \/ d = [step |-> q.step, value |-> v, local |-> q.local]
        BY DEF Answer, After
      <3> QED BY <3>1 DEF SocketInv
    <2> QED BY <2>1, <2>2 DEF SocketInv, Opener, SoFar
  <1>2. CASE Open \/ OpenFails \/ Ping
    BY <1>2 DEF Open, OpenFails, Ping, SocketInv, Opener, SoFar, network, TypeOK
  <1>3. CASE Send
    <2>1. [step |-> Opener(Target), local |-> local] \in sockets
      BY <1>3 DEF SocketInv, Send, Opener, Target
    <2>2. Target \in SoFar(step)
      BY <1>3 DEF Send, Steps, SoFar, Target
    <2> QED BY <1>3, <2>1, <2>2 DEF Send, SocketInv, Opener, SoFar
  <1>4. CASE Move
    <2>1. /\ requests' \subseteq requests /\ replies' \subseteq replies
          /\ UNCHANGED <<program, local, sockets>>
          /\ SoFar(step) \subseteq SoFar(step')
      BY <1>4, MoveCases, SoFarGrows
    <2>2. \A d \in requests' \cup replies' :
            /\ [step |-> Opener(d.step), local |-> d.local] \in sockets
            /\ d.step \in SoFar(step')
      BY <2>1 DEF SocketInv
    <2>3. step \in Steps => [step |-> Opener(step), local |-> local] \in sockets
      BY <1>4, MoveCases DEF SocketInv
    <2>4. step' \in Steps /\ (pc' \in {"send", "wait"} \/ Opener(step') # step')
            => step \in Steps /\ Opener(step') = Opener(step)
      BY <1>4, MoveCases DEF NextOf, Opener, Steps
    <2> QED BY <2>1, <2>2, <2>3, <2>4 DEF SocketInv, Opener, SoFar
  <1> QED BY <1>1, <1>2, <1>3, <1>4, NextCases

-----------------------------------------------------------------------------
(* The signature.                                                          *)

\* What hello takes for a challenge is one, or a greeting the scan has left.
LEMMA HelloAnswer ==
  ASSUME TypeOK, SocketInv, ~wild => LossyInv, NEW m \in replies,
         Receive(m), step = "hello"
  PROVE  (m.step = "hello" /\ m.value # Noise) \/ GreetingMet
  <1>1. m \in Answers /\ m.local = local
    BY DEF TypeOK, Receive
  <1>2. m.step \in {"hello", "greet"}
    BY DEF SocketInv, SoFar
  <1>3. CASE m.step = "hello"
    BY <1>1, <1>3, SessionAssumption DEF Answers, Noise
  <1>4. CASE m.step = "greet"
    <2>1. wild
      BY <1>4 DEF LossyInv
    <2>2. [step |-> "greet", local |-> local] \in sockets
      BY <1>1, <1>4 DEF SocketInv, Opener
    <2>3. [step |-> "hello", local |-> local] \in sockets
      BY DEF SocketInv, Opener, Receive, Steps
    <2>4. local \in Locals
      BY DEF TypeOK, Receive
    <2> QED BY <2>1, <2>2, <2>3, <2>4 DEF GreetingMet
  <1> QED BY <1>2, <1>3, <1>4

\* Once met, always met.
LEMMA GreetingStays ==
  ASSUME sockets \subseteq sockets', wild' = wild, GreetingMet
  PROVE  GreetingMet'
  BY DEF GreetingMet

LEMMA SignatureNext ==
  ASSUME TypeOK, CourseInv, SocketInv, SignatureInv, ~wild => LossyInv, Next
  PROVE  SignatureInv'
  <1>1. CASE \E q \in requests : \E v \in Replies(q) : Answer(q, v)
    <2> SUFFICES ASSUME NEW q \in requests, NEW v \in Replies(q), Answer(q, v)
                 PROVE  SignatureInv'
      BY <1>1
    <2>1. UNCHANGED <<program, wild, step, peer, signature, instruction, missed,
                      sockets>>
      BY DEF Answer, place, told
    <2>2. requests' \subseteq requests /\ accepted \subseteq accepted'
      BY DEF Answer, After
    <2>3. ASSUME NEW r \in replies', r.step = "sign" /\ r.value = Granted
          PROVE  signature \in accepted'
      <3>1. CASE r \in replies
        BY <2>2, <2>3, <3>1 DEF SignatureInv
      <3>2. CASE r \notin replies
        <4>1. q.step = "sign" /\ v = Granted
          BY <2>3, <3>2 DEF Answer
        <4>2. accepted' = accepted \cup {q.value} /\ q.value = signature
          BY <4>1 DEF Answer, SignatureInv
        <4> QED BY <4>2
      <3> QED BY <3>1, <3>2
    <2> QED BY <2>1, <2>2, <2>3 DEF SignatureInv, GreetingMet
  <1>2. CASE Open \/ OpenFails \/ Ping
    <2>1. UNCHANGED <<program, wild, step, told, network, services, missed>>
      BY <1>2 DEF Open, OpenFails, Ping
    <2>2. GreetingMet => GreetingMet'
      BY <1>2, GreetingStays DEF Open, OpenFails, Ping
    <2> QED BY <2>1, <2>2 DEF told, network, services, SignatureInv
  <1>3. CASE Send
    <2>1. UNCHANGED <<program, wild, step, told, replies, services, missed,
                      sockets>>
      BY <1>3 DEF Send
    <2>2. ASSUME NEW q \in requests'
          PROVE  /\ q.step = "stray" => peer = "other"
                 /\ q.step \in {"sign", "evil", "instruct"} => q.value = signature
                 /\ q.step = "packet" => q.value = instruction
      <3>1. CASE q \in requests
        BY <3>1 DEF SignatureInv
      <3>2. CASE q \notin requests
        <4>1. q.step = Target /\ q.value = Number /\ step \in Steps
          BY <1>3, <3>2 DEF Send
        <4> QED BY <4>1 DEF Target, Number, Steps
      <3> QED BY <3>1, <3>2
    <2> QED BY <2>1, <2>2 DEF told, services, SignatureInv, GreetingMet
  <1>4. CASE SendFails \/ Timeout \/ Knock
    <2>1. Move
      BY <1>4 DEF Move
    <2>2. UNCHANGED told /\ missed \subseteq missed'
      BY <1>4 DEF SendFails, Timeout, Knock
    <2>3. /\ UNCHANGED <<program, wild, local, sockets, services>>
          /\ requests' \subseteq requests /\ replies' \subseteq replies
      BY <2>1, MoveCases
    <2>4. CASE step' = "hello" \/ step # "hello"
      BY <2>1, <2>2, <2>3, <2>4, MoveCases
         DEF SignatureInv, told, services, GreetingMet, NextOf
    <2>5. CASE step = "hello" /\ step' # "hello"
      <3>1. program = "puzzlesolver1" /\ "hello" \in missed'
        <4>1. CASE SendFails
          BY <2>5, <4>1, SendFailsCases, TryAgainCases DEF Fail
        <4>2. CASE Timeout
          BY <2>5, <4>2, TryAgainCases DEF Timeout, GoesOnUnanswered
        <4>3. CASE Knock
          BY <2>5, <4>3 DEF Knock
        <4> QED BY <1>4, <4>1, <4>2, <4>3
      <3> QED BY <2>2, <2>3, <3>1 DEF SignatureInv, told, services, GreetingMet
    <2> QED BY <2>4, <2>5
  <1>5. CASE \E m \in replies : Receive(m)
    <2> SUFFICES ASSUME NEW m \in replies, Receive(m) PROVE SignatureInv'
      BY <1>5
    <2>1. Move
      BY DEF Move
    <2>2. /\ UNCHANGED <<program, wild, local, sockets, services>>
          /\ requests' \subseteq requests /\ replies' \subseteq replies
      BY <2>1, MoveCases
    <2>3. Learn(m) /\ UNCHANGED missed
      BY DEF Receive
    <2>4. CASE step = "hello"
      <3>1. signature' # Noise \/ GreetingMet
        BY <2>3, <2>4, HelloAnswer DEF Learn, Challenge
      <3>2. peer' = "other" => GreetingMet
        BY <2>3, <2>4, HelloAnswer DEF Learn, SignatureInv
      <3>3. /\ \A q \in requests : q.step \in {"hello", "greet"}
            /\ \A r \in replies : r.step \in {"hello", "greet"}
        BY <2>4 DEF SocketInv, SoFar
      <3> QED BY <2>2, <3>1, <3>2, <3>3 DEF SignatureInv, GreetingMet
    <2>5. CASE step # "hello"
      <3>1. UNCHANGED <<peer, signature>>
        BY <2>3, <2>5 DEF Learn
      <3>2. \A q \in requests : q.step = "packet" => q.value = instruction'
        <4>1. CASE step = "instruct"
          BY <4>1 DEF SocketInv, SoFar
        <4>2. CASE step # "instruct"
          BY <2>3, <4>2 DEF Learn, SignatureInv
        <4> QED BY <4>1, <4>2
      <3> QED BY <2>2, <2>3, <2>5, <3>1, <3>2 DEF SignatureInv, GreetingMet, services
    <2> QED BY <2>4, <2>5
  <1> QED BY <1>1, <1>2, <1>3, <1>4, <1>5, NextCases DEF Move

-----------------------------------------------------------------------------
(* Ports and phrase.                                                       *)

\* What an answer of another step needs to be heard by puzzlesolver.
LEMMA OtherSocket ==
  ASSUME SocketInv, CourseInv, NEW m \in replies, Receive(m),
         Opener(m.step) # Opener(step)
  PROVE  Reused
  <1>1. [step |-> Opener(m.step), local |-> local] \in sockets
    BY DEF SocketInv, Receive
  <1>2. [step |-> Opener(step), local |-> local] \in sockets
    BY DEF SocketInv, Receive, CourseInv
  <1> QED BY <1>1, <1>2 DEF Reused

\* puzzlesolver leaves an exchange only with an answer it can use.
LEMMA UsableAnswer ==
  ASSUME TypeOK, NEW m \in replies, Receive(m), program = "puzzlesolver",
         step' # step
  PROVE  Usable(m)
  BY TryAgainCases DEF Receive, Fail

LEMMA ToldNext ==
  ASSUME TypeOK, CourseInv, SocketInv, SignatureInv, ToldInv,
         ~wild => LossyInv, Next
  PROVE  ToldInv'
  <1> SUFFICES ASSUME program = "puzzlesolver", program' = "puzzlesolver"
               PROVE  ToldInv'
    <2>1. program' = program
      BY NextCases, MoveCases DEF Answer, Open, OpenFails, Send, Ping
    <2> QED BY <2>1 DEF ToldInv
  <1>1. CASE \E q \in requests : \E v \in Replies(q) : Answer(q, v)
    <2>1. UNCHANGED <<wild, step, told, sockets>> /\ accepted \subseteq accepted'
      BY <1>1 DEF Answer, place
    <2> QED BY <2>1 DEF ToldInv, told, ChallengeAsPort, Reused
  <1>2. CASE Open \/ OpenFails \/ Ping \/ Send
    <2>1. UNCHANGED <<wild, step, told, services>>
      BY <1>2 DEF Open, OpenFails, Ping, Send
    <2>2. Reused => Reused'
      BY <1>2, ReusedStays DEF Open, OpenFails, Ping, Send
    <2> QED BY <2>1, <2>2 DEF ToldInv, told, services, ChallengeAsPort
  <1>3. CASE SendFails \/ Timeout \/ Knock
    <2>1. Move
      BY <1>3 DEF Move
    <2>2. UNCHANGED <<told, wild, services, sockets>>
      BY <1>3 DEF SendFails, Timeout, Knock
    <2>3. step' = step \/ NextOf("knock", "icmp")
      <3>1. CASE SendFails
        BY <3>1, SendFailsCases, TryAgainCases DEF Fail
      <3>2. CASE Timeout
        BY <3>2, TryAgainCases DEF Timeout, GoesOnUnanswered
      <3>3. CASE Knock
        BY <2>1, <3>3, MoveCases DEF Knock, NextOf
      <3> QED BY <1>3, <3>1, <3>2, <3>3
    <2> QED BY <2>2, <2>3 DEF ToldInv, told, services, ChallengeAsPort, Reused,
                              NextOf
  <1>4. CASE \E m \in replies : Receive(m)
    <2> SUFFICES ASSUME NEW m \in replies, Receive(m) PROVE ToldInv'
      BY <1>4
    <2>1. Move
      BY DEF Move
    <2>2. UNCHANGED <<wild, sockets, services>>
      BY <2>1, MoveCases
    <2>3. Learn(m) /\ step \in Steps
      BY DEF Receive, CourseInv
    <2>4. ~wild => m.step = step
      BY DEF LossyInv
    <2>5. CASE step = "hello"
      <3>1. /\ UNCHANGED <<secret_hidden_port, evil_hidden_port, secret_phrase>>
            /\ step' \in {"hello", "sign"}
        BY <2>1, <2>3, <2>5, MoveCases DEF Learn, NextOf
      <3> QED BY <2>2, <2>5, <3>1 DEF ToldInv
    <2>6. CASE step = "sign"
      <3>1. step' \in {"sign", "evil"} /\ UNCHANGED signature
        BY <2>1, <2>3, <2>6, MoveCases DEF Learn, NextOf
      <3>2. HoldsPort(m) => \/ m.step = "sign" /\ signature \in accepted
                            \/ ChallengeAsPort(m.step)
        BY <2>4, <2>6 DEF HoldsPort, SocketInv, SoFar, SignatureInv,
           ChallengeAsPort
      <3>3. m.step = "sign" \/ m.step = "hello" => m.step # "unset"
        OBVIOUS
      <3>4. step' # "sign" => HoldsPort(m)
        BY <2>6, UsableAnswer DEF Usable
      <3>5. secret_hidden_port' =
              IF HoldsPort(m) THEN m.step ELSE secret_hidden_port
        BY <2>3, <2>6 DEF Learn
      <3>6. secret_hidden_port' = "sign" => signature' \in accepted'
        BY <2>2, <3>1, <3>2, <3>5 DEF ToldInv, ChallengeAsPort, services
      <3>7. step' # "sign" => \/ secret_hidden_port' = "sign"
                              \/ ChallengeAsPort(secret_hidden_port)'
        BY <2>2, <3>2, <3>4, <3>5 DEF ChallengeAsPort
      <3> QED BY <2>2, <3>1, <3>6, <3>7 DEF ToldInv
    <2>7. CASE step = "evil"
      <3>1. /\ step' \in {"evil", "instruct"}
            /\ UNCHANGED <<signature, secret_hidden_port>>
        BY <2>1, <2>3, <2>7, MoveCases DEF Learn, NextOf
      <3>2. HoldsPort(m) => m.step = "evil" \/ (wild /\ Reused)
        BY <2>4, <2>7, OtherSocket DEF HoldsPort, Opener
      <3>3. step' # "evil" => HoldsPort(m)
        BY <2>7, UsableAnswer DEF Usable
      <3>4. HoldsPort(m) => evil_hidden_port' = m.step
        BY <2>3, <2>7 DEF Learn
      <3> QED BY <2>2, <2>7, <3>1, <3>2, <3>3, <3>4
              DEF ToldInv, ChallengeAsPort, Reused, services
    <2>8. CASE step = "instruct"
      <3>1. /\ step' \in {"instruct", "packet"}
            /\ UNCHANGED <<signature, secret_hidden_port, evil_hidden_port>>
        BY <2>1, <2>3, <2>8, MoveCases DEF Learn, NextOf
      <3> QED BY <2>2, <2>8, <3>1 DEF ToldInv, ChallengeAsPort, Reused, services
    <2>9. CASE step = "packet"
      <3>1. /\ step' \in {"packet", "knock"}
            /\ UNCHANGED <<signature, secret_hidden_port, evil_hidden_port>>
        BY <2>1, <2>3, <2>9, MoveCases DEF Learn, NextOf
      <3>2. HoldsQuotes(m) => \/ m.step = "packet"
                              \/ m.step = "instruct" /\ wild /\ Quoted # {}
        BY <2>4, <2>9 DEF HoldsQuotes
      <3>3. step' # "packet" => HoldsQuotes(m)
        BY <2>9, UsableAnswer DEF Usable
      <3>4. HoldsQuotes(m) => secret_phrase' = m.step
        BY <2>3, <2>9 DEF Learn
      <3> QED BY <2>2, <2>9, <3>1, <3>2, <3>3, <3>4
              DEF ToldInv, ChallengeAsPort, Reused, services
    <2> QED BY <2>3, <2>5, <2>6, <2>7, <2>8, <2>9 DEF Steps
  <1> QED BY <1>1, <1>2, <1>3, <1>4, NextCases DEF Move

-----------------------------------------------------------------------------
(* A network that only loses.                                              *)

LEMMA LossyNext ==
  ASSUME TypeOK, CourseInv, SignatureInv, ToldInv, LossyInv, ~wild, Next
  PROVE  LossyInv'
  <1>1. CASE \E q \in requests : \E v \in Replies(q) : Answer(q, v)
    <2> SUFFICES ASSUME NEW q \in requests, NEW v \in Replies(q), Answer(q, v)
                 PROVE  LossyInv'
      BY <1>1
    <2>1. requests = {q} /\ replies = {} /\ q.step = step
      BY DEF LossyInv
    <2>2. requests' = {}
      BY <2>1 DEF Answer, After
    <2>3. replies' = {[step |-> step, value |-> v, local |-> q.local]}
      BY <2>1 DEF Answer
    <2>4. UNCHANGED <<program, pc, step, instruction, signature, missed>>
          /\ pc \notin {"open", "send"}
      BY <2>1 DEF Answer, place, told, LossyInv
    <2>5. step # "instruct" => required' = required
      BY <2>1 DEF Answer
    <2>6. CASE step # "instruct"
      <3>1. step \notin {"hello", "sign", "evil"} =>
              expected' = expected /\ accepted \subseteq accepted'
        BY <2>1 DEF Answer
      <3>2. required' # Noise => Known(signature)'
        BY <2>4, <2>5, <2>6, <3>1 DEF LossyInv, Known
      <3>3. Fits(instruction) => Fits(instruction)'
        BY <2>4, <2>5, <2>6 DEF Fits
      <3>4. \A r \in replies' : r.step = step' /\ r.step # "instruct"
        BY <2>3, <2>4, <2>6
      <3> QED BY <2>2, <2>3, <2>4, <2>5, <2>6, <3>2, <3>3, <3>4 DEF LossyInv
    <2>7. CASE step = "instruct"
      <3>1. q.value = signature /\ UNCHANGED <<expected, accepted>>
        BY <2>1, <2>7 DEF SignatureInv, Answer
      <3>2. required' = IF v # Refusal THEN v ELSE required
        BY <2>1, <2>7 DEF Answer
      <3>3. v \in IF Known(signature) THEN Instructions ELSE {Refusal}
        BY <2>1, <2>7, <3>1 DEF Replies
      <3>4. v = required' /\ (required' # Noise => Known(signature))
        BY <3>2, <3>3, SessionAssumption DEF LossyInv, Refusal, Noise
      <3>5. program = "puzzlesolver" => required' # Noise
        <4>1. program = "puzzlesolver" => signature \in accepted
          BY <2>7 DEF ToldInv, ChallengeAsPort
        <4>2. program = "puzzlesolver" => Known(signature)
          BY <4>1, SessionAssumption DEF TypeOK, Known, Noise
        <4> QED BY <3>2, <3>3, <4>2, SessionAssumption DEF Refusal, Noise
      <3>6. required' # Noise => Known(signature)'
        BY <2>4, <3>1, <3>4 DEF Known
      <3>7. \A r \in replies' : r.step = step' /\ r.value = required'
        BY <2>3, <2>4, <3>4
      <3> QED BY <2>2, <2>3, <2>4, <2>7, <3>5, <3>6, <3>7 DEF LossyInv
    <2> QED BY <2>6, <2>7
  <1>2. CASE Open \/ OpenFails \/ Ping
    BY <1>2 DEF Open, OpenFails, Ping, LossyInv, told, network, services,
                Known, Fits
  <1>3. CASE Send
    <2>1. requests = {} /\ replies = {}
      BY <1>3 DEF Send, LossyInv
    <2>2. Target = step
      BY DEF SignatureInv, GreetingMet, Target
    <2>3. requests' = {[step |-> step, value |-> Number, local |-> local]}
      BY <1>3, <2>1, <2>2 DEF Send
    <2>4. pc' \notin {"open", "send"}
      BY <1>3 DEF Send, AfterSend
    <2>5. replies' = {} /\ UNCHANGED <<program, step, instruction, required,
                                       signature, expected, accepted, missed>>
      BY <1>3, <2>1 DEF Send, told, services
    <2>6. \A q \in requests' :
            q = [step |-> step, value |-> Number, local |-> local] /\ q.step = step
      BY <2>3
    <2>7. (Known(signature) => Known(signature)')
          /\ (Fits(instruction) => Fits(instruction)')
      BY <2>5 DEF Known, Fits
    <2> QED BY <2>4, <2>5, <2>6, <2>7 DEF LossyInv
  <1>4. CASE SendFails \/ Timeout \/ Knock
    <2>1. Move
      BY <1>4 DEF Move
    <2>2. requests' = {} /\ replies' = {}
      <3>1. CASE SendFails \/ Knock
        BY <3>1 DEF SendFails, Knock, network, LossyInv
      <3>2. CASE Timeout
        BY <3>2 DEF Timeout, Outlives
      <3> QED BY <1>4, <3>1, <3>2
    <2>3. UNCHANGED <<program, instruction, required, signature, expected,
                      accepted>> /\ missed \subseteq missed'
      BY <1>4 DEF SendFails, Timeout, Knock, told, services
    <2>4. NextOf("instruct", "packet") =>
            program = "puzzlesolver1" /\ "instruct" \in missed'
      <3>1. CASE SendFails
        BY <3>1, SendFailsCases, TryAgainCases DEF Fail, NextOf
      <3>2. CASE Timeout
        BY <3>2, TryAgainCases DEF Timeout, GoesOnUnanswered, NextOf
      <3>3. CASE Knock
        BY <3>3 DEF Knock, NextOf
      <3> QED BY <1>4, <3>1, <3>2, <3>3
    <2>5. (required # Noise => Known(signature))
            => (required' # Noise => Known(signature)')
      BY <2>3 DEF Known
    <2>6. Fits(instruction) => Fits(instruction)'
      BY <2>3 DEF Fits
    <2>7. step' = "packet" => Fits(instruction)'
      <3>1. CASE step = "packet"
        BY <2>6, <3>1 DEF LossyInv
      <3>2. CASE step # "packet" /\ step' = "packet"
        <4>1. NextOf("instruct", "packet")
          BY <2>1, <3>2, MoveCases DEF NextOf
        <4>2. instruction' = Noise
          BY <2>3, <4>1 DEF NextOf, LossyInv
        <4> QED BY <2>3, <2>4, <4>1, <4>2 DEF Fits
      <3> QED BY <3>1, <3>2
    <2>8. step' \in {"hello", "sign", "evil"} => step \in {"hello", "sign", "evil"}
      BY <2>1, MoveCases DEF NextOf
    <2>9. step' \in {"hello", "sign", "evil", "instruct"}
            => step \in {"hello", "sign", "evil", "instruct"}
      BY <2>1, MoveCases DEF NextOf
    <2> QED BY <2>2, <2>3, <2>5, <2>7, <2>8, <2>9 DEF LossyInv
  <1>5. CASE \E m \in replies : Receive(m)
    <2> SUFFICES ASSUME NEW m \in replies, Receive(m) PROVE LossyInv'
      BY <1>5
    <2>1. Move
      BY DEF Move
    <2>2. replies = {m} /\ m.step = step /\ requests = {}
      BY DEF LossyInv
    <2>3. requests' = {} /\ replies' = {}
      BY <2>2 DEF Receive, After
    <2>4. Learn(m) /\ UNCHANGED <<program, required, expected, accepted, missed>>
      BY DEF Receive, services
    <2>5. required' # Noise => Known(signature)'
      <3>1. CASE step = "hello"
        BY <2>4, <3>1 DEF LossyInv
      <3>2. CASE step # "hello"
        BY <2>4, <3>2 DEF LossyInv, Learn, Known
      <3> QED BY <3>1, <3>2
    <2>6. step' \in {"hello", "sign", "evil"} => step \in {"hello", "sign", "evil"}
      BY <2>1, MoveCases DEF NextOf
    <2>7. CASE step = "instruct"
      <3>1. m.value = required /\ (program = "puzzlesolver" => required # Noise)
        BY <2>2, <2>7 DEF LossyInv
      <3>2. instruction' = IF program = "puzzlesolver" /\ required \in ZeroBytes
                           THEN Noise ELSE required
        BY <2>2, <2>4, <2>7, <3>1 DEF Learn, Instruction
      <3>3. program \in {"puzzlesolver", "puzzlesolver1"}
        BY <2>7, SessionAssumption DEF TypeOK, CourseInv
      <3>4. Fits(instruction)'
        <4>1. CASE instruction' = Noise /\ program = "puzzlesolver"
          BY <2>4, <3>1, <3>2, <4>1 DEF Fits
        <4>2. CASE instruction' = Noise /\ program = "puzzlesolver1"
          BY <2>4, <3>1, <3>2, <4>2 DEF Fits
        <4>3. CASE instruction' # Noise
          BY <2>4, <3>2, <4>3 DEF Fits
        <4> QED BY <3>3, <4>1, <4>2, <4>3
      <3>5. step' = "packet"
        <4>1. GoOn
          BY <2>2, <2>7 DEF Receive, Usable
        <4> QED BY <2>7, <4>1, GoOnCases DEF Steps
      <3> QED BY <2>3, <2>5, <3>4, <3>5 DEF LossyInv
    <2>8. CASE step # "instruct"
      <3>1. UNCHANGED instruction
        BY <2>4, <2>8 DEF Learn
      <3>2. step' \in {"hello", "sign", "evil", "instruct"}
              => step \in {"hello", "sign", "evil"}
        BY <2>1, <2>2, <2>8, MoveCases DEF NextOf
      <3>3. step' = "packet" => step = "packet"
        BY <2>1, <2>8, MoveCases DEF NextOf
      <3>4. step' = "packet" => Fits(instruction)'
        BY <2>4, <3>1, <3>3 DEF LossyInv, Fits
      <3> QED BY <2>3, <2>4, <2>5, <2>6, <3>1, <3>2, <3>4 DEF LossyInv
    <2> QED BY <2>7, <2>8
  <1> QED BY <1>1, <1>2, <1>3, <1>4, <1>5, NextCases DEF Move

-----------------------------------------------------------------------------
(* The theorems.                                                           *)

LEMMA InvInit == Init => IInv
  <1> SUFFICES ASSUME Init PROVE IInv
    OBVIOUS
  <1>1. TypeOK
    BY TypeInit
  <1>2. CourseInv
    BY DEF Init, CourseInv
  <1>3. SocketInv
    BY DEF Init, SocketInv, Opener, SoFar
  <1>4. SignatureInv
    BY DEF Init, SignatureInv
  <1>5. ToldInv
    BY DEF Init, ToldInv
  <1>6. ~wild => LossyInv
    BY DEF Init, LossyInv
  <1> QED BY <1>1, <1>2, <1>3, <1>4, <1>5, <1>6 DEF IInv

LEMMA TypeNext ==
  ASSUME TypeOK, CourseInv, Next PROVE TypeOK'
  <1>1. CASE Open \/ OpenFails
    BY <1>1, OpenType
  <1>2. CASE Send
    BY <1>2, SendType
  <1>3. CASE SendFails \/ Knock \/ Ping
    BY <1>3, OtherType
  <1>4. CASE Timeout
    BY <1>4, TimeoutType DEF Timeout, CourseInv
  <1>5. CASE \E m \in replies : Receive(m)
    BY <1>5, ReceiveType DEF Receive, CourseInv
  <1>6. CASE \E q \in requests : \E v \in Replies(q) : Answer(q, v)
    BY <1>6, AnswerType
  <1> QED BY <1>1, <1>2, <1>3, <1>4, <1>5, <1>6 DEF Next, Solver

LEMMA InvNext == IInv /\ [Next]_vars => IInv'
  <1> SUFFICES ASSUME IInv, [Next]_vars PROVE IInv'
    OBVIOUS
  <1>1. CASE Next
    <2>1. wild' = wild
      BY <1>1, NextCases, MoveCases
         DEF IInv, Answer, Open, OpenFails, Send, Ping
    <2> QED BY <1>1, <2>1, TypeNext, CourseNext, SocketNext, SignatureNext,
               ToldNext, LossyNext DEF IInv
  <1>2. CASE UNCHANGED vars
    <2> USE <1>2 DEF vars, place, told, network, services, IInv
    <2>1. TypeOK' /\ CourseInv' /\ SocketInv'
      BY DEF TypeOK, CourseInv, SocketInv, Opener, SoFar
    <2>2. SignatureInv' /\ ToldInv'
      BY DEF SignatureInv, GreetingMet, ToldInv, Reused, ChallengeAsPort
    <2>3. (~wild => LossyInv)'
      BY DEF LossyInv, Known, Fits
    <2> QED BY <2>1, <2>2, <2>3
  <1> QED BY <1>1, <1>2

\* IInv holds whatever the kernel's ports, the challenges, the instructions
\* and the network.
THEOREM Invariance == Spec => []IInv
  BY InvInit, InvNext, PTL DEF Spec

\* puzzlesolver's main() knocks with the ports and the phrase the services
\* told for a confirmed signature; the exceptions are those of a late or
\* repeated answer that reads like a port, holds quotes, or reaches a local
\* port in its second use.
THEOREM HandsOverWhatWasTold == Spec => []KnocksWithTold
  <1>1. IInv => KnocksWithTold
    <2> SUFFICES ASSUME IInv, step \in {"knock", "icmp"}, ~(wild /\ Reused)
                 PROVE  KnocksWithTold
      BY DEF KnocksWithTold
    <2>1. program = "puzzlesolver"
      BY DEF IInv, CourseInv
    <2> QED BY <2>1 DEF IInv, ToldInv, KnocksWithTold, Steps
  <1> QED BY <1>1, Invariance, PTL

\* Plain losses never leave the packet behind the checksum service's
\* instruction: puzzlesolver's is built from it, unless one of its last six bytes
\* is zero, and so is puzzlesolver1's, unless its signature was refused or the
\* answer was lost.
THEOREM PacketIsCurrent == Spec => []PacketFitsInstruction
  <1>1. IInv => PacketFitsInstruction
    <2> SUFFICES ASSUME IInv, ~wild, NEW q \in requests, q.step = "packet"
                 PROVE  Fits(q.value)
      BY DEF PacketFitsInstruction
    <2>1. step = "packet" /\ q.value = instruction
      BY DEF IInv, LossyInv, SignatureInv
    <2> QED BY <2>1 DEF IInv, LossyInv
  <1> QED BY <1>1, Invariance, PTL

\* Only puzzlesolver1, when it goes on unanswered, or a greeting the scan left
\* under way to the very local port make a program send a signature nobody can
\* know, or send it to another address than a service's.
THEOREM SignsWhatWasDrawn == Spec => []SignatureIsDrawn
  <1>1. IInv => SignatureIsDrawn
    <2> SUFFICES ASSUME IInv, NEW q \in requests
                 PROVE  /\ q.step = "stray" => GreetingMet
                        /\ q.step \in {"sign", "evil", "instruct"}
                             /\ q.value = Noise =>
                             \/ program = "puzzlesolver1" /\ "hello" \in missed
                             \/ GreetingMet
      BY DEF SignatureIsDrawn
    <2>1. CASE q.step = "stray"
      BY <2>1 DEF IInv, SignatureInv
    <2>2. CASE q.step \in {"sign", "evil", "instruct"} /\ q.value = Noise
      <3>1. step # "hello"
        BY <2>2 DEF IInv, SocketInv, SoFar
      <3>2. signature = Noise
        BY <2>2 DEF IInv, SignatureInv
      <3> QED BY <2>2, <3>1, <3>2 DEF IInv, SignatureInv
    <2>3. CASE q.step # "stray" /\ ~(q.step \in {"sign", "evil", "instruct"}
                                       /\ q.value = Noise)
      BY <2>3
    <2> QED BY <2>1, <2>2, <2>3
  <1> QED BY <1>1, Invariance, PTL

-----------------------------------------------------------------------------
(* The exchange by itself.                                                 *)

\* Which program plays does not change, nor what the scan left behind.
LEMMA SamePlay ==
  ASSUME IInv, Next
  PROVE  /\ program' = program /\ wild' = wild
         /\ Greeted' <=> Greeted
<1>1. program' = program /\ wild' = wild
  BY NextCases, MoveCases DEF IInv, Answer, Open, OpenFails, Send, Ping
<1>2. CASE Open
  <2>1. CASE Opener(step) = step
    <3>1. step # "greet"
      BY DEF IInv, TypeOK, Steps
    <3>2. sockets' = sockets \cup {[step |-> step, local |-> local']}
      BY <1>2, <2>1 DEF Open
    <3> QED BY <1>1, <3>1, <3>2 DEF Greeted
  <2>2. CASE Opener(step) # step
    BY <1>1, <1>2, <2>2 DEF Open, Greeted
  <2> QED BY <2>1, <2>2
<1>3. CASE ~Open
  <2>1. sockets' = sockets
    BY <1>3, NextCases, MoveCases DEF IInv, Answer, OpenFails, Send, Ping
  <2> QED BY <1>1, <2>1 DEF Greeted
<1> QED BY <1>2, <1>3

\* A loop that gives up does so with its last attempt.
LEMMA LastAttempt ==
  ASSUME TypeOK, TryAgain, program = "puzzlesolver", step # "packet"
  PROVE  \/ attempt \in 0..1 /\ attempt' = attempt + 1 /\ pc' = "send"
            /\ step' = step
         \/ attempt = 2 /\ attempt' = 2 /\ pc' = "exit1" /\ step' = step
<1>1. attempt \in 0..2 /\ Attempts = 3
  BY DEF TypeOK, Attempts
<1> QED BY <1>1 DEF TryAgain, NextAttempt, Fail

\* The two ways an answer is taken in the exchange.
LEMMA ExchangeReceive ==
  ASSUME IInv, ExchangeInv, program = "puzzlesolver", ~Greeted,
         NEW m \in replies, Receive(m), step \in {"hello", "sign"}
  PROVE  \/ /\ step = "hello" /\ m.step = "hello" /\ m.value \in Challenges
            /\ step' = "sign" /\ pc' = "send" /\ attempt' = 0
            /\ signature' = m.value
            /\ UNCHANGED secret_hidden_port
         \/ /\ step = "sign" /\ m.step \in {"hello", "sign"} /\ HoldsPort(m)
            /\ step' = "evil" /\ pc' = "open" /\ attempt' = 0
            /\ UNCHANGED signature
            /\ secret_hidden_port' = m.step
         \/ /\ step = "sign" /\ m.step \in {"hello", "sign"} /\ ~HoldsPort(m)
            /\ TryAgain /\ UNCHANGED <<signature, secret_hidden_port>>
<1>1. m \in Answers /\ m.step \in SoFar(step) /\ m.step \notin {"greet", "stray"}
  BY DEF IInv, TypeOK, SocketInv, ExchangeInv
<1>2. Learn(m)
  BY DEF Receive
<1>3. CASE step = "hello"
  <2>1. m.step = "hello"
    BY <1>1, <1>3 DEF SoFar
  <2>2. m.value \in Challenges
    BY <1>1, <2>1 DEF Answers
  <2>3. GoOn
    BY <1>3 DEF Receive, Usable
  <2> QED BY <1>2, <1>3, <2>1, <2>2, <2>3, GoOnCases DEF Learn, Challenge, Steps
<1>4. CASE step = "sign"
  <2>1. m.step \in {"hello", "sign"}
    BY <1>1, <1>4 DEF SoFar
  <2>2. Usable(m) <=> HoldsPort(m)
    BY <1>4 DEF Usable
  <2>3. UNCHANGED signature
    BY <1>2, <1>4 DEF Learn
  <2>4. CASE HoldsPort(m)
    <3>1. GoOn /\ secret_hidden_port' = m.step
      BY <1>2, <1>4, <2>2, <2>4 DEF Receive, Learn
    <3> QED BY <1>4, <2>1, <2>3, <2>4, <3>1, GoOnCases DEF Steps
  <2>5. CASE ~HoldsPort(m)
    <3>1. TryAgain /\ UNCHANGED secret_hidden_port
      BY <1>2, <1>4, <2>2, <2>5 DEF Receive, Learn
    <3> QED BY <1>4, <2>1, <2>3, <2>5, <3>1
  <2> QED BY <2>4, <2>5
<1> QED BY <1>3, <1>4

LEMMA ExchangeInvInit == Init => ExchangeInv
<1> SUFFICES ASSUME Init, ~Greeted PROVE ExchangeInv
  BY DEF ExchangeInv
<1>1. CASE sockets = {[step |-> "greet", local |-> 1]}
  BY <1>1 DEF Greeted
<1>2. CASE replies = {} /\ sockets = {}
  BY <1>2 DEF Init, ExchangeInv
<1> QED BY <1>1, <1>2 DEF Init

LEMMA ExchangeInvNext ==
  ASSUME IInv, ExchangeInv, Next
  PROVE  ExchangeInv'
<1> SUFFICES ASSUME program = "puzzlesolver", ~Greeted
             PROVE  ExchangeInv'
  BY SamePlay DEF ExchangeInv
<1> USE DEF IInv
<1>1. ASSUME NEW q \in requests, NEW v \in Replies(q), Answer(q, v)
      PROVE  ExchangeInv'
  <2>1. /\ UNCHANGED <<program, place, told, sockets>>
        /\ requests' \subseteq requests
        /\ replies' \subseteq
             replies \cup {[step |-> q.step, value |-> v, local |-> q.local]}
    BY <1>1 DEF Answer, After
  <2>2. q.step \notin {"greet", "stray"}
    BY DEF ExchangeInv
  <2>3. \A d \in requests' \cup replies' : d.step \notin {"greet", "stray"}
    BY <2>1, <2>2 DEF ExchangeInv
  <2> QED BY <2>1, <2>3 DEF ExchangeInv, place, told, Greeted
<1>2. CASE Open \/ OpenFails \/ Ping
  <2>1. /\ UNCHANGED <<program, step, attempt, told, network>>
        /\ pc' \in {"send", "exit0", "exit1"}
        /\ pc' \in {"exit0", "exit1"} => (pc = "open" /\ pc' = "exit1")
                                          \/ step = "icmp"
    BY <1>2 DEF Open, OpenFails, Ping
  <2> QED BY <2>1 DEF ExchangeInv, told, network
<1>3. CASE Send
  <2>1. /\ UNCHANGED <<program, step, attempt, told, replies>>
        /\ pc' = "wait" /\ step \in Steps
        /\ requests' = requests
             \cup {[step |-> Target, value |-> Number, local |-> local]}
    BY <1>3 DEF Send, AfterSend
  <2>2. Target \notin {"greet", "stray"}
    BY <2>1 DEF Target, ExchangeInv, Steps
  <2>3. \A d \in requests' \cup replies' : d.step \notin {"greet", "stray"}
    BY <2>1, <2>2 DEF ExchangeInv
  <2> QED BY <2>1, <2>3 DEF ExchangeInv, told
<1>4. CASE SendFails \/ Timeout \/ Knock
  <2>1. /\ UNCHANGED told /\ Move
    BY <1>4 DEF SendFails, Timeout, Knock, Move
  <2>2. \A d \in requests' \cup replies' : d.step \notin {"greet", "stray"}
    BY <2>1, MoveCases DEF ExchangeInv
  <2>3. \/ step = "knock" /\ step' \in {"knock", "icmp"} /\ pc' # "open"
        \/ step' = step /\ TryAgain
        \/ step' = step /\ pc' # "open" /\ step \notin {"hello", "sign"}
    <3>1. CASE SendFails
      BY <3>1, TryAgainCases DEF SendFails, Fail, Steps
    <3>2. CASE Timeout
      BY <3>2, TryAgainCases DEF Timeout, GoesOnUnanswered
    <3>3. CASE Knock
      BY <3>3, GoOnCases DEF Knock, Fail
    <3> QED BY <1>4, <3>1, <3>2, <3>3
  <2>4. step' = step /\ TryAgain /\ step # "packet" =>
          pc' # "open" /\ pc' # "exit0" /\ (pc' = "exit1" => attempt' = 2)
    BY LastAttempt
  <2>5. step = "packet" /\ TryAgain => pc' \in {"send", "exit1"}
    BY TryAgainCases
  <2> QED BY <2>1, <2>2, <2>3, <2>4, <2>5 DEF ExchangeInv, told
<1>5. ASSUME NEW m \in replies, Receive(m)
      PROVE  ExchangeInv'
  <2>1. Move /\ Learn(m) /\ step \in Steps
    BY <1>5 DEF Move, Receive, CourseInv
  <2>2. \A d \in requests' \cup replies' : d.step \notin {"greet", "stray"}
    BY <2>1, MoveCases DEF ExchangeInv
  <2>3. UNCHANGED peer
    BY <2>1 DEF Learn
  <2>4. CASE step \in {"hello", "sign"}
    <3>1. TryAgain => /\ step' = step /\ pc' # "open" /\ pc' # "exit0"
                      /\ pc' = "exit1" => attempt' = 2
      BY <2>4, LastAttempt
    <3> QED BY <1>5, <2>2, <2>3, <2>4, <3>1, ExchangeReceive DEF ExchangeInv
  <2>5. CASE step \notin {"hello", "sign"}
    <3>1. step' \notin {"hello", "sign"} /\ UNCHANGED signature
      BY <2>1, <2>5, MoveCases DEF NextOf, Learn, Steps
    <3>2. pc' = "open" => attempt' = 0
      BY <1>5, <2>1, GoOnCases, TryAgainCases DEF Receive, Fail
    <3> QED BY <2>2, <2>3, <2>5, <3>1, <3>2 DEF ExchangeInv
  <2> QED BY <2>4, <2>5
<1> QED BY <1>1, <1>2, <1>3, <1>4, <1>5 DEF Next, Solver

LEMMA ExchangeInvHolds == Spec => [](IInv /\ ExchangeInv)
<1>1. IInv /\ ExchangeInv /\ [Next]_vars => ExchangeInv'
  <2>1. ExchangeInv /\ UNCHANGED vars => ExchangeInv'
    BY DEF vars, place, told, network, ExchangeInv, Greeted
  <2> QED BY <2>1, ExchangeInvNext
<1> QED BY <1>1, ExchangeInvInit, Invariance, PTL DEF Spec

\* One more datagram, or one less, as the exchange sees it.
LEMMA OneMore ==
  ASSUME NEW S, NEW x
  PROVE  OfExchange(S \cup {x}) =
           IF x.step \in {"hello", "sign"} THEN OfExchange(S) \cup {x}
           ELSE OfExchange(S)
BY DEF OfExchange

LEMMA NoneLeft == OfExchange({}) = {}
BY DEF OfExchange

\* What the exchange does not see.
LEMMA ExchangeUnseen ==
  ASSUME UNCHANGED <<wild, expected, accepted, signature, ExchangePc,
                     ExchangeAttempt, ExchangePort>>,
         OfExchange(requests') = OfExchange(requests),
         OfExchange(replies') = OfExchange(replies)
  PROVE  UNCHANGED Exchange!vars
<1>1. ExchangeRequests' = ExchangeRequests /\ ExchangeReplies' = ExchangeReplies
  BY DEF ExchangeRequests, ExchangeReplies, ExchangeRequest, ExchangeReply
<1> QED BY <1>1 DEF Exchange!vars, Exchange!environment

\* After the exchange nothing else changes what is seen of it.
LEMMA OverAndDone ==
  ASSUME step \notin {"hello", "sign"}, step' \notin {"hello", "sign"},
         UNCHANGED secret_hidden_port
  PROVE  UNCHANGED <<ExchangePc, ExchangeAttempt, ExchangePort>>
BY DEF ExchangePc, ExchangeAttempt, ExchangePort

\* What is under way when datagrams are only lost.
LEMMA OneUnderWay ==
  ASSUME IInv, ~wild
  PROVE  /\ \A q \in requests : requests = {q} /\ replies = {}
         /\ \A r \in replies : replies = {r} /\ requests = {}
         /\ \A d \in requests \cup replies : d.step = step
BY DEF IInv, LossyInv

Play ==
  IInv /\ ExchangeInv /\ program = "puzzlesolver" /\ ~Greeted

\* The S.E.C.R.E.T. service answers a request, or another service does.
LEMMA AnswerPlays ==
  ASSUME Play, NEW q \in requests, NEW v \in Replies(q), Answer(q, v)
  PROVE  [Exchange!Next]_(Exchange!vars)
<1> DEFINE r == [step |-> q.step, value |-> v, local |-> q.local]
<1>1. /\ UNCHANGED <<wild, signature, ExchangePc, ExchangeAttempt,
                     ExchangePort>>
      /\ replies' = replies \cup {r} /\ requests' = After(requests, q)
  BY DEF Answer, place, told, ExchangePc, ExchangeAttempt, ExchangePort,
         Exhausted
<1>2. OfExchange(replies') =
        IF q.step \in {"hello", "sign"} THEN OfExchange(replies) \cup {r}
        ELSE OfExchange(replies)
  BY <1>1, OneMore
<1>3. CASE q.step \notin {"hello", "sign"}
  <2>1. UNCHANGED <<expected, accepted>>
    BY <1>3 DEF Answer
  <2>2. OfExchange(requests') = OfExchange(requests)
    BY <1>1, <1>3 DEF After, OfExchange
  <2> QED BY <1>1, <1>2, <1>3, <2>1, <2>2, ExchangeUnseen
<1>4. CASE q.step \in {"hello", "sign"}
  <2>1. q \in OfExchange(requests) /\ ExchangeRequest(q) \in ExchangeRequests
    BY <1>4 DEF OfExchange, ExchangeRequests
  <2>2. ExchangeReplies' = ExchangeReplies \cup {ExchangeReply(r)}
    BY <1>2, <1>4 DEF ExchangeReplies, ExchangeReply
  <2>3. ExchangeRequests' = Exchange!After(ExchangeRequests, ExchangeRequest(q))
    <3>1. CASE wild
      BY <1>1, <3>1 DEF After, Exchange!After, ExchangeRequests, ExchangeRequest
    <3>2. CASE ~wild
      <4>1. requests = {q} /\ requests' = {}
        BY <1>1, <3>2, OneUnderWay DEF Play, After
      <4>2. OfExchange(requests) = {q} /\ OfExchange(requests') = {}
        BY <1>4, <4>1, NoneLeft DEF OfExchange
      <4>3. ExchangeRequests = {ExchangeRequest(q)} /\ ExchangeRequests' = {}
        BY <4>2 DEF ExchangeRequests, ExchangeRequest
      <4> QED BY <3>2, <4>3 DEF Exchange!After
    <3> QED BY <3>1, <3>2
  <2>4. CASE q.step = "hello"
    <3>1. v \in Challenges /\ expected' = v /\ accepted' = accepted
      BY <2>4 DEF Answer, Replies
    <3>2. ExchangeRequest(q) = Exchange!Hello
          /\ ExchangeReply(r) = Exchange!Challenge(v)
      BY <2>4 DEF ExchangeRequest, ExchangeReply, Exchange!Hello,
                  Exchange!Challenge
    <3>3. Exchange!DrawChallenge(v)
      BY <1>1, <2>1, <2>2, <2>3, <3>1, <3>2 DEF Exchange!DrawChallenge
    <3> QED BY <3>1, <3>3 DEF Exchange!Next, Exchange!Service
  <2>5. CASE q.step = "sign"
    <3>1. q.value = signature /\ signature \in Challenges
      BY <2>5 DEF Play, IInv, SignatureInv, ExchangeInv, SocketInv, SoFar
    <3>2. expected' = expected /\ q.value # Noise
      BY <2>5, <3>1, SessionAssumption DEF Answer, Noise
    <3>3. ExchangeRequest(q) = Exchange!Signature(q.value)
      BY <2>5 DEF ExchangeRequest, Exchange!Signature
    <3>4. CASE q.value = expected
      <4>1. v = Granted /\ accepted' = accepted \cup {q.value}
        BY <2>5, <3>2, <3>4 DEF Replies, Answer
      <4>2. ExchangeReply(r) = Exchange!Port
        BY <2>5, <4>1 DEF ExchangeReply, Exchange!Port
      <4>3. Exchange!CheckSignature(q.value)
        BY <1>1, <2>1, <2>2, <2>3, <3>2, <3>3, <3>4, <4>1, <4>2
           DEF Exchange!CheckSignature
      <4> QED BY <3>1, <4>3 DEF Exchange!Next, Exchange!Service
    <3>5. CASE q.value # expected
      <4>1. v = Refusal /\ accepted' = accepted
        BY <2>5, <3>5 DEF Replies, Answer, Granted, Refusal
      <4>2. ExchangeReply(r) = Exchange!Refusal
        BY <2>5, <4>1 DEF ExchangeReply, Exchange!Refusal, Granted, Refusal
      <4>3. Exchange!CheckSignature(q.value)
        BY <1>1, <2>1, <2>2, <2>3, <3>2, <3>3, <3>5, <4>1, <4>2
           DEF Exchange!CheckSignature
      <4> QED BY <3>1, <4>3 DEF Exchange!Next, Exchange!Service
    <3> QED BY <3>4, <3>5
  <2> QED BY <1>4, <2>4, <2>5
<1> QED BY <1>3, <1>4

\* A socket is opened, for this exchange or a later one; the pings come last.
LEMMA OpenPlays ==
  ASSUME Play, Open \/ OpenFails \/ Ping
  PROVE  [Exchange!Next]_(Exchange!vars)
<1>1. UNCHANGED <<wild, step, attempt, told, network, services>>
  BY DEF Open, OpenFails, Ping
<1>2. /\ UNCHANGED <<expected, accepted, signature, ExchangePort,
                     ExchangeRequests, ExchangeReplies>>
      /\ requests' = requests /\ replies' = replies
      /\ UNCHANGED secret_hidden_port
  BY <1>1 DEF told, network, services, ExchangePort, ExchangeRequests,
              ExchangeReplies, ExchangeRequest, ExchangeReply
<1>3. CASE step = "hello"
  <2>1. pc = "open" /\ attempt = 0 /\ pc' \in {"send", "exit1"}
    BY <1>3 DEF Play, ExchangeInv, Open, OpenFails, Ping
  <2>2. /\ ExchangePc = "setup" /\ ExchangePc' \in {"step1", "failed"}
        /\ ExchangeAttempt' = ExchangeAttempt
    BY <1>1, <1>3, <2>1 DEF ExchangePc, ExchangeAttempt, Exhausted
  <2>3. Exchange!Open
    BY <1>1, <1>2, <2>2 DEF Exchange!Open, Exchange!environment
  <2> QED BY <2>3 DEF Exchange!Next, Exchange!Solver
<1>4. CASE step # "hello"
  <2>1. step \notin {"hello", "sign"}
    BY <1>4 DEF Play, ExchangeInv, Open, OpenFails, Ping
  <2>2. UNCHANGED <<ExchangePc, ExchangeAttempt, ExchangePort>>
    BY <1>1, <1>2, <2>1, OverAndDone
  <2> QED BY <1>1, <1>2, <2>2, ExchangeUnseen
<1> QED BY <1>3, <1>4

\* A request is sent to the service of the exchange or to another one.
LEMMA SendPlays ==
  ASSUME Play, Send
  PROVE  [Exchange!Next]_(Exchange!vars)
<1> DEFINE q == [step |-> Target, value |-> Number, local |-> local]
<1>1. /\ UNCHANGED <<wild, step, attempt, told, replies, services>>
      /\ pc = "send" /\ pc' = "wait" /\ step \in Steps
      /\ requests' = requests \cup {q}
  BY DEF Send, AfterSend, Play
<1>2. /\ UNCHANGED <<expected, accepted, signature, secret_hidden_port,
                     ExchangePort, ExchangeReplies>>
      /\ attempt \in 0..2
  BY <1>1 DEF told, services, ExchangePort, ExchangeReplies, ExchangeReply,
              Play, IInv, TypeOK
<1>3. Target = step
  BY DEF Target, Play, ExchangeInv
<1>4. OfExchange(requests') =
        IF step \in {"hello", "sign"} THEN OfExchange(requests) \cup {q}
        ELSE OfExchange(requests)
  BY <1>1, <1>3, OneMore
<1>5. CASE step \in {"hello", "sign"}
  <2>1. ExchangeRequests' = ExchangeRequests \cup {ExchangeRequest(q)}
    BY <1>4, <1>5 DEF ExchangeRequests, ExchangeRequest
  <2>2. ExchangeAttempt' = ExchangeAttempt /\ ExchangeAttempt \in 0..2
    BY <1>1, <1>2, <1>5 DEF ExchangeAttempt, Exhausted
  <2>3. Exchange!AttemptsLeft
    BY <2>2 DEF Exchange!AttemptsLeft
  <2>4. CASE step = "hello"
    <3>1. ExchangePc = "step1" /\ ExchangePc' = "wait1"
      BY <1>1, <2>4 DEF ExchangePc, Exhausted
    <3>2. ExchangeRequest(q) = Exchange!Hello
      BY <1>3, <2>4 DEF ExchangeRequest, Exchange!Hello
    <3>3. Exchange!SendHello
      BY <1>1, <1>2, <2>1, <2>2, <2>3, <3>1, <3>2
         DEF Exchange!SendHello, Exchange!environment
    <3> QED BY <3>3 DEF Exchange!Next, Exchange!Solver
  <2>5. CASE step = "sign"
    <3>1. ExchangePc = "step2" /\ ExchangePc' = "wait2"
      BY <1>1, <2>5 DEF ExchangePc, Exhausted
    <3>2. ExchangeRequest(q) = Exchange!Signature(signature)
      BY <1>3, <2>5 DEF ExchangeRequest, Exchange!Signature, Number
    <3>3. Exchange!SendSignature
      BY <1>1, <1>2, <2>1, <2>2, <2>3, <3>1, <3>2
         DEF Exchange!SendSignature, Exchange!environment
    <3> QED BY <3>3 DEF Exchange!Next, Exchange!Solver
  <2> QED BY <1>5, <2>4, <2>5
<1>6. CASE step \notin {"hello", "sign"}
  <2>1. UNCHANGED <<ExchangePc, ExchangeAttempt, ExchangePort>>
    BY <1>1, <1>2, <1>6, OverAndDone
  <2> QED BY <1>1, <1>2, <1>4, <1>6, <2>1, ExchangeUnseen
<1> QED BY <1>5, <1>6

\* A failed attempt of either loop is repeated or was the last one.
LEMMA RetryIs ==
  ASSUME Play, TryAgain, step \in {"hello", "sign"}, pc \in {"send", "wait"}
  PROVE  /\ step' = step
         /\ ExchangePc' = IF step = "hello" THEN "step1" ELSE "step2"
         /\ ExchangeAttempt' = ExchangeAttempt + 1
         /\ ExchangeAttempt \in 0..2
<1>1. ExchangeAttempt = attempt /\ attempt \in 0..2
  BY DEF ExchangeAttempt, Exhausted, Play, IInv, TypeOK
<1>2. CASE attempt \in 0..1 /\ attempt' = attempt + 1 /\ pc' = "send"
           /\ step' = step
  BY <1>1, <1>2 DEF ExchangePc, ExchangeAttempt, Exhausted
<1>3. CASE attempt = 2 /\ attempt' = 2 /\ pc' = "exit1" /\ step' = step
  BY <1>1, <1>3 DEF ExchangePc, ExchangeAttempt, Exhausted
<1> QED BY <1>2, <1>3, LastAttempt DEF Play, IInv

\* sendto() fails, the timeout passes, or the knocking returns.
LEMMA FailurePlays ==
  ASSUME Play, SendFails \/ Timeout \/ Knock
  PROVE  [Exchange!Next]_(Exchange!vars)
<1>1. /\ UNCHANGED <<wild, told, services>> /\ Move
      /\ pc \in {"send", "wait"}
  BY DEF SendFails, Timeout, Knock, Move
<1>2. UNCHANGED <<expected, accepted, signature, secret_hidden_port,
                  ExchangePort>>
  BY <1>1 DEF told, services, ExchangePort
<1>3. CASE step \in {"hello", "sign"}
  <2>1. CASE SendFails
    <3>1. TryAgain /\ pc = "send" /\ requests' = requests /\ replies' = replies
      BY <1>3, <2>1 DEF SendFails, Play, network
    <3>2. ExchangeRequests' = ExchangeRequests
          /\ ExchangeReplies' = ExchangeReplies
      BY <3>1 DEF ExchangeRequests, ExchangeReplies, ExchangeRequest,
                  ExchangeReply
    <3>3. ExchangePc \in {"step1", "step2"} /\ ExchangePc' = ExchangePc
          /\ ExchangeAttempt \in 0..2 /\ ExchangeAttempt' = ExchangeAttempt + 1
      BY <1>3, <3>1, RetryIs DEF ExchangePc, Exhausted
    <3>4. Exchange!SendFails
      BY <1>1, <1>2, <3>2, <3>3
         DEF Exchange!SendFails, Exchange!AttemptsLeft, Exchange!environment
    <3> QED BY <3>4 DEF Exchange!Next, Exchange!Solver
  <2>2. CASE Timeout
    <3>1. TryAgain /\ pc = "wait"
          /\ requests' = Outlives(requests) /\ replies' = Outlives(replies)
      BY <1>3, <2>2 DEF Timeout, Play, GoesOnUnanswered
    <3>2. ExchangeRequests' = Exchange!Outlives(ExchangeRequests)
          /\ ExchangeReplies' = Exchange!Outlives(ExchangeReplies)
      <4>1. CASE wild
        BY <3>1, <4>1 DEF Outlives, Exchange!Outlives, ExchangeRequests,
                          ExchangeReplies, ExchangeRequest, ExchangeReply
      <4>2. CASE ~wild
        <5>1. requests' = {} /\ replies' = {}
          BY <3>1, <4>2 DEF Outlives
        <5> QED BY <4>2, <5>1, NoneLeft
                DEF Exchange!Outlives, ExchangeRequests, ExchangeReplies
      <4> QED BY <4>1, <4>2
    <3>3. /\ \/ step = "hello" /\ ExchangePc = "wait1" /\ ExchangePc' = "step1"
             \/ step = "sign" /\ ExchangePc = "wait2" /\ ExchangePc' = "step2"
          /\ ExchangeAttempt' = ExchangeAttempt + 1
      BY <1>3, <3>1, RetryIs DEF ExchangePc, Exhausted
    <3>4. Exchange!Timeout
      BY <1>1, <1>2, <3>2, <3>3
         DEF Exchange!Timeout, Exchange!NextAttempt, Exchange!RetryStep,
             Exchange!environment
    <3> QED BY <3>4 DEF Exchange!Next, Exchange!Solver
  <2> QED BY <1>3, <2>1, <2>2 DEF Knock
<1>4. CASE step \notin {"hello", "sign"}
  <2>1. step' \notin {"hello", "sign"}
    BY <1>1, <1>4, MoveCases DEF Play, IInv, NextOf
  <2>2. UNCHANGED <<ExchangePc, ExchangeAttempt, ExchangePort>>
    BY <1>2, <1>4, <2>1, OverAndDone
  <2>3. OfExchange(requests') = OfExchange(requests)
        /\ OfExchange(replies') = OfExchange(replies)
    <3>1. CASE SendFails \/ Knock
      BY <3>1 DEF SendFails, Knock, network
    <3>2. CASE Timeout /\ wild
      BY <3>2 DEF Timeout, Outlives
    <3>3. CASE Timeout /\ ~wild
      <4>1. requests' = {} /\ replies' = {}
        BY <3>3 DEF Timeout, Outlives
      <4>2. OfExchange(requests) = {} /\ OfExchange(replies) = {}
        BY <1>4, <3>3, OneUnderWay DEF Play, OfExchange
      <4> QED BY <4>1, <4>2, NoneLeft
    <3> QED BY <3>1, <3>2, <3>3
  <2> QED BY <1>1, <1>2, <2>2, <2>3, ExchangeUnseen
<1> QED BY <1>3, <1>4

\* What is found in the text of an answer: the port the service told, a number
\* that a challenge happens to read like, or none.
LEMMA ExtractedFromPort == Exchange!Extracted(Exchange!Port) = AnyPort
BY DEF Exchange!Extracted

LEMMA ExtractedFromRefusal == Exchange!Extracted(Exchange!Refusal) = -1
<1>1. Exchange!Refusal # Exchange!Port
  BY DEF Exchange!Refusal, Exchange!Port
<1>2. \A c \in PortLike : Exchange!Refusal # Exchange!Challenge(c)
  <2> TAKE c \in PortLike
  <2>1. Exchange!Refusal.kind = "refusal"
    BY DEF Exchange!Refusal
  <2>2. Exchange!Challenge(c).kind = "challenge"
    BY DEF Exchange!Challenge
  <2> QED BY <2>1, <2>2
<1> QED BY <1>1, <1>2 DEF Exchange!Extracted

LEMMA ExtractedFromChallenge ==
  ASSUME NEW v
  PROVE  Exchange!Extracted(Exchange!Challenge(v)) =
           IF v \in PortLike THEN AnyPort + 1 ELSE -1
<1>1. Exchange!Challenge(v) # Exchange!Port
  <2>1. Exchange!Challenge(v).kind = "challenge"
    BY DEF Exchange!Challenge
  <2>2. Exchange!Port.kind = "port"
    BY DEF Exchange!Port
  <2> QED BY <2>1, <2>2
<1>2. \A c : Exchange!Challenge(c).challenge = c
  BY DEF Exchange!Challenge
<1>3. Exchange!Challenge(v) \in {Exchange!Challenge(c) : c \in PortLike}
        <=> v \in PortLike
  BY <1>2
<1> QED BY <1>1, <1>3 DEF Exchange!Extracted

\* A datagram is received in the exchange or in a later one.
LEMMA ReceivePlays ==
  ASSUME Play, NEW m \in replies, Receive(m)
  PROVE  [Exchange!Next]_(Exchange!vars)
<1>1. /\ UNCHANGED <<wild, requests, services>> /\ Learn(m) /\ Move
      /\ replies' = After(replies, m) /\ pc = "wait" /\ step \in Steps
      /\ m \in Answers
  BY DEF Receive, Move, Play, IInv, CourseInv, TypeOK
<1>2. UNCHANGED <<expected, accepted>>
  BY <1>1 DEF services
<1>3. CASE step \in {"hello", "sign"}
  <2>1. m.step \in {"hello", "sign"}
    BY <1>3, ExchangeReceive DEF Play
  <2>2. ExchangeReply(m) \in ExchangeReplies
    BY <2>1 DEF OfExchange, ExchangeReplies
  <2>3. ExchangeReplies' = Exchange!After(ExchangeReplies, ExchangeReply(m))
    <3>1. CASE wild
      BY <1>1, <3>1 DEF After, Exchange!After, ExchangeReplies, ExchangeReply
    <3>2. CASE ~wild
      <4>1. replies = {m} /\ replies' = {}
        BY <1>1, <3>2, OneUnderWay DEF Play, After
      <4>2. OfExchange(replies) = {m} /\ OfExchange(replies') = {}
        BY <2>1, <4>1, NoneLeft DEF OfExchange
      <4>3. ExchangeReplies = {ExchangeReply(m)} /\ ExchangeReplies' = {}
        BY <4>2 DEF ExchangeReplies, ExchangeReply
      <4> QED BY <3>2, <4>3 DEF Exchange!After
    <3> QED BY <3>1, <3>2
  <2>4. ExchangeRequests' = ExchangeRequests
    BY <1>1 DEF ExchangeRequests, ExchangeRequest
  <2>5. secret_hidden_port = "unset" /\ ExchangePort = -1
    BY <1>3 DEF Play, ExchangeInv, ExchangePort
  <2>6. CASE step = "hello"
    <3>1. /\ m.step = "hello" /\ m.value \in Challenges
          /\ step' = "sign" /\ pc' = "send" /\ attempt' = 0
          /\ signature' = m.value /\ UNCHANGED secret_hidden_port
      BY <2>6, ExchangeReceive DEF Play
    <3>2. /\ ExchangePc = "wait1" /\ ExchangePc' = "step2"
          /\ ExchangeAttempt' = 0 /\ ExchangePort' = ExchangePort
      BY <1>1, <2>6, <3>1 DEF ExchangePc, ExchangeAttempt, ExchangePort,
                              Exhausted
    <3>3. ExchangeReply(m) = Exchange!Challenge(m.value)
      BY <3>1 DEF ExchangeReply, Exchange!Challenge
    <3>4. Exchange!ReceiveChallenge(m.value)
      BY <1>1, <1>2, <2>2, <2>3, <2>4, <3>1, <3>2, <3>3
         DEF Exchange!ReceiveChallenge, Exchange!environment
    <3> QED BY <3>1, <3>4 DEF Exchange!Next, Exchange!Solver
  <2>7. CASE step = "sign"
    <3>1. ExchangePc = "wait2"
      BY <1>1, <2>7 DEF ExchangePc, Exhausted
    <3>2. Exchange!Extracted(ExchangeReply(m)) =
            IF HoldsPort(m) THEN (IF m.step = "sign" THEN AnyPort
                                  ELSE AnyPort + 1)
            ELSE -1
      <4>1. CASE m.step = "sign"
        <5>1. HoldsPort(m) <=> m.value = Granted
          BY <4>1 DEF HoldsPort
        <5>2. ExchangeReply(m) =
                IF m.value = Granted THEN Exchange!Port ELSE Exchange!Refusal
          BY <4>1 DEF ExchangeReply, Exchange!Port, Exchange!Refusal
        <5> QED BY <4>1, <5>1, <5>2, ExtractedFromPort, ExtractedFromRefusal
      <4>2. CASE m.step = "hello"
        <5>1. ExchangeReply(m) = Exchange!Challenge(m.value)
          BY <4>2 DEF ExchangeReply, Exchange!Challenge
        <5>2. HoldsPort(m) <=> m.value \in PortLike
          BY <4>2 DEF HoldsPort
        <5> QED BY <4>2, <5>1, <5>2, ExtractedFromChallenge
      <4> QED BY <2>1, <4>1, <4>2
    <3>3. CASE HoldsPort(m)
      <4>1. /\ step' = "evil" /\ pc' = "open" /\ UNCHANGED signature
            /\ secret_hidden_port' = m.step
        BY <2>7, <3>3, ExchangeReceive DEF Play
      <4>2. /\ ExchangePc' = "solved" /\ ExchangeAttempt' = 0
            /\ ExchangePort' = Exchange!Extracted(ExchangeReply(m))
        BY <2>1, <3>2, <3>3, <4>1
           DEF ExchangePc, ExchangeAttempt, ExchangePort, Exhausted
      <4>3. Exchange!Solves(ExchangePort')
        BY <3>2, <3>3, <4>2 DEF Exchange!Solves, AnyPort
      <4>4. Exchange!ReceivePort(ExchangeReply(m))
        BY <1>1, <1>2, <2>2, <2>3, <2>4, <3>1, <4>1, <4>2, <4>3
           DEF Exchange!ReceivePort, Exchange!environment
      <4> QED BY <2>2, <4>4 DEF Exchange!Next, Exchange!Solver
    <3>4. CASE ~HoldsPort(m)
      <4>1. TryAgain /\ UNCHANGED <<signature, secret_hidden_port>>
        BY <2>7, <3>4, ExchangeReceive DEF Play
      <4>2. /\ ExchangePc' = "step2" /\ ExchangeAttempt' = ExchangeAttempt + 1
            /\ ExchangePort' = Exchange!Extracted(ExchangeReply(m))
        BY <1>1, <2>5, <2>7, <3>2, <3>4, <4>1, RetryIs DEF ExchangePort
      <4>3. ~Exchange!Solves(ExchangePort')
        BY <3>2, <3>4, <4>2 DEF Exchange!Solves
      <4>4. Exchange!ReceivePort(ExchangeReply(m))
        BY <1>1, <1>2, <2>2, <2>3, <2>4, <3>1, <4>1, <4>2, <4>3
           DEF Exchange!ReceivePort, Exchange!environment
      <4> QED BY <2>2, <4>4 DEF Exchange!Next, Exchange!Solver
    <3> QED BY <3>3, <3>4
  <2> QED BY <1>3, <2>6, <2>7
<1>4. CASE step \notin {"hello", "sign"}
  <2>1. step' \notin {"hello", "sign"}
    BY <1>1, <1>4, MoveCases DEF Play, IInv, NextOf
  <2>2. UNCHANGED <<signature, secret_hidden_port>>
    BY <1>1, <1>4 DEF Learn
  <2>3. UNCHANGED <<ExchangePc, ExchangeAttempt, ExchangePort>>
    BY <1>4, <2>1, <2>2, OverAndDone
  <2>4. OfExchange(replies') = OfExchange(replies)
    <3>1. CASE wild
      BY <1>1, <3>1 DEF After
    <3>2. CASE ~wild
      <4>1. replies' = {}
        BY <1>1, <3>2, OneUnderWay DEF Play, After
      <4>2. OfExchange(replies) = {}
        BY <1>4, <3>2, OneUnderWay DEF Play, OfExchange
      <4> QED BY <4>1, <4>2, NoneLeft
    <3> QED BY <3>1, <3>2
  <2> QED BY <1>1, <1>2, <2>2, <2>3, <2>4, ExchangeUnseen
<1> QED BY <1>3, <1>4

\* Every step of puzzlesolver, its services and its network is a step of the
\* exchange modelled in SecretPort or none it sees, whatever comes after the
\* exchange and whichever local ports are used again.
THEOREM CoursePlaysExchange == Spec => PlaysExchange
<1>1. ASSUME Play, [Next]_vars
      PROVE  [Exchange!Next]_(Exchange!vars)
  <2>1. CASE UNCHANGED vars
    <3>1. /\ UNCHANGED <<wild, expected, accepted, signature, ExchangePc,
                         ExchangeAttempt, ExchangePort>>
          /\ requests' = requests /\ replies' = replies
      BY <2>1 DEF vars, place, told, network, services, ExchangePc,
                  ExchangeAttempt, ExchangePort, Exhausted
    <3> QED BY <3>1, ExchangeUnseen
  <2>2. CASE \E q \in requests : \E v \in Replies(q) : Answer(q, v)
    BY <1>1, <2>2, AnswerPlays
  <2>3. CASE Open \/ OpenFails \/ Ping
    BY <1>1, <2>3, OpenPlays
  <2>4. CASE Send
    BY <1>1, <2>4, SendPlays
  <2>5. CASE SendFails \/ Timeout \/ Knock
    BY <1>1, <2>5, FailurePlays
  <2>6. CASE \E m \in replies : Receive(m)
    BY <1>1, <2>6, ReceivePlays
  <2> QED BY <1>1, <2>1, <2>2, <2>3, <2>4, <2>5, <2>6 DEF Next, Solver
<1>2. IInv /\ ExchangeInv /\ [Next]_vars =>
        [program = "puzzlesolver" /\ ~Greeted => Exchange!Next]_(Exchange!vars)
  BY <1>1 DEF Play
<1> QED BY <1>2, ExchangeInvHolds, PTL DEF Spec, PlaysExchange

\* Where the scan has left no greeting under way, puzzlesolver's course is an
\* implementation of the exchange, in a network that only loses and in a wild
\* one: it has all of its properties.
THEOREM CourseImplements ==
  program = "puzzlesolver" /\ ~Greeted /\ Spec => Exchange!Spec
<1> DEFINE Clean == program = "puzzlesolver" /\ ~Greeted
<1>1. Init /\ Clean => Exchange!Init
  <2> SUFFICES ASSUME Init, Clean PROVE Exchange!Init
    OBVIOUS
  <2>1. sockets # {[step |-> "greet", local |-> 1]}
    <3>1. [step |-> "greet", local |-> 1].step = "greet"
      OBVIOUS
    <3> QED BY <3>1 DEF Greeted
  <2>2. requests = {} /\ replies = {} /\ wild \in Networks
    BY <2>1 DEF Init
  <2>3. ExchangeRequests = {} /\ ExchangeReplies = {}
    BY <2>2, NoneLeft DEF ExchangeRequests, ExchangeReplies
  <2>4. ExchangePc = "setup" /\ ExchangeAttempt = 0 /\ ExchangePort = -1
    BY DEF Init, ExchangePc, ExchangeAttempt, ExchangePort, Exhausted
  <2> QED BY <2>2, <2>3, <2>4 DEF Init, Exchange!Init, Noise
<1>2. IInv /\ Clean /\ [Next]_vars => Clean'
  <2>1. Clean /\ UNCHANGED vars => Clean'
    BY DEF vars, Greeted
  <2> QED BY <2>1, SamePlay
<1>3. Clean /\ [Clean => Exchange!Next]_(Exchange!vars)
        => [Exchange!Next]_(Exchange!vars)
  OBVIOUS
<1>4. Clean /\ Spec => Exchange!Spec
  BY <1>1, <1>2, <1>3, Invariance, CoursePlaysExchange, PTL
     DEF Spec, PlaysExchange, Exchange!Spec
<1> QED BY <1>4

-----------------------------------------------------------------------------
(* A program comes to an end.                                              *)

\* The steps from the present one to the last.
StepsLeft ==
  CASE step = "hello" -> 7
    [] step = "sign" -> 6
    [] step = "evil" -> 5
    [] step = "instruct" -> 4
    [] step = "packet" -> 3
    [] step = "knock" -> 2
    [] OTHER -> 1

\* The calls made before the present one within its attempt.
Phase == CASE pc = "open" -> 0 [] pc = "send" -> 1 [] OTHER -> 2

\* A bound on what a program has still to do: a step costs at most three
\* attempts of three calls.
Rank ==
  IF pc \in {"exit0", "exit1"} THEN 0
  ELSE 12 * StepsLeft - (3 * attempt + Phase)

\* While the program has not ended there is something left to count down.
RankInv == Rank \in Nat /\ (Rank = 0 <=> pc \in {"exit0", "exit1"})

\* The services' part of Next.
Services == \E q \in requests : \E v \in Replies(q) : Answer(q, v)

\* Every step of the program counts down; no answer gives it more to do.
RankFalls == [][/\ Solver => Rank' < Rank
                /\ Services => Rank' = Rank]_vars

LEMMA RankTypes ==
  ASSUME TypeOK
  PROVE  attempt \in 0..2 /\ StepsLeft \in 1..7 /\ Phase \in 0..2
BY DEF TypeOK, StepsLeft, Phase

LEMMA RankIsNatural == IInv => RankInv
<1> SUFFICES ASSUME IInv PROVE RankInv
  OBVIOUS
<1>1. TypeOK
  BY DEF IInv
<1> QED BY <1>1, RankTypes DEF RankInv, Rank

\* The end, the next step, or the next attempt at this one: there is less to
\* do after each of the ways a step is left.
LEMMA EndCounts ==
  ASSUME TypeOK, pc \in {"open", "send", "wait"}, pc' \in {"exit0", "exit1"}
  PROVE  Rank' < Rank
<1>1. Rank' = 0
  BY DEF Rank
<1>2. Rank = 12 * StepsLeft - (3 * attempt + Phase)
  BY DEF Rank
<1> QED BY <1>1, <1>2, RankTypes

LEMMA GoOnCounts ==
  ASSUME TypeOK, pc \in {"send", "wait"}, step \in Steps \cup {"knock"}, GoOn
  PROVE  Rank' < Rank
<1>1. CASE pc' = "exit0"
  BY <1>1, EndCounts
<1>2. CASE pc' \in {"open", "send"} /\ attempt' = 0
  <2>1. StepsLeft' = StepsLeft - 1
    BY <1>2, GoOnCases DEF StepsLeft
  <2>2. Phase' \in 0..1
    BY <1>2 DEF Phase
  <2>3. /\ Rank' = 12 * StepsLeft' - Phase'
        /\ Rank = 12 * StepsLeft - (3 * attempt + Phase)
    BY <1>2, <2>2, RankTypes DEF Rank
  <2> QED BY <2>1, <2>2, <2>3, RankTypes
<1> QED BY <1>1, <1>2, GoOnCases

LEMMA TryAgainCounts ==
  ASSUME TypeOK, pc \in {"send", "wait"}, TryAgain
  PROVE  Rank' < Rank
<1>1. CASE pc' = "send" /\ attempt' = attempt + 1 /\ step' = step
  <2>1. StepsLeft' = StepsLeft /\ Phase' = 1 /\ Phase >= 1
    BY <1>1 DEF StepsLeft, Phase
  <2>2. /\ Rank' = 12 * StepsLeft' - (3 * attempt' + Phase')
        /\ Rank = 12 * StepsLeft - (3 * attempt + Phase)
    BY <1>1 DEF Rank
  <2> QED BY <1>1, <2>1, <2>2, RankTypes
<1>2. CASE Fail
  BY <1>2, EndCounts DEF Fail
<1> QED BY <1>1, <1>2 DEF TryAgain, NextAttempt

\* The next call of the same attempt.
LEMMA CallCounts ==
  ASSUME TypeOK, UNCHANGED <<step, attempt>>,
         \/ pc = "open" /\ pc' = "send"
         \/ pc = "send" /\ pc' = "wait"
  PROVE  Rank' < Rank
<1>1. StepsLeft' = StepsLeft /\ Phase' = Phase + 1
  BY DEF StepsLeft, Phase
<1>2. /\ Rank' = 12 * StepsLeft' - (3 * attempt' + Phase')
      /\ Rank = 12 * StepsLeft - (3 * attempt + Phase)
  BY DEF Rank
<1> QED BY <1>1, <1>2, RankTypes

LEMMA SolverCounts == IInv /\ Solver => Rank' < Rank
<1> SUFFICES ASSUME IInv, Solver PROVE Rank' < Rank
  OBVIOUS
<1>1. TypeOK /\ (pc = "wait" => step \in Steps)
  BY DEF IInv, CourseInv
<1>2. CASE Open
  BY <1>1, <1>2, CallCounts DEF Open
<1>3. CASE OpenFails
  BY <1>1, <1>3, EndCounts DEF OpenFails
<1>4. CASE Send
  BY <1>1, <1>4, CallCounts, EndCounts DEF Send, AfterSend
<1>5. CASE SendFails
  <2>1. /\ pc = "send" /\ step \in Steps
        /\ \/ GoOn \/ TryAgain \/ Fail
           \/ pc' \in {"wait", "exit0"} /\ UNCHANGED <<step, attempt>>
    BY <1>5 DEF SendFails
  <2>2. CASE GoOn
    BY <1>1, <2>1, <2>2, GoOnCounts
  <2>3. CASE TryAgain
    BY <1>1, <2>1, <2>3, TryAgainCounts
  <2>4. CASE Fail
    BY <1>1, <2>1, <2>4, EndCounts DEF Fail
  <2>5. CASE pc' \in {"wait", "exit0"} /\ UNCHANGED <<step, attempt>>
    BY <1>1, <2>1, <2>5, EndCounts, CallCounts
  <2> QED BY <2>1, <2>2, <2>3, <2>4, <2>5
<1>6. CASE \E m \in replies : Receive(m)
  <2>1. pc = "wait" /\ (GoOn \/ TryAgain \/ Fail)
    BY <1>6 DEF Receive
  <2>2. CASE GoOn
    BY <1>1, <2>1, <2>2, GoOnCounts
  <2>3. CASE TryAgain
    BY <1>1, <2>1, <2>3, TryAgainCounts
  <2>4. CASE Fail
    BY <1>1, <2>1, <2>4, EndCounts DEF Fail
  <2> QED BY <2>1, <2>2, <2>3, <2>4
<1>7. CASE Timeout
  <2>1. pc = "wait" /\ (GoOn \/ TryAgain)
    BY <1>7 DEF Timeout
  <2> QED BY <1>1, <2>1, GoOnCounts, TryAgainCounts
<1>8. CASE Knock
  <2>1. pc = "send" /\ step = "knock" /\ (GoOn \/ Fail)
    BY <1>8 DEF Knock
  <2> QED BY <1>1, <2>1, GoOnCounts, EndCounts DEF Fail
<1>9. CASE Ping
  BY <1>1, <1>9, EndCounts DEF Ping
<1> QED BY <1>2, <1>3, <1>4, <1>5, <1>6, <1>7, <1>8, <1>9 DEF Solver

\* Each of the three programs makes a bounded number of calls and then ends,
\* whatever the services and the network do and whichever calls fail.
THEOREM CountsDown == Spec => []RankInv /\ RankFalls
<1>1. Services => Rank' = Rank
  BY DEF Services, Answer, place, Rank, StepsLeft, Phase
<1>2. IInv /\ [Next]_vars => [/\ Solver => Rank' < Rank
                              /\ Services => Rank' = Rank]_vars
  BY <1>1, SolverCounts
<1> QED BY <1>2, RankIsNatural, Invariance, PTL DEF Spec, RankFalls
=============================================================================
