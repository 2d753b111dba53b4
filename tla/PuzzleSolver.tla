---------------------------- MODULE PuzzleSolver ----------------------------
(***************************************************************************)
(* The order of play of the three solvers of week 5, from the greeting of  *)
(* the S.E.C.R.E.T. service to the end of main(): vika5/puzzlesolver.cpp,  *)
(* and its forerunners vika5/puzzlesolver1.cpp and vika5/chat.cpp.         *)
(*                                                                         *)
(* Each exchange is a step: "hello" and "sign" with the S.E.C.R.E.T.       *)
(* service, "evil" with the evil service, "instruct" and "packet" with the *)
(* checksum service.  What one step is told, later ones use: the signature *)
(* everywhere, the instruction in the packet, the ports and the phrase in  *)
(* the knocking.  The programs differ in how often they try, in what they  *)
(* do when a call fails or nothing comes, and in how many sockets they     *)
(* use; none of them looks at who sent a datagram.                         *)
(*                                                                         *)
(* A number or phrase taken from an answer is represented by the step      *)
(* whose answer it was.  The services are external.                        *)
(***************************************************************************)
EXTENDS Integers

CONSTANTS
  Programs,      \* which of the three are looked at
  Challenges,    \* challenge numbers the S.E.C.R.E.T. service may draw
  PortLike,      \* challenges whose bytes, read as text, hold a port number
  Instructions,  \* checksum and address the checksum service may ask for
  ZeroBytes,     \* instructions with a zero byte among their last six
  Quoted,        \* instructions whose text holds a pair of quotes
  NumLocals,     \* how many local ports the kernel gives to sockets
  Networks       \* what wild may be

ASSUME SessionAssumption ==
  /\ Programs \subseteq {"puzzlesolver", "puzzlesolver1", "chat"}
  /\ Challenges \subseteq Nat \ {0}
  /\ Instructions \subseteq Nat \ {0}
  /\ PortLike \subseteq Challenges
  /\ ZeroBytes \subseteq Instructions
  /\ Quoted \subseteq Instructions
  /\ NumLocals \in Nat \ {0}
  /\ Networks \subseteq BOOLEAN

VARIABLES
  program,
  wild,       \* the network: TRUE when datagrams may also be late, duplicated
              \* and reordered, FALSE when they arrive in time and once, or
              \* never; it does not change
  pc,         \* "open" a socket, "send", "wait" for an answer, or the status
              \* the program exits with
  step,
  attempt,
  local,      \* local port of the socket
  peer,       \* whose address the signature is sent to
  signature,  \* the challenge it is formed from
  instruction,  \* the instruction the packet is built for
  secret_hidden_port, evil_hidden_port, secret_phrase,
  requests,   \* datagrams under way to the services
  replies,    \* datagrams under way to local ports
  expected,   \* service: the challenge it last drew for this solver
  accepted,   \* service: the challenges whose signature it confirmed
  required,   \* service: the instruction it last gave
  sockets,    \* history: the steps that opened a socket, each with the local
              \* port it got
  missed      \* history: steps the program went on from without an answer

place == <<pc, step, attempt>>
told == <<peer, signature, instruction, secret_hidden_port, evil_hidden_port,
          secret_phrase>>
network == <<requests, replies>>
services == <<expected, accepted, required>>
vars == <<program, wild, place, local, told, network, services, sockets, missed>>

\* Bytes that are no service's number; a refusal; an answer that tells.
Noise == 0
Refusal == 0
Granted == 1

Locals == 1..NumLocals
Steps == {"hello", "sign", "evil", "instruct", "packet"}

\* A request or an answer, by its step and the local port of its socket;
\* "greet" is an answer to a scan, "stray" a signature sent to its sender.
Requests ==
  [step : Steps \cup {"stray"}, value : Challenges \cup Instructions \cup {Noise},
   local : Locals]
Answers ==
  [step : {"hello"}, value : Challenges, local : Locals]
    \cup [step : {"instruct"}, value : Instructions \cup {Refusal}, local : Locals]
    \cup [step : {"sign", "evil", "packet", "stray", "greet"},
          value : {Granted, Refusal}, local : Locals]

\* Every variable stays in its range.
TypeOK ==
  /\ program \in Programs
  /\ wild \in BOOLEAN
  /\ pc \in {"open", "send", "wait", "exit0", "exit1"}
  /\ step \in Steps \cup {"knock", "icmp"}
  /\ attempt \in 0..2
  /\ pc \in {"send", "wait"} \/ step # "hello" => local \in Locals
  /\ peer \in {"secret", "other"}
  /\ signature \in Challenges \cup {Noise}
  /\ instruction \in Instructions \cup {Noise}
  /\ {secret_hidden_port, evil_hidden_port, secret_phrase}
       \subseteq Steps \cup {"unset"}
  /\ requests \subseteq Requests
  /\ replies \subseteq Answers
  /\ expected \in Challenges \cup {Noise}
  /\ accepted \subseteq Challenges
  /\ required \in Instructions \cup {Noise}
  /\ sockets \subseteq [step : Steps \cup {"greet"}, local : Locals]
  /\ missed \subseteq Steps

\* main() has found its ports, or was given them; in a wild network an answer
\* to one of the probes before may still be under way to the port it was
\* sent from.
Init ==
  /\ program \in Programs
  /\ wild \in Networks
  /\ pc = "open"
  /\ step = "hello"
  /\ attempt = 0
  /\ local = 0
  /\ peer = "secret"
  /\ signature = Noise
  /\ instruction = Noise
  /\ secret_hidden_port = "unset"
  /\ evil_hidden_port = "unset"
  /\ secret_phrase = "unset"
  /\ requests = {}
  /\ \/ replies = {} /\ sockets = {}
     \/ /\ wild
        /\ replies = {[step |-> "greet", value |-> Noise, local |-> 1]}
        /\ sockets = {[step |-> "greet", local |-> 1]}
  /\ expected = Noise
  /\ accepted = {}
  /\ required = Noise
  /\ missed = {}

-----------------------------------------------------------------------------
(* The network and the services.                                           *)

\* What is left of a set of datagrams when one of them has been delivered.
After(datagrams, m) == IF wild THEN datagrams ELSE datagrams \ {m}

\* What is still under way when a receive timeout has passed.
Outlives(datagrams) == IF wild THEN datagrams ELSE {}

\* A signature the services may take for this solver's.
Known(c) == c \in (accepted \cup {expected}) \ {Noise}

\* What may be answered to q: a challenge to a hello; the port to the signature
\* of the last challenge; what the other services tell to a signature they can
\* know; the phrase to a packet for the last instruction, if it is valid (see
\* ChecksumSearch).
Replies(q) ==
  CASE q.step = "hello" -> Challenges
    [] q.step = "sign" /\ q.value = expected /\ q.value # Noise -> {Granted}
    [] q.step = "evil" /\ Known(q.value) -> {Granted}
    [] q.step = "instruct" /\ Known(q.value) -> Instructions
    [] q.step = "packet" /\ q.value = required /\ q.value # Noise ->
         {Granted, Refusal}
    [] OTHER -> {Refusal}

Answer(q, v) ==
  /\ q \in requests
  /\ v \in Replies(q)
  /\ requests' = After(requests, q)
  /\ replies' = replies \cup {[step |-> q.step, value |-> v, local |-> q.local]}
  /\ expected' = IF q.step = "hello" THEN v ELSE expected
  /\ accepted' = IF q.step = "sign" /\ v = Granted
                 THEN accepted \cup {q.value} ELSE accepted
  /\ required' = IF q.step = "instruct" /\ v # Refusal THEN v ELSE required
  /\ UNCHANGED <<program, wild, place, local, told, sockets, missed>>

-----------------------------------------------------------------------------
(* The course of a program.                                                *)

\* Iterations of the loop a step is in; only puzzlesolver has loops.
Attempts == IF program = "puzzlesolver" /\ step # "packet" THEN 3 ELSE 1

Fail == pc' = "exit1" /\ UNCHANGED <<step, attempt>>

\* Seeded fault: the counter of a loop is not advanced.
SameAttempt == attempt

NextAttempt == attempt + 1

\* Seeded fault: a loop runs once more than it should.
OneMoreAttempt ==
  \/ /\ NextAttempt <= Attempts
     /\ attempt' = NextAttempt
     /\ pc' = "send"
     /\ UNCHANGED step
  \/ NextAttempt > Attempts /\ Fail

\* An attempt brought nothing.
TryAgain ==
  \/ /\ NextAttempt < Attempts
     /\ attempt' = NextAttempt
     /\ pc' = "send"
     /\ UNCHANGED step
  \/ NextAttempt >= Attempts /\ Fail

NextStep ==
  CASE step = "hello" -> "sign"
    [] step = "sign" -> "evil"
    [] step = "evil" -> "instruct"
    [] step = "instruct" -> "packet"
    [] step = "packet" -> "knock"
    [] OTHER -> "icmp"

\* The step that opens the socket a step uses: puzzlesolver has a socket per
\* service, the others have one.
Opener(s) ==
  IF s = "greet" THEN s
  ELSE IF s \in {"hello", "sign", "stray"} \/ program # "puzzlesolver"
  THEN "hello"
  ELSE IF s = "evil" THEN s ELSE "instruct"

\* The evil step opens a raw socket in any case.
OpensSocket(s) == s \in {Opener(s), "evil"}

\* The step is over; chat.cpp ends with the second.
GoOn ==
  IF program = "chat" /\ step = "sign"
  THEN pc' = "exit0" /\ UNCHANGED <<step, attempt>>
  ELSE /\ step' = NextStep
       /\ pc' = IF OpensSocket(NextStep) THEN "open" ELSE "send"
       /\ attempt' = 0

\* Local ports the kernel may give a socket, numbered as they are first used;
\* a closed socket's may be given again.
FreePorts ==
  {l \in 1..NumLocals :
     \A k \in 1..(l - 1) : \E s \in sockets : s.local = k}

\* puzzlesolver1 sends its evil packet in the name of the socket it has.
Open ==
  /\ pc = "open"
  /\ IF Opener(step) = step
     THEN /\ local' \in FreePorts
          /\ sockets' = sockets \cup {[step |-> step, local |-> local']}
     ELSE UNCHANGED <<local, sockets>>
  /\ pc' = "send"
  /\ UNCHANGED <<program, wild, step, attempt, told, network, services, missed>>

\* puzzlesolver1 exits with status 0 when it gets no first socket.
OpenFails ==
  /\ pc = "open"
  /\ pc' = IF program = "puzzlesolver1" /\ step = "hello" THEN "exit0"
           ELSE "exit1"
  /\ UNCHANGED <<program, wild, step, attempt, local, told, network, services,
                 sockets, missed>>

\* chat.cpp signs to whoever sent what it took for the challenge.
Target == IF step = "sign" /\ peer = "other" THEN "stray" ELSE step

\* Seeded fault: the packet is built from the signature.
WrongNumber == IF step = "hello" THEN Noise ELSE signature

\* The number a step sends: the signature, or the packet for an instruction.
Number ==
  IF step = "hello" THEN Noise
  ELSE IF step = "packet" THEN instruction ELSE signature

\* puzzlesolver1 is done when its packet is sent.
AfterSend ==
  IF program = "puzzlesolver1" /\ step = "packet" THEN "exit0" ELSE "wait"

Send ==
  /\ pc = "send"
  /\ step \in Steps
  /\ requests' =
       requests \cup {[step |-> Target, value |-> Number, local |-> local]}
  /\ pc' = AfterSend
  /\ UNCHANGED <<program, wild, step, attempt, local, told, replies, services,
                 sockets, missed>>

\* A failed send costs an attempt, ends the program, or is not noticed.
SendFails ==
  /\ pc = "send"
  /\ step \in Steps
  /\ CASE program = "puzzlesolver" /\ step \in {"hello", "sign"} -> TryAgain
       [] program = "chat" \/ (program = "puzzlesolver" /\ step = "instruct") ->
            pc' = "wait" /\ UNCHANGED <<step, attempt>>
       [] program = "puzzlesolver1" /\ step = "evil" -> GoOn
       [] program = "puzzlesolver1" /\ step \in {"instruct", "packet"} ->
            pc' = "exit0" /\ UNCHANGED <<step, attempt>>
       [] OTHER -> Fail
  /\ UNCHANGED <<program, wild, local, told, network, services, sockets, missed>>

-----------------------------------------------------------------------------
(* What is made of an answer.                                              *)

\* extract_port_from_response finds a port number in the text.
HoldsPort(m) ==
  \/ m.step \in {"sign", "evil"} /\ m.value = Granted
  \/ m.step = "hello" /\ m.value \in PortLike

\* main() finds a quoted phrase in the text.
HoldsQuotes(m) ==
  \/ m.step = "packet" /\ m.value = Granted
  \/ m.step = "instruct" /\ m.value \in Quoted

\* Seeded fault: whatever arrives is made use of.
AnyAnswer(m) == TRUE

\* Five bytes are too short for an instruction, any text is long enough; any
\* datagram is long enough for a challenge.
Usable(m) ==
  /\ step \in {"sign", "evil"} => HoldsPort(m)
  /\ step = "instruct" => m.step # "hello"
  /\ step = "packet" => HoldsQuotes(m)

\* recvfrom() takes the first five bytes.
Challenge(m) == IF m.step = "hello" THEN m.value ELSE Noise

\* The last six bytes of the answer; puzzlesolver has made a string of it,
\* which ends at the first zero byte.
Instruction(m) ==
  IF m.step = "instruct" /\ ~(program = "puzzlesolver" /\ m.value \in ZeroBytes)
  THEN m.value ELSE Noise

\* What the answer m changes in what the program has been told.
Learn(m) ==
  /\ signature' = IF step = "hello" THEN Challenge(m) ELSE signature
  /\ instruction' = IF step = "instruct" THEN Instruction(m) ELSE instruction
  /\ secret_hidden_port' =
       IF step = "sign" /\ HoldsPort(m) THEN m.step ELSE secret_hidden_port
  /\ evil_hidden_port' =
       IF step = "evil" /\ HoldsPort(m) THEN m.step ELSE evil_hidden_port
  /\ secret_phrase' =
       IF step = "packet" /\ HoldsQuotes(m) THEN m.step ELSE secret_phrase
  /\ IF program = "chat" /\ step = "hello" /\ m.step = "greet"
     THEN peer' \in {"secret", "other"} ELSE UNCHANGED peer

\* puzzlesolver1 looks at nothing; an unfit answer to a signature may be tried
\* again, an unfit instruction or phrase is the end.
Receive(m) ==
  /\ pc = "wait"
  /\ m.local = local
  /\ replies' = After(replies, m)
  /\ Learn(m)
  /\ IF Usable(m) \/ program = "puzzlesolver1" THEN GoOn
     ELSE IF step \in {"sign", "evil"} THEN TryAgain ELSE Fail
  /\ UNCHANGED <<program, wild, local, requests, services, sockets, missed>>

\* Seeded fault: every program goes on when nothing comes.
AlwaysOn == TRUE

\* puzzlesolver1 reports that nothing came and goes on.
GoesOnUnanswered == program = "puzzlesolver1"

\* recvfrom() ends by its timeout, or at once on a socket that is none.
Timeout ==
  /\ pc = "wait"
  /\ IF GoesOnUnanswered
     THEN GoOn /\ missed' = missed \cup {step}
     ELSE TryAgain /\ UNCHANGED missed
  /\ requests' = Outlives(requests)
  /\ replies' = Outlives(replies)
  /\ UNCHANGED <<program, wild, local, told, services, sockets>>

\* solve_knocking_port returns: see Knocking.
Knock ==
  /\ pc = "send"
  /\ step = "knock"
  /\ GoOn \/ Fail
  /\ UNCHANGED <<program, wild, local, told, network, services, sockets, missed>>

\* send_icmp_bonus fails without its raw socket or when the send fails;
\* whether an answer comes does not matter.
Ping ==
  /\ pc = "send"
  /\ step = "icmp"
  /\ pc' \in {"exit0", "exit1"}
  /\ UNCHANGED <<program, wild, step, attempt, local, told, network, services,
                 sockets, missed>>

Solver ==
  \/ Open
  \/ OpenFails
  \/ Send
  \/ SendFails
  \/ \E m \in replies : Receive(m)
  \/ Timeout
  \/ Knock
  \/ Ping

Next == Solver \/ \E q \in requests : \E v \in Replies(q) : Answer(q, v)

Spec == Init /\ [][Next]_vars

\* The program runs: a blocked recvfrom() ends by its timeout.
FairSpec == Spec /\ WF_vars(Solver)

-----------------------------------------------------------------------------

\* Two sockets have had the same local port.
Reused == \E a, b \in sockets : a.local = b.local /\ a.step # b.step

\* A number read from a second copy of the challenge.
ChallengeAsPort(s) == s = "hello" /\ wild /\ PortLike # {}

\* When main() starts to knock, and until it ends, the ports and the phrase are
\* those the services told for a signature the S.E.C.R.E.T. service confirmed.
\* An answer of another step can only have been taken for it when it was late
\* or repeated, and then it read like a port, held quotes, or reached another
\* socket that was given its local port again.
KnocksWithTold ==
  step \in {"knock", "icmp"} /\ ~(wild /\ Reused) =>
    /\ \/ secret_hidden_port = "sign" /\ signature \in accepted
       \/ ChallengeAsPort(secret_hidden_port)
    /\ evil_hidden_port = "evil"
    /\ \/ secret_phrase = "packet"
       \/ secret_phrase = "instruct" /\ wild /\ Quoted # {}

\* The number a packet should be for: what the checksum service asked for last.
\* The exceptions: a zero byte among the six has cut puzzlesolver's string short,
\* and puzzlesolver1 goes on when it was refused or told nothing.
Fits(v) ==
  \/ v = required /\ v # Noise
  \/ /\ v = Noise
     /\ \/ program = "puzzlesolver" /\ required \in ZeroBytes
        \/ program = "puzzlesolver1" /\ (required = Noise \/ "instruct" \in missed)

\* When datagrams are only lost a packet is for the instruction the checksum
\* service gave last, though each retry is told another one: solve_checksum_port
\* never builds it from an older instruction, from the signature or, but for a
\* zero byte, from other bytes of the answer.
PacketFitsInstruction ==
  ~wild => \A q \in requests : q.step = "packet" => Fits(q.value)

\* What the comments of solve_checksum_port say of its answer
\* (vika5/puzzlesolver.cpp:623 and 630): its last six bytes are the checksum
\* and the address, and they are used.
UsesLastSixBytes ==
  ~wild => \A q \in requests :
             q.step = "packet" /\ program = "puzzlesolver" => q.value = required

\* The S.E.C.R.E.T. service was greeted from a local port to which the scan had
\* left a greeting under way.
GreetingMet ==
  wild /\ \E l \in Locals : {[step |-> "greet", local |-> l],
                             [step |-> "hello", local |-> l]} \subseteq sockets

\* A signature goes to the services only, and its challenge was drawn by the
\* S.E.C.R.E.T. service, unless puzzlesolver1 went on without a challenge or a
\* greeting the scan left under way was taken for one.
SignatureIsDrawn ==
  \A q \in requests :
    /\ q.step = "stray" => GreetingMet
    /\ q.step \in {"sign", "evil", "instruct"} /\ q.value = Noise =>
         \/ program = "puzzlesolver1" /\ "hello" \in missed
         \/ GreetingMet

-----------------------------------------------------------------------------
(* The inductive invariant.                                                *)

\* How far a program comes: only puzzlesolver waits for the phrase and knocks.
CourseInv ==
  /\ program = "chat" => step \in {"hello", "sign"}
  /\ step \in {"knock", "icmp"} => program = "puzzlesolver"
  /\ pc = "wait" =>
       step \in Steps /\ (step = "packet" => program = "puzzlesolver")

\* Datagrams of these steps can be under way in step s.
SoFar(s) ==
  {"greet", "hello"}
    \cup (IF s # "hello" THEN {"sign", "stray"} ELSE {})
    \cup (IF s \notin {"hello", "sign"} THEN {"evil"} ELSE {})
    \cup (IF s \notin {"hello", "sign", "evil"} THEN {"instruct"} ELSE {})
    \cup (IF s \notin {"hello", "sign", "evil", "instruct"} THEN {"packet"}
          ELSE {})

\* A datagram under way belongs to a socket that was opened, as does a step
\* that is past its opening, and to no later step.
SocketInv ==
  /\ \A d \in requests \cup replies :
       /\ [step |-> Opener(d.step), local |-> d.local] \in sockets
       /\ d.step \in SoFar(step)
  /\ step \in Steps /\ (pc \in {"send", "wait"} \/ Opener(step) # step) =>
       [step |-> Opener(step), local |-> local] \in sockets

\* There is one signature once the hello is answered, every later request
\* carries it, and the port is told only when it is confirmed.
SignatureInv ==
  /\ step = "hello" \/ signature # Noise
       \/ (program = "puzzlesolver1" /\ "hello" \in missed)
       \/ GreetingMet
  /\ peer = "other" => GreetingMet
  /\ \A q \in requests :
       /\ q.step = "stray" => peer = "other"
       /\ q.step \in {"sign", "evil", "instruct"} => q.value = signature
       /\ q.step = "packet" => q.value = instruction
  /\ \A r \in replies :
       r.step = "sign" /\ r.value = Granted => signature \in accepted

\* Where puzzlesolver's ports and phrase have come from.
ToldInv ==
  program = "puzzlesolver" =>
    /\ step = "hello" => secret_hidden_port = "unset"
    /\ secret_hidden_port = "sign" => signature \in accepted
    /\ step \notin {"hello", "sign"} =>
         \/ secret_hidden_port = "sign"
         \/ ChallengeAsPort(secret_hidden_port)
    /\ step \notin {"hello", "sign", "evil"} =>
         evil_hidden_port = "evil" \/ (wild /\ Reused)
    /\ step \in {"knock", "icmp"} =>
         \/ secret_phrase = "packet"
         \/ secret_phrase = "instruct" /\ wild /\ Quoted # {}

\* Without a wild network there is at most one datagram under way, of the
\* present step; nobody is given an instruction before its step or without a
\* signature, puzzlesolver is always given one, and the last one given is the
\* one that was received.
LossyInv ==
  /\ pc \in {"open", "send"} => requests = {} /\ replies = {}
  /\ requests = {} \/ replies = {}
  /\ \A q, r \in requests : q = r
  /\ \A q, r \in replies : q = r
  /\ \A d \in requests \cup replies : d.step = step
  /\ step \in {"hello", "sign", "evil"} => required = Noise
  /\ required # Noise => Known(signature)
  /\ \A r \in replies :
       r.step = "instruct" =>
         /\ r.value = required
         /\ program = "puzzlesolver" => required # Noise
  /\ step \in {"hello", "sign", "evil", "instruct"} => instruction = Noise
  /\ step = "packet" => Fits(instruction)

\* Inductive: every step of solver, services and network keeps it.
IInv ==
  /\ TypeOK
  /\ CourseInv
  /\ SocketInv
  /\ SignatureInv
  /\ ToldInv
  /\ ~wild => LossyInv

\* The program ends, whatever the network does.
Returns == <>(pc \in {"exit0", "exit1"})
=============================================================================
