----------------------------- MODULE SecretPort -----------------------------
(***************************************************************************)
(* solve_secret_port of vika5/puzzlesolver.cpp: the two request/answer     *)
(* exchanges with the S.E.C.R.E.T. service over one unconnected UDP socket *)
(* and the service itself, which is known only from what the solver's      *)
(* comments and calls say of it (external).                                *)
(*                                                                         *)
(* A signature is the pair of the challenge and the secret number it is    *)
(* XORed from: with one secret, XOR tells challenges apart.  Texts are     *)
(* abstracted to the number extract_port_from_response finds in them.      *)
(***************************************************************************)
EXTENDS Integers

CONSTANTS
  Challenges,      \* challenge numbers the service may draw
  PortLike,        \* challenges whose bytes, read as text, hold a port number
  HiddenPort,      \* the port number the service tells
  MaxAttempts,     \* iterations of either retry loop: 3
  Networks         \* what wild may be

ASSUME ServiceAssumption ==
  /\ PortLike \subseteq Challenges
  /\ HiddenPort \in 1025..65535
  /\ 0 \notin Challenges
ASSUME SolverAssumption == MaxAttempts \in Nat /\ Networks \subseteq BOOLEAN

VARIABLES
  pc,            \* where solve_secret_port is
  attempt,
  signature,     \* the challenge in it, or 0 while it is not set
  secret_hidden_port,
  requests,      \* datagrams under way to the service
  replies,       \* datagrams under way to the solver's socket
  wild,          \* the network: TRUE when datagrams may also be late, duplicated
                 \* and reordered, FALSE when they arrive in time and once, or
                 \* never; it does not change
  expected,      \* service: the challenge it last drew for this solver, or 0
  accepted       \* service: the challenges whose signature it confirmed

environment == <<wild, expected, accepted>>
vars == <<pc, attempt, signature, secret_hidden_port, requests, replies,
          environment>>

Hello == [kind |-> "S"]
Signature(c) == [kind |-> "signature", challenge |-> c]
Challenge(c) == [kind |-> "challenge", challenge |-> c]
Port == [kind |-> "port"]
Refusal == [kind |-> "refusal"]

Signatures == {Signature(c) : c \in Challenges}
ChallengeReplies == {Challenge(c) : c \in Challenges}

\* Every variable stays in its range.
TypeOK ==
  /\ pc \in {"setup", "step1", "wait1", "step2", "wait2", "solved", "failed"}
  /\ attempt \in 0..MaxAttempts
  /\ signature \in Challenges \cup {0}
  /\ secret_hidden_port \in Int
  /\ requests \subseteq {Hello} \cup Signatures
  /\ replies \subseteq ChallengeReplies \cup {Port, Refusal}
  /\ wild \in BOOLEAN
  /\ expected \in Challenges \cup {0}
  /\ accepted \subseteq Challenges

Init ==
  /\ pc = "setup"
  /\ attempt = 0
  /\ signature = 0
  /\ secret_hidden_port = -1
  /\ requests = {}
  /\ replies = {}
  /\ wild \in Networks
  /\ expected = 0
  /\ accepted = {}

-----------------------------------------------------------------------------
(* The network.                                                            *)

\* What is left of a set of datagrams when one of them has been delivered.
After(datagrams, m) == IF wild THEN datagrams ELSE datagrams \ {m}

\* What is still under way when a receive timeout has passed.
Outlives(datagrams) == IF wild THEN datagrams ELSE {}

-----------------------------------------------------------------------------
(* The solver.                                                             *)

\* socket() and setsockopt(), with the secret number drawn before them.
Open ==
  /\ pc = "setup"
  /\ pc' \in {"step1", "failed"}
  /\ UNCHANGED <<attempt, signature, secret_hidden_port, requests, replies,
                 environment>>

\* Seeded fault: the loops run once more than they should.
OneMoreAttempt == attempt <= MaxAttempts

\* The condition of either loop.
AttemptsLeft == attempt < MaxAttempts

\* The end of either loop when the attempts are used up.
GiveUp ==
  /\ pc \in {"step1", "step2"}
  /\ ~AttemptsLeft
  /\ pc' = "failed"
  /\ UNCHANGED <<attempt, signature, secret_hidden_port, requests, replies,
                 environment>>

\* sendto() of step 2, 5 or a failure of either, which costs an attempt.
SendHello ==
  /\ pc = "step1"
  /\ AttemptsLeft
  /\ requests' = requests \cup {Hello}
  /\ pc' = "wait1"
  /\ UNCHANGED <<attempt, signature, secret_hidden_port, replies, environment>>

SendSignature ==
  /\ pc = "step2"
  /\ AttemptsLeft
  /\ requests' = requests \cup {Signature(signature)}
  /\ pc' = "wait2"
  /\ UNCHANGED <<attempt, signature, secret_hidden_port, replies, environment>>

SendFails ==
  /\ pc \in {"step1", "step2"}
  /\ AttemptsLeft
  /\ attempt' = attempt + 1
  /\ UNCHANGED <<pc, signature, secret_hidden_port, requests, replies,
                 environment>>

\* Five bytes: a signature is formed and the retry counter starts afresh.
ReceiveChallenge(c) ==
  /\ pc = "wait1"
  /\ Challenge(c) \in replies
  /\ signature' = c
  /\ replies' = After(replies, Challenge(c))
  /\ attempt' = 0
  /\ pc' = "step2"
  /\ UNCHANGED <<secret_hidden_port, requests, environment>>

\* extract_port_from_response on the text of a datagram.  A challenge that
\* arrives again is five bytes of text like any other.
Extracted(m) ==
  IF m = Port THEN HiddenPort
  ELSE IF m \in {Challenge(c) : c \in PortLike} THEN HiddenPort + 1 ELSE -1

\* Seeded fault: any answer at all ends step 2.
AnyAnswerSolves(p) == TRUE

Solves(p) == p > 0

\* With the return the loop's counter is gone.
ReceivePort(m) ==
  /\ pc = "wait2"
  /\ m \in replies
  /\ secret_hidden_port' = Extracted(m)
  /\ replies' = After(replies, m)
  /\ IF Solves(secret_hidden_port')
     THEN pc' = "solved" /\ attempt' = 0
     ELSE pc' = "step2" /\ attempt' = attempt + 1
  /\ UNCHANGED <<signature, requests, environment>>

\* Seeded fault: a timeout in step 1 is not told from an answer.
TimeoutGoesOn == "step2"

\* Seeded fault: the loop's counter is not advanced.
SameAttempt == attempt

NextAttempt == attempt + 1

RetryStep == IF pc = "wait1" THEN "step1" ELSE "step2"

\* SO_RCVTIMEO passes with nothing in the socket's buffer.
Timeout ==
  /\ pc \in {"wait1", "wait2"}
  /\ attempt' = NextAttempt
  /\ pc' = RetryStep
  /\ requests' = Outlives(requests)
  /\ replies' = Outlives(replies)
  /\ UNCHANGED <<signature, secret_hidden_port, environment>>

Solver ==
  \/ Open
  \/ GiveUp
  \/ SendHello
  \/ SendSignature
  \/ SendFails
  \/ \E c \in Challenges : ReceiveChallenge(c)
  \/ \E m \in replies : ReceivePort(m)
  \/ Timeout

-----------------------------------------------------------------------------
(* The service.                                                            *)

\* "I will reply with a 5-byte message": a challenge, possibly a new one.
DrawChallenge(c) ==
  /\ Hello \in requests
  /\ requests' = After(requests, Hello)
  /\ replies' = replies \cup {Challenge(c)}
  /\ expected' = c
  /\ UNCHANGED <<pc, attempt, signature, secret_hidden_port, wild,
                 accepted>>

\* "If your signature is correct, I will respond with a secret port number."
CheckSignature(c) ==
  /\ Signature(c) \in requests
  /\ requests' = After(requests, Signature(c))
  /\ IF c = expected
     THEN /\ replies' = replies \cup {Port}
          /\ accepted' = accepted \cup {c}
     ELSE /\ replies' = replies \cup {Refusal}
          /\ UNCHANGED accepted
  /\ UNCHANGED <<pc, attempt, signature, secret_hidden_port, wild,
                 expected>>

Service == \E c \in Challenges : DrawChallenge(c) \/ CheckSignature(c)

Next == Solver \/ Service

Spec == Init /\ [][Next]_vars

\* The solver's process runs: a blocked recvfrom() ends by its timeout.
FairSpec == Spec /\ WF_vars(Solver)

-----------------------------------------------------------------------------

\* Whatever was late, duplicated or reordered on the way, solve_secret_port
\* returns true only with the port the service told and a signature it
\* confirmed; the one exception is a challenge, late or repeated, whose bytes
\* read like a port number, and it takes a network that does more than lose.
SolvedIsConfirmed ==
  pc = "solved" =>
    \/ secret_hidden_port = HiddenPort /\ signature \in accepted
    \/ wild /\ PortLike # {} /\ secret_hidden_port = HiddenPort + 1

\* The signature step 2 keeps sending is for the challenge the service last
\* drew: "multiple retry mechanisms to handle potential packet loss".
SignatureIsCurrent ==
  pc \in {"step2", "wait2", "solved"} => signature = expected

\* When datagrams are only lost, the retries of step 1 keep it so.
LossIsRetried == ~wild => SignatureIsCurrent

\* A wait belongs to an attempt of its loop, and step 2 has a signature.
LoopInv ==
  /\ pc \in {"wait1", "wait2"} => AttemptsLeft
  /\ pc \in {"step2", "wait2", "solved"} => signature \in Challenges

\* Until step 2 the service has heard of no signature, and from then on of one
\* only, so a port that is under way was told for it.
ConfirmInv ==
  /\ pc \in {"setup", "step1", "wait1"} =>
       requests \subseteq {Hello} /\ replies \subseteq ChallengeReplies
  /\ requests \subseteq {Hello, Signature(signature)}
  /\ Port \in replies => signature \in accepted

\* While the answer to the hello of an attempt is awaited the hello or one
\* challenge is under way, never both, and neither survives step 1.
LossyInv ==
  /\ pc \in {"setup", "step1"} => requests = {} /\ replies = {}
  /\ pc = "wait1" =>
       /\ requests \subseteq {Hello}
       /\ replies \subseteq {Challenge(expected)}
       /\ Hello \in requests => replies = {}
  /\ pc \in {"step2", "wait2", "solved"} =>
       Hello \notin requests /\ replies \subseteq {Port, Refusal}
  /\ SignatureIsCurrent

\* Inductive: every step of solver, service and network keeps it.
IInv ==
  /\ TypeOK
  /\ LoopInv
  /\ ConfirmInv
  /\ ~wild => LossyInv
  /\ SolvedIsConfirmed

\* Whatever the network does the function returns.
Returns == <>(pc \in {"solved", "failed"})
=============================================================================
