---------------------------- MODULE SolverExchange ----------------------------
(***************************************************************************)
(* The first two steps of puzzlesolver's course are the call of            *)
(* solve_secret_port that SecretPort models by itself: one loop turn after *)
(* the other, before the other services, their sockets and their           *)
(* datagrams come in, and untouched by them afterwards.                    *)
(***************************************************************************)
EXTENDS PuzzleSolver

\* An answer to the scan may reach the socket of the first exchange.
Greeted == \E s \in sockets : s.step = "greet"

\* The loop has been left: the return is all that is missing.
Exhausted == pc = "exit1" /\ attempt # 0

\* Where solve_secret_port is.
ExchangePc ==
  CASE step = "hello" /\ Exhausted -> "step1"
    [] step = "hello" /\ pc = "open" -> "setup"
    [] step = "hello" /\ pc = "send" -> "step1"
    [] step = "hello" /\ pc = "wait" -> "wait1"
    [] step = "sign" /\ (pc = "send" \/ Exhausted) -> "step2"
    [] step = "sign" /\ pc = "wait" -> "wait2"
    [] step \notin {"hello", "sign"} -> "solved"
    [] OTHER -> "failed"

\* The loops of the later exchanges have counters of their own.
ExchangeAttempt ==
  IF step \notin {"hello", "sign"} THEN 0
  ELSE IF Exhausted THEN 3 ELSE attempt

AnyPort == 4025

\* What has been made of the service's answer; a number read from a challenge
\* is another one.
ExchangePort ==
  CASE secret_hidden_port = "sign" -> AnyPort
    [] secret_hidden_port = "hello" -> AnyPort + 1
    [] OTHER -> -1

\* A request to the S.E.C.R.E.T. service and an answer from it.
ExchangeRequest(q) ==
  IF q.step = "hello" THEN [kind |-> "S"]
  ELSE [kind |-> "signature", challenge |-> q.value]

ExchangeReply(r) ==
  IF r.step = "hello" THEN [kind |-> "challenge", challenge |-> r.value]
  ELSE IF r.value = Granted THEN [kind |-> "port"] ELSE [kind |-> "refusal"]

\* The datagrams of the exchange among those under way.
OfExchange(datagrams) == {d \in datagrams : d.step \in {"hello", "sign"}}

ExchangeRequests == {ExchangeRequest(q) : q \in OfExchange(requests)}
ExchangeReplies == {ExchangeReply(r) : r \in OfExchange(replies)}

Exchange == INSTANCE SecretPort
  WITH HiddenPort <- AnyPort, MaxAttempts <- 3,
       pc <- ExchangePc, attempt <- ExchangeAttempt,
       secret_hidden_port <- ExchangePort,
       requests <- ExchangeRequests, replies <- ExchangeReplies

-----------------------------------------------------------------------------

\* puzzlesolver's course implements the exchange modelled by itself: unless
\* the scan has left a greeting under way, which SecretPort knows nothing of,
\* every step is a step of solve_secret_port, of its service, or of neither.
PlaysExchange ==
  [][program = "puzzlesolver" /\ ~Greeted => Exchange!Next]_(Exchange!vars)

\* What puzzlesolver keeps to, besides PuzzleSolver!IInv, when no greeting
\* reaches it: who it talks to, how a loop that failed was left, and that the
\* port is unset until the exchange is over.
ExchangeInv ==
  program = "puzzlesolver" /\ ~Greeted =>
    /\ peer = "secret"
    /\ \A d \in requests \cup replies : d.step \notin {"greet", "stray"}
    /\ pc = "open" => attempt = 0
    /\ step \in {"hello", "sign"} =>
         /\ secret_hidden_port = "unset" /\ pc # "exit0"
         /\ pc = "exit1" => attempt = 2 \/ (attempt = 0 /\ step = "hello")
    /\ step = "sign" => pc # "open"
    /\ step # "hello" => signature \in Challenges
===============================================================================
