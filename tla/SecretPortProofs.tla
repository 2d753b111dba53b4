-------------------------- MODULE SecretPortProofs --------------------------
(***************************************************************************)
(* Theorems about the S.E.C.R.E.T. exchange, for any set of challenges and *)
(* any number of attempts.                                                 *)
(***************************************************************************)
EXTENDS SecretPort, TLAPS

\* Datagrams of different kinds, or with different challenges, differ.
LEMMA Kinds ==
  /\ Port \notin ChallengeReplies /\ Refusal \notin ChallengeReplies
  /\ Refusal # Port
  /\ \A c : Hello # Signature(c) /\ Port # Challenge(c)
  /\ \A c, d : Signature(c) = Signature(d) => c = d
  /\ \A c, d : Challenge(c) = Challenge(d) => c = d
<1>1. /\ Hello.kind = "S" /\ Port.kind = "port" /\ Refusal.kind = "refusal"
      /\ \A c : Signature(c).kind = "signature" /\ Signature(c).challenge = c
      /\ \A c : Challenge(c).kind = "challenge" /\ Challenge(c).challenge = c
  BY DEF Hello, Port, Refusal, Signature, Challenge
<1>2. \A m \in ChallengeReplies : m.kind = "challenge"
  BY <1>1 DEF ChallengeReplies
<1>3. /\ \A c : Hello # Signature(c) /\ Port # Challenge(c)
      /\ Refusal # Port
  BY <1>1
<1>4. /\ \A c, d : Signature(c) = Signature(d) => c = d
      /\ \A c, d : Challenge(c) = Challenge(d) => c = d
  BY <1>1
<1>5. Port \notin ChallengeReplies /\ Refusal \notin ChallengeReplies
  BY <1>1, <1>2
<1> QED BY <1>3, <1>4, <1>5

\* The network never makes a datagram up.
LEMMA NetworkShrinks ==
  ASSUME NEW D, NEW m
  PROVE  After(D, m) \subseteq D /\ Outlives(D) \subseteq D
BY DEF After, Outlives

\* The first step's answers are none of the second's.
LEMMA AnswersDiffer ==
  ASSUME NEW c
  PROVE  Challenge(c) \notin {Port, Refusal}
<1>1. Challenge(c).kind = "challenge" /\ Port.kind = "port"
      /\ Refusal.kind = "refusal"
  BY DEF Challenge, Port, Refusal
<1> QED BY <1>1

\* main() enters solve_secret_port with nothing under way.
LEMMA InitInv == Init => IInv
BY ServiceAssumption, SolverAssumption
   DEF Init, IInv, TypeOK, LoopInv, ConfirmInv, LossyInv, SignatureIsCurrent,
       SolvedIsConfirmed

\* The service draws a challenge: an answer to a hello.
LEMMA DrawStep ==
  ASSUME IInv, NEW c \in Challenges, DrawChallenge(c)
  PROVE  IInv'
<1> USE DEF IInv, DrawChallenge
<1>1. /\ Challenge(c) \in ChallengeReplies
      /\ requests' \subseteq requests
      /\ Port \in replies' => Port \in replies
  BY NetworkShrinks, Kinds DEF ChallengeReplies
<1>2. TypeOK'
  BY <1>1 DEF TypeOK
<1>3. LoopInv' /\ SolvedIsConfirmed'
  BY DEF LoopInv, SolvedIsConfirmed, AttemptsLeft
<1>4. ConfirmInv'
  BY <1>1 DEF ConfirmInv
<1>5. ~wild' => LossyInv'
  <2> SUFFICES ASSUME ~wild PROVE LossyInv'
    OBVIOUS
  <2>1. Hello \notin requests'
    BY DEF After
  <2>2. pc \notin {"setup", "step1", "step2", "wait2", "solved"}
    BY DEF LossyInv
  <2>3. pc = "wait1" => replies' = {Challenge(c)}
    BY DEF LossyInv
  <2> QED BY <1>1, <2>1, <2>2, <2>3 DEF LossyInv, SignatureIsCurrent
<1> QED BY <1>2, <1>3, <1>4, <1>5

\* The service checks a signature: the solver sends one, so it is in step 2.
LEMMA CheckStep ==
  ASSUME IInv, NEW c \in Challenges, CheckSignature(c)
  PROVE  IInv'
<1> USE DEF IInv, CheckSignature
<1>1. c = signature /\ pc \notin {"setup", "step1", "wait1"}
  BY Kinds DEF ConfirmInv
<1>2. /\ requests' \subseteq requests
      /\ replies' \subseteq replies \cup {Port, Refusal}
      /\ accepted' \in SUBSET Challenges /\ accepted \subseteq accepted'
  BY NetworkShrinks DEF TypeOK
<1>3. Port \in replies' => signature' \in accepted'
  BY <1>1, Kinds DEF ConfirmInv
<1>4. TypeOK'
  BY <1>2 DEF TypeOK
<1>5. LoopInv' /\ SolvedIsConfirmed'
  BY <1>2 DEF LoopInv, SolvedIsConfirmed, AttemptsLeft
<1>6. ConfirmInv'
  BY <1>1, <1>2, <1>3 DEF ConfirmInv
<1>7. ~wild' => LossyInv'
  BY <1>1, <1>2 DEF LossyInv, SignatureIsCurrent
<1> QED BY <1>4, <1>5, <1>6, <1>7

\* The solver reads a challenge, which ends step 1.
LEMMA ChallengeStep ==
  ASSUME IInv, NEW c \in Challenges, ReceiveChallenge(c)
  PROVE  IInv'
<1> USE ServiceAssumption, SolverAssumption
    DEF IInv, ReceiveChallenge, environment
<1>1. replies' \subseteq replies /\ Port \notin replies'
  BY NetworkShrinks, Kinds DEF ConfirmInv
<1>2. TypeOK'
  BY <1>1 DEF TypeOK
<1>3. LoopInv' /\ SolvedIsConfirmed'
  BY DEF LoopInv, SolvedIsConfirmed
<1>4. ConfirmInv'
  BY <1>1 DEF ConfirmInv
<1>5. ~wild' => LossyInv'
  <2> SUFFICES ASSUME ~wild PROVE LossyInv'
    OBVIOUS
  <2>1. replies = {Challenge(expected)} /\ Challenge(c) = Challenge(expected)
    BY DEF LossyInv
  <2>2. c = expected /\ Hello \notin requests /\ replies' = {}
    BY <2>1, Kinds DEF LossyInv, After
  <2> QED BY <2>2 DEF LossyInv, SignatureIsCurrent
<1> QED BY <1>2, <1>3, <1>4, <1>5

\* The solver reads a datagram in step 2.
LEMMA PortStep ==
  ASSUME IInv, NEW m \in replies, ReceivePort(m)
  PROVE  IInv'
<1> USE ServiceAssumption, SolverAssumption
    DEF IInv, ReceivePort, environment
<1>1. replies' \subseteq replies
  BY NetworkShrinks
<1>2. Extracted(m) \in Int
  BY DEF Extracted
<1>3. TypeOK'
  BY <1>1, <1>2 DEF TypeOK, LoopInv, AttemptsLeft
<1>4. LoopInv'
  BY DEF LoopInv
<1>5. ConfirmInv'
  BY <1>1 DEF ConfirmInv
<1>6. ~wild' => LossyInv'
  BY <1>1 DEF LossyInv, SignatureIsCurrent
<1>7. SolvedIsConfirmed'
  <2> SUFFICES ASSUME pc' = "solved" PROVE SolvedIsConfirmed'
    BY DEF SolvedIsConfirmed
  <2>1. secret_hidden_port' = Extracted(m) /\ Extracted(m) > 0
    BY DEF Solves
  <2>2. CASE m = Port
    BY <2>1, <2>2 DEF Extracted, ConfirmInv, SolvedIsConfirmed
  <2>3. CASE m # Port
    <3>1. PICK c \in PortLike : m = Challenge(c)
      BY <2>1, <2>3 DEF Extracted
    <3>2. wild
      BY <3>1, AnswersDiffer DEF LossyInv
    <3>3. Extracted(m) = HiddenPort + 1
      BY <2>3, <3>1 DEF Extracted
    <3> QED BY <2>1, <3>1, <3>2, <3>3 DEF SolvedIsConfirmed
  <2> QED BY <2>2, <2>3
<1> QED BY <1>3, <1>4, <1>5, <1>6, <1>7

\* A receive timeout passes: the attempt is repeated, or the loop ends.
LEMMA TimeoutStep ==
  ASSUME IInv, Timeout
  PROVE  IInv'
<1> USE SolverAssumption DEF IInv, Timeout, RetryStep, environment
<1>1. replies' \subseteq replies /\ requests' \subseteq requests
  BY NetworkShrinks
<1>2. TypeOK'
  BY <1>1 DEF TypeOK, NextAttempt, LoopInv, AttemptsLeft
<1>3. LoopInv' /\ SolvedIsConfirmed'
  BY DEF LoopInv, SolvedIsConfirmed
<1>4. ConfirmInv'
  BY <1>1 DEF ConfirmInv
<1>5. ~wild' => LossyInv'
  BY <1>1 DEF LossyInv, SignatureIsCurrent, Outlives
<1> QED BY <1>2, <1>3, <1>4, <1>5

\* The calls that receive nothing.
LEMMA SendStep ==
  ASSUME IInv, Open \/ GiveUp \/ SendHello \/ SendSignature \/ SendFails
  PROVE  IInv'
<1> USE SolverAssumption
    DEF IInv, TypeOK, LoopInv, ConfirmInv, LossyInv, SignatureIsCurrent,
        SolvedIsConfirmed, AttemptsLeft, environment
<1>1. CASE Open
  BY <1>1 DEF Open
<1>2. CASE GiveUp
  BY <1>2 DEF GiveUp
<1>3. CASE SendHello
  BY <1>3 DEF SendHello
<1>4. CASE SendSignature
  <2>1. Signature(signature) \in Signatures /\ Signature(signature) # Hello
    BY <1>4, Kinds DEF SendSignature, Signatures
  <2> QED BY <1>4, <2>1 DEF SendSignature
<1>5. CASE SendFails
  BY <1>5 DEF SendFails
<1> QED BY <1>1, <1>2, <1>3, <1>4, <1>5

\* The invariant of the exchange, over either network.
THEOREM Invariance == Spec => []IInv
<1>1. IInv /\ UNCHANGED vars => IInv'
  BY DEF IInv, TypeOK, LoopInv, ConfirmInv, LossyInv, SignatureIsCurrent,
         SolvedIsConfirmed, AttemptsLeft, vars, environment
<1>2. IInv /\ [Next]_vars => IInv'
  BY <1>1, DrawStep, CheckStep, ChallengeStep, PortStep, TimeoutStep, SendStep
     DEF Next, Solver, Service
<1> QED BY <1>2, InitInv, PTL DEF Spec

\* Every variable stays in its range: neither loop runs a fourth time, and no
\* datagram is made up.
THEOREM TypeCorrect == Spec => []TypeOK
<1>1. IInv => TypeOK
  BY DEF IInv
<1> QED BY <1>1, Invariance, PTL

\* solve_secret_port reports success only with the service's port and a
\* confirmed signature, for any challenges and any number of attempts, unless
\* a network that reorders brings it a challenge that reads like a port.
THEOREM SolvedConfirmed == Spec => []SolvedIsConfirmed
<1>1. IInv => SolvedIsConfirmed
  BY DEF IInv
<1> QED BY <1>1, Invariance, PTL

\* Lost datagrams alone never leave the solver with a signature the service
\* does not expect, so that every retry of step 2 can still succeed.
THEOREM LossIsHarmless == Spec => []LossIsRetried
<1>1. IInv => LossIsRetried
  BY DEF IInv, LossIsRetried, LossyInv
<1> QED BY <1>1, Invariance, PTL

-----------------------------------------------------------------------------
(* The function comes to an end.                                           *)

\* A bound on what solve_secret_port has still to do: two steps an attempt.
Rank ==
  LET attempts == MaxAttempts - attempt
  IN  CASE pc = "setup" -> 4 * MaxAttempts + 4
        [] pc = "step1" -> 2 * MaxAttempts + 2 * attempts + 3
        [] pc = "wait1" -> 2 * MaxAttempts + 2 * attempts + 2
        [] pc = "step2" -> 2 * attempts + 1
        [] pc = "wait2" -> 2 * attempts
        [] OTHER -> 0

\* While the function has not returned there is something left to count down.
RankInv == Rank \in Nat /\ (Rank = 0 <=> pc \in {"solved", "failed"})

\* Every step of the function counts down; nothing the service or the network
\* does gives it more to do.
RankFalls == [][/\ Solver => Rank' < Rank
                /\ Service => Rank' = Rank]_vars

LEMMA RankIsNatural == IInv => RankInv
<1> SUFFICES ASSUME IInv PROVE RankInv
  OBVIOUS
<1>1. /\ MaxAttempts \in Nat /\ attempt \in Nat
      /\ MaxAttempts - attempt \in Nat
      /\ pc \in {"wait1", "wait2"} => MaxAttempts - attempt > 0
      /\ pc \in {"setup", "step1", "wait1", "step2", "wait2", "solved", "failed"}
  BY SolverAssumption DEF IInv, TypeOK, LoopInv, AttemptsLeft
<1> QED BY <1>1 DEF RankInv, Rank

LEMMA SolverCounts == IInv /\ Solver => Rank' < Rank
<1> SUFFICES ASSUME IInv, Solver PROVE Rank' < Rank
  OBVIOUS
<1>1. /\ MaxAttempts \in Nat /\ attempt \in Nat /\ attempt <= MaxAttempts
      /\ pc \in {"wait1", "wait2"} => attempt < MaxAttempts
  BY SolverAssumption DEF IInv, TypeOK, LoopInv, AttemptsLeft
<1>2. CASE Open
  BY <1>1, <1>2 DEF Open, Rank
<1>3. CASE GiveUp
  BY <1>1, <1>3 DEF GiveUp, Rank
<1>4. CASE SendHello \/ SendSignature
  BY <1>1, <1>4 DEF SendHello, SendSignature, Rank
<1>5. CASE SendFails
  BY <1>1, <1>5 DEF SendFails, AttemptsLeft, Rank
<1>6. CASE \E c \in Challenges : ReceiveChallenge(c)
  BY <1>1, <1>6 DEF ReceiveChallenge, Rank
<1>7. CASE \E m \in replies : ReceivePort(m)
  BY <1>1, <1>7 DEF ReceivePort, Rank
<1>8. CASE Timeout
  BY <1>1, <1>8 DEF Timeout, NextAttempt, RetryStep, Rank
<1> QED BY <1>2, <1>3, <1>4, <1>5, <1>6, <1>7, <1>8 DEF Solver

\* solve_secret_port makes a bounded number of steps, whatever the service
\* and the network do: no more than 16 with its three attempts.
THEOREM CountsDown == Spec => []RankInv /\ RankFalls
<1>1. Service => Rank' = Rank
  BY DEF Service, DrawChallenge, CheckSignature, Rank
<1>2. IInv /\ [Next]_vars => [/\ Solver => Rank' < Rank
                              /\ Service => Rank' = Rank]_vars
  BY <1>1, SolverCounts
<1> QED BY <1>2, RankIsNatural, Invariance, PTL DEF Spec, RankFalls
=============================================================================
