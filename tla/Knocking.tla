------------------------------ MODULE Knocking ------------------------------
(***************************************************************************)
(* solve_knocking_port and knock_hidden_port of vika5/puzzlesolver.cpp: a  *)
(* list of ports is sent, the answer tells a sequence of ports to knock    *)
(* on, every knock is made from a socket of its own, and FINALIZE asks the *)
(* service for a confirmation.  Everything is sent once and waited for     *)
(* once.  The service is known only from the solver's comments (external). *)
(***************************************************************************)
EXTENDS Integers, Sequences

CONSTANTS
  Ports,
  Plans,      \* sequences of ports the service may ask for
  Networks,   \* what wild may be
  Tempers     \* what refuses may be

ASSUME KnockAssumption ==
  /\ Plans \subseteq Seq(Ports)
  /\ <<>> \notin Plans
  /\ Networks \subseteq BOOLEAN
  /\ Tempers \subseteq BOOLEAN

VARIABLES
  pc,
  knock_sequence,
  knock,      \* knocks made so far, the present one included
  requests,   \* datagrams under way to the service
  replies,    \* datagrams under way to the solver
  wild,       \* the network: TRUE when datagrams may also be late, duplicated
              \* and reordered, FALSE when they arrive in time and once, or
              \* never; it does not change
  refuses,    \* service: it answers what it does not like with a text; FALSE
              \* when it is silent instead; does not change
  plan,       \* service: the sequence it asks for; does not change
  progress,   \* service: knocks heard in the order of the plan
  heard       \* history: which of the solver's knocks have been heard

nature == <<wild, refuses, plan>>
service == <<progress, heard>>
vars == <<pc, knock_sequence, knock, requests, replies, nature, service>>

List == [kind |-> "list"]
Knock(i) == [kind |-> "knock", at |-> i]
Finalize == [kind |-> "FINALIZE"]
PlanTold == [kind |-> "plan"]
Thanks(i) == [kind |-> "thanks", at |-> i]
Confirmation == [kind |-> "confirmation"]
Refusal == [kind |-> "refusal"]

Indices == 1..Len(plan)
Knocks == {Knock(i) : i \in Indices}

\* What may arrive at the socket of solve_knocking_port; thanks go to the
\* sockets of the knocks.
ToSolver == {PlanTold, Confirmation, Refusal}

\* Every variable stays in its range.
TypeOK ==
  /\ pc \in {"open", "list", "waitList", "knock", "waitKnock", "finalize",
             "waitFinal", "success", "failed", "aborted"}
  /\ knock_sequence \in {<<>>, plan}
  /\ knock \in 0..Len(knock_sequence)
  /\ requests \subseteq {List, Finalize} \cup Knocks
  /\ replies \subseteq ToSolver \cup {Thanks(i) : i \in Indices}
  /\ wild \in BOOLEAN
  /\ refuses \in BOOLEAN
  /\ plan \in Plans
  /\ progress \in 0..Len(plan)
  /\ heard \subseteq Indices

Init ==
  /\ pc = "open"
  /\ knock_sequence = <<>>
  /\ knock = 0
  /\ requests = {}
  /\ replies = {}
  /\ wild \in Networks
  /\ refuses \in Tempers
  /\ plan \in Plans
  /\ progress = 0
  /\ heard = {}

-----------------------------------------------------------------------------
(* The network.                                                            *)

\* What is left of a set of datagrams when one of them has been delivered.
After(datagrams, m) == IF wild THEN datagrams ELSE datagrams \ {m}

\* What is still under way when a receive timeout has passed.
Outlives(datagrams) == IF wild THEN datagrams ELSE {}

-----------------------------------------------------------------------------
(* The solver.                                                             *)

\* socket() and setsockopt() of solve_knocking_port.
Open ==
  /\ pc = "open"
  /\ pc' \in {"list", "failed"}
  /\ UNCHANGED <<knock_sequence, knock, requests, replies, nature, service>>

\* send_and_receive does not look at the result of sendto().
Sends(m) == requests' \in {requests, requests \cup {m}}

SendList ==
  /\ pc = "list"
  /\ Sends(List)
  /\ pc' = "waitList"
  /\ UNCHANGED <<knock_sequence, knock, replies, nature, service>>

\* The answer is cut at its commas and read by stoi(), which throws on a text.
ReceiveList(m) ==
  /\ pc = "waitList"
  /\ m \in replies \cap ToSolver
  /\ replies' = After(replies, m)
  /\ IF m = PlanTold
     THEN knock_sequence' = plan /\ pc' = "knock"
     ELSE UNCHANGED knock_sequence /\ pc' = "aborted"
  /\ UNCHANGED <<knock, requests, nature, service>>

\* Seeded fault: one knock too many.
KnocksOnceMore == knock <= Len(knock_sequence)

MoreKnocks == knock < Len(knock_sequence)

\* Seeded fault: a knock does not wait for its answer.
GoesOn == "knock"

AfterSend == "waitKnock"

\* Seeded fault: the loop does not move on to the next port.
SamePort == knock

NextPort == knock + 1

KnockNext ==
  /\ pc = "knock"
  /\ MoreKnocks
  /\ knock' = NextPort
  /\ Sends(Knock(knock'))
  /\ pc' = AfterSend
  /\ UNCHANGED <<knock_sequence, replies, nature, service>>

\* knock_hidden_port returns false, and the loop does not look at it.
KnockFails ==
  /\ pc = "knock"
  /\ MoreKnocks
  /\ knock' = NextPort
  /\ UNCHANGED <<pc, knock_sequence, requests, replies, nature, service>>

\* The answer to a knock is not looked at either.
ReceiveThanks ==
  /\ pc = "waitKnock"
  /\ Thanks(knock) \in replies
  /\ replies' = After(replies, Thanks(knock))
  /\ pc' = "knock"
  /\ UNCHANGED <<knock_sequence, knock, requests, nature, service>>

AllKnocked ==
  /\ pc = "knock"
  /\ ~MoreKnocks
  /\ pc' = "finalize"
  /\ UNCHANGED <<knock_sequence, knock, requests, replies, nature, service>>

SendFinalize ==
  /\ pc = "finalize"
  /\ Sends(Finalize)
  /\ pc' = "waitFinal"
  /\ UNCHANGED <<knock_sequence, knock, replies, nature, service>>

\* Any answer is success.
ReceiveFinal(m) ==
  /\ pc = "waitFinal"
  /\ m \in replies \cap ToSolver
  /\ replies' = After(replies, m)
  /\ pc' = "success"
  /\ UNCHANGED <<knock_sequence, knock, requests, nature, service>>

\* Seeded fault: no answer to FINALIZE is success as well.
NoAnswerSucceeds == IF pc = "waitKnock" THEN "knock" ELSE "success"

NoAnswer == IF pc = "waitKnock" THEN "knock" ELSE "failed"

\* SO_RCVTIMEO passes.
Timeout ==
  /\ pc \in {"waitList", "waitKnock", "waitFinal"}
  /\ pc' = NoAnswer
  /\ requests' = Outlives(requests)
  /\ replies' = Outlives(replies)
  /\ UNCHANGED <<knock_sequence, knock, nature, service>>

Solver ==
  \/ Open
  \/ SendList
  \/ KnockNext
  \/ KnockFails
  \/ ReceiveThanks
  \/ AllKnocked
  \/ SendFinalize
  \/ \E m \in replies : ReceiveList(m) \/ ReceiveFinal(m)
  \/ Timeout

-----------------------------------------------------------------------------
(* The service.                                                            *)

Displeased == IF refuses THEN {Refusal} ELSE {}

\* It likes the ports of the list or not.
HearList ==
  /\ List \in requests
  /\ requests' = After(requests, List)
  /\ replies' \in {replies \cup {PlanTold}, replies \cup Displeased}
  /\ UNCHANGED <<pc, knock_sequence, knock, nature, service>>

\* A knock on the port that is due is progress.
HearKnock(i) ==
  /\ Knock(i) \in requests
  /\ requests' = After(requests, Knock(i))
  /\ replies' \in {replies, replies \cup {Thanks(i)}}
  /\ heard' = heard \cup {i}
  /\ progress' = IF progress < Len(plan) /\ plan[progress + 1] = plan[i]
                 THEN progress + 1 ELSE progress
  /\ UNCHANGED <<pc, knock_sequence, knock, nature>>

HearFinalize ==
  /\ Finalize \in requests
  /\ requests' = After(requests, Finalize)
  /\ replies' = replies \cup (IF progress = Len(plan) THEN {Confirmation}
                                                      ELSE Displeased)
  /\ UNCHANGED <<pc, knock_sequence, knock, nature, service>>

Service == HearList \/ HearFinalize \/ \E i \in Indices : HearKnock(i)

Next == Solver \/ Service

Spec == Init /\ [][Next]_vars

\* The solver runs: a blocked recvfrom() ends by its timeout.
FairSpec == Spec /\ WF_vars(Solver)

-----------------------------------------------------------------------------

\* When the loop has ended, every port the service asked for has been knocked
\* on in its order, exactly if no knock has been lost: waiting for the answer
\* to a knock keeps the next one from overtaking it, unless the network delays
\* or duplicates more than the wait is long.
CompleteUnlessKnockLost ==
  ~wild /\ pc \in {"finalize", "waitFinal", "success"} =>
    (progress = Len(plan) <=> heard = Indices)

\* The port is reported solved only if the service has heard the sequence,
\* unless the answer that was taken for the confirmation was a refusal or a
\* second copy of the plan.
SuccessIsComplete ==
  pc = "success" => progress = Len(plan) \/ refuses \/ wild

\* solve_knocking_port returns, or ends the program by the exception of stoi().
Returns == <>(pc \in {"success", "failed", "aborted"})

-----------------------------------------------------------------------------
(* The inductive invariant.                                                *)

\* Where the network only loses, what is under way belongs to the present
\* call of send_and_receive: its datagram or the answer.
NetworkInv ==
  /\ pc \in {"open", "list", "knock", "finalize"} =>
       requests = {} /\ replies = {}
  /\ pc = "waitList" =>
       \/ requests = {} /\ replies \in {{}, {PlanTold}, {Refusal}}
       \/ requests = {List} /\ replies = {}
  /\ pc = "waitKnock" =>
       \/ requests = {} /\ replies \subseteq {Thanks(knock)}
       \/ requests = {Knock(knock)} /\ replies = {}
  /\ pc = "waitFinal" =>
       requests \subseteq {Finalize} /\ replies \subseteq {Confirmation, Refusal}
  /\ pc \in {"success", "failed", "aborted"} => requests \cap Knocks = {}
  /\ Confirmation \in replies => progress = Len(plan)
  /\ Refusal \in replies => refuses

\* Where the network only loses, progress is complete exactly when no knock
\* made so far is missing, before and after a knock under way is heard.
KnockInv ==
  /\ pc \in {"finalize", "waitFinal", "success"} => knock = Len(plan)
  /\ progress <= knock
  /\ heard \subseteq 1..knock
  /\ progress = knock <=> heard = 1..knock
  /\ pc = "waitKnock" /\ requests # {} =>
       /\ progress < knock
       /\ knock \notin heard
       /\ progress = knock - 1 <=> heard = 1..(knock - 1)

\* The solver knocks on what it was told.
SequenceInv ==
  /\ pc \in {"open", "list", "waitList"} => knock_sequence = <<>>
  /\ pc \in {"knock", "waitKnock", "finalize", "waitFinal", "success"} =>
       knock_sequence = plan
  /\ pc = "waitKnock" => knock > 0

\* Inductive: every step of solver, service and network keeps it.
IInv ==
  /\ TypeOK
  /\ SequenceInv
  /\ ~wild => NetworkInv /\ KnockInv
  /\ SuccessIsComplete
=============================================================================
