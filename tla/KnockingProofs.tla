--------------------------- MODULE KnockingProofs ---------------------------
(***************************************************************************)
(* Theorems about the port knocking, for sequences of any length and       *)
(* content.                                                                *)
(***************************************************************************)
EXTENDS Knocking, TLAPS

\* Datagrams of different kinds, or of different knocks, differ.
LEMMA Kinds ==
  /\ List # Finalize /\ PlanTold # Confirmation /\ PlanTold # Refusal
  /\ Confirmation # Refusal
  /\ \A i : Knock(i) # List /\ Knock(i) # Finalize
  /\ \A i : Thanks(i) \notin ToSolver
  /\ \A i, j : Knock(i) = Knock(j) => i = j
<1>1. /\ List.kind = "list" /\ Finalize.kind = "FINALIZE"
      /\ PlanTold.kind = "plan" /\ Confirmation.kind = "confirmation"
      /\ Refusal.kind = "refusal"
      /\ \A i : Knock(i).kind = "knock" /\ Knock(i).at = i
      /\ \A i : Thanks(i).kind = "thanks"
  BY DEF List, Finalize, PlanTold, Confirmation, Refusal, Knock, Thanks
<1>2. /\ List # Finalize /\ PlanTold # Confirmation /\ PlanTold # Refusal
      /\ Confirmation # Refusal
  BY <1>1
<1>3. \A i : Knock(i) # List /\ Knock(i) # Finalize
  BY <1>1
<1>4. \A i : Thanks(i) \notin ToSolver
  BY <1>1 DEF ToSolver
<1>5. \A i, j : Knock(i) = Knock(j) => i = j
  BY <1>1
<1> QED BY <1>2, <1>3, <1>4, <1>5

\* The network never makes a datagram up, and without wildness a delivered
\* one is gone.
LEMMA NetworkShrinks ==
  ASSUME NEW D, NEW m
  PROVE  /\ After(D, m) \subseteq D /\ Outlives(D) \subseteq D
         /\ ~wild => After(D, m) = D \ {m} /\ Outlives(D) = {}
BY DEF After, Outlives

\* Sequences of the plan have a length, and at least one knock.
LEMMA PlanLength ==
  ASSUME plan \in Plans
  PROVE  plan \in Seq(Ports) /\ Len(plan) \in Nat /\ Len(plan) > 0
<1>1. plan \in Seq(Ports) /\ plan # <<>>
  BY KnockAssumption
<1> QED BY <1>1

\* solve_knocking_port starts with nothing under way.
LEMMA InitInv == Init => IInv
<1> SUFFICES ASSUME Init PROVE IInv
  OBVIOUS
<1>1. Len(plan) \in Nat /\ Len(plan) > 0
  BY PlanLength DEF Init
<1>2. TypeOK
  BY <1>1, KnockAssumption DEF Init, TypeOK
<1>3. SequenceInv /\ NetworkInv /\ SuccessIsComplete
  BY DEF Init, SequenceInv, NetworkInv, SuccessIsComplete
<1>4. KnockInv
  BY DEF Init, KnockInv
<1> QED BY <1>2, <1>3, <1>4 DEF IInv

\* The plan stays what it is, and with it the datagrams there can be.
LEMMA SamePlan ==
  ASSUME plan' = plan
  PROVE  Indices' = Indices /\ Knocks' = Knocks
BY DEF Indices, Knocks

\* The calls around the knocks: opening, sending the list and FINALIZE.
LEMMA SendStep ==
  ASSUME IInv, Open \/ SendList \/ AllKnocked \/ SendFinalize
  PROVE  IInv'
<1> USE DEF IInv, Open, SendList, AllKnocked, SendFinalize, nature, service
<1>1. /\ UNCHANGED <<knock_sequence, knock, replies, nature, service>>
      /\ \/ requests' = requests
         \/ pc = "list" /\ requests' = requests \cup {List}
         \/ pc = "finalize" /\ requests' = requests \cup {Finalize}
  BY DEF Sends
<1>2. plan \in Seq(Ports) /\ Len(plan) \in Nat
  BY PlanLength DEF TypeOK
<1>3. TypeOK'
  BY <1>1, SamePlan DEF TypeOK
<1>4. SequenceInv' /\ SuccessIsComplete'
  BY DEF SequenceInv, SuccessIsComplete
<1>5. ASSUME ~wild PROVE NetworkInv'
  BY <1>1, <1>5, SamePlan DEF NetworkInv
<1>6. ASSUME ~wild PROVE KnockInv'
  <2>1. pc = "knock" /\ ~MoreKnocks => knock = Len(plan)
    BY <1>2 DEF TypeOK, SequenceInv, MoreKnocks
  <2> QED BY <1>1, <1>6, <2>1 DEF KnockInv
<1> QED BY <1>1, <1>3, <1>4, <1>5, <1>6

\* An answer at the main socket: the plan, or what passes for a confirmation.
LEMMA AnswerStep ==
  ASSUME IInv, NEW m \in replies, ReceiveList(m) \/ ReceiveFinal(m)
  PROVE  IInv'
<1> USE DEF IInv, ReceiveList, ReceiveFinal, nature, service
<1>1. /\ replies' \subseteq replies /\ m \in ToSolver
      /\ UNCHANGED <<knock, requests, nature, service>>
      /\ ~wild => replies' = replies \ {m}
  BY NetworkShrinks
<1>2. plan \in Seq(Ports) /\ Len(plan) \in Nat /\ Len(plan) > 0
  BY PlanLength DEF TypeOK
<1>3. pc = "waitList" => knock = 0
  BY DEF TypeOK, SequenceInv
<1>4. TypeOK'
  <2>1. knock_sequence' \in {<<>>, plan} /\ knock \in 0..Len(knock_sequence')
    BY <1>2, <1>3 DEF TypeOK
  <2> QED BY <1>1, <2>1, SamePlan DEF TypeOK
<1>5. SequenceInv'
  BY DEF SequenceInv
<1>6. ASSUME ~wild PROVE NetworkInv' /\ KnockInv'
  <2>1. replies' = replies \ {m} /\ requests' = requests
    BY <1>1, <1>6
  <2>2. NetworkInv
    BY <1>6
  <2>3. CASE ReceiveList(m)
    <3>1. requests = {} /\ replies' = {}
      BY <2>1, <2>2, <2>3 DEF NetworkInv
    <3>2. pc' \in {"knock", "aborted"}
      BY <2>3
    <3>3. NetworkInv'
      BY <2>1, <3>1, <3>2 DEF NetworkInv
    <3> QED BY <1>1, <1>6, <2>1, <3>2, <3>3 DEF KnockInv
  <2>4. CASE ReceiveFinal(m)
    <3>1. requests \subseteq {Finalize} /\ \A i : Knock(i) # Finalize
      BY <2>2, <2>4, Kinds DEF NetworkInv
    <3>2. requests' \cap Knocks' = {}
      BY <2>1, <3>1 DEF Knocks
    <3>3. NetworkInv'
      BY <1>1, <2>1, <2>2, <2>4, <3>2 DEF NetworkInv
    <3> QED BY <1>1, <1>6, <2>4, <3>3 DEF KnockInv
  <2> QED BY <2>3, <2>4
<1>7. SuccessIsComplete'
  <2>1. ASSUME ReceiveFinal(m), ~wild, ~refuses
        PROVE  progress = Len(plan)
    BY <2>1 DEF NetworkInv
  <2> QED BY <1>1, <2>1 DEF SuccessIsComplete
<1> QED BY <1>1, <1>4, <1>5, <1>6, <1>7

\* A knock is sent, or lost before it was: it is not under way in the end.
LEMMA KnockStep ==
  ASSUME IInv, KnockNext \/ KnockFails
  PROVE  IInv'
<1> USE DEF IInv, KnockNext, KnockFails, AfterSend, NextPort, nature, service
<1>1. /\ pc = "knock" /\ knock' = knock + 1
      /\ UNCHANGED <<knock_sequence, replies, nature, service>>
      /\ \/ requests' = requests /\ pc' \in {"knock", "waitKnock"}
         \/ requests' = requests \cup {Knock(knock')} /\ pc' = "waitKnock"
  BY DEF Sends
<1>2. plan \in Seq(Ports) /\ Len(plan) \in Nat /\ knock_sequence = plan
  BY <1>1, PlanLength DEF TypeOK, SequenceInv
<1>3. knock \in Nat /\ knock' \in 1..Len(plan)
  BY <1>1, <1>2 DEF TypeOK, MoreKnocks
<1>4. TypeOK'
  <2>1. Knock(knock') \in Knocks
    BY <1>3 DEF Knocks, Indices
  <2> QED BY <1>1, <1>2, <1>3, <2>1, SamePlan DEF TypeOK
<1>5. SequenceInv' /\ SuccessIsComplete'
  BY <1>1, <1>3 DEF SequenceInv, SuccessIsComplete
<1>6. ASSUME ~wild PROVE NetworkInv' /\ KnockInv'
  <2>1. requests = {} /\ replies = {}
    BY <1>1, <1>6 DEF NetworkInv
  <2>2. NetworkInv'
    BY <1>1, <2>1 DEF NetworkInv
  <2>3. progress \in Nat /\ progress <= knock /\ heard \subseteq 1..knock
        /\ (progress = knock <=> heard = 1..knock)
    BY <1>6 DEF KnockInv, TypeOK
  <2>4. knock' \notin heard /\ knock' \in 1..knock' /\ 1..knock \subseteq 1..knock'
    BY <1>1, <1>3, <2>3
  <2>5. heard # 1..knock' /\ progress < knock' /\ knock' - 1 = knock
    BY <1>1, <1>3, <2>3, <2>4
  <2>6. KnockInv'
    BY <1>1, <2>3, <2>4, <2>5 DEF KnockInv
  <2> QED BY <2>2, <2>6
<1> QED BY <1>1, <1>4, <1>5, <1>6

\* The answer to a knock, or a timeout of any wait.
LEMMA WaitStep ==
  ASSUME IInv, ReceiveThanks \/ Timeout
  PROVE  IInv'
<1> USE DEF IInv, ReceiveThanks, Timeout, NoAnswer, nature, service
<1>1. /\ replies' \subseteq replies /\ requests' \subseteq requests
      /\ UNCHANGED <<knock_sequence, knock, nature, service>>
      /\ \/ pc = "waitKnock" /\ pc' = "knock"
         \/ pc \in {"waitList", "waitFinal"} /\ pc' = "failed"
  BY NetworkShrinks
<1>2. TypeOK'
  BY <1>1, SamePlan DEF TypeOK
<1>3. SequenceInv' /\ SuccessIsComplete'
  BY <1>1 DEF SequenceInv, SuccessIsComplete
<1>4. ASSUME ~wild PROVE NetworkInv' /\ KnockInv'
  <2>1. requests' = {} /\ replies' = {}
    <3>1. CASE ReceiveThanks
      <4>1. replies' = replies \ {Thanks(knock)}
        BY <1>4, <3>1, NetworkShrinks
      <4>2. requests = {} /\ replies \subseteq {Thanks(knock)}
        BY <1>4, <3>1 DEF NetworkInv
      <4> QED BY <3>1, <4>1, <4>2
    <3>2. CASE Timeout
      BY <1>4, <3>2, NetworkShrinks
    <3> QED BY <3>1, <3>2
  <2>2. NetworkInv'
    BY <1>1, <2>1 DEF NetworkInv
  <2>3. KnockInv'
    BY <1>1, <1>4 DEF KnockInv
  <2> QED BY <2>2, <2>3
<1> QED BY <1>1, <1>2, <1>3, <1>4

\* The service hears the list of ports.
LEMMA HearListStep ==
  ASSUME IInv, HearList
  PROVE  IInv'
<1> USE DEF IInv, HearList, nature, service
<1>1. /\ UNCHANGED <<pc, knock_sequence, knock, nature, service>>
      /\ requests' \subseteq requests /\ replies \subseteq replies'
      /\ replies' \subseteq replies \cup {PlanTold, Refusal}
      /\ ~wild => requests' = requests \ {List}
      /\ ~refuses => replies' \subseteq replies \cup {PlanTold}
      /\ List \in requests
  BY NetworkShrinks DEF Displeased
<1>2. TypeOK'
  BY <1>1, SamePlan DEF TypeOK, ToSolver
<1>3. SequenceInv' /\ SuccessIsComplete'
  BY <1>1 DEF SequenceInv, SuccessIsComplete
<1>4. ASSUME ~wild PROVE NetworkInv' /\ KnockInv'
  <2>1. List # Finalize /\ \A i : Knock(i) # List
    BY Kinds
  <2>2. pc \in {"waitList", "success", "failed", "aborted"}
    BY <1>1, <1>4, <2>1 DEF NetworkInv, TypeOK
  <2>3. PlanTold # Confirmation /\ Confirmation # Refusal /\ PlanTold # Refusal
    BY Kinds
  <2>4. pc = "waitList" => /\ requests' = {}
                           /\ replies' \in {{}, {PlanTold}, {Refusal}}
    BY <1>1, <1>4, <2>1 DEF NetworkInv, Displeased
  <2>5. Confirmation \in replies' => Confirmation \in replies
    BY <1>1, <2>3
  <2>6. Refusal \in replies' => Refusal \in replies \/ refuses
    BY <1>1, <2>3
  <2>7. NetworkInv'
    BY <1>1, <1>4, <2>2, <2>4, <2>5, <2>6, SamePlan DEF NetworkInv
  <2>8. KnockInv'
    BY <1>1, <1>4, <2>2 DEF KnockInv
  <2> QED BY <2>7, <2>8
<1> QED BY <1>1, <1>2, <1>3, <1>4

\* The service hears FINALIZE.
LEMMA HearFinalizeStep ==
  ASSUME IInv, HearFinalize
  PROVE  IInv'
<1> USE DEF IInv, HearFinalize, nature, service
<1>1. /\ UNCHANGED <<pc, knock_sequence, knock, nature, service>>
      /\ requests' \subseteq requests /\ replies \subseteq replies'
      /\ replies' \subseteq replies \cup {Confirmation, Refusal}
      /\ Finalize \in requests
      /\ Confirmation \in replies' =>
           Confirmation \in replies \/ progress = Len(plan)
      /\ Refusal \in replies' => Refusal \in replies \/ refuses
  BY NetworkShrinks, Kinds DEF Displeased
<1>2. TypeOK'
  BY <1>1, SamePlan DEF TypeOK, ToSolver
<1>3. SequenceInv' /\ SuccessIsComplete'
  BY <1>1 DEF SequenceInv, SuccessIsComplete
<1>4. ASSUME ~wild PROVE NetworkInv' /\ KnockInv'
  <2>1. List # Finalize /\ \A i : Knock(i) # Finalize
    BY Kinds
  <2>2. pc \in {"waitFinal", "success", "failed", "aborted"}
    BY <1>1, <1>4, <2>1 DEF NetworkInv, TypeOK
  <2>3. NetworkInv'
    BY <1>1, <1>4, <2>2, SamePlan DEF NetworkInv
  <2>4. KnockInv'
    BY <1>1, <1>4, <2>2 DEF KnockInv
  <2> QED BY <2>3, <2>4
<1> QED BY <1>1, <1>2, <1>3, <1>4

\* The service hears a knock.  Where the network only loses it is the last
\* one made, and it completes the sequence if no other is missing.
LEMMA HearKnockStep ==
  ASSUME IInv, NEW i \in Indices, HearKnock(i)
  PROVE  IInv'
<1> USE DEF IInv, HearKnock, nature, service
<1>1. /\ UNCHANGED <<pc, knock_sequence, knock, nature>>
      /\ requests' \subseteq requests /\ Knock(i) \in requests
      /\ replies' \in {replies, replies \cup {Thanks(i)}}
      /\ heard' = heard \cup {i}
      /\ ~wild => requests' = requests \ {Knock(i)}
  BY NetworkShrinks
<1>2. plan \in Seq(Ports) /\ Len(plan) \in Nat /\ progress \in 0..Len(plan)
  BY PlanLength DEF TypeOK
<1>3. progress' \in 0..Len(plan) /\ progress' \in {progress, progress + 1}
  BY <1>2
<1>4. TypeOK'
  <2>1. replies' \subseteq ToSolver \cup {Thanks(j) : j \in Indices}
    BY <1>1 DEF TypeOK
  <2>2. ToSolver' = ToSolver /\ Indices' = Indices /\ Knocks' = Knocks
    BY <1>1, SamePlan DEF ToSolver, PlanTold, Confirmation, Refusal
  <2> QED BY <1>1, <1>3, <2>1, <2>2 DEF TypeOK
<1>5. SequenceInv'
  BY <1>1 DEF SequenceInv
<1>6. progress = Len(plan) => progress' = progress
  BY <1>2
<1>7. SuccessIsComplete'
  BY <1>1, <1>6 DEF SuccessIsComplete
<1>8. ASSUME ~wild PROVE NetworkInv' /\ KnockInv'
  <2>1. \A j : Knock(j) # List /\ Knock(j) # Finalize /\ (Knock(i) = Knock(j) => i = j)
    BY Kinds
  <2>2. Knock(i) \in Knocks
    BY DEF Knocks
  <2>3. pc = "waitKnock" /\ requests = {Knock(knock)} /\ replies = {}
    BY <1>1, <1>8, <2>1, <2>2 DEF NetworkInv, TypeOK
  <2>4. i = knock
    BY <1>1, <2>1, <2>3
  <2>5. requests' = {} /\ replies' \subseteq {Thanks(knock)}
    BY <1>1, <1>8, <2>3, <2>4
  <2>6. Confirmation # Thanks(knock) /\ Refusal # Thanks(knock)
    BY Kinds DEF ToSolver
  <2>7. NetworkInv'
    BY <1>1, <2>3, <2>5, <2>6 DEF NetworkInv
  <2>8. /\ knock \in 1..Len(plan) /\ progress < knock
        /\ heard \subseteq 1..knock /\ knock \notin heard
        /\ progress = knock - 1 <=> heard = 1..(knock - 1)
    BY <1>8, <2>3, <2>4 DEF KnockInv, Indices
  <2>9. heard' = 1..knock <=> heard = 1..(knock - 1)
    <3>1. 1..knock = (1..(knock - 1)) \cup {knock} /\ knock \notin 1..(knock - 1)
      BY <1>2, <2>8
    <3>2. heard' = heard \cup {knock} /\ knock \notin heard
      BY <1>1, <2>4, <2>8
    <3> QED BY ONLY <3>1, <3>2
  <2>10. progress' = knock <=> progress = knock - 1
    BY <1>2, <2>4, <2>8
  <2>11. progress' <= knock /\ heard' \subseteq 1..knock
    BY <1>1, <1>2, <1>3, <2>4, <2>8
  <2>12. KnockInv'
    BY <1>1, <2>3, <2>5, <2>8, <2>9, <2>10, <2>11 DEF KnockInv
  <2> QED BY <2>7, <2>12
<1> QED BY <1>1, <1>4, <1>5, <1>7, <1>8

\* Every step of solver, service and network keeps the invariant.
LEMMA NextInv == IInv /\ [Next]_vars => IInv'
<1> SUFFICES ASSUME IInv, [Next]_vars PROVE IInv'
  OBVIOUS
<1>1. CASE Open \/ SendList \/ AllKnocked \/ SendFinalize
  BY <1>1, SendStep
<1>2. CASE \E m \in replies : ReceiveList(m) \/ ReceiveFinal(m)
  BY <1>2, AnswerStep
<1>3. CASE KnockNext \/ KnockFails
  BY <1>3, KnockStep
<1>4. CASE ReceiveThanks \/ Timeout
  BY <1>4, WaitStep
<1>5. CASE HearList
  BY <1>5, HearListStep
<1>6. CASE HearFinalize
  BY <1>6, HearFinalizeStep
<1>7. CASE \E i \in Indices : HearKnock(i)
  BY <1>7, HearKnockStep
<1>8. CASE UNCHANGED vars
  <2>1. TypeOK'
    BY <1>8, SamePlan DEF vars, nature, service, IInv, TypeOK
  <2>2. SequenceInv' /\ SuccessIsComplete'
    BY <1>8 DEF vars, nature, service, IInv, SequenceInv, SuccessIsComplete
  <2>3. ASSUME ~wild PROVE NetworkInv' /\ KnockInv'
    BY <1>8, <2>3, SamePlan
       DEF vars, nature, service, IInv, NetworkInv, KnockInv
  <2> QED BY <1>8, <2>1, <2>2, <2>3 DEF vars, nature, IInv
<1> QED
  BY <1>1, <1>2, <1>3, <1>4, <1>5, <1>6, <1>7, <1>8 DEF Next, Solver, Service

\* The inductive invariant holds always: what is under way belongs to the
\* present call of send_and_receive, and progress is complete exactly when no
\* knock is missing.
THEOREM Invariance == Spec => []IInv
BY InitInv, NextInv, PTL DEF Spec

\* The variables stay in their ranges: knock never passes the end of the
\* sequence that the service told.
THEOREM TypeCorrect == Spec => []TypeOK
<1>1. IInv => TypeOK
  BY DEF IInv
<1> QED BY Invariance, <1>1, PTL

\* The loop of solve_knocking_port completes the sequence, whatever it is and
\* however often a port is in it, exactly when no knock has been lost.
THEOREM CompleteSequence == Spec => []CompleteUnlessKnockLost
<1>1. IInv => CompleteUnlessKnockLost
  BY DEF IInv, KnockInv, CompleteUnlessKnockLost, Indices
<1> QED BY Invariance, <1>1, PTL

\* A port reported solved has been knocked on as its service asked, unless
\* the answer to FINALIZE was a refusal or a late or second datagram.
THEOREM SuccessMeans == Spec => []SuccessIsComplete
<1>1. IInv => SuccessIsComplete
  BY DEF IInv
<1> QED BY Invariance, <1>1, PTL

-----------------------------------------------------------------------------
(* The function comes to an end.                                           *)

\* A bound on what solve_knocking_port has still to do: two steps a knock.
Rank ==
  LET knocks == Len(plan) - knock
  IN  CASE pc = "open" -> 2 * knocks + 6
        [] pc = "list" -> 2 * knocks + 5
        [] pc \in {"waitList", "waitKnock"} -> 2 * knocks + 4
        [] pc = "knock" -> 2 * knocks + 3
        [] pc = "finalize" -> 2
        [] pc = "waitFinal" -> 1
        [] OTHER -> 0

\* While the function has not returned there is something left to count down.
RankInv ==
  /\ Rank \in Nat
  /\ Rank = 0 <=> pc \in {"success", "failed", "aborted"}

\* Every step of the function counts down; nothing the service or the network
\* does gives it more to do.
RankFalls == [][/\ Solver => Rank' < Rank
                /\ Service => Rank' = Rank]_vars

\* The place in the sequence, before and after it is known.
LEMMA KnocksLeft ==
  ASSUME IInv
  PROVE  /\ Len(plan) \in Nat /\ knock \in Nat /\ knock <= Len(plan)
         /\ pc \in {"open", "list", "waitList"} => knock = 0
         /\ pc \in {"knock", "waitKnock"} => knock_sequence = plan
<1>1. plan \in Seq(Ports)
  BY KnockAssumption DEF IInv, TypeOK
<1>2. Len(plan) \in Nat /\ Len(<<>>) = 0
  BY <1>1
<1> QED BY <1>2 DEF IInv, TypeOK, SequenceInv

LEMMA RankIsNatural == IInv => RankInv
<1> SUFFICES ASSUME IInv PROVE RankInv
  OBVIOUS
<1> QED BY KnocksLeft DEF IInv, TypeOK, RankInv, Rank

LEMMA SolverCounts == IInv /\ Solver => Rank' < Rank
<1> SUFFICES ASSUME IInv, Solver PROVE Rank' < Rank
  OBVIOUS
<1> DEFINE n == Len(plan)
<1>1. /\ n \in Nat /\ knock \in Nat /\ knock <= n
      /\ pc \in {"open", "list", "waitList"} => knock = 0
      /\ pc \in {"knock", "waitKnock"} => knock_sequence = plan
  BY KnocksLeft
<1>2. plan' = plan
  BY DEF Solver, Open, SendList, KnockNext, KnockFails, ReceiveThanks,
         AllKnocked, SendFinalize, ReceiveList, ReceiveFinal, Timeout, nature
<1>3. n' = n
  BY <1>2
<1>4. Rank' =
        CASE pc' = "open" -> 2 * (n - knock') + 6
          [] pc' = "list" -> 2 * (n - knock') + 5
          [] pc' \in {"waitList", "waitKnock"} -> 2 * (n - knock') + 4
          [] pc' = "knock" -> 2 * (n - knock') + 3
          [] pc' = "finalize" -> 2
          [] pc' = "waitFinal" -> 1
          [] OTHER -> 0
  BY <1>3 DEF Rank
<1>5. Rank =
        CASE pc = "open" -> 2 * (n - knock) + 6
          [] pc = "list" -> 2 * (n - knock) + 5
          [] pc \in {"waitList", "waitKnock"} -> 2 * (n - knock) + 4
          [] pc = "knock" -> 2 * (n - knock) + 3
          [] pc = "finalize" -> 2
          [] pc = "waitFinal" -> 1
          [] OTHER -> 0
  BY DEF Rank
<1>6. pc = "knock" /\ MoreKnocks => knock < n
  BY <1>1 DEF MoreKnocks
<1> HIDE DEF n
<1>7. CASE Open
  BY <1>1, <1>4, <1>5, <1>7 DEF Open
<1>8. CASE SendList \/ SendFinalize \/ AllKnocked
  BY <1>1, <1>4, <1>5, <1>8 DEF SendList, SendFinalize, AllKnocked
<1>9. CASE KnockNext \/ KnockFails
  BY <1>1, <1>4, <1>5, <1>6, <1>9
     DEF KnockNext, KnockFails, NextPort, AfterSend
<1>10. CASE ReceiveThanks \/ Timeout
  BY <1>1, <1>4, <1>5, <1>10 DEF ReceiveThanks, Timeout, NoAnswer
<1>11. CASE \E m \in replies : ReceiveList(m) \/ ReceiveFinal(m)
  BY <1>1, <1>4, <1>5, <1>11 DEF ReceiveList, ReceiveFinal
<1> QED BY <1>7, <1>8, <1>9, <1>10, <1>11 DEF Solver

\* solve_knocking_port makes a bounded number of steps, whatever the service
\* and the network do: at most two for each port of the sequence and six more.
THEOREM CountsDown == Spec => []RankInv /\ RankFalls
<1>1. Service => Rank' = Rank
  BY DEF Service, HearList, HearKnock, HearFinalize, nature, Rank
<1>2. IInv /\ [Next]_vars => [/\ Solver => Rank' < Rank
                              /\ Service => Rank' = Rank]_vars
  BY <1>1, SolverCounts
<1> QED BY <1>2, RankIsNatural, Invariance, PTL DEF Spec, RankFalls
=============================================================================
