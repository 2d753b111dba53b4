-------------------------- MODULE RemoteShellProofs --------------------------
(***************************************************************************)
(* A session of the remote shell runs every command whole and shows every  *)
(* output under the command that printed it until a recv() has left some   *)
(* of a line or of an output behind, for any number of commands and any    *)
(* sizes of lines, outputs and buffers.                                    *)
(***************************************************************************)
EXTENDS RemoteShell, TLAPS

\* What a recv() takes is the front of the stream and leaves the rest.
LEMMA Taken ==
  ASSUME NEW s \in Seq(Commands), NEW cap \in Nat, NEW k \in Fronts(s, cap)
  PROVE  /\ k \in 1..Len(s)
         /\ SubSeq(s, 1, k) \in Seq(Commands)
         /\ SubSeq(s, k + 1, Len(s)) \in Seq(Commands)
         /\ Len(SubSeq(s, 1, k)) = k
         /\ \A i \in 1..k : SubSeq(s, 1, k)[i] = s[i]
BY DEF Fronts

\* A cleared buffer holds what was received and nothing else.
LEMMA OverCleared ==
  ASSUME NEW s \in Seq(Commands), NEW k \in Nat
  PROVE  s \o SubSeq(<<>>, k + 1, Len(<<>>)) = s
<1>1. SubSeq(<<>>, k + 1, Len(<<>>)) = <<>>
  OBVIOUS
<1> QED BY <1>1

\* A recv() that leaves nothing has taken the stream as it was.
LEMMA AllTaken ==
  ASSUME NEW s \in Seq(Commands), NEW k \in 1..Len(s),
         SubSeq(s, k + 1, Len(s)) = <<>>
  PROVE  SubSeq(s, 1, k) = s
<1>1. Len(SubSeq(s, k + 1, Len(s))) = Len(s) - k
  OBVIOUS
<1>2. k = Len(s)
  BY <1>1
<1> QED BY <1>2

\* The line of a command is its number, size times.
LEMMA LineIs ==
  ASSUME NEW c \in Commands, NEW n \in Nat \ {0}
  PROVE  LET line == [i \in 1..n |-> c]
         IN  /\ line \in Seq(Commands) /\ line # <<>>
             /\ Len(line) = n /\ \A i \in 1..n : line[i] = c
             /\ <<>> \o line = line
<1> DEFINE line == [i \in 1..n |-> c]
<1>1. line \in Seq(Commands) /\ Len(line) = n /\ \A i \in 1..n : line[i] = c
  OBVIOUS
<1> HIDE DEF line
<1>2. line # <<>> /\ <<>> \o line = line
  BY <1>1
<1> QED BY <1>1, <1>2 DEF line

\* A command's output joins the stream.
LEMMA Joined ==
  ASSUME NEW s \in Seq(Commands), NEW c \in Commands, NEW out \in Nat
  PROVE  s \o [i \in 1..out |-> c] \in Seq(Commands)
<1>1. [i \in 1..out |-> c] \in Seq(Commands)
  OBVIOUS
<1> QED BY <1>1

\* Alone on the stream it is a sequence of its number.
LEMMA JoinedAlone ==
  ASSUME NEW c \in Commands, NEW out \in Nat
  PROVE  LET t == <<>> \o [i \in 1..out |-> c]
         IN  \A i \in 1..Len(t) : t[i] = c
<1> DEFINE o == [i \in 1..out |-> c]
<1>1. o \in Seq(Commands) /\ Len(o) = out /\ \A i \in 1..out : o[i] = c
  OBVIOUS
<1> HIDE DEF o
<1>2. <<>> \o o = o
  BY <1>1
<1>3. \A i \in 1..Len(<<>> \o o) : (<<>> \o o)[i] = c
  BY <1>1, <1>2
<1> QED BY <1>3 DEF o

\* The session starts at the prompt with nothing under way.
LEMMA InitInv == Init => IInv
<1> SUFFICES ASSUME Init PROVE IInv
  OBVIOUS
<1>1. /\ buffer \in Seq(Commands) /\ requests \in Seq(Commands)
      /\ replies \in Seq(Commands)
  BY DEF Init
<1>2. TypeOK
  <2>1. pc \in {"prompt", "waiting", "ended"} /\ serving \in Seq(Commands)
    BY DEF Init
  <2>2. sent \in 0..MaxCommands /\ size \in 0..MaxLine
    BY ShellAssumption DEF Init
  <2>3. alive \in BOOLEAN /\ cut \in BOOLEAN /\ silent \in BOOLEAN
    BY DEF Init
  <2> QED BY <1>1, <2>1, <2>2, <2>3 DEF TypeOK
<1>3. ShownIsAnswer
  BY DEF Init, ShownIsAnswer
<1>4. InStep
  BY DEF Init, InStep
<1> QED BY <1>2, <1>3, <1>4 DEF IInv, Init

\* The user enters a command.
LEMMA EnterStep == IInv /\ Enter => IInv'
<1> SUFFICES ASSUME IInv, Enter PROVE IInv'
  OBVIOUS
<1> USE ShellAssumption DEF IInv, Enter, AfterSend, ClearedBuffer, history
<1>1. sent' \in Commands /\ size' \in Nat \ {0} /\ requests \in Seq(Commands)
  BY DEF TypeOK, Commands
<1>2. Line' = [i \in 1..size' |-> sent']
  BY DEF Line
<1>3. /\ Line' \in Seq(Commands) /\ requests' = requests \o Line'
      /\ <<>> \o Line' = Line'
  BY <1>1, <1>2, LineIs
<1>4. requests' \in Seq(Commands)
  BY <1>1, <1>3
<1>5. TypeOK'
  BY <1>1, <1>4 DEF TypeOK, Commands
<1>6. ShownIsAnswer'
  BY DEF ShownIsAnswer
<1>7. ~cut => InStep'
  <2>1. ~cut => requests = <<>> /\ serving' = <<>> /\ replies' = <<>>
    BY DEF InStep
  <2>2. ~cut => requests' = Line'
    BY <1>3, <2>1
  <2> QED BY <2>1, <2>2 DEF InStep
<1> QED BY <1>1, <1>5, <1>6, <1>7

\* What is received is printed.
LEMMA ReceiveStep == IInv /\ ClientReceives => IInv'
<1> SUFFICES ASSUME IInv, ClientReceives PROVE IInv'
  OBVIOUS
<1>1. PICK k \in Fronts(replies, RecvCap) :
        /\ buffer' = SubSeq(replies, 1, k) \o SubSeq(buffer, k + 1, Len(buffer))
        /\ replies' = SubSeq(replies, k + 1, Len(replies))
  BY DEF ClientReceives
<1>2. replies \in Seq(Commands) /\ RecvCap \in Nat
  BY ShellAssumption DEF IInv, TypeOK
<1>3. /\ k \in 1..Len(replies)
      /\ SubSeq(replies, 1, k) \in Seq(Commands)
      /\ Len(SubSeq(replies, 1, k)) = k
      /\ \A i \in 1..k : SubSeq(replies, 1, k)[i] = replies[i]
      /\ replies' \in Seq(Commands)
  BY <1>1, <1>2, Taken
<1>4. buffer' = SubSeq(replies, 1, k)
  <2>1. buffer = <<>>
    BY DEF IInv, ClientReceives
  <2>2. buffer' = SubSeq(replies, 1, k) \o SubSeq(<<>>, k + 1, Len(<<>>))
    BY <1>1, <2>1
  <2> QED BY <1>3, <2>2, OverCleared
<1>5. TypeOK'
  BY <1>3, <1>4 DEF IInv, ClientReceives, TypeOK
<1>6. ShownIsAnswer' /\ (~cut' => InStep')
  <2>1. CASE cut'
    BY <2>1 DEF ShownIsAnswer
  <2>2. CASE ~cut'
    <3>1. ~cut /\ replies' = <<>> /\ replies # <<>>
      <4>1. ~cut /\ replies' = <<>>
        BY <2>2, Zenon DEF ClientReceives
      <4>2. replies # <<>>
        BY <1>2, <1>3
      <4> QED BY <4>1, <4>2
    <3>2. /\ requests = <<>> /\ serving = <<>>
          /\ \A i \in 1..Len(replies) : replies[i] = sent
      BY <3>1 DEF IInv, InStep, ClientReceives
    <3>3. \A i \in 1..Len(buffer') : buffer'[i] = sent
      BY <1>3, <1>4, <3>2
    <3> QED BY <3>1, <3>2, <3>3 DEF ShownIsAnswer, InStep, ClientReceives
  <2> QED BY <2>1, <2>2
<1> QED BY <1>5, <1>6 DEF IInv, ClientReceives

\* The server reads a line: the whole of one, unless something is left behind.
LEMMA ServerReceivesStep == IInv /\ ServerReceives => IInv'
<1> SUFFICES ASSUME IInv, ServerReceives PROVE IInv'
  OBVIOUS
<1>1. PICK k \in Fronts(requests, ServerCap) :
        /\ serving' = SubSeq(requests, 1, k)
        /\ requests' = SubSeq(requests, k + 1, Len(requests))
  BY DEF ServerReceives
<1>2. requests \in Seq(Commands) /\ ServerCap \in Nat
  BY ShellAssumption DEF IInv, TypeOK
<1>3. /\ k \in 1..Len(requests) /\ requests' \in Seq(Commands)
      /\ serving' \in Seq(Commands)
  BY <1>1, <1>2, Taken
<1>4. cut' \in BOOLEAN /\ (~cut' => ~cut /\ requests' = <<>>)
  BY Zenon DEF ServerReceives
<1>5. TypeOK'
  BY <1>3, <1>4 DEF IInv, TypeOK, ServerReceives, client
<1>6. ~cut' => InStep'
  <2> SUFFICES ASSUME ~cut' PROVE InStep'
    OBVIOUS
  <2>1. ~cut /\ requests' = <<>> /\ requests # <<>>
    BY <1>2, <1>3, <1>4
  <2>2. pc = "waiting" /\ requests = Line /\ replies = <<>>
    BY <2>1 DEF IInv, InStep, ServerReceives, TypeOK
  <2>3. serving' = requests
    BY <1>1, <1>2, <1>3, <2>1, AllTaken
  <2>4. Line' = Line
    BY DEF ServerReceives, client, Line
  <2> QED BY <2>1, <2>2, <2>3, <2>4 DEF InStep, ServerReceives, client
<1>7. ShownIsAnswer'
  BY <1>4 DEF IInv, ShownIsAnswer, ServerReceives, client
<1> QED BY <1>5, <1>6, <1>7 DEF IInv, ServerReceives, client

\* The server answers the command it has read.
LEMMA ServerAnswersStep == IInv /\ ServerAnswers => IInv'
<1> SUFFICES ASSUME IInv, ServerAnswers PROVE IInv'
  OBVIOUS
<1>0. serving \in Seq(Commands)
  BY DEF IInv, TypeOK
<1>1. PICK j \in 1..Len(serving), out \in 0..MaxOutput :
        /\ replies' = replies \o [i \in 1..out |-> serving[j]]
        /\ silent' = (silent \/ out = 0)
  BY DEF ServerAnswers
<1> DEFINE c == serving[j]
<1>2. c \in Commands /\ out \in Nat /\ replies \in Seq(Commands)
  BY <1>0, ShellAssumption DEF IInv, TypeOK
<1>3. replies' \in Seq(Commands)
  BY <1>1, <1>2, Joined
<1>4. silent' \in BOOLEAN
  BY <1>1
<1>5. TypeOK'
  BY <1>3, <1>4 DEF IInv, TypeOK, ServerAnswers, client
<1>6. ~cut => InStep'
  <2> SUFFICES ASSUME ~cut PROVE InStep'
    OBVIOUS
  <2>1. /\ pc = "waiting" /\ requests = <<>> /\ serving = Line
        /\ replies = <<>> /\ alive
    BY DEF IInv, InStep, ServerAnswers, TypeOK
  <2>2. replies' = <<>> \o [i \in 1..out |-> c]
    BY <1>1, <2>1
  <2>3. c = sent
    <3>1. size \in Nat /\ Line = [i \in 1..size |-> sent]
      BY ShellAssumption DEF IInv, TypeOK, Line
    <3>2. Len(Line) = size /\ \A i \in 1..size : Line[i] = sent
      BY <3>1
    <3> QED BY <2>1, <3>2
  <2>4. \A i \in 1..Len(replies') : replies'[i] = sent
    BY <1>2, <2>2, <2>3, JoinedAlone
  <2> QED BY <2>1, <2>4 DEF InStep, ServerAnswers, client, Line
<1> QED BY <1>5, <1>6 DEF IInv, ShownIsAnswer, ServerAnswers, client

\* The server ends at any time.
LEMMA ServerDiesStep == IInv /\ ServerDies => IInv'
<1> SUFFICES ASSUME IInv, ServerDies PROVE IInv'
  OBVIOUS
<1>1. replies' = replies \/ replies' = <<>>
  BY DEF ServerDies
<1>2. TypeOK'
  <2>1. requests' \in Seq(Commands) /\ serving' \in Seq(Commands)
    BY DEF ServerDies
  <2>2. replies' \in Seq(Commands)
    <3>1. replies \in Seq(Commands) /\ <<>> \in Seq(Commands)
      BY DEF IInv, TypeOK
    <3> QED BY <1>1, <3>1, Zenon
  <2>3. alive' \in BOOLEAN
    BY DEF ServerDies
  <2> QED BY <2>1, <2>2, <2>3 DEF IInv, TypeOK, ServerDies, client, history
<1>3. ~cut => InStep'
  <2> SUFFICES ASSUME ~cut PROVE InStep'
    OBVIOUS
  <2>1. pc = "waiting" =>
          replies = <<>> \/ \A i \in 1..Len(replies) : replies[i] = sent
    BY DEF IInv, InStep
  <2>2. pc = "waiting" => \A i \in 1..Len(replies') : replies'[i] = sent
    <3>1. CASE replies' = replies
      <4>1. replies = <<>> => Len(replies) = 0
        OBVIOUS
      <4> QED BY <2>1, <3>1, <4>1
    <3>2. CASE replies' = <<>>
      BY <3>2
    <3> QED BY <1>1, <3>1, <3>2
  <2>3. pc # "waiting" => replies = <<>>
    BY DEF IInv, InStep
  <2> QED BY <1>1, <2>2, <2>3 DEF IInv, InStep, ServerDies, client
<1> QED BY <1>2, <1>3 DEF IInv, ShownIsAnswer, ServerDies, client, history

\* Every step keeps the invariant.
LEMMA NextInv == IInv /\ [Next]_vars => IInv'
<1>1. IInv /\ (Quit \/ ClientSeesEnd) => IInv'
  <2> SUFFICES ASSUME IInv, Quit \/ ClientSeesEnd PROVE IInv'
    OBVIOUS
  <2>1. /\ pc \in {"prompt", "waiting"} /\ pc' = "ended"
        /\ pc = "waiting" => replies = <<>> /\ ~alive
        /\ UNCHANGED <<sent, size, buffer, requests, serving, replies, alive,
                      history>>
    BY DEF Quit, ClientSeesEnd, EndOfStream
  <2>2. TypeOK' /\ ShownIsAnswer'
    BY <2>1 DEF IInv, TypeOK, ShownIsAnswer, history
  <2>3. ~cut => InStep'
    BY <2>1 DEF IInv, InStep, history
  <2> QED BY <2>1, <2>2, <2>3 DEF IInv, history
<1>2. IInv /\ UNCHANGED vars => IInv'
  BY DEF IInv, vars, client, history, TypeOK, ShownIsAnswer, InStep, Line
<1> QED BY <1>1, <1>2, EnterStep, ReceiveStep, ServerReceivesStep,
           ServerAnswersStep, ServerDiesStep
        DEF Next

\* The inductive invariant holds in every session.
THEOREM Invariance == Spec => []IInv
<1> QED BY InitInv, NextInv, PTL DEF Spec

\* Every variable of client, server and streams stays in its range.
THEOREM TypeCorrect == Spec => []TypeOK
<1>1. IInv => TypeOK
  BY DEF IInv
<1> QED BY <1>1, Invariance, PTL

\* Until a recv() leaves some of a line or of an output behind, whatever the
\* client prints under "Output:" was printed by the command it sent.
THEOREM ShownInPlace == Spec => []ShownIsAnswer
<1>1. IInv => ShownIsAnswer
  BY DEF IInv
<1> QED BY <1>1, Invariance, PTL

\* Until then the server never runs part of a line, two lines together, or a
\* line the client does not wait for.
THEOREM OneAtATime == Spec => []RunsAsEntered
<1>1. IInv => RunsAsEntered
  BY DEF IInv, InStep, RunsAsEntered, TypeOK
<1> QED BY <1>1, Invariance, PTL
=============================================================================
