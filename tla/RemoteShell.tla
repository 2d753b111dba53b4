----------------------------- MODULE RemoteShell -----------------------------
(***************************************************************************)
(* One session of vika1/client_modified.cpp with clientCommand of          *)
(* vika1/server_modified.cpp over the two byte streams of a TCP            *)
(* connection.                                                             *)
(*                                                                         *)
(* Commands are numbered in the order the user enters them, and every unit *)
(* of a line and of an output carries the number of its command.  Neither  *)
(* program marks where a request or an answer ends, so what a recv()       *)
(* returns is decided by the streams and the size of its buffer alone.     *)
(***************************************************************************)
EXTENDS Integers, Sequences

CONSTANTS
  MaxCommands,  \* bound: commands the user enters
  MaxLine,      \* most units a line has
  MaxOutput,    \* most units a command prints
  ServerCap,    \* units a recv() of the server takes: sizeof(buffer)
  RecvCap       \* units a recv() of the client takes: sizeof(buffer) - 1

ASSUME ShellAssumption ==
  /\ MaxCommands \in Nat
  /\ MaxLine \in Nat \ {0}
  /\ MaxOutput \in Nat
  /\ ServerCap \in Nat \ {0}
  /\ RecvCap \in Nat \ {0}

VARIABLES
  pc,        \* client: "prompt", "waiting" in recv(), or "ended"
  sent,      \* client: commands sent so far; the last one is the current one
  size,      \* client: units of the current command's line
  buffer,    \* client: text in it up to its first NUL, as it is printed
  requests,  \* stream to the server: units of lines not yet read
  serving,   \* server: the text of the command it runs
  replies,   \* stream to the client: units of output not yet read
  alive,     \* the server's process runs
  cut,       \* history: a recv() has left behind some of its stream
  silent     \* history: the server has answered a request with nothing

client == <<pc, sent, size, buffer>>
history == <<cut, silent>>
vars == <<client, requests, serving, replies, alive, history>>

Commands == 1..MaxCommands

\* Every variable stays in its range.
TypeOK ==
  /\ pc \in {"prompt", "waiting", "ended"}
  /\ sent \in 0..MaxCommands
  /\ size \in 0..MaxLine
  /\ buffer \in Seq(Commands)
  /\ requests \in Seq(Commands)
  /\ serving \in Seq(Commands)
  /\ replies \in Seq(Commands)
  /\ alive \in BOOLEAN
  /\ cut \in BOOLEAN
  /\ silent \in BOOLEAN

Init ==
  /\ pc = "prompt"
  /\ sent = 0
  /\ size = 0
  /\ buffer = <<>>
  /\ requests = <<>>
  /\ serving = <<>>
  /\ replies = <<>>
  /\ alive = TRUE
  /\ cut = FALSE
  /\ silent = FALSE

\* Seeded fault: the buffer keeps the last output.
KeptBuffer == buffer

\* memset() before the recv() of a command.
ClearedBuffer == <<>>

\* Seeded fault: the output is not waited for.
GoesOn == "prompt"

AfterSend == "waiting"

\* The line of the current command: "SYS " and what the user has entered.
Line == [i \in 1..size |-> sent]

\* The user enters a line of any length; at the end of its input getline()
\* leaves an empty one, which is sent like any other.
Enter ==
  /\ pc = "prompt"
  /\ sent < MaxCommands
  /\ sent' = sent + 1
  /\ buffer' = ClearedBuffer
  /\ size' \in 1..MaxLine
  /\ requests' = requests \o Line'
  /\ pc' = AfterSend
  /\ UNCHANGED <<serving, replies, alive, history>>

\* The user enters quit, or send() finds the connection gone.
Quit ==
  /\ pc = "prompt"
  /\ pc' = "ended"
  /\ UNCHANGED <<sent, size, buffer, requests, serving, replies, alive, history>>

\* How much of a stream a recv() of at most cap units may find: all of it, or
\* any part that has arrived.
Fronts(stream, cap) == {k \in 1..cap : k <= Len(stream)}

\* The one recv() of a command, over the front of the buffer.
ClientReceives ==
  /\ pc = "waiting"
  /\ \E k \in Fronts(replies, RecvCap) :
       /\ buffer' = SubSeq(replies, 1, k) \o SubSeq(buffer, k + 1, Len(buffer))
       /\ replies' = SubSeq(replies, k + 1, Len(replies))
  /\ cut' = (cut \/ replies' # <<>>)
  /\ pc' = "prompt"
  /\ UNCHANGED <<sent, size, requests, serving, alive, silent>>

\* Seeded fault: a recv() that returns no data is repeated.
ReceivesAgain == FALSE

\* recv() returns 0 or an error.
EndOfStream == replies = <<>> /\ ~alive

\* "Server closed connection".
ClientSeesEnd ==
  /\ pc = "waiting"
  /\ EndOfStream
  /\ pc' = "ended"
  /\ UNCHANGED <<sent, size, buffer, requests, serving, replies, alive, history>>

\* The server ends; the reset of its unread requests may discard its answers.
ServerDies ==
  /\ alive
  /\ alive' = FALSE
  /\ requests' = <<>>
  /\ serving' = <<>>
  /\ replies' \in {replies, <<>>}
  /\ UNCHANGED <<client, history>>

\* recv() of the server: lines that arrived together are one text, and what
\* has not arrived or does not fit is left for the next round.
ServerReceives ==
  /\ alive
  /\ serving = <<>>
  /\ \E k \in Fronts(requests, ServerCap) :
       /\ serving' = SubSeq(requests, 1, k)
       /\ requests' = SubSeq(requests, k + 1, Len(requests))
  /\ cut' = (cut \/ requests' # <<>>)
  /\ UNCHANGED <<client, replies, alive, silent>>

\* clientCommand() has run the text, if it ever ends; an unknown command, and
\* send() of an empty output, put nothing on the stream.  Parts of a line and
\* lines run together are a command nobody entered; its output is put down to
\* any of those it is made of.
ServerAnswers ==
  /\ serving # <<>>
  /\ \E i \in 1..Len(serving), out \in 0..MaxOutput :
       /\ replies' = replies \o [j \in 1..out |-> serving[i]]
       /\ silent' = (silent \/ out = 0)
  /\ serving' = <<>>
  /\ UNCHANGED <<client, requests, alive, cut>>

Next ==
  \/ Enter
  \/ Quit
  \/ ClientReceives
  \/ ClientSeesEnd
  \/ ServerReceives
  \/ ServerAnswers
  \/ ServerDies

Spec == Init /\ [][Next]_vars

\* Both programs run, and the server comes round to this client; nobody has to
\* enter another command, and none has to end.
FairSpec ==
  /\ Spec
  /\ WF_vars(ClientReceives)
  /\ WF_vars(ClientSeesEnd)
  /\ WF_vars(ServerReceives)

-----------------------------------------------------------------------------

\* What the client prints under "Output:" for a command was printed by it,
\* unless a line or an output was longer than a recv() or arrived in pieces:
\* what is left of it is then run or shown under the next command, and so on.
ShownIsAnswer == (\E i \in 1..Len(buffer) : buffer[i] # sent) => cut

\* What the server runs is the whole line of the command the client waits for
\* and nothing else, unless a recv() has left some of a line, or of the output
\* the client was to wait for, behind.
RunsAsEntered == serving # <<>> => serving = Line \/ cut

\* A command that was entered is answered or the client ends, and the prompt
\* comes back, unless a command runs for ever or the server has sent nothing in
\* answer to a request.
PromptReturns ==
  \/ <>[](serving # <<>>)
  \/ pc = "waiting" ~> (pc # "waiting" \/ silent)

\* As long as nothing was left behind, at the prompt nothing is under way, and
\* during a wait one of the three stages holds the current command, whole, and
\* nothing else.
InStep ==
  /\ pc = "prompt" => requests = <<>>
  /\ pc # "waiting" =>
       serving = <<>> /\ replies = <<>> /\ (alive => requests = <<>>)
  /\ ~alive => serving = <<>>
  /\ pc = "waiting" =>
       \/ requests = Line /\ serving = <<>> /\ replies = <<>>
       \/ requests = <<>> /\ serving = Line /\ replies = <<>>
       \/ /\ requests = <<>> /\ serving = <<>>
          /\ \A i \in 1..Len(replies) : replies[i] = sent

\* Inductive: every step of either program, or the end of the server, keeps it.
IInv ==
  /\ TypeOK
  /\ pc = "waiting" => buffer = <<>> /\ size > 0
  /\ ShownIsAnswer
  /\ ~cut => InStep
=============================================================================
