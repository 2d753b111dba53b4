# Verification of the Tölvusamskipti programs

TLA+ models of the network programs of the repository, TLC configurations that
check them on small instances, and TLAPS proofs of the safety properties for
every value of the constants. Paths below are relative to `src/`.

## 1. Inventory

The repository holds small C++ programs for a networking course. They share no
code; what makes each of them hard is the other end of its network.

| component | state it keeps | operations | interacts with | hard behaviour | what makes it correct |
|---|---|---|---|---|---|
| TCP command server (`vika1/server_modified.cpp`, `vika1/server.cpp`) | `clients` map, `openSockets`, `readSockets`, `maxfds`, `n`, `clientSocketsToClear`, one shared `buffer` | the `select` round, `accept`, `closeClient`, `clientCommand` | any number of clients; the kernel, which reuses descriptors; commands run by `system` / `popen` | peers act between any two statements; descriptors close during the walk over the map; results and lengths nobody tests; commands and a `send` that keep the only thread | map, sets and kernel agree; every client is polled; nobody is closed or starved; a command is its sender's |
| clients (`vika1/client.cpp`, `vika1/client_modified.cpp`) | socket, last line entered, receive buffer | send one command; prompt / send / recv loop | the server, over two byte streams without message borders | one `recv` is taken for one request or one answer, whatever its length | what is run was entered; what is shown was printed by the command it is shown under; the prompt comes back |
| TCP knocker (`vika1/fimmttimi.cpp`) | one socket | connect, send, receive | a course server | none | - |
| port probes (`vika5/scanner.cpp`, `scanner1.cpp`, `scannernew.cpp`, `identify_ports` of `chat.cpp`, `identify_port_with_retry` and the first loop of `main` in `puzzlesolver.cpp`) | port, attempt, socket, list of ports heard | open, send, receive with a timeout, retry | UDP services | late and duplicated answers, also to the scan before; the kernel reuses local ports; sends and sockets fail | an answer is put down to the port it came from; losses cost a port only when every attempt failed; the scan ends |
| S.E.C.R.E.T. exchange (`solve_secret_port`, `extract_port_from_response`) | `attempt`, `signature`, `secret_hidden_port` | two request/answer loops of three attempts | a UDP service that draws a new challenge per hello | a retry overtakes the answer to the first try | success means the service confirmed this signature and told this port |
| checksums (`compute_udp_checksum`, `compute_icmp_checksum`, the search in `solve_checksum_port`; `checksumCalc` of `puzzlesolver1.cpp`) | `sum`, `i`, the packet | add, fold, complement; try all data bytes | the checksum service | carries, byte order, odd lengths, a search that may fail | the RFC 1071 checksum; the packet sent is valid |
| port knocking (`solve_knocking_port`, `knock_hidden_port`) | `knock_sequence`, the place in it | send the list, one socket and one wait per knock, `FINALIZE` | the knocking service and the hidden ports it guards | knocks are lost, late or overtaken; nobody looks at their answers | a finished sequence is complete unless a knock was lost; success means it was |
| course of the solvers (`main`, `solve_evil_port_with_raw_socket`, the exchanges of `solve_checksum_port`, `send_icmp_bonus`; `puzzlesolver1.cpp`; `chat.cpp`) | signature, instruction, hidden ports, phrase, the socket of the step | one function per puzzle, in a fixed order | three UDP services, ICMP; the functions hand each other what they were told | one-shot sends, ignored results, one socket for many exchanges, answers of an earlier step | each step uses what the step before was really told |
| UDP example (`vika7/example_server.cpp`, `vika7/example_client.cpp`) | a socket, a 25-byte buffer | send lines; print datagrams until an empty one | each other | the closing datagram is lost or overtakes others | the server prints what was sent and ends |
| glue (`vika5/master.sh`, the end of `scannernew.cpp`, `vika5/Makefile`) | none | pass the scanner's output to the solver | scanner, solver | a port is missing from the list | four ports arrive |

## 2. Modules

| module | models | state and actions in terms of the code |
|---|---|---|
| `SelectServer` | `server_modified.cpp`; `server.cpp` when `Popen = FALSE` | The variables carry the source's names. `Select`/`SelectFails` are the top of a round with its `memset` and `clear`; `Accept`/`AcceptFails`/`NothingToAccept` the block at 257-271, sharing `Register`, the untested registration of whatever `accept` returned; `RecvEnds`/`RecvMessage`/`WalkEnds` the walk over the map with `closeClient` inside and `clients.erase` after it; `Report` the bottom of the loop; `NoReply`/`RunCommand`/`CommandEnds`/`Send...` `clientCommand`, in which the thread is in the command (`"running"`) until that ends, if it does. A `recv` takes at most `RecvCap` units, and what does not fit is left for the next round. `owner`, `queue`, `pending`, `unread`, `peer` are the kernel: descriptor table (lowest free descriptor first), accept queue, socket buffers, and what each remote end has done. Peers (`Connect`, `Request`, `ReadReply`, `HangUp`) step between any two steps of the server. |
| `CommandService` | what the select servers promise | no descriptors, sets or rounds: `Arrive`, `Ask`, `Leave` by clients, `Admit` in order, `Serve`, `Release`, and `Break` by a client that leaves while it is served |
| `SelectServerRefinement` | the refinement mapping | `line` is the accept queue, `admitted` the connections with a descriptor, `released` those opened and in neither place, `asked` those with unread requests, `down` the end by SIGPIPE |
| `RemoteShell` | `client_modified.cpp` with `clientCommand` | `requests` and `replies` are the two byte streams; `Enter`, `ClientReceives`, `ServerReceives`, `ServerAnswers` are the send/recv calls; a unit of a line or of an output carries the number of its command. A line has any number of units; a `recv` takes any part of what the stream holds, the server's at most `ServerCap` units (its 1025 bytes), the client's at most `RecvCap`, so that a line may be read in parts, with the one before, or with the rest of it. `cut` and `silent` are histories: a `recv` of either side has left some of its stream behind, a request was answered with nothing. |
| `SecretPort` | `solve_secret_port` and its service | `Open`, `GiveUp`, `SendHello`, `SendSignature`, `SendFails`, `ReceiveChallenge`, `ReceivePort`, `Timeout` are the branches of the two loops; `DrawChallenge`, `CheckSignature` the service, known only from the solver's comments (external) |
| `PortScan` | the five port probes | `program` says which one; `Open`, `Send`, `Receive`, `Timeout` are the calls in its loop, `OpenFails` and `SendFails` the `continue`s and ignored results; `NextPort` and `TryAgain` the loop heads. How long a socket lives, how often a port is asked and what a failed call costs are the differences between the five. `responders` are the ports that answer; `leftover` are greetings to an earlier scan still under way, because `master.sh` (lines 5 and 13) runs the scanner on the same ports directly before the solver. |
| `Knocking` | `solve_knocking_port`, `knock_hidden_port`, `send_and_receive` and the service | `SendList`, `ReceiveList`, `KnockNext`/`KnockFails`, `ReceiveThanks`, `AllKnocked`, `SendFinalize`, `ReceiveFinal`, `Timeout` are the calls and branches; `HearList`, `HearKnock`, `HearFinalize` the service, known only from the solver's comments (external). A knock is the place it has in the sequence, since each has a socket of its own. |
| `Checksums` | the three checksum functions | `AddWord` is an iteration, `AddTail` the odd byte, `FoldCarry` an iteration of `checksumCalc`'s second loop, `Return` the folds and the complement; bytes have `Half` values, words `Half * Half` |
| `ChecksumSearch` | the search in `solve_checksum_port` | extends `Checksums`: once the sum of the fixed words is known, `Begin` takes the requested checksum, `Mismatch`/`Match`/`NoMatch` are the loop |
| `PuzzleSolver` | `main` of `puzzlesolver.cpp` from the greeting on, `puzzlesolver1.cpp`, `chat.cpp` | `program` says which. `step` is the exchange: `"hello"` and `"sign"` (`solve_secret_port`), `"evil"`, `"instruct"` and `"packet"` (`solve_checksum_port`), then `"knock"` and `"icmp"`. `Open`/`OpenFails`, `Send`/`SendFails`, `Receive`, `Timeout` are the calls of an exchange with what each program does when they fail; `TryAgain` and `GoOn` the loop heads and returns; `Learn` the assignments from an answer. `Answer` is the services (external), `expected`, `accepted`, `required` what they remember. |
| `SolverExchange` | how `puzzlesolver`'s first two steps are `SecretPort` | the refinement mapping from `PuzzleSolver`: `ExchangePc`, `ExchangeAttempt` and `ExchangePort` are where `solve_secret_port` is, `ExchangeRequests` and `ExchangeReplies` its datagrams among those under way. The model of one function by itself is the abstract specification of the course that calls it. |
| `DatagramExample` | `example_server.cpp`, any number of `example_client.cpp` | `Bind`, `Receive`, `ReceiveFails` are the server's calls, `Send`, `SendFails` a client's; `unread` is the socket's queue with room for `Room` datagrams, `refused` the error a client finds on its socket, `Deliver` the network |
| `MC*` | the instances for TLC | |
| `*Proofs` | the theorems | see section 5 |

Abstractions. Text is the connection (or command) it came from, so that a
property can say whose bytes are interpreted; wording, logging and addresses are
left out. A challenge is a number, a signature the challenge it was XORed from:
with one secret XOR tells challenges apart. `extract_port_from_response` is the
number it finds: the hidden port in the port answer, another number in a
challenge whose bytes happen to read like a port (`PortLike`), none otherwise.
In `PuzzleSolver` a number or phrase taken from an answer is the step whose
answer it was, so that a property can say where it came from; an instruction is a
number, and it is unreadable when one of its last six bytes is zero (`ZeroBytes`),
because `send_and_receive` has made a string of the datagram.
Undefined values are choices: what the stack left in `openSockets` (`StackBits`)
and whether the uninitialised `clientLen` is negative as an int (`StackLens`).
`FD_SET(-1, ...)` touches one other bit (`MinusOneBit`, 63 on x86-64).
`SO_RCVTIMEO` is a `Timeout` action that may fire at any time.

A network (`wild`) is either one that loses datagrams and delivers the others
once and in time, or one that also delays, duplicates and reorders. In the latter
a datagram sent stays deliverable for ever, which covers every duplication and
delay; never delivering it covers loss.

Definitions commented "Seeded fault" are variants of a definition with a
plausible bug in it. No specification uses them: they are put in the place of the
definition to see that the properties notice.

## 3. Runs

Runs that must pass:

| run | question | bounds, and why they are enough |
|---|---|---|
| `SelectSafety` | With descriptors to spare, do map, sets and kernel agree, is every client polled, is nobody closed who is not done, is every socket counted handled? | 3 connections over descriptors 2..4, bits of two standard descriptors on the stack, requests of up to 3 units of which a `recv` takes 2, 2 units of reply, 1 unit of socket buffer: a descriptor in the middle or at the top closes and is reused in the same round while another client is served, a request is read in two rounds, a send blocks half way. 6.1 million states. |
| `SelectGarbage` | The same for any stack contents, any `clientLen` and an `accept` that fails: what is lost? | 3 connections for 2 descriptors, so that they run out; the bit of -1 is one of them; stacks that hold standard, open and unreachable bits. The instance is `server.cpp` (`Popen = FALSE`). |
| `SelectService` | Does the server implement `CommandService`, liveness included, although a command and `send` keep the only thread? Is every request read to its end? | 2 connections, requests of up to 3 units of which a `recv` takes 2, answers three times the socket buffer: one client's command never ends, or it does not read, or leaves and ends the server by SIGPIPE, while the other waits. `server.cpp`, which never answers, differs only in what follows a command. |
| `SecretExchange` | Does success mean what it should over both networks, and does the function return? | 3 challenges, one of them port-like: one signed, one drawn later, one misread. All 3 attempts of both loops. |
| `ShellSession` | When do client and server fall out of step, and does the prompt come back? | 4 commands, lines of 1 to 3 and outputs of 0 to 3 units, each `recv` takes up to 2: lines and outputs are whole, cut or in pieces, outputs are empty, the client gets ahead of the server, two lines or the tail of one and the next are read at once; a command may never end and the server may die at any time. |
| `ChecksumsAndSearch` | Are the functions the RFC 1071 checksum, and is the packet sent valid? | bytes of 2 bits, all buffers of up to 3 words and an odd byte, all requested checksums. Three words produce every carry the folds can meet: 0, 1 and 2 in the high word, and a fold that carries itself. |
| `ScanProbes` | Attribution, order, completeness and termination of the five probes | 3 ports, of which the outer two or all answer; 2 local ports, so that sockets differ or collide; with or without a greeting of the last port, left by an earlier scan, under way to one of them. |
| `KnockSequence` | Is the sequence complete when the loop ends, and what does success mean? | sequences of one knock, of one port twice, of a port that comes back, of three ports; services that refuse with a text or are silent; both networks. |
| `SolverCourse` | Does each step of the three solvers use what it was told, do the steps of `solve_secret_port` within the course implement the exchange modelled by itself, and does each program end? | 2 challenges, one of them port-like; 2 instructions, one that holds quotes and one with a zero byte, so that a solver may hold an outdated one; 3 local ports, one for each socket of `puzzlesolver`, which the kernel may also give twice; with or without a greeting of the scan still under way; both networks. |
| `DatagramDelivery` | In which order are lines printed, what may be missing, and does the server end? | 2 clients; 3 messages: one longer than the buffer, the empty one, and the short one after it, as at the end of the client's list; room for 2 datagrams, so that the queue overflows; the server may bind late; one host or a wild network. |

Runs that must find a violation, each of a statement a comment, a message or the
README of the repository makes:

| run | statement | what happens |
|---|---|---|
| `SelectResidue` | the text given to `clientCommand` is the message of its client | `buffer` is cleared once per round and `recv` adds no NUL: a short message is parsed with the tail of a longer one read earlier in the round |
| `SelectSigpipe` | a client that leaves is a "Client closed connection" | `send` to a client that has left raises SIGPIPE and ends the server |

`CHECK_DEADLOCK FALSE` in every configuration, because all of these systems stop:
each connection of the server is used once, so at the end it waits in `select` for
nobody; the exchanges, scans, sums, courses and sessions end.

Further divergences can be seen by changing a configuration: `SelectGarbage` with
`EveryClientPolled` or `OpenSocketsAreOpen` (the -1 a failed `accept` returned
becomes a client, its `FD_SET` makes `select` fail and its `FD_CLR` takes a live
client out of the set), or with `AllHandled` (the -1 and the client whose bit it
shares are counted once and handled twice). `SolverCourse` with `UsesLastSixBytes`,
what `vika5/puzzlesolver.cpp:623` and `630` say of the instruction, finds the zero
byte: `send_and_receive` (line 380) makes a string of the datagram that ends at its
first zero byte, and with one among the last six, as an address like 10.0.0.1 has,
the packet is built from the bytes before it.

Other properties name a divergence as an exception they allow:

- `ShownIsAnswer` and `RunsAsEntered`: one `recv` is not the whole output
  (`vika1/client_modified.cpp:61`), or not the whole line
  (`vika1/server_modified.cpp:280`); what is left is shown or run with the next.
- `PromptReturns`: a command without output leaves the client in `recv` for ever,
  as does one that never ends.
- `RequestServed`, `ServiceSpec`: a command that never ends, or a client that never
  reads its output, stops the service of all the others
  (`vika1/server_modified.cpp:174-188`).
- `SuccessIsComplete`: any datagram passes for the confirmation.
- `AnswersArePorts`, `KnocksWithTold`, `SignatureIsDrawn`: nobody looks at who sent a
  datagram, so one that was late passes for the answer of the present step if it
  reaches its local port and reads like it.
- `AllFoundAreRight`: four greetings can be put down to the wrong ports although four
  were heard, when one of them was to the scan that ran before.
- `PacketFitsInstruction`: that zero byte, in `puzzlesolver` only, and
  `puzzlesolver1` when it goes on although it was refused or told nothing.

`SecretPort!SignatureIsCurrent` is false
under `SecretExchange`: a hello that was only late makes the service draw a second
challenge, and no retry of step 2 recovers. `closeClient` never lowers `maxfds`,
whatever the comment at `vika1/server_modified.cpp:131` says, because the closed
client is still in the map and `maxfds` itself is the starting point; nothing
depends on it.

## 4. Fairness

- `SelectServer!FairSpec`: weak fairness of the server's thread as a whole. It is
  one thread; when it is not blocked in `select`, in `send` or in a command it runs.
  `CommandEnds` is not part of it: a command is the client's choice and owes nobody
  an end. Nothing is assumed about peers either: none has to ask, read or leave.
  What the code can promise is therefore conditional: `RequestServed` holds, or from
  some point on the thread is kept for ever (`<>[]Occupied`) by one client's command,
  or by a `send` whose client never reads.
- `CommandService!FairSpec`: admission, and service and release of each connection.
  `SelectService` shows that one fair thread gives each client its own fairness
  (`Service!Fairness`) until the service breaks down, under the same condition; the
  safety part `Service!Spec` holds without it.
- `RemoteShell!FairSpec`: both programs run and the server comes round to this
  client; the user has to enter nothing and no command has to end
  (`<>[](serving # <<>>)` is the exception in `PromptReturns`).
- `SecretPort!FairSpec`, `PortScan!FairSpec`, `Knocking!FairSpec`,
  `PuzzleSolver!FairSpec`: the program runs, and a blocked `recvfrom` ends because
  `SO_RCVTIMEO` is set. Nothing is assumed about the network or the services.
- `DatagramExample!FairSpec`: the server binds and reads what has arrived, and each
  client gets through its list; the network owes nobody a delivery. `recv` has no
  timeout here, so `EndsUnlessLost` needs the datagram that ends the loop.

## 5. Proofs

All theorems are checked by TLAPS to the last leaf. They hold for every number of
connections, descriptors, ports, attempts and challenges.

- `SelectServerProofs`. `EveryClientPolled` and `TableMatchesKernel` are not
  inductive. The first half of `IInv`, `DescriptorInv`, adds where the walk stands
  relative to the descriptors it has closed (`WalkInv`: entries to be erased lie
  behind `cursor`, so a closed client is not met again, and none is left when
  `accept` runs), that `accept` is called only with a connection waiting
  (`QueueInv`), that `maxfds` bounds the map (`MaxInv`), and which bits below
  `maxfds` can be stale (`BitsInv`). The last one carries the argument about the
  uninitialised `fd_set`: the kernel hands out the lowest free descriptor, so every
  descriptor up to `maxfds` was opened once, and `closeClient` cleared its bit; only
  the bit of -1 escapes. One lemma per action, combined by `NextDescriptors`. From
  it: `TypeCorrect`, `TableAgreement`, `OthersPolled`, `GarbageHarmless`
  unconditionally, and `AllPolled`, `OnlyOpenWatched` as long as `accept` does not
  fail. That is a condition on the behaviour (`AcceptSucceeds`, no step is an
  `AcceptFails`), not on the descriptor limit or the stack; `NoFailureHolds` is what
  it gives: -1 is never a key of the map, so that each bit is one client's. The second half, `RoundInv`, is
  about the readiness `select` reported, which is used after other calls have been
  made: the descriptors the walk has still to come to (`Ahead`) stay open and ready
  (`ReadyInv`), because `accept` takes a free descriptor and a client is read or
  closed once; no connection is in two places (`PlaceInv`) or in none before its
  peer has hung up (`LiveInv`); `n` counts no more than what is ahead, a visit takes
  exactly one off (`Visit`), and at the end of the walk nothing is ahead
  (`CountInv`, `WalkPassesAll`); what `buffer` holds was read behind the cursor
  (`BufferInv`). From it: `OnlyStdLeft`, `ReadThisRound`, `ClosesFinished`
  unconditionally. `AllCounted`: as long as `accept` does not fail, what `n` counts
  at the bottom of a round is exactly the standard descriptors the stack had put into
  the set; its invariant `ExactInv` makes the count exact. `Implements`: with a usable
  `clientLen` every step of the server is a step of `CommandService` or none of its
  own, that is `Spec => Service!Spec`.
- `SecretPortProofs`. `IInv` adds which datagrams can be under way in which step:
  before step 2 no signature has been sent, from then on only one (`ConfirmInv`);
  and when datagrams are only lost the hello or one challenge, never both
  (`LossyInv`). From it `TypeCorrect`, `SolvedConfirmed`, `LossIsHarmless`.
- `PortScanProofs`. `IInv` adds that datagrams under way were sent (`NetworkInv`),
  how far the loop is (`LoopInv`: ports before the present one are settled, of
  the present one exactly the attempts so far have failed), and that nothing is
  heard from a port before its turn (`TurnInv`), so that when all were heard a late
  greeting has nowhere to go. Only a greeting to an earlier scan can be heard before
  the turn of its port, at a local port used again (`LeftoverMet`): `TurnInv` holds
  until one was. From it `Attribution`, `Completeness`,
  `Identification`.
- `RemoteShellProofs`. `IInv` adds `InStep`: until a `recv` of either side leaves
  something behind, at the prompt nothing is under way, and during a wait exactly one
  of the three stages (request stream, server, reply stream) holds the current
  command, whole. From it `TypeCorrect`, `ShownInPlace`, `OneAtATime`, for lines and
  outputs of any length, buffers of any size and any pieces.
- `KnockingProofs`. `IInv` adds, for a network that only loses, that what is under
  way is the datagram of the present `send_and_receive` or its answer
  (`NetworkInv`), so that a knock cannot overtake another, and that `progress` has
  reached the present knock exactly when all knocks so far have been heard, before
  and after the one under way arrives (`KnockInv`). From it `TypeCorrect`,
  `CompleteSequence`, `SuccessMeans`, for every sequence, repeated ports included.
- `PuzzleSolverProofs`. `IInv` adds which program comes to which step
  (`CourseInv`), that a datagram under way belongs to a socket that was opened and to
  no later step (`SocketInv`), that every request carries the one signature, a
  port is told only for one that is confirmed, and only a greeting of the scan that was
  met sends it elsewhere (`SignatureInv`), where the ports and
  the phrase have come from (`ToldInv`), and, when datagrams are only lost, that at
  most one is under way, of the present step, and what was received last is what the
  service gave last (`LossyInv`). From it
  `HandsOverWhatWasTold`, `PacketIsCurrent`, `SignsWhatWasDrawn`, for all three
  programs, any challenges, instructions and local ports.
- `DatagramExampleProofs`. `IInv` adds, on one host, that what a client has sent is
  lost, unread or printed, and that what is unread of a client is in order and comes
  after what is printed (`LocalInv`). From it `PrintsAsSent`, for any number of
  clients, any list of messages and any room.
- `ChecksumProofs`. For every word width: two folds of a full accumulator leave a
  word that is equal to it modulo `Mask` (`TwoFoldsSuffice`) and is the one's
  complement sum of RFC 1071 (`TwoFoldsAreOnesSum`), which is why
  `compute_icmp_checksum` is right and one fold is not enough. From it the result
  for every buffer. RFC 1071 defines the sum of a whole buffer, a recursive function
  `Sums`; that the function exists, that its values are naturals and what a word
  more does to it is proved by induction through sets (`SetInduction`: every set of
  naturals with 0 and successors holds all; `SumsExist`, `SumsType`, `SumsAppend`).
  The inductive invariant `SumInv` relates the accumulator to the words read so far:
  for `compute_udp_checksum` it is their sum; for `compute_icmp_checksum`, which
  reads them in the byte order of the host, it is the sum of the exchanged words,
  and exchanging bytes is a multiplication by `Half` modulo `Mask` (`SwapShifts`),
  so that the result is right once exchanged back; `checksumCalc` folds in its own
  loop and never passes from a positive sum to zero. No accumulator overflows,
  because a length field bounds the number of words (`NoWrap`). From it
  `IcmpChecksum`, `UdpChecksum`, `FirstChecksum`. The search runs after the sum of
  the fixed words is known (`SearchUsesChecksum`) and tries every value of the last
  word: the folds of the sums it meets are the numbers from the carries upwards
  (`FoldsOfSums`), from which `SentIsValid` says for which requests the packet sent
  is valid, and `SearchInv` what the packet holds when the loop ends without a
  match. `TypeCorrect`: no sum leaves the accumulator.
- The refinement of `SecretPort` by the course is in `PuzzleSolverProofs`.
  `ExchangeInv` adds what holds while no greeting of the scan is under way: the
  solver talks to the S.E.C.R.E.T. service, only datagrams of the five exchanges are
  under way, the port is unset until the exchange is over, and how a loop that
  failed was left. Each action of the course is then one of the exchange, of its
  service, or changes nothing the exchange sees (`AnswerPlays`, `OpenPlays`,
  `SendPlays`, `FailurePlays`, `ReceivePlays`). From it `CoursePlaysExchange`, step
  by step, and `CourseImplements`, `Spec => Exchange!Spec`, for `puzzlesolver` on
  any network when the scan has left no greeting under way. The greeting is the one
  exception: its answer may pass for the challenge, which the exchange by itself does
  not know of.

Termination has a half that is about safety, and it is proved (`CountsDown` in
`SecretPortProofs`, `KnockingProofs`, `PortScanProofs`, `PuzzleSolverProofs` and
`ChecksumProofs`, there also `SearchCountsDown`): a rank, a natural that is 0 only at
the end, is lowered by every step of the program and raised by nothing the services
or the network do. The ranks bound the steps of a program by its attempts, ports,
knocks or words alone: no failed call, retry or late datagram makes a loop start
over. For `checksumCalc`, whose second loop has no counter, the rank holds the sum,
which a fold makes smaller as long as it has a carry (`FoldShrinks`).

Assumptions are those named in the modules: descriptors and bounds are naturals,
the listening descriptor is below the bit of -1, the hidden port is a valid port
and no challenge is 0 (`signature = 0` means unset), a byte has at least two
values, and a buffer has no more than `Half * Half` words (65536 in the code, whose
buffers are IPv4 packets with a 16-bit length).

Only model-checked: all liveness (the fairness part of `ServiceSpec`,
`RequestServed`, `Returns`, `PromptReturns`, `Ends`, `EndsUnlessLost`), which is out
of the prover's reach: the ranks say that a program does not go on for ever, the
runs that it does not stop before its end. Every invariant and every action property
of a passing run is proved.

## 6. Not modelled

- `open_socket`, `listen`, `connect` and argument parsing: straight lines that end
  the program when they fail; the models start after them.
- Memory: the `Client` objects never freed, what lies behind a `buffer` filled to
  the last byte, the NUL `strcpy` writes behind `message` in `knock_hidden_port`.
- What a command run by the server does to the server's host, and the descriptors
  it inherits; out-of-band data (`exceptSockets` is never looked at); signals other
  than SIGPIPE.
- In `PuzzleSolver`: the choice of source address and headers of the raw packet, the
  ports themselves (`PortScan` says which were found), and `connect` on the shared
  socket of `puzzlesolver1.cpp`, after which it receives nothing any more. The
  64 KiB search for the data bytes is `ChecksumSearch`, the knocking is `Knocking`;
  here they are their outcomes.
- What `checksumCalc` is used for after it returned: the caller stores the result
  without `htons` (`vika5/puzzlesolver1.cpp:280`), so that the wire carries it with
  its bytes exchanged.
- The command lines of `master.sh` and at the end of `scannernew.cpp`. `scannernew`
  passes three ports and no address, so that the solver prints its usage.
- `vika1/fimmttimi.cpp`, `scanner_olli.cpp` (commented out), the LaTeX source,
  binaries and notes: no behaviour with a second actor or a loop.

## 7. Plan

Done, in this order: `SelectServer` with `CommandService`, the refinement and
`SelectServerProofs`; `RemoteShell`; `SecretPort`; `Checksums` and
`ChecksumSearch`; `PortScan`; `Knocking`; `PuzzleSolver`, in which the exchanges
with the evil and the checksum service are checked from the states `main()` really
calls them in; `DatagramExample`; each with its proofs.

The invariants of all runs, both refinements and the ranks of the programs that end
are proved. Left: a rank for `DatagramExample`, whose ending depends on the network,
and one for a round of `SelectServer`.
