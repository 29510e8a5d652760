# A verification development for the CS250 network programs

The repository is a course's worth of network programs: the author's own servers
and clients over UDP and TCP, a select() chat, a forking file server and a
threaded console toy, and the source code of the course book (UNIX Network
Programming, volume 1), whose programs the author's start from. Each is short,
sequential to read and hard to test: what goes wrong in them goes wrong between
two processes, in the kernel's queues, between two instructions a signal falls
between, or in the thousandth message. This directory models the programs in
TLA+, checks small instances with TLC and proves central invariants, for every
value of the parameters, with TLAPS.

Paths below are relative to `src/`; `UNP/` is `Book Source Code/unpv13e/`.
Nothing trusts a comment: a definition is what the C code does, and where a
comment says otherwise a run may show it as a *finding*.

## 1. The system

### Inventory: the author's programs

| Component | Source | State it keeps | Operations |
|---|---|---|---|
| Packet loss calculator | `UDP Packet Loss Calculator/` | counters, last payload | send; receive, report |
| Chat client | `UDP Chat/UDPChatClient.c` | descriptor set, timeout, buffer | name, select, time out, receive, send, close |
| Chat daemon | `UDP Chat/UDPChatServer2.c` | socket | become a daemon, receive and print |
| TCP chat server, client | `UDP Chat/Select/TCPServer.c`, `TCPClient.c` | `client_socket`, `readfds`, `max_sd` | select, accept, disconnect, broadcast |
| File server, client | `Project1 HTML Client Server/ServerM.c`, `Client2.c` | listening socket; child: file, buffers | accept, fork; receive, open, send, end |
| Bouncing faces | `UDP Chat/Multithreading/Bounce.c` | `ThreadNr`, two mutexes; a thread's face and place | start, stop all; draw, move, wait |
| Echo server, client (HW1) | `HW1 Echo Client Server/` | current connection, buffer | accept, receive, send; write, read, close |
| Command server, client (HW2) | `HW2 TCP/RhettDavid-hw2.cpp`, `EchoClient.cpp` | buffers | receive, run, send; write, read |
| Receivers and senders (HW3, labs) | `HW3 UDP/`, `Book Source Code/Labs/` | socket | send; receive and print |
| Date server, client (HW4) | `HW4 UDP Command/RhettDavid-hw4.c`, `Labs/Lab8Test.c` | buffer, last sender | receive, run or refuse, send |
| select() example | `UDP Chat/Select/ServerExample.c` | `active_fd_set` | accept, read, close |

### Inventory: the book's programs

| Component | Source under `UNP/` | State it keeps | Operations |
|---|---|---|---|
| Echo clients | `lib/str_cli.c`, `select/`, `advio/`, `nonblock/strcli*.c`, `threads/strclithread*.c` | buffers, stdio's and Readline's | read input, write, read echo, print, end |
| Echo servers | `tcpcliserv/`, `unixdomain/`, `threads/tcpserv0[12].c` | children, pending SIGCHLD | accept, fork or start a thread, serve, bury |
| Servers around select() | `tcpcliserv/tcpserv{select,poll}01.c`, `nonblock/tcpservselect03.c`, `udpcliserv/udpservselect01.c` | `client[]`, `allset` | select, accept, echo, close |
| Web clients | `nonblock/web.c`, `threads/web0[123].c` | flags of each file, counters | connect, request, read, join |
| Designs of one server | `server/` | children or threads, pipes, a ring, locks | accept, pass on, serve, bury, stop |
| Opening sockets, daytime | `lib/tcp_*.c`, `lib/udp_*.c`, `names/`, `intro/` | walk over addresses | socket, bind, connect, ask, answer |
| getaddrinfo() | `libgai/`, `libfree/getaddrinfo.c` | list under construction | check, search, add, free |
| Conversions, checksum | `libfree/inet_*.c`, `in_cksum.c`, `sock/crlf.c`, `write.c` | - | convert |
| Out-of-band data | `oob/tcp{send,recv}0?.c` | mark, exceptional condition | send, select, recv, sockatmark |
| Heartbeat | `oob/heartbeat*.c` | missed periods | alarm, urgent byte, give up |
| UDP echo | `lib/dg_*.c`, `udpcliserv/`, `advio/udpserv0[34].c` | - | send, receive, compare addresses |
| Retransmitting client | `lib/rtt.c`, `rtt/` | sequence number, estimator, timer | send, time out, receive, update |
| Waits with a timeout | `bcast/`, `mcast/dgclibcast1.c`, `advio/dgclitimeo?.c` | alarm, mask, pipe | send, wait, print, be interrupted |
| Signal-driven server | `sigio/dgecho01.c` | ring of datagrams | handler: fill; main: block, send |
| ICMP daemon | `icmpd/` | table of clients and ports | accept, take descriptor, route errors |
| ping | `ping/` | counters, `rcvd_tbl` | alarm: send; receive, count |
| traceroute | `traceroute/` | `seq`, `gotalarm` | send, receive, decide |
| UDP checksum test | `udpcksum/` | timeout, jump buffer | query, read capture, time out |
| SCTP | `sctp/` | streams, parts of messages | receive, echo, peel off, abort |
| The traffic program sock | `sock/` | descriptor set, options | open, loop, source, sink, fork |
| Interfaces, routing, keys | `lib/get_ifi_info.c`, `route/`, `libroute/`, `key/` | buffers of the kernel's records | fetch, walk, look up; ask, read |

### How components interact

By messages through the kernel, almost always: UDP datagrams (lost, repeated,
reordered, refused), TCP streams (cut anywhere, reset, full), SCTP messages, a
Unix domain stream that carries descriptors (ICMP daemon, `serv05.c`), routing
and key sockets where everybody hears everybody. Within a host by signals (alarms
that come between any two steps), by `fork()` and what the children inherit, and
by memory that threads share under mutexes and condition variables or, as
`Bounce.c` does with `ThreadNr`, without.

### What is hard about them

* **Unreliable delivery.** The UDP programs but one number, repeat and time out
  nothing; what each of them still can promise has to be found out.
* **Streams.** TCP does not keep the boundaries of write(): one recv() may return
  part of a message or several.
* **Stale answers.** select() overwrites the set it is given; an answer of it is
  used while descriptors are closed and given out again; the ICMP daemon's table
  outlives the sockets in it; interfaces change between two ioctl()s.
* **Signals.** An alarm between the test of a flag and the call it is to
  interrupt; SIGCHLDs that merge; a handler that changes a byte while it is read
  and written back; jumps out of calls.
* **Deadlock.** Both ends of a connection writing; a mutex held while joining the
  thread that waits for it; a parent that waits for a signal already gone.
* **Resources that run out.** Slots, descriptors, processes, socket queues, the
  buffers of stdio, memory half way through a list.
* **Undefined behaviour.** Variables read before they are written, an array
  compared beyond its end, null pointers closed. The models choose freely among
  the outcomes the build can produce.

`PROJECT.json` lists each hazard at its line, with the properties that would
catch it.

### What makes each component correct

What is sent arrives whole, in order and where it belongs, or the program says
so; a program waits only for what comes, or its timeout ends the wait; a server
outlives its clients and serves all of them; children are buried, tables hold
what is open and nothing else, and counters count. Where a program does not have
the property its module states exactly when it fails, which is usually the more
interesting statement, and the one a change of the code would break.

## 2. The modules

### The author's programs

* **PacketLoss**: client, network, socket queue, server. `Send` is a turn of the
  client's loop, `Recv` one of the server's, `Report` the printf. With
  `Reorder = FALSE` the network is first-in first-out. The socket need not be
  bound when the client starts. `RecvFails` is the end through err().
* **ChatClient**: client, user and clock. `Ready` is what select() would return;
  `TimedOut`, `SelectError`, `Service` are the branches of the loop, `Receive` and
  `SendLine` those of the last. FD_SET with an uninitialised descriptor sets no
  bit below 6, or that of standard input, of the socket or of a descriptor that
  is not open; a value out of FD_SET's range writes elsewhere and is not modelled.
  `ClientSpec` is the client alone, in any environment; `ChatSpec` is the chat as
  shipped, the client beside a network and the daemon. A failed receive ends
  either program.
* **TCPChatServer**: `Select`, `Accept`, and one action per slot of the scan:
  `SkipSlot`, `Disconnect` or `Message`. `link` is what the socket knows of the
  connection: open, closed by the client, reset, and whether send() has provoked
  or reported a reset. `Broadcast` is the loop over `send(i, ...)`: descriptors
  below `Master` fail, `Master` is the listening socket and raises SIGPIPE,
  others are whatever connection has that number.
* **ForkServer**: `Accept` is accept(), fork() and the parent's close();
  `AcceptFails` the same when accept() has failed: the child that is forked all the
  same has no connection, dies before anything else happens and is only counted, as a
  zombie (`strays`). `ChildReply` is a turn of the child's loop, whose memset() clears
  twice the buffer and may kill the child ("overrun"); `ChildEnds` its end, where
  fclose() of a null pointer kills it. A buffer is two halves; any call may return one.
* **Bounce**: a thread reads the shared counter in three steps (`Seed`,
  `ChooseFace`, `ChooseColor`), then goes round `LockScreen`, `Draw`, `GoOn` or
  `Stop`; `End` gives up hRunMutex with the thread. The path of one face is a specification of its own, `MotionSpec`.
* **EchoService** (HW1) implements **Channel**, the abstract first-in first-out
  channel that may break. **CommandService** (HW2): a
  command is its number, of which one recv() returns several or a part; an answer is
  `AnswerSize` units, the output and then zeros, and the answers run together: a
  read() of `ReadSize` units begins anywhere and may end in the next. The connection
  holds `UpCap` commands and `DownCap` units. `Run` is the popen() loop: the
  command ends, or never does ("hung"), or its output ends the server.
  **UDPCommand** (HW4): the network is two bags; a copy of a request or of an answer
  is a second delivery, and a stranger may send to a client (`Stray`).
* HW3 and the labs' UDP programs are programs of **DgEcho**, and
  `ServerExample.c` is one of **SelectServer**.

### The book's programs

Where the book writes one program several times, one module has them all: a
variable that never changes says which it is (`prog`, `cli` and `srv`, `design`,
`version`, or a record of what the program does), and guards ask it. That is how
the differences between them, which are the book's subject, can be checked.

| Module | Programs | What an action is |
|---|---|---|
| `StrCli` | 10 clients, 2 servers | one call; where a line is, is a counter per place |
| `EchoServers` | 10 with children, 2 with threads | up to the next call a signal may interrupt; handler in steps |
| `SelectServer` | 5 | select(), accept(), one entry of the loop, its read() and its write() |
| `WebClient` | 4 | one connection; a thread's connect, read, lock, count, signal |
| `ServerPool` | 11 designs | accept, pass, take, read, answer, die, bury |
| `Openers` | 8 ways to open, 21 daytime programs | one address of the walk; ask, answer, restart |
| `GetAddrInfo` | both implementations | one search, one entry, one allocation that may fail |
| `Formats` | 7 conversions | one conversion of one input, by functions that follow the loops |
| `Oob` | 6 senders, 7 receivers | one call on either side, the announcement of the mark |
| `Heartbeat` | both ends | an alarm, an urgent byte, a period |
| `DgEcho` | 8 clients, 8 servers | one datagram sent, delivered, compared |
| `ReliableUDP` | client and server | sendto, alarm, sigsetjmp, recvmsg, the estimator's update |
| `TimedWait` | 9 | one call, and the alarm between any two |
| `SignalIO` | 1 | the set-up's steps, the handler's and the main loop's |
| `Icmpd` | daemon and its clients | one service of the daemon's loop, one call of a client; ICMP messages, short ones too |
| `Ping` | BSD's and the book's | read, count, find the repeat; the handler between any two |
| `Traceroute` | over IPv4 and IPv6 | one test, one recvfrom(), the alarm between them |
| `UdpCksum` | 1 | set the jump, send, read, rule the jump out; the alarm between any two; every call may fail and every packet be refused |
| `Sctp` | 8 servers, 4 clients | one message or part of it |
| `SockTCP`, `SockUDP`, `SockServer` | loop, source and sink; options `-h -Z -i -F -W` and others | one call of either end |
| `KernelInfo` | the interface lists, the lookups, 4 programs on routing and key sockets | one ioctl() or sysctl(), one record; an interface changes between any two |

Conventions in all modules: a variable named as in the source is that variable;
`pc`, `spc`, `cpc`, `mpc`, `tpc` say where a program is; one action is the code
between two points another process or a signal can tell apart. An operator
marked *Mutant* is not part of a specification: it says what the definition next
to it would be with a bug that a property must catch. Variables marked *history*
record what a property needs and influence nothing. `map` in `PROJECT.json`
names the lines each definition stands for.

## 3. What TLC checks

There are seven suites and five runs that end in a counterexample. A suite is an
`MC` module that EXTENDS one specification and INSTANCEs others; a variable
(`which`, in `MCHomework` `hw`) says which of them a behaviour is one of, while
the variables of the others keep their first value. So a suite's states are the sum, not the
product, of its members', and each member is checked as if it were alone, with
the fairness it states itself. A suite's property is a conjunction of the
members' named ones; a property of one member holds in the behaviours of the
others because the first state of that member satisfies it. That would not be
so of a property such as `<>(pc = "exit")`, hence liveness is stated
`<>[](which = m => ...)`, or as `[]<>` of something true at the start.

| Run | Members | What the properties say |
|---|---|---|
| `datagrams` | PacketLoss, Icmpd, Ping, Traceroute, UdpCksum, DgEcho, Sctp | the count is one ahead and the printed pair determines the loss; the daemon tells errors to their owner and dies of clients that are gone or of short messages only; ping counts right until sequence numbers come again; a hop is printed for its own probe; the checksum test gives up after all its waits only, and without a failure does not end without a verdict; lines and echoes go together but for known strangers; streams and parts are not mixed unless a sender aborts; and, as one property, what comes to an end |
| `connections` | TCPChatServer, SockTCP, SockUDP, SockServer, EchoServers, Oob | the slot table; who is lost for good and who is heard; what sock prints, what ends a sink, and that its children take turns; who is buried and what the servers die of; which byte is urgent; and, as one property, who gets on and in which known ways one sticks |
| `servers` | ServerPool, Openers, KernelInfo | no connection is lost or held twice; who goes down with whom; how servers restart and clients find them; that lists of interfaces are whole and right and answers one's own; and, as one property, who is served and that clients and programs end |
| `streams` | SelectServer, StrCli, WebClient, GetAddrInfo, Formats | tables and lines in the loop; what a client that ends has printed and read; as one property, every known way for servers and clients to get stuck, and no other; lists whole and memory freed; addresses and sums right |
| `chat` | ChatClient and Bounce, each with its two specifications | the client never receives, has one budget, is deaf after a timeout, prints in the end what nobody lost, and 'q' ends everything; one thread draws and a cleared screen stays so; how far off the screen |
| `homework` | EchoService, CommandService, UDPCommand | implements `Channel`; which answer a read shows, and whose; how each pair of programs ends: all echoed, both writing, a command without an end, or silence for good |
| `signals` | ReliableUDP, TimedWait, SignalIO, Heartbeat, ForkServer | implements `Channel` over a bad network; the timer covers the last round trip; which programs miss an alarm; the ring keeps the order, and what the set-up overlooks; who is given up; children, port and a client out of step; and, as one property, that the waits of all five end |
| `tcp_chat_echo`, `bounce_faces`, `bounce_done`, `traceroute_v6`, `pton_full` | one specification each | the findings of section 5 |

Every property of a passing run has a mutant in `PROJECT.json` that breaks it.
CHECK_DEADLOCK is off everywhere: the programs end, or wait for a user who
types nothing. That a program is not stuck for another reason is what the
liveness properties say: `AllServed` and `Settles` (in `GetThrough`), `WaitEnds`,
`ComesToAnEnd`, `WhatBlocks` (in `ReadsEnd`), `OnlyBothBlock` (in `AllGetOn`)
and others name all ways to be blocked.

### The bounds, and why they are enough

* Counters of the code (1 000 000 datagrams, 30 slots, 32 threads, 10 seconds, 16
  colours, 65 536 sequence numbers) appear in comparisons only; the instances are
  chosen so that each comparison goes both ways, and that a wrap, a full table and a
  full queue happen. Where there is a proof it removes the bound.
* Three clients and two slots: one too many. With a listening descriptor of 1, slot
  1 is what slot 3 is otherwise (`tcp_chat_echo` has 3 and four slots).
* Two or three lines, requests or datagrams: the fewest for an answer to be taken for
  that of another, and to stay so. Two copies: a duplicate of a duplicate.
* `CommandService`: answers of three units and reads of two: the second of three reads
  ends in the next answer, as in the code (1024 bytes and 100) the eleventh does. Two
  commands up and three units down make both directions full; four commands reach that.
* `UDPCommand`: one client's requests and answers may be doubled, the other's not;
  one stranger's datagram at a time. `SockUDP`: one stranger's datagram at a time for
  each end that is not connected. `Icmpd`: one short message, of which one is enough.
* `ForkServer`: one child besides the server, so that the second connection ends the
  server and the third finds its port still open.
* `SelectServer`: two lines, of which the second may be the first half of one.
* `ServerPool`: three connections and two workers, one more than can be served at once;
  the ring has two places and goes round.
* `SignalIO`: five datagrams through a ring of two, so that both indices wrap.
* `WebClient`: limits on connections from 0, which main() accepts, upwards.
* `Ping`: two sequence numbers and four packets. `rcvd_tbl` is one byte.
* `ReliableUDP`: timers from 2 to 4, datagrams that live 4: longer than the first
  timer runs, so an answer comes after its request was repeated. The
  estimators are in 64ths of a second.
* `Formats`: groups of three bits make all carries of a sum and, as every value but
  zero is alike to the algorithm, all shapes of an address.
* `KernelInfo`: two interfaces with aliases, two changes, buffers that are too small
  once. `Oob`, `Sctp`, `SockUDP`: the book's scripts, which are this short.

### Fairness

Programs get weak fairness on what they can always do: a process that is not
blocked runs, and so do the handlers of pending signals and timers that have been
set. Users are never fair: nobody has to type, connect or quit. Networks are fair
only in that a datagram does not stay in flight for ever (`PacketLoss`, `ChatClient`);
whether it is delivered or dropped is open, and elsewhere it may stay. Clients
that were sent an echo read it only where the client program has nothing else to do.
`Bounce` uses strong fairness for main's wait for the screen, since Windows serves
the waiters of a mutex in the order they came.

## 4. What is proved

Seven modules hold theorems for all values of the constants, one beside each
suite or the larger of its members. Each follows the same argument: an inductive
invariant, that it holds initially, that each action preserves it (one lemma per
action), and that it implies the property; a temporal step puts them together.
Every inductive invariant was checked with TLC before it was proved.

| Theorem | Statement |
|---|---|
| `DatagramsProofs!TypeCorrect` | types, loop bound and queue bound of `PacketLoss` |
| `DatagramsProofs!CountIsOneAhead`, `LossIsDifferencePlusTwo` | `CounterOneAhead`, `LossFormula` |
| `DatagramsProofs!PingCountsRight` | `PingRight` |
| `DatagramsProofs!VerdictsRest` | `UdpCksumRight` |
| `DatagramsProofs!ResultsAreOwn` | `TraceRight` |
| `DatagramsProofs!EchoInStep` | `DgEchoRight` |
| `DatagramsProofs!ToldOfItsOwn` | `DaemonRight` |
| `DatagramsProofs!SctpAnswersAreOwn` | `SctpRight` |
| `ChatProofs!ReceiveIsDeadCode`, `OneBudget`, `DeafAfterTimeout` | `NeverReceives`, `IdleBudget`, `DeafForever` |
| `ChatProofs!ClosedByName` | the safety half of `OnlyNamesEndIt` |
| `ChatProofs!ChatInvariant`, `ShippedNeverReceives` | beside network and daemon nothing but the client's own messages exists, and it keeps its invariant |
| `ChatProofs!BounceTypeCorrect`, `OneDrawsAndStaysClear` | types and owners of the mutexes, `BounceSafe` |
| `ChatProofs!CoordinatesInReach`, `SidewaysBackAtOnce` | `InReach`, `BackAtOnce` |
| `ConnectionsProofs!TypeCorrect`, `SlotTableCorrect`, `LostAndHeardHolds` | types of `TCPChatServer`, `SlotTable`, `LostAndHeard` |
| `ConnectionsProofs!NothingIsLost`, `DatagramsPrintedOnce`, `ChildrenTakeTurns` | the three parts of `SockSafe` |
| `ConnectionsProofs!BuriedAndBlamed` | `EchoServersSafe` |
| `ConnectionsProofs!UrgentBytesRight` | `OobSafe` |
| `ConnectionsProofs!ConnectionsAreSafe` | the four invariants of the run `connections`, of its specification |
| `ServerPoolProofs!PoolSafeHolds`, `IsolationHolds` | `PoolSafe`, `Isolation` |
| `ServerPoolProofs!OpenersAreSafe` | `OpenersSafe` |
| `ServerPoolProofs!KernelIsRight` | `KernelRight`: all but the end of the programs of `KernelInfo` |
| `SelectServerProofs!LoopRightHolds` | `LoopRight` |
| `SelectServerProofs!ClientsAreRight` | `ClientsRight`: the safety of `StrCli` and of `WebClient` |
| `SelectServerProofs!AddressesAreRight` | `AddressesRight`: the safety of `GetAddrInfo`, in both versions |
| `HomeworkProofs!ImplementsChannel` | `EchoIsChannel`, the refinement of `Channel` |
| `HomeworkProofs!ExitsForACause` | the safety half of `EchoComes` |
| `HomeworkProofs!AnswersFallBehind`, `DateAnswersMatch`, `WhoseAnswers` | the halves of `AnswersKnown`, and both |
| `SignalsProofs!TypeCorrect`, `TimerNotTooShort`, `ImplementsChannel` | types of `ReliableUDP`, `TimerCoversSample`, `EchoesInOrder`: the refinement of `Channel` |
| `SignalsProofs!DrivenIsRight` | `DrivenRight` |
| `SignalsProofs!HeartbeatJudges` | `GivesUpRightly` |
| `SignalsProofs!FilesAreRight` | `FilesRight` |

The arguments, and why the invariants are what they are:

* **Packet loss.** Counting needs more than the counter: no datagram is in two
  of `got`, the queue and the network, so each `Recv` adds a new element to
  `got`. The loss formula needs the order as well: queue and network are sorted
  and lie above what was received. The model's network never delivers a datagram
  twice, and the proof uses it.
* **ping.** What has been counted and what may still be counted is never more than
  was sent (`Budget`): the handler clears one bit for each packet it sends, and only
  a clear bit counts. That the handler may clear a bit between the read and the
  write of SET() does not matter, because what SET() writes back had it clear or sets
  it anyway (`SetReads`).
* **Checksum test.** What was waited for so far and the timer that runs add up to twice
  the timer less the first one. Stated with the last timer the sum needs no powers of
  two, whose laws would take induction.
* **traceroute, UDP echo, ICMP daemon.** A message in flight is about a probe that was
  sent, and the one awaited is the last (`About`). A client has one datagram out,
  unless something strange has come (`Lone`, `OwnSocket`, `FewPassed`). Each
  descriptor the daemon gets is in one place, an entry is of a client it has
  answered, and an error on its way is due to a datagram of that client (`OnePlace`,
  `Known`, `Due`).
* **SCTP.** The n-th message of a client, whole, is in one place at most: on its way, in
  the server's queue, in the server, with the child, on its way back, or taken
  (`InOnePlace`); and it carries the stream that the program gave it (`Piece`,
  `ReplyOf`). What follows a first piece, wherever that is, is its rest (`Pieces`). All
  this is so until a client aborts in the middle of a message that is read in
  parts (`Clean`); afterwards what is left holds for the streams only. That a waiting client
  gets the answer to its line needs that what it has taken are n - 1 different
  messages below n, so all of them (`EachNumber`, by the pigeonhole principle), and what comes is
  the n-th. `Of`, which sorts the queue when an association is peeled off, is defined by
  recursion up to the length of the queue: that there is such a function, and
  that it gives the chosen messages in order, is shown of the least number at which it
  would fail (`LeastIsIn`, `StepByStep`, `OfIs`).
* **Chat client.** The receiving branch is dead although nothing looks dead: an
  unbound socket has no inbox, the socket is bound by the first `sendto`, and the
  select() that reported the line for that sendto took the socket's bit out of the
  set. Hence the invariant: while the bit is set, the socket is not bound; while it
  is not bound, its inbox is empty.
* **Bouncing faces.** Of the threads: whoever draws owns the screen, as long as the
  handle is open; main, once it has cleared, owns it (`Owner`); a thread that has
  begun has an identity not behind its own number, since `ThreadNr` only grows until
  main counts it down (`Begun`). Of the path: `MoveAxis` is the lemma on one axis;
  where a step led out, it was turned round and the next leads back. On the vertical
  axis the comparison is off by one and a face may stay below the screen, which is
  why there is no vertical theorem.
* **TCP chat server.** `SlotTable` says that what select() reported is still true when the
  scan comes to it. That needs (`IInv`): no two open connections have one descriptor;
  each slot holds an open one, and no two slots the same; of the reported descriptors
  those in slots not yet looked at are open and readable; and accept(), which takes
  the lowest free descriptor, cannot take one that was reported, for these are open.
  So the invariant is about `Accept` before the scan as much as about the scan.
  `Min` and `Max` come from `FiniteSetsExt`; that they are in their set is proved
  from the order of the naturals being well-founded. `LostAndHeard` rests on
  `MasterIsASlot`: a broadcast goes over all slot numbers and so meets the listening
  socket, unless the message comes from the slot that is passed over.
* **sock.** Over TCP, what was only looked at is what is read next (`PrintedAt`), and an
  end comes to its own end only when the other has shut down and everything has been
  read (`HalfClosed`). Over UDP every datagram is in one place: in the network, at the
  socket or printed, but for one that has been looked at (`Once`). With children, the
  turn is a token that goes from child to signal to flag to parent (`Token`), and a
  signal is let through too early only when there are two children (`StartedRight`).
* **Echo servers.** Each signal that waits stands for a child nobody has waited for, a
  second one for a second child (`Zombies`); what accept() reports has its cause in the
  handler, a reset, or the children (`Causes`).
* **Urgent data.** What select() said of the exceptional condition holds until the
  program asks, because the mark only grows (`Asked`); before each read() the byte
  at the mark has been taken or is about to be (`Passed`).
* **Designs of one server.** The invariant says where a connection can be on its way to
  the process that serves it: in the backlog, with a worker, in a pipe, in a slot of
  the ring; in no two of these (`Apart`), and in one while its client waits (`Held`).
  Eleven designs share one proof.
* **Servers around select().** `Round` is what the loop still has before it: as many
  descriptors as `nready` counts, each with something to read, in spite of accept()
  putting entries of the array to new use; only the server takes data out.
* **Echo and web clients.** An echo client's lines are in one order all the way: read,
  sent, taken, echoed, received, printed (`InOrder`), and an end of the stream comes
  after all of them (`FinIsLast`); what each of the ten programs holds while it is at a
  call is `ClientAt`. The attempt to prove that whoever ends has printed everything
  failed for strclinonb.c, which returns at the end of the stream with what its
  buffer `fr` still holds (lines 73 and 74); the model had taken it that there is always room to
  write, and now says what is lost. Of the web clients, `nconn`, `nlefttoconn` and
  `nlefttoread` are counts of files in certain states, and a flag says which
  (`WebCounts`, `FileAt`).
* **getaddrinfo().** The blocks allocated are two for each entry, less the address that
  could not be had, plus the name of the first entry and the one kept aside
  (`Allocated`), so freeing the list leaves exactly what is kept aside, whichever
  allocation failed. The list is a function of the addresses found and of how far the
  types of socket have come: bare entries, then entries with the first type, then clones
  behind the first m (`FirstTurn`, `SecondTurn`, `Twice`). Entries are cloned only
  when no type was asked for.
* **Opening sockets.** What the walk has passed had no socket or nobody there
  (`Walked`), who shares an address shares it by its option (`Shared`), and
  each way to end has its cause (`Outcomes`).
* **Asking the kernel.** A listing is in order, and before an address are the address
  before it or its interface (`Proper`, for ever); of what nobody touches it is also
  right (`Copy`). So the name of the last address looked at tells an alias
  (`LastNamed`), and over sysctl() the last entry is that of the last interface that
  is up (`AtLast`); the list is what the records passed so far give (`Listed`,
  `Gathered`). Each buffer for SIOCGIFCONF is larger than what the one before has held
  (`Growing`), so that a call that stores no more has stored everything. Of a dump of n
  associations b are to be read and c to be sent (`Dumping`): socket, queue and list
  hold the numbers from n - 1 down to 0, as long as nothing was lost.
* **Homework.** 1: `NoneMade`, that streams and buffer hold no more units than were
  written, bounds what one read() takes; concatenated, the three parts are the channel.
  2: what has been read, is on its way and is not yet sent adds up to an answer for
  each command run (`AddsUp`), so that the place of a unit in the stream tells its
  command, and the zero that ends each answer ends what a read() shows. 4: of a client
  that nothing has muddled there is one datagram at most, the one it waits for (`OneOut`).
* **Retransmitting client.** `TimerNotTooShort` is arithmetic: the deviation is at
  least a quarter of what the sample exceeds the estimate by, so four of it make up
  for the lag, and the half second rtt_start() adds for the rounding. It is proved
  for any fractions of a second and any history of samples. `ImplementsChannel`
  maps the client to `Channel`: nothing that is not numbered `seq` is taken for the
  answer, however many copies of earlier answers are about.
* **Waits, ring, heartbeat, files.** A signal waits only while it is blocked, and its timer
  has stopped (`TimedInv`). The ring and the socket's queue are one queue of rising
  numbers (`Rising`), whatever the size of the ring. Once an end has left, bytes on
  their way age and alarms add up (`Forsaken`). The attempt to prove that a live end
  is never given up failed for one and for even numbers of probes: bytes must take less than
  half of `MaxProbes` periods, and with one probe even that does not help;
  `GivesUpRightly` says so. The streams of the file server hold whole buffers or, once
  something is left over, always something (`Whole`, `LeftOver`).

The assumptions on constants are the named ASSUMEs of each module; TLC evaluates
them in the runs. They say that a bound is a natural number, that what the code
divides by or counts from is positive, that SCTP has a stream, that a set of clients is
finite, that the first buffer for SIOCGIFCONF and its growth are positive, and, of the chat server, that the number of its listening descriptor is one of its thirty slots.

**Only model-checked:** what section 3 lists and the table above does not: all
liveness, and the safety of `Formats`. Out of the
prover's reach are liveness under fairness, ENABLED, and what a recursive definition
computes for every input (`Formats`' round trips), which would
take induction over data; only where the recursion runs over numbers, as that of `Of`
and of `FlattenSeq`, does the order of the naturals stand in for it.

## 5. Findings

With a run that shows them:

1. *The TCP chat server* does not echo; it sends to slot numbers as if they were
   descriptors and is killed by its own listening socket (`TCPServer.c:176`).
2. *The faces* are not all of a different colour (`Bounce.c:5`): a thread reads
   its number late; `IdentityNotBehind` is all it can count on.
3. *The handles* are closed before all threads are done (`Bounce.c:53`).
4. *traceroute over IPv6* takes any time-exceeded message for the end of the probe:
   a condition has lost its braces (`UNP/traceroute/recv_v6.c:53`).
5. *inet_pton()* does not ignore a double colon in a full address but clears what
   follows it (`UNP/libfree/inet_pton.c:215`).

Read off the properties that hold, each as an exception the property names:

* The packet loss report claims more received than sent if fewer than two datagrams
  were lost (`LossFormula`), and the chat daemon never sends (`UDP Chat/README.txt`).
* The two bugs that `UDP Chat/README.txt` reports of the chat client are explained by
  `NeverReceives` and `DeafForever`.
* `web02.c` and `web03.c` can join a thread that waits for the mutex main holds;
  `web02.c` can overwrite F_DONE (`DeadlyJoin`, `LostMark`).
* Four of the eleven server designs stay up with no child left, and one with its
  mutex held by a dead child (`EveryoneServed`).
* `tcpservselect03.c` uses Readline() and its one static buffer for all connections,
  and mixes up their lines (`OwnEcho` of `SelectServer`).
* An alarm between a test and the call it is to interrupt makes `dgclibcast1.c` to
  3, `dgclitimeo3.c` and traceroute wait for ever (`AlarmOnce`, `EndsOrMissed`); the
  jump in `rtt/dg_send_recv.c` has a window in which it goes nowhere (`CallReturns`).
* `strclinonb.c` returns when the server has ended, and what it has read and not yet
  written is lost (`AllPrinted` of `StrCli`).
* `dgcliaddr.c` is a line behind for good after one strange datagram (`InStep`).
* A datagram between bind() and FIOASYNC stays in the socket of `sigio/dgecho01.c` until
  another one comes, and a SIGIO between FIOASYNC and FIONBIO leaves its handler in
  recvfrom() (`TooEarly`, `Caught`).
* Part of a line keeps `tcpservselect03.c` from all its other clients (`Stuck` of
  `SelectServer`), and a last line without a newline keeps `str_cli()` waiting for ever
  (`NoNewline` of `StrCli`).
* `icmpd` ends when any host sends a short ICMP message (`DiesOfTheDead`), and a sink of
  sock over UDP when one without data comes (`GoesOn`).
* `sctpserv03.c` closes after its first answer: a client with several messages may not
  get the others, and its server may die of them (`ClosedEarly`, `DiesOf` of `Sctp`).
* The remote command client falls behind with every command (`ShownLate`), and a command
  that does not end blocks it and its server (`WhatBlocks`).
* The handler of `tcpcliserv/sigchldwaitpid.c` leaves an errno behind that may end
  the server (`DiesOf` of `EchoServers`).
* After a failed malloc() libfree's getaddrinfo() frees what has no value
  (`Survives`).

## 6. What is not modelled

* `UDPChatServer.c`, `ServerExample2.c` and `ChatTestClient.c` do not compile.
  `ChatTestServer.c` is downloaded; what the author's programs took from it is
  modelled there.
* The drafts of the file server and the lab exercises that are drafts of programs
  above; `timeoutTest.c`, whose set and timeout are those of `ChatClient`; snippets.
* Of the book: `streams/` (needs STREAMS), `ssntp/`, `mysdr/` and `mcast/main.c`
  (formats of other protocols), `sockopt/`, `debug/`, `test/`, `ipopts/` and
  `names/hostent.c` (print what the kernel says), `unp.h` and the wrappers, which
  are mapped where a module needs what they do on an error; `libgai/old`.
* Of modelled programs: printing, DNS packets, IP and routing options, statistics in
  floating point, and what the notes of `PROJECT.json` name.
* Hazards without a property: send() in the chat server blocks on a client that does
  not read (`TCPServer.c:176`); its read() returning -1 writes the zero byte
  before the buffer (`:170`);
  each request leaves a file open (`ServerM.c:78`). Of an output longer than its
  buffer (`RhettDavid-hw2.cpp:118`) only that it may end the server is modelled.
  Connections without bounded
  buffers, and buffers without sizes, are what keeps those models small.

## 7. Where to go on

* `TCPChatServer` with bounded buffers, and read() that fails.
* `ForkServer` with the open files of a child.
