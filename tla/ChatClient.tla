----------------------------- MODULE ChatClient -----------------------------
(***************************************************************************)
(* UDPChatClient.c: a chat client that waits with select() for a typed     *)
(* line or a datagram.  The set readfds is filled once, before the loop,   *)
(* and select() overwrites it with what was ready; the loop never fills it *)
(* again.  The socket's bit is set from client_fd before client_fd has a   *)
(* value.  On Linux select() also writes the time it did not use back to   *)
(* timeout.                                                                *)
(*                                                                         *)
(* The user, other hosts and the clock are the environment.  Message text  *)
(* is left out: a message is the number of the sendto call, standard input *)
(* is the number of read() calls it takes to empty it.                     *)
(*                                                                         *)
(* ClientSpec is the client alone.  ChatSpec is the chat as shipped: the   *)
(* client, a network that may lose and reorder datagrams, and the daemon   *)
(* of UDPChatServer2.c, which prints what it receives.  The loops that     *)
(* would store addresses and send to the clients are commented out in the  *)
(* server, so it never sends.                                              *)
(***************************************************************************)
EXTENDS Naturals, Sequences

CONSTANTS
  Timeout,   \* seconds given to select (10 in the code)
  MaxReads,  \* bound: unread input, in read() calls of up to 9 bytes
  MaxInbox,  \* bound: datagrams queued on the client's socket
  MaxSend    \* bound: messages sent in a run

ASSUME TimeoutAssumption  == Timeout \in Nat \ {0}
ASSUME MaxReadsAssumption == MaxReads \in Nat
ASSUME MaxInboxAssumption == MaxInbox \in Nat
ASSUME MaxSendAssumption  == MaxSend \in Nat

VARIABLES
  pc,        \* "name", "loop", "closed" (left the loop) or "failed" (exit(1))
  readfds,   \* the descriptors select() will look at
  left,      \* timeout.tv_sec
  closing,   \* sendline begins with "close"
  closer,    \* the user's name begins with "close"
  bound,     \* has the socket a port (the kernel assigns one at sendto)?
  stdin,     \* read() calls needed to empty standard input
  eof,       \* has the user ended the input?
  inbox,     \* datagrams queued on the socket
  dest,      \* serv_addr, which recvfrom overwrites
  nsent,     \* messages sent
  nrecv,     \* recvfrom() calls
  idle,      \* history: seconds spent waiting before the first timeout
  net,       \* messages on their way to the server
  lost,      \* history: messages the network dropped
  spc,       \* server: "start", "daemon", "recv" or "failed"
  serverq,   \* the server socket's receive queue
  printed    \* messages the server has printed (to /dev/null)

client == <<pc, readfds, left, closing, closer, bound, stdin, eof, inbox,
            dest, nsent, nrecv, idle>>
server == <<spc, serverq, printed>>
chat == <<client, net, lost, server>>

\* The descriptors below 6, select's first argument: standard input, the
\* socket, and one that is not open. (1 and 2 are the terminal, like 0.)
Fds == {"stdin", "sock", "notopen"}

\* FD_SET(client_fd, ...) with client_fd not yet assigned: any bit, or one
\* that select(6, ...) does not look at.
UninitialisedBit == {{}} \cup {{f} : f \in Fds}

\* sendline is not assigned either before the loop first tests it.
ClientInit ==
  /\ pc = "name"
  /\ \E g \in UninitialisedBit : readfds = {"stdin"} \cup g
  /\ left = Timeout
  /\ closing \in BOOLEAN
  /\ closer = FALSE
  /\ bound = FALSE
  /\ stdin = 0
  /\ eof = FALSE
  /\ inbox = 0
  /\ dest = "server"
  /\ nsent = 0
  /\ nrecv = 0
  /\ idle = 0

-----------------------------------------------------------------------------
(* The environment. *)

\* The user types a line of up to 9 * n bytes.
Type(n) ==
  /\ ~eof
  /\ stdin + n <= MaxReads
  /\ stdin' = stdin + n
  /\ UNCHANGED <<pc, readfds, left, closing, closer, bound, eof, inbox, dest,
                 nsent, nrecv, idle>>

EndInput ==
  /\ ~eof
  /\ eof' = TRUE
  /\ UNCHANGED <<pc, readfds, left, closing, closer, bound, stdin, inbox,
                 dest, nsent, nrecv, idle>>

\* A host sends a datagram to the client's port.
PeerSends ==
  /\ bound
  /\ pc = "loop"
  /\ inbox < MaxInbox
  /\ inbox' = inbox + 1
  /\ UNCHANGED <<pc, readfds, left, closing, closer, bound, stdin, eof, dest,
                 nsent, nrecv, idle>>

-----------------------------------------------------------------------------
(* The program. *)

\* scanf reads the name. If standard input is a pipe, not a terminal, its
\* buffer takes along the input there is, which read() then never sees.
EnterName ==
  /\ pc = "name"
  /\ pc' = "loop"
  /\ closer' \in BOOLEAN
  /\ stdin' \in {stdin, 0}
  /\ UNCHANGED <<readfds, left, closing, bound, eof, inbox, dest, nsent,
                 nrecv, idle>>

\* Mutant: select() looks at every descriptor, in the set or not.
ReadyAny == {f \in Fds : \/ f = "stdin" /\ (stdin > 0 \/ eof)
                         \/ f = "sock" /\ inbox > 0}

\* What select() would report now.
Ready == {f \in readfds : \/ f = "stdin" /\ (stdin > 0 \/ eof)
                          \/ f = "sock" /\ inbox > 0}

\* The loop's test passed and the program is in select().
Selecting == pc = "loop" /\ ~closing

\* A second passes in select().
Tick ==
  /\ Selecting
  /\ "notopen" \notin readfds
  /\ Ready = {}
  /\ left > 0
  /\ left' = left - 1
  /\ idle' = IF readfds = {} THEN idle ELSE idle + 1
  /\ UNCHANGED <<pc, readfds, closing, closer, bound, stdin, eof, inbox, dest,
                 nsent, nrecv>>

\* select() returns 0: nothing was ready, so the set is emptied.
TimedOut ==
  /\ Selecting
  /\ "notopen" \notin readfds
  /\ Ready = {}
  /\ left = 0
  /\ readfds' = {}
  /\ left' = Timeout
  /\ UNCHANGED <<pc, closing, closer, bound, stdin, eof, inbox, dest, nsent,
                 nrecv, idle>>

\* select() returns -1 (EBADF) and leaves the set as it was.
SelectError ==
  /\ Selecting
  /\ "notopen" \in readfds
  /\ UNCHANGED client

\* recvfrom: the sender's address replaces serv_addr. If it fails the program
\* exits.
Receive ==
  /\ readfds' = Ready \ {"sock"}
  /\ pc' \in {"loop", "failed"}
  /\ inbox' = IF pc' = "loop" THEN inbox - 1 ELSE inbox
  /\ dest' = IF pc' = "loop" THEN "peer" ELSE dest
  /\ nrecv' = nrecv + 1
  /\ UNCHANGED <<closing, bound, stdin, nsent>>

\* read(), then sendto: at the end of the input read() returns 0 bytes and
\* an empty message is sent. sendto binds the socket; if it fails the
\* program exits.
SendLine ==
  /\ nsent < MaxSend
  /\ readfds' = Ready
  /\ stdin' = IF stdin > 0 THEN stdin - 1 ELSE 0
  /\ \/ /\ pc' = "loop"
        /\ closing' = closer
        /\ nsent' = nsent + 1
        /\ bound' = TRUE
     \/ /\ pc' = "failed"
        /\ UNCHANGED <<closing, nsent, bound>>
  /\ UNCHANGED <<inbox, dest, nrecv>>

\* Mutant: the set is filled again before every select(), as its reference
\* pages ask for, and the time to wait with it.
ServiceRearmed ==
  /\ Selecting
  /\ Ready # {}
  /\ nsent < MaxSend
  /\ IF "sock" \in Ready
     THEN /\ inbox' = inbox - 1 /\ nrecv' = nrecv + 1 /\ dest' = "peer"
          /\ UNCHANGED <<stdin, nsent, bound, closing>>
     ELSE /\ stdin' = IF stdin > 0 THEN stdin - 1 ELSE 0
          /\ nsent' = nsent + 1 /\ bound' = TRUE /\ closing' = closer
          /\ UNCHANGED <<inbox, nrecv, dest>>
  /\ left' = Timeout
  /\ readfds' = readfds
  /\ UNCHANGED <<pc, closer, eof, idle>>

\* select() returns a descriptor: the set becomes the ready ones and the
\* socket is served first.
Service ==
  /\ Selecting
  /\ "notopen" \notin readfds
  /\ Ready # {}
  /\ IF "sock" \in Ready THEN Receive ELSE SendLine
  /\ UNCHANGED <<left, closer, eof, idle>>

\* The loop's test fails.
Close ==
  /\ pc = "loop"
  /\ closing
  /\ pc' = "closed"
  /\ UNCHANGED <<readfds, left, closing, closer, bound, stdin, eof, inbox,
                 dest, nsent, nrecv, idle>>

Environment ==
  \/ \E n \in 1..MaxReads : Type(n)
  \/ EndInput
  \/ PeerSends

Program == EnterName \/ TimedOut \/ SelectError \/ Service \/ Close

ClientNext == Environment \/ Tick \/ Program

\* The program runs when it can and the clock does not stop. Nothing is
\* asked of the user or of other hosts.
ClientFairness == WF_client(Program) /\ WF_client(Tick)

ClientSpec == ClientInit /\ [][ClientNext]_client /\ ClientFairness

-----------------------------------------------------------------------------
(* The chat as shipped: network and daemon beside the client. *)

ChatInit ==
  /\ ClientInit
  /\ net = {}
  /\ lost = {}
  /\ spc = "start"
  /\ serverq = <<>>
  /\ printed = {}

\* daemonic(): the parent exits, the child goes on with /dev/null as its
\* standard files. fork and setsid may fail.
Daemonise ==
  /\ spc = "start"
  /\ spc' \in {"daemon", "failed"}
  /\ UNCHANGED <<client, net, lost, serverq, printed>>

\* socket, setsockopt and bind.
Bind ==
  /\ spc = "daemon"
  /\ spc' \in {"recv", "failed"}
  /\ UNCHANGED <<client, net, lost, serverq, printed>>

\* Mutant: the server leaves its loop after one message.
RecvOnce ==
  /\ spc = "recv"
  /\ serverq # <<>>
  /\ spc' = "left"
  /\ serverq' = <<>>
  /\ printed' = printed \cup {Head(serverq)}
  /\ UNCHANGED <<client, net, lost>>

\* One turn of the server's loop.
Recv ==
  /\ spc = "recv"
  /\ serverq # <<>>
  /\ serverq' = Tail(serverq)
  /\ printed' = printed \cup {Head(serverq)}
  /\ UNCHANGED <<client, net, lost, spc>>

\* recvfrom() fails: on_error() ends the daemon, and with it its socket.
RecvFails ==
  /\ spc = "recv"
  /\ spc' = "failed"
  /\ serverq' = <<>>
  /\ UNCHANGED <<client, net, lost, printed>>

\* A datagram reaches the server's host; without a bound socket it is gone.
Arrive(m) ==
  /\ m \in net
  /\ net' = net \ {m}
  /\ serverq' = IF spc = "recv" THEN Append(serverq, m) ELSE serverq
  /\ UNCHANGED <<client, lost, spc, printed>>

Lose(m) ==
  /\ m \in net
  /\ net' = net \ {m}
  /\ lost' = lost \cup {m}
  /\ UNCHANGED <<client, server>>

\* A step of the client or its user; what the client sends is in flight.
ClientStep ==
  /\ (\E n \in 1..MaxReads : Type(n)) \/ EndInput \/ Tick \/ Program
  /\ net' = net \cup (IF nsent' > nsent THEN {nsent'} ELSE {})
  /\ UNCHANGED <<lost, server>>

\* Another host sends a datagram to the client; the server never does.
Stray == PeerSends /\ UNCHANGED <<net, lost, server>>

ChatNext ==
  \/ ClientStep \/ Stray
  \/ Daemonise \/ Bind \/ Recv \/ RecvFails
  \/ \E m \in net : Arrive(m) \/ Lose(m)

\* Client and server run when they can; the network gets rid of every
\* datagram, one way or the other.
ChatFairness ==
  /\ WF_chat(ClientStep /\ (Program \/ Tick))
  /\ WF_chat(Daemonise) /\ WF_chat(Bind) /\ WF_chat(Recv)
  /\ \A m \in 1..MaxSend : WF_chat(Arrive(m) \/ Lose(m))

ChatSpec == ChatInit /\ [][ChatNext]_chat /\ ChatFairness

-----------------------------------------------------------------------------
(* Properties. *)

\* Every variable has its type.
ClientTypeOK ==
  /\ pc \in {"name", "loop", "closed", "failed"}
  /\ readfds \subseteq Fds
  /\ left \in 0..Timeout
  /\ closing \in BOOLEAN
  /\ closer \in BOOLEAN
  /\ bound \in BOOLEAN
  /\ stdin \in 0..MaxReads
  /\ eof \in BOOLEAN
  /\ inbox \in 0..MaxInbox
  /\ dest \in {"server", "peer"}
  /\ nsent \in 0..MaxSend
  /\ nrecv \in 0..MaxSend
  /\ idle \in 0..Timeout

\* The receiving branch is never taken, whatever bit the uninitialised
\* client_fd set: the socket has no port before the first message is sent,
\* and the select() that reports the line for that message drops the
\* socket's bit. Every message therefore goes to the server.
NeverReceives == nrecv = 0 /\ dest = "server"

\* The 10 seconds are for the whole conversation, not for each wait: what
\* was spent waiting before is missing from what is left, however many
\* messages were sent in between.
IdleBudget == readfds # {} => idle + left = Timeout

\* After one timeout the client is deaf for good: nothing that is typed
\* later is ever sent.
DeafForever == [][readfds = {} => readfds' = {} /\ nsent' = nsent]_client

\* The program leaves its loop only for a name that begins with "close" or
\* for the contents of a buffer it never wrote; what is typed, "close" and
\* the end of the input included, cannot end it.  Instead, once the input has
\* ended, select() finds it ready at once every time, and the client sends
\* empty messages without end.
OnlyNamesEndIt ==
  /\ [][pc' = "closed" => closer \/ nsent = 0]_client
  /\ (eof /\ Selecting /\ ~closer /\ "stdin" \in readfds /\ "notopen" \notin readfds)
       ~> (nsent = MaxSend \/ pc = "failed")

\* Every variable has its type, and the server saw only what was sent.
ChatTypeOK ==
  /\ ClientTypeOK
  /\ net \subseteq 1..nsent
  /\ lost \subseteq 1..nsent
  /\ spc \in {"start", "daemon", "recv", "failed"}
  /\ serverq \in Seq(1..nsent)
  /\ printed \subseteq 1..nsent

\* A line typed to a client that still listens, while the server is up, is
\* printed by the server in the end, although client, network and server all
\* run at their own pace: only the network can lose it, sendto fail at the
\* client or recvfrom at the server.
TypedIsPrinted ==
  \A m \in 1..MaxSend :
    (spc = "recv" /\ nsent = m - 1 /\ stdin > 0 /\ Selecting
       /\ "stdin" \in readfds /\ "notopen" \notin readfds)
      ~> (m \in printed \cup lost \/ pc = "failed" \/ spc = "failed")

\* The client is closed by nothing but a name, goes on for ever at the end of
\* its input, and what it hears typed is printed by the daemon.
ChatRight == OnlyNamesEndIt /\ TypedIsPrinted

=============================================================================
