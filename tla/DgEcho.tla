--------------------------------- MODULE DgEcho ---------------------------------
(***************************************************************************)
(* UDP echo without any retransmission: dg_cli() and its variants, and the *)
(* servers with dg_echo(), one socket for all addresses of the host or one *)
(* socket and one child for each (advio/udpserv03.c, udpserv04.c); the     *)
(* programs that only send and only count; the UDP sender and receiver of  *)
(* homework 3 and the ones of the labs.  The host of the server has two    *)
(* addresses.  A datagram is the number of the line it carries.            *)
(***************************************************************************)
EXTENDS Naturals, Sequences

CONSTANTS
  MaxLines,   \* bound: lines typed, and datagrams sent by who only sends
  MaxOdd      \* bound: datagrams of strangers, and datagrams that come twice

Addrs == {1, 2}
Wild == 3
Sockets == Addrs \cup {Wild}
Stranger == 4     \* where none of the server's datagrams come from

VARIABLES
  serv, cli,   \* the programs
  asks,        \* the address the client sends to
  bound,       \* how many sockets the server has bound
  alive,       \* living children, each named after the socket it reads
  queue,       \* of each socket, the lines in its buffer
  count,       \* datagrams a counting server has received
  up, down,    \* datagrams on their way: lines, and <<line, source>> of replies
  inbox,       \* replies that wait at the client's socket
  refused,     \* whether the client's connected socket has a pending error
  nobody,      \* when a datagram last found no socket: "never", "starting" or "gone"
  pc,          \* of the client: "type", "wait", "exit" or "dead"
  line,        \* lines sent
  shown,       \* <<reply, line it was taken for>>, in order
  passed,      \* replies that were not shown
  odd,         \* strange datagrams up to now
  lost         \* whether a datagram has been lost

conf == <<serv, cli, asks>>
server == <<bound, alive, queue, count>>
client == <<inbox, refused, pc, line, shown, passed>>
vars == <<conf, server, up, down, client, nobody, odd, lost>>

\* The servers: their sockets in the order in which they are bound; whether they answer;
\* after how many datagrams they stop, 0 for never; datagrams a socket has room for.
Server(binds, echoes, stops, room) ==
  [binds |-> binds, echoes |-> echoes, stops |-> stops, room |-> room]
udpserv01 == Server(<<Wild>>, TRUE, 0, 1)
udpserv06 == Server(<<Wild>>, FALSE, 0, 1)
udpserv07 == Server(<<Wild>>, FALSE, 0, 2)
advio_udpserv03 == Server(<<1, 2, Wild>>, TRUE, 0, 1)
advio_udpserv04 == Server(<<1, 2, Wild>>, TRUE, 0, 1)
HW3_UDPServer == Server(<<Wild>>, FALSE, 0, 1)
Labs_UDPServerTest == Server(<<Wild>>, FALSE, 2, 1)     \* NPACK is 10
UDPServerTest == Server(<<Wild>>, TRUE, 1, 1)

\* The clients: whether they wait for a reply to each line; whose they take; and
\* whether they send as often as there are lines.
Client(waits, takes, often) == [waits |-> waits, takes |-> takes, often |-> often]
dg_cli == Client(TRUE, "any", TRUE)
dgcliinetaddr == Client(TRUE, "any", TRUE)
dgcliaddr == Client(TRUE, "checked", TRUE)
dgcliconnect == Client(TRUE, "connected", TRUE)
dgclibig == Client(TRUE, "any", FALSE)
dgcliloop1 == Client(FALSE, "any", TRUE)
HW3_UDPClient == Client(FALSE, "any", TRUE)
UDPClientTest == Client(TRUE, "any", FALSE)

Init ==
  /\ serv \in {udpserv01, udpserv06, udpserv07, advio_udpserv03, advio_udpserv04, HW3_UDPServer,
               Labs_UDPServerTest, UDPServerTest}
  /\ cli \in {dg_cli, dgcliinetaddr, dgcliaddr, dgcliconnect, dgclibig, dgcliloop1, HW3_UDPClient,
              UDPClientTest}
  /\ asks \in Addrs
  /\ bound = 0 /\ alive = {} /\ queue = [s \in Sockets |-> <<>>] /\ count = 0
  /\ up = {} /\ down = {} /\ inbox = <<>> /\ refused = FALSE /\ nobody = "never"
  /\ pc = "type" /\ line = 0 /\ shown = <<>> /\ passed = 0 /\ odd = 0 /\ lost = FALSE

-----------------------------------------------------------------------------
(* The servers. *)

Ready == bound = Len(serv.binds)
Order(s) == CHOOSE i \in DOMAIN serv.binds : serv.binds[i] = s

\* socket(), bind() and fork(): the parent closes none of its sockets, so that a child
\* has those bound before its own, too; the parent exits in the end.
Bind ==
  /\ ~Ready /\ bound' = bound + 1 /\ alive' = alive \cup {serv.binds[bound + 1]}
  /\ UNCHANGED <<conf, queue, count, up, down, client, nobody, odd, lost>>

\* Mutant: a child has its own socket only.
IsOpenClosing(s) == s \in alive \/ (s \in {serv.binds[i] : i \in 1..bound} /\ ~Ready)

IsOpen(s) ==
  \/ \E c \in alive : Order(s) <= Order(c)
  \/ ~Ready /\ Order(s) <= bound

\* The address a reply comes from: that of the socket, or with the wildcard the one that
\* the route to the client has.
Source(s) == IF s = Wild THEN Addrs ELSE {s}

\* dg_echo(): Recvfrom() and Sendto(); or only counting.  The server of the lab gives
\* recvfrom() an uninitialised length, so that it may not learn whom to answer.
Serve(s) ==
  /\ s \in alive /\ queue[s] # <<>> /\ queue' = [queue EXCEPT ![s] = Tail(@)]
  /\ count' = count + 1
  /\ \/ /\ serv.echoes /\ UNCHANGED lost
        /\ \E a \in Source(s) : down' = down \cup {<<Head(queue[s]), a>>}
     \/ ~serv.echoes /\ UNCHANGED <<down, lost>>
     \/ serv = UDPServerTest /\ lost' = TRUE /\ UNCHANGED down
  /\ alive' = IF serv.stops = count' THEN {} ELSE alive
  /\ UNCHANGED <<conf, bound, up, client, nobody, odd>>

\* A child, or the only process, is killed; dgecholoop1 says how many it has received.
Kill(s) ==
  /\ s \in alive /\ Ready /\ alive' = alive \ {s}
  /\ UNCHANGED <<conf, bound, queue, count, up, down, client, nobody, odd, lost>>

-----------------------------------------------------------------------------
(* The network. *)

\* The socket a datagram is for: the one of its address before the wildcard.
SocketOf(a) ==
  LET there == {s \in {a, Wild} : s \in {serv.binds[i] : i \in 1..bound} /\ IsOpen(s)}
  IN IF a \in there THEN {a} ELSE there

\* A datagram comes; where there is no socket a connected client is told, and where there
\* is no room it is lost.
Arrive(m) ==
  /\ m \in up /\ up' = up \ {m}
  /\ IF SocketOf(asks) = {}
     THEN /\ nobody' = (IF Ready THEN "gone" ELSE "starting")
          /\ refused' = (cli.takes = "connected") /\ UNCHANGED <<queue, lost>>
     ELSE \E s \in SocketOf(asks) :
            IF Len(queue[s]) < serv.room
            THEN queue' = [queue EXCEPT ![s] = Append(@, m)] /\ UNCHANGED <<nobody, refused, lost>>
            ELSE lost' = TRUE /\ UNCHANGED <<queue, nobody, refused>>
  /\ UNCHANGED <<conf, bound, alive, count, down, inbox, pc, line, shown, passed, odd>>

\* A connected socket takes nothing from others.
Accepts(a) == cli.takes = "connected" => a = asks

ArriveReply(r) ==
  /\ r \in down /\ down' = down \ {r}
  /\ inbox' = IF Accepts(r[2]) THEN Append(inbox, r) ELSE inbox
  /\ UNCHANGED <<conf, server, up, refused, nobody, pc, line, shown, passed, odd, lost>>

Lose ==
  /\ lost' = TRUE
  /\ \/ \E m \in up : up' = up \ {m} /\ UNCHANGED down
     \/ \E r \in down : down' = down \ {r} /\ UNCHANGED up
  /\ UNCHANGED <<conf, server, client, nobody, odd>>

\* Somebody else's datagram, or a reply for the second time.
Odd ==
  /\ odd < MaxOdd /\ odd' = odd + 1
  /\ \/ Accepts(Stranger) /\ pc # "exit" /\ inbox' = Append(inbox, <<0, Stranger>>)
     \/ \E r \in down : Accepts(r[2]) /\ inbox' = Append(inbox, r)
  /\ UNCHANGED <<conf, server, up, down, refused, nobody, pc, line, shown, passed, lost>>

-----------------------------------------------------------------------------
(* The client. *)

\* Fgets() and Sendto() or Write(), which a pending error makes fail.
Send ==
  /\ pc = "type" /\ line < (IF cli.often THEN MaxLines ELSE 1)
  /\ refused' = FALSE
  /\ IF refused THEN pc' = "dead" /\ UNCHANGED <<up, line>>
     ELSE /\ line' = line + 1 /\ up' = up \cup {line'}
          /\ pc' = IF cli.waits THEN "wait" ELSE "type"
  /\ UNCHANGED <<conf, server, down, inbox, nobody, shown, passed, odd, lost>>

\* Recvfrom() or Read().  dgcliaddr() goes on with the next line after a reply that it
\* ignores.
Recvfrom ==
  /\ pc = "wait" /\ (inbox # <<>> \/ refused) /\ refused' = FALSE
  /\ IF refused THEN pc' = "dead" /\ UNCHANGED <<inbox, shown, passed>>
     ELSE /\ pc' = "type" /\ inbox' = Tail(inbox)
          /\ IF cli.takes = "checked" /\ Head(inbox)[2] # asks
             THEN passed' = passed + 1 /\ UNCHANGED shown
             ELSE shown' = Append(shown, <<Head(inbox), line>>) /\ UNCHANGED passed
  /\ UNCHANGED <<conf, server, up, down, nobody, line, odd, lost>>

EndInput ==
  /\ pc = "type" /\ pc' = "exit"
  /\ UNCHANGED <<conf, server, up, down, inbox, refused, nobody, line, shown, passed, odd, lost>>

Progress ==
  \/ Bind \/ Send \/ Recvfrom
  \/ \E s \in Sockets : Serve(s)
  \/ \E m \in up : Arrive(m)
  \/ \E r \in down : ArriveReply(r)

Next == Progress \/ Lose \/ Odd \/ EndInput \/ \E s \in Sockets : Kill(s)

Fairness == WF_vars(Progress)

Spec == Init /\ [][Next]_vars /\ Fairness

-----------------------------------------------------------------------------
(* Properties. *)

\* What is shown for a line is its echo, as long as nothing strange has come: a client that
\* ignores a stranger's datagram is one line behind from then on; and who looks at the
\* address shows nothing that comes from another one.
InStep ==
  \A i \in DOMAIN shown :
    /\ shown[i][1][1] # shown[i][2] => odd > 0
    /\ shown[i][1][1] <= shown[i][2]
    /\ cli.takes # "any" => shown[i][1][2] = asks

\* A reply is passed over without anything strange only when one socket has both addresses.
PassedOver == passed > odd => serv.binds = <<Wild>>

\* Only a connected client learns that nobody is there; and as long as one child lives that
\* was started after the socket of the address was bound, nobody is told.
Refused ==
  /\ pc = "dead" => cli.takes = "connected" /\ nobody # "never"
  /\ nobody = "gone" => \A c \in alive : Order(c) < Order(IF Len(serv.binds) = 1 THEN Wild ELSE asks)

\* Where nothing goes wrong each line is answered; but a client that connects may wait for
\* ever for a reply that comes from the other address.
LineAnswered ==
  []<>(pc # "wait")
  \/ <>[](\/ lost \/ nobody # "never" \/ ~serv.echoes \/ odd > 0
          \/ Ready /\ alive # {serv.binds[i] : i \in DOMAIN serv.binds}
          \/ cli.takes = "connected" /\ serv.binds = <<Wild>>)

DgEchoRight == InStep /\ PassedOver /\ Refused
================================================================================
