-------------------------------- MODULE Icmpd --------------------------------
(***************************************************************************)
(* The ICMP daemon (icmpd/icmpd.c) and its clients (icmpd/dgcli01.c).  A   *)
(* client hands its UDP socket to the daemon over a Unix domain stream and *)
(* is told there of the ICMP errors its datagrams cause.                   *)
(*                                                                         *)
(* A client is also its connection, the only one it makes, and its number  *)
(* is its turn to connect.  An address is the family and local port of a   *)
(* UDP socket, as a number.  An ICMP error is the address it is about; 0   *)
(* is any other ICMP message, and Short one without the headers it should  *)
(* have.  The stream to a client holds the daemon's answer, Yes or No, and *)
(* errors.                                                                 *)
(***************************************************************************)
EXTENDS Naturals, Sequences, FiniteSets

CONSTANTS
  MaxClients,\* bound: clients, over all time
  Slots,     \* FD_SETSIZE, the entries of client[]
  Ports,     \* how many addresses UDP sockets can have
  MaxLines   \* bound: lines typed, over all clients

IcmpdAssumption == MaxClients \in Nat /\ Slots \in Nat /\ Ports \in Nat

Clients == 1..MaxClients
Addrs == 1..Ports
None == 0

\* The listening socket, and fd4 or fd6, which are read the same way, in rset.
Listen == 0
Raw == MaxClients + 1

Short == Ports + 2

Yes == 0         \* the byte "1"
No == Ports + 1  \* the byte "0"

VARIABLES
  client,      \* slot -> [connfd, lport], -1 being None
  maxi, rset, nready,
  pc,          \* of the daemon: "select", "listen", "raw", "conn", "dead" or "quit"
  backlog,     \* connections not accepted yet
  upq,         \* of each client: what it has sent to the daemon
  downq,       \* what the daemon has sent to it
  closed,      \* connections the daemon has closed
  cpc,         \* of each client: where it is
  port,        \* the address its UDP socket is bound to, also when it has ended
  flight,      \* ICMP messages on their way
  rawq,        \* those that wait at the raw sockets
  lines

cli == <<cpc, port, lines>>
daemon == <<client, maxi, rset, nready, pc>>
vars == <<daemon, backlog, upq, downq, closed, cli, flight, rawq>>

Init ==
  /\ client = [k \in 1..Slots |-> [connfd |-> None, lport |-> None]]
  /\ maxi = 0 /\ rset = {} /\ nready = 0 /\ pc = "select"
  /\ backlog = <<>>
  /\ upq = [c \in Clients |-> <<>>] /\ downq = upq
  /\ closed = {}
  /\ cpc = [c \in Clients |-> "start"] /\ port = [c \in Clients |-> None]
  /\ flight = {} /\ rawq = <<>> /\ lines = 0

Gone(c) == cpc[c] = "gone"
Dead == pc \in {"dead", "quit"}

-----------------------------------------------------------------------------
(* The daemon. *)

Connected == {client[k].connfd : k \in 1..Slots} \ {None}

\* read_fd() returns: the connection has something, has ended or was reset.
Readable(c) == upq[c] # <<>> \/ Gone(c)

Ready ==
  {c \in Connected : Readable(c)}
    \cup (IF backlog # <<>> THEN {Listen} ELSE {})
    \cup (IF rawq # <<>> THEN {Raw} ELSE {})

\* Where the loop goes: the sockets first, then client[] from the beginning.
Turn(r) == {k \in 1..maxi : client[k].connfd # None /\ client[k].connfd \in r}
After(r) ==
  IF Listen \in r THEN "listen" ELSE IF Raw \in r THEN "raw"
  ELSE IF Turn(r) # {} THEN "conn" ELSE "select"

Select ==
  /\ pc = "select" /\ Ready # {}
  /\ rset' = Ready /\ nready' = Cardinality(Ready) /\ pc' = After(Ready)
  /\ UNCHANGED <<client, maxi, backlog, upq, downq, closed, cli, flight, rawq>>

\* if (... <= 0), with return(--nready), goes back to select().
Done(s) ==
  /\ rset' = rset \ {s} /\ nready' = nready - 1
  /\ pc' = IF nready' = 0 THEN "select" ELSE After(rset')

Free == {k \in 1..Slots : client[k].connfd = None}
First(S) == CHOOSE k \in S : \A j \in S : k <= j

\* The entry keeps the port of the client that had it before.
ReadableListen ==
  LET c == Head(backlog)
      k == First(Free) IN
  /\ pc = "listen" /\ backlog' = Tail(backlog)
  /\ IF Free = {} THEN closed' = closed \cup {c} /\ UNCHANGED <<client, maxi>>
     ELSE /\ client' = [client EXCEPT ![k].connfd = c]
          /\ maxi' = IF k > maxi THEN k ELSE maxi
          /\ UNCHANGED closed
  /\ Done(Listen)
  /\ UNCHANGED <<upq, downq, cli, flight, rawq>>

\* Mutant: the error is copied to every entry.
ReadableRawAll ==
  LET e == Head(rawq)
      reached == {client[k].connfd : k \in 1..maxi} \ {None} IN
  /\ pc = "raw" /\ rawq' = Tail(rawq)
  /\ IF \E c \in reached : Gone(c)
     THEN pc' = "dead" /\ UNCHANGED <<rset, nready, downq>>
     ELSE /\ downq' = [c \in Clients |-> IF c \in reached THEN Append(downq[c], e) ELSE downq[c]]
          /\ Done(Raw)
  /\ UNCHANGED <<client, maxi, backlog, upq, closed, cli, flight>>

\* The error is copied to every entry with its port.  Writing to a client that
\* has ended raises SIGPIPE; a message that is too short is the end as well.
ReadableRaw ==
  LET e == Head(rawq)
      to == IF e \in {None, Short} THEN {}
            ELSE {k \in 1..maxi : client[k].connfd # None /\ client[k].lport = e}
      reached == {client[k].connfd : k \in to} IN
  /\ pc = "raw" /\ rawq' = Tail(rawq)
  /\ IF e = Short \/ \E c \in reached : Gone(c)
     THEN pc' = (IF e = Short THEN "quit" ELSE "dead") /\ UNCHANGED <<rset, nready, downq>>
     ELSE /\ downq' = [c \in Clients |-> IF c \in reached THEN Append(downq[c], e) ELSE downq[c]]
          /\ Done(Raw)
  /\ UNCHANGED <<client, maxi, backlog, upq, closed, cli, flight>>

\* The client's first byte carries its socket, whose port is noted; any other
\* message is an error.  A client that ended with something unread has reset
\* the connection, and Read_fd() ends the daemon.
ReadableConn ==
  LET k == First(Turn(rset))
      c == client[k].connfd
      hangup == closed' = closed \cup {c} /\ client' = [client EXCEPT ![k].connfd = None]
      die == pc' = "dead" /\ UNCHANGED <<client, closed, rset, nready>> IN
  /\ pc = "conn"
  /\ IF upq[c] # <<>>
     THEN /\ upq' = [upq EXCEPT ![c] = Tail(@)]
          /\ IF Gone(c) THEN die /\ UNCHANGED downq
             ELSE /\ Done(c)
                  /\ IF Head(upq[c]) = "fd"
                     THEN /\ client' = [client EXCEPT ![k].lport = port[c]]
                          /\ downq' = [downq EXCEPT ![c] = Append(@, Yes)]
                          /\ UNCHANGED closed
                     ELSE downq' = [downq EXCEPT ![c] = Append(@, No)] /\ hangup
     ELSE /\ IF downq[c] # <<>> THEN die ELSE hangup /\ Done(c)
          /\ UNCHANGED <<upq, downq>>
  /\ UNCHANGED <<maxi, backlog, cli, flight, rawq>>

Daemon == Select \/ ReadableListen \/ ReadableRaw \/ ReadableConn

-----------------------------------------------------------------------------
(* A client. *)

Hears(c) == Dead \/ c \in closed
Goto(c, l) == cpc' = [cpc EXCEPT ![c] = l]
Own == UNCHANGED <<daemon, closed, rawq>>

\* A port that no living socket has: one of a client that has ended, or a new
\* one, of which one stands for all.
Ephemeral ==
  LET old == {port[d] : d \in {e \in Clients : Gone(e)}}
      held == {port[d] : d \in {e \in Clients : ~Gone(e)}}
      new == Addrs \ (old \cup held) IN
  (old \ (held \cup {None})) \cup (IF new = {} THEN {} ELSE {First(new)})

Connect(c) ==
  /\ cpc[c] = "start" /\ \A d \in 1 .. c - 1 : cpc[d] # "start"
  /\ \E p \in Ephemeral : port' = [port EXCEPT ![c] = p]
  /\ IF Dead THEN Goto(c, "gone") /\ UNCHANGED backlog
     ELSE Goto(c, "pass") /\ backlog' = Append(backlog, c)
  /\ UNCHANGED <<lines, upq, downq, flight>> /\ Own

\* Other programs may send a byte without a descriptor.
Pass(c) ==
  /\ cpc[c] = "pass"
  /\ IF Hears(c) THEN Goto(c, "gone") /\ UNCHANGED upq
     ELSE Goto(c, "reply") /\ \E m \in {"fd", "byte"} : upq' = [upq EXCEPT ![c] = Append(@, m)]
  /\ UNCHANGED <<port, lines, backlog, downq, flight>> /\ Own

\* Anything but a Yes is taken for a failure.
ReadReply(c) ==
  /\ cpc[c] = "reply" /\ (downq[c] # <<>> \/ Hears(c))
  /\ IF downq[c] # <<>> /\ Head(downq[c]) = Yes
     THEN Goto(c, "idle") /\ downq' = [downq EXCEPT ![c] = Tail(@)]
     ELSE Goto(c, "gone") /\ UNCHANGED downq
  /\ UNCHANGED <<port, lines, backlog, upq, flight>> /\ Own

\* The datagram may be lost, answered, refused by some host on its way, or
\* give rise to some other ICMP message.
Sendto(c) ==
  /\ cpc[c] = "idle" /\ lines < MaxLines /\ lines' = lines + 1
  /\ \E fate \in {"lost", "answer", "error", "other"} :
       /\ Goto(c, IF fate = "answer" THEN "answered" ELSE "wait")
       /\ flight' = flight \cup (CASE fate = "error" -> {port[c]} [] fate = "other" -> {None}
                                    [] OTHER -> {})
  /\ UNCHANGED <<port, backlog, upq, downq>> /\ Own

\* select() returned: the answer, an error, the end of the daemon, or after
\* five seconds nothing.
Selected(c) ==
  /\ cpc[c] \in {"wait", "answered"}
  /\ IF downq[c] # <<>>
     THEN Goto(c, "idle") /\ downq' = [downq EXCEPT ![c] = Tail(@)]
     ELSE Goto(c, IF Hears(c) THEN "gone" ELSE "idle") /\ UNCHANGED downq
  /\ UNCHANGED <<port, lines, backlog, upq, flight>> /\ Own

\* The end of the input, or of the program.
Exit(c) ==
  /\ cpc[c] \notin {"start", "gone"} /\ Goto(c, "gone")
  /\ UNCHANGED <<port, lines, backlog, upq, downq, flight>> /\ Own

-----------------------------------------------------------------------------
(* The network. *)

Arrive ==
  /\ \E e \in flight : flight' = flight \ {e} /\ rawq' = Append(rawq, e)
  /\ UNCHANGED <<daemon, backlog, upq, downq, closed, cli>>

\* Some host sends a message that is too short, of which one is enough.
SendShort ==
  /\ ~Dead /\ \A k \in 1..Len(rawq) : rawq[k] # Short
  /\ rawq' = Append(rawq, Short)
  /\ UNCHANGED <<daemon, backlog, upq, downq, closed, cli, flight>>

Client(c) == Connect(c) \/ Pass(c) \/ ReadReply(c) \/ Sendto(c) \/ Selected(c) \/ Exit(c)

Next == (~Dead /\ Daemon) \/ (\E c \in Clients : Client(c)) \/ Arrive \/ SendShort

Fairness == WF_vars(~Dead /\ Daemon) /\ \A c \in Clients : WF_vars(ReadReply(c))

Spec == Init /\ [][Next]_vars /\ Fairness

-----------------------------------------------------------------------------

\* A client that the daemon has answered is told of errors of its own datagrams
\* only.  One that waits for the answer may be told of a former owner's of its
\* entry, takes it for a refusal and ends (readable_listen.c, dgcli01.c).
OwnErrors ==
  \A c \in Clients :
    LET q == downq[c] IN
    /\ cpc[c] \in {"idle", "wait", "answered"} => \A k \in 1..Len(q) : q[k] = port[c]
    /\ \A k \in 1..Len(q) : q[k] = Yes => \A j \in k + 1 .. Len(q) : q[j] = port[c]

\* But for ICMP messages that are too short, of which any one ends it, the daemon
\* dies of a client that has ended, and then only while it has not noticed that end.
DiesOfTheDead == pc = "dead" => \E c \in Connected : Gone(c) /\ c \notin closed

\* A client that waits for the answer gets it, or the end of the connection.
Answered == \A c \in Clients : []<>(cpc[c] # "reply")

DaemonRight == OwnErrors /\ DiesOfTheDead

===============================================================================
