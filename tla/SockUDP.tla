------------------------------- MODULE SockUDP -------------------------------
(***************************************************************************)
(* The sock program over UDP: a client and a server in loop_udp()          *)
(* (sock/loopudp.c), or with -i a client in source_udp() and a server in   *)
(* sink_udp().  The k-th datagram an end writes is k; the network loses    *)
(* and reorders them, and what comes to a port that nobody has is refused. *)
(* Other hosts send too, to a socket that is not connected.  A datagram of *)
(* the peer is empty only if it is a source with -w 0.                     *)
(***************************************************************************)
EXTENDS Naturals, Sequences, FiniteSets

CONSTANT MaxIn    \* bound: lines typed at each end; also nbuf

Client == 1
Server == 2
Ends == {Client, Server}
Peer(p) == 3 - p

VARIABLES
  sourcesink, ignorewerr,
  connectudp,      \* the ends without -o
  foreign,         \* the server was given the client's address with -f
  peek,            \* msgpeek, of the client
  zero,            \* writelen of the source is 0 (-w 0)
  pc,              \* "down", "select", "in", "sock", "again", "write", "exit" or "error"
  rset,
  servaddr,        \* of each end: where sendto() goes, "garbage" at first,
                   \* "peer" or "stranger"
  taken, sent,     \* lines read and datagrams written
  flight,          \* <<to, k>>
  inq,             \* at each socket, of the peer's
  stray,           \* at each socket, of another host's: "none", "empty" or "text"
  refused,         \* sockets with so_error
  blamed,          \* ends one of whose datagrams was refused
  out              \* the peer's datagrams that were printed, in each end

conf == <<sourcesink, ignorewerr, connectudp, foreign, peek, zero>>
vars == <<conf, pc, rset, servaddr, taken, sent, flight, inq, stray, refused, blamed, out>>

Init ==
  /\ sourcesink \in BOOLEAN /\ ignorewerr \in BOOLEAN /\ foreign \in BOOLEAN
  /\ peek \in BOOLEAN /\ connectudp \in SUBSET Ends
  /\ zero \in BOOLEAN /\ (zero => sourcesink)
  /\ pc = [p \in Ends |-> "down"]
  /\ rset = [p \in Ends |-> {}]
  /\ servaddr = [p \in Ends |-> "garbage"]
  /\ taken = [p \in Ends |-> 0] /\ sent = taken
  /\ flight = {} /\ inq = [p \in Ends |-> <<>>] /\ stray = [p \in Ends |-> "none"]
  /\ refused = {} /\ blamed = {} /\ out = inq

Goto(p, l) == pc' = [pc EXCEPT ![p] = l]
Open(p) == pc[p] \notin {"down", "exit", "error"}

\* connect() has been called on the socket: the client's own, or with -f.
Connected(p) == IF p = Client THEN p \in connectudp ELSE foreign

Start(p) ==
  /\ pc[p] = "down"
  /\ Goto(p, IF ~sourcesink THEN "select" ELSE IF p = Client THEN "write" ELSE "sock")
  /\ UNCHANGED <<conf, rset, servaddr, taken, sent, flight, inq, stray, refused, blamed, out>>

\* The input is a terminal, which may have a line, or its end, at any time.
Ready(p) ==
  {"in"} \cup (IF inq[p] # <<>> \/ p \in refused \/ stray[p] # "none" THEN {"sock"} ELSE {})

Select(p) ==
  /\ pc[p] = "select"
  /\ \E r \in SUBSET Ready(p) \ {{}} :
       /\ "sock" \in Ready(p) => "sock" \in r
       /\ rset' = [rset EXCEPT ![p] = r]
       /\ Goto(p, IF "in" \in r THEN "in" ELSE "sock")
  /\ UNCHANGED <<conf, servaddr, taken, sent, flight, inq, stray, refused, blamed, out>>

\* What is written goes to the peer; an error that waits at the socket is
\* returned instead, and forgotten.
Transmit(p) ==
  /\ p \notin refused
  /\ sent' = [sent EXCEPT ![p] = @ + 1]
  /\ flight' = flight \cup {<<Peer(p), sent'[p]>>}
  /\ UNCHANGED refused

Failed(p) == p \in refused /\ refused' = refused \ {p} /\ UNCHANGED <<sent, flight>>

Nowhere == UNCHANGED <<sent, flight, refused>>

\* A line.  write() needs a connected socket, which a server has only with -f;
\* sendto() goes to the local servaddr, which hides the global one and has no
\* value until something has been received: it fails, or goes anywhere.
Line(p) ==
  /\ taken[p] < MaxIn /\ taken' = [taken EXCEPT ![p] = @ + 1]
  /\ LET on == Goto(p, IF "sock" \in rset[p] THEN "sock" ELSE "select")
         dies == Goto(p, "error") IN
     IF p \in connectudp
     THEN IF Connected(p) THEN (Transmit(p) /\ on) \/ (Failed(p) /\ dies)
          ELSE dies /\ Nowhere
     ELSE IF servaddr[p] = "peer" THEN (Transmit(p) /\ on) \/ (Failed(p) /\ dies)
          ELSE Nowhere /\ (on \/ dies)

\* read() from the input: at its end, the end of the program.
ReadInput(p) ==
  /\ pc[p] = "in"
  /\ \/ Line(p)
     \/ Goto(p, "exit") /\ UNCHANGED taken /\ Nowhere
  /\ UNCHANGED <<conf, rset, servaddr, inq, stray, blamed, out>>

After(p) == IF sourcesink THEN "sock" ELSE "select"
Peeks(p) == peek /\ IF sourcesink THEN p = Server ELSE p = Client /\ p \in connectudp

\* recvmsg(), recv() or recvfrom().  The last notes where it came from.  A sink
\* takes a datagram without data for the end.
Receive(p) ==
  /\ pc[p] = "sock" /\ (inq[p] # <<>> \/ p \in refused)
  /\ IF p \in refused
     THEN refused' = refused \ {p} /\ Goto(p, "error") /\ UNCHANGED <<servaddr, inq, out>>
     ELSE IF zero
     THEN Goto(p, "exit") /\ UNCHANGED <<refused, servaddr, inq, out>>
     ELSE /\ out' = [out EXCEPT ![p] = Append(@, Head(inq[p]))]
          /\ IF Peeks(p) THEN Goto(p, "again") /\ UNCHANGED inq
             ELSE Goto(p, After(p)) /\ inq' = [inq EXCEPT ![p] = Tail(@)]
          /\ servaddr' = IF p = Client /\ p \notin connectudp
                         THEN [servaddr EXCEPT ![p] = "peer"] ELSE servaddr
          /\ UNCHANGED refused
  /\ UNCHANGED <<conf, rset, taken, sent, flight, stray, blamed>>

\* The same with a datagram of another host; whether a sink with -Z reads it once
\* or twice makes no difference.
ReceiveStray(p) ==
  /\ pc[p] = "sock" /\ stray[p] # "none"
  /\ Goto(p, IF sourcesink /\ stray[p] = "empty" THEN "exit" ELSE After(p))
  /\ servaddr' = IF p = Client THEN [servaddr EXCEPT ![p] = "stranger"] ELSE servaddr
  /\ stray' = [stray EXCEPT ![p] = "none"]
  /\ UNCHANGED <<conf, rset, taken, sent, flight, inq, refused, blamed, out>>

\* goto oncemore, without MSG_PEEK.
Oncemore(p) ==
  /\ pc[p] = "again"
  /\ IF p \in refused
     THEN refused' = refused \ {p} /\ Goto(p, "error") /\ UNCHANGED <<inq, out>>
     ELSE /\ out' = [out EXCEPT ![p] = Append(@, Head(inq[p]))]
          /\ inq' = [inq EXCEPT ![p] = Tail(@)] /\ Goto(p, After(p))
          /\ UNCHANGED refused
  /\ UNCHANGED <<conf, rset, servaddr, taken, sent, flight, stray, blamed>>

\* source_udp(), with the global servaddr; with -W it goes on after an error.
Source(p) ==
  /\ pc[p] = "write"
  /\ IF taken[p] = MaxIn THEN Goto(p, "exit") /\ UNCHANGED taken /\ Nowhere
     ELSE /\ taken' = [taken EXCEPT ![p] = @ + 1]
          /\ \/ Transmit(p) /\ UNCHANGED pc
             \/ Failed(p) /\ IF ignorewerr THEN UNCHANGED pc ELSE Goto(p, "error")
  /\ UNCHANGED <<conf, rset, servaddr, inq, stray, blamed, out>>

Step(p) ==
  \/ Start(p) \/ Select(p) \/ ReadInput(p) \/ Receive(p) \/ ReceiveStray(p)
  \/ Oncemore(p) \/ Source(p)

-----------------------------------------------------------------------------

\* A datagram arrives, is refused, or is lost.  Only a connected socket is told.
Network ==
  /\ \E d \in flight :
       LET to == d[1] IN
       /\ flight' = flight \ {d}
       /\ \/ Open(to) /\ inq' = [inq EXCEPT ![to] = Append(@, d[2])] /\ UNCHANGED <<refused, blamed>>
          \/ /\ ~Open(to) /\ blamed' = blamed \cup {Peer(to)}
             /\ refused' = IF Connected(Peer(to)) /\ Open(Peer(to))
                           THEN refused \cup {Peer(to)} ELSE refused
             /\ UNCHANGED inq
          \/ UNCHANGED <<inq, refused, blamed>>
  /\ UNCHANGED <<conf, pc, rset, servaddr, taken, sent, stray, out>>

\* Another host sends to an end that is not connected (bound: one at a time).
Stranger(p) ==
  /\ Open(p) /\ ~Connected(p) /\ stray[p] = "none"
  /\ \E s \in {"empty", "text"} : stray' = [stray EXCEPT ![p] = s]
  /\ UNCHANGED <<conf, pc, rset, servaddr, taken, sent, flight, inq, refused, blamed, out>>

Next == (\E p \in Ends : Step(p) \/ Stranger(p)) \/ Network

Fairness == \A p \in Ends : WF_vars(Step(p))

Spec == Init /\ [][Next]_vars /\ Fairness

-----------------------------------------------------------------------------

Times(p, k) == Cardinality({j \in 1..Len(out[p]) : out[p][j] = k})

\* What is printed of the peer's was written by it, and no datagram is printed
\* twice, but for the -Z of a connected client or a sink, which prints each one
\* twice in a row.
Printed ==
  \A p \in Ends : \A k \in 1..Len(out[p]) :
    /\ out[p][k] <= sent[Peer(p)]
    /\ Times(p, out[p][k]) <= IF Peeks(p) THEN 2 ELSE 1

\* loop_udp() tells whose input can never reach the other end: an unconnected
\* client's before it has received something, and a server's without -f.
\* Between such two nothing is ever sent.
Mute ==
  ~sourcesink =>
    /\ Client \notin connectudp /\ servaddr[Client] = "garbage" => sent[Client] = 0
    /\ ~(Server \in connectudp /\ foreign) => sent[Server] = 0
    /\ Client \notin connectudp /\ ~(Server \in connectudp /\ foreign) => sent = <<0, 0>>

\* A connected end dies of a refused datagram of its own only; an unconnected
\* source never notices.
DiesOfItsOwn ==
  \A p \in Ends : pc[p] = "error" /\ (Connected(p) \/ sourcesink) =>
    \/ p \in blamed /\ Connected(p)
    \/ p = Server /\ p \notin connectudp

\* A datagram without data is all that ends a sink, though it is meant to read for
\* ever: the first of a source with -w 0, or one of another host, which a sink that
\* was not given the client's address hears too.  With -W no error ends a source.
GoesOn ==
  sourcesink =>
    /\ pc[Server] = "exit" => (zero /\ sent[Client] > 0) \/ ~foreign
    /\ ignorewerr => pc[Client] # "error"

\* A source ends.
SourceEnds == <>[](sourcesink => pc[Client] \in {"exit", "error"})

SockUDPSafe == Printed /\ Mute /\ DiesOfItsOwn /\ GoesOn

===============================================================================
