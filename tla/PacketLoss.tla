------------------------------ MODULE PacketLoss ------------------------------
(***************************************************************************)
(* The UDP packet loss calculator: UDPFloodClient.c sends the datagrams    *)
(* 0, 1, 2, ... as fast as it can, UDPFloodServer.c counts what reaches    *)
(* it, stops at a fixed count and prints "<counter> packets recieved of    *)
(* <last payload> sent".  Nothing is acknowledged and nothing times out.   *)
(*                                                                         *)
(* A datagram is the number its text spells: snprintf writes the counter,  *)
(* the server prints the text back unread.                                 *)
(***************************************************************************)
EXTENDS Integers, Sequences, FiniteSets

CONSTANTS
  NSend,    \* datagrams the client sends (1000000 in the code)
  NStop,    \* bound of the server's loop (385000 in the code)
  RcvBuf,   \* datagrams the server's socket can queue (kernel)
  Reorder   \* may the network deliver out of order?

ASSUME NSendAssumption   == NSend \in Nat
ASSUME NStopAssumption   == NStop \in Nat \ {0, 1}
ASSUME RcvBufAssumption  == RcvBuf \in Nat \ {0}
ASSUME ReorderAssumption == Reorder \in BOOLEAN

VARIABLES
  sent,     \* client: counter
  cpc,      \* client: "send" or "closed"
  net,      \* datagrams in flight
  sockq,    \* the server socket's receive queue
  counter,  \* server: counter, which starts at 1
  buf,      \* server: payload of the last datagram, or Empty
  spc,      \* server: "bind", "recv", "closed" or "failed"
  got       \* history: the datagrams recvfrom returned

vars == <<sent, cpc, net, sockq, counter, buf, spc, got>>

\* The datagrams there are.
Datagram == 0..NSend-1

\* Payload of the zeroed buffer; no datagram spells it.
Empty == NSend

\* Mutant: the server counts from 0.
InitFromZero ==
  /\ sent = 0
  /\ cpc = "send"
  /\ net = {}
  /\ sockq = <<>>
  /\ counter = 0
  /\ buf = Empty
  /\ spc = "bind"
  /\ got = {}

Init ==
  /\ sent = 0
  /\ cpc = "send"
  /\ net = {}
  /\ sockq = <<>>
  /\ counter = 1
  /\ buf = Empty
  /\ spc = "bind"
  /\ got = {}

-----------------------------------------------------------------------------
(* The client. *)

\* One turn of the client's loop: the result of sendto is not looked at.
Send ==
  /\ cpc = "send"
  /\ sent < NSend
  /\ net' = net \cup {sent}
  /\ sent' = sent + 1
  /\ UNCHANGED <<cpc, sockq, counter, buf, spc, got>>

CloseClient ==
  /\ cpc = "send"
  /\ sent >= NSend
  /\ cpc' = "closed"
  /\ UNCHANGED <<sent, net, sockq, counter, buf, spc, got>>

-----------------------------------------------------------------------------
(* The network and the kernel's socket queue. *)

\* The datagrams the network may hand over or lose next: any, or the oldest
\* (the numbers are the order of sending).
Deliverable == {d \in net : Reorder \/ \A e \in net : d <= e}

\* A datagram reaches the host. It is queued only if the socket is bound and
\* its queue has room; otherwise it is gone.
Arrive(d) ==
  /\ d \in Deliverable
  /\ net' = net \ {d}
  /\ sockq' = IF spc = "recv" /\ Len(sockq) < RcvBuf
              THEN Append(sockq, d) ELSE sockq
  /\ UNCHANGED <<sent, cpc, counter, buf, spc, got>>

\* The network drops a datagram.
Lose(d) ==
  /\ d \in Deliverable
  /\ net' = net \ {d}
  /\ UNCHANGED <<sent, cpc, sockq, counter, buf, spc, got>>

-----------------------------------------------------------------------------
(* The server. *)

\* socket() and bind(), each of which may fail and then ends the program.
Bind ==
  /\ spc = "bind"
  /\ spc' \in {"recv", "failed"}
  /\ UNCHANGED <<sent, cpc, net, sockq, counter, buf, got>>

\* Mutant: recvfrom does not wait for a datagram (MSG_DONTWAIT, unchecked).
RecvNoWait ==
  /\ spc = "recv"
  /\ counter < NStop
  /\ sockq' = IF sockq = <<>> THEN <<>> ELSE Tail(sockq)
  /\ counter' = counter + 1
  /\ buf' = IF sockq = <<>> THEN Empty ELSE Head(sockq)
  /\ got' = IF sockq = <<>> THEN got ELSE got \cup {Head(sockq)}
  /\ UNCHANGED <<sent, cpc, net, spc>>

\* One turn of the server's loop; recvfrom blocks while the queue is empty.
Recv ==
  /\ spc = "recv"
  /\ counter < NStop
  /\ sockq # <<>>
  /\ buf' = Head(sockq)
  /\ got' = got \cup {Head(sockq)}
  /\ sockq' = Tail(sockq)
  /\ counter' = counter + 1
  /\ UNCHANGED <<sent, cpc, net, spc>>

\* recvfrom() fails: err() ends the program without a report.
RecvFails ==
  /\ spc = "recv"
  /\ counter < NStop
  /\ spc' = "failed"
  /\ sockq' = <<>>
  /\ UNCHANGED <<sent, cpc, net, counter, buf, got>>

\* Mutant: the report waits for a count the loop never reaches.
ReportOffByOne ==
  /\ spc = "recv"
  /\ counter > NStop
  /\ spc' = "closed"
  /\ sockq' = <<>>
  /\ UNCHANGED <<sent, cpc, net, counter, buf, got>>

\* The loop ends: the report is printed and the socket closed.
Report ==
  /\ spc = "recv"
  /\ counter >= NStop
  /\ spc' = "closed"
  /\ sockq' = <<>>
  /\ UNCHANGED <<sent, cpc, net, counter, buf, got>>

Next ==
  \/ Send \/ CloseClient
  \/ \E d \in net : Arrive(d) \/ Lose(d)
  \/ Bind \/ Recv \/ RecvFails \/ Report

\* The processes run whenever they can; the network takes every datagram
\* out of flight in the end but promises nothing about what it does with it.
Fairness ==
  /\ WF_vars(Send) /\ WF_vars(CloseClient)
  /\ WF_vars(Bind) /\ WF_vars(Recv) /\ WF_vars(Report)
  /\ WF_vars(\E d \in net : Arrive(d) \/ Lose(d))

Spec == Init /\ [][Next]_vars /\ Fairness

-----------------------------------------------------------------------------
(* Properties. *)

\* Every variable has its type; the count stays within the loop's bounds and
\* the kernel never queues more than the socket's buffer holds.
TypeOK ==
  /\ sent \in 0..NSend
  /\ cpc \in {"send", "closed"}
  /\ net \subseteq Datagram
  /\ sockq \in Seq(Datagram)
  /\ Len(sockq) <= RcvBuf
  /\ counter \in 1..NStop
  /\ buf \in 0..NSend
  /\ spc \in {"bind", "recv", "closed", "failed"}
  /\ got \subseteq Datagram

\* counter starts at 1 (UDPFloodServer.c:42), so it runs one ahead of the
\* distinct datagrams recvfrom returned, whatever is lost or reordered; the
\* count that is printed is one too many.
CounterOneAhead ==
  /\ IsFiniteSet(got)
  /\ counter = Cardinality(got) + 1

\* What the printed pair <counter, buf> says on a network that keeps the
\* order: of the datagrams 0..buf exactly buf + 2 - counter were lost. The
\* loss is thus the printed difference plus two, not the difference.
LossFormula ==
  ~Reorder /\ buf # Empty =>
    Cardinality((0..buf) \ got) = buf + 2 - counter

\* As soon as enough datagrams have been queued, the report is printed, unless a
\* recvfrom() fails first.
EnoughReports ==
  []<>(Cardinality(got) + Len(sockq) >= NStop - 1 => spc \in {"closed", "failed"})

==============================================================================
