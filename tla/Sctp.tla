---------------------------------- MODULE Sctp ----------------------------------
(***************************************************************************)
(* The SCTP echo servers (sctp/sctpserv01.c to 07, sctpserv_fork.c), one   *)
(* socket for all associations, and their clients (sctpclient01, 02, 04    *)
(* with the sctpstr_cli() and sctpstr_cli_echoall() they are linked with). *)
(* Messages keep their order within a stream only.  A client is also its   *)
(* association.                                                            *)
(***************************************************************************)
EXTENDS Naturals, Sequences, FiniteSets, SequencesExt

CONSTANTS
  Strms,     \* streams a client has
  Lines      \* bound: lines typed for each client

SctpAssumption == Strms \in Nat \ {0}

Clients == {1, 2}

VARIABLES
  serv,       \* the program of the server
  incr,       \* stream_increment
  strict,     \* whether MSG_EOF fails for an association that ends or has ended
  cli,        \* of each client: how it asks
  ends,       \* whether it ends by "close" or by "abort"
  assoc,      \* of each client: "down", "up", "closing", "peeled" or "gone"
  up,         \* messages on their way, in the order in which they were sent
  rcvq,       \* what the socket of the server has for recvmsg()
  partial,    \* the client whose message is being delivered in parts, or 0
  pc,         \* "recv", "strms", "send", "peel" or "dead"
  held,       \* the message the server holds: sender, stream, and the pieces in its buffer
  childq,     \* messages that go to the child of a client
  down,       \* replies on their way
  cpc,        \* of each client: "type", "wait" or "exit"
  nsent, nlines,
  taken       \* replies it has taken

conf == <<serv, incr, strict, cli, ends>>
server == <<rcvq, partial, pc, held, childq>>
client == <<cpc, nsent, nlines, taken>>
vars == <<conf, assoc, up, server, down, client>>

Nobody == [c |-> 0, s |-> 0, u |-> FALSE, what |-> {}, eor |-> TRUE, note |-> FALSE]

\* What the servers do besides answering, and whether on the next stream.
Server(does, increments) == [does |-> does, increments |-> increments]
sctpserv01 == Server("nothing", TRUE)
sctpserv02 == Server("more streams", TRUE)
sctpserv03 == Server("MSG_EOF", TRUE)
sctpserv04 == Server("autoclose", TRUE)
sctpserv05 == Server("pdapi", TRUE)
sctpserv06 == Server("notifications", TRUE)
sctpserv07 == Server("notifications", FALSE)
sctpserv_fork == Server("peel off", FALSE)

Servers ==
  {sctpserv01, sctpserv02, sctpserv03, sctpserv04, sctpserv05, sctpserv06, sctpserv07, sctpserv_fork}

\* Whether a client sends its line on each stream, and whether unordered.
Client(all, unordered) == [all |-> all, unordered |-> unordered]
sctp_strcli == Client(FALSE, FALSE)
sctp_strcli1 == Client(FALSE, FALSE)
sctp_strcli_un == Client(FALSE, TRUE)
sctp_strcliecho == Client(TRUE, FALSE)

Init ==
  /\ serv \in Servers
  /\ incr \in {FALSE, serv.increments} /\ strict \in BOOLEAN
  /\ serv # sctpserv03 => ~strict
  /\ cli \in [Clients -> {sctp_strcli, sctp_strcli1, sctp_strcli_un, sctp_strcliecho}]
  /\ cli[2] = sctp_strcli
  /\ ends \in [Clients -> {"close", "abort"}] /\ ends[2] = "close"
  /\ assoc = [c \in Clients |-> "down"] /\ up = [c \in Clients |-> <<>>]
  /\ rcvq = <<>> /\ partial = 0 /\ pc = "recv" /\ held = Nobody
  /\ childq = [c \in Clients |-> <<>>] /\ down = [c \in Clients |-> <<>>]
  /\ cpc = [c \in Clients |-> "type"] /\ nsent = [c \in Clients |-> 0]
  /\ nlines = [c \in Clients |-> 0] /\ taken = [c \in Clients |-> <<>>]

OutStrms == IF serv.does = "more streams" THEN Strms + 1 ELSE Strms
Message(c, s, n) == [c |-> c, s |-> s, u |-> cli[c].unordered, what |-> {<<c, n>>},
                     eor |-> TRUE, note |-> FALSE]
Note == [Nobody EXCEPT !.note = TRUE]

\* Of a sequence of messages, those that may come next: no other before them in
\* their stream.
Ready(q) == {i \in DOMAIN q : q[i].u \/ \A j \in 1 .. i - 1 : q[j].s # q[i].s}

\* Of a queue, the messages whose sender is one of cs.
Of(q, cs) ==
  LET of[n \in 0..Len(q)] ==
        IF n = 0 THEN <<>> ELSE IF q[n].c \in cs THEN Append(of[n - 1], q[n]) ELSE of[n - 1]
  IN  of[Len(q)]

-----------------------------------------------------------------------------
(* The server. *)

\* Sctp_recvmsg().  Notifications are printed; of the others the server holds
\* what it has read.
Recvmsg ==
  /\ pc = "recv" /\ rcvq # <<>> /\ rcvq' = Tail(rcvq)
  /\ LET m == Head(rcvq)
     IN IF m.note THEN UNCHANGED <<pc, held>>
        ELSE /\ held' = [m EXCEPT !.what = m.what \cup held.what,
                                  !.c = IF held.c = 0 THEN m.c ELSE held.c,
                                  !.s = IF held.c = 0 THEN m.s ELSE held.s]
             /\ pc' = IF ~m.eor THEN "recv"             \* pdapi_recvmsg() reads on
                      ELSE IF incr THEN "strms" ELSE "send"
  /\ UNCHANGED <<conf, assoc, up, partial, childq, down, client>>

\* Mutant: the last stream is followed by one there is not.
GetNoStrmsOver ==
  /\ pc = "strms"
  /\ IF assoc[held.c] \in {"up", "closing"}
     THEN held' = [held EXCEPT !.s = IF @ + 1 > OutStrms THEN 0 ELSE @ + 1] /\ pc' = "send"
     ELSE pc' = "dead" /\ UNCHANGED held
  /\ UNCHANGED <<conf, assoc, up, rcvq, partial, childq, down, client>>

\* sctp_get_no_strms(): without an association the option is an error, and that
\* is the end of the server.
GetNoStrms ==
  /\ pc = "strms"
  /\ IF assoc[held.c] \in {"up", "closing"}
     THEN held' = [held EXCEPT !.s = IF @ + 1 >= OutStrms THEN 0 ELSE @ + 1] /\ pc' = "send"
     ELSE pc' = "dead" /\ UNCHANGED held
  /\ UNCHANGED <<conf, assoc, up, rcvq, partial, childq, down, client>>

\* Sctp_sendmsg().  If the association has ended a new one is tried, in vain.  With
\* MSG_EOF the association ends once everything has been delivered.
Sendmsg ==
  /\ pc = "send"
  /\ LET c == held.c
         ok == held.s < OutStrms /\ ~(assoc[c] \in {"closing", "down"} /\ strict)
     IN IF ~ok THEN pc' = "dead" /\ UNCHANGED <<held, down, assoc>>
        ELSE /\ down' = (IF assoc[c] \in {"down", "gone"} THEN down
                         ELSE [down EXCEPT ![c] = Append(@, held)])
             /\ assoc' = (IF serv.does = "MSG_EOF" /\ assoc[c] = "up" THEN [assoc EXCEPT ![c] = "closing"]
                          ELSE assoc)
             /\ IF serv.does = "peel off" THEN pc' = "peel" /\ UNCHANGED held ELSE pc' = "recv" /\ held' = Nobody
  /\ UNCHANGED <<conf, up, rcvq, partial, childq, client>>

\* sctp_peeloff() and fork(): what is queued for the association goes with it.
\* Neither works for one that is gone, and the server goes on.
Peeloff ==
  /\ pc = "peel" /\ pc' = "recv" /\ held' = Nobody
  /\ IF assoc[held.c] = "up"
     THEN /\ assoc' = [assoc EXCEPT ![held.c] = "peeled"]
          /\ childq' = [childq EXCEPT ![held.c] = Of(rcvq, {held.c})]
          /\ rcvq' = Of(rcvq, {0, 1, 2} \ {held.c})
     ELSE UNCHANGED <<assoc, childq, rcvq>>
  /\ UNCHANGED <<conf, up, partial, down, client>>

\* str_echo() in the child: write() sends on stream 0.
ChildEcho(c) ==
  /\ assoc[c] = "peeled" /\ childq[c] # <<>> /\ childq' = [childq EXCEPT ![c] = Tail(@)]
  /\ down' = [down EXCEPT ![c] = Append(@, [Head(childq[c]) EXCEPT !.s = 0])]
  /\ UNCHANGED <<conf, assoc, up, rcvq, partial, pc, held, client>>

-----------------------------------------------------------------------------
(* SCTP. *)

Arrives(c, m) ==
  IF assoc[c] = "peeled" THEN childq' = [childq EXCEPT ![c] = Append(@, m)] /\ UNCHANGED rcvq
  ELSE rcvq' = Append(rcvq, m) /\ UNCHANGED childq

\* A message arrives, or with pdapi its first part: then nothing else is delivered
\* before the rest.
Deliver(c) ==
  /\ assoc[c] \in {"up", "closing", "peeled"} /\ partial = 0
  /\ \E i \in Ready(up[c]) :
       \/ /\ Arrives(c, up[c][i]) /\ up' = [up EXCEPT ![c] = RemoveAt(@, i)] /\ UNCHANGED partial
       \/ /\ serv.does = "pdapi" /\ Arrives(c, [up[c][i] EXCEPT !.eor = FALSE])
          /\ partial' = c /\ up' = [up EXCEPT ![c] = <<up[c][i]>> \o RemoveAt(@, i)]
  /\ UNCHANGED <<conf, assoc, pc, held, down, client>>

DeliverRest ==
  /\ partial # 0 /\ assoc[partial] = "up" /\ Arrives(partial, Head(up[partial]))
  /\ up' = [up EXCEPT ![partial] = Tail(@)] /\ partial' = 0
  /\ UNCHANGED <<conf, assoc, pc, held, down, client>>

\* The server has asked for the end and all is delivered; or, with autoclose,
\* nothing has been sent for a while.  What has been delivered need not have been
\* read: it can be, by either side, also when the association is no more.
Ended(c) ==
  /\ assoc[c] = "closing" \/ (serv.does = "autoclose" /\ assoc[c] = "up")
  /\ up[c] = <<>>
  /\ assoc' = [assoc EXCEPT ![c] = "down"]
  /\ UNCHANGED <<conf, up, server, down, client>>

-----------------------------------------------------------------------------
(* The clients. *)

\* A line: sctpstr_cli() sends it on the stream it names, sctpstr_cli_echoall() a
\* message on each stream.  Without an association one is set up, unless there is
\* no server; the stream may be one there is none of, which ends the client.
TypeLine(c) ==
  /\ cpc[c] = "type" /\ nlines[c] < Lines /\ nlines' = [nlines EXCEPT ![c] = @ + 1]
  /\ \/ /\ assoc[c] # "closing" /\ pc # "dead"
        /\ \E s \in 0 .. Strms - 1 :
             LET new == IF cli[c].all THEN [i \in 1..Strms |-> Message(c, i - 1, nsent[c] + i)]
                        ELSE <<Message(c, s, nsent[c] + 1)>>
             IN /\ up' = [up EXCEPT ![c] = @ \o new] /\ nsent' = [nsent EXCEPT ![c] = @ + Len(new)]
                /\ cpc' = [cpc EXCEPT ![c] = "wait"]
        /\ IF assoc[c] = "down"
           THEN /\ assoc' = [assoc EXCEPT ![c] = "up"]
                /\ rcvq' = IF serv.does = "notifications" THEN Append(rcvq, Note) ELSE rcvq
           ELSE UNCHANGED <<assoc, rcvq>>
     \/ /\ ~cli[c].all \/ pc = "dead" \/ assoc[c] = "closing"
        /\ cpc' = [cpc EXCEPT ![c] = "exit"] /\ assoc' = [assoc EXCEPT ![c] = "gone"]
        /\ up' = [up EXCEPT ![c] = <<>>] /\ UNCHANGED <<nsent, rcvq>>
  /\ UNCHANGED <<conf, partial, pc, held, childq, down, taken>>

\* Sctp_recvmsg() until there is an answer for each message; sctp_strcli1 does not
\* take a notification for one.
TakeReply(c) ==
  /\ cpc[c] = "wait"
  /\ \E i \in Ready(down[c]) :
       /\ taken' = [taken EXCEPT ![c] = Append(@, down[c][i])]
       /\ down' = [down EXCEPT ![c] = RemoveAt(@, i)]
  /\ cpc' = [cpc EXCEPT ![c] = IF Len(taken'[c]) = nsent[c] THEN "type" ELSE "wait"]
  /\ UNCHANGED <<conf, assoc, up, server, nsent, nlines>>

\* No more lines: Close(), or first MSG_ABORT (sctpclient02), which takes what is on
\* its way with it.  A client may be killed in the middle, too.
Leave(c) ==
  /\ cpc[c] = "type" \/ (cpc[c] = "wait" /\ ends[c] = "abort")
  /\ cpc' = [cpc EXCEPT ![c] = "exit"] /\ assoc' = [assoc EXCEPT ![c] = "gone"]
  /\ up' = [up EXCEPT ![c] = <<>>] /\ down' = [down EXCEPT ![c] = <<>>]
  /\ partial' = (IF partial = c THEN 0 ELSE partial)
  /\ rcvq' = (IF serv.does = "notifications" /\ assoc[c] = "up" THEN Append(rcvq, Note) ELSE rcvq)
  /\ UNCHANGED <<conf, pc, held, childq, nsent, nlines, taken>>

ServerStep == Recvmsg \/ GetNoStrms \/ Sendmsg \/ Peeloff
Network(c) == Deliver(c) \/ ChildEcho(c)

Next ==
  \/ ServerStep \/ DeliverRest
  \/ \E c \in Clients : Network(c) \/ Ended(c) \/ TypeLine(c) \/ TakeReply(c) \/ Leave(c)

Fairness ==
  /\ WF_vars(ServerStep) /\ WF_vars(DeliverRest)
  /\ \A c \in Clients : WF_vars(Network(c)) /\ WF_vars(TakeReply(c))

Spec == Init /\ [][Next]_vars /\ Fairness

-----------------------------------------------------------------------------
(* Properties. *)

Aborted == \E c \in Clients : ends[c] = "abort" /\ assoc[c] = "gone"

\* The servers that end associations do it to a client that waits: after the first of
\* several messages, or because nothing is sent while they do something else.
ClosedEarly(c) == (serv.does = "MSG_EOF" /\ cli[c].all) \/ serv.does = "autoclose"

\* A client gets its own messages, each once, and one that waits for each answer
\* the answer to its line; but the server that reads messages in parts may give it
\* the beginning of one whose sender has aborted.
OwnEcho ==
  \A c \in Clients : \A i \in DOMAIN taken[c] :
    LET m == taken[c][i]
    IN /\ m.what \subseteq {<<c, n>> : n \in 1..nsent[c]} \/ (serv.does = "pdapi" /\ Aborted)
       /\ ~cli[c].all /\ ~Aborted => m.what = {<<c, i>>}
       /\ serv.does # "pdapi" \/ ~Aborted =>
            \A j \in DOMAIN taken[c] : j # i => m.what \cap taken[c][j].what = {}

\* Each stream answers on the next one and the last on the first, and no answer
\* comes on a stream there is none of.
OnItsStream ==
  \A c \in Clients : \A i \in DOMAIN taken[c] :
    LET m == taken[c][i]
    IN /\ m.s < OutStrms
       /\ cli[c].all /\ ~Aborted /\ serv.does # "peel off" =>
            \A n \in 1..Strms : <<c, n>> \in m.what =>
              m.s = IF incr THEN n % OutStrms ELSE n - 1

\* The server dies of a client that is gone when the number of its streams is asked
\* for; of one whose association it has closed itself, before it had read everything,
\* in the same way; or, having closed after the first answer, of the second.
DiesOf ==
  pc = "dead" => \/ incr /\ assoc[held.c] = "gone"
                 \/ incr /\ assoc[held.c] = "down" /\ ClosedEarly(held.c)
                 \/ serv.does = "MSG_EOF" /\ strict /\ cli[held.c].all

\* A client that waits is answered as long as the server lives and has not closed
\* the association under it; if not, it waits for ever, for nobody tells it that the
\* association is gone.
Answered ==
  \A c \in Clients :
    []<>(cpc[c] = "wait" => pc = "dead" \/ Aborted \/ (assoc[c] = "down" /\ ClosedEarly(c)))

SctpRight == OwnEcho /\ OnItsStream /\ DiesOf
===============================================================================
