-------------------------------- MODULE Openers --------------------------------
(***************************************************************************)
(* How the programs get their socket: lib/tcp_connect.c, udp_connect.c,    *)
(* udp_client.c, tcp_listen.c, udp_server.c, names/udp_server_reuseaddr.c  *)
(* walk the list of addresses of getaddrinfo(), the older daytime clients  *)
(* that of gethostbyname(), the first ones of intro/ have one address.     *)
(* Two servers of one host and one client of another have the same list;   *)
(* what they do with the socket is the daytime service.                    *)
(***************************************************************************)
EXTENDS Naturals, FiniteSets

CONSTANTS
  NAddrs,
  MaxRestarts   \* bound: times a server is started again

Addrs == 1..NAddrs
Servers == {1, 2}
Client == 3
Procs == Servers \cup {Client}

VARIABLES
  prog,      \* of each process: its program
  has,       \* addresses whose family the process has sockets for
  elsewhere, \* addresses where a server of another host answers
  i,         \* the address a process is at
  open,      \* addresses for which the process has an open descriptor
  pc,        \* "try", "opened", "close", "listen", "serve", "asked", "exit", "failed",
             \* "dead" or "killed"
  bound,     \* of each server: the address it is bound to, or 0
  timewait,  \* addresses with connections in the state TIME_WAIT
  newest,    \* of the UDP servers, the one that was bound last
  server,    \* the process that answers the client, 0, or Client for one elsewhere
  told,      \* what the client has got: "none", "line" or "eof"
  gone,      \* whether it has reset its connection, or is no longer there
  refused,   \* servers that have been refused an address because of the other one
  restarts

conf == <<prog, has, elsewhere>>
vars == <<conf, i, open, pc, bound, timewait, newest, server, told, gone, refused, restarts>>

\* The programs: the function they open their socket with, where "byname" is the
\* walk of gethostbyname() and "single" no walk; whether it is for TCP; and whether
\* they end a connection with a reset.
Program(opens, tcp) == [opens |-> opens, tcp |-> tcp, resets |-> FALSE]

tcpcli == Program("tcp_connect", TRUE)             \* names/
tcpcli1 == Program("byname", TRUE)
tcpcli2 == Program("byname", TRUE)
tcpcli3 == Program("byname", TRUE)
udpcli1 == Program("udp_client", FALSE)
udpcli2 == Program("udp_connect", FALSE)
tcpsrv1 == Program("tcp_listen", TRUE)
tcpsrv2 == Program("tcp_listen", TRUE)
tcpsrv3 == [Program("tcp_listen", TRUE) EXCEPT !.resets = TRUE]
tcpsrv4 == Program("tcp_listen", TRUE)
udpsrv2 == Program("udp_server", FALSE)
udpsrv3 == Program("udp_server_reuseaddr", FALSE)
inetd_tcpsrv2 == Program("tcp_listen", TRUE)
intro_tcpcli == Program("single", TRUE)
intro_tcpcli1 == Program("single", TRUE)
intro_tcpcli2 == Program("single", TRUE)
intro_tcpcli3 == Program("single", TRUE)
intro_tcpsrv == Program("single", TRUE)
intro_tcpsrv1 == Program("single", TRUE)
intro_tcpsrv2 == Program("single", TRUE)
intro_tcpsrv3 == Program("single", TRUE)

ClientPrograms ==
  {tcpcli, tcpcli1, tcpcli2, tcpcli3, udpcli1, udpcli2, intro_tcpcli, intro_tcpcli1,
   intro_tcpcli2, intro_tcpcli3}
ServerPrograms ==
  {tcpsrv1, tcpsrv2, tcpsrv3, tcpsrv4, udpsrv2, udpsrv3, inetd_tcpsrv2, intro_tcpsrv,
   intro_tcpsrv1, intro_tcpsrv2, intro_tcpsrv3}

Tcp == prog[Client].tcp

Init ==
  /\ prog \in [Procs -> ClientPrograms \cup ServerPrograms]
  /\ prog[Client] \in ClientPrograms
  /\ \A p \in Servers : prog[p] \in ServerPrograms /\ prog[p].tcp = Tcp
  /\ ~prog[2].resets      \* it is enough to let one of the two reset
  /\ \E mine, theirs \in SUBSET Addrs :
       /\ mine # {} /\ has = [p \in Procs |-> IF p = Client THEN theirs ELSE mine]
  /\ elsewhere \in SUBSET Addrs
  /\ i = [p \in Procs |-> 1] /\ open = [p \in Procs |-> {}] /\ pc = [p \in Procs |-> "try"]
  /\ bound = [p \in Servers |-> 0] /\ timewait = {} /\ newest = 0
  /\ server = 0 /\ told = "none" /\ gone = FALSE /\ refused = {} /\ restarts = 0

Goto(p, l) == pc' = [pc EXCEPT ![p] = l]
Listening(a) == {p \in Servers : bound[p] = a /\ pc[p] = "serve"}

-----------------------------------------------------------------------------
(* The walk. *)

\* To the next address; at the end of the list err_sys().
Advance(p) ==
  IF i[p] < NAddrs /\ prog[p].opens # "single"
  THEN i' = [i EXCEPT ![p] = @ + 1] /\ Goto(p, "try")
  ELSE Goto(p, "failed") /\ UNCHANGED i

\* socket().  Where it fails the next address is tried; Socket() ends the program.
Socket(p) ==
  /\ pc[p] = "try"
  /\ IF i[p] \in has[p]
     THEN Goto(p, "opened") /\ open' = [open EXCEPT ![p] = @ \cup {i[p]}] /\ UNCHANGED i
     ELSE /\ UNCHANGED open
          /\ IF prog[p].opens \in {"byname", "single"} THEN Goto(p, "failed") /\ UNCHANGED i ELSE Advance(p)
  /\ UNCHANGED <<conf, bound, timewait, newest, server, told, gone, refused, restarts>>

Fails(p) == IF prog[p].opens = "single" THEN "failed" ELSE "close"

\* connect() of a TCP client: accepted where a server listens, on either host.
Connect ==
  /\ Tcp /\ pc[Client] = "opened"
  /\ \/ /\ i[Client] \in elsewhere /\ server' = Client /\ Goto(Client, "asked")
     \/ /\ i[Client] \notin elsewhere /\ server' \in Listening(i[Client]) /\ Goto(Client, "asked")
     \/ /\ i[Client] \notin elsewhere /\ Listening(i[Client]) = {}
        /\ Goto(Client, Fails(Client)) /\ UNCHANGED server
  /\ UNCHANGED <<conf, i, open, bound, timewait, newest, told, gone, refused, restarts>>

\* A UDP client: any address will do.  The datagram it sends may be lost, or the
\* answer; nobody there is an error for a connected socket only.
ConnectUdp ==
  /\ ~Tcp /\ pc[Client] = "opened"
  /\ LET there == {p \in Servers : bound[p] = i[Client] /\ pc[p] = "serve"}
         taker == IF newest \in there THEN {newest} ELSE there
     IN \/ Goto(Client, "asked") /\ server' \in taker \cup {0}
        \/ /\ prog[Client].opens = "udp_connect" /\ there = {} /\ i[Client] \notin elsewhere
           /\ Goto(Client, "dead") /\ UNCHANGED server
  /\ UNCHANGED <<conf, i, open, bound, timewait, newest, told, gone, refused, restarts>>

\* Mutant: the same address is tried again.
CloseSame(p) ==
  /\ pc[p] = "close" /\ open' = [open EXCEPT ![p] = @ \ {i[p]}] /\ Goto(p, "try")
  /\ UNCHANGED <<conf, i, bound, timewait, newest, server, told, gone, refused, restarts>>

\* Mutant: the descriptor stays open.
CloseNot(p) ==
  /\ pc[p] = "close" /\ Advance(p)
  /\ UNCHANGED <<conf, open, bound, timewait, newest, server, told, gone, refused, restarts>>

Close(p) ==
  /\ pc[p] = "close" /\ open' = [open EXCEPT ![p] = @ \ {i[p]}] /\ Advance(p)
  /\ UNCHANGED <<conf, bound, timewait, newest, server, told, gone, refused, restarts>>

\* bind().  Without SO_REUSEADDR an address is taken if anybody is bound to it or
\* has connections left there; with it only if somebody listens (TCP), or holds
\* it without the option (UDP).
Reuses(p) == prog[p].opens \in {"tcp_listen", "udp_server_reuseaddr"}

Taken(p, a) ==
  \/ \E q \in Servers \ {p} : bound[q] = a /\ (~Reuses(p) \/ ~Reuses(q) \/ (Tcp /\ pc[q] = "serve"))
  \/ a \in timewait /\ ~Reuses(p)

Bind(p) ==
  /\ p \in Servers /\ pc[p] = "opened"
  /\ IF Taken(p, i[p])
     THEN /\ Goto(p, Fails(p)) /\ UNCHANGED <<bound, newest>>
          /\ refused' = IF \E q \in Servers \ {p} : bound[q] = i[p] THEN refused \cup {p} ELSE refused
     ELSE /\ UNCHANGED refused
          /\ bound' = [bound EXCEPT ![p] = i[p]]
          /\ IF Tcp THEN Goto(p, "listen") /\ UNCHANGED newest ELSE Goto(p, "serve") /\ newest' = p
  /\ UNCHANGED <<conf, i, open, timewait, server, told, gone, restarts>>

\* Listen().  Two that are bound to one address cannot both listen, and the
\* second does not try another.
Listen(p) ==
  /\ p \in Servers /\ pc[p] = "listen"
  /\ IF Listening(bound[p]) = {} THEN Goto(p, "serve") /\ UNCHANGED <<bound, refused>>
     ELSE /\ Goto(p, "failed") /\ bound' = [bound EXCEPT ![p] = 0]
          /\ refused' = refused \cup {p}
  /\ UNCHANGED <<conf, i, open, timewait, newest, server, told, gone, restarts>>

-----------------------------------------------------------------------------
(* The daytime service. *)

\* Accept(), Write() and Close(): the server is the one who closes, or who resets.  Writing to a
\* connection that has been reset may end it.
Answer(p) ==
  /\ p \in Servers /\ pc[p] = "serve" /\ server = p /\ told = "none"
  /\ \/ /\ told' = "line" /\ timewait' = (IF Tcp /\ ~gone /\ ~prog[p].resets THEN timewait \cup {bound[p]} ELSE timewait)
        /\ UNCHANGED <<pc, bound>>
     \/ /\ Tcp /\ gone /\ Goto(p, "dead") /\ bound' = [bound EXCEPT ![p] = 0]
        /\ told' = "eof" /\ UNCHANGED timewait
  /\ UNCHANGED <<conf, i, open, newest, server, gone, refused, restarts>>

AnswerElsewhere ==
  /\ server = Client /\ told = "none" /\ told' = "line"
  /\ UNCHANGED <<conf, i, open, pc, bound, timewait, newest, server, gone, refused, restarts>>

\* Read() to the end of the connection, where a reset is an error, or one Recvfrom().
TakeAnswer ==
  /\ pc[Client] = "asked" /\ told # "none"
  /\ Goto(Client, IF server \in Servers /\ prog[server].resets THEN "dead" ELSE "exit")
  /\ UNCHANGED <<conf, i, open, bound, timewait, newest, server, told, gone, refused, restarts>>

\* The client is killed with its connection.
Reset ==
  /\ Tcp /\ pc[Client] = "asked" /\ Goto(Client, "exit") /\ gone' = TRUE
  /\ UNCHANGED <<conf, i, open, bound, timewait, newest, server, told, refused, restarts>>

\* A server is killed, and the connection it may have is cut off.  It is enough to
\* let that happen to one of the two.
Kill(p) ==
  /\ p = 1 /\ pc[p] = "serve" /\ restarts < MaxRestarts
  /\ Goto(p, "killed") /\ bound' = [bound EXCEPT ![p] = 0]
  /\ told' = (IF Tcp /\ server = p /\ told = "none" THEN "eof" ELSE told)
  /\ UNCHANGED <<conf, i, open, timewait, newest, server, gone, refused, restarts>>

\* A server that is no more is started again.
Restart(p) ==
  /\ p = 1 /\ pc[p] \in {"dead", "failed", "killed"} /\ restarts < MaxRestarts
  /\ restarts' = restarts + 1 /\ Goto(p, "try") /\ i' = [i EXCEPT ![p] = 1]
  /\ open' = [open EXCEPT ![p] = {}]
  /\ UNCHANGED <<conf, bound, timewait, newest, server, told, gone, refused>>

TwoMSL ==
  /\ timewait # {} /\ timewait' = {}
  /\ UNCHANGED <<conf, i, open, pc, bound, newest, server, told, gone, refused, restarts>>

Step(p) == Socket(p) \/ Close(p) \/ Bind(p) \/ Listen(p) \/ Answer(p)
ClientStep == Connect \/ ConnectUdp \/ TakeAnswer \/ AnswerElsewhere

Next == (\E p \in Procs : Step(p) \/ Kill(p) \/ Restart(p)) \/ ClientStep \/ Reset \/ TwoMSL

Fairness == (\A p \in Procs : WF_vars(Step(p))) /\ WF_vars(ClientStep)

Spec == Init /\ [][Next]_vars /\ Fairness

-----------------------------------------------------------------------------
(* Properties. *)

\* One descriptor at most stays open, that of the address in use.
OneDescriptor == \A p \in Procs : open[p] \subseteq {i[p]}

\* An address that the client has passed has no socket or nobody there; so a
\* server elsewhere is found if the walk gets to it, which the walk of
\* gethostbyname() does not when Socket() fails before.
FirstThatAnswers ==
  /\ Tcp => \A a \in 1 .. i[Client] - 1 : a \notin has[Client] \cap elsewhere
  /\ pc[Client] = "failed" =>
       has[Client] \cap elsewhere = {}
       \/ (prog[Client].opens \in {"byname", "single"} /\ 1..i[Client] \ has[Client] # {})
       \/ (prog[Client].opens = "single" /\ 1 \notin elsewhere)

\* With SO_REUSEADDR a server that starts again is not kept out by the connections
\* it has left: one that gets no address has no socket or has met the other server.
ComesBack ==
  \A p \in Servers :
    pc[p] = "failed" /\ prog[p].opens = "tcp_listen" => has[p] = {} \/ p \in refused

\* Two servers are at one address together only with udp_server_reuseaddr(), and a
\* server dies only of a client that is gone.
OnePerAddress ==
  /\ \A a \in Addrs : Cardinality(Listening(a)) = 2 =>
       \A p \in Servers : prog[p].opens = "udp_server_reuseaddr"
  /\ \A p \in Servers : pc[p] = "dead" => gone

\* The client comes to an end, unless it has a UDP socket and its datagram or the
\* answer to it is lost.
ClientEnded == pc[Client] \in {"exit", "failed", "dead"} \/ (~Tcp /\ pc[Client] = "asked")

OpenersSafe == OneDescriptor /\ FirstThatAnswers /\ ComesBack /\ OnePerAddress
===============================================================================
