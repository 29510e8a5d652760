---------------------------- MODULE MCConnections ----------------------------
(* Programs over connections: a behaviour     is one of TCPChatServer, with  *)
(* three clients and two slots, so that one finds the table full, and with a *)
(* listening socket numbered 1, which makes slot 1 what slot 3 is otherwise; *)
(* or one of the traffic program sock: SockTCP, SockUDP, or SockServer with  *)
(* three clients; or of EchoServers or Oob.  The rest stands still.          *)
EXTENDS TCPChatServer

CONSTANTS
  MaxIn, Cap, NClients, MaxProc, RcvBuf

VARIABLES
  which,    \* the program that runs
  tsourcesink, half, tpeek, tpc, trset, typed, ttaken, eof, stdineof,
  tsent, rd, tfin, rst, tout,
  usourcesink, ignorewerr, connectudp, foreign, upeek, upc, urset,
  zero, servaddr, utaken, usent, flight, inq, stray, refused, blamed, uout,
  dofork, vnproc, vpc, sigflag, blocked, vpending, vbacklog, serving,
  vchild, untold, vcpc, est,
  prog, restart, enproc, epc, errno, ewhy, epending, handling, connfd,
  ebacklog, echild, ecpc,
  recv, forgets, script, osent, arrived, ofin, next, mark, oob, sigurg,
  opc, xset, orset, justreadoob, announced, owhy, before, urgent, wrong

sock == <<tsourcesink, half, tpeek, tpc, trset, typed, ttaken, eof,
          stdineof, tsent, rd, tfin, rst, tout>>
dgram == <<usourcesink, ignorewerr, connectudp, foreign, upeek, zero, upc,
           urset, servaddr, utaken, usent, flight, inq, stray, refused, blamed, uout>>
server == <<dofork, vnproc, vpc, sigflag, blocked, vpending, vbacklog,
            serving, vchild, untold, vcpc, est>>
echo == <<prog, restart, enproc, epc, errno, ewhy, epending, handling,
          connfd, ebacklog, echild, ecpc>>
urg == <<recv, forgets, script, osent, arrived, ofin, next, mark, oob,
         sigurg, opc, xset, orset, justreadoob, announced, owhy, before,
         urgent, wrong>>

T == INSTANCE SockTCP WITH
       sourcesink <- tsourcesink, peek <- tpeek, pc <- tpc, rset <- trset,
       taken <- ttaken, sent <- tsent, fin <- tfin, out <- tout
U == INSTANCE SockUDP WITH
       sourcesink <- usourcesink, peek <- upeek, pc <- upc, rset <- urset,
       taken <- utaken, sent <- usent, out <- uout
S == INSTANCE SockServer WITH
       nproc <- vnproc, pc <- vpc, pending <- vpending,
       backlog <- vbacklog, child <- vchild, cpc <- vcpc
E == INSTANCE EchoServers WITH
       nproc <- enproc, pc <- epc, why <- ewhy, pending <- epending,
       backlog <- ebacklog, child <- echild, cpc <- ecpc
O == INSTANCE Oob WITH
       sent <- osent, fin <- ofin, pc <- opc, rset <- orset, why <- owhy

MCInit ==
  /\ which \in {"chat", "tcp", "udp", "server", "echo", "oob"}
  /\ Init
  /\ IF which = "tcp" THEN TRUE ELSE tsourcesink = FALSE /\ half = {} /\ tpeek = {}
  /\ T!Init
  /\ IF which = "udp" THEN TRUE ELSE usourcesink = FALSE /\ ignorewerr = FALSE /\ foreign = FALSE /\ upeek = FALSE /\ zero = FALSE /\ connectudp = {}
  /\ U!Init
  /\ IF which = "server" THEN TRUE ELSE dofork = FALSE /\ vnproc = 2
  /\ S!Init
  /\ IF which = "echo" THEN TRUE ELSE prog = E!tcpserv01 /\ restart = TRUE /\ enproc = 2
  /\ E!Init
  /\ IF which = "oob" THEN TRUE ELSE recv = O!tcprecv05 /\ forgets = TRUE /\ script = O!tcpsend01
  /\ O!Init

MCNext ==
  \/ which = "chat" /\ Next /\ UNCHANGED <<which, sock, dgram, server, echo, urg>>
  \/ which = "tcp" /\ T!Next /\ UNCHANGED <<which, vars, dgram, server, echo, urg>>
  \/ which = "udp" /\ U!Next /\ UNCHANGED <<which, vars, sock, server, echo, urg>>
  \/ which = "server" /\ S!Next /\ UNCHANGED <<which, vars, sock, dgram, echo, urg>>
  \/ which = "echo" /\ E!Next /\ UNCHANGED <<which, vars, sock, dgram, server, urg>>
  \/ which = "oob" /\ O!Next /\ UNCHANGED <<which, vars, sock, dgram, server, echo>>

\* With the fairness each module states, for the behaviours it has.
MCFairness ==
  /\ WF_vars(which = "chat" /\ ServerNext)
  /\ \A c \in Users : WF_vars(which = "chat" /\ ClientRead(c))
  /\ \A p \in T!Ends : WF_sock(which = "tcp" /\ T!Step(p))
  /\ \A p \in U!Ends : WF_dgram(which = "udp" /\ U!Step(p))
  /\ WF_server(which = "server" /\ S!Parent)
  /\ \A c \in S!Clients : WF_server(which = "server" /\ S!Child(c))
  /\ \A c \in S!Clients : WF_server(which = "server" /\ (S!Returns(c) \/ S!CallAgain(c)))
  /\ WF_echo(which = "echo" /\ E!Server)
  /\ \A c \in E!Clients : WF_echo(which = "echo" /\ E!ServeEnds(c))
  /\ WF_urg(which = "oob" /\ O!Sender)
  /\ WF_urg(which = "oob" /\ O!Receiver)

MCSpec == MCInit /\ [][MCNext]_<<which, vars, sock, dgram, server, echo, urg>> /\ MCFairness

\* TCPChatServer: who finds no slot is lost for good, and only one slot is heard.
LostAndHeard == LeakedForever /\ OneSlotSpeaks

\* SockTCP, SockUDP, SockServer: what is printed was sent, in the order and as
\* often as the options say; an end dies of its own datagrams; children take
\* their turns at the terminal, and a turn is lost in two ways only.
SockSafe == T!SockTCPSafe /\ U!SockUDPSafe /\ S!SockServerSafe

\* EchoServers: what each program buries and what it dies of.
EchoServersSafe == E!EchoServersSafe

\* Oob: what the receivers die of, which byte they take for the urgent one, and
\* that none of those that read it is missed.
OobSafe == O!OobSafe

\* What must happen: what clients of the chat server send is read; who waits in
\* sock gets on but for the known ways to stick, and connections get their child;
\* the echo servers serve every client while they live; the receivers of urgent
\* data come to the end of what was sent.
AllGetOn ==
  /\ EveryoneServed
  /\ T!OnlyBothBlock /\ U!SourceEnds /\ S!Accepted
  /\ E!AllEchoed /\ O!Received

===============================================================================
