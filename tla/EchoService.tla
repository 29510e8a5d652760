---------------------------- MODULE EchoService ----------------------------
(***************************************************************************)
(* Homework 1: EchoServer.cpp, an iterative TCP echo server, and its       *)
(* client EchoClient2.c.  The server serves one connection until recv()    *)
(* returns 0 and takes the next; it never closes a connection, and any     *)
(* error on one ends the server.                                           *)
(*                                                                         *)
(* A message is Units units, the pieces TCP may deliver it in; one call    *)
(* takes any number of those that have arrived, at least one.              *)
(***************************************************************************)
EXTENDS Integers, Sequences, FiniteSets

CONSTANTS
  Clients,
  Units,    \* pieces a message may arrive in
  MaxMsg,   \* bound: messages of a client
  MaxFds    \* connections the server can have open

ASSUME EchoAssumption == Units \in Nat \ {0} /\ MaxMsg \in Nat /\ MaxFds \in Nat

VARIABLES
  cpc,       \* client: "start", "prompt", "read", "last", "closing" or
             \* "closed"
  nsent,     \* client: units written
  nread,     \* client: the unit read last
  link,      \* state of the connection for the server: "open", "fin" or "reset"
  up,        \* units on the way to the server
  down,      \* units on the way to the client
  backlog,   \* connections not accepted yet
  spc,       \* server: "accept", "recv", "send" or "exited"
  cur,       \* server: whose connection client_fd is
  buf,       \* server: units received and not yet sent
  accepted   \* connections accepted; none is ever closed

clientVars == <<cpc, nsent, nread>>
serverVars == <<spc, cur, buf, accepted>>
vars == <<clientVars, link, up, down, backlog, serverVars>>

None == {}   \* cur before the first accept()

Init ==
  /\ cpc = [c \in Clients |-> "start"]
  /\ nsent = [c \in Clients |-> 0]
  /\ nread = [c \in Clients |-> 0]
  /\ link = [c \in Clients |-> "open"]
  /\ up = [c \in Clients |-> <<>>]
  /\ down = [c \in Clients |-> <<>>]
  /\ backlog = <<>>
  /\ spc = "accept"
  /\ cur = None
  /\ buf = <<>>
  /\ accepted = {}

Rest(s, k) == SubSeq(s, k + 1, Len(s))

-----------------------------------------------------------------------------
(* The client. *)

Connect(c) ==
  /\ cpc[c] = "start"
  /\ IF spc = "exited"
     THEN cpc' = [cpc EXCEPT ![c] = "closed"] /\ UNCHANGED backlog
     ELSE cpc' = [cpc EXCEPT ![c] = "prompt"] /\ backlog' = Append(backlog, c)
  /\ UNCHANGED <<nsent, nread, link, up, down, serverVars>>

\* A line is typed and written; "close" is one that ends the loop after its
\* echo.  What is written to a server that is gone is lost.
Write(c) ==
  /\ cpc[c] = "prompt"
  /\ nsent[c] < MaxMsg * Units
  /\ up' = [up EXCEPT ![c] =
       IF spc = "exited" THEN @ ELSE @ \o [j \in 1..Units |-> nsent[c] + j]]
  /\ nsent' = [nsent EXCEPT ![c] = @ + Units]
  /\ \E next \in {"read", "last"} : cpc' = [cpc EXCEPT ![c] = next]
  /\ UNCHANGED <<nread, link, down, backlog, serverVars>>

AfterRead == [read |-> "prompt", last |-> "closing"]

\* One read(): whatever part of the echo is there, or nothing from a server
\* that is gone.  The client goes on either way.
Read(c) ==
  /\ cpc[c] \in {"read", "last"}
  /\ \/ \E k \in 1..Len(down[c]) :
          /\ nread' = [nread EXCEPT ![c] = down[c][k]]
          /\ down' = [down EXCEPT ![c] = Rest(@, k)]
     \/ /\ down[c] = <<>>
        /\ spc = "exited"
        /\ UNCHANGED <<nread, down>>
  /\ cpc' = [cpc EXCEPT ![c] = AfterRead[@]]
  /\ UNCHANGED <<nsent, link, up, backlog, serverVars>>

\* The client closes after the echo of "close"; the user interrupts it, or a
\* second write() to a server that is gone ends it.  With unread bytes the
\* connection is reset.
Hangup(c) ==
  /\ cpc[c] \in {"prompt", "read", "last", "closing"}
  /\ cpc' = [cpc EXCEPT ![c] = "closed"]
  /\ link' = [link EXCEPT ![c] = IF down[c] = <<>> THEN "fin" ELSE "reset"]
  /\ UNCHANGED <<nsent, nread, up, down, backlog, serverVars>>

-----------------------------------------------------------------------------
(* The server. *)

\* With no descriptor left accept() fails and the server exits.
Accept ==
  /\ spc = "accept"
  /\ backlog # <<>>
  /\ IF Cardinality(accepted) < MaxFds
     THEN /\ cur' = {Head(backlog)}
          /\ accepted' = accepted \cup cur'
          /\ backlog' = Tail(backlog)
          /\ spc' = "recv"
     ELSE spc' = "exited" /\ UNCHANGED <<cur, accepted, backlog>>
  /\ UNCHANGED <<clientVars, link, up, down, buf>>

\* Mutant: a new message is received over the one not yet sent.
RecvDrops(c) ==
  /\ spc = "recv"
  /\ cur = {c}
  /\ up[c] # <<>>
  /\ \E k \in 1..Len(up[c]) :
       /\ buf' = SubSeq(up[c], 1, 1)
       /\ up' = [up EXCEPT ![c] = Rest(@, k)]
  /\ spc' = "send"
  /\ UNCHANGED <<clientVars, link, down, backlog, cur, accepted>>

\* recv() returns k units.
Recv(c) ==
  /\ spc = "recv"
  /\ cur = {c}
  /\ up[c] # <<>>
  /\ \E k \in 1..Len(up[c]) :
       /\ buf' = SubSeq(up[c], 1, k)
       /\ up' = [up EXCEPT ![c] = Rest(@, k)]
  /\ spc' = "send"
  /\ UNCHANGED <<clientVars, link, down, backlog, cur, accepted>>

\* recv() returns 0 and the next connection is accepted, or it returns -1
\* for a reset and the server exits.
RecvEnd(c) ==
  /\ spc = "recv"
  /\ cur = {c}
  /\ up[c] = <<>>
  /\ link[c] # "open"
  /\ spc' = IF link[c] = "reset" THEN "exited" ELSE "accept"
  /\ UNCHANGED <<clientVars, link, up, down, backlog, cur, buf, accepted>>

\* send(): to a client that has closed it provokes a reset, to one that has
\* reset it fails and the server exits (or SIGPIPE ends it).
Send(c) ==
  /\ spc = "send"
  /\ cur = {c}
  /\ buf' = <<>>
  /\ down' = [down EXCEPT ![c] = IF link[c] = "open" THEN @ \o buf ELSE @]
  /\ link' = [link EXCEPT ![c] = IF @ = "fin" THEN "reset" ELSE @]
  /\ spc' = IF link[c] = "reset" THEN "exited" ELSE "recv"
  /\ UNCHANGED <<clientVars, up, backlog, cur, accepted>>

ClientNext(c) == Connect(c) \/ Write(c) \/ Read(c) \/ Hangup(c)
ServerNext == Accept \/ \E c \in Clients : Recv(c) \/ RecvEnd(c) \/ Send(c)

Next == ServerNext \/ \E c \in Clients : ClientNext(c)

\* Server and clients run when they can; nobody has to connect, to type or
\* to go away.
Fairness == WF_vars(ServerNext) /\ \A c \in Clients : WF_vars(Read(c))

Spec == Init /\ [][Next]_vars /\ Fairness

-----------------------------------------------------------------------------
(* Properties. *)

\* The units client c can still get: on their way back, in the server's
\* buffer, or on their way to the server; the last two end with the server.
InFlight(c) ==
  IF cpc[c] = "closed" THEN <<>>
  ELSE IF spc = "exited" THEN down[c]
  ELSE down[c] \o (IF cur = {c} THEN buf ELSE <<>>) \o up[c]

Promise == INSTANCE Channel
  WITH Ends <- Clients, MaxSend <- MaxMsg * Units,
       open <- [c \in Clients |-> cpc[c] # "closed" /\ spc # "exited"],
       nput <- nsent, ntaken <- nread, content <- [c \in Clients |-> InFlight(c)]

\* Server, network and client together implement the channel: whatever way
\* the messages are cut up, each client gets its own units back, in order.
EchoIsChannel == Promise!Spec

\* The server exits for three reasons only: a client reset its connection,
\* or was gone when its echo was sent, or the descriptors, none of which is
\* closed, ran out.
ExitHasCause ==
  spc = "exited" =>
    \/ \E c \in accepted : link[c] = "reset" /\ cpc[c] = "closed"
    \/ Cardinality(accepted) = MaxFds /\ backlog # <<>>

\* A client that has been accepted and has written gets an answer to its
\* read(), though not always the whole echo: the server sends it, or exits, and
\* that only for one of its three reasons.
EchoComes ==
  /\ []ExitHasCause
  /\ \A c \in Clients : []<>(cpc[c] = "read" => cur # {c})

=============================================================================
