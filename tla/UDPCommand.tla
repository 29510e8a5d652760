----------------------------- MODULE UDPCommand -----------------------------
(***************************************************************************)
(* Homework 4: RhettDavid-hw4.c answers every datagram, "date" with the    *)
(* output of the command and anything else with an apology; Lab8Test.c     *)
(* sends a line and waits for a datagram.  Neither end numbers, repeats or *)
(* times out anything.  The server keeps the address of whoever sent last  *)
(* and answers to it; the client takes whatever datagram comes, and sends  *)
(* its next line to whoever sent that one.                                 *)
(*                                                                         *)
(* A line is <<client, number of its request, kind>>, and a request is a   *)
(* line.  A reply is a line, that it answers, and the client it goes to.   *)
(***************************************************************************)
EXTENDS Naturals, BagsExt, Bags

CONSTANTS
  Clients,
  MaxReq,     \* bound: lines each client sends
  Lines,      \* bound: kinds of lines each sends
  MaxCopies,  \* bound: how often the network delivers a datagram of each
  Exposed     \* bound: clients that strangers may send something to

Kinds == {"date", "other"}

\* What the constants are.
DateAssumption ==
  /\ MaxReq \in [Clients -> Nat] /\ Lines \in [Clients -> SUBSET Kinds]
  /\ MaxCopies \in [Clients -> Nat] /\ Exposed \subseteq Clients

\* A datagram that a stranger sends to a client.
Foreign(c) == [to |-> c, line |-> <<c, 0, "foreign">>]

VARIABLES
  cpc,       \* client: "prompt", "wait", "last" or "closed"
  req,       \* client: number of its last request
  kind,      \* client: kind of that request
  server,    \* client: does its variable server hold the server's address?
  took,      \* history: what its last datagram was: the "right" answer, a
             \* "late" one, to an earlier request, "another's" or "foreign"
  muddled,   \* history: was a datagram between client and server duplicated,
             \* or has the client taken a foreign one?
  lost,      \* history: did its last request go to a stranger, or has the
             \* network dropped a datagram between client and server since?
  requests,  \* bag of requests on their way to the server
  replies,   \* bag of datagrams on their way to the clients
  spc,       \* server: "start", "recv", "send", "hung" (in a command that does
             \* not end) or "failed"
  rcvBuf,    \* server: the line received, or <<>> when the buffer is cleared
  cli_addr   \* server: who sent it, or <<>> before the first

clientVars == <<cpc, req, kind, server, took, muddled, lost>>
serverVars == <<spc, rcvBuf, cli_addr>>
vars == <<clientVars, requests, replies, serverVars>>

Init ==
  /\ cpc = [c \in Clients |-> "prompt"]
  /\ req = [c \in Clients |-> 0]
  /\ kind = [c \in Clients |-> "other"]
  /\ server = [c \in Clients |-> TRUE]
  /\ took = [c \in Clients |-> "right"]
  /\ muddled = [c \in Clients |-> FALSE]
  /\ lost = [c \in Clients |-> FALSE]
  /\ requests = EmptyBag
  /\ replies = EmptyBag
  /\ spc = "start"
  /\ rcvBuf = <<>>
  /\ cli_addr = <<>>

-----------------------------------------------------------------------------
(* The client. *)

\* What a client has taken if the datagram answers this line.
Verdict(c, line) ==
  IF line[3] = "foreign" THEN "foreign"
  ELSE IF line[1] # c THEN "another's"
  ELSE IF line = <<c, req[c], kind[c]>> THEN "right"
  ELSE "late"

\* A line is typed and sent to the address in server; on the way to the server
\* the network makes copies of it, and a stranger does nothing with it that
\* Stray does not say. "close" is a line like any other, and the last.
SendRequest(c) ==
  /\ cpc[c] = "prompt"
  /\ req[c] < MaxReq[c]
  /\ req' = [req EXCEPT ![c] = @ + 1]
  /\ cpc' \in {[cpc EXCEPT ![c] = next] : next \in {"wait", "last"}}
  /\ \E k \in Lines[c], n \in 1..MaxCopies[c] :
       /\ kind' = [kind EXCEPT ![c] = k]
       /\ \/ /\ server[c]
             /\ requests' = requests (+) [d \in {<<c, req'[c], k>>} |-> n]
             /\ muddled' = [muddled EXCEPT ![c] = @ \/ n > 1]
          \/ /\ ~server[c]
             /\ UNCHANGED <<requests, muddled>>
  /\ lost' = [lost EXCEPT ![c] = ~server[c]]
  /\ UNCHANGED <<server, took, replies, serverVars>>

\* Any datagram for the client is received and shown, and recvfrom() stores
\* its sender in server.
ReceiveReply(c) ==
  /\ cpc[c] \in {"wait", "last"}
  /\ \E r \in BagToSet(replies) :
       /\ r.to = c
       /\ replies' = BagRemove(replies, r)
       /\ server' = [server EXCEPT ![c] = r # Foreign(c)]
       /\ took' = [took EXCEPT ![c] = Verdict(c, r.line)]
       /\ muddled' = [muddled EXCEPT ![c] = @ \/ r = Foreign(c)]
  /\ cpc' = [cpc EXCEPT ![c] = IF @ = "wait" THEN "prompt" ELSE "closed"]
  /\ UNCHANGED <<req, kind, lost, requests, serverVars>>

\* recvfrom() fails and the client exits.
ReceiveFails(c) ==
  /\ cpc[c] \in {"wait", "last"}
  /\ cpc' = [cpc EXCEPT ![c] = "closed"]
  /\ UNCHANGED <<req, kind, server, took, muddled, lost, requests, replies, serverVars>>

-----------------------------------------------------------------------------
(* The network. *)

\* The network drops a request. What finds no bound socket is lost in the
\* same way.
LoseRequest(d) ==
  /\ BagIn(d, requests)
  /\ requests' = BagRemove(requests, d)
  /\ lost' = [lost EXCEPT ![d[1]] = TRUE]
  /\ UNCHANGED <<cpc, req, kind, server, took, muddled, replies, serverVars>>

\* It drops a datagram for a client, or there is no such client any more.
LoseReply(r) ==
  /\ BagIn(r, replies)
  /\ replies' = BagRemove(replies, r)
  /\ lost' = [lost EXCEPT ![r.to] = @ \/ r # Foreign(r.to)]
  /\ UNCHANGED <<cpc, req, kind, server, took, muddled, requests, serverVars>>

\* A stranger sends the client a datagram; one of them is on its way at most.
Stray(c) ==
  /\ c \in Exposed
  /\ ~BagIn(Foreign(c), replies)
  /\ replies' = BagAdd(replies, Foreign(c))
  /\ UNCHANGED <<clientVars, requests, serverVars>>

-----------------------------------------------------------------------------
(* The server. *)

\* socket() and bind(), each of which may fail.
Bind ==
  /\ spc = "start"
  /\ spc' \in {"recv", "failed"}
  /\ UNCHANGED <<clientVars, requests, replies, rcvBuf, cli_addr>>

\* Mutant: the address is taken from the first datagram only.
ReceiveRequestOnce(d) ==
  /\ spc = "recv"
  /\ BagIn(d, requests)
  /\ requests' = BagRemove(requests, d)
  /\ rcvBuf' = d
  /\ cli_addr' = IF cli_addr = <<>> THEN d[1] ELSE cli_addr
  /\ spc' = "send"
  /\ UNCHANGED <<clientVars, replies>>

ReceiveRequest(d) ==
  /\ spc = "recv"
  /\ BagIn(d, requests)
  /\ requests' = BagRemove(requests, d)
  /\ rcvBuf' = d
  /\ cli_addr' = d[1]
  /\ spc' = "send"
  /\ UNCHANGED <<clientVars, replies>>

\* recvfrom() fails and the server exits.
ReceiveRequestFails ==
  /\ spc = "recv"
  /\ spc' = "failed"
  /\ UNCHANGED <<clientVars, requests, replies, rcvBuf, cli_addr>>

\* The answer to the line is sent to the address, the network makes copies of
\* it, and the buffer is cleared; if sendto() fails the server exits.
\* A line that begins with "date" is run as a command first, whatever follows
\* in it: it may never end, and may end the server (popen() fails, or the
\* output is longer than the buffer).
Reply ==
  /\ spc = "send"
  /\ \/ \E n \in 1..MaxCopies[cli_addr] :
          /\ replies' = replies (+) [r \in {[to |-> cli_addr, line |-> rcvBuf]} |-> n]
          /\ muddled' = [muddled EXCEPT ![cli_addr] = @ \/ n > 1]
          /\ spc' = "recv"
          /\ rcvBuf' = <<>>
     \/ spc' = "failed" /\ UNCHANGED <<muddled, replies, rcvBuf>>
     \/ rcvBuf[3] = "date" /\ spc' = "hung" /\ UNCHANGED <<muddled, replies, rcvBuf>>
  /\ UNCHANGED <<cpc, req, kind, server, took, lost, requests, cli_addr>>

ServerNext ==
  Bind \/ ReceiveRequestFails \/ Reply \/ \E d \in BagToSet(requests) : ReceiveRequest(d)

Next ==
  \/ \E c \in Clients : SendRequest(c) \/ ReceiveReply(c) \/ ReceiveFails(c) \/ Stray(c)
  \/ \E d \in BagToSet(requests) : LoseRequest(d)
  \/ \E r \in BagToSet(replies) : LoseReply(r)
  \/ ServerNext

\* The programs run when they can; nobody has to type, and the network
\* promises nothing.
Fairness == WF_vars(ServerNext) /\ \A c \in Clients : WF_vars(ReceiveReply(c))

Spec == Init /\ [][Next]_vars /\ Fairness

-----------------------------------------------------------------------------
(* Properties. *)

\* Although the server has one address and one buffer for all its clients,
\* and the network loses, copies and mixes up their datagrams, no client is
\* ever given another's answer. It takes a late answer of its own for the one
\* it waits for only after a request or an answer of its own was duplicated or
\* it has taken a foreign datagram for an answer: it has one request out at a
\* time, and from then on it may have two.
AnswerMatches ==
  \A c \in Clients : took[c] # "another's" /\ (took[c] = "late" => muddled[c])

\* The client waits, and nothing of its own is on the way or in the server.
Silenced(c) ==
  /\ cpc[c] \in {"wait", "last"}
  /\ \A d \in BagToSet(requests) : d[1] # c
  /\ \A r \in BagToSet(replies) : r.to # c
  /\ spc = "send" => cli_addr # c

\* One lost datagram silences a client for good: there is no timeout, and
\* it sends nothing more before it has received; what ends it is an error or a
\* stranger. A loss, or a stranger that was sent the request, is the only thing
\* that does it: as long as the server is there, every other wait ends, in
\* whatever order the datagrams of the clients come.
LossIsSilence ==
  /\ [][\A c \in Clients :
          Silenced(c) => Silenced(c)' \/ BagIn(Foreign(c), replies)' \/ cpc'[c] = "closed"]_vars
  /\ \A c \in Clients :
       []<>(cpc[c] = "wait" => lost[c] \/ spc \in {"hung", "failed"})

=============================================================================
