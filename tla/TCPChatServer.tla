---------------------------- MODULE TCPChatServer ----------------------------
(***************************************************************************)
(* Select/TCPServer.c: a TCP server that multiplexes its connections with  *)
(* select(), and TCPClient.c, its client.  The server keeps descriptors in *)
(* the slots of client_socket; a message read from one is meant for the    *)
(* others.  The loop that sends it takes the slot number i for a           *)
(* descriptor: it calls send(i, ...) for i from 0 to max_sd - 1.           *)
(*                                                                         *)
(* The server is one process, but its clients act between any two of its   *)
(* system calls, and select()'s answer is used until the next one.         *)
(***************************************************************************)
EXTENDS Integers, Sequences, FiniteSets, FiniteSetsExt

CONSTANTS
  Users,      \* the client programs, one connection each
  Master,       \* master_socket: the descriptors that are open before it (3)
  MaxClients,   \* slots of client_socket (30 in the code)
  Backlog       \* connections the kernel completes before accept()

ASSUME UsersAssumption == IsFiniteSet(Users)
ASSUME MasterAssumption == Master \in Nat \ {0}
ASSUME MaxClientsAssumption == MaxClients \in Nat \ {0}
\* The listening descriptor is the number of a slot, as 3 is one of 30.
ASSUME MasterIsASlot == Master < MaxClients
ASSUME BacklogAssumption == Backlog \in Nat \ {0}

Slots == 0..MaxClients-1

\* The descriptors accept() may return: the lowest that are free.
FDs == Master+1..Master+Cardinality(Users)

VARIABLES
  cpc,      \* client: "idle", "read", "prompt" or "gone"
  mail,     \* client: bytes wait in its receive queue
  link,     \* state of the connection, as the server's socket sees it
  data,     \* bytes of the client wait in the server's socket
  backlog,  \* clients whose connection is not accepted yet
  fd,       \* descriptor of the client's connection in the server, or 0
  slot,     \* server: client_socket
  spc,      \* server: "select", "accept", "scan" or "dead" (SIGPIPE, or exit())
  i,        \* server: the slot the scan is at
  readfds,  \* server: what select() reported
  max_sd,   \* server: the highest descriptor given to select()
  heard     \* history: <<speaker, hearer>> of what this scan passed on

clientVars == <<cpc, mail, link, data>>
serverVars == <<slot, spc, i, readfds, max_sd>>
vars == <<clientVars, backlog, fd, serverVars, heard>>

Open      == {c \in Users : fd[c] # 0}
OwnerOf(f) == CHOOSE c \in Open : fd[c] = f
InSlot(f) == \E k \in Slots : slot[k] = f
Leaked    == {c \in Open : ~InSlot(fd[c])}

\* read() would not block.
Readable(c) == data[c] \/ link[c] # "open"

Init ==
  /\ cpc = [c \in Users |-> "idle"]
  /\ mail = [c \in Users |-> FALSE]
  /\ link = [c \in Users |-> "open"]
  /\ data = [c \in Users |-> FALSE]
  /\ backlog = <<>>
  /\ fd = [c \in Users |-> 0]
  /\ slot = [k \in Slots |-> 0]
  /\ spc = "select"
  /\ i = 0
  /\ readfds = {}
  /\ max_sd = Master
  /\ heard = {}

-----------------------------------------------------------------------------
(* TCPClient.c: connect, then read and write in turn. *)

Connect(c) ==
  /\ cpc[c] = "idle"
  /\ spc # "dead"
  /\ Len(backlog) <= Backlog
  /\ cpc' = [cpc EXCEPT ![c] = "read"]
  /\ backlog' = Append(backlog, c)
  /\ UNCHANGED <<mail, link, data, fd, serverVars, heard>>

\* read() returns with bytes, or because the server is gone.
ClientRead(c) ==
  /\ cpc[c] = "read"
  /\ mail[c] \/ spc = "dead"
  /\ cpc' = [cpc EXCEPT ![c] = "prompt"]
  /\ mail' = [mail EXCEPT ![c] = FALSE]
  /\ UNCHANGED <<link, data, backlog, fd, serverVars, heard>>

\* The user types a line. A write to a server that is gone may be the one
\* that ends the client with SIGPIPE.
ClientWrite(c) ==
  /\ cpc[c] = "prompt"
  /\ \/ cpc' = [cpc EXCEPT ![c] = "read"]
     \/ spc = "dead" /\ cpc' = [cpc EXCEPT ![c] = "gone"]
  /\ data' = [data EXCEPT ![c] = spc # "dead"]
  /\ UNCHANGED <<mail, link, backlog, fd, serverVars, heard>>

\* A connection is closed in order, or reset if bytes were left unread.
Hangup(c) == link' = [link EXCEPT ![c] = IF mail[c] THEN "reset" ELSE "fin"]

\* The user types "close": the line is sent, the loop ends, close().
ClientClose(c) ==
  /\ cpc[c] = "prompt"
  /\ cpc' = [cpc EXCEPT ![c] = "gone"]
  /\ data' = [data EXCEPT ![c] = TRUE]
  /\ Hangup(c)
  /\ UNCHANGED <<mail, backlog, fd, serverVars, heard>>

\* The user interrupts the client.
ClientKilled(c) ==
  /\ cpc[c] \in {"read", "prompt"}
  /\ cpc' = [cpc EXCEPT ![c] = "gone"]
  /\ Hangup(c)
  /\ UNCHANGED <<mail, data, backlog, fd, serverVars, heard>>

-----------------------------------------------------------------------------
(* What send() on a connection does, l being its state. *)

\* The peer has answered an earlier send with a reset: SIGPIPE.
Fatal(l) == l \in {"finrst", "broken"}

\* Otherwise the bytes are delivered, or the reset comes now, or a reset
\* that came before is reported and forgotten.
AfterSend(l) == CASE l = "fin"   -> "finrst"
                  [] l = "reset" -> "broken"
                  [] OTHER       -> l

-----------------------------------------------------------------------------
(* The server. *)

\* The set is built from the slots and select() reports the ready part.
Select ==
  /\ spc = "select"
  /\ LET ready == {fd[c] : c \in {d \in Open \ Leaked : Readable(d)}}
                  \cup (IF backlog # <<>> THEN {Master} ELSE {})
     IN  /\ ready # {}
         /\ readfds' = ready
         /\ spc' = IF Master \in ready THEN "accept" ELSE "scan"
  /\ max_sd' = Max({Master} \cup {slot[k] : k \in Slots})
  /\ i' = 0
  /\ heard' = {}
  /\ UNCHANGED <<clientVars, backlog, fd, slot>>

\* accept() takes the lowest free descriptor; the welcome is sent; the first
\* empty slot gets the descriptor. With no empty slot it is forgotten.
Accept ==
  /\ spc = "accept"
  /\ LET c == Head(backlog)
         f == Min(FDs \ {fd[d] : d \in Open})
         empty == {k \in Slots : slot[k] = 0}
     IN  /\ fd' = [fd EXCEPT ![c] = f]
         /\ slot' = IF empty = {} THEN slot ELSE [slot EXCEPT ![Min(empty)] = f]
         /\ mail' = [mail EXCEPT ![c] = link[c] = "open"]
         /\ link' = [link EXCEPT ![c] = AfterSend(@)]
  /\ backlog' = Tail(backlog)
  /\ spc' = "scan"
  /\ UNCHANGED <<cpc, data, i, readfds, max_sd, heard>>

\* accept() fails, as when the descriptors that were lost have used up the
\* process's: exit(EXIT_FAILURE).
AcceptFails ==
  /\ spc = "accept"
  /\ spc' = "dead"
  /\ UNCHANGED <<clientVars, backlog, fd, slot, i, readfds, max_sd, heard>>

\* Mutant: the scan ends with the first slot.
NextSlotNone == i' = 0 /\ spc' = "select"

NextSlot ==
  IF i + 1 < MaxClients THEN i' = i + 1 /\ spc' = "scan"
                        ELSE i' = 0 /\ spc' = "select"

\* FD_ISSET is false for slot i.
SkipSlot ==
  /\ spc = "scan"
  /\ slot[i] \notin readfds
  /\ NextSlot
  /\ UNCHANGED <<clientVars, backlog, fd, slot, readfds, max_sd, heard>>

\* Mutant: the slot of a closed connection is not emptied.
DisconnectKeepsSlot ==
  /\ spc = "scan"
  /\ slot[i] \in readfds
  /\ LET c == OwnerOf(slot[i])
     IN  /\ ~data[c]
         /\ link[c] # "reset"
         /\ fd' = [fd EXCEPT ![c] = 0]
  /\ NextSlot
  /\ UNCHANGED <<clientVars, backlog, slot, readfds, max_sd, heard>>

\* read() returns 0: the connection is closed and its slot emptied.
Disconnect ==
  /\ spc = "scan"
  /\ slot[i] \in readfds
  /\ LET c == OwnerOf(slot[i])
     IN  /\ ~data[c]
         /\ link[c] # "reset"
         /\ fd' = [fd EXCEPT ![c] = 0]
  /\ slot' = [slot EXCEPT ![i] = 0]
  /\ NextSlot
  /\ UNCHANGED <<clientVars, backlog, readfds, max_sd, heard>>

\* Mutant: the comparison is turned round.
TargetsSame(outside) ==
  {k \in 0..max_sd-1 : IF k \in Slots THEN slot[k] = slot[i] ELSE k \in outside}

\* The values of i the broadcast loop passes to send(). Past the end of the
\* array the comparison reads whatever is there.
Targets(outside) ==
  {k \in 0..max_sd-1 : IF k \in Slots THEN slot[k] # slot[i] ELSE k \in outside}

\* The broadcast of a message of client c, the links being l by then.
\* Descriptors below Master are no sockets and send() fails; Master is a
\* listening socket, on which send() raises SIGPIPE before any client's turn
\* comes.
Broadcast(c, targets, l) ==
  LET fatal   == {f \in targets : f = Master \/ \E d \in Open : fd[d] = f /\ Fatal(l[d])}
      reached == {d \in Open : fd[d] \in targets /\ \A f \in fatal : fd[d] < f}
      hearers == {d \in reached : l[d] = "open"}
  IN  /\ heard' = heard \cup ({c} \X hearers)
      /\ mail' = [d \in Users |-> mail[d] \/ d \in hearers]
      /\ link' = [d \in Users |-> IF d \in reached THEN AfterSend(l[d]) ELSE l[d]]
      /\ IF fatal = {} THEN NextSlot ELSE spc' = "dead" /\ i' = i

\* read() returns bytes, or -1 for a reset: both are broadcast, the latter
\* with what the buffer held before.
Message ==
  /\ spc = "scan"
  /\ slot[i] \in readfds
  /\ LET c == OwnerOf(slot[i])
     IN  /\ data[c] \/ link[c] = "reset"
         /\ data' = [data EXCEPT ![c] = FALSE]
         /\ \E outside \in SUBSET (MaxClients..max_sd-1) :
              Broadcast(c, Targets(outside),
                        IF data[c] THEN link ELSE [link EXCEPT ![c] = "broken"])
  /\ UNCHANGED <<cpc, backlog, fd, slot, readfds, max_sd>>

ServerNext == Select \/ Accept \/ AcceptFails \/ SkipSlot \/ Disconnect \/ Message

ClientNext(c) ==
  \/ Connect(c) \/ ClientRead(c) \/ ClientWrite(c)
  \/ ClientClose(c) \/ ClientKilled(c)

Next == ServerNext \/ \E c \in Users : ClientNext(c)

\* The server runs when it can and clients read what they get; nobody has
\* to type, close or connect.
Fairness == WF_vars(ServerNext) /\ \A c \in Users : WF_vars(ClientRead(c))

Spec == Init /\ [][Next]_vars /\ Fairness

-----------------------------------------------------------------------------
(* Properties. *)

\* Every variable has its type.
TypeOK ==
  /\ cpc \in [Users -> {"idle", "read", "prompt", "gone"}]
  /\ mail \in [Users -> BOOLEAN]
  /\ link \in [Users -> {"open", "fin", "reset", "finrst", "broken"}]
  /\ data \in [Users -> BOOLEAN]
  /\ backlog \in Seq(Users) /\ Len(backlog) <= Backlog + 1
  /\ fd \in [Users -> FDs \cup {0}]
  /\ slot \in [Slots -> FDs \cup {0}]
  /\ spc \in {"select", "accept", "scan", "dead"}
  /\ i \in Slots
  /\ readfds \subseteq FDs \cup {Master}
  /\ max_sd \in FDs \cup {Master}
  /\ heard \subseteq Users \X Users

\* The table and the kernel agree although descriptors are reused and the
\* scan works from an old answer of select(): a slot holds an open
\* descriptor, no two hold the same, and what the scan has still to serve is
\* in the set select() was asked about.
SlotTable ==
  /\ \A c, d \in Open : c # d => fd[c] # fd[d]
  /\ \A k \in Slots : slot[k] # 0 =>
       /\ \E c \in Open : fd[c] = slot[k]
       /\ \A m \in Slots : slot[m] = slot[k] => m = k
  /\ spc = "scan" =>
       \A f \in readfds \ {Master} : (\E k \in Slots : k >= i /\ slot[k] = f) =>
         f <= max_sd /\ \E c \in Open : fd[c] = f /\ Readable(c)

\* The descriptor of a client that found no empty slot is lost: while the
\* server lives it is neither served nor closed, even after the client has
\* gone and slots are empty again.
LeakedForever ==
  [][spc' # "dead" => \A c \in Leaked : c \in Leaked' /\ (data[c] => data'[c])]_vars

\* The only message that gets anywhere is one read from the slot whose number
\* is the descriptor of the listening socket (slot 3), for which alone the
\* comparison passes over that descriptor; it reaches the
\* open connections below the highest descriptor select() was given. Any
\* other message ends the server.
OneSlotSpeaks ==
  [][/\ \A p \in heard' \ heard :
          i = Master /\ fd[p[1]] = slot[i] /\ fd[p[2]] < max_sd
     /\ (spc = "scan" /\ i # Master /\ \E c \in Open : fd[c] = slot[i] /\ data[c] /\ ~data'[c])
          => spc' = "dead"]_vars

\* One scan serves every slot, so no client, however busy the others are,
\* waits for ever: what it sent is read, or the server is dead, or the
\* client is among the forgotten.  But read is not heard.
EveryoneServed ==
  \A c \in Users : []<>(data[c] /\ fd[c] # 0 => spc = "dead" \/ c \in Leaked)

\* What TCPServer.c:166 says the branch does, "Echo back the message that
\* came in": who sent a message that was read gets it.
EchoBack ==
  [][\A c \in Users :
       (spc = "scan" /\ data[c] /\ ~data'[c]) => <<c, c>> \in heard']_vars

=============================================================================
