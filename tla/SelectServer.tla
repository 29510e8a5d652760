----------------------------- MODULE SelectServer -----------------------------
(***************************************************************************)
(* Servers that serve all their clients from one loop around select() or   *)
(* poll(): "select01" (tcpcliserv/tcpservselect01.c), "select03"           *)
(* (nonblock/tcpservselect03.c), "poll01" (tcpcliserv/tcpservpoll01.c),    *)
(* "udp" (udpcliserv/udpservselect01.c, which forks for TCP and answers    *)
(* datagrams itself) and "gnu" (UDP Chat/Select/ServerExample.c, which     *)
(* prints what comes).                                                     *)
(*                                                                         *)
(* A connection is a number, in the order of connect(), and its k-th line, *)
(* or part of a line, is <<c, k>>.  slot is client[], or for "gnu" the set *)
(* active_fd_set.                                                          *)
(***************************************************************************)
EXTENDS Naturals, FiniteSets, SequencesExt

CONSTANTS
  MaxConn,   \* bound: connections
  Slots,     \* entries of client[] (FD_SETSIZE, OPEN_MAX)
  MaxLines,  \* bound: lines and parts of lines sent, over all connections
  Halves,    \* those, of what a client sends, after which no line ends
  MaxDgrams, \* bound: datagrams sent
  OutCap     \* echoes a connection holds that its client has not read

ASSUME SelectAssumption ==
  /\ MaxConn \in Nat /\ Slots \in Nat
  /\ MaxLines \in Nat /\ MaxDgrams \in Nat /\ OutCap \in Nat /\ Halves \subseteq Nat

Conns == 1..MaxConn
Listen == 0          \* listenfd, as an element of rset
Udp == MaxConn + 1   \* udpfd

VARIABLES
  prog,
  nconn,         \* connections made
  queue,         \* those that wait to be accepted
  peer,          \* of each: "none", "up", "fin", "reset", or "gone" when closed
  lines, rd,     \* sent by the client, read by the server
  out, taken,    \* written by the server, read by the client
  ndgrams,       \* datagrams sent
  dgram,         \* at the UDP socket: "none", "good" or "bad" (its checksum)
  slot, maxi, rset, nready,
  kids,          \* connections that have a child
  pc,            \* "select", "accept", "recv", "scan", "write" or "quit"
  cur, line,     \* sockfd, and what has been read from it
  read_buf       \* of lib/readline.c

net == <<nconn, queue, peer, lines, taken, ndgrams, dgram>>
vars == <<prog, net, rd, out, slot, maxi, rset, nready, kids, pc, cur, line, read_buf>>

Init ==
  /\ prog \in {"select01", "select03", "poll01", "udp", "gnu"}
  /\ nconn = 0 /\ queue = <<>>
  /\ peer = [c \in Conns |-> "none"]
  /\ lines = [c \in Conns |-> 0] /\ rd = lines /\ taken = lines
  /\ out = [c \in Conns |-> <<>>]
  /\ ndgrams = 0 /\ dgram = "none"
  /\ slot = [k \in 1..Slots |-> 0] /\ maxi = 0
  /\ rset = {} /\ nready = 0 /\ kids = {}
  /\ pc = "select" /\ cur = 0 /\ line = <<>> /\ read_buf = <<>>

-----------------------------------------------------------------------------
(* The loop. *)

Unread(c) == lines[c] - rd[c]
Readable(c) == Unread(c) > 0 \/ peer[c] \in {"fin", "reset"}
InSlots == {slot[k] : k \in 1..Slots} \ {0}
Ready ==
  {c \in InSlots : Readable(c)}
    \cup (IF queue # <<>> THEN {Listen} ELSE {})
    \cup (IF dgram # "none" THEN {Udp} ELSE {})

Select ==
  /\ pc = "select" /\ Ready # {}
  /\ rset' = Ready /\ nready' = Cardinality(Ready)
  /\ pc' = IF Listen \in Ready THEN "accept" ELSE IF prog = "udp" THEN "recv" ELSE "scan"
  /\ UNCHANGED <<prog, net, rd, out, slot, maxi, kids, cur, line, read_buf>>

Free == {k \in 1..Slots : slot[k] = 0}
Least(S) == CHOOSE k \in S : \A j \in S : k <= j

\* Mutant: maxi is not brought up to date.
AcceptMaxi ==
  /\ pc = "accept" /\ queue # <<>> /\ queue' = Tail(queue)
  /\ IF Free = {} THEN pc' = "quit" /\ UNCHANGED <<slot, maxi, rset, nready>>
     ELSE LET c == Head(queue)
              k == Least(Free) IN
          /\ slot' = [slot EXCEPT ![k] = c]
          /\ maxi' = IF maxi = 0 THEN k ELSE maxi
          /\ rset' = rset \ {Listen} /\ nready' = nready - 1
          /\ pc' = IF nready' = 0 THEN "select" ELSE "scan"
  /\ UNCHANGED <<prog, nconn, peer, lines, taken, ndgrams, dgram, rd, out, kids, cur, line, read_buf>>

\* The first free entry, or the end of the program.  An entry of poll()'s array
\* that has not been used before holds what was on the stack: revents may say
\* that the new connection is readable.
AcceptSlot ==
  /\ pc = "accept" /\ queue # <<>> /\ queue' = Tail(queue)
  /\ IF Free = {} THEN pc' = "quit" /\ UNCHANGED <<slot, maxi, rset, nready>>
     ELSE LET c == Head(queue)
              k == Least(Free) IN
          /\ slot' = [slot EXCEPT ![k] = c]
          /\ maxi' = IF k > maxi THEN k ELSE maxi
          /\ rset' \in {rset \ {Listen}} \cup
                       (IF prog = "poll01" /\ k > maxi THEN {(rset \ {Listen}) \cup {c}} ELSE {})
          /\ nready' = nready - 1
          /\ pc' = IF nready' = 0 THEN "select" ELSE "scan"
  /\ UNCHANGED <<prog, nconn, peer, lines, taken, ndgrams, dgram, rd, out, kids, cur, line, read_buf>>

AcceptFork ==
  /\ pc = "accept" /\ queue # <<>>
  /\ queue' = Tail(queue) /\ kids' = kids \cup {Head(queue)}
  /\ pc' = IF Udp \in rset THEN "recv" ELSE "select"
  /\ UNCHANGED <<prog, nconn, peer, lines, taken, ndgrams, dgram, rd, out, slot, maxi, rset, nready, cur, line, read_buf>>

\* A datagram whose checksum is wrong is thrown away only now.
Recvfrom ==
  /\ pc = "recv" /\ dgram # "none"
  /\ dgram' = "none" /\ UNCHANGED ndgrams
  /\ pc' = IF dgram = "good" THEN "select" ELSE "recv"
  /\ UNCHANGED <<prog, nconn, queue, peer, lines, taken, rd, out, slot, maxi, rset, nready, kids, cur, line, read_buf>>

\* The next entry whose descriptor is in the set.
Turn == {k \in 1..maxi : slot[k] # 0 /\ slot[k] \in rset}
Sockfd == slot[Least(Turn)]

\* if (--nready <= 0) break;
Served ==
  /\ rset' = rset \ {Sockfd}
  /\ nready' = nready - 1
  /\ pc' = IF nready' = 0 THEN "select" ELSE "scan"

Close(c) ==
  /\ slot' = [slot EXCEPT ![Least(Turn)] = 0]
  /\ peer' = [peer EXCEPT ![c] = "gone"]

\* Mutant: tcpservselect01.c reads with Readline() as well.
ReadlineToo == prog \in {"select01", "select03"}

UsesReadline == prog = "select03"

\* read() gives what there is.
New(c, n) == [j \in 1..n |-> <<c, rd[c] + j>>]
Read ==
  LET c == Sockfd IN
  /\ pc = "scan" /\ Turn # {} /\ ~UsesReadline
  /\ \E n \in 1..Unread(c) : rd' = [rd EXCEPT ![c] = @ + n] /\ line' = New(c, n)
  /\ IF prog = "gnu" THEN Served /\ UNCHANGED cur
     ELSE pc' = "write" /\ cur' = c /\ UNCHANGED <<rset, nready>>
  /\ UNCHANGED <<prog, net, out, slot, maxi, kids, read_buf>>

\* Readline() has one buffer, whatever descriptor it is asked for: it reads, and
\* waits, until a line ends there,
LineEnds == {k \in 1..Len(read_buf) : read_buf[k][2] \notin Halves}
My_read ==
  LET c == Sockfd IN
  /\ pc = "scan" /\ Turn # {} /\ UsesReadline /\ LineEnds = {}
  /\ \E n \in 1..Unread(c) : rd' = [rd EXCEPT ![c] = @ + n] /\ read_buf' = read_buf \o New(c, n)
  /\ UNCHANGED <<prog, net, out, slot, maxi, rset, nready, kids, pc, cur, line>>

\* and gives that line, or at the end of the connection what there is of one.
Readline ==
  LET c == Sockfd IN
  /\ pc = "scan" /\ Turn # {} /\ UsesReadline /\ read_buf # <<>>
  /\ LineEnds = {} => peer[c] = "fin" /\ Unread(c) = 0
  /\ LET n == IF LineEnds = {} THEN Len(read_buf) ELSE Least(LineEnds) IN
     line' = SubSeq(read_buf, 1, n) /\ read_buf' = SubSeq(read_buf, n + 1, Len(read_buf))
  /\ pc' = "write" /\ cur' = c
  /\ UNCHANGED <<prog, net, rd, out, slot, maxi, rset, nready, kids>>

AtEnd ==
  LET c == Sockfd IN
  /\ pc = "scan" /\ Turn # {} /\ read_buf = <<>>
  /\ \/ peer[c] = "fin" /\ Unread(c) = 0
     \/ peer[c] = "reset" /\ prog = "poll01"
  /\ Close(c) /\ Served
  /\ UNCHANGED <<prog, nconn, queue, lines, taken, ndgrams, dgram, rd, out, maxi, kids, cur, line, read_buf>>

\* Only tcpservpoll01.c expects ECONNRESET.
ReadError ==
  /\ pc = "scan" /\ Turn # {} /\ (UsesReadline => LineEnds = {})
  /\ peer[Sockfd] = "reset" /\ prog # "poll01"
  /\ pc' = "quit"
  /\ UNCHANGED <<prog, net, rd, out, slot, maxi, rset, nready, kids, cur, line, read_buf>>

\* Writen() waits for room, and fails when the client has reset the connection.
Writen ==
  /\ pc = "write"
  /\ IF peer[cur] = "reset" THEN pc' = "quit" /\ UNCHANGED <<out, line, rset, nready>>
     ELSE /\ Len(out[cur]) - taken[cur] < OutCap
          /\ out' = [out EXCEPT ![cur] = Append(@, Head(line))]
          /\ line' = Tail(line)
          /\ IF Len(line) = 1 THEN Served ELSE UNCHANGED <<pc, rset, nready>>
  /\ UNCHANGED <<prog, net, rd, slot, maxi, kids, cur, read_buf>>

Loop == Select \/ AcceptSlot \/ Read \/ My_read \/ Readline \/ AtEnd \/ ReadError \/ Writen
Parent == Select \/ AcceptFork \/ Recvfrom
Server == IF prog = "udp" THEN Parent ELSE Loop

\* str_echo() of a child of udpservselect01.c; a reset ends the child only.
Child(c) ==
  /\ c \in kids
  /\ \/ /\ Unread(c) > 0 /\ peer[c] # "reset" /\ Len(out[c]) - taken[c] < OutCap
        /\ rd' = [rd EXCEPT ![c] = @ + 1]
        /\ out' = [out EXCEPT ![c] = Append(@, <<c, rd[c] + 1>>)]
        /\ UNCHANGED <<kids, peer>>
     \/ /\ peer[c] = "reset" \/ (peer[c] = "fin" /\ Unread(c) = 0)
        /\ kids' = kids \ {c} /\ peer' = [peer EXCEPT ![c] = "gone"]
        /\ UNCHANGED <<rd, out>>
  /\ UNCHANGED <<prog, nconn, queue, lines, taken, ndgrams, dgram, slot, maxi, rset, nready, pc, cur, line, read_buf>>

-----------------------------------------------------------------------------
(* The clients. *)

Others == UNCHANGED <<prog, rd, out, slot, maxi, rset, nready, kids, pc, cur, line, read_buf>>

Connect ==
  /\ nconn < MaxConn /\ nconn' = nconn + 1
  /\ queue' = Append(queue, nconn')
  /\ peer' = [peer EXCEPT ![nconn'] = "up"]
  /\ Others /\ UNCHANGED <<lines, taken, ndgrams, dgram>>

Total(f) == LET S[c \in 0..MaxConn] == IF c = 0 THEN 0 ELSE S[c-1] + f[c] IN S[MaxConn]
Send(c) ==
  /\ peer[c] = "up" /\ Total(lines) < MaxLines
  /\ lines' = [lines EXCEPT ![c] = @ + 1]
  /\ Others /\ UNCHANGED <<nconn, queue, peer, taken, ndgrams, dgram>>

Shutdown(c) ==
  /\ peer[c] = "up" /\ peer' = [peer EXCEPT ![c] = "fin"]
  /\ Others /\ UNCHANGED <<nconn, queue, lines, taken, ndgrams, dgram>>

\* A connection reset before accept() is taken from the queue by some systems,
\* left there by others.
Reset(c) ==
  /\ peer[c] \in {"up", "fin"}
  /\ \/ peer' = [peer EXCEPT ![c] = "reset"] /\ UNCHANGED queue
     \/ /\ \E k \in 1..Len(queue) : queue[k] = c /\ queue' = RemoveAt(queue, k)
        /\ peer' = [peer EXCEPT ![c] = "gone"]
  /\ Others /\ UNCHANGED <<nconn, lines, taken, ndgrams, dgram>>

TakeEcho(c) ==
  /\ taken[c] < Len(out[c]) /\ taken' = [taken EXCEPT ![c] = @ + 1]
  /\ Others /\ UNCHANGED <<nconn, queue, peer, lines, ndgrams, dgram>>

Datagram ==
  /\ prog = "udp" /\ ndgrams < MaxDgrams /\ ndgrams' = ndgrams + 1
  /\ dgram = "none" /\ dgram' \in {"good", "bad"}
  /\ Others /\ UNCHANGED <<nconn, queue, peer, lines, taken>>

Kids == \E c \in Conns : Child(c)
Client == \E c \in Conns : Send(c) \/ Shutdown(c) \/ Reset(c) \/ TakeEcho(c)
Next == Server \/ Kids \/ Connect \/ Client \/ Datagram

\* The server and its children run when they are not blocked.
Fairness == WF_vars(Server) /\ WF_vars(Kids)
Spec == Init /\ [][Next]_vars /\ Fairness

-----------------------------------------------------------------------------
(* Properties. *)

\* Every accepted connection that is not closed has one entry of client[], no
\* connection two, and the loop reaches every entry that is used.
SlotTable ==
  prog # "udp" =>
    /\ \A c \in 1..nconn :
         LET at == {k \in 1..Slots : slot[k] = c} IN
         /\ Cardinality(at) <= 1 /\ \A k \in at : k <= maxi
         /\ pc # "quit" /\ peer[c] # "gone" /\ (\A k \in 1..Len(queue) : queue[k] # c)
              => at # {}

\* A client gets its own lines back, in order, but for the one server that uses
\* Readline(): what is left in its buffer goes to the client that is next.
OwnEcho ==
  prog # "select03" =>
    \A c \in Conns : \A k \in 1..Len(out[c]) : out[c][k] = <<c, k>>

\* read() is never called for a connection that has nothing to be read, although
\* an entry of poll()'s array may say so: the loop ends before it, when nready
\* others have been served.  But Readline() calls it, which blocks the server, when
\* it has part of a line.
ReadsReady ==
  pc = "scan" /\ Turn # {} /\ ~Readable(Sockfd) => prog = "select03" /\ read_buf # <<>>

\* The state of the loop is right in all the programs.
LoopRight == SlotTable /\ OwnEcho /\ ReadsReady

\* What one client, or one datagram, can do to all the others.
Stuck ==
  \/ pc = "write" /\ Len(out[cur]) - taken[cur] = OutCap    \* it does not read
  \/ pc = "scan" /\ Turn # {} /\ read_buf # <<>> /\ LineEnds = {}
     /\ Unread(Sockfd) = 0 /\ peer[Sockfd] = "up"           \* it sends part of a line
  \/ pc = "accept" /\ queue = <<>>                          \* it resets early
  \/ pc = "recv" /\ dgram = "none"                          \* a bad checksum

\* Otherwise all connections are accepted, read, answered and closed as long as
\* the server runs, but for lines that Readline() has kept or misdirected.
AllServed ==
  <>[](\/ pc = "quit" \/ Stuck
       \/ /\ queue = <<>>
          /\ \A c \in 1..nconn :
               \/ peer[c] = "gone"
               \/ /\ peer[c] = "up" /\ Unread(c) = 0
                  /\ prog \in {"gnu", "select03"} \/ Len(out[c]) = rd[c]
               \/ c \in kids /\ Len(out[c]) - taken[c] = OutCap)

===============================================================================
