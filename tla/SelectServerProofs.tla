--------------------------- MODULE SelectServerProofs ---------------------------
(***************************************************************************)
(* Proofs about the five servers around select() and poll(), for any       *)
(* number of connections, of entries in client[] and of lines.  What one   *)
(* call of select() has reported is served in a round, while connections   *)
(* come and go: the invariant says what the round still has before it.     *)
(* And about the echo and the web clients and getaddrinfo(), whose         *)
(* invariants say where each line is, what each connection is doing, and   *)
(* what the list of addresses holds while it is built.                     *)
(***************************************************************************)
EXTENDS MCStreams, FiniteSetTheorems, SequenceTheorems, WellFoundedInduction, TLAPS

USE SelectAssumption

\* A sequence without its i-th element: how a connection that is reset early
\* leaves the queue.
LEMMA RemoveAtProperties ==
  ASSUME NEW S, NEW s \in Seq(S), NEW i \in 1..Len(s)
  PROVE  /\ RemoveAt(s, i) \in Seq(S)
         /\ Len(RemoveAt(s, i)) = Len(s) - 1
         /\ \A j \in 1..Len(s) - 1 : RemoveAt(s, i)[j] = IF j < i THEN s[j] ELSE s[j + 1]
<1> DEFINE u == SubSeq(s, 1, i - 1)
           v == SubSeq(s, i + 1, Len(s))
<1>1. u \in Seq(S) /\ Len(u) = i - 1 /\ \A j \in 1..i-1 : u[j] = s[j]
  OBVIOUS
<1>2. v \in Seq(S) /\ Len(v) = Len(s) - i /\ \A j \in 1..Len(s)-i : v[j] = s[i + j]
  OBVIOUS
<1>3. RemoveAt(s, i) = u \o v
  BY DEF RemoveAt
<1> HIDE DEF u, v
<1>4. Len(s) \in Nat /\ Len(u) + Len(v) = Len(s) - 1
  BY <1>1, <1>2
<1>5. /\ u \o v \in Seq(S)
      /\ Len(u \o v) = Len(u) + Len(v)
      /\ \A j \in 1..Len(u) + Len(v) :
           (u \o v)[j] = IF j <= Len(u) THEN u[j] ELSE v[j - Len(u)]
  BY <1>1, <1>2, ConcatProperties
<1>6. \A j \in 1..Len(s) - 1 : (u \o v)[j] = IF j < i THEN s[j] ELSE s[j + 1]
  <2> TAKE j \in 1..Len(s) - 1
  <2>1. (u \o v)[j] = IF j <= Len(u) THEN u[j] ELSE v[j - Len(u)]
    BY <1>4, <1>5
  <2>2. CASE j < i
    BY <1>1, <1>4, <2>1, <2>2
  <2>3. CASE j >= i
    <3>1. j - (i - 1) \in 1..Len(s) - i /\ i + (j - (i - 1)) = j + 1
      BY <1>4, <2>3
    <3>2. v[j - (i - 1)] = s[j + 1]
      BY <1>2, <3>1
    <3>3. QED BY <1>1, <1>4, <2>1, <2>3, <3>2
  <2>4. QED BY <1>4, <2>2, <2>3
<1>7. QED BY <1>3, <1>4, <1>5, <1>6

\* A line is the client that sent it and its number there.
Lines == Conns \X Nat

\* Every variable has its type.
TypeOK ==
  /\ prog \in {"select01", "select03", "poll01", "udp", "gnu"}
  /\ nconn \in 0..MaxConn
  /\ queue \in Seq(Conns)
  /\ peer \in [Conns -> {"none", "up", "fin", "reset", "gone"}]
  /\ lines \in [Conns -> Nat] /\ rd \in [Conns -> Nat] /\ taken \in [Conns -> Nat]
  /\ out \in [Conns -> Seq(Lines)]
  /\ ndgrams \in Nat /\ dgram \in {"none", "good", "bad"}
  /\ slot \in [1..Slots -> 0..MaxConn] /\ maxi \in 0..Slots
  /\ rset \in SUBSET (0..MaxConn+1) /\ nready \in Int
  /\ kids \in SUBSET Conns
  /\ pc \in {"select", "accept", "recv", "scan", "write", "quit"}
  /\ cur \in 0..MaxConn
  /\ line \in Seq(Lines) /\ read_buf \in Seq(Lines)

\* What only one of the programs has: children and datagrams the one with both
\* sockets, a buffer of lines the one that calls Readline().
ByProgram ==
  /\ prog # "udp" => kids = {} /\ dgram = "none"
  /\ prog = "udp" => pc \notin {"scan", "write", "quit"}
  /\ prog = "gnu" => pc # "write"
  /\ prog # "select03" => read_buf = <<>>
  /\ \A c \in Conns : rd[c] <= lines[c]

\* Each connection that is accepted and not closed has an entry of client[],
\* each in the queue has none, and none has two; the entries in use are not
\* above maxi.
Table ==
  prog # "udp" =>
    /\ \A c \in Conns : c > nconn => peer[c] = "none"
    /\ \A k \in 1..Slots : slot[k] # 0 =>
         k <= maxi /\ slot[k] <= nconn /\ peer[slot[k]] \in {"up", "fin", "reset"}
    /\ \A j, k \in 1..Slots : j # k /\ slot[j] # 0 => slot[j] # slot[k]
    /\ \A i \in 1..Len(queue) :
         /\ queue[i] <= nconn /\ peer[queue[i]] \in {"up", "fin", "reset"}
         /\ \A k \in 1..Slots : slot[k] # queue[i]
    /\ \A i, j \in 1..Len(queue) : i # j => queue[i] # queue[j]
    /\ \A c \in 1..nconn : pc # "quit" /\ peer[c] # "gone" =>
         (\E i \in 1..Len(queue) : queue[i] = c) \/ (\E k \in 1..Slots : slot[k] = c)

\* What is written are the lines that were read, each once and in order, the
\* line in hand last: what makes OwnEcho inductive.
Echo ==
  /\ OwnEcho
  /\ prog \in {"select01", "poll01", "udp"} /\ pc # "quit" =>
       \A c \in Conns : Len(out[c]) = rd[c] \/ (pc = "write" /\ c = cur)
  /\ pc = "write" => cur \in Conns /\ Len(line) > 0
  /\ prog \in {"select01", "poll01"} /\ pc = "write" =>
       /\ rd[cur] = Len(out[cur]) + Len(line)
       /\ \A j \in 1..Len(line) : line[j] = <<cur, Len(out[cur]) + j>>

\* Q is what is left of the round: as many descriptors as nready counts, each
\* with something to read (or just read, while it is written back, or by
\* Readline(), while it waits for the end of the line). The
\* entries after those in Q may be in rset without having been reported (an
\* entry of poll()'s array that was not used before), but the loop ends before
\* it comes to them.
InRound(Q) ==
  /\ nready = Cardinality(Q) /\ nready > 0
  /\ \A g \in Q : /\ g \in InSlots
                  /\ Readable(g) \/ (pc = "write" /\ g = cur) \/ (read_buf # <<>> /\ g = Sockfd)
  /\ \A j, k \in 1..Slots : slot[j] \in Q /\ slot[k] \in rset \ Q /\ slot[k] # 0 => j < k

\* What was reported is still so when the loop comes to it, though select()
\* was called before: only the server takes data out, and a client's end or
\* reset can only add to what there is to read.
Round ==
  prog # "udp" =>
    /\ pc = "accept" =>
         /\ Listen \in rset /\ nready = Cardinality(rset)
         /\ \A c \in rset \ {Listen} : c \in InSlots /\ Readable(c)
    /\ pc \in {"scan", "write"} => \E Q \in SUBSET rset : InRound(Q)
    /\ pc = "write" => Turn # {} /\ cur = Sockfd

\* The inductive invariant.
IInv == TypeOK /\ ByProgram /\ Table /\ Echo /\ Round

-----------------------------------------------------------------------------
\* The first entry of a set of entries: the one a loop over client[] comes to.
\* (By well-founded induction on the numbers.)
LEMMA LeastIn ==
  ASSUME NEW S \in SUBSET Nat, S # {}
  PROVE  Least(S) \in S /\ \A j \in S : Least(S) <= j
<1>1. \E w \in S : \A v \in S : w <= v
  <2>1. PICK w \in S : \A v \in S : <<v, w>> \notin OpToRel(<, Nat)
    BY NatLessThanWellFounded, WFMin
  <2>2. \A v \in S : ~(v < w)
    BY <2>1 DEF OpToRel
  <2>3. QED BY <2>2
<1>2. QED BY <1>1 DEF Least

\* Sets of descriptors are finite, and counted by a number.
LEMMA SetsOfDescriptors ==
  \A R \in SUBSET (0..MaxConn+1) : \A Q \in SUBSET R :
    IsFiniteSet(Q) /\ Cardinality(Q) \in Nat /\ (Q # {} => Cardinality(Q) > 0)
<1>1. IsFiniteSet(0..MaxConn+1)
  BY FS_Interval
<1>2. ASSUME NEW R \in SUBSET (0..MaxConn+1), NEW Q \in SUBSET R
      PROVE  IsFiniteSet(Q) /\ Cardinality(Q) \in Nat /\ (Q # {} => Cardinality(Q) > 0)
  <2>1. Q \subseteq 0..MaxConn+1
    OBVIOUS
  <2>2. IsFiniteSet(Q)
    BY <1>1, <2>1, FS_Subset
  <2>3. Cardinality(Q) \in Nat
    BY <2>2, FS_CardinalityType
  <2>4. Q # {} => Cardinality(Q) # 0
    BY <2>2, FS_EmptySet
  <2>5. QED BY <2>2, <2>3, <2>4
<1>3. QED BY <1>2

\* The descriptor whose turn it is: an entry in use, not above maxi.
LEMMA SockfdIs ==
  ASSUME TypeOK, Turn # {}
  PROVE  /\ Least(Turn) \in 1..Slots /\ Least(Turn) <= maxi
         /\ slot[Least(Turn)] = Sockfd /\ Sockfd \in Conns /\ Sockfd # 0 /\ Sockfd \in rset
         /\ \A k \in Turn : Least(Turn) <= k
<1>1. Turn \in SUBSET Nat
  BY DEF Turn
<1>2. Least(Turn) \in Turn /\ \A k \in Turn : Least(Turn) <= k
  BY <1>1, LeastIn
<1> DEFINE l == Least(Turn)
<1> HIDE DEF l
<1>3. l \in 1..maxi /\ slot[l] # 0 /\ slot[l] \in rset
  BY <1>2 DEF Turn, l
<1>4. l \in 1..Slots
  BY <1>3 DEF TypeOK
<1>5. slot[l] \in 0..MaxConn
  BY <1>4 DEF TypeOK
<1>6. slot[l] \in Conns
  BY <1>3, <1>5 DEF Conns
<1>7. QED BY <1>2, <1>3, <1>4, <1>6 DEF Sockfd, l

\* The loop always comes to one that select() has reported.
LEMMA SockfdInRound ==
  ASSUME TypeOK, Table, prog # "udp", NEW Q \in SUBSET rset, InRound(Q)
  PROVE  Turn # {} /\ Sockfd \in Q
<1>2. IsFiniteSet(Q)
  BY SetsOfDescriptors DEF TypeOK
<1>3. Q # {}
  BY <1>2, FS_EmptySet DEF InRound
<1>4. PICK g \in Q : TRUE
  BY <1>3
<1>5. PICK k \in 1..Slots : slot[k] = g /\ slot[k] # 0
  BY <1>4 DEF InRound, InSlots
<1>6. k \in Turn
  <2>1. k <= maxi /\ maxi \in Nat
    BY <1>5 DEF Table, TypeOK
  <2>2. QED BY <1>4, <1>5, <2>1 DEF Turn
<1>7. Turn # {}
  BY <1>6
<1> DEFINE l == Least(Turn)
<1> HIDE DEF l
<1>8. l \in 1..Slots /\ slot[l] = Sockfd /\ Sockfd # 0 /\ Sockfd \in rset /\ l <= k
  BY <1>6, <1>7, SockfdIs DEF l
<1>9. CASE Sockfd \notin Q
  <2>1. k < l
    BY <1>4, <1>5, <1>8, <1>9 DEF InRound
  <2>2. QED BY <1>8, <2>1
<1>10. QED BY <1>7, <1>9

\* The round is not disturbed by a step of the clients after which what was
\* readable is so.
LEMMA RoundStays ==
  ASSUME TypeOK, Round, UNCHANGED <<prog, slot, maxi, rset, nready, pc, cur, read_buf>>,
         prog # "udp" => \A c \in InSlots : Readable(c) => Readable(c)'
  PROVE  Round'
<1>1. InSlots' = InSlots /\ Turn' = Turn
  BY DEF InSlots, Turn
<1>2. Sockfd' = Sockfd
  BY <1>1 DEF Sockfd
<1>3. ASSUME prog # "udp", NEW Q \in SUBSET rset, InRound(Q) PROVE InRound(Q)'
  BY <1>1, <1>2, <1>3 DEF InRound
<1>4. QED BY <1>1, <1>2, <1>3 DEF Round

\* The round goes on when the descriptor whose turn it is has been served,
\* closed or not: nready and what is left go down together.
LEMMA RoundServed ==
  ASSUME TypeOK, Table, Round, prog # "udp", pc \in {"scan", "write"}, Served,
         \/ slot' = slot
         \/ slot' = [slot EXCEPT ![Least(Turn)] = 0],
         UNCHANGED <<prog, maxi>>,
         \A c \in Conns \ {Sockfd} : Readable(c) => Readable(c)'
  PROVE  Round'
<1>1. PICK Q \in SUBSET rset : InRound(Q)
  BY DEF Round
<1>2. Turn # {} /\ Sockfd \in Q
  BY <1>1, SockfdInRound
<1>3. Sockfd \in Conns /\ Least(Turn) \in 1..Slots /\ slot[Least(Turn)] = Sockfd
  BY <1>2, SockfdIs
<1>4. PICK b \in Conns : b = Sockfd
  BY <1>3
<1>5. PICK l \in 1..Slots : l = Least(Turn)
  BY <1>3
<1>6. PICK H \in SUBSET rset : H = Q \ {b}
  OBVIOUS
<1>7. /\ slot[l] = b /\ b \in Q
      /\ rset' = rset \ {b} /\ nready' = nready - 1
      /\ pc' = IF nready' = 0 THEN "select" ELSE "scan"
  BY <1>2, <1>3, <1>4, <1>5 DEF Served
<1>8. pc = "write" => cur = b
  BY <1>4 DEF Round
<1>9. IsFiniteSet(Q)
  BY SetsOfDescriptors DEF TypeOK
<1>10. Cardinality(H) = Cardinality(Q) - 1 /\ IsFiniteSet(H)
  BY <1>6, <1>7, <1>9, FS_RemoveElement
<1>11. Cardinality(H) \in Nat
  BY <1>10, FS_CardinalityType
<1>12. CASE nready' = 0
  BY <1>7, <1>12 DEF Round
<1>13. CASE nready' # 0
  <2>1. \A k \in 1..Slots : /\ k # l => slot'[k] = slot[k]
                            /\ slot'[k] # slot[k] => slot'[k] = 0
    BY <1>5 DEF TypeOK
  <2>2. nready = Cardinality(Q) /\ Cardinality(Q) \in Nat
    BY <1>1, <1>9, FS_CardinalityType DEF InRound
  <2>3. nready' = Cardinality(H) /\ nready' > 0
    BY <1>7, <1>10, <1>11, <1>13, <2>2
  <2>4. H \in SUBSET rset'
    BY <1>6, <1>7
  <2>5. ASSUME NEW g \in H PROVE g \in InSlots' /\ Readable(g)'
    <3>1. g \in InSlots /\ Readable(g) /\ g # b
      BY <1>1, <1>4, <1>6, <1>8, <2>5 DEF InRound
    <3>2. PICK k \in 1..Slots : slot[k] = g /\ g # 0
      BY <3>1 DEF InSlots
    <3>3. k # l
      BY <1>7, <3>1, <3>2
    <3>4. g \in Conns
      BY <3>2 DEF TypeOK, Conns
    <3>5. g \in InSlots'
      BY <2>1, <3>2, <3>3 DEF InSlots
    <3>6. Readable(g)'
      BY <1>4, <3>1, <3>4
    <3>7. QED BY <3>5, <3>6
  <2>6. ASSUME NEW j \in 1..Slots, NEW k \in 1..Slots, slot'[j] \in H,
               slot'[k] \in rset' \ H, slot'[k] # 0
        PROVE  j < k
    <3>1. slot'[j] # 0
      BY <1>1, <1>6, <2>6 DEF InRound, InSlots
    <3>2. slot'[j] = slot[j] /\ slot'[k] = slot[k]
      BY <2>1, <2>6, <3>1
    <3>3. slot[j] \in Q /\ slot[k] \in rset \ Q /\ slot[k] # 0
      BY <1>6, <1>7, <2>6, <3>2
    <3>4. QED BY <1>1, <3>3 DEF InRound
  <2>7. InRound(H)'
    BY <2>3, <2>5, <2>6 DEF InRound
  <2>8. pc' = "scan"
    BY <1>7, <1>13
  <2>9. QED BY <2>4, <2>7, <2>8 DEF Round
<1>14. QED BY <1>12, <1>13

-----------------------------------------------------------------------------
\* select() begins a round and keeps the invariant.
LEMMA SelectStep ==
  ASSUME IInv, Select
  PROVE  IInv'
<1>1. Ready \subseteq 0..MaxConn+1
  <2>1. InSlots \subseteq 0..MaxConn
    BY DEF InSlots, IInv, TypeOK
  <2>2. 0..MaxConn \subseteq 0..MaxConn+1 /\ Listen \in 0..MaxConn+1 /\ Udp \in 0..MaxConn+1
    BY DEF Listen, Udp
  <2>3. \A c \in Ready : c \in InSlots \/ c = Listen \/ c = Udp
    BY Zenon DEF Ready
  <2>4. QED BY <2>1, <2>2, <2>3
<1>2. Cardinality(Ready) \in Nat /\ Cardinality(Ready) > 0
  BY <1>1, SetsOfDescriptors DEF Select
<1>3. pc' \in {"accept", "recv", "scan"} /\ (pc' = "scan" => prog # "udp" /\ Listen \notin Ready)
      /\ (pc' = "accept" => Listen \in Ready) /\ rset' = Ready /\ nready' = Cardinality(Ready)
      /\ pc = "select" /\ (pc' = "recv" => prog = "udp")
  BY DEF Select
<1> DEFINE R == Ready
           n == Cardinality(R)
<1>4. rset' = R /\ nready' = n /\ R \subseteq 0..MaxConn+1 /\ n \in Nat /\ n > 0 /\ n = Cardinality(R)
  BY <1>1, <1>2, <1>3
<1>5. prog # "udp" => \A c \in R : c = Listen \/ (c \in InSlots /\ Readable(c))
  BY DEF IInv, ByProgram, Ready
<1>6. UNCHANGED <<prog, net, rd, out, slot, maxi, kids, cur, line, read_buf>>
  BY DEF Select
<1>7. InSlots' = InSlots /\ \A c \in 0..MaxConn+1 : Readable(c)' = Readable(c)
  BY <1>6 DEF net, InSlots, Readable, Unread
<1>r. \A c \in R : Readable(c)' = Readable(c)
  BY <1>4, <1>7
<1> HIDE DEF R, n
<1>8. TypeOK'
  BY <1>3, <1>4, <1>6 DEF IInv, TypeOK, net
<1>9. ByProgram'
  BY <1>3, <1>6 DEF IInv, ByProgram, net
<1>10. Table'
  BY <1>3, <1>6 DEF IInv, Table, net
<1>11. Echo'
  BY <1>3, <1>6 DEF IInv, Echo, OwnEcho, net
<1>12. Round'
  <2>1. ASSUME prog # "udp", pc' = "scan" PROVE InRound(rset)'
    <3>1. \A g \in R : g \in InSlots' /\ Readable(g)'
      BY <1>3, <1>5, <1>7, <1>r, <2>1 DEF R
    <3>2. QED BY <1>4, <3>1 DEF InRound
  <2>2. ASSUME prog # "udp", pc' = "accept"
        PROVE  /\ Listen \in R
               /\ \A c \in R \ {Listen} : c \in InSlots' /\ Readable(c)'
    BY <1>3, <1>5, <1>7, <1>r, <2>2 DEF R
  <2>3. QED BY <1>3, <1>4, <1>6, <2>1, <2>2 DEF Round
<1>13. QED BY <1>8, <1>9, <1>10, <1>11, <1>12 DEF IInv

\* The queue of accept(): its first connection and the rest.
LEMMA QueueTail ==
  ASSUME TypeOK, queue # <<>>
  PROVE  /\ Head(queue) \in Conns /\ Head(queue) = queue[1] /\ 1 \in 1..Len(queue)
         /\ Tail(queue) \in Seq(Conns) /\ Len(Tail(queue)) = Len(queue) - 1
         /\ \A i \in 1..Len(Tail(queue)) : Tail(queue)[i] = queue[i + 1] /\ i + 1 \in 1..Len(queue)
BY DEF TypeOK

\* accept() and fork() of the server with both sockets keep the invariant.
LEMMA AcceptForkStep ==
  ASSUME IInv, AcceptFork, prog = "udp"
  PROVE  IInv'
<1>1. Head(queue) \in Conns /\ Tail(queue) \in Seq(Conns)
  BY QueueTail DEF IInv, AcceptFork
<1>2. TypeOK'
  BY <1>1 DEF IInv, TypeOK, AcceptFork
<1>3. ByProgram'
  BY DEF IInv, ByProgram, AcceptFork
<1>4. Table' /\ Round'
  BY DEF Table, Round, AcceptFork
<1>5. Echo'
  BY DEF IInv, Echo, OwnEcho, AcceptFork
<1>6. QED BY <1>2, <1>3, <1>4, <1>5 DEF IInv

\* recvfrom() keeps the invariant.
LEMMA RecvfromStep ==
  ASSUME IInv, Recvfrom, prog = "udp"
  PROVE  IInv'
<1>2. TypeOK'
  BY DEF IInv, TypeOK, Recvfrom
<1>3. ByProgram'
  BY DEF IInv, ByProgram, Recvfrom
<1>4. Table' /\ Round'
  BY DEF Table, Round, Recvfrom
<1>5. Echo'
  BY DEF IInv, Echo, OwnEcho, Recvfrom
<1>6. QED BY <1>2, <1>3, <1>4, <1>5 DEF IInv

\* A read() that fails ends the server, which keeps the invariant.
LEMMA ReadErrorStep ==
  ASSUME IInv, ReadError, prog # "udp"
  PROVE  IInv'
<1>2. TypeOK'
  BY DEF IInv, TypeOK, ReadError, net
<1>3. ByProgram'
  BY DEF IInv, ByProgram, ReadError, net
<1>4. Table'
  BY DEF IInv, Table, ReadError, net
<1>5. Round'
  BY DEF Round, ReadError
<1>6. Echo'
  BY DEF IInv, Echo, OwnEcho, ReadError, net
<1>7. QED BY <1>2, <1>3, <1>4, <1>5, <1>6 DEF IInv

\* accept() keeps the invariant: the new connection gets a free entry, and if
\* what that entry of poll()'s array held puts it into rset without its having
\* been reported, the entry is above maxi, behind all those in use.
LEMMA AcceptSlotStep ==
  ASSUME IInv, AcceptSlot, prog # "udp"
  PROVE  IInv'
<1>1. /\ pc = "accept" /\ queue # <<>> /\ queue' = Tail(queue)
      /\ UNCHANGED <<prog, nconn, peer, lines, taken, ndgrams, dgram, rd, out, kids, cur, line, read_buf>>
  BY DEF AcceptSlot
<1>2. PICK c \in Conns : c = Head(queue) /\ c = queue[1] /\ 1 \in 1..Len(queue)
  BY SMTT(30), <1>1, QueueTail DEF IInv
<1>3. PICK q \in Seq(Conns) :
        /\ q = queue' /\ Len(q) = Len(queue) - 1
        /\ \A i \in 1..Len(q) : q[i] = queue[i + 1] /\ i + 1 \in 1..Len(queue)
  BY <1>1, QueueTail DEF IInv
<1>4. /\ c <= nconn /\ peer[c] \in {"up", "fin", "reset"} /\ c # 0 /\ c \in Nat
      /\ \A k \in 1..Slots : slot[k] # c
  BY <1>2 DEF IInv, Table, Conns
<1>5. \A i \in 1..Len(q) : /\ q[i] <= nconn /\ peer[q[i]] \in {"up", "fin", "reset"}
                            /\ \A k \in 1..Slots : slot[k] # q[i]
  BY <1>3 DEF IInv, Table
<1>6. \A i, j \in 1..Len(q) : i # j => q[i] # q[j]
  <2> TAKE i, j \in 1..Len(q)
  <2>1. i # j => i + 1 # j + 1
    OBVIOUS
  <2>2. q[i] = queue[i+1] /\ q[j] = queue[j+1] /\ i+1 \in 1..Len(queue) /\ j+1 \in 1..Len(queue)
    BY <1>3
  <2>3. QED BY <2>1, <2>2 DEF IInv, Table
<1>7. \A i \in 1..Len(q) : q[i] # c
  <2> TAKE i \in 1..Len(q)
  <2>1. q[i] = queue[i+1] /\ i+1 \in 1..Len(queue) /\ i + 1 # 1
    BY <1>3
  <2>2. QED BY <1>2, <2>1 DEF IInv, Table
<1>8. \A i \in 1..Len(queue) : queue[i] = c \/ \E j \in 1..Len(q) : q[j] = queue[i]
  <2> TAKE i \in 1..Len(queue)
  <2>1. CASE i = 1
    BY <1>2, <2>1
  <2>2. CASE i # 1
    <3>1. i - 1 \in 1..Len(q) /\ (i - 1) + 1 = i
      BY <1>2, <1>3, <2>2
    <3>2. q[i - 1] = queue[i]
      BY <1>3, <3>1
    <3>3. QED BY <3>1, <3>2
  <2>3. QED BY <2>1, <2>2
<1>9. ByProgram'
  <2>1. pc' \in {"quit", "select", "scan"}
    BY DEF AcceptSlot
  <2>2. QED BY <1>1, <2>1 DEF IInv, ByProgram
<1>10. Echo'
  <2>1. pc' \in {"quit", "select", "scan"}
    BY DEF AcceptSlot
  <2>2. QED BY <1>1, <2>1 DEF IInv, Echo, OwnEcho
<1>11. CASE Free = {}
  <2>1. pc' = "quit" /\ UNCHANGED <<slot, maxi, rset, nready>>
    BY <1>11 DEF AcceptSlot
  <2>2. TypeOK'
    BY <1>1, <1>3, <2>1 DEF IInv, TypeOK
  <2>3. Table'
    BY <1>1, <1>3, <1>5, <1>6, <2>1 DEF IInv, Table
  <2>4. Round'
    BY <2>1 DEF Round
  <2>5. QED BY <1>9, <1>10, <2>2, <2>3, <2>4 DEF IInv
<1>12. CASE Free # {}
  <2>1. Free \in SUBSET Nat
    BY DEF Free
  <2>2. Least(Free) \in Free
    BY <1>12, <2>1, LeastIn
  <2>3. PICK k \in 1..Slots : k = Least(Free) /\ slot[k] = 0
    BY <2>2 DEF Free
  <2>4. /\ slot' = [slot EXCEPT ![k] = c]
        /\ maxi' = IF k > maxi THEN k ELSE maxi
        /\ rset' = rset \ {Listen} \/ (k > maxi /\ rset' = (rset \ {Listen}) \cup {c})
        /\ nready' = nready - 1
        /\ pc' = IF nready' = 0 THEN "select" ELSE "scan"
    <3>1. /\ slot' = [slot EXCEPT ![k] = c]
          /\ maxi' = IF k > maxi THEN k ELSE maxi
          /\ rset' \in {rset \ {Listen}} \cup
                       (IF prog = "poll01" /\ k > maxi THEN {(rset \ {Listen}) \cup {c}} ELSE {})
          /\ nready' = nready - 1
          /\ pc' = IF nready' = 0 THEN "select" ELSE "scan"
      BY <1>2, <1>12, <2>3 DEF AcceptSlot
    <3>2. QED BY <3>1
  <2>5. /\ maxi \in 0..Slots /\ maxi' \in 0..Slots /\ k <= maxi' /\ maxi <= maxi'
    BY <2>4 DEF IInv, TypeOK
  <2>6. slot' \in [1..Slots -> 0..MaxConn] /\ slot'[k] = c
        /\ \A j \in 1..Slots : j # k => slot'[j] = slot[j]
    BY <2>4 DEF IInv, TypeOK, Conns
  <2>7. TypeOK'
    <3>1. rset' \in SUBSET (0..MaxConn+1)
      <4>1. rset \in SUBSET (0..MaxConn+1) /\ c \in 0..MaxConn+1
        BY DEF IInv, TypeOK, Conns
      <4>2. rset' \subseteq rset \cup {c}
        BY <2>4
      <4>3. QED BY <4>1, <4>2
    <3>2. queue' \in Seq(Conns)
      BY <1>3
    <3>3. pc' \in {"select", "scan"} /\ nready' \in Int
      BY <2>4 DEF IInv, TypeOK
    <3>4. QED BY <1>1, <2>5, <2>6, <3>1, <3>2, <3>3 DEF IInv, TypeOK
  <2>8. Table'
    <3>1. \A i \in Conns : i > nconn' => peer'[i] = "none"
      BY <1>1 DEF IInv, Table
    <3>2. \A j \in 1..Slots : slot'[j] # 0 =>
            j <= maxi' /\ slot'[j] <= nconn' /\ peer'[slot'[j]] \in {"up", "fin", "reset"}
      <4> TAKE j \in 1..Slots
      <4>1. CASE j = k
        BY <1>1, <1>4, <2>5, <2>6, <4>1
      <4>2. CASE j # k
        <5>1. slot'[j] = slot[j] /\ (slot[j] # 0 => j <= maxi)
          BY <2>6, <4>2 DEF IInv, Table
        <5>2. slot[j] # 0 => slot[j] <= nconn /\ peer[slot[j]] \in {"up", "fin", "reset"}
          BY DEF IInv, Table
        <5>3. QED BY <1>1, <2>5, <5>1, <5>2
      <4>3. QED BY <4>1, <4>2
    <3>3. \A i, j \in 1..Slots : i # j /\ slot'[i] # 0 => slot'[i] # slot'[j]
      BY SMTT(30), <1>4, <2>6 DEF IInv, Table
    <3>4. \A i \in 1..Len(q) : /\ q[i] <= nconn' /\ peer'[q[i]] \in {"up", "fin", "reset"}
                                /\ \A j \in 1..Slots : slot'[j] # q[i]
      BY <1>1, <1>5, <1>7, <2>6
    <3>5. \A b \in 1..nconn' : pc' # "quit" /\ peer'[b] # "gone" =>
            (\E i \in 1..Len(q) : q[i] = b) \/ (\E j \in 1..Slots : slot'[j] = b)
      <4> SUFFICES ASSUME NEW b \in 1..nconn, peer[b] # "gone"
                   PROVE  (\E i \in 1..Len(q) : q[i] = b) \/ (\E j \in 1..Slots : slot'[j] = b)
        BY <1>1
      <4>1. CASE \E i \in 1..Len(queue) : queue[i] = b
        BY <1>8, <2>6, <4>1
      <4>2. CASE \E j \in 1..Slots : slot[j] = b
        BY <2>3, <2>6, <4>2
      <4>3. QED BY <1>1, <4>1, <4>2 DEF IInv, Table
    <3>6. QED BY <1>1, <1>3, <1>6, <3>1, <3>2, <3>3, <3>4, <3>5 DEF Table
  <2>9. Round'
    <3>1. /\ Listen \in rset /\ nready = Cardinality(rset)
          /\ \A g \in rset \ {Listen} : g \in InSlots /\ Readable(g)
      BY <1>1 DEF IInv, Round
    <3>2. PICK Q \in SUBSET rset : Q = rset \ {Listen}
      OBVIOUS
    <3>3. IsFiniteSet(rset) /\ Cardinality(Q) \in Nat
      BY SetsOfDescriptors DEF IInv, TypeOK
    <3>4. Cardinality(Q) = nready'
      BY <2>4, <3>1, <3>2, <3>3, FS_RemoveElement
    <3>5. CASE nready' = 0
      BY <2>4, <3>5 DEF Round
    <3>6. CASE nready' # 0
      <4>1. \A g \in Q : g \in InSlots' /\ Readable(g)'
        <5> SUFFICES ASSUME NEW g \in Q PROVE g \in InSlots' /\ Readable(g)'
          OBVIOUS
        <5>1. g \in InSlots /\ Readable(g)
          BY <3>1, <3>2
        <5>2. PICK j \in 1..Slots : slot[j] = g /\ g # 0
          BY <5>1 DEF InSlots
        <5>3. g \in InSlots'
          BY <2>3, <2>6, <5>2 DEF InSlots
        <5>4. QED BY <1>1, <5>1, <5>3 DEF Readable, Unread
      <4>2. ASSUME NEW i \in 1..Slots, NEW j \in 1..Slots, slot'[i] \in Q,
                   slot'[j] \in rset' \ Q, slot'[j] # 0
            PROVE  i < j
        <5>1. rset' \ Q \in SUBSET {c} /\ (slot'[j] \in rset' \ Q => k > maxi)
          BY <2>4, <3>2
        <5>2. slot'[j] = c /\ k > maxi /\ slot'[i] # c
          BY <4>2, <5>1
        <5>3. j = k /\ i # k
          BY <1>4, <2>6, <5>2
        <5>4. slot[i] # 0 
          BY <2>6, <3>1, <3>2, <4>2, <5>3 DEF InSlots
        <5>5. i <= maxi
          BY <5>4 DEF IInv, Table
        <5>6. QED BY <2>5, <5>2, <5>3, <5>5
      <4>3. InRound(Q)'
        BY <3>3, <3>4, <3>6, <4>1, <4>2 DEF InRound
      <4>4. pc' = "scan" /\ Q \in SUBSET rset'
        BY <2>4, <3>2, <3>6
      <4>5. QED BY <4>3, <4>4 DEF Round
    <3>7. QED BY <3>5, <3>6
  <2>10. QED BY <1>9, <1>10, <2>7, <2>8, <2>9 DEF IInv
<1>13. QED BY <1>11, <1>12

\* The first element of a sequence and the rest, by index.
LEMMA SeqTail ==
  ASSUME NEW S, NEW s \in Seq(S), s # <<>>
  PROVE  /\ Head(s) \in S /\ Head(s) = s[1] /\ Len(s) > 0
         /\ Tail(s) \in Seq(S) /\ Len(Tail(s)) = Len(s) - 1
         /\ \A i \in 1..Len(s) - 1 : Tail(s)[i] = s[i + 1]
OBVIOUS

\* The sequence of one element.
LEMMA SeqOfOne ==
  ASSUME NEW S, NEW e \in S
  PROVE  <<e>> \in Seq(S) /\ Len(<<e>>) = 1 /\ <<e>>[1] = e
OBVIOUS

\* What is new for a connection: its next lines.
LEMMA NewLines ==
  ASSUME IInv, NEW c \in Conns, NEW n \in 1..Unread(c), rd' = [rd EXCEPT ![c] = @ + n]
  PROVE  /\ rd' \in [Conns -> Nat] /\ rd'[c] = rd[c] + n /\ rd'[c] >= rd[c] /\ rd'[c] <= lines[c]
         /\ \A d \in Conns : d # c => rd'[d] = rd[d]
         /\ New(c, n) \in Seq(Lines) /\ Len(New(c, n)) = n /\ n > 0
         /\ \A j \in 1..n : New(c, n)[j] = <<c, rd[c] + j>>
<1>1. /\ rd \in [Conns -> Nat] /\ rd[c] \in Nat /\ lines[c] \in Nat /\ rd[c] <= lines[c]
  BY DEF IInv, TypeOK, ByProgram
<1>2. n \in Nat /\ n > 0 /\ rd[c] + n <= lines[c]
  BY <1>1 DEF Unread
<1>3. /\ rd' \in [Conns -> Nat] /\ rd'[c] = rd[c] + n
      /\ \A d \in Conns : d # c => rd'[d] = rd[d]
  BY <1>1, <1>2
<1>4. \A j \in 1..n : <<c, rd[c] + j>> \in Lines
  BY <1>1, <1>2 DEF Lines
<1>5. New(c, n) \in Seq(Lines) /\ Len(New(c, n)) = n /\ \A j \in 1..n : New(c, n)[j] = <<c, rd[c] + j>>
  BY <1>2, <1>4 DEF New
<1>6. QED BY <1>1, <1>2, <1>3, <1>5

\* What read() returns: the connection's next lines.
LEMMA ReadFacts ==
  ASSUME IInv, Read, NEW c \in Conns, c = Sockfd
  PROVE  /\ rd' \in [Conns -> Nat] /\ rd'[c] >= rd[c] /\ rd'[c] <= lines[c]
         /\ \A d \in Conns : d # c => rd'[d] = rd[d]
         /\ line' \in Seq(Lines) /\ Len(line') > 0
         /\ read_buf' \in Seq(Lines) /\ (prog # "select03" => read_buf' = <<>>)
         /\ prog # "select03" =>
              /\ rd'[c] = rd[c] + Len(line')
              /\ \A j \in 1..Len(line') : line'[j] = <<c, rd[c] + j>>
<1>1. PICK n \in 1..Unread(c) : rd' = [rd EXCEPT ![c] = @ + n] /\ line' = New(c, n)
  BY DEF Read
<1>2. read_buf' = read_buf /\ read_buf \in Seq(Lines) /\ (prog # "select03" => read_buf = <<>>)
  BY DEF Read, IInv, TypeOK, ByProgram
<1>3. /\ rd' \in [Conns -> Nat] /\ rd'[c] = rd[c] + n /\ rd'[c] >= rd[c] /\ rd'[c] <= lines[c]
      /\ \A d \in Conns : d # c => rd'[d] = rd[d]
      /\ New(c, n) \in Seq(Lines) /\ Len(New(c, n)) = n /\ n > 0
      /\ \A j \in 1..n : New(c, n)[j] = <<c, rd[c] + j>>
  BY <1>1, NewLines
<1>4. QED BY <1>1, <1>2, <1>3

\* read() keeps the invariant.
LEMMA ReadStep ==
  ASSUME IInv, Read, prog # "udp"
  PROVE  IInv'
<1>1. pc = "scan" /\ Turn # {} /\ UNCHANGED <<prog, net, out, slot, maxi, kids>>
  BY DEF Read
<1>2. PICK c \in Conns : c = Sockfd
  BY <1>1, SockfdIs DEF IInv
<1>3. /\ prog = "gnu" => Served /\ UNCHANGED cur
      /\ prog # "gnu" => pc' = "write" /\ cur' = c /\ UNCHANGED <<rset, nready>>
  BY <1>2 DEF Read
<1>4. /\ rd' \in [Conns -> Nat] /\ rd'[c] >= rd[c] /\ rd'[c] <= lines[c]
      /\ \A d \in Conns : d # c => rd'[d] = rd[d]
      /\ line' \in Seq(Lines) /\ Len(line') > 0
      /\ read_buf' \in Seq(Lines) /\ (prog # "select03" => read_buf' = <<>>)
      /\ prog # "select03" =>
           /\ rd'[c] = rd[c] + Len(line')
           /\ \A j \in 1..Len(line') : line'[j] = <<c, rd[c] + j>>
  BY <1>2, ReadFacts
<1>5. pc' \in {"select", "scan", "write"} /\ (prog = "gnu" => pc' # "write")
      /\ rset' \in SUBSET (0..MaxConn+1) /\ nready' \in Int /\ cur' \in 0..MaxConn
      /\ (pc' = "write" => cur' = c)
  <2>1. rset' \subseteq rset /\ nready' \in {nready, nready - 1}
    BY <1>3 DEF Served
  <2>2. rset' \in SUBSET (0..MaxConn+1) /\ nready' \in Int
    BY <2>1 DEF IInv, TypeOK
  <2>3. pc' \in {"select", "scan", "write"} /\ (prog = "gnu" => pc' # "write")
    BY <1>3 DEF Served
  <2>4. cur' \in 0..MaxConn /\ (pc' = "write" => cur' = c)
    BY <1>3, <2>3 DEF Conns, IInv, TypeOK
  <2>5. QED BY <2>2, <2>3, <2>4
<1>6. TypeOK'
  BY <1>1, <1>4, <1>5 DEF IInv, TypeOK, net
<1>7. ByProgram'
  BY <1>1, <1>4, <1>5 DEF IInv, ByProgram, net
<1>8. Table'
  BY <1>1, <1>5 DEF IInv, Table, net
<1>9. Echo'
  <2>1. OwnEcho'
    BY <1>1 DEF IInv, Echo, OwnEcho, net
  <2>2. prog \in {"select01", "poll01", "udp"} =>
          \A d \in Conns : Len(out'[d]) = rd'[d] \/ (pc' = "write" /\ d = cur')
    <3>1. prog \in {"select01", "poll01", "udp"} => pc' = "write" /\ cur' = c
      BY <1>3
    <3>2. prog \in {"select01", "poll01", "udp"} => \A d \in Conns : Len(out[d]) = rd[d]
      BY <1>1 DEF IInv, Echo
    <3>3. QED BY <1>1, <1>4, <3>1, <3>2
  <2>3. ASSUME prog \in {"select01", "poll01"}
        PROVE  /\ rd'[c] = Len(out'[c]) + Len(line')
               /\ \A j \in 1..Len(line') : line'[j] = <<c, Len(out'[c]) + j>>
    <3>1. Len(out[c]) = rd[c]
      BY <1>1, <2>3 DEF IInv, Echo
    <3>2. out'[c] = out[c]
      BY <1>1
    <3>3. QED BY <1>4, <2>3, <3>1, <3>2
  <2>4. prog' = prog /\ (pc' = "write" => cur' = c)
    BY <1>1, <1>5
  <2>5. QED BY <1>4, <2>1, <2>2, <2>3, <2>4 DEF Echo
<1>10. \A d \in 0..MaxConn+1 : d # c /\ d \in Conns => Readable(d)' = Readable(d)
  BY <1>1, <1>4 DEF Readable, Unread, net
<1>11. Round'
  <2>1. CASE prog = "gnu"
    <3>1. \A d \in Conns \ {Sockfd} : Readable(d) => Readable(d)'
      BY <1>2, <1>10 DEF Conns
    <3>2. QED BY <1>1, <1>3, <2>1, <3>1, RoundServed DEF IInv
  <2>2. CASE prog # "gnu"
    <3>1. /\ pc' = "write" /\ cur' = c
          /\ UNCHANGED <<prog, slot, maxi, rset, nready>>
      BY <1>1, <1>3, <2>2
    <3>2. InSlots' = InSlots /\ Turn' = Turn
      BY <3>1 DEF InSlots, Turn
    <3>3. Sockfd' = Sockfd
      BY <3>1, <3>2 DEF Sockfd
    <3>4. PICK Q \in SUBSET rset : InRound(Q)
      BY <1>1 DEF IInv, Round
    <3>5. \A g \in Q : g \in InSlots' /\ (Readable(g)' \/ (pc' = "write" /\ g = cur'))
      <4> TAKE g \in Q
      <4>1. g \in InSlots /\ (g # c => Readable(g))
        BY <1>1, <1>2, <3>4 DEF InRound
      <4>2. g \in Conns
        BY <4>1 DEF InSlots, Conns, IInv, TypeOK
      <4>3. g # c => Readable(g)'
        BY <1>10, <4>1, <4>2 DEF Conns
      <4>4. QED BY <3>1, <3>2, <4>1, <4>3
    <3>6. InRound(Q)'
      BY <3>1, <3>2, <3>4, <3>5 DEF InRound
    <3>7. QED BY <1>1, <1>2, <3>1, <3>2, <3>3, <3>6 DEF Round
  <2>3. QED BY <2>1, <2>2
<1>12. QED BY <1>6, <1>7, <1>8, <1>9, <1>11 DEF IInv

\* read() inside Readline() keeps the invariant: what it has given is in the
\* buffer, and the connection it was called for is still the one whose turn it is.
LEMMA My_readStep ==
  ASSUME IInv, My_read, prog # "udp"
  PROVE  IInv'
<1>1. /\ pc = "scan" /\ Turn # {} /\ prog = "select03"
      /\ UNCHANGED <<prog, net, out, slot, maxi, rset, nready, kids, pc, cur, line>>
  BY DEF My_read, UsesReadline
<1>2. PICK c \in Conns : c = Sockfd
  BY <1>1, SockfdIs DEF IInv
<1>3. PICK n \in 1..Unread(c) : rd' = [rd EXCEPT ![c] = @ + n] /\ read_buf' = read_buf \o New(c, n)
  BY <1>2 DEF My_read
<1>4. /\ rd' \in [Conns -> Nat] /\ rd'[c] >= rd[c] /\ rd'[c] <= lines[c]
      /\ \A d \in Conns : d # c => rd'[d] = rd[d]
      /\ New(c, n) \in Seq(Lines) /\ Len(New(c, n)) = n /\ n > 0
  BY <1>3, NewLines
<1>5. read_buf' \in Seq(Lines) /\ read_buf' # <<>>
  <2>1. PICK q \in Seq(Lines) : q = New(c, n) /\ Len(q) > 0 /\ read_buf' = read_buf \o q
    BY <1>3, <1>4
  <2>2. read_buf \in Seq(Lines) /\ Len(read_buf) \in Nat
    BY DEF IInv, TypeOK
  <2>3. read_buf \o q \in Seq(Lines) /\ Len(read_buf \o q) = Len(read_buf) + Len(q)
    BY <2>1, <2>2, ConcatProperties
  <2>4. QED BY <2>1, <2>2, <2>3
<1>6. TypeOK'
  BY <1>1, <1>4, <1>5 DEF IInv, TypeOK, net
<1>7. ByProgram'
  BY <1>1, <1>4 DEF IInv, ByProgram, net
<1>8. Table'
  BY <1>1 DEF IInv, Table, net
<1>9. Echo'
  BY <1>1 DEF IInv, Echo, OwnEcho
<1>10. Round'
  <2>1. InSlots' = InSlots /\ Turn' = Turn
    BY <1>1 DEF InSlots, Turn
  <2>2. Sockfd' = Sockfd
    BY <1>1, <2>1 DEF Sockfd
  <2>3. PICK Q \in SUBSET rset : InRound(Q)
    BY <1>1 DEF IInv, Round
  <2>4. ASSUME NEW g \in Q
        PROVE  g \in InSlots' /\ (Readable(g)' \/ (read_buf' # <<>> /\ g = Sockfd'))
    <3>1. g \in InSlots /\ (g # c => Readable(g))
      BY <1>1, <1>2, <2>3 DEF InRound
    <3>2. g \in Conns
      BY <3>1 DEF InSlots, Conns, IInv, TypeOK
    <3>3. g # c => Readable(g)'
      BY <1>1, <1>4, <3>1, <3>2 DEF Readable, Unread, net
    <3>4. QED BY <1>2, <1>5, <2>1, <2>2, <3>1, <3>3
  <2>5. InRound(Q)'
    BY <1>1, <2>3, <2>4 DEF InRound
  <2>6. QED BY <1>1, <2>1, <2>5 DEF Round
<1>11. QED BY <1>6, <1>7, <1>8, <1>9, <1>10 DEF IInv

\* Readline() keeps the invariant: what it gives is from its buffer.
LEMMA ReadlineStep ==
  ASSUME IInv, Readline, prog # "udp"
  PROVE  IInv'
<1>1. /\ pc = "scan" /\ Turn # {} /\ prog = "select03" /\ read_buf # <<>> /\ pc' = "write"
      /\ UNCHANGED <<prog, net, rd, out, slot, maxi, rset, nready, kids>>
  BY DEF Readline, UsesReadline
<1>2. PICK c \in Conns : c = Sockfd
  BY <1>1, SockfdIs DEF IInv
<1>3. cur' = c
  BY <1>2 DEF Readline
<1>4. PICK n \in 1..Len(read_buf) :
        line' = SubSeq(read_buf, 1, n) /\ read_buf' = SubSeq(read_buf, n + 1, Len(read_buf))
  <2>1. read_buf \in Seq(Lines) /\ Len(read_buf) \in Nat /\ Len(read_buf) > 0
    BY <1>1 DEF IInv, TypeOK
  <2>2. LineEnds # {} => Least(LineEnds) \in 1..Len(read_buf)
    <3>1. LineEnds \in SUBSET Nat
      BY DEF LineEnds
    <3>2. LineEnds # {} => Least(LineEnds) \in LineEnds
      BY <3>1, LeastIn
    <3>3. QED BY <3>2 DEF LineEnds
  <2>3. PICK n \in Nat : n = IF LineEnds = {} THEN Len(read_buf) ELSE Least(LineEnds)
    BY <2>1, <2>2
  <2>4. n \in 1..Len(read_buf)
    BY <2>1, <2>2, <2>3
  <2>5. line' = SubSeq(read_buf, 1, n) /\ read_buf' = SubSeq(read_buf, n + 1, Len(read_buf))
    BY <2>3 DEF Readline
  <2>6. QED BY <2>4, <2>5
<1>5. line' \in Seq(Lines) /\ read_buf' \in Seq(Lines) /\ Len(line') > 0
  BY <1>4 DEF IInv, TypeOK
<1>6. TypeOK'
  <2>1. c \in 0..MaxConn
    BY DEF Conns
  <2>2. QED BY <1>1, <1>3, <1>5, <2>1 DEF IInv, TypeOK, net
<1>7. ByProgram'
  BY <1>1 DEF IInv, ByProgram, net
<1>8. Table'
  BY <1>1 DEF IInv, Table, net
<1>9. Echo'
  BY <1>1, <1>3, <1>5 DEF IInv, Echo, OwnEcho
<1>10. Round'
  <2>1. InSlots' = InSlots /\ Turn' = Turn
    BY <1>1 DEF InSlots, Turn
  <2>2. Sockfd' = Sockfd
    BY <1>1, <2>1 DEF Sockfd
  <2>3. PICK Q \in SUBSET rset : InRound(Q)
    BY <1>1 DEF IInv, Round
  <2>4. ASSUME NEW g \in Q
        PROVE  g \in InSlots' /\ (Readable(g)' \/ (pc' = "write" /\ g = cur'))
    <3>1. g \in InSlots /\ (g # c => Readable(g))
      BY <1>1, <1>2, <2>3 DEF InRound
    <3>2. Readable(g)' = Readable(g)
      BY <1>1 DEF Readable, Unread, net
    <3>3. QED BY <1>1, <1>3, <2>1, <3>1, <3>2
  <2>5. InRound(Q)'
    BY <1>1, <2>3, <2>4 DEF InRound
  <2>6. QED BY <1>1, <1>2, <1>3, <2>1, <2>2, <2>5 DEF Round
<1>11. QED BY <1>6, <1>7, <1>8, <1>9, <1>10 DEF IInv

\* The end of a connection keeps the invariant: its entry is freed and its
\* number in the round is spent.
LEMMA AtEndStep ==
  ASSUME IInv, AtEnd, prog # "udp"
  PROVE  IInv'
<1>1. /\ pc = "scan" /\ Turn # {} /\ Close(Sockfd) /\ Served
      /\ UNCHANGED <<prog, nconn, queue, lines, taken, ndgrams, dgram, rd, out, maxi, kids, cur, line, read_buf>>
  BY DEF AtEnd
<1>2. PICK c \in Conns : c = Sockfd
  BY <1>1, SockfdIs DEF IInv
<1>3. PICK l \in 1..Slots : l = Least(Turn) /\ slot[l] = c
  BY <1>1, <1>2, SockfdIs DEF IInv
<1>4. /\ slot' = [slot EXCEPT ![l] = 0] /\ peer' = [peer EXCEPT ![c] = "gone"]
      /\ rset' = rset \ {c} /\ nready' = nready - 1 /\ pc' \in {"select", "scan"}
  BY <1>1, <1>2, <1>3 DEF Close, Served
<1>5. /\ slot' \in [1..Slots -> 0..MaxConn] /\ slot'[l] = 0
      /\ \A k \in 1..Slots : k # l => slot'[k] = slot[k]
  BY <1>4 DEF IInv, TypeOK
<1>6. /\ peer' \in [Conns -> {"none", "up", "fin", "reset", "gone"}] /\ peer'[c] = "gone"
      /\ \A d \in Conns : d # c => peer'[d] = peer[d]
  BY <1>4 DEF IInv, TypeOK
<1>7. c # 0 /\ c <= nconn /\ \A k \in 1..Slots : k # l => slot[k] # c
  BY <1>1, <1>3 DEF IInv, Table, Conns
<1>8. TypeOK'
  <2>1. rset' \subseteq rset /\ nready' \in Int
    BY <1>4 DEF IInv, TypeOK
  <2>2. rset' \in SUBSET (0..MaxConn+1)
    BY <2>1 DEF IInv, TypeOK
  <2>3. QED BY <1>1, <1>4, <1>5, <1>6, <2>1, <2>2 DEF IInv, TypeOK
<1>9. ByProgram'
  BY <1>1, <1>4 DEF IInv, ByProgram
<1>10. Table'
  <2>1. \A d \in Conns : d > nconn => peer'[d] = "none"
    <3>1. \A d \in Conns : d > nconn => d # c /\ peer[d] = "none"
      BY <1>7 DEF IInv, Table, TypeOK, Conns
    <3>2. QED BY <1>6, <3>1
  <2>2. \A k \in 1..Slots : slot'[k] # 0 =>
          k <= maxi' /\ slot'[k] <= nconn' /\ peer'[slot'[k]] \in {"up", "fin", "reset"}
    <3> SUFFICES ASSUME NEW k \in 1..Slots, slot'[k] # 0
                 PROVE  k <= maxi /\ slot'[k] <= nconn /\ peer'[slot'[k]] \in {"up", "fin", "reset"}
      BY <1>1
    <3>1. k # l /\ slot'[k] = slot[k] /\ slot[k] # c /\ slot[k] \in Conns
      <4>1. k # l /\ slot'[k] = slot[k] /\ slot[k] # 0
        BY <1>5
      <4>2. slot[k] # c
        BY <1>7, <4>1
      <4>3. slot[k] \in 0..MaxConn
        BY DEF IInv, TypeOK
      <4>4. QED BY <4>1, <4>2, <4>3 DEF Conns
    <3>2. k <= maxi /\ slot[k] <= nconn /\ peer[slot[k]] \in {"up", "fin", "reset"}
      BY <1>1, <3>1 DEF IInv, Table
    <3>3. QED BY <1>6, <3>1, <3>2
  <2>3. \A j, k \in 1..Slots : j # k /\ slot'[j] # 0 => slot'[j] # slot'[k]
    BY <1>5 DEF IInv, Table
  <2>4. \A i \in 1..Len(queue) :
          /\ queue[i] <= nconn /\ peer'[queue[i]] \in {"up", "fin", "reset"}
          /\ \A k \in 1..Slots : slot'[k] # queue[i]
    <3> TAKE i \in 1..Len(queue)
    <3>1. /\ queue[i] \in Conns /\ queue[i] # c /\ queue[i] # 0
          /\ queue[i] <= nconn /\ peer[queue[i]] \in {"up", "fin", "reset"}
          /\ \A k \in 1..Slots : slot[k] # queue[i]
      <4>1. queue[i] \in Conns
        BY DEF IInv, TypeOK
      <4>2. /\ queue[i] <= nconn /\ peer[queue[i]] \in {"up", "fin", "reset"}
            /\ \A k \in 1..Slots : slot[k] # queue[i]
        BY DEF IInv, Table
      <4>3. QED BY <1>3, <4>1, <4>2 DEF Conns
    <3>2. QED BY <1>5, <1>6, <3>1
  <2>5. \A d \in 1..nconn : pc' # "quit" /\ peer'[d] # "gone" =>
          (\E i \in 1..Len(queue) : queue[i] = d) \/ (\E k \in 1..Slots : slot'[k] = d)
    <3> TAKE d \in 1..nconn
    <3>1. CASE d = c
      BY <1>6, <3>1
    <3>2. CASE d # c
      <4>1. peer'[d] = peer[d]
        BY <1>6, <3>2 DEF IInv, TypeOK, Conns
      <4>2. CASE \E k \in 1..Slots : slot[k] = d
        BY <1>3, <1>5, <3>2, <4>2
      <4>3. QED BY <1>1, <4>1, <4>2 DEF IInv, Table
    <3>3. QED BY <3>1, <3>2
  <2>6. QED BY <1>1, <2>1, <2>2, <2>3, <2>4, <2>5 DEF IInv, Table
<1>11. Echo'
  BY <1>1, <1>4 DEF IInv, Echo, OwnEcho
<1>12. Round'
  <2>1. \A d \in Conns \ {Sockfd} : Readable(d) => Readable(d)'
    BY <1>1, <1>2, <1>6 DEF Readable, Unread
  <2>2. slot' = [slot EXCEPT ![Least(Turn)] = 0]
    BY <1>3, <1>4
  <2>3. QED BY <1>1, <2>1, <2>2, RoundServed DEF IInv
<1>13. QED BY <1>8, <1>9, <1>10, <1>11, <1>12 DEF IInv

\* Writen() keeps the invariant: what it writes is the next line of the
\* connection.
LEMMA WritenStep ==
  ASSUME IInv, Writen, prog # "udp"
  PROVE  IInv'
<1>1. pc = "write" /\ UNCHANGED <<prog, net, rd, slot, maxi, kids, cur, read_buf>>
  BY DEF Writen
<1>2. cur \in Conns /\ Len(line) > 0 /\ line \in Seq(Lines) /\ prog # "gnu"
      /\ Turn # {} /\ cur = Sockfd
  BY <1>1 DEF IInv, Echo, TypeOK, ByProgram, Round
<1>3. CASE peer[cur] = "reset"
  <2>1. pc' = "quit" /\ UNCHANGED <<out, line, rset, nready>>
    BY <1>3 DEF Writen
  <2>2. TypeOK'
    BY <1>1, <2>1 DEF IInv, TypeOK, net
  <2>3. ByProgram'
    BY <1>1, <2>1 DEF IInv, ByProgram, net
  <2>4. Table'
    BY <1>1, <2>1 DEF IInv, Table, net
  <2>5. Echo'
    BY <1>1, <2>1 DEF IInv, Echo, OwnEcho, net
  <2>6. Round'
    BY <2>1 DEF Round
  <2>7. QED BY <2>2, <2>3, <2>4, <2>5, <2>6 DEF IInv
<1>4. CASE peer[cur] # "reset"
  <2>1. /\ out' = [out EXCEPT ![cur] = Append(@, Head(line))]
        /\ line' = Tail(line)
        /\ IF Len(line) = 1 THEN Served ELSE UNCHANGED <<pc, rset, nready>>
    BY <1>4 DEF Writen
  <2>2. /\ Head(line) \in Lines /\ Head(line) = line[1]
        /\ Tail(line) \in Seq(Lines) /\ Len(Tail(line)) = Len(line) - 1
        /\ \A i \in 1..Len(line) - 1 : Tail(line)[i] = line[i + 1]
    BY <1>2, SeqTail
  <2>3. out[cur] \in Seq(Lines) /\ Len(out[cur]) \in Nat /\ Len(line) \in Nat
    BY <1>2 DEF IInv, TypeOK
  <2>4. /\ out'[cur] \in Seq(Lines) /\ Len(out'[cur]) = Len(out[cur]) + 1
        /\ out'[cur][Len(out[cur]) + 1] = line[1]
        /\ \A k \in 1..Len(out[cur]) : out'[cur][k] = out[cur][k]
    <3>1. out'[cur] = Append(out[cur], Head(line))
      BY <1>2, <2>1 DEF IInv, TypeOK
    <3>2. QED BY <2>2, <2>3, <3>1, AppendProperties
  <2>5. \A d \in Conns : d # cur => out'[d] = out[d]
    BY <2>1 DEF IInv, TypeOK
  <2>6. out' \in [Conns -> Seq(Lines)]
    <3>1. Append(out[cur], Head(line)) \in Seq(Lines)
      BY <2>2, <2>3, AppendProperties
    <3>2. QED BY <2>1, <3>1 DEF IInv, TypeOK
  <2>7. /\ rset' \subseteq rset /\ nready' \in {nready, nready - 1}
        /\ pc' \in {"select", "scan", "write"} /\ (pc' = "write" <=> Len(line) # 1)
    BY <1>1, <2>1 DEF Served
  <2>8. TypeOK'
    <3>1. rset' \in SUBSET (0..MaxConn+1) /\ nready' \in Int
      BY <2>7 DEF IInv, TypeOK
    <3>2. QED BY <1>1, <2>1, <2>2, <2>6, <2>7, <3>1 DEF IInv, TypeOK, net
  <2>9. ByProgram'
    BY <1>1, <1>2, <2>7 DEF IInv, ByProgram, net
  <2>10. Table'
    BY <1>1, <2>7 DEF IInv, Table, net
  <2>11. ASSUME prog # "select03"
         PROVE  /\ prog \in {"select01", "poll01"}
                /\ rd[cur] = Len(out[cur]) + Len(line)
                /\ \A j \in 1..Len(line) : line[j] = <<cur, Len(out[cur]) + j>>
    BY <1>1, <1>2, <2>11 DEF IInv, TypeOK, Echo
  <2>12. Echo'
    <3>1. OwnEcho'
      <4> SUFFICES ASSUME prog # "select03", NEW d \in Conns, NEW k \in 1..Len(out'[d])
                   PROVE  out'[d][k] = <<d, k>>
        BY <1>1 DEF OwnEcho
      <4>1. CASE d # cur
        BY <2>5, <4>1 DEF IInv, Echo, OwnEcho
      <4>2. CASE d = cur /\ k = Len(out[cur]) + 1
        <5>1. 1 \in 1..Len(line)
          BY <1>2, <2>3
        <5>2. line[1] = <<cur, Len(out[cur]) + 1>>
          BY <2>11, <5>1
        <5>3. QED BY <2>4, <4>2, <5>2
      <4>3. CASE d = cur /\ k # Len(out[cur]) + 1
        <5>1. k \in 1..Len(out[cur])
          BY <2>3, <2>4, <4>3
        <5>2. QED BY <1>2, <2>4, <4>3, <5>1 DEF IInv, Echo, OwnEcho
      <4>4. QED BY <4>1, <4>2, <4>3
    <3>2. prog \in {"select01", "poll01", "udp"} =>
            \A d \in Conns : Len(out'[d]) = rd[d] \/ (pc' = "write" /\ d = cur)
      <4> SUFFICES ASSUME prog \in {"select01", "poll01", "udp"}, NEW d \in Conns
                   PROVE  Len(out'[d]) = rd[d] \/ (pc' = "write" /\ d = cur)
        OBVIOUS
      <4>1. CASE d # cur
        BY <1>1, <2>5, <4>1 DEF IInv, Echo
      <4>2. CASE d = cur
        BY <1>2, <2>3, <2>4, <2>7, <2>11, <4>2
      <4>3. QED BY <4>1, <4>2
    <3>3. ASSUME pc' = "write" PROVE Len(line') > 0
      BY <1>2, <2>1, <2>2, <2>3, <2>7, <3>3
    <3>4. ASSUME prog \in {"select01", "poll01"}
          PROVE  /\ rd[cur] = Len(out'[cur]) + Len(line')
                 /\ \A j \in 1..Len(line') : line'[j] = <<cur, Len(out'[cur]) + j>>
      <4>1. /\ rd[cur] = Len(out[cur]) + Len(line)
            /\ \A j \in 1..Len(line) : line[j] = <<cur, Len(out[cur]) + j>>
        BY <2>11, <3>4
      <4>2. rd[cur] = Len(out'[cur]) + Len(line')
        BY <2>1, <2>2, <2>3, <2>4, <4>1
      <4>3. ASSUME NEW j \in 1..Len(line') PROVE line'[j] = <<cur, Len(out'[cur]) + j>>
        <5>1. j \in 1..Len(line) - 1 /\ j + 1 \in 1..Len(line)
          BY <2>1, <2>2, <2>3
        <5>2. line'[j] = <<cur, Len(out[cur]) + (j + 1)>>
          BY <2>1, <2>2, <4>1, <5>1
        <5>3. Len(out[cur]) + (j + 1) = Len(out'[cur]) + j
          <6>1. Len(out'[cur]) = Len(out[cur]) + 1 /\ j \in Nat /\ Len(out[cur]) \in Nat
            BY <2>3, <2>4, <5>1
          <6>2. \A a, m \in Nat : m + (a + 1) = (m + 1) + a
            OBVIOUS
          <6>3. QED BY ZenonT(40), <6>1, <6>2
        <5>4. QED BY <5>2, <5>3
      <4>4. QED BY <4>2, <4>3
    <3>5. UNCHANGED <<prog, rd, cur>>
      BY <1>1
    <3>6. QED BY <1>2, <3>1, <3>2, <3>3, <3>4, <3>5 DEF Echo
  <2>13. Round'
    <3>1. \A c \in Conns : Readable(c)' = Readable(c)
      BY <1>1 DEF Readable, Unread, net
    <3>2. CASE Len(line) = 1
      BY <1>1, <2>1, <3>1, <3>2, RoundServed DEF IInv
    <3>3. CASE Len(line) # 1
      <4>1. \A c \in InSlots : c \in Conns
        BY DEF InSlots, Conns, IInv, TypeOK
      <4>2. QED BY <1>1, <2>1, <3>1, <3>3, <4>1, RoundStays DEF IInv
    <3>4. QED BY <3>2, <3>3
  <2>14. QED BY <2>8, <2>9, <2>10, <2>12, <2>13 DEF IInv
<1>5. QED BY <1>3, <1>4

\* A child of the forking server keeps the invariant.
LEMMA ChildStep ==
  ASSUME IInv, NEW c \in Conns, Child(c)
  PROVE  IInv'
<1>1. /\ c \in kids
      /\ UNCHANGED <<prog, nconn, queue, lines, taken, ndgrams, dgram, slot, maxi, rset, nready, pc, cur, line, read_buf>>
  BY DEF Child
<1>2. prog = "udp" /\ pc # "write" /\ pc # "quit"
  BY <1>1 DEF IInv, ByProgram, TypeOK
<1>3. Table' /\ Round'
  BY <1>1, <1>2 DEF Table, Round
<1>4. /\ out \in [Conns -> Seq(Lines)] /\ rd \in [Conns -> Nat] /\ lines \in [Conns -> Nat]
      /\ out[c] \in Seq(Lines) /\ rd[c] \in Nat /\ lines[c] \in Nat /\ Len(out[c]) = rd[c]
      /\ rd[c] <= lines[c]
  BY <1>2 DEF IInv, TypeOK, Echo, ByProgram
<1>5. CASE /\ Unread(c) > 0
           /\ rd' = [rd EXCEPT ![c] = @ + 1]
           /\ out' = [out EXCEPT ![c] = Append(@, <<c, rd[c] + 1>>)]
           /\ UNCHANGED <<kids, peer>>
  <2>1. <<c, rd[c] + 1>> \in Lines
    BY <1>4 DEF Lines
  <2>2. /\ rd' \in [Conns -> Nat] /\ rd'[c] = rd[c] + 1
        /\ \A d \in Conns : d # c => rd'[d] = rd[d] /\ out'[d] = out[d]
    BY <1>4, <1>5
  <2>3. out'[c] = Append(out[c], <<c, rd[c] + 1>>)
    BY <1>4, <1>5
  <2>4. /\ out'[c] \in Seq(Lines) /\ Len(out'[c]) = rd[c] + 1
        /\ out'[c][rd[c] + 1] = <<c, rd[c] + 1>>
        /\ \A k \in 1..rd[c] : out'[c][k] = out[c][k]
    BY <1>4, <2>1, <2>3, AppendProperties
  <2>5. out' \in [Conns -> Seq(Lines)]
    BY <1>4, <1>5, <2>3, <2>4
  <2>6. TypeOK'
    BY <1>1, <1>5, <2>2, <2>5 DEF IInv, TypeOK
  <2>7. ByProgram'
    <3>1. rd'[c] <= lines[c]
      BY <1>4, <1>5, <2>2 DEF Unread
    <3>2. QED BY <1>1, <1>2, <1>5, <2>2, <3>1 DEF IInv, ByProgram
  <2>8. OwnEcho'
    <3> SUFFICES ASSUME NEW d \in Conns, NEW k \in 1..Len(out'[d])
                 PROVE  out'[d][k] = <<d, k>>
      BY DEF OwnEcho
    <3>1. CASE d # c
      BY <1>2, <2>2, <3>1 DEF IInv, Echo, OwnEcho
    <3>2. CASE d = c /\ k = rd[c] + 1
      BY <2>4, <3>2
    <3>3. CASE d = c /\ k # rd[c] + 1
      <4>1. k \in 1..rd[c]
        BY <1>4, <2>4, <3>3
      <4>2. QED BY <1>2, <1>4, <2>4, <3>3, <4>1 DEF IInv, Echo, OwnEcho
    <3>4. QED BY <3>1, <3>2, <3>3
  <2>9. \A d \in Conns : Len(out'[d]) = rd'[d]
    BY <1>2, <2>2, <2>4 DEF IInv, Echo
  <2>10. Echo'
    BY <1>1, <1>2, <2>8, <2>9 DEF Echo
  <2>11. QED BY <1>3, <2>6, <2>7, <2>10 DEF IInv
<1>6. CASE kids' = kids \ {c} /\ peer' = [peer EXCEPT ![c] = "gone"] /\ UNCHANGED <<rd, out>>
  <2>1. TypeOK'
    BY <1>1, <1>6 DEF IInv, TypeOK
  <2>2. ByProgram'
    BY <1>1, <1>6 DEF IInv, ByProgram
  <2>3. Echo'
    BY <1>1, <1>6 DEF IInv, Echo, OwnEcho
  <2>4. QED BY <1>3, <2>1, <2>2, <2>3 DEF IInv
<1>7. QED BY <1>5, <1>6 DEF Child

-----------------------------------------------------------------------------
\* A new connection keeps the invariant.
LEMMA ConnectStep ==
  ASSUME IInv, Connect
  PROVE  IInv'
<1>1. /\ nconn < MaxConn /\ nconn' = nconn + 1
      /\ queue' = Append(queue, nconn') /\ peer' = [peer EXCEPT ![nconn'] = "up"]
      /\ Others /\ UNCHANGED <<lines, taken, ndgrams, dgram>>
  BY DEF Connect
<1>2. PICK c \in Conns : c = nconn + 1 /\ c = nconn' /\ c # 0 /\ nconn \in Nat
  BY <1>1 DEF IInv, TypeOK, Conns
<1>3. /\ queue \in Seq(Conns) /\ queue' \in Seq(Conns) /\ Len(queue') = Len(queue) + 1
      /\ queue'[Len(queue) + 1] = c /\ \A i \in 1..Len(queue) : queue'[i] = queue[i]
  <2>1. queue \in Seq(Conns) /\ queue' = Append(queue, c)
    BY <1>1, <1>2 DEF IInv, TypeOK
  <2>2. QED BY <2>1, AppendProperties
<1>4. /\ peer' \in [Conns -> {"none", "up", "fin", "reset", "gone"}] /\ peer'[c] = "up"
      /\ \A d \in Conns : d # c => peer'[d] = peer[d]
  BY <1>1, <1>2 DEF IInv, TypeOK
<1>5. Len(queue) \in Nat /\ \A i \in 1..Len(queue') : i \in 1..Len(queue) \/ i = Len(queue) + 1
  BY <1>3
<1>6. TypeOK'
  BY SMTT(30), <1>1, <1>2, <1>3, <1>4 DEF IInv, TypeOK, Others
<1>7. ByProgram'
  BY <1>1 DEF IInv, ByProgram, Others
<1>8. Echo'
  BY <1>1 DEF IInv, Echo, OwnEcho, Others
<1>9. Table'
  <2> SUFFICES ASSUME prog # "udp" PROVE Table'
    BY <1>1 DEF Table, Others
  <2>1. \A d \in Conns : d > nconn' => peer'[d] = "none"
    <3>1. \A d \in Conns : d > nconn + 1 => d # c /\ d > nconn
      BY <1>2 DEF Conns
    <3>2. QED BY <1>1, <1>4, <3>1 DEF IInv, Table
  <2>2. \A k \in 1..Slots : slot[k] # 0 =>
          k <= maxi /\ slot[k] <= nconn' /\ slot[k] # c /\ peer'[slot[k]] \in {"up", "fin", "reset"}
    <3> SUFFICES ASSUME NEW k \in 1..Slots, slot[k] # 0
                 PROVE  /\ k <= maxi /\ slot[k] <= nconn + 1 /\ slot[k] # c
                        /\ peer'[slot[k]] \in {"up", "fin", "reset"}
      BY <1>1
    <3>1. k <= maxi /\ slot[k] <= nconn /\ peer[slot[k]] \in {"up", "fin", "reset"}
      BY DEF IInv, Table
    <3>2. slot[k] \in Conns
      BY DEF IInv, TypeOK, Conns
    <3>3. slot[k] # c /\ slot[k] <= nconn + 1
      BY <1>2, <3>1, <3>2 DEF Conns
    <3>4. QED BY <1>4, <3>1, <3>2, <3>3
  <2>3. \A i \in 1..Len(queue) :
          /\ queue[i] \in Conns /\ queue[i] # c
          /\ queue[i] <= nconn + 1 /\ peer'[queue[i]] \in {"up", "fin", "reset"}
          /\ \A k \in 1..Slots : slot[k] # queue[i]
    <3> TAKE i \in 1..Len(queue)
    <3>1. queue[i] \in Conns
      BY <1>3
    <3>2. /\ queue[i] <= nconn /\ peer[queue[i]] \in {"up", "fin", "reset"}
          /\ \A k \in 1..Slots : slot[k] # queue[i]
      BY DEF IInv, Table
    <3>3. queue[i] # c /\ queue[i] <= nconn + 1
      BY <1>2, <3>1, <3>2 DEF Conns
    <3>4. QED BY <1>4, <3>1, <3>2, <3>3
  <2>4. \A k \in 1..Slots : slot[k] # c
    BY <1>2, <2>2
  <2>5. \A i \in 1..Len(queue') :
          /\ queue'[i] <= nconn' /\ peer'[queue'[i]] \in {"up", "fin", "reset"}
          /\ \A k \in 1..Slots : slot[k] # queue'[i]
    <3> TAKE i \in 1..Len(queue')
    <3>1. CASE i \in 1..Len(queue)
      BY <1>1, <1>3, <2>3, <3>1
    <3>2. CASE i = Len(queue) + 1
      BY <1>2, <1>3, <1>4, <2>4, <3>2
    <3>3. QED BY <1>5, <3>1, <3>2
  <2>6. \A i, j \in 1..Len(queue') : i # j => queue'[i] # queue'[j]
    <3> SUFFICES ASSUME NEW i \in 1..Len(queue'), NEW j \in 1..Len(queue'), i # j
                 PROVE  queue'[i] # queue'[j]
      OBVIOUS
    <3>1. CASE i \in 1..Len(queue) /\ j \in 1..Len(queue)
      BY <1>3, <3>1 DEF IInv, Table
    <3>2. CASE i \notin 1..Len(queue) \/ j \notin 1..Len(queue)
      BY <1>3, <1>5, <2>3, <3>2
    <3>3. QED BY <3>1, <3>2
  <2>7. \A d \in 1..nconn' : pc # "quit" /\ peer'[d] # "gone" =>
          (\E i \in 1..Len(queue') : queue'[i] = d) \/ (\E k \in 1..Slots : slot[k] = d)
    <3> TAKE d \in 1..nconn'
    <3>1. CASE d = c
      BY <1>3, <1>5, <3>1
    <3>2. CASE d # c
      <4>1. d \in 1..nconn /\ d \in Conns
        BY <1>1, <1>2, <3>2 DEF Conns
      <4>2. peer'[d] = peer[d]
        BY <1>4, <3>2, <4>1
      <4>3. ASSUME NEW i \in 1..Len(queue), queue[i] = d
            PROVE  \E j \in 1..Len(queue') : queue'[j] = d
        BY <1>3, <1>5, <4>3
      <4>4. QED BY <4>1, <4>2, <4>3 DEF IInv, Table
    <3>3. QED BY <3>1, <3>2
  <2>8. \A j, k \in 1..Slots : j # k /\ slot[j] # 0 => slot[j] # slot[k]
    BY DEF IInv, Table
  <2>9. UNCHANGED <<prog, slot, maxi, pc>>
    BY <1>1 DEF Others
  <2>10. QED BY <2>1, <2>2, <2>5, <2>6, <2>7, <2>8, <2>9 DEF Table
<1>10. Round'
  <2>1. ASSUME prog # "udp", NEW d \in InSlots, Readable(d) PROVE Readable(d)'
    <3>1. d \in Conns /\ d <= nconn
      BY <2>1 DEF InSlots, IInv, TypeOK, Table, Conns
    <3>2. d # c
      BY <1>2, <3>1 DEF Conns
    <3>3. QED BY <1>1, <1>4, <2>1, <3>1, <3>2 DEF Readable, Unread, Others
  <2>2. QED BY <1>1, <2>1, RoundStays DEF IInv, Others
<1>11. QED BY <1>6, <1>7, <1>8, <1>9, <1>10 DEF IInv

\* A line that arrives keeps the invariant, also in the middle of a round.
LEMMA SendStep ==
  ASSUME IInv, NEW c \in Conns, Send(c)
  PROVE  IInv'
<1>1. /\ lines' = [lines EXCEPT ![c] = @ + 1] /\ Others
      /\ UNCHANGED <<nconn, queue, peer, taken, ndgrams, dgram>>
  BY DEF Send
<1>2. /\ lines \in [Conns -> Nat] /\ lines' \in [Conns -> Nat]
      /\ \A d \in Conns : lines[d] <= lines'[d]
  BY <1>1 DEF IInv, TypeOK
<1>3. TypeOK'
  BY <1>1, <1>2 DEF IInv, TypeOK, Others
<1>4. \A d \in Conns : rd[d] <= lines'[d]
  BY <1>2 DEF IInv, TypeOK, ByProgram
<1>5. ByProgram'
  BY <1>1, <1>4 DEF IInv, ByProgram, Others
<1>6. Table'
  BY <1>1 DEF IInv, Table, Others
<1>7. Echo'
  BY <1>1 DEF IInv, Echo, OwnEcho, Others
<1>8. Round'
  <2>1. ASSUME NEW d \in InSlots, Readable(d) PROVE Readable(d)'
    <3>1. d \in Conns
      BY <2>1 DEF InSlots, IInv, TypeOK, Conns
    <3>2. rd[d] \in Nat /\ lines[d] \in Nat /\ lines'[d] \in Nat /\ lines[d] <= lines'[d]
      BY <1>2, <3>1 DEF IInv, TypeOK
    <3>3. QED BY <1>1, <2>1, <3>2 DEF Readable, Unread, Others
  <2>2. QED BY <1>1, <2>1, RoundStays DEF IInv, Others
<1>9. QED BY <1>3, <1>5, <1>6, <1>7, <1>8 DEF IInv

\* A client that ends its side or resets the connection keeps the invariant,
\* also in the middle of a round.
LEMMA PeerStep ==
  ASSUME IInv, NEW c \in Conns, peer[c] \in {"up", "fin"}, NEW v \in {"fin", "reset"},
         peer' = [peer EXCEPT ![c] = v], Others,
         UNCHANGED <<nconn, queue, lines, taken, ndgrams, dgram>>
  PROVE  IInv'
<1>1. /\ peer' \in [Conns -> {"none", "up", "fin", "reset", "gone"}] /\ peer'[c] = v
      /\ \A d \in Conns : d # c => peer'[d] = peer[d]
  BY DEF IInv, TypeOK
<1>2. TypeOK'
  BY <1>1 DEF IInv, TypeOK, Others
<1>3. ByProgram'
  BY DEF IInv, ByProgram, Others
<1>4. Echo'
  BY DEF IInv, Echo, OwnEcho, Others
<1>5. Table'
  <2> SUFFICES ASSUME prog # "udp" PROVE Table'
    BY DEF Table, Others
  <2>1. \A d \in Conns : d > nconn => peer'[d] = "none"
    BY <1>1 DEF IInv, Table
  <2>2. \A d \in Conns : /\ peer[d] \in {"up", "fin", "reset"} => peer'[d] \in {"up", "fin", "reset"}
                         /\ peer'[d] # "gone" => peer[d] # "gone"
    BY <1>1
  <2>3. \A k \in 1..Slots : slot[k] # 0 =>
          k <= maxi /\ slot[k] <= nconn /\ peer'[slot[k]] \in {"up", "fin", "reset"}
    <3> TAKE k \in 1..Slots
    <3>1. slot[k] # 0 => slot[k] \in Conns
      BY DEF IInv, TypeOK, Conns
    <3>2. slot[k] # 0 => k <= maxi /\ slot[k] <= nconn /\ peer[slot[k]] \in {"up", "fin", "reset"}
      BY DEF IInv, Table
    <3>3. QED BY <2>2, <3>1, <3>2
  <2>4. \A i \in 1..Len(queue) :
          /\ queue[i] <= nconn /\ peer'[queue[i]] \in {"up", "fin", "reset"}
          /\ \A k \in 1..Slots : slot[k] # queue[i]
    <3> TAKE i \in 1..Len(queue)
    <3>1. queue[i] \in Conns
      BY DEF IInv, TypeOK
    <3>2. /\ queue[i] <= nconn /\ peer[queue[i]] \in {"up", "fin", "reset"}
          /\ \A k \in 1..Slots : slot[k] # queue[i]
      BY DEF IInv, Table
    <3>3. QED BY <2>2, <3>1, <3>2
  <2>5. \A d \in 1..nconn : pc # "quit" /\ peer'[d] # "gone" =>
          (\E i \in 1..Len(queue) : queue[i] = d) \/ (\E k \in 1..Slots : slot[k] = d)
    <3> TAKE d \in 1..nconn
    <3>1. d \in Conns
      BY DEF IInv, TypeOK, Conns
    <3>2. QED BY <2>2, <3>1 DEF IInv, Table
  <2>6. /\ \A j, k \in 1..Slots : j # k /\ slot[j] # 0 => slot[j] # slot[k]
        /\ \A i, j \in 1..Len(queue) : i # j => queue[i] # queue[j]
    BY DEF IInv, Table
  <2>7. UNCHANGED <<prog, nconn, queue, slot, maxi, pc>>
    BY DEF Others
  <2>8. QED BY <2>1, <2>3, <2>4, <2>5, <2>6, <2>7 DEF Table
<1>6. Round'
  <2>1. ASSUME NEW d \in InSlots, Readable(d) PROVE Readable(d)'
    <3>1. d \in Conns
      BY <2>1 DEF InSlots, IInv, TypeOK, Conns
    <3>2. QED BY <1>1, <2>1, <3>1 DEF Readable, Unread, Others
  <2>2. QED BY <2>1, RoundStays DEF IInv, Others
<1>7. QED BY <1>2, <1>3, <1>4, <1>5, <1>6 DEF IInv

\* A connection that is reset and leaves the queue keeps the invariant.
LEMMA WithdrawStep ==
  ASSUME IInv, NEW c \in Conns, peer[c] \in {"up", "fin"}, NEW k \in 1..Len(queue), queue[k] = c,
         queue' = RemoveAt(queue, k), peer' = [peer EXCEPT ![c] = "gone"], Others,
         UNCHANGED <<nconn, lines, taken, ndgrams, dgram>>
  PROVE  IInv'
<1>1. /\ peer' \in [Conns -> {"none", "up", "fin", "reset", "gone"}] /\ peer'[c] = "gone"
      /\ \A d \in Conns : d # c => peer'[d] = peer[d]
  BY DEF IInv, TypeOK
<1>2. queue \in Seq(Conns) /\ Len(queue) \in Nat
  BY DEF IInv, TypeOK
<1>3. /\ queue' \in Seq(Conns) /\ Len(queue') = Len(queue) - 1
      /\ \A j \in 1..Len(queue) - 1 : queue'[j] = IF j < k THEN queue[j] ELSE queue[j + 1]
  BY <1>2, RemoveAtProperties
<1> DEFINE place(j) == IF j < k THEN j ELSE j + 1
<1>4. \A j \in 1..Len(queue') : /\ place(j) \in 1..Len(queue) /\ place(j) # k
                                /\ queue'[j] = queue[place(j)]
  BY <1>2, <1>3
<1>5. \A i, j \in 1..Len(queue') : i # j => place(i) # place(j)
  BY <1>2, <1>3
<1>6. \A i \in 1..Len(queue) : i # k => \E j \in 1..Len(queue') : place(j) = i
  <2> SUFFICES ASSUME NEW i \in 1..Len(queue), i # k
               PROVE  \E j \in 1..Len(queue') : place(j) = i
    OBVIOUS
  <2>1. CASE i < k
    <3>1. i \in 1..Len(queue') /\ place(i) = i
      BY <1>2, <1>3, <2>1
    <3>2. QED BY <3>1
  <2>2. CASE i > k
    <3>1. i - 1 \in 1..Len(queue') /\ place(i - 1) = i
      BY <1>2, <1>3, <2>2
    <3>2. QED BY <3>1
  <2>3. QED BY <1>2, <2>1, <2>2
<1> HIDE DEF place
<1>7. TypeOK'
  BY <1>1, <1>3 DEF IInv, TypeOK, Others
<1>8. ByProgram'
  BY DEF IInv, ByProgram, Others
<1>9. Echo'
  BY DEF IInv, Echo, OwnEcho, Others
<1>10. Table'
  <2> SUFFICES ASSUME prog # "udp" PROVE Table'
    BY DEF Table, Others
  <2>1. c <= nconn /\ \A j \in 1..Slots : slot[j] # c
    BY DEF IInv, Table
  <2>2. \A d \in Conns : d > nconn => peer'[d] = "none"
    <3>1. \A d \in Conns : d > nconn => d # c /\ peer[d] = "none"
      BY <2>1 DEF IInv, Table, TypeOK, Conns
    <3>2. QED BY <1>1, <3>1
  <2>3. \A j \in 1..Slots : slot[j] # 0 =>
          j <= maxi /\ slot[j] <= nconn /\ peer'[slot[j]] \in {"up", "fin", "reset"}
    <3> TAKE j \in 1..Slots
    <3>1. slot[j] # 0 => slot[j] \in Conns
      BY DEF IInv, TypeOK, Conns
    <3>2. slot[j] # 0 => j <= maxi /\ slot[j] <= nconn /\ peer[slot[j]] \in {"up", "fin", "reset"}
      BY DEF IInv, Table
    <3>3. QED BY <1>1, <2>1, <3>1, <3>2
  <2>4. \A i \in 1..Len(queue') :
          /\ queue'[i] <= nconn /\ peer'[queue'[i]] \in {"up", "fin", "reset"}
          /\ \A j \in 1..Slots : slot[j] # queue'[i]
    <3> TAKE i \in 1..Len(queue')
    <3>1. place(i) \in 1..Len(queue) /\ place(i) # k /\ queue'[i] = queue[place(i)]
      BY <1>4
    <3>2. queue'[i] # c /\ queue'[i] \in Conns
      BY <1>2, <3>1 DEF IInv, Table
    <3>3. /\ queue'[i] <= nconn /\ peer[queue'[i]] \in {"up", "fin", "reset"}
          /\ \A j \in 1..Slots : slot[j] # queue'[i]
      BY <3>1 DEF IInv, Table
    <3>4. QED BY <1>1, <3>2, <3>3
  <2>5. \A i, j \in 1..Len(queue') : i # j => queue'[i] # queue'[j]
    BY <1>4, <1>5 DEF IInv, Table
  <2>6. \A d \in 1..nconn : pc # "quit" /\ peer'[d] # "gone" =>
          (\E i \in 1..Len(queue') : queue'[i] = d) \/ (\E j \in 1..Slots : slot[j] = d)
    <3> SUFFICES ASSUME NEW d \in 1..nconn, pc # "quit", peer'[d] # "gone"
                 PROVE  (\E i \in 1..Len(queue') : queue'[i] = d) \/ (\E j \in 1..Slots : slot[j] = d)
      OBVIOUS
    <3>1. d \in Conns /\ d # c
      <4>1. d \in Conns
        BY DEF IInv, TypeOK, Conns
      <4>2. QED BY <1>1, <2>6, <4>1
    <3>2. peer[d] # "gone"
      BY <1>1, <3>1
    <3>3. ASSUME NEW i \in 1..Len(queue), queue[i] = d
          PROVE  \E j \in 1..Len(queue') : queue'[j] = d
      BY <1>4, <1>6, <3>1, <3>3
    <3>4. QED BY <3>2, <3>3 DEF IInv, Table
  <2>7. \A i, j \in 1..Slots : i # j /\ slot[i] # 0 => slot[i] # slot[j]
    BY DEF IInv, Table
  <2>8. UNCHANGED <<prog, nconn, slot, maxi, pc>>
    BY DEF Others
  <2>9. QED BY <2>2, <2>3, <2>4, <2>5, <2>6, <2>7, <2>8 DEF Table
<1>11. Round'
  <2>1. ASSUME prog # "udp", NEW d \in InSlots, Readable(d) PROVE Readable(d)'
    <3>1. d \in Conns /\ d # c
      <4>1. PICK j \in 1..Slots : slot[j] = d /\ d # 0
        BY <2>1 DEF InSlots
      <4>2. d \in Conns
        BY <4>1 DEF IInv, TypeOK, Conns
      <4>3. QED BY <2>1, <4>1, <4>2 DEF IInv, Table
    <3>2. QED BY <1>1, <2>1, <3>1 DEF Readable, Unread, Others
  <2>2. QED BY <2>1, RoundStays DEF IInv, Others
<1>12. QED BY <1>7, <1>8, <1>9, <1>10, <1>11 DEF IInv

\* A client that reads its echo keeps the invariant.
LEMMA TakeEchoStep ==
  ASSUME IInv, NEW c \in Conns, TakeEcho(c)
  PROVE  IInv'
<1>1. TypeOK'
  <2>1. taken' \in [Conns -> Nat]
    BY DEF IInv, TypeOK, TakeEcho
  <2>2. QED BY <2>1 DEF IInv, TypeOK, TakeEcho, Others
<1>2. ByProgram'
  BY DEF IInv, ByProgram, TakeEcho, Others
<1>3. Table'
  BY DEF IInv, Table, TakeEcho, Others
<1>4. Echo'
  BY DEF IInv, Echo, OwnEcho, TakeEcho, Others
<1>5. \A d \in InSlots : Readable(d) => Readable(d)'
  BY DEF Readable, Unread, TakeEcho, Others
<1>6. Round'
  BY <1>5, RoundStays DEF IInv, TakeEcho, Others
<1>7. QED BY <1>1, <1>2, <1>3, <1>4, <1>6 DEF IInv

\* A datagram that arrives keeps the invariant.
LEMMA DatagramStep ==
  ASSUME IInv, Datagram
  PROVE  IInv'
<1>1. TypeOK'
  BY DEF IInv, TypeOK, Datagram, Others
<1>2. ByProgram'
  BY DEF IInv, ByProgram, Datagram, Others
<1>3. Table' /\ Round'
  BY DEF Table, Round, Datagram, Others
<1>4. Echo'
  BY DEF IInv, Echo, OwnEcho, Datagram, Others
<1>5. QED BY <1>1, <1>2, <1>3, <1>4 DEF IInv

-----------------------------------------------------------------------------
\* The invariant holds in every reachable state of each of the five servers.
THEOREM Invariance == Spec => []IInv
<1>1. Init => IInv
  <2> SUFFICES ASSUME Init PROVE IInv
    OBVIOUS
  <2>1. TypeOK
    BY DEF Init, TypeOK, Conns
  <2>2. ByProgram /\ Table /\ Echo /\ Round
    BY DEF Init, ByProgram, Table, Echo, OwnEcho, Round, Conns
  <2>3. QED BY <2>1, <2>2 DEF IInv
<1>2. IInv /\ [Next]_vars => IInv'
  <2> SUFFICES ASSUME IInv, [Next]_vars PROVE IInv'
    OBVIOUS
  <2>1. CASE Server
    <3>1. CASE prog = "udp"
      BY <2>1, <3>1, SelectStep, AcceptForkStep, RecvfromStep DEF Server, Parent
    <3>2. CASE prog # "udp"
      BY <2>1, <3>2, SelectStep, AcceptSlotStep, ReadStep, My_readStep, ReadlineStep, AtEndStep,
         ReadErrorStep, WritenStep DEF Server, Loop
    <3>3. QED BY <3>1, <3>2
  <2>2. CASE Kids
    BY <2>2, ChildStep DEF Kids
  <2>3. CASE Connect
    BY <2>3, ConnectStep
  <2>4. ASSUME NEW c \in Conns, Send(c) \/ Shutdown(c) \/ Reset(c) \/ TakeEcho(c) PROVE IInv'
    <3>1. CASE Send(c) \/ TakeEcho(c)
      BY <3>1, SendStep, TakeEchoStep
    <3>2. CASE Shutdown(c)
      BY <3>2, PeerStep DEF Shutdown
    <3>3. CASE Reset(c)
      BY <3>3, PeerStep, WithdrawStep DEF Reset
    <3>4. QED BY <2>4, <3>1, <3>2, <3>3
  <2>5. CASE Datagram
    BY <2>5, DatagramStep
  <2>6. CASE UNCHANGED vars
    <3>1. TypeOK' /\ ByProgram' /\ Table'
      BY <2>6 DEF IInv, TypeOK, ByProgram, Table, vars, net
    <3>2. Echo'
      BY <2>6 DEF IInv, Echo, OwnEcho, vars, net
    <3>3. \A d \in InSlots : Readable(d) => Readable(d)'
      BY <2>6 DEF Readable, Unread, vars, net
    <3>4. Round'
      BY <2>6, <3>3, RoundStays DEF IInv, vars, net
    <3>5. QED BY <3>1, <3>2, <3>4 DEF IInv
  <2>7. QED BY <2>1, <2>2, <2>3, <2>4, <2>5, <2>6 DEF Next, Client
<1>3. QED BY <1>1, <1>2, PTL DEF Spec

\* In every one of the servers, for any number of connections and entries: no
\* connection is in two entries of client[] or in none, the loop reaches every
\* entry in use, a client gets its own lines back in order (but for the server
\* with the one buffer of Readline()), and read() is never called where
\* nothing can be read, which would block the server, although an unused entry
\* of poll()'s array may ask for it: except by Readline(), once it has part of a
\* line.
THEOREM LoopRightHolds == Spec => []LoopRight
<1>1. IInv => LoopRight
  <2> SUFFICES ASSUME IInv PROVE LoopRight
    OBVIOUS
  <2>1. SlotTable
    <3> SUFFICES ASSUME prog # "udp", NEW c \in 1..nconn
                 PROVE  LET place == {k \in 1..Slots : slot[k] = c} IN
                        /\ Cardinality(place) <= 1 /\ \A k \in place : k <= maxi
                        /\ pc # "quit" /\ peer[c] # "gone" /\ (\A k \in 1..Len(queue) : queue[k] # c)
                             => place # {}
      BY Zenon DEF SlotTable
    <3> DEFINE place == {k \in 1..Slots : slot[k] = c}
    <3>1. c # 0
      BY DEF IInv, TypeOK
    <3>2. CASE place = {}
      <4>1. Cardinality(place) = 0
        BY <3>2, FS_EmptySet
      <4>2. ~ \E k \in 1..Slots : slot[k] = c
        BY <3>2
      <4>3. QED BY <3>2, <4>1, <4>2 DEF IInv, Table
    <3>3. CASE place # {}
      <4>1. PICK k \in 1..Slots : slot[k] = c
        BY <3>3
      <4>2. place = {k}
        BY <3>1, <4>1 DEF IInv, Table
      <4>3. Cardinality(place) = 1
        BY <4>2, FS_Singleton
      <4>4. k <= maxi
        BY <3>1, <4>1 DEF IInv, Table
      <4>5. QED BY <3>3, <4>2, <4>3, <4>4
    <3>4. QED BY <3>2, <3>3
  <2>2. OwnEcho
    BY DEF IInv, Echo
  <2>3. ReadsReady
    <3> SUFFICES ASSUME pc = "scan", Turn # {}
                 PROVE  Readable(Sockfd) \/ (prog = "select03" /\ read_buf # <<>>)
      BY DEF ReadsReady
    <3>1. prog # "udp"
      BY DEF IInv, ByProgram
    <3>2. PICK Q \in SUBSET rset : InRound(Q)
      BY <3>1 DEF IInv, Round
    <3>3. Sockfd \in Q
      BY <3>1, <3>2, SockfdInRound DEF IInv
    <3>4. QED BY <3>2, <3>3 DEF InRound, IInv, ByProgram
  <2>4. QED BY <2>1, <2>2, <2>3 DEF LoopRight
<1>2. QED BY <1>1, Invariance, PTL
-----------------------------------------------------------------------------
\* The echo clients.
StrTypeOK ==
  /\ cli \in {"stop", "nonb"} \cup C!Parts \cup C!Loops /\ srv \in {"echo", "stdio"}
  /\ typed \in Nat /\ fetched \in Nat /\ ctaken \in Nat /\ sent \in Nat
  /\ got \in Nat /\ echoed \in Nat /\ recvd \in Nat /\ printed \in Nat
  /\ eof \in BOOLEAN /\ cfin \in BOOLEAN /\ sfin \in BOOLEAN /\ sdead \in BOOLEAN
  /\ stdineof \in BOOLEAN /\ done \in BOOLEAN
  /\ to \in [i : Nat, o : Nat] /\ fr \in [i : Nat, o : Nat]
  /\ spc \in {"read", "write", "exit", "end"}
  /\ end \in {"no", "done", "premature", "died"}

\* A line is at no place before the one it comes from.
InOrder ==
  /\ printed <= recvd /\ recvd <= echoed /\ echoed <= got /\ got <= sent
  /\ sent <= ctaken /\ ctaken <= fetched /\ fetched <= typed

\* The FIN of the client comes after all of its input, that of a server that lives
\* after all its answers.
FinIsLast ==
  /\ cfin => eof /\ fetched = typed /\ ctaken = fetched /\ sent = ctaken
  /\ stdineof => eof /\ fetched = typed /\ ctaken = fetched
  /\ spc = "exit" => cfin /\ got = sent
  /\ spc \in {"write", "exit"} => echoed < got
  /\ srv = "echo" /\ spc = "read" => echoed = got
  /\ sfin /\ ~sdead => cfin /\ got = sent /\ echoed = got
  /\ sdead => sfin
  /\ sfin <=> spc = "end"

\* Where each client is, and what it has then done with what it has read.
ClientAt ==
  /\ cli = "stop" =>
       /\ ~cfin /\ fr.i = fr.o /\ wpc \in {"fgets", "write", "read"}
       /\ ctaken = IF wpc = "fgets" THEN printed ELSE printed + 1
       /\ wpc = "read" => sent = ctaken
  /\ cli \in C!Loops =>
       /\ fr.i = fr.o /\ wpc \in {"select", "ready", "write"}
       /\ wpc # "write" => sent = ctaken
       /\ cfin => stdineof
       /\ wpc = "write" => "in" \notin crset
       /\ cli # "poll" /\ wpc = "ready" /\ "in" \in crset => ~stdineof
       /\ cli \notin C!Stdio => ctaken = fetched
  /\ cli = "nonb" =>
       /\ ctaken = fetched /\ to.i = to.o + (ctaken - sent) /\ fr.i = fr.o + (recvd - printed)
       /\ cfin => stdineof
       /\ wpc = "in" /\ "in" \in crset => ~stdineof
  /\ cli \in C!Parts =>
       /\ fr.i = fr.o /\ wpc \in {"fgets", "write", "flag", "off"}
       /\ wpc # "write" => sent = ctaken

StrInv == StrTypeOK /\ InOrder /\ FinIsLast /\ ClientAt /\ C!EndsRight

\* The server's part of the invariant depends on nothing the client's loops do.
LEMMA StrInit ==
  ASSUME C!Init
  PROVE  StrInv
<1>1. StrTypeOK
  BY DEF C!Init, StrTypeOK
<1>2. InOrder /\ FinIsLast /\ C!EndsRight
  BY DEF C!Init, InOrder, FinIsLast, C!EndsRight, C!AllPrinted
<1>3. ClientAt
  BY DEF C!Init, ClientAt, C!Parts, C!Loops, C!Stdio
<1>4. QED BY <1>1, <1>2, <1>3 DEF StrInv

\* What the calls read is there.
LEMMA LineIn ==
  ASSUME StrTypeOK, InOrder, C!FgetsLine
  PROVE  /\ ctaken' = ctaken + 1 /\ ctaken' \in Nat /\ fetched' \in Nat
         /\ fetched <= fetched' /\ ctaken' <= fetched' /\ fetched' <= typed /\ ctaken < typed
<1>1. ctaken \in Nat /\ fetched \in Nat /\ typed \in Nat /\ ctaken <= fetched /\ fetched <= typed
  BY DEF StrTypeOK, InOrder
<1>2. CASE fetched > ctaken /\ UNCHANGED fetched
  BY <1>1, <1>2 DEF C!FgetsLine
<1>3. CASE ~(fetched > ctaken) /\ fetched' \in fetched + 1 .. typed
  BY <1>1, <1>3 DEF C!FgetsLine
<1>4. QED BY <1>2, <1>3 DEF C!FgetsLine

LEMMA LineBack ==
  ASSUME StrTypeOK, InOrder, C!ReadlineLine
  PROVE  /\ printed' = printed + 1 /\ printed' \in Nat /\ recvd' \in Nat
         /\ recvd <= recvd' /\ printed' <= recvd' /\ recvd' <= echoed /\ printed < echoed
<1>1. printed \in Nat /\ recvd \in Nat /\ echoed \in Nat /\ printed <= recvd /\ recvd <= echoed
  BY DEF StrTypeOK, InOrder
<1>2. CASE recvd > printed /\ UNCHANGED recvd
  BY <1>1, <1>2 DEF C!ReadlineLine
<1>3. CASE ~(recvd > printed) /\ recvd' \in recvd + 1 .. echoed
  BY <1>1, <1>3 DEF C!ReadlineLine
<1>4. QED BY <1>2, <1>3 DEF C!ReadlineLine

LEMMA BlockIn ==
  ASSUME StrTypeOK, InOrder, C!ReadInput
  PROVE  /\ ctaken' = fetched' /\ fetched' \in Nat
         /\ fetched < fetched' /\ fetched' <= typed /\ ctaken < fetched'
BY DEF StrTypeOK, InOrder, C!ReadInput

LEMMA BlockBack ==
  ASSUME StrTypeOK, InOrder, C!ReadSocket
  PROVE  /\ printed' = recvd' /\ recvd' \in Nat
         /\ recvd < recvd' /\ recvd' <= echoed /\ printed < recvd'
BY DEF StrTypeOK, InOrder, C!ReadSocket

LEMMA LineOut ==
  ASSUME StrTypeOK, InOrder, NEW l, C!Writen(l)
  PROVE  \/ /\ sent < ctaken /\ sent' = sent + 1 /\ sent' \in Nat /\ end' = end
            /\ wpc' = IF sent' = ctaken THEN l ELSE wpc
         \/ sdead /\ end' = "died" /\ sent' = sent /\ wpc' = wpc
BY DEF StrTypeOK, InOrder, C!Writen

LEMMA StopKeeps ==
  ASSUME StrInv, C!StopAndWait, end = "no"
  PROVE  StrInv'
<1>0. /\ StrTypeOK /\ InOrder /\ FinIsLast /\ ClientAt /\ C!EndsRight /\ cli = "stop" /\ cli \notin C!Loops /\ cli \notin C!Parts
      /\ UNCHANGED <<cli, srv, typed, eof, got, echoed, sfin, sdead, spc, done, cfin, rpc, stdineof, crset, to, fr>>
  BY DEF C!StopAndWait, StrInv, C!Loops, C!Parts, C!Quiet, C!term, C!server, C!bufs
<1>1. CASE wpc = "fgets" /\ C!FgetsLine /\ wpc' = "write" /\ UNCHANGED <<sent, recvd, printed, end>>
  <2>0. /\ ctaken' = ctaken + 1 /\ ctaken' \in Nat /\ fetched' \in Nat
        /\ fetched <= fetched' /\ ctaken' <= fetched' /\ fetched' <= typed /\ ctaken < typed
    BY <1>0, <1>1, LineIn
  <2>1. StrTypeOK'
    BY <1>0, <1>1, <2>0 DEF StrTypeOK
  <2>2. InOrder' /\ FinIsLast'
    BY <1>0, <1>1, <2>0 DEF StrTypeOK, InOrder, FinIsLast
  <2>3. ClientAt' /\ C!EndsRight'
    BY <1>0, <1>1, <2>0 DEF StrTypeOK, InOrder, FinIsLast, ClientAt, C!EndsRight, C!AllPrinted
  <2>4. QED BY <2>1, <2>2, <2>3 DEF StrInv
<1>2. CASE wpc = "fgets" /\ C!FgetsNull /\ end' = "done" /\ UNCHANGED <<fetched, ctaken, sent, recvd, printed, wpc>>
  <2>1. StrTypeOK'
    BY <1>0, <1>2 DEF StrTypeOK, C!FgetsNull
  <2>2. InOrder' /\ FinIsLast'
    BY <1>0, <1>2 DEF StrTypeOK, InOrder, FinIsLast, C!FgetsNull
  <2>3. ClientAt' /\ C!EndsRight'
    BY <1>0, <1>2 DEF StrTypeOK, InOrder, FinIsLast, ClientAt, C!EndsRight, C!AllPrinted, C!FgetsNull
  <2>4. QED BY <2>1, <2>2, <2>3 DEF StrInv
<1>3. CASE wpc = "write" /\ C!Writen("read") /\ UNCHANGED <<fetched, ctaken, recvd, printed>>
  <2>0. \/ /\ sent < ctaken /\ sent' = sent + 1 /\ sent' \in Nat /\ end' = end
           /\ wpc' = IF sent' = ctaken THEN "read" ELSE wpc
        \/ sdead /\ end' = "died" /\ sent' = sent /\ wpc' = wpc
    BY <1>0, <1>3, LineOut
  <2>1. StrTypeOK'
    BY <1>0, <1>3, <2>0 DEF StrTypeOK
  <2>2. InOrder' /\ FinIsLast'
    BY <1>0, <1>3, <2>0 DEF StrTypeOK, InOrder, FinIsLast
  <2>3. ClientAt' /\ C!EndsRight'
    BY <1>0, <1>3, <2>0 DEF StrTypeOK, InOrder, FinIsLast, ClientAt, C!EndsRight, C!AllPrinted
  <2>4. QED BY <2>1, <2>2, <2>3 DEF StrInv
<1>4. CASE wpc = "read" /\ C!ReadlineLine /\ wpc' = "fgets" /\ UNCHANGED <<fetched, ctaken, sent, end>>
  <2>0. /\ printed' = printed + 1 /\ printed' \in Nat /\ recvd' \in Nat
        /\ recvd <= recvd' /\ printed' <= recvd' /\ recvd' <= echoed /\ printed < echoed
    BY <1>0, <1>4, LineBack
  <2>1. StrTypeOK'
    BY <1>0, <1>4, <2>0 DEF StrTypeOK
  <2>2. InOrder' /\ FinIsLast'
    BY <1>0, <1>4, <2>0 DEF StrTypeOK, InOrder, FinIsLast
  <2>3. ClientAt' /\ C!EndsRight'
    BY <1>0, <1>4, <2>0 DEF StrTypeOK, InOrder, FinIsLast, ClientAt, C!EndsRight, C!AllPrinted
  <2>4. QED BY <2>1, <2>2, <2>3 DEF StrInv
<1>5. CASE wpc = "read" /\ ((C!ReadlineZero /\ end' = "premature") \/ C!Broken) /\ UNCHANGED <<fetched, ctaken, sent, recvd, printed, wpc>>
  <2>1. StrTypeOK'
    BY <1>0, <1>5 DEF StrTypeOK, C!ReadlineZero, C!Broken
  <2>2. InOrder' /\ FinIsLast'
    BY <1>0, <1>5 DEF StrTypeOK, InOrder, FinIsLast, C!ReadlineZero, C!Broken
  <2>3. ClientAt' /\ C!EndsRight'
    BY <1>0, <1>5 DEF StrTypeOK, InOrder, FinIsLast, ClientAt, C!EndsRight, C!AllPrinted, C!ReadlineZero, C!Broken
  <2>4. QED BY <2>1, <2>2, <2>3 DEF StrInv
<1>6. QED BY <1>1, <1>2, <1>3, <1>4, <1>5 DEF C!StopAndWait, C!input, C!output

\* The loops around select(), /dev/poll and kqueue().
LEMMA LoopKeeps ==
  ASSUME StrInv, C!Loop, end = "no"
  PROVE  StrInv'
<1>0. /\ StrTypeOK /\ InOrder /\ FinIsLast /\ ClientAt /\ C!EndsRight /\ cli \in C!Loops /\ cli \notin C!Parts /\ cli \notin {"stop", "nonb"}
      /\ UNCHANGED <<cli, srv, typed, eof, got, echoed, sfin, sdead, spc, done, rpc, to, fr>> /\ end = "no"
  BY DEF C!Loop, StrInv, C!Loops, C!Parts, C!Quiet, C!term, C!server, C!bufs
<1>1. CASE C!Select
  <2>0. /\ wpc = "select" /\ wpc' = "ready" /\ ("in" \in crset' /\ cli # "poll" => ~stdineof)
        /\ UNCHANGED <<fetched, ctaken, sent, cfin, recvd, printed, stdineof, end>>
    BY <1>0, <1>1 DEF C!Select, C!Asked, C!input, C!output
  <2>1. StrTypeOK'
    BY <1>0, <1>1, <2>0 DEF StrTypeOK
  <2>2. InOrder' /\ FinIsLast'
    BY <1>0, <1>1, <2>0 DEF StrTypeOK, InOrder, FinIsLast
  <2>3. ClientAt' /\ C!EndsRight'
    BY <1>0, <1>1, <2>0 DEF StrTypeOK, InOrder, FinIsLast, ClientAt, C!EndsRight, C!AllPrinted
  <2>4. QED BY <2>1, <2>2, <2>3 DEF StrInv
<1>2. CASE /\ C!Turn("sock") /\ (IF cli \in C!Stdio THEN C!ReadlineLine ELSE C!ReadSocket)
          /\ wpc' = C!Back /\ UNCHANGED <<end, fetched, ctaken, sent, cfin, stdineof>>
  <2>0. /\ wpc = "ready" /\ ("in" \in crset' => "in" \in crset) /\ wpc' \in {"select", "ready"}
        /\ printed' \in Nat /\ recvd' \in Nat /\ recvd <= recvd' /\ printed' <= recvd' /\ recvd' <= echoed /\ printed < echoed
        /\ UNCHANGED <<end, fetched, ctaken, sent, cfin, stdineof>>
    BY <1>0, <1>2, LineBack, BlockBack DEF C!Turn, C!Back, StrTypeOK
  <2>1. StrTypeOK'
    BY <1>0, <2>0 DEF StrTypeOK
  <2>2. InOrder' /\ FinIsLast'
    BY <1>0, <2>0 DEF StrTypeOK, InOrder, FinIsLast
  <2>3. ClientAt' /\ C!EndsRight'
    BY <1>0, <2>0 DEF StrTypeOK, InOrder, FinIsLast, ClientAt, C!EndsRight, C!AllPrinted
  <2>4. QED BY <2>1, <2>2, <2>3 DEF StrInv
<1>3. CASE /\ C!Turn("sock") /\ C!ReadlineZero /\ end' = (IF stdineof THEN "done" ELSE "premature")
          /\ UNCHANGED <<recvd, printed, wpc, fetched, ctaken, sent, cfin, stdineof>>
  <2>1. StrTypeOK'
    BY <1>0, <1>3 DEF StrTypeOK, C!ReadlineZero, C!Turn
  <2>2. InOrder' /\ FinIsLast'
    BY <1>0, <1>3 DEF StrTypeOK, InOrder, FinIsLast, C!ReadlineZero, C!Turn
  <2>3. ClientAt' /\ C!EndsRight'
    BY <1>0, <1>3 DEF StrTypeOK, InOrder, FinIsLast, ClientAt, C!EndsRight, C!AllPrinted, C!ReadlineZero, C!Turn
  <2>4. QED BY <2>1, <2>2, <2>3 DEF StrInv
<1>4. CASE C!Turn("sock") /\ C!Broken /\ UNCHANGED <<recvd, printed, wpc, fetched, ctaken, sent, cfin, stdineof>>
  <2>1. StrTypeOK'
    BY <1>0, <1>4 DEF StrTypeOK, C!Broken, C!Turn
  <2>2. InOrder' /\ FinIsLast'
    BY <1>0, <1>4 DEF StrTypeOK, InOrder, FinIsLast, C!Broken, C!Turn
  <2>3. ClientAt' /\ C!EndsRight'
    BY <1>0, <1>4 DEF StrTypeOK, InOrder, FinIsLast, ClientAt, C!EndsRight, C!AllPrinted, C!Broken, C!Turn
  <2>4. QED BY <2>1, <2>2, <2>3 DEF StrInv
<1>5. CASE /\ C!Turn("in") /\ (IF cli \in C!Stdio THEN C!FgetsLine ELSE C!ReadInput)
          /\ wpc' = "write" /\ UNCHANGED <<stdineof, cfin, end, sent, recvd, printed>>
  <2>0. /\ wpc = "ready" /\ crset' = crset \ {"in"}
        /\ ctaken' \in Nat /\ fetched' \in Nat /\ fetched <= fetched' /\ ctaken' <= fetched' /\ fetched' <= typed
        /\ ctaken < ctaken' /\ ctaken < typed /\ (cli \notin C!Stdio => ctaken' = fetched')
        /\ UNCHANGED <<stdineof, cfin, end, sent, recvd, printed>>
    BY <1>0, <1>5, LineIn, BlockIn DEF C!Turn, StrTypeOK, InOrder
  <2>1. StrTypeOK'
    BY <1>0, <1>5, <2>0 DEF StrTypeOK
  <2>2. InOrder' /\ FinIsLast'
    BY <1>0, <1>5, <2>0 DEF StrTypeOK, InOrder, FinIsLast
  <2>3. ClientAt' /\ C!EndsRight'
    BY <1>0, <1>5, <2>0 DEF StrTypeOK, InOrder, FinIsLast, ClientAt, C!EndsRight, C!AllPrinted
  <2>4. QED BY <2>1, <2>2, <2>3 DEF StrInv
<1>6. CASE C!Turn("in") /\ C!AtEof /\ UNCHANGED <<sent, recvd, printed>>
  <2>0. /\ wpc = "ready" /\ "in" \in crset /\ crset' = crset \ {"in"} /\ eof /\ fetched = ctaken /\ typed = fetched
        /\ UNCHANGED <<fetched, ctaken, sent, recvd, printed>>
        /\ \/ cli = "sel1" /\ end' = "done" /\ UNCHANGED <<stdineof, cfin, wpc>>
           \/ stdineof' = TRUE /\ cfin' = TRUE /\ wpc' \in {"select", "ready"} /\ end' = IF stdineof /\ sfin THEN "died" ELSE end
    BY <1>0, <1>6 DEF C!Turn, C!AtEof, C!FgetsNull, C!Back, C!input
  <2>a. sent = ctaken
    BY <1>0, <2>0 DEF ClientAt
  <2>1. StrTypeOK'
    BY <1>0, <1>6, <2>0, <2>a DEF StrTypeOK
  <2>2. InOrder' /\ FinIsLast'
    BY <1>0, <1>6, <2>0, <2>a DEF StrTypeOK, InOrder, FinIsLast
  <2>3. ClientAt' /\ C!EndsRight'
    BY <1>0, <1>6, <2>0, <2>a DEF StrTypeOK, InOrder, FinIsLast, ClientAt, C!EndsRight, C!AllPrinted
  <2>4. QED BY <2>1, <2>2, <2>3 DEF StrInv
<1>7. CASE C!LoopWrite
  <2>0. /\ wpc = "write" /\ C!Writen(IF crset = {} THEN "select" ELSE "ready") /\ UNCHANGED <<fetched, ctaken, recvd, printed, crset>>
        /\ \/ UNCHANGED <<stdineof, cfin>>
           \/ /\ cli = "kqueue" /\ wpc' # "write" /\ end' = "no" /\ eof /\ fetched = typed
              /\ stdineof' = TRUE /\ cfin' = TRUE
    BY <1>7 DEF C!LoopWrite, C!input, C!output
  <2>a. \/ /\ sent < ctaken /\ sent' = sent + 1 /\ sent' \in Nat /\ end' = end
           /\ wpc' = IF sent' = ctaken THEN (IF crset = {} THEN "select" ELSE "ready") ELSE wpc
        \/ sdead /\ end' = "died" /\ sent' = sent /\ wpc' = wpc
    BY <1>0, <2>0, LineOut
  <2>b. cli = "kqueue" => ctaken = fetched
    BY <1>0 DEF ClientAt, C!Stdio
  <2>1. StrTypeOK'
    BY <1>0, <2>0, <2>a, <2>b DEF StrTypeOK
  <2>2. InOrder' /\ FinIsLast'
    BY <1>0, <2>0, <2>a, <2>b DEF StrTypeOK, InOrder, FinIsLast
  <2>3. ClientAt' /\ C!EndsRight'
    BY <1>0, <2>0, <2>a, <2>b DEF StrTypeOK, InOrder, FinIsLast, ClientAt, C!EndsRight, C!AllPrinted
  <2>4. QED BY <2>1, <2>2, <2>3 DEF StrInv
<1>8. QED BY <1>1, <1>2, <1>3, <1>4, <1>5, <1>6, <1>7 DEF C!Loop, C!SocketTurn, C!InputTurn, C!input, C!output

\* The nonblocking client.
LEMMA NonbKeeps ==
  ASSUME StrInv, C!Nonb, end = "no"
  PROVE  StrInv'
<1>0. /\ StrTypeOK /\ InOrder /\ FinIsLast /\ ClientAt /\ C!EndsRight /\ cli = "nonb" /\ cli \notin C!Parts /\ cli \notin C!Loops /\ end = "no"
      /\ UNCHANGED <<cli, srv, typed, eof, got, echoed, sfin, sdead, spc, done, rpc>>
  BY DEF C!Nonb, StrInv, C!Loops, C!Parts, C!Quiet, C!term, C!server
<1>b. /\ ctaken = fetched /\ to.i = to.o + (ctaken - sent) /\ fr.i = fr.o + (recvd - printed)
      /\ to.i \in Nat /\ to.o \in Nat /\ fr.i \in Nat /\ fr.o \in Nat /\ to = [i |-> to.i, o |-> to.o] /\ fr = [i |-> fr.i, o |-> fr.o]
      /\ cfin => stdineof /\ sent = ctaken
  BY <1>0 DEF StrTypeOK, ClientAt, FinIsLast
<1>1. CASE C!NonbSelect
  <2>0. /\ wpc' = "in" /\ ("in" \in crset' => ~stdineof)
        /\ UNCHANGED <<fetched, ctaken, sent, cfin, recvd, printed, stdineof, to, fr, end>>
    BY <1>1 DEF C!NonbSelect, C!input, C!output, C!bufs
  <2>1. StrTypeOK'
    BY <1>0, <2>0 DEF StrTypeOK
  <2>2. InOrder' /\ FinIsLast'
    BY <1>0, <2>0 DEF StrTypeOK, InOrder, FinIsLast
  <2>3. ClientAt' /\ C!EndsRight'
    BY <1>0, <2>0 DEF StrTypeOK, InOrder, FinIsLast, ClientAt, C!EndsRight, C!AllPrinted
  <2>4. QED BY <2>1, <2>2, <2>3 DEF StrInv
<1>2. CASE C!NonbIn
  <2>0. wpc = "in" /\ wpc' = "sock" /\ UNCHANGED <<sent, recvd, printed, fr, end>>
    BY <1>2 DEF C!NonbIn, C!output
  <2>a. CASE "in" \in crset /\ C!ReadInput /\ to' = [to EXCEPT !.i = @ + (fetched' - fetched)] /\ UNCHANGED <<stdineof, cfin>>
    <3>1. /\ ctaken' = fetched' /\ fetched' \in Nat /\ fetched < fetched' /\ fetched' <= typed /\ ctaken < fetched'
          /\ to' = [i |-> to.i + (fetched' - fetched), o |-> to.o] /\ to.i + (fetched' - fetched) \in Nat
      BY <1>0, <1>b, <2>a, BlockIn DEF StrTypeOK
    <3>2. to' \in [i : Nat, o : Nat] /\ to'.i = to'.o + (ctaken' - sent)
      BY <1>0, <1>b, <3>1 DEF StrTypeOK
    <3>3. StrTypeOK'
      BY <1>0, <2>0, <2>a, <3>1, <3>2 DEF StrTypeOK
    <3>4. InOrder' /\ FinIsLast'
      BY <1>0, <2>0, <2>a, <3>1 DEF StrTypeOK, InOrder, FinIsLast
    <3>5. ClientAt' /\ C!EndsRight'
      BY <1>0, <1>b, <2>0, <2>a, <3>1, <3>2 DEF ClientAt, C!EndsRight, C!AllPrinted
    <3>6. QED BY <3>3, <3>4, <3>5 DEF StrInv
  <2>b. CASE "in" \in crset /\ C!FgetsNull /\ stdineof' = TRUE /\ cfin' = (to.i = to.o) /\ UNCHANGED <<fetched, ctaken, to>>
    <3>1. eof /\ fetched = ctaken /\ typed = fetched /\ cfin' \in BOOLEAN /\ (cfin' => sent = ctaken) /\ (cfin => cfin')
      BY <1>0, <1>b, <2>b DEF C!FgetsNull, StrTypeOK
    <3>3. StrTypeOK'
      BY <1>0, <2>0, <2>b, <3>1 DEF StrTypeOK
    <3>4. InOrder' /\ FinIsLast'
      BY <1>0, <2>0, <2>b, <3>1 DEF StrTypeOK, InOrder, FinIsLast
    <3>5. ClientAt' /\ C!EndsRight'
      BY <1>0, <1>b, <2>0, <2>b, <3>1 DEF ClientAt, C!EndsRight, C!AllPrinted
    <3>6. QED BY <3>3, <3>4, <3>5 DEF StrInv
  <2>c. CASE UNCHANGED <<fetched, ctaken, to, crset, stdineof, cfin>>
    <3>3. StrTypeOK'
      BY <1>0, <2>0, <2>c DEF StrTypeOK
    <3>4. InOrder' /\ FinIsLast'
      BY <1>0, <2>0, <2>c DEF InOrder, FinIsLast
    <3>5. ClientAt' /\ C!EndsRight'
      BY <1>0, <2>0, <2>c DEF ClientAt, C!EndsRight, C!AllPrinted
    <3>6. QED BY <3>3, <3>4, <3>5 DEF StrInv
  <2>d. QED BY <1>2, <2>a, <2>b, <2>c DEF C!NonbIn, C!input
<1>3. CASE C!NonbSock
  <2>0. wpc' = "out" /\ UNCHANGED <<fetched, ctaken, sent, cfin, printed, stdineof, to>>
    BY <1>3 DEF C!NonbSock, C!input
  <2>a. CASE /\ recvd' \in recvd+1 .. C!Least(echoed, recvd + Buf - fr.i)
             /\ fr' = [fr EXCEPT !.i = @ + (recvd' - recvd)] /\ UNCHANGED end
    <3>0. C!Least(echoed, recvd + Buf - fr.i) <= echoed /\ C!Least(echoed, recvd + Buf - fr.i) \in Int
      BY <1>0, <1>b, StreamsAssumption DEF C!Least, StrTypeOK
    <3>1. /\ recvd' \in Nat /\ recvd < recvd' /\ recvd' <= echoed
          /\ fr' = [i |-> fr.i + (recvd' - recvd), o |-> fr.o] /\ fr.i + (recvd' - recvd) \in Nat
      BY <1>0, <1>b, <2>a, <3>0 DEF StrTypeOK
    <3>2. fr' \in [i : Nat, o : Nat] /\ fr'.i = fr'.o + (recvd' - printed)
      BY <1>0, <1>b, <3>1 DEF StrTypeOK
    <3>3. StrTypeOK'
      BY <1>0, <2>0, <2>a, <3>1, <3>2 DEF StrTypeOK
    <3>4. InOrder' /\ FinIsLast'
      BY <1>0, <2>0, <3>1 DEF StrTypeOK, InOrder, FinIsLast
    <3>5. ClientAt' /\ C!EndsRight'
      BY <1>0, <1>b, <2>0, <2>a, <3>1, <3>2 DEF ClientAt, C!EndsRight, C!AllPrinted
    <3>6. QED BY <3>3, <3>4, <3>5 DEF StrInv
  <2>b. CASE /\ sfin /\ echoed = recvd /\ end' = (IF stdineof THEN "done" ELSE "premature")
             /\ UNCHANGED <<recvd, fr>>
    <3>3. StrTypeOK'
      BY <1>0, <2>0, <2>b DEF StrTypeOK
    <3>4. InOrder' /\ FinIsLast'
      BY <1>0, <2>0, <2>b DEF InOrder, FinIsLast
    <3>5. ~sdead => eof /\ stdineof /\ recvd = typed
      BY <1>0, <1>b, <2>b DEF FinIsLast
    <3>6. printed + (fr.i - fr.o) = recvd
      BY <1>0, <1>b DEF StrTypeOK
    <3>7. ClientAt' /\ C!EndsRight'
      BY <1>0, <2>0, <2>b, <3>5, <3>6 DEF ClientAt, C!EndsRight, C!AllPrinted
    <3>8. QED BY <3>3, <3>4, <3>7 DEF StrInv
  <2>c. CASE (C!Broken \/ UNCHANGED end) /\ UNCHANGED <<recvd, fr>>
    <3>3. StrTypeOK'
      BY <1>0, <2>0, <2>c DEF StrTypeOK, C!Broken
    <3>4. InOrder' /\ FinIsLast'
      BY <1>0, <2>0, <2>c DEF InOrder, FinIsLast
    <3>5. ClientAt' /\ C!EndsRight'
      BY <1>0, <2>0, <2>c DEF ClientAt, C!EndsRight, C!AllPrinted, C!Broken
    <3>6. QED BY <3>3, <3>4, <3>5 DEF StrInv
  <2>d. QED BY <1>3, <2>a, <2>b, <2>c DEF C!NonbSock
<1>4. CASE C!NonbOut
  <2>0. wpc' = "up" /\ UNCHANGED <<fetched, ctaken, sent, cfin, recvd, stdineof, to, end>>
    BY <1>4 DEF C!NonbOut, C!input
  <2>1. /\ printed' \in Nat /\ printed <= printed' /\ printed' <= recvd
        /\ fr' \in [i : Nat, o : Nat] /\ fr'.i = fr'.o + (recvd - printed')
    <3>1. CASE UNCHANGED <<printed, fr>>
      BY <1>0, <1>b, <3>1 DEF StrTypeOK, InOrder
    <3>2. ASSUME NEW k \in 1 .. fr.i - fr.o, printed' = printed + k,
                 fr' = IF fr.o + k = fr.i THEN [i |-> 0, o |-> 0] ELSE [fr EXCEPT !.o = @ + k]
          PROVE  /\ printed' \in Nat /\ printed <= printed' /\ printed' <= recvd
                 /\ fr' \in [i : Nat, o : Nat] /\ fr'.i = fr'.o + (recvd - printed')
      <4>1. k \in Nat /\ k <= fr.i - fr.o /\ printed \in Nat /\ recvd \in Nat /\ fr.i - fr.o = recvd - printed
        BY <1>0, <1>b DEF StrTypeOK
      <4>2. printed' \in Nat /\ printed <= printed' /\ printed' <= recvd
        BY <3>2, <4>1
      <4>3. CASE fr.o + k = fr.i
        BY <1>b, <3>2, <4>1, <4>2, <4>3
      <4>4. CASE fr.o + k # fr.i
        <5>1. fr' = [i |-> fr.i, o |-> fr.o + k] /\ fr.o + k \in Nat
          BY <1>b, <3>2, <4>1, <4>4
        <5>2. QED BY <1>b, <3>2, <4>1, <4>2, <5>1
      <4>5. QED BY <4>3, <4>4
    <3>3. QED BY <1>4, <3>1, <3>2 DEF C!NonbOut
  <2>2. StrTypeOK'
    BY <1>0, <2>0, <2>1 DEF StrTypeOK
  <2>3. InOrder' /\ FinIsLast'
    BY <1>0, <2>0, <2>1 DEF StrTypeOK, InOrder, FinIsLast
  <2>4. ClientAt' /\ C!EndsRight'
    BY <1>0, <1>b, <2>0, <2>1 DEF ClientAt, C!EndsRight, C!AllPrinted
  <2>5. QED BY <2>2, <2>3, <2>4 DEF StrInv
<1>5. CASE C!NonbUp
  <2>0. wpc' = "select" /\ UNCHANGED <<fetched, ctaken, recvd, printed, stdineof, fr>>
    BY <1>5 DEF C!NonbUp, C!input, C!output
  <2>1. /\ sent' \in Nat /\ sent <= sent' /\ sent' <= ctaken
        /\ to' \in [i : Nat, o : Nat] /\ to'.i = to'.o + (ctaken - sent')
        /\ cfin' \in BOOLEAN /\ (cfin => cfin' /\ sent' = sent) /\ (cfin' => stdineof /\ sent' = ctaken)
        /\ end' = "no" \/ (sdead /\ end' = "died")
        /\ sdead => sent' = sent
    <3>1. CASE UNCHANGED <<sent, to, cfin>> /\ (end' = end \/ C!Broken)
      BY <1>0, <1>b, <3>1 DEF StrTypeOK, InOrder, C!Broken
    <3>2. ASSUME ~sdead, to.i > to.o, end' = end, NEW k \in 1 .. C!Least(to.i - to.o, UpCap - (sent - got)), sent' = sent + k,
                 to' = IF to.o + k = to.i THEN [i |-> 0, o |-> 0] ELSE [to EXCEPT !.o = @ + k],
                 cfin' = (cfin \/ (to.o + k = to.i /\ stdineof))
          PROVE  /\ sent' \in Nat /\ sent <= sent' /\ sent' <= ctaken
                 /\ to' \in [i : Nat, o : Nat] /\ to'.i = to'.o + (ctaken - sent')
                 /\ cfin' \in BOOLEAN /\ (cfin => cfin' /\ sent' = sent) /\ (cfin' => stdineof /\ sent' = ctaken)
      <4>0. C!Least(to.i - to.o, UpCap - (sent - got)) <= to.i - to.o /\ C!Least(to.i - to.o, UpCap - (sent - got)) \in Int
        BY <1>0, <1>b, StreamsAssumption DEF C!Least, StrTypeOK
      <4>1. k \in Nat /\ k <= to.i - to.o /\ sent \in Nat /\ ctaken \in Nat /\ to.i - to.o = ctaken - sent
        BY <1>0, <1>b, <4>0 DEF StrTypeOK
      <4>2. sent' \in Nat /\ sent <= sent' /\ sent' <= ctaken
        BY <3>2, <4>1
      <4>a. ~cfin
        BY <1>b, <3>2, <4>1
      <4>c. cfin' \in BOOLEAN /\ (cfin' => stdineof /\ to.o + k = to.i)
        BY <3>2, <4>a
      <4>d. to.o + k = to.i => sent' = ctaken
        BY <1>b, <3>2, <4>1
      <4>b. cfin' \in BOOLEAN /\ (cfin' => stdineof /\ sent' = ctaken)
        BY <4>c, <4>d
      <4>3. CASE to.o + k = to.i
        BY <1>b, <3>2, <4>1, <4>2, <4>3, <4>a, <4>b
      <4>4. CASE to.o + k # to.i
        <5>1. to' = [i |-> to.i, o |-> to.o + k] /\ to.o + k \in Nat
          BY <1>b, <3>2, <4>1, <4>4
        <5>2. QED BY <1>b, <3>2, <4>1, <4>2, <4>a, <4>b, <5>1
      <4>5. QED BY <4>3, <4>4
    <3>3. CASE "up" \in crset /\ to.i > to.o /\ (sdead \/ sent - got < UpCap)
      <4>1. CASE sdead
        BY <1>5, <3>1, <3>3, <4>1 DEF C!NonbUp
      <4>2. CASE ~sdead
        <5>1. PICK k \in 1 .. C!Least(to.i - to.o, UpCap - (sent - got)) :
                 /\ sent' = sent + k
                 /\ to' = IF to.o + k = to.i THEN [i |-> 0, o |-> 0] ELSE [to EXCEPT !.o = @ + k]
                 /\ cfin' = (cfin \/ (to.o + k = to.i /\ stdineof))
                 /\ UNCHANGED end
          BY <1>5, <3>3, <4>2 DEF C!NonbUp
        <5>2. QED BY <1>0, <3>2, <3>3, <4>2, <5>1
      <4>3. QED BY <4>1, <4>2
    <3>4. QED BY <1>5, <3>1, <3>3 DEF C!NonbUp
  <2>2. StrTypeOK'
    BY <1>0, <2>0, <2>1 DEF StrTypeOK
  <2>3. InOrder' /\ FinIsLast'
    BY <1>0, <2>0, <2>1 DEF StrTypeOK, InOrder, FinIsLast
  <2>4. ClientAt' /\ C!EndsRight'
    BY <1>0, <1>b, <2>0, <2>1 DEF ClientAt, C!EndsRight, C!AllPrinted
  <2>5. QED BY <2>2, <2>3, <2>4 DEF StrInv
<1>6. QED BY <1>1, <1>2, <1>3, <1>4, <1>5 DEF C!Nonb

\* The clients of two parts: the one that writes,
LEMMA CopytoKeeps ==
  ASSUME StrInv, C!Copyto, end = "no"
  PROVE  StrInv'
<1>0. /\ StrTypeOK /\ InOrder /\ FinIsLast /\ ClientAt /\ C!EndsRight /\ cli \in C!Parts /\ cli \notin C!Loops /\ cli \notin {"stop", "nonb"}
      /\ UNCHANGED <<cli, srv, typed, eof, got, echoed, sfin, sdead, spc, recvd, printed, rpc, stdineof, crset, to, fr>> /\ end = "no"
  BY DEF C!Copyto, StrInv, C!Loops, C!Parts, C!Quiet, C!term, C!server, C!output, C!bufs
<1>1. CASE wpc = "fgets" /\ C!FgetsLine /\ wpc' = "write" /\ UNCHANGED <<sent, cfin, done, end>>
  <2>0. /\ ctaken' = ctaken + 1 /\ ctaken' \in Nat /\ fetched' \in Nat
        /\ fetched <= fetched' /\ ctaken' <= fetched' /\ fetched' <= typed /\ ctaken < typed
    BY <1>0, <1>1, LineIn
  <2>1. StrTypeOK'
    BY <1>0, <1>1, <2>0 DEF StrTypeOK
  <2>2. InOrder' /\ FinIsLast'
    BY <1>0, <1>1, <2>0 DEF StrTypeOK, InOrder, FinIsLast
  <2>3. ClientAt' /\ C!EndsRight'
    BY <1>0, <1>1, <2>0 DEF StrTypeOK, InOrder, FinIsLast, ClientAt, C!EndsRight, C!AllPrinted
  <2>4. QED BY <2>1, <2>2, <2>3 DEF StrInv
<1>2. CASE wpc = "fgets" /\ C!FgetsNull /\ cfin' = TRUE /\ wpc' = "flag" /\ UNCHANGED <<fetched, ctaken, sent, done, end>>
  <2>0. eof /\ fetched = ctaken /\ typed = fetched /\ sent = ctaken
    BY <1>0, <1>2 DEF C!FgetsNull, ClientAt
  <2>1. StrTypeOK'
    BY <1>0, <1>2, <2>0 DEF StrTypeOK
  <2>2. InOrder' /\ FinIsLast'
    BY <1>0, <1>2, <2>0 DEF StrTypeOK, InOrder, FinIsLast
  <2>3. ClientAt' /\ C!EndsRight'
    BY <1>0, <1>2, <2>0 DEF StrTypeOK, InOrder, FinIsLast, ClientAt, C!EndsRight, C!AllPrinted
  <2>4. QED BY <2>1, <2>2, <2>3 DEF StrInv
<1>3. CASE wpc = "write" /\ C!Writen("fgets") /\ UNCHANGED <<fetched, ctaken, cfin, done>>
  <2>0. \/ /\ sent < ctaken /\ sent' = sent + 1 /\ sent' \in Nat /\ end' = end
           /\ wpc' = IF sent' = ctaken THEN "fgets" ELSE wpc
        \/ sdead /\ end' = "died" /\ sent' = sent /\ wpc' = wpc
    BY <1>0, <1>3, LineOut
  <2>1. StrTypeOK'
    BY <1>0, <1>3, <2>0 DEF StrTypeOK
  <2>2. InOrder' /\ FinIsLast'
    BY <1>0, <1>3, <2>0 DEF StrTypeOK, InOrder, FinIsLast
  <2>3. ClientAt' /\ C!EndsRight'
    BY <1>0, <1>3, <2>0 DEF StrTypeOK, InOrder, FinIsLast, ClientAt, C!EndsRight, C!AllPrinted
  <2>4. QED BY <2>1, <2>2, <2>3 DEF StrInv
<1>4. CASE wpc = "flag" /\ done' = TRUE /\ wpc' = "off" /\ UNCHANGED <<fetched, ctaken, sent, cfin, end>>
  <2>1. StrTypeOK'
    BY <1>0, <1>4 DEF StrTypeOK
  <2>2. InOrder' /\ FinIsLast'
    BY <1>0, <1>4 DEF StrTypeOK, InOrder, FinIsLast
  <2>3. ClientAt' /\ C!EndsRight'
    BY <1>0, <1>4 DEF StrTypeOK, InOrder, FinIsLast, ClientAt, C!EndsRight, C!AllPrinted
  <2>4. QED BY <2>1, <2>2, <2>3 DEF StrInv
<1>5. QED BY <1>1, <1>2, <1>3, <1>4 DEF C!Copyto, C!input

\* and the one that reads, which may outlive the other.
LEMMA ReaderKeeps ==
  ASSUME StrInv, C!Reader
  PROVE  StrInv'
<1>0. /\ StrTypeOK /\ InOrder /\ FinIsLast /\ ClientAt /\ C!EndsRight /\ cli \in C!Parts /\ cli \notin C!Loops /\ cli \notin {"stop", "nonb"}
      /\ UNCHANGED <<cli, srv, typed, eof, got, echoed, sfin, sdead, spc, done, fetched, ctaken, sent, cfin, wpc, stdineof, crset, to, fr>>
  BY DEF C!Reader, StrInv, C!Loops, C!Parts, C!Quiet, C!term, C!server, C!input, C!bufs
<1>1. CASE C!ReadlineLine /\ UNCHANGED <<rpc, end>>
  <2>0. /\ printed' = printed + 1 /\ printed' \in Nat /\ recvd' \in Nat
        /\ recvd <= recvd' /\ printed' <= recvd' /\ recvd' <= echoed /\ printed < echoed
    BY <1>0, <1>1, LineBack
  <2>1. StrTypeOK'
    BY <1>0, <1>1, <2>0 DEF StrTypeOK
  <2>2. InOrder' /\ FinIsLast'
    BY <1>0, <1>1, <2>0 DEF StrTypeOK, InOrder, FinIsLast
  <2>3. ClientAt' /\ C!EndsRight'
    BY <1>0, <1>1, <2>0 DEF StrTypeOK, InOrder, FinIsLast, ClientAt, C!EndsRight, C!AllPrinted
  <2>4. QED BY <2>1, <2>2, <2>3 DEF StrInv
<1>2. CASE /\ C!ReadlineZero \/ sdead
          /\ end' = (IF cli = "thread2" /\ ~done THEN "premature" ELSE "done")
          /\ UNCHANGED <<recvd, printed>>
  <2>0. ~sdead => eof /\ printed = typed
    BY <1>0, <1>2 DEF C!ReadlineZero, FinIsLast
  <2>1. StrTypeOK'
    BY <1>0, <1>2, <2>0 DEF StrTypeOK
  <2>2. InOrder' /\ FinIsLast'
    BY <1>0, <1>2, <2>0 DEF StrTypeOK, InOrder, FinIsLast
  <2>5. fr.i - fr.o = 0 /\ printed + 0 = printed
    BY <1>0 DEF StrTypeOK, ClientAt
  <2>3. ClientAt' /\ C!EndsRight'
    BY <1>0, <1>2, <2>0, <2>5 DEF StrTypeOK, InOrder, FinIsLast, ClientAt, C!EndsRight, C!AllPrinted
  <2>4. QED BY <2>1, <2>2, <2>3 DEF StrInv
<1>3. QED BY <1>1, <1>2 DEF C!Reader, C!output

\* The server, and who kills it.
LEMMA EchoServerKeeps ==
  ASSUME StrInv, C!Server
  PROVE  StrInv'
<1>0. /\ StrTypeOK /\ InOrder /\ FinIsLast /\ ClientAt /\ C!EndsRight
      /\ UNCHANGED <<cli, srv, typed, eof, fetched, ctaken, sent, cfin, sdead, recvd, printed, wpc, rpc, stdineof, done, crset, to, fr, end>>
  BY DEF C!Server, C!Serve, StrInv, C!term, C!input, C!output, C!bufs
<1>1. ClientAt' /\ C!EndsRight'
  BY <1>0 DEF ClientAt, C!EndsRight, C!AllPrinted
<1>2. /\ got' \in Nat /\ echoed' \in Nat /\ recvd <= echoed' /\ echoed' <= got' /\ got' <= sent
      /\ spc' \in {"read", "write", "exit", "end"} /\ ~sfin
      /\ spc' = "exit" => cfin /\ got' = sent
      /\ spc' \in {"write", "exit"} => echoed' < got'
      /\ srv = "echo" /\ spc' = "read" => echoed' = got'
      /\ sfin' \in BOOLEAN /\ (sfin' <=> spc' = "end") /\ (spc' = "end" => cfin /\ got' = sent /\ echoed' = got')
  <2>0. /\ got \in Nat /\ echoed \in Nat /\ recvd \in Nat /\ sent \in Nat
        /\ recvd <= echoed /\ echoed <= got /\ got <= sent
    BY <1>0 DEF StrTypeOK, InOrder
  <2>a. /\ spc = "exit" => cfin /\ got = sent
        /\ spc \in {"write", "exit"} => echoed < got
        /\ srv = "echo" /\ spc = "read" => echoed = got
        /\ spc # "end" => ~sfin
    BY <1>0 DEF FinIsLast
  <2>1. CASE srv = "echo" /\ spc = "read" /\ got' \in got+1 .. sent /\ spc' = "write" /\ UNCHANGED <<sfin, echoed>>
    <3>1. ~sfin /\ ~sfin'
      BY <2>1, <2>a
    <3>2. sfin' \in BOOLEAN /\ (sfin' <=> spc' = "end")
      BY <1>0, <2>1, <3>1 DEF StrTypeOK
    <3>3. /\ got' \in Nat /\ echoed' \in Nat /\ recvd <= echoed' /\ echoed' < got' /\ echoed' <= got' /\ got' <= sent
      BY <2>0, <2>1
    <3>4. QED BY <2>1, <3>1, <3>2, <3>3
  <2>2. CASE srv = "echo" /\ spc = "read" /\ cfin /\ got = sent /\ sfin' = TRUE /\ spc' = "end" /\ UNCHANGED <<got, echoed>>
    <3>1. ~sfin /\ sfin' \in BOOLEAN /\ (sfin' <=> spc' = "end")
      BY <2>2, <2>a
    <3>2. QED BY <2>0, <2>2, <2>a, <3>1
  <2>3. CASE /\ srv = "stdio" /\ spc = "read" /\ got < sent /\ got' = got + 1 /\ UNCHANGED <<sfin, echoed>>
             /\ spc' = (IF got' - echoed = OutBuf THEN "write" ELSE "read")
    <3>1. ~sfin /\ ~sfin' /\ spc' \in {"write", "read"}
      BY <2>3, <2>a
    <3>2. sfin' \in BOOLEAN /\ (sfin' <=> spc' = "end")
      BY <1>0, <2>3, <3>1 DEF StrTypeOK
    <3>3. /\ got' \in Nat /\ echoed' \in Nat /\ recvd <= echoed' /\ echoed' < got' /\ echoed' <= got' /\ got' <= sent
      BY <2>0, <2>3
    <3>4. QED BY <2>3, <3>1, <3>2, <3>3
  <2>4. CASE /\ srv = "stdio" /\ spc = "read" /\ cfin /\ got = sent /\ UNCHANGED <<got, echoed>>
             /\ spc' = (IF got > echoed THEN "exit" ELSE "end") /\ sfin' = (got = echoed)
    <3>0. sfin' \in BOOLEAN /\ (sfin' <=> got = echoed) /\ ~sfin
      BY <2>4, <2>a
    <3>a. got = got' /\ echoed = echoed'
      BY <2>4
    <3>1. CASE got > echoed
      <4>1. spc' = "exit" /\ ~sfin' /\ echoed < got
        BY <2>0, <2>4, <3>0, <3>1
      <4>2. QED BY <2>0, <2>4, <3>0, <3>a, <4>1
    <3>2. CASE got = echoed
      <4>1. spc' = "end" /\ sfin'
        BY <2>0, <2>4, <3>0, <3>2
      <4>2. QED BY <2>0, <2>4, <3>0, <3>2, <3>a, <4>1
    <3>3. QED BY <2>0, <3>1, <3>2
  <2>5. CASE C!ServerWrite
    <3>a. sfin' \in BOOLEAN /\ (sfin' <=> spc' = "end") /\ ~sfin
      BY <2>5, <2>a DEF C!ServerWrite
    <3>1. /\ spc \in {"write", "exit"} /\ echoed' = echoed + 1 /\ got' = got
          /\ spc' = IF echoed' < got THEN spc ELSE IF spc = "exit" THEN "end" ELSE "read"
      BY <2>5 DEF C!ServerWrite
    <3>2. echoed' \in Nat /\ recvd <= echoed' /\ echoed' <= got /\ (~(echoed' < got) => echoed' = got)
      BY <2>0, <2>a, <3>1
    <3>3. CASE echoed' < got
      <4>1. spc' = spc
        BY <3>1, <3>2, <3>3
      <4>2. QED BY <2>0, <2>a, <3>1, <3>2, <3>3, <3>a, <4>1
    <3>4. CASE ~(echoed' < got) /\ spc = "exit"
      <4>1. spc' = "end"
        BY <3>1, <3>4
      <4>2. QED BY <2>0, <2>a, <3>1, <3>2, <3>4, <3>a, <4>1
    <3>5. CASE ~(echoed' < got) /\ spc = "write"
      <4>1. spc' = "read"
        BY <3>1, <3>5
      <4>2. QED BY <2>0, <2>a, <3>1, <3>2, <3>5, <3>a, <4>1
    <3>6. QED BY <3>1, <3>3, <3>4, <3>5
  <2>6. QED BY <2>1, <2>2, <2>3, <2>4, <2>5 DEF C!Server, C!Str_echo, C!Str_echo_stdio
<1>3. StrTypeOK'
  BY <1>0, <1>2 DEF StrTypeOK
<1>4. ~sdead
  BY <1>0, <1>2 DEF FinIsLast
<1>5. InOrder' /\ FinIsLast'
  BY <1>0, <1>2, <1>4 DEF StrTypeOK, InOrder, FinIsLast
<1>6. QED BY <1>1, <1>3, <1>5 DEF StrInv

LEMMA KillKeeps ==
  ASSUME StrInv, C!Kill
  PROVE  StrInv'
<1>0. /\ StrTypeOK /\ InOrder /\ FinIsLast /\ ClientAt /\ C!EndsRight /\ sdead' = TRUE /\ sfin' = TRUE /\ spc' = "end"
      /\ UNCHANGED <<cli, srv, typed, eof, fetched, ctaken, sent, cfin, got, echoed, recvd, printed, wpc, rpc, stdineof, done, crset, to, fr, end>>
  BY DEF C!Kill, StrInv, C!term, C!input, C!output, C!bufs
<1>1. StrTypeOK'
  BY <1>0 DEF StrTypeOK
<1>2. InOrder' /\ FinIsLast'
  BY <1>0 DEF InOrder, FinIsLast
<1>3. ClientAt' /\ C!EndsRight'
  BY <1>0 DEF ClientAt, C!EndsRight, C!AllPrinted
<1>4. QED BY <1>1, <1>2, <1>3 DEF StrInv

\* The user.
LEMMA TypeKeeps ==
  ASSUME StrInv, C!Type \/ C!EndInput
  PROVE  StrInv'
<1>0. /\ StrTypeOK /\ InOrder /\ FinIsLast /\ ClientAt /\ C!EndsRight /\ ~eof
      /\ UNCHANGED <<cli, srv, fetched, ctaken, sent, cfin, got, echoed, sfin, sdead, spc, recvd, printed, wpc, rpc, stdineof, done, crset, to, fr, end>>
  BY DEF C!Type, C!EndInput, StrInv, C!term, C!input, C!output, C!bufs, C!server
<1>a. (eof' = eof /\ typed' = typed + 1) \/ (eof' = TRUE /\ typed' \in {typed, typed + 1})
  BY DEF C!Type, C!EndInput
<1>c. typed \in Nat /\ eof \in BOOLEAN
  BY <1>0 DEF StrTypeOK
<1>d. typed' \in Nat /\ typed <= typed'
  BY <1>a, <1>c
<1>e. eof' \in BOOLEAN
  BY <1>a, <1>c
<1>b. eof' \in BOOLEAN /\ typed' \in Nat /\ typed <= typed' /\ typed \in Nat
  BY <1>c, <1>d, <1>e
<1>1. StrTypeOK'
  BY <1>0, <1>b DEF StrTypeOK
<1>2. InOrder' /\ FinIsLast'
  BY <1>0, <1>a, <1>b DEF StrTypeOK, InOrder, FinIsLast
<1>3. ClientAt' /\ C!EndsRight'
  BY <1>0, <1>a DEF ClientAt, C!EndsRight, C!AllPrinted
<1>4. QED BY <1>1, <1>2, <1>3 DEF StrInv

LEMMA StrNext ==
  ASSUME StrInv, [C!Next]_strcli
  PROVE  StrInv'
<1>1. CASE C!Next
  <2>1. CASE C!Client
    BY <2>1, StopKeeps, LoopKeeps, NonbKeeps, CopytoKeeps DEF C!Client
  <2>2. CASE C!Reads
    BY <2>2, ReaderKeeps DEF C!Reads
  <2>3. QED BY <1>1, <2>1, <2>2, EchoServerKeeps, KillKeeps, TypeKeeps DEF C!Next
<1>2. CASE UNCHANGED strcli
  BY <1>2 DEF strcli, StrInv, StrTypeOK, InOrder, FinIsLast, ClientAt, C!EndsRight, C!AllPrinted
<1>3. QED BY <1>1, <1>2

-----------------------------------------------------------------------------
USE StreamsAssumption

\* The files that are being fetched, and those that have been: by their marks in
\* web.c, by their threads in the others.
Fetching ==
  IF wprog = "web" THEN {f \in W!Files : wflags[f] \in {"connecting", "reading"}}
  ELSE {f \in W!Files : tpc[f] \notin {"none", "joined"}}
Finished ==
  IF wprog = "web" THEN {f \in W!Files : wflags[f] = "done"}
  ELSE {f \in W!Files : tpc[f] = "joined"}

WebTypeOK ==
  /\ wprog \in {"web", "web01", "web02", "web03"}
  /\ maxnconn \in Nat /\ wnconn \in Int /\ nlefttoread \in Int
  /\ wflags \in [W!Files -> {"none", "connecting", "reading", "done", "joined"}]
  /\ wnet \in [W!Files -> {"none", "syn", "open", "refused", "end", "reset", "closed"}]
  /\ tpc \in [W!Files -> {"none", "connect", "get", "read", "close", "lock", "ended", "joined"}]
  /\ mpc \in {"fill", "mark", "quit", "exit", "scan", "wait", "woken"}
  /\ ready \subseteq W!Files

\* The counters are right, but for the thread that web02.c has created and not yet
\* counted.
WebCounts ==
  /\ Cardinality(Fetching) <= maxnconn
  /\ mpc = "mark" => wnconn + 1 = Cardinality(Fetching)
  /\ mpc \notin {"mark", "quit"} => wnconn = Cardinality(Fetching)
  /\ nlefttoread + Cardinality(Finished) = MaxFiles
  /\ mpc = "exit" => nlefttoread = 0

\* What the connection of a file tells of its mark or its thread.
FileAt ==
  /\ \A f \in W!Files : wnet[f] \notin {"none", "closed", "refused"} => f \in Fetching
  /\ \A f \in Finished : wnet[f] = "closed"
  /\ wprog = "web" =>
       /\ mpc \in {"fill", "scan", "quit", "exit"}
       /\ \A f \in W!Files : tpc[f] = "none" /\ wflags[f] # "joined"
       /\ ready \subseteq Fetching
  /\ wprog # "web" =>
       /\ \A f \in W!Files : tpc[f] = "none" => wnet[f] = "none"
       /\ \A f \in W!Files : tpc[f] \in {"close", "lock", "ended"} => wnet[f] = "closed"
       /\ \A f \in W!Files : wflags[f] = "none" => tpc[f] = "none" \/ (mpc = "mark" /\ at = f) \/ mpc = "quit"

WebInv == WebTypeOK /\ WebCounts /\ FileAt

\* Sets of files are finite and are counted.
LEMMA SetsOfFiles ==
  ASSUME NEW S \in SUBSET W!Files
  PROVE  /\ Cardinality(S) \in Nat
         /\ \A f \in W!Files \ S : Cardinality(S \cup {f}) = Cardinality(S) + 1
         /\ \A f \in S : Cardinality(S \ {f}) = Cardinality(S) - 1
         /\ Cardinality(S) = MaxFiles => S = W!Files
<1>1. IsFiniteSet(W!Files) /\ Cardinality(W!Files) = MaxFiles
  BY FS_Interval DEF W!Files
<1>2. IsFiniteSet(S)
  BY <1>1, FS_Subset
<1>3. Cardinality(S) = MaxFiles => S = W!Files
  BY <1>1, FS_Subset
<1>4. QED BY <1>2, <1>3, FS_CardinalityType, FS_AddElement, FS_RemoveElement

\* The first file of a set of files: the one a loop over them comes to.
LEMMA LeastFile ==
  ASSUME NEW S \in SUBSET Nat, S # {}
  PROVE  W!Least(S) \in S
BY LeastIn DEF Least, W!Least

\* The Cardinality of an instance is the library's.
LEMMA SameCardinalityW ==
  ASSUME NEW Elem PROVE W!Cardinality(Elem) = Cardinality(Elem)
BY DEF W!Cardinality, Cardinality

\* The invariant holds at the start of the web clients.
LEMMA WebInit ==
  ASSUME W!Init
  PROVE  WebInv
<1>1. WebTypeOK
  BY DEF W!Init, WebTypeOK
<1>2. Fetching = {} /\ Finished = {}
  BY DEF W!Init, Fetching, Finished
<1>3. Cardinality({}) = 0
  BY FS_EmptySet
<1>4. WebCounts
  BY <1>1, <1>2, <1>3 DEF WebCounts, W!Init, WebTypeOK
<1>5. FileAt
  BY <1>2 DEF FileAt, W!Init
<1>6. QED BY <1>1, <1>4, <1>5 DEF WebInv

\* A new file is being fetched, once its connection or its thread is there.
LEMMA StartKeeps ==
  ASSUME WebInv, W!Start_connect \/ W!Create
  PROVE  WebInv'
<1>0. /\ WebTypeOK /\ WebCounts /\ FileAt
      /\ mpc = "fill" /\ wnconn < maxnconn /\ W!Unstarted # {}
      /\ UNCHANGED <<wprog, maxnconn, nlefttoread, ready, mutex, ndone>>
  BY DEF WebInv, W!Start_connect, W!Create, W!Fills, W!Counted, W!counts
<1>a. W!Unstarted \in SUBSET Nat
  BY DEF W!Unstarted, W!Files
<1>b. PICK f : f = W!Least(W!Unstarted)
  OBVIOUS
<1>1. f \in W!Files /\ wflags[f] = "none"
  BY <1>0, <1>a, <1>b, LeastFile DEF W!Unstarted
<1>2. Fetching \in SUBSET W!Files /\ Finished \in SUBSET W!Files
  BY DEF Fetching, Finished
<1>3. f \notin Fetching /\ f \notin Finished /\ (wprog # "web" => tpc[f] = "none")
  BY <1>0, <1>1 DEF Fetching, Finished, FileAt
<1>4. Cardinality(Fetching) \in Nat /\ Cardinality(Fetching \cup {f}) = Cardinality(Fetching) + 1
  BY <1>1, <1>2, <1>3, SetsOfFiles
<1>5. Cardinality(Fetching \cup {f}) <= maxnconn /\ wnconn = Cardinality(Fetching)
  BY <1>0, <1>4 DEF WebCounts, WebTypeOK
<1>6. WebTypeOK' /\ Fetching' = Fetching \cup {f} /\ Finished' = Finished
      /\ (mpc' = "mark" => wnconn + 1 = wnconn' + 1) /\ (mpc' # "mark" => mpc' = "fill" /\ wnconn' = wnconn + 1)
      /\ FileAt'
  <2>1. CASE W!Start_connect
    <3>1. /\ wprog = "web" /\ mpc' = mpc /\ tpc' = tpc /\ wnconn' = wnconn + 1
          /\ \E l \in {"connecting", "reading"}, n \in {"syn", "open"} :
               wflags' = [wflags EXCEPT ![f] = l] /\ wnet' = [wnet EXCEPT ![f] = n]
      BY <1>b, <2>1 DEF W!Start_connect, W!Counted
    <3>2. PICK l \in {"connecting", "reading"}, n \in {"syn", "open"} :
            wflags' = [wflags EXCEPT ![f] = l] /\ wnet' = [wnet EXCEPT ![f] = n]
      BY <3>1
    <3>3. WebTypeOK'
      BY <1>0, <1>1, <3>1, <3>2 DEF WebTypeOK
    <3>4. Fetching' = Fetching \cup {f}
      BY <1>0, <1>1, <3>1, <3>2 DEF WebTypeOK, Fetching
    <3>5. Finished' = Finished
      BY <1>0, <1>1, <3>1, <3>2 DEF WebTypeOK, Finished
    <3>6. FileAt'
      BY <1>0, <1>1, <1>2, <1>3, <3>1, <3>2, <3>4, <3>5 DEF WebTypeOK, FileAt
    <3>7. QED BY <1>0, <3>1, <3>3, <3>4, <3>5, <3>6
  <2>2. CASE W!Create
    <3>1. /\ wprog # "web" /\ wnet' = wnet /\ tpc' = [tpc EXCEPT ![f] = "connect"] /\ at' = f
          /\ \/ mpc' = "mark" /\ wflags' = wflags /\ wnconn' = wnconn
             \/ mpc' = mpc /\ wflags' = [wflags EXCEPT ![f] = "connecting"] /\ wnconn' = wnconn + 1
      BY <1>b, <2>2 DEF W!Create, W!Counted, W!counts
    <3>3. WebTypeOK'
      BY <1>0, <1>1, <3>1 DEF WebTypeOK
    <3>4. Fetching' = Fetching \cup {f}
      BY <1>0, <1>1, <3>1 DEF WebTypeOK, Fetching
    <3>5. Finished' = Finished
      BY <1>0, <1>1, <1>3, <3>1 DEF WebTypeOK, Finished
    <3>6. FileAt'
      BY <1>0, <1>1, <1>2, <1>3, <3>1, <3>4, <3>5 DEF WebTypeOK, FileAt
    <3>7. QED BY <1>0, <3>1, <3>3, <3>4, <3>5, <3>6
  <2>3. QED BY <2>1, <2>2
<1>7. WebCounts'
  BY <1>0, <1>4, <1>5, <1>6 DEF WebCounts, WebTypeOK
<1>8. QED BY <1>6, <1>7 DEF WebInv

\* The steps of main() that fetch nothing: web02.c marks a thread, the lock and the
\* condition variable, select(), and the end of a round.
LEMMA MainKeeps ==
  ASSUME WebInv, W!Mark \/ W!NothingFound \/ W!NoThread \/ W!Select \/ W!Lock \/ W!Wake \/ W!Unlock
  PROVE  WebInv'
<1>0. /\ WebTypeOK /\ WebCounts /\ FileAt
      /\ UNCHANGED <<wprog, maxnconn, nlefttoread, wnet, tpc>>
  BY DEF WebInv, W!Mark, W!NothingFound, W!NoThread, W!Select, W!Lock, W!Wake, W!Unlock, W!Counted, W!counts
<1>1. CASE W!Mark
  <2>1. /\ mpc = "mark" /\ mpc' = "fill" /\ wnconn' = wnconn + 1 /\ ready' = ready
        /\ wflags' = [wflags EXCEPT ![at] = "connecting"] /\ at' = at
    BY <1>1 DEF W!Mark, W!Counted
  <2>2. wprog # "web"
    BY <1>0, <2>1 DEF FileAt
  <2>3. Fetching' = Fetching /\ Finished' = Finished
    BY <1>0, <2>2 DEF Fetching, Finished
  <2>a. wnconn' \in Int
    BY <1>0, <2>1 DEF WebTypeOK
  <2>b. wflags' \in [W!Files -> {"none", "connecting", "reading", "done", "joined"}]
    BY <1>0, <2>1 DEF WebTypeOK
  <2>4. WebTypeOK'
    BY <1>0, <2>1, <2>a, <2>b DEF WebTypeOK
  <2>5. WebCounts'
    BY <1>0, <2>1, <2>3 DEF WebCounts
  <2>6. FileAt'
    BY <1>0, <2>1, <2>2, <2>3 DEF FileAt, WebTypeOK
  <2>7. QED BY <2>4, <2>5, <2>6 DEF WebInv
<1>2. CASE W!NothingFound \/ W!NoThread \/ W!Lock \/ W!Wake
  <2>1. /\ mpc \in {"fill", "woken"} /\ mpc' \in {"quit", "scan", "wait"}
        /\ UNCHANGED <<wflags, wnconn, ready>> /\ (mpc' # "quit" => wprog # "web")
    BY <1>0, <1>2 DEF W!NothingFound, W!NoThread, W!Lock, W!Wake, W!counts, W!Fills, FileAt
  <2>2. Fetching' = Fetching /\ Finished' = Finished
    BY <1>0, <2>1 DEF Fetching, Finished
  <2>3. WebTypeOK'
    BY <1>0, <2>1 DEF WebTypeOK
  <2>4. WebCounts'
    BY <1>0, <2>1, <2>2 DEF WebCounts
  <2>5. FileAt'
    BY <1>0, <2>1, <2>2 DEF FileAt
  <2>6. QED BY <2>3, <2>4, <2>5 DEF WebInv
<1>3. CASE W!Select
  <2>1. /\ wprog = "web" /\ mpc = "fill" /\ mpc' = "scan" /\ UNCHANGED <<wflags, wnconn>>
        /\ ready' \subseteq {f \in W!Files : wflags[f] \in {"connecting", "reading"}}
    BY <1>3 DEF W!Select, W!counts
  <2>2. Fetching' = Fetching /\ Finished' = Finished /\ ready' \subseteq Fetching'
    BY <1>0, <2>1 DEF Fetching, Finished
  <2>3. WebTypeOK'
    BY <1>0, <2>1 DEF WebTypeOK
  <2>4. WebCounts'
    BY <1>0, <2>1, <2>2 DEF WebCounts
  <2>5. FileAt'
    BY <1>0, <2>1, <2>2 DEF FileAt
  <2>6. QED BY <2>3, <2>4, <2>5 DEF WebInv
<1>4. CASE W!Unlock
  <2>1. /\ wprog # "web" /\ mpc = "scan" /\ mpc' = (IF nlefttoread' = 0 THEN "exit" ELSE "fill")
        /\ UNCHANGED <<wflags, wnconn, ready>>
    BY <1>4 DEF W!Unlock, W!counts, W!Next_turn
  <2>2. Fetching' = Fetching /\ Finished' = Finished
    BY <1>0, <2>1 DEF Fetching, Finished
  <2>3. WebTypeOK'
    BY <1>0, <2>1 DEF WebTypeOK
  <2>4. WebCounts'
    BY <1>0, <2>1, <2>2 DEF WebCounts
  <2>5. FileAt'
    BY <1>0, <2>1, <2>2 DEF FileAt
  <2>6. QED BY <2>3, <2>4, <2>5 DEF WebInv
<1>5. QED BY <1>1, <1>2, <1>3, <1>4

\* A file is over: a connection read to its end, or a thread that is joined.
LEMMA OverKeeps ==
  ASSUME WebInv, NEW f \in Fetching,
         Fetching' = Fetching \ {f}, Finished' = Finished \cup {f}, f \notin Finished,
         wnconn' = wnconn - 1, nlefttoread' = nlefttoread - 1, maxnconn' = maxnconn,
         mpc \notin {"mark", "quit"}, mpc' = mpc \/ mpc' = W!Next_turn, mpc # "exit"
  PROVE  WebCounts'
<1>0. WebTypeOK /\ WebCounts
  BY DEF WebInv
<1>1. Fetching \in SUBSET W!Files /\ Finished \in SUBSET W!Files
  BY DEF Fetching, Finished
<1>2. /\ Cardinality(Fetching) \in Nat /\ Cardinality(Fetching') = Cardinality(Fetching) - 1
      /\ Cardinality(Finished) \in Nat /\ Cardinality(Finished') = Cardinality(Finished) + 1
  BY <1>1, SetsOfFiles
<1>3. mpc' \notin {"mark", "quit"} /\ (mpc' = "exit" => nlefttoread' = 0)
  BY <1>0 DEF W!Next_turn, WebCounts
<1>4. wnconn = Cardinality(Fetching) /\ nlefttoread + Cardinality(Finished) = MaxFiles
      /\ Cardinality(Fetching) <= maxnconn /\ maxnconn \in Nat /\ nlefttoread \in Int
  BY <1>0 DEF WebCounts, WebTypeOK
<1>5. wnconn' = Cardinality(Fetching') /\ Cardinality(Fetching') <= maxnconn'
  BY <1>2, <1>4
<1>6. nlefttoread' + Cardinality(Finished') = MaxFiles
  BY <1>2, <1>4
<1>7. QED BY <1>3, <1>5, <1>6 DEF WebCounts

LEMMA ScanKeeps ==
  ASSUME WebInv, W!Scan
  PROVE  WebInv'
<1>0. /\ WebTypeOK /\ WebCounts /\ FileAt
      /\ wprog = "web" /\ mpc = "scan" /\ ready # {}
      /\ UNCHANGED <<wprog, maxnconn, at, tpc>>
  BY DEF WebInv, W!Scan
<1>a. ready \in SUBSET Nat /\ ready \in SUBSET W!Files
  BY <1>0 DEF WebTypeOK, W!Files
<1>b. PICK f : f = W!Least(ready)
  OBVIOUS
<1>1. f \in ready /\ f \in W!Files /\ f \in Fetching /\ wflags[f] \in {"connecting", "reading"}
  BY <1>0, <1>a, <1>b, LeastFile DEF FileAt, Fetching
<1>2. /\ ready' = ready \ {f}
      /\ \/ /\ wflags[f] = "connecting" /\ wnet[f] # "refused"
            /\ wflags' = [wflags EXCEPT ![f] = "reading"]
            /\ UNCHANGED <<wnet, wnconn, nlefttoread>>
            /\ mpc' \in {"fill", "scan"}
         \/ /\ wflags[f] = "reading" /\ wnet[f] = "end"
            /\ wnet' = [wnet EXCEPT ![f] = "closed"]
            /\ wflags' = [wflags EXCEPT ![f] = "done"]
            /\ wnconn' = wnconn - 1 /\ nlefttoread' = nlefttoread - 1
            /\ mpc' = mpc \/ mpc' = W!Next_turn
         \/ mpc' = "quit" /\ UNCHANGED <<wflags, wnet, wnconn, nlefttoread>>
  BY <1>0, <1>b DEF W!Scan, W!counts
<1>3. CASE /\ wflags[f] = "connecting" /\ wnet[f] # "refused"
           /\ wflags' = [wflags EXCEPT ![f] = "reading"]
           /\ UNCHANGED <<wnet, wnconn, nlefttoread>>
           /\ mpc' \in {"fill", "scan"}
  <2>1. Fetching' = Fetching /\ Finished' = Finished
    BY <1>0, <1>1, <1>3 DEF WebTypeOK, Fetching, Finished
  <2>2. WebTypeOK'
    BY <1>0, <1>1, <1>2, <1>3 DEF WebTypeOK
  <2>3. WebCounts'
    BY <1>0, <1>3, <2>1 DEF WebCounts
  <2>4. FileAt'
    BY <1>0, <1>1, <1>2, <1>3, <2>1 DEF FileAt, WebTypeOK
  <2>5. QED BY <2>2, <2>3, <2>4 DEF WebInv
<1>4. CASE /\ wflags[f] = "reading" /\ wnet[f] = "end"
           /\ wnet' = [wnet EXCEPT ![f] = "closed"]
           /\ wflags' = [wflags EXCEPT ![f] = "done"]
           /\ wnconn' = wnconn - 1 /\ nlefttoread' = nlefttoread - 1
           /\ mpc' = mpc \/ mpc' = W!Next_turn
  <2>1. Fetching' = Fetching \ {f} /\ Finished' = Finished \cup {f} /\ f \notin Finished
    BY <1>0, <1>1, <1>4 DEF WebTypeOK, Fetching, Finished
  <2>2. mpc' \in {"scan", "exit", "fill"}
    BY <1>0, <1>4 DEF W!Next_turn
  <2>3. wnconn' \in Int /\ nlefttoread' \in Int
    BY <1>0, <1>4 DEF WebTypeOK
  <2>4. WebTypeOK'
    BY <1>0, <1>1, <1>2, <1>4, <2>2, <2>3 DEF WebTypeOK
  <2>5. WebCounts'
    BY <1>0, <1>1, <1>4, <2>1, OverKeeps
  <2>6. FileAt'
    BY <1>0, <1>1, <1>2, <1>4, <2>1, <2>2 DEF FileAt, WebTypeOK
  <2>7. QED BY <2>4, <2>5, <2>6 DEF WebInv
<1>5. CASE mpc' = "quit" /\ UNCHANGED <<wflags, wnet, wnconn, nlefttoread>>
  <2>1. Fetching' = Fetching /\ Finished' = Finished
    BY <1>0, <1>5 DEF Fetching, Finished
  <2>2. WebTypeOK'
    BY <1>0, <1>2, <1>5 DEF WebTypeOK
  <2>3. WebCounts'
    BY <1>0, <1>5, <2>1 DEF WebCounts
  <2>4. FileAt'
    BY <1>0, <1>2, <1>5, <2>1 DEF FileAt
  <2>5. QED BY <2>2, <2>3, <2>4 DEF WebInv
<1>6. QED BY <1>2, <1>3, <1>4, <1>5

LEMMA JoinKeeps ==
  ASSUME WebInv, W!Thr_join \/ W!Join
  PROVE  WebInv'
<1>0. /\ WebTypeOK /\ WebCounts /\ FileAt
      /\ wprog # "web" /\ mpc \in {"fill", "scan"}
      /\ UNCHANGED <<wprog, maxnconn, wnet, ready>>
  BY DEF WebInv, W!Thr_join, W!Join
<1>1. \/ \E f \in W!Files : /\ tpc[f] = "ended" /\ W!Joined(f)
                            /\ wflags' \in {wflags, [wflags EXCEPT ![f] = "joined"]}
                            /\ mpc' = mpc \/ mpc' = W!Next_turn
      \/ UNCHANGED <<tpc, wnconn, nlefttoread, wflags, mpc>>
  BY DEF W!Thr_join, W!Join, W!counts
<1>2. CASE UNCHANGED <<tpc, wnconn, nlefttoread, wflags, mpc>>
  <2>1. Fetching' = Fetching /\ Finished' = Finished
    BY <1>0, <1>2 DEF Fetching, Finished
  <2>2. WebTypeOK' /\ WebCounts'
    BY <1>0, <1>2, <2>1 DEF WebTypeOK, WebCounts
  <2>3. FileAt'
    BY <1>0, <1>2, <2>1 DEF FileAt
  <2>4. QED BY <2>2, <2>3 DEF WebInv
<1>3. CASE \E f \in W!Files : /\ tpc[f] = "ended" /\ W!Joined(f)
                              /\ wflags' \in {wflags, [wflags EXCEPT ![f] = "joined"]}
                              /\ mpc' = mpc \/ mpc' = W!Next_turn
  <2>1. PICK f \in W!Files : /\ tpc[f] = "ended" /\ W!Joined(f)
                             /\ wflags' \in {wflags, [wflags EXCEPT ![f] = "joined"]}
                             /\ mpc' = mpc \/ mpc' = W!Next_turn
    BY <1>3
  <2>2. /\ tpc' = [tpc EXCEPT ![f] = "joined"]
        /\ wnconn' = wnconn - 1 /\ nlefttoread' = nlefttoread - 1
    BY <2>1 DEF W!Joined
  <2>3. f \in Fetching /\ f \notin Finished /\ wnet[f] = "closed"
    BY <1>0, <2>1 DEF Fetching, Finished, FileAt
  <2>4. Fetching' = Fetching \ {f} /\ Finished' = Finished \cup {f}
    BY <1>0, <2>1, <2>2 DEF WebTypeOK, Fetching, Finished
  <2>5. mpc' \in {"fill", "scan", "exit"}
    BY <1>0, <2>1 DEF W!Next_turn
  <2>6. wnconn' \in Int /\ nlefttoread' \in Int
    BY <1>0, <2>2 DEF WebTypeOK
  <2>7. WebTypeOK'
    BY <1>0, <2>1, <2>2, <2>5, <2>6 DEF WebTypeOK
  <2>8. WebCounts'
    BY <1>0, <2>1, <2>2, <2>3, <2>4, OverKeeps
  <2>9. FileAt'
    BY <1>0, <2>1, <2>2, <2>3, <2>4, <2>5 DEF FileAt, WebTypeOK
  <2>10. QED BY <2>7, <2>8, <2>9 DEF WebInv
<1>4. QED BY <1>1, <1>2, <1>3

LEMMA ThreadKeeps ==
  ASSUME WebInv, NEW f \in W!Files, W!Thread(f)
  PROVE  WebInv'
<1>0. /\ WebTypeOK /\ WebCounts /\ FileAt
      /\ mpc \notin {"quit", "exit"}
      /\ UNCHANGED <<wprog, maxnconn, wnconn, nlefttoread, at, ready>>
  BY DEF WebInv, W!Thread, W!Alive, W!counts
<1>a. wprog # "web"
  BY <1>0 DEF FileAt, W!Thread, W!Count_done
<1>1. \/ tpc[f] = "connect" /\ wnet' = [wnet EXCEPT ![f] = "syn"] /\ UNCHANGED <<wflags, tpc, mpc>>
      \/ tpc[f] = "connect" /\ tpc' = [tpc EXCEPT ![f] = "get"] /\ UNCHANGED <<wflags, wnet, mpc>>
      \/ /\ tpc[f] = "get" /\ tpc' = [tpc EXCEPT ![f] = "read"]
         /\ wflags' = [wflags EXCEPT ![f] = "reading"] /\ UNCHANGED <<wnet, mpc>>
      \/ /\ tpc[f] = "read" /\ tpc' = [tpc EXCEPT ![f] = "close"]
         /\ wnet' = [wnet EXCEPT ![f] = "closed"] /\ UNCHANGED <<wflags, mpc>>
      \/ /\ tpc[f] = "close" /\ \E l \in {"ended", "lock"} : tpc' = [tpc EXCEPT ![f] = l]
         /\ wflags' = [wflags EXCEPT ![f] = "done"] /\ UNCHANGED <<wnet, mpc>>
      \/ /\ tpc[f] = "lock" /\ tpc' = [tpc EXCEPT ![f] = "ended"]
         /\ mpc' = (IF mpc = "wait" THEN "woken" ELSE mpc) /\ UNCHANGED <<wflags, wnet>>
      \/ mpc' = "quit" /\ UNCHANGED <<wflags, wnet, tpc>>
  BY DEF W!Thread, W!Count_done
<1>2. Fetching' = Fetching /\ Finished' = Finished
  BY <1>0, <1>a, <1>1 DEF Fetching, Finished, WebTypeOK
<1>3. WebTypeOK'
  BY <1>0, <1>1 DEF WebTypeOK
<1>4. WebCounts'
  <2>1. mpc' = "quit" \/ (mpc' = "mark" <=> mpc = "mark")
    BY <1>1
  <2>2. mpc' # "exit"
    BY <1>0, <1>1
  <2>3. QED BY <1>0, <1>2, <2>1, <2>2 DEF WebCounts
<1>5. FileAt'
  <2>1. \A g \in W!Files : wnet'[g] \notin {"none", "closed", "refused"} => g \in Fetching
    BY <1>0, <1>a, <1>1 DEF FileAt, WebTypeOK, Fetching
  <2>2. \A g \in Finished : wnet'[g] = "closed"
    BY <1>0, <1>a, <1>1 DEF FileAt, WebTypeOK, Finished
  <2>3. \A g \in W!Files : tpc'[g] = "none" => wnet'[g] = "none"
    BY <1>0, <1>a, <1>1 DEF FileAt, WebTypeOK
  <2>4. \A g \in W!Files : tpc'[g] \in {"close", "lock", "ended"} => wnet'[g] = "closed"
    BY <1>0, <1>a, <1>1 DEF FileAt, WebTypeOK
  <2>5. \A g \in W!Files : wflags'[g] = "none" => tpc'[g] = "none" \/ (mpc' = "mark" /\ at' = g) \/ mpc' = "quit"
    BY <1>0, <1>a, <1>1 DEF FileAt, WebTypeOK
  <2>6. QED BY <1>0, <1>a, <1>2, <2>1, <2>2, <2>3, <2>4, <2>5 DEF FileAt
<1>6. QED BY <1>3, <1>4, <1>5 DEF WebInv

LEMMA ReplyKeeps ==
  ASSUME WebInv, NEW f \in W!Files, W!Reply(f)
  PROVE  WebInv'
<1>0. /\ WebTypeOK /\ WebCounts /\ FileAt
      /\ UNCHANGED <<wprog, maxnconn, wnconn, nlefttoread, wflags, mpc, at, ready, tpc>>
      /\ wnet[f] \in {"syn", "open"}
      /\ \E n \in {"open", "refused", "end", "reset"} : wnet' = [wnet EXCEPT ![f] = n]
  BY DEF WebInv, W!Reply, W!counts
<1>1. PICK n \in {"open", "refused", "end", "reset"} : wnet' = [wnet EXCEPT ![f] = n]
  BY <1>0
<1>2. Fetching' = Fetching /\ Finished' = Finished
  BY <1>0 DEF Fetching, Finished
<1>3. WebTypeOK'
  BY <1>0, <1>1 DEF WebTypeOK
<1>4. WebCounts'
  BY <1>0, <1>2 DEF WebCounts
<1>5. FileAt'
  <2>1. wprog = "web" => FileAt'
    BY <1>0, <1>1, <1>2 DEF FileAt, WebTypeOK
  <2>2. f \notin Finished
    BY <1>0 DEF FileAt
  <2>3. wprog # "web" => FileAt'
    BY <1>0, <1>1, <1>2, <2>2 DEF FileAt, WebTypeOK
  <2>4. QED BY <2>1, <2>3
<1>6. QED BY <1>3, <1>4, <1>5 DEF WebInv

LEMMA WebNext ==
  ASSUME WebInv, [W!Next]_web
  PROVE  WebInv'
<1>1. CASE W!Next
  <2>1. CASE W!MainStep
    BY <2>1, StartKeeps, MainKeeps, ScanKeeps, JoinKeeps DEF W!MainStep
  <2>2. QED BY <1>1, <2>1, ThreadKeeps, ReplyKeeps DEF W!Next
<1>2. CASE UNCHANGED web
  <2>1. Fetching' = Fetching /\ Finished' = Finished
    BY <1>2 DEF web, Fetching, Finished
  <2>2. QED BY <1>2, <2>1 DEF web, WebInv, WebTypeOK, WebCounts, FileAt
<1>3. QED BY <1>1, <1>2

\* The invariant says what was to be shown: what is open is being fetched, and who
\* exits has nothing left to read.
LEMMA WebLimit ==
  ASSUME WebInv
  PROVE  W!WithinLimit
<1>0. WebTypeOK /\ WebCounts /\ FileAt
  BY DEF WebInv
<1>1. Fetching \in SUBSET W!Files /\ Finished \in SUBSET W!Files
  BY DEF Fetching, Finished
<1> DEFINE Opened == {f \in W!Files : wnet[f] \notin {"none", "closed", "refused"}}
<1>2. Cardinality(Opened) <= maxnconn
  <2>a. IsFiniteSet(W!Files)
    BY FS_Interval DEF W!Files
  <2>b. IsFiniteSet(Fetching)
    BY <1>1, <2>a, FS_Subset
  <2>1. Opened \in SUBSET Fetching /\ IsFiniteSet(Fetching)
    BY <1>0, <2>b DEF FileAt
  <2>2. Cardinality(Opened) <= Cardinality(Fetching) /\ Cardinality(Opened) \in Nat
    BY <2>1, FS_Subset, FS_CardinalityType
  <2>3. Cardinality(Fetching) <= maxnconn /\ maxnconn \in Nat /\ Cardinality(Fetching) \in Nat
    BY <1>0, <2>1, FS_CardinalityType DEF WebCounts, WebTypeOK
  <2> HIDE DEF Opened
  <2>4. QED BY <2>2, <2>3
<1>3. mpc = "exit" => \A f \in W!Files : wnet[f] = "closed"
  <2>1. SUFFICES ASSUME mpc = "exit" PROVE Finished = W!Files
    BY <1>0 DEF FileAt
  <2>2. Cardinality(Finished) \in Nat /\ nlefttoread = 0 /\ nlefttoread + Cardinality(Finished) = MaxFiles
    BY <1>0, <1>1, <2>1, SetsOfFiles DEF WebCounts
  <2>3. Cardinality(Finished) = MaxFiles
    BY <2>2
  <2>4. QED BY <1>1, <2>3, SetsOfFiles
<1> HIDE DEF Opened
<1>4. W!Cardinality(Opened) <= maxnconn
  BY <1>2, SameCardinalityW
<1>5. QED BY <1>3, <1>4, Zenon DEF W!WithinLimit, Opened

\* ClientsRight: an echo client that ends has printed everything, but for what a
\* known buffer held, and blames only a server that has died; a web client never
\* has more connections open than the user allows, and exits when it has read
\* every file: for any number of lines, of files and of connections.
THEOREM ClientsAreRight == MCSpec => []ClientsRight
<1>1. MCInit => StrInv /\ WebInv
  BY StrInit, WebInit DEF MCInit
<1>2. StrInv /\ WebInv /\ [MCNext]_<<which, vars, strcli, web, lookup, formats>> => StrInv' /\ WebInv'
  <2>1. [MCNext]_<<which, vars, strcli, web, lookup, formats>> =>
          (C!Next \/ UNCHANGED strcli) /\ (W!Next \/ UNCHANGED web)
    BY DEF MCNext
  <2>2. QED BY <2>1, StrNext, WebNext
<1>3. StrInv /\ WebInv => ClientsRight
  BY WebLimit DEF StrInv, ClientsRight
<1>4. QED BY <1>1, <1>2, <1>3, PTL DEF MCSpec

-----------------------------------------------------------------------------
(* getaddrinfo(), in both versions.  The blocks there are follow from the    *)
(* list, and the list from the addresses found and from how far the types of *)
(* socket have got in it.                                                    *)

HIDE SelectAssumption

\* What a call of getaddrinfo() is given.
GaiArgs ==
  /\ version \in {"gai", "free"}
  /\ host \in {"none", "v4", "v6", "name", "path"} /\ serv \in {"none", "number", "name", "path"}
  /\ gflags \in SUBSET {"PASSIVE", "CANONNAME", "other"}
  /\ hints.family \in {"INET", "INET6", "UNSPEC", "LOCAL", "other"}
  /\ hints.socktype \in {"0", "STREAM", "DGRAM", "RAW"}
  /\ known \in SUBSET {"STREAM", "DGRAM"} /\ (serv # "name" => known = {})
  /\ inet6 \in BOOLEAN

GaiFamilies == {"INET", "INET6"}
GaiEntries ==
  [family : GaiFamilies \cup {"LOCAL"}, socktype : G!Types, port : G!Types, clone : BOOLEAN, addr : BOOLEAN, canon : BOOLEAN]
GaiSearches == [host : {"none", "v4", "v6", "name", "path"}, family : GaiFamilies \cup {"UNSPEC", "LOCAL", "other"}]

GaiTypeOK ==
  /\ GaiArgs
  /\ gpc \in {"check", "search", "aistruct", "canon", "serv", "port", "unix", "local", "bad", "return",
              "freed", "crash", "quit"}
  /\ search \in Seq(GaiSearches) /\ todo \in Seq(GaiFamilies) /\ found \in Seq(GaiFamilies)
  /\ glist \in Seq(GaiEntries) /\ headset \in BOOLEAN /\ canon \in BOOLEAN
  /\ ports \in Seq(G!Types) /\ gpos \in Nat \ {0} /\ nfound \in Nat /\ heap \in Int

\* The list is still worked at.
Working == gpc \in {"check", "search", "aistruct", "canon", "serv", "port", "unix", "local"}

\* The blocks there are: two for each entry, but for one whose address could not be
\* had; the name of the first; and the name that is kept aside.
Short == {k \in 1..Len(glist) : ~glist[k].addr}
NameOf == IF glist # <<>> /\ glist[1].canon THEN 1 ELSE 0
Aside == IF canon THEN 1 ELSE 0

Allocated ==
  /\ heap = 2 * Len(glist) - (IF Short # {} THEN 1 ELSE 0) + NameOf + Aside
  /\ \A j, k \in Short : j = k
  /\ Working => Short = {}
  /\ \A k \in 2..Len(glist) : ~glist[k].canon
  /\ gpc \in {"check", "search", "aistruct", "canon", "unix", "local"} => NameOf = 0
  /\ canon => /\ "CANONNAME" \in gflags /\ host # "none" /\ version = "gai"
              /\ gpc \in {"search", "aistruct", "canon", "bad"} \/ (gpc = "return" /\ err # "ok")
  /\ gpc = "freed" => glist = <<>> /\ ~canon

\* The ways the call goes.
OnItsWay ==
  /\ gpc = "quit" => hints.family = "LOCAL"
  /\ ~headset => version = "free" /\ found = <<>>
  /\ gpc = "crash" => ~headset
  /\ gpc = "bad" => err # "ok"
  /\ version = "gai" => \A k \in 1..Len(search) : search[k].family \in GaiFamilies
  /\ gpc = "unix" => version = "gai" /\ found = <<>>
  /\ gpc = "local" => version = "free" /\ found = <<>> /\ glist = <<>> /\ (host = "path" \/ serv = "path")
  /\ gpc = "check" => found = <<>> /\ glist = <<>> /\ todo = <<>>
  /\ gpc = "search" /\ version = "free" => found = <<>> /\ glist = <<>>
  /\ gpc = "aistruct" /\ version = "free" => found # <<>>
  /\ gpc \in {"check", "search", "aistruct", "canon", "serv"} => nfound = 0
  /\ gpc = "return" /\ err = "ok" /\ glist = <<>> => version = "free" /\ (host = "path" \/ serv = "path")

\* An entry as it is put into the list, and with a port.
Bare(ai, f) == ai.family = f /\ ai.socktype = hints.socktype /\ ai.port = "0" /\ ai.clone = (hints.socktype = "0")
With(ai, f, t) == ai.family = f /\ ai.socktype = t /\ ai.port = t
Ported(ai, f, t) == With(ai, f, t) /\ ai.clone = (hints.socktype = "0")
Cloned(ai, f, t) == With(ai, f, t) /\ ~ai.clone

\* The types of socket for which the service has a port.
Turns ==
  IF serv = "number" /\ (version = "gai" \/ hints.socktype # "0")
  THEN IF hints.socktype = "0" THEN <<"STREAM", "DGRAM">> ELSE <<hints.socktype>>
  ELSE G!InTurn({t \in known : G!Asked(t)})

\* The list when the first m entries have been cloned.
Twice(m) ==
  /\ Len(glist) = Len(found) + m
  /\ \A k \in 1..m : Ported(glist[2 * k - 1], found[k], Turns[1]) /\ Cloned(glist[2 * k], found[k], Turns[2])
  /\ \A k \in m + 1 .. Len(found) : Ported(glist[m + k], found[k], Turns[1])

\* What has been done for the first of the types, for the second, and in the end.
FirstTurn ==
  /\ ports = Turns /\ Len(glist) = Len(found) /\ gpos <= Len(found) + 1 /\ nfound = gpos - 1
  /\ \A k \in 1..Len(found) : IF k < gpos THEN Ported(glist[k], found[k], Turns[1]) ELSE Bare(glist[k], found[k])
  /\ Turns = <<>> => gpos = 1

SecondTurn ==
  /\ Len(Turns) = 2 /\ ports = <<Turns[2]>> /\ nfound > 0
  /\ \E m \in 0..Len(found) : gpos = 2 * m + 1 /\ Twice(m)

AllTurns ==
  /\ ports = <<>> /\ nfound > 0 /\ Turns # <<>>
  /\ Twice(IF Len(Turns) = 2 THEN Len(found) ELSE 0)

\* What the list holds while it is built.
Built ==
  /\ gpc \in {"search", "aistruct", "canon"} =>
       /\ Len(glist) + Len(todo) = Len(found)
       /\ \A k \in 1..Len(glist) : Bare(glist[k], found[k])
       /\ \A k \in 1..Len(todo) : todo[k] = found[Len(glist) + k]
       /\ gpc # "aistruct" => todo = <<>>
  /\ gpc \in {"canon", "serv", "port"} => found # <<>>
  /\ gpc = "serv" => Len(glist) = Len(found) /\ \A k \in 1..Len(found) : Bare(glist[k], found[k])
  /\ gpc = "port" => serv # "none" /\ (FirstTurn \/ SecondTurn \/ AllTurns)

GaiInv == GaiTypeOK /\ Allocated /\ OnItsWay /\ Built /\ G!Exact

LEMMA SameCardinalityG ==
  ASSUME NEW Elem
  PROVE  G!Cardinality(Elem) = Cardinality(Elem)
  BY DEF G!Cardinality, Cardinality

\* What appending to a queue and taking from it do.
LEMMA QueueFacts ==
  ASSUME NEW Elem, NEW q \in Seq(Elem), NEW x \in Elem
  PROVE  /\ Append(q, x) \in Seq(Elem) /\ Len(Append(q, x)) = Len(q) + 1 /\ Len(q) \in Nat
         /\ \A k \in 1..Len(q) : Append(q, x)[k] = q[k]
         /\ Append(q, x)[Len(q) + 1] = x
         /\ q # <<>> => /\ Head(q) = q[1] /\ Head(q) \in Elem /\ Tail(q) \in Seq(Elem)
                        /\ Len(Tail(q)) = Len(q) - 1
                        /\ \A k \in 1..Len(Tail(q)) : Tail(q)[k] = q[k + 1]
  OBVIOUS

\* What is in a queue is of its kind.
LEMMA QueueOf ==
  ASSUME NEW Elem, NEW q \in Seq(Elem)
  PROVE  Len(q) \in Nat /\ (\A k \in 1..Len(q) : q[k] \in Elem) /\ (q = <<>> <=> Len(q) = 0)
  OBVIOUS

\* A sequence with one element more in the middle: how a clone gets behind its entry.
Inserted(new, q, i, x) ==
  /\ Len(new) = Len(q) + 1
  /\ \A k \in 1 .. Len(q) + 1 : new[k] = IF k < i THEN q[k] ELSE IF k = i THEN x ELSE q[k - 1]

LEMMA InsertAtIs ==
  ASSUME NEW Elem, NEW q \in Seq(Elem), NEW x \in Elem, NEW i \in 1 .. Len(q) + 1
  PROVE  G!InsertAt(q, i, x) \in Seq(Elem) /\ Inserted(G!InsertAt(q, i, x), q, i, x)
<1> DEFINE u == SubSeq(q, 1, i - 1)
           v == SubSeq(q, i, Len(q))
           w == u \o <<x>>
<1>1. u \in Seq(Elem) /\ Len(u) = i - 1 /\ \A k \in 1 .. i - 1 : u[k] = q[k]
  OBVIOUS
<1>2. v \in Seq(Elem) /\ Len(v) = Len(q) - i + 1 /\ \A k \in 1 .. Len(q) - i + 1 : v[k] = q[k + i - 1]
  OBVIOUS
<1>3. G!InsertAt(q, i, x) = w \o v
  BY DEF G!InsertAt
<1> HIDE DEF u, v
<1>4. w \in Seq(Elem) /\ Len(w) = i /\ \A k \in 1..i : w[k] = IF k < i THEN q[k] ELSE x
  BY <1>1
<1> HIDE DEF w
<1>5. Len(q) \in Nat /\ Len(w) + Len(v) = Len(q) + 1
  BY <1>2, <1>4
<1>6. /\ w \o v \in Seq(Elem) /\ Len(w \o v) = Len(w) + Len(v)
      /\ \A k \in 1 .. Len(w) + Len(v) : (w \o v)[k] = IF k <= Len(w) THEN w[k] ELSE v[k - Len(w)]
  BY <1>2, <1>4, ConcatProperties
<1>7. ASSUME NEW k \in 1 .. Len(q) + 1
      PROVE  (w \o v)[k] = IF k < i THEN q[k] ELSE IF k = i THEN x ELSE q[k - 1]
  <2>1. (w \o v)[k] = IF k <= i THEN w[k] ELSE v[k - i]
    BY <1>4, <1>5, <1>6
  <2>2. CASE k <= i
    BY <1>4, <2>1, <2>2
  <2>3. CASE k > i
    <3>1. k - i \in 1 .. Len(q) - i + 1 /\ (k - i) + i - 1 = k - 1
      BY <1>5, <2>3
    <3>2. v[k - i] = q[k - 1]
      BY <1>2, <3>1
    <3>3. QED BY <2>1, <2>3, <3>2
  <2>4. QED BY <1>5, <2>2, <2>3
<1>8. Inserted(w \o v, q, i, x)
  BY <1>5, <1>6, <1>7 DEF Inserted
<1>9. QED BY <1>3, <1>6, <1>8

\* The blocks of a list of which one entry at most has no address, and only the first
\* may have a name.
LEMMA BlocksAre ==
  ASSUME GaiTypeOK, Allocated
  PROVE  heap - G!Blocks(glist) = Aside
<1> DEFINE L == 1..Len(glist)
           Full == {k \in L : glist[k].addr}
           Named == {k \in L : glist[k].canon}
<1>0. Len(glist) \in Nat /\ IsFiniteSet(L) /\ Cardinality(L) = Len(glist)
  <2>1. Len(glist) \in Nat
    BY DEF GaiTypeOK
  <2>2. ASSUME NEW n \in Nat PROVE IsFiniteSet(1..n) /\ Cardinality(1..n) = n
    BY FS_Interval
  <2>3. QED BY <2>1, <2>2, Zenon
<1>1. Cardinality(Full) = Len(glist) - (IF Short # {} THEN 1 ELSE 0)
  <2>1. CASE Short = {}
    <3>1. Full = L
      BY <2>1 DEF Short
    <3>2. Cardinality(Full) = Len(glist) /\ Len(glist) \in Nat
      BY <1>0, <3>1
    <3> HIDE DEF Full
    <3>3. QED BY <2>1, <3>2
  <2>2. CASE Short # {}
    <3>1. PICK k \in Short : TRUE
      BY <2>2
    <3>2. k \in L /\ Full = L \ {k}
      BY <3>1 DEF Allocated, Short
    <3>3. Cardinality(Full) = Len(glist) - 1
      BY <1>0, <3>2, FS_RemoveElement
    <3> HIDE DEF Full
    <3>4. QED BY <1>0, <2>2, <3>3
  <2>3. QED BY <2>1, <2>2
<1>2. Cardinality(Named) = NameOf
  <2>1. \A k \in Named : k = 1
    BY <1>0 DEF Allocated
  <2>2. CASE NameOf = 1
    <3>1. glist # <<>> /\ glist[1].canon
      BY <2>2 DEF NameOf
    <3>2. Named = {1}
      BY <1>0, <2>1, <3>1 DEF GaiTypeOK
    <3>3. QED BY <2>2, <3>2, FS_Singleton
  <2>3. CASE NameOf = 0
    <3>1. Named = {}
      BY <1>0, <2>1, <2>3 DEF NameOf, GaiTypeOK
    <3>2. QED BY <2>3, <3>1, FS_EmptySet
  <2>4. QED BY <2>2, <2>3 DEF NameOf
<1>3. G!Blocks(glist) = Len(glist) + Cardinality(Full) + Cardinality(Named)
  BY SameCardinalityG, Zenon DEF G!Blocks
<1> HIDE DEF Full, Named
<1>4. NameOf \in Nat /\ Aside \in Nat /\ heap \in Int
  BY DEF NameOf, Aside, GaiTypeOK
<1>5. heap = 2 * Len(glist) - (IF Short # {} THEN 1 ELSE 0) + NameOf + Aside
  BY DEF Allocated
<1>6. QED BY <1>0, <1>1, <1>2, <1>3, <1>4, <1>5

LEMMA OneAndOne ==
  ASSUME NEW Elem, NEW x \in Elem, NEW y \in Elem
  PROVE  /\ <<x>> \in Seq(Elem) /\ <<>> \in Seq(Elem)
         /\ <<x>> \o <<y>> = <<x, y>>
<1>1. <<x>> \in Seq(Elem) /\ <<y>> \in Seq(Elem) /\ <<>> \in Seq(Elem) /\ <<x, y>> \in Seq(Elem)
  OBVIOUS
<1> DEFINE u == <<x>>
           v == <<y>>
           w == u \o v
<1>2. /\ Len(u) = 1 /\ Len(v) = 1 /\ u[1] = x /\ v[1] = y
  OBVIOUS
<1> HIDE DEF u, v
<1>3. /\ w \in Seq(Elem) /\ Len(w) = Len(u) + Len(v)
      /\ \A k \in 1 .. Len(u) + Len(v) : w[k] = IF k <= Len(u) THEN u[k] ELSE v[k - Len(u)]
  BY <1>1, ConcatProperties DEF u, v
<1>4. Len(w) = 2 /\ w[1] = x /\ w[2] = y
  BY <1>2, <1>3
<1> DEFINE z == <<x, y>>
<1>5. z \in Seq(Elem) /\ Len(z) = 2 /\ z[1] = x /\ z[2] = y
  OBVIOUS
<1> HIDE DEF w, z
<1>6. \A i \in 1..Len(w) : w[i] = z[i]
  <2>1. \A i \in 1..2 : i = 1 \/ i = 2
    OBVIOUS
  <2>2. QED BY <1>4, <1>5, <2>1
<1>7. w = z
  BY <1>3, <1>4, <1>5, <1>6, SeqEqual
<1>8. QED BY <1>1, <1>7 DEF u, v, w, z

\* Streams first.
LEMMA InTurnIs ==
  ASSUME NEW types
  PROVE  G!InTurn(types) = IF "STREAM" \in types /\ "DGRAM" \in types THEN <<"STREAM", "DGRAM">>
                           ELSE IF "STREAM" \in types THEN <<"STREAM">>
                           ELSE IF "DGRAM" \in types THEN <<"DGRAM">> ELSE <<>>
<1> DEFINE Known == {"STREAM", "DGRAM"}
<1>0. "STREAM" \in Known /\ "DGRAM" \in Known
  OBVIOUS
<1>1. \A q \in Seq(Known) : q \o <<>> = q /\ <<>> \o q = q
  OBVIOUS
<1>2. <<"STREAM">> \o <<"DGRAM">> = <<"STREAM", "DGRAM">>
  BY <1>0, OneAndOne
<1>3. <<"STREAM">> \in Seq(Known) /\ <<"DGRAM">> \in Seq(Known) /\ <<>> \in Seq(Known)
  BY <1>0, OneAndOne
<1> DEFINE one == <<"STREAM">>
           two == <<"DGRAM">>
           none == <<>>
<1>4. G!InTurn(types) = (IF "STREAM" \in types THEN one ELSE none) \o (IF "DGRAM" \in types THEN two ELSE none)
  BY Zenon DEF G!InTurn
<1>5. one \o none = one /\ none \o two = two /\ none \o none = none /\ one \o two = <<"STREAM", "DGRAM">>
  BY <1>1, <1>2, <1>3
<1> HIDE DEF one, two, none
<1>6. G!InTurn(types) = IF "STREAM" \in types /\ "DGRAM" \in types THEN one \o two
                        ELSE IF "STREAM" \in types THEN one \o none
                        ELSE IF "DGRAM" \in types THEN none \o two ELSE none \o none
  BY <1>4, Zenon
<1>7. QED BY <1>5, <1>6, Zenon DEF one, two, none

\* The types a service is asked for.
LEMMA TurnsAre ==
  ASSUME GaiArgs
  PROVE  /\ hints.socktype \in G!Types
         /\ \/ Turns = <<>>
            \/ hints.socktype # "0" /\ Turns = <<hints.socktype>>
            \/ hints.socktype = "0" /\ Turns \in {<<"STREAM">>, <<"DGRAM">>, <<"STREAM", "DGRAM">>}
<1> DEFINE asked == {t \in known : G!Asked(t)}
<1>1. hints.socktype \in G!Types /\ known \in SUBSET {"STREAM", "DGRAM"}
  BY DEF GaiArgs, G!Types
<1>2. G!InTurn(asked) \in {<<>>, <<"STREAM">>, <<"DGRAM">>, <<"STREAM", "DGRAM">>}
  BY InTurnIs
<1>3. CASE hints.socktype = "0"
  BY <1>1, <1>2, <1>3 DEF Turns
<1>4. CASE hints.socktype # "0"
  <2>1. asked \in {{}, {hints.socktype}}
    BY <1>1, <1>4 DEF G!Asked
  <2>2. asked = {hints.socktype} => hints.socktype \in {"STREAM", "DGRAM"}
    BY <1>1
  <2>3. G!InTurn(asked) \in {<<>>, <<hints.socktype>>}
    <3>1. CASE asked = {}
      BY <3>1, InTurnIs
    <3>2. CASE asked = {hints.socktype}
      BY <2>2, <3>2, InTurnIs
    <3>3. QED BY <2>1, <3>1, <3>2
  <2>4. QED BY <1>1, <1>4, <2>3 DEF Turns
<1>5. QED BY <1>3, <1>4

\* They are what should be there.
LEMMA WantedIs ==
  ASSUME GaiArgs
  PROVE  /\ serv = "none" => G!Wanted = <<<<hints.socktype, "0">>>>
         /\ serv # "none" /\ Turns # <<>> => G!Wanted = [k \in 1..Len(Turns) |-> <<Turns[k], Turns[k]>>]
<1> DEFINE types == G!InTurn({t \in G!Types : G!Asked(t) /\ (serv = "number" \/ t \in known)})
<1>1. CASE serv = "none"
  BY <1>1 DEF G!Wanted
<1>2. CASE serv \notin {"none", "number"}
  <2>1. {t \in G!Types : G!Asked(t) /\ (serv = "number" \/ t \in known)} = {t \in known : G!Asked(t)}
    BY <1>2 DEF GaiArgs, G!Types
  <2>2. types = Turns
    BY <1>2, <2>1 DEF Turns
  <2>3. G!Wanted = [k \in 1..Len(types) |-> <<types[k], types[k]>>]
    BY <1>2 DEF G!Wanted
  <2> HIDE DEF types
  <2>4. QED BY <1>2, <2>2, <2>3
<1>3. CASE serv = "number" /\ hints.socktype = "0"
  <2>1. known = {}
    BY <1>3 DEF GaiArgs
  <2>2. Turns # <<>> => Turns = <<"STREAM", "DGRAM">>
    <3>1. G!InTurn({t \in known : G!Asked(t)}) = <<>>
      BY <2>1, InTurnIs
    <3>2. QED BY <1>3, <3>1 DEF Turns
  <2>3. types = <<"STREAM", "DGRAM">>
    <3> DEFINE some == {t \in G!Types : G!Asked(t) /\ (serv = "number" \/ t \in known)}
    <3>1. "STREAM" \in some /\ "DGRAM" \in some
      BY <1>3 DEF G!Asked, G!Types
    <3>2. QED BY <3>1, InTurnIs
  <2>4. G!Wanted = [k \in 1..Len(types) |-> <<types[k], types[k]>>]
    BY <1>3 DEF G!Wanted
  <2> HIDE DEF types
  <2>5. QED BY <1>3, <2>2, <2>3, <2>4
<1>4. CASE serv = "number" /\ hints.socktype # "0"
  <2>1. Turns = <<hints.socktype>>
    BY <1>4 DEF Turns
  <2>2. CASE hints.socktype = "RAW"
    BY <1>4, <2>1, <2>2 DEF G!Wanted
  <2>3. CASE hints.socktype # "RAW"
    <3>1. hints.socktype \in {"STREAM", "DGRAM"}
      BY <1>4, <2>3 DEF GaiArgs
    <3>2. types = <<hints.socktype>>
      <4> DEFINE some == {t \in G!Types : G!Asked(t) /\ (serv = "number" \/ t \in known)}
      <4>1. \A t : t \in some <=> t = hints.socktype
        BY <1>4, <3>1 DEF G!Asked, G!Types
      <4> HIDE DEF some
      <4>2. G!InTurn(some) = <<hints.socktype>>
        BY <3>1, <4>1, InTurnIs
      <4>3. QED BY <4>2 DEF some
    <3>3. G!Wanted = [k \in 1..Len(types) |-> <<types[k], types[k]>>]
      BY <1>4, <2>3 DEF G!Wanted
    <3> HIDE DEF types
    <3>4. QED BY <1>4, <2>1, <3>2, <3>3
  <2>4. QED BY <2>2, <2>3
<1>5. QED BY <1>1, <1>2, <1>3, <1>4

\* The arguments stay, and with them what is wanted.
LEMMA ArgsStay ==
  ASSUME GaiArgs, UNCHANGED G!args
  PROVE  /\ GaiArgs' /\ Turns' = Turns /\ G!Wanted' = G!Wanted
         /\ UNCHANGED <<version, host, serv, gflags, hints, known, inet6>>
<1>1. UNCHANGED <<version, host, serv, gflags, hints, known, inet6>>
  BY DEF G!args
<1>2. GaiArgs'
  BY <1>1 DEF GaiArgs
<1>3. Turns' = Turns
  BY <1>1 DEF Turns, G!InTurn, G!Asked
<1>4. G!Wanted' = G!Wanted
  BY <1>1 DEF G!Wanted, G!InTurn, G!Asked
<1>5. QED BY <1>1, <1>2, <1>3, <1>4

\* The invariant holds when getaddrinfo() is called.
LEMMA GaiInit == ASSUME G!Init PROVE GaiInv
<1>1. GaiTypeOK
  <2>1. GaiArgs
    <3>1. /\ version \in {"gai", "free"}
          /\ host \in {"none", "v4", "v6", "name", "path"} /\ serv \in {"none", "number", "name", "path"}
      BY DEF G!Init
    <3>2. gflags \in SUBSET {"PASSIVE", "CANONNAME", "other"}
      <4>1. gflags \in SUBSET {"PASSIVE", "CANONNAME"} \/ gflags = {"other"}
        BY Zenon DEF G!Init
      <4>2. QED BY <4>1
    <3>3. /\ hints.family \in {"INET", "INET6", "UNSPEC", "LOCAL", "other"}
          /\ hints.socktype \in {"0", "STREAM", "DGRAM", "RAW"}
      BY DEF G!Init, G!Families, G!Types
    <3>4. known \in SUBSET {"STREAM", "DGRAM"} /\ (serv # "name" => known = {})
      BY DEF G!Init
    <3>5. inet6 \in BOOLEAN
      BY DEF G!Init
    <3>6. QED BY <3>1, <3>2, <3>3, <3>4, <3>5 DEF GaiArgs
  <2>2. /\ search \in Seq(GaiSearches) /\ todo \in Seq(GaiFamilies) /\ found \in Seq(GaiFamilies)
        /\ glist \in Seq(GaiEntries) /\ ports \in Seq(G!Types)
    BY EmptySeq DEF G!Init
  <2>3. headset \in BOOLEAN /\ canon \in BOOLEAN
    BY DEF G!Init
  <2>4. gpc = "check" /\ gpos = 1 /\ nfound = 0 /\ heap = 0
    BY DEF G!Init
  <2>5. QED BY <2>1, <2>2, <2>3, <2>4 DEF GaiTypeOK
<1>2. Short = {} /\ NameOf = 0 /\ Aside = 0
  BY DEF G!Init, Short, NameOf, Aside
<1>3. Allocated
  BY <1>2 DEF G!Init, Allocated
<1>4. OnItsWay
  <2>1. \A k \in 1..Len(<<>>) : FALSE
    OBVIOUS
  <2>2. search = <<>> /\ found = <<>> /\ glist = <<>> /\ todo = <<>> /\ gpc = "check" /\ nfound = 0
        /\ headset = (version = "gai") /\ version \in {"gai", "free"} /\ err = "ok"
    BY DEF G!Init
  <2>3. QED BY <2>1, <2>2 DEF OnItsWay
<1>5. Built /\ G!Exact
  BY DEF G!Init, Built, G!Exact
<1>6. QED BY <1>1, <1>3, <1>4, <1>5 DEF GaiInv

\* The checks.
LEMMA GaiChecks == ASSUME GaiInv, G!CheckGai \/ G!CheckFree PROVE GaiInv'
<1>0. GaiTypeOK /\ Allocated /\ OnItsWay /\ GaiArgs
  BY DEF GaiInv, GaiTypeOK
<1>1. /\ gpc = "check"
      /\ UNCHANGED <<todo, found, glist, headset, canon, ports, gpos, nfound, heap>>
      /\ UNCHANGED G!args
  BY DEF G!CheckGai, G!CheckFree
<1>2. /\ UNCHANGED <<version, host, serv, gflags, hints, known, inet6>>
      /\ GaiArgs'
  BY <1>0, <1>1, ArgsStay
<1>3. /\ search' \in Seq(GaiSearches)
      /\ version = "gai" => \A k \in 1..Len(search') : search'[k].family \in GaiFamilies
      /\ \/ gpc' = "bad" /\ err' # "ok"
         \/ gpc' = "unix" /\ version = "gai"
         \/ gpc' = "quit" /\ hints.family = "LOCAL"
         \/ gpc' = "search"
         \/ gpc' = "local" /\ version = "free" /\ (host = "path" \/ serv = "path")
  <2>0. /\ search \in Seq(GaiSearches)
        /\ version = "gai" => \A k \in 1..Len(search) : search[k].family \in GaiFamilies
    BY <1>0 DEF GaiTypeOK, OnItsWay
  <2>1. CASE G!CheckGai
    <3>1. CASE G!Echeck # "ok"
      BY <2>0, <2>1, <3>1 DEF G!CheckGai, G!Fail
    <3>2. CASE G!Echeck = "ok" /\ host = "path" /\ serv = "path"
      BY <2>0, <2>1, <3>2 DEF G!CheckGai
    <3>3. CASE G!Echeck = "ok" /\ ~(host = "path" /\ serv = "path")
      <4> DEFINE six == [host |-> IF host = "none" THEN "v6" ELSE host, family |-> "INET6"]
                 four == [host |-> IF host # "none" THEN host ELSE IF G!Passive THEN "v4" ELSE "name",
                          family |-> "INET"]
      <4>1. /\ six \in GaiSearches /\ four \in GaiSearches
            /\ six.family \in GaiFamilies /\ four.family \in GaiFamilies
        BY <1>0 DEF GaiArgs, GaiSearches, GaiFamilies
      <4>2. G!Nsearch = (IF hints.family \in {"UNSPEC", "INET6"} THEN <<six>> ELSE <<>>)
                        \o (IF hints.family \in {"UNSPEC", "INET"} THEN <<four>> ELSE <<>>)
        BY DEF G!Nsearch, G!family
      <4> HIDE DEF six, four
      <4>3. /\ <<six>> \in Seq(GaiSearches) /\ <<four>> \in Seq(GaiSearches)
            /\ <<>> \in Seq(GaiSearches) /\ Len(<<six>>) = 1 /\ Len(<<four>>) = 1 /\ Len(<<>>) = 0
        BY <4>1
      <4>3a. <<six>>[1] = six /\ <<four>>[1] = four
        OBVIOUS
      <4> DEFINE left == IF hints.family \in {"UNSPEC", "INET6"} THEN <<six>> ELSE <<>>
                 right == IF hints.family \in {"UNSPEC", "INET"} THEN <<four>> ELSE <<>>
      <4>3b. /\ left \in Seq(GaiSearches) /\ \A k \in 1..Len(left) : left[k].family \in GaiFamilies
             /\ right \in Seq(GaiSearches) /\ \A k \in 1..Len(right) : right[k].family \in GaiFamilies
             /\ Len(left) \in Nat /\ Len(right) \in Nat
        <5>1. \A k \in 1..1 : k = 1
          OBVIOUS
        <5>2. \A k \in 1..0 : FALSE
          OBVIOUS
        <5>3. QED BY <4>1, <4>3, <4>3a, <5>1, <5>2
      <4>4. /\ G!Nsearch \in Seq(GaiSearches)
            /\ \A k \in 1..Len(G!Nsearch) : G!Nsearch[k].family \in GaiFamilies
        <5> HIDE DEF left, right
        <5>1. /\ left \o right \in Seq(GaiSearches) /\ Len(left \o right) = Len(left) + Len(right)
              /\ \A k \in 1 .. Len(left) + Len(right) :
                   (left \o right)[k] = IF k <= Len(left) THEN left[k] ELSE right[k - Len(left)]
          BY <4>3b, ConcatProperties
        <5>2. ASSUME NEW k \in 1 .. Len(left) + Len(right) PROVE (left \o right)[k].family \in GaiFamilies
          <6>1. CASE k <= Len(left)
            BY <4>3b, <5>1, <6>1
          <6>2. CASE ~(k <= Len(left))
            <7>1. k - Len(left) \in 1..Len(right)
              BY <4>3b, <6>2
            <7>2. QED BY <4>3b, <5>1, <6>2, <7>1
          <6>3. QED BY <6>1, <6>2
        <5>3. G!Nsearch = left \o right
          BY <4>2 DEF left, right
        <5>4. QED BY <5>1, <5>2, <5>3
      <4>5. G!Nsearch = <<>> => hints.family \notin {"UNSPEC", "INET", "INET6"}
        <5>1. hints.family = "UNSPEC" => Len(G!Nsearch) = 2
          BY <4>2, <4>3, ConcatProperties
        <5>2. hints.family = "INET6" => Len(G!Nsearch) = 1
          BY <4>2, <4>3, ConcatProperties
        <5>3. hints.family = "INET" => Len(G!Nsearch) = 1
          BY <4>2, <4>3, ConcatProperties
        <5>4. QED BY <4>3, <5>1, <5>2, <5>3
      <4>6. hints.family # "other"
        BY <3>3 DEF G!Echeck, G!family
      <4>7. G!Nsearch = <<>> => hints.family = "LOCAL"
        BY <1>0, <4>5, <4>6 DEF GaiArgs
      <4>8. QED BY <2>1, <3>3, <4>4, <4>7 DEF G!CheckGai
    <3>4. QED BY <3>1, <3>2, <3>3
  <2>2. CASE G!CheckFree
    <3> DEFINE numeric == [v4 |-> "INET", v6 |-> "INET6"]
               wild == [INET |-> "v4", INET6 |-> "v6"]
               named == IF host # "none" THEN host
                        ELSE IF ~G!Passive THEN "name" ELSE IF hints.family \in G!Families THEN wild[hints.family] ELSE "none"
               f == IF hints.family = "UNSPEC" /\ host \in {"v4", "v6"} THEN numeric[host] ELSE hints.family
               one == [host |-> named, family |-> f]
    <3>1. one \in GaiSearches
      <4>1. named \in {"none", "v4", "v6", "name", "path"}
        BY <1>0 DEF GaiArgs, G!Families
      <4>2. f \in {"INET", "INET6", "UNSPEC", "LOCAL", "other"}
        BY <1>0 DEF GaiArgs
      <4> HIDE DEF named, f
      <4>3. QED BY <4>1, <4>2 DEF GaiSearches, GaiFamilies
    <3> HIDE DEF one
    <3>2. <<one>> \in Seq(GaiSearches)
      BY <3>1
    <3>3. \/ UNCHANGED search /\ gpc' = "bad" /\ err' # "ok"
          \/ UNCHANGED search /\ gpc' = "local" /\ version = "free" /\ (host = "path" \/ serv = "path")
          \/ gpc' = "search" /\ search' = <<one>>
      BY <2>2 DEF G!CheckFree, G!Fail, G!family, one
    <3>4. version # "gai"
      BY <2>2 DEF G!CheckFree
    <3>5. QED BY <2>0, <3>2, <3>3, <3>4
  <2>3. QED BY <2>1, <2>2
<1>4. GaiTypeOK'
  BY <1>0, <1>1, <1>2, <1>3 DEF GaiTypeOK
<1>5. Short' = Short /\ NameOf' = NameOf /\ Aside' = Aside /\ Short = {} /\ NameOf = 0 /\ ~canon
  BY <1>0, <1>1 DEF Short, NameOf, Aside, Allocated, Working
<1>6. Allocated'
  BY <1>0, <1>1, <1>2, <1>3, <1>5 DEF Allocated
<1>7. OnItsWay'
  BY <1>0, <1>1, <1>2, <1>3 DEF OnItsWay
<1>8. Built'
  <2>1. found = <<>> /\ glist = <<>> /\ todo = <<>> /\ Len(<<>>) = 0
    BY <1>0, <1>1 DEF OnItsWay
  <2>2. QED BY <1>1, <1>3, <2>1 DEF Built
<1>9. G!Exact'
  BY <1>3 DEF G!Exact
<1>10. QED BY <1>4, <1>6, <1>7, <1>8, <1>9 DEF GaiInv

\* More addresses have been found, and are to be stored.
MoreFound(old, new, todo_) ==
  /\ new \in Seq(GaiFamilies) /\ todo_ \in Seq(GaiFamilies) /\ new # <<>>
  /\ Len(new) = Len(old) + Len(todo_)
  /\ \A k \in 1..Len(old) : new[k] = old[k]
  /\ \A k \in 1..Len(todo_) : new[Len(old) + k] = todo_[k]

LEMMA OneMore ==
  ASSUME NEW old \in Seq(GaiFamilies), NEW f \in GaiFamilies
  PROVE  MoreFound(old, Append(old, f), <<f>>)
<1>1. /\ Append(old, f) \in Seq(GaiFamilies) /\ Len(Append(old, f)) = Len(old) + 1 /\ Len(old) \in Nat
      /\ \A k \in 1..Len(old) : Append(old, f)[k] = old[k]
      /\ Append(old, f)[Len(old) + 1] = f
  BY QueueFacts
<1>2. <<f>> \in Seq(GaiFamilies) /\ Len(<<f>>) = 1 /\ <<f>>[1] = f
  OBVIOUS
<1>3. Append(old, f) # <<>>
  BY <1>1, QueueOf
<1>4. \A k \in 1..1 : k = 1
  OBVIOUS
<1> DEFINE new == Append(old, f)
           one == <<f>>
<1> HIDE DEF new, one
<1>5. MoreFound(old, new, one)
  BY <1>1, <1>2, <1>3, <1>4 DEF MoreFound, new, one
<1>6. QED BY <1>5 DEF new, one

LEMMA SomeMore ==
  ASSUME NEW old \in Seq(GaiFamilies), NEW f \in GaiFamilies, NEW n \in Int, n >= 1
  PROVE  G!Of(f, n) \in Seq(GaiFamilies) /\ G!Of(f, n) # <<>> /\ MoreFound(old, old \o G!Of(f, n), G!Of(f, n))
<1> DEFINE some == G!Of(f, n)
<1>1. some \in Seq(GaiFamilies) /\ Len(some) = n
  BY DEF G!Of
<1> HIDE DEF some
<1>2. /\ old \o some \in Seq(GaiFamilies) /\ Len(old \o some) = Len(old) + Len(some)
      /\ \A k \in 1 .. Len(old) + Len(some) : (old \o some)[k] = IF k <= Len(old) THEN old[k] ELSE some[k - Len(old)]
  BY <1>1, ConcatProperties
<1>3. Len(old) \in Nat
  OBVIOUS
<1>4. old \o some # <<>> /\ some # <<>>
  BY <1>1, <1>2, <1>3, QueueOf
<1>5. \A k \in 1..Len(old) : (old \o some)[k] = old[k]
  BY <1>1, <1>2, <1>3
<1>6. ASSUME NEW k \in 1..Len(some) PROVE (old \o some)[Len(old) + k] = some[k]
  <2>1. Len(old) + k \in 1 .. Len(old) + Len(some) /\ Len(old) + k - Len(old) = k /\ ~(Len(old) + k <= Len(old))
    BY <1>1, <1>3
  <2>2. QED BY <1>2, <2>1
<1>7. MoreFound(old, old \o some, some)
  BY <1>1, <1>2, <1>4, <1>5, <1>6 DEF MoreFound
<1>8. QED BY <1>1, <1>4, <1>7 DEF some

\* A search in libgai.
LEMMA GaiSearchGai == ASSUME GaiInv, G!SearchGai PROVE GaiInv'
<1>0. GaiTypeOK /\ Allocated /\ OnItsWay /\ Built /\ GaiArgs
  BY DEF GaiInv, GaiTypeOK
<1>1. /\ gpc = "search" /\ version = "gai"
      /\ UNCHANGED <<glist, headset, ports, gpos, nfound>>
      /\ UNCHANGED G!args
  BY DEF G!SearchGai
<1>2. /\ UNCHANGED <<version, host, serv, gflags, hints, known, inet6>>
      /\ GaiArgs' /\ Turns' = Turns
  BY <1>0, <1>1, ArgsStay
<1> DEFINE Same == UNCHANGED <<search, todo, found, canon, heap>>
           Kept == \/ UNCHANGED <<canon, heap>>
                   \/ ~canon /\ canon' = TRUE /\ heap' = heap + 1 /\ host # "none" /\ "CANONNAME" \in gflags
           Failed == gpc' = "bad" /\ err' # "ok" /\ Same
           Complete == gpc' = "canon" /\ glist # <<>> /\ Same
           Shorter == search # <<>> /\ search' = Tail(search)
           None == gpc' = "search" /\ UNCHANGED <<todo, found, canon, heap>> /\ Shorter
           Some == gpc' = "aistruct" /\ MoreFound(found, found', todo') /\ Kept /\ Shorter
<1>3. Failed \/ Complete \/ None \/ Some
  <2>0. /\ search \in Seq(GaiSearches) /\ found \in Seq(GaiFamilies)
        /\ search # <<>> => Head(search) \in GaiSearches /\ Head(search).family \in GaiFamilies
    <3>1. search \in Seq(GaiSearches) /\ found \in Seq(GaiFamilies)
      BY <1>0 DEF GaiTypeOK
    <3>2. search # <<>> => 1 \in 1..Len(search) /\ Head(search) = search[1]
      BY <3>1
    <3>3. \A k \in 1..Len(search) : search[k].family \in GaiFamilies
      BY <1>0, <1>1 DEF OnItsWay
    <3>4. \A k \in 1..Len(search) : search[k] \in GaiSearches
      BY <3>1, QueueOf
    <3>5. QED BY <3>1, <3>2, <3>3, <3>4
  <2>1. CASE search = <<>>
    <3>1. /\ IF glist = <<>> THEN err' = "NONAME" /\ gpc' = "bad" ELSE gpc' = "canon"
          /\ Same
      BY <2>1 DEF G!SearchGai, G!Fail
    <3>2. QED BY <3>1
  <2>2. CASE search # <<>> /\ G!Numeric(Head(search))
    <3> DEFINE s == Head(search)
               f == IF s.host = "v4" THEN "INET" ELSE "INET6"
    <3>0. f \in GaiFamilies
      BY DEF GaiFamilies
    <3>1. \/ Failed
          \/ None
          \/ gpc' = "aistruct" /\ todo' = <<f>> /\ found' = Append(found, f) /\ search' = Tail(search)
             /\ UNCHANGED <<canon, heap>>
      BY <1>1, <2>0, <2>2 DEF G!Numeric, G!Fail, G!family
    <3> HIDE DEF f
    <3>2. QED BY <2>0, <2>2, <3>0, <3>1, OneMore
  <2>3. CASE search # <<>> /\ G!Lookup(Head(search))
    <3> DEFINE s == Head(search)
               two == hints.family = "UNSPEC"
               save == host # "none" /\ "CANONNAME" \in gflags /\ ~canon
    <3>1. \/ /\ IF two THEN search' = Tail(search) /\ UNCHANGED <<gpc, err>>
                ELSE err' = "h_errno" /\ gpc' = "bad" /\ UNCHANGED search
             /\ UNCHANGED <<todo, found, canon, heap>>
          \/ \E n \in 1..MaxAddrs, f \in {s.family} \cup (IF two THEN {} ELSE {"INET"}) :
               IF hints.family \notin {"UNSPEC", f}
               THEN err' = "ADDRFAMILY" /\ gpc' = "bad" /\ Same
               ELSE \/ err' = "MEMORY" /\ gpc' = "bad" /\ Same
                    \/ /\ search' = Tail(search) /\ gpc' = "aistruct"
                       /\ todo' = G!Of(f, n) /\ found' = found \o todo'
                       /\ canon' = (canon \/ save) /\ heap' = IF save THEN heap + 1 ELSE heap
      BY <2>3 DEF G!Lookup, G!Fail, G!family
    <3>2. ASSUME NEW n \in 1..MaxAddrs, NEW f \in {s.family} \cup (IF two THEN {} ELSE {"INET"}),
                 hints.family \in {"UNSPEC", f},
                 search' = Tail(search), gpc' = "aistruct",
                 todo' = G!Of(f, n), found' = found \o todo',
                 canon' = (canon \/ save), heap' = IF save THEN heap + 1 ELSE heap
          PROVE  Some
      <4>1. f \in GaiFamilies /\ n \in Int /\ n >= 1
        BY <2>0, <2>3, <3>2 DEF GaiFamilies
      <4>2. MoreFound(found, found', todo')
        BY <2>0, <3>2, <4>1, SomeMore
      <4>3. canon \in BOOLEAN
        BY <1>0 DEF GaiTypeOK
      <4>4. Kept
        BY <3>2, <4>3
      <4>5. QED BY <2>3, <3>2, <4>2, <4>4
    <3>3. QED BY <1>1, <2>0, <2>3, <3>1, <3>2
  <2>4. QED BY <2>1, <2>2, <2>3 DEF G!SearchGai
<1>4. /\ search \in Seq(GaiSearches) /\ search' \in Seq(GaiSearches)
      /\ \A k \in 1..Len(search') : search'[k].family \in GaiFamilies
  <2>1. search \in Seq(GaiSearches) /\ \A k \in 1..Len(search) : search[k].family \in GaiFamilies
    BY <1>0, <1>1 DEF GaiTypeOK, OnItsWay
  <2>2. CASE UNCHANGED search
    BY <2>1, <2>2
  <2>3. CASE Shorter
    <3>1. /\ Len(search) \in Nat /\ Tail(search) \in Seq(GaiSearches) /\ Len(Tail(search)) = Len(search) - 1
          /\ \A k \in 1..Len(Tail(search)) : Tail(search)[k] = search[k + 1]
      BY <2>1, <2>3
    <3>2. QED BY <2>1, <2>3, <3>1
  <2>4. QED BY <1>3, <2>2, <2>3
<1>5. /\ canon \in BOOLEAN /\ canon' \in BOOLEAN /\ heap \in Int
      /\ heap' \in Int /\ heap' - heap = Aside' - Aside /\ Aside \in Nat /\ Aside' \in Nat
      /\ canon' => canon \/ (host # "none" /\ "CANONNAME" \in gflags)
      /\ gpc' \in {"bad", "canon", "search"} => UNCHANGED canon
  <2>0. canon \in BOOLEAN /\ heap \in Int
    BY <1>0 DEF GaiTypeOK
  <2>1. CASE UNCHANGED <<canon, heap>>
    BY <2>0, <2>1 DEF Aside
  <2>2. CASE Some /\ ~canon /\ canon' = TRUE /\ heap' = heap + 1 /\ host # "none" /\ "CANONNAME" \in gflags
    BY <2>0, <2>2 DEF Aside
  <2>3. QED BY <1>3, <2>1, <2>2
<1> HIDE DEF Kept
<1>6. GaiTypeOK'
  <2>1. todo' \in Seq(GaiFamilies) /\ found' \in Seq(GaiFamilies)
    BY <1>0, <1>3 DEF GaiTypeOK, MoreFound
  <2>2. gpc' \in {"bad", "canon", "search", "aistruct"}
    BY <1>3
  <2>3. QED BY <1>0, <1>1, <1>2, <1>4, <1>5, <2>1, <2>2 DEF GaiTypeOK
<1>7. Short' = Short /\ NameOf' = NameOf /\ Short = {} /\ NameOf = 0
  BY <1>0, <1>1 DEF Short, NameOf, Allocated, Working
<1>8. Allocated'
  <2>1. heap' = 2 * Len(glist') - (IF Short' # {} THEN 1 ELSE 0) + NameOf' + Aside'
    <3>1. Len(glist) \in Nat /\ Len(glist') = Len(glist)
      BY <1>0, <1>1 DEF GaiTypeOK
    <3>2. heap = 2 * Len(glist) + Aside
      BY <1>0, <1>5, <1>7, <3>1 DEF Allocated
    <3>3. QED BY <1>5, <1>7, <3>1, <3>2
  <2>2. gpc' \in {"bad", "canon", "search", "aistruct"}
    BY <1>3
  <2>3. QED BY <1>0, <1>1, <1>2, <1>5, <1>7, <2>1, <2>2 DEF Allocated
<1>9. OnItsWay'
  <2>1. nfound = 0 /\ headset
    BY <1>0, <1>1 DEF OnItsWay
  <2>2. QED BY <1>0, <1>1, <1>2, <1>3, <1>4, <2>1 DEF OnItsWay
<1>10. Built'
  <2>0. /\ todo = <<>> /\ Len(glist) + Len(todo) = Len(found)
        /\ \A k \in 1..Len(glist) : Bare(glist[k], found[k])
    BY <1>0, <1>1 DEF Built
  <2>1. /\ glist \in Seq(GaiEntries) /\ Len(glist) \in Nat /\ Len(found) \in Nat /\ found \in Seq(GaiFamilies)
        /\ Len(todo) = 0 /\ Len(glist) = Len(found)
    <3>1. Len(<<>>) = 0
      OBVIOUS
    <3>2. QED BY <1>0, <2>0, <3>1 DEF GaiTypeOK
  <2>2. CASE Failed
    BY <2>2 DEF Built
  <2>3. CASE Complete
    <3>1. found # <<>>
      BY <2>1, <2>3, QueueOf
    <3>2. QED BY <1>1, <1>2, <2>0, <2>3, <3>1 DEF Built, Bare
  <2>4. CASE None
    BY <1>1, <1>2, <2>0, <2>4 DEF Built, Bare
  <2>5. CASE Some
    <3>1. \A k \in 1..Len(glist) : found'[k] = found[k]
      BY <2>1, <2>5 DEF MoreFound
    <3>2. Len(glist') + Len(todo') = Len(found')
      BY <1>1, <2>1, <2>5 DEF MoreFound
    <3>3. \A k \in 1..Len(todo') : todo'[k] = found'[Len(glist') + k]
      BY <1>1, <2>1, <2>5 DEF MoreFound
    <3>4. QED BY <1>1, <1>2, <2>0, <2>5, <3>1, <3>2, <3>3 DEF Built, Bare
  <2>6. QED BY <1>3, <2>2, <2>3, <2>4, <2>5
<1>11. G!Exact'
  BY <1>3 DEF G!Exact
<1>12. QED BY <1>6, <1>8, <1>9, <1>10, <1>11 DEF GaiInv

\* The search in libfree.
LEMMA GaiSearchFree == ASSUME GaiInv, G!SearchFree PROVE GaiInv'
<1>0. GaiTypeOK /\ Allocated /\ OnItsWay /\ Built /\ GaiArgs
  BY DEF GaiInv, GaiTypeOK
<1>1. /\ gpc = "search" /\ version = "free"
      /\ UNCHANGED <<glist, canon, ports, gpos, nfound, heap>>
      /\ UNCHANGED G!args
  BY DEF G!SearchFree
<1>2. /\ UNCHANGED <<version, host, serv, gflags, hints, known, inet6>>
      /\ GaiArgs' /\ Turns' = Turns
  BY <1>0, <1>1, ArgsStay
<1>3. found = <<>> /\ glist = <<>> /\ nfound = 0 /\ ~canon
  BY <1>0, <1>1 DEF OnItsWay, Allocated
<1>4. \/ gpc' = "bad" /\ err' # "ok" /\ UNCHANGED <<search, todo, found, headset>>
      \/ /\ gpc' = "aistruct" /\ search' = <<>> /\ headset' = TRUE /\ found' = todo'
         /\ todo' \in Seq(GaiFamilies) /\ todo' # <<>>
  <2> DEFINE s == Head(search)
             answers == IF s.host = "v4" THEN {"INET"} ELSE IF s.host = "v6" THEN {"INET6"}
                        ELSE IF s.family = "INET6" \/ inet6 THEN {"INET6"} ELSE {"INET"}
  <2>1. \/ gpc' = "bad" /\ err' # "ok" /\ UNCHANGED <<search, todo, found, headset>>
        \/ \E n \in 1 .. (IF s.host = "name" THEN MaxAddrs ELSE 1), f \in answers :
             /\ gpc' = "aistruct" /\ search' = <<>> /\ todo' = G!Of(f, n) /\ found' = todo' /\ headset' = TRUE
    BY DEF G!SearchFree, G!Fail
  <2>2. ASSUME NEW n \in 1 .. (IF s.host = "name" THEN MaxAddrs ELSE 1), NEW f \in answers
        PROVE  G!Of(f, n) \in Seq(GaiFamilies) /\ G!Of(f, n) # <<>>
    <3>1. f \in GaiFamilies
      BY DEF GaiFamilies
    <3>2. n \in Int /\ n >= 1
      OBVIOUS
    <3>3. QED BY <1>0, <3>1, <3>2, SomeMore DEF GaiTypeOK
  <2>3. QED BY <2>1, <2>2
<1>5. Short' = Short /\ NameOf' = NameOf /\ Aside' = Aside /\ Short = {} /\ NameOf = 0
  BY <1>0, <1>1 DEF Short, NameOf, Aside, Allocated, Working
<1>6. GaiTypeOK'
  <2>1. search' \in Seq(GaiSearches) /\ headset' \in BOOLEAN
    BY <1>0, <1>4, EmptySeq DEF GaiTypeOK
  <2>2. todo' \in Seq(GaiFamilies) /\ found' \in Seq(GaiFamilies)
    BY <1>0, <1>4 DEF GaiTypeOK
  <2>3. QED BY <1>0, <1>1, <1>2, <1>4, <2>1, <2>2 DEF GaiTypeOK
<1>7. Allocated'
  BY <1>0, <1>1, <1>2, <1>3, <1>4, <1>5 DEF Allocated
<1>8. OnItsWay'
  BY <1>0, <1>1, <1>2, <1>3, <1>4 DEF OnItsWay
<1>9. Built'
  <2>1. Len(<<>>) = 0
    OBVIOUS
  <2>2. \A k \in 1..Len(todo') : 0 + k = k
    OBVIOUS
  <2>3. Len(todo') \in Nat
    BY <1>6 DEF GaiTypeOK
  <2>4. QED BY <1>1, <1>3, <1>4, <2>1, <2>2, <2>3 DEF Built
<1>10. G!Exact'
  BY <1>4 DEF G!Exact
<1>11. QED BY <1>6, <1>7, <1>8, <1>9, <1>10 DEF GaiInv

\* One entry more at the end of the list.
LEMMA OneEntryMore ==
  ASSUME GaiTypeOK, Short = {}, NEW ai \in GaiEntries, ~ai.canon, glist' = Append(glist, ai)
  PROVE  /\ glist' \in Seq(GaiEntries) /\ Len(glist') = Len(glist) + 1 /\ Len(glist) \in Nat
         /\ \A k \in 1..Len(glist) : glist'[k] = glist[k]
         /\ glist'[Len(glist) + 1] = ai
         /\ Short' = IF ai.addr THEN {} ELSE {Len(glist) + 1}
         /\ NameOf' = NameOf
         /\ (\A k \in 2..Len(glist) : ~glist[k].canon) => \A k \in 2..Len(glist') : ~glist'[k].canon
<1>1. /\ glist' \in Seq(GaiEntries) /\ Len(glist') = Len(glist) + 1 /\ Len(glist) \in Nat
      /\ \A k \in 1..Len(glist) : glist'[k] = glist[k]
      /\ glist'[Len(glist) + 1] = ai
  BY QueueFacts DEF GaiTypeOK
<1>2. \A k \in 1..Len(glist) + 1 : k = Len(glist) + 1 \/ k \in 1..Len(glist)
  BY <1>1
<1>3. Short' = IF ai.addr THEN {} ELSE {Len(glist) + 1}
  BY <1>1, <1>2 DEF Short
<1>4. NameOf' = NameOf
  <2>1. glist' # <<>>
    BY <1>1, QueueOf
  <2>2. CASE glist = <<>>
    <3>1. Len(glist) = 0
      BY <2>2
    <3>2. glist'[1] = ai
      BY <1>1, <3>1
    <3>3. QED BY <2>1, <2>2, <3>2 DEF NameOf
  <2>3. CASE glist # <<>>
    <3>1. 1 \in 1..Len(glist)
      BY <1>1, <2>3 DEF GaiTypeOK
    <3>2. glist'[1] = glist[1]
      BY <1>1, <3>1
    <3>3. QED BY <2>1, <2>3, <3>2 DEF NameOf
  <2>4. QED BY <2>2, <2>3
<1>5. (\A k \in 2..Len(glist) : ~glist[k].canon) => \A k \in 2..Len(glist') : ~glist'[k].canon
  <2>1. SUFFICES ASSUME \A k \in 2..Len(glist) : ~glist[k].canon, NEW k \in 2..Len(glist')
                 PROVE  ~glist'[k].canon
    OBVIOUS
  <2>2. k = Len(glist) + 1 \/ (k \in 2..Len(glist) /\ k \in 1..Len(glist))
    BY <1>1
  <2>3. QED BY <1>1, <2>1, <2>2
<1>6. QED BY <1>1, <1>3, <1>4, <1>5

\* An address is stored.
LEMMA GaiAistruct == ASSUME GaiInv, G!Aistruct PROVE GaiInv'
<1>0. GaiTypeOK /\ Allocated /\ OnItsWay /\ Built /\ GaiArgs
  BY DEF GaiInv, GaiTypeOK
<1>1. /\ gpc = "aistruct" /\ nfound = 0
      /\ UNCHANGED <<search, found, headset, canon, ports, gpos, nfound>>
      /\ UNCHANGED G!args
  BY <1>0 DEF G!Aistruct, OnItsWay
<1>2. /\ UNCHANGED <<version, host, serv, gflags, hints, known, inet6>>
      /\ GaiArgs' /\ Turns' = Turns
  BY <1>0, <1>1, ArgsStay
<1>3. /\ Len(glist) + Len(todo) = Len(found)
      /\ \A k \in 1..Len(glist) : Bare(glist[k], found[k])
      /\ \A k \in 1..Len(todo) : todo[k] = found[Len(glist) + k]
  BY <1>0, <1>1 DEF Built
<1>4. /\ glist \in Seq(GaiEntries) /\ found \in Seq(GaiFamilies) /\ todo \in Seq(GaiFamilies)
      /\ Len(glist) \in Nat /\ Len(found) \in Nat /\ Len(todo) \in Nat /\ heap \in Int
      /\ Short = {} /\ NameOf = 0 /\ Aside \in Nat /\ Aside' = Aside
      /\ heap = 2 * Len(glist) + Aside
  <2>1. /\ glist \in Seq(GaiEntries) /\ found \in Seq(GaiFamilies) /\ todo \in Seq(GaiFamilies)
        /\ Len(glist) \in Nat /\ Len(found) \in Nat /\ Len(todo) \in Nat /\ heap \in Int
    BY <1>0 DEF GaiTypeOK
  <2>2. Short = {} /\ NameOf = 0 /\ Aside \in Nat /\ Aside' = Aside
    BY <1>0, <1>1 DEF Allocated, Working, Aside
  <2>3. QED BY <1>0, <2>1, <2>2 DEF Allocated
<1>5. CASE todo = <<>>
  <2>1. /\ gpc' = (IF version = "gai" THEN "search" ELSE "canon") /\ UNCHANGED <<todo, glist, heap, err>>
    BY <1>5 DEF G!Aistruct
  <2>2. Short' = {} /\ NameOf' = 0
    BY <1>4, <2>1 DEF Short, NameOf
  <2>3. GaiTypeOK'
    BY <1>0, <1>1, <1>2, <2>1 DEF GaiTypeOK
  <2>4. Allocated'
    BY <1>0, <1>1, <1>2, <1>4, <2>1, <2>2 DEF Allocated
  <2>5. OnItsWay'
    BY <1>0, <1>1, <1>2, <2>1 DEF OnItsWay
  <2>6. Built'
    <3>1. version = "free" => found # <<>>
      BY <1>0, <1>1 DEF OnItsWay
    <3>2. version \in {"gai", "free"}
      BY <1>0 DEF GaiArgs
    <3>3. QED BY <1>1, <1>2, <1>3, <1>5, <2>1, <3>1, <3>2 DEF Built, Bare
  <2>7. G!Exact'
    BY <2>1 DEF G!Exact
  <2>8. QED BY <2>3, <2>4, <2>5, <2>6, <2>7 DEF GaiInv
<1>6. CASE todo # <<>>
  <2> DEFINE ai == G!Entry(Head(todo), hints.socktype)
             part == [ai EXCEPT !.addr = FALSE]
  <2>1. /\ Head(todo) = todo[1] /\ Head(todo) \in GaiFamilies /\ 1 \in 1..Len(todo)
        /\ Tail(todo) \in Seq(GaiFamilies) /\ Len(Tail(todo)) = Len(todo) - 1
        /\ \A k \in 1..Len(Tail(todo)) : Tail(todo)[k] = todo[k + 1]
    <3>1. Head(todo) = todo[1] /\ Head(todo) \in GaiFamilies /\ 1 \in 1..Len(todo)
      BY <1>4, <1>6
    <3>2. /\ Tail(todo) \in Seq(GaiFamilies) /\ Len(Tail(todo)) = Len(todo) - 1
          /\ \A k \in 1..Len(Tail(todo)) : Tail(todo)[k] = todo[k + 1]
      BY <1>4, <1>6
    <3>3. QED BY <3>1, <3>2
  <2>2. /\ ai \in GaiEntries /\ ai.addr /\ ~ai.canon /\ Bare(ai, Head(todo))
        /\ part \in GaiEntries /\ ~part.addr /\ ~part.canon
    <3>1. hints.socktype \in G!Types /\ "0" \in G!Types
      BY <1>0, TurnsAre DEF G!Types
    <3>2. QED BY <2>1, <3>1 DEF G!Entry, GaiEntries, Bare
  <2>3. /\ todo' = Tail(todo)
        /\ \/ gpc' = "bad" /\ err' = "MEMORY" /\ UNCHANGED <<glist, heap>>
           \/ gpc' = "bad" /\ err' = "MEMORY" /\ glist' = Append(glist, part) /\ heap' = heap + 1
           \/ gpc' = "aistruct" /\ glist' = Append(glist, ai) /\ heap' = heap + 2 /\ UNCHANGED err
    BY <1>1, <1>6 DEF G!Aistruct, G!Store, G!Fail
  <2> HIDE DEF ai, part
  <2>4. CASE gpc' = "bad" /\ err' = "MEMORY" /\ UNCHANGED <<glist, heap>>
    <3>1. Short' = {} /\ NameOf' = 0
      BY <1>4, <2>4 DEF Short, NameOf
    <3>2. GaiTypeOK'
      BY <1>0, <1>1, <1>2, <2>1, <2>3, <2>4 DEF GaiTypeOK
    <3>3. Allocated'
      BY <1>0, <1>1, <1>2, <1>4, <2>4, <3>1 DEF Allocated
    <3>4. OnItsWay'
      BY <1>0, <1>1, <1>2, <2>4 DEF OnItsWay
    <3>5. Built' /\ G!Exact'
      BY <2>4 DEF Built, G!Exact
    <3>6. QED BY <3>2, <3>3, <3>4, <3>5 DEF GaiInv
  <2>5. CASE gpc' = "bad" /\ err' = "MEMORY" /\ glist' = Append(glist, part) /\ heap' = heap + 1
    <3>1. /\ glist' \in Seq(GaiEntries) /\ Len(glist') = Len(glist) + 1
          /\ Short' = {Len(glist) + 1} /\ NameOf' = 0
          /\ \A k \in 2..Len(glist') : ~glist'[k].canon
      BY <1>0, <1>4, <2>2, <2>5, OneEntryMore DEF Allocated
    <3>2. GaiTypeOK'
      BY <1>0, <1>1, <1>2, <1>4, <2>1, <2>3, <2>5, <3>1 DEF GaiTypeOK
    <3>3. Allocated'
      <4>1. heap' = 2 * Len(glist') - (IF Short' # {} THEN 1 ELSE 0) + NameOf' + Aside'
        BY <1>4, <2>5, <3>1
      <4>2. QED BY <1>0, <1>1, <1>2, <2>5, <3>1, <4>1 DEF Allocated, Working
    <3>4. OnItsWay'
      BY <1>0, <1>1, <1>2, <2>5 DEF OnItsWay
    <3>5. Built' /\ G!Exact'
      BY <2>5 DEF Built, G!Exact
    <3>6. QED BY <3>2, <3>3, <3>4, <3>5 DEF GaiInv
  <2>6. CASE gpc' = "aistruct" /\ glist' = Append(glist, ai) /\ heap' = heap + 2 /\ UNCHANGED err
    <3>1. /\ glist' \in Seq(GaiEntries) /\ Len(glist') = Len(glist) + 1
          /\ \A k \in 1..Len(glist) : glist'[k] = glist[k]
          /\ glist'[Len(glist) + 1] = ai
          /\ Short' = {} /\ NameOf' = 0
          /\ \A k \in 2..Len(glist') : ~glist'[k].canon
      BY <1>0, <1>4, <2>2, <2>6, OneEntryMore DEF Allocated
    <3>2. GaiTypeOK'
      BY <1>0, <1>1, <1>2, <1>4, <2>1, <2>3, <2>6, <3>1 DEF GaiTypeOK
    <3>3. Allocated'
      <4>1. heap' = 2 * Len(glist') - (IF Short' # {} THEN 1 ELSE 0) + NameOf' + Aside'
        BY <1>4, <2>6, <3>1
      <4>2. QED BY <1>0, <1>1, <1>2, <2>6, <3>1, <4>1 DEF Allocated, Working
    <3>4. OnItsWay'
      BY <1>0, <1>1, <1>2, <2>6 DEF OnItsWay
    <3>5. Built'
      <4>1. Len(glist') + Len(todo') = Len(found')
        BY <1>1, <1>3, <1>4, <2>1, <2>3, <3>1
      <4>2. ASSUME NEW k \in 1..Len(glist') PROVE Bare(glist'[k], found[k])
        <5>1. CASE k \in 1..Len(glist)
          BY <1>3, <3>1, <5>1
        <5>2. CASE k = Len(glist) + 1
          BY <1>3, <1>4, <2>1, <2>2, <3>1, <5>2
        <5>3. QED BY <1>4, <3>1, <5>1, <5>2
      <4>3. ASSUME NEW k \in 1..Len(todo') PROVE todo'[k] = found[Len(glist') + k]
        <5>1. k + 1 \in 1..Len(todo) /\ Len(glist) + (k + 1) = Len(glist') + k
          BY <1>4, <2>1, <2>3, <3>1
        <5>2. QED BY <1>3, <2>1, <2>3, <5>1
      <4>4. QED BY <1>1, <1>2, <2>6, <4>1, <4>2, <4>3 DEF Built, Bare
    <3>6. G!Exact'
      BY <2>6 DEF G!Exact
    <3>7. QED BY <3>2, <3>3, <3>4, <3>5, <3>6 DEF GaiInv
  <2>7. QED BY <2>3, <2>4, <2>5, <2>6
<1>7. QED BY <1>5, <1>6

\* One element of a sequence is replaced.
LEMMA ReplacedIs ==
  ASSUME NEW Elem, NEW q \in Seq(Elem), NEW x \in Elem, NEW i \in 1..Len(q)
  PROVE  /\ [q EXCEPT ![i] = x] \in Seq(Elem) /\ Len([q EXCEPT ![i] = x]) = Len(q)
         /\ [q EXCEPT ![i] = x][i] = x
         /\ \A k \in 1..Len(q) : k # i => [q EXCEPT ![i] = x][k] = q[k]
  OBVIOUS

\* The first entry of the list gets the name.
LEMMA NamedIs ==
  ASSUME GaiTypeOK, glist # <<>>, glist' = [glist EXCEPT ![1].canon = TRUE]
  PROVE  /\ glist' \in Seq(GaiEntries) /\ Len(glist') = Len(glist) /\ glist' # <<>>
         /\ Short' = Short /\ NameOf' = 1
         /\ \A k \in 1..Len(glist) :
              /\ glist'[k].family = glist[k].family /\ glist'[k].socktype = glist[k].socktype
              /\ glist'[k].port = glist[k].port /\ glist'[k].clone = glist[k].clone
              /\ k # 1 => glist'[k].canon = glist[k].canon
<1>1. /\ glist \in Seq(GaiEntries) /\ Len(glist) \in Nat /\ 1 \in 1..Len(glist)
      /\ \A k \in 1..Len(glist) : glist[k] \in GaiEntries
  BY QueueOf DEF GaiTypeOK
<1> DEFINE one == [glist[1] EXCEPT !.canon = TRUE]
<1>2. /\ one \in GaiEntries /\ one.canon /\ one.addr = glist[1].addr /\ one.clone = glist[1].clone
      /\ one.family = glist[1].family /\ one.socktype = glist[1].socktype /\ one.port = glist[1].port
  BY <1>1 DEF GaiEntries
<1>3. glist' = [glist EXCEPT ![1] = one]
  OBVIOUS
<1> HIDE DEF one
<1>4. /\ glist' \in Seq(GaiEntries) /\ Len(glist') = Len(glist) /\ glist'[1] = one
      /\ \A k \in 1..Len(glist) : k # 1 => glist'[k] = glist[k]
  <2> DEFINE new == [glist EXCEPT ![1] = one]
  <2>1. /\ new \in Seq(GaiEntries) /\ Len(new) = Len(glist) /\ new[1] = one
        /\ \A k \in 1..Len(glist) : k # 1 => new[k] = glist[k]
    BY <1>1, <1>2, ReplacedIs
  <2> HIDE DEF new
  <2>2. glist' = new
    BY <1>3 DEF new
  <2>3. QED BY <2>1, <2>2
<1>5. glist' # <<>>
  BY <1>1, <1>4, QueueOf
<1>6. NameOf' = 1
  BY <1>2, <1>4, <1>5 DEF NameOf
<1>7. \A k \in 1..Len(glist) : glist'[k].addr = glist[k].addr
  BY <1>2, <1>4
<1>8. Short' = Short
  BY <1>4, <1>7 DEF Short
<1>9. \A k \in 1..Len(glist) :
        /\ glist'[k].family = glist[k].family /\ glist'[k].socktype = glist[k].socktype
        /\ glist'[k].port = glist[k].port /\ glist'[k].clone = glist[k].clone
        /\ k # 1 => glist'[k].canon = glist[k].canon
  BY <1>2, <1>4
<1>10. QED BY <1>4, <1>5, <1>6, <1>8, <1>9

\* The list is complete, and may get its name.
LEMMA GaiCanonname == ASSUME GaiInv, G!Canonname PROVE GaiInv'
<1>0. GaiTypeOK /\ Allocated /\ OnItsWay /\ Built /\ GaiArgs
  BY DEF GaiInv, GaiTypeOK
<1> DEFINE named == "CANONNAME" \in gflags /\ (version = "free" \/ host # "none")
<1>1. /\ gpc = "canon" /\ nfound = 0
      /\ UNCHANGED <<search, todo, found, headset, ports, gpos, nfound>>
      /\ UNCHANGED G!args
  BY <1>0 DEF G!Canonname, OnItsWay
<1>2. /\ UNCHANGED <<version, host, serv, gflags, hints, known, inet6>>
      /\ GaiArgs' /\ Turns' = Turns
  BY <1>0, <1>1, ArgsStay
<1>3. /\ todo = <<>> /\ found # <<>> /\ Len(glist) = Len(found)
      /\ \A k \in 1..Len(glist) : Bare(glist[k], found[k])
      /\ Len(glist) \in Nat /\ glist # <<>>
  <2>1. /\ todo = <<>> /\ found # <<>> /\ Len(glist) + Len(todo) = Len(found)
        /\ \A k \in 1..Len(glist) : Bare(glist[k], found[k])
    BY <1>0, <1>1 DEF Built
  <2>2. Len(<<>>) = 0
    OBVIOUS
  <2>3. Len(glist) \in Nat /\ (glist = <<>> <=> Len(glist) = 0) /\ (found = <<>> <=> Len(found) = 0)
    BY <1>0, QueueOf DEF GaiTypeOK
  <2>4. QED BY <2>1, <2>2, <2>3
<1>4. /\ Short = {} /\ NameOf = 0 /\ canon \in BOOLEAN /\ heap \in Int
      /\ heap = 2 * Len(glist) + Aside /\ (canon => named)
  <2>1. Short = {} /\ NameOf = 0 /\ canon \in BOOLEAN /\ heap \in Int /\ (canon => named)
    BY <1>0, <1>1 DEF Allocated, Working, GaiTypeOK
  <2>2. Aside \in Nat
    BY DEF Aside
  <2>3. QED BY <1>0, <1>3, <2>1, <2>2 DEF Allocated
<1>5. \/ ~named /\ gpc' = "serv" /\ UNCHANGED <<glist, canon, heap, err>>
      \/ /\ named /\ gpc' = "serv" /\ glist' = [glist EXCEPT ![1].canon = TRUE] /\ canon' = FALSE
         /\ heap' = (IF canon THEN heap ELSE heap + 1) /\ UNCHANGED err
      \/ named /\ ~canon /\ err' = "MEMORY" /\ gpc' = "bad" /\ UNCHANGED <<glist, canon, heap>>
  BY DEF G!Canonname, G!Fail
<1>6. CASE UNCHANGED <<glist, canon, heap>> /\ ~canon /\ (gpc' = "serv" \/ (gpc' = "bad" /\ err' = "MEMORY"))
  <2>1. Short' = {} /\ NameOf' = 0 /\ Aside' = Aside
    BY <1>4, <1>6 DEF Short, NameOf, Aside
  <2>2. GaiTypeOK'
    BY <1>0, <1>1, <1>2, <1>6 DEF GaiTypeOK
  <2>3. Allocated'
    BY <1>0, <1>1, <1>2, <1>4, <1>6, <2>1 DEF Allocated
  <2>4. OnItsWay'
    BY <1>0, <1>1, <1>2, <1>6 DEF OnItsWay
  <2>5. Built'
    BY <1>1, <1>2, <1>3, <1>6 DEF Built, Bare
  <2>6. G!Exact'
    BY <1>6 DEF G!Exact
  <2>7. QED BY <2>2, <2>3, <2>4, <2>5, <2>6 DEF GaiInv
<1>7. CASE /\ named /\ gpc' = "serv" /\ glist' = [glist EXCEPT ![1].canon = TRUE] /\ canon' = FALSE
           /\ heap' = (IF canon THEN heap ELSE heap + 1) /\ UNCHANGED err
  <2>1. /\ glist' \in Seq(GaiEntries) /\ Len(glist') = Len(glist) /\ glist' # <<>>
        /\ Short' = {} /\ NameOf' = 1
        /\ \A k \in 1..Len(glist) :
              /\ glist'[k].family = glist[k].family /\ glist'[k].socktype = glist[k].socktype
              /\ glist'[k].port = glist[k].port /\ glist'[k].clone = glist[k].clone
              /\ k # 1 => glist'[k].canon = glist[k].canon
    BY <1>0, <1>3, <1>4, <1>7, NamedIs
  <2>2. GaiTypeOK'
    <3>1. heap' \in Int
      BY <1>4, <1>7
    <3>2. QED BY <1>0, <1>1, <1>2, <1>7, <2>1, <3>1 DEF GaiTypeOK
  <2>3. Allocated'
    <3>1. heap' = 2 * Len(glist') + 1 /\ Aside' = 0
      BY <1>3, <1>4, <1>7, <2>1 DEF Aside
    <3>2. \A k \in 2..Len(glist') : ~glist'[k].canon
      BY <1>0, <1>3, <2>1 DEF Allocated
    <3>3. heap' = 2 * Len(glist') - (IF Short' # {} THEN 1 ELSE 0) + NameOf' + Aside'
      BY <1>3, <2>1, <3>1
    <3>4. QED BY <1>0, <1>7, <2>1, <3>2, <3>3 DEF Allocated
  <2>4. OnItsWay'
    BY <1>0, <1>1, <1>2, <1>7 DEF OnItsWay
  <2>5. Built'
    BY <1>1, <1>2, <1>3, <1>7, <2>1 DEF Built, Bare
  <2>6. G!Exact'
    BY <1>7 DEF G!Exact
  <2>7. QED BY <2>2, <2>3, <2>4, <2>5, <2>6 DEF GaiInv
<1>8. QED BY <1>4, <1>5, <1>6, <1>7

\* The service is looked up.
LEMMA GaiServ == ASSUME GaiInv, G!Serv PROVE GaiInv'
<1>0. GaiTypeOK /\ Allocated /\ OnItsWay /\ Built /\ GaiArgs
  BY DEF GaiInv, GaiTypeOK
<1>1. /\ gpc = "serv" /\ nfound = 0 /\ gpos' = 1
      /\ UNCHANGED <<search, todo, found, glist, headset, canon, nfound, heap, err>>
      /\ UNCHANGED G!args
  BY <1>0 DEF G!Serv, OnItsWay
<1>2. /\ UNCHANGED <<version, host, serv, gflags, hints, known, inet6>>
      /\ GaiArgs' /\ Turns' = Turns /\ G!Wanted' = G!Wanted
  BY <1>0, <1>1, ArgsStay
<1>3. /\ found # <<>> /\ Len(glist) = Len(found) /\ Len(found) \in Nat /\ glist # <<>>
      /\ \A k \in 1..Len(found) : Bare(glist[k], found[k])
  <2>1. /\ found # <<>> /\ Len(glist) = Len(found)
        /\ \A k \in 1..Len(found) : Bare(glist[k], found[k])
    BY <1>0, <1>1 DEF Built
  <2>2. Len(found) \in Nat /\ (glist = <<>> <=> Len(glist) = 0) /\ (found = <<>> <=> Len(found) = 0)
    BY <1>0, QueueOf DEF GaiTypeOK
  <2>3. QED BY <2>1, <2>2
<1>4. /\ \/ serv = "none" /\ gpc' = "return" /\ UNCHANGED ports
         \/ serv # "none" /\ gpc' = "port" /\ ports' = Turns
  BY DEF G!Serv, Turns
<1>5. Turns \in Seq(G!Types)
  <2>1. hints.socktype \in G!Types /\ "STREAM" \in G!Types /\ "DGRAM" \in G!Types
    BY <1>0, TurnsAre DEF G!Types
  <2>2. /\ <<>> \in Seq(G!Types) /\ <<hints.socktype>> \in Seq(G!Types)
        /\ <<"STREAM">> \in Seq(G!Types) /\ <<"DGRAM">> \in Seq(G!Types) /\ <<"STREAM", "DGRAM">> \in Seq(G!Types)
    BY <2>1
  <2>3. QED BY <1>0, <2>2, TurnsAre
<1>6. GaiTypeOK'
  BY <1>0, <1>1, <1>2, <1>4, <1>5 DEF GaiTypeOK
<1>7. Short' = Short /\ NameOf' = NameOf /\ Aside' = Aside /\ Short = {} /\ ~canon
  BY <1>0, <1>1 DEF Short, NameOf, Aside, Allocated, Working
<1>8. Allocated'
  BY <1>0, <1>1, <1>2, <1>4, <1>7 DEF Allocated
<1>9. OnItsWay'
  BY <1>0, <1>1, <1>2, <1>3, <1>4 DEF OnItsWay
<1>10. Built'
  <2>1. CASE serv = "none"
    BY <1>4, <2>1 DEF Built
  <2>2. CASE serv # "none"
    <3>1. FirstTurn'
      BY <1>1, <1>2, <1>3, <1>4, <2>2 DEF FirstTurn, Bare
    <3>2. QED BY <1>1, <1>2, <1>3, <1>4, <2>2, <3>1 DEF Built
  <2>3. QED BY <2>1, <2>2
<1>11. G!Exact'
  <2>1. CASE serv = "none"
    <3>1. G!Wanted' = <<<<hints.socktype, "0">>>>
      BY <1>0, <1>2, <2>1, WantedIs
    <3>2. Len(G!Wanted') = 1 /\ G!Wanted'[1] = <<hints.socktype, "0">>
      BY <3>1
    <3> DEFINE n == Len(G!Wanted')
    <3>3. ASSUME NEW k \in 1..Len(found), NEW j \in 1..n
          PROVE  /\ glist[(k - 1) * n + j].family = found[k]
                 /\ <<glist[(k - 1) * n + j].socktype, glist[(k - 1) * n + j].port>> = G!Wanted'[j]
      <4>1. (k - 1) * n + j = k /\ j = 1
        BY <1>3, <3>2
      <4>2. QED BY <1>3, <3>2, <4>1 DEF Bare
    <3>4. Len(glist) = Len(found) * n
      BY <1>3, <3>2
    <3> HIDE DEF n
    <3>5. QED BY <1>1, <3>3, <3>4, Zenon DEF G!Exact, n
  <2>2. CASE serv # "none"
    BY <1>4, <2>2 DEF G!Exact
  <2>3. QED BY <2>1, <2>2
<1>12. QED BY <1>6, <1>8, <1>9, <1>10, <1>11 DEF GaiInv

\* When all types have had their turn, the list is what is wanted.
LEMMA AllDone ==
  ASSUME GaiTypeOK, serv # "none", AllTurns
  PROVE  /\ Len(glist) = Len(found) * Len(G!Wanted)
         /\ \A k \in 1..Len(found), j \in 1..Len(G!Wanted) :
              /\ glist[(k - 1) * Len(G!Wanted) + j].family = found[k]
              /\ <<glist[(k - 1) * Len(G!Wanted) + j].socktype, glist[(k - 1) * Len(G!Wanted) + j].port>> = G!Wanted[j]
<1>0. GaiArgs /\ Len(found) \in Nat
  BY DEF GaiTypeOK
<1>1. Turns # <<>> /\ Twice(IF Len(Turns) = 2 THEN Len(found) ELSE 0)
  BY DEF AllTurns
<1>2. G!Wanted = [k \in 1..Len(Turns) |-> <<Turns[k], Turns[k]>>]
  BY <1>0, <1>1, WantedIs
<1>3. Len(Turns) \in {1, 2}
  BY <1>0, <1>1, TurnsAre
<1> DEFINE n == Len(G!Wanted)
<1>4. n = Len(Turns) /\ \A j \in 1..n : G!Wanted[j] = <<Turns[j], Turns[j]>>
  BY <1>2, <1>3
<1> HIDE DEF n
<1>5. CASE Len(Turns) = 1
  <2>1. Twice(0)
    BY <1>1, <1>5
  <2>2. /\ Len(glist) = Len(found) + 0
        /\ \A k \in 0 + 1 .. Len(found) : Ported(glist[0 + k], found[k], Turns[1])
    BY <2>1 DEF Twice
  <2>3. ASSUME NEW k \in 1..Len(found), NEW j \in 1..n
        PROVE  /\ glist[(k - 1) * n + j].family = found[k]
               /\ <<glist[(k - 1) * n + j].socktype, glist[(k - 1) * n + j].port>> = G!Wanted[j]
    <3>1. (k - 1) * n + j = k /\ j = 1
      BY <1>4, <1>5
    <3>2. Ported(glist[k], found[k], Turns[1])
      BY <1>0, <2>2
    <3>3. QED BY <1>4, <3>1, <3>2 DEF Ported, With
  <2>4. Len(glist) = Len(found) * n
    BY <1>0, <1>4, <1>5, <2>2
  <2>5. QED BY <2>3, <2>4 DEF n
<1>6. CASE Len(Turns) = 2
  <2>1. Twice(Len(found))
    BY <1>1, <1>6
  <2>2. /\ Len(glist) = Len(found) + Len(found)
        /\ \A k \in 1..Len(found) :
             Ported(glist[2 * k - 1], found[k], Turns[1]) /\ Cloned(glist[2 * k], found[k], Turns[2])
    BY <2>1 DEF Twice
  <2>3. ASSUME NEW k \in 1..Len(found), NEW j \in 1..n
        PROVE  /\ glist[(k - 1) * n + j].family = found[k]
               /\ <<glist[(k - 1) * n + j].socktype, glist[(k - 1) * n + j].port>> = G!Wanted[j]
    <3>1. n = 2 /\ (j = 1 \/ j = 2)
      BY <1>4, <1>6
    <3>2. CASE j = 1
      <4>1. (k - 1) * n + j = 2 * k - 1
        BY <3>1, <3>2
      <4>2. QED BY <1>4, <2>2, <3>2, <4>1 DEF Ported, With
    <3>3. CASE j = 2
      <4>1. (k - 1) * n + j = 2 * k
        BY <3>1, <3>3
      <4>2. QED BY <1>4, <2>2, <3>3, <4>1 DEF Cloned, With
    <3>4. QED BY <3>1, <3>2, <3>3
  <2>4. Len(glist) = Len(found) * n
    BY <1>0, <1>4, <1>6, <2>2
  <2>5. QED BY <2>3, <2>4 DEF n
<1>7. QED BY <1>3, <1>5, <1>6

\* One type or two: what is left after the first.
LEMMA OneOrTwo ==
  ASSUME GaiArgs, Turns # <<>>
  PROVE  /\ Len(Turns) \in {1, 2}
         /\ Len(Turns) = 1 => Tail(Turns) = <<>>
         /\ Len(Turns) = 2 => /\ hints.socktype = "0" /\ Turns[1] = "STREAM" /\ Turns[2] = "DGRAM"
                             /\ Tail(Turns) = <<Turns[2]>>
         /\ hints.socktype # "0" => Turns[1] = hints.socktype
         /\ Turns[1] \in G!Types \ {"0"} /\ Head(Turns) = Turns[1]
<1>0. "STREAM" \in G!Types /\ "DGRAM" \in G!Types /\ hints.socktype \in G!Types
  BY TurnsAre DEF G!Types
<1>1. CASE Turns = <<hints.socktype>> /\ hints.socktype # "0"
  <2> DEFINE q == <<hints.socktype>>
  <2>1. Len(q) = 1 /\ Tail(q) = <<>> /\ q[1] = hints.socktype /\ Head(q) = q[1]
    OBVIOUS
  <2> HIDE DEF q
  <2>2. Turns = q
    BY <1>1 DEF q
  <2>3. QED BY <1>0, <1>1, <2>1, <2>2
<1>2. CASE hints.socktype = "0" /\ Turns \in {<<"STREAM">>, <<"DGRAM">>}
  <2>1. ASSUME NEW t PROVE Len(<<t>>) = 1 /\ Tail(<<t>>) = <<>> /\ <<t>>[1] = t /\ Head(<<t>>) = t
    OBVIOUS
  <2>2. PICK t \in {"STREAM", "DGRAM"} : Turns = <<t>>
    BY <1>2
  <2>3. QED BY <1>0, <1>2, <2>1, <2>2
<1>3. CASE hints.socktype = "0" /\ Turns = <<"STREAM", "DGRAM">>
  <2> DEFINE q == <<"STREAM", "DGRAM">>
  <2>1. Len(q) = 2 /\ Tail(q) = <<q[2]>> /\ q[1] = "STREAM" /\ q[2] = "DGRAM" /\ Head(q) = q[1]
    OBVIOUS
  <2> HIDE DEF q
  <2>2. Turns = q
    BY <1>3 DEF q
  <2>3. QED BY <1>0, <1>3, <2>1, <2>2
<1>4. QED BY <1>1, <1>2, <1>3, TurnsAre

\* No type is left.
LEMMA GaiPortEnds == ASSUME GaiInv, G!PortEnds PROVE GaiInv'
<1>0. GaiTypeOK /\ Allocated /\ OnItsWay /\ Built /\ GaiArgs
  BY DEF GaiInv, GaiTypeOK
<1>1. /\ gpc = "port" /\ ports = <<>>
      /\ UNCHANGED <<search, todo, found, glist, headset, canon, ports, gpos, nfound, heap>>
      /\ UNCHANGED G!args
  BY DEF G!PortEnds
<1>2. /\ UNCHANGED <<version, host, serv, gflags, hints, known, inet6>>
      /\ GaiArgs' /\ G!Wanted' = G!Wanted
  BY <1>0, <1>1, ArgsStay
<1>3. \/ nfound > 0 /\ gpc' = "return" /\ UNCHANGED err
      \/ gpc' = "bad" /\ err' # "ok"
  BY DEF G!PortEnds, G!Fail
<1>4. Short' = Short /\ NameOf' = NameOf /\ Aside' = Aside /\ Short = {} /\ ~canon
  BY <1>0, <1>1 DEF Short, NameOf, Aside, Allocated, Working
<1>5. GaiTypeOK'
  BY <1>0, <1>1, <1>2, <1>3 DEF GaiTypeOK
<1>6. Allocated'
  BY <1>0, <1>1, <1>2, <1>3, <1>4 DEF Allocated
<1>7. found # <<>> /\ serv # "none" /\ (FirstTurn \/ SecondTurn \/ AllTurns)
  BY <1>0, <1>1 DEF Built
<1>8. nfound > 0 => AllTurns /\ Len(glist) # 0 /\ glist # <<>>
  <2>1. FirstTurn => ~(nfound > 0)
    BY <1>1 DEF FirstTurn
  <2>2. ~SecondTurn
    BY <1>1 DEF SecondTurn
  <2>3. AllTurns => Len(glist) >= Len(found)
    <3>1. Len(found) \in Nat
      BY <1>0 DEF GaiTypeOK
    <3>2. QED BY <3>1 DEF AllTurns, Twice
  <2>4. Len(found) \in Nat /\ Len(found) # 0 /\ Len(glist) \in Nat
    BY <1>0, <1>7, QueueOf DEF GaiTypeOK
  <2>5. QED BY <1>7, <2>1, <2>2, <2>3, <2>4
<1>9. OnItsWay'
  BY <1>0, <1>1, <1>2, <1>3, <1>8 DEF OnItsWay
<1>10. Built'
  BY <1>3 DEF Built
<1>11. G!Exact'
  <2>1. CASE nfound > 0
    <3>1. AllTurns
      BY <1>8, <2>1
    <3> DEFINE n == Len(G!Wanted)
    <3>2. /\ Len(glist) = Len(found) * n
          /\ \A k \in 1..Len(found), j \in 1..n :
               /\ glist[(k - 1) * n + j].family = found[k]
               /\ <<glist[(k - 1) * n + j].socktype, glist[(k - 1) * n + j].port>> = G!Wanted[j]
      BY <1>0, <1>7, <3>1, AllDone
    <3>3. Len(G!Wanted') = n /\ glist' = glist /\ found' = found
      BY <1>1, <1>2
    <3> HIDE DEF n
    <3>4. QED BY <1>2, <3>2, <3>3, Zenon DEF G!Exact
  <2>2. CASE ~(nfound > 0)
    BY <1>3, <2>2 DEF G!Exact
  <2>3. QED BY <2>1, <2>2
<1>12. QED BY <1>5, <1>6, <1>9, <1>10, <1>11 DEF GaiInv

\* The next type.
LEMMA GaiNextPort == ASSUME GaiInv, G!NextPort PROVE GaiInv'
<1>0. GaiTypeOK /\ Allocated /\ OnItsWay /\ Built /\ GaiArgs
  BY DEF GaiInv, GaiTypeOK
<1>1. /\ gpc = "port" /\ gpc' = "port" /\ ports # <<>> /\ gpos > Len(glist) /\ ports' = Tail(ports) /\ gpos' = 1
      /\ UNCHANGED <<search, todo, found, glist, headset, canon, nfound, heap, err>>
      /\ UNCHANGED G!args
  BY DEF G!NextPort
<1>2. /\ UNCHANGED <<version, host, serv, gflags, hints, known, inet6>>
      /\ GaiArgs' /\ Turns' = Turns
  BY <1>0, <1>1, ArgsStay
<1>3. Short' = Short /\ NameOf' = NameOf /\ Aside' = Aside
  BY <1>1 DEF Short, NameOf, Aside
<1>4. GaiTypeOK'
  <2>1. Tail(ports) \in Seq(G!Types)
    BY <1>0, <1>1 DEF GaiTypeOK
  <2>2. QED BY <1>0, <1>1, <1>2, <2>1 DEF GaiTypeOK
<1>5. Allocated'
  BY <1>0, <1>1, <1>2, <1>3 DEF Allocated, Working
<1>6. OnItsWay'
  BY <1>0, <1>1, <1>2 DEF OnItsWay
<1>7. found # <<>> /\ serv # "none" /\ (FirstTurn \/ SecondTurn \/ AllTurns)
  BY <1>0, <1>1 DEF Built
<1>8. Len(found) \in Nat /\ Len(found) > 0 /\ Len(glist) \in Nat /\ gpos \in Nat
  BY <1>0, <1>7, QueueOf DEF GaiTypeOK
<1>9. \A m : Twice(m) => Twice(m)'
  BY <1>1, <1>2 DEF Twice, Ported, Cloned, With
<1>10. FirstTurn \/ SecondTurn
  BY <1>1, <1>7 DEF AllTurns
<1>11. CASE FirstTurn
  <2>1. /\ gpos = Len(found) + 1 /\ nfound > 0 /\ Len(glist) = Len(found) /\ ports = Turns
        /\ \A k \in 1..Len(found) : Ported(glist[k], found[k], Turns[1])
    BY <1>1, <1>8, <1>11 DEF FirstTurn
  <2>2. Twice(0)
    BY <1>8, <2>1 DEF Twice
  <2>3. Len(Turns) \in {1, 2}
    BY <1>0, <1>1, <2>1, OneOrTwo
  <2>4. ASSUME Len(Turns) = 1 PROVE AllTurns'
    <3>1. ports' = <<>>
      BY <1>0, <1>1, <2>1, <2>4, OneOrTwo
    <3>2. AllTurns'
      BY <1>1, <1>2, <1>9, <2>1, <2>2, <2>4, <3>1 DEF AllTurns
    <3>3. QED BY <3>2
  <2>5. ASSUME Len(Turns) = 2 PROVE SecondTurn'
    <3>1. ports' = <<Turns[2]>>
      BY <1>0, <1>1, <2>1, <2>5, OneOrTwo
    <3>2. Twice(0)' /\ gpos' = 2 * 0 + 1 /\ 0 \in 0..Len(found)
      BY <1>1, <1>8, <1>9, <2>2
    <3>3. SecondTurn'
      BY <1>1, <1>2, <2>1, <2>5, <3>1, <3>2 DEF SecondTurn
    <3>4. QED BY <3>3
  <2>6. AllTurns' \/ SecondTurn'
    BY <2>3, <2>4, <2>5
  <2>7. Built'
    BY <1>1, <1>2, <1>7, <2>6 DEF Built
  <2>8. G!Exact'
    BY <1>1 DEF G!Exact
  <2>9. QED BY <1>4, <1>5, <1>6, <2>7, <2>8 DEF GaiInv
<1>12. CASE SecondTurn
  <2>1. PICK m \in 0..Len(found) : gpos = 2 * m + 1 /\ Twice(m)
    BY <1>12 DEF SecondTurn
  <2>2. m = Len(found)
    BY <1>1, <1>8, <2>1 DEF Twice
  <2>3. Len(Turns) = 2 /\ ports = <<Turns[2]>> /\ nfound > 0 /\ Turns # <<>>
    <3>1. Len(Turns) = 2 /\ ports = <<Turns[2]>> /\ nfound > 0
      BY <1>12 DEF SecondTurn
    <3>2. QED BY <3>1
  <2>4. ports' = <<>>
    BY <1>1, <2>3
  <2>5. AllTurns'
    <3>1. Len(Turns') = 2 /\ Len(found') = m /\ Twice(m)' /\ nfound' > 0 /\ Turns' # <<>>
      BY <1>1, <1>2, <1>9, <2>1, <2>2, <2>3
    <3>2. QED BY <2>4, <3>1 DEF AllTurns
  <2>6. Built'
    BY <1>1, <1>2, <1>7, <2>5 DEF Built
  <2>7. G!Exact'
    BY <1>1 DEF G!Exact
  <2>8. QED BY <1>4, <1>5, <1>6, <2>6, <2>7 DEF GaiInv
<1>13. QED BY <1>10, <1>11, <1>12

\* An entry that is put behind another.
LEMMA InsertedIs ==
  ASSUME GaiTypeOK, Short = {}, NEW ai \in GaiEntries, ~ai.canon, NEW i \in 2 .. Len(glist) + 1,
         \A k \in 2..Len(glist) : ~glist[k].canon,
         glist' = G!InsertAt(glist, i, ai)
  PROVE  /\ glist' \in Seq(GaiEntries) /\ Len(glist') = Len(glist) + 1
         /\ \A k \in 1 .. Len(glist) + 1 :
              glist'[k] = IF k < i THEN glist[k] ELSE IF k = i THEN ai ELSE glist[k - 1]
         /\ Short' = IF ai.addr THEN {} ELSE {i}
         /\ NameOf' = NameOf
         /\ \A k \in 2..Len(glist') : ~glist'[k].canon
<1>1. /\ glist' \in Seq(GaiEntries) /\ Len(glist') = Len(glist) + 1 /\ Len(glist) \in Nat
      /\ \A k \in 1 .. Len(glist) + 1 :
           glist'[k] = IF k < i THEN glist[k] ELSE IF k = i THEN ai ELSE glist[k - 1]
  <2>1. glist \in Seq(GaiEntries) /\ Len(glist) \in Nat
    BY DEF GaiTypeOK
  <2>2. i \in 1 .. Len(glist) + 1
    BY <2>1
  <2>3. glist' \in Seq(GaiEntries) /\ Inserted(glist', glist, i, ai)
    BY <2>1, <2>2, InsertAtIs
  <2>4. QED BY <2>1, <2>3 DEF Inserted
<1>2. \A k \in 1..Len(glist) : glist[k].addr
  BY DEF Short
<1>3. \A k \in 1 .. Len(glist) + 1 : glist'[k].addr = (k # i \/ ai.addr)
  <2>1. ASSUME NEW k \in 1 .. Len(glist) + 1, k # i
        PROVE  glist'[k] = glist[IF k < i THEN k ELSE k - 1] /\ (IF k < i THEN k ELSE k - 1) \in 1..Len(glist)
    BY <1>1, <2>1
  <2>2. \A k \in 1..Len(glist) : glist[k].addr = TRUE
    <3>1. ASSUME NEW k \in 1..Len(glist) PROVE glist[k].addr \in BOOLEAN
      <4>1. glist[k] \in GaiEntries
        BY QueueOf DEF GaiTypeOK
      <4>2. QED BY <4>1 DEF GaiEntries
    <3>2. QED BY <1>2, <3>1
  <2>3. ASSUME NEW k \in 1 .. Len(glist) + 1, k # i PROVE glist'[k].addr = TRUE
    BY <2>1, <2>2, <2>3
  <2>4. glist'[i] = ai /\ ai.addr \in BOOLEAN /\ i \in 1 .. Len(glist) + 1
    BY <1>1 DEF GaiEntries
  <2>5. QED BY <2>3, <2>4
<1>4. Short' = IF ai.addr THEN {} ELSE {i}
  <2>1. Short' = {k \in 1 .. Len(glist) + 1 : ~(k # i \/ ai.addr)}
    BY <1>1, <1>3 DEF Short
  <2>2. i \in 1 .. Len(glist) + 1
    BY <1>1
  <2>3. QED BY <2>1, <2>2
<1>5. NameOf' = NameOf
  <2>1. Len(glist) > 0
    <3>1. i <= Len(glist) + 1 /\ i >= 2
      BY <1>1
    <3>2. QED BY <1>1, <3>1
  <2>2. glist # <<>> /\ glist' # <<>> /\ glist'[1] = glist[1]
    BY <1>1, <2>1, QueueOf DEF GaiTypeOK
  <2>3. QED BY <2>2 DEF NameOf
<1>6. ASSUME NEW k \in 2..Len(glist') PROVE ~glist'[k].canon
  <2>1. CASE k = i
    BY <1>1, <2>1
  <2>2. CASE k < i
    BY <1>1, <2>2
  <2>3. CASE k > i
    <3>1. k - 1 \in 2..Len(glist) /\ glist'[k] = glist[k - 1]
      BY <1>1, <2>3
    <3>2. QED BY <3>1
  <2>4. QED BY <1>1, <2>1, <2>2, <2>3
<1>7. QED BY <1>1, <1>4, <1>5, <1>6

\* An entry that gets its type and its port.
LEMMA PortedIs ==
  ASSUME GaiTypeOK, NEW i \in 1..Len(glist), NEW type \in G!Types,
         glist' = [glist EXCEPT ![i].socktype = type, ![i].port = type]
  PROVE  /\ glist' \in Seq(GaiEntries) /\ Len(glist') = Len(glist)
         /\ Short' = Short /\ NameOf' = NameOf
         /\ \A k \in 1..Len(glist) : glist'[k].canon = glist[k].canon
         /\ \A k \in 1..Len(glist) : k # i => glist'[k] = glist[k]
         /\ glist'[i].family = glist[i].family /\ glist'[i].socktype = type /\ glist'[i].port = type
         /\ glist'[i].clone = glist[i].clone
<1>1. /\ glist \in Seq(GaiEntries) /\ Len(glist) \in Nat /\ \A k \in 1..Len(glist) : glist[k] \in GaiEntries
  BY QueueOf DEF GaiTypeOK
<1> DEFINE one == [glist[i] EXCEPT !.socktype = type, !.port = type]
           new == [glist EXCEPT ![i] = one]
<1>2. /\ one \in GaiEntries /\ one.socktype = type /\ one.port = type /\ one.addr = glist[i].addr
      /\ one.canon = glist[i].canon /\ one.clone = glist[i].clone /\ one.family = glist[i].family
  BY <1>1 DEF GaiEntries
<1>3. glist' = new
  <2>1. i \in DOMAIN glist
    BY <1>1
  <2>2. glist' = [glist EXCEPT ![i] = [[glist[i] EXCEPT !.socktype = type] EXCEPT !.port = type]]
    BY <1>1, <2>1
  <2>3. QED BY <2>2
<1> HIDE DEF one
<1>4. /\ new \in Seq(GaiEntries) /\ Len(new) = Len(glist) /\ new[i] = one
      /\ \A k \in 1..Len(glist) : k # i => new[k] = glist[k]
  BY <1>1, <1>2, ReplacedIs
<1> HIDE DEF new
<1>5. /\ glist' \in Seq(GaiEntries) /\ Len(glist') = Len(glist) /\ glist'[i] = one
      /\ \A k \in 1..Len(glist) : k # i => glist'[k] = glist[k]
  BY <1>3, <1>4
<1>6. \A k \in 1..Len(glist) : glist'[k].addr = glist[k].addr /\ glist'[k].canon = glist[k].canon
  BY <1>2, <1>5
<1>7. Short' = Short
  BY <1>5, <1>6 DEF Short
<1>8. NameOf' = NameOf
  <2>1. glist # <<>> /\ glist' # <<>> /\ 1 \in 1..Len(glist)
    BY <1>1, <1>5, QueueOf
  <2>2. QED BY <1>6, <2>1 DEF NameOf
<1>9. QED BY <1>2, <1>5, <1>6, <1>7, <1>8

\* An entry gets a port, or a clone that has it.
LEMMA GaiPort == ASSUME GaiInv, G!Port PROVE GaiInv'
<1>0. GaiTypeOK /\ Allocated /\ OnItsWay /\ Built /\ GaiArgs
  BY DEF GaiInv, GaiTypeOK
<1> DEFINE ai == glist[gpos]
           type == Head(ports)
           new == [ai EXCEPT !.clone = FALSE, !.canon = FALSE, !.socktype = type, !.port = type]
           part == [new EXCEPT !.addr = FALSE]
<1>1. /\ gpc = "port" /\ ports # <<>> /\ gpos <= Len(glist)
      /\ UNCHANGED <<search, todo, found, headset, canon, ports>>
      /\ UNCHANGED G!args
  BY DEF G!Port
<1>2. /\ UNCHANGED <<version, host, serv, gflags, hints, known, inet6>>
      /\ GaiArgs' /\ Turns' = Turns
  BY <1>0, <1>1, ArgsStay
<1>3. \/ /\ ~ai.clone /\ ai.socktype # type
         /\ gpos' = gpos + 1 /\ UNCHANGED <<gpc, glist, nfound, heap, err>>
      \/ /\ ai.clone /\ ai.socktype # "0"
         /\ \/ gpc' = "bad" /\ err' = "MEMORY" /\ UNCHANGED <<glist, gpos, nfound, heap>>
            \/ /\ gpc' = "bad" /\ err' = "MEMORY" /\ glist' = G!InsertAt(glist, gpos + 1, part)
               /\ heap' = heap + 1 /\ UNCHANGED <<gpos, nfound>>
            \/ /\ glist' = G!InsertAt(glist, gpos + 1, new) /\ heap' = heap + 2
               /\ gpos' = gpos + 2 /\ nfound' = nfound + 1 /\ UNCHANGED <<gpc, err>>
      \/ /\ ~(~ai.clone /\ ai.socktype # type) /\ ~(ai.clone /\ ai.socktype # "0")
         /\ glist' = [glist EXCEPT ![gpos].socktype = type, ![gpos].port = type]
         /\ gpos' = gpos + 1 /\ nfound' = nfound + 1 /\ UNCHANGED <<gpc, heap, err>>
  BY DEF G!Port, G!Fail
<1>4. found # <<>> /\ serv # "none" /\ (FirstTurn \/ SecondTurn)
  BY <1>0, <1>1 DEF Built, AllTurns
<1>5. /\ Len(found) \in Nat /\ Len(glist) \in Nat /\ gpos \in Nat /\ gpos > 0 /\ nfound \in Nat /\ heap \in Int
      /\ gpos \in 1..Len(glist) /\ glist[gpos] \in GaiEntries
      /\ Short = {} /\ ~canon /\ Aside = 0 /\ Aside' = 0 /\ NameOf \in Nat
      /\ heap = 2 * Len(glist) + NameOf
      /\ \A k \in 2..Len(glist) : ~glist[k].canon
  <2>1. /\ Len(found) \in Nat /\ Len(glist) \in Nat /\ gpos \in Nat /\ gpos > 0 /\ nfound \in Nat /\ heap \in Int
    BY <1>0 DEF GaiTypeOK
  <2>2. gpos \in 1..Len(glist) /\ glist[gpos] \in GaiEntries
    <3>1. gpos \in 1..Len(glist)
      BY <1>1, <2>1
    <3>2. QED BY <1>0, <3>1, QueueOf DEF GaiTypeOK
  <2>3. /\ Short = {} /\ ~canon /\ NameOf \in Nat /\ \A k \in 2..Len(glist) : ~glist[k].canon
    BY <1>0, <1>1 DEF Allocated, Working, NameOf
  <2>4. Aside = 0 /\ Aside' = 0
    BY <1>1, <2>3 DEF Aside
  <2>5. heap = 2 * Len(glist) + NameOf
    BY <1>0, <2>1, <2>3, <2>4 DEF Allocated
  <2>6. QED BY <2>1, <2>2, <2>3, <2>4, <2>5
<1>6. OnItsWay'
  <2>1. UNCHANGED gpc \/ (gpc' = "bad" /\ err' = "MEMORY")
    BY <1>3
  <2>2. QED BY <1>0, <1>1, <1>2, <2>1 DEF OnItsWay
<1>7. ports \in Seq(G!Types) /\ ports' \in Seq(G!Types) /\ type \in G!Types
  BY <1>0, <1>1 DEF GaiTypeOK
<1> HIDE DEF type
<1>8. G!Exact'
  BY <1>1, <1>3 DEF G!Exact
<1>9. CASE FirstTurn
  <2>1. /\ ports = Turns /\ Len(glist) = Len(found) /\ nfound = gpos - 1 /\ Turns # <<>>
        /\ \A k \in 1..Len(found) : IF k < gpos THEN Ported(glist[k], found[k], Turns[1]) ELSE Bare(glist[k], found[k])
        /\ type = Turns[1] /\ Bare(ai, found[gpos])
    <3>1. /\ ports = Turns /\ Len(glist) = Len(found) /\ nfound = gpos - 1 /\ Turns # <<>>
          /\ \A k \in 1..Len(found) : IF k < gpos THEN Ported(glist[k], found[k], Turns[1]) ELSE Bare(glist[k], found[k])
      BY <1>1, <1>9 DEF FirstTurn
    <3>2. Bare(ai, found[gpos])
      BY <1>5, <3>1
    <3>3. type = Turns[1]
      BY <1>0, <3>1, OneOrTwo DEF type
    <3>4. QED BY <3>1, <3>2, <3>3
  <2>2. ~(~ai.clone /\ ai.socktype # type) /\ ~(ai.clone /\ ai.socktype # "0")
    <3>1. ai.clone = (hints.socktype = "0") /\ ai.socktype = hints.socktype
      BY <2>1 DEF Bare
    <3>2. hints.socktype # "0" => type = hints.socktype
      BY <1>0, <2>1, OneOrTwo
    <3>3. QED BY <3>1, <3>2
  <2>3. /\ glist' = [glist EXCEPT ![gpos].socktype = type, ![gpos].port = type]
        /\ gpos' = gpos + 1 /\ nfound' = nfound + 1 /\ UNCHANGED <<gpc, heap, err>>
    BY <1>3, <2>2
  <2>4. /\ glist' \in Seq(GaiEntries) /\ Len(glist') = Len(glist)
        /\ Short' = Short /\ NameOf' = NameOf
        /\ \A k \in 1..Len(glist) : glist'[k].canon = glist[k].canon
        /\ \A k \in 1..Len(glist) : k # gpos => glist'[k] = glist[k]
        /\ glist'[gpos].family = glist[gpos].family /\ glist'[gpos].socktype = type /\ glist'[gpos].port = type
        /\ glist'[gpos].clone = glist[gpos].clone
    BY <1>0, <1>5, <1>7, <2>3, PortedIs
  <2>5. GaiTypeOK'
    BY <1>0, <1>1, <1>2, <1>5, <2>3, <2>4 DEF GaiTypeOK
  <2>6. Allocated'
    <3>1. \A k \in 2..Len(glist') : ~glist'[k].canon
      BY <1>5, <2>4
    <3>2. heap' = 2 * Len(glist') - (IF Short' # {} THEN 1 ELSE 0) + NameOf' + Aside'
      BY <1>5, <2>3, <2>4
    <3>3. QED BY <1>1, <1>5, <2>3, <2>4, <3>1, <3>2 DEF Allocated
  <2>7. FirstTurn'
    <3>1. ASSUME NEW k \in 1..Len(found)
          PROVE  IF k < gpos + 1 THEN Ported(glist'[k], found[k], Turns[1]) ELSE Bare(glist'[k], found[k])
      <4>1. CASE k = gpos
        BY <1>5, <2>1, <2>4, <4>1 DEF Bare, Ported, With
      <4>2. CASE k # gpos
        BY <1>5, <2>1, <2>4, <4>2
      <4>3. QED BY <4>1, <4>2
    <3>2. /\ ports' = Turns /\ Len(glist') = Len(found) /\ gpos' <= Len(found) + 1 /\ nfound' = gpos' - 1
      BY <1>1, <1>5, <2>1, <2>3, <2>4
    <3>3. ASSUME NEW k \in 1..Len(found)
          PROVE  (IF k < gpos THEN Ported(glist[k], found[k], Turns[1]) ELSE Bare(glist[k], found[k]))'
      BY <1>1, <1>2, <2>3, <3>1 DEF Ported, Bare, With
    <3>4. QED BY <1>1, <1>2, <2>1, <3>2, <3>3 DEF FirstTurn
  <2>8. Built'
    BY <1>1, <1>2, <1>4, <2>3, <2>7 DEF Built
  <2>9. QED BY <1>6, <1>8, <2>5, <2>6, <2>8 DEF GaiInv
<1>10. CASE SecondTurn
  <2>1. PICK m \in 0..Len(found) : gpos = 2 * m + 1 /\ Twice(m)
    BY <1>10 DEF SecondTurn
  <2>2. /\ Len(Turns) = 2 /\ ports = <<Turns[2]>> /\ nfound > 0 /\ Turns # <<>>
        /\ hints.socktype = "0" /\ Turns[1] = "STREAM" /\ type = Turns[2]
    <3>1. Len(Turns) = 2 /\ ports = <<Turns[2]>> /\ nfound > 0
      BY <1>10 DEF SecondTurn
    <3>2. Turns # <<>>
      BY <3>1
    <3>3. type = Turns[2]
      BY <3>1 DEF type
    <3>4. QED BY <1>0, <3>1, <3>2, <3>3, OneOrTwo
  <2>3. /\ Len(glist) = Len(found) + m /\ m < Len(found) /\ m \in Nat
        /\ \A k \in 1..m : Ported(glist[2 * k - 1], found[k], Turns[1]) /\ Cloned(glist[2 * k], found[k], Turns[2])
        /\ \A k \in m + 1 .. Len(found) : Ported(glist[m + k], found[k], Turns[1])
    BY <1>5, <2>1 DEF Twice
  <2>4. Ported(ai, found[m + 1], Turns[1])
    <3>1. m + 1 \in m + 1 .. Len(found) /\ m + (m + 1) = gpos
      BY <1>5, <2>1, <2>3
    <3>2. QED BY <2>3, <3>1
  <2>5. ai.clone /\ ai.socktype # "0"
    BY <2>2, <2>4 DEF Ported, With
  <2>6. /\ new \in GaiEntries /\ ~new.clone /\ ~new.canon /\ new.addr /\ With(new, found[m + 1], Turns[2])
        /\ part \in GaiEntries /\ ~part.canon /\ ~part.addr
    <3>1. ai \in GaiEntries /\ ai.addr = TRUE /\ ai.family = found[m + 1]
      <4>1. ai.addr
        BY <1>5 DEF Short
      <4>2. QED BY <1>5, <2>4, <4>1 DEF Ported, With, GaiEntries
    <3> HIDE DEF ai
    <3>2. QED BY <1>7, <2>2, <3>1 DEF GaiEntries, With
  <2> HIDE DEF ai, new, part
  <2>7. \/ gpc' = "bad" /\ err' = "MEMORY" /\ UNCHANGED <<glist, gpos, nfound, heap>>
        \/ /\ gpc' = "bad" /\ err' = "MEMORY" /\ glist' = G!InsertAt(glist, gpos + 1, part)
           /\ heap' = heap + 1 /\ UNCHANGED <<gpos, nfound>>
        \/ /\ glist' = G!InsertAt(glist, gpos + 1, new) /\ heap' = heap + 2
           /\ gpos' = gpos + 2 /\ nfound' = nfound + 1 /\ UNCHANGED <<gpc, err>>
    BY <1>3, <2>5
  <2>8. gpos + 1 \in 2 .. Len(glist) + 1
    BY <1>5
  <2>9. CASE gpc' = "bad" /\ err' = "MEMORY" /\ UNCHANGED <<glist, gpos, nfound, heap>>
    <3>1. Short' = {} /\ NameOf' = NameOf
      BY <1>5, <2>9 DEF Short, NameOf
    <3>2. GaiTypeOK'
      BY <1>0, <1>1, <1>2, <2>9 DEF GaiTypeOK
    <3>3. Allocated'
      BY <1>1, <1>5, <2>9, <3>1 DEF Allocated
    <3>4. Built'
      BY <2>9 DEF Built
    <3>5. QED BY <1>6, <1>8, <3>2, <3>3, <3>4 DEF GaiInv
  <2>10. CASE /\ gpc' = "bad" /\ err' = "MEMORY" /\ glist' = G!InsertAt(glist, gpos + 1, part)
              /\ heap' = heap + 1 /\ UNCHANGED <<gpos, nfound>>
    <3>1. /\ glist' \in Seq(GaiEntries) /\ Len(glist') = Len(glist) + 1
          /\ Short' = {gpos + 1} /\ NameOf' = NameOf /\ \A k \in 2..Len(glist') : ~glist'[k].canon
      BY <1>0, <1>5, <2>6, <2>8, <2>10, InsertedIs
    <3>2. GaiTypeOK'
      <4>1. heap' \in Int
        BY <1>5, <2>10
      <4>2. QED BY <1>0, <1>1, <1>2, <2>10, <3>1, <4>1 DEF GaiTypeOK
    <3>3. Allocated'
      <4>1. heap' = 2 * Len(glist') - (IF Short' # {} THEN 1 ELSE 0) + NameOf' + Aside'
        <5>1. /\ Len(glist') = Len(glist) + 1 /\ heap' = heap + 1 /\ heap = 2 * Len(glist) + NameOf
              /\ Len(glist) \in Nat /\ NameOf \in Nat /\ Aside' = 0 /\ NameOf' = NameOf
          BY <1>5, <2>10, <3>1
        <5>2. Short' # {}
          BY <3>1
        <5>3. QED BY <5>1, <5>2
      <4>2. QED BY <1>1, <1>5, <2>10, <3>1, <4>1 DEF Allocated, Working
    <3>4. Built'
      BY <2>10 DEF Built
    <3>5. QED BY <1>6, <1>8, <3>2, <3>3, <3>4 DEF GaiInv
  <2>11. CASE /\ glist' = G!InsertAt(glist, gpos + 1, new) /\ heap' = heap + 2
              /\ gpos' = gpos + 2 /\ nfound' = nfound + 1 /\ UNCHANGED <<gpc, err>>
    <3>1. /\ glist' \in Seq(GaiEntries) /\ Len(glist') = Len(glist) + 1
          /\ \A k \in 1 .. Len(glist) + 1 :
               glist'[k] = IF k < gpos + 1 THEN glist[k] ELSE IF k = gpos + 1 THEN new ELSE glist[k - 1]
          /\ Short' = {} /\ NameOf' = NameOf /\ \A k \in 2..Len(glist') : ~glist'[k].canon
      BY <1>0, <1>5, <2>6, <2>8, <2>11, InsertedIs
    <3>2. GaiTypeOK'
      <4>1. heap' \in Int /\ nfound' \in Nat /\ gpos' \in Nat \ {0}
        BY <1>5, <2>11
      <4>2. QED BY <1>0, <1>1, <1>2, <2>11, <3>1, <4>1 DEF GaiTypeOK
    <3>3. Allocated'
      <4>1. heap' = 2 * Len(glist') - (IF Short' # {} THEN 1 ELSE 0) + NameOf' + Aside'
        <5>1. /\ Len(glist') = Len(glist) + 1 /\ heap' = heap + 2 /\ heap = 2 * Len(glist) + NameOf
              /\ Len(glist) \in Nat /\ NameOf \in Nat /\ Aside' = 0 /\ NameOf' = NameOf
          BY <1>5, <2>11, <3>1
        <5>2. Short' = {}
          BY <3>1
        <5>3. QED BY <5>1, <5>2
      <4>2. QED BY <1>1, <1>5, <2>11, <3>1, <4>1 DEF Allocated, Working
    <3>4. ASSUME NEW k \in 1..m
          PROVE  Ported(glist'[2 * k - 1], found[k], Turns[1]) /\ Cloned(glist'[2 * k], found[k], Turns[2])
      <4>1. /\ 2 * k - 1 \in 1 .. Len(glist) + 1 /\ 2 * k - 1 < gpos + 1
            /\ 2 * k \in 1 .. Len(glist) + 1 /\ 2 * k < gpos + 1
        BY <1>5, <2>1, <2>3
      <4>2. glist'[2 * k - 1] = glist[2 * k - 1] /\ glist'[2 * k] = glist[2 * k]
        BY <3>1, <4>1
      <4>3. QED BY <2>3, <4>2
    <3>5. Ported(glist'[2 * (m + 1) - 1], found[m + 1], Turns[1]) /\ Cloned(glist'[2 * (m + 1)], found[m + 1], Turns[2])
      <4>1. 2 * (m + 1) - 1 = gpos /\ 2 * (m + 1) = gpos + 1
        BY <1>5, <2>1, <2>3
      <4>2. glist'[gpos] = ai /\ glist'[gpos + 1] = new
        BY <1>5, <3>1 DEF ai
      <4>3. QED BY <2>4, <2>6, <4>1, <4>2 DEF Cloned
    <3>6. ASSUME NEW k \in m + 1 + 1 .. Len(found) PROVE Ported(glist'[m + 1 + k], found[k], Turns[1])
      <4> DEFINE i == m + 1 + k
      <4>1. i \in 1 .. Len(glist) + 1 /\ i > gpos + 1 /\ i - 1 = m + k /\ i \in Int
        BY <1>5, <2>1, <2>3
      <4>2. glist'[m + 1 + k] = glist[m + k]
        <5> HIDE DEF i
        <5>1. ~(i < gpos + 1) /\ i # gpos + 1
          BY <1>5, <4>1
        <5>2. glist'[i] = glist[i - 1]
          BY <3>1, <4>1, <5>1
        <5>3. QED BY <4>1, <5>2 DEF i
      <4>3. k \in m + 1 .. Len(found)
        BY <2>3
      <4>4. QED BY <2>3, <4>2, <4>3
    <3>7. ASSUME NEW k \in 1 .. m + 1
          PROVE  Ported(glist'[2 * k - 1], found[k], Turns[1]) /\ Cloned(glist'[2 * k], found[k], Turns[2])
      <4>1. k \in 1..m \/ k = m + 1
        BY <2>3
      <4>2. QED BY <3>4, <3>5, <4>1
    <3>8. Twice(m + 1)'
      <4>1. Len(glist') = Len(found) + (m + 1)
        BY <1>5, <2>3, <3>1
      <4>2. QED BY <1>1, <1>2, <3>6, <3>7, <4>1 DEF Twice, Ported, Cloned, With
    <3>9. SecondTurn'
      <4>1. m + 1 \in 0..Len(found) /\ gpos' = 2 * (m + 1) + 1 /\ nfound' > 0
        BY <1>5, <2>1, <2>2, <2>3, <2>11
      <4>2. QED BY <1>1, <1>2, <2>2, <3>8, <4>1 DEF SecondTurn
    <3>10. Built'
      BY <1>1, <1>2, <1>4, <2>11, <3>9 DEF Built
    <3>11. QED BY <1>6, <1>8, <3>2, <3>3, <3>10 DEF GaiInv
  <2>12. QED BY <2>7, <2>9, <2>10, <2>11
<1>11. QED BY <1>4, <1>9, <1>10

\* The list has no entry: nothing is missing, and nothing is named.
LEMMA NothingShort ==
  ASSUME glist = <<>>
  PROVE  Short = {} /\ NameOf = 0 /\ Len(glist) = 0 /\ \A k \in 2..Len(glist) : FALSE
<1>1. Len(glist) = 0
  OBVIOUS
<1>2. QED BY <1>1 DEF Short, NameOf

\* An entry, as it is used for Unix domain sockets and when its address could not be had.
LEMMA EntryIs ==
  ASSUME NEW t \in G!Types
  PROVE  G!Entry("LOCAL", t) \in GaiEntries /\ G!Entry("LOCAL", t).addr /\ ~G!Entry("LOCAL", t).canon
<1>1. "LOCAL" \in GaiFamilies \cup {"LOCAL"} /\ (t = "0") \in BOOLEAN /\ "0" \in G!Types
  BY DEF G!Types
<1>2. QED BY <1>1 DEF G!Entry, GaiEntries

LEMMA EntryWithout ==
  ASSUME NEW e \in GaiEntries
  PROVE  /\ [e EXCEPT !.clone = FALSE] \in GaiEntries
         /\ [e EXCEPT !.clone = FALSE].addr = e.addr /\ [e EXCEPT !.clone = FALSE].canon = e.canon
         /\ [e EXCEPT !.addr = FALSE] \in GaiEntries
         /\ ~[e EXCEPT !.addr = FALSE].addr /\ [e EXCEPT !.addr = FALSE].canon = e.canon
  BY DEF GaiEntries

\* Unix domain sockets in libgai.
LEMMA GaiUnix == ASSUME GaiInv, G!Unix PROVE GaiInv'
<1>0. GaiTypeOK /\ Allocated /\ OnItsWay /\ GaiArgs
  BY DEF GaiInv, GaiTypeOK
<1> DEFINE types == IF hints.socktype # "0" THEN <<hints.socktype>> ELSE <<"STREAM", "DGRAM">>
           ai == [G!Entry("LOCAL", types[Len(glist) + 1]) EXCEPT !.clone = FALSE]
           part == [ai EXCEPT !.addr = FALSE]
<1>1. /\ gpc = "unix" /\ version = "gai" /\ found = <<>>
      /\ UNCHANGED <<search, todo, found, headset, canon, ports, gpos, nfound>>
      /\ UNCHANGED G!args
  BY <1>0 DEF G!Unix, OnItsWay
<1>2. /\ UNCHANGED <<version, host, serv, gflags, hints, known, inet6>>
      /\ GaiArgs'
  BY <1>0, <1>1, ArgsStay
<1>3. /\ glist \in Seq(GaiEntries) /\ Len(glist) \in Nat /\ heap \in Int
      /\ Short = {} /\ NameOf = 0 /\ ~canon /\ Aside = 0 /\ Aside' = 0
      /\ heap = 2 * Len(glist) /\ \A k \in 2..Len(glist) : ~glist[k].canon
  <2>1. /\ glist \in Seq(GaiEntries) /\ Len(glist) \in Nat /\ heap \in Int
    BY <1>0 DEF GaiTypeOK
  <2>2. Short = {} /\ NameOf = 0 /\ ~canon /\ \A k \in 2..Len(glist) : ~glist[k].canon
    BY <1>0, <1>1 DEF Allocated, Working
  <2>3. Aside = 0 /\ Aside' = 0
    BY <1>1, <2>2 DEF Aside
  <2>4. QED BY <1>0, <2>1, <2>2, <2>3 DEF Allocated
<1>4. hints.socktype \in G!Types /\ Len(types) \in {1, 2} /\ \A k \in 1..Len(types) : types[k] \in G!Types
  <2>1. hints.socktype \in G!Types /\ "STREAM" \in G!Types /\ "DGRAM" \in G!Types
    BY <1>0, TurnsAre DEF G!Types
  <2>2. QED BY <2>1
<1>5. Len(glist) < Len(types) =>
        /\ ai \in GaiEntries /\ ai.addr /\ ~ai.canon
        /\ part \in GaiEntries /\ ~part.addr /\ ~part.canon
  <2>1. Len(glist) < Len(types) => types[Len(glist) + 1] \in G!Types
    BY <1>3, <1>4
  <2> HIDE DEF types
  <2>2. ASSUME NEW t \in G!Types, NEW e, e = [G!Entry("LOCAL", t) EXCEPT !.clone = FALSE]
        PROVE  /\ e \in GaiEntries /\ e.addr /\ ~e.canon
               /\ [e EXCEPT !.addr = FALSE] \in GaiEntries
               /\ ~[e EXCEPT !.addr = FALSE].addr /\ ~[e EXCEPT !.addr = FALSE].canon
    <3>1. e \in GaiEntries /\ e.addr /\ ~e.canon
      BY <2>2, EntryIs, EntryWithout
    <3>2. QED BY <3>1, EntryWithout
  <2>3. QED BY <2>1, <2>2, Zenon
<1>6. \/ gpc' = "return" /\ err' # "ok" /\ UNCHANGED <<glist, heap>>
      \/ gpc' = "return" /\ err' # "ok" /\ Len(glist) < Len(types) /\ glist' = Append(glist, part) /\ heap' = heap + 1
      \/ gpc' = gpc /\ err' = err /\ Len(glist) < Len(types) /\ glist' = Append(glist, ai) /\ heap' = heap + 2
      \/ gpc' = "return" /\ err' = "ok" /\ Len(glist) >= Len(types) /\ UNCHANGED <<glist, heap>>
      \/ /\ gpc' = "return" /\ err' = "ok" /\ Len(glist) >= Len(types)
         /\ glist' = [glist EXCEPT ![1].canon = TRUE] /\ heap' = heap + 1
  <2>1. Len(types) \in Nat
    BY <1>4
  <2> HIDE DEF types
  <2>2. QED BY <1>3, <2>1 DEF G!Unix, G!Return, types
<1> HIDE DEF types, ai, part
<1>7. G!Exact'
  BY <1>1 DEF G!Exact
<1>8. gpc' \in {"return", "unix"}
  BY <1>1, <1>6
<1>9. Built'
  BY <1>8 DEF Built
<1>10. ASSUME gpc' = "return" /\ err' = "ok" => glist' # <<>> PROVE OnItsWay'
  BY <1>0, <1>1, <1>2, <1>8, <1>10 DEF OnItsWay
<1>11. ASSUME glist' \in Seq(GaiEntries), heap' \in Int PROVE GaiTypeOK'
  BY <1>0, <1>1, <1>2, <1>8, <1>11 DEF GaiTypeOK
<1>12. CASE gpc' = "return" /\ err' # "ok" /\ UNCHANGED <<glist, heap>>
  <2>1. Short' = {} /\ NameOf' = 0
    BY <1>3, <1>12 DEF Short, NameOf
  <2>2. Allocated'
    BY <1>1, <1>3, <1>12, <2>1 DEF Allocated
  <2>3. GaiTypeOK' /\ OnItsWay'
    BY <1>3, <1>10, <1>11, <1>12
  <2>4. QED BY <1>7, <1>9, <2>2, <2>3 DEF GaiInv
<1>13. CASE gpc' = "return" /\ err' # "ok" /\ Len(glist) < Len(types) /\ glist' = Append(glist, part) /\ heap' = heap + 1
  <2>1. /\ glist' \in Seq(GaiEntries) /\ Len(glist') = Len(glist) + 1
        /\ Short' = {Len(glist) + 1} /\ NameOf' = 0 /\ \A k \in 2..Len(glist') : ~glist'[k].canon
    BY <1>0, <1>3, <1>5, <1>13, OneEntryMore
  <2>2. heap' = 2 * Len(glist') - (IF Short' # {} THEN 1 ELSE 0) + NameOf' + Aside'
    BY <1>3, <1>13, <2>1
  <2>3. Allocated'
    BY <1>1, <1>3, <1>13, <2>1, <2>2 DEF Allocated, Working
  <2>4. GaiTypeOK' /\ OnItsWay'
    <3>1. heap' \in Int
      BY <1>3, <1>13
    <3>2. QED BY <1>10, <1>11, <1>13, <2>1, <3>1
  <2>5. QED BY <1>7, <1>9, <2>3, <2>4 DEF GaiInv
<1>14. CASE gpc' = gpc /\ err' = err /\ Len(glist) < Len(types) /\ glist' = Append(glist, ai) /\ heap' = heap + 2
  <2>1. /\ glist' \in Seq(GaiEntries) /\ Len(glist') = Len(glist) + 1
        /\ Short' = {} /\ NameOf' = 0 /\ \A k \in 2..Len(glist') : ~glist'[k].canon
    BY <1>0, <1>3, <1>5, <1>14, OneEntryMore
  <2>2. heap' = 2 * Len(glist') - (IF Short' # {} THEN 1 ELSE 0) + NameOf' + Aside'
    BY <1>3, <1>14, <2>1
  <2>3. Allocated'
    BY <1>1, <1>3, <1>14, <2>1, <2>2 DEF Allocated, Working
  <2>4. GaiTypeOK' /\ OnItsWay'
    <3>1. heap' \in Int /\ gpc' # "return"
      BY <1>1, <1>3, <1>14
    <3>2. QED BY <1>10, <1>11, <1>14, <2>1, <3>1
  <2>5. QED BY <1>7, <1>9, <2>3, <2>4 DEF GaiInv
<1>15. Len(glist) >= Len(types) => glist # <<>>
  <2>1. glist = <<>> <=> Len(glist) = 0
    BY <1>3, QueueOf
  <2>2. Len(types) \in {1, 2}
    BY <1>4
  <2> HIDE DEF types
  <2>3. Len(types) >= 1
    BY <2>2
  <2>4. Len(glist) >= Len(types) => Len(glist) # 0
    BY <2>3
  <2>5. QED BY <2>1, <2>4
<1>16. CASE gpc' = "return" /\ err' = "ok" /\ Len(glist) >= Len(types) /\ UNCHANGED <<glist, heap>>
  <2>1. Short' = {} /\ NameOf' = 0
    BY <1>3, <1>16 DEF Short, NameOf
  <2>2. Allocated'
    BY <1>1, <1>3, <1>16, <2>1 DEF Allocated
  <2>3. GaiTypeOK' /\ OnItsWay'
    BY <1>3, <1>10, <1>11, <1>15, <1>16
  <2>4. QED BY <1>7, <1>9, <2>2, <2>3 DEF GaiInv
<1>17. CASE /\ gpc' = "return" /\ err' = "ok" /\ Len(glist) >= Len(types)
            /\ glist' = [glist EXCEPT ![1].canon = TRUE] /\ heap' = heap + 1
  <2>1. /\ glist' \in Seq(GaiEntries) /\ Len(glist') = Len(glist) /\ glist' # <<>>
        /\ Short' = {} /\ NameOf' = 1
        /\ \A k \in 1..Len(glist) : k # 1 => glist'[k].canon = glist[k].canon
    BY <1>0, <1>3, <1>15, <1>17, NamedIs
  <2>2. heap' = 2 * Len(glist') - (IF Short' # {} THEN 1 ELSE 0) + NameOf' + Aside'
    BY <1>3, <1>17, <2>1
  <2>3. \A k \in 2..Len(glist') : ~glist'[k].canon
    BY <1>3, <2>1
  <2>4. Allocated'
    BY <1>1, <1>3, <1>17, <2>1, <2>2, <2>3 DEF Allocated, Working
  <2>5. GaiTypeOK' /\ OnItsWay'
    <3>1. heap' \in Int
      BY <1>3, <1>17
    <3>2. QED BY <1>10, <1>11, <1>17, <2>1, <3>1
  <2>6. QED BY <1>7, <1>9, <2>4, <2>5 DEF GaiInv
<1>18. QED BY <1>6, <1>12, <1>13, <1>14, <1>16, <1>17

\* Unix domain sockets in libfree.
LEMMA GaiLocal == ASSUME GaiInv, G!Local PROVE GaiInv'
<1>0. GaiTypeOK /\ Allocated /\ OnItsWay /\ GaiArgs
  BY DEF GaiInv, GaiTypeOK
<1> DEFINE ai == G!Entry("LOCAL", hints.socktype)
           part == [ai EXCEPT !.addr = FALSE]
<1>1. /\ gpc = "local" /\ version = "free" /\ found = <<>> /\ glist = <<>> /\ (host = "path" \/ serv = "path")
      /\ gpc' = "return" /\ headset' = TRUE
      /\ UNCHANGED <<search, todo, found, canon, ports, gpos, nfound>>
      /\ UNCHANGED G!args
  BY <1>0 DEF G!Local, G!Return, OnItsWay
<1>2. /\ UNCHANGED <<version, host, serv, gflags, hints, known, inet6>>
      /\ GaiArgs'
  BY <1>0, <1>1, ArgsStay
<1>3. /\ Short = {} /\ NameOf = 0 /\ Len(glist) = 0 /\ ~canon /\ Aside = 0 /\ Aside' = 0 /\ heap = 0
      /\ \A k \in 2..Len(glist) : ~glist[k].canon
  <2>1. Short = {} /\ NameOf = 0 /\ Len(glist) = 0 /\ \A k \in 2..Len(glist) : FALSE
    BY <1>1, NothingShort
  <2>2. ~canon
    BY <1>0, <1>1 DEF Allocated
  <2>3. Aside = 0 /\ Aside' = 0
    BY <1>1, <2>2 DEF Aside
  <2>4. QED BY <1>0, <2>1, <2>2, <2>3 DEF Allocated
<1>4. /\ ai \in GaiEntries /\ ai.addr /\ ~ai.canon
      /\ part \in GaiEntries /\ ~part.addr /\ ~part.canon
  <2>1. hints.socktype \in G!Types
    BY <1>0, TurnsAre
  <2>2. ai \in GaiEntries /\ ai.addr /\ ~ai.canon
    BY <2>1, EntryIs
  <2> HIDE DEF ai
  <2>3. QED BY <2>2, EntryWithout
<1>5. \/ UNCHANGED <<glist, heap>>
      \/ glist' = <<part>> /\ heap' = heap + 1
      \/ glist' = <<ai>> /\ heap' = heap + 2
  BY DEF G!Local
<1> HIDE DEF ai, part
<1>6. G!Exact' /\ Built'
  BY <1>1 DEF G!Exact, Built
<1>7. OnItsWay'
  BY <1>0, <1>1, <1>2 DEF OnItsWay
<1>8. glist' \in Seq(GaiEntries) /\ heap' \in Int /\ Allocated'
  <2>1. CASE UNCHANGED <<glist, heap>>
    <3>1. Short' = {} /\ NameOf' = 0
      BY <1>3, <2>1 DEF Short, NameOf
    <3>2. QED BY <1>0, <1>1, <1>3, <2>1, <3>1 DEF Allocated, GaiTypeOK
  <2>2. ASSUME NEW x \in GaiEntries, ~x.canon, glist' = <<x>>, heap' = IF x.addr THEN 2 ELSE 1
        PROVE  glist' \in Seq(GaiEntries) /\ heap' \in Int /\ Allocated'
    <3>1. glist' = Append(glist, x)
      BY <1>1, <2>2
    <3>2. /\ glist' \in Seq(GaiEntries) /\ Len(glist') = 1
          /\ Short' = (IF x.addr THEN {} ELSE {1}) /\ NameOf' = 0 /\ \A k \in 2..Len(glist') : ~glist'[k].canon
      BY <1>0, <1>3, <2>2, <3>1, OneEntryMore
    <3>3. heap' = 2 * Len(glist') - (IF Short' # {} THEN 1 ELSE 0) + NameOf' + Aside'
      BY <1>3, <2>2, <3>2
    <3>4. QED BY <1>1, <1>3, <2>2, <3>2, <3>3 DEF Allocated, Working
  <2>3. QED BY <1>3, <1>4, <1>5, <2>1, <2>2
<1>9. GaiTypeOK'
  BY <1>0, <1>1, <1>2, <1>8 DEF GaiTypeOK
<1>10. QED BY <1>6, <1>7, <1>8, <1>9 DEF GaiInv

\* The list is freed.
LEMMA GaiFree == ASSUME GaiInv, G!Bad \/ G!Freeaddrinfo PROVE GaiInv'
<1>0. GaiTypeOK /\ Allocated /\ OnItsWay /\ GaiArgs
  BY DEF GaiInv, GaiTypeOK
<1>1. /\ glist' = <<>> /\ heap' = heap - G!Blocks(glist)
      /\ \/ gpc = "bad" /\ gpc' = "return"
         \/ gpc = "bad" /\ gpc' = "crash" /\ ~headset
         \/ gpc = "return" /\ err = "ok" /\ gpc' = "freed"
      /\ UNCHANGED <<search, todo, found, headset, canon, ports, gpos, nfound, err>>
      /\ UNCHANGED G!args
  BY DEF G!Bad, G!Freeaddrinfo
<1>2. /\ UNCHANGED <<version, host, serv, gflags, hints, known, inet6>>
      /\ GaiArgs'
  BY <1>0, <1>1, ArgsStay
<1>3. heap' = Aside' /\ Aside' \in Int
  BY <1>0, <1>1, BlocksAre DEF Aside
<1>4. Short' = {} /\ NameOf' = 0 /\ Len(glist') = 0 /\ \A k \in 2..Len(glist') : FALSE
  <2>1. Len(<<>>) = 0
    OBVIOUS
  <2>2. QED BY <1>1, <2>1 DEF Short, NameOf
<1>5. GaiTypeOK'
  <2>1. glist' \in Seq(GaiEntries)
    BY <1>1, EmptySeq
  <2>2. QED BY <1>0, <1>1, <1>2, <1>3, <2>1 DEF GaiTypeOK
<1>6. Allocated'
  <2>1. heap' = 2 * Len(glist') - (IF Short' # {} THEN 1 ELSE 0) + NameOf' + Aside'
    <3> DEFINE s == IF Short' # {} THEN 1 ELSE 0
               n == NameOf'
               l == Len(glist')
               a == Aside'
    <3>1. s = 0 /\ n = 0 /\ l = 0 /\ a \in Int /\ heap' = a
      BY <1>3, <1>4
    <3> HIDE DEF s, n, l, a
    <3>2. heap' = 2 * l - s + n + a
      BY <3>1
    <3>3. QED BY <3>2 DEF s, n, l, a
  <2>2. QED BY <1>0, <1>1, <1>2, <1>4, <2>1 DEF Allocated, OnItsWay
<1>7. OnItsWay'
  BY <1>0, <1>1, <1>2 DEF OnItsWay
<1>8. Built'
  BY <1>1 DEF Built
<1>9. G!Exact'
  BY <1>0, <1>1 DEF G!Exact, OnItsWay
<1>10. QED BY <1>5, <1>6, <1>7, <1>8, <1>9 DEF GaiInv

\* Every step of a call keeps the invariant, and so does what is not a step of it.
LEMMA GaiStep == ASSUME GaiInv, G!Next \/ UNCHANGED G!vars PROVE GaiInv'
<1>1. CASE UNCHANGED G!vars
  <2>1. /\ UNCHANGED G!args
        /\ UNCHANGED <<gpc, search, todo, found, glist, headset, canon, ports, gpos, nfound, heap, err>>
    BY <1>1 DEF G!vars
  <2>2. GaiArgs
    BY DEF GaiInv, GaiTypeOK
  <2>3. /\ GaiArgs' /\ Turns' = Turns /\ G!Wanted' = G!Wanted
        /\ UNCHANGED <<version, host, serv, gflags, hints, known, inet6>>
    BY <2>1, <2>2, ArgsStay
  <2>4. GaiTypeOK'
    BY <2>1, <2>3 DEF GaiInv, GaiTypeOK
  <2>5. Allocated'
    BY <2>1, <2>3 DEF GaiInv, Allocated, Short, NameOf, Aside, Working
  <2>6. OnItsWay'
    BY <2>1, <2>3 DEF GaiInv, OnItsWay
  <2>7. Built'
    <3>1. /\ FirstTurn => FirstTurn'
      BY <2>1, <2>3 DEF FirstTurn, Ported, With, Bare
    <3>2. \A m : Twice(m) => Twice(m)'
      BY <2>1, <2>3 DEF Twice, Ported, Cloned, With
    <3>3. SecondTurn => SecondTurn'
      BY <2>1, <2>3, <3>2 DEF SecondTurn
    <3>4. AllTurns => AllTurns'
      BY <2>1, <2>3, <3>2 DEF AllTurns
    <3>5. QED BY <2>1, <2>3, <3>1, <3>3, <3>4 DEF GaiInv, Built, Bare
  <2>8. G!Exact'
    BY <2>1, <2>3 DEF GaiInv, G!Exact
  <2>9. QED BY <2>4, <2>5, <2>6, <2>7, <2>8 DEF GaiInv
<1>2. CASE G!Next
  <2>1. CASE G!CheckGai \/ G!CheckFree
    BY <2>1, GaiChecks
  <2>2. CASE G!SearchGai
    BY <2>2, GaiSearchGai
  <2>3. CASE G!SearchFree
    BY <2>3, GaiSearchFree
  <2>4. CASE G!Aistruct
    BY <2>4, GaiAistruct
  <2>5. CASE G!Canonname
    BY <2>5, GaiCanonname
  <2>6. CASE G!Serv
    BY <2>6, GaiServ
  <2>7. CASE G!PortEnds
    BY <2>7, GaiPortEnds
  <2>8. CASE G!NextPort
    BY <2>8, GaiNextPort
  <2>9. CASE G!Port
    BY <2>9, GaiPort
  <2>10. CASE G!Unix
    BY <2>10, GaiUnix
  <2>11. CASE G!Local
    BY <2>11, GaiLocal
  <2>12. CASE G!Bad \/ G!Freeaddrinfo
    BY <2>12, GaiFree
  <2>13. QED
    BY <1>2, <2>1, <2>2, <2>3, <2>4, <2>5, <2>6, <2>7, <2>8, <2>9, <2>10, <2>11, <2>12 DEF G!Next
<1>3. QED BY <1>1, <1>2

\* The invariant is about everything the property is about.
LEMMA GaiIs == ASSUME GaiInv PROVE G!GaiRight
<1>0. GaiTypeOK /\ Allocated /\ OnItsWay /\ G!Exact
  BY DEF GaiInv
<1>1. G!NoLeak
  <2>1. glist = <<>> => heap = Aside
    <3>1. glist = <<>> => Short = {} /\ NameOf = 0 /\ Len(glist) = 0
      BY NothingShort
    <3>2. Aside \in Int
      BY DEF Aside
    <3>3. QED BY <1>0, <3>1, <3>2 DEF Allocated
  <2>2. gpc = "freed" => glist = <<>> /\ ~canon
    BY <1>0 DEF Allocated
  <2>3. QED BY <1>0, <2>1, <2>2 DEF G!NoLeak, G!Returned, Aside, GaiTypeOK
<1>2. G!Survives
  BY <1>0 DEF G!Survives, G!family, OnItsWay
<1>3. QED BY <1>0, <1>1, <1>2 DEF G!GaiRight

\* AddressesRight: what getaddrinfo() returns with success is, for every address in
\* its order, an entry for each type of socket the service has, with its port;
\* every block is given back but for the known ones; and the program goes on but
\* in the known cases: in both versions, whatever allocation fails, for any
\* number of addresses.
THEOREM AddressesAreRight == MCSpec => []AddressesRight
<1>1. MCInit => GaiInv
  BY GaiInit DEF MCInit
<1>2. GaiInv /\ [MCNext]_<<which, vars, strcli, web, lookup, formats>> => GaiInv'
  <2>1. [MCNext]_<<which, vars, strcli, web, lookup, formats>> => G!Next \/ UNCHANGED lookup
    BY DEF MCNext
  <2>2. UNCHANGED lookup => UNCHANGED G!vars
    BY DEF lookup, G!vars, G!args
  <2>3. QED BY <2>1, <2>2, GaiStep
<1>3. GaiInv => AddressesRight
  BY GaiIs DEF AddressesRight
<1>4. QED BY <1>1, <1>2, <1>3, PTL DEF MCSpec

===============================================================================
