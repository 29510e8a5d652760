---------------------------- MODULE ServerPoolProofs ----------------------------
(***************************************************************************)
(* Proofs about the designs of one server, all of them at once, for any    *)
(* number of connections and of children and any size of the ring.  The    *)
(* invariant says where a connection can be on its way to the process or   *)
(* thread that serves it: in one place at a time, and known there.  And    *)
(* about the ways to open a socket, for any list of addresses: what a      *)
(* process knows of the addresses it has passed.  And about the programs   *)
(* that ask the kernel, for any interfaces, addresses and messages: what a *)
(* listing is, and how much of it a program has walked over.               *)
(***************************************************************************)
EXTENDS MCServers, FiniteSetTheorems, SequenceTheorems, WellFoundedInduction, TLAPS

USE PoolAssumption

\* A sequence without its x-th element: how a connection that is reset early
\* leaves the backlog.
LEMMA RemoveAtProperties ==
  ASSUME NEW S, NEW s \in Seq(S), NEW x \in 1..Len(s)
  PROVE  /\ RemoveAt(s, x) \in Seq(S)
         /\ Len(RemoveAt(s, x)) = Len(s) - 1
         /\ \A j \in 1..Len(s) - 1 : RemoveAt(s, x)[j] = IF j < x THEN s[j] ELSE s[j + 1]
<1> DEFINE u == SubSeq(s, 1, x - 1)
           v == SubSeq(s, x + 1, Len(s))
<1>1. u \in Seq(S) /\ Len(u) = x - 1 /\ \A j \in 1..x-1 : u[j] = s[j]
  OBVIOUS
<1>2. v \in Seq(S) /\ Len(v) = Len(s) - x /\ \A j \in 1..Len(s)-x : v[j] = s[x + j]
  OBVIOUS
<1>3. RemoveAt(s, x) = u \o v
  BY DEF RemoveAt
<1> HIDE DEF u, v
<1>4. Len(s) \in Nat /\ Len(u) + Len(v) = Len(s) - 1
  BY <1>1, <1>2
<1>5. /\ u \o v \in Seq(S)
      /\ Len(u \o v) = Len(u) + Len(v)
      /\ \A j \in 1..Len(u) + Len(v) :
           (u \o v)[j] = IF j <= Len(u) THEN u[j] ELSE v[j - Len(u)]
  BY <1>1, <1>2, ConcatProperties
<1>6. \A j \in 1..Len(s) - 1 : (u \o v)[j] = IF j < x THEN s[j] ELSE s[j + 1]
  <2> TAKE j \in 1..Len(s) - 1
  <2>1. (u \o v)[j] = IF j <= Len(u) THEN u[j] ELSE v[j - Len(u)]
    BY <1>4, <1>5
  <2>2. CASE j < x
    BY <1>1, <1>4, <2>1, <2>2
  <2>3. CASE j >= x
    <3>1. j - (x - 1) \in 1..Len(s) - x /\ x + (j - (x - 1)) = j + 1
      BY <1>4, <2>3
    <3>2. v[j - (x - 1)] = s[j + 1]
      BY <1>2, <3>1
    <3>3. QED BY <1>1, <1>4, <2>1, <2>3, <3>2
  <2>4. QED BY <1>4, <2>2, <2>3
<1>7. QED BY <1>3, <1>4, <1>5, <1>6

\* The values of design.
Designs == {"iterative", "fork", "prefork", "select", "fcntl", "mutex", "pass",
            "thread", "locked", "ring", "threads"}

\* The type of what serv05 keeps.
PassType ==
  pass \in [status : [Workers -> {0, 1}], navail : Int, rset : SUBSET (1..NChildren),
            chan : [Workers -> 0..MaxConn], byte : SUBSET (1..NChildren)]

\* Every variable has its type.
TypeOK ==
  /\ design \in Designs
  /\ mpc \in {"accept", "scan", "select", "pause", "wait", "gone"}
  /\ wpc \in [Workers -> {"none", "top", "accept", "release", "serve", "ready",
                          "wait", "woken", "gone"}]
  /\ wfd \in [Workers -> 0..MaxConn]
  /\ lock \in 0..MaxConn
  /\ backlog \in Seq(Conns)
  /\ conn \in [Conns -> {"none", "good", "bad", "mute", "answered", "closed", "reset", "cut"}]
  /\ PassType
  /\ ring \in [clifd : [0..MAXNCLI-1 -> 0..MaxConn], iget : 0..MAXNCLI-1, iput : 0..MAXNCLI-1]
  /\ zombies \in SUBSET Workers
  /\ sigchld \in BOOLEAN

\* The slots of the ring between iget and iput, going round.
Occupied(g, p) == {j \in 0..MAXNCLI-1 : IF g <= p THEN g <= j /\ j < p ELSE g <= j \/ j < p}
\* The slots that hold a connection.
Filled == Occupied(ring.iget, ring.iput)

\* What only one of the designs has, and when a worker has a connection in
\* hand.
Shape ==
  /\ \A w \in Workers : wfd[w] # 0 <=> wpc[w] \in {"release", "serve"}
  /\ design \in {"fork", "thread"} => \A w \in Workers : wfd[w] \in {0, w}
  /\ \A w \in Workers : pass.chan[w] # 0 =>
       design = "pass" /\ w <= NChildren /\ wpc[w] \in {"top", "gone"}
  /\ design # "ring" => ring.iget = ring.iput
  /\ \A w \in Workers : wpc[w] = "ready" => design = "pass"
  /\ \A w \in Workers : wpc[w] \in {"wait", "woken"} => design = "ring"
  /\ design = "pass" => \A w \in Workers : wpc[w] = "none" <=> w > NChildren
  /\ mpc \in {"select", "scan"} => design = "pass"

\* No connection is in two places: twice in the backlog, with two workers, in
\* two pipes, in two slots of the ring, or in any two of these.
Apart ==
  /\ \A x, j \in 1..Len(backlog) : x # j => backlog[x] # backlog[j]
  /\ \A v, w \in Workers : v # w => wfd[v] = 0 \/ wfd[v] # wfd[w]
  /\ \A v, w \in Workers : v # w => pass.chan[v] = 0 \/ pass.chan[v] # pass.chan[w]
  /\ \A x, j \in Filled : x # j => ring.clifd[x] # ring.clifd[j]
  /\ \A x \in 1..Len(backlog) :
       /\ \A w \in Workers : backlog[x] # wfd[w] /\ backlog[x] # pass.chan[w]
       /\ \A j \in Filled : backlog[x] # ring.clifd[j]
  /\ \A v, w \in Workers : wfd[v] # 0 => wfd[v] # pass.chan[w]
  /\ \A w \in Workers : \A j \in Filled : wfd[w] # ring.clifd[j]

\* A connection that is in a place has been made.
Known ==
  /\ \A x \in 1..Len(backlog) : conn[backlog[x]] # "none"
  /\ \A w \in Workers : wfd[w] # 0 => conn[wfd[w]] # "none"
  /\ \A w \in Workers : pass.chan[w] # 0 => conn[pass.chan[w]] # "none"
  /\ \A j \in Filled : ring.clifd[j] # 0 /\ conn[ring.clifd[j]] # "none"

\* The client waits for an answer, or for its request to be wanted.
Active(k) == conn[k] \in {"good", "bad", "mute"}

\* A connection whose client waits is in some place that is not gone.
Held ==
  \A k \in Conns : Active(k) =>
    \/ \E x \in 1..Len(backlog) : backlog[x] = k
    \/ \E w \in Workers : wfd[w] = k
    \/ \E w \in Workers : pass.chan[w] = k /\ ~Gone(w)
    \/ mpc # "gone" /\ \E j \in Filled : ring.clifd[j] = k

\* The children serv05 takes for idle.
Idle == {w \in 1..NChildren : pass.status[w] = 0}

\* serv05 counts its idle children right; an idle child has neither a
\* descriptor nor the byte that says it has finished on its way; and accept()
\* is called only when there is one.
Passing ==
  design = "pass" =>
    /\ pass.navail = Cardinality(Idle)
    /\ \A w \in 1..NChildren :
         /\ pass.status[w] = 0 => wpc[w] \in {"top", "gone"} /\ pass.chan[w] = 0 /\ w \notin pass.byte
         /\ w \in pass.byte => wpc[w] \in {"top", "gone"} /\ pass.chan[w] = 0
    /\ mpc = "accept" => pass.navail > 0

\* The inductive invariant: OneOwner is Apart and Held, counted.
IInv == TypeOK /\ Shape /\ Apart /\ Known /\ Held /\ Passing /\ Reaped

-----------------------------------------------------------------------------
\* The next slot of the ring is the first after the last.
LEMMA SuccIs ==
  ASSUME NEW x \in 0..MAXNCLI-1
  PROVE  Succ(x) = IF x + 1 = MAXNCLI THEN 0 ELSE x + 1
<1>1. CASE x + 1 < MAXNCLI BY <1>1, Z3 DEF Succ
<1>2. CASE x + 1 >= MAXNCLI BY <1>2, Z3 DEF Succ
<1>3. QED BY <1>1, <1>2

\* How many slots lie between iget and iput.
LEMMA RingCount ==
  ASSUME NEW g \in 0..MAXNCLI-1, NEW p \in 0..MAXNCLI-1
  PROVE  (p + MAXNCLI - g) % MAXNCLI = IF g <= p THEN p - g ELSE p + MAXNCLI - g
<1>1. CASE g <= p BY <1>1, Z3
<1>2. CASE ~(g <= p) BY <1>2, Z3
<1>3. QED BY <1>1, <1>2

\* The connections in the ring, as the code counts them, are those of the
\* slots between iget and iput.
LEMMA WaitingIsFilled ==
  ASSUME TypeOK
  PROVE  Waiting = {ring.clifd[j] : j \in Filled}
<1> DEFINE M == MAXNCLI
           g == ring.iget
           p == ring.iput
           n == (p + M - g) % M
<1>1. g \in 0..M-1 /\ p \in 0..M-1 /\ M \in Nat \ {0}
  BY DEF TypeOK, PassType
<1>2. n = IF g <= p THEN p - g ELSE p + M - g
  BY <1>1, RingCount
<1>3. \A x \in 0..n-1 : (g + x) % M = IF g + x < M THEN g + x ELSE g + x - M
  <2> TAKE x \in 0..n-1
  <2>1. x \in 0..M-1
    BY <1>1, <1>2
  <2>2. CASE g + x < M BY <1>1, <2>1, <2>2, Z3
  <2>3. CASE ~(g + x < M) BY <1>1, <2>1, <2>3, Z3
  <2>4. QED BY <2>2, <2>3
<1>4. \A x \in 0..n-1 : (g + x) % M \in Filled
  BY <1>1, <1>2, <1>3 DEF Filled, Occupied
<1>5. \A j \in Filled : \E x \in 0..n-1 : (g + x) % M = j
  <2> SUFFICES ASSUME NEW j \in Filled PROVE \E x \in 0..n-1 : (g + x) % M = j
    OBVIOUS
  <2>1. j \in 0..M-1 /\ (IF g <= p THEN g <= j /\ j < p ELSE g <= j \/ j < p)
    BY DEF Filled, Occupied
  <2>2. CASE g <= j
    <3>1. j - g \in 0..n-1 /\ g + (j - g) = j
      BY <1>1, <1>2, <2>1, <2>2
    <3>2. QED BY <1>1, <1>3, <2>1, <3>1
  <2>3. CASE j < g
    <3>1. j + M - g \in 0..n-1 /\ g + (j + M - g) = j + M
      BY <1>1, <1>2, <2>1, <2>3
    <3>2. QED BY <1>1, <1>3, <2>1, <3>1
  <2>4. QED BY <1>1, <2>1, <2>2, <2>3
<1>6. Waiting = {ring.clifd[(g + x) % M] : x \in 0..n-1}
  BY DEF Waiting
<1> HIDE DEF M, g, p, n
<1>7. QED BY <1>4, <1>5, <1>6

\* Putting a connection in fills one slot more, which was free, unless the
\* ring is full.
LEMMA PutFills ==
  ASSUME NEW g \in 0..MAXNCLI-1, NEW p \in 0..MAXNCLI-1, Succ(p) # g
  PROVE  /\ Occupied(g, Succ(p)) = Occupied(g, p) \cup {p}
         /\ p \notin Occupied(g, p) /\ Succ(p) \in 0..MAXNCLI-1
BY SuccIs DEF Occupied

\* Taking one out empties the first slot.
LEMMA GetEmpties ==
  ASSUME NEW g \in 0..MAXNCLI-1, NEW p \in 0..MAXNCLI-1, g # p
  PROVE  /\ Occupied(Succ(g), p) = Occupied(g, p) \ {g}
         /\ g \in Occupied(g, p) /\ Succ(g) \in 0..MAXNCLI-1
BY SuccIs DEF Occupied

\* A ring with iget = iput is empty.
LEMMA NothingFilled ==
  ASSUME NEW g \in 0..MAXNCLI-1
  PROVE  Occupied(g, g) = {}
BY DEF Occupied

-----------------------------------------------------------------------------
\* The end of workers, and perhaps of the parent, keeps the invariant: what
\* they held is cut off and not waited for, in each design as far as processes
\* share it.
LEMMA EndKeeps ==
  ASSUME IInv, NEW W \in SUBSET Workers, NEW m \in {"wait", "gone", mpc},
         End(W, m), UNCHANGED <<design, pass, ring>>
  PROVE  IInv'
<1> DEFINE left == Live \ W
           deaf == ~Listens(m, left)
           fds == ({wfd[w] : w \in W} \cup {pass.chan[w] : w \in W}
                    \cup (IF m = "gone" /\ design = "ring" THEN Waiting ELSE {})) \ {0}
           cut == fds \cup {k \in Conns : deaf /\ \E x \in DOMAIN backlog : backlog[x] = k}
<1>0. TypeOK /\ Shape /\ Apart /\ Known /\ Held /\ Passing /\ Reaped
  BY DEF IInv
<1> USE DEF TypeOK, PassType
<1>1. /\ wpc' = [w \in Workers |-> IF w \in Live \ left THEN "gone" ELSE wpc[w]]
      /\ mpc' = m
      /\ wfd' = [w \in Workers |-> IF w \in W THEN 0 ELSE wfd[w]]
      /\ backlog' = IF deaf THEN <<>> ELSE backlog
      /\ design' = design /\ pass' = pass /\ ring' = ring
      /\ Filled' = Filled
  BY DEF End, Filled
<1>2. conn' = Cut(cut)
  BY DEF End
<1>3. /\ \A w \in Workers : wpc'[w] = IF w \in W /\ ~Gone(w) THEN "gone" ELSE wpc[w]
      /\ \A w \in Workers : Gone(w)' <=> Gone(w) \/ w \in W
  BY <1>0, <1>1 DEF Live, Gone
<1>4. \A k \in Conns : conn'[k] = IF k \in cut /\ Active(k) THEN "cut" ELSE conn[k]
  BY <1>2 DEF Cut, Active
<1>5. /\ Len(backlog') <= Len(backlog) /\ Len(backlog') \in Nat
      /\ \A x \in 1..Len(backlog') : backlog'[x] = backlog[x] /\ ~deaf /\ x \in 1..Len(backlog)
      /\ ~deaf => backlog' = backlog
      /\ backlog' \in Seq(Conns)
  BY <1>0, <1>1
<1>6. zombies' = IF design = "fork" /\ m # "gone" THEN zombies \cup (Live \ left) ELSE {}
  BY DEF End
<1>7. Live \subseteq Workers
  BY DEF Live
<1>8. sigchld' = (sigchld \/ zombies' # zombies)
  BY DEF End
<1>9. lock' \in 0..MaxConn
  BY <1>0 DEF End
<1> HIDE DEF left, deaf, fds
<1>10. TypeOK'
  <2>1. wpc' \in [Workers -> {"none", "top", "accept", "release", "serve", "ready",
                          "wait", "woken", "gone"}]
    BY <1>0, <1>1
  <2>2. wfd' \in [Workers -> 0..MaxConn]
    BY <1>0, <1>1
  <2>3. conn' \in [Conns -> {"none", "good", "bad", "mute", "answered", "closed", "reset", "cut"}]
    BY <1>0, <1>2 DEF Cut
  <2>4. zombies' \in SUBSET Workers /\ sigchld' \in BOOLEAN
    BY <1>0, <1>6, <1>7, <1>8
  <2>5. QED BY <1>0, <1>1, <1>5, <1>9, <2>1, <2>2, <2>3, <2>4
<1>11. Shape'
  BY <1>0, <1>1, <1>3 DEF Shape, Gone
<1>12. Apart'
  <2>1. \A w \in Workers : wfd'[w] = 0 \/ wfd'[w] = wfd[w]
    BY <1>1
  <2>2. \A x, j \in 1..Len(backlog') : x # j => backlog'[x] # backlog'[j]
    BY <1>0, <1>5 DEF Apart
  <2>3. \A x \in 1..Len(backlog') :
          /\ \A w \in Workers : backlog'[x] # wfd'[w] /\ backlog'[x] # pass.chan[w]
          /\ \A j \in Filled : backlog'[x] # ring.clifd[j]
    <3>1. \A x \in 1..Len(backlog') : backlog'[x] # 0
      BY <1>5 DEF Conns
    <3>2. QED BY <1>0, <1>5, <2>1, <3>1 DEF Apart
  <2>4. \A v, w \in Workers : v # w => wfd'[v] = 0 \/ wfd'[v] # wfd'[w]
    BY <1>0, <2>1 DEF Apart
  <2>5. /\ \A v, w \in Workers : wfd'[v] # 0 => wfd'[v] # pass.chan[w]
        /\ \A w \in Workers : \A j \in Filled : wfd'[w] # ring.clifd[j]
    BY SMTT(30), <1>0, <2>1 DEF Apart, Known
  <2>6. QED BY <1>0, <1>1, <2>2, <2>3, <2>4, <2>5 DEF Apart
<1>13. Known'
  <2>1. \A k \in Conns : conn[k] # "none" => conn'[k] # "none"
    BY <1>4
  <2>2. \A x \in 1..Len(backlog') : backlog'[x] \in Conns
    BY <1>5
  <2>3. \A j \in Filled : ring.clifd[j] \in 0..MaxConn
    BY <1>0 DEF Filled, Occupied
  <2>4. \A x \in 1..Len(backlog') : conn'[backlog'[x]] # "none"
    BY <1>0, <1>5, <2>1, <2>2 DEF Known
  <2>5. \A w \in Workers : wfd'[w] # 0 => conn'[wfd'[w]] # "none"
    <3>1. \A w \in Workers : wfd[w] # 0 => wfd[w] \in Conns
      BY <1>0 DEF Conns
    <3>2. QED BY <1>0, <1>1, <2>1, <3>1 DEF Known
  <2>6. \A w \in Workers : pass.chan[w] # 0 => conn'[pass.chan[w]] # "none"
    <3>1. \A w \in Workers : pass.chan[w] # 0 => pass.chan[w] \in Conns
      BY <1>0 DEF Conns
    <3>2. QED BY <1>0, <2>1, <3>1 DEF Known
  <2>7. \A j \in Filled : ring.clifd[j] # 0 /\ conn'[ring.clifd[j]] # "none"
    <3>1. \A j \in Filled : ring.clifd[j] # 0 => ring.clifd[j] \in Conns
      BY <2>3 DEF Conns
    <3>2. QED BY <1>0, <2>1, <3>1 DEF Known
  <2>8. QED BY <1>1, <2>4, <2>5, <2>6, <2>7 DEF Known
<1>14. Held'
  <2> SUFFICES ASSUME NEW k \in Conns, Active(k)'
               PROVE  \/ \E x \in 1..Len(backlog') : backlog'[x] = k
                      \/ \E w \in Workers : wfd'[w] = k
                      \/ \E w \in Workers : pass.chan[w] = k /\ ~Gone(w)'
                      \/ m # "gone" /\ \E j \in Filled : ring.clifd[j] = k
    BY <1>1 DEF Held
  <2>1. Active(k) /\ k \notin cut
    BY <1>4 DEF Active
  <2>2. k # 0
    BY DEF Conns
  <2>3. CASE \E x \in 1..Len(backlog) : backlog[x] = k
    <3>1. ~deaf
      BY <1>0, <2>1, <2>3
    <3>2. QED BY <1>5, <2>3, <3>1
  <2>4. CASE \E w \in Workers : wfd[w] = k
    <3>1. PICK w \in Workers : wfd[w] = k
      BY <2>4
    <3>2. w \notin W
      BY <2>1, <2>2, <3>1 DEF fds
    <3>3. QED BY <1>1, <3>1, <3>2
  <2>5. CASE \E w \in Workers : pass.chan[w] = k /\ ~Gone(w)
    <3>1. PICK w \in Workers : pass.chan[w] = k /\ ~Gone(w)
      BY <2>5
    <3>2. w \notin W
      BY <2>1, <2>2, <3>1 DEF fds
    <3>3. QED BY <1>3, <3>1, <3>2
  <2>6. CASE mpc # "gone" /\ \E j \in Filled : ring.clifd[j] = k
    <3>1. design = "ring"
      <4>1. ring.iget \in 0..MAXNCLI-1
        BY <1>0
      <4>2. QED BY <1>0, <2>6, <4>1, NothingFilled DEF Shape, Filled
    <3>2. k \in Waiting
      BY SMTT(30), <1>0, <2>6, WaitingIsFilled
    <3>3. m # "gone"
      BY <2>1, <2>2, <3>1, <3>2 DEF fds
    <3>4. QED BY <2>6, <3>3
  <2>7. QED BY <1>0, <2>1, <2>3, <2>4, <2>5, <2>6 DEF Held
<1>15. Passing'
  <2>1. Idle' = Idle
    BY <1>1 DEF Idle
  <2>2. 1..NChildren \subseteq Workers
    BY DEF Workers
  <2>3. m = "accept" => mpc = "accept"
    OBVIOUS
  <2>4. QED BY <1>0, <1>1, <1>3, <2>1, <2>2, <2>3 DEF Passing, Gone
<1>16. Reaped'
  BY <1>0, <1>8 DEF Reaped
<1>17. QED BY <1>10, <1>11, <1>12, <1>13, <1>14, <1>15, <1>16 DEF IInv

-----------------------------------------------------------------------------
\* What is known of the connection accept() returns.
LEMMA HeadOfBacklog ==
  ASSUME IInv, backlog # <<>>
  PROVE  /\ Head(backlog) \in Conns /\ conn[Head(backlog)] # "none"
         /\ Head(backlog) # 0
         /\ \A w \in Workers : wfd[w] # Head(backlog) /\ pass.chan[w] # Head(backlog)
         /\ \A j \in Filled : ring.clifd[j] # Head(backlog)
         /\ Tail(backlog) \in Seq(Conns)
         /\ Len(Tail(backlog)) = Len(backlog) - 1
         /\ \A x \in 1..Len(Tail(backlog)) :
              /\ x + 1 \in 1..Len(backlog) /\ Tail(backlog)[x] = backlog[x + 1]
              /\ Tail(backlog)[x] # Head(backlog)
         /\ \A k \in Conns : (\E x \in 1..Len(backlog) : backlog[x] = k) =>
              k = Head(backlog) \/ \E x \in 1..Len(Tail(backlog)) : Tail(backlog)[x] = k
<1>0. TypeOK /\ Apart /\ Known
  BY DEF IInv
<1>1. /\ Len(backlog) \in Nat /\ 1 \in 1..Len(backlog) /\ Head(backlog) = backlog[1]
      /\ Tail(backlog) \in Seq(Conns)
      /\ Len(Tail(backlog)) = Len(backlog) - 1
      /\ \A x \in 1..Len(Tail(backlog)) : Tail(backlog)[x] = backlog[x + 1]
      /\ Head(backlog) \in Conns
  BY <1>0 DEF TypeOK, PassType
<1>2. \A x \in 1..Len(Tail(backlog)) : x + 1 \in 1..Len(backlog) /\ x + 1 # 1
  BY <1>1
<1>3. \A x \in 1..Len(Tail(backlog)) : Tail(backlog)[x] # Head(backlog)
  BY <1>0, <1>1, <1>2 DEF Apart
<1>4. \A x \in 1..Len(backlog) : x = 1 \/ (x - 1 \in 1..Len(Tail(backlog)) /\ backlog[x] = Tail(backlog)[x - 1])
  BY <1>1
<1>5. Head(backlog) # 0
  BY <1>1 DEF Conns
<1>6. /\ conn[Head(backlog)] # "none"
      /\ \A w \in Workers : wfd[w] # Head(backlog) /\ pass.chan[w] # Head(backlog)
      /\ \A j \in Filled : ring.clifd[j] # Head(backlog)
  BY <1>0, <1>1 DEF Apart, Known
<1>7. \A k \in Conns : (\E x \in 1..Len(backlog) : backlog[x] = k) =>
        k = Head(backlog) \/ \E x \in 1..Len(Tail(backlog)) : Tail(backlog)[x] = k
  BY <1>1, <1>4
<1>8. QED BY <1>1, <1>2, <1>3, <1>5, <1>6, <1>7

\* A step of a worker that moves no connection keeps the invariant.
LEMMA MoveKeeps ==
  ASSUME IInv, NEW w \in Workers,
         NEW b \in {"top", "accept", "release", "serve", "wait", "woken"},
         ~Gone(w), design # "pass", wpc' = [wpc EXCEPT ![w] = b],
         wfd[w] # 0 <=> b \in {"release", "serve"},
         b \in {"wait", "woken"} => design = "ring",
         UNCHANGED <<design, mpc, wfd, backlog, conn, pass, ring, zombies, sigchld>>,
         lock' \in 0..MaxConn
  PROVE  IInv'
<1>0. TypeOK /\ Shape /\ Apart /\ Known /\ Held /\ Passing /\ Reaped
  BY DEF IInv
<1>1. TypeOK'
  BY <1>0 DEF TypeOK, PassType
<1>2. \A v \in Workers : Gone(v)' <=> Gone(v)
  BY <1>0 DEF TypeOK, PassType, Gone
<1>3. Shape'
  BY <1>0 DEF Shape, TypeOK, PassType
<1>4. Filled' = Filled
  BY DEF Filled
<1>5. Apart' /\ Known' /\ Held' /\ Passing' /\ Reaped'
  BY <1>0, <1>2, <1>4 DEF Apart, Known, Held, Passing, Reaped, Active
<1>6. QED BY <1>1, <1>3, <1>5 DEF IInv

\* A worker that takes a connection from the backlog keeps the invariant.
LEMMA AcceptKeeps ==
  ASSUME IInv, NEW w \in Workers, NEW from \in {"top", "accept"}, NEW to \in {"serve", "release"},
         design \notin {"pass", "fork", "thread"},
         Accept(w, from, to),
         UNCHANGED <<design, mpc, pass, ring, zombies, sigchld>>
  PROVE  IInv'
<1>0. TypeOK /\ Shape /\ Apart /\ Known /\ Held /\ Passing /\ Reaped
  BY DEF IInv
<1> DEFINE h == Head(backlog)
<1>1. /\ wpc[w] = from /\ wpc' = [wpc EXCEPT ![w] = to]
      /\ backlog # <<>> /\ backlog' = Tail(backlog)
      /\ wfd' = [wfd EXCEPT ![w] = h]
      /\ UNCHANGED <<lock, conn>>
  BY DEF Accept, Goto
<1>2. wfd[w] = 0
  BY <1>0, <1>1 DEF Shape
<1>3. Filled' = Filled
  BY DEF Filled
<1>4. \A v \in Workers : wfd'[v] = IF v = w THEN h ELSE wfd[v]
  BY <1>0, <1>1 DEF TypeOK, PassType
<1>5. \A v \in Workers : Gone(v)' <=> Gone(v)
  BY <1>0, <1>1 DEF TypeOK, PassType, Gone
<1>h. /\ h \in Conns /\ conn[h] # "none" /\ h # 0
      /\ \A v \in Workers : wfd[v] # h /\ pass.chan[v] # h
      /\ \A j \in Filled : ring.clifd[j] # h
      /\ backlog' \in Seq(Conns)
      /\ \A x \in 1..Len(backlog') :
           /\ x + 1 \in 1..Len(backlog) /\ backlog'[x] = backlog[x + 1]
           /\ backlog'[x] # h
      /\ \A k \in Conns : (\E x \in 1..Len(backlog) : backlog[x] = k) =>
           k = h \/ \E x \in 1..Len(backlog') : backlog'[x] = k
  BY <1>1, HeadOfBacklog
<1> HIDE DEF h
<1>6. TypeOK'
  <2>1. h \in 0..MaxConn
    BY <1>h DEF Conns
  <2>2. wfd' \in [Workers -> 0..MaxConn]
    BY <1>0, <1>1, <2>1 DEF TypeOK, PassType
  <2>3. QED BY <1>0, <1>1, <1>h, <2>2 DEF TypeOK, PassType
<1>7. Shape'
  BY <1>0, <1>1, <1>4, <1>h DEF Shape, TypeOK, PassType
<1>8. Apart'
  <2>1. \A x, j \in 1..Len(backlog') : x # j => backlog'[x] # backlog'[j]
    <3>1. \A x, j \in 1..Len(backlog') : x # j => x + 1 # j + 1
      OBVIOUS
    <3>2. QED BY <1>0, <1>h, <3>1 DEF Apart
  <2>2. \A u, v \in Workers : u # v => wfd'[u] = 0 \/ wfd'[u] # wfd'[v]
    BY <1>0, <1>4, <1>h DEF Apart
  <2>3. \A x \in 1..Len(backlog') :
          /\ \A v \in Workers : backlog'[x] # wfd'[v] /\ backlog'[x] # pass.chan[v]
          /\ \A j \in Filled : backlog'[x] # ring.clifd[j]
    BY <1>0, <1>4, <1>h DEF Apart
  <2>4. /\ \A u, v \in Workers : wfd'[u] # 0 => wfd'[u] # pass.chan[v]
        /\ \A v \in Workers : \A j \in Filled : wfd'[v] # ring.clifd[j]
    BY <1>0, <1>4, <1>h DEF Apart
  <2>5. QED BY <1>0, <1>3, <2>1, <2>2, <2>3, <2>4 DEF Apart
<1>9. Known'
  BY <1>0, <1>1, <1>3, <1>4, <1>h DEF Known
<1>10. Held'
  <2> SUFFICES ASSUME NEW k \in Conns, Active(k)'
               PROVE  \/ \E x \in 1..Len(backlog') : backlog'[x] = k
                      \/ \E v \in Workers : wfd'[v] = k
                      \/ \E v \in Workers : pass.chan[v] = k /\ ~Gone(v)'
                      \/ mpc # "gone" /\ \E j \in Filled : ring.clifd[j] = k
    BY <1>3 DEF Held
  <2>1. Active(k) /\ k # 0
    BY <1>1 DEF Active, Conns
  <2>2. CASE \E x \in 1..Len(backlog) : backlog[x] = k
    BY <1>4, <1>h, <2>2
  <2>3. CASE \E v \in Workers : wfd[v] = k
    BY <1>2, <1>4, <2>1, <2>3
  <2>4. QED BY <1>0, <1>5, <2>1, <2>2, <2>3 DEF Held
<1>11. Passing' /\ Reaped'
  BY <1>0 DEF Passing, Reaped
<1>12. QED BY <1>6, <1>7, <1>8, <1>9, <1>10, <1>11 DEF IInv

\* In each of the designs whose workers accept, with a lock or without, they
\* keep the invariant.
LEMMA OwnAcceptKeeps ==
  ASSUME IInv, NEW w \in Workers, OwnAccept(w)
  PROVE  IInv'
<1>0. TypeOK /\ Shape
  BY DEF IInv
<1>1. UNCHANGED <<design, mpc, pass, ring, zombies, sigchld>>
  BY DEF OwnAccept
<1>2. ASSUME NEW from \in {"top", "accept"}, NEW to \in {"serve", "release"},
             Accept(w, from, to), design \notin {"pass", "fork", "thread"}
      PROVE  IInv'
  BY <1>1, <1>2, AcceptKeeps
<1>3. ASSUME NEW from \in {"top", "release"}, NEW to \in {"accept", "serve"},
             from = "release" <=> to = "serve",
             Goto(w, from, to), UNCHANGED <<wfd, backlog, conn>>,
             lock' \in 0..MaxConn, design # "pass"
      PROVE  IInv'
  <2>1. ~Gone(w) /\ wpc' = [wpc EXCEPT ![w] = to]
    BY <1>3 DEF Goto, Gone
  <2>2. (wfd[w] # 0 <=> to \in {"release", "serve"}) /\ to \notin {"wait", "woken"}
    BY <1>0, <1>3 DEF Shape, Goto
  <2>3. QED BY <1>1, <1>3, <2>1, <2>2, MoveKeeps
<1>4. lock \in 0..MaxConn /\ w \in 0..MaxConn /\ 0 \in 0..MaxConn
  BY <1>0 DEF TypeOK, PassType, Workers
<1>5. ASSUME LockedAccept(w), design \notin {"pass", "fork", "thread"}
      PROVE  IInv'
  <2>1. CASE My_lock_wait(w)
    BY <1>3, <1>4, <1>5, <2>1 DEF My_lock_wait
  <2>2. CASE My_lock_release(w)
    BY <1>3, <1>4, <1>5, <2>2 DEF My_lock_release
  <2>3. CASE Accept(w, "accept", "release")
    BY <1>2, <1>5, <2>3
  <2>4. QED BY <1>5, <2>1, <2>2, <2>3 DEF LockedAccept
<1>6. CASE Serv00(w) \/ Child02(w) \/ Pthread09(w)
  BY <1>2, <1>6 DEF Serv00, Child02, Pthread09
<1>7. CASE Child02l(w)
  BY <1>2, <1>3, <1>4, <1>7 DEF Child02l
<1>8. CASE Child03(w) \/ Child04(w) \/ Pthread07(w)
  BY <1>5, <1>8 DEF Child03, Child04, Pthread07
<1>9. QED BY <1>6, <1>7, <1>8 DEF OwnAccept

-----------------------------------------------------------------------------
\* main accepts and makes a worker of the connection's number, which keeps the
\* invariant.
LEMMA CreatesKeeps ==
  ASSUME IInv, Creates, design \in {"fork", "thread"}, UNCHANGED <<design, pass, ring>>
  PROVE  IInv'
<1>0. TypeOK /\ Shape /\ Apart /\ Known /\ Held /\ Passing /\ Reaped
  BY DEF IInv
<1> DEFINE h == Head(backlog)
<1>1. /\ wpc' = [wpc EXCEPT ![h] = "serve"]
      /\ backlog # <<>> /\ backlog' = Tail(backlog)
      /\ wfd' = [wfd EXCEPT ![h] = h]
      /\ UNCHANGED <<mpc, lock, conn, zombies, sigchld>>
  BY DEF Creates
<1>h. /\ h \in Conns /\ conn[h] # "none" /\ h # 0
      /\ \A v \in Workers : wfd[v] # h /\ pass.chan[v] # h
      /\ \A j \in Filled : ring.clifd[j] # h
      /\ backlog' \in Seq(Conns)
      /\ \A x \in 1..Len(backlog') :
           /\ x + 1 \in 1..Len(backlog) /\ backlog'[x] = backlog[x + 1]
           /\ backlog'[x] # h
      /\ \A k \in Conns : (\E x \in 1..Len(backlog) : backlog[x] = k) =>
           k = h \/ \E x \in 1..Len(backlog') : backlog'[x] = k
  BY <1>1, HeadOfBacklog
<1> HIDE DEF h
<1>2. h \in Workers /\ h \in 0..MaxConn
  BY <1>h DEF Conns, Workers
<1>3. wfd[h] = 0
  BY <1>0, <1>h, <1>2 DEF Shape
<1>4. Filled' = Filled
  BY DEF Filled
<1>5. \A v \in Workers : wfd'[v] = IF v = h THEN h ELSE wfd[v]
  BY <1>0, <1>1 DEF TypeOK, PassType
<1>6. \A v \in Workers : pass.chan[v] = 0
  BY <1>0 DEF Shape
<1>7. TypeOK'
  <2>1. wfd' \in [Workers -> 0..MaxConn]
    BY <1>0, <1>1, <1>2 DEF TypeOK, PassType
  <2>2. QED BY <1>0, <1>1, <1>h, <2>1 DEF TypeOK, PassType
<1>8. Shape'
  BY SMTT(30), <1>0, <1>1, <1>2, <1>5, <1>h DEF Shape, TypeOK, PassType
<1>9. Apart'
  <2>1. \A x, j \in 1..Len(backlog') : x # j => backlog'[x] # backlog'[j]
    <3>1. \A x, j \in 1..Len(backlog') : x # j => x + 1 # j + 1
      OBVIOUS
    <3>2. QED BY <1>0, <1>h, <3>1 DEF Apart
  <2>2. \A u, v \in Workers : u # v => wfd'[u] = 0 \/ wfd'[u] # wfd'[v]
    BY <1>0, <1>5, <1>h DEF Apart
  <2>3. \A x \in 1..Len(backlog') :
          /\ \A v \in Workers : backlog'[x] # wfd'[v] /\ backlog'[x] # pass.chan[v]
          /\ \A j \in Filled : backlog'[x] # ring.clifd[j]
    BY <1>0, <1>5, <1>h DEF Apart
  <2>4. /\ \A u, v \in Workers : wfd'[u] # 0 => wfd'[u] # pass.chan[v]
        /\ \A v \in Workers : \A j \in Filled : wfd'[v] # ring.clifd[j]
    BY <1>0, <1>5, <1>h DEF Apart
  <2>5. QED BY <1>0, <1>4, <2>1, <2>2, <2>3, <2>4 DEF Apart
<1>10. Known'
  BY <1>0, <1>1, <1>4, <1>5, <1>h DEF Known
<1>11. Held'
  <2> SUFFICES ASSUME NEW k \in Conns, Active(k)'
               PROVE  \/ \E x \in 1..Len(backlog') : backlog'[x] = k
                      \/ \E v \in Workers : wfd'[v] = k
                      \/ mpc # "gone" /\ \E j \in Filled : ring.clifd[j] = k
    BY <1>1, <1>4 DEF Held
  <2>1. Active(k) /\ k # 0
    BY <1>1 DEF Active, Conns
  <2>2. CASE \E x \in 1..Len(backlog) : backlog[x] = k
    BY <1>2, <1>5, <1>h, <2>2
  <2>3. CASE \E v \in Workers : wfd[v] = k
    BY <1>3, <1>5, <2>1, <2>3
  <2>4. QED BY <1>0, <1>6, <2>1, <2>2, <2>3 DEF Held
<1>12. Passing' /\ Reaped'
  BY <1>0, <1>1 DEF Passing, Reaped
<1>13. QED BY <1>7, <1>8, <1>9, <1>10, <1>11, <1>12 DEF IInv

\* main puts a connection into the ring, which keeps the invariant: the slot
\* was free.
LEMMA PutKeeps ==
  ASSUME IInv, design = "ring", backlog # <<>>, mpc = "accept",
         Succ(ring.iput) # ring.iget,
         ring' = [ring EXCEPT !.clifd[ring.iput] = Head(backlog), !.iput = Succ(@)],
         backlog' = Tail(backlog),
         \/ UNCHANGED wpc
         \/ \E w \in Workers : wpc[w] = "wait" /\ wpc' = [wpc EXCEPT ![w] = "woken"],
         UNCHANGED <<design, mpc, wfd, lock, conn, pass, zombies, sigchld>>
  PROVE  IInv'
<1>0. TypeOK /\ Shape /\ Apart /\ Known /\ Held /\ Passing /\ Reaped
  BY DEF IInv
<1> DEFINE h == Head(backlog)
           p == ring.iput
<1>h. /\ h \in Conns /\ conn[h] # "none" /\ h # 0
      /\ \A v \in Workers : wfd[v] # h /\ pass.chan[v] # h
      /\ \A j \in Filled : ring.clifd[j] # h
      /\ backlog' \in Seq(Conns)
      /\ \A x \in 1..Len(backlog') :
           /\ x + 1 \in 1..Len(backlog) /\ backlog'[x] = backlog[x + 1]
           /\ backlog'[x] # h
      /\ \A k \in Conns : (\E x \in 1..Len(backlog) : backlog[x] = k) =>
           k = h \/ \E x \in 1..Len(backlog') : backlog'[x] = k
  BY HeadOfBacklog
<1>1. p \in 0..MAXNCLI-1 /\ ring.iget \in 0..MAXNCLI-1
  BY <1>0 DEF TypeOK, PassType
<1>2. h \in 0..MaxConn
  BY <1>h DEF Conns
<1>3. /\ ring'.clifd = [ring.clifd EXCEPT ![p] = h] /\ ring'.iget = ring.iget
      /\ ring'.iput = Succ(p)
  BY <1>0 DEF TypeOK, PassType
<1>4. Filled' = Filled \cup {p} /\ p \notin Filled /\ Succ(p) \in 0..MAXNCLI-1
  BY <1>1, <1>3, PutFills DEF Filled
<1>5. Filled \subseteq 0..MAXNCLI-1
  BY DEF Filled, Occupied
<1>6. ring'.clifd[p] = h /\ \A j \in Filled : ring'.clifd[j] = ring.clifd[j]
  BY <1>0, <1>1, <1>3, <1>4, <1>5 DEF TypeOK, PassType
<1>7. \A v \in Workers : /\ Gone(v)' <=> Gone(v)
                         /\ wpc'[v] = wpc[v] \/ (wpc[v] = "wait" /\ wpc'[v] = "woken")
  BY <1>0 DEF TypeOK, PassType, Gone
<1> HIDE DEF h, p
<1>8. TypeOK'
  <2>1. wpc' \in [Workers -> {"none", "top", "accept", "release", "serve", "ready",
                              "wait", "woken", "gone"}]
    BY ZenonT(40), <1>0 DEF TypeOK, PassType
  <2>2. ring' \in [clifd : [0..MAXNCLI-1 -> 0..MaxConn], iget : 0..MAXNCLI-1,
                   iput : 0..MAXNCLI-1]
    BY <1>0, <1>2, <1>4 DEF TypeOK, PassType, h, p
  <2>3. QED BY <1>0, <1>h, <2>1, <2>2 DEF TypeOK, PassType
<1>9. Shape'
  BY <1>0, <1>7 DEF Shape
<1>10. Apart'
  <2>1. \A x, j \in 1..Len(backlog') : x # j => backlog'[x] # backlog'[j]
    <3>1. \A x, j \in 1..Len(backlog') : x # j => x + 1 # j + 1
      OBVIOUS
    <3>2. QED BY <1>0, <1>h, <3>1 DEF Apart
  <2>2. \A x \in 1..Len(backlog') :
          /\ \A v \in Workers : backlog'[x] # wfd[v] /\ backlog'[x] # pass.chan[v]
          /\ \A j \in Filled' : backlog'[x] # ring'.clifd[j]
    BY <1>0, <1>4, <1>6, <1>h DEF Apart
  <2>3. \A x, j \in Filled' : x # j => ring'.clifd[x] # ring'.clifd[j]
    BY <1>0, <1>4, <1>6, <1>h DEF Apart
  <2>4. \A v \in Workers : \A j \in Filled' : wfd[v] # ring'.clifd[j]
    BY <1>0, <1>4, <1>6, <1>h DEF Apart
  <2>5. QED BY <1>0, <2>1, <2>2, <2>3, <2>4 DEF Apart
<1>11. Known'
  BY <1>0, <1>4, <1>6, <1>h DEF Known
<1>12. Held'
  <2> SUFFICES ASSUME NEW k \in Conns, Active(k)'
               PROVE  \/ \E x \in 1..Len(backlog') : backlog'[x] = k
                      \/ \E v \in Workers : wfd[v] = k
                      \/ \E v \in Workers : pass.chan[v] = k /\ ~Gone(v)'
                      \/ mpc # "gone" /\ \E j \in Filled' : ring'.clifd[j] = k
    BY DEF Held
  <2>1. Active(k)
    BY DEF Active
  <2>2. CASE \E x \in 1..Len(backlog) : backlog[x] = k
    BY <1>4, <1>6, <1>h, <2>2
  <2>3. QED BY ZenonT(40), <1>0, <1>4, <1>6, <1>7, <2>1, <2>2 DEF Held
<1>13. Passing' /\ Reaped'
  BY <1>0 DEF Passing, Reaped
<1>14. QED BY <1>8, <1>9, <1>10, <1>11, <1>12, <1>13 DEF IInv

\* A thread that takes a connection out of the ring keeps the invariant.
LEMMA GetKeeps ==
  ASSUME IInv, NEW w \in Workers, design = "ring", wpc[w] \in {"top", "woken"},
         ring.iget # ring.iput, TakeFromRing(w),
         UNCHANGED <<design, mpc, lock, backlog, conn, pass, zombies, sigchld>>
  PROVE  IInv'
<1>0. TypeOK /\ Shape /\ Apart /\ Known /\ Held /\ Passing /\ Reaped
  BY DEF IInv
<1> DEFINE g == ring.iget
           k0 == ring.clifd[g]
<1>1. /\ wfd' = [wfd EXCEPT ![w] = k0] /\ wpc' = [wpc EXCEPT ![w] = "serve"]
      /\ ring' = [ring EXCEPT !.iget = Succ(@)]
  BY DEF TakeFromRing
<1>2. g \in 0..MAXNCLI-1 /\ ring.iput \in 0..MAXNCLI-1 /\ k0 \in 0..MaxConn
  BY <1>0 DEF TypeOK, PassType
<1>3. /\ ring'.clifd = ring.clifd /\ ring'.iget = Succ(g) /\ ring'.iput = ring.iput
  BY <1>0, <1>1 DEF TypeOK, PassType
<1>4. Filled' = Filled \ {g} /\ g \in Filled /\ Succ(g) \in 0..MAXNCLI-1
  BY <1>2, <1>3, GetEmpties DEF Filled
<1>5. wfd[w] = 0
  BY <1>0 DEF Shape
<1>6. \A v \in Workers : wfd'[v] = IF v = w THEN k0 ELSE wfd[v]
  BY <1>0, <1>1 DEF TypeOK, PassType
<1>7. \A v \in Workers : Gone(v)' <=> Gone(v)
  BY <1>0, <1>1 DEF TypeOK, PassType, Gone
<1>8. k0 # 0 /\ conn[k0] # "none"
  BY <1>0, <1>4 DEF Known
<1> HIDE DEF g, k0
<1>9. TypeOK'
  <2>1. ring' \in [clifd : [0..MAXNCLI-1 -> 0..MaxConn], iget : 0..MAXNCLI-1,
                   iput : 0..MAXNCLI-1]
    BY <1>0, <1>1, <1>4 DEF TypeOK, PassType, g
  <2>2. wfd' \in [Workers -> 0..MaxConn]
    BY <1>0, <1>1, <1>2 DEF TypeOK, PassType
  <2>3. QED BY <1>0, <1>1, <2>1, <2>2 DEF TypeOK, PassType
<1>10. Shape'
  BY <1>0, <1>1, <1>6, <1>8 DEF Shape, TypeOK, PassType
<1>11. Apart'
  <2>1. \A x \in 1..Len(backlog) : \A v \in Workers : backlog[x] # wfd'[v]
    BY <1>0, <1>4, <1>6 DEF Apart, k0
  <2>2. \A u, v \in Workers : u # v => wfd'[u] = 0 \/ wfd'[u] # wfd'[v]
    BY <1>0, <1>4, <1>6, <1>8 DEF Apart, k0
  <2>3. \A u, v \in Workers : wfd'[u] # 0 => wfd'[u] # pass.chan[v]
    BY <1>0, <1>8 DEF Shape
  <2>4. \A v \in Workers : \A j \in Filled' : wfd'[v] # ring.clifd[j]
    BY <1>0, <1>4, <1>6 DEF Apart, k0
  <2>5. QED BY <1>0, <1>3, <1>4, <2>1, <2>2, <2>3, <2>4 DEF Apart
<1>12. Known'
  BY <1>0, <1>3, <1>4, <1>6, <1>8 DEF Known
<1>13. Held'
  <2> SUFFICES ASSUME NEW k \in Conns, Active(k)'
               PROVE  \/ \E x \in 1..Len(backlog) : backlog[x] = k
                      \/ \E v \in Workers : wfd'[v] = k
                      \/ \E v \in Workers : pass.chan[v] = k /\ ~Gone(v)'
                      \/ mpc # "gone" /\ \E j \in Filled' : ring.clifd[j] = k
    BY <1>3 DEF Held
  <2>1. Active(k) /\ k # 0
    BY DEF Active, Conns
  <2>2. CASE \E v \in Workers : wfd[v] = k
    BY <1>5, <1>6, <2>1, <2>2
  <2>3. CASE mpc # "gone" /\ \E j \in Filled : ring.clifd[j] = k
    BY <1>4, <1>6, <2>3 DEF k0
  <2>4. QED BY <1>0, <1>7, <2>1, <2>2, <2>3 DEF Held
<1>14. Passing' /\ Reaped'
  BY <1>0 DEF Passing, Reaped
<1>15. QED BY <1>9, <1>10, <1>11, <1>12, <1>13, <1>14 DEF IInv

-----------------------------------------------------------------------------
(* serv05: the parent's counter and its children's pipes. *)

\* The idle children can be counted.
LEMMA IdleIsFinite ==
  ASSUME TypeOK
  PROVE  IsFiniteSet(Idle) /\ Cardinality(Idle) \in Nat
<1>1. IsFiniteSet(1..NChildren) /\ Idle \in SUBSET (1..NChildren)
  BY FS_Interval DEF Idle
<1>2. QED BY <1>1, FS_Subset, FS_CardinalityType

\* A set of numbers has a least one: well-founded induction on the numbers.
LEMMA LeastExists ==
  ASSUME NEW S \in SUBSET Nat, S # {}
  PROVE  \E w \in S : \A v \in S : w <= v
<1>1. PICK w \in S : \A v \in S : <<v, w>> \notin OpToRel(<, Nat)
  BY NatLessThanWellFounded, WFMin
<1>2. \A v \in S : ~(v < w)
  BY <1>1 DEF OpToRel
<1>3. QED BY <1>2

\* The child chosen is one of those that are idle.
LEMMA LeastIdle ==
  ASSUME NEW S \in SUBSET Nat, S # {}
  PROVE  (CHOOSE w \in S : \A v \in S : w <= v) \in S
  BY LeastExists

\* select() of serv05 keeps the invariant.
LEMMA Serv05SelectKeeps ==
  ASSUME IInv, Serv05Select, UNCHANGED <<design, ring>>
  PROVE  IInv'
<1>0. TypeOK /\ Shape /\ Apart /\ Known /\ Held /\ Passing /\ Reaped
  BY DEF IInv
<1>1. /\ design = "pass" /\ mpc = "select"
      /\ pass' = [pass EXCEPT !.rset = {w \in 1..NChildren : w \in pass.byte \/ wpc[w] = "gone"}]
      /\ mpc' \in {"accept", "scan"} /\ (mpc' = "accept" => pass.navail > 0)
      /\ UNCHANGED <<wpc, wfd, lock, backlog, conn, zombies, sigchld>>
  BY DEF Serv05Select
<1>2. /\ pass'.status = pass.status /\ pass'.navail = pass.navail /\ pass'.chan = pass.chan
      /\ pass'.byte = pass.byte
      /\ pass'.rset \subseteq 1..NChildren
  BY <1>0, <1>1 DEF TypeOK, PassType
<1>3. TypeOK'
  BY <1>0, <1>1 DEF TypeOK, PassType
<1>4. Filled' = Filled /\ Idle' = Idle
  BY <1>2 DEF Filled, Idle
<1>5. \A v \in Workers : Gone(v)' <=> Gone(v)
  BY <1>1 DEF Gone
<1>6. Shape' /\ Apart' /\ Known'
  BY <1>0, <1>1, <1>2, <1>4 DEF Shape, Apart, Known
<1>7. Held' /\ Reaped'
  BY <1>0, <1>1, <1>2, <1>4, <1>5 DEF Held, Active, Reaped
<1>8. Passing'
  BY <1>0, <1>1, <1>2, <1>4 DEF Passing
<1>9. QED BY <1>3, <1>6, <1>7, <1>8 DEF IInv

\* serv05 accepts and passes the connection to an idle child, which keeps the
\* invariant: the child had none.
LEMMA Serv05AcceptKeeps ==
  ASSUME IInv, Serv05Accept, UNCHANGED <<design, ring>>
  PROVE  IInv'
<1>0. TypeOK /\ Shape /\ Apart /\ Known /\ Held /\ Passing /\ Reaped
  BY DEF IInv
<1> DEFINE x == CHOOSE w \in Idle : \A v \in Idle : w <= v
           h == Head(backlog)
<1>1. /\ design = "pass" /\ mpc = "accept" /\ backlog # <<>>
      /\ IF Idle = {} \/ wpc[x] = "gone" THEN MainQuits /\ UNCHANGED pass
         ELSE /\ pass' = [pass EXCEPT !.status[x] = 1, !.navail = @ - 1, !.chan[x] = h]
              /\ backlog' = Tail(backlog)
              /\ mpc' = IF pass.rset = {} THEN "select" ELSE "scan"
              /\ UNCHANGED <<wpc, wfd, lock, conn, zombies, sigchld>>
  BY DEF Serv05Accept, Idle
<1>2. CASE MainQuits /\ UNCHANGED pass
  <2>1. End(IF Threaded THEN Workers ELSE {}, "gone")
    BY <1>2 DEF MainQuits
  <2>2. QED BY <2>1, EndKeeps, <1>2
<1>3. CASE /\ Idle # {} /\ wpc[x] # "gone"
           /\ pass' = [pass EXCEPT !.status[x] = 1, !.navail = @ - 1, !.chan[x] = h]
           /\ backlog' = Tail(backlog)
           /\ mpc' = IF pass.rset = {} THEN "select" ELSE "scan"
           /\ UNCHANGED <<wpc, wfd, lock, conn, zombies, sigchld>>
  <2>1. x \in Idle /\ x \in 1..NChildren /\ pass.status[x] = 0 /\ x \in Workers
    <3>1. Idle \in SUBSET Nat
      BY DEF Idle
    <3>2. x \in Idle
      BY <1>3, <3>1, LeastIdle
    <3>3. QED BY <3>2 DEF Idle, Workers
  <2>h. /\ h \in Conns /\ conn[h] # "none" /\ h # 0
        /\ \A v \in Workers : wfd[v] # h /\ pass.chan[v] # h
        /\ \A j \in Filled : ring.clifd[j] # h
        /\ backlog' \in Seq(Conns)
        /\ \A j \in 1..Len(backlog') :
             /\ j + 1 \in 1..Len(backlog) /\ backlog'[j] = backlog[j + 1]
             /\ backlog'[j] # h
        /\ \A k \in Conns : (\E j \in 1..Len(backlog) : backlog[j] = k) =>
             k = h \/ \E j \in 1..Len(backlog') : backlog'[j] = k
    BY <1>1, <1>3, HeadOfBacklog
  <2> HIDE DEF x, h
  <2>2. wpc[x] = "top" /\ pass.chan[x] = 0 /\ x \notin pass.byte
    BY <1>0, <1>1, <1>3, <2>1 DEF Passing
  <2>3. h \in 0..MaxConn
    BY <2>h DEF Conns
  <2>4. /\ pass'.status = [pass.status EXCEPT ![x] = 1] /\ pass'.navail = pass.navail - 1
        /\ pass'.chan = [pass.chan EXCEPT ![x] = h] /\ pass'.byte = pass.byte
        /\ pass'.rset = pass.rset
    BY <1>0, <1>3 DEF TypeOK, PassType
  <2>5. \A v \in Workers : /\ pass'.chan[v] = IF v = x THEN h ELSE pass.chan[v]
                           /\ pass'.status[v] = IF v = x THEN 1 ELSE pass.status[v]
    BY <1>0, <2>1, <2>4 DEF TypeOK, PassType
  <2>6. Filled' = Filled /\ \A v \in Workers : Gone(v)' <=> Gone(v)
    BY <1>3 DEF Filled, Gone
  <2>7. Idle' = Idle \ {x}
    BY <2>1, <2>5 DEF Idle, Workers
  <2>8. TypeOK'
    <3>1. /\ [pass.status EXCEPT ![x] = 1] \in [Workers -> {0, 1}]
          /\ [pass.chan EXCEPT ![x] = h] \in [Workers -> 0..MaxConn]
      BY <1>0, <2>3 DEF TypeOK, PassType
    <3>2. pass' = [pass EXCEPT !.status = [pass.status EXCEPT ![x] = 1], !.navail = @ - 1,
                               !.chan = [pass.chan EXCEPT ![x] = h]]
      BY <1>0, <1>3 DEF TypeOK, PassType
    <3>3. PassType'
      <4> DEFINE st == [pass.status EXCEPT ![x] = 1]
                 ch == [pass.chan EXCEPT ![x] = h]
      <4>1. pass.navail - 1 \in Int
        BY <1>0 DEF TypeOK, PassType
      <4>2. pass' = [pass EXCEPT !.status = st, !.navail = pass.navail - 1, !.chan = ch]
        BY <3>2
      <4> HIDE DEF st, ch
      <4>3. st \in [Workers -> {0, 1}] /\ ch \in [Workers -> 0..MaxConn]
        BY <3>1 DEF st, ch
      <4>4. QED BY <1>0, <4>1, <4>2, <4>3 DEF TypeOK, PassType
    <3>4. QED BY <1>0, <1>3, <2>h, <3>3 DEF TypeOK, PassType
  <2>9. Shape'
    BY <1>0, <1>1, <1>3, <2>1, <2>2, <2>5 DEF Shape
  <2>10. Apart'
    <3>1. \A a, b \in 1..Len(backlog') : a # b => backlog'[a] # backlog'[b]
      <4>1. \A a, b \in 1..Len(backlog') : a # b => a + 1 # b + 1
        OBVIOUS
      <4>2. QED BY <1>0, <2>h, <4>1 DEF Apart
    <3>2. \A u, v \in Workers : u # v => pass'.chan[u] = 0 \/ pass'.chan[u] # pass'.chan[v]
      BY <1>0, <2>5, <2>h DEF Apart
    <3>3. \A j \in 1..Len(backlog') :
            /\ \A v \in Workers : backlog'[j] # wfd[v] /\ backlog'[j] # pass'.chan[v]
            /\ \A e \in Filled : backlog'[j] # ring.clifd[e]
      BY <1>0, <2>5, <2>h DEF Apart
    <3>4. \A u, v \in Workers : wfd[u] # 0 => wfd[u] # pass'.chan[v]
      BY <1>0, <2>5, <2>h DEF Apart
    <3>5. QED BY <1>0, <1>3, <2>6, <3>1, <3>2, <3>3, <3>4 DEF Apart
  <2>11. Known'
    BY <1>0, <1>3, <2>5, <2>6, <2>h DEF Known
  <2>12. Held'
    <3> SUFFICES ASSUME NEW k \in Conns, Active(k)'
                 PROVE  \/ \E j \in 1..Len(backlog') : backlog'[j] = k
                        \/ \E v \in Workers : wfd[v] = k
                        \/ \E v \in Workers : pass'.chan[v] = k /\ ~Gone(v)'
      BY <1>3 DEF Held
    <3>1. Active(k) /\ k # 0
      BY <1>3 DEF Active, Conns
    <3>2. CASE \E j \in 1..Len(backlog) : backlog[j] = k
      BY <2>1, <2>2, <2>5, <2>6, <2>h, <3>2 DEF Gone
    <3>3. CASE \E v \in Workers : pass.chan[v] = k /\ ~Gone(v)
      BY <2>2, <2>5, <2>6, <3>1, <3>3
    <3>4. Filled = {}
      BY <1>0, <1>1, NothingFilled DEF Shape, Filled, TypeOK, PassType
    <3>5. QED BY <1>0, <3>1, <3>2, <3>3, <3>4 DEF Held
  <2>13. Passing'
    <3>1. Cardinality(Idle') = Cardinality(Idle) - 1
      BY <1>0, <2>1, <2>7, IdleIsFinite, FS_RemoveElement
    <3>2. \A w \in 1..NChildren : w \in Workers
      BY DEF Workers
    <3>3. mpc' # "accept"
      BY <1>3
    <3>4. QED BY <1>0, <1>1, <1>3, <2>1, <2>2, <2>4, <2>5, <3>1, <3>2, <3>3 DEF Passing
  <2>14. Reaped'
    BY <1>0, <1>3 DEF Reaped
  <2>15. QED BY <2>8, <2>9, <2>10, <2>11, <2>12, <2>13, <2>14 DEF IInv
<1>4. QED BY <1>1, <1>2, <1>3

\* serv05 reads the bytes of the children that have finished, which keeps the
\* invariant; or it finds that one has ended, and ends.
LEMMA Serv05ScanKeeps ==
  ASSUME IInv, Serv05Scan, UNCHANGED <<design, ring>>
  PROVE  IInv'
<1>0. TypeOK /\ Shape /\ Apart /\ Known /\ Held /\ Passing /\ Reaped
  BY DEF IInv
<1>1. CASE MainQuits /\ UNCHANGED pass
  <2>1. End(IF Threaded THEN Workers ELSE {}, "gone")
    BY <1>1 DEF MainQuits
  <2>2. QED BY <2>1, EndKeeps, <1>1
<1>2. CASE ~(\E w \in pass.rset : w \notin pass.byte)
  <2> DEFINE r == pass.rset
  <2>1. /\ design = "pass" /\ mpc' = "select"
        /\ pass' = [pass EXCEPT !.status = [w \in Workers |-> IF w \in r THEN 0 ELSE @[w]],
                                !.navail = @ + Cardinality(r),
                                !.byte = @ \ r]
        /\ UNCHANGED <<wpc, wfd, lock, backlog, conn, zombies, sigchld>>
    BY <1>2 DEF Serv05Scan
  <2>2. r \subseteq pass.byte /\ r \subseteq 1..NChildren
    BY <1>0, <1>2 DEF TypeOK, PassType
  <2>3. /\ pass'.status = [w \in Workers |-> IF w \in r THEN 0 ELSE pass.status[w]]
        /\ pass'.navail = pass.navail + Cardinality(r) /\ pass'.byte = pass.byte \ r
        /\ pass'.chan = pass.chan /\ pass'.rset = pass.rset
    BY <1>0, <2>1 DEF TypeOK, PassType
  <2>4. IsFiniteSet(r) /\ Cardinality(r) \in Nat
    <3>1. IsFiniteSet(1..NChildren)
      BY FS_Interval
    <3>2. QED BY <2>2, <3>1, FS_Subset, FS_CardinalityType
  <2> HIDE DEF r
  <2>5. \A w \in r : /\ w \in Workers /\ pass.status[w] # 0
                     /\ wpc[w] \in {"top", "gone"} /\ pass.chan[w] = 0
    BY <1>0, <2>1, <2>2 DEF Passing, Workers
  <2>6. Idle' = Idle \cup r /\ Idle \cap r = {}
    <3>1. \A w \in 1..NChildren : w \in Workers
      BY DEF Workers
    <3>2. \A w \in 1..NChildren : pass'.status[w] = IF w \in r THEN 0 ELSE pass.status[w]
      BY <2>3, <3>1
    <3>3. QED BY <2>2, <2>5, <3>2 DEF Idle
  <2>7. Filled' = Filled
    BY DEF Filled
  <2>8. TypeOK'
    <3>1. [w \in Workers |-> IF w \in r THEN 0 ELSE pass.status[w]] \in [Workers -> {0, 1}]
      BY <1>0 DEF TypeOK, PassType
    <3>2. pass.navail + Cardinality(r) \in Int /\ pass.byte \ r \subseteq 1..NChildren
      BY <1>0, <2>4 DEF TypeOK, PassType
    <3>3. pass' = [pass EXCEPT !.status = [w \in Workers |-> IF w \in r THEN 0 ELSE pass.status[w]],
                               !.navail = pass.navail + Cardinality(r),
                               !.byte = pass.byte \ r]
      BY <1>0, <2>1 DEF TypeOK, PassType
    <3>4. PassType'
      BY <1>0, <3>1, <3>2, <3>3 DEF TypeOK, PassType
    <3>5. QED BY <1>0, <2>1, <3>4 DEF TypeOK, PassType
  <2>9. Shape' /\ Apart' /\ Known' /\ Reaped'
    BY <1>0, <2>1, <2>3, <2>7 DEF Shape, Apart, Known, Reaped
  <2>10. Held'
    <3>1. Filled = {}
      BY <1>0, <2>1, NothingFilled DEF Shape, Filled, TypeOK, PassType
    <3>2. \A v \in Workers : Gone(v)' <=> Gone(v)
      BY <2>1 DEF Gone
    <3>3. QED BY <1>0, <2>1, <2>3, <2>7, <3>1, <3>2 DEF Held, Active
  <2>11. Passing'
    <3>1. Cardinality(Idle \cup r) = Cardinality(Idle) + Cardinality(r)
      <4>1. Cardinality(Idle \cap r) = 0
        BY <2>6, FS_EmptySet
      <4>2. IsFiniteSet(Idle) /\ Cardinality(Idle) \in Nat
        BY <1>0, IdleIsFinite
      <4>3. Cardinality(Idle \cup r) = Cardinality(Idle) + Cardinality(r) - Cardinality(Idle \cap r)
        BY <2>4, <4>2, FS_Union
      <4>4. QED BY <2>4, <4>1, <4>2, <4>3
    <3>2. \A w \in 1..NChildren : w \in Workers
      BY DEF Workers
    <3>3. QED BY <1>0, <2>1, <2>3, <2>5, <2>6, <3>1, <3>2 DEF Passing
  <2>12. QED BY <2>8, <2>9, <2>10, <2>11 DEF IInv
<1>3. QED BY <1>1, <1>2 DEF Serv05Scan

\* A child of serv05 that takes a descriptor from its pipe, or says that it
\* has finished, keeps the invariant.
LEMMA Child05Keeps ==
  ASSUME IInv, NEW w \in Workers, Child05(w),
         UNCHANGED <<design, mpc, lock, backlog, conn, ring, zombies, sigchld>>
  PROVE  IInv'
<1>0. TypeOK /\ Shape /\ Apart /\ Known /\ Held /\ Passing /\ Reaped
  BY DEF IInv
<1>1. design = "pass"
  BY DEF Child05
<1>2. Filled' = Filled /\ Filled = {}
  BY <1>0, <1>1, NothingFilled DEF Shape, Filled, TypeOK, PassType
<1>3. \A v \in 1..NChildren : v \in Workers
  BY DEF Workers
<1>4. CASE /\ Goto(w, "top", "serve") /\ pass.chan[w] # 0
           /\ wfd' = [wfd EXCEPT ![w] = pass.chan[w]]
           /\ pass' = [pass EXCEPT !.chan[w] = 0]
  <2> DEFINE k0 == pass.chan[w]
  <2>1. wfd[w] = 0 /\ k0 # 0 /\ k0 \in 0..MaxConn /\ wpc[w] = "top"
    BY <1>0, <1>4 DEF Shape, Goto, TypeOK, PassType
  <2>2. /\ pass'.status = pass.status /\ pass'.navail = pass.navail
        /\ pass'.chan = [pass.chan EXCEPT ![w] = 0] /\ pass'.byte = pass.byte
        /\ pass'.rset = pass.rset /\ wpc' = [wpc EXCEPT ![w] = "serve"]
    BY <1>0, <1>4 DEF TypeOK, PassType, Goto
  <2>3. \A v \in Workers : /\ wfd'[v] = IF v = w THEN k0 ELSE wfd[v]
                           /\ pass'.chan[v] = IF v = w THEN 0 ELSE pass.chan[v]
                           /\ wpc'[v] = IF v = w THEN "serve" ELSE wpc[v]
                           /\ Gone(v)' <=> Gone(v)
    BY <1>0, <1>4, <2>1, <2>2 DEF TypeOK, PassType, Gone
  <2> HIDE DEF k0
  <2>4. TypeOK'
    <3>1. [pass.chan EXCEPT ![w] = 0] \in [Workers -> 0..MaxConn]
      BY <1>0 DEF TypeOK, PassType
    <3>2. pass' = [pass EXCEPT !.chan = [pass.chan EXCEPT ![w] = 0]]
      BY <1>0, <1>4 DEF TypeOK, PassType
    <3>3. PassType'
      BY <1>0, <3>1, <3>2 DEF TypeOK, PassType
    <3>4. wfd' \in [Workers -> 0..MaxConn]
      BY <1>0, <1>4 DEF TypeOK, PassType
    <3>5. QED BY <1>0, <2>2, <3>3, <3>4 DEF TypeOK, PassType
  <2>5. Shape'
    BY <1>0, <1>1, <2>1, <2>3 DEF Shape
  <2>6. Apart'
    <3>1. /\ \A x \in 1..Len(backlog) : \A v \in Workers :
               backlog[x] # wfd'[v] /\ backlog[x] # pass'.chan[v]
      <4>1. \A x \in 1..Len(backlog) : backlog[x] # 0
        BY SMTT(30), <1>0 DEF TypeOK, PassType, Conns
      <4>2. QED BY <1>0, <2>3, <4>1 DEF Apart, k0
    <3>2. \A u, v \in Workers : u # v => wfd'[u] = 0 \/ wfd'[u] # wfd'[v]
      BY <1>0, <2>1, <2>3 DEF Apart, k0
    <3>3. \A u, v \in Workers : u # v => pass'.chan[u] = 0 \/ pass'.chan[u] # pass'.chan[v]
      BY <1>0, <2>3 DEF Apart
    <3>4. \A u, v \in Workers : wfd'[u] # 0 => wfd'[u] # pass'.chan[v]
      BY <1>0, <2>1, <2>3 DEF Apart, k0
    <3>5. QED BY <1>0, <1>2, <3>1, <3>2, <3>3, <3>4 DEF Apart
  <2>7. Known'
    BY <1>0, <1>2, <2>3 DEF Known, k0
  <2>8. Held'
    <3> SUFFICES ASSUME NEW k \in Conns, Active(k)'
                 PROVE  \/ \E x \in 1..Len(backlog) : backlog[x] = k
                        \/ \E v \in Workers : wfd'[v] = k
                        \/ \E v \in Workers : pass'.chan[v] = k /\ ~Gone(v)'
      BY DEF Held
    <3>1. Active(k) /\ k # 0
      BY DEF Active, Conns
    <3>2. QED BY <1>0, <1>2, <2>1, <2>3, <3>1 DEF Held, k0
  <2>9. Passing'
    <3>1. Idle' = Idle
      BY <2>2 DEF Idle
    <3>2. w \in 1..NChildren
      BY <1>0, <2>1 DEF Shape, Workers, k0
    <3>3. QED
      BY <1>0, <1>1, <1>3, <2>1, <2>2, <2>3, <3>1, <3>2 DEF Passing, k0
  <2>10. QED BY <1>0, <2>4, <2>5, <2>6, <2>7, <2>8, <2>9 DEF IInv, Reaped
<1>5. CASE \/ /\ Goto(w, "top", "gone") /\ pass.chan[w] = 0
              /\ UNCHANGED <<wfd, pass>>
           \/ /\ Goto(w, "ready", "top") \/ Goto(w, "ready", "gone")
              /\ pass' = [pass EXCEPT !.byte = @ \cup {w}]
              /\ UNCHANGED wfd
  <2>1. wfd' = wfd /\ wfd[w] = 0 /\ pass.chan[w] = 0 /\ w \in 1..NChildren /\ wpc[w] \in {"top", "ready"}
    BY <1>0, <1>1, <1>5 DEF Shape, Goto, Workers
  <2>2. /\ pass'.status = pass.status /\ pass'.navail = pass.navail
        /\ pass'.chan = pass.chan /\ pass'.rset = pass.rset
        /\ pass'.byte = pass.byte \/ (pass'.byte = pass.byte \cup {w} /\ wpc[w] = "ready")
    BY <1>0, <1>5 DEF TypeOK, PassType, Goto
  <2>3. PICK b \in {"top", "gone"} : wpc' = [wpc EXCEPT ![w] = b]
    BY <1>5 DEF Goto
  <2>4. \A v \in Workers : /\ wpc'[v] = IF v = w THEN b ELSE wpc[v]
                           /\ v # w => (Gone(v)' <=> Gone(v))
    BY <1>0, <2>3 DEF TypeOK, PassType, Gone
  <2>5. TypeOK'
    <3>1. pass.byte \cup {w} \subseteq 1..NChildren
      BY <1>0, <2>1 DEF TypeOK, PassType
    <3>2. PassType'
      <4>1. CASE UNCHANGED pass
        BY <1>0, <4>1 DEF TypeOK, PassType
      <4>2. CASE pass' = [pass EXCEPT !.byte = pass.byte \cup {w}]
        BY <1>0, <3>1, <4>2 DEF TypeOK, PassType
      <4>3. QED BY <1>5, <4>1, <4>2
    <3>3. QED BY <1>0, <2>1, <2>3, <3>2 DEF TypeOK, PassType
  <2>6. Shape'
    BY <1>0, <1>1, <2>1, <2>2, <2>4 DEF Shape
  <2>7. Apart' /\ Known' /\ Reaped'
    BY <1>0, <1>2, <2>1, <2>2 DEF Apart, Known, Reaped
  <2>8. Held'
    <3> SUFFICES ASSUME NEW k \in Conns, Active(k)'
                 PROVE  \/ \E x \in 1..Len(backlog) : backlog[x] = k
                        \/ \E v \in Workers : wfd[v] = k
                        \/ \E v \in Workers : pass.chan[v] = k /\ ~Gone(v)'
      BY <2>1, <2>2 DEF Held
    <3>1. Active(k) /\ k # 0
      BY DEF Active, Conns
    <3>2. QED BY <1>0, <1>2, <2>1, <2>4, <3>1 DEF Held
  <2>9. Passing'
    <3>1. Idle' = Idle
      BY <2>2 DEF Idle
    <3>2. wpc[w] = "ready" => pass.status[w] # 0
      BY <1>0, <1>1, <2>1 DEF Passing
    <3>3. QED BY <1>0, <1>3, <2>1, <2>2, <2>4, <3>1, <3>2 DEF Passing
  <2>10. QED BY <2>5, <2>6, <2>7, <2>8, <2>9 DEF IInv
<1>6. QED BY <1>4, <1>5 DEF Child05

-----------------------------------------------------------------------------
\* A change of conn alone, that does not forget a connection or wake one,
\* keeps the invariant.
LEMMA ConnKeeps ==
  ASSUME IInv, NEW k \in Conns, NEW c \in {"answered", "closed", "reset"},
         conn[k] # "none", conn' = [conn EXCEPT ![k] = c],
         UNCHANGED <<design, mpc, wpc, wfd, lock, backlog, pass, ring, zombies, sigchld>>
  PROVE  IInv'
<1>0. TypeOK /\ Shape /\ Apart /\ Known /\ Held /\ Passing /\ Reaped
  BY DEF IInv
<1>1. TypeOK'
  BY <1>0 DEF TypeOK, PassType
<1>2. \A j \in Conns : conn'[j] = IF j = k THEN c ELSE conn[j]
  BY <1>0 DEF TypeOK, PassType
<1>3. Filled' = Filled /\ Idle' = Idle
  BY DEF Filled, Idle
<1>4. Shape' /\ Apart' /\ Passing' /\ Reaped'
  BY <1>0, <1>3 DEF Shape, Apart, Passing, Reaped
<1>5. Known'
  <2>1. \A j \in 0..MaxConn : j # 0 /\ conn[j] # "none" => conn'[j] # "none"
    BY <1>2 DEF Conns
  <2>2. /\ \A x \in 1..Len(backlog) : backlog[x] \in 0..MaxConn /\ backlog[x] # 0
        /\ \A w \in Workers : wfd[w] \in 0..MaxConn /\ pass.chan[w] \in 0..MaxConn
        /\ \A j \in Filled : ring.clifd[j] \in 0..MaxConn
    <3>1. \A x \in 1..Len(backlog) : backlog[x] \in 0..MaxConn /\ backlog[x] # 0
      BY SMTT(30), <1>0 DEF TypeOK, Conns
    <3>2. \A w \in Workers : wfd[w] \in 0..MaxConn /\ pass.chan[w] \in 0..MaxConn
      BY <1>0 DEF TypeOK, PassType
    <3>3. \A j \in Filled : ring.clifd[j] \in 0..MaxConn
      BY <1>0 DEF TypeOK, Filled, Occupied
    <3>4. QED BY <3>1, <3>2, <3>3
  <2>3. QED BY <1>0, <1>3, <2>1, <2>2 DEF Known
<1>6. Held'
  <2>1. \A j \in Conns : Active(j)' => Active(j)
    BY <1>2 DEF Active
  <2>2. QED BY <1>0, <1>3, <2>1 DEF Held, Gone
<1>7. QED BY <1>1, <1>4, <1>5, <1>6 DEF IInv

\* web_child() keeps the invariant, whatever the request is and whomever a bad
\* one ends.
LEMMA WebChildKeeps ==
  ASSUME IInv, NEW w \in Workers, Web_child(w)
  PROVE  IInv'
<1>0. TypeOK /\ Shape /\ Apart /\ Known /\ Held /\ Passing /\ Reaped
  BY DEF IInv
<1>1. wpc[w] = "serve" /\ UNCHANGED <<design, pass, ring>>
  BY DEF Web_child
<1>2. wfd[w] \in Conns /\ wfd[w] # 0 /\ pass.chan[w] = 0
  <2>1. wfd[w] # 0 /\ pass.chan[w] = 0
    BY <1>0, <1>1 DEF Shape
  <2>2. wfd[w] \in 0..MaxConn
    BY <1>0 DEF TypeOK
  <2>3. QED BY <2>1, <2>2 DEF Conns
<1>3. CASE /\ conn[wfd[w]] = "good"
           /\ conn' = [conn EXCEPT ![wfd[w]] = "answered"]
           /\ UNCHANGED <<mpc, wpc, wfd, lock, backlog, zombies, sigchld>>
  BY <1>1, <1>2, <1>3, ConnKeeps
<1>4. CASE Quits(w)
  <2>1. End(Workers, "gone") \/ End({w}, mpc)
    BY <1>4 DEF Quits
  <2>2. QED BY <1>1, <2>1, EndKeeps
<1>5. CASE /\ conn[wfd[w]] = "closed"
           /\ wpc' = [wpc EXCEPT ![w] = Closed(w)]
           /\ wfd' = [wfd EXCEPT ![w] = 0]
           /\ zombies' = IF design = "fork" /\ mpc # "gone" THEN zombies \cup {w} ELSE zombies
           /\ sigchld' = (sigchld \/ zombies' # zombies)
           /\ UNCHANGED <<mpc, lock, backlog, conn>>
  <2>1. /\ Closed(w) \in {"gone", "ready", "top"}
        /\ Closed(w) = "ready" <=> design = "pass"
        /\ Closed(w) = "gone" => design # "pass"
    BY DEF Closed
  <2> DEFINE b == Closed(w)
  <2> HIDE DEF b
  <2>2. wpc' = [wpc EXCEPT ![w] = b] /\ b \in {"gone", "ready", "top"}
        /\ (b = "ready" <=> design = "pass")
    BY <1>5, <2>1 DEF b
  <2>3. \A v \in Workers : /\ wfd'[v] = IF v = w THEN 0 ELSE wfd[v]
                           /\ wpc'[v] = IF v = w THEN b ELSE wpc[v]
                           /\ v # w => (Gone(v)' <=> Gone(v))
    BY <1>0, <1>5, <2>2 DEF TypeOK, PassType, Gone
  <2>4. Filled' = Filled /\ Idle' = Idle
    BY <1>1 DEF Filled, Idle
  <2>5. TypeOK'
    <3>1. zombies' \in SUBSET Workers /\ sigchld' \in BOOLEAN
      BY <1>0, <1>5 DEF TypeOK
    <3>2. wfd' \in [Workers -> 0..MaxConn]
      BY <1>0, <1>5 DEF TypeOK
    <3>3. QED BY SMTT(30), <1>0, <1>1, <1>5, <2>2, <3>1, <3>2 DEF TypeOK, PassType
  <2>6. Shape'
    BY <1>0, <1>1, <1>2, <1>5, <2>2, <2>3 DEF Shape
  <2>7. Apart'
    <3>1. /\ \A x \in 1..Len(backlog) : backlog[x] # 0
          /\ \A j \in Filled : ring.clifd[j] # 0
      BY SMTT(30), <1>0 DEF TypeOK, PassType, Conns, Known
    <3>2. QED BY <1>0, <1>1, <1>5, <2>3, <2>4, <3>1 DEF Apart
  <2>8. Known'
    BY <1>0, <1>1, <1>5, <2>3, <2>4 DEF Known
  <2>9. Held'
    <3> SUFFICES ASSUME NEW k \in Conns, Active(k)'
                 PROVE  \/ \E x \in 1..Len(backlog) : backlog[x] = k
                        \/ \E v \in Workers : wfd'[v] = k
                        \/ \E v \in Workers : pass.chan[v] = k /\ ~Gone(v)'
                        \/ mpc # "gone" /\ \E j \in Filled : ring.clifd[j] = k
      BY <1>1, <1>5, <2>4 DEF Held
    <3>1. Active(k) /\ k # wfd[w] /\ k # 0
      BY <1>5 DEF Active, Conns
    <3>2. QED BY <1>0, <1>2, <2>3, <3>1 DEF Held
  <2>10. Passing'
    <3>1. \A v \in 1..NChildren : v \in Workers
      BY DEF Workers
    <3>2. QED BY <1>0, <1>1, <1>5, <2>2, <2>3, <2>4, <3>1 DEF Passing
  <2>11. Reaped'
    BY <1>0, <1>5 DEF Reaped
  <2>12. QED BY <2>5, <2>6, <2>7, <2>8, <2>9, <2>10, <2>11 DEF IInv
<1>6. QED BY <1>3, <1>4, <1>5 DEF Web_child

\* Every step of a worker keeps the invariant, also a thread's that wakes up
\* without a signal.
LEMMA WorkerKeeps ==
  ASSUME IInv, NEW w \in Workers, Worker(w) \/ Spurious(w)
  PROVE  IInv'
<1>0. TypeOK /\ Shape
  BY DEF IInv
<1>1. ASSUME NEW b \in {"wait", "woken"}, ~Gone(w), wfd[w] = 0, design = "ring",
             wpc' = [wpc EXCEPT ![w] = b],
             UNCHANGED <<design, mpc, wfd, lock, backlog, conn, pass, ring, zombies, sigchld>>
      PROVE  IInv'
  <2>1. lock' \in 0..MaxConn
    BY <1>0, <1>1 DEF TypeOK
  <2>2. wfd[w] # 0 <=> b \in {"release", "serve"}
    BY <1>1
  <2>3. QED BY <1>1, <2>1, <2>2, MoveKeeps
<1>2. CASE Pthread08(w) /\ UNCHANGED <<design, mpc, lock, backlog, conn, pass, zombies, sigchld>>
  <2>1. CASE wpc[w] \in {"top", "woken"} /\ ring.iget # ring.iput /\ TakeFromRing(w)
    <3>1. design = "ring" /\ UNCHANGED <<design, mpc, lock, backlog, conn, pass, zombies, sigchld>>
      BY <1>2 DEF Pthread08
    <3>2. QED BY <2>1, <3>1, GetKeeps
  <2>2. CASE /\ wpc[w] \in {"top", "woken"} /\ wpc' = [wpc EXCEPT ![w] = "wait"]
             /\ UNCHANGED <<wfd, ring>>
    <3>1. ~Gone(w) /\ wfd[w] = 0 /\ design = "ring"
      BY <1>0, <1>2, <2>2 DEF Shape, Gone, Pthread08
    <3>2. QED BY <1>1, <1>2, <2>2, <3>1
  <2>3. QED BY <1>2, <2>1, <2>2 DEF Pthread08
<1>3. CASE Spurious(w)
  <2>1. /\ ~Gone(w) /\ wfd[w] = 0 /\ design = "ring"
        /\ wpc' = [wpc EXCEPT ![w] = "woken"]
        /\ UNCHANGED <<design, mpc, wfd, lock, backlog, conn, pass, ring, zombies, sigchld>>
    BY <1>0, <1>3 DEF Shape, Gone, Spurious, Goto
  <2>2. QED BY <1>1, <2>1
<1>4. QED BY <1>2, <1>3, OwnAcceptKeeps, WebChildKeeps, Child05Keeps DEF Worker

\* What the parent or main thread does, and what ends it, keeps the invariant.
LEMMA MainKeeps ==
  ASSUME IInv, Main \/ Sig_int \/ Kill \/ Sig_chld
  PROVE  IInv'
<1>0. TypeOK /\ Shape /\ Apart /\ Known /\ Held /\ Passing /\ Reaped
  BY DEF IInv
<1>1. ASSUME MainQuits, UNCHANGED <<design, pass, ring>> PROVE IInv'
  <2>1. PICK W \in SUBSET Workers : End(W, "gone")
    BY <1>1 DEF MainQuits
  <2>2. QED BY <1>1, <2>1, EndKeeps
<1>2. CASE Exit /\ UNCHANGED <<design, pass, ring>>
  BY <1>1, <1>2 DEF Exit
<1>3. CASE (Serv01 \/ Serv06) /\ UNCHANGED <<design, pass, ring>>
  BY <1>1, <1>3, CreatesKeeps DEF Serv01, Serv06, CannotCreate
<1>4. CASE Serv08 /\ UNCHANGED <<design, pass>>
  <2>1. CASE Succ(ring.iput) = ring.iget
    BY <1>1, <1>4, <2>1 DEF Serv08
  <2>2. CASE Succ(ring.iput) # ring.iget
    <3>1. /\ design = "ring" /\ backlog # <<>> /\ mpc = "accept"
          /\ ring' = [ring EXCEPT !.clifd[ring.iput] = Head(backlog), !.iput = Succ(@)]
          /\ backlog' = Tail(backlog)
          /\ UNCHANGED <<design, mpc, wfd, lock, conn, pass, zombies, sigchld>>
      BY <1>4, <2>2 DEF Serv08
    <3>2. \/ UNCHANGED wpc
          \/ \E w \in Workers : wpc[w] = "wait" /\ wpc' = [wpc EXCEPT ![w] = "woken"]
      BY <1>4, <2>2 DEF Serv08
    <3>3. QED BY <2>2, <3>1, <3>2, PutKeeps
  <2>3. QED BY <2>1, <2>2
<1>5. CASE Serv05Select /\ UNCHANGED <<design, ring>>
  BY <1>5, Serv05SelectKeeps
<1>6. CASE Serv05Accept /\ UNCHANGED <<design, ring>>
  BY <1>6, Serv05AcceptKeeps
<1>7. CASE Serv05Scan /\ UNCHANGED <<design, ring>>
  BY <1>7, Serv05ScanKeeps
<1>8. CASE Sig_int
  <2>1. UNCHANGED <<design, pass, ring>> /\ (MainQuits \/ End(Workers, "wait"))
    BY <1>8 DEF Sig_int
  <2>2. QED BY <1>1, <2>1, EndKeeps
<1>9. CASE Kill
  <2>1. /\ UNCHANGED <<design, pass, ring>>
        /\ MainQuits \/ \E w \in Workers : End({w}, mpc)
    BY <1>9 DEF Kill, Live
  <2>2. QED BY <1>1, <2>1, EndKeeps
<1>10. CASE Sig_chld
  <2>1. /\ UNCHANGED <<design, mpc, wpc, wfd, lock, backlog, conn, pass, ring>>
        /\ zombies' = {} /\ sigchld' = FALSE
    BY <1>10 DEF Sig_chld
  <2>2. TypeOK'
    BY <1>0, <2>1 DEF TypeOK, PassType
  <2>3. Filled' = Filled /\ Idle' = Idle /\ \A w \in Workers : Gone(w)' <=> Gone(w)
    BY <2>1 DEF Filled, Idle, Gone
  <2>4. Shape' /\ Apart' /\ Known' /\ Passing' /\ Reaped'
    BY <1>0, <2>1, <2>3 DEF Shape, Apart, Known, Passing, Reaped
  <2>5. Held'
    BY <1>0, <2>1, <2>3 DEF Held, Active
  <2>6. QED BY <2>2, <2>4, <2>5 DEF IInv
<1>11. QED
  BY <1>2, <1>3, <1>4, <1>5, <1>6, <1>7, <1>8, <1>9, <1>10 DEF Main

\* What the clients do keeps the invariant.
LEMMA ClientKeeps ==
  ASSUME IInv, NEW k \in Conns, Client(k)
  PROVE  IInv'
<1>0. TypeOK /\ Shape /\ Apart /\ Known /\ Held /\ Passing /\ Reaped
  BY DEF IInv
<1>1. CASE Connect(k)
  <2>1. /\ conn[k] = "none" /\ backlog' = Append(backlog, k)
        /\ UNCHANGED <<design, mpc, wpc, wfd, lock, pass, ring, zombies, sigchld>>
    BY <1>1 DEF Connect
  <2>2. PICK c \in {"good", "bad", "mute"} : conn' = [conn EXCEPT ![k] = c]
    BY <1>1 DEF Connect
  <2>3. \A j \in Conns : conn'[j] = IF j = k THEN c ELSE conn[j]
    BY <1>0, <2>2 DEF TypeOK
  <2>4. /\ backlog' \in Seq(Conns) /\ Len(backlog') = Len(backlog) + 1
        /\ \A x \in 1..Len(backlog) : backlog'[x] = backlog[x] /\ x \in 1..Len(backlog')
        /\ backlog'[Len(backlog) + 1] = k
        /\ Len(backlog) \in Nat /\ Len(backlog) + 1 \in 1..Len(backlog')
    BY <1>0, <2>1 DEF TypeOK
  <2>5. \A x \in 1..Len(backlog') : x \in 1..Len(backlog) \/ x = Len(backlog) + 1
    BY <2>4
  <2>6. /\ \A x \in 1..Len(backlog) : backlog[x] # k
        /\ \A w \in Workers : wfd[w] # k /\ pass.chan[w] # k
        /\ \A j \in Filled : ring.clifd[j] # k
    <3>1. k # 0
      BY DEF Conns
    <3>2. QED BY <1>0, <2>1, <3>1 DEF Known
  <2>7. TypeOK'
    BY <1>0, <2>1, <2>2, <2>4 DEF TypeOK, PassType
  <2>8. Filled' = Filled /\ Idle' = Idle /\ \A w \in Workers : Gone(w)' <=> Gone(w)
    BY <2>1 DEF Filled, Idle, Gone
  <2>9. Shape' /\ Passing' /\ Reaped'
    BY <1>0, <2>1, <2>8 DEF Shape, Passing, Reaped
  <2>10. Apart'
    <3>1. \A x, j \in 1..Len(backlog') : x # j => backlog'[x] # backlog'[j]
      BY <1>0, <2>4, <2>5, <2>6 DEF Apart
    <3>2. \A x \in 1..Len(backlog') :
            /\ \A w \in Workers : backlog'[x] # wfd[w] /\ backlog'[x] # pass.chan[w]
            /\ \A j \in Filled : backlog'[x] # ring.clifd[j]
      BY <1>0, <2>4, <2>5, <2>6 DEF Apart
    <3>3. QED BY <1>0, <2>1, <2>8, <3>1, <3>2 DEF Apart
  <2>11. Known'
    <3>1. \A x \in 1..Len(backlog') : conn'[backlog'[x]] # "none"
      <4>1. \A x \in 1..Len(backlog) : backlog[x] \in Conns
        BY <1>0 DEF TypeOK
      <4>2. QED BY <1>0, <2>3, <2>4, <2>5, <4>1 DEF Known
    <3>2. \A w \in Workers : wfd[w] # 0 => conn'[wfd[w]] # "none"
      <4>1. \A w \in Workers : wfd[w] # 0 => wfd[w] \in Conns
        BY <1>0 DEF TypeOK, Conns
      <4>2. QED BY <1>0, <2>3, <4>1 DEF Known
    <3>3. \A w \in Workers : pass.chan[w] # 0 => conn'[pass.chan[w]] # "none"
      <4>1. \A w \in Workers : pass.chan[w] # 0 => pass.chan[w] \in Conns
        BY <1>0 DEF TypeOK, PassType, Conns
      <4>2. QED BY <1>0, <2>3, <4>1 DEF Known
    <3>4. \A j \in Filled : ring.clifd[j] # 0 /\ conn'[ring.clifd[j]] # "none"
      <4>1. \A j \in Filled : ring.clifd[j] # 0 => ring.clifd[j] \in Conns
        BY <1>0 DEF TypeOK, Conns, Filled, Occupied
      <4>2. QED BY <1>0, <2>3, <4>1 DEF Known
    <3>5. QED BY <2>1, <2>8, <3>1, <3>2, <3>3, <3>4 DEF Known
  <2>12. Held'
    <3> SUFFICES ASSUME NEW e \in Conns, Active(e)'
                 PROVE  \/ \E x \in 1..Len(backlog') : backlog'[x] = e
                        \/ \E w \in Workers : wfd[w] = e
                        \/ \E w \in Workers : pass.chan[w] = e /\ ~Gone(w)'
                        \/ mpc # "gone" /\ \E j \in Filled : ring.clifd[j] = e
      BY <2>1, <2>8 DEF Held
    <3>1. CASE e = k
      BY <2>4, <3>1
    <3>2. CASE e # k
      <4>1. Active(e)
        BY <2>3, <3>2 DEF Active
      <4>2. QED BY <1>0, <2>4, <2>8, <4>1 DEF Held
    <3>3. QED BY <3>1, <3>2
  <2>13. QED BY <2>7, <2>9, <2>10, <2>11, <2>12 DEF IInv
<1>2. CASE Close(k)
  <2>1. /\ conn[k] # "none" /\ conn' = [conn EXCEPT ![k] = "closed"]
        /\ UNCHANGED <<design, mpc, wpc, wfd, lock, backlog, pass, ring, zombies, sigchld>>
    BY <1>2 DEF Close
  <2>2. QED BY <2>1, ConnKeeps
<1>3. CASE Reset(k)
  <2>1. /\ conn[k] = "mute" /\ conn' = [conn EXCEPT ![k] = "reset"]
        /\ UNCHANGED <<design, mpc, wpc, wfd, lock, pass, ring, zombies, sigchld>>
    BY <1>3 DEF Reset
  <2>2. CASE UNCHANGED backlog
    BY <2>1, <2>2, ConnKeeps
  <2>3. CASE \E x \in DOMAIN backlog : backlog[x] = k /\ backlog' = RemoveAt(backlog, x)
    <3>1. PICK n \in 1..Len(backlog) : backlog[n] = k /\ backlog' = RemoveAt(backlog, n)
      BY <1>0, <2>3 DEF TypeOK
    <3>2. /\ backlog' \in Seq(Conns) /\ Len(backlog') = Len(backlog) - 1
          /\ \A x \in 1..Len(backlog) - 1 : backlog'[x] = IF x < n THEN backlog[x] ELSE backlog[x + 1]
      <4>1. backlog \in Seq(Conns)
        BY <1>0 DEF TypeOK
      <4>2. QED BY <3>1, <4>1, RemoveAtProperties
    <3>3. Len(backlog) \in Nat
      BY <1>0 DEF TypeOK
    <3> DEFINE at(x) == IF x < n THEN x ELSE x + 1
    <3>4. /\ \A x \in 1..Len(backlog') : at(x) \in 1..Len(backlog) /\ backlog'[x] = backlog[at(x)]
          /\ \A x, j \in 1..Len(backlog') : x # j => at(x) # at(j)
      BY <3>1, <3>2, <3>3
    <3>5. \A x \in 1..Len(backlog) : x = n \/ \E j \in 1..Len(backlog') : backlog'[j] = backlog[x]
      <4> TAKE x \in 1..Len(backlog)
      <4>1. CASE x < n
        <5>1. x \in 1..Len(backlog') /\ backlog'[x] = backlog[x]
          BY <3>1, <3>2, <3>3, <4>1
        <5>2. QED BY <5>1
      <4>2. CASE x > n
        <5>1. x - 1 \in 1..Len(backlog') /\ backlog'[x - 1] = backlog[x]
          BY <3>1, <3>2, <3>3, <4>2
        <5>2. QED BY <5>1
      <4>3. QED BY <3>1, <4>1, <4>2
    <3> HIDE DEF at
    <3>6. \A j \in Conns : conn'[j] = IF j = k THEN "reset" ELSE conn[j]
      BY <1>0, <2>1 DEF TypeOK
    <3>7. Filled' = Filled /\ Idle' = Idle /\ \A w \in Workers : Gone(w)' <=> Gone(w)
      BY <2>1 DEF Filled, Idle, Gone
    <3>8. TypeOK'
      BY <1>0, <2>1, <3>2 DEF TypeOK, PassType
    <3>9. Shape' /\ Passing' /\ Reaped'
      BY <1>0, <2>1, <3>7 DEF Shape, Passing, Reaped
    <3>10. Apart'
      <4>1. \A x, j \in 1..Len(backlog') : x # j => backlog'[x] # backlog'[j]
        BY SMTT(30), <1>0, <3>4 DEF Apart
      <4>2. \A x \in 1..Len(backlog') :
              /\ \A w \in Workers : backlog'[x] # wfd[w] /\ backlog'[x] # pass.chan[w]
              /\ \A j \in Filled : backlog'[x] # ring.clifd[j]
        BY <1>0, <3>4 DEF Apart
      <4>3. QED BY <1>0, <2>1, <3>7, <4>1, <4>2 DEF Apart
    <3>11. Known'
      <4>1. \A e \in 0..MaxConn : e # 0 /\ conn[e] # "none" => conn'[e] # "none"
        BY <3>6 DEF Conns
      <4>2. \A x \in 1..Len(backlog) : backlog[x] \in 0..MaxConn /\ backlog[x] # 0
        BY SMTT(30), <1>0 DEF TypeOK, Conns
      <4>3. \A w \in Workers : wfd[w] \in 0..MaxConn /\ pass.chan[w] \in 0..MaxConn
        BY <1>0 DEF TypeOK, PassType
      <4>4. \A j \in Filled : ring.clifd[j] \in 0..MaxConn
        BY <1>0 DEF TypeOK, Filled, Occupied
      <4>5. QED BY SMTT(30), <1>0, <2>1, <3>4, <3>7, <4>1, <4>2, <4>3, <4>4 DEF Known
    <3>12. Held'
      <4> SUFFICES ASSUME NEW e \in Conns, Active(e)'
                   PROVE  \/ \E x \in 1..Len(backlog') : backlog'[x] = e
                          \/ \E w \in Workers : wfd[w] = e
                          \/ \E w \in Workers : pass.chan[w] = e /\ ~Gone(w)'
                          \/ mpc # "gone" /\ \E j \in Filled : ring.clifd[j] = e
        BY <2>1, <3>7 DEF Held
      <4>1. Active(e) /\ e # k
        BY <3>6 DEF Active
      <4>2. CASE \E x \in 1..Len(backlog) : backlog[x] = e
        BY <3>1, <3>5, <4>1, <4>2
      <4>3. QED BY <1>0, <3>7, <4>1, <4>2 DEF Held
    <3>13. QED BY <3>8, <3>9, <3>10, <3>11, <3>12 DEF IInv
  <2>4. QED BY <1>3, <2>2, <2>3 DEF Reset
<1>4. QED BY <1>1, <1>2, <1>3 DEF Client

\* The invariant holds at the start of each of the designs.
LEMMA InitIInv == Init => IInv
<1> SUFFICES ASSUME Init PROVE IInv
  OBVIOUS
<1>1. TypeOK
  <2>1. PassType
    <3>1. NChildren \in Int
      OBVIOUS
    <3>2. pass = [status |-> [w \in Workers |-> 0], navail |-> NChildren, rset |-> {},
                  chan |-> [w \in Workers |-> 0], byte |-> {}]
      BY DEF Init
    <3>3. QED BY <3>1, <3>2 DEF PassType
  <2>2. ring \in [clifd : [0..MAXNCLI-1 -> 0..MaxConn], iget : 0..MAXNCLI-1, iput : 0..MAXNCLI-1]
    BY DEF Init
  <2>3. wpc \in [Workers -> {"none", "top", "accept", "release", "serve", "ready",
                             "wait", "woken", "gone"}]
    BY DEF Init
  <2>4. design \in Designs /\ mpc \in {"accept", "scan", "select", "pause", "wait", "gone"}
    BY DEF Init, Designs
  <2>5. /\ wfd \in [Workers -> 0..MaxConn] /\ lock \in 0..MaxConn /\ backlog \in Seq(Conns)
        /\ zombies \in SUBSET Workers /\ sigchld \in BOOLEAN
    <3>1. /\ wfd = [w \in Workers |-> 0] /\ lock = 0 /\ backlog = <<>> /\ zombies = {}
          /\ sigchld = FALSE
      BY DEF Init
    <3>2. 0 \in 0..MaxConn /\ <<>> \in Seq(Conns) /\ {} \in SUBSET Workers /\ FALSE \in BOOLEAN
      OBVIOUS
    <3>3. [w \in Workers |-> 0] \in [Workers -> 0..MaxConn]
      BY <3>2
    <3>4. QED BY <3>1, <3>2, <3>3
  <2>6. conn \in [Conns -> {"none", "good", "bad", "mute", "answered", "closed", "reset", "cut"}]
    <3>1. conn = [k \in Conns |-> "none"]
      BY DEF Init
    <3>2. QED BY <3>1
  <2>7. QED BY <2>1, <2>2, <2>3, <2>4, <2>5, <2>6 DEF TypeOK
<1>2. Filled = {}
  BY NothingFilled DEF Init, Filled
<1>3. Shape /\ Apart /\ Known /\ Reaped
  BY <1>2 DEF Init, Shape, Apart, Known, Reaped, AtStart, Workers
<1>4. Held
  BY DEF Init, Held, Active
<1>5. Passing
  <2>1. Idle = 1..NChildren
    BY DEF Init, Idle, Workers
  <2>2. Cardinality(Idle) = NChildren
    BY <2>1, FS_Interval
  <2>3. \A w \in 1..NChildren : w \in Workers
    BY DEF Workers
  <2>4. QED BY <2>2, <2>3 DEF Init, Passing, AtStart
<1>6. QED BY <1>1, <1>3, <1>4, <1>5 DEF IInv

\* The invariant holds in every reachable state of every design.
THEOREM Invariance == Spec => []IInv
<1>1. IInv /\ [Next]_vars => IInv'
  <2> SUFFICES ASSUME IInv, [Next]_vars PROVE IInv'
    OBVIOUS
  <2>1. CASE Main \/ Sig_chld \/ Sig_int \/ Kill
    BY <2>1, MainKeeps
  <2>2. ASSUME NEW w \in Workers, Worker(w) \/ Spurious(w) PROVE IInv'
    BY <2>2, WorkerKeeps
  <2>3. ASSUME NEW k \in Conns, Client(k) PROVE IInv'
    BY <2>3, ClientKeeps
  <2>4. CASE UNCHANGED vars
    BY SMTT(30), <2>4 DEF vars, IInv, TypeOK, PassType, Shape, Apart, Known, Held, Passing, Reaped, Active,
                Gone, Filled, Idle
  <2>5. QED BY <2>1, <2>2, <2>3, <2>4 DEF Next
<1>2. QED BY <1>1, InitIInv, PTL DEF Spec

\* One place in all holds a connection whose client waits: there is one, and
\* any two are the same.
LEMMA HoldersCounted ==
  ASSUME IInv, NEW k \in Conns, Active(k)
  PROVE  Cardinality(Holders(k)) = 1
<1>0. TypeOK /\ Shape /\ Apart /\ Known /\ Held
  BY DEF IInv
<1>1. DOMAIN backlog = 1..Len(backlog)
  BY <1>0 DEF TypeOK
<1>2. Waiting = {ring.clifd[j] : j \in Filled}
  BY <1>0, WaitingIsFilled
<1>3. k # 0
  BY DEF Conns
<1>4. \A h \in Holders(k) :
        \/ \E x \in 1..Len(backlog) : backlog[x] = k /\ h = <<"backlog", x>>
        \/ \E w \in Workers : wfd[w] = k /\ h = <<"worker", w>>
        \/ \E w \in Workers : pass.chan[w] = k /\ h = <<"pipe", w>>
        \/ h = <<"ring", 0>> /\ \E j \in Filled : ring.clifd[j] = k
  BY <1>1, <1>2 DEF Holders
<1>5. Holders(k) # {}
  <2>1. CASE \E x \in 1..Len(backlog) : backlog[x] = k
    BY <1>1, <2>1 DEF Holders
  <2>2. CASE \E w \in Workers : wfd[w] = k
    BY <2>2 DEF Holders
  <2>3. CASE \E w \in Workers : pass.chan[w] = k /\ ~Gone(w)
    BY <2>3 DEF Holders
  <2>4. CASE mpc # "gone" /\ k \in Waiting
    <3>1. 1 \in {x \in {1} : mpc # "gone" /\ k \in Waiting}
      BY <2>4
    <3>2. <<"ring", 0>> \in Holders(k)
      BY <3>1 DEF Holders
    <3>3. QED BY <3>2
  <2>5. QED BY <1>0, <1>2, <2>1, <2>2, <2>3, <2>4 DEF Held
<1>6. PICK h \in Holders(k) : TRUE
  BY <1>5
<1>7. \A g \in Holders(k) : g = h
  <2> SUFFICES ASSUME NEW g \in Holders(k) PROVE g = h
    OBVIOUS
  <2>0. design = "pass" \/ \A w \in Workers : pass.chan[w] = 0
    BY <1>0 DEF Shape
  <2>00. design # "pass" \/ Filled = {}
    BY <1>0, NothingFilled DEF Shape, Filled, TypeOK
  <2>1. CASE \E x \in 1..Len(backlog) : backlog[x] = k /\ h = <<"backlog", x>>
    BY <1>0, <1>4, <2>1 DEF Apart
  <2>2. CASE \E w \in Workers : wfd[w] = k /\ h = <<"worker", w>>
    BY <1>0, <1>3, <1>4, <2>2 DEF Apart
  <2>3. CASE \E w \in Workers : pass.chan[w] = k /\ h = <<"pipe", w>>
    BY <1>0, <1>3, <1>4, <2>0, <2>00, <2>3 DEF Apart
  <2>4. CASE h = <<"ring", 0>> /\ \E j \in Filled : ring.clifd[j] = k
    BY <1>0, <1>3, <1>4, <2>0, <2>00, <2>4 DEF Apart
  <2>5. QED BY <1>4, <2>1, <2>2, <2>3, <2>4
<1>8. Holders(k) = {h}
  BY <1>6, <1>7
<1>9. QED BY <1>8, FS_Singleton

\* For every design, any number of connections, children and slots: no
\* connection is lost or served twice on its way to the process or thread that
\* serves it, serv05 passes connections to idle children only and has one
\* whenever it accepts, and serv01 has a signal pending for every child it has
\* not waited for.
THEOREM PoolSafeHolds == Spec => []PoolSafe
<1>1. IInv => PoolSafe
  <2> SUFFICES ASSUME IInv PROVE PoolSafe
    OBVIOUS
  <2>1. OneOwner
    BY HoldersCounted DEF OneOwner, Active
  <2>2. PassedToIdle
    BY DEF IInv, Passing, PassedToIdle, Idle
  <2>3. Reaped
    BY DEF IInv
  <2>4. QED BY <2>1, <2>2, <2>3 DEF PoolSafe
<1>2. QED BY <1>1, Invariance, PTL

\* Who is cut off, when the workers in W end: in the designs with processes,
\* the clients of these.
LEMMA CutOff ==
  ASSUME IInv, NEW W \in SUBSET Workers, NEW m, End(W, m), ~Threaded,
         NEW w \in Workers, wfd[w] # 0, conn[wfd[w]] = "good", conn'[wfd[w]] = "cut"
  PROVE  w \in W
<1>0. TypeOK /\ Shape /\ Apart
  BY DEF IInv
<1> DEFINE k == wfd[w]
           fds == ({wfd[v] : v \in W} \cup {pass.chan[v] : v \in W}
                    \cup (IF m = "gone" /\ design = "ring" THEN Waiting ELSE {})) \ {0}
           deaf == ~Listens(m, Live \ W)
           late == {j \in Conns : deaf /\ \E x \in DOMAIN backlog : backlog[x] = j}
<1>1. k \in Conns
  BY <1>0 DEF TypeOK, Conns
<1>2. conn' = Cut(fds \cup late)
  BY DEF End
<1> HIDE DEF deaf
<1>3. k \in fds \/ k \in late
  BY <1>1, <1>2 DEF Cut
<1>4. k \notin late
  <2>1. DOMAIN backlog = 1..Len(backlog)
    BY <1>0 DEF TypeOK
  <2>2. \A x \in 1..Len(backlog) : backlog[x] # k
    BY <1>0 DEF Apart
  <2>3. QED BY <2>1, <2>2
<1>5. (\E v \in W : wfd[v] = k) \/ (\E v \in W : pass.chan[v] = k)
  BY <1>3, <1>4 DEF Threaded
<1>6. \A v \in Workers : pass.chan[v] # k
  BY <1>0 DEF Apart
<1>7. QED BY <1>0, <1>5, <1>6 DEF Apart

\* For every design with processes: a client that is being served is not cut
\* off by what the others do, only by the end of its own process or by
\* sig_int.
THEOREM IsolationHolds == Spec => Isolation
<1> DEFINE Isolated == \A w \in Workers : wfd[w] # 0 /\ conn[wfd[w]] = "good" /\ conn'[wfd[w]] = "cut"
                         => Threaded \/ End({w}, mpc) \/ mpc' = "wait"
<1>1. IInv /\ [Next]_vars => Isolated
  <2> SUFFICES ASSUME IInv, [Next]_vars, NEW w \in Workers, ~Threaded,
                      wfd[w] # 0, conn[wfd[w]] = "good", conn'[wfd[w]] = "cut"
               PROVE  End({w}, mpc) \/ mpc' = "wait"
    OBVIOUS
  <2>0. TypeOK
    BY DEF IInv
  <2>1. wfd[w] \in Conns
    BY <2>0 DEF TypeOK, Conns
  <2>2. ~MainQuits
    BY CutOff DEF MainQuits
  <2>3. ASSUME NEW v \in Workers, End({v}, mpc) PROVE End({w}, mpc)
    <3>1. w \in {v}
      BY <2>3, CutOff
    <3>2. QED BY <2>3, <3>1
  <2>4. conn' # conn
    OBVIOUS
  <2>5. CASE Main
    BY <2>2, <2>4, <2>5 DEF Main, Exit, Serv01, Serv06, Creates, CannotCreate, Serv08, Threaded,
                            Serv05Select, Serv05Accept, Serv05Scan
  <2>6. CASE Sig_chld
    BY <2>4, <2>6 DEF Sig_chld
  <2>7. CASE Sig_int
    BY <2>2, <2>7 DEF Sig_int, End
  <2>8. CASE Kill
    BY <2>2, <2>3, <2>8 DEF Kill, Live
  <2>9. ASSUME NEW v \in Workers, Worker(v) \/ Spurious(v) PROVE End({w}, mpc)
    <3>1. CASE Web_child(v)
      <4>1. CASE conn' = [conn EXCEPT ![wfd[v]] = "answered"]
        BY <2>0, <2>1, <4>1 DEF TypeOK
      <4>2. CASE Quits(v)
        BY <2>3, <4>2 DEF Quits
      <4>3. QED BY <2>4, <3>1, <4>1, <4>2 DEF Web_child
    <3>2. QED
      BY <2>4, <2>9, <3>1 DEF Worker, Spurious, OwnAccept, Serv00, Child02, Child02l, Child03, Child04,
         Pthread07, Pthread09, LockedAccept, My_lock_wait, My_lock_release, Accept
  <2>10. ASSUME NEW k \in Conns, Client(k) PROVE FALSE
    BY <2>0, <2>1, <2>10 DEF Client, Connect, Close, Reset, TypeOK
  <2>11. CASE UNCHANGED vars
    BY <2>4, <2>11 DEF vars
  <2>12. QED BY <2>5, <2>6, <2>7, <2>8, <2>9, <2>10, <2>11 DEF Next
<1>2. QED BY <1>1, Invariance, PTL DEF Spec, Isolation

-----------------------------------------------------------------------------
\* What the programs are: how they open their socket goes with TCP or UDP.
Programs ==
  /\ \A p \in O!Servers : prog[p].tcp = O!Tcp
  /\ O!Tcp \in BOOLEAN
  /\ prog[O!Client].opens \in {"tcp_connect", "byname", "single", "udp_client", "udp_connect"}
  /\ O!Tcp <=> prog[O!Client].opens \in {"tcp_connect", "byname", "single"}
  /\ \A p \in O!Servers :
       /\ prog[p].opens \in {"tcp_listen", "single", "udp_server", "udp_server_reuseaddr"}
       /\ O!Tcp <=> prog[p].opens \in {"tcp_listen", "single"}

OpenersTypeOK ==
  /\ has \in [O!Procs -> SUBSET O!Addrs] /\ elsewhere \in SUBSET O!Addrs
  /\ i \in [O!Procs -> Nat] /\ open \in [O!Procs -> SUBSET Nat]
  /\ pc \in [O!Procs -> {"try", "opened", "close", "listen", "serve", "asked", "exit", "failed",
                         "dead", "killed"}]
  /\ bound \in [O!Servers -> Nat]

\* Where each process is on its walk, and what it knows of the addresses behind it.
Walked ==
  /\ \A p \in O!Procs :
       /\ open[p] \subseteq {i[p]}
       /\ pc[p] = "try" => open[p] = {}
       /\ i[p] >= 1
       /\ prog[p].opens = "single" => i[p] = 1 /\ pc[p] # "close"
  /\ O!Tcp => \A a \in 1 .. i[O!Client] - 1 : a \notin has[O!Client] \cap elsewhere
  /\ ~O!Tcp => \A a \in 1 .. i[O!Client] - 1 : a \notin has[O!Client]
  /\ pc[O!Client] = "close" => O!Tcp /\ i[O!Client] \notin elsewhere
  /\ \A p \in O!Servers :
       prog[p].opens = "tcp_listen" /\ p \notin refused =>
         pc[p] # "close" /\ \A a \in 1 .. i[p] - 1 : a \notin has[p]

\* Two servers that serve at one address.
Shared ==
  \A p, q \in O!Servers :
    p # q /\ pc[p] = "serve" /\ pc[q] = "serve" /\ bound[p] = bound[q] =>
      ~O!Tcp /\ prog[p].opens = "udp_server_reuseaddr"

Outcomes ==
  /\ pc[O!Client] = "failed" =>
       has[O!Client] \cap elsewhere = {}
       \/ (prog[O!Client].opens \in {"byname", "single"} /\ 1..i[O!Client] \ has[O!Client] # {})
       \/ (prog[O!Client].opens = "single" /\ 1 \notin elsewhere)
  /\ O!ComesBack
  /\ \A p \in O!Servers : pc[p] = "dead" => gone

OpenersInv == Programs /\ OpenersTypeOK /\ Walked /\ Shared /\ Outcomes

\* The programs there are.
LEMMA ProgramKinds ==
  /\ \A r \in O!ClientPrograms :
       /\ r.tcp \in BOOLEAN
       /\ r.opens \in {"tcp_connect", "byname", "single", "udp_client", "udp_connect"}
       /\ r.tcp <=> r.opens \in {"tcp_connect", "byname", "single"}
  /\ \A r \in O!ServerPrograms :
       /\ r.opens \in {"tcp_listen", "single", "udp_server", "udp_server_reuseaddr"}
       /\ r.tcp <=> r.opens \in {"tcp_listen", "single"}
BY DEF O!ClientPrograms, O!ServerPrograms, O!Program, O!tcpcli, O!tcpcli1, O!tcpcli2, O!tcpcli3,
       O!udpcli1, O!udpcli2, O!tcpsrv1, O!tcpsrv2, O!tcpsrv3, O!tcpsrv4, O!udpsrv2, O!udpsrv3,
       O!inetd_tcpsrv2, O!intro_tcpcli, O!intro_tcpcli1, O!intro_tcpcli2, O!intro_tcpcli3,
       O!intro_tcpsrv, O!intro_tcpsrv1, O!intro_tcpsrv2, O!intro_tcpsrv3

LEMMA OpenersStart ==
  ASSUME O!Init
  PROVE  OpenersInv
<1>0. O!Client = 3 /\ O!Servers = {1, 2} /\ O!Procs = {1, 2, 3}
  BY DEF O!Client, O!Servers, O!Procs
<1>1. Programs
  BY ProgramKinds DEF Programs, O!Init, O!Tcp
<1>2. OpenersTypeOK
  <2>1. has \in [O!Procs -> SUBSET O!Addrs]
    BY DEF O!Init
  <2>2. QED BY <2>1 DEF OpenersTypeOK, O!Init
<1>3. /\ \A p \in O!Procs : i[p] = 1 /\ open[p] = {} /\ pc[p] = "try"
  BY DEF O!Init
<1>4. Walked
  BY <1>0, <1>3 DEF Walked
<1>5. Shared
  BY <1>0, <1>3 DEF Shared
<1>6. Outcomes
  BY <1>0, <1>3 DEF Outcomes, O!ComesBack
<1>7. QED BY <1>1, <1>2, <1>4, <1>5, <1>6 DEF OpenersInv

\* Socket(), and on to the next address.
LEMMA SocketKeeps ==
  ASSUME OpenersInv, NEW p \in O!Procs, O!Socket(p) \/ O!Close(p)
  PROVE  OpenersInv'
<1>0. /\ Programs /\ OpenersTypeOK /\ Walked /\ Shared /\ Outcomes
      /\ UNCHANGED <<prog, has, elsewhere, bound, gone, refused>>
      /\ pc[p] \in {"try", "close"}
      /\ \/ /\ pc[p] = "try" /\ i[p] \in has[p] /\ O!Goto(p, "opened") /\ open' = [open EXCEPT ![p] = @ \cup {i[p]}] /\ i' = i
         \/ /\ pc[p] = "try" /\ i[p] \notin has[p] /\ open' = open
            /\ prog[p].opens \in {"byname", "single"} /\ O!Goto(p, "failed") /\ i' = i
         \/ /\ pc[p] = "try" /\ i[p] \notin has[p] /\ open' = open
            /\ prog[p].opens \notin {"byname", "single"} /\ O!Advance(p)
         \/ pc[p] = "close" /\ open' = [open EXCEPT ![p] = @ \ {i[p]}] /\ O!Advance(p)
  BY DEF OpenersInv, O!Socket, O!Close, O!conf
<1>a. O!Client = 3 /\ O!Servers = {1, 2} /\ O!Procs = {1, 2, 3} /\ O!Addrs = 1..NAddrs /\ NAddrs \in Nat
  BY OpenersAssumption DEF O!Client, O!Servers, O!Procs, O!Addrs
<1>1. Programs'
  BY <1>0 DEF Programs, O!Tcp
<1>2. /\ \/ pc[p] = "try" /\ i[p] \in has[p] /\ pc' = [pc EXCEPT ![p] = "opened"] /\ i' = i
         \/ pc[p] = "try" /\ i[p] \notin has[p] /\ pc' = [pc EXCEPT ![p] = "failed"] /\ i' = i
            /\ prog[p].opens \in {"byname", "single"}
         \/ pc[p] = "try" /\ i[p] \notin has[p] /\ pc' = [pc EXCEPT ![p] = "failed"] /\ i' = i
            /\ i[p] >= NAddrs /\ prog[p].opens # "single"
         \/ pc[p] = "close" /\ pc' = [pc EXCEPT ![p] = "failed"] /\ i' = i
            /\ i[p] >= NAddrs /\ prog[p].opens # "single"
         \/ /\ pc[p] = "try" => i[p] \notin has[p]
            /\ pc' = [pc EXCEPT ![p] = "try"] /\ i' = [i EXCEPT ![p] = @ + 1]
            /\ prog[p].opens # "single"
      /\ \/ open' = [open EXCEPT ![p] = @ \cup {i[p]}] /\ pc[p] = "try" /\ i[p] \in has[p]
         \/ open' = open /\ pc[p] = "try" /\ i[p] \notin has[p]
         \/ open' = [open EXCEPT ![p] = @ \ {i[p]}] /\ pc[p] = "close"
  <2>1. i[p] \in Nat
    BY <1>0 DEF OpenersTypeOK
  <2>2. O!Advance(p) =>
          \/ i' = [i EXCEPT ![p] = @ + 1] /\ pc' = [pc EXCEPT ![p] = "try"] /\ prog[p].opens # "single"
          \/ pc' = [pc EXCEPT ![p] = "failed"] /\ i' = i /\ (i[p] >= NAddrs \/ prog[p].opens = "single")
    BY <1>a, <2>1 DEF O!Advance, O!Goto
  <2>3. pc[p] = "close" => prog[p].opens # "single"
    BY <1>0 DEF Walked
  <2>4. QED BY <1>0, <2>2, <2>3 DEF O!Goto
<1>3. OpenersTypeOK'
  <2>1. i[p] \in Nat /\ i[p] + 1 \in Nat
    BY <1>0 DEF OpenersTypeOK
  <2>2. i' \in [O!Procs -> Nat]
    BY <1>0, <1>2, <2>1 DEF OpenersTypeOK
  <2>3. open' \in [O!Procs -> SUBSET Nat]
    BY <1>0, <1>2, <2>1 DEF OpenersTypeOK
  <2>4. QED BY <1>0, <1>2, <2>2, <2>3 DEF OpenersTypeOK
<1>b. /\ i \in [O!Procs -> Nat] /\ pc \in [O!Procs -> {"try", "opened", "close", "listen", "serve", "asked", "exit", "failed", "dead", "killed"}]
      /\ open \in [O!Procs -> SUBSET Nat] /\ has \in [O!Procs -> SUBSET O!Addrs] /\ elsewhere \in SUBSET O!Addrs
  BY <1>0 DEF OpenersTypeOK
<1>4. \A q \in O!Procs \ {p} : i'[q] = i[q] /\ open'[q] = open[q] /\ pc'[q] = pc[q]
  BY <1>2, <1>b
<1>5. /\ open'[p] \subseteq {i'[p]} /\ (pc'[p] = "try" => open'[p] = {})
      /\ i'[p] >= 1 /\ pc'[p] # "close" /\ (prog[p].opens = "single" => i'[p] = 1)
  <2>1. open[p] \subseteq {i[p]} /\ (pc[p] = "try" => open[p] = {}) /\ i[p] >= 1 /\ i[p] \in Nat
        /\ (prog[p].opens = "single" => i[p] = 1)
    BY <1>0, <1>b DEF Walked
  <2>2. QED BY <1>2, <1>b, <2>1
<1>6. \A a \in 1 .. i'[p] - 1 : a \in 1 .. i[p] - 1 \/ (a = i[p] /\ (pc[p] = "try" => a \notin has[p]))
  BY <1>2, <1>b
<1>7. i'[p] = i[p] \/ i'[p] = i[p] + 1
  BY <1>2, <1>b
<1>8. Walked'
  <2>1. \A q \in O!Procs :
       /\ open'[q] \subseteq {i'[q]}
       /\ pc'[q] = "try" => open'[q] = {}
       /\ i'[q] >= 1
       /\ prog[q].opens = "single" => i'[q] = 1 /\ pc'[q] # "close"
    BY <1>0, <1>4, <1>5 DEF Walked
  <2>2. O!Tcp => \A a \in 1 .. i'[O!Client] - 1 : a \notin has[O!Client] \cap elsewhere
    BY <1>0, <1>a, <1>4, <1>6 DEF Walked
  <2>3. ~O!Tcp => \A a \in 1 .. i'[O!Client] - 1 : a \notin has[O!Client]
    BY <1>0, <1>a, <1>4, <1>6 DEF Walked
  <2>4. pc'[O!Client] = "close" => O!Tcp /\ i'[O!Client] \notin elsewhere
    BY <1>0, <1>a, <1>4, <1>5 DEF Walked
  <2>5. \A q \in O!Servers :
          prog[q].opens = "tcp_listen" /\ q \notin refused =>
            pc'[q] # "close" /\ \A a \in 1 .. i'[q] - 1 : a \notin has[q]
    <3>1. SUFFICES ASSUME NEW q \in O!Servers, prog[q].opens = "tcp_listen", q \notin refused
                   PROVE pc'[q] # "close" /\ \A a \in 1 .. i'[q] - 1 : a \notin has[q]
      OBVIOUS
    <3>2. pc[q] # "close" /\ \A a \in 1 .. i[q] - 1 : a \notin has[q]
      BY <1>0, <3>1 DEF Walked
    <3>3. CASE q = p
      BY <1>0, <1>5, <1>6, <3>2, <3>3
    <3>4. CASE q # p
      BY <1>a, <1>4, <3>2, <3>4
    <3>5. QED BY <3>3, <3>4
  <2>6. O!Tcp' = O!Tcp
    BY <1>0 DEF O!Tcp
  <2>7. QED BY <1>0, <2>1, <2>2, <2>3, <2>4, <2>5, <2>6 DEF Walked
<1>9. Shared'
  <2>1. \A q \in O!Servers : pc'[q] = "serve" => pc[q] = "serve"
    BY <1>a, <1>2, <1>4, <1>b
  <2>2. QED BY <1>0, <2>1 DEF Shared, O!Tcp
<1>10. Outcomes'
  <2>1. pc'[p] = "failed" /\ pc[p] # "failed" =>
          \/ i[p] \notin has[p] /\ prog[p].opens \in {"byname", "single"}
          \/ i[p] >= NAddrs /\ (pc[p] = "close" \/ i[p] \notin has[p])
    BY <1>0, <1>2, <1>b
  <2>2. pc'[p] # "dead" /\ (pc'[p] = "failed" => pc[p] # "failed" /\ i'[p] = i[p])
    BY <1>0, <1>2, <1>b
  <2>3. pc'[O!Client] = "failed" =>
       has[O!Client] \cap elsewhere = {}
       \/ (prog[O!Client].opens \in {"byname", "single"} /\ 1..i'[O!Client] \ has[O!Client] # {})
       \/ (prog[O!Client].opens = "single" /\ 1 \notin elsewhere)
    <3>1. CASE p # O!Client
      <4>1. pc'[O!Client] = pc[O!Client] /\ i'[O!Client] = i[O!Client]
        BY <1>a, <1>4, <3>1
      <4>2. QED BY <1>0, <4>1 DEF Outcomes
    <3>2. CASE p = O!Client
      <4>1. SUFFICES ASSUME pc'[p] = "failed"
                     PROVE  has[p] \cap elsewhere = {} \/ (prog[p].opens \in {"byname", "single"} /\ 1..i'[p] \ has[p] # {})
        BY <3>2
      <4>2. i[p] \in Nat /\ i[p] >= 1 /\ i'[p] = i[p] /\ has[p] \subseteq 1..NAddrs
        BY <1>0, <1>a, <1>b, <2>2, <4>1 DEF Walked
      <4>3. CASE i[p] \notin has[p] /\ prog[p].opens \in {"byname", "single"}
        BY <4>2, <4>3
      <4>4. CASE i[p] >= NAddrs /\ (pc[p] = "close" \/ i[p] \notin has[p])
        <5>1. \A a \in 1..i[p] - 1 : a \notin has[p] \cap elsewhere
          BY <1>0, <3>2 DEF Walked
        <5>2. i[p] \notin has[p] \cap elsewhere
          BY <1>0, <3>2, <4>4 DEF Walked
        <5>3. \A a \in 1..NAddrs : a = i[p] \/ a \in 1..i[p] - 1
          BY <1>a, <4>2, <4>4
        <5>4. QED BY <4>2, <5>1, <5>2, <5>3
      <4>5. QED BY <2>1, <2>2, <4>1, <4>3, <4>4
    <3>3. QED BY <3>1, <3>2
  <2>4. \A q \in O!Servers : pc'[q] = "failed" /\ prog[q].opens = "tcp_listen" => has[q] = {} \/ q \in refused
    <3>1. SUFFICES ASSUME NEW q \in O!Servers, pc'[q] = "failed", prog[q].opens = "tcp_listen", q \notin refused
                   PROVE  has[q] = {}
      OBVIOUS
    <3>2. CASE q # p
      <4>1. pc[q] = "failed"
        BY <1>a, <1>4, <3>1, <3>2
      <4>2. QED BY <1>0, <3>1, <4>1 DEF Outcomes, O!ComesBack
    <3>3. CASE q = p
      <4>1. pc[p] # "close" /\ \A a \in 1 .. i[p] - 1 : a \notin has[p]
        BY <1>0, <3>1, <3>3 DEF Walked
      <4>2. i[p] >= NAddrs /\ i[p] \notin has[p]
        BY <2>1, <2>2, <3>1, <3>3, <4>1
      <4>3. i[p] \in Nat /\ has[p] \subseteq 1..NAddrs
        BY <1>a, <1>b
      <4>4. \A a \in 1..NAddrs : a = i[p] \/ a \in 1..i[p] - 1
        BY <1>a, <4>2, <4>3
      <4>5. QED BY <3>3, <4>1, <4>2, <4>3, <4>4
    <3>4. QED BY <3>2, <3>3
  <2>5. \A q \in O!Servers : pc'[q] = "dead" => gone
    BY <1>0, <1>a, <1>4, <2>2 DEF Outcomes
  <2>6. QED BY <1>0, <2>3, <2>4, <2>5 DEF Outcomes, O!ComesBack
<1>11. QED BY <1>1, <1>3, <1>8, <1>9, <1>10 DEF OpenersInv

\* What a step keeps that changes no address and no descriptor, if it refuses
\* nobody but a server of its own and what becomes of its process is right.
LEMMA GotoKeeps ==
  ASSUME OpenersInv, NEW p \in O!Procs, NEW l \in {"close", "listen", "serve", "asked", "exit", "failed", "dead", "killed"},
         pc' = [pc EXCEPT ![p] = l],
         UNCHANGED <<prog, has, elsewhere, i, open>>,
         bound' \in [O!Servers -> Nat], refused \subseteq refused', gone => gone',
         \A q \in O!Servers : pc'[q] = "serve" /\ q # p => bound'[q] = bound[q],
         l = "close" => /\ prog[p].opens # "single"
                        /\ p = O!Client => O!Tcp /\ i[p] \notin elsewhere
                        /\ p \in O!Servers /\ prog[p].opens = "tcp_listen" => p \in refused',
         l = "failed" => /\ p = O!Client => prog[p].opens = "single" /\ 1 \notin elsewhere
                         /\ p \in O!Servers /\ prog[p].opens = "tcp_listen" => p \in refused',
         l = "dead" => p = O!Client \/ gone',
         l = "serve" /\ p \in O!Servers => \A q \in O!Servers \ {p} : pc[q] = "serve" /\ bound[q] = bound'[p] =>
             ~O!Tcp /\ prog[p].opens = "udp_server_reuseaddr" /\ prog[q].opens = "udp_server_reuseaddr"
  PROVE  OpenersInv'
<1>0. Programs /\ OpenersTypeOK /\ Walked /\ Shared /\ Outcomes
  BY DEF OpenersInv
<1>a. O!Client = 3 /\ O!Servers = {1, 2} /\ O!Procs = {1, 2, 3}
  BY DEF O!Client, O!Servers, O!Procs
<1>b. pc \in [O!Procs -> {"try", "opened", "close", "listen", "serve", "asked", "exit", "failed", "dead", "killed"}]
  BY <1>0 DEF OpenersTypeOK
<1>c. pc'[p] = l /\ \A q \in O!Procs \ {p} : pc'[q] = pc[q]
  BY <1>b
<1>d. O!Tcp' = O!Tcp
  BY DEF O!Tcp
<1>1. Programs'
  BY <1>0, <1>d DEF Programs
<1>2. OpenersTypeOK'
  BY <1>0 DEF OpenersTypeOK
<1>3. Walked'
  <2>1. \A q \in O!Procs :
       /\ open[q] \subseteq {i[q]}
       /\ pc'[q] = "try" => open[q] = {}
       /\ i[q] >= 1
       /\ prog[q].opens = "single" => i[q] = 1 /\ pc'[q] # "close"
    BY <1>0, <1>c DEF Walked
  <2>2. pc'[O!Client] = "close" => O!Tcp /\ i[O!Client] \notin elsewhere
    BY <1>0, <1>a, <1>c DEF Walked
  <2>3. \A q \in O!Servers : prog[q].opens = "tcp_listen" /\ q \notin refused' =>
            pc'[q] # "close" /\ \A a \in 1 .. i[q] - 1 : a \notin has[q]
    BY <1>0, <1>a, <1>c DEF Walked
  <2>4. QED BY <1>0, <1>d, <2>1, <2>2, <2>3 DEF Walked
<1>4. Shared'
  <2>1. SUFFICES ASSUME NEW q \in O!Servers, NEW r \in O!Servers, q # r,
                        pc'[q] = "serve", pc'[r] = "serve", bound'[q] = bound'[r]
                 PROVE  ~O!Tcp /\ prog[q].opens = "udp_server_reuseaddr"
    BY <1>d DEF Shared
  <2>2. CASE q # p /\ r # p
    BY <1>0, <1>a, <1>c, <2>1, <2>2 DEF Shared
  <2>3. CASE q = p
    BY <1>a, <1>c, <2>1, <2>3
  <2>4. CASE r = p
    BY <1>a, <1>c, <2>1, <2>4
  <2>5. QED BY <2>2, <2>3, <2>4
<1>5. Outcomes'
  <2>1. pc'[O!Client] = "failed" =>
       has[O!Client] \cap elsewhere = {}
       \/ (prog[O!Client].opens \in {"byname", "single"} /\ 1..i[O!Client] \ has[O!Client] # {})
       \/ (prog[O!Client].opens = "single" /\ 1 \notin elsewhere)
    BY <1>0, <1>a, <1>c DEF Outcomes
  <2>2. \A q \in O!Servers : pc'[q] = "failed" /\ prog[q].opens = "tcp_listen" => has[q] = {} \/ q \in refused'
    BY <1>0, <1>a, <1>c DEF Outcomes, O!ComesBack
  <2>3. \A q \in O!Servers : pc'[q] = "dead" => gone'
    BY <1>0, <1>a, <1>c DEF Outcomes
  <2>4. QED BY <2>1, <2>2, <2>3 DEF Outcomes, O!ComesBack
<1>6. QED BY <1>1, <1>2, <1>3, <1>4, <1>5 DEF OpenersInv

\* connect() and the end of the client.
LEMMA CallerKeeps ==
  ASSUME OpenersInv, O!ClientStep \/ O!Reset
  PROVE  OpenersInv'
<1>0. /\ Programs /\ OpenersTypeOK /\ Walked /\ Shared /\ Outcomes
      /\ UNCHANGED <<prog, has, elsewhere, i, open, bound, refused>> /\ (gone => gone')
  BY DEF OpenersInv, O!ClientStep, O!Reset, O!Connect, O!ConnectUdp, O!TakeAnswer, O!AnswerElsewhere, O!conf
<1>a. O!Client = 3 /\ O!Servers = {1, 2} /\ O!Procs = {1, 2, 3}
  BY DEF O!Client, O!Servers, O!Procs
<1>b. bound \in [O!Servers -> Nat]
  BY <1>0 DEF OpenersTypeOK
<1>1. CASE O!Connect
  <2>1. \/ O!Goto(O!Client, "asked")
        \/ O!Tcp /\ i[O!Client] \notin elsewhere /\ O!Goto(O!Client, O!Fails(O!Client))
    BY <1>1 DEF O!Connect
  <2>2. CASE O!Goto(O!Client, "asked")
    BY <1>0, <1>a, <1>b, <2>2, GotoKeeps DEF O!Goto
  <2>3. CASE O!Tcp /\ i[O!Client] \notin elsewhere /\ O!Goto(O!Client, O!Fails(O!Client))
    <3>1. CASE prog[O!Client].opens = "single"
      <4>1. pc' = [pc EXCEPT ![O!Client] = "failed"]
        BY <2>3, <3>1 DEF O!Goto, O!Fails
      <4>2. i[O!Client] = 1 /\ 1 \notin elsewhere
        BY <1>0, <1>a, <2>3, <3>1 DEF Walked
      <4>3. QED BY <1>0, <1>a, <1>b, <3>1, <4>1, <4>2, GotoKeeps
    <3>2. CASE prog[O!Client].opens # "single"
      <4>1. pc' = [pc EXCEPT ![O!Client] = "close"]
        BY <2>3, <3>2 DEF O!Goto, O!Fails
      <4>2. QED BY <1>0, <1>a, <1>b, <2>3, <3>2, <4>1, GotoKeeps
    <3>3. QED BY <3>1, <3>2
  <2>4. QED BY <2>1, <2>2, <2>3
<1>2. CASE O!ConnectUdp \/ O!TakeAnswer \/ O!Reset
  <2>1. \E l \in {"asked", "dead", "exit"} : pc' = [pc EXCEPT ![O!Client] = l]
    BY <1>2 DEF O!ConnectUdp, O!TakeAnswer, O!Reset, O!Goto
  <2>2. PICK l \in {"asked", "dead", "exit"} : pc' = [pc EXCEPT ![O!Client] = l]
    BY <2>1
  <2>3. QED BY <1>0, <1>a, <1>b, <2>2, GotoKeeps
<1>3. CASE O!AnswerElsewhere
  <2>1. UNCHANGED <<pc, gone>>
    BY <1>3 DEF O!AnswerElsewhere
  <2>2. QED BY <1>0, <2>1 DEF OpenersInv, Programs, OpenersTypeOK, Walked, Shared, Outcomes, O!ComesBack, O!Tcp
<1>4. QED BY <1>1, <1>2, <1>3 DEF O!ClientStep

\* bind() and listen().
LEMMA BindKeeps ==
  ASSUME OpenersInv, NEW p \in O!Procs, O!Bind(p) \/ O!Listen(p)
  PROVE  OpenersInv'
<1>0. /\ Programs /\ OpenersTypeOK /\ Walked /\ Shared /\ Outcomes
      /\ p \in O!Servers /\ UNCHANGED <<prog, has, elsewhere, i, open, gone>> /\ pc[p] \in {"opened", "listen"}
  BY DEF OpenersInv, O!Bind, O!Listen, O!conf
<1>a. O!Client = 3 /\ O!Servers = {1, 2} /\ O!Procs = {1, 2, 3}
  BY DEF O!Client, O!Servers, O!Procs
<1>b. bound \in [O!Servers -> Nat] /\ i[p] \in Nat
  BY <1>0 DEF OpenersTypeOK
<1>c. prog[p].tcp = O!Tcp /\ prog[p].opens \in {"tcp_listen", "single", "udp_server", "udp_server_reuseaddr"}
      /\ (O!Tcp <=> prog[p].opens \in {"tcp_listen", "single"})
  BY <1>0 DEF Programs
<1>1. CASE O!Bind(p) /\ O!Taken(p, i[p])
  <2>1. /\ bound' = bound /\ O!Goto(p, O!Fails(p))
        /\ refused' = IF \E q \in O!Servers \ {p} : bound[q] = i[p] THEN refused \cup {p} ELSE refused
    BY <1>1 DEF O!Bind
  <2>2. prog[p].opens = "tcp_listen" => p \in refused'
    BY <1>1, <2>1 DEF O!Taken, O!Reuses
  <2>a. refused \subseteq refused' /\ bound' = bound /\ p # O!Client
    BY <1>0, <1>a, <2>1
  <2>3. CASE prog[p].opens = "single"
    <3>1. pc' = [pc EXCEPT ![p] = "failed"]
      BY <2>1, <2>3 DEF O!Goto, O!Fails
    <3>2. QED BY <1>0, <1>a, <1>b, <2>2, <2>a, <2>3, <3>1, GotoKeeps
  <2>4. CASE prog[p].opens # "single"
    <3>1. pc' = [pc EXCEPT ![p] = "close"]
      BY <2>1, <2>4 DEF O!Goto, O!Fails
    <3>2. QED BY <1>0, <1>a, <1>b, <2>2, <2>a, <2>4, <3>1, GotoKeeps
  <2>5. QED BY <2>3, <2>4
<1>2. CASE O!Bind(p) /\ ~O!Taken(p, i[p])
  <2>1. /\ refused' = refused /\ bound' = [bound EXCEPT ![p] = i[p]]
        /\ pc' = [pc EXCEPT ![p] = IF O!Tcp THEN "listen" ELSE "serve"]
    BY <1>2 DEF O!Bind, O!Goto
  <2>2. bound' \in [O!Servers -> Nat] /\ bound'[p] = i[p] /\ \A q \in O!Servers \ {p} : bound'[q] = bound[q]
    BY <1>0, <1>b, <2>1
  <2>3. \A q \in O!Servers \ {p} : bound[q] = i[p] /\ ~O!Tcp =>
          prog[p].opens = "udp_server_reuseaddr" /\ prog[q].opens = "udp_server_reuseaddr"
    BY <1>0, <1>2, <1>c DEF O!Taken, O!Reuses, Programs
  <2>4. CASE O!Tcp
    <3>1. pc' = [pc EXCEPT ![p] = "listen"]
      BY <2>1, <2>4
    <3>2. QED BY <1>0, <1>a, <2>1, <2>2, <3>1, GotoKeeps
  <2>5. CASE ~O!Tcp
    <3>1. pc' = [pc EXCEPT ![p] = "serve"]
      BY <2>1, <2>5
    <3>2. \A q \in O!Servers \ {p} : pc[q] = "serve" /\ bound[q] = bound'[p] =>
             ~O!Tcp /\ prog[p].opens = "udp_server_reuseaddr" /\ prog[q].opens = "udp_server_reuseaddr"
      BY <2>2, <2>3, <2>5
    <3>3. \A q \in O!Servers : pc'[q] = "serve" /\ q # p => bound'[q] = bound[q]
      BY <2>2
    <3>4. QED BY <1>0, <1>a, <2>1, <2>2, <3>1, <3>2, <3>3, GotoKeeps
  <2>6. QED BY <2>4, <2>5
<1>3. CASE O!Listen(p) /\ O!Listening(bound[p]) = {}
  <2>1. bound' = bound /\ refused' = refused /\ pc' = [pc EXCEPT ![p] = "serve"]
    BY <1>3 DEF O!Listen, O!Goto
  <2>2. \A q \in O!Servers \ {p} : ~(pc[q] = "serve" /\ bound[q] = bound'[p])
    BY <1>3, <2>1 DEF O!Listening
  <2>3. QED BY <1>0, <1>a, <1>b, <2>1, <2>2, GotoKeeps
<1>4. CASE O!Listen(p) /\ O!Listening(bound[p]) # {}
  <2>1. bound' = [bound EXCEPT ![p] = 0] /\ refused' = refused \cup {p} /\ pc' = [pc EXCEPT ![p] = "failed"]
    BY <1>4 DEF O!Listen, O!Goto
  <2>2. bound' \in [O!Servers -> Nat] /\ \A q \in O!Servers \ {p} : bound'[q] = bound[q]
    BY <1>b, <2>1
  <2>3. refused \subseteq refused' /\ p \in refused' /\ p # O!Client
    BY <1>0, <1>a, <2>1
  <2>4. QED BY <1>0, <1>a, <2>1, <2>2, <2>3, GotoKeeps
<1>5. QED BY <1>1, <1>2, <1>3, <1>4

\* The service, its end and its return.
LEMMA ServiceKeeps ==
  ASSUME OpenersInv, NEW p \in O!Procs, O!Answer(p) \/ O!Kill(p) \/ O!Restart(p)
  PROVE  OpenersInv'
<1>0. /\ Programs /\ OpenersTypeOK /\ Walked /\ Shared /\ Outcomes
      /\ UNCHANGED <<prog, has, elsewhere, gone, refused>>
  BY DEF OpenersInv, O!Answer, O!Kill, O!Restart, O!conf
<1>a. O!Client = 3 /\ O!Servers = {1, 2} /\ O!Procs = {1, 2, 3}
  BY DEF O!Client, O!Servers, O!Procs
<1>b. bound \in [O!Servers -> Nat]
  BY <1>0 DEF OpenersTypeOK
<1>1. CASE O!Answer(p) /\ UNCHANGED <<pc, bound>>
  <2>1. UNCHANGED <<i, open>>
    BY <1>1 DEF O!Answer
  <2>2. QED BY <1>0, <1>1, <2>1 DEF OpenersInv, Programs, OpenersTypeOK, Walked, Shared, Outcomes, O!ComesBack, O!Tcp
<1>2. CASE (O!Answer(p) /\ gone /\ O!Goto(p, "dead") /\ bound' = [bound EXCEPT ![p] = 0]) \/ O!Kill(p)
  <2>1. /\ UNCHANGED <<i, open>> /\ p \in O!Servers /\ bound' = [bound EXCEPT ![p] = 0]
        /\ \E l \in {"dead", "killed"} : pc' = [pc EXCEPT ![p] = l] /\ (l = "dead" => gone)
    BY <1>2, <1>a DEF O!Answer, O!Kill, O!Goto
  <2>2. PICK l \in {"dead", "killed"} : pc' = [pc EXCEPT ![p] = l] /\ (l = "dead" => gone)
    BY <2>1
  <2>3. bound' \in [O!Servers -> Nat] /\ \A q \in O!Servers \ {p} : bound'[q] = bound[q]
    BY <1>b, <2>1
  <2>4. QED BY <1>0, <1>a, <2>1, <2>2, <2>3, GotoKeeps
<1>3. CASE O!Restart(p)
  <2>1. /\ p = 1 /\ pc' = [pc EXCEPT ![p] = "try"] /\ i' = [i EXCEPT ![p] = 1] /\ open' = [open EXCEPT ![p] = {}]
        /\ bound' = bound
    BY <1>3 DEF O!Restart, O!Goto
  <2>2. /\ i \in [O!Procs -> Nat] /\ pc \in [O!Procs -> {"try", "opened", "close", "listen", "serve", "asked", "exit", "failed", "dead", "killed"}]
        /\ open \in [O!Procs -> SUBSET Nat]
    BY <1>0 DEF OpenersTypeOK
  <2>3. /\ i'[p] = 1 /\ pc'[p] = "try" /\ open'[p] = {}
        /\ \A q \in O!Procs \ {p} : i'[q] = i[q] /\ pc'[q] = pc[q] /\ open'[q] = open[q]
    BY <2>1, <2>2
  <2>4. Programs' /\ O!Tcp' = O!Tcp
    BY <1>0 DEF Programs, O!Tcp
  <2>5. OpenersTypeOK'
    BY <1>0, <2>1 DEF OpenersTypeOK
  <2>6. Walked'
    <3>1. \A q \in O!Procs :
         /\ open'[q] \subseteq {i'[q]}
         /\ pc'[q] = "try" => open'[q] = {}
         /\ i'[q] >= 1
         /\ prog[q].opens = "single" => i'[q] = 1 /\ pc'[q] # "close"
      BY <1>0, <2>3 DEF Walked
    <3>2. i'[O!Client] = i[O!Client] /\ pc'[O!Client] = pc[O!Client]
      BY <1>a, <2>1, <2>3
    <3>3. \A q \in O!Servers : prog[q].opens = "tcp_listen" /\ q \notin refused =>
            pc'[q] # "close" /\ \A a \in 1 .. i'[q] - 1 : a \notin has[q]
      <4>1. \A a : a \notin 1 .. i'[p] - 1
        BY <2>3
      <4>2. QED BY <1>0, <1>a, <2>3, <4>1 DEF Walked
    <3>4. QED BY <1>0, <2>4, <3>1, <3>2, <3>3 DEF Walked
  <2>7. Shared'
    BY <1>0, <1>a, <2>1, <2>3, <2>4 DEF Shared
  <2>8. Outcomes'
    <3>1. pc'[O!Client] = pc[O!Client] /\ i'[O!Client] = i[O!Client]
      BY <1>a, <2>1, <2>3
    <3>2. \A q \in O!Servers : pc'[q] \in {"failed", "dead"} => pc[q] = pc'[q]
      BY <1>a, <2>3
    <3>3. QED BY <1>0, <3>1, <3>2 DEF Outcomes, O!ComesBack
  <2>9. QED BY <2>4, <2>5, <2>6, <2>7, <2>8 DEF OpenersInv
<1>4. QED BY <1>1, <1>2, <1>3 DEF O!Answer

LEMMA OpenersNext ==
  ASSUME OpenersInv, [O!Next]_daytime
  PROVE  OpenersInv'
<1>1. CASE \E p \in O!Procs : O!Step(p) \/ O!Kill(p) \/ O!Restart(p)
  BY <1>1, SocketKeeps, BindKeeps, ServiceKeeps DEF O!Step
<1>2. CASE O!ClientStep \/ O!Reset
  BY <1>2, CallerKeeps
<1>3. CASE O!TwoMSL \/ UNCHANGED daytime
  <2>1. UNCHANGED <<prog, has, elsewhere, i, open, pc, bound, gone, refused>>
    BY <1>3 DEF O!TwoMSL, daytime, O!conf
  <2>2. QED BY <2>1 DEF OpenersInv, Programs, OpenersTypeOK, Walked, Shared, Outcomes, O!ComesBack, O!Tcp
<1>4. QED BY <1>1, <1>2, <1>3 DEF O!Next

\* The Cardinality of an instance is the library's.
LEMMA SameCardinalityO ==
  ASSUME NEW Elem PROVE O!Cardinality(Elem) = Cardinality(Elem)
BY DEF O!Cardinality, Cardinality

\* The invariant says what was to be shown.
LEMMA OpenersInvSafe ==
  ASSUME OpenersInv
  PROVE  O!OpenersSafe
<1>0. Programs /\ OpenersTypeOK /\ Walked /\ Shared /\ Outcomes
  BY DEF OpenersInv
<1>1. O!OneDescriptor
  BY <1>0 DEF Walked, O!OneDescriptor
<1>2. O!FirstThatAnswers
  BY <1>0 DEF Walked, Outcomes, O!FirstThatAnswers
<1>3. O!ComesBack
  BY <1>0 DEF Outcomes
<1>4. O!OnePerAddress
  <2>1. ASSUME NEW a \in O!Addrs, O!Cardinality(O!Listening(a)) = 2, NEW p \in O!Servers
        PROVE  prog[p].opens = "udp_server_reuseaddr"
    <3>1. O!Listening(a) \subseteq {1, 2} /\ Cardinality(O!Listening(a)) = 2
      BY <2>1, SameCardinalityO DEF O!Listening, O!Servers
    <3>2. O!Listening(a) = {1, 2}
      <4>1. Cardinality({}) = 0 /\ Cardinality({1}) = 1 /\ Cardinality({2}) = 1
        BY FS_EmptySet, FS_Singleton
      <4>2. O!Listening(a) \in {{}, {1}, {2}, {1, 2}}
        BY <3>1
      <4>3. QED BY <3>1, <4>1, <4>2
    <3>3. O!Servers = {1, 2} /\ \A q \in {1, 2} : pc[q] = "serve" /\ bound[q] = a
      BY <3>2 DEF O!Listening, O!Servers
    <3>4. QED BY <1>0, <2>1, <3>3 DEF Shared
  <2>2. \A p \in O!Servers : pc[p] = "dead" => gone
    BY <1>0 DEF Outcomes
  <2>3. QED BY <2>1, <2>2 DEF O!OnePerAddress
<1>5. QED BY <1>1, <1>2, <1>3, <1>4 DEF O!OpenersSafe

\* OpenersSafe: one descriptor stays open, the walk stops at the first address that
\* answers, who restarts comes back, and two servers share an address only where
\* both ask for it: for any number of addresses and of restarts.
THEOREM OpenersAreSafe == MCSpec => []OpenersSafe
<1>1. MCInit => OpenersInv
  BY OpenersStart DEF MCInit
<1>2. OpenersInv /\ [MCNext]_<<which, vars, daytime, info>> => OpenersInv'
  <2>1. MCNext => O!Next \/ UNCHANGED daytime
    BY DEF MCNext
  <2>2. QED BY <2>1, OpenersNext
<1>3. OpenersInv => OpenersSafe
  BY OpenersInvSafe DEF OpenersSafe
<1>4. QED BY <1>1, <1>2, <1>3, PTL DEF MCSpec

-----------------------------------------------------------------------------
(* The programs that ask the kernel. *)

HIDE PoolAssumption

\* What a sequence is, that is a queue, a buffer or a list.
LEMMA QueueOf ==
  ASSUME NEW Elem, NEW q \in Seq(Elem)
  PROVE  Len(q) \in Nat /\ (\A k \in 1..Len(q) : q[k] \in Elem) /\ (q = <<>> <=> Len(q) = 0)
  OBVIOUS

\* The pieces of a sequence of sequences, put together one by one.
LEMMA Together ==
  ASSUME NEW Elem, NEW ss \in Seq(Seq(Elem)), NEW m \in 1..Len(ss)
  PROVE  \E f \in [1..m -> Seq(Elem)] : f[1] = ss[1] /\ \A z \in 2..m : f[z] = f[z - 1] \o ss[z]
<1> DEFINE V == Seq(Elem)
           Upto(j) == \E f \in [1..j -> V] : f[1] = ss[1] /\ \A z \in 2..j : f[z] = f[z - 1] \o ss[z]
           Bad == {j \in 1..m : ~Upto(j)}
<1>1. SUFFICES ASSUME Bad # {} PROVE FALSE
  <2>1. m \in 1..m
    OBVIOUS
  <2>2. QED BY <2>1
<1>2. PICK j \in Bad : \A v \in Bad : j <= v
  <2> HIDE DEF Upto
  <2>1. Bad \in SUBSET Nat
    OBVIOUS
  <2> HIDE DEF Bad
  <2>2. QED BY <1>1, <2>1, LeastExists
<1>3. j \in 1..m /\ ~Upto(j)
  BY <1>2
<1>4. Len(ss) \in Nat /\ \A z \in 1..Len(ss) : ss[z] \in V
  OBVIOUS
<1>5. CASE j = 1
  <2> DEFINE f == [x \in 1..1 |-> ss[1]]
  <2>1. f \in [1..1 -> V] /\ f[1] = ss[1]
    BY <1>3, <1>4
  <2>2. \A z \in 2..1 : FALSE
    OBVIOUS
  <2> HIDE DEF f
  <2>3. Upto(1)
    BY <2>1, <2>2
  <2>4. QED BY <1>3, <1>5, <2>3
<1>6. CASE j # 1
  <2>1. j - 1 \in 1..m /\ j - 1 < j /\ j \in 2..j /\ j \in 1..Len(ss)
    BY <1>3, <1>4, <1>6
  <2>2. Upto(j - 1)
    <3> HIDE DEF Upto
    <3>1. j - 1 \notin Bad
      BY <1>2, <1>3, <2>1
    <3>2. QED BY <2>1, <3>1
  <2>3. PICK g \in [1..j-1 -> V] : g[1] = ss[1] /\ \A z \in 2..j-1 : g[z] = g[z - 1] \o ss[z]
    BY <2>2
  <2> DEFINE f == [x \in 1..j |-> IF x = j THEN g[j - 1] \o ss[j] ELSE g[x]]
  <2>4. g[j - 1] \o ss[j] \in V
    <3>1. g[j - 1] \in V /\ ss[j] \in V
      BY <1>4, <2>1, <2>3
    <3>2. QED BY <3>1, ConcatProperties
  <2>5. \A x \in 1..j : f[x] = IF x = j THEN g[j - 1] \o ss[j] ELSE g[x]
    OBVIOUS
  <2>6. \A x \in 1..j : x # j => x \in 1..j-1
    BY <1>3
  <2>7. f \in [1..j -> V]
    BY <2>3, <2>4, <2>6
  <2>8. f[1] = ss[1]
    <3>1. 1 \in 1..j /\ 1 # j
      BY <1>3, <1>6
    <3>2. QED BY <2>3, <2>5, <3>1
  <2>9. ASSUME NEW z \in 2..j PROVE f[z] = f[z - 1] \o ss[z]
    <3>1. z \in 1..j /\ z - 1 \in 1..j /\ z - 1 # j
      BY <1>3
    <3>2. f[z - 1] = g[z - 1]
      BY <2>5, <3>1
    <3>3. CASE z = j
      BY <2>5, <3>1, <3>2, <3>3
    <3>4. CASE z # j
      <4>1. z \in 2..j-1
        BY <1>3, <3>4
      <4>2. f[z] = g[z]
        BY <2>5, <3>1, <3>4
      <4>3. QED BY <2>3, <3>2, <4>1, <4>2
    <3>5. QED BY <3>3, <3>4
  <2> HIDE DEF f
  <2>10. Upto(j)
    BY <2>7, <2>8, <2>9
  <2>11. QED BY <1>3, <2>10
<1>7. QED BY <1>5, <1>6

\* What a sequence put together from pieces holds: the elements of the pieces and no
\* others, in the order of the pieces.
InPieces(ss, m, x) == \E p \in 1..m : \E o \in 1..Len(ss[p]) : x = ss[p][o]
MadeOf(s, ss, m, Rel) ==
  /\ \A k \in 1..Len(s) : InPieces(ss, m, s[k])
  /\ \A p \in 1..m : \A o \in 1..Len(ss[p]) : \E k \in 1..Len(s) : s[k] = ss[p][o]
  /\ \A k, l \in 1..Len(s) : k < l => <<s[k], s[l]>> \in Rel
\* The elements of the pieces are in order within each and from each to the next.
InOrderBy(ss, Rel) ==
  \A p, q \in 1..Len(ss) : \A o \in 1..Len(ss[p]), u \in 1..Len(ss[q]) :
    p < q \/ (p = q /\ o < u) => <<ss[p][o], ss[q][u]>> \in Rel

\* One piece more.
LEMMA OnePieceMore ==
  ASSUME NEW Elem, NEW ss \in Seq(Seq(Elem)), NEW Rel, InOrderBy(ss, Rel),
         NEW m \in 2..Len(ss), NEW s \in Seq(Elem), MadeOf(s, ss, m - 1, Rel)
  PROVE  s \o ss[m] \in Seq(Elem) /\ MadeOf(s \o ss[m], ss, m, Rel)
<1> DEFINE t == ss[m]
           new == s \o t
<1>1. /\ Len(ss) \in Nat /\ m \in 1..Len(ss) /\ m \in Nat /\ m - 1 \in Nat /\ t \in Seq(Elem)
      /\ \A p \in 1..m : p \in 1..Len(ss) /\ (p # m => p \in 1..m-1 /\ p < m)
      /\ \A p \in 1..m-1 : p \in 1..m /\ p # m /\ p \in 1..Len(ss)
  OBVIOUS
<1>2. Len(s) \in Nat /\ Len(t) \in Nat
  BY <1>1, QueueOf
<1>3. /\ new \in Seq(Elem) /\ Len(new) = Len(s) + Len(t)
      /\ \A j \in 1..Len(s) + Len(t) : new[j] = IF j <= Len(s) THEN s[j] ELSE t[j - Len(s)]
  BY <1>1, ConcatProperties
<1>4. \A j \in 1..Len(new) : j <= Len(s) => j \in 1..Len(s) /\ new[j] = s[j]
  BY <1>2, <1>3
<1>5. \A j \in 1..Len(new) : ~(j <= Len(s)) => j - Len(s) \in 1..Len(t) /\ new[j] = t[j - Len(s)]
  BY <1>2, <1>3
<1>6. \A j \in 1..Len(s) : j \in 1..Len(new) /\ new[j] = s[j]
  BY <1>2, <1>3
<1>7. \A o \in 1..Len(t) : o + Len(s) \in 1..Len(new) /\ new[o + Len(s)] = t[o]
  BY <1>2, <1>3
<1> HIDE DEF new
<1>8. ASSUME NEW k \in 1..Len(new) PROVE InPieces(ss, m, new[k])
  <2>1. CASE k <= Len(s)
    <3>1. InPieces(ss, m - 1, s[k])
      BY <1>4, <2>1 DEF MadeOf
    <3>2. QED BY <1>1, <1>4, <2>1, <3>1 DEF InPieces
  <2>2. CASE ~(k <= Len(s))
    <3>1. m \in 1..m
      BY <1>1
    <3>2. QED BY <1>5, <2>2, <3>1 DEF InPieces
  <2>3. QED BY <2>1, <2>2
<1>9. ASSUME NEW p \in 1..m, NEW o \in 1..Len(ss[p]) PROVE \E k \in 1..Len(new) : new[k] = ss[p][o]
  <2>1. CASE p = m
    BY <1>7, <2>1
  <2>2. CASE p # m
    <3>1. PICK k \in 1..Len(s) : s[k] = ss[p][o]
      BY <1>1, <2>2 DEF MadeOf
    <3>2. QED BY <1>6, <3>1
  <2>3. QED BY <2>1, <2>2
<1>10. ASSUME NEW k \in 1..Len(new), NEW l \in 1..Len(new), k < l PROVE <<new[k], new[l]>> \in Rel
  <2>1. CASE l <= Len(s)
    <3>1. k <= Len(s)
      BY <1>2, <1>3, <1>10, <2>1
    <3>2. QED BY <1>4, <1>10, <2>1, <3>1 DEF MadeOf
  <2>2. CASE ~(l <= Len(s)) /\ k <= Len(s)
    <3>0. PICK p \in 1..m-1 : \E o \in 1..Len(ss[p]) : s[k] = ss[p][o]
      BY <1>4, <2>2 DEF MadeOf, InPieces
    <3>1. PICK o \in 1..Len(ss[p]) : s[k] = ss[p][o]
      BY <3>0
    <3>2. p \in 1..Len(ss) /\ p < m
      BY <1>1
    <3>3. l - Len(s) \in 1..Len(ss[m])
      BY <1>5, <2>2
    <3>4. <<ss[p][o], ss[m][l - Len(s)]>> \in Rel
      BY <1>1, <3>2, <3>3 DEF InOrderBy
    <3>5. QED BY <1>4, <1>5, <2>2, <3>1, <3>4
  <2>3. CASE ~(l <= Len(s)) /\ ~(k <= Len(s))
    <3>1. l - Len(s) \in 1..Len(ss[m]) /\ k - Len(s) \in 1..Len(ss[m])
      BY <1>5, <2>3
    <3>2. k - Len(s) < l - Len(s)
      BY <1>2, <1>3, <1>10
    <3>3. <<ss[m][k - Len(s)], ss[m][l - Len(s)]>> \in Rel
      BY <1>1, <3>1, <3>2 DEF InOrderBy
    <3>4. QED BY <1>5, <2>3, <3>3
  <2>4. QED BY <2>1, <2>2, <2>3
<1>11. MadeOf(new, ss, m, Rel)
  BY <1>8, <1>9, <1>10 DEF MadeOf
<1>12. QED BY <1>3, <1>11 DEF new

\* The pieces of a sequence of sequences that are in order, put together, are in
\* order, and nothing is left out or added.
LEMMA FlattenIs ==
  ASSUME NEW Elem, NEW ss \in Seq(Seq(Elem)), NEW Rel, InOrderBy(ss, Rel)
  PROVE  FlattenSeq(ss) \in Seq(Elem) /\ MadeOf(FlattenSeq(ss), ss, Len(ss), Rel)
<1> DEFINE m == Len(ss)
           Is(f) == f = [z \in 1..Len(ss) |-> IF z = 1 THEN ss[z] ELSE f[z - 1] \o ss[z]]
           g == CHOOSE f : Is(f)
<1>1. m \in Nat /\ \A z \in 1..m : ss[z] \in Seq(Elem)
  OBVIOUS
<1>2. CASE m = 0
  <2>1. FlattenSeq(ss) = ss /\ ss = <<>>
    BY <1>2 DEF FlattenSeq
  <2>2. FlattenSeq(ss) \in Seq(Elem) /\ Len(FlattenSeq(ss)) = 0
    BY <2>1
  <2>3. \A k \in 1..0 : FALSE
    OBVIOUS
  <2>4. QED BY <1>2, <2>2, <2>3 DEF MadeOf
<1>3. CASE m # 0
  <2>1. m \in 1..Len(ss)
    BY <1>1, <1>3
  <2>2. PICK f \in [1..m -> Seq(Elem)] : f[1] = ss[1] /\ \A z \in 2..m : f[z] = f[z - 1] \o ss[z]
    <3> HIDE DEF m
    <3>1. QED BY <2>1, Together
  <2>3. \A z \in 1..m : z # 1 => z \in 2..m
    BY <1>1
  <2>4. Is(f)
    <3>1. \A z \in 1..m : f[z] = IF z = 1 THEN ss[z] ELSE f[z - 1] \o ss[z]
      BY <2>2, <2>3
    <3>2. f = [z \in 1..m |-> f[z]]
      BY <2>2
    <3> HIDE DEF m
    <3>3. f = [z \in 1..m |-> IF z = 1 THEN ss[z] ELSE f[z - 1] \o ss[z]]
      BY <3>1, <3>2
    <3>4. QED BY <3>3 DEF m
  <2>5. Is(g)
    BY <2>4
  <2>6. FlattenSeq(ss) = g[m]
    BY <1>3 DEF FlattenSeq
  <2> HIDE DEF g
  <2>7. \A z \in 1..m : g[z] = IF z = 1 THEN ss[z] ELSE g[z - 1] \o ss[z]
    BY <2>5
  <2> DEFINE Good(z) == g[z] \in Seq(Elem) /\ MadeOf(g[z], ss, z, Rel)
             Bad == {z \in 1..m : ~Good(z)}
  <2>8. Bad = {}
    <3>1. SUFFICES ASSUME Bad # {} PROVE FALSE
      OBVIOUS
    <3>2. PICK j \in Bad : \A v \in Bad : j <= v
      <4>1. Bad \in SUBSET Nat
        OBVIOUS
      <4> HIDE DEF Bad
      <4>2. QED BY <3>1, <4>1, LeastExists
    <3>3. j \in 1..m /\ ~Good(j)
      BY <3>2
    <3>4. CASE j = 1
      <4>1. g[1] = ss[1] /\ ss[1] \in Seq(Elem) /\ 1 \in 1..m /\ 1 \in 1..1
        BY <1>1, <2>1, <2>7
      <4>2. \A p \in 1..1 : p = 1
        OBVIOUS
      <4>3. \A k \in 1..Len(ss[1]), l \in 1..Len(ss[1]) : k < l => <<ss[1][k], ss[1][l]>> \in Rel
        BY <4>1 DEF InOrderBy
      <4>4. MadeOf(ss[1], ss, 1, Rel)
        BY <4>1, <4>2, <4>3 DEF MadeOf, InPieces
      <4>5. QED BY <3>3, <3>4, <4>1, <4>4
    <3>5. CASE j # 1
      <4>1. j \in 2..Len(ss) /\ j - 1 \in 1..m /\ j - 1 < j
        BY <1>1, <3>3, <3>5
      <4>2. Good(j - 1)
        BY <3>2, <3>3, <4>1
      <4>3. g[j] = g[j - 1] \o ss[j]
        BY <2>7, <3>3, <3>5
      <4>4. QED BY <3>3, <4>1, <4>2, <4>3, OnePieceMore
    <3>6. QED BY <3>4, <3>5
  <2>9. Good(m)
    BY <2>1, <2>8
  <2>10. QED BY <2>6, <2>9
<1>4. QED BY <1>2, <1>3

\* What buffers, lists and queues hold: records, entries and messages.
Recs == [type : {"link", "addr"}, name : K!Ifs, up : BOOLEAN, addr : 0..MaxAddrs]
Ents == [name : 0..NIfs, of : 0..NIfs, addr : 0..MaxAddrs, alias : BOOLEAN, index : 0..NIfs]
Msgs == [pid : {"me", "other"}, type : {"asked", "told"}, seq : Nat]

ByInterfaces == {"ioctl", "sysctl"}

\* The types: of the kernel's table, and of all.
KTable ==
  /\ links \in BOOLEAN /\ present \in SUBSET K!Ifs /\ up \in SUBSET present
  /\ naddr \in [K!Ifs -> 0..MaxAddrs] /\ touched \in SUBSET K!Ifs

KTypeOK ==
  /\ kprog \in {"ioctl", "sysctl", "names", "lookup"} \cup K!Asking
  /\ doaliases \in BOOLEAN /\ strict \in BOOLEAN
  /\ KTable /\ (kprog # "ioctl" => links)
  /\ kpc \in {"ask", "fetch", "walk", "detail", "read", "done", "quit", "dead", "crash"}
  /\ size \in Nat /\ lastlen \in Nat /\ buf \in Seq(Recs) /\ kpos \in Nat \ {0}
  /\ lastname \in 0..NIfs /\ sdlname \in 0..NIfs /\ alias \in BOOLEAN
  /\ kprog \in ByInterfaces => klist \in Seq(Ents)
  /\ kprog \in K!Asking => klist \in Seq(Msgs)
  /\ owed \in Seq(Msgs) /\ kqueue \in Seq(Msgs) /\ dropped \in BOOLEAN

\* A record of interface n: that of the interface, whose number is 0, or that of
\* its a-th address.  The records of a listing are in the order of both.
Rec(n, a) == [type |-> IF a = 0 THEN "link" ELSE "addr", name |-> n, up |-> n \in up, addr |-> a]
Before == {p \in Recs \X Recs : \/ p[1].name < p[2].name
                                \/ p[1].name = p[2].name /\ p[1].addr < p[2].addr}
FirstOf == IF links THEN 0 ELSE 1

\* What is so of a listing for ever: it is in order, and before an address are the
\* address before it or, before the first, its interface, in the same state.
Proper(b) ==
  /\ \A j, l \in 1..Len(b) : j < l => <<b[j], b[l]>> \in Before
  /\ \A j \in 1..Len(b) : (b[j].type = "link" <=> b[j].addr = 0) /\ b[j].addr >= FirstOf
  /\ \A j \in 1..Len(b) : b[j].addr > FirstOf =>
       /\ j - 1 \in 1..Len(b) /\ b[j - 1].name = b[j].name
       /\ b[j - 1].up = b[j].up /\ b[j - 1].addr = b[j].addr - 1
  /\ \A j, l \in 1..Len(b) : b[j].name = b[l].name => b[j].up = b[l].up

\* And what is so of an interface as long as nobody touches it: the records are those
\* there are.
Copy(b) ==
  /\ \A j \in 1..Len(b) : b[j].name \notin touched =>
       b[j].name \in present /\ b[j] = Rec(b[j].name, b[j].addr) /\ b[j].addr <= naddr[b[j].name]
  /\ \A n \in present \ touched : \A a \in FirstOf .. naddr[n] :
       \E j \in 1..Len(b) : b[j] = Rec(n, a)

\* What the kernel tells of an interface that is present.
PartOf(n) ==
  (IF links THEN <<[type |-> "link", name |-> n, up |-> n \in up, addr |-> 0]>> ELSE <<>>)
  \o [k \in 1..naddr[n] |-> [type |-> "addr", name |-> n, up |-> n \in up, addr |-> k]]

\* The records of one interface: its own, if there are links, and those of its
\* addresses in their order.
LEMMA PartIs ==
  ASSUME KTable, NEW n \in K!Ifs
  PROVE  /\ PartOf(n) \in Seq(Recs) /\ Len(PartOf(n)) = naddr[n] + 1 - FirstOf
         /\ \A o \in 1..Len(PartOf(n)) : PartOf(n)[o] = Rec(n, o - 1 + FirstOf)
<1> DEFINE h == IF links THEN <<[type |-> "link", name |-> n, up |-> n \in up, addr |-> 0]>> ELSE <<>>
           t == [k \in 1..naddr[n] |-> [type |-> "addr", name |-> n, up |-> n \in up, addr |-> k]]
<1>1. naddr[n] \in 0..MaxAddrs /\ naddr[n] \in Nat /\ FirstOf \in {0, 1} /\ n \in K!Ifs /\ links \in BOOLEAN
  BY KernelAssumption DEF KTable, FirstOf
<1>2. \A a \in 0..naddr[n] : Rec(n, a) \in Recs
  BY <1>1, KernelAssumption DEF Rec, Recs
<1>3. h \in Seq(Recs) /\ Len(h) = 1 - FirstOf /\ \A o \in 1..Len(h) : o = 1 /\ FirstOf = 0 /\ h[o] = Rec(n, 0)
  <2>1. CASE links
    <3>1. Rec(n, 0) \in Recs /\ h = <<Rec(n, 0)>> /\ FirstOf = 0
      BY <1>1, <1>2, <2>1 DEF Rec, FirstOf
    <3> HIDE DEF h
    <3>2. QED BY <3>1
  <2>2. CASE ~links
    <3>1. h = <<>> /\ FirstOf = 1
      BY <2>2 DEF FirstOf
    <3> HIDE DEF h
    <3>2. h \in Seq(Recs) /\ Len(h) = 0
      BY <3>1
    <3>3. QED BY <3>1, <3>2
  <2>3. QED BY <2>1, <2>2
<1>4. t \in Seq(Recs) /\ Len(t) = naddr[n] /\ \A o \in 1..naddr[n] : t[o] = Rec(n, o)
  <2>1. \A o \in 1..naddr[n] : t[o] = Rec(n, o) /\ t[o] \in Recs
    BY <1>1, <1>2 DEF Rec
  <2>2. t \in [1..naddr[n] -> Recs]
    BY <2>1
  <2> HIDE DEF t
  <2>3. QED BY <1>1, <2>1, <2>2
<1>5. PartOf(n) = h \o t
  BY DEF PartOf
<1> HIDE DEF h, t
<1>6. /\ h \o t \in Seq(Recs) /\ Len(h \o t) = Len(h) + Len(t)
      /\ \A o \in 1..Len(h) + Len(t) : (h \o t)[o] = IF o <= Len(h) THEN h[o] ELSE t[o - Len(h)]
  BY <1>3, <1>4, ConcatProperties
<1>7. ASSUME NEW o \in 1..Len(h \o t) PROVE (h \o t)[o] = Rec(n, o - 1 + FirstOf)
  <2>1. o \in 1..Len(h) + Len(t) /\ Len(h) = 1 - FirstOf /\ Len(t) = naddr[n] /\ o \in Nat
    BY <1>1, <1>3, <1>4, <1>6, <1>7
  <2>2. CASE o <= Len(h)
    <3>1. o \in 1..Len(h)
      BY <1>1, <2>1, <2>2
    <3>2. o = 1 /\ FirstOf = 0 /\ h[o] = Rec(n, 0)
      BY <1>3, <3>1
    <3>3. o - 1 + FirstOf = 0
      BY <3>2
    <3>4. QED BY <1>6, <2>1, <2>2, <3>2, <3>3
  <2>3. CASE ~(o <= Len(h))
    <3>1. o - Len(h) \in 1..naddr[n] /\ o - Len(h) = o - 1 + FirstOf
      BY <1>1, <2>1, <2>3
    <3>2. QED BY <1>4, <1>6, <2>1, <2>3, <3>1
  <2>4. QED BY <2>2, <2>3
<1>8. Len(h \o t) = naddr[n] + 1 - FirstOf
  BY <1>1, <1>3, <1>4, <1>6
<1>9. QED BY <1>5, <1>6, <1>7, <1>8

\* The operator is the same in the instance.
LEMMA SameFlatten ==
  ASSUME NEW s
  PROVE  K!FlattenSeq(s) = FlattenSeq(s)
  BY DEF K!FlattenSeq, FlattenSeq

\* What the kernel tells.
LEMMA ListingIs ==
  ASSUME KTable
  PROVE  K!Listing \in Seq(Recs) /\ Proper(K!Listing) /\ Copy(K!Listing)
<1> DEFINE ss == [n \in K!Ifs |-> IF n \in present THEN PartOf(n) ELSE <<>>]
           L == K!Listing
<1>1. L = FlattenSeq(ss)
  <2>1. L = K!FlattenSeq(ss)
    BY DEF K!Listing, PartOf
  <2>2. QED BY <2>1, SameFlatten
<1>2. K!Ifs = 1..NIfs /\ NIfs \in Nat /\ present \in SUBSET K!Ifs /\ FirstOf \in {0, 1}
  BY KernelAssumption DEF KTable, K!Ifs, FirstOf
<1>3. \A n \in K!Ifs : naddr[n] \in 0..MaxAddrs /\ naddr[n] \in Nat
  BY KernelAssumption DEF KTable
<1>4. ss \in Seq(Seq(Recs)) /\ Len(ss) = NIfs /\ \A n \in K!Ifs : ss[n] = IF n \in present THEN PartOf(n) ELSE <<>>
  <2>1. \A n \in K!Ifs : ss[n] = IF n \in present THEN PartOf(n) ELSE <<>>
    OBVIOUS
  <2>2. \A n \in K!Ifs : ss[n] \in Seq(Recs)
    <3>1. <<>> \in Seq(Recs)
      OBVIOUS
    <3>2. QED BY <2>1, <3>1, PartIs
  <2>3. ss \in [1..NIfs -> Seq(Recs)]
    BY <1>2, <2>2
  <2> HIDE DEF ss
  <2>4. QED BY <1>2, <2>1, <2>3
<1> HIDE DEF ss, L
<1>5. \A n \in 1..Len(ss) : \A o \in 1..Len(ss[n]) :
        n \in present /\ ss[n][o] = Rec(n, o - 1 + FirstOf) /\ o - 1 + FirstOf \in FirstOf..naddr[n]
  <2>1. SUFFICES ASSUME NEW n \in 1..Len(ss), NEW o \in 1..Len(ss[n])
                 PROVE  n \in present /\ ss[n][o] = Rec(n, o - 1 + FirstOf) /\ o - 1 + FirstOf \in FirstOf..naddr[n]
    OBVIOUS
  <2>2. n \in K!Ifs
    BY <1>2, <1>4
  <2>3. n \in present
    <3>1. SUFFICES ASSUME n \notin present PROVE FALSE
      OBVIOUS
    <3>2. ss[n] = <<>>
      BY <1>4, <2>2, <3>1
    <3>3. QED BY <3>2
  <2>4. ss[n] = PartOf(n)
    BY <1>4, <2>2, <2>3
  <2>5. Len(PartOf(n)) = naddr[n] + 1 - FirstOf /\ PartOf(n)[o] = Rec(n, o - 1 + FirstOf)
    BY <2>2, <2>4, PartIs
  <2>6. o - 1 + FirstOf \in FirstOf..naddr[n]
    BY <1>2, <1>3, <2>2, <2>4, <2>5
  <2>7. QED BY <2>3, <2>4, <2>5, <2>6
<1>6. \A n \in present : \A a \in FirstOf..naddr[n] :
        n \in 1..Len(ss) /\ a + 1 - FirstOf \in 1..Len(ss[n]) /\ ss[n][a + 1 - FirstOf] = Rec(n, a)
  <2>1. SUFFICES ASSUME NEW n \in present, NEW a \in FirstOf..naddr[n]
                 PROVE  n \in 1..Len(ss) /\ a + 1 - FirstOf \in 1..Len(ss[n]) /\ ss[n][a + 1 - FirstOf] = Rec(n, a)
    OBVIOUS
  <2>2. n \in K!Ifs /\ n \in 1..Len(ss) /\ ss[n] = PartOf(n)
    BY <1>2, <1>4
  <2>3. a + 1 - FirstOf \in 1..naddr[n] + 1 - FirstOf /\ (a + 1 - FirstOf) - 1 + FirstOf = a
    BY <1>2, <1>3, <2>2
  <2>4. QED BY <2>2, <2>3, PartIs
<1>7. \A n \in present : \A a \in FirstOf..naddr[n] : Rec(n, a) \in Recs
  <2>1. SUFFICES ASSUME NEW n \in present, NEW a \in FirstOf..naddr[n] PROVE Rec(n, a) \in Recs
    OBVIOUS
  <2>2. n \in K!Ifs /\ a \in 0..MaxAddrs
    BY <1>2, <1>3, KernelAssumption
  <2>3. QED BY <2>2 DEF Rec, Recs
<1>8. InOrderBy(ss, Before)
  <2>1. SUFFICES ASSUME NEW p \in 1..Len(ss), NEW q \in 1..Len(ss), NEW o \in 1..Len(ss[p]), NEW u \in 1..Len(ss[q]),
                        p < q \/ (p = q /\ o < u)
                 PROVE  <<ss[p][o], ss[q][u]>> \in Before
    BY DEF InOrderBy
  <2> DEFINE a == o - 1 + FirstOf
             b == u - 1 + FirstOf
  <2>2. /\ p \in present /\ ss[p][o] = Rec(p, a) /\ Rec(p, a) \in Recs
        /\ q \in present /\ ss[q][u] = Rec(q, b) /\ Rec(q, b) \in Recs
    BY <1>5, <1>7
  <2>3. o < u => a < b
    BY <1>2
  <2> HIDE DEF a, b
  <2>4. Rec(p, a).name = p /\ Rec(p, a).addr = a /\ Rec(q, b).name = q /\ Rec(q, b).addr = b
    BY DEF Rec
  <2> DEFINE x == Rec(p, a)
             y == Rec(q, b)
  <2>5. x \in Recs /\ y \in Recs /\ x.name = p /\ x.addr = a /\ y.name = q /\ y.addr = b
    BY <2>2, <2>4
  <2> HIDE DEF x, y
  <2>6. x.name < y.name \/ (x.name = y.name /\ x.addr < y.addr)
    BY <2>1, <2>3, <2>5
  <2>7. <<x, y>> \in Before
    BY <2>5, <2>6 DEF Before
  <2>8. QED BY <2>2, <2>7 DEF x, y
<1>9. L \in Seq(Recs) /\ MadeOf(L, ss, Len(ss), Before)
  BY <1>1, <1>4, <1>8, FlattenIs
<1>10. Len(L) \in Nat /\ \A j \in 1..Len(L) : L[j] \in Recs
  BY <1>9
<1>11. ASSUME NEW j \in 1..Len(L)
       PROVE  /\ L[j].name \in present /\ L[j] = Rec(L[j].name, L[j].addr)
              /\ L[j].addr \in FirstOf..naddr[L[j].name]
  <2>1. PICK p \in 1..Len(ss) : \E o \in 1..Len(ss[p]) : L[j] = ss[p][o]
    BY <1>9 DEF MadeOf, InPieces
  <2>2. PICK o \in 1..Len(ss[p]) : L[j] = ss[p][o]
    BY <2>1
  <2> DEFINE a == o - 1 + FirstOf
  <2>3. p \in present /\ L[j] = Rec(p, a) /\ a \in FirstOf..naddr[p]
    BY <1>5, <2>2
  <2> HIDE DEF a
  <2>4. Rec(p, a).name = p /\ Rec(p, a).addr = a
    BY DEF Rec
  <2>5. QED BY <2>3, <2>4
<1>12. ASSUME NEW n \in present, NEW a \in FirstOf..naddr[n] PROVE \E j \in 1..Len(L) : L[j] = Rec(n, a)
  BY <1>6, <1>9 DEF MadeOf
<1>13. ASSUME NEW j \in 1..Len(L), NEW l \in 1..Len(L), j < l
       PROVE  /\ <<L[j], L[l]>> \in Before
              /\ L[j].name < L[l].name \/ (L[j].name = L[l].name /\ L[j].addr < L[l].addr)
  BY <1>9, <1>13 DEF MadeOf, Before
<1>14. Copy(L)
  BY <1>3, <1>11, <1>12, <1>2 DEF Copy
<1>15. ASSUME NEW j \in 1..Len(L)
       PROVE  (L[j].type = "link" <=> L[j].addr = 0) /\ L[j].addr >= FirstOf
  <2> DEFINE n == L[j].name
             a == L[j].addr
  <2>1. L[j] = Rec(n, a) /\ a \in FirstOf..naddr[n]
    BY <1>11
  <2> HIDE DEF n, a
  <2>2. Rec(n, a).type = (IF a = 0 THEN "link" ELSE "addr") /\ Rec(n, a).addr = a
    BY DEF Rec
  <2>3. L[j].type = (IF a = 0 THEN "link" ELSE "addr") /\ L[j].addr = a
    BY <2>1, <2>2
  <2>4. a >= FirstOf
    BY <1>2, <2>1
  <2>5. QED BY <2>3, <2>4
<1>16. ASSUME NEW j \in 1..Len(L), L[j].addr > FirstOf
       PROVE  /\ j - 1 \in 1..Len(L) /\ L[j - 1].name = L[j].name
              /\ L[j - 1].up = L[j].up /\ L[j - 1].addr = L[j].addr - 1
  <2> DEFINE n == L[j].name
             a == L[j].addr
  <2>1. n \in present /\ n \in Nat /\ L[j] = Rec(n, a) /\ a \in FirstOf..naddr[n] /\ naddr[n] \in Nat /\ a > FirstOf
    <3>1. n \in present /\ L[j] = Rec(n, a) /\ a \in FirstOf..naddr[n] /\ a > FirstOf
      BY <1>11, <1>16
    <3> HIDE DEF n, a
    <3>2. n \in 1..NIfs /\ naddr[n] \in Nat
      BY <1>2, <1>3, <3>1
    <3>3. QED BY <1>2, <3>1, <3>2
  <2>2. a - 1 \in FirstOf..naddr[n] /\ a \in Nat
    BY <1>2, <2>1
  <2>3. PICK z \in 1..Len(L) : L[z] = Rec(n, a - 1)
    BY <1>12, <2>1, <2>2
  <2>4. L[z].name = n /\ L[z].addr = a - 1 /\ L[z].up = L[j].up /\ L[j].name = n /\ L[j].addr = a
    <3>1. \A b : Rec(n, b).name = n /\ Rec(n, b).addr = b /\ Rec(n, b).up = (n \in up)
      BY DEF Rec
    <3> HIDE DEF n, a
    <3>2. QED BY <2>1, <2>3, <3>1
  <2>5. z < j
    <3>1. z \in Nat /\ j \in Nat
      BY <1>10
    <3>2. z # j
      BY <2>2, <2>4
    <3>3. ~(j < z)
      <4>1. SUFFICES ASSUME j < z PROVE FALSE
        OBVIOUS
      <4> HIDE DEF n, a
      <4>2. n < n \/ (n = n /\ a < a - 1)
        BY <1>13, <2>4, <4>1
      <4>3. QED BY <2>1, <2>2, <4>2
    <3>4. QED BY <3>1, <3>2, <3>3
  <2>6. z = j - 1
    <3>1. SUFFICES ASSUME z # j - 1 PROVE FALSE
      OBVIOUS
    <3>2. j - 1 \in 1..Len(L) /\ z < j - 1 /\ j - 1 < j
      BY <1>10, <2>5, <3>1
    <3> DEFINE m == L[j - 1].name
               b == L[j - 1].addr
    <3>3. m \in Nat /\ b \in Nat
      BY <1>2, <1>10, <3>2, KernelAssumption DEF Recs
    <3>4. (n < m \/ (n = m /\ a - 1 < b)) /\ (m < n \/ (m = n /\ b < a))
      <4>1. (L[z].name < L[j - 1].name \/ (L[z].name = L[j - 1].name /\ L[z].addr < L[j - 1].addr))
        BY <1>13, <3>2
      <4>2. (L[j - 1].name < L[j].name \/ (L[j - 1].name = L[j].name /\ L[j - 1].addr < L[j].addr))
        BY <1>13, <3>2
      <4> HIDE DEF n, a
      <4>3. QED BY <2>4, <4>1, <4>2
    <3> HIDE DEF n, a, m, b
    <3>5. QED BY <2>1, <2>2, <3>3, <3>4
  <2> HIDE DEF n, a
  <2>7. QED BY <2>3, <2>4, <2>6
<1>17. ASSUME NEW j \in 1..Len(L), NEW l \in 1..Len(L), L[j].name = L[l].name PROVE L[j].up = L[l].up
  <2>1. \A n, b : Rec(n, b).up = (n \in up)
    BY DEF Rec
  <2>2. L[j].up = (L[j].name \in up) /\ L[l].up = (L[l].name \in up)
    BY <1>11, <2>1
  <2>3. QED BY <1>17, <2>2
<1>18. Proper(L)
  BY <1>13, <1>15, <1>16, <1>17 DEF Proper
<1>19. QED BY <1>9, <1>14, <1>18 DEF L

\* A buffer that is taken is a listing, and right for what nobody touches.
Copied ==
  kprog \notin K!Asking /\ kpc \in {"walk", "detail", "done", "quit", "crash"} => Proper(buf) /\ Copy(buf)

\* The length that was told is right unless somebody has changed something.
Measured ==
  kpc = "fetch" => kprog \in {"sysctl", "names", "lookup"} /\ (touched = {} => size = Len(K!Listing))

\* SIOCGIFCONF.  The name of the last address looked at is the greatest so far.
Seen == IF kpc = "detail" THEN kpos ELSE kpos - 1
LastNamed ==
  /\ lastname = 0 \/ \E j \in 1..Seen : buf[j].addr > 0 /\ buf[j].name = lastname
  /\ \A j \in 1..Seen : buf[j].addr > 0 => buf[j].name <= lastname

\* What is listed of an address, and that it is listed.
EntryOf(e) ==
  /\ e.of = e.name /\ (e.alias <=> e.addr > 1) /\ (doaliases \/ e.addr = 1)
  /\ e.name \notin touched => e.name \in up
  /\ \E j \in 1 .. kpos - 1 : buf[j].addr > 0 /\ buf[j].name = e.name /\ buf[j].addr = e.addr
Listed ==
  /\ \A k \in 1..Len(klist) : EntryOf(klist[k])
  /\ \A k, l \in 1..Len(klist) : k < l /\ klist[k].name = klist[l].name => klist[k].addr < klist[l].addr
  /\ \A j \in 1 .. kpos - 1 :
       buf[j].addr > 0 /\ (doaliases \/ buf[j].addr = 1) /\ buf[j].name \in up \ touched =>
         \E k \in 1..Len(klist) : klist[k].name = buf[j].name /\ klist[k].addr = buf[j].addr

\* The address whose details are asked for.
Current ==
  /\ kpos <= Len(buf) /\ buf[kpos].addr > 0 /\ (alias <=> buf[kpos].addr > 1)
  /\ doaliases \/ buf[kpos].addr = 1
  /\ buf[kpos].name \notin touched => buf[kpos].name \in up

\* Each buffer is larger than what the one before has held.
Growing ==
  /\ lastlen < size /\ klist = <<>> /\ lastname = 0 /\ kpos = 1
  /\ strict /\ touched = {} /\ lastlen # 0 => Len(K!Listing) < size

IoctlInv ==
  kprog = "ioctl" =>
    /\ kpc \in {"ask", "walk", "detail", "done", "quit", "dead"}
    /\ kpc = "ask" => Growing
    /\ kpc \in {"walk", "detail", "done", "quit"} => LastNamed /\ Listed /\ kpos <= Len(buf) + 1
    /\ kpc = "detail" => Current
    /\ kpc \in {"done", "quit"} => kpos = Len(buf) + 1

\* sysctl().  An entry has the name of an interface that is up, and an address of it or
\* of one that is down.
NameOfUp(e) == e.name = 0 \/ \E j \in 1 .. kpos - 1 : buf[j].addr = 0 /\ buf[j].up /\ buf[j].name = e.name
AddrOf(e) ==
  \/ e.of = 0 /\ e.addr = 0
  \/ /\ e.of = e.name => doaliases \/ e.addr = 1
     /\ \E j \in 1 .. kpos - 1 :
          /\ buf[j].addr > 0 /\ buf[j].addr = e.addr /\ buf[j].name = e.of
          /\ buf[j].up => e.name = e.of
Gathered ==
  /\ \A k \in 1..Len(klist) : NameOfUp(klist[k]) /\ AddrOf(klist[k])
  /\ \A k, l \in 1..Len(klist) :
       k < l /\ klist[k].of = klist[l].of /\ klist[k].of # 0 => klist[k].addr < klist[l].addr
  /\ \A j \in 1 .. kpos - 1 :
       buf[j].up /\ buf[j].addr > 0 /\ (doaliases \/ buf[j].addr = 1) =>
         \E k \in 1..Len(klist) :
           klist[k].name = buf[j].name /\ klist[k].of = buf[j].name /\ klist[k].addr = buf[j].addr

\* The last entry is that of the last interface that is up.
AtLast ==
  /\ kpos > 1 /\ buf[kpos - 1].up =>
       /\ klist # <<>> /\ klist[Len(klist)].name = buf[kpos - 1].name
       /\ klist[Len(klist)].addr = 0 <=> buf[kpos - 1].addr = 0
  /\ klist = <<>> => \A j \in 1 .. kpos - 1 : ~buf[j].up

SysctlInv ==
  kprog = "sysctl" =>
    /\ kpc \in {"ask", "fetch", "walk", "done", "quit", "dead", "crash"}
    /\ kpc \in {"ask", "fetch"} => klist = <<>> /\ kpos = 1
    /\ kpc \in {"walk", "done", "quit", "crash"} => Gathered /\ AtLast /\ kpos <= Len(buf) + 1
    /\ kpc \in {"done", "quit"} => kpos = Len(buf) + 1

NamesInv ==
  kprog \in {"names", "lookup"} =>
    /\ kpc \in {"ask", "fetch", "walk", "done", "dead"}
    /\ kpc = "done" =>
         \A n : n \in {klist[k] : k \in DOMAIN klist} <=> \E j \in 1..Len(buf) : K!Sought(buf[j]) /\ buf[j].name = n

\* Requests.  The messages of a queue that are the program's own count down from
\* hi - 1 to lo.
Mine(q) == {k \in 1..Len(q) : q[k].pid = "me"}
Down(q, lo, hi) ==
  /\ {q[k].seq : k \in Mine(q)} = lo .. hi - 1
  /\ \A k, l \in Mine(q) : k < l => q[k].seq > q[l].seq

\* A dump of n associations: b are still to be read, and c to be sent.
Dumping(n, b, c) ==
  /\ Len(owed) = c /\ \A k \in 1..c : owed[k].pid = "me" /\ owed[k].seq = c - k
  /\ Down(kqueue, c, b) /\ Down(klist, b, n)

DumpInv ==
  /\ kpc = "ask" => klist = <<>> /\ owed = <<>> /\ Mine(kqueue) = {}
  /\ kpc = "read" /\ ~dropped => \E n \in 1..MaxOwn : \E b \in 0..n : \E c \in 0..b : Dumping(n, b, c)
  /\ kpc = "done" => dropped \/ klist[Len(klist)].pid = "other" \/ \E n \in 1..MaxOwn : Down(klist, 0, n)

AsksInv ==
  kprog \in K!Asking =>
    /\ kpc \in {"ask", "read", "done", "dead"}
    /\ kprog # "dump" => IF kpc = "done" THEN Len(klist) = 1 /\ klist[1].pid = "me" ELSE klist = <<>>
    /\ kprog = "dump" => DumpInv

KInv == KTypeOK /\ K!DiesOf /\ Copied /\ Measured /\ IoctlInv /\ SysctlInv /\ NamesInv /\ AsksInv

\* The invariants of the other programs are about other programs.
LEMMA OfOthers ==
  ASSUME kprog' = kprog
  PROVE  /\ kprog \in {"ioctl"} => SysctlInv' /\ NamesInv' /\ AsksInv'
         /\ kprog = "sysctl" => IoctlInv' /\ NamesInv' /\ AsksInv'
         /\ kprog \in {"names", "lookup"} => IoctlInv' /\ SysctlInv' /\ AsksInv'
         /\ kprog \in K!Asking => IoctlInv' /\ SysctlInv' /\ NamesInv' /\ Copied'
  BY DEF IoctlInv, SysctlInv, NamesInv, AsksInv, Copied, K!Asking

\* What the kernel does not change stays what it is.
LEMMA KernelRests ==
  ASSUME UNCHANGED <<links, present, up, naddr>>
  PROVE  K!Listing' = K!Listing /\ FirstOf' = FirstOf /\ \A n, a : Rec(n, a)' = Rec(n, a)
  BY DEF K!Listing, FirstOf, Rec

\* A buffer stays right as long as nothing changes,
LEMMA CopyRests ==
  ASSUME Proper(buf), Copy(buf), UNCHANGED <<links, present, up, naddr, touched, buf>>
  PROVE  Proper(buf)' /\ Copy(buf)'
<1>1. FirstOf' = FirstOf /\ \A n, a : Rec(n, a)' = Rec(n, a)
  BY KernelRests
<1>2. QED BY <1>1 DEF Proper, Copy

\* is right when it has just been filled,
LEMMA CopyOfListing ==
  ASSUME KTable, UNCHANGED <<links, present, up, naddr, touched>>, buf' = K!Listing
  PROVE  buf' \in Seq(Recs) /\ Proper(buf)' /\ Copy(buf)'
<1> DEFINE L == K!Listing
<1>1. L \in Seq(Recs) /\ Proper(L) /\ Copy(L) /\ buf' = L
  BY ListingIs
<1>2. FirstOf' = FirstOf /\ \A n, a : Rec(n, a)' = Rec(n, a)
  BY KernelRests
<1> HIDE DEF L
<1>3. Proper(buf)'
  BY <1>1, <1>2 DEF Proper
<1>4. Copy(buf)'
  BY <1>1, <1>2 DEF Copy
<1>5. QED BY <1>1, <1>3, <1>4

\* The invariant holds when a program starts.
LEMMA KInitInv ==
  ASSUME K!Init
  PROVE  KInv
<1>1. KTypeOK
  <2>1. present \in SUBSET K!Ifs /\ up \in SUBSET present /\ naddr \in [K!Ifs -> 0..MaxAddrs]
    <3>1. CASE kprog \in K!Asking
      <4>1. present = {} /\ up = {} /\ naddr = [n \in K!Ifs |-> 0]
        BY <3>1 DEF K!Init
      <4>2. [n \in K!Ifs |-> 0] \in [K!Ifs -> 0..MaxAddrs]
        BY KernelAssumption
      <4>3. QED BY <4>1, <4>2
    <3>2. CASE kprog \notin K!Asking
      BY <3>2 DEF K!Init
    <3>3. QED BY <3>1, <3>2
  <2>2. /\ kprog \in {"ioctl", "sysctl", "names", "lookup"} \cup K!Asking
        /\ doaliases \in BOOLEAN /\ strict \in BOOLEAN /\ links \in BOOLEAN /\ (kprog # "ioctl" => links)
    BY DEF K!Init
  <2>3. kpc = "ask" /\ size = First /\ lastlen = 0 /\ buf = <<>> /\ kpos = 1
    BY DEF K!Init
  <2>4. lastname = 0 /\ sdlname = 0 /\ alias = FALSE /\ klist = <<>> /\ touched = {}
    BY DEF K!Init
  <2>5. owed = <<>> /\ kqueue = <<>> /\ dropped = FALSE
    BY DEF K!Init
  <2>6. <<>> \in Seq(Ents) /\ <<>> \in Seq(Msgs) /\ <<>> \in Seq(Recs)
    OBVIOUS
  <2>7. First \in Nat /\ 0 \in 0..NIfs
    BY KernelAssumption
  <2>8. KTable
    BY <2>1, <2>2, <2>4 DEF KTable
  <2>9. /\ size \in Nat /\ lastlen \in Nat /\ kpos \in Nat \ {0}
        /\ lastname \in 0..NIfs /\ sdlname \in 0..NIfs /\ alias \in BOOLEAN
    <3>1. size \in Nat /\ lastlen \in Nat /\ kpos \in Nat \ {0}
      BY <2>3, <2>7
    <3>2. lastname \in 0..NIfs /\ sdlname \in 0..NIfs
      BY <2>4, <2>7
    <3>3. alias \in BOOLEAN
      BY <2>4, Zenon
    <3>4. QED BY <3>1, <3>2, <3>3
  <2>10. /\ buf \in Seq(Recs) /\ klist \in Seq(Ents) /\ klist \in Seq(Msgs)
         /\ owed \in Seq(Msgs) /\ kqueue \in Seq(Msgs) /\ dropped \in BOOLEAN
    BY <2>3, <2>4, <2>5, <2>6
  <2>11. kpc \in {"ask", "fetch", "walk", "detail", "read", "done", "quit", "dead", "crash"}
    BY <2>3
  <2>12. QED BY <2>2, <2>8, <2>9, <2>10, <2>11 DEF KTypeOK
<1>2. kpc = "ask" /\ klist = <<>> /\ lastname = 0 /\ kpos = 1 /\ lastlen = 0 /\ size = First /\ kqueue = <<>> /\ owed = <<>>
  BY DEF K!Init
<1>3. K!DiesOf /\ Copied /\ Measured /\ SysctlInv /\ NamesInv
  BY <1>2 DEF K!DiesOf, Copied, Measured, SysctlInv, NamesInv
<1>4. IoctlInv
  BY <1>2, KernelAssumption DEF IoctlInv, Growing
<1>5. AsksInv
  <2>1. Mine(kqueue) = {}
    <3>1. Len(kqueue) = 0 /\ \A k \in 1..0 : FALSE
      BY <1>2
    <3>2. QED BY <3>1 DEF Mine
  <2>2. QED BY <1>2, <2>1 DEF AsksInv, DumpInv
<1>6. QED BY <1>1, <1>3, <1>4, <1>5 DEF KInv

-----------------------------------------------------------------------------
\* Somebody changes something about an interface.
LEMMA ChangeOne ==
  ASSUME KTable, NEW n \in K!Ifs, K!Change(n)
  PROVE  /\ KTable' /\ touched' = touched \cup {n} /\ touched' # {}
         /\ \A m \in K!Ifs \ {n} : /\ m \in present' <=> m \in present
                                   /\ m \in up' <=> m \in up
                                   /\ naddr'[m] = naddr[m]
         /\ kprog \notin K!Asking /\ UNCHANGED <<K!options, kpc, K!walk, klist, K!socket>>
<1>1. touched' = touched \cup {n} /\ kprog \notin K!Asking /\ UNCHANGED <<K!options, kpc, K!walk, klist, K!socket>>
  BY DEF K!Change
<1>2. links' = links
  BY <1>1 DEF K!options
<1>3. ASSUME n \notin present, present' = present \cup {n}, UNCHANGED <<up, naddr>>
      PROVE  /\ KTable'
             /\ \A m \in K!Ifs \ {n} : (m \in present' <=> m \in present) /\ (m \in up' <=> m \in up) /\ naddr'[m] = naddr[m]
  BY <1>1, <1>2, <1>3 DEF KTable
<1>4. ASSUME present' = present \ {n}, up' = up \ {n}, naddr' = [naddr EXCEPT ![n] = 0]
      PROVE  /\ KTable'
             /\ \A m \in K!Ifs \ {n} : (m \in present' <=> m \in present) /\ (m \in up' <=> m \in up) /\ naddr'[m] = naddr[m]
  <2>1. 0 \in 0..MaxAddrs
    BY KernelAssumption
  <2>2. QED BY <1>1, <1>2, <1>4, <2>1 DEF KTable
<1>5. ASSUME n \in present, up' = IF n \in up THEN up \ {n} ELSE up \cup {n}, UNCHANGED <<present, naddr>>
      PROVE  /\ KTable'
             /\ \A m \in K!Ifs \ {n} : (m \in present' <=> m \in present) /\ (m \in up' <=> m \in up) /\ naddr'[m] = naddr[m]
  BY <1>1, <1>2, <1>5 DEF KTable
<1>6. ASSUME UNCHANGED <<present, up>>, NEW a \in 0..MaxAddrs, naddr' = [naddr EXCEPT ![n] = a]
      PROVE  /\ KTable'
             /\ \A m \in K!Ifs \ {n} : (m \in present' <=> m \in present) /\ (m \in up' <=> m \in up) /\ naddr'[m] = naddr[m]
  BY <1>1, <1>2, <1>6 DEF KTable
<1>7. \/ n \notin present /\ present' = present \cup {n} /\ UNCHANGED <<up, naddr>>
      \/ present' = present \ {n} /\ up' = up \ {n} /\ naddr' = [naddr EXCEPT ![n] = 0]
      \/ n \in present /\ up' = (IF n \in up THEN up \ {n} ELSE up \cup {n}) /\ UNCHANGED <<present, naddr>>
      \/ UNCHANGED <<present, up>> /\ \E a \in 0..MaxAddrs : naddr' = [naddr EXCEPT ![n] = a]
  BY DEF K!Change
<1>8. QED BY <1>1, <1>3, <1>4, <1>5, <1>6, <1>7

\* and stays right for the other interfaces when one changes.
LEMMA CopyChanges ==
  ASSUME KTypeOK, NEW n \in K!Ifs, K!Change(n), Proper(buf), Copy(buf)
  PROVE  Proper(buf)' /\ Copy(buf)'
<1>1. /\ touched' = touched \cup {n} /\ KTable /\ KTable' /\ links' = links /\ buf' = buf
      /\ \A m \in K!Ifs \ {n} : (m \in present' <=> m \in present) /\ (m \in up' <=> m \in up) /\ naddr'[m] = naddr[m]
  BY ChangeOne DEF KTypeOK, K!options, K!walk
<1>2. FirstOf' = FirstOf
  BY <1>1 DEF FirstOf
<1>3. ASSUME NEW m \in K!Ifs \ {n}, NEW a PROVE Rec(m, a)' = Rec(m, a)
  BY <1>1 DEF Rec
<1>4. Proper(buf)'
  BY <1>1, <1>2 DEF Proper
<1>5. ASSUME NEW j \in 1..Len(buf), buf[j].name \notin touched'
      PROVE  buf[j].name \in present' /\ buf[j] = Rec(buf[j].name, buf[j].addr)' /\ buf[j].addr <= naddr'[buf[j].name]
  <2>1. buf[j].name \in K!Ifs
    <3>1. buf[j] \in Recs
      BY DEF KTypeOK
    <3>2. QED BY <3>1 DEF Recs
  <2>2. buf[j].name \notin touched /\ buf[j].name # n
    BY <1>1, <1>5
  <2>3. buf[j].name \in present /\ buf[j] = Rec(buf[j].name, buf[j].addr) /\ buf[j].addr <= naddr[buf[j].name]
    BY <2>2 DEF Copy
  <2>4. QED BY <1>1, <1>3, <2>1, <2>2, <2>3
<1>6. ASSUME NEW m \in present' \ touched', NEW a \in FirstOf .. naddr'[m] PROVE \E j \in 1..Len(buf) : buf[j] = Rec(m, a)'
  <2>1. m \in K!Ifs \ {n} /\ m \in present \ touched /\ a \in FirstOf .. naddr[m]
    BY <1>1 DEF KTable
  <2>2. PICK j \in 1..Len(buf) : buf[j] = Rec(m, a)
    BY <2>1 DEF Copy
  <2>3. QED BY <1>3, <2>1, <2>2
<1>7. Copy(buf)'
  <2>1. \A j \in 1..Len(buf) : buf[j].name \notin touched' =>
          buf[j].name \in present' /\ buf[j] = Rec(buf[j].name, buf[j].addr)' /\ buf[j].addr <= naddr'[buf[j].name]
    BY <1>5
  <2>2. \A m \in present' \ touched' : \A a \in FirstOf .. naddr'[m] : \E j \in 1..Len(buf) : buf[j] = Rec(m, a)'
    BY <1>6
  <2>3. QED BY <1>1, <1>2, <2>1, <2>2 DEF Copy
<1>8. QED BY <1>4, <1>7

\* A change keeps the invariant.
LEMMA KChangeInv ==
  ASSUME KInv, NEW n \in K!Ifs, K!Change(n)
  PROVE  KInv'
<1>1. KTypeOK
  BY DEF KInv
<1>2. /\ touched' = touched \cup {n} /\ touched' # {} /\ KTable /\ KTable'
      /\ \A m \in K!Ifs \ {n} : (m \in up' <=> m \in up)
      /\ kprog \notin K!Asking
  BY <1>1, ChangeOne DEF KTypeOK
<1>3. /\ UNCHANGED <<kprog, doaliases, links, strict, wanted>> /\ kpc' = kpc /\ klist' = klist
      /\ UNCHANGED <<size, lastlen, buf, kpos, lastname, sdlname, alias>>
      /\ UNCHANGED <<owed, kqueue, dropped>>
  BY <1>1, ChangeOne DEF KTypeOK, K!options, K!walk, K!socket
<1>4. KTypeOK'
  BY <1>1, <1>2, <1>3 DEF KTypeOK
<1>5. K!DiesOf'
  <2>1. kpc \in {"ask", "fetch", "walk", "detail"}
    BY DEF K!Change
  <2>2. QED BY <1>3, <2>1 DEF K!DiesOf
<1>6. Copied'
  <2>1. SUFFICES ASSUME kpc \in {"walk", "detail", "done", "quit", "crash"} PROVE Proper(buf)' /\ Copy(buf)'
    BY <1>3 DEF Copied
  <2>2. Proper(buf) /\ Copy(buf)
    BY <1>2, <2>1 DEF KInv, Copied
  <2>3. QED BY <1>1, <2>2, CopyChanges
<1>7. Measured'
  BY <1>2, <1>3 DEF KInv, Measured
<1>8. NamesInv' /\ AsksInv'
  <2>1. AsksInv'
    BY <1>2, <1>3 DEF AsksInv
  <2>2. \A j : K!Sought(buf[j])' = K!Sought(buf[j])
    BY <1>3 DEF K!Sought
  <2>3. NamesInv
    BY DEF KInv
  <2>4. NamesInv'
    BY <1>3, <2>2, <2>3 DEF NamesInv
  <2>5. QED BY <2>1, <2>4
<1>9. SysctlInv'
  <2>1. SysctlInv
    BY DEF KInv
  <2>2. Gathered' <=> Gathered
    BY <1>3 DEF Gathered, NameOfUp, AddrOf
  <2>3. AtLast' <=> AtLast
    BY <1>3 DEF AtLast
  <2>4. QED BY <1>3, <2>1, <2>2, <2>3 DEF SysctlInv
<1>10. IoctlInv'
  <2>1. SUFFICES ASSUME kprog = "ioctl" PROVE IoctlInv'
    BY <1>3 DEF IoctlInv
  <2>2. IoctlInv
    BY DEF KInv
  <2>3. kpc = "ask" => Growing'
    BY <1>2, <1>3, <2>1, <2>2 DEF IoctlInv, Growing
  <2>4. LastNamed' <=> LastNamed
    BY <1>3 DEF LastNamed, Seen
  <2>5. ASSUME NEW m, m \notin touched', m \in K!Ifs PROVE m \notin touched /\ (m \in up' <=> m \in up)
    BY <1>2, <2>5
  <2>6. Current /\ kpc = "detail" => Current'
    <3>1. SUFFICES ASSUME Current PROVE Current'
      OBVIOUS
    <3>2. buf[kpos].name \in K!Ifs
      <4>1. kpos \in 1..Len(buf)
        BY <1>1, <3>1 DEF Current, KTypeOK
      <4>2. buf[kpos] \in Recs
        BY <1>1, <4>1 DEF KTypeOK
      <4>3. QED BY <4>2 DEF Recs
    <3>3. QED BY <1>3, <2>5, <3>1, <3>2 DEF Current
  <2>7. Listed => Listed'
    <3>1. SUFFICES ASSUME Listed PROVE Listed'
      OBVIOUS
    <3>2. klist \in Seq(Ents)
      BY <1>1, <2>1 DEF KTypeOK, ByInterfaces
    <3>3. ASSUME NEW k \in 1..Len(klist) PROVE EntryOf(klist[k])'
      <4>1. EntryOf(klist[k])
        BY <3>1 DEF Listed
      <4>2. klist[k].name \notin touched' => klist[k].name \in up'
        <5>1. SUFFICES ASSUME klist[k].name \notin touched' PROVE klist[k].name \in up'
          OBVIOUS
        <5>2. klist[k].name \in up
          BY <1>2, <4>1, <5>1 DEF EntryOf
        <5>3. QED BY <1>2, <2>5, <5>1, <5>2 DEF KTable
      <4>3. QED BY <1>3, <4>1, <4>2 DEF EntryOf
    <3>4. \A m \in up' \ touched' : m \in up \ touched
      BY <1>2, <2>5 DEF KTable
    <3>5. QED BY <1>3, <3>1, <3>3, <3>4 DEF Listed
  <2>8. QED BY <1>3, <2>2, <2>3, <2>4, <2>6, <2>7 DEF IoctlInv
<1>11. QED BY <1>4, <1>5, <1>6, <1>7, <1>8, <1>9, <1>10 DEF KInv

-----------------------------------------------------------------------------
\* SIOCGIFCONF.  When a call stores no more than the last, that is everything.
LEMMA KConf ==
  ASSUME KInv, K!Conf
  PROVE  KInv' /\ (kpc' = "walk" => buf' = K!Listing)
<1> DEFINE L == K!Listing
           n == IF Len(L) <= size THEN Len(L) ELSE size
<1>1. kprog = "ioctl" /\ kpc = "ask" /\ KTypeOK /\ KTable /\ Growing
  BY DEF KInv, KTypeOK, IoctlInv, K!Conf
<1>2. /\ UNCHANGED <<kprog, doaliases, links, strict, wanted, present, up, naddr, touched>>
      /\ UNCHANGED <<kpos, lastname, sdlname, alias, klist, owed, kqueue, dropped>>
  BY DEF K!Conf, K!options, K!kernel, K!socket
<1>3. KTable' /\ L' = L
  BY <1>1, <1>2, KernelRests DEF KTable
<1>4. L \in Seq(Recs) /\ Len(L) \in Nat
  <2>1. L \in Seq(Recs)
    BY <1>1, ListingIs
  <2>2. QED BY <2>1, QueueOf
<1>5. size \in Nat /\ lastlen \in Nat /\ More \in Nat \ {0} /\ size + More \in Nat
  BY <1>1, KernelAssumption DEF KTypeOK
<1>6. n \in Nat /\ n <= size
  BY <1>4, <1>5
<1>7. \/ /\ strict /\ Len(L) > size /\ UNCHANGED <<lastlen, buf>>
         /\ IF lastlen # 0 THEN kpc' = "dead" /\ UNCHANGED size ELSE size' = size + More /\ UNCHANGED kpc
      \/ ~(strict /\ Len(L) > size) /\ n = lastlen /\ kpc' = "walk" /\ buf' = SubSeq(L, 1, n) /\ UNCHANGED <<size, lastlen>>
      \/ ~(strict /\ Len(L) > size) /\ lastlen' = n /\ size' = size + More /\ UNCHANGED <<kpc, buf>>
  BY DEF K!Conf
<1> HIDE DEF L
<1>8. buf \in Seq(Recs) /\ klist \in Seq(Ents) /\ klist = <<>> /\ kpos = 1 /\ lastname = 0 /\ lastlen < size
  BY <1>1 DEF KTypeOK, ByInterfaces, Growing
<1>9. ASSUME kpc' \in {"ask", "walk", "dead"}, size' \in Nat, lastlen' \in Nat, buf' \in Seq(Recs)
      PROVE  KTypeOK' /\ Measured' /\ SysctlInv' /\ NamesInv' /\ AsksInv'
  <2>1. KTypeOK'
    BY <1>1, <1>2, <1>3, <1>9 DEF KTypeOK
  <2>2. Measured'
    BY <1>9 DEF Measured
  <2>3. SysctlInv' /\ NamesInv' /\ AsksInv'
    BY <1>1, <1>2, OfOthers
  <2>4. QED BY <2>1, <2>2, <2>3
<1>10. CASE /\ strict /\ Len(L) > size /\ UNCHANGED <<lastlen, buf, size>> /\ lastlen # 0 /\ kpc' = "dead"
  <2>1. touched # {}
    BY <1>1, <1>4, <1>5, <1>10 DEF Growing, L
  <2>2. K!DiesOf'
    BY <1>2, <1>10, <2>1 DEF K!DiesOf
  <2>3. Copied' /\ IoctlInv'
    BY <1>10 DEF Copied, IoctlInv
  <2>4. QED BY <1>5, <1>8, <1>9, <1>10, <2>2, <2>3 DEF KInv
<1>11. CASE strict /\ Len(L) > size /\ UNCHANGED <<lastlen, buf>> /\ lastlen = 0 /\ size' = size + More /\ UNCHANGED kpc
  <2>1. K!DiesOf' /\ Copied'
    BY <1>1, <1>11 DEF K!DiesOf, Copied
  <2>2. Growing'
    BY <1>2, <1>5, <1>8, <1>11 DEF Growing
  <2>3. IoctlInv'
    BY <1>1, <1>11, <2>2 DEF IoctlInv
  <2>4. QED BY <1>1, <1>5, <1>8, <1>9, <1>11, <2>1, <2>3 DEF KInv
<1>12. CASE ~(strict /\ Len(L) > size) /\ n = lastlen /\ kpc' = "walk" /\ buf' = SubSeq(L, 1, n) /\ UNCHANGED <<size, lastlen>>
  <2>1. n = Len(L)
    BY <1>4, <1>5, <1>8, <1>12
  <2>2. buf' = L
    BY <1>4, <1>12, <2>1
  <2>3. buf' \in Seq(Recs) /\ Proper(buf)' /\ Copy(buf)'
    BY <1>1, <1>2, <2>2, CopyOfListing DEF L
  <2>4. K!DiesOf' /\ Copied'
    BY <1>12, <2>3 DEF K!DiesOf, Copied
  <2>5. kpos' = 1 /\ lastname' = 0 /\ klist' = <<>> /\ Len(klist') = 0 /\ 1 .. kpos' - 1 = {}
    BY <1>2, <1>8
  <2>6. LastNamed'
    BY <1>12, <2>5 DEF LastNamed, Seen
  <2>7. Listed'
    BY <2>5 DEF Listed
  <2>8. kpos' <= Len(buf') + 1
    <3>1. Len(buf') \in Nat
      BY <1>4, <2>2
    <3>2. QED BY <2>5, <3>1
  <2>9. IoctlInv'
    BY <1>12, <2>6, <2>7, <2>8 DEF IoctlInv
  <2>10. size' \in Nat /\ lastlen' \in Nat
    BY <1>5, <1>12
  <2>11. QED BY <1>9, <1>12, <2>2, <2>3, <2>4, <2>9, <2>10 DEF KInv, L
<1>13. CASE ~(strict /\ Len(L) > size) /\ lastlen' = n /\ size' = size + More /\ UNCHANGED <<kpc, buf>>
  <2>1. K!DiesOf' /\ Copied'
    BY <1>1, <1>13 DEF K!DiesOf, Copied
  <2>2. lastlen' < size' /\ (strict => Len(L) < size')
    BY <1>4, <1>5, <1>6, <1>13
  <2>3. strict' /\ touched' = {} /\ lastlen' # 0 => Len(L') < size'
    BY <1>2, <1>3, <2>2
  <2>4. Growing'
    BY <1>2, <1>8, <2>2, <2>3 DEF Growing, L
  <2>5. IoctlInv'
    BY <1>1, <1>13, <2>4 DEF IoctlInv
  <2>6. size' \in Nat /\ lastlen' \in Nat
    BY <1>5, <1>6, <1>13
  <2>7. QED BY <1>1, <1>8, <1>9, <1>13, <2>1, <2>5, <2>6 DEF KInv
<1>14. QED BY <1>7, <1>10, <1>11, <1>12, <1>13

\* What is known of the record at kpos, and of those before it.
LEMMA RecordIs ==
  ASSUME KTypeOK, Proper(buf), Copy(buf), kpos <= Len(buf)
  PROVE  /\ kpos \in 1..Len(buf) /\ buf[kpos] \in Recs
         /\ buf[kpos].name \in K!Ifs /\ buf[kpos].name \in Nat \ {0} /\ buf[kpos].addr \in Nat
         /\ (buf[kpos].type = "link" <=> buf[kpos].addr = 0)
         /\ \A j \in 1 .. kpos - 1 :
              /\ j \in 1..Len(buf) /\ buf[j] \in Recs /\ buf[j].name \in Nat /\ buf[j].addr \in Nat
              /\ \/ buf[j].name < buf[kpos].name
                 \/ buf[j].name = buf[kpos].name /\ buf[j].addr < buf[kpos].addr
         /\ buf[kpos].addr > FirstOf =>
              /\ kpos - 1 \in 1 .. kpos - 1 /\ kpos > 1 /\ buf[kpos - 1].name = buf[kpos].name
              /\ buf[kpos - 1].up = buf[kpos].up /\ buf[kpos - 1].addr = buf[kpos].addr - 1
<1>1. kpos \in 1..Len(buf) /\ Len(buf) \in Nat /\ kpos \in Nat /\ \A j \in 1..Len(buf) : buf[j] \in Recs
  BY DEF KTypeOK
<1>2. \A j \in 1..Len(buf) : buf[j].name \in K!Ifs /\ buf[j].name \in Nat \ {0} /\ buf[j].addr \in Nat
  BY <1>1, KernelAssumption DEF Recs, K!Ifs
<1>3. ASSUME NEW j \in 1 .. kpos - 1
      PROVE  /\ j \in 1..Len(buf) /\ buf[j] \in Recs /\ buf[j].name \in Nat /\ buf[j].addr \in Nat
             /\ \/ buf[j].name < buf[kpos].name
                \/ buf[j].name = buf[kpos].name /\ buf[j].addr < buf[kpos].addr
  <2>1. j \in 1..Len(buf) /\ j < kpos
    BY <1>1
  <2>2. <<buf[j], buf[kpos]>> \in Before
    BY <1>1, <2>1 DEF Proper
  <2>3. QED BY <1>1, <1>2, <2>1, <2>2 DEF Before
<1>4. ASSUME buf[kpos].addr > FirstOf
      PROVE  /\ kpos - 1 \in 1 .. kpos - 1 /\ kpos > 1 /\ buf[kpos - 1].name = buf[kpos].name
             /\ buf[kpos - 1].up = buf[kpos].up /\ buf[kpos - 1].addr = buf[kpos].addr - 1
  <2>1. /\ kpos - 1 \in 1..Len(buf) /\ buf[kpos - 1].name = buf[kpos].name
        /\ buf[kpos - 1].up = buf[kpos].up /\ buf[kpos - 1].addr = buf[kpos].addr - 1
    BY <1>1, <1>4 DEF Proper
  <2>2. QED BY <1>1, <2>1
<1>5. buf[kpos].type = "link" <=> buf[kpos].addr = 0
  BY <1>1 DEF Proper
<1>6. QED BY <1>1, <1>2, <1>3, <1>4, <1>5

\* The last address looked at had another name, unless this one is an alias: the
\* records of an interface are together, and in the order of their numbers.
LEMMA AliasesFollow ==
  ASSUME KTypeOK, Proper(buf), Copy(buf), kpos <= Len(buf), buf[kpos].addr > 0,
         kpc = "walk", LastNamed
  PROVE  lastname = buf[kpos].name <=> buf[kpos].addr > 1
<1> DEFINE e == buf[kpos]
<1>1. e.name \in Nat \ {0} /\ e.addr \in Nat /\ FirstOf \in {0, 1}
  BY RecordIs DEF FirstOf
<1>0. ASSUME NEW j \in 1 .. kpos - 1
      PROVE  /\ buf[j].name \in Nat /\ buf[j].addr \in Nat
             /\ buf[j].name < e.name \/ (buf[j].name = e.name /\ buf[j].addr < e.addr)
  BY RecordIs
<1>2. lastname = 0 \/ \E j \in 1 .. kpos - 1 : buf[j].addr > 0 /\ buf[j].name = lastname
  BY DEF LastNamed, Seen
<1>3. \A j \in 1 .. kpos - 1 : buf[j].addr > 0 => buf[j].name <= lastname
  BY DEF LastNamed, Seen
<1>4. e.addr > FirstOf => /\ kpos - 1 \in 1 .. kpos - 1 /\ buf[kpos - 1].name = e.name
                          /\ buf[kpos - 1].addr = e.addr - 1
  BY RecordIs
<1> HIDE DEF e
<1>5. ASSUME e.addr > 1 PROVE lastname = e.name
  <2>1. e.addr > FirstOf
    BY <1>1, <1>5
  <2>2. e.name <= lastname
    <3>1. kpos - 1 \in 1 .. kpos - 1 /\ buf[kpos - 1].name = e.name /\ buf[kpos - 1].addr > 0
      BY <1>1, <1>4, <1>5, <2>1
    <3>2. QED BY <1>3, <3>1
  <2>3. lastname # 0
    BY <1>1, <2>2
  <2>4. PICK j \in 1 .. kpos - 1 : buf[j].addr > 0 /\ buf[j].name = lastname
    BY <1>2, <2>3
  <2>5. lastname \in Nat /\ lastname <= e.name
    BY <1>0, <1>1, <2>4
  <2>6. QED BY <1>1, <2>2, <2>5
<1>6. ASSUME lastname = e.name PROVE e.addr > 1
  <2>1. PICK j \in 1 .. kpos - 1 : buf[j].addr > 0 /\ buf[j].name = lastname
    BY <1>1, <1>2, <1>6
  <2>2. buf[j].addr < e.addr /\ buf[j].addr \in Nat
    <3>1. buf[j].name = e.name
      BY <1>6, <2>1
    <3>2. ~(e.name < e.name)
      BY <1>1
    <3>3. /\ buf[j].addr \in Nat
          /\ buf[j].name < e.name \/ (buf[j].name = e.name /\ buf[j].addr < e.addr)
      BY <1>0
    <3>4. QED BY <3>1, <3>2, <3>3
  <2>3. QED BY <1>1, <2>1, <2>2
<1>7. QED BY <1>5, <1>6 DEF e

\* One more record has been looked at that adds nothing to the list.
LEMMA NothingListed ==
  ASSUME KTypeOK, kpos <= Len(buf), Listed, klist' = klist, kpos' = kpos + 1,
         UNCHANGED <<buf, doaliases, touched, up>>,
         buf[kpos].addr > 0 /\ (doaliases \/ buf[kpos].addr = 1) => buf[kpos].name \notin up \ touched
  PROVE  Listed'
<1>1. kpos \in Nat /\ kpos' - 1 = kpos /\ \A j \in 1 .. kpos : j \in 1 .. kpos - 1 \/ j = kpos
  BY DEF KTypeOK
<1>2. \A j \in 1 .. kpos - 1 : j \in 1 .. kpos
  BY <1>1
<1>3. ASSUME NEW k \in 1..Len(klist) PROVE EntryOf(klist[k])'
  <2>1. EntryOf(klist[k])
    BY DEF Listed
  <2>2. QED BY <1>1, <1>2, <2>1 DEF EntryOf
<1>4. \A k, l \in 1..Len(klist) : k < l /\ klist[k].name = klist[l].name => klist[k].addr < klist[l].addr
  BY DEF Listed
<1>5. ASSUME NEW j \in 1 .. kpos,
             buf[j].addr > 0 /\ (doaliases \/ buf[j].addr = 1) /\ buf[j].name \in up \ touched
      PROVE  \E k \in 1..Len(klist) : klist[k].name = buf[j].name /\ klist[k].addr = buf[j].addr
  BY <1>1, <1>5 DEF Listed
<1>6. QED BY <1>1, <1>3, <1>4, <1>5 DEF Listed

\* One more address has been looked at.
LEMMA LastNamedNext ==
  ASSUME KTypeOK, Proper(buf), Copy(buf), kpos <= Len(buf), kpc = "walk", LastNamed,
         buf' = buf, Seen' = kpos,
         IF buf[kpos].addr > 0 THEN lastname' = buf[kpos].name ELSE lastname' = lastname
  PROVE  LastNamed'
<1> DEFINE e == buf[kpos]
<1>1. /\ kpos \in 1..Len(buf) /\ kpos \in Nat /\ e.name \in Nat \ {0} /\ e.addr \in Nat
      /\ \A j \in 1 .. kpos - 1 : buf[j].name \in Nat /\ buf[j].name <= e.name
  <2>1. kpos \in Nat
    BY DEF KTypeOK
  <2>2. QED BY <2>1, RecordIs
<1>2. Seen = kpos - 1
  BY DEF Seen
<1>3. \A j \in 1 .. kpos : j \in 1 .. kpos - 1 \/ j = kpos
  BY <1>1
<1>4. kpos \in 1 .. kpos /\ \A j \in 1 .. kpos - 1 : j \in 1 .. kpos
  BY <1>1
<1> HIDE DEF e
<1>5. CASE e.addr > 0
  <2>1. lastname' = e.name
    BY <1>5 DEF e
  <2>2. \A j \in 1 .. kpos : buf[j].name <= e.name
    BY <1>1, <1>3 DEF e
  <2>3. QED BY <1>4, <1>5, <2>1, <2>2 DEF LastNamed, e
<1>6. CASE ~(e.addr > 0)
  <2>1. lastname' = lastname
    BY <1>6 DEF e
  <2>2. QED BY <1>2, <1>3, <1>4, <1>6, <2>1 DEF LastNamed, e
<1>7. QED BY <1>5, <1>6

\* An entry is looked at: it is passed over, or its details are asked for, or the
\* program ends because the interface has gone.
LEMMA KEntry ==
  ASSUME KInv, K!Entry
  PROVE  KInv'
<1> DEFINE e == buf[kpos]
<1>1. /\ kprog = "ioctl" /\ kpc = "walk" /\ KTypeOK /\ KTable /\ kpos <= Len(buf)
      /\ Proper(buf) /\ Copy(buf) /\ LastNamed /\ Listed
  <2>1. kprog = "ioctl" /\ kpc = "walk" /\ kpos <= Len(buf)
    BY DEF K!Entry
  <2>2. KTypeOK /\ Copied /\ IoctlInv
    BY DEF KInv
  <2>3. QED BY <2>1, <2>2 DEF KTypeOK, Copied, IoctlInv, K!Asking
<1>2. /\ UNCHANGED <<kprog, doaliases, links, strict, wanted, present, up, naddr, touched>>
      /\ UNCHANGED <<size, lastlen, buf, klist, owed, kqueue, dropped>>
  BY DEF K!Entry, K!options, K!kernel, K!socket
<1>3. KTable' /\ Proper(buf)' /\ Copy(buf)'
  BY <1>1, <1>2, CopyRests DEF KTable
<1>4. /\ kpos \in 1..Len(buf) /\ e.name \in K!Ifs /\ e.name \in Nat /\ e.addr \in Nat
      /\ e.type = "link" <=> e.addr = 0
  BY <1>1, RecordIs
<1>5. kpos \in Nat \ {0} /\ Len(buf) \in Nat /\ lastname \in 0..NIfs /\ sdlname \in 0..NIfs /\ alias \in BOOLEAN
  BY <1>1, <1>4 DEF KTypeOK
<1>6. e.name \in 0..NIfs
  BY <1>4, KernelAssumption DEF K!Ifs
<1>7. e.addr > 0 => (lastname = e.name <=> e.addr > 1)
  BY <1>1, AliasesFollow
<1>8. e.name \notin touched => e.name \in present /\ e.addr <= naddr[e.name]
  BY <1>1, <1>4 DEF Copy
<1>9. \/ e.addr = 0 /\ sdlname' = e.name /\ kpos' = kpos + 1 /\ UNCHANGED <<kpc, lastname, alias>>
      \/ /\ e.addr > 0 /\ sdlname' = sdlname /\ lastname = e.name /\ ~doaliases
         /\ kpos' = kpos + 1 /\ UNCHANGED <<kpc, lastname, alias>>
      \/ /\ e.addr > 0 /\ sdlname' = sdlname /\ ~(lastname = e.name /\ ~doaliases)
         /\ lastname' = e.name /\ alias' = (lastname = e.name)
         /\ \/ e.name \notin present /\ kpc' = "dead" /\ UNCHANGED kpos
            \/ e.name \in present \ up /\ kpos' = kpos + 1 /\ UNCHANGED kpc
            \/ e.name \in up /\ kpc' = "detail" /\ UNCHANGED kpos
  <2>1. e.addr = 0 \/ e.addr > 0
    BY <1>4
  <2> HIDE DEF e
  <2>2. \/ e.type = "link" /\ sdlname' = e.name /\ kpos' = kpos + 1 /\ UNCHANGED <<kpc, lastname, alias>>
        \/ /\ e.type # "link" /\ sdlname' = sdlname /\ lastname = e.name /\ ~doaliases
           /\ kpos' = kpos + 1 /\ UNCHANGED <<kpc, lastname, alias>>
        \/ /\ e.type # "link" /\ sdlname' = sdlname /\ ~(lastname = e.name /\ ~doaliases)
           /\ lastname' = e.name /\ alias' = (lastname = e.name)
           /\ \/ e.name \notin present /\ kpc' = "dead" /\ UNCHANGED kpos
              \/ e.name \in present \ up /\ kpos' = kpos + 1 /\ UNCHANGED kpc
              \/ e.name \in up /\ kpc' = "detail" /\ UNCHANGED kpos
    BY DEF K!Entry, e
  <2>3. QED BY <1>4, <2>1, <2>2
<1> HIDE DEF e
<1>10. SysctlInv' /\ NamesInv' /\ AsksInv'
  BY <1>1, <1>2, OfOthers
<1>11. ASSUME sdlname' \in 0..NIfs, lastname' \in 0..NIfs, alias' \in BOOLEAN, kpos' \in Nat \ {0},
              kpc' \in {"walk", "dead", "detail"}, K!DiesOf', IoctlInv'
       PROVE  KInv'
  <2>1. KTypeOK'
    BY <1>1, <1>2, <1>3, <1>11 DEF KTypeOK
  <2>2. Copied' /\ Measured'
    BY <1>3, <1>11 DEF Copied, Measured
  <2>3. QED BY <1>10, <1>11, <2>1, <2>2 DEF KInv
<1>12. kpos + 1 \in Nat \ {0} /\ kpos + 1 - 1 = kpos /\ kpos + 1 <= Len(buf) + 1 /\ kpos <= Len(buf) + 1
  BY <1>1, <1>5
<1>13. ASSUME kpc' = "walk", kpos' = kpos + 1, sdlname' \in 0..NIfs, alias' \in BOOLEAN,
              IF e.addr > 0 THEN lastname' = e.name ELSE lastname' = lastname,
              e.addr > 0 /\ (doaliases \/ e.addr = 1) => e.name \notin up \ touched
       PROVE  KInv'
  <2>1. Seen' = kpos
    <3>1. Seen' = kpos' - 1
      BY <1>13 DEF Seen
    <3>2. kpos' - 1 = kpos
      BY <1>5, <1>13
    <3>3. QED BY <3>1, <3>2
  <2>2. LastNamed'
    BY <1>1, <1>2, <1>13, <2>1, LastNamedNext DEF e
  <2>3. Listed'
    BY <1>1, <1>2, <1>13, NothingListed DEF e
  <2>4. IoctlInv'
    BY <1>2, <1>12, <1>13, <2>2, <2>3 DEF IoctlInv
  <2>5. K!DiesOf'
    BY <1>13 DEF K!DiesOf
  <2>6. lastname' \in 0..NIfs
    BY <1>5, <1>6, <1>13
  <2>7. QED BY <1>11, <1>12, <1>13, <2>4, <2>5, <2>6
<1>14. CASE e.addr = 0 /\ sdlname' = e.name /\ kpos' = kpos + 1 /\ UNCHANGED <<kpc, lastname, alias>>
  BY <1>1, <1>5, <1>6, <1>13, <1>14
<1>15. CASE /\ e.addr > 0 /\ sdlname' = sdlname /\ lastname = e.name /\ ~doaliases
            /\ kpos' = kpos + 1 /\ UNCHANGED <<kpc, lastname, alias>>
  <2>1. ~(doaliases \/ e.addr = 1)
    BY <1>7, <1>15
  <2>2. QED BY <1>1, <1>5, <1>13, <1>15, <2>1
<1>16. CASE /\ e.addr > 0 /\ sdlname' = sdlname /\ ~(lastname = e.name /\ ~doaliases)
            /\ lastname' = e.name /\ alias' = (lastname = e.name)
  <2>0. alias' \in BOOLEAN /\ (alias' <=> e.addr > 1) /\ (doaliases \/ e.addr = 1)
    <3>1. alias' \in BOOLEAN /\ (alias' <=> lastname = e.name)
      BY <1>16
    <3>2. QED BY <1>4, <1>7, <1>16, <3>1
  <2>1. CASE e.name \notin present /\ kpc' = "dead" /\ UNCHANGED kpos
    <3>1. e.name \in touched
      BY <1>8, <2>1
    <3>2. K!DiesOf'
      BY <1>2, <2>1, <3>1 DEF K!DiesOf
    <3>3. IoctlInv'
      BY <2>1 DEF IoctlInv
    <3>4. QED BY <1>5, <1>6, <1>11, <1>16, <2>0, <2>1, <3>2, <3>3
  <2>2. CASE e.name \in present \ up /\ kpos' = kpos + 1 /\ UNCHANGED kpc
    BY <1>1, <1>5, <1>13, <1>16, <2>0, <2>2
  <2>3. CASE e.name \in up /\ kpc' = "detail" /\ UNCHANGED kpos
    <3>1. Seen' = kpos
      BY <2>3 DEF Seen
    <3>2. LastNamed'
      BY <1>1, <1>2, <1>16, <3>1, LastNamedNext DEF e
    <3>3. Listed'
      <4>1. \A k \in 1..Len(klist) : EntryOf(klist[k])' <=> EntryOf(klist[k])
        BY <1>2, <2>3 DEF EntryOf
      <4>2. QED BY <1>1, <1>2, <2>3, <4>1 DEF Listed
    <3>4. Current'
      BY <1>1, <1>2, <1>16, <2>0, <2>3 DEF Current, e
    <3>5. IoctlInv'
      BY <1>2, <1>12, <2>3, <3>2, <3>3, <3>4 DEF IoctlInv
    <3>6. K!DiesOf'
      BY <2>3 DEF K!DiesOf
    <3>7. QED BY <1>5, <1>6, <1>11, <1>16, <2>0, <2>3, <3>5, <3>6
  <2>4. QED BY <1>9, <1>16, <2>1, <2>2, <2>3
<1>17. QED BY <1>9, <1>14, <1>15, <1>16

\* The list with one entry more.
LEMMA OneListed ==
  ASSUME NEW Elem, NEW s \in Seq(Elem), NEW x \in Elem, NEW t, t = Append(s, x)
  PROVE  /\ t \in Seq(Elem) /\ Len(t) = Len(s) + 1 /\ Len(s) \in Nat /\ Len(t) \in 1..Len(t) /\ t # <<>>
         /\ t[Len(t)] = x /\ \A k \in 1..Len(s) : t[k] = s[k] /\ k \in 1..Len(t) /\ k < Len(t)
         /\ \A k \in 1..Len(t) : k \in 1..Len(s) \/ k = Len(t)
  OBVIOUS

\* An address is listed with its details.
LEMMA KDetail ==
  ASSUME KInv, K!Detail
  PROVE  KInv'
<1> DEFINE e == buf[kpos]
           x == [name |-> e.name, of |-> e.name, addr |-> e.addr, alias |-> alias,
                 index |-> IF sdlname = e.name THEN e.name ELSE 0]
<1>1. /\ kprog = "ioctl" /\ kpc = "detail" /\ KTypeOK /\ KTable /\ kpos <= Len(buf)
      /\ Proper(buf) /\ Copy(buf) /\ LastNamed /\ Listed /\ Current
  <2>1. kprog = "ioctl" /\ kpc = "detail"
    BY DEF K!Detail
  <2>2. KTypeOK /\ Copied /\ IoctlInv
    BY DEF KInv
  <2>3. QED BY <2>1, <2>2 DEF KTypeOK, Copied, IoctlInv, K!Asking, Current
<1>2. /\ UNCHANGED <<kprog, doaliases, links, strict, wanted, present, up, naddr, touched>>
      /\ UNCHANGED <<size, lastlen, buf, lastname, sdlname, alias, owed, kqueue, dropped>>
  BY DEF K!Detail, K!options, K!kernel, K!socket
<1>3. KTable' /\ Proper(buf)' /\ Copy(buf)'
  BY <1>1, <1>2, CopyRests DEF KTable
<1>4. /\ kpos \in 1..Len(buf) /\ e \in Recs /\ e.name \in K!Ifs /\ e.name \in Nat \ {0} /\ e.addr \in Nat
      /\ \A j \in 1 .. kpos - 1 : /\ buf[j].name \in Nat /\ buf[j].addr \in Nat
                                  /\ buf[j].name < e.name \/ (buf[j].name = e.name /\ buf[j].addr < e.addr)
  BY <1>1, RecordIs
<1>5. kpos \in Nat \ {0} /\ Len(buf) \in Nat /\ alias \in BOOLEAN /\ klist \in Seq(Ents)
  BY <1>1, <1>4 DEF KTypeOK, ByInterfaces
<1>6. e.name \notin touched => naddr[e.name] # 0
  <2>1. e.name \notin touched => e.addr <= naddr[e.name]
    BY <1>1, <1>4 DEF Copy
  <2>2. e.addr > 0
    BY <1>1 DEF Current
  <2> HIDE DEF e
  <2>3. QED BY <1>4, <2>1, <2>2
<1>7. \/ naddr[e.name] = 0 /\ kpc' = "dead" /\ UNCHANGED <<kpos, klist>>
      \/ e.name \in present /\ klist' = Append(klist, x) /\ kpc' = "walk" /\ kpos' = kpos + 1
  BY DEF K!Detail
<1>8. x \in Ents
  <2>1. e.name \in 0..NIfs /\ 0 \in 0..NIfs /\ e.addr \in 0..MaxAddrs
    BY <1>4, KernelAssumption DEF K!Ifs, Recs
  <2> HIDE DEF e
  <2>2. QED BY <1>5, <2>1 DEF Ents
<1>9. x.name = e.name /\ x.of = e.name /\ x.addr = e.addr /\ x.alias = alias
  OBVIOUS
<1>10. SysctlInv' /\ NamesInv' /\ AsksInv'
  BY <1>1, <1>2, OfOthers
<1>11. ASSUME kpos' \in Nat \ {0}, kpc' \in {"walk", "dead"}, klist' \in Seq(Ents), K!DiesOf', IoctlInv'
       PROVE  KInv'
  <2>1. KTypeOK'
    BY <1>1, <1>2, <1>3, <1>11 DEF KTypeOK, ByInterfaces, K!Asking
  <2>2. Copied' /\ Measured'
    BY <1>3, <1>11 DEF Copied, Measured
  <2>3. QED BY <1>10, <1>11, <2>1, <2>2 DEF KInv
<1>12. CASE naddr[e.name] = 0 /\ kpc' = "dead" /\ UNCHANGED <<kpos, klist>>
  <2>1. e.name \in touched
    BY <1>6, <1>12
  <2>2. K!DiesOf' /\ IoctlInv'
    BY <1>2, <1>12, <2>1 DEF K!DiesOf, IoctlInv
  <2>3. QED BY <1>5, <1>11, <1>12, <2>2
<1>13. CASE e.name \in present /\ klist' = Append(klist, x) /\ kpc' = "walk" /\ kpos' = kpos + 1
  <2> HIDE DEF x
  <2>1. /\ klist' \in Seq(Ents) /\ Len(klist') = Len(klist) + 1 /\ Len(klist) \in Nat
        /\ Len(klist') \in 1..Len(klist') /\ klist'[Len(klist')] = x
        /\ \A k \in 1..Len(klist) : klist'[k] = klist[k] /\ k \in 1..Len(klist') /\ k < Len(klist')
        /\ \A k \in 1..Len(klist') : k \in 1..Len(klist) \/ k = Len(klist')
    BY <1>5, <1>8, <1>13, OneListed
  <2>2. kpos' \in Nat \ {0} /\ kpos' - 1 = kpos /\ kpos' <= Len(buf) + 1
    BY <1>1, <1>5, <1>13
  <2>3. kpos \in 1 .. kpos /\ \A j \in 1 .. kpos : (j \in 1 .. kpos - 1 \/ j = kpos)
    BY <1>5
  <2>4. \A j \in 1 .. kpos - 1 : j \in 1 .. kpos
    BY <1>5
  <2>5. LastNamed'
    <3>1. Seen = kpos /\ Seen' = kpos
      BY <1>1, <1>13, <2>2 DEF Seen
    <3>2. QED BY <1>1, <1>2, <3>1 DEF LastNamed
  <2>6. (alias <=> e.addr > 1) /\ e.addr > 0 /\ (doaliases \/ e.addr = 1) /\ (e.name \notin touched => e.name \in up)
    BY <1>1 DEF Current
  <2>7. ASSUME NEW k \in 1..Len(klist') PROVE EntryOf(klist[k])'
    <3>1. CASE k = Len(klist')
      <4>1. klist'[k] = x
        BY <2>1, <3>1
      <4>2. /\ x.of = x.name /\ (x.alias <=> x.addr > 1) /\ (doaliases \/ x.addr = 1)
            /\ x.name \notin touched => x.name \in up
            /\ kpos \in 1 .. kpos /\ buf[kpos].addr > 0 /\ buf[kpos].name = x.name /\ buf[kpos].addr = x.addr
        BY <1>9, <2>3, <2>6
      <4>3. QED BY <1>2, <2>2, <4>1, <4>2 DEF EntryOf
    <3>2. CASE k \in 1..Len(klist)
      <4>1. EntryOf(klist[k]) /\ klist'[k] = klist[k]
        BY <1>1, <2>1, <3>2 DEF Listed
      <4>2. QED BY <1>2, <2>2, <2>4, <4>1 DEF EntryOf
    <3>3. QED BY <2>1, <3>1, <3>2
  <2>8. Listed'
    <3>1. ASSUME NEW k \in 1..Len(klist'), NEW l \in 1..Len(klist'), k < l, klist'[k].name = klist'[l].name
          PROVE  klist'[k].addr < klist'[l].addr
      <4>1. k \in 1..Len(klist)
        BY <2>1, <3>1
      <4>2. CASE l \in 1..Len(klist)
        BY <1>1, <2>1, <3>1, <4>1, <4>2 DEF Listed
      <4>3. CASE l = Len(klist')
        <5>1. klist'[l] = x /\ klist'[k] = klist[k]
          BY <2>1, <4>1, <4>3
        <5>2. EntryOf(klist[k])
          BY <1>1, <4>1 DEF Listed
        <5>3. PICK j \in 1 .. kpos - 1 : buf[j].name = klist[k].name /\ buf[j].addr = klist[k].addr
          BY <5>2 DEF EntryOf
        <5>4. buf[j].name = e.name /\ ~(e.name < e.name)
          BY <1>4, <1>9, <3>1, <5>1, <5>3
        <5>5. buf[j].addr < e.addr
          BY <1>4, <5>4
        <5>6. QED BY <1>9, <5>1, <5>3, <5>5
      <4>4. QED BY <2>1, <4>2, <4>3
    <3>2. ASSUME NEW j \in 1 .. kpos,
                 buf[j].addr > 0 /\ (doaliases \/ buf[j].addr = 1) /\ buf[j].name \in up \ touched
          PROVE  \E k \in 1..Len(klist') : klist'[k].name = buf[j].name /\ klist'[k].addr = buf[j].addr
      <4>1. CASE j = kpos
        BY <1>9, <2>1, <4>1
      <4>2. CASE j \in 1 .. kpos - 1
        <5>1. PICK k \in 1..Len(klist) : klist[k].name = buf[j].name /\ klist[k].addr = buf[j].addr
          BY <1>1, <3>2, <4>2 DEF Listed
        <5>2. QED BY <2>1, <5>1
      <4>3. QED BY <2>3, <4>1, <4>2
    <3>3. QED BY <1>2, <2>2, <2>7, <3>1, <3>2 DEF Listed
  <2>9. IoctlInv'
    BY <1>2, <1>13, <2>2, <2>5, <2>8 DEF IoctlInv
  <2>10. K!DiesOf'
    BY <1>13 DEF K!DiesOf
  <2>11. QED BY <1>11, <1>13, <2>1, <2>2, <2>9, <2>10
<1>14. QED BY <1>7, <1>12, <1>13

\* The list is complete.
LEMMA KReturn ==
  ASSUME KInv, K!Return
  PROVE  KInv'
<1>1. /\ kprog \in {"ioctl", "sysctl"} /\ kpc = "walk" /\ kpos > Len(buf) /\ kpc' \in {"quit", "done"}
      /\ KTypeOK /\ KTable /\ Copied /\ IoctlInv /\ SysctlInv
  BY DEF K!Return, KInv, KTypeOK
<1>2. /\ UNCHANGED <<kprog, doaliases, links, strict, wanted, present, up, naddr, touched>>
      /\ UNCHANGED <<size, lastlen, buf, kpos, lastname, sdlname, alias, klist, owed, kqueue, dropped>>
  BY DEF K!Return, K!options, K!kernel, K!walk, K!socket
<1>3. KTypeOK'
  <2>1. KTable'
    BY <1>1, <1>2 DEF KTable
  <2>2. QED BY <1>1, <1>2, <2>1 DEF KTypeOK
<1>4. Copied'
  <2>1. Proper(buf) /\ Copy(buf)
    BY <1>1 DEF Copied, K!Asking
  <2>2. QED BY <1>2, <2>1, CopyRests DEF Copied
<1>5. K!DiesOf' /\ Measured' /\ NamesInv' /\ AsksInv'
  BY <1>1, <1>2 DEF K!DiesOf, Measured, NamesInv, AsksInv, K!Asking
<1>6. kpos = Len(buf) + 1 \/ ~(kpos <= Len(buf) + 1)
  BY <1>1 DEF KTypeOK
<1>7. IoctlInv'
  <2>1. Seen' = Seen
    BY <1>1, <1>2 DEF Seen
  <2>2. LastNamed' <=> LastNamed
    BY <1>2, <2>1 DEF LastNamed
  <2>3. Listed' <=> Listed
    BY <1>2 DEF Listed, EntryOf
  <2>4. QED BY <1>1, <1>2, <1>6, <2>2, <2>3 DEF IoctlInv
<1>8. SysctlInv'
  <2>1. (Gathered' <=> Gathered) /\ (AtLast' <=> AtLast)
    BY <1>2 DEF Gathered, NameOfUp, AddrOf, AtLast
  <2>2. QED BY <1>1, <1>2, <1>6, <2>1 DEF SysctlInv
<1>9. QED BY <1>3, <1>4, <1>5, <1>7, <1>8 DEF KInv

\* sysctl() tells the length.
LEMMA KLength ==
  ASSUME KInv, K!Length
  PROVE  KInv'
<1>1. /\ kprog \in {"sysctl", "names", "lookup"} /\ kpc = "ask" /\ kpc' = "fetch" /\ size' = Len(K!Listing)
      /\ KTypeOK /\ KTable /\ SysctlInv
  BY DEF K!Length, KInv, KTypeOK
<1>2. /\ UNCHANGED <<kprog, doaliases, links, strict, wanted, present, up, naddr, touched>>
      /\ UNCHANGED <<lastlen, buf, kpos, lastname, sdlname, alias, klist, owed, kqueue, dropped>>
  BY DEF K!Length, K!options, K!kernel, K!socket
<1>3. K!Listing' = K!Listing
  BY <1>2, KernelRests
<1>4. KTypeOK'
  <2>1. KTable'
    BY <1>1, <1>2 DEF KTable
  <2>2. size' \in Nat
    BY <1>1, ListingIs, QueueOf
  <2>3. QED BY <1>1, <1>2, <2>1, <2>2 DEF KTypeOK
<1>5. Measured' /\ Copied' /\ K!DiesOf'
  BY <1>1, <1>2, <1>3 DEF Measured, Copied, K!DiesOf
<1>6. IoctlInv' /\ SysctlInv' /\ NamesInv' /\ AsksInv'
  BY <1>1, <1>2 DEF IoctlInv, SysctlInv, NamesInv, AsksInv, K!Asking
<1>7. QED BY <1>4, <1>5, <1>6 DEF KInv

\* The records are fetched, unless they have outgrown the buffer, which a change
\* alone can bring about.
LEMMA KFetch ==
  ASSUME KInv, K!Fetch
  PROVE  KInv'
<1>1. /\ kprog \in {"sysctl", "names", "lookup"} /\ kpc = "fetch" /\ KTypeOK /\ KTable /\ SysctlInv
      /\ touched = {} => size = Len(K!Listing)
  BY DEF K!Fetch, KInv, KTypeOK, Measured
<1>2. /\ UNCHANGED <<kprog, doaliases, links, strict, wanted, present, up, naddr, touched>>
      /\ UNCHANGED <<size, lastlen, kpos, lastname, sdlname, alias, klist, owed, kqueue, dropped>>
  BY DEF K!Fetch, K!options, K!kernel, K!socket
<1>3. KTable' /\ K!Listing \in Seq(Recs) /\ Len(K!Listing) \in Nat
  <2>1. K!Listing \in Seq(Recs)
    BY <1>1, ListingIs
  <2>2. QED BY <1>1, <1>2, <2>1, QueueOf DEF KTable
<1>4. \/ Len(K!Listing) > size /\ kpc' = "dead" /\ buf' = buf
      \/ kpc' = "walk" /\ buf' = K!Listing
  BY DEF K!Fetch
<1>5. buf' \in Seq(Recs) /\ KTypeOK'
  <2>1. buf' \in Seq(Recs)
    BY <1>1, <1>3, <1>4 DEF KTypeOK
  <2>2. QED BY <1>1, <1>2, <1>3, <1>4, <2>1 DEF KTypeOK
<1>6. Measured' /\ IoctlInv' /\ NamesInv' /\ AsksInv'
  BY <1>1, <1>2, <1>4 DEF Measured, IoctlInv, NamesInv, AsksInv, K!Asking
<1>7. K!DiesOf'
  <2>1. Len(K!Listing) > size => touched # {}
    <3>1. ~(Len(K!Listing) > Len(K!Listing))
      BY <1>3
    <3>2. QED BY <1>1, <3>1
  <2>2. QED BY <1>2, <1>4, <2>1 DEF K!DiesOf
<1>8. Copied'
  <2>1. buf' = K!Listing => Proper(buf)' /\ Copy(buf)'
    BY <1>1, <1>2, CopyOfListing
  <2>2. QED BY <1>4, <2>1 DEF Copied
<1>9. SysctlInv'
  <2>1. SUFFICES ASSUME kprog = "sysctl" PROVE SysctlInv'
    BY <1>2 DEF SysctlInv
  <2>2. klist' = <<>> /\ kpos' = 1 /\ Len(klist') = 0 /\ 1 .. kpos' - 1 = {} /\ ~(kpos' > 1)
    BY <1>1, <1>2, <2>1 DEF SysctlInv
  <2>3. Gathered' /\ AtLast'
    BY <2>2 DEF Gathered, AtLast
  <2>4. kpos' <= Len(buf') + 1
    <3>1. Len(buf') \in Nat
      BY <1>5, QueueOf
    <3>2. QED BY <2>2, <3>1
  <2>5. QED BY <1>4, <2>3, <2>4 DEF SysctlInv
<1>10. QED BY <1>5, <1>6, <1>7, <1>8, <1>9 DEF KInv

\* The last entry of the list gets an address.
LEMMA LastReplaced ==
  ASSUME NEW Elem, NEW s \in Seq(Elem), s # <<>>, NEW x \in Elem,
         NEW f, f = SubSeq(s, 1, Len(s) - 1), NEW y, y = <<x>>, NEW t, t = f \o y
  PROVE  /\ t \in Seq(Elem) /\ Len(t) = Len(s) /\ Len(s) \in Nat /\ Len(s) \in 1..Len(s) /\ t # <<>>
         /\ t[Len(s)] = x /\ \A k \in 1..Len(s) : k # Len(s) => t[k] = s[k] /\ k < Len(s)
<1>1. f = SubSeq(s, 1, Len(s) - 1)
  OBVIOUS
<1>2. Len(s) \in Nat /\ Len(s) # 0 /\ Len(s) - 1 \in Nat
  OBVIOUS
<1>3. f \in Seq(Elem) /\ Len(f) = Len(s) - 1 /\ \A k \in 1..Len(s) - 1 : f[k] = s[k]
  BY <1>1, <1>2
<1>4. y \in Seq(Elem) /\ Len(y) = 1 /\ y[1] = x
  OBVIOUS
<1>5. t = f \o y
  OBVIOUS
<1>6. /\ t \in Seq(Elem) /\ Len(t) = Len(f) + Len(y)
      /\ \A k \in 1..Len(f) + Len(y) : t[k] = IF k <= Len(f) THEN f[k] ELSE y[k - Len(f)]
  <2>1. /\ f \o y \in Seq(Elem) /\ Len(f \o y) = Len(f) + Len(y)
        /\ \A k \in 1..Len(f) + Len(y) : (f \o y)[k] = IF k <= Len(f) THEN f[k] ELSE y[k - Len(f)]
    BY <1>3, <1>4, ConcatProperties
  <2>2. QED BY <1>5, <2>1
<1>7. Len(t) = Len(s) /\ Len(s) \in 1..Len(s)
  BY <1>2, <1>3, <1>4, <1>6
<1>8. t[Len(s)] = x
  <2>1. ~(Len(s) <= Len(f)) /\ Len(s) - Len(f) = 1
    BY <1>2, <1>3
  <2>2. QED BY <1>4, <1>6, <1>7, <2>1
<1>9. ASSUME NEW k \in 1..Len(s), k # Len(s) PROVE t[k] = s[k] /\ k < Len(s)
  <2>1. k \in 1..Len(s) - 1 /\ k <= Len(f) /\ k < Len(s)
    BY <1>2, <1>3, <1>9
  <2>2. QED BY <1>3, <1>6, <1>7, <2>1
<1>10. QED BY <1>2, <1>6, <1>7, <1>8, <1>9

\* One record more has been walked over.
LEMMA KRecordNext ==
  ASSUME KTypeOK, Proper(buf), Copy(buf), kpos <= Len(buf), links
  PROVE  /\ kpos \in Nat \ {0} /\ (kpos + 1) - 1 = kpos /\ kpos + 1 \in Nat \ {0} /\ kpos + 1 > 1 /\ kpos + 1 <= Len(buf) + 1
         /\ kpos \in 1..kpos /\ \A j \in 1..kpos : j \in 1..kpos - 1 \/ j = kpos
         /\ \A j \in 1..kpos - 1 : j \in 1..kpos
         /\ FirstOf = 0
<1>1. kpos \in Nat \ {0} /\ Len(buf) \in Nat
  BY DEF KTypeOK
<1>2. QED BY <1>1 DEF FirstOf

\* What is so of an entry remains so.
LEMMA EntriesRemain ==
  ASSUME KTypeOK, NEW k, NEW l, klist'[l] = klist[k], UNCHANGED <<buf, doaliases>>, kpos' = kpos + 1,
         NameOfUp(klist[k]), AddrOf(klist[k])
  PROVE  NameOfUp(klist[l])' /\ AddrOf(klist[l])'
<1>1. kpos' - 1 = kpos /\ \A j \in 1..kpos - 1 : j \in 1..kpos
  BY DEF KTypeOK
<1>2. NameOfUp(klist[l])'
  BY <1>1 DEF NameOfUp
<1>3. AddrOf(klist[l])'
  BY <1>1 DEF AddrOf
<1>4. QED BY <1>2, <1>3

\* Of a list in which the last entry only is new or has a new address.
LEMMA GatheredNext ==
  ASSUME KTypeOK, Gathered, Proper(buf), Copy(buf), kpos <= Len(buf), links, klist \in Seq(Ents),
         UNCHANGED <<buf, doaliases>>, kpos' = kpos + 1,
         NEW x, Len(klist') \in Nat \ {0}, klist'[Len(klist')] = x,
         Len(klist') \in {Len(klist), Len(klist) + 1},
         \A k \in 1..Len(klist') : k # Len(klist') => k \in 1..Len(klist) /\ klist'[k] = klist[k],
         \* what was there is there still, but for an entry without an address
         \A k \in 1..Len(klist) : klist'[k] = klist[k] \/ klist[k].addr = 0,
         x.name = 0 \/ (\E j \in 1..kpos : buf[j].addr = 0 /\ buf[j].up /\ buf[j].name = x.name),
         \/ x.of = 0 /\ x.addr = 0 /\ buf[kpos].addr = 0
         \/ /\ x.of = buf[kpos].name /\ x.addr = buf[kpos].addr /\ buf[kpos].addr > 0
            /\ x.of = x.name => doaliases \/ x.addr = 1
            /\ buf[kpos].up => x.name = x.of
  PROVE  Gathered'
<1> DEFINE e == buf[kpos]
           m == Len(klist')
<1>1. /\ kpos \in Nat \ {0} /\ kpos' - 1 = kpos /\ kpos \in 1..kpos
      /\ \A j \in 1..kpos : j \in 1..kpos - 1 \/ j = kpos
      /\ \A j \in 1..kpos - 1 : j \in 1..kpos
  BY KRecordNext
<1>2. /\ e.name \in Nat \ {0} /\ e.addr \in Nat
      /\ \A j \in 1 .. kpos - 1 : buf[j].name \in Nat /\ buf[j].addr \in Nat
  BY RecordIs
<1>3. ASSUME NEW j \in 1 .. kpos - 1, buf[j].name = e.name PROVE buf[j].addr < e.addr
  <2>1. buf[j].name < e.name \/ (buf[j].name = e.name /\ buf[j].addr < e.addr)
    BY RecordIs
  <2>2. ~(e.name < e.name)
    BY <1>2
  <2>3. QED BY <1>3, <2>1, <2>2
<1>4. m \in Nat \ {0} /\ m \in 1..m /\ Len(klist) \in Nat
  <2>1. Len(klist) \in Nat
    BY QueueOf
  <2>2. QED BY <2>1
<1>5. ASSUME NEW k \in 1..m, k # m PROVE k \in 1..Len(klist) /\ klist'[k] = klist[k] /\ k < m
  BY <1>4, <1>5
<1>6. \A k \in 1..Len(klist) : k \in 1..m
  BY <1>4
<1> HIDE DEF e, m
<1>7. ASSUME NEW k \in 1..m PROVE NameOfUp(klist[k])' /\ AddrOf(klist[k])'
  <2>1. CASE k # m
    <3>1. k \in 1..Len(klist) /\ klist'[k] = klist[k]
      BY <1>5, <2>1
    <3>2. NameOfUp(klist[k]) /\ AddrOf(klist[k])
      BY <3>1 DEF Gathered
    <3>3. QED BY <3>1, <3>2, EntriesRemain
  <2>2. CASE k = m
    <3>1. klist'[k] = x
      BY <2>2 DEF m
    <3>2. NameOfUp(klist[k])'
      BY <1>1, <3>1 DEF NameOfUp
    <3>3. AddrOf(klist[k])'
      BY <1>1, <3>1 DEF AddrOf
    <3>4. QED BY <3>2, <3>3
  <2>3. QED BY <2>1, <2>2
<1>8. ASSUME NEW k \in 1..m, NEW l \in 1..m, k < l, klist'[k].of = klist'[l].of, klist'[k].of # 0
      PROVE  klist'[k].addr < klist'[l].addr
  <2>1. k # m
    BY <1>4, <1>8
  <2>2. k \in 1..Len(klist) /\ klist'[k] = klist[k]
    BY <1>5, <2>1
  <2>3. CASE l # m
    <3>1. l \in 1..Len(klist) /\ klist'[l] = klist[l]
      BY <1>5, <2>3
    <3>2. QED BY <1>8, <2>2, <3>1 DEF Gathered
  <2>4. CASE l = m
    <3>1. klist'[l] = x /\ x.of = e.name /\ x.addr = e.addr
      BY <1>8, <2>4 DEF e, m
    <3>2. AddrOf(klist[k])
      BY <2>2 DEF Gathered
    <3>3. PICK j \in 1 .. kpos - 1 : buf[j].addr = klist[k].addr /\ buf[j].name = klist[k].of
      BY <1>8, <2>2, <3>2 DEF AddrOf
    <3>4. buf[j].addr < e.addr
      BY <1>3, <1>8, <2>2, <3>1, <3>3
    <3>5. QED BY <2>2, <3>1, <3>3, <3>4
  <2>5. QED BY <2>3, <2>4
<1>9. ASSUME NEW j \in 1..kpos, buf[j].up /\ buf[j].addr > 0 /\ (doaliases \/ buf[j].addr = 1)
      PROVE  \E k \in 1..m : klist'[k].name = buf[j].name /\ klist'[k].of = buf[j].name /\ klist'[k].addr = buf[j].addr
  <2>1. CASE j = kpos
    <3>1. klist'[m] = x /\ x.of = e.name /\ x.addr = e.addr /\ x.name = e.name
      BY <1>9, <2>1 DEF e, m
    <3>2. QED BY <1>4, <2>1, <3>1 DEF e
  <2>2. CASE j \in 1 .. kpos - 1
    <3>1. PICK k \in 1..Len(klist) :
            klist[k].name = buf[j].name /\ klist[k].of = buf[j].name /\ klist[k].addr = buf[j].addr
      BY <1>9, <2>2 DEF Gathered
    <3>2. klist[k].addr # 0
      BY <1>2, <1>9, <2>2, <3>1
    <3>3. klist'[k] = klist[k] /\ k \in 1..m
      BY <1>6, <3>2
    <3>4. QED BY <3>1, <3>3
  <2>3. QED BY <1>1, <2>1, <2>2
<1>10. QED BY <1>1, <1>7, <1>8, <1>9 DEF Gathered, m

\* A record that adds nothing to the list.
LEMMA GatheredSame ==
  ASSUME KTypeOK, Gathered, kpos <= Len(buf), klist' = klist, UNCHANGED <<buf, doaliases>>, kpos' = kpos + 1,
         ~(buf[kpos].up /\ buf[kpos].addr > 0 /\ (doaliases \/ buf[kpos].addr = 1))
  PROVE  Gathered'
<1>1. kpos' - 1 = kpos /\ \A j \in 1..kpos : j \in 1..kpos - 1 \/ j = kpos
  BY DEF KTypeOK
<1>2. ASSUME NEW k \in 1..Len(klist) PROVE NameOfUp(klist[k])' /\ AddrOf(klist[k])'
  <2>1. NameOfUp(klist[k]) /\ AddrOf(klist[k])
    BY DEF Gathered
  <2>2. QED BY <2>1, EntriesRemain
<1>3. \A k, l \in 1..Len(klist) :
        k < l /\ klist[k].of = klist[l].of /\ klist[k].of # 0 => klist[k].addr < klist[l].addr
  BY DEF Gathered
<1>4. ASSUME NEW j \in 1..kpos, buf[j].up /\ buf[j].addr > 0 /\ (doaliases \/ buf[j].addr = 1)
      PROVE  \E k \in 1..Len(klist) :
               klist[k].name = buf[j].name /\ klist[k].of = buf[j].name /\ klist[k].addr = buf[j].addr
  <2>1. j \in 1..kpos - 1
    BY <1>1, <1>4
  <2>2. QED BY <1>4, <2>1 DEF Gathered
<1>5. QED BY <1>1, <1>2, <1>3, <1>4 DEF Gathered

\* Which entry is the last, when a record comes.
LEMMA LastIs ==
  ASSUME KTypeOK, Proper(buf), Copy(buf), kpos <= Len(buf), links, AtLast, buf[kpos].addr > 0
  PROVE  /\ buf[kpos].up => /\ klist # <<>> /\ klist[Len(klist)].name = buf[kpos].name
                            /\ klist[Len(klist)].addr = 0 <=> buf[kpos].addr = 1
         /\ klist = <<>> => ~buf[kpos].up
<1>1. /\ kpos - 1 \in 1 .. kpos - 1 /\ kpos > 1 /\ buf[kpos - 1].name = buf[kpos].name
      /\ buf[kpos - 1].up = buf[kpos].up /\ buf[kpos - 1].addr = buf[kpos].addr - 1 /\ buf[kpos].addr \in Nat
  BY RecordIs DEF FirstOf
<1>2. buf[kpos - 1].addr = 0 <=> buf[kpos].addr = 1
  BY <1>1
<1>3. QED BY <1>1, <1>2 DEF AtLast

\* An entry that has a name has that of an interface that is up, and so have all
\* its records.
LEMMA NamedIsUp ==
  ASSUME KTypeOK, Proper(buf), Copy(buf), kpos <= Len(buf), NEW x, NameOfUp(x), x.name = buf[kpos].name
  PROVE  buf[kpos].up
<1>1. kpos \in 1..Len(buf) /\ buf[kpos].name # 0 /\ \A j \in 1 .. kpos - 1 : j \in 1..Len(buf)
  BY RecordIs
<1>2. PICK j \in 1 .. kpos - 1 : buf[j].up /\ buf[j].name = x.name
  BY <1>1 DEF NameOfUp
<1>3. j \in 1..Len(buf) /\ buf[j].name = buf[kpos].name
  BY <1>1, <1>2
<1>4. buf[j].up = buf[kpos].up
  BY <1>1, <1>3 DEF Proper
<1>5. QED BY <1>2, <1>4

\* A record is walked over: an interface is listed, an address goes to the last
\* entry or makes one of its own, or nothing is listed.
LEMMA KRecord ==
  ASSUME KInv, K!Record
  PROVE  KInv'
<1> DEFINE e == buf[kpos]
           this == [name |-> e.name, of |-> 0, addr |-> 0, alias |-> FALSE, index |-> e.name]
           last == klist[Len(klist)]
           none == [this EXCEPT !.name = 0, !.index = 0, !.of = e.name, !.addr = e.addr]
           next == [last EXCEPT !.of = e.name, !.addr = e.addr]
<1>1. /\ kprog = "sysctl" /\ kpc = "walk" /\ KTypeOK /\ KTable /\ kpos <= Len(buf) /\ links
      /\ Proper(buf) /\ Copy(buf) /\ Gathered /\ AtLast
  <2>1. kprog = "sysctl" /\ kpc = "walk" /\ kpos <= Len(buf)
    BY DEF K!Record
  <2>2. KTypeOK /\ Copied /\ SysctlInv
    BY DEF KInv
  <2>3. QED BY <2>1, <2>2 DEF KTypeOK, Copied, SysctlInv, K!Asking
<1>2. /\ UNCHANGED <<kprog, doaliases, links, strict, wanted, present, up, naddr, touched>>
      /\ UNCHANGED <<size, lastlen, buf, lastname, sdlname, alias, owed, kqueue, dropped>> /\ kpos' = kpos + 1
  BY DEF K!Record, K!options, K!kernel, K!socket
<1>3. KTable' /\ Proper(buf)' /\ Copy(buf)'
  BY <1>1, <1>2, CopyRests DEF KTable
<1>4. /\ kpos \in 1..Len(buf) /\ e \in Recs /\ e.name \in K!Ifs /\ e.name \in Nat \ {0} /\ e.addr \in Nat
      /\ e.type = "link" <=> e.addr = 0
  BY <1>1, RecordIs
<1>5. /\ kpos \in Nat \ {0} /\ (kpos + 1) - 1 = kpos /\ kpos + 1 \in Nat \ {0} /\ kpos + 1 > 1 /\ kpos + 1 <= Len(buf) + 1
      /\ kpos \in 1..kpos /\ \A j \in 1..kpos : j \in 1..kpos - 1 \/ j = kpos
      /\ klist \in Seq(Ents) /\ Len(klist) \in Nat
  <2>1. klist \in Seq(Ents)
    BY <1>1 DEF KTypeOK, ByInterfaces
  <2>2. QED BY <1>1, <2>1, KRecordNext, QueueOf
<1>6. e.name \in 0..NIfs /\ 0 \in 0..NIfs /\ 0 \in 0..MaxAddrs /\ e.addr \in 0..MaxAddrs
  BY <1>4, KernelAssumption DEF K!Ifs, Recs
<1>7. e.addr > 0 => /\ e.up => /\ klist # <<>> /\ last.name = e.name
                               /\ last.addr = 0 <=> e.addr = 1
                    /\ klist = <<>> => ~e.up
  BY <1>1, LastIs
<1>8. \/ e.addr = 0 /\ e.up /\ klist' = Append(klist, this) /\ kpc' = kpc
      \/ e.addr = 0 /\ ~e.up /\ klist' = klist /\ kpc' = kpc
      \/ e.addr > 0 /\ klist = <<>> /\ klist' = klist /\ kpc' \in {"walk", "crash"}
      \/ e.addr > 0 /\ klist = <<>> /\ doaliases /\ klist' = <<none>> /\ kpc' = kpc
      \/ e.addr > 0 /\ klist # <<>> /\ last.addr = 0 /\ klist' = K!Front(klist) \o <<next>> /\ kpc' = kpc
      \/ e.addr > 0 /\ klist # <<>> /\ last.addr # 0 /\ doaliases /\ klist' = Append(klist, next) /\ kpc' = kpc
      \/ e.addr > 0 /\ klist # <<>> /\ last.addr # 0 /\ ~doaliases /\ klist' = klist /\ kpc' = kpc
  <2>1. e.addr = 0 \/ e.addr > 0
    BY <1>4
  <2>2. \/ e.type = "link" /\ klist' = (IF e.up THEN Append(klist, this) ELSE klist) /\ kpc' = kpc
        \/ e.type # "link" /\ klist = <<>> /\ klist' = klist /\ kpc' \in {"walk", "crash"}
        \/ e.type # "link" /\ klist = <<>> /\ doaliases /\ klist' = <<none>> /\ kpc' = kpc
        \/ /\ e.type # "link" /\ klist # <<>> /\ kpc' = kpc
           /\ klist' = IF last.addr = 0 THEN K!Front(klist) \o <<next>>
                       ELSE IF doaliases THEN Append(klist, next) ELSE klist
    BY DEF K!Record
  <2> HIDE DEF e, this, last, none, next
  <2>3. QED BY <1>4, <2>1, <2>2
<1>9. IoctlInv' /\ NamesInv' /\ AsksInv'
  BY <1>1, <1>2, OfOthers
<1>10. ASSUME kpc' \in {"walk", "crash"}, klist' \in Seq(Ents), Gathered',
              e.up => klist' # <<>> /\ klist'[Len(klist')].name = e.name /\ (klist'[Len(klist')].addr = 0 <=> e.addr = 0),
              klist' = <<>> => klist = <<>> /\ ~e.up,
              kpc' = "crash" => klist' = <<>>
       PROVE  KInv'
  <2>1. KTypeOK'
    BY <1>1, <1>2, <1>3, <1>5, <1>10 DEF KTypeOK, ByInterfaces, K!Asking
  <2>2. Copied' /\ Measured'
    BY <1>3, <1>10 DEF Copied, Measured
  <2>3. kpos' - 1 = kpos
    BY <1>2, <1>5
  <2>4. klist' = <<>> => \A j \in 1..kpos : ~buf[j].up
    BY <1>1, <1>5, <1>10 DEF AtLast
  <2>5. AtLast'
    BY <1>2, <1>10, <2>3, <2>4 DEF AtLast
  <2>6. K!DiesOf'
    BY <1>1, <1>2, <1>10, <2>3, <2>4 DEF K!DiesOf
  <2>7. SysctlInv'
    BY <1>2, <1>5, <1>10, <2>5 DEF SysctlInv
  <2>8. QED BY <1>9, <2>1, <2>2, <2>6, <2>7 DEF KInv
<1>11. (last \in Ents /\ NameOfUp(last) /\ Len(klist) \in 1..Len(klist)) \/ klist = <<>>
  <2>1. SUFFICES ASSUME klist # <<>> PROVE last \in Ents /\ NameOfUp(last) /\ Len(klist) \in 1..Len(klist)
    OBVIOUS
  <2>2. Len(klist) \in 1..Len(klist) /\ klist[Len(klist)] \in Ents
    BY <1>5, <2>1
  <2>3. QED BY <1>1, <2>2 DEF Gathered
<1>12. CASE e.addr = 0 /\ e.up /\ klist' = Append(klist, this) /\ kpc' = kpc
  <2>1. this \in Ents /\ this.name = e.name /\ this.of = 0 /\ this.addr = 0
    BY <1>6 DEF Ents
  <2> HIDE DEF this
  <2>2. /\ klist' \in Seq(Ents) /\ Len(klist') = Len(klist) + 1 /\ klist' # <<>>
        /\ klist'[Len(klist')] = this /\ \A k \in 1..Len(klist) : klist'[k] = klist[k]
        /\ \A k \in 1..Len(klist') : k \in 1..Len(klist) \/ k = Len(klist')
    BY <1>5, <1>12, <2>1, OneListed
  <2>3. Len(klist') \in Nat \ {0}
    BY <1>5, <2>2
  <2>4. Gathered'
    <3>1. \E j \in 1..kpos : buf[j].addr = 0 /\ buf[j].up /\ buf[j].name = this.name
      BY <1>5, <1>12, <2>1
    <3>2. this.of = 0 /\ this.addr = 0 /\ buf[kpos].addr = 0
      BY <1>12, <2>1
    <3> HIDE DEF e
    <3>3. QED BY <1>1, <1>2, <1>5, <2>2, <2>3, <3>1, <3>2, GatheredNext
  <2>5. QED BY <1>1, <1>10, <1>12, <2>1, <2>2, <2>4
<1>13. CASE e.addr = 0 /\ ~e.up /\ klist' = klist /\ kpc' = kpc
  <2>1. Gathered'
    BY <1>1, <1>2, <1>13, GatheredSame
  <2>2. QED BY <1>1, <1>5, <1>10, <1>13, <2>1
<1>14. CASE e.addr > 0 /\ klist = <<>> /\ klist' = klist /\ kpc' \in {"walk", "crash"}
  <2>1. ~e.up
    BY <1>7, <1>14
  <2>2. Gathered'
    BY <1>1, <1>2, <1>14, <2>1, GatheredSame
  <2>3. QED BY <1>1, <1>5, <1>10, <1>14, <2>1, <2>2
<1>15. CASE e.addr > 0 /\ klist = <<>> /\ doaliases /\ klist' = <<none>> /\ kpc' = kpc
  <2>1. ~e.up
    BY <1>7, <1>15
  <2>2. none \in Ents /\ none.name = 0 /\ none.of = e.name /\ none.addr = e.addr
    <3> HIDE DEF e
    <3>1. QED BY <1>6 DEF Ents
  <2> HIDE DEF none
  <2>3. /\ klist' \in Seq(Ents) /\ Len(klist') = 1 /\ klist' # <<>> /\ klist'[1] = none /\ Len(klist) = 0
        /\ \A k \in 1..1 : k = 1
    BY <1>15, <2>2
  <2>4. Gathered'
    <3> HIDE DEF e
    <3>1. ~buf[kpos].up /\ buf[kpos].addr > 0 /\ none.of = buf[kpos].name /\ none.addr = buf[kpos].addr
      BY <1>15, <2>1, <2>2 DEF e
    <3>2. Len(klist') \in Nat \ {0} /\ Len(klist') = Len(klist) + 1 /\ klist'[Len(klist')] = none
      BY <2>3
    <3>3. \A k \in 1..Len(klist) : FALSE
      BY <2>3
    <3>4. \A k \in 1..Len(klist') : k = Len(klist')
      BY <2>3
    <3>5. QED BY <1>1, <1>2, <1>5, <1>15, <2>2, <3>1, <3>2, <3>3, <3>4, GatheredNext
  <2>5. QED BY <1>1, <1>10, <1>15, <2>1, <2>3, <2>4
<1>16. ASSUME e.addr > 0, klist # <<>>, last.addr = 0 \/ doaliases
       PROVE  /\ next \in Ents /\ next.of = e.name /\ next.addr = e.addr /\ next.name = last.name
              /\ next.name = 0 \/ \E j \in 1..kpos : buf[j].addr = 0 /\ buf[j].up /\ buf[j].name = next.name
              /\ next.of = next.name => doaliases \/ next.addr = 1
              /\ e.up => next.name = next.of
  <2>1. last \in Ents /\ NameOfUp(last)
    BY <1>11, <1>16
  <2>2. next \in Ents /\ next.of = e.name /\ next.addr = e.addr /\ next.name = last.name
    <3> HIDE DEF e, last
    <3>1. QED BY <1>6, <2>1 DEF Ents
  <2> HIDE DEF next
  <2>3. next.name = 0 \/ \E j \in 1..kpos : buf[j].addr = 0 /\ buf[j].up /\ buf[j].name = next.name
    <3>1. \A j \in 1 .. kpos - 1 : j \in 1..kpos
      BY <1>5
    <3>2. QED BY <2>1, <2>2, <3>1 DEF NameOfUp
  <2>4. e.up => next.name = next.of
    BY <1>7, <1>16, <2>2
  <2>5. ASSUME next.of = next.name PROVE doaliases \/ next.addr = 1
    <3>1. e.up
      BY <1>1, <2>1, <2>2, <2>5, NamedIsUp
    <3>2. last.addr = 0 <=> e.addr = 1
      BY <1>7, <1>16, <3>1
    <3>3. QED BY <1>16, <2>2, <3>2
  <2>6. QED BY <2>2, <2>3, <2>4, <2>5
<1>17. CASE e.addr > 0 /\ klist # <<>> /\ last.addr = 0 /\ klist' = K!Front(klist) \o <<next>> /\ kpc' = kpc
  <2>1. /\ next \in Ents /\ next.of = e.name /\ next.addr = e.addr
        /\ next.name = 0 \/ \E j \in 1..kpos : buf[j].addr = 0 /\ buf[j].up /\ buf[j].name = next.name
        /\ next.of = next.name => doaliases \/ next.addr = 1
        /\ e.up => next.name = next.of
    BY <1>16, <1>17
  <2> HIDE DEF next
  <2>2. /\ klist' \in Seq(Ents) /\ Len(klist') = Len(klist) /\ Len(klist) \in 1..Len(klist) /\ klist' # <<>>
        /\ klist'[Len(klist)] = next /\ \A k \in 1..Len(klist) : k # Len(klist) => klist'[k] = klist[k]
    <3> DEFINE f == K!Front(klist)
               y == <<next>>
    <3>1. klist \in Seq(Ents) /\ klist # <<>> /\ next \in Ents /\ klist' = f \o y
      BY <1>5, <1>17, <2>1
    <3>2. f = SubSeq(klist, 1, Len(klist) - 1) /\ y = <<next>>
      BY DEF K!Front
    <3> HIDE DEF f, y
    <3> DEFINE s == klist
               x == next
               t == klist'
    <3>3. s \in Seq(Ents) /\ s # <<>> /\ x \in Ents /\ f = SubSeq(s, 1, Len(s) - 1) /\ y = <<x>> /\ t = f \o y
      BY <3>1, <3>2
    <3> HIDE DEF s, x, t
    <3>4. /\ t \in Seq(Ents) /\ Len(t) = Len(s) /\ Len(s) \in 1..Len(s) /\ t # <<>>
          /\ t[Len(s)] = x /\ \A k \in 1..Len(s) : k # Len(s) => t[k] = s[k]
      BY <3>3, LastReplaced
    <3>5. QED BY <3>4 DEF s, x, t
  <2>3. Len(klist') \in Nat \ {0}
    BY <1>5, <2>2
  <2>4. Gathered'
    <3>1. \A k \in 1..Len(klist) : klist'[k] = klist[k] \/ klist[k].addr = 0
      BY <1>17, <2>2
    <3>2. /\ next.of = buf[kpos].name /\ next.addr = buf[kpos].addr /\ buf[kpos].addr > 0
          /\ buf[kpos].up => next.name = next.of
      BY <1>17, <2>1
    <3> HIDE DEF e, last
    <3>3. QED BY <1>1, <1>2, <1>5, <2>1, <2>2, <2>3, <3>1, <3>2, GatheredNext
  <2>5. QED BY <1>1, <1>10, <1>17, <2>1, <2>2, <2>4
<1>18. CASE e.addr > 0 /\ klist # <<>> /\ last.addr # 0 /\ doaliases /\ klist' = Append(klist, next) /\ kpc' = kpc
  <2>1. /\ next \in Ents /\ next.of = e.name /\ next.addr = e.addr
        /\ next.name = 0 \/ \E j \in 1..kpos : buf[j].addr = 0 /\ buf[j].up /\ buf[j].name = next.name
        /\ e.up => next.name = next.of
    BY <1>16, <1>18
  <2> HIDE DEF next
  <2>2. /\ klist' \in Seq(Ents) /\ Len(klist') = Len(klist) + 1 /\ klist' # <<>>
        /\ klist'[Len(klist')] = next /\ \A k \in 1..Len(klist) : klist'[k] = klist[k]
        /\ \A k \in 1..Len(klist') : k \in 1..Len(klist) \/ k = Len(klist')
    BY <1>5, <1>18, <2>1, OneListed
  <2>3. Len(klist') \in Nat \ {0}
    BY <1>5, <2>2
  <2>4. Gathered'
    <3>1. /\ next.of = buf[kpos].name /\ next.addr = buf[kpos].addr /\ buf[kpos].addr > 0
          /\ buf[kpos].up => next.name = next.of
      BY <1>18, <2>1
    <3> HIDE DEF e, last
    <3>2. QED BY <1>1, <1>2, <1>5, <1>18, <2>1, <2>2, <2>3, <3>1, GatheredNext
  <2>5. QED BY <1>1, <1>10, <1>18, <2>1, <2>2, <2>4
<1>19. CASE e.addr > 0 /\ klist # <<>> /\ last.addr # 0 /\ ~doaliases /\ klist' = klist /\ kpc' = kpc
  <2>1. e.up => last.name = e.name /\ e.addr # 1
    BY <1>7, <1>19
  <2>2. Gathered'
    BY <1>1, <1>2, <1>19, <2>1, GatheredSame
  <2>3. QED BY <1>1, <1>5, <1>10, <1>19, <2>1, <2>2
<1>20. QED BY <1>8, <1>12, <1>13, <1>14, <1>15, <1>17, <1>18, <1>19

\* The names of the records that are sought are listed.
LEMMA KNames ==
  ASSUME KInv, K!Names
  PROVE  KInv'
<1> DEFINE ss == [k \in DOMAIN buf |-> IF K!Sought(buf[k]) THEN <<buf[k].name>> ELSE <<>>]
           All == K!Ifs \X K!Ifs
<1>1. /\ kprog \in {"names", "lookup"} /\ kpc = "walk" /\ kpc' = "done" /\ klist' = FlattenSeq(ss)
      /\ KTypeOK /\ KTable /\ Proper(buf) /\ Copy(buf)
  <2>1. /\ kprog \in {"names", "lookup"} /\ kpc = "walk" /\ kpc' = "done" /\ klist' = K!FlattenSeq(ss)
    BY DEF K!Names
  <2>2. KTypeOK /\ Copied
    BY DEF KInv
  <2> HIDE DEF ss
  <2>3. QED BY <2>1, <2>2, SameFlatten DEF KTypeOK, Copied, K!Asking
<1>2. /\ UNCHANGED <<kprog, doaliases, links, strict, wanted, present, up, naddr, touched>>
      /\ UNCHANGED <<size, lastlen, buf, kpos, lastname, sdlname, alias, owed, kqueue, dropped>>
  BY DEF K!Names, K!options, K!kernel, K!walk, K!socket
<1>3. KTable' /\ Proper(buf)' /\ Copy(buf)'
  BY <1>1, <1>2, CopyRests DEF KTable
<1>4. Len(buf) \in Nat /\ DOMAIN buf = 1..Len(buf) /\ \A k \in 1..Len(buf) : buf[k].name \in K!Ifs
  <2>1. buf \in Seq(Recs)
    BY <1>1 DEF KTypeOK
  <2>2. \A k \in 1..Len(buf) : buf[k] \in Recs
    BY <2>1
  <2>3. QED BY <2>1, <2>2 DEF Recs
<1>5. /\ ss \in Seq(Seq(K!Ifs)) /\ Len(ss) = Len(buf)
      /\ \A k \in 1..Len(buf) : ss[k] = IF K!Sought(buf[k]) THEN <<buf[k].name>> ELSE <<>>
  <2>1. \A k \in 1..Len(buf) : ss[k] = IF K!Sought(buf[k]) THEN <<buf[k].name>> ELSE <<>>
    BY <1>4
  <2>2. \A n \in K!Ifs : <<n>> \in Seq(K!Ifs)
    OBVIOUS
  <2>3. <<>> \in Seq(K!Ifs)
    OBVIOUS
  <2>4. \A k \in 1..Len(buf) : ss[k] \in Seq(K!Ifs)
    BY <1>4, <2>1, <2>2, <2>3
  <2>5. ss \in [1..Len(buf) -> Seq(K!Ifs)]
    BY <1>4, <2>4
  <2> HIDE DEF ss
  <2>6. QED BY <1>4, <2>1, <2>5
<1> HIDE DEF ss
<1>6. \A k \in 1..Len(ss) : \A o \in 1..Len(ss[k]) : o = 1 /\ ss[k][o] = buf[k].name /\ K!Sought(buf[k])
  <2>1. SUFFICES ASSUME NEW k \in 1..Len(ss), NEW o \in 1..Len(ss[k])
                 PROVE  o = 1 /\ ss[k][o] = buf[k].name /\ K!Sought(buf[k])
    OBVIOUS
  <2>2. CASE K!Sought(buf[k])
    <3> DEFINE t == <<buf[k].name>>
    <3>1. ss[k] = t /\ Len(t) = 1 /\ t[1] = buf[k].name
      BY <1>5, <2>2
    <3> HIDE DEF t
    <3>2. QED BY <2>2, <3>1
  <2>3. CASE ~K!Sought(buf[k])
    <3>1. ss[k] = <<>>
      BY <1>5, <2>3
    <3>2. QED BY <3>1
  <2>4. QED BY <2>2, <2>3
<1>7. InOrderBy(ss, All)
  <2>1. \A k \in 1..Len(ss) : \A o \in 1..Len(ss[k]) : ss[k][o] \in K!Ifs
    BY <1>4, <1>5, <1>6
  <2>2. QED BY <2>1 DEF InOrderBy
<1> DEFINE F == FlattenSeq(ss)
<1>8. F \in Seq(K!Ifs) /\ MadeOf(F, ss, Len(ss), All)
  BY <1>5, <1>7, FlattenIs
<1> HIDE DEF F, All
<1>9. DOMAIN F = 1..Len(F)
  BY <1>8
<1>10. ASSUME NEW n
       PROVE  n \in {F[k] : k \in DOMAIN F} <=> \E j \in 1..Len(buf) : K!Sought(buf[j]) /\ buf[j].name = n
  <2>1. ASSUME NEW k \in DOMAIN F PROVE \E j \in 1..Len(buf) : K!Sought(buf[j]) /\ buf[j].name = F[k]
    <3>1. PICK p \in 1..Len(ss) : \E o \in 1..Len(ss[p]) : F[k] = ss[p][o]
      BY <1>8, <1>9 DEF MadeOf, InPieces
    <3>2. QED BY <1>5, <1>6, <3>1
  <2>2. ASSUME NEW j \in 1..Len(buf), K!Sought(buf[j]) PROVE \E k \in DOMAIN F : F[k] = buf[j].name
    <3> DEFINE t == <<buf[j].name>>
    <3>1. ss[j] = t
      BY <1>5, <2>2
    <3>2. Len(t) = 1 /\ t[1] = buf[j].name
      OBVIOUS
    <3> HIDE DEF t
    <3>3. 1 \in 1..Len(ss[j]) /\ ss[j][1] = buf[j].name /\ j \in 1..Len(ss)
      BY <1>5, <3>1, <3>2
    <3>4. PICK k \in 1..Len(F) : F[k] = ss[j][1]
      BY <1>8, <3>3 DEF MadeOf
    <3>5. QED BY <1>9, <3>3, <3>4
  <2>3. QED BY <2>1, <2>2
<1>11. klist' = F
  BY <1>1 DEF F
<1>12. \A j : K!Sought(buf[j])' <=> K!Sought(buf[j])
  BY <1>2 DEF K!Sought
<1>13. NamesInv'
  <2>1. ASSUME NEW n
        PROVE  n \in {klist'[k] : k \in DOMAIN klist'} <=> \E j \in 1..Len(buf') : K!Sought(buf[j])' /\ buf'[j].name = n
    <3>1. Len(buf') = Len(buf) /\ \A j : buf'[j] = buf[j]
      BY <1>2
    <3>2. n \in {klist'[k] : k \in DOMAIN klist'} <=> n \in {F[k] : k \in DOMAIN F}
      BY <1>11
    <3>3. QED BY <1>10, <1>12, <3>1, <3>2
  <2>2. kpc' = "done" /\ kprog' \notin {"ioctl", "sysctl"}
    BY <1>1, <1>2
  <2>3. QED BY <2>1, <2>2 DEF NamesInv
<1>14. IoctlInv' /\ SysctlInv' /\ AsksInv'
  BY <1>1, <1>2, OfOthers
<1>15. KTypeOK'
  BY <1>1, <1>2, <1>3 DEF KTypeOK, ByInterfaces, K!Asking
<1>16. Copied' /\ Measured' /\ K!DiesOf'
  BY <1>1, <1>3 DEF Copied, Measured, K!DiesOf
<1>17. QED BY <1>13, <1>14, <1>15, <1>16 DEF KInv

-----------------------------------------------------------------------------
\* The numbers of one's own messages when there is one message more or less.
LEMMA DownAppended ==
  ASSUME NEW q \in Seq(Msgs), NEW m \in Msgs, NEW lo \in Nat, NEW hi \in Nat, lo <= hi, Down(q, lo, hi)
  PROVE  /\ m.pid # "me" => Down(Append(q, m), lo, hi)
         /\ m.pid = "me" /\ lo > 0 /\ m.seq = lo - 1 => Down(Append(q, m), lo - 1, hi)
<1> DEFINE r == Append(q, m)
<1>1. /\ Len(q) \in Nat /\ Len(r) = Len(q) + 1 /\ r[Len(r)] = m /\ Len(r) \in 1..Len(r)
      /\ \A k \in 1..Len(q) : r[k] = q[k] /\ k \in 1..Len(r) /\ k < Len(r)
      /\ \A k \in 1..Len(r) : k \in 1..Len(q) \/ k = Len(r)
  BY OneListed
<1> HIDE DEF r
<1>2. \A k \in Mine(q) : k \in 1..Len(q) /\ k \in Mine(r) /\ r[k].seq = q[k].seq /\ q[k].seq \in lo .. hi - 1
  BY <1>1 DEF Mine, Down
<1>3. \A k \in Mine(r) : k \in Mine(q) \/ k = Len(r)
  BY <1>1 DEF Mine
<1>4. ASSUME m.pid # "me" PROVE Down(r, lo, hi)
  <2>1. Mine(r) = Mine(q)
    BY <1>1, <1>2, <1>3, <1>4 DEF Mine
  <2>2. {r[k].seq : k \in Mine(r)} = {q[k].seq : k \in Mine(q)}
    BY <1>2, <2>1
  <2>3. QED BY <1>2, <2>1, <2>2 DEF Down
<1>5. ASSUME m.pid = "me", lo > 0, m.seq = lo - 1 PROVE Down(r, lo - 1, hi)
  <2>1. Len(r) \in Mine(r) /\ r[Len(r)].seq = lo - 1
    BY <1>1, <1>5 DEF Mine
  <2>2. \A v : v \in lo - 1 .. hi - 1 <=> v = lo - 1 \/ v \in lo .. hi - 1
    BY <1>5
  <2>3. \A v \in lo .. hi - 1 : \E k \in Mine(q) : q[k].seq = v
    BY DEF Down
  <2>4. {r[k].seq : k \in Mine(r)} = lo - 1 .. hi - 1
    <3>1. ASSUME NEW k \in Mine(r) PROVE r[k].seq \in lo - 1 .. hi - 1
      BY <1>2, <1>3, <2>1, <2>2
    <3>2. ASSUME NEW v \in lo - 1 .. hi - 1 PROVE \E k \in Mine(r) : r[k].seq = v
      <4>1. CASE v = lo - 1
        BY <2>1, <4>1
      <4>2. CASE v \in lo .. hi - 1
        <5>1. PICK k \in Mine(q) : q[k].seq = v
          BY <2>3, <4>2
        <5>2. QED BY <1>2, <5>1
      <4>3. QED BY <2>2, <4>1, <4>2
    <3>3. QED BY <3>1, <3>2
  <2>5. ASSUME NEW k \in Mine(r), NEW l \in Mine(r), k < l PROVE r[k].seq > r[l].seq
    <3>1. k \in Mine(q)
      <4>1. k # Len(r)
        BY <1>1, <2>5 DEF Mine
      <4>2. QED BY <1>3, <4>1
    <3>2. CASE l \in Mine(q)
      BY <1>2, <2>5, <3>1, <3>2 DEF Down
    <3>3. CASE l = Len(r)
      <4>1. q[k].seq \in lo .. hi - 1 /\ r[k].seq = q[k].seq /\ r[l].seq = lo - 1
        BY <1>2, <2>1, <3>1, <3>3
      <4>2. QED BY <4>1
    <3>4. QED BY <1>3, <3>2, <3>3
  <2>6. QED BY <2>4, <2>5 DEF Down
<1>6. QED BY <1>4, <1>5 DEF r

\* And when the first of the messages is taken.
LEMMA DownTaken ==
  ASSUME NEW q \in Seq(Msgs), q # <<>>, NEW lo \in Nat, NEW hi \in Nat, lo <= hi, Down(q, lo, hi)
  PROVE  /\ Head(q).pid # "me" => Down(Tail(q), lo, hi)
         /\ Head(q).pid = "me" => /\ hi - 1 \in Nat /\ lo <= hi - 1 /\ Head(q).seq = hi - 1
                                  /\ Down(Tail(q), lo, hi - 1)
<1> DEFINE t == Tail(q)
           h == Head(q)
<1>1. /\ Len(q) \in Nat /\ 1 \in 1..Len(q) /\ h = q[1] /\ Len(t) = Len(q) - 1 /\ t \in Seq(Msgs)
      /\ \A k \in 1..Len(t) : t[k] = q[k + 1]
  OBVIOUS
<1> HIDE DEF t, h
<1>2. /\ \A k \in 1..Len(t) : k + 1 \in 1..Len(q) /\ k + 1 # 1
      /\ \A k \in 1..Len(q) : k # 1 => k - 1 \in 1..Len(t) /\ (k - 1) + 1 = k /\ t[k - 1] = q[k]
  <2>1. \A k \in 1..Len(t) : k + 1 \in 1..Len(q) /\ k + 1 # 1
    BY <1>1
  <2>2. ASSUME NEW k \in 1..Len(q), k # 1 PROVE k - 1 \in 1..Len(t) /\ (k - 1) + 1 = k /\ t[k - 1] = q[k]
    <3>1. k - 1 \in 1..Len(t) /\ (k - 1) + 1 = k
      BY <1>1, <2>2
    <3>2. QED BY <1>1, <3>1
  <2>3. QED BY <2>1, <2>2
<1>3. \A k \in Mine(t) : k \in 1..Len(t) /\ k + 1 \in Mine(q) /\ t[k].seq = q[k + 1].seq
  BY <1>1, <1>2 DEF Mine
<1>4. \A k \in Mine(q) : k # 1 => k - 1 \in Mine(t) /\ t[k - 1].seq = q[k].seq
  BY <1>2 DEF Mine
<1>5. {q[k].seq : k \in Mine(q)} = lo .. hi - 1 /\ \A k, l \in Mine(q) : k < l => q[k].seq > q[l].seq
  BY DEF Down
<1>6. \A k, l \in Mine(t) : k < l => t[k].seq > t[l].seq
  <2>1. SUFFICES ASSUME NEW k \in Mine(t), NEW l \in Mine(t), k < l PROVE t[k].seq > t[l].seq
    OBVIOUS
  <2>2. k + 1 < l + 1
    BY <1>1, <1>3, <2>1
  <2>3. QED BY <1>3, <1>5, <2>2
<1>7. ASSUME h.pid # "me" PROVE Down(t, lo, hi)
  <2>1. \A k \in Mine(q) : k # 1
    BY <1>1, <1>7 DEF Mine
  <2>2. {t[k].seq : k \in Mine(t)} = {q[k].seq : k \in Mine(q)}
    <3>1. ASSUME NEW k \in Mine(t) PROVE t[k].seq \in {q[j].seq : j \in Mine(q)}
      BY <1>3
    <3>2. ASSUME NEW k \in Mine(q) PROVE q[k].seq \in {t[j].seq : j \in Mine(t)}
      BY <1>4, <2>1
    <3>3. QED BY <3>1, <3>2
  <2>3. QED BY <1>5, <1>6, <2>2 DEF Down
<1>8. ASSUME h.pid = "me" PROVE hi - 1 \in Nat /\ lo <= hi - 1 /\ h.seq = hi - 1 /\ Down(t, lo, hi - 1)
  <2>1. 1 \in Mine(q) /\ q[1].seq = h.seq /\ h.seq \in lo .. hi - 1
    <3>1. 1 \in Mine(q)
      BY <1>1, <1>8 DEF Mine
    <3>2. QED BY <1>1, <1>5, <3>1
  <2>2. hi - 1 \in Nat /\ lo <= hi - 1 /\ hi - 1 \in lo .. hi - 1 /\ h.seq \in Nat
    BY <2>1
  <2>3. ASSUME NEW k \in Mine(q), k # 1 PROVE h.seq > q[k].seq
    <3>1. 1 < k
      BY <1>1, <2>3 DEF Mine
    <3>2. QED BY <1>5, <2>1, <3>1
  <2>4. h.seq = hi - 1
    <3>1. PICK k \in Mine(q) : q[k].seq = hi - 1
      BY <1>5, <2>2
    <3>2. CASE k = 1
      BY <2>1, <3>1, <3>2
    <3>3. CASE k # 1
      <4>1. h.seq > hi - 1
        BY <2>3, <3>1, <3>3
      <4>2. QED BY <2>1, <2>2, <4>1
    <3>4. QED BY <3>2, <3>3
  <2>5. {t[k].seq : k \in Mine(t)} = lo .. (hi - 1) - 1
    <3>1. ASSUME NEW k \in Mine(t) PROVE t[k].seq \in lo .. (hi - 1) - 1
      <4>1. k + 1 \in Mine(q) /\ k + 1 # 1 /\ t[k].seq = q[k + 1].seq
        BY <1>2, <1>3
      <4>2. q[k + 1].seq \in lo .. hi - 1 /\ hi - 1 > q[k + 1].seq
        BY <1>5, <2>3, <2>4, <4>1
      <4>3. QED BY <2>2, <4>1, <4>2
    <3>2. ASSUME NEW v \in lo .. (hi - 1) - 1 PROVE \E k \in Mine(t) : t[k].seq = v
      <4>1. v \in lo .. hi - 1 /\ v # hi - 1
        BY <2>2
      <4>2. PICK k \in Mine(q) : q[k].seq = v
        BY <1>5, <4>1
      <4>3. k # 1
        BY <2>1, <2>4, <4>1, <4>2
      <4>4. QED BY <1>4, <4>2, <4>3
    <3>3. QED BY <3>1, <3>2
  <2>6. QED BY <1>6, <2>2, <2>4, <2>5 DEF Down
<1>9. QED BY <1>7, <1>8 DEF t, h

-----------------------------------------------------------------------------
\* What holds as long as only the socket changes.
LEMMA SocketOnly ==
  ASSUME UNCHANGED <<kprog, doaliases, links, strict, wanted, present, up, naddr, touched>>,
         UNCHANGED <<kpc, size, lastlen, buf, kpos, lastname, sdlname, alias, klist>>
  PROVE  /\ K!DiesOf => K!DiesOf'
         /\ Copied => Copied'
         /\ Measured => Measured'
         /\ IoctlInv => IoctlInv'
         /\ SysctlInv => SysctlInv'
         /\ NamesInv => NamesInv'
<1>1. K!DiesOf => K!DiesOf'
  BY DEF K!DiesOf
<1>2. Copied => Copied'
  BY CopyRests DEF Copied
<1>3. K!Listing' = K!Listing
  BY KernelRests
<1>4. Measured => Measured'
  BY <1>3 DEF Measured
<1>5. IoctlInv => IoctlInv'
  <2>1. (Growing <=> Growing') /\ (LastNamed <=> LastNamed') /\ (Current <=> Current')
    BY <1>3 DEF Growing, LastNamed, Seen, Current
  <2>2. Listed <=> Listed'
    BY DEF Listed, EntryOf
  <2>3. QED BY <2>1, <2>2 DEF IoctlInv
<1>6. SysctlInv => SysctlInv'
  <2>1. (Gathered <=> Gathered') /\ (AtLast <=> AtLast')
    BY DEF Gathered, NameOfUp, AddrOf, AtLast
  <2>2. QED BY <2>1 DEF SysctlInv
<1>7. NamesInv => NamesInv'
  <2>1. \A j : K!Sought(buf[j])' <=> K!Sought(buf[j])
    BY DEF K!Sought
  <2>2. QED BY <2>1 DEF NamesInv
<1>8. QED BY <1>1, <1>2, <1>4, <1>5, <1>6, <1>7

\* A step of a program that asks.
LEMMA AskerOnly ==
  ASSUME KInv, kprog \in K!Asking, UNCHANGED <<K!options, K!kernel, K!walk>>, kpc' \in {"ask", "read", "done", "dead"},
         kpc' = "dead" => kprog = "getrt",
         klist' \in Seq(Msgs), owed' \in Seq(Msgs), kqueue' \in Seq(Msgs), dropped' \in BOOLEAN, AsksInv'
  PROVE  KInv'
<1>1. /\ UNCHANGED <<kprog, doaliases, links, strict, wanted, present, up, naddr, touched>>
      /\ UNCHANGED <<size, lastlen, buf, kpos, lastname, sdlname, alias>>
  BY DEF K!options, K!kernel, K!walk
<1>2. KTypeOK /\ kprog \notin ByInterfaces
  BY DEF KInv, K!Asking, ByInterfaces
<1>3. KTable' /\ (kprog' # "ioctl" => links')
  BY <1>1, <1>2 DEF KTypeOK, KTable
<1>4. KTypeOK'
  BY <1>1, <1>2, <1>3 DEF KTypeOK
<1>5. K!DiesOf' /\ Measured'
  BY <1>1 DEF K!DiesOf, Measured
<1>6. IoctlInv' /\ SysctlInv' /\ NamesInv' /\ Copied'
  BY <1>1, OfOthers
<1>7. QED BY <1>4, <1>5, <1>6 DEF KInv

\* The answers to a dump number down to 0.
LEMMA KAsk ==
  ASSUME KInv, K!Ask
  PROVE  KInv'
<1>1. kprog \in K!Asking /\ kpc = "ask" /\ KTypeOK /\ AsksInv
  BY DEF KInv, K!Ask
<1>2. /\ UNCHANGED <<K!options, K!kernel, K!walk>> /\ kprog' = kprog
      /\ klist' = klist /\ kqueue' = kqueue /\ dropped' = dropped
  BY DEF K!Ask, K!options
<1>3. klist \in Seq(Msgs) /\ owed \in Seq(Msgs) /\ kqueue \in Seq(Msgs) /\ dropped \in BOOLEAN
  BY <1>1 DEF KTypeOK
<1>4. klist = <<>> /\ (kprog = "dump" => Mine(kqueue) = {})
  BY <1>1 DEF AsksInv, DumpInv
<1>5. CASE kprog = "getrt" /\ kpc' = "dead" /\ owed' = owed
  <2>1. AsksInv'
    BY <1>2, <1>4, <1>5 DEF AsksInv
  <2>2. QED BY <1>1, <1>2, <1>3, <1>5, <2>1, AskerOnly
<1>6. ASSUME kpc' = "read",
             NEW n \in 1 .. (IF kprog = "dump" THEN MaxOwn ELSE 1),
             owed' = [k \in 1..n |-> K!Message("me", "asked", IF kprog = "dump" THEN n - k ELSE K!AskedSeq)]
      PROVE  KInv'
  <2>1. n \in Nat \ {0} /\ (kprog = "dump" => n \in 1..MaxOwn)
    BY <1>6, KernelAssumption
  <2>2. \A k \in 1..n : n - k \in Nat
    BY <2>1
  <2>3. K!AskedSeq \in Nat
    BY DEF K!AskedSeq, K!SEQ
  <2> DEFINE no(k) == IF kprog = "dump" THEN n - k ELSE K!AskedSeq
             ms == [k \in 1..n |-> K!Message("me", "asked", no(k))]
  <2>4. \A k \in 1..n : no(k) \in Nat /\ (kprog = "dump" => no(k) = n - k)
    BY <2>2, <2>3
  <2>5. owed' = ms
    BY <1>6
  <2> HIDE DEF no
  <2>6. \A k \in 1..n : ms[k] \in Msgs /\ ms[k].pid = "me" /\ ms[k].seq = no(k)
    BY <2>4 DEF K!Message, Msgs
  <2>7. ms \in [1..n -> Msgs]
    BY <2>6
  <2> HIDE DEF ms
  <2>8. ms \in Seq(Msgs) /\ Len(ms) = n
    BY <2>1, <2>7
  <2>9. ASSUME kprog = "dump" PROVE Dumping(n, n, n)'
    <3>1. n .. n - 1 = {}
      BY <2>1
    <3>2. Down(kqueue, n, n)
      BY <1>4, <2>9, <3>1 DEF Down
    <3>3. Down(klist, n, n)
      <4>1. Len(klist) = 0 /\ \A k \in 1..0 : FALSE
        BY <1>4
      <4>2. Mine(klist) = {}
        BY <4>1 DEF Mine
      <4>3. QED BY <3>1, <4>2 DEF Down
    <3>4. Down(kqueue, n, n)' /\ Down(klist, n, n)'
      BY <1>2, <3>2, <3>3 DEF Down, Mine
    <3>5. \A k \in 1..n : ms[k].pid = "me" /\ ms[k].seq = n - k
      BY <2>4, <2>6, <2>9
    <3>6. QED BY <2>5, <2>8, <3>4, <3>5 DEF Dumping
  <2>10. ASSUME kprog = "dump" PROVE DumpInv'
    <3>1. n \in 1..MaxOwn /\ n \in 0..n
      BY <2>1, <2>10
    <3>2. QED BY <1>6, <2>9, <2>10, <3>1 DEF DumpInv
  <2>11. AsksInv'
    BY <1>2, <1>4, <1>6, <2>10 DEF AsksInv
  <2>12. QED BY <1>1, <1>2, <1>3, <1>6, <2>5, <2>8, <2>11, AskerOnly
<1>7. \/ kprog = "getrt" /\ kpc' = "dead" /\ owed' = owed
      \/ /\ kpc' = "read"
         /\ \E n \in 1 .. (IF kprog = "dump" THEN MaxOwn ELSE 1) :
              owed' = [k \in 1..n |-> K!Message("me", "asked", IF kprog = "dump" THEN n - k ELSE K!AskedSeq)]
  BY DEF K!Ask
<1>8. QED BY <1>5, <1>6, <1>7

\* An answer comes to the socket, or is lost.
LEMMA KAnswer ==
  ASSUME KInv, K!Answer
  PROVE  KInv'
<1> DEFINE m == Head(owed)
           t == Tail(owed)
<1>1. KTypeOK /\ AsksInv /\ owed # <<>> /\ owed' = t
  BY DEF KInv, K!Answer
<1>2. /\ UNCHANGED <<K!options, K!kernel, K!walk>> /\ kpc' = kpc /\ klist' = klist
      /\ UNCHANGED <<kprog, doaliases, links, strict, wanted, present, up, naddr, touched>>
      /\ UNCHANGED <<size, lastlen, buf, kpos, lastname, sdlname, alias>>
  BY DEF K!Answer, K!options, K!kernel, K!walk
<1>3. owed \in Seq(Msgs) /\ kqueue \in Seq(Msgs) /\ dropped \in BOOLEAN
  BY <1>1 DEF KTypeOK
<1>4. /\ m \in Msgs /\ m = owed[1] /\ t \in Seq(Msgs) /\ Len(t) = Len(owed) - 1 /\ Len(owed) \in Nat /\ Len(owed) # 0
      /\ \A k \in 1..Len(t) : t[k] = owed[k + 1]
  BY <1>1, <1>3
<1>5. \/ kqueue' = Append(kqueue, m) /\ dropped' = dropped
      \/ kqueue' = kqueue /\ dropped' = TRUE
  BY DEF K!Answer
<1> HIDE DEF m, t
<1>6. Append(kqueue, m) \in Seq(Msgs)
  BY <1>3, <1>4
<1>7. KTypeOK'
  <2>1. owed' \in Seq(Msgs) /\ kqueue' \in Seq(Msgs) /\ dropped' \in BOOLEAN
    BY <1>1, <1>3, <1>4, <1>5, <1>6
  <2>2. KTable'
    BY <1>1, <1>2 DEF KTypeOK, KTable
  <2>3. QED BY <1>1, <1>2, <2>1, <2>2 DEF KTypeOK
<1>8. ASSUME kprog = "dump" PROVE DumpInv'
  <2>1. DumpInv /\ kpc # "ask"
    BY <1>1, <1>8 DEF AsksInv, DumpInv, K!Asking
  <2>2. ASSUME kpc = "read", ~dropped'
        PROVE  \E n \in 1..MaxOwn : \E b \in 0..n : \E c \in 0..b : Dumping(n, b, c)'
    <3>1. ~dropped /\ kqueue' = Append(kqueue, m)
      BY <1>5, <2>2
    <3>2. PICK n \in 1..MaxOwn : \E b \in 0..n : \E c \in 0..b : Dumping(n, b, c)
      BY <2>1, <2>2, <3>1 DEF DumpInv
    <3>3. PICK b \in 0..n : \E c \in 0..b : Dumping(n, b, c)
      BY <3>2
    <3>4. PICK c \in 0..b : Dumping(n, b, c)
      BY <3>3
    <3>5. /\ Len(owed) = c /\ \A k \in 1..c : owed[k].pid = "me" /\ owed[k].seq = c - k
          /\ Down(kqueue, c, b) /\ Down(klist, b, n)
      BY <3>4 DEF Dumping
    <3>6. c \in Nat /\ c > 0 /\ b \in Nat /\ c <= b /\ c - 1 \in 0..b /\ 1 \in 1..c
      BY <1>4, <3>5
    <3>7. m.pid = "me" /\ m.seq = c - 1
      BY <1>4, <3>5, <3>6
    <3>8. Down(Append(kqueue, m), c - 1, b)
      BY <1>3, <1>4, <3>5, <3>6, <3>7, DownAppended
    <3>9. ASSUME NEW k \in 1 .. c - 1 PROVE t[k].pid = "me" /\ t[k].seq = (c - 1) - k
      <4>1. k \in 1..Len(t) /\ k + 1 \in 1..c /\ c - (k + 1) = (c - 1) - k
        BY <1>4, <3>5, <3>6
      <4>2. QED BY <1>4, <3>5, <4>1
    <3>10. Down(kqueue, c - 1, b)' /\ Down(klist, b, n)'
      BY <1>2, <3>1, <3>5, <3>8 DEF Down, Mine
    <3>11. Len(t) = c - 1
      BY <1>4, <3>5
    <3>12. Dumping(n, b, c - 1)'
      BY <1>1, <3>9, <3>10, <3>11 DEF Dumping
    <3>13. QED BY <3>6, <3>12
  <2>3. ASSUME kpc = "done" PROVE dropped' \/ klist[Len(klist)].pid = "other" \/ \E n \in 1..MaxOwn : Down(klist, 0, n)
    BY <1>5, <2>1, <2>3 DEF DumpInv
  <2>4. QED BY <1>2, <2>1, <2>2, <2>3 DEF DumpInv, Down, Mine
<1>9. AsksInv'
  BY <1>1, <1>2, <1>8 DEF AsksInv
<1>10. K!DiesOf' /\ Copied' /\ Measured' /\ IoctlInv' /\ SysctlInv' /\ NamesInv'
  BY <1>2, SocketOnly DEF KInv
<1>11. QED BY <1>7, <1>9, <1>10 DEF KInv

\* What others ask for is not an answer.
LEMMA NotMine ==
  ASSUME NEW q \in Seq(Msgs), NEW m \in Msgs, m.pid # "me"
  PROVE  Mine(Append(q, m)) = Mine(q)
<1> DEFINE r == Append(q, m)
<1>1. /\ Len(q) \in Nat /\ r[Len(r)] = m
      /\ \A k \in 1..Len(q) : r[k] = q[k] /\ k \in 1..Len(r)
      /\ \A k \in 1..Len(r) : k \in 1..Len(q) \/ k = Len(r)
  BY OneListed
<1> HIDE DEF r
<1>2. \A k \in Mine(r) : k \in Mine(q)
  BY <1>1 DEF Mine
<1>3. \A k \in Mine(q) : k \in Mine(r)
  BY <1>1 DEF Mine
<1>4. QED BY <1>2, <1>3 DEF r

\* News to everybody keep the invariant: what is one's own stays in order.
LEMMA KNews ==
  ASSUME KInv, K!News
  PROVE  KInv'
<1>1. kprog \in K!Asking /\ kpc \in {"ask", "read"} /\ KTypeOK /\ AsksInv
  BY DEF KInv, K!News
<1>2. /\ UNCHANGED <<K!options, K!kernel, K!walk>> /\ kprog' = kprog
      /\ kpc' = kpc /\ klist' = klist /\ owed' = owed /\ dropped' = dropped
  BY DEF K!News, K!options
<1>3. klist \in Seq(Msgs) /\ owed \in Seq(Msgs) /\ kqueue \in Seq(Msgs) /\ dropped \in BOOLEAN
  BY <1>1 DEF KTypeOK
<1>4. PICK type \in {"asked", "told"}, seq \in {0, 1, K!SEQ} :
        kqueue' = IF Len(kqueue) < Room THEN Append(kqueue, K!Message("other", type, seq)) ELSE kqueue
  BY DEF K!News
<1> DEFINE m == K!Message("other", type, seq)
<1>5. m \in Msgs /\ m.pid # "me"
  BY DEF K!Message, Msgs, K!SEQ
<1>6. kqueue' = kqueue \/ kqueue' = Append(kqueue, m)
  BY <1>4
<1> HIDE DEF m
<1>7. kqueue' \in Seq(Msgs)
  <2>1. Append(kqueue, m) \in Seq(Msgs)
    BY <1>3, <1>5
  <2>2. QED BY <1>3, <1>6, <2>1
<1>8. Mine(kqueue') = Mine(kqueue)
  BY <1>3, <1>5, <1>6, NotMine
<1>9. ASSUME NEW lo \in Nat, NEW hi \in Nat, lo <= hi, Down(kqueue, lo, hi) PROVE Down(kqueue', lo, hi)
  BY <1>3, <1>5, <1>6, <1>9, DownAppended
<1>10. ASSUME kprog = "dump" PROVE DumpInv'
  <2>1. DumpInv
    BY <1>1, <1>10 DEF AsksInv
  <2>2. kpc = "ask" => klist = <<>> /\ owed = <<>> /\ Mine(kqueue)' = {}
    <3>1. Mine(kqueue)' = Mine(kqueue')
      BY DEF Mine
    <3>2. QED BY <1>8, <2>1, <3>1 DEF DumpInv
  <2>3. ASSUME kpc = "read", ~dropped
        PROVE  \E n \in 1..MaxOwn : \E b \in 0..n : \E c \in 0..b : Dumping(n, b, c)'
    <3>1. PICK n \in 1..MaxOwn : \E b \in 0..n : \E c \in 0..b : Dumping(n, b, c)
      BY <2>1, <2>3 DEF DumpInv
    <3>2. PICK b \in 0..n : \E c \in 0..b : Dumping(n, b, c)
      BY <3>1
    <3>3. PICK c \in 0..b : Dumping(n, b, c)
      BY <3>2
    <3>4. c \in Nat /\ b \in Nat /\ c <= b
      OBVIOUS
    <3>5. Down(kqueue', c, b)
      BY <1>9, <3>3, <3>4 DEF Dumping
    <3>6. Down(kqueue, c, b)' /\ Down(klist, b, n)'
      BY <1>2, <3>3, <3>5 DEF Down, Mine, Dumping
    <3>7. Dumping(n, b, c)'
      BY <1>2, <3>3, <3>6 DEF Dumping
    <3>8. QED BY <3>7
  <2>4. QED BY <1>1, <1>2, <2>2, <2>3 DEF DumpInv
<1>11. AsksInv'
  BY <1>1, <1>2, <1>10 DEF AsksInv
<1>12. QED BY <1>1, <1>2, <1>3, <1>7, <1>11, AskerOnly

\* A message is read.  As long as none was lost, those of a dump come in order.
LEMMA KRead ==
  ASSUME KInv, K!Read
  PROVE  KInv'
<1> DEFINE m == Head(kqueue)
           t == Tail(kqueue)
<1>1. kpc = "read" /\ KTypeOK /\ AsksInv /\ kprog \in K!Asking /\ kqueue # <<>> /\ kqueue' = t
  <2>1. kpc = "read" /\ KTypeOK /\ AsksInv /\ IoctlInv /\ SysctlInv /\ NamesInv /\ kqueue # <<>> /\ kqueue' = t
    BY DEF KInv, K!Read
  <2>2. kprog \in K!Asking
    BY <2>1 DEF KTypeOK, IoctlInv, SysctlInv, NamesInv
  <2>3. QED BY <2>1, <2>2
<1>2. UNCHANGED <<K!options, K!kernel, K!walk>> /\ kprog' = kprog /\ owed' = owed /\ dropped' = dropped
  BY DEF K!Read, K!options
<1>3. /\ klist' = (IF kprog = "dump" \/ K!Own(m) THEN Append(klist, m) ELSE klist)
      /\ kpc' = IF (IF kprog = "dump" THEN m.seq = 0 ELSE K!Own(m)) THEN "done" ELSE "read"
  BY DEF K!Read
<1>4. klist \in Seq(Msgs) /\ owed \in Seq(Msgs) /\ kqueue \in Seq(Msgs) /\ dropped \in BOOLEAN
  BY <1>1 DEF KTypeOK
<1>5. m \in Msgs /\ t \in Seq(Msgs)
  BY <1>1, <1>4
<1>6. K!Own(m) => m.pid = "me"
  BY DEF K!Own
<1>7. ASSUME kprog = "dump", ~dropped
      PROVE  IF kpc' = "read" THEN \E n \in 1..MaxOwn : \E b \in 0..n : \E c \in 0..b : Dumping(n, b, c)'
             ELSE klist'[Len(klist')].pid = "other" \/ \E n \in 1..MaxOwn : Down(klist', 0, n)
  <2>1. DumpInv
    BY <1>1, <1>7 DEF AsksInv
  <2>2. PICK n \in 1..MaxOwn : \E b \in 0..n : \E c \in 0..b : Dumping(n, b, c)
    BY <1>1, <1>7, <2>1 DEF DumpInv
  <2>3. PICK b \in 0..n : \E c \in 0..b : Dumping(n, b, c)
    BY <2>2
  <2>4. PICK c \in 0..b : Dumping(n, b, c)
    BY <2>3
  <2>5. /\ Len(owed) = c /\ \A k \in 1..c : owed[k].pid = "me" /\ owed[k].seq = c - k
        /\ Down(kqueue, c, b) /\ Down(klist, b, n)
    BY <2>4 DEF Dumping
  <2>6. c \in Nat /\ b \in Nat /\ n \in Nat /\ c <= b /\ b <= n
    BY KernelAssumption
  <2>7. klist' = Append(klist, m)
    BY <1>3, <1>7
  <2>8. /\ m.pid # "me" => Down(t, c, b)
        /\ m.pid = "me" => b - 1 \in Nat /\ c <= b - 1 /\ m.seq = b - 1 /\ Down(t, c, b - 1)
    BY <1>1, <1>4, <2>5, <2>6, DownTaken
  <2>9. klist'[Len(klist')] = m
    BY <1>4, <1>5, <2>7, OneListed
  <2> HIDE DEF m, t
  <2>10. CASE m.pid # "me"
    <3>1. Down(Append(klist, m), b, n)
      BY <1>4, <1>5, <2>5, <2>6, <2>10, DownAppended
    <3>2. Down(kqueue, c, b)' /\ Down(klist, b, n)'
      BY <1>1, <2>7, <2>8, <2>10, <3>1 DEF Down, Mine
    <3>3. Dumping(n, b, c)'
      BY <1>2, <2>5, <3>2 DEF Dumping
    <3>4. klist'[Len(klist')].pid = "other"
      BY <1>5, <2>9, <2>10 DEF Msgs
    <3>5. QED BY <3>3, <3>4
  <2>11. CASE m.pid = "me"
    <3>1. b - 1 \in Nat /\ c <= b - 1 /\ m.seq = b - 1 /\ Down(t, c, b - 1) /\ b > 0
      BY <2>6, <2>8, <2>11
    <3>2. Down(Append(klist, m), b - 1, n)
      BY <1>4, <1>5, <2>5, <2>6, <2>11, <3>1, DownAppended
    <3>3. Down(kqueue, c, b - 1)' /\ Down(klist, b - 1, n)'
      BY <1>1, <2>7, <3>1, <3>2 DEF Down, Mine
    <3>4. Dumping(n, b - 1, c)'
      BY <1>2, <2>5, <3>3 DEF Dumping
    <3>5. b - 1 \in 0..n /\ c \in 0 .. b - 1
      BY <2>6, <3>1
    <3>6. m.seq = 0 => Down(klist', 0, n)
      <4>1. m.seq = 0 => b - 1 = 0
        BY <3>1
      <4>2. QED BY <2>7, <3>2, <4>1
    <3>7. kpc' = "read" \/ m.seq = 0
      BY <1>3, <1>7
    <3>8. CASE kpc' = "read"
      BY <3>4, <3>5, <3>8
    <3>9. CASE kpc' # "read"
      BY <3>6, <3>7, <3>9
    <3>10. QED BY <3>8, <3>9
  <2>12. QED BY <2>10, <2>11
<1>8. klist' \in Seq(Msgs)
  <2>1. Append(klist, m) \in Seq(Msgs)
    BY <1>4, <1>5
  <2>2. QED BY <1>3, <1>4, <2>1
<1>9. kpc' \in {"read", "done"}
  BY <1>3
<1>10. ASSUME kprog # "dump"
       PROVE  IF kpc' = "done" THEN Len(klist') = 1 /\ klist'[1].pid = "me" ELSE klist' = <<>>
  <2>1. klist = <<>>
    BY <1>1, <1>10 DEF AsksInv
  <2>2. CASE K!Own(m)
    <3>1. kpc' = "done" /\ klist' = Append(klist, m) /\ m.pid = "me"
      BY <1>3, <1>6, <1>10, <2>2
    <3> HIDE DEF m
    <3>2. Len(klist) = 0 /\ Len(klist') = Len(klist) + 1 /\ klist'[Len(klist')] = m
      BY <1>4, <1>5, <2>1, <3>1, OneListed
    <3>3. QED BY <3>1, <3>2
  <2>3. CASE ~K!Own(m)
    BY <1>3, <1>10, <2>1, <2>3
  <2>4. QED BY <2>2, <2>3
<1>11. ASSUME kprog = "dump" PROVE DumpInv'
  <2>1. ASSUME kpc' = "read", ~dropped'
        PROVE  \E n \in 1..MaxOwn : \E b \in 0..n : \E c \in 0..b : Dumping(n, b, c)'
    BY <1>2, <1>7, <1>11, <2>1
  <2>2. ASSUME kpc' = "done"
        PROVE  dropped' \/ klist'[Len(klist')].pid = "other" \/ \E n \in 1..MaxOwn : Down(klist, 0, n)'
    <3>1. \A n : Down(klist, 0, n)' <=> Down(klist', 0, n)
      BY DEF Down, Mine
    <3>2. QED BY <1>2, <1>7, <1>11, <2>2, <3>1
  <2>3. QED BY <1>9, <2>1, <2>2 DEF DumpInv
<1>12. AsksInv'
  BY <1>2, <1>9, <1>10, <1>11 DEF AsksInv
<1>13. QED BY <1>1, <1>2, <1>4, <1>5, <1>8, <1>9, <1>12, AskerOnly

-----------------------------------------------------------------------------
\* Every step keeps the invariant.
LEMMA KStep ==
  ASSUME KInv, K!Next \/ UNCHANGED info
  PROVE  KInv'
<1>1. CASE K!Conf
  BY <1>1, KConf
<1>2. CASE K!Entry \/ K!Detail \/ K!Return
  BY <1>2, KEntry, KDetail, KReturn
<1>3. CASE K!Length \/ K!Fetch \/ K!Record \/ K!Names
  BY <1>3, KLength, KFetch, KRecord, KNames
<1>4. CASE K!Ask \/ K!Read \/ K!Answer \/ K!News
  BY <1>4, KAsk, KRead, KAnswer, KNews
<1>5. CASE \E n \in K!Ifs : K!Change(n)
  BY <1>5, KChangeInv
<1>6. CASE UNCHANGED info
  <2>1. /\ UNCHANGED <<kprog, doaliases, links, strict, wanted, present, up, naddr, touched>>
        /\ UNCHANGED <<kpc, size, lastlen, buf, kpos, lastname, sdlname, alias, klist, owed, kqueue, dropped>>
    BY <1>6 DEF info
  <2>2. KTypeOK'
    BY <2>1 DEF KInv, KTypeOK, KTable
  <2>3. AsksInv'
    <3>1. Mine(klist)' = Mine(klist) /\ Mine(kqueue)' = Mine(kqueue)
      BY <2>1 DEF Mine
    <3>2. \A lo, hi : Down(klist, lo, hi)' = Down(klist, lo, hi) /\ Down(kqueue, lo, hi)' = Down(kqueue, lo, hi)
      BY <2>1, <3>1 DEF Down
    <3>3. \A n, b, c : Dumping(n, b, c)' = Dumping(n, b, c)
      BY <2>1, <3>2 DEF Dumping
    <3>4. DumpInv' = DumpInv
      BY <2>1, <3>1, <3>2, <3>3 DEF DumpInv
    <3>5. QED BY <2>1, <3>4 DEF KInv, AsksInv
  <2>4. QED BY <2>1, <2>2, <2>3, SocketOnly DEF KInv
<1>7. QED BY <1>1, <1>2, <1>3, <1>4, <1>5, <1>6 DEF K!Next, K!Program

\* Only SIOCGIFCONF fills the buffer of the program that uses it.
LEMMA OnlyConf ==
  ASSUME KInv, K!Next \/ UNCHANGED info
  PROVE  K!TakesWhole
<1>1. SUFFICES ASSUME kprog = "ioctl", kpc = "ask", kpc' = "walk" PROVE buf' = K!Listing
  BY DEF K!TakesWhole
<1>2. CASE K!Conf
  BY <1>1, <1>2, KConf
<1>3. ~(K!Entry \/ K!Detail \/ K!Return \/ K!Length \/ K!Fetch \/ K!Record \/ K!Names)
  BY <1>1 DEF K!Entry, K!Detail, K!Return, K!Length, K!Fetch, K!Record, K!Names
<1>4. ~(K!Ask \/ K!Read \/ K!News)
  BY <1>1 DEF K!Ask, K!Read, K!News, K!Asking
<1>5. kpc' # kpc
  BY <1>1
<1>6. ~K!Answer /\ ~(UNCHANGED info) /\ ~(\E n \in K!Ifs : K!Change(n))
  BY <1>5 DEF K!Answer, info, K!Change
<1>7. QED BY <1>2, <1>3, <1>4, <1>6 DEF K!Next, K!Program

-----------------------------------------------------------------------------
\* What is listed of an interface is what there is, if it is listed only so and all of
\* it is.
LEMMA WholeOf ==
  ASSUME KTypeOK, Copy(buf), NEW n \in K!Ifs \ touched, NEW mine \in SUBSET (1..Len(klist)),
         \A k \in mine : /\ n \in up /\ (doaliases \/ klist[k].addr = 1)
                         /\ \E j \in 1..Len(buf) :
                              buf[j].addr > 0 /\ buf[j].name = n /\ buf[j].addr = klist[k].addr,
         n \in up => \A j \in 1..Len(buf) :
                       buf[j] = Rec(n, buf[j].addr) /\ buf[j].addr > 0 /\ (doaliases \/ buf[j].addr = 1) =>
                         \E k \in mine : klist[k].addr = buf[j].addr
  PROVE  {klist[k].addr : k \in mine} = 1..K!Expected(n)
<1>1. naddr[n] \in Nat /\ FirstOf \in {0, 1} /\ up \in SUBSET present /\ doaliases \in BOOLEAN
  BY KernelAssumption DEF KTypeOK, KTable, FirstOf
<1>2. K!Expected(n) = IF n \notin up THEN 0 ELSE IF doaliases \/ naddr[n] = 0 THEN naddr[n] ELSE 1
  BY DEF K!Expected
<1>3. \A j \in 1..Len(buf) : buf[j].addr \in Nat
  <2>1. \A j \in 1..Len(buf) : buf[j] \in Recs
    BY DEF KTypeOK
  <2>2. QED BY <2>1, KernelAssumption DEF Recs
<1>4. ASSUME NEW k \in mine PROVE klist[k].addr \in 1..K!Expected(n)
  <2>1. PICK j \in 1..Len(buf) : buf[j].addr > 0 /\ buf[j].name = n /\ buf[j].addr = klist[k].addr
    OBVIOUS
  <2>2. buf[j].addr <= naddr[n]
    BY <2>1 DEF Copy
  <2>3. n \in up /\ (doaliases \/ klist[k].addr = 1)
    OBVIOUS
  <2>4. QED BY <1>1, <1>2, <1>3, <2>1, <2>2, <2>3
<1>5. ASSUME NEW a \in 1..K!Expected(n) PROVE a \in {klist[k].addr : k \in mine}
  <2>1. n \in up
    <3>1. SUFFICES ASSUME n \notin up PROVE FALSE
      OBVIOUS
    <3>2. K!Expected(n) = 0
      BY <1>2, <3>1
    <3>3. QED BY <3>2
  <2>2. a \in Nat /\ a > 0 /\ a <= naddr[n] /\ (doaliases \/ a = 1)
    <3>1. CASE doaliases \/ naddr[n] = 0
      <4>1. K!Expected(n) = naddr[n]
        BY <1>2, <2>1, <3>1
      <4>2. QED BY <1>1, <3>1, <4>1
    <3>2. CASE ~(doaliases \/ naddr[n] = 0)
      <4>1. K!Expected(n) = 1
        BY <1>2, <2>1, <3>2
      <4>2. QED BY <1>1, <3>2, <4>1
    <3>3. QED BY <3>1, <3>2
  <2>3. n \in present \ touched /\ a \in FirstOf..naddr[n]
    BY <1>1, <2>1, <2>2
  <2>4. PICK j \in 1..Len(buf) : buf[j] = Rec(n, a)
    BY <2>3 DEF Copy
  <2>5. Rec(n, a).addr = a
    BY DEF Rec
  <2>6. buf[j].addr = a /\ buf[j] = Rec(n, buf[j].addr)
    BY <2>4, <2>5
  <2>7. QED BY <2>1, <2>2, <2>6
<1>6. \A a \in {klist[k].addr : k \in mine} : a \in 1..K!Expected(n)
  BY <1>4
<1>7. QED BY <1>5, <1>6

\* A list that is complete when the buffer has been walked over.
LEMMA CompleteIs ==
  ASSUME KInv
  PROVE  K!Complete
<1>1. SUFFICES ASSUME K!Walked, NEW n \in K!Ifs \ touched
               PROVE  LET mine == {k \in DOMAIN klist : klist[k].of = n /\ klist[k].name = n}
                      IN /\ {klist[k].addr : k \in mine} = 1..K!Expected(n)
                         /\ \A k, l \in mine : k < l => klist[k].addr < klist[l].addr
                         /\ kprog = "ioctl" => \A k \in mine : klist[k].alias = (klist[k].addr > 1)
  BY DEF K!Complete
<1> DEFINE mine == {k \in DOMAIN klist : klist[k].of = n /\ klist[k].name = n}
<1>2. /\ kprog \in {"ioctl", "sysctl"} /\ kpc \in {"done", "quit"} /\ KTypeOK /\ Copied /\ IoctlInv /\ SysctlInv
      /\ n \in Nat \ {0}
  BY <1>1, KernelAssumption DEF K!Walked, KInv, K!Ifs
<1>3. Proper(buf) /\ Copy(buf) /\ buf \in Seq(Recs) /\ klist \in Seq(Ents)
  BY <1>2 DEF Copied, K!Asking, KTypeOK, ByInterfaces
<1>4. kpos = Len(buf) + 1 /\ Len(buf) \in Nat /\ kpos - 1 = Len(buf)
  <2>1. kpos = Len(buf) + 1
    BY <1>2 DEF IoctlInv, SysctlInv
  <2>2. Len(buf) \in Nat
    BY <1>3
  <2>3. QED BY <2>1, <2>2
<1>5. DOMAIN klist = 1..Len(klist) /\ mine \in SUBSET (1..Len(klist))
  BY <1>3
<1>6. \A k \in mine : klist[k].of = n /\ klist[k].name = n
  OBVIOUS
<1>7. \A k \in 1..Len(klist) : klist[k].of = n /\ klist[k].name = n => k \in mine
  BY <1>5
<1>8. \A a : Rec(n, a).name = n /\ Rec(n, a).up = (n \in up)
  BY DEF Rec
<1> HIDE DEF mine
<1>9. CASE kprog = "ioctl"
  <2>1. Listed
    BY <1>2, <1>9 DEF IoctlInv
  <2>2. ASSUME NEW k \in mine
        PROVE  /\ n \in up /\ (doaliases \/ klist[k].addr = 1)
               /\ klist[k].alias <=> klist[k].addr > 1
               /\ \E j \in 1..Len(buf) :
                    buf[j].addr > 0 /\ buf[j].name = n /\ buf[j].addr = klist[k].addr
    <3>1. EntryOf(klist[k])
      BY <1>5, <2>1 DEF Listed
    <3>2. QED BY <1>1, <1>4, <1>6, <3>1 DEF EntryOf
  <2>3. ASSUME n \in up, NEW j \in 1..Len(buf),
               buf[j] = Rec(n, buf[j].addr) /\ buf[j].addr > 0 /\ (doaliases \/ buf[j].addr = 1)
        PROVE  \E k \in mine : klist[k].addr = buf[j].addr
    <3>1. buf[j].name = n
      BY <1>8, <2>3
    <3>2. PICK k \in 1..Len(klist) : klist[k].name = n /\ klist[k].addr = buf[j].addr
      BY <1>1, <1>4, <2>1, <2>3, <3>1 DEF Listed
    <3>3. klist[k].of = n
      BY <2>1, <3>2 DEF Listed, EntryOf
    <3>4. QED BY <1>7, <3>2, <3>3
  <2>4. {klist[k].addr : k \in mine} = 1..K!Expected(n)
    BY <1>2, <1>3, <1>5, <2>2, <2>3, WholeOf
  <2>5. \A k, l \in mine : k < l => klist[k].addr < klist[l].addr
    BY <1>5, <1>6, <2>1 DEF Listed
  <2>6. \A k \in mine : klist[k].alias = (klist[k].addr > 1)
    <3>1. \A k \in mine : klist[k].alias \in BOOLEAN
      <4>1. \A k \in mine : klist[k] \in Ents
        BY <1>3, <1>5
      <4>2. QED BY <4>1 DEF Ents
    <3>2. QED BY <2>2, <3>1
  <2>7. QED BY <2>4, <2>5, <2>6 DEF mine
<1>10. CASE kprog = "sysctl"
  <2>1. Gathered
    BY <1>2, <1>10 DEF SysctlInv
  <2>2. ASSUME NEW k \in mine
        PROVE  /\ n \in up /\ (doaliases \/ klist[k].addr = 1)
               /\ \E j \in 1..Len(buf) :
                    buf[j].addr > 0 /\ buf[j].name = n /\ buf[j].addr = klist[k].addr
    <3>1. NameOfUp(klist[k]) /\ AddrOf(klist[k])
      BY <1>5, <2>1 DEF Gathered
    <3>2. PICK j \in 1..Len(buf) : buf[j].up /\ buf[j].name = n
      BY <1>2, <1>4, <1>6, <3>1 DEF NameOfUp
    <3>3. buf[j] = Rec(n, buf[j].addr)
      BY <1>1, <1>3, <3>2 DEF Copy
    <3>4. n \in up
      <4>1. Rec(n, buf[j].addr).up
        BY <3>2, <3>3
      <4>2. QED BY <1>8, <4>1
    <3>5. QED BY <1>2, <1>4, <1>6, <3>1, <3>4 DEF AddrOf
  <2>3. ASSUME n \in up, NEW j \in 1..Len(buf),
               buf[j] = Rec(n, buf[j].addr) /\ buf[j].addr > 0 /\ (doaliases \/ buf[j].addr = 1)
        PROVE  \E k \in mine : klist[k].addr = buf[j].addr
    <3>1. buf[j].name = n /\ buf[j].up
      BY <1>8, <2>3
    <3>2. PICK k \in 1..Len(klist) :
            klist[k].name = n /\ klist[k].of = n /\ klist[k].addr = buf[j].addr
      BY <1>4, <2>1, <2>3, <3>1 DEF Gathered
    <3>3. QED BY <1>7, <3>2
  <2>4. {klist[k].addr : k \in mine} = 1..K!Expected(n)
    BY <1>2, <1>3, <1>5, <2>2, <2>3, WholeOf
  <2>5. \A k, l \in mine : k < l => klist[k].addr < klist[l].addr
    BY <1>2, <1>5, <1>6, <2>1 DEF Gathered
  <2>6. QED BY <1>10, <2>4, <2>5 DEF mine
<1>11. QED BY <1>2, <1>9, <1>10

\* An address that is with another interface is of one that is down or was touched.
LEMMA MisplacedIs ==
  ASSUME KInv
  PROVE  K!Misplaced
<1>1. SUFFICES ASSUME K!Walked, NEW k \in DOMAIN klist, klist[k].of \notin {0, klist[k].name}
               PROVE  kprog = "sysctl" /\ (klist[k].of \in touched \/ klist[k].of \notin up)
  BY DEF K!Misplaced
<1>2. /\ kprog \in {"ioctl", "sysctl"} /\ kpc \in {"done", "quit"} /\ KTypeOK /\ Copied /\ IoctlInv /\ SysctlInv
  BY <1>1 DEF K!Walked, KInv
<1>3. Copy(buf) /\ buf \in Seq(Recs) /\ klist \in Seq(Ents)
  BY <1>2 DEF Copied, K!Asking, KTypeOK, ByInterfaces
<1>4. k \in 1..Len(klist)
  BY <1>1, <1>3
<1>5. CASE kprog = "ioctl"
  <2>1. EntryOf(klist[k])
    BY <1>2, <1>4, <1>5 DEF IoctlInv, Listed
  <2>2. QED BY <1>1, <2>1 DEF EntryOf
<1>6. CASE kprog = "sysctl"
  <2>1. kpos - 1 = Len(buf)
    <3>1. kpos = Len(buf) + 1
      BY <1>2, <1>6 DEF SysctlInv
    <3>2. Len(buf) \in Nat
      BY <1>3
    <3>3. QED BY <3>1, <3>2
  <2>2. AddrOf(klist[k])
    BY <1>2, <1>4, <1>6 DEF SysctlInv, Gathered
  <2>3. PICK j \in 1..Len(buf) : buf[j].name = klist[k].of /\ ~buf[j].up
    BY <1>1, <2>1, <2>2 DEF AddrOf
  <2>4. SUFFICES ASSUME klist[k].of \notin touched PROVE klist[k].of \notin up
    BY <1>6
  <2>5. buf[j] = Rec(buf[j].name, buf[j].addr)
    BY <1>3, <2>3, <2>4 DEF Copy
  <2>6. ~Rec(buf[j].name, buf[j].addr).up
    BY <2>3, <2>5
  <2>7. QED BY <2>3, <2>6 DEF Rec
<1>7. QED BY <1>2, <1>5, <1>6

\* What is found is there.
LEMMA FoundIs ==
  ASSUME KInv
  PROVE  K!Found
<1>1. SUFFICES ASSUME kprog \in {"names", "lookup"}, kpc = "done", NEW n \in K!Ifs \ touched
               PROVE  n \in {klist[k] : k \in DOMAIN klist}
                        <=> n \in present /\ (kprog = "lookup" => n = wanted)
  BY DEF K!Found
<1>2. KTypeOK /\ Copied /\ NamesInv
  BY DEF KInv
<1>3. Copy(buf) /\ links /\ naddr[n] \in Nat
  BY <1>1, <1>2, KernelAssumption DEF Copied, K!Asking, KTypeOK, KTable
<1>4. n \in {klist[k] : k \in DOMAIN klist} <=> \E j \in 1..Len(buf) : K!Sought(buf[j]) /\ buf[j].name = n
  BY <1>1, <1>2 DEF NamesInv
<1>5. ASSUME NEW j \in 1..Len(buf), K!Sought(buf[j]), buf[j].name = n
      PROVE  n \in present /\ (kprog = "lookup" => n = wanted)
  BY <1>3, <1>5 DEF Copy, K!Sought
<1>6. ASSUME n \in present, kprog = "lookup" => n = wanted
      PROVE  \E j \in 1..Len(buf) : K!Sought(buf[j]) /\ buf[j].name = n
  <2>1. 0 \in FirstOf..naddr[n] /\ n \in present \ touched
    BY <1>3, <1>6 DEF FirstOf
  <2>2. PICK j \in 1..Len(buf) : buf[j] = Rec(n, 0)
    BY <1>3, <2>1 DEF Copy
  <2>3. Rec(n, 0).type = "link" /\ Rec(n, 0).name = n
    BY DEF Rec
  <2>4. QED BY <1>6, <2>2, <2>3 DEF K!Sought
<1>7. QED BY <1>4, <1>5, <1>6

\* Who asks gets his own answer.
LEMMA AnsweredIs ==
  ASSUME KInv
  PROVE  K!Answered
<1>1. SUFFICES ASSUME kprog \in K!Asking, kpc = "done"
               PROVE  LET mine == {k \in DOMAIN klist : klist[k].pid = "me"}
                      IN IF kprog # "dump" THEN Len(klist) = 1 /\ mine = {1}
                         ELSE \/ dropped \/ K!Last(klist).pid = "other"
                              \/ /\ \E n \in 1..MaxOwn : {klist[k].seq : k \in mine} = 0 .. n - 1
                                 /\ \A k, l \in mine : k < l => klist[k].seq > klist[l].seq
  BY DEF K!Answered
<1> DEFINE mine == {k \in DOMAIN klist : klist[k].pid = "me"}
<1>2. KTypeOK /\ AsksInv
  BY DEF KInv
<1>3. klist \in Seq(Msgs)
  BY <1>1, <1>2 DEF KTypeOK
<1>4. DOMAIN klist = 1..Len(klist) /\ mine = Mine(klist)
  BY <1>3 DEF Mine
<1> HIDE DEF mine
<1>5. CASE kprog # "dump"
  <2>1. Len(klist) = 1 /\ klist[1].pid = "me"
    BY <1>1, <1>2, <1>5 DEF AsksInv
  <2>2. \A k : k \in 1..1 <=> k = 1
    OBVIOUS
  <2>3. Mine(klist) = {1}
    BY <2>1, <2>2 DEF Mine
  <2>4. QED BY <1>4, <1>5, <2>1, <2>3 DEF mine
<1>6. CASE kprog = "dump"
  <2>1. dropped \/ klist[Len(klist)].pid = "other" \/ \E n \in 1..MaxOwn : Down(klist, 0, n)
    BY <1>1, <1>2, <1>6 DEF AsksInv, DumpInv
  <2>2. K!Last(klist) = klist[Len(klist)]
    BY DEF K!Last
  <2>3. ASSUME NEW n \in 1..MaxOwn, Down(klist, 0, n)
        PROVE  /\ {klist[k].seq : k \in mine} = 0 .. n - 1
               /\ \A k, l \in mine : k < l => klist[k].seq > klist[l].seq
    BY <1>4, <2>3 DEF Down
  <2>4. QED BY <1>6, <2>1, <2>2, <2>3 DEF mine
<1>7. QED BY <1>5, <1>6

\* KernelRight: the list of interfaces is whole and right for every interface nobody
\* touches, SIOCGIFCONF ends with the whole list whatever happened to it between the
\* calls, and answers are one's own, but for known exceptions: for any number of
\* interfaces, of addresses, of changes and of messages, any first buffer and any
\* growth of it.
THEOREM KernelIsRight == MCSpec => KernelRight
<1>1. MCInit => KInv
  BY KInitInv DEF MCInit
<1>2. MCNext => K!Next \/ UNCHANGED info
  BY DEF MCNext
<1>3. KInv /\ [MCNext]_<<which, vars, daytime, info>> => KInv' /\ [K!TakesWhole]_info
  BY <1>2, KStep, OnlyConf
<1>4. KInv => K!KernelSafe
  BY CompleteIs, MisplacedIs, FoundIs, AnsweredIs DEF K!KernelSafe, KInv
<1>5. QED BY <1>1, <1>3, <1>4, PTL DEF MCSpec, KernelRight
===============================================================================
