-------------------------- MODULE SignalsProofs --------------------------
(***************************************************************************)
(* Proofs about the programs that signals interrupt or kill: the UDP       *)
(* client with timeout and retransmission, for every number of lines and   *)
(* retransmissions, every range of timers and every history of round       *)
(* trips; the clients that stop waiting after a while; the server driven   *)
(* by SIGIO; the heartbeat; and the file server and its children.          *)
(***************************************************************************)
EXTENDS MCSignals, SequenceTheorems, TLAPS

-----------------------------------------------------------------------------
(* The clients that stop waiting. *)

\* A signal is pending only while it is blocked, and the timer that raised it
\* has stopped; so has the timer of whoever finds a byte in the pipe, of which
\* there is one.  "masked" and "pselect" wait with the signal unblocked, and
\* "pselect" does nothing else with it unblocked, after a line; the timers of
\* select() and of the socket run in the call only.
TimedInv ==
  /\ prog \in T!Programs
  /\ pending => blocked /\ ~alarm
  /\ blocked => prog \in {"masked", "pselect"}
  /\ pipe # 0 => pipe = 1 /\ ~alarm /\ prog = "pipe"
  /\ prog = "masked" /\ tpc \in {"open", "in", "open2"} => ~blocked
  /\ prog = "pselect" /\ tpc \notin {"fgets", "in"} => blocked
  /\ prog \in {"select", "rcvtimeo"} /\ alarm => tpc = "in"
  /\ T!AlarmOnce

\* Every step of every program keeps it.
LEMMA TimedStep == ASSUME TimedInv, [T!Next]_(T!vars) PROVE TimedInv'
<1> USE DEF TimedInv, T!AlarmOnce, T!Goto, T!Rest, T!TakeReply
<1>1. CASE T!SendLine
  BY <1>1 DEF T!SendLine, T!Programs, T!Collect, T!Single
<1>2. CASE T!Plain
  BY <1>2 DEF T!Plain
<1>3. CASE T!OneReply
  BY <1>3 DEF T!OneReply
<1>4. CASE T!Masked
  BY <1>4 DEF T!Masked
<1>5. CASE T!Pselect
  BY <1>5 DEF T!Pselect
<1>6. CASE T!Jump
  BY <1>6 DEF T!Jump
<1>7. CASE T!SelfPipe
  BY <1>7 DEF T!SelfPipe
<1>8. CASE T!ReadableTimeo \/ T!RcvTimeo
  BY <1>8 DEF T!ReadableTimeo, T!RcvTimeo
<1>9. CASE T!Expire
  <2>1. CASE blocked
    BY <1>9, <2>1 DEF T!Expire
  <2>2. CASE ~blocked /\ prog = "jump"
    BY <1>9, <2>2 DEF T!Expire, T!LongJump
  <2>3. CASE ~blocked /\ prog = "pipe"
    BY <1>9, <2>3 DEF T!Expire, T!WriteByte
  <2>4. CASE ~blocked /\ prog \notin {"jump", "pipe"}
    BY <1>9, <2>4 DEF T!Expire, T!Interrupt, T!Programs, T!Collect, T!Single
  <2>5. QED BY <2>1, <2>2, <2>3, <2>4
<1>10. CASE \E l \in 1..MaxWaits : T!Arrive(l)
  BY <1>10 DEF T!Arrive, T!client
<1>11. CASE UNCHANGED T!vars
  BY <1>11 DEF T!vars, T!client
<1>12. QED BY <1>1, <1>2, <1>3, <1>4, <1>5, <1>6, <1>7, <1>8, <1>9, <1>10, <1>11 DEF T!Next, T!Client

\* In the beginning no timer runs.
LEMMA TimedStart == ASSUME T!Init PROVE TimedInv
BY DEF T!Init, TimedInv, T!AlarmOnce

-----------------------------------------------------------------------------
(* The signal-driven server. *)

\* The place in the ring that is n places on from iget; n is QSIZE at most.
Place(n) == IF iget + n < QSIZE THEN iget + n ELSE iget + n - QSIZE

\* Datagrams in the ring that have not been sent: the one that has is counted
\* by nqueue until Block.
Unsent == IF mpc = "block" THEN nqueue - 1 ELSE nqueue

\* Types.
SigioTypeOK ==
  /\ mpc \in {"bound", "async", "nonblock", "test", "suspend", "send", "block", "quit"}
  /\ inside \in BOOLEAN
  /\ dg \in [0..QSIZE-1 -> Nat] /\ iget \in 0..QSIZE-1 /\ iput \in 0..QSIZE-1
  /\ nqueue \in 0..QSIZE /\ sockq \in Seq(Nat) /\ narrived \in Nat /\ echoed \in Nat

\* The main loop sends what is there, and the handler runs where it can.
SigioControl ==
  /\ mpc \in {"send", "block"} => nqueue > 0
  /\ inside => mpc \in {"async", "nonblock", "suspend", "send", "block"}

\* Ring and socket are one queue: datagrams in the order in which they go back.
NPending == Unsent + Len(sockq)
Pending(p) == IF p <= Unsent THEN dg[Place(p - 1)] ELSE sockq[p - Unsent]

\* iput is Unsent places on from iget, and numbers rise from the datagram sent
\* last, through ring and socket, to the one that arrived last.
Rising ==
  /\ iput = Place(Unsent) /\ echoed <= narrived
  /\ \A p \in 1..NPending : Pending(p) \in Nat /\ echoed < Pending(p) /\ Pending(p) <= narrived
  /\ \A p, q \in 1..NPending : p < q => Pending(p) < Pending(q)

\* The inductive invariant.
SigioInv == SigioTypeOK /\ SigioControl /\ (mpc # "quit" => Rising)

\* How the indices go on.
LEMMA RingSucc ==
  ASSUME S!RingAssumption, NEW i \in 0..QSIZE-1
  PROVE  S!Succ(i) = IF i + 1 < QSIZE THEN i + 1 ELSE 0
<1> USE DEF S!RingAssumption
<1>1. CASE i + 1 < QSIZE
  BY <1>1, Z3 DEF S!Succ
<1>2. CASE ~(i + 1 < QSIZE)
  <2>1. i + 1 = QSIZE
    BY <1>2
  <2>2. QED BY <2>1, Z3 DEF S!Succ
<1>3. QED BY <1>1, <1>2

\* Arrive: the new number is the greatest.
LEMMA ArriveStep ==
  ASSUME S!RingAssumption, SigioInv, S!Arrive
  PROVE  SigioInv'
<1> USE DEF S!RingAssumption
<1>1. narrived' = narrived + 1 /\ UNCHANGED <<mpc, inside, dg, iget, iput, nqueue, echoed>>
  BY DEF S!Arrive, S!ring
<1>2. sockq' = sockq \/ sockq' = Append(sockq, narrived + 1)
  BY DEF S!Arrive
<1>3. PICK m, n \in Nat : m = Len(sockq) /\ n = Len(sockq')
  BY <1>2, AppendProperties DEF SigioInv, SigioTypeOK
<1>4. /\ sockq' \in Seq(Nat)
      /\ (n = m /\ sockq' = sockq) \/ (n = m + 1 /\ sockq'[m + 1] = narrived + 1)
      /\ \A i \in 1..m : sockq'[i] = sockq[i]
  <2>1. sockq \in Seq(Nat) /\ narrived + 1 \in Nat
    BY DEF SigioInv, SigioTypeOK
  <2>2. CASE sockq' = sockq
    BY <1>3, <2>1, <2>2
  <2>3. CASE sockq' = Append(sockq, narrived + 1)
    <3>1. /\ sockq' \in Seq(Nat) /\ n = m + 1 /\ sockq'[m + 1] = narrived + 1
          /\ \A i \in 1..m : sockq'[i] = sockq[i]
      BY <1>3, <2>1, <2>3, AppendProperties
    <3>2. QED BY <3>1
  <2>4. QED BY <1>2, <2>2, <2>3
<1>5. SigioTypeOK' /\ SigioControl'
  BY <1>1, <1>4 DEF SigioInv, SigioTypeOK, SigioControl
<1>6. ASSUME mpc # "quit", Rising PROVE Rising'
  <2>1. PICK u \in Nat : u = Unsent /\ u = Unsent'
    BY <1>1 DEF Unsent, SigioInv, SigioTypeOK, SigioControl
  <2>2. NPending = u + m /\ NPending' = u + n /\ iput' = Place(Unsent)'
    BY <1>1, <1>3, <1>6, <2>1 DEF NPending, Rising, Place
  <2>3. ASSUME NEW p \in 1..(u + m) PROVE Pending(p)' = Pending(p)
    <3>1. CASE p <= u
      BY <1>1, <2>1, <3>1 DEF Pending, Place
    <3>2. CASE ~(p <= u)
      <4>1. p - u \in 1..m /\ sockq'[p - u] = sockq[p - u]
        BY <1>4, <3>2
      <4>2. QED BY <2>1, <3>2, <4>1 DEF Pending
    <3>3. QED BY <3>1, <3>2
  <2>4. n = m + 1 => Pending(u + n)' = narrived + 1
    BY <1>3, <1>4, <2>1 DEF Pending
  <2>5. narrived \in Nat /\ echoed \in Nat /\ \A p \in 1..(u + m) : Pending(p) \in Nat /\ Pending(p) <= narrived /\ echoed < Pending(p)
    BY <1>6, <2>2 DEF Rising, SigioInv, SigioTypeOK
  <2>6. ASSUME NEW p \in 1..(u + n)
        PROVE  p \in 1..(u + m) \/ (p = u + n /\ n = m + 1)
    BY <1>4
  <2>7. ASSUME NEW p \in 1..(u + n) 
        PROVE  Pending(p)' \in Nat /\ echoed < Pending(p)' /\ Pending(p)' <= narrived'
    
    <3>1. CASE p \in 1..(u + m)
      BY <1>1, <2>3, <2>5, <3>1
    <3>2. CASE p = u + n /\ n = m + 1
      BY <1>1, <1>6, <2>4, <2>5, <3>2 DEF Rising
    <3>3. QED BY <2>6, <3>1, <3>2
  <2>8. ASSUME NEW p \in 1..(u + n), NEW q \in 1..(u + n), p < q PROVE Pending(p)' < Pending(q)'
    <3>1. CASE q \in 1..(u + m)
      <4>1. p \in 1..(u + m)
        BY <2>8, <3>1
      <4>2. QED BY <1>6, <2>2, <2>3, <2>8, <3>1, <4>1 DEF Rising
    <3>2. CASE q = u + n /\ n = m + 1
      <4>1. p \in 1..(u + m)
        BY <2>8, <3>2
      <4>2. Pending(p) <= narrived /\ Pending(p) \in Nat
        BY <2>5, <4>1
      <4>3. QED BY <2>3, <2>4, <2>5, <3>2, <4>1, <4>2
    <3>3. QED BY <2>6, <3>1, <3>2
  <2>9. QED BY <1>1, <1>6, <2>2, <2>5, <2>7, <2>8 DEF Rising
<1>7. QED BY <1>1, <1>5, <1>6 DEF SigioInv

\* HandlerRead: the first datagram of the socket's queue becomes the last of
\* the ring's, in a place that is not in use, since nqueue < QSIZE.
LEMMA HandlerReadStep ==
  ASSUME S!RingAssumption, SigioInv, inside, nqueue < QSIZE, sockq # <<>>, S!HandlerRead,
         UNCHANGED <<raised, narrived, echoed>>
  PROVE  SigioInv'
<1> USE DEF S!RingAssumption
<1>1. /\ dg' = [dg EXCEPT ![iput] = Head(sockq)] /\ iput' = S!Succ(iput) /\ sockq' = Tail(sockq)
      /\ nqueue' = nqueue + 1 /\ UNCHANGED <<mpc, inside, iget, narrived, echoed>>
  BY DEF S!HandlerRead
<1>2. /\ sockq \in Seq(Nat) /\ Len(sockq) > 0 /\ Head(sockq) = sockq[1] /\ sockq[1] \in Nat
      /\ sockq' \in Seq(Nat) /\ Len(sockq') = Len(sockq) - 1
      /\ \A i \in 1..Len(sockq) - 1 : sockq'[i] = sockq[i + 1]
  BY <1>1 DEF SigioInv, SigioTypeOK
<1>3. iput' = (IF iput + 1 < QSIZE THEN iput + 1 ELSE 0)
  BY <1>1, RingSucc DEF SigioInv, SigioTypeOK
<1>4. SigioTypeOK' /\ SigioControl'
  BY <1>1, <1>2, <1>3 DEF SigioInv, SigioTypeOK, SigioControl
<1>5. mpc # "quit" /\ Rising
  BY DEF SigioInv, SigioControl
<1>6. Rising'
  <2>1. PICK u, m \in Nat : u = Unsent /\ m = Len(sockq)
    <3>1. Unsent \in Nat /\ Len(sockq) \in Nat
      BY DEF Unsent, SigioInv, SigioTypeOK, SigioControl
    <3>2. QED BY <3>1
  <2>2. u < QSIZE /\ Unsent' = u + 1 /\ m > 0 /\ Len(sockq') = m - 1
    BY <1>1, <1>2, <2>1 DEF Unsent, SigioInv, SigioTypeOK
  <2>3. NPending = u + m /\ NPending' = u + m
    BY <2>1, <2>2 DEF NPending
  <2>4. iput = Place(u) /\ iput' = Place(u + 1)'
    BY <1>1, <1>3, <1>5, <2>1, <2>2 DEF Rising, Place, SigioInv, SigioTypeOK
  <2>5. ASSUME NEW j \in 0..u-1 PROVE Place(j)' = Place(j) /\ Place(j) \in 0..QSIZE-1 /\ Place(j) # iput
    BY <1>1, <2>2, <2>4 DEF Place, SigioInv, SigioTypeOK
  <2>6. ASSUME NEW p \in 1..(u + m) PROVE Pending(p)' = Pending(p)
    <3>1. CASE p <= u
      <4>1. p - 1 \in 0..u-1
        BY <3>1
      <4>2. dg'[Place(p - 1)] = dg[Place(p - 1)]
        BY <1>1, <2>5, <4>1 DEF SigioInv, SigioTypeOK
      <4>3. QED BY <2>1, <2>2, <2>5, <3>1, <4>1, <4>2 DEF Pending
    <3>2. CASE p = u + 1
      <4>1. dg'[iput] = sockq[1]
        BY <1>1, <1>2 DEF SigioInv, SigioTypeOK
      <4>2. Place(u)' = iput
        BY <1>1, <2>4 DEF Place
      <4>3. Pending(p)' = dg'[Place(u)'] /\ Pending(p) = sockq[1]
        BY <2>1, <2>2, <3>2 DEF Pending
      <4>4. QED BY <4>1, <4>2, <4>3
    <3>3. CASE p > u + 1
      <4>1. p - u - 1 \in 1..m - 1 /\ p - (u + 1) = p - u - 1 /\ (p - u - 1) + 1 = p - u
        BY <2>2, <3>3
      <4>2. sockq'[p - u - 1] = sockq[p - u]
        BY <1>2, <2>1, <4>1
      <4>3. Pending(p)' = sockq'[p - (u + 1)] /\ Pending(p) = sockq[p - u]
        BY <2>1, <2>2, <3>3 DEF Pending
      <4>4. QED BY <4>1, <4>2, <4>3
    <3>4. QED BY <3>1, <3>2, <3>3
  <2>7. QED BY <1>1, <1>5, <2>2, <2>3, <2>4, <2>6 DEF Rising
<1>7. QED BY <1>4, <1>6 DEF SigioInv

\* Send: the datagram that is the next to go, and greater than the last.
LEMMA SendStepSigio ==
  ASSUME S!RingAssumption, SigioInv, S!Send
  PROVE  SigioInv' /\ (echoed' # echoed => echoed' > echoed)
<1> USE DEF S!RingAssumption
<1>1. mpc = "send" /\ ~inside /\ UNCHANGED <<inside, dg, iput, nqueue, sockq, narrived>>
  BY DEF S!Send
<1>2. CASE mpc' = "quit" /\ UNCHANGED <<echoed, iget>>
  BY <1>1, <1>2 DEF SigioInv, SigioTypeOK, SigioControl
<1>3. CASE mpc' = "block" /\ echoed' = dg[iget] /\ iget' = S!Succ(iget)
  <2>1. PICK u, m \in Nat : u = Unsent /\ u = nqueue /\ u > 0 /\ m = Len(sockq)
    <3>1. Unsent = nqueue /\ nqueue \in Nat /\ nqueue > 0 /\ Len(sockq) \in Nat
      BY <1>1 DEF Unsent, SigioInv, SigioTypeOK, SigioControl
    <3>2. QED BY <3>1
  <2>2. Unsent' = u - 1 /\ NPending = u + m /\ NPending' = u + m - 1 /\ u <= QSIZE
    BY <1>1, <1>3, <2>1 DEF Unsent, NPending, SigioInv, SigioTypeOK
  <2>3. iget' = (IF iget + 1 < QSIZE THEN iget + 1 ELSE 0)
    BY <1>3, RingSucc DEF SigioInv, SigioTypeOK
  <2>4. Rising
    BY <1>1 DEF SigioInv
  <2>5. Place(0) = iget /\ Pending(1) = dg[iget]
    <3>1. Place(0) = iget
      BY DEF Place, SigioInv, SigioTypeOK
    <3>2. QED BY <2>1, <3>1 DEF Pending
  <2>6. ASSUME NEW j \in 0..u-1 PROVE Place(j)' = Place(j + 1)
    BY <2>2, <2>3 DEF Place, SigioInv, SigioTypeOK
  <2>7. ASSUME NEW p \in 1..(u + m - 1) PROVE Pending(p)' = Pending(p + 1)
    <3>1. CASE p <= u - 1
      <4>1. Pending(p)' = dg[Place(p - 1)'] /\ p - 1 \in 0..u-1
        BY <1>1, <2>2, <3>1 DEF Pending
      <4>2. Pending(p + 1) = dg[Place(p)] /\ (p - 1) + 1 = p
        BY <2>1, <3>1 DEF Pending
      <4>3. QED BY <2>6, <4>1, <4>2
    <3>2. CASE ~(p <= u - 1)
      <4>1. Pending(p)' = sockq[p - (u - 1)] /\ Pending(p + 1) = sockq[(p + 1) - u]
        BY <1>1, <2>1, <2>2, <3>2 DEF Pending
      <4>2. p - (u - 1) = (p + 1) - u
        BY <2>1
      <4>3. QED BY <4>1, <4>2
    <3>3. QED BY <3>1, <3>2
  <2>8. SigioTypeOK' /\ SigioControl'
    BY <1>1, <1>3, <2>1, <2>3 DEF SigioInv, SigioTypeOK, SigioControl
  <2>9. iput' = Place(Unsent)'
    <3>1. iput = Place(u)
      BY <2>1, <2>4 DEF Rising
    <3>2. u - 1 \in 0..u-1 /\ (u - 1) + 1 = u
      BY <2>1
    <3>3. QED BY <1>1, <2>2, <2>6, <3>1, <3>2
  <2>10. /\ \A p \in 1..(u + m) : Pending(p) \in Nat /\ echoed < Pending(p) /\ Pending(p) <= narrived
         /\ \A p, q \in 1..(u + m) : p < q => Pending(p) < Pending(q)
    BY <2>2, <2>4 DEF Rising
  <2>11. ASSUME NEW p \in 1..(u + m - 1)
         PROVE  /\ Pending(p)' \in Nat /\ echoed' < Pending(p)' /\ Pending(p)' <= narrived'
                /\ \A q \in 1..(u + m - 1) : p < q => Pending(p)' < Pending(q)'
    <3>1. p + 1 \in 1..(u + m) /\ 1 \in 1..(u + m) /\ 1 < p + 1
      BY <2>1
    <3>2. /\ Pending(p + 1) \in Nat /\ Pending(1) < Pending(p + 1) /\ Pending(p + 1) <= narrived
      BY <2>10, <3>1
    <3>3. ASSUME NEW q \in 1..(u + m - 1), p < q PROVE Pending(p)' < Pending(q)'
      <4>1. q + 1 \in 1..(u + m) /\ p + 1 < q + 1
        BY <3>3
      <4>2. QED BY <2>7, <2>10, <3>1, <4>1
    <3>4. QED BY <1>1, <1>3, <2>5, <2>7, <3>2, <3>3
  <2>12. echoed < echoed' /\ echoed' <= narrived
    <3>1. 1 \in 1..(u + m)
      BY <2>1
    <3>2. QED BY <1>3, <2>5, <2>10, <3>1
  <2>13. Rising'
    BY <1>1, <2>2, <2>9, <2>11, <2>12 DEF Rising
  <2>14. QED BY <2>8, <2>12, <2>13 DEF SigioInv, SigioTypeOK
<1>4. QED BY <1>2, <1>3 DEF S!Send

\* Block: nqueue counts what the ring holds again.
LEMMA BlockStep ==
  ASSUME S!RingAssumption, SigioInv, S!Block
  PROVE  SigioInv'
<1> USE DEF S!RingAssumption
<1>1. /\ mpc = "block" /\ mpc' = "test" /\ ~inside /\ nqueue' = nqueue - 1
      /\ UNCHANGED <<inside, dg, iget, iput, sockq, narrived, echoed>>
  BY DEF S!Block
<1>2. Unsent' = Unsent /\ nqueue > 0
  BY <1>1 DEF Unsent, SigioInv, SigioControl
<1>3. Rising
  BY <1>1 DEF SigioInv
<1>4. Rising'
  <2>1. NPending' = NPending /\ \A p : Pending(p)' = Pending(p)
    BY <1>1, <1>2 DEF NPending, Pending, Place
  <2>2. QED BY <1>1, <1>2, <1>3, <2>1 DEF Rising, Place
<1>5. QED BY <1>1, <1>2, <1>4 DEF SigioInv, SigioTypeOK, SigioControl

\* The other steps move nothing.
LEMMA StillStep ==
  ASSUME SigioInv, UNCHANGED <<dg, iget, iput, nqueue, sockq, narrived, echoed>>,
         Unsent' = Unsent \/ mpc' = "quit", SigioControl',
         mpc' \in {"bound", "async", "nonblock", "test", "suspend", "send", "block", "quit"},
         inside' \in BOOLEAN,
         mpc = "quit" => mpc' = "quit"
  PROVE  SigioInv'
<1>1. SigioTypeOK'
  BY DEF SigioInv, SigioTypeOK
<1>2. ASSUME mpc' # "quit" PROVE Rising'
  <2>1. Rising /\ Unsent' = Unsent
    BY <1>2 DEF SigioInv
  <2>2. NPending' = NPending /\ \A p : Pending(p)' = Pending(p)
    BY <2>1 DEF NPending, Pending, Place
  <2>3. QED BY <2>1, <2>2 DEF Rising, Place
<1>3. QED BY <1>1, <1>2 DEF SigioInv

\* The inductive invariant is one, and only Send changes echoed.
LEMMA SigioStep ==
  ASSUME S!RingAssumption, SigioInv, [S!Next]_(S!vars)
  PROVE  SigioInv' /\ (echoed' # echoed => echoed' > echoed)
<1>1. CASE S!Arrive
  BY <1>1, ArriveStep DEF S!Arrive
<1>2. CASE S!Send
  BY <1>2, SendStepSigio
<1>3. CASE S!Block
  BY <1>3, BlockStep DEF S!Block
<1>4. CASE S!Test
  <2>1. /\ mpc = "test" /\ mpc' = IF nqueue = 0 THEN "suspend" ELSE "send"
        /\ UNCHANGED <<inside, dg, iget, iput, nqueue, sockq, narrived, echoed>>
    BY <1>4 DEF S!Test, S!ring
  <2>2. Unsent' = Unsent /\ SigioControl'
    BY <2>1 DEF Unsent, SigioInv, SigioTypeOK, SigioControl
  <2>3. QED BY <2>1, <2>2, StillStep DEF SigioInv, SigioTypeOK
<1>5. CASE S!Signal
  <2>1. /\ mpc \in {"async", "nonblock", "suspend", "send", "block"} /\ inside' = TRUE
        /\ UNCHANGED <<mpc, dg, iget, iput, nqueue, sockq, narrived, echoed>>
    BY <1>5 DEF S!Signal, S!Unblocked
  <2>2. Unsent' = Unsent /\ SigioControl'
    BY <2>1 DEF Unsent, SigioInv, SigioTypeOK, SigioControl
  <2>3. QED BY <2>1, <2>2, StillStep
<1>6. CASE S!Handler \/ S!RecvfromFails
  <2>1. inside /\ UNCHANGED <<raised, narrived, echoed>>
        /\ mpc \in {"async", "nonblock", "suspend", "send", "block"}
    BY <1>6 DEF S!Handler, S!RecvfromFails, SigioInv, SigioControl
  <2>2. CASE S!Quit
    <3>1. mpc' = "quit" /\ inside' = FALSE /\ UNCHANGED <<dg, iget, iput, nqueue, sockq>>
      BY <2>2 DEF S!Quit, S!ring
    <3>2. SigioControl'
      BY <3>1 DEF SigioControl
    <3>3. QED BY <2>1, <3>1, <3>2, StillStep
  <2>3. CASE S!HandlerDone
    <3>2. /\ inside' = FALSE /\ mpc' = (IF mpc = "suspend" THEN "test" ELSE mpc)
          /\ UNCHANGED <<dg, iget, iput, nqueue, sockq>>
      BY <2>3 DEF S!HandlerDone, S!ring
    <3>3. Unsent' = Unsent /\ SigioControl'
      BY <2>1, <3>2 DEF Unsent, SigioInv, SigioTypeOK, SigioControl
    <3>4. QED BY <2>1, <3>2, <3>3, StillStep
  <2>4. CASE nqueue < QSIZE /\ sockq # <<>> /\ S!HandlerRead
    <3>1. SigioInv'
      BY <2>1, <2>4, HandlerReadStep
    <3>2. QED BY <2>1, <3>1
  <2>5. QED BY <1>6, <2>2, <2>3, <2>4 DEF S!Handler, S!RecvfromFails
<1>7. CASE UNCHANGED S!vars
  <2>1. UNCHANGED <<mpc, inside, dg, iget, iput, nqueue, sockq, narrived, echoed>>
    BY <1>7 DEF S!vars, S!ring
  <2>2. Unsent' = Unsent /\ SigioControl'
    BY <2>1 DEF Unsent, SigioInv, SigioControl
  <2>3. QED BY <2>1, <2>2, StillStep DEF SigioInv, SigioTypeOK
<1>8. CASE S!Setup
  <2>1. /\ mpc \in {"bound", "async", "nonblock"} /\ mpc' \in {"async", "nonblock", "test", "quit"}
        /\ ~inside /\ UNCHANGED <<inside, dg, iget, iput, nqueue, sockq, narrived, echoed>>
    BY <1>8 DEF S!Setup, S!ring
  <2>2. Unsent' = Unsent /\ SigioControl'
    BY <2>1 DEF Unsent, SigioInv, SigioTypeOK, SigioControl
  <2>3. QED BY <2>1, <2>2, StillStep DEF SigioInv, SigioTypeOK
<1>9. QED BY <1>1, <1>2, <1>3, <1>4, <1>5, <1>6, <1>7, <1>8 DEF S!Next, S!Main

\* In the beginning the ring is empty.
LEMMA SigioStart == ASSUME S!RingAssumption, S!Init PROVE SigioInv
<1> USE DEF S!RingAssumption
<1>1. SigioTypeOK /\ SigioControl
  BY DEF S!Init, SigioTypeOK, SigioControl
<1>2. Unsent = 0 /\ NPending = 0 /\ Place(0) = 0
  BY DEF S!Init, Unsent, NPending, Place
<1>3. Rising
  BY <1>2 DEF S!Init, Rising
<1>4. QED BY <1>1, <1>3 DEF SigioInv

-----------------------------------------------------------------------------
(* The heartbeat. *)

\* The other end is gone, or the connection.
Left(e) == cut \/ H!Peer(e) \notin up

\* Alarms since the last reset, the one that is due included.
Rings(e) == nprobes[e] + (IF e \in ringing THEN 1 ELSE 0)

\* Types; whoever runs has not counted too far.
BeatTypeOK ==
  /\ up \subseteq H!Ends /\ ringing \subseteq H!Ends /\ handling \subseteq H!Ends
  /\ nprobes \in [H!Ends -> Nat] /\ gap \in [H!Ends -> Nat]
  /\ byte \in [H!Ends -> SUBSET (0..MaxAge)]
  /\ cut \in BOOLEAN /\ slow \in BOOLEAN
  /\ \A e \in up : nprobes[e] <= MaxProbes

\* Once the other end has left, every byte on its way is as old as that, and
\* when the oldest have come each period leaves one more alarm uncounted down.
Forsaken ==
  \A e \in H!Ends :
    /\ gap[e] > 0 => Left(e)
    /\ \A a \in byte[e] : gap[e] <= a
    /\ e \in up /\ e \in handling => gap[e] <= MaxAge
    /\ e \in up /\ gap[e] > MaxAge => Rings(e) >= gap[e] - MaxAge

\* Both ends run, nothing has been cut off and no round trip was too slow.
Steady == up = H!Ends /\ ~cut /\ ~slow

\* Then bytes are young.
Young == \A e \in H!Ends : \A a \in byte[e] : 2 * a < MaxProbes

\* The first byte the client has sent since its last reset is on its way to
\* the server, or the answer is on its way back or being read; each way took
\* less than half of MaxProbes periods.
ClientHeard ==
  \/ nprobes["client"] = 0
  \/ "client" \in handling /\ Rings("client") - 1 < MaxProbes
  \/ \E a \in byte["server"] : Rings("client") - 1 <= a
  \/ \E b \in byte["client"] : 2 * (Rings("client") - 1 - b) < MaxProbes

\* The server hears a byte for each period; between one and the next there
\* may be two alarms and the time that a byte takes.
ServerHeard ==
  \/ Rings("server") <= 1
  \/ "client" \in ringing /\ Rings("server") <= 2
  \/ \E a \in byte["server"] : Rings("server") <= a + 2
  \/ "server" \in handling /\ 2 * (Rings("server") - 2) < MaxProbes

\* The inductive invariant.
BeatInv == BeatTypeOK /\ Forsaken /\ (Steady => Young /\ ClientHeard /\ ServerHeard)

\* There are two ends, each the other's peer.
LEMMA PeerIs == /\ H!Ends = {"client", "server"} /\ "client" \in H!Ends /\ "server" \in H!Ends
                /\ H!Peer("client") = "server" /\ H!Peer("server") = "client"
BY DEF H!Ends, H!Peer

\* An end that has left does not come back, a connection that has been cut
\* stays so, and what was too slow has been: Steady holds from the start.
LEMMA SteadyBefore ==
  ASSUME BeatInv, [H!Next]_(H!vars), Steady'
  PROVE  Steady /\ Young /\ ClientHeard /\ ServerHeard
<1>1. up' \subseteq up /\ (cut => cut') /\ (slow => slow') /\ up \subseteq H!Ends
  BY DEF H!Next, H!Period, H!Cut, H!Alarm, H!Urgent, H!Reset, H!Crash, H!vars, BeatInv, BeatTypeOK
<1>2. QED BY <1>1 DEF Steady, BeatInv

\* Alarm: the due alarm is counted; the client sends a byte.  Whoever gives
\* up has counted MaxProbes + 1, which the two bounds above leave room for
\* only if something went wrong, or if MaxProbes is 1.
LEMMA AlarmStep ==
  ASSUME H!HeartbeatAssumption, BeatInv, NEW e \in H!Ends, H!Alarm(e)
  PROVE  /\ BeatInv'
         /\ e \notin up' => cut \/ slow \/ H!Peer(e) \notin up \/ MaxProbes = 1
<1> USE DEF H!HeartbeatAssumption
<1>1. /\ e \in ringing /\ e \in up /\ ringing' = ringing \ {e}
      /\ nprobes' = [nprobes EXCEPT ![e] = @ + 1]
      /\ up' = (IF nprobes'[e] > MaxProbes THEN up \ {e} ELSE up)
      /\ byte' = IF e = "client" /\ e \in up' THEN H!SendTo("server", byte) ELSE byte
      /\ UNCHANGED <<handling, cut, slow, gap>>
  BY DEF H!Alarm
<1>2. /\ nprobes'[e] = nprobes[e] + 1 /\ nprobes[e] \in Nat
      /\ \A x \in H!Ends : nprobes'[x] \in Nat /\ Rings(x)' = Rings(x) /\ Rings(x) \in Nat
      /\ Rings(e) = nprobes[e] + 1
      /\ \A x \in H!Ends : x # e => nprobes'[x] = nprobes[x] /\ (x \in ringing' <=> x \in ringing)
  BY <1>1 DEF BeatInv, BeatTypeOK, Rings
<1>3. /\ \A x \in H!Ends : byte'[x] = byte[x] \/ (x = "server" /\ e = "client" /\ ~cut /\ byte'[x] = byte[x] \cup {0})
      /\ byte' \in [H!Ends -> SUBSET (0..MaxAge)]
  BY <1>1, PeerIs DEF BeatInv, BeatTypeOK, H!SendTo
<1>4. BeatTypeOK'
  BY <1>1, <1>2, <1>3 DEF BeatInv, BeatTypeOK
<1>5. Forsaken'
  <2> SUFFICES ASSUME NEW x \in H!Ends
               PROVE  /\ gap[x] > 0 => Left(x)'
                      /\ \A a \in byte'[x] : gap[x] <= a
                      /\ x \in up' /\ x \in handling => gap[x] <= MaxAge
                      /\ x \in up' /\ gap[x] > MaxAge => Rings(x)' >= gap[x] - MaxAge
    BY <1>1 DEF Forsaken
  <2>1. up' \subseteq up
    BY <1>1
  <2>2. gap[x] > 0 => Left(x)'
    BY <1>1, <2>1 DEF Left, BeatInv, Forsaken
  <2>3. \A a \in byte'[x] : gap[x] <= a
    <3>1. CASE byte'[x] = byte[x]
      BY <3>1 DEF BeatInv, Forsaken
    <3>2. CASE x = "server" /\ e = "client" /\ ~cut /\ byte'[x] = byte[x] \cup {0}
      <4>1. ~Left(x)
        BY <1>1, <3>2, PeerIs DEF Left
      <4>2. gap[x] = 0
        BY <4>1 DEF BeatInv, Forsaken, BeatTypeOK
      <4>3. QED BY <3>2, <4>2 DEF BeatInv, BeatTypeOK
    <3>3. QED BY <1>3, <3>1, <3>2
  <2>4. QED BY <1>1, <1>2, <2>1, <2>2, <2>3 DEF BeatInv, Forsaken
<1>6. ASSUME Steady' PROVE Young' /\ ClientHeard' /\ ServerHeard'
  <2>1. Steady /\ Young /\ ClientHeard /\ ServerHeard
    BY <1>6, SteadyBefore DEF H!Next
  <2>2. Young'
    BY <1>3, <2>1 DEF Young
  <2>3. e = "client" => 0 \in byte'["server"]
    BY <1>1, <1>6, <2>1, PeerIs DEF Steady, H!SendTo, BeatInv, BeatTypeOK
  <2>4. \A x \in H!Ends : byte[x] \subseteq byte'[x]
    BY <1>3
  <2>5. ClientHeard'
    <3>1. CASE e = "client" /\ nprobes["client"] = 0
      <4>1. Rings("client")' - 1 <= 0
        BY <1>2, <3>1, PeerIs
      <4>2. QED BY <2>3, <3>1, <4>1 DEF ClientHeard
    <3>2. CASE e # "client" \/ nprobes["client"] # 0
      <4>1. Rings("client")' = Rings("client") /\ handling' = handling
        BY <1>1, <1>2, PeerIs
      <4>2. nprobes["client"] = 0 => nprobes'["client"] = 0
        BY <1>2, <3>2, PeerIs
      <4>3. byte["server"] \subseteq byte'["server"] /\ byte["client"] \subseteq byte'["client"]
        BY <2>4, PeerIs
      <4>4. QED BY <2>1, <4>1, <4>2, <4>3 DEF ClientHeard
    <3>3. QED BY <3>1, <3>2
  <2>6. ServerHeard'
    <3>1. Rings("server")' = Rings("server") /\ handling' = handling
          /\ byte["server"] \subseteq byte'["server"]
      BY <1>1, <1>2, <2>4, PeerIs
    <3>2. CASE "client" \in ringing /\ Rings("server") <= 2
      <4>1. CASE e = "client"
        <5>1. 0 \in byte'["server"] /\ Rings("server")' <= 0 + 2
          BY <2>3, <3>1, <3>2, <4>1
        <5>2. QED BY <5>1 DEF ServerHeard
      <4>2. CASE e # "client"
        BY <1>2, <3>1, <3>2, <4>2, PeerIs DEF ServerHeard
      <4>3. QED BY <4>1, <4>2
    <3>3. QED BY <2>1, <3>1, <3>2 DEF ServerHeard
  <2>7. QED BY <2>2, <2>5, <2>6
<1>7. ASSUME e \notin up', ~cut, ~slow, H!Peer(e) \in up, MaxProbes # 1 PROVE FALSE
  <2>1. nprobes[e] + 1 > MaxProbes /\ MaxProbes > 1 /\ MaxProbes \in Nat
    BY <1>1, <1>2, <1>7
  <2>2. up = H!Ends
    BY <1>1, <1>7, PeerIs DEF BeatInv, BeatTypeOK, H!Ends, H!Peer
  <2>3. Young /\ ClientHeard /\ ServerHeard
    BY <1>7, <2>2 DEF Steady, BeatInv
  <2>4. \A x \in H!Ends : \A a \in byte[x] : a \in Nat /\ 2 * a < MaxProbes
    BY <2>3 DEF Young, BeatInv, BeatTypeOK
  <2>5. CASE e = "client"
    BY <1>2, <2>1, <2>3, <2>4, <2>5, PeerIs DEF ClientHeard
  <2>6. CASE e = "server"
    BY <1>2, <2>1, <2>3, <2>4, <2>6, PeerIs DEF ServerHeard
  <2>7. QED BY <2>5, <2>6 DEF H!Ends
<1>8. QED BY <1>4, <1>5, <1>6, <1>7 DEF BeatInv

\* Urgent: the byte is taken off its way and the reset is to come; the server
\* has sent an answer.
LEMMA UrgentStep ==
  ASSUME H!HeartbeatAssumption, BeatInv, NEW e \in H!Ends, H!Urgent(e)
  PROVE  BeatInv'
<1> USE DEF H!HeartbeatAssumption
<1>1. /\ e \in up /\ e \notin handling /\ byte[e] # {} /\ handling' = handling \cup {e}
      /\ UNCHANGED <<up, nprobes, ringing, cut, slow, gap>>
  BY DEF H!Urgent
<1>2. PICK m : byte' = LET b == [byte EXCEPT ![e] = @ \ {m}]
                       IN IF e = "server" THEN H!SendTo("client", b) ELSE b
  BY DEF H!Urgent
<1>3. /\ byte' \in [H!Ends -> SUBSET (0..MaxAge)]
      /\ byte'[e] = byte[e] \ {m}
      /\ \A x \in H!Ends : x # e =>
           byte'[x] = byte[x] \/ (x = "client" /\ e = "server" /\ ~cut /\ byte'[x] = byte[x] \cup {0})
      /\ e = "server" /\ ~cut => 0 \in byte'["client"]
  BY <1>1, <1>2, PeerIs DEF BeatInv, BeatTypeOK, H!SendTo
<1>4. BeatTypeOK'
  BY <1>1, <1>3 DEF BeatInv, BeatTypeOK
<1>5. \A x \in H!Ends : Rings(x)' = Rings(x) /\ Left(x)' = Left(x) /\ Rings(x) \in Nat
  BY <1>1 DEF Rings, Left, BeatInv, BeatTypeOK
<1>6. Forsaken'
  <2> SUFFICES ASSUME NEW x \in H!Ends
               PROVE  /\ \A a \in byte'[x] : gap[x] <= a
                      /\ x \in up /\ x \in handling' => gap[x] <= MaxAge
    BY <1>1, <1>5 DEF Forsaken, BeatInv
  <2>1. \A a \in byte'[x] : gap[x] <= a
    <3>1. CASE byte'[x] \subseteq byte[x]
      BY <3>1 DEF BeatInv, Forsaken
    <3>2. CASE x = "client" /\ e = "server" /\ ~cut /\ byte'[x] = byte[x] \cup {0}
      <4>1. ~Left(x)
        BY <1>1, <3>2, PeerIs DEF Left
      <4>2. gap[x] = 0
        BY <4>1 DEF BeatInv, Forsaken, BeatTypeOK
      <4>3. QED BY <3>2, <4>2 DEF BeatInv, BeatTypeOK
    <3>3. QED BY <1>3, <3>1, <3>2
  <2>2. x = e => gap[x] <= MaxAge
    BY <1>1 DEF BeatInv, BeatTypeOK, Forsaken
  <2>3. QED BY <1>1, <2>1, <2>2 DEF BeatInv, Forsaken
<1>7. ASSUME Steady' PROVE Young' /\ ClientHeard' /\ ServerHeard'
  <2>1. Steady /\ Young /\ ClientHeard /\ ServerHeard
    BY <1>7, SteadyBefore DEF H!Next
  <2>2. Young'
    BY <1>3, <2>1 DEF Young
  <2>3. \A x \in H!Ends : \A a \in byte[x] : a \in Nat /\ 2 * a < MaxProbes
    BY <2>1 DEF Young, BeatInv, BeatTypeOK
  <2>4. /\ Rings("client")' = Rings("client") /\ Rings("server")' = Rings("server")
        /\ Rings("client") \in Nat /\ Rings("server") \in Nat
        /\ nprobes'["client"] = nprobes["client"]
    BY <1>1, <1>5, PeerIs
  <2>5. CASE e = "client"
    <3>1. byte'["server"] = byte["server"] /\ "client" \in handling'
      BY <1>1, <1>3, <2>5, PeerIs
    <3>2. nprobes["client"] = 0 \/ Rings("client") - 1 < MaxProbes
      BY <2>1, <2>3, <2>4, PeerIs DEF ClientHeard
    <3>3. ServerHeard'
      BY <1>1, <2>1, <2>4, <3>1 DEF ServerHeard
    <3>4. QED BY <2>2, <2>4, <3>1, <3>2, <3>3 DEF ClientHeard
  <2>6. CASE e = "server"
    <3>1. /\ byte["client"] \subseteq byte'["client"] /\ 0 \in byte'["client"] /\ "server" \in handling'
      BY <1>1, <1>3, <2>1, <2>6, PeerIs DEF Steady
    <3>2. ClientHeard'
      <4>1. CASE \E a \in byte["server"] : Rings("client") - 1 <= a
        <5>1. 2 * (Rings("client") - 1 - 0) < MaxProbes
          BY <2>3, <2>4, <4>1, PeerIs
        <5>2. QED BY <2>4, <3>1, <5>1 DEF ClientHeard
      <4>2. QED BY <1>1, <2>1, <2>4, <3>1, <4>1 DEF ClientHeard
    <3>3. ServerHeard'
      <4>1. CASE \E a \in byte["server"] : Rings("server") <= a + 2
        <5>1. 2 * (Rings("server") - 2) < MaxProbes
          BY <2>3, <2>4, <4>1, PeerIs
        <5>2. QED BY <2>4, <3>1, <5>1 DEF ServerHeard
      <4>2. QED BY <1>1, <2>1, <2>4, <3>1, <4>1 DEF ServerHeard
    <3>4. QED BY <2>2, <3>2, <3>3
  <2>7. QED BY <2>5, <2>6 DEF H!Ends
<1>8. QED BY <1>4, <1>6, <1>7 DEF BeatInv

\* Reset: the count starts again.
LEMMA ResetStep ==
  ASSUME H!HeartbeatAssumption, BeatInv, NEW e \in H!Ends, H!Reset(e)
  PROVE  BeatInv'
<1> USE DEF H!HeartbeatAssumption
<1>1. /\ e \in handling /\ e \in up /\ nprobes' = [nprobes EXCEPT ![e] = 0] /\ handling' = handling \ {e}
      /\ UNCHANGED <<up, ringing, byte, cut, slow, gap>>
  BY DEF H!Reset
<1>2. /\ nprobes'[e] = 0 /\ \A x \in H!Ends : x # e => nprobes'[x] = nprobes[x]
      /\ Rings(e)' <= 1 /\ \A x \in H!Ends : x # e => Rings(x)' = Rings(x)
      /\ \A x \in H!Ends : Left(x)' = Left(x)
  BY <1>1 DEF BeatInv, BeatTypeOK, Rings, Left
<1>3. BeatTypeOK'
  BY <1>1 DEF BeatInv, BeatTypeOK
<1>4. Forsaken'
  <2>1. gap[e] <= MaxAge
    BY <1>1 DEF BeatInv, Forsaken
  <2>2. QED BY <1>1, <1>2, <2>1 DEF BeatInv, BeatTypeOK, Forsaken
<1>5. ASSUME Steady' PROVE Young' /\ ClientHeard' /\ ServerHeard'
  <2>1. Steady /\ Young /\ ClientHeard /\ ServerHeard
    BY <1>5, SteadyBefore DEF H!Next
  <2>2. QED BY <1>1, <1>2, <2>1, PeerIs DEF Young, ClientHeard, ServerHeard
<1>6. QED BY <1>3, <1>4, <1>5 DEF BeatInv

\* Period: every byte is a period older and every alarm due.
LEMMA PeriodStep ==
  ASSUME H!HeartbeatAssumption, BeatInv, H!Period
  PROVE  BeatInv'
<1> USE DEF H!HeartbeatAssumption
<1>1. /\ ringing \cap up = {} /\ handling \cap up = {} /\ ringing' = up
      /\ \A e \in up : MaxAge \notin byte[e]
      /\ byte' = [e \in H!Ends |-> {a + 1 : a \in byte[e] \ {MaxAge}}]
      /\ slow' = (slow \/ \E e \in up : \E a \in byte[e] : 2 * (a + 1) >= MaxProbes)
      /\ gap' = [e \in H!Ends |-> IF e \in up /\ (cut \/ H!Peer(e) \notin up) /\ gap[e] <= MaxProbes + MaxAge + 1
                                  THEN gap[e] + 1 ELSE gap[e]]
      /\ UNCHANGED <<up, nprobes, handling, cut>>
  BY DEF H!Period
<1>2. \A x \in H!Ends : byte[x] \subseteq 0..MaxAge /\ nprobes[x] \in Nat /\ gap[x] \in Nat
  BY DEF BeatInv, BeatTypeOK
<1>3. ASSUME NEW x \in H!Ends
      PROVE  /\ \A c \in byte'[x] : c - 1 \in byte[x] /\ c \in 1..MaxAge
             /\ x \in up => \A a \in byte[x] : a + 1 \in byte'[x]
  BY <1>1, <1>2
<1>4. BeatTypeOK'
  <2>1. byte' \in [H!Ends -> SUBSET (0..MaxAge)]
    <3>1. \A x \in H!Ends : byte'[x] \subseteq 0..MaxAge
      BY <1>3
    <3>2. QED BY <1>1, <3>1
  <2>2. gap' \in [H!Ends -> Nat] /\ slow' \in BOOLEAN
    BY <1>1, <1>2 DEF BeatInv, BeatTypeOK
  <2>3. QED BY <1>1, <2>1, <2>2 DEF BeatInv, BeatTypeOK
<1>5. Forsaken'
  <2> SUFFICES ASSUME NEW x \in H!Ends
               PROVE  /\ gap'[x] > 0 => Left(x)'
                      /\ \A c \in byte'[x] : gap'[x] <= c
                      /\ x \in up' /\ x \in handling' => gap'[x] <= MaxAge
                      /\ x \in up' /\ gap'[x] > MaxAge => Rings(x)' >= gap'[x] - MaxAge
    BY DEF Forsaken
  <2>1. gap'[x] = gap[x] \/ (gap'[x] = gap[x] + 1 /\ Left(x) /\ x \in up)
    BY <1>1 DEF Left
  <2>2. Left(x)' = Left(x)
    BY <1>1 DEF Left
  <2>3. gap'[x] > 0 => Left(x)'
    BY <1>2, <2>1, <2>2 DEF BeatInv, Forsaken
  <2>4. ASSUME NEW c \in byte'[x] PROVE gap'[x] <= c
    <3>1. c - 1 \in byte[x] /\ c \in Nat /\ c - 1 \in Nat
      BY <1>2, <1>3
    <3>2. gap[x] <= c - 1
      BY <3>1 DEF BeatInv, Forsaken
    <3>3. QED BY <1>2, <2>1, <3>1, <3>2
  <2>5. x \in up => x \notin handling'
    BY <1>1
  <2>6. ASSUME x \in up, gap'[x] > MaxAge PROVE Rings(x)' >= gap'[x] - MaxAge
    <3>1. Rings(x)' = nprobes[x] + 1 /\ Rings(x) = nprobes[x]
      BY <1>1, <1>2, <2>6 DEF Rings
    <3>2. CASE gap[x] > MaxAge
      <4>1. nprobes[x] >= gap[x] - MaxAge
        BY <2>6, <3>1, <3>2 DEF BeatInv, Forsaken
      <4>2. QED BY <1>2, <2>1, <3>1, <4>1
    <3>3. CASE ~(gap[x] > MaxAge)
      BY <1>2, <2>1, <2>6, <3>1, <3>3
    <3>4. QED BY <3>2, <3>3
  <2>7. QED BY <1>1, <2>3, <2>4, <2>5, <2>6
<1>6. ASSUME Steady' PROVE Young' /\ ClientHeard' /\ ServerHeard'
  <2>1. Steady /\ Young /\ ClientHeard /\ ServerHeard
    BY <1>6, SteadyBefore DEF H!Next
  <2>2. \A e \in H!Ends : \A a \in byte[e] : a \in Nat /\ 2 * (a + 1) < MaxProbes
    <3> SUFFICES ASSUME NEW e \in H!Ends, NEW a \in byte[e] PROVE a \in Nat /\ 2 * (a + 1) < MaxProbes
      OBVIOUS
    <3>1. a \in Nat /\ MaxProbes \in Nat
      BY <1>2 DEF H!HeartbeatAssumption
    <3>2. ~(2 * (a + 1) >= MaxProbes)
      BY <1>1, <1>6, <2>1 DEF Steady
    <3>3. QED BY <3>1, <3>2
  <2>3. Young'
    <3> SUFFICES ASSUME NEW x \in H!Ends, NEW c \in byte'[x] PROVE 2 * c < MaxProbes
      BY DEF Young
    <3>1. c - 1 \in byte[x] /\ c \in Nat
      BY <1>3
    <3>2. 2 * ((c - 1) + 1) < MaxProbes
      BY <2>2, <3>1
    <3>3. QED BY <3>1, <3>2
  <2>4. \A x \in H!Ends : /\ x \in up /\ x \notin ringing /\ x \in ringing' /\ x \notin handling
                          /\ Rings(x) = nprobes[x] /\ Rings(x)' = nprobes[x] + 1 /\ nprobes'[x] = nprobes[x]
    BY <1>1, <1>2, <2>1 DEF Steady, Rings
  <2>5. ClientHeard'
    <3>1. CASE nprobes["client"] = 0
      BY <2>4, <3>1, PeerIs DEF ClientHeard
    <3>2. CASE \E a \in byte["server"] : Rings("client") - 1 <= a
      <4>1. PICK a \in byte["server"] : Rings("client") - 1 <= a
        BY <3>2
      <4>2. a + 1 \in byte'["server"] /\ Rings("client")' - 1 <= a + 1
        BY <1>2, <1>3, <2>2, <2>4, <4>1, PeerIs
      <4>3. QED BY <4>2 DEF ClientHeard
    <3>3. CASE \E b \in byte["client"] : 2 * (Rings("client") - 1 - b) < MaxProbes
      <4>1. PICK b \in byte["client"] : 2 * (Rings("client") - 1 - b) < MaxProbes
        BY <3>3
      <4>2. b + 1 \in byte'["client"] /\ 2 * (Rings("client")' - 1 - (b + 1)) < MaxProbes
        BY <1>2, <1>3, <2>2, <2>4, <4>1, PeerIs
      <4>3. QED BY <4>2 DEF ClientHeard
    <3>4. QED BY <2>1, <2>4, <3>1, <3>2, <3>3, PeerIs DEF ClientHeard
  <2>6. ServerHeard'
    <3>1. CASE Rings("server") <= 1
      BY <1>2, <2>4, <3>1, PeerIs DEF ServerHeard
    <3>2. CASE \E a \in byte["server"] : Rings("server") <= a + 2
      <4>1. PICK a \in byte["server"] : Rings("server") <= a + 2
        BY <3>2
      <4>2. a + 1 \in byte'["server"] /\ Rings("server")' <= (a + 1) + 2
        BY <1>2, <1>3, <2>2, <2>4, <4>1, PeerIs
      <4>3. QED BY <4>2 DEF ServerHeard
    <3>3. QED BY <2>1, <2>4, <3>1, <3>2, PeerIs DEF ServerHeard
  <2>7. QED BY <2>3, <2>5, <2>6
<1>7. QED BY <1>4, <1>5, <1>6 DEF BeatInv

\* Crash and Cut: somebody has left.
LEMMA LeaveStep ==
  ASSUME H!HeartbeatAssumption, BeatInv, H!Cut \/ \E e \in H!Ends : H!Crash(e)
  PROVE  BeatInv'
<1>1. CASE H!Cut
  <2>1. /\ cut' = TRUE /\ byte' = [e \in H!Ends |-> {}]
        /\ UNCHANGED <<up, nprobes, ringing, handling, slow, gap>>
    BY <1>1 DEF H!Cut
  <2>2. \A x \in H!Ends : Rings(x)' = Rings(x) /\ Left(x)'
    BY <2>1 DEF Rings, Left
  <2>3. BeatTypeOK' /\ Forsaken'
    BY <2>1, <2>2 DEF BeatInv, BeatTypeOK, Forsaken
  <2>4. QED BY <2>1, <2>3 DEF BeatInv, Steady
<1>2. ASSUME NEW e \in H!Ends, H!Crash(e) PROVE BeatInv'
  <2>1. /\ up' = up \ {e} /\ UNCHANGED <<nprobes, ringing, byte, handling, cut, slow, gap>>
    BY <1>2 DEF H!Crash
  <2>2. \A x \in H!Ends : Rings(x)' = Rings(x) /\ (Left(x) => Left(x)')
    BY <2>1 DEF Rings, Left
  <2>3. BeatTypeOK' /\ Forsaken'
    BY <2>1, <2>2 DEF BeatInv, BeatTypeOK, Forsaken
  <2>4. ~Steady'
    BY <1>2, <2>1 DEF Steady
  <2>5. QED BY <2>3, <2>4 DEF BeatInv
<1>3. QED BY <1>1, <1>2

\* In the beginning nothing has been sent.
LEMMA BeatStart == ASSUME H!HeartbeatAssumption, H!Init PROVE BeatInv
<1>1. \A x \in H!Ends : Rings(x) = 0
  BY DEF H!Init, Rings
<1>2. BeatTypeOK
  <2>1. \A x \in H!Ends : nprobes[x] = 0
    BY DEF H!Init
  <2>2. MaxProbes \in Nat
    BY DEF H!HeartbeatAssumption
  <2>3. \A x \in H!Ends : nprobes[x] <= MaxProbes
    BY <2>1, <2>2
  <2>4. nprobes \in [H!Ends -> Nat] /\ gap \in [H!Ends -> Nat]
    BY DEF H!Init
  <2>5. byte \in [H!Ends -> SUBSET (0..MaxAge)]
    BY DEF H!Init
  <2>6. QED BY <2>3, <2>4, <2>5 DEF H!Init, BeatTypeOK
<1>3. Forsaken
  <2>1. \A x \in H!Ends : gap[x] = 0 /\ byte[x] = {} /\ x \notin handling
    BY DEF H!Init
  <2>2. MaxAge \in Nat
    BY DEF H!HeartbeatAssumption
  <2>3. QED BY <2>1, <2>2 DEF Forsaken
<1>4. Young /\ ClientHeard /\ ServerHeard
  BY <1>1, PeerIs DEF H!Init, Young, ClientHeard, ServerHeard
<1>5. QED BY <1>2, <1>3, <1>4 DEF BeatInv

\* Whoever sends how many probes: an end whose peer has gone is given up in
\* time, and one that is there is not, as long as the bytes take less than half
\* of the probes' periods; the property of Heartbeat, for every bound.
THEOREM HeartbeatJudges == H!Spec => GivesUpRightly
<1> USE SignalsAssumption
<1>1. H!Init => BeatInv
  BY BeatStart
<1>2. BeatInv /\ [H!Next]_(H!vars) => BeatInv'
  <2> SUFFICES ASSUME BeatInv, [H!Next]_(H!vars) PROVE BeatInv'
    OBVIOUS
  <2>1. ASSUME NEW e \in H!Ends, H!Alarm(e) \/ H!Urgent(e) \/ H!Reset(e) \/ H!Crash(e) PROVE BeatInv'
    BY <2>1, AlarmStep, UrgentStep, ResetStep, LeaveStep
  <2>2. CASE UNCHANGED H!vars
    BY <2>2 DEF H!vars, BeatInv, BeatTypeOK, Forsaken, Steady, Young, ClientHeard, ServerHeard, Rings, Left
  <2>3. QED BY <2>1, <2>2, PeriodStep, LeaveStep DEF H!Next
<1>3. BeatInv => \A e \in H!Ends : H!Alarm(e) /\ e \notin up' =>
                   cut \/ slow \/ H!Peer(e) \notin up \/ MaxProbes = 1
  BY AlarmStep
<1>4. BeatInv => H!GivesUpInTime
  <2> SUFFICES ASSUME BeatInv, NEW e \in up PROVE gap[e] <= MaxProbes + MaxAge + 1
    BY DEF H!GivesUpInTime
  <2>1. e \in H!Ends /\ nprobes[e] \in Nat /\ gap[e] \in Nat /\ nprobes[e] <= MaxProbes
    BY DEF BeatInv, BeatTypeOK
  <2>2. Rings(e) <= MaxProbes + 1 /\ Rings(e) \in Nat
    BY <2>1 DEF Rings, H!HeartbeatAssumption
  <2>3. gap[e] > MaxAge => Rings(e) >= gap[e] - MaxAge
    BY <2>1 DEF BeatInv, Forsaken
  <2>4. QED BY <2>1, <2>2, <2>3 DEF H!HeartbeatAssumption
<1>5. QED BY <1>1, <1>2, <1>3, <1>4, PTL DEF H!Spec, GivesUpRightly, H!GivesUpRightly

-----------------------------------------------------------------------------
(* The forking file server. *)

Halves == Nat \X {1, 2}

\* Types; the bound on requests is left out, since it only ends the model.
FilesTypeOK ==
  /\ spc \in {"accept", "exited"} /\ backlog \in Seq(Clients)
  /\ child \in [Clients -> {"none", "run", "dead", "overrun", "refused"}]
  /\ cpc \in [Clients -> {"start", "prompt", "read", "closing", "closed"}]
  /\ req \in [Clients -> Nat]
  /\ fup \in [Clients -> Seq(Halves)] /\ down \in [Clients -> Seq(Halves)]
  /\ inStep \in [Clients -> BOOLEAN] /\ fcut \in [Clients -> BOOLEAN]

\* A connection waits once, and before it has a child.
Queued ==
  /\ \A i, j \in 1..Len(backlog) : backlog[i] = backlog[j] => i = j
  /\ \A i \in 1..Len(backlog) : child[backlog[i]] = "none" /\ cpc[backlog[i]] # "start"
  /\ \A c \in Clients : /\ cpc[c] = "start" => child[c] = "none" /\ Len(fup[c]) = 0 /\ inStep[c]
                        /\ child[c] = "dead" => cpc[c] = "closed"
                        /\ child[c] \notin {"run", "overrun"} => Len(down[c]) = 0

Waiting(c) == cpc[c] \in {"read", "closing"}

\* Nobody answers what has not been asked.
Numbered(c) ==
  /\ \A i \in 1..Len(fup[c]) : fup[c][i][1] \in 1..req[c]
  /\ \A i \in 1..Len(down[c]) : down[c][i][1] <= req[c]

\* Both streams hold whole buffers: the last request, its answer, or nothing.
Buffer(s, n) == Len(s) = 2 /\ s[1] = <<n, 1>>
Whole(c) ==
  /\ inStep[c]
  /\ IF Waiting(c) THEN \/ Buffer(fup[c], req[c]) /\ Len(down[c]) = 0
                        \/ Len(fup[c]) = 0 /\ Buffer(down[c], req[c])
                   ELSE Len(fup[c]) = 0 /\ Len(down[c]) = 0

\* Something is left over.  It stays: a request adds a buffer, the child sends
\* no less than it takes, and the client takes a buffer at most.  Once the
\* client is out of step it is not the answer to this request that comes next.
LeftOver(c) ==
  /\ fcut[c]
  /\ Len(fup[c]) + Len(down[c]) >= 1
  /\ Waiting(c) => Len(fup[c]) + Len(down[c]) >= 3
  /\ Waiting(c) /\ ~inStep[c] =>
       /\ Len(down[c]) > 0 => F!Answers(down[c][1]) # req[c]
       /\ Len(down[c]) = 0 => fup[c][1] # <<req[c], 1>>

\* Of a connection that nobody serves, what has not been read: nothing, or the
\* answer awaited, or something that a client out of step does not take for it.
Late(c) ==
  \/ Len(down[c]) = 0
  \/ Waiting(c) /\ inStep[c] /\ Buffer(down[c], req[c])
  \/ fcut[c] /\ (Waiting(c) /\ ~inStep[c] => F!Answers(down[c][1]) # req[c])

Framed(c) ==
  \/ F!Gone(c) /\ Late(c)
  \/ cpc[c] = "closed"
  \/ Whole(c)
  \/ LeftOver(c)

\* The inductive invariant.
FilesInv == FilesTypeOK /\ Queued /\ \A c \in Clients : Numbered(c) /\ Framed(c)

\* What is taken from a stream, what remains, and what is added.
LEMMA TakenFacts ==
  ASSUME NEW s \in Seq(Halves), NEW k \in F!Takes(s)
  PROVE  /\ k \in 1..2 /\ k <= Len(s)
         /\ F!Rest(s, k) \in Seq(Halves)
         /\ Len(F!Rest(s, k)) = Len(s) - k
         /\ \A i \in 1..Len(s) - k : F!Rest(s, k)[i] = s[i + k]
<1>1. Len(s) \in Nat
  OBVIOUS
<1>2. k \in 1..2 /\ k <= Len(s)
  BY <1>1 DEF F!Takes
<1>3. QED BY <1>1, <1>2, SubSeqProperties DEF F!Rest

LEMMA AddedFacts ==
  ASSUME NEW s \in Seq(Halves), NEW a \in Halves, NEW b \in Halves
  PROVE  /\ s \o <<a, b>> \in Seq(Halves)
         /\ Len(s \o <<a, b>>) = Len(s) + 2
         /\ \A i \in 1..Len(s) : (s \o <<a, b>>)[i] = s[i]
         /\ (s \o <<a, b>>)[Len(s) + 1] = a /\ (s \o <<a, b>>)[Len(s) + 2] = b
<1>1. <<a, b>> \in Seq(Halves) /\ Len(<<a, b>>) = 2 /\ Len(s) \in Nat
  OBVIOUS
<1>2. QED BY <1>1, ConcatProperties

\* Lengths of two streams when a buffer is added to one, or at most a buffer
\* taken from it.
LEMMA MoreLeft ==
  ASSUME NEW s, NEW t, NEW u, NEW v, Len(s) \in Nat, Len(t) \in Nat, Len(s) + Len(t) >= 1,
         Len(u) = Len(s) + 2, Len(v) = Len(t)
  PROVE  Len(u) + Len(v) >= 3 /\ Len(u) + Len(v) >= 1
OBVIOUS

LEMMA StillLeft ==
  ASSUME NEW s, NEW t, NEW u, NEW v, Len(s) \in Nat, Len(t) \in Nat, Len(s) + Len(t) >= 3,
         NEW k \in 1..2, Len(u) = Len(s), Len(v) = Len(t) - k
  PROVE  Len(u) + Len(v) >= 1
OBVIOUS

LEMMA NoLessLeft ==
  ASSUME NEW s, NEW t, NEW u, NEW v, Len(s) \in Nat, Len(t) \in Nat,
         NEW k \in 1..2, Len(u) = Len(s) - k, Len(v) = Len(t) + 2
  PROVE  /\ Len(s) + Len(t) >= 1 => Len(u) + Len(v) >= 1
         /\ Len(s) + Len(t) >= 3 => Len(u) + Len(v) >= 3 /\ Len(u) + Len(v) >= 1
OBVIOUS

\* Whom nobody serves is not served later.
LEMMA GoneStays ==
  ASSUME FilesTypeOK, Queued, [F!Next]_(F!vars), NEW c \in Clients, F!Gone(c)
  PROVE  F!Gone(c)'
<1>1. /\ spc = "exited" => spc' = "exited"
      /\ spc = "exited" => \A x \in Clients : child'[x] = "run" => child[x] = "run"
      /\ child[c] \in {"refused", "overrun"} => child'[c] = child[c]
  <2>1. CASE F!Accept
    <3>1. backlog[1] \in Clients /\ child[backlog[1]] = "none" /\ Head(backlog) = backlog[1]
      BY <2>1 DEF F!Accept, FilesTypeOK, Queued
    <3>2. QED BY <2>1, <3>1 DEF F!Accept, FilesTypeOK
  <2>2. CASE \E x \in Clients : F!ChildEnds(x)
    BY <2>2 DEF F!ChildEnds, FilesTypeOK
  <2>3. CASE \E x \in Clients : F!ClientNext(x)
    BY <2>3 DEF F!ClientNext, F!Connect, F!Write, F!Read, F!Die
  <2>4. ASSUME NEW x \in Clients, F!ChildReply(x)
        PROVE  spc' = spc /\ child[x] = "run" /\ (child' = child \/ child' = [child EXCEPT ![x] = "overrun"])
    BY <2>4 DEF F!ChildReply
  <2>5. CASE \E x \in Clients : F!ChildReply(x)
    BY <2>4, <2>5 DEF FilesTypeOK
  <2>6. CASE F!AcceptFails
    BY <2>6 DEF F!AcceptFails
  <2>7. CASE UNCHANGED F!vars
    BY <2>7 DEF F!vars
  <2>8. QED BY <2>1, <2>2, <2>3, <2>5, <2>6, <2>7 DEF F!Next, F!ChildNext
<1>2. QED BY <1>1 DEF F!Gone, F!Listening, FilesTypeOK

\* A client that a step does not concern.
LEMMA FramedStays ==
  ASSUME FilesInv, [F!Next]_(F!vars), NEW c \in Clients,
         cpc'[c] = cpc[c], fup'[c] = fup[c], down'[c] = down[c], req'[c] = req[c],
         inStep'[c] = inStep[c], fcut'[c] = fcut[c]
  PROVE  Numbered(c)' /\ Framed(c)'
<1>1. F!Gone(c) => F!Gone(c)'
  BY GoneStays DEF FilesInv
<1>2. QED BY <1>1 DEF FilesInv, Numbered, Framed, Late, Whole, Buffer, LeftOver, Waiting, F!Answers

\* A step that leaves the queue and the children alone.
LEMMA QueuedStays ==
  ASSUME FilesTypeOK, Queued, backlog' = backlog, child' = child,
         \A x \in Clients : /\ cpc'[x] = "start" => cpc[x] = "start" /\ fup'[x] = fup[x] /\ inStep'[x] = inStep[x]
                            /\ cpc[x] = "closed" => cpc'[x] = "closed"
                            /\ child[x] \notin {"run", "overrun"} => Len(down'[x]) = 0
  PROVE  Queued'
<1>1. \A i \in 1..Len(backlog) : backlog[i] \in Clients
  BY DEF FilesTypeOK
<1>2. \A i \in 1..Len(backlog) : child'[backlog[i]] = "none" /\ cpc'[backlog[i]] # "start"
  <2> SUFFICES ASSUME NEW i \in 1..Len(backlog) PROVE child'[backlog[i]] = "none" /\ cpc'[backlog[i]] # "start"
    OBVIOUS
  <2>1. child[backlog[i]] = "none" /\ cpc[backlog[i]] # "start" /\ backlog[i] \in Clients
    BY <1>1 DEF Queued
  <2>2. QED BY <2>1
<1>3. ASSUME NEW x \in Clients
      PROVE  /\ cpc'[x] = "start" => child'[x] = "none" /\ Len(fup'[x]) = 0 /\ inStep'[x]
             /\ child'[x] = "dead" => cpc'[x] = "closed"
             /\ child'[x] \notin {"run", "overrun"} => Len(down'[x]) = 0
  <2>1. /\ cpc[x] = "start" => child[x] = "none" /\ Len(fup[x]) = 0 /\ inStep[x]
        /\ child[x] = "dead" => cpc[x] = "closed"
    BY DEF Queued
  <2>2. cpc'[x] = "start" => child'[x] = "none" /\ Len(fup'[x]) = 0 /\ inStep'[x]
    BY <2>1
  <2>3. /\ child'[x] = "dead" => cpc'[x] = "closed"
        /\ child'[x] \notin {"run", "overrun"} => Len(down'[x]) = 0
    BY <2>1
  <2>4. QED BY <2>2, <2>3
<1>4. QED BY <1>2, <1>3 DEF Queued

\* Accept
LEMMA AcceptStep == ASSUME FilesInv, F!Accept PROVE FilesInv'
<1> DEFINE d == Head(backlog)
<1>1. /\ d = backlog[1] /\ d \in Clients /\ child[d] = "none" /\ Len(backlog) \in Nat \ {0}
      /\ backlog' \in Seq(Clients) /\ Len(backlog') = Len(backlog) - 1
      /\ \A i \in 1..Len(backlog') : backlog'[i] = backlog[i + 1]
  BY DEF F!Accept, FilesInv, FilesTypeOK, Queued
<1>2. /\ \/ child' = [child EXCEPT ![d] = "run"] /\ spc' = spc
         \/ child' = [child EXCEPT ![d] = "refused"] /\ spc' = "exited"
      /\ UNCHANGED <<cpc, req, fup, down, inStep, fcut>>
  BY DEF F!Accept
<1>3. FilesTypeOK'
  BY <1>1, <1>2 DEF FilesInv, FilesTypeOK
<1>4. Queued'
  <2>1. \A i \in 1..Len(backlog') : i + 1 \in 1..Len(backlog) /\ backlog'[i] \in Clients
    BY <1>1
  <2>2. \A i, j \in 1..Len(backlog') : backlog'[i] = backlog'[j] => i = j
    BY SMTT(30), <1>1, <2>1 DEF FilesInv, Queued
  <2>3. \A i \in 1..Len(backlog') : backlog'[i] # d
    BY <1>1, <2>1 DEF FilesInv, Queued
  <2>4. \A i \in 1..Len(backlog') : child'[backlog'[i]] = "none" /\ cpc'[backlog'[i]] # "start"
    <3> SUFFICES ASSUME NEW i \in 1..Len(backlog') PROVE child'[backlog'[i]] = "none" /\ cpc'[backlog'[i]] # "start"
      OBVIOUS
    <3>1. child[backlog[i + 1]] = "none" /\ cpc[backlog[i + 1]] # "start"
      BY <2>1 DEF FilesInv, Queued
    <3>2. backlog'[i] = backlog[i + 1] /\ backlog'[i] # d /\ backlog'[i] \in Clients
      BY <1>1, <2>1, <2>3
    <3>3. child'[backlog'[i]] = child[backlog'[i]]
      BY <1>2, <3>2 DEF FilesInv, FilesTypeOK
    <3>4. QED BY <1>2, <3>1, <3>2, <3>3
  <2>5. cpc[d] # "start" /\ Len(down[d]) = 0
    BY <1>1 DEF FilesInv, Queued
  <2>6. \A c \in Clients : c # d => child'[c] = child[c]
    BY <1>2 DEF FilesInv, FilesTypeOK
  <2>7. child'[d] \in {"run", "refused"}
    BY <1>1, <1>2 DEF FilesInv, FilesTypeOK
  <2>8. QED BY <1>2, <2>2, <2>4, <2>5, <2>6, <2>7 DEF FilesInv, Queued
<1>5. \A c \in Clients : Numbered(c)' /\ Framed(c)'
  BY <1>2, FramedStays DEF F!Next
<1>6. QED BY <1>3, <1>4, <1>5 DEF FilesInv

\* AcceptFails: none of the clients' children is concerned.
LEMMA AcceptFailsStep == ASSUME FilesInv, F!AcceptFails PROVE FilesInv'
<1>1. spc' \in {spc, "exited"} /\ UNCHANGED <<backlog, child, cpc, req, fup, down, inStep, fcut>>
  BY DEF F!AcceptFails
<1>2. FilesTypeOK'
  BY <1>1 DEF FilesInv, FilesTypeOK
<1>3. Queued'
  BY <1>1 DEF FilesInv, Queued
<1>4. \A c \in Clients : Numbered(c)' /\ Framed(c)'
  BY <1>1, FramedStays DEF F!Next
<1>5. QED BY <1>2, <1>3, <1>4 DEF FilesInv

\* Connect
LEMMA ConnectStep == ASSUME FilesInv, NEW c \in Clients, F!Connect(c) PROVE FilesInv'
<1>1. /\ cpc[c] = "start" /\ cpc' \in [Clients -> {"start", "prompt", "read", "closing", "closed"}]
      /\ cpc'[c] \in {"prompt", "closed"} /\ \A x \in Clients : x # c => cpc'[x] = cpc[x]
      /\ child[c] = "none" /\ Len(fup[c]) = 0 /\ inStep[c] /\ Len(down[c]) = 0
      /\ UNCHANGED <<spc, child, req, fup, down, inStep, fcut>>
  BY DEF F!Connect, FilesInv, FilesTypeOK, Queued
<1>2. Len(backlog) \in Nat /\ \A i \in 1..Len(backlog) : backlog[i] \in Clients /\ backlog[i] # c
  <2>1. backlog \in Seq(Clients)
    BY DEF FilesInv, FilesTypeOK
  <2>2. \A i \in 1..Len(backlog) : cpc[backlog[i]] # "start"
    BY DEF FilesInv, Queued
  <2>3. QED BY <1>1, <2>1, <2>2
<1>3. FilesTypeOK' /\ Queued'
  <2>1. CASE backlog' = backlog
    BY <1>1, <1>2, <2>1 DEF FilesInv, FilesTypeOK, Queued
  <2>2. CASE backlog' = Append(backlog, c) /\ cpc'[c] # "closed"
    <3>1. /\ backlog' \in Seq(Clients) /\ Len(backlog') = Len(backlog) + 1
          /\ \A i \in 1..Len(backlog) : backlog'[i] = backlog[i]
          /\ backlog'[Len(backlog) + 1] = c
      BY <2>2 DEF FilesInv, FilesTypeOK
    <3>2. \A i, j \in 1..Len(backlog') : backlog'[i] = backlog'[j] => i = j
      BY <1>2, <3>1 DEF FilesInv, Queued
    <3>3. ASSUME NEW i \in 1..Len(backlog') PROVE child'[backlog'[i]] = "none" /\ cpc'[backlog'[i]] # "start"
      <4>1. CASE i \in 1..Len(backlog)
        BY <1>1, <1>2, <3>1, <4>1 DEF FilesInv, Queued
      <4>2. CASE i = Len(backlog) + 1
        BY <1>1, <3>1, <4>2
      <4>3. QED BY <1>2, <3>1, <4>1, <4>2
    <3>4. QED BY SMTT(30), <1>1, <3>1, <3>2, <3>3 DEF FilesInv, FilesTypeOK, Queued
  <2>3. QED BY <2>1, <2>2 DEF F!Connect, FilesInv, FilesTypeOK
<1>4. ASSUME NEW x \in Clients PROVE Numbered(x)' /\ Framed(x)'
  <2>1. CASE x = c
    <3>1. ~Waiting(c)' /\ Whole(c)'
      BY <1>1 DEF Waiting, Whole
    <3>2. Numbered(c)'
      BY <1>1 DEF FilesInv, Numbered
    <3>3. QED BY <2>1, <3>1, <3>2 DEF Framed
  <2>2. CASE x # c
    BY <1>1, <2>2, FramedStays DEF F!Next, F!ClientNext
  <2>3. QED BY <2>1, <2>2
<1>5. QED BY <1>3, <1>4 DEF FilesInv

\* Write
LEMMA WriteStep == ASSUME FilesInv, NEW c \in Clients, F!Write(c) PROVE FilesInv'
<1> DEFINE n == req[c] + 1
<1>1. /\ cpc[c] = "prompt" /\ cpc' \in [Clients -> {"start", "prompt", "read", "closing", "closed"}]
      /\ cpc'[c] \in {"read", "closing"} /\ \A x \in Clients : x # c => cpc'[x] = cpc[x]
      /\ req' \in [Clients -> Nat] /\ req'[c] = n /\ \A x \in Clients : x # c => req'[x] = req[x]
      /\ UNCHANGED <<spc, backlog, child, down, inStep, fcut>>
  <2>1. /\ cpc[c] = "prompt" /\ req' = [req EXCEPT ![c] = n]
        /\ cpc' = [cpc EXCEPT ![c] = "read"] \/ cpc' = [cpc EXCEPT ![c] = "closing"]
        /\ UNCHANGED <<spc, backlog, child, down, inStep, fcut>>
    BY DEF F!Write
  <2>2. req' \in [Clients -> Nat] /\ req'[c] = n /\ \A x \in Clients : x # c => req'[x] = req[x]
    BY <2>1 DEF FilesInv, FilesTypeOK
  <2>3. /\ cpc' \in [Clients -> {"start", "prompt", "read", "closing", "closed"}]
        /\ cpc'[c] \in {"read", "closing"} /\ \A x \in Clients : x # c => cpc'[x] = cpc[x]
    BY <2>1 DEF FilesInv, FilesTypeOK
  <2>4. QED BY <2>1, <2>2, <2>3
<1>2. /\ fup[c] \in Seq(Halves) /\ down[c] \in Seq(Halves) /\ <<n, 1>> \in Halves /\ <<n, 2>> \in Halves
      /\ n \in Nat /\ req[c] \in Nat
      /\ \A i \in 1..Len(fup[c]) : fup[c][i] \in Halves
      /\ \A i \in 1..Len(down[c]) : down[c][i] \in Halves
      /\ Len(fup[c]) \in Nat /\ Len(down[c]) \in Nat
  BY DEF FilesInv, FilesTypeOK, Halves
<1>3. fup' = [fup EXCEPT ![c] = IF F!Gone(c) THEN fup[c] ELSE fup[c] \o <<<<n, 1>>, <<n, 2>>>>]
  BY <1>1 DEF F!Write
<1>4. /\ fup' \in [Clients -> Seq(Halves)] /\ \A x \in Clients : x # c => fup'[x] = fup[x]
      /\ F!Gone(c) => fup'[c] = fup[c]
      /\ ~F!Gone(c) => fup'[c] = fup[c] \o <<<<n, 1>>, <<n, 2>>>>
  BY <1>2, <1>3, AddedFacts DEF FilesInv, FilesTypeOK
<1>5. FilesTypeOK'
  BY <1>1, <1>4 DEF FilesInv, FilesTypeOK
<1>6. Queued'
  <2>1. \A x \in Clients : /\ cpc'[x] = "start" => x # c
                           /\ cpc[x] = "closed" => cpc'[x] = "closed"
    BY <1>1
  <2>2. QED BY <1>1, <1>4, <2>1, QueuedStays DEF FilesInv, Queued
<1>7. Numbered(c)' /\ Framed(c)'
  <2>1. CASE F!Gone(c)
    <3>1. F!Gone(c)'
      BY <2>1, GoneStays DEF FilesInv, F!Next, F!ClientNext
    <3>2. Numbered(c)'
      <4>1. /\ \A i \in 1..Len(fup[c]) : fup[c][i][1] \in 1..req[c]
            /\ \A i \in 1..Len(down[c]) : down[c][i][1] <= req[c] /\ down[c][i][1] \in Nat
        BY <1>2 DEF FilesInv, Numbered, Halves
      <4>2. req'[c] = req[c] + 1 /\ fup'[c] = fup[c] /\ down'[c] = down[c] /\ req[c] \in Nat
        BY <1>1, <1>2, <1>4, <2>1
      <4>3. \A i \in 1..Len(fup[c]) : fup[c][i][1] \in 1..req[c] + 1
        BY <4>1, <4>2
      <4>4. \A i \in 1..Len(down[c]) : down[c][i][1] <= req[c] + 1
        BY <4>1, <4>2
      <4>5. QED BY <4>2, <4>3, <4>4 DEF Numbered
    <3>3. Framed(c)'
      <4>1. CASE Len(down[c]) = 0
        BY <1>1, <3>1, <4>1 DEF Framed, Late
      <4>2. CASE fcut[c] /\ Len(down[c]) > 0
        <5>1. down'[c] = down[c] /\ fcut'[c] /\ req'[c] = n /\ down[c][1][1] <= req[c] /\ 1 \in 1..Len(down[c])
              /\ down[c][1] \in Halves /\ req[c] \in Nat
          BY <1>1, <1>2, <4>2 DEF FilesInv, Numbered
        <5>2. F!Answers(down'[c][1]) # req'[c]
          BY <5>1 DEF F!Answers, Halves
        <5>3. Late(c)'
          BY <5>1, <5>2 DEF Late, F!Answers
        <5>4. QED BY <3>1, <5>3 DEF Framed
      <4>3. CASE ~fcut[c] /\ Len(down[c]) > 0
        <5>1. Framed(c) /\ ~Waiting(c) /\ cpc[c] # "closed"
          BY <1>1 DEF FilesInv, Waiting
        <5>2. ~Late(c)
          BY <4>3, <5>1 DEF Late
        <5>3. ~Whole(c)
          BY <4>3, <5>1 DEF Whole
        <5>4. ~LeftOver(c)
          BY <4>3, Zenon DEF LeftOver
        <5>5. QED BY <5>1, <5>2, <5>3, <5>4 DEF Framed
      <4>4. QED BY <1>2, <4>1, <4>2, <4>3
    <3>4. QED BY <3>2, <3>3
  <2>2. CASE ~F!Gone(c)
    <3>1. /\ Len(fup'[c]) = Len(fup[c]) + 2
          /\ \A i \in 1..Len(fup[c]) : fup'[c][i] = fup[c][i]
          /\ fup'[c][Len(fup[c]) + 1] = <<n, 1>> /\ fup'[c][Len(fup[c]) + 2] = <<n, 2>>
      BY <1>2, <1>4, <2>2, AddedFacts
    <3>2. /\ \A i \in 1..Len(fup[c]) : fup[c][i][1] \in 1..req[c]
          /\ \A i \in 1..Len(down[c]) : down[c][i][1] <= req[c] /\ down[c][i][1] \in Nat
      BY <1>2 DEF FilesInv, Numbered, Halves
    <3>3. Numbered(c)'
      <4>1. ASSUME NEW i \in 1..Len(fup'[c]) PROVE fup'[c][i][1] \in 1..req'[c]
        <5>1. CASE i \in 1..Len(fup[c])
          <6>1. fup'[c][i] = fup[c][i] /\ fup[c][i][1] \in 1..req[c] /\ req'[c] = req[c] + 1 /\ req[c] \in Nat
            BY <1>1, <1>2, <3>1, <3>2, <5>1
          <6>2. QED BY <6>1
        <5>2. CASE i = Len(fup[c]) + 1 \/ i = Len(fup[c]) + 2
          <6>1. fup'[c][i][1] = n /\ req'[c] = n /\ n \in Nat /\ n >= 1
            <7>1. fup'[c][i] = <<n, 1>> \/ fup'[c][i] = <<n, 2>>
              BY <3>1, <5>2
            <7>2. req'[c] = n /\ n \in Nat /\ n >= 1
              BY <1>1, <1>2
            <7>3. QED BY <7>1, <7>2
          <6>2. QED BY <6>1
        <5>3. QED BY SMTT(30), <1>2, <3>1, <5>1, <5>2
      <4>2. \A i \in 1..Len(down'[c]) : down'[c][i][1] <= req'[c]
        BY <1>1, <1>2, <3>2
      <4>3. QED BY <4>1, <4>2 DEF Numbered
    <3>4. CASE Whole(c)
      <4>1. Len(fup[c]) = 0 /\ Len(down[c]) = 0 /\ inStep[c]
        BY <1>1, <3>4 DEF Whole, Waiting
      <4>2. Whole(c)'
        BY <1>1, <3>1, <4>1 DEF Whole, Waiting, Buffer
      <4>3. QED BY <3>3, <4>2 DEF Framed
    <3>5. CASE LeftOver(c)
      <4>1. fcut[c] /\ Len(fup[c]) + Len(down[c]) >= 1
        BY <1>1, <3>5 DEF LeftOver, Waiting
      <4>2. Len(fup'[c]) + Len(down'[c]) >= 3
        <5>1. Len(down'[c]) = Len(down[c]) /\ Len(fup'[c]) = Len(fup[c]) + 2
          BY <1>1, <3>1
        <5>2. Len(fup[c]) \in Nat /\ Len(down[c]) \in Nat
          BY <1>2
        <5>3. QED BY <4>1, <5>1, <5>2, MoreLeft
      <4>3. Len(down[c]) > 0 => F!Answers(down[c][1]) # n
        BY <1>2, <3>2 DEF F!Answers
      <4>4. Len(down[c]) = 0 => fup'[c][1] # <<n, 1>>
        <5>1. Len(down[c]) = 0 => 1 \in 1..Len(fup[c])
          BY <1>2, <4>1
        <5>2. CASE Len(down[c]) = 0
          <6>1. fup'[c][1] = fup[c][1] /\ fup[c][1][1] \in 1..req[c]
            BY <3>1, <3>2, <5>1, <5>2
          <6>2. fup[c][1][1] # n
            BY <1>2, <6>1
          <6>3. QED BY <6>1, <6>2
        <5>3. QED BY <5>2
      <4>5. LeftOver(c)'
        <5>1. fcut'[c] /\ (Len(down'[c]) > 0 => F!Answers(down'[c][1]) # req'[c])
              /\ (Len(down'[c]) = 0 => fup'[c][1] # <<req'[c], 1>>)
          BY <1>1, <4>1, <4>3, <4>4 DEF F!Answers
        <5>2. Len(fup'[c]) + Len(down'[c]) >= 1
          <6>1. Len(down'[c]) = Len(down[c]) /\ Len(fup'[c]) = Len(fup[c]) + 2
            BY <1>1, <3>1
          <6>2. Len(fup[c]) \in Nat /\ Len(down[c]) \in Nat
            BY <1>2
          <6>3. QED BY <4>1, <6>1, <6>2, MoreLeft
        <5>3. QED BY <4>2, <5>1, <5>2 DEF LeftOver, F!Answers
      <4>6. QED BY <3>3, <4>5 DEF Framed
    <3>6. QED BY <1>1, <2>2, <3>4, <3>5 DEF FilesInv, Framed
  <2>3. QED BY <2>1, <2>2
<1>8. ASSUME NEW x \in Clients, x # c PROVE Numbered(x)' /\ Framed(x)'
  BY <1>1, <1>4, <1>8, FramedStays DEF F!Next, F!ClientNext
<1>9. QED BY <1>5, <1>6, <1>7, <1>8 DEF FilesInv

\* Read: at most a buffer goes, from whatever the client has been sent.
LEMMA ReadStep ==
  ASSUME FilesInv, NEW c \in Clients, F!Read(c)
  PROVE  FilesInv' /\ (inStep'[c] # inStep[c] => inStep[c] /\ fcut'[c])
<1>1. /\ Waiting(c) /\ cpc' \in [Clients -> {"start", "prompt", "read", "closing", "closed"}]
      /\ cpc'[c] \in {"prompt", "closed"} /\ \A x \in Clients : x # c => cpc'[x] = cpc[x]
      /\ UNCHANGED <<spc, backlog, child, req, fup>>
  BY DEF F!Read, FilesInv, FilesTypeOK, Waiting
<1>2. CASE UNCHANGED <<down, inStep, fcut>> /\ F!Gone(c) /\ down[c] = <<>>
  <2>1. FilesTypeOK' /\ Queued'
    <3>1. FilesTypeOK'
      BY <1>1, <1>2 DEF FilesInv, FilesTypeOK
    <3>2. \A x \in Clients : /\ cpc'[x] = "start" => x # c /\ cpc[x] = "start"
                             /\ cpc[x] = "closed" => cpc'[x] = "closed"
      BY <1>1 DEF Waiting
    <3>3. Queued'
      BY <1>1, <1>2, <3>2, QueuedStays DEF FilesInv, Queued
    <3>4. QED BY <3>1, <3>3
  <2>2. Numbered(c)' /\ Framed(c)'
    <3>1. F!Gone(c)'
      BY <1>2, GoneStays DEF FilesInv, F!Next, F!ClientNext
    <3>2. Late(c)'
      BY <1>2 DEF Late
    <3>3. QED BY <1>1, <1>2, <3>1, <3>2 DEF FilesInv, Numbered, Framed
  <2>3. ASSUME NEW x \in Clients, x # c PROVE Numbered(x)' /\ Framed(x)'
    BY <1>1, <1>2, <2>3, FramedStays DEF F!Next, F!ClientNext
  <2>4. QED BY <1>2, <2>1, <2>2, <2>3 DEF FilesInv
<1>3. ASSUME NEW k \in F!Takes(down[c]), down[c] # <<>>,
             down' = [down EXCEPT ![c] = F!Rest(down[c], k)],
             fcut' = [fcut EXCEPT ![c] = @ \/ k = 1],
             inStep' = [inStep EXCEPT ![c] = F!Answers(Head(down[c])) = req[c]]
      PROVE  FilesInv' /\ (inStep'[c] # inStep[c] => inStep[c] /\ fcut'[c])
  <2>1. /\ down[c] \in Seq(Halves) /\ Len(down[c]) \in Nat \ {0} /\ Len(fup[c]) \in Nat
        /\ Head(down[c]) = down[c][1] /\ down[c][1] \in Halves
    BY <1>3 DEF FilesInv, FilesTypeOK
  <2>2. /\ k \in 1..2 /\ k <= Len(down[c]) /\ F!Rest(down[c], k) \in Seq(Halves)
        /\ Len(F!Rest(down[c], k)) = Len(down[c]) - k
        /\ \A i \in 1..Len(down[c]) - k : F!Rest(down[c], k)[i] = down[c][i + k]
    BY <2>1, TakenFacts
  <2>3. /\ down' \in [Clients -> Seq(Halves)] /\ down'[c] = F!Rest(down[c], k)
        /\ inStep' \in [Clients -> BOOLEAN] /\ fcut' \in [Clients -> BOOLEAN]
        /\ inStep'[c] = (F!Answers(down[c][1]) = req[c]) /\ fcut'[c] = (fcut[c] \/ k = 1)
        /\ \A x \in Clients : x # c => down'[x] = down[x] /\ inStep'[x] = inStep[x] /\ fcut'[x] = fcut[x]
    BY <1>3, <2>1, <2>2 DEF FilesInv, FilesTypeOK
  <2>4. child[c] \in {"run", "overrun"}
    BY <2>1 DEF FilesInv, Queued
  <2>5. FilesTypeOK'
    BY <1>1, <2>3 DEF FilesInv, FilesTypeOK
  <2>6. Queued'
    <3>1. \A x \in Clients : /\ cpc'[x] = "start" => x # c /\ cpc[x] = "start"
                             /\ cpc[x] = "closed" => cpc'[x] = "closed"
      BY <1>1 DEF Waiting
    <3>2. \A x \in Clients : /\ cpc'[x] = "start" => fup'[x] = fup[x] /\ inStep'[x] = inStep[x]
                             /\ child[x] \notin {"run", "overrun"} => Len(down'[x]) = 0
      BY <1>1, <2>3, <2>4, <3>1 DEF FilesInv, Queued
    <3>3. QED BY <1>1, <3>1, <3>2, QueuedStays DEF FilesInv
  <2>7. Numbered(c)'
    <3>1. \A i \in 1..Len(down'[c]) : i + k \in 1..Len(down[c]) /\ down'[c][i] = down[c][i + k]
      BY <2>1, <2>2, <2>3
    <3>2. QED BY <1>1, <3>1 DEF FilesInv, Numbered
  <2>8. cpc[c] # "closed" /\ ~Waiting(c)'
    BY <1>1 DEF Waiting
  <2>9. ASSUME Whole(c) PROVE Framed(c)' /\ (inStep'[c] # inStep[c] => inStep[c] /\ fcut'[c])
    <3>1. inStep[c] /\ Len(fup[c]) = 0 /\ Len(down[c]) = 2 /\ down[c][1] = <<req[c], 1>>
      BY <1>1, <2>1, <2>9 DEF Whole, Buffer
    <3>2. inStep'[c]
      BY <2>3, <3>1 DEF F!Answers
    <3>3. CASE k = 1
      <4>1. LeftOver(c)'
        BY <1>1, <2>1, <2>2, <2>3, <2>8, <3>1, <3>3 DEF LeftOver
      <4>2. QED BY <3>1, <3>2, <4>1 DEF Framed
    <3>4. CASE k = 2
      <4>1. Whole(c)'
        BY <1>1, <2>1, <2>2, <2>3, <2>8, <3>1, <3>2, <3>4 DEF Whole
      <4>2. QED BY <3>1, <3>2, <4>1 DEF Framed
    <3>5. QED BY <2>2, <3>3, <3>4
  <2>10. ASSUME LeftOver(c) PROVE Framed(c)' /\ (inStep'[c] # inStep[c] => inStep[c] /\ fcut'[c])
    <3>1. fcut[c] /\ Len(fup[c]) + Len(down[c]) >= 3
      BY <1>1, <2>10 DEF LeftOver
    <3>2. ~inStep[c] => F!Answers(down[c][1]) # req[c]
      <4>1. Len(down[c]) > 0
        BY <2>1
      <4>2. QED BY <1>1, <2>10, <4>1 DEF LeftOver
    <3>3. LeftOver(c)'
      <4>1. Len(fup'[c]) = Len(fup[c]) /\ Len(down'[c]) = Len(down[c]) - k
        BY <1>1, <2>2, <2>3
      <4>2. Len(fup[c]) \in Nat /\ Len(down[c]) \in Nat /\ k \in 1..2
        BY <2>1, <2>2
      <4>3. Len(fup'[c]) + Len(down'[c]) >= 1
        BY <3>1, <4>1, <4>2, StillLeft
      <4>4. fcut'[c]
        BY <2>3, <3>1
      <4>5. QED BY <2>8, <4>3, <4>4 DEF LeftOver
    <3>4. inStep'[c] # inStep[c] => inStep[c] /\ fcut'[c]
      BY <2>3, <3>1, <3>2 DEF FilesInv, FilesTypeOK
    <3>5. QED BY <3>3, <3>4 DEF Framed
  <2>11. ASSUME F!Gone(c), Late(c) PROVE Framed(c)' /\ (inStep'[c] # inStep[c] => inStep[c] /\ fcut'[c])
    <3>1. F!Gone(c)'
      BY <2>11, GoneStays DEF FilesInv, F!Next, F!ClientNext
    <3>2. CASE inStep[c] /\ Buffer(down[c], req[c])
      <4>1. inStep'[c]
        BY <2>3, <3>2 DEF Buffer, F!Answers
      <4>2. Len(down[c]) = 2 /\ Len(down'[c]) = 2 - k
        BY <2>2, <2>3, <3>2 DEF Buffer
      <4>3. Late(c)'
        BY <2>2, <2>3, <2>8, <4>2 DEF Late
      <4>4. QED BY <3>1, <3>2, <4>1, <4>3 DEF Framed
    <3>3. CASE fcut[c] /\ (~inStep[c] => F!Answers(down[c][1]) # req[c])
      <4>1. Late(c)'
        BY <2>3, <2>8, <3>3 DEF Late
      <4>2. QED BY <2>3, <3>1, <3>3, <4>1 DEF Framed, FilesInv, FilesTypeOK
    <3>4. QED BY <1>1, <2>1, <2>11, <3>2, <3>3 DEF Late
  <2>12. Framed(c)' /\ (inStep'[c] # inStep[c] => inStep[c] /\ fcut'[c])
    BY <2>8, <2>9, <2>10, <2>11 DEF FilesInv, Framed
  <2>13. ASSUME NEW x \in Clients, x # c PROVE Numbered(x)' /\ Framed(x)'
    BY <1>1, <2>3, <2>13, FramedStays DEF F!Next, F!ClientNext
  <2>14. QED BY <2>5, <2>6, <2>7, <2>12, <2>13 DEF FilesInv
<1>4. QED BY <1>2, <1>3 DEF F!Read

\* Die: what the client has not read is lost.
LEMMA DieStep == ASSUME FilesInv, NEW c \in Clients, F!Die(c) PROVE FilesInv'
<1>1. /\ cpc[c] \in {"prompt", "read", "closing"} /\ cpc' = [cpc EXCEPT ![c] = "closed"]
      /\ down' = [down EXCEPT ![c] = <<>>]
      /\ UNCHANGED <<spc, backlog, child, req, fup, inStep, fcut>>
  BY DEF F!Die
<1>2. /\ cpc'[c] = "closed" /\ cpc' \in [Clients -> {"start", "prompt", "read", "closing", "closed"}]
      /\ Len(down'[c]) = 0 /\ down' \in [Clients -> Seq(Halves)]
      /\ \A x \in Clients : x # c => cpc'[x] = cpc[x] /\ down'[x] = down[x]
  BY <1>1 DEF FilesInv, FilesTypeOK
<1>3. FilesTypeOK'
  BY <1>1, <1>2 DEF FilesInv, FilesTypeOK
<1>4. Queued'
  <2>1. \A x \in Clients : /\ cpc'[x] = "start" => cpc[x] = "start"
                           /\ cpc[x] = "closed" => cpc'[x] = "closed"
                           /\ child[x] \notin {"run", "overrun"} => Len(down'[x]) = 0
    BY <1>1, <1>2 DEF FilesInv, Queued
  <2>2. QED BY <1>1, <2>1, QueuedStays DEF FilesInv
<1>5. Numbered(c)' /\ Framed(c)'
  <2>1. \A i \in 1..Len(down'[c]) : FALSE
    BY <1>2
  <2>2. QED BY <1>1, <1>2, <2>1 DEF FilesInv, Numbered, Framed
<1>6. ASSUME NEW x \in Clients, x # c PROVE Numbered(x)' /\ Framed(x)'
  BY <1>1, <1>2, <1>6, FramedStays DEF F!Next, F!ClientNext
<1>7. QED BY <1>3, <1>4, <1>5, <1>6 DEF FilesInv

\* ChildReply: no less is sent than was taken.
LEMMA ReplyGoesOn ==
  ASSUME FilesInv, NEW c \in Clients, F!ChildReply(c), child' = child
  PROVE  FilesInv'
<1> DEFINE r == F!Answers(fup[c][1])
<1>1. /\ child[c] = "run" /\ child'[c] # "overrun" /\ fup[c] # <<>>
      /\ UNCHANGED <<spc, backlog, child, cpc, req, inStep>>
  BY DEF F!ChildReply
<1>2. /\ fup[c] \in Seq(Halves) /\ Len(fup[c]) \in Nat \ {0} /\ fup[c][1] \in Halves /\ Head(fup[c]) = fup[c][1]
      /\ down[c] \in Seq(Halves) /\ Len(down[c]) \in Nat /\ req[c] \in Nat /\ cpc[c] # "start"
  BY <1>1 DEF FilesInv, FilesTypeOK, Queued
<1>3. r \in Nat /\ r <= req[c] /\ fup[c][1] = <<fup[c][1][1], fup[c][1][2]>> /\ fup[c][1][2] \in {1, 2}
      /\ fup[c][1][1] \in 1..req[c]
  <2>1. fup[c][1][1] \in 1..req[c]
    BY <1>2 DEF FilesInv, Numbered
  <2>2. QED BY <1>2, <2>1 DEF F!Answers, Halves
<1>4. PICK k \in F!Takes(fup[c]) :
        /\ fup' = [fup EXCEPT ![c] = F!Rest(fup[c], k)]
        /\ fcut' = [fcut EXCEPT ![c] = @ \/ k = 1]
        /\ down' = [down EXCEPT ![c] = down[c] \o <<<<r, 1>>, <<r, 2>>>>]
  BY <1>1, <1>2 DEF F!ChildReply, FilesInv, FilesTypeOK
<1>5. /\ k \in 1..2 /\ k <= Len(fup[c]) /\ F!Rest(fup[c], k) \in Seq(Halves)
      /\ Len(F!Rest(fup[c], k)) = Len(fup[c]) - k
      /\ \A i \in 1..Len(fup[c]) - k : F!Rest(fup[c], k)[i] = fup[c][i + k]
  BY <1>2, TakenFacts
<1>6. /\ fup' \in [Clients -> Seq(Halves)] /\ fup'[c] = F!Rest(fup[c], k)
      /\ fcut' \in [Clients -> BOOLEAN] /\ fcut'[c] = (fcut[c] \/ k = 1)
      /\ \A x \in Clients : x # c => fup'[x] = fup[x] /\ fcut'[x] = fcut[x]
  BY <1>4, <1>5 DEF FilesInv, FilesTypeOK
<1>7. /\ <<r, 1>> \in Halves /\ <<r, 2>> \in Halves
      /\ down[c] \o <<<<r, 1>>, <<r, 2>>>> \in Seq(Halves)
      /\ Len(down[c] \o <<<<r, 1>>, <<r, 2>>>>) = Len(down[c]) + 2
      /\ \A i \in 1..Len(down[c]) : (down[c] \o <<<<r, 1>>, <<r, 2>>>>)[i] = down[c][i]
      /\ (down[c] \o <<<<r, 1>>, <<r, 2>>>>)[Len(down[c]) + 1] = <<r, 1>>
      /\ (down[c] \o <<<<r, 1>>, <<r, 2>>>>)[Len(down[c]) + 2] = <<r, 2>>
  <2>1. <<r, 1>> \in Halves /\ <<r, 2>> \in Halves
    BY <1>3 DEF Halves
  <2>2. QED BY <1>2, <2>1, AddedFacts
<1>8. /\ down' \in [Clients -> Seq(Halves)]
      /\ Len(down'[c]) = Len(down[c]) + 2 /\ \A i \in 1..Len(down[c]) : down'[c][i] = down[c][i]
      /\ down'[c][Len(down[c]) + 1] = <<r, 1>> /\ down'[c][Len(down[c]) + 2] = <<r, 2>>
      /\ \A x \in Clients : x # c => down'[x] = down[x]
  <2>1. down'[c] = down[c] \o <<<<r, 1>>, <<r, 2>>>>
    BY <1>4 DEF FilesInv, FilesTypeOK
  <2>2. down' \in [Clients -> Seq(Halves)] /\ \A x \in Clients : x # c => down'[x] = down[x]
    BY <1>4, <1>7 DEF FilesInv, FilesTypeOK
  <2>3. QED BY <1>7, <2>1, <2>2
<1>9. FilesTypeOK'
  BY <1>1, <1>6, <1>8 DEF FilesInv, FilesTypeOK
<1>10. Queued'
  <2>1. \A x \in Clients : /\ cpc'[x] = "start" => fup'[x] = fup[x]
                           /\ child[x] \notin {"run", "overrun"} => Len(down'[x]) = 0
    BY SMTT(30), <1>1, <1>2, <1>6, <1>8 DEF FilesInv, Queued
  <2>2. QED BY <1>1, <2>1, QueuedStays DEF FilesInv
<1>11. Numbered(c)'
  <2>1. ASSUME NEW i \in 1..Len(fup'[c]) PROVE fup'[c][i][1] \in 1..req'[c]
    <3>1. i + k \in 1..Len(fup[c]) /\ fup'[c][i] = fup[c][i + k]
      BY <1>2, <1>5, <1>6
    <3>2. QED BY <1>1, <3>1 DEF FilesInv, Numbered
  <2>2. ASSUME NEW i \in 1..Len(down'[c]) PROVE down'[c][i][1] <= req'[c]
    <3>1. CASE i \in 1..Len(down[c])
      BY <1>1, <1>8, <3>1 DEF FilesInv, Numbered
    <3>2. CASE i = Len(down[c]) + 1 \/ i = Len(down[c]) + 2
      BY <1>1, <1>3, <1>8, <3>2
    <3>3. QED BY <1>2, <1>8, <3>1, <3>2
  <2>3. QED BY <2>1, <2>2 DEF Numbered
<1>12. Framed(c)'
  <2>1. CASE cpc[c] = "closed"
    BY <1>1, <2>1 DEF Framed
  <2>2. CASE Whole(c)
    <3>1. /\ Waiting(c) /\ inStep[c] /\ Len(fup[c]) = 2 /\ Len(down[c]) = 0 /\ r = req[c]
      BY <1>2, <2>2 DEF Whole, Buffer, F!Answers
    <3>2. /\ Waiting(c)' /\ inStep'[c] /\ Len(fup'[c]) = 2 - k /\ Len(down'[c]) = 2
          /\ down'[c][1] = <<req'[c], 1>>
      BY <1>1, <1>5, <1>6, <1>8, <3>1 DEF Waiting
    <3>3. CASE k = 1
      BY <1>6, <3>2, <3>3 DEF Framed, LeftOver
    <3>4. CASE k = 2
      BY <3>2, <3>4 DEF Framed, Whole, Buffer
    <3>5. QED BY <1>5, <3>3, <3>4
  <2>3. CASE LeftOver(c)
    <3>1. fcut'[c]
      BY <1>6, <2>3 DEF LeftOver
    <3>2. /\ Len(fup'[c]) + Len(down'[c]) >= 1
          /\ Waiting(c)' => Len(fup'[c]) + Len(down'[c]) >= 3
      <4>1. Len(fup'[c]) = Len(fup[c]) - k /\ Len(down'[c]) = Len(down[c]) + 2
        BY <1>5, <1>6, <1>8
      <4>2. Len(fup[c]) \in Nat /\ Len(down[c]) \in Nat /\ k \in 1..2
        BY <1>2, <1>5
      <4>3. CASE Waiting(c)
        <5>1. Len(fup[c]) + Len(down[c]) >= 3
          BY <2>3, <4>3 DEF LeftOver
        <5>2. QED BY <4>1, <4>2, <5>1, NoLessLeft
      <4>4. CASE ~Waiting(c)
        <5>1. Len(fup[c]) + Len(down[c]) >= 1 /\ ~Waiting(c)'
          BY <1>1, <2>3, <4>4 DEF LeftOver, Waiting
        <5>2. QED BY <4>1, <4>2, <5>1, NoLessLeft
      <4>5. QED BY <4>3, <4>4
    <3>3. ASSUME Waiting(c)', ~inStep'[c] PROVE Len(down'[c]) > 0 /\ F!Answers(down'[c][1]) # req'[c]
      <4>1. Waiting(c) /\ ~inStep[c] /\ req' = req
        BY <1>1, <3>3 DEF Waiting
      <4>2. CASE Len(down[c]) > 0
        <5>1. F!Answers(down[c][1]) # req[c]
          BY <2>3, <4>1, <4>2 DEF LeftOver
        <5>2. down'[c][1] = down[c][1] /\ Len(down'[c]) > 0
          BY <1>2, <1>8, <4>2
        <5>3. QED BY <4>1, <5>1, <5>2 DEF F!Answers
      <4>3. CASE Len(down[c]) = 0
        <5>1. fup[c][1] # <<req[c], 1>> /\ down'[c][1] = <<r, 1>>
          BY <1>8, <2>3, <4>1, <4>3 DEF LeftOver
        <5>2. r # req[c]
          BY <1>3, <5>1 DEF F!Answers
        <5>3. QED BY <1>8, <4>1, <4>3, <5>1, <5>2 DEF F!Answers
      <4>4. QED BY <1>2, <4>2, <4>3
    <3>4. LeftOver(c)'
      <4>1. Waiting(c)' /\ ~inStep'[c] =>
              /\ Len(down'[c]) > 0 => F!Answers(down'[c][1]) # req'[c]
              /\ Len(down'[c]) = 0 => fup'[c][1] # <<req'[c], 1>>
        BY <1>2, <1>8, <3>3
      <4>2. QED BY <3>1, <3>2, <4>1 DEF LeftOver, F!Answers
    <3>5. QED BY <3>4 DEF Framed
  <2>4. ~F!Gone(c)
    BY <1>1 DEF F!Gone, F!Listening
  <2>5. QED BY <2>1, <2>2, <2>3, <2>4 DEF FilesInv, Framed
<1>13. ASSUME NEW x \in Clients, x # c PROVE Numbered(x)' /\ Framed(x)'
  BY <1>1, <1>6, <1>8, <1>13, FramedStays DEF F!Next, F!ChildNext
<1>14. QED BY <1>9, <1>10, <1>11, <1>12, <1>13 DEF FilesInv

\* ChildReply, and the child dies of it: the reply is there, and no other comes.
LEMMA ReplyOverruns ==
  ASSUME FilesInv, NEW c \in Clients, F!ChildReply(c), child' # child
  PROVE  FilesInv'
<1> DEFINE r == F!Answers(fup[c][1])
<1>1. /\ child[c] = "run" /\ fup[c] # <<>> /\ UNCHANGED <<spc, backlog, cpc, req, inStep>>
      /\ child' = [child EXCEPT ![c] = "overrun"] /\ fup' = [fup EXCEPT ![c] = <<>>]
  BY DEF F!ChildReply
<1>2. /\ fup[c] \in Seq(Halves) /\ Len(fup[c]) \in Nat \ {0} /\ fup[c][1] \in Halves /\ Head(fup[c]) = fup[c][1]
      /\ down[c] \in Seq(Halves) /\ Len(down[c]) \in Nat /\ req[c] \in Nat /\ cpc[c] # "start"
  BY <1>1 DEF FilesInv, FilesTypeOK, Queued
<1>3. /\ r \in Nat /\ r <= req[c] /\ fup[c][1] = <<fup[c][1][1], fup[c][1][2]>> /\ fup[c][1][2] \in {1, 2}
      /\ fup[c][1][1] \in 1..req[c]
  <2>1. fup[c][1][1] \in 1..req[c]
    BY <1>2 DEF FilesInv, Numbered
  <2>2. QED BY <1>2, <2>1 DEF F!Answers, Halves
<1>4. PICK k \in F!Takes(fup[c]) :
        /\ fcut' = [fcut EXCEPT ![c] = @ \/ k = 1]
        /\ down' = [down EXCEPT ![c] = down[c] \o <<<<r, 1>>, <<r, 2>>>>]
  BY <1>2 DEF F!ChildReply
<1>5. k \in 1..2 /\ k <= Len(fup[c])
  BY <1>2, TakenFacts
<1>6. /\ <<r, 1>> \in Halves /\ <<r, 2>> \in Halves
      /\ down[c] \o <<<<r, 1>>, <<r, 2>>>> \in Seq(Halves)
      /\ Len(down[c] \o <<<<r, 1>>, <<r, 2>>>>) = Len(down[c]) + 2
      /\ \A i \in 1..Len(down[c]) : (down[c] \o <<<<r, 1>>, <<r, 2>>>>)[i] = down[c][i]
      /\ (down[c] \o <<<<r, 1>>, <<r, 2>>>>)[Len(down[c]) + 1] = <<r, 1>>
      /\ (down[c] \o <<<<r, 1>>, <<r, 2>>>>)[Len(down[c]) + 2] = <<r, 2>>
  <2>1. <<r, 1>> \in Halves /\ <<r, 2>> \in Halves
    BY <1>3 DEF Halves
  <2>2. QED BY <1>2, <2>1, AddedFacts
<1>7. /\ down' \in [Clients -> Seq(Halves)]
      /\ Len(down'[c]) = Len(down[c]) + 2 /\ \A i \in 1..Len(down[c]) : down'[c][i] = down[c][i]
      /\ down'[c][Len(down[c]) + 1] = <<r, 1>> /\ down'[c][Len(down[c]) + 2] = <<r, 2>>
      /\ \A x \in Clients : x # c => down'[x] = down[x]
  <2>1. down'[c] = down[c] \o <<<<r, 1>>, <<r, 2>>>>
    BY <1>4 DEF FilesInv, FilesTypeOK
  <2>2. down' \in [Clients -> Seq(Halves)] /\ \A x \in Clients : x # c => down'[x] = down[x]
    BY <1>4, <1>6 DEF FilesInv, FilesTypeOK
  <2>3. QED BY <1>6, <2>1, <2>2
<1>8. /\ child'[c] = "overrun" /\ child' \in [Clients -> {"none", "run", "dead", "overrun", "refused"}]
      /\ fup' \in [Clients -> Seq(Halves)] /\ Len(fup'[c]) = 0
      /\ fcut' \in [Clients -> BOOLEAN] /\ fcut'[c] = (fcut[c] \/ k = 1)
      /\ \A x \in Clients : x # c => child'[x] = child[x] /\ fup'[x] = fup[x] /\ fcut'[x] = fcut[x]
  <2>1. <<>> \in Seq(Halves)
    OBVIOUS
  <2>2. QED BY <1>1, <1>4, <2>1 DEF FilesInv, FilesTypeOK
<1>9. FilesTypeOK'
  BY <1>1, <1>7, <1>8 DEF FilesInv, FilesTypeOK
<1>10. Queued'
  <2>1. ASSUME NEW i \in 1..Len(backlog) PROVE child'[backlog[i]] = "none" /\ cpc'[backlog[i]] # "start"
    <3>1. backlog[i] \in Clients /\ child[backlog[i]] = "none" /\ cpc[backlog[i]] # "start"
      BY DEF FilesInv, FilesTypeOK, Queued
    <3>2. QED BY <1>1, <1>8, <3>1
  <2>2. ASSUME NEW x \in Clients
        PROVE  /\ cpc'[x] = "start" => child'[x] = "none" /\ Len(fup'[x]) = 0 /\ inStep'[x]
               /\ child'[x] = "dead" => cpc'[x] = "closed"
               /\ child'[x] \notin {"run", "overrun"} => Len(down'[x]) = 0
    <3>1. CASE x = c
      BY <1>1, <1>2, <1>8, <3>1
    <3>2. CASE x # c
      <4>1. /\ child'[x] = child[x] /\ fup'[x] = fup[x] /\ down'[x] = down[x]
            /\ cpc'[x] = cpc[x] /\ inStep'[x] = inStep[x]
        BY <1>1, <1>7, <1>8, <3>2
      <4>2. /\ cpc[x] = "start" => child[x] = "none" /\ Len(fup[x]) = 0 /\ inStep[x]
            /\ child[x] = "dead" => cpc[x] = "closed"
            /\ child[x] \notin {"run", "overrun"} => Len(down[x]) = 0
        BY DEF FilesInv, Queued
      <4>3. QED BY <4>1, <4>2
    <3>3. QED BY <3>1, <3>2
  <2>3. QED BY <1>1, <2>1, <2>2 DEF FilesInv, Queued
<1>11. Numbered(c)'
  <2>1. ASSUME NEW i \in 1..Len(down'[c]) PROVE down'[c][i][1] <= req'[c]
    <3>1. CASE i \in 1..Len(down[c])
      BY <1>1, <1>7, <3>1 DEF FilesInv, Numbered
    <3>2. CASE i = Len(down[c]) + 1 \/ i = Len(down[c]) + 2
      BY <1>1, <1>3, <1>7, <3>2
    <3>3. QED BY <1>2, <1>7, <3>1, <3>2
  <2>2. \A i \in 1..Len(fup'[c]) : FALSE
    BY <1>8
  <2>3. QED BY <2>1, <2>2 DEF Numbered
<1>12. Framed(c)'
  <2>1. F!Gone(c)' /\ ~F!Gone(c)
    BY <1>1, <1>8 DEF F!Gone, F!Listening
  <2>2. CASE cpc[c] = "closed"
    BY <1>1, <2>2 DEF Framed
  <2>3. CASE Whole(c)
    <3>1. Waiting(c) /\ inStep[c] /\ Len(fup[c]) = 2 /\ Len(down[c]) = 0 /\ r = req[c]
      BY <1>2, <2>3 DEF Whole, Buffer, F!Answers
    <3>2. Waiting(c)' /\ inStep'[c] /\ Buffer(down[c], req[c])'
      BY <1>1, <1>7, <3>1 DEF Waiting, Buffer
    <3>3. Late(c)'
      BY <3>2 DEF Late
    <3>4. QED BY <2>1, <3>3 DEF Framed
  <2>4. CASE LeftOver(c)
    <3>1. fcut'[c]
      BY <1>8, <2>4 DEF LeftOver
    <3>2. ASSUME Waiting(c)', ~inStep'[c] PROVE F!Answers(down'[c][1]) # req'[c]
      <4>1. Waiting(c) /\ ~inStep[c] /\ req' = req
        BY <1>1, <3>2 DEF Waiting
      <4>2. CASE Len(down[c]) > 0
        <5>1. F!Answers(down[c][1]) # req[c]
          BY <2>4, <4>1, <4>2 DEF LeftOver
        <5>2. down'[c][1] = down[c][1]
          BY <1>2, <1>7, <4>2
        <5>3. QED BY <4>1, <5>1, <5>2 DEF F!Answers
      <4>3. CASE Len(down[c]) = 0
        <5>1. fup[c][1] # <<req[c], 1>> /\ down'[c][1] = <<r, 1>>
          BY <1>7, <2>4, <4>1, <4>3 DEF LeftOver
        <5>2. r # req[c]
          BY <1>3, <5>1 DEF F!Answers
        <5>3. QED BY <4>1, <5>1, <5>2 DEF F!Answers
      <4>4. QED BY <1>2, <4>2, <4>3
    <3>3. Late(c)'
      BY <3>1, <3>2 DEF Late, F!Answers
    <3>4. QED BY <2>1, <3>3 DEF Framed
  <2>5. QED BY <2>1, <2>2, <2>3, <2>4 DEF FilesInv, Framed
<1>13. ASSUME NEW x \in Clients, x # c PROVE Numbered(x)' /\ Framed(x)'
  BY <1>1, <1>7, <1>8, <1>13, FramedStays DEF F!Next, F!ChildNext
<1>14. QED BY <1>9, <1>10, <1>11, <1>12, <1>13 DEF FilesInv

LEMMA ChildReplyStep == ASSUME FilesInv, NEW c \in Clients, F!ChildReply(c) PROVE FilesInv'
BY ReplyGoesOn, ReplyOverruns

\* ChildEnds: the connection goes with the child.
LEMMA ChildEndsStep == ASSUME FilesInv, NEW c \in Clients, F!ChildEnds(c) PROVE FilesInv'
<1>1. /\ child[c] = "run" /\ cpc[c] = "closed" /\ child' = [child EXCEPT ![c] = "dead"]
      /\ fup' = [fup EXCEPT ![c] = <<>>] /\ down' = [down EXCEPT ![c] = <<>>]
      /\ UNCHANGED <<spc, backlog, cpc, req, inStep, fcut>>
  BY DEF F!ChildEnds
<1>2. /\ child'[c] = "dead" /\ child' \in [Clients -> {"none", "run", "dead", "overrun", "refused"}]
      /\ fup' \in [Clients -> Seq(Halves)] /\ down' \in [Clients -> Seq(Halves)]
      /\ Len(fup'[c]) = 0 /\ Len(down'[c]) = 0
      /\ \A x \in Clients : x # c => child'[x] = child[x] /\ fup'[x] = fup[x] /\ down'[x] = down[x]
  BY <1>1 DEF FilesInv, FilesTypeOK
<1>3. FilesTypeOK'
  BY <1>1, <1>2 DEF FilesInv, FilesTypeOK
<1>4. Queued'
  <2>1. ASSUME NEW i \in 1..Len(backlog) PROVE child'[backlog[i]] = "none" /\ cpc'[backlog[i]] # "start"
    <3>1. backlog[i] \in Clients /\ child[backlog[i]] = "none" /\ cpc[backlog[i]] # "start"
      BY DEF FilesInv, FilesTypeOK, Queued
    <3>2. QED BY <1>1, <1>2, <3>1
  <2>2. \A x \in Clients : /\ cpc'[x] = "start" => child'[x] = "none" /\ Len(fup'[x]) = 0 /\ inStep'[x]
                           /\ child'[x] = "dead" => cpc'[x] = "closed"
                           /\ child'[x] \notin {"run", "overrun"} => Len(down'[x]) = 0
    BY <1>1, <1>2 DEF FilesInv, Queued
  <2>3. QED BY <1>1, <2>1, <2>2 DEF FilesInv, Queued
<1>5. Numbered(c)' /\ Framed(c)'
  <2>1. (\A i \in 1..Len(down'[c]) : FALSE) /\ (\A i \in 1..Len(fup'[c]) : FALSE)
    BY <1>2
  <2>2. QED BY <1>1, <2>1 DEF Numbered, Framed
<1>6. ASSUME NEW x \in Clients, x # c PROVE Numbered(x)' /\ Framed(x)'
  BY <1>1, <1>2, <1>6, FramedStays DEF F!Next, F!ChildNext
<1>7. QED BY <1>3, <1>4, <1>5, <1>6 DEF FilesInv

\* In the beginning nobody is connected.
LEMMA FilesStart == ASSUME F!Init PROVE FilesInv
<1>1. FilesTypeOK
  BY DEF F!Init, FilesTypeOK
<1>2. \A c \in Clients : Len(fup[c]) = 0 /\ Len(down[c]) = 0 /\ inStep[c] /\ cpc[c] = "start" /\ child[c] = "none"
  BY DEF F!Init
<1>3. Len(backlog) = 0
  BY DEF F!Init
<1>4. Queued
  BY <1>2, <1>3 DEF Queued
<1>5. \A c \in Clients : Numbered(c) /\ Framed(c)
  BY <1>2 DEF Numbered, Framed, Whole, Waiting
<1>6. QED BY <1>1, <1>4, <1>5 DEF FilesInv

\* A step at a time: the invariant, and what happens to a client's step.
LEMMA FilesStep ==
  ASSUME FilesInv, [F!Next]_(F!vars)
  PROVE  FilesInv' /\ \A c \in Clients : inStep'[c] # inStep[c] => inStep[c] /\ fcut'[c]
<1>1. CASE F!Accept \/ F!AcceptFails
  BY <1>1, AcceptStep, AcceptFailsStep DEF F!Accept, F!AcceptFails
<1>2. ASSUME NEW c \in Clients, F!Connect(c) \/ F!Write(c) \/ F!Die(c) \/ F!ChildNext(c)
      PROVE  FilesInv' /\ inStep' = inStep
  <2>1. FilesInv'
    BY <1>2, ConnectStep, WriteStep, DieStep, ChildReplyStep, ChildEndsStep DEF F!ChildNext
  <2>2. inStep' = inStep
    BY <1>2 DEF F!Connect, F!Write, F!Die, F!ChildNext, F!ChildReply, F!ChildEnds
  <2>3. QED BY <2>1, <2>2
<1>3. ASSUME NEW c \in Clients, F!Read(c)
      PROVE  FilesInv' /\ \A x \in Clients : inStep'[x] # inStep[x] => inStep[x] /\ fcut'[x]
  <2>1. \A x \in Clients : x # c => inStep'[x] = inStep[x]
    BY <1>3 DEF F!Read, FilesInv, FilesTypeOK
  <2>2. QED BY <1>3, <2>1, ReadStep
<1>4. CASE UNCHANGED F!vars
  <2>1. FilesTypeOK' /\ Queued'
    BY <1>4 DEF F!vars, FilesInv, FilesTypeOK, Queued
  <2>2. \A c \in Clients : Numbered(c)' /\ Framed(c)'
    BY <1>4, FramedStays DEF F!vars
  <2>3. QED BY <1>4, <2>1, <2>2 DEF F!vars, FilesInv
<1>5. QED BY <1>1, <1>2, <1>3, <1>4 DEF F!Next, F!ClientNext

\* FilesRight holds of the server and its clients, however many there are and
\* whatever the calls return and the memset() past the buffer spoils: a child
\* dies of that or when its client has gone, a server
\* that has ended accepts nobody, and a client is taken out of step only by a
\* call that returned part of a buffer, and never comes back into it.
THEOREM FilesAreRight == F!Spec => FilesRight
<1>1. FilesInv => F!ChildOutlivesClient
  <2> SUFFICES ASSUME FilesInv, NEW c \in Clients
               PROVE  /\ child[c] = "dead" => cpc[c] = "closed"
                      /\ child[c] # "none" => \A k \in DOMAIN backlog : backlog[k] # c
    BY DEF F!ChildOutlivesClient
  <2>1. DOMAIN backlog = 1..Len(backlog)
    BY DEF FilesInv, FilesTypeOK
  <2>2. QED BY <2>1 DEF FilesInv, Queued
<1>2. FilesInv /\ [F!Next]_(F!vars) =>
        (spc = "exited" => \A c \in Clients : child[c] = "none" => child'[c] = "none")
  <2> SUFFICES ASSUME FilesInv, [F!Next]_(F!vars), spc = "exited", NEW c \in Clients, child[c] = "none"
               PROVE  child'[c] = "none"
    OBVIOUS
  <2>1. ASSUME NEW x \in Clients, F!ClientNext(x) \/ F!ChildNext(x) PROVE child'[c] = "none"
    BY <2>1 DEF F!ClientNext, F!ChildNext, F!Connect, F!Write, F!Read, F!Die, F!ChildReply, F!ChildEnds,
                FilesInv, FilesTypeOK
  <2>2. ~F!Accept /\ ~F!AcceptFails
    BY DEF F!Accept, F!AcceptFails
  <2>3. QED BY <2>1, <2>2 DEF F!Next, F!vars
<1>3. FilesInv /\ [F!Next]_(F!vars) => FilesInv'
  BY FilesStep
<1>4. FilesInv /\ [F!Next]_(F!vars) =>
        \A c \in Clients : inStep'[c] # inStep[c] => inStep[c] /\ fcut'[c]
  BY FilesStep
<1>5. F!Init => FilesInv
  BY FilesStart
<1>6. QED BY <1>1, <1>2, <1>3, <1>4, <1>5, PTL
          DEF F!Spec, FilesRight, F!NobodyAccepts, F!OutOfStepForGood

-----------------------------------------------------------------------------
(* What the run checks of TimedWait and SignalIO, of the specification it    *)
(* checks it of: the part that is theirs makes their steps or stands still.  *)

\* DrivenRight holds of every behaviour of MCSignals: only four of the nine
\* programs lose an alarm, none keeps one, and datagrams are echoed in order.
THEOREM DrivenIsRight == MCSpec => DrivenRight
<1>1. MCInit => TimedInv /\ SigioInv
  BY TimedStart, SigioStart, SignalsAssumption DEF MCInit
<1>2. [MCNext]_<<which, vars, timed, sigio, beat, files>> => [T!Next]_(T!vars)
  BY DEF MCNext, timed, T!vars, T!client
<1>3. [MCNext]_<<which, vars, timed, sigio, beat, files>> => [S!Next]_(S!vars)
  BY DEF MCNext, sigio, S!vars, S!ring
<1>4. TimedInv => T!AlarmOnce
  BY DEF TimedInv
<1>5. SigioInv /\ [S!Next]_(S!vars) => SigioInv' /\ [echoed' # echoed => echoed' > echoed]_(S!vars)
  BY SigioStep, SignalsAssumption
<1>6. QED BY <1>1, <1>2, <1>3, <1>4, <1>5, TimedStep, PTL DEF MCSpec, DrivenRight, S!EchoedInOrder

-----------------------------------------------------------------------------
(* The client with timeout and retransmission. *)

USE LinesAssumption, RexmtAssumption, RxtAssumption, UnitAssumption, LifetimeAssumption

-----------------------------------------------------------------------------
(* Arithmetic of rtt.c.  r is a round trip, s and v the estimates before it. *)

\* A quotient is at least k when the dividend is at least k times the divisor.
LEMMA QuotientAtLeast ==
  ASSUME NEW a \in Int, NEW b \in Int, NEW k \in Int, b > 0, a >= k * b
  PROVE  a \div b >= k
<1> DEFINE q == a \div b
<1>1. /\ q \in Int /\ a - b * q < b
  BY Z3
<1>2. CASE q >= k
  BY <1>2
<1>3. CASE q + 1 <= k
  <2>1. b * (q + 1) <= b * k
    BY <1>1, <1>3, Z3
  <2>2. b * (q + 1) = b * q + b
    BY <1>1, Z3
  <2>3. a >= b * k
    BY Z3
  <2>4. b * q \in Int /\ b * k \in Int
    BY <1>1
  <2>5. FALSE
    BY <1>1, <2>1, <2>2, <2>3, <2>4
  <2>6. QED BY <2>5
<1>4. QED BY <1>1, <1>2, <1>3

\* One step of both filters leaves the estimates where they are not negative.
LEMMA EstimatesType ==
  ASSUME srtt \in Nat, rttvar \in Nat, NEW r \in Nat
  PROVE  NewSrtt(r) \in Nat /\ NewRttvar(r) \in Nat
BY DEF NewSrtt, NewRttvar, Abs

\* The estimate plus four deviations is short of the round trip just measured
\* by less than four parts, which only the rounding takes away.
LEMMA FourDeviations ==
  ASSUME srtt \in Nat, rttvar \in Nat, NEW r \in Nat
  PROVE  RtoCalc(NewSrtt(r), NewRttvar(r)) >= r - 3
BY DEF RtoCalc, NewSrtt, NewRttvar, Abs

\* What rtt_minmax returns is a time within its limits.
LEMMA MinMaxType ==
  ASSUME NEW t \in Int
  PROVE  /\ MinMax(t) \in Nat
         /\ MinMax(t) >= t \/ MinMax(t) = RxtMax * Unit
<1>1. RxtMin * Unit \in Nat /\ RxtMax * Unit \in Nat
  OBVIOUS
<1>2. QED BY <1>1 DEF MinMax

LEMMA StartType ==
  ASSUME NEW t \in Nat
  PROVE  Start(t) \in Nat
<1>1. Unit \div 2 \in Nat
  OBVIOUS
<1>2. QED BY <1>1 DEF Start

\* The timer for an RTO that is short of k seconds by three parts at most runs k seconds.
LEMMA StartCovers ==
  ASSUME NEW t \in Nat, NEW k \in Nat, t >= k * Unit - 3
  PROVE  Start(t) >= k
<1>1. Unit \div 2 \in Nat /\ Unit \div 2 >= 4
  OBVIOUS
<1>2. k * Unit \in Nat
  OBVIOUS
<1>3. t + (Unit \div 2) >= k * Unit
  BY <1>1, <1>2
<1>4. QED BY <1>1, <1>3, QuotientAtLeast DEF Start

-----------------------------------------------------------------------------
(***************************************************************************)
(* TypeOK alone is not inductive: that the client counts to MaxRexmt + 1   *)
(* needs that it goes on only below that bound, and the channel that what  *)
(* it has in hand at "got" is the answer to the line it waits for.         *)
(***************************************************************************)
\* Where a call is under way.
Calling == pc \in {"send", "armed", "recv", "got"}

\* What has been received is the answer awaited; what was printed last belongs
\* to the line before, or to this one once the call has returned.
IInv ==
  /\ TypeOK
  /\ Calling => seq > 0 /\ nrexmt <= MaxRexmt
  /\ pc = "got" => recvhdr.seq = seq

LEMMA InitIInv == Init => IInv
<1> SUFFICES ASSUME Init PROVE IInv
  OBVIOUS
<1>1. (3 * Unit) \div 4 \in Nat
  OBVIOUS
<1>2. RtoCalc(0, (3 * Unit) \div 4) \in Int
  BY <1>1 DEF RtoCalc
<1>3. rto \in Nat
  BY <1>2, MinMaxType DEF Init
<1>4. rttvar \in Nat /\ srtt \in Nat
  BY <1>1 DEF Init
<1>5. recvhdr \in [seq : 0..MaxLines, age : Nat] /\ nrexmt \in 0..MaxRexmt + 1
  BY DEF Init, NoHdr
<1>6. pc = "fgets" /\ seq = 0 /\ shown = 0 /\ timer = 0 /\ net = {}
  BY DEF Init
<1>7. jmpset \in BOOLEAN
  BY Zenon DEF Init
<1>8. TypeOK
  BY <1>3, <1>4, <1>5, <1>6, <1>7 DEF TypeOK
<1>9. QED BY <1>6, <1>8 DEF IInv, Calling

LEMMA StepIInv == IInv /\ [Next]_vars => IInv'
<1> SUFFICES ASSUME IInv, [Next]_vars PROVE IInv'
  OBVIOUS
<1>0. TypeOK
  BY DEF IInv
<1> USE DEF IInv, TypeOK, Calling
<1>1. CASE TypeLine
  BY <1>1 DEF TypeLine, rttVars
<1>2. CASE Transmit
  <2>1. Start(rto) \in Nat
    BY <1>0, StartType
  <2>2. [to |-> "server", seq |-> seq, age |-> 0] \in Datagram
    BY <1>2 DEF Transmit, Datagram
  <2>3. QED BY <1>2, <2>1, <2>2 DEF Transmit, rttVars
<1>3. CASE SetJmp
  BY <1>3 DEF SetJmp, rttVars
<1>4. CASE Return
  <2>1. recvhdr.age * Unit \in Nat
    BY <1>0
  <2> DEFINE r == recvhdr.age * Unit
  <2>2. NewSrtt(r) \in Nat /\ NewRttvar(r) \in Nat
    BY <1>0, <2>1, EstimatesType
  <2>3. RtoCalc(NewSrtt(r), NewRttvar(r)) \in Int
    BY <2>2 DEF RtoCalc
  <2>4. rto' \in Nat /\ srtt' \in Nat /\ rttvar' \in Nat
    BY <1>4, <2>2, <2>3, MinMaxType DEF Return, Stop
  <2>5. QED BY <1>4, <2>4 DEF Return, NoHdr
<1>5. CASE Expire
  BY <1>5 DEF Expire, Timeout, Timed, NoHdr, rttVars
<1>6. CASE Tick
  <2>1. timer' \in Nat
    BY <1>6 DEF Tick
  <2>2. net' \subseteq Datagram
    <3>1. \A m \in net : m.age < Lifetime => [m EXCEPT !.age = @ + 1] \in Datagram
      BY LifetimeAssumption DEF Datagram
    <3>2. QED BY <1>6, <3>1 DEF Tick
  <2>3. /\ recvhdr' \in [seq : 0..MaxLines, age : Nat]
        /\ recvhdr'.seq = recvhdr.seq
    BY <1>6 DEF Tick
  <2>4. UNCHANGED <<pc, seq, nrexmt, srtt, rttvar, rto, jmpset, shown>>
    BY <1>6 DEF Tick, rttVars
  <2>5. QED BY <2>1, <2>2, <2>3, <2>4
<1>7. ASSUME NEW m \in net, Recv(m) PROVE IInv'
  <2>1. m \in Datagram
    BY <1>0
  <2>2. QED BY <1>7, <2>1 DEF Recv, Datagram, rttVars
<1>8. ASSUME NEW m \in net, Echo(m) PROVE IInv'
  <2>1. [m EXCEPT !.to = "client"] \in Datagram
    BY DEF Datagram
  <2>2. net' \subseteq Datagram
    BY <1>8, <2>1 DEF Echo
  <2>3. QED BY <1>8, <2>2 DEF Echo, rttVars
<1>9. ASSUME NEW m \in net, Lose(m) PROVE IInv'
  BY <1>9 DEF Lose, rttVars
<1>10. CASE UNCHANGED vars
  BY <1>10 DEF vars, rttVars
<1>11. QED
  BY <1>1, <1>2, <1>3, <1>4, <1>5, <1>6, <1>7, <1>8, <1>9, <1>10 DEF Next, Client

\* The strengthened invariant holds in every reachable state.
THEOREM IInvInductive == Spec => []IInv
BY InitIInv, StepIInv, PTL DEF Spec

\* The types: in particular the estimates and the timer never become negative
\* (rtt.c keeps them in floats), and rtt_timeout gives up in time.
THEOREM TypeCorrect == Spec => []TypeOK
<1>1. IInv => TypeOK
  BY DEF IInv
<1>2. QED BY <1>1, IInvInductive, PTL

-----------------------------------------------------------------------------
\* The timer set after a round trip is not shorter than that round trip, or is
\* as long as RxtMax allows, whatever was measured before: rtt_stop's rounding
\* takes less than the half second rtt_start adds.
THEOREM TimerNotTooShort == Spec => TimerCoversSample
<1>1. ASSUME TypeOK, Return
      PROVE  Start(rto') >= IF recvhdr.age <= RxtMax THEN recvhdr.age ELSE RxtMax
  <2> DEFINE r == recvhdr.age * Unit
             t == RtoCalc(NewSrtt(r), NewRttvar(r))
  <2>1. recvhdr.age \in Nat /\ r \in Nat /\ srtt \in Nat /\ rttvar \in Nat
    BY <1>1 DEF TypeOK
  <2>2. t \in Int
    BY <2>1, EstimatesType DEF RtoCalc
  <2>3. t >= r - 3
    BY <2>1, FourDeviations
  <2>4. rto' = MinMax(t)
    BY <1>1 DEF Return, Stop
  <2> HIDE DEF r, t
  <2>5. rto' \in Nat /\ (rto' >= t \/ rto' = RxtMax * Unit)
    BY <2>2, <2>4, MinMaxType
  <2>6. CASE rto' >= t
    <3>1. rto' >= recvhdr.age * Unit - 3
      BY <2>1, <2>2, <2>3, <2>5, <2>6 DEF r
    <3>2. Start(rto') >= recvhdr.age
      BY <2>1, <2>5, <3>1, StartCovers
    <3>3. Start(rto') \in Nat
      BY <2>5, StartType
    <3>4. QED BY <2>1, <3>2, <3>3
  <2>7. CASE rto' = RxtMax * Unit
    <3>1. RxtMax * Unit \in Nat
      OBVIOUS
    <3>2. rto' >= RxtMax * Unit - 3
      BY <2>7, <3>1
    <3>3. Start(rto') >= RxtMax
      BY <2>5, <3>2, StartCovers
    <3>4. Start(rto') \in Nat
      BY <2>5, StartType
    <3>5. QED BY <2>1, <3>3, <3>4
  <2>8. QED BY <2>5, <2>6, <2>7
<1>2. TypeOK /\ [Next]_vars =>
        [Return => Start(rto') >= IF recvhdr.age <= RxtMax THEN recvhdr.age ELSE RxtMax]_vars
  BY <1>1
<1>3. QED BY <1>2, TypeCorrect, PTL DEF Spec, TimerCoversSample

-----------------------------------------------------------------------------
(* The client implements a channel. *)

LEMMA InitChannel == Init => Promise!Init
BY DEF Init, Promise!Init

\* Typing a line puts it in, returning takes it out, giving up or crashing
\* breaks the channel; every other step, those of the network included, leaves
\* it as it is.
LEMMA StepChannel == IInv /\ [Next]_vars => [Promise!Next]_(Promise!vars)
<1> SUFFICES ASSUME IInv, [Next]_vars PROVE [Promise!Next]_(Promise!vars)
  OBVIOUS
<1>0. TypeOK
  BY DEF IInv
<1> USE DEF IInv, Calling
<1>1. CASE TypeLine
  <2>1. 1 \in 1..MaxLines /\ seq + 1 <= MaxLines
    BY <1>0, <1>1 DEF TypeLine, TypeOK
  <2>2. <<>> \o [j \in 1..1 |-> seq + j] = <<seq + 1>>
    BY <1>0 DEF TypeOK
  <2>3. Promise!Put("client", 1)
    BY <1>0, <1>1, <2>1, <2>2 DEF TypeLine, TypeOK, Promise!Put
  <2>4. QED BY <2>1, <2>3 DEF Promise!Next
<1>2. CASE Transmit
  BY <1>2 DEF Transmit, Promise!vars
<1>3. CASE SetJmp
  BY <1>3 DEF SetJmp, Promise!vars
<1>4. CASE Return
  <2>1. 1 \in 1..MaxLines /\ recvhdr.seq = seq
    BY <1>0, <1>4 DEF Return, TypeOK
  <2>2. SubSeq(<<seq>>, 2, 1) = <<>> /\ Len(<<seq>>) = 1 /\ <<seq>>[1] = seq
    OBVIOUS
  <2>3. pc = "got" /\ pc' = "fgets" /\ seq' = seq /\ shown' = seq
    BY <1>4, <2>1 DEF Return
  <2>4. [[e \in {"client"} |-> shown] EXCEPT !["client"] = seq] = [e \in {"client"} |-> seq]
    OBVIOUS
  <2>5. Promise!Take("client", 1)
    BY <2>2, <2>3, <2>4 DEF Promise!Take
  <2>6. QED BY <2>1, <2>5 DEF Promise!Next
<1>5. CASE Expire
  <2>1. CASE pc' = "send"
    BY <1>5, <2>1 DEF Expire, Timed, Timeout, Promise!vars
  <2>2. CASE pc' \in {"quit", "crashed"}
    <3>1. Promise!IsPrefix(<<>>, <<seq>>)
      BY DEF Promise!IsPrefix
    <3>2. /\ pc \notin {"fgets", "quit", "crashed"}
          /\ UNCHANGED <<seq, shown>>
      BY <1>5 DEF Expire, Timed
    <3>3. <<>> \in Seq(1..MaxLines)
      OBVIOUS
    <3>4. Promise!Break({"client"})
      BY <2>2, <3>1, <3>2, <3>3 DEF Promise!Break
    <3>5. QED BY <3>4 DEF Promise!Next
  <2>3. QED BY <1>5, <2>1, <2>2 DEF Expire, Timeout
<1>6. CASE Tick
  BY <1>6 DEF Tick, Promise!vars
<1>7. ASSUME NEW m \in net, Recv(m) PROVE [Promise!Next]_(Promise!vars)
  BY <1>7 DEF Recv, Promise!vars
<1>8. ASSUME NEW m \in net, Echo(m) PROVE [Promise!Next]_(Promise!vars)
  BY <1>8 DEF Echo, Promise!vars
<1>9. ASSUME NEW m \in net, Lose(m) PROVE [Promise!Next]_(Promise!vars)
  BY <1>9 DEF Lose, Promise!vars
<1>10. CASE UNCHANGED vars
  BY <1>10 DEF vars, Promise!vars
<1>11. QED
  BY <1>1, <1>2, <1>3, <1>4, <1>5, <1>6, <1>7, <1>8, <1>9, <1>10 DEF Next, Client

\* Over any network that loses, repeats, reorders and delays, what is printed
\* is what was typed, line by line and in order, until the client gives up: the
\* client implements Channel.
THEOREM ImplementsChannel == Spec => EchoesInOrder
<1>1. Init => Promise!Init
  BY InitChannel
<1>2. IInv /\ [Next]_vars => [Promise!Next]_(Promise!vars)
  BY StepChannel
<1>3. QED BY <1>1, <1>2, IInvInductive, PTL DEF Spec, EchoesInOrder, Promise!Spec

===============================================================================
