---------------------------- MODULE HomeworkProofs ----------------------------
(***************************************************************************)
(* Proofs about the servers of Homeworks 1, 2 and 4, for any number of     *)
(* clients, pieces, descriptors, chunks and copies of a datagram.          *)
(* EchoService implements Channel, and exits for three reasons only; the   *)
(* answers of CommandService are shown late; UDPCommand mixes up no        *)
(* answers of a client none of whose requests was duplicated.              *)
(***************************************************************************)
EXTENDS MCHomework, FiniteSetTheorems, SequenceTheorems, TLAPS

USE EchoAssumption

\* What a client can write in all.
MaxUnits == MaxMsg * Units

\* That is a number: a product of two, which the provers must be told once.
LEMMA MaxUnitsNat == MaxUnits \in Nat
BY DEF MaxUnits

\* A client that may still write has room for a whole message, for it has
\* written whole messages before (the bound of Write).
LEMMA NextMultiple ==
  ASSUME NEW m \in 0..MaxMsg, m * Units < MaxUnits
  PROVE  /\ m + 1 \in 0..MaxMsg /\ m * Units + Units = (m + 1) * Units
         /\ m * Units \in Nat /\ m * Units + Units <= MaxUnits /\ Units \in 1..MaxUnits
<1>1. m * Units \in Nat /\ m * Units + Units = (m + 1) * Units
  BY Z3
<1>2. m < MaxMsg
  <2>1. ASSUME m >= MaxMsg PROVE FALSE
    BY <2>1 DEF MaxUnits
  <2>2. QED BY <2>1
<1>3. PICK d \in Nat : MaxMsg = (m + 1) + d
  <2>1. MaxMsg - (m + 1) \in Nat
    BY <1>2
  <2>2. QED BY <2>1
<1>4. MaxUnits = (m + 1) * Units + d * Units /\ d * Units \in Nat
  BY <1>3, Z3 DEF MaxUnits
<1>5. m * Units + Units <= MaxUnits
  BY <1>1, <1>4
<1>6. QED BY <1>1, <1>2, <1>5, MaxUnitsNat

\* What is cut off at the end leaves a prefix: the form in which Channel says
\* that a broken connection loses what is behind some point.
LEMMA PrefixOfConcat ==
  ASSUME NEW S, NEW s \in Seq(S), NEW t \in Seq(S)
  PROVE  Promise!IsPrefix(s, s \o t) /\ Promise!IsPrefix(<<>>, s) /\ Promise!IsPrefix(s, s)
<1>1. /\ s \o t \in Seq(S) /\ Len(s \o t) = Len(s) + Len(t)
      /\ \A i \in 1..Len(s) + Len(t) : (s \o t)[i] = IF i <= Len(s) THEN s[i] ELSE t[i - Len(s)]
  BY ConcatProperties
<1>2. SubSeq(s, 1, Len(s)) = s
  OBVIOUS
<1>3. SubSeq(s \o t, 1, Len(s)) = s
  OBVIOUS
<1>4. QED BY <1>1, <1>2, <1>3 DEF Promise!IsPrefix

-----------------------------------------------------------------------------
(* What is invariant. *)

\* A unit is its place in what the client writes.
Unit == 1..MaxUnits

\* Every variable has its type.
TypeOK ==
  /\ cpc \in [Clients -> {"start", "prompt", "read", "last", "closing", "closed"}]
  /\ nsent \in [Clients -> Nat] /\ nread \in [Clients -> Nat]
  /\ link \in [Clients -> {"open", "fin", "reset"}]
  /\ up \in [Clients -> Seq(Unit)] /\ down \in [Clients -> Seq(Unit)]
  /\ backlog \in Seq(Clients)
  /\ spc \in {"accept", "recv", "send", "exited"}
  /\ cur \in SUBSET Clients /\ accepted \in SUBSET Clients
  /\ buf \in Seq(Unit)

\* write() hands over whole messages.
WholeMessages == \A c \in Clients : \E m \in 0..MaxMsg : nsent[c] = m * Units

\* The buffer is empty but between recv() and send(); the server serves one
\* connection at most; and only a client that has closed ends its side.
Serving ==
  /\ spc # "send" => buf = <<>>
  /\ cur = None \/ \E c \in Clients : cur = {c}
  /\ \A c \in Clients : link[c] # "open" => cpc[c] = "closed"

\* What the server holds of a client: units received and not yet sent back.
Buffered(c) == IF cur = {c} THEN buf ELSE <<>>

\* On the way, in the buffer and on the way back there are no more units than
\* the client has written: nothing is duplicated.
NoneMade ==
  \A c \in Clients : Len(down[c]) + Len(Buffered(c)) + Len(up[c]) <= nsent[c]

\* The inductive invariant; NoneMade bounds the pieces that one read() takes
\* by what a client can put in, and the others carry it.
IInv == TypeOK /\ WholeMessages /\ Serving /\ NoneMade

\* How nsent, a multiple of Units, grows: Write stays within the bound.
LEMMA RoomForMessage ==
  ASSUME IInv, NEW c \in Clients, nsent[c] < MaxMsg * Units
  PROVE  /\ nsent[c] + Units <= MaxUnits /\ Units \in 1..MaxUnits
         /\ \E m \in 0..MaxMsg : nsent[c] + Units = m * Units
<1>1. PICK m \in 0..MaxMsg : nsent[c] = m * Units
  BY DEF IInv, WholeMessages
<1>2. m * Units < MaxUnits
  BY <1>1 DEF MaxUnits
<1>3. /\ m + 1 \in 0..MaxMsg /\ m * Units + Units = (m + 1) * Units
      /\ m * Units \in Nat /\ m * Units + Units <= MaxUnits /\ Units \in 1..MaxUnits
  BY <1>2, NextMultiple
<1>4. QED BY <1>1, <1>3

\* nsent is a number within the bound.
LEMMA UnitsSent ==
  ASSUME IInv, NEW c \in Clients
  PROVE  nsent[c] \in Nat /\ nsent[c] <= MaxUnits
<1>1. PICK m \in 0..MaxMsg : nsent[c] = m * Units
  BY DEF IInv, WholeMessages
<1>2. PICK d \in Nat : MaxMsg = m + d
  <2>1. MaxMsg - m \in Nat
    OBVIOUS
  <2>2. QED BY <2>1
<1>3. MaxUnits = m * Units + d * Units /\ d * Units \in Nat /\ m * Units \in Nat
  BY <1>2, Z3 DEF MaxUnits
<1>4. QED BY <1>1, <1>3

\* The units of the next message, as Write puts them on their way.
NewUnits(c) == [j \in 1..Units |-> nsent[c] + j]

\* Concatenation of streams of units is associative.
LEMMA UnitsAssociative ==
  ASSUME NEW s \in Seq(Unit), NEW t \in Seq(Unit), NEW u \in Seq(Unit)
  PROVE  (s \o t) \o u = s \o (t \o u)
BY ConcatAssociative

\* The units of the next message are units.
LEMMA NewUnitsAre ==
  ASSUME IInv, NEW c \in Clients, nsent[c] < MaxMsg * Units
  PROVE  NewUnits(c) \in Seq(Unit) /\ Len(NewUnits(c)) = Units
<1>1. nsent[c] \in Nat /\ MaxUnits \in Nat /\ nsent[c] + Units <= MaxUnits
  BY UnitsSent, RoomForMessage, MaxUnitsNat
<1>2. \A j \in 1..Units : nsent[c] + j \in Unit
  BY <1>1 DEF Unit
<1>3. QED BY <1>2 DEF NewUnits

\* Rest(s, k) is what remains of a stream when recv() or read() has taken its
\* first k units: together they are the stream, none lost, none twice.
LEMMA RestOf ==
  ASSUME NEW S, NEW s \in Seq(S), NEW k \in 1..Len(s)
  PROVE  /\ Rest(s, k) \in Seq(S) /\ Len(Rest(s, k)) = Len(s) - k
         /\ SubSeq(s, 1, k) \in Seq(S) /\ Len(SubSeq(s, 1, k)) = k
         /\ s = SubSeq(s, 1, k) \o Rest(s, k)
<1>1. /\ Rest(s, k) \in Seq(S) /\ Len(Rest(s, k)) = Len(s) - k
      /\ \A i \in 1..Len(s) - k : Rest(s, k)[i] = s[k + i]
  BY DEF Rest
<1>2. /\ SubSeq(s, 1, k) \in Seq(S) /\ Len(SubSeq(s, 1, k)) = k
      /\ \A i \in 1..k : SubSeq(s, 1, k)[i] = s[i]
  OBVIOUS
<1> DEFINE u == SubSeq(s, 1, k)
           v == Rest(s, k)
           w == u \o v
<1>3. u \in Seq(S) /\ v \in Seq(S) /\ Len(u) = k /\ Len(v) = Len(s) - k
      /\ (\A i \in 1..k : u[i] = s[i]) /\ (\A i \in 1..Len(s) - k : v[i] = s[k + i])
  BY <1>1, <1>2
<1> HIDE DEF u, v
<1>4. /\ w \in Seq(S) /\ Len(w) = Len(u) + Len(v)
      /\ \A i \in 1..Len(u) + Len(v) : w[i] = IF i <= Len(u) THEN u[i] ELSE v[i - Len(u)]
  BY <1>3, ConcatProperties
<1> HIDE DEF w
<1>5. Len(w) = Len(s) /\ Len(s) \in Nat
  BY <1>3, <1>4
<1>6. \A i \in 1..Len(s) : w[i] = s[i]
  <2> TAKE i \in 1..Len(s)
  <2>1. CASE i <= k
    BY <1>3, <1>4, <1>5, <2>1
  <2>2. CASE i > k
    <3>1. i - k \in 1..Len(s) - k /\ k + (i - k) = i
      BY <1>5, <2>2
    <3>2. v[i - k] = s[i]
      BY <1>3, <3>1
    <3>3. QED BY <1>3, <1>4, <1>5, <2>2, <3>2
  <2>3. QED BY <1>5, <2>1, <2>2
<1>7. w = s
  BY <1>4, <1>5, <1>6, SeqEqual
<1>8. QED BY <1>1, <1>2, <1>7 DEF w, u, v

-----------------------------------------------------------------------------
(* Every step keeps it. *)

\* The three parts of a stream are sequences of units.
LEMMA BufferedType ==
  ASSUME TypeOK, NEW c \in Clients
  PROVE  /\ Buffered(c) \in Seq(Unit) /\ up[c] \in Seq(Unit) /\ down[c] \in Seq(Unit)
         /\ Len(Buffered(c)) \in Nat /\ Len(up[c]) \in Nat /\ Len(down[c]) \in Nat
BY DEF TypeOK, Buffered

\* connect() keeps the invariant.
LEMMA ConnectStep ==
  ASSUME IInv, NEW c \in Clients, Connect(c)
  PROVE  IInv'
<1>1. /\ cpc' \in [Clients -> {"start", "prompt", "read", "last", "closing", "closed"}]
      /\ cpc[c] = "start" /\ \A d \in Clients : d # c => cpc'[d] = cpc[d]
  BY DEF IInv, TypeOK, Connect
<1>2. backlog' \in Seq(Clients)
  <2>1. backlog \in Seq(Clients) /\ Append(backlog, c) \in Seq(Clients)
    BY AppendProperties DEF IInv, TypeOK
  <2>2. QED BY <2>1 DEF Connect
<1>3. TypeOK'
  BY <1>1, <1>2 DEF IInv, TypeOK, Connect, serverVars
<1>4. WholeMessages' /\ NoneMade'
  BY DEF IInv, WholeMessages, NoneMade, Buffered, Connect, serverVars
<1>5. Serving'
  BY <1>1 DEF IInv, Serving, Connect, serverVars
<1>6. QED BY <1>3, <1>4, <1>5 DEF IInv

\* write() keeps the invariant: as many units are on their way as are counted.
LEMMA WriteStep ==
  ASSUME IInv, NEW c \in Clients, Write(c)
  PROVE  IInv'
<1>1. /\ nsent[c] < MaxMsg * Units /\ nsent' = [nsent EXCEPT ![c] = @ + Units]
      /\ up' = [up EXCEPT ![c] = IF spc = "exited" THEN @ ELSE @ \o NewUnits(c)]
      /\ UNCHANGED <<nread, link, down, backlog, serverVars>>
  BY DEF Write, NewUnits
<1>2. PICK v \in {"read", "last"} : cpc' = [cpc EXCEPT ![c] = v]
  BY DEF Write
<1>3. cpc[c] = "prompt"
  BY DEF Write
<1>4. NewUnits(c) \in Seq(Unit) /\ Len(NewUnits(c)) = Units
  BY <1>1, NewUnitsAre
<1>5. /\ up'[c] \in Seq(Unit) /\ Len(up'[c]) <= Len(up[c]) + Units
      /\ \A d \in Clients : d # c => up'[d] = up[d]
  <2>1. up'[c] = up[c] \/ up'[c] = up[c] \o NewUnits(c)
    BY <1>1 DEF IInv, TypeOK
  <2>2. /\ up[c] \o NewUnits(c) \in Seq(Unit) /\ up[c] \in Seq(Unit)
        /\ Len(up[c] \o NewUnits(c)) = Len(up[c]) + Units
    BY <1>4, BufferedType, ConcatProperties DEF IInv
  <2>3. \A d \in Clients : d # c => up'[d] = up[d]
    BY <1>1 DEF IInv, TypeOK
  <2>4. Len(up[c]) \in Nat /\ Len(up[c]) <= Len(up[c]) + Units
    BY BufferedType DEF IInv
  <2>5. CASE up'[c] = up[c]
    BY <2>2, <2>3, <2>4, <2>5
  <2>6. CASE up'[c] = up[c] \o NewUnits(c)
    BY <2>2, <2>3, <2>4, <2>6
  <2>7. QED BY <2>1, <2>5, <2>6
<1>6. /\ nsent' \in [Clients -> Nat] /\ nsent'[c] = nsent[c] + Units
      /\ \A d \in Clients : d # c => nsent'[d] = nsent[d]
  BY <1>1 DEF IInv, TypeOK
<1>7. TypeOK'
  <2>1. up' \in [Clients -> Seq(Unit)]
    BY <1>1, <1>5 DEF IInv, TypeOK
  <2>2. cpc' \in [Clients -> {"start", "prompt", "read", "last", "closing", "closed"}]
    BY <1>2 DEF IInv, TypeOK
  <2>3. QED BY <1>1, <1>6, <2>1, <2>2 DEF IInv, TypeOK, serverVars
<1>8. WholeMessages'
  <2>1. \E m \in 0..MaxMsg : nsent'[c] = m * Units
    BY <1>1, <1>6, RoomForMessage
  <2>2. \A d \in Clients : d # c => \E m \in 0..MaxMsg : nsent'[d] = m * Units
    BY <1>6 DEF IInv, WholeMessages
  <2>3. QED BY <2>1, <2>2 DEF WholeMessages
<1>9. Serving'
  BY <1>1, <1>2, <1>3 DEF IInv, Serving, TypeOK, serverVars
<1>10. NoneMade'
  <2>1. down' = down /\ \A d \in Clients : Buffered(d)' = Buffered(d)
    BY <1>1 DEF Buffered, serverVars
  <2>2. Len(down[c]) + Len(Buffered(c)) + Len(up'[c]) <= nsent'[c]
    <3>1. /\ Len(down[c]) + Len(Buffered(c)) + Len(up[c]) <= nsent[c] /\ nsent[c] \in Nat
          /\ Len(down[c]) \in Nat /\ Len(Buffered(c)) \in Nat /\ Len(up[c]) \in Nat
      BY BufferedType, UnitsSent DEF IInv, NoneMade
    <3>2. Len(up'[c]) <= Len(up[c]) + Units /\ nsent'[c] = nsent[c] + Units /\ Len(up'[c]) \in Nat
      BY <1>5, <1>6
    <3>3. PICK a, b, x, u, n \in Nat :
            /\ a = Len(down[c]) /\ b = Len(Buffered(c)) /\ x = Len(up'[c])
            /\ u = Len(up[c]) /\ n = nsent[c]
      BY <3>1, <3>2
    <3>4. a + b + u <= n /\ x <= u + Units
      BY <3>1, <3>2, <3>3
    <3>5. a + b + x <= n + Units
      BY <3>4
    <3>6. QED BY <3>2, <3>3, <3>5
  <2>3. \A d \in Clients : d # c => Len(down[d]) + Len(Buffered(d)) + Len(up'[d]) <= nsent'[d]
    BY <1>5, <1>6 DEF IInv, NoneMade
  <2>4. QED BY <2>1, <2>2, <2>3 DEF NoneMade
<1>11. QED BY <1>7, <1>8, <1>9, <1>10 DEF IInv

\* read() keeps the invariant, whatever part of the echo it returns.
LEMMA ReadStep ==
  ASSUME IInv, NEW c \in Clients, Read(c)
  PROVE  IInv'
<1>1. /\ cpc[c] \in {"read", "last"} /\ cpc' = [cpc EXCEPT ![c] = AfterRead[@]]
      /\ UNCHANGED <<nsent, link, up, backlog, serverVars>>
  BY DEF Read
<1>2. /\ cpc' \in [Clients -> {"start", "prompt", "read", "last", "closing", "closed"}]
      /\ \A d \in Clients : d # c => cpc'[d] = cpc[d]
  <2>1. AfterRead[cpc[c]] \in {"prompt", "closing"}
    BY <1>1 DEF AfterRead
  <2>2. QED BY <1>1, <2>1 DEF IInv, TypeOK
<1>3. /\ nread' \in [Clients -> Nat] /\ down' \in [Clients -> Seq(Unit)]
      /\ \A d \in Clients : Len(down'[d]) <= Len(down[d])
  <2>1. CASE UNCHANGED <<nread, down>>
    BY <2>1, BufferedType DEF IInv, TypeOK
  <2>2. ASSUME NEW k \in 1..Len(down[c]), nread' = [nread EXCEPT ![c] = down[c][k]],
               down' = [down EXCEPT ![c] = Rest(@, k)]
        PROVE  /\ nread' \in [Clients -> Nat] /\ down' \in [Clients -> Seq(Unit)]
               /\ \A d \in Clients : Len(down'[d]) <= Len(down[d])
    <3>1. /\ down[c] \in Seq(Unit) /\ down[c][k] \in Unit /\ down \in [Clients -> Seq(Unit)]
          /\ Len(down[c]) \in Nat
      BY DEF IInv, TypeOK
    <3>2. Rest(down[c], k) \in Seq(Unit) /\ Len(Rest(down[c], k)) = Len(down[c]) - k
      BY <3>1, RestOf
    <3>3. nread' \in [Clients -> Nat]
      BY <2>2, <3>1 DEF IInv, TypeOK, Unit
    <3>4. /\ down' \in [Clients -> Seq(Unit)] /\ down'[c] = Rest(down[c], k)
          /\ \A d \in Clients : d # c => down'[d] = down[d]
      BY <2>2, <3>1, <3>2
    <3>5. Len(down'[c]) <= Len(down[c])
      BY <3>1, <3>2, <3>4
    <3>6. \A d \in Clients : Len(down[d]) <= Len(down[d])
      BY BufferedType DEF IInv
    <3>7. QED BY <3>3, <3>4, <3>5, <3>6
  <2>3. QED BY <2>1, <2>2 DEF Read
<1>4. TypeOK'
  BY <1>1, <1>2, <1>3 DEF IInv, TypeOK, serverVars
<1>5. WholeMessages' /\ Serving'
  BY <1>1, <1>2 DEF IInv, WholeMessages, Serving, serverVars
<1>6. NoneMade'
  <2> SUFFICES ASSUME NEW d \in Clients
               PROVE  Len(down'[d]) + Len(Buffered(d)) + Len(up[d]) <= nsent[d]
    BY <1>1 DEF NoneMade, Buffered, serverVars
  <2>1. /\ Len(down[d]) + Len(Buffered(d)) + Len(up[d]) <= nsent[d] /\ nsent[d] \in Nat
        /\ Len(down[d]) \in Nat /\ Len(Buffered(d)) \in Nat /\ Len(up[d]) \in Nat
    BY BufferedType, UnitsSent DEF IInv, NoneMade
  <2>2. Len(down'[d]) <= Len(down[d]) /\ Len(down'[d]) \in Nat
    BY <1>3
  <2>3. PICK a, b, x, u, n \in Nat :
          /\ a = Len(down[d]) /\ b = Len(Buffered(d)) /\ x = Len(down'[d])
          /\ u = Len(up[d]) /\ n = nsent[d]
    BY <2>1, <2>2
  <2>4. a + b + u <= n /\ x <= a
    BY <2>1, <2>2, <2>3
  <2>5. x + b + u <= n
    BY <2>4
  <2>6. QED BY <2>3, <2>5
<1>7. QED BY <1>4, <1>5, <1>6 DEF IInv

\* close() keeps the invariant.
LEMMA HangupStep ==
  ASSUME IInv, NEW c \in Clients, Hangup(c)
  PROVE  IInv'
<1>1. TypeOK'
  BY DEF IInv, TypeOK, Hangup, serverVars
<1>2. WholeMessages' /\ NoneMade'
  BY DEF IInv, WholeMessages, NoneMade, Buffered, Hangup, serverVars
<1>3. Serving'
  BY DEF IInv, Serving, TypeOK, Hangup, serverVars
<1>4. QED BY <1>1, <1>2, <1>3 DEF IInv

\* accept() keeps the invariant: the buffer is empty when the connection
\* changes, so that no unit of one client is taken for one of the next.
LEMMA AcceptStep ==
  ASSUME IInv, Accept
  PROVE  IInv'
<1>1. /\ spc = "accept" /\ backlog # <<>> /\ UNCHANGED <<clientVars, link, up, down, buf>>
      /\ buf = <<>>
  BY DEF Accept, IInv, Serving
<1>2. CASE UNCHANGED <<cur, accepted, backlog>> /\ spc' = "exited"
  BY <1>1, <1>2 DEF IInv, TypeOK, WholeMessages, Serving, NoneMade, Buffered, clientVars
<1>3. CASE /\ cur' = {Head(backlog)} /\ accepted' = accepted \cup cur'
           /\ backlog' = Tail(backlog) /\ spc' = "recv"
  <2>1. Head(backlog) \in Clients /\ Tail(backlog) \in Seq(Clients)
    BY <1>1 DEF IInv, TypeOK
  <2>2. TypeOK'
    BY <1>1, <1>3, <2>1 DEF IInv, TypeOK, clientVars
  <2>3. WholeMessages' /\ Serving'
    BY <1>1, <1>3, <2>1 DEF IInv, WholeMessages, Serving, clientVars
  <2>4. \A d \in Clients : Buffered(d)' = Buffered(d)
    BY <1>1 DEF Buffered
  <2>5. NoneMade'
    BY <1>1, <2>4 DEF IInv, NoneMade, clientVars
  <2>6. QED BY <2>2, <2>3, <2>5 DEF IInv
<1>4. QED BY <1>2, <1>3 DEF Accept

\* recv() keeps the invariant: the buffer was empty before, so that nothing in
\* it is overwritten.
LEMMA RecvStep ==
  ASSUME IInv, NEW c \in Clients, Recv(c)
  PROVE  IInv'
<1>1. /\ spc = "recv" /\ cur = {c} /\ spc' = "send"
      /\ UNCHANGED <<clientVars, link, down, backlog, cur, accepted>>
  BY DEF Recv
<1>2. PICK k \in 1..Len(up[c]) :
        buf' = SubSeq(up[c], 1, k) /\ up' = [up EXCEPT ![c] = Rest(@, k)]
  BY DEF Recv
<1>3. /\ buf' \in Seq(Unit) /\ Len(buf') = k
      /\ Rest(up[c], k) \in Seq(Unit) /\ Len(Rest(up[c], k)) = Len(up[c]) - k
  BY ZenonT(40), <1>2, BufferedType, RestOf DEF IInv
<1>4. /\ up' \in [Clients -> Seq(Unit)] /\ up'[c] = Rest(up[c], k)
      /\ \A d \in Clients : d # c => up'[d] = up[d]
  BY <1>2, <1>3 DEF IInv, TypeOK
<1>5. TypeOK'
  BY <1>1, <1>3, <1>4 DEF IInv, TypeOK, clientVars
<1>6. WholeMessages' /\ Serving'
  BY <1>1 DEF IInv, WholeMessages, Serving, clientVars
<1>7. NoneMade'
  <2>1. ASSUME NEW d \in Clients, d # c PROVE Buffered(d)' = Buffered(d)
    BY <1>1, <2>1 DEF Buffered
  <2>2. Buffered(c)' = buf' /\ Len(Buffered(c)) = 0
    BY <1>1 DEF Buffered, IInv, Serving
  <2>3. Len(down[c]) + Len(buf') + Len(up'[c]) <= nsent[c]
    BY SMTT(30), <1>2, <1>3, <1>4, <2>2, BufferedType, UnitsSent DEF IInv, NoneMade
  <2>4. QED BY <1>1, <1>4, <2>1, <2>2, <2>3 DEF IInv, NoneMade, clientVars
<1>8. QED BY <1>5, <1>6, <1>7 DEF IInv

\* The end of a connection keeps the invariant.
LEMMA RecvEndStep ==
  ASSUME IInv, NEW c \in Clients, RecvEnd(c)
  PROVE  IInv'
<1>1. /\ spc = "recv" /\ spc' \in {"exited", "accept"}
      /\ UNCHANGED <<clientVars, link, up, down, backlog, cur, buf, accepted>>
  BY DEF RecvEnd
<1>2. QED
  BY <1>1 DEF IInv, TypeOK, WholeMessages, Serving, NoneMade, Buffered, clientVars

\* send() keeps the invariant, for a client that is there and for one that is
\* gone.
LEMMA SendStep ==
  ASSUME IInv, NEW c \in Clients, Send(c)
  PROVE  IInv'
<1>1. /\ spc = "send" /\ cur = {c} /\ buf' = <<>>
      /\ down' = [down EXCEPT ![c] = IF link[c] = "open" THEN @ \o buf ELSE @]
      /\ link' = [link EXCEPT ![c] = IF @ = "fin" THEN "reset" ELSE @]
      /\ spc' \in {"exited", "recv"}
      /\ UNCHANGED <<clientVars, up, backlog, cur, accepted>>
  BY DEF Send
<1>2. /\ down[c] \in Seq(Unit) /\ buf \in Seq(Unit) /\ down[c] \o buf \in Seq(Unit)
      /\ Len(down[c] \o buf) = Len(down[c]) + Len(buf)
  BY ConcatProperties DEF IInv, TypeOK
<1>3. /\ down' \in [Clients -> Seq(Unit)]
      /\ down'[c] = down[c] \/ down'[c] = down[c] \o buf
      /\ \A d \in Clients : d # c => down'[d] = down[d]
  BY <1>1, <1>2 DEF IInv, TypeOK
<1>4. TypeOK'
  <2>1. link' \in [Clients -> {"open", "fin", "reset"}]
    BY <1>1 DEF IInv, TypeOK
  <2>2. <<>> \in Seq(Unit)
    OBVIOUS
  <2>3. QED BY <1>1, <1>3, <2>1, <2>2 DEF IInv, TypeOK, clientVars
<1>5. WholeMessages'
  BY <1>1 DEF IInv, WholeMessages, clientVars
<1>6. Serving'
  BY <1>1 DEF IInv, TypeOK, Serving, clientVars
<1>7. NoneMade'
  <2>1. ASSUME NEW d \in Clients, d # c PROVE Buffered(d)' = Buffered(d)
    BY <1>1, <2>1 DEF Buffered
  <2>2. Buffered(c) = buf /\ Len(Buffered(c)') = 0
    BY <1>1 DEF Buffered
  <2>3. Len(down'[c]) + 0 + Len(up[c]) <= nsent[c]
    <3>1. /\ Len(down[c]) + Len(buf) + Len(up[c]) <= nsent[c] /\ nsent[c] \in Nat
          /\ Len(down[c]) \in Nat /\ Len(buf) \in Nat /\ Len(up[c]) \in Nat
      BY <2>2, BufferedType, UnitsSent DEF IInv, NoneMade
    <3>2. Len(down'[c]) = Len(down[c]) \/ Len(down'[c]) = Len(down[c]) + Len(buf)
      BY <1>2, <1>3
    <3>3. \A a, b, x, u, n \in Nat : a + b + u <= n /\ (x = a \/ x = a + b) => x + 0 + u <= n
      OBVIOUS
    <3>4. Len(down'[c]) \in Nat
      BY <1>3
    <3>5. QED BY <3>1, <3>2, <3>3, <3>4
  <2>4. QED BY <1>1, <1>3, <2>1, <2>2, <2>3 DEF IInv, NoneMade, clientVars
<1>8. QED BY <1>4, <1>5, <1>6, <1>7 DEF IInv

\* The invariant holds in every reachable state, for any number of clients, of
\* pieces of a message and of descriptors.
THEOREM Invariance == Spec => []IInv
<1>1. Init => IInv
  <2> SUFFICES ASSUME Init PROVE IInv
    OBVIOUS
  <2>1. TypeOK /\ Serving
    BY DEF Init, TypeOK, Serving, None
  <2>2. WholeMessages
    BY Z3 DEF Init, WholeMessages
  <2>3. NoneMade
    BY DEF Init, NoneMade, Buffered
  <2>4. QED BY <2>1, <2>2, <2>3 DEF IInv
<1>2. IInv /\ [Next]_vars => IInv'
  <2> SUFFICES ASSUME IInv, [Next]_vars PROVE IInv'
    OBVIOUS
  <2>1. CASE ServerNext
    BY <2>1, AcceptStep, RecvStep, RecvEndStep, SendStep DEF ServerNext
  <2>2. ASSUME NEW c \in Clients, ClientNext(c) PROVE IInv'
    BY <2>2, ConnectStep, WriteStep, ReadStep, HangupStep DEF ClientNext
  <2>3. CASE UNCHANGED vars
    BY <2>3 DEF IInv, TypeOK, WholeMessages, Serving, NoneMade, Buffered, vars, clientVars, serverVars
  <2>4. QED BY <2>1, <2>2, <2>3 DEF Next
<1>3. QED BY <1>1, <1>2, PTL DEF Spec

-----------------------------------------------------------------------------
(* Every step is one of the channel's, or none: Write puts units in, Read      *)
(* takes some out, and what goes on between the two moves them only; the end   *)
(* of a client breaks its connection, and that of the server all of them.      *)

\* The channel of a client is open: both ends are there.
Whole(c) == cpc[c] # "closed" /\ spc # "exited"

\* The service starts as the channel does.
LEMMA InitMaps == Init => Promise!Init
<1> SUFFICES ASSUME Init PROVE Promise!Init
  OBVIOUS
<1>1. ASSUME NEW c \in Clients PROVE InFlight(c) = <<>>
  <2>1. <<>> \o <<>> = <<>>
    BY ConcatEmptySeq
  <2>2. down[c] = <<>> /\ up[c] = <<>> /\ buf = <<>> /\ cpc[c] # "closed" /\ spc # "exited"
    BY DEF Init
  <2>3. InFlight(c) = (<<>> \o <<>>) \o <<>>
    BY <2>2 DEF InFlight
  <2>4. QED BY <2>1, <2>3
<1>2. QED BY <1>1 DEF Init, Promise!Init

\* A step that leaves what is in flight leaves the channel.
LEMMA StutterMaps ==
  ASSUME \A c \in Clients : Whole(c)' = Whole(c) /\ InFlight(c)' = InFlight(c),
         UNCHANGED <<nsent, nread>>
  PROVE  UNCHANGED Promise!vars
BY DEF Promise!vars, Whole

\* A step that adds a message to what is in flight is a Put of the channel.
LEMMA PutMaps ==
  ASSUME NEW c \in Clients, Units \in 1..MaxUnits, nsent \in [Clients -> Nat],
         nsent[c] + Units <= MaxUnits,
         nsent' = [nsent EXCEPT ![c] = @ + Units], UNCHANGED nread,
         \A d \in Clients : Whole(d)' = Whole(d) /\ (d # c => InFlight(d)' = InFlight(d)),
         InFlight(c)' = IF Whole(c) THEN InFlight(c) \o NewUnits(c) ELSE InFlight(c)
  PROVE  Promise!Next
<1>1. Promise!Put(c, Units)
  BY DEF Promise!Put, Whole, NewUnits, MaxUnits
<1>2. QED BY <1>1 DEF Promise!Next, MaxUnits

\* A step that ends some connections and cuts off the end of what they carry
\* is a Break of the channel.
LEMMA BreakMaps ==
  ASSUME NEW E \in SUBSET Clients, UNCHANGED <<nsent, nread>>,
         \A c \in Clients : Whole(c)' = (Whole(c) /\ c \notin E),
         \A c \in Clients : InFlight(c)' \in Seq(Unit),
         \A c \in E : Promise!IsPrefix(InFlight(c)', InFlight(c)),
         \A c \in Clients \ E : InFlight(c)' = InFlight(c)
  PROVE  Promise!Next
<1>1. Promise!Break(E)
  BY DEF Promise!Break, Whole, MaxUnits, Unit
<1>2. QED BY <1>1 DEF Promise!Next

\* A step that takes the first units of what is in flight is a Take of the
\* channel.
LEMMA TakeMaps ==
  ASSUME NEW c \in Clients, NEW k \in 1..MaxUnits, k <= Len(InFlight(c)),
         nread' = [nread EXCEPT ![c] = InFlight(c)[k]], UNCHANGED nsent,
         \A d \in Clients : Whole(d)' = Whole(d) /\ (d # c => InFlight(d)' = InFlight(d)),
         InFlight(c)' = SubSeq(InFlight(c), k + 1, Len(InFlight(c)))
  PROVE  Promise!Next
<1>1. Promise!Take(c, k)
  BY DEF Promise!Take, Whole
<1>2. QED BY <1>1 DEF Promise!Next, MaxUnits

\* What is in flight, case by case: all three parts, the part on its way back,
\* or nothing.
LEMMA InFlightIs ==
  ASSUME TypeOK, NEW c \in Clients
  PROVE  /\ ~Whole(c) /\ cpc[c] # "closed" => InFlight(c) = down[c]
         /\ cpc[c] = "closed" => InFlight(c) = <<>>
         /\ Whole(c) => InFlight(c) = (down[c] \o Buffered(c)) \o up[c]
         /\ InFlight(c) \in Seq(Unit)
<1>1. (down[c] \o Buffered(c)) \o up[c] \in Seq(Unit) /\ <<>> \in Seq(Unit) /\ down[c] \in Seq(Unit)
  BY BufferedType, ConcatProperties
<1>2. QED BY <1>1 DEF InFlight, Whole, Buffered

\* connect() is no step of the channel, or, when the server is gone, the break
\* of one connection.
LEMMA ConnectMaps ==
  ASSUME IInv, IInv', NEW c \in Clients, Connect(c)
  PROVE  Promise!Next \/ UNCHANGED Promise!vars
<1>1. /\ \A d \in Clients : d # c => cpc'[d] = cpc[d]
      /\ UNCHANGED <<nsent, nread, link, up, down, serverVars>> /\ cpc[c] = "start"
      /\ IF spc = "exited" THEN cpc'[c] = "closed" ELSE cpc'[c] = "prompt"
  BY DEF Connect, IInv, TypeOK
<1>2. \A d \in Clients : d # c => Whole(d)' = Whole(d) /\ InFlight(d)' = InFlight(d)
  BY <1>1 DEF Whole, InFlight, serverVars
<1>3. CASE spc = "exited"
  <2>1. \A d \in Clients : Whole(d)' = (Whole(d) /\ d \notin {c})
    BY <1>1, <1>2, <1>3 DEF Whole, serverVars
  <2>2. InFlight(c)' = <<>>
    BY <1>1, <1>3 DEF InFlight
  <2>3. Promise!IsPrefix(InFlight(c)', InFlight(c))
    BY <2>2, InFlightIs, PrefixOfConcat DEF IInv
  <2>4. \A d \in Clients : InFlight(d)' \in Seq(Unit)
    <3>1. \A d \in Clients : InFlight(d) \in Seq(Unit)
      BY InFlightIs DEF IInv
    <3>2. <<>> \in Seq(Unit)
      OBVIOUS
    <3>3. QED BY <1>2, <2>2, <3>1, <3>2
  <2>5. \A d \in Clients \ {c} : InFlight(d)' = InFlight(d)
    BY <1>2
  <2>6. UNCHANGED <<nsent, nread>>
    BY <1>1
  <2>7. QED BY <2>1, <2>3, <2>4, <2>5, <2>6, BreakMaps
<1>4. CASE spc # "exited"
  <2>1. Whole(c)' = Whole(c) /\ InFlight(c)' = InFlight(c)
    BY <1>1, <1>4 DEF Whole, InFlight, serverVars
  <2>2. QED BY <1>1, <1>2, <2>1, StutterMaps
<1>5. QED BY <1>3, <1>4

\* write() puts a message in.
LEMMA WriteMaps ==
  ASSUME IInv, NEW c \in Clients, Write(c)
  PROVE  Promise!Next
<1>1. /\ nsent[c] < MaxMsg * Units /\ nsent' = [nsent EXCEPT ![c] = @ + Units]
      /\ up' = [up EXCEPT ![c] = IF spc = "exited" THEN @ ELSE @ \o NewUnits(c)]
      /\ UNCHANGED <<nread, link, down, backlog, serverVars>> /\ cpc[c] = "prompt"
  BY DEF Write, NewUnits
<1>2. /\ cpc'[c] \in {"read", "last"} /\ \A d \in Clients : d # c => cpc'[d] = cpc[d]
      /\ up'[c] = IF spc = "exited" THEN up[c] ELSE up[c] \o NewUnits(c)
      /\ \A d \in Clients : d # c => up'[d] = up[d]
  BY <1>1 DEF Write, IInv, TypeOK
<1>3. \A d \in Clients : Whole(d)' = Whole(d) /\ (d # c => InFlight(d)' = InFlight(d))
  BY <1>1, <1>2 DEF Whole, InFlight, serverVars
<1>4. InFlight(c)' = IF Whole(c) THEN InFlight(c) \o NewUnits(c) ELSE InFlight(c)
  <2>1. CASE spc = "exited"
    BY <1>1, <1>2, <2>1 DEF Whole, InFlight, serverVars
  <2>2. CASE spc # "exited"
    <3>1. Whole(c) /\ InFlight(c) = (down[c] \o Buffered(c)) \o up[c]
      BY <1>1, <2>2, InFlightIs DEF Whole, IInv
    <3>2. InFlight(c)' = (down[c] \o Buffered(c)) \o (up[c] \o NewUnits(c))
      BY <1>1, <1>2, <2>2 DEF InFlight, Buffered, serverVars
    <3>3. down[c] \o Buffered(c) \in Seq(Unit) /\ up[c] \in Seq(Unit) /\ NewUnits(c) \in Seq(Unit)
      BY <1>1, BufferedType, NewUnitsAre, ConcatProperties DEF IInv
    <3>4. ((down[c] \o Buffered(c)) \o up[c]) \o NewUnits(c)
            = (down[c] \o Buffered(c)) \o (up[c] \o NewUnits(c))
      BY <3>3, UnitsAssociative
    <3>5. QED BY <3>1, <3>2, <3>4
  <2>3. QED BY <2>1, <2>2
<1>5. nsent \in [Clients -> Nat] /\ nsent[c] + Units <= MaxUnits /\ Units \in 1..MaxUnits
  BY <1>1, RoomForMessage DEF IInv, TypeOK
<1>6. QED BY <1>1, <1>3, <1>4, <1>5, PutMaps

\* read() takes units out; from a server that is gone it takes none.
LEMMA ReadMaps ==
  ASSUME IInv, NEW c \in Clients, Read(c)
  PROVE  Promise!Next \/ UNCHANGED Promise!vars
<1>1. /\ cpc[c] \in {"read", "last"} /\ cpc'[c] \in {"prompt", "closing"}
      /\ \A d \in Clients : d # c => cpc'[d] = cpc[d]
      /\ UNCHANGED <<nsent, link, up, backlog, serverVars>>
  BY DEF Read, AfterRead, IInv, TypeOK
<1>2. \A d \in Clients : Whole(d)' = Whole(d)
  BY <1>1 DEF Whole, serverVars
<1>3. CASE UNCHANGED <<nread, down>>
  <2>1. \A d \in Clients : InFlight(d)' = InFlight(d)
    BY <1>1, <1>3 DEF InFlight, serverVars
  <2>2. QED BY <1>1, <1>2, <1>3, <2>1, StutterMaps
<1>4. ASSUME NEW k \in 1..Len(down[c]), nread' = [nread EXCEPT ![c] = down[c][k]],
             down' = [down EXCEPT ![c] = Rest(@, k)]
      PROVE  Promise!Next
  <2>1. /\ down'[c] = Rest(down[c], k) /\ \A d \in Clients : d # c => down'[d] = down[d]
    BY <1>4 DEF IInv, TypeOK
  <2>2. \A d \in Clients : d # c => InFlight(d)' = InFlight(d)
    BY <1>1, <2>1 DEF InFlight, serverVars
  <2>3. PICK t \in Seq(Unit) : InFlight(c) = down[c] \o t /\ InFlight(c)' = Rest(down[c], k) \o t
    <3>1. CASE Whole(c)
      <4>0. /\ Buffered(c) \in Seq(Unit) /\ up[c] \in Seq(Unit) /\ down[c] \in Seq(Unit)
            /\ Rest(down[c], k) \in Seq(Unit)
        BY <1>4, BufferedType, RestOf DEF IInv
      <4>1. Buffered(c) \o up[c] \in Seq(Unit)
        BY <4>0, ConcatProperties
      <4>a. (down[c] \o Buffered(c)) \o up[c] = down[c] \o (Buffered(c) \o up[c])
        BY ZenonT(40), <4>0, UnitsAssociative
      <4>b. (Rest(down[c], k) \o Buffered(c)) \o up[c] = Rest(down[c], k) \o (Buffered(c) \o up[c])
        BY <4>0, UnitsAssociative
      <4>2. InFlight(c) = down[c] \o (Buffered(c) \o up[c])
        BY <3>1, <4>a, InFlightIs DEF IInv
      <4>3. InFlight(c)' = (Rest(down[c], k) \o Buffered(c)) \o up[c]
        BY <1>1, <2>1, <3>1 DEF InFlight, Buffered, Whole, serverVars
      <4>4. InFlight(c)' = Rest(down[c], k) \o (Buffered(c) \o up[c])
        BY <4>3, <4>b
      <4>5. QED BY <4>1, <4>2, <4>4
    <3>2. CASE ~Whole(c)
      <4>1. InFlight(c) = down[c] /\ InFlight(c)' = Rest(down[c], k)
        BY <1>1, <2>1, <3>2 DEF InFlight, Whole, serverVars
      <4>2. <<>> \in Seq(Unit) /\ down[c] \o <<>> = down[c] /\ Rest(down[c], k) \o <<>> = Rest(down[c], k)
        BY <1>4, BufferedType, RestOf, ConcatEmptySeq DEF IInv
      <4>3. QED BY <4>1, <4>2
    <3>3. QED BY <3>1, <3>2
  <2>4. PICK w \in Seq(Unit) : w = down[c] \o t
    BY BufferedType, ConcatProperties DEF IInv
  <2>5. PICK s \in Seq(Unit) : s = down[c]
    BY BufferedType DEF IInv
  <2>6. /\ Len(w) = Len(s) + Len(t) /\ k <= Len(w) /\ w[k] = s[k]
        /\ SubSeq(w, k + 1, Len(w)) = Rest(s, k) \o t
    <3>1. /\ Len(w) = Len(s) + Len(t)
          /\ \A i \in 1..Len(s) + Len(t) : w[i] = IF i <= Len(s) THEN s[i] ELSE t[i - Len(s)]
      BY <2>4, <2>5, ConcatProperties
    <3>2. k \in 1..Len(s) /\ Len(s) \in Nat /\ Len(t) \in Nat
      BY <1>4, <2>5
    <3>3. w[k] = s[k] /\ k <= Len(w)
      BY <3>1, <3>2
    <3>4. /\ SubSeq(w, k + 1, Len(w)) \in Seq(Unit) /\ Len(SubSeq(w, k + 1, Len(w))) = Len(w) - k
          /\ \A i \in 1..Len(w) - k : SubSeq(w, k + 1, Len(w))[i] = w[k + i]
      BY <3>1, <3>2
    <3>5. /\ Rest(s, k) \in Seq(Unit) /\ Len(Rest(s, k)) = Len(s) - k
          /\ \A i \in 1..Len(s) - k : Rest(s, k)[i] = s[k + i]
      BY <3>2 DEF Rest
    <3>6. PICK r \in Seq(Unit) : r = Rest(s, k)
      BY <3>5
    <3>7. /\ r \o t \in Seq(Unit) /\ Len(r \o t) = (Len(s) - k) + Len(t)
          /\ \A i \in 1..Len(w) - k : (r \o t)[i] = IF i <= Len(s) - k THEN s[k + i] ELSE t[i - (Len(s) - k)]
      <4>1. /\ r \o t \in Seq(Unit) /\ Len(r \o t) = Len(r) + Len(t)
            /\ \A i \in 1..Len(r) + Len(t) : (r \o t)[i] = IF i <= Len(r) THEN r[i] ELSE t[i - Len(r)]
        BY ConcatProperties
      <4>2. Len(r) = Len(s) - k /\ \A i \in 1..Len(s) - k : r[i] = s[k + i]
        BY <3>5, <3>6
      <4>3. QED BY <3>1, <3>2, <4>1, <4>2
    <3>8. \A i \in 1..Len(w) - k : w[k + i] = IF i <= Len(s) - k THEN s[k + i] ELSE t[i - (Len(s) - k)]
      <4> TAKE i \in 1..Len(w) - k
      <4>1. k + i \in 1..Len(s) + Len(t) /\ (k + i <= Len(s) <=> i <= Len(s) - k)
            /\ (k + i) - Len(s) = i - (Len(s) - k)
        BY <3>1, <3>2
      <4>2. QED BY <3>1, <4>1
    <3>9. SubSeq(w, k + 1, Len(w)) = r \o t
      <4>1. PICK p \in Seq(Unit) : p = SubSeq(w, k + 1, Len(w))
        BY <3>4
      <4>2. PICK q \in Seq(Unit) : q = r \o t
        BY <3>7
      <4>3. Len(p) = Len(w) - k /\ Len(q) = Len(w) - k
        BY <3>1, <3>2, <3>4, <3>7, <4>1, <4>2
      <4>4. \A i \in 1..Len(w) - k : p[i] = q[i]
        BY <3>4, <3>7, <3>8, <4>1, <4>2
      <4>5. p = q
        BY <4>3, <4>4, SeqEqual
      <4>6. QED BY <4>1, <4>2, <4>5
    <3>10. QED BY <3>1, <3>3, <3>6, <3>9
  <2>7. k \in 1..MaxUnits
    <3>1. Len(down[c]) <= nsent[c] /\ nsent[c] <= MaxUnits /\ nsent[c] \in Nat
      <4>1. PICK a, b, u, n \in Nat : /\ a = Len(down[c]) /\ b = Len(Buffered(c))
                                      /\ u = Len(up[c]) /\ n = nsent[c]
        BY BufferedType, UnitsSent DEF IInv
      <4>2. a + b + u <= n
        BY <4>1 DEF IInv, NoneMade
      <4>3. a <= n
        BY <4>2
      <4>4. QED BY <4>1, <4>3, UnitsSent
    <3>2. QED BY <3>1, MaxUnitsNat, BufferedType DEF IInv
  <2>8. InFlight(c) = w
    BY <2>3, <2>4
  <2>9. InFlight(c)' = SubSeq(InFlight(c), k + 1, Len(InFlight(c)))
    BY <2>3, <2>5, <2>6, <2>8
  <2>10. nread' = [nread EXCEPT ![c] = InFlight(c)[k]]
    BY <1>4, <2>5, <2>6, <2>8
  <2>11. k <= Len(InFlight(c))
    BY <2>6, <2>8
  <2>12. QED BY <1>1, <1>2, <2>2, <2>7, <2>9, <2>10, <2>11, TakeMaps
<1>5. QED BY <1>3, <1>4 DEF Read

\* A client that closes breaks its connection.
LEMMA HangupMaps ==
  ASSUME IInv, NEW c \in Clients, Hangup(c)
  PROVE  Promise!Next
<1>1. /\ cpc'[c] = "closed" /\ \A d \in Clients : d # c => cpc'[d] = cpc[d]
      /\ UNCHANGED <<nsent, nread, up, down, backlog, serverVars>>
  BY DEF Hangup, IInv, TypeOK
<1>2. \A d \in Clients : Whole(d)' = (Whole(d) /\ d \notin {c})
  BY <1>1 DEF Whole, serverVars
<1>3. \A d \in Clients : d # c => InFlight(d)' = InFlight(d)
  BY <1>1 DEF InFlight, serverVars
<1>4. InFlight(c)' = <<>> /\ <<>> \in Seq(Unit)
  BY <1>1 DEF InFlight
<1>5. \A d \in Clients : InFlight(d) \in Seq(Unit)
  BY InFlightIs DEF IInv
<1>6. \A d \in {c} : Promise!IsPrefix(InFlight(d)', InFlight(d))
  BY <1>4, <1>5, PrefixOfConcat
<1>7. \A d \in Clients : InFlight(d)' \in Seq(Unit)
  BY <1>3, <1>4, <1>5
<1>8. \A d \in Clients \ {c} : InFlight(d)' = InFlight(d)
  BY <1>3
<1>9. {c} \in SUBSET Clients /\ UNCHANGED <<nsent, nread>>
  BY <1>1
<1>10. QED BY <1>2, <1>6, <1>7, <1>8, <1>9, BreakMaps

\* The end of the server breaks all the connections; what is on its way back
\* can still be read, the rest is lost.
LEMMA EndMaps ==
  ASSUME IInv, spc' = "exited", UNCHANGED <<clientVars, down>>
  PROVE  Promise!Next
<1>1. \A d \in Clients : ~Whole(d)'
  BY DEF Whole
<1>2. \A d \in Clients : InFlight(d)' = IF cpc[d] = "closed" THEN <<>> ELSE down[d]
  BY DEF InFlight, clientVars
<1>3. ASSUME NEW d \in Clients PROVE Promise!IsPrefix(InFlight(d)', InFlight(d))
  <2>1. /\ down[d] \in Seq(Unit) /\ Buffered(d) \in Seq(Unit) /\ up[d] \in Seq(Unit)
        /\ <<>> \in Seq(Unit) /\ Buffered(d) \o up[d] \in Seq(Unit)
    BY BufferedType, ConcatProperties DEF IInv
  <2>2. CASE cpc[d] = "closed"
    BY <1>2, <2>1, <2>2, InFlightIs, PrefixOfConcat DEF IInv
  <2>3. CASE cpc[d] # "closed" /\ spc = "exited"
    <3>1. InFlight(d) = down[d] /\ InFlight(d)' = down[d]
      BY <1>2, <2>3, InFlightIs DEF IInv, Whole
    <3>2. QED BY <2>1, <3>1, PrefixOfConcat
  <2>4. CASE cpc[d] # "closed" /\ spc # "exited"
    <3>1. InFlight(d)' = down[d] /\ InFlight(d) = (down[d] \o Buffered(d)) \o up[d]
      BY <1>2, <2>4, InFlightIs DEF IInv, Whole
    <3>2. InFlight(d) = down[d] \o (Buffered(d) \o up[d])
      BY ZenonT(40), <2>1, <3>1, UnitsAssociative
    <3>3. Promise!IsPrefix(down[d], down[d] \o (Buffered(d) \o up[d]))
      BY <2>1, PrefixOfConcat
    <3>4. QED BY <3>1, <3>2, <3>3
  <2>5. QED BY <2>2, <2>3, <2>4
<1>4. \A d \in Clients : InFlight(d)' \in Seq(Unit)
  <2>1. <<>> \in Seq(Unit)
    OBVIOUS
  <2>2. QED BY ZenonT(40), <1>2, <2>1 DEF IInv, TypeOK
<1>5. \A d \in Clients : Whole(d)' = (Whole(d) /\ d \notin Clients)
  BY DEF Whole
<1>6. /\ \A d \in Clients \ Clients : InFlight(d)' = InFlight(d)
      /\ Clients \in SUBSET Clients /\ UNCHANGED <<nsent, nread>>
  BY DEF clientVars
<1>7. QED BY <1>3, <1>4, <1>5, <1>6, BreakMaps

\* accept() is no step of the channel, unless it fails and ends the server.
LEMMA AcceptMaps ==
  ASSUME IInv, Accept
  PROVE  Promise!Next \/ UNCHANGED Promise!vars
<1>1. /\ spc = "accept" /\ spc' \in {"recv", "exited"} /\ buf = <<>>
      /\ UNCHANGED <<clientVars, link, up, down, buf>>
  BY DEF Accept, IInv, Serving
<1>2. CASE spc' = "exited"
  BY <1>1, <1>2, EndMaps
<1>3. CASE spc' = "recv"
  <2>1. \A d \in Clients : Whole(d)' = Whole(d) /\ InFlight(d)' = InFlight(d)
    BY <1>1, <1>3 DEF Whole, InFlight, clientVars
  <2>2. QED BY <1>1, <2>1, StutterMaps DEF clientVars
<1>4. QED BY <1>1, <1>2, <1>3

\* recv() moves units from the stream to the buffer, which the channel does
\* not see.
LEMMA RecvMaps ==
  ASSUME IInv, NEW c \in Clients, Recv(c)
  PROVE  UNCHANGED Promise!vars
<1>1. /\ spc = "recv" /\ cur = {c} /\ spc' = "send" /\ buf = <<>>
      /\ UNCHANGED <<clientVars, link, down, backlog, cur, accepted>>
  BY DEF Recv, IInv, Serving
<1>2. PICK k \in 1..Len(up[c]) :
        buf' = SubSeq(up[c], 1, k) /\ up' = [up EXCEPT ![c] = Rest(@, k)]
  BY DEF Recv
<1>3. /\ up'[c] = Rest(up[c], k) /\ \A d \in Clients : d # c => up'[d] = up[d]
  BY <1>2 DEF IInv, TypeOK
<1>4. /\ buf' \in Seq(Unit) /\ up'[c] \in Seq(Unit) /\ down[c] \in Seq(Unit)
      /\ up[c] = buf' \o up'[c]
  <2>1. up[c] \in Seq(Unit) /\ down[c] \in Seq(Unit)
    BY BufferedType DEF IInv
  <2>2. /\ SubSeq(up[c], 1, k) \in Seq(Unit) /\ Rest(up[c], k) \in Seq(Unit)
        /\ up[c] = SubSeq(up[c], 1, k) \o Rest(up[c], k)
    BY <2>1, RestOf
  <2>3. QED BY <1>2, <1>3, <2>1, <2>2
<1>5. \A d \in Clients : Whole(d)' = Whole(d)
  BY <1>1 DEF Whole, clientVars
<1>6. \A d \in Clients : d # c => InFlight(d)' = InFlight(d)
  BY <1>1, <1>3 DEF InFlight, clientVars
<1>7. InFlight(c)' = InFlight(c)
  <2>1. CASE cpc[c] = "closed"
    BY <1>1, <2>1 DEF InFlight, clientVars
  <2>2. CASE cpc[c] # "closed"
    <3>1. InFlight(c)' = (down[c] \o buf') \o up'[c] /\ InFlight(c) = (down[c] \o <<>>) \o up[c]
      BY <1>1, <2>2 DEF InFlight, clientVars
    <3>2. (down[c] \o buf') \o up'[c] = down[c] \o (buf' \o up'[c])
      BY <1>4, UnitsAssociative
    <3>3. down[c] \o <<>> = down[c]
      BY <1>4, ConcatEmptySeq
    <3>4. QED BY <1>4, <3>1, <3>2, <3>3
  <2>3. QED BY <2>1, <2>2
<1>8. QED BY <1>1, <1>5, <1>6, <1>7, StutterMaps DEF clientVars

\* The end of a connection is no step of the channel, unless it ends the
\* server.
LEMMA RecvEndMaps ==
  ASSUME IInv, NEW c \in Clients, RecvEnd(c)
  PROVE  Promise!Next \/ UNCHANGED Promise!vars
<1>1. /\ spc = "recv" /\ spc' \in {"exited", "accept"}
      /\ UNCHANGED <<clientVars, link, up, down, backlog, cur, buf, accepted>>
  BY DEF RecvEnd
<1>2. CASE spc' = "exited"
  BY <1>1, <1>2, EndMaps
<1>3. CASE spc' = "accept"
  <2>1. \A d \in Clients : Whole(d)' = Whole(d) /\ InFlight(d)' = InFlight(d)
    BY <1>1, <1>3 DEF Whole, InFlight, clientVars
  <2>2. QED BY <1>1, <2>1, StutterMaps DEF clientVars
<1>4. QED BY <1>1, <1>2, <1>3

\* send() moves units from the buffer to the stream, which the channel does
\* not see, unless it fails and ends the server.
LEMMA SendMaps ==
  ASSUME IInv, NEW c \in Clients, Send(c)
  PROVE  Promise!Next \/ UNCHANGED Promise!vars
<1>1. /\ spc = "send" /\ cur = {c} /\ buf' = <<>>
      /\ down' = [down EXCEPT ![c] = IF link[c] = "open" THEN @ \o buf ELSE @]
      /\ spc' = IF link[c] = "reset" THEN "exited" ELSE "recv"
      /\ UNCHANGED <<clientVars, up, backlog, cur, accepted>>
  BY DEF Send
<1>2. /\ down[c] \in Seq(Unit) /\ buf \in Seq(Unit) /\ up[c] \in Seq(Unit)
      /\ down[c] \o buf \in Seq(Unit)
  BY ConcatProperties DEF IInv, TypeOK
<1>3. CASE link[c] = "reset"
  <2>1. down' = down
    BY <1>1, <1>3 DEF IInv, TypeOK
  <2>2. QED BY <1>1, <1>3, <2>1, EndMaps
<1>4. CASE link[c] # "reset"
  <2>1. spc' = "recv" /\ \A d \in Clients : d # c => down'[d] = down[d]
    BY <1>1, <1>4 DEF IInv, TypeOK
  <2>2. \A d \in Clients : Whole(d)' = Whole(d)
    BY <1>1, <2>1 DEF Whole, clientVars
  <2>3. ASSUME NEW d \in Clients, d # c PROVE InFlight(d)' = InFlight(d)
    <3>1. /\ down'[d] = down[d] /\ cpc'[d] = cpc[d] /\ up'[d] = up[d] /\ cur # {d} /\ cur' # {d}
          /\ spc # "exited" /\ spc' # "exited"
      BY <1>1, <2>1, <2>3 DEF clientVars
    <3>2. QED BY <3>1 DEF InFlight
  <2>4. InFlight(c)' = InFlight(c)
    <3>1. CASE cpc[c] = "closed"
      BY <1>1, <3>1 DEF InFlight, clientVars
    <3>2. CASE cpc[c] # "closed"
      <4>1. link[c] = "open"
        BY <3>2 DEF IInv, Serving
      <4>2. down'[c] = down[c] \o buf
        BY <1>1, <4>1 DEF IInv, TypeOK
      <4>3. /\ InFlight(c) = (down[c] \o buf) \o up[c]
            /\ InFlight(c)' = ((down[c] \o buf) \o <<>>) \o up[c]
        BY <1>1, <2>1, <3>2, <4>2 DEF InFlight, clientVars
      <4>4. (down[c] \o buf) \o <<>> = down[c] \o buf
        BY <1>2, ConcatEmptySeq
      <4>5. QED BY <4>3, <4>4
    <3>3. QED BY <3>1, <3>2
  <2>5. QED BY <1>1, <2>2, <2>3, <2>4, StutterMaps DEF clientVars
<1>5. QED BY <1>3, <1>4

\* The echo server, its clients and the streams between them implement the
\* channel: however the messages are cut up, each client gets its own units
\* back, once and in order, for any number of clients that come and go.
THEOREM ImplementsChannel == Spec => EchoIsChannel
<1>1. Init => Promise!Init
  BY InitMaps
<1>2. IInv /\ IInv' /\ [Next]_vars => [Promise!Next]_(Promise!vars)
  <2> SUFFICES ASSUME IInv, IInv', [Next]_vars PROVE Promise!Next \/ UNCHANGED Promise!vars
    OBVIOUS
  <2>1. CASE ServerNext
    BY <2>1, AcceptMaps, RecvMaps, RecvEndMaps, SendMaps DEF ServerNext
  <2>2. ASSUME NEW c \in Clients, ClientNext(c) PROVE Promise!Next \/ UNCHANGED Promise!vars
    BY <2>2, ConnectMaps, WriteMaps, ReadMaps, HangupMaps DEF ClientNext
  <2>3. CASE UNCHANGED vars
    <3>1. \A d \in Clients : Whole(d)' = Whole(d) /\ InFlight(d)' = InFlight(d)
      BY <2>3 DEF Whole, InFlight, vars, clientVars, serverVars
    <3>2. QED BY <2>3, <3>1, StutterMaps DEF vars, clientVars
  <2>4. QED BY <2>1, <2>2, <2>3 DEF Next
<1>3. QED BY <1>1, <1>2, Invariance, PTL DEF Spec, EchoIsChannel, Promise!Spec

-----------------------------------------------------------------------------
(* Why the server exits. *)

\* The descriptors are as many as were accepted, the client served is one of
\* these, and the exit had a cause.
ExitInv ==
  /\ cur \subseteq accepted
  /\ IsFiniteSet(accepted) /\ Cardinality(accepted) <= MaxFds
  /\ ExitHasCause

\* When accept() ends the server, the descriptors have run out.
LEMMA AcceptHasCause ==
  ASSUME IInv, ExitInv, Accept
  PROVE  ExitInv'
<1>1. spc = "accept" /\ backlog # <<>> /\ UNCHANGED <<cpc, link>>
  BY DEF Accept, clientVars
<1>2. Cardinality(accepted) \in Nat
  BY FS_CardinalityType DEF ExitInv
<1>3. CASE Cardinality(accepted) < MaxFds
  <2>1. cur' = {Head(backlog)} /\ accepted' = accepted \cup {Head(backlog)} /\ spc' = "recv"
    BY <1>3 DEF Accept
  <2>2. /\ IsFiniteSet(accepted')
        /\ Cardinality(accepted') = IF Head(backlog) \in accepted THEN Cardinality(accepted)
                                    ELSE Cardinality(accepted) + 1
    BY <2>1, FS_AddElement DEF ExitInv
  <2>3. Cardinality(accepted') <= MaxFds
    BY <1>2, <1>3, <2>2
  <2>4. QED BY <2>1, <2>2, <2>3 DEF ExitInv, ExitHasCause
<1>4. CASE ~(Cardinality(accepted) < MaxFds)
  <2>1. UNCHANGED <<cur, accepted, backlog>>
    BY <1>4 DEF Accept
  <2>2. Cardinality(accepted) = MaxFds
    BY <1>2, <1>4 DEF ExitInv
  <2>3. QED BY <1>1, <2>1, <2>2 DEF ExitInv, ExitHasCause
<1>5. QED BY <1>3, <1>4

\* When recv() or send() ends the server, the client served has reset its
\* connection.
LEMMA ServingHasCause ==
  ASSUME IInv, ExitInv, NEW c \in Clients, Recv(c) \/ RecvEnd(c) \/ Send(c)
  PROVE  ExitInv'
<1>1. /\ spc # "exited" /\ c \in accepted /\ UNCHANGED <<cpc, cur, accepted, backlog>>
      /\ spc' = "exited" => link[c] = "reset"
      /\ link[c] = "reset" => link'[c] = "reset"
  BY DEF Recv, RecvEnd, Send, clientVars, ExitInv, IInv, TypeOK
<1>2. link[c] = "reset" => cpc[c] = "closed"
  BY DEF IInv, Serving
<1>3. QED BY <1>1, <1>2 DEF ExitInv, ExitHasCause

\* No step of a client takes the cause away.
LEMMA ClientHasCause ==
  ASSUME IInv, ExitInv, NEW c \in Clients, ClientNext(c)
  PROVE  ExitInv'
<1>1. UNCHANGED <<spc, cur, accepted>>
  BY DEF ClientNext, Connect, Write, Read, Hangup, serverVars
<1>2. spc = "exited" => UNCHANGED backlog
  BY DEF ClientNext, Connect, Write, Read, Hangup
<1>3. ASSUME NEW d \in Clients, link[d] = "reset", cpc[d] = "closed"
      PROVE  link'[d] = "reset" /\ cpc'[d] = "closed"
  BY <1>3 DEF ClientNext, Connect, Write, Read, Hangup, IInv, TypeOK
<1>4. accepted \subseteq Clients
  BY DEF IInv, TypeOK
<1>5. QED BY <1>1, <1>2, <1>3, <1>4 DEF ExitInv, ExitHasCause

\* The server exits for its three reasons only: a client that was accepted has
\* reset the connection and is gone, or the descriptors, none of which is ever
\* closed, have run out with a client waiting. This is the safety half of
\* EchoComes.
THEOREM ExitsForACause == Spec => []ExitHasCause
<1>1. Init => ExitInv
  BY FS_EmptySet DEF Init, None, ExitInv, ExitHasCause
<1>2. IInv /\ ExitInv /\ [Next]_vars => ExitInv'
  <2> SUFFICES ASSUME IInv, ExitInv, [Next]_vars PROVE ExitInv'
    OBVIOUS
  <2>1. CASE ServerNext
    BY <2>1, AcceptHasCause, ServingHasCause DEF ServerNext
  <2>2. ASSUME NEW c \in Clients, ClientNext(c) PROVE ExitInv'
    BY <2>2, ClientHasCause
  <2>3. CASE UNCHANGED vars
    BY <2>3 DEF vars, clientVars, serverVars, ExitInv, ExitHasCause
  <2>4. QED BY <2>1, <2>2, <2>3 DEF Next
<1>3. ExitInv => ExitHasCause
  BY DEF ExitInv
<1>4. QED BY <1>1, <1>2, <1>3, Invariance, PTL DEF Spec

-----------------------------------------------------------------------------
(* Homework 2. *)

\* The answer that unit n of the stream is a part of.
AnswerOf(n) == ((n - 1) \div AnswerSize) + 1

\* How the units count: of the first AnswerSize * l each belongs to one of l
\* answers, and the last AnswerSize of them to the last. (\div and a product of
\* two variables: the provers are led through it.)
LEMMA AnswerOfIs ==
  ASSUME AnswerSize \in Nat \ {0}, NEW l \in Nat, NEW n \in Int, n <= AnswerSize * l, n > 0
  PROVE  /\ AnswerOf(n) \in 1..l
         /\ n > AnswerSize * l - AnswerSize => AnswerOf(n) = l
<1> DEFINE q == (n - 1) \div AnswerSize
<1>1. q \in Int /\ AnswerSize * q <= n - 1 /\ n - 1 < AnswerSize * q + AnswerSize
  BY Z3
<1>2. q >= 0
  <2>1. CASE q <= -1
    <3>1. AnswerSize * q <= -AnswerSize
      BY <1>1, <2>1, Z3
    <3>2. AnswerSize * q \in Int
      BY <1>1
    <3>3. QED BY <1>1, <3>1, <3>2
  <2>2. QED BY <1>1, <2>1
<1>3. q < l
  <2>1. CASE q >= l
    <3>1. AnswerSize * q >= AnswerSize * l
      BY <1>1, <2>1, Z3
    <3>2. AnswerSize * q \in Int /\ AnswerSize * l \in Int
      BY <1>1
    <3>3. QED BY <1>1, <3>1, <3>2
  <2>2. QED BY <1>1, <2>1
<1>4. ASSUME n > AnswerSize * l - AnswerSize PROVE q = l - 1
  <2>1. CASE q <= l - 2
    <3>1. AnswerSize * q <= AnswerSize * (l - 2)
      BY <1>1, <2>1, Z3
    <3>2. AnswerSize * (l - 2) = AnswerSize * l - 2 * AnswerSize
      BY Z3
    <3>3. AnswerSize * q \in Int /\ AnswerSize * l \in Int
      BY <1>1
    <3>4. QED BY <1>1, <1>4, <3>1, <3>2, <3>3
  <2>2. QED BY <1>1, <1>3, <2>1
<1>5. QED BY <1>1, <1>2, <1>3, <1>4 DEF AnswerOf

\* A unit between two of different answers, or the first of the two, is the
\* last of its answer.
LEMMA LastBetween ==
  ASSUME AnswerSize \in Nat \ {0}, NEW n \in Nat \ {0}, NEW m \in Nat, n <= m, AnswerOf(m) # AnswerOf(n)
  PROVE  \E e \in Nat : n <= e /\ e < m /\ \E l \in Nat : e = AnswerSize * l
<1> DEFINE q == (n - 1) \div AnswerSize
           r == (m - 1) \div AnswerSize
           e == AnswerSize * (q + 1)
<1>1. /\ q \in Int /\ AnswerSize * q <= n - 1 /\ n - 1 < AnswerSize * q + AnswerSize
      /\ r \in Int /\ AnswerSize * r <= m - 1 /\ m - 1 < AnswerSize * r + AnswerSize
  BY Z3
<1>2. q # r
  BY DEF AnswerOf
<1>3. AnswerSize * q \in Int /\ AnswerSize * r \in Int /\ e \in Int /\ e = AnswerSize * q + AnswerSize
  BY <1>1, Z3
<1>4. q >= 0
  <2>1. CASE q <= -1
    <3>1. AnswerSize * q <= -AnswerSize
      BY <1>1, <2>1, Z3
    <3>2. QED BY <1>1, <1>3, <3>1
  <2>2. QED BY <1>1, <2>1
<1>5. r > q
  <2>1. CASE r <= q - 1
    <3>1. AnswerSize * r <= AnswerSize * (q - 1)
      BY <1>1, <2>1, Z3
    <3>2. AnswerSize * (q - 1) = AnswerSize * q - AnswerSize
      BY <1>1, Z3
    <3>3. QED BY <1>1, <1>3, <3>1, <3>2
  <2>2. QED BY <1>1, <1>2, <2>1
<1>6. AnswerSize * r >= e
  BY <1>1, <1>5, Z3
<1>7. n <= e /\ e < m /\ e \in Nat
  <2> HIDE DEF q, r, e
  <2>1. QED BY <1>1, <1>3, <1>6
<1>8. q + 1 \in Nat /\ e = AnswerSize * (q + 1)
  BY <1>1, <1>4
<1> HIDE DEF q, e
<1>9. QED BY <1>7, <1>8

\* Unit n of the stream may be u: output of the command of its answer, or
\* zero, and the last unit of an answer is zero.
FitsAt(n, u) ==
  /\ u # 0 => u = ran[AnswerOf(n)]
  /\ (\E l \in Nat : n = AnswerSize * l) => u = 0

\* What the last read() showed.
LastShown ==
  /\ shown.at \in Nat /\ shown.at <= got
  /\ \A k \in shown.of : shown.at < got /\ k = ran[AnswerOf(shown.at + 1)]

\* A read() was made for each command but the last of those typed, or for each.
OnePerLine ==
  /\ got <= ReadSize * typed
  /\ ccpc \in {"write", "read", "last"} => typed > 0 /\ got <= ReadSize * (typed - 1)
  /\ typed > 0 => shown.at <= ReadSize * (typed - 1)

\* What was read, is on its way and is not yet sent adds up to the answers,
\* one for each command run.
AddsUp ==
  /\ cspc \in {"recv", "accept"} => got + Len(cdown) = AnswerSize * Len(ran)
  /\ cspc \in {"run", "hung", "send"} => got + Len(cdown) + unsent = AnswerSize * Len(ran)
  /\ got + Len(cdown) <= AnswerSize * Len(ran)

\* The types of Homework 2.
CommandTypeOK ==
  /\ typed \in Nat /\ got \in Nat /\ cup \in Seq(Nat) /\ cdown \in Seq(Nat) /\ ran \in Seq(Nat)
  /\ text \in 0..AnswerSize - 1 /\ unsent \in 0..AnswerSize
  /\ cspc \in {"recv", "run", "hung", "send", "accept", "exited"}
  /\ cspc = "run" => unsent = AnswerSize
  /\ cspc = "send" => unsent > 0

\* The inductive invariant: each unit on its way fits its place.
CommandInv ==
  /\ CommandTypeOK /\ AddsUp /\ LastShown /\ OnePerLine
  /\ \A j \in 1..Len(cdown) : FitsAt(got + j, cdown[j])

\* What fitted still fits when another command is run.
LEMMA FitsLater ==
  ASSUME AnswerSize \in Nat \ {0}, ran \in Seq(Nat), NEW x \in Nat, ran' = Append(ran, x),
         NEW n \in Nat \ {0}, n <= AnswerSize * Len(ran), NEW u
  PROVE  /\ FitsAt(n, u) => FitsAt(n, u)'
         /\ ran'[AnswerOf(n)] = ran[AnswerOf(n)]
<1>1. Len(ran) \in Nat
  OBVIOUS
<1>2. AnswerOf(n) \in 1..Len(ran)
  BY <1>1, AnswerOfIs
<1>3. ran'[AnswerOf(n)] = ran[AnswerOf(n)]
  BY <1>2
<1>4. AnswerOf(n)' = AnswerOf(n)
  BY DEF AnswerOf
<1>5. QED BY <1>3, <1>4 DEF FitsAt

\* Of the lengths and sums, without the sequences.
LEMMA CommandSums ==
  ASSUME AnswerSize \in Nat \ {0}, CommandInv
  PROVE  \E b, l \in Nat : b = Len(cdown) /\ l = Len(ran) /\ got + b <= AnswerSize * l
                           /\ AnswerSize * l \in Nat
<1>1. Len(cdown) \in Nat /\ Len(ran) \in Nat
  BY DEF CommandInv, CommandTypeOK
<1>2. AnswerSize * Len(ran) \in Nat
  BY <1>1
<1>3. QED BY <1>1, <1>2 DEF CommandInv, AddsUp

\* TypeLine: one more command, and all that was read came before it.
LEMMA LineTyped ==
  ASSUME C!CommandAssumption, CommandInv, C!TypeLine
  PROVE  CommandInv'
<1> USE DEF C!CommandAssumption
<1>1. typed' = typed + 1 /\ UNCHANGED <<got, shown, cup, cdown, cspc, text, unsent, ran>> /\ ccpc' = "write"
  BY DEF C!TypeLine, C!serverVars
<1>2. typed' \in Nat
  BY <1>1 DEF CommandInv, CommandTypeOK
<1>3. OnePerLine'
  <2>1. got <= ReadSize * typed /\ typed \in Nat /\ got \in Nat /\ shown.at \in Nat /\ shown.at <= got
    BY DEF CommandInv, OnePerLine, CommandTypeOK, LastShown
  <2>2. PICK r \in Nat : r = ReadSize * typed
    BY <2>1
  <2>3. ReadSize * (typed + 1) = r + ReadSize
    BY <2>1, <2>2, Z3
  <2>4. ReadSize * ((typed + 1) - 1) = r
    BY <2>1, <2>2
  <2>5. got <= ReadSize * typed' /\ got <= ReadSize * (typed' - 1) /\ shown.at <= ReadSize * (typed' - 1)
    BY <1>1, <2>1, <2>2, <2>3, <2>4
  <2>6. QED BY <1>1, <1>2, <2>1, <2>5 DEF OnePerLine
<1>4. QED BY <1>1, <1>2, <1>3 DEF CommandInv, CommandTypeOK, AddsUp, LastShown, FitsAt, AnswerOf

\* Read: what it shows up to the first zero is of one answer.
LEMMA AnswerRead ==
  ASSUME C!CommandAssumption, CommandInv, C!Read
  PROVE  CommandInv'
<1> USE DEF C!CommandAssumption
<1>1. /\ ccpc \in {"read", "last"} /\ ccpc' \in {"prompt", "closed"}
      /\ UNCHANGED <<typed, cup, cspc, text, unsent, ran>>
  BY DEF C!Read, C!AfterRead, C!serverVars
<1>2. PICK m \in 1..ReadSize :
        /\ m <= Len(cdown)
        /\ got' = got + m
        /\ shown' = [at |-> got, of |-> {cdown[i] : i \in {i \in 1..m : \A j \in 1..i : cdown[j] # 0}}]
        /\ cdown' = SubSeq(cdown, m + 1, Len(cdown))
  BY DEF C!Read
<1>3. PICK b, l \in Nat : b = Len(cdown) /\ l = Len(ran) /\ got + b <= AnswerSize * l /\ AnswerSize * l \in Nat
  BY CommandSums
<1>4. m \in Nat \ {0} /\ m <= ReadSize /\ m <= b /\ got \in Nat /\ typed \in Nat
  BY <1>2, <1>3 DEF CommandInv, CommandTypeOK
<1>5. /\ cdown' \in Seq(Nat) /\ Len(cdown') = b - m
      /\ \A j \in 1..b - m : cdown'[j] = cdown[m + j]
  <2>1. cdown \in Seq(Nat)
    BY DEF CommandInv, CommandTypeOK
  <2>2. cdown' = SubSeq(cdown, m + 1, b) /\ m + 1 \in Nat /\ m + 1 \in 1..b + 1
    BY <1>2, <1>3, <1>4
  <2>3. cdown' \in Seq(Nat)
    BY SMTT(30), <1>3, <2>1, <2>2
  <2>4. Len(cdown') = b - m
    BY SMTT(30), <1>3, <1>4, <2>1, <2>2
  <2>5. ASSUME NEW j \in 1..b - m PROVE cdown'[j] = cdown[m + j]
    <3>1. \A i \in m + 1..b : cdown[i] \in Nat
      BY <1>3, <1>4, <2>1
    <3>2. j \in 1..b - (m + 1) + 1 /\ (m + 1) + j - 1 = m + j
      BY <1>3, <1>4
    <3>3. QED BY <1>3, <2>2, <3>1, <3>2, SubSeqProperties
  <2>6. \A j \in 1..b - m : cdown'[j] = cdown[m + j]
    BY <2>5
  <2>7. QED BY <2>3, <2>4, <2>6
<1>6. CommandTypeOK'
  <2>1. got' \in Nat
    BY <1>2, <1>4
  <2>2. cdown' \in Seq(Nat)
    BY <1>5
  <2>3. QED BY <1>1, <2>1, <2>2 DEF CommandInv, CommandTypeOK
<1>7. AddsUp'
  <2>1. got' + Len(cdown') = got + Len(cdown)
    <3>1. got' = got + m /\ Len(cdown') = b - m /\ Len(cdown) = b
      BY <1>2, <1>3, <1>5
    <3>2. b \in Nat /\ m \in Nat /\ got \in Nat
      BY <1>4
    <3>3. QED BY <3>1, <3>2
  <2>2. QED BY <1>1, <2>1 DEF CommandInv, AddsUp
<1>8. LastShown'
  <2>1. shown'.at = got /\ got' = got + m /\ got \in Nat
    BY <1>2, <1>4
  <2>2. ASSUME NEW k \in shown'.of PROVE k = ran[AnswerOf(got + 1)]
    <3>1. PICK i \in 1..m : k = cdown[i] /\ \A j \in 1..i : cdown[j] # 0
      BY <1>2, <2>2
    <3>2. i \in Nat \ {0} /\ i \in 1..b /\ i \in 1..i
      BY <1>3, <1>4, <3>1
    <3>3. k = ran[AnswerOf(got + i)]
      BY <1>3, <3>1, <3>2 DEF CommandInv, FitsAt
    <3>4. AnswerOf(got + i) = AnswerOf(got + 1)
      <4>1. SUFFICES ASSUME AnswerOf(got + i) # AnswerOf(got + 1) PROVE FALSE
        OBVIOUS
      <4>2. got + 1 \in Nat \ {0} /\ got + i \in Nat /\ got + 1 <= got + i
        BY <1>4, <3>2
      <4>3. PICK e \in Nat : got + 1 <= e /\ e < got + i /\ \E z \in Nat : e = AnswerSize * z
        BY <4>1, <4>2, LastBetween
      <4>4. PICK j \in Nat : j = e - got /\ j \in 1..i /\ j \in 1..b /\ got + j = e
        BY <1>4, <3>2, <4>3
      <4>5. cdown[j] = 0
        BY <1>3, <4>3, <4>4 DEF CommandInv, FitsAt
      <4>6. QED BY <3>1, <4>4, <4>5
    <3>5. QED BY <3>3, <3>4
  <2>3. AnswerOf(got + 1)' = AnswerOf(got' + 1) /\ ran' = ran
    BY <1>1 DEF AnswerOf
  <2>4. AnswerOf(shown.at + 1)' = AnswerOf(got + 1)
    BY <2>1 DEF AnswerOf
  <2>5. QED BY <1>1, <1>4, <2>1, <2>2, <2>4 DEF LastShown
<1>9. OnePerLine'
  <2>1. typed > 0 /\ got <= ReadSize * (typed - 1)
    BY <1>1 DEF CommandInv, OnePerLine
  <2>2. PICK t \in Nat : t = typed - 1
    BY <1>4, <2>1
  <2>3. PICK r \in Nat : r = ReadSize * t
    OBVIOUS
  <2>4. ReadSize * (t + 1) = r + ReadSize /\ typed = t + 1
    BY <1>4, <2>2, <2>3, Z3
  <2>5. got' <= ReadSize * typed /\ shown'.at <= ReadSize * (typed - 1)
    BY <1>2, <1>4, <2>1, <2>2, <2>3, <2>4
  <2>6. QED BY <1>1, <2>5 DEF OnePerLine
<1>10. ASSUME NEW j \in 1..Len(cdown') PROVE FitsAt(got + j, cdown[j])'
  <2>1. m + j \in 1..b /\ j \in Nat
    BY <1>3, <1>4, <1>5
  <2>2. FitsAt(got + (m + j), cdown[m + j])
    BY <1>3, <2>1 DEF CommandInv
  <2>3. got' + j = got + (m + j) /\ cdown'[j] = cdown[m + j]
    BY <1>2, <1>4, <1>5, <2>1
  <2>4. QED BY <1>1, <2>2, <2>3 DEF FitsAt, AnswerOf
<1>11. QED BY <1>6, <1>7, <1>8, <1>9, <1>10 DEF CommandInv

\* Recv: another answer is due.
LEMMA CommandTaken ==
  ASSUME C!CommandAssumption, CommandInv, C!Recv
  PROVE  CommandInv'
<1> USE DEF C!CommandAssumption
<1>1. /\ cspc = "recv" /\ cup # <<>> /\ ran' = Append(ran, Head(cup)) /\ unsent' = AnswerSize /\ cspc' = "run"
      /\ UNCHANGED <<ccpc, typed, got, shown, cdown, text>>
  BY DEF C!Recv, C!clientVars
<1>2. PICK k \in 0..Len(cup) : cup' = SubSeq(cup, k + 1, Len(cup))
  BY DEF C!Recv
<1>3. cup' \in Seq(Nat) /\ Head(cup) \in Nat
  <2>1. cup \in Seq(Nat)
    BY DEF CommandInv, CommandTypeOK
  <2>2. QED BY SMTT(30), <1>1, <1>2, <2>1
<1>4. PICK b, l \in Nat : b = Len(cdown) /\ l = Len(ran) /\ got + b <= AnswerSize * l /\ AnswerSize * l \in Nat
  BY CommandSums
<1>5. ran' \in Seq(Nat) /\ Len(ran') = l + 1
  BY <1>1, <1>3, <1>4, AppendProperties DEF CommandInv, CommandTypeOK
<1>6. AnswerSize * (l + 1) = AnswerSize * l + AnswerSize
  BY Z3
<1>7. AddsUp'
  <2>1. got + b = AnswerSize * l /\ got \in Nat
    BY <1>1, <1>4 DEF CommandInv, AddsUp, CommandTypeOK
  <2>2. PICK w \in Nat : w = AnswerSize * l
    BY <1>4
  <2>3. AnswerSize * Len(ran') = w + AnswerSize /\ got' + Len(cdown') = w
    BY <1>1, <1>4, <1>5, <1>6, <2>1, <2>2
  <2>4. QED BY <1>1, <2>3 DEF AddsUp
<1>8. ASSUME NEW j \in 1..Len(cdown') PROVE FitsAt(got + j, cdown[j])'
  <2>1. j \in 1..b /\ got + j \in Nat \ {0} /\ got + j <= AnswerSize * l
    BY <1>1, <1>4 DEF CommandInv, CommandTypeOK
  <2>2. FitsAt(got + j, cdown[j])
    BY <1>4, <2>1 DEF CommandInv
  <2>3. FitsAt(got + j, cdown[j]) => FitsAt(got + j, cdown[j])'
    <3>2. ran \in Seq(Nat)
      BY DEF CommandInv, CommandTypeOK
    <3>3. PICK n \in Nat \ {0}, u \in {cdown[j]} : n = got + j
      BY <2>1
    <3>4. FitsAt(n, u) => FitsAt(n, u)'
      BY <1>1, <1>3, <1>4, <2>1, <3>2, <3>3, FitsLater
    <3>5. QED BY <1>1, <3>3, <3>4 DEF FitsAt, AnswerOf
  <2>4. QED BY <2>2, <2>3
<1>9. LastShown'
  <2>1. shown' = shown /\ got' = got /\ shown.at \in Nat /\ shown.at <= got /\ got \in Nat
    BY <1>1 DEF CommandInv, LastShown, CommandTypeOK
  <2>2. ASSUME NEW s \in shown.of PROVE shown.at < got /\ s = ran'[AnswerOf(shown.at + 1)]
    <3>1. shown.at < got /\ s = ran[AnswerOf(shown.at + 1)]
      BY <2>2 DEF CommandInv, LastShown
    <3>2. shown.at + 1 \in Nat \ {0} /\ shown.at + 1 <= AnswerSize * l
      BY <1>4, <2>1, <3>1
    <3>3. AnswerOf(shown.at + 1) \in 1..l
      BY <3>2, AnswerOfIs
    <3>4. ran'[AnswerOf(shown.at + 1)] = ran[AnswerOf(shown.at + 1)]
      BY <1>1, <1>3, <1>4, <3>3, AppendProperties DEF CommandInv, CommandTypeOK
    <3>5. QED BY <3>1, <3>4
  <2>3. AnswerOf(shown.at + 1)' = AnswerOf(shown.at + 1)
    BY <2>1 DEF AnswerOf
  <2>4. shown'.of = shown.of /\ shown'.at = shown.at
    BY <2>1
  <2>5. \A s \in shown'.of : shown'.at < got' /\ s = ran'[AnswerOf(shown.at + 1)']
    BY <2>1, <2>2, <2>3, <2>4
  <2>6. shown'.at \in Nat /\ shown'.at <= got'
    BY <2>1, <2>4
  <2>7. QED BY <2>5, <2>6 DEF LastShown
<1>10. CommandTypeOK'
  BY <1>1, <1>3, <1>5 DEF CommandInv, CommandTypeOK
<1>11. OnePerLine'
  BY <1>1 DEF CommandInv, OnePerLine
<1>12. QED BY <1>7, <1>8, <1>9, <1>10, <1>11 DEF CommandInv

\* Run: nothing is added to the stream; a server that dies may cut it short.
LEMMA CommandRun ==
  ASSUME C!CommandAssumption, CommandInv, C!Run
  PROVE  CommandInv'
<1> USE DEF C!CommandAssumption
<1>1. cspc = "run" /\ UNCHANGED <<ccpc, typed, got, shown, cup, unsent, ran>> /\ unsent = AnswerSize
  BY DEF C!Run, C!clientVars, CommandInv, CommandTypeOK
<1>2. CASE /\ cdown' = cdown
           /\ \/ text' \in 0..AnswerSize - 1 /\ cspc' = "send"
              \/ text' = text /\ cspc' = "hung"
  <2>1. CommandTypeOK'
    BY <1>1, <1>2 DEF CommandInv, CommandTypeOK
  <2>2. got + Len(cdown) + unsent = AnswerSize * Len(ran) /\ got + Len(cdown) <= AnswerSize * Len(ran)
    BY <1>1 DEF CommandInv, AddsUp
  <2>3. cdown' = cdown /\ got' = got /\ unsent' = unsent /\ ran' = ran /\ cspc' \in {"send", "hung"}
    BY <1>1, <1>2
  <2>4. AddsUp'
    BY <2>2, <2>3 DEF AddsUp
  <2>5. LastShown' /\ OnePerLine'
    BY <1>1 DEF CommandInv, LastShown, OnePerLine, AnswerOf
  <2>6. ASSUME NEW j \in 1..Len(cdown') PROVE FitsAt(got + j, cdown[j])'
    <3>1. j \in 1..Len(cdown)
      BY <2>3
    <3>2. FitsAt(got + j, cdown[j])
      BY <3>1 DEF CommandInv
    <3>3. QED BY <2>3, <3>2 DEF FitsAt, AnswerOf
  <2>7. QED BY <2>1, <2>4, <2>5, <2>6 DEF CommandInv
<1>4. ASSUME cspc' = "exited", text' = text, NEW n \in 0..Len(cdown), cdown' = SubSeq(cdown, 1, n)
      PROVE  CommandInv'
  <2>1. PICK b, l \in Nat : b = Len(cdown) /\ l = Len(ran) /\ got + b <= AnswerSize * l /\ AnswerSize * l \in Nat
    BY CommandSums
  <2>2. cdown \in Seq(Nat) /\ got \in Nat
    BY DEF CommandInv, CommandTypeOK
  <2>3. cdown' \in Seq(Nat) /\ Len(cdown') = n /\ n <= b /\ n \in Nat /\ \A j \in 1..n : cdown'[j] = cdown[j]
    BY <1>4, <2>1, <2>2
  <2>4. CommandTypeOK'
    BY <1>1, <1>4, <2>3 DEF CommandInv, CommandTypeOK
  <2>5. AddsUp'
    BY <1>1, <1>4, <2>1, <2>2, <2>3 DEF AddsUp
  <2>6. ASSUME NEW j \in 1..Len(cdown') PROVE FitsAt(got + j, cdown[j])'
    <3>1. j \in 1..Len(cdown) /\ cdown'[j] = cdown[j]
      BY <2>1, <2>3
    <3>2. FitsAt(got + j, cdown[j])
      BY <3>1 DEF CommandInv
    <3>3. QED BY <1>1, <3>1, <3>2 DEF FitsAt, AnswerOf
  <2>7. LastShown' /\ OnePerLine'
    BY <1>1 DEF CommandInv, LastShown, OnePerLine, AnswerOf
  <2>8. QED BY <2>4, <2>5, <2>6, <2>7 DEF CommandInv
<1>5. QED BY <1>2, <1>4 DEF C!Run

\* Send: the unit sent is the next of the last answer.
LEMMA AnswerSent ==
  ASSUME C!CommandAssumption, CommandInv, C!Send
  PROVE  CommandInv'
<1> USE DEF C!CommandAssumption
<1> DEFINE u == IF AnswerSize - unsent < text THEN C!Last(ran) ELSE 0
<1>1. /\ cspc = "send" /\ cdown' = Append(cdown, u) /\ unsent' = unsent - 1
      /\ cspc' = IF unsent' = 0 THEN "recv" ELSE "send"
      /\ UNCHANGED <<ccpc, typed, got, shown, cup, text, ran>>
  BY DEF C!Send, C!clientVars
<1>2. PICK b, l \in Nat : b = Len(cdown) /\ l = Len(ran) /\ got + b <= AnswerSize * l /\ AnswerSize * l \in Nat
  BY CommandSums
<1>3. PICK p \in Nat : p = got + b + 1
  BY <1>2 DEF CommandInv, CommandTypeOK
<1>4. /\ got \in Nat /\ unsent \in Nat /\ unsent > 0 /\ unsent <= AnswerSize /\ text \in Nat /\ text < AnswerSize
      /\ got + b + unsent = AnswerSize * l
  BY <1>1, <1>2 DEF CommandInv, CommandTypeOK, AddsUp
<1>5. p > 0 /\ p <= AnswerSize * l /\ p > AnswerSize * l - AnswerSize /\ p + unsent = AnswerSize * l + 1
  BY <1>2, <1>3, <1>4
<1>6. AnswerOf(p) = l /\ l > 0
  <2>1. AnswerOf(p) \in 1..l /\ AnswerOf(p) = l
    BY <1>5, AnswerOfIs
  <2>2. QED BY <2>1
<1>7. C!Last(ran) = ran[l] /\ ran[l] \in Nat
  BY <1>2, <1>6 DEF C!Last, CommandInv, CommandTypeOK
<1>8. u \in Nat
  BY <1>7
<1>9. FitsAt(p, u)
  <2>1. u # 0 => u = ran[AnswerOf(p)]
    BY <1>6, <1>7
  <2>2. ASSUME NEW k \in Nat, p = AnswerSize * k PROVE u = 0
    <3>1. AnswerSize * k <= AnswerSize * l /\ AnswerSize * k > AnswerSize * l - AnswerSize
      BY <1>5, <2>2
    <3>2. k = l
      <4>1. CASE k >= l + 1
        <5>1. AnswerSize * k >= AnswerSize * (l + 1) /\ AnswerSize * (l + 1) = AnswerSize * l + AnswerSize
          BY <4>1, Z3
        <5>2. AnswerSize * k \in Int
          OBVIOUS
        <5>3. QED BY <1>2, <3>1, <5>1, <5>2
      <4>2. CASE k <= l - 1
        <5>1. AnswerSize * k <= AnswerSize * (l - 1) /\ AnswerSize * (l - 1) = AnswerSize * l - AnswerSize
          BY <4>2, Z3
        <5>2. AnswerSize * k \in Int
          OBVIOUS
        <5>3. QED BY <1>2, <3>1, <5>1, <5>2
      <4>3. QED BY <4>1, <4>2
    <3>3. unsent = 1
      BY <1>2, <1>4, <1>5, <2>2, <3>2
    <3>4. ~(AnswerSize - unsent < text)
      BY <1>4, <3>3
    <3>5. QED BY <3>4
  <2>3. QED BY <2>1, <2>2 DEF FitsAt
<1> HIDE DEF u
<1>10. /\ cdown' \in Seq(Nat) /\ Len(cdown') = b + 1 /\ cdown'[b + 1] = u
       /\ \A j \in 1..b : cdown'[j] = cdown[j]
  BY <1>1, <1>2, <1>8, AppendProperties DEF CommandInv, CommandTypeOK
<1>11. ASSUME NEW j \in 1..Len(cdown') PROVE FitsAt(got + j, cdown[j])'
  <2>1. CASE j = b + 1
    <3>1. got + j = p /\ cdown'[j] = u
      BY <1>2, <1>3, <1>4, <1>10, <2>1
    <3>2. QED BY <1>1, <1>9, <3>1 DEF FitsAt, AnswerOf
  <2>2. CASE j # b + 1
    <3>1. j \in 1..Len(cdown) /\ cdown'[j] = cdown[j]
      BY <1>2, <1>10, <2>2
    <3>2. FitsAt(got + j, cdown[j])
      BY <3>1 DEF CommandInv
    <3>3. QED BY <1>1, <3>1, <3>2 DEF FitsAt, AnswerOf
  <2>3. QED BY <2>1, <2>2
<1>12. unsent' \in Nat /\ unsent' <= AnswerSize /\ cspc' \in {"recv", "send"} /\ (cspc' = "send" => unsent' > 0)
       /\ (cspc' = "recv" => unsent' = 0)
  BY <1>1, <1>4
<1>13. AddsUp'
  <2>1. got' + Len(cdown') + unsent' = AnswerSize * Len(ran')
    BY <1>1, <1>2, <1>4, <1>10
  <2>2. got' \in Nat /\ Len(cdown') \in Nat
    BY <1>1, <1>2, <1>4, <1>10
  <2>3. got' + Len(cdown') <= AnswerSize * Len(ran')
    BY <1>12, <2>1, <2>2
  <2>4. QED BY <1>12, <2>1, <2>2, <2>3 DEF AddsUp
<1>14. CommandTypeOK'
  BY <1>1, <1>10, <1>12 DEF CommandInv, CommandTypeOK
<1>15. LastShown' /\ OnePerLine'
  BY <1>1 DEF CommandInv, LastShown, OnePerLine, AnswerOf
<1>16. QED BY <1>11, <1>13, <1>14, <1>15 DEF CommandInv

\* Every step keeps it.
LEMMA CommandStep ==
  ASSUME C!CommandAssumption, CommandInv, C!Next \/ UNCHANGED C!vars
  PROVE  CommandInv'
<1>1. CASE C!Write
  <2>1. /\ ccpc = "write" /\ ccpc' \in {"read", "last", "closed"}
        /\ cup' = Append(cup, typed) \/ cup' = cup
        /\ UNCHANGED <<typed, got, shown, cdown, cspc, text, unsent, ran>>
    BY <1>1 DEF C!Write, C!serverVars
  <2>2. cup' \in Seq(Nat)
    <3>1. cup \in Seq(Nat) /\ typed \in Nat
      BY DEF CommandInv, CommandTypeOK
    <3>2. Append(cup, typed) \in Seq(Nat)
      BY <3>1, AppendProperties
    <3>3. QED BY <2>1, <3>1, <3>2
  <2>3. OnePerLine'
    BY <2>1 DEF CommandInv, OnePerLine
  <2>4. QED BY <2>1, <2>2, <2>3 DEF CommandInv, CommandTypeOK, AddsUp, LastShown, FitsAt, AnswerOf
<1>2. CASE C!ReadNothing
  <2>1. /\ ccpc \in {"read", "last"} /\ ccpc' \in {"prompt", "closed"} /\ shown' = [at |-> got, of |-> {}]
        /\ UNCHANGED <<typed, got, cup, cdown, cspc, text, unsent, ran>>
    BY <1>2 DEF C!ReadNothing, C!AfterRead, C!serverVars
  <2>2. OnePerLine' /\ LastShown'
    BY <2>1 DEF CommandInv, OnePerLine, LastShown, CommandTypeOK
  <2>3. QED BY <2>1, <2>2 DEF CommandInv, CommandTypeOK, AddsUp, FitsAt, AnswerOf
<1>3. CASE C!Interrupt
  BY <1>3 DEF CommandInv, CommandTypeOK, AddsUp, LastShown, OnePerLine, FitsAt, AnswerOf, C!Interrupt, C!serverVars
<1>4. CASE C!ClientGone
  BY <1>4 DEF CommandInv, CommandTypeOK, AddsUp, LastShown, OnePerLine, FitsAt, AnswerOf, C!ClientGone, C!clientVars
<1>5. CASE UNCHANGED C!vars
  BY <1>5 DEF CommandInv, CommandTypeOK, AddsUp, LastShown, OnePerLine, FitsAt, AnswerOf,
              C!vars, C!clientVars, C!serverVars
<1>6. QED BY <1>1, <1>2, <1>3, <1>4, <1>5, LineTyped, AnswerRead, CommandTaken, CommandRun, AnswerSent
          DEF C!Next, C!Client, C!Server

\* Nothing is shown in the beginning.
LEMMA CommandStart == ASSUME C!Init PROVE CommandInv
<1>1. AnswerSize * 0 = 0 /\ ReadSize * 0 = 0 /\ AnswerSize \in Nat /\ 0 \in 0..AnswerSize - 1 /\ 0 \in 0..AnswerSize
  BY HomeworkAssumption DEF C!CommandAssumption
<1>2. <<>> \in Seq(Nat) /\ Len(<<>>) = 0
  OBVIOUS
<1>3. QED BY <1>1, <1>2 DEF C!Init, C!ClientInit, C!ServerInit, CommandInv, CommandTypeOK, AddsUp, LastShown,
                            OnePerLine, FitsAt

\* The invariant says whose output was shown, and where it began.
LEMMA CommandShows == ASSUME CommandInv PROVE C!ShownLate
<1>1. shown.at \in Nat /\ \A k \in shown.of : k = ran[AnswerOf(shown.at + 1)]
  BY DEF CommandInv, LastShown
<1>2. AnswerOf(shown.at + 1) = (shown.at \div AnswerSize) + 1
  <2>1. (shown.at + 1) - 1 = shown.at
    BY <1>1
  <2>2. QED BY <2>1 DEF AnswerOf
<1>3. QED BY <1>1, <1>2 DEF CommandInv, OnePerLine, C!ShownLate

\* Whatever the user types, however recv() cuts and merges the commands, the
\* connection the answers and however slow either end is: a read() shows output
\* of the one answer it begins in, and after n commands the last one began
\* ReadSize * (n - 1) units into answers of AnswerSize at most (the half of
\* AnswersKnown that is about Homework 2).
THEOREM AnswersFallBehind == C!Spec => []C!ShownLate
<1>1. CommandInv /\ [C!Next]_(C!vars) => CommandInv'
  BY CommandStep, HomeworkAssumption
<1>2. QED BY <1>1, CommandStart, CommandShows, PTL DEF C!Spec

-----------------------------------------------------------------------------
(* Homework 4. *)

\* A line is a client's, with a number and a kind; a request is a line, and a
\* reply is a line and whom it goes to.
Line == DateClients \X Nat \X U!Kinds
Answer == [to : DateClients, line : Line \cup {U!Foreign(c).line : c \in DateClients}]

\* What the client waits for: the answer to its last request.
Wanted(c) == <<c, req[c], kind[c]>>
Right(c) == [to |-> c, line |-> Wanted(c)]

\* The client may have a request out.
Waits(c) == ucpc[c] # "prompt"

\* The server has received a request and answers to this client next.
Serves(c) == uspc = "send" /\ cli_addr = c

\* Types; a bag has a positive number of each of its members.
DateTypeOK ==
  /\ ucpc \in [DateClients -> {"prompt", "wait", "last", "closed"}]
  /\ req \in [DateClients -> Nat] /\ kind \in [DateClients -> U!Kinds]
  /\ took \in [DateClients -> {"right", "late", "another's", "foreign"}]
  /\ muddled \in [DateClients -> BOOLEAN]
  /\ DOMAIN requests \subseteq Line /\ requests \in [DOMAIN requests -> Nat \ {0}]
  /\ DOMAIN replies \subseteq Answer /\ replies \in [DOMAIN replies -> Nat \ {0}]
  /\ uspc \in {"start", "recv", "send", "hung", "failed"}
  /\ uspc = "send" => cli_addr \in DateClients /\ rcvBuf \in Line

\* What goes to a client answers a line of its own, or is foreign: the address
\* and the buffer of the server belong together.
OwnOnly ==
  /\ \A r \in DOMAIN replies : r.line[1] = r.to
  /\ uspc = "send" => rcvBuf[1] = cli_addr
  /\ \A c \in DateClients : took[c] # "another's"

\* Of a client whose datagrams were not duplicated, and that has taken none of
\* a stranger, there is one datagram between it and the server at most: on its
\* way to the server, in its buffer or on the way back; it is the last request
\* or its answer, and the client has not gone on since.
OneOut(c) ==
  /\ \A d \in DOMAIN requests : d[1] = c => d = Wanted(c) /\ requests[d] = 1 /\ Waits(c)
  /\ \A r \in DOMAIN replies :
       r.to = c => r = U!Foreign(c) \/ (r = Right(c) /\ replies[r] = 1 /\ Waits(c))
  /\ Serves(c) => rcvBuf = Wanted(c) /\ Waits(c)
  /\ ~(Wanted(c) \in DOMAIN requests /\ Right(c) \in DOMAIN replies)
  /\ ~(Wanted(c) \in DOMAIN requests /\ Serves(c))
  /\ ~(Right(c) \in DOMAIN replies /\ Serves(c))
  /\ took[c] = "right"

\* The inductive invariant.
DateInv == DateTypeOK /\ OwnOnly /\ \A c \in DateClients : muddled[c] \/ OneOut(c)

\* What a client waits for is its own, and a stranger's datagram is not it.
LEMMA WantedParts ==
  ASSUME DateTypeOK, NEW c \in DateClients
  PROVE  /\ Wanted(c)[1] = c /\ Wanted(c) \in Line /\ Right(c).to = c /\ Right(c).line = Wanted(c)
         /\ Right(c) \in Answer /\ Right(c) # U!Foreign(c)
<1>1. Wanted(c)[1] = c /\ Wanted(c) \in Line /\ Right(c).to = c /\ Right(c).line = Wanted(c)
  BY DEF DateTypeOK, Wanted, Line, Right
<1>2. Wanted(c)[3] \in U!Kinds /\ U!Foreign(c).line[3] = "foreign"
  BY DEF Wanted, DateTypeOK, U!Foreign
<1>3. Right(c) # U!Foreign(c)
  <2>1. Right(c).line # U!Foreign(c).line
    BY <1>1, <1>2 DEF U!Kinds
  <2>2. QED BY <2>1
<1>4. QED BY <1>1, <1>3 DEF Answer, Right

\* A stranger's datagram is to the client, names it and is an answer by type.
LEMMA ForeignParts ==
  ASSUME NEW c \in DateClients
  PROVE  U!Foreign(c).to = c /\ U!Foreign(c).line[1] = c /\ U!Foreign(c) \in Answer
         /\ U!Foreign(c).line[3] = "foreign"
BY DEF U!Foreign, Answer

\* What is taken from a bag: one datagram, and the others stay.
LEMMA BagRemoveIs ==
  ASSUME NEW B, B \in [DOMAIN B -> Nat \ {0}], NEW x \in DOMAIN B
  PROVE  /\ DOMAIN U!BagRemove(B, x) \subseteq DOMAIN B
         /\ U!BagRemove(B, x) \in [DOMAIN U!BagRemove(B, x) -> Nat \ {0}]
         /\ \A d \in DOMAIN U!BagRemove(B, x) : U!BagRemove(B, x)[d] <= B[d]
         /\ \A d \in DOMAIN U!BagRemove(B, x) : d # x => U!BagRemove(B, x)[d] = B[d]
         /\ B[x] = 1 => x \notin DOMAIN U!BagRemove(B, x)
BY DEF U!BagRemove

\* SendRequest: no datagram of the client was about, and now there is one, or
\* it was duplicated.
LEMMA SendRequestStep ==
  ASSUME HomeworkAssumption, DateInv, NEW c \in DateClients, U!SendRequest(c)
  PROVE  DateInv'
<1>1. /\ ucpc[c] = "prompt" /\ req' = [req EXCEPT ![c] = @ + 1]
      /\ UNCHANGED <<server, took, replies, uspc, rcvBuf, cli_addr>>
  BY DEF U!SendRequest, U!serverVars
<1>2. PICK next \in {"wait", "last"} : ucpc' = [ucpc EXCEPT ![c] = next]
  BY DEF U!SendRequest
<1>31. PICK k \in LinesOf[c], n \in 1..CopiesOf[c] :
        /\ kind' = [kind EXCEPT ![c] = k]
        /\ \/ /\ server[c]
              /\ requests' = U!(+)(requests, [d \in {<<c, req'[c], k>>} |-> n])
              /\ muddled' = [muddled EXCEPT ![c] = @ \/ n > 1]
           \/ /\ ~server[c]
              /\ UNCHANGED <<requests, muddled>>
  BY DEF U!SendRequest
<1>32. k \in U!Kinds /\ n \in Nat \ {0}
  BY DEF U!DateAssumption, LinesOf, U!Kinds
<1>3. /\ k \in U!Kinds /\ n \in Nat \ {0}
      /\ kind' = [kind EXCEPT ![c] = k]
      /\ \/ /\ requests' = U!(+)(requests, [d \in {<<c, req'[c], k>>} |-> n])
            /\ muddled' = [muddled EXCEPT ![c] = @ \/ n > 1]
         \/ UNCHANGED <<requests, muddled>>
  BY <1>31, <1>32
<1> DEFINE x == <<c, req'[c], k>>
<1>4. req'[c] \in Nat /\ x \in Line /\ x[1] = c /\ x = Wanted(c)' /\ Waits(c)'
  BY <1>1, <1>2, <1>3 DEF DateInv, DateTypeOK, Line, Wanted, Waits
<1>5. /\ DOMAIN requests' \subseteq DOMAIN requests \cup {x} /\ requests' \in [DOMAIN requests' -> Nat \ {0}]
      /\ \A d \in DOMAIN requests' : d \in DOMAIN requests /\ d # x => requests'[d] = requests[d]
      /\ \A d \in DOMAIN requests' : d # x => d \in DOMAIN requests
      /\ x \notin DOMAIN requests /\ x \in DOMAIN requests' => requests'[x] = n
  <2>1. requests \in [DOMAIN requests -> Nat \ {0}]
    BY DEF DateInv, DateTypeOK
  <2>2. CASE requests' = U!(+)(requests, [d \in {x} |-> n])
    <3>1. DOMAIN requests' = DOMAIN requests \cup {x} /\ requests' \in [DOMAIN requests' -> Nat \ {0}]
          /\ (\A d \in DOMAIN requests : d # x => requests'[d] = requests[d])
          /\ (x \notin DOMAIN requests => requests'[x] = n)
      <4> HIDE DEF x
      <4>1. QED BY <1>3, <2>1, <2>2 DEF U!(+)
    <3> HIDE DEF x
    <3>2. QED BY <3>1
  <2>3. CASE UNCHANGED requests
    BY <2>1, <2>3
  <2>4. QED BY <1>3, <2>2, <2>3
<1>6. Right(c)' = [to |-> c, line |-> x]
  BY <1>4 DEF Right
<1>7. DateTypeOK'
  <2>1. muddled' \in [DateClients -> BOOLEAN]
    BY <1>3 DEF DateInv, DateTypeOK
  <2>2. ucpc' \in [DateClients -> {"prompt", "wait", "last", "closed"}] /\ kind' \in [DateClients -> U!Kinds]
        /\ req' \in [DateClients -> Nat]
    BY <1>1, <1>2, <1>3 DEF DateInv, DateTypeOK
  <2> HIDE DEF x
  <2>3. DOMAIN requests' \subseteq Line /\ requests' \in [DOMAIN requests' -> Nat \ {0}]
    BY <1>4, <1>5 DEF DateInv, DateTypeOK
  <2>4. QED BY <1>1, <2>1, <2>2, <2>3 DEF DateInv, DateTypeOK
<1>8. OwnOnly'
  BY <1>1 DEF DateInv, OwnOnly
<1> HIDE DEF x
<1>9. ASSUME NEW e \in DateClients, e # c, ~muddled'[e] PROVE OneOut(e)'
  <2>1. ~muddled[e] /\ OneOut(e)
    BY <1>3, <1>9 DEF DateInv, DateTypeOK
  <2>2. Wanted(e)' = Wanted(e) /\ Waits(e)' = Waits(e) /\ Serves(e)' = Serves(e) /\ Right(e)' = Right(e)
    BY <1>1, <1>2, <1>3, <1>9 DEF DateInv, DateTypeOK, Wanted, Waits, Serves, Right
  <2>3. Wanted(e) # x
    BY <1>4, <1>9 DEF Wanted
  <2>4. \A d \in DOMAIN requests' : d[1] = e => d \in DOMAIN requests /\ requests'[d] = requests[d]
    BY <1>4, <1>5, <1>9
  <2>5. Wanted(e) \in DOMAIN requests' => Wanted(e) \in DOMAIN requests
    BY <1>5, <2>3
  <2>6. QED BY <1>1, <2>1, <2>2, <2>4, <2>5 DEF OneOut
<1>10. ASSUME ~muddled'[c] PROVE OneOut(c)'
  <2>1. ~muddled[c] /\ OneOut(c) /\ (requests' = requests \/ n = 1)
    <3>1. muddled'[c] = (muddled[c] \/ n > 1) \/ (muddled' = muddled /\ requests' = requests)
      BY <1>3 DEF DateInv, DateTypeOK
    <3>2. ~muddled[c] /\ (~(n > 1) \/ requests' = requests)
      BY <1>10, <3>1
    <3>3. n = 1 \/ requests' = requests
      BY <1>3, <3>2
    <3>4. QED BY <3>2, <3>3 DEF DateInv
  <2>2. /\ \A d \in DOMAIN requests : d[1] # c
        /\ \A r \in DOMAIN replies : r.to = c => r = U!Foreign(c)
        /\ ~Serves(c)
    BY <1>1, <2>1 DEF OneOut, Waits
  <2>3. x \notin DOMAIN requests /\ Right(c)' \notin DOMAIN replies
    <3>1. x \notin DOMAIN requests
      BY <1>4, <2>2
    <3>2. Right(c)'.to = c /\ Right(c)' # U!Foreign(c)
      <4>1. Right(c)'.line[3] \in U!Kinds /\ U!Foreign(c).line[3] = "foreign"
        BY <1>3, <1>6 DEF x, U!Foreign
      <4>2. QED BY <1>6, <4>1 DEF U!Kinds
    <3>3. QED BY <2>2, <3>1, <3>2
  <2>4. ~Serves(c)'
    BY <1>1, <2>2 DEF Serves
  <2>5. \A d \in DOMAIN requests' : d[1] = c => d = x /\ requests'[d] = 1
    <3> SUFFICES ASSUME NEW d \in DOMAIN requests', d[1] = c PROVE d = x /\ requests'[d] = 1
      OBVIOUS
    <3>1. d = x
      BY <1>5, <2>2
    <3>2. QED BY <1>5, <2>1, <2>3, <3>1
  <2>6. took'[c] = "right"
    BY <1>1, <2>1 DEF OneOut
  <2>7. QED BY <1>1, <1>4, <2>2, <2>3, <2>4, <2>5, <2>6 DEF OneOut
<1>11. QED BY <1>7, <1>8, <1>9, <1>10 DEF DateInv

\* ReceiveReply: the one datagram of the client is the answer it waits for,
\* unless it is a stranger's.
LEMMA ReceiveReplyStep ==
  ASSUME DateInv, NEW c \in DateClients, U!ReceiveReply(c)
  PROVE  DateInv'
<1>1. /\ ucpc' = [ucpc EXCEPT ![c] = IF @ = "wait" THEN "prompt" ELSE "closed"]
      /\ UNCHANGED <<req, kind, requests, uspc, rcvBuf, cli_addr>>
  BY DEF U!ReceiveReply, U!serverVars
<1>2. PICK r \in DOMAIN replies :
        /\ r.to = c /\ replies' = U!BagRemove(replies, r)
        /\ took' = [took EXCEPT ![c] = U!Verdict(c, r.line)]
        /\ muddled' = [muddled EXCEPT ![c] = @ \/ r = U!Foreign(c)]
  BY DEF U!ReceiveReply, U!BagToSet
<1>3. /\ DOMAIN replies' \subseteq DOMAIN replies
      /\ replies' \in [DOMAIN replies' -> Nat \ {0}]
      /\ \A d \in DOMAIN replies' : d # r => replies'[d] = replies[d]
      /\ replies[r] = 1 => r \notin DOMAIN replies'
  BY <1>2, BagRemoveIs DEF DateInv, DateTypeOK
<1>4. /\ U!Verdict(c, r.line) \in {"right", "late", "foreign"}
      /\ r.line = Wanted(c) => U!Verdict(c, r.line) = "right"
  <2>1. r.line[1] = c
    BY <1>2 DEF DateInv, OwnOnly
  <2>2. r.line = Wanted(c) => r.line[3] # "foreign"
    BY DEF DateInv, DateTypeOK, Wanted, U!Kinds
  <2>3. QED BY <2>1, <2>2 DEF U!Verdict, Wanted
<1>5. DateTypeOK'
  <2>1. took' \in [DateClients -> {"right", "late", "another's", "foreign"}]
    BY <1>2, <1>4 DEF DateInv, DateTypeOK
  <2>2. ucpc' \in [DateClients -> {"prompt", "wait", "last", "closed"}]
    BY <1>1 DEF DateInv, DateTypeOK
  <2>3. muddled' \in [DateClients -> BOOLEAN]
    BY <1>2 DEF DateInv, DateTypeOK
  <2>4. QED BY <1>1, <1>3, <2>1, <2>2, <2>3 DEF DateInv, DateTypeOK
<1>6. OwnOnly'
  <2>1. \A e \in DateClients : took'[e] # "another's"
    BY <1>2, <1>4 DEF DateInv, DateTypeOK, OwnOnly
  <2>2. QED BY <1>1, <1>3, <2>1 DEF DateInv, OwnOnly
<1>7. ASSUME NEW e \in DateClients, e # c, ~muddled'[e] PROVE OneOut(e)'
  <2>1. ~muddled[e] /\ OneOut(e)
    BY <1>2, <1>7 DEF DateInv, DateTypeOK
  <2>2. /\ Wanted(e)' = Wanted(e) /\ Waits(e)' = Waits(e) /\ Serves(e)' = Serves(e) /\ Right(e)' = Right(e)
        /\ took'[e] = took[e]
    BY <1>1, <1>2, <1>7 DEF DateInv, DateTypeOK, Wanted, Waits, Serves, Right
  <2>3. \A d \in DOMAIN replies' : d.to = e => replies'[d] = replies[d]
    BY <1>2, <1>3, <1>7
  <2>4. QED BY <1>1, <1>3, <2>1, <2>2, <2>3 DEF OneOut
<1>8. ASSUME ~muddled'[c] PROVE OneOut(c)'
  <2>1. ~muddled[c] /\ OneOut(c) /\ r # U!Foreign(c)
    <3>1. muddled'[c] = (muddled[c] \/ r = U!Foreign(c))
      BY <1>2 DEF DateInv, DateTypeOK
    <3>2. QED BY <1>8, <3>1 DEF DateInv
  <2>2. r = Right(c) /\ replies[r] = 1
    BY <1>2, <2>1 DEF OneOut
  <2>3. took'[c] = "right"
    <3>1. r.line = Wanted(c)
      BY <2>2 DEF Right
    <3>2. QED BY <1>2, <1>4, <3>1 DEF DateInv, DateTypeOK
  <2>4. Wanted(c)' = Wanted(c) /\ Serves(c)' = Serves(c) /\ Right(c)' = Right(c)
    BY <1>1 DEF Wanted, Serves, Right
  <2>5. \A d \in DOMAIN replies' : d.to = c => d = U!Foreign(c)
    BY <1>3, <2>1, <2>2 DEF OneOut
  <2>6. Right(c) \in DOMAIN replies /\ Right(c) \notin DOMAIN replies'
    BY <1>3, <2>2
  <2>7. Wanted(c) \notin DOMAIN requests /\ ~Serves(c)
    BY <2>1, <2>6 DEF OneOut
  <2>8. \A d \in DOMAIN requests : d[1] # c
    BY <2>1, <2>7 DEF OneOut
  <2>9. QED BY <1>1, <2>3, <2>4, <2>5, <2>6, <2>7, <2>8 DEF OneOut
<1>9. QED BY <1>5, <1>6, <1>7, <1>8 DEF DateInv

\* ReceiveFails: the client is no longer there; what waits for it is.
LEMMA ReceiveFailsStep ==
  ASSUME DateInv, NEW c \in DateClients, U!ReceiveFails(c)
  PROVE  DateInv'
<1>1. /\ ucpc[c] \in {"wait", "last"} /\ ucpc' = [ucpc EXCEPT ![c] = "closed"]
      /\ UNCHANGED <<req, kind, took, muddled, requests, replies, uspc, rcvBuf, cli_addr>>
  BY DEF U!ReceiveFails, U!serverVars
<1>2. DateTypeOK' /\ OwnOnly'
  BY <1>1 DEF DateInv, DateTypeOK, OwnOnly
<1>3. ASSUME NEW e \in DateClients, OneOut(e) PROVE OneOut(e)'
  <2>1. Wanted(e)' = Wanted(e) /\ Serves(e)' = Serves(e) /\ Right(e)' = Right(e)
    BY <1>1 DEF Wanted, Serves, Right
  <2>2. Waits(e) => Waits(e)'
    BY <1>1 DEF DateInv, DateTypeOK, Waits
  <2>3. QED BY <1>1, <1>3, <2>1, <2>2 DEF OneOut
<1>4. QED BY <1>1, <1>2, <1>3 DEF DateInv

\* Fewer datagrams.
LEMMA LoseStep ==
  ASSUME DateInv,
         UNCHANGED <<ucpc, req, kind, took, muddled, uspc, rcvBuf, cli_addr>>,
         DOMAIN requests' \subseteq DOMAIN requests, requests' \in [DOMAIN requests' -> Nat \ {0}],
         DOMAIN replies' \subseteq DOMAIN replies, replies' \in [DOMAIN replies' -> Nat \ {0}],
         \A d \in DOMAIN requests' : requests'[d] <= requests[d],
         \A r \in DOMAIN replies' : replies'[r] <= replies[r]
  PROVE  DateInv'
<1>1. DateTypeOK'
  BY DEF DateInv, DateTypeOK
<1>2. OwnOnly'
  BY DEF DateInv, OwnOnly
<1>3. ASSUME NEW e \in DateClients, OneOut(e) PROVE OneOut(e)'
  <2>1. Wanted(e)' = Wanted(e) /\ Waits(e)' = Waits(e) /\ Serves(e)' = Serves(e) /\ Right(e)' = Right(e)
    BY DEF Wanted, Waits, Serves, Right
  <2>2. \A d \in DOMAIN requests' : d[1] = e => d = Wanted(e) /\ requests'[d] = 1 /\ Waits(e)
    <3> SUFFICES ASSUME NEW d \in DOMAIN requests', d[1] = e
                 PROVE  d = Wanted(e) /\ requests'[d] = 1 /\ Waits(e)
      OBVIOUS
    <3>1. d = Wanted(e) /\ requests[d] = 1 /\ Waits(e)
      BY <1>3 DEF OneOut
    <3>2. requests'[d] \in Nat \ {0} /\ requests'[d] <= 1
      BY <3>1
    <3>3. QED BY <3>1, <3>2
  <2>3. \A r \in DOMAIN replies' :
          r.to = e => r = U!Foreign(e) \/ (r = Right(e) /\ replies'[r] = 1 /\ Waits(e))
    <3> SUFFICES ASSUME NEW r \in DOMAIN replies', r.to = e, r # U!Foreign(e)
                 PROVE  r = Right(e) /\ replies'[r] = 1 /\ Waits(e)
      OBVIOUS
    <3>1. r = Right(e) /\ replies[r] = 1 /\ Waits(e)
      BY <1>3 DEF OneOut
    <3>2. replies'[r] \in Nat \ {0} /\ replies'[r] <= 1
      BY <3>1
    <3>3. QED BY <3>1, <3>2
  <2>4. QED BY <1>3, <2>1, <2>2, <2>3 DEF OneOut
<1>4. QED BY <1>1, <1>2, <1>3 DEF DateInv

\* LoseRequest and LoseReply.
LEMMA LoseSteps ==
  ASSUME DateInv, (\E d \in DOMAIN requests : U!LoseRequest(d)) \/ (\E r \in DOMAIN replies : U!LoseReply(r))
  PROVE  DateInv'
<1>0. requests \in [DOMAIN requests -> Nat \ {0}] /\ replies \in [DOMAIN replies -> Nat \ {0}]
  BY DEF DateInv, DateTypeOK
<1>1. ASSUME NEW d \in DOMAIN requests, U!LoseRequest(d) PROVE DateInv'
  <2>1. /\ requests' = U!BagRemove(requests, d)
        /\ UNCHANGED <<ucpc, req, kind, took, muddled, replies, uspc, rcvBuf, cli_addr>>
    BY <1>1 DEF U!LoseRequest, U!serverVars
  <2>2. /\ DOMAIN requests' \subseteq DOMAIN requests /\ requests' \in [DOMAIN requests' -> Nat \ {0}]
        /\ \A x \in DOMAIN requests' : requests'[x] <= requests[x]
    BY <1>0, <2>1, BagRemoveIs
  <2>3. \A r \in DOMAIN replies' : replies'[r] <= replies[r]
    BY <1>0, <2>1
  <2>4. QED BY <1>0, <2>1, <2>2, <2>3, LoseStep
<1>2. ASSUME NEW r \in DOMAIN replies, U!LoseReply(r) PROVE DateInv'
  <2>1. /\ replies' = U!BagRemove(replies, r)
        /\ UNCHANGED <<ucpc, req, kind, took, muddled, requests, uspc, rcvBuf, cli_addr>>
    BY <1>2 DEF U!LoseReply, U!serverVars
  <2>2. /\ DOMAIN replies' \subseteq DOMAIN replies /\ replies' \in [DOMAIN replies' -> Nat \ {0}]
        /\ \A x \in DOMAIN replies' : replies'[x] <= replies[x]
    BY <1>0, <2>1, BagRemoveIs
  <2>3. \A d \in DOMAIN requests' : requests'[d] <= requests[d]
    BY <1>0, <2>1
  <2>4. QED BY <1>0, <2>1, <2>2, <2>3, LoseStep
<1>3. QED BY <1>1, <1>2

\* Stray: one more of a stranger.
LEMMA StrayStep ==
  ASSUME DateInv, NEW c \in DateClients, U!Stray(c)
  PROVE  DateInv'
<1> DEFINE x == U!Foreign(c)
<1>1. /\ replies' = U!BagAdd(replies, x)
      /\ UNCHANGED <<ucpc, req, kind, took, muddled, requests, uspc, rcvBuf, cli_addr>>
  BY DEF U!Stray, U!clientVars, U!serverVars
<1>2. x.to = c /\ x.line[1] = c /\ x \in Answer
  BY ForeignParts
<1> HIDE DEF x
<1>3. /\ DOMAIN replies' = DOMAIN replies \cup {x}
      /\ replies' \in [DOMAIN replies' -> Nat \ {0}]
      /\ \A r \in DOMAIN replies : r # x => replies'[r] = replies[r]
  <2>1. replies \in [DOMAIN replies -> Nat \ {0}]
    BY DEF DateInv, DateTypeOK
  <2>2. QED BY <1>1, <2>1 DEF U!BagAdd
<1>4. DateTypeOK'
  BY <1>1, <1>2, <1>3 DEF DateInv, DateTypeOK
<1>5. OwnOnly'
  BY <1>1, <1>2, <1>3 DEF DateInv, OwnOnly
<1>6. ASSUME NEW e \in DateClients, OneOut(e) PROVE OneOut(e)'
  <2>1. Wanted(e)' = Wanted(e) /\ Waits(e)' = Waits(e) /\ Serves(e)' = Serves(e) /\ Right(e)' = Right(e)
    BY <1>1 DEF Wanted, Waits, Serves, Right
  <2>2. \A r \in DOMAIN replies' :
          r.to = e => r = U!Foreign(e) \/ (r = Right(e) /\ replies'[r] = 1 /\ Waits(e))
    <3> SUFFICES ASSUME NEW r \in DOMAIN replies', r.to = e, r # U!Foreign(e)
                 PROVE  r = Right(e) /\ replies'[r] = 1 /\ Waits(e)
      OBVIOUS
    <3>1. r # x
      BY <1>2 DEF x
    <3>2. r \in DOMAIN replies /\ replies'[r] = replies[r]
      BY <1>3, <3>1
    <3>3. QED BY <1>6, <3>2 DEF OneOut
  <2>3. Right(e) \in DOMAIN replies' => Right(e) \in DOMAIN replies
    <3>1. Right(e).to = e /\ Right(e) # U!Foreign(e)
      BY WantedParts DEF DateInv
    <3>2. Right(e) # x
      BY <1>2, <3>1 DEF x
    <3>3. QED BY <1>3, <3>2
  <2>4. QED BY <1>1, <1>6, <2>1, <2>2, <2>3 DEF OneOut
<1>7. QED BY <1>1, <1>4, <1>5, <1>6 DEF DateInv

\* ReceiveRequest: the one datagram of the client moves into the buffer.
LEMMA ReceiveRequestStep ==
  ASSUME DateInv, NEW x \in DOMAIN requests, U!ReceiveRequest(x)
  PROVE  DateInv'
<1>1. /\ uspc = "recv" /\ uspc' = "send" /\ requests' = U!BagRemove(requests, x)
      /\ rcvBuf' = x /\ cli_addr' = x[1]
      /\ UNCHANGED <<ucpc, req, kind, took, muddled, replies>>
  BY DEF U!ReceiveRequest, U!clientVars
<1>2. x \in Line /\ x[1] \in DateClients
  BY DEF DateInv, DateTypeOK, Line
<1>3. /\ DOMAIN requests' \subseteq DOMAIN requests
      /\ requests' \in [DOMAIN requests' -> Nat \ {0}]
      /\ \A d \in DOMAIN requests' : d # x => requests'[d] = requests[d]
      /\ requests[x] = 1 => x \notin DOMAIN requests'
  BY <1>1, BagRemoveIs DEF DateInv, DateTypeOK
<1>4. DateTypeOK'
  BY <1>1, <1>2, <1>3 DEF DateInv, DateTypeOK
<1>5. OwnOnly'
  BY <1>1 DEF DateInv, OwnOnly
<1>6. ASSUME NEW e \in DateClients, e # x[1], OneOut(e) PROVE OneOut(e)'
  <2>1. Wanted(e)' = Wanted(e) /\ Waits(e)' = Waits(e) /\ ~Serves(e)' /\ Right(e)' = Right(e)
    BY <1>1, <1>6 DEF Wanted, Waits, Serves, Right
  <2>2. \A d \in DOMAIN requests' : d[1] = e => requests'[d] = requests[d]
    BY <1>3, <1>6
  <2>3. QED BY <1>1, <1>3, <1>6, <2>1, <2>2 DEF OneOut
<1>7. ASSUME NEW e \in DateClients, e = x[1], OneOut(e) PROVE OneOut(e)'
  <2>1. x = Wanted(e) /\ requests[x] = 1 /\ Waits(e)
    BY <1>7 DEF OneOut
  <2>2. Wanted(e)' = Wanted(e) /\ Waits(e)' = Waits(e) /\ Right(e)' = Right(e)
    BY <1>1 DEF Wanted, Waits, Right
  <2>3. \A d \in DOMAIN requests' : d[1] # e
    BY <1>3, <1>7, <2>1 DEF OneOut
  <2>4. Wanted(e) \notin DOMAIN requests' /\ Right(e) \notin DOMAIN replies
    BY <1>3, <1>7, <2>1 DEF OneOut
  <2>5. QED BY <1>1, <1>7, <2>1, <2>2, <2>3, <2>4 DEF OneOut
<1>8. QED BY <1>1, <1>4, <1>5, <1>6, <1>7 DEF DateInv

\* Reply: what is in the buffer is the answer to whom it is sent; no step of
\* another client has come between, for none may change the address.
LEMMA ReplyStep ==
  ASSUME HomeworkAssumption, DateInv, U!Reply
  PROVE  DateInv'
<1>1. uspc = "send" /\ UNCHANGED <<ucpc, req, kind, took, requests, cli_addr>>
  BY DEF U!Reply
<1>2. CASE uspc' \in {"failed", "hung"} /\ UNCHANGED <<muddled, replies, rcvBuf>>
  <2>1. DateTypeOK' /\ OwnOnly'
    BY <1>1, <1>2 DEF DateInv, DateTypeOK, OwnOnly
  <2>2. ASSUME NEW e \in DateClients, OneOut(e) PROVE OneOut(e)'
    <3>1. Wanted(e)' = Wanted(e) /\ Waits(e)' = Waits(e) /\ ~Serves(e)' /\ Right(e)' = Right(e)
      BY <1>1, <1>2 DEF Wanted, Waits, Serves, Right
    <3>2. QED BY <1>1, <1>2, <2>2, <3>1 DEF OneOut
  <2>3. QED BY <1>1, <1>2, <2>1, <2>2 DEF DateInv
<1>3. ASSUME NEW n \in Nat \ {0},
             replies' = U!(+)(replies, [r \in {[to |-> cli_addr, line |-> rcvBuf]} |-> n]),
             muddled' = [muddled EXCEPT ![cli_addr] = @ \/ n > 1],
             uspc' = "recv"
      PROVE  DateInv'
  <2> DEFINE x == [to |-> cli_addr, line |-> rcvBuf]
  <2>1. /\ x \in Answer /\ x.to = cli_addr /\ x.line = rcvBuf /\ cli_addr \in DateClients /\ rcvBuf \in Line
        /\ x.line[1] = x.to
    BY <1>1 DEF DateInv, DateTypeOK, OwnOnly, Answer
  <2>2. /\ DOMAIN replies' = DOMAIN replies \cup {x}
        /\ replies' \in [DOMAIN replies' -> Nat \ {0}]
        /\ \A d \in DOMAIN replies : d # x => replies'[d] = replies[d]
        /\ x \notin DOMAIN replies => replies'[x] = n
    <3>1. replies \in [DOMAIN replies -> Nat \ {0}] /\ replies' = U!(+)(replies, [r \in {x} |-> n])
      BY <1>3 DEF DateInv, DateTypeOK
    <3> HIDE DEF x
    <3>2. QED BY <1>3, <3>1 DEF U!(+)
  <2>3. OneOut(cli_addr) => x = Right(cli_addr)
    BY <1>1 DEF OneOut, Serves, Right
  <2> HIDE DEF x
  <2>4. muddled' \in [DateClients -> BOOLEAN]
    BY <1>3 DEF DateInv, DateTypeOK
  <2>5. DateTypeOK' /\ OwnOnly'
    BY <1>1, <1>3, <2>1, <2>2, <2>4 DEF DateInv, DateTypeOK, OwnOnly
  <2>6. ASSUME NEW e \in DateClients, e # cli_addr, ~muddled'[e] PROVE OneOut(e)'
    <3>0. OneOut(e)
      BY <1>3, <2>6 DEF DateInv, DateTypeOK
    <3>1. Wanted(e)' = Wanted(e) /\ Waits(e)' = Waits(e) /\ ~Serves(e)' /\ Right(e)' = Right(e)
      BY <1>1, <1>3 DEF Wanted, Waits, Serves, Right
    <3>2. \A d \in DOMAIN replies' : d.to = e => d \in DOMAIN replies /\ replies'[d] = replies[d]
      BY <2>1, <2>2, <2>6
    <3>3. Right(e).to = e
      BY DEF Right
    <3>4. QED BY <1>1, <3>0, <3>1, <3>2, <3>3 DEF OneOut
  <2>7. ASSUME NEW e \in DateClients, e = cli_addr, ~muddled'[e] PROVE OneOut(e)'
    <3>0. OneOut(e) /\ n = 1
      <4>1. muddled'[e] = (muddled[e] \/ n > 1)
        BY <1>3, <2>7 DEF DateInv, DateTypeOK
      <4>2. ~muddled[e] /\ ~(n > 1)
        BY <2>7, <4>1
      <4>3. n = 1
        BY <1>3, <4>2
      <4>4. QED BY <4>2, <4>3 DEF DateInv
    <3>1. Wanted(e)' = Wanted(e) /\ Waits(e)' = Waits(e) /\ ~Serves(e)' /\ Right(e)' = Right(e)
      BY <1>1, <1>3 DEF Wanted, Waits, Serves, Right
    <3>2. Serves(e) /\ x = Right(e)
      BY <1>1, <2>3, <2>7, <3>0 DEF Serves
    <3>3. Waits(e) /\ Wanted(e) \notin DOMAIN requests /\ Right(e) \notin DOMAIN replies
      BY <3>0, <3>2 DEF OneOut
    <3>4. ASSUME NEW d \in DOMAIN replies', d.to = e, d # U!Foreign(e) PROVE d = Right(e) /\ replies'[d] = 1
      <4>1. d \notin DOMAIN replies
        BY <3>0, <3>3, <3>4 DEF OneOut
      <4>2. d = x
        BY <2>2, <4>1
      <4>3. QED BY <2>2, <3>0, <3>2, <3>3, <4>2
    <3>5. QED BY <1>1, <3>0, <3>1, <3>3, <3>4 DEF OneOut
  <2>8. QED BY <2>5, <2>6, <2>7 DEF DateInv
<1>4. QED
  <2>1. CASE uspc' \in {"failed", "hung"} /\ UNCHANGED <<muddled, replies, rcvBuf>>
    BY <1>2, <2>1
  <2>2. CASE ~(uspc' \in {"failed", "hung"} /\ UNCHANGED <<muddled, replies, rcvBuf>>)
    <3>1. cli_addr \in DateClients
      BY <1>1 DEF DateInv, DateTypeOK
    <3>2. PICK n \in 1..CopiesOf[cli_addr] :
            /\ replies' = U!(+)(replies, [r \in {[to |-> cli_addr, line |-> rcvBuf]} |-> n])
            /\ muddled' = [muddled EXCEPT ![cli_addr] = @ \/ n > 1]
            /\ uspc' = "recv"
            /\ rcvBuf' = <<>>
      BY <2>2 DEF U!Reply
    <3>3. n \in Nat \ {0}
      OBVIOUS
    <3>4. QED BY <1>3, <3>2, <3>3
  <2>3. QED BY <2>1, <2>2

\* Every step keeps the one datagram one.
LEMMA DateStep ==
  ASSUME HomeworkAssumption, DateInv, U!Next \/ UNCHANGED U!vars
  PROVE  DateInv'
<1>1. ASSUME NEW c \in DateClients,
             U!SendRequest(c) \/ U!ReceiveReply(c) \/ U!ReceiveFails(c) \/ U!Stray(c)
      PROVE  DateInv'
  BY <1>1, SendRequestStep, ReceiveReplyStep, ReceiveFailsStep, StrayStep
<1>2. ASSUME (\E d \in U!BagToSet(requests) : U!LoseRequest(d)) \/ (\E r \in U!BagToSet(replies) : U!LoseReply(r))
      PROVE  DateInv'
  BY <1>2, LoseSteps DEF U!BagToSet
<1>3. CASE U!Bind \/ U!ReceiveRequestFails
  <2>1. /\ UNCHANGED <<ucpc, req, kind, took, muddled, requests, replies, rcvBuf, cli_addr>>
        /\ uspc \in {"start", "recv"} /\ uspc' \in {"recv", "failed"}
    BY <1>3 DEF U!Bind, U!ReceiveRequestFails, U!clientVars
  <2>2. \A e \in DateClients : Wanted(e)' = Wanted(e) /\ Waits(e)' = Waits(e) /\ ~Serves(e)' /\ ~Serves(e)
                                /\ Right(e)' = Right(e)
    BY <2>1 DEF Wanted, Waits, Serves, Right
  <2>3. \A e \in DateClients : OneOut(e) => OneOut(e)'
    BY <2>1, <2>2 DEF OneOut
  <2>4. QED BY <2>1, <2>3 DEF DateInv, DateTypeOK, OwnOnly
<1>4. ASSUME NEW d \in U!BagToSet(requests), U!ReceiveRequest(d) PROVE DateInv'
  BY <1>4, ReceiveRequestStep DEF U!BagToSet
<1>5. CASE UNCHANGED U!vars
  BY <1>5 DEF U!vars, U!clientVars, U!serverVars, DateInv, DateTypeOK, OwnOnly, OneOut, Wanted, Right, Waits, Serves
<1>6. QED BY <1>1, <1>2, <1>3, <1>4, <1>5, ReplyStep DEF U!Next, U!ServerNext

\* In the beginning nothing is about.
LEMMA DateStart == ASSUME U!Init PROVE DateInv
<1>1. DOMAIN requests = {} /\ DOMAIN replies = {}
  BY DEF U!Init, U!EmptyBag, U!SetToBag
<1>2. QED BY <1>1 DEF U!Init, DateInv, DateTypeOK, OwnOnly, OneOut, Wanted, Right, Waits, Serves, U!Kinds

\* Then what was received last was of the client's own, and the answer waited
\* for unless something was muddled.
LEMMA DateMatches == ASSUME DateInv PROVE U!AnswerMatches
BY DEF DateInv, DateTypeOK, OwnOnly, OneOut, U!AnswerMatches

\* No client of the date server is given another's answer, whatever the network
\* loses, copies or reorders, whoever else sends; and it takes a late answer of
\* its own only after a request or an answer of its own was duplicated or it has
\* taken a foreign datagram (cli_addr and the buffer are the server's only
\* memory of whom it answers).
THEOREM DateAnswersMatch == U!Spec => []U!AnswerMatches
<1>1. DateInv /\ [U!Next]_(U!vars) => DateInv'
  BY DateStep, HomeworkAssumption
<1>2. QED BY <1>1, DateStart, DateMatches, PTL DEF U!Spec

\* What the run homework checks, of all clients: whose answers are shown by
\* the clients of Homeworks 2 and 4.
THEOREM WhoseAnswers == MCSpec => []AnswersKnown
<1>1. MCInit => CommandInv /\ DateInv
  BY CommandStart, DateStart DEF MCInit
<1>2. CommandInv /\ DateInv /\ [MCNext]_<<hw, vars, command, date>> => CommandInv' /\ DateInv'
  <2> SUFFICES ASSUME CommandInv, DateInv, [MCNext]_<<hw, vars, command, date>>
               PROVE  CommandInv' /\ DateInv'
    OBVIOUS
  <2>1. UNCHANGED command => UNCHANGED C!vars
    BY DEF command, C!vars, C!clientVars, C!serverVars
  <2>2. UNCHANGED date => UNCHANGED U!vars
    BY DEF date, U!vars, U!clientVars, U!serverVars
  <2>3. C!Next \/ UNCHANGED C!vars
    BY <2>1 DEF MCNext
  <2>4. U!Next \/ UNCHANGED U!vars
    BY <2>2 DEF MCNext
  <2>5. QED BY <2>3, <2>4, CommandStep, DateStep, HomeworkAssumption
<1>3. CommandInv /\ DateInv => AnswersKnown
  BY CommandShows, DateMatches DEF AnswersKnown
<1>4. QED BY <1>1, <1>2, <1>3, PTL DEF MCSpec

===============================================================================
