-------------------------- MODULE ConnectionsProofs --------------------------
(***************************************************************************)
(* Proofs about the programs over connections: what is common to them, and *)
(* then sock over TCP, over UDP and as a server of children, the echo      *)
(* servers, the receivers of urgent data and the chat server with          *)
(* select(), each for every value of the constants.                        *)
(***************************************************************************)
EXTENDS MCConnections, FiniteSetTheorems, SequenceTheorems, WellFoundedInduction, TLAPS

-----------------------------------------------------------------------------
(* Least and greatest elements, of which the code uses both: accept() takes  *)
(* the lowest free descriptor and select() is given the highest.             *)

\* The least element of a set of numbers.
LEMMA MinInSet ==
  ASSUME NEW Elems, Elems \subseteq Nat, Elems # {}
  PROVE  Min(Elems) \in Elems /\ \A y \in Elems : Min(Elems) <= y
<1> DEFINE R == {p \in Nat \X Nat : p[1] < p[2]}
<1>0. IsWellFoundedOn(R, Nat)
  BY NatLessThanWellFounded, Zenon DEF OpToRel
<1> HIDE DEF R
<1>1. PICK x \in Elems : \A y \in Elems : ~ (<<y, x>> \in R)
  BY <1>0, WFMin
<1>2. \A y \in Elems : x <= y
  <2> SUFFICES ASSUME NEW y \in Elems, y < x PROVE FALSE
    OBVIOUS
  <2>1. <<y, x>> \in Nat \X Nat /\ <<y, x>>[1] < <<y, x>>[2]
    OBVIOUS
  <2>2. <<y, x>> \in R
    BY <2>1, Zenon DEF R
  <2>3. QED BY <1>1, <2>2
<1>3. \E m \in Elems : \A y \in Elems : m <= y
  BY <1>2
<1>4. QED BY <1>3, Zenon DEF Min

\* The greatest element of a set of numbers with a bound.
LEMMA MaxInSet ==
  ASSUME NEW Elems, Elems \subseteq Nat, Elems # {}, NEW b \in Nat, \A x \in Elems : x <= b
  PROVE  Max(Elems) \in Elems /\ \A y \in Elems : Max(Elems) >= y
<1> DEFINE Taken == {n \in Nat : n <= b /\ b - n \in Elems}
<1>1. Taken \subseteq Nat /\ Taken # {}
  <2>1. PICK x \in Elems : TRUE
    OBVIOUS
  <2>2. b - x \in Nat /\ b - x <= b /\ b - (b - x) = x
    BY <2>1
  <2>3. b - x \in Taken
    BY <2>1, <2>2
  <2>4. QED BY <2>3
<1> HIDE DEF Taken
<1>2. Min(Taken) \in Taken /\ \A y \in Taken : Min(Taken) <= y
  BY <1>1, MinInSet
<1> DEFINE m == b - Min(Taken)
<1>3. m \in Elems
  BY <1>2 DEF Taken
<1>4. \A y \in Elems : m >= y
  <2> TAKE y \in Elems
  <2>1. b - y \in Taken
    <3>1. b - y \in Nat /\ b - y <= b /\ b - (b - y) = y
      OBVIOUS
    <3>2. QED BY <3>1 DEF Taken
  <2>2. Min(Taken) <= b - y
    BY <1>2, <2>1
  <2>3. Min(Taken) \in Nat
    BY <1>1, <1>2
  <2>4. QED BY <2>2, <2>3
<1>5. \E n \in Elems : \A y \in Elems : n >= y
  BY <1>3, <1>4
<1>6. QED BY <1>5, Zenon DEF Max

-----------------------------------------------------------------------------
(* Sequences: queues, and how often a number stands in one.                  *)

\* What is appended comes last and leaves the rest in its place.
LEMMA SeqFacts ==
  ASSUME NEW Elem, NEW q \in Seq(Elem), NEW x \in Elem
  PROVE  /\ Append(q, x) \in Seq(Elem) /\ Len(Append(q, x)) = Len(q) + 1 /\ Len(q) \in Nat
         /\ Append(q, x)[Len(q) + 1] = x
         /\ \A k \in 1..Len(q) : Append(q, x)[k] = q[k]
         /\ q # <<>> => /\ Head(q) = q[1] /\ Head(q) \in Elem /\ Tail(q) \in Seq(Elem)
                        /\ Len(q) \in Nat \ {0} /\ Len(Tail(q)) = Len(q) - 1
                        /\ \A k \in 1..Len(Tail(q)) : Tail(q)[k] = q[k + 1]
         /\ <<>> \in Seq(Elem)
OBVIOUS

\* The members of a queue, its head and what remains.
LEMMA QueueIn ==
  ASSUME NEW Elem, NEW q \in Seq(Elem)
  PROVE  /\ \A k \in 1..Len(q) : q[k] \in Elem
         /\ Len(q) \in Nat /\ <<>> \in Seq(Elem)
         /\ q # <<>> => /\ Head(q) = q[1] /\ Head(q) \in Elem /\ Tail(q) \in Seq(Elem)
                        /\ Len(q) \in Nat \ {0} /\ Len(Tail(q)) = Len(q) - 1
                        /\ \A k \in 1..Len(Tail(q)) : Tail(q)[k] = q[k + 1]
OBVIOUS

\* A function on 1..n is a sequence of length n.
LEMMA LenDomain ==
  ASSUME NEW Elem, NEW n \in Nat, NEW u \in [1..n -> Elem]
  PROVE  u \in Seq(Elem) /\ Len(u) = n
OBVIOUS

\* Two sequences, one after the other.
LEMMA ConcatFacts ==
  ASSUME NEW Elem, NEW q \in Seq(Elem), NEW u \in Seq(Elem)
  PROVE  /\ q \o u \in Seq(Elem) /\ Len(q \o u) = Len(q) + Len(u) /\ Len(q) \in Nat /\ Len(u) \in Nat
         /\ \A j \in 1..Len(q) : (q \o u)[j] = q[j]
         /\ \A j \in 1..Len(u) : (q \o u)[Len(q) + j] = u[j]
BY ConcatProperties, LenProperties


\* How often k stands in a sequence.
Where(q, k) == {j \in 1..Len(q) : q[j] = k}
Often(q, k) == Cardinality(Where(q, k))

\* Who is printed once more is counted once more.
LEMMA OftenFacts ==
  ASSUME NEW q \in Seq(Nat \ {0})
  PROVE  /\ \A k : Often(q, k) \in Nat
         /\ \A j \in 1..Len(q) : Often(q, q[j]) > 0
         /\ \A x \in Nat \ {0} : \A k : Often(Append(q, x), k) = Often(q, k) + (IF k = x THEN 1 ELSE 0)
         /\ \A k : Often(<<>>, k) = 0
<1>0. Len(q) \in Nat
  OBVIOUS
<1>1. ASSUME NEW k
      PROVE  IsFiniteSet(Where(q, k)) /\ Often(q, k) \in Nat
  <2>1. Where(q, k) \subseteq 1..Len(q) /\ IsFiniteSet(1..Len(q))
    BY <1>0, FS_Interval DEF Where
  <2>2. QED BY <2>1, FS_Subset, FS_CardinalityType DEF Often
<1>2. ASSUME NEW j \in 1..Len(q)
      PROVE  Often(q, q[j]) > 0
  <2>1. j \in Where(q, q[j])
    BY DEF Where
  <2>2. Cardinality(Where(q, q[j])) # 0
    BY <1>1, <2>1, FS_EmptySet
  <2>3. QED BY <1>1, <2>2 DEF Often
<1>3. ASSUME NEW x \in Nat \ {0}, NEW k
      PROVE  Often(Append(q, x), k) = Often(q, k) + (IF k = x THEN 1 ELSE 0)
  <2>1. /\ Len(Append(q, x)) = Len(q) + 1 /\ Append(q, x)[Len(q) + 1] = x
        /\ \A j \in 1..Len(q) : Append(q, x)[j] = q[j]
    BY SeqFacts
  <2>2. \A j : j \in 1..Len(q)+1 <=> j \in 1..Len(q) \/ j = Len(q) + 1
    BY <1>0
  <2>3. CASE k = x
    <3>1. Where(Append(q, x), k) = Where(q, k) \cup {Len(q) + 1} /\ Len(q) + 1 \notin Where(q, k)
      BY <1>0, <2>1, <2>2, <2>3 DEF Where
    <3>2. QED BY <1>1, <2>3, <3>1, FS_AddElement DEF Often
  <2>4. CASE k # x
    <3>1. Where(Append(q, x), k) = Where(q, k)
      BY <1>0, <2>1, <2>2, <2>4 DEF Where
    <3>2. QED BY <1>1, <2>4, <3>1 DEF Often
  <2>5. QED BY <2>3, <2>4
<1>4. ASSUME NEW k PROVE Often(<<>>, k) = 0
  <2>1. Where(<<>>, k) = {}
    BY DEF Where
  <2>2. QED BY <2>1, FS_EmptySet DEF Often
<1>5. QED BY <1>1, <1>2, <1>3, <1>4

\* A sequence to which the numbers from r+1 to r+n are appended.
LEMMA MoreUnits ==
  ASSUME NEW q \in Seq(Nat \ {0}), NEW r \in Nat, NEW n \in Nat
  PROVE  LET w == q \o [k \in 1..n |-> r + k]
         IN  /\ w \in Seq(Nat \ {0}) /\ Len(w) = Len(q) + n /\ Len(q) \in Nat
             /\ \A j \in 1..Len(q) : w[j] = q[j]
             /\ \A j \in 1..n : w[Len(q) + j] = r + j
             /\ \A k \in Nat : Often(w, k) = Often(q, k) + (IF r < k /\ k <= r + n THEN 1 ELSE 0)
<1> DEFINE u == [k \in 1..n |-> r + k]
           w == q \o u
<1>1. u \in Seq(Nat \ {0}) /\ Len(u) = n /\ (\A j \in 1..n : u[j] = r + j) /\ Len(q) \in Nat
  <2>1. u \in [1..n -> Nat \ {0}]
    OBVIOUS
  <2>2. u \in Seq(Nat \ {0}) /\ Len(u) = n
    BY <2>1, LenDomain
  <2>3. QED BY <2>2
<1> HIDE DEF u
<1>2. /\ w \in Seq(Nat \ {0}) /\ Len(w) = Len(q) + n
      /\ \A j \in 1..Len(q) : w[j] = q[j]
      /\ \A j \in 1..n : w[Len(q) + j] = r + j
  <2>1. /\ q \o u \in Seq(Nat \ {0}) /\ Len(q \o u) = Len(q) + Len(u)
        /\ \A j \in 1..Len(q) : (q \o u)[j] = q[j]
        /\ \A j \in 1..Len(u) : (q \o u)[Len(q) + j] = u[j]
    BY <1>1, ConcatFacts
  <2>2. QED BY <1>1, <2>1
<1> HIDE DEF w
<1>3. ASSUME NEW k \in Nat
      PROVE  Often(w, k) = Often(q, k) + (IF r < k /\ k <= r + n THEN 1 ELSE 0)
  <2>0. IsFiniteSet(Where(q, k)) /\ Often(q, k) \in Nat
    <3>1. Where(q, k) \subseteq 1..Len(q) /\ IsFiniteSet(1..Len(q))
      BY <1>1, FS_Interval DEF Where
    <3>2. QED BY <3>1, FS_Subset, FS_CardinalityType DEF Often
  <2>1. ASSUME NEW j \in 1..Len(w)
        PROVE  j \in 1..Len(q) \/ (j - Len(q) \in 1..n /\ w[j] = r + (j - Len(q)))
    <3>1. j \notin 1..Len(q) => j - Len(q) \in 1..n /\ j = Len(q) + (j - Len(q))
      BY <1>1, <1>2
    <3>2. QED BY <1>2, <3>1
  <2>2. CASE r < k /\ k <= r + n
    <3>1. k - r \in 1..n /\ r + (k - r) = k
      BY <2>2
    <3>2. Len(q) + (k - r) \in 1..Len(w) /\ w[Len(q) + (k - r)] = k /\ Len(q) + (k - r) \notin 1..Len(q)
      <4>1. w[Len(q) + (k - r)] = r + (k - r)
        BY <1>2, <3>1
      <4>2. k - r \in Nat /\ 1 <= k - r /\ k - r <= n
        BY <3>1
      <4>3. QED BY SMTT(30), <1>1, <1>2, <3>1, <4>1, <4>2
    <3>3. \A j \in 1..Len(w) : w[j] = k => j \in 1..Len(q) \/ j = Len(q) + (k - r)
      <4>1. ASSUME NEW j \in 1..Len(w), w[j] = k, j \notin 1..Len(q)
            PROVE  j = Len(q) + (k - r)
        <5>1. k = r + (j - Len(q)) /\ j \in Nat
          <6>1. w[j] = r + (j - Len(q))
            BY <2>1, <4>1
          <6>2. j \in Nat
            OBVIOUS
          <6>3. QED BY <4>1, <6>1, <6>2
        <5>2. QED BY <1>1, <5>1
      <4>2. QED BY <4>1
    <3>4. \A j \in 1..Len(q) : j \in 1..Len(w)
      BY <1>1, <1>2
    <3>5. Where(w, k) = Where(q, k) \cup {Len(q) + (k - r)} /\ Len(q) + (k - r) \notin Where(q, k)
      BY <1>2, <3>2, <3>3, <3>4 DEF Where
    <3>6. QED BY <2>0, <2>2, <3>5, FS_AddElement DEF Often
  <2>3. CASE ~(r < k /\ k <= r + n)
    <3>1. \A j \in 1..Len(w) : w[j] = k => j \in 1..Len(q)
      BY <1>1, <1>2, <2>1, <2>3
    <3>2. \A j \in 1..Len(q) : j \in 1..Len(w)
      BY <1>1, <1>2
    <3>3. Where(w, k) = Where(q, k)
      BY <1>2, <3>1, <3>2 DEF Where
    <3>4. QED BY <2>0, <2>3, <3>3 DEF Often
  <2>4. QED BY <2>2, <2>3
<1>4. QED BY <1>1, <1>2, <1>3 DEF w, u

\* Each of the two ends has one other.
LEMMA TheOther ==
  ASSUME NEW p \in {1, 2}
  PROVE  /\ 3 - p \in {1, 2} /\ 3 - p # p /\ 3 - (3 - p) = p /\ U!Peer(p) = 3 - p
         /\ \A q \in {1, 2} : q = p \/ q = 3 - p
         /\ p = 1 \/ p = 2
BY DEF U!Peer

-----------------------------------------------------------------------------
(***************************************************************************)
(* sock over TCP.  Printed needs to know that what has only been looked at *)
(* is what is read next (PrintedAt); NothingLost, who still has to read    *)
(* when an end has gone (HalfClosed): an end comes to its own end only     *)
(* when the other has shut down and everything has been read.              *)
(***************************************************************************)
TcpTypeOK ==
  /\ tsourcesink \in BOOLEAN /\ half \subseteq {1, 2} /\ tpeek \subseteq {2}
  /\ tpc \in [{1, 2} -> {"select", "in", "write", "sock", "again", "end", "exit", "error"}]
  /\ tsent \in [{1, 2} -> Nat] /\ rd \in [{1, 2} -> Nat]
  /\ tout \in [{1, 2} -> Seq(Nat \ {0})]
  /\ tfin \subseteq {1, 2} /\ rst \subseteq {1, 2} /\ stdineof \subseteq {1, 2}

\* An end has printed what it has read; or, with -Z, all of it once or twice, and
\* while it looks, last of all, the n units it has only looked at once.
LookedAt(p, n) == n > 0 /\ Len(tout[p]) > 0 /\ tout[p][Len(tout[p])] = rd[p] + n

PrintedAt(p) ==
  /\ rd[p] <= tsent[3 - p]
  /\ p \notin tpeek => tpc[p] # "again" /\ Len(tout[p]) = rd[p] /\ \A k \in 1..rd[p] : tout[p][k] = k
  /\ p \in tpeek =>
       \E n \in 0..(tsent[3 - p] - rd[p]) :
         /\ IF tpc[p] = "again" THEN LookedAt(p, n) ELSE n = 0
         /\ \A k \in Nat \ {0} : Often(tout[p], k) \in IF k <= rd[p] THEN {1, 2} ELSE IF k <= rd[p] + n THEN {1} ELSE {0}

\* Two ends with -h, or a source and its sink: who ends has read everything, and
\* who has shut down writes no more.
HalfClosed(p) ==
  /\ tpc[p] # "error" /\ p \notin rst
  /\ tpc[p] = "exit" => p \in tfin
  /\ p \in tfin => tpc[p] = "exit" \/ (p \in stdineof /\ tpc[p] \notin {"in", "write"})
  /\ tpc[p] \in {"end", "exit"} /\ ~(tsourcesink /\ p = 1) => 3 - p \in tfin /\ rd[p] = tsent[3 - p]

TcpInv ==
  /\ TcpTypeOK
  /\ tsourcesink => tsent[2] = 0 /\ tpc[1] \in {"write", "end", "exit"} /\ tpc[2] \in {"sock", "again", "end", "exit"}
  /\ \A p \in {1, 2} : PrintedAt(p)
  /\ tsourcesink \/ half = {1, 2} => \A p \in {1, 2} : HalfClosed(p)


-----------------------------------------------------------------------------
\* The Cardinality of an instance is the library's.
LEMMA SameCardinalityT ==
  ASSUME NEW Elem PROVE T!Cardinality(Elem) = Cardinality(Elem)
BY DEF T!Cardinality, Cardinality

\* The invariant holds at the start of sock over TCP.
LEMMA TcpStart ==
  ASSUME T!Init
  PROVE  TcpInv
<1>1. /\ tsourcesink \in BOOLEAN /\ half \subseteq {1, 2} /\ tpeek \subseteq {2} /\ (tsourcesink => half = {})
      /\ tpc = [p \in {1, 2} |-> IF tsourcesink /\ p = 1 THEN "write" ELSE IF tsourcesink /\ p = 2 THEN "sock" ELSE "select"]
      /\ tsent = [p \in {1, 2} |-> 0] /\ rd = [p \in {1, 2} |-> 0] /\ tout = [p \in {1, 2} |-> <<>>]
      /\ tfin = {} /\ rst = {} /\ stdineof = {}
  BY DEF T!Init, T!Ends, T!Client, T!Server, T!Sourcing, T!Sinking
<1>2. <<>> \in Seq(Nat \ {0}) /\ Len(<<>>) = 0
  OBVIOUS
<1>3. TcpTypeOK
  <2>1. tpc \in [{1, 2} -> {"select", "in", "write", "sock", "again", "end", "exit", "error"}]
    BY <1>1
  <2>2. tout \in [{1, 2} -> Seq(Nat \ {0})]
    BY <1>1, <1>2
  <2>3. QED BY <1>1, <2>1, <2>2 DEF TcpTypeOK
<1>4. ASSUME NEW p \in {1, 2}
      PROVE  PrintedAt(p)
  <2>1. rd[p] = 0 /\ tsent[3 - p] = 0 /\ tout[p] = <<>> /\ tpc[p] # "again"
    BY <1>1
  <2>2. \A k \in Nat \ {0} : Often(<<>>, k) = 0 /\ ~(k <= 0)
    <3>1. \A k : Often(<<>>, k) = 0
      BY <1>2, OftenFacts
    <3>2. QED BY <3>1
  <2>3. 0 \in 0..(tsent[3 - p] - rd[p])
    BY <2>1
  <2>4. QED BY <1>2, <2>1, <2>2, <2>3 DEF PrintedAt
<1>5. \A p \in {1, 2} : tsourcesink \/ half = {1, 2} => HalfClosed(p)
  BY <1>1 DEF HalfClosed
<1>6. QED BY <1>1, <1>3, <1>4, <1>5 DEF TcpInv

\* What an end writes, and where it goes, leaves what it has printed right.
LEMMA PrintedSame ==
  ASSUME TcpTypeOK, NEW p \in {1, 2}, PrintedAt(p), tout'[p] = tout[p], rd'[p] = rd[p], tpeek' = tpeek,
         tsent'[3 - p] \in Nat, tsent[3 - p] <= tsent'[3 - p],
         tpc'[p] = tpc[p] \/ (tpc[p] # "again" /\ tpc'[p] # "again")
  PROVE  PrintedAt(p)'
<1>1. rd[p] \in Nat /\ tsent[3 - p] \in Nat /\ rd[p] <= tsent[3 - p]
  BY DEF TcpTypeOK, PrintedAt
<1>2. rd'[p] <= tsent'[3 - p]
  BY <1>1
<1>3. p \notin tpeek => tpc'[p] # "again" /\ Len(tout'[p]) = rd'[p] /\ \A k \in 1..rd'[p] : tout'[p][k] = k
  BY DEF PrintedAt
<1>4. ASSUME p \in tpeek
      PROVE  \E n \in 0..(tsent'[3 - p] - rd'[p]) :
               /\ IF tpc'[p] = "again" THEN LookedAt(p, n)' ELSE n = 0
               /\ \A k \in Nat \ {0} : Often(tout'[p], k) \in IF k <= rd'[p] THEN {1, 2} ELSE IF k <= rd'[p] + n THEN {1} ELSE {0}
  <2>1. PICK n \in 0..(tsent[3 - p] - rd[p]) :
               /\ IF tpc[p] = "again" THEN LookedAt(p, n) ELSE n = 0
               /\ \A k \in Nat \ {0} : Often(tout[p], k) \in IF k <= rd[p] THEN {1, 2} ELSE IF k <= rd[p] + n THEN {1} ELSE {0}
    BY <1>4 DEF PrintedAt
  <2>2. n \in 0..(tsent'[3 - p] - rd'[p])
    BY <1>1
  <2>3. QED BY <2>1, <2>2 DEF LookedAt
<1>5. QED BY <1>2, <1>3, <1>4 DEF PrintedAt

\* What an end reads from the socket, or looks at, is printed.
LEMMA PrintedMore ==
  ASSUME TcpTypeOK, NEW p \in {1, 2}, PrintedAt(p), NEW n \in 0..(tsent[3 - p] - rd[p]),
         tout'[p] = tout[p] \o [k \in 1..n |-> rd[p] + k], tpeek' = tpeek, tsent'[3 - p] = tsent[3 - p],
         \/ tpc[p] # "again" /\ p \in tpeek /\ n > 0 /\ tpc'[p] = "again" /\ rd'[p] = rd[p]
         \/ tpc[p] # "again" /\ p \notin tpeek /\ tpc'[p] # "again" /\ rd'[p] = rd[p] + n
         \/ tpc[p] = "again" /\ tout[p][Len(tout[p])] <= rd[p] + n /\ tpc'[p] # "again" /\ rd'[p] = rd[p] + n
  PROVE  PrintedAt(p)'
<1>1. rd[p] \in Nat /\ tsent[3 - p] \in Nat /\ rd[p] <= tsent[3 - p] /\ n \in Nat /\ tout[p] \in Seq(Nat \ {0})
  <2>1. rd[p] \in Nat /\ tsent[3 - p] \in Nat /\ rd[p] <= tsent[3 - p] /\ tout[p] \in Seq(Nat \ {0})
    BY DEF TcpTypeOK, PrintedAt
  <2>2. QED BY <2>1
<1>2. /\ Len(tout'[p]) = Len(tout[p]) + n /\ Len(tout[p]) \in Nat
      /\ \A j \in 1..Len(tout[p]) : tout'[p][j] = tout[p][j]
      /\ \A j \in 1..n : tout'[p][Len(tout[p]) + j] = rd[p] + j
      /\ \A k \in Nat : Often(tout'[p], k) = Often(tout[p], k) + (IF rd[p] < k /\ k <= rd[p] + n THEN 1 ELSE 0)
  <2> DEFINE w == tout[p] \o [k \in 1..n |-> rd[p] + k]
  <2>1. /\ Len(w) = Len(tout[p]) + n /\ Len(tout[p]) \in Nat
        /\ \A j \in 1..Len(tout[p]) : w[j] = tout[p][j]
        /\ \A j \in 1..n : w[Len(tout[p]) + j] = rd[p] + j
        /\ \A k \in Nat : Often(w, k) = Often(tout[p], k) + (IF rd[p] < k /\ k <= rd[p] + n THEN 1 ELSE 0)
    BY <1>1, MoreUnits
  <2>2. tout'[p] = w
    OBVIOUS
  <2> HIDE DEF w
  <2>3. QED BY ONLY <2>1, <2>2
<1>3. \A k : Often(tout[p], k) \in Nat
  BY <1>1, OftenFacts
<1>4. rd'[p] <= tsent'[3 - p]
  BY <1>1
<1>5. CASE p \notin tpeek
  <2>1. tpc[p] # "again" /\ tpc'[p] # "again" /\ rd'[p] = rd[p] + n /\ Len(tout[p]) = rd[p]
    BY <1>5 DEF PrintedAt
  <2>2. ASSUME NEW k \in 1..rd'[p]
        PROVE  tout'[p][k] = k
    <3>1. CASE k <= rd[p]
      BY <1>1, <1>2, <1>5, <2>1, <3>1 DEF PrintedAt
    <3>2. CASE rd[p] < k
      <4>0. k \in 1..(rd[p] + n)
        BY <2>1
      <4>1. k - rd[p] \in 1..n /\ k = rd[p] + (k - rd[p])
        BY SMTT(30), <1>1, <3>2, <4>0
      <4>2. QED BY <1>2, <2>1, <4>1
    <3>3. QED BY <1>1, <2>1, <3>1, <3>2
  <2>3. QED BY <1>2, <1>4, <1>5, <2>1, <2>2 DEF PrintedAt
<1>6. CASE p \in tpeek
  <2>1. PICK m \in 0..(tsent[3 - p] - rd[p]) :
               /\ IF tpc[p] = "again" THEN LookedAt(p, m) ELSE m = 0
               /\ \A k \in Nat \ {0} : Often(tout[p], k) \in IF k <= rd[p] THEN {1, 2} ELSE IF k <= rd[p] + m THEN {1} ELSE {0}
    BY <1>6 DEF PrintedAt
  <2>2. CASE tpc[p] # "again"
    <3>1. m = 0 /\ rd'[p] = rd[p] /\ n \in 0..(tsent'[3 - p] - rd'[p]) /\ tpc'[p] = "again" /\ n > 0
      BY <1>1, <1>6, <2>1, <2>2
    <3>0. LookedAt(p, n)'
      <4>1. n \in 1..n /\ Len(tout'[p]) = Len(tout[p]) + n
        BY <1>1, <1>2, <3>1
      <4>2. tout'[p][Len(tout[p]) + n] = rd[p] + n
        BY <1>2, <4>1
      <4>3. QED BY <1>1, <1>2, <3>1, <4>1, <4>2 DEF LookedAt
    <3>2. ASSUME NEW k \in Nat \ {0}
          PROVE  Often(tout'[p], k) \in IF k <= rd'[p] THEN {1, 2} ELSE IF k <= rd'[p] + n THEN {1} ELSE {0}
      <4>1. Often(tout[p], k) \in IF k <= rd[p] THEN {1, 2} ELSE {0}
        BY <1>1, <2>1, <3>1
      <4>2. Often(tout'[p], k) = Often(tout[p], k) + (IF rd[p] < k /\ k <= rd[p] + n THEN 1 ELSE 0)
        BY <1>2
      <4>3. rd[p] \in Nat /\ n \in Nat /\ rd'[p] = rd[p]
        BY <1>1, <3>1
      <4>4. CASE k <= rd[p]
        <5>1. Often(tout[p], k) \in {1, 2} /\ Often(tout'[p], k) = Often(tout[p], k) + 0
          BY <4>1, <4>2, <4>3, <4>4
        <5>2. Often(tout'[p], k) \in {1, 2}
          BY <5>1
        <5>3. QED BY <4>3, <4>4, <5>2
      <4>5. CASE rd[p] < k /\ k <= rd[p] + n
        <5>1. Often(tout[p], k) = 0 /\ Often(tout'[p], k) = Often(tout[p], k) + 1
          BY <4>1, <4>2, <4>3, <4>5
        <5>2. Often(tout'[p], k) = 1
          BY <5>1
        <5>3. QED BY <4>3, <4>5, <5>2
      <4>6. CASE rd[p] + n < k
        <5>1. ~(k <= rd[p]) /\ ~(k <= rd[p] + n)
          BY <4>3, <4>6
        <5>2. Often(tout[p], k) = 0 /\ Often(tout'[p], k) = Often(tout[p], k) + 0
          BY <4>1, <4>2, <5>1
        <5>3. Often(tout'[p], k) = 0
          BY <5>2
        <5>4. QED BY <4>3, <5>1, <5>3
      <4>7. QED BY <4>3, <4>4, <4>5, <4>6
    <3>3. QED BY <1>4, <1>6, <3>0, <3>1, <3>2 DEF PrintedAt
  <2>3. CASE tpc[p] = "again"
    <3>0. m <= n
      BY <1>1, <2>1, <2>3 DEF LookedAt
    <3>1. rd'[p] = rd[p] + n /\ m <= n /\ tpc'[p] # "again" /\ 0 \in 0..(tsent'[3 - p] - rd'[p])
      BY <1>1, <2>1, <2>3, <3>0
    <3>2. ASSUME NEW k \in Nat \ {0}
          PROVE  Often(tout'[p], k) \in IF k <= rd'[p] THEN {1, 2} ELSE IF k <= rd'[p] + 0 THEN {1} ELSE {0}
      <4>1. Often(tout[p], k) \in IF k <= rd[p] THEN {1, 2} ELSE IF k <= rd[p] + m THEN {1} ELSE {0}
        BY <2>1
      <4>2. Often(tout'[p], k) = Often(tout[p], k) + (IF rd[p] < k /\ k <= rd[p] + n THEN 1 ELSE 0)
        BY <1>2
      <4>3. m \in Nat /\ k \in Nat \ {0}
        BY <1>1
      <4>4. rd'[p] + 0 = rd[p] + n
        BY <1>1, <3>1
      <4>5. CASE k <= rd[p]
        BY <1>1, <3>1, <4>1, <4>2, <4>4, <4>5
      <4>6. CASE rd[p] < k /\ k <= rd[p] + n
        <5>1. Often(tout[p], k) \in {0, 1}
          BY <1>1, <4>1, <4>6
        <5>2. Often(tout'[p], k) \in {1, 2}
          BY <4>2, <4>6, <5>1
        <5>3. QED BY <3>1, <4>6, <5>2
      <4>7. CASE rd[p] + n < k
        <5>1. ~(k <= rd[p]) /\ ~(k <= rd[p] + m) /\ ~(k <= rd[p] + n)
          <6>1. m <= n /\ rd[p] \in Nat /\ n \in Nat
            BY <1>1, <3>1
          <6>2. QED BY <4>3, <4>7, <6>1
        <5>2. QED BY <3>1, <4>1, <4>2, <4>4, <5>1
      <4>8. QED BY <1>1, <4>5, <4>6, <4>7
    <3>3. QED BY <1>4, <1>6, <3>1, <3>2 DEF PrintedAt
  <2>4. QED BY <2>2, <2>3
<1>7. QED BY <1>5, <1>6
-----------------------------------------------------------------------------
\* An end goes somewhere else.
LEMMA TcpMoves ==
  ASSUME TcpInv, NEW p \in {1, 2}, NEW l \in {"select", "in", "write", "sock", "end", "error"},
         tpc[p] \notin {"again", "exit", "error"}, tpc' = [tpc EXCEPT ![p] = l],
         UNCHANGED <<tsourcesink, half, tpeek, tsent, rd, tout, tfin, rst, stdineof>>,
         tsourcesink => l \in {"end", "sock"} /\ (p = 1 => l = "end"),
         tsourcesink \/ half = {1, 2} =>
           /\ l # "error" /\ (l \in {"in", "write"} => p \notin tfin)
           /\ l = "end" /\ ~(tsourcesink /\ p = 1) => 3 - p \in tfin /\ rd[p] = tsent[3 - p]
  PROVE  TcpInv'
<1>1. TcpTypeOK /\ tpc \in [{1, 2} -> {"select", "in", "write", "sock", "again", "end", "exit", "error"}]
  BY DEF TcpInv, TcpTypeOK
<1>2. tpc'[p] = l /\ (\A q \in {1, 2} : q # p => tpc'[q] = tpc[q])
  BY <1>1
<1>3. TcpTypeOK'
  BY <1>1 DEF TcpTypeOK
<1>4. ASSUME NEW q \in {1, 2} PROVE PrintedAt(q)'
  <2>1. tsent[3 - q] \in Nat
    BY <1>1 DEF TcpTypeOK
  <2>2. tpc'[q] = tpc[q] \/ (tpc[q] # "again" /\ tpc'[q] # "again")
    BY <1>2
  <2>3. PrintedAt(q)
    BY DEF TcpInv
  <2>4. QED BY <1>1, <2>1, <2>2, <2>3, PrintedSame
<1>5. ASSUME tsourcesink \/ half = {1, 2}, NEW q \in {1, 2} PROVE HalfClosed(q)'
  <2>1. HalfClosed(q)
    BY <1>5 DEF TcpInv
  <2>2. CASE q = p
    BY <1>2, <1>5, <2>1, <2>2 DEF HalfClosed
  <2>3. CASE q # p
    BY <1>2, <2>1, <2>3 DEF HalfClosed
  <2>4. QED BY <2>2, <2>3
<1>6. tsourcesink => tsent'[2] = 0 /\ tpc'[1] \in {"write", "end", "exit"} /\ tpc'[2] \in {"sock", "again", "end", "exit"}
  BY <1>2 DEF TcpInv
<1>7. QED BY <1>3, <1>4, <1>5, <1>6 DEF TcpInv

\* An end shuts down its side.
LEMMA TcpShuts ==
  ASSUME TcpInv, NEW p \in {1, 2}, tpc[p] = "in", tpc' = [tpc EXCEPT ![p] = "select"], ~tsourcesink,
         stdineof' = stdineof \cup {p}, tfin' = tfin \cup {p},
         UNCHANGED <<tsourcesink, half, tpeek, tsent, rd, tout, rst>>
  PROVE  TcpInv'
<1>1. TcpTypeOK /\ tpc \in [{1, 2} -> {"select", "in", "write", "sock", "again", "end", "exit", "error"}]
  BY DEF TcpInv, TcpTypeOK
<1>2. tpc'[p] = "select" /\ (\A q \in {1, 2} : q # p => tpc'[q] = tpc[q])
  BY <1>1
<1>3. TcpTypeOK'
  BY <1>1 DEF TcpTypeOK
<1>4. ASSUME NEW q \in {1, 2} PROVE PrintedAt(q)'
  <2>1. tsent[3 - q] \in Nat
    BY <1>1 DEF TcpTypeOK
  <2>2. tpc'[q] = tpc[q] \/ (tpc[q] # "again" /\ tpc'[q] # "again")
    BY <1>2
  <2>3. PrintedAt(q)
    BY DEF TcpInv
  <2>4. QED BY <1>1, <2>1, <2>2, <2>3, PrintedSame
<1>5. ASSUME tsourcesink \/ half = {1, 2}, NEW q \in {1, 2} PROVE HalfClosed(q)'
  <2>1. HalfClosed(q)
    BY <1>5 DEF TcpInv
  <2>2. CASE q = p
    BY <1>2, <2>1, <2>2 DEF HalfClosed
  <2>3. CASE q # p
    BY <1>2, <2>1, <2>3 DEF HalfClosed
  <2>4. QED BY <2>2, <2>3
<1>6. QED BY <1>3, <1>4, <1>5 DEF TcpInv

\* An end writes a unit; with -h on both sides, or from a source, the other end is
\* still there.
LEMMA TcpWrites ==
  ASSUME TcpInv, NEW p \in {1, 2}, NEW l \in {"write", "sock", "select"},
         tpc[p] = "write", tpc' = [tpc EXCEPT ![p] = l],
         tsent' = [tsent EXCEPT ![p] = @ + 1], rst' = rst \/ (rst' = rst \cup {p} /\ tpc[3 - p] \in {"exit", "error"} /\ ~tsourcesink),
         UNCHANGED <<tsourcesink, half, tpeek, rd, tout, tfin, stdineof>>,
         tsourcesink <=> l = "write"
  PROVE  TcpInv'
<1>1. TcpTypeOK /\ tpc \in [{1, 2} -> {"select", "in", "write", "sock", "again", "end", "exit", "error"}]
      /\ tsent \in [{1, 2} -> Nat]
  BY DEF TcpInv, TcpTypeOK
<1>2. tpc'[p] = l /\ (\A q \in {1, 2} : q # p => tpc'[q] = tpc[q] /\ tsent'[q] = tsent[q]) /\ tsent'[p] = tsent[p] + 1
  BY <1>1
<1>3. TcpTypeOK'
  <2>1. rst' \subseteq {1, 2}
    BY <1>1 DEF TcpTypeOK
  <2>2. QED BY <1>1, <2>1 DEF TcpTypeOK
<1>4. ASSUME NEW q \in {1, 2} PROVE PrintedAt(q)'
  <2>1. tsent'[3 - q] \in Nat /\ tsent[3 - q] <= tsent'[3 - q]
    BY <1>1, <1>2, TheOther
  <2>2. tpc'[q] = tpc[q] \/ (tpc[q] # "again" /\ tpc'[q] # "again")
    BY <1>2
  <2>3. PrintedAt(q)
    BY DEF TcpInv
  <2>4. QED BY <1>1, <2>1, <2>2, <2>3, PrintedSame
<1>5. tsourcesink => p = 1
  BY DEF TcpInv
<1>6. ASSUME tsourcesink \/ half = {1, 2} PROVE \A q \in {1, 2} : HalfClosed(q)'
  <2>1. HalfClosed(p) /\ HalfClosed(3 - p)
    BY <1>6, TheOther DEF TcpInv
  <2>2. p \notin tfin
    BY <2>1 DEF HalfClosed
  <2>3. ~(tpc[3 - p] \in {"end", "exit"} /\ ~(tsourcesink /\ 3 - p = 1)) /\ tpc[3 - p] # "error"
    BY <2>1, <2>2, TheOther DEF HalfClosed
  <2>4. rst' = rst
    BY <1>5, <2>3, TheOther
  <2>5. HalfClosed(p)'
    BY <1>2, <2>1, <2>2, <2>4 DEF HalfClosed
  <2>6. HalfClosed(3 - p)'
    BY <1>2, <2>1, <2>3, <2>4, TheOther DEF HalfClosed
  <2>7. QED BY <2>5, <2>6, TheOther
<1>7. tsourcesink => tsent'[2] = 0 /\ tpc'[1] \in {"write", "end", "exit"} /\ tpc'[2] \in {"sock", "again", "end", "exit"}
  BY <1>2, <1>5 DEF TcpInv
<1>8. QED BY <1>3, <1>4, <1>6, <1>7 DEF TcpInv

\* An end prints what it has read, or looked at.
LEMMA TcpReads ==
  ASSUME TcpInv, NEW p \in {1, 2}, NEW n \in 0..(tsent[3 - p] - rd[p]), NEW l \in {"select", "sock", "again"},
         tpc[p] \in {"sock", "again"}, tpc' = [tpc EXCEPT ![p] = l],
         tout' = [tout EXCEPT ![p] = @ \o [k \in 1..n |-> rd[p] + k]],
         \/ tpc[p] = "sock" /\ p \in tpeek /\ n > 0 /\ l = "again" /\ rd' = rd
         \/ tpc[p] = "sock" /\ p \notin tpeek /\ l # "again" /\ rd' = [rd EXCEPT ![p] = @ + n]
         \/ tpc[p] = "again" /\ tout[p][Len(tout[p])] <= rd[p] + n /\ l # "again" /\ rd' = [rd EXCEPT ![p] = @ + n],
         UNCHANGED <<tsourcesink, half, tpeek, tsent, tfin, rst, stdineof>>,
         tsourcesink => l # "select"
  PROVE  TcpInv'
<1>1. TcpTypeOK /\ tpc \in [{1, 2} -> {"select", "in", "write", "sock", "again", "end", "exit", "error"}]
      /\ tsent \in [{1, 2} -> Nat] /\ rd \in [{1, 2} -> Nat] /\ tout \in [{1, 2} -> Seq(Nat \ {0})]
  BY DEF TcpInv, TcpTypeOK
<1>2. /\ tpc'[p] = l /\ tout'[p] = tout[p] \o [k \in 1..n |-> rd[p] + k]
      /\ \A q \in {1, 2} : q # p => tpc'[q] = tpc[q] /\ rd'[q] = rd[q] /\ tout'[q] = tout[q]
      /\ rd' = [rd EXCEPT ![p] = @ + n] => rd'[p] = rd[p] + n
  BY <1>1
<1>3. TcpTypeOK'
  <2>1. tout[p] \in Seq(Nat \ {0}) /\ rd[p] \in Nat /\ n \in Nat /\ tsent[3 - p] \in Nat
    BY <1>1, TheOther
  <2>2. tout[p] \o [k \in 1..n |-> rd[p] + k] \in Seq(Nat \ {0})
    BY <2>1, MoreUnits
  <2>3. tout' \in [{1, 2} -> Seq(Nat \ {0})]
    BY <1>1, <2>2
  <2>4. rd' \in [{1, 2} -> Nat]
    <3>1. rd[p] + n \in Nat
      BY <2>1
    <3>2. rd' = rd \/ rd' = [rd EXCEPT ![p] = rd[p] + n]
      OBVIOUS
    <3>3. QED BY <1>1, <3>1, <3>2
  <2>5. QED BY <1>1, <2>3, <2>4 DEF TcpTypeOK
<1>4. ASSUME NEW q \in {1, 2} PROVE PrintedAt(q)'
  <2>1. PrintedAt(q)
    BY DEF TcpInv
  <2>2. CASE q = p
    <3>1. \/ tpc[p] # "again" /\ p \in tpeek /\ n > 0 /\ tpc'[p] = "again" /\ rd'[p] = rd[p]
          \/ tpc[p] # "again" /\ p \notin tpeek /\ tpc'[p] # "again" /\ rd'[p] = rd[p] + n
          \/ tpc[p] = "again" /\ tout[p][Len(tout[p])] <= rd[p] + n /\ tpc'[p] # "again" /\ rd'[p] = rd[p] + n
      BY <1>2
    <3>2. QED BY <1>1, <1>2, <2>1, <2>2, <3>1, PrintedMore
  <2>3. CASE q # p
    <3>1. tsent[3 - q] \in Nat
      BY <1>1, TheOther
    <3>2. QED BY <1>1, <1>2, <2>1, <2>3, <3>1, PrintedSame
  <2>4. QED BY <2>2, <2>3
<1>5. ASSUME tsourcesink \/ half = {1, 2}, NEW q \in {1, 2} PROVE HalfClosed(q)'
  <2>1. HalfClosed(q)
    BY <1>5 DEF TcpInv
  <2>2. CASE q = p
    BY <1>2, <2>1, <2>2 DEF HalfClosed
  <2>3. CASE q # p
    BY <1>2, <2>1, <2>3 DEF HalfClosed
  <2>4. QED BY <2>2, <2>3
<1>6. tsourcesink => tsent'[2] = 0 /\ tpc'[1] \in {"write", "end", "exit"} /\ tpc'[2] \in {"sock", "again", "end", "exit"}
  BY <1>2 DEF TcpInv
<1>7. QED BY <1>3, <1>4, <1>5, <1>6 DEF TcpInv

\* An end closes its connection, which resets it if something is unread.
LEMMA TcpCloses ==
  ASSUME TcpInv, NEW p \in {1, 2}, T!Close(p)
  PROVE  TcpInv'
<1>1. TcpTypeOK /\ tpc \in [{1, 2} -> {"select", "in", "write", "sock", "again", "end", "exit", "error"}]
      /\ tsent \in [{1, 2} -> Nat] /\ rd \in [{1, 2} -> Nat]
  BY DEF TcpInv, TcpTypeOK
<1>2. /\ tpc[p] = "end" /\ tpc' = [tpc EXCEPT ![p] = "exit"] /\ tfin' = tfin \cup {p}
      /\ rst' = IF tsent[3 - p] - rd[p] > 0 THEN rst \cup {3 - p} ELSE rst
      /\ UNCHANGED <<tsourcesink, half, tpeek, tsent, rd, tout, stdineof>>
  BY TheOther DEF T!Close, T!Goto, T!Unread, T!Peer, T!conf
<1>3. tpc'[p] = "exit" /\ (\A q \in {1, 2} : q # p => tpc'[q] = tpc[q])
  BY <1>1, <1>2
<1>4. TcpTypeOK'
  BY <1>1, <1>2, TheOther DEF TcpTypeOK
<1>5. ASSUME NEW q \in {1, 2} PROVE PrintedAt(q)'
  <2>1. tsent[3 - q] \in Nat
    BY <1>1, TheOther
  <2>2. tpc'[q] = tpc[q] \/ (tpc[q] # "again" /\ tpc'[q] # "again")
    BY <1>2, <1>3
  <2>3. PrintedAt(q)
    BY DEF TcpInv
  <2>4. QED BY <1>1, <1>2, <2>1, <2>2, <2>3, PrintedSame
<1>6. ASSUME tsourcesink \/ half = {1, 2} PROVE \A q \in {1, 2} : HalfClosed(q)'
  <2>1. HalfClosed(p) /\ HalfClosed(3 - p)
    BY <1>6, TheOther DEF TcpInv
  <2>2. tsent[3 - p] - rd[p] = 0
    <3>1. CASE tsourcesink /\ p = 1
      <4>1. tsent[2] = 0 /\ rd[1] \in Nat /\ rd[1] <= tsent[2]
        BY <1>1, <3>1 DEF TcpInv, PrintedAt
      <4>2. QED BY <3>1, <4>1
    <3>2. CASE ~(tsourcesink /\ p = 1)
      BY <1>1, <1>2, <2>1, <3>2, TheOther DEF HalfClosed
    <3>3. QED BY <3>1, <3>2
  <2>3. rst' = rst
    BY <1>2, <2>2
  <2>4. HalfClosed(p)'
    BY <1>2, <1>3, <2>1, <2>3, TheOther DEF HalfClosed
  <2>5. HalfClosed(3 - p)'
    BY <1>2, <1>3, <2>1, <2>3, TheOther DEF HalfClosed
  <2>6. QED BY <2>4, <2>5, TheOther
<1>7. tsourcesink => tsent'[2] = 0 /\ tpc'[1] \in {"write", "end", "exit"} /\ tpc'[2] \in {"sock", "again", "end", "exit"}
  BY <1>2, <1>3 DEF TcpInv
<1>8. QED BY <1>2, <1>4, <1>5, <1>6, <1>7 DEF TcpInv
-----------------------------------------------------------------------------
\* Every step of an end.
LEMMA TcpStepOfOne ==
  ASSUME TcpInv, NEW p \in {1, 2}, T!Step(p)
  PROVE  TcpInv'
<1>0. /\ tsent[3 - p] \in Nat /\ rd[p] \in Nat /\ rd[p] <= tsent[3 - p]
      /\ tpc \in [{1, 2} -> {"select", "in", "write", "sock", "again", "end", "exit", "error"}]
  BY TheOther DEF TcpInv, TcpTypeOK, PrintedAt
<1>1. /\ tsourcesink => IF p = 1 THEN tpc[p] \in {"write", "end", "exit"} ELSE tpc[p] \in {"sock", "again", "end", "exit"}
      /\ tsourcesink \/ half = {1, 2} => HalfClosed(p)
  BY TheOther DEF TcpInv
<1>2. CASE T!Select(p)
  <2>1. /\ tpc[p] = "select" /\ UNCHANGED <<tsourcesink, half, tpeek, tsent, rd, tout, tfin, rst, stdineof>>
        /\ tpc' = [tpc EXCEPT ![p] = IF "in" \in T!Ready(p) THEN "in" ELSE "sock"]
    BY <1>2 DEF T!Select, T!Goto, T!Data, T!conf
  <2>2. "in" \in T!Ready(p) => p \notin stdineof
    BY DEF T!Ready
  <2>3. ~tsourcesink /\ (half = {1, 2} /\ p \in tfin => p \in stdineof)
    BY <1>1, <2>1 DEF HalfClosed
  <2>4. CASE "in" \in T!Ready(p)
    BY <2>1, <2>2, <2>3, <2>4, TcpMoves
  <2>5. CASE "in" \notin T!Ready(p)
    BY <2>1, <2>3, <2>5, TcpMoves
  <2>6. QED BY <2>4, <2>5
<1>3. CASE T!ReadInput(p)
  <2>1. tpc[p] = "in" /\ UNCHANGED <<tsourcesink, half, tpeek, tsent, rd, rst, tout>>
    BY <1>3 DEF T!ReadInput, T!conf
  <2>2. ~tsourcesink /\ (half = {1, 2} => p \notin tfin)
    BY <1>1, <2>1 DEF HalfClosed
  <2>3. CASE tpc' = [tpc EXCEPT ![p] = "write"] /\ UNCHANGED <<stdineof, tfin>>
    BY <2>1, <2>2, <2>3, TcpMoves
  <2>4. CASE p \in half /\ tpc' = [tpc EXCEPT ![p] = "select"] /\ stdineof' = stdineof \cup {p} /\ tfin' = tfin \cup {p}
    BY <2>1, <2>2, <2>4, TcpShuts
  <2>5. CASE p \notin half /\ tpc' = [tpc EXCEPT ![p] = "end"] /\ UNCHANGED <<stdineof, tfin>>
    BY <2>1, <2>2, <2>5, TcpMoves
  <2>6. QED BY <1>3, <2>3, <2>4, <2>5 DEF T!ReadInput, T!Goto
<1>4. CASE T!Write(p)
  <2>1. /\ tpc[p] = "write" /\ ~(tsourcesink /\ p = 1)
        /\ UNCHANGED <<tsourcesink, half, tpeek, rd, tout, tfin, stdineof>>
    BY <1>4 DEF T!Write, T!conf, T!Sourcing, T!Client
  <2>2. ~tsourcesink
    BY <1>1, <2>1
  <2>3. CASE p \in rst /\ tpc' = [tpc EXCEPT ![p] = "error"] /\ UNCHANGED <<tsent, rst>>
    <3>1. half # {1, 2}
      BY <1>1, <2>3 DEF HalfClosed
    <3>2. QED BY <2>1, <2>2, <2>3, <3>1, TcpMoves
  <2>4. CASE /\ tsent' = [tsent EXCEPT ![p] = @ + 1]
             /\ rst' = IF T!Gone(T!Peer(p)) THEN rst \cup {p} ELSE rst
             /\ tpc' = [tpc EXCEPT ![p] = IF "sock" \in trset[p] THEN "sock" ELSE "select"]
    <3>1. rst' = rst \/ (rst' = rst \cup {p} /\ tpc[3 - p] \in {"exit", "error"} /\ ~tsourcesink)
      BY <2>2, <2>4 DEF T!Gone, T!Peer
    <3>2. CASE "sock" \in trset[p]
      BY <2>1, <2>2, <2>4, <3>1, <3>2, TcpWrites
    <3>3. CASE "sock" \notin trset[p]
      BY <2>1, <2>2, <2>4, <3>1, <3>3, TcpWrites
    <3>4. QED BY <3>2, <3>3
  <2>5. QED BY <1>4, <2>3, <2>4 DEF T!Write, T!Goto
<1>5. CASE T!Recv(p)
  <2>1. tpc[p] = "sock" /\ UNCHANGED <<tsourcesink, half, tpeek, tsent, tfin, rst, stdineof>>
    BY <1>5 DEF T!Recv, T!conf
  <2>2. tsourcesink => p = 2
    BY <1>1, <2>1, TheOther
  <2>3. CASE /\ tsent[3 - p] - rd[p] = 0 /\ tpc' = [tpc EXCEPT ![p] = IF p \in rst THEN "error" ELSE "end"]
             /\ p \in rst \/ 3 - p \in tfin
             /\ UNCHANGED <<rd, tout>>
    <3>1. UNCHANGED <<rd, tout>>
      BY <2>3
    <3>2. CASE p \in rst
      <4>1. ~tsourcesink /\ half # {1, 2}
        BY <1>1, <3>2 DEF HalfClosed
      <4>2. QED BY <2>1, <2>3, <3>1, <3>2, <4>1, TcpMoves
    <3>3. CASE p \notin rst
      <4>1. rd[p] = tsent[3 - p]
        BY <1>0, <2>3
      <4>2. QED BY <2>1, <2>2, <2>3, <3>1, <3>3, <4>1, TcpMoves
    <3>4. QED BY <3>2, <3>3
  <2>4. ASSUME NEW n \in 1..(tsent[3 - p] - rd[p]),
               tout' = [tout EXCEPT ![p] = @ \o [k \in 1..n |-> rd[p] + k]],
               IF p \in tpeek THEN tpc' = [tpc EXCEPT ![p] = "again"] /\ UNCHANGED rd
               ELSE tpc' = [tpc EXCEPT ![p] = IF tsourcesink /\ p = 2 THEN "sock" ELSE "select"]
                    /\ rd' = [rd EXCEPT ![p] = @ + n]
        PROVE  TcpInv'
    <3>1. n \in 0..(tsent[3 - p] - rd[p]) /\ n > 0
      BY <1>0
    <3>2. CASE p \in tpeek
      BY <2>1, <2>4, <3>1, <3>2, TcpReads
    <3>3. CASE p \notin tpeek
      <4> DEFINE l == IF tsourcesink /\ p = 2 THEN "sock" ELSE "select"
      <4>1. l \in {"select", "sock", "again"} /\ l # "again" /\ (tsourcesink => l # "select")
        BY <2>2
      <4> HIDE DEF l
      <4>2. tpc' = [tpc EXCEPT ![p] = l]
        BY <2>4, <3>3 DEF l
      <4>3. QED BY <2>1, <2>4, <3>1, <3>3, <4>1, <4>2, TcpReads
    <3>4. QED BY <3>2, <3>3
  <2>5. QED BY <1>5, <2>3, <2>4 DEF T!Recv, T!Goto, T!Unread, T!Peer, T!Units, T!After, T!Sinking, T!Server
<1>6. CASE T!Oncemore(p)
  <2> DEFINE l == IF tsourcesink /\ p = 2 THEN "sock" ELSE "select"
  <2>1. PICK n \in tout[p][Len(tout[p])] - rd[p] .. tsent[3 - p] - rd[p] :
        /\ tpc[p] = "again" /\ UNCHANGED <<tsourcesink, half, tpeek, tsent, tfin, rst, stdineof>>
        /\ tout' = [tout EXCEPT ![p] = @ \o [k \in 1..n |-> rd[p] + k]]
        /\ rd' = [rd EXCEPT ![p] = @ + n] /\ tpc' = [tpc EXCEPT ![p] = l]
    BY <1>6 DEF T!Oncemore, T!Goto, T!Unread, T!Peer, T!Units, T!After, T!Sinking, T!Server, T!conf
  <2>2. l \in {"select", "sock", "again"} /\ l # "again" /\ (tsourcesink => l # "select")
    BY <1>1, <2>1, TheOther
  <2>3. n \in 0..(tsent[3 - p] - rd[p]) /\ tout[p][Len(tout[p])] <= rd[p] + n
    <3>1. PICK m \in 0..(tsent[3 - p] - rd[p]) : LookedAt(p, m)
      BY <2>1 DEF TcpInv, PrintedAt
    <3>2. QED BY <1>0, <2>1, <3>1 DEF LookedAt
  <2> HIDE DEF l
  <2>4. QED BY <2>1, <2>2, <2>3, TcpReads
<1>7. CASE T!Source(p)
  <2>1. /\ tpc[p] = "write" /\ tsourcesink /\ p = 1
        /\ UNCHANGED <<tsourcesink, half, tpeek, rd, tout, tfin, rst, stdineof>>
    BY <1>7 DEF T!Source, T!conf, T!Sourcing, T!Client
  <2>2. CASE tpc' = [tpc EXCEPT ![p] = "end"] /\ UNCHANGED tsent
    BY <2>1, <2>2, TcpMoves
  <2>3. CASE tsent' = [tsent EXCEPT ![p] = @ + 1] /\ UNCHANGED tpc
    <3>1. tpc' = [tpc EXCEPT ![p] = "write"]
      BY <1>0, <2>1, <2>3
    <3>2. QED BY <2>1, <2>3, <3>1, TcpWrites
  <2>4. QED BY <1>7, <2>2, <2>3 DEF T!Source, T!Goto
<1>8. QED BY <1>2, <1>3, <1>4, <1>5, <1>6, <1>7, TcpCloses DEF T!Step

\* Every step of sock over TCP keeps the invariant.
LEMMA TcpStep ==
  ASSUME TcpInv, [T!Next]_(T!vars)
  PROVE  TcpInv'
<1>1. ASSUME UNCHANGED <<tsourcesink, half, tpeek, tpc, tsent, rd, tout, tfin, rst, stdineof>>
      PROVE  TcpInv'
  <2>1. TcpTypeOK /\ TcpTypeOK'
    BY <1>1 DEF TcpInv, TcpTypeOK
  <2>2. \A p \in {1, 2} : PrintedAt(p)'
    <3>1. \A p \in {1, 2} : tsent[3 - p] \in Nat
      BY <2>1, TheOther DEF TcpTypeOK
    <3>2. QED BY <1>1, <2>1, <3>1, PrintedSame DEF TcpInv
  <2>3. \A p \in {1, 2} : tsourcesink \/ half = {1, 2} => HalfClosed(p)'
    BY <1>1 DEF TcpInv, HalfClosed
  <2>4. QED BY <1>1, <2>1, <2>2, <2>3 DEF TcpInv
<1>2. ASSUME NEW p \in {1, 2}, T!Type(p) PROVE TcpInv'
  BY <1>1, <1>2 DEF T!Type, T!conf, T!Data
<1>3. CASE UNCHANGED T!vars
  BY <1>1, <1>3 DEF T!vars, T!conf
<1>4. QED BY <1>2, <1>3, TcpStepOfOne DEF T!Next, T!Ends, T!Client, T!Server

\* What the invariant says of what has been printed and of who has gone.
LEMMA TcpSafe == TcpInv => T!SockTCPSafe
<1>1. ASSUME TcpInv
      PROVE  T!SockTCPSafe
  <2>0. TcpTypeOK /\ \A p \in {1, 2} : tout[p] \in Seq(Nat \ {0}) /\ rd[p] \in Nat
    BY <1>1 DEF TcpInv, TcpTypeOK
  <2>1. ASSUME NEW p \in {1, 2}
        PROVE  /\ p \notin tpeek => tout[p] = [k \in 1..rd[p] |-> k]
               /\ p \in tpeek => \A k \in 1..rd[p] : Often(tout[p], k) \in {1, 2}
               /\ \A k \in 1..Len(tout[p]) : tout[p][k] <= rd[p] \/ tpc[p] = "again"
    <3>1. PrintedAt(p)
      BY <1>1 DEF TcpInv
    <3>2. CASE p \notin tpeek
      <4>1. Len(tout[p]) = rd[p] /\ \A k \in 1..rd[p] : tout[p][k] = k
        BY <3>1, <3>2 DEF PrintedAt
      <4>2. tout[p] \in [1..Len(tout[p]) -> Nat \ {0}]
        BY <2>0
      <4>3. tout[p] = [k \in 1..rd[p] |-> k]
        BY <4>1, <4>2
      <4>4. \A k \in 1..Len(tout[p]) : tout[p][k] <= rd[p]
        BY <2>0, <4>1
      <4>5. QED BY <3>2, <4>3, <4>4
    <3>3. CASE p \in tpeek
      <4>1. \A k \in 1..rd[p] : Often(tout[p], k) \in {1, 2}
        <5>1. \A k \in 1..rd[p] : k \in Nat \ {0} /\ k <= rd[p]
          BY <2>0
        <5>2. QED BY <3>1, <3>3, <5>1 DEF PrintedAt
      <4>2. ASSUME NEW k \in 1..Len(tout[p]), tpc[p] # "again"
            PROVE  tout[p][k] <= rd[p]
        <5>1. tout[p][k] \in Nat \ {0} /\ Often(tout[p], tout[p][k]) > 0
          BY <2>0, QueueIn, OftenFacts
        <5>2. \A j \in Nat \ {0} : Often(tout[p], j) \in IF j <= rd[p] THEN {1, 2} ELSE IF j <= rd[p] + 0 THEN {1} ELSE {0}
          BY <3>1, <3>3, <4>2 DEF PrintedAt
        <5>3. rd[p] + 0 = rd[p]
          BY <2>0
        <5>4. QED BY <5>1, <5>2, <5>3
      <4>3. QED BY <3>3, <4>1, <4>2
    <3>4. QED BY <3>2, <3>3
  <2>2. \A p \in {1, 2} : \A k : T!Times(p, k) = Often(tout[p], k)
    BY SameCardinalityT DEF T!Times, Often, Where
  <2>3. T!Printed
    BY <2>1, <2>2 DEF T!Printed, T!Ends, T!Client, T!Server
  <2>4. T!NothingLost
    <3>1. SUFFICES ASSUME \A q \in {1, 2} : tpc[q] \in {"exit", "error"}, tsourcesink \/ half = {1, 2}, NEW p \in {1, 2}
                   PROVE  tpc[p] = "exit" /\ rd[p] = tsent[3 - p]
      BY DEF T!NothingLost, T!Gone, T!Ends, T!Client, T!Server, T!Peer
    <3>2. HalfClosed(p) /\ PrintedAt(p) /\ tpc[p] = "exit"
      BY <1>1, <3>1 DEF TcpInv, HalfClosed
    <3>3. CASE tsourcesink /\ p = 1
      <4>1. tsent[2] = 0 /\ rd[1] <= tsent[2] /\ rd[1] \in Nat
        BY <1>1, <2>0, <3>2, <3>3 DEF TcpInv, PrintedAt
      <4>2. QED BY <3>2, <3>3, <4>1
    <3>4. CASE ~(tsourcesink /\ p = 1)
      BY <3>2, <3>4 DEF HalfClosed
    <3>5. QED BY <3>3, <3>4
  <2>5. QED BY <2>3, <2>4 DEF T!SockTCPSafe
<1>2. QED BY <1>1

\* SockTCPSafe, a part of SockSafe: everything read is printed in order and once, or
\* with -Z once or twice; and with -h on both sides, or from a source to its sink,
\* nothing that was written is lost, however the two ends come to their end.
THEOREM NothingIsLost == T!Spec => []T!SockTCPSafe
BY TcpSafe, TcpStart, TcpStep, PTL DEF T!Spec

-----------------------------------------------------------------------------
(***************************************************************************)
(* sock over UDP.  That nothing is printed more often than it may be needs *)
(* the place of each datagram: in the network, at the socket or printed,   *)
(* and never in two of these but for the one that has been looked at.      *)
(***************************************************************************)
UdpTypeOK ==
  /\ usourcesink \in BOOLEAN /\ ignorewerr \in BOOLEAN /\ foreign \in BOOLEAN /\ upeek \in BOOLEAN
  /\ zero \in BOOLEAN /\ (zero => usourcesink)
  /\ connectudp \subseteq {1, 2} /\ refused \subseteq {1, 2} /\ blamed \subseteq {1, 2}
  /\ upc \in [{1, 2} -> {"down", "select", "in", "sock", "again", "write", "exit", "error"}]
  /\ servaddr \in [{1, 2} -> {"garbage", "peer", "stranger"}]
  /\ usent \in [{1, 2} -> Nat]
  /\ inq \in [{1, 2} -> Seq(Nat \ {0})] /\ uout \in [{1, 2} -> Seq(Nat \ {0})]
  /\ flight \subseteq {1, 2} \X (Nat \ {0})

\* Where each end can be; whose errors wait; where the addresses come from.
Ways ==
  /\ usourcesink => /\ upc[1] \in {"down", "write", "exit", "error"}
                    /\ upc[2] \in {"down", "sock", "again", "exit", "error"}
  /\ ~usourcesink => upc[1] # "write" /\ upc[2] # "write"
  /\ \A p \in refused : p \in blamed /\ U!Connected(p)
  /\ servaddr[2] = "garbage" /\ (servaddr[1] = "peer" => usent[2] >= 1)

\* A datagram is in one place: in the network, at the socket or printed; but for the
\* first at the socket after it has been looked at.
OnceAt(p) ==
  /\ \A k \in Nat \ {0} :
       /\ Often(uout[p], k) <= (IF U!Peeks(p) THEN 2 ELSE 1)
       /\ Often(uout[p], k) > 0 => k <= usent[3 - p]
       /\ <<p, k>> \in flight => /\ Often(uout[p], k) = 0 /\ k <= usent[3 - p]
                                 /\ \A j \in 1..Len(inq[p]) : inq[p][j] # k
  /\ \A j \in 1..Len(inq[p]) :
       /\ inq[p][j] <= usent[3 - p]
       /\ upc[p] # "error" => Often(uout[p], inq[p][j]) = 0 \/ (j = 1 /\ upc[p] = "again")
  /\ \A j, k \in 1..Len(inq[p]) : inq[p][j] = inq[p][k] => j = k
  /\ upc[p] = "again" => U!Peeks(p) /\ inq[p] # <<>> /\ Often(uout[p], inq[p][1]) <= 1

Once == \A p \in {1, 2} : OnceAt(p)

\* Another host is heard only by who is not connected.
Strays ==
  /\ stray \in [{1, 2} -> {"none", "empty", "text"}]
  /\ \A p \in {1, 2} : stray[p] # "none" => ~U!Connected(p)

UdpInv == UdpTypeOK /\ Ways /\ Once /\ U!Mute /\ U!DiesOfItsOwn /\ U!GoesOn

\* The Cardinality of an instance is the library's.
LEMMA SameCardinalityU ==
  ASSUME NEW Elem PROVE U!Cardinality(Elem) = Cardinality(Elem)
BY DEF U!Cardinality, Cardinality

\* The invariant holds at the start of sock over UDP.
LEMMA UdpStart ==
  ASSUME U!Init
  PROVE  UdpInv /\ Strays
<1>1. /\ usourcesink \in BOOLEAN /\ ignorewerr \in BOOLEAN /\ foreign \in BOOLEAN /\ upeek \in BOOLEAN
      /\ zero \in BOOLEAN /\ (zero => usourcesink) /\ stray = [p \in {1, 2} |-> "none"]
      /\ connectudp \subseteq {1, 2} /\ refused = {} /\ blamed = {} /\ flight = {}
      /\ upc = [p \in {1, 2} |-> "down"] /\ servaddr = [p \in {1, 2} |-> "garbage"]
      /\ usent = [p \in {1, 2} |-> 0] /\ inq = [p \in {1, 2} |-> <<>>] /\ uout = [p \in {1, 2} |-> <<>>]
  BY DEF U!Init, U!Ends, U!Client, U!Server
<1>2. UdpTypeOK
  <2>1. <<>> \in Seq(Nat \ {0})
    OBVIOUS
  <2>2. /\ inq \in [{1, 2} -> Seq(Nat \ {0})] /\ uout \in [{1, 2} -> Seq(Nat \ {0})]
    BY <1>1, <2>1
  <2>3. QED BY <1>1, <2>2 DEF UdpTypeOK
<1>3. Ways
  BY <1>1 DEF Ways
<1>4. Once
  <2>1. ASSUME NEW p \in {1, 2}
        PROVE  OnceAt(p)
    <3>1. \A k : Often(<<>>, k) = 0
      <4>1. <<>> \in Seq(Nat \ {0})
        OBVIOUS
      <4>2. QED BY <4>1, OftenFacts
    <3>2. Len(inq[p]) = 0 /\ uout[p] = <<>> /\ upc[p] = "down" /\ flight = {} /\ usent[3 - p] = 0
      BY <1>1
    <3>3. QED BY <3>1, <3>2 DEF OnceAt
  <2>2. QED BY <2>1 DEF Once
<1>5. U!Mute /\ U!DiesOfItsOwn /\ U!GoesOn
  <2>1. usent = <<0, 0>>
    BY <1>1
  <2>2. QED BY <1>1, <2>1 DEF U!Mute, U!DiesOfItsOwn, U!GoesOn, U!Ends, U!Client, U!Server
<1>6. Strays
  BY <1>1 DEF Strays
<1>7. QED BY <1>2, <1>3, <1>4, <1>5, <1>6 DEF UdpInv

\* What happens at one end leaves the datagrams of the other in their places.
LEMMA OnceSame ==
  ASSUME NEW p \in {1, 2}, OnceAt(p), uout'[p] = uout[p], inq'[p] = inq[p], usent'[3 - p] = usent[3 - p],
         \A k : <<p, k>> \in flight' => <<p, k>> \in flight,
         UNCHANGED <<usourcesink, connectudp, upeek>>,
         \/ upc'[p] = upc[p] \/ upc'[p] = "error"
         \/ upc[p] # "again" /\ upc[p] # "error" /\ upc'[p] # "again"
  PROVE  OnceAt(p)'
<1>1. U!Peeks(p)' = U!Peeks(p)
  BY DEF U!Peeks
<1>2. \A k \in Nat \ {0} :
        /\ Often(uout'[p], k) <= (IF U!Peeks(p)' THEN 2 ELSE 1)
        /\ Often(uout'[p], k) > 0 => k <= usent'[3 - p]
        /\ <<p, k>> \in flight' => /\ Often(uout'[p], k) = 0 /\ k <= usent'[3 - p]
                                   /\ \A j \in 1..Len(inq'[p]) : inq'[p][j] # k
  BY <1>1 DEF OnceAt
<1>3. \A j \in 1..Len(inq'[p]) :
        /\ inq'[p][j] <= usent'[3 - p]
        /\ upc'[p] # "error" => Often(uout'[p], inq'[p][j]) = 0 \/ (j = 1 /\ upc'[p] = "again")
  BY DEF OnceAt
<1>4. /\ \A j, k \in 1..Len(inq'[p]) : inq'[p][j] = inq'[p][k] => j = k
      /\ upc'[p] = "again" => U!Peeks(p)' /\ inq'[p] # <<>> /\ Often(uout'[p], inq'[p][1]) <= 1
  BY <1>1 DEF OnceAt
<1>5. QED BY <1>2, <1>3, <1>4 DEF OnceAt

\* A datagram that is sent.
LEMMA OnceSent ==
  ASSUME NEW p \in {1, 2}, UdpTypeOK, OnceAt(p), uout'[p] = uout[p], inq'[p] = inq[p], upc'[p] = upc[p],
         usent'[3 - p] = usent[3 - p] + 1,
         \A k : <<p, k>> \in flight' => <<p, k>> \in flight \/ k = usent[3 - p] + 1,
         UNCHANGED <<usourcesink, connectudp, upeek>>
  PROVE  OnceAt(p)'
<1>0. usent[3 - p] \in Nat /\ inq[p] \in Seq(Nat \ {0}) /\ uout[p] \in Seq(Nat \ {0})
  BY DEF UdpTypeOK
<1>1. U!Peeks(p)' = U!Peeks(p)
  BY DEF U!Peeks
<1>2. \A k : Often(uout[p], k) \in Nat
  BY <1>0, OftenFacts
<1>3. \A j \in 1..Len(inq[p]) : inq[p][j] \in Nat
  BY <1>0, QueueIn
<1>4. \A j \in 1..Len(inq[p]) : inq[p][j] <= usent[3 - p] /\ inq[p][j] # usent[3 - p] + 1
  BY <1>0, <1>3 DEF OnceAt
<1>5. Often(uout[p], usent[3 - p] + 1) = 0
  <2> DEFINE n == usent[3 - p] + 1
  <2>0. n \in Nat \ {0} /\ ~(n <= usent[3 - p])
    BY <1>0
  <2> HIDE DEF n
  <2>1. ~(Often(uout[p], n) > 0)
    BY <2>0 DEF OnceAt
  <2> USE DEF n
  <2>2. QED BY <1>2, <2>1
<1>6. ASSUME NEW k \in Nat \ {0}
      PROVE  /\ Often(uout'[p], k) <= (IF U!Peeks(p)' THEN 2 ELSE 1)
             /\ Often(uout'[p], k) > 0 => k <= usent'[3 - p]
             /\ <<p, k>> \in flight' => /\ Often(uout'[p], k) = 0 /\ k <= usent'[3 - p]
                                        /\ \A j \in 1..Len(inq'[p]) : inq'[p][j] # k
  <2>1. Often(uout[p], k) <= (IF U!Peeks(p) THEN 2 ELSE 1) /\ (Often(uout[p], k) > 0 => k <= usent[3 - p])
    BY DEF OnceAt
  <2>2. CASE <<p, k>> \in flight
    BY <1>0, <1>1, <2>1, <2>2 DEF OnceAt
  <2>3. CASE k = usent[3 - p] + 1
    BY <1>0, <1>1, <1>4, <1>5, <2>1, <2>3
  <2>4. CASE <<p, k>> \notin flight'
    BY <1>0, <1>1, <2>1, <2>4
  <2>5. QED BY <2>2, <2>3, <2>4
<1>7. \A j \in 1..Len(inq'[p]) :
        /\ inq'[p][j] <= usent'[3 - p]
        /\ upc'[p] # "error" => Often(uout'[p], inq'[p][j]) = 0 \/ (j = 1 /\ upc'[p] = "again")
  BY <1>0, <1>3, <1>4 DEF OnceAt
<1>8. /\ \A j, k \in 1..Len(inq'[p]) : inq'[p][j] = inq'[p][k] => j = k
      /\ upc'[p] = "again" => U!Peeks(p)' /\ inq'[p] # <<>> /\ Often(uout'[p], inq'[p][1]) <= 1
  BY <1>1 DEF OnceAt
<1>9. QED BY <1>6, <1>7, <1>8 DEF OnceAt

\* A datagram that is printed, and stays at the socket if it is only looked at.
LEMMA OncePrinted ==
  ASSUME NEW p \in {1, 2}, UdpTypeOK, OnceAt(p), inq[p] # <<>>, uout'[p] = Append(uout[p], Head(inq[p])),
         usent'[3 - p] = usent[3 - p], flight' = flight, UNCHANGED <<usourcesink, connectudp, upeek>>,
         \/ upc[p] = "sock" /\ ~U!Peeks(p) /\ inq'[p] = Tail(inq[p]) /\ upc'[p] # "again"
         \/ upc[p] = "sock" /\ U!Peeks(p) /\ inq'[p] = inq[p] /\ upc'[p] = "again"
         \/ upc[p] = "again" /\ inq'[p] = Tail(inq[p]) /\ upc'[p] # "again"
  PROVE  OnceAt(p)'
<1> DEFINE x == Head(inq[p])
<1>0. usent[3 - p] \in Nat /\ inq[p] \in Seq(Nat \ {0}) /\ uout[p] \in Seq(Nat \ {0})
  BY DEF UdpTypeOK
<1>1. U!Peeks(p)' = U!Peeks(p)
  BY DEF U!Peeks
<1>2. /\ x = inq[p][1] /\ x \in Nat \ {0} /\ Len(inq[p]) \in Nat \ {0} /\ Len(Tail(inq[p])) = Len(inq[p]) - 1
      /\ \A j \in 1..Len(Tail(inq[p])) : Tail(inq[p])[j] = inq[p][j + 1]
      /\ \A j \in 1..Len(inq[p]) : inq[p][j] \in Nat \ {0}
  BY <1>0, QueueIn
<1>3. 1 \in 1..Len(inq[p]) /\ \A j \in 1..Len(Tail(inq[p])) : j + 1 \in 1..Len(inq[p]) /\ j + 1 # 1
  BY <1>2
<1> HIDE DEF x
<1>4. /\ \A k : Often(uout[p], k) \in Nat
      /\ \A k : Often(uout'[p], k) = Often(uout[p], k) + (IF k = x THEN 1 ELSE 0)
  BY SMTT(30), <1>0, <1>2, OftenFacts DEF x
<1>5. /\ x <= usent[3 - p] /\ <<p, x>> \notin flight
      /\ upc[p] = "sock" => Often(uout[p], x) = 0
      /\ upc[p] = "again" => U!Peeks(p) /\ Often(uout[p], x) <= 1
  BY <1>2, <1>3 DEF OnceAt
<1>6. inq'[p] = inq[p] \/ inq'[p] = Tail(inq[p])
  OBVIOUS
<1>7. ASSUME NEW j \in 1..Len(inq'[p])
      PROVE  \E m \in 1..Len(inq[p]) : inq'[p][j] = inq[p][m]
  BY <1>2, <1>3, <1>6
<1>8. ASSUME NEW k \in Nat \ {0}
      PROVE  /\ Often(uout'[p], k) <= (IF U!Peeks(p)' THEN 2 ELSE 1)
             /\ Often(uout'[p], k) > 0 => k <= usent'[3 - p]
             /\ <<p, k>> \in flight' => /\ Often(uout'[p], k) = 0 /\ k <= usent'[3 - p]
                                        /\ \A j \in 1..Len(inq'[p]) : inq'[p][j] # k
  <2>1. CASE k = x
    <3>1. Often(uout'[p], k) = Often(uout[p], x) + 1 /\ Often(uout[p], x) \in Nat
      BY <1>4, <2>1
    <3>2. upc[p] \in {"sock", "again"}
      OBVIOUS
    <3>3. QED BY <1>1, <1>5, <2>1, <3>1, <3>2
  <2>2. CASE k # x
    <3>1. Often(uout'[p], k) = Often(uout[p], k)
      BY <1>4, <2>2
    <3>2. /\ Often(uout[p], k) <= (IF U!Peeks(p) THEN 2 ELSE 1)
          /\ Often(uout[p], k) > 0 => k <= usent[3 - p]
          /\ <<p, k>> \in flight => /\ Often(uout[p], k) = 0 /\ k <= usent[3 - p]
                                    /\ \A j \in 1..Len(inq[p]) : inq[p][j] # k
      BY DEF OnceAt
    <3>3. <<p, k>> \in flight => \A j \in 1..Len(inq'[p]) : inq'[p][j] # k
      BY <1>7, <3>2
    <3>4. QED BY <1>1, <3>1, <3>2, <3>3
  <2>3. QED BY <2>1, <2>2
<1>9. CASE inq'[p] = inq[p] /\ upc[p] = "sock" /\ upc'[p] = "again" /\ U!Peeks(p)
  <2>1. ASSUME NEW j \in 1..Len(inq[p]), j # 1
        PROVE  Often(uout'[p], inq[p][j]) = 0
    <3>1. inq[p][j] # x
      BY <1>2, <1>3, <2>1 DEF OnceAt
    <3>2. Often(uout[p], inq[p][j]) = 0
      BY <1>9, <2>1 DEF OnceAt
    <3>3. QED BY <1>4, <3>1, <3>2
  <2>2. Often(uout'[p], x) = 1
    BY <1>4, <1>5, <1>9
  <2>3. \A j \in 1..Len(inq'[p]) :
          /\ inq'[p][j] <= usent'[3 - p]
          /\ upc'[p] # "error" => Often(uout'[p], inq'[p][j]) = 0 \/ (j = 1 /\ upc'[p] = "again")
    BY <1>9, <2>1 DEF OnceAt
  <2>4. /\ \A j, k \in 1..Len(inq'[p]) : inq'[p][j] = inq'[p][k] => j = k
        /\ upc'[p] = "again" => U!Peeks(p)' /\ inq'[p] # <<>> /\ Often(uout'[p], inq'[p][1]) <= 1
    BY <1>1, <1>2, <1>9, <2>2 DEF OnceAt
  <2>5. QED BY <1>8, <2>3, <2>4 DEF OnceAt
<1>10. CASE inq'[p] = Tail(inq[p]) /\ upc'[p] # "again"
  <2>1. ASSUME NEW j \in 1..Len(inq'[p])
        PROVE  inq'[p][j] <= usent'[3 - p] /\ Often(uout'[p], inq'[p][j]) = 0
    <3>1. inq'[p][j] = inq[p][j + 1] /\ j + 1 \in 1..Len(inq[p]) /\ j + 1 # 1
      BY <1>2, <1>3, <1>10, <2>1
    <3>2. inq[p][j + 1] # x /\ inq[p][j + 1] <= usent[3 - p]
      BY <1>2, <1>3, <3>1 DEF OnceAt
    <3>3. upc[p] # "error"
      OBVIOUS
    <3>4. Often(uout[p], inq[p][j + 1]) = 0
      BY <3>1, <3>3 DEF OnceAt
    <3>5. QED BY <1>4, <3>1, <3>2, <3>4
  <2>2. \A j, k \in 1..Len(inq'[p]) : inq'[p][j] = inq'[p][k] => j = k
    <3> TAKE j, k \in 1..Len(inq'[p])
    <3>1. inq[p][j + 1] = inq[p][k + 1] => j + 1 = k + 1
      BY <1>3, <1>10 DEF OnceAt
    <3>2. QED BY <1>2, <1>10, <3>1
  <2>3. QED BY <1>8, <1>10, <2>1, <2>2 DEF OnceAt
<1>11. QED BY <1>9, <1>10

\* A datagram that arrives at the socket.
LEMMA OnceArrives ==
  ASSUME NEW p \in {1, 2}, UdpTypeOK, OnceAt(p), NEW x \in Nat \ {0}, <<p, x>> \in flight, flight' = flight \ {<<p, x>>},
         uout'[p] = uout[p], inq'[p] = Append(inq[p], x), usent'[3 - p] = usent[3 - p], upc'[p] = upc[p],
         UNCHANGED <<usourcesink, connectudp, upeek>>
  PROVE  OnceAt(p)'
<1>0. usent[3 - p] \in Nat /\ inq[p] \in Seq(Nat \ {0}) /\ uout[p] \in Seq(Nat \ {0})
  BY DEF UdpTypeOK
<1>1. U!Peeks(p)' = U!Peeks(p)
  BY DEF U!Peeks
<1>2. /\ Len(inq'[p]) = Len(inq[p]) + 1 /\ inq'[p][Len(inq[p]) + 1] = x /\ Len(inq[p]) \in Nat
      /\ \A k \in 1..Len(inq[p]) : inq'[p][k] = inq[p][k]
  BY <1>0, SeqFacts
<1>3. \A k \in 1..Len(inq'[p]) : k \in 1..Len(inq[p]) \/ k = Len(inq[p]) + 1
  BY <1>2
<1>4. /\ Often(uout[p], x) = 0 /\ x <= usent[3 - p] /\ \A j \in 1..Len(inq[p]) : inq[p][j] # x
  BY DEF OnceAt
<1>5. ASSUME NEW k \in Nat \ {0}
      PROVE  /\ Often(uout'[p], k) <= (IF U!Peeks(p)' THEN 2 ELSE 1)
             /\ Often(uout'[p], k) > 0 => k <= usent'[3 - p]
             /\ <<p, k>> \in flight' => /\ Often(uout'[p], k) = 0 /\ k <= usent'[3 - p]
                                        /\ \A j \in 1..Len(inq'[p]) : inq'[p][j] # k
  <2>1. /\ Often(uout[p], k) <= (IF U!Peeks(p) THEN 2 ELSE 1)
        /\ Often(uout[p], k) > 0 => k <= usent[3 - p]
        /\ <<p, k>> \in flight => /\ Often(uout[p], k) = 0 /\ k <= usent[3 - p]
                                  /\ \A j \in 1..Len(inq[p]) : inq[p][j] # k
    BY DEF OnceAt
  <2>2. <<p, k>> \in flight' => k # x /\ <<p, k>> \in flight
    OBVIOUS
  <2>3. QED BY <1>1, <1>2, <1>3, <2>1, <2>2
<1>6. \A j \in 1..Len(inq'[p]) :
        /\ inq'[p][j] <= usent'[3 - p]
        /\ upc'[p] # "error" => Often(uout'[p], inq'[p][j]) = 0 \/ (j = 1 /\ upc'[p] = "again")
  BY <1>2, <1>3, <1>4 DEF OnceAt
<1>7. \A j, k \in 1..Len(inq'[p]) : inq'[p][j] = inq'[p][k] => j = k
  <2> TAKE j, k \in 1..Len(inq'[p])
  <2>1. CASE j \in 1..Len(inq[p]) /\ k \in 1..Len(inq[p])
    BY <1>2, <2>1 DEF OnceAt
  <2>2. CASE j = Len(inq[p]) + 1 \/ k = Len(inq[p]) + 1
    BY <1>2, <1>3, <1>4, <2>2
  <2>3. QED BY <1>3, <2>1, <2>2
<1>8. upc'[p] = "again" => U!Peeks(p)' /\ inq'[p] # <<>> /\ Often(uout'[p], inq'[p][1]) <= 1
  <2>1. inq'[p] # <<>>
    BY <1>0, <1>2
  <2>2. upc[p] = "again" => inq'[p][1] = inq[p][1]
    <3>1. upc[p] = "again" => inq[p] # <<>>
      BY DEF OnceAt
    <3>2. inq[p] # <<>> => 1 \in 1..Len(inq[p])
      BY <1>0
    <3>3. QED BY <1>2, <3>1, <3>2
  <2>3. QED BY <1>1, <2>1, <2>2 DEF OnceAt
<1>9. QED BY <1>5, <1>6, <1>7, <1>8 DEF OnceAt

\* An end goes on, or comes to an end of which the reason is given.
LEMMA EndMoves ==
  ASSUME UdpInv, NEW p \in {1, 2}, upc[p] # "error", NEW l, upc' = [upc EXCEPT ![p] = l],
         l \in {"select", "in", "sock", "write", "exit", "error"}, upc[p] = "again" => l = "error",
         UNCHANGED <<usourcesink, ignorewerr, connectudp, foreign, upeek, zero, usent, flight, inq, blamed, uout>>,
         servaddr' = servaddr \/ (p = 1 /\ servaddr' = [servaddr EXCEPT ![1] = "stranger"]),
         refused' \subseteq refused,
         IF usourcesink THEN (p = 1 /\ l \in {"write", "exit", "error"}) \/ (p = 2 /\ l \in {"sock", "exit", "error"})
                        ELSE l # "write",
         l = "error" /\ (U!Connected(p) \/ usourcesink) =>
           (p \in blamed /\ U!Connected(p)) \/ (p = 2 /\ p \notin connectudp),
         l = "error" /\ usourcesink /\ ignorewerr => p # 1,
         l = "exit" /\ usourcesink /\ p = 2 => (zero /\ usent[1] > 0) \/ ~foreign
  PROVE  UdpInv'
<1>0. UdpTypeOK /\ Ways /\ Once /\ U!Mute /\ U!DiesOfItsOwn /\ U!GoesOn
  BY DEF UdpInv
<1>1. upc \in [{1, 2} -> {"down", "select", "in", "sock", "again", "write", "exit", "error"}]
  BY <1>0 DEF UdpTypeOK
<1>2. upc'[p] = l /\ (\A q \in {1, 2} : q # p => upc'[q] = upc[q])
  BY <1>1
<1>3. UdpTypeOK'
  <2>1. servaddr' \in [{1, 2} -> {"garbage", "peer", "stranger"}]
    BY <1>0 DEF UdpTypeOK
  <2>2. refused' \subseteq {1, 2} /\ upc' \in [{1, 2} -> {"down", "select", "in", "sock", "again", "write", "exit", "error"}]
    BY <1>0, <1>1 DEF UdpTypeOK
  <2>3. QED BY <1>0, <2>1, <2>2 DEF UdpTypeOK
<1>4. \A q \in {1, 2} : U!Connected(q)' = U!Connected(q)
  BY DEF U!Connected
<1>5. Ways'
  <2>1. \A q \in refused' : q \in blamed' /\ U!Connected(q)'
    BY <1>0, <1>4 DEF Ways, UdpTypeOK
  <2>2. usourcesink => /\ upc'[1] \in {"down", "write", "exit", "error"}
                       /\ upc'[2] \in {"down", "sock", "again", "exit", "error"}
    BY <1>0, <1>2 DEF Ways
  <2>3. ~usourcesink => upc'[1] # "write" /\ upc'[2] # "write"
    BY <1>0, <1>2 DEF Ways
  <2>4. servaddr'[2] = "garbage" /\ (servaddr'[1] = "peer" => usent'[2] >= 1)
    BY <1>0 DEF Ways, UdpTypeOK
  <2>5. QED BY <2>1, <2>2, <2>3, <2>4 DEF Ways
<1>6. Once'
  <2>1. \A q \in {1, 2} : OnceAt(q)'
    BY <1>0, <1>2, OnceSame DEF Once
  <2>2. QED BY <2>1 DEF Once
<1>7. U!Mute'
  <2>1. servaddr'[1] = "garbage" => servaddr[1] = "garbage"
    BY <1>0 DEF UdpTypeOK
  <2>2. QED BY <1>0, <2>1 DEF U!Mute, U!Client
<1>8. U!DiesOfItsOwn'
  BY <1>0, <1>2, <1>4 DEF U!DiesOfItsOwn, U!Ends, U!Client, U!Server
<1>9. U!GoesOn'
  BY <1>0, <1>2 DEF U!GoesOn, U!Client, U!Server
<1>10. QED BY <1>3, <1>5, <1>6, <1>7, <1>8, <1>9 DEF UdpInv

\* An end writes a datagram.
LEMMA EndSends ==
  ASSUME UdpInv, NEW p \in {1, 2}, NEW l, l \in {"select", "sock", "write"}, upc' = [upc EXCEPT ![p] = l],
         upc[p] \in {"in", "write"}, U!Transmit(p),
         UNCHANGED <<usourcesink, ignorewerr, connectudp, foreign, upeek, zero, servaddr, inq, blamed, uout>>,
         IF usourcesink THEN p = 1 /\ l = "write" ELSE l # "write",
         usourcesink \/ (p = 1 /\ (1 \in connectudp \/ servaddr[1] = "peer"))
                     \/ (p = 2 /\ 2 \in connectudp /\ foreign)
  PROVE  UdpInv'
<1>0. UdpTypeOK /\ Ways /\ Once /\ U!Mute /\ U!DiesOfItsOwn /\ U!GoesOn
  BY DEF UdpInv
<1>1. /\ upc \in [{1, 2} -> {"down", "select", "in", "sock", "again", "write", "exit", "error"}]
      /\ usent \in [{1, 2} -> Nat]
  BY <1>0 DEF UdpTypeOK
<1>2. upc'[p] = l /\ (\A q \in {1, 2} : q # p => upc'[q] = upc[q])
  BY <1>1
<1>3. /\ usent' = [usent EXCEPT ![p] = usent[p] + 1] /\ flight' = flight \cup {<<3 - p, usent[p] + 1>>}
      /\ refused' = refused
  <2>1. usent' = [usent EXCEPT ![p] = usent[p] + 1]
    BY DEF U!Transmit
  <2>2. usent'[p] = usent[p] + 1
    BY <1>1, <2>1
  <2>3. QED BY <2>1, <2>2, TheOther DEF U!Transmit
<1>4. usent'[p] = usent[p] + 1 /\ usent'[3 - p] = usent[3 - p] /\ usent' \in [{1, 2} -> Nat]
  BY <1>1, <1>3, TheOther
<1>5. UdpTypeOK'
  <2>1. 3 - p \in {1, 2} /\ usent[p] + 1 \in Nat \ {0}
    BY <1>1, TheOther
  <2>2. flight' \subseteq {1, 2} \X (Nat \ {0})
    BY <1>0, <1>3, <2>1 DEF UdpTypeOK
  <2>3. QED BY <1>0, <1>1, <1>3, <1>4, <2>2 DEF UdpTypeOK
<1>6. \A q \in {1, 2} : U!Connected(q)' = U!Connected(q)
  BY DEF U!Connected
<1>7. Ways'
  <2>1. servaddr[1] = "peer" => usent'[2] >= 1
    BY <1>0, <1>1, <1>3, <1>4 DEF Ways
  <2>2. QED BY <1>0, <1>2, <1>3, <1>5, <1>6, <2>1 DEF Ways, UdpTypeOK
<1>8. Once'
  <2>1. OnceAt(p)'
    <3>1. \A k : <<p, k>> \in flight' => <<p, k>> \in flight
      BY <1>3, TheOther
    <3>2. OnceAt(p)
      BY <1>0 DEF Once
    <3>3. upc[p] # "again" /\ upc[p] # "error" /\ upc'[p] # "again"
      BY <1>2
    <3>4. QED BY <1>4, <3>1, <3>2, <3>3, OnceSame
  <2>2. OnceAt(3 - p)'
    <3> DEFINE q == 3 - p
    <3>1. q \in {1, 2} /\ q # p /\ 3 - q = p
      BY TheOther
    <3> HIDE DEF q
    <3>2. \A k : <<q, k>> \in flight' => <<q, k>> \in flight \/ k = usent[3 - q] + 1
      BY <1>3, <3>1
    <3>3. OnceAt(q) /\ upc'[q] = upc[q] /\ usent'[3 - q] = usent[3 - q] + 1
      BY <1>0, <1>2, <1>4, <3>1 DEF Once
    <3>4. OnceAt(q)'
      BY <1>0, <3>1, <3>2, <3>3, OnceSent
    <3>5. QED BY <3>4 DEF q
  <2>3. QED BY <2>1, <2>2, TheOther DEF Once
<1>9. U!Mute'
  <2>1. SUFFICES ASSUME ~usourcesink PROVE U!Mute'
    BY DEF U!Mute
  <2>2. CASE p = 1 /\ (1 \in connectudp \/ servaddr[1] = "peer")
    <3>1. usent'[2] = usent[2]
      BY <1>4, <2>2
    <3>2. 1 \notin connectudp => usent[2] >= 1
      BY <1>0, <2>2 DEF Ways
    <3>3. usent[2] = 0 => ~(usent[2] >= 1)
      OBVIOUS
    <3>4. QED BY <1>0, <2>1, <2>2, <3>1, <3>2, <3>3 DEF U!Mute, U!Client, U!Server
  <2>3. CASE p = 2 /\ 2 \in connectudp /\ foreign
    BY <1>0, <1>4, <2>1, <2>3 DEF U!Mute, U!Client, U!Server
  <2>4. QED BY <2>1, <2>2, <2>3
<1>10. U!DiesOfItsOwn'
  BY <1>0, <1>2, <1>6 DEF U!DiesOfItsOwn, U!Ends, U!Client, U!Server
<1>11. U!GoesOn'
  <2>1. usent[1] > 0 => usent'[1] > 0
    <3>1. CASE p = 1
      BY <1>1, <1>4, <3>1
    <3>2. CASE p = 2
      BY <1>4, <3>2
    <3>3. QED BY <3>1, <3>2
  <2>2. QED BY <1>0, <1>2, <2>1 DEF U!GoesOn, U!Client, U!Server
<1>12. QED BY <1>5, <1>7, <1>8, <1>9, <1>10, <1>11 DEF UdpInv

\* An end prints what stands first at its socket.
LEMMA EndPrints ==
  ASSUME UdpInv, NEW p \in {1, 2}, NEW l, l \in {"select", "sock", "again"}, upc' = [upc EXCEPT ![p] = l],
         inq[p] # <<>>, uout' = [uout EXCEPT ![p] = Append(@, Head(inq[p]))],
         UNCHANGED <<usourcesink, ignorewerr, connectudp, foreign, upeek, zero, usent, flight, blamed, refused>>,
         \/ upc[p] = "sock" /\ ~U!Peeks(p) /\ inq' = [inq EXCEPT ![p] = Tail(@)] /\ l # "again"
         \/ upc[p] = "sock" /\ U!Peeks(p) /\ inq' = inq /\ l = "again"
         \/ upc[p] = "again" /\ inq' = [inq EXCEPT ![p] = Tail(@)] /\ l # "again",
         usourcesink => p = 2 /\ l # "select",
         servaddr' = servaddr \/ (p = 1 /\ servaddr' = [servaddr EXCEPT ![1] = "peer"])
  PROVE  UdpInv'
<1>0. UdpTypeOK /\ Ways /\ Once /\ U!Mute /\ U!DiesOfItsOwn /\ U!GoesOn
  BY DEF UdpInv
<1>1. /\ upc \in [{1, 2} -> {"down", "select", "in", "sock", "again", "write", "exit", "error"}]
      /\ usent \in [{1, 2} -> Nat] /\ inq \in [{1, 2} -> Seq(Nat \ {0})] /\ uout \in [{1, 2} -> Seq(Nat \ {0})]
      /\ servaddr \in [{1, 2} -> {"garbage", "peer", "stranger"}]
  BY <1>0 DEF UdpTypeOK
<1>2. /\ upc'[p] = l /\ uout'[p] = Append(uout[p], Head(inq[p]))
      /\ \A q \in {1, 2} : q # p => upc'[q] = upc[q] /\ uout'[q] = uout[q] /\ inq'[q] = inq[q]
  BY <1>1
<1>3. /\ inq[p] \in Seq(Nat \ {0}) /\ Head(inq[p]) \in Nat \ {0} /\ Tail(inq[p]) \in Seq(Nat \ {0})
      /\ Head(inq[p]) = inq[p][1] /\ 1 \in 1..Len(inq[p])
  <2>1. inq[p] \in Seq(Nat \ {0})
    BY <1>1
  <2>2. QED BY <2>1, QueueIn
<1>4. UdpTypeOK'
  <2>1. uout[p] \in Seq(Nat \ {0})
    BY <1>1
  <2>2. Append(uout[p], Head(inq[p])) \in Seq(Nat \ {0})
    BY <1>3, <2>1, SeqFacts
  <2>3. uout' \in [{1, 2} -> Seq(Nat \ {0})]
    BY <1>1, <2>2
  <2>4. inq' \in [{1, 2} -> Seq(Nat \ {0})]
    BY <1>1, <1>3
  <2>5. servaddr' \in [{1, 2} -> {"garbage", "peer", "stranger"}]
    BY <1>1
  <2>6. upc' \in [{1, 2} -> {"down", "select", "in", "sock", "again", "write", "exit", "error"}]
    BY <1>1
  <2>7. QED BY <1>0, <2>3, <2>4, <2>5, <2>6 DEF UdpTypeOK
<1>5. \A q \in {1, 2} : U!Connected(q)' = U!Connected(q)
  BY DEF U!Connected
<1>6. inq[p][1] <= usent[3 - p]
  BY <1>0, <1>3 DEF Once, OnceAt
<1>7. servaddr'[2] = servaddr[2] /\ (p = 1 => usent[2] >= 1) /\ (p = 2 => servaddr'[1] = servaddr[1])
  <2>1. p = 1 => usent[2] >= 1
    BY <1>1, <1>3, <1>6
  <2>2. QED BY <1>1, <2>1
<1>8. Ways'
  BY <1>0, <1>2, <1>4, <1>5, <1>7 DEF Ways, UdpTypeOK
<1>9. Once'
  <2>1. OnceAt(p)'
    <3>1. \/ upc[p] = "sock" /\ ~U!Peeks(p) /\ inq'[p] = Tail(inq[p]) /\ upc'[p] # "again"
          \/ upc[p] = "sock" /\ U!Peeks(p) /\ inq'[p] = inq[p] /\ upc'[p] = "again"
          \/ upc[p] = "again" /\ inq'[p] = Tail(inq[p]) /\ upc'[p] # "again"
      BY <1>1, <1>2
    <3>2. OnceAt(p)
      BY <1>0 DEF Once
    <3>3. QED BY <1>0, <1>2, <3>1, <3>2, OncePrinted
  <2>2. \A q \in {1, 2} : q # p => OnceAt(q)'
    BY <1>0, <1>2, OnceSame DEF Once
  <2>3. QED BY <2>1, <2>2 DEF Once
<1>10. U!Mute'
  <2>1. SUFFICES ASSUME ~usourcesink PROVE U!Mute'
    BY DEF U!Mute
  <2>2. servaddr'[1] = "garbage" => servaddr[1] = "garbage"
    BY <1>1
  <2>3. QED BY <1>0, <2>1, <2>2 DEF U!Mute, U!Client, U!Server
<1>11. U!DiesOfItsOwn'
  BY <1>0, <1>2, <1>5 DEF U!DiesOfItsOwn, U!Ends, U!Client, U!Server
<1>12. U!GoesOn'
  BY <1>0, <1>2 DEF U!GoesOn, U!Client, U!Server
<1>13. QED BY <1>4, <1>8, <1>9, <1>10, <1>11, <1>12 DEF UdpInv

-----------------------------------------------------------------------------

\* An end gets ready or waits in select().
LEMMA StartUdp ==
  ASSUME UdpInv, NEW p \in {1, 2}, U!Start(p) \/ U!Select(p)
  PROVE  UdpInv'
<1>1. /\ UNCHANGED <<usourcesink, ignorewerr, connectudp, foreign, upeek, zero, servaddr, usent, flight, inq, refused, blamed, uout>>
      /\ \/ /\ upc[p] = "down"
            /\ upc' = [upc EXCEPT ![p] = IF ~usourcesink THEN "select" ELSE IF p = 1 THEN "write" ELSE "sock"]
         \/ upc[p] = "select" /\ \E l \in {"in", "sock"} : upc' = [upc EXCEPT ![p] = l]
  BY DEF U!Start, U!Select, U!Goto, U!conf, U!Client
<1>2. upc[p] = "select" => ~usourcesink
  BY DEF UdpInv, Ways
<1>3. CASE /\ upc[p] = "down"
           /\ upc' = [upc EXCEPT ![p] = IF ~usourcesink THEN "select" ELSE IF p = 1 THEN "write" ELSE "sock"]
  <2> DEFINE l == IF ~usourcesink THEN "select" ELSE IF p = 1 THEN "write" ELSE "sock"
  <2>1. /\ l \in {"select", "write", "sock"}
        /\ IF usourcesink THEN (p = 1 /\ l \in {"write", "exit", "error"}) \/ (p = 2 /\ l \in {"sock", "exit", "error"})
                          ELSE l # "write"
        /\ l # "exit"
    OBVIOUS
  <2>2. upc' = [upc EXCEPT ![p] = l]
    BY <1>3
  <2> HIDE DEF l
  <2>3. QED BY <1>1, <1>3, <2>1, <2>2, EndMoves
<1>4. ASSUME upc[p] = "select", NEW l \in {"in", "sock"}, upc' = [upc EXCEPT ![p] = l]
      PROVE  UdpInv'
  BY <1>1, <1>2, <1>4, EndMoves
<1>5. QED BY <1>1, <1>3, <1>4

\* A call that fails forgets the error, and the error was the end's own.
LEMMA FailedUdp ==
  ASSUME UdpInv, NEW p \in {1, 2}, p \in refused, refused' = refused \ {p}, upc[p] # "error",
         upc' = [upc EXCEPT ![p] = "error"],
         UNCHANGED <<usourcesink, ignorewerr, connectudp, foreign, upeek, zero, servaddr, usent, flight, inq, blamed, uout>>,
         usourcesink /\ ignorewerr => p # 1
  PROVE  UdpInv'
<1>1. p \in blamed /\ U!Connected(p)
  BY DEF UdpInv, Ways
<1>2. QED BY <1>1, EndMoves

\* An end sends a line of its input, or ends.
LEMMA ReadInputUdp ==
  ASSUME UdpInv, NEW p \in {1, 2}, U!ReadInput(p)
  PROVE  UdpInv'
<1>1. /\ upc[p] = "in"
      /\ UNCHANGED <<usourcesink, ignorewerr, connectudp, foreign, upeek, zero, servaddr, inq, blamed, uout>>
  BY DEF U!ReadInput, U!conf
<1>2. ~usourcesink
  BY <1>1 DEF UdpInv, Ways
<1>3. CASE upc' = [upc EXCEPT ![p] = "exit"] /\ UNCHANGED <<usent, flight, refused>>
  BY <1>1, <1>2, <1>3, EndMoves
<1>4. CASE U!Line(p)
  <2> DEFINE l == IF "sock" \in urset[p] THEN "sock" ELSE "select"
             on == upc' = [upc EXCEPT ![p] = l]
             dies == upc' = [upc EXCEPT ![p] = "error"]
             nowhere == UNCHANGED <<usent, flight, refused>>
  <2>1. \/ p \in connectudp /\ U!Connected(p) /\ ((U!Transmit(p) /\ on) \/ (U!Failed(p) /\ dies))
        \/ p \in connectudp /\ ~U!Connected(p) /\ dies /\ nowhere
        \/ p \notin connectudp /\ servaddr[p] = "peer" /\ ((U!Transmit(p) /\ on) \/ (U!Failed(p) /\ dies))
        \/ p \notin connectudp /\ servaddr[p] # "peer" /\ nowhere /\ (on \/ dies)
    BY <1>4 DEF U!Line, U!Goto, U!Nowhere
  <2>2. l \in {"sock", "select"}
    OBVIOUS
  <2>3. CASE U!Transmit(p) /\ on
    <3>1. (p = 1 /\ (1 \in connectudp \/ servaddr[1] = "peer")) \/ (p = 2 /\ 2 \in connectudp /\ foreign)
      <4>1. CASE p \in connectudp /\ U!Connected(p)
        BY <4>1 DEF U!Connected, U!Client
      <4>2. CASE p \notin connectudp /\ servaddr[p] = "peer"
        <5>1. p # 2
          BY <4>2 DEF UdpInv, Ways
        <5>2. QED BY <4>2, <5>1
      <4>3. CASE nowhere
        <5>1. usent' = usent /\ usent \in [{1, 2} -> Nat]
          BY <4>3 DEF UdpInv, UdpTypeOK
        <5>2. usent' = [usent EXCEPT ![p] = usent[p] + 1]
          BY <2>3 DEF U!Transmit
        <5>3. QED BY <5>1, <5>2
      <4>4. CASE dies
        <5>1. upc \in [{1, 2} -> {"down", "select", "in", "sock", "again", "write", "exit", "error"}]
          BY DEF UdpInv, UdpTypeOK
        <5>2. QED BY <2>2, <2>3, <4>4, <5>1
      <4>5. QED BY <2>1, <4>1, <4>2, <4>3, <4>4
    <3> HIDE DEF l
    <3>2. QED BY <1>1, <1>2, <2>2, <2>3, <3>1, EndSends
  <2>4. CASE U!Failed(p) /\ dies
    BY <1>1, <1>2, <2>4, FailedUdp DEF U!Failed
  <2>5. CASE nowhere /\ on
    <3> HIDE DEF l
    <3>1. QED BY <1>1, <1>2, <2>2, <2>5, EndMoves
  <2>6. CASE nowhere /\ dies /\ ~U!Connected(p)
    BY <1>1, <1>2, <2>6, EndMoves
  <2>7. CASE nowhere /\ dies /\ p \notin connectudp
    <3>1. U!Connected(p) => p = 2
      BY <2>7 DEF U!Connected, U!Client
    <3>2. QED BY <1>1, <1>2, <2>7, <3>1, EndMoves
  <2> HIDE DEF l
  <2>8. QED BY <2>1, <2>3, <2>4, <2>5, <2>6, <2>7
<1>5. QED BY <1>3, <1>4 DEF U!ReadInput, U!Goto, U!Nowhere

\* An end receives a datagram, or the error of one of its own.
LEMMA ReceiveUdp ==
  ASSUME UdpInv, NEW p \in {1, 2}, U!Receive(p)
  PROVE  UdpInv'
<1>1. /\ upc[p] = "sock" /\ (inq[p] # <<>> \/ p \in refused)
      /\ UNCHANGED <<usourcesink, ignorewerr, connectudp, foreign, upeek, zero, usent, flight, blamed>>
  BY DEF U!Receive, U!conf
<1>2. usourcesink => p = 2
  BY <1>1 DEF UdpInv, Ways
<1>3. CASE p \in refused
  BY <1>1, <1>2, <1>3, FailedUdp DEF U!Receive, U!Goto
<1>4. CASE p \notin refused /\ zero
  <2>1. upc' = [upc EXCEPT ![p] = "exit"] /\ UNCHANGED <<refused, servaddr, inq, uout>>
    BY <1>4 DEF U!Receive, U!Goto
  <2>2. usourcesink /\ p = 2
    BY <1>2, <1>4 DEF UdpInv, UdpTypeOK
  <2>3. usent[1] > 0
    <3>1. inq[2] \in Seq(Nat \ {0}) /\ inq[2] # <<>> /\ usent[1] \in Nat
      BY <1>1, <1>4, <2>2 DEF UdpInv, UdpTypeOK
    <3>2. 1 \in 1..Len(inq[2]) /\ inq[2][1] \in Nat \ {0}
      BY <3>1, QueueIn
    <3>3. inq[2][1] <= usent[3 - 2]
      BY <3>2 DEF UdpInv, Once, OnceAt
    <3>4. QED BY <3>1, <3>2, <3>3
  <2>4. QED BY <1>1, <1>4, <2>1, <2>2, <2>3, EndMoves
<1>5. CASE p \notin refused /\ ~zero
  <2> DEFINE l == IF usourcesink THEN "sock" ELSE "select"
  <2>1. /\ refused' = refused /\ uout' = [uout EXCEPT ![p] = Append(@, Head(inq[p]))]
        /\ IF U!Peeks(p) THEN upc' = [upc EXCEPT ![p] = "again"] /\ inq' = inq
                         ELSE upc' = [upc EXCEPT ![p] = l] /\ inq' = [inq EXCEPT ![p] = Tail(@)]
        /\ servaddr' = servaddr \/ (p = 1 /\ servaddr' = [servaddr EXCEPT ![1] = "peer"])
    BY <1>5 DEF U!Receive, U!Goto, U!After, U!Client
  <2>2. l \in {"select", "sock"} /\ (usourcesink => p = 2 /\ l # "select")
    BY <1>2
  <2> HIDE DEF l
  <2>3. CASE U!Peeks(p)
    BY <1>1, <1>2, <1>5, <2>1, <2>3, EndPrints
  <2>4. CASE ~U!Peeks(p)
    BY <1>1, <1>2, <1>5, <2>1, <2>2, <2>4, EndPrints
  <2>5. QED BY <2>3, <2>4
<1>6. QED BY <1>3, <1>4, <1>5

\* An end reads what another host has sent; a sink that is connected hears nobody
\* else's and does not end.
LEMMA StrayUdp ==
  ASSUME UdpInv, Strays, NEW p \in {1, 2}, U!ReceiveStray(p)
  PROVE  UdpInv'
<1>1. /\ upc[p] = "sock" /\ stray[p] # "none"
      /\ UNCHANGED <<usourcesink, ignorewerr, connectudp, foreign, upeek, zero, usent, flight, inq, refused, blamed, uout>>
      /\ servaddr' = servaddr \/ (p = 1 /\ servaddr' = [servaddr EXCEPT ![1] = "stranger"])
      /\ \/ usourcesink /\ upc' = [upc EXCEPT ![p] = "exit"]
         \/ upc' = [upc EXCEPT ![p] = IF usourcesink THEN "sock" ELSE "select"]
  BY DEF U!ReceiveStray, U!conf, U!Goto, U!After, U!Client
<1>2. (usourcesink => p = 2) /\ ~U!Connected(p)
  BY <1>1 DEF UdpInv, Ways, Strays
<1>3. CASE usourcesink /\ upc' = [upc EXCEPT ![p] = "exit"]
  <2>1. ~foreign
    BY <1>2, <1>3 DEF U!Connected, U!Client
  <2>2. QED BY <1>1, <1>2, <1>3, <2>1, EndMoves
<1>4. CASE upc' = [upc EXCEPT ![p] = IF usourcesink THEN "sock" ELSE "select"]
  <2> DEFINE l == IF usourcesink THEN "sock" ELSE "select"
  <2>1. l \in {"select", "sock"} /\ (usourcesink => l = "sock")
    OBVIOUS
  <2> HIDE DEF l
  <2>2. upc' = [upc EXCEPT ![p] = l]
    BY <1>4 DEF l
  <2>3. QED BY <1>1, <1>2, <2>1, <2>2, EndMoves
<1>5. QED BY <1>1, <1>3, <1>4

\* An end reads for good what it has looked at.
LEMMA OncemoreUdp ==
  ASSUME UdpInv, NEW p \in {1, 2}, U!Oncemore(p)
  PROVE  UdpInv'
<1>1. /\ upc[p] = "again"
      /\ UNCHANGED <<usourcesink, ignorewerr, connectudp, foreign, upeek, zero, servaddr, usent, flight, blamed>>
  BY DEF U!Oncemore, U!conf
<1>2. (usourcesink => p = 2) /\ inq[p] # <<>>
  BY <1>1 DEF UdpInv, Ways, Once, OnceAt
<1>3. CASE p \in refused
  BY <1>1, <1>2, <1>3, FailedUdp DEF U!Oncemore, U!Goto
<1>4. CASE p \notin refused
  <2> DEFINE l == IF usourcesink THEN "sock" ELSE "select"
  <2>1. /\ refused' = refused /\ uout' = [uout EXCEPT ![p] = Append(@, Head(inq[p]))]
        /\ upc' = [upc EXCEPT ![p] = l] /\ inq' = [inq EXCEPT ![p] = Tail(@)]
    BY <1>4 DEF U!Oncemore, U!Goto, U!After
  <2>2. l \in {"select", "sock"} /\ (usourcesink => p = 2 /\ l # "select")
    BY <1>2
  <2> HIDE DEF l
  <2>3. QED BY <1>1, <1>2, <2>1, <2>2, EndPrints
<1>5. QED BY <1>3, <1>4

\* A source sends, ends or fails.
LEMMA SourceUdp ==
  ASSUME UdpInv, NEW p \in {1, 2}, U!Source(p)
  PROVE  UdpInv'
<1>1. /\ upc[p] = "write"
      /\ UNCHANGED <<usourcesink, ignorewerr, connectudp, foreign, upeek, zero, servaddr, inq, blamed, uout>>
  BY DEF U!Source, U!conf
<1>2. usourcesink /\ p = 1
  BY <1>1 DEF UdpInv, Ways
<1>3. upc = [upc EXCEPT ![p] = "write"]
  BY <1>1 DEF UdpInv, UdpTypeOK
<1>4. CASE upc' = [upc EXCEPT ![p] = "exit"] /\ UNCHANGED <<usent, flight, refused>>
  <2>1. PICK l : l = "exit"
    OBVIOUS
  <2>2. servaddr' = servaddr /\ refused' \subseteq refused /\ p # 2 /\ upc' = [upc EXCEPT ![p] = l]
    BY <1>1, <1>2, <1>4, <2>1
  <2>3. QED BY <1>1, <1>2, <1>4, <2>1, <2>2, EndMoves
<1>5. CASE U!Transmit(p) /\ upc' = upc
  <2>1. upc' = [upc EXCEPT ![p] = "write"]
    BY <1>3, <1>5
  <2>2. QED BY <1>1, <1>2, <1>5, <2>1, EndSends
<1>6. CASE U!Failed(p) /\ ignorewerr /\ upc' = upc
  <2>1. upc' = [upc EXCEPT ![p] = "write"]
    BY <1>3, <1>6
  <2>2. refused' \subseteq refused /\ UNCHANGED <<usent, flight>>
    BY <1>6 DEF U!Failed
  <2>3. QED BY <1>1, <1>2, <2>1, <2>2, EndMoves
<1>7. CASE U!Failed(p) /\ ~ignorewerr /\ upc' = [upc EXCEPT ![p] = "error"]
  BY <1>1, <1>2, <1>7, FailedUdp DEF U!Failed
<1>8. QED BY <1>4, <1>5, <1>6, <1>7 DEF U!Source, U!Goto, U!Nowhere

\* The network: a datagram arrives, is refused or is lost.
LEMMA NetworkUdp ==
  ASSUME UdpInv, U!Network
  PROVE  UdpInv'
<1>0. UdpTypeOK /\ Ways /\ Once /\ U!Mute /\ U!DiesOfItsOwn /\ U!GoesOn
  BY DEF UdpInv
<1>1. UNCHANGED <<usourcesink, ignorewerr, connectudp, foreign, upeek, zero, upc, servaddr, usent, uout>>
  BY DEF U!Network, U!conf
<1>2. PICK d \in flight :
        /\ flight' = flight \ {d}
        /\ \/ inq' = [inq EXCEPT ![d[1]] = Append(@, d[2])] /\ UNCHANGED <<refused, blamed>>
           \/ /\ blamed' = blamed \cup {U!Peer(d[1])} /\ inq' = inq
              /\ refused' = IF U!Connected(U!Peer(d[1])) /\ U!Open(U!Peer(d[1]))
                            THEN refused \cup {U!Peer(d[1])} ELSE refused
           \/ UNCHANGED <<inq, refused, blamed>>
  BY DEF U!Network
<1>3. d[1] \in {1, 2} /\ d[2] \in Nat \ {0} /\ d = <<d[1], d[2]>> /\ U!Peer(d[1]) \in {1, 2}
  <2>1. d \in {1, 2} \X (Nat \ {0})
    BY <1>0 DEF UdpTypeOK
  <2>2. d[1] \in {1, 2} /\ d[2] \in Nat \ {0} /\ d = <<d[1], d[2]>>
    BY <2>1
  <2>3. QED BY <2>2, TheOther
<1>4. \A q \in {1, 2} : U!Connected(q)' = U!Connected(q)
  BY <1>1 DEF U!Connected
<1>5. refused' \subseteq {1, 2} /\ blamed' \subseteq {1, 2} /\ blamed \subseteq blamed'
  BY <1>0, <1>2, <1>3 DEF UdpTypeOK
<1>6. inq' \in [{1, 2} -> Seq(Nat \ {0})]
  <2>1. inq \in [{1, 2} -> Seq(Nat \ {0})]
    BY <1>0 DEF UdpTypeOK
  <2>2. Append(inq[d[1]], d[2]) \in Seq(Nat \ {0})
    <3>1. inq[d[1]] \in Seq(Nat \ {0})
      BY <1>3, <2>1
    <3>2. QED BY <1>3, <3>1, SeqFacts
  <2>3. QED BY <1>2, <2>1, <2>2
<1>7. UdpTypeOK'
  <2>1. flight' \subseteq {1, 2} \X (Nat \ {0})
    BY <1>0, <1>2 DEF UdpTypeOK
  <2>2. QED BY <1>0, <1>1, <1>5, <1>6, <2>1 DEF UdpTypeOK
<1>8. Ways'
  <2>1. \A q \in refused' : q \in blamed' /\ U!Connected(q)'
    BY <1>0, <1>2, <1>4, <1>5 DEF Ways, UdpTypeOK
  <2>2. QED BY <1>0, <1>1, <2>1 DEF Ways
<1>9. Once'
  <2>1. ASSUME NEW p \in {1, 2}
        PROVE  OnceAt(p)'
    <3>1. CASE inq'[p] = inq[p]
      <4>1. \A k : <<p, k>> \in flight' => <<p, k>> \in flight
        BY <1>2
      <4>2. OnceAt(p)
        BY <1>0 DEF Once
      <4>3. QED BY <1>1, <3>1, <4>1, <4>2, OnceSame
    <3>2. CASE p = d[1] /\ inq' = [inq EXCEPT ![d[1]] = Append(@, d[2])]
      <4>1. inq'[p] = Append(inq[p], d[2])
        BY <1>0, <3>2 DEF UdpTypeOK
      <4>2. OnceAt(p) /\ <<p, d[2]>> \in flight /\ flight' = flight \ {<<p, d[2]>>}
        BY <1>0, <1>2, <1>3, <3>2 DEF Once
      <4>3. QED BY <1>0, <1>1, <1>3, <4>1, <4>2, OnceArrives
    <3>3. inq'[p] = inq[p] \/ (p = d[1] /\ inq' = [inq EXCEPT ![d[1]] = Append(@, d[2])])
      <4>1. inq \in [{1, 2} -> Seq(Nat \ {0})]
        BY <1>0 DEF UdpTypeOK
      <4>2. QED BY <1>2, <4>1
    <3>4. QED BY <3>1, <3>2, <3>3
  <2>2. QED BY <2>1 DEF Once
<1>10. U!Mute' /\ U!GoesOn'
  BY <1>0, <1>1 DEF U!Mute, U!GoesOn
<1>11. U!DiesOfItsOwn'
  BY <1>0, <1>1, <1>4, <1>5 DEF U!DiesOfItsOwn, U!Ends, U!Client, U!Server
<1>12. QED BY <1>7, <1>8, <1>9, <1>10, <1>11 DEF UdpInv

\* Nothing of what the invariant speaks of changes.
LEMMA UdpStays ==
  ASSUME UdpInv,
         UNCHANGED <<usourcesink, ignorewerr, connectudp, foreign, upeek, zero, upc, servaddr, usent, flight, inq, refused, blamed, uout>>
  PROVE  UdpInv'
<1>1. UdpTypeOK'
  BY DEF UdpInv, UdpTypeOK
<1>2. \A p \in {1, 2} : OnceAt(p)'
  BY OnceSame DEF UdpInv, Once
<1>3. \A q \in {1, 2} : U!Connected(q)' = U!Connected(q)
  BY DEF U!Connected
<1>4. Ways'
  BY <1>3 DEF UdpInv, UdpTypeOK, Ways
<1>5. (U!Mute /\ U!DiesOfItsOwn /\ U!GoesOn)'
  BY <1>3 DEF UdpInv, U!Mute, U!DiesOfItsOwn, U!GoesOn, U!Ends, U!Client, U!Server
<1>6. QED BY <1>1, <1>2, <1>4, <1>5 DEF UdpInv, Once

\* What other hosts send comes only to who is not connected.
LEMMA StraysStay ==
  ASSUME Strays, [U!Next]_(U!vars)
  PROVE  Strays'
<1>1. \A q \in {1, 2} : U!Connected(q)' = U!Connected(q)
  BY DEF U!Connected, U!Next, U!Step, U!Start, U!Select, U!ReadInput, U!Receive, U!ReceiveStray, U!Oncemore, U!Source,
         U!Network, U!Stranger, U!conf, U!vars
<1>2. \/ stray' = stray
      \/ \E p \in {1, 2} : \E l \in {"none", "empty", "text"} :
           stray' = [stray EXCEPT ![p] = l] /\ (l # "none" => ~U!Connected(p))
  BY DEF U!Next, U!Step, U!Start, U!Select, U!ReadInput, U!Receive, U!ReceiveStray, U!Oncemore, U!Source,
         U!Network, U!Stranger, U!vars, U!Ends, U!Client, U!Server
<1>3. QED BY <1>1, <1>2 DEF Strays

\* Every step of sock over UDP keeps the invariant.
LEMMA UdpStep ==
  ASSUME UdpInv, Strays, [U!Next]_(U!vars)
  PROVE  UdpInv' /\ Strays'
<1>1. Strays'
  BY StraysStay
<1>2. CASE \E p \in U!Ends : U!Step(p)
  BY <1>1, <1>2, StartUdp, ReadInputUdp, ReceiveUdp, StrayUdp, OncemoreUdp, SourceUdp
     DEF U!Step, U!Ends, U!Client, U!Server
<1>3. CASE U!Network
  BY <1>1, <1>3, NetworkUdp
<1>4. CASE (\E p \in U!Ends : U!Stranger(p)) \/ UNCHANGED U!vars
  BY <1>1, <1>4, UdpStays DEF U!Stranger, U!vars, U!conf
<1>5. QED BY <1>2, <1>3, <1>4 DEF U!Next

\* What the invariant says of what has been printed.
LEMMA UdpSafe == UdpInv => U!SockUDPSafe
<1>1. ASSUME UdpInv
      PROVE  U!SockUDPSafe
  <2>1. ASSUME NEW p \in {1, 2}, NEW k \in 1..Len(uout[p])
        PROVE  /\ uout[p][k] <= usent[3 - p]
               /\ Often(uout[p], uout[p][k]) <= IF U!Peeks(p) THEN 2 ELSE 1
    <3>1. uout[p] \in Seq(Nat \ {0})
      BY <1>1 DEF UdpInv, UdpTypeOK
    <3>2. uout[p][k] \in Nat \ {0} /\ Often(uout[p], uout[p][k]) > 0
      BY <3>1, QueueIn, OftenFacts
    <3>3. QED BY <1>1, <3>2 DEF UdpInv, Once, OnceAt
  <2>2. \A p \in {1, 2} : \A k : U!Times(p, k) = Often(uout[p], k)
    BY SameCardinalityU DEF U!Times, Often, Where
  <2>3. U!Printed
    BY <2>1, <2>2, TheOther DEF U!Printed, U!Ends, U!Client, U!Server
  <2>4. QED BY <1>1, <2>3 DEF UdpInv, U!SockUDPSafe
<1>2. QED BY <1>1

\* SockUDPSafe, a part of SockSafe: what is printed was sent, each datagram at most
\* once or with -Z twice, in whatever order the network delivers; who has no address
\* to send to never sends; a connected end dies of a refused datagram of its own only;
\* and a sink ends of a datagram without data only, another host's if it is not connected.
THEOREM DatagramsPrintedOnce == U!Spec => []U!SockUDPSafe
BY UdpSafe, UdpStart, UdpStep, PTL DEF U!Spec

-----------------------------------------------------------------------------
(***************************************************************************)
(* sock as a server of children.  The turn to set options is a token that  *)
(* goes from the child to a signal, to the flag and to the parent (Token); *)
(* how many children there are tells whether a signal was let through too  *)
(* early (StartedRight).                                                   *)
(***************************************************************************)
SrvTypeOK ==
  /\ dofork \in BOOLEAN /\ sigflag \in BOOLEAN /\ blocked \in BOOLEAN /\ vpending \in BOOLEAN /\ untold \in BOOLEAN
  /\ vnproc \in Nat /\ vpc \in {"accept", "test", "suspend", "loop", "exit"}
  /\ vbacklog \in Seq(1..NClients)
  /\ vchild \in [1..NClients -> {"none", "setup", "loop", "zombie"}]

\* Who waits to be accepted waits once and has no child.
SrvQueue ==
  /\ \A k \in 1..Len(vbacklog) : vchild[vbacklog[k]] = "none" /\ vbacklog[k] \in est
  /\ \A j, k \in 1..Len(vbacklog) : vbacklog[j] = vbacklog[k] => j = k
  /\ \A c \in 1..NClients : c \notin est => vchild[c] = "none"

\* One token goes from the child that sets its options to the signal, to the flag,
\* and to the parent, which accepts again when it has it.
Token ==
  /\ \A c, d \in S!In("setup") : c = d
  /\ S!In("setup") # {} => ~vpending /\ ~sigflag
  /\ vpending => ~sigflag
  /\ vpc \notin {"test", "suspend"} => S!In("setup") = {} /\ ~vpending /\ ~sigflag
  /\ vpc \in {"test", "suspend"} /\ ~untold => S!In("setup") # {} \/ vpending \/ sigflag
  /\ vpc = "suspend" /\ sigflag => ~blocked
  /\ vpc \in {"test", "suspend"} => dofork
  /\ vpc = "loop" => ~dofork

\* The children that have been started: one before the signal is let through, and
\* another when the parent waits with the signal let through.
Started == (1..NClients) \ S!In("none")
StartedRight ==
  /\ IsFiniteSet(Started) /\ Cardinality(Started) <= vnproc
  /\ vpc \in {"test", "suspend"} \/ (dofork /\ ~blocked) => 1 <= Cardinality(Started)
  /\ vpc \in {"test", "suspend"} /\ ~blocked => 2 <= Cardinality(Started)
  /\ dofork /\ vpc = "exit" => Cardinality(Started) = vnproc

SrvInv == SrvTypeOK /\ SrvQueue /\ Token /\ StartedRight

\* The Cardinality of an instance is the library's.
LEMMA SameCardinalityS ==
  ASSUME NEW Elem PROVE S!Cardinality(Elem) = Cardinality(Elem)
BY DEF S!Cardinality, Cardinality

\* The invariant holds at the start of sock with children.
LEMMA SrvStart ==
  ASSUME S!Init
  PROVE  SrvInv
<1>1. /\ dofork \in BOOLEAN /\ vnproc \in Nat /\ vnproc >= 2 /\ vpc = "accept" /\ ~sigflag /\ ~vpending
      /\ blocked = dofork /\ vbacklog = <<>> /\ ~untold
      /\ sigflag \in BOOLEAN /\ vpending \in BOOLEAN /\ untold \in BOOLEAN /\ blocked \in BOOLEAN
      /\ vchild = [c \in 1..NClients |-> "none"]
  <2>1. /\ dofork \in BOOLEAN /\ vnproc \in 2..MaxProc /\ vpc = "accept" /\ sigflag = FALSE /\ vpending = FALSE
        /\ blocked = dofork /\ vbacklog = <<>> /\ untold = FALSE
        /\ vchild = [c \in 1..NClients |-> "none"]
    BY DEF S!Init, S!Clients
  <2>2. vnproc \in Nat /\ vnproc >= 2
    BY <2>1
  <2>3. QED BY <2>1, <2>2
<1>2. <<>> \in Seq(1..NClients)
  OBVIOUS
<1>3. SrvTypeOK
  BY <1>1, <1>2 DEF SrvTypeOK
<1>4. SrvQueue
  BY <1>1 DEF SrvQueue
<1>5. Started = {} /\ S!In("setup") = {}
  BY <1>1 DEF Started, S!In, S!Clients
<1>6. Token /\ StartedRight
  BY <1>1, <1>5, FS_EmptySet DEF Token, StartedRight
<1>7. QED BY <1>3, <1>4, <1>6 DEF SrvInv

\* accept() and fork(): the child has the token from here on.
LEMMA AcceptSrv ==
  ASSUME SrvInv, S!Accept
  PROVE  SrvInv'
<1> DEFINE c == Head(vbacklog)
<1>0. SrvTypeOK /\ SrvQueue /\ Token /\ StartedRight
  BY DEF SrvInv
<1>1. /\ vpc = "accept" /\ vbacklog # <<>> /\ vbacklog' = Tail(vbacklog)
      /\ UNCHANGED <<dofork, vnproc, sigflag, blocked, vpending, untold, est>>
      /\ \/ ~dofork /\ vpc' = "loop" /\ vchild' = vchild
         \/ dofork /\ Cardinality(Started) < vnproc /\ vpc' = "test" /\ vchild' = [vchild EXCEPT ![c] = "setup"]
         \/ dofork /\ ~(Cardinality(Started) < vnproc) /\ vpc' = "exit" /\ vchild' = vchild
  BY SameCardinalityS, Zenon DEF S!Accept, S!conf, S!signals, Started, S!Clients
<1>2. /\ vbacklog \in Seq(1..NClients) /\ Len(vbacklog) \in Nat \ {0} /\ c = vbacklog[1]
      /\ c \in 1..NClients /\ Tail(vbacklog) \in Seq(1..NClients)
      /\ Len(Tail(vbacklog)) = Len(vbacklog) - 1
      /\ \A k \in 1..Len(Tail(vbacklog)) : Tail(vbacklog)[k] = vbacklog[k + 1]
  <2>1. vbacklog \in Seq(1..NClients)
    BY <1>0 DEF SrvTypeOK
  <2>2. QED BY <1>1, <2>1, QueueIn
<1>3. /\ \A k \in 1..Len(Tail(vbacklog)) : k + 1 \in 1..Len(vbacklog)
      /\ 1 \in 1..Len(vbacklog)
  BY <1>2
<1> HIDE DEF c
<1>4. vchild[c] = "none" /\ c \in est
  BY <1>0, <1>2, <1>3 DEF SrvQueue
<1>5. vchild \in [1..NClients -> {"none", "setup", "loop", "zombie"}]
  BY <1>0 DEF SrvTypeOK
<1>6. SrvTypeOK'
  <2>1. vchild' \in [1..NClients -> {"none", "setup", "loop", "zombie"}]
    BY <1>1, <1>5
  <2>2. vpc' \in {"accept", "test", "suspend", "loop", "exit"}
    BY <1>1
  <2>3. QED BY <1>0, <1>1, <1>2, <2>1, <2>2 DEF SrvTypeOK
<1>7. \A d \in 1..NClients : d # c => vchild'[d] = vchild[d]
  BY <1>1, <1>5
<1>8. SrvQueue'
  <2>1. \A k \in 1..Len(vbacklog') : /\ vbacklog'[k] \in 1..NClients /\ vbacklog'[k] # c
                                     /\ vchild[vbacklog'[k]] = "none" /\ vbacklog'[k] \in est
    <3> TAKE k \in 1..Len(vbacklog')
    <3>1. vbacklog'[k] = vbacklog[k + 1] /\ k + 1 \in 1..Len(vbacklog) /\ k \in Nat /\ 1 <= k
      BY <1>1, <1>2, <1>3
    <3>2. vbacklog[k + 1] # vbacklog[1]
      BY <1>0, <1>3, <3>1 DEF SrvQueue
    <3>3. vbacklog[k + 1] \in 1..NClients
      BY <1>2, <3>1, QueueIn
    <3>4. QED BY <1>0, <1>2, <3>1, <3>2, <3>3 DEF SrvQueue
  <2>2. \A j, k \in 1..Len(vbacklog') : vbacklog'[j] = vbacklog'[k] => j = k
    <3> TAKE j, k \in 1..Len(vbacklog')
    <3>1. vbacklog[j + 1] = vbacklog[k + 1] => j + 1 = k + 1
      BY <1>0, <1>1, <1>3 DEF SrvQueue
    <3>2. QED BY <1>1, <1>2, <3>1
  <2>3. QED BY <1>0, <1>1, <1>4, <1>7, <2>1, <2>2 DEF SrvQueue
<1>9. S!In("setup") = {} /\ ~vpending /\ ~sigflag
  BY <1>0, <1>1 DEF Token
<1>10. CASE vchild' = vchild
  <2>1. S!In("setup")' = S!In("setup") /\ Started' = Started
    BY <1>10 DEF S!In, S!Clients, Started
  <2>2. Token'
    BY <1>1, <1>9, <1>10, <2>1, <1>4, <1>5, <1>2 DEF Token
  <2>3. StartedRight'
    <3>1. Cardinality(Started) \in Nat /\ vnproc \in Nat
      BY <1>0, FS_CardinalityType DEF StartedRight, SrvTypeOK
    <3>2. vpc' = "loop" \/ (~(Cardinality(Started) < vnproc) /\ vpc' = "exit")
      <4>1. [vchild EXCEPT ![c] = "setup"][c] = "setup"
        BY <1>2, <1>5
      <4>2. vchild' # [vchild EXCEPT ![c] = "setup"]
        BY <1>4, <1>10, <4>1
      <4>3. QED BY <1>1, <4>2
    <3>3. vpc' = "loop" => ~dofork
      BY <1>1
    <3>4. QED BY <1>0, <1>1, <2>1, <3>1, <3>2, <3>3 DEF StartedRight
  <2>4. QED BY <1>6, <1>8, <2>2, <2>3 DEF SrvInv
<1>11. CASE dofork /\ Cardinality(Started) < vnproc /\ vpc' = "test" /\ vchild' = [vchild EXCEPT ![c] = "setup"]
  <2>1. vchild'[c] = "setup"
    BY <1>2, <1>5, <1>11
  <2>2. S!In("setup")' = {c}
    BY <1>2, <1>7, <1>9, <2>1 DEF S!In, S!Clients
  <2>3. Started' = Started \cup {c} /\ c \notin Started
    BY <1>2, <1>4, <1>7, <2>1 DEF Started, S!In, S!Clients
  <2>4. IsFiniteSet(Started') /\ Cardinality(Started') = Cardinality(Started) + 1 /\ Cardinality(Started) \in Nat
    BY <1>0, <2>3, FS_AddElement, FS_CardinalityType DEF StartedRight
  <2>5. Token'
    BY <1>1, <1>9, <1>11, <2>2 DEF Token
  <2>6. StartedRight'
    BY <1>0, <1>1, <1>11, <2>4 DEF StartedRight, SrvTypeOK
  <2>7. QED BY <1>6, <1>8, <2>5, <2>6 DEF SrvInv
<1>12. QED BY <1>1, <1>10, <1>11

\* What leaves the queue and the children alone.
LEMMA ParentSrv ==
  ASSUME SrvInv, S!WaitChild \/ S!Deliver \/ S!DeliverEarly \/ S!LoopEnds
  PROVE  SrvInv'
<1>0. SrvTypeOK /\ SrvQueue /\ Token /\ StartedRight
  BY DEF SrvInv
<1>1. UNCHANGED <<dofork, vnproc, vbacklog, vchild, untold, est>>
  BY DEF S!WaitChild, S!Deliver, S!DeliverEarly, S!LoopEnds, S!conf, S!signals
<1>2. \/ /\ vpc = "test" /\ vpending' = vpending
         /\ \/ sigflag /\ vpc' = "accept" /\ sigflag' = FALSE /\ blocked' = FALSE
            \/ ~sigflag /\ vpc' = "suspend" /\ UNCHANGED <<sigflag, blocked>>
      \/ /\ vpending /\ vpc # "exit" /\ vpending' = FALSE /\ sigflag' = TRUE /\ blocked' = blocked
         /\ \/ vpc = "suspend" /\ vpc' = "test"
            \/ vpc # "suspend" /\ vpc' = vpc
            \/ vpc = "test" /\ vpc' = "suspend" /\ ~blocked
      \/ vpc = "loop" /\ vpc' = "exit" /\ UNCHANGED <<sigflag, blocked, vpending>>
  BY DEF S!WaitChild, S!Deliver, S!DeliverEarly, S!LoopEnds, S!conf, S!signals
<1>3. /\ vpc' \in {"accept", "test", "suspend", "loop", "exit"}
      /\ sigflag' \in BOOLEAN /\ blocked' \in BOOLEAN /\ vpending' \in BOOLEAN
  BY <1>0, <1>2 DEF SrvTypeOK
<1>4. SrvTypeOK' /\ SrvQueue'
  BY <1>0, <1>1, <1>3 DEF SrvTypeOK, SrvQueue
<1>5. S!In("setup")' = S!In("setup") /\ Started' = Started
  BY <1>1 DEF S!In, Started
<1>6. Token'
  <2>1. CASE /\ vpc = "test" /\ vpending' = vpending
             /\ sigflag /\ vpc' = "accept" /\ sigflag' = FALSE /\ blocked' = FALSE
    BY <1>0, <1>1, <1>5, <2>1 DEF Token
  <2>2. CASE vpc = "test" /\ vpending' = vpending /\ ~sigflag /\ vpc' = "suspend" /\ UNCHANGED <<sigflag, blocked>>
    BY <1>0, <1>1, <1>5, <2>2 DEF Token
  <2>3. CASE /\ vpending /\ vpc # "exit" /\ vpending' = FALSE /\ sigflag' = TRUE /\ blocked' = blocked
             /\ \/ vpc = "suspend" /\ vpc' = "test"
                \/ vpc # "suspend" /\ vpc' = vpc
                \/ vpc = "test" /\ vpc' = "suspend" /\ ~blocked
    BY <1>0, <1>1, <1>5, <2>3 DEF Token
  <2>4. CASE vpc = "loop" /\ vpc' = "exit" /\ UNCHANGED <<sigflag, blocked, vpending>>
    BY <1>0, <1>1, <1>5, <2>4 DEF Token
  <2>5. QED BY <1>2, <2>1, <2>2, <2>3, <2>4
<1>7. StartedRight'
  <2>1. CASE vpc = "test" /\ vpc' = "accept"
    BY <1>0, <1>1, <1>5, <2>1 DEF StartedRight
  <2>2. CASE vpc' \in {"test", "suspend"} /\ vpc \in {"test", "suspend"} /\ blocked' = blocked
    BY <1>0, <1>1, <1>5, <2>2 DEF StartedRight
  <2>3. CASE vpc' = vpc /\ blocked' = blocked
    BY <1>0, <1>1, <1>5, <2>3 DEF StartedRight
  <2>4. CASE vpc = "loop" /\ vpc' = "exit" /\ blocked' = blocked
    BY <1>0, <1>1, <1>5, <2>4 DEF StartedRight, Token
  <2>5. QED BY <1>2, <2>1, <2>2, <2>3, <2>4
<1>8. QED BY <1>4, <1>6, <1>7 DEF SrvInv

\* A child goes from "setup" to "loop", or dies.
LEMMA ChildSrv ==
  ASSUME SrvInv, NEW c \in 1..NClients, S!Child(c)
  PROVE  SrvInv'
<1>0. SrvTypeOK /\ SrvQueue /\ Token /\ StartedRight
  BY DEF SrvInv
<1>1. /\ UNCHANGED <<dofork, vnproc, vpc, sigflag, blocked, vbacklog, est>>
      /\ \/ /\ vchild[c] = "setup" /\ vchild' = [vchild EXCEPT ![c] = "loop"] /\ untold' = untold
            /\ vpending' = (vpending \/ vpc # "exit")
         \/ /\ vchild[c] = "setup" /\ vchild' = [vchild EXCEPT ![c] = "zombie"] /\ untold' = TRUE
            /\ vpending' = vpending
         \/ /\ vchild[c] = "loop" /\ vchild' = [vchild EXCEPT ![c] = "zombie"] /\ untold' = untold
            /\ vpending' = vpending
  BY DEF S!Child, S!Setup, S!ChildEnds, S!conf, S!signals
<1>2. vchild \in [1..NClients -> {"none", "setup", "loop", "zombie"}]
  BY <1>0 DEF SrvTypeOK
<1>3. /\ vchild' \in [1..NClients -> {"none", "setup", "loop", "zombie"}]
      /\ vchild[c] # "none" /\ vchild'[c] \in {"loop", "zombie"} /\ \A d \in 1..NClients : d # c => vchild'[d] = vchild[d]
  BY <1>1, <1>2
<1>4. SrvTypeOK'
  <2>1. vpending' \in BOOLEAN
    BY <1>0, <1>1 DEF SrvTypeOK
  <2>2. untold' \in BOOLEAN
    BY <1>0, <1>1 DEF SrvTypeOK
  <2>3. QED BY <1>0, <1>1, <1>3, <2>1, <2>2 DEF SrvTypeOK
<1>5. SrvQueue'
  <2>0. vbacklog \in Seq(1..NClients)
    BY <1>0 DEF SrvTypeOK
  <2>1. \A k \in 1..Len(vbacklog) : vbacklog[k] \in 1..NClients /\ vbacklog[k] # c
    BY <1>0, <1>3, <2>0, QueueIn DEF SrvQueue
  <2>2. QED BY <1>0, <1>1, <1>3, <2>1 DEF SrvQueue
<1>6. Started' = Started
  BY <1>3 DEF Started, S!In, S!Clients
<1>7. StartedRight'
  BY <1>0, <1>1, <1>6 DEF StartedRight
<1>8. Token'
  <2>1. S!In("setup")' = S!In("setup") \ {c}
    BY <1>3 DEF S!In, S!Clients
  <2>2. CASE vchild[c] = "setup"
    <3>1. c \in S!In("setup")
      BY <2>2 DEF S!In, S!Clients
    <3>2. S!In("setup")' = {} /\ ~vpending /\ ~sigflag /\ vpc \in {"test", "suspend"}
      BY <1>0, <2>1, <3>1 DEF Token
    <3>3. vpending' \/ untold'
      BY <1>1, <2>2, <3>2
    <3>4. QED BY <1>0, <1>1, <3>2, <3>3 DEF Token
  <2>3. CASE vchild[c] # "setup"
    <3>1. S!In("setup")' = S!In("setup")
      BY <2>1, <2>3 DEF S!In
    <3>2. QED BY <1>0, <1>1, <2>3, <3>1 DEF Token
  <2>4. QED BY <2>2, <2>3
<1>9. QED BY <1>4, <1>5, <1>7, <1>8 DEF SrvInv

\* What a client does brings at most one more connection to the queue.
LEMMA ClientSrv ==
  ASSUME SrvInv, NEW c \in 1..NClients, S!Client(c)
  PROVE  SrvInv'
<1>0. SrvTypeOK /\ SrvQueue /\ Token /\ StartedRight
  BY DEF SrvInv
<1>1. UNCHANGED <<dofork, vnproc, vpc, sigflag, blocked, vpending, vchild, untold>>
  BY DEF S!Client, S!Connect, S!Handshake, S!Returns, S!Interrupted, S!CallAgain, S!Leave, S!Server, S!conf, S!signals
<1>2. \/ UNCHANGED <<vbacklog, est>>
      \/ c \notin est /\ est' = est \cup {c} /\ vbacklog' = Append(vbacklog, c)
  BY DEF S!Client, S!Connect, S!Handshake, S!Returns, S!Interrupted, S!CallAgain, S!Leave
<1>3. S!In("setup")' = S!In("setup") /\ Started' = Started
  BY <1>1 DEF S!In, Started
<1>4. Token' /\ StartedRight'
  BY <1>0, <1>1, <1>3 DEF Token, StartedRight
<1>5. CASE UNCHANGED <<vbacklog, est>>
  <2>1. SrvTypeOK' /\ SrvQueue'
    BY <1>0, <1>1, <1>5 DEF SrvTypeOK, SrvQueue
  <2>2. QED BY <1>4, <2>1 DEF SrvInv
<1>6. CASE c \notin est /\ est' = est \cup {c} /\ vbacklog' = Append(vbacklog, c)
  <2>0. vbacklog \in Seq(1..NClients)
    BY <1>0 DEF SrvTypeOK
  <2>1. /\ Len(vbacklog) \in Nat /\ vbacklog' \in Seq(1..NClients)
        /\ Len(vbacklog') = Len(vbacklog) + 1 /\ vbacklog'[Len(vbacklog) + 1] = c
        /\ \A k \in 1..Len(vbacklog) : vbacklog'[k] = vbacklog[k]
    BY <1>6, <2>0, SeqFacts
  <2>2. \A k \in 1..Len(vbacklog') : k \in 1..Len(vbacklog) \/ k = Len(vbacklog) + 1
    BY <2>1
  <2>3. SrvTypeOK'
    BY <1>0, <1>1, <2>1 DEF SrvTypeOK
  <2>4. \A k \in 1..Len(vbacklog) : vbacklog[k] # c
    BY <1>0, <1>6 DEF SrvQueue
  <2>5. \A k \in 1..Len(vbacklog') : vchild[vbacklog'[k]] = "none" /\ vbacklog'[k] \in est'
    BY <1>0, <1>6, <2>1, <2>2 DEF SrvQueue
  <2>6. \A j, k \in 1..Len(vbacklog') : vbacklog'[j] = vbacklog'[k] => j = k
    BY <1>0, <2>1, <2>2, <2>4 DEF SrvQueue
  <2>7. SrvQueue'
    BY <1>0, <1>1, <1>6, <2>5, <2>6 DEF SrvQueue
  <2>8. QED BY <1>4, <2>3, <2>7 DEF SrvInv
<1>7. QED BY <1>2, <1>5, <1>6

\* Every step of sock with children keeps the invariant.
LEMMA SrvStep ==
  ASSUME SrvInv, [S!Next]_(S!vars)
  PROVE  SrvInv'
<1>1. CASE S!Next
  BY <1>1, AcceptSrv, ParentSrv, ChildSrv, ClientSrv DEF S!Next, S!Parent, S!Clients
<1>2. CASE UNCHANGED S!vars
  <2>1. UNCHANGED <<dofork, vnproc, vpc, sigflag, blocked, vpending, vbacklog, vchild, untold, est>>
    BY <1>2 DEF S!vars, S!conf, S!signals
  <2>2. S!In("setup")' = S!In("setup") /\ Started' = Started
    BY <2>1 DEF S!In, Started
  <2>3. QED BY <2>1, <2>2 DEF SrvInv, SrvTypeOK, SrvQueue, Token, StartedRight
<1>3. QED BY <1>1, <1>2

\* What the invariant says of the children.
LEMMA SrvSafe == SrvInv => S!SockServerSafe
<1>1. ASSUME SrvInv
      PROVE  S!SockServerSafe
  <2>0. SrvTypeOK /\ Token /\ StartedRight
    BY <1>1 DEF SrvInv
  <2>1. S!Cardinality((1..NClients) \ S!In("none")) = Cardinality(Started)
    BY SameCardinalityS DEF Started
  <2>2. S!OneAtATime
    <3>1. CASE S!In("setup") = {}
      BY <3>1, SameCardinalityS, FS_EmptySet DEF S!OneAtATime
    <3>2. ASSUME NEW c \in S!In("setup") PROVE S!OneAtATime
      <4>1. S!In("setup") = {c}
        BY <2>0, <3>2 DEF Token
      <4>2. Cardinality({c}) = 1
        BY FS_Singleton
      <4>3. QED BY <4>1, <4>2, SameCardinalityS DEF S!OneAtATime
    <3>3. QED BY <3>1, <3>2
  <2>3. S!StuckFor
    <3>1. ASSUME S!Stuck, ~untold PROVE sigflag /\ Cardinality(Started) > 1
      <4>1. sigflag /\ ~blocked /\ vpc = "suspend"
        BY <2>0, <3>1 DEF S!Stuck, Token
      <4>2. Cardinality(Started) \in Nat
        BY <2>0, FS_CardinalityType DEF StartedRight
      <4>3. QED BY <2>0, <4>1, <4>2 DEF StartedRight
    <3>2. QED BY <2>1, <3>1 DEF S!StuckFor, S!Clients
  <2>4. S!EndsAtLimit
    BY <2>0, <2>1 DEF S!EndsAtLimit, StartedRight, S!Clients
  <2>5. QED BY <2>2, <2>3, <2>4 DEF S!SockServerSafe
<1>2. QED BY <1>1

\* SockServerSafe, a part of SockSafe: one child at a time sets its options; the
\* first child's signal is never lost, so that only a later one can leave the parent
\* stuck; and it ends only when as many as there can be have been started.
THEOREM ChildrenTakeTurns == S!Spec => []S!SockServerSafe
BY SrvSafe, SrvStart, SrvStep, PTL DEF S!Spec

-----------------------------------------------------------------------------
(***************************************************************************)
(* The echo servers.  A signal that waits stands for a child that has      *)
(* died and has not been waited for (Zombies); what accept() reports has   *)
(* its cause in the handler, the connections or the children (Causes).     *)
(***************************************************************************)
EchoTypeOK ==
  /\ prog \in E!Programs /\ restart \in BOOLEAN
  /\ epc \in {"accept", "interrupted", "failed", "fork", "dead"}
  /\ errno \in {"none", "EINTR", "ECONNABORTED", "ECHILD"}
  /\ epending \in BOOLEAN /\ handling \in BOOLEAN
  /\ connfd \in {0} \cup 1..NClients /\ ebacklog \in Seq(1..NClients)
  /\ echild \in [1..NClients -> {"none", "run", "zombie", "gone"}]
  /\ ecpc \in [1..NClients -> {"start", "open", "closed", "reset"}]

\* A connection has no child until it has been accepted: who waits waits once, and
\* is not the one for which fork() is about to be called.
Childless ==
  /\ \A k \in 1..Len(ebacklog) : echild[ebacklog[k]] = "none"
  /\ \A j, k \in 1..Len(ebacklog) : ebacklog[j] = ebacklog[k] => j = k
  /\ epc = "fork" => /\ connfd \in 1..NClients /\ echild[connfd] = "none"
                     /\ \A k \in 1..Len(ebacklog) : ebacklog[k] # connfd
  /\ \A c \in 1..NClients : ecpc[c] = "start" =>
       /\ echild[c] = "none" /\ (\A k \in 1..Len(ebacklog) : ebacklog[k] # c)
       /\ ~(epc = "fork" /\ connfd = c)

\* Each signal stands for a child that nobody has waited for: one that waits to be
\* delivered for one, and a second while the handler runs for another.
Zombies ==
  prog.buries = "wait" =>
    /\ epending \/ handling => E!In("zombie") # {}
    /\ epending /\ handling => \E c, d \in E!In("zombie") : c # d

\* Where errno comes from.
Causes ==
  /\ epending \/ handling => E!Handles
  /\ prog.buries = "waitpid" /\ epc # "dead" /\ ~epending /\ ~handling => E!In("zombie") = {}
  /\ errno = "EINTR" => E!Handles /\ ~restart
  /\ errno = "ECONNABORTED" => \E c \in 1..NClients : ecpc[c] = "reset"
  /\ errno = "ECHILD" => prog.buries = "waitpid"
  /\ epc = "interrupted" => E!Handles /\ ~restart
  /\ epc = "failed" => errno # "none" /\ (~restart \/ \E c \in 1..NClients : ecpc[c] = "reset")

EchoInv == EchoTypeOK /\ Childless /\ Zombies /\ Causes /\ E!DiesOf

\* The programs that handle SIGCHLD but go on after ECONNABORTED, and the rest.
LEMMA ProgramKinds ==
  /\ \A p \in E!Programs :
       /\ p.serves \in {"child", "thread"} /\ p.buries \in {"never", "wait", "waitpid"}
       /\ p.again \in {"EINTR", "ECONNABORTED"} /\ (p.serves = "thread" => p.buries = "never")
       /\ p.again = "ECONNABORTED" /\ p.buries # "never" => p = E!tcpserv02
  /\ E!tcpserv01 \in E!Programs
BY DEF E!Programs, E!tcpserv01, E!tcpserv02, E!tcpserv03, E!tcpserv04, E!tcpserv08, E!tcpserv09,
       E!unixstrserv01, E!unixstrserv02, E!oob_tcpserv02, E!advio_tcpserv02,
       E!threads_tcpserv01, E!threads_tcpserv02

\* The invariant holds at the start of the echo servers.
LEMMA EchoStart ==
  ASSUME E!Init
  PROVE  EchoInv
<1>1. EchoTypeOK
  <2>1. <<>> \in Seq(1..NClients)
    OBVIOUS
  <2>2. ebacklog = <<>> /\ errno = "none" /\ epc = "accept" /\ connfd = 0 /\ ~epending /\ ~handling
        /\ prog \in E!Programs /\ restart \in BOOLEAN
        /\ epending \in BOOLEAN /\ handling \in BOOLEAN
    BY DEF E!Init
  <2>3. /\ echild \in [1..NClients -> {"none", "run", "zombie", "gone"}]
        /\ ecpc \in [1..NClients -> {"start", "open", "closed", "reset"}]
    BY DEF E!Init, E!Clients
  <2>4. QED BY <2>1, <2>2, <2>3 DEF EchoTypeOK
<1>2. Childless /\ Zombies /\ Causes /\ E!DiesOf
  BY DEF E!Init, Childless, Zombies, Causes, E!DiesOf, E!In, E!Clients
<1>3. QED BY <1>1, <1>2 DEF EchoInv

\* err_sys() leaves what the invariant says, if its cause is one that DiesOf names.
LEMMA DieKeeps ==
  ASSUME EchoInv, NEW w, E!Die(w), UNCHANGED <<prog, restart, enproc, errno, connfd, ecpc>>,
         epc' = "dead" /\ ewhy' = w => E!DiesOf'
  PROVE  EchoInv'
<1>1. /\ epc' = "dead" /\ ewhy' = w /\ ebacklog' = <<>> /\ epending' = FALSE /\ handling' = FALSE
      /\ echild' = [c \in 1..NClients |-> IF E!Threads /\ echild[c] = "run" THEN "gone" ELSE echild[c]]
  BY DEF E!Die, E!Clients
<1>2. EchoTypeOK'
  <2>1. EchoTypeOK /\ <<>> \in Seq(1..NClients)
    BY DEF EchoInv
  <2>2. echild' \in [1..NClients -> {"none", "run", "zombie", "gone"}]
    BY <1>1, <2>1 DEF EchoTypeOK
  <2>3. QED BY <1>1, <2>1, <2>2 DEF EchoTypeOK
<1>3. Childless'
  <2>1. \A c \in 1..NClients : ecpc[c] = "start" => echild'[c] = "none"
    BY <1>1 DEF EchoInv, Childless
  <2>2. Len(ebacklog') = 0
    BY <1>1
  <2>3. QED BY <1>1, <2>1, <2>2 DEF Childless
<1>4. Zombies'
  BY <1>1 DEF Zombies
<1>5. Causes'
  BY <1>1 DEF EchoInv, Causes, E!Handles
<1>6. QED BY <1>1, <1>2, <1>3, <1>4, <1>5 DEF EchoInv

\* accept() takes the first of the queue, who has no child.
LEMMA AcceptEcho ==
  ASSUME EchoInv, E!Accept
  PROVE  EchoInv'
<1>0. EchoTypeOK /\ Childless /\ Zombies /\ Causes
  BY DEF EchoInv
<1>1. /\ epc = "accept" /\ ~handling /\ ebacklog # <<>> /\ ebacklog' = Tail(ebacklog)
      /\ UNCHANGED <<prog, restart, enproc, ewhy, epending, handling, echild, ecpc>>
      /\ \/ epc' = "fork" /\ connfd' = Head(ebacklog) /\ errno' = errno
         \/ /\ ecpc[Head(ebacklog)] = "reset" /\ errno' = "ECONNABORTED" /\ epc' = "failed"
            /\ connfd' = connfd
  BY DEF E!Accept, E!conf
<1>2. /\ ebacklog \in Seq(1..NClients) /\ Len(ebacklog) \in Nat \ {0} /\ Head(ebacklog) = ebacklog[1]
      /\ Head(ebacklog) \in 1..NClients /\ Tail(ebacklog) \in Seq(1..NClients)
      /\ Len(Tail(ebacklog)) = Len(ebacklog) - 1
      /\ \A k \in 1..Len(Tail(ebacklog)) : Tail(ebacklog)[k] = ebacklog[k + 1] /\ k + 1 \in 1..Len(ebacklog)
      /\ 1 \in 1..Len(ebacklog)
  <2>1. ebacklog \in Seq(1..NClients)
    BY <1>0 DEF EchoTypeOK
  <2>2. /\ Len(ebacklog) \in Nat \ {0} /\ Head(ebacklog) = ebacklog[1]
        /\ Head(ebacklog) \in 1..NClients /\ Tail(ebacklog) \in Seq(1..NClients)
        /\ Len(Tail(ebacklog)) = Len(ebacklog) - 1
        /\ \A k \in 1..Len(Tail(ebacklog)) : Tail(ebacklog)[k] = ebacklog[k + 1]
    BY <1>1, <2>1, QueueIn
  <2>3. QED BY <2>1, <2>2
<1>3. EchoTypeOK'
  BY <1>0, <1>1, <1>2 DEF EchoTypeOK
<1>4. Childless'
  <2>1. \A k \in 1..Len(ebacklog') : echild[ebacklog'[k]] = "none" /\ ebacklog'[k] # Head(ebacklog)
    BY <1>0, <1>1, <1>2 DEF Childless
  <2>2. \A j, k \in 1..Len(ebacklog') : ebacklog'[j] = ebacklog'[k] => j = k
    <3> TAKE j, k \in 1..Len(ebacklog')
    <3>1. ebacklog[j + 1] = ebacklog[k + 1] => j + 1 = k + 1
      BY <1>0, <1>1, <1>2 DEF Childless
    <3>2. QED BY <1>1, <1>2, <3>1
  <2>3. echild[Head(ebacklog)] = "none" /\ ecpc[Head(ebacklog)] # "start"
    BY <1>0, <1>2 DEF Childless
  <2>4. \A c \in 1..NClients : ecpc[c] = "start" => /\ echild[c] = "none" /\ c # Head(ebacklog)
                                                    /\ \A k \in 1..Len(ebacklog') : ebacklog'[k] # c
    BY <1>0, <1>1, <1>2, <2>3 DEF Childless
  <2>5. QED BY <1>1, <1>2, <2>1, <2>2, <2>3, <2>4 DEF Childless
<1>5. Zombies'
  BY <1>0, <1>1 DEF Zombies, E!In
<1>6. Causes'
  BY <1>0, <1>1, <1>2 DEF Causes, E!In, E!Handles
<1>7. QED BY <1>1, <1>3, <1>4, <1>5, <1>6 DEF EchoInv, E!DiesOf, E!Threads

\* The test of errno: the cause of an end is an error the program does not expect.
LEMMA TestErrnoEcho ==
  ASSUME EchoInv, E!TestErrno
  PROVE  EchoInv'
<1>0. EchoTypeOK /\ Childless /\ Zombies /\ Causes
  BY DEF EchoInv
<1>1. /\ epc = "failed" /\ ~handling /\ UNCHANGED <<prog, restart, enproc, errno, connfd, ecpc>>
      /\ IF errno = prog.again
         THEN epc' = "accept" /\ UNCHANGED <<ewhy, epending, handling, ebacklog, echild>>
         ELSE E!Die(errno)
  BY DEF E!TestErrno, E!conf
<1>2. CASE errno = prog.again
  <2>1. EchoTypeOK' /\ Childless' /\ Zombies' /\ Causes'
    BY <1>0, <1>1, <1>2 DEF EchoTypeOK, Childless, Zombies, Causes, E!In, E!Handles
  <2>2. QED BY <1>1, <1>2, <2>1 DEF EchoInv, E!DiesOf, E!Threads
<1>3. CASE errno # prog.again
  <2>1. prog \in E!Programs /\ errno \in {"EINTR", "ECONNABORTED", "ECHILD"}
    BY <1>0, <1>1 DEF EchoTypeOK, Causes
  <2>2. errno = "EINTR" => prog = E!tcpserv02 /\ ~restart
    BY <1>0, <1>3, <2>1, ProgramKinds DEF Causes, E!Handles
  <2>3. errno = "ECONNABORTED" => prog.again = "EINTR" /\ \E c \in 1..NClients : ecpc[c] = "reset"
    BY <1>0, <1>3, <2>1, ProgramKinds DEF Causes
  <2>4. errno = "ECHILD" => prog.buries = "waitpid" /\ (~restart \/ \E c \in 1..NClients : ecpc[c] = "reset")
    BY <1>0, <1>1 DEF Causes
  <2>5. epc' = "dead" /\ ewhy' = errno => E!DiesOf'
    BY <1>1, <2>1, <2>2, <2>3, <2>4 DEF E!DiesOf, E!Clients
  <2>6. QED BY <1>1, <1>3, <2>5, DieKeeps
<1>4. QED BY <1>2, <1>3

\* fork() for a connection that has no child yet.
LEMMA ForkEcho ==
  ASSUME EchoInv, E!Fork
  PROVE  EchoInv'
<1>0. EchoTypeOK /\ Childless /\ Zombies /\ Causes
  BY DEF EchoInv
<1>1. /\ epc = "fork" /\ ~handling /\ UNCHANGED <<prog, restart, enproc, errno, connfd, ecpc>>
      /\ \/ ~E!Threads /\ E!Die("EAGAIN")
         \/ /\ epc' = "accept" /\ echild' = [echild EXCEPT ![connfd] = "run"]
            /\ UNCHANGED <<ewhy, epending, handling, ebacklog>>
  BY DEF E!Fork, E!conf
<1>2. CASE ~E!Threads /\ E!Die("EAGAIN")
  <2>1. epc' = "dead" /\ ewhy' = "EAGAIN" => E!DiesOf'
    BY <1>1, <1>2 DEF E!DiesOf, E!Threads
  <2>2. QED BY <1>1, <1>2, <2>1, DieKeeps
<1>3. CASE epc' = "accept" /\ echild' = [echild EXCEPT ![connfd] = "run"] /\ UNCHANGED <<ewhy, epending, handling, ebacklog>>
  <2>1. connfd \in 1..NClients /\ echild[connfd] = "none" /\ echild \in [1..NClients -> {"none", "run", "zombie", "gone"}]
    BY <1>0, <1>1 DEF Childless, EchoTypeOK
  <2>2. echild'[connfd] = "run" /\ \A c \in 1..NClients : c # connfd => echild'[c] = echild[c]
    BY <1>3, <2>1
  <2>3. EchoTypeOK'
    BY <1>0, <1>1, <1>3, <2>1 DEF EchoTypeOK
  <2>4. Childless'
    <3>0. ebacklog \in Seq(1..NClients)
      BY <1>0 DEF EchoTypeOK
    <3>1. \A k \in 1..Len(ebacklog) : ebacklog[k] \in 1..NClients
      BY <3>0, QueueIn
    <3>2. QED BY <1>0, <1>1, <1>3, <2>2, <3>1 DEF Childless
  <2>5. E!In("zombie")' = E!In("zombie")
    BY <2>1, <2>2 DEF E!In, E!Clients
  <2>6. Zombies' /\ Causes'
    BY <1>0, <1>1, <1>3, <2>5 DEF Zombies, Causes, E!Handles
  <2>7. QED BY <1>3, <2>3, <2>4, <2>6 DEF EchoInv, E!DiesOf, E!Threads
<1>4. QED BY <1>1, <1>2, <1>3

\* The handler begins, between two statements or in accept().
LEMMA DeliverEcho ==
  ASSUME EchoInv, E!Deliver
  PROVE  EchoInv'
<1>0. EchoTypeOK /\ Childless /\ Zombies /\ Causes
  BY DEF EchoInv
<1>1. /\ epending /\ ~handling /\ epending' = FALSE /\ handling' = TRUE
      /\ UNCHANGED <<prog, restart, enproc, errno, ewhy, connfd, ebacklog, echild, ecpc>>
      /\ \/ UNCHANGED epc
         \/ epc = "accept" /\ ~restart /\ epc' = "interrupted"
  BY DEF E!Deliver, E!conf
<1>2. EchoTypeOK' /\ Childless'
  BY ZenonT(40), <1>0, <1>1 DEF EchoTypeOK, Childless
<1>3. Zombies' /\ Causes'
  BY <1>0, <1>1 DEF Zombies, Causes, E!In, E!Handles
<1>4. E!DiesOf'
  BY <1>1 DEF EchoInv, E!DiesOf, E!Threads
<1>5. QED BY <1>2, <1>3, <1>4 DEF EchoInv

\* accept() fails after the handler has run.
LEMMA InterruptedEcho ==
  ASSUME EchoInv, E!Interrupted
  PROVE  EchoInv'
<1>0. EchoTypeOK /\ Childless /\ Zombies /\ Causes
  BY DEF EchoInv
<1>1. /\ epc = "interrupted" /\ ~handling /\ epc' = "failed" /\ errno' = "EINTR"
      /\ UNCHANGED <<prog, restart, enproc, ewhy, epending, handling, connfd, ebacklog, echild, ecpc>>
  BY DEF E!Interrupted, E!conf
<1>2. EchoTypeOK' /\ Childless'
  BY ZenonT(40), <1>0, <1>1 DEF EchoTypeOK, Childless
<1>3. Zombies' /\ Causes'
  BY <1>0, <1>1 DEF Zombies, Causes, E!In, E!Handles
<1>4. E!DiesOf'
  BY <1>1 DEF EchoInv, E!DiesOf, E!Threads
<1>5. QED BY <1>2, <1>3, <1>4 DEF EchoInv

\* A child that is buried: who waits to be accepted has none.
LEMMA BuryKeeps ==
  ASSUME EchoTypeOK, Childless, NEW c \in 1..NClients, E!Bury(c),
         UNCHANGED <<epc, connfd, ebacklog, ecpc>>
  PROVE  /\ echild' \in [1..NClients -> {"none", "run", "zombie", "gone"}]
         /\ Childless' /\ E!In("zombie")' = E!In("zombie") \ {c}
<1>1. echild[c] = "zombie" /\ echild' = [echild EXCEPT ![c] = "gone"]
      /\ echild \in [1..NClients -> {"none", "run", "zombie", "gone"}]
      /\ \A k \in 1..Len(ebacklog) : ebacklog[k] \in 1..NClients
  <2>1. ebacklog \in Seq(1..NClients)
    BY DEF EchoTypeOK
  <2>2. QED BY <2>1, QueueIn DEF E!Bury, EchoTypeOK
<1>2. \A d \in 1..NClients : echild[d] = "none" => echild'[d] = "none"
  BY <1>1
<1>3. Childless'
  BY <1>1, <1>2 DEF Childless
<1>4. QED BY <1>1, <1>3 DEF E!In, E!Clients

\* The handler calls wait() once.
LEMMA WaitEcho ==
  ASSUME EchoInv, E!Wait
  PROVE  EchoInv'
<1>0. EchoTypeOK /\ Childless /\ Zombies /\ Causes
  BY DEF EchoInv
<1>1. /\ handling /\ prog.buries = "wait" /\ handling' = FALSE
      /\ UNCHANGED <<prog, restart, enproc, epc, ewhy, epending, connfd, ebacklog, ecpc>>
  BY DEF E!Wait, E!conf
<1>2. E!In("zombie") # {} /\ (epending => \E c, d \in E!In("zombie") : c # d)
  BY <1>0, <1>1 DEF Zombies
<1>3. errno' = errno /\ \E c \in 1..NClients : E!Bury(c)
  BY <1>2 DEF E!Wait, E!Clients
<1>4. PICK c \in 1..NClients : E!Bury(c)
  BY <1>3
<1>5. /\ echild' \in [1..NClients -> {"none", "run", "zombie", "gone"}]
      /\ Childless' /\ E!In("zombie")' = E!In("zombie") \ {c}
  BY <1>0, <1>1, <1>4, BuryKeeps
<1>6. EchoTypeOK'
  BY <1>0, <1>1, <1>3, <1>5 DEF EchoTypeOK
<1>7. Zombies' /\ Causes'
  BY <1>0, <1>1, <1>2, <1>3, <1>5 DEF Zombies, Causes, E!Handles
<1>8. QED BY <1>1, <1>5, <1>6, <1>7 DEF EchoInv, E!DiesOf, E!Threads

\* The handler calls waitpid() until no dead child is left.
LEMMA WaitpidEcho ==
  ASSUME EchoInv, E!Waitpid
  PROVE  EchoInv'
<1>0. EchoTypeOK /\ Childless /\ Zombies /\ Causes
  BY DEF EchoInv
<1>1. /\ handling /\ prog.buries = "waitpid"
      /\ UNCHANGED <<prog, restart, enproc, epc, ewhy, epending, connfd, ebacklog, ecpc>>
      /\ \/ (\E c \in 1..NClients : E!Bury(c)) /\ errno' = errno /\ handling' = handling
         \/ E!In("zombie") = {} /\ handling' = FALSE /\ echild' = echild /\ errno' \in {"ECHILD", errno}
  BY DEF E!Waitpid, E!conf, E!Clients
<1>2. E!DiesOf' /\ Zombies'
  BY <1>1 DEF EchoInv, E!DiesOf, E!Threads, Zombies
<1>3. CASE (\E c \in 1..NClients : E!Bury(c)) /\ errno' = errno /\ handling' = handling
  <2>1. PICK c \in 1..NClients : E!Bury(c)
    BY <1>3
  <2>2. echild' \in [1..NClients -> {"none", "run", "zombie", "gone"}] /\ Childless'
    BY <1>0, <1>1, <2>1, BuryKeeps
  <2>3. EchoTypeOK' /\ Causes'
    BY <1>0, <1>1, <1>3, <2>2 DEF EchoTypeOK, Causes, E!Handles
  <2>4. QED BY <1>2, <2>2, <2>3 DEF EchoInv
<1>4. CASE E!In("zombie") = {} /\ handling' = FALSE /\ echild' = echild /\ errno' \in {"ECHILD", errno}
  <2>1. EchoTypeOK' /\ Childless'
    BY ZenonT(40), <1>0, <1>1, <1>4 DEF EchoTypeOK, Childless
  <2>2. Causes'
    BY <1>0, <1>1, <1>4 DEF Causes, E!Handles, E!In
  <2>3. QED BY <1>2, <2>1, <2>2 DEF EchoInv
<1>5. QED BY <1>1, <1>3, <1>4

\* A child that ends becomes a zombie, and its signal waits from then on.
LEMMA ServeEndsEcho ==
  ASSUME EchoInv, NEW c \in 1..NClients, E!ServeEnds(c)
  PROVE  EchoInv'
<1>0. EchoTypeOK /\ Childless /\ Zombies /\ Causes /\ prog \in E!Programs
  BY DEF EchoInv, EchoTypeOK
<1>1. /\ echild[c] = "run" /\ UNCHANGED <<prog, restart, enproc, errno, connfd, ecpc>>
      /\ \/ /\ E!Threads /\ echild' = [echild EXCEPT ![c] = "gone"]
            /\ UNCHANGED <<epc, ewhy, ebacklog, epending, handling>>
         \/ E!Threads /\ ecpc[c] = "reset" /\ E!Die("thread")
         \/ /\ ~E!Threads /\ echild' = [echild EXCEPT ![c] = "zombie"]
            /\ epending' = (epending \/ (E!Handles /\ epc # "dead"))
            /\ UNCHANGED <<epc, ewhy, ebacklog, handling>>
  BY DEF E!ServeEnds, E!conf, E!Reported
<1>2. CASE E!Threads /\ ecpc[c] = "reset" /\ E!Die("thread")
  <2>1. epc' = "dead" /\ ewhy' = "thread" => E!DiesOf'
    BY <1>1, <1>2 DEF E!DiesOf, E!Threads, E!Clients
  <2>2. QED BY <1>1, <1>2, <2>1, DieKeeps
<1>3. ASSUME NEW l \in {"gone", "zombie"}, echild' = [echild EXCEPT ![c] = l], UNCHANGED <<epc, ewhy, ebacklog, handling>>,
             epending' \in BOOLEAN
      PROVE  EchoTypeOK' /\ Childless' /\ E!DiesOf'
             /\ E!In("zombie")' = IF l = "zombie" THEN E!In("zombie") \cup {c} ELSE E!In("zombie")
  <2>0. ebacklog \in Seq(1..NClients)
    BY <1>0 DEF EchoTypeOK
  <2>1. /\ echild \in [1..NClients -> {"none", "run", "zombie", "gone"}]
        /\ \A k \in 1..Len(ebacklog) : ebacklog[k] \in 1..NClients
    BY <1>0, <2>0, QueueIn DEF EchoTypeOK
  <2>2. /\ echild'[c] = l /\ \A d \in 1..NClients : d # c => echild'[d] = echild[d]
        /\ \A d \in 1..NClients : echild[d] = "none" => echild'[d] = "none"
    BY <1>1, <1>3, <2>1
  <2>3. EchoTypeOK'
    BY <1>0, <1>1, <1>3, <2>1 DEF EchoTypeOK
  <2>4. Childless'
    BY <1>0, <1>1, <1>3, <2>1, <2>2 DEF Childless
  <2>5. E!DiesOf'
    BY <1>1, <1>3 DEF EchoInv, E!DiesOf, E!Threads
  <2>6. E!In("zombie")' = IF l = "zombie" THEN E!In("zombie") \cup {c} ELSE E!In("zombie")
    BY <1>1, <2>2 DEF E!In, E!Clients
  <2>7. QED BY <2>3, <2>4, <2>5, <2>6
<1>4. CASE E!Threads /\ echild' = [echild EXCEPT ![c] = "gone"] /\ UNCHANGED <<epc, ewhy, ebacklog, epending, handling>>
  <2>1. prog.buries = "never" /\ prog.buries # "wait" /\ prog.buries # "waitpid"
    BY <1>0, <1>4, ProgramKinds DEF E!Threads
  <2>2. EchoTypeOK' /\ Childless' /\ E!DiesOf'
    BY <1>0, <1>3, <1>4 DEF EchoTypeOK
  <2>3. Zombies' /\ Causes'
    BY <1>0, <1>1, <1>4, <2>1 DEF Zombies, Causes, E!Handles
  <2>4. QED BY <2>2, <2>3 DEF EchoInv
<1>5. CASE /\ ~E!Threads /\ echild' = [echild EXCEPT ![c] = "zombie"]
           /\ epending' = (epending \/ (E!Handles /\ epc # "dead")) /\ UNCHANGED <<epc, ewhy, ebacklog, handling>>
  <2>1. epending' \in BOOLEAN
    BY <1>5
  <2>2. EchoTypeOK' /\ Childless' /\ E!DiesOf' /\ E!In("zombie")' = E!In("zombie") \cup {c}
    BY <1>3, <1>5, <2>1
  <2>3. c \notin E!In("zombie")
    BY <1>1 DEF E!In
  <2>4. Zombies'
    BY <1>0, <1>1, <1>5, <2>2, <2>3 DEF Zombies
  <2>5. Causes'
    BY <1>0, <1>1, <1>5 DEF Causes, E!Handles
  <2>6. QED BY <2>2, <2>4, <2>5 DEF EchoInv
<1>6. QED BY <1>1, <1>2, <1>4, <1>5

\* A client connects.
LEMMA ConnectEcho ==
  ASSUME EchoInv, NEW c \in 1..NClients, E!Connect(c)
  PROVE  EchoInv'
<1>0. EchoTypeOK /\ Childless /\ Zombies /\ Causes
  BY DEF EchoInv
<1>1. /\ ecpc[c] = "start" /\ epc # "dead" /\ ecpc' = [ecpc EXCEPT ![c] = "open"] /\ ebacklog' = Append(ebacklog, c)
      /\ UNCHANGED <<prog, restart, enproc, epc, errno, ewhy, epending, handling, connfd, echild>>
  BY DEF E!Connect, E!conf
<1>2. /\ ebacklog \in Seq(1..NClients) /\ Len(ebacklog) \in Nat /\ ebacklog' \in Seq(1..NClients)
      /\ Len(ebacklog') = Len(ebacklog) + 1 /\ ebacklog'[Len(ebacklog) + 1] = c
      /\ \A k \in 1..Len(ebacklog) : ebacklog'[k] = ebacklog[k] /\ ebacklog[k] \in 1..NClients
      /\ \A k \in 1..Len(ebacklog') : k \in 1..Len(ebacklog) \/ k = Len(ebacklog) + 1
  <2>1. ebacklog \in Seq(1..NClients)
    BY <1>0 DEF EchoTypeOK
  <2>2. /\ ebacklog' \in Seq(1..NClients) /\ Len(ebacklog') = Len(ebacklog) + 1 /\ Len(ebacklog) \in Nat
        /\ ebacklog'[Len(ebacklog) + 1] = c /\ \A k \in 1..Len(ebacklog) : ebacklog'[k] = ebacklog[k]
    BY <1>1, <2>1, SeqFacts
  <2>3. \A k \in 1..Len(ebacklog) : ebacklog[k] \in 1..NClients
    BY <2>1, QueueIn
  <2>4. QED BY <2>1, <2>2, <2>3
<1>3. ecpc \in [1..NClients -> {"start", "open", "closed", "reset"}]
  BY <1>0 DEF EchoTypeOK
<1>4. EchoTypeOK'
  BY <1>0, <1>1, <1>2, <1>3 DEF EchoTypeOK
<1>5. Childless'
  <2>1. /\ echild[c] = "none" /\ (\A k \in 1..Len(ebacklog) : ebacklog[k] # c) /\ ~(epc = "fork" /\ connfd = c)
    BY <1>0, <1>1 DEF Childless
  <2>2. \A k \in 1..Len(ebacklog') : echild[ebacklog'[k]] = "none" /\ (epc = "fork" => ebacklog'[k] # connfd)
    BY <1>0, <1>2, <2>1 DEF Childless
  <2>3. \A j, k \in 1..Len(ebacklog') : ebacklog'[j] = ebacklog'[k] => j = k
    BY <1>0, <1>2, <2>1 DEF Childless
  <2>4. \A d \in 1..NClients : ecpc'[d] = "start" => ecpc[d] = "start" /\ d # c
    BY <1>1, <1>3
  <2>5. \A d \in 1..NClients : ecpc'[d] = "start" => \A k \in 1..Len(ebacklog') : ebacklog'[k] # d
    BY <1>0, <1>2, <2>4 DEF Childless
  <2>6. QED BY <1>0, <1>1, <2>2, <2>3, <2>4, <2>5 DEF Childless
<1>6. \A d \in 1..NClients : ecpc[d] = "reset" => ecpc'[d] = "reset"
  BY <1>1, <1>3
<1>7. Zombies' /\ Causes'
  BY <1>0, <1>1, <1>6 DEF Zombies, Causes, E!In, E!Handles
<1>8. E!DiesOf'
  BY <1>1 DEF E!DiesOf
<1>9. QED BY <1>4, <1>5, <1>7, <1>8 DEF EchoInv

\* A client closes or resets its connection.
LEMMA LeaveEcho ==
  ASSUME EchoInv, NEW c \in 1..NClients, E!Leave(c)
  PROVE  EchoInv'
<1>0. EchoTypeOK /\ Childless /\ Zombies /\ Causes /\ E!DiesOf
  BY DEF EchoInv
<1>1. /\ ecpc[c] = "open" /\ ecpc' \in {[ecpc EXCEPT ![c] = "closed"], [ecpc EXCEPT ![c] = "reset"]}
      /\ UNCHANGED <<prog, restart, enproc, epc, errno, ewhy, epending, handling, connfd, ebacklog, echild>>
  BY DEF E!Leave, E!conf
<1>2. ecpc \in [1..NClients -> {"start", "open", "closed", "reset"}]
  BY <1>0 DEF EchoTypeOK
<1>3. /\ \A d \in 1..NClients : ecpc[d] = "reset" => ecpc'[d] = "reset"
      /\ \A d \in 1..NClients : ecpc'[d] = "start" => ecpc[d] = "start"
  BY <1>1, <1>2
<1>4. EchoTypeOK' /\ Childless'
  BY <1>0, <1>1, <1>2, <1>3 DEF EchoTypeOK, Childless
<1>5. Zombies' /\ Causes'
  BY <1>0, <1>1, <1>3 DEF Zombies, Causes, E!In, E!Handles
<1>6. E!DiesOf'
  BY <1>0, <1>1, <1>3 DEF E!DiesOf, E!Threads, E!Clients
<1>7. QED BY <1>4, <1>5, <1>6 DEF EchoInv

\* Every step of the echo servers keeps the invariant.
LEMMA EchoStep ==
  ASSUME EchoInv, [E!Next]_(E!vars)
  PROVE  EchoInv'
<1>1. CASE E!Next
  BY <1>1, AcceptEcho, TestErrnoEcho, ForkEcho, DeliverEcho, InterruptedEcho, WaitEcho, WaitpidEcho, ServeEndsEcho,
     ConnectEcho, LeaveEcho DEF E!Next, E!Server, E!Clients
<1>2. CASE UNCHANGED E!vars
  <2>1. UNCHANGED <<prog, restart, enproc, epc, errno, ewhy, epending, handling, connfd, ebacklog, echild, ecpc>>
    BY <1>2 DEF E!vars, E!conf
  <2>2. EchoTypeOK' /\ Childless'
    BY <2>1 DEF EchoInv, EchoTypeOK, Childless
  <2>3. Zombies' /\ Causes' /\ E!DiesOf'
    BY <2>1 DEF EchoInv, Zombies, Causes, E!DiesOf, E!In, E!Handles, E!Threads
  <2>4. QED BY <2>2, <2>3 DEF EchoInv
<1>3. QED BY <1>1, <1>2

\* What the invariant says of the children and of the causes of the end.
LEMMA EchoSafe == EchoInv => EchoServersSafe
BY DEF EchoInv, Zombies, Causes, EchoServersSafe, E!EchoServersSafe, E!Buried

\* EchoServersSafe: waitpid() in a loop leaves no child unburied however many signals
\* are lost, wait() is only called for one that has died, and each server dies only
\* of what it does not test for.
THEOREM BuriedAndBlamed == E!Spec => []EchoServersSafe
BY EchoSafe, EchoStart, EchoStep, PTL DEF E!Spec

-----------------------------------------------------------------------------
(***************************************************************************)
(* The receivers of urgent data.  What select() said of the urgent byte    *)
(* holds until the program asks for it (Asked), and before each read() the *)
(* byte at the mark has been taken or is about to be (Passed).             *)
(***************************************************************************)
Flags ==
  /\ forgets \in BOOLEAN /\ ofin \in BOOLEAN /\ sigurg \in BOOLEAN
  /\ xset \in BOOLEAN /\ orset \in BOOLEAN /\ justreadoob \in BOOLEAN /\ announced \in BOOLEAN
  /\ before \in BOOLEAN /\ wrong \in BOOLEAN

Places ==
  /\ osent \in Nat /\ arrived \in Nat /\ next \in Nat /\ mark \in Nat
  /\ arrived <= osent /\ osent <= Len(script) /\ 1 <= next /\ next <= arrived + 1 /\ mark <= Len(script)
  /\ urgent \subseteq Nat /\ oob \in {"none", "here", "had"} /\ opc \in {"wait", "urgent", "normal", "exit", "dead"}
  /\ owhy \in {"none", "EINVAL", "EWOULDBLOCK"}

OobTypeOK == Flags /\ Places

\* The programs: who does not read handles the signal; every script begins and ends
\* with normal data, with an urgent byte in the second place.
Shape ==
  /\ recv.learns \in {"SIGURG", "select", "inline"} /\ recv.reads \in BOOLEAN /\ recv.again \in BOOLEAN
  /\ recv.reads \/ O!Handles
  /\ Len(script) \in Nat /\ Len(script) >= 3
  /\ script[1] = "n" /\ script[2] = "u" /\ script[Len(script)] = "n"

\* The mark is an urgent byte, and none that has arrived is beyond it.
Marks ==
  /\ ofin => arrived = Len(script)
  /\ mark # 0 => script[mark] = "u"
  /\ \A p \in 1..arrived : script[p] = "u" => p <= mark

\* A signal stands for a byte that has not been taken; what is announced is the
\* byte at which the next read() starts.
OobTold ==
  /\ sigurg => O!Handles /\ oob # "had"
  /\ opc # "dead" => owhy = "none"
  /\ announced => O!Inline /\ script[next] = "u"

\* What the programs with select() know: between its answer and the use of it the
\* mark only grows; and a byte that has been taken with nothing before it is the
\* reason why they do not ask.
Asked ==
  /\ opc = "urgent" /\ xset => mark >= next /\ (forgets => oob # "had") /\ O!AskedUrgent
  /\ O!Selects /\ ~recv.again /\ oob = "had" /\ mark >= next /\ ~before /\ opc # "exit"
       => justreadoob /\ next = mark

\* Why no urgent byte is passed by a read(): at the mark, the byte has been taken or
\* will be before the read().
Passed ==
  /\ justreadoob => O!Selects
  /\ justreadoob /\ opc # "dead" => \E m \in urgent : next <= m /\ m <= mark
  /\ oob = "had" => mark \in urgent
  /\ opc \in {"urgent", "normal"} /\ O!Selects /\ orset => next <= arrived \/ ofin
  /\ O!Selects /\ opc \in {"urgent", "normal"} /\ orset /\ mark = next
       => mark \in urgent \/ (opc = "urgent" /\ xset)
  /\ O!Selects /\ 0 < mark /\ mark < next => mark \in urgent

\* tcprecv05, with room for one write.
Room ==
  ~recv.reads /\ RcvBuf = 1 => next = 1 /\ arrived <= 1 /\ oob # "here" /\ urgent = {}

OobInv ==
  /\ OobTypeOK /\ Shape /\ Marks /\ OobTold /\ Asked /\ Passed /\ Room
  /\ O!DiesAsking /\ O!MarkIsUrgent /\ O!NoUrgentMissed

\* The Max and Min of an instance are those of the chat server.
LEMMA SameMinMax ==
  ASSUME NEW Elems PROVE O!Max(Elems) = Max(Elems) /\ O!Min(Elems) = Min(Elems)
BY DEF O!Max, Max, O!Min, Min

\* The invariant holds at the start of the receivers of urgent data.
LEMMA OobStart ==
  ASSUME O!Init
  PROVE  OobInv
<1>1. Shape
  <2>1. recv \in O!Receivers /\ script \in {O!tcpsend01, O!tcpsend02, O!tcpsend03, O!tcpsend04, O!tcpsend05, O!tcpsend06}
    BY DEF O!Init
  <2>2. \E l \in {"SIGURG", "select", "inline"}, r, a \in BOOLEAN :
          recv = [learns |-> l, reads |-> r, again |-> a] /\ (r \/ l = "SIGURG")
    BY <2>1, Zenon DEF O!Receivers, O!tcprecv01, O!tcprecv02, O!tcprecv03, O!tcprecv03p, O!tcprecv04,
                O!tcprecv05, O!tcprecv06
  <2>3. script = <<"n", "u", "n", "u", "n">> \/ script = <<"n", "u", "n">>
    BY <2>1 DEF O!tcpsend01, O!tcpsend02, O!tcpsend03, O!tcpsend04, O!tcpsend05, O!tcpsend06
  <2>4. /\ Len(script) \in Nat /\ Len(script) >= 3
        /\ script[1] = "n" /\ script[2] = "u" /\ script[Len(script)] = "n"
    BY <2>3
  <2>5. QED BY <2>2, <2>4 DEF Shape, O!Handles
<1>2. OobTypeOK
  <2>1. Places
    BY <1>1 DEF O!Init, Places, Shape
  <2>2. Flags
    BY DEF O!Init, Flags
  <2>3. QED BY <2>1, <2>2 DEF OobTypeOK
<1>3. Marks /\ OobTold /\ Asked /\ Passed /\ Room
  BY DEF O!Init, Marks, OobTold, Asked, Passed, Room
<1>4. O!DiesAsking /\ O!MarkIsUrgent /\ O!NoUrgentMissed
  BY DEF O!Init, O!DiesAsking, O!MarkIsUrgent, O!NoUrgentMissed
<1>5. QED BY <1>1, <1>2, <1>3, <1>4 DEF OobInv

\* Send() and the end of the connection.
LEMMA SendOob ==
  ASSUME OobInv, O!Send \/ O!Finish
  PROVE  OobInv'
<1>1. /\ UNCHANGED <<recv, forgets, script, arrived, next, mark, oob, sigurg, opc, xset, orset, justreadoob,
                     announced, owhy, before, urgent, wrong>>
      /\ \/ osent < Len(script) /\ osent' = osent + 1 /\ ofin' = ofin
         \/ arrived = Len(script) /\ ofin' = TRUE /\ osent' = osent
  BY DEF O!Send, O!Finish, O!conf, O!Program
<1>2. OobTypeOK' /\ Shape' /\ Marks' /\ Room'
  <2>1. OobTypeOK /\ Shape /\ Marks /\ Room
    BY DEF OobInv
  <2>2. Flags' /\ Shape'
    <3>1. ofin' \in BOOLEAN
      BY <1>1, <2>1 DEF OobTypeOK, Flags
    <3>2. Flags'
      BY <1>1, <2>1, <3>1 DEF OobTypeOK, Flags
    <3>3. QED BY <1>1, <2>1, <3>2 DEF Shape, O!Handles
  <2>3. Places'
    BY <1>1, <2>1 DEF OobTypeOK, Places, Shape
  <2>4. Marks' /\ Room'
    BY <1>1, <2>1 DEF Marks, Room
  <2>5. QED BY <2>2, <2>3, <2>4 DEF OobTypeOK, Places
<1>3. OobTold' /\ Asked'
  BY <1>1 DEF OobInv, OobTold, Asked, O!Handles, O!Inline, O!Selects, O!AskedUrgent
<1>4. Passed'
  BY <1>1 DEF OobInv, Passed, O!Selects
<1>5. (O!DiesAsking /\ O!MarkIsUrgent /\ O!NoUrgentMissed)'
  BY <1>1 DEF OobInv, O!DiesAsking, O!MarkIsUrgent, O!NoUrgentMissed, O!Selects, O!Handles
<1>6. QED BY <1>2, <1>3, <1>4, <1>5 DEF OobInv

\* The mark moves, beyond all that has been read, or stays.
LEMMA MarkMoves ==
  ASSUME OobInv, opc \notin {"exit", "dead"},
         UNCHANGED <<recv, forgets, script, osent, ofin, next, opc, xset, orset, justreadoob,
                     announced, owhy, before, urgent, wrong>>,
         arrived' \in Nat, arrived <= arrived', arrived' <= osent, ofin => arrived' = arrived,
         sigurg' \in BOOLEAN,
         \/ UNCHANGED <<mark, oob, sigurg>>
         \/ /\ mark' \in Nat /\ mark <= mark' /\ arrived < mark' /\ mark' <= Len(script) /\ script[mark'] = "u"
            /\ oob' \in {"none", "here"} /\ (sigurg' => O!Handles)
            /\ ~recv.reads /\ RcvBuf = 1 => oob' = "none",
         \A p \in 1..arrived' : script[p] = "u" => p <= mark',
         ~recv.reads /\ RcvBuf = 1 => arrived' <= 1
  PROVE  OobInv'
<1>0. OobTypeOK /\ Shape /\ Marks /\ OobTold /\ Asked /\ Passed /\ Room
  BY DEF OobInv
<1>1. OobTypeOK' /\ Shape'
  <2>1. Flags' /\ Shape'
    BY <1>0 DEF OobTypeOK, Flags, Shape, O!Handles
  <2>2. Places'
    <3>1. mark' \in Nat /\ mark' <= Len(script) /\ oob' \in {"none", "here", "had"}
      BY <1>0 DEF OobTypeOK, Places
    <3>2. Places
      BY <1>0 DEF OobTypeOK
    <3>3. next \in Nat /\ arrived \in Nat /\ next <= arrived + 1
      BY <3>2 DEF Places
    <3>4. next <= arrived' + 1
      <4>1. \A a, b, n \in Nat : n <= a + 1 /\ a <= b => n <= b + 1
        OBVIOUS
      <4>2. QED BY <3>3, <4>1
    <3>5. QED BY <3>1, <3>2, <3>3, <3>4 DEF Places
  <2>3. QED BY <2>1, <2>2 DEF OobTypeOK
<1>2. Marks'
  BY <1>0 DEF Marks
<1>3. OobTold'
  BY <1>0 DEF OobTold, O!Handles, O!Inline
<1>4. mark' # mark => next <= mark'
  BY <1>0 DEF OobTypeOK, Places
<1>5. Asked'
  BY <1>0, <1>4 DEF OobTypeOK, Places, Asked, O!Selects, O!AskedUrgent
<1>6. Passed'
  <2>1. opc \in {"urgent", "normal"} /\ O!Selects /\ orset => next <= arrived' \/ ofin
    BY <1>0 DEF OobTypeOK, Places, Passed
  <2>2. mark' # mark /\ (next <= arrived \/ ofin) => mark' # next
    BY <1>0 DEF OobTypeOK, Places, Marks
  <2>3. justreadoob /\ opc # "dead" => \E m \in urgent : next <= m /\ m <= mark'
    <3>1. SUFFICES ASSUME justreadoob, opc # "dead"
                   PROVE  \E m \in urgent : next <= m /\ m <= mark'
      OBVIOUS
    <3>2. PICK m \in urgent : next <= m /\ m <= mark
      BY <1>0, <3>1 DEF Passed
    <3>3. m \in Nat
      BY <1>0, <3>2 DEF OobTypeOK, Places
    <3>4. QED BY <1>0, <3>2, <3>3 DEF OobTypeOK, Places
  <2>4. QED BY <1>0, <1>4, <2>1, <2>2, <2>3 DEF OobTypeOK, Places, Passed, O!Selects
<1>7. Room'
  BY <1>0 DEF Room
<1>8. (O!DiesAsking /\ O!MarkIsUrgent /\ O!NoUrgentMissed)'
  BY <1>0 DEF OobInv, OobTold, O!DiesAsking, O!MarkIsUrgent, O!NoUrgentMissed, O!Selects, O!Handles
<1>9. QED BY <1>1, <1>2, <1>3, <1>5, <1>6, <1>7, <1>8 DEF OobInv

\* An urgent byte is announced before it comes.
LEMMA AnnounceOob ==
  ASSUME OobInv, opc \notin {"exit", "dead"}, NEW p \in 1..Len(script), O!Announce(p)
  PROVE  OobInv'
<1>1. /\ p <= osent /\ p > mark /\ p > arrived /\ script[p] = "u" /\ mark' = p /\ oob' = "none" /\ sigurg' = O!Handles
      /\ UNCHANGED <<recv, forgets, script, osent, arrived, ofin, next, opc, xset, orset, justreadoob,
                     announced, owhy, before, urgent, wrong>>
  BY DEF O!Announce, O!conf, O!Program
<1>2. OobTypeOK /\ Shape /\ Marks /\ Room
  BY DEF OobInv
<1>3. sigurg' \in BOOLEAN /\ p \in Nat
  BY <1>1, <1>2 DEF O!Handles, Shape
<1>4. \A k \in 1..arrived' : script[k] = "u" => k <= mark'
  BY <1>1, <1>2, <1>3 DEF Marks, OobTypeOK, Places
<1>5. QED BY <1>1, <1>2, <1>3, <1>4, MarkMoves DEF OobTypeOK, Places, Room

\* What has been sent arrives.
LEMMA ArriveOob ==
  ASSUME OobInv, opc \notin {"exit", "dead"}, O!Arrive
  PROVE  OobInv'
<1>1. /\ arrived < osent /\ arrived' = arrived + 1
      /\ ~recv.reads => arrived' - (next - 1) <= RcvBuf
      /\ UNCHANGED <<recv, forgets, script, osent, ofin, next, opc, xset, orset, justreadoob,
                     announced, owhy, before, urgent, wrong>>
  BY DEF O!Arrive, O!conf, O!Program
<1>2. OobTypeOK /\ Shape /\ Marks /\ Room
  BY DEF OobInv
<1>3. ~recv.reads /\ RcvBuf = 1 => arrived' <= 1 /\ script[arrived'] # "u"
  <2>1. SUFFICES ASSUME ~recv.reads, RcvBuf = 1 PROVE arrived' <= 1 /\ script[arrived'] # "u"
    OBVIOUS
  <2>2. next = 1 /\ arrived' - (1 - 1) <= 1
    BY <1>1, <1>2, <2>1 DEF Room
  <2>3. arrived' = 1
    BY <1>1, <1>2, <2>2 DEF OobTypeOK, Places
  <2>4. QED BY <1>2, <2>3 DEF Shape
<1>4. ~ofin /\ arrived' \in Nat /\ arrived' <= Len(script)
  BY <1>1, <1>2 DEF OobTypeOK, Places, Marks, Shape
<1>5. CASE script[arrived'] = "u" /\ mark <= arrived'
  <2>1. /\ mark' = arrived' /\ oob' \in {"none", "here"}
        /\ sigurg' = (sigurg \/ (O!Handles /\ mark < arrived'))
    BY <1>5 DEF O!Arrive
  <2>2. sigurg' \in BOOLEAN /\ (sigurg' => O!Handles)
    BY <1>2, <2>1 DEF OobInv, OobTold, OobTypeOK, Flags
  <2>3. \A k \in 1..arrived' : script[k] = "u" => k <= mark'
    BY <1>4, <2>1
  <2>4. QED BY <1>1, <1>2, <1>3, <1>4, <1>5, <2>1, <2>2, <2>3, MarkMoves DEF OobTypeOK, Places
<1>6. CASE ~(script[arrived'] = "u" /\ mark <= arrived')
  <2>1. UNCHANGED <<mark, oob, sigurg>>
    BY <1>6 DEF O!Arrive
  <2>2. \A k \in 1..arrived' : script[k] = "u" => k <= mark'
    BY <1>1, <1>2, <1>6, <2>1 DEF OobTypeOK, Places, Marks
  <2>3. QED BY <1>1, <1>2, <1>3, <1>4, <2>1, <2>2, MarkMoves DEF OobTypeOK, Places, Flags
<1>7. QED BY <1>5, <1>6

\* What a read() takes: it stops at the mark, if that is not where it starts, and
\* begins with the next byte when the urgent one is in the stream.
LEMMA ReadTakes ==
  ASSUME OobInv, O!Available # {}
  PROVE  LET after == O!Max(O!Available) + 1 IN
         /\ after \in Nat /\ next < after /\ after <= arrived + 1
         /\ next < mark => after <= mark
         /\ O!Inline => O!Min(O!Available) = next
<1> DEFINE av == O!Available
<1>0. OobTypeOK
  BY DEF OobInv
<1>1. /\ av \subseteq Nat /\ \A p \in av : next <= p /\ p <= arrived /\ (next < mark => p < mark)
  BY <1>0 DEF O!Available, OobTypeOK, Places
<1>2. O!Inline => next \in av
  <2>1. SUFFICES ASSUME O!Inline PROVE next \in av
    OBVIOUS
  <2>2. next <= arrived
    <3>1. PICK p \in av : TRUE
      OBVIOUS
    <3>2. p \in Nat /\ next <= p /\ p <= arrived
      BY <1>1, <3>1
    <3>3. QED BY <1>0, <3>2 DEF OobTypeOK, Places
  <2>3. QED BY <1>0, <2>1, <2>2 DEF O!Available, O!Apart, OobTypeOK, Places
<1> HIDE DEF av
<1>3. Max(av) \in av
  BY <1>0, <1>1, MaxInSet DEF av, OobTypeOK, Places
<1>4. Min(av) \in av /\ \A y \in av : Min(av) <= y
  BY <1>1, MinInSet DEF av
<1>5. O!Max(av) \in av /\ O!Min(av) = Min(av)
  BY <1>3, SameMinMax
<1>6. /\ O!Max(av) \in Nat /\ next <= O!Max(av) /\ O!Max(av) <= arrived /\ (next < mark => O!Max(av) < mark)
  BY <1>1, <1>5
<1>7. O!Inline => O!Min(av) = next
  <2>1. SUFFICES ASSUME O!Inline PROVE Min(av) = next
    BY <1>5
  <2>2. Min(av) <= next /\ next <= Min(av) /\ Min(av) \in Nat
    BY <1>1, <1>2, <1>4, <2>1
  <2>3. QED BY <1>0, <2>2 DEF OobTypeOK, Places
<1>8. QED BY <1>0, <1>6, <1>7 DEF av, OobTypeOK, Places

\* Who finds nothing more to read has passed the mark, and there was one.
LEMMA EndIsPastTheMark ==
  ASSUME OobInv, O!Available = {}, O!Readable
  PROVE  0 < mark /\ mark < next
<1>0. OobTypeOK /\ Shape /\ Marks
  BY DEF OobInv
<1>1. ofin /\ arrived = Len(script) /\ \A p \in next..arrived : O!Apart(p)
  BY <1>0 DEF O!Readable, Marks
<1>2. Len(script) \in Nat /\ Len(script) >= 3 /\ script[Len(script)] = "n" /\ script[2] = "u"
  BY <1>0 DEF Shape
<1>3. mark # Len(script)
  BY <1>0, <1>2 DEF Marks
<1>4. next > arrived
  <2>1. SUFFICES ASSUME next <= arrived PROVE FALSE
    BY <1>0 DEF OobTypeOK, Places
  <2>2. arrived \in next..arrived
    BY <1>0, <2>1 DEF OobTypeOK, Places
  <2>3. QED BY <1>1, <1>3, <2>2 DEF O!Apart
<1>5. mark >= 2
  <2>1. 2 \in 1..arrived
    BY <1>1, <1>2
  <2>2. QED BY <1>0, <1>2, <2>1 DEF Marks, OobTypeOK, Places
<1>6. QED BY <1>0, <1>1, <1>4, <1>5 DEF OobTypeOK, Places

\* A read(), which stops at the mark.
LEMMA ReadKeeps ==
  ASSUME OobInv, O!Read, opc \in {"wait", "normal"}, ~justreadoob', O!Selects => opc = "normal" /\ orset,
         recv.reads, justreadoob' \in BOOLEAN
  PROVE  OobInv'
<1> DEFINE av == O!Available
<1>0. OobTypeOK /\ Shape /\ Marks /\ OobTold /\ Asked /\ Passed /\ ~wrong
  BY DEF OobInv, O!MarkIsUrgent
<1>1. /\ UNCHANGED <<recv, forgets, script, osent, arrived, ofin, mark, oob, sigurg, xset, orset, owhy, before, urgent>>
      /\ announced' = FALSE /\ O!Readable
      /\ IF av = {} THEN opc' = "exit" /\ next' = next ELSE opc' = "wait" /\ next' = O!Max(av) + 1
      /\ wrong' = (wrong \/ (announced /\ av # {} /\ script[O!Min(av)] # "u"))
  BY DEF O!Read, O!conf
<1>2. /\ next' \in Nat /\ next <= next' /\ next' <= arrived + 1
      /\ av # {} => next < next' /\ (next < mark => next' <= mark)
      /\ O!Inline /\ av # {} => O!Min(av) = next
  <2>1. next \in Nat /\ next <= arrived + 1
    BY <1>0 DEF OobTypeOK, Places
  <2>2. CASE av = {}
    BY <1>1, <2>1, <2>2
  <2>3. CASE av # {}
    BY <1>1, <2>1, <2>3, ReadTakes
  <2>4. QED BY <2>2, <2>3
<1>3. ~wrong'
  BY <1>0, <1>1, <1>2 DEF OobTold
<1>4. OobTypeOK' /\ Shape'
  <2>1. Flags' /\ Shape'
    BY <1>0, <1>1, <1>3 DEF OobTypeOK, Flags, Shape, O!Handles
  <2>2. 1 <= next' /\ opc' \in {"wait", "exit"}
    BY <1>0, <1>1, <1>2 DEF OobTypeOK, Places
  <2>3. Places'
    BY <1>0, <1>1, <1>2, <2>2 DEF OobTypeOK, Places
  <2>4. QED BY <2>1, <2>3 DEF OobTypeOK
<1>5. Marks' /\ Room'
  BY <1>0, <1>1 DEF Marks, Room
<1>6. OobTold'
  BY <1>0, <1>1 DEF OobTold, O!Handles
<1>7. Asked'
  <2>1. ASSUME O!Selects, ~recv.again, oob = "had", mark >= next', ~before, opc' # "exit"
        PROVE  FALSE
    <3>1. av # {} /\ next < next' /\ opc # "exit"
      BY <1>1, <1>2, <2>1
    <3>2. mark >= next /\ mark # next
      BY <1>0, <1>2, <2>1, <3>1 DEF OobTypeOK, Places
    <3>3. QED BY <1>0, <2>1, <3>1, <3>2 DEF Asked
  <2>2. QED BY <1>1, <2>1 DEF Asked, O!Selects
<1>8. Passed'
  <2>1. ASSUME O!Selects, 0 < mark, mark < next'
        PROVE  mark \in urgent
    <3>1. CASE mark < next
      BY <1>0, <2>1, <3>1 DEF Passed
    <3>2. CASE ~(mark < next)
      <4>1. av # {} /\ mark = next
        BY <1>0, <1>1, <1>2, <2>1, <3>2 DEF OobTypeOK, Places
      <4>2. QED BY <1>0, <2>1, <4>1 DEF Passed
    <3>3. QED BY <3>1, <3>2
  <2>2. QED BY <1>0, <1>1, <2>1 DEF Passed, O!Selects
<1>9. O!NoUrgentMissed'
  <2>1. SUFFICES ASSUME O!Selects, opc' = "exit" PROVE mark \in urgent
    BY <1>1 DEF O!NoUrgentMissed, O!Selects
  <2>2. av = {}
    BY <1>1, <2>1
  <2>3. QED BY <1>0, <1>1, <2>1, <2>2, EndIsPastTheMark DEF Passed
<1>10. O!DiesAsking' /\ O!MarkIsUrgent'
  BY <1>0, <1>1, <1>3 DEF OobTold, O!DiesAsking, O!MarkIsUrgent
<1>11. QED BY <1>4, <1>5, <1>6, <1>7, <1>8, <1>9, <1>10 DEF OobInv

\* A read() of the programs that handle the signal.
LEMMA ReadLoopOob ==
  ASSUME OobInv, O!ReadLoop \/ O!ReadInline
  PROVE  OobInv'
<1>1. /\ O!Read /\ opc \in {"wait", "normal"} /\ justreadoob' = justreadoob /\ ~O!Selects /\ recv.reads
  BY DEF O!ReadLoop, O!ReadInline, O!Handles, O!Inline, O!Selects, OobInv, Shape
<1>2. ~justreadoob' /\ justreadoob' \in BOOLEAN
  BY <1>1 DEF OobInv, OobTypeOK, Flags, Passed
<1>3. QED BY <1>1, <1>2, ReadKeeps

\* A read() of the programs with select().
LEMMA NormalTurnOob ==
  ASSUME OobInv, O!NormalTurn
  PROVE  OobInv'
<1>1. CASE orset
  <2>1. O!Read /\ opc = "normal" /\ justreadoob' = FALSE /\ recv.reads
    BY <1>1 DEF O!NormalTurn, O!Handles, O!Selects, OobInv, Shape
  <2>2. QED BY <1>1, <2>1, ReadKeeps
<1>2. CASE ~orset
  <2>1. /\ UNCHANGED <<recv, forgets, script, osent, arrived, ofin, next, mark, oob, sigurg, xset, orset, justreadoob,
                       announced, owhy, before, urgent, wrong>>
        /\ opc = "normal" /\ opc' = "wait" /\ O!Selects
    BY <1>2 DEF O!NormalTurn, O!conf, O!stream
  <2>2. OobTypeOK' /\ Shape' /\ Marks' /\ Room'
    BY <2>1 DEF OobInv, OobTypeOK, Flags, Places, Shape, Marks, Room, O!Handles
  <2>3. OobTold' /\ Asked' /\ Passed'
    BY <2>1 DEF OobInv, OobTold, Asked, Passed, O!Selects, O!Handles, O!Inline
  <2>4. (O!DiesAsking /\ O!MarkIsUrgent /\ O!NoUrgentMissed)'
    BY <2>1 DEF OobInv, OobTold, O!DiesAsking, O!MarkIsUrgent, O!NoUrgentMissed
  <2>5. QED BY <2>2, <2>3, <2>4 DEF OobInv
<1>3. QED BY <1>1, <1>2 DEF OobInv, OobTypeOK, Flags

\* select(): what is asked for, and what it says.
LEMMA SelectOob ==
  ASSUME OobInv, O!Select
  PROVE  OobInv'
<1>0. OobTypeOK /\ Shape /\ Marks /\ OobTold /\ Asked /\ Passed /\ Room
  BY DEF OobInv
<1>1. /\ O!Selects /\ opc = "wait" /\ opc' = "urgent"
      /\ xset' = (O!AskedUrgent /\ O!Exceptional) /\ orset' = O!Readable
      /\ UNCHANGED <<recv, forgets, script, osent, arrived, ofin, next, mark, oob, sigurg, justreadoob,
                     announced, owhy, before, urgent, wrong>>
  BY DEF O!Select, O!conf, O!stream
<1>2. OobTypeOK' /\ Shape' /\ Marks' /\ Room'
  <2>1. xset' \in BOOLEAN /\ orset' \in BOOLEAN
    BY <1>1 DEF O!Readable
  <2>2. Flags' /\ Places' /\ Shape'
    BY <1>0, <1>1, <2>1 DEF OobTypeOK, Flags, Places, Shape, O!Handles
  <2>3. QED BY <1>0, <1>1, <2>2 DEF OobTypeOK, Marks, Room
<1>3. OobTold'
  BY <1>0, <1>1 DEF OobTold, O!Handles, O!Inline
<1>4. Asked'
  BY <1>0, <1>1 DEF Asked, O!Selects, O!AskedUrgent, O!Exceptional
<1>5. Passed'
  <2>1. O!Readable => next <= arrived \/ ofin
    <3>1. SUFFICES ASSUME O!Available # {} PROVE next <= arrived
      BY DEF O!Readable
    <3>2. PICK p \in O!Available : TRUE
      BY <3>1
    <3>3. p \in Nat /\ next <= p /\ p <= arrived
      BY <1>0, <3>2 DEF O!Available, OobTypeOK, Places
    <3>4. QED BY <1>0, <3>3 DEF OobTypeOK, Places
  <2>2. ASSUME mark = next, ~xset'
        PROVE  mark \in urgent
    <3>1. CASE ~O!AskedUrgent
      <4>1. justreadoob
        BY <3>1 DEF O!AskedUrgent
      <4>2. PICK m \in urgent : next <= m /\ m <= mark
        BY <1>0, <1>1, <4>1 DEF Passed
      <4>3. m = mark
        BY <1>0, <2>2, <4>2 DEF OobTypeOK, Places
      <4>4. QED BY <4>2, <4>3
    <3>2. CASE ~O!Exceptional
      <4>1. oob = "had"
        BY <1>0, <2>2, <3>2 DEF O!Exceptional, OobTypeOK, Places
      <4>2. QED BY <1>0, <4>1 DEF Passed
    <3>3. QED BY <1>1, <2>2, <3>1, <3>2
  <2>3. QED BY <1>0, <1>1, <2>1, <2>2 DEF Passed, O!Selects
<1>6. (O!DiesAsking /\ O!MarkIsUrgent /\ O!NoUrgentMissed)'
  BY <1>0, <1>1 DEF OobInv, OobTold, O!DiesAsking, O!MarkIsUrgent, O!NoUrgentMissed
<1>7. QED BY <1>2, <1>3, <1>4, <1>5, <1>6 DEF OobInv

\* recv(MSG_OOB) takes the byte at the mark, or the program dies.
LEMMA TakesOrDies ==
  ASSUME OobInv, opc # "dead", NEW after, after # "dead", O!RecvOob(after)
  PROVE  \/ /\ mark >= next /\ oob = "here" /\ owhy' = owhy
            /\ opc' = after /\ oob' = "had" /\ urgent' = urgent \cup {mark} /\ before' = (next < mark)
         \/ /\ opc' = "dead" /\ UNCHANGED <<oob, urgent, before>>
            /\ \/ owhy' = "EINVAL" /\ (mark < next \/ oob = "had")
               \/ owhy' = "EWOULDBLOCK"
<1>1. owhy = "none" /\ oob \in {"none", "here", "had"} /\ mark \in Nat /\ next \in Nat
  BY DEF OobInv, OobTold, OobTypeOK, Places
<1>2. QED BY <1>1 DEF O!RecvOob

\* A program with select() asks for the urgent byte.
LEMMA UrgentTurnOob ==
  ASSUME OobInv, O!UrgentTurn
  PROVE  OobInv'
<1>0. OobTypeOK /\ Shape /\ Marks /\ OobTold /\ Asked /\ Passed /\ Room
  BY DEF OobInv
<1>1. /\ O!Selects /\ opc = "urgent"
      /\ UNCHANGED <<recv, forgets, script, osent, arrived, ofin, next, mark, sigurg, xset, orset, announced, wrong>>
  BY DEF O!UrgentTurn, O!conf
<1>2. recv.reads /\ ~O!Handles /\ ~O!Inline
  BY <1>0, <1>1 DEF Shape, O!Handles, O!Selects, O!Inline
<1>3. Shape' /\ Marks' /\ Room'
  BY <1>0, <1>1, <1>2 DEF Shape, Marks, Room, O!Handles
<1>4. CASE ~xset
  <2>1. opc' = "normal" /\ UNCHANGED <<oob, urgent, before, owhy, justreadoob>>
    BY <1>4 DEF O!UrgentTurn
  <2>2. OobTypeOK'
    BY <1>0, <1>1, <2>1 DEF OobTypeOK, Flags, Places
  <2>3. OobTold' /\ Asked' /\ Passed'
    BY <1>0, <1>1, <1>4, <2>1 DEF OobTold, Asked, Passed, O!Selects, O!Handles, O!Inline
  <2>4. (O!DiesAsking /\ O!MarkIsUrgent /\ O!NoUrgentMissed)'
    BY <1>0, <1>1, <2>1 DEF OobInv, OobTold, O!DiesAsking, O!MarkIsUrgent, O!NoUrgentMissed
  <2>5. QED BY <1>3, <2>2, <2>3, <2>4 DEF OobInv
<1>5. CASE xset
  <2>1. O!RecvOob("normal") /\ justreadoob' = ~recv.again
    BY <1>5 DEF O!UrgentTurn
  <2>2. mark >= next /\ (forgets => oob # "had") /\ O!AskedUrgent
    BY <1>0, <1>1, <1>5 DEF Asked
  <2>3. CASE /\ mark >= next /\ oob = "here" /\ owhy' = owhy
             /\ opc' = "normal" /\ oob' = "had" /\ urgent' = urgent \cup {mark} /\ before' = (next < mark)
    <3>1. Flags'
      BY <1>0, <1>1, <2>1, <2>3 DEF OobTypeOK, Flags
    <3>2. Places'
      BY <1>0, <1>1, <2>3 DEF OobTypeOK, Places
    <3>3. OobTold'
      BY <1>0, <1>1, <1>2, <2>3 DEF OobTold, O!Handles, O!Inline
    <3>4. Asked'
      <4>1. ASSUME ~recv.again, ~before'
            PROVE  justreadoob' /\ next = mark
        <5>1. ~(next < mark)
          BY <2>3, <4>1, Zenon
        <5>2. next \in Nat /\ mark \in Nat
          BY <1>0 DEF OobTypeOK, Places
        <5>3. justreadoob'
          BY <2>1, <4>1, Zenon
        <5>4. mark >= next
          BY <2>3
        <5>5. QED BY <5>1, <5>2, <5>3, <5>4
      <4>2. opc' = "normal" /\ recv' = recv /\ mark' = mark /\ next' = next
        BY <1>1, <2>3
      <4>3. QED BY <4>1, <4>2 DEF Asked
    <3>5. Passed'
      <4>1. mark \in urgent' /\ mark <= mark
        BY <1>0, <2>3 DEF OobTypeOK, Places
      <4>2. QED BY <1>0, <1>1, <2>1, <2>3, <4>1 DEF Passed, O!Selects
    <3>6. (O!DiesAsking /\ O!MarkIsUrgent /\ O!NoUrgentMissed)'
      BY <1>0, <1>1, <2>3 DEF OobInv, OobTold, O!DiesAsking, O!MarkIsUrgent, O!NoUrgentMissed
    <3>7. QED BY <1>3, <3>1, <3>2, <3>3, <3>4, <3>5, <3>6 DEF OobInv, OobTypeOK
  <2>4. CASE /\ opc' = "dead" /\ UNCHANGED <<oob, urgent, before>>
             /\ \/ owhy' = "EINVAL" /\ (mark < next \/ oob = "had")
                \/ owhy' = "EWOULDBLOCK"
    <3>1. Flags' /\ Places'
      BY <1>0, <1>1, <2>1, <2>4 DEF OobTypeOK, Flags, Places
    <3>2. ASSUME owhy' = "EINVAL"
          PROVE  ~forgets /\ (recv.again \/ before)
      <4>1. oob = "had" /\ ~forgets
        BY <1>0, <2>2, <2>4, <3>2 DEF OobTypeOK, Places
      <4>2. ASSUME ~recv.again, ~before PROVE FALSE
        <5>1. justreadoob
          BY <1>0, <1>1, <2>2, <4>1, <4>2 DEF Asked
        <5>2. QED BY <2>2, <4>2, <5>1 DEF O!AskedUrgent
      <4>3. QED BY <4>1, <4>2
    <3>3. O!DiesAsking'
      BY <1>1, <2>4, <3>2 DEF O!DiesAsking, O!Selects
    <3>4. OobTold'
      BY <1>0, <1>1, <1>2, <2>4 DEF OobTold, O!Handles, O!Inline
    <3>5. Asked'
      <4>1. ASSUME ~recv.again, oob = "had", mark >= next, ~before
            PROVE  justreadoob' /\ next = mark
        BY <1>0, <1>1, <2>1, <4>1 DEF Asked
      <4>2. /\ opc' = "dead" /\ oob' = oob /\ before' = before
            /\ recv' = recv /\ mark' = mark /\ next' = next
        BY <1>1, <2>4
      <4>3. QED BY <4>1, <4>2 DEF Asked, O!Selects
    <3>6. Passed'
      BY <1>0, <1>1, <2>4 DEF Passed, O!Selects
    <3>7. (O!MarkIsUrgent /\ O!NoUrgentMissed)'
      BY <1>1, <2>4 DEF OobInv, O!MarkIsUrgent, O!NoUrgentMissed
    <3>8. QED BY <1>3, <3>1, <3>3, <3>4, <3>5, <3>6, <3>7 DEF OobInv, OobTypeOK
  <2>5. QED BY <1>1, <2>1, <2>3, <2>4, TakesOrDies
<1>6. QED BY <1>0, <1>4, <1>5 DEF OobTypeOK, Flags

\* The handler: it dies of asking again only if the read() has passed the mark.
LEMMA SigUrgOob ==
  ASSUME OobInv, O!SigUrg
  PROVE  OobInv'
<1>0. OobTypeOK /\ Shape /\ Marks /\ OobTold /\ Asked /\ Passed /\ Room
  BY DEF OobInv
<1>1. /\ sigurg /\ opc = "wait" /\ sigurg' = FALSE /\ O!RecvOob("wait")
      /\ UNCHANGED <<recv, forgets, script, osent, arrived, ofin, next, mark, xset, orset, justreadoob, announced, wrong>>
  BY DEF O!SigUrg, O!conf
<1>2. O!Handles /\ oob # "had" /\ ~O!Selects /\ ~O!Inline /\ ~justreadoob
  BY <1>0, <1>1 DEF OobTold, O!Handles, O!Selects, O!Inline, Passed
<1>3. /\ \/ /\ oob = "here" /\ owhy' = owhy
            /\ opc' = "wait" /\ oob' = "had" /\ urgent' = urgent \cup {mark} /\ before' = (next < mark)
         \/ /\ opc' = "dead" /\ UNCHANGED <<oob, urgent, before>>
            /\ \/ owhy' = "EINVAL" /\ mark < next
               \/ owhy' = "EWOULDBLOCK"
  BY <1>1, <1>2, TakesOrDies
<1>4. Flags' /\ Shape' /\ Marks'
  <2>1. before' \in BOOLEAN
    <3>1. before' = (next < mark) \/ before' = before
      BY <1>3, Zenon
    <3>2. before \in BOOLEAN /\ (next < mark) \in BOOLEAN
      BY <1>0 DEF OobTypeOK, Flags
    <3>3. QED BY <3>1, <3>2, Zenon
  <2>2. Flags'
    BY <1>0, <1>1, <2>1 DEF OobTypeOK, Flags
  <2>3. QED BY <1>0, <1>1, <2>2 DEF Shape, Marks, O!Handles
<1>5. Places'
  BY <1>0, <1>1, <1>3 DEF OobTypeOK, Places
<1>6. Room' /\ OobTold'
  BY <1>0, <1>1, <1>2, <1>3 DEF Room, OobTold, O!Handles, O!Inline
<1>7. Asked' /\ Passed'
  <2>1. oob' = "had" => mark \in urgent'
    BY <1>2, <1>3
  <2>2. QED BY <1>0, <1>1, <1>2, <1>3, <2>1 DEF Asked, Passed, O!Selects
<1>8. (O!DiesAsking /\ O!MarkIsUrgent /\ O!NoUrgentMissed)'
  BY <1>0, <1>1, <1>2, <1>3 DEF OobInv, OobTold, O!DiesAsking, O!MarkIsUrgent, O!NoUrgentMissed, O!Selects, O!Handles
<1>9. QED BY <1>4, <1>5, <1>6, <1>7, <1>8 DEF OobInv, OobTypeOK

\* A program asks whether it is at the mark.
LEMMA SockatmarkOob ==
  ASSUME OobInv, O!Sockatmark
  PROVE  OobInv'
<1>0. OobTypeOK /\ Shape /\ Marks /\ OobTold /\ Asked /\ Passed /\ Room
  BY DEF OobInv
<1>1. /\ O!Inline /\ opc = "wait" /\ opc' = "normal" /\ announced' = (mark = next)
      /\ UNCHANGED <<recv, forgets, script, osent, arrived, ofin, next, mark, oob, sigurg, xset, orset, justreadoob,
                     owhy, before, urgent, wrong>>
  BY DEF O!Sockatmark, O!conf, O!stream
<1>2. Flags' /\ Places' /\ Shape' /\ Marks' /\ Room'
  BY <1>0, <1>1 DEF OobTypeOK, Flags, Places, Shape, Marks, Room, O!Handles
<1>3. OobTold'
  <2>1. mark = next => script[next] = "u"
    BY <1>0 DEF Marks, OobTypeOK, Places
  <2>2. QED BY <1>0, <1>1, <2>1 DEF OobTold, O!Inline, O!Handles
<1>4. Asked' /\ Passed'
  BY <1>0, <1>1 DEF Asked, Passed, O!Selects, O!Inline
<1>5. (O!DiesAsking /\ O!MarkIsUrgent /\ O!NoUrgentMissed)'
  BY <1>0, <1>1 DEF OobInv, OobTold, O!DiesAsking, O!MarkIsUrgent, O!NoUrgentMissed
<1>6. QED BY <1>2, <1>3, <1>4, <1>5 DEF OobInv, OobTypeOK

\* Every step of the receivers of urgent data keeps the invariant.
LEMMA OobStep ==
  ASSUME OobInv, [O!Next]_(O!vars)
  PROVE  OobInv'
<1>1. CASE O!Next
  BY <1>1, SendOob, AnnounceOob, ArriveOob, ReadLoopOob, SigUrgOob, SelectOob, UrgentTurnOob, NormalTurnOob,
     SockatmarkOob DEF O!Next, O!Sender, O!Receiver
<1>2. CASE UNCHANGED O!vars
  <2>1. UNCHANGED <<recv, forgets, script, osent, arrived, ofin, next, mark, oob, sigurg, opc, xset, orset, justreadoob,
                    announced, owhy, before, urgent, wrong>>
    BY <1>2 DEF O!vars, O!conf, O!stream
  <2>2. OobTypeOK' /\ Shape' /\ Marks' /\ Room'
    BY <2>1 DEF OobInv, OobTypeOK, Flags, Places, Shape, Marks, Room, O!Handles
  <2>3. OobTold' /\ Asked' /\ Passed'
    BY <2>1 DEF OobInv, OobTold, Asked, Passed, O!Selects, O!Handles, O!Inline, O!AskedUrgent
  <2>4. (O!DiesAsking /\ O!MarkIsUrgent /\ O!NoUrgentMissed)'
    BY <2>1 DEF OobInv, O!DiesAsking, O!MarkIsUrgent, O!NoUrgentMissed, O!Selects, O!Handles
  <2>5. QED BY <2>2, <2>3, <2>4 DEF OobInv
<1>3. QED BY <1>1, <1>2

\* What the invariant says of the urgent bytes.
LEMMA OobIsSafe == OobInv => OobSafe
BY DEF OobInv, Room, OobSafe, O!OobSafe, O!NoRoom

\* OobSafe: what the receivers die of; that the byte announced at the mark is urgent;
\* that who uses select() and comes to the end has received the last urgent byte; and
\* that who never reads gets none before there is room for it.
THEOREM UrgentBytesRight == O!Spec => []OobSafe
BY OobIsSafe, OobStart, OobStep, PTL DEF O!Spec

-----------------------------------------------------------------------------
(* The chat server with select().                                             *)

USE UsersAssumption, MasterAssumption, MaxClientsAssumption, BacklogAssumption

(***************************************************************************)
(* SlotTable is not inductive.  Queue says that accept() never gets a      *)
(* client that has a descriptor already, so that there is a free one;      *)
(* Answer, that what select() reported stays true of what the scan has     *)
(* still to look at: accept() comes before every close(), so a descriptor  *)
(* is not given out again under an answer that names it.                   *)
(***************************************************************************)
\* Who waits to be accepted waits once, has no descriptor and has connected.
Queue ==
  /\ \A k \in 1..Len(backlog) : fd[backlog[k]] = 0 /\ cpc[backlog[k]] # "idle"
  /\ \A j, k \in 1..Len(backlog) : backlog[j] = backlog[k] => j = k
  /\ \A c \in Users : cpc[c] = "idle" => fd[c] = 0
  /\ spc = "accept" => backlog # <<>>

\* The first two conjuncts of SlotTable.
Table ==
  /\ \A c, d \in Open : c # d => fd[c] # fd[d]
  /\ \A k \in Slots : slot[k] # 0 =>
       /\ \E c \in Open : fd[c] = slot[k]
       /\ \A m \in Slots : slot[m] = slot[k] => m = k

\* Its third, already before accept().
Answer ==
  /\ spc \in {"accept", "scan"} =>
       \A f \in readfds \ {Master} : (\E k \in Slots : k >= i /\ slot[k] = f) =>
         f <= max_sd /\ \E c \in Open : fd[c] = f /\ Readable(c)
  /\ spc = "accept" =>
       i = 0 /\ \A f \in readfds \ {Master} : \E c \in Open : fd[c] = f

IInv == TypeOK /\ Queue /\ Table /\ Answer

-----------------------------------------------------------------------------
(* What single steps of the server find. *)

\* accept() finds a free descriptor: the lowest is one.
LEMMA FreeDescriptor ==
  ASSUME TypeOK, Queue, spc = "accept"
  PROVE  /\ Head(backlog) \in Users /\ fd[Head(backlog)] = 0
         /\ Min(FDs \ {fd[d] : d \in Open}) \in FDs \ {fd[d] : d \in Open}
<1> DEFINE c == Head(backlog)
           Taken == {fd[d] : d \in Open}
           f == [d \in Open |-> fd[d]]
<1>1. c \in Users /\ fd[c] = 0 /\ c \notin Open
  <2>1. backlog \in Seq(Users) /\ backlog # <<>>
    BY DEF TypeOK, Queue
  <2>2. 1 \in 1..Len(backlog) /\ c = backlog[1] /\ c \in Users
    BY <2>1
  <2>3. QED BY <2>2 DEF Queue, Open
<1>2. Open \in SUBSET (Users \ {c})
  BY <1>1 DEF Open
<1>3. /\ IsFiniteSet(Users \ {c})
      /\ Cardinality(Users \ {c}) = Cardinality(Users) - 1
  BY <1>1, FS_RemoveElement
<1>4. IsFiniteSet(Open) /\ Cardinality(Open) <= Cardinality(Users) - 1
  BY <1>2, <1>3, FS_Subset
<1>5. f \in Surjection(Open, Taken)
  BY DEF Surjection
<1>6. IsFiniteSet(Taken) /\ Cardinality(Taken) <= Cardinality(Open)
  BY <1>4, <1>5, FS_Surjection
<1>7. Cardinality(Users) \in Nat /\ Cardinality(Open) \in Nat /\ Cardinality(Taken) \in Nat
  BY <1>4, <1>6, FS_CardinalityType
<1>8. Cardinality(FDs) = Cardinality(Users)
  <2> DEFINE a == Master + 1
             b == Master + Cardinality(Users)
  <2>1. a \in Int /\ b \in Int /\ FDs = a..b
    BY <1>7 DEF FDs
  <2>2. b - a + 1 = Cardinality(Users) /\ (a > b => Cardinality(Users) = 0)
    BY <1>7
  <2> HIDE DEF a, b
  <2>3. Cardinality(a..b) = IF a > b THEN 0 ELSE b - a + 1
    BY <2>1, FS_Interval
  <2>4. QED BY <2>1, <2>2, <2>3
<1>9. ~ (FDs \subseteq Taken)
  <2> SUFFICES ASSUME FDs \subseteq Taken PROVE FALSE
    OBVIOUS
  <2>1. Cardinality(FDs) <= Cardinality(Taken)
    BY <1>6, FS_Subset
  <2>2. QED BY <1>4, <1>6, <1>7, <1>8, <2>1
<1>10. FDs \ Taken \subseteq Nat /\ FDs \ Taken # {}
  BY <1>7, <1>9 DEF FDs
<1>11. Min(FDs \ Taken) \in FDs \ Taken
  BY <1>10, MinInSet
<1>12. QED BY <1>1, <1>11

\* When FD_ISSET is true the slot has an owner, which can be read from.
LEMMA ScanFindsOwner ==
  ASSUME IInv, spc = "scan", slot[i] \in readfds
  PROVE  /\ i \in Slots /\ slot[i] # 0 /\ slot[i] # Master
         /\ OwnerOf(slot[i]) \in Users /\ fd[OwnerOf(slot[i])] = slot[i]
         /\ Readable(OwnerOf(slot[i]))
<1>1. i \in Slots /\ slot[i] \in FDs \cup {0} /\ readfds \subseteq FDs \cup {Master}
  BY DEF IInv, TypeOK
<1>2. Cardinality(Users) \in Nat
  BY FS_CardinalityType
<1>3. slot[i] # 0 /\ slot[i] # Master /\ i >= i
  BY <1>1, <1>2 DEF FDs, Slots
<1>4. PICK c \in Open : fd[c] = slot[i] /\ Readable(c)
  BY <1>1, <1>3 DEF IInv, Answer
<1>5. \A d \in Open : fd[d] = slot[i] => d = c
  BY <1>4 DEF IInv, Table
<1>6. OwnerOf(slot[i]) \in Open /\ fd[OwnerOf(slot[i])] = slot[i]
  BY <1>4, Zenon DEF OwnerOf
<1>7. OwnerOf(slot[i]) = c
  BY <1>5, <1>6
<1>8. QED BY <1>1, <1>3, <1>4, <1>6, <1>7 DEF Open

\* The scan goes to the next slot or ends.
LEMMA NextSlotMoves ==
  ASSUME i \in Slots, NextSlot
  PROVE  /\ i' \in Slots /\ spc' \in {"scan", "select"}
         /\ spc' = "scan" => i' = i + 1
BY DEF NextSlot, Slots

\* The highest descriptor select() is given.
LEMMA HighestDescriptor ==
  ASSUME TypeOK
  PROVE  LET top == Max({Master} \cup {slot[k] : k \in Slots})
         IN  top \in FDs \cup {Master} /\ \A k \in Slots : slot[k] <= top
<1> DEFINE Elems == {Master} \cup {slot[k] : k \in Slots}
<1>1. Cardinality(Users) \in Nat
  BY FS_CardinalityType
<1>2. \A k \in Slots : slot[k] \in FDs \cup {0}
  BY DEF TypeOK
<1>3. Elems \subseteq Nat /\ Elems # {} /\ \A x \in Elems : x <= Master + Cardinality(Users)
  <2>1. Master \in Elems
    OBVIOUS
  <2>2. ASSUME NEW x \in Elems
        PROVE  x \in Nat /\ x <= Master + Cardinality(Users)
    <3>1. CASE x = Master
      BY <1>1, <3>1
    <3>2. CASE \E k \in Slots : x = slot[k]
      BY <1>1, <1>2, <3>2 DEF FDs
    <3>3. QED BY <3>1, <3>2
  <2>3. QED BY <2>1, <2>2
<1>4. Max(Elems) \in Elems /\ \A y \in Elems : Max(Elems) >= y
  <2> HIDE DEF Elems
  <2>1. Master + Cardinality(Users) \in Nat
    BY <1>1
  <2>2. QED BY <1>3, <2>1, MaxInSet
<1> DEFINE m == Max(Elems)
<1>5. m \in Elems /\ m # 0 /\ \A y \in Elems : m >= y
  <2>1. Master \in Elems
    OBVIOUS
  <2> HIDE DEF Elems, m
  <2>2. m \in Elems /\ \A y \in Elems : m >= y
    BY <1>4 DEF m
  <2>3. QED BY <1>3, <2>1, <2>2
<1> HIDE DEF m
<1>6. m \in FDs \cup {Master}
  BY <1>2, <1>5
<1>7. \A k \in Slots : slot[k] <= m
  <2> TAKE k \in Slots
  <2>1. slot[k] \in Elems
    OBVIOUS
  <2> HIDE DEF Elems
  <2>2. m \in Nat /\ slot[k] \in Nat
    BY <1>3, <1>5, <2>1
  <2>3. QED BY <1>5, <2>1, <2>2
<1>8. QED BY <1>6, <1>7 DEF m

-----------------------------------------------------------------------------
(* The invariant holds at first, and every step keeps it. *)

\* The invariant holds at the start of the chat server.
LEMMA InitIInv == Init => IInv
<1> SUFFICES ASSUME Init PROVE IInv
  OBVIOUS
<1>1. Cardinality(Users) \in Nat
  BY FS_CardinalityType
<1>2. Open = {}
  BY DEF Init, Open
<1>3. TypeOK
  BY <1>1 DEF Init, TypeOK, FDs, Slots
<1>4. Queue
  BY DEF Init, Queue
<1>5. Table
  BY <1>2 DEF Init, Table
<1>6. Answer
  BY DEF Init, Answer
<1>7. QED BY <1>3, <1>4, <1>5, <1>6 DEF IInv

\* What clients do on a connection: the server's state stays, and what can be
\* read can be read afterwards, as long as there is a server.
LEMMA ClientKeeps ==
  ASSUME IInv, TypeOK', UNCHANGED <<backlog, fd, slot, spc, i, readfds, max_sd>>,
         \A c \in Users : cpc'[c] = "idle" <=> cpc[c] = "idle",
         spc # "dead" => \A c \in Users : Readable(c) => Readable(c)'
  PROVE  IInv'
<1>1. Open' = Open /\ Open \subseteq Users
  BY DEF Open
<1>2. backlog \in Seq(Users)
  BY DEF IInv, TypeOK
<1>3. Queue'
  BY <1>2 DEF IInv, Queue
<1>4. Table'
  BY <1>1 DEF IInv, Table
<1>5. Answer'
  BY <1>1 DEF IInv, Answer
<1>6. QED BY <1>3, <1>4, <1>5 DEF IInv

\* A client reads.
LEMMA ClientReadKeeps ==
  ASSUME IInv, NEW c \in Users, ClientRead(c)
  PROVE  IInv'
<1>1. TypeOK'
  BY DEF IInv, TypeOK, ClientRead, serverVars
<1>2. \A d \in Users : cpc'[d] = "idle" <=> cpc[d] = "idle"
  BY DEF IInv, TypeOK, ClientRead
<1>3. \A d \in Users : Readable(d) => Readable(d)'
  BY DEF ClientRead, Readable
<1>4. QED BY <1>1, <1>2, <1>3, ClientKeeps DEF ClientRead, serverVars

\* A client writes.
LEMMA ClientWriteKeeps ==
  ASSUME IInv, NEW c \in Users, ClientWrite(c)
  PROVE  IInv'
<1>1. TypeOK'
  BY DEF IInv, TypeOK, ClientWrite, serverVars
<1>2. \A d \in Users : cpc'[d] = "idle" <=> cpc[d] = "idle"
  BY DEF IInv, TypeOK, ClientWrite
<1>3. spc # "dead" => \A d \in Users : Readable(d) => Readable(d)'
  BY DEF IInv, TypeOK, ClientWrite, Readable
<1>4. QED BY <1>1, <1>2, <1>3, ClientKeeps DEF ClientWrite, serverVars

\* A client closes its connection.
LEMMA ClientCloseKeeps ==
  ASSUME IInv, NEW c \in Users, ClientClose(c)
  PROVE  IInv'
<1>1. TypeOK'
  BY DEF IInv, TypeOK, ClientClose, Hangup, serverVars
<1>2. \A d \in Users : cpc'[d] = "idle" <=> cpc[d] = "idle"
  BY DEF IInv, TypeOK, ClientClose
<1>3. \A d \in Users : Readable(d) => Readable(d)'
  BY DEF IInv, TypeOK, ClientClose, Hangup, Readable
<1>4. QED BY <1>1, <1>2, <1>3, ClientKeeps DEF ClientClose, serverVars

\* A client is killed.
LEMMA ClientKilledKeeps ==
  ASSUME IInv, NEW c \in Users, ClientKilled(c)
  PROVE  IInv'
<1>1. TypeOK'
  BY DEF IInv, TypeOK, ClientKilled, Hangup, serverVars
<1>2. \A d \in Users : cpc'[d] = "idle" <=> cpc[d] = "idle"
  BY DEF IInv, TypeOK, ClientKilled
<1>3. \A d \in Users : Readable(d) => Readable(d)'
  BY DEF IInv, TypeOK, ClientKilled, Hangup, Readable
<1>4. QED BY <1>1, <1>2, <1>3, ClientKeeps DEF ClientKilled, serverVars

\* A client that connects joins the queue: it was not in it, having been idle.
LEMMA ConnectKeeps ==
  ASSUME IInv, NEW c \in Users, Connect(c)
  PROVE  IInv'
<1>1. backlog \in Seq(Users) /\ Len(backlog) \in Nat
  BY DEF IInv, TypeOK
<1>2. /\ backlog' \in Seq(Users) /\ Len(backlog') = Len(backlog) + 1
      /\ \A k \in 1..Len(backlog) : backlog'[k] = backlog[k]
      /\ backlog'[Len(backlog) + 1] = c
  BY <1>1 DEF Connect
<1>3. TypeOK'
  BY <1>1, <1>2 DEF IInv, TypeOK, Connect, serverVars
<1>4. Open' = Open /\ \A d \in Users : Readable(d)' = Readable(d)
  BY DEF Connect, Open, Readable
<1>5. Queue'
  <2>1. fd[c] = 0 /\ \A k \in 1..Len(backlog) : backlog[k] # c
    BY DEF IInv, Queue, Connect
  <2>2. \A d \in Users : cpc'[d] = "idle" => cpc[d] = "idle" /\ d # c
    BY DEF IInv, TypeOK, Connect
  <2>3. cpc' = [cpc EXCEPT ![c] = "read"] /\ fd' = fd /\ spc' = spc
    BY DEF Connect, serverVars
  <2>4. \A k \in 1..Len(backlog') : k \in 1..Len(backlog) \/ k = Len(backlog) + 1
    BY <1>1, <1>2
  <2>5. \A k \in 1..Len(backlog) : backlog[k] \in Users
    BY <1>1
  <2>6. \A k \in 1..Len(backlog') : fd'[backlog'[k]] = 0 /\ cpc'[backlog'[k]] # "idle"
    <3> TAKE k \in 1..Len(backlog')
    <3>1. CASE k = Len(backlog) + 1
      BY <1>2, <2>1, <2>3, <3>1 DEF IInv, TypeOK
    <3>2. CASE k \in 1..Len(backlog)
      <4>1. backlog'[k] = backlog[k] /\ backlog[k] \in Users /\ backlog[k] # c
        BY <1>2, <2>1, <2>5, <3>2
      <4>2. fd[backlog[k]] = 0 /\ cpc[backlog[k]] # "idle"
        BY <3>2 DEF IInv, Queue
      <4>3. QED BY <2>3, <4>1, <4>2 DEF IInv, TypeOK
    <3>3. QED BY <2>4, <3>1, <3>2
  <2>7. \A j, k \in 1..Len(backlog') : backlog'[j] = backlog'[k] => j = k
    BY <1>2, <2>1, <2>4 DEF IInv, Queue
  <2>8. backlog' # <<>>
    BY <1>1, <1>2
  <2>9. QED BY <2>2, <2>3, <2>6, <2>7, <2>8 DEF IInv, Queue
<1>6. Table'
  BY <1>4 DEF IInv, Table, Connect, serverVars
<1>7. Answer'
  BY <1>4 DEF IInv, Answer, Connect, serverVars, Open
<1>8. QED BY <1>3, <1>5, <1>6, <1>7 DEF IInv

\* select() is asked about the descriptors in the slots, so what it reports
\* is open, readable and not above the highest.
LEMMA SelectKeeps ==
  ASSUME IInv, Select
  PROVE  IInv'
<1>1. /\ TypeOK /\ Queue /\ Table
      /\ UNCHANGED <<cpc, mail, link, data, backlog, fd, slot>>
      /\ i' = 0 /\ spc' \in {"accept", "scan"} /\ heard' = {}
  BY DEF IInv, Select, clientVars
<1>2. /\ readfds' \subseteq {fd[c] : c \in {d \in Open \ Leaked : Readable(d)}} \cup {Master}
      /\ spc' = "accept" => backlog # <<>>
  <2>1. CASE backlog = <<>>
    <3>1. readfds' = {fd[c] : c \in {d \in Open \ Leaked : Readable(d)}}
      BY <2>1 DEF Select
    <3>2. \A c \in Open : fd[c] # Master
      <4>1. Cardinality(Users) \in Nat
        BY FS_CardinalityType
      <4>2. QED BY <1>1, <4>1 DEF TypeOK, Open, FDs
    <3>3. Master \notin readfds'
      BY <3>1, <3>2
    <3>4. spc' = "scan"
      BY <3>3 DEF Select
    <3>5. QED BY <3>1, <3>4
  <2>2. CASE backlog # <<>>
    BY <2>2 DEF Select
  <2>3. QED BY <2>1, <2>2
<1>3. max_sd' \in FDs \cup {Master} /\ \A k \in Slots : slot[k] <= max_sd'
  BY <1>1, HighestDescriptor DEF Select
<1>4. TypeOK'
  BY <1>1, <1>2, <1>3 DEF TypeOK, Open, Slots
<1>5. Open' = Open /\ \A c \in Users : Readable(c)' = Readable(c)
  BY <1>1 DEF Open, Readable
<1>6. Queue'
  BY <1>1, <1>2 DEF Queue
<1>7. Table'
  BY <1>1, <1>5 DEF Table
<1>8. Answer'
  <2>1. \A f \in readfds' \ {Master} :
           \E c \in Open : fd[c] = f /\ Readable(c)
    BY <1>2
  <2>2. QED BY <1>1, <1>3, <1>5, <2>1 DEF Answer, Open
<1>9. QED BY <1>4, <1>6, <1>7, <1>8 DEF IInv

\* accept() gives a client of the queue a descriptor nobody has, and a slot
\* nobody has if there is one.  What the scan is about to look at does not
\* change: the new descriptor is not in the answer of select().
LEMMA AcceptKeeps ==
  ASSUME IInv, Accept
  PROVE  IInv'
<1> DEFINE c == Head(backlog)
           f == Min(FDs \ {fd[d] : d \in Open})
           empty == {k \in Slots : slot[k] = 0}
<1>1. TypeOK /\ Queue /\ Table /\ Answer /\ spc = "accept"
  BY DEF IInv, Accept
<1>2. /\ c \in Users /\ fd[c] = 0 /\ c \notin Open
      /\ f \in FDs /\ \A d \in Open : fd[d] # f
  BY <1>1, FreeDescriptor DEF Open
<1>3. FDs \subseteq Nat \ {0} /\ Master \notin FDs
  <2>1. Cardinality(Users) \in Nat
    BY FS_CardinalityType
  <2>2. QED BY <2>1 DEF FDs
<1>4. empty # {} => Min(empty) \in empty
  <2>1. empty \subseteq Nat
    BY DEF Slots
  <2>2. QED BY <2>1, MinInSet
<1>5. /\ fd' = [fd EXCEPT ![c] = f]
      /\ slot' = IF empty = {} THEN slot ELSE [slot EXCEPT ![Min(empty)] = f]
      /\ mail' = [mail EXCEPT ![c] = link[c] = "open"]
      /\ link' = [link EXCEPT ![c] = AfterSend(@)]
      /\ backlog' = Tail(backlog) /\ spc' = "scan"
      /\ UNCHANGED <<cpc, data, i, readfds, max_sd, heard>>
  BY DEF Accept
<1> HIDE DEF c, f, empty
<1>6. /\ backlog \in Seq(Users) /\ backlog # <<>> /\ Len(backlog) \in Nat \ {0}
      /\ backlog' \in Seq(Users) /\ Len(backlog') = Len(backlog) - 1
      /\ \A k \in 1..Len(backlog') : k + 1 \in 1..Len(backlog) /\ backlog'[k] = backlog[k + 1]
      /\ c = backlog[1]
  <2>1. backlog \in Seq(Users) /\ backlog # <<>>
    BY <1>1 DEF TypeOK, Queue
  <2>2. QED BY <1>5, <2>1 DEF c
<1>7. Open' = Open \cup {c} /\ fd'[c] = f /\ \A d \in Users : d # c => fd'[d] = fd[d]
  BY <1>1, <1>2, <1>3, <1>5 DEF TypeOK, Open
<1>8. /\ \A k \in Slots : slot'[k] = slot[k] \/ (slot[k] = 0 /\ slot'[k] = f)
      /\ \A k, m \in Slots : slot[k] = 0 /\ slot'[k] = f /\ slot[m] = 0 /\ slot'[m] = f => m = k
  <2>1. CASE empty = {}
    BY <1>1, <1>2, <1>3, <1>5, <2>1 DEF TypeOK
  <2>2. CASE empty # {}
    BY <1>1, <1>2, <1>3, <1>4, <1>5, <2>2 DEF TypeOK, empty
  <2>3. QED BY <2>1, <2>2
<1>9. TypeOK'
  <2>1. link' \in [Users -> {"open", "fin", "reset", "finrst", "broken"}]
    BY <1>1, <1>2, <1>5 DEF TypeOK, AfterSend
  <2>2. mail' \in [Users -> BOOLEAN]
    BY <1>1, <1>2, <1>5 DEF TypeOK
  <2>3. fd' \in [Users -> FDs \cup {0}]
    BY <1>1, <1>2, <1>5 DEF TypeOK
  <2>4. slot' \in [Slots -> FDs \cup {0}]
    BY <1>1, <1>2, <1>5 DEF TypeOK
  <2>5. Len(backlog') <= Backlog + 1
    BY <1>1, <1>6 DEF TypeOK
  <2>6. QED BY <1>1, <1>5, <1>6, <2>1, <2>2, <2>3, <2>4, <2>5 DEF TypeOK
<1>10. Queue'
  <2>1. \A k \in 1..Len(backlog') : backlog'[k] \in Users /\ backlog'[k] # c
    BY <1>1, <1>6 DEF Queue
  <2>2. \A k \in 1..Len(backlog') : fd'[backlog'[k]] = 0 /\ cpc'[backlog'[k]] # "idle"
    BY <1>1, <1>5, <1>6, <1>7, <2>1 DEF Queue
  <2>3. \A j, k \in 1..Len(backlog') : backlog'[j] = backlog'[k] => j = k
    <3> TAKE j, k \in 1..Len(backlog')
    <3>1. backlog[j + 1] = backlog[k + 1] => j + 1 = k + 1
      BY <1>1, <1>6 DEF Queue
    <3>2. QED BY <1>6, <3>1
  <2>4. cpc[c] # "idle"
    BY <1>1, <1>6 DEF Queue
  <2>5. \A d \in Users : cpc'[d] = "idle" => fd'[d] = 0
    BY <1>1, <1>5, <1>7, <2>4 DEF Queue
  <2>6. QED BY <1>5, <2>2, <2>3, <2>5 DEF Queue
<1>11. Table'
  <2>1. \A d, e \in Open' : d # e => fd'[d] # fd'[e]
    BY <1>1, <1>2, <1>7 DEF Table, Open
  <2>2. \A k \in Slots : slot[k] # f
    BY <1>1, <1>2, <1>3 DEF Table
  <2>3. ASSUME NEW k \in Slots, slot'[k] # 0
        PROVE  \E d \in Open' : fd'[d] = slot'[k]
    <3>1. CASE slot'[k] = slot[k]
      <4>1. PICK d \in Open : fd[d] = slot[k]
        BY <1>1, <2>3, <3>1 DEF Table
      <4>2. QED BY <1>2, <1>7, <3>1, <4>1 DEF Open
    <3>2. CASE slot'[k] = f
      BY <1>7, <3>2
    <3>3. QED BY <1>8, <3>1, <3>2
  <2>4. ASSUME NEW k \in Slots, slot'[k] # 0, NEW m \in Slots, slot'[m] = slot'[k]
        PROVE  m = k
    BY <1>1, <1>8, <2>2, <2>4 DEF Table
  <2>5. QED BY <2>1, <2>3, <2>4 DEF Table
<1>12. Answer'
  <2>1. \A d \in Open : d # c /\ fd'[d] = fd[d] /\ Readable(d)' = Readable(d)
    BY <1>1, <1>2, <1>5, <1>7 DEF TypeOK, Open, Readable
  <2>2. f \notin readfds
    <3>1. f \in readfds \ {Master} => \E d \in Open : fd[d] = f
      BY <1>1 DEF Answer
    <3>2. QED BY <1>2, <1>3, <3>1
  <2>3. ASSUME NEW g \in readfds \ {Master}, NEW k \in Slots, k >= i, slot'[k] = g
        PROVE  g <= max_sd /\ \E d \in Open' : fd'[d] = g /\ Readable(d)'
    <3>1. slot[k] = g
      BY <1>8, <2>2, <2>3
    <3>2. g <= max_sd /\ \E d \in Open : fd[d] = g /\ Readable(d)
      BY <1>1, <2>3, <3>1 DEF Answer
    <3>3. QED BY <1>7, <2>1, <3>2
  <2>4. QED BY <1>5, <2>3 DEF Answer
<1>13. QED BY <1>9, <1>10, <1>11, <1>12 DEF IInv

\* The scan leaves slot i: what it has still to look at is as it was, if only
\* the owner of slot i changed.
LEMMA RestOfScan ==
  ASSUME IInv, spc = "scan", NextSlot \/ (spc' = "dead" /\ i' = i),
         UNCHANGED <<readfds, max_sd>>,
         \A k \in Slots : k # i => slot'[k] = slot[k],
         \A d \in Open : fd[d] # slot[i] \/ slot[i] \notin readfds =>
            d \in Open' /\ fd'[d] = fd[d] /\ (Readable(d) => Readable(d)')
  PROVE  Answer'
<1>1. TypeOK /\ Table /\ Answer
  BY DEF IInv
<1>2. i \in Slots /\ i \in Nat /\ Master # 0
  BY <1>1 DEF TypeOK, Slots
<1>3. spc' # "accept" /\ (spc' = "scan" => i' = i + 1)
  BY <1>2, NextSlotMoves
<1>4. 0 \notin readfds
  <2>1. Cardinality(Users) \in Nat
    BY FS_CardinalityType
  <2>2. QED BY <1>1, <1>2, <2>1 DEF TypeOK, FDs
<1>5. ASSUME NEW g \in readfds \ {Master}, NEW k \in Slots, k >= i + 1, slot'[k] = g
      PROVE  g <= max_sd /\ \E d \in Open' : fd'[d] = g /\ Readable(d)'
  <2>1. k \in Nat /\ k # i /\ k >= i
    BY <1>2, <1>5 DEF Slots
  <2>2. slot[k] = g /\ g # 0
    BY <1>4, <1>5, <2>1
  <2>3. slot[i] # g
    BY <1>1, <1>2, <2>1, <2>2 DEF Table
  <2>4. g <= max_sd
    BY <1>1, <1>5, <2>1, <2>2 DEF Answer
  <2>5. PICK d \in Open : fd[d] = g /\ Readable(d)
    BY <1>1, <1>5, <2>1, <2>2 DEF Answer
  <2>6. d \in Open' /\ fd'[d] = g /\ Readable(d)'
    BY <2>3, <2>5
  <2>7. QED BY <2>4, <2>6
<1>6. QED BY <1>3, <1>5 DEF Answer

\* The scan passes over a slot.
LEMMA SkipSlotKeeps ==
  ASSUME IInv, SkipSlot
  PROVE  IInv'
<1>1. /\ TypeOK /\ Queue /\ Table /\ spc = "scan" /\ slot[i] \notin readfds /\ NextSlot
      /\ UNCHANGED <<cpc, mail, link, data, backlog, fd, slot, readfds, max_sd, heard>>
  BY DEF IInv, SkipSlot, clientVars
<1>2. i \in Slots /\ i' \in Slots /\ spc' \in {"scan", "select"}
  BY <1>1, NextSlotMoves DEF TypeOK
<1>3. Open' = Open /\ \A c \in Users : Readable(c)' = Readable(c)
  BY <1>1 DEF Open, Readable
<1>4. TypeOK'
  BY <1>1, <1>2 DEF TypeOK
<1>5. Queue'
  BY <1>1, <1>2 DEF Queue
<1>6. Table'
  BY <1>1, <1>3 DEF Table
<1>7. Answer'
  <2>1. \A d \in Open : d \in Open' /\ fd'[d] = fd[d] /\ (Readable(d) => Readable(d)')
    BY <1>1, <1>3 DEF Open
  <2>2. QED BY <1>1, <2>1, RestOfScan
<1>8. QED BY <1>4, <1>5, <1>6, <1>7 DEF IInv

\* A closed descriptor leaves its slot in the same step.
LEMMA DisconnectKeeps ==
  ASSUME IInv, Disconnect
  PROVE  IInv'
<1> DEFINE c == OwnerOf(slot[i])
<1>1. TypeOK /\ Queue /\ Table /\ spc = "scan" /\ slot[i] \in readfds /\ NextSlot
  BY DEF IInv, Disconnect
<1>2. /\ fd' = [fd EXCEPT ![c] = 0] /\ slot' = [slot EXCEPT ![i] = 0]
      /\ UNCHANGED <<cpc, mail, link, data, backlog, readfds, max_sd, heard>>
  BY DEF Disconnect, clientVars
<1>3. c \in Users /\ fd[c] = slot[i] /\ slot[i] # 0
  BY <1>1, ScanFindsOwner
<1> HIDE DEF c
<1>4. i \in Slots /\ i' \in Slots /\ spc' \in {"scan", "select"}
  BY <1>1, NextSlotMoves DEF TypeOK
<1>5. /\ Open' = Open \ {c} /\ c \in Open
      /\ \A d \in Users : d # c => fd'[d] = fd[d]
      /\ \A d \in Users : Readable(d)' = Readable(d)
  BY <1>1, <1>2, <1>3 DEF TypeOK, Open, Readable
<1>6. TypeOK'
  BY <1>1, <1>2, <1>3, <1>4 DEF TypeOK
<1>7. Queue'
  <2>1. backlog \in Seq(Users)
    BY <1>1 DEF TypeOK
  <2>2. \A d \in Users : fd[d] = 0 => fd'[d] = 0
    BY <1>1, <1>2, <1>3 DEF TypeOK
  <2>3. \A k \in 1..Len(backlog) : backlog[k] \in Users
    BY <2>1
  <2>4. QED BY <1>1, <1>2, <1>4, <2>2, <2>3 DEF Queue
<1>8. Table'
  <2>1. \A d, e \in Open' : d # e => fd'[d] # fd'[e]
    BY <1>1, <1>5 DEF Table, Open
  <2>2. \A k \in Slots : slot'[k] = IF k = i THEN 0 ELSE slot[k]
    BY <1>1, <1>2 DEF TypeOK
  <2>3. ASSUME NEW k \in Slots, slot'[k] # 0
        PROVE  /\ \E d \in Open' : fd'[d] = slot'[k]
               /\ \A m \in Slots : slot'[m] = slot'[k] => m = k
    <3>1. k # i /\ slot'[k] = slot[k] /\ slot[k] # 0
      BY <2>2, <2>3
    <3>2. slot[i] # slot[k]
      BY <1>1, <1>4, <3>1 DEF Table
    <3>3. PICK d \in Open : fd[d] = slot[k]
      BY <1>1, <3>1 DEF Table
    <3>4. d # c
      BY <1>3, <3>2, <3>3
    <3>5. d \in Open' /\ fd'[d] = slot'[k]
      BY <1>5, <3>1, <3>3, <3>4 DEF Open
    <3>6. \A m \in Slots : slot'[m] = slot'[k] => m = k
      BY <1>1, <2>2, <2>3, <3>1 DEF Table
    <3>7. QED BY <3>5, <3>6
  <2>4. QED BY <2>1, <2>3 DEF Table
<1>9. Answer'
  <2>1. \A k \in Slots : k # i => slot'[k] = slot[k]
    BY <1>1, <1>2 DEF TypeOK
  <2>2. ASSUME NEW d \in Open, fd[d] # slot[i]
        PROVE  d \in Open' /\ fd'[d] = fd[d] /\ (Readable(d) => Readable(d)')
    <3>1. d \in Users /\ d # c
      BY <1>3, <2>2 DEF Open
    <3>2. QED BY <1>5, <3>1
  <2>3. QED BY <1>1, <1>2, <2>1, <2>2, RestOfScan
<1>10. QED BY <1>6, <1>7, <1>8, <1>9 DEF IInv

\* The server that can accept nobody any more is gone.
LEMMA AcceptFailsKeeps ==
  ASSUME IInv, AcceptFails
  PROVE  IInv'
<1>1. spc = "accept" /\ spc' = "dead"
      /\ UNCHANGED <<cpc, mail, link, data, backlog, fd, slot, i, readfds, max_sd, heard>>
  BY DEF AcceptFails, clientVars
<1>2. TypeOK'
  BY <1>1 DEF IInv, TypeOK
<1>3. Open' = Open
  BY <1>1 DEF Open
<1>4. Queue'
  BY <1>1 DEF IInv, Queue
<1>5. Table' /\ Answer'
  BY <1>1, <1>3 DEF IInv, Table, Answer
<1>6. QED BY <1>2, <1>4, <1>5 DEF IInv

\* A broadcast changes what the links and queues of the clients hold, but
\* makes nothing unreadable that the scan has not looked at.
LEMMA MessageKeeps ==
  ASSUME IInv, Message
  PROVE  IInv'
<1> DEFINE c == OwnerOf(slot[i])
           l == IF data[c] THEN link ELSE [link EXCEPT ![c] = "broken"]
<1>1. TypeOK /\ Queue /\ Table /\ spc = "scan" /\ slot[i] \in readfds
  BY DEF IInv, Message
<1>2. /\ data' = [data EXCEPT ![c] = FALSE]
      /\ UNCHANGED <<cpc, backlog, fd, slot, readfds, max_sd>>
  BY DEF Message
<1>3. PICK Taken : Broadcast(c, Taken, l)
  BY DEF Message
<1>4. c \in Users /\ fd[c] = slot[i] /\ slot[i] # 0
  BY <1>1, ScanFindsOwner
<1> HIDE DEF c
<1>5. /\ l \in [Users -> {"open", "fin", "reset", "finrst", "broken"}]
      /\ \A d \in Users : d # c => l[d] = link[d]
  BY <1>1, <1>4 DEF TypeOK
<1> HIDE DEF l
<1>6. NextSlot \/ (spc' = "dead" /\ i' = i)
  BY <1>3 DEF Broadcast
<1>7. i \in Slots /\ i' \in Slots /\ spc' \in {"scan", "select", "dead"}
  BY <1>1, <1>6, NextSlotMoves DEF TypeOK
<1>8. TypeOK'
  <2> DEFINE fatal   == {f \in Taken : f = Master \/ \E d \in Open : fd[d] = f /\ Fatal(l[d])}
             reached == {d \in Open : fd[d] \in Taken /\ \A f \in fatal : fd[d] < f}
             hearers == {d \in reached : l[d] = "open"}
  <2>1. /\ heard' = heard \cup ({c} \X hearers)
        /\ mail' = [d \in Users |-> mail[d] \/ d \in hearers]
        /\ link' = [d \in Users |-> IF d \in reached THEN AfterSend(l[d]) ELSE l[d]]
    BY <1>3 DEF Broadcast
  <2>2. hearers \subseteq Users
    BY DEF Open
  <2> HIDE DEF fatal, reached, hearers
  <2>3. heard' \subseteq Users \X Users
    BY <1>1, <1>4, <2>1, <2>2 DEF TypeOK
  <2>4. mail' \in [Users -> BOOLEAN]
    BY <2>1
  <2>5. link' \in [Users -> {"open", "fin", "reset", "finrst", "broken"}]
    BY <1>5, <2>1 DEF AfterSend
  <2>6. data' \in [Users -> BOOLEAN]
    BY <1>1, <1>2 DEF TypeOK
  <2>7. QED BY <1>1, <1>2, <1>7, <2>3, <2>4, <2>5, <2>6 DEF TypeOK
<1>9. Open' = Open
  BY <1>2 DEF Open
<1>10. Queue'
  BY <1>1, <1>2, <1>7 DEF Queue
<1>11. Table'
  BY <1>1, <1>2, <1>9 DEF Table
<1>12. Answer'
  <2>1. ASSUME NEW d \in Open, fd[d] # slot[i]
        PROVE  d \in Open' /\ fd'[d] = fd[d] /\ (Readable(d) => Readable(d)')
    <3>1. d \in Users /\ d # c
      BY <1>4, <2>1 DEF Open
    <3>2. data'[d] = data[d]
      BY <1>1, <1>2, <3>1 DEF TypeOK
    <3>3. link'[d] \in {l[d], AfterSend(l[d])}
      BY <1>3, <3>1 DEF Broadcast
    <3>4. link[d] # "open" => link'[d] # "open"
      BY <1>5, <3>1, <3>3 DEF AfterSend
    <3>5. QED BY <1>2, <1>9, <3>2, <3>4 DEF Readable
  <2>2. QED BY <1>1, <1>2, <1>6, <2>1, RestOfScan
<1>13. QED BY <1>8, <1>10, <1>11, <1>12 DEF IInv

\* Every step of the chat server and its clients keeps the invariant.
LEMMA StepIInv == IInv /\ [Next]_vars => IInv'
<1> SUFFICES ASSUME IInv, [Next]_vars PROVE IInv'
  OBVIOUS
<1>1. CASE ServerNext
  BY <1>1, SelectKeeps, AcceptKeeps, SkipSlotKeeps, DisconnectKeeps, MessageKeeps,
     AcceptFailsKeeps DEF ServerNext
<1>2. ASSUME NEW c \in Users, ClientNext(c) PROVE IInv'
  BY <1>2, ConnectKeeps, ClientReadKeeps, ClientWriteKeeps, ClientCloseKeeps,
     ClientKilledKeeps DEF ClientNext
<1>3. CASE UNCHANGED vars
  <2>1. /\ UNCHANGED <<cpc, mail, link, data, backlog, fd, heard>>
        /\ UNCHANGED <<slot, spc, i, readfds, max_sd>>
    BY <1>3 DEF vars, clientVars, serverVars
  <2>2. TypeOK'
    BY <2>1 DEF IInv, TypeOK
  <2>3. \A d \in Users : Readable(d)' = Readable(d)
    BY <2>1 DEF Readable
  <2>4. QED BY <2>1, <2>2, <2>3, ClientKeeps
<1>4. QED BY <1>1, <1>2, <1>3 DEF Next

-----------------------------------------------------------------------------
(* The results. *)

\* The inductive invariant holds in every state of every execution.
THEOREM IInvInductive == Spec => []IInv
BY InitIInv, StepIInv, PTL DEF Spec

\* TypeOK, for every number of clients and of slots.
THEOREM TypeCorrect == Spec => []TypeOK
<1>1. IInv => TypeOK
  BY DEF IInv
<1>2. QED BY <1>1, IInvInductive, PTL

\* SlotTable: no slot holds a descriptor that is closed or that another
\* connection has got meanwhile, and what select() reported is still true when
\* the scan comes to it, so read() in the scan never blocks.
THEOREM SlotTableCorrect == Spec => []SlotTable
<1>1. IInv => SlotTable
  BY DEF IInv, Table, Answer, SlotTable
<1>2. QED BY <1>1, IInvInductive, PTL

-----------------------------------------------------------------------------
(* What a step may never do.  Who is in no slot is touched by no call of the *)
(* server, as each one starts from a slot; and a broadcast meets the         *)
(* listening socket unless the message comes from its slot.                  *)

\* What one step does to the forgotten connections.
KeepsLeaked ==
  spc' # "dead" => \A c \in Leaked : c \in Leaked' /\ (data[c] => data'[c])

\* A step that changes neither table nor descriptors leaves them forgotten.
LEMMA TableStays ==
  ASSUME UNCHANGED <<fd, slot>>
  PROVE  Open' = Open /\ Leaked' = Leaked
BY DEF Open, Leaked, InSlot

\* What a client does takes no other client from where it is.
LEMMA ClientsLeave ==
  ASSUME IInv, NEW c \in Users, ClientNext(c)
  PROVE  KeepsLeaked /\ heard' = heard /\ (spc = "scan" => \A d \in Users : data[d] => data'[d])
<1>1. data \in [Users -> BOOLEAN]
  BY DEF IInv, TypeOK
<1>2. UNCHANGED <<fd, slot, spc, heard>>
  BY DEF ClientNext, Connect, ClientRead, ClientWrite, ClientClose, ClientKilled, serverVars
<1>3. data' = data \/ data' = [data EXCEPT ![c] = spc # "dead"] \/ data' = [data EXCEPT ![c] = TRUE]
  BY DEF ClientNext, Connect, ClientRead, ClientWrite, ClientClose, ClientKilled
<1>4. \A d \in Users : spc # "dead" /\ data[d] => data'[d]
  BY <1>1, <1>3
<1>5. Leaked' = Leaked /\ Leaked \subseteq Users
  BY <1>2, TableStays DEF Leaked, Open
<1>6. QED BY <1>2, <1>4, <1>5 DEF KeepsLeaked

\* accept() gives the new client a descriptor that no other has.
LEMMA AcceptLeaves ==
  ASSUME IInv, Accept
  PROVE  KeepsLeaked
<1> DEFINE c == Head(backlog)
           f == Min(FDs \ {fd[d] : d \in Open})
           empty == {k \in Slots : slot[k] = 0}
<1>1. TypeOK /\ Queue /\ spc = "accept"
  BY DEF IInv, Accept
<1>2. /\ c \in Users /\ fd[c] = 0 /\ f \in FDs /\ \A d \in Open : fd[d] # f
  BY <1>1, FreeDescriptor
<1>3. /\ fd' = [fd EXCEPT ![c] = f] /\ data' = data
      /\ slot' = IF empty = {} THEN slot ELSE [slot EXCEPT ![Min(empty)] = f]
  BY DEF Accept
<1> HIDE DEF c, f, empty
<1>4. \A k \in Slots : slot'[k] \in {slot[k], f}
  BY <1>1, <1>3 DEF TypeOK
<1>5. ASSUME NEW d \in Leaked
      PROVE  d \in Leaked'
  <2>1. d \in Users /\ fd[d] # 0 /\ fd[d] # f /\ d # c /\ \A k \in Slots : slot[k] # fd[d]
    BY <1>2, <1>5 DEF Leaked, Open, InSlot
  <2>2. fd'[d] = fd[d]
    BY <1>1, <1>3, <2>1 DEF TypeOK
  <2>3. QED BY <1>4, <2>1, <2>2 DEF Leaked, Open, InSlot
<1>6. QED BY <1>3, <1>5 DEF KeepsLeaked

\* close() is called for the owner of a slot.
LEMMA DisconnectLeaves ==
  ASSUME IInv, Disconnect
  PROVE  KeepsLeaked
<1> DEFINE c == OwnerOf(slot[i])
<1>1. TypeOK /\ spc = "scan" /\ slot[i] \in readfds
  BY DEF IInv, Disconnect
<1>2. fd' = [fd EXCEPT ![c] = 0] /\ slot' = [slot EXCEPT ![i] = 0] /\ data' = data
  BY DEF Disconnect, clientVars
<1>3. c \in Users /\ fd[c] = slot[i] /\ i \in Slots
  BY <1>1, ScanFindsOwner
<1> HIDE DEF c
<1>4. \A k \in Slots : slot'[k] \in {slot[k], 0}
  BY <1>1, <1>2 DEF TypeOK
<1>5. ASSUME NEW d \in Leaked
      PROVE  d \in Leaked'
  <2>1. d \in Users /\ fd[d] # 0 /\ d # c /\ \A k \in Slots : slot[k] # fd[d]
    BY <1>3, <1>5 DEF Leaked, Open, InSlot
  <2>2. fd'[d] = fd[d]
    BY <1>1, <1>2, <2>1 DEF TypeOK
  <2>3. QED BY <1>4, <2>1, <2>2 DEF Leaked, Open, InSlot
<1>6. QED BY <1>2, <1>5 DEF KeepsLeaked

\* A message is read from the owner of a slot.
LEMMA MessageLeaves ==
  ASSUME IInv, Message
  PROVE  KeepsLeaked
<1> DEFINE c == OwnerOf(slot[i])
<1>1. TypeOK /\ spc = "scan" /\ slot[i] \in readfds
  BY DEF IInv, Message
<1>2. data' = [data EXCEPT ![c] = FALSE] /\ UNCHANGED <<fd, slot>>
  BY DEF Message
<1>3. c \in Users /\ fd[c] = slot[i] /\ i \in Slots
  BY <1>1, ScanFindsOwner
<1> HIDE DEF c
<1>4. \A d \in Leaked : d \in Users /\ d # c
  BY <1>3 DEF Leaked, Open, InSlot
<1>5. \A d \in Leaked : data[d] => data'[d]
  BY <1>1, <1>2, <1>4 DEF TypeOK
<1>6. QED BY <1>2, <1>5, TableStays DEF KeepsLeaked

\* The only slot that is heard, and what any other message does.
LEMMA MessageSpeaks ==
  ASSUME IInv, Message
  PROVE  /\ \A p \in heard' \ heard : i = Master /\ fd[p[1]] = slot[i] /\ fd[p[2]] < max_sd
         /\ i # Master => spc' = "dead"
<1> DEFINE c == OwnerOf(slot[i])
           l == IF data[c] THEN link ELSE [link EXCEPT ![c] = "broken"]
<1>1. TypeOK /\ Table /\ Answer /\ spc = "scan" /\ slot[i] \in readfds
  BY DEF IInv, Message
<1>2. PICK outside \in SUBSET (MaxClients..max_sd-1) : Broadcast(c, Targets(outside), l)
  BY DEF Message
<1>3. /\ i \in Slots /\ c \in Users /\ fd[c] = slot[i] /\ slot[i] # 0 /\ slot[i] # Master
  BY <1>1, ScanFindsOwner
<1> HIDE DEF c, l
<1> DEFINE targets == Targets(outside)
           fatal   == {f \in targets : f = Master \/ \E d \in Open : fd[d] = f /\ Fatal(l[d])}
           reached == {d \in Open : fd[d] \in targets /\ \A f \in fatal : fd[d] < f}
           hearers == {d \in reached : l[d] = "open"}
<1>4. /\ heard' = heard \cup ({c} \X hearers)
      /\ IF fatal = {} THEN NextSlot ELSE spc' = "dead" /\ i' = i
  BY <1>2 DEF Broadcast
<1>5. Master \in Slots /\ Cardinality(Users) \in Nat
  BY MasterIsASlot, FS_CardinalityType DEF Slots
<1>6. /\ FDs \subseteq Nat /\ \A f \in FDs : Master < f
      /\ max_sd \in Nat /\ Master <= max_sd
  BY <1>1, <1>5 DEF FDs, TypeOK
<1>7. Master < max_sd /\ i # Master => Master \in targets
  <2>1. slot[Master] = slot[i] => i = Master
    BY <1>1, <1>3, <1>5 DEF Table
  <2>2. QED BY <1>5, <1>6, <2>1 DEF Targets
<1>8. Master \in targets => Master \in fatal
  OBVIOUS
<1>9. targets \subseteq 0..max_sd-1
  BY DEF Targets
<1>10. ASSUME NEW p \in heard' \ heard
       PROVE  i = Master /\ fd[p[1]] = slot[i] /\ fd[p[2]] < max_sd
  <2>1. p[1] = c /\ p[2] \in hearers
    BY <1>4, <1>10
  <2>2. PICK d \in Open : p[2] = d /\ fd[d] \in targets /\ \A f \in fatal : fd[d] < f
    BY <2>1
  <2>3. fd[d] \in FDs /\ fd[d] \in 0..max_sd-1
    BY <1>1, <1>9, <2>2 DEF TypeOK, Open
  <2>4. Master < fd[d] /\ fd[d] < max_sd /\ fd[d] \in Nat
    BY <1>6, <2>3
  <2>5. Master < max_sd
    BY <1>6, <2>4
  <2>6. Master \notin fatal
    BY <2>2, <2>4
  <2>7. i = Master
    BY <1>7, <1>8, <2>5, <2>6
  <2>8. QED BY <1>3, <2>1, <2>2, <2>4, <2>7
<1>11. i # Master => spc' = "dead"
  <2>1. slot[i] \in FDs /\ slot[i] <= max_sd
    <3>1. slot[i] \in FDs /\ slot[i] \in readfds \ {Master} /\ i >= i
      BY <1>1, <1>3 DEF TypeOK, Slots
    <3>2. QED BY <1>1, <1>3, <3>1 DEF Answer
  <2>2. Master < max_sd
    <3>1. slot[i] \in Nat /\ Master < slot[i]
      BY <1>6, <2>1
    <3>2. QED BY <1>6, <2>1, <3>1
  <2>3. QED BY <1>4, <1>7, <1>8, <2>2
<1>12. QED BY <1>10, <1>11

\* Every step, of the server and of the clients.
LEMMA StepLeavesAndSpeaks ==
  ASSUME IInv, Next
  PROVE  /\ KeepsLeaked
         /\ \A p \in heard' \ heard : i = Master /\ fd[p[1]] = slot[i] /\ fd[p[2]] < max_sd
         /\ (spc = "scan" /\ i # Master /\ \E c \in Open : fd[c] = slot[i] /\ data[c] /\ ~data'[c])
              => spc' = "dead"
<1>1. CASE Select \/ SkipSlot
  <2>1. UNCHANGED <<fd, slot, data>> /\ heard' \subseteq heard
    BY <1>1 DEF Select, SkipSlot, clientVars
  <2>2. QED BY <2>1, TableStays DEF KeepsLeaked
<1>2. CASE Accept
  <2>1. data' = data /\ heard' = heard
    BY <1>2 DEF Accept
  <2>2. QED BY <1>2, <2>1, AcceptLeaves
<1>3. CASE Disconnect
  <2>1. data' = data /\ heard' = heard
    BY <1>3 DEF Disconnect, clientVars
  <2>2. QED BY <1>3, <2>1, DisconnectLeaves
<1>4. CASE Message
  BY <1>4, MessageLeaves, MessageSpeaks
<1>7. CASE AcceptFails
  BY <1>7 DEF AcceptFails, KeepsLeaked
<1>5. ASSUME NEW c \in Users, ClientNext(c)
      PROVE  /\ KeepsLeaked /\ heard' = heard
             /\ spc = "scan" => \A d \in Users : data[d] => data'[d]
  BY <1>5, ClientsLeave
<1>6. QED BY <1>1, <1>2, <1>3, <1>4, <1>5, <1>7 DEF Next, ServerNext, Open

\* LostAndHeard: who finds no slot is lost for good, and a message is heard only
\* from the slot whose number is the descriptor of the listening socket.
THEOREM LostAndHeardHolds == Spec => LostAndHeard
<1>1. IInv /\ [Next]_vars => [KeepsLeaked]_vars
  BY StepLeavesAndSpeaks
<1>2. IInv /\ [Next]_vars =>
        [/\ \A p \in heard' \ heard : i = Master /\ fd[p[1]] = slot[i] /\ fd[p[2]] < max_sd
         /\ (spc = "scan" /\ i # Master /\ \E c \in Open : fd[c] = slot[i] /\ data[c] /\ ~data'[c])
              => spc' = "dead"]_vars
  BY StepLeavesAndSpeaks
<1>3. QED BY <1>1, <1>2, IInvInductive, PTL DEF Spec, LostAndHeard, LeakedForever, OneSlotSpeaks, KeepsLeaked

-----------------------------------------------------------------------------
(* All of them side by side.                                                 *)

\* Nothing moves but the program that has been chosen, so what holds of each program
\* holds whichever it is: SlotTable, SockSafe, EchoServersSafe and OobSafe.
THEOREM ConnectionsAreSafe == MCSpec => []SlotTable /\ []SockSafe /\ []EchoServersSafe /\ []OobSafe
<1>1. MCInit => Init /\ T!Init /\ U!Init /\ S!Init /\ E!Init /\ O!Init
  BY DEF MCInit
<1>2. ASSUME [MCNext]_<<which, vars, sock, dgram, server, echo, urg>>
      PROVE  /\ [Next]_vars /\ [T!Next]_(T!vars) /\ [U!Next]_(U!vars)
             /\ [S!Next]_(S!vars) /\ [E!Next]_(E!vars) /\ [O!Next]_(O!vars)
  <2>1. /\ UNCHANGED sock => UNCHANGED T!vars
        /\ UNCHANGED dgram => UNCHANGED U!vars
        /\ UNCHANGED server => UNCHANGED S!vars
        /\ UNCHANGED echo => UNCHANGED E!vars
        /\ UNCHANGED urg => UNCHANGED O!vars
    BY DEF sock, dgram, server, echo, urg, T!vars, T!conf, T!input, U!vars, U!conf, S!vars, S!conf, S!signals,
           E!vars, E!conf, O!vars, O!conf, O!stream
  <2>2. QED BY <1>2, <2>1 DEF MCNext
<1>3. /\ TcpInv /\ UdpInv /\ SrvInv /\ EchoInv /\ OobInv => SockSafe /\ EchoServersSafe /\ OobSafe
      /\ IInv => SlotTable
  BY TcpSafe, UdpSafe, SrvSafe, EchoSafe, OobIsSafe DEF SockSafe, IInv, Table, Answer, SlotTable
<1>4. QED BY <1>1, <1>2, <1>3, TcpStart, TcpStep, UdpStart, UdpStep, SrvStart, SrvStep, EchoStart, EchoStep,
             OobStart, OobStep, InitIInv, StepIInv, PTL DEF MCSpec
=============================================================================
