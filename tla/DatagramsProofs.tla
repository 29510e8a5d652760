-------------------------- MODULE DatagramsProofs --------------------------
(***************************************************************************)
(* Proofs about the programs over datagrams: ping, the UDP checksum test,  *)
(* traceroute, UDP echo without retransmission, the ICMP daemon, the SCTP  *)
(* servers, and last the packet loss calculator; for every value of the    *)
(* constants of each.                                                      *)
(* Each part has its invariant, the steps that keep it, and its theorem.   *)
(***************************************************************************)
EXTENDS MCDatagrams, FiniteSetTheorems, SequenceTheorems, WellFoundedInduction, TLAPS

\* What appending to a queue and taking from it do.
LEMMA SeqFacts ==
  ASSUME NEW Elem, NEW q \in Seq(Elem), NEW x \in Elem
  PROVE  /\ Append(q, x) \in Seq(Elem) /\ Len(Append(q, x)) = Len(q) + 1 /\ Len(q) \in Nat
         /\ \A k \in 1..Len(q) : Append(q, x)[k] = q[k]
         /\ Append(q, x)[Len(q) + 1] = x
         /\ q # <<>> => /\ Head(q) = q[1] /\ Head(q) \in Elem /\ Tail(q) \in Seq(Elem)
                        /\ Len(Tail(q)) = Len(q) - 1
                        /\ \A k \in 1..Len(Tail(q)) : Tail(q)[k] = q[k + 1]
  OBVIOUS

\* What is in a queue is of its kind.
LEMMA QueueIn ==
  ASSUME NEW Elem, NEW q \in Seq(Elem)
  PROVE  \A k \in 1..Len(q) : q[k] \in Elem
  OBVIOUS

-----------------------------------------------------------------------------
(* ping. *)

\* The entries of rcvd_tbl for packets that have been sent, and of these those
\* whose bit is not set: what may still be counted.
SentBits == {P!Bit(n) : n \in 0 .. ntransmitted - 1}
Unset == SentBits \ rcvd_tbl

\* What has been read, and what of it the table should know.
Read == {panswers[k] : k \in 1..Len(panswers)}

\* An answer has been added to nreceived and may have to be taken off again.
InBetween == ppc \in {"counted", "repeat", "set"}

PingTypeOK ==
  /\ prog \in {"bsd", "flood", "unp"}
  /\ ppc \in {"start", "ping", "recv", "counted", "repeat", "set", "test", "end", "exit"}
  /\ ntransmitted \in Nat /\ nreceived \in Nat /\ nrepeats \in Nat
  /\ rcvd_tbl \subseteq 0 .. MxDupCk - 1
  /\ pflight \subseteq 0 .. ntransmitted - 1
  /\ pinq \in Seq(0 .. ntransmitted - 1) /\ panswers \in Seq(0 .. ntransmitted - 1)
  /\ InBetween => icp \in 0 .. ntransmitted - 1

\* SET() has read the byte when the bit was not set; the handler has only
\* cleared bits since.
SetReads == ppc = "set" => rcvd_tbl \subseteq byte /\ P!Bit(icp) \notin byte /\ byte \subseteq 0 .. MxDupCk - 1

\* What has been counted and what may still be counted is not more than was
\* sent: sending clears one bit, and only a bit that is not set counts.
Budget ==
  /\ InBetween => nreceived > 0 /\ nreceived - 1 + Cardinality(Unset) <= ntransmitted
  /\ ~InBetween /\ ppc # "exit" => nreceived + Cardinality(Unset) <= ntransmitted
  /\ ppc = "exit" => nreceived <= ntransmitted + 1

\* As long as no sequence number has come again, an entry of the table is a
\* packet, and the counts are those of the table.
Counted ==
  prog # "unp" /\ ntransmitted <= MxDupCk /\ ppc # "exit" =>
    LET n == Cardinality(rcvd_tbl) IN
    /\ rcvd_tbl \subseteq 0 .. ntransmitted - 1
    /\ Read = IF ppc \in {"counted", "set"} THEN rcvd_tbl \cup {icp} ELSE rcvd_tbl
    /\ nreceived = IF InBetween THEN n + 1 ELSE n
    /\ nrepeats = IF ppc \in {"counted", "set"} THEN Len(panswers) - 1 - n ELSE Len(panswers) - n
    /\ ppc = "set" => byte = rcvd_tbl

PingInv == PingTypeOK /\ SetReads /\ Budget /\ Counted

\* A sequence over a set is one over a larger set.
LEMMA SeqOfMore ==
  ASSUME NEW Elem, NEW Img, Elem \subseteq Img, NEW q \in Seq(Elem)
  PROVE  q \in Seq(Img)
<1>1. q \in [1 .. Len(q) -> Elem] /\ Len(q) \in Nat
  OBVIOUS
<1>2. q \in [1 .. Len(q) -> Img]
  BY <1>1
<1>3. QED BY <1>1, <1>2

\* The number of elements is the same in the instance.
LEMMA SameCardinality == ASSUME NEW Elem PROVE P!Cardinality(Elem) = Cardinality(Elem)
BY DEF P!Cardinality, Cardinality

\* Where the table has the bit of a number: the first numbers have one each.
LEMMA BitIs ==
  ASSUME NEW n \in Nat
  PROVE  P!Bit(n) \in 0 .. MxDupCk - 1 /\ (n < MxDupCk => P!Bit(n) = n)
<1>1. MxDupCk \in Nat \ {0}
  BY DatagramsAssumption DEF P!PingAssumption
<1>2. CASE n < MxDupCk
  BY <1>1, <1>2 DEF P!Bit
<1>3. CASE ~(n < MxDupCk)
  BY <1>1, <1>3 DEF P!Bit
<1>4. QED BY <1>2, <1>3

\* The sets the counts are of are finite.
LEMMA TableFinite ==
  ASSUME PingTypeOK
  PROVE  /\ IsFiniteSet(SentBits) /\ IsFiniteSet(Unset) /\ IsFiniteSet(rcvd_tbl)
         /\ Cardinality(Unset) \in Nat /\ Cardinality(rcvd_tbl) \in Nat
         /\ SentBits \subseteq 0 .. MxDupCk - 1
<1>1. MxDupCk \in Nat \ {0}
  BY DatagramsAssumption DEF P!PingAssumption
<1>2. IsFiniteSet(0 .. MxDupCk - 1)
  BY <1>1, FS_Interval
<1>3. SentBits \subseteq 0 .. MxDupCk - 1
  BY BitIs DEF SentBits, PingTypeOK
<1>4. Unset \subseteq 0 .. MxDupCk - 1 /\ rcvd_tbl \subseteq 0 .. MxDupCk - 1
  BY <1>3 DEF Unset, PingTypeOK
<1>5. IsFiniteSet(SentBits) /\ IsFiniteSet(Unset) /\ IsFiniteSet(rcvd_tbl)
  BY <1>2, <1>3, <1>4, FS_Subset
<1>6. QED BY <1>3, <1>5, FS_CardinalityType

\* pinger(): one bit is cleared, so that one answer more may be counted.
LEMMA PingerStep ==
  ASSUME PingInv, P!Pinger, ppc # "exit",
         \/ ppc' = ppc
         \/ ppc = "ping" /\ ppc' = "recv",
         prog' = prog, nreceived' = nreceived, nrepeats' = nrepeats, byte' = byte, icp' = icp,
         panswers' = panswers, pinq' = pinq
  PROVE  PingInv'
<1> DEFINE b == P!Bit(ntransmitted)
<1>0. PingTypeOK /\ SetReads /\ Budget /\ Counted /\ MxDupCk \in Nat \ {0}
  BY DatagramsAssumption DEF PingInv, P!PingAssumption
<1>1. /\ ntransmitted \in Nat /\ ntransmitted' = ntransmitted + 1 /\ rcvd_tbl' = rcvd_tbl \ {b}
      /\ pflight' \subseteq pflight \cup {ntransmitted}
  BY <1>0 DEF P!Pinger, PingTypeOK
<1>4. InBetween' <=> InBetween
  BY DEF InBetween
<1>2. PingTypeOK'
  <2>1. 0 .. ntransmitted - 1 \subseteq 0 .. ntransmitted' - 1
    BY <1>1
  <2>2. pinq' \in Seq(0 .. ntransmitted' - 1) /\ panswers' \in Seq(0 .. ntransmitted' - 1)
    <3>1. pinq \in Seq(0 .. ntransmitted - 1) /\ panswers \in Seq(0 .. ntransmitted - 1)
      BY <1>0 DEF PingTypeOK
    <3>2. pinq \in Seq(0 .. ntransmitted' - 1) /\ panswers \in Seq(0 .. ntransmitted' - 1)
      BY <2>1, <3>1, SeqOfMore
    <3>3. QED BY <3>2
  <2>3. pflight' \subseteq 0 .. ntransmitted' - 1
    BY <1>0, <1>1 DEF PingTypeOK
  <2>4. rcvd_tbl' \subseteq 0 .. MxDupCk - 1 /\ ntransmitted' \in Nat
    <3>1. rcvd_tbl \subseteq 0 .. MxDupCk - 1 /\ ntransmitted \in Nat
      BY <1>0 DEF PingTypeOK
    <3>2. rcvd_tbl' \subseteq rcvd_tbl
      BY <1>1
    <3>3. ntransmitted' \in Nat
      BY <1>1
    <3>4. QED BY <3>1, <3>2, <3>3
  <2>5. ppc' \in {"start", "ping", "recv", "counted", "repeat", "set", "test", "end", "exit"}
    BY <1>0 DEF PingTypeOK
  <2>6. InBetween' => icp' \in 0 .. ntransmitted' - 1
    BY <1>0, <1>4, <2>1 DEF PingTypeOK
  <2>7. QED BY <1>0, <2>2, <2>3, <2>4, <2>5, <2>6 DEF PingTypeOK
<1>3. SetReads'
  BY <1>0, <1>1 DEF SetReads, P!Bit
<1>5. Cardinality(Unset') \in Nat /\ Cardinality(Unset') <= Cardinality(Unset) + 1
  <2>1. SentBits' = SentBits \cup {b}
    <3>1. 0 .. ntransmitted' - 1 = (0 .. ntransmitted - 1) \cup {ntransmitted}
      BY <1>1
    <3>2. QED BY <3>1 DEF SentBits, P!Bit
  <2>2. Unset' \subseteq Unset \cup {b}
    BY <1>1, <2>1 DEF Unset
  <2>3. /\ IsFiniteSet(Unset \cup {b}) /\ Cardinality(Unset \cup {b}) <= Cardinality(Unset) + 1
        /\ Cardinality(Unset) \in Nat
    <3>1. IsFiniteSet(Unset) /\ Cardinality(Unset) \in Nat
      BY <1>0, TableFinite
    <3>2. /\ IsFiniteSet(Unset \cup {b})
          /\ \/ Cardinality(Unset \cup {b}) = Cardinality(Unset)
             \/ Cardinality(Unset \cup {b}) = Cardinality(Unset) + 1
      BY <3>1, FS_AddElement, Zenon
    <3>3. QED BY <3>1, <3>2
  <2>4. QED BY <2>2, <2>3, FS_Subset, FS_CardinalityType
<1>6. Budget'
  BY <1>0, <1>1, <1>4, <1>5, TableFinite DEF Budget, PingTypeOK
<1>7. Counted'
  <2> SUFFICES ASSUME prog # "unp", ntransmitted + 1 <= MxDupCk PROVE Counted'
    BY <1>1 DEF Counted
  <2>1. b = ntransmitted
    BY <1>1, <1>0, BitIs
  <2>2. rcvd_tbl' = rcvd_tbl
    BY <1>0, <1>1, <2>1 DEF Counted
  <2>3. Read' = Read
    BY DEF Read
  <2>4. ntransmitted <= MxDupCk /\ 0 .. ntransmitted - 1 \subseteq 0 .. ntransmitted' - 1
    BY <1>0, <1>1
  <2>5. (ppc' \in {"counted", "set"} <=> ppc \in {"counted", "set"}) /\ (ppc' = "set" <=> ppc = "set")
    OBVIOUS
  <2>6. QED BY <1>0, <1>1, <1>4, <2>2, <2>3, <2>4, <2>5 DEF Counted
<1>8. QED BY <1>2, <1>3, <1>6, <1>7 DEF PingInv

\* What is left to count when a bit is set.
LEMMA PingSetStep ==
  ASSUME PingInv, P!Set
  PROVE  PingInv'
<1>0. PingTypeOK /\ SetReads /\ Budget /\ Counted /\ MxDupCk \in Nat \ {0}
  BY DatagramsAssumption DEF PingInv, P!PingAssumption
<1>1. /\ ppc = "set" /\ ppc' = "test" /\ rcvd_tbl' = byte \cup {P!Bit(icp)} /\ byte' = {}
      /\ nreceived' = nreceived /\ nrepeats' = nrepeats /\ icp' = icp /\ panswers' = panswers
      /\ pinq' = pinq /\ pflight' = pflight /\ ntransmitted' = ntransmitted /\ prog' = prog
  BY DEF P!Set, P!Net, P!Rest
<1>2. icp \in 0 .. ntransmitted - 1 /\ ntransmitted \in Nat /\ nreceived \in Nat
  BY <1>0, <1>1 DEF PingTypeOK, InBetween
<1>3. P!Bit(icp) \in 0 .. MxDupCk - 1 /\ (icp < MxDupCk => P!Bit(icp) = icp)
  BY <1>2, BitIs
<1>4. rcvd_tbl' \subseteq 0 .. MxDupCk - 1
  BY <1>0, <1>1, <1>3 DEF SetReads
<1>5. PingTypeOK'
  BY <1>0, <1>1, <1>4 DEF PingTypeOK, InBetween
<1>6. SetReads'
  BY <1>1 DEF SetReads
<1>7. Cardinality(Unset') \in Nat /\ Cardinality(Unset') <= Cardinality(Unset) - 1
  <2>1. P!Bit(icp) \in Unset
    <3>1. P!Bit(icp) \in SentBits
      BY <1>2 DEF SentBits
    <3>2. QED BY <1>0, <1>1, <3>1 DEF SetReads, Unset
  <2>2. SentBits' = SentBits
    BY <1>1 DEF SentBits, P!Bit
  <2>3. Unset' \subseteq Unset \ {P!Bit(icp)}
    BY <1>0, <1>1, <2>2 DEF SetReads, Unset
  <2>4. IsFiniteSet(Unset) /\ Cardinality(Unset) \in Nat
    BY <1>0, TableFinite
  <2>5. /\ IsFiniteSet(Unset \ {P!Bit(icp)})
        /\ Cardinality(Unset \ {P!Bit(icp)}) = Cardinality(Unset) - 1
    BY <2>1, <2>4, FS_RemoveElement
  <2>6. QED BY <2>3, <2>5, FS_Subset, FS_CardinalityType
<1>8. Budget'
  <2>1. nreceived - 1 + Cardinality(Unset) <= ntransmitted
    BY <1>0, <1>1 DEF Budget, InBetween
  <2>2. Cardinality(Unset) \in Nat
    BY <1>0, TableFinite
  <2>3. QED BY <1>1, <1>2, <1>7, <2>1, <2>2 DEF Budget, InBetween
<1>9. Counted'
  <2> SUFFICES ASSUME prog # "unp", ntransmitted <= MxDupCk PROVE Counted'
    BY <1>1 DEF Counted
  <2>1. /\ byte = rcvd_tbl /\ Read = rcvd_tbl \cup {icp} /\ rcvd_tbl \subseteq 0 .. ntransmitted - 1
        /\ nreceived = Cardinality(rcvd_tbl) + 1 /\ nrepeats = Len(panswers) - 1 - Cardinality(rcvd_tbl)
    BY <1>0, <1>1 DEF Counted, InBetween
  <2>2. icp < MxDupCk
    BY <1>0, <1>2
  <2>3. icp \notin rcvd_tbl /\ rcvd_tbl' = rcvd_tbl \cup {icp}
    BY <1>0, <1>1, <1>3, <2>1, <2>2 DEF SetReads
  <2>4. Cardinality(rcvd_tbl') = Cardinality(rcvd_tbl) + 1 /\ Cardinality(rcvd_tbl) \in Nat
    BY <1>0, <2>3, TableFinite, FS_AddElement
  <2>5. Read' = Read
    BY <1>1 DEF Read
  <2>6. Len(panswers) \in Nat
    BY <1>0 DEF PingTypeOK
  <2>7. nrepeats' = Len(panswers) - Cardinality(rcvd_tbl')
    BY <1>1, <2>1, <2>4, <2>6
  <2>8. nreceived' = Cardinality(rcvd_tbl')
    BY <1>1, <2>1, <2>4
  <2>9. rcvd_tbl' \subseteq 0 .. ntransmitted - 1
    BY <1>2, <2>1, <2>3
  <2>10. QED BY <1>1, <2>1, <2>3, <2>5, <2>7, <2>8, <2>9 DEF Counted, InBetween
<1>10. QED BY <1>5, <1>6, <1>8, <1>9 DEF PingInv

\* An answer is read.
LEMMA PingRecvStep ==
  ASSUME PingInv, P!Recvfrom
  PROVE  PingInv'
<1>0. PingTypeOK /\ SetReads /\ Budget /\ Counted
  BY DEF PingInv
<1>1. /\ ppc = "recv" /\ pinq # <<>> /\ pinq' = Tail(pinq) /\ icp' = Head(pinq)
      /\ panswers' = Append(panswers, Head(pinq))
      /\ IF prog = "unp" THEN ppc' = ppc /\ nreceived' = nreceived
         ELSE ppc' = "counted" /\ nreceived' = nreceived + 1
      /\ nrepeats' = nrepeats /\ byte' = byte /\ rcvd_tbl' = rcvd_tbl /\ pflight' = pflight
      /\ ntransmitted' = ntransmitted /\ prog' = prog
  BY DEF P!Recvfrom, P!Rest
<1> DEFINE Elem == 0 .. ntransmitted - 1
           h == Head(pinq)
<1>2. pinq \in Seq(Elem) /\ panswers \in Seq(Elem) /\ ntransmitted \in Nat /\ nreceived \in Nat
  BY <1>0 DEF PingTypeOK
<1>3. h \in Elem /\ Tail(pinq) \in Seq(Elem) /\ Append(panswers, h) \in Seq(Elem)
  BY <1>1, <1>2
<1>4. PingTypeOK'
  BY <1>0, <1>1, <1>2, <1>3 DEF PingTypeOK, InBetween
<1>5. SetReads'
  BY <1>1 DEF SetReads
<1>6. Unset' = Unset /\ Cardinality(Unset) \in Nat
  BY <1>0, <1>1, TableFinite DEF Unset, SentBits, P!Bit
<1>7. Budget'
  BY SMTT(30), <1>0, <1>1, <1>2, <1>6 DEF Budget, InBetween
<1>8. Counted'
  <2> SUFFICES ASSUME prog # "unp", ntransmitted <= MxDupCk PROVE Counted'
    BY <1>1 DEF Counted
  <2>1. Len(panswers') = Len(panswers) + 1 /\ Len(panswers) \in Nat
    BY <1>1, <1>2, <1>3
  <2>2. Read' = Read \cup {h}
    <3>1. \A k \in 1 .. Len(panswers) : panswers'[k] = panswers[k]
      BY <1>1, <1>2, <1>3
    <3>2. panswers'[Len(panswers) + 1] = h
      BY <1>1, <1>2, <1>3
    <3>3. 1 .. Len(panswers') = (1 .. Len(panswers)) \cup {Len(panswers) + 1}
      BY <2>1
    <3>4. QED BY <3>1, <3>2, <3>3 DEF Read
  <2>3. QED BY <1>0, <1>1, <2>1, <2>2, TableFinite DEF Counted, InBetween
<1>9. QED BY <1>4, <1>5, <1>7, <1>8 DEF PingInv

\* Its bit is looked at; a repeat is taken off again.
LEMMA PingTestStep ==
  ASSUME PingInv, P!Test \/ P!Repeat
  PROVE  PingInv'
<1>0. PingTypeOK /\ SetReads /\ Budget /\ Counted /\ Cardinality(rcvd_tbl) \in Nat
  BY TableFinite DEF PingInv
<1>1. /\ icp' = icp /\ panswers' = panswers /\ rcvd_tbl' = rcvd_tbl /\ prog' = prog
      /\ pinq' = pinq /\ pflight' = pflight /\ ntransmitted' = ntransmitted
  BY DEF P!Test, P!Repeat, P!Net, P!Rest
<1>2. Unset' = Unset /\ Cardinality(Unset) \in Nat /\ Read' = Read /\ Len(panswers) \in Nat
  BY <1>0, <1>1, TableFinite DEF Unset, SentBits, P!Bit, Read, PingTypeOK
<1>3. CASE P!Test
  <2>1. /\ ppc = "counted" /\ nreceived' = nreceived
        /\ \/ P!Bit(icp) \in rcvd_tbl /\ ppc' = "repeat" /\ nrepeats' = nrepeats + 1 /\ byte' = byte
           \/ P!Bit(icp) \notin rcvd_tbl /\ ppc' = "set" /\ nrepeats' = nrepeats /\ byte' = rcvd_tbl
    BY <1>3 DEF P!Test
  <2>2. PingTypeOK'
    BY <1>0, <1>1, <2>1 DEF PingTypeOK, InBetween
  <2>3. SetReads'
    BY <1>0, <1>1, <2>1 DEF SetReads, PingTypeOK, P!Bit
  <2>4. Budget'
    BY <1>0, <1>1, <1>2, <2>1 DEF Budget, InBetween
  <2>5. Counted'
    <3> SUFFICES ASSUME prog # "unp", ntransmitted <= MxDupCk PROVE Counted'
      BY <1>1 DEF Counted
    <3>1. icp \in Nat /\ icp < MxDupCk
      BY <1>0, <2>1, DatagramsAssumption DEF PingTypeOK, InBetween, P!PingAssumption
    <3>2. P!Bit(icp) = icp
      BY <3>1, BitIs
    <3>3. QED BY <1>0, <1>1, <1>2, <2>1, <3>2 DEF Counted, InBetween
  <2>6. QED BY <2>2, <2>3, <2>4, <2>5 DEF PingInv
<1>4. CASE P!Repeat
  <2>1. ppc = "repeat" /\ ppc' = "test" /\ nreceived' = nreceived - 1 /\ nrepeats' = nrepeats /\ byte' = byte
    BY <1>4 DEF P!Repeat
  <2>2. nreceived > 0 /\ nreceived \in Nat
    BY <1>0, <2>1 DEF Budget, InBetween, PingTypeOK
  <2>3. PingTypeOK'
    BY <1>0, <1>1, <2>1, <2>2 DEF PingTypeOK, InBetween
  <2>4. SetReads' /\ Budget'
    BY <1>0, <1>1, <1>2, <2>1, <2>2 DEF SetReads, Budget, InBetween
  <2>5. Counted'
    BY <1>0, <1>1, <1>2, <2>1, <2>2 DEF Counted, InBetween
  <2>6. QED BY <2>3, <2>4, <2>5 DEF PingInv
<1>5. QED BY <1>3, <1>4

\* Steps that count nothing and send nothing.
LEMMA PingQuietStep ==
  ASSUME PingInv, ~InBetween, ppc # "exit",
         ppc' \in {"ping", "recv", "end", "exit"} \/ ppc' = ppc,
         prog' = prog, ntransmitted' = ntransmitted, nreceived' = nreceived, nrepeats' = nrepeats,
         rcvd_tbl' = rcvd_tbl, byte' = byte, icp' = icp, panswers' = panswers,
         pinq' \in Seq(0 .. ntransmitted - 1), pflight' \subseteq pflight
  PROVE  PingInv'
<1>0. PingTypeOK /\ SetReads /\ Budget /\ Counted
  BY DEF PingInv
<1>1. ~InBetween' /\ ppc' \in {"start", "ping", "recv", "counted", "repeat", "set", "test", "end", "exit"}
  BY <1>0 DEF InBetween, PingTypeOK
<1>2. PingTypeOK'
  BY <1>0, <1>1 DEF PingTypeOK
<1>3. SetReads'
  BY <1>1 DEF SetReads, InBetween
<1>4. Unset' = Unset /\ Cardinality(Unset) \in Nat /\ Read' = Read
  BY <1>0, TableFinite DEF Unset, SentBits, P!Bit, Read
<1>5. Budget'
  BY <1>0, <1>1, <1>4 DEF Budget, PingTypeOK
<1>6. Counted'
  BY <1>0, <1>1, <1>4 DEF Counted, InBetween
<1>7. QED BY <1>2, <1>3, <1>5, <1>6 DEF PingInv

\* Every step keeps the invariant.
LEMMA PingStep == ASSUME PingInv, [P!Next]_(P!vars) PROVE PingInv'
<1>0. PingTypeOK /\ SetReads /\ Budget /\ Counted
  BY DEF PingInv
<1>q. pinq \in Seq(0 .. ntransmitted - 1)
  BY <1>0 DEF PingTypeOK
<1>1. CASE P!Start
  <2>1. CASE preload > 0
    BY <1>1, <2>1, PingerStep DEF P!Start, P!counts
  <2>2. CASE ~(preload > 0)
    BY <1>1, <1>q, <2>2, PingQuietStep DEF P!Start, P!counts, InBetween
  <2>3. QED BY <2>1, <2>2
<1>2. CASE P!Onalrm
  <2>1. CASE npackets = 0 \/ ntransmitted < npackets
    BY <1>2, <2>1, PingerStep DEF P!Onalrm, P!counts
  <2>2. CASE ~(npackets = 0 \/ ntransmitted < npackets)
    <3>1. ppc' = ppc /\ UNCHANGED <<prog, ntransmitted, nreceived, nrepeats, rcvd_tbl, byte, icp, panswers, pinq, pflight>>
      BY <1>2, <2>2 DEF P!Onalrm, P!counts
    <3>2. Read' = Read /\ Unset' = Unset /\ InBetween' = InBetween
      BY <3>1 DEF Read, Unset, SentBits, P!Bit, InBetween
    <3>3. PingTypeOK' /\ SetReads' /\ Budget' /\ Counted'
      BY <1>0, <3>1, <3>2 DEF PingTypeOK, SetReads, Budget, Counted, P!Bit
    <3>4. QED BY <3>3 DEF PingInv
  <2>3. QED BY <2>1, <2>2
<1>3. CASE P!Onint
  <2>1. ppc # "exit" /\ ppc' = "exit" /\ UNCHANGED <<prog, ntransmitted, nreceived, nrepeats, rcvd_tbl, byte, icp, panswers, pinq, pflight>>
    BY <1>3 DEF P!Onint, P!counts
  <2>2. Cardinality(Unset) \in Nat
    BY <1>0, TableFinite
  <2>3. nreceived <= ntransmitted + 1
    BY <1>0, <2>1, <2>2 DEF Budget, PingTypeOK
  <2>4. PingTypeOK' /\ SetReads' /\ Budget' /\ Counted'
    BY <1>0, <2>1, <2>3 DEF PingTypeOK, SetReads, Budget, Counted, InBetween
  <2>5. QED BY <2>4 DEF PingInv
<1>4. CASE P!Flood
  BY <1>4, PingerStep DEF P!Flood, P!counts, P!Rest
<1>5. CASE P!Nothing
  BY <1>5, <1>q, PingQuietStep DEF P!Nothing, P!counts, P!Rest, P!Net, InBetween
<1>6. CASE P!Recvfrom
  BY <1>6, PingRecvStep
<1>7. CASE P!Test \/ P!Repeat
  BY <1>7, PingTestStep
<1>8. CASE P!Set
  BY <1>8, PingSetStep
<1>9. CASE P!Enough \/ P!End
  BY <1>9, <1>q, PingQuietStep DEF P!Enough, P!End, P!counts, P!Rest, P!Net, InBetween
<1>10. CASE P!Arrive
  <2>1. PICK n \in pflight : pinq' = Append(pinq, n)
    BY <1>10 DEF P!Arrive
  <2>2. /\ ppc' = ppc /\ UNCHANGED <<prog, ntransmitted, nreceived, nrepeats, rcvd_tbl, byte, icp, panswers>>
        /\ pflight' \subseteq pflight
    BY <1>10 DEF P!Arrive, P!counts
  <2>3. pinq' \in Seq(0 .. ntransmitted - 1)
    BY <1>0, <1>q, <2>1 DEF PingTypeOK
  <2>4. Read' = Read /\ Unset' = Unset /\ InBetween' = InBetween
    BY <2>2 DEF Read, Unset, SentBits, P!Bit, InBetween
  <2>5. PingTypeOK'
    BY <1>0, <2>2, <2>3, <2>4 DEF PingTypeOK
  <2>6. SetReads' /\ Budget' /\ Counted'
    BY <1>0, <2>2, <2>4 DEF SetReads, Budget, Counted, P!Bit
  <2>7. QED BY <2>5, <2>6 DEF PingInv
<1>11. CASE UNCHANGED P!vars
  <2>1. ppc' = ppc /\ UNCHANGED <<prog, ntransmitted, nreceived, nrepeats, rcvd_tbl, byte, icp, panswers, pinq, pflight>>
    BY <1>11 DEF P!vars, P!counts
  <2>2. Read' = Read /\ Unset' = Unset /\ InBetween' = InBetween
    BY <2>1 DEF Read, Unset, SentBits, P!Bit, InBetween
  <2>3. PingTypeOK' /\ SetReads' /\ Budget' /\ Counted'
    BY <1>0, <2>1, <2>2 DEF PingTypeOK, SetReads, Budget, Counted, P!Bit
  <2>4. QED BY <2>3 DEF PingInv
<1>12. QED
  BY <1>1, <1>2, <1>3, <1>4, <1>5, <1>6, <1>7, <1>8, <1>9, <1>10, <1>11 DEF P!Next, P!Main, P!Alarm

\* The invariant of ping holds when it starts.
LEMMA PingStart == ASSUME P!Init PROVE PingInv
<1>1. /\ prog \in {"bsd", "flood", "unp"} /\ ppc = "start" /\ ntransmitted = 0 /\ nreceived = 0
      /\ nrepeats = 0 /\ rcvd_tbl = {} /\ pflight = {} /\ pinq = <<>> /\ panswers = <<>>
  BY DEF P!Init
<1>2. Unset = {} /\ Read = {}
  BY <1>1 DEF Unset, SentBits, Read
<1>3. PingTypeOK
  BY <1>1 DEF PingTypeOK, InBetween
<1>4. SetReads /\ Budget /\ Counted
  BY <1>1, <1>2, FS_EmptySet DEF SetReads, Budget, Counted, InBetween
<1>5. QED BY <1>3, <1>4 DEF PingInv

\* Until the sequence numbers come again every answer is counted once and every
\* further one as a repeat, though the handler clears bits of the byte that SET()
\* has read; and never has more been received than sent, but by one answer that is
\* still to be found a repeat.  For every size of the table and number of packets.
THEOREM PingCountsRight == P!Spec => []PingRight
<1>1. PingInv => P!CountsRight
  <2> SUFFICES ASSUME PingInv, prog # "unp", ntransmitted <= MxDupCk, ppc \in {"recv", "ping", "end"}
               PROVE  nreceived = P!Distinct /\ nrepeats = Len(panswers) - P!Distinct
    BY DEF P!CountsRight
  <2>1. Read = rcvd_tbl /\ nreceived = Cardinality(rcvd_tbl) /\ nrepeats = Len(panswers) - Cardinality(rcvd_tbl)
    BY DEF PingInv, Counted, InBetween
  <2>2. P!Distinct = Cardinality(Read)
    <3>1. P!Distinct = P!Cardinality(Read)
      BY Zenon DEF P!Distinct, Read
    <3>2. QED BY <3>1, SameCardinality
  <2>3. QED BY <2>1, <2>2
<1>2. PingInv => P!NoMoreThanSent
  <2> SUFFICES ASSUME PingInv, nreceived > ntransmitted
               PROVE  ppc \in {"counted", "repeat", "exit"} /\ nreceived = ntransmitted + 1
    BY DEF P!NoMoreThanSent
  <2>0. PingTypeOK /\ SetReads /\ Budget /\ Cardinality(Unset) \in Nat /\ IsFiniteSet(Unset)
    BY TableFinite DEF PingInv
  <2>1. ppc # "set"
    <3> SUFFICES ASSUME ppc = "set" PROVE FALSE
      OBVIOUS
    <3>1. P!Bit(icp) \in Unset
      BY <2>0 DEF Unset, SentBits, SetReads, PingTypeOK, InBetween
    <3>2. Cardinality(Unset) > 0
      BY <2>0, <3>1, FS_EmptySet
    <3>3. QED BY <2>0, <3>2 DEF Budget, InBetween, PingTypeOK
  <2>2. QED BY <2>0, <2>1 DEF Budget, InBetween, PingTypeOK
<1>3. QED BY <1>1, <1>2, PingStart, PingStep, PTL DEF P!Spec, PingRight, P!PingRight

-----------------------------------------------------------------------------
(* The UDP checksum test. *)

\* A timer runs from the alarm() after a query until it has led back to sigsetjmp()
\* or the jump was ruled out.  What was waited and what the timer still has to go
\* are twice the last timeout less the first, as each was twice the one before.
CksumInv ==
  /\ knsent \in 0..MaxQueries /\ timeout \in Nat /\ waited \in Nat /\ ktimer \in Int
  /\ kpc \in {"main", "setjmp", "send", "alarm", "read", "got", "clear", "cleanup", "exit", "failed", "refused", "silent"}
  /\ super => kpc \in {"main", "failed"}
  /\ kpc = "main" => knsent = 0
  /\ kpc \in {"main", "setjmp"} /\ knsent = 0 => waited = 0 /\ timeout = FirstWait
  /\ kpc = "setjmp" /\ knsent > 0 => waited = 2 * timeout - FirstWait
  /\ kpc = "send" => knsent < MaxQueries
  /\ kpc = "alarm" => knsent > 0
  /\ kpc \in {"send", "alarm"} => waited = timeout - FirstWait
  /\ kpc \in {"main", "setjmp", "send", "alarm"} => ktimer = K!None
  /\ kpc \in {"send", "alarm", "read", "got"} => canjump
  /\ kpc = "clear" => ~canjump
  /\ ktimer # K!None => ktimer >= 0 /\ knsent > 0 /\ waited + ktimer = 2 * timeout - FirstWait
  /\ kpc \in {"read", "got"} => knsent > 0
  /\ kpc = "silent" => knsent = MaxQueries /\ waited = 2 * timeout - FirstWait
  /\ kpc \in {"cleanup", "exit"} => stopped \/ printed

\* Every step of the checksum test keeps its invariant.
LEMMA CksumStep == ASSUME CksumInv, [K!Next]_(K!vars) PROVE CksumInv'
<1>0. MaxQueries \in Nat \ {0} /\ FirstWait \in Nat
  BY DatagramsAssumption DEF K!UdpCksumAssumption
<1> USE DEF CksumInv, K!None, K!jump, K!net, K!Step, K!Ended
<1>1. CASE K!Main
  BY <1>0, <1>1 DEF K!Main
<1>2. CASE K!SetJmp
  BY <1>0, <1>2 DEF K!SetJmp
<1>3. CASE K!SendQuery
  BY <1>0, <1>3 DEF K!SendQuery
<1>4. CASE K!Alarm
  BY <1>0, <1>4 DEF K!Alarm
<1>5. CASE K!UdpRead \/ K!ClearJump \/ K!Verdict \/ K!Exit
  BY <1>0, <1>5 DEF K!UdpRead, K!ClearJump, K!Verdict, K!Exit
<1>6. CASE K!SigAlrm
  BY <1>0, <1>6 DEF K!SigAlrm
<1>7. CASE K!SigInt
  BY <1>0, <1>7 DEF K!SigInt
<1>8. CASE K!Tick
  BY <1>0, <1>8 DEF K!Tick, K!Same
<1>9. CASE K!Ask \/ K!Answer \/ K!AnswerOther
  BY <1>0, <1>9 DEF K!Ask, K!Answer, K!AnswerOther, K!Same
<1>10. CASE UNCHANGED K!vars
  BY <1>10 DEF K!vars
<1>11. QED
  BY <1>1, <1>2, <1>3, <1>4, <1>5, <1>6, <1>7, <1>8, <1>9, <1>10 DEF K!Next, K!Program

\* UdpCksumRight: "no response" comes after all queries and all of their timeouts and
\* not before; who exits in peace and was not stopped has printed a verdict; and once
\* the jump is ruled out no alarm takes the answer away.  For any number of queries and
\* any first timeout; a call that fails, or a packet that udp_check() refuses, may end
\* the program at any time, and whose answer the verdict is about is not said.
THEOREM VerdictsRest == K!Spec => UdpCksumRight
<1>0. MaxQueries \in Nat \ {0} /\ FirstWait \in Nat
  BY DatagramsAssumption DEF K!UdpCksumAssumption
<1>1. K!Init => CksumInv
  BY <1>0 DEF K!Init, CksumInv, K!None
<1>2. CksumInv => K!UdpCksumSafe
  BY DEF CksumInv, K!UdpCksumSafe, K!OnlyAfterAll, K!VerdictRight
<1>3. CksumInv /\ [K!Next]_(K!vars) => [kpc = "clear" => kpc' = "cleanup"]_kpc
  <2> SUFFICES ASSUME CksumInv, K!Next, kpc = "clear", kpc' # kpc PROVE kpc' = "cleanup"
    BY DEF K!vars
  <2>1. ~canjump
    BY DEF CksumInv
  <2>2. QED
    BY <2>1 DEF K!Next, K!Program, K!Main, K!SetJmp, K!SendQuery, K!Alarm, K!UdpRead, K!ClearJump,
       K!Verdict, K!Exit, K!SigAlrm, K!SigInt, K!Tick, K!Ask, K!Answer, K!AnswerOther, K!Same, K!Step, K!Ended
<1>4. QED
  BY <1>1, <1>2, <1>3, CksumStep, PTL DEF K!Spec, K!Clears, UdpCksumRight, K!UdpCksumRight

-----------------------------------------------------------------------------
(* traceroute. *)

\* A message is about the probe whose number it bears, or about somebody else's
\* datagram.
About(m, s, f) == m[1] = 0 \/ (m[1] \in 1..s /\ m[2] = f[m[1]])

Under == tpc \in {"check", "recv", "stop", "return"}

\* While a probe is under way the others have been printed.  A probe that reaches
\* the destination has ttl for it, and the loop goes on to another ttl only if
\* none did.
TraceInv ==
  /\ tpc \in {"send", "check", "recv", "stop", "return", "exit"}
  /\ seq \in Nat /\ ttl \in Nat /\ done \in Nat
  /\ fate \in Seq({"lost", "code", "transit", "port"}) /\ Len(fate) = seq
  /\ tshown \in Seq({"none", "timeout", "lost", "code", "transit", "port"})
  /\ Len(tshown) = IF Under THEN seq - 1 ELSE seq
  /\ Under => seq > 0
  /\ \A m \in tflight : About(m, seq, fate)
  /\ tinq \in Seq(Nat \X {"code", "transit", "port"}) /\ \A k \in 1..Len(tinq) : About(tinq[k], seq, fate)
  /\ tflight \subseteq Nat \X {"code", "transit", "port"}
  /\ ret \in {"none", "timeout", "lost", "code", "transit", "port"}
  /\ version = 4 =>
       /\ tpc = "stop" => ret = fate[seq]
       /\ tpc = "return" => ret \in {"timeout", fate[seq]}
       /\ Under /\ fate[seq] = "port" => ttl >= Hops
       /\ done > 0 => ttl >= Hops
       /\ tpc = "exit" => ttl > MaxTtl \/ (done > 0 /\ ttl > Hops)
       /\ \A s \in 1..Len(tshown) : tshown[s] \in {"timeout", fate[s]}

\* Every step of traceroute keeps its invariant.
LEMMA TraceStep == ASSUME TraceInv, [T!Next]_(T!vars) PROVE TraceInv'
<1>0. MaxTtl \in Nat /\ Hops \in Nat
  BY DatagramsAssumption DEF T!TracerouteAssumption
<1> DEFINE Kinds == {"code", "transit", "port"}
           Fate == {"lost", "code", "transit", "port"}
<1>1. CASE T!Send
  <2>1. PICK f \in T!Fates(ttl) :
          /\ fate' = Append(fate, f)
          /\ tflight' = IF f = "lost" THEN tflight ELSE tflight \cup {<<seq', f>>}
    BY <1>1 DEF T!Send
  <2>2. f \in Fate /\ (f = "port" => ttl >= Hops)
    BY <1>0 DEF T!Fates, TraceInv
  <2>3. /\ tpc = "send" /\ tpc' = "check" /\ seq' = seq + 1
        /\ UNCHANGED <<version, ttl, probe, done, tshown, ret, tinq, nforeign>>
    BY <1>1 DEF T!Send
  <2>4. /\ fate' \in Seq(Fate) /\ Len(fate') = seq' /\ seq' \in Nat /\ seq' > 0 /\ fate'[seq'] = f
        /\ \A k \in 1..seq : fate'[k] = fate[k]
    BY <2>1, <2>2, <2>3, SeqFacts DEF TraceInv
  <2>5. \A m : About(m, seq, fate) => About(m, seq', fate')
    BY <2>3, <2>4 DEF About, TraceInv
  <2>6. About(<<seq', f>>, seq', fate')
    BY <2>3, <2>4 DEF About
  <2>7. tflight' \subseteq Nat \X Kinds /\ \A m \in tflight' : About(m, seq', fate')
    <3>1. CASE f = "lost"
      BY <2>1, <2>5, <3>1 DEF TraceInv
    <3>2. CASE f # "lost"
      <4>1. <<seq', f>> \in Nat \X Kinds
        BY <2>2, <2>4, <3>2
      <4>2. tflight' = tflight \cup {<<seq', f>>}
        BY <2>1, <3>2
      <4>3. QED BY <2>5, <2>6, <4>1, <4>2 DEF TraceInv
    <3>3. QED BY <3>1, <3>2
  <2>8. \A k \in 1..Len(tinq') : About(tinq'[k], seq', fate')
    BY <2>3, <2>5 DEF TraceInv
  <2>9. Under' /\ ~Under /\ Len(tshown') = seq' - 1
    BY <2>3 DEF Under, TraceInv
  <2>10. version' = 4 => \A s \in 1..Len(tshown') : tshown'[s] \in {"timeout", fate'[s]}
    BY <2>3, <2>4, <2>9 DEF TraceInv
  <2>11. QED BY <2>2, <2>3, <2>4, <2>7, <2>8, <2>9, <2>10 DEF TraceInv
<1>2. CASE T!Check
  BY <1>2 DEF T!Check, T!loop, TraceInv, Under, About
<1>3. ASSUME tpc = "recv", tinq # <<>>, tinq' = Tail(tinq),
             tpc' \in {"stop", "check"},
             ret' \in {"none", "timeout", "lost", "code", "transit", "port"},
             version = 4 /\ tpc' = "stop" => T!Matches(Head(tinq)) /\ ret' = Head(tinq)[2],
             UNCHANGED <<version, ttl, probe, done, seq, tshown, fate, tflight>>
      PROVE  TraceInv'
  <2>1. /\ Head(tinq) = tinq[1] /\ 1 \in 1..Len(tinq) /\ Tail(tinq) \in Seq(Nat \X Kinds)
        /\ Len(tinq') = Len(tinq) - 1 /\ Len(tinq) \in Nat
        /\ \A k \in 1..Len(tinq') : k + 1 \in 1..Len(tinq) /\ tinq'[k] = tinq[k + 1]
    BY <1>3, SeqFacts DEF TraceInv
  <2>2. \A m : About(m, seq', fate') <=> About(m, seq, fate)
    BY <1>3 DEF About
  <2>3. \A k \in 1..Len(tinq') : About(tinq'[k], seq', fate')
    BY <2>1, <2>2 DEF TraceInv
  <2>4. version = 4 /\ tpc' = "stop" => ret' = fate[seq]
    <3>1. About(tinq[1], seq, fate) /\ seq > 0
      BY <1>3, <2>1 DEF TraceInv, Under
    <3>2. version = 4 /\ tpc' = "stop" => tinq[1][1] = seq /\ ret' = tinq[1][2]
      BY <1>3, <2>1 DEF T!Matches
    <3>3. QED BY <3>1, <3>2 DEF About, TraceInv
  <2>5. Under /\ Under'
    BY <1>3 DEF Under
  <2>6. QED BY <1>3, <2>1, <2>2, <2>3, <2>4, <2>5 DEF TraceInv
<1>4. CASE T!RecvV4 \/ T!RecvV6
  <2>1. Head(tinq) \in Nat \X Kinds \/ tinq = <<>>
    BY DEF TraceInv
  <2>2. CASE T!RecvV4
    BY <1>3, <2>1, <2>2 DEF T!RecvV4, T!loop, TraceInv
  <2>3. CASE T!RecvV6
    BY <1>3, <2>1, <2>3 DEF T!RecvV6, T!loop, TraceInv
  <2>4. QED BY <1>4, <2>2, <2>3
<1>5. CASE T!Stop
  BY <1>5 DEF T!Stop, T!loop, TraceInv, Under, About
<1>6. CASE T!Return
  <2>1. /\ tpc = "return" /\ tshown' = Append(tshown, ret) /\ ret' = "none"
        /\ done' = IF ret = "port" THEN done + 1 ELSE done
        /\ UNCHANGED <<version, seq, fate, tflight, tinq>>
        /\ \/ ttl' = ttl /\ tpc' = "send"
           \/ ttl' = ttl + 1 /\ tpc' = IF ttl' <= MaxTtl /\ done' = 0 THEN "send" ELSE "exit"
    BY <1>6 DEF T!Return
  <2>2. Under /\ ~Under' /\ Len(tshown) = seq - 1 /\ seq > 0 /\ seq \in Nat /\ ttl \in Nat /\ done \in Nat
    BY <2>1 DEF Under, TraceInv
  <2>3. /\ tshown' \in Seq({"none", "timeout", "lost", "code", "transit", "port"})
        /\ Len(tshown') = seq /\ tshown'[seq] = ret
        /\ \A s \in 1..Len(tshown) : tshown'[s] = tshown[s]
    BY <2>1, <2>2, SeqFacts DEF TraceInv
  <2>4. version = 4 => \A s \in 1..Len(tshown') : tshown'[s] \in {"timeout", fate'[s]}
    BY <2>1, <2>2, <2>3 DEF TraceInv
  <2>5. \A m : About(m, seq', fate') <=> About(m, seq, fate)
    BY <2>1 DEF About
  <2>6. version = 4 /\ done' > 0 => ttl >= Hops
    BY <2>1, <2>2 DEF TraceInv
  <2>7. done' \in Nat /\ ttl' \in Nat
    BY <2>1, <2>2
  <2>8. version = 4 => /\ done' > 0 => ttl' >= Hops
                       /\ tpc' = "exit" => ttl' > MaxTtl \/ (done' > 0 /\ ttl' > Hops)
    BY <1>0, <2>1, <2>2, <2>6, <2>7
  <2>9. QED BY <2>1, <2>2, <2>3, <2>4, <2>5, <2>7, <2>8 DEF TraceInv
<1>7. CASE T!Expire
  <2>1. /\ UNCHANGED <<version, ttl, probe, done, seq, tshown, fate, ret, tflight, tinq>>
        /\ tpc' = tpc \/ (tpc = "recv" /\ tpc' = "check")
    BY <1>7 DEF T!Expire, T!loop
  <2>2. CASE tpc' = tpc
    BY <2>1, <2>2 DEF TraceInv, Under, About
  <2>3. CASE tpc = "recv" /\ tpc' = "check"
    BY <2>1, <2>3 DEF TraceInv, Under, About
  <2>4. QED BY <2>1, <2>2, <2>3
<1>8. ASSUME NEW m, m \in Nat \X Kinds, About(m, seq, fate), tinq' = Append(tinq, m), tflight' \subseteq tflight,
             UNCHANGED <<version, tpc, ttl, probe, done, seq, tshown, fate, ret>>
      PROVE  TraceInv'
  <2>1. /\ tinq' \in Seq(Nat \X Kinds) /\ Len(tinq') = Len(tinq) + 1 /\ Len(tinq) \in Nat
        /\ \A k \in 1..Len(tinq) : tinq'[k] = tinq[k]
        /\ tinq'[Len(tinq) + 1] = m
    BY <1>8, SeqFacts DEF TraceInv
  <2>2. \A n : About(n, seq', fate') <=> About(n, seq, fate)
    BY <1>8 DEF About
  <2>3. \A k \in 1..Len(tinq') : About(tinq'[k], seq', fate')
    BY <1>8, <2>1, <2>2 DEF TraceInv
  <2>4. Under' <=> Under
    BY <1>8 DEF Under
  <2>5. QED BY <1>8, <2>1, <2>2, <2>3, <2>4 DEF TraceInv
<1>9. CASE T!Arrive
  <2>1. PICK m \in tflight : tflight' = tflight \ {m} /\ tinq' = Append(tinq, m)
    BY <1>9 DEF T!Arrive
  <2>2. m \in Nat \X Kinds /\ About(m, seq, fate)
    BY DEF TraceInv
  <2>3. QED BY <1>8, <1>9, <2>1, <2>2 DEF T!Arrive, T!loop
<1>10. CASE T!Foreign
  <2>1. PICK k \in {"transit", "code"} : tinq' = Append(tinq, <<0, k>>)
    BY <1>10 DEF T!Foreign
  <2>2. <<0, k>> \in Nat \X Kinds /\ About(<<0, k>>, seq, fate)
    BY DEF About
  <2>3. QED BY <1>8, <1>10, <2>1, <2>2 DEF T!Foreign, T!loop
<1>11. CASE UNCHANGED T!vars
  BY <1>11 DEF T!vars, T!loop, TraceInv, Under, About
<1>12. QED
  BY <1>1, <1>2, <1>4, <1>5, <1>6, <1>7, <1>9, <1>10, <1>11 DEF T!Next, T!Program

\* Over IPv4 the result printed for a probe is that of this probe, or a timeout,
\* however late and in whatever order messages come; and a trace that ends early has
\* come as far as the destination.  For any distance and number of probes.
THEOREM ResultsAreOwn == T!Spec => []TraceRight
<1>1. T!Init => TraceInv
  BY DEF T!Init, TraceInv, Under
<1>2. TraceInv => T!OwnResult
  BY DEF TraceInv, T!OwnResult, T!Own
<1>3. TraceInv => T!EndsThere
  BY DatagramsAssumption DEF TraceInv, T!EndsThere, T!TracerouteAssumption
<1>4. QED BY <1>1, <1>2, <1>3, TraceStep, PTL DEF T!Spec, TraceRight, T!TraceRight

-----------------------------------------------------------------------------
(* UDP echo without retransmission. *)

Reply == Nat \X {1, 2, 4}
Apart == eserv.binds = <<1, 2, 3>>

DgTypeOK ==
  /\ eserv.binds \in {<<3>>, <<1, 2, 3>>} /\ asks \in {1, 2}
  /\ bound \in 0 .. Len(eserv.binds) /\ alive \subseteq {eserv.binds[k] : k \in 1..bound}
  /\ queue \in [{1, 2, 3} -> Seq(Nat)] /\ eup \subseteq Nat
  /\ edown \subseteq Nat \X {1, 2} /\ inbox \in Seq(Reply) /\ eshown \in Seq(Reply \X Nat)
  /\ line \in Nat /\ passed \in Nat /\ odd \in Nat
  /\ epc \in {"type", "wait", "exit", "dead"} /\ (epc = "wait" => ecli.waits)
  /\ ecli.takes \in {"any", "checked", "connected"}

\* Nothing is about a line that has not been sent; a connected socket has replies
\* from its peer only.
Sent ==
  /\ \A m \in eup : m <= line
  /\ \A s \in {1, 2, 3} : \A k \in 1..Len(queue[s]) : queue[s][k] <= line
  /\ \A r \in edown : r[1] <= line
  /\ \A k \in 1..Len(inbox) : inbox[k][1] <= line /\ (ecli.takes = "connected" => inbox[k][2] = asks)

\* A client that waits for each reply has one line on its way at most, which is
\* the last, and none while it asks for the next one.
Nowhere == eup = {} /\ (\A s \in {1, 2, 3} : queue[s] = <<>>) /\ edown = {} /\ inbox = <<>>
Lone ==
  ecli.waits /\ odd = 0 =>
    \/ Nowhere
    \/ /\ epc \in {"wait", "dead"}
       /\ \/ eup = {line} /\ (\A s \in {1, 2, 3} : queue[s] = <<>>) /\ edown = {} /\ inbox = <<>>
          \/ eup = {} /\ edown = {} /\ inbox = <<>> /\ \E s \in {1, 2, 3} :
               queue[s] = <<line>> /\ \A t \in {1, 2, 3} \ {s} : queue[t] = <<>>
          \/ eup = {} /\ (\A s \in {1, 2, 3} : queue[s] = <<>>) /\ inbox = <<>>
             /\ \E a \in {1, 2} : edown = {<<line, a>>}
          \/ eup = {} /\ (\A s \in {1, 2, 3} : queue[s] = <<>>) /\ edown = {}
             /\ \E a \in {1, 2} : inbox = <<<<line, a>>>>

\* With a socket for each address no datagram comes to the wildcard's, and replies
\* come from the address that was asked.
OwnSocket ==
  Apart => /\ \A s \in {1, 2, 3} : s # asks => queue[s] = <<>>
           /\ \A r \in edown : r[2] = asks

\* So only a stranger's datagrams are passed over.
StrangeIn(q, a) == {k \in 1..Len(q) : q[k][2] # a}
FewPassed == Apart => passed + Cardinality(StrangeIn(inbox, asks)) <= odd

\* An error is pending only where nobody was found.
Told ==
  /\ refused => ecli.takes = "connected" /\ nobody # "never"
  /\ nobody = "gone" => E!Ready
  /\ E!Refused

DgInv == DgTypeOK /\ Sent /\ Lone /\ OwnSocket /\ FewPassed /\ Told /\ E!InStep

\* The order in which the sockets are bound.
LEMMA OrderIs ==
  ASSUME DgTypeOK
  PROVE  /\ ~Apart => eserv.binds = <<3>> /\ Len(eserv.binds) = 1 /\ E!Order(3) = 1
         /\ Apart => /\ Len(eserv.binds) = 3
                     /\ E!Order(1) = 1 /\ E!Order(2) = 2 /\ E!Order(3) = 3
         /\ \A c \in alive : E!Order(c) \in 1..bound /\ eserv.binds[E!Order(c)] = c
<1>1. CASE ~Apart
  <2>1. eserv.binds = <<3>>
    BY <1>1 DEF DgTypeOK, Apart
  <2>2. DOMAIN eserv.binds = {1} /\ Len(eserv.binds) = 1 /\ eserv.binds[1] = 3
    BY <2>1
  <2>3. E!Order(3) = 1
    BY <2>2 DEF E!Order
  <2>4. alive \subseteq {3} /\ (alive # {} => bound = 1)
    BY <2>2 DEF DgTypeOK
  <2>5. QED BY <1>1, <2>1, <2>2, <2>3, <2>4 DEF DgTypeOK
<1>2. CASE Apart
  <2>1. /\ DOMAIN eserv.binds = {1, 2, 3} /\ Len(eserv.binds) = 3
        /\ eserv.binds[1] = 1 /\ eserv.binds[2] = 2 /\ eserv.binds[3] = 3
    BY <1>2 DEF Apart
  <2>2. E!Order(1) = 1 /\ E!Order(2) = 2 /\ E!Order(3) = 3
    BY <2>1 DEF E!Order
  <2>3. \A c \in alive : c \in 1..bound
    BY <2>1 DEF DgTypeOK
  <2>4. bound \in 0..3
    BY <2>1 DEF DgTypeOK
  <2>5. QED BY <1>2, <2>1, <2>2, <2>3, <2>4
<1>3. QED BY <1>1, <1>2

\* Where a datagram goes.
LEMMA SocketIs ==
  ASSUME DgTypeOK
  PROVE  /\ E!SocketOf(asks) \subseteq {1, 2, 3}
         /\ Apart => E!SocketOf(asks) \subseteq {asks}
         /\ E!SocketOf(asks) = {} /\ E!Ready =>
              \A c \in alive : E!Order(c) < E!Order(IF Len(eserv.binds) = 1 THEN 3 ELSE asks)
<1>0. E!Wild = 3 /\ asks \in {1, 2}
  BY DEF E!Wild, DgTypeOK
<1>1. E!SocketOf(asks) \subseteq {asks, 3}
  BY <1>0 DEF E!SocketOf
<1>2. CASE ~Apart
  <2>1. /\ eserv.binds = <<3>> /\ E!Order(3) = 1
        /\ Len(eserv.binds) = 1 /\ \A c \in alive : E!Order(c) \in 1..bound
    BY <1>2, OrderIs
  <2>2. ASSUME E!SocketOf(asks) = {}, E!Ready, NEW c \in alive PROVE E!Order(c) < E!Order(3)
    <3>1. bound = 1
      BY <2>1, <2>2 DEF E!Ready
    <3>2. 3 \in {eserv.binds[k] : k \in 1..bound}
      BY <2>1, <3>1
    <3>3. ~E!IsOpen(3)
      BY <1>0, <2>2, <3>2 DEF E!SocketOf
    <3>4. ~(E!Order(3) <= E!Order(c))
      BY <3>3 DEF E!IsOpen
    <3>5. QED BY <2>1, <3>1, <3>4
  <2>3. QED BY <1>0, <1>1, <1>2, <2>1, <2>2
<1>3. CASE Apart
  <2>1. /\ Len(eserv.binds) = 3 /\ E!Order(1) = 1 /\ E!Order(2) = 2 /\ E!Order(3) = 3
        /\ \A c \in alive : E!Order(c) \in 1..bound
        /\ eserv.binds = <<1, 2, 3>> /\ bound \in 0..3
    BY <1>3, OrderIs DEF Apart, DgTypeOK
  <2>2. \A s \in {1, 2, 3} : s \in {eserv.binds[k] : k \in 1..bound} <=> s <= bound
    BY <2>1
  <2>3. E!Ready <=> bound = 3
    BY <2>1 DEF E!Ready
  <2>4. 3 <= bound /\ E!IsOpen(3) => asks <= bound /\ E!IsOpen(asks)
    BY <1>0, <2>1, <2>3 DEF E!IsOpen
  <2>5. asks <= bound /\ E!IsOpen(asks) => E!SocketOf(asks) = {asks}
    BY <1>0, <2>2 DEF E!SocketOf
  <2>6. ~(asks <= bound /\ E!IsOpen(asks)) => E!SocketOf(asks) = {}
    BY <1>0, <2>2, <2>4 DEF E!SocketOf
  <2>7. ASSUME E!SocketOf(asks) = {}, E!Ready, NEW c \in alive PROVE E!Order(c) < E!Order(asks)
    <3>1. ~E!IsOpen(asks)
      BY <1>0, <2>3, <2>5, <2>7
    <3>2. ~(E!Order(asks) <= E!Order(c))
      BY <3>1 DEF E!IsOpen
    <3>3. QED BY <1>0, <2>1, <3>2
  <2>8. QED BY <1>0, <1>1, <1>3, <2>1, <2>5, <2>6, <2>7
<1>4. QED BY <1>2, <1>3

\* The strange replies among some are finitely many.
LEMMA StrangeFinite ==
  ASSUME NEW q \in Seq(Reply), NEW a
  PROVE  /\ IsFiniteSet(StrangeIn(q, a)) /\ Cardinality(StrangeIn(q, a)) \in Nat
         /\ StrangeIn(q, a) \subseteq 1..Len(q)
<1>1. IsFiniteSet(1..Len(q))
  BY FS_Interval
<1>2. StrangeIn(q, a) \subseteq 1..Len(q)
  BY DEF StrangeIn
<1>3. QED BY <1>1, <1>2, FS_Subset, FS_CardinalityType

\* When the first of them is taken they become no more, and fewer if it was strange.
LEMMA StrangeTail ==
  ASSUME NEW q \in Seq(Reply), q # <<>>, NEW a
  PROVE  /\ Cardinality(StrangeIn(Tail(q), a)) <= Cardinality(StrangeIn(q, a))
         /\ q[1][2] # a => Cardinality(StrangeIn(Tail(q), a)) + 1 <= Cardinality(StrangeIn(q, a))
<1> DEFINE Dom == StrangeIn(Tail(q), a)
           Img == StrangeIn(q, a)
           f == [k \in Dom |-> k + 1]
<1>1. /\ Len(q) \in Nat \ {0} /\ Len(Tail(q)) = Len(q) - 1 /\ Tail(q) \in Seq(Reply)
      /\ \A k \in 1..Len(Tail(q)) : Tail(q)[k] = q[k + 1]
  BY SeqFacts
<1>2. /\ IsFiniteSet(Dom) /\ Cardinality(Dom) \in Nat /\ Dom \subseteq 1..Len(Tail(q))
      /\ IsFiniteSet(Img) /\ Cardinality(Img) \in Nat
  BY <1>1, StrangeFinite
<1>3. \A k \in Dom : k \in Nat /\ k + 1 \in Img \ {1}
  BY <1>1 DEF StrangeIn
<1>4. f \in [Dom -> Img \ {1}] /\ \A x, y \in Dom : f[x] = f[y] => x = y
  BY <1>3
<1>5. IsFiniteSet(Img \ {1}) /\ Cardinality(Img \ {1}) = IF 1 \in Img THEN Cardinality(Img) - 1 ELSE Cardinality(Img)
  BY <1>2, FS_RemoveElement, Zenon
<1>6. f \in Injection(Dom, Img \ {1})
  BY <1>4 DEF Injection, IsInjective
<1> HIDE DEF f, Dom, Img
<1>7. Cardinality(Dom) <= Cardinality(Img \ {1})
  BY <1>5, <1>6, FS_Injection
<1>8. q[1][2] # a => 1 \in Img
  BY <1>1 DEF StrangeIn, Img
<1>9. /\ Cardinality(Dom) <= Cardinality(Img)
      /\ q[1][2] # a => Cardinality(Dom) + 1 <= Cardinality(Img)
  BY <1>2, <1>5, <1>7, <1>8
<1>10. QED BY <1>9 DEF Dom, Img

\* One more reply makes them one more, if it is strange.
LEMMA StrangeAppend ==
  ASSUME NEW q \in Seq(Reply), NEW x \in Reply, NEW a
  PROVE  /\ Cardinality(StrangeIn(Append(q, x), a)) <= Cardinality(StrangeIn(q, a)) + 1
         /\ x[2] = a => Cardinality(StrangeIn(Append(q, x), a)) = Cardinality(StrangeIn(q, a))
<1> DEFINE n == Len(q) + 1
           Dom == StrangeIn(Append(q, x), a)
           Img == StrangeIn(q, a)
<1>1. /\ Len(q) \in Nat /\ Len(Append(q, x)) = n /\ Append(q, x)[n] = x
      /\ \A k \in 1..Len(q) : Append(q, x)[k] = q[k]
      /\ 1..n = (1..Len(q)) \cup {n}
  BY SeqFacts
<1>2. IsFiniteSet(Img) /\ Cardinality(Img) \in Nat
  BY StrangeFinite
<1>3. Dom \subseteq Img \cup {n} /\ (x[2] = a => Dom = Img)
  BY <1>1 DEF StrangeIn
<1> HIDE DEF Dom, Img, n
<1>4. IsFiniteSet(Img \cup {n}) /\ Cardinality(Img \cup {n}) = IF n \in Img THEN Cardinality(Img) ELSE Cardinality(Img) + 1
  BY <1>2, FS_AddElement, Zenon
<1>5. Cardinality(Dom) \in Nat /\ Cardinality(Dom) <= Cardinality(Img \cup {n})
  BY <1>3, <1>4, FS_Subset, FS_CardinalityType
<1>6. Cardinality(Dom) <= Cardinality(Img) + 1 /\ (x[2] = a => Cardinality(Dom) = Cardinality(Img))
  BY <1>2, <1>3, <1>4, <1>5
<1>7. QED BY <1>6 DEF Dom, Img

\* A socket is bound and gets its child, or one is killed.
LEMMA DgServersStep ==
  ASSUME DgInv, E!Bind \/ \E s \in E!Sockets : E!Kill(s)
  PROVE  DgInv'
<1>0. DgTypeOK /\ Sent /\ Lone /\ OwnSocket /\ FewPassed /\ Told /\ E!InStep
  BY DEF DgInv
<1>1. /\ UNCHANGED <<eserv, ecli, asks, queue, eup, edown, inbox, refused, epc, line, eshown, passed, nobody, odd>>
      /\ \/ ~E!Ready /\ bound' = bound + 1 /\ alive' = alive \cup {eserv.binds[bound + 1]}
         \/ bound' = bound /\ alive' \subseteq alive
  BY DEF E!Bind, E!Kill, E!conf, E!client
<1>2. /\ Sent' /\ Lone' /\ OwnSocket' /\ FewPassed' /\ E!InStep'
  BY <1>0, <1>1 DEF Sent, Lone, Nowhere, OwnSocket, Apart, FewPassed, E!InStep
<1>3. DgTypeOK'
  <2>1. CASE ~E!Ready /\ bound' = bound + 1 /\ alive' = alive \cup {eserv.binds[bound + 1]}
    <3>1. Len(eserv.binds) \in {1, 3} /\ bound' \in 0 .. Len(eserv.binds) /\ bound \in Nat
      BY <1>0, <2>1, OrderIs DEF DgTypeOK, E!Ready
    <3>2. 1..bound' = (1..bound) \cup {bound + 1}
      BY <2>1, <3>1
    <3>3. alive' \subseteq {eserv'.binds[k] : k \in 1..bound'}
      BY <1>0, <1>1, <2>1, <3>2 DEF DgTypeOK
    <3>4. QED BY <1>0, <1>1, <3>1, <3>3 DEF DgTypeOK
  <2>2. CASE bound' = bound /\ alive' \subseteq alive
    <3>1. {eserv'.binds[k] : k \in 1..bound'} = {eserv.binds[k] : k \in 1..bound}
      BY <1>1, <2>2
    <3>2. alive' \subseteq {eserv'.binds[k] : k \in 1..bound'} /\ bound' \in 0 .. Len(eserv'.binds)
      BY <1>0, <1>1, <2>2, <3>1 DEF DgTypeOK
    <3>3. QED BY <1>0, <1>1, <3>2 DEF DgTypeOK
  <2>3. QED BY <1>1, <2>1, <2>2
<1>4. Told'
  <2>1. \A c : E!Order(c)' = E!Order(c)
    BY <1>1 DEF E!Order
  <2>2. nobody = "gone" => E!Ready' /\ alive' \subseteq alive
    BY <1>0, <1>1 DEF Told, E!Ready
  <2>3. QED BY <1>0, <1>1, <2>1, <2>2 DEF Told, E!Refused, E!Wild
<1>5. QED BY <1>2, <1>3, <1>4 DEF DgInv

\* A server takes a datagram from its socket and may answer.
LEMMA DgServeStep ==
  ASSUME DgInv, NEW s \in E!Sockets, E!Serve(s)
  PROVE  DgInv'
<1>0. DgTypeOK /\ Sent /\ Lone /\ OwnSocket /\ FewPassed /\ Told /\ E!InStep
  BY DEF DgInv
<1>1. /\ s \in {1, 2, 3} /\ queue[s] # <<>> /\ queue' = [queue EXCEPT ![s] = Tail(@)]
      /\ UNCHANGED <<eserv, ecli, asks, bound, eup, inbox, refused, epc, line, eshown, passed, nobody, odd>>
      /\ alive' \subseteq alive
      /\ \/ edown' = edown
         \/ \E a \in E!Source(s) : edown' = edown \cup {<<Head(queue[s]), a>>}
  BY DEF E!Serve, E!Sockets, E!Addrs, E!Wild, E!conf, E!client
<1>2. /\ queue[s] \in Seq(Nat) /\ Tail(queue[s]) \in Seq(Nat) /\ Head(queue[s]) = queue[s][1]
      /\ Head(queue[s]) \in Nat /\ Len(queue[s]) \in Nat /\ Len(Tail(queue[s])) = Len(queue[s]) - 1
      /\ \A k \in 1..Len(Tail(queue[s])) : Tail(queue[s])[k] = queue[s][k + 1]
      /\ queue' \in [{1, 2, 3} -> Seq(Nat)] /\ queue'[s] = Tail(queue[s])
      /\ \A t \in {1, 2, 3} \ {s} : queue'[t] = queue[t]
  <2>1. queue \in [{1, 2, 3} -> Seq(Nat)] /\ queue[s] \in Seq(Nat) /\ 0 \in Nat
    BY <1>0, <1>1 DEF DgTypeOK
  <2>2. /\ Tail(queue[s]) \in Seq(Nat) /\ Head(queue[s]) = queue[s][1]
        /\ Head(queue[s]) \in Nat /\ Len(queue[s]) \in Nat /\ Len(Tail(queue[s])) = Len(queue[s]) - 1
        /\ \A k \in 1..Len(Tail(queue[s])) : Tail(queue[s])[k] = queue[s][k + 1]
    BY <1>1, <2>1, SeqFacts
  <2>3. QED BY <1>1, <2>1, <2>2
<1> DEFINE h == Head(queue[s])
<1>3. E!Source(s) \subseteq {1, 2} /\ (s # 3 => E!Source(s) = {s})
  BY <1>1 DEF E!Source, E!Wild, E!Addrs
<1>4. edown' = edown \/ \E a \in {1, 2} : edown' = edown \cup {<<h, a>>} /\ (s # 3 => a = s)
  BY <1>1, <1>3
<1>5. DgTypeOK'
  <2>1. edown' \subseteq Nat \X {1, 2}
    BY SMTT(30), <1>0, <1>2, <1>4 DEF DgTypeOK
  <2>2. alive' \subseteq {eserv'.binds[k] : k \in 1..bound'}
    BY <1>0, <1>1 DEF DgTypeOK
  <2>3. QED BY <1>0, <1>1, <1>2, <2>1, <2>2 DEF DgTypeOK
<1>6. h <= line
  BY <1>0, <1>1, <1>2 DEF Sent
<1>7. Sent'
  <2>1. \A t \in {1, 2, 3} : \A k \in 1..Len(queue'[t]) : queue'[t][k] <= line
    BY <1>0, <1>1, <1>2 DEF Sent
  <2>2. \A r \in edown' : r[1] <= line
    BY <1>0, <1>4, <1>6 DEF Sent
  <2>3. QED BY <1>0, <1>1, <2>1, <2>2 DEF Sent
<1>8. OwnSocket'
  <2> SUFFICES ASSUME Apart PROVE OwnSocket'
    BY <1>1 DEF OwnSocket, Apart
  <2>1. s = asks /\ s # 3
    BY <1>0, <1>1 DEF OwnSocket, DgTypeOK
  <2>2. \A r \in edown' : r[2] = asks
    BY <1>0, <1>4, <2>1 DEF OwnSocket
  <2>3. QED BY <1>0, <1>1, <1>2, <2>1, <2>2 DEF OwnSocket
<1>9. FewPassed' /\ E!InStep'
  BY <1>0, <1>1 DEF FewPassed, StrangeIn, Apart, E!InStep
<1>10. Told'
  <2>1. \A c : E!Order(c)' = E!Order(c)
    BY <1>1 DEF E!Order
  <2>2. E!Ready' = E!Ready
    BY <1>1 DEF E!Ready
  <2>3. QED BY <1>0, <1>1, <2>1, <2>2 DEF Told, E!Refused, E!Wild
<1>11. Lone'
  <2> SUFFICES ASSUME ecli.waits, odd = 0 PROVE Lone'
    BY <1>1 DEF Lone
  <2>1. /\ eup = {} /\ edown = {} /\ inbox = <<>> /\ epc \in {"wait", "dead"}
        /\ queue[s] = <<line>> /\ \A t \in {1, 2, 3} \ {s} : queue[t] = <<>>
    BY <1>0, <1>1 DEF Lone, Nowhere
  <2>2. h = line /\ \A t \in {1, 2, 3} : queue'[t] = <<>>
    BY <1>1, <1>2, <2>1
  <2>3. edown' = {} \/ \E a \in {1, 2} : edown' = {<<line, a>>}
    BY <1>4, <2>1, <2>2
  <2>4. QED BY <1>1, <2>1, <2>2, <2>3 DEF Lone, Nowhere
<1>12. QED BY <1>5, <1>7, <1>8, <1>9, <1>10, <1>11 DEF DgInv

\* A datagram comes to a socket, where there is one and it has room.
LEMMA DgArriveStep ==
  ASSUME DgInv, NEW m \in eup, E!Arrive(m)
  PROVE  DgInv'
<1>0. DgTypeOK /\ Sent /\ Lone /\ OwnSocket /\ FewPassed /\ Told /\ E!InStep
  BY DEF DgInv
<1>1. /\ eup' = eup \ {m}
      /\ UNCHANGED <<eserv, ecli, asks, bound, alive, edown, inbox, epc, line, eshown, passed, odd>>
      /\ \/ /\ E!SocketOf(asks) = {} /\ queue' = queue /\ refused' = (ecli.takes = "connected")
            /\ nobody' = (IF E!Ready THEN "gone" ELSE "starting")
         \/ nobody' = nobody /\ refused' = refused /\ queue' = queue
         \/ /\ nobody' = nobody /\ refused' = refused
            /\ \E s \in E!SocketOf(asks) : queue' = [queue EXCEPT ![s] = Append(@, m)]
  BY DEF E!Arrive, E!conf
<1>2. m \in Nat /\ m <= line
  BY <1>0 DEF DgTypeOK, Sent
<1>3. ASSUME NEW s \in E!SocketOf(asks), queue' = [queue EXCEPT ![s] = Append(@, m)]
      PROVE  /\ s \in {1, 2, 3} /\ queue' \in [{1, 2, 3} -> Seq(Nat)]
             /\ \A t \in {1, 2, 3} \ {s} : queue'[t] = queue[t]
             /\ queue'[s] = Append(queue[s], m) /\ (Apart => s = asks)
             /\ \A k \in 1..Len(queue'[s]) : queue'[s][k] <= line
  <2>1. s \in {1, 2, 3} /\ (Apart => s = asks)
    BY <1>0, SocketIs
  <2>2. /\ queue[s] \in Seq(Nat) /\ Append(queue[s], m) \in Seq(Nat) /\ Len(queue[s]) \in Nat
        /\ Len(Append(queue[s], m)) = Len(queue[s]) + 1 /\ Append(queue[s], m)[Len(queue[s]) + 1] = m
        /\ \A k \in 1..Len(queue[s]) : Append(queue[s], m)[k] = queue[s][k]
    BY <1>0, <1>2, <2>1, SeqFacts DEF DgTypeOK
  <2>3. /\ queue'[s] = Append(queue[s], m) /\ queue' \in [{1, 2, 3} -> Seq(Nat)]
        /\ \A t \in {1, 2, 3} \ {s} : queue'[t] = queue[t]
    BY <1>0, <1>3, <2>1, <2>2 DEF DgTypeOK
  <2>4. \A k \in 1..Len(queue[s]) : queue[s][k] <= line
    BY <1>0, <2>1 DEF Sent
  <2>5. \A k \in 1..Len(queue'[s]) : queue'[s][k] <= line
    BY <1>2, <2>2, <2>3, <2>4
  <2>6. QED BY <2>1, <2>3, <2>5
<1>4. queue' \in [{1, 2, 3} -> Seq(Nat)] /\ \A t \in {1, 2, 3} : \A k \in 1..Len(queue'[t]) : queue'[t][k] <= line
  BY <1>0, <1>1, <1>3 DEF DgTypeOK, Sent
<1>5. DgTypeOK'
  <2>1. alive' \subseteq {eserv'.binds[k] : k \in 1..bound'} /\ eup' \subseteq Nat
    BY <1>0, <1>1 DEF DgTypeOK
  <2>2. QED BY <1>0, <1>1, <1>4, <2>1 DEF DgTypeOK
<1>6. Sent'
  BY <1>0, <1>1, <1>4 DEF Sent
<1>7. OwnSocket'
  BY <1>0, <1>1, <1>3 DEF OwnSocket, Apart
<1>8. FewPassed' /\ E!InStep'
  BY <1>0, <1>1 DEF FewPassed, StrangeIn, Apart, E!InStep
<1>9. Told'
  <2>1. \A c : E!Order(c)' = E!Order(c)
    BY <1>1 DEF E!Order
  <2>2. E!Ready' = E!Ready
    BY <1>1 DEF E!Ready
  <2>3. E!SocketOf(asks) = {} /\ E!Ready =>
          \A c \in alive : E!Order(c) < E!Order(IF Len(eserv.binds) = 1 THEN 3 ELSE asks)
    BY <1>0, SocketIs
  <2>4. CASE nobody' = nobody /\ refused' = refused
    BY <1>0, <1>1, <2>1, <2>2, <2>4 DEF Told, E!Refused, E!Wild
  <2>5. CASE /\ E!SocketOf(asks) = {} /\ refused' = (ecli.takes = "connected")
             /\ nobody' = (IF E!Ready THEN "gone" ELSE "starting")
    <3>1. nobody' # "never" /\ (nobody' = "gone" => E!Ready)
      BY <2>5
    <3>2. (refused' => ecli'.takes = "connected") /\ (epc' = "dead" => ecli'.takes = "connected")
      BY <1>0, <1>1, <2>5 DEF Told, E!Refused
    <3>3. nobody' = "gone" =>
            \A c \in alive' : E!Order(c)' < E!Order(IF Len(eserv.binds) = 1 THEN 3 ELSE asks)'
      BY <1>1, <2>1, <2>3, <2>5, <3>1
    <3>4. QED BY <1>1, <2>1, <2>2, <3>1, <3>2, <3>3 DEF Told, E!Refused, E!Wild
  <2>6. QED BY <1>1, <2>4, <2>5
<1>10. Lone'
  <2> SUFFICES ASSUME ecli.waits, odd = 0 PROVE Lone'
    BY <1>1 DEF Lone
  <2>1. /\ eup = {line} /\ edown = {} /\ inbox = <<>> /\ epc \in {"wait", "dead"}
        /\ \A t \in {1, 2, 3} : queue[t] = <<>>
    BY <1>0 DEF Lone, Nowhere
  <2>2. m = line /\ eup' = {}
    BY <1>1, <2>1
  <2>3. CASE queue' = queue
    BY <1>1, <2>1, <2>2, <2>3 DEF Lone, Nowhere
  <2>4. ASSUME NEW s \in E!SocketOf(asks), queue' = [queue EXCEPT ![s] = Append(@, m)]
        PROVE  Lone'
    <3>1. /\ s \in {1, 2, 3} /\ queue'[s] = Append(queue[s], m)
          /\ \A t \in {1, 2, 3} \ {s} : queue'[t] = queue[t]
      BY <1>3, <2>4
    <3>2. Append(<<>>, line) = <<line>>
      OBVIOUS
    <3>3. queue'[s] = <<line>> /\ \A t \in {1, 2, 3} \ {s} : queue'[t] = <<>>
      BY <2>1, <2>2, <3>1, <3>2
    <3>4. QED BY <1>1, <2>1, <2>2, <3>1, <3>3 DEF Lone
  <2>5. QED BY <1>1, <2>3, <2>4
<1>11. QED BY <1>5, <1>6, <1>7, <1>8, <1>9, <1>10 DEF DgInv

\* A reply comes to the client, or the same once more, or a stranger's datagram.
LEMMA DgInboxStep ==
  ASSUME DgInv, NEW x \in Reply, inbox' = Append(inbox, x), E!Accepts(x[2]), x[1] <= line,
         UNCHANGED <<eserv, ecli, asks, bound, alive, queue, eup, refused, nobody, epc, line, eshown, passed>>,
         edown' \subseteq edown, odd' \in {odd, odd + 1},
         odd' = odd => x \in edown /\ edown' = edown \ {x}
  PROVE  DgInv'
<1>0. DgTypeOK /\ Sent /\ Lone /\ OwnSocket /\ FewPassed /\ Told /\ E!InStep
  BY DEF DgInv
<1>1. inbox \in Seq(Reply) /\ odd \in Nat /\ passed \in Nat /\ odd' \in Nat
  BY <1>0 DEF DgTypeOK
<1>2. /\ inbox' \in Seq(Reply) /\ Len(inbox') = Len(inbox) + 1 /\ Len(inbox) \in Nat
      /\ (\A k \in 1..Len(inbox) : inbox'[k] = inbox[k]) /\ inbox'[Len(inbox) + 1] = x
  BY <1>1, SeqFacts
<1>3. DgTypeOK'
  <2>1. alive' \subseteq {eserv'.binds[k] : k \in 1..bound'} /\ edown' \subseteq Nat \X {1, 2}
    BY <1>0 DEF DgTypeOK
  <2>2. QED BY <1>0, <1>1, <1>2, <2>1 DEF DgTypeOK
<1>4. Sent'
  <2>1. x[1] <= line /\ (ecli.takes = "connected" => x[2] = asks)
    BY DEF E!Accepts
  <2>2. \A k \in 1..Len(inbox') : inbox'[k][1] <= line /\ (ecli.takes = "connected" => inbox'[k][2] = asks)
    BY <1>0, <1>2, <2>1 DEF Sent
  <2>3. QED BY <1>0, <2>2 DEF Sent
<1>5. Lone'
  <2> SUFFICES ASSUME ecli.waits, odd' = 0 PROVE Lone'
    BY DEF Lone
  <2>1. odd = 0 /\ x \in edown /\ edown' = edown \ {x}
    BY <1>1
  <2>2. /\ epc \in {"wait", "dead"} /\ eup = {} /\ inbox = <<>>
        /\ (\A s \in {1, 2, 3} : queue[s] = <<>>) /\ \E a \in {1, 2} : edown = {<<line, a>>}
    BY <1>0, <2>1 DEF Lone, Nowhere
  <2>3. PICK a \in {1, 2} : edown = {<<line, a>>}
    BY <2>2
  <2>4. x = <<line, a>> /\ edown' = {}
    BY <2>1, <2>3
  <2>5. Append(<<>>, x) = <<x>>
    OBVIOUS
  <2>6. inbox' = <<<<line, a>>>>
    BY <2>2, <2>4, <2>5
  <2>7. QED BY <2>2, <2>4, <2>6 DEF Lone
<1>6. OwnSocket' /\ Told' /\ E!InStep'
  <2>1. OwnSocket'
    BY <1>0 DEF OwnSocket, Apart
  <2>2. \A c : E!Order(c)' = E!Order(c)
    BY DEF E!Order
  <2>3. Told'
    BY <1>0, <2>2 DEF Told, E!Refused, E!Ready, E!Wild
  <2>4. E!InStep'
    BY <1>0, <1>1 DEF E!InStep
  <2>5. QED BY <2>1, <2>3, <2>4
<1>7. FewPassed'
  <2> SUFFICES ASSUME Apart PROVE passed + Cardinality(StrangeIn(inbox', asks)) <= odd'
    BY DEF FewPassed, Apart
  <2>1. /\ Cardinality(StrangeIn(inbox', asks)) <= Cardinality(StrangeIn(inbox, asks)) + 1
        /\ x[2] = asks => Cardinality(StrangeIn(inbox', asks)) = Cardinality(StrangeIn(inbox, asks))
        /\ Cardinality(StrangeIn(inbox, asks)) \in Nat /\ Cardinality(StrangeIn(inbox', asks)) \in Nat
    BY <1>1, <1>2, StrangeAppend, StrangeFinite
  <2>2. odd' = odd => x[2] = asks
    BY <1>0 DEF OwnSocket
  <2>3. passed + Cardinality(StrangeIn(inbox, asks)) <= odd
    BY <1>0 DEF FewPassed
  <2>4. QED BY <1>1, <2>1, <2>2, <2>3
<1>8. QED BY <1>3, <1>4, <1>5, <1>6, <1>7 DEF DgInv

\* A reply that the client's socket does not take, or a datagram that is lost.
LEMMA DgLoseStep ==
  ASSUME DgInv, eup' \subseteq eup, edown' \subseteq edown, (eup = {} => edown # edown'), (edown = {} => eup # eup'),
         UNCHANGED <<eserv, ecli, asks, bound, alive, queue, inbox, refused, nobody, epc, line, eshown, passed, odd>>
  PROVE  DgInv'
<1>0. DgTypeOK /\ Sent /\ Lone /\ OwnSocket /\ FewPassed /\ Told /\ E!InStep
  BY DEF DgInv
<1>1. DgTypeOK'
  <2>1. alive' \subseteq {eserv'.binds[k] : k \in 1..bound'} /\ edown' \subseteq Nat \X {1, 2}
    BY <1>0 DEF DgTypeOK
  <2>2. QED BY <1>0, <2>1 DEF DgTypeOK
<1>2. Sent' /\ OwnSocket'
  BY <1>0 DEF Sent, OwnSocket, Apart
<1>3. FewPassed' /\ E!InStep'
  BY <1>0 DEF FewPassed, StrangeIn, Apart, E!InStep
<1>4. Told'
  <2>1. \A c : E!Order(c)' = E!Order(c)
    BY DEF E!Order
  <2>2. QED BY <1>0, <2>1 DEF Told, E!Refused, E!Ready, E!Wild
<1>5. Lone'
  <2> SUFFICES ASSUME ecli.waits, odd = 0 PROVE Lone'
    BY DEF Lone
  <2>1. CASE eup = {line} /\ (\A s \in {1, 2, 3} : queue[s] = <<>>) /\ edown = {} /\ inbox = <<>>
    <3>1. eup' = {} /\ edown' = {}
      BY <2>1
    <3>2. QED BY <2>1, <3>1 DEF Lone, Nowhere
  <2>2. CASE eup = {} /\ (\A s \in {1, 2, 3} : queue[s] = <<>>) /\ inbox = <<>>
             /\ \E a \in {1, 2} : edown = {<<line, a>>}
    <3>1. eup' = {} /\ edown' = {}
      BY <2>2
    <3>2. QED BY <2>2, <3>1 DEF Lone, Nowhere
  <2>3. eup # {} \/ edown # {}
    BY <1>0
  <2>4. QED BY <1>0, <2>1, <2>2, <2>3 DEF Lone, Nowhere
<1>6. QED BY <1>1, <1>2, <1>3, <1>4, <1>5 DEF DgInv

\* The client sends the next line, finds the error of an earlier one, or stops.
LEMMA DgSendStep ==
  ASSUME DgInv, E!Send \/ E!EndInput
  PROVE  DgInv'
<1>0. DgTypeOK /\ Sent /\ Lone /\ OwnSocket /\ FewPassed /\ Told /\ E!InStep
  BY DEF DgInv
<1>1. /\ epc = "type"
      /\ UNCHANGED <<eserv, ecli, asks, bound, alive, queue, edown, inbox, nobody, eshown, passed, odd>>
      /\ \/ epc' \in {"dead", "exit"} /\ (epc' = "dead" => refused) /\ (refused' => refused)
            /\ UNCHANGED <<eup, line>>
         \/ /\ line' = line + 1 /\ eup' = eup \cup {line + 1} /\ refused' = FALSE
            /\ epc' = IF ecli.waits THEN "wait" ELSE "type"
  BY <1>0 DEF E!Send, E!EndInput, E!conf, E!server
<1>2. line \in Nat /\ line' \in Nat /\ line <= line'
  <2>1. line \in Nat
    BY <1>0 DEF DgTypeOK
  <2>2. line' \in {line, line + 1}
    BY <1>1
  <2>3. QED BY <2>1, <2>2
<1>3. DgTypeOK'
  <2>1. alive' \subseteq {eserv'.binds[k] : k \in 1..bound'} /\ eup \subseteq Nat
    BY <1>0, <1>1 DEF DgTypeOK
  <2>2. eup' \subseteq Nat
    BY <1>1, <1>2, <2>1
  <2>3. epc' \in {"type", "wait", "exit", "dead"} /\ (epc' = "wait" => ecli.waits)
    BY <1>1
  <2>4. QED BY <1>0, <1>1, <1>2, <2>1, <2>2, <2>3 DEF DgTypeOK
<1>4. Sent'
  <2>1. \A n \in Nat : n <= line => n <= line'
    BY <1>2
  <2>2. \A q \in eup' : q <= line'
    <3>1. \A q \in eup : q \in Nat /\ q <= line
      BY <1>0 DEF Sent, DgTypeOK
    <3>2. eup' = eup \/ (line' = line + 1 /\ eup' = eup \cup {line + 1})
      BY <1>1
    <3>3. QED BY <1>2, <2>1, <3>1, <3>2
  <2>3. \A s \in {1, 2, 3} : \A k \in 1..Len(queue[s]) : queue[s][k] <= line'
    <3>1. \A s \in {1, 2, 3} : queue[s] \in Seq(Nat)
      BY <1>0 DEF DgTypeOK
    <3>2. \A q \in Seq(Nat) : \A k \in 1..Len(q) : q[k] \in Nat
      OBVIOUS
    <3>3. \A s \in {1, 2, 3} : \A k \in 1..Len(queue[s]) : queue[s][k] \in Nat
      BY <3>1, <3>2
    <3>4. QED BY <1>0, <2>1, <3>3 DEF Sent
  <2>4. \A r \in edown : r[1] <= line'
    BY <1>0, <2>1 DEF Sent, DgTypeOK
  <2>5. \A k \in 1..Len(inbox) : inbox[k][1] <= line'
    <3>1. inbox \in Seq(Reply)
      BY <1>0 DEF DgTypeOK
    <3>2. \A k \in 1..Len(inbox) : inbox[k][1] \in Nat
      BY <3>1 DEF Reply
    <3>3. QED BY <1>0, <2>1, <3>2 DEF Sent
  <2>6. QED BY <1>0, <1>1, <2>2, <2>3, <2>4, <2>5 DEF Sent
<1>5. Lone'
  <2> SUFFICES ASSUME ecli.waits, odd = 0 PROVE Lone'
    BY <1>1 DEF Lone
  <2>1. Nowhere
    BY <1>0, <1>1 DEF Lone
  <2>2. QED BY <1>1, <2>1 DEF Lone, Nowhere
<1>6. OwnSocket'
  BY <1>0, <1>1 DEF OwnSocket, Apart
<1>7. FewPassed' /\ E!InStep'
  BY <1>0, <1>1 DEF FewPassed, StrangeIn, Apart, E!InStep
<1>8. Told'
  <2>1. \A c : E!Order(c)' = E!Order(c)
    BY <1>1 DEF E!Order
  <2>2. (refused' => refused) /\ nobody' = nobody /\ (epc' = "dead" => refused)
    BY <1>1
  <2>3. /\ refused' => ecli'.takes = "connected" /\ nobody' # "never"
        /\ nobody' = "gone" => E!Ready'
        /\ epc' = "dead" => ecli'.takes = "connected" /\ nobody' # "never"
    BY <1>0, <1>1, <2>2 DEF Told, E!Ready
  <2>4. nobody' = "gone" =>
          \A c \in alive' : E!Order(c)' < E!Order(IF Len(eserv.binds) = 1 THEN 3 ELSE asks)'
    BY <1>0, <1>1, <2>1, <2>2 DEF Told, E!Refused, E!Wild
  <2>5. QED BY <1>1, <2>1, <2>3, <2>4 DEF Told, E!Refused, E!Wild
<1>9. QED BY <1>3, <1>4, <1>5, <1>6, <1>7, <1>8 DEF DgInv

\* The client takes a reply, which it shows or passes over, or finds an error.
LEMMA DgRecvfromStep ==
  ASSUME DgInv, E!Recvfrom
  PROVE  DgInv'
<1>0. DgTypeOK /\ Sent /\ Lone /\ OwnSocket /\ FewPassed /\ Told /\ E!InStep
  BY DEF DgInv
<1>1. /\ epc = "wait" /\ refused' = FALSE
      /\ UNCHANGED <<eserv, ecli, asks, bound, alive, queue, eup, edown, nobody, line, odd>>
      /\ \/ refused /\ epc' = "dead" /\ UNCHANGED <<inbox, eshown, passed>>
         \/ /\ inbox # <<>> /\ epc' = "type" /\ inbox' = Tail(inbox)
            /\ \/ /\ ecli.takes = "checked" /\ Head(inbox)[2] # asks
                  /\ passed' = passed + 1 /\ UNCHANGED eshown
               \/ /\ ~(ecli.takes = "checked" /\ Head(inbox)[2] # asks)
                  /\ eshown' = Append(eshown, <<Head(inbox), line>>) /\ UNCHANGED passed
  BY DEF E!Recvfrom, E!conf, E!server
<1>2. /\ inbox \in Seq(Reply) /\ eshown \in Seq(Reply \X Nat) /\ line \in Nat /\ passed \in Nat /\ odd \in Nat
      /\ ecli.takes \in {"any", "checked", "connected"} /\ ecli.waits
  BY <1>0, <1>1 DEF DgTypeOK
<1>3. Told'
  <2>1. \A c : E!Order(c)' = E!Order(c)
    BY <1>1 DEF E!Order
  <2>2. QED BY <1>0, <1>1, <2>1 DEF Told, E!Refused, E!Ready, E!Wild
<1>4. OwnSocket'
  BY <1>0, <1>1 DEF OwnSocket, Apart
<1>5. CASE refused /\ epc' = "dead" /\ UNCHANGED <<inbox, eshown, passed>>
  <2>1. DgTypeOK'
    <3>1. alive' \subseteq {eserv'.binds[k] : k \in 1..bound'}
      BY <1>0, <1>1 DEF DgTypeOK
    <3>2. QED BY <1>0, <1>1, <1>5, <3>1 DEF DgTypeOK
  <2>2. Sent' /\ Lone'
    BY <1>0, <1>1, <1>5 DEF Sent, Lone, Nowhere
  <2>3. FewPassed' /\ E!InStep'
    BY <1>0, <1>1, <1>5 DEF FewPassed, StrangeIn, Apart, E!InStep
  <2>4. QED BY <1>3, <1>4, <2>1, <2>2, <2>3 DEF DgInv
<1>6. ASSUME inbox # <<>>, epc' = "type", inbox' = Tail(inbox),
             \/ /\ ecli.takes = "checked" /\ Head(inbox)[2] # asks
                /\ passed' = passed + 1 /\ UNCHANGED eshown
             \/ /\ ~(ecli.takes = "checked" /\ Head(inbox)[2] # asks)
                /\ eshown' = Append(eshown, <<Head(inbox), line>>) /\ UNCHANGED passed
      PROVE  DgInv'
  <2> DEFINE h == Head(inbox)
  <2>1. <<0, 4>> \in Reply
    BY DEF Reply
  <2>2. /\ h = inbox[1] /\ h \in Reply /\ inbox' \in Seq(Reply)
        /\ Len(inbox') = Len(inbox) - 1 /\ Len(inbox) \in Nat \ {0}
        /\ \A k \in 1..Len(inbox') : inbox'[k] = inbox[k + 1]
    BY <1>2, <1>6, <2>1, SeqFacts
  <2>3. h[1] <= line /\ (ecli.takes = "connected" => h[2] = asks)
    BY <1>0, <2>2 DEF Sent
  <2>4. <<h, line>> \in Reply \X Nat /\ <<h, line>>[1] = h /\ <<h, line>>[2] = line
    BY <1>2, <2>2
  <2>5. ecli.waits /\ odd = 0 => /\ h[1] = line /\ inbox' = <<>>
                                 /\ eup = {} /\ edown = {} /\ \A s \in {1, 2, 3} : queue[s] = <<>>
    <3> SUFFICES ASSUME ecli.waits, odd = 0
                 PROVE  /\ h[1] = line /\ inbox' = <<>>
                        /\ eup = {} /\ edown = {} /\ \A s \in {1, 2, 3} : queue[s] = <<>>
      OBVIOUS
    <3>1. /\ eup = {} /\ edown = {} /\ \A s \in {1, 2, 3} : queue[s] = <<>>
          /\ \E a \in {1, 2} : inbox = <<<<line, a>>>>
      BY <1>0, <1>6 DEF Lone, Nowhere
    <3>2. PICK a \in {1, 2} : inbox = <<<<line, a>>>>
      BY <3>1
    <3>3. Head(<<<<line, a>>>>) = <<line, a>> /\ Tail(<<<<line, a>>>>) = <<>> /\ <<line, a>>[1] = line
      OBVIOUS
    <3>4. QED BY <1>6, <3>1, <3>2, <3>3
  <2>6. eshown' \in Seq(Reply \X Nat) /\ passed' \in Nat
    <3>1. Append(eshown, <<h, line>>) \in Seq(Reply \X Nat)
      BY <1>2, <2>4, SeqFacts
    <3>2. eshown' = eshown \/ eshown' = Append(eshown, <<h, line>>)
      BY <1>6
    <3>3. passed' \in {passed, passed + 1}
      BY <1>6
    <3>4. passed' \in Nat
      BY <1>2, <3>3
    <3>5. eshown' \in Seq(Reply \X Nat)
      BY <1>2, <3>1, <3>2, Zenon
    <3>6. QED BY <3>4, <3>5
  <2>7. DgTypeOK'
    <3>1. alive' \subseteq {eserv'.binds[k] : k \in 1..bound'}
      BY <1>0, <1>1 DEF DgTypeOK
    <3>2. QED BY <1>0, <1>1, <1>6, <2>2, <2>6, <3>1 DEF DgTypeOK
  <2>8. Sent'
    <3>1. \A k \in 1..Len(inbox') : k + 1 \in 1..Len(inbox)
      BY <2>2
    <3>2. QED BY <1>0, <1>1, <2>2, <3>1 DEF Sent
  <2>9. Lone'
    BY <1>1, <2>5 DEF Lone, Nowhere
  <2>10. E!InStep'
    <3>1. CASE UNCHANGED eshown
      BY <1>0, <1>1, <3>1 DEF E!InStep
    <3>2. CASE /\ ~(ecli.takes = "checked" /\ h[2] # asks)
               /\ eshown' = Append(eshown, <<h, line>>)
      <4>1. /\ eshown' \in Seq(Reply \X Nat) /\ Len(eshown') = Len(eshown) + 1 /\ Len(eshown) \in Nat
            /\ (\A k \in 1..Len(eshown) : eshown'[k] = eshown[k]) /\ eshown'[Len(eshown) + 1] = <<h, line>>
        BY <1>2, <2>4, <3>2, SeqFacts
      <4>2. /\ h[1] # line => odd > 0
            /\ h[1] <= line
            /\ ecli.takes # "any" => h[2] = asks
        BY <1>2, <2>3, <2>5, <3>2
      <4>3. DOMAIN eshown' = 1..(Len(eshown) + 1) /\ DOMAIN eshown = 1..Len(eshown)
        BY <1>2, <4>1
      <4>4. ASSUME NEW k \in DOMAIN eshown'
            PROVE  /\ eshown'[k][1][1] # eshown'[k][2] => odd > 0
                   /\ eshown'[k][1][1] <= eshown'[k][2]
                   /\ ecli.takes # "any" => eshown'[k][1][2] = asks
        <5>1. CASE k \in 1..Len(eshown)
          BY <1>0, <4>1, <4>3, <5>1 DEF E!InStep
        <5>2. CASE k = Len(eshown) + 1
          BY <2>4, <4>1, <4>2, <5>2
        <5>3. QED BY <4>1, <4>3, <4>4, <5>1, <5>2
      <4>5. QED BY <1>1, <4>4 DEF E!InStep
    <3>3. QED BY <1>6, <3>1, <3>2
  <2>11. FewPassed'
    <3> SUFFICES ASSUME Apart PROVE passed' + Cardinality(StrangeIn(inbox', asks)) <= odd
      BY <1>1 DEF FewPassed, Apart
    <3>1. /\ Cardinality(StrangeIn(inbox', asks)) <= Cardinality(StrangeIn(inbox, asks))
          /\ h[2] # asks => Cardinality(StrangeIn(inbox', asks)) + 1 <= Cardinality(StrangeIn(inbox, asks))
      BY <1>2, <1>6, <2>2, StrangeTail
    <3>2. Cardinality(StrangeIn(inbox, asks)) \in Nat /\ Cardinality(StrangeIn(inbox', asks)) \in Nat
      BY <1>2, <2>2, StrangeFinite
    <3>3. passed + Cardinality(StrangeIn(inbox, asks)) <= odd
      BY <1>0 DEF FewPassed
    <3>4. QED BY <1>2, <1>6, <3>1, <3>2, <3>3
  <2>12. QED BY <1>3, <1>4, <2>7, <2>8, <2>9, <2>10, <2>11 DEF DgInv
<1>7. QED BY <1>1, <1>5, <1>6

\* So every step keeps the invariant.
LEMMA DgStep ==
  ASSUME DgInv, [E!Next]_(E!vars)
  PROVE  DgInv'
<1>0. DgTypeOK /\ Sent /\ Lone /\ OwnSocket /\ FewPassed /\ Told /\ E!InStep
  BY DEF DgInv
<1>1. CASE E!Bind \/ \E s \in E!Sockets : E!Kill(s)
  BY <1>1, DgServersStep
<1>2. CASE \E s \in E!Sockets : E!Serve(s)
  BY <1>2, DgServeStep
<1>3. CASE \E m \in eup : E!Arrive(m)
  BY <1>3, DgArriveStep
<1>4. ASSUME NEW r \in edown, E!ArriveReply(r)
      PROVE  DgInv'
  <2>1. /\ edown' = edown \ {r}
        /\ UNCHANGED <<eserv, ecli, asks, bound, alive, queue, eup, refused, nobody, epc, line, eshown, passed, odd>>
        /\ \/ E!Accepts(r[2]) /\ inbox' = Append(inbox, r)
           \/ inbox' = inbox
    BY <1>4 DEF E!ArriveReply, E!conf, E!server
  <2>2. r \in Reply /\ r[1] <= line
    BY <1>0 DEF DgTypeOK, Sent, Reply
  <2>3. CASE E!Accepts(r[2]) /\ inbox' = Append(inbox, r)
    BY <2>1, <2>2, <2>3, DgInboxStep
  <2>4. CASE inbox' = inbox
    BY <2>1, <2>4, DgLoseStep
  <2>5. QED BY <2>1, <2>3, <2>4
<1>5. CASE E!Lose
  <2>1. /\ UNCHANGED <<eserv, ecli, asks, bound, alive, queue, inbox, refused, nobody, epc, line, eshown, passed, odd>>
        /\ \/ \E m \in eup : eup' = eup \ {m} /\ edown' = edown
           \/ \E r \in edown : edown' = edown \ {r} /\ eup' = eup
    BY <1>5 DEF E!Lose, E!conf, E!server, E!client
  <2>2. QED BY <2>1, DgLoseStep
<1>6. CASE E!Odd
  <2>1. /\ UNCHANGED <<eserv, ecli, asks, bound, alive, queue, eup, edown, refused, nobody, epc, line, eshown, passed>>
        /\ odd' = odd + 1
        /\ \/ E!Accepts(4) /\ inbox' = Append(inbox, <<0, 4>>)
           \/ \E r \in edown : E!Accepts(r[2]) /\ inbox' = Append(inbox, r)
    BY <1>6 DEF E!Odd, E!conf, E!server, E!Stranger
  <2>2. <<0, 4>> \in Reply /\ <<0, 4>>[1] = 0 /\ <<0, 4>>[2] = 4 /\ 0 <= line /\ odd \in Nat
    BY <1>0 DEF Reply, DgTypeOK
  <2>3. \A r \in edown : r \in Reply /\ r[1] <= line
    BY <1>0 DEF DgTypeOK, Sent, Reply
  <2>4. CASE E!Accepts(4) /\ inbox' = Append(inbox, <<0, 4>>)
    BY <2>1, <2>2, <2>4, DgInboxStep
  <2>5. CASE \E r \in edown : E!Accepts(r[2]) /\ inbox' = Append(inbox, r)
    BY <2>1, <2>2, <2>3, <2>5, DgInboxStep
  <2>6. QED BY <2>1, <2>4, <2>5
<1>7. CASE E!Send \/ E!EndInput
  BY <1>7, DgSendStep
<1>8. CASE E!Recvfrom
  BY <1>8, DgRecvfromStep
<1>9. CASE UNCHANGED E!vars
  <2>1. UNCHANGED <<eserv, ecli, asks, bound, alive, queue, eup, edown, inbox, refused, nobody, epc, line, eshown, passed, odd>>
    BY <1>9 DEF E!vars, E!conf, E!server, E!client
  <2>2. \A c : E!Order(c)' = E!Order(c)
    BY <2>1 DEF E!Order
  <2>3. DgTypeOK' /\ Sent' /\ Lone'
    BY ZenonT(40), <1>0, <2>1 DEF DgTypeOK, Sent, Lone, Nowhere
  <2>4. OwnSocket' /\ FewPassed' /\ E!InStep'
    BY <1>0, <2>1 DEF OwnSocket, Apart, FewPassed, StrangeIn, E!InStep
  <2>5. Told'
    BY <1>0, <2>1, <2>2 DEF Told, E!Refused, E!Ready, E!Wild
  <2>6. QED BY <2>3, <2>4, <2>5 DEF DgInv
<1>10. QED BY <1>1, <1>2, <1>3, <1>4, <1>5, <1>6, <1>7, <1>8, <1>9 DEF E!Next, E!Progress

\* It holds when the programs start.
LEMMA DgStart ==
  ASSUME E!Init
  PROVE  DgInv
<1>1. /\ eserv.binds \in {<<3>>, <<1, 2, 3>>} /\ asks \in {1, 2}
      /\ ecli.takes \in {"any", "checked", "connected"}
  BY DEF E!Init, E!Addrs, E!Wild, E!Server, E!Client, E!udpserv01, E!udpserv06, E!udpserv07, E!advio_udpserv03,
         E!advio_udpserv04, E!HW3_UDPServer, E!Labs_UDPServerTest, E!UDPServerTest, E!dg_cli, E!dgcliinetaddr,
         E!dgcliaddr, E!dgcliconnect, E!dgclibig, E!dgcliloop1, E!HW3_UDPClient, E!UDPClientTest
<1>2. /\ bound = 0 /\ alive = {} /\ queue = [s \in {1, 2, 3} |-> <<>>]
      /\ eup = {} /\ edown = {} /\ inbox = <<>> /\ refused = FALSE /\ nobody = "never"
      /\ epc = "type" /\ line = 0 /\ eshown = <<>> /\ passed = 0 /\ odd = 0
  BY DEF E!Init, E!Sockets, E!Addrs, E!Wild
<1>3. Len(eserv.binds) \in {1, 3}
  BY <1>1
<1>4. <<>> \in Seq(Nat) /\ inbox \in Seq(Reply) /\ eshown \in Seq(Reply \X Nat) /\ Len(<<>>) = 0
  BY <1>2
<1>5. DgTypeOK
  BY <1>1, <1>2, <1>3, <1>4 DEF DgTypeOK
<1>6. Sent /\ Lone /\ OwnSocket /\ Told /\ E!InStep
  BY <1>2, <1>4 DEF Sent, Lone, Nowhere, OwnSocket, Told, E!Refused, E!InStep
<1>7. FewPassed
  <2>1. StrangeIn(inbox, asks) = {}
    BY <1>2, <1>4 DEF StrangeIn
  <2>2. Cardinality(StrangeIn(inbox, asks)) = 0
    BY <2>1, FS_EmptySet
  <2>3. QED BY <1>2, <2>2 DEF FewPassed
<1>8. QED BY <1>5, <1>6, <1>7 DEF DgInv

\* What a client shows for a line is its echo until something strange comes, whoever looks
\* at the address shows nothing from another one and passes over strangers only, and who
\* is told that nobody is there has been told the truth, for every number of lines and of
\* strange datagrams.
THEOREM EchoInStep == E!Spec => []DgEchoRight
<1>1. ASSUME DgInv PROVE E!DgEchoRight
  <2>1. E!InStep /\ E!Refused
    BY <1>1 DEF DgInv, Told
  <2>2. E!PassedOver
    <3> SUFFICES ASSUME passed > odd PROVE eserv.binds = <<3>>
      BY DEF E!PassedOver, E!Wild
    <3>1. DgTypeOK /\ FewPassed /\ passed \in Nat /\ odd \in Nat /\ inbox \in Seq(Reply)
      BY <1>1 DEF DgInv, DgTypeOK
    <3>2. Cardinality(StrangeIn(inbox, asks)) \in Nat
      BY <3>1, StrangeFinite
    <3>3. ~Apart
      BY <3>1, <3>2 DEF FewPassed
    <3>4. QED BY <3>1, <3>3 DEF Apart, DgTypeOK
  <2>3. QED BY <2>1, <2>2 DEF E!DgEchoRight
<1>2. E!Init => DgInv
  BY DgStart
<1>3. DgInv /\ [E!Next]_(E!vars) => DgInv'
  BY DgStep
<1>4. QED BY <1>1, <1>2, <1>3, PTL DEF E!Spec, DgEchoRight, E!DgEchoRight

-----------------------------------------------------------------------------
(* The ICMP daemon. *)

\* What is in a stream to a client with port p.
HasYes(q) == \E k \in 1..Len(q) : q[k] = 0
OwnOnly(q, p) == \A k \in 1..Len(q) : q[k] = p
OwnAfterYes(q, p) == \A k \in 1..Len(q) : q[k] = 0 => \A j \in k + 1 .. Len(q) : q[j] = p

Answerable == {"idle", "wait", "answered"}

IcTypeOK ==
  /\ client \in [1..Slots -> [connfd : 0..MaxClients, lport : Nat]] /\ maxi \in 0..Slots
  /\ rset \subseteq 0 .. MaxClients + 1 /\ closed \subseteq 1..MaxClients
  /\ backlog \in Seq(1..MaxClients) /\ rawq \in Seq(Nat) /\ iflight \subseteq Nat
  /\ upq \in [1..MaxClients -> {<<>>, <<"fd">>, <<"byte">>}] /\ downq \in [1..MaxClients -> Seq(Nat)]
  /\ icpc \in [1..MaxClients -> {"start", "pass", "reply", "gone"} \cup Answerable]
  /\ port \in [1..MaxClients -> Nat]

\* A connection is in one place: the backlog, one entry of client[], or closed.
OnePlace ==
  /\ \A k, j \in 1..Slots : client[k].connfd = client[j].connfd /\ client[k].connfd # 0 => k = j
  /\ \A k \in 1..Slots : client[k].connfd \notin closed
  /\ \A i, j \in 1..Len(backlog) : backlog[i] = backlog[j] => i = j
  /\ \A i \in 1..Len(backlog) : backlog[i] \notin closed /\ \A k \in 1..Slots : client[k].connfd # backlog[i]

\* Who has not been accepted has heard nothing yet.
Unheard ==
  /\ \A i \in 1..Len(backlog) : downq[backlog[i]] = <<>> /\ icpc[backlog[i]] \in {"pass", "reply", "gone"}
  /\ \A c \in 1..MaxClients : icpc[c] = "start" =>
       /\ c \notin closed /\ downq[c] = <<>> /\ upq[c] = <<>>
       /\ (\A k \in 1..Slots : client[k].connfd # c) /\ \A i \in 1..Len(backlog) : backlog[i] # c

\* A client passes its socket once, and from the Yes on the daemon knows its port.
Known ==
  \A c \in 1..MaxClients :
    /\ icpc[c] = "pass" => upq[c] = <<>> /\ ~HasYes(downq[c])
    /\ icpc[c] \in Answerable \/ HasYes(downq[c]) =>
         upq[c] = <<>> /\ \A k \in 1..Slots : client[k].connfd = c => client[k].lport = port[c]

\* Whoever is due has something to say or has ended.
Due ==
  /\ \A c \in rset \cap (1..MaxClients) : upq[c] # <<>> \/ icpc[c] = "gone"
  /\ ipc = "conn" => I!Turn(rset) # {}
  /\ (ipc = "listen" => 0 \in rset) /\ (ipc = "raw" => MaxClients + 1 \in rset)
  /\ ipc \notin {"dead", "quit"} => (0 \in rset => backlog # <<>>) /\ (MaxClients + 1 \in rset => rawq # <<>>)

OwnOnes ==
  \A c \in 1..MaxClients :
    /\ icpc[c] \in Answerable => OwnOnly(downq[c], port[c])
    /\ OwnAfterYes(downq[c], port[c])

IcInv == IcTypeOK /\ OnePlace /\ Unheard /\ Known /\ Due /\ OwnOnes

\* One more message in a stream.
LEMMA StreamAppend ==
  ASSUME NEW q \in Seq(Nat), NEW x \in Nat, NEW p \in Nat
  PROVE  /\ OwnOnly(q, p) /\ x = p => OwnOnly(Append(q, x), p)
         /\ OwnAfterYes(q, p) /\ (HasYes(q) => x = p) => OwnAfterYes(Append(q, x), p)
         /\ x # 0 => (HasYes(Append(q, x)) <=> HasYes(q))
         /\ Append(q, x) \in Seq(Nat)
<1>1. /\ Append(q, x) \in Seq(Nat) /\ Len(Append(q, x)) = Len(q) + 1 /\ Len(q) \in Nat
      /\ \A k \in 1..Len(q) : Append(q, x)[k] = q[k]
      /\ Append(q, x)[Len(q) + 1] = x
  BY SeqFacts
<1>2. OwnOnly(q, p) /\ x = p => OwnOnly(Append(q, x), p)
  BY <1>1 DEF OwnOnly
<1>3. x # 0 => (HasYes(Append(q, x)) <=> HasYes(q))
  BY <1>1 DEF HasYes
<1>4. ASSUME OwnAfterYes(q, p), HasYes(q) => x = p PROVE OwnAfterYes(Append(q, x), p)
  <2>1. ASSUME NEW k \in 1 .. Len(q) + 1, Append(q, x)[k] = 0, NEW j \in k + 1 .. Len(q) + 1
        PROVE  Append(q, x)[j] = p
    <3>1. k \in 1..Len(q) /\ q[k] = 0 /\ HasYes(q)
      BY <1>1, <2>1 DEF HasYes
    <3>2. CASE j = Len(q) + 1
      BY <1>1, <1>4, <3>1, <3>2
    <3>3. CASE j \in k + 1 .. Len(q)
      BY <1>1, <1>4, <3>1, <3>3 DEF OwnAfterYes
    <3>4. QED BY <1>1, <2>1, <3>2, <3>3
  <2>2. QED BY <1>1, <2>1 DEF OwnAfterYes
<1>5. QED BY <1>1, <1>2, <1>3, <1>4

\* The first message is taken from a stream.
LEMMA StreamTail ==
  ASSUME NEW q \in Seq(Nat), q # <<>>, NEW p
  PROVE  /\ OwnOnly(q, p) => OwnOnly(Tail(q), p)
         /\ OwnAfterYes(q, p) => OwnAfterYes(Tail(q), p)
         /\ OwnAfterYes(q, p) /\ Head(q) = 0 => OwnOnly(Tail(q), p) /\ HasYes(q)
         /\ HasYes(Tail(q)) => HasYes(q)
         /\ Tail(q) \in Seq(Nat)
<1>0. 0 \in Nat
  OBVIOUS
<1>1. /\ Head(q) = q[1] /\ Tail(q) \in Seq(Nat) /\ Len(Tail(q)) = Len(q) - 1 /\ Len(q) \in Nat \ {0}
      /\ \A k \in 1..Len(Tail(q)) : Tail(q)[k] = q[k + 1]
  BY <1>0, SeqFacts
<1>2. OwnOnly(q, p) => OwnOnly(Tail(q), p)
  BY <1>1 DEF OwnOnly
<1>3. HasYes(Tail(q)) => HasYes(q)
  BY <1>1 DEF HasYes
<1>4. OwnAfterYes(q, p) /\ Head(q) = 0 => OwnOnly(Tail(q), p) /\ HasYes(q)
  BY <1>1 DEF OwnAfterYes, OwnOnly, HasYes
<1>5. ASSUME OwnAfterYes(q, p) PROVE OwnAfterYes(Tail(q), p)
  <2>1. ASSUME NEW k \in 1..Len(Tail(q)), Tail(q)[k] = 0, NEW j \in k + 1 .. Len(Tail(q))
        PROVE  Tail(q)[j] = p
    <3>1. q[k + 1] = 0 /\ k + 1 \in 1..Len(q) /\ j + 1 \in (k + 1) + 1 .. Len(q) /\ Tail(q)[j] = q[j + 1]
      BY <1>1, <2>1
    <3>2. QED BY <1>5, <3>1 DEF OwnAfterYes
  <2>2. QED BY <2>1 DEF OwnAfterYes
<1>6. QED BY <1>1, <1>2, <1>3, <1>4, <1>5

\* A non-empty set of entries or addresses has a first element.
LEMMA FirstIsIn ==
  ASSUME NEW W \in SUBSET Nat, W # {}
  PROVE  I!First(W) \in W
<1>1. PICK w \in W : \A v \in W : <<v, w>> \notin OpToRel(<, Nat)
  BY NatLessThanWellFounded, WFMin
<1>2. \A v \in W : ~(v < w)
  BY <1>1 DEF OpToRel
<1>3. \A v \in W : w <= v
  BY <1>2
<1>4. QED BY <1>1, <1>3 DEF I!First

\* Which entry's turn it is.
LEMMA TurnIs ==
  ASSUME IcTypeOK, NEW r
  PROVE  /\ I!Turn(r) \subseteq 1..Slots
         /\ \A k \in 1..Slots : k \in I!Turn(r) <=> k <= maxi /\ client[k].connfd \in r \ {0}
         /\ I!After(r) = "conn" => I!Turn(r) # {}
         /\ (I!After(r) = "listen" => 0 \in r) /\ (I!After(r) = "raw" => MaxClients + 1 \in r)
<1>1. maxi \in 0..Slots /\ Slots \in Nat
  BY DatagramsAssumption DEF IcTypeOK, I!IcmpdAssumption
<1>2. QED BY <1>1 DEF I!Turn, I!After, I!None, I!Listen, I!Raw

\* select() says who is due.
LEMMA IcSelect ==
  ASSUME IcInv, I!Select
  PROVE  IcInv' /\ ipc' \notin {"dead", "quit"}
<1>0. IcTypeOK /\ OnePlace /\ Unheard /\ Known /\ Due /\ OwnOnes
  BY DEF IcInv
<1>1. /\ rset' = I!Ready /\ ipc' = I!After(I!Ready)
      /\ UNCHANGED <<client, maxi, backlog, upq, downq, closed, icpc, port, lines, iflight, rawq>>
  BY DEF I!Select, I!cli
<1>2. I!Connected \subseteq 1..MaxClients /\ MaxClients \in Nat
  BY <1>0, DatagramsAssumption DEF I!Connected, I!None, IcTypeOK, I!IcmpdAssumption
<1>3. I!Ready \subseteq 0 .. MaxClients + 1
  <2>1. \A x \in I!Ready : x \in I!Connected \/ x = 0 \/ x = MaxClients + 1
    BY DEF I!Ready, I!Listen, I!Raw
  <2>2. \A x \in I!Connected : x \in 0 .. MaxClients + 1
    BY <1>2
  <2>3. 0 \in 0 .. MaxClients + 1 /\ MaxClients + 1 \in 0 .. MaxClients + 1
    BY <1>2
  <2>4. QED BY <2>1, <2>2, <2>3, Zenon
<1>4. \A c \in I!Ready \cap (1..MaxClients) : upq[c] # <<>> \/ icpc[c] = "gone"
  BY <1>2 DEF I!Ready, I!Listen, I!Raw, I!Readable, I!Gone
<1>5. I!Turn(rset)' = I!Turn(I!Ready)
  BY <1>1 DEF I!Turn
<1>6. Due'
  <2>1. 0 \notin I!Connected /\ MaxClients + 1 \notin I!Connected /\ MaxClients + 1 # 0
    BY <1>2
  <2>2. (0 \in I!Ready => backlog # <<>>) /\ (MaxClients + 1 \in I!Ready => rawq # <<>>)
    BY <2>1 DEF I!Ready, I!Listen, I!Raw
  <2>3. QED BY <1>0, <1>1, <1>4, <1>5, <2>2, TurnIs DEF Due
<1>7. IcTypeOK' /\ OnePlace' /\ Unheard'
  BY <1>0, <1>1, <1>3 DEF IcTypeOK, OnePlace, Unheard
<1>8. Known' /\ OwnOnes'
  BY <1>0, <1>1 DEF Known, OwnOnes
<1>9. ipc' \notin {"dead", "quit"}
  BY <1>1 DEF I!After
<1>10. QED BY <1>6, <1>7, <1>8, <1>9 DEF IcInv

\* The daemon has dealt with one that was due: whose turn it is next.
LEMMA DoneTurn ==
  ASSUME IcInv, NEW s, I!Done(s), client' \in [1..Slots -> [connfd : 0..MaxClients, lport : Nat]],
         maxi' \in maxi..Slots, UNCHANGED <<icpc>>,
         \A k \in 1..Slots : client'[k].connfd = client[k].connfd \/ client[k].connfd \in {0, s},
         \A c \in 1..MaxClients : c # s => upq'[c] = upq[c],
         backlog' = backlog \/ s = 0, rawq' = rawq \/ s = MaxClients + 1, ipc \notin {"dead", "quit"}
  PROVE  Due' /\ rset' \subseteq rset /\ ipc' \notin {"dead", "quit"}
<1>0. IcTypeOK /\ Due
  BY DEF IcInv
<1>1. rset' = rset \ {s} /\ (ipc' = "conn" => I!After(rset \ {s}) = "conn") /\ ipc' \notin {"dead", "quit"}
  BY DEF I!Done, I!After
<1>2. \A c \in rset' \cap (1..MaxClients) : upq'[c] # <<>> \/ icpc'[c] = "gone"
  BY <1>0, <1>1 DEF Due
<1>3. ASSUME ipc' = "conn" PROVE I!Turn(rset)' # {}
  <2>1. PICK k \in 1..Slots : k <= maxi /\ client[k].connfd \in (rset \ {s}) \ {0}
    BY <1>0, <1>1, <1>3, TurnIs
  <2>2. client'[k].connfd = client[k].connfd
    BY <2>1
  <2>3. k \in 1..maxi' /\ client'[k].connfd # 0 /\ client'[k].connfd \in rset'
    <3>1. maxi \in Nat /\ Slots \in Nat /\ maxi' \in Nat /\ maxi <= maxi'
      BY <1>0, DatagramsAssumption DEF IcTypeOK, I!IcmpdAssumption
    <3>2. QED BY <1>1, <2>1, <2>2, <3>1
  <2>4. k \in I!Turn(rset)'
    BY <2>3 DEF I!Turn, I!None
  <2>5. QED BY <2>4
<1>4. /\ (ipc' = "listen" => 0 \in rset') /\ (ipc' = "raw" => MaxClients + 1 \in rset')
      /\ (0 \in rset' => backlog' # <<>>) /\ (MaxClients + 1 \in rset' => rawq' # <<>>)
  <2>1. ipc' = "select" \/ ipc' = I!After(rset')
    BY DEF I!Done
  <2>2. QED BY <1>0, <1>1, <2>1 DEF Due, I!After, I!Listen, I!Raw
<1>5. QED BY <1>1, <1>2, <1>3, <1>4 DEF Due

\* A connection is accepted, or closed when there is no entry for it.
LEMMA IcListen ==
  ASSUME IcInv, I!ReadableListen, backlog # <<>>
  PROVE  IcInv' /\ ipc' \notin {"dead", "quit"}
<1>0. IcTypeOK /\ OnePlace /\ Unheard /\ Known /\ Due /\ OwnOnes
  BY DEF IcInv
<1> DEFINE c == Head(backlog)
           k == I!First(I!Free)
<1>1. /\ backlog' = Tail(backlog) /\ I!Done(0)
      /\ UNCHANGED <<upq, downq, icpc, port, lines, iflight, rawq>>
      /\ \/ closed' = closed \cup {c} /\ UNCHANGED <<client, maxi>>
         \/ /\ I!Free # {} /\ client' = [client EXCEPT ![k].connfd = c]
            /\ maxi' = (IF k > maxi THEN k ELSE maxi) /\ closed' = closed
  BY DEF I!ReadableListen, I!cli, I!Listen
<1>2. /\ client \in [1..Slots -> [connfd : 0..MaxClients, lport : Nat]] /\ maxi \in 0..Slots /\ Slots \in Nat
      /\ backlog \in Seq(1..MaxClients) /\ MaxClients \in Nat
  BY <1>0, DatagramsAssumption DEF IcTypeOK, I!IcmpdAssumption
<1>3. /\ c = backlog[1] /\ c \in 1..MaxClients /\ backlog' \in Seq(1..MaxClients) /\ Len(backlog) \in Nat \ {0}
      /\ Len(backlog') = Len(backlog) - 1 /\ \A i \in 1..Len(backlog') : backlog'[i] = backlog[i + 1]
  BY <1>1, <1>2
<1>4. /\ c \notin closed /\ (\A j \in 1..Slots : client[j].connfd # c)
      /\ downq[c] = <<>> /\ icpc[c] \in {"pass", "reply", "gone"}
      /\ \A i \in 1..Len(backlog') : backlog'[i] # c /\ i + 1 \in 1..Len(backlog)
  BY <1>0, <1>3 DEF OnePlace, Unheard
<1>5. ASSUME I!Free # {}
      PROVE  k \in 1..Slots /\ client[k].connfd = 0
  <2>1. I!Free \in SUBSET Nat /\ \A j \in I!Free : j \in 1..Slots /\ client[j].connfd = 0
    BY <1>2 DEF I!Free, I!None
  <2>2. QED BY <1>5, <2>1, FirstIsIn
<1> HIDE DEF c, k
<1>6. /\ client' \in [1..Slots -> [connfd : 0..MaxClients, lport : Nat]] /\ maxi' \in maxi..Slots
      /\ \A j \in 1..Slots : \/ client'[j] = client[j]
                             \/ client[j].connfd = 0 /\ client'[j].connfd = c /\ j = k /\ closed' = closed
  <2>1. CASE client' = client /\ maxi' = maxi
    BY <1>2, <2>1
  <2>2. CASE I!Free # {} /\ client' = [client EXCEPT ![k].connfd = c] /\ maxi' = (IF k > maxi THEN k ELSE maxi)
             /\ closed' = closed
    <3>1. k \in 1..Slots /\ client[k].connfd = 0
      BY <1>5, <2>2
    <3>2. /\ client'[k] = [client[k] EXCEPT !.connfd = c]
          /\ \A j \in 1..Slots : j # k => client'[j] = client[j]
      BY <1>2, <2>2, <3>1
    <3>3. /\ client[k] \in [connfd : 0..MaxClients, lport : Nat] /\ c \in 0..MaxClients
      BY <1>2, <1>3, <3>1
    <3>4. client'[k] \in [connfd : 0..MaxClients, lport : Nat] /\ client'[k].connfd = c
      BY <3>2, <3>3
    <3>5. client' \in [1..Slots -> [connfd : 0..MaxClients, lport : Nat]]
      BY <1>2, <2>2, <3>1, <3>2, <3>4
    <3>6. maxi' \in maxi..Slots
      BY <1>2, <2>2, <3>1
    <3>7. QED BY <2>2, <3>1, <3>2, <3>4, <3>5, <3>6
  <2>3. QED BY <1>1, <2>1, <2>2
<1>7. closed' \subseteq closed \cup {c} /\ closed \subseteq closed' /\ (closed' = closed \/ client' = client)
  BY <1>1
<1>8. Due' /\ rset' \subseteq rset /\ ipc' \notin {"dead", "quit"}
  <2>1. \A j \in 1..Slots : client'[j].connfd = client[j].connfd \/ client[j].connfd \in {0, 0}
    BY <1>6
  <2>2. QED BY <1>1, <1>6, <2>1, DoneTurn DEF I!ReadableListen
<1>9. IcTypeOK'
  <2>1. closed' \subseteq 1..MaxClients /\ rset' \subseteq 0 .. MaxClients + 1 /\ maxi' \in 0..Slots
    <3>1. closed \subseteq 1..MaxClients /\ rset \subseteq 0 .. MaxClients + 1
      BY <1>0 DEF IcTypeOK
    <3>2. closed' \subseteq 1..MaxClients /\ rset' \subseteq 0 .. MaxClients + 1
      BY <1>3, <1>7, <1>8, <3>1
    <3>3. maxi' \in 0..Slots
      BY <1>2, <1>6
    <3>4. QED BY <3>2, <3>3
  <2>2. QED BY <1>0, <1>1, <1>3, <1>6, <2>1 DEF IcTypeOK
<1>10. OnePlace'
  <2>1. \A i, j \in 1..Slots : client'[i].connfd = client'[j].connfd /\ client'[i].connfd # 0 => i = j
    BY <1>0, <1>4, <1>6 DEF OnePlace
  <2>2. \A j \in 1..Slots : client'[j].connfd \notin closed'
    BY <1>0, <1>4, <1>6, <1>7 DEF OnePlace
  <2>3. \A i, j \in 1..Len(backlog') : backlog'[i] = backlog'[j] => i = j
    <3>1. \A i, j \in 1..Len(backlog') : backlog[i + 1] = backlog[j + 1] => i + 1 = j + 1
      BY <1>0, <1>4 DEF OnePlace
    <3>2. \A i, j \in 1..Len(backlog') : i + 1 = j + 1 => i = j
      BY <1>3
    <3>3. QED BY <1>3, <3>1, <3>2
  <2>4. \A i \in 1..Len(backlog') : backlog'[i] \notin closed /\ \A j \in 1..Slots : client[j].connfd # backlog'[i]
    BY SMTT(30), <1>0, <1>3, <1>4 DEF OnePlace
  <2>5. \A i \in 1..Len(backlog') : backlog'[i] \notin closed' /\ \A j \in 1..Slots : client'[j].connfd # backlog'[i]
    BY <1>4, <1>6, <1>7, <2>4
  <2>6. QED BY <2>1, <2>2, <2>3, <2>5 DEF OnePlace
<1>11. Unheard'
  <2>1. \A i \in 1..Len(backlog') : downq[backlog'[i]] = <<>> /\ icpc[backlog'[i]] \in {"pass", "reply", "gone"}
    BY <1>0, <1>3, <1>4 DEF Unheard
  <2>2. ASSUME NEW d \in 1..MaxClients, icpc[d] = "start"
        PROVE  /\ d \notin closed' /\ downq[d] = <<>> /\ upq[d] = <<>>
               /\ (\A j \in 1..Slots : client'[j].connfd # d) /\ \A i \in 1..Len(backlog') : backlog'[i] # d
    <3>1. /\ d \notin closed /\ downq[d] = <<>> /\ upq[d] = <<>>
          /\ (\A j \in 1..Slots : client[j].connfd # d) /\ \A i \in 1..Len(backlog) : backlog[i] # d
      BY <1>0, <2>2 DEF Unheard
    <3>2. d # c
      BY <1>4, <2>2
    <3>3. QED BY <1>3, <1>4, <1>6, <1>7, <3>1, <3>2
  <2>3. QED BY <1>1, <2>1, <2>2 DEF Unheard
<1>12. Known' /\ OwnOnes'
  <2>1. ~HasYes(downq[c]) /\ icpc[c] \notin Answerable
    BY <1>4 DEF HasYes, Answerable
  <2>2. \A d \in 1..MaxClients : icpc[d] \in Answerable \/ HasYes(downq[d]) =>
          upq[d] = <<>> /\ \A j \in 1..Slots : client'[j].connfd = d => client'[j].lport = port[d]
    BY <1>0, <1>6, <2>1 DEF Known
  <2>3. QED BY <1>0, <1>1, <2>2 DEF Known, OwnOnes
<1>13. QED BY <1>8, <1>9, <1>10, <1>11, <1>12 DEF IcInv

\* An ICMP error is copied to those it is about.
LEMMA IcRaw ==
  ASSUME IcInv, I!ReadableRaw, rawq # <<>>
  PROVE  /\ IcInv'
         /\ ipc' = "dead" => \E c \in I!Connected : I!Gone(c) /\ c \notin closed
<1>0. IcTypeOK /\ OnePlace /\ Unheard /\ Known /\ Due /\ OwnOnes
  BY DEF IcInv
<1> DEFINE e == Head(rawq)
           to == IF e \in {0, Ports + 2} THEN {}
                 ELSE {k \in 1..maxi : client[k].connfd # 0 /\ client[k].lport = e}
           reached == {client[k].connfd : k \in to}
<1>1. /\ rawq' = Tail(rawq) /\ UNCHANGED <<client, maxi, backlog, upq, closed, icpc, port, lines, iflight>>
      /\ \/ /\ ipc' = "quit" \/ (ipc' = "dead" /\ \E c \in reached : I!Gone(c))
            /\ UNCHANGED <<rset, nready, downq>>
         \/ /\ downq' = [c \in 1..MaxClients |-> IF c \in reached THEN Append(downq[c], e) ELSE downq[c]]
            /\ I!Done(MaxClients + 1)
  BY DEF I!ReadableRaw, I!cli, I!None, I!Short, I!Clients, I!Raw
<1>2. /\ client \in [1..Slots -> [connfd : 0..MaxClients, lport : Nat]] /\ maxi \in 0..Slots /\ Slots \in Nat
      /\ rawq \in Seq(Nat) /\ MaxClients \in Nat
      /\ downq \in [1..MaxClients -> Seq(Nat)] /\ port \in [1..MaxClients -> Nat]
  BY <1>0, DatagramsAssumption DEF IcTypeOK, I!IcmpdAssumption
<1>3. e \in Nat /\ rawq' \in Seq(Nat)
  BY SMTT(30), <1>1, <1>2
<1>4. \A c \in reached : e # 0 /\ \E k \in 1..Slots : client[k].connfd = c /\ c # 0 /\ client[k].lport = e
  <2>1. \A k \in 1..maxi : k \in 1..Slots
    BY <1>2
  <2>2. QED BY <2>1
<1> HIDE DEF e, to, reached
<1>5. \A c \in reached : c \in I!Connected /\ c \notin closed
  BY <1>0, <1>4 DEF I!Connected, I!None, OnePlace
<1>6. CASE /\ ipc' = "quit" \/ (ipc' = "dead" /\ \E c \in reached : I!Gone(c))
           /\ UNCHANGED <<rset, nready, downq>>
  <2>1. IcTypeOK' /\ OnePlace' /\ Unheard'
    BY <1>0, <1>1, <1>3, <1>6 DEF IcTypeOK, OnePlace, Unheard
  <2>2. Known' /\ OwnOnes' /\ Due'
    BY <1>0, <1>1, <1>6 DEF Known, OwnOnes, Due
  <2>3. QED BY <1>5, <1>6, <2>1, <2>2 DEF IcInv
<1>7. CASE /\ downq' = [c \in 1..MaxClients |-> IF c \in reached THEN Append(downq[c], e) ELSE downq[c]]
           /\ I!Done(MaxClients + 1)
  <2>1. ASSUME NEW c \in 1..MaxClients
        PROVE  /\ downq'[c] \in Seq(Nat) /\ (c \notin reached => downq'[c] = downq[c])
               /\ HasYes(downq'[c]) <=> HasYes(downq[c])
               /\ OwnAfterYes(downq'[c], port[c])
               /\ icpc[c] \in Answerable => OwnOnly(downq'[c], port[c])
    <3>1. /\ downq[c] \in Seq(Nat) /\ port[c] \in Nat /\ OwnAfterYes(downq[c], port[c])
          /\ icpc[c] \in Answerable => OwnOnly(downq[c], port[c])
      BY <1>0, <1>2 DEF OwnOnes
    <3>2. CASE c \notin reached
      BY <1>7, <3>1, <3>2
    <3>3. CASE c \in reached
      <4>1. e # 0 /\ (icpc[c] \in Answerable \/ HasYes(downq[c]) => e = port[c])
        BY <1>0, <1>4, <3>3 DEF Known
      <4>2. downq'[c] = Append(downq[c], e)
        BY <1>7, <3>3
      <4>3. QED BY <1>3, <3>1, <3>3, <4>1, <4>2, StreamAppend
    <3>4. QED BY <3>2, <3>3
  <2>2. downq' \in [1..MaxClients -> Seq(Nat)]
    BY <1>7, <2>1
  <2>3. Due' /\ rset' \subseteq rset /\ ipc' \notin {"dead", "quit"}
    <3>1. maxi' \in maxi..Slots /\ client' \in [1..Slots -> [connfd : 0..MaxClients, lport : Nat]]
      BY <1>1, <1>2
    <3>2. ipc \notin {"dead", "quit"}
      BY DEF I!ReadableRaw
    <3>3. QED BY <1>1, <1>7, <3>1, <3>2, DoneTurn
  <2>4. IcTypeOK'
    <3>1. rset' \subseteq 0 .. MaxClients + 1
      BY <1>0, <2>3 DEF IcTypeOK
    <3>2. QED BY <1>0, <1>1, <1>3, <2>2, <3>1 DEF IcTypeOK
  <2>5. OnePlace'
    BY <1>0, <1>1 DEF OnePlace
  <2>6. Unheard'
    <3>1. \A i \in 1..Len(backlog) : backlog[i] \in 1..MaxClients /\ backlog[i] \notin reached
      <4>1. backlog \in Seq(1..MaxClients)
        BY <1>0 DEF IcTypeOK
      <4>2. \A i \in 1..Len(backlog) : backlog[i] \in 1..MaxClients
        BY <4>1, QueueIn
      <4>3. \A i \in 1..Len(backlog) : \A k \in 1..Slots : client[k].connfd # backlog[i]
        BY <1>0 DEF OnePlace
      <4>4. QED BY <1>4, <4>2, <4>3
    <3>2. \A c \in 1..MaxClients : icpc[c] = "start" => c \notin reached
      BY <1>0, <1>4 DEF Unheard
    <3>3. QED BY <1>0, <1>1, <2>1, <3>1, <3>2 DEF Unheard
  <2>7. Known' /\ OwnOnes'
    BY <1>0, <1>1, <2>1 DEF Known, OwnOnes
  <2>8. QED BY <2>3, <2>4, <2>5, <2>6, <2>7 DEF IcInv
<1>8. QED BY <1>1, <1>6, <1>7

\* A client is accepted, refused or its end is noticed; or it has reset the connection.
LEMMA IcConn ==
  ASSUME IcInv, I!ReadableConn
  PROVE  /\ IcInv'
         /\ ipc' = "dead" => \E c \in I!Connected : I!Gone(c) /\ c \notin closed
<1>0. IcTypeOK /\ OnePlace /\ Unheard /\ Known /\ Due /\ OwnOnes
  BY DEF IcInv
<1> DEFINE k == I!First(I!Turn(rset))
           c == client[k].connfd
<1>1. /\ client \in [1..Slots -> [connfd : 0..MaxClients, lport : Nat]] /\ maxi \in 0..Slots /\ Slots \in Nat
      /\ MaxClients \in Nat /\ port \in [1..MaxClients -> Nat] /\ Ports \in Nat
      /\ downq \in [1..MaxClients -> Seq(Nat)] /\ upq \in [1..MaxClients -> {<<>>, <<"fd">>, <<"byte">>}]
  BY <1>0, DatagramsAssumption DEF IcTypeOK, I!IcmpdAssumption
<1>2. k \in 1..Slots /\ c \in rset \ {0} /\ c \in 1..MaxClients
  <2>1. ipc = "conn"
    BY DEF I!ReadableConn
  <2>2. k \in I!Turn(rset)
    <3>1. I!Turn(rset) \in SUBSET Nat /\ I!Turn(rset) # {}
      BY <1>0, <1>1, <2>1, TurnIs DEF Due
    <3>2. QED BY <3>1, FirstIsIn
  <2>3. k \in 1..Slots /\ c \in rset \ {0}
    BY <1>0, <2>2, TurnIs
  <2>4. client[k] \in [connfd : 0..MaxClients, lport : Nat]
    BY <1>1, <2>3
  <2>5. QED BY <2>3, <2>4
<1>3. /\ UNCHANGED <<maxi, backlog, icpc, port, lines, iflight, rawq>>
      /\ \/ /\ upq[c] # <<>> /\ upq' = [upq EXCEPT ![c] = Tail(@)] /\ I!Gone(c)
            /\ ipc' = "dead" /\ UNCHANGED <<client, closed, rset, nready, downq>>
         \/ /\ upq[c] # <<>> /\ upq' = [upq EXCEPT ![c] = Tail(@)] /\ I!Done(c)
            /\ client' = [client EXCEPT ![k].lport = port[c]]
            /\ downq' = [downq EXCEPT ![c] = Append(@, 0)] /\ closed' = closed
         \/ /\ upq[c] # <<>> /\ upq' = [upq EXCEPT ![c] = Tail(@)] /\ I!Done(c)
            /\ downq' = [downq EXCEPT ![c] = Append(@, Ports + 1)]
            /\ closed' = closed \cup {c} /\ client' = [client EXCEPT ![k].connfd = 0]
         \/ /\ upq[c] = <<>> /\ UNCHANGED <<upq, downq>>
            /\ ipc' = "dead" /\ UNCHANGED <<client, closed, rset, nready>>
         \/ /\ upq[c] = <<>> /\ UNCHANGED <<upq, downq>> /\ I!Done(c)
            /\ closed' = closed \cup {c} /\ client' = [client EXCEPT ![k].connfd = 0]
  BY DEF I!ReadableConn, I!cli, I!None, I!Yes, I!No
<1>4. /\ c \notin closed /\ (upq[c] # <<>> \/ icpc[c] = "gone") /\ icpc[c] # "start"
      /\ (\A j \in 1..Slots : client[j].connfd = c => j = k)
      /\ \A i \in 1..Len(backlog) : backlog[i] # c
  BY <1>0, <1>2 DEF OnePlace, Due, Unheard
<1>5. upq[c] # <<>> => Tail(upq[c]) = <<>> /\ ~HasYes(downq[c]) /\ icpc[c] \notin Answerable \cup {"pass"}
  <2>1. Tail(<<"fd">>) = <<>> /\ Tail(<<"byte">>) = <<>>
    OBVIOUS
  <2>2. QED BY <1>0, <1>1, <1>2, <2>1 DEF Known
<1>6. c \in I!Connected
  BY <1>2 DEF I!Connected, I!None
<1>7. downq[c] \in Seq(Nat) /\ OwnAfterYes(downq[c], port[c]) /\ port[c] \in Nat
  BY <1>0, <1>1, <1>2 DEF OwnOnes
<1> HIDE DEF c, k
\* What holds of all these cases.
<1>8. /\ \A d \in 1..MaxClients : d # c => upq'[d] = upq[d] /\ downq'[d] = downq[d]
      /\ upq' \in [1..MaxClients -> {<<>>, <<"fd">>, <<"byte">>}] /\ upq'[c] = <<>>
      /\ downq' \in [1..MaxClients -> Seq(Nat)] /\ OwnAfterYes(downq'[c], port[c])
      /\ downq' = downq \/ (icpc[c] \notin Answerable \cup {"pass"})
  <2>1. /\ OwnAfterYes(Append(downq[c], 0), port[c]) \/ HasYes(downq[c])
        /\ OwnAfterYes(Append(downq[c], Ports + 1), port[c]) \/ HasYes(downq[c])
        /\ Append(downq[c], 0) \in Seq(Nat) /\ Append(downq[c], Ports + 1) \in Seq(Nat)
    BY <1>1, <1>7, StreamAppend
  <2>2. upq' \in [1..MaxClients -> {<<>>, <<"fd">>, <<"byte">>}] /\ upq'[c] = <<>>
        /\ \A d \in 1..MaxClients : d # c => upq'[d] = upq[d]
    BY <1>1, <1>2, <1>3, <1>5
  <2>3. CASE downq' = downq
    BY <1>1, <1>7, <2>2, <2>3
  <2>4. ASSUME NEW x \in {0, Ports + 1}, downq' = [downq EXCEPT ![c] = Append(@, x)], upq[c] # <<>>
        PROVE  /\ downq' \in [1..MaxClients -> Seq(Nat)] /\ OwnAfterYes(downq'[c], port[c])
               /\ \A d \in 1..MaxClients : d # c => downq'[d] = downq[d]
    <3>1. OwnAfterYes(Append(downq[c], x), port[c]) /\ Append(downq[c], x) \in Seq(Nat)
      BY <1>5, <2>1, <2>4
    <3>2. QED BY <1>1, <1>2, <2>4, <3>1
  <2>5. downq' = downq \/ (upq[c] # <<>> /\ \E x \in {0, Ports + 1} : downq' = [downq EXCEPT ![c] = Append(@, x)])
    BY <1>3
  <2>6. QED BY <1>5, <2>2, <2>3, <2>4, <2>5
<1>9. /\ client' \in [1..Slots -> [connfd : 0..MaxClients, lport : Nat]]
      /\ \A j \in 1..Slots : j # k => client'[j] = client[j]
      /\ \/ client'[k].connfd = c /\ closed' = closed
            /\ ((client' = client /\ downq' = downq) \/ client'[k].lport = port[c])
         \/ client'[k].connfd = 0 /\ closed' = closed \cup {c}
      /\ HasYes(downq'[c]) => HasYes(downq[c]) \/ client'[k].connfd = 0 \/ client'[k].lport = port[c]
  <2>1. client[k] \in [connfd : 0..MaxClients, lport : Nat] /\ client[k].connfd = c
    BY <1>1, <1>2 DEF c
  <2>2. CASE client' = client /\ closed' = closed /\ downq' = downq
    BY <1>1, <2>1, <2>2
  <2>3. CASE client' = [client EXCEPT ![k].lport = port[c]] /\ closed' = closed
    <3>1. client'[k] = [client[k] EXCEPT !.lport = port[c]] /\ \A j \in 1..Slots : j # k => client'[j] = client[j]
      BY <1>1, <1>2, <2>3
    <3>2. client'[k] \in [connfd : 0..MaxClients, lport : Nat] /\ client'[k].connfd = c /\ client'[k].lport = port[c]
      BY <1>7, <2>1, <3>1
    <3>3. client' \in [1..Slots -> [connfd : 0..MaxClients, lport : Nat]]
      BY <1>1, <1>2, <2>3, <3>1, <3>2
    <3>4. QED BY <2>3, <3>1, <3>2, <3>3
  <2>4. CASE client' = [client EXCEPT ![k].connfd = 0] /\ closed' = closed \cup {c}
    <3>1. client'[k] = [client[k] EXCEPT !.connfd = 0] /\ \A j \in 1..Slots : j # k => client'[j] = client[j]
      BY <1>1, <1>2, <2>4
    <3>2. client'[k] \in [connfd : 0..MaxClients, lport : Nat] /\ client'[k].connfd = 0
      <4>1. 0 \in 0..MaxClients
        BY <1>1
      <4>2. QED BY <2>1, <3>1, <4>1
    <3>3. client' \in [1..Slots -> [connfd : 0..MaxClients, lport : Nat]]
      BY <1>1, <1>2, <2>4, <3>1, <3>2
    <3>4. QED BY <2>4, <3>1, <3>2, <3>3
  <2>5. QED BY <1>3, <2>2, <2>3, <2>4
<1>10. Due' /\ rset' \subseteq rset
  <2>1. CASE I!Done(c)
    <3>1. maxi' \in maxi..Slots
      BY <1>1, <1>3
    <3>2. \A j \in 1..Slots : client'[j].connfd = client[j].connfd \/ client[j].connfd \in {0, c}
      BY <1>9 DEF c
    <3>3. ipc \notin {"dead", "quit"}
      BY DEF I!ReadableConn
    <3>4. QED BY <1>3, <1>8, <1>9, <2>1, <3>1, <3>2, <3>3, DoneTurn
  <2>2. CASE ipc' = "dead" /\ rset' = rset
    <3>1. icpc[c] = "gone"
      BY <1>3, <1>4, <2>2 DEF I!Gone, I!Done, I!After
    <3>2. \A d \in rset' \cap (1..MaxClients) : upq'[d] # <<>> \/ icpc'[d] = "gone"
      BY <1>0, <1>3, <1>8, <2>2, <3>1 DEF Due
    <3>3. QED BY <2>2, <3>2 DEF Due
  <2>3. QED BY <1>3, <2>1, <2>2
<1>11. IcTypeOK'
  <2>1. closed' \subseteq 1..MaxClients /\ rset' \subseteq 0 .. MaxClients + 1
    BY <1>0, <1>2, <1>9, <1>10 DEF IcTypeOK
  <2>2. QED BY <1>0, <1>3, <1>8, <1>9, <2>1 DEF IcTypeOK
<1>12. OnePlace'
  <2>1. \A j \in 1..Slots : client'[j].connfd = client[j].connfd \/ (client'[j].connfd = 0 /\ j = k /\ closed' = closed \cup {c})
    BY <1>9 DEF c
  <2>2. \A i, j \in 1..Slots : client'[i].connfd = client'[j].connfd /\ client'[i].connfd # 0 => i = j
    BY <1>0, <2>1 DEF OnePlace
  <2>3. 0 \notin closed'
    BY <1>11 DEF IcTypeOK
  <2>4. \A j \in 1..Slots : client'[j].connfd \notin closed'
    BY <1>0, <1>4, <1>9, <2>1, <2>3 DEF OnePlace
  <2>5. \A i \in 1..Len(backlog) : backlog[i] # 0
    <3>1. backlog \in Seq(1..MaxClients)
      BY <1>0 DEF IcTypeOK
    <3>2. \A i \in 1..Len(backlog) : backlog[i] \in 1..MaxClients
      BY <3>1, QueueIn
    <3>3. QED BY <3>2
  <2>6. \A i \in 1..Len(backlog) : backlog[i] \notin closed' /\ \A j \in 1..Slots : client'[j].connfd # backlog[i]
    BY <1>0, <1>4, <1>9, <2>1, <2>5 DEF OnePlace
  <2>7. QED BY <1>0, <1>3, <2>2, <2>4, <2>6 DEF OnePlace
<1>13. Unheard'
  <2>1. backlog \in Seq(1..MaxClients)
    BY <1>0 DEF IcTypeOK
  <2>2. \A i \in 1..Len(backlog) : downq'[backlog[i]] = <<>> /\ icpc[backlog[i]] \in {"pass", "reply", "gone"}
    <3>1. \A i \in 1..Len(backlog) : backlog[i] \in 1..MaxClients /\ backlog[i] # c
      BY <1>4, <2>1, QueueIn
    <3>2. QED BY <1>0, <1>8, <3>1 DEF Unheard
  <2>3. ASSUME NEW d \in 1..MaxClients, icpc[d] = "start"
        PROVE  /\ d \notin closed' /\ downq'[d] = <<>> /\ upq'[d] = <<>>
               /\ (\A j \in 1..Slots : client'[j].connfd # d) /\ \A i \in 1..Len(backlog) : backlog[i] # d
    <3>1. /\ d \notin closed /\ downq[d] = <<>> /\ upq[d] = <<>>
          /\ (\A j \in 1..Slots : client[j].connfd # d) /\ \A i \in 1..Len(backlog) : backlog[i] # d
      BY <1>0, <2>3 DEF Unheard
    <3>2. d # c /\ d # 0
      BY <1>4, <2>3
    <3>3. QED BY <1>8, <1>9, <3>1, <3>2
  <2>4. QED BY <1>3, <2>2, <2>3 DEF Unheard
<1>14. Known' /\ OwnOnes'
  <2>1. ASSUME NEW d \in 1..MaxClients
        PROVE  /\ icpc[d] = "pass" => upq'[d] = <<>> /\ ~HasYes(downq'[d])
               /\ icpc[d] \in Answerable \/ HasYes(downq'[d]) =>
                    upq'[d] = <<>> /\ \A j \in 1..Slots : client'[j].connfd = d => client'[j].lport = port[d]
               /\ icpc[d] \in Answerable => OwnOnly(downq'[d], port[d])
               /\ OwnAfterYes(downq'[d], port[d])
    <3>1. /\ icpc[d] = "pass" => upq[d] = <<>> /\ ~HasYes(downq[d])
          /\ icpc[d] \in Answerable \/ HasYes(downq[d]) =>
               upq[d] = <<>> /\ \A j \in 1..Slots : client[j].connfd = d => client[j].lport = port[d]
          /\ icpc[d] \in Answerable => OwnOnly(downq[d], port[d])
          /\ OwnAfterYes(downq[d], port[d])
      BY <1>0 DEF Known, OwnOnes
    <3>2. CASE d # c
      <4>1. upq'[d] = upq[d] /\ downq'[d] = downq[d]
        BY <1>8, <3>2
      <4>2. \A j \in 1..Slots : client'[j].connfd = d => client'[j] = client[j]
        BY <1>9, <3>2
      <4>3. QED BY <3>1, <4>1, <4>2
    <3>3. CASE d = c
      <4>1. icpc[d] = "pass" => upq'[d] = <<>> /\ ~HasYes(downq'[d])
        BY <1>8, <3>1, <3>3
      <4>2. icpc[d] \in Answerable => OwnOnly(downq'[d], port[d])
        BY <1>8, <3>1, <3>3
      <4>3. ASSUME icpc[d] \in Answerable \/ HasYes(downq'[d]), NEW j \in 1..Slots, client'[j].connfd = d
            PROVE  client'[j].lport = port[d]
        <5>1. client[j].connfd = d /\ j = k /\ client'[k].connfd # 0
          BY <1>2, <1>4, <1>9, <3>3, <4>3 DEF c
        <5>2. client'[k].lport = port[c] \/ (client'[k] = client[k] /\ downq' = downq)
          BY <1>9, <5>1
        <5>3. QED BY <3>1, <3>3, <4>3, <5>1, <5>2
      <4>4. QED BY <1>8, <3>3, <4>1, <4>2, <4>3
    <3>4. QED BY <3>2, <3>3
  <2>2. QED BY <1>3, <2>1 DEF Known, OwnOnes
<1>15. ipc' = "dead" => \E d \in I!Connected : I!Gone(d) /\ d \notin closed
  <2>1. ipc' = "dead" => I!Gone(c)
    BY <1>3, <1>4 DEF I!Done, I!After, I!Gone
  <2>2. QED BY <1>4, <1>6, <2>1
<1>16. QED BY <1>10, <1>11, <1>12, <1>13, <1>14, <1>15 DEF IcInv

\* A client sends a datagram, hears of one, takes its answer, or ends.
LEMMA IcClientGoesOn ==
  ASSUME IcInv, NEW c \in 1..MaxClients, icpc[c] \notin {"start", "gone"},
         \E l \in {"gone", "idle", "wait", "answered"} :
           icpc' = [icpc EXCEPT ![c] = l] /\ (l = "gone" \/ icpc[c] \in Answerable \/ (downq[c] # <<>> /\ Head(downq[c]) = 0)),
         downq' = downq \/ (downq[c] # <<>> /\ downq' = [downq EXCEPT ![c] = Tail(@)]),
         icpc'[c] = "gone" \/ icpc[c] \in Answerable \/ downq' # downq,
         iflight' \subseteq iflight \cup {0, port[c]},
         UNCHANGED <<client, maxi, rset, nready, ipc, backlog, upq, closed, port, rawq>>
  PROVE  IcInv'
<1>0. IcTypeOK /\ OnePlace /\ Unheard /\ Known /\ Due /\ OwnOnes
  BY DEF IcInv
<1>1. /\ icpc \in [1..MaxClients -> {"start", "pass", "reply", "gone"} \cup Answerable]
      /\ downq \in [1..MaxClients -> Seq(Nat)] /\ port \in [1..MaxClients -> Nat] /\ iflight \subseteq Nat
      /\ backlog \in Seq(1..MaxClients)
  BY <1>0 DEF IcTypeOK
<1>2. PICK l \in {"gone", "idle", "wait", "answered"} :
        icpc' = [icpc EXCEPT ![c] = l] /\ (l = "gone" \/ icpc[c] \in Answerable \/ (downq[c] # <<>> /\ Head(downq[c]) = 0))
  OBVIOUS
<1>3. /\ icpc'[c] = l /\ \A d \in 1..MaxClients : d # c => icpc'[d] = icpc[d]
      /\ icpc' \in [1..MaxClients -> {"start", "pass", "reply", "gone"} \cup Answerable]
  BY <1>1, <1>2 DEF Answerable
<1>4. downq[c] \in Seq(Nat) /\ port[c] \in Nat /\ OwnAfterYes(downq[c], port[c])
      /\ (icpc[c] \in Answerable => OwnOnly(downq[c], port[c]))
      /\ (icpc[c] \in Answerable \/ HasYes(downq[c]) =>
            upq[c] = <<>> /\ \A k \in 1..Slots : client[k].connfd = c => client[k].lport = port[c])
  BY <1>0, <1>1 DEF OwnOnes, Known
<1>5. /\ downq' \in [1..MaxClients -> Seq(Nat)] /\ (\A d \in 1..MaxClients : d # c => downq'[d] = downq[d])
      /\ (downq' = downq \/ (downq[c] # <<>> /\ downq'[c] = Tail(downq[c])))
      /\ (downq[c] = <<>> => downq'[c] = <<>>)
  <2>1. CASE downq' = downq
    BY <1>1, <2>1
  <2>2. CASE downq[c] # <<>> /\ downq' = [downq EXCEPT ![c] = Tail(@)]
    <3>1. Tail(downq[c]) \in Seq(Nat)
      BY <1>4, <2>2, StreamTail
    <3>2. QED BY <1>1, <2>2, <3>1
  <2>3. QED BY <2>1, <2>2
<1>6. /\ OwnAfterYes(downq'[c], port[c]) /\ (HasYes(downq'[c]) => HasYes(downq[c]))
      /\ (icpc'[c] \in Answerable => OwnOnly(downq'[c], port[c]) /\ (icpc[c] \in Answerable \/ HasYes(downq[c])))
  <2>1. CASE downq' = downq
    <3>1. icpc'[c] = "gone" \/ icpc[c] \in Answerable
      BY <2>1
    <3>2. "gone" \notin Answerable
      BY DEF Answerable
    <3>3. QED BY <1>4, <2>1, <3>1, <3>2
  <2>2. CASE downq[c] # <<>> /\ downq'[c] = Tail(downq[c])
    <3>1. /\ OwnOnly(downq[c], port[c]) => OwnOnly(downq'[c], port[c])
          /\ OwnAfterYes(downq'[c], port[c])
          /\ Head(downq[c]) = 0 => OwnOnly(downq'[c], port[c]) /\ HasYes(downq[c])
          /\ HasYes(downq'[c]) => HasYes(downq[c])
      BY <1>4, <2>2, StreamTail
    <3>2. icpc'[c] \in Answerable => icpc[c] \in Answerable \/ Head(downq[c]) = 0
      BY <1>2, <1>3 DEF Answerable
    <3>3. QED BY <1>4, <3>1, <3>2
  <2>3. QED BY <1>5, <2>1, <2>2
<1>7. IcTypeOK'
  <2>1. iflight' \subseteq Nat
    BY <1>1, <1>4
  <2>2. QED BY <1>0, <1>3, <1>5, <2>1 DEF IcTypeOK
<1>8. OnePlace'
  BY <1>0 DEF OnePlace
<1>9. Unheard'
  <2>1. \A i \in 1..Len(backlog) : downq'[backlog[i]] = <<>> /\ icpc'[backlog[i]] \in {"pass", "reply", "gone"}
    <3>1. ASSUME NEW i \in 1..Len(backlog) PROVE downq'[backlog[i]] = <<>> /\ icpc'[backlog[i]] \in {"pass", "reply", "gone"}
      <4>1. backlog[i] \in 1..MaxClients /\ downq[backlog[i]] = <<>> /\ icpc[backlog[i]] \in {"pass", "reply", "gone"}
        BY <1>0, <1>1, QueueIn DEF Unheard
      <4>2. CASE backlog[i] = c
        BY <1>2, <1>3, <1>5, <4>1, <4>2 DEF Answerable
      <4>3. CASE backlog[i] # c
        BY <1>3, <1>5, <4>1, <4>3
      <4>4. QED BY <4>2, <4>3
    <3>2. QED BY <3>1
  <2>2. \A d \in 1..MaxClients : icpc'[d] = "start" => d # c /\ icpc[d] = "start" /\ downq'[d] = downq[d]
    BY <1>3, <1>5
  <2>3. QED BY <1>0, <2>1, <2>2 DEF Unheard
<1>10. Known' /\ OwnOnes'
  <2>1. ASSUME NEW d \in 1..MaxClients
        PROVE  /\ icpc'[d] = "pass" => upq[d] = <<>> /\ ~HasYes(downq'[d])
               /\ icpc'[d] \in Answerable \/ HasYes(downq'[d]) =>
                    upq[d] = <<>> /\ \A j \in 1..Slots : client[j].connfd = d => client[j].lport = port[d]
               /\ icpc'[d] \in Answerable => OwnOnly(downq'[d], port[d])
               /\ OwnAfterYes(downq'[d], port[d])
    <3>1. CASE d # c
      BY <1>0, <1>3, <1>5, <3>1 DEF Known, OwnOnes
    <3>2. CASE d = c
      BY <1>3, <1>4, <1>6, <3>2
    <3>3. QED BY <3>1, <3>2
  <2>2. QED BY <2>1 DEF Known, OwnOnes
<1>11. Due'
  <2>1. \A d \in 1..MaxClients : icpc[d] = "gone" => icpc'[d] = "gone"
    BY <1>3
  <2>2. I!Turn(rset)' = I!Turn(rset)
    BY DEF I!Turn
  <2>3. QED BY <1>0, <2>1, <2>2 DEF Due
<1>12. QED BY <1>7, <1>8, <1>9, <1>10, <1>11 DEF IcInv

\* A client connects, from a port that it keeps.
LEMMA IcConnect ==
  ASSUME IcInv, NEW c \in 1..MaxClients, I!Connect(c)
  PROVE  IcInv'
<1>0. IcTypeOK /\ OnePlace /\ Unheard /\ Known /\ Due /\ OwnOnes
  BY DEF IcInv
<1>1. /\ icpc \in [1..MaxClients -> {"start", "pass", "reply", "gone"} \cup Answerable]
      /\ port \in [1..MaxClients -> Nat] /\ backlog \in Seq(1..MaxClients) /\ Ports \in Nat
  BY <1>0, DatagramsAssumption DEF IcTypeOK, I!IcmpdAssumption
<1>2. PICK p \in I!Ephemeral : port' = [port EXCEPT ![c] = p]
  BY DEF I!Connect
<1>3. /\ icpc[c] = "start"
      /\ \/ icpc' = [icpc EXCEPT ![c] = "gone"] /\ backlog' = backlog
         \/ icpc' = [icpc EXCEPT ![c] = "pass"] /\ backlog' = Append(backlog, c)
      /\ UNCHANGED <<client, maxi, rset, nready, ipc, upq, downq, closed, iflight, rawq>>
  BY DEF I!Connect, I!Goto, I!Own, I!daemon
<1>4. p \in Nat
  <2> DEFINE old == {port[d] : d \in {e \in 1..MaxClients : I!Gone(e)}}
             inuse == {port[d] : d \in {e \in 1..MaxClients : ~I!Gone(e)}}
             new == (1..Ports) \ (old \cup inuse)
  <2>1. old \subseteq Nat
    BY <1>1
  <2>2. new \in SUBSET Nat
    BY <1>1
  <2>3. p \in old \/ (new # {} /\ p = I!First(new))
    BY <1>2 DEF I!Ephemeral, I!Clients, I!Addrs
  <2> HIDE DEF new
  <2>4. new # {} => I!First(new) \in new
    BY <2>2, FirstIsIn
  <2>5. QED BY <2>1, <2>2, <2>3, <2>4
<1>5. /\ c \notin closed /\ downq[c] = <<>> /\ upq[c] = <<>> /\ ~HasYes(downq[c])
      /\ (\A k \in 1..Slots : client[k].connfd # c) /\ \A i \in 1..Len(backlog) : backlog[i] # c
  BY <1>0, <1>3 DEF Unheard, HasYes
<1>6. /\ icpc'[c] \in {"gone", "pass"} /\ \A d \in 1..MaxClients : d # c => icpc'[d] = icpc[d] /\ port'[d] = port[d]
      /\ icpc' \in [1..MaxClients -> {"start", "pass", "reply", "gone"} \cup Answerable]
      /\ port' \in [1..MaxClients -> Nat]
  BY <1>1, <1>2, <1>3, <1>4
<1>7. /\ backlog' \in Seq(1..MaxClients) /\ Len(backlog) \in Nat
      /\ \A i \in 1..Len(backlog') : \/ i \in 1..Len(backlog) /\ backlog'[i] = backlog[i]
                                     \/ i = Len(backlog) + 1 /\ backlog'[i] = c /\ icpc'[c] = "pass"
  <2>1. Len(backlog) \in Nat
    BY <1>1
  <2>2. CASE backlog' = backlog
    BY <1>1, <2>1, <2>2
  <2>3. CASE icpc' = [icpc EXCEPT ![c] = "pass"] /\ backlog' = Append(backlog, c)
    <3>1. icpc'[c] = "pass"
      BY <1>1, <2>3
    <3>2. /\ Append(backlog, c) \in Seq(1..MaxClients) /\ Len(Append(backlog, c)) = Len(backlog) + 1
          /\ \A k \in 1..Len(backlog) : Append(backlog, c)[k] = backlog[k]
          /\ Append(backlog, c)[Len(backlog) + 1] = c
      BY <1>1, SeqFacts
    <3>3. QED BY <2>1, <2>3, <3>1, <3>2
  <2>4. QED BY <1>3, <2>2, <2>3
<1>8. IcTypeOK'
  BY <1>0, <1>3, <1>6, <1>7 DEF IcTypeOK
<1>9. OnePlace'
  <2>1. \A i, j \in 1..Len(backlog') : backlog'[i] = backlog'[j] => i = j
    BY <1>0, <1>5, <1>7 DEF OnePlace
  <2>2. \A i \in 1..Len(backlog') : backlog'[i] \notin closed /\ \A k \in 1..Slots : client[k].connfd # backlog'[i]
    BY <1>0, <1>5, <1>7 DEF OnePlace
  <2>3. QED BY <1>0, <1>3, <2>1, <2>2 DEF OnePlace
<1>10. Unheard'
  <2>1. ASSUME NEW i \in 1..Len(backlog')
        PROVE  downq[backlog'[i]] = <<>> /\ icpc'[backlog'[i]] \in {"pass", "reply", "gone"}
    <3>1. CASE i \in 1..Len(backlog) /\ backlog'[i] = backlog[i]
      <4>1. backlog[i] \in 1..MaxClients /\ backlog[i] # c
        BY <1>1, <1>5, <3>1, QueueIn
      <4>2. QED BY <1>0, <1>6, <3>1, <4>1 DEF Unheard
    <3>2. CASE backlog'[i] = c /\ icpc'[c] = "pass"
      BY <1>5, <3>2
    <3>3. QED BY <1>7, <3>1, <3>2
  <2>2. \A d \in 1..MaxClients : icpc'[d] = "start" => d # c /\ icpc[d] = "start"
    BY <1>6
  <2>3. QED BY <1>0, <1>3, <1>7, <2>1, <2>2 DEF Unheard
<1>11. Known' /\ OwnOnes'
  <2>1. ASSUME NEW d \in 1..MaxClients
        PROVE  /\ icpc'[d] = "pass" => upq[d] = <<>> /\ ~HasYes(downq[d])
               /\ icpc'[d] \in Answerable \/ HasYes(downq[d]) =>
                    upq[d] = <<>> /\ \A j \in 1..Slots : client[j].connfd = d => client[j].lport = port'[d]
               /\ icpc'[d] \in Answerable => OwnOnly(downq[d], port'[d])
               /\ OwnAfterYes(downq[d], port'[d])
    <3>1. CASE d # c
      BY <1>0, <1>6, <3>1 DEF Known, OwnOnes
    <3>2. CASE d = c
      BY <1>5, <1>6, <3>2 DEF Answerable, OwnAfterYes
    <3>3. QED BY <3>1, <3>2
  <2>2. QED BY <1>3, <2>1 DEF Known, OwnOnes
<1>12. Due'
  <2>1. \A d \in 1..MaxClients : icpc[d] = "gone" => icpc'[d] = "gone"
    BY <1>3, <1>6
  <2>2. I!Turn(rset)' = I!Turn(rset)
    BY <1>3 DEF I!Turn
  <2>3. Append(backlog, c) # <<>>
    BY <1>1
  <2>4. backlog # <<>> => backlog' # <<>>
    BY <1>3, <2>3
  <2>5. QED BY <1>0, <1>3, <2>1, <2>2, <2>4 DEF Due
<1>13. QED BY <1>8, <1>9, <1>10, <1>11, <1>12 DEF IcInv

\* A client sends the daemon its socket, or another program a byte without one.
LEMMA IcPass ==
  ASSUME IcInv, NEW c \in 1..MaxClients, I!Pass(c)
  PROVE  IcInv'
<1>0. IcTypeOK /\ OnePlace /\ Unheard /\ Known /\ Due /\ OwnOnes
  BY DEF IcInv
<1>1. /\ icpc \in [1..MaxClients -> {"start", "pass", "reply", "gone"} \cup Answerable]
      /\ upq \in [1..MaxClients -> {<<>>, <<"fd">>, <<"byte">>}] /\ backlog \in Seq(1..MaxClients)
  BY <1>0 DEF IcTypeOK
<1>2. /\ icpc[c] = "pass"
      /\ \/ icpc' = [icpc EXCEPT ![c] = "gone"] /\ upq' = upq
         \/ icpc' = [icpc EXCEPT ![c] = "reply"] /\ \E m \in {"fd", "byte"} : upq' = [upq EXCEPT ![c] = Append(@, m)]
      /\ UNCHANGED <<client, maxi, rset, nready, ipc, backlog, downq, closed, port, iflight, rawq>>
  BY DEF I!Pass, I!Goto, I!Own, I!daemon
<1>3. upq[c] = <<>> /\ ~HasYes(downq[c])
  BY <1>0, <1>2 DEF Known
<1>4. Append(<<>>, "fd") = <<"fd">> /\ Append(<<>>, "byte") = <<"byte">>
  OBVIOUS
<1>5. /\ upq' \in [1..MaxClients -> {<<>>, <<"fd">>, <<"byte">>}]
      /\ \A d \in 1..MaxClients : d # c => upq'[d] = upq[d] /\ icpc'[d] = icpc[d]
      /\ icpc'[c] \in {"gone", "reply"}
      /\ icpc' \in [1..MaxClients -> {"start", "pass", "reply", "gone"} \cup Answerable]
  BY <1>1, <1>2, <1>3, <1>4
<1>6. IcTypeOK' /\ OnePlace'
  BY <1>0, <1>2, <1>5 DEF IcTypeOK, OnePlace
<1>7. Unheard'
  <2>1. \A i \in 1..Len(backlog) : icpc'[backlog[i]] \in {"pass", "reply", "gone"}
    <3>1. ASSUME NEW i \in 1..Len(backlog) PROVE icpc'[backlog[i]] \in {"pass", "reply", "gone"}
      <4>1. backlog[i] \in 1..MaxClients /\ icpc[backlog[i]] \in {"pass", "reply", "gone"}
        BY <1>0, <1>1, QueueIn DEF Unheard
      <4>2. CASE backlog[i] = c
        BY <1>5, <4>2
      <4>3. CASE backlog[i] # c
        BY <1>5, <4>1, <4>3
      <4>4. QED BY <4>2, <4>3
    <3>2. QED BY <3>1
  <2>2. \A d \in 1..MaxClients : icpc'[d] = "start" => d # c /\ icpc[d] = "start" /\ upq'[d] = upq[d]
    BY <1>5
  <2>3. QED BY <1>0, <1>2, <2>1, <2>2 DEF Unheard
<1>8. Known' /\ OwnOnes'
  <2>1. ASSUME NEW d \in 1..MaxClients
        PROVE  /\ icpc'[d] = "pass" => upq'[d] = <<>> /\ ~HasYes(downq[d])
               /\ icpc'[d] \in Answerable \/ HasYes(downq[d]) =>
                    upq'[d] = <<>> /\ \A j \in 1..Slots : client[j].connfd = d => client[j].lport = port[d]
               /\ icpc'[d] \in Answerable => OwnOnly(downq[d], port[d])
               /\ OwnAfterYes(downq[d], port[d])
    <3>1. CASE d # c
      BY <1>0, <1>5, <3>1 DEF Known, OwnOnes
    <3>2. CASE d = c
      BY <1>0, <1>3, <1>5, <3>2 DEF Answerable, OwnOnes
    <3>3. QED BY <3>1, <3>2
  <2>2. QED BY <1>2, <2>1 DEF Known, OwnOnes
<1>9. Due'
  <2>1. \A d \in 1..MaxClients : upq[d] # <<>> \/ icpc[d] = "gone" => upq'[d] # <<>> \/ icpc'[d] = "gone"
    BY <1>2, <1>3, <1>5
  <2>2. I!Turn(rset)' = I!Turn(rset)
    BY <1>2 DEF I!Turn
  <2>3. QED BY <1>0, <1>2, <2>1, <2>2 DEF Due
<1>10. QED BY <1>6, <1>7, <1>8, <1>9 DEF IcInv

\* Every step keeps the invariant, and the daemon dies of a client that has ended.
LEMMA IcStep ==
  ASSUME IcInv, [I!Next]_(I!vars)
  PROVE  /\ IcInv'
         /\ ipc # "dead" /\ ipc' = "dead" => \E c \in I!Connected : I!Gone(c) /\ c \notin closed
<1>0. IcTypeOK /\ OnePlace /\ Unheard /\ Known /\ Due /\ OwnOnes
  BY DEF IcInv
<1>1. CASE I!Select
  BY <1>1, IcSelect
<1>2. CASE I!ReadableListen
  <2>1. backlog # <<>>
    BY <1>0, <1>2 DEF Due, I!ReadableListen
  <2>2. QED BY <1>2, <2>1, IcListen
<1>3. CASE I!ReadableRaw
  <2>1. rawq # <<>>
    BY <1>0, <1>3 DEF Due, I!ReadableRaw
  <2>2. QED BY <1>3, <2>1, IcRaw
<1>4. CASE I!ReadableConn
  BY <1>4, IcConn
<1>5. ASSUME NEW c \in 1..MaxClients, I!Client(c)
      PROVE  IcInv' /\ ipc' = ipc
  <2>1. CASE I!Connect(c)
    BY <2>1, IcConnect DEF I!Connect, I!Own, I!daemon
  <2>2. CASE I!Pass(c)
    BY <2>2, IcPass DEF I!Pass, I!Own, I!daemon
  <2>3. CASE I!ReadReply(c)
    <3>1. /\ icpc[c] = "reply" /\ UNCHANGED <<client, maxi, rset, nready, ipc, backlog, upq, closed, port, rawq, iflight>>
          /\ \/ /\ downq[c] # <<>> /\ Head(downq[c]) = 0 /\ icpc' = [icpc EXCEPT ![c] = "idle"]
                /\ downq' = [downq EXCEPT ![c] = Tail(@)]
             \/ icpc' = [icpc EXCEPT ![c] = "gone"] /\ downq' = downq
      BY <2>3 DEF I!ReadReply, I!Goto, I!Own, I!daemon, I!Yes
    <3>2. icpc'[c] = "gone" \/ downq' # downq
      <4>1. CASE downq[c] # <<>> /\ downq' = [downq EXCEPT ![c] = Tail(@)]
        <5>1. downq \in [1..MaxClients -> Seq(Nat)]
          BY <1>0 DEF IcTypeOK
        <5>2. downq'[c] = Tail(downq[c]) /\ downq[c] \in Seq(Nat)
          BY <4>1, <5>1
        <5>3. Tail(downq[c]) # downq[c]
          <6>1. Len(Tail(downq[c])) = Len(downq[c]) - 1 /\ Len(downq[c]) \in Nat
            BY <4>1, <5>2
          <6>2. Len(Tail(downq[c])) # Len(downq[c])
            BY <6>1
          <6>3. QED BY <6>2
        <5>4. QED BY <5>2, <5>3
      <4>2. CASE icpc' = [icpc EXCEPT ![c] = "gone"]
        BY <1>0, <4>2 DEF IcTypeOK
      <4>3. QED BY <3>1, <4>1, <4>2
    <3>3. QED BY <3>1, <3>2, IcClientGoesOn
  <2>4. CASE I!Sendto(c)
    <3>1. /\ icpc[c] = "idle" /\ \E l \in {"answered", "wait"} : icpc' = [icpc EXCEPT ![c] = l]
          /\ iflight' \subseteq iflight \cup {0, port[c]}
          /\ UNCHANGED <<client, maxi, rset, nready, ipc, backlog, upq, downq, closed, port, rawq>>
      BY <2>4 DEF I!Sendto, I!Goto, I!Own, I!daemon, I!None
    <3>2. QED BY <3>1, IcClientGoesOn DEF Answerable
  <2>5. CASE I!Selected(c)
    <3>1. /\ icpc[c] \in {"wait", "answered"} /\ \E l \in {"idle", "gone"} : icpc' = [icpc EXCEPT ![c] = l]
          /\ downq' = downq \/ (downq[c] # <<>> /\ downq' = [downq EXCEPT ![c] = Tail(@)])
          /\ UNCHANGED <<client, maxi, rset, nready, ipc, backlog, upq, closed, port, rawq, iflight>>
      BY <2>5 DEF I!Selected, I!Goto, I!Own, I!daemon
    <3>2. QED BY <3>1, IcClientGoesOn DEF Answerable
  <2>6. CASE I!Exit(c)
    <3>1. /\ icpc[c] \notin {"start", "gone"} /\ icpc' = [icpc EXCEPT ![c] = "gone"]
          /\ UNCHANGED <<client, maxi, rset, nready, ipc, backlog, upq, downq, closed, port, rawq, iflight>>
      BY <2>6 DEF I!Exit, I!Goto, I!Own, I!daemon
    <3>2. icpc'[c] = "gone"
      BY <1>0, <3>1 DEF IcTypeOK
    <3>3. QED BY <3>1, <3>2, IcClientGoesOn
  <2>7. QED BY <1>5, <2>1, <2>2, <2>3, <2>4, <2>5, <2>6 DEF I!Client
<1>6. CASE I!Arrive \/ I!SendShort \/ UNCHANGED I!vars
  <2>1. /\ UNCHANGED <<client, maxi, rset, ipc, backlog, upq, downq, closed, icpc, port>>
        /\ \/ iflight' = iflight /\ rawq' = Append(rawq, Ports + 2)
           \/ \E e \in iflight : iflight' = iflight \ {e} /\ rawq' = Append(rawq, e)
           \/ UNCHANGED <<iflight, rawq>>
    BY <1>6 DEF I!Arrive, I!SendShort, I!Short, I!vars, I!daemon, I!cli
  <2>2. rawq \in Seq(Nat) /\ iflight \subseteq Nat /\ Ports + 2 \in Nat
    BY <1>0, DatagramsAssumption DEF IcTypeOK, I!IcmpdAssumption
  <2>3. rawq' \in Seq(Nat) /\ iflight' \subseteq Nat /\ (rawq # <<>> => rawq' # <<>>)
    <3>1. \A e \in Nat : Append(rawq, e) \in Seq(Nat) /\ Append(rawq, e) # <<>>
      BY <2>2
    <3>2. QED BY <2>1, <2>2, <3>1
  <2>4. IcTypeOK' /\ OnePlace' /\ Unheard'
    BY <1>0, <2>1, <2>3 DEF IcTypeOK, OnePlace, Unheard
  <2>5. I!Turn(rset)' = I!Turn(rset)
    BY <2>1 DEF I!Turn
  <2>6. Known' /\ OwnOnes' /\ Due'
    BY <1>0, <2>1, <2>3, <2>5 DEF Known, OwnOnes, Due
  <2>7. QED BY <2>1, <2>4, <2>6 DEF IcInv
<1>7. QED BY <1>1, <1>2, <1>3, <1>4, <1>5, <1>6 DEF I!Next, I!Daemon, I!Clients

\* It holds when the daemon starts.
LEMMA IcStart ==
  ASSUME I!Init
  PROVE  IcInv
<1>1. /\ client = [k \in 1..Slots |-> [connfd |-> 0, lport |-> 0]]
      /\ maxi = 0 /\ rset = {} /\ ipc = "select" /\ backlog = <<>>
      /\ upq = [c \in 1..MaxClients |-> <<>>] /\ downq = [c \in 1..MaxClients |-> <<>>] /\ closed = {}
      /\ icpc = [c \in 1..MaxClients |-> "start"] /\ port = [c \in 1..MaxClients |-> 0]
      /\ iflight = {} /\ rawq = <<>>
  BY DEF I!Init, I!None, I!Clients
<1>2. MaxClients \in Nat /\ Slots \in Nat
  BY DatagramsAssumption DEF I!IcmpdAssumption
<1>3. <<>> \in Seq(Nat) /\ Len(backlog) = 0 /\ backlog \in Seq(1..MaxClients)
      /\ client \in [1..Slots -> [connfd : 0..MaxClients, lport : Nat]]
  BY <1>1, <1>2
<1>4. IcTypeOK
  BY <1>1, <1>2, <1>3 DEF IcTypeOK
<1>5. OnePlace /\ Unheard
  BY <1>1, <1>2, <1>3 DEF OnePlace, Unheard
<1>6. Known /\ Due /\ OwnOnes
  BY <1>1, <1>3 DEF Known, Due, OwnOnes, HasYes, OwnAfterYes, Answerable
<1>7. QED BY <1>4, <1>5, <1>6 DEF IcInv

\* What killed the daemon stays as it was: a client that has ended does not come back, and
\* nobody else has a hand on the table.
LEMMA DeadStays ==
  ASSUME IcInv, I!DiesOfTheDead, [I!Next]_(I!vars)
  PROVE  I!DiesOfTheDead'
<1> SUFFICES ASSUME ipc' = "dead" PROVE (\E c \in I!Connected : I!Gone(c) /\ c \notin closed)'
  BY DEF I!DiesOfTheDead
<1>0. IcTypeOK
  BY DEF IcInv
<1>1. PICK c \in I!Connected : I!Gone(c) /\ c \notin closed
  BY IcStep DEF I!DiesOfTheDead
<1>2. ASSUME ~I!Dead, I!Daemon PROVE client' = client /\ closed' = closed /\ icpc' = icpc
  <2>0. ipc' = "dead" /\ \A r : I!After(r) # "dead"
    BY DEF I!After
  <2>1. CASE I!Select
    BY <2>0, <2>1 DEF I!Select
  <2>2. CASE I!ReadableListen
    BY <2>0, <2>2 DEF I!ReadableListen, I!Done
  <2>3. CASE I!ReadableRaw
    BY <2>3 DEF I!ReadableRaw, I!cli
  <2>4. CASE I!ReadableConn
    BY <2>0, <2>4 DEF I!ReadableConn, I!Done, I!cli
  <2>5. QED BY <1>2, <2>1, <2>2, <2>3, <2>4 DEF I!Daemon
<1>3. ASSUME NEW d \in I!Clients, I!Client(d) PROVE client' = client /\ closed' = closed /\ (icpc[c] = "gone" => icpc'[c] = "gone")
  <2>0. icpc \in [1..MaxClients -> {"start", "pass", "reply", "gone"} \cup Answerable]
    BY <1>0 DEF IcTypeOK
  <2>1. \A l : icpc[c] = "gone" /\ I!Goto(d, l) /\ icpc[d] # "gone" => icpc'[c] = "gone"
    BY <2>0 DEF I!Goto
  <2>2. CASE I!Connect(d)
    BY <2>1, <2>2 DEF I!Connect, I!Own, I!daemon
  <2>3. CASE I!Pass(d)
    BY <2>1, <2>3 DEF I!Pass, I!Own, I!daemon
  <2>4. CASE I!ReadReply(d)
    BY <2>1, <2>4 DEF I!ReadReply, I!Own, I!daemon
  <2>5. CASE I!Sendto(d)
    BY <2>1, <2>5 DEF I!Sendto, I!Own, I!daemon
  <2>6. CASE I!Selected(d)
    BY <2>1, <2>6 DEF I!Selected, I!Own, I!daemon
  <2>7. CASE I!Exit(d)
    BY <2>1, <2>7 DEF I!Exit, I!Own, I!daemon
  <2>8. QED BY <1>3, <2>2, <2>3, <2>4, <2>5, <2>6, <2>7 DEF I!Client
<1>4. CASE I!Arrive \/ I!SendShort \/ UNCHANGED I!vars
  BY <1>1, <1>4 DEF I!Arrive, I!SendShort, I!vars, I!daemon, I!cli, I!Connected, I!Gone
<1>5. client' = client /\ closed' = closed /\ (icpc[c] = "gone" => icpc'[c] = "gone")
  BY <1>2, <1>3, <1>4 DEF I!Next, I!Arrive, I!SendShort, I!vars, I!daemon, I!cli
<1>6. QED BY <1>1, <1>5 DEF I!Connected, I!Gone

\* DaemonRight: a client that the daemon has answered is told of errors of its own
\* datagrams only, and the daemon dies of an ICMP message that is too short, or else of a
\* client that has ended without being noticed, for every number of clients, of entries
\* and of ports.
THEOREM ToldOfItsOwn == I!Spec => []DaemonRight
<1>1. IcInv => I!OwnErrors
  BY DEF IcInv, OwnOnes, OwnOnly, OwnAfterYes, Answerable, I!OwnErrors, I!Clients, I!Yes
<1>2. I!Init => IcInv
  BY IcStart
<1>3. IcInv /\ [I!Next]_(I!vars) => IcInv'
  BY IcStep
<1>4. I!Init => I!DiesOfTheDead
  BY DEF I!Init, I!DiesOfTheDead
<1>5. IcInv /\ I!DiesOfTheDead /\ [I!Next]_(I!vars) => I!DiesOfTheDead'
  BY DeadStays
<1>6. QED BY <1>1, <1>2, <1>3, <1>4, <1>5, PTL DEF I!Spec, DaemonRight, I!DaemonRight

-----------------------------------------------------------------------------
(* Definitions up to a number, and numbers less than others. *)

\* A set of numbers that is not empty has a least one.
LEMMA LeastIsIn ==
  ASSUME NEW W \in SUBSET Nat, W # {}
  PROVE  \E w \in W : \A v \in W : w <= v
<1>1. PICK w \in W : \A v \in W : <<v, w>> \notin OpToRel(<, Nat)
  BY NatLessThanWellFounded, WFMin
<1>2. \A v \in W : ~(v < w)
  BY <1>1 DEF OpToRel
<1>3. \A v \in W : w <= v
  BY <1>2
<1>4. QED BY <1>3

\* A value and a step for each number define a function up to any number.
Defined(V, a, m, F) == \E f \in [0..m -> V] : f[0] = a /\ \A k \in 0..m-1 : f[k + 1] = F[<<k, f[k]>>]
Steps(V) == [Nat \X V -> V]

LEMMA StepByStep ==
  ASSUME NEW V, NEW a \in V, NEW m \in Nat, NEW F \in Steps(V)
  PROVE  Defined(V, a, m, F)
<1> USE DEF Defined, Steps
<1> DEFINE Upto(j) == \E f \in [0..j -> V] : f[0] = a /\ \A k \in 0..j-1 : f[k + 1] = F[<<k, f[k]>>]
           Bad == {j \in 0..m : ~Upto(j)}
<1>1. SUFFICES ASSUME Bad # {} PROVE FALSE
  <2>1. m \in 0..m
    OBVIOUS
  <2>2. QED BY <2>1
<1>2. PICK j \in Bad : \A v \in Bad : j <= v
  <2>1. Bad \in SUBSET Nat
    OBVIOUS
  <2> HIDE DEF Bad
  <2>2. QED BY <1>1, <2>1, LeastIsIn
<1>3. j \in 0..m /\ ~Upto(j)
  BY <1>2
<1>4. CASE j = 0
  <2> DEFINE f == [x \in 0..0 |-> a]
  <2>1. f \in [0..0 -> V] /\ f[0] = a
    OBVIOUS
  <2>2. \A k \in 0..0-1 : f[k + 1] = F[<<k, f[k]>>]
    OBVIOUS
  <2>3. Upto(0)
    BY <2>1, <2>2
  <2>4. QED BY <1>3, <1>4, <2>3
<1>5. CASE j # 0
  <2>1. j - 1 \in 0..m /\ j - 1 \in Nat
    BY <1>3, <1>5
  <2>2. Upto(j - 1)
    BY <1>2, <1>3, <2>1
  <2>3. PICK g \in [0..j-1 -> V] : g[0] = a /\ \A k \in 0..(j-1)-1 : g[k + 1] = F[<<k, g[k]>>]
    BY <2>2
  <2> DEFINE f == [x \in 0..j |-> IF x = j THEN F[<<j - 1, g[j - 1]>>] ELSE g[x]]
  <2>4. g[j - 1] \in V /\ F[<<j - 1, g[j - 1]>>] \in V
    BY <2>1, <2>3
  <2>5. \A x \in 0..j : f[x] = IF x = j THEN F[<<j - 1, g[j - 1]>>] ELSE g[x]
    OBVIOUS
  <2>6. f \in [0..j -> V]
    <3>1. \A x \in 0..j : x # j => x \in 0..j-1
      BY <1>3
    <3>2. \A x \in 0..j : x # j => g[x] \in V
      BY <2>3, <3>1
    <3>3. QED BY <2>4, <3>2
  <2>7. f[0] = a
    BY <1>3, <1>5, <2>3, <2>5
  <2>8. ASSUME NEW k \in 0..j-1 PROVE f[k + 1] = F[<<k, f[k]>>]
    <3>1. k \in 0..j /\ k + 1 \in 0..j /\ k # j
      BY <1>3
    <3>2. f[k] = g[k]
      BY <2>5, <3>1
    <3>3. CASE k = j - 1
      <4>1. k + 1 = j
        BY <1>3, <3>3
      <4>2. f[k + 1] = F[<<j - 1, g[j - 1]>>]
        BY <2>5, <3>1, <4>1
      <4>3. QED BY <3>2, <3>3, <4>2
    <3>4. CASE k # j - 1
      <4>1. k \in 0..(j-1)-1 /\ k + 1 # j
        BY <1>3, <3>1, <3>4
      <4>2. f[k + 1] = g[k + 1]
        BY <2>5, <3>1, <4>1
      <4>3. g[k + 1] = F[<<k, g[k]>>]
        BY <2>3, <4>1
      <4>4. QED BY <3>2, <4>2, <4>3
    <3>5. QED BY <3>3, <3>4
  <2> HIDE DEF f
  <2>9. Upto(j)
    BY <2>6, <2>7, <2>8
  <2>10. QED BY <1>3, <2>9
<1>6. QED BY <1>4, <1>5

LEMMA SctpRemoveAt ==
  ASSUME NEW Elem, NEW q \in Seq(Elem), NEW x \in 1..Len(q)
  PROVE  /\ S!RemoveAt(q, x) \in Seq(Elem)
         /\ Len(S!RemoveAt(q, x)) = Len(q) - 1
         /\ \A j \in 1..Len(q) - 1 : S!RemoveAt(q, x)[j] = IF j < x THEN q[j] ELSE q[j + 1]
<1> DEFINE u == SubSeq(q, 1, x - 1)
           v == SubSeq(q, x + 1, Len(q))
<1>1. u \in Seq(Elem) /\ Len(u) = x - 1 /\ \A j \in 1..x-1 : u[j] = q[j]
  OBVIOUS
<1>2. v \in Seq(Elem) /\ Len(v) = Len(q) - x /\ \A j \in 1..Len(q)-x : v[j] = q[x + j]
  OBVIOUS
<1>3. S!RemoveAt(q, x) = u \o v
  BY DEF S!RemoveAt
<1> HIDE DEF u, v
<1>4. Len(q) \in Nat /\ Len(u) + Len(v) = Len(q) - 1
  BY <1>1, <1>2
<1>5. /\ u \o v \in Seq(Elem)
      /\ Len(u \o v) = Len(u) + Len(v)
      /\ \A j \in 1..Len(u) + Len(v) :
           (u \o v)[j] = IF j <= Len(u) THEN u[j] ELSE v[j - Len(u)]
  BY <1>1, <1>2, ConcatProperties
<1>6. ASSUME NEW j \in 1..Len(q) - 1 PROVE (u \o v)[j] = IF j < x THEN q[j] ELSE q[j + 1]
  <2>1. (u \o v)[j] = IF j <= Len(u) THEN u[j] ELSE v[j - Len(u)]
    BY <1>4, <1>5
  <2>2. CASE j < x
    BY <1>1, <1>4, <2>1, <2>2
  <2>3. CASE j >= x
    <3>1. j - (x - 1) \in 1..Len(q) - x /\ x + (j - (x - 1)) = j + 1
      BY <1>4, <2>3
    <3>2. v[j - (x - 1)] = q[j + 1]
      BY <1>2, <3>1
    <3>3. QED BY <1>1, <1>4, <2>1, <2>3, <3>2
  <2>4. QED BY <1>4, <2>2, <2>3
<1>7. QED BY <1>3, <1>4, <1>5, <1>6

\* What is taken out of a queue by its senders keeps its order.
LEMMA OfIs ==
  ASSUME NEW Elem, NEW q \in Seq(Elem), NEW cs
  PROVE  /\ S!Of(q, cs) \in Seq(Elem)
         /\ \E at \in [1..Len(S!Of(q, cs)) -> 1..Len(q)] :
              /\ \A k \in 1..Len(S!Of(q, cs)) : S!Of(q, cs)[k] = q[at[k]] /\ q[at[k]].c \in cs
              /\ \A k, l \in 1..Len(S!Of(q, cs)) : k < l => at[k] < at[l]
<1> DEFINE V == Seq(Elem)
           m == Len(q)
           Is(f) == f = [n \in 0..Len(q) |-> IF n = 0 THEN <<>>
                                             ELSE IF q[n].c \in cs THEN Append(f[n - 1], q[n]) ELSE f[n - 1]]
           g == CHOOSE f : Is(f)
<1>1. m \in Nat /\ <<>> \in V
  OBVIOUS
<1>2. \E f : Is(f)
  <2> DEFINE F == [p \in Nat \X V |-> IF p[1] + 1 \in 1..m /\ q[p[1] + 1].c \in cs
                                     THEN Append(p[2], q[p[1] + 1]) ELSE p[2]]
  <2>1. F \in [Nat \X V -> V]
    <3>1. \A p \in Nat \X V : p[2] \in V /\ (p[1] + 1 \in 1..m => Append(p[2], q[p[1] + 1]) \in V)
      OBVIOUS
    <3>2. QED BY <3>1
  <2>2. \A n \in Nat, v \in V : F[<<n, v>>] = IF n + 1 \in 1..m /\ q[n + 1].c \in cs THEN Append(v, q[n + 1]) ELSE v
    OBVIOUS
  <2> HIDE DEF F, V, m
  <2>3. PICK f \in [0..m -> V] : f[0] = <<>> /\ \A k \in 0..m-1 : f[k + 1] = F[<<k, f[k]>>]
    <3> DEFINE z == <<>>
    <3>1. z \in V /\ m \in Nat
      BY <1>1
    <3> HIDE DEF z
    <3>2. \E f \in [0..m -> V] : f[0] = z /\ \A k \in 0..m-1 : f[k + 1] = F[<<k, f[k]>>]
      <4>1. F \in Steps(V)
        BY <2>1 DEF Steps
      <4>2. Defined(V, z, m, F)
        BY <3>1, <4>1, StepByStep
      <4>3. QED BY <4>2 DEF Defined
    <3>3. QED BY <3>2 DEF z
  <2>4. ASSUME NEW n \in 0..m, n # 0
        PROVE  f[n] = IF q[n].c \in cs THEN Append(f[n - 1], q[n]) ELSE f[n - 1]
    <3>1. n - 1 \in 0..m-1 /\ n - 1 \in Nat /\ n - 1 \in 0..m /\ (n - 1) + 1 = n /\ n \in 1..m
      BY <1>1, <2>4
    <3>2. f[n] = F[<<n - 1, f[n - 1]>>]
      BY <2>3, <3>1
    <3>3. f[n - 1] \in V
      BY <2>3, <3>1
    <3>4. QED BY <2>2, <3>1, <3>2, <3>3
  <2>5. f = [n \in 0..m |-> IF n = 0 THEN <<>> ELSE IF q[n].c \in cs THEN Append(f[n - 1], q[n]) ELSE f[n - 1]]
    BY <2>3, <2>4
  <2>6. QED BY <2>5 DEF m
<1>3. Is(g)
  BY <1>2
<1>4. S!Of(q, cs) = g[m]
  BY DEF S!Of
<1> HIDE DEF g
<1>5. g[0] = <<>> /\ \A n \in 1..m : g[n] = IF q[n].c \in cs THEN Append(g[n - 1], q[n]) ELSE g[n - 1]
  <2>1. \A n \in 0..m : g[n] = IF n = 0 THEN <<>> ELSE IF q[n].c \in cs THEN Append(g[n - 1], q[n]) ELSE g[n - 1]
    BY <1>3
  <2>2. 0 \in 0..m /\ \A n \in 1..m : n \in 0..m /\ n # 0
    BY <1>1
  <2> HIDE DEF m
  <2>3. QED BY <2>1, <2>2
<1> DEFINE Good(n) ==
             /\ g[n] \in V
             /\ \E at \in [1..Len(g[n]) -> 1..n] :
                  /\ \A k \in 1..Len(g[n]) : g[n][k] = q[at[k]] /\ q[at[k]].c \in cs
                  /\ \A k, l \in 1..Len(g[n]) : k < l => at[k] < at[l]
           Bad == {n \in 0..m : ~Good(n)}
<1>6. Bad = {}
  <2>1. SUFFICES ASSUME Bad # {} PROVE FALSE
    OBVIOUS
  <2>2. Bad \in SUBSET Nat
    OBVIOUS
  <2>3. PICK n \in Bad : \A v \in Bad : n <= v
    <3> HIDE DEF Bad
    <3>1. QED BY <2>1, <2>2, LeastIsIn
  <2>4. n \in 0..m /\ ~Good(n)
    BY <2>3
  <2>5. n # 0
    <3>1. g[0] \in V /\ Len(g[0]) = 0
      BY <1>5
    <3> DEFINE e == [k \in 1..0 |-> 1]
    <3>2. e \in [1..0 -> 1..0] /\ \A k \in 1..0 : FALSE
      OBVIOUS
    <3> HIDE DEF V, e
    <3>3. Good(0)
      BY <3>1, <3>2
    <3>4. QED BY <2>4, <3>3
  <2>6. n - 1 \in 0..m /\ n - 1 < n /\ n \in 1..m /\ n \in Nat
    BY <1>1, <2>4, <2>5
  <2>7. Good(n - 1)
    <3> HIDE DEF Good
    <3>1. n - 1 \notin Bad
      <4> HIDE DEF Bad
      <4>1. QED BY <2>3, <2>6
    <3>2. QED BY <2>6, <3>1
  <2>8. CASE q[n].c \notin cs
    <3>1. g[n] = g[n - 1]
      BY <1>5, <2>6, <2>8
    <3>2. 1..n-1 \subseteq 1..n
      BY <2>6
    <3>3. PICK at \in [1..Len(g[n - 1]) -> 1..n-1] :
            /\ \A k \in 1..Len(g[n - 1]) : g[n - 1][k] = q[at[k]] /\ q[at[k]].c \in cs
            /\ \A k, l \in 1..Len(g[n - 1]) : k < l => at[k] < at[l]
      BY <2>7
    <3>4. at \in [1..Len(g[n]) -> 1..n]
      BY <3>1, <3>2, <3>3
    <3>5. g[n] \in V
      BY <2>7, <3>1
    <3>6. /\ \A k \in 1..Len(g[n]) : g[n][k] = q[at[k]] /\ q[at[k]].c \in cs
          /\ \A k, l \in 1..Len(g[n]) : k < l => at[k] < at[l]
      BY <3>1, <3>3
    <3> HIDE DEF V
    <3>7. Good(n)
      BY <3>4, <3>5, <3>6
    <3>8. QED BY <2>4, <3>7
  <2>9. CASE q[n].c \in cs
    <3>1. g[n] = Append(g[n - 1], q[n]) /\ q[n] \in Elem /\ g[n - 1] \in V
      <4>1. q[n] \in Elem
        BY <2>6
      <4>2. g[n - 1] \in V
        BY <2>7
      <4>3. QED BY <1>5, <2>6, <2>9, <4>1, <4>2
    <3>2. PICK at \in [1..Len(g[n - 1]) -> 1..n-1] :
            /\ \A k \in 1..Len(g[n - 1]) : g[n - 1][k] = q[at[k]] /\ q[at[k]].c \in cs
            /\ \A k, l \in 1..Len(g[n - 1]) : k < l => at[k] < at[l]
      BY <2>7
    <3> DEFINE L == Len(g[n - 1])
               to == [k \in 1..L+1 |-> IF k = L + 1 THEN n ELSE at[k]]
    <3>3. /\ g[n] \in V /\ Len(g[n]) = L + 1 /\ L \in Nat
          /\ g[n][L + 1] = q[n] /\ \A k \in 1..L : g[n][k] = g[n - 1][k]
      BY <3>1
    <3> HIDE DEF L, V
    <3>4. \A k \in 1..L : at[k] \in 1..n-1
      BY <3>2 DEF L
    <3>5. \A k \in 1..L+1 : k = L + 1 \/ k \in 1..L
      BY <3>3
    <3>6. /\ \A k \in 1..L : to[k] = at[k]
          /\ to[L + 1] = n
      BY <3>3
    <3>7. to \in [1..L+1 -> 1..n]
      <4>1. \A k \in 1..L+1 : (IF k = L + 1 THEN n ELSE at[k]) \in 1..n
        BY <2>6, <3>4, <3>5
      <4>2. QED BY <4>1
    <3> HIDE DEF to
    <3>8. \A k \in 1..L+1 : g[n][k] = q[to[k]] /\ q[to[k]].c \in cs
      BY <2>9, <3>2, <3>3, <3>5, <3>6 DEF L
    <3>9. ASSUME NEW k \in 1..L+1, NEW l \in 1..L+1, k < l PROVE to[k] < to[l]
      <4>1. k \in 1..L
        BY <3>3, <3>9
      <4>2. CASE l = L + 1
        BY <2>6, <3>4, <3>6, <4>1, <4>2
      <4>3. CASE l \in 1..L
        BY <3>2, <3>6, <3>9, <4>1, <4>3 DEF L
      <4>4. QED BY <3>5, <4>2, <4>3
    <3>10. Good(n)
      BY <3>3, <3>7, <3>8, <3>9
    <3>11. QED BY <2>4, <3>10
  <2>10. QED BY <2>8, <2>9
<1>7. Good(m)
  <2>1. m \in 0..m
    BY <1>1
  <2>2. QED BY <1>6, <2>1
<1>8. QED BY <1>4, <1>7

-----------------------------------------------------------------------------
(* SCTP. *)

SctpMessages ==
  [c : {0, 1, 2}, s : Nat, u : BOOLEAN, what : SUBSET (S!Clients \X Nat), eor : BOOLEAN, note : BOOLEAN]

SctpTypeOK ==
  /\ xserv \in S!Servers /\ incr \in BOOLEAN /\ strict \in BOOLEAN
  /\ (incr => xserv.increments) /\ (strict => xserv = S!sctpserv03)
  /\ xcli \in [S!Clients -> {S!sctp_strcli, S!sctp_strcli1, S!sctp_strcli_un, S!sctp_strcliecho}]
  /\ ends \in [S!Clients -> {"close", "abort"}]
  /\ assoc \in [S!Clients -> {"down", "up", "closing", "peeled", "gone"}]
  /\ xup \in [S!Clients -> Seq(SctpMessages)] /\ rcvq \in Seq(SctpMessages)
  /\ partial \in {0, 1, 2} /\ xpc \in {"recv", "strms", "send", "peel", "dead"} /\ held \in SctpMessages
  /\ childq \in [S!Clients -> Seq(SctpMessages)] /\ xdown \in [S!Clients -> Seq(SctpMessages)]
  /\ xcpc \in [S!Clients -> {"type", "wait", "exit"}] /\ xnsent \in [S!Clients -> Nat]
  /\ taken \in [S!Clients -> Seq(SctpMessages)]

\* A piece of a message of c that is on its way to the server.
PieceOf(c, m, upto, all) ==
  /\ m.c = c /\ ~m.note /\ m.s < Strms
  /\ \E n \in 1..upto : m.what = {<<c, n>>} /\ (all /\ n <= Strms => m.s = n - 1)

Piece(c, m) == PieceOf(c, m, xnsent[c], xcli[c].all)

\* The server has nothing of a client any more.
Away(c) == (xpc # "dead" => held.c # c) /\ \A k \in 1..Len(rcvq) : rcvq[k].c # c

\* What the states of an association mean, and which servers bring them about.
Associations ==
  /\ \A c \in S!Clients :
       /\ assoc[c] = "gone" <=> xcpc[c] = "exit"
       /\ assoc[c] = "gone" => xup[c] = <<>>
       /\ assoc[c] = "peeled" => xserv.does = "peel off"
       /\ assoc[c] = "closing" => xserv.does = "MSG_EOF"
       /\ assoc[c] = "down" => xup[c] = <<>> /\ (S!ClosedEarly(c) \/ Away(c))
       /\ xcli[c].all => xnsent[c] = 0 \/ xnsent[c] >= Strms
  /\ (xpc = "strms" => incr) /\ (xpc = "peel" => xserv.does = "peel off")
  /\ xserv.does # "pdapi" => partial = 0 /\ \A k \in 1..Len(rcvq) : rcvq[k].eor
  /\ partial # 0 /\ assoc[partial] = "up" => xup[partial] # <<>>

\* What goes to the server, and what it holds.
ToServer ==
  /\ \A c \in S!Clients : \A k \in 1..Len(xup[c]) : Piece(c, xup[c][k]) /\ xup[c][k].eor
  /\ \A c \in S!Clients : \A k \in 1..Len(childq[c]) : Piece(c, childq[c][k]) /\ childq[c][k].eor
  /\ \A k \in 1..Len(rcvq) : rcvq[k] = S!Note \/ (rcvq[k].c \in S!Clients /\ Piece(rcvq[k].c, rcvq[k]))
  /\ held.s < S!OutStrms
  /\ xpc \in {"strms", "send", "peel"} => held.c \in S!Clients
  /\ xpc = "recv" /\ held.c = 0 => held = S!Nobody
  /\ xpc = "recv" /\ held.c # 0 => xserv.does = "pdapi" /\ ~held.eor
  /\ \A c \in S!Clients : \A k \in 1..Len(xdown[c]) : xdown[c][k].s < S!OutStrms
  /\ \A c \in S!Clients : \A k \in 1..Len(taken[c]) : taken[c][k].s < S!OutStrms

\* Pieces are mixed only when a sender has aborted in the middle of a message that
\* is read in parts.
Clean == xserv.does # "pdapi" \/ ~S!Aborted

Rest(m) == [m EXCEPT !.eor = TRUE]

\* Until then what follows a first piece, in the server, in the socket or on its
\* way, is its rest.
Pieces ==
  /\ \A k \in 1 .. Len(rcvq) - 1 : ~rcvq[k].eor => rcvq[k + 1] = Rest(rcvq[k])
  /\ rcvq # <<>> /\ ~rcvq[Len(rcvq)].eor =>
       partial = rcvq[Len(rcvq)].c /\ xup[partial] # <<>> /\ xup[partial][1] = Rest(rcvq[Len(rcvq)])
  /\ xpc = "recv" /\ held.c # 0 /\ rcvq # <<>> => rcvq[1] = Rest(held)
  /\ xpc = "recv" /\ held.c # 0 /\ rcvq = <<>> =>
       partial = held.c /\ xup[partial] # <<>> /\ xup[partial][1] = Rest(held)
  /\ xpc = "recv" /\ held.c # 0 => Piece(held.c, held)
  /\ partial # 0 => \/ rcvq # <<>> /\ ~rcvq[Len(rcvq)].eor
                    \/ rcvq = <<>> /\ xpc = "recv" /\ held.c # 0

\* An answer to c, in the server or behind it, and its stream.
ReplyOf(c, m, upto, all, next, out) ==
  \E n \in 1..upto :
    /\ m.what = {<<c, n>>}
    /\ all /\ n <= Strms => m.s = IF next THEN n % out ELSE n - 1

AnswerTo(c, m) ==
  ReplyOf(c, m, xnsent[c], xcli[c].all /\ xserv.does # "peel off", incr, S!OutStrms)

Replies ==
  /\ xpc = "strms" => Piece(held.c, held)
  /\ xpc = "send" => AnswerTo(held.c, held)
  /\ \A c \in S!Clients : \A k \in 1..Len(xdown[c]) : AnswerTo(c, xdown[c][k])
  /\ \A c \in S!Clients : \A k \in 1..Len(taken[c]) :
       AnswerTo(c, taken[c][k]) /\ (~xcli[c].all => taken[c][k].what = {<<c, k>>})

\* The places of the n-th message of c: pieces whose rest is still to come do not
\* count, nor what has been answered.
Wheres == {"up", "rcvq", "childq", "down", "taken", "held"}

Holds(m, c, n) == m.eor /\ <<c, n>> \in m.what

At(c, n, w, k) ==
  \/ w = "up" /\ k \in 1..Len(xup[c]) /\ Holds(xup[c][k], c, n)
  \/ w = "rcvq" /\ k \in 1..Len(rcvq) /\ Holds(rcvq[k], c, n)
  \/ w = "childq" /\ k \in 1..Len(childq[c]) /\ Holds(childq[c][k], c, n)
  \/ w = "down" /\ k \in 1..Len(xdown[c]) /\ Holds(xdown[c][k], c, n)
  \/ w = "taken" /\ k \in 1..Len(taken[c]) /\ Holds(taken[c][k], c, n)
  \/ w = "held" /\ k = 1 /\ xpc \in {"strms", "send"} /\ Holds(held, c, n)

InOnePlace ==
  /\ \A c \in S!Clients, n \in Nat, w, v \in Wheres, k, l \in Nat :
       At(c, n, w, k) /\ At(c, n, v, l) => w = v /\ k = l
  /\ xpc \in {"strms", "send"} => held.eor
  /\ \A c \in S!Clients : \A k \in 1..Len(xdown[c]) : xdown[c][k].eor
  /\ \A c \in S!Clients : \A k \in 1..Len(taken[c]) : taken[c][k].eor

\* A client that does not wait has all its answers; one that sends one message at a
\* time waits for one; and has nothing on the way to a server that ends its association.
Waits ==
  \A c \in S!Clients :
    /\ xcpc[c] = "type" => Len(taken[c]) = xnsent[c]
    /\ xcpc[c] = "wait" /\ ~xcli[c].all => Len(taken[c]) = xnsent[c] - 1
    /\ ~xcli[c].all /\ assoc[c] = "closing" =>
         xup[c] = <<>> /\ (\A k \in 1..Len(rcvq) : rcvq[k].c # c)
         /\ ~(xpc \in {"strms", "send"} /\ held.c = c)

SctpInv ==
  /\ SctpTypeOK /\ Associations /\ ToServer /\ S!DiesOf
  /\ Clean => Pieces /\ Replies /\ InOnePlace /\ Waits

\* What the set of messages and the constants are, for the steps below.
LEMMA SctpFacts ==
  ASSUME SctpTypeOK
  PROVE  /\ Strms \in Nat /\ Strms > 0 /\ S!OutStrms \in Nat /\ S!OutStrms >= Strms
         /\ S!Nobody \in SctpMessages /\ S!Note \in SctpMessages
         /\ S!Nobody.c = 0 /\ S!Nobody.s = 0 /\ S!Nobody.what = {} /\ S!Nobody.eor /\ ~S!Nobody.note
         /\ S!Note.c = 0 /\ S!Note.note /\ S!Note.eor /\ S!Note.what = {}
         /\ \A c \in S!Clients : xcli[c].all \in BOOLEAN
<1>1. Strms \in Nat /\ Strms > 0
  BY DatagramsAssumption DEF S!SctpAssumption
<1>2. S!OutStrms \in Nat /\ S!OutStrms >= Strms
  <2>1. S!OutStrms = IF xserv.does = "more streams" THEN Strms + 1 ELSE Strms
    BY DEF S!OutStrms
  <2>2. S!OutStrms = Strms + 1 \/ S!OutStrms = Strms
    BY <2>1
  <2>3. QED BY <1>1, <2>2
<1>3. S!Nobody = [c |-> 0, s |-> 0, u |-> FALSE, what |-> {}, eor |-> TRUE, note |-> FALSE]
  BY DEF S!Nobody
<1>5. /\ S!Nobody \in SctpMessages /\ S!Nobody.c = 0 /\ S!Nobody.s = 0 /\ S!Nobody.what = {}
      /\ S!Nobody.eor /\ ~S!Nobody.note
  BY <1>3 DEF SctpMessages
<1>6. S!Note \in SctpMessages /\ S!Note.c = 0 /\ S!Note.note /\ S!Note.eor /\ S!Note.what = {}
  <2>1. S!Note = [S!Nobody EXCEPT !.note = TRUE]
    BY DEF S!Note
  <2>2. \A m \in SctpMessages : LET r == [m EXCEPT !.note = TRUE] IN
          r \in SctpMessages /\ r.c = m.c /\ r.note /\ r.eor = m.eor /\ r.what = m.what
    BY DEF SctpMessages
  <2>3. QED BY <1>5, <2>1, <2>2
<1>7. \A c \in S!Clients : xcli[c].all \in BOOLEAN
  <2>1. /\ S!sctp_strcli.all \in BOOLEAN /\ S!sctp_strcli1.all \in BOOLEAN
        /\ S!sctp_strcli_un.all \in BOOLEAN /\ S!sctp_strcliecho.all \in BOOLEAN
    BY DEF S!Client, S!sctp_strcli, S!sctp_strcli1, S!sctp_strcli_un, S!sctp_strcliecho
  <2>2. \A c \in S!Clients : xcli[c] \in {S!sctp_strcli, S!sctp_strcli1, S!sctp_strcli_un, S!sctp_strcliecho}
    BY DEF SctpTypeOK
  <2>3. QED BY <2>1, <2>2
<1>8. QED BY <1>1, <1>2, <1>5, <1>6, <1>7

\* Changing a message.
Whats == SUBSET (S!Clients \X Nat)
ChangedTo(m, x, y, z) == [m EXCEPT !.what = x, !.c = y, !.s = z]

IsChanged(r, m, x, y, z) ==
  /\ r \in SctpMessages /\ r.what = x /\ r.c = y /\ r.s = z /\ r.eor = m.eor /\ r.note = m.note
  /\ x = m.what /\ y = m.c /\ z = m.s => r = m

LEMMA Changed ==
  ASSUME NEW m \in SctpMessages, NEW x \in Whats, NEW y \in {0, 1, 2}, NEW z \in Nat
  PROVE  IsChanged(ChangedTo(m, x, y, z), m, x, y, z)
<1> DEFINE r == ChangedTo(m, x, y, z)
<1>1. /\ r \in SctpMessages /\ r.what = x /\ r.c = y /\ r.s = z /\ r.u = m.u /\ r.eor = m.eor /\ r.note = m.note
  BY DEF SctpMessages, ChangedTo, Whats
<1>2. x = m.what /\ y = m.c /\ z = m.s => r = m
  BY <1>1 DEF SctpMessages
<1>3. QED BY <1>1, <1>2 DEF IsChanged

LEMMA RestIs ==
  ASSUME NEW m \in SctpMessages
  PROVE  /\ Rest(m) \in SctpMessages /\ Rest(m).what = m.what /\ Rest(m).c = m.c /\ Rest(m).s = m.s
         /\ Rest(m).eor /\ Rest(m).note = m.note
BY DEF Rest, SctpMessages

\* Taking the first of a queue.
LEMMA TailIs ==
  ASSUME NEW Elem, NEW q \in Seq(Elem), q # <<>>
  PROVE  /\ Len(q) \in Nat /\ Len(q) >= 1 /\ Head(q) = q[1] /\ q[1] \in Elem /\ Tail(q) \in Seq(Elem)
         /\ Len(Tail(q)) = Len(q) - 1 /\ \A k \in 1..Len(q)-1 : Tail(q)[k] = q[k + 1]
  OBVIOUS

\* The number of streams changes only the stream of what the server holds.
OnStream(m, z) == [m EXCEPT !.s = z]

LEMMA OnStreamIs ==
  ASSUME NEW m \in SctpMessages, NEW z \in Nat
  PROVE  /\ OnStream(m, z) \in SctpMessages /\ OnStream(m, z).what = m.what /\ OnStream(m, z).c = m.c
         /\ OnStream(m, z).s = z /\ OnStream(m, z).eor = m.eor /\ OnStream(m, z).note = m.note
BY DEF OnStream, SctpMessages

\* One more message has been put at the end of a queue.
SentTo(q, r, e) ==
  /\ Len(r) = Len(q) + 1 /\ r[Len(q) + 1] = e /\ \A k \in 1..Len(q) : r[k] = q[k]

\* So many different numbers, none above how many there are, are all of them.
Pairing(f, L) == DOMAIN f = 1..L /\ (\A k \in 1..L : f[k] \in 1..L) /\ \A k, l \in 1..L : f[k] = f[l] => k = l

LEMMA EachNumber ==
  ASSUME NEW L \in Nat, NEW n \in 1..L, NEW f, Pairing(f, L)
  PROVE  \E k \in 1..L : f[k] = n
<1>1. SUFFICES ASSUME \A k \in 1..L : f[k] # n PROVE FALSE
  OBVIOUS
<1> DEFINE Except == (1..L) \ {n}
           g == [k \in 1..L |-> f[k]]
<1>2. IsFiniteSet(1..L) /\ Cardinality(1..L) = L
  BY FS_Interval
<1>3. IsFiniteSet(Except) /\ Cardinality(Except) = L - 1
  BY <1>2, FS_RemoveElement
<1>4. g \in [1..L -> Except]
  BY <1>1 DEF Pairing
<1>5. \A k, l \in 1..L : k # l => g[k] # g[l]
  BY DEF Pairing
<1> HIDE DEF g, Except
<1>6. Cardinality(Except) < Cardinality(1..L)
  BY <1>2, <1>3
<1>7. \E k, l \in 1..L : k # l /\ g[k] = g[l]
  BY <1>2, <1>3, <1>4, <1>6, FS_PigeonHole
<1>8. QED BY <1>5, <1>7

\* A message somewhere has been sent.
LEMMA Numbered ==
  ASSUME SctpInv, Clean, NEW c \in S!Clients, NEW n \in Nat, NEW w \in Wheres, NEW k \in Nat, At(c, n, w, k)
  PROVE  n \in 1..xnsent[c]
<1>0. SctpTypeOK /\ ToServer /\ Replies
  BY DEF SctpInv
<1>1. ASSUME NEW d, NEW m, Piece(d, m) \/ AnswerTo(d, m), <<c, n>> \in m.what
      PROVE  n \in 1..xnsent[c]
  <2>1. PICK i \in 1..xnsent[d] : m.what = {<<d, i>>}
    BY <1>1 DEF Piece, PieceOf, AnswerTo, ReplyOf
  <2>2. d = c /\ i = n
    BY <1>1, <2>1
  <2>3. QED BY <2>1, <2>2
<1>2. S!Note.what = {}
  BY <1>0, SctpFacts
<1>3. CASE w = "up"
  <2>1. k \in 1..Len(xup[c]) /\ <<c, n>> \in xup[c][k].what
    BY <1>3 DEF At, Holds
  <2>2. Piece(c, xup[c][k])
    BY <1>0, <2>1 DEF ToServer
  <2>3. QED BY <1>1, <2>1, <2>2
<1>4. CASE w = "rcvq"
  <2>1. k \in 1..Len(rcvq) /\ <<c, n>> \in rcvq[k].what
    BY <1>4 DEF At, Holds
  <2>2. Piece(rcvq[k].c, rcvq[k])
    BY <1>0, <1>2, <2>1 DEF ToServer
  <2>3. QED BY <1>1, <2>1, <2>2
<1>5. CASE w = "childq"
  <2>1. k \in 1..Len(childq[c]) /\ <<c, n>> \in childq[c][k].what
    BY <1>5 DEF At, Holds
  <2>2. Piece(c, childq[c][k])
    BY <1>0, <2>1 DEF ToServer
  <2>3. QED BY <1>1, <2>1, <2>2
<1>6. CASE w = "down"
  <2>1. k \in 1..Len(xdown[c]) /\ <<c, n>> \in xdown[c][k].what
    BY <1>6 DEF At, Holds
  <2>2. AnswerTo(c, xdown[c][k])
    BY <1>0, <2>1 DEF Replies
  <2>3. QED BY <1>1, <2>1, <2>2
<1>7. CASE w = "taken"
  <2>1. k \in 1..Len(taken[c]) /\ <<c, n>> \in taken[c][k].what
    BY <1>7 DEF At, Holds
  <2>2. AnswerTo(c, taken[c][k])
    BY <1>0, <2>1 DEF Replies
  <2>3. QED BY <1>1, <2>1, <2>2
<1>8. CASE w = "held"
  <2>1. xpc \in {"strms", "send"} /\ <<c, n>> \in held.what
    BY <1>8 DEF At, Holds
  <2>2. Piece(held.c, held) \/ AnswerTo(held.c, held)
    BY <1>0, <2>1 DEF Replies
  <2>3. QED BY <1>1, <2>1, <2>2
<1>9. QED BY <1>3, <1>4, <1>5, <1>6, <1>7, <1>8 DEF Wheres

\* A message that is not answered is one its client waits for.
LEMMA Outstanding ==
  ASSUME SctpInv, Clean, NEW c \in S!Clients, NEW n \in Nat, NEW w \in Wheres, NEW k \in Nat, At(c, n, w, k),
         w # "taken"
  PROVE  xcpc[c] # "type" /\ (xcpc[c] = "wait" /\ ~xcli[c].all => n = xnsent[c])
<1>0. SctpTypeOK /\ Replies /\ InOnePlace /\ Waits
  BY DEF SctpInv
<1>1. n \in 1..xnsent[c] /\ xnsent[c] \in Nat /\ Len(taken[c]) \in Nat
  BY <1>0, Numbered DEF SctpTypeOK
<1>2. "taken" \in Wheres
  BY DEF Wheres
<1>3. \A l \in 1..Len(taken[c]) : taken[c][l].what # {<<c, n>>}
  <2>1. \A l \in 1..Len(taken[c]) : l \in Nat /\ ~At(c, n, "taken", l)
    BY <1>0, <1>1, <1>2 DEF InOnePlace
  <2>2. ASSUME NEW l \in 1..Len(taken[c]), taken[c][l].what = {<<c, n>>} PROVE FALSE
    <3>1. taken[c][l].eor
      BY <1>0 DEF InOnePlace
    <3>2. At(c, n, "taken", l)
      BY <2>2, <3>1 DEF At, Holds
    <3>3. QED BY <2>1, <3>2
  <2>3. QED BY <2>2
<1>4. ASSUME xcpc[c] = "type" PROVE FALSE
  <2>1. Len(taken[c]) = xnsent[c]
    BY <1>0, <1>4 DEF Waits
  <2> DEFINE L == xnsent[c]
             Is(l, i) == taken[c][l].what = {<<c, i>>}
             f == [l \in 1..L |-> CHOOSE i \in 1..L : Is(l, i)]
  <2>2. \A l \in 1..L : \E i \in 1..L : Is(l, i)
    <3>1. ASSUME NEW l \in 1..L PROVE \E i \in 1..L : Is(l, i)
      <4>1. AnswerTo(c, taken[c][l])
        BY <1>0, <2>1 DEF Replies
      <4>2. QED BY <4>1 DEF AnswerTo, ReplyOf
    <3>2. QED BY <3>1
  <2>3. \A l \in 1..L : f[l] \in 1..L /\ Is(l, f[l])
    BY <2>2
  <2>4. ASSUME NEW l \in 1..L, NEW j \in 1..L, f[l] = f[j] PROVE l = j
    <3>1. f[l] \in Nat /\ l \in Nat /\ j \in Nat
      <4>1. f[l] \in 1..L
        BY <2>3
      <4> HIDE DEF f
      <4>2. QED BY <1>1, <4>1
    <3>2. At(c, f[l], "taken", l) /\ At(c, f[l], "taken", j)
      <4>1. taken[c][l].eor /\ taken[c][j].eor /\ l \in 1..Len(taken[c]) /\ j \in 1..Len(taken[c])
        BY <1>0, <2>1 DEF InOnePlace
      <4>2. <<c, f[l]>> \in taken[c][l].what /\ <<c, f[l]>> \in taken[c][j].what
        <5>1. taken[c][l].what = {<<c, f[l]>>} /\ taken[c][j].what = {<<c, f[j]>>}
          BY <2>3
        <5> HIDE DEF f
        <5>2. QED BY <2>4, <5>1
      <4>3. QED BY <4>1, <4>2 DEF At, Holds
    <3> HIDE DEF f
    <3>3. QED BY <1>0, <1>2, <3>1, <3>2 DEF InOnePlace
  <2>5. DOMAIN f = 1..L
    OBVIOUS
  <2> HIDE DEF f
  <2>6. Pairing(f, L)
    BY <2>3, <2>4, <2>5 DEF Pairing
  <2> HIDE DEF L
  <2>7. L \in Nat /\ n \in 1..L
    BY <1>1 DEF L
  <2>8. PICK l \in 1..L : f[l] = n
    BY <2>6, <2>7, EachNumber
  <2>9. taken[c][l].what = {<<c, n>>}
    BY <2>3, <2>8
  <2>10. QED BY <1>3, <2>1, <2>9 DEF L
<1>5. ASSUME xcpc[c] = "wait", ~xcli[c].all PROVE n = xnsent[c]
  <2>1. Len(taken[c]) = xnsent[c] - 1
    BY <1>0, <1>5 DEF Waits
  <2>2. n \in 1..Len(taken[c]) => taken[c][n].what = {<<c, n>>}
    BY <1>0, <1>5 DEF Replies
  <2>3. n \notin 1..Len(taken[c])
    BY <1>3, <2>2
  <2>4. QED BY <1>1, <2>1, <2>3
<1>6. QED BY <1>4, <1>5

LEMMA SctpRecvmsg == ASSUME SctpInv, S!Recvmsg PROVE SctpInv'
<1> DEFINE m == rcvq[1]
<1>0. SctpTypeOK /\ Associations /\ ToServer /\ S!DiesOf /\ (Clean => Pieces /\ Replies /\ InOnePlace /\ Waits)
  BY DEF SctpInv
<1>1. /\ xpc = "recv" /\ rcvq # <<>> /\ rcvq' = Tail(rcvq)
      /\ UNCHANGED <<xserv, incr, strict, xcli, ends, assoc, xup, partial, childq, xdown, xcpc, xnsent, nlines, taken>>
      /\ IF m.note THEN UNCHANGED <<xpc, held>>
         ELSE /\ held' = [m EXCEPT !.what = m.what \cup held.what,
                                   !.c = IF held.c = 0 THEN m.c ELSE held.c,
                                   !.s = IF held.c = 0 THEN m.s ELSE held.s]
              /\ xpc' = IF ~m.eor THEN "recv" ELSE IF incr THEN "strms" ELSE "send"
  <2>1. rcvq # <<>> => Head(rcvq) = rcvq[1]
    BY <1>0 DEF SctpTypeOK
  <2>2. QED BY <2>1 DEF S!Recvmsg, S!conf, S!client
<1>2. /\ Len(rcvq) \in Nat /\ Len(rcvq) >= 1 /\ m \in SctpMessages /\ rcvq' \in Seq(SctpMessages)
      /\ Len(rcvq') = Len(rcvq) - 1 /\ \A k \in 1..Len(rcvq)-1 : rcvq'[k] = rcvq[k + 1]
  BY <1>0, <1>1, TailIs DEF SctpTypeOK
<1>3. /\ \A k \in 1..Len(rcvq') : k + 1 \in 1..Len(rcvq) /\ rcvq'[k] = rcvq[k + 1]
      /\ 1 \in 1..Len(rcvq) /\ (rcvq' = <<>> <=> Len(rcvq) = 1)
  BY <1>2
<1>4. m = S!Note \/ (m.c \in S!Clients /\ Piece(m.c, m))
  BY <1>0, <1>3 DEF ToServer
<1>5. m.note <=> m = S!Note
  BY <1>0, <1>4, SctpFacts DEF Piece, PieceOf
<1>7. S!OutStrms' = S!OutStrms /\ (Clean' <=> Clean) /\ (S!Aborted' <=> S!Aborted)
  BY <1>1 DEF S!OutStrms, Clean, S!Aborted
<1>8. ~m.note => /\ held' \in SctpMessages /\ held'.eor = m.eor /\ held'.note = m.note
                 /\ held'.c = (IF held.c = 0 THEN m.c ELSE held.c)
                 /\ held'.s = (IF held.c = 0 THEN m.s ELSE held.s)
                 /\ held'.what = m.what \cup held.what
                 /\ (held'.what = m.what /\ held'.c = m.c /\ held'.s = m.s => held' = m)
  <2> DEFINE x == m.what \cup held.what
             y == IF held.c = 0 THEN m.c ELSE held.c
             z == IF held.c = 0 THEN m.s ELSE held.s
  <2>1. x \in SUBSET (S!Clients \X Nat) /\ y \in {0, 1, 2} /\ z \in Nat
    BY <1>0, <1>2 DEF SctpTypeOK, SctpMessages
  <2>2. ~m.note => held' = [m EXCEPT !.what = x, !.c = y, !.s = z]
    BY <1>1
  <2> HIDE DEF x, y, z, m
  <2>3. ~m.note => /\ held' \in SctpMessages /\ held'.eor = m.eor /\ held'.note = m.note
                   /\ held'.c = y /\ held'.s = z /\ held'.what = x
                   /\ (x = m.what /\ y = m.c /\ z = m.s => held' = m)
    <3>1. ~m.note => held' = ChangedTo(m, x, y, z)
      BY <2>2 DEF ChangedTo
    <3>2. m \in SctpMessages /\ x \in Whats
      BY <1>2, <2>1 DEF Whats
    <3>3. IsChanged(ChangedTo(m, x, y, z), m, x, y, z)
      BY ONLY <2>1, <3>2, Changed
    <3>4. QED BY <3>1, <3>3 DEF IsChanged
  <2>4. QED BY <2>3 DEF x, y, z
<1>9. SctpTypeOK'
  BY <1>0, <1>1, <1>2, <1>8 DEF SctpTypeOK
<1>10. Associations'
  <2>0. \A c \in S!Clients : Away(c) => held.c # c /\ \A k \in 1..Len(rcvq) : rcvq[k].c # c
    BY <1>1 DEF Away
  <2>1. \A c \in S!Clients : Away(c) => Away(c)'
    <3>1. \A c \in S!Clients : Away(c) => held'.c # c
      BY <1>1, <1>3, <1>8, <2>0
    <3>2. \A c \in S!Clients : Away(c) => \A k \in 1..Len(rcvq') : rcvq'[k].c # c
      BY <1>3, <2>0
    <3>3. QED BY <3>1, <3>2 DEF Away
  <2>2. \A c \in S!Clients : S!ClosedEarly(c)' <=> S!ClosedEarly(c)
    BY <1>1 DEF S!ClosedEarly
  <2>3. xserv.does # "pdapi" => \A k \in 1..Len(rcvq') : rcvq'[k].eor
    BY <1>0, <1>3 DEF Associations
  <2>4. QED BY <1>0, <1>1, <2>1, <2>2, <2>3 DEF Associations
<1>11. ToServer'
  <2>1. \A k \in 1..Len(rcvq') : rcvq'[k] = S!Note \/ (rcvq'[k].c \in S!Clients /\ Piece(rcvq'[k].c, rcvq'[k]))
    BY <1>0, <1>3 DEF ToServer
  <2>2. held'.s < S!OutStrms
    <3>1. held.s < S!OutStrms /\ held.s \in Nat /\ m.s \in Nat
      BY <1>0, <1>2 DEF ToServer, SctpTypeOK, SctpMessages
    <3>2. ~m.note => m.s < Strms
      BY <1>4, <1>5 DEF Piece, PieceOf
    <3>3. QED BY <1>0, <1>1, <1>8, <3>1, <3>2, SctpFacts
  <2>3. xserv.does # "pdapi" => m.eor
    BY <1>0, <1>3 DEF Associations
  <2>4. ~m.note => held'.c # 0 /\ held'.c \in S!Clients
    <3>1. held.c \in {0, 1, 2}
      BY <1>0 DEF SctpTypeOK, SctpMessages
    <3>2. ~m.note => m.c \in S!Clients
      BY <1>4, <1>5
    <3>3. QED BY <1>8, <3>1, <3>2 DEF S!Clients
  <2>5. xpc' = "recv" /\ held'.c # 0 => xserv.does = "pdapi" /\ ~held'.eor
    BY <1>0, <1>1, <1>8, <2>3 DEF ToServer
  <2>6. (xpc' \in {"strms", "send", "peel"} => held'.c \in S!Clients) /\ (xpc' = "recv" /\ held'.c = 0 => held' = S!Nobody)
    BY <1>0, <1>1, <2>4 DEF ToServer
  <2>7. S!Note' = S!Note /\ S!Nobody' = S!Nobody
    BY DEF S!Note, S!Nobody
  <2>8. QED BY <1>0, <1>1, <1>7, <2>1, <2>2, <2>5, <2>6, <2>7 DEF ToServer, Piece
<1>12. S!DiesOf'
  BY <1>1 DEF S!DiesOf
<1>13. ASSUME Clean PROVE Pieces' /\ Replies' /\ InOnePlace' /\ Waits'
  <2>0. Pieces /\ Replies /\ InOnePlace /\ Waits
    BY <1>0, <1>13
  <2>1. ~m.note => held' = m
    <3>1. CASE held.c = 0
      <4>1. held = S!Nobody
        BY <1>0, <1>1, <3>1 DEF ToServer
      <4>2. held.what = {}
        BY <1>0, <4>1, SctpFacts
      <4>3. QED BY <1>8, <3>1, <4>2
    <3>2. CASE held.c # 0
      <4>1. m = Rest(held)
        BY <1>1, <2>0, <3>2 DEF Pieces
      <4>2. m.what = held.what /\ m.c = held.c /\ m.s = held.s
        BY <1>0, <4>1, RestIs DEF SctpTypeOK
      <4>3. QED BY <1>8, <3>2, <4>2
    <3>3. QED BY <3>1, <3>2
  <2>2. m.note => held.c = 0
    <3>1. held.c # 0 => m = Rest(held) /\ ~held.note
      BY <1>1, <2>0 DEF Pieces, Piece, PieceOf
    <3>2. held.c # 0 => m.note = held.note
      BY <1>0, <3>1, RestIs DEF SctpTypeOK
    <3>3. QED BY <3>1, <3>2
  <2>3. Pieces'
    <3>1. \A k \in 1 .. Len(rcvq') - 1 : ~rcvq'[k].eor => rcvq'[k + 1] = Rest(rcvq'[k])
      BY <1>2, <1>3, <2>0 DEF Pieces
    <3>2. rcvq' # <<>> => rcvq'[Len(rcvq')] = rcvq[Len(rcvq)] /\ Len(rcvq) # 1
      BY <1>2, <1>3
    <3>3. rcvq' = <<>> => rcvq[Len(rcvq)] = m /\ Len(rcvq) = 1
      BY <1>3
    <3>4. rcvq' # <<>> /\ ~m.eor => rcvq'[1] = Rest(m)
      BY <1>2, <1>3, <2>0 DEF Pieces
    <3>5. m.eor \/ ~m.note
      BY <1>0, <1>5, SctpFacts
    <3>6. held'.c # 0 /\ xpc' = "recv" => held' = m /\ ~m.note /\ ~m.eor
      BY <1>1, <2>1, <2>2
    <3>7. ~m.note /\ ~m.eor => held' = m /\ xpc' = "recv" /\ Piece(m.c, m) /\ m.c # 0
      BY <1>1, <1>4, <1>5, <2>1 DEF S!Clients
    <3>8. \A x : Rest(x)' = Rest(x)
      BY DEF Rest
    <3>9. partial # 0 => \/ rcvq' # <<>> /\ ~rcvq'[Len(rcvq')].eor
                         \/ rcvq' = <<>> /\ xpc' = "recv" /\ held'.c # 0
      BY <1>1, <2>0, <3>2, <3>3, <3>5, <3>7 DEF Pieces
    <3>10. rcvq' # <<>> /\ ~rcvq'[Len(rcvq')].eor =>
             partial = rcvq'[Len(rcvq')].c /\ xup[partial] # <<>> /\ xup[partial][1] = Rest(rcvq'[Len(rcvq')])
      BY <1>1, <2>0, <3>2 DEF Pieces
    <3>11. xpc' = "recv" /\ held'.c # 0 =>
             /\ rcvq' # <<>> => rcvq'[1] = Rest(held')
             /\ rcvq' = <<>> => partial = held'.c /\ xup[partial] # <<>> /\ xup[partial][1] = Rest(held')
             /\ Piece(held'.c, held')
      BY <1>1, <2>0, <3>3, <3>4, <3>6, <3>7 DEF Pieces
    <3>12. QED BY <1>1, <3>1, <3>9, <3>10, <3>11 DEF Pieces, Piece, Rest
  <2>4. Replies'
    <3>1. ~m.note => Piece(m.c, m)
      BY <1>4, <1>5
    <3>2. ~m.note /\ ~incr => AnswerTo(m.c, m)
      BY <3>1 DEF Piece, PieceOf, AnswerTo, ReplyOf
    <3>3. (xpc' = "strms" => Piece(held'.c, held')) /\ (xpc' = "send" => AnswerTo(held'.c, held'))
      BY <1>1, <2>1, <3>1, <3>2
    <3>4. QED BY <1>1, <1>7, <2>0, <3>3 DEF Replies, Piece, AnswerTo
  <2>5. InOnePlace'
    <3>1. ASSUME NEW c \in S!Clients, NEW n \in Nat, NEW w \in Wheres, NEW k \in Nat, At(c, n, w, k)'
          PROVE  \/ w = "rcvq" /\ At(c, n, "rcvq", k + 1) /\ k # 0
                 \/ w = "held" /\ k = 1 /\ At(c, n, "rcvq", 1)
                 \/ w \notin {"rcvq", "held"} /\ At(c, n, w, k)
      <4>1. CASE w = "rcvq"
        BY <1>3, <3>1, <4>1 DEF At, Holds
      <4>2. CASE w = "held"
        <5>1. xpc' \in {"strms", "send"} /\ Holds(held', c, n) /\ k = 1
          BY <3>1, <4>2 DEF At, Holds
        <5>2. held' = m
          BY <1>1, <2>1, <5>1
        <5>3. 1 \in 1..Len(rcvq)
          BY <1>2
        <5>4. QED BY <4>2, <5>1, <5>2, <5>3 DEF At
      <4>3. CASE w \notin {"rcvq", "held"}
        BY <1>1, <3>1, <4>3 DEF At, Holds
      <4>4. QED BY <4>1, <4>2, <4>3
    <3>2. ASSUME NEW c \in S!Clients, NEW n \in Nat, NEW w \in Wheres, NEW v \in Wheres, NEW k \in Nat, NEW l \in Nat,
                 At(c, n, w, k)', At(c, n, v, l)'
          PROVE  w = v /\ k = l
      <4>1. "rcvq" \in Wheres /\ k + 1 \in Nat /\ l + 1 \in Nat /\ 1 \in Nat
        BY DEF Wheres
      <4>2. QED BY <2>0, <3>1, <3>2, <4>1 DEF InOnePlace
    <3>3. xpc' \in {"strms", "send"} => held'.eor
      BY <1>1, <2>1
    <3>4. QED BY <1>1, <2>0, <3>2, <3>3 DEF InOnePlace
  <2>6. Waits'
    <3>1. ASSUME NEW c \in S!Clients, \A k \in 1..Len(rcvq) : rcvq[k].c # c
          PROVE  (\A k \in 1..Len(rcvq') : rcvq'[k].c # c) /\ m.c # c
      BY <1>2, <1>3, <3>1
    <3>2. \A c \in S!Clients : xpc' \in {"strms", "send"} /\ held'.c = c => m.c = c
      BY <1>1, <2>1
    <3>3. QED BY <1>1, <2>0, <3>1, <3>2 DEF Waits
  <2>7. QED BY <2>3, <2>4, <2>5, <2>6
<1>14. QED BY <1>7, <1>9, <1>10, <1>11, <1>12, <1>13 DEF SctpInv

LEMMA SctpGetNoStrms == ASSUME SctpInv, S!GetNoStrms PROVE SctpInv'
<1>0. SctpTypeOK /\ Associations /\ ToServer /\ S!DiesOf /\ (Clean => Pieces /\ Replies /\ InOnePlace /\ Waits)
  BY DEF SctpInv
<1> DEFINE z == IF held.s + 1 >= S!OutStrms THEN 0 ELSE held.s + 1
<1>1. /\ xpc = "strms"
      /\ UNCHANGED <<xserv, incr, strict, xcli, ends, assoc, xup, rcvq, partial, childq, xdown, xcpc, xnsent, nlines, taken>>
      /\ IF assoc[held.c] \in {"up", "closing"} THEN held' = OnStream(held, z) /\ xpc' = "send"
         ELSE xpc' = "dead" /\ UNCHANGED held
  BY DEF S!GetNoStrms, S!conf, S!client, OnStream
<1>2. S!OutStrms' = S!OutStrms /\ (Clean' <=> Clean) /\ (S!Aborted' <=> S!Aborted)
  BY <1>1 DEF S!OutStrms, Clean, S!Aborted
<1>3. held \in SctpMessages /\ held.s \in Nat /\ z \in Nat /\ z < S!OutStrms
  <2>1. held \in SctpMessages /\ held.s \in Nat
    BY <1>0 DEF SctpTypeOK, SctpMessages
  <2>2. S!OutStrms \in Nat /\ S!OutStrms > 0
    BY <1>0, SctpFacts
  <2>3. QED BY <2>1, <2>2
<1> HIDE DEF z
<1>4. /\ held' \in SctpMessages /\ held'.what = held.what /\ held'.c = held.c /\ held'.eor = held.eor
      /\ held'.note = held.note /\ held'.s < S!OutStrms /\ (xpc' = "send" => held'.s = z)
      /\ xpc' \in {"send", "dead"}
  BY <1>0, <1>1, <1>3, OnStreamIs DEF ToServer
<1>5. held.c \in S!Clients
  BY <1>0, <1>1 DEF ToServer
<1>6. SctpTypeOK'
  BY <1>0, <1>1, <1>4 DEF SctpTypeOK
<1>7. Associations'
  <2>1. \A c \in S!Clients : (S!ClosedEarly(c)' <=> S!ClosedEarly(c)) /\ (Away(c) => Away(c)')
    BY <1>1, <1>4 DEF S!ClosedEarly, Away
  <2>2. QED BY <1>0, <1>1, <1>4, <2>1 DEF Associations
<1>8. ToServer'
  <2>1. S!Note' = S!Note /\ S!Nobody' = S!Nobody
    BY DEF S!Note, S!Nobody
  <2>2. QED BY <1>0, <1>1, <1>2, <1>4, <1>5, <2>1 DEF ToServer, Piece
<1>9. S!DiesOf'
  <2>1. xpc' = "dead" => assoc[held.c] \notin {"up", "closing"} /\ held' = held
    BY <1>1
  <2>2. assoc[held.c] = "down" => S!ClosedEarly(held.c)
    BY <1>0, <1>1, <1>5 DEF Associations, Away
  <2>3. assoc[held.c] # "peeled"
    <3>1. xserv.increments => xserv.does # "peel off"
      <4>1. xserv \in S!Servers
        BY <1>0 DEF SctpTypeOK
      <4>2. /\ S!sctpserv01.does = "nothing" /\ S!sctpserv02.does = "more streams" /\ S!sctpserv03.does = "MSG_EOF"
            /\ S!sctpserv04.does = "autoclose" /\ S!sctpserv05.does = "pdapi" /\ S!sctpserv06.does = "notifications"
            /\ S!sctpserv07.does = "notifications" /\ ~S!sctpserv_fork.increments
        BY DEF S!Server, S!sctpserv01, S!sctpserv02, S!sctpserv03, S!sctpserv04, S!sctpserv05, S!sctpserv06,
               S!sctpserv07, S!sctpserv_fork
      <4>3. xserv \in {S!sctpserv01, S!sctpserv02, S!sctpserv03, S!sctpserv04, S!sctpserv05, S!sctpserv06,
                        S!sctpserv07, S!sctpserv_fork}
        BY <4>1 DEF S!Servers
      <4>4. QED BY <4>2, <4>3
    <3>2. incr /\ xserv.increments
      BY <1>0, <1>1 DEF Associations, SctpTypeOK
    <3>3. QED BY <1>0, <1>5, <3>1, <3>2 DEF Associations
  <2>4. assoc[held.c] \in {"down", "up", "closing", "peeled", "gone"}
    BY <1>0, <1>5 DEF SctpTypeOK
  <2>5. xpc' = "dead" => incr /\ (assoc[held.c] = "gone" \/ (assoc[held.c] = "down" /\ S!ClosedEarly(held.c)))
    BY <1>0, <1>1, <2>1, <2>2, <2>3, <2>4 DEF Associations
  <2>6. S!ClosedEarly(held.c)' <=> S!ClosedEarly(held'.c)
    BY <1>1 DEF S!ClosedEarly
  <2>7. QED BY <1>1, <2>1, <2>5, <2>6 DEF S!DiesOf
<1>10. ASSUME Clean PROVE Pieces' /\ Replies' /\ InOnePlace' /\ Waits'
  <2>0. Pieces /\ Replies /\ InOnePlace /\ Waits
    BY <1>0, <1>10
  <2>1. Pieces'
    BY <1>1, <1>4, <2>0 DEF Pieces, Piece, Rest
  <2>2. xpc' = "send" => ReplyOf(held'.c, held', xnsent[held'.c], xcli[held'.c].all /\ xserv.does # "peel off", incr, S!OutStrms)
    <3>1. PICK n \in 1..xnsent[held.c] :
            held.what = {<<held.c, n>>} /\ (xcli[held.c].all /\ n <= Strms => held.s = n - 1)
      BY <1>1, <2>0 DEF Replies, Piece, PieceOf
    <3>2. n \in Nat /\ n > 0
      BY <1>0, <1>5, <3>1 DEF SctpTypeOK
    <3>3. S!OutStrms \in Nat /\ S!OutStrms > 0 /\ Strms <= S!OutStrms
      BY <1>0, SctpFacts
    <3>4. xcli[held.c].all /\ n <= Strms => z = n % S!OutStrms
      <4>1. SUFFICES ASSUME xcli[held.c].all, n <= Strms PROVE z = n % S!OutStrms
        OBVIOUS
      <4>2. held.s + 1 = n /\ n <= S!OutStrms
        BY <1>0, <3>1, <3>2, <3>3, <4>1, SctpFacts
      <4>3. CASE n = S!OutStrms
        <5>1. z = 0 /\ n % n = 0
          BY <3>2, <4>2, <4>3 DEF z
        <5>2. QED BY <4>3, <5>1
      <4>4. CASE n < S!OutStrms
        <5>1. z = n /\ n % S!OutStrms = n
          BY <3>2, <3>3, <4>2, <4>4 DEF z
        <5>2. QED BY <5>1
      <4>5. QED BY <3>2, <3>3, <4>2, <4>3, <4>4
    <3>5. incr
      BY <1>0, <1>1 DEF Associations
    <3>6. QED BY <1>1, <1>2, <1>4, <3>1, <3>4, <3>5 DEF AnswerTo, ReplyOf
  <2>3. Replies'
    BY <1>1, <1>2, <1>4, <2>0, <2>2 DEF Replies, AnswerTo
  <2>4. InOnePlace'
    <3>1. ASSUME NEW c \in S!Clients, NEW n \in Nat, NEW w \in Wheres, NEW k \in Nat, At(c, n, w, k)'
          PROVE  At(c, n, w, k)
      BY <1>1, <1>4, <3>1 DEF At, Holds
    <3>2. \A c \in S!Clients, n \in Nat, w, v \in Wheres, k, l \in Nat :
            At(c, n, w, k)' /\ At(c, n, v, l)' => w = v /\ k = l
      BY <2>0, <3>1 DEF InOnePlace
    <3>3. QED BY <1>1, <1>4, <2>0, <3>2 DEF InOnePlace
  <2>5. Waits'
    BY <1>1, <1>4, <2>0 DEF Waits
  <2>6. QED BY <2>1, <2>3, <2>4, <2>5
<1>11. QED BY <1>2, <1>6, <1>7, <1>8, <1>9, <1>10 DEF SctpInv

LEMMA SctpSendmsg == ASSUME SctpInv, S!Sendmsg PROVE SctpInv'
<1>0. SctpTypeOK /\ Associations /\ ToServer /\ S!DiesOf /\ (Clean => Pieces /\ Replies /\ InOnePlace /\ Waits)
  BY DEF SctpInv
<1> DEFINE h == held.c
           ok == held.s < S!OutStrms /\ ~(assoc[h] \in {"closing", "down"} /\ strict)
<1>1. /\ xpc = "send"
      /\ UNCHANGED <<xserv, incr, strict, xcli, ends, xup, rcvq, partial, childq, xcpc, xnsent, nlines, taken>>
      /\ ~ok => xpc' = "dead" /\ UNCHANGED <<held, xdown, assoc>>
      /\ ok => /\ xdown' = (IF assoc[h] \in {"down", "gone"} THEN xdown
                            ELSE [xdown EXCEPT ![h] = Append(xdown[h], held)])
               /\ assoc' = (IF xserv.does = "MSG_EOF" /\ assoc[h] = "up" THEN [assoc EXCEPT ![h] = "closing"] ELSE assoc)
               /\ \/ xserv.does = "peel off" /\ xpc' = "peel" /\ held' = held
                  \/ xserv.does # "peel off" /\ xpc' = "recv" /\ held' = S!Nobody
  BY DEF S!Sendmsg, S!conf, S!client
<1> HIDE DEF ok
<1>2. S!OutStrms' = S!OutStrms /\ S!Note' = S!Note /\ S!Nobody' = S!Nobody /\ h \in S!Clients
  BY <1>0, <1>1 DEF S!OutStrms, S!Note, S!Nobody, ToServer
<1>3. /\ S!Nobody \in SctpMessages /\ S!Nobody.c = 0 /\ S!Nobody.s = 0 /\ S!Nobody.eor
      /\ S!OutStrms \in Nat /\ S!OutStrms > 0
  BY <1>0, SctpFacts
<1>4. \A c \in S!Clients :
        /\ assoc'[c] = assoc[c] \/ (ok /\ c = h /\ xserv.does = "MSG_EOF" /\ assoc[c] = "up" /\ assoc'[c] = "closing")
        /\ xdown'[c] = xdown[c] \/ (ok /\ c = h /\ xdown'[c] = Append(xdown[c], held))
  <2>1. assoc \in [S!Clients -> {"down", "up", "closing", "peeled", "gone"}] /\ xdown \in [S!Clients -> Seq(SctpMessages)]
    BY <1>0 DEF SctpTypeOK
  <2>2. DOMAIN assoc = S!Clients /\ DOMAIN xdown = S!Clients
    BY <2>1
  <2>3. ASSUME NEW c \in S!Clients
        PROVE  assoc'[c] = assoc[c] \/ (ok /\ c = h /\ xserv.does = "MSG_EOF" /\ assoc[c] = "up" /\ assoc'[c] = "closing")
    <3>1. CASE ok /\ xserv.does = "MSG_EOF" /\ assoc[h] = "up"
      <4>1. assoc' = [assoc EXCEPT ![h] = "closing"]
        BY <1>1, <3>1
      <4>2. QED BY <1>2, <2>2, <3>1, <4>1
    <3>2. CASE ~(ok /\ xserv.does = "MSG_EOF" /\ assoc[h] = "up")
      BY <1>1, <3>2
    <3>3. QED BY <3>1, <3>2
  <2>4. ASSUME NEW c \in S!Clients
        PROVE  xdown'[c] = xdown[c] \/ (ok /\ c = h /\ xdown'[c] = Append(xdown[c], held))
    <3>1. CASE ok /\ assoc[h] \notin {"down", "gone"}
      <4>1. xdown' = [xdown EXCEPT ![h] = Append(xdown[h], held)]
        BY <1>1, <3>1
      <4>2. QED BY <1>2, <2>2, <3>1, <4>1
    <3>2. CASE ~(ok /\ assoc[h] \notin {"down", "gone"})
      BY <1>1, <3>2
    <3>3. QED BY <3>1, <3>2
  <2>5. QED BY <2>3, <2>4
<1>5. \A c \in S!Clients :
        xdown'[c] = xdown[c] \/ (ok /\ c = h /\ SentTo(xdown[c], xdown'[c], held))
  <2>1. ASSUME NEW c \in S!Clients, ok, c = h, xdown'[c] = Append(xdown[c], held)
        PROVE  SentTo(xdown[c], xdown'[c], held)
    <3>1. xdown[c] \in Seq(SctpMessages) /\ held \in SctpMessages
      BY <1>0 DEF SctpTypeOK
    <3>2. QED BY <2>1, <3>1, SeqFacts DEF SentTo
  <2>2. QED BY <1>4, <2>1
<1>6. (S!Aborted' <=> S!Aborted) /\ (Clean' <=> Clean)
  <2>1. S!Aborted' <=> S!Aborted
    BY <1>1, <1>4 DEF S!Aborted
  <2>2. QED BY <1>1, <2>1 DEF Clean
<1>7. SctpTypeOK'
  <2>1. assoc' \in [S!Clients -> {"down", "up", "closing", "peeled", "gone"}]
    <3>1. assoc \in [S!Clients -> {"down", "up", "closing", "peeled", "gone"}]
      BY <1>0 DEF SctpTypeOK
    <3>2. assoc' = assoc \/ assoc' = [assoc EXCEPT ![h] = "closing"]
      BY <1>1
    <3>3. QED BY <3>1, <3>2
  <2>2. xdown' \in [S!Clients -> Seq(SctpMessages)]
    <3>1. xdown \in [S!Clients -> Seq(SctpMessages)] /\ held \in SctpMessages
      BY <1>0 DEF SctpTypeOK
    <3>2. Append(xdown[h], held) \in Seq(SctpMessages)
      BY <1>2, <3>1, SeqFacts
    <3>3. QED BY <1>1, <1>2, <3>1, <3>2
  <2>3. held' \in SctpMessages /\ xpc' \in {"recv", "strms", "send", "peel", "dead"}
    BY <1>0, <1>1, <1>3 DEF SctpTypeOK
  <2>4. QED BY <1>0, <1>1, <2>1, <2>2, <2>3 DEF SctpTypeOK
<1>8. Associations'
  <2>1. \A c \in S!Clients : (S!ClosedEarly(c)' <=> S!ClosedEarly(c)) /\ (Away(c) => Away(c)')
    <3>1. held' = held \/ held'.c = 0
      BY <1>1, <1>3
    <3>2. 0 \notin S!Clients
      BY DEF S!Clients
    <3>3. QED BY <1>1, <3>1, <3>2 DEF S!ClosedEarly, Away
  <2>2. partial # 0 /\ assoc'[partial] = "up" => assoc[partial] = "up"
    <3>1. partial # 0 => partial \in S!Clients
      BY <1>0 DEF SctpTypeOK, S!Clients
    <3>2. QED BY <1>4, <3>1
  <2>3. (xpc' = "strms" => incr) /\ (xpc' = "peel" => xserv.does = "peel off")
    BY <1>1
  <2>4. \A c \in S!Clients :
          /\ assoc'[c] = "gone" <=> xcpc[c] = "exit"
          /\ assoc'[c] = "gone" => xup[c] = <<>>
          /\ assoc'[c] = "peeled" => xserv.does = "peel off"
          /\ assoc'[c] = "closing" => xserv.does = "MSG_EOF"
          /\ assoc'[c] = "down" => xup[c] = <<>> /\ (S!ClosedEarly(c)' \/ Away(c)')
          /\ xcli[c].all => xnsent[c] = 0 \/ xnsent[c] >= Strms
    <3>1. ASSUME NEW c \in S!Clients
          PROVE  /\ assoc'[c] = "gone" <=> xcpc[c] = "exit"
                 /\ assoc'[c] = "gone" => xup[c] = <<>>
                 /\ assoc'[c] = "peeled" => xserv.does = "peel off"
                 /\ assoc'[c] = "closing" => xserv.does = "MSG_EOF"
                 /\ xcli[c].all => xnsent[c] = 0 \/ xnsent[c] >= Strms
      BY <1>0, <1>4 DEF Associations
    <3>2. ASSUME NEW c \in S!Clients, assoc'[c] = "down"
          PROVE  xup[c] = <<>> /\ (S!ClosedEarly(c)' \/ Away(c)')
      <4>1. assoc[c] = "down"
        BY <1>4, <3>2
      <4>2. QED BY <1>0, <2>1, <4>1 DEF Associations
    <3>3. QED BY <3>1, <3>2
  <2>5. QED BY <1>0, <1>1, <2>2, <2>3, <2>4 DEF Associations
<1>9. ToServer'
  <2>1. ASSUME NEW c \in S!Clients, NEW k \in 1..Len(xdown'[c]) PROVE xdown'[c][k].s < S!OutStrms
    <3>1. CASE xdown'[c] = xdown[c]
      BY <1>0, <2>1, <3>1 DEF ToServer
    <3>2. CASE SentTo(xdown[c], xdown'[c], held)
      <4>1. k \in 1..Len(xdown[c]) \/ xdown'[c][k] = held
        <5>1. Len(xdown[c]) \in Nat
          BY <1>0 DEF SctpTypeOK
        <5>2. QED BY <3>2, <5>1 DEF SentTo
      <4>2. QED BY <1>0, <3>2, <4>1 DEF ToServer, SentTo
    <3>3. QED BY <1>5, <3>1, <3>2
  <2>2. held'.s < S!OutStrms
    BY <1>0, <1>1, <1>3 DEF ToServer
  <2>3. xpc' \in {"strms", "send", "peel"} => held'.c \in S!Clients
    BY <1>1, <1>2
  <2>4. xpc' = "recv" => held' = S!Nobody /\ held'.c = 0
    BY <1>1, <1>3
  <2>5. QED BY <1>0, <1>1, <1>2, <2>1, <2>2, <2>3, <2>4 DEF ToServer, Piece
<1>10. ASSUME ~ok
       PROVE  xserv.does = "MSG_EOF" /\ strict /\ xcli[h].all
  <2>1. assoc[h] \in {"closing", "down"} /\ strict
    BY <1>0, <1>10 DEF ToServer, ok
  <2>2. xserv.does = "MSG_EOF"
    <3>1. xserv = S!sctpserv03
      BY <1>0, <2>1 DEF SctpTypeOK
    <3>2. S!sctpserv03.does = "MSG_EOF"
      BY DEF S!sctpserv03, S!Server
    <3>3. QED BY <3>1, <3>2
  <2>3. Clean
    BY <2>2 DEF Clean
  <2>4. CASE assoc[h] = "closing"
    BY <1>0, <1>1, <1>2, <2>1, <2>2, <2>3, <2>4 DEF Waits
  <2>5. CASE assoc[h] = "down"
    <3>1. S!ClosedEarly(h)
      BY <1>0, <1>1, <1>2, <2>5 DEF Associations, Away
    <3>2. QED BY <2>1, <2>2, <3>1 DEF S!ClosedEarly
  <2>6. QED BY <2>1, <2>4, <2>5
<1>11. S!DiesOf'
  <2>1. ok => xpc' # "dead"
    BY <1>1
  <2>2. QED BY <1>1, <1>10, <2>1 DEF S!DiesOf
<1>12. ASSUME Clean PROVE Pieces' /\ Replies' /\ InOnePlace' /\ Waits'
  <2>0. Pieces /\ Replies /\ InOnePlace /\ Waits
    BY <1>0, <1>12
  <2>1. Pieces'
    <3>1. xpc' = "recv" => held'.c = 0
      BY <1>1, <1>3
    <3>2. QED BY <1>1, <2>0, <3>1 DEF Pieces
  <2>2. Replies'
    <3>1. ASSUME NEW c \in S!Clients, NEW k \in 1..Len(xdown'[c]) PROVE AnswerTo(c, xdown'[c][k])
      <4>1. CASE xdown'[c] = xdown[c]
        BY <2>0, <3>1, <4>1 DEF Replies
      <4>2. CASE c = h /\ SentTo(xdown[c], xdown'[c], held)
        <5>1. k \in 1..Len(xdown[c]) \/ xdown'[c][k] = held
          <6>1. Len(xdown[c]) \in Nat
            BY <1>0 DEF SctpTypeOK
          <6>2. QED BY <4>2, <6>1 DEF SentTo
        <5>2. AnswerTo(h, held)
          BY <1>1, <2>0 DEF Replies
        <5>3. QED BY <2>0, <4>2, <5>1, <5>2 DEF Replies, SentTo
      <4>3. QED BY <1>5, <4>1, <4>2
    <3>2. xpc' \notin {"strms", "send"}
      BY <1>1
    <3>3. QED BY <1>1, <1>2, <2>0, <3>1, <3>2 DEF Replies, AnswerTo
  <2>3. InOnePlace'
    <3>1. ASSUME NEW c \in S!Clients, NEW n \in Nat, NEW w \in Wheres, NEW k \in Nat, At(c, n, w, k)'
          PROVE  \/ w # "held" /\ At(c, n, w, k)
                 \/ w = "down" /\ k = Len(xdown[c]) + 1 /\ At(c, n, "held", 1)
      <4>1. CASE w = "down"
        <5>1. k \in 1..Len(xdown'[c]) /\ Holds(xdown'[c][k], c, n)
          BY <3>1, <4>1 DEF At, Holds
        <5>2. CASE xdown'[c] = xdown[c]
          BY <4>1, <5>1, <5>2 DEF At
        <5>3. CASE SentTo(xdown[c], xdown'[c], held)
          <6>1. \/ k \in 1..Len(xdown[c]) /\ xdown'[c][k] = xdown[c][k]
                \/ k = Len(xdown[c]) + 1 /\ xdown'[c][k] = held
            <7>1. Len(xdown[c]) \in Nat
              BY <1>0 DEF SctpTypeOK
            <7>2. QED BY <5>1, <5>3, <7>1 DEF SentTo
          <6>2. QED BY <1>1, <4>1, <5>1, <6>1 DEF At
        <5>4. QED BY <1>5, <5>2, <5>3
      <4>2. CASE w # "down"
        BY <1>1, <3>1, <4>2 DEF At, Holds
      <4>3. QED BY <4>1, <4>2
    <3>2. ASSUME NEW c \in S!Clients, NEW n \in Nat, NEW w \in Wheres, NEW v \in Wheres, NEW k \in Nat, NEW l \in Nat,
                 At(c, n, w, k)', At(c, n, v, l)'
          PROVE  w = v /\ k = l
      <4>1. "held" \in Wheres /\ 1 \in Nat
        BY DEF Wheres
      <4>2. \A p, q \in Wheres, i, j \in Nat : At(c, n, p, i) /\ At(c, n, q, j) => p = q /\ i = j
        BY <2>0 DEF InOnePlace
      <4>3. \/ w # "held" /\ At(c, n, w, k)
            \/ w = "down" /\ k = Len(xdown[c]) + 1 /\ At(c, n, "held", 1)
        BY <3>1, <3>2
      <4>4. \/ v # "held" /\ At(c, n, v, l)
            \/ v = "down" /\ l = Len(xdown[c]) + 1 /\ At(c, n, "held", 1)
        BY <3>1, <3>2
      <4>5. QED BY <4>1, <4>2, <4>3, <4>4
    <3>3. ASSUME NEW c \in S!Clients, NEW k \in 1..Len(xdown'[c]) PROVE xdown'[c][k].eor
      <4>1. CASE xdown'[c] = xdown[c]
        BY <2>0, <3>3, <4>1 DEF InOnePlace
      <4>2. CASE SentTo(xdown[c], xdown'[c], held)
        <5>1. k \in 1..Len(xdown[c]) \/ xdown'[c][k] = held
          <6>1. Len(xdown[c]) \in Nat
            BY <1>0 DEF SctpTypeOK
          <6>2. QED BY <4>2, <6>1 DEF SentTo
        <5>2. held.eor
          BY <1>1, <2>0 DEF InOnePlace
        <5>3. QED BY <2>0, <4>2, <5>1, <5>2 DEF InOnePlace, SentTo
      <4>3. QED BY <1>5, <4>1, <4>2
    <3>4. QED BY <1>1, <2>0, <3>2, <3>3 DEF InOnePlace
  <2>4. Waits'
    <3>1. ASSUME NEW c \in S!Clients, ~xcli[c].all, assoc'[c] = "closing"
          PROVE  xup[c] = <<>> /\ (\A k \in 1..Len(rcvq) : rcvq[k].c # c)
      <4>1. CASE assoc[c] = "closing"
        BY <2>0, <3>1, <4>1 DEF Waits
      <4>2. CASE assoc[c] # "closing"
        <5>1. c = h /\ xserv.does = "MSG_EOF" /\ assoc[c] = "up"
          BY <1>4, <3>1, <4>2
        <5>2. xcpc[c] # "exit"
          BY <1>0, <5>1 DEF Associations
        <5>3. PICK n \in Nat : At(c, n, "held", 1)
          <6>1. held.eor /\ AnswerTo(h, held)
            BY <1>1, <2>0 DEF InOnePlace, Replies
          <6>2. PICK n \in 1..xnsent[h] : held.what = {<<h, n>>}
            BY <6>1 DEF AnswerTo, ReplyOf
          <6>3. n \in Nat
            BY <1>0, <1>2 DEF SctpTypeOK
          <6>4. QED BY <1>1, <5>1, <6>1, <6>2, <6>3 DEF At, Holds
        <5>4. ASSUME NEW m \in Nat, NEW w \in {"up", "rcvq"}, NEW k \in Nat, At(c, m, w, k) PROVE FALSE
          <6>1. w \in Wheres /\ "held" \in Wheres /\ 1 \in Nat
            BY DEF Wheres
          <6>2. xcpc[c] = "wait"
            <7>1. xcpc[c] # "type"
              BY <1>12, <5>3, <6>1, Outstanding
            <7>2. QED BY <1>0, <5>2, <7>1 DEF SctpTypeOK
          <6>3. n = xnsent[c]
            BY <1>12, <3>1, <5>3, <6>1, <6>2, Outstanding
          <6>4. m = xnsent[c]
            BY <1>12, <3>1, <5>4, <6>1, <6>2, Outstanding
          <6>5. QED BY <2>0, <5>3, <5>4, <6>1, <6>3, <6>4 DEF InOnePlace
        <5>5. xup[c] = <<>>
          <6>1. SUFFICES ASSUME xup[c] # <<>> PROVE FALSE
            OBVIOUS
          <6>2. 1 \in 1..Len(xup[c])
            BY <1>0, <6>1, TailIs DEF SctpTypeOK
          <6>3. Piece(c, xup[c][1]) /\ xup[c][1].eor
            BY <1>0, <6>2 DEF ToServer
          <6>4. PICK m \in 1..xnsent[c] : xup[c][1].what = {<<c, m>>}
            BY <6>3 DEF Piece, PieceOf
          <6>5. m \in Nat /\ 1 \in Nat
            BY <1>0 DEF SctpTypeOK
          <6>6. At(c, m, "up", 1)
            BY <6>2, <6>3, <6>4 DEF At, Holds
          <6>7. QED BY <5>4, <6>5, <6>6
        <5>6. ASSUME NEW k \in 1..Len(rcvq), rcvq[k].c = c PROVE FALSE
          <6>1. rcvq[k].eor
            BY <1>0, <5>1 DEF Associations
          <6>2. S!Note.c = 0 /\ c # 0
            BY <1>0, SctpFacts DEF S!Clients
          <6>3. Piece(c, rcvq[k])
            BY <1>0, <5>6, <6>2 DEF ToServer
          <6>4. PICK m \in 1..xnsent[c] : rcvq[k].what = {<<c, m>>}
            BY <6>3 DEF Piece, PieceOf
          <6>5. m \in Nat /\ k \in Nat
            BY <1>0 DEF SctpTypeOK
          <6>6. At(c, m, "rcvq", k)
            BY <6>1, <6>4 DEF At, Holds
          <6>7. QED BY <5>4, <6>5, <6>6
        <5>7. QED BY <5>5, <5>6
      <4>3. QED BY <4>1, <4>2
    <3>2. xpc' \notin {"strms", "send"}
      BY <1>1
    <3>3. QED BY <1>1, <2>0, <3>1, <3>2 DEF Waits
  <2>5. QED BY <2>1, <2>2, <2>3, <2>4
<1>13. QED BY <1>6, <1>7, <1>8, <1>9, <1>11, <1>12 DEF SctpInv

\* What has been taken out of a queue comes from places of it, in their order.
Picked(r, q, cs, at) ==
  /\ \A k \in 1..Len(r) : at[k] \in 1..Len(q) /\ r[k] = q[at[k]] /\ q[at[k]].c \in cs
  /\ \A k, l \in 1..Len(r) : k # l => at[k] # at[l]

LEMMA PickedOut ==
  ASSUME NEW Elem, NEW q \in Seq(Elem), NEW cs
  PROVE  S!Of(q, cs) \in Seq(Elem) /\ \E at : Picked(S!Of(q, cs), q, cs, at)
<1> DEFINE r == S!Of(q, cs)
<1>1. PICK at \in [1..Len(r) -> 1..Len(q)] :
        /\ \A k \in 1..Len(r) : r[k] = q[at[k]] /\ q[at[k]].c \in cs
        /\ \A k, l \in 1..Len(r) : k < l => at[k] < at[l]
  BY OfIs
<1>2. r \in Seq(Elem) /\ Len(r) \in Nat /\ Len(q) \in Nat
  BY OfIs
<1> HIDE DEF r
<1>3. \A k \in 1..Len(r) : at[k] \in 1..Len(q) /\ at[k] \in Nat
  BY <1>1, <1>2
<1>4. ASSUME NEW k \in 1..Len(r), NEW l \in 1..Len(r), k # l PROVE at[k] # at[l]
  <2>1. k < l \/ l < k
    BY <1>2, <1>4
  <2>2. QED BY <1>1, <1>3, <2>1
<1>5. Picked(r, q, cs, at)
  BY <1>1, <1>3, <1>4 DEF Picked
<1>6. QED BY <1>2, <1>5 DEF r

LEMMA SctpPeeloff == ASSUME SctpInv, S!Peeloff PROVE SctpInv'
<1>0. SctpTypeOK /\ Associations /\ ToServer /\ S!DiesOf /\ (Clean => Pieces /\ Replies /\ InOnePlace /\ Waits)
  BY DEF SctpInv
<1> DEFINE h == held.c
           rest == {0, 1, 2} \ {h}
<1>1. /\ xpc = "peel" /\ xpc' = "recv" /\ held' = S!Nobody
      /\ UNCHANGED <<xserv, incr, strict, xcli, ends, xup, partial, xdown, xcpc, xnsent, nlines, taken>>
      /\ \/ /\ assoc[h] = "up"
            /\ assoc' = [assoc EXCEPT ![h] = "peeled"]
            /\ childq' = [childq EXCEPT ![h] = S!Of(rcvq, {h})]
            /\ rcvq' = S!Of(rcvq, rest)
         \/ UNCHANGED <<assoc, childq, rcvq>>
  BY DEF S!Peeloff, S!conf, S!client
<1>2. /\ S!OutStrms' = S!OutStrms /\ S!Note' = S!Note /\ S!Nobody' = S!Nobody /\ h \in S!Clients
      /\ S!Nobody \in SctpMessages /\ S!Nobody.c = 0 /\ S!Nobody.s = 0 /\ S!Nobody.eor
      /\ S!OutStrms \in Nat /\ S!OutStrms > 0 /\ S!Note.c = 0
  <2>1. S!OutStrms' = S!OutStrms /\ S!Note' = S!Note /\ S!Nobody' = S!Nobody
    BY <1>1 DEF S!OutStrms, S!Note, S!Nobody
  <2>2. h \in S!Clients
    BY <1>0, <1>1 DEF ToServer
  <2>3. QED BY <1>0, <2>1, <2>2, SctpFacts
<1>3. xserv.does = "peel off" /\ rcvq \in Seq(SctpMessages)
  BY <1>0, <1>1 DEF Associations, SctpTypeOK
<1>4. /\ S!Of(rcvq, {h}) \in Seq(SctpMessages) /\ \E at : Picked(S!Of(rcvq, {h}), rcvq, {h}, at)
      /\ S!Of(rcvq, rest) \in Seq(SctpMessages) /\ \E at : Picked(S!Of(rcvq, rest), rcvq, rest, at)
  BY <1>3, PickedOut
<1>5. CASE UNCHANGED <<assoc, childq, rcvq>>
  <2>1. (S!Aborted' <=> S!Aborted) /\ (Clean' <=> Clean)
    BY <1>1, <1>5 DEF S!Aborted, Clean
  <2>2. SctpTypeOK'
    BY <1>0, <1>1, <1>2, <1>5 DEF SctpTypeOK
  <2>3. Associations'
    <3>1. \A c \in S!Clients : S!Nobody.c # c
      BY <1>2 DEF S!Clients
    <3>2. \A c \in S!Clients : (S!ClosedEarly(c)' <=> S!ClosedEarly(c)) /\ (Away(c) => Away(c)')
      BY <1>1, <1>5, <3>1 DEF S!ClosedEarly, Away
    <3>3. QED BY <1>0, <1>1, <1>5, <3>1, <3>2 DEF Associations
  <2>4. ToServer'
    BY <1>0, <1>1, <1>2, <1>5 DEF ToServer, Piece
  <2>5. S!DiesOf'
    BY <1>1 DEF S!DiesOf
  <2>6. ASSUME Clean PROVE Pieces' /\ Replies' /\ InOnePlace' /\ Waits'
    <3>0. Pieces /\ Replies /\ InOnePlace /\ Waits
      BY <1>0, <2>6
    <3>1. Pieces'
      BY <1>1, <1>2, <1>5, <3>0 DEF Pieces
    <3>2. Replies'
      BY <1>1, <1>2, <1>5, <3>0 DEF Replies, AnswerTo
    <3>3. ASSUME NEW c \in S!Clients, NEW n \in Nat, NEW w \in Wheres, NEW k \in Nat, At(c, n, w, k)'
          PROVE  At(c, n, w, k)
      BY <1>1, <1>5, <3>3 DEF At, Holds
    <3>4. \A c \in S!Clients, n \in Nat, w, v \in Wheres, k, l \in Nat :
            At(c, n, w, k)' /\ At(c, n, v, l)' => w = v /\ k = l
      BY <3>0, <3>3 DEF InOnePlace
    <3>5. InOnePlace'
      BY <1>1, <1>5, <3>0, <3>4 DEF InOnePlace
    <3>6. Waits'
      BY <1>1, <1>5, <3>0 DEF Waits
    <3>7. QED BY <3>1, <3>2, <3>5, <3>6
  <2>7. QED BY <2>1, <2>2, <2>3, <2>4, <2>5, <2>6 DEF SctpInv
<1>6. CASE ~UNCHANGED <<assoc, childq, rcvq>>
  <2>1. /\ assoc[h] = "up" /\ assoc' = [assoc EXCEPT ![h] = "peeled"]
        /\ childq' = [childq EXCEPT ![h] = S!Of(rcvq, {h})] /\ rcvq' = S!Of(rcvq, rest)
    BY <1>1, <1>6
  <2>2. /\ assoc \in [S!Clients -> {"down", "up", "closing", "peeled", "gone"}]
        /\ childq \in [S!Clients -> Seq(SctpMessages)]
    BY <1>0 DEF SctpTypeOK
  <2>3. \A c \in S!Clients : assoc'[c] = IF c = h THEN "peeled" ELSE assoc[c]
    BY <2>1, <2>2
  <2>4. \A c \in S!Clients : childq'[c] = IF c = h THEN S!Of(rcvq, {h}) ELSE childq[c]
    BY <2>1, <2>2
  <2>5. PICK at : Picked(childq'[h], rcvq, {h}, at)
    BY <1>2, <1>4, <2>4
  <2>6. PICK to : Picked(rcvq', rcvq, rest, to)
    BY <1>4, <2>1
  <2>7. \A k \in 1..Len(childq'[h]) : at[k] \in 1..Len(rcvq) /\ childq'[h][k] = rcvq[at[k]] /\ rcvq[at[k]].c = h
    BY <2>5 DEF Picked
  <2>8. \A k \in 1..Len(rcvq') : to[k] \in 1..Len(rcvq) /\ rcvq'[k] = rcvq[to[k]] /\ rcvq[to[k]].c # h
    BY <2>6 DEF Picked
  <2>9. (S!Aborted' <=> S!Aborted) /\ (Clean' <=> Clean)
    <3>1. \A c \in S!Clients : assoc'[c] = "gone" <=> assoc[c] = "gone"
      BY <2>1, <2>3
    <3>2. S!Aborted' <=> S!Aborted
      BY <1>1, <3>1 DEF S!Aborted
    <3>3. QED BY <1>1, <3>2 DEF Clean
  <2>10. SctpTypeOK'
    <3>1. assoc' \in [S!Clients -> {"down", "up", "closing", "peeled", "gone"}]
      BY <2>1, <2>2
    <3>2. childq' \in [S!Clients -> Seq(SctpMessages)]
      BY <1>4, <2>1, <2>2
    <3>3. rcvq' \in Seq(SctpMessages) /\ held' \in SctpMessages
      BY <1>1, <1>2, <1>4, <2>1
    <3>4. QED BY <1>0, <1>1, <3>1, <3>2, <3>3 DEF SctpTypeOK
  <2>11. Associations'
    <3>1. ASSUME NEW c \in S!Clients
          PROVE  /\ assoc'[c] = "gone" <=> xcpc[c] = "exit"
                 /\ assoc'[c] = "gone" => xup[c] = <<>>
                 /\ assoc'[c] = "peeled" => xserv.does = "peel off"
                 /\ assoc'[c] = "closing" => xserv.does = "MSG_EOF"
                 /\ xcli[c].all => xnsent[c] = 0 \/ xnsent[c] >= Strms
      <4>1. assoc'[c] = assoc[c] \/ (assoc[c] = "up" /\ assoc'[c] = "peeled")
        BY <2>1, <2>3
      <4>2. QED BY <1>0, <1>3, <4>1 DEF Associations
    <3>2. ASSUME NEW c \in S!Clients, assoc'[c] = "down"
          PROVE  xup[c] = <<>> /\ (S!ClosedEarly(c)' \/ Away(c)')
      <4>1. assoc[c] = "down" /\ c # 0
        BY <2>3, <3>2 DEF S!Clients
      <4>2. xup[c] = <<>> /\ (S!ClosedEarly(c) \/ Away(c))
        BY <1>0, <4>1 DEF Associations
      <4>3. S!ClosedEarly(c)' <=> S!ClosedEarly(c)
        BY <1>1 DEF S!ClosedEarly
      <4>4. Away(c) => Away(c)'
        BY <1>1, <1>2, <2>8, <4>1 DEF Away
      <4>5. QED BY <4>2, <4>3, <4>4
    <3>3. partial = 0 /\ \A k \in 1..Len(rcvq') : rcvq'[k].eor
      BY <1>0, <1>3, <2>8 DEF Associations
    <3>4. QED BY <1>1, <3>1, <3>2, <3>3 DEF Associations
  <2>12. \A k \in 1..Len(rcvq) : rcvq[k].eor
    BY <1>0, <1>3 DEF Associations
  <2>13. ToServer'
    <3>1. \A k \in 1..Len(rcvq') : rcvq'[k] = S!Note \/ (rcvq'[k].c \in S!Clients /\ Piece(rcvq'[k].c, rcvq'[k]))
      BY <1>0, <2>8 DEF ToServer
    <3>2. ASSUME NEW c \in S!Clients, NEW k \in 1..Len(childq'[c]) PROVE Piece(c, childq'[c][k]) /\ childq'[c][k].eor
      <4>1. CASE c # h
        BY <1>0, <2>4, <3>2, <4>1 DEF ToServer
      <4>2. CASE c = h
        <5>1. at[k] \in 1..Len(rcvq) /\ childq'[c][k] = rcvq[at[k]] /\ rcvq[at[k]].c = h
          BY <2>7, <3>2, <4>2
        <5>2. h # 0
          BY <1>2 DEF S!Clients
        <5>3. QED BY <1>0, <1>2, <2>12, <4>2, <5>1, <5>2 DEF ToServer
      <4>3. QED BY <4>1, <4>2
    <3>3. QED BY <1>0, <1>1, <1>2, <3>1, <3>2 DEF ToServer, Piece
  <2>14. S!DiesOf'
    BY <1>1 DEF S!DiesOf
  <2>15. ASSUME Clean PROVE Pieces' /\ Replies' /\ InOnePlace' /\ Waits'
    <3>0. Pieces /\ Replies /\ InOnePlace /\ Waits
      BY <1>0, <2>15
    <3>1. Pieces'
      <4>1. \A k \in 1..Len(rcvq') : rcvq'[k].eor
        BY <2>8, <2>12
      <4>2. Len(rcvq') \in Nat /\ (rcvq' # <<>> => Len(rcvq') \in 1..Len(rcvq'))
        BY <1>4, <2>1
      <4>3. \A k \in 1 .. Len(rcvq') - 1 : k \in 1..Len(rcvq')
        BY <4>2
      <4>4. partial = 0
        BY <1>0, <1>3 DEF Associations
      <4>5. QED BY <1>1, <1>2, <4>1, <4>2, <4>3, <4>4 DEF Pieces
    <3>2. Replies'
      BY <1>1, <1>2, <3>0 DEF Replies, AnswerTo
    <3>3. ASSUME NEW c \in S!Clients, NEW n \in Nat, NEW w \in Wheres, NEW k \in Nat, At(c, n, w, k)'
          PROVE  \/ w \notin {"rcvq", "held"} /\ At(c, n, w, k) /\ (w = "childq" => c # h)
                 \/ w = "childq" /\ c = h /\ k \in 1..Len(childq'[h]) /\ at[k] \in Nat /\ rcvq[at[k]].c = h
                    /\ At(c, n, "rcvq", at[k])
                 \/ w = "rcvq" /\ k \in 1..Len(rcvq') /\ to[k] \in Nat /\ rcvq[to[k]].c # h /\ At(c, n, "rcvq", to[k])
      <4>1. CASE w = "rcvq"
        <5>1. k \in 1..Len(rcvq') /\ Holds(rcvq'[k], c, n)
          BY <3>3, <4>1 DEF At, Holds
        <5>2. to[k] \in 1..Len(rcvq) /\ rcvq'[k] = rcvq[to[k]] /\ rcvq[to[k]].c # h
          BY <2>8, <5>1
        <5>3. to[k] \in Nat
          BY <5>2
        <5>4. QED BY <4>1, <5>1, <5>2, <5>3 DEF At
      <4>2. CASE w = "childq" /\ c = h
        <5>1. k \in 1..Len(childq'[h]) /\ Holds(childq'[h][k], c, n)
          BY <3>3, <4>2 DEF At, Holds
        <5>2. at[k] \in 1..Len(rcvq) /\ childq'[h][k] = rcvq[at[k]] /\ rcvq[at[k]].c = h
          BY <2>7, <5>1
        <5>3. at[k] \in Nat
          BY <5>2
        <5>4. QED BY <4>2, <5>1, <5>2, <5>3 DEF At
      <4>3. CASE w = "childq" /\ c # h
        BY <2>4, <3>3, <4>3 DEF At, Holds
      <4>4. CASE w \notin {"rcvq", "childq"}
        BY <1>1, <3>3, <4>4 DEF At, Holds
      <4>5. QED BY <4>1, <4>2, <4>3, <4>4
    <3>4. ASSUME NEW c \in S!Clients, NEW n \in Nat, NEW w \in Wheres, NEW v \in Wheres, NEW k \in Nat, NEW l \in Nat,
                 At(c, n, w, k)', At(c, n, v, l)'
          PROVE  w = v /\ k = l
      <4>1. "rcvq" \in Wheres
        BY DEF Wheres
      <4>2. \A p, q \in Wheres, i, j \in Nat : At(c, n, p, i) /\ At(c, n, q, j) => p = q /\ i = j
        BY <3>0 DEF InOnePlace
      <4>3. \/ w \notin {"rcvq", "held"} /\ At(c, n, w, k) /\ (w = "childq" => c # h)
            \/ w = "childq" /\ c = h /\ k \in 1..Len(childq'[h]) /\ at[k] \in Nat /\ rcvq[at[k]].c = h
               /\ At(c, n, "rcvq", at[k])
            \/ w = "rcvq" /\ k \in 1..Len(rcvq') /\ to[k] \in Nat /\ rcvq[to[k]].c # h /\ At(c, n, "rcvq", to[k])
        BY <3>3, <3>4
      <4>4. \/ v \notin {"rcvq", "held"} /\ At(c, n, v, l) /\ (v = "childq" => c # h)
            \/ v = "childq" /\ c = h /\ l \in 1..Len(childq'[h]) /\ at[l] \in Nat /\ rcvq[at[l]].c = h
               /\ At(c, n, "rcvq", at[l])
            \/ v = "rcvq" /\ l \in 1..Len(rcvq') /\ to[l] \in Nat /\ rcvq[to[l]].c # h /\ At(c, n, "rcvq", to[l])
        BY <3>3, <3>4
      <4>5. /\ \A i, j \in 1..Len(childq'[h]) : at[i] = at[j] => i = j
            /\ \A i, j \in 1..Len(rcvq') : to[i] = to[j] => i = j
        BY <2>5, <2>6 DEF Picked
      <4>6. QED BY <4>1, <4>2, <4>3, <4>4, <4>5
    <3>5. InOnePlace'
      BY <1>1, <3>0, <3>4 DEF InOnePlace
    <3>6. Waits'
      <4>1. \A c \in S!Clients : assoc'[c] = "closing" => assoc[c] = "closing"
        BY <2>3
      <4>2. \A c \in S!Clients : (\A k \in 1..Len(rcvq) : rcvq[k].c # c) => \A k \in 1..Len(rcvq') : rcvq'[k].c # c
        BY <2>8
      <4>3. QED BY <1>1, <3>0, <4>1, <4>2 DEF Waits
    <3>7. QED BY <3>1, <3>2, <3>5, <3>6
  <2>16. QED BY <2>9, <2>10, <2>11, <2>13, <2>14, <2>15 DEF SctpInv
<1>7. QED BY <1>5, <1>6

LEMMA SctpChildEcho == ASSUME SctpInv, NEW h \in S!Clients, S!ChildEcho(h) PROVE SctpInv'
<1>0. SctpTypeOK /\ Associations /\ ToServer /\ S!DiesOf /\ (Clean => Pieces /\ Replies /\ InOnePlace /\ Waits)
  BY DEF SctpInv
<1> DEFINE m == childq[h][1]
           r == OnStream(m, 0)
<1>1. /\ assoc[h] = "peeled" /\ childq[h] # <<>> /\ childq' = [childq EXCEPT ![h] = Tail(childq[h])]
      /\ xdown' = [xdown EXCEPT ![h] = Append(xdown[h], OnStream(Head(childq[h]), 0))]
      /\ UNCHANGED <<xserv, incr, strict, xcli, ends, assoc, xup, rcvq, partial, xpc, held, xcpc, xnsent, nlines, taken>>
  BY DEF S!ChildEcho, S!conf, S!client, OnStream
<1>2. /\ childq \in [S!Clients -> Seq(SctpMessages)] /\ xdown \in [S!Clients -> Seq(SctpMessages)]
      /\ childq[h] \in Seq(SctpMessages) /\ xdown[h] \in Seq(SctpMessages) /\ Len(xdown[h]) \in Nat
  BY <1>0 DEF SctpTypeOK
<1>3. /\ Len(childq[h]) \in Nat /\ Len(childq[h]) >= 1 /\ Head(childq[h]) = m /\ m \in SctpMessages
      /\ Tail(childq[h]) \in Seq(SctpMessages) /\ Len(Tail(childq[h])) = Len(childq[h]) - 1
      /\ \A k \in 1..Len(childq[h])-1 : Tail(childq[h])[k] = childq[h][k + 1]
  BY <1>1, <1>2, TailIs
<1>4. r \in SctpMessages /\ r.what = m.what /\ r.c = m.c /\ r.s = 0 /\ r.eor = m.eor
  BY <1>3, OnStreamIs
<1> HIDE DEF r
<1>5. \A c \in S!Clients : /\ childq'[c] = IF c = h THEN Tail(childq[h]) ELSE childq[c]
                           /\ xdown'[c] = IF c = h THEN Append(xdown[h], r) ELSE xdown[c]
  BY <1>1, <1>2, <1>3 DEF r
<1>6. SentTo(xdown[h], xdown'[h], r)
  <2>1. xdown'[h] = Append(xdown[h], r)
    BY <1>5
  <2>2. QED BY <1>2, <1>4, <2>1, SeqFacts DEF SentTo
<1>7. \A k \in 1..Len(childq'[h]) : k + 1 \in 1..Len(childq[h]) /\ childq'[h][k] = childq[h][k + 1]
  <2>1. childq'[h] = Tail(childq[h])
    BY <1>5
  <2>2. \A k \in 1..Len(childq[h])-1 : k + 1 \in 1..Len(childq[h])
    BY <1>3
  <2>3. QED BY <1>3, <2>1, <2>2
<1>8. \A k \in 1..Len(xdown'[h]) :
        \/ k \in 1..Len(xdown[h]) /\ xdown'[h][k] = xdown[h][k]
        \/ k = Len(xdown[h]) + 1 /\ xdown'[h][k] = r
  BY <1>2, <1>6 DEF SentTo
<1>9. 1 \in 1..Len(childq[h]) /\ Piece(h, m) /\ m.eor
  BY <1>0, <1>3 DEF ToServer
<1>10. S!OutStrms' = S!OutStrms /\ (Clean' <=> Clean) /\ S!Note' = S!Note /\ S!Nobody' = S!Nobody
       /\ S!OutStrms \in Nat /\ S!OutStrms > 0 /\ xserv.does = "peel off"
  <2>1. S!Aborted' <=> S!Aborted
    BY <1>1 DEF S!Aborted
  <2>2. xserv.does = "peel off"
    BY <1>0, <1>1 DEF Associations
  <2>3. S!OutStrms' = S!OutStrms /\ (Clean' <=> Clean) /\ S!Note' = S!Note /\ S!Nobody' = S!Nobody
    BY <1>1, <2>1 DEF S!OutStrms, Clean, S!Note, S!Nobody
  <2>4. S!OutStrms \in Nat /\ S!OutStrms > 0
    BY <1>0, SctpFacts
  <2>5. QED BY <2>2, <2>3, <2>4
<1>11. SctpTypeOK'
  <2>1. childq' \in [S!Clients -> Seq(SctpMessages)]
    BY <1>1, <1>2, <1>3
  <2>2. xdown' \in [S!Clients -> Seq(SctpMessages)]
    <3>1. Append(xdown[h], r) \in Seq(SctpMessages)
      BY <1>2, <1>4, SeqFacts
    <3>2. xdown' = [xdown EXCEPT ![h] = Append(xdown[h], r)]
      BY <1>1, <1>3 DEF r
    <3>3. QED BY <1>2, <3>1, <3>2
  <2>3. QED BY <1>0, <1>1, <2>1, <2>2 DEF SctpTypeOK
<1>12. Associations'
  BY <1>0, <1>1 DEF Associations, Away, S!ClosedEarly
<1>13. ToServer'
  <2>1. ASSUME NEW c \in S!Clients, NEW k \in 1..Len(childq'[c]) PROVE Piece(c, childq'[c][k]) /\ childq'[c][k].eor
    <3>1. CASE c # h
      BY <1>0, <1>5, <2>1, <3>1 DEF ToServer
    <3>2. CASE c = h
      BY <1>0, <1>7, <2>1, <3>2 DEF ToServer
    <3>3. QED BY <3>1, <3>2
  <2>2. ASSUME NEW c \in S!Clients, NEW k \in 1..Len(xdown'[c]) PROVE xdown'[c][k].s < S!OutStrms
    <3>1. CASE c # h
      BY <1>0, <1>5, <2>2, <3>1 DEF ToServer
    <3>2. CASE c = h
      BY <1>0, <1>4, <1>8, <1>10, <2>2, <3>2 DEF ToServer
    <3>3. QED BY <3>1, <3>2
  <2>3. QED BY <1>0, <1>1, <1>10, <2>1, <2>2 DEF ToServer, Piece
<1>14. S!DiesOf'
  BY <1>0, <1>1 DEF S!DiesOf, S!ClosedEarly
<1>15. ASSUME Clean PROVE Pieces' /\ Replies' /\ InOnePlace' /\ Waits'
  <2>0. Pieces /\ Replies /\ InOnePlace /\ Waits
    BY <1>0, <1>15
  <2>1. Pieces'
    BY <1>1, <2>0 DEF Pieces, Piece, Rest
  <2>2. Replies'
    <3>1. AnswerTo(h, r)
      BY <1>4, <1>9, <1>10 DEF Piece, PieceOf, AnswerTo, ReplyOf
    <3>2. ASSUME NEW c \in S!Clients, NEW k \in 1..Len(xdown'[c]) PROVE AnswerTo(c, xdown'[c][k])
      <4>1. CASE c # h
        BY <1>5, <2>0, <3>2, <4>1 DEF Replies
      <4>2. CASE c = h
        BY <1>8, <2>0, <3>1, <3>2, <4>2 DEF Replies
      <4>3. QED BY <4>1, <4>2
    <3>3. QED BY <1>1, <1>10, <2>0, <3>2 DEF Replies, AnswerTo, Piece
  <2>3. InOnePlace'
    <3>1. ASSUME NEW c \in S!Clients, NEW n \in Nat, NEW w \in Wheres, NEW k \in Nat, At(c, n, w, k)'
          PROVE  \/ At(c, n, w, k) /\ (c = h => w # "childq") /\ (c = h /\ w = "down" => k <= Len(xdown[h]))
                 \/ c = h /\ w = "childq" /\ At(c, n, "childq", k + 1) /\ k # 0
                 \/ c = h /\ w = "down" /\ k = Len(xdown[h]) + 1 /\ At(c, n, "childq", 1)
      <4>1. CASE w = "childq" /\ c = h
        <5>1. k \in 1..Len(childq'[h]) /\ Holds(childq'[h][k], c, n)
          BY <3>1, <4>1 DEF At, Holds
        <5>2. At(c, n, "childq", k + 1) /\ k # 0
          BY <1>7, <4>1, <5>1 DEF At
        <5>3. QED BY <4>1, <5>2
      <4>2. CASE w = "down" /\ c = h
        <5>1. k \in 1..Len(xdown'[h]) /\ Holds(xdown'[h][k], c, n)
          BY <3>1, <4>2 DEF At, Holds
        <5>2. CASE k \in 1..Len(xdown[h]) /\ xdown'[h][k] = xdown[h][k]
          <6>1. At(c, n, w, k)
            BY <4>2, <5>1, <5>2 DEF At
          <6>2. QED BY <1>2, <4>2, <5>2, <6>1
        <5>3. CASE k = Len(xdown[h]) + 1 /\ xdown'[h][k] = r
          <6>1. Holds(m, c, n)
            BY <1>4, <5>1, <5>3 DEF Holds
          <6>2. At(c, n, "childq", 1)
            BY <1>9, <4>2, <6>1 DEF At
          <6>3. QED BY <4>2, <5>3, <6>2
        <5>4. QED BY <1>8, <5>1, <5>2, <5>3
      <4>3. CASE c # h \/ w \notin {"childq", "down"}
        <5>1. At(c, n, w, k)
          BY <1>1, <1>5, <3>1, <4>3 DEF At, Holds
        <5>2. QED BY <4>3, <5>1
      <4>4. QED BY <4>1, <4>2, <4>3
    <3>2. ASSUME NEW c \in S!Clients, NEW n \in Nat, NEW w \in Wheres, NEW v \in Wheres, NEW k \in Nat, NEW l \in Nat,
                 At(c, n, w, k)', At(c, n, v, l)'
          PROVE  w = v /\ k = l
      <4>1. "childq" \in Wheres /\ 1 \in Nat /\ k + 1 \in Nat /\ l + 1 \in Nat
        BY DEF Wheres
      <4>2. \A p, q \in Wheres, i, j \in Nat : At(c, n, p, i) /\ At(c, n, q, j) => p = q /\ i = j
        BY <2>0 DEF InOnePlace
      <4>3. \/ At(c, n, w, k) /\ (c = h => w # "childq") /\ (c = h /\ w = "down" => k <= Len(xdown[h]))
            \/ c = h /\ w = "childq" /\ At(c, n, "childq", k + 1) /\ k # 0
            \/ c = h /\ w = "down" /\ k = Len(xdown[h]) + 1 /\ At(c, n, "childq", 1)
        BY <3>1, <3>2
      <4>4. \/ At(c, n, v, l) /\ (c = h => v # "childq") /\ (c = h /\ v = "down" => l <= Len(xdown[h]))
            \/ c = h /\ v = "childq" /\ At(c, n, "childq", l + 1) /\ l # 0
            \/ c = h /\ v = "down" /\ l = Len(xdown[h]) + 1 /\ At(c, n, "childq", 1)
        BY <3>1, <3>2
      <4>5. QED BY <4>1, <4>2, <4>3, <4>4
    <3>3. ASSUME NEW c \in S!Clients, NEW k \in 1..Len(xdown'[c]) PROVE xdown'[c][k].eor
      <4>1. CASE c # h
        BY <1>5, <2>0, <3>3, <4>1 DEF InOnePlace
      <4>2. CASE c = h
        BY <1>4, <1>8, <1>9, <2>0, <3>3, <4>2 DEF InOnePlace
      <4>3. QED BY <4>1, <4>2
    <3>4. QED BY <1>1, <2>0, <3>2, <3>3 DEF InOnePlace
  <2>4. Waits'
    BY <1>1, <2>0 DEF Waits
  <2>5. QED BY <2>1, <2>2, <2>3, <2>4
<1>16. QED BY <1>10, <1>11, <1>12, <1>13, <1>14, <1>15 DEF SctpInv

\* Where a message has arrived.
Arrived(h, m) ==
  \/ /\ assoc[h] = "peeled" /\ rcvq' = rcvq /\ SentTo(childq[h], childq'[h], m)
     /\ \A c \in S!Clients : c # h => childq'[c] = childq[c]
  \/ assoc[h] # "peeled" /\ childq' = childq /\ SentTo(rcvq, rcvq', m)

LEMMA Arrival ==
  ASSUME SctpTypeOK, NEW h \in S!Clients, NEW m \in SctpMessages, S!Arrives(h, m)
  PROVE  /\ Arrived(h, m) /\ rcvq' \in Seq(SctpMessages) /\ childq' \in [S!Clients -> Seq(SctpMessages)]
<1>1. rcvq \in Seq(SctpMessages) /\ childq \in [S!Clients -> Seq(SctpMessages)] /\ childq[h] \in Seq(SctpMessages)
  BY DEF SctpTypeOK
<1>2. CASE assoc[h] = "peeled"
  <2>1. childq' = [childq EXCEPT ![h] = Append(childq[h], m)] /\ rcvq' = rcvq
    BY <1>2 DEF S!Arrives
  <2>2. Append(childq[h], m) \in Seq(SctpMessages) /\ SentTo(childq[h], Append(childq[h], m), m)
    BY <1>1, SeqFacts DEF SentTo
  <2>3. childq'[h] = Append(childq[h], m) /\ \A c \in S!Clients : c # h => childq'[c] = childq[c]
    BY <1>1, <2>1
  <2>4. childq' \in [S!Clients -> Seq(SctpMessages)]
    BY <1>1, <2>1, <2>2
  <2>5. QED BY <1>1, <1>2, <2>1, <2>2, <2>3, <2>4 DEF Arrived
<1>3. CASE assoc[h] # "peeled"
  <2>1. rcvq' = Append(rcvq, m) /\ childq' = childq
    BY <1>3 DEF S!Arrives
  <2>2. Append(rcvq, m) \in Seq(SctpMessages) /\ SentTo(rcvq, Append(rcvq, m), m)
    BY <1>1, SeqFacts DEF SentTo
  <2>3. QED BY <1>1, <1>3, <2>1, <2>2 DEF Arrived
<1>4. QED BY <1>2, <1>3

\* One more at the end, one by one.
LEMMA SentToIs ==
  ASSUME NEW q, Len(q) \in Nat, NEW r, NEW e, SentTo(q, r, e)
  PROVE  /\ \A k \in 1..Len(r) : \/ k \in 1..Len(q) /\ r[k] = q[k]
                                 \/ k = Len(q) + 1 /\ r[k] = e
         /\ Len(r) = Len(q) + 1 /\ \A k \in 1..Len(q) : k \in 1..Len(r) /\ r[k] = q[k]
BY DEF SentTo

\* A message taken out of the middle of a queue.
Skip(j, i) == IF j < i THEN j ELSE j + 1

LEMMA TakenOut ==
  ASSUME NEW q \in Seq(SctpMessages), NEW i \in 1..Len(q), NEW r, r = S!RemoveAt(q, i)
  PROVE  /\ r \in Seq(SctpMessages) /\ Len(r) = Len(q) - 1 /\ Len(q) \in Nat /\ i \in Nat
         /\ \A j \in 1..Len(r) : Skip(j, i) \in 1..Len(q) /\ r[j] = q[Skip(j, i)] /\ Skip(j, i) # i
         /\ \A j, k \in 1..Len(r) : Skip(j, i) = Skip(k, i) => j = k
<1>1. r \in Seq(SctpMessages) /\ Len(r) = Len(q) - 1 /\ \A j \in 1..Len(q) - 1 : r[j] = IF j < i THEN q[j] ELSE q[j + 1]
  BY SctpRemoveAt
<1>2. Len(q) \in Nat /\ i \in Nat
  OBVIOUS
<1>3. \A j \in 1..Len(r) : Skip(j, i) \in 1..Len(q) /\ r[j] = q[Skip(j, i)] /\ Skip(j, i) # i
  BY <1>1, <1>2 DEF Skip
<1>4. \A j, k \in 1..Len(r) : Skip(j, i) = Skip(k, i) => j = k
  BY <1>1, <1>2 DEF Skip
<1>5. QED BY <1>1, <1>2, <1>3, <1>4

LEMMA SctpDeliver ==
  ASSUME SctpInv, NEW h \in S!Clients, NEW i \in 1..Len(xup[h]), assoc[h] \in {"up", "closing", "peeled"}, partial = 0,
         S!Arrives(h, xup[h][i]), xup' = [xup EXCEPT ![h] = S!RemoveAt(xup[h], i)],
         UNCHANGED <<xserv, incr, strict, xcli, ends, assoc, partial, xpc, held, xdown, xcpc, xnsent, nlines, taken>>
  PROVE  SctpInv'
<1>0. SctpTypeOK /\ Associations /\ ToServer /\ S!DiesOf /\ (Clean => Pieces /\ Replies /\ InOnePlace /\ Waits)
  BY DEF SctpInv
<1> DEFINE m == xup[h][i]
           r == S!RemoveAt(xup[h], i)
<1>1. /\ xup \in [S!Clients -> Seq(SctpMessages)] /\ xup[h] \in Seq(SctpMessages) /\ Len(rcvq) \in Nat
      /\ rcvq \in Seq(SctpMessages) /\ m \in SctpMessages /\ \A c \in S!Clients : Len(childq[c]) \in Nat
  BY <1>0 DEF SctpTypeOK
<1>2. /\ r \in Seq(SctpMessages) /\ Len(r) = Len(xup[h]) - 1 /\ Len(xup[h]) \in Nat /\ i \in Nat
      /\ \A j \in 1..Len(r) : Skip(j, i) \in 1..Len(xup[h]) /\ r[j] = xup[h][Skip(j, i)] /\ Skip(j, i) # i
      /\ \A j, k \in 1..Len(r) : Skip(j, i) = Skip(k, i) => j = k
  BY <1>1, TakenOut
<1> HIDE DEF r
<1>3. \A c \in S!Clients : xup'[c] = IF c = h THEN r ELSE xup[c]
  BY <1>1 DEF r
<1>4. Arrived(h, m) /\ rcvq' \in Seq(SctpMessages) /\ childq' \in [S!Clients -> Seq(SctpMessages)]
  BY <1>0, <1>1, Arrival
<1>5. Piece(h, m) /\ m.eor /\ m.c = h /\ ~m.note
  BY <1>0 DEF ToServer, Piece, PieceOf
<1>6. assoc[h] # "peeled" => SentTo(rcvq, rcvq', m) /\ childq' = childq
  BY <1>4 DEF Arrived
<1>7. assoc[h] = "peeled" => /\ rcvq' = rcvq /\ SentTo(childq[h], childq'[h], m)
                             /\ \A c \in S!Clients : c # h => childq'[c] = childq[c]
  BY <1>4 DEF Arrived
<1>8. \A k \in 1..Len(rcvq') : \/ k \in 1..Len(rcvq) /\ rcvq'[k] = rcvq[k]
                               \/ assoc[h] # "peeled" /\ k = Len(rcvq) + 1 /\ rcvq'[k] = m
  BY <1>1, <1>6, <1>7, SentToIs
<1>9. \A c \in S!Clients : \A k \in 1..Len(childq'[c]) :
        \/ k \in 1..Len(childq[c]) /\ childq'[c][k] = childq[c][k]
        \/ assoc[h] = "peeled" /\ c = h /\ k = Len(childq[h]) + 1 /\ childq'[c][k] = m
  <2>1. ASSUME NEW c \in S!Clients, c = h, assoc[h] = "peeled", NEW k \in 1..Len(childq'[c])
        PROVE  \/ k \in 1..Len(childq[h]) /\ childq'[h][k] = childq[h][k]
               \/ k = Len(childq[h]) + 1 /\ childq'[h][k] = m
    BY <1>1, <1>7, <2>1, SentToIs
  <2>2. QED BY <1>6, <1>7, <2>1
<1>10. S!OutStrms' = S!OutStrms /\ (Clean' <=> Clean) /\ S!Note' = S!Note /\ S!Nobody' = S!Nobody
  <2>1. S!Aborted' <=> S!Aborted
    BY DEF S!Aborted
  <2>2. QED BY <2>1 DEF S!OutStrms, Clean, S!Note, S!Nobody
<1>11. SctpTypeOK'
  <2>1. xup' \in [S!Clients -> Seq(SctpMessages)]
    BY <1>1, <1>2 DEF r
  <2>2. QED BY <1>0, <1>4, <2>1 DEF SctpTypeOK
<1>12. Associations'
  <2>1. ASSUME NEW c \in S!Clients, assoc[c] = "down"
        PROVE  xup'[c] = <<>> /\ (S!ClosedEarly(c)' \/ Away(c)')
    <3>1. c # h /\ xup[c] = <<>> /\ (S!ClosedEarly(c) \/ Away(c))
      BY <1>0, <2>1 DEF Associations
    <3>2. S!ClosedEarly(c)' <=> S!ClosedEarly(c)
      BY <1>1 DEF S!ClosedEarly
    <3>3. Away(c) => Away(c)'
      BY <1>1, <1>3, <1>5, <1>8, <3>1 DEF Away
    <3>4. QED BY <1>3, <1>5, <1>8, <3>1, <3>2, <3>3
  <2>2. ASSUME NEW c \in S!Clients, assoc[c] = "gone" PROVE xup'[c] = <<>>
    BY <1>0, <1>3, <2>2 DEF Associations
  <2>3. xserv.does # "pdapi" => \A k \in 1..Len(rcvq') : rcvq'[k].eor
    BY <1>0, <1>5, <1>8 DEF Associations
  <2>4. QED BY <1>0, <2>1, <2>2, <2>3 DEF Associations
<1>13. ToServer'
  <2>1. ASSUME NEW c \in S!Clients, NEW k \in 1..Len(xup'[c]) PROVE Piece(c, xup'[c][k]) /\ xup'[c][k].eor
    <3>1. CASE c # h
      BY <1>0, <1>3, <2>1, <3>1 DEF ToServer
    <3>2. CASE c = h
      BY <1>0, <1>2, <1>3, <2>1, <3>2 DEF ToServer
    <3>3. QED BY <3>1, <3>2
  <2>2. ASSUME NEW c \in S!Clients, NEW k \in 1..Len(childq'[c]) PROVE Piece(c, childq'[c][k]) /\ childq'[c][k].eor
    BY <1>0, <1>5, <1>9, <2>2 DEF ToServer
  <2>3. ASSUME NEW k \in 1..Len(rcvq')
        PROVE  rcvq'[k] = S!Note \/ (rcvq'[k].c \in S!Clients /\ Piece(rcvq'[k].c, rcvq'[k]))
    BY <1>0, <1>5, <1>8, <2>3 DEF ToServer
  <2>4. QED BY <1>0, <1>10, <2>1, <2>2, <2>3 DEF ToServer, Piece
<1>14. S!DiesOf'
  BY <1>0 DEF S!DiesOf, S!ClosedEarly
<1>15. ASSUME Clean PROVE Pieces' /\ Replies' /\ InOnePlace' /\ Waits'
  <2>0. Pieces /\ Replies /\ InOnePlace /\ Waits
    BY <1>0, <1>15
  <2>1. Pieces'
    <3>1. \A k \in 1..Len(rcvq) : ~rcvq[k].eor => rcvq[k].c # 0
      <4>1. S!Note.eor /\ 0 \notin S!Clients
        BY <1>0, SctpFacts DEF S!Clients
      <4>2. QED BY <1>0, <4>1 DEF ToServer
    <3>2. rcvq # <<>> => rcvq[Len(rcvq)].eor
      <4>1. rcvq # <<>> => Len(rcvq) \in 1..Len(rcvq)
        BY <1>1
      <4>2. QED BY <2>0, <3>1, <4>1 DEF Pieces
    <3>3. xpc = "recv" /\ held.c # 0 => rcvq # <<>> /\ rcvq[1] = Rest(held) /\ Piece(held.c, held)
      BY <2>0 DEF Pieces
    <3>4. /\ rcvq' # <<>> => Len(rcvq') \in 1..Len(rcvq') /\ Len(rcvq') \in Nat
          /\ rcvq # <<>> => rcvq' # <<>> /\ rcvq'[1] = rcvq[1]
      <4>1. rcvq # <<>> => 1 \in 1..Len(rcvq)
        BY <1>1
      <4>2. rcvq # <<>> => rcvq' # <<>> /\ rcvq'[1] = rcvq[1]
        <5>1. CASE assoc[h] = "peeled"
          BY <1>7, <5>1
        <5>2. CASE assoc[h] # "peeled"
          <6>1. Len(rcvq') = Len(rcvq) + 1 /\ \A k \in 1..Len(rcvq) : rcvq'[k] = rcvq[k]
            BY <1>6, <5>2 DEF SentTo
          <6>2. QED BY <1>1, <1>4, <4>1, <6>1
        <5>3. QED BY <5>1, <5>2
      <4>3. rcvq' # <<>> => Len(rcvq') \in 1..Len(rcvq') /\ Len(rcvq') \in Nat
        BY <1>4
      <4>4. QED BY <4>2, <4>3
    <3>5. ASSUME NEW k \in 1 .. Len(rcvq') - 1, ~rcvq'[k].eor PROVE rcvq'[k + 1] = Rest(rcvq'[k])
      <4>1. Len(rcvq') \in Nat /\ k \in 1..Len(rcvq') /\ k + 1 \in 1..Len(rcvq') /\ k \in Nat
        BY <1>4
      <4>2. k \in 1..Len(rcvq) /\ rcvq'[k] = rcvq[k]
        BY <1>5, <1>8, <3>5, <4>1
      <4>3. k # Len(rcvq) /\ k \in 1 .. Len(rcvq) - 1
        BY <1>1, <3>2, <3>5, <4>1, <4>2
      <4>4. k + 1 # Len(rcvq) + 1
        BY <1>1, <4>1, <4>3
      <4>5. rcvq'[k + 1] = rcvq[k + 1]
        BY <1>8, <4>1, <4>4
      <4>6. QED BY <2>0, <3>5, <4>2, <4>3, <4>5 DEF Pieces
    <3>6. rcvq' # <<>> => rcvq'[Len(rcvq')].eor
      <4>1. CASE assoc[h] = "peeled"
        BY <1>7, <3>2, <4>1
      <4>2. CASE assoc[h] # "peeled"
        BY <1>5, <1>6, <4>2 DEF SentTo
      <4>3. QED BY <4>1, <4>2
    <3>7. xpc = "recv" /\ held.c # 0 => rcvq' # <<>> /\ rcvq'[1] = Rest(held)
      BY <3>3, <3>4
    <3>8. QED BY <3>3, <3>5, <3>6, <3>7 DEF Pieces, Piece, Rest
  <2>2. Replies'
    BY <1>10, <2>0 DEF Replies, AnswerTo, Piece
  <2>3. InOnePlace'
    <3>1. ASSUME NEW c \in S!Clients, NEW n \in Nat, NEW w \in Wheres, NEW k \in Nat, At(c, n, w, k)'
          PROVE  \/ (c = h => w # "up") /\ At(c, n, w, k) /\ (w = "rcvq" => k <= Len(rcvq))
                    /\ (w = "childq" /\ c = h => k <= Len(childq[h]))
                 \/ c = h /\ w = "up" /\ k \in 1..Len(r) /\ Skip(k, i) \in Nat /\ At(c, n, "up", Skip(k, i))
                 \/ c = h /\ w = "rcvq" /\ assoc[h] # "peeled" /\ k = Len(rcvq) + 1 /\ At(c, n, "up", i)
                 \/ c = h /\ w = "childq" /\ assoc[h] = "peeled" /\ k = Len(childq[h]) + 1 /\ At(c, n, "up", i)
      <4>0. c # h => ~Holds(m, c, n)
        BY <1>5 DEF Holds, Piece, PieceOf
      <4>1. CASE w = "up" /\ c = h
        <5>1. k \in 1..Len(r) /\ Holds(r[k], c, n)
          BY <1>3, <3>1, <4>1 DEF At, Holds
        <5>2. Skip(k, i) \in 1..Len(xup[h]) /\ r[k] = xup[h][Skip(k, i)]
          BY <1>2, <5>1
        <5>3. At(c, n, "up", Skip(k, i)) /\ Skip(k, i) \in Nat
          BY <4>1, <5>1, <5>2 DEF At
        <5>4. QED BY <4>1, <5>1, <5>3
      <4>2. CASE w = "rcvq"
        <5>1. k \in 1..Len(rcvq') /\ Holds(rcvq'[k], c, n)
          BY <3>1, <4>2 DEF At, Holds
        <5>2. CASE k \in 1..Len(rcvq) /\ rcvq'[k] = rcvq[k]
          <6>1. At(c, n, w, k) /\ k <= Len(rcvq)
            BY <4>2, <5>1, <5>2 DEF At
          <6>2. QED BY <4>2, <6>1
        <5>3. CASE assoc[h] # "peeled" /\ k = Len(rcvq) + 1 /\ rcvq'[k] = m
          <6>1. c = h /\ At(c, n, "up", i)
            BY <4>0, <5>1, <5>3 DEF At
          <6>2. QED BY <4>2, <5>3, <6>1
        <5>4. QED BY <1>8, <5>1, <5>2, <5>3
      <4>3. CASE w = "childq"
        <5>1. k \in 1..Len(childq'[c]) /\ Holds(childq'[c][k], c, n)
          BY <3>1, <4>3 DEF At, Holds
        <5>2. CASE k \in 1..Len(childq[c]) /\ childq'[c][k] = childq[c][k]
          <6>1. At(c, n, w, k) /\ k <= Len(childq[c])
            BY <4>3, <5>1, <5>2 DEF At
          <6>2. QED BY <4>3, <6>1
        <5>3. CASE assoc[h] = "peeled" /\ c = h /\ k = Len(childq[h]) + 1 /\ childq'[c][k] = m
          <6>1. At(c, n, "up", i)
            BY <5>1, <5>3 DEF At
          <6>2. QED BY <4>3, <5>3, <6>1
        <5>4. QED BY <1>9, <5>1, <5>2, <5>3
      <4>4. CASE w \notin {"up", "rcvq", "childq"} \/ (w = "up" /\ c # h)
        <5>1. At(c, n, w, k)
          BY <1>3, <3>1, <4>4 DEF At, Holds
        <5>2. QED BY <4>4, <5>1
      <4>5. QED BY <4>1, <4>2, <4>3, <4>4
    <3>2. ASSUME NEW c \in S!Clients, NEW n \in Nat, NEW w \in Wheres, NEW v \in Wheres, NEW k \in Nat, NEW l \in Nat,
                 At(c, n, w, k)', At(c, n, v, l)'
          PROVE  w = v /\ k = l
      <4>1. "up" \in Wheres
        BY DEF Wheres
      <4>2. \A p, q \in Wheres, x, y \in Nat : At(c, n, p, x) /\ At(c, n, q, y) => p = q /\ x = y
        BY <2>0 DEF InOnePlace
      <4>3. \/ (c = h => w # "up") /\ At(c, n, w, k) /\ (w = "rcvq" => k <= Len(rcvq))
               /\ (w = "childq" /\ c = h => k <= Len(childq[h]))
            \/ c = h /\ w = "up" /\ k \in 1..Len(r) /\ Skip(k, i) \in Nat /\ At(c, n, "up", Skip(k, i))
            \/ c = h /\ w = "rcvq" /\ assoc[h] # "peeled" /\ k = Len(rcvq) + 1 /\ At(c, n, "up", i)
            \/ c = h /\ w = "childq" /\ assoc[h] = "peeled" /\ k = Len(childq[h]) + 1 /\ At(c, n, "up", i)
        BY <3>1, <3>2
      <4>4. \/ (c = h => v # "up") /\ At(c, n, v, l) /\ (v = "rcvq" => l <= Len(rcvq))
               /\ (v = "childq" /\ c = h => l <= Len(childq[h]))
            \/ c = h /\ v = "up" /\ l \in 1..Len(r) /\ Skip(l, i) \in Nat /\ At(c, n, "up", Skip(l, i))
            \/ c = h /\ v = "rcvq" /\ assoc[h] # "peeled" /\ l = Len(rcvq) + 1 /\ At(c, n, "up", i)
            \/ c = h /\ v = "childq" /\ assoc[h] = "peeled" /\ l = Len(childq[h]) + 1 /\ At(c, n, "up", i)
        BY <3>1, <3>2
      <4>5. /\ \A x \in 1..Len(r) : Skip(x, i) # i
            /\ \A x, y \in 1..Len(r) : Skip(x, i) = Skip(y, i) => x = y
            /\ i \in Nat
        BY <1>2
      <4>6. QED BY <4>1, <4>2, <4>3, <4>4, <4>5
    <3>3. QED BY <2>0, <3>2 DEF InOnePlace
  <2>4. Waits'
    <3>1. ASSUME NEW c \in S!Clients, xup[c] = <<>>, \A k \in 1..Len(rcvq) : rcvq[k].c # c
          PROVE  xup'[c] = <<>> /\ \A k \in 1..Len(rcvq') : rcvq'[k].c # c
      <4>1. c # h
        BY <1>2, <3>1
      <4>2. QED BY <1>3, <1>5, <1>8, <3>1, <4>1
    <3>2. QED BY <2>0, <3>1 DEF Waits
  <2>5. QED BY <2>1, <2>2, <2>3, <2>4
<1>16. QED BY <1>10, <1>11, <1>12, <1>13, <1>14, <1>15 DEF SctpInv

\* The first part of a message.
Cut(m) == [m EXCEPT !.eor = FALSE]

LEMMA CutIs ==
  ASSUME NEW m \in SctpMessages
  PROVE  /\ Cut(m) \in SctpMessages /\ Cut(m).what = m.what /\ Cut(m).c = m.c /\ Cut(m).s = m.s
         /\ ~Cut(m).eor /\ Cut(m).note = m.note /\ (m.eor => Rest(Cut(m)) = m)
<1>1. /\ Cut(m) \in SctpMessages /\ Cut(m).what = m.what /\ Cut(m).c = m.c /\ Cut(m).s = m.s
      /\ ~Cut(m).eor /\ Cut(m).note = m.note /\ Cut(m).u = m.u
  BY DEF Cut, SctpMessages
<1>2. m.eor => Rest(Cut(m)) = m
  BY DEF Cut, Rest, SctpMessages
<1>3. QED BY <1>1, <1>2

\* A message moved to the front of its queue.
Origin(j, i) == IF j = 1 THEN i ELSE Skip(j - 1, i)

ToFront(q, i) == <<q[i]>> \o S!RemoveAt(q, i)

LEMMA MovedUp ==
  ASSUME NEW q \in Seq(SctpMessages), NEW i \in 1..Len(q), NEW r, r = ToFront(q, i)
  PROVE  /\ r \in Seq(SctpMessages) /\ Len(r) = Len(q) /\ Len(q) \in Nat /\ r # <<>> /\ r[1] = q[i]
         /\ \A j \in 1..Len(r) : Origin(j, i) \in 1..Len(q) /\ r[j] = q[Origin(j, i)]
         /\ \A j, k \in 1..Len(r) : Origin(j, i) = Origin(k, i) => j = k
<1> DEFINE o == S!RemoveAt(q, i)
<1>1. /\ o \in Seq(SctpMessages) /\ Len(o) = Len(q) - 1 /\ Len(q) \in Nat /\ i \in Nat
      /\ \A j \in 1..Len(o) : Skip(j, i) \in 1..Len(q) /\ o[j] = q[Skip(j, i)] /\ Skip(j, i) # i
      /\ \A j, k \in 1..Len(o) : Skip(j, i) = Skip(k, i) => j = k
  BY TakenOut
<1> HIDE DEF o
<1>2. q[i] \in SctpMessages
  OBVIOUS
<1> DEFINE u == <<q[i]>>
<1>3. r = u \o o
  BY DEF o, ToFront
<1>9. u \in Seq(SctpMessages) /\ Len(u) = 1 /\ u[1] = q[i]
  BY <1>2
<1> HIDE DEF u
<1>4. /\ r \in Seq(SctpMessages) /\ Len(r) = Len(o) + 1 /\ r[1] = q[i] /\ r # <<>>
      /\ \A j \in 1..Len(r) : j # 1 => r[j] = o[j - 1]
  <2>1. /\ r \in Seq(SctpMessages) /\ Len(r) = Len(u) + Len(o)
        /\ \A j \in 1 .. Len(u) + Len(o) : r[j] = IF j <= Len(u) THEN u[j] ELSE o[j - Len(u)]
    <3>1. u \in Seq(SctpMessages) /\ o \in Seq(SctpMessages)
      BY <1>1, <1>9
    <3>2. /\ u \o o \in Seq(SctpMessages) /\ Len(u \o o) = Len(u) + Len(o)
          /\ \A j \in 1 .. Len(u) + Len(o) : (u \o o)[j] = IF j <= Len(u) THEN u[j] ELSE o[j - Len(u)]
      BY ONLY <3>1, ConcatProperties
    <3>3. QED BY <1>3, <3>2
  <2>2. 1 \in 1..Len(r)
    BY <1>1, <1>9, <2>1
  <2>3. r # <<>> /\ r[1] = q[i]
    BY <1>1, <1>9, <2>1, <2>2
  <2>4. QED BY <1>1, <1>9, <2>1, <2>3
<1>5. \A j \in 1..Len(r) : j # 1 => j - 1 \in 1..Len(o)
  BY <1>1, <1>4
<1>6. \A j \in 1..Len(r) : Origin(j, i) \in 1..Len(q) /\ r[j] = q[Origin(j, i)]
  BY <1>1, <1>4, <1>5 DEF Origin
<1>7. \A j, k \in 1..Len(r) : Origin(j, i) = Origin(k, i) => j = k
  BY <1>1, <1>4, <1>5 DEF Origin
<1>8. QED BY <1>1, <1>4, <1>6, <1>7

LEMMA SctpDeliverPart ==
  ASSUME SctpInv, NEW h \in S!Clients, NEW i \in 1..Len(xup[h]), assoc[h] \in {"up", "closing", "peeled"}, partial = 0,
         xserv.does = "pdapi", S!Arrives(h, Cut(xup[h][i])), partial' = h,
         xup' = [xup EXCEPT ![h] = <<xup[h][i]>> \o S!RemoveAt(xup[h], i)],
         UNCHANGED <<xserv, incr, strict, xcli, ends, assoc, xpc, held, xdown, xcpc, xnsent, nlines, taken>>
  PROVE  SctpInv'
<1>0. SctpTypeOK /\ Associations /\ ToServer /\ S!DiesOf /\ (Clean => Pieces /\ Replies /\ InOnePlace /\ Waits)
  BY DEF SctpInv
<1> DEFINE m == xup[h][i]
           r == ToFront(xup[h], i)
           e == Cut(m)
<1>1. /\ xup \in [S!Clients -> Seq(SctpMessages)] /\ xup[h] \in Seq(SctpMessages) /\ Len(rcvq) \in Nat
      /\ rcvq \in Seq(SctpMessages) /\ m \in SctpMessages
  BY <1>0 DEF SctpTypeOK
<1>2. /\ r \in Seq(SctpMessages) /\ Len(r) = Len(xup[h]) /\ Len(xup[h]) \in Nat /\ r # <<>> /\ r[1] = m
      /\ \A j \in 1..Len(r) : Origin(j, i) \in 1..Len(xup[h]) /\ r[j] = xup[h][Origin(j, i)]
      /\ \A j, k \in 1..Len(r) : Origin(j, i) = Origin(k, i) => j = k
  BY <1>1, MovedUp
<1> HIDE DEF r
<1>3. \A c \in S!Clients : xup'[c] = IF c = h THEN r ELSE xup[c]
  BY <1>1 DEF r, ToFront
<1>4. Piece(h, m) /\ m.eor /\ m.c = h /\ ~m.note
  BY <1>0 DEF ToServer, Piece, PieceOf
<1>5. e \in SctpMessages /\ e.what = m.what /\ e.c = h /\ e.s = m.s /\ ~e.eor /\ e.note = m.note /\ Rest(e) = m
  BY <1>1, <1>4, CutIs
<1>6. Piece(h, e)
  BY <1>4, <1>5 DEF Piece, PieceOf
<1> HIDE DEF e
<1>7. Arrived(h, e) /\ rcvq' \in Seq(SctpMessages) /\ childq' \in [S!Clients -> Seq(SctpMessages)]
  BY <1>0, <1>5, Arrival DEF e
<1>8. assoc[h] \notin {"peeled", "closing"}
  BY <1>0 DEF Associations
<1>9. SentTo(rcvq, rcvq', e) /\ childq' = childq
  BY <1>7, <1>8 DEF Arrived
<1>10. /\ \A k \in 1..Len(rcvq') : \/ k \in 1..Len(rcvq) /\ rcvq'[k] = rcvq[k]
                                   \/ k = Len(rcvq) + 1 /\ rcvq'[k] = e
       /\ Len(rcvq') = Len(rcvq) + 1 /\ \A k \in 1..Len(rcvq) : k \in 1..Len(rcvq') /\ rcvq'[k] = rcvq[k]
  BY <1>1, <1>9, SentToIs
<1>11. S!OutStrms' = S!OutStrms /\ (Clean' <=> Clean) /\ S!Note' = S!Note /\ S!Nobody' = S!Nobody
  <2>1. S!Aborted' <=> S!Aborted
    BY DEF S!Aborted
  <2>2. QED BY <2>1 DEF S!OutStrms, Clean, S!Note, S!Nobody
<1>12. SctpTypeOK'
  <2>1. xup' \in [S!Clients -> Seq(SctpMessages)]
    BY <1>1, <1>2 DEF r, ToFront
  <2>2. partial' \in {0, 1, 2}
    BY DEF S!Clients
  <2>3. QED BY <1>0, <1>7, <2>1, <2>2 DEF SctpTypeOK
<1>13. Associations'
  <2>1. ASSUME NEW c \in S!Clients, assoc[c] = "down"
        PROVE  xup'[c] = <<>> /\ (S!ClosedEarly(c)' \/ Away(c)')
    <3>1. c # h /\ xup[c] = <<>> /\ (S!ClosedEarly(c) \/ Away(c))
      BY <1>0, <2>1 DEF Associations
    <3>2. S!ClosedEarly(c)' <=> S!ClosedEarly(c)
      BY <1>1 DEF S!ClosedEarly
    <3>3. Away(c) => Away(c)'
      BY <1>1, <1>3, <1>5, <1>10, <3>1 DEF Away
    <3>4. QED BY <1>3, <1>5, <1>10, <3>1, <3>2, <3>3
  <2>2. ASSUME NEW c \in S!Clients, assoc[c] = "gone" PROVE xup'[c] = <<>>
    BY <1>0, <1>3, <2>2 DEF Associations
  <2>3. xup'[partial'] # <<>>
    BY <1>2, <1>3
  <2>4. QED BY <1>0, <2>1, <2>2, <2>3 DEF Associations
<1>14. ToServer'
  <2>1. ASSUME NEW c \in S!Clients, NEW k \in 1..Len(xup'[c]) PROVE Piece(c, xup'[c][k]) /\ xup'[c][k].eor
    <3>1. CASE c # h
      BY <1>0, <1>3, <2>1, <3>1 DEF ToServer
    <3>2. CASE c = h
      <4>1. k \in 1..Len(r) /\ xup'[c][k] = r[k]
        BY <1>3, <2>1, <3>2
      <4>2. Origin(k, i) \in 1..Len(xup[h]) /\ r[k] = xup[h][Origin(k, i)]
        BY <1>2, <4>1
      <4>3. QED BY <1>0, <3>2, <4>1, <4>2 DEF ToServer
    <3>3. QED BY <3>1, <3>2
  <2>2. ASSUME NEW k \in 1..Len(rcvq')
        PROVE  rcvq'[k] = S!Note \/ (rcvq'[k].c \in S!Clients /\ Piece(rcvq'[k].c, rcvq'[k]))
    BY <1>0, <1>5, <1>6, <1>10, <2>2 DEF ToServer
  <2>3. QED BY <1>0, <1>9, <1>11, <2>1, <2>2 DEF ToServer, Piece
<1>15. S!DiesOf'
  BY <1>0 DEF S!DiesOf, S!ClosedEarly
<1>16. ASSUME Clean PROVE Pieces' /\ Replies' /\ InOnePlace' /\ Waits'
  <2>0. Pieces /\ Replies /\ InOnePlace /\ Waits
    BY <1>0, <1>16
  <2>1. Pieces'
    <3>1. \A k \in 1..Len(rcvq) : ~rcvq[k].eor => rcvq[k].c # 0
      <4>1. S!Note.eor /\ 0 \notin S!Clients
        BY <1>0, SctpFacts DEF S!Clients
      <4>2. QED BY <1>0, <4>1 DEF ToServer
    <3>2. rcvq # <<>> => rcvq[Len(rcvq)].eor
      <4>1. rcvq # <<>> => Len(rcvq) \in 1..Len(rcvq)
        BY <1>1
      <4>2. QED BY <2>0, <3>1, <4>1 DEF Pieces
    <3>3. xpc = "recv" /\ held.c # 0 => rcvq # <<>> /\ rcvq[1] = Rest(held) /\ Piece(held.c, held)
      BY <2>0 DEF Pieces
    <3>4. rcvq' # <<>> /\ (rcvq # <<>> => rcvq'[1] = rcvq[1])
      <4>1. rcvq # <<>> => 1 \in 1..Len(rcvq)
        BY <1>1
      <4>2. QED BY <1>1, <1>7, <1>10, <4>1
    <3>5. ASSUME NEW k \in 1 .. Len(rcvq') - 1, ~rcvq'[k].eor PROVE rcvq'[k + 1] = Rest(rcvq'[k])
      <4>1. k \in 1..Len(rcvq) /\ k \in Nat
        BY <1>1, <1>10
      <4>2. rcvq'[k] = rcvq[k]
        BY <1>10, <4>1
      <4>3. k # Len(rcvq) /\ k \in 1 .. Len(rcvq) - 1 /\ k + 1 \in 1..Len(rcvq)
        BY <1>1, <3>2, <3>5, <4>1, <4>2
      <4>4. rcvq'[k + 1] = rcvq[k + 1]
        BY <1>10, <4>3
      <4>5. QED BY <2>0, <3>5, <4>2, <4>3, <4>4 DEF Pieces
    <3>6. rcvq'[Len(rcvq')] = e /\ xup'[h] # <<>> /\ xup'[h][1] = Rest(e)
      BY <1>2, <1>3, <1>5, <1>9 DEF SentTo
    <3>7. xpc = "recv" /\ held.c # 0 => rcvq'[1] = Rest(held)
      BY <3>3, <3>4
    <3>8. QED BY <1>5, <3>3, <3>4, <3>5, <3>6, <3>7 DEF Pieces, Piece, Rest
  <2>2. Replies'
    BY <1>11, <2>0 DEF Replies, AnswerTo, Piece
  <2>3. InOnePlace'
    <3>1. ASSUME NEW c \in S!Clients, NEW n \in Nat, NEW w \in Wheres, NEW k \in Nat, At(c, n, w, k)'
          PROVE  \/ (c = h => w # "up") /\ At(c, n, w, k)
                 \/ c = h /\ w = "up" /\ k \in 1..Len(r) /\ Origin(k, i) \in Nat /\ At(c, n, "up", Origin(k, i))
      <4>1. CASE w = "up" /\ c = h
        <5>1. k \in 1..Len(r) /\ Holds(r[k], c, n)
          BY <1>3, <3>1, <4>1 DEF At, Holds
        <5>2. Origin(k, i) \in 1..Len(xup[h]) /\ r[k] = xup[h][Origin(k, i)]
          BY <1>2, <5>1
        <5>3. At(c, n, "up", Origin(k, i)) /\ Origin(k, i) \in Nat
          BY <4>1, <5>1, <5>2 DEF At
        <5>4. QED BY <4>1, <5>1, <5>3
      <4>2. CASE w = "rcvq"
        <5>1. k \in 1..Len(rcvq') /\ Holds(rcvq'[k], c, n)
          BY <3>1, <4>2 DEF At, Holds
        <5>2. k \in 1..Len(rcvq) /\ rcvq'[k] = rcvq[k]
          BY <1>5, <1>10, <5>1 DEF Holds
        <5>3. At(c, n, w, k)
          BY <4>2, <5>1, <5>2 DEF At
        <5>4. QED BY <4>2, <5>3
      <4>3. CASE w \notin {"up", "rcvq"} \/ (w = "up" /\ c # h)
        <5>1. At(c, n, w, k)
          BY <1>3, <1>9, <3>1, <4>3 DEF At, Holds
        <5>2. QED BY <4>3, <5>1
      <4>4. QED BY <4>1, <4>2, <4>3
    <3>2. ASSUME NEW c \in S!Clients, NEW n \in Nat, NEW w \in Wheres, NEW v \in Wheres, NEW k \in Nat, NEW l \in Nat,
                 At(c, n, w, k)', At(c, n, v, l)'
          PROVE  w = v /\ k = l
      <4>1. "up" \in Wheres
        BY DEF Wheres
      <4>2. \A p, q \in Wheres, x, y \in Nat : At(c, n, p, x) /\ At(c, n, q, y) => p = q /\ x = y
        BY <2>0 DEF InOnePlace
      <4>3. \/ (c = h => w # "up") /\ At(c, n, w, k)
            \/ c = h /\ w = "up" /\ k \in 1..Len(r) /\ Origin(k, i) \in Nat /\ At(c, n, "up", Origin(k, i))
        BY <3>1, <3>2
      <4>4. \/ (c = h => v # "up") /\ At(c, n, v, l)
            \/ c = h /\ v = "up" /\ l \in 1..Len(r) /\ Origin(l, i) \in Nat /\ At(c, n, "up", Origin(l, i))
        BY <3>1, <3>2
      <4>5. \A x, y \in 1..Len(r) : Origin(x, i) = Origin(y, i) => x = y
        BY <1>2
      <4>6. QED BY <4>1, <4>2, <4>3, <4>4, <4>5
    <3>3. QED BY <2>0, <3>2 DEF InOnePlace
  <2>4. Waits'
    <3>1. \A c \in S!Clients : assoc[c] # "closing"
      BY <1>0 DEF Associations
    <3>2. QED BY <2>0, <3>1 DEF Waits
  <2>5. QED BY <2>1, <2>2, <2>3, <2>4
<1>17. QED BY <1>11, <1>12, <1>13, <1>14, <1>15, <1>16 DEF SctpInv

LEMMA SctpDeliverRest == ASSUME SctpInv, S!DeliverRest PROVE SctpInv'
<1>0. SctpTypeOK /\ Associations /\ ToServer /\ S!DiesOf /\ (Clean => Pieces /\ Replies /\ InOnePlace /\ Waits)
  BY DEF SctpInv
<1> DEFINE h == partial
           m == xup[h][1]
           r == Tail(xup[h])
<1>1. /\ h # 0 /\ assoc[h] = "up" /\ S!Arrives(h, Head(xup[h])) /\ xup' = [xup EXCEPT ![h] = Tail(xup[h])] /\ partial' = 0
      /\ UNCHANGED <<xserv, incr, strict, xcli, ends, assoc, xpc, held, xdown, xcpc, xnsent, nlines, taken>>
  BY DEF S!DeliverRest, S!conf, S!client
<1>2. h \in S!Clients /\ xserv.does = "pdapi" /\ xup[h] # <<>>
  BY <1>0, <1>1 DEF SctpTypeOK, Associations, S!Clients
<1>3. /\ xup \in [S!Clients -> Seq(SctpMessages)] /\ xup[h] \in Seq(SctpMessages) /\ Len(rcvq) \in Nat
      /\ rcvq \in Seq(SctpMessages)
  BY <1>0, <1>2 DEF SctpTypeOK
<1>4. /\ Head(xup[h]) = m /\ m \in SctpMessages /\ r \in Seq(SctpMessages) /\ Len(r) = Len(xup[h]) - 1
      /\ Len(xup[h]) \in Nat /\ Len(xup[h]) >= 1 /\ \A k \in 1..Len(xup[h])-1 : r[k] = xup[h][k + 1]
  BY <1>2, <1>3, TailIs
<1>5. 1 \in 1..Len(xup[h]) /\ \A k \in 1..Len(r) : k + 1 \in 1..Len(xup[h]) /\ r[k] = xup[h][k + 1]
  BY <1>4
<1> HIDE DEF r
<1>6. \A c \in S!Clients : xup'[c] = IF c = h THEN r ELSE xup[c]
  BY <1>1, <1>2, <1>3 DEF r
<1>7. Piece(h, m) /\ m.eor /\ m.c = h /\ ~m.note
  BY <1>0, <1>2, <1>5 DEF ToServer, Piece, PieceOf
<1>8. Arrived(h, m) /\ rcvq' \in Seq(SctpMessages) /\ childq' \in [S!Clients -> Seq(SctpMessages)]
  BY <1>0, <1>1, <1>2, <1>4, Arrival
<1>9. SentTo(rcvq, rcvq', m) /\ childq' = childq
  BY <1>1, <1>8 DEF Arrived
<1>10. /\ \A k \in 1..Len(rcvq') : \/ k \in 1..Len(rcvq) /\ rcvq'[k] = rcvq[k]
                                   \/ k = Len(rcvq) + 1 /\ rcvq'[k] = m
       /\ Len(rcvq') = Len(rcvq) + 1 /\ \A k \in 1..Len(rcvq) : k \in 1..Len(rcvq') /\ rcvq'[k] = rcvq[k]
  BY <1>3, <1>9, SentToIs
<1>11. S!OutStrms' = S!OutStrms /\ (Clean' <=> Clean) /\ S!Note' = S!Note /\ S!Nobody' = S!Nobody
  <2>1. S!Aborted' <=> S!Aborted
    BY <1>1 DEF S!Aborted
  <2>2. QED BY <1>1, <2>1 DEF S!OutStrms, Clean, S!Note, S!Nobody
<1>12. SctpTypeOK'
  <2>1. xup' \in [S!Clients -> Seq(SctpMessages)]
    BY <1>1, <1>3, <1>4 DEF r
  <2>2. QED BY <1>0, <1>1, <1>8, <2>1 DEF SctpTypeOK
<1>13. Associations'
  <2>1. ASSUME NEW c \in S!Clients, assoc[c] = "down"
        PROVE  xup'[c] = <<>> /\ (S!ClosedEarly(c)' \/ Away(c)')
    <3>1. c # h /\ xup[c] = <<>> /\ (S!ClosedEarly(c) \/ Away(c))
      BY <1>0, <1>1, <2>1 DEF Associations
    <3>2. S!ClosedEarly(c)' <=> S!ClosedEarly(c)
      BY <1>1 DEF S!ClosedEarly
    <3>3. Away(c) => Away(c)'
      BY <1>1, <1>6, <1>7, <1>10, <3>1 DEF Away
    <3>4. QED BY <1>6, <1>7, <1>10, <3>1, <3>2, <3>3
  <2>2. ASSUME NEW c \in S!Clients, assoc[c] = "gone" PROVE xup'[c] = <<>>
    BY <1>0, <1>1, <1>6, <2>2 DEF Associations
  <2>3. QED BY <1>0, <1>1, <1>2, <2>1, <2>2 DEF Associations
<1>14. ToServer'
  <2>1. ASSUME NEW c \in S!Clients, NEW k \in 1..Len(xup'[c]) PROVE Piece(c, xup'[c][k]) /\ xup'[c][k].eor
    <3>1. CASE c # h
      BY <1>0, <1>6, <2>1, <3>1 DEF ToServer
    <3>2. CASE c = h
      BY <1>0, <1>5, <1>6, <2>1, <3>2 DEF ToServer
    <3>3. QED BY <3>1, <3>2
  <2>2. ASSUME NEW k \in 1..Len(rcvq')
        PROVE  rcvq'[k] = S!Note \/ (rcvq'[k].c \in S!Clients /\ Piece(rcvq'[k].c, rcvq'[k]))
    BY <1>0, <1>2, <1>7, <1>10, <2>2 DEF ToServer
  <2>3. QED BY <1>0, <1>1, <1>9, <1>11, <2>1, <2>2 DEF ToServer, Piece
<1>15. S!DiesOf'
  BY <1>0, <1>1 DEF S!DiesOf, S!ClosedEarly
<1>16. ASSUME Clean PROVE Pieces' /\ Replies' /\ InOnePlace' /\ Waits'
  <2>0. Pieces /\ Replies /\ InOnePlace /\ Waits
    BY <1>0, <1>16
  <2>1. Pieces'
    <3>1. rcvq # <<>> /\ ~rcvq[Len(rcvq)].eor => m = Rest(rcvq[Len(rcvq)])
      BY <2>0 DEF Pieces
    <3>2. xpc = "recv" /\ held.c # 0 => Piece(held.c, held)
      BY <2>0 DEF Pieces
    <3>3. xpc = "recv" /\ held.c # 0 => rcvq'[1] = Rest(held)
      <4>1. CASE rcvq = <<>>
        <5>1. Len(rcvq) + 1 = 1
          BY <4>1
        <5>2. rcvq'[1] = m
          BY <1>9, <5>1 DEF SentTo
        <5>3. QED BY <2>0, <4>1, <5>2 DEF Pieces
      <4>2. CASE rcvq # <<>>
        <5>1. 1 \in 1..Len(rcvq)
          BY <1>3, <4>2
        <5>2. QED BY <1>10, <2>0, <4>2, <5>1 DEF Pieces
      <4>3. QED BY <4>1, <4>2
    <3>4. rcvq' # <<>> /\ rcvq'[Len(rcvq')].eor
      BY <1>3, <1>7, <1>8, <1>9 DEF SentTo
    <3>5. ASSUME NEW k \in 1 .. Len(rcvq') - 1, ~rcvq'[k].eor PROVE rcvq'[k + 1] = Rest(rcvq'[k])
      <4>1. k \in 1..Len(rcvq) /\ k \in Nat /\ rcvq'[k] = rcvq[k]
        BY <1>3, <1>10
      <4>2. CASE k = Len(rcvq)
        <5>1. rcvq # <<>> /\ rcvq'[k + 1] = m
          BY <1>9, <4>1, <4>2 DEF SentTo
        <5>2. QED BY <3>1, <3>5, <4>1, <4>2, <5>1
      <4>3. CASE k # Len(rcvq)
        <5>1. k \in 1 .. Len(rcvq) - 1 /\ k + 1 \in 1..Len(rcvq)
          BY <1>3, <4>1, <4>3
        <5>2. rcvq'[k + 1] = rcvq[k + 1]
          BY <1>10, <5>1
        <5>3. QED BY <2>0, <3>5, <4>1, <5>1, <5>2 DEF Pieces
      <4>4. QED BY <4>2, <4>3
    <3>6. QED BY <1>1, <3>2, <3>3, <3>4, <3>5 DEF Pieces, Piece, Rest
  <2>2. Replies'
    BY <1>1, <1>11, <2>0 DEF Replies, AnswerTo, Piece
  <2>3. InOnePlace'
    <3>1. ASSUME NEW c \in S!Clients, NEW n \in Nat, NEW w \in Wheres, NEW k \in Nat, At(c, n, w, k)'
          PROVE  \/ (c = h => w # "up") /\ At(c, n, w, k) /\ (w = "rcvq" => k <= Len(rcvq))
                 \/ c = h /\ w = "up" /\ k # 0 /\ At(c, n, "up", k + 1)
                 \/ c = h /\ w = "rcvq" /\ k = Len(rcvq) + 1 /\ At(c, n, "up", 1)
      <4>0. c # h => ~Holds(m, c, n)
        BY <1>7 DEF Holds, Piece, PieceOf
      <4>1. CASE w = "up" /\ c = h
        <5>1. k \in 1..Len(r) /\ Holds(r[k], c, n)
          BY <1>6, <3>1, <4>1 DEF At, Holds
        <5>2. k + 1 \in 1..Len(xup[h]) /\ r[k] = xup[h][k + 1] /\ k # 0
          BY <1>5, <5>1
        <5>3. At(c, n, "up", k + 1)
          BY <4>1, <5>1, <5>2 DEF At
        <5>4. QED BY <4>1, <5>2, <5>3
      <4>2. CASE w = "rcvq"
        <5>1. k \in 1..Len(rcvq') /\ Holds(rcvq'[k], c, n)
          BY <3>1, <4>2 DEF At, Holds
        <5>2. CASE k \in 1..Len(rcvq) /\ rcvq'[k] = rcvq[k]
          <6>1. At(c, n, w, k) /\ k <= Len(rcvq)
            BY <4>2, <5>1, <5>2 DEF At
          <6>2. QED BY <4>2, <6>1
        <5>3. CASE k = Len(rcvq) + 1 /\ rcvq'[k] = m
          <6>1. c = h /\ At(c, n, "up", 1)
            BY <1>5, <4>0, <5>1, <5>3 DEF At
          <6>2. QED BY <4>2, <5>3, <6>1
        <5>4. QED BY <1>10, <5>1, <5>2, <5>3
      <4>3. CASE w \notin {"up", "rcvq"} \/ (w = "up" /\ c # h)
        <5>1. At(c, n, w, k)
          BY <1>1, <1>6, <1>9, <3>1, <4>3 DEF At, Holds
        <5>2. QED BY <4>3, <5>1
      <4>4. QED BY <4>1, <4>2, <4>3
    <3>2. ASSUME NEW c \in S!Clients, NEW n \in Nat, NEW w \in Wheres, NEW v \in Wheres, NEW k \in Nat, NEW l \in Nat,
                 At(c, n, w, k)', At(c, n, v, l)'
          PROVE  w = v /\ k = l
      <4>1. "up" \in Wheres /\ k + 1 \in Nat /\ l + 1 \in Nat /\ 1 \in Nat
        BY DEF Wheres
      <4>2. \A p, q \in Wheres, x, y \in Nat : At(c, n, p, x) /\ At(c, n, q, y) => p = q /\ x = y
        BY <2>0 DEF InOnePlace
      <4>3. \/ (c = h => w # "up") /\ At(c, n, w, k) /\ (w = "rcvq" => k <= Len(rcvq))
            \/ c = h /\ w = "up" /\ k # 0 /\ At(c, n, "up", k + 1)
            \/ c = h /\ w = "rcvq" /\ k = Len(rcvq) + 1 /\ At(c, n, "up", 1)
        BY <3>1, <3>2
      <4>4. \/ (c = h => v # "up") /\ At(c, n, v, l) /\ (v = "rcvq" => l <= Len(rcvq))
            \/ c = h /\ v = "up" /\ l # 0 /\ At(c, n, "up", l + 1)
            \/ c = h /\ v = "rcvq" /\ l = Len(rcvq) + 1 /\ At(c, n, "up", 1)
        BY <3>1, <3>2
      <4>5. QED BY <4>1, <4>2, <4>3, <4>4
    <3>3. QED BY <1>1, <2>0, <3>2 DEF InOnePlace
  <2>4. Waits'
    <3>1. \A c \in S!Clients : assoc[c] # "closing"
      BY <1>0, <1>2 DEF Associations
    <3>2. QED BY <1>1, <2>0, <3>1 DEF Waits
  <2>5. QED BY <2>1, <2>2, <2>3, <2>4
<1>17. QED BY <1>11, <1>12, <1>13, <1>14, <1>15, <1>16 DEF SctpInv

LEMMA SctpEnded == ASSUME SctpInv, NEW h \in S!Clients, S!Ended(h) PROVE SctpInv'
<1>0. SctpTypeOK /\ Associations /\ ToServer /\ S!DiesOf /\ (Clean => Pieces /\ Replies /\ InOnePlace /\ Waits)
  BY DEF SctpInv
<1>1. /\ assoc[h] = "closing" \/ (xserv.does = "autoclose" /\ assoc[h] = "up")
      /\ xup[h] = <<>> /\ assoc' = [assoc EXCEPT ![h] = "down"]
      /\ UNCHANGED <<xserv, incr, strict, xcli, ends, xup, rcvq, partial, xpc, held, childq, xdown, xcpc, xnsent, nlines, taken>>
  BY DEF S!Ended, S!conf, S!client, S!server
<1>2. S!ClosedEarly(h) \/ Away(h)
  <2>1. SUFFICES ASSUME ~S!ClosedEarly(h) PROVE Away(h)
    OBVIOUS
  <2>2. assoc[h] = "closing" /\ xserv.does = "MSG_EOF" /\ ~xcli[h].all
    BY <1>0, <1>1, <2>1 DEF Associations, S!ClosedEarly
  <2>3. Waits
    BY <1>0, <2>2 DEF Clean
  <2>4. (\A k \in 1..Len(rcvq) : rcvq[k].c # h) /\ ~(xpc \in {"strms", "send"} /\ held.c = h)
    BY <2>2, <2>3 DEF Waits
  <2>5. xpc \in {"recv", "peel"} => held.c # h
    <3>1. h # 0
      BY DEF S!Clients
    <3>2. QED BY <1>0, <2>2, <3>1 DEF ToServer, Associations
  <2>6. xpc \in {"recv", "strms", "send", "peel", "dead"}
    BY <1>0 DEF SctpTypeOK
  <2>7. QED BY <2>4, <2>5, <2>6 DEF Away
<1>3. assoc \in [S!Clients -> {"down", "up", "closing", "peeled", "gone"}]
  BY <1>0 DEF SctpTypeOK
<1>4. \A c \in S!Clients : assoc'[c] = IF c = h THEN "down" ELSE assoc[c]
  BY <1>1, <1>3
<1>5. S!OutStrms' = S!OutStrms /\ (Clean' <=> Clean) /\ S!Note' = S!Note /\ S!Nobody' = S!Nobody
  <2>1. \A c \in S!Clients : assoc'[c] = "gone" <=> assoc[c] = "gone"
    BY <1>1, <1>4
  <2>2. S!Aborted' <=> S!Aborted
    BY <1>1, <2>1 DEF S!Aborted
  <2>3. QED BY <1>1, <2>2 DEF S!OutStrms, Clean, S!Note, S!Nobody
<1>6. SctpTypeOK'
  <2>1. assoc' \in [S!Clients -> {"down", "up", "closing", "peeled", "gone"}]
    BY <1>1, <1>3
  <2>2. QED BY <1>0, <1>1, <2>1 DEF SctpTypeOK
<1>7. Associations'
  <2>1. ASSUME NEW c \in S!Clients
        PROVE  /\ assoc'[c] = "gone" <=> xcpc[c] = "exit"
               /\ assoc'[c] = "gone" => xup[c] = <<>>
               /\ assoc'[c] = "peeled" => xserv.does = "peel off"
               /\ assoc'[c] = "closing" => xserv.does = "MSG_EOF"
               /\ assoc'[c] = "down" => xup[c] = <<>> /\ (S!ClosedEarly(c) \/ Away(c))
               /\ xcli[c].all => xnsent[c] = 0 \/ xnsent[c] >= Strms
    <3>1. CASE c # h
      BY <1>0, <1>4, <3>1 DEF Associations
    <3>2. CASE c = h
      <4>1. assoc'[c] = "down" /\ xcpc[c] # "exit"
        BY <1>0, <1>1, <1>4, <3>2 DEF Associations
      <4>2. xcli[c].all => xnsent[c] = 0 \/ xnsent[c] >= Strms
        BY <1>0 DEF Associations
      <4>3. QED BY <1>1, <1>2, <3>2, <4>1, <4>2
    <3>3. QED BY <3>1, <3>2
  <2>2. partial # 0 /\ assoc'[partial] = "up" => assoc[partial] = "up"
    <3>1. partial # 0 => partial \in S!Clients
      BY <1>0 DEF SctpTypeOK, S!Clients
    <3>2. QED BY <1>4, <3>1
  <2>3. \A c \in S!Clients : (S!ClosedEarly(c)' <=> S!ClosedEarly(c)) /\ (Away(c)' <=> Away(c))
    BY <1>1 DEF S!ClosedEarly, Away
  <2>4. QED BY <1>0, <1>1, <2>1, <2>2, <2>3 DEF Associations
<1>8. ToServer'
  BY <1>0, <1>1, <1>5 DEF ToServer, Piece
<1>9. S!DiesOf'
  <2>1. assoc[held.c] \in {"gone", "down"} => assoc'[held.c] = assoc[held.c]
    BY <1>1, <1>3
  <2>2. S!ClosedEarly(held.c)' <=> S!ClosedEarly(held.c)
    BY <1>1 DEF S!ClosedEarly
  <2>3. QED BY <1>0, <1>1, <2>1, <2>2 DEF S!DiesOf
<1>10. ASSUME Clean PROVE Pieces' /\ Replies' /\ InOnePlace' /\ Waits'
  <2>0. Pieces /\ Replies /\ InOnePlace /\ Waits
    BY <1>0, <1>10
  <2>1. Pieces'
    BY <1>1, <2>0 DEF Pieces, Piece, Rest
  <2>2. Replies'
    BY <1>1, <1>5, <2>0 DEF Replies, AnswerTo, Piece
  <2>3. InOnePlace'
    <3>1. ASSUME NEW c \in S!Clients, NEW n \in Nat, NEW w \in Wheres, NEW k \in Nat, At(c, n, w, k)'
          PROVE  At(c, n, w, k)
      BY <1>1, <3>1 DEF At, Holds
    <3>2. ASSUME NEW c \in S!Clients, NEW n \in Nat, NEW w \in Wheres, NEW v \in Wheres,
                 NEW k \in Nat, NEW l \in Nat, At(c, n, w, k)', At(c, n, v, l)'
          PROVE  w = v /\ k = l
      <4>1. At(c, n, w, k) /\ At(c, n, v, l)
        BY <3>1, <3>2
      <4>2. QED BY <2>0, <4>1 DEF InOnePlace
    <3>3. QED BY <1>1, <2>0, <3>2 DEF InOnePlace
  <2>4. Waits'
    BY <1>1, <1>4, <2>0 DEF Waits
  <2>5. QED BY <2>1, <2>2, <2>3, <2>4
<1>11. QED BY <1>5, <1>6, <1>7, <1>8, <1>9, <1>10 DEF SctpInv

LEMMA SctpTakeReply == ASSUME SctpInv, NEW h \in S!Clients, S!TakeReply(h) PROVE SctpInv'
<1>0. SctpTypeOK /\ Associations /\ ToServer /\ S!DiesOf /\ (Clean => Pieces /\ Replies /\ InOnePlace /\ Waits)
  BY DEF SctpInv
<1>1. /\ xcpc[h] = "wait"
      /\ UNCHANGED <<xserv, incr, strict, xcli, ends, assoc, xup, rcvq, partial, xpc, held, childq, xnsent, nlines>>
      /\ xcpc' = [xcpc EXCEPT ![h] = IF Len(taken'[h]) = xnsent[h] THEN "type" ELSE "wait"]
  BY DEF S!TakeReply, S!conf, S!server
<1>2. PICK i \in S!Ready(xdown[h]) : /\ taken' = [taken EXCEPT ![h] = Append(taken[h], xdown[h][i])]
                                     /\ xdown' = [xdown EXCEPT ![h] = S!RemoveAt(xdown[h], i)]
  BY DEF S!TakeReply
<1>3. /\ xdown \in [S!Clients -> Seq(SctpMessages)] /\ xdown[h] \in Seq(SctpMessages)
      /\ taken \in [S!Clients -> Seq(SctpMessages)] /\ taken[h] \in Seq(SctpMessages) /\ Len(taken[h]) \in Nat
      /\ xcpc \in [S!Clients -> {"type", "wait", "exit"}] /\ xnsent[h] \in Nat
  BY <1>0 DEF SctpTypeOK
<1>4. i \in 1..Len(xdown[h])
  <2>1. i \in DOMAIN xdown[h]
    BY <1>2 DEF S!Ready
  <2>2. QED BY <1>3, <2>1
<1> DEFINE m == xdown[h][i]
           r == S!RemoveAt(xdown[h], i)
<1>5. /\ r \in Seq(SctpMessages) /\ Len(r) = Len(xdown[h]) - 1 /\ Len(xdown[h]) \in Nat /\ i \in Nat
      /\ \A j \in 1..Len(r) : Skip(j, i) \in 1..Len(xdown[h]) /\ r[j] = xdown[h][Skip(j, i)] /\ Skip(j, i) # i
      /\ \A j, k \in 1..Len(r) : Skip(j, i) = Skip(k, i) => j = k
  BY <1>3, <1>4, TakenOut
<1>6. m \in SctpMessages
  BY <1>3, <1>4
<1> HIDE DEF r
<1>7. \A c \in S!Clients : /\ xdown'[c] = IF c = h THEN r ELSE xdown[c]
                           /\ taken'[c] = IF c = h THEN Append(taken[h], m) ELSE taken[c]
                           /\ xcpc'[c] = IF c # h THEN xcpc[c] ELSE IF Len(taken'[h]) = xnsent[h] THEN "type" ELSE "wait"
  BY <1>1, <1>2, <1>3 DEF r
<1>8. SentTo(taken[h], taken'[h], m)
  <2>1. taken'[h] = Append(taken[h], m)
    BY <1>7
  <2>2. QED BY <1>3, <1>6, <2>1, SeqFacts DEF SentTo
<1>9. \A k \in 1..Len(taken'[h]) : \/ k \in 1..Len(taken[h]) /\ taken'[h][k] = taken[h][k]
                                   \/ k = Len(taken[h]) + 1 /\ taken'[h][k] = m
  BY <1>3, <1>8, SentToIs
<1>10. S!OutStrms' = S!OutStrms /\ (Clean' <=> Clean) /\ S!Note' = S!Note /\ S!Nobody' = S!Nobody
  <2>1. S!Aborted' <=> S!Aborted
    BY <1>1 DEF S!Aborted
  <2>2. QED BY <1>1, <2>1 DEF S!OutStrms, Clean, S!Note, S!Nobody
<1>11. SctpTypeOK'
  <2>1. xdown' \in [S!Clients -> Seq(SctpMessages)]
    BY <1>2, <1>3, <1>5 DEF r
  <2>2. taken' \in [S!Clients -> Seq(SctpMessages)]
    <3>1. Append(taken[h], m) \in Seq(SctpMessages)
      BY <1>3, <1>6, SeqFacts
    <3>2. QED BY <1>2, <1>3, <3>1
  <2>3. xcpc' \in [S!Clients -> {"type", "wait", "exit"}]
    BY <1>1, <1>3
  <2>4. QED BY <1>0, <1>1, <2>1, <2>2, <2>3 DEF SctpTypeOK
<1>12. Associations'
  <2>1. \A c \in S!Clients : xcpc'[c] = "exit" <=> xcpc[c] = "exit"
    BY <1>1, <1>7
  <2>2. QED BY <1>0, <1>1, <2>1 DEF Associations, Away, S!ClosedEarly
<1>13. ToServer'
  <2>1. ASSUME NEW c \in S!Clients, NEW k \in 1..Len(xdown'[c]) PROVE xdown'[c][k].s < S!OutStrms
    <3>1. CASE c # h
      BY <1>0, <1>7, <2>1, <3>1 DEF ToServer
    <3>2. CASE c = h
      <4>1. k \in 1..Len(r) /\ xdown'[c][k] = r[k]
        BY <1>7, <2>1, <3>2
      <4>2. QED BY <1>0, <1>5, <4>1 DEF ToServer
    <3>3. QED BY <3>1, <3>2
  <2>2. ASSUME NEW c \in S!Clients, NEW k \in 1..Len(taken'[c]) PROVE taken'[c][k].s < S!OutStrms
    <3>1. CASE c # h
      BY <1>0, <1>7, <2>2, <3>1 DEF ToServer
    <3>2. CASE c = h
      BY <1>0, <1>4, <1>9, <2>2, <3>2 DEF ToServer
    <3>3. QED BY <3>1, <3>2
  <2>3. QED BY <1>0, <1>1, <1>10, <2>1, <2>2 DEF ToServer, Piece
<1>14. S!DiesOf'
  BY <1>0, <1>1 DEF S!DiesOf, S!ClosedEarly
<1>15. ASSUME Clean PROVE Pieces' /\ Replies' /\ InOnePlace' /\ Waits'
  <2>0. Pieces /\ Replies /\ InOnePlace /\ Waits
    BY <1>0, <1>15
  <2>1. Pieces'
    BY <1>1, <2>0 DEF Pieces, Piece, Rest
  <2>2. AnswerTo(h, m) /\ m.eor
    BY <1>4, <2>0 DEF Replies, InOnePlace
  <2>3. ~xcli[h].all => xnsent[h] = Len(taken[h]) + 1 /\ m.what = {<<h, Len(taken[h]) + 1>>}
    <3>1. SUFFICES ASSUME ~xcli[h].all PROVE xnsent[h] = Len(taken[h]) + 1 /\ m.what = {<<h, Len(taken[h]) + 1>>}
      OBVIOUS
    <3>2. xnsent[h] = Len(taken[h]) + 1
      BY <1>1, <1>3, <2>0, <3>1 DEF Waits
    <3>3. PICK n \in 1..xnsent[h] : m.what = {<<h, n>>}
      BY <2>2 DEF AnswerTo, ReplyOf
    <3>4. At(h, n, "down", i) /\ n \in Nat /\ "down" \in Wheres /\ "down" # "taken"
      BY <1>3, <1>4, <2>2, <3>3 DEF At, Holds, Wheres
    <3>5. n = xnsent[h]
      BY <1>1, <1>5, <1>15, <3>1, <3>4, Outstanding
    <3>6. QED BY <3>2, <3>3, <3>5
  <2>4. Replies'
    <3>1. ASSUME NEW c \in S!Clients, NEW k \in 1..Len(xdown'[c]) PROVE AnswerTo(c, xdown'[c][k])
      <4>1. CASE c # h
        BY <1>7, <2>0, <3>1, <4>1 DEF Replies
      <4>2. CASE c = h
        <5>1. k \in 1..Len(r) /\ xdown'[c][k] = r[k]
          BY <1>7, <3>1, <4>2
        <5>2. QED BY <1>5, <2>0, <4>2, <5>1 DEF Replies
      <4>3. QED BY <4>1, <4>2
    <3>2. ASSUME NEW c \in S!Clients, NEW k \in 1..Len(taken'[c])
          PROVE  AnswerTo(c, taken'[c][k]) /\ (~xcli[c].all => taken'[c][k].what = {<<c, k>>})
      <4>1. CASE c # h
        BY <1>7, <2>0, <3>2, <4>1 DEF Replies
      <4>2. CASE c = h
        <5>1. CASE k \in 1..Len(taken[h]) /\ taken'[h][k] = taken[h][k]
          BY <2>0, <4>2, <5>1 DEF Replies
        <5>2. CASE k = Len(taken[h]) + 1 /\ taken'[h][k] = m
          BY <2>2, <2>3, <4>2, <5>2
        <5>3. QED BY <1>9, <3>2, <4>2, <5>1, <5>2
      <4>3. QED BY <4>1, <4>2
    <3>3. QED BY <1>1, <1>10, <2>0, <3>1, <3>2 DEF Replies, AnswerTo, Piece
  <2>5. InOnePlace'
    <3>1. ASSUME NEW c \in S!Clients, NEW n \in Nat, NEW w \in Wheres, NEW k \in Nat, At(c, n, w, k)'
          PROVE  \/ (c = h => w # "down") /\ At(c, n, w, k) /\ (c = h /\ w = "taken" => k <= Len(taken[h]))
                 \/ c = h /\ w = "down" /\ k \in 1..Len(r) /\ Skip(k, i) \in Nat /\ At(c, n, "down", Skip(k, i))
                 \/ c = h /\ w = "taken" /\ k = Len(taken[h]) + 1 /\ At(c, n, "down", i)
      <4>1. CASE w = "down" /\ c = h
        <5>1. k \in 1..Len(r) /\ Holds(r[k], c, n)
          BY <1>7, <3>1, <4>1 DEF At, Holds
        <5>2. Skip(k, i) \in 1..Len(xdown[h]) /\ r[k] = xdown[h][Skip(k, i)]
          BY <1>5, <5>1
        <5>3. At(c, n, "down", Skip(k, i)) /\ Skip(k, i) \in Nat
          BY <4>1, <5>1, <5>2 DEF At
        <5>4. QED BY <4>1, <5>1, <5>3
      <4>2. CASE w = "taken" /\ c = h
        <5>1. k \in 1..Len(taken'[h]) /\ Holds(taken'[h][k], c, n)
          BY <3>1, <4>2 DEF At, Holds
        <5>2. CASE k \in 1..Len(taken[h]) /\ taken'[h][k] = taken[h][k]
          <6>1. At(c, n, w, k) /\ k <= Len(taken[h])
            BY <4>2, <5>1, <5>2 DEF At
          <6>2. QED BY <4>2, <6>1
        <5>3. CASE k = Len(taken[h]) + 1 /\ taken'[h][k] = m
          <6>1. At(c, n, "down", i)
            BY <1>4, <4>2, <5>1, <5>3 DEF At
          <6>2. QED BY <4>2, <5>3, <6>1
        <5>4. QED BY <1>9, <5>1, <5>2, <5>3
      <4>3. CASE w \notin {"down", "taken"} \/ c # h
        <5>1. At(c, n, w, k)
          BY <1>1, <1>7, <3>1, <4>3 DEF At, Holds
        <5>2. QED BY <4>3, <5>1
      <4>4. QED BY <4>1, <4>2, <4>3
    <3>2. ASSUME NEW c \in S!Clients, NEW n \in Nat, NEW w \in Wheres, NEW v \in Wheres, NEW k \in Nat, NEW l \in Nat,
                 At(c, n, w, k)', At(c, n, v, l)'
          PROVE  w = v /\ k = l
      <4>1. "down" \in Wheres
        BY DEF Wheres
      <4>2. \A p, q \in Wheres, x, y \in Nat : At(c, n, p, x) /\ At(c, n, q, y) => p = q /\ x = y
        BY <2>0 DEF InOnePlace
      <4>3. \/ (c = h => w # "down") /\ At(c, n, w, k) /\ (c = h /\ w = "taken" => k <= Len(taken[h]))
            \/ c = h /\ w = "down" /\ k \in 1..Len(r) /\ Skip(k, i) \in Nat /\ At(c, n, "down", Skip(k, i))
            \/ c = h /\ w = "taken" /\ k = Len(taken[h]) + 1 /\ At(c, n, "down", i)
        BY <3>1, <3>2
      <4>4. \/ (c = h => v # "down") /\ At(c, n, v, l) /\ (c = h /\ v = "taken" => l <= Len(taken[h]))
            \/ c = h /\ v = "down" /\ l \in 1..Len(r) /\ Skip(l, i) \in Nat /\ At(c, n, "down", Skip(l, i))
            \/ c = h /\ v = "taken" /\ l = Len(taken[h]) + 1 /\ At(c, n, "down", i)
        BY <3>1, <3>2
      <4>5. /\ \A x \in 1..Len(r) : Skip(x, i) # i
            /\ \A x, y \in 1..Len(r) : Skip(x, i) = Skip(y, i) => x = y
            /\ i \in Nat
        BY <1>5
      <4>6. QED BY <4>1, <4>2, <4>3, <4>4, <4>5
    <3>3. ASSUME NEW c \in S!Clients, NEW k \in 1..Len(xdown'[c]) PROVE xdown'[c][k].eor
      <4>1. CASE c # h
        BY <1>7, <2>0, <3>3, <4>1 DEF InOnePlace
      <4>2. CASE c = h
        <5>1. k \in 1..Len(r) /\ xdown'[c][k] = r[k]
          BY <1>7, <3>3, <4>2
        <5>2. QED BY <1>5, <2>0, <4>2, <5>1 DEF InOnePlace
      <4>3. QED BY <4>1, <4>2
    <3>4. ASSUME NEW c \in S!Clients, NEW k \in 1..Len(taken'[c]) PROVE taken'[c][k].eor
      <4>1. CASE c # h
        BY <1>7, <2>0, <3>4, <4>1 DEF InOnePlace
      <4>2. CASE c = h
        BY <1>9, <2>0, <2>2, <3>4, <4>2 DEF InOnePlace
      <4>3. QED BY <4>1, <4>2
    <3>5. QED BY <1>1, <2>0, <3>2, <3>3, <3>4 DEF InOnePlace
  <2>6. Waits'
    <3>1. Len(taken'[h]) = Len(taken[h]) + 1
      BY <1>8 DEF SentTo
    <3>2. ASSUME NEW c \in S!Clients
          PROVE  /\ xcpc'[c] = "type" => Len(taken'[c]) = xnsent[c]
                 /\ xcpc'[c] = "wait" /\ ~xcli[c].all => Len(taken'[c]) = xnsent[c] - 1
      <4>1. CASE c # h
        BY <1>7, <2>0, <4>1 DEF Waits
      <4>2. CASE c = h
        BY <1>7, <2>3, <3>1, <4>2
      <4>3. QED BY <4>1, <4>2
    <3>3. QED BY <1>1, <2>0, <3>2 DEF Waits
  <2>7. QED BY <2>1, <2>4, <2>5, <2>6
<1>16. QED BY <1>10, <1>11, <1>12, <1>13, <1>14, <1>15 DEF SctpInv

\* Nothing is read in parts but by the server that asks for it.
LEMMA LastPiece ==
  ASSUME SctpTypeOK, ToServer, Pieces, partial # 0
  PROVE  partial \in S!Clients /\ xup[partial] # <<>>
<1>1. partial \in S!Clients
  BY DEF SctpTypeOK, S!Clients
<1>2. rcvq # <<>> /\ ~rcvq[Len(rcvq)].eor => xup[partial] # <<>>
  BY DEF Pieces
<1>3. rcvq = <<>> /\ xpc = "recv" /\ held.c # 0 => xup[partial] # <<>>
  BY DEF Pieces
<1>4. QED BY <1>1, <1>2, <1>3 DEF Pieces

\* A client ends, as by TypeLine or by Leave.
LEMMA SctpGoes ==
  ASSUME SctpInv, NEW h \in S!Clients,
         xcpc[h] = "type" \/ (xcpc[h] = "wait" /\ ends[h] = "abort"),
         xcpc' = [xcpc EXCEPT ![h] = "exit"], assoc' = [assoc EXCEPT ![h] = "gone"],
         xup' = [xup EXCEPT ![h] = <<>>], xdown' = xdown \/ xdown' = [xdown EXCEPT ![h] = <<>>],
         partial' = partial \/ (partial = h /\ partial' = 0),
         rcvq' = rcvq \/ (xserv.does = "notifications" /\ rcvq' = Append(rcvq, S!Note)),
         UNCHANGED <<xserv, incr, strict, xcli, ends, xpc, held, childq, xnsent, taken>>
  PROVE  SctpInv'
<1>0. SctpTypeOK /\ Associations /\ ToServer /\ S!DiesOf /\ (Clean => Pieces /\ Replies /\ InOnePlace /\ Waits)
  BY DEF SctpInv
<1>1. /\ xup \in [S!Clients -> Seq(SctpMessages)] /\ xdown \in [S!Clients -> Seq(SctpMessages)]
      /\ xcpc \in [S!Clients -> {"type", "wait", "exit"}] /\ rcvq \in Seq(SctpMessages) /\ Len(rcvq) \in Nat
      /\ assoc \in [S!Clients -> {"down", "up", "closing", "peeled", "gone"}]
      /\ <<>> \in Seq(SctpMessages)
  BY <1>0 DEF SctpTypeOK
<1>2. /\ S!Note \in SctpMessages /\ S!Note.c = 0 /\ S!Note.note /\ S!Note.eor /\ S!Note.what = {}
  BY <1>0, SctpFacts
<1>3. \A c \in S!Clients : /\ xup'[c] = IF c = h THEN <<>> ELSE xup[c]
                           /\ assoc'[c] = IF c = h THEN "gone" ELSE assoc[c]
                           /\ xcpc'[c] = IF c = h THEN "exit" ELSE xcpc[c]
                           /\ xdown'[c] = xdown[c] \/ (c = h /\ xdown'[c] = <<>>)
  <2>1. DOMAIN xup = S!Clients /\ DOMAIN xdown = S!Clients /\ DOMAIN xcpc = S!Clients /\ DOMAIN assoc = S!Clients
    BY <1>1
  <2>2. \A c \in S!Clients : xdown'[c] = xdown[c] \/ (c = h /\ xdown'[c] = <<>>)
    BY <2>1
  <2>3. QED BY <2>1, <2>2
<1>4. \A c \in S!Clients : \A k \in 1..Len(xdown'[c]) : k \in 1..Len(xdown[c]) /\ xdown'[c] = xdown[c]
  <2>1. Len(<<>>) = 0
    OBVIOUS
  <2>2. QED BY <1>3, <2>1
<1>5. \A c \in S!Clients : \A k \in 1..Len(xup'[c]) : k \in 1..Len(xup[c]) /\ xup'[c] = xup[c] /\ c # h
  <2>1. Len(<<>>) = 0
    OBVIOUS
  <2>2. QED BY <1>3, <2>1
<1>6. /\ rcvq' \in Seq(SctpMessages)
      /\ \A k \in 1..Len(rcvq') : \/ k \in 1..Len(rcvq) /\ rcvq'[k] = rcvq[k]
                                  \/ xserv.does = "notifications" /\ rcvq'[k] = S!Note
  <2>1. CASE rcvq' = rcvq
    BY <1>1, <2>1
  <2>2. CASE xserv.does = "notifications" /\ rcvq' = Append(rcvq, S!Note)
    <3>1. rcvq' \in Seq(SctpMessages) /\ SentTo(rcvq, rcvq', S!Note)
      BY <1>1, <1>2, <2>2, SeqFacts DEF SentTo
    <3>2. QED BY <1>1, <2>2, <3>1, SentToIs
  <2>3. QED BY <2>1, <2>2
<1>7. S!OutStrms' = S!OutStrms /\ S!Note' = S!Note /\ S!Nobody' = S!Nobody
  BY DEF S!OutStrms, S!Note, S!Nobody
<1>8. Clean' => Clean /\ (xcpc[h] = "type" \/ xserv.does # "pdapi")
  <2>1. S!Aborted => S!Aborted'
    BY <1>3 DEF S!Aborted
  <2>2. ends[h] = "abort" => S!Aborted'
    BY <1>3 DEF S!Aborted
  <2>3. QED BY <2>1, <2>2 DEF Clean
<1>9. SctpTypeOK'
  <2>1. /\ xup' \in [S!Clients -> Seq(SctpMessages)]
        /\ xcpc' \in [S!Clients -> {"type", "wait", "exit"}]
        /\ assoc' \in [S!Clients -> {"down", "up", "closing", "peeled", "gone"}]
    BY <1>1
  <2>2. xdown' \in [S!Clients -> Seq(SctpMessages)]
    BY <1>1
  <2>3. partial' \in {0, 1, 2}
    BY <1>0 DEF SctpTypeOK
  <2>4. QED BY <1>0, <1>6, <2>1, <2>2, <2>3 DEF SctpTypeOK
<1>10. Associations'
  <2>1. ASSUME NEW c \in S!Clients
        PROVE  /\ assoc'[c] = "gone" <=> xcpc'[c] = "exit"
               /\ assoc'[c] = "gone" => xup'[c] = <<>>
               /\ assoc'[c] = "peeled" => xserv.does = "peel off"
               /\ assoc'[c] = "closing" => xserv.does = "MSG_EOF"
               /\ xcli[c].all => xnsent[c] = 0 \/ xnsent[c] >= Strms
    <3>1. /\ assoc[c] = "gone" <=> xcpc[c] = "exit"
          /\ assoc[c] = "gone" => xup[c] = <<>>
          /\ assoc[c] = "peeled" => xserv.does = "peel off"
          /\ assoc[c] = "closing" => xserv.does = "MSG_EOF"
          /\ xcli[c].all => xnsent[c] = 0 \/ xnsent[c] >= Strms
      BY <1>0 DEF Associations
    <3>2. CASE c # h
      <4>1. assoc'[c] = assoc[c] /\ xcpc'[c] = xcpc[c] /\ xup'[c] = xup[c]
        BY <1>3, <3>2
      <4>2. QED BY ONLY <3>1, <4>1
    <3>3. CASE c = h
      <4>1. assoc'[c] = "gone" /\ xcpc'[c] = "exit" /\ xup'[c] = <<>>
        BY <1>3, <3>3
      <4>2. QED BY ONLY <3>1, <4>1
    <3>4. QED BY ONLY <3>2, <3>3
  <2>2. ASSUME NEW c \in S!Clients, assoc'[c] = "down"
        PROVE  xup'[c] = <<>> /\ (S!ClosedEarly(c)' \/ Away(c)')
    <3>1. c # h /\ assoc[c] = "down" /\ c # 0
      BY <1>3, <2>2 DEF S!Clients
    <3>2. xup[c] = <<>> /\ (S!ClosedEarly(c) \/ Away(c))
      BY <1>0, <3>1 DEF Associations
    <3>3. S!ClosedEarly(c)' <=> S!ClosedEarly(c)
      BY DEF S!ClosedEarly
    <3>4. Away(c) => Away(c)'
      BY <1>2, <1>6, <3>1 DEF Away
    <3>5. QED BY <1>3, <3>1, <3>2, <3>3, <3>4
  <2>3. xserv.does # "pdapi" => partial' = 0 /\ \A k \in 1..Len(rcvq') : rcvq'[k].eor
    BY <1>0, <1>2, <1>6 DEF Associations
  <2>4. partial' # 0 /\ assoc'[partial'] = "up" => xup'[partial'] # <<>>
    <3>1. partial' # 0 => partial' = partial /\ partial \in S!Clients
      BY <1>0 DEF SctpTypeOK, S!Clients
    <3>2. partial' # 0 /\ assoc'[partial] = "up" => assoc[partial] = "up" /\ xup'[partial] = xup[partial]
      BY <1>3, <3>1
    <3>3. QED BY <1>0, <3>1, <3>2 DEF Associations
  <2>5. QED BY <1>0, <2>1, <2>2, <2>3, <2>4 DEF Associations
<1>11. ToServer'
  <2>1. ASSUME NEW c \in S!Clients, NEW k \in 1..Len(xup'[c]) PROVE Piece(c, xup'[c][k]) /\ xup'[c][k].eor
    BY <1>0, <1>5, <2>1 DEF ToServer
  <2>2. ASSUME NEW c \in S!Clients, NEW k \in 1..Len(xdown'[c]) PROVE xdown'[c][k].s < S!OutStrms
    BY <1>0, <1>4, <2>2 DEF ToServer
  <2>3. ASSUME NEW k \in 1..Len(rcvq')
        PROVE  rcvq'[k] = S!Note \/ (rcvq'[k].c \in S!Clients /\ Piece(rcvq'[k].c, rcvq'[k]))
    BY <1>0, <1>6, <2>3 DEF ToServer
  <2>4. QED BY <1>0, <1>7, <2>1, <2>2, <2>3 DEF ToServer, Piece
<1>12. S!DiesOf'
  <2>1. /\ assoc[held.c] = "gone" => assoc'[held.c] = "gone"
        /\ assoc[held.c] = "down" => assoc'[held.c] \in {"gone", "down"}
    BY <1>1
  <2>2. S!ClosedEarly(held.c)' <=> S!ClosedEarly(held.c)
    BY DEF S!ClosedEarly
  <2>3. QED BY <1>0, <2>1, <2>2 DEF S!DiesOf
<1>13. ASSUME Clean' PROVE Pieces' /\ Replies' /\ InOnePlace' /\ Waits'
  <2>0. Clean /\ Pieces /\ Replies /\ InOnePlace /\ Waits
    BY <1>0, <1>8, <1>13
  <2>1. partial # 0 => partial # h
    <3>1. SUFFICES ASSUME partial # 0, partial = h PROVE FALSE
      OBVIOUS
    <3>2. xserv.does = "pdapi" /\ xcpc[h] = "type"
      BY <1>0, <1>8, <1>13, <3>1 DEF Associations
    <3>3. xup[h] # <<>>
      BY <1>0, <2>0, <3>1, LastPiece
    <3>4. 1 \in 1..Len(xup[h])
      <4>1. xup[h] \in Seq(SctpMessages)
        BY <1>1
      <4>2. QED BY <3>3, <4>1, TailIs
    <3>5. Piece(h, xup[h][1]) /\ xup[h][1].eor
      BY <1>0, <3>4 DEF ToServer
    <3>6. PICK n \in 1..xnsent[h] : xup[h][1].what = {<<h, n>>}
      BY <3>5 DEF Piece, PieceOf
    <3>7. n \in Nat /\ 1 \in Nat /\ "up" \in Wheres /\ "up" # "taken"
      BY <1>0 DEF SctpTypeOK, Wheres
    <3>8. At(h, n, "up", 1)
      BY <3>4, <3>5, <3>6 DEF At, Holds
    <3>9. QED BY <2>0, <3>2, <3>7, <3>8, Outstanding
  <2>2. partial' = partial /\ (partial # 0 => xup'[partial] = xup[partial])
    <3>1. partial # 0 => partial \in S!Clients
      BY <1>0 DEF SctpTypeOK, S!Clients
    <3>2. h # 0
      BY DEF S!Clients
    <3>3. QED BY <1>3, <2>1, <3>1, <3>2
  <2>3. Pieces'
    <3>1. CASE rcvq' = rcvq
      <4>1. rcvq # <<>> /\ ~rcvq[Len(rcvq)].eor => partial # 0
        <5>1. rcvq # <<>> => Len(rcvq) \in 1..Len(rcvq)
          BY <1>1
        <5>2. S!Note.eor /\ 0 \notin S!Clients
          BY <1>2 DEF S!Clients
        <5>3. QED BY <1>0, <2>0, <5>1, <5>2 DEF ToServer, Pieces
      <4>2. xpc = "recv" /\ held.c # 0 /\ rcvq = <<>> => partial # 0
        BY <2>0 DEF Pieces
      <4>3. QED BY <2>0, <2>2, <3>1, <4>1, <4>2 DEF Pieces, Piece, Rest
    <3>2. CASE rcvq' # rcvq
      <4>1. xserv.does # "pdapi" /\ partial = 0
        BY <1>0, <3>2 DEF Associations
      <4>2. \A k \in 1..Len(rcvq') : rcvq'[k].eor
        BY <1>10, <4>1 DEF Associations
      <4>3. Len(rcvq') \in Nat /\ (rcvq' # <<>> => Len(rcvq') \in 1..Len(rcvq')) /\ \A k \in 1 .. Len(rcvq') - 1 : k \in 1..Len(rcvq')
        BY <1>6
      <4>4. ~(xpc = "recv" /\ held.c # 0)
        BY <1>0, <4>1 DEF ToServer
      <4>5. QED BY <2>2, <4>1, <4>2, <4>3, <4>4 DEF Pieces
    <3>3. QED BY <3>1, <3>2
  <2>4. Replies'
    <3>1. ASSUME NEW c \in S!Clients, NEW k \in 1..Len(xdown'[c]) PROVE AnswerTo(c, xdown'[c][k])
      BY <1>4, <2>0, <3>1 DEF Replies
    <3>2. QED BY <1>7, <2>0, <3>1 DEF Replies, AnswerTo, Piece
  <2>5. InOnePlace'
    <3>1. ASSUME NEW c \in S!Clients, NEW n \in Nat, NEW w \in Wheres, NEW k \in Nat, At(c, n, w, k)'
          PROVE  At(c, n, w, k)
      <4>1. CASE w = "up"
        <5>1. k \in 1..Len(xup'[c]) /\ Holds(xup'[c][k], c, n)
          BY <3>1, <4>1 DEF At, Holds
        <5>2. QED BY <1>5, <4>1, <5>1 DEF At
      <4>2. CASE w = "down"
        <5>1. k \in 1..Len(xdown'[c]) /\ Holds(xdown'[c][k], c, n)
          BY <3>1, <4>2 DEF At, Holds
        <5>2. QED BY <1>4, <4>2, <5>1 DEF At
      <4>3. CASE w = "rcvq"
        <5>1. k \in 1..Len(rcvq') /\ Holds(rcvq'[k], c, n)
          BY <3>1, <4>3 DEF At, Holds
        <5>2. rcvq'[k] # S!Note
          BY <1>2, <5>1 DEF Holds
        <5>3. k \in 1..Len(rcvq) /\ rcvq'[k] = rcvq[k]
          BY <1>6, <5>1, <5>2
        <5>4. QED BY <4>3, <5>1, <5>3 DEF At
      <4>4. CASE w \notin {"up", "down", "rcvq"}
        BY <3>1, <4>4 DEF At, Holds
      <4>5. QED BY <4>1, <4>2, <4>3, <4>4
    <3>2. \A c \in S!Clients, n \in Nat, w, v \in Wheres, k, l \in Nat :
            At(c, n, w, k)' /\ At(c, n, v, l)' => w = v /\ k = l
      BY ONLY <2>0, <3>1 DEF InOnePlace
    <3>3. \A c \in S!Clients : \A k \in 1..Len(xdown'[c]) : xdown'[c][k].eor
      BY <1>4, <2>0 DEF InOnePlace
    <3>4. QED BY <2>0, <3>2, <3>3 DEF InOnePlace
  <2>6. Waits'
    <3>1. ASSUME NEW c \in S!Clients
          PROVE  /\ xcpc'[c] = "type" => Len(taken[c]) = xnsent[c]
                 /\ xcpc'[c] = "wait" /\ ~xcli[c].all => Len(taken[c]) = xnsent[c] - 1
      BY <1>3, <2>0 DEF Waits
    <3>2. ASSUME NEW c \in S!Clients, ~xcli[c].all, assoc'[c] = "closing"
          PROVE  xup'[c] = <<>> /\ (\A k \in 1..Len(rcvq') : rcvq'[k].c # c) /\ ~(xpc \in {"strms", "send"} /\ held.c = c)
      <4>1. c # h /\ assoc[c] = "closing" /\ c # 0
        BY <1>3, <3>2 DEF S!Clients
      <4>2. xup[c] = <<>> /\ (\A k \in 1..Len(rcvq) : rcvq[k].c # c) /\ ~(xpc \in {"strms", "send"} /\ held.c = c)
        BY <2>0, <3>2, <4>1 DEF Waits
      <4>3. QED BY <1>2, <1>3, <1>6, <4>1, <4>2
    <3>3. QED BY <3>1, <3>2 DEF Waits
  <2>7. QED BY <2>3, <2>4, <2>5, <2>6
<1>14. QED BY <1>9, <1>10, <1>11, <1>12, <1>13 DEF SctpInv

\* What a client sends for a line.
LEMMA MessageIs ==
  ASSUME SctpTypeOK, NEW c \in S!Clients, NEW s \in Nat, NEW n \in Nat
  PROVE  LET m == S!Message(c, s, n)
         IN  m \in SctpMessages /\ m.c = c /\ m.s = s /\ m.what = {<<c, n>>} /\ m.eor /\ ~m.note
<1>1. S!Message(c, s, n) = [c |-> c, s |-> s, u |-> xcli[c].unordered, what |-> {<<c, n>>}, eor |-> TRUE, note |-> FALSE]
  BY DEF S!Message
<1>2. xcli[c].unordered \in BOOLEAN
  <2>1. /\ S!sctp_strcli.unordered \in BOOLEAN /\ S!sctp_strcli1.unordered \in BOOLEAN
        /\ S!sctp_strcli_un.unordered \in BOOLEAN /\ S!sctp_strcliecho.unordered \in BOOLEAN
    BY DEF S!Client, S!sctp_strcli, S!sctp_strcli1, S!sctp_strcli_un, S!sctp_strcliecho
  <2>2. xcli[c] \in {S!sctp_strcli, S!sctp_strcli1, S!sctp_strcli_un, S!sctp_strcliecho}
    BY DEF SctpTypeOK
  <2>3. QED BY <2>1, <2>2
<1>3. c \in {0, 1, 2} /\ {<<c, n>>} \in SUBSET (S!Clients \X Nat)
  BY DEF S!Clients
<1>4. QED BY <1>1, <1>2, <1>3 DEF SctpMessages

\* The messages of a line and their numbers.
NewLines(c, s) ==
  IF xcli[c].all THEN [i \in 1..Strms |-> S!Message(c, i - 1, xnsent[c] + i)]
  ELSE <<S!Message(c, s, xnsent[c] + 1)>>

Many(c) == IF xcli[c].all THEN Strms ELSE 1

NewOnes(c, new, many) ==
  /\ new \in Seq(SctpMessages) /\ Len(new) = many
  /\ \A k \in 1..many :
       /\ new[k].c = c /\ new[k].what = {<<c, xnsent[c] + k>>} /\ new[k].eor /\ ~new[k].note
       /\ new[k].s \in 0 .. Strms - 1 /\ (xcli[c].all => new[k].s = k - 1)

LEMMA LinesAre ==
  ASSUME SctpTypeOK, NEW c \in S!Clients, NEW s \in 0 .. Strms - 1
  PROVE  Many(c) \in Nat /\ Many(c) > 0 /\ (xcli[c].all => Many(c) = Strms) /\ (~xcli[c].all => Many(c) = 1)
         /\ NewOnes(c, NewLines(c, s), Many(c))
<1>1. Strms \in Nat /\ Strms > 0 /\ xcli[c].all \in BOOLEAN /\ xnsent[c] \in Nat
  BY SctpFacts DEF SctpTypeOK
<1>2. Many(c) \in Nat /\ Many(c) > 0 /\ (xcli[c].all => Many(c) = Strms) /\ (~xcli[c].all => Many(c) = 1)
  BY <1>1 DEF Many
<1>3. CASE xcli[c].all
  <2> DEFINE new == [i \in 1..Strms |-> S!Message(c, i - 1, xnsent[c] + i)]
  <2>1. \A i \in 1..Strms : i - 1 \in Nat /\ xnsent[c] + i \in Nat /\ i - 1 \in 0 .. Strms - 1
    BY <1>1
  <2>2. \A i \in 1..Strms : LET m == S!Message(c, i - 1, xnsent[c] + i)
          IN m \in SctpMessages /\ m.c = c /\ m.s = i - 1 /\ m.what = {<<c, xnsent[c] + i>>} /\ m.eor /\ ~m.note
    BY <2>1, MessageIs
  <2>3. new \in Seq(SctpMessages) /\ Len(new) = Strms /\ \A i \in 1..Strms : new[i] = S!Message(c, i - 1, xnsent[c] + i)
    BY <1>1, <2>2
  <2> HIDE DEF new
  <2>4. NewLines(c, s) = new
    BY <1>3 DEF NewLines, new
  <2>5. NewOnes(c, new, Strms)
    BY <2>1, <2>2, <2>3 DEF NewOnes
  <2>6. QED BY <1>2, <1>3, <2>4, <2>5
<1>4. CASE ~xcli[c].all
  <2> DEFINE m == S!Message(c, s, xnsent[c] + 1)
  <2>1. s \in Nat /\ xnsent[c] + 1 \in Nat
    BY <1>1
  <2>2. m \in SctpMessages /\ m.c = c /\ m.s = s /\ m.what = {<<c, xnsent[c] + 1>>} /\ m.eor /\ ~m.note
    BY <2>1, MessageIs
  <2> HIDE DEF m
  <2>3. <<m>> \in Seq(SctpMessages) /\ Len(<<m>>) = 1 /\ <<m>>[1] = m
    BY <2>2
  <2>4. NewLines(c, s) = <<m>>
    BY <1>4 DEF NewLines, m
  <2>5. \A k \in 1..1 : k = 1
    OBVIOUS
  <2>6. NewOnes(c, <<m>>, 1)
    BY <1>4, <2>2, <2>3, <2>5 DEF NewOnes
  <2>7. QED BY <1>2, <1>4, <2>4, <2>6
<1>5. QED BY <1>1, <1>3, <1>4

\* What a client has sent before stays what it was when it sends more.
LEMMA MoreSent ==
  ASSUME NEW x \in Nat, NEW y \in Nat, x <= y, NEW c, NEW m, NEW all, NEW next, NEW out
  PROVE  /\ PieceOf(c, m, x, all) => PieceOf(c, m, y, all)
         /\ ReplyOf(c, m, x, all, next, out) => ReplyOf(c, m, y, all, next, out)
<1>1. \A n \in 1..x : n \in 1..y
  OBVIOUS
<1>2. PieceOf(c, m, x, all) => PieceOf(c, m, y, all)
  BY <1>1 DEF PieceOf
<1>3. ReplyOf(c, m, x, all, next, out) => ReplyOf(c, m, y, all, next, out)
  BY <1>1 DEF ReplyOf
<1>4. QED BY <1>2, <1>3

LEMMA SctpSendsLine ==
  ASSUME SctpInv, NEW h \in S!Clients, xcpc[h] = "type", assoc[h] # "closing", xpc # "dead",
         NEW s \in 0 .. Strms - 1, xup' = [xup EXCEPT ![h] = xup[h] \o NewLines(h, s)],
         xnsent' = [xnsent EXCEPT ![h] = xnsent[h] + Len(NewLines(h, s))], xcpc' = [xcpc EXCEPT ![h] = "wait"],
         \/ /\ assoc[h] = "down" /\ assoc' = [assoc EXCEPT ![h] = "up"]
            /\ rcvq' = IF xserv.does = "notifications" THEN Append(rcvq, S!Note) ELSE rcvq
         \/ assoc[h] # "down" /\ assoc' = assoc /\ rcvq' = rcvq,
         UNCHANGED <<xserv, incr, strict, xcli, ends, partial, xpc, held, childq, xdown, taken>>
  PROVE  SctpInv'
<1>0. SctpTypeOK /\ Associations /\ ToServer /\ S!DiesOf /\ (Clean => Pieces /\ Replies /\ InOnePlace /\ Waits)
  BY DEF SctpInv
<1> DEFINE new == NewLines(h, s)
           many == Many(h)
           old == xup[h]
<1>1. /\ xup \in [S!Clients -> Seq(SctpMessages)] /\ old \in Seq(SctpMessages) /\ Len(old) \in Nat
      /\ xcpc \in [S!Clients -> {"type", "wait", "exit"}] /\ rcvq \in Seq(SctpMessages) /\ Len(rcvq) \in Nat
      /\ assoc \in [S!Clients -> {"down", "up", "closing", "peeled", "gone"}]
      /\ xnsent \in [S!Clients -> Nat] /\ xnsent[h] \in Nat
  BY <1>0 DEF SctpTypeOK
<1>2. /\ many \in Nat /\ many > 0 /\ (xcli[h].all => many = Strms) /\ (~xcli[h].all => many = 1)
      /\ NewOnes(h, new, many)
  BY <1>0, LinesAre
<1>3. /\ new \in Seq(SctpMessages) /\ Len(new) = many
      /\ \A k \in 1..many :
           /\ new[k].c = h /\ new[k].what = {<<h, xnsent[h] + k>>} /\ new[k].eor /\ ~new[k].note
           /\ new[k].s \in 0 .. Strms - 1 /\ (xcli[h].all => new[k].s = k - 1)
  BY <1>2 DEF NewOnes
<1> HIDE DEF new, many
<1>4. /\ S!Note \in SctpMessages /\ S!Note.c = 0 /\ S!Note.note /\ S!Note.eor /\ S!Note.what = {}
      /\ Strms \in Nat /\ Strms > 0
  BY <1>0, SctpFacts
<1> DEFINE q == old \o new
<1>5. /\ q \in Seq(SctpMessages) /\ Len(q) = Len(old) + many
      /\ \A k \in 1..Len(old) : k \in 1..Len(q) /\ q[k] = old[k]
      /\ \A k \in 1..Len(q) : k <= Len(old) \/ (k - Len(old) \in 1..many /\ q[k] = new[k - Len(old)])
  <2>1. /\ q \in Seq(SctpMessages) /\ Len(q) = Len(old) + Len(new)
        /\ \A k \in 1 .. Len(old) + Len(new) : q[k] = IF k <= Len(old) THEN old[k] ELSE new[k - Len(old)]
    <3>1. old \in Seq(SctpMessages) /\ new \in Seq(SctpMessages)
      BY <1>1, <1>3
    <3> HIDE DEF old
    <3>2. QED BY ONLY <3>1, ConcatProperties
  <2> HIDE DEF q
  <2>2. \A k \in 1..Len(old) : k \in 1..Len(q) /\ q[k] = old[k]
    BY <1>1, <1>2, <1>3, <2>1
  <2>3. \A k \in 1..Len(q) : k <= Len(old) \/ (k - Len(old) \in 1..many /\ q[k] = new[k - Len(old)])
    BY <1>1, <1>2, <1>3, <2>1
  <2>4. QED BY <1>3, <2>1, <2>2, <2>3
<1> HIDE DEF q
<1>6. \A c \in S!Clients : /\ xup'[c] = IF c = h THEN q ELSE xup[c]
                           /\ xcpc'[c] = IF c = h THEN "wait" ELSE xcpc[c]
                           /\ xnsent'[c] = IF c = h THEN xnsent[h] + many ELSE xnsent[c]
  <2>1. DOMAIN xup = S!Clients /\ DOMAIN xcpc = S!Clients /\ DOMAIN xnsent = S!Clients
    BY <1>1
  <2>2. xup' = [xup EXCEPT ![h] = q] /\ xnsent' = [xnsent EXCEPT ![h] = xnsent[h] + many]
    BY <1>3 DEF q, new
  <2>3. QED BY <2>1, <2>2
<1>7. \A c \in S!Clients : assoc'[c] = assoc[c] \/ (c = h /\ assoc[c] = "down" /\ assoc'[c] = "up")
  BY <1>1
<1>8. assoc'[h] \notin {"down", "closing", "gone"} /\ assoc[h] # "gone"
  <2>1. assoc[h] # "gone"
    BY <1>0 DEF Associations
  <2>2. QED BY <1>1, <2>1
<1>9. /\ rcvq' \in Seq(SctpMessages)
      /\ \A k \in 1..Len(rcvq') : \/ k \in 1..Len(rcvq) /\ rcvq'[k] = rcvq[k]
                                  \/ xserv.does = "notifications" /\ rcvq'[k] = S!Note
      /\ rcvq' = rcvq \/ xserv.does = "notifications"
  <2>1. CASE rcvq' = rcvq
    BY <1>1, <2>1
  <2>2. CASE xserv.does = "notifications" /\ rcvq' = Append(rcvq, S!Note)
    <3>1. rcvq' \in Seq(SctpMessages) /\ SentTo(rcvq, rcvq', S!Note)
      BY <1>1, <1>4, <2>2, SeqFacts DEF SentTo
    <3>2. QED BY <1>1, <2>2, <3>1, SentToIs
  <2>3. QED BY <2>1, <2>2
<1>10. \A c \in S!Clients : xnsent[c] \in Nat /\ xnsent'[c] \in Nat /\ xnsent[c] <= xnsent'[c]
  BY <1>1, <1>2, <1>6
<1>11. \A c \in S!Clients : \A m : Piece(c, m) => PieceOf(c, m, xnsent'[c], xcli[c].all)
  BY <1>10, MoreSent DEF Piece
<1>12. \A c \in S!Clients : \A m : AnswerTo(c, m) =>
         ReplyOf(c, m, xnsent'[c], xcli[c].all /\ xserv.does # "peel off", incr, S!OutStrms)
  BY <1>10, MoreSent DEF AnswerTo
<1>13. S!OutStrms' = S!OutStrms /\ (Clean' <=> Clean) /\ S!Note' = S!Note /\ S!Nobody' = S!Nobody
  <2>1. \A c \in S!Clients : assoc'[c] = "gone" <=> assoc[c] = "gone"
    BY <1>7, <1>8
  <2>2. S!Aborted' <=> S!Aborted
    BY <2>1 DEF S!Aborted
  <2>3. QED BY <2>2 DEF S!OutStrms, Clean, S!Note, S!Nobody
<1>14. \A k \in 1..many : PieceOf(h, new[k], xnsent'[h], xcli[h].all)
  <2>1. ASSUME NEW k \in 1..many PROVE PieceOf(h, new[k], xnsent'[h], xcli[h].all)
    <3>1. xnsent[h] + k \in 1..xnsent'[h] /\ k \in Nat
      BY <1>1, <1>2, <1>6
    <3>2. xcli[h].all /\ xnsent[h] + k <= Strms => xnsent[h] = 0
      <4>1. xcli[h].all => xnsent[h] = 0 \/ xnsent[h] >= Strms
        BY <1>0 DEF Associations
      <4>2. k >= 1
        BY <1>2
      <4>3. QED BY <1>1, <1>4, <3>1, <4>1, <4>2
    <3>3. new[k].s < Strms
      BY <1>3, <1>4
    <3>4. xcli[h].all /\ xnsent[h] + k <= Strms => new[k].s = (xnsent[h] + k) - 1
      BY <1>3, <3>1, <3>2
    <3>5. QED BY <1>3, <3>1, <3>3, <3>4 DEF PieceOf
  <2>2. QED BY <2>1
<1>15. SctpTypeOK'
  <2>1. /\ xcpc' \in [S!Clients -> {"type", "wait", "exit"}]
        /\ assoc' \in [S!Clients -> {"down", "up", "closing", "peeled", "gone"}]
    BY <1>1
  <2>2. xup' \in [S!Clients -> Seq(SctpMessages)]
    <3>1. xup' = [xup EXCEPT ![h] = q]
      BY DEF q, new
    <3>2. QED BY <1>1, <1>5, <3>1
  <2>3. xnsent' \in [S!Clients -> Nat]
    <3>1. xnsent' = [xnsent EXCEPT ![h] = xnsent[h] + many] /\ xnsent[h] + many \in Nat
      BY <1>1, <1>2, <1>3 DEF new
    <3>2. QED BY <1>1, <3>1
  <2>4. QED BY <1>0, <1>9, <2>1, <2>2, <2>3 DEF SctpTypeOK
<1>16. Associations'
  <2>1. ASSUME NEW c \in S!Clients
        PROVE  /\ assoc'[c] = "gone" <=> xcpc'[c] = "exit"
               /\ assoc'[c] = "gone" => xup'[c] = <<>>
               /\ assoc'[c] = "peeled" => xserv.does = "peel off"
               /\ assoc'[c] = "closing" => xserv.does = "MSG_EOF"
               /\ xcli[c].all => xnsent'[c] = 0 \/ xnsent'[c] >= Strms
    <3>1. /\ assoc[c] = "gone" <=> xcpc[c] = "exit"
          /\ assoc[c] = "gone" => xup[c] = <<>>
          /\ assoc[c] = "peeled" => xserv.does = "peel off"
          /\ assoc[c] = "closing" => xserv.does = "MSG_EOF"
          /\ xcli[c].all => xnsent[c] = 0 \/ xnsent[c] >= Strms
      BY <1>0 DEF Associations
    <3>2. CASE c # h
      <4>1. assoc'[c] = assoc[c] /\ xcpc'[c] = xcpc[c] /\ xup'[c] = xup[c] /\ xnsent'[c] = xnsent[c]
        BY <1>6, <1>7, <3>2
      <4>2. QED BY ONLY <3>1, <4>1
    <3>3. CASE c = h
      <4>1. xcli[c].all => xnsent'[c] >= Strms
        BY <1>1, <1>2, <1>4, <1>6, <3>3
      <4>2. xcpc'[c] = "wait" /\ (assoc'[c] = assoc[c] \/ assoc'[c] = "up")
        BY <1>6, <1>7, <3>3
      <4>3. QED BY <1>8, <3>1, <3>3, <4>1, <4>2
    <3>4. QED BY ONLY <3>2, <3>3
  <2>2. ASSUME NEW c \in S!Clients, assoc'[c] = "down"
        PROVE  xup'[c] = <<>> /\ (S!ClosedEarly(c)' \/ Away(c)')
    <3>1. c # h /\ assoc[c] = "down" /\ c # 0
      BY <1>7, <1>8, <2>2 DEF S!Clients
    <3>2. xup[c] = <<>> /\ (S!ClosedEarly(c) \/ Away(c))
      BY <1>0, <3>1 DEF Associations
    <3>3. S!ClosedEarly(c)' <=> S!ClosedEarly(c)
      BY DEF S!ClosedEarly
    <3>4. Away(c) => Away(c)'
      BY <1>4, <1>9, <3>1 DEF Away
    <3>5. QED BY <1>6, <3>1, <3>2, <3>3, <3>4
  <2>3. xserv.does # "pdapi" => partial = 0 /\ \A k \in 1..Len(rcvq') : rcvq'[k].eor
    BY <1>0, <1>4, <1>9 DEF Associations
  <2>4. partial # 0 /\ assoc'[partial] = "up" => xup'[partial] # <<>>
    <3>1. partial # 0 => partial \in S!Clients
      BY <1>0 DEF SctpTypeOK, S!Clients
    <3>2. CASE partial = h
      <4>1. q # <<>>
        <5>1. Len(q) # 0
          BY <1>1, <1>2, <1>5
        <5>2. QED BY <5>1
      <4>2. QED BY <1>6, <3>2, <4>1
    <3>3. CASE partial # h
      BY <1>0, <1>6, <1>7, <3>1, <3>3 DEF Associations
    <3>4. QED BY <3>2, <3>3
  <2>5. QED BY <1>0, <2>1, <2>2, <2>3, <2>4 DEF Associations
<1>17. ToServer'
  <2>1. ASSUME NEW c \in S!Clients, NEW k \in 1..Len(xup'[c])
        PROVE  PieceOf(c, xup'[c][k], xnsent'[c], xcli[c].all) /\ xup'[c][k].eor
    <3>1. CASE c # h
      BY <1>0, <1>6, <1>11, <2>1, <3>1 DEF ToServer
    <3>2. CASE c = h
      <4>1. k \in 1..Len(q) /\ xup'[c][k] = q[k]
        BY <1>6, <2>1, <3>2
      <4>2. CASE k <= Len(old)
        <5>1. k \in 1..Len(old) /\ q[k] = old[k]
          BY <1>1, <1>5, <4>1, <4>2
        <5>2. QED BY <1>0, <1>11, <3>2, <4>1, <5>1 DEF ToServer
      <4>3. CASE k - Len(old) \in 1..many /\ q[k] = new[k - Len(old)]
        BY <1>3, <1>14, <3>2, <4>1, <4>3
      <4>4. QED BY <1>5, <4>1, <4>2, <4>3
    <3>3. QED BY <3>1, <3>2
  <2>2. ASSUME NEW c \in S!Clients, NEW k \in 1..Len(childq[c])
        PROVE  PieceOf(c, childq[c][k], xnsent'[c], xcli[c].all) /\ childq[c][k].eor
    BY <1>0, <1>11, <2>2 DEF ToServer
  <2>3. ASSUME NEW k \in 1..Len(rcvq')
        PROVE  \/ rcvq'[k] = S!Note
               \/ rcvq'[k].c \in S!Clients /\ PieceOf(rcvq'[k].c, rcvq'[k], xnsent'[rcvq'[k].c], xcli[rcvq'[k].c].all)
    BY <1>0, <1>9, <1>11, <2>3 DEF ToServer
  <2>4. QED BY <1>0, <1>13, <2>1, <2>2, <2>3 DEF ToServer, Piece
<1>18. S!DiesOf'
  BY DEF S!DiesOf
<1>19. ASSUME Clean PROVE Pieces' /\ Replies' /\ InOnePlace' /\ Waits'
  <2>0. Pieces /\ Replies /\ InOnePlace /\ Waits
    BY <1>0, <1>19
  <2>1. Pieces'
    <3>1. CASE rcvq' = rcvq
      <4>1. partial # 0 => partial \in S!Clients /\ xup[partial] # <<>>
        BY <1>0, <2>0, LastPiece
      <4>2. partial # 0 => xup'[partial] # <<>> /\ xup'[partial][1] = xup[partial][1]
        <5>1. CASE partial = h
          <6>1. partial # 0 => 1 \in 1..Len(old)
            BY <1>1, <4>1, <5>1, TailIs
          <6>2. partial # 0 => 1 \in 1..Len(q) /\ q[1] = old[1]
            BY <1>5, <6>1
          <6>3. 1 \in 1..Len(q) => q # <<>>
            BY <1>5
          <6>4. QED BY <1>6, <5>1, <6>2, <6>3
        <5>2. CASE partial # h
          BY <1>6, <4>1, <5>2
        <5>3. QED BY <5>1, <5>2
      <4>3. rcvq # <<>> /\ ~rcvq[Len(rcvq)].eor => partial # 0
        <5>1. rcvq # <<>> => Len(rcvq) \in 1..Len(rcvq)
          BY <1>1
        <5>2. S!Note.eor /\ 0 \notin S!Clients
          BY <1>4 DEF S!Clients
        <5>3. QED BY <1>0, <2>0, <5>1, <5>2 DEF ToServer, Pieces
      <4>4. xpc = "recv" /\ held.c # 0 => held.c \in S!Clients
        BY <1>0 DEF SctpTypeOK, SctpMessages, S!Clients
      <4>5. xpc = "recv" /\ held.c # 0 => PieceOf(held.c, held, xnsent'[held.c], xcli[held.c].all)
        BY <1>11, <2>0, <4>4 DEF Pieces
      <4>6. xpc = "recv" /\ held.c # 0 /\ rcvq = <<>> => partial # 0
        BY <2>0, <4>4 DEF Pieces, S!Clients
      <4>7. QED BY <2>0, <3>1, <4>2, <4>3, <4>5, <4>6 DEF Pieces, Piece, Rest
    <3>2. CASE xserv.does = "notifications"
      <4>1. xserv.does # "pdapi" /\ partial = 0
        BY <1>0, <3>2 DEF Associations
      <4>2. \A k \in 1..Len(rcvq') : rcvq'[k].eor
        BY <1>16, <4>1 DEF Associations
      <4>3. Len(rcvq') \in Nat /\ (rcvq' # <<>> => Len(rcvq') \in 1..Len(rcvq')) /\ \A k \in 1 .. Len(rcvq') - 1 : k \in 1..Len(rcvq')
        BY <1>9
      <4>4. ~(xpc = "recv" /\ held.c # 0)
        BY <1>0, <4>1 DEF ToServer
      <4>5. QED BY <4>1, <4>2, <4>3, <4>4 DEF Pieces
    <3>3. QED BY <1>9, <3>1, <3>2
  <2>2. Replies'
    <3>1. xpc \in {"strms", "send"} => held.c \in S!Clients
      BY <1>0 DEF ToServer
    <3>2. xpc = "strms" => PieceOf(held.c, held, xnsent'[held.c], xcli[held.c].all)
      BY <1>11, <2>0, <3>1 DEF Replies
    <3>3. xpc = "send" => ReplyOf(held.c, held, xnsent'[held.c], xcli[held.c].all /\ xserv.does # "peel off", incr, S!OutStrms)
      BY <1>12, <2>0, <3>1 DEF Replies
    <3>4. ASSUME NEW c \in S!Clients, NEW k \in 1..Len(xdown[c])
          PROVE  ReplyOf(c, xdown[c][k], xnsent'[c], xcli[c].all /\ xserv.does # "peel off", incr, S!OutStrms)
      BY <1>12, <2>0, <3>4 DEF Replies
    <3>5. ASSUME NEW c \in S!Clients, NEW k \in 1..Len(taken[c])
          PROVE  /\ ReplyOf(c, taken[c][k], xnsent'[c], xcli[c].all /\ xserv.does # "peel off", incr, S!OutStrms)
                 /\ ~xcli[c].all => taken[c][k].what = {<<c, k>>}
      BY <1>12, <2>0, <3>5 DEF Replies
    <3>6. \A c, m : /\ PieceOf(c, m, xnsent'[c], xcli'[c].all) <=> PieceOf(c, m, xnsent'[c], xcli[c].all)
                    /\ ReplyOf(c, m, xnsent'[c], xcli'[c].all /\ xserv'.does # "peel off", incr', S!OutStrms')
                       <=> ReplyOf(c, m, xnsent'[c], xcli[c].all /\ xserv.does # "peel off", incr, S!OutStrms)
      BY <1>13
    <3>7. (xpc' = "strms" => Piece(held.c, held)') /\ (xpc' = "send" => AnswerTo(held.c, held)')
      BY <3>2, <3>3, <3>6 DEF Piece, AnswerTo
    <3>8. \A c \in S!Clients : \A k \in 1..Len(xdown'[c]) : AnswerTo(c, xdown[c][k])'
      BY <3>4, <3>6 DEF AnswerTo
    <3>9. \A c \in S!Clients : \A k \in 1..Len(taken'[c]) :
            AnswerTo(c, taken[c][k])' /\ (~xcli'[c].all => taken'[c][k].what = {<<c, k>>})
      BY <3>5, <3>6 DEF AnswerTo
    <3>10. QED BY <3>7, <3>8, <3>9 DEF Replies
  <2>3. InOnePlace'
    <3>1. ASSUME NEW c \in S!Clients, NEW n \in Nat, NEW w \in Wheres, NEW k \in Nat, At(c, n, w, k)'
          PROVE  \/ At(c, n, w, k) /\ n <= xnsent[c]
                 \/ c = h /\ w = "up" /\ k \in Nat /\ n = xnsent[h] + (k - Len(old)) /\ n > xnsent[h]
      <4>1. At(c, n, w, k) => n <= xnsent[c]
        BY <1>1, <1>10, <1>19, Numbered
      <4>2. CASE w = "up" /\ c = h
        <5>1. k \in 1..Len(q) /\ Holds(q[k], c, n)
          BY <1>6, <3>1, <4>2 DEF At, Holds
        <5>2. CASE k <= Len(old)
          <6>1. k \in 1..Len(old) /\ q[k] = old[k]
            BY <1>1, <1>5, <5>1, <5>2
          <6>2. At(c, n, w, k)
            BY <4>2, <5>1, <6>1 DEF At
          <6>3. QED BY <4>1, <6>2
        <5>3. CASE k - Len(old) \in 1..many /\ q[k] = new[k - Len(old)]
          <6>1. new[k - Len(old)].what = {<<h, xnsent[h] + (k - Len(old))>>}
            BY <1>3, <5>3
          <6>2. n = xnsent[h] + (k - Len(old))
            BY <4>2, <5>1, <5>3, <6>1 DEF Holds
          <6>3. QED BY <1>1, <4>2, <5>3, <6>2
        <5>4. QED BY <1>5, <5>1, <5>2, <5>3
      <4>3. CASE w = "rcvq"
        <5>1. k \in 1..Len(rcvq') /\ Holds(rcvq'[k], c, n)
          BY <3>1, <4>3 DEF At, Holds
        <5>2. rcvq'[k] # S!Note
          BY <1>4, <5>1 DEF Holds
        <5>3. k \in 1..Len(rcvq) /\ rcvq'[k] = rcvq[k]
          BY <1>9, <5>1, <5>2
        <5>4. At(c, n, w, k)
          BY <4>3, <5>1, <5>3 DEF At
        <5>5. QED BY <4>1, <5>4
      <4>4. CASE w \notin {"up", "rcvq"} \/ (w = "up" /\ c # h)
        <5>1. At(c, n, w, k)
          BY <1>6, <3>1, <4>4 DEF At, Holds
        <5>2. QED BY <4>1, <5>1
      <4>5. QED BY <4>2, <4>3, <4>4
    <3>2. ASSUME NEW c \in S!Clients, NEW n \in Nat, NEW w \in Wheres, NEW v \in Wheres, NEW k \in Nat, NEW l \in Nat,
                 At(c, n, w, k)', At(c, n, v, l)'
          PROVE  w = v /\ k = l
      <4>1. \A p, y \in Wheres, i, j \in Nat : At(c, n, p, i) /\ At(c, n, y, j) => p = y /\ i = j
        BY <2>0 DEF InOnePlace
      <4>2. \/ At(c, n, w, k) /\ n <= xnsent[c]
            \/ c = h /\ w = "up" /\ k \in Nat /\ n = xnsent[h] + (k - Len(old)) /\ n > xnsent[h]
        BY <3>1, <3>2
      <4>3. \/ At(c, n, v, l) /\ n <= xnsent[c]
            \/ c = h /\ v = "up" /\ l \in Nat /\ n = xnsent[h] + (l - Len(old)) /\ n > xnsent[h]
        BY <3>1, <3>2
      <4>4. CASE n <= xnsent[c]
        BY <1>1, <4>1, <4>2, <4>3, <4>4
      <4>5. CASE n > xnsent[c]
        <5>1. w = "up" /\ v = "up" /\ n = xnsent[h] + (k - Len(old)) /\ n = xnsent[h] + (l - Len(old))
          BY <1>10, <4>2, <4>3, <4>5
        <5>2. QED BY <1>1, <5>1
      <4>6. QED BY <1>10, <4>4, <4>5
    <3>3. QED BY <2>0, <3>2 DEF InOnePlace
  <2>4. Waits'
    <3>1. ASSUME NEW c \in S!Clients
          PROVE  /\ xcpc'[c] = "type" => Len(taken[c]) = xnsent'[c]
                 /\ xcpc'[c] = "wait" /\ ~xcli[c].all => Len(taken[c]) = xnsent'[c] - 1
      <4>1. CASE c # h
        BY <1>6, <2>0, <4>1 DEF Waits
      <4>2. CASE c = h
        <5>1. Len(taken[h]) = xnsent[h]
          BY <2>0 DEF Waits
        <5>2. ~xcli[h].all => xnsent'[h] = xnsent[h] + 1
          BY <1>2, <1>6
        <5>3. xcpc'[h] = "wait"
          BY <1>6
        <5>4. QED BY <1>1, <4>2, <5>1, <5>2, <5>3
      <4>3. QED BY <4>1, <4>2
    <3>2. ASSUME NEW c \in S!Clients, ~xcli[c].all, assoc'[c] = "closing"
          PROVE  xup'[c] = <<>> /\ (\A k \in 1..Len(rcvq') : rcvq'[k].c # c) /\ ~(xpc \in {"strms", "send"} /\ held.c = c)
      <4>1. c # h /\ assoc[c] = "closing" /\ c # 0
        BY <1>7, <1>8, <3>2 DEF S!Clients
      <4>2. xup[c] = <<>> /\ (\A k \in 1..Len(rcvq) : rcvq[k].c # c) /\ ~(xpc \in {"strms", "send"} /\ held.c = c)
        BY <2>0, <3>2, <4>1 DEF Waits
      <4>3. QED BY <1>4, <1>6, <1>9, <4>1, <4>2
    <3>3. QED BY <3>1, <3>2 DEF Waits
  <2>5. QED BY <2>1, <2>2, <2>3, <2>4
<1>20. QED BY <1>13, <1>15, <1>16, <1>17, <1>18, <1>19 DEF SctpInv

LEMMA SctpDelivers == ASSUME SctpInv, NEW h \in S!Clients, S!Deliver(h) PROVE SctpInv'
<1>1. /\ assoc[h] \in {"up", "closing", "peeled"} /\ partial = 0
      /\ UNCHANGED <<xserv, incr, strict, xcli, ends, assoc, xpc, held, xdown, xcpc, xnsent, nlines, taken>>
  BY DEF S!Deliver, S!conf, S!client
<1>2. PICK i \in S!Ready(xup[h]) :
        \/ S!Arrives(h, xup[h][i]) /\ xup' = [xup EXCEPT ![h] = S!RemoveAt(xup[h], i)] /\ UNCHANGED partial
        \/ /\ xserv.does = "pdapi" /\ S!Arrives(h, Cut(xup[h][i])) /\ partial' = h
           /\ xup' = [xup EXCEPT ![h] = <<xup[h][i]>> \o S!RemoveAt(xup[h], i)]
  BY DEF S!Deliver, Cut
<1>3. i \in 1..Len(xup[h])
  <2>1. i \in DOMAIN xup[h]
    BY <1>2 DEF S!Ready
  <2>2. xup[h] \in Seq(SctpMessages)
    BY DEF SctpInv, SctpTypeOK
  <2>3. QED BY <2>1, <2>2
<1>4. CASE /\ S!Arrives(h, xup[h][i]) /\ xup' = [xup EXCEPT ![h] = S!RemoveAt(xup[h], i)] /\ UNCHANGED partial
  BY <1>1, <1>3, <1>4, SctpDeliver
<1>5. CASE /\ xserv.does = "pdapi" /\ S!Arrives(h, Cut(xup[h][i])) /\ partial' = h
           /\ xup' = [xup EXCEPT ![h] = <<xup[h][i]>> \o S!RemoveAt(xup[h], i)]
  BY <1>1, <1>3, <1>5, SctpDeliverPart
<1>6. QED BY <1>2, <1>4, <1>5

LEMMA SctpTypeLine == ASSUME SctpInv, NEW h \in S!Clients, S!TypeLine(h) PROVE SctpInv'
<1>1. xcpc[h] = "type" /\ UNCHANGED <<xserv, incr, strict, xcli, ends, partial, xpc, held, childq, xdown, taken>>
  BY DEF S!TypeLine, S!conf
<1>2. CASE xcpc' = [xcpc EXCEPT ![h] = "exit"] /\ assoc' = [assoc EXCEPT ![h] = "gone"]
           /\ xup' = [xup EXCEPT ![h] = <<>>] /\ UNCHANGED <<xnsent, rcvq>>
  BY <1>1, <1>2, SctpGoes
<1>3. CASE /\ assoc[h] # "closing" /\ xpc # "dead"
           /\ \E s \in 0 .. Strms - 1 :
                /\ xup' = [xup EXCEPT ![h] = xup[h] \o NewLines(h, s)]
                /\ xnsent' = [xnsent EXCEPT ![h] = xnsent[h] + Len(NewLines(h, s))]
           /\ xcpc' = [xcpc EXCEPT ![h] = "wait"]
           /\ \/ /\ assoc[h] = "down" /\ assoc' = [assoc EXCEPT ![h] = "up"]
                 /\ rcvq' = IF xserv.does = "notifications" THEN Append(rcvq, S!Note) ELSE rcvq
              \/ assoc[h] # "down" /\ assoc' = assoc /\ rcvq' = rcvq
  BY <1>1, <1>3, SctpSendsLine
<1>4. QED BY <1>2, <1>3 DEF S!TypeLine, NewLines

LEMMA SctpLeave == ASSUME SctpInv, NEW h \in S!Clients, S!Leave(h) PROVE SctpInv'
<1>1. /\ xcpc[h] = "type" \/ (xcpc[h] = "wait" /\ ends[h] = "abort")
      /\ xcpc' = [xcpc EXCEPT ![h] = "exit"] /\ assoc' = [assoc EXCEPT ![h] = "gone"]
      /\ xup' = [xup EXCEPT ![h] = <<>>] /\ xdown' = [xdown EXCEPT ![h] = <<>>]
      /\ partial' = partial \/ (partial = h /\ partial' = 0)
      /\ rcvq' = rcvq \/ (xserv.does = "notifications" /\ rcvq' = Append(rcvq, S!Note))
      /\ UNCHANGED <<xserv, incr, strict, xcli, ends, xpc, held, childq, xnsent, taken>>
  BY DEF S!Leave, S!conf
<1>2. QED BY <1>1, SctpGoes

LEMMA SctpStep == ASSUME SctpInv, [S!Next]_(S!vars) PROVE SctpInv'
<1>1. CASE UNCHANGED S!vars
  <2>1. UNCHANGED <<xserv, incr, strict, xcli, ends, assoc, xup, rcvq, partial, xpc, held, childq, xdown, xcpc, xnsent, nlines, taken>>
    BY <1>1 DEF S!vars, S!conf, S!server, S!client
  <2>2. /\ S!OutStrms' = S!OutStrms /\ S!Note' = S!Note /\ S!Nobody' = S!Nobody /\ (Clean' <=> Clean)
        /\ SctpTypeOK' = SctpTypeOK /\ Associations' = Associations
    BY <2>1 DEF S!OutStrms, S!Note, S!Nobody, Clean, S!Aborted, SctpTypeOK, Associations, Away, S!ClosedEarly
  <2>3. \A c, m : (Piece(c, m)' <=> Piece(c, m)) /\ (AnswerTo(c, m)' <=> AnswerTo(c, m))
    BY <2>1, <2>2 DEF Piece, AnswerTo
  <2>4. \A c, n, w, k : At(c, n, w, k)' <=> At(c, n, w, k)
    BY <2>1 DEF At, Holds
  <2>5. ToServer => ToServer'
    BY <2>1, <2>2 DEF ToServer, Piece
  <2>6. Pieces => Pieces'
    BY <2>1 DEF Pieces, Piece, Rest
  <2>7. Replies => Replies'
    BY <2>1, <2>2 DEF Replies, Piece, AnswerTo
  <2>8. InOnePlace => InOnePlace'
    BY <2>1, <2>4 DEF InOnePlace
  <2>9. (Waits => Waits') /\ (S!DiesOf => S!DiesOf')
    BY <2>1 DEF Waits, S!DiesOf, S!ClosedEarly
  <2>10. QED BY <2>2, <2>5, <2>6, <2>7, <2>8, <2>9 DEF SctpInv
<1>2. CASE S!ServerStep
  BY <1>2, SctpRecvmsg, SctpGetNoStrms, SctpSendmsg, SctpPeeloff DEF S!ServerStep
<1>3. CASE S!DeliverRest
  BY <1>3, SctpDeliverRest
<1>4. ASSUME NEW c \in S!Clients, S!Network(c) \/ S!Ended(c) \/ S!TypeLine(c) \/ S!TakeReply(c) \/ S!Leave(c)
      PROVE  SctpInv'
  BY <1>4, SctpDelivers, SctpChildEcho, SctpEnded, SctpTypeLine, SctpTakeReply, SctpLeave DEF S!Network
<1>5. QED BY <1>1, <1>2, <1>3, <1>4 DEF S!Next

LEMMA SctpInit == ASSUME S!Init PROVE SctpInv
<1>1. /\ xserv \in S!Servers /\ incr \in {FALSE, xserv.increments} /\ strict \in BOOLEAN
      /\ (xserv # S!sctpserv03 => ~strict)
      /\ xcli \in [S!Clients -> {S!sctp_strcli, S!sctp_strcli1, S!sctp_strcli_un, S!sctp_strcliecho}]
      /\ ends \in [S!Clients -> {"close", "abort"}]
      /\ assoc = [c \in S!Clients |-> "down"] /\ xup = [c \in S!Clients |-> <<>>]
      /\ rcvq = <<>> /\ partial = 0 /\ xpc = "recv" /\ held = S!Nobody
      /\ childq = [c \in S!Clients |-> <<>>] /\ xdown = [c \in S!Clients |-> <<>>]
      /\ xcpc = [c \in S!Clients |-> "type"] /\ xnsent = [c \in S!Clients |-> 0]
      /\ taken = [c \in S!Clients |-> <<>>]
  BY DEF S!Init
<1>2. incr \in BOOLEAN /\ (incr => xserv.increments)
  <2>1. /\ S!sctpserv01.increments \in BOOLEAN /\ S!sctpserv02.increments \in BOOLEAN /\ S!sctpserv03.increments \in BOOLEAN
        /\ S!sctpserv04.increments \in BOOLEAN /\ S!sctpserv05.increments \in BOOLEAN /\ S!sctpserv06.increments \in BOOLEAN
        /\ S!sctpserv07.increments \in BOOLEAN /\ S!sctpserv_fork.increments \in BOOLEAN
    BY DEF S!Server, S!sctpserv01, S!sctpserv02, S!sctpserv03, S!sctpserv04, S!sctpserv05, S!sctpserv06,
           S!sctpserv07, S!sctpserv_fork
  <2>2. xserv \in {S!sctpserv01, S!sctpserv02, S!sctpserv03, S!sctpserv04, S!sctpserv05, S!sctpserv06,
                   S!sctpserv07, S!sctpserv_fork}
    BY <1>1 DEF S!Servers
  <2>3. xserv.increments \in BOOLEAN
    BY <2>1, <2>2
  <2>4. QED BY <1>1, <2>3
<1>3. /\ <<>> \in Seq(SctpMessages) /\ Len(<<>>) = 0
      /\ \A c \in S!Clients : assoc[c] = "down" /\ xup[c] = <<>> /\ childq[c] = <<>> /\ xdown[c] = <<>>
                              /\ xcpc[c] = "type" /\ xnsent[c] = 0 /\ taken[c] = <<>>
  BY <1>1
<1>4. SctpTypeOK
  <2>1. S!Nobody \in SctpMessages
    <3>1. S!Nobody = [c |-> 0, s |-> 0, u |-> FALSE, what |-> {}, eor |-> TRUE, note |-> FALSE]
      BY DEF S!Nobody
    <3>2. {} \in SUBSET (S!Clients \X Nat)
      OBVIOUS
    <3>3. QED BY <3>1, <3>2 DEF SctpMessages
  <2>2. /\ assoc \in [S!Clients -> {"down", "up", "closing", "peeled", "gone"}]
        /\ xup \in [S!Clients -> Seq(SctpMessages)] /\ childq \in [S!Clients -> Seq(SctpMessages)]
        /\ xdown \in [S!Clients -> Seq(SctpMessages)] /\ taken \in [S!Clients -> Seq(SctpMessages)]
        /\ xcpc \in [S!Clients -> {"type", "wait", "exit"}] /\ xnsent \in [S!Clients -> Nat]
    BY <1>1, <1>3
  <2>3. QED BY <1>1, <1>2, <1>3, <2>1, <2>2 DEF SctpTypeOK
<1>5. S!Nobody.c = 0 /\ S!Nobody.s = 0 /\ S!OutStrms > 0 /\ S!OutStrms \in Nat /\ 0 \notin S!Clients
  BY <1>4, SctpFacts DEF S!Clients
<1>6. Associations
  BY <1>1, <1>3, <1>5 DEF Associations, Away
<1>7. ToServer
  BY <1>1, <1>3, <1>5 DEF ToServer
<1>8. S!DiesOf
  BY <1>1 DEF S!DiesOf
<1>9. Pieces
  BY <1>1, <1>3, <1>5 DEF Pieces
<1>10. Replies
  BY <1>1, <1>3 DEF Replies
<1>11. InOnePlace
  <2>1. ASSUME NEW c \in S!Clients, NEW n \in Nat, NEW w \in Wheres, NEW k \in Nat, At(c, n, w, k) PROVE FALSE
    BY <1>1, <1>3, <2>1 DEF At
  <2>2. QED BY <1>1, <1>3, <2>1 DEF InOnePlace
<1>12. Waits
  BY <1>1, <1>3 DEF Waits
<1>13. QED BY <1>4, <1>6, <1>7, <1>8, <1>9, <1>10, <1>11, <1>12 DEF SctpInv

\* A client of the SCTP servers gets its own messages, none of them twice, and one that
\* waits for each answer the answer to its line; answers come on the streams the
\* server chooses; and a server dies only of a client that is gone, of one whose
\* association it has closed before it had read everything or, having closed after one
\* answer, of the next (sctpserv01.c to sctpserv07.c, sctpserv_fork.c). For every
\* number of streams and of lines.
THEOREM SctpAnswersAreOwn == S!Spec => []SctpRight
<1>1. ASSUME SctpInv PROVE SctpRight
  <2>0. SctpTypeOK /\ ToServer /\ S!DiesOf /\ (Clean => Replies /\ InOnePlace)
    BY <1>1 DEF SctpInv
  <2>1. Clean \/ (xserv.does = "pdapi" /\ S!Aborted)
    BY DEF Clean
  <2>2. DOMAIN xcli = S!Clients /\ \A c \in S!Clients : DOMAIN taken[c] = 1..Len(taken[c])
    BY <2>0 DEF SctpTypeOK
  <2>3. ASSUME NEW c \in S!Clients, NEW i \in DOMAIN taken[c]
        PROVE  LET m == taken[c][i]
               IN /\ m.what \subseteq {<<c, n>> : n \in 1..xnsent[c]} \/ (xserv.does = "pdapi" /\ S!Aborted)
                  /\ ~xcli[c].all /\ ~S!Aborted => m.what = {<<c, i>>}
                  /\ Clean => \A j \in DOMAIN taken[c] : j # i => m.what \cap taken[c][j].what = {}
    <3>1. i \in 1..Len(taken[c])
      BY <2>2
    <3>2. CASE Clean
      <4>1. AnswerTo(c, taken[c][i]) /\ (~xcli[c].all => taken[c][i].what = {<<c, i>>})
        BY <2>0, <3>1, <3>2 DEF Replies
      <4>2. PICK n \in 1..xnsent[c] : taken[c][i].what = {<<c, n>>}
        BY <4>1 DEF AnswerTo, ReplyOf
      <4>3. ASSUME NEW j \in DOMAIN taken[c], j # i PROVE taken[c][i].what \cap taken[c][j].what = {}
        <5>1. j \in 1..Len(taken[c])
          BY <2>2
        <5>2. SUFFICES ASSUME <<c, n>> \in taken[c][j].what PROVE FALSE
          BY <4>2
        <5>3. n \in Nat /\ i \in Nat /\ j \in Nat
          BY <3>1, <5>1
        <5>4. taken[c][i].eor /\ taken[c][j].eor
          BY <2>0, <3>1, <3>2, <5>1 DEF InOnePlace
        <5>5. At(c, n, "taken", i) /\ At(c, n, "taken", j)
          BY <3>1, <4>2, <5>1, <5>2, <5>4 DEF At, Holds
        <5>6. "taken" \in Wheres
          BY DEF Wheres
        <5>7. i = j
          BY <2>0, <3>2, <5>3, <5>5, <5>6 DEF InOnePlace
        <5>8. QED BY <4>3, <5>7
      <4>4. QED BY <4>1, <4>2, <4>3
    <3>3. CASE ~Clean
      BY <2>1, <3>3
    <3>4. QED BY <3>2, <3>3
  <2>4. ASSUME NEW c \in S!Clients, NEW i \in DOMAIN taken[c]
        PROVE  LET m == taken[c][i]
               IN /\ m.s < S!OutStrms
                  /\ xcli[c].all /\ ~S!Aborted /\ xserv.does # "peel off" =>
                       \A n \in 1..Strms : <<c, n>> \in m.what =>
                         m.s = IF incr THEN n % S!OutStrms ELSE n - 1
    <3>1. i \in 1..Len(taken[c])
      BY <2>2
    <3>2. taken[c][i].s < S!OutStrms
      BY <2>0, <3>1 DEF ToServer
    <3>3. ASSUME xcli[c].all, ~S!Aborted, xserv.does # "peel off", NEW n \in 1..Strms, <<c, n>> \in taken[c][i].what
          PROVE  taken[c][i].s = IF incr THEN n % S!OutStrms ELSE n - 1
      <4>1. AnswerTo(c, taken[c][i])
        BY <2>0, <2>1, <3>1, <3>3 DEF Replies
      <4>2. PICK j \in 1..xnsent[c] : /\ taken[c][i].what = {<<c, j>>}
                                      /\ j <= Strms => taken[c][i].s = IF incr THEN j % S!OutStrms ELSE j - 1
        BY <3>3, <4>1 DEF AnswerTo, ReplyOf
      <4>3. j = n
        BY <3>3, <4>2
      <4>4. n <= Strms
        BY <2>0, SctpFacts
      <4>5. QED BY <4>2, <4>3, <4>4
    <3>4. QED BY <3>2, <3>3
  <2>5. QED BY <2>0, <2>3, <2>4 DEF SctpRight, S!SctpRight, S!OwnEcho, S!OnItsStream, Clean
<1>2. QED BY <1>1, SctpInit, SctpStep, PTL DEF S!Spec

-----------------------------------------------------------------------------
(* The packet loss calculator. *)

USE NSendAssumption, NStopAssumption, RcvBufAssumption, ReorderAssumption

-----------------------------------------------------------------------------
\* Every step keeps the type invariant.
LEMMA TypeStep == TypeOK /\ [Next]_vars => TypeOK'
<1> SUFFICES ASSUME TypeOK, [Next]_vars PROVE TypeOK'
  OBVIOUS
<1> USE DEF TypeOK
<1>1. CASE Send BY <1>1 DEF Send, Datagram
<1>2. CASE CloseClient BY <1>2 DEF CloseClient
<1>3. ASSUME NEW d \in net, Arrive(d) PROVE TypeOK'
  <2>1. sockq' \in Seq(Datagram)
    BY <1>3 DEF Arrive
  <2>2. Len(sockq') <= RcvBuf
    <3>1. CASE spc = "recv" /\ Len(sockq) < RcvBuf
      BY <1>3, <3>1 DEF Arrive
    <3>2. CASE ~(spc = "recv" /\ Len(sockq) < RcvBuf)
      BY <1>3, <3>2 DEF Arrive
    <3>3. QED BY <3>1, <3>2
  <2>3. QED BY <1>3, <2>1, <2>2 DEF Arrive
<1>4. ASSUME NEW d \in net, Lose(d) PROVE TypeOK'
  BY <1>4 DEF Lose
<1>5. CASE Bind BY <1>5 DEF Bind
<1>6. CASE Recv
  <2>1. /\ Head(sockq) \in Datagram
        /\ Tail(sockq) \in Seq(Datagram)
        /\ Len(Tail(sockq)) = Len(sockq) - 1
    BY <1>6 DEF Recv
  <2>2. sockq' \in Seq(Datagram) /\ Len(sockq') <= RcvBuf /\ got' \subseteq Datagram
    BY <1>6, <2>1 DEF Recv
  <2>3. buf' \in 0..NSend /\ counter' \in 1..NStop
    BY <1>6, <2>1 DEF Recv, Datagram
  <2>4. QED BY <1>6, <2>2, <2>3 DEF Recv
<1>7. CASE RecvFails
  <2>1. <<>> \in Seq(Datagram) /\ Len(<<>>) = 0
    OBVIOUS
  <2>2. QED BY <1>7, <2>1 DEF RecvFails
<1>8. CASE Report BY <1>8 DEF Report
<1>9. CASE UNCHANGED vars BY <1>9 DEF vars
<1>10. QED
  BY <1>1, <1>2, <1>3, <1>4, <1>5, <1>6, <1>7, <1>8, <1>9 DEF Next

\* The type invariant holds: in particular the server's counter never passes
\* the bound of its loop and the socket's queue never passes its buffer.
THEOREM TypeCorrect == Spec => []TypeOK
<1>1. Init => TypeOK
  BY DEF Init, TypeOK, Empty, Datagram
<1>2. TypeOK /\ [Next]_vars => TypeOK'
  BY TypeStep
<1>3. QED BY <1>1, <1>2, PTL DEF Spec

-----------------------------------------------------------------------------
(***************************************************************************)
(* Neither property is inductive: a datagram received twice would break    *)
(* the count, one received out of order the loss formula.  Distinct says   *)
(* where a datagram can be, Ordered that on an order-keeping network what  *)
(* was received, what is queued and what is in flight follow each other.   *)
(***************************************************************************)
\* A datagram is in at most one place, and was sent.
Distinct ==
  /\ \A d \in net : d < sent /\ d \notin got
  /\ \A d \in got : d < sent
  /\ \A i \in 1..Len(sockq) :
       /\ sockq[i] < sent
       /\ sockq[i] \notin net
       /\ sockq[i] \notin got
       /\ \A j \in 1..Len(sockq) : i # j => sockq[i] # sockq[j]

\* received <= buf < queued, ascending < in flight.
Ordered ==
  ~Reorder =>
    /\ \A i \in 1..Len(sockq) : \A d \in net : sockq[i] < d
    /\ \A i, j \in 1..Len(sockq) : i < j => sockq[i] < sockq[j]
    /\ \A d \in got :
         /\ buf # Empty /\ d <= buf
         /\ \A i \in 1..Len(sockq) : d < sockq[i]
         /\ \A e \in net : d < e
    /\ buf # Empty => buf \in got

IInv == TypeOK /\ Distinct /\ Ordered /\ CounterOneAhead

\* The strengthened invariant holds in every reachable state.
THEOREM IInvInductive == Spec => []IInv
<1>1. Init => IInv
  BY FS_EmptySet DEF Init, IInv, TypeOK, Distinct, Ordered, CounterOneAhead, Empty, Datagram
<1>2. IInv /\ [Next]_vars => IInv'
  <2> SUFFICES ASSUME IInv, [Next]_vars, TypeOK' PROVE IInv'
    BY TypeStep DEF IInv
  <2>0. TypeOK /\ Distinct /\ Ordered /\ CounterOneAhead
    BY DEF IInv
  <2>1. CASE Send
    <3>1. Distinct' BY <2>0, <2>1 DEF Send, TypeOK, Datagram, Distinct
    <3>2. Ordered' BY <2>0, <2>1 DEF Send, TypeOK, Datagram, Ordered, Distinct
    <3>3. CounterOneAhead' BY <2>0, <2>1 DEF Send, CounterOneAhead
    <3>4. QED BY <3>1, <3>2, <3>3 DEF IInv
  <2>2. CASE CloseClient
    BY <2>0, <2>2 DEF CloseClient, IInv, Distinct, Ordered, CounterOneAhead
  <2>3. ASSUME NEW d \in net, Arrive(d) PROVE IInv'
    <3>1. CASE spc = "recv" /\ Len(sockq) < RcvBuf
      <4>1. /\ sockq' = Append(sockq, d) /\ net' = net \ {d}
            /\ UNCHANGED <<sent, cpc, counter, buf, spc, got>>
        BY <2>3, <3>1 DEF Arrive
      <4>2. /\ Len(sockq') = Len(sockq) + 1
            /\ \A i \in 1..Len(sockq) : sockq'[i] = sockq[i]
            /\ sockq'[Len(sockq) + 1] = d
        BY <2>0, <4>1 DEF TypeOK
      <4>3. \A i \in 1..Len(sockq') : i \in 1..Len(sockq) \/ i = Len(sockq) + 1
        BY <2>0, <4>2 DEF TypeOK
      <4>4. d < sent /\ d \notin got
        BY <2>0 DEF Distinct
      <4>5. Distinct'
        BY <2>0, <4>1, <4>2, <4>3, <4>4 DEF Distinct
      <4>6. Ordered'
        <5> SUFFICES ASSUME ~Reorder PROVE Ordered' BY DEF Ordered
        <5>1. \A e \in net \ {d} : d < e
          BY <2>0, <2>3 DEF Arrive, Deliverable, TypeOK, Datagram
        <5>2. \A i \in 1..Len(sockq) : sockq[i] < d
          BY <2>0 DEF Ordered
        <5>3. \A i \in 1..Len(sockq') : \A e \in net' : sockq'[i] < e
          BY <2>0, <4>1, <4>2, <4>3, <5>1 DEF Ordered
        <5>4. \A i, j \in 1..Len(sockq') : i < j => sockq'[i] < sockq'[j]
          <6> TAKE i, j \in 1..Len(sockq')
          <6> HAVE i < j
          <6>1. i \in 1..Len(sockq)
            BY <4>2, <2>0 DEF TypeOK
          <6>2. CASE j \in 1..Len(sockq) BY <6>1, <6>2, <2>0, <4>2 DEF Ordered
          <6>3. CASE j = Len(sockq) + 1 BY <6>1, <6>3, <4>2, <5>2
          <6>4. QED BY <6>2, <6>3, <4>3
        <5>5. \A e \in got : \A i \in 1..Len(sockq') : e < sockq'[i]
          BY <2>0, <4>2, <4>3 DEF Ordered
        <5>6. QED BY <2>0, <4>1, <5>3, <5>4, <5>5 DEF Ordered
      <4>7. CounterOneAhead' BY <2>0, <4>1 DEF CounterOneAhead
      <4>8. QED BY <4>5, <4>6, <4>7 DEF IInv
    <3>2. CASE ~(spc = "recv" /\ Len(sockq) < RcvBuf)
      BY <2>0, <2>3, <3>2 DEF Arrive, IInv, Distinct, Ordered, CounterOneAhead
    <3>3. QED BY <3>1, <3>2
  <2>4. ASSUME NEW d \in net, Lose(d) PROVE IInv'
    BY <2>0, <2>4 DEF Lose, IInv, Distinct, Ordered, CounterOneAhead
  <2>5. CASE Bind
    BY <2>0, <2>5 DEF Bind, IInv, Distinct, Ordered, CounterOneAhead
  <2>6. CASE Recv
    <3>1. /\ buf' = sockq[1] /\ got' = got \cup {sockq[1]} /\ counter' = counter + 1
          /\ UNCHANGED <<sent, net>>
          /\ 1 \in 1..Len(sockq)
          /\ Len(sockq') = Len(sockq) - 1
          /\ \A i \in 1..Len(sockq') : i + 1 \in 1..Len(sockq) /\ sockq'[i] = sockq[i+1]
          /\ sockq[1] \in Datagram
      BY <2>0, <2>6 DEF Recv, TypeOK
    <3>2. Distinct'
      <4>1. \A i \in 1..Len(sockq') : i + 1 # 1
        BY <2>0 DEF TypeOK
      <4>2. \A i, j \in 1..Len(sockq') : i # j => i + 1 # j + 1
        BY <2>0 DEF TypeOK
      <4>3. QED BY <2>0, <3>1, <4>1, <4>2 DEF Distinct
    <3>3. Ordered'
      <4> SUFFICES ASSUME ~Reorder PROVE Ordered' BY DEF Ordered
      <4>1. \A i \in 1..Len(sockq') : 1 < i + 1
        BY <2>0 DEF TypeOK
      <4>2. \A i, j \in 1..Len(sockq') : i < j => i + 1 < j + 1
        BY <2>0 DEF TypeOK
      <4>3. buf' # Empty
        BY <3>1 DEF Datagram, Empty
      <4>4. /\ \A i \in 1..Len(sockq') : buf' < sockq'[i]
            /\ \A i, j \in 1..Len(sockq') : i < j => sockq'[i] < sockq'[j]
            /\ \A e \in net : buf' < e
            /\ \A i \in 1..Len(sockq') : \A e \in net : sockq'[i] < e
        BY <2>0, <3>1, <4>1, <4>2 DEF Ordered
      <4>5. \A e \in got : e <= buf' /\ (\A i \in 1..Len(sockq') : e < sockq'[i])
                           /\ (\A f \in net : e < f)
        <5>1. \A e \in got : e < sockq[1]
          BY <2>0, <3>1 DEF Ordered
        <5>2. \A e \in got : e \in Int
          BY <2>0 DEF TypeOK, Datagram
        <5>3. \A e \in got : e <= buf'
          BY <3>1, <5>1, <5>2 DEF Datagram
        <5>4. QED BY <2>0, <3>1, <5>3 DEF Ordered
      <4>6. buf' <= buf'
        BY <3>1 DEF Datagram
      <4>7. QED BY <3>1, <4>3, <4>4, <4>5, <4>6 DEF Ordered
    <3>4. CounterOneAhead'
      <4>1. sockq[1] \notin got
        BY <2>0, <3>1 DEF Distinct
      <4>2. IsFiniteSet(got \cup {sockq[1]})
            /\ Cardinality(got \cup {sockq[1]}) = Cardinality(got) + 1
        BY <2>0, <4>1, FS_AddElement DEF CounterOneAhead
      <4>3. Cardinality(got) \in Nat
        BY <2>0, FS_CardinalityType DEF CounterOneAhead
      <4>4. QED BY <2>0, <3>1, <4>2, <4>3 DEF CounterOneAhead
    <3>5. QED BY <3>2, <3>3, <3>4 DEF IInv
  <2>7. CASE Report
    BY <2>0, <2>7 DEF Report, IInv, Distinct, Ordered, CounterOneAhead
  <2>8. CASE RecvFails
    <3>1. Len(sockq') = 0 /\ UNCHANGED <<sent, net, got, buf, counter>>
      BY <2>8 DEF RecvFails
    <3>2. \A k : k \notin 1..Len(sockq')
      BY <3>1
    <3>3. Distinct' /\ Ordered'
      BY <2>0, <3>1, <3>2 DEF Distinct, Ordered
    <3>4. QED BY <2>0, <3>1, <3>3 DEF IInv, CounterOneAhead
  <2>9. CASE UNCHANGED vars
    BY <2>0, <2>9 DEF vars, IInv, Distinct, Ordered, CounterOneAhead
  <2>10. QED
    BY <2>1, <2>2, <2>3, <2>4, <2>5, <2>6, <2>7, <2>8, <2>9 DEF Next
<1>3. QED BY <1>1, <1>2, PTL DEF Spec

\* The printed count is one more than the datagrams received, on every
\* network: the count of UDPFloodServer.c starts at 1.
THEOREM CountIsOneAhead == Spec => []CounterOneAhead
<1>1. IInv => CounterOneAhead
  BY DEF IInv
<1>2. QED BY <1>1, IInvInductive, PTL

\* On a network that keeps the order, the printed pair determines the loss
\* exactly: it is the printed difference plus two.
THEOREM LossIsDifferencePlusTwo == Spec => []LossFormula
<1>1. IInv => LossFormula
  <2> SUFFICES ASSUME IInv, ~Reorder, buf # Empty
               PROVE  Cardinality((0..buf) \ got) = buf + 2 - counter
    BY DEF LossFormula
  <2>1. buf \in Nat /\ got \subseteq 0..buf /\ counter \in Nat
    BY DEF IInv, TypeOK, Ordered, Datagram
  <2>2. IsFiniteSet(got) /\ Cardinality(got) = counter - 1
    BY <2>1, FS_CardinalityType DEF IInv, CounterOneAhead
  <2>3. IsFiniteSet(0..buf) /\ Cardinality(0..buf) = buf + 1
    BY <2>1, FS_Interval
  <2>4. (0..buf) \cap got = got
    BY <2>1
  <2>5. Cardinality((0..buf) \ got) = Cardinality(0..buf) - Cardinality((0..buf) \cap got)
    BY <2>2, <2>3, FS_Difference
  <2>6. Cardinality((0..buf) \ got) = (buf + 1) - (counter - 1)
    BY <2>2, <2>3, <2>4, <2>5, Zenon
  <2>7. QED BY <2>1, <2>6
<1>2. QED BY <1>1, IInvInductive, PTL
===============================================================================
