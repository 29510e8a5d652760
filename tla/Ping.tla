-------------------------------- MODULE Ping --------------------------------
(***************************************************************************)
(* ping/bsdping.c, as "bsd", or "flood" with -f, and the shorter ping of   *)
(* the book (main.c, readloop.c and what they call), as "unp".  A packet   *)
(* is its number, from 0; on the wire it has the MxDupCk-th part of it:    *)
(* icmp_seq has 16 bits and the table of what has been received as many    *)
(* entries.  Messages of other types, for other programs, or too short     *)
(* change nothing here and are left out.                                   *)
(***************************************************************************)
EXTENDS Naturals, Sequences, FiniteSets

CONSTANTS
  MxDupCk,   \* entries of rcvd_tbl, and sequence numbers; at most a byte here
  Count,     \* npackets, when -c is given
  MaxSent,   \* bound: packets sent
  MaxTwice   \* bound: answers that arrive twice

\* What the proofs assume of them.
PingAssumption == MxDupCk \in Nat \ {0} /\ Count \in Nat /\ MaxSent \in Nat

VARIABLES
  prog, npackets, preload,
  pc,            \* "start", "ping", "recv", "counted", "repeat", "set", "test", "end" or "exit"
  ntransmitted, nreceived, nrepeats,
  rcvd_tbl,      \* the bits that are set
  byte,          \* the byte of it that SET() has read
  icp,           \* the packet being looked at
  timer,         \* SIGALRM: "off", "on", or "last" when its handler is onint()
  flight, inq,   \* answers on their way, and at the socket
  twice,
  answers        \* all that have been read

counts == <<nreceived, nrepeats, byte, icp, answers>>
vars == <<prog, npackets, preload, pc, ntransmitted, counts, rcvd_tbl, timer, flight, inq, twice>>

Bit(n) == n % MxDupCk

Init ==
  /\ prog \in {"bsd", "flood", "unp"}
  /\ npackets \in {0, Count} /\ preload \in {0, 1}
  /\ prog = "unp" => npackets = 0 /\ preload = 0
  /\ pc = "start" /\ ntransmitted = 0 /\ nreceived = 0 /\ nrepeats = 0
  /\ rcvd_tbl = {} /\ byte = {} /\ icp = 0 /\ timer = "off"
  /\ flight = {} /\ inq = <<>> /\ twice = 0 /\ answers = <<>>

-----------------------------------------------------------------------------
(* Sending. *)

\* pinger(), send_v4(): the answer may be lost.
Pinger ==
  /\ ntransmitted < MaxSent
  /\ ntransmitted' = ntransmitted + 1
  /\ rcvd_tbl' = rcvd_tbl \ {Bit(ntransmitted)}
  /\ \E lost \in BOOLEAN : flight' = IF lost THEN flight ELSE flight \cup {ntransmitted}

\* while (preload--) pinger(); then the timer, or the first alarm by hand.
Start ==
  /\ pc = "start"
  /\ IF preload > 0 THEN Pinger /\ preload' = preload - 1 /\ UNCHANGED <<pc, timer>>
     ELSE /\ timer' = IF prog = "flood" THEN "off" ELSE "on"
          /\ pc' = IF prog = "flood" THEN "ping" ELSE "recv"
          /\ UNCHANGED <<preload, ntransmitted, rcvd_tbl, flight>>
  /\ UNCHANGED <<prog, npackets, counts, inq, twice>>

\* onalrm(), sig_alrm(): another packet, or the wait for the last answers.
Onalrm ==
  /\ timer = "on" /\ pc \notin {"start", "exit"}
  /\ IF npackets = 0 \/ ntransmitted < npackets
     THEN Pinger /\ UNCHANGED timer
     ELSE timer' = "last" /\ UNCHANGED <<ntransmitted, rcvd_tbl, flight>>
  /\ UNCHANGED <<prog, npackets, preload, pc, counts, inq, twice>>

\* onint(): the summary, and the end, wherever the program is.
Onint ==
  /\ timer = "last" /\ pc # "exit" /\ pc' = "exit"
  /\ UNCHANGED <<prog, npackets, preload, ntransmitted, counts, rcvd_tbl, timer, flight, inq, twice>>

-----------------------------------------------------------------------------
(* The loop. *)

Rest == UNCHANGED <<prog, npackets, preload, timer, twice>>
Net == UNCHANGED <<flight, inq, ntransmitted>>

Flood ==
  /\ pc = "ping" /\ Pinger /\ pc' = "recv"
  /\ UNCHANGED <<counts, inq>> /\ Rest

\* select() returned 0; its timeout, once used up, stays 0.
Nothing ==
  /\ pc = "recv" /\ prog = "flood" /\ inq = <<>> /\ pc' = "ping"
  /\ UNCHANGED <<counts, rcvd_tbl>> /\ Net /\ Rest

\* ++nreceived; the shorter program only prints the answer.
Recvfrom ==
  /\ pc = "recv" /\ inq # <<>> /\ inq' = Tail(inq)
  /\ icp' = Head(inq) /\ answers' = Append(answers, Head(inq))
  /\ IF prog = "unp" THEN UNCHANGED <<pc, nreceived>>
     ELSE pc' = "counted" /\ nreceived' = nreceived + 1
  /\ UNCHANGED <<nrepeats, byte, rcvd_tbl, flight, ntransmitted>> /\ Rest

\* if (TST(...)) ++nrepeats; else SET() reads the byte.
Test ==
  /\ pc = "counted"
  /\ IF Bit(icp) \in rcvd_tbl
     THEN pc' = "repeat" /\ nrepeats' = nrepeats + 1 /\ UNCHANGED byte
     ELSE pc' = "set" /\ byte' = rcvd_tbl /\ UNCHANGED nrepeats
  /\ UNCHANGED <<nreceived, icp, answers, rcvd_tbl>> /\ Net /\ Rest

Repeat ==
  /\ pc = "repeat" /\ nreceived' = nreceived - 1 /\ pc' = "test"
  /\ UNCHANGED <<nrepeats, byte, icp, answers, rcvd_tbl>> /\ Net /\ Rest

\* Mutant: the bit is not set.
SetNot ==
  /\ pc = "set" /\ byte' = {} /\ pc' = "test"
  /\ UNCHANGED <<nreceived, nrepeats, icp, answers, rcvd_tbl>> /\ Net /\ Rest

\* SET() writes it.  A bit the handler cleared in between is set again.
Set ==
  /\ pc = "set" /\ rcvd_tbl' = byte \cup {Bit(icp)} /\ byte' = {} /\ pc' = "test"
  /\ UNCHANGED <<nreceived, nrepeats, icp, answers>> /\ Net /\ Rest

\* if (npackets && nreceived >= npackets) break;
Enough ==
  /\ pc = "test"
  /\ pc' = IF npackets > 0 /\ nreceived >= npackets THEN "end"
           ELSE IF prog = "flood" THEN "ping" ELSE "recv"
  /\ UNCHANGED <<counts, rcvd_tbl>> /\ Net /\ Rest

\* summary(); exit()
End ==
  /\ pc = "end" /\ pc' = "exit"
  /\ UNCHANGED <<counts, rcvd_tbl>> /\ Net /\ Rest

Main == Start \/ Flood \/ Nothing \/ Recvfrom \/ Test \/ Repeat \/ Set \/ Enough \/ End

\* An answer arrives, and may arrive again.
Arrive ==
  /\ pc # "exit"
  /\ \E n \in flight :
       /\ inq' = Append(inq, n)
       /\ \/ flight' = flight \ {n} /\ UNCHANGED twice
          \/ twice < MaxTwice /\ twice' = twice + 1 /\ UNCHANGED flight
  /\ UNCHANGED <<prog, npackets, preload, pc, ntransmitted, counts, rcvd_tbl, timer>>

Alarm == Onalrm \/ Onint

Next == Main \/ Alarm \/ Arrive

Fairness == WF_vars(Main) /\ WF_vars(Alarm)

Spec == Init /\ [][Next]_vars /\ Fairness

-----------------------------------------------------------------------------

Distinct == Cardinality({answers[k] : k \in 1..Len(answers)})

\* Until the sequence numbers have gone round, every answer is counted once and
\* every further one as a repeat, while the handler sends at any moment.
CountsRight ==
  prog # "unp" /\ ntransmitted <= MxDupCk /\ pc \in {"recv", "ping", "end"} =>
    nreceived = Distinct /\ nrepeats = Len(answers) - Distinct

\* No more packets have been received than sent, as long as the program is not
\* in between counting an answer and finding it a repeat.  A summary that the
\* last alarm prints just then may blame somebody for printing up packets.
NoMoreThanSent ==
  nreceived > ntransmitted => pc \in {"counted", "repeat", "exit"} /\ nreceived = ntransmitted + 1

\* With a number of packets to send the program ends, unless it floods: then
\* only answers end it.  Without, it goes on sending.
EndsOrGoesOn ==
  /\ <>[](prog = "bsd" /\ npackets > 0 => pc = "exit")
  /\ <>[](npackets = 0 => ntransmitted = MaxSent)

PingRight == CountsRight /\ NoMoreThanSent

===============================================================================
