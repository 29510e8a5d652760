----------------------------- MODULE MCDatagrams -----------------------------
(* Programs over datagrams and messages: a behaviour is one of PacketLoss,    *)
(* with room for several losses before the server's count is full and for an *)
(* overrun of its queue; or of Icmpd, with three clients for two entries; of *)
(* Ping, of Traceroute, of UdpCksum; of DgEcho, with two lines and one       *)
(* datagram too many; or of Sctp, with two clients.  The rest stands still.  *)
EXTENDS PacketLoss

CONSTANTS
  MaxClients, Slots, Ports, MaxTyped, MxDupCk, Count, MaxSent, MaxTwice,
  MaxTtl, NProbes, Hops, MaxForeign, MaxQueries, FirstWait, MaxOthers,
  MaxLines, MaxOdd, Strms, Lines

VARIABLES
  which,    \* the program that runs
  client, maxi, rset, nready, ipc, backlog, upq, downq, closed, icpc, port,
  iflight, rawq, lines,
  prog, npackets, preload, ppc, ntransmitted, nreceived, nrepeats,
  rcvd_tbl, byte, icp, ptimer, pflight, pinq, twice, panswers,
  version, tpc, ttl, probe, done, seq, alarm, gotalarm, ret, fate, tflight,
  tinq, tshown, nforeign,
  root, kpc, super, knsent, timeout, canjump, ktimer, printed, stopped,
  waited, queries, kanswers, others, captured,
  eserv, ecli, asks, bound, alive, queue, count, eup, edown, inbox,
  refused, nobody, epc, line, eshown, passed, odd, lost,
  xserv, incr, strict, xcli, ends, assoc, xup, rcvq, partial, xpc, held,
  childq, xdown, xcpc, xnsent, nlines, taken

icmpd == <<client, maxi, rset, nready, ipc, backlog, upq, downq, closed,
           icpc, port, iflight, rawq, lines>>
ping == <<prog, npackets, preload, ppc, ntransmitted, nreceived, nrepeats,
          rcvd_tbl, byte, icp, ptimer, pflight, pinq, twice, panswers>>
trace == <<version, tpc, ttl, probe, done, seq, alarm, gotalarm, ret, fate,
           tflight, tinq, tshown, nforeign>>
cksum == <<root, kpc, super, knsent, timeout, canjump, ktimer, printed,
           stopped, waited, queries, kanswers, others, captured>>
dgecho == <<eserv, ecli, asks, bound, alive, queue, count, eup, edown,
            inbox, refused, nobody, epc, line, eshown, passed, odd, lost>>
sctp == <<xserv, incr, strict, xcli, ends, assoc, xup, rcvq, partial, xpc,
          held, childq, xdown, xcpc, xnsent, nlines, taken>>

I == INSTANCE Icmpd WITH
       MaxLines <- MaxTyped, pc <- ipc, cpc <- icpc, flight <- iflight
P == INSTANCE Ping WITH
       pc <- ppc, timer <- ptimer, flight <- pflight, inq <- pinq,
       answers <- panswers
T == INSTANCE Traceroute WITH
       pc <- tpc, flight <- tflight, inq <- tinq, shown <- tshown
K == INSTANCE UdpCksum WITH
       pc <- kpc, nsent <- knsent, timer <- ktimer, answers <- kanswers
E == INSTANCE DgEcho WITH
       serv <- eserv, cli <- ecli, up <- eup, down <- edown, pc <- epc,
       shown <- eshown
S == INSTANCE Sctp WITH
       serv <- xserv, cli <- xcli, up <- xup, pc <- xpc, down <- xdown,
       cpc <- xcpc, nsent <- xnsent

ASSUME DatagramsAssumption ==
  P!PingAssumption /\ T!TracerouteAssumption /\ K!UdpCksumAssumption /\ I!IcmpdAssumption /\ S!SctpAssumption

MCInit ==
  /\ which \in {"loss", "icmpd", "ping", "traceroute", "udpcksum", "dgecho", "sctp"}
  /\ Init
  /\ I!Init
  /\ IF which = "ping" THEN TRUE ELSE prog = "flood" /\ npackets = Count /\ preload = 0
  /\ P!Init
  /\ IF which = "traceroute" THEN TRUE ELSE version = 4
  /\ T!Init
  /\ IF which = "udpcksum" THEN TRUE ELSE root = TRUE /\ others = 0
  /\ K!Init
  /\ IF which = "dgecho" THEN TRUE ELSE eserv = E!udpserv01 /\ ecli = E!dg_cli /\ asks = 1
  /\ E!Init
  /\ IF which = "sctp" THEN TRUE ELSE xserv = S!sctpserv01 /\ incr = FALSE
                           /\ xcli = [c \in S!Clients |-> S!sctp_strcli]
                           /\ ends = [c \in S!Clients |-> "close"]
  /\ S!Init

MCNext ==
  \/ which = "loss" /\ Next /\ UNCHANGED <<which, icmpd, ping, trace, cksum, dgecho, sctp>>
  \/ which = "icmpd" /\ I!Next /\ UNCHANGED <<which, vars, ping, trace, cksum, dgecho, sctp>>
  \/ which = "ping" /\ P!Next /\ UNCHANGED <<which, vars, icmpd, trace, cksum, dgecho, sctp>>
  \/ which = "traceroute" /\ T!Next /\ UNCHANGED <<which, vars, icmpd, ping, cksum, dgecho, sctp>>
  \/ which = "udpcksum" /\ K!Next /\ UNCHANGED <<which, vars, icmpd, ping, trace, dgecho, sctp>>
  \/ which = "dgecho" /\ E!Next /\ UNCHANGED <<which, vars, icmpd, ping, trace, cksum, sctp>>
  \/ which = "sctp" /\ S!Next /\ UNCHANGED <<which, vars, icmpd, ping, trace, cksum, dgecho>>

\* With the fairness each module states, for the behaviours it has.
MCFairness ==
  /\ WF_vars(which = "loss" /\ Send)
  /\ WF_vars(which = "loss" /\ CloseClient)
  /\ WF_vars(which = "loss" /\ Bind)
  /\ WF_vars(which = "loss" /\ Recv)
  /\ WF_vars(which = "loss" /\ Report)
  /\ WF_vars(which = "loss" /\ \E d \in net : Arrive(d) \/ Lose(d))
  /\ WF_icmpd(which = "icmpd" /\ ~I!Dead /\ I!Daemon)
  /\ \A c \in I!Clients : WF_icmpd(which = "icmpd" /\ I!ReadReply(c))
  /\ WF_ping(which = "ping" /\ P!Main)
  /\ WF_ping(which = "ping" /\ P!Alarm)
  /\ WF_trace(which = "traceroute" /\ T!Program)
  /\ WF_trace(which = "traceroute" /\ T!Expire)
  /\ WF_cksum(which = "udpcksum" /\ K!Program)
  /\ WF_cksum(which = "udpcksum" /\ K!SigAlrm)
  /\ WF_cksum(which = "udpcksum" /\ K!Tick)
  /\ WF_dgecho(which = "dgecho" /\ E!Progress)
  /\ WF_sctp(which = "sctp" /\ S!ServerStep)
  /\ WF_sctp(which = "sctp" /\ S!DeliverRest)
  /\ \A c \in S!Clients : WF_sctp(which = "sctp" /\ S!Network(c))
  /\ \A c \in S!Clients : WF_sctp(which = "sctp" /\ S!TakeReply(c))

MCSpec == MCInit /\ [][MCNext]_<<which, vars, icmpd, ping, trace, cksum, dgecho, sctp>> /\ MCFairness

\* Icmpd: who has been answered is told of its own errors only, and the daemon
\* dies only of a client that has ended.
DaemonRight == I!DaemonRight

\* Ping: the counts are right whenever they are used.
PingRight == P!PingRight

\* Traceroute: over IPv4, results are those of their probes, and a trace ends
\* at the destination.
TraceRight == T!TraceRight

\* UdpCksum: the verdict rests on the program's own queries.
UdpCksumRight == K!UdpCksumRight

\* DgEcho: replies and lines go together, but for known exceptions.
DgEchoRight == E!DgEchoRight

\* Sctp: streams, pieces and associations are not mixed up.
SctpRight == S!SctpRight

\* What must happen: the loss is reported; the daemon answers every client or cuts
\* it off; ping ends or goes on sending, as its options say; a trace ends, or misses
\* its alarm and waits for ever; the checksum test gives its verdict or up; lines are
\* echoed unless something was lost, over SCTP unless the server died or an
\* association was cut off.
ComesToAnEnd ==
  /\ EnoughReports /\ I!Answered /\ P!EndsOrGoesOn
  /\ <>[](which = "traceroute" => T!EndsOrMissed)
  /\ <>[](which = "udpcksum" => K!Ended)
  /\ E!LineAnswered /\ S!Answered

===============================================================================
