------------------------------ MODULE MCSignals ------------------------------
(* The programs whose waiting is ended, or whose work is done, by signals: a *)
(* behaviour is one of ReliableUDP, with three lines, one retransmission and *)
(* datagrams that live longer than the first timer runs; or of TimedWait, of *)
(* SignalIO or of Heartbeat; or of ForkServer, whose children a signal kills, *)
(* with three clients and room for one child, so that the second connection  *)
(* ends the server and the third finds its port still open.  The rest stands *)
(* still.                                                                    *)
EXTENDS ReliableUDP, Sequences

CONSTANTS MaxWaits, Hosts, QSIZE, RcvBuf, MaxDg, MaxProbes, MaxAge,
          Clients, MaxProcs, MaxReq

VARIABLES
  which,
  prog, tpc, line, alarm, blocked, pending, pipe, tjmpset, due, inbox, missed,
  mpc, inside, raised, woken, dg, iget, iput, nqueue, nread, sockq, narrived, echoed,
  up, nprobes, ringing, byte, handling, cut, slow, gap,
  spc, backlog, strays, child, cpc, req, fup, down, inStep, fcut

timed == <<prog, tpc, line, alarm, blocked, pending, pipe, tjmpset, due, inbox, missed>>
sigio == <<mpc, inside, raised, woken, dg, iget, iput, nqueue, nread, sockq, narrived, echoed>>
beat  == <<up, nprobes, ringing, byte, handling, cut, slow, gap>>
files == <<spc, backlog, strays, child, cpc, req, fup, down, inStep, fcut>>

T == INSTANCE TimedWait WITH MaxLines <- MaxWaits, pc <- tpc, jmpset <- tjmpset
S == INSTANCE SignalIO
H == INSTANCE Heartbeat
F == INSTANCE ForkServer WITH up <- fup, cut <- fcut

ASSUME SignalsAssumption == S!RingAssumption /\ H!HeartbeatAssumption

MCInit ==
  /\ which \in {"rtt", "timed", "sigio", "heartbeat", "files"}
  /\ Init /\ T!Init /\ (which # "timed" => prog = "plain")
  /\ S!Init /\ H!Init /\ F!Init

MCNext ==
  \/ which = "rtt" /\ Next /\ UNCHANGED <<which, timed, sigio, beat, files>>
  \/ which = "timed" /\ T!Next /\ UNCHANGED <<which, vars, sigio, beat, files>>
  \/ which = "sigio" /\ S!Next /\ UNCHANGED <<which, vars, timed, beat, files>>
  \/ which = "heartbeat" /\ H!Next /\ UNCHANGED <<which, vars, timed, sigio, files>>
  \/ which = "files" /\ F!Next /\ UNCHANGED <<which, vars, timed, sigio, beat>>

\* With the fairness each module states, for the behaviours it has.
MCFairness ==
  /\ WF_vars(which = "rtt" /\ Client) /\ WF_vars(which = "rtt" /\ Tick)
  /\ WF_timed(which = "timed" /\ T!Client) /\ WF_timed(which = "timed" /\ T!Expire)
  /\ WF_sigio(which = "sigio" /\ S!Main) /\ WF_sigio(which = "sigio" /\ S!Signal)
  /\ WF_sigio(which = "sigio" /\ S!Handler)
  /\ WF_files(which = "files" /\ F!Accept)
  /\ \A c \in Clients :
       WF_files(which = "files" /\ F!ChildNext(c)) /\ WF_files(which = "files" /\ F!Read(c))

MCSpec == MCInit /\ [][MCNext]_<<which, vars, timed, sigio, beat, files>> /\ MCFairness

\* All that is waited for comes, or is given up.  ReliableUDP: every call comes
\* back, and EchoesInOrder says with what.  TimedWait: a wait ends unless the
\* alarm goes off outside of the call.  SignalIO: what has come is sent back,
\* or the server has quit, or the set-up was overtaken by it.  ForkServer: a request is followed by a reply.
WaitEnds == CallReturns /\ T!WaitEnds /\ S!NothingStays /\ F!ReplyFollows

\* TimedWait: which programs can lose their alarm, and that none keeps it for
\* the next line.  SignalIO: each datagram is echoed at most once, in the order
\* of arrival.
DrivenRight == []T!AlarmOnce /\ S!EchoedInOrder

\* Heartbeat: an end that is gone is given up in time, and no other.
GivesUpRightly == H!GivesUpRightly

\* ForkServer: a child outlives its client unless its memset() kills it, nobody is accepted once the server
\* has ended, and a client out of step stays so.
FilesRight == []F!ChildOutlivesClient /\ F!NobodyAccepts /\ F!OutOfStepForGood

===============================================================================
