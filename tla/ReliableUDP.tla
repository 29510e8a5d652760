----------------------------- MODULE ReliableUDP -----------------------------
(***************************************************************************)
(* The course book's UDP echo client with timeout and retransmission:      *)
(* dg_cli() calls Dg_send_recv() for each line, which numbers the request, *)
(* stamps it, arms SIGALRM for the current RTO and waits for the answer    *)
(* with that number; rtt.c estimates the RTO.  Server: dg_echo().          *)
(*                                                                         *)
(* Time is counted in seconds and a time stamp is the age of the datagram  *)
(* that carries it.  The estimators are integers in parts of a second,     *)
(* rounded down where the code rounds to a float.                          *)
(***************************************************************************)
EXTENDS Integers

CONSTANTS
  MaxLines,  \* bound: lines typed
  MaxRexmt,  \* RTT_MAXNREXMT
  RxtMin,    \* RTT_RXTMIN, seconds
  RxtMax,    \* RTT_RXTMAX, seconds
  Unit,      \* parts of a second the estimators are kept in
  Lifetime   \* bound: seconds after which the network drops an exchange

ASSUME LinesAssumption    == MaxLines \in Nat
ASSUME RexmtAssumption    == MaxRexmt \in Nat
ASSUME RxtAssumption      == RxtMin \in Nat \ {0} /\ RxtMax \in Nat /\ RxtMin <= RxtMax
ASSUME UnitAssumption     == Unit \in Nat /\ Unit >= 8
ASSUME LifetimeAssumption == Lifetime \in Nat

VARIABLES
  pc,        \* "fgets", "send", "armed", "recv", "got", "quit" or "crashed"
  seq,       \* sendhdr.seq
  recvhdr,   \* at "got": number and age of the copy that was answered
  nrexmt,    \* rtt_nrexmt
  srtt, rttvar, rto,   \* rtt_srtt, rtt_rttvar, rtt_rto
  timer,     \* seconds to SIGALRM; 0 once it is pending
  jmpset,    \* has jmpbuf ever been set?
  net,       \* datagrams in flight or queued, either way
  shown,     \* number of the line whose echo was printed last
  waited     \* history: seconds the timers of this call have run

rttVars == <<srtt, rttvar, rto>>
vars == <<pc, seq, recvhdr, nrexmt, rttVars, timer, jmpset, net, shown, waited>>

\* Nothing received, or nothing any more.
NoHdr == [seq |-> 0, age |-> 0]

Datagram == [to : {"server", "client"}, seq : 1..MaxLines, age : 0..Lifetime]

\* Where the timer runs.
Timed == pc \in {"armed", "recv", "got"}

-----------------------------------------------------------------------------
(* rtt.c *)

\* rtt_minmax
MinMax(t) == IF t < RxtMin * Unit THEN RxtMin * Unit
             ELSE IF t > RxtMax * Unit THEN RxtMax * Unit ELSE t

\* Mutant: the deviation counts once.
RtoCalcOnce(s, v) == s + v

\* RTT_RTOCALC
RtoCalc(s, v) == s + 4 * v

Abs(n) == IF n < 0 THEN -n ELSE n

\* rtt_start: rounded to the nearest second.
Start(t) == (t + (Unit \div 2)) \div Unit

\* rtt_stop: the estimators after a round trip of r parts of a second.
NewSrtt(r)   == srtt + ((r - srtt) \div 8)
NewRttvar(r) == rttvar + ((Abs(r - srtt) - rttvar) \div 4)

Stop(r) ==
  /\ srtt' = NewSrtt(r)
  /\ rttvar' = NewRttvar(r)
  /\ rto' = MinMax(RtoCalc(NewSrtt(r), NewRttvar(r)))

\* rtt_timeout: double the RTO, past RxtMax if need be; after MaxRexmt
\* retransmissions give up, which ends the program.
Timeout ==
  /\ rto' = 2 * rto
  /\ nrexmt' = nrexmt + 1
  /\ pc' = IF nrexmt' > MaxRexmt THEN "quit" ELSE "send"
  /\ UNCHANGED <<srtt, rttvar>>

\* rtt_init, at the first call.
Init ==
  /\ srtt = 0
  /\ rttvar = (3 * Unit) \div 4
  /\ rto = MinMax(RtoCalc(0, (3 * Unit) \div 4))
  /\ pc = "fgets"
  /\ seq = 0 /\ recvhdr = NoHdr /\ nrexmt = 0 /\ timer = 0
  /\ jmpset = FALSE
  /\ net = {}
  /\ shown = 0 /\ waited = 0

-----------------------------------------------------------------------------
(* The client. *)

\* dg_cli reads a line; dg_send_recv numbers the request and rtt_newpack
\* resets the count of retransmissions.
TypeLine ==
  /\ pc = "fgets"
  /\ seq < MaxLines
  /\ seq' = seq + 1
  /\ nrexmt' = 0 /\ waited' = 0
  /\ pc' = "send"
  /\ UNCHANGED <<recvhdr, rttVars, timer, jmpset, net, shown>>

\* Stamp, Sendmsg, alarm(rtt_start()).
Transmit ==
  /\ pc = "send"
  /\ net' = net \cup {[to |-> "server", seq |-> seq, age |-> 0]}
  /\ timer' = Start(rto)
  /\ pc' = "armed"
  /\ UNCHANGED <<seq, recvhdr, nrexmt, rttVars, jmpset, shown, waited>>

\* sigsetjmp, only after the alarm has been set.
SetJmp ==
  /\ pc = "armed"
  /\ timer > 0
  /\ jmpset' = TRUE
  /\ pc' = "recv"
  /\ UNCHANGED <<seq, recvhdr, nrexmt, rttVars, timer, net, shown, waited>>

\* Mutant: any answer will do.
RecvAny(m) ==
  /\ pc = "recv" /\ timer > 0
  /\ m.to = "client"
  /\ pc' = "got" /\ recvhdr' = [seq |-> m.seq, age |-> m.age]
  /\ net' \in {net, net \ {m}}
  /\ UNCHANGED <<seq, nrexmt, rttVars, timer, jmpset, shown, waited>>

\* One turn of the loop over Recvmsg: answers with another number are
\* thrown away.  The network may deliver a datagram again.
Recv(m) ==
  /\ pc = "recv" /\ timer > 0
  /\ m.to = "client"
  /\ IF m.seq = seq THEN pc' = "got" /\ recvhdr' = [seq |-> m.seq, age |-> m.age]
                    ELSE UNCHANGED <<pc, recvhdr>>
  /\ net' \in {net, net \ {m}}
  /\ UNCHANGED <<seq, nrexmt, rttVars, timer, jmpset, shown, waited>>

\* alarm(0), rtt_stop, return; dg_cli prints the answer.
Return ==
  /\ pc = "got" /\ timer > 0
  /\ Stop(recvhdr.age * Unit)
  /\ shown' = recvhdr.seq
  /\ pc' = "fgets"
  /\ recvhdr' = NoHdr /\ timer' = 0
  /\ UNCHANGED <<seq, nrexmt, jmpset, net, waited>>

\* SIGALRM: sig_alrm jumps to jmpbuf from wherever the client is.  An answer
\* not yet returned is forgotten.  Before the first sigsetjmp there is nowhere
\* to go; later a buffer of the call before leads to the same statements.
Expire ==
  /\ Timed /\ timer = 0
  /\ IF jmpset THEN Timeout
               ELSE pc' = "crashed" /\ UNCHANGED <<nrexmt, rttVars>>
  /\ recvhdr' = NoHdr
  /\ UNCHANGED <<seq, timer, jmpset, net, shown, waited>>

-----------------------------------------------------------------------------
(* Server, network and clock. *)

\* dg_echo: whatever comes is sent back as it is.
Echo(m) ==
  /\ m.to = "server"
  /\ net' \in {n \cup {[m EXCEPT !.to = "client"]} : n \in {net, net \ {m}}}
  /\ UNCHANGED <<pc, seq, recvhdr, nrexmt, rttVars, timer, jmpset, shown, waited>>

Lose(m) ==
  /\ net' = net \ {m}
  /\ UNCHANGED <<pc, seq, recvhdr, nrexmt, rttVars, timer, jmpset, shown, waited>>

\* A second passes.
Tick ==
  /\ Timed => timer > 0
  /\ Timed \/ net # {}
  /\ timer' = IF Timed THEN timer - 1 ELSE timer
  /\ waited' = IF Timed THEN waited + 1 ELSE waited
  /\ recvhdr' = IF pc = "got" THEN [recvhdr EXCEPT !.age = @ + 1] ELSE recvhdr
  /\ net' = {[m EXCEPT !.age = @ + 1] : m \in {x \in net : x.age < Lifetime}}
  /\ UNCHANGED <<pc, seq, nrexmt, rttVars, jmpset, shown>>

Client == Transmit \/ SetJmp \/ Return \/ Expire

Next ==
  \/ TypeLine \/ Client \/ Tick
  \/ \E m \in net : Recv(m) \/ Echo(m) \/ Lose(m)

\* Time passes and the client runs; the network promises nothing, and
\* nobody has to type.
Spec == Init /\ [][Next]_vars /\ WF_vars(Client) /\ WF_vars(Tick)

-----------------------------------------------------------------------------
(* Properties. *)

TypeOK ==
  /\ pc \in {"fgets", "send", "armed", "recv", "got", "quit", "crashed"}
  /\ seq \in 0..MaxLines /\ shown \in 0..MaxLines
  /\ recvhdr \in [seq : 0..MaxLines, age : Nat] /\ nrexmt \in 0..MaxRexmt + 1
  /\ srtt \in Nat /\ rttvar \in Nat /\ rto \in Nat /\ timer \in Nat
  /\ jmpset \in BOOLEAN
  /\ net \subseteq Datagram

Promise == INSTANCE Channel
  WITH Ends <- {"client"}, MaxSend <- MaxLines,
       open <- [e \in {"client"} |-> pc \notin {"quit", "crashed"}],
       nput <- [e \in {"client"} |-> seq],
       ntaken <- [e \in {"client"} |-> shown],
       content <- [e \in {"client"} |->
                     IF pc \in {"fgets", "quit", "crashed"} THEN <<>> ELSE <<seq>>]

\* Over a network that loses, repeats and reorders, the numbered requests are
\* a first-in first-out channel: an answer that comes late, or twice, is never
\* taken for the answer to a later line (the loop at dg_send_recv.c:78).
EchoesInOrder == Promise!Spec

\* The timer set after a round trip is never shorter than that round trip,
\* unless RxtMax limits it: four deviations make up for the smoothing of the
\* estimate (RTT_RTOCALC), for every history of round trips.
TimerCoversSample ==
  [][Return => Start(rto') >= IF recvhdr.age <= RxtMax THEN recvhdr.age ELSE RxtMax]_vars

\* A call gives up only after the first timer and every doubled one have run
\* in full, and waits no longer than that, though a single timer may exceed
\* RxtMax (rtt_timeout does not apply rtt_minmax).
GivesUpInTime ==
  /\ pc = "quit" => waited >= RxtMin * (2^(MaxRexmt + 1) - 1)
  /\ waited <= RxtMax * (2^(MaxRexmt + 1) - 1)

\* Every call comes back: with the answer, or by giving up in time.  Only a
\* client that is held up for a whole RTO between alarm() and its first
\* sigsetjmp() crashes instead.
CallReturns ==
  /\ []<>(pc \in {"fgets", "quit", "crashed"})
  /\ []GivesUpInTime

===============================================================================
