-------------------------------- MODULE UdpCksum --------------------------------
(***************************************************************************)
(* udpcksum: asks a name server a question through a raw socket and looks, *)
(* with libpcap, whether the answer has a UDP checksum.  The capture takes *)
(* every UDP datagram of the server's port, whomever it is for.  Three     *)
(* queries are sent, with an alarm whose handler jumps out of the read.    *)
(***************************************************************************)
EXTENDS Integers

CONSTANTS
  MaxQueries,   \* 3 in the code
  FirstWait,    \* ticks of the first timeout, 3 seconds in the code
  MaxOthers     \* bound: answers of the server to others

\* What the proofs assume of them.
UdpCksumAssumption == MaxQueries \in Nat \ {0} /\ FirstWait \in Nat

VARIABLES
  root,              \* whether the program has the right to a raw socket
  pc,                \* "main", "setjmp", "send", "alarm", "read", "got", "clear",
                     \* "cleanup", or how it has ended: see Ended
  super,             \* whether the process has superuser privileges
  nsent, timeout, canjump,
  timer,             \* ticks until the alarm, -1 when none is set
  printed,           \* whether a verdict has been printed
  stopped,           \* whether SIGINT has come
  waited,            \* ticks in all that an alarm was set
  queries, answers,  \* on their way
  others,            \* answers to others that may still come
  captured           \* packets that wait in the capture

jump == <<nsent, timeout, canjump>>
net == <<queries, answers, others, captured>>
vars == <<root, pc, super, jump, timer, printed, stopped, waited, net>>

None == -1

Init ==
  /\ root \in BOOLEAN /\ pc = "main" /\ super = root
  /\ nsent = 0 /\ timeout = FirstWait /\ canjump = FALSE /\ timer = None
  /\ printed = FALSE /\ stopped = FALSE /\ waited = 0
  /\ queries = 0 /\ answers = 0 /\ others \in 0..MaxOthers /\ captured = 0

-----------------------------------------------------------------------------
(* The program. *)

Step(from, to) == pc = from /\ pc' = to

\* The program has ended: with a verdict or by a signal; a call has failed; a
\* packet was none that udp_check() accepts; or nobody has answered.
Ended == pc \in {"exit", "failed", "refused", "silent"}

\* main() finds its local address, opens the raw socket and the capture, and gives
\* its privileges up; each of these may fail.
Main ==
  /\ \/ root /\ Step("main", "setjmp") /\ super' = FALSE
     \/ Step("main", "failed") /\ UNCHANGED super
  /\ UNCHANGED <<root, jump, timer, printed, stopped, waited, net>>

\* sigsetjmp() has returned 0, when nothing has been sent; or come back from the
\* handler, which the third time is the end.
SetJmp ==
  /\ pc = "setjmp"
  /\ IF nsent >= MaxQueries THEN pc' = "silent" /\ UNCHANGED <<timeout, canjump>>
     ELSE /\ pc' = "send" /\ canjump' = TRUE
          /\ timeout' = (IF nsent = 0 THEN timeout ELSE 2 * timeout)
  /\ UNCHANGED <<root, super, nsent, timer, printed, stopped, waited, net>>

\* Sendto() may fail, which ends the program.
SendQuery ==
  /\ \/ Step("send", "alarm") /\ nsent' = nsent + 1 /\ queries' = queries + 1
     \/ Step("send", "failed") /\ UNCHANGED <<nsent, queries>>
  /\ UNCHANGED <<root, super, timeout, canjump, timer, printed, stopped, waited, answers, others, captured>>

Alarm ==
  /\ Step("alarm", "read") /\ timer' = timeout
  /\ UNCHANGED <<root, super, jump, printed, stopped, waited, net>>

\* udp_read(): a packet of a link or with a header that udp_read() or udp_check() does
\* not expect, or one with a wrong checksum, ends the program, whoever it is for.
UdpRead ==
  /\ captured > 0 /\ captured' = captured - 1
  /\ Step("read", "got") \/ Step("read", "refused")
  /\ UNCHANGED <<root, super, jump, timer, printed, stopped, waited, queries, answers, others>>

\* Mutant: the jump stays possible until the alarm is off.
ClearJumpLate ==
  /\ Step("got", "clear")
  /\ UNCHANGED <<root, super, jump, timer, printed, stopped, waited, net>>

ClearJump ==
  /\ Step("got", "clear") /\ canjump' = FALSE
  /\ UNCHANGED <<root, super, nsent, timeout, timer, printed, stopped, waited, net>>

\* alarm(0) and the verdict; then cleanup().
Verdict ==
  /\ Step("clear", "cleanup") /\ timer' = None /\ printed' = TRUE
  /\ UNCHANGED <<root, super, jump, stopped, waited, net>>

\* pcap_stats() may fail.
Exit ==
  /\ Step("cleanup", "exit") \/ Step("cleanup", "failed")
  /\ UNCHANGED <<root, super, jump, timer, printed, stopped, waited, net>>

\* SIGALRM: sig_alrm() jumps wherever the program is, out of cleanup() as well.
SigAlrm ==
  /\ timer = 0 /\ ~Ended /\ timer' = None
  /\ pc' = IF canjump THEN "setjmp" ELSE pc
  /\ UNCHANGED <<root, super, jump, printed, stopped, waited, net>>

\* SIGINT, SIGTERM or SIGHUP, after they have been caught: cleanup() in the handler.
SigInt ==
  /\ ~stopped /\ stopped' = TRUE /\ pc \notin {"main", "cleanup"} /\ ~Ended
  /\ pc' = "cleanup"
  /\ UNCHANGED <<root, super, jump, timer, printed, waited, net>>

-----------------------------------------------------------------------------
(* Time and the network, which may lose queries and answers. *)

Same == UNCHANGED <<root, pc, super, jump, printed, stopped>>

Tick ==
  /\ timer > 0 /\ timer' = timer - 1 /\ waited' = waited + 1
  /\ Same /\ UNCHANGED net

Ask == /\ queries > 0 /\ queries' = queries - 1 /\ answers' \in {answers, answers + 1}
       /\ Same /\ UNCHANGED <<timer, waited, others, captured>>
Answer == /\ answers > 0 /\ answers' = answers - 1 /\ captured' \in {captured, captured + 1}
          /\ Same /\ UNCHANGED <<timer, waited, queries, others>>
AnswerOther == /\ others > 0 /\ pc # "main" /\ others' = others - 1 /\ captured' = captured + 1
               /\ Same /\ UNCHANGED <<timer, waited, queries, answers>>

Program == Main \/ SetJmp \/ SendQuery \/ Alarm \/ UdpRead \/ ClearJump \/ Verdict \/ Exit

Next == Program \/ SigAlrm \/ SigInt \/ Tick \/ Ask \/ Answer \/ AnswerOther

Fairness == WF_vars(Program) /\ WF_vars(SigAlrm) /\ WF_vars(Tick)

Spec == Init /\ [][Next]_vars /\ Fairness

-----------------------------------------------------------------------------
(* Properties. *)

\* The network is listened to without privileges; at most three queries are sent;
\* and "no response" comes after three queries and 3, 6 and 12 seconds and not before,
\* even if the answer was read when the alarm came: as each wait is twice the one
\* before, all of them are twice the last less the first.  Whoever does not wait
\* that long has a verdict, was stopped, or failed otherwise.
OnlyAfterAll ==
  /\ super => pc \in {"main", "failed"}
  /\ nsent <= MaxQueries
  /\ pc = "silent" => nsent = MaxQueries /\ waited = 2 * timeout - FirstWait

\* The program does not exit in peace without a verdict, which may be about an answer
\* of the server to somebody else: nothing tells these apart.
VerdictRight == pc = "exit" => stopped \/ printed

\* Once the jump has been ruled out, no alarm takes the answer away.
Clears == [][pc = "clear" => pc' = "cleanup"]_pc

UdpCksumSafe == OnlyAfterAll /\ VerdictRight
UdpCksumRight == []UdpCksumSafe /\ Clears
===============================================================================
