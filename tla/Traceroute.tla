----------------------------- MODULE Traceroute -----------------------------
(***************************************************************************)
(* traceroute/traceloop.c with recv_v4.c or recv_v6.c.  A probe is its     *)
(* sequence number, which is also its destination port; the message it     *)
(* causes is "transit" (a router's time exceeded), "port" (the destination *)
(* was reached), "code" (any other ICMP unreachable), or none.  Messages   *)
(* about other programs' datagrams come with the number 0.  Other types of *)
(* message, and those too short, are passed over and left out.             *)
(***************************************************************************)
EXTENDS Naturals, Sequences

CONSTANTS
  MaxTtl,     \* max_ttl
  NProbes,    \* nprobes
  Hops,       \* how far the destination is
  MaxForeign  \* bound: messages about other programs' datagrams

\* What the proofs assume of them.
TracerouteAssumption == MaxTtl \in Nat /\ Hops \in Nat

Probes == 1 .. MaxTtl * NProbes

VARIABLES
  version,    \* 4 or 6
  pc,         \* "send", "check", "recv", "stop", "return" or "exit"
  ttl, probe, done,
  seq,        \* the probe sent last
  alarm,      \* alarm(3): whether the clock runs
  gotalarm,
  ret,        \* what recv_v4() or recv_v6() is about to return
  fate,       \* of each probe: the message it causes
  flight,     \* messages on their way
  inq,        \* messages at recvfd, <<probe, kind>>
  shown,      \* what has been printed for each probe
  nforeign

loop == <<ttl, probe, done, seq, shown, fate>>
vars == <<version, pc, loop, alarm, gotalarm, ret, flight, inq, nforeign>>

Init ==
  /\ version \in {4, 6}
  /\ pc = "send" /\ ttl = 1 /\ probe = 0 /\ done = 0 /\ seq = 0
  /\ alarm = FALSE /\ gotalarm = TRUE    \* sig_alrm(SIGALRM)
  /\ ret = "none" /\ shown = <<>> /\ fate = <<>>
  /\ flight = {} /\ inq = <<>> /\ nforeign = 0

\* What can become of a probe that may pass t routers.
Fates(t) == {"lost", "code"} \cup (IF t < Hops THEN {"transit"} ELSE {"port"})

Send ==
  /\ pc = "send" /\ seq' = seq + 1
  /\ \E f \in Fates(ttl) :
       /\ fate' = Append(fate, f)
       /\ flight' = IF f = "lost" THEN flight ELSE flight \cup {<<seq', f>>}
  /\ gotalarm' = FALSE /\ alarm' = TRUE    \* recv_v4()
  /\ pc' = "check"
  /\ UNCHANGED <<version, ttl, probe, done, shown, ret, inq, nforeign>>

Check ==
  /\ pc = "check"
  /\ IF gotalarm THEN pc' = "return" /\ ret' = "timeout" ELSE pc' = "recv" /\ UNCHANGED ret
  /\ UNCHANGED <<version, loop, alarm, gotalarm, flight, inq, nforeign>>

Matches(m) == m[1] = seq

\* Mutant: any message is taken for that of the probe.
RecvV4Any ==
  /\ version = 4 /\ pc = "recv" /\ inq # <<>>
  /\ inq' = Tail(inq)
  /\ pc' = "stop" /\ ret' = Head(inq)[2]
  /\ UNCHANGED <<version, loop, alarm, gotalarm, flight, nforeign>>

RecvV4 ==
  /\ version = 4 /\ pc = "recv" /\ inq # <<>>
  /\ inq' = Tail(inq)
  /\ IF Matches(Head(inq)) THEN pc' = "stop" /\ ret' = Head(inq)[2]
     ELSE pc' = "check" /\ UNCHANGED ret
  /\ UNCHANGED <<version, loop, alarm, gotalarm, flight, nforeign>>

\* The break after "time exceeded" is not inside the if: without a match, ret
\* has no value and anything may be returned.
RecvV6 ==
  /\ version = 6 /\ pc = "recv" /\ inq # <<>>
  /\ inq' = Tail(inq)
  /\ LET m == Head(inq) IN
     IF Matches(m) THEN pc' = "stop" /\ ret' = m[2]
     ELSE IF m[2] = "transit"
     THEN pc' = "stop" /\ ret' \in {"timeout", "transit", "port", "code"}
     ELSE pc' = "check" /\ UNCHANGED ret
  /\ UNCHANGED <<version, loop, alarm, gotalarm, flight, nforeign>>

\* alarm(0)
Stop ==
  /\ pc = "stop" /\ pc' = "return" /\ alarm' = FALSE
  /\ UNCHANGED <<version, loop, gotalarm, ret, flight, inq, nforeign>>

\* The result is printed.  The other probes of this ttl are sent all the same
\* when the destination has been reached.
Return ==
  /\ pc = "return" /\ shown' = Append(shown, ret) /\ ret' = "none"
  /\ done' = IF ret = "port" THEN done + 1 ELSE done
  /\ IF probe + 1 < NProbes THEN probe' = probe + 1 /\ ttl' = ttl /\ pc' = "send"
     ELSE /\ probe' = 0 /\ ttl' = ttl + 1
          /\ pc' = IF ttl' <= MaxTtl /\ done' = 0 THEN "send" ELSE "exit"
  /\ UNCHANGED <<version, seq, fate, alarm, gotalarm, flight, inq, nforeign>>

\* sig_alrm().  It interrupts recvfrom() if that waits already; if it comes after
\* the test of gotalarm and before that call, nothing will.
Expire ==
  /\ alarm /\ alarm' = FALSE /\ gotalarm' = TRUE
  /\ \/ pc = "recv" /\ inq = <<>> /\ pc' = "check"
     \/ UNCHANGED pc
  /\ UNCHANGED <<version, loop, ret, flight, inq, nforeign>>

Program == Send \/ Check \/ RecvV4 \/ RecvV6 \/ Stop \/ Return

Arrive ==
  /\ \E m \in flight : flight' = flight \ {m} /\ inq' = Append(inq, m)
  /\ UNCHANGED <<version, pc, loop, alarm, gotalarm, ret, nforeign>>

\* At any time; it makes a difference only while the program waits.
Foreign ==
  /\ pc = "recv" /\ nforeign < MaxForeign /\ nforeign' = nforeign + 1
  /\ \E k \in {"transit", "code"} : inq' = Append(inq, <<0, k>>)
  /\ UNCHANGED <<version, pc, loop, alarm, gotalarm, ret, flight>>

Next == Program \/ Expire \/ Arrive \/ Foreign

Fairness == WF_vars(Program) /\ WF_vars(Expire)

Spec == Init /\ [][Next]_vars /\ Fairness

-----------------------------------------------------------------------------

Own(s) == shown[s] \in {"timeout", fate[s]}

\* The result printed for a probe over IPv4 is that of this probe, or a
\* timeout, however late and in whatever order the messages come.
OwnResult == version = 4 => \A s \in 1..Len(shown) : Own(s)

\* The comment of recv_v6.c says the same: -2 for a time exceeded, -1 for a
\* port unreachable, -3 for a timeout, all of the probe it was called for.
OwnResultV6 == version = 6 => \A s \in 1..Len(shown) : Own(s)

\* A trace over IPv4 that ends early has come as far as the destination.
EndsThere == version = 4 /\ pc = "exit" /\ ttl <= MaxTtl => ttl > Hops

\* The program ends, or waits for ever because the alarm came between the test
\* of gotalarm and recvfrom(), and no message at all has come since.
EndsOrMissed == pc = "exit" \/ (pc = "recv" /\ gotalarm /\ ~alarm /\ inq = <<>>)

TraceRight == OwnResult /\ EndsThere

===============================================================================
