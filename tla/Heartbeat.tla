------------------------------ MODULE Heartbeat ------------------------------
(***************************************************************************)
(* The course book's heartbeat over TCP's urgent mode: heartbeatcli.c      *)
(* sends an out-of-band byte at each alarm, heartbeatserv.c sends it back, *)
(* and each end gives up after too many alarms without a byte.  Both       *)
(* alarms go off once every nsec seconds, which is one period here.        *)
(***************************************************************************)
EXTENDS Naturals, FiniteSetsExt

CONSTANTS
  MaxProbes,  \* maxnprobes of the client, maxnalarms of the server
  MaxAge      \* bound: periods a byte may be on its way

\* What the constants are; both ends make MaxProbes at least nsec, and that
\* at least 1.
HeartbeatAssumption == MaxProbes \in Nat \ {0} /\ MaxAge \in Nat

VARIABLES
  up,        \* the ends that run
  nprobes,   \* per end
  ringing,   \* the ends whose alarm is due
  byte,      \* per end: ages of the urgent bytes on their way to it
  handling,  \* the ends in sig_urg, before nprobes is reset
  cut,       \* has the connection been cut?
  slow,      \* history: has a byte taken half of MaxProbes periods?
  gap        \* history: per end, periods since the other went away

vars == <<up, nprobes, ringing, byte, handling, cut, slow, gap>>

Ends == {"client", "server"}
Peer(e) == IF e = "client" THEN "server" ELSE "client"

Init ==
  /\ up = Ends /\ ringing = {} /\ handling = {}
  /\ nprobes = [e \in Ends |-> 0]
  /\ byte = [e \in Ends |-> {}]
  /\ cut = FALSE /\ slow = FALSE
  /\ gap = [e \in Ends |-> 0]

\* An urgent byte is sent.
SendTo(e, b) == IF cut THEN b ELSE [b EXCEPT ![e] = @ \cup {0}]

\* sig_alrm; it may interrupt sig_urg.
Alarm(e) ==
  /\ e \in ringing \cap up
  /\ ringing' = ringing \ {e}
  /\ nprobes' = [nprobes EXCEPT ![e] = @ + 1]
  /\ up' = IF nprobes'[e] > MaxProbes THEN up \ {e} ELSE up
  /\ byte' = IF e = "client" /\ e \in up' THEN SendTo("server", byte) ELSE byte
  /\ UNCHANGED <<handling, cut, slow, gap>>

\* sig_urg: the byte is read, and the server sends one back.
Urgent(e) ==
  /\ e \in up /\ e \notin handling
  /\ byte[e] # {}
  /\ handling' = handling \cup {e}
  /\ byte' = LET b == [byte EXCEPT ![e] = @ \ {Max(@)}]
             IN IF e = "server" THEN SendTo("client", b) ELSE b
  /\ UNCHANGED <<up, nprobes, ringing, cut, slow, gap>>

\* Mutant: nprobes is not reset.
ResetNot(e) ==
  /\ e \in handling \cap up
  /\ handling' = handling \ {e}
  /\ UNCHANGED <<up, nprobes, ringing, byte, cut, slow, gap>>

\* The end of sig_urg.
Reset(e) ==
  /\ e \in handling \cap up
  /\ nprobes' = [nprobes EXCEPT ![e] = 0]
  /\ handling' = handling \ {e}
  /\ UNCHANGED <<up, ringing, byte, cut, slow, gap>>

\* A period passes.  Alarms of the period before have been handled, and so
\* have signals: a running program is not held up for so long.
Period ==
  /\ ringing \cap up = {} /\ handling \cap up = {}
  /\ \A e \in up : MaxAge \notin byte[e]
  /\ ringing' = up
  /\ byte' = [e \in Ends |-> {a + 1 : a \in byte[e] \ {MaxAge}}]
  /\ slow' = (slow \/ \E e \in up : \E a \in byte[e] : 2 * (a + 1) >= MaxProbes)
  /\ gap' = [e \in Ends |-> IF e \in up /\ (cut \/ Peer(e) \notin up) /\ gap[e] <= MaxProbes + MaxAge + 1
                            THEN gap[e] + 1 ELSE gap[e]]
  /\ UNCHANGED <<up, nprobes, handling, cut>>

\* A host goes down, or the network between them, and says nothing.  (An end
\* that has given up resets what comes later, which would end the other one
\* sooner than its alarms do here.)
Crash(e) ==
  /\ e \in up
  /\ up' = up \ {e}
  /\ UNCHANGED <<nprobes, ringing, byte, handling, cut, slow, gap>>
Cut ==
  /\ ~cut /\ cut' = TRUE
  /\ byte' = [e \in Ends |-> {}]
  /\ UNCHANGED <<up, nprobes, ringing, handling, slow, gap>>

Next ==
  \/ Period \/ Cut
  \/ \E e \in Ends : Alarm(e) \/ Urgent(e) \/ Reset(e) \/ Crash(e)

Spec == Init /\ [][Next]_vars

\* An end that is gone is given up by the other, at the latest MaxProbes + 1
\* periods after its last byte has come.
GivesUpInTime == \A e \in up : gap[e] <= MaxProbes + MaxAge + 1

\* So it is, and nobody is given up who is there, as long as a byte takes less
\* than half of MaxProbes periods, whatever the order of alarms and signals;
\* except when MaxProbes is 1: the server may hear a byte before one alarm and
\* the next byte after the second.
GivesUpRightly ==
  /\ []GivesUpInTime
  /\ [][\A e \in Ends : Alarm(e) /\ e \notin up' => cut \/ slow \/ Peer(e) \notin up \/ MaxProbes = 1]_vars

===============================================================================
