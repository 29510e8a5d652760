---------------------------------- MODULE Oob ----------------------------------
(***************************************************************************)
(* Out-of-band data of TCP (oob/tcpsend01.c to tcpsend06.c) and the        *)
(* programs that receive it: with SIGURG (tcprecv01, tcprecv05), with      *)
(* select() or poll() (tcprecv02, tcprecv03, tcprecv03p), and inline with  *)
(* sockatmark() (tcprecv04, tcprecv06).  What is sent is a sequence of     *)
(* writes, "n" for normal data and "u" for one urgent byte; the mark is    *)
(* the place of the last urgent byte that has been announced.              *)
(***************************************************************************)
EXTENDS Naturals, Sequences, FiniteSetsExt

CONSTANT RcvBuf   \* bound: writes the receive buffer of tcprecv05 has room for

VARIABLES
  recv,       \* the receiving program
  forgets,    \* whether reading the urgent byte ends the exceptional condition; else
              \* only reading past the mark does
  script,     \* what the sender writes
  sent, arrived,  \* how much of it has been written, and has arrived
  fin,        \* whether the connection is at its end
  next,       \* the place where the next read() starts
  mark,
  oob,        \* the urgent byte of the mark: "none", "here" or "had"
  sigurg,     \* whether SIGURG waits to be delivered
  pc,         \* "wait", "urgent", "normal", "exit" or "dead"
  xset, rset, \* what select() has returned
  justreadoob,
  announced,  \* whether "at OOB mark" has been printed since the last read()
  why,        \* the errno of which the program has died
  before,     \* whether data stood before the mark when its byte was read
  urgent,     \* urgent bytes received as such
  wrong       \* whether the message came with another byte

conf == <<recv, forgets, script>>
stream == <<sent, arrived, fin, next, mark, oob, sigurg>>
vars == <<conf, stream, pc, xset, rset, justreadoob, announced, why, before, urgent, wrong>>

\* What the senders write; the first three pause after each write.
tcpsend01 == <<"n", "u", "n", "u", "n">>
tcpsend02 == <<"n", "u", "n", "u", "n">>
tcpsend03 == <<"n", "u", "n", "u", "n">>
tcpsend04 == <<"n", "u", "n">>
tcpsend05 == <<"n", "u", "n">>             \* more than there is room for
tcpsend06 == <<"n", "u", "n", "u", "n">>

\* How the receivers learn of urgent data, whether they read the others, and
\* whether they ask for the exceptional condition after it came.
tcprecv01 == [learns |-> "SIGURG", reads |-> TRUE, again |-> FALSE]
tcprecv02 == [learns |-> "select", reads |-> TRUE, again |-> TRUE]
tcprecv03 == [learns |-> "select", reads |-> TRUE, again |-> FALSE]
tcprecv03p == [learns |-> "select", reads |-> TRUE, again |-> FALSE]
tcprecv04 == [learns |-> "inline", reads |-> TRUE, again |-> FALSE]
tcprecv05 == [learns |-> "SIGURG", reads |-> FALSE, again |-> FALSE]
tcprecv06 == [learns |-> "inline", reads |-> TRUE, again |-> FALSE]

Receivers == {tcprecv01, tcprecv02, tcprecv03, tcprecv03p, tcprecv04, tcprecv05, tcprecv06}

Selects == recv.learns = "select"
Handles == recv.learns = "SIGURG"
Inline == recv.learns = "inline"

Init ==
  /\ recv \in Receivers
  /\ forgets \in BOOLEAN
  /\ script \in {tcpsend01, tcpsend02, tcpsend03, tcpsend04, tcpsend05, tcpsend06}
  /\ sent = 0 /\ arrived = 0 /\ fin = FALSE /\ next = 1 /\ mark = 0 /\ oob = "none"
  /\ sigurg = FALSE /\ pc = "wait" /\ xset = FALSE /\ rset = FALSE
  /\ justreadoob = FALSE /\ announced = FALSE /\ why = "none" /\ before = FALSE
  /\ urgent = {} /\ wrong = FALSE

-----------------------------------------------------------------------------
(* The stream. *)

Program == <<pc, xset, rset, justreadoob, announced, why, before, urgent, wrong>>

Send ==
  /\ sent < Len(script) /\ sent' = sent + 1
  /\ UNCHANGED <<conf, arrived, fin, next, mark, oob, sigurg, Program>>

\* The urgent pointer is announced before the byte, which may wait for room.
Announce(p) ==
  /\ p <= sent /\ p > mark /\ p > arrived /\ script[p] = "u"
  /\ mark' = p /\ oob' = "none" /\ sigurg' = Handles
  /\ UNCHANGED <<conf, sent, arrived, fin, next, Program>>

\* The urgent byte is kept apart, unless a later one is known by now: then it is
\* data like any other.
Arrive ==
  /\ arrived < sent /\ arrived' = arrived + 1
  /\ ~recv.reads => arrived' - (next - 1) <= RcvBuf
  /\ IF script[arrived'] = "u" /\ mark <= arrived'
     THEN /\ mark' = arrived' /\ oob' = (IF Inline THEN "none" ELSE "here")
          /\ sigurg' = (sigurg \/ (Handles /\ mark < arrived'))
     ELSE UNCHANGED <<mark, oob, sigurg>>
  /\ UNCHANGED <<conf, sent, fin, next, Program>>

Finish ==
  /\ arrived = Len(script) /\ ~fin /\ fin' = TRUE
  /\ UNCHANGED <<conf, sent, arrived, next, mark, oob, sigurg, Program>>

Apart(p) == p = mark /\ ~Inline      \* the byte is not in the stream

\* What a read() takes: all that is there, up to the mark.
Available ==
  LET last == IF next < mark /\ mark <= arrived THEN mark - 1 ELSE arrived
  IN {p \in next..last : ~Apart(p)}
Readable == Available # {} \/ (fin /\ {p \in next..arrived : ~Apart(p)} = {})
Exceptional == mark >= next /\ (forgets => oob # "had")

-----------------------------------------------------------------------------
(* The receivers. *)

\* Recv(MSG_OOB), which ends the program where it fails.
RecvOob(after) ==
  /\ IF mark < next \/ oob = "had" THEN why' = "EINVAL"
     ELSE IF oob = "none" THEN why' = "EWOULDBLOCK" ELSE UNCHANGED why
  /\ IF why' = why
     THEN pc' = after /\ oob' = "had" /\ urgent' = urgent \cup {mark} /\ before' = (next < mark)
     ELSE pc' = "dead" /\ UNCHANGED <<oob, urgent, before>>

\* Read(): at the end the program exits.
Read ==
  /\ Readable
  /\ IF Available = {} THEN pc' = "exit" /\ UNCHANGED next
     ELSE pc' = "wait" /\ next' = Max(Available) + 1
  /\ announced' = FALSE
  /\ wrong' = (wrong \/ (announced /\ Available # {} /\ script[Min(Available)] # "u"))
  /\ UNCHANGED <<conf, sent, arrived, fin, mark, oob, sigurg, xset, rset, why, before, urgent>>

\* recv01: read() in a loop; recv05 only pauses.
ReadLoop == Handles /\ recv.reads /\ pc = "wait" /\ Read /\ UNCHANGED justreadoob

SigUrg ==
  /\ sigurg /\ pc = "wait" /\ sigurg' = FALSE /\ RecvOob("wait")
  /\ UNCHANGED <<conf, sent, arrived, fin, next, mark, xset, rset, justreadoob, announced, wrong>>

\* recv02 always asks for the exceptional condition.
AskedUrgent == recv.again \/ ~justreadoob

Select ==
  /\ Selects /\ pc = "wait" /\ (Readable \/ (AskedUrgent /\ Exceptional))
  /\ xset' = (AskedUrgent /\ Exceptional) /\ rset' = Readable /\ pc' = "urgent"
  /\ UNCHANGED <<conf, stream, justreadoob, announced, why, before, urgent, wrong>>

UrgentTurn ==
  /\ Selects /\ pc = "urgent"
  /\ IF xset THEN RecvOob("normal") /\ justreadoob' = ~recv.again
     ELSE pc' = "normal" /\ UNCHANGED <<oob, urgent, before, why, justreadoob>>
  /\ UNCHANGED <<conf, sent, arrived, fin, next, mark, sigurg, xset, rset, announced, wrong>>

\* Mutant: justreadoob is not reset.
NormalTurnKeeps ==
  /\ Selects /\ pc = "normal"
  /\ IF rset THEN Read /\ UNCHANGED justreadoob
     ELSE /\ pc' = "wait"
          /\ UNCHANGED <<conf, stream, xset, rset, justreadoob, announced, why, before, urgent, wrong>>

NormalTurn ==
  /\ Selects /\ pc = "normal"
  /\ IF rset THEN Read /\ justreadoob' = FALSE
     ELSE /\ pc' = "wait"
          /\ UNCHANGED <<conf, stream, xset, rset, justreadoob, announced, why, before, urgent, wrong>>

\* recv04 and recv06: Sockatmark(), and then Read().
Sockatmark ==
  /\ Inline /\ pc = "wait" /\ pc' = "normal" /\ announced' = (mark = next)
  /\ UNCHANGED <<conf, stream, xset, rset, justreadoob, why, before, urgent, wrong>>

ReadInline == Inline /\ pc = "normal" /\ Read /\ UNCHANGED justreadoob

Receiver ==
  \/ ReadLoop \/ SigUrg \/ Select \/ UrgentTurn \/ NormalTurn \/ Sockatmark \/ ReadInline
Sender == pc \notin {"exit", "dead"} /\ (Send \/ Arrive \/ Finish)

Next ==
  \/ Sender \/ Receiver
  \/ pc \notin {"exit", "dead"} /\ \E p \in 1..Len(script) : Announce(p)

Fairness == WF_vars(Sender) /\ WF_vars(Receiver)

Spec == Init /\ [][Next]_vars /\ Fairness

-----------------------------------------------------------------------------
(* Properties. *)

\* A receiver dies of asking for the byte a second time only if it always asks
\* (recv02), or has read data that stood before the mark since (recv03, recv03p),
\* and the condition lasts until the mark is passed; or in a handler that comes
\* after the read() that passed the mark.
DiesAsking ==
  why = "EINVAL" => \/ recv.again /\ ~forgets
                    \/ Selects /\ ~forgets /\ before
                    \/ Handles /\ mark < next

\* Inline, "at OOB mark" is printed for an urgent byte and no other.
MarkIsUrgent == ~wrong

\* With select() the last urgent byte is received as such by who comes to the end.
NoUrgentMissed ==
  Selects /\ pc = "exit" => mark \in urgent

\* A program that reads comes to the end of what is sent, or dies.
Received == <>[](recv.reads => pc \in {"exit", "dead"})

\* recv05 never reads: the byte does not come before there is room for it.
NoRoom == ~recv.reads /\ RcvBuf = 1 => urgent = {}

OobSafe == DiesAsking /\ MarkIsUrgent /\ NoUrgentMissed /\ NoRoom
===============================================================================
