------------------------------ MODULE TimedWait ------------------------------
(***************************************************************************)
(* The course book's UDP clients that stop waiting after a while: six      *)
(* broadcast clients, which print every reply that comes within five       *)
(* seconds, and three that wait for one.  They differ in how the alarm     *)
(* gets them out of the call they are blocked in, and so in what happens   *)
(* when SIGALRM comes while they are not in it.                            *)
(*                                                                         *)
(* prog is the program: "plain" (dgclibcast1.c), "slow" (2, which sleeps   *)
(* before it prints), "masked" (3), "pselect" (4), "jump" (5), "pipe" (6), *)
(* "alarm" (dgclitimeo3.c), "select" (1) and "rcvtimeo" (2).  A reply is   *)
(* the number of the line it answers.                                      *)
(***************************************************************************)
EXTENDS Naturals, Sequences

CONSTANTS
  MaxLines,  \* bound: lines typed
  Hosts      \* hosts that answer a request

VARIABLES
  prog,
  pc,        \* "fgets", "top" (of the loop), "open", "in" (the blocking
             \* call), "open2", "print" or "crashed"
  line,      \* lines sent
  alarm,     \* is the timer running?
  blocked,   \* is SIGALRM blocked?
  pending,   \* is it pending?
  pipe,      \* bytes in the pipe
  jmpset,    \* has jmpbuf been set?
  due,       \* replies on their way, by line
  inbox,     \* replies in the socket's queue
  missed     \* history: the alarm went off without any effect on the wait

client == <<pc, line, alarm, blocked, pending, pipe, jmpset, missed>>
vars == <<prog, client, due, inbox>>

Collect == {"plain", "slow", "masked", "pselect", "jump", "pipe"}
Single  == {"alarm", "select", "rcvtimeo"}
Programs == Collect \cup Single

Init ==
  /\ prog \in Programs
  /\ pc = "fgets" /\ line = 0
  /\ alarm = FALSE /\ blocked = FALSE /\ pending = FALSE
  /\ pipe = 0 /\ jmpset = FALSE
  /\ due = [l \in 1..MaxLines |-> 0]
  /\ inbox = <<>>
  /\ missed = FALSE

Goto(a, b) == pc = a /\ pc' = b

\* What a step that only moves on leaves alone.
Rest == <<prog, line, alarm, blocked, pending, pipe, jmpset, due, inbox, missed>>

\* The reply at the head of the queue is read.
TakeReply ==
  /\ inbox # <<>>
  /\ inbox' = Tail(inbox)

-----------------------------------------------------------------------------
(* All programs: a line is read and sent, and the timer started.  select()  *)
(* and SO_RCVTIMEO have a timer of their own, which cannot run out before    *)
(* the call; "pselect" blocks the signal first.                              *)

SendLine ==
  /\ pc = "fgets" /\ line < MaxLines
  /\ line' = line + 1
  /\ due' = [due EXCEPT ![line + 1] = IF prog \in Single THEN 1 ELSE Hosts]
  /\ alarm' = (prog \notin {"select", "rcvtimeo"})
  /\ blocked' = (blocked \/ prog = "pselect")
  /\ missed' = FALSE
  /\ pc' = "top"
  /\ UNCHANGED <<prog, pending, pipe, jmpset, inbox>>

\* dgclibcast1.c and 2, dgclitimeo3.c: recvfrom, print, again; "alarm" is
\* done after one reply and stops the timer.
Plain ==
  /\ prog \in {"plain", "slow"}
  /\ \/ Goto("top", "in") /\ UNCHANGED Rest
     \/ Goto("in", "print") /\ TakeReply
        /\ UNCHANGED <<prog, line, alarm, blocked, pending, pipe, jmpset, due, missed>>
     \/ Goto("print", "top") /\ UNCHANGED Rest

OneReply ==
  /\ prog = "alarm"
  /\ \/ Goto("top", "in") /\ UNCHANGED Rest
     \/ Goto("in", "print") /\ TakeReply
        /\ UNCHANGED <<prog, line, alarm, blocked, pending, pipe, jmpset, due, missed>>
     \/ Goto("print", "fgets") /\ alarm' = FALSE
        /\ UNCHANGED <<prog, line, blocked, pending, pipe, jmpset, due, inbox, missed>>

\* dgclibcast3.c: the signal is unblocked around recvfrom.  One that is
\* pending is handled before sigprocmask returns, that is too early.
Masked ==
  /\ prog = "masked"
  /\ \/ Goto("top", "open")
        /\ blocked' = FALSE /\ pending' = FALSE
        /\ missed' = (missed \/ pending)
        /\ UNCHANGED <<prog, line, alarm, pipe, jmpset, due, inbox>>
     \/ Goto("open", "in") /\ UNCHANGED Rest
     \/ Goto("in", "open2") /\ TakeReply
        /\ UNCHANGED <<prog, line, alarm, blocked, pending, pipe, jmpset, due, missed>>
     \/ Goto("open2", "print") /\ blocked' = TRUE
        /\ UNCHANGED <<prog, line, alarm, pending, pipe, jmpset, due, inbox, missed>>
     \/ Goto("print", "top") /\ UNCHANGED Rest

\* dgclibcast4.c: pselect() unblocks the signal and waits in one step, and a
\* pending one ends it at once.
Pselect ==
  /\ prog = "pselect"
  /\ \/ Goto("top", "in") /\ ~pending /\ blocked' = FALSE
        /\ UNCHANGED <<prog, line, alarm, pending, pipe, jmpset, due, inbox, missed>>
     \/ Goto("top", "fgets") /\ pending /\ pending' = FALSE
        /\ UNCHANGED <<prog, line, alarm, blocked, pipe, jmpset, due, inbox, missed>>
     \/ Goto("in", "print") /\ TakeReply /\ blocked' = TRUE
        /\ UNCHANGED <<prog, line, alarm, pending, pipe, jmpset, due, missed>>
     \/ Goto("print", "top") /\ UNCHANGED Rest

\* dgclibcast5.c: sigsetjmp before each recvfrom.
Jump ==
  /\ prog = "jump"
  /\ \/ Goto("top", "in") /\ jmpset' = TRUE
        /\ UNCHANGED <<prog, line, alarm, blocked, pending, pipe, due, inbox, missed>>
     \/ Goto("in", "print") /\ TakeReply
        /\ UNCHANGED <<prog, line, alarm, blocked, pending, pipe, jmpset, due, missed>>
     \/ Goto("print", "top") /\ UNCHANGED Rest

\* dgclibcast6.c: select() on socket and pipe; the socket is looked at first,
\* and the byte in the pipe ends the wait.
SelfPipe ==
  /\ prog = "pipe"
  /\ \/ Goto("top", "in") /\ UNCHANGED Rest
     \/ /\ pc = "in" /\ (inbox # <<>> \/ pipe > 0)
        /\ inbox' = IF inbox = <<>> THEN inbox ELSE Tail(inbox)
        /\ IF pipe > 0 THEN pipe' = pipe - 1 /\ pc' = "fgets"
                       ELSE pc' = "top" /\ UNCHANGED pipe
        /\ UNCHANGED <<prog, line, alarm, blocked, pending, jmpset, due, missed>>

\* dgclitimeo1.c: Readable_timeo, then Recvfrom; the timer is select()'s.
ReadableTimeo ==
  /\ prog = "select"
  /\ \/ Goto("top", "in") /\ alarm' = TRUE
        /\ UNCHANGED <<prog, line, blocked, pending, pipe, jmpset, due, inbox, missed>>
     \/ Goto("in", "fgets") /\ TakeReply /\ alarm' = FALSE
        /\ UNCHANGED <<prog, line, blocked, pending, pipe, jmpset, due, missed>>

\* dgclitimeo2.c: recvfrom with SO_RCVTIMEO; the timer is the socket's.
RcvTimeo ==
  /\ prog = "rcvtimeo"
  /\ \/ Goto("top", "in") /\ alarm' = TRUE
        /\ UNCHANGED <<prog, line, blocked, pending, pipe, jmpset, due, inbox, missed>>
     \/ Goto("in", "fgets") /\ TakeReply /\ alarm' = FALSE
        /\ UNCHANGED <<prog, line, blocked, pending, pipe, jmpset, due, missed>>

Client ==
  \/ Plain \/ OneReply \/ Masked \/ Pselect \/ Jump \/ SelfPipe
  \/ ReadableTimeo \/ RcvTimeo

-----------------------------------------------------------------------------
(* The timer runs out. *)

\* A handler that only returns: it interrupts the blocking call, and does
\* nothing anywhere else.
Interrupt ==
  /\ IF pc = "in"
     THEN pc' = "fgets" /\ blocked' = (blocked \/ prog \in {"masked", "pselect"})
          /\ UNCHANGED missed
     ELSE missed' = (pc # "print" \/ prog # "alarm") /\ UNCHANGED <<pc, blocked>>
  /\ UNCHANGED <<pending, pipe>>

\* siglongjmp(), from wherever the program is; with no jmpbuf it crashes.
LongJump ==
  /\ pc' = IF jmpset THEN "fgets" ELSE "crashed"
  /\ UNCHANGED <<blocked, pending, pipe, missed>>

\* Mutant: the handler only returns, as in the other programs.
WriteByteNot ==
  /\ pc' = IF pc = "in" THEN "top" ELSE pc
  /\ UNCHANGED <<pipe, blocked, pending, missed>>

\* A byte is written to the pipe; select() is interrupted and called again.
WriteByte ==
  /\ pipe' = pipe + 1
  /\ pc' = IF pc = "in" THEN "top" ELSE pc
  /\ UNCHANGED <<blocked, pending, missed>>

Expire ==
  /\ alarm
  /\ alarm' = FALSE
  /\ IF blocked THEN pending' = TRUE /\ UNCHANGED <<pc, blocked, pipe, missed>>
     ELSE CASE prog = "jump" -> LongJump
            [] prog = "pipe" -> WriteByte
            [] OTHER -> Interrupt
  /\ UNCHANGED <<prog, line, jmpset, due, inbox>>

-----------------------------------------------------------------------------
(* The network. *)

Arrive(l) ==
  /\ due[l] > 0
  /\ due' = [due EXCEPT ![l] = @ - 1]
  /\ inbox' \in {inbox, Append(inbox, l)}
  /\ UNCHANGED <<prog, client>>

Next == SendLine \/ Client \/ Expire \/ \E l \in 1..MaxLines : Arrive(l)

\* The program runs and the timer runs out; replies need not come.
Fairness == WF_vars(Client) /\ WF_vars(Expire)
Spec == Init /\ [][Next]_vars /\ Fairness

-----------------------------------------------------------------------------
(* Properties. *)

\* Whatever replies come and when, each wait ends, unless the alarm went off
\* while the program was not in the call it is to interrupt.
WaitEnds == []<>(pc \in {"fgets", "crashed"} \/ missed)

\* That can happen to the programs whose handler only returns, with or
\* without a mask around recvfrom, but to none of the others: pselect(), the
\* jump, the pipe and the two timeouts of the kernel lose no alarm.  Nor is one
\* left over to cut the next line's wait short: not a running timer, a pending
\* signal or a byte in the pipe.
AlarmOnce ==
  /\ missed => prog \in {"plain", "slow", "masked", "alarm"}
  /\ pc = "fgets" => ~alarm /\ ~pending /\ pipe = 0

===============================================================================
