------------------------------ MODULE EchoServers ------------------------------
(***************************************************************************)
(* The echo servers that fork a child for each connection and how they     *)
(* bury it (tcpcliserv/tcpserv01.c to tcpserv09.c, unixstrserv01 and 02,   *)
(* oob/tcpserv02.c), and those that start a thread (threads/tcpserv01.c    *)
(* and tcpserv02.c).  A client is also its connection and the child or     *)
(* thread that serves it.                                                  *)
(***************************************************************************)
EXTENDS Naturals, Sequences, FiniteSets

CONSTANTS
  NClients,
  MaxProc    \* bound: children there can be, living or not waited for

Clients == 1..NClients

VARIABLES
  prog,       \* the program
  restart,    \* whether the system has SA_RESTART
  nproc,
  pc,         \* "accept", "interrupted", "failed", "fork", "dead"
  errno,      \* of the server: "none", "EINTR", "ECONNABORTED" or "ECHILD"
  why,        \* why the server has died: "none", an errno, "EAGAIN" or "thread"
  pending,    \* whether a SIGCHLD waits to be delivered; further ones are lost
  handling,   \* whether sig_chld() runs
  connfd,     \* the connection that has been accepted last
  backlog,
  child,      \* of each client: "none", "run", "zombie" or "gone"
  cpc         \* of each client: "start", "open", "closed" or "reset"

conf == <<prog, restart, nproc>>
vars == <<conf, pc, errno, why, pending, handling, connfd, backlog, child, cpc>>

\* What serves a connection, how the dead are buried, and the error of accept()
\* that is no reason to stop: for Accept() another one than for accept().
tcpserv01 == [serves |-> "child", buries |-> "never", again |-> "ECONNABORTED"]
tcpserv02 == [serves |-> "child", buries |-> "wait", again |-> "ECONNABORTED"]
tcpserv03 == [serves |-> "child", buries |-> "wait", again |-> "EINTR"]
tcpserv04 == [serves |-> "child", buries |-> "waitpid", again |-> "EINTR"]
tcpserv08 == [serves |-> "child", buries |-> "waitpid", again |-> "EINTR"]
tcpserv09 == [serves |-> "child", buries |-> "waitpid", again |-> "EINTR"]
unixstrserv01 == [serves |-> "child", buries |-> "waitpid", again |-> "EINTR"]
unixstrserv02 == [serves |-> "child", buries |-> "waitpid", again |-> "EINTR"]
oob_tcpserv02 == [serves |-> "child", buries |-> "waitpid", again |-> "EINTR"]
advio_tcpserv02 == [serves |-> "child", buries |-> "waitpid", again |-> "EINTR"]
threads_tcpserv01 == [serves |-> "thread", buries |-> "never", again |-> "ECONNABORTED"]
threads_tcpserv02 == [serves |-> "thread", buries |-> "never", again |-> "ECONNABORTED"]

Programs ==
  {tcpserv01, tcpserv02, tcpserv03, tcpserv04, tcpserv08, tcpserv09, unixstrserv01,
   unixstrserv02, oob_tcpserv02, advio_tcpserv02, threads_tcpserv01, threads_tcpserv02}

Init ==
  /\ prog \in Programs
  /\ restart \in BOOLEAN /\ nproc \in 2..MaxProc
  /\ pc = "accept" /\ errno = "none" /\ why = "none"
  /\ pending = FALSE /\ handling = FALSE /\ connfd = 0 /\ backlog = <<>>
  /\ child = [c \in Clients |-> "none"] /\ cpc = [c \in Clients |-> "start"]

In(l) == {c \in Clients : child[c] = l}
Handles == prog.buries # "never"
Threads == prog.serves = "thread"

\* err_sys() in the server.  Threads die with it, children do not; whoever waits
\* to be accepted is reset.
Die(w) ==
  /\ pc' = "dead" /\ why' = w /\ backlog' = <<>> /\ pending' = FALSE /\ handling' = FALSE
  /\ child' = [c \in Clients |-> IF Threads /\ child[c] = "run" THEN "gone" ELSE child[c]]

-----------------------------------------------------------------------------
(* The server. *)

\* accept().  A connection that its client has reset may be an error, on the
\* systems that say so.
Accept ==
  /\ pc = "accept" /\ ~handling /\ backlog # <<>> /\ backlog' = Tail(backlog)
  /\ \/ pc' = "fork" /\ connfd' = Head(backlog) /\ UNCHANGED errno
     \/ /\ cpc[Head(backlog)] = "reset" /\ errno' = "ECONNABORTED" /\ pc' = "failed"
        /\ UNCHANGED connfd
  /\ UNCHANGED <<conf, why, pending, handling, child, cpc>>

\* The test of errno: Accept() goes on after ECONNABORTED, the others after EINTR.
TestErrno ==
  /\ pc = "failed" /\ ~handling
  /\ IF errno = prog.again
     THEN pc' = "accept" /\ UNCHANGED <<why, pending, handling, backlog, child>>
     ELSE Die(errno)
  /\ UNCHANGED <<conf, errno, connfd, cpc>>

\* Fork() or Pthread_create().
Fork ==
  /\ pc = "fork" /\ ~handling
  /\ IF ~Threads /\ Cardinality(In("run") \cup In("zombie")) = nproc THEN Die("EAGAIN")
     ELSE /\ pc' = "accept" /\ child' = [child EXCEPT ![connfd] = "run"]
          /\ UNCHANGED <<why, pending, handling, backlog>>
  /\ UNCHANGED <<conf, errno, connfd, cpc>>

\* SIGCHLD.  It comes between two statements, or interrupts an accept() that has
\* nothing to accept, which starts again or will fail.
Deliver ==
  /\ pending /\ ~handling /\ pending' = FALSE /\ handling' = TRUE
  /\ \/ UNCHANGED pc
     \/ pc = "accept" /\ backlog = <<>> /\ ~restart /\ pc' = "interrupted"
  /\ UNCHANGED <<conf, errno, why, connfd, backlog, child, cpc>>

\* accept() fails once the handler has returned.
Interrupted ==
  /\ pc = "interrupted" /\ ~handling /\ pc' = "failed" /\ errno' = "EINTR"
  /\ UNCHANGED <<conf, why, pending, handling, connfd, backlog, child, cpc>>

Bury(c) == child[c] = "zombie" /\ child' = [child EXCEPT ![c] = "gone"]

\* sig_chld() with one wait(), which has nothing to do but wait when no child
\* has died.
Wait ==
  /\ handling /\ prog.buries = "wait" /\ handling' = FALSE
  /\ IF In("run") \cup In("zombie") = {} THEN errno' = "ECHILD" /\ UNCHANGED child
     ELSE UNCHANGED errno /\ \E c \in Clients : Bury(c)
  /\ UNCHANGED <<conf, pc, why, pending, connfd, backlog, cpc>>

\* Mutant: waitpid() is called once.
WaitpidOnce ==
  /\ handling /\ prog.buries = "waitpid" /\ handling' = FALSE
  /\ \/ \E c \in Clients : Bury(c) /\ UNCHANGED errno
     \/ /\ In("zombie") = {} /\ UNCHANGED child
        /\ errno' = IF In("run") = {} THEN "ECHILD" ELSE errno
  /\ UNCHANGED <<conf, pc, why, pending, connfd, backlog, cpc>>

\* sig_chld() with waitpid() until there is none to bury; the last call fails
\* when there is no child at all, and leaves its errno.
Waitpid ==
  /\ handling /\ prog.buries = "waitpid"
  /\ \/ \E c \in Clients : Bury(c) /\ UNCHANGED <<errno, handling>>
     \/ /\ In("zombie") = {} /\ handling' = FALSE /\ UNCHANGED child
        /\ errno' = IF In("run") = {} THEN "ECHILD" ELSE errno
  /\ UNCHANGED <<conf, pc, why, pending, connfd, backlog, cpc>>

-----------------------------------------------------------------------------
(* Children or threads, and clients. *)

Reported == pending' = (pending \/ (Handles /\ pc # "dead"))

\* str_echo() is over, at the end of what the client sends or by an error, of
\* which a thread dies with all others.
ServeEnds(c) ==
  /\ child[c] = "run"
  /\ IF Threads
     THEN \/ /\ cpc[c] = "closed" /\ child' = [child EXCEPT ![c] = "gone"]
             /\ UNCHANGED <<pc, why, backlog, pending, handling>>
          \/ cpc[c] = "reset" /\ Die("thread")
     ELSE /\ cpc[c] \in {"closed", "reset"} /\ child' = [child EXCEPT ![c] = "zombie"]
          /\ Reported /\ UNCHANGED <<pc, why, backlog, handling>>
  /\ UNCHANGED <<conf, errno, connfd, cpc>>

Connect(c) ==
  /\ cpc[c] = "start" /\ pc # "dead" /\ \A d \in 1 .. c - 1 : cpc[d] # "start"
  /\ cpc' = [cpc EXCEPT ![c] = "open"] /\ backlog' = Append(backlog, c)
  /\ UNCHANGED <<conf, pc, errno, why, pending, handling, connfd, child>>

\* tcpcli01 ends its connections, tcpcli10 resets its own.
Leave(c) ==
  /\ cpc[c] = "open" /\ \E l \in {"closed", "reset"} : cpc' = [cpc EXCEPT ![c] = l]
  /\ UNCHANGED <<conf, pc, errno, why, pending, handling, connfd, backlog, child>>

Server == Accept \/ TestErrno \/ Fork \/ Deliver \/ Interrupted \/ Wait \/ Waitpid

Next == Server \/ \E c \in Clients : ServeEnds(c) \/ Connect(c) \/ Leave(c)

Fairness == WF_vars(Server) /\ \A c \in Clients : WF_vars(ServeEnds(c))

Spec == Init /\ [][Next]_vars /\ Fairness

-----------------------------------------------------------------------------
(* Properties. *)

\* waitpid() in a loop buries every child in spite of lost signals; with wait(),
\* two that die together may leave one; and wait() is called for a child that
\* has died, so that the handler never blocks the server.
Buried ==
  /\ prog.buries = "waitpid" /\ pc # "dead" /\ ~pending /\ ~handling => In("zombie") = {}
  /\ handling /\ prog.buries = "wait" => In("zombie") # {}

\* What ends a server: a refused fork(); an interrupted Accept() where calls are
\* not started again; for the servers that
\* test for EINTR only, a connection that was reset early, or the errno that
\* waitpid() leaves if the handler runs between the failure of accept() and the
\* test; and of the threads only the reset of a connection.
DiesOf ==
  pc = "dead" =>
    \/ why = "EAGAIN" /\ ~Threads
    \/ why = "EINTR" /\ prog = tcpserv02 /\ ~restart
    \/ why = "ECONNABORTED" /\ prog.again = "EINTR" /\ \E c \in Clients : cpc[c] = "reset"
    \/ /\ why = "ECHILD" /\ prog.buries = "waitpid"
       /\ ~restart \/ \E c \in Clients : cpc[c] = "reset"
    \/ why = "thread" /\ Threads /\ \E c \in Clients : cpc[c] = "reset"

EchoServersSafe == Buried /\ DiesOf

\* Who has connected is served and, once it is gone, forgotten, by a server that
\* lives; the others are zombies for ever without a handler.
AllEchoed ==
  \A c \in Clients :
    /\ []<>(cpc[c] # "start" => child[c] # "none" \/ pc = "dead" \/ cpc[c] = "reset")
    /\ []<>(child[c] = "zombie" /\ prog.buries = "waitpid" => pc = "dead")
===============================================================================
