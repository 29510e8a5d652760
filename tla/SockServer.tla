------------------------------ MODULE SockServer ------------------------------
(***************************************************************************)
(* The listening side of sock -s (sock/servopen.c): one connection, or     *)
(* with -F a child for each, where the parent waits for the signal by      *)
(* which the child says that it is done with the terminal (tellwait.c).    *)
(* And the clients that open connections (cliopen.c), which SIGIO may      *)
(* interrupt.  A client is also its connection and the child that gets it. *)
(***************************************************************************)
EXTENDS Naturals, Sequences, FiniteSets

CONSTANTS
  NClients,
  MaxProc    \* bound: children there can be

Clients == 1..NClients

VARIABLES
  dofork,
  nproc,       \* children there can be, living or not waited for
  pc,          \* "accept", "test", "suspend", "loop" or "exit"
  sigflag,
  blocked,     \* whether SIGUSR2 is, of the parent
  pending,     \* whether one waits to be delivered
  backlog,
  serving,     \* the connection the process itself serves
  child,       \* of each connection: "none", "setup", "loop" or "zombie"
  untold,      \* whether a child has died before TELL_PARENT()
  cpc,         \* of each client: "start", "calling", "again", "open", "gone" or "failed"
  est          \* connections that have been established

conf == <<dofork, nproc>>
signals == <<sigflag, blocked, pending>>
vars == <<conf, pc, signals, backlog, serving, child, untold, cpc, est>>

Init ==
  /\ dofork \in BOOLEAN /\ nproc \in 2..MaxProc
  /\ pc = "accept" /\ sigflag = FALSE /\ pending = FALSE
  /\ blocked = dofork                       \* TELL_WAIT()
  /\ backlog = <<>> /\ serving = 0 /\ untold = FALSE
  /\ child = [c \in Clients |-> "none"]
  /\ cpc = [c \in Clients |-> "start"] /\ est = {}

In(l) == {c \in Clients : child[c] = l}

-----------------------------------------------------------------------------
(* The server. *)

\* accept(), and fork(), whose failure ends the server.
Accept ==
  /\ pc = "accept" /\ backlog # <<>> /\ backlog' = Tail(backlog)
  /\ IF ~dofork THEN pc' = "loop" /\ serving' = Head(backlog) /\ UNCHANGED child
     ELSE /\ UNCHANGED serving
          /\ IF Cardinality(Clients \ In("none")) < nproc
             THEN pc' = "test" /\ child' = [child EXCEPT ![Head(backlog)] = "setup"]
             ELSE pc' = "exit" /\ UNCHANGED child
  /\ UNCHANGED <<conf, signals, untold, cpc, est>>

\* Mutant: sigflag is not reset.
WaitChildKeeps ==
  /\ pc = "test"
  /\ IF sigflag THEN pc' = "accept" /\ UNCHANGED sigflag /\ blocked' = FALSE
     ELSE pc' = "suspend" /\ UNCHANGED <<sigflag, blocked>>
  /\ UNCHANGED <<conf, pending, backlog, serving, child, untold, cpc, est>>

\* WAIT_CHILD() tests sigflag.  It leaves SIGUSR2 as it was before TELL_WAIT(),
\* that is, no longer blocked.
WaitChild ==
  /\ pc = "test"
  /\ IF sigflag THEN pc' = "accept" /\ sigflag' = FALSE /\ blocked' = FALSE
     ELSE pc' = "suspend" /\ UNCHANGED <<sigflag, blocked>>
  /\ UNCHANGED <<conf, pending, backlog, serving, child, untold, cpc, est>>

\* sig_usr(), in sigsuspend() or, when the signal is not blocked, anywhere.
Deliver ==
  /\ pending /\ pc # "exit" /\ (pc = "suspend" \/ ~blocked)
  /\ pending' = FALSE /\ sigflag' = TRUE
  /\ pc' = IF pc = "suspend" THEN "test" ELSE pc
  /\ UNCHANGED <<conf, blocked, backlog, serving, child, untold, cpc, est>>

\* Between the test and the call of sigsuspend(): the signal is not in time to
\* end it.
DeliverEarly ==
  /\ pending /\ pc = "test" /\ ~sigflag /\ ~blocked
  /\ pending' = FALSE /\ sigflag' = TRUE /\ pc' = "suspend"
  /\ UNCHANGED <<conf, blocked, backlog, serving, child, untold, cpc, est>>

\* The one connection has ended, and the program with it.
LoopEnds ==
  /\ pc = "loop" /\ cpc[serving] = "gone" /\ pc' = "exit"
  /\ UNCHANGED <<conf, signals, backlog, serving, child, untold, cpc, est>>

\* The options are set and the parent told; on a connection that has been reset
\* that may fail.
Setup(c) ==
  /\ child[c] = "setup"
  /\ \/ /\ child' = [child EXCEPT ![c] = "loop"] /\ UNCHANGED untold
        /\ pending' = (pending \/ pc # "exit")
     \/ /\ cpc[c] = "gone" /\ child' = [child EXCEPT ![c] = "zombie"] /\ untold' = TRUE
        /\ UNCHANGED pending
  /\ UNCHANGED <<conf, pc, sigflag, blocked, backlog, serving, cpc, est>>

\* exit(); nobody waits for the child.
ChildEnds(c) ==
  /\ child[c] = "loop" /\ cpc[c] = "gone" /\ child' = [child EXCEPT ![c] = "zombie"]
  /\ UNCHANGED <<conf, pc, signals, backlog, serving, untold, cpc, est>>

-----------------------------------------------------------------------------
(* A client. *)

Server == UNCHANGED <<conf, pc, signals, serving, child, untold>>
Goto(c, l) == cpc' = [cpc EXCEPT ![c] = l]

\* Clients are numbered in the order in which they connect.
Connect(c) ==
  /\ cpc[c] = "start" /\ \A d \in 1 .. c - 1 : cpc[d] # "start"
  /\ Goto(c, "calling") /\ UNCHANGED <<est, backlog>> /\ Server

\* The handshake, or the answer that nobody listens.
Handshake(c) ==
  /\ cpc[c] \in {"calling", "again"} /\ c \notin est
  /\ IF pc = "exit" THEN Goto(c, "failed") /\ UNCHANGED <<est, backlog>>
     ELSE est' = est \cup {c} /\ backlog' = Append(backlog, c) /\ UNCHANGED cpc
  /\ Server

Returns(c) ==
  /\ cpc[c] = "calling" /\ c \in est /\ Goto(c, "open") /\ UNCHANGED <<est, backlog>> /\ Server

\* EINTR.  SIGIO comes once at most here.
Interrupted(c) ==
  /\ cpc[c] = "calling" /\ c \notin est /\ \A d \in Clients : cpc[d] # "again"
  /\ Goto(c, "again") /\ UNCHANGED <<est, backlog>> /\ Server

\* connect() again: EISCONN when the connection is there.  While it is not, some
\* systems go on waiting and others return EALREADY, which ends the program.
CallAgain(c) ==
  /\ cpc[c] = "again"
  /\ IF c \in est THEN Goto(c, "open") ELSE Goto(c, "calling") \/ Goto(c, "failed")
  /\ UNCHANGED <<est, backlog>> /\ Server

Leave(c) == cpc[c] = "open" /\ Goto(c, "gone") /\ UNCHANGED <<est, backlog>> /\ Server

Parent == Accept \/ WaitChild \/ Deliver \/ DeliverEarly \/ LoopEnds
Child(c) == Setup(c) \/ ChildEnds(c)
Client(c) == Connect(c) \/ Handshake(c) \/ Returns(c) \/ Interrupted(c) \/ CallAgain(c) \/ Leave(c)

Next == Parent \/ \E c \in Clients : Child(c) \/ Client(c)

Fairness == WF_vars(Parent) /\ \A c \in Clients : WF_vars(Child(c)) /\ WF_vars(Returns(c) \/ CallAgain(c))

Spec == Init /\ [][Next]_vars /\ Fairness

-----------------------------------------------------------------------------

\* One child at a time uses the terminal before its parent goes on.
OneAtATime == Cardinality(In("setup")) <= 1

\* The parent waits for a signal that does not come any more.
Stuck == pc = "suspend" /\ ~pending /\ In("setup") = {}

\* The first child's signal is never lost.  A later one's may be, as SIGUSR2 is
\* blocked for the first only, and then the handler has run.
StuckFor == Stuck => untold \/ (sigflag /\ Cardinality(Clients \ In("none")) > 1)

\* A connection gets its child, unless the parent is stuck, has ended for want
\* of processes, or serves one connection only.
Accepted ==
  \A c \in Clients : []<>(c \in est => child[c] # "none" \/ Stuck \/ pc = "exit" \/ serving # 0)

\* The server ends for want of processes only when as many as there can be have
\* been started, be they still running or not: it never waits for one.
EndsAtLimit == dofork /\ pc = "exit" => Cardinality(Clients \ In("none")) = nproc

SockServerSafe == OneAtATime /\ StuckFor /\ EndsAtLimit

===============================================================================
