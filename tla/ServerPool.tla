------------------------------ MODULE ServerPool ------------------------------
(***************************************************************************)
(* The course book's ten designs of one TCP server, server/serv00.c to     *)
(* serv09.c, with the clients that test them.  All call web_child() for a  *)
(* connection; they differ in who accepts it and who serves it, and so in  *)
(* who goes down with one bad request.                                     *)
(*                                                                         *)
(* design is the program:                                                  *)
(*   "iterative" 00   "fork"     01   "prefork" 02    "select"  02 + 02l   *)
(*   "fcntl"     03   "mutex"    04   "pass"    05    "thread"  06         *)
(*   "locked"    07   "ring"     08   "threads" 09                         *)
(* A worker is a child or a thread; the iterative server is its own.       *)
(***************************************************************************)
EXTENDS Naturals, FiniteSets, SequencesExt

CONSTANTS
  MaxConn,    \* bound: connections made
  NChildren,  \* children or threads made at the start
  MAXNCLI     \* size of the ring of serv08

ASSUME PoolAssumption ==
  /\ MaxConn \in Nat /\ NChildren \in 1..MaxConn /\ MAXNCLI \in Nat \ {0, 1}

VARIABLES
  design,
  mpc,      \* the main process or thread: "accept", "scan", "select", "pause",
            \* "wait" (in sig_int) or "gone"
  wpc,      \* per worker: "none", "top" (of its loop), "accept", "release",
            \* "serve", "ready", "wait", "woken" or "gone"
  wfd,      \* per worker: the connection it serves, or 0
  lock,     \* the worker that holds the lock around accept(), or 0
  backlog,  \* complete connections nobody has accepted
  conn,     \* per connection: "none"; "good", "bad" (a request waits) or
            \* "mute" (none will come); "answered", "closed", "reset" or "cut"
  pass,     \* serv05: child_status, navail, rset and the stream pipes
  ring,     \* serv08: clifd, iget and iput
  zombies,  \* serv01: ended children nobody has waited for
  sigchld   \* is SIGCHLD pending for the parent?

vars == <<design, mpc, wpc, wfd, lock, backlog, conn, pass, ring, zombies, sigchld>>

Workers == 1..MaxConn
Conns   == 1..MaxConn

\* One process, so that what ends a worker ends the server.
Threaded == design \in {"iterative", "thread", "locked", "ring", "threads"}
\* The children accept, and the parent only waits for a signal.
Preforked == design \in {"prefork", "select", "fcntl", "mutex"}

Gone(w) == wpc[w] \in {"none", "gone"}
Live == {w \in Workers : ~Gone(w)}

AtStart ==
  CASE design \in {"fork", "thread"} -> {}
    [] design = "iterative"          -> {1}
    [] OTHER                         -> 1..NChildren

Init ==
  /\ design \in {"iterative", "fork", "prefork", "select", "fcntl", "mutex",
                 "pass", "thread", "locked", "ring", "threads"}
  /\ mpc = CASE design = "pass" -> "select"
             [] design \in {"fork", "thread", "ring"} -> "accept"
             [] OTHER -> "pause"
  /\ wpc = [w \in Workers |-> IF w \in AtStart THEN "top" ELSE "none"]
  /\ wfd = [w \in Workers |-> 0]
  /\ lock = 0 /\ backlog = <<>>
  /\ conn = [k \in Conns |-> "none"]
  /\ pass = [status |-> [w \in Workers |-> 0], navail |-> NChildren, rset |-> {},
             chan |-> [w \in Workers |-> 0], byte |-> {}]
  /\ ring = [clifd |-> [i \in 0..MAXNCLI-1 |-> 0], iget |-> 0, iput |-> 0]
  /\ zombies = {} /\ sigchld = FALSE

\* The connections in the ring.
Waiting == LET n == (ring.iput + MAXNCLI - ring.iget) % MAXNCLI
           IN {ring.clifd[(ring.iget + i) % MAXNCLI] : i \in 0..n-1}

\* Who keeps the listening socket: the main process, and children that
\* accept.
Listens(m, live) == m # "gone" \/ (Preforked /\ live # {})
Listening == Listens(mpc, Live)

-----------------------------------------------------------------------------
(* How processes end. *)

\* The server's end of the connections in S is closed without an answer.
Cut(S) == [k \in Conns |-> IF k \in S /\ conn[k] \in {"good", "bad", "mute"} THEN "cut" ELSE conn[k]]

\* Mutant: a parent that ends takes its children along.
EndTogether(W, m) ==
  LET left == IF m = "gone" THEN {} ELSE Live \ W
      open == {wfd[w] : w \in Workers \ left} \ {0}
  IN /\ wpc' = [w \in Workers |-> IF w \in Live \ left THEN "gone" ELSE wpc[w]]
     /\ mpc' = m
     /\ wfd' = [w \in Workers |-> IF w \notin left THEN 0 ELSE wfd[w]]
     /\ conn' = Cut(open)
     /\ backlog' = IF Listens(m, left) THEN backlog ELSE <<>>
     /\ lock' = 0 /\ zombies' = {} /\ sigchld' = FALSE

\* The workers in W end, and main goes to m.  A record lock goes with its process;
\* a mutex in shared memory (lock_pthread.c) does not.
End(W, m) ==
  LET left == Live \ W
      open == ({wfd[w] : w \in W} \cup {pass.chan[w] : w \in W}
               \cup (IF m = "gone" /\ design = "ring" THEN Waiting ELSE {})) \ {0}
      deaf == ~Listens(m, left)
  IN /\ wpc' = [w \in Workers |-> IF w \in Live \ left THEN "gone" ELSE wpc[w]]
     /\ mpc' = m
     /\ wfd' = [w \in Workers |-> IF w \in W THEN 0 ELSE wfd[w]]
     /\ conn' = Cut(open \cup {k \in Conns : deaf /\ \E i \in DOMAIN backlog : backlog[i] = k})
     /\ backlog' = IF deaf THEN <<>> ELSE backlog
     /\ lock' = IF lock \in W /\ design # "mutex" THEN 0 ELSE lock
     /\ zombies' = IF design = "fork" /\ m # "gone" THEN zombies \cup (Live \ left) ELSE {}
     /\ sigchld' = (sigchld \/ zombies' # zombies)

\* err_quit or err_sys in a worker or in main: the process ends.
Quits(w) == IF Threaded THEN End(Workers, "gone") ELSE End({w}, mpc)
MainQuits == End(IF Threaded THEN Workers ELSE {}, "gone")

\* SIGINT: serv02 to serv05 send SIGTERM to the children and wait for them;
\* serv01 leaves its children alone.
Sig_int ==
  /\ mpc \notin {"wait", "gone"}
  /\ CASE design = "fork" -> MainQuits
       [] Threaded        -> MainQuits
       [] OTHER           -> End(Workers, "wait")
  /\ UNCHANGED <<design, pass, ring>>

\* The end of sig_int in serv02 to serv05.
Exit == mpc = "wait" /\ Live = {} /\ MainQuits

\* Something outside of the program kills one of its processes.
Kill ==
  /\ \/ ~Threaded /\ \E w \in Live : End({w}, mpc)
     \/ mpc # "gone" /\ MainQuits
  /\ UNCHANGED <<design, pass, ring>>

\* sig_chld_waitpid.c: signals are not queued, so it waits for all there are.
Sig_chld ==
  /\ sigchld /\ mpc # "gone"
  /\ sigchld' = FALSE
  /\ zombies' = {}
  /\ UNCHANGED <<design, mpc, wpc, wfd, lock, backlog, conn, pass, ring>>

-----------------------------------------------------------------------------
(* web_child(), and what follows it in each design. *)

\* Where a worker goes when its client is done: children and threads of one
\* client end, the others return to their loop.
Closed(w) ==
  CASE design \in {"fork", "thread"} -> "gone"
    [] design = "pass"               -> "ready"
    [] OTHER                         -> "top"

Web_child(w) ==
  /\ wpc[w] = "serve"
  /\ LET k == wfd[w]
     IN \/ /\ conn[k] = "good"
           /\ conn' = [conn EXCEPT ![k] = "answered"]
           /\ UNCHANGED <<mpc, wpc, wfd, lock, backlog, zombies, sigchld>>
        \/ conn[k] \in {"bad", "reset"} /\ Quits(w)
        \/ /\ conn[k] = "closed"
           /\ wpc' = [wpc EXCEPT ![w] = Closed(w)]
           /\ wfd' = [wfd EXCEPT ![w] = 0]
           /\ zombies' = IF design = "fork" /\ mpc # "gone" THEN zombies \cup {w} ELSE zombies
           /\ sigchld' = (sigchld \/ zombies' # zombies)
           /\ UNCHANGED <<mpc, lock, backlog, conn>>
  /\ UNCHANGED <<design, pass, ring>>

-----------------------------------------------------------------------------
(* Workers that accept. *)

Goto(w, a, b) == wpc[w] = a /\ wpc' = [wpc EXCEPT ![w] = b]

\* Accept() in a worker.  It retries if the connection was aborted.
Accept(w, from, to) ==
  /\ Goto(w, from, to)
  /\ backlog # <<>>
  /\ wfd' = [wfd EXCEPT ![w] = Head(backlog)]
  /\ backlog' = Tail(backlog)
  /\ UNCHANGED <<lock, conn>>

Serv00(w)   == design = "iterative" /\ Accept(w, "top", "serve")
Child02(w)  == design = "prefork" /\ Accept(w, "top", "serve")
Pthread09(w) == design = "threads" /\ Accept(w, "top", "serve")

\* All children that wait in select() are told of one connection.
Child02l(w) ==
  /\ design = "select"
  /\ \/ Goto(w, "top", "accept") /\ backlog # <<>> /\ UNCHANGED <<wfd, lock, backlog, conn>>
     \/ Accept(w, "accept", "serve")

\* my_lock_wait(), Accept() and my_lock_release().
My_lock_wait(w) ==
  /\ Goto(w, "top", "accept")
  /\ lock = 0 /\ lock' = w
  /\ UNCHANGED <<wfd, backlog, conn>>
My_lock_release(w) ==
  /\ Goto(w, "release", "serve")
  /\ lock' = 0
  /\ UNCHANGED <<wfd, backlog, conn>>
LockedAccept(w) ==
  My_lock_wait(w) \/ Accept(w, "accept", "release") \/ My_lock_release(w)

Child03(w)   == design = "fcntl" /\ LockedAccept(w)
Child04(w)   == design = "mutex" /\ LockedAccept(w)
Pthread07(w) == design = "locked" /\ LockedAccept(w)

OwnAccept(w) ==
  /\ \/ Serv00(w) \/ Child02(w) \/ Child02l(w) \/ Child03(w) \/ Child04(w)
     \/ Pthread07(w) \/ Pthread09(w)
  /\ UNCHANGED <<design, mpc, pass, ring, zombies, sigchld>>

-----------------------------------------------------------------------------
(* serv01 and serv06: main accepts and makes a worker for the connection; it *)
(* quits if it cannot.                                                       *)

Creates ==
  /\ backlog # <<>>
  /\ wpc' = [wpc EXCEPT ![Head(backlog)] = "serve"]
  /\ wfd' = [wfd EXCEPT ![Head(backlog)] = Head(backlog)]
  /\ backlog' = Tail(backlog)
  /\ UNCHANGED <<mpc, lock, conn, zombies, sigchld>>

CannotCreate == backlog # <<>> /\ MainQuits

Serv01 == design = "fork" /\ mpc = "accept" /\ (Creates \/ CannotCreate)
Serv06 == design = "thread" /\ mpc = "accept" /\ (Creates \/ CannotCreate)

-----------------------------------------------------------------------------
(* serv08: main puts connections into a ring, threads take them out.         *)

Succ(i) == (i + 1) % MAXNCLI

Serv08 ==
  /\ design = "ring" /\ mpc = "accept" /\ backlog # <<>>
  /\ IF Succ(ring.iput) = ring.iget
     THEN MainQuits /\ UNCHANGED ring
     ELSE /\ ring' = [ring EXCEPT !.clifd[ring.iput] = Head(backlog), !.iput = Succ(@)]
          /\ backlog' = Tail(backlog)
          /\ LET asleep == {w \in Workers : wpc[w] = "wait"}
             IN IF asleep = {} THEN UNCHANGED wpc
                ELSE \E w \in asleep : wpc' = [wpc EXCEPT ![w] = "woken"]
          /\ UNCHANGED <<mpc, wfd, lock, conn, zombies, sigchld>>

TakeFromRing(w) ==
  /\ wfd' = [wfd EXCEPT ![w] = ring.clifd[ring.iget]]
  /\ ring' = [ring EXCEPT !.iget = Succ(@)]
  /\ wpc' = [wpc EXCEPT ![w] = "serve"]

\* Mutant: if in place of while around pthread_cond_wait().
Pthread08If(w) ==
  /\ design = "ring"
  /\ \/ wpc[w] = "top" /\ ring.iget # ring.iput /\ TakeFromRing(w)
     \/ wpc[w] = "woken" /\ ring.clifd[ring.iget] # 0 /\ TakeFromRing(w)
     \/ Goto(w, "top", "wait") /\ ring.iget = ring.iput /\ UNCHANGED <<wfd, ring>>

\* Mutant: a thread waits before it has looked at the ring.
Pthread08Waits(w) ==
  /\ design = "ring"
  /\ \/ Goto(w, "top", "wait") /\ UNCHANGED <<wfd, ring>>
     \/ wpc[w] = "woken" /\ ring.iget # ring.iput /\ TakeFromRing(w)
     \/ Goto(w, "woken", "wait") /\ ring.iget = ring.iput /\ UNCHANGED <<wfd, ring>>

\* The condition is tested again after a wake-up: another thread may have been
\* quicker.
Pthread08(w) ==
  /\ design = "ring"
  /\ \/ wpc[w] \in {"top", "woken"} /\ ring.iget # ring.iput /\ TakeFromRing(w)
     \/ /\ wpc[w] \in {"top", "woken"} /\ ring.iget = ring.iput
        /\ wpc' = [wpc EXCEPT ![w] = "wait"]
        /\ UNCHANGED <<wfd, ring>>

-----------------------------------------------------------------------------
(* serv05: the parent accepts and passes the descriptor to an idle child,     *)
(* over a stream pipe, by which the child tells it is idle again.             *)

\* select(): the listening socket is left out if no child is idle.
Serv05Select ==
  /\ design = "pass" /\ mpc = "select"
  /\ pass' = [pass EXCEPT !.rset = {w \in 1..NChildren : w \in pass.byte \/ wpc[w] = "gone"}]
  /\ \/ backlog # <<>> /\ pass.navail > 0 /\ mpc' = "accept"
     \/ (backlog = <<>> \/ pass.navail = 0) /\ pass'.rset # {} /\ mpc' = "scan"
  /\ UNCHANGED <<wpc, wfd, lock, backlog, conn, zombies, sigchld>>

\* The child with the lowest index that is idle gets the connection; writing
\* to one that is gone raises SIGPIPE.
Serv05Accept ==
  /\ design = "pass" /\ mpc = "accept"
  /\ backlog # <<>>
  /\ LET idle == {w \in 1..NChildren : pass.status[w] = 0}
         i == CHOOSE w \in idle : \A v \in idle : w <= v
     IN IF idle = {} \/ wpc[i] = "gone" THEN MainQuits /\ UNCHANGED pass
        ELSE /\ pass' = [pass EXCEPT !.status[i] = 1, !.navail = @ - 1,
                                     !.chan[i] = Head(backlog)]
             /\ backlog' = Tail(backlog)
             /\ mpc' = IF pass.rset = {} THEN "select" ELSE "scan"
             /\ UNCHANGED <<wpc, wfd, lock, conn, zombies, sigchld>>

\* A byte from each child select() has reported; the end of a pipe is fatal.
Serv05Scan ==
  /\ design = "pass" /\ mpc = "scan"
  /\ IF \E w \in pass.rset : w \notin pass.byte THEN MainQuits /\ UNCHANGED pass
     ELSE /\ pass' = [pass EXCEPT !.status = [w \in Workers |-> IF w \in pass.rset THEN 0 ELSE @[w]],
                                  !.navail = @ + Cardinality(pass.rset),
                                  !.byte = @ \ pass.rset]
          /\ mpc' = "select"
          /\ UNCHANGED <<wpc, wfd, lock, backlog, conn, zombies, sigchld>>

\* Does anyone hold the parent's end of w's pipe?  Children made later have
\* inherited it, and do not close it.
PipeOpen(w) == mpc # "gone" \/ \E v \in Live : v > w

Child05(w) ==
  /\ design = "pass"
  /\ \/ /\ Goto(w, "top", "serve") /\ pass.chan[w] # 0
        /\ wfd' = [wfd EXCEPT ![w] = pass.chan[w]]
        /\ pass' = [pass EXCEPT !.chan[w] = 0]
     \/ /\ Goto(w, "top", "gone") /\ pass.chan[w] = 0 /\ ~PipeOpen(w)
        /\ UNCHANGED <<wfd, pass>>
     \/ /\ Goto(w, "ready", IF PipeOpen(w) THEN "top" ELSE "gone")
        /\ pass' = [pass EXCEPT !.byte = @ \cup {w}]
        /\ UNCHANGED wfd

-----------------------------------------------------------------------------
(* client.c and clientrst.c: the connection is made by the kernel as long as  *)
(* somebody listens; nbytes, which the client does not check, may be bad.     *)

Connect(k) ==
  /\ conn[k] = "none" /\ (k > 1 => conn[k - 1] # "none")
  /\ Listening
  /\ \E kind \in {"good", "bad", "mute"} : conn' = [conn EXCEPT ![k] = kind]
  /\ backlog' = Append(backlog, k)
  /\ UNCHANGED <<design, mpc, wpc, wfd, lock, pass, ring, zombies, sigchld>>

\* The reply has come: close().
Close(k) ==
  /\ conn[k] = "answered"
  /\ conn' = [conn EXCEPT ![k] = "closed"]
  /\ UNCHANGED <<design, mpc, wpc, wfd, lock, backlog, pass, ring, zombies, sigchld>>

\* clientrst.c resets instead; some kernels drop the connection if nobody has
\* accepted it, others hand it out.
Reset(k) ==
  /\ conn[k] = "mute"
  /\ conn' = [conn EXCEPT ![k] = "reset"]
  /\ \/ UNCHANGED backlog
     \/ \E i \in DOMAIN backlog : backlog[i] = k /\ backlog' = RemoveAt(backlog, i)
  /\ UNCHANGED <<design, mpc, wpc, wfd, lock, pass, ring, zombies, sigchld>>

-----------------------------------------------------------------------------

Main == \/ Exit /\ UNCHANGED <<design, pass, ring>>
        \/ Serv01 /\ UNCHANGED <<design, pass, ring>>
        \/ Serv06 /\ UNCHANGED <<design, pass, ring>>
        \/ Serv08 /\ UNCHANGED <<design, pass>>
        \/ Serv05Select /\ UNCHANGED <<design, ring>>
        \/ Serv05Accept /\ UNCHANGED <<design, ring>>
        \/ Serv05Scan /\ UNCHANGED <<design, ring>>

Worker(w) ==
  \/ OwnAccept(w)
  \/ Web_child(w)
  \/ Pthread08(w) /\ UNCHANGED <<design, mpc, lock, backlog, conn, pass, zombies, sigchld>>
  \/ Child05(w) /\ UNCHANGED <<design, mpc, lock, backlog, conn, ring, zombies, sigchld>>

\* pthread_cond_wait() may return without a signal.
Spurious(w) ==
  /\ Goto(w, "wait", "woken")
  /\ UNCHANGED <<design, mpc, wfd, lock, backlog, conn, pass, ring, zombies, sigchld>>

Client(k) == Connect(k) \/ Close(k) \/ Reset(k)

Next ==
  \/ Main \/ Sig_chld \/ Sig_int \/ Kill
  \/ \E w \in Workers : Worker(w) \/ Spurious(w)
  \/ \E k \in Conns : Client(k)

\* Processes and threads run, and so do clients that have connected.
Fairness ==
  /\ WF_vars(Main) /\ WF_vars(Sig_chld)
  /\ \A w \in Workers : WF_vars(Worker(w))
  /\ \A k \in Conns : WF_vars(Close(k) \/ Reset(k))
Spec == Init /\ [][Next]_vars /\ Fairness

-----------------------------------------------------------------------------
(* Properties. *)

\* The places that hold connection k: the backlog, a worker, a pipe, the ring.
Holders(k) ==
  {<<"backlog", i>> : i \in {i \in DOMAIN backlog : backlog[i] = k}}
  \cup {<<"worker", w>> : w \in {w \in Workers : wfd[w] = k}}
  \cup {<<"pipe", w>> : w \in {w \in Workers : pass.chan[w] = k /\ ~Gone(w)}}
  \cup {<<"ring", 0>> : i \in {i \in {1} : mpc # "gone" /\ k \in Waiting}}

\* No connection is lost or served twice on its way: while its client waits for
\* an answer, exactly one place holds it.
OneOwner == \A k \in Conns : conn[k] \in {"good", "bad", "mute"} => Cardinality(Holders(k)) = 1

\* serv05: navail counts the children whose status is 0, these wait for a
\* descriptor (so that none ever has two clients), and when a connection is
\* accepted there is one of them: "no available children" is never printed.
PassedToIdle ==
  design = "pass" /\ mpc # "gone" =>
    /\ pass.navail = Cardinality({w \in 1..NChildren : pass.status[w] = 0})
    /\ \A w \in 1..NChildren : pass.status[w] = 0 =>
         wpc[w] \in {"top", "gone"} /\ pass.chan[w] = 0 /\ w \notin pass.byte
    /\ mpc = "accept" => pass.navail > 0

\* serv01: an ended child that has not been waited for has a signal pending.
Reaped == zombies # {} => sigchld

\* What the parent, its children or threads and the queues between them know
\* of each other is right.
PoolSafe == OneOwner /\ PassedToIdle /\ Reaped

\* A client that is being served by a process of its own is not cut off by what
\* other clients do, not even if they end the parent, but only if that one
\* process is killed, or all are by sig_int.
Isolation ==
  [][\A w \in Workers : wfd[w] # 0 /\ conn[wfd[w]] = "good" /\ conn'[wfd[w]] = "cut"
       => Threaded \/ End({w}, mpc) \/ mpc' = "wait"]_vars

\* Every connection is accepted or refused in the end, with two exceptions: the
\* children of a prefork server have all died, of bad requests, and the parent
\* does not look; or one was killed while it held the mutex of serv04.
EveryoneServed ==
  \A k \in Conns :
    []<>(\/ conn[k] \notin {"good", "bad"}
         \/ Preforked /\ Live = {}
         \/ design = "mutex" /\ lock # 0 /\ Gone(lock))

\* Children whose parent has ended leave as soon as their clients do, although
\* those of serv05 hold each other's pipes; those of the prefork servers stay.
OrphansLeave == []<>(mpc = "gone" /\ ~Preforked => Live = {})

===============================================================================
