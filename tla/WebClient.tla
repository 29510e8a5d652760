------------------------------- MODULE WebClient -------------------------------
(***************************************************************************)
(* The course book's client that fetches many files over a few             *)
(* connections at a time, four times: "web" (nonblock/web.c with           *)
(* nonblocking connects and select) and, with a thread for each file,      *)
(* "web01" (threads/web01.c, thr_join for any thread), "web02" (the main   *)
(* thread polls ndone) and "web03" (it waits on a condition variable).     *)
(* The home page has been read.                                            *)
(***************************************************************************)
EXTENDS Naturals, FiniteSets

CONSTANTS
  MaxFiles,   \* bound: files on the command line
  MaxConns    \* bound: <#conns>

Files == 1..MaxFiles

VARIABLES
  prog, maxnconn,
  nconn, nlefttoconn, nlefttoread,
  flags,      \* f_flags: "none", "connecting", "reading", "done" or "joined"
  net,        \* the connection: "none", "syn", "open", "refused", "end" (the
              \* server has sent all and closed), "reset" or "closed"
  mpc,        \* main
  at,         \* i of main's loops
  ready,      \* what select() found
  tpc,        \* each thread: "none", "connect", "get", "read", "close", "lock",
              \* "ended" or "joined"
  mutex,      \* ndone_mutex: 0 when free, a file's thread, or Main
  ndone

Main == MaxFiles + 1
counts == <<nconn, nlefttoconn, nlefttoread>>
vars == <<prog, maxnconn, counts, flags, net, mpc, at, ready, tpc, mutex, ndone>>

Init ==
  /\ prog \in {"web", "web01", "web02", "web03"}
  /\ maxnconn \in 0..MaxConns
  /\ nconn = 0 /\ nlefttoconn = MaxFiles /\ nlefttoread = MaxFiles
  /\ flags = [f \in Files |-> "none"] /\ net = [f \in Files |-> "none"]
  /\ mpc = "fill" /\ at = 0 /\ ready = {}
  /\ tpc = [f \in Files |-> "none"]
  /\ mutex = 0 /\ ndone = 0

-----------------------------------------------------------------------------
(* main(): new connections, as many as there may be. *)

Least(S) == CHOOSE f \in S : \A g \in S : f <= g
Unstarted == {f \in Files : flags[f] = "none"}

\* Mutant: one connection too many.
FillsOver == mpc = "fill" /\ nconn <= maxnconn /\ nlefttoconn > 0

Fills == mpc = "fill" /\ nconn < maxnconn /\ nlefttoconn > 0

Counted ==
  /\ nconn' = nconn + 1 /\ nlefttoconn' = nlefttoconn - 1
  /\ UNCHANGED nlefttoread

\* start_connect(): a connection that is made at once gets its GET at once.
Start_connect ==
  /\ prog = "web" /\ Fills /\ Unstarted # {}
  /\ LET f == Least(Unstarted) IN
     \/ /\ flags' = [flags EXCEPT ![f] = "connecting"]
        /\ net' = [net EXCEPT ![f] = "syn"]
     \/ /\ flags' = [flags EXCEPT ![f] = "reading"]
        /\ net' = [net EXCEPT ![f] = "open"]
  /\ Counted
  /\ UNCHANGED <<prog, maxnconn, mpc, at, ready, tpc, mutex, ndone>>

\* web01.c and web03.c mark the file before they create the thread, web02.c
\* afterwards.
Create ==
  /\ prog # "web" /\ Fills /\ Unstarted # {}
  /\ LET f == Least(Unstarted) IN
     /\ tpc' = [tpc EXCEPT ![f] = "connect"]
     /\ at' = f
     /\ IF prog = "web02" THEN mpc' = "mark" /\ UNCHANGED <<flags, counts>>
        ELSE flags' = [flags EXCEPT ![f] = "connecting"] /\ Counted /\ UNCHANGED mpc
  /\ UNCHANGED <<prog, maxnconn, net, ready, mutex, ndone>>

Mark ==
  /\ mpc = "mark" /\ mpc' = "fill"
  /\ flags' = [flags EXCEPT ![at] = "connecting"]
  /\ Counted
  /\ UNCHANGED <<prog, maxnconn, net, at, ready, tpc, mutex, ndone>>

\* err_quit("nlefttoconn = %d but nothing found").
NothingFound ==
  /\ Fills /\ Unstarted = {} /\ mpc' = "quit"
  /\ UNCHANGED <<prog, maxnconn, counts, flags, net, at, ready, tpc, mutex, ndone>>

\* The end of a turn of while (nlefttoread > 0).
Next_turn == IF nlefttoread' = 0 THEN "exit" ELSE "fill"

-----------------------------------------------------------------------------
(* web.c *)

Select ==
  /\ prog = "web" /\ mpc = "fill" /\ ~Fills
  /\ ready' = {f \in Files : \/ flags[f] = "connecting" /\ net[f] # "syn"
                             \/ flags[f] = "reading" /\ net[f] \in {"end", "reset"}}
  /\ ready' # {}
  /\ mpc' = "scan"
  /\ UNCHANGED <<prog, maxnconn, counts, flags, net, at, tpc, mutex, ndone>>

\* One file that was ready.  A failed connect is reported, and then the GET is
\* written all the same, which ends the program; so does an error of Read.
Scan ==
  /\ prog = "web" /\ mpc = "scan" /\ ready # {}
  /\ LET f == Least(ready) IN
     /\ ready' = ready \ {f}
     /\ CASE flags[f] = "connecting" /\ net[f] # "refused" ->
               /\ flags' = [flags EXCEPT ![f] = "reading"]
               /\ UNCHANGED <<net, counts>>
               /\ mpc' = IF ready' = {} THEN "fill" ELSE "scan"
          [] flags[f] = "reading" /\ net[f] = "end" ->
               /\ net' = [net EXCEPT ![f] = "closed"]
               /\ flags' = [flags EXCEPT ![f] = "done"]
               /\ nconn' = nconn - 1 /\ nlefttoread' = nlefttoread - 1
               /\ UNCHANGED nlefttoconn
               /\ mpc' = IF ready' = {} THEN Next_turn ELSE "scan"
          [] OTHER -> mpc' = "quit" /\ UNCHANGED <<flags, net, counts>>
  /\ UNCHANGED <<prog, maxnconn, at, tpc, mutex, ndone>>

-----------------------------------------------------------------------------
(* main() of the programs with threads. *)

Joined(f) ==
  /\ tpc' = [tpc EXCEPT ![f] = "joined"]
  /\ nconn' = nconn - 1 /\ nlefttoread' = nlefttoread - 1
  /\ UNCHANGED nlefttoconn

\* thr_join(0, ...) of web01.c: any thread that has ended.
Thr_join ==
  /\ prog = "web01" /\ mpc = "fill" /\ ~Fills
  /\ \E f \in Files : tpc[f] = "ended" /\ Joined(f)
  /\ mpc' = Next_turn
  /\ UNCHANGED <<prog, maxnconn, flags, net, at, ready, mutex, ndone>>

\* It does not wait when there is none: err_sys("thr_join error").
NoThread ==
  /\ prog = "web01" /\ mpc = "fill" /\ ~Fills
  /\ \A f \in Files : tpc[f] \in {"none", "joined"}
  /\ mpc' = "quit"
  /\ UNCHANGED <<prog, maxnconn, counts, flags, net, at, ready, tpc, mutex, ndone>>

\* web02.c gives the mutex back when no thread is done, web03.c waits.
Lock ==
  /\ prog \in {"web02", "web03"} /\ mpc = "fill" /\ ~Fills
  /\ mutex = 0
  /\ IF ndone > 0 THEN mutex' = Main /\ mpc' = "scan" /\ at' = 1
     ELSE /\ prog = "web03" /\ mpc' = "wait"
          /\ UNCHANGED <<mutex, at>>
  /\ UNCHANGED <<prog, maxnconn, counts, flags, net, ready, tpc, ndone>>

\* Pthread_cond_signal() has woken it: it looks again, with the mutex.
Wake ==
  /\ mpc = "woken" /\ mutex = 0
  /\ IF ndone > 0 THEN mutex' = Main /\ mpc' = "scan" /\ at' = 1
     ELSE mpc' = "wait" /\ UNCHANGED <<mutex, at>>
  /\ UNCHANGED <<prog, maxnconn, counts, flags, net, ready, tpc, ndone>>

\* Pthread_join() waits for the thread to end, with the mutex locked.
Join ==
  /\ prog # "web" /\ mpc = "scan" /\ at \in Files
  /\ at' = at + 1
  /\ IF flags[at] = "done"
     THEN /\ tpc[at] = "ended" /\ Joined(at)
          /\ flags' = [flags EXCEPT ![at] = "joined"]
          /\ ndone' = ndone - 1
     ELSE UNCHANGED <<tpc, counts, flags, ndone>>
  /\ UNCHANGED <<prog, maxnconn, net, mpc, ready, mutex>>

Unlock ==
  /\ prog # "web" /\ mpc = "scan" /\ at = Main
  /\ UNCHANGED counts
  /\ mutex' = 0 /\ mpc' = Next_turn
  /\ UNCHANGED <<prog, maxnconn, flags, net, at, ready, tpc, ndone>>

MainStep ==
  \/ Start_connect \/ Create \/ Mark \/ NothingFound \/ Select \/ Scan
  \/ Thr_join \/ NoThread \/ Lock \/ Wake \/ Join \/ Unlock

-----------------------------------------------------------------------------
(* do_get_read() *)

Alive == mpc \notin {"quit", "exit"}

\* Mutant: the thread is counted, but main not signalled.
Count_doneSilent(f) ==
  /\ tpc[f] = "lock" /\ mutex = 0
  /\ ndone' = ndone + 1
  /\ tpc' = [tpc EXCEPT ![f] = "ended"]
  /\ UNCHANGED <<flags, net, mutex, mpc>>

Count_done(f) ==
  /\ tpc[f] = "lock" /\ mutex = 0
  /\ ndone' = ndone + 1
  /\ mpc' = IF mpc = "wait" THEN "woken" ELSE mpc
  /\ tpc' = [tpc EXCEPT ![f] = "ended"]
  /\ UNCHANGED <<flags, net, mutex>>

\* Tcp_connect, the GET, Read until the end, Close, F_DONE; then, but in
\* web01.c, ndone is counted under the mutex, and main signalled.
Thread(f) ==
  /\ Alive
  /\ \/ /\ tpc[f] = "connect" /\ net[f] = "none"
        /\ net' = [net EXCEPT ![f] = "syn"] /\ UNCHANGED <<flags, tpc, mutex, ndone, mpc>>
     \/ /\ tpc[f] = "connect" /\ net[f] \notin {"none", "syn", "refused"}
        /\ tpc' = [tpc EXCEPT ![f] = "get"] /\ UNCHANGED <<flags, net, mutex, ndone, mpc>>
     \/ /\ tpc[f] = "get"
        /\ tpc' = [tpc EXCEPT ![f] = "read"] /\ flags' = [flags EXCEPT ![f] = "reading"]
        /\ UNCHANGED <<net, mutex, ndone, mpc>>
     \/ /\ tpc[f] = "read" /\ net[f] = "end"
        /\ net' = [net EXCEPT ![f] = "closed"] /\ tpc' = [tpc EXCEPT ![f] = "close"]
        /\ UNCHANGED <<flags, mutex, ndone, mpc>>
     \/ /\ tpc[f] = "close"
        /\ flags' = [flags EXCEPT ![f] = "done"]
        /\ tpc' = [tpc EXCEPT ![f] = IF prog = "web01" THEN "ended" ELSE "lock"]
        /\ UNCHANGED <<net, mutex, ndone, mpc>>
     \/ Count_done(f)
     \/ /\ (tpc[f] = "connect" /\ net[f] = "refused") \/ (tpc[f] \in {"get", "read"} /\ net[f] = "reset")
        /\ mpc' = "quit" /\ UNCHANGED <<flags, net, tpc, mutex, ndone>>
  /\ UNCHANGED <<prog, maxnconn, counts, at, ready>>

\* The network and the web server.
Reply(f) ==
  /\ \/ net[f] = "syn" /\ net' = [net EXCEPT ![f] = "open"]
     \/ net[f] = "syn" /\ net' = [net EXCEPT ![f] = "refused"]
     \/ net[f] = "open" /\ flags[f] # "connecting" /\ tpc[f] \in {"none", "read"}
          /\ net' = [net EXCEPT ![f] = "end"]
     \/ net[f] = "open" /\ net' = [net EXCEPT ![f] = "reset"]
  /\ UNCHANGED <<prog, maxnconn, counts, flags, mpc, at, ready, tpc, mutex, ndone>>

Next == MainStep \/ \E f \in Files : Thread(f) \/ Reply(f)

\* Threads run, and the server answers each request.
Spec ==
  /\ Init /\ [][Next]_vars
  /\ WF_vars(MainStep)
  /\ \A f \in Files : WF_vars(Thread(f)) /\ WF_vars(Reply(f))

-----------------------------------------------------------------------------
(* Properties. *)

\* At no time are more connections open than the user has allowed, and the
\* program that exits has read every file to its end.
WithinLimit ==
  /\ Cardinality({f \in Files : net[f] \notin {"none", "closed", "refused"}}) <= maxnconn
  /\ mpc = "exit" => \A f \in Files : net[f] = "closed"

\* F_CONNECTING of web02.c comes too late: the thread has set F_DONE already,
\* and no one will join it.
LostMark ==
  prog = "web02" /\ \E f \in Files : flags[f] = "connecting" /\ tpc[f] = "ended"

\* F_DONE is set before ndone is counted: main, which holds the mutex, joins a
\* thread that waits for it.
DeadlyJoin ==
  /\ prog \in {"web02", "web03"}
  /\ mpc = "scan" /\ at \in Files /\ flags[at] = "done" /\ tpc[at] = "lock"

\* The program ends, and the ways not to end are those two of web02.c and web03.c,
\* and a <#conns> of 0, which main() accepts: then it waits for what it never starts.
Ended == ~Alive \/ LostMark \/ DeadlyJoin \/ (maxnconn = 0 /\ prog # "web01")

===============================================================================
