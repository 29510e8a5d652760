------------------------------ MODULE MCServers ------------------------------
(* Servers and their processes: a behaviour is one of ServerPool, with three *)
(* connections for two children or threads and a ring of two; or of Openers, *)
(* with two servers, a client and two addresses; or of the programs that ask *)
(* the kernel, KernelInfo, with two interfaces that change twice.  The rest  *)
(* stands still.                                                             *)
EXTENDS ServerPool

CONSTANTS
  NAddrs, MaxRestarts,
  NIfs, MaxAddrs, First, More, MaxChanges, Room, MaxOwn, MaxNews

ASSUME OpenersAssumption == NAddrs \in Nat

ASSUME KernelAssumption ==
  /\ NIfs \in Nat /\ MaxAddrs \in Nat /\ MaxOwn \in Nat
  /\ First \in Nat \ {0} /\ More \in Nat \ {0}

VARIABLES
  which,    \* the program that runs
  prog, has, elsewhere, i, open, pc, bound, timewait, newest, server, told,
  gone, refused, restarts,
  kprog, doaliases, links, strict, present, up, naddr, changes, touched,
  kpc, size, lastlen, buf, kpos, lastname, sdlname, alias, klist, wanted,
  owed, kqueue, news, dropped

daytime == <<prog, has, elsewhere, i, open, pc, bound, timewait, newest,
             server, told, gone, refused, restarts>>
info == <<kprog, doaliases, links, strict, present, up, naddr, changes,
          touched, kpc, size, lastlen, buf, kpos, lastname, sdlname, alias,
          klist, wanted, owed, kqueue, news, dropped>>

O == INSTANCE Openers
K == INSTANCE KernelInfo WITH
       prog <- kprog, pc <- kpc, pos <- kpos, list <- klist,
       queue <- kqueue

MCInit ==
  /\ which \in {"pool", "openers", "kernel"}
  /\ Init /\ (which # "pool" => design = "fork")
  /\ IF which = "openers" THEN TRUE ELSE elsewhere = {} /\ has = [p \in O!Procs |-> O!Addrs]
                              /\ prog = [p \in O!Procs |-> IF p = O!Client THEN O!tcpcli ELSE O!tcpsrv1]
  /\ O!Init
  /\ IF which = "kernel" THEN TRUE ELSE kprog = "dump"
  /\ K!Init

MCNext ==
  \/ which = "pool" /\ Next /\ UNCHANGED <<which, daytime, info>>
  \/ which = "openers" /\ O!Next /\ UNCHANGED <<which, vars, info>>
  \/ which = "kernel" /\ K!Next /\ UNCHANGED <<which, vars, daytime>>

\* With the fairness each module states, for the behaviours it has.
MCFairness ==
  /\ WF_vars(which = "pool" /\ Main)
  /\ WF_vars(which = "pool" /\ Sig_chld)
  /\ \A w \in Workers : WF_vars(which = "pool" /\ Worker(w))
  /\ \A k \in Conns : WF_vars(which = "pool" /\ (Close(k) \/ Reset(k)))
  /\ \A p \in O!Procs : WF_daytime(which = "openers" /\ O!Step(p))
  /\ WF_daytime(which = "openers" /\ O!ClientStep)
  /\ WF_info(which = "kernel" /\ K!Program)
  /\ WF_info(which = "kernel" /\ K!Answer)

MCSpec == MCInit /\ [][MCNext]_<<which, vars, daytime, info>> /\ MCFairness

\* Openers: one descriptor stays open, the walk over the addresses stops at the
\* first that answers, and who restarts comes back.
OpenersSafe == O!OpenersSafe

\* KernelInfo: the list of interfaces is whole and right for every interface nobody
\* touches, and answers are one's own, but for known exceptions.
KernelRight == [][K!TakesWhole]_info /\ []K!KernelSafe

\* ServerPool: who connects is served or refused, but for two known exceptions, and
\* children whose parent has ended leave.  The client of Openers and the programs that
\* ask the kernel come to an end.
PoolServes ==
  /\ EveryoneServed /\ OrphansLeave
  /\ <>[](which = "openers" => O!ClientEnded) /\ <>[](which = "kernel" => K!Ended)

===============================================================================
