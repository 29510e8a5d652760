------------------------------ MODULE MCStreams ------------------------------
(* The book's programs over TCP, from the name of a host to the last line: a *)
(* behaviour is one of SelectServer, with three connections for two places,  *)
(* two lines, a client's second one without its newline, and two datagrams;  *)
(* or of StrCli, or of WebClient; or a call of GetAddrInfo or of Formats.    *)
(* The rest stands still.                                                    *)
EXTENDS SelectServer

CONSTANTS
  MaxTyped, UpCap, DownCap, Buf, OutBuf, MaxFiles, MaxConns, MaxAddrs,
  Bits, MaxWords, MaxIov, MaxBytes

ASSUME StreamsAssumption ==
  UpCap \in Nat /\ Buf \in Nat /\ MaxFiles \in Nat /\ MaxConns \in Nat

VARIABLES
  which,    \* the program that runs
  cli, srv, typed, eof, noeol, fetched, ctaken, sent, cfin, got, echoed, sfin,
  sdead, recvd, printed, wpc, rpc, spc, stdineof, done, crset, to, fr, end,
  wprog, maxnconn, wnconn, nlefttoconn, nlefttoread, wflags, wnet, mpc, at,
  ready, tpc, mutex, ndone,
  version, host, serv, gflags, hints, known, inet6, gpc, search, todo,
  found, glist, headset, canon, ports, gpos, nfound, heap, err,
  task, in, mid, fout

strcli == <<cli, srv, typed, eof, noeol, fetched, ctaken, sent, cfin, got, echoed,
            sfin, sdead, recvd, printed, wpc, rpc, spc, stdineof, done,
            crset, to, fr, end>>
web == <<wprog, maxnconn, wnconn, nlefttoconn, nlefttoread, wflags, wnet,
         mpc, at, ready, tpc, mutex, ndone>>
lookup == <<version, host, serv, gflags, hints, known, inet6, gpc, search,
            todo, found, glist, headset, canon, ports, gpos, nfound, heap,
            err>>
formats == <<task, in, mid, fout>>

C == INSTANCE StrCli WITH
       MaxLines <- MaxTyped, taken <- ctaken, rset <- crset
W == INSTANCE WebClient WITH
       prog <- wprog, nconn <- wnconn, flags <- wflags, net <- wnet
G == INSTANCE GetAddrInfo WITH
       flags <- gflags, pc <- gpc, list <- glist, pos <- gpos
F == INSTANCE Formats WITH
       out <- fout

MCInit ==
  /\ which \in {"select", "strcli", "web", "gai", "formats"}
  /\ Init /\ (which # "select" => prog = "select01")
  /\ IF which = "strcli" THEN TRUE ELSE cli = "stop" /\ srv = "echo"
  /\ C!Init
  /\ IF which = "web" THEN TRUE ELSE wprog = "web" /\ maxnconn = 1
  /\ W!Init
  /\ IF which = "gai" THEN TRUE ELSE version = "gai" /\ host = "v4" /\ serv = "none" /\ gflags = {} /\ hints = [family |-> "UNSPEC", socktype |-> "0"]
  /\ G!Init
  /\ IF which = "formats" THEN TRUE ELSE task = "ntop4" /\ in = [length |-> 7, size |-> 0]
  /\ F!Init

MCNext ==
  \/ which = "select" /\ Next /\ UNCHANGED <<which, strcli, web, lookup, formats>>
  \/ which = "strcli" /\ C!Next /\ UNCHANGED <<which, vars, web, lookup, formats>>
  \/ which = "web" /\ W!Next /\ UNCHANGED <<which, vars, strcli, lookup, formats>>
  \/ which = "gai" /\ G!Next /\ UNCHANGED <<which, vars, strcli, web, formats>>
  \/ which = "formats" /\ F!Next /\ UNCHANGED <<which, vars, strcli, web, lookup>>

\* With the fairness each module states, for the behaviours it has.
MCFairness ==
  /\ WF_vars(which = "select" /\ Server)
  /\ WF_vars(which = "select" /\ Kids)
  /\ WF_strcli(which = "strcli" /\ C!Client)
  /\ WF_strcli(which = "strcli" /\ C!Reads)
  /\ WF_strcli(which = "strcli" /\ C!Server)
  /\ WF_web(which = "web" /\ W!MainStep)
  /\ \A f \in W!Files : WF_web(which = "web" /\ W!Thread(f))
  /\ \A f \in W!Files : WF_web(which = "web" /\ W!Reply(f))

MCSpec == MCInit /\ [][MCNext]_<<which, vars, strcli, web, lookup, formats>> /\ MCFairness

\* StrCli and WebClient: a client that ends has printed everything, but for what a
\* known buffer held, and blames only a server that has died; the limit on the
\* connections is kept, and who exits has read every file.
ClientsRight == C!EndsRight /\ W!WithinLimit

\* Nobody gets stuck for ever, but in the known ways: the servers serve, all that is
\* typed is printed, and the web clients end.
GetThrough == AllServed /\ C!Settles /\ <>[](which = "web" => W!Ended)

\* GetAddrInfo: the list of addresses is what was asked for; nothing is lost and
\* nothing crashes, but for known exceptions.
AddressesRight == G!GaiRight

\* Formats: conversions take back what they give; and no piece of a sum, a text or
\* an array of buffers is left out.
ConversionsRight == F!FormatsRight

===============================================================================
