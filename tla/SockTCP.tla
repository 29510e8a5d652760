------------------------------- MODULE SockTCP -------------------------------
(***************************************************************************)
(* The sock program over TCP, connected to itself: two ends in loop_tcp()  *)
(* (sock/looptcp.c), or with -i a client in source_tcp() and a server in   *)
(* sink_tcp().  Data is counted in units of what one read() of the input   *)
(* returns; the k-th unit an end writes is k.                              *)
(***************************************************************************)
EXTENDS Naturals, Sequences, FiniteSets

CONSTANTS
  MaxIn,   \* bound: units typed at each end; also nbuf
  Cap      \* units a connection holds in each direction

Client == 1
Server == 2
Ends == {Client, Server}
Peer(p) == 3 - p

VARIABLES
  sourcesink,
  half, peek,      \* the ends with halfclose, with msgpeek
  pc,              \* "select", "in", "write", "sock", "again", "end", "exit" or "error"
  rset,
  typed, taken, eof, stdineof,   \* the input: typed, read, ended; and its end read
  sent, rd,        \* units written, and read from the other end
  fin, rst,        \* ends that have shut down; whose connection has been reset
  out              \* what has been printed

conf == <<sourcesink, half, peek>>
input == <<typed, eof>>
vars == <<conf, pc, rset, input, taken, stdineof, sent, rd, fin, rst, out>>

Sourcing(p) == sourcesink /\ p = Client
Sinking(p) == sourcesink /\ p = Server

Init ==
  /\ sourcesink \in BOOLEAN
  /\ half \in SUBSET Ends /\ peek \in SUBSET {Server}
  /\ sourcesink => half = {}
  /\ pc = [p \in Ends |-> IF Sourcing(p) THEN "write" ELSE IF Sinking(p) THEN "sock" ELSE "select"]
  /\ rset = [p \in Ends |-> {}]
  /\ typed = [p \in Ends |-> IF Sourcing(p) THEN MaxIn ELSE 0] /\ taken = [p \in Ends |-> 0]
  /\ eof = {p \in Ends : sourcesink} /\ stdineof = {}
  /\ sent = [p \in Ends |-> 0] /\ rd = sent
  /\ fin = {} /\ rst = {} /\ out = [p \in Ends |-> <<>>]

Unread(p) == sent[Peer(p)] - rd[p]
Full(p) == sent[p] - rd[Peer(p)] >= Cap
Gone(p) == pc[p] \in {"exit", "error"}

Goto(p, l) == pc' = [pc EXCEPT ![p] = l]
Data == <<taken, stdineof, sent, rd, fin, rst, out>>

-----------------------------------------------------------------------------
(* loop_tcp(). *)

Ready(p) ==
  {s \in {"in"} : p \notin stdineof /\ (typed[p] > taken[p] \/ p \in eof)}
    \cup {s \in {"sock"} : Unread(p) > 0 \/ Peer(p) \in fin \/ p \in rst}

Select(p) ==
  /\ pc[p] = "select" /\ Ready(p) # {}
  /\ rset' = [rset EXCEPT ![p] = Ready(p)]
  /\ Goto(p, IF "in" \in Ready(p) THEN "in" ELSE "sock")
  /\ UNCHANGED <<conf, input, Data>>

\* A read of the input; at its end the connection is shut down with -h and
\* closed without.
ReadInput(p) ==
  /\ pc[p] = "in"
  /\ IF typed[p] > taken[p]
     THEN taken' = [taken EXCEPT ![p] = @ + 1] /\ Goto(p, "write") /\ UNCHANGED <<stdineof, fin>>
     ELSE /\ UNCHANGED taken
          /\ IF p \in half
             THEN stdineof' = stdineof \cup {p} /\ fin' = fin \cup {p} /\ Goto(p, "select")
             ELSE Goto(p, "end") /\ UNCHANGED <<stdineof, fin>>
  /\ UNCHANGED <<conf, input, rset, sent, rd, rst, out>>

\* dowrite(), which waits for room.  What is written to an end that has closed
\* is answered by a reset, which ends the next call.
Write(p) ==
  /\ pc[p] = "write" /\ ~Sourcing(p)
  /\ \/ p \in rst /\ Goto(p, "error") /\ UNCHANGED <<sent, rst>>
     \/ /\ p \notin rst /\ ~Full(p)
        /\ sent' = [sent EXCEPT ![p] = @ + 1]
        /\ rst' = IF Gone(Peer(p)) THEN rst \cup {p} ELSE rst
        /\ Goto(p, IF "sock" \in rset[p] THEN "sock" ELSE "select")
  /\ UNCHANGED <<conf, input, rset, taken, stdineof, rd, fin, out>>

Units(p, n) == [k \in 1..n |-> rd[p] + k]
After(p) == IF Sinking(p) THEN "sock" ELSE "select"

\* recv(): some of what there is, which is left there with -Z, or the end, or an
\* error.
Recv(p) ==
  /\ pc[p] = "sock"
  /\ \/ /\ Unread(p) = 0 /\ Goto(p, IF p \in rst THEN "error" ELSE "end")
        /\ p \in rst \/ Peer(p) \in fin
        /\ UNCHANGED <<rd, out>>
     \/ \E n \in 1..Unread(p) :
          /\ out' = [out EXCEPT ![p] = @ \o Units(p, n)]
          /\ IF p \in peek THEN Goto(p, "again") /\ UNCHANGED rd
             ELSE Goto(p, After(p)) /\ rd' = [rd EXCEPT ![p] = @ + n]
  /\ UNCHANGED <<conf, input, rset, taken, stdineof, sent, fin, rst>>

\* goto oncemore: at least what was seen before, and of what has come since as
\* much as readlen leaves room for.
Oncemore(p) ==
  /\ pc[p] = "again"
  /\ \E n \in out[p][Len(out[p])] - rd[p] .. Unread(p) :
       /\ out' = [out EXCEPT ![p] = @ \o Units(p, n)]
       /\ rd' = [rd EXCEPT ![p] = @ + n]
  /\ Goto(p, After(p))
  /\ UNCHANGED <<conf, input, rset, taken, stdineof, sent, fin, rst>>

\* close() with something unread resets the connection.
Close(p) ==
  /\ pc[p] = "end" /\ Goto(p, "exit")
  /\ fin' = fin \cup {p}
  /\ rst' = IF Unread(p) > 0 THEN rst \cup {Peer(p)} ELSE rst
  /\ UNCHANGED <<conf, input, rset, taken, stdineof, sent, rd, out>>

\* source_tcp(): nbuf times.
Source(p) ==
  /\ pc[p] = "write" /\ Sourcing(p)
  /\ IF taken[p] = typed[p] THEN Goto(p, "end") /\ UNCHANGED <<taken, sent>>
     ELSE /\ ~Full(p)
          /\ taken' = [taken EXCEPT ![p] = @ + 1] /\ sent' = [sent EXCEPT ![p] = @ + 1]
          /\ UNCHANGED pc
  /\ UNCHANGED <<conf, input, rset, stdineof, rd, fin, rst, out>>

Step(p) == Select(p) \/ ReadInput(p) \/ Write(p) \/ Recv(p) \/ Oncemore(p) \/ Close(p) \/ Source(p)

Type(p) ==
  /\ ~sourcesink /\ p \notin eof
  /\ \/ typed[p] < MaxIn /\ typed' = [typed EXCEPT ![p] = @ + 1] /\ UNCHANGED eof
     \/ eof' = eof \cup {p} /\ UNCHANGED typed
  /\ UNCHANGED <<conf, pc, rset, Data>>

Next == \E p \in Ends : Step(p) \/ Type(p)

Fairness == \A p \in Ends : WF_vars(Step(p))

Spec == Init /\ [][Next]_vars /\ Fairness

-----------------------------------------------------------------------------

Times(p, k) == Cardinality({j \in 1..Len(out[p]) : out[p][j] = k})

\* Everything read is printed in order and once, or with -Z once or twice; with
\* -Z what is printed first is printed again before anything is left out.
Printed ==
  \A p \in Ends :
    /\ p \notin peek => out[p] = [k \in 1..rd[p] |-> k]
    /\ p \in peek => \A k \in 1..rd[p] : Times(p, k) \in {1, 2}
    /\ \A k \in 1..Len(out[p]) : out[p][k] <= rd[p] \/ pc[p] = "again"

\* Two ends with -h lose nothing, nor do a source and its sink: who ends first
\* has read everything, and what it has written is still read.
NothingLost ==
  (\A p \in Ends : Gone(p)) /\ (sourcesink \/ half = Ends) =>
    \A p \in Ends : pc[p] = "exit" /\ rd[p] = sent[Peer(p)]

Blocked(p) == pc[p] = "write" /\ p \notin rst /\ Full(p)

\* An end that waits for room gets on, or both wait for each other for ever: the
\* loop reads again only when it has written.  A source always gets on.
OnlyBothBlock ==
  /\ \A p \in Ends : []<>(~Blocked(p) \/ (Blocked(Client) /\ Blocked(Server)))
  /\ <>[](sourcesink => Gone(Client) /\ Gone(Server) /\ rd[Server] = MaxIn)

SockTCPSafe == Printed /\ NothingLost

===============================================================================
