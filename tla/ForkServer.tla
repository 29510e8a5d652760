----------------------------- MODULE ForkServer -----------------------------
(***************************************************************************)
(* Project 1: ServerM.c sends files to its clients (Client2.c), one forked *)
(* child for each connection.  A request is a buffer that holds a file     *)
(* name and is padded with zeros, a reply a buffer of the same size, but   *)
(* nothing delimits them in the byte stream: one recv() or read() may      *)
(* return part of a buffer.  The model splits a buffer into two halves.    *)
(*                                                                         *)
(* No process waits for the children.  A child that leaves its loop passes *)
(* fclose() the NULL of its last fopen() and is killed by SIGSEGV.  After  *)
(* each reply it clears twice the size of its buffer: what that does is    *)
(* not defined.  Either it spoils nothing that is used again, or it kills  *)
(* the child (a build that checks the size aborts there).                  *)
(***************************************************************************)
EXTENDS Integers, Sequences, FiniteSets, FiniteSetsExt

CONSTANTS
  Clients,
  MaxProcs,   \* children, zombies included, the system lets the server have
  MaxReq      \* bound: requests of all clients together

VARIABLES
  spc,      \* server: "accept" or "exited"
  backlog,  \* connections not accepted yet
  strays,   \* children forked after an accept() that failed, all dead
  child,    \* per client: "none", "run", "dead", "overrun" (dead of its own
            \* memset()), or "refused" (fork failed)
  cpc,      \* client: "start", "prompt", "read", "closing" or "closed"
  req,      \* client: requests sent
  up,       \* bytes on the way to the child: halves <<request, 1 or 2>>
  down,     \* bytes on the way to the client: halves <<request, 1 or 2>>
  inStep,   \* history: did the last read() that returned a reply return the one
            \* asked for?
  cut       \* history: has a call returned part of a buffer to this client or
            \* its child?

vars == <<spc, backlog, strays, child, cpc, req, up, down, inStep, cut>>

Init ==
  /\ spc = "accept"
  /\ backlog = <<>>
  /\ strays = 0
  /\ child = [c \in Clients |-> "none"]
  /\ cpc = [c \in Clients |-> "start"]
  /\ req = [c \in Clients |-> 0]
  /\ up = [c \in Clients |-> <<>>]
  /\ down = [c \in Clients |-> <<>>]
  /\ inStep = [c \in Clients |-> TRUE]
  /\ cut = [c \in Clients |-> FALSE]

\* Server and children share the listening socket: the children do not close
\* it, so connections are completed while any of them lives.
Listening == spc = "accept" \/ \E c \in Clients : child[c] = "run"

\* Is nobody left at the other end of the client's connection?
Gone(c) == child[c] \in {"refused", "overrun"} \/ ~Listening

\* The numbers of halves a call on a stream may take: any that have arrived,
\* up to a whole buffer.
Takes(s) == 1..(IF Len(s) < 2 THEN Len(s) ELSE 2)

Rest(s, k) == SubSeq(s, k + 1, Len(s))

\* Request 0 answers the part of a buffer that holds no name.
Answers(half) == IF half[2] = 1 THEN half[1] ELSE 0

-----------------------------------------------------------------------------
(* Client2.c *)

Connect(c) ==
  /\ cpc[c] = "start"
  /\ IF Listening
     THEN backlog' = Append(backlog, c) /\ cpc' = [cpc EXCEPT ![c] = "prompt"]
     ELSE UNCHANGED backlog /\ cpc' = [cpc EXCEPT ![c] = "closed"]
  /\ UNCHANGED <<spc, strays, child, req, up, down, inStep, cut>>

\* A name is typed, and "close" is one: it is sent like any other, and the
\* loop ends after its answer. What is written to nobody is lost.
Write(c) ==
  /\ cpc[c] = "prompt"
  /\ MapThenSumSet(LAMBDA d : req[d], Clients) < MaxReq
  /\ req' = [req EXCEPT ![c] = @ + 1]
  /\ up' = [up EXCEPT ![c] =
       IF Gone(c) THEN @ ELSE @ \o <<<<req'[c], 1>>, <<req'[c], 2>>>>]
  /\ cpc' \in {[cpc EXCEPT ![c] = "read"], [cpc EXCEPT ![c] = "closing"]}
  /\ UNCHANGED <<spc, backlog, strays, child, down, inStep, cut>>

\* Mutant: the client reads all there is, however many answers.
ReadAll(c) ==
  /\ cpc[c] \in {"read", "closing"}
  /\ down[c] # <<>>
  /\ inStep' = [inStep EXCEPT ![c] = down[c][Len(down[c])][1] = req[c]]
  /\ down' = [down EXCEPT ![c] = <<>>]
  /\ cpc' = [cpc EXCEPT ![c] = IF @ = "read" THEN "prompt" ELSE "closed"]
  /\ UNCHANGED <<spc, backlog, strays, child, req, up, cut>>

\* The client goes on whatever read() returned, even if that is nothing.
Read(c) ==
  /\ cpc[c] \in {"read", "closing"}
  /\ \/ /\ down[c] # <<>>
        /\ \E k \in Takes(down[c]) :
             /\ down' = [down EXCEPT ![c] = Rest(@, k)]
             /\ cut' = [cut EXCEPT ![c] = @ \/ k = 1]
        /\ inStep' = [inStep EXCEPT ![c] = Answers(Head(down[c])) = req[c]]
     \/ /\ down[c] = <<>>
        /\ Gone(c)
        /\ UNCHANGED <<down, inStep, cut>>
  /\ cpc' = [cpc EXCEPT ![c] = IF @ = "read" THEN "prompt" ELSE "closed"]
  /\ UNCHANGED <<spc, backlog, strays, child, req, up>>

\* The user interrupts the client, or its second write() to a connection
\* whose other end is gone does. What it has not read is lost.
Die(c) ==
  /\ cpc[c] \in {"prompt", "read", "closing"}
  /\ cpc' = [cpc EXCEPT ![c] = "closed"]
  /\ down' = [down EXCEPT ![c] = <<>>]
  /\ UNCHANGED <<spc, backlog, strays, child, req, up, inStep, cut>>

-----------------------------------------------------------------------------
(* ServerM.c, the parent *)

\* Children the parent has not waited for, the dead ones included.
NChildren == strays + Quantify(Clients, LAMBDA c : child[c] \in {"run", "dead", "overrun"})

\* accept(), fork() and the parent's close(). If fork fails the server ends.
Accept ==
  /\ spc = "accept"
  /\ backlog # <<>>
  /\ backlog' = Tail(backlog)
  /\ LET c == Head(backlog)
     IN  IF NChildren < MaxProcs
         THEN child' = [child EXCEPT ![c] = "run"] /\ UNCHANGED spc
         ELSE child' = [child EXCEPT ![c] = "refused"] /\ spc' = "exited"
  /\ UNCHANGED <<strays, cpc, req, up, down, inStep, cut>>

\* accept() fails, and the parent forks all the same.  The child's calls on
\* descriptor -1 fail at once, and fclose(NULL) kills it.
AcceptFails ==
  /\ spc = "accept"
  /\ IF NChildren < MaxProcs
     THEN strays' = strays + 1 /\ UNCHANGED spc
     ELSE spc' = "exited" /\ UNCHANGED strays
  /\ UNCHANGED <<backlog, child, cpc, req, up, down, inStep, cut>>

-----------------------------------------------------------------------------
(* ServerM.c, a child *)

\* recv() returns k halves; what they begin with is taken for a file name,
\* and the file or the error message is sent, in a whole buffer either way.
\* Then memset() runs over the buffer's end, and the child may die of it: what
\* it has sent still comes, what it has not received is lost.
ChildReply(c) ==
  /\ child[c] = "run"
  /\ up[c] # <<>>
  /\ \E k \in Takes(up[c]) :
       LET r == Answers(Head(up[c]))
       IN  /\ \/ up' = [up EXCEPT ![c] = Rest(@, k)] /\ UNCHANGED child
              \/ up' = [up EXCEPT ![c] = <<>>] /\ child' = [child EXCEPT ![c] = "overrun"]
           /\ cut' = [cut EXCEPT ![c] = @ \/ k = 1]
           /\ down' = [down EXCEPT ![c] = @ \o <<<<r, 1>>, <<r, 2>>>>]
  /\ UNCHANGED <<spc, backlog, strays, cpc, req, inStep>>

\* The client has closed: recv() returns 0 (or send() raises SIGPIPE), the
\* loop ends and fclose(NULL) kills the child. It does not come to close(),
\* nor round the outer loop to accept(). The connection ends with it.
ChildEnds(c) ==
  /\ child[c] = "run"
  /\ cpc[c] = "closed"
  /\ child' = [child EXCEPT ![c] = "dead"]
  /\ up' = [up EXCEPT ![c] = <<>>]
  /\ down' = [down EXCEPT ![c] = <<>>]
  /\ UNCHANGED <<spc, backlog, strays, cpc, req, inStep, cut>>

ClientNext(c) == Connect(c) \/ Write(c) \/ Read(c) \/ Die(c)
ChildNext(c) == ChildReply(c) \/ ChildEnds(c)

Next == Accept \/ AcceptFails \/ \E c \in Clients : ClientNext(c) \/ ChildNext(c)

\* Server, children and clients run when they can; nobody has to connect,
\* type or go away, and accept() does not have to fail.
Fairness ==
  /\ WF_vars(Accept)
  /\ \A c \in Clients : WF_vars(ChildNext(c)) /\ WF_vars(Read(c))

Spec == Init /\ [][Next]_vars /\ Fairness

-----------------------------------------------------------------------------
(* Properties. *)

\* Every variable has its type.
TypeOK ==
  /\ spc \in {"accept", "exited"}
  /\ backlog \in Seq(Clients)
  /\ strays \in 0..MaxProcs
  /\ child \in [Clients -> {"none", "run", "dead", "overrun", "refused"}]
  /\ cpc \in [Clients -> {"start", "prompt", "read", "closing", "closed"}]
  /\ req \in [Clients -> 0..MaxReq]
  /\ up \in [Clients -> Seq((1..MaxReq) \X {1, 2})]
  /\ down \in [Clients -> Seq((0..MaxReq) \X {1, 2})]
  /\ inStep \in [Clients -> BOOLEAN]
  /\ cut \in [Clients -> BOOLEAN]

\* However requests and disconnections interleave, a child whose memset() has
\* not killed it dies only when its client is gone, and a connection is served
\* by nobody or by one child.
ChildOutlivesClient ==
  \A c \in Clients :
    /\ child[c] = "dead" => cpc[c] = "closed"
    /\ child[c] # "none" => \A k \in DOMAIN backlog : backlog[k] # c

\* After the server has ended, its children keep the port open: a client can
\* connect, but nobody will ever serve it.
NobodyAccepts ==
  [][spc = "exited" => \A c \in Clients : child[c] = "none" => child'[c] = "none"]_vars

\* A client gets the answer to the request it just wrote until a call
\* returns part of a buffer, and never again once it has read anything else:
\* nothing in the exchange lets the two ends find the boundary again.
OutOfStepForGood ==
  [][\A c \in Clients : inStep'[c] # inStep[c] => inStep[c] /\ cut'[c]]_vars

\* Yet a client with a child does not wait for ever: each of its requests is
\* followed by a reply, if not by its own.  Nor does one whose server is gone.
ReplyFollows ==
  \A c \in Clients : []<>(cpc[c] = "read" => child[c] # "run" /\ ~Gone(c))

=============================================================================
