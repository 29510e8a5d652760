------------------------------- MODULE SignalIO -------------------------------
(***************************************************************************)
(* The course book's signal-driven UDP echo server, sigio/dgecho01.c: the  *)
(* handler of SIGIO reads all datagrams the socket has into a ring of      *)
(* buffers, the main loop sends them back.  Both change nqueue; the main   *)
(* loop blocks the signal while it does.  Signals are asked for after the  *)
(* socket has been bound, and only then is it made not to block.           *)
(*                                                                         *)
(* A datagram is its number in the order of arrival.                       *)
(***************************************************************************)
EXTENDS Naturals, Sequences

CONSTANTS
  QSIZE,    \* buffers in the ring
  RcvBuf,   \* datagrams the socket queues (kernel)
  MaxDg     \* bound: datagrams that arrive

\* What the constants are.
RingAssumption == QSIZE \in Nat \ {0} /\ RcvBuf \in Nat /\ MaxDg \in Nat

VARIABLES
  mpc,      \* set-up: "bound", "async", "nonblock"; main loop: "test",
            \* "suspend", "send", "block"; or "quit"
  inside,   \* is the handler running?
  raised,   \* is SIGIO pending?
  woken,    \* history: has it ever been raised?
  dg, iget, iput, nqueue,
  nread,    \* the handler's count
  sockq,    \* the socket's queue
  narrived,
  echoed    \* the datagram sent back last

ring == <<dg, iget, iput, nqueue, nread>>
vars == <<mpc, inside, raised, woken, ring, sockq, narrived, echoed>>

Init ==
  /\ mpc = "bound" /\ inside = FALSE /\ raised = FALSE /\ woken = FALSE
  /\ dg = [i \in 0..QSIZE-1 |-> 0]
  /\ iget = 0 /\ iput = 0 /\ nqueue = 0 /\ nread = 0
  /\ sockq = <<>> /\ narrived = 0 /\ echoed = 0

Succ(i) == (i + 1) % QSIZE

\* A datagram comes.  If there is room the kernel queues it, and raises SIGIO
\* once the program has asked for it.
Arrive ==
  /\ narrived < MaxDg
  /\ narrived' = narrived + 1
  /\ LET fits == Len(sockq) < RcvBuf
         asked == fits /\ mpc # "bound"
     IN  /\ sockq' = IF fits THEN Append(sockq, narrived + 1) ELSE sockq
         /\ raised' = (raised \/ asked)
         /\ woken' = (woken \/ asked)
  /\ UNCHANGED <<mpc, inside, ring, echoed>>

\* FIOASYNC, then FIONBIO, then SIGIO is blocked for the main loop.  A call that
\* fails ends the program.
Setup ==
  /\ ~inside
  /\ \/ mpc = "bound" /\ mpc' \in {"async", "quit"}
     \/ mpc = "async" /\ mpc' \in {"nonblock", "quit"}
     \/ mpc = "nonblock" /\ mpc' \in {"test", "quit"}
  /\ UNCHANGED <<inside, raised, woken, ring, sockq, narrived, echoed>>

-----------------------------------------------------------------------------
(* The main loop.  SIGIO is blocked at "test" and while nqueue is changed.   *)

Unblocked == mpc \in {"async", "nonblock", "suspend", "send", "block"}

\* while (nqueue == 0) sigsuspend(); then SIGIO is unblocked.
Test ==
  /\ mpc = "test"
  /\ mpc' = IF nqueue = 0 THEN "suspend" ELSE "send"
  /\ UNCHANGED <<inside, raised, woken, ring, sockq, narrived, echoed>>

\* Sendto and iget; the socket is not blocking, so Sendto may fail and end
\* the program.
Send ==
  /\ mpc = "send" /\ ~inside
  /\ \/ mpc' = "block" /\ echoed' = dg[iget] /\ iget' = Succ(iget)
     \/ mpc' = "quit" /\ UNCHANGED <<echoed, iget>>
  /\ UNCHANGED <<inside, raised, woken, dg, iput, nqueue, nread, sockq, narrived>>

\* SIGIO is blocked again and the buffer given back.
Block ==
  /\ mpc = "block" /\ ~inside
  /\ nqueue' = nqueue - 1
  /\ mpc' = "test"
  /\ UNCHANGED <<inside, raised, woken, dg, iget, iput, nread, sockq, narrived, echoed>>

-----------------------------------------------------------------------------
(* sig_io *)

Signal ==
  /\ raised /\ Unblocked /\ ~inside
  /\ inside' = TRUE /\ raised' = FALSE /\ nread' = 0
  /\ UNCHANGED <<mpc, woken, dg, iget, iput, nqueue, sockq, narrived, echoed>>

\* The handler ends; sigsuspend() returns with it.
HandlerDone ==
  /\ inside' = FALSE
  /\ mpc' = IF mpc = "suspend" THEN "test" ELSE mpc
  /\ UNCHANGED <<ring, sockq>>

HandlerRead ==
  /\ dg' = [dg EXCEPT ![iput] = Head(sockq)]
  /\ iput' = Succ(iput)
  /\ sockq' = Tail(sockq)
  /\ nqueue' = nqueue + 1 /\ nread' = nread + 1
  /\ UNCHANGED <<mpc, inside, iget>>

\* Mutant: the handler does not look at the length of the queue.
HandlerUnchecked ==
  /\ inside
  /\ IF sockq = <<>> THEN mpc # "async" /\ HandlerDone ELSE HandlerRead
  /\ UNCHANGED <<raised, woken, narrived, echoed>>

Quit == mpc' = "quit" /\ inside' = FALSE /\ UNCHANGED <<ring, sockq>>

\* A turn of the handler's loop: it looks at the queue before it knows whether
\* there is another datagram.  When there is none recvfrom() says so, but
\* before FIONBIO it waits for one: the set-up does not go on, and the handler
\* reads until the queue is full.
Handler ==
  /\ inside
  /\ \/ nqueue >= QSIZE /\ Quit
     \/ nqueue < QSIZE /\ sockq = <<>> /\ mpc # "async" /\ HandlerDone
     \/ nqueue < QSIZE /\ sockq # <<>> /\ HandlerRead
  /\ UNCHANGED <<raised, woken, narrived, echoed>>

\* recvfrom() fails otherwise and ends the program.
RecvfromFails ==
  /\ inside /\ nqueue < QSIZE
  /\ Quit
  /\ UNCHANGED <<raised, woken, narrived, echoed>>

Main == Setup \/ Test \/ Send \/ Block
Next == Arrive \/ Main \/ Signal \/ Handler \/ RecvfromFails

Fairness == WF_vars(Main) /\ WF_vars(Signal) /\ WF_vars(Handler)
Spec == Init /\ [][Next]_vars /\ Fairness

-----------------------------------------------------------------------------
(* Properties. *)

\* Each datagram is echoed at most once and in the order of arrival: the
\* handler never writes over a buffer that is being sent, since nqueue counts
\* that one until the signal is blocked again.
EchoedInOrder == [][echoed' # echoed => echoed' > echoed]_vars

\* The two ways in which the set-up lets what has come stay where it is: it
\* came before FIOASYNC, and nothing that the socket could queue has come since;
\* or the handler began before FIONBIO and waits in recvfrom().
TooEarly == ~woken
Caught == mpc = "async" /\ inside

\* No other wake-up is lost: what is in the socket or the ring gets sent, or the
\* server quits.  It does when the last buffer is filled, whether or not there
\* is a datagram that does not fit, and then too when the handler was caught.
NothingStays ==
  /\ []<>(nqueue = QSIZE => mpc = "quit")
  /\ []<>(mpc = "quit" \/ (sockq = <<>> /\ nqueue = 0) \/ TooEarly \/ Caught)

===============================================================================
