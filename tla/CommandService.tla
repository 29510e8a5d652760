--------------------------- MODULE CommandService ---------------------------
(***************************************************************************)
(* Homework 2: RhettDavid-hw2.cpp runs each command line it receives and   *)
(* answers with a buffer of 1024 bytes; EchoClient.cpp writes a line and   *)
(* then reads once, at most 100 bytes.  One call to recv() may return two  *)
(* lines, of which the first alone is run, for it ends with a zero byte,   *)
(* or a part of one.  Both ends write without reading what the other sends *)
(* meanwhile.                                                              *)
(*                                                                         *)
(* A command is its number.  An answer is AnswerSize units: the number of  *)
(* the command for each unit of output, and zero after that.  The answers  *)
(* follow one another without a mark, and a read() of ReadSize units may   *)
(* begin anywhere in one and end in the next; what it shows ends at the    *)
(* first zero.                                                             *)
(***************************************************************************)
EXTENDS Integers, SequencesExt

CONSTANTS
  AnswerSize,  \* units of an answer (1024 bytes in the code)
  ReadSize,    \* units a read() takes at most (100 bytes)
  UpCap,       \* commands the connection holds on its way to the server
  DownCap,     \* units it holds on the way back
  MaxCmd       \* bound: commands typed, and commands run before no more lines
               \* are cut in two

\* What the constants are.
CommandAssumption ==
  /\ AnswerSize \in Nat \ {0} /\ ReadSize \in Nat \ {0}
  /\ UpCap \in Nat \ {0} /\ DownCap \in Nat \ {0} /\ MaxCmd \in Nat

VARIABLES
  cpc,     \* client: "prompt", "write", "read", "last" or "closed"
  typed,   \* client: commands typed
  got,     \* history: units the client has read
  shown,   \* history: where in the stream the last read() began, and the
           \* commands of which it showed output
  up,      \* commands on their way
  down,    \* units on their way back
  spc,     \* server: "recv", "run", "hung" (in a command that does not end),
           \* "send", "accept" (the next client) or "exited"
  text,    \* server: units of output in the send buffer
  unsent,  \* server: units of the buffer that send() has not handed over
  ran      \* history: commands run, in order

clientVars == <<cpc, typed, got, shown>>
serverVars == <<spc, text, unsent, ran>>
vars == <<clientVars, up, down, serverVars>>

\* The client has connected and asks for the first line.
ClientInit == cpc = "prompt" /\ typed = 0 /\ got = 0 /\ shown = [at |-> 0, of |-> {}]

\* The server has accepted the connection.
ServerInit == spc = "recv" /\ text = 0 /\ unsent = 0 /\ ran = <<>>

Init == ClientInit /\ ServerInit /\ up = <<>> /\ down = <<>>

-----------------------------------------------------------------------------
(* The client. *)

TypeLine ==
  /\ cpc = "prompt"
  /\ typed < MaxCmd
  /\ typed' = typed + 1
  /\ cpc' = "write"
  /\ UNCHANGED <<got, shown, up, down, serverVars>>

\* Mutant: write() does not wait, and its result is not looked at.
WriteNoWait ==
  /\ cpc = "write"
  /\ up' = IF Len(up) < UpCap THEN Append(up, typed) ELSE up
  /\ cpc' \in {"read", "last"}
  /\ UNCHANGED <<typed, got, shown, down, serverVars>>

\* write() blocks while the connection is full. "close" is a command like
\* any other, and the last. To a server that is gone the first write() goes
\* unnoticed or the signal SIGPIPE ends the client.
Write ==
  /\ cpc = "write"
  /\ \/ /\ Len(up) < UpCap
        /\ up' = Append(up, typed)
        /\ cpc' \in {"read", "last"}
     \/ /\ spc = "exited"
        /\ cpc' \in {"read", "last", "closed"}
        /\ UNCHANGED up
  /\ UNCHANGED <<typed, got, shown, down, serverVars>>

\* After the read() that follows "close" the client closes.
AfterRead == cpc' = IF cpc = "read" THEN "prompt" ELSE "closed"

\* One read() takes m of the units that have come, and those before the
\* first zero are shown.
Read ==
  /\ cpc \in {"read", "last"}
  /\ \E m \in 1..ReadSize :
       /\ m <= Len(down)
       /\ got' = got + m
       /\ shown' = [at |-> got,
                    of |-> {down[i] : i \in {i \in 1..m : \A j \in 1..i : down[j] # 0}}]
       /\ down' = SubSeq(down, m + 1, Len(down))
  /\ AfterRead
  /\ UNCHANGED <<typed, up, serverVars>>

\* The server is gone and nothing is left to read: read() returns 0 or fails,
\* nothing is shown, and the client goes on.
ReadNothing ==
  /\ cpc \in {"read", "last"}
  /\ spc = "exited" /\ down = <<>>
  /\ shown' = [at |-> got, of |-> {}]
  /\ AfterRead
  /\ UNCHANGED <<typed, got, up, down, serverVars>>

\* The user interrupts the client.
Interrupt ==
  /\ cpc # "closed"
  /\ cpc' = "closed"
  /\ UNCHANGED <<typed, got, shown, up, down, serverVars>>

-----------------------------------------------------------------------------
(* The server. *)

\* recv() returns k commands, or a part of the first, whose rest becomes a
\* command of its own; popen() runs the first.
Recv ==
  /\ spc = "recv"
  /\ up # <<>>
  /\ \E k \in 0..Len(up) :
       /\ k = 0 => Len(ran) < MaxCmd
       /\ up' = SubSeq(up, k + 1, Len(up))
  /\ ran' = Append(ran, Head(up))
  /\ unsent' = AnswerSize
  /\ spc' = "run"
  /\ UNCHANGED <<clientVars, down, text>>

\* fgets() collects the output, which leaves room for a zero byte, until the
\* command ends, and some do not. popen() may fail, and no check keeps longer
\* output inside the buffer: the server may die, and what had not reached the
\* client may be lost with it.
Run ==
  /\ spc = "run"
  /\ \/ /\ text' \in 0..AnswerSize - 1
        /\ spc' = "send"
        /\ UNCHANGED down
     \/ spc' = "hung" /\ UNCHANGED <<text, down>>
     \/ /\ spc' = "exited"
        /\ \E n \in 0..Len(down) : down' = SubSeq(down, 1, n)
        /\ UNCHANGED text
  /\ UNCHANGED <<clientVars, up, unsent, ran>>

\* send() hands over as much of the buffer as the connection holds and waits
\* for room for the rest.
Send ==
  /\ spc = "send"
  /\ cpc # "closed"
  /\ Len(down) < DownCap
  /\ down' = Append(down, IF AnswerSize - unsent < text THEN Last(ran) ELSE 0)
  /\ unsent' = unsent - 1
  /\ spc' = IF unsent' = 0 THEN "recv" ELSE "send"
  /\ UNCHANGED <<clientVars, up, text, ran>>

\* The client is gone: recv() returns 0 and the next connection is accepted,
\* or recv() or send() fails and the server exits, which it must if a byte
\* was left unread.
ClientGone ==
  /\ cpc = "closed"
  /\ \/ spc = "recv" /\ up = <<>> /\ down = <<>> /\ spc' = "accept"
     \/ /\ spc = "send" \/ (spc = "recv" /\ (up # <<>> \/ down # <<>>))
        /\ spc' = "exited"
  /\ UNCHANGED <<clientVars, up, down, text, unsent, ran>>

Client == Write \/ Read \/ ReadNothing
Server == Recv \/ Run \/ Send \/ ClientGone
Next == TypeLine \/ Client \/ Interrupt \/ Server

\* Both programs run when they can; nobody has to type.
Fairness == WF_vars(Client) /\ WF_vars(Server)

Spec == Init /\ [][Next]_vars /\ Fairness

-----------------------------------------------------------------------------
(* Properties. *)

\* What a read() shows is output of one command, that in whose answer it
\* began, however many it touches: the answers are as long as they are, and
\* each ends with a zero. After typed commands it began at unit
\* ReadSize * (typed - 1) of the stream at most, long before the answer to the
\* command just typed: the output falls behind the input more with every one.
ShownLate ==
  typed > 0 =>
    /\ shown.at <= ReadSize * (typed - 1)
    /\ \A k \in shown.of : k = ran[(shown.at \div AnswerSize) + 1]

\* The client cannot write and the server cannot send, each for want of the
\* other's read: the connection is full in both directions.
Jammed ==
  /\ cpc = "write" /\ Len(up) = UpCap
  /\ spc = "send" /\ Len(down) = DownCap

\* Commands get lost, and cut in two, but the only read() that waits for ever
\* is one behind a command that never ends: otherwise more units come than are
\* read. A write() may, too: once both ends write, nothing but the user's
\* interrupt ends that.
WhatBlocks ==
  /\ []<>(cpc = "read" => spc = "hung" /\ down = <<>>)
  /\ [][Jammed => Jammed' \/ cpc' = "closed"]_vars

=============================================================================
