-------------------------------- MODULE StrCli --------------------------------
(***************************************************************************)
(* The course book's TCP echo client, whose function str_cli() it writes   *)
(* ten times, and the echo server in two versions.                         *)
(*                                                                         *)
(* cli is the client: "stop" (lib/str_cli.c, stop and wait), "sel1" and    *)
(* "sel2" (select/strcliselect01.c and 02), "stdio" (advio/                *)
(* str_cli_select02.c), "poll" (str_cli_poll03.c), "kqueue"                *)
(* (str_cli_kqueue04.c), "nonb" (nonblock/strclinonb.c), "fork"            *)
(* (strclifork.c), "thread" and "thread2" (threads/strclithread.c and 2).  *)
(* srv is the server: "echo" (lib/str_echo.c) or "stdio" (advio/           *)
(* str_echo_stdio02.c).                                                    *)
(*                                                                         *)
(* Streams keep the order, so a line is a number and each place it passes  *)
(* is a count: typed >= fetched >= taken >= sent >= got >= echoed >=       *)
(* recvd >= printed.                                                       *)
(***************************************************************************)
EXTENDS Naturals

CONSTANTS
  MaxLines,  \* bound: lines typed
  UpCap,     \* lines the connection holds on the way to the server
  DownCap,   \* and on the way back
  Buf,       \* lines in a buffer of the nonblocking client
  OutBuf     \* lines in the output buffer of the stdio server

VARIABLES
  cli, srv,
  typed, eof,      \* what the user, or the file, has supplied
  noeol,           \* and does the last line have no newline?
  fetched, taken,  \* read from there; handed out by stdio
  sent, cfin,      \* written to the socket; the client's FIN
  got, echoed,     \* read and written by the server
  sfin, sdead,     \* the server's FIN; has the server been killed?
  recvd, printed,  \* read from the socket; printed
  wpc,             \* the client's loop, or the part of it that writes
  rpc,             \* the part that reads ("fork", "thread" and "thread2")
  spc,             \* the server
  stdineof, done, rset,
  to, fr,          \* nonblocking client: [i, o], the pointers into its buffers
  end              \* of the client: "no", "done", "premature" or "died"

term   == <<typed, eof, noeol>>
input  == <<fetched, taken>>
server == <<got, echoed, sfin, sdead, spc>>
output == <<recvd, printed>>
bufs   == <<to, fr>>
vars == <<cli, srv, term, input, sent, cfin, server, output, wpc, rpc,
          stdineof, done, rset, bufs, end>>

Parts == {"fork", "thread", "thread2"}     \* two processes or threads
Loops == {"sel1", "sel2", "stdio", "poll", "kqueue"}
Stdio == {"sel1", "stdio"}                 \* Fgets and Readline after select

Init ==
  /\ cli \in {"stop", "nonb"} \cup Parts \cup Loops
  /\ srv \in {"echo", "stdio"}
  /\ typed = 0 /\ fetched = 0 /\ taken = 0 /\ sent = 0
  /\ got = 0 /\ echoed = 0 /\ recvd = 0 /\ printed = 0
  /\ eof = FALSE /\ noeol = FALSE /\ cfin = FALSE /\ sfin = FALSE /\ sdead = FALSE
  /\ wpc = IF cli \in {"stop"} \cup Parts THEN "fgets" ELSE "select"
  /\ rpc = IF cli \in Parts THEN "read" ELSE "off"
  /\ spc = "read"
  /\ stdineof = FALSE /\ done = FALSE /\ rset = {}
  /\ to = [i |-> 0, o |-> 0] /\ fr = [i |-> 0, o |-> 0]
  /\ end = "no"

-----------------------------------------------------------------------------
(* The calls of the client. *)

InputReady  == typed > fetched \/ eof
SocketReady == echoed > recvd \/ sfin

\* Fgets: a line from the buffer, which is filled with what there is.
FgetsLine ==
  /\ taken' = taken + 1
  /\ IF fetched > taken THEN UNCHANGED fetched ELSE fetched' \in fetched+1 .. typed
FgetsNull == eof /\ fetched = taken /\ typed = fetched

\* Is the line after the first k the one without a newline?
Unended(k) == noeol /\ k + 1 = typed

\* Readline has a buffer as well; it waits until it has a newline, or the FIN.  The
\* line is printed at once.
ReadlineLine ==
  /\ Unended(printed) => sfin
  /\ printed' = printed + 1
  /\ IF recvd > printed THEN UNCHANGED recvd ELSE recvd' \in recvd+1 .. echoed
ReadlineZero == sfin /\ recvd = printed /\ echoed = recvd

\* Read: what there is, or a part of it.
ReadInput  == fetched' \in fetched+1 .. typed /\ taken' = fetched'
ReadSocket == recvd' \in recvd+1 .. echoed /\ printed' = recvd'

\* Writen: line by line as the connection has room.  Writing to a server that
\* is gone raises SIGPIPE, once the reset has come.
Writen(next) ==
  /\ sent < taken
  /\ \/ /\ (sent - got < UpCap \/ sdead)
        /\ sent' = sent + 1
        /\ wpc' = IF sent' = taken THEN next ELSE wpc
        /\ UNCHANGED end
     \/ sdead /\ end' = "died" /\ UNCHANGED <<sent, wpc>>

\* The socket of a server that has died may be reset: reading is an error.
Broken == sdead /\ end' = "died"

Quiet == <<cli, srv, term, server, done>>

-----------------------------------------------------------------------------
(* lib/str_cli.c: a line, its echo, a line.                                  *)

StopAndWait ==
  /\ cli = "stop"
  /\ \/ /\ wpc = "fgets" /\ FgetsLine /\ wpc' = "write"
        /\ UNCHANGED <<sent, output, end>>
     \/ /\ wpc = "fgets" /\ FgetsNull /\ end' = "done"
        /\ UNCHANGED <<input, sent, output, wpc>>
     \/ /\ wpc = "write" /\ Writen("read")
        /\ UNCHANGED <<input, output>>
     \/ /\ wpc = "read" /\ ReadlineLine /\ wpc' = "fgets"
        /\ UNCHANGED <<input, sent, end>>
     \/ /\ wpc = "read"
        /\ ((ReadlineZero /\ end' = "premature") \/ Broken)
        /\ UNCHANGED <<input, sent, output, wpc>>
  /\ UNCHANGED <<Quiet, cfin, rpc, stdineof, rset, bufs>>

-----------------------------------------------------------------------------
(* The loops around select(), /dev/poll and kqueue().                        *)

\* The input is looked at until its end; /dev/poll reports it even then.
Asked == (IF stdineof /\ cli # "poll" THEN {} ELSE {"in"}) \cup {"sock"}

Select ==
  /\ wpc = "select"
  /\ rset' = {f \in Asked : IF f = "in" THEN InputReady ELSE SocketReady}
  /\ rset' # {}
  /\ wpc' = "ready"
  /\ UNCHANGED <<input, sent, cfin, output, stdineof, end>>

\* Programs with select() look at the socket first, the others in any order.
Turn(f) ==
  /\ wpc = "ready" /\ f \in rset
  /\ (f = "in" => cli \in {"poll", "kqueue"} \/ "sock" \notin rset)
  /\ rset' = rset \ {f}
Back == IF rset' = {} THEN "select" ELSE "ready"

SocketTurn ==
  /\ Turn("sock")
  /\ \/ /\ IF cli \in Stdio THEN ReadlineLine ELSE ReadSocket
        /\ wpc' = Back /\ UNCHANGED end
     \/ /\ ReadlineZero
        /\ end' = IF stdineof THEN "done" ELSE "premature"
        /\ UNCHANGED <<output, wpc>>
     \/ Broken /\ UNCHANGED <<output, wpc>>
  /\ UNCHANGED <<input, sent, cfin, stdineof>>

\* Mutant: the end of the input is noted, and no FIN sent.
AtEofSilent ==
  /\ FgetsNull
  /\ IF cli = "sel1" THEN end' = "done" /\ UNCHANGED <<stdineof, wpc>>
     ELSE /\ stdineof' = TRUE /\ wpc' = Back
          /\ end' = IF stdineof /\ sfin THEN "died" ELSE end
  /\ UNCHANGED <<input, cfin>>

\* strcliselect01.c returns at the end of the input, the others send a FIN;
\* a second shutdown() fails if the connection is closed.
AtEof ==
  /\ FgetsNull
  /\ IF cli = "sel1" THEN end' = "done" /\ UNCHANGED <<stdineof, cfin, wpc>>
     ELSE /\ stdineof' = TRUE /\ cfin' = TRUE /\ wpc' = Back
          /\ end' = IF stdineof /\ sfin THEN "died" ELSE end
  /\ UNCHANGED input

InputTurn ==
  /\ Turn("in")
  /\ \/ /\ IF cli \in Stdio THEN FgetsLine ELSE ReadInput
        /\ wpc' = "write" /\ UNCHANGED <<stdineof, cfin, end>>
     \/ AtEof
  /\ UNCHANGED <<sent, output>>

\* kqueue tells how much is left of a file: its end is known with the last line.
LoopWrite ==
  /\ wpc = "write"
  /\ Writen(IF rset = {} THEN "select" ELSE "ready")
  /\ \/ UNCHANGED <<stdineof, cfin>>
     \/ /\ cli = "kqueue" /\ wpc' # "write" /\ end' = "no"
        /\ eof /\ fetched = typed
        /\ stdineof' = TRUE /\ cfin' = TRUE
  /\ UNCHANGED <<input, output, rset>>

Loop ==
  /\ cli \in Loops
  /\ Select \/ SocketTurn \/ InputTurn \/ LoopWrite
  /\ UNCHANGED <<Quiet, rpc, bufs>>

-----------------------------------------------------------------------------
(* nonblock/strclinonb.c: four transfers, each of as much as it can; the      *)
(* buffers start again only when they are empty.                              *)

Least(a, b) == IF a < b THEN a ELSE b

NonbSelect ==
  /\ wpc = "select"
  /\ rset' = {f \in {"in", "sock", "out", "up"} :
                CASE f = "in"   -> ~stdineof /\ to.i < Buf /\ InputReady
                  [] f = "sock" -> fr.i < Buf /\ SocketReady
                  [] f = "out"  -> fr.i # fr.o
                  [] f = "up"   -> to.i # to.o /\ (sent - got < UpCap \/ sdead)}
  /\ rset' # {}
  /\ wpc' = "in"
  /\ UNCHANGED <<input, sent, cfin, output, stdineof, bufs, end>>

NonbIn ==
  /\ wpc = "in" /\ wpc' = "sock"
  /\ \/ /\ "in" \in rset /\ ReadInput /\ fetched' - fetched <= Buf - to.i
        /\ to' = [to EXCEPT !.i = @ + (fetched' - fetched)]
        /\ rset' = rset \cup {"up"}
        /\ UNCHANGED <<stdineof, cfin>>
     \/ /\ "in" \in rset /\ FgetsNull
        /\ stdineof' = TRUE /\ cfin' = (to.i = to.o)
        /\ UNCHANGED <<input, to, rset>>
     \/ "in" \notin rset /\ UNCHANGED <<input, to, rset, stdineof, cfin>>
  /\ UNCHANGED <<sent, output, fr, end>>

NonbSock ==
  /\ wpc = "sock" /\ wpc' = "out"
  /\ \/ /\ "sock" \in rset
        /\ recvd' \in recvd+1 .. Least(echoed, recvd + Buf - fr.i)
        /\ fr' = [fr EXCEPT !.i = @ + (recvd' - recvd)]
        /\ rset' \in {rset, rset \cup {"out"}}    \* the write is tried, and may find no room
        /\ UNCHANGED end
     \/ /\ "sock" \in rset
        /\ sfin /\ echoed = recvd
        /\ end' = IF stdineof THEN "done" ELSE "premature"
        /\ UNCHANGED <<recvd, fr, rset>>
     \/ "sock" \in rset /\ Broken /\ UNCHANGED <<recvd, fr, rset>>
     \/ "sock" \notin rset /\ UNCHANGED <<recvd, fr, rset, end>>
  /\ UNCHANGED <<input, sent, cfin, printed, stdineof, to>>

NonbOut ==
  /\ wpc = "out" /\ wpc' = "up"
  /\ IF "out" \in rset /\ fr.i > fr.o
     THEN \E k \in 1..fr.i - fr.o :
            /\ printed' = printed + k
            /\ fr' = IF fr.o + k = fr.i THEN [i |-> 0, o |-> 0] ELSE [fr EXCEPT !.o = @ + k]
     ELSE UNCHANGED <<printed, fr>>
  /\ UNCHANGED <<input, sent, cfin, recvd, stdineof, rset, to, end>>

NonbUp ==
  /\ wpc = "up" /\ wpc' = "select"
  /\ IF "up" \in rset /\ to.i > to.o /\ (sdead \/ sent - got < UpCap)
     THEN IF sdead THEN Broken /\ UNCHANGED <<sent, to, cfin>>
          ELSE \E k \in 1..Least(to.i - to.o, UpCap - (sent - got)) :
                 /\ sent' = sent + k
                 /\ to' = IF to.o + k = to.i THEN [i |-> 0, o |-> 0] ELSE [to EXCEPT !.o = @ + k]
                 /\ cfin' = (cfin \/ (to.o + k = to.i /\ stdineof))
                 /\ UNCHANGED end
     ELSE UNCHANGED <<sent, to, cfin, end>>
  /\ UNCHANGED <<input, output, stdineof, rset, fr>>

Nonb ==
  /\ cli = "nonb"
  /\ NonbSelect \/ NonbIn \/ NonbSock \/ NonbOut \/ NonbUp
  /\ UNCHANGED <<Quiet, rpc>>

-----------------------------------------------------------------------------
(* One process or thread writes, another reads.                              *)

\* The parent of strclifork.c, and copyto() of the threads: "flag" is the
\* place between Shutdown and done = 1 of strclithread2.c.
Copyto ==
  /\ cli \in Parts
  /\ \/ /\ wpc = "fgets" /\ FgetsLine /\ wpc' = "write"
        /\ UNCHANGED <<sent, cfin, done, end>>
     \/ /\ wpc = "fgets" /\ FgetsNull /\ cfin' = TRUE /\ wpc' = "flag"
        /\ UNCHANGED <<input, sent, done, end>>
     \/ /\ wpc = "write" /\ Writen("fgets")
        /\ UNCHANGED <<input, cfin, done>>
     \/ /\ wpc = "flag" /\ done' = TRUE /\ wpc' = "off"
        /\ UNCHANGED <<input, sent, cfin, end>>
  /\ UNCHANGED <<cli, srv, term, server, output, rpc, stdineof, rset, bufs>>

\* At the end of the stream the child kills its parent, and main returns,
\* which ends both threads.
Reader ==
  /\ cli \in Parts /\ rpc = "read"
  /\ \/ ReadlineLine /\ UNCHANGED <<rpc, end>>
     \/ /\ (ReadlineZero \/ sdead)
        /\ rpc' = "off"
        /\ end' = IF cli = "thread2" /\ ~done THEN "premature" ELSE "done"
        /\ UNCHANGED output
  /\ UNCHANGED <<Quiet, input, sent, cfin, wpc, stdineof, rset, bufs>>

-----------------------------------------------------------------------------
(* The server. *)

Serve == UNCHANGED <<cli, srv, term, input, sent, cfin, sdead, output, wpc, rpc,
                     stdineof, done, rset, bufs, end>>

\* str_echo(): read, Writen; at the end the connection is closed.
Str_echo ==
  /\ srv = "echo" /\ spc = "read"
  /\ \/ got' \in got+1 .. sent /\ spc' = "write" /\ UNCHANGED sfin
     \/ cfin /\ got = sent /\ sfin' = TRUE /\ spc' = "end" /\ UNCHANGED got
  /\ UNCHANGED echoed

\* With stdio the lines are written when the buffer is full, or at exit; and Fgets
\* waits for a newline, or the FIN.
Str_echo_stdio ==
  /\ srv = "stdio" /\ spc = "read"
  /\ \/ /\ got < sent /\ got' = got + 1 /\ (Unended(got) => cfin)
        /\ spc' = IF got' - echoed = OutBuf THEN "write" ELSE "read"
        /\ UNCHANGED sfin
     \/ /\ cfin /\ got = sent
        /\ spc' = IF got > echoed THEN "exit" ELSE "end"
        /\ sfin' = (got = echoed) /\ UNCHANGED got
  /\ UNCHANGED echoed

ServerWrite ==
  /\ spc \in {"write", "exit"}
  /\ echoed - recvd < DownCap
  /\ echoed' = echoed + 1
  /\ spc' = IF echoed' < got THEN spc
            ELSE IF spc = "exit" THEN "end" ELSE "read"
  /\ sfin' = (spc' = "end")
  /\ UNCHANGED got

Server == (Str_echo \/ Str_echo_stdio \/ ServerWrite) /\ Serve

\* Somebody kills the server.
Kill ==
  /\ spc # "end" /\ end = "no"
  /\ spc' = "end" /\ sfin' = TRUE /\ sdead' = TRUE
  /\ UNCHANGED <<cli, srv, term, input, sent, cfin, got, echoed, output, wpc, rpc,
                 stdineof, done, rset, bufs, end>>

\* The user, or the file standard input is redirected from.
Type ==
  /\ ~eof /\ typed < MaxLines /\ typed' = typed + 1
  /\ UNCHANGED <<cli, srv, eof, noeol, input, sent, cfin, server, output, wpc, rpc,
                 stdineof, done, rset, bufs, end>>
EndInput ==
  /\ ~eof /\ eof' = TRUE
  /\ \/ UNCHANGED <<typed, noeol>>
     \/ typed < MaxLines /\ typed' = typed + 1 /\ noeol' = TRUE
  /\ UNCHANGED <<cli, srv, input, sent, cfin, server, output, wpc, rpc,
                 stdineof, done, rset, bufs, end>>

Client == end = "no" /\ (StopAndWait \/ Loop \/ Nonb \/ Copyto)
Reads == (end = "no" \/ cli = "fork") /\ Reader
Next == Client \/ Reads \/ Server \/ Kill \/ Type \/ EndInput

\* Processes and threads that are not blocked run.
Fairness == WF_vars(Client) /\ WF_vars(Reads) /\ WF_vars(Server)
Spec == Init /\ [][Next]_vars /\ Fairness

-----------------------------------------------------------------------------
(* Properties. *)

\* A client that ends normally has printed the echo of all there was to read;
\* only strcliselect01.c returns without it, and strclinonb.c, which returns at the
\* server's FIN, without what its buffer fr still holds.
AllPrinted ==
  end = "done" /\ ~sdead /\ cli # "sel1" => eof /\ printed + (fr.i - fr.o) = typed

\* It says that the server has terminated prematurely only if that is so, except
\* strclithread2.c, which sets done after the FIN that makes the server end; and
\* only str_cli_poll03.c, which goes on asking about standard input, can fail by
\* itself.
EndsRight ==
  /\ AllPrinted
  /\ cli # "nonb" => fr.i = fr.o
  /\ end = "premature" => sdead \/ cli = "thread2"
  /\ end = "died" => sdead \/ cli = "poll"

\* Client and server both write, and neither reads.
Jam ==
  /\ cli \in Loops
  /\ wpc = "write" /\ sent - got = UpCap
  /\ spc \in {"write", "exit"} /\ echoed - recvd = DownCap

\* select() waits although stdio or Readline has a line in its buffer.
HeldBack ==
  /\ cli \in Stdio /\ wpc = "select"
  /\ (fetched > taken \/ recvd > printed)
  /\ (~InputReady \/ stdineof)
  /\ ~SocketReady

\* The echo of the stdio server is in its buffer.
Unflushed == srv = "stdio" /\ spc = "read" /\ got > echoed /\ got = sent /\ ~cfin

\* Readline, or the Fgets of the stdio server, waits for the newline of a last line
\* that has none, and the client does not send its FIN before it has the echo.
NoNewline ==
  /\ noeol /\ sent = typed /\ ~cfin
  /\ \/ cli = "stop" /\ wpc = "read" /\ Unended(printed) /\ echoed = typed
     \/ cli \in Stdio /\ wpc = "ready" /\ "sock" \in rset /\ Unended(printed) /\ echoed = typed
     \/ srv = "stdio" /\ spc = "read" /\ Unended(got)

\* Every line typed is printed in the end, and the client ends after the last,
\* but for four ways to get stuck: lines in a buffer that select() does not
\* know of, echoes in the buffer of the stdio server, a client with one
\* blocking loop against a full connection, and a last line without a newline.
\* The nonblocking client and those with two processes or threads never get
\* stuck with the server of lib/.  When the server is gone every client notices,
\* except the one that waits for a line of input.
Settles ==
  /\ <>[](end # "no" \/ (~eof /\ printed = typed) \/ HeldBack \/ Unflushed \/ Jam \/ NoNewline)
  /\ []<>(sdead => end # "no" \/ (cli = "stop" /\ wpc = "fgets" /\ ~eof))

===============================================================================
