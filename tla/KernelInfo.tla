------------------------------ MODULE KernelInfo ------------------------------
(***************************************************************************)
(* Programs that ask the kernel while others change what they ask about:   *)
(* the list of interfaces by SIOCGIFCONF (lib/get_ifi_info.c) and by       *)
(* sysctl() (route/get_ifi_info.c, libroute/), and the requests on routing *)
(* and key sockets (route/getrt.c, key/), where everybody's messages come. *)
(* Each system call is a step of its own.                                  *)
(***************************************************************************)
EXTENDS Integers, SequencesExt

CONSTANTS
  NIfs,         \* interfaces; their numbers are their names, their indexes and their order
  MaxAddrs,     \* bound: addresses of an interface
  First, More,  \* entries the first buffer holds (100), and how many more the next (10)
  MaxChanges,   \* bound: changes of the interfaces while a program runs
  Room,         \* messages the queue of a socket holds
  MaxOwn,       \* bound: associations a dump lists
  MaxNews       \* bound: messages others cause

Ifs == 1..NIfs

VARIABLES
  prog,         \* "ioctl", "sysctl", "names", "lookup", "getrt", "add", "register", "dump"
  doaliases,
  links,        \* whether SIOCGIFCONF lists the hardware addresses too
  strict,       \* whether it refuses a buffer that is too small
  present, up, naddr,   \* the kernel's table
  changes,
  touched,      \* history: interfaces changed since the program began
  pc,
  size, lastlen, buf, pos,
  lastname, sdlname, alias,
  list,         \* the result, or what is printed
  wanted,       \* the interface that "lookup" asks for
  owed,         \* answers the kernel has still to send
  queue,        \* messages in the program's socket
  news,
  dropped       \* history: an answer found the queue full

options == <<prog, doaliases, links, strict, wanted>>
kernel  == <<present, up, naddr, changes, touched>>
walk    == <<size, lastlen, buf, pos, lastname, sdlname, alias>>
socket  == <<owed, queue, news, dropped>>
vars    == <<options, kernel, pc, walk, list, socket>>

Asking == {"getrt", "add", "register", "dump"}

Init ==
  /\ prog \in {"ioctl", "sysctl", "names", "lookup"} \cup Asking
  /\ doaliases \in IF prog \in {"ioctl", "sysctl"} THEN BOOLEAN ELSE {FALSE}
  /\ links \in IF prog = "ioctl" THEN BOOLEAN ELSE {TRUE}
  /\ strict \in IF prog = "ioctl" THEN BOOLEAN ELSE {FALSE}
  /\ wanted \in IF prog = "lookup" THEN Ifs ELSE {1}
  /\ IF prog \in Asking THEN present = {} /\ up = {} /\ naddr = [n \in Ifs |-> 0]
     ELSE /\ present \in SUBSET Ifs /\ up \in SUBSET present
          /\ naddr \in {a \in [Ifs -> 0..MaxAddrs] : \A n \in Ifs \ present : a[n] = 0}
  /\ changes = 0 /\ touched = {}
  /\ pc = "ask" /\ size = First /\ lastlen = 0 /\ buf = <<>> /\ pos = 1
  /\ lastname = 0 /\ sdlname = 0 /\ alias = FALSE /\ list = <<>>
  /\ owed = <<>> /\ queue = <<>> /\ news = 0 /\ dropped = FALSE

-----------------------------------------------------------------------------
(* The kernel. *)

\* Its records of the interfaces that are present: one for the interface if links,
\* and one for each address.
Listing ==
  LET of(n) == (IF links THEN <<[type |-> "link", name |-> n, up |-> n \in up, addr |-> 0]>> ELSE <<>>)
               \o [k \in 1..naddr[n] |-> [type |-> "addr", name |-> n, up |-> n \in up, addr |-> k]]
  IN  FlattenSeq([n \in Ifs |-> IF n \in present THEN of(n) ELSE <<>>])

\* Somebody plugs, unplugs, configures or switches an interface.
Change(n) ==
  /\ prog \notin Asking /\ pc \in {"ask", "fetch", "walk", "detail"} /\ changes < MaxChanges
  /\ \/ n \notin present /\ present' = present \cup {n} /\ UNCHANGED <<up, naddr>>
     \/ n \in present /\ present' = present \ {n} /\ up' = up \ {n} /\ naddr' = [naddr EXCEPT ![n] = 0]
     \/ n \in present /\ up' = (IF n \in up THEN up \ {n} ELSE up \cup {n}) /\ UNCHANGED <<present, naddr>>
     \/ /\ n \in present /\ UNCHANGED <<present, up>>
        /\ \E a \in {naddr[n] - 1, naddr[n] + 1} \cap 0..MaxAddrs : naddr' = [naddr EXCEPT ![n] = a]
  /\ changes' = changes + 1 /\ touched' = touched \cup {n}
  /\ UNCHANGED <<options, pc, walk, list, socket>>

-----------------------------------------------------------------------------
(* lib/get_ifi_info.c *)

\* Mutant: the first buffer that is filled is taken.
ConfAtOnce ==
  LET n == IF Len(Listing) <= size THEN Len(Listing) ELSE size IN
  /\ prog = "ioctl" /\ pc = "ask"
  /\ IF strict /\ Len(Listing) > size
     THEN /\ UNCHANGED <<lastlen, buf>>
          /\ IF lastlen # 0 THEN pc' = "dead" /\ UNCHANGED size ELSE size' = size + More /\ UNCHANGED pc
     ELSE pc' = "walk" /\ buf' = SubSeq(Listing, 1, n) /\ UNCHANGED <<size, lastlen>>
  /\ UNCHANGED <<options, kernel, pos, lastname, sdlname, alias, list, socket>>

\* SIOCGIFCONF, with a larger buffer each time, until a call stores no more than
\* the last.  An error after a success ends the program.
Conf ==
  LET n == IF Len(Listing) <= size THEN Len(Listing) ELSE size IN
  /\ prog = "ioctl" /\ pc = "ask"
  /\ IF strict /\ Len(Listing) > size
     THEN /\ UNCHANGED <<lastlen, buf>>
          /\ IF lastlen # 0 THEN pc' = "dead" /\ UNCHANGED size ELSE size' = size + More /\ UNCHANGED pc
     ELSE IF n = lastlen
     THEN pc' = "walk" /\ buf' = SubSeq(Listing, 1, n) /\ UNCHANGED <<size, lastlen>>
     ELSE lastlen' = n /\ size' = size + More /\ UNCHANGED <<pc, buf>>
  /\ UNCHANGED <<options, kernel, pos, lastname, sdlname, alias, list, socket>>

\* An entry, up to SIOCGIFFLAGS.  The name of an alias is cut at the colon, so
\* that it is that of the interface; an error of ioctl() ends the program.
Entry ==
  LET e == buf[pos] IN
  /\ prog = "ioctl" /\ pc = "walk" /\ pos <= Len(buf)
  /\ IF e.type = "link" THEN sdlname' = e.name /\ pos' = pos + 1 /\ UNCHANGED <<pc, lastname, alias>>
     ELSE /\ UNCHANGED sdlname
          /\ IF lastname = e.name /\ ~doaliases THEN pos' = pos + 1 /\ UNCHANGED <<pc, lastname, alias>>
             ELSE /\ lastname' = e.name /\ alias' = (lastname = e.name)
                  /\ \/ e.name \notin present /\ pc' = "dead" /\ UNCHANGED pos
                     \/ e.name \in present \ up /\ pos' = pos + 1 /\ UNCHANGED pc
                     \/ e.name \in up /\ pc' = "detail" /\ UNCHANGED pos
  /\ UNCHANGED <<options, kernel, size, lastlen, buf, list, socket>>

\* The calls that follow ask for the MTU and the other addresses; they fail when the
\* interface has gone, and may when its addresses have.
Detail ==
  LET e == buf[pos]
      idx == IF sdlname = e.name THEN e.name ELSE 0 IN
  /\ prog = "ioctl" /\ pc = "detail"
  /\ \/ naddr[e.name] = 0 /\ pc' = "dead" /\ UNCHANGED <<pos, list>>
     \/ /\ e.name \in present
        /\ list' = Append(list, [name |-> e.name, of |-> e.name, addr |-> e.addr, alias |-> alias, index |-> idx])
        /\ pc' = "walk" /\ pos' = pos + 1
  /\ UNCHANGED <<options, kernel, size, lastlen, buf, lastname, sdlname, alias, socket>>

\* Get_ifi_info() takes an empty list for an error.
Return ==
  /\ prog \in {"ioctl", "sysctl"} /\ pc = "walk" /\ pos > Len(buf)
  /\ pc' = IF list = <<>> THEN "quit" ELSE "done"
  /\ UNCHANGED <<options, kernel, walk, list, socket>>

-----------------------------------------------------------------------------
(* libroute/net_rt_iflist.c and what walks over its records. *)

\* sysctl() tells the length, for which the caller allocates a buffer,
Length ==
  /\ prog \in {"sysctl", "names", "lookup"} /\ pc = "ask"
  /\ size' = Len(Listing) /\ pc' = "fetch"
  /\ UNCHANGED <<options, kernel, lastlen, buf, pos, lastname, sdlname, alias, list, socket>>

\* and fails when the records have outgrown it.
Fetch ==
  /\ pc = "fetch"
  /\ IF Len(Listing) > size THEN pc' = "dead" /\ UNCHANGED buf ELSE pc' = "walk" /\ buf' = Listing
  /\ UNCHANGED <<options, kernel, size, lastlen, pos, lastname, sdlname, alias, list, socket>>

\* A record in route/get_ifi_info.c.  That of an interface that is down is
\* passed over, but its addresses are not: they go to the interface before.
\* Without one, ifi has no value yet.
Record ==
  LET e == buf[pos]
      this == [name |-> e.name, of |-> 0, addr |-> 0, alias |-> FALSE, index |-> e.name]
      last == list[Len(list)] IN
  /\ prog = "sysctl" /\ pc = "walk" /\ pos <= Len(buf) /\ pos' = pos + 1
  /\ IF e.type = "link" THEN list' = (IF e.up THEN Append(list, this) ELSE list) /\ UNCHANGED pc
     ELSE IF list = <<>>
     THEN \/ UNCHANGED list /\ pc' \in {"walk", "crash"}
          \/ doaliases /\ list' = <<[this EXCEPT !.name = 0, !.index = 0, !.of = e.name, !.addr = e.addr]>> /\ UNCHANGED pc
     ELSE /\ UNCHANGED pc
          /\ list' = IF last.addr = 0 THEN Front(list) \o <<[last EXCEPT !.of = e.name, !.addr = e.addr]>>
                     ELSE IF doaliases THEN Append(list, [last EXCEPT !.of = e.name, !.addr = e.addr]) ELSE list
  /\ UNCHANGED <<options, kernel, size, lastlen, buf, lastname, sdlname, alias, socket>>

\* if_nametoindex() and if_indextoname() look for one interface.
Sought(e) == e.type = "link" /\ (prog = "lookup" => e.name = wanted)

\* if_nameindex() lists all of them.
Names ==
  /\ prog \in {"names", "lookup"} /\ pc = "walk" /\ pc' = "done"
  /\ list' = FlattenSeq([k \in DOMAIN buf |-> IF Sought(buf[k]) THEN <<buf[k].name>> ELSE <<>>])
  /\ UNCHANGED <<options, kernel, walk, socket>>

-----------------------------------------------------------------------------
(* route/getrt.c and key/: a request, and what comes after it. *)

Message(pid, type, seq) == [pid |-> pid, type |-> type, seq |-> seq]
SEQ == 9999
AskedSeq == IF prog = "getrt" THEN SEQ ELSE 0

\* Write().  A dump is answered by the associations, numbered down to 0, or by an
\* error numbered 0; a request for a route there is none to is an error of write().
Ask ==
  /\ prog \in Asking /\ pc = "ask"
  /\ \/ /\ pc' = "read"
        /\ \E n \in 1 .. (IF prog = "dump" THEN MaxOwn ELSE 1) :
             owed' = [k \in 1..n |-> Message("me", "asked", IF prog = "dump" THEN n - k ELSE AskedSeq)]
     \/ prog = "getrt" /\ pc' = "dead" /\ UNCHANGED owed
  /\ UNCHANGED <<options, kernel, walk, list, queue, news, dropped>>

\* The kernel answers; a message that finds no room is lost.
Answer ==
  /\ owed # <<>> /\ owed' = Tail(owed)
  /\ IF Len(queue) < Room THEN queue' = Append(queue, Head(owed)) /\ UNCHANGED dropped
     ELSE dropped' = TRUE /\ UNCHANGED queue
  /\ UNCHANGED <<options, kernel, pc, walk, list, news>>

\* What others ask for, and what the kernel tells everybody, comes to the socket,
\* too.  Others may ask with the same number.
News ==
  /\ prog \in Asking /\ pc \in {"ask", "read"} /\ news < MaxNews /\ news' = news + 1
  /\ \E type \in {"asked", "told"}, seq \in {0, 1, SEQ} :
       queue' = IF Len(queue) < Room THEN Append(queue, Message("other", type, seq)) ELSE queue
  /\ UNCHANGED <<options, kernel, pc, walk, list, owed, dropped>>

\* The answer, not that to somebody else nor any other message.
Own(m) == m.type = "asked" /\ m.pid = "me" /\ (prog = "getrt" => m.seq = SEQ)

\* Read(), until the message is the answer; sadb_dump() prints all that come, until
\* one has the number 0.
Read ==
  LET m == Head(queue) IN
  /\ pc = "read" /\ queue # <<>> /\ queue' = Tail(queue)
  /\ list' = (IF prog = "dump" \/ Own(m) THEN Append(list, m) ELSE list)
  /\ pc' = IF (IF prog = "dump" THEN m.seq = 0 ELSE Own(m)) THEN "done" ELSE "read"
  /\ UNCHANGED <<options, kernel, walk, owed, news, dropped>>

-----------------------------------------------------------------------------

Program == Conf \/ Entry \/ Detail \/ Return \/ Length \/ Fetch \/ Record \/ Names \/ Ask \/ Read

Next == Program \/ Answer \/ News \/ \E n \in Ifs : Change(n)

\* The program runs, and the kernel answers.
Fairness == WF_vars(Program) /\ WF_vars(Answer)

Spec == Init /\ [][Next]_vars /\ Fairness

-----------------------------------------------------------------------------
(* Properties. *)

\* The loop around SIOCGIFCONF, which may store as much as fits and say nothing,
\* ends with the whole list, whatever happened to it between the calls.
TakesWhole == prog = "ioctl" /\ pc = "ask" /\ pc' = "walk" => buf' = Listing

Walked == prog \in {"ioctl", "sysctl"} /\ pc \in {"done", "quit"}
Expected(n) == IF n \notin up THEN 0 ELSE IF doaliases \/ naddr[n] = 0 THEN naddr[n] ELSE 1

\* Of an interface nobody changed the list has each address once, its aliases
\* after the first and only where they are asked for; one that is down has none.
\* Over sysctl() those of an interface that is down may be at the one before.
Complete ==
  Walked => \A n \in Ifs \ touched :
    LET mine == {k \in DOMAIN list : list[k].of = n /\ list[k].name = n}
    IN /\ {list[k].addr : k \in mine} = 1..Expected(n)
       /\ \A k, l \in mine : k < l => list[k].addr < list[l].addr
       /\ prog = "ioctl" => \A k \in mine : list[k].alias = (list[k].addr > 1)

Misplaced ==
  Walked => \A k \in DOMAIN list :
    LET e == list[k] IN e.of \notin {0, e.name} => prog = "sysctl" /\ (e.of \in touched \/ e.of \notin up)

\* A program dies only of a change between two calls, or because there is no
\* route; and it uses an address without an interface only when the first ones are
\* down.  (The order of the interfaces is that of the kernel's list.)
DiesOf ==
  /\ pc = "dead" => touched # {} \/ prog = "getrt"
  /\ pc = "crash" => prog = "sysctl" /\ \A k \in 1 .. pos - 1 : ~buf[k].up

\* A name or number is found if the interface stays, and not found if it is not
\* there.
Found ==
  prog \in {"names", "lookup"} /\ pc = "done" =>
    \A n \in Ifs \ touched :
      n \in {list[k] : k \in DOMAIN list} <=> n \in present /\ (prog = "lookup" => n = wanted)

\* Who asks for one thing gets the answer to his own question.  A dump is whole
\* only when nobody else's message has the number 0 and none was lost; sadb_dump()
\* looks neither at the process nor at the type.
Answered ==
  prog \in Asking /\ pc = "done" =>
    LET mine == {k \in DOMAIN list : list[k].pid = "me"}
    IN IF prog # "dump" THEN Len(list) = 1 /\ mine = {1}
       ELSE \/ dropped \/ Last(list).pid = "other"
            \/ /\ \E n \in 1..MaxOwn : {list[k].seq : k \in mine} = 0 .. n - 1
               /\ \A k, l \in mine : k < l => list[k].seq > list[l].seq

KernelSafe == Complete /\ Misplaced /\ DiesOf /\ Found /\ Answered

\* The program ends, unless the answer it waits for was lost.
Ended == pc \in {"done", "quit", "dead", "crash"} \/ (pc = "read" /\ dropped)

KernelRight == [][TakesWhole]_vars /\ []KernelSafe /\ <>[]Ended

===============================================================================
