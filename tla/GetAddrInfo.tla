----------------------------- MODULE GetAddrInfo -----------------------------
(***************************************************************************)
(* getaddrinfo() and freeaddrinfo(), in the version of libgai and in that  *)
(* of libfree, with every allocation that may fail.  A host is "none",     *)
(* "v4" or "v6" (an address), "name", or "path" (in libgai: "/local"); a   *)
(* service is "none", "number", "name" or "path".  An entry of the result  *)
(* is what the caller of socket() and connect() sees of it.                *)
(***************************************************************************)
EXTENDS SequencesExt

CONSTANT MaxAddrs     \* bound: addresses of a host, of either family

Families == {"INET", "INET6"}

VARIABLES
  version,                        \* "gai" or "free"
  host, serv, flags, hints,       \* the arguments; hints: [family, socktype]
  known,                          \* protocols for which getservbyname() knows the service
  inet6,                          \* whether _res has RES_USE_INET6 from an earlier call
  pc,                             \* a function, or "bad", "return", "freed", "crash", "quit"
  search, todo,                   \* the searches to be made, the addresses to be stored
  found,                          \* the family of every address found
  list,                           \* aihead
  headset,                        \* whether aihead has a value
  canon,                          \* whether canon has
  ports, pos, nfound,             \* ga_serv(), ga_port()
  heap,                           \* blocks allocated
  err                             \* what is returned, "ok" being 0

args == <<version, host, serv, flags, hints, known, inet6>>
vars == <<args, pc, search, todo, found, list, headset, canon, ports, pos, nfound, heap, err>>

Types == {"0", "STREAM", "DGRAM", "RAW"}

Init ==
  /\ version \in {"gai", "free"}
  /\ host \in {"none", "v4", "v6", "name", "path"} /\ serv \in {"none", "number", "name", "path"}
  /\ flags \in (SUBSET {"PASSIVE", "CANONNAME"}) \cup {{"other"}}
  /\ hints \in [family : Families \cup {"UNSPEC", "LOCAL", "other"}, socktype : Types]
  /\ known \in IF serv = "name" THEN SUBSET {"STREAM", "DGRAM"} ELSE {{}}
  /\ inet6 \in IF version = "free" THEN BOOLEAN ELSE {FALSE}
  /\ pc = "check" /\ search = <<>> /\ todo = <<>> /\ found = <<>>
  /\ list = <<>> /\ headset = (version = "gai") /\ canon = FALSE
  /\ ports = <<>> /\ pos = 1 /\ nfound = 0 /\ heap = 0 /\ err = "ok"

family == hints.family
Fail(e) == err' = e /\ pc' = "bad"
Blocks(l) == Len(l) + Cardinality({k \in 1..Len(l) : l[k].addr}) + Cardinality({k \in 1..Len(l) : l[k].canon})

-----------------------------------------------------------------------------
(* The checks. *)

\* ga_echeck(); libfree makes the same tests in another order.
Echeck ==
  LET noname == host = "none" /\ serv = "none" IN
  IF "other" \in flags THEN "BADFLAGS"
  ELSE IF version = "gai" /\ noname THEN "NONAME"
  ELSE IF family = "other" THEN "FAMILY"
  ELSE IF family = "LOCAL" /\ hints.socktype = "RAW" THEN "SOCKTYPE"
  ELSE IF noname THEN "NONAME" ELSE "ok"

Passive == "PASSIVE" \in flags

\* ga_nsearch(): IPv6 first.
Nsearch ==
  LET h6 == [host |-> IF host = "none" THEN "v6" ELSE host, family |-> "INET6"]
      h4 == [host |-> IF host # "none" THEN host ELSE IF Passive THEN "v4" ELSE "name", family |-> "INET"] IN
  (IF family \in {"UNSPEC", "INET6"} THEN <<h6>> ELSE <<>>)
    \o (IF family \in {"UNSPEC", "INET"} THEN <<h4>> ELSE <<>>)

\* A family that is known and not searched for ends the program: err_quit().
CheckGai ==
  /\ version = "gai" /\ pc = "check"
  /\ IF Echeck # "ok" THEN Fail(Echeck) /\ UNCHANGED search
     ELSE IF host = "path" /\ serv = "path" THEN pc' = "unix" /\ UNCHANGED <<search, err>>
     ELSE /\ search' = Nsearch /\ UNCHANGED err
          /\ pc' = IF Nsearch = <<>> THEN "quit" ELSE "search"
  /\ UNCHANGED <<args, todo, found, list, headset, canon, ports, pos, nfound, heap>>

\* libfree: with no host, "0.0.0.0" or "0::0" for a passive socket of a known
\* family and "localhost" for others.  An address determines the family.
CheckFree ==
  LET numeric == [v4 |-> "INET", v6 |-> "INET6"]
      wild == [INET |-> "v4", INET6 |-> "v6"]
      named == IF host # "none" THEN host
               ELSE IF ~Passive THEN "name" ELSE IF family \in Families THEN wild[family] ELSE "none"
      f == IF family = "UNSPEC" /\ host \in {"v4", "v6"} THEN numeric[host] ELSE family IN
  /\ version = "free" /\ pc = "check"
  /\ IF Echeck # "ok" THEN Fail(Echeck) /\ UNCHANGED search
     ELSE IF host = "none" /\ Passive /\ (family = "UNSPEC" \/ (family = "LOCAL" /\ serv # "path"))
     THEN Fail("ADDRFAMILY") /\ UNCHANGED search
     ELSE IF host = "path" \/ serv = "path" THEN pc' = "local" /\ UNCHANGED <<search, err>>
     ELSE pc' = "search" /\ search' = <<[host |-> named, family |-> f]>> /\ UNCHANGED err
  /\ UNCHANGED <<args, todo, found, list, headset, canon, ports, pos, nfound, heap>>

-----------------------------------------------------------------------------
(* The host. *)

Of(f, n) == [k \in 1..n |-> f]

\* An address in the search for the other family is ignored.
Numeric(s) ==
  LET f == IF s.host = "v4" THEN "INET" ELSE "INET6" IN
  /\ s.host \in {"v4", "v6"}
  /\ IF family \notin {"UNSPEC", f} THEN Fail("ADDRFAMILY") /\ UNCHANGED <<search, todo, found>>
     ELSE /\ search' = Tail(search) /\ UNCHANGED err
          /\ IF s.family # f THEN UNCHANGED <<pc, todo, found>>
             ELSE pc' = "aistruct" /\ todo' = <<f>> /\ found' = Append(found, f)
  /\ UNCHANGED <<canon, heap>>

\* gethostbyname2(), or gethostbyname(), whose resolver may have no IPv6.
Lookup(s) ==
  LET two == family = "UNSPEC"
      save == host # "none" /\ "CANONNAME" \in flags /\ ~canon IN
  /\ s.host \in {"name", "path"}
  /\ \/ /\ IF two THEN search' = Tail(search) /\ UNCHANGED <<pc, err>>
           ELSE Fail("h_errno") /\ UNCHANGED search
        /\ UNCHANGED <<todo, found, canon, heap>>
     \/ /\ s.host = "name"
        /\ \E n \in 1..MaxAddrs, f \in {s.family} \cup (IF two THEN {} ELSE {"INET"}) :
             IF family \notin {"UNSPEC", f}
             THEN Fail("ADDRFAMILY") /\ UNCHANGED <<search, todo, found, canon, heap>>
             ELSE \/ save /\ Fail("MEMORY") /\ UNCHANGED <<search, todo, found, canon, heap>>
                  \/ /\ search' = Tail(search) /\ pc' = "aistruct" /\ UNCHANGED err
                     /\ todo' = Of(f, n) /\ found' = found \o todo'
                     /\ canon' = (canon \/ save) /\ heap' = IF save THEN heap + 1 ELSE heap

SearchGai ==
  /\ version = "gai" /\ pc = "search"
  /\ IF search = <<>>
     THEN /\ IF list = <<>> THEN Fail("NONAME") ELSE pc' = "canon" /\ UNCHANGED err
          /\ UNCHANGED <<search, todo, found, canon, heap>>
     ELSE Numeric(Head(search)) \/ Lookup(Head(search))
  /\ UNCHANGED <<args, list, headset, ports, pos, nfound>>

\* getaddrinfo_host(), and the list is begun.  RES_USE_INET6 is set for IPv6 and
\* never taken back: later answers are IPv6 addresses too.
SearchFree ==
  LET s == Head(search)
      answers == IF s.host = "v4" THEN {"INET"} ELSE IF s.host = "v6" THEN {"INET6"}
                 ELSE IF s.family = "INET6" \/ inet6 THEN {"INET6"} ELSE {"INET"} IN
  /\ version = "free" /\ pc = "search"
  /\ \/ s.host = "name" /\ Fail("h_errno") /\ UNCHANGED <<search, todo, found, headset>>
     \/ \E n \in 1 .. IF s.host = "name" THEN MaxAddrs ELSE 1, f \in answers :
          IF s.family \notin {"UNSPEC", f}
          THEN Fail("ADDRFAMILY") /\ UNCHANGED <<search, todo, found, headset>>
          ELSE /\ search' = <<>> /\ todo' = Of(f, n) /\ found' = todo'
               /\ headset' = TRUE /\ pc' = "aistruct" /\ UNCHANGED err
  /\ UNCHANGED <<args, list, canon, ports, pos, nfound, heap>>

Entry(f, type) ==
  [family |-> f, socktype |-> type, port |-> "0", clone |-> type = "0", addr |-> TRUE, canon |-> FALSE]

\* calloc() fails for the entry, or for its address, or for none.
Store(ai, next) ==
  \/ Fail("MEMORY") /\ UNCHANGED <<list, heap>>
  \/ Fail("MEMORY") /\ list' = Append(list, [ai EXCEPT !.addr = FALSE]) /\ heap' = heap + 1
  \/ list' = Append(list, ai) /\ heap' = heap + 2 /\ pc' = next /\ UNCHANGED err

Aistruct ==
  /\ pc = "aistruct"
  /\ IF todo = <<>> THEN pc' = (IF version = "gai" THEN "search" ELSE "canon") /\ UNCHANGED <<todo, list, heap, err>>
     ELSE todo' = Tail(todo) /\ Store(Entry(Head(todo), hints.socktype), pc)
  /\ UNCHANGED <<args, search, found, headset, canon, ports, pos, nfound>>

\* The first entry gets the name.  libgai has it already, or copies the host.
Canonname ==
  LET named == "CANONNAME" \in flags /\ (version = "free" \/ host # "none") IN
  /\ pc = "canon"
  /\ \/ ~named /\ pc' = "serv" /\ UNCHANGED <<list, canon, heap, err>>
     \/ /\ named /\ pc' = "serv" /\ list' = [list EXCEPT ![1].canon = TRUE] /\ canon' = FALSE
        /\ heap' = (IF canon THEN heap ELSE heap + 1) /\ UNCHANGED err
     \/ named /\ ~canon /\ Fail("MEMORY") /\ UNCHANGED <<list, canon, heap>>
  /\ UNCHANGED <<args, search, todo, found, headset, ports, pos, nfound>>

-----------------------------------------------------------------------------
(* The service. *)

Asked(type) == hints.socktype \in {"0", type}

\* Of some types of socket the two that services are known for, streams first.
InTurn(types) ==
  (IF "STREAM" \in types THEN <<"STREAM">> ELSE <<>>) \o (IF "DGRAM" \in types THEN <<"DGRAM">> ELSE <<>>)

\* ga_serv(): a number is the port for the type asked for, or for both.  libfree
\* looks a number up when no type is asked for, and finds nothing.
Serv ==
  LET numeric == serv = "number" /\ (version = "gai" \/ hints.socktype # "0") IN
  /\ pc = "serv" /\ pos' = 1
  /\ IF serv = "none" THEN pc' = "return" /\ UNCHANGED ports
     ELSE /\ pc' = "port"
          /\ ports' = IF ~numeric THEN InTurn({t \in known : Asked(t)})
                      ELSE IF hints.socktype = "0" THEN <<"STREAM", "DGRAM">> ELSE <<hints.socktype>>
  /\ UNCHANGED <<args, search, todo, found, list, headset, canon, nfound, heap, err>>

PortEnds ==
  /\ pc = "port" /\ ports = <<>>
  /\ IF nfound > 0 THEN pc' = "return" /\ UNCHANGED err
     ELSE Fail(IF hints.socktype = "0" \/ (version = "free" /\ serv = "number") THEN "NONAME" ELSE "SERVICE")
  /\ UNCHANGED <<args, search, todo, found, list, headset, canon, ports, pos, nfound, heap>>

NextPort ==
  /\ pc = "port" /\ ports # <<>> /\ pos > Len(list)
  /\ ports' = Tail(ports) /\ pos' = 1
  /\ UNCHANGED <<args, pc, search, todo, found, list, headset, canon, nfound, heap, err>>

\* Mutant: the entry is used again instead of a clone.
PortNoClone ==
  /\ pc = "port" /\ ports # <<>> /\ pos <= Len(list)
  /\ LET ai == list[pos] IN
     IF ~ai.clone /\ ai.socktype # Head(ports)
     THEN pos' = pos + 1 /\ UNCHANGED <<pc, list, nfound, heap, err>>
     ELSE /\ list' = [list EXCEPT ![pos].socktype = Head(ports), ![pos].port = Head(ports)]
          /\ pos' = pos + 1 /\ nfound' = nfound + 1 /\ UNCHANGED <<pc, heap, err>>
  /\ UNCHANGED <<args, search, todo, found, headset, canon, ports>>

\* ga_port() at one entry.  When that has got a type already, a clone behind it
\* gets the new one (ga_clone()), if there is memory for it.
Port ==
  /\ pc = "port" /\ ports # <<>> /\ pos <= Len(list)
  /\ LET ai == list[pos]
         type == Head(ports)
         new == [ai EXCEPT !.clone = FALSE, !.canon = FALSE, !.socktype = type, !.port = type] IN
     IF ~ai.clone /\ ai.socktype # type
     THEN pos' = pos + 1 /\ UNCHANGED <<pc, list, nfound, heap, err>>
     ELSE IF ai.clone /\ ai.socktype # "0"
     THEN \/ Fail("MEMORY") /\ UNCHANGED <<list, pos, nfound, heap>>
          \/ /\ Fail("MEMORY") /\ list' = InsertAt(list, pos + 1, [new EXCEPT !.addr = FALSE])
             /\ heap' = heap + 1 /\ UNCHANGED <<pos, nfound>>
          \/ /\ list' = InsertAt(list, pos + 1, new) /\ heap' = heap + 2
             /\ pos' = pos + 2 /\ nfound' = nfound + 1 /\ UNCHANGED <<pc, err>>
     ELSE /\ list' = [list EXCEPT ![pos].socktype = type, ![pos].port = type]
          /\ pos' = pos + 1 /\ nfound' = nfound + 1 /\ UNCHANGED <<pc, heap, err>>
  /\ UNCHANGED <<args, search, todo, found, headset, canon, ports>>

-----------------------------------------------------------------------------
(* Unix domain sockets. *)

Return(e) == err' = e /\ pc' = "return"

\* ga_unix(): a stream and a datagram entry when no type is asked for, and a
\* name on request.  What has been allocated before an error stays.
Unix ==
  LET types == IF hints.socktype # "0" THEN <<hints.socktype>> ELSE <<"STREAM", "DGRAM">>
      ai == [Entry("LOCAL", types[Len(list) + 1]) EXCEPT !.clone = FALSE] IN
  /\ pc = "unix"
  /\ IF family \notin {"UNSPEC", "LOCAL"} THEN Return("ADDRFAMILY") /\ UNCHANGED <<list, heap>>
     ELSE IF Len(list) < Len(types)
     THEN \/ Return("MEMORY") /\ UNCHANGED <<list, heap>>
          \/ /\ \E e \in {"MEMORY", "SERVICE"} : Return(e)
             /\ list' = Append(list, [ai EXCEPT !.addr = FALSE]) /\ heap' = heap + 1
          \/ list' = Append(list, ai) /\ heap' = heap + 2 /\ UNCHANGED <<pc, err>>
     ELSE IF "CANONNAME" \notin flags THEN Return("ok") /\ UNCHANGED <<list, heap>>
     ELSE \/ \E e \in {"MEMORY", "SYSTEM"} : Return(e) /\ UNCHANGED <<list, heap>>
          \/ Return("ok") /\ list' = [list EXCEPT ![1].canon = TRUE] /\ heap' = heap + 1
  /\ UNCHANGED <<args, search, todo, found, headset, canon, ports, pos, nfound>>

\* addrinfo_local(): the first calloc() fails with NULL, which is 0.
Local ==
  /\ pc = "local" /\ headset' = TRUE
  /\ IF hints.socktype = "0" THEN Return("SOCKTYPE") /\ UNCHANGED <<list, heap>>
     ELSE \/ Return("ok") /\ UNCHANGED <<list, heap>>
          \/ /\ Return("MEMORY") /\ heap' = heap + 1
             /\ list' = <<[Entry("LOCAL", hints.socktype) EXCEPT !.addr = FALSE]>>
          \/ Return("ok") /\ heap' = heap + 2 /\ list' = <<Entry("LOCAL", hints.socktype)>>
  /\ UNCHANGED <<args, search, todo, found, canon, ports, pos, nfound>>

-----------------------------------------------------------------------------

\* bad: freeaddrinfo(aihead).  A pointer without a value may be anything.
Bad ==
  /\ pc = "bad" /\ list' = <<>> /\ heap' = heap - Blocks(list)
  /\ pc' = "return" \/ (~headset /\ pc' = "crash")
  /\ UNCHANGED <<args, search, todo, found, headset, canon, ports, pos, nfound, err>>

\* The caller is done with the result.
Freeaddrinfo ==
  /\ pc = "return" /\ err = "ok" /\ list # <<>>
  /\ pc' = "freed" /\ list' = <<>> /\ heap' = heap - Blocks(list)
  /\ UNCHANGED <<args, search, todo, found, headset, canon, ports, pos, nfound, err>>

Next ==
  \/ CheckGai \/ CheckFree \/ SearchGai \/ SearchFree \/ Aistruct \/ Canonname
  \/ Serv \/ PortEnds \/ NextPort \/ Port \/ Unix \/ Local \/ Bad \/ Freeaddrinfo

Spec == Init /\ [][Next]_vars

-----------------------------------------------------------------------------

\* The entries there should be for an address: one, or one for each type of socket
\* the service has there, streams first; each with its type and its port.
Wanted ==
  LET types == InTurn({t \in Types : Asked(t) /\ (serv = "number" \/ t \in known)}) IN
  IF serv = "none" THEN <<<<hints.socktype, "0">>>>
  ELSE IF serv = "number" /\ hints.socktype = "RAW" THEN <<<<"RAW", "RAW">>>>
  ELSE [k \in 1..Len(types) |-> <<types[k], types[k]>>]

\* What is returned with success is exactly that, in the order of the addresses.
Exact ==
  pc = "return" /\ err = "ok" /\ found # <<>> =>
    LET n == Len(Wanted)
    IN /\ Len(list) = Len(found) * n
       /\ \A k \in 1..Len(found), j \in 1..n :
            LET ai == list[(k - 1) * n + j]
            IN ai.family = found[k] /\ <<ai.socktype, ai.port>> = Wanted[j]

Returned == (pc = "return" /\ err # "ok") \/ pc = "freed"

\* All memory is given back, after an error by getaddrinfo() and otherwise by
\* freeaddrinfo(), but for the errors of Unix domain sockets, which return at
\* once, and the name libgai keeps aside until the list is complete.
NoLeak ==
  Returned =>
    \/ heap = 0
    \/ err # "ok" /\ (list # <<>> \/ (canon /\ heap = 1))

\* libgai ends the program when it is asked for a Unix domain socket by other
\* means than two paths, and never frees what has no value.  libfree may, for
\* every error that comes before the list; and returns success without a result
\* when there is no memory for a Unix domain socket.
Survives ==
  /\ pc = "quit" => family = "LOCAL"
  /\ pc = "crash" => version = "free" /\ found = <<>>
  /\ pc = "return" /\ err = "ok" /\ list = <<>> => version = "free" /\ (host = "path" \/ serv = "path")

GaiRight == Exact /\ NoLeak /\ Survives

===============================================================================
