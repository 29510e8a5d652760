------------------------------- MODULE Channel -------------------------------
(***************************************************************************)
(* What an echo service promises each of its clients: what comes back is   *)
(* what was sent, unit by unit and in order, nothing twice and nothing in  *)
(* between, until the connection breaks and the rest is lost.              *)
(***************************************************************************)
EXTENDS Naturals, SequencesExt

CONSTANTS
  Ends,     \* the users of the service
  MaxSend   \* bound: units an end sends

VARIABLES
  open,     \* per end: its connection is whole
  nput,     \* per end: units put in so far; they are numbered from 1
  content,  \* per end: units put in that can still be taken out
  ntaken    \* per end: the number of the unit taken last

vars == <<open, nput, content, ntaken>>

Init ==
  /\ open = [e \in Ends |-> TRUE]
  /\ nput = [e \in Ends |-> 0]
  /\ content = [e \in Ends |-> <<>>]
  /\ ntaken = [e \in Ends |-> 0]

\* An end puts in k units; on a broken connection they are lost.
Put(e, k) ==
  /\ nput[e] + k <= MaxSend
  /\ nput' = [nput EXCEPT ![e] = @ + k]
  /\ content' = [content EXCEPT ![e] =
       IF open[e] THEN @ \o [j \in 1..k |-> nput[e] + j] ELSE @]
  /\ UNCHANGED <<open, ntaken>>

\* It takes out the first k.
Take(e, k) ==
  /\ k <= Len(content[e])
  /\ ntaken' = [ntaken EXCEPT ![e] = content[e][k]]
  /\ content' = [content EXCEPT ![e] = SubSeq(@, k + 1, Len(@))]
  /\ UNCHANGED <<open, nput>>

\* Connections of some ends break and lose what is behind some point.
Break(E) ==
  /\ open' = [e \in Ends |-> open[e] /\ e \notin E]
  /\ content' \in [Ends -> Seq(1..MaxSend)]
  /\ \A e \in Ends :
       IF e \in E THEN IsPrefix(content'[e], content[e])
                  ELSE content'[e] = content[e]
  /\ UNCHANGED <<nput, ntaken>>

Next ==
  \/ \E e \in Ends, k \in 1..MaxSend : Put(e, k) \/ Take(e, k)
  \/ \E E \in SUBSET Ends : Break(E)

Spec == Init /\ [][Next]_vars
=============================================================================
