-------------------------------- MODULE MCChat --------------------------------
(* The chat client and its daemon, with a terminal or a pipe for the input   *)
(* and up to three messages; or the bouncing faces kept beside them: three   *)
(* threads in two colours or, as it depends on nothing else, the path of one *)
(* face on a screen narrower than a step and higher than one.  A behaviour   *)
(* is one of these; the rest stands still.                                   *)
EXTENDS Bounce, ChatClient

VARIABLE which    \* the program that runs

MCInit ==
  /\ which \in {"threads", "motion", "chat"}
  /\ Init
  /\ IF which = "motion" THEN MotionInit ELSE x = 0 /\ y = 0 /\ dx = 0 /\ dy = 0
  /\ ChatInit /\ (which # "chat" => readfds = {"stdin"} /\ ~closing)

MCNext ==
  \/ which = "threads" /\ Next /\ UNCHANGED <<which, motion, chat>>
  \/ which = "motion" /\ Move /\ UNCHANGED <<which, vars, chat>>
  \/ which = "chat" /\ ChatNext /\ UNCHANGED <<which, vars, motion>>

\* With the fairness each module states, for the behaviours it has.
MCFairness ==
  /\ WF_vars(which = "threads" /\ CountDown) /\ SF_vars(which = "threads" /\ Clear)
  /\ WF_vars(which = "threads" /\ CloseHandles) /\ WF_vars(which = "threads" /\ Exit)
  /\ \A t \in Threads : WF_vars(which = "threads" /\ ThreadNext(t))
  /\ WF_chat(which = "chat" /\ ClientStep /\ (Program \/ Tick))
  /\ WF_chat(which = "chat" /\ Daemonise) /\ WF_chat(which = "chat" /\ Bind)
  /\ WF_chat(which = "chat" /\ Recv)
  /\ \A m \in 1..MaxSend : WF_chat(which = "chat" /\ (Arrive(m) \/ Lose(m)))

MCSpec == MCInit /\ [][MCNext]_<<which, vars, motion, chat>> /\ MCFairness

\* The client is closed by nothing but a name, goes on for ever at the end of its
\* input, and what it hears typed is printed by the daemon; and main comes to its
\* end however many threads it has to stop.
GetsThere == ChatRight /\ ShutDownEnds

===============================================================================
