------------------------------ MODULE MCHomework ------------------------------
(* The servers of Homeworks 1, 2 and 4: a behaviour is one of EchoService,    *)
(* with three clients and descriptors for two; of CommandService, with        *)
(* answers of three units, reads of two, and a connection that two commands   *)
(* and four units fill; or of UDPCommand, with a client that sends one        *)
(* request and one that sends two, on a network that loses datagrams,         *)
(* delivers some of the second client's twice and brings it foreign ones.     *)
EXTENDS EchoService

CONSTANTS
  AnswerSize, ReadSize, UpCap, DownCap, MaxCmd,  \* CommandService
  DateClients,   \* clients of UDPCommand,
  SendOnce,      \* those of them that send one request, not "date", and get no copies,
  MaxCopies      \* and how often a datagram of the others is delivered

VARIABLES
  hw,
  ccpc, typed, got, shown, cup, cdown, cspc, text, unsent, ran,
  ucpc, req, kind, server, took, muddled, lost, requests, replies, uspc, rcvBuf, cli_addr

command == <<ccpc, typed, got, shown, cup, cdown, cspc, text, unsent, ran>>
date == <<ucpc, req, kind, server, took, muddled, lost, requests, replies, uspc, rcvBuf, cli_addr>>

\* What each client of UDPCommand sends, and how often a datagram is delivered.
LinesOf == [c \in DateClients |-> IF c \in SendOnce THEN {"other"} ELSE {"date"}]
CopiesOf == [c \in DateClients |-> IF c \in SendOnce THEN 1 ELSE MaxCopies]

C == INSTANCE CommandService WITH cpc <- ccpc, up <- cup, down <- cdown, spc <- cspc
U == INSTANCE UDPCommand WITH
       Clients <- DateClients, MaxReq <- [c \in DateClients |-> IF c \in SendOnce THEN 1 ELSE 2],
       Lines <- LinesOf, MaxCopies <- CopiesOf,
       Exposed <- DateClients \ SendOnce,
       cpc <- ucpc, spc <- uspc

ASSUME HomeworkAssumption == C!CommandAssumption /\ U!DateAssumption

MCInit == hw \in {"echo", "command", "date"} /\ Init /\ C!Init /\ U!Init

MCNext ==
  \/ hw = "echo" /\ Next /\ UNCHANGED <<hw, command, date>>
  \/ hw = "command" /\ C!Next /\ UNCHANGED <<hw, vars, date>>
  \/ hw = "date" /\ U!Next /\ UNCHANGED <<hw, vars, command>>

\* With the fairness each module states, for the behaviours it has.
MCFairness ==
  /\ WF_vars(hw = "echo" /\ ServerNext)
  /\ \A c \in Clients : WF_vars(hw = "echo" /\ Read(c))
  /\ WF_command(hw = "command" /\ C!Client) /\ WF_command(hw = "command" /\ C!Server)
  /\ WF_date(hw = "date" /\ U!ServerNext)
  /\ \A c \in DateClients : WF_date(hw = "date" /\ U!ReceiveReply(c))

MCSpec == MCInit /\ [][MCNext]_<<hw, vars, command, date>> /\ MCFairness

\* Whose answer is shown: Homework 2 shows that to an earlier command, further
\* behind with each, and Homework 4 never one for another.
AnswersKnown == C!ShownLate /\ U!AnswerMatches

\* Which waits end: a client of Homework 1 that was accepted gets an answer or
\* the server exits; in Homework 2 no read waits for ever but
\* behind a command that never ends, and two writes do; in Homework 4 one loss silences a client for good, and nothing else does.
ReadsEnd == EchoComes /\ C!WhatBlocks /\ U!LossIsSilence

===============================================================================
