------------------------------ MODULE ChatProofs ------------------------------
(***************************************************************************)
(* Proofs about the chat client, alone and in the chat as shipped, for     *)
(* every timeout and every bound; and about the bouncing faces: the path   *)
(* of a face, for every size of the screen, and the threads, however many  *)
(* of them and of colours.                                                 *)
(***************************************************************************)
EXTENDS Bounce, ChatClient, SequenceTheorems, TLAPS

-----------------------------------------------------------------------------
(* The path of a face. *)

USE SizeAssumption, MaxThreadsAssumption, ColorsAssumption

\* On an axis of n cells whose upper comparison lets through `slack' cells
\* too many, a coordinate is either within, or the next step brings it back
\* to where it came from.
Within(a, d, n, slack) ==
  /\ a \in Int
  /\ d \in Deltas
  /\ \/ 0 <= a /\ a < n + slack
     \/ /\ a < 0 \/ a >= n + slack
        /\ 0 <= a + d /\ a + d < n + slack

MotionInv == Within(x, dx, Width, 0) /\ Within(y, dy, Height, 1)

\* A move with a turn at the edges keeps a coordinate where Within says.
LEMMA MoveAxis ==
  ASSUME NEW a, NEW d, NEW n \in Nat \ {0}, NEW slack \in {0, 1},
         Within(a, d, n, slack)
  PROVE  Within(a + d, IF a + d < 0 \/ a + d >= n + slack THEN -d ELSE d, n, slack)
BY DEF Within, Deltas

\* The face is never further off the screen than one step.
THEOREM MotionInvariant == MotionSpec => []MotionInv
<1>1. MotionInit => MotionInv
  BY DEF MotionInit, MotionInv, Within, Deltas
<1>2. MotionInv /\ [Move]_motion => MotionInv'
  <2> SUFFICES ASSUME MotionInv, [Move]_motion PROVE MotionInv'
    OBVIOUS
  <2>1. CASE Move
    <3>1. Within(x', dx', Width, 0)
      BY <2>1, MoveAxis DEF Move, MotionInv, Within
    <3>2. y + dy > Height <=> y + dy >= Height + 1
      BY DEF MotionInv, Within, Deltas
    <3>3. Within(y', dy', Height, 1)
      BY <2>1, <3>2, MoveAxis DEF Move, MotionInv
    <3>4. QED BY <3>1, <3>3 DEF MotionInv
  <2>2. CASE UNCHANGED motion
    BY <2>2 DEF motion, MotionInv, Within
  <2>3. QED BY <2>1, <2>2
<1>3. QED BY <1>1, <1>2, PTL DEF MotionSpec

\* The bounds of the coordinates hold on every screen.
THEOREM CoordinatesInReach == MotionSpec => []InReach
<1>1. MotionInv => InReach
  BY DEF MotionInv, Within, InReach, Deltas
<1>2. QED BY <1>1, MotionInvariant, PTL

\* A face that left the screen sideways is back at the next drawing.
THEOREM SidewaysBackAtOnce == MotionSpec => BackAtOnce
<1>1. MotionInv /\ [Move]_motion => [~OnX(x) => OnX(x')]_motion
  BY DEF MotionInv, Within, Move, OnX, Deltas
<1>2. QED BY <1>1, MotionInvariant, PTL DEF MotionSpec, BackAtOnce

-----------------------------------------------------------------------------
(* The threads. *)

AllHandles == {"screen", "run", "console"}

\* A thread that has not begun does nothing, but for being ended with all others.
Begun ==
  /\ mpc = "keys" => ThreadNr = begun
  /\ mpc # "exit" => \A t \in Threads : tpc[t] # "none" => t <= begun

\* The handles are whole until main closes them.
Handles ==
  /\ mpc \in {"keys", "count"} => open = AllHandles
  /\ mpc = "exit" => open = {}

\* Who draws has the screen, and main has it once it has cleared it: what makes
\* ScreenSafe inductive.
Owner ==
  "screen" \in open =>
    /\ \A t \in Threads : tpc[t] = "draw" => screen = t
    /\ mpc = "close" => screen = Main /\ clean

BounceInv == TypeOK /\ Begun /\ Handles /\ Owner /\ IdentityNotBehind

\* The index of a colour is one.
LEMMA ColorInRange ==
  ASSUME NEW n \in Nat
  PROVE  n % Colors \in 0..Colors
OBVIOUS

\* BounceInv holds at first and is kept by every step.
THEOREM BounceInvariant == Spec => []BounceInv
<1> USE DEF Threads, Main, Nobody, AllHandles
<1>1. Init => BounceInv
  <2> SUFFICES ASSUME Init PROVE BounceInv
    OBVIOUS
  <2>1. TypeOK
    <3>1. ThreadNr \in 0..MaxThreads /\ begun \in 0..MaxThreads /\ Colors \in 0..Colors
      BY DEF Init
    <3>2. color \in [Threads -> 0..Colors] /\ tpc \in [Threads -> {"none"}] /\ face \in [Threads -> {0}]
      BY <3>1 DEF Init
    <3>3. QED BY <3>1, <3>2 DEF Init, TypeOK
  <2>2. Begun /\ Handles BY DEF Init, Begun, Handles
  <2>3. Owner /\ IdentityNotBehind BY DEF Init, Owner, IdentityNotBehind
  <2>4. QED BY <2>1, <2>2, <2>3 DEF BounceInv
<1>2. BounceInv /\ [Next]_vars => BounceInv'
  <2> SUFFICES ASSUME BounceInv, [Next]_vars PROVE BounceInv'
    OBVIOUS
  <2> USE DEF BounceInv
  <2>1. CASE KeyA
    <3>1. begun' = ThreadNr' /\ begun' \in Threads /\ begun' = begun + 1
      BY <2>1 DEF KeyA, TypeOK, Begun
    <3>2. TypeOK' BY <2>1, <3>1 DEF KeyA, TypeOK
    <3>3. Begun' BY <2>1, <3>1 DEF KeyA, TypeOK, Begun
    <3>4. Handles' BY <2>1 DEF KeyA, Handles
    <3>5. Owner' BY <2>1, <3>1 DEF KeyA, TypeOK, Owner
    <3>6. IdentityNotBehind'
      <4>1. ThreadNr \in Nat /\ ThreadNr' = ThreadNr + 1 /\ face' = face /\ color' = color /\ mpc = "keys"
        BY <2>1 DEF KeyA, TypeOK
      <4>2. \A t \in Threads : t..ThreadNr \subseteq t..ThreadNr'
        BY <4>1
      <4>3. QED BY <4>1, <4>2 DEF IdentityNotBehind
    <3>7. QED BY <3>2, <3>3, <3>4, <3>5, <3>6
  <2>2. CASE KeyQ
    BY <2>2 DEF KeyQ, threadVars, TypeOK, Begun, Handles, Owner, IdentityNotBehind
  <2>3. CASE CountDown
    BY <2>3 DEF CountDown, threadVars, TypeOK, Begun, Handles, Owner, IdentityNotBehind
  <2>4. CASE Clear
    <3>1. \A t \in Threads : tpc[t] # "draw"
      BY <2>4 DEF Clear, TypeOK, Handles, Owner
    <3>2. QED
      BY <2>4, <3>1 DEF Clear, threadVars, TypeOK, Begun, Handles, Owner, IdentityNotBehind
  <2>5. CASE CloseHandles
    BY <2>5 DEF CloseHandles, threadVars, TypeOK, Begun, Handles, Owner, IdentityNotBehind
  <2>6. CASE Exit
    <3>1. TypeOK' BY <2>6 DEF Exit, TypeOK
    <3>2. Begun' BY <2>6 DEF Exit, Begun, Handles
    <3>3. Handles' /\ Owner' BY <2>6 DEF Exit, Handles, Owner
    <3>4. IdentityNotBehind' BY <2>6 DEF Exit, IdentityNotBehind
    <3>5. QED BY <3>1, <3>2, <3>3, <3>4
  <2>7. ASSUME NEW t \in Threads, ThreadNext(t) PROVE BounceInv'
    <3>1. CASE Seed(t)
      BY <3>1 DEF Seed, TypeOK, Begun, Handles, Owner, IdentityNotBehind
    <3>2. CASE ChooseFace(t)
      <4>1. TypeOK' BY <3>2 DEF ChooseFace, TypeOK
      <4>2. Begun' /\ Handles' /\ Owner' BY <3>2 DEF ChooseFace, TypeOK, Begun, Handles, Owner
      <4>3. IdentityNotBehind'
        <5>1. mpc = "keys" => ThreadNr \in t..ThreadNr
          BY <3>2 DEF ChooseFace, TypeOK, Begun
        <5>2. QED BY <3>2, <5>1 DEF ChooseFace, TypeOK, IdentityNotBehind
      <4>4. QED BY <4>1, <4>2, <4>3
    <3>3. CASE ChooseColor(t)
      <4>0. ThreadNr % Colors \in 0..Colors BY ColorInRange DEF TypeOK
      <4>1. TypeOK' BY <3>3, <4>0 DEF ChooseColor, TypeOK
      <4>2. Begun' /\ Handles' /\ Owner' BY <3>3 DEF ChooseColor, TypeOK, Begun, Handles, Owner
      <4>3. IdentityNotBehind'
        <5>1. mpc = "keys" => ThreadNr \in t..ThreadNr
          BY <3>3 DEF ChooseColor, TypeOK, Begun
        <5>2. QED BY <3>3, <5>1 DEF ChooseColor, TypeOK, IdentityNotBehind
      <4>4. QED BY <4>1, <4>2, <4>3
    <3>4. CASE LockScreen(t)
      <4>1. TypeOK' BY <3>4 DEF LockScreen, TypeOK
      <4>2. Begun' /\ Handles' BY <3>4 DEF LockScreen, TypeOK, Begun, Handles
      <4>3. Owner' BY <3>4 DEF LockScreen, TypeOK, Owner
      <4>4. IdentityNotBehind' BY <3>4 DEF LockScreen, IdentityNotBehind
      <4>5. QED BY <4>1, <4>2, <4>3, <4>4
    <3>5. CASE Draw(t)
      <4>1. TypeOK' BY <3>5 DEF Draw, TypeOK
      <4>2. Begun' /\ Handles' BY <3>5 DEF Draw, TypeOK, Begun, Handles
      <4>3. Owner' BY <3>5 DEF Draw, TypeOK, Owner
      <4>4. IdentityNotBehind' BY <3>5 DEF Draw, IdentityNotBehind
      <4>5. QED BY <4>1, <4>2, <4>3, <4>4
    <3>6. CASE GoOn(t)
      BY <3>6 DEF GoOn, TypeOK, Begun, Handles, Owner, IdentityNotBehind
    <3>7. CASE Stop(t)
      BY <3>7 DEF Stop, TypeOK, Begun, Handles, Owner, IdentityNotBehind
    <3>8. CASE End(t)
      BY <3>8 DEF End, TypeOK, Begun, Handles, Owner, IdentityNotBehind
    <3>9. QED
      BY <2>7, <3>1, <3>2, <3>3, <3>4, <3>5, <3>6, <3>7, <3>8 DEF ThreadNext
  <2>8. CASE UNCHANGED vars
    BY <2>8 DEF vars, threadVars, TypeOK, Begun, Handles, Owner, IdentityNotBehind
  <2>9. QED
    BY <2>1, <2>2, <2>3, <2>4, <2>5, <2>6, <2>7, <2>8 DEF Next, MainNext
<1>3. QED BY <1>1, <1>2, PTL DEF Spec

\* However many threads and colours there are, every variable has its type and
\* each mutex its owner.
THEOREM BounceTypeCorrect == Spec => []TypeOK
<1>1. BounceInv => TypeOK BY DEF BounceInv
<1>2. QED BY <1>1, BounceInvariant, PTL

\* Until the handle is closed one thread at a time draws and what main has cleared
\* stays clear; and no thread takes an identity given out before its own.
THEOREM OneDrawsAndStaysClear == Spec => []BounceSafe
<1>1. BounceInv => BounceSafe
  <2> SUFFICES ASSUME BounceInv PROVE BounceSafe
    OBVIOUS
  <2>1. ScreenSafe
    BY DEF BounceInv, Owner, ScreenSafe
  <2>2. QED BY <2>1 DEF BounceInv, BounceSafe
<1>2. QED BY <1>1, BounceInvariant, PTL

-----------------------------------------------------------------------------
(* The chat client. *)

USE TimeoutAssumption, MaxReadsAssumption, MaxInboxAssumption, MaxSendAssumption

\* The socket's bit and a port never meet: while the bit is set nothing has
\* been sent, so the socket has no port and nothing can be queued on it.
BitBeforePort ==
  /\ "sock" \in readfds => ~bound
  /\ ~bound => inbox = 0

\* Why the loop ends: once a message was sent the buffer holds that message,
\* with the name it begins with, and without a name nothing is sent.
CauseToClose ==
  /\ closing => closer \/ nsent = 0
  /\ pc = "name" => nsent = 0
  /\ pc = "closed" => closing

\* The strengthened invariant; each conjunct of NeverReceives and IdleBudget
\* needs the others.
ClientInv ==
  /\ ClientTypeOK
  /\ BitBeforePort
  /\ NeverReceives
  /\ IdleBudget
  /\ CauseToClose

\* While the invariant holds, select() never reports the socket, so the
\* branch that receives is dead and Service is SendLine.
LEMMA SocketNeverReady == ClientInv => "sock" \notin Ready
BY DEF ClientInv, BitBeforePort, Ready, ClientTypeOK

\* No step of the client or its surroundings breaks the strengthened invariant.
LEMMA ClientStepKeeps ==
  ASSUME ClientInv, [ClientNext]_client
  PROVE  ClientInv'
<1> USE DEF ClientInv, ClientTypeOK, BitBeforePort, NeverReceives, IdleBudget, CauseToClose
<1>1. ASSUME NEW n \in 1..MaxReads, Type(n) PROVE ClientInv'
  BY <1>1 DEF Type
<1>2. CASE EndInput BY <1>2 DEF EndInput
<1>3. CASE PeerSends BY <1>3 DEF PeerSends
<1>4. CASE Tick BY <1>4 DEF Tick
<1>5. CASE EnterName BY <1>5 DEF EnterName
<1>6. CASE TimedOut BY <1>6 DEF TimedOut
<1>7. CASE SelectError BY <1>7 DEF SelectError, client
<1>8. CASE Service
  <2>1. SendLine /\ UNCHANGED <<left, closer, eof, idle>>
    BY <1>8, SocketNeverReady DEF Service
  <2>2. Ready \subseteq readfds /\ "sock" \notin Ready
    BY SocketNeverReady DEF Ready
  <2>3. readfds' = Ready /\ UNCHANGED <<left, closer, eof, idle, inbox, dest, nrecv>>
    BY <2>1 DEF SendLine
  <2>4. BitBeforePort'
    BY <2>1, <2>2, <2>3 DEF SendLine
  <2>5. ClientTypeOK'
    <3>1. /\ readfds' \subseteq Fds
          /\ stdin' \in 0..MaxReads
          /\ nsent' \in 0..MaxSend
      BY <2>1, <2>2, <2>3 DEF SendLine
    <3>2. /\ pc' \in {"name", "loop", "closed", "failed"}
          /\ closing' \in BOOLEAN
          /\ bound' \in BOOLEAN
      BY <2>1 DEF SendLine
    <3>3. QED BY <2>3, <3>1, <3>2
  <2>6. NeverReceives'
    BY <2>3
  <2>7. IdleBudget'
    BY <2>2, <2>3
  <2>8. CauseToClose'
    BY <2>1, <2>2, <1>8 DEF Service, SendLine, Selecting
  <2>9. QED BY <2>4, <2>5, <2>6, <2>7, <2>8
<1>9. CASE Close BY <1>9 DEF Close
<1>10. CASE UNCHANGED client BY <1>10 DEF client
<1>11. QED
  BY <1>1, <1>2, <1>3, <1>4, <1>5, <1>6, <1>7, <1>8, <1>9, <1>10
  DEF ClientNext, Environment, Program

\* The client starts in the strengthened invariant, whatever the variables hold
\* that are not assigned.
LEMMA ClientStarts == ASSUME ClientInit PROVE ClientInv
<1>1. readfds \subseteq Fds
  BY DEF ClientInit, UninitialisedBit, Fds
<1>2. ClientTypeOK
  <2>1. /\ left \in 0..Timeout /\ idle \in 0..Timeout
        /\ stdin \in 0..MaxReads /\ inbox \in 0..MaxInbox
        /\ nsent \in 0..MaxSend /\ nrecv \in 0..MaxSend
    BY DEF ClientInit
  <2>2. QED BY <1>1, <2>1, Zenon DEF ClientInit, ClientTypeOK
<1>3. BitBeforePort
  BY DEF ClientInit, BitBeforePort
<1>4. NeverReceives /\ IdleBudget /\ CauseToClose
  BY DEF ClientInit, NeverReceives, IdleBudget, CauseToClose
<1>5. QED BY <1>2, <1>3, <1>4 DEF ClientInv

\* The strengthened invariant holds in every reachable state.
THEOREM ClientInvariant == ClientSpec => []ClientInv
<1>1. ClientInit => ClientInv
  BY ClientStarts
<1>2. ClientInv /\ [ClientNext]_client => ClientInv'
  BY ClientStepKeeps
<1>3. QED BY <1>1, <1>2, PTL DEF ClientSpec

\* Whatever the uninitialised descriptor was, the client never receives and
\* never sends to anyone but the server.
THEOREM ReceiveIsDeadCode == ClientSpec => []NeverReceives
<1>1. ClientInv => NeverReceives
  BY DEF ClientInv
<1>2. QED BY <1>1, ClientInvariant, PTL

\* All waiting is paid from one budget of Timeout seconds.
THEOREM OneBudget == ClientSpec => []IdleBudget
<1>1. ClientInv => IdleBudget
  BY DEF ClientInv
<1>2. QED BY <1>1, ClientInvariant, PTL

\* A client that has timed out once stays deaf and mute.
THEOREM DeafAfterTimeout == ClientSpec => DeafForever
<1>1. ClientInv /\ [ClientNext]_client
        => [readfds = {} => readfds' = {} /\ nsent' = nsent]_client
  <2> SUFFICES ASSUME ClientInv, [ClientNext]_client, readfds = {}
               PROVE  readfds' = {} /\ nsent' = nsent
    OBVIOUS
  <2>1. Ready = {}
    BY DEF Ready
  <2>2. QED
    BY <2>1 DEF ClientNext, Environment, Program, Type, EndInput, PeerSends, Tick,
      EnterName, TimedOut, SelectError, Service, Close, client
<1>2. QED BY <1>1, ClientInvariant, PTL DEF ClientSpec, DeafForever

\* What is typed cannot close the client: its loop is left for a name that
\* begins with "close", or, before anything was sent, for what the buffer that
\* was never written happened to hold.
THEOREM ClosedByName ==
  ClientSpec => [][pc' = "closed" => closer \/ nsent = 0]_client
<1>1. ClientInv /\ [ClientNext]_client
        => [pc' = "closed" => closer \/ nsent = 0]_client
  <2> SUFFICES ASSUME ClientInv, [ClientNext]_client, pc' = "closed"
               PROVE  closer \/ nsent = 0
    OBVIOUS
  <2>1. CASE pc = "closed"
    BY <2>1 DEF ClientInv, CauseToClose
  <2>2. CASE pc # "closed"
    BY <2>2, SocketNeverReady DEF ClientInv, CauseToClose, ClientNext, Environment, Program, Type,
      EndInput, PeerSends, Tick, EnterName, TimedOut, SelectError, Service, SendLine, Selecting, Close, client
  <2>3. QED BY <2>1, <2>2
<1>2. QED BY <1>1, ClientInvariant, PTL DEF ClientSpec

-----------------------------------------------------------------------------
(* The chat as shipped. *)

\* Every step of the shipped chat is a step of the client or leaves it alone.
LEMMA ChatStepIsClients ==
  ASSUME [ChatNext]_chat
  PROVE  [ClientNext]_client
<1>1. CASE ClientStep
  BY <1>1 DEF ClientStep, ClientNext, Environment
<1>2. CASE Stray
  BY <1>2 DEF Stray, ClientNext, Environment
<1>3. CASE Daemonise \/ Bind \/ Recv \/ RecvFails \/ \E m \in net : Arrive(m) \/ Lose(m)
  BY <1>3 DEF Daemonise, Bind, Recv, RecvFails, Arrive, Lose
<1>4. CASE UNCHANGED chat
  BY <1>4 DEF chat
<1>5. QED BY <1>1, <1>2, <1>3, <1>4 DEF ChatNext

\* A step of the client sends at most one message, the next one.
LEMMA SendsTheNext ==
  ASSUME ClientInv, [ClientNext]_client
  PROVE  nsent' \in {nsent, nsent + 1} /\ nsent \in Nat
BY SocketNeverReady DEF ClientInv, ClientTypeOK, ClientNext, Environment, Program, Type,
  EndInput, PeerSends, Tick, EnterName, TimedOut, SelectError, Service, SendLine, Close, client

ChatInv == ClientInv /\ ChatTypeOK

\* Network and daemon hold nothing but messages the client has sent, and the
\* client keeps its invariant beside them.
THEOREM ChatInvariant == ChatSpec => []ChatInv
<1>1. ChatInit => ChatInv
  <2> SUFFICES ASSUME ChatInit PROVE ChatInv
    OBVIOUS
  <2>1. ClientInv
    BY ClientStarts DEF ChatInit
  <2>2. QED BY <2>1 DEF ChatInv, ClientInv, ChatTypeOK, ChatInit
<1>2. ChatInv /\ [ChatNext]_chat => ChatInv'
  <2> SUFFICES ASSUME ChatInv, [ChatNext]_chat PROVE ChatInv'
    OBVIOUS
  <2>1. ClientInv' /\ ClientTypeOK'
    BY ChatStepIsClients, ClientStepKeeps DEF ChatInv, ClientInv
  <2>2. nsent \in Nat /\ nsent' \in {nsent, nsent + 1}
    BY ChatStepIsClients, SendsTheNext DEF ChatInv
  <2>3. 1..nsent \subseteq 1..nsent'
    BY <2>2
  <2>4. /\ net \subseteq 1..nsent /\ lost \subseteq 1..nsent /\ printed \subseteq 1..nsent
        /\ serverq \in Seq(1..nsent) /\ spc \in {"start", "daemon", "recv", "failed"}
    BY DEF ChatInv, ChatTypeOK
  <2>5. serverq \in Seq(1..nsent')
    BY <2>3, <2>4, SeqMonotonic
  <2>6. CASE ClientStep
    <3>1. net' = net \cup (IF nsent' > nsent THEN {nsent'} ELSE {}) /\ UNCHANGED <<lost, spc, serverq, printed>>
      BY <2>6 DEF ClientStep, server
    <3>2. net' \subseteq 1..nsent'
      BY <2>2, <2>3, <2>4, <3>1
    <3>3. QED BY <2>1, <2>3, <2>4, <2>5, <3>1, <3>2 DEF ChatInv, ChatTypeOK
  <2>7. CASE Stray
    BY <2>1, <2>3, <2>4, <2>5, <2>7 DEF Stray, server, ChatInv, ChatTypeOK
  <2>8. CASE Daemonise \/ Bind \/ RecvFails
    <3>1. CASE Daemonise \/ Bind
      BY <2>1, <2>3, <2>4, <2>5, <3>1 DEF Daemonise, Bind, ChatInv, ChatTypeOK
    <3>2. CASE RecvFails
      <4>1. /\ UNCHANGED <<nsent, net, lost, printed>>
            /\ spc' = "failed" /\ serverq' = <<>> /\ <<>> \in Seq(1..nsent)
        BY <3>2 DEF RecvFails, client
      <4>2. QED BY <2>1, <2>4, <4>1 DEF ChatInv, ChatTypeOK
    <3>3. QED BY <2>8, <3>1, <3>2
  <2>9. CASE Recv
    <3>1. nsent' = nsent /\ UNCHANGED <<net, lost, spc>> /\ serverq # <<>>
          /\ serverq' = Tail(serverq) /\ printed' = printed \cup {Head(serverq)}
      BY <2>9 DEF Recv, client
    <3>2. Head(serverq) \in 1..nsent /\ Tail(serverq) \in Seq(1..nsent)
      BY <2>4, <3>1, HeadTailProperties
    <3>3. QED BY <2>1, <2>4, <3>1, <3>2 DEF ChatInv, ChatTypeOK
  <2>10. ASSUME NEW m \in net, Arrive(m) \/ Lose(m) PROVE ChatInv'
    <3>1. m \in 1..nsent /\ nsent' = nsent
      BY <2>4, <2>10 DEF Arrive, Lose, client
    <3>2. Append(serverq, m) \in Seq(1..nsent)
      BY <2>4, <3>1
    <3>3. QED BY <2>1, <2>4, <2>10, <3>1, <3>2 DEF Arrive, Lose, server, ChatInv, ChatTypeOK
  <2>11. CASE UNCHANGED chat
    BY <2>1, <2>4, <2>5, <2>11 DEF chat, client, server, ChatInv, ChatTypeOK
  <2>12. QED BY <2>6, <2>7, <2>8, <2>9, <2>10, <2>11 DEF ChatNext
<1>3. QED BY <1>1, <1>2, PTL DEF ChatSpec

\* In the chat as shipped, too, nothing is received and nothing goes anywhere
\* but to the server: there is one direction only.
THEOREM ShippedNeverReceives == ChatSpec => []NeverReceives
<1>1. ChatInv => NeverReceives
  BY DEF ChatInv, ClientInv
<1>2. QED BY <1>1, ChatInvariant, PTL
===============================================================================
