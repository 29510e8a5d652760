------------------------------- MODULE Bounce -------------------------------
(***************************************************************************)
(* Multithreading/Bounce.c (main.c is the same file): the main thread      *)
(* starts a thread for each 'a' that is typed and stops them all on 'q'.   *)
(* A thread gets the address of the global counter ThreadNr as its         *)
(* identity, and reads it three times while main goes on counting.         *)
(*                                                                         *)
(* The order to stop is the mutex hRunMutex: main owns it while threads    *)
(* shall run.  Who gets it ends without releasing it, and Windows passes   *)
(* an abandoned mutex on to the next waiter.                               *)
(*                                                                         *)
(* Where the face of one thread is depends on nothing else and is a        *)
(* specification of its own, MotionSpec.                                   *)
(***************************************************************************)
EXTENDS Integers, FiniteSets

CONSTANTS
  MaxThreads,   \* MAX_THREADS (32 in the code)
  Colors,       \* colours a character cell can have (16)
  Width, Height \* the screen: csbiInfo.dwSize

ASSUME MaxThreadsAssumption == MaxThreads \in Nat
ASSUME ColorsAssumption     == Colors \in Nat \ {0}
ASSUME SizeAssumption       == Width \in Nat \ {0} /\ Height \in Nat \ {0}

Threads == 1..MaxThreads
Nobody == 0
Main == MaxThreads + 1

VARIABLES
  mpc,        \* main: "keys", "count", "close" or "exit"
  ThreadNr,   \* number of threads started
  begun,      \* how many times 'a' was obeyed
  tpc,        \* thread: "none", "seed", "face", "color", "lock", "draw",
              \*         "wait", "end" or "done"
  face,       \* thread: MyCell, 1 (outline) or 2 (solid); 0 before
  color,      \* thread: MyAttrib, Colors before
  screen,     \* owner of hScreenMutex
  run,        \* owner of hRunMutex
  open,       \* handles not closed: a subset of {"screen", "run", "console"}
  clean,      \* has ShutDown cleared the screen, and nobody drawn since?
  x, y,       \* one thread's Coords ...
  dx, dy      \* ... and its Delta

threadVars == <<tpc, face, color>>
vars == <<mpc, ThreadNr, begun, threadVars, screen, run, open, clean>>
motion == <<x, y, dx, dy>>

Init ==
  /\ mpc = "keys"
  /\ ThreadNr = 0
  /\ begun = 0
  /\ tpc = [t \in Threads |-> "none"]
  /\ face = [t \in Threads |-> 0]
  /\ color = [t \in Threads |-> Colors]
  /\ screen = Nobody
  /\ run = Main
  /\ open = {"screen", "run", "console"}
  /\ clean = FALSE

-----------------------------------------------------------------------------
(* The main thread. *)

\* 'a': the count goes up and _beginthread starts a thread, or fails, which
\* is not looked at.
KeyA ==
  /\ mpc = "keys"
  /\ ThreadNr < MaxThreads
  /\ ThreadNr' = ThreadNr + 1
  /\ begun' = begun + 1
  /\ tpc' \in {tpc, [tpc EXCEPT ![begun'] = "seed"]}
  /\ UNCHANGED <<mpc, face, color, screen, run, open, clean>>

\* 'q': ShutDown starts.
KeyQ ==
  /\ mpc = "keys"
  /\ mpc' = "count"
  /\ UNCHANGED <<ThreadNr, begun, threadVars, screen, run, open, clean>>

\* One turn of ShutDown's loop. The first ReleaseMutex gives hRunMutex up;
\* for the others main is not its owner and they fail.
CountDown ==
  /\ mpc = "count"
  /\ ThreadNr > 0
  /\ run' = IF run = Main THEN Nobody ELSE run
  /\ ThreadNr' = ThreadNr - 1
  /\ UNCHANGED <<mpc, begun, threadVars, screen, open, clean>>

\* Mutant: ShutDown gives the screen back after clearing it.
ClearAndRelease ==
  /\ mpc = "count"
  /\ ThreadNr = 0
  /\ screen = Nobody
  /\ clean' = TRUE
  /\ mpc' = "close"
  /\ UNCHANGED <<ThreadNr, begun, threadVars, screen, run, open>>

\* ShutDown waits for the screen and clears it. It keeps hScreenMutex.
Clear ==
  /\ mpc = "count"
  /\ ThreadNr = 0
  /\ screen = Nobody
  /\ screen' = Main
  /\ clean' = TRUE
  /\ mpc' = "close"
  /\ UNCHANGED <<ThreadNr, begun, threadVars, run, open>>

\* main closes hScreenMutex, hRunMutex and hConsoleOut, in that order.
CloseHandles ==
  /\ mpc = "close"
  /\ open # {}
  /\ open' = open \ (CASE "screen" \in open -> {"screen"}
                       [] "screen" \notin open /\ "run" \in open -> {"run"}
                       [] OTHER -> {"console"})
  /\ UNCHANGED <<mpc, ThreadNr, begun, threadVars, screen, run, clean>>

\* main returns, which ends the process and every thread in it.
Exit ==
  /\ mpc = "close"
  /\ open = {}
  /\ mpc' = "exit"
  /\ tpc' = [t \in Threads |-> "done"]
  /\ UNCHANGED <<ThreadNr, begun, face, color, screen, run, open, clean>>

-----------------------------------------------------------------------------
(* A thread. *MyID is ThreadNr, whatever it is by now. *)

Seed(t) ==
  /\ tpc[t] = "seed"
  /\ tpc' = [tpc EXCEPT ![t] = "face"]
  /\ UNCHANGED <<mpc, ThreadNr, begun, face, color, screen, run, open, clean>>

ChooseFace(t) ==
  /\ tpc[t] = "face"
  /\ face' = [face EXCEPT ![t] = IF ThreadNr > Colors THEN 1 ELSE 2]
  /\ tpc' = [tpc EXCEPT ![t] = "color"]
  /\ UNCHANGED <<mpc, ThreadNr, begun, color, screen, run, open, clean>>

ChooseColor(t) ==
  /\ tpc[t] = "color"
  /\ color' = [color EXCEPT ![t] = ThreadNr % Colors]
  /\ tpc' = [tpc EXCEPT ![t] = "lock"]
  /\ UNCHANGED <<mpc, ThreadNr, begun, face, screen, run, open, clean>>

\* WaitForSingleObject(hScreenMutex): with a closed handle it returns at
\* once, and what it returns is not looked at.
LockScreen(t) ==
  /\ tpc[t] = "lock"
  /\ IF "screen" \in open
     THEN screen = Nobody /\ screen' = t
     ELSE UNCHANGED screen
  /\ tpc' = [tpc EXCEPT ![t] = "draw"]
  /\ UNCHANGED <<mpc, ThreadNr, begun, face, color, run, open, clean>>

\* The face is moved, the screen released and the next place computed.
Draw(t) ==
  /\ tpc[t] = "draw"
  /\ clean' = (clean /\ "console" \notin open)
  /\ screen' = IF screen = t THEN Nobody ELSE screen
  /\ tpc' = [tpc EXCEPT ![t] = "wait"]
  /\ UNCHANGED <<mpc, ThreadNr, begun, face, color, run, open>>

\* hRunMutex could not be had for 75 ms.
GoOn(t) ==
  /\ tpc[t] = "wait"
  /\ "run" \in open
  /\ run # Nobody
  /\ tpc' = [tpc EXCEPT ![t] = "lock"]
  /\ UNCHANGED <<mpc, ThreadNr, begun, face, color, screen, run, open, clean>>

\* hRunMutex was free, or abandoned, or its handle is closed: the loop is left.
Stop(t) ==
  /\ tpc[t] = "wait"
  /\ IF "run" \in open
     THEN run = Nobody /\ run' = t
     ELSE UNCHANGED run
  /\ tpc' = [tpc EXCEPT ![t] = "end"]
  /\ UNCHANGED <<mpc, ThreadNr, begun, face, color, screen, open, clean>>

\* The thread ends, and by ending abandons hRunMutex to the next.
End(t) ==
  /\ tpc[t] = "end"
  /\ run' = IF run = t THEN Nobody ELSE run
  /\ tpc' = [tpc EXCEPT ![t] = "done"]
  /\ UNCHANGED <<mpc, ThreadNr, begun, face, color, screen, open, clean>>

MainNext == KeyA \/ KeyQ \/ CountDown \/ Clear \/ CloseHandles \/ Exit

ThreadNext(t) ==
  \/ Seed(t) \/ ChooseFace(t) \/ ChooseColor(t)
  \/ LockScreen(t) \/ Draw(t) \/ GoOn(t) \/ Stop(t) \/ End(t)

Next == MainNext \/ \E t \in Threads : ThreadNext(t)

\* Threads are scheduled, and Windows serves the waiters of a mutex in turn:
\* main gets the screen in the end, however often a thread has it before.
\* Nobody has to press a key.
Fairness ==
  /\ WF_vars(CountDown) /\ SF_vars(Clear) /\ WF_vars(CloseHandles) /\ WF_vars(Exit)
  /\ \A t \in Threads : WF_vars(ThreadNext(t))

Spec == Init /\ [][Next]_vars /\ Fairness

-----------------------------------------------------------------------------
(* The path of a face: it is moved first and compared with the screen        *)
(* afterwards; the two axes are compared differently, with >= and with >.    *)

\* getrandom(-3, 3)
Deltas == -3..3

MotionInit ==
  /\ x \in 0..Width-1 /\ y \in 0..Height-1
  /\ dx \in Deltas /\ dy \in Deltas

\* Mutant: the edge is passed without turning round.
MoveNoTurn ==
  /\ x' = x + dx
  /\ y' = y + dy
  /\ dx' = IF x' < 0 THEN -dx ELSE dx
  /\ dy' = IF y' < 0 THEN -dy ELSE dy

\* One turn of BounceProc's loop, after the drawing.
Move ==
  /\ x' = x + dx
  /\ y' = y + dy
  /\ dx' = IF x' < 0 \/ x' >= Width THEN -dx ELSE dx
  /\ dy' = IF y' < 0 \/ y' > Height THEN -dy ELSE dy

MotionSpec == MotionInit /\ [][Move]_motion

-----------------------------------------------------------------------------
(* Properties. *)

Alive == {t \in Threads : tpc[t] \notin {"none", "done"}}

\* Every variable has its type, and a mutex its owner.
TypeOK ==
  /\ mpc \in {"keys", "count", "close", "exit"}
  /\ ThreadNr \in 0..MaxThreads
  /\ begun \in 0..MaxThreads
  /\ tpc \in [Threads -> {"none", "seed", "face", "color", "lock", "draw",
                          "wait", "end", "done"}]
  /\ face \in [Threads -> {0, 1, 2}]
  /\ color \in [Threads -> 0..Colors]
  /\ screen \in {Nobody, Main} \cup Threads
  /\ run \in {Nobody, Main} \cup Threads
  /\ open \subseteq {"screen", "run", "console"}
  /\ clean \in BOOLEAN

\* Only one thread at a time is between lock and unlock, as long as the lock
\* can be had at all; and the screen stays clear after ShutDown has cleared it,
\* although main waits for no thread: it takes the screen's mutex along.  Both
\* are over as soon as it closes the handle.
ScreenSafe ==
  "screen" \in open =>
    /\ \A t, u \in Threads : tpc[t] = "draw" /\ tpc[u] = "draw" => t = u
    /\ mpc = "close" => clean

\* Until 'q' the identity a thread reads is never that of a thread started
\* before it: the face and the colour of thread t are those of some n >= t.
IdentityNotBehind ==
  mpc = "keys" =>
    \A t \in Threads :
      /\ face[t] # 0 =>
           \E n \in t..ThreadNr : face[t] = IF n > Colors THEN 1 ELSE 2
      /\ color[t] # Colors => \E n \in t..ThreadNr : color[t] = n % Colors

\* One thread draws, a cleared screen stays clear, and no thread takes an identity
\* given out before its own.
BounceSafe == ScreenSafe /\ IdentityNotBehind

\* A single release of hRunMutex stops every thread, each passing the order
\* on by abandoning it, or the process ends before that.
ShutDownEnds == []<>(mpc \in {"keys", "exit"})

\* Bounce.c:5-6, "Each thread bounces a happy face of a different color":
\* no two threads draw the same character in the same colour.
DifferentFaces ==
  \A t, u \in Threads :
    t # u /\ color[t] # Colors /\ color[u] # Colors
      => <<face[t], color[t]>> # <<face[u], color[u]>>

\* Bounce.c:53, "All threads done. Clean up handles."
AllThreadsDone == open # {"screen", "run", "console"} => Alive = {}

\* Where the coordinates can be: never further off the screen than a step,
\* and one more at the bottom, where the comparison is off by one.
InReach ==
  /\ x \in -3..Width+2 /\ y \in -3..Height+3
  /\ dx \in Deltas /\ dy \in Deltas

OnX(a) == a \in 0..Width-1

\* A face that left the screen sideways is back on it at the next drawing:
\* the step that took it out is undone.
BackAtOnce == [][~OnX(x) => OnX(x')]_motion

=============================================================================
