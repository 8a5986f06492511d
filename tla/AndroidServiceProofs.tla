------------------------ MODULE AndroidServiceProofs ------------------------
(***************************************************************************)
(* Theorems about AndroidService, for any number of commands, kills of the *)
(* process and thread keys.  The inductive invariant adds to the three     *)
(* properties that while startNCam has not stored the thread it created,   *)
(* no other thread is alive: g_thread is what keeps a second start out,    *)
(* and in that window it does not name the new thread yet.                 *)
(***************************************************************************)
EXTENDS AndroidService, TLAPS

CreatingAlone == creating # 0 => \A r \in Alive : r = creating

ThreadInv == OneMain /\ CallbackIsOwn /\ RunIsNamed /\ CreatingAlone

----------------------------------------------------------------------------
\* A message that is handled was sent to an instance of the service.
LEMMA HandledType ==
    ASSUME AndroidType, NEW what, Handles(what)
    PROVE  this \in Services /\ Tail(queue) \in Seq(Message)
<1>1. Head(queue) \in Message /\ Tail(queue) \in Seq(Message)
  BY DEF AndroidType, Handles
<1>2. QED BY <1>1 DEF Message, this

\* stopSelf() queues a message for an instance.
LEMMA StopSelfType ==
    ASSUME AndroidType, NEW s \in Services, NEW q \in Seq(Message), StopSelf(s, q)
    PROVE  record' \in Services \cup {0} /\ foreground' \in BOOLEAN /\ queue' \in Seq(Message)
<1>1. Msg("destroy", s) \in Message
  BY DEF Msg, Message
<1>2. Append(q, Msg("destroy", s)) \in Seq(Message)
  BY <1>1
<1>3. QED BY <1>2, Zenon DEF StopSelf, AndroidType

\* startService creates an instance that is within the bound.
LEMMA PressType ==
    ASSUME AndroidType, NEW action \in {"START", "STOP"}, NEW running \in BOOLEAN, Press(action, running)
    PROVE  AndroidType'
<1>1. NewInstance \in Services
  BY BoundsAssumption DEF AndroidType, Press, NewInstance, Services
<1>2. Msg(action, NewInstance) \in Message
  BY <1>1 DEF Msg, Message
<1>3. record # 0 => Msg(action, record) \in Message
  BY DEF Msg, Message, AndroidType
<1>4. /\ Append(queue, Msg(action, NewInstance)) \in Seq(Message)
      /\ record # 0 => Append(queue, Msg(action, record)) \in Seq(Message)
  BY <1>2, <1>3 DEF AndroidType
<1>5. record' \in Services \cup {0} /\ foreground' \in BOOLEAN /\ queue' \in Seq(Message)
  BY <1>1, <1>4, Zenon DEF Press, Send, AndroidType
<1>6. presses' \in 0 .. MaxPresses /\ kills' = kills /\ shown' \in BOOLEAN
  BY BoundsAssumption DEF Press, AndroidType
<1>7. QED BY <1>5, <1>6 DEF AndroidType

\* So does the restart after a kill.
LEMMA KilledType ==
    ASSUME AndroidType, ProcessKilled
    PROVE  AndroidType'
<1>1. NewInstance \in Services
  BY BoundsAssumption DEF AndroidType, ProcessKilled, NewInstance, Services
<1>2. <<Msg("null", NewInstance)>> \in Seq(Message)
  BY <1>1 DEF Msg, Message
<1>3. <<>> \in Seq(Message)
  OBVIOUS
<1>4. queue' \in Seq(Message) /\ record' \in Services \cup {0}
  BY <1>1, <1>2, <1>3, Zenon DEF ProcessKilled
<1>5. kills' \in 0 .. MaxKills
  BY BoundsAssumption DEF ProcessKilled, AndroidType
<1>6. QED BY <1>4, <1>5 DEF ProcessKilled, AndroidType

LEMMA AndroidStep ==
    ASSUME TypeOK, [Next]_vars
    PROVE  AndroidType'
<1> USE DEF TypeOK
<1>1. CASE StartButton \/ StopButton \/ BootCompleted
  BY <1>1, PressType DEF StartButton, StopButton, BootCompleted, AndroidType
<1>2. CASE Resume
  BY <1>2 DEF Resume, AndroidType, android, isRunning
<1>3. CASE ProcessKilled
  BY <1>3, KilledType
<1>4. CASE AlreadyRunning \/ StartNCam
  <2>1. queue' \in Seq(Message)
    BY <1>4, HandledType DEF AlreadyRunning, StartNCam, Handled
  <2>2. foreground' \in BOOLEAN
    BY <1>4, Zenon DEF AlreadyRunning, StartNCam, AndroidType
  <2>3. QED BY <1>4, <2>1, <2>2 DEF AlreadyRunning, StartNCam, AndroidType, user
<1>5. CASE CreateFails
  BY <1>5, HandledType, StopSelfType DEF CreateFails, AndroidType, user
<1>6. CASE StopNcam
  BY <1>6, HandledType, StopSelfType DEF StopNcam, AndroidType, user
<1>7. CASE Destroy
  BY <1>7, HandledType DEF Destroy, Handled, AndroidType, user
<1>8. ASSUME NEW r \in Runs, Callback(r) PROVE AndroidType'
  <2>1. gCallback \in Services /\ queue \in Seq(Message)
    BY <1>8 DEF Callback, NativeType, AndroidType
  <2>2. QED BY <1>8, <2>1, StopSelfType DEF Callback, AndroidType, user
<1>9. CASE UNCHANGED <<android, user>>
  BY <1>9 DEF AndroidType, android, user
<1>10. QED
  BY <1>1, <1>2, <1>3, <1>4, <1>5, <1>6, <1>7, <1>8, <1>9
  DEF Next, AppNext, NativeNext, ThreadCreated, Begin, Cleanup, NoCallback, DeleteCallback, Ending,
      ExitRequested, HelperEnds, vars

LEMMA NativeStep ==
    ASSUME TypeOK, [Next]_vars
    PROVE  NativeType'
<1> USE DEF TypeOK
<1>1. CASE UNCHANGED native
  BY <1>1 DEF NativeType, native, Started
<1>2. CASE ProcessKilled
  <2>1. main' \in [Runs -> {"none", "begin", "serving", "returned", "called", "ending", "done"}]
    BY <1>2 DEF ProcessKilled, NativeType
  <2>2. 0 \in 0 .. MaxKeys
    BY BoundsAssumption
  <2>3. QED BY <1>2, <2>1, <2>2 DEF ProcessKilled, NativeType
<1>3. CASE StartNCam
  <2>1. PICK r \in Runs : creating' = r /\ starter' = [starter EXCEPT ![r] = this] /\ Goto(r, "begin")
    BY <1>3 DEF StartNCam
  <2>2. this \in Services
    BY <1>3, HandledType DEF StartNCam
  <2>3. main' = [main EXCEPT ![r] = "begin"] /\ main'[r] = "begin"
    BY <2>1 DEF Goto, NativeType
  <2>4. QED BY <1>3, <2>1, <2>2, <2>3 DEF StartNCam, NativeType, Started
<1>4. CASE ThreadCreated
  BY <1>4 DEF ThreadCreated, NativeType, Started
<1>5. CASE CreateFails
  BY <1>5, HandledType DEF CreateFails, NativeType, Started
<1>6. CASE StopNcam \/ Destroy
  <2>1. exitOscam' \in BOOLEAN
    BY <1>6, Zenon DEF StopNcam, Destroy, DestroyStops, stopNCam, NativeType
  <2>2. QED BY <1>6, <2>1 DEF StopNcam, Destroy, NativeType, Started
<1>7. ASSUME NEW r \in Runs, Begin(r) PROVE NativeType'
  <2>1. keys' \in 0 .. MaxKeys
    BY <1>7, BoundsAssumption DEF Begin, NativeType
  <2>2. helper' \in [Runs -> BOOLEAN]
    BY <1>7 DEF Begin, NativeType
  <2>3. \E pc \in {"returned", "serving"} : main' = [main EXCEPT ![r] = pc]
    BY <1>7 DEF Begin, Goto
  <2>4. QED BY <1>7, <2>1, <2>2, <2>3 DEF Begin, NativeType, Started
<1>8. ASSUME NEW r \in Runs,
             Cleanup(r) \/ Callback(r) \/ NoCallback(r) \/ DeleteCallback(r) \/ Ending(r)
      PROVE NativeType'
  <2>1. \E pc \in {"returned", "called", "ending", "done"} : main' = [main EXCEPT ![r] = pc]
    BY <1>8 DEF Cleanup, Callback, NoCallback, DeleteCallback, Ending, Goto
  <2>2. QED BY <1>8, <2>1 DEF Cleanup, Callback, NoCallback, DeleteCallback, Ending, NativeType, Started
<1>9. ASSUME NEW r \in Runs, ExitRequested(r) \/ HelperEnds(r) PROVE NativeType'
  BY <1>9 DEF ExitRequested, HelperEnds, NativeType, Started
<1>10. QED
  BY <1>1, <1>2, <1>3, <1>4, <1>5, <1>6, <1>7, <1>8, <1>9
  DEF Next, AppNext, NativeNext, StartButton, StopButton, BootCompleted, Press, Resume, AlreadyRunning, vars

\* Every variable of the bridge, the service and the buttons has its type.
THEOREM TypeCorrect == Spec => []TypeOK
<1>1. Init => TypeOK
  <2> SUFFICES ASSUME Init PROVE TypeOK
    OBVIOUS
  <2>1. 0 \in 0 .. MaxKeys /\ 0 \in 0 .. MaxPresses /\ 0 \in 0 .. MaxKills
    BY BoundsAssumption
  <2>2. NativeType
    BY <2>1 DEF Init, NativeType
  <2>3. <<>> \in Seq(Message)
    OBVIOUS
  <2>4. AndroidType
    BY <2>1, <2>3 DEF Init, AndroidType
  <2>5. QED BY <2>2, <2>4 DEF TypeOK
<1>2. TypeOK /\ [Next]_vars => TypeOK'
  BY AndroidStep, NativeStep DEF TypeOK
<1>3. QED BY <1>1, <1>2, PTL DEF Spec

----------------------------------------------------------------------------
\* No thread is alive when startNCam may go on: g_thread would name it.
LEMMA NoneAlive ==
    ASSUME TypeOK, RunIsNamed, creating = 0, ~isRunning
    PROVE  Alive = {}
  BY DEF TypeOK, NativeType, RunIsNamed, isRunning, Alive, Started, Runs

LEMMA ThreadStep ==
    ASSUME TypeOK, ThreadInv, [Next]_vars
    PROVE  ThreadInv'
<1> USE DEF ThreadInv
<1>1. CASE UNCHANGED <<gThread, gCallback, main, starter, creating>>
  BY <1>1 DEF OneMain, CallbackIsOwn, RunIsNamed, CreatingAlone, Alive, Started
<1>2. CASE ProcessKilled
  <2>1. Alive' = {}
    BY <1>2 DEF ProcessKilled, Alive, Started
  <2>2. QED BY <1>2, <2>1 DEF ProcessKilled, OneMain, CallbackIsOwn, RunIsNamed, CreatingAlone
<1>3. CASE StartNCam
  <2>1. Alive = {}
    BY <1>3, NoneAlive DEF StartNCam, Handles, MayStart
  <2>2. PICK r \in Runs : /\ creating' = r
                         /\ starter' = [starter EXCEPT ![r] = this]
                         /\ main' = [main EXCEPT ![r] = "begin"]
    BY <1>3 DEF StartNCam, Goto
  <2>3. Alive' \subseteq {r}
    BY <2>1, <2>2 DEF Alive, Started, TypeOK, NativeType
  <2>4. starter'[r] = gCallback'
    BY <1>3, <2>2 DEF StartNCam, TypeOK, NativeType
  <2>5. QED BY <2>2, <2>3, <2>4 DEF OneMain, CallbackIsOwn, RunIsNamed, CreatingAlone
<1>4. CASE ThreadCreated
  <2>1. Alive' = Alive
    BY <1>4 DEF ThreadCreated, Alive, Started
  <2>2. QED BY <1>4, <2>1 DEF ThreadCreated, OneMain, CallbackIsOwn, RunIsNamed, CreatingAlone
<1>5. CASE CreateFails
  <2>1. Alive = {}
    BY <1>5, NoneAlive DEF CreateFails, Handles
  <2>2. Alive' = {}
    BY <1>5, <2>1 DEF CreateFails, Alive, Started
  <2>3. QED BY <1>5, <2>2 DEF CreateFails, OneMain, CallbackIsOwn, RunIsNamed, CreatingAlone
<1>6. ASSUME NEW r \in Runs, Begin(r) \/ Cleanup(r) \/ Callback(r) \/ NoCallback(r) PROVE ThreadInv'
  <2>1. PICK pc \in {"serving", "returned", "called", "ending"} : main' = [main EXCEPT ![r] = pc]
    BY <1>6 DEF Begin, Cleanup, Callback, NoCallback, Goto
  <2>2. r \in Alive /\ Alive' \subseteq Alive
    BY <1>6, <2>1 DEF Begin, Cleanup, Callback, NoCallback, Alive, Started, TypeOK, NativeType
  <2>3. UNCHANGED <<gThread, gCallback, starter, creating>>
    BY <1>6 DEF Begin, Cleanup, Callback, NoCallback
  <2>4. CallbackIsOwn'
    <3> SUFFICES ASSUME NEW q \in Alive', main'[q] # "ending" PROVE gCallback = starter[q]
      BY <2>3 DEF CallbackIsOwn
    <3>1. q = r /\ main[r] # "ending"
      BY <1>6, <2>2 DEF OneMain, Begin, Cleanup, Callback, NoCallback
    <3>2. QED BY <2>2, <3>1 DEF CallbackIsOwn
  <2>5. QED BY <2>2, <2>3, <2>4 DEF OneMain, RunIsNamed, CreatingAlone
<1>7. ASSUME NEW r \in Runs, DeleteCallback(r) PROVE ThreadInv'
  <2>1. main' = [main EXCEPT ![r] = "ending"] /\ main[r] = "called"
    BY <1>7 DEF DeleteCallback, Goto
  <2>2. r \in Alive /\ Alive' = Alive /\ main'[r] = "ending"
    BY <2>1 DEF Alive, Started, TypeOK, NativeType
  <2>3. QED BY <1>7, <2>2 DEF DeleteCallback, OneMain, CallbackIsOwn, RunIsNamed, CreatingAlone
<1>8. ASSUME NEW r \in Runs, Ending(r) PROVE ThreadInv'
  <2>1. r \in Alive /\ Alive' = Alive \ {r}
    BY <1>8 DEF Ending, Goto, Alive, Started, TypeOK, NativeType
  <2>2. Alive' = {}
    BY <2>1 DEF OneMain
  <2>3. QED BY <2>2 DEF OneMain, CallbackIsOwn, RunIsNamed, CreatingAlone
<1>9. QED
  BY <1>1, <1>2, <1>3, <1>4, <1>5, <1>6, <1>7, <1>8
  DEF Next, AppNext, NativeNext, StartButton, StopButton, BootCompleted, Press, Resume, AlreadyRunning,
      StopNcam, Destroy, ExitRequested, HelperEnds, vars, native

LEMMA ThreadInvariant == Spec => []ThreadInv
<1>1. Init => ThreadInv
  BY DEF Init, ThreadInv, OneMain, CallbackIsOwn, RunIsNamed, CreatingAlone, Alive, Started
<1>2. TypeOK /\ ThreadInv /\ [Next]_vars => ThreadInv'
  BY ThreadStep
<1>3. QED BY <1>1, <1>2, TypeCorrect, PTL DEF Spec

\* One main() at a time uses g_args, exit_oscam and the globals of NCam, for
\* any number of starts, stops and kills.
THEOREM OneMainAtATime == Spec => []OneMain
  BY ThreadInvariant, PTL DEF ThreadInv

\* A native thread calls and deletes the callback of its own start.
THEOREM OwnCallback == Spec => []CallbackIsOwn
  BY ThreadInvariant, PTL DEF ThreadInv

\* g_thread names the thread that runs, once startNCam has returned.
THEOREM NamedRun == Spec => []RunIsNamed
  BY ThreadInvariant, PTL DEF ThreadInv
============================================================================
