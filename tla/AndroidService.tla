--------------------------- MODULE AndroidService ---------------------------
(***************************************************************************)
(* The Android app around NCam: the foreground service (NCamService.kt),   *)
(* the buttons (MainActivity.kt), the start at boot (BootReceiver.kt) and  *)
(* the bridge that runs main() in a native thread (jni_bridge.cpp).        *)
(*                                                                         *)
(* Three kinds of threads: the main thread of the app handles one message  *)
(* of its queue after the other; a native thread runs main(); and main()   *)
(* leaves threads behind (reader_check, card_poll, cw_process: one of them *)
(* stands for all) that end when they see exit_oscam.  A step is what runs *)
(* between two accesses to g_thread, g_callback or exit_oscam.             *)
(*                                                                         *)
(* Android is external: it creates a service for the first start, queues   *)
(* the commands, destroys the service after stopSelf(), and starts it      *)
(* again, without a command, after the process was killed (START_STICKY).  *)
(***************************************************************************)
EXTENDS Integers, SequencesExt

CONSTANTS
    MaxPresses,  \* bound: commands given by the buttons and at boot
    MaxKills,    \* bound: times the process is killed
    MaxKeys,     \* thread keys a process can have (128 on Android)
    MayFail      \* whether pthread_create and AttachCurrentThread may fail

ASSUME BoundsAssumption == {MaxPresses, MaxKills, MaxKeys} \subseteq Nat /\ MayFail \in BOOLEAN

Runs == 1 .. MaxPresses + MaxKills      \* calls of startNCam that create a thread
Services == 1 .. MaxPresses + MaxKills  \* instances of NCamService

VARIABLES
    gThread,     \* g_thread: the run it names, 0 none
    gCallback,   \* g_callback: the instance of NCamService, 0 null
    exitOscam,   \* exit_oscam # 0
    keys,        \* thread keys taken by earlier runs, which no run gives back
    main,        \* each run: where its native thread is
    starter,     \* each run: the instance that called startNCam
    helper,      \* each run: its reader_check thread is alive
    creating,    \* startNCam between pthread_create and g_thread = tid: the run
    record,      \* Android's record of the service: the instance, 0 none
    foreground,  \* the notification of the service is shown
    queue,       \* messages of the app's main thread
    shown,       \* the buttons show "Running"
    presses,     \* commands given
    kills        \* times the process was killed

native == <<gThread, gCallback, exitOscam, keys, main, starter, helper, creating>>
android == <<record, foreground, queue>>
user == <<shown, presses, kills>>
vars == <<native, android, user>>

Message == [what : {"START", "STOP", "null", "destroy"}, to : Services]
Msg(what, to) == [what |-> what, to |-> to]

Started == {r \in Runs : main[r] # "none"}
Alive == {r \in Started : main[r] # "done"}
Goto(r, pc) == main' = [main EXCEPT ![r] = pc]
IsNext(r) == main[r] = "none" /\ \A q \in Runs : q < r => q \in Started
isRunning == gThread # 0

----------------------------------------------------------------------------
(* Android *)

Init ==
    /\ gThread = 0 /\ gCallback = 0 /\ exitOscam = FALSE /\ keys = 0
    /\ main = [r \in Runs |-> "none"] /\ starter = [r \in Runs |-> 0]
    /\ helper = [r \in Runs |-> FALSE] /\ creating = 0
    /\ record = 0 /\ foreground = FALSE /\ queue = <<>>
    /\ shown = FALSE /\ presses = 0 /\ kills = 0

\* The instance a new record gets: one per command or kill at most
NewInstance == presses + kills + 1

\* startService
Send(action) ==
    IF record # 0
    THEN /\ queue' = Append(queue, Msg(action, record))
         /\ UNCHANGED <<record, foreground>>
    ELSE /\ record' = NewInstance
         /\ foreground' = FALSE
         /\ queue' = Append(queue, Msg(action, NewInstance))

\* stopForegroundCompat(); stopSelf(): of no effect once the record is gone
StopSelf(s, q) ==
    IF record = s
    THEN record' = 0 /\ foreground' = FALSE /\ queue' = Append(q, Msg("destroy", s))
    ELSE queue' = q /\ UNCHANGED <<record, foreground>>

\* A killed process takes its threads and messages along; the service is
\* started again if it was not stopped
ProcessKilled ==
    /\ kills < MaxKills
    /\ kills' = kills + 1
    /\ gThread' = 0 /\ gCallback' = 0 /\ exitOscam' = FALSE /\ keys' = 0
    /\ main' = [r \in Runs |-> IF r \in Alive THEN "done" ELSE main[r]]
    /\ helper' = [r \in Runs |-> FALSE] /\ creating' = 0
    /\ foreground' = FALSE /\ shown' = FALSE
    /\ IF record = 0
       THEN record' = 0 /\ queue' = <<>>
       ELSE /\ record' = NewInstance
            /\ queue' = <<Msg("null", NewInstance)>>
    /\ UNCHANGED <<starter, presses>>

----------------------------------------------------------------------------
(* MainActivity and BootReceiver *)

Press(action, running) ==
    /\ presses < MaxPresses
    /\ presses' = presses + 1
    /\ shown' = running
    /\ Send(action)
    /\ UNCHANGED <<native, kills>>

StartButton == ~shown /\ Press("START", TRUE)
StopButton == shown /\ Press("STOP", FALSE)
BootCompleted == Press("START", shown)

\* onCreate, onResume
Resume == shown' = isRunning /\ UNCHANGED <<native, android, presses, kills>>

----------------------------------------------------------------------------
(* The main thread: NCamService and the functions of the bridge it calls *)

Handles(what) == creating = 0 /\ queue # <<>> /\ Head(queue).what = what
Handled == queue' = Tail(queue)
this == Head(queue).to

\* startNcam and the null command while the bridge says it is running
\* (mutant: startNCam resets exit_oscam before it tests g_thread)
MutAlreadyRunning ==
    /\ Handles("START") \/ Handles("null")
    /\ isRunning
    /\ Handled
    /\ exitOscam' = FALSE
    /\ foreground' = (foreground \/ record = this)
    /\ UNCHANGED <<gThread, gCallback, keys, main, starter, helper, creating, record, user>>
AlreadyRunning ==
    /\ Handles("START") \/ Handles("null")
    /\ isRunning
    /\ Handled
    /\ foreground' = (foreground \/ record = this)
    /\ UNCHANGED <<native, record, user>>

\* startNcam with startNCam until pthread_create (mutant: no test of g_thread)
MutMayStart == TRUE
MayStart == ~isRunning

StartNCam ==
    /\ Handles("START") \/ Handles("null")
    /\ MayStart
    /\ Handled
    /\ foreground' = (foreground \/ record = this)
    /\ gCallback' = this
    /\ exitOscam' = FALSE
    /\ \E r \in Runs :
        /\ IsNext(r)
        /\ creating' = r
        /\ starter' = [starter EXCEPT ![r] = this]
        /\ Goto(r, "begin")
    /\ UNCHANGED <<gThread, keys, helper, record, user>>

\* ... and after it: "g_thread = tid"
ThreadCreated ==
    /\ creating # 0
    /\ gThread' = creating
    /\ creating' = 0
    /\ UNCHANGED <<gCallback, exitOscam, keys, main, starter, helper, android, user>>

\* pthread_create fails: g_callback stays, the service stops
CreateFails ==
    /\ MayFail
    /\ Handles("START") \/ Handles("null")
    /\ ~isRunning
    /\ gCallback' = this
    /\ exitOscam' = FALSE
    /\ StopSelf(this, Tail(queue))
    /\ UNCHANGED <<gThread, keys, main, starter, helper, creating, user>>

\* stopNCam
stopNCam == exitOscam' = (exitOscam \/ isRunning)

\* (mutant: stopNCam also resets g_thread)
MutStopNcam ==
    /\ Handles("STOP")
    /\ stopNCam /\ gThread' = 0
    /\ StopSelf(this, Tail(queue))
    /\ UNCHANGED <<gCallback, keys, main, starter, helper, creating, user>>
StopNcam ==
    /\ Handles("STOP")
    /\ stopNCam
    /\ StopSelf(this, Tail(queue))
    /\ UNCHANGED <<gThread, gCallback, keys, main, starter, helper, creating, user>>

\* onDestroy (mutant: without the stop)
MutDestroyStops == UNCHANGED exitOscam
DestroyStops == stopNCam

Destroy ==
    /\ Handles("destroy")
    /\ DestroyStops
    /\ Handled
    /\ UNCHANGED <<gThread, gCallback, keys, main, starter, helper, creating, record, foreground, user>>

----------------------------------------------------------------------------
(* ncam_thread: main(), the callback, the end *)

\* main() takes a thread key, which nothing deletes; without one it returns
\* (mutant: it goes on without one)
MutBegin(r) ==
    /\ main[r] = "begin"
    /\ Goto(r, "serving")
    /\ keys' = keys + 1
    /\ helper' = [helper EXCEPT ![r] = TRUE]
    /\ UNCHANGED <<gThread, gCallback, exitOscam, starter, creating, android, user>>
Begin(r) ==
    /\ main[r] = "begin"
    /\ IF keys = MaxKeys
       THEN Goto(r, "returned") /\ UNCHANGED <<keys, helper>>
       ELSE /\ Goto(r, "serving")
            /\ keys' = keys + 1
            /\ helper' = [helper EXCEPT ![r] = TRUE]
    /\ UNCHANGED <<gThread, gCallback, exitOscam, starter, creating, android, user>>

\* cs_exit_ncam and cs_restart_ncam of the web interface
ExitRequested(r) ==
    /\ main[r] = "serving"
    /\ exitOscam' = TRUE
    /\ UNCHANGED <<gThread, gCallback, keys, main, starter, helper, creating, android, user>>

\* process_clients sees the flag; the clean-up follows.  It sleeps 200 ms, "so
\* hopefully all threads are stopped when we continue"
Cleanup(r) ==
    /\ main[r] = "serving" /\ exitOscam
    /\ Goto(r, "returned")
    /\ UNCHANGED <<gThread, gCallback, exitOscam, keys, starter, helper, creating, android, user>>

\* onNcamStopped of the instance behind g_callback (mutant: g_thread is reset
\* before the callback)
MutCallback(r) ==
    /\ main[r] = "returned" /\ gCallback # 0
    /\ Goto(r, "called")
    /\ gThread' = 0
    /\ StopSelf(gCallback, queue)
    /\ UNCHANGED <<gCallback, exitOscam, keys, starter, helper, creating, user>>
Callback(r) ==
    /\ main[r] = "returned" /\ gCallback # 0
    /\ Goto(r, "called")
    /\ StopSelf(gCallback, queue)
    /\ UNCHANGED <<gThread, gCallback, exitOscam, keys, starter, helper, creating, user>>

\* There is no callback, or the thread cannot be attached: it is not deleted
NoCallback(r) ==
    /\ main[r] = "returned"
    /\ gCallback = 0 \/ MayFail
    /\ Goto(r, "ending")
    /\ UNCHANGED <<gThread, gCallback, exitOscam, keys, starter, helper, creating, android, user>>

DeleteCallback(r) ==
    /\ main[r] = "called"
    /\ gCallback' = 0
    /\ Goto(r, "ending")
    /\ UNCHANGED <<gThread, exitOscam, keys, starter, helper, creating, android, user>>

\* "g_thread = 0" as the last thing
Ending(r) ==
    /\ main[r] = "ending"
    /\ gThread' = 0
    /\ Goto(r, "done")
    /\ UNCHANGED <<gCallback, exitOscam, keys, starter, helper, creating, android, user>>

\* reader_check and the others: "while(!exit_oscam)" after each sleep
HelperEnds(r) ==
    /\ helper[r] /\ exitOscam
    /\ helper' = [helper EXCEPT ![r] = FALSE]
    /\ UNCHANGED <<gThread, gCallback, exitOscam, keys, main, starter, creating, android, user>>

----------------------------------------------------------------------------
(* Specification *)

AppNext ==
    AlreadyRunning \/ StartNCam \/ ThreadCreated \/ CreateFails \/ StopNcam \/ Destroy

NativeNext(r) ==
    \/ Begin(r) \/ Cleanup(r) \/ Callback(r) \/ NoCallback(r) \/ DeleteCallback(r) \/ Ending(r)

Next ==
    \/ StartButton \/ StopButton \/ BootCompleted \/ Resume \/ ProcessKilled
    \/ AppNext
    \/ \E r \in Runs : NativeNext(r) \/ ExitRequested(r) \/ HelperEnds(r)

\* The main thread and the native thread run; nobody need press a button, and
\* a helper may sleep for as long as it was told to
Spec == Init /\ [][Next]_vars /\ WF_vars(AppNext) /\ \A r \in Runs : WF_vars(NativeNext(r))

----------------------------------------------------------------------------
(* Properties *)

\* Types of the variables: of the process, and of Android and the user.
NativeType ==
    /\ gThread \in Runs \cup {0} /\ gCallback \in Services \cup {0}
    /\ exitOscam \in BOOLEAN /\ keys \in 0 .. MaxKeys
    /\ main \in [Runs -> {"none", "begin", "serving", "returned", "called", "ending", "done"}]
    /\ starter \in [Runs -> Services \cup {0}] /\ helper \in [Runs -> BOOLEAN]
    /\ creating \in Started \cup {0}
AndroidType ==
    /\ record \in Services \cup {0} /\ foreground \in BOOLEAN /\ queue \in Seq(Message)
    /\ shown \in BOOLEAN /\ presses \in 0 .. MaxPresses /\ kills \in 0 .. MaxKills
TypeOK == NativeType /\ AndroidType

\* g_args, exit_oscam and every global of NCam are used by one main() at a
\* time: a start is refused until the last thread has nothing left to do with
\* them, the callback included (jni_bridge.cpp:63 and 49).
OneMain == \A r, q \in Alive : r = q

\* A native thread calls back the service that started it, and deletes that
\* reference and no other: no start replaces g_callback before
\* (jni_bridge.cpp:41-45 against 93-96).
CallbackIsOwn ==
    \A r \in Alive : main[r] # "ending" => gCallback = starter[r]

\* The button, the end of the service and a second start find the thread that
\* runs: g_thread names it from the moment startNCam returns until its end.
RunIsNamed == \A r \in Alive : r = creating \/ gThread = r

\* A run that was told to stop ends, whatever is pressed meanwhile: no start
\* takes the request back (exit_oscam = 0 comes after the test of g_thread).
StopEndsRun ==
    \A r \in Runs : (r \in Alive /\ main[r] = "serving" /\ exitOscam) ~> main[r] = "done"

\* NCam does not outlive its service: when Android has destroyed it, however
\* that came about, the thread ends or a new service is there (onDestroy).
NoRunWithoutService == (record = 0) ~> (record # 0 \/ Alive = {})

\* When a main() serves, the threads of the one before it have ended (ncam.c:2013
\* sleeps 200 ms for them).  It is violated: one that sleeps longer than that
\* finds exit_oscam reset by the next start.
OldThreadsEnded ==
    \A r, q \in Runs : (main[r] = "serving" /\ helper[q]) => q = r

============================================================================
