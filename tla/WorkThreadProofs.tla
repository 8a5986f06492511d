-------------------------- MODULE WorkThreadProofs --------------------------
(***************************************************************************)
(* Theorems about WorkThread, for every set of jobs and threads, for       *)
(* clients with a socket and without one, and also when threads fail.      *)
(***************************************************************************)
EXTENDS WorkThread, TLAPS

\* Who set thread_active last has not passed the point where it is reset.
ActiveInv == active # 0 => failed \/ freed \/ \E w \in Workers : ~At(w, "none") /\ ~At(w, "freeing")

\* Where a thread is that has seen neither the kill flag nor an idle client,
\* and where it goes from there.
Inner == {"fetch", "idle", "poll", "work", "busy"}
Leaving == {"ending", "again", "exit", "freeing"}

\* A client with a socket has one thread until it is killed, which thread_active
\* tells; then no other thread gets past the test of the kill flag.
Alone == \A v, w \in Workers : ~At(v, "none") /\ ~At(w, "none") /\ v # w => kill
OneInner == \A v, w \in Workers : worker[v].pc \in Inner /\ worker[w].pc \in Inner => v = w
KnownThread == \A w \in Workers : ~At(w, "none") /\ ~kill => active # 0
EndsWhenKilled == \A w \in Workers : worker[w].pc \in Leaving => kill

\* A thread starts with a job.
StartsWithJob == \A w \in Workers : At(w, "start") => worker[w].data \in Jobs

SocketInv == socket => Alone /\ OneInner /\ KnownThread /\ EndsWhenKilled

----------------------------------------------------------------------------
\* Taking the next job leaves a list of jobs.
LEMMA NextJobFacts ==
    ASSUME jobs \in Seq(Jobs), MoreJobs
    PROVE  jobs[NextIndex] \in Jobs /\ RemoveAt(jobs, NextIndex) \in Seq(Jobs)
  BY DEF MoreJobs, NextIndex, RemoveAt

\* The parts of the type invariant: the flags, the threads, the lists.
FlagType == socket \in BOOLEAN /\ kill \in BOOLEAN /\ freed \in BOOLEAN /\ failed \in BOOLEAN
ThreadType == worker \in [Workers -> [pc : States, data : Jobs \cup {NoJob, Event}]]
ListType == /\ active \in 0 .. 2
            /\ jobs \in Seq(Jobs) /\ accepted \in Seq(Jobs) /\ handled \in Seq(Jobs)
            /\ adding \subseteq Jobs /\ dropped \subseteq Jobs

TypeInv == FlagType /\ ThreadType /\ StartsWithJob /\ ListType

\* Only a poll, a handler and kill_thread set the kill flag.
LEMMA FlagStep ==
    ASSUME FlagType, [Next]_vars
    PROVE  FlagType'
<1>1. socket' = socket
  BY DEF Next, AddJobBegin, AddJobEnd, Enqueue, StartThread, StartFails, KillFlagSet, Work,
     Start, StartNoBuffer, Loop, Killed, NotKilled, Fetch, PollBegin, PollEnd, DropOld, Handle, HandleEnd,
     ExitInHandler, Ending, Again, Exit, Free, vars, client
<1>2. freed' \in {freed, TRUE} /\ failed' \in {failed, TRUE}
  BY DEF Next, AddJobBegin, AddJobEnd, Enqueue, StartThread, StartFails, KillFlagSet, Work,
     Start, StartNoBuffer, Loop, Killed, NotKilled, Fetch, PollBegin, PollEnd, DropOld, Handle, HandleEnd,
     ExitInHandler, Ending, Again, Exit, Free, vars, client
<1>3. ASSUME NEW w \in Workers, HandleEnd(w) PROVE kill' \in BOOLEAN
  <2>1. (kill \/ worker[w].data = KillJob) \in BOOLEAN
    OBVIOUS
  <2>2. QED BY <1>3, <2>1, Zenon DEF HandleEnd
<1>4. ASSUME NEW w \in Workers, ~HandleEnd(w), Work(w) PROVE kill' \in {kill, TRUE}
  BY <1>4 DEF Work, Start, StartNoBuffer, Loop, Killed, NotKilled, Fetch, PollBegin, PollEnd, DropOld, Handle,
     ExitInHandler, Ending, Again, Exit, Free, client
<1>5. kill' \in BOOLEAN
  <2>1. ASSUME NEW w \in Workers, Work(w) PROVE kill' \in BOOLEAN
    BY <1>3, <1>4, <2>1, Zenon DEF FlagType
  <2>2. (\E w \in Workers : Work(w)) \/ kill' \in {kill, TRUE}
    BY DEF Next, AddJobBegin, AddJobEnd, Enqueue, StartThread, StartFails, KillFlagSet,
       vars, client
  <2>3. QED BY <2>1, <2>2, Zenon DEF FlagType
<1>6. QED BY <1>1, <1>2, <1>5, Zenon DEF FlagType

\* A thread goes from one of its places to another and starts with a job.
LEMMA ThreadStep ==
    ASSUME ThreadType, StartsWithJob, ListType, [Next]_vars
    PROVE  ThreadType' /\ StartsWithJob'
<1> DEFINE Moves(w, pc, data) == /\ pc \in States /\ data \in Jobs \cup {NoJob, Event}
                                 /\ pc = "start" => data \in Jobs
                                 /\ Goto(w, pc, data)
<1>1. ASSUME NEW w \in Workers, NEW pc, NEW data, Moves(w, pc, data)
      PROVE  ThreadType' /\ StartsWithJob'
  BY <1>1 DEF Goto, ThreadType, StartsWithJob, At
<1>2. ASSUME NEW w \in Workers, Work(w)
      PROVE  \E pc, data : Moves(w, pc, data)
  <2>1. CASE Fetch(w)
    <3>1. CASE MoreJobs
      <4>1. Goto(w, "work", jobs[NextIndex])
        BY <2>1, <3>1 DEF Fetch
      <4>2. jobs[NextIndex] \in Jobs
        BY <3>1, NextJobFacts DEF ListType
      <4>3. QED BY <4>1, <4>2 DEF States
    <3>2. CASE ~MoreJobs
      <4>1. Goto(w, IF socket THEN "idle" ELSE "ending", NoJob)
        BY <2>1, <3>2 DEF Fetch
      <4>2. Goto(w, "idle", NoJob) \/ Goto(w, "ending", NoJob)
        BY <4>1, Zenon
      <4>3. QED BY <4>2 DEF States
    <3>3. QED BY <3>1, <3>2
  <2>2. CASE PollEnd(w)
    <3>1. Goto(w, "loop", NoJob) \/ Goto(w, "work", Event)
      BY <2>2 DEF PollEnd
    <3>2. QED BY <3>1 DEF States
  <2>3. CASE Loop(w) \/ Killed(w) \/ NotKilled(w)
    <3>1. \E pc \in {"ending", "test", "freeing", "fetch", "work"}, data \in {NoJob, worker[w].data} :
             Goto(w, pc, data)
      BY <2>3, Zenon DEF Loop, Killed, NotKilled
    <3>2. worker[w].data \in Jobs \cup {NoJob, Event}
      BY DEF ThreadType
    <3>3. QED BY <3>1, <3>2 DEF States
  <2>4. ASSUME ~Fetch(w), ~PollEnd(w), ~(Loop(w) \/ Killed(w) \/ NotKilled(w))
        PROVE  \E pc \in States \ {"start"}, data \in {NoJob, worker[w].data} : Goto(w, pc, data)
    BY <1>2, <2>4 DEF Work, Start, StartNoBuffer, PollBegin, DropOld, Handle, HandleEnd,
       ExitInHandler, Ending, Again, Exit, Free, States
  <2>5. worker[w].data \in Jobs \cup {NoJob, Event}
    BY DEF ThreadType
  <2>6. QED BY <2>1, <2>2, <2>3, <2>4, <2>5
<1>3. ASSUME NEW j \in Jobs, StartThread(j)
      PROVE  \E w \in Workers : Moves(w, "start", j)
  BY <1>3 DEF StartThread, States
<1>4. ASSUME worker' = worker
      PROVE  ThreadType' /\ StartsWithJob'
  BY <1>4 DEF ThreadType, StartsWithJob, At
<1>5. \/ \E w \in Workers : Work(w)
      \/ \E j \in Jobs : StartThread(j)
      \/ worker' = worker
  BY DEF Next, AddJobBegin, AddJobEnd, Enqueue, StartFails, KillFlagSet, vars
<1>6. QED BY <1>1, <1>2, <1>3, <1>4, <1>5

\* The lists hold jobs, and thread_active is 0, 1 or 2.
LEMMA ListStep ==
    ASSUME ThreadType, StartsWithJob, ListType, [Next]_vars
    PROVE  ListType'
<1> USE DEF ListType
<1>1. ASSUME NEW j \in Jobs, AddJobBegin(j) \/ AddJobEnd(j) PROVE ListType'
  <2>1. CASE AddJobBegin(j)
    BY <2>1 DEF AddJobBegin, lists
  <2>2. CASE Enqueue(j)
    BY <2>2 DEF Enqueue
  <2>3. CASE StartThread(j)
    BY <2>3 DEF StartThread
  <2>4. CASE StartFails(j)
    BY <2>4 DEF StartFails
  <2>5. QED BY <1>1, <2>1, <2>2, <2>3, <2>4 DEF AddJobEnd
<1>2. CASE KillFlagSet
  BY <1>2 DEF KillFlagSet, lists
<1>3. ASSUME NEW w \in Workers, Work(w) PROVE ListType'
  <2>1. CASE Fetch(w)
    BY <2>1, NextJobFacts DEF Fetch, lists
  <2>2. CASE Free(w) \/ ExitInHandler(w)
    <3>1. ToSet(jobs) \subseteq Jobs
      BY DEF ToSet
    <3>2. <<>> \in Seq(Jobs)
      OBVIOUS
    <3>3. jobs' \in Seq(Jobs) /\ dropped' \subseteq Jobs
      BY <2>2, <3>1, <3>2, Zenon DEF Free, ExitInHandler
    <3>4. QED BY <2>2, <3>3 DEF Free, ExitInHandler
  <2>3. CASE StartNoBuffer(w)
    BY <2>3 DEF StartNoBuffer, StartsWithJob
  <2>4. CASE Killed(w)
    BY <2>4 DEF Killed
  <2>5. CASE DropOld(w)
    BY <2>5 DEF DropOld
  <2>6. CASE Handle(w)
    BY <2>6 DEF Handle
  <2>7. CASE Exit(w)
    BY <2>7 DEF Exit, ActiveAtExit
  <2>8. CASE \/ Start(w) \/ Loop(w) \/ NotKilled(w) \/ PollBegin(w) \/ PollEnd(w)
              \/ HandleEnd(w) \/ Ending(w) \/ Again(w)
    <3>1. UNCHANGED <<jobs, adding, lists>>
      BY <2>8, Zenon DEF Start, Loop, NotKilled, PollBegin, PollEnd, HandleEnd, Ending, Again
    <3>2. active' \in {0, 1, 2, active}
      BY <2>8, Zenon DEF Start, Loop, NotKilled, PollBegin, PollEnd, HandleEnd, Ending, Again
    <3>3. QED BY <3>1, <3>2 DEF lists
  <2>9. QED
    BY <1>3, <2>1, <2>2, <2>3, <2>4, <2>5, <2>6, <2>7, <2>8 DEF Work
<1>4. CASE UNCHANGED vars
  BY <1>4 DEF vars, lists
<1>5. QED
  BY <1>1, <1>2, <1>3, <1>4 DEF Next

\* The type invariant is inductive.
LEMMA TypeInductive == Spec => []TypeInv
<1>1. Init => TypeInv
  <2> SUFFICES ASSUME Init PROVE TypeInv
    OBVIOUS
  <2>1. socket \in BOOLEAN
    BY ClientAssumption, Zenon DEF Init
  <2>2. FlagType
    BY <2>1, Zenon DEF Init, FlagType
  <2>3. ThreadType /\ StartsWithJob /\ ListType
    BY DEF Init, ThreadType, StartsWithJob, ListType, At, States
  <2>4. QED BY <2>2, <2>3 DEF TypeInv
<1>2. TypeInv /\ [Next]_vars => TypeInv'
  BY FlagStep, ThreadStep, ListStep DEF TypeInv
<1>3. QED BY <1>1, <1>2, PTL DEF Spec

\* Every variable of a client's job list keeps its type.
THEOREM TypeCorrect == Spec => []TypeOK
<1>1. TypeInv => TypeOK
  BY Zenon DEF TypeInv, FlagType, ThreadType, ListType, TypeOK
<1>2. QED BY <1>1, TypeInductive, PTL

\* While thread_active is set there is a thread, and the last one that set it
\* will look at the list again: add_job does not queue a job for nobody, for
\* every number of threads at a time, unless a thread could not be started or
\* the client is freed.
THEOREM ThreadWhileActive == Spec => []ActiveMeansAlive
<1>1. Init => ActiveInv
  BY DEF Init, ActiveInv
<1>2. TypeInv /\ ActiveInv /\ [Next]_vars => ActiveInv'
  <2> SUFFICES ASSUME TypeInv, ActiveInv, [Next]_vars PROVE ActiveInv'
    OBVIOUS
  <2> USE DEF ActiveInv, At
  <2>1. ASSUME NEW j \in Jobs, StartThread(j) PROVE ActiveInv'
    BY <2>1 DEF StartThread, Goto, TypeInv, ThreadType
  <2>2. ASSUME NEW j \in Jobs, AddJobBegin(j) \/ Enqueue(j) \/ StartFails(j) PROVE ActiveInv'
    BY <2>2, Zenon DEF AddJobBegin, Enqueue, StartFails, client, lists
  <2>3. CASE KillFlagSet
    BY <2>3, Zenon DEF KillFlagSet
  <2>4. ASSUME NEW w \in Workers, Work(w) PROVE ActiveInv'
    <3>1. ASSUME NEW pc, NEW data, Goto(w, pc, data), pc \notin {"none", "freeing"}
          PROVE  ActiveInv'
      <4>1. worker'[w].pc = pc
        BY <3>1 DEF Goto, TypeInv, ThreadType
      <4>2. QED BY <3>1, <4>1
    <3>2. CASE Loop(w) \/ Killed(w) \/ NotKilled(w)
      <4>1. \/ active' = 0
            \/ \E pc \in {"ending", "test", "fetch", "work"} : \E data : Goto(w, pc, data)
        BY <3>2, Zenon DEF Loop, Killed, NotKilled
      <4>2. QED BY <3>1, <4>1
    <3>3. CASE Fetch(w)
      <4>1. \E pc \in {"work", "idle", "ending"} : \E data : Goto(w, pc, data)
        BY <3>3, Zenon DEF Fetch
      <4>2. QED BY <3>1, <4>1
    <3>4. CASE Again(w)
      <4>1. \E pc \in {"exit", "loop"} : \E data : Goto(w, pc, data)
        BY <3>4, Zenon DEF Again
      <4>2. QED BY <3>1, <4>1
    <3>5. CASE StartNoBuffer(w)
      BY <3>5 DEF StartNoBuffer
    <3>6. CASE Exit(w)
      BY <3>6 DEF Exit, ActiveAtExit
    <3>7. CASE ExitInHandler(w)
      BY <3>7, Zenon DEF ExitInHandler
    <3>8. CASE Free(w)
      <4>1. active' = active /\ failed' = failed /\ (freed => freed')
        BY <3>8, Zenon DEF Free
      <4>2. \A v \in Workers : ~At(v, "none") /\ ~At(v, "freeing") => worker'[v] = worker[v]
        BY <3>8 DEF Free, Goto, TypeInv, ThreadType
      <4>3. QED BY <4>1, <4>2, Zenon
    <3>9. CASE \/ Start(w) \/ PollBegin(w) \/ PollEnd(w) \/ DropOld(w) \/ Handle(w)
               \/ HandleEnd(w) \/ Ending(w)
      <4>1. \E pc \in {"loop", "poll", "work", "busy", "again", "exit"} : \E data : Goto(w, pc, data)
        BY <3>9, Zenon DEF Start, PollBegin, PollEnd, DropOld, Handle, HandleEnd, Ending
      <4>2. QED BY <3>1, <4>1
    <3>10. QED
      BY <2>4, <3>2, <3>3, <3>4, <3>5, <3>6, <3>7, <3>8, <3>9 DEF Work
  <2>5. CASE UNCHANGED vars
    BY <2>5, Zenon DEF vars, client
  <2>6. QED
    BY <2>1, <2>2, <2>3, <2>4, <2>5 DEF Next, AddJobEnd
<1>3. ActiveInv => ActiveMeansAlive
  BY Zenon DEF ActiveInv, ActiveMeansAlive, Alive, At
<1>4. QED BY <1>1, <1>2, <1>3, TypeInductive, PTL DEF Spec

\* The threads of a client with a socket take turns.
LEMMA SocketAlways == Spec => []SocketInv
<1>1. Init => SocketInv
  BY DEF Init, SocketInv, Alone, OneInner, KnownThread, EndsWhenKilled, At, Inner, Leaving
<1>2. TypeInv /\ SocketInv /\ [Next]_vars => SocketInv'
  <2> SUFFICES ASSUME TypeInv, SocketInv, [Next]_vars, socket' PROVE SocketInv'
    BY Zenon DEF SocketInv
  <2>1. socket' = socket
    BY DEF Next, AddJobBegin, AddJobEnd, Enqueue, StartThread, StartFails, KillFlagSet, Work,
       Start, StartNoBuffer, Loop, Killed, NotKilled, Fetch, PollBegin, PollEnd, DropOld, Handle, HandleEnd,
       ExitInHandler, Ending, Again, Exit, Free, vars, client
  <2>2. Alone /\ OneInner /\ KnownThread /\ EndsWhenKilled
    BY <2>1, Zenon DEF SocketInv
  <2> USE DEF At, Inner, Leaving
  <2>3. ASSUME NEW w \in Workers, NEW pc \in States, NEW data, Goto(w, pc, data)
        PROVE  worker'[w].pc = pc /\ \A v \in Workers : v # w => worker'[v] = worker[v]
    BY <2>3 DEF Goto, TypeInv, ThreadType
  <2>4. ASSUME worker' = worker, kill => kill', active' # 0 \/ active' = active
        PROVE  SocketInv'
    BY <2>2, <2>4, Zenon DEF SocketInv, Alone, OneInner, KnownThread, EndsWhenKilled
  <2>5. ASSUME NEW j \in Jobs, StartThread(j) PROVE SocketInv'
    <3>1. PICK w \in Workers \ Alive : Goto(w, "start", j)
      BY <2>5 DEF StartThread
    <3>2. kill' = kill /\ active' = 1
      BY <2>5 DEF StartThread, client
    <3>3. ~kill => \A v \in Workers : At(v, "none")
      BY <2>2, <2>5, Zenon DEF StartThread, Served, KnownThread
    <3>4. worker'[w].pc = "start" /\ \A v \in Workers : v # w => worker'[v] = worker[v]
      BY <2>3, <3>1 DEF States
    <3>5. Alone' /\ KnownThread'
      BY <2>2, <3>2, <3>3, <3>4 DEF Alone, KnownThread
    <3>6. OneInner' /\ EndsWhenKilled'
      BY <2>2, <3>2, <3>4 DEF OneInner, EndsWhenKilled
    <3>7. QED BY <3>5, <3>6, Zenon DEF SocketInv
  <2>6. ASSUME NEW w \in Workers, Work(w) PROVE SocketInv'
    \* a thread that goes on among the inner places, or to an end after a kill
    <3>1. ASSUME NEW pc \in States, NEW data, Goto(w, pc, data), ~At(w, "none"), kill => kill',
                 pc \in Inner => worker[w].pc \in Inner \/ ~kill,
                 pc \in Leaving => kill',
                 active' # 0 \/ active' = active \/ kill' \/ pc = "none"
          PROVE  SocketInv'
      <4>1. worker'[w].pc = pc /\ \A v \in Workers : v # w => worker'[v] = worker[v]
        BY <2>3, <3>1
      <4>2. Alone'
        BY <2>2, <3>1, <4>1 DEF Alone
      <4>3. OneInner'
        BY <2>2, <3>1, <4>1 DEF OneInner, Alone
      <4>4. KnownThread'
        BY <2>2, <3>1, <4>1 DEF KnownThread, Alone
      <4>5. EndsWhenKilled'
        BY <2>2, <3>1, <4>1 DEF EndsWhenKilled
      <4>6. QED BY <4>2, <4>3, <4>4, <4>5, Zenon DEF SocketInv
    <3> USE DEF States
    <3>2. CASE Start(w)
      BY <2>2, <3>1, <3>2 DEF Start, client
    <3>3. CASE StartNoBuffer(w)
      BY <2>2, <3>1, <3>3 DEF StartNoBuffer, client
    <3>4. CASE Loop(w) \/ Killed(w) \/ NotKilled(w)
      <4>1. CASE Loop(w)
        <5>1. At(w, "loop") /\ kill' = kill /\ active' = active
          BY <4>1 DEF Loop, client
        <5>2. CASE active = 0
          BY <2>2, <3>1, <4>1, <5>1, <5>2 DEF Loop, KnownThread
        <5>3. CASE active # 0
          BY <3>1, <4>1, <5>1, <5>3 DEF Loop
        <5>4. QED BY <5>2, <5>3
      <4>2. CASE Killed(w)
        BY <3>1, <4>2 DEF Killed, client
      <4>3. CASE NotKilled(w)
        <5>1. At(w, "test") /\ ~kill /\ kill' = kill /\ active' = active
          BY <4>3 DEF NotKilled, client
        <5>2. \E pc \in {"fetch", "work"} : \E data : Goto(w, pc, data)
          BY <4>3, Zenon DEF NotKilled
        <5>3. QED BY <3>1, <5>1, <5>2
      <4>4. QED BY <3>4, <4>1, <4>2, <4>3
    <3>5. CASE Fetch(w)
      <4>1. At(w, "fetch") /\ kill' = kill /\ active' = active
        BY <3>5 DEF Fetch, client
      <4>2. \E pc \in {"work", "idle"} : \E data : Goto(w, pc, data)
        BY <2>1, <3>5, Zenon DEF Fetch
      <4>3. QED BY <3>1, <4>1, <4>2
    <3>6. CASE PollBegin(w)
      BY <3>1, <3>6 DEF PollBegin, client
    <3>7. CASE PollEnd(w)
      <4>1. At(w, "poll") /\ active' = 1
        BY <3>7 DEF PollEnd
      <4>2. kill => kill'
        BY <3>7 DEF PollEnd
      <4>3. \E pc \in {"loop", "work"} : \E data : Goto(w, pc, data)
        BY <3>7, Zenon DEF PollEnd
      <4>4. QED BY <3>1, <4>1, <4>2, <4>3
    <3>8. CASE DropOld(w)
      BY <3>1, <3>8 DEF DropOld, client
    <3>9. CASE Handle(w)
      BY <3>1, <3>9 DEF Handle, client
    <3>10. CASE HandleEnd(w)
      <4>1. kill => kill'
        BY <3>10 DEF HandleEnd
      <4>2. QED BY <3>1, <3>10, <4>1 DEF HandleEnd
    <3>11. CASE Ending(w) \/ Again(w)
      <4>1. worker[w].pc \in Leaving /\ kill /\ kill' = kill
        BY <2>2, <3>11 DEF Ending, Again, client, EndsWhenKilled
      <4>2. \E pc \in {"again", "exit", "loop"} : \E data : Goto(w, pc, data)
        BY <3>11, Zenon DEF Ending, Again
      <4>3. QED BY <3>1, <4>1, <4>2
    <3>12. CASE Exit(w)
      BY <2>2, <3>1, <3>12 DEF Exit, client, EndsWhenKilled
    <3>13. CASE Free(w)
      BY <2>2, <3>1, <3>13 DEF Free, EndsWhenKilled
    <3>14. CASE ExitInHandler(w)
      BY <3>1, <3>14 DEF ExitInHandler
    <3>15. QED
      BY <2>6, <3>2, <3>3, <3>4, <3>5, <3>6, <3>7, <3>8, <3>9, <3>10, <3>11, <3>12, <3>13, <3>14 DEF Work
  <2>7. ASSUME NEW j \in Jobs, AddJobBegin(j) \/ Enqueue(j) \/ StartFails(j) PROVE SocketInv'
    <3>1. worker' = worker /\ kill' = kill /\ (active' = 1 \/ active' = active)
      BY <2>7 DEF AddJobBegin, Enqueue, StartFails, client
    <3>2. QED BY <2>4, <3>1
  <2>8. CASE KillFlagSet
    BY <2>4, <2>8 DEF KillFlagSet
  <2>9. CASE UNCHANGED vars
    BY <2>4, <2>9 DEF vars, client
  <2>10. QED
    BY <2>5, <2>6, <2>7, <2>8, <2>9 DEF Next, AddJobEnd
<1>3. QED BY <1>1, <1>2, TypeInductive, PTL DEF Spec

\* For every set of jobs and threads, no two threads of a client with a socket
\* handle jobs at the same time, also after the client was killed and add_job
\* started more of them.
THEOREM OneHandlerAtATime == Spec => []OneHandler
<1>1. SocketInv => OneHandler
  BY DEF SocketInv, OneInner, OneHandler, At, Inner
<1>2. QED BY <1>1, SocketAlways, PTL

----------------------------------------------------------------------------
(* The order of the jobs *)

\* a was added before b
Before(a, b) ==
    \E m, n \in DOMAIN accepted : m < n /\ accepted[m] = a /\ accepted[n] = b
Added(a) == \E n \in DOMAIN accepted : accepted[n] = a

\* The thread has a job that it will handle
InHand(w) ==
    /\ worker[w].data \in Jobs
    /\ At(w, "work") \/ (worker[w].pc \in {"start", "loop", "test"} /\ ~kill)

\* What was handled, what is in hand and what is in the list were added in this
\* order
HandledInv == /\ \A i \in DOMAIN handled : Added(handled[i])
              /\ \A i, k \in DOMAIN handled : i < k => Before(handled[i], handled[k])
ListInv == /\ \A k \in DOMAIN jobs : Added(jobs[k])
           /\ \A i, k \in DOMAIN jobs : i < k => Before(jobs[i], jobs[k])
           /\ \A i \in DOMAIN handled, k \in DOMAIN jobs : Before(handled[i], jobs[k])
InHandInv ==
    \A w \in Workers : InHand(w) =>
        /\ Added(worker[w].data)
        /\ \A i \in DOMAIN handled : Before(handled[i], worker[w].data)
        /\ \A k \in DOMAIN jobs : Before(worker[w].data, jobs[k])

\* A thread is started for a client with a socket only when the list is empty
IdleInv == ~kill /\ active = 0 => jobs = <<>>

OrderInv == socket => HandledInv /\ ListInv /\ InHandInv /\ IdleInv

\* One job at a time is in hand, and none while a thread takes one.
LEMMA OneInHand ==
    ASSUME SocketInv, socket, NEW v \in Workers, NEW w \in Workers, InHand(v),
           InHand(w) \/ At(w, "fetch")
    PROVE  v = w
BY Zenon DEF SocketInv, Alone, OneInner, InHand, At, Inner

\* What was added stays in its order when one more is added, behind all others.
LEMMA AddedLast ==
    ASSUME accepted \in Seq(Jobs), NEW j \in Jobs, accepted' = Append(accepted, j)
    PROVE  /\ \A a : Added(a) => Added(a)' /\ Before(a, j)'
           /\ \A a, b : Before(a, b) => Before(a, b)'
           /\ Added(j)'
<1>1. /\ DOMAIN accepted = 1 .. Len(accepted) /\ Len(accepted) \in Nat
      /\ DOMAIN accepted' = 1 .. Len(accepted) + 1
      /\ accepted'[Len(accepted) + 1] = j
      /\ \A n \in DOMAIN accepted : accepted'[n] = accepted[n]
  OBVIOUS
<1>2. QED BY <1>1 DEF Added, Before

\* The kill flag stays, and so does the socket.
LEMMA FlagsStay ==
    ASSUME [Next]_vars
    PROVE  socket' = socket /\ (kill => kill')
<1>1. socket' = socket
  BY DEF Next, AddJobBegin, AddJobEnd, Enqueue, StartThread, StartFails, KillFlagSet, Work,
     Start, StartNoBuffer, Loop, Killed, NotKilled, Fetch, PollBegin, PollEnd, DropOld, Handle, HandleEnd,
     ExitInHandler, Ending, Again, Exit, Free, vars, client
<1>2. ASSUME NEW w \in Workers, HandleEnd(w), kill PROVE kill'
  <2>1. kill' = (kill \/ worker[w].data = KillJob) \/ kill' = TRUE
    BY <1>2, Zenon DEF HandleEnd
  <2>2. QED BY <1>2, <2>1, Zenon
<1>3. ASSUME NEW w \in Workers, ~HandleEnd(w), Work(w) PROVE kill' \in {kill, TRUE}
  BY <1>3 DEF Work, Start, StartNoBuffer, Loop, Killed, NotKilled, Fetch, PollBegin, PollEnd, DropOld, Handle,
     ExitInHandler, Ending, Again, Exit, Free, client
<1>4. (\E w \in Workers : Work(w)) \/ kill' \in {kill, TRUE}
  BY DEF Next, AddJobBegin, AddJobEnd, Enqueue, StartThread, StartFails, KillFlagSet,
     vars, client
<1>5. kill => kill'
  <2>1. kill' \in {kill, TRUE} => (kill => kill')
    BY Zenon
  <2>2. QED BY <1>2, <1>3, <1>4, <2>1, Zenon
<1>6. QED BY <1>1, <1>5

\* A step that takes nothing in hand, adds nothing and hands nothing out.
LEMMA OrderKept ==
    ASSUME OrderInv, socket, socket' = socket, kill => kill',
           handled' = handled, accepted' = accepted, jobs' \in {jobs, <<>>},
           \A w \in Workers : InHand(w)' => InHand(w) /\ worker'[w].data = worker[w].data,
           active' # 0 \/ active' = active \/ kill'
    PROVE  OrderInv'
<1>1. HandledInv /\ ListInv /\ InHandInv /\ IdleInv
  BY Zenon DEF OrderInv
<1>2. DOMAIN jobs' \subseteq DOMAIN jobs /\ \A k \in DOMAIN jobs' : jobs'[k] = jobs[k]
  OBVIOUS
<1>3. /\ \A a : Added(a)' <=> Added(a)
      /\ \A a, b : Before(a, b)' <=> Before(a, b)
  BY DEF Added, Before
<1>4. HandledInv'
  BY <1>1, <1>3 DEF HandledInv
<1>5. ListInv'
  BY <1>1, <1>2, <1>3 DEF ListInv
<1>6. InHandInv'
  BY <1>1, <1>2, <1>3 DEF InHandInv
<1>7. IdleInv'
  BY <1>1 DEF IdleInv
<1>8. QED BY <1>4, <1>5, <1>6, <1>7, Zenon DEF OrderInv

\* add_job puts the job behind all others.
LEMMA EnqueueKeepsOrder ==
    ASSUME TypeInv, OrderInv, socket, NEW j \in Jobs, Enqueue(j)
    PROVE  OrderInv'
<1>1. HandledInv /\ ListInv /\ InHandInv
  BY Zenon DEF OrderInv
<1>2. /\ jobs' = Append(jobs, j) /\ accepted' = Append(accepted, j)
      /\ handled' = handled /\ worker' = worker /\ kill' = kill
      /\ jobs \in Seq(Jobs) /\ accepted \in Seq(Jobs)
      /\ active' = active /\ active # 0
  BY DEF Enqueue, TypeInv, ListType, Served
<1>3. /\ \A a : Added(a) => Added(a)' /\ Before(a, j)'
      /\ \A a, b : Before(a, b) => Before(a, b)'
      /\ Added(j)'
  BY <1>2, AddedLast
<1>4. /\ DOMAIN jobs = 1 .. Len(jobs) /\ Len(jobs) \in Nat
      /\ DOMAIN jobs' = 1 .. Len(jobs) + 1 /\ jobs'[Len(jobs) + 1] = j
      /\ \A k \in DOMAIN jobs : jobs'[k] = jobs[k]
  BY <1>2
<1>5. HandledInv'
  BY <1>1, <1>2, <1>3 DEF HandledInv
<1>6. ListInv'
  BY <1>1, <1>2, <1>3, <1>4 DEF ListInv, HandledInv
<1>7. InHandInv'
  BY <1>1, <1>2, <1>3, <1>4 DEF InHandInv, InHand, At
<1>8. IdleInv'
  BY <1>2 DEF IdleInv
<1>9. QED BY <1>5, <1>6, <1>7, <1>8, Zenon DEF OrderInv

\* A thread that is started has the only job there is, or will not handle it.
LEMMA StartKeepsOrder ==
    ASSUME TypeInv, SocketInv, OrderInv, socket, NEW j \in Jobs, StartThread(j)
    PROVE  OrderInv'
<1>1. HandledInv /\ ListInv /\ InHandInv /\ IdleInv
  BY Zenon DEF OrderInv
<1>2. PICK w \in Workers \ Alive : Goto(w, "start", j)
  BY DEF StartThread
<1>3. /\ accepted' = Append(accepted, j) /\ accepted \in Seq(Jobs)
      /\ handled' = handled /\ jobs' = jobs /\ kill' = kill /\ active' = 1
  BY DEF StartThread, client, TypeInv, ListType
<1>4. /\ \A a : Added(a) => Added(a)' /\ Before(a, j)'
      /\ \A a, b : Before(a, b) => Before(a, b)'
      /\ Added(j)'
  BY <1>3, AddedLast
<1>5. /\ worker'[w].pc = "start" /\ worker'[w].data = j
      /\ \A v \in Workers \ {w} : worker'[v] = worker[v]
  BY <1>2 DEF Goto, TypeInv, ThreadType
<1>6. ~kill => jobs = <<>>
  BY <1>1 DEF StartThread, Served, IdleInv
<1>7. HandledInv'
  BY <1>1, <1>3, <1>4 DEF HandledInv
<1>8. ListInv'
  BY <1>1, <1>3, <1>4 DEF ListInv
<1>9. InHandInv'
  <2>1. ASSUME NEW v \in Workers \ {w}, InHand(v)'
        PROVE  /\ Added(worker[v].data)
               /\ \A i \in DOMAIN handled : Before(handled[i], worker[v].data)
               /\ \A k \in DOMAIN jobs : Before(worker[v].data, jobs[k])
    BY <1>1, <1>3, <1>5, <2>1 DEF InHandInv, InHand, At
  <2>2. ASSUME InHand(w)' PROVE jobs = <<>>
    BY <1>3, <1>5, <1>6, <2>2 DEF InHand, At
  <2>3. \A i \in DOMAIN handled : Added(handled[i])
    BY <1>1 DEF HandledInv
  <2>4. QED BY <1>3, <1>4, <1>5, <2>1, <2>2, <2>3 DEF InHandInv
<1>10. IdleInv'
  BY <1>3 DEF IdleInv
<1>11. QED BY <1>7, <1>8, <1>9, <1>10, Zenon DEF OrderInv

\* The job that is taken out of the list was added before the rest of it.
LEMMA FetchKeepsOrder ==
    ASSUME TypeInv, SocketInv, OrderInv, socket, NEW w \in Workers, Fetch(w), MoreJobs
    PROVE  OrderInv'
<1>1. HandledInv /\ ListInv /\ InHandInv
  BY Zenon DEF OrderInv
<1>2. /\ Goto(w, "work", jobs[1]) /\ jobs' = RemoveAt(jobs, 1) /\ At(w, "fetch")
      /\ handled' = handled /\ accepted' = accepted /\ kill' = kill /\ active' = active
  BY DEF Fetch, NextIndex, client, lists
<1>3. jobs \in Seq(Jobs) /\ Len(jobs) \in Nat /\ Len(jobs) > 0
  BY DEF TypeInv, ListType, MoreJobs
<1>4. jobs' = SubSeq(jobs, 2, Len(jobs))
  BY <1>2, <1>3 DEF RemoveAt
<1>5. /\ DOMAIN jobs = 1 .. Len(jobs) /\ DOMAIN jobs' = 1 .. Len(jobs) - 1
      /\ \A k \in DOMAIN jobs' : jobs'[k] = jobs[k + 1]
  BY <1>3, <1>4
<1>6. /\ worker'[w].pc = "work" /\ worker'[w].data = jobs[1]
      /\ \A v \in Workers \ {w} : worker'[v] = worker[v]
  BY <1>2 DEF Goto, TypeInv, ThreadType
<1>7. /\ \A a : Added(a)' <=> Added(a)
      /\ \A a, b : Before(a, b)' <=> Before(a, b)
  BY <1>2 DEF Added, Before
<1>8. HandledInv'
  BY <1>1, <1>2, <1>7 DEF HandledInv
<1>9. ListInv'
  BY <1>1, <1>2, <1>5, <1>7 DEF ListInv
<1>10. \A v \in Workers : InHand(v)' => v = w
  <2>1. \A v \in Workers : InHand(v) => v = w
    BY <1>2, OneInHand
  <2>2. QED BY <1>2, <1>6, <2>1 DEF InHand, At
<1>11. /\ Added(jobs[1])
       /\ \A i \in DOMAIN handled : Before(handled[i], jobs[1])
       /\ \A k \in DOMAIN jobs' : Before(jobs[1], jobs'[k])
  BY <1>1, <1>3, <1>5 DEF ListInv
<1>12. InHandInv'
  BY <1>2, <1>6, <1>7, <1>10, <1>11 DEF InHandInv
<1>13. IdleInv'
  BY <1>2, <1>3 DEF IdleInv, OrderInv
<1>14. QED BY <1>8, <1>9, <1>12, <1>13, Zenon DEF OrderInv

\* The job that is handled was added after all that were handled before.
LEMMA HandleKeepsOrder ==
    ASSUME TypeInv, SocketInv, OrderInv, socket, NEW w \in Workers, Handle(w)
    PROVE  OrderInv'
<1> DEFINE d == worker[w].data
<1>1. HandledInv /\ ListInv /\ InHandInv /\ IdleInv
  BY Zenon DEF OrderInv
<1>2. /\ At(w, "work") /\ Goto(w, "busy", d)
      /\ jobs' = jobs /\ accepted' = accepted /\ kill' = kill /\ active' = active
  BY DEF Handle, client
<1>3. /\ worker'[w].pc = "busy"
      /\ \A v \in Workers \ {w} : worker'[v] = worker[v]
  BY <1>2 DEF Goto, TypeInv, ThreadType
<1>4. /\ \A a : Added(a)' <=> Added(a)
      /\ \A a, b : Before(a, b)' <=> Before(a, b)
  BY <1>2 DEF Added, Before
<1>5. IdleInv'
  BY <1>1, <1>2 DEF IdleInv
<1>6. CASE d \notin Jobs
  <2>1. handled' = handled
    BY <1>6 DEF Handle
  <2>2. \A v \in Workers : InHand(v)' => InHand(v) /\ worker'[v].data = worker[v].data
    BY <1>2, <1>3 DEF InHand, At
  <2>3. HandledInv' /\ ListInv'
    BY <1>1, <1>2, <1>4, <2>1 DEF HandledInv, ListInv
  <2>4. InHandInv'
    BY <1>1, <1>2, <1>4, <2>1, <2>2 DEF InHandInv
  <2>5. QED BY <1>5, <2>3, <2>4, Zenon DEF OrderInv
<1>7. CASE d \in Jobs
  <2>1. handled' = Append(handled, d) /\ handled \in Seq(Jobs)
    BY <1>7 DEF Handle, TypeInv, ListType
  <2>2. /\ DOMAIN handled = 1 .. Len(handled) /\ Len(handled) \in Nat
        /\ DOMAIN handled' = 1 .. Len(handled) + 1 /\ handled'[Len(handled) + 1] = d
        /\ \A i \in DOMAIN handled : handled'[i] = handled[i]
    BY <2>1
  <2>3. InHand(w)
    BY <1>2, <1>7 DEF InHand
  <2>4. /\ Added(d)
        /\ \A i \in DOMAIN handled : Before(handled[i], d)
        /\ \A k \in DOMAIN jobs : Before(d, jobs[k])
    BY <1>1, <2>3 DEF InHandInv
  <2> HIDE DEF d
  <2>5. HandledInv'
    BY <1>1, <1>4, <2>2, <2>4 DEF HandledInv
  <2>6. ListInv'
    BY <1>1, <1>2, <1>4, <2>2, <2>4 DEF ListInv
  <2>7. \A v \in Workers : ~InHand(v)'
    <3>1. \A v \in Workers : InHand(v) => v = w
      BY <2>3, OneInHand
    <3>2. QED BY <1>2, <1>3, <3>1 DEF InHand, At
  <2>8. InHandInv'
    BY <2>7 DEF InHandInv
  <2>9. QED BY <1>5, <2>5, <2>6, <2>8, Zenon DEF OrderInv
<1>8. QED BY <1>6, <1>7

\* The other steps of a thread.
LEMMA WorkKeepsOrder ==
    ASSUME TypeInv, SocketInv, OrderInv, [Next]_vars, socket, NEW w \in Workers, Work(w),
           ~Handle(w), ~(Fetch(w) /\ MoreJobs)
    PROVE  OrderInv'
<1>1. socket' = socket /\ (kill => kill')
  BY FlagsStay
<1>2. worker[w].pc \in Leaving => kill
  BY Zenon DEF SocketInv, EndsWhenKilled
<1>3. /\ handled' = handled /\ accepted' = accepted
      /\ jobs' \in {jobs, <<>>}
  BY Zenon DEF Work, Start, StartNoBuffer, Loop, Killed, NotKilled, Fetch, PollBegin, PollEnd, DropOld,
     HandleEnd, ExitInHandler, Ending, Again, Exit, Free, lists
<1>4. ASSUME NEW pc \in States, NEW data, Goto(w, pc, data),
             data \in Jobs /\ (pc = "work" \/ (pc \in {"start", "loop", "test"} /\ ~kill'))
               => InHand(w) /\ data = worker[w].data,
             active' # 0 \/ active' = active \/ kill'
      PROVE  OrderInv'
  <2>1. /\ worker'[w].pc = pc /\ worker'[w].data = data
        /\ \A v \in Workers \ {w} : worker'[v] = worker[v]
    BY <1>4 DEF Goto, TypeInv, ThreadType
  <2>2. \A v \in Workers \ {w} : InHand(v)' => InHand(v)
    BY <1>1, <2>1 DEF InHand, At
  <2>3. InHand(w)' => InHand(w) /\ data = worker[w].data
    BY <1>4, <2>1 DEF InHand, At
  <2>4. \A v \in Workers : InHand(v)' => InHand(v) /\ worker'[v].data = worker[v].data
    BY <2>1, <2>2, <2>3
  <2>5. QED BY <1>1, <1>3, <1>4, <2>4, OrderKept
<1> USE JobsAssumption DEF States
<1>5. CASE Start(w)
  BY <1>1, <1>4, <1>5 DEF Start, InHand, At
<1>6. CASE StartNoBuffer(w)
  BY <1>4, <1>6 DEF StartNoBuffer
<1>7. CASE Loop(w)
  <2>1. At(w, "loop") /\ kill' = kill /\ active' = active
    BY <1>7 DEF Loop, client
  <2>2. \E pc \in {"ending", "test"} : Goto(w, pc, worker[w].data)
    BY <1>7, Zenon DEF Loop
  <2>3. QED BY <1>4, <2>1, <2>2 DEF InHand, At
<1>8. CASE Killed(w)
  BY <1>1, <1>4, <1>8 DEF Killed
<1>9. CASE NotKilled(w)
  <2>1. At(w, "test") /\ ~kill /\ active' = active
    BY <1>9 DEF NotKilled
  <2>2. \E pc \in {"fetch", "work"} : Goto(w, pc, worker[w].data)
    BY <1>9, Zenon DEF NotKilled
  <2>3. QED BY <1>4, <2>1, <2>2 DEF InHand, At
<1>10. CASE Fetch(w)
  <2>1. active' = active
    BY <1>10 DEF Fetch
  <2>2. \E pc \in {"idle", "ending"} : Goto(w, pc, NoJob)
    BY <1>10, Zenon DEF Fetch
  <2>3. QED BY <1>4, <2>1, <2>2
<1>11. CASE PollBegin(w)
  BY <1>4, <1>11 DEF PollBegin
<1>12. CASE PollEnd(w)
  <2>1. active' = 1
    BY <1>12 DEF PollEnd
  <2>2. Goto(w, "loop", NoJob) \/ Goto(w, "work", Event)
    BY <1>12, Zenon DEF PollEnd
  <2>3. QED BY <1>4, <2>1, <2>2
<1>13. CASE DropOld(w)
  BY <1>4, <1>13 DEF DropOld
<1>14. CASE HandleEnd(w)
  BY <1>4, <1>14 DEF HandleEnd
<1>15. CASE ExitInHandler(w)
  BY <1>4, <1>15 DEF ExitInHandler
<1>16. CASE Ending(w)
  <2>1. kill
    BY <1>2, <1>16 DEF Ending, Leaving, At
  <2>2. \E pc \in {"again", "exit"} : Goto(w, pc, worker[w].data)
    BY <1>16, Zenon DEF Ending
  <2>3. QED BY <1>1, <1>4, <2>1, <2>2
<1>17. CASE Again(w)
  <2>1. kill
    BY <1>2, <1>17 DEF Again, Leaving, At
  <2>2. \E pc \in {"loop", "exit"} : Goto(w, pc, worker[w].data)
    BY <1>17, Zenon DEF Again
  <2>3. QED BY <1>1, <1>4, <2>1, <2>2
<1>18. CASE Exit(w)
  <2>1. kill
    BY <1>2, <1>18 DEF Exit, Leaving, At
  <2>2. QED BY <1>1, <1>4, <1>18, <2>1 DEF Exit
<1>19. CASE Free(w)
  BY <1>4, <1>19 DEF Free
<1>20. QED
  BY <1>5, <1>6, <1>7, <1>8, <1>9, <1>10, <1>11, <1>12, <1>13, <1>14, <1>15, <1>16, <1>17, <1>18, <1>19
     DEF Work

\* The jobs of a client with a socket are handled in the order add_job took
\* them and each at most once, whoever adds them and whenever threads end, are
\* started or fail (add_job and work_thread).
THEOREM JobsInOrder == Spec => []HandledInOrder
<1>1. Init => OrderInv
  BY DEF Init, OrderInv, HandledInv, ListInv, InHandInv, IdleInv, InHand, At
<1>2. TypeInv /\ SocketInv /\ OrderInv /\ [Next]_vars => OrderInv'
  <2> SUFFICES ASSUME TypeInv, SocketInv, OrderInv, [Next]_vars, socket' PROVE OrderInv'
    BY Zenon DEF OrderInv
  <2>1. socket /\ socket' = socket /\ (kill => kill')
    BY FlagsStay
  <2>2. ASSUME NEW j \in Jobs, AddJobBegin(j) \/ StartFails(j) PROVE OrderInv'
    <3>1. /\ worker' = worker /\ jobs' = jobs /\ handled' = handled /\ accepted' = accepted
          /\ kill' = kill /\ (active' = 1 \/ active' = active)
      BY <2>2 DEF AddJobBegin, StartFails, client, lists
    <3>2. QED BY <2>1, <3>1, OrderKept DEF InHand, At
  <2>3. ASSUME NEW j \in Jobs, AddJobEnd(j) PROVE OrderInv'
    BY <2>1, <2>2, <2>3, EnqueueKeepsOrder, StartKeepsOrder DEF AddJobEnd
  <2>4. CASE KillFlagSet
    <3>1. /\ worker' = worker /\ jobs' = jobs /\ handled' = handled /\ accepted' = accepted
          /\ active' = active
      BY <2>4 DEF KillFlagSet, lists
    <3>2. QED BY <2>1, <3>1, OrderKept DEF InHand, At
  <2>5. ASSUME NEW w \in Workers, Work(w) PROVE OrderInv'
    BY <2>1, <2>5, FetchKeepsOrder, HandleKeepsOrder, WorkKeepsOrder
  <2>6. CASE UNCHANGED vars
    <3>1. /\ worker' = worker /\ jobs' = jobs /\ handled' = handled /\ accepted' = accepted
          /\ kill' = kill /\ active' = active
      BY <2>6 DEF vars, client, lists
    <3>2. QED BY <2>1, <3>1, OrderKept DEF InHand, At
  <2>7. QED BY <2>2, <2>3, <2>4, <2>5, <2>6 DEF Next
<1>3. OrderInv /\ TypeInv => HandledInOrder
  <2> SUFFICES ASSUME HandledInv, handled \in Seq(Jobs), accepted \in Seq(Jobs),
                      NEW i \in 1 .. Len(handled), NEW k \in 1 .. Len(handled), i < k
               PROVE  \E m, n \in 1 .. Len(accepted) :
                         m < n /\ accepted[m] = handled[i] /\ accepted[n] = handled[k]
    BY DEF OrderInv, TypeInv, ListType, HandledInOrder
  <2>1. Before(handled[i], handled[k])
    BY DEF HandledInv
  <2>2. QED BY <2>1 DEF Before
<1>4. QED BY <1>1, <1>2, <1>3, TypeInductive, SocketAlways, PTL DEF Spec
============================================================================
