----------------------------- MODULE WorkThread -----------------------------
(***************************************************************************)
(* The job list of one client and the threads that work on it (ncam-work.c *)
(* and kill_thread of ncam.c).  Any thread adds jobs; add_job starts a     *)
(* work thread when thread_active says that there is none.  The thread of  *)
(* a client with a socket polls when it has nothing to do; the thread of a *)
(* client without one, a local card reader for instance, ends.             *)
(*                                                                         *)
(* One step is what runs under thread_lock, or one access to the client    *)
(* without it.  Jobs that are too old are dropped: which ones is left      *)
(* open.  Not modelled: what a job does, but for ending the client, the    *)
(* limit of the cache push jobs, and the job without action or for another *)
(* kind of client, which ends the inner loop and which no caller adds.     *)
(* The socket does not change: a proxy reader, which opens and closes one  *)
(* while its thread runs, is left out.                                     *)
(***************************************************************************)
EXTENDS Integers, SequencesExt

CONSTANTS
    Jobs,       \* the jobs that are added, each once
    KillJob,    \* ACTION_CLIENT_KILL, the one kill_thread adds
    NoJob,      \* data == NULL
    Event,      \* tmp_data: poll found something on the socket
    Workers,    \* bound on the work threads of the client at a time
    Sockets,    \* whether the client has a socket to poll
    MayFail     \* whether start_thread may fail

ASSUME JobsAssumption == KillJob \in Jobs /\ {NoJob, Event} \cap Jobs = {} /\ NoJob # Event
ASSUME ClientAssumption == Sockets \subseteq BOOLEAN /\ MayFail \in BOOLEAN

VARIABLES
    socket,    \* the client has a socket
    jobs,      \* cl->joblist
    active,    \* cl->thread_active: 0 no thread, 1 working, 2 polling
    kill,      \* cl->kill
    freed,     \* cl->kill_started: free_client has run
    worker,    \* each work thread: where it is and its `data'
    adding,    \* jobs whose add_job has tested cl->kill, outside the lock
    accepted,  \* jobs in the order add_job took them
    handled,   \* jobs in the order they were begun
    dropped,   \* jobs that were freed instead
    failed     \* start_thread has failed

client == <<socket, kill, freed>>
lists == <<accepted, handled, dropped>>
vars == <<client, jobs, active, worker, adding, lists, failed>>

Known == ToSet(accepted) \cup dropped

Alive == {w \in Workers : worker[w].pc # "none"}
At(w, pc) == worker[w].pc = pc
Goto(w, pc, data) == worker' = [worker EXCEPT ![w] = [pc |-> pc, data |-> data]]

----------------------------------------------------------------------------
Init ==
    /\ socket \in Sockets
    /\ jobs = <<>> /\ active = 0 /\ kill = FALSE /\ freed = FALSE
    /\ worker = [w \in Workers |-> [pc |-> "none", data |-> NoJob]]
    /\ adding = {} /\ accepted = <<>> /\ handled = <<>> /\ dropped = {}
    /\ failed = FALSE

\* add_job until it waits for the lock
AddJobBegin(j) ==
    /\ j \notin Known \cup adding /\ ~kill
    /\ adding' = adding \cup {j}
    /\ UNCHANGED <<client, jobs, active, worker, lists, failed>>

\* add_job under the lock: the job is queued for the thread that works or
\* polls (mutant: a thread that polls does not count)
MutServed == ~kill /\ active = 1
Served == ~kill /\ active # 0

Enqueue(j) ==
    /\ j \in adding /\ Served
    /\ jobs' = Append(jobs, j)
    /\ accepted' = Append(accepted, j)
    /\ adding' = adding \ {j}
    /\ UNCHANGED <<socket, kill, freed, active, worker, handled, dropped, failed>>

\* ... or a thread is started, with the job as its first data
StartThread(j) ==
    /\ j \in adding /\ ~Served
    /\ \E w \in Workers \ Alive : Goto(w, "start", j)
    /\ active' = 1
    /\ accepted' = Append(accepted, j)
    /\ adding' = adding \ {j}
    /\ UNCHANGED <<client, jobs, handled, dropped, failed>>

StartFails(j) ==
    /\ MayFail
    /\ j \in adding /\ ~Served
    /\ active' = 1
    /\ failed' = TRUE
    /\ dropped' = dropped \cup {j}
    /\ adding' = adding \ {j}
    /\ UNCHANGED <<client, jobs, worker, accepted, handled>>

\* kill_thread: "add kill job, then set kill flag" (mutant: the flag only)
MutKillFlagSet ==
    /\ ~kill /\ KillJob \notin Known /\ kill' = TRUE
    /\ UNCHANGED <<socket, freed, jobs, active, worker, adding, lists, failed>>
KillFlagSet ==
    /\ ~kill /\ KillJob \in Known /\ kill' = TRUE
    /\ UNCHANGED <<socket, freed, jobs, active, worker, adding, lists, failed>>

----------------------------------------------------------------------------
(* work_thread *)

Start(w) ==
    /\ At(w, "start")
    /\ active' = 1
    /\ Goto(w, "loop", worker[w].data)
    /\ UNCHANGED <<client, jobs, adding, lists, failed>>

\* there is no memory for the buffer: the thread returns at once
StartNoBuffer(w) ==
    /\ MayFail
    /\ At(w, "start")
    /\ active' = 1
    /\ failed' = TRUE
    /\ dropped' = dropped \cup {worker[w].data}
    /\ Goto(w, "none", NoJob)
    /\ UNCHANGED <<client, jobs, adding, accepted, handled>>

\* The head of the inner loop looks at thread_active, and then at the kill flag
Loop(w) ==
    /\ At(w, "loop")
    /\ Goto(w, IF active = 0 THEN "ending" ELSE "test", worker[w].data)
    /\ UNCHANGED <<client, jobs, active, adding, lists, failed>>

Killed(w) ==
    /\ At(w, "test") /\ kill
    /\ active' = 0
    /\ dropped' = dropped \cup ({worker[w].data} \cap Jobs)
    /\ Goto(w, "freeing", NoJob)
    /\ UNCHANGED <<client, jobs, adding, accepted, handled, failed>>

NotKilled(w) ==
    /\ At(w, "test") /\ ~kill
    /\ Goto(w, IF worker[w].data = NoJob THEN "fetch" ELSE "work", worker[w].data)
    /\ UNCHANGED <<client, jobs, active, adding, lists, failed>>

\* The next job, or else the poll, or the end of a thread without a socket
\* (mutants: the job added last; the last job of the list is left in it)
MutNextIndex == Len(jobs)
NextIndex == 1
MutMoreJobs == Len(jobs) > 1
MoreJobs == Len(jobs) > 0
Fetch(w) ==
    /\ At(w, "fetch")
    /\ IF MoreJobs THEN /\ Goto(w, "work", jobs[NextIndex])
                        /\ jobs' = RemoveAt(jobs, NextIndex)
       ELSE /\ Goto(w, IF socket THEN "idle" ELSE "ending", NoJob)
            /\ UNCHANGED jobs
    /\ UNCHANGED <<client, active, adding, lists, failed>>

PollBegin(w) ==
    /\ At(w, "idle")
    /\ active' = 2
    /\ Goto(w, "poll", NoJob)
    /\ UNCHANGED <<client, jobs, adding, lists, failed>>

\* poll returns: 3 s are over, a signal, data on the socket, or it was closed
PollEnd(w) ==
    /\ At(w, "poll")
    /\ active' = 1
    /\ \/ Goto(w, "loop", NoJob) /\ UNCHANGED kill
       \/ Goto(w, "work", Event) /\ kill' \in {kill, TRUE}
    /\ UNCHANGED <<socket, freed, jobs, adding, lists, failed>>

\* a job older than the client time-out and a second
DropOld(w) ==
    /\ At(w, "work") /\ worker[w].data \in Jobs
    /\ dropped' = dropped \cup {worker[w].data}
    /\ Goto(w, "loop", NoJob)
    /\ UNCHANGED <<client, jobs, active, adding, accepted, handled, failed>>

Handle(w) ==
    /\ At(w, "work")
    /\ handled' = IF worker[w].data \in Jobs THEN Append(handled, worker[w].data) ELSE handled
    /\ Goto(w, "busy", worker[w].data)
    /\ UNCHANGED <<client, jobs, active, adding, accepted, dropped, failed>>

\* the job is done; ACTION_CLIENT_KILL and a closed socket end the client
HandleEnd(w) ==
    /\ At(w, "busy")
    /\ kill' \in {kill \/ worker[w].data = KillJob} \cup (IF socket THEN {TRUE} ELSE {})
    /\ Goto(w, "loop", NoJob)
    /\ UNCHANGED <<socket, freed, jobs, active, adding, lists, failed>>

\* the handler ends the client itself: cs_disconnect_client frees it and ends the
\* thread, which leaves thread_active as it was
ExitInHandler(w) ==
    /\ At(w, "busy") /\ worker[w].data # KillJob
    /\ kill' = TRUE /\ freed' = TRUE
    /\ IF freed THEN UNCHANGED <<jobs, dropped>>
                ELSE jobs' = <<>> /\ dropped' = dropped \cup ToSet(jobs)
    /\ Goto(w, "none", NoJob)
    /\ UNCHANGED <<socket, active, adding, accepted, handled, failed>>

\* "Check for some race condition where while we ended, another thread added a
\* job": back to the loop with a job in the list, otherwise the end
Ending(w) ==
    /\ At(w, "ending")
    /\ IF jobs # <<>> THEN Goto(w, "again", worker[w].data) /\ UNCHANGED active
                      ELSE Goto(w, "exit", worker[w].data) /\ active' = 0
    /\ UNCHANGED <<client, jobs, adding, lists, failed>>

Again(w) ==
    /\ At(w, "again")
    /\ Goto(w, IF active = 0 THEN "exit" ELSE "loop", worker[w].data)
    /\ UNCHANGED <<client, jobs, active, adding, lists, failed>>

\* the assignment behind the loop, without the lock (mutants: the thread is
\* still said to work; it is counted down)
MutActiveAtExit == 1
MutActiveDecrement == active - 1
ActiveAtExit == 0
Exit(w) ==
    /\ At(w, "exit")
    /\ active' = ActiveAtExit
    /\ dropped' = dropped \cup ({worker[w].data} \cap Jobs)
    /\ Goto(w, "none", NoJob)
    /\ UNCHANGED <<client, jobs, adding, accepted, handled, failed>>

\* free_client and free_joblist; a second one finds kill_started
Free(w) ==
    /\ At(w, "freeing")
    /\ freed' = TRUE
    /\ IF freed THEN UNCHANGED <<jobs, dropped>>
                ELSE jobs' = <<>> /\ dropped' = dropped \cup ToSet(jobs)
    /\ Goto(w, "none", NoJob)
    /\ UNCHANGED <<socket, kill, active, adding, accepted, handled, failed>>

----------------------------------------------------------------------------
AddJobEnd(j) == Enqueue(j) \/ StartThread(j) \/ StartFails(j)
Work(w) == \/ Start(w) \/ StartNoBuffer(w) \/ Loop(w) \/ Killed(w) \/ NotKilled(w)
           \/ Fetch(w) \/ PollBegin(w) \/ PollEnd(w)
           \/ DropOld(w) \/ Handle(w) \/ HandleEnd(w) \/ ExitInHandler(w)
           \/ Ending(w) \/ Again(w) \/ Exit(w) \/ Free(w)

Next ==
    \/ \E j \in Jobs : AddJobBegin(j) \/ AddJobEnd(j)
    \/ KillFlagSet
    \/ \E w \in Workers : Work(w)

Spec == Init /\ [][Next]_vars

\* Every thread is scheduled, and a poll returns after three seconds.
FairSpec ==
    /\ Spec
    /\ \A j \in Jobs : WF_vars(AddJobEnd(j))
    /\ WF_vars(KillFlagSet)
    /\ \A w \in Workers : WF_vars(Work(w))

----------------------------------------------------------------------------
States == {"none", "start", "loop", "test", "fetch", "idle", "poll", "work", "busy",
           "ending", "again", "exit", "freeing"}

\* Every variable has its type.
TypeOK ==
    /\ socket \in BOOLEAN /\ kill \in BOOLEAN /\ freed \in BOOLEAN /\ failed \in BOOLEAN
    /\ active \in 0 .. 2
    /\ worker \in [Workers -> [pc : States, data : Jobs \cup {NoJob, Event}]]
    /\ jobs \in Seq(Jobs) /\ accepted \in Seq(Jobs) /\ handled \in Seq(Jobs)
    /\ adding \subseteq Jobs /\ dropped \subseteq Jobs

\* thread_active says that there is a thread only while there is one, so that
\* no job is queued for nobody; unless a thread could not be started, or the
\* client is freed and takes no more jobs.
ActiveMeansAlive == active # 0 => Alive # {} \/ failed \/ freed

\* The jobs of a client with a socket are handled in the order they were added,
\* each at most once.
HandledInOrder ==
    socket => \A i, k \in 1 .. Len(handled) : i < k =>
        \E m, n \in 1 .. Len(accepted) :
           m < n /\ accepted[m] = handled[i] /\ accepted[n] = handled[k]

\* At most one thread of a client with a socket handles a job: what a client
\* keeps for its requests is used without locks.
OneHandler ==
    socket => \A v, w \in Workers : At(v, "busy") /\ At(w, "busy") => v = w

\* Every job of a client with a socket is handled or freed in the end.
EveryJobFinishes ==
    \A j \in Jobs : j \in ToSet(accepted) /\ socket
                    ~> j \in ToSet(handled) \cup dropped \/ failed

\* A client with a socket that is killed is freed, by its own thread, whatever
\* its thread is doing and also when it has none.
KilledIsFreed == kill /\ socket ~> freed \/ failed

\* work_thread: "Check for some race condition where while we ended, another
\* thread added a job".  No job stays in the list when all threads have ended.
NoJobStranded == Alive = {} => jobs = <<>>
============================================================================
