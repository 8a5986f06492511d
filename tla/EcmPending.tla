----------------------------- MODULE EcmPending -----------------------------
(***************************************************************************)
(* One ECM that several clients ask one reader for (ncam-reader.c,         *)
(* ncam-ecm.c).  reader_get_ecm looks in ecmcwcache for a request with the *)
(* same ECM that the reader was already asked for: the new one hangs on to *)
(* it, and distribute_ea gives its answer to all of them.  cw_process cuts *)
(* old requests off the list and gives them to the garbage collector; the  *)
(* pointers to them in queues, ecmtask and pending lists are not counted,  *)
(* only their age keeps them from being used after the free.               *)
(*                                                                         *)
(* Threads: the reader's (its queue and its answers), one for each client  *)
(* (get_cw, time-out), cw_process and the collector.  A reader with a      *)
(* socket has one thread at a time that handles jobs (WorkThread proves    *)
(* it); one without, a card, may have two or more, because a thread that   *)
(* ends clears thread_active once more without the lock (ncam-work.c:569). *)
(* Time is in seconds.  Not modelled: other readers, which is why a        *)
(* time-out need not come, the rate limiter, answers without               *)
(* REQUEST_ANSWERED ("localgenerated only"), the buckets of the garbage    *)
(* collector, an add_garbage without memory.                               *)
(***************************************************************************)
EXTENDS Integers, SequencesExt

CONSTANTS
    Requests,     \* ECM_REQUESTs with the same ECM, one for each client
    NoRequest,
    ReaderThreads, \* threads that run jobs of the reader
    Sockets,      \* whether the reader has a socket
    Ctimeout,     \* cfg.ctimeout, in seconds
    Arrivals,     \* bound: times at which requests come
    MaxTime       \* bound: the clock

ASSUME NamesAssumption == NoRequest \notin Requests /\ ReaderThreads \cap Requests = {}
ASSUME SocketAssumption == Sockets \subseteq BOOLEAN
ASSUME TimeAssumption ==
    {Ctimeout, MaxTime} \subseteq Nat

VARIABLES
    socket,    \* the reader has a socket
    now,
    tps,       \* the requests there are, with the time they came
    inserted,  \* those get_cw has put into the list
    order,     \* ecmcwcache, from its head
    ea,        \* the s_ecm_answer of the reader in each request
    queue,     \* joblist of the reader
    tasks,     \* ecmtask of the reader: requests that were sent
    found,     \* what reader_get_ecm of each thread found: request, host
    todo,      \* distribute_ea of each thread: requests and rc still to write
    cutting,   \* cw_process between its two locks: first old request, prv
    garbage,   \* requests with the collector, with the time they came there
    freed,
    late       \* a second passed since some thread was in the middle of something

vars == <<socket, now, tps, inserted, order, ea, queue, tasks, found, todo, cutting,
          garbage, freed, late>>

Threads == Requests \cup ReaderThreads
Age(r) == now - tps[r]
Answered(r) == ea[r].rc # "UNHANDLED"
Idle(t) == todo[t] = <<>> /\ (t \in ReaderThreads => found[t] = <<>>)
NoAnswer == [sent |-> FALSE, is_pending |-> FALSE, rc |-> "UNHANDLED", pending |-> <<>>]

\* Some thread is in the middle of something
Busy == inserted # DOMAIN tps \/ \E t \in Threads : ~Idle(t)

\* Thread t of the reader takes the next job, or an answer
Takes(t) == /\ t \in ReaderThreads /\ Idle(t)
            /\ socket => \A u \in ReaderThreads : Idle(u)

Init ==
    /\ socket \in Sockets
    /\ now = 0 /\ tps = <<>> /\ inserted = {} /\ order = <<>>
    /\ ea = [r \in Requests |-> NoAnswer]
    /\ queue = <<>> /\ tasks = {} /\ found = [t \in ReaderThreads |-> <<>>]
    /\ todo = [t \in Threads |-> <<>>]
    /\ cutting = <<>> /\ garbage = <<>> /\ freed = {} /\ late = FALSE

\* Bounds: a thread needs at most two seconds from the one step to the next,
\* cw_process and the collector, which look every second or more often, are at
\* most one second late
Tick ==
    /\ now < MaxTime /\ ~(Busy /\ late)
    /\ \A i \in DOMAIN order : Age(order[i]) <= Ctimeout + 4
    /\ \A r \in DOMAIN garbage \ freed : now - garbage[r] <= 2 * Ctimeout + 7
    /\ now' = now + 1
    /\ late' = Busy
    /\ UNCHANGED <<socket, tps, inserted, order, ea, queue, tasks, found, todo, cutting,
                   garbage, freed>>

----------------------------------------------------------------------------
(* The client: get_cw, request_cw_from_readers *)

\* get_ecmtask
Receive(r) ==
    /\ r \notin DOMAIN tps /\ now \in Arrivals
    /\ tps' = [x \in DOMAIN tps \cup {r} |-> IF x = r THEN now ELSE tps[x]]
    /\ UNCHANGED <<socket, now, inserted, order, ea, queue, tasks, found, todo, cutting,
                   garbage, freed, late>>

Insert(r) ==
    /\ r \in DOMAIN tps \ inserted
    /\ inserted' = inserted \cup {r}
    /\ order' = <<r>> \o order
    /\ UNCHANGED <<socket, now, tps, ea, queue, tasks, found, todo, cutting, garbage,
                   freed, late>>

\* REQUEST_SENT is set before the job is added.  A reader of a later stage
\* is asked later, but not after the client time-out.
Ask(r) ==
    /\ r \in inserted /\ ~ea[r].sent /\ Age(r) <= Ctimeout
    /\ ea' = [ea EXCEPT ![r].sent = TRUE]
    /\ queue' = Append(queue, [er |-> r, time |-> now])
    /\ UNCHANGED <<socket, now, tps, inserted, order, tasks, found, todo, cutting,
                   garbage, freed, late>>

----------------------------------------------------------------------------
(* Answers: write_ecm_answer, distribute_ea *)

\* (mutant: late answers are not dropped)
MutInTime(r) == TRUE
InTime(r) == Age(r) <= Ctimeout + 1

\* write_ecm_answer of thread t, which has rest still to distribute
Write(t, r, rc, rest) ==
    IF ~InTime(r) \/ Answered(r)
      THEN todo' = [todo EXCEPT ![t] = rest] /\ UNCHANGED ea
      ELSE /\ ea' = [ea EXCEPT ![r].rc = rc]
           /\ todo' = [todo EXCEPT ![t] =
                [i \in DOMAIN ea[r].pending |-> [er |-> ea[r].pending[i], rc |-> rc]] \o rest]

\* "Simply set not_found if different from E_FOUND!"
Shared(rc) == IF rc = "FOUND" THEN "FOUND" ELSE "NOTFOUND"

Distribute(t) ==
    /\ todo[t] # <<>>
    /\ Write(t, Head(todo[t]).er, Shared(Head(todo[t]).rc), Tail(todo[t]))
    /\ UNCHANGED <<socket, now, tps, inserted, order, queue, tasks, found, cutting, garbage, freed, late>>

\* casc_check_dcw or cardreader_process_ecm
Answer(t, r, rc) ==
    /\ Takes(t) /\ r \in tasks
    /\ tasks' = tasks \ {r}
    /\ Write(t, r, rc, <<>>)
    /\ UNCHANGED <<socket, now, tps, inserted, order, queue, found, cutting, garbage, freed, late>>

Dropped(time) == now - time > Ctimeout + 1

\* ecm_timeout: cw_process adds the job again and again while the request is
\* in the list
EcmTimeout(r) ==
    /\ r \in ToSet(order) \cup {g \in DOMAIN garbage : ~Dropped(garbage[g])}
    /\ Age(r) >= Ctimeout /\ Idle(r)
    /\ ea[r].sent /\ ~Answered(r)
    /\ Write(r, r, "TIMEOUT", <<>>)
    /\ UNCHANGED <<socket, now, tps, inserted, order, queue, tasks, found, cutting, garbage, freed, late>>

----------------------------------------------------------------------------
(* The reader: reader_get_ecm *)

\* The search ends at the first request that is too old
Seen == {i \in DOMAIN order : \A k \in 1 .. i : Age(order[k]) < Ctimeout + 1}

\* (mutants: a request that hangs on another one is a host as well; an ECM
\* that is on its way is not one)
MutHost(h) == ea[h].sent /\ ea[h].rc # "TIMEOUT"
MutHostAnswered(h) == ~ea[h].is_pending /\ ea[h].sent /\ ea[h].rc \in {"FOUND", "NOTFOUND"}
Host(h) == ~ea[h].is_pending /\ ea[h].sent /\ ea[h].rc # "TIMEOUT"
HostsFor(r) == {i \in Seen : order[i] # r /\ Host(order[i])}

DropRequest ==
    /\ \E t \in ReaderThreads : Takes(t)
    /\ queue # <<>> /\ Dropped(Head(queue).time)
    /\ queue' = Tail(queue)
    /\ UNCHANGED <<socket, now, tps, inserted, order, ea, tasks, found, todo, cutting,
                   garbage, freed, late>>

\* The first host, or else the ECM goes to the card or the server; a full
\* table of a server takes no more (casc_process_ecm), and nothing is said
GetEcm(t) ==
    /\ Takes(t) /\ queue # <<>> /\ ~Dropped(Head(queue).time)
    /\ queue' = Tail(queue)
    /\ LET r == Head(queue).er
       IN \/ \E i \in HostsFor(r) :
               /\ \A k \in HostsFor(r) : i <= k
               /\ found' = [found EXCEPT ![t] = <<r, order[i]>>]
               /\ UNCHANGED tasks
          \/ /\ HostsFor(r) = {}
             /\ tasks' \in {tasks, tasks \cup {r}}
             /\ UNCHANGED found
    /\ UNCHANGED <<socket, now, tps, inserted, order, ea, todo, cutting, garbage, freed, late>>

\* The request is no host any more ...
Mark(t) ==
    /\ found[t] # <<>>
    /\ LET r == found[t][1]
       IN ~ea[r].is_pending /\ ea' = [ea EXCEPT ![r].is_pending = TRUE]
    /\ UNCHANGED <<socket, now, tps, inserted, order, queue, tasks, found, todo, cutting,
                   garbage, freed, late>>

\* (mutant: not looked at again)
MutLate(h) == FALSE
Late(h) == Answered(h)
Marked(t) == found[t] # <<>> /\ ea[found[t][1]].is_pending

\* ... and hangs on the one that was found, unless that was answered meanwhile
Join(t) ==
    /\ Marked(t)
    /\ LET r == found[t][1]
           h == found[t][2]
       IN \/ Late(h) /\ Write(t, r, Shared(ea[h].rc), <<>>)
          \/ /\ ~Late(h)
             /\ ea' = [ea EXCEPT ![h].pending = <<r>> \o @]
             /\ UNCHANGED todo
    /\ found' = [found EXCEPT ![t] = <<>>]
    /\ UNCHANGED <<socket, now, tps, inserted, order, queue, tasks, cutting, garbage, freed, late>>

\* A read lock is all they take: of two threads that put their request in front
\* of the same list at once, one may not see what the other has put there
JoinRace(t, u) ==
    /\ t # u /\ Marked(t) /\ Marked(u)
    /\ LET r == found[t][1]
           h == found[t][2]
       IN /\ found[u][2] = h /\ ~Late(h)
          /\ ea' = [ea EXCEPT ![h].pending = <<r>> \o @]
    /\ found' = [found EXCEPT ![t] = <<>>, ![u] = <<>>]
    /\ UNCHANGED <<socket, now, tps, inserted, order, queue, tasks, todo, cutting, garbage,
                   freed, late>>

----------------------------------------------------------------------------
(* cw_process: the clean-up, and the garbage collector *)

Old(r) == Age(r) > Ctimeout + 3

\* Under the read lock: the first old request and the one before it
FindOld ==
    /\ cutting = <<>>
    /\ \E i \in DOMAIN order :
         /\ Old(order[i]) /\ \A k \in 1 .. i - 1 : ~Old(order[k])
         /\ cutting' = <<order[i], IF i = 1 THEN NoRequest ELSE order[i - 1]>>
    /\ UNCHANGED <<socket, now, tps, inserted, order, ea, queue, tasks, found, todo,
                   garbage, freed, late>>

UpTo(r) == SubSeq(order, 1, CHOOSE i \in DOMAIN order : order[i] = r)
From(r) == {order[i] : i \in {k \in DOMAIN order : \E j \in 1 .. k : order[j] = r}}

\* Under the write lock; free_ecm of all that was cut off
Cut ==
    /\ cutting # <<>>
    /\ order' = IF cutting[2] = NoRequest THEN <<>> ELSE UpTo(cutting[2])
    /\ garbage' = [r \in From(cutting[1]) \cup DOMAIN garbage |->
                      IF r \in From(cutting[1]) THEN now ELSE garbage[r]]
    /\ cutting' = <<>>
    /\ UNCHANGED <<socket, now, tps, inserted, ea, queue, tasks, found, todo, freed, late>>

Expired(r) == now - garbage[r] > 2 * Ctimeout + 6

Free(r) ==
    /\ r \in DOMAIN garbage \ freed /\ Expired(r)
    /\ freed' = freed \cup {r}
    /\ UNCHANGED <<socket, now, tps, inserted, order, ea, queue, tasks, found, todo,
                   cutting, garbage, late>>

----------------------------------------------------------------------------
Next ==
    \/ Tick
    \/ \E r \in Requests :
         \/ Receive(r) \/ Insert(r) \/ Ask(r) \/ EcmTimeout(r) \/ Free(r)
    \/ \E t \in Threads : Distribute(t)
    \/ \E t \in ReaderThreads :
         \/ GetEcm(t) \/ Mark(t) \/ Join(t) \/ \E u \in ReaderThreads : JoinRace(t, u)
         \/ \E r \in Requests : \E rc \in {"FOUND", "NOTFOUND"} : Answer(t, r, rc)
    \/ DropRequest \/ FindOld \/ Cut

Spec == Init /\ [][Next]_vars

----------------------------------------------------------------------------
(* Properties *)

Codes == {"FOUND", "NOTFOUND", "TIMEOUT"}
Job == [er : Requests, time : Nat]
Handed == [er : Requests, rc : Codes]
AnswerRecord == [sent : BOOLEAN, is_pending : BOOLEAN, rc : Codes \cup {"UNHANDLED"},
                 pending : Seq(Requests)]

\* The lists hold requests, and only those that are in ecmcwcache are asked for.
TypeOK ==
    /\ socket \in BOOLEAN /\ now \in Nat
    /\ DOMAIN tps \subseteq Requests /\ inserted \subseteq DOMAIN tps
    /\ \A r \in DOMAIN tps : tps[r] \in Nat
    /\ order \in Seq(Requests)
    /\ ea \in [Requests -> AnswerRecord]
    /\ queue \in Seq(Job) /\ \A i \in DOMAIN queue : queue[i].er \in inserted
    /\ tasks \subseteq Requests
    /\ found \in [ReaderThreads -> Seq(Requests)]
    /\ todo \in [Threads -> Seq(Handed)]

\* Requests may hang on one that hangs on a third one, but never in a circle:
\* one of them was, or will be, sent to the reader.  So it is if the reader has
\* a socket; without one, two of its threads may each find the other's request
\* (V_NoCircleAnywhere.cfg).
NoCircleAnywhere ==
    \A S \in (SUBSET Requests) \ {{}} :
        \E r \in S : \A h \in S : r \notin ToSet(ea[h].pending)
NoWaitCircle == socket => NoCircleAnywhere

Served(r) == \/ Answered(r) \/ ~InTime(r)
             \/ \E t \in Threads : \E i \in DOMAIN todo[t] : todo[t][i].er = r
Joining(r) == \E t \in ReaderThreads : found[t] # <<>> /\ found[t][1] = r

\* A request that hangs on another one is not forgotten: once that one is
\* answered and its answer handed on, it has an answer too, or came too late.
\* And with a socket, whatever is marked as pending does hang on another one.
NoPendingForgotten ==
    /\ \A h \in Requests : \A r \in ToSet(ea[h].pending) : Answered(h) => Served(r)
    /\ socket => \A r \in Requests :
         ea[r].is_pending => Served(r) \/ Joining(r) \/ \E h \in Requests : r \in ToSet(ea[h].pending)

\* The reader works on one of the equal ECMs at a time, among those the
\* search reaches before the first one that is too old.
OneOnItsWay ==
    \A i, j \in Seen :
        {order[i], order[j]} \subseteq {r \in tasks : ~Answered(r)} => i = j

\* The requests some thread will yet look at
Used ==
    {queue[i].er : i \in {k \in DOMAIN queue : ~Dropped(queue[k].time)}}
    \cup {r \in tasks : InTime(r)} \cup (UNION {ToSet(found[t]) : t \in ReaderThreads})
    \cup (UNION {{todo[t][i].er : i \in DOMAIN todo[t]} : t \in Threads})
    \cup {r \in DOMAIN garbage : ~Dropped(garbage[r])}            \* time-out jobs
    \cup {r \in DOMAIN tps : Answered(r) /\ Age(r) <= 2 * Ctimeout + 2} \* answer jobs

\* "to be sure no more access er!": no request is freed that a thread will
\* yet look at.
NoUseAfterFree == Used \cap freed = {}

\* "ecm stays in cache at least ctimeout+2seconds!"
StaysInCache == \A r \in inserted : Age(r) <= Ctimeout + 2 => r \in ToSet(order)
============================================================================
