# A TLA+ model of NCam

NCam (`src/app/src/main/cpp/ncam/`, here packed into an Android app) is a
conditional-access server: clients send it ECMs over several protocols, it asks
readers (local cards, proxies, cache peers) for the control word (CW), and gives
one answer back to the client. This directory holds a TLA+ model of its core,
TLC configurations that check it on small instances and TLAPS proofs of the
theorems that hold for every instance. All paths below without a directory are
in `src/app/src/main/cpp/ncam/`.

- [1. The system](#1-the-system): inventory of the components
- [2. Modules](#2-modules): what models what
- [3. Runs](#3-runs): what TLC checks, bounds, fairness
- [4. What the code does and a comment denies](#4-disagreements)
- [5. Proofs](#5-proofs)
- [6. Not modelled](#6-not-modelled)
- [7. Plan](#7-plan)

`PROJECT.json` is the index of all that: components, runs, the mutant of every
property, the source lines of every definition, hazards, theorems.

## 1. The system

One process with many threads. The main thread accepts connections; each client
(a user, a reader, a proxy) has a job list and at most a few work threads
(`work_thread`); `cw_process` watches the ECMs for time-outs; `chkcache_process`
looks for cached CWs; the garbage collector frees memory late; the web interface
changes settings of live readers. They share lists under `CS_MUTEX_LOCK`s, a
home-made read/write lock, and plain mutexes; much is read without any.

| Component | State | Operations | Correct when |
|---|---|---|---|
| **Limiter** `maxparallel` of a reader (`ncam-ecm.c` 100-690) | active slots, pending slots, blocked list, `parallel_lock` | `reader_has_capacity` when an ECM is sent, `reader_register_service` when its CW comes back (expiry, promotion, search, drop), `block_client_service`, `clear_blocked_services` | a service has one slot; nobody pends or is blocked while a slot is free; a live service loses its slot only to a block; the limit holds |
| **Limiter settings** (`ncam-config-reader.c` 1490-1620) | `maxparallel`, `parallelfactor`, two arrays | parsing, save by the web interface, `reader_fixups_fn` | the loops stay inside what was allocated |
| **Lock** `CS_MUTEX_LOCK` (`ncam-lock.c`) | counters `writelock`, `readlock`, two condition variables | lock, try-lock, unlock, entry enforced after a time-out | a writer is alone (it is not: section 4); no wake-up is lost; the counters are exact; nobody waits for ever |
| **ECM request** (`ncam-ecm.c` 2090-2720, 3400-3665; time-outs in `cw_process`; `module-cacheex.c`) | status and stage of the request, status and answer of every reader, the client's jobs | `get_cw`, `request_cw_from_readers`, `write_ecm_answer`, `chk_dcw`, `send_dcw`, four time-outs, answers from the cache | one answer, always; no CW lost behind a NOT FOUND; fallbacks last; the proxies wait for the cacheex readers; a checked CW was checked |
| **Jobs and work threads** (`ncam-work.c`, `kill_thread`) | job list, `thread_active`, `kill`, the threads | `add_job`, `work_thread`, `kill_thread`, `free_joblist` | every job is handled or freed, in order, one at a time; a killed client is freed once |
| **Shared ECMs and the ECM list** (`ncam-reader.c` 1186-1273; `write_ecm_answer`, `distribute_ea`; clean-up in `cw_process`) | `ecmcwcache`, for each request and reader `is_pending` and the requests that hang on it | `reader_get_ecm`, `distribute_ea`, `ecm_timeout`, the cut of old requests, `free_ecm` | no requests wait for one another in a circle; none that hangs on another is forgotten; an ECM is sent once at a time |
| **CW cache and push** (`ncam-cache.c`, `module-cacheex.c`) | hash of ECMs with their CWs and counts; a push job for each peer; the list of requests whose CW is in the cache | `add_cache`, `cleanup_cache`, push jobs, clean-up of pushed requests (`check_cache`: in `EcmRequest`) | no CW and no vote is lost, the CW with the most votes is given out (it is not: section 4); a push reads nothing that was freed; the clean-up finds every stale entry |
| Garbage (`ncam-garbage.c`) | buckets of freed memory with a time | `add_garbage`, `garbage_collector`, start, stop | nothing is freed that a job or an answer still uses (in `EcmPending`); the two unlocks of a bucket hit nobody else |
| Clients (`ncam-client.c`) | client list, hash, `kill_started` | create, authenticate, `free_client` | freed once, unlinked first |
| Readers (`ncam-reader.c`) | connection, `tcp_block_delay`, EMM logs | connect, block, reconnect, send | the delay grows and is reset; no connection while blocked |
| **Android service** (`jni_bridge.cpp`, `NCamService.kt`, `MainActivity.kt`, `BootReceiver.kt`; `main` of `ncam.c`) | `g_thread`, `g_callback`, `exit_oscam`; Android's record of the service and its message queue | start and stop by button and at boot, end of the native thread and its callback, restart after the process was killed | one `main()` at a time; each run calls back its own service; every stop is obeyed; no run outlives its service |
| Failban, load balancer, CW cycle check, anti-cascading, EMM cache | lists and statistics | sequential updates under one lock | see PROJECT.json |
| Protocols, card drivers, web pages, configuration text, logging, vendored code | buffers | input and output | not a subject of this model |

**How they interact.** A client's thread runs `get_cw` as a job. It marks readers
`REQUEST_SENT` and adds a job to each reader's client; the reader's thread calls
`write_ecm_answer`, which stores the answer and adds an `ACTION_CLIENT_ECM_ANSWER`
job to the client; the client's thread runs `chk_dcw`, which sends the answer,
asks the next stage, or does nothing. `cw_process` and `chkcache_process` add
time-out and cache jobs for the same client. The limiter is asked in
`request_cw_from_readers` and told in `chk_dcw`. Every list is guarded by a
`CS_MUTEX_LOCK`; the job list by the client's `thread_lock`.

**What is hard.** Answers of several readers, four time-outs and cache hits are
queued for one request in any order; the handlers read the state of *other*
readers, which changes meanwhile; the wrong-checksum answer changes all readers
under the lock of one; capacity is checked at one time and taken at another;
flags are reset outside the lock that protects them; a lock is entered by force
after a time-out; memory is returned after a time and not after its last use.
The order of three
time-outs is all that ties a push job to the memory it points to. In the app,
`main()` is called again in the same process. `PROJECT.json` lists each of these
as a hazard, at its line.

## 2. Modules

| Module | Models | Composed from |
|---|---|---|
| `ParallelSlots` | the limiter of one reader with concurrent requests | - |
| `ParallelConfig` | its settings, the live save, the allocations | - |
| `CsLock` | `CS_MUTEX_LOCK` with its signals and time-out | implements `RwLock` |
| `RwLock` | a lock that knows holders and waiters, hands over to writers first, lets all readers in after the last writer (abstract) | - |
| `EcmRequest` | one ECM request: client's thread, readers' threads, the two watching threads | the client's job queue in order, as `WorkThread` shows for a client with a socket |
| `WorkThread` | the job list of one client and its threads, the end of the client | - |
| `EcmPending` | equal ECMs of several clients for one reader; the ECM list, its clean-up, the age at which memory is given back | `EcmRequest` says what a client makes of the answer |
| `CwCache` | entries and votes of the CW cache, its clean-up, push jobs | `EcmRequest` says what becomes of a CW from the cache |
| `AndroidService` | the app around the server: buttons, service, bridge, native thread | - |
| `MC*` | model values and sets for TLC | the module of the same name |
| `*Proofs` | theorems and their proofs | the module and TLAPS |

**ParallelSlots.** `active` and `pending` are the arrays, `blocked` the list as a
set of pairs, `inflight` the requests between `reader_has_capacity` and
`reader_register_service`. Each call holds `parallel_lock`, so `pc` serialises
the calls; the promotion loop (`Promote`), the search (`Place*`) and the drop
loop (`Drop`) are one step per iteration, so the invariants are about the loops
and not only about their result. Loops that stop at the first match and loops
that look for the oldest are the predicates `IsFirstFree` and `IsOldest`. Time
is `now`, read once per call as the code does; intervals are in arbitrary units.

**ParallelConfig.** The web interface writes field after field into the live
reader and applies `reader_fixups_fn` afterwards; the state records the size
that was *allocated*, which the code does not keep.

**CsLock.** The counters count the threads that hold *or wait*; a waiter waits
once and does not test again. One operation is one step, since it runs under the
mutex of the lock; being signalled and entering are two. The signals are those
of `cs_rwunlock_int`: a waiting writer whenever `writelock` is not zero, all
readers only after a write lock. `TimedOut` is the enforced entry.

**EcmRequest.** `er` is the request, `ea` what `er->matching_rdr` says of each
reader (`status` is the set of its `REQUEST_*` and `READER_*` flags), `jobs` the
job list of the client. `asked` says that a reader has the ECM and will answer: it
outlives `REQUEST_SENT`, which "wrong checksum" of another reader may overwrite. A job handler is one step; why is said at the head of
the module. The wrong-checksum branch of `write_ecm_answer` is two steps
(`BadEcmBegin`, `BadEcmEnd`), because it writes the status of readers whose lock
it does not hold: what others wrote in between may be lost, or may undo it.
Which readers are connected and which are at their limit is open at every stage.
The choice of readers before `get_cw` (identities, groups, load balancer) is a
set that is open in `Init`.

**WorkThread.** `worker[w]` is where a thread of the client is and the job it has
in hand, `active` the field `thread_active`, `adding` the jobs whose `add_job`
has passed the kill test and waits for `thread_lock`. What runs under the lock is
one step, every access without it another one: the test of `kill` in `add_job`,
the two tests at the head of the loop, the reset of `thread_active` at the end.
A handler may end its own client (`cs_disconnect_client`): then the client is
freed and the thread gone, with `thread_active` as it was (`ExitInHandler`).
`accepted`, `handled` and `dropped` are history.

**EcmPending.** `order` is `ecmcwcache`, `ea[r]` the `s_ecm_answer` of the one reader
in request `r` with the list of those that hang on it, `tasks` the requests that
went to the card or into `ecmtask`. `reader_get_ecm` is three steps: the search
under the lock of the list (`GetEcm`), `is_pending` under none (`Mark`), the second
look at the host and the append under its read lock (`Join`; `JoinRace` where two
threads append at once and one does not see the other). `socket` says whether the
reader has a socket: if so one of `ReaderThreads` at a time handles a job, as
`WorkThread` proves; if not, as for a card, several do, since a thread that ends may
clear the flag of the next one (`work_thread_stranded`). The clean-up is two steps
(`FindOld`, `Cut`). `write_ecm_answer` is recursive through `distribute_ea`,
and chains A <- B <- C do occur: `todo[t]` is what thread `t` has still to hand on,
one request at a time, so that the answer of one and the time-out of another
interleave. Time is in seconds, as the comparisons of the code are.

**CwCache.** `info[h]` is the entry of an ECM with its two times and its CWs in the
order of the list; a CW counts as often as it arrived, and a locally generated
one 0x0F000000 more. The sort is the merge sort of tommyDS, for any number of
nodes, with the comparison as the caller sees it: `count_sort` returns -1 as a `uint8_t`
through a pointer to a function that returns `int32_t`, which is undefined. With
`Unsigned = FALSE` the caller sees -1 (clang for arm64), with `TRUE` 255 (a callee
that extends its result, as the calling convention of armeabi-v7a has it; the app is
built for both). `jobs[p]` are the push jobs of a peer:
pointers to an entry and to a request, with the time they were made.

**AndroidService.** Android is external and modelled from how the app uses it: one
main thread that handles messages in order, `startService` that creates an
instance when there is none, `stopSelf` that takes effect on the record at once and
queues `onDestroy`, `START_STICKY` that starts the service again after a kill. The
native thread is at one of the places where it touches `g_thread`, `g_callback` or
`exit_oscam`. `helper[r]` stands for the threads `main()` detaches. Creation of the
thread and `AttachCurrentThread` may fail (`MayFail`); `main()` returns at once when
the process has no thread key left (`MaxKeys`), since no run gives its key back.

## 3. Runs

Every property of a passing run has a mutant in `PROJECT.json`: the definition
changed as a plausible bug would change it, with which TLC finds the property
violated.

| Run | Question | Instance | Why it is enough |
|---|---|---|---|
| `parallel_slots` | do the arrays and the list stay consistent over every expiry, promotion, drop and zap? | 2 active and 2 pending slots, 4 services; one client zaps through all of them, another one stays with one and sends ECMs without a service id; clock to 5, 2 requests at a time; symmetric in the services only the first client asks for | more services than active slots, so services pend, are promoted, expire and are blocked, two at a time, and an active slot can be dead while the other one is in use; two clients share and contend for a service; the ECM without an id finds all slots taken; five ticks pass both time-outs (2 assumed, 1 to 3 measured) |
| `cs_lock` | exact counters, no lost wake-up, who shares the lock with a writer, refinement of `RwLock`, does everybody get in? | 5 threads, all read and write; entries may be enforced | several waiting writers, several readers before, between and behind them; every pair of holder and waiter, and others who are overrun |
| `ecm_request` | no CW lost behind a NOT FOUND, the last answer answered, fallbacks last, checked CWs, an answer in the end | a local card, a proxy that may report a wrong checksum, a fallback; double check on and off | every stage but the first has a reader; every order of three answers and of the fallback and the client time-out |
| `ecm_request_cacheex` | one answer that is not withdrawn, and no proxy asked while cacheex readers are waited for | a cacheex reader, a proxy that may be at its limit; wait time, mode 1 delay; one CW may turn up in the cache | the first stage, all four time-outs and the cache answers, in every order |
| `work_thread` | is every job handled or freed, in order, one at a time, and a killed client freed? | 2 jobs and the kill job, 3 threads, a client with and one without socket, starts that fail | three threads: one that ends, one that was started meanwhile, one more |
| `ecm_pending` | do equal ECMs wait in a circle, is one forgotten, sent twice at a time, or used after it was freed? | 3 clients, one reader, with a socket or with two threads; time-out 1 s; requests come at 0, 1 and 6 s, clock to 14 s; symmetric in the requests | three requests make a chain, and two threads may each find the request of the other; two requests come while the first is answered, two seconds apart in the list; one comes when the others are cut off and freed |
| `cw_cache` | is a CW or a vote ever lost, is a push ever late for its memory, does the clean-up find all? | 2 ECMs, 3 CWs of which an entry stores 2, 1 peer, 3 arrivals, clock to 6 s; time-out 1 s; the sort sees 255 for -1; symmetric | a sort of two that are each the smaller one, and one CW too many; the peer works on time, late, too late; an entry that is updated stands in front of one that is stale |
| `android_service` | one `main()`, its own callback, every stop obeyed, no run without service? | 4 commands, 1 kill, 2 thread keys | start, stop, start, stop in any order with the clean-up of either run; a third run finds no key; a kill at any point |

The remaining four runs each find one violation; section 4.

**Bounds.** `MaxTime` (clock), `MaxInFlight` (requests between the two calls of
the limiter), `MaxQueued` (equal jobs queued by the timers: in the code they are
queued again every few milliseconds, and all but the first find the request
answered), `MaxCached` (CWs put into the cache by others), `MaxSetting`,
`AnswerLimit` (age up to which `write_ecm_answer` accepts an answer; the clock
of the request stops one past it), `Workers` (threads at a time), `Arrivals` (times
at which equal ECMs come), `MaxAdds` (CWs that arrive), `MaxLag` (seconds between
the receipt of a CW and `add_cache`), `MaxPresses` and `MaxKills`. `EcmPending` also
bounds how late threads are, since life times by age mean nothing without it: a
thread needs at most two seconds from one step to the next, and `cw_process` and the
collector, which look every second and every half second, are at most one second
behind (`Tick`). In `CwCache` no second passes
between the unlock in `add_cache` and the push; the peer may be as late as it
likes. Nothing else is bounded. Deadlock is not checked where the model comes to its natural end: an
answered request, a client with all its jobs done, the end of the clock.

**Fairness.** `EcmRequest!FairSpec`: the client's thread runs its jobs, `cw_process`
queues the client time-out, time passes, and a reader's thread does not stop in
the middle of `write_ecm_answer`. Readers need not answer at all. The code
justifies it: `cw_process` is a thread of its own with a sleep that is bounded,
and the branch in question waits for nothing. It presumes that the request stays
in `ecmcwcache`, where `cw_process` finds it: the race in the clean-up that
`V_StaysInCache.cfg` shows (section 4) takes a request off the list early, and for that
one `EveryRequestAnswered` says nothing. `WorkThread!FairSpec`: every thread
is scheduled, handlers return, `poll` returns after its three seconds, and
`kill_thread` sets the flag after its job. `CsLock!FairSpec`: `pthread_cond_timedwait`
returns; nothing is assumed of the threads inside, who may stay for ever.
`AndroidService!Spec`: the main thread handles its messages and the native thread
comes to its end once `exit_oscam` is set; nothing is assumed of the detached
threads, which may sleep as long as their settings say, nor of the user.

**Properties worth reading.**
`LiveServiceKept` and `BlockedByActiveOnly` (limiter) say who may lose a slot and
for whose benefit. `CwReachesClient` and `AnsweredWhenExhausted` are the two sides
of the answer NOT FOUND: it never overtakes a CW that is written and whose job is
queued behind, nor a reader that may still give one; and it is not left to the
client time-out when nobody can. The second one holds in `ecm_request` and
fails when a reader is skipped for its limit (section 4). `WaitObserved` is what the
wait time is for: four handlers move the stage on, and none may ask a proxy before
the cacheex readers had their time. `DeliveredIsVerified`
relates the answer to two different readers. `OneReply` has to hold against a
CW from the cache that comes after NOT FOUND was sent. `ActiveMeansAlive` has to
hold although the flag is reset outside the lock, and `OneHandler` although
`add_job` may start further threads for a client that was killed. `NoWaitCircle`
is what `is_pending` is for: a request becomes a host when its own client marks it
sent, before the reader has looked at it; and the flag is set some time after it
was tested, so it needs the one thread of a reader with a socket. `NoPendingForgotten` has to hold for a
request that is appended just after the search found a host that is answered at
that moment. `OneOnItsWay` is qualified: the search ends at the first request that
is too old, and requests are in the list in the order their clients got the lock,
so a younger one may stand behind it and is not seen. `CwsKept` has to hold
although the sort is told of two CWs that each is the smaller one, and
`SharedByReadersOnly` says in which one way the lock fails. `NoFreedPush` holds because
`max_cache_time` is raised above the client time-out, which happens only when
`ncam.conf` has a `[cache]` section. `CleanupExact` has to hold although the walk
ends by the time of the first CW and the removal goes by the last. `StopEndsRun`
and `NoRunWithoutService` are about a service whose `onDestroy` comes after the next
one was started.

<a id="4-disagreements"></a>
## 4. What the code does and a comment denies

Four runs show the code doing other than a comment says. Each checks one
property that states the quoted words.

- `size_change`: `maxparallel` raised from 1 to 2 in the web interface is in force at
  once while the array keeps its one slot ("Size changes require NCam restart to take
  effect"), so the loops run past its end.
- `cs_lock_exclusion`: the first of two readers to unlock signals a waiting
  writer, who enters beside the second one.
- `work_thread_stranded`: the unlocked `thread_active = 0` behind the loop hits
  the flag of a thread started meanwhile, which then ends with jobs in the list.
- `most_votes`: where the -1 of `count_sort` arrives as 255 (armeabi-v7a), the second
  vote for a CW moves it behind the one with a single vote ("sort cw_list by counter
  (DESC order)", `ncam-cache.c:798`).

The models hold further counterexamples. They are not among the runs of
`PROJECT.json`, which stays quick, and each can be had with the configuration named,
whose only property is violated (`tlc -config V_X.cfg M`):

| Configuration, module | What happens |
|---|---|
| `V_CapacityHonoured.cfg`, `MCParallelSlots` | two requests pass `reader_has_capacity` for the same last slot, since nothing is reserved; the second CW finds no slot and is used all the same |
| `V_SkippedReaderAwaited.cfg`, `MCEcmRequest` | a reader that was skipped because of `maxparallel` counts in `reader_left` for ever; when all others answered NOT FOUND the client waits for its time-out |
| `V_CacheHitUnanswered.cfg`, `MCEcmRequest` | with `double_check` on, a request whose CW is in the cache at once is released and gets no answer |
| `V_StaysInCache.cfg`, `MCEcmPending` | a request put in front of the list between the two locks of the clean-up is cut off with the old ones when the first element was the one to cut at: it has no time-outs any more ("ecm stays in cache at least ctimeout+2seconds!", `ncam-ecm.c:936`) |
| `V_NoCircleAnywhere.cfg`, `MCEcmPending` | for a reader without a socket two threads may handle jobs at a time; both find the request of the other one not pending (`ncam-reader.c:1222`) before either marks its own (1231), and the two requests hang on each other until their time-outs |
| `V_OldThreadsEnded.cfg`, `AndroidService` | `main()` sleeps 200 ms "so hopefully all threads are stopped" (`ncam.c`); a thread that sleeps longer finds `exit_oscam` reset by the next start and goes on in the new run |

Read off the models, and said by no document: the time-out of a host gives NOT
FOUND to all that hang on it, who may have come seconds later; a start that is
given while the last run cleans up is taken for one of a running NCam and is lost,
with the notification shown.

## 5. Proofs

All theorems hold for every value of the constants that meets the named
assumptions (disjointness of model values, finite sets, natural numbers).

**ParallelSlotsProofs.** `TypeCorrect`, `ServiceHoldsOneSlot` (`UniqueService`),
`NoIdleSlotWhilePending`, `NoIdleSlotWhileBlocked`, `BlockedListIsAFunction`, for
every number of slots, clients, services and every time-out. The inductive
invariant `IInv` adds that the "between two calls" facts hold from the end of the
promotion loop on (`PendingInv`, `BlockedInv`; without it the search step may
not be assumed to see a full array), that the client of a used slot is a real
one (`OwnerInv`), and that a call has a real request. The action properties are
`BlockedForActive` (`BlockedByActiveOnly`) and `LiveServiceStays` (`LiveServiceKept`); for
the first, `CleanInv` says that during a call every slot in use is live, and
`DropInv` that who drops pending services has a slot.

**CsLockProofs.** For every finite set of threads, all of which may read and write,
and with the time-out: `TypeCorrect`, `CountersExact`, `WakeupNotLost`,
`OnlyReadersShare` (`SharedByReadersOnly`) and `CountersImplementRwLock`
(`ImplementsRwLock`). `IInv` is, until the first enforced entry, the exact counters
together with the absence of lost wake-ups: each is needed for the other, because an
unlock decides by the counters whom to signal. Exclusion does not hold
(`cs_lock_exclusion`), so what is proved is by which step alone it is lost: a reader
unlocks while another one stays. The abstract lock has the same weakness, said
plainly: whoever leaves hands over to a waiting writer. The refinement maps each step
to `LockWrite`, `LockRead`, `HandToWriter`, `AdmitReaders`, `Leave`, or a stutter; an
enforced entry ends what it promises.

**EcmRequestProofs.** `AnsweredAtMostOnce` (`OneReply`) for every set of readers of
any sorts, all times and bounds. The invariant says that a request with an answer
has a result code below `E_99`, which every sending handler tests, that a CW once
sent is never replaced by an error, and that a request `get_cw` has not taken is
fresh. `TypeCorrect`: `TypeInv` has a part per variable; the one job per reader that
the client time-out queues needs finitely many readers.

**EcmRequestOrderProofs.** For every finite set of readers, `FallbacksComeLast`
(`FallbackLast`), `NoCwLostInTheQueue` (`CwReachesClient`) and `DeliveredTwice`
(`DeliveredIsVerified`). The hard part is "wrong
checksum", whose second half writes back statuses it read in the first: `StageInv`
says that whoever was asked belongs to a stage that was passed, and that what will
be written back agrees with that and marks no active reader as asked that was not.
For `CwReachesClient`, `HandledInv` says that while there is no reply each CW has its job
in the queue or went into the double check, and `NotFoundInv` that a NOT FOUND that went
out leaves only readers without a CW who cannot give one any more: who answers is
active, and whoever is active and was asked has `REQUEST_SENT` (`SentInv`), although the
flag may be overwritten under him. `GivenInv` says that every CW a reader has reported and every one in a queued job is in
the cache under its reader; `CheckInv` that the CW which is held back is there under
one reader, and the one the client got under two.

`ExhaustedIsAnswered` (`AnsweredWhenExhausted`) is for requests that no cacheex reader
and no reader with a limit matches. The hypothesis cannot be dropped: a reader
skipped for its limit counts in `reader_left` for ever (`V_SkippedReaderAwaited.cfg`),
and a cacheex reader that answers last does not make `chk_dcw` look who is left
(`ncam-ecm.c:2164`). The argument: after the first answer something will still come
(`Expected`), which is an answer in the queue, a reader in the middle of "wrong
checksum", a CW, or a reader that may answer. A step that takes one of these away
leaves another, or sends: `chk_dcw` takes the answer off the queue, and if it does
not send it has found a reader active that has not answered. That reader may
answer only if he was asked or will be; so `AskedInv` says that whoever the passed
stages were for was asked, and that what "wrong checksum" writes back differs from
what is there only for readers who were asked or are no longer active.

**WorkThreadProofs.** `TypeCorrect`, `ThreadWhileActive` (`ActiveMeansAlive`),
`OneHandlerAtATime` (`OneHandler`) and `JobsInOrder` (`HandledInOrder`), for every set of
jobs and threads.
`ActiveInv`: while `thread_active` is set some thread is not yet past the point
where it resets it, unless one could not be started or the client is freed. `SocketInv`: a client with a socket has one thread as long as
it is not killed, whose flag is set; threads started after the kill end at the
head of the loop, so only one can ever be inside. `OrderInv`: the jobs handled, the
ones in hand and the ones in the list are, in this order, the jobs in the order
they were added; `IdleInv`: the list is empty when a thread is started, so
the job it is started with overtakes none.

**EcmPendingProofs.** For any number of requests, of threads of the reader, and any
time-out: `PendingIsServed` (`NoPendingForgotten`), `NothingFreedInUse`, `OneAtATime`
and `TypeCorrect`; and, where the reader has a socket, `CirclesExcluded` (`NoWaitCircle`)
and the second part of `NoPendingForgotten`, that no request is lost which was marked. That
one thread at a time handles a job then is not an assumption of its own:
`WorkThreadProofs.OneHandlerAtATime` proves it for a client with a socket. A circle would
have to be closed by a request that hangs on one which hangs on another. `AloneInv`
rules that out: what the search found hangs on nobody, and stays so until the append,
because no other thread makes requests hang meanwhile. `HangInv` says that whoever is in a
list of pending ones is marked so; `CuttingInv` keeps the cut inside the list.

`NothingFreedInUse` (`NoUseAfterFree`) is a sum of delays (`AgeInv`). A request is cut off
when it is older than the client time-out and two seconds, and the collector
keeps it for twice the time-out and six seconds more: what it frees is older than
three client time-outs and eight seconds. The oldest that is still held is a
pending request that is being handed an answer, at most three time-outs and four
seconds old: the time-out in the queue, the one of its host, and the one of the
search, each with its rounding. `ListInv` is what the clean-up rests on (the list is in
the order of arrival, but for one second), `PrvInv` says that the cut still takes the
old request and what is behind it, whatever was inserted since. The assumption is
the one the model states: a thread needs at most two seconds from one of its steps
to the next (the lateness of `cw_process` and of the collector does not matter to it). `OneAtATime` (`OneOnItsWay`) needs `SentInv`: a request is in the queue of
the reader, found by the search or on its way once.

**CwCacheProofs.** `PushAfterFree`: `TimesFit` implies `NoFreedPush`, for every client
time-out and any number of ECMs, CWs and peers, where `TimesFit` is a `[cache]`
section or a client time-out of at most 14 s. `EntryLives`: the entry of a job that is
not too old was updated when the job was made or later; `RequestLives`: its request
is on the list of pushed ones, behind requests that are at most one second
older, or not yet on it. The identities (`FreshInv`, `LiveInv`) make sure that an
entry that is created again is not taken for the freed one.

`NoCwLost` (`CwsKept`), for any number of ECMs and CWs and whatever the caller of
`count_sort` sees, rests on `SortCorrect`: the merge sort of tommyDS returns the nodes
it got, for a list of any length and also with a comparison that is no order; they
are in descending order if the sign is kept. `CwsInv` says that no list has a CW
twice. The sort is a recursive function on the pairs of start and
length, the merge one on pairs of positions. That such a function exists at all is
`RecursiveFunction`, proved from the least natural number at which something fails
(`LeastNat`, `SmallestFailure`); the same lemma stands in for induction in `MergeCorrect`
and `SortCorrect`, so no induction theorem of the library is needed.

`CleanupFindsAll` (`CleanupExact`), for any number of ECMs and any `max_cache_time`: the
order list is in the order of the first CWs and no entry was updated before its first
CW (`OrderInv`), so an ECM behind the one where the walk ends cannot be due.

**AndroidServiceProofs.** `TypeCorrect`, `OneMainAtATime` (`OneMain`), `OwnCallback`
(`CallbackIsOwn`), `NamedRun` (`RunIsNamed`), for any number of commands, kills and
thread keys. `CreatingAlone` is the strengthening: `g_thread` keeps a second start
out, and between `pthread_create` and `g_thread = tid` it does not name the new
thread yet; what helps is that the main thread is busy with that very start.

`TypeOK` of `EcmPending` and of `CwCache` is proved (as part of the invariants) and is
not among the properties of the runs.

**Only model-checked.** The liveness properties (`EveryRequestAnswered`,
`EveryJobFinishes`, `KilledIsFreed`, `WaitersEnter`, `StopEndsRun`,
`NoRunWithoutService`), which are beyond the prover, and `AnsweredWhenExhausted` where
cacheex readers match (which no run has). Every other invariant and action property of
a passing run is stated by a theorem, except `WaitObserved`.

## 6. Not modelled

- Inside the modelled components: `cs_lock_destroy` and spurious wake-ups of the
  lock; anti-cascading, the filter for locally generated CWs and the loss of the client in `EcmRequest`; a proxy reader's socket that opens
  and closes while its thread runs, and the queue limit of cache pushes, in
  `WorkThread`. The slot arrays of `ParallelConfig` are not used by other threads
  during a save, so the race between the two is listed as a hazard only.
- `EcmPending` has one reader: with others, the time-out of a host need not come.
  The rate limiter and answers that do not count as one (`dontsetAnswered`) are
  left out. Of the garbage collector only the age counts; its buckets, with an
  unlock too many (`ncam-garbage.c:125`), are a hazard without property.
- In `CwCache`: which clients a CW is pushed to (any set), the conditions under
  which `check_cache` keeps the first CW back, the cache against late duplicates,
  whose comparison `time_sort` has the type of `count_sort`, and the protocols.
- In `AndroidService`: the copy of the configuration at the first start, what the
  threads of NCam do, the log the activity shows.
- Job handlers are one step in `EcmRequest`. What a handler reads of a reader's
  answer it reads under `ecmanswer_lock`; an answer that comes during the handler
  has a job of its own behind it, so a handler that missed it is followed by one
  that sees it.
- Whole components: the ones of the table in section 1 without a module, with
  the reason in `PROJECT.json`: input and output, text, cryptography, drivers
  and vendored code will stay out; the rest is planned.

## 7. Plan

The most important path first: an ECM from client to answer, then what it
depends on, then what surrounds it.

1. Done: `ParallelSlots`, `ParallelConfig`, `CsLock`/`RwLock`, `EcmRequest`,
   `WorkThread`, `EcmPending`, `CwCache`, `AndroidService`, with their theorems.
2. Done: theorems for `AnsweredWhenExhausted` of `EcmRequest`, `NoUseAfterFree` and
   `OneOnItsWay` of `EcmPending`, `CwsKept` and `CleanupExact` of `CwCache`,
   `CwReachesClient` of `EcmRequest`.
3. A theorem for `WaitObserved`. `EcmPending` with a second reader, and an abstract specification: "each request
   that asked a reader gets an answer of that reader once".
4. The buckets of the garbage collector with a lock whose unlock may hit another
   holder; `Connection` (`block_connect`), `FailBan`, the CW cycle check.

Runs of new modules replace the violation runs whose finding is settled, or are
merged with a run of the same module, so that the whole set stays quick.
