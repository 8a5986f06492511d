----------------------------- MODULE EcmRequest -----------------------------
(***************************************************************************)
(* The life of one ECM request of a client (ncam-ecm.c): get_cw puts it    *)
(* into ecmcwcache and asks the matching readers stage by stage, the       *)
(* readers answer, timers run out, the CW may turn up in the CW cache, and *)
(* one answer goes back to the client.                                     *)
(*                                                                         *)
(* Threads: the client's work thread runs get_cw and then one job of the   *)
(* client's queue after the other (chk_dcw, the four time-outs, the answer *)
(* from the cache); the readers' threads run write_ecm_answer; cw_process  *)
(* and chkcache_process look at the request and queue jobs.  A job handler *)
(* is one step: what it reads of a reader's answer it reads under          *)
(* ecmanswer_lock, and an answer that comes meanwhile has its own chk_dcw  *)
(* later on.  The one writer that takes no such lock, the answer "wrong    *)
(* checksum" that deactivates all other readers, takes two steps.          *)
(*                                                                         *)
(* Left out: readers that share the ECM of another request (EcmPending),   *)
(* anticascading, the "localgenerated only" filter, the loss of the        *)
(* client, jobs dropped because the client's thread hangs for a whole      *)
(* client time-out.                                                        *)
(***************************************************************************)
EXTENDS Integers, SequencesExt, FiniteSets

CONSTANTS
    Readers,           \* all readers, of overlapping sorts:
    CacheexReaders,    \*   cacheex_reader()
    LocalReaders,      \*   is_localreader()
    FallbackReaders,   \*   chk_is_fixed_fallback()
    LimitedReaders,    \*   maxparallel > 0
    BadEcmReaders,     \*   those that may answer "wrong checksum"
    CWs,               \* control words
    NoCw, NoReader, Peer,  \* no CW; the NULL reader; a cacheex peer
    DoubleChecks,      \* whether the double check applies to the ECM
    WaitUntilCtimeout, \* cfg.wait_until_ctimeout
    Waits,             \* whether requests have a cacheex wait time
    Mode1Delay,        \* the times after which cw_process queues a job ...
    WaitTime,
    FallbackTimeout,
    ClientTimeout,
    AnswerLimit,       \* ... and the age up to which an answer is accepted
    MaxQueued,         \* bound on the equal jobs queued by the timers
    MaxCached          \* bound on the CWs others put into the cache

ASSUME SortsAssumption ==
    /\ CacheexReaders \cup LocalReaders \cup FallbackReaders \cup LimitedReaders
         \cup BadEcmReaders \subseteq Readers
    /\ CacheexReaders \cap LocalReaders = {}
    /\ NoReader \notin Readers /\ Peer \notin Readers \cup {NoReader}
    /\ NoCw \notin CWs
    /\ IsFiniteSet(Readers)
ASSUME ConfigAssumption ==
    /\ DoubleChecks \subseteq BOOLEAN /\ Waits \subseteq BOOLEAN
    /\ WaitUntilCtimeout \in BOOLEAN
ASSUME TimesAssumption ==
    /\ {Mode1Delay, WaitTime, FallbackTimeout, ClientTimeout, AnswerLimit,
     MaxQueued, MaxCached}
         \subseteq Nat
    /\ ClientTimeout <= AnswerLimit

VARIABLES
    er,        \* the ECM_REQUEST
    ea,        \* er->matching_rdr: reader -> its s_ecm_answer, and whether it has
               \* the ECM and has not given its answer yet
    jobs,      \* the joblist of the client
    cache,     \* CWs of this ECM in the CW cache, with their source
    age,       \* time since er->tps
    clearing,  \* reader in the middle of "wrong checksum" -> status it read
    replies    \* what the client was sent, oldest first

vars == <<er, ea, jobs, cache, age, clearing, replies>>

Flags == {"ACTIVE", "FALLBACK", "LOCAL", "CACHEEX", "SENT", "ANSWERED"}
HaveCw == {"FOUND", "CACHE1", "CACHEEX"}                 \* rc < E_NOTFOUND
Answered == HaveCw \cup {"NOTFOUND", "TIMEOUT", "INVALID"}  \* rc < E_99

Job == ({"answer"} \X Readers) \cup ({"cache"} \X (CWs \X (Readers \cup {Peer})))
       \cup ({"mode1_delay", "cacheex_timeout", "fallback_timeout", "ecm_timeout"}
               \X {NoReader})
Timer(action) == <<action, NoReader>>

Is(r, flags) == flags \subseteq ea[r].status
Lacks(r, flag) == flag \notin ea[r].status

----------------------------------------------------------------------------
(* Sending the answer: send_dcw *)

\* rc <= E_CACHE2 of a known reader goes through the double check
Checks(e) == e.double_check /\ e.rc \in {"FOUND", "CACHE1"} /\ e.selected # NoReader

\* mutant: a second CW of the same reader counts as well
MutCompare(e) ==
    IF e.checked = 0
      THEN [e EXCEPT !.checked = 1, !.origin = e.selected, !.cw_checked = e.cw]
      ELSE IF e.cw_checked = e.cw THEN [e EXCEPT !.checked = @ + 1] ELSE e
Compare(e) ==
    IF e.checked = 0
      THEN [e EXCEPT !.checked = 1, !.origin = e.selected, !.cw_checked = e.cw]
      ELSE IF e.origin # e.selected /\ e.cw_checked = e.cw
             THEN [e EXCEPT !.checked = @ + 1] ELSE e

SendDcw(e) ==
    LET c == IF Checks(e) THEN Compare(e) ELSE e
    IN  IF Checks(e) /\ c.checked < 2
          THEN er' = [c EXCEPT !.rc = "UNHANDLED"] /\ UNCHANGED replies
          ELSE er' = c /\ replies' = Append(replies, [rc |-> c.rc, cw |-> c.cw])

----------------------------------------------------------------------------
(* Asking readers: request_cw_from_readers *)

\* The stages that follow the current one
StagesAfter(stage) ==
    {s \in stage + 1 .. 4 : /\ s = 1 => er.preferlocalcards # 2
                            /\ s = 2 => er.preferlocalcards # 0}

Eligible(r, s) ==
    CASE s = 1 -> Is(r, {"ACTIVE", "CACHEEX"})
      [] s = 2 -> Is(r, {"ACTIVE", "LOCAL"}) /\ Lacks(r, "FALLBACK")
      [] s = 3 -> Is(r, {"ACTIVE"}) /\ Lacks(r, "FALLBACK")
      [] s = 4 -> Is(r, {"ACTIVE", "FALLBACK"})

\* Readers asked in stage s, without those at their maxparallel limit
Asked(s, busy) ==
    {r \in DOMAIN ea : Lacks(r, "SENT") /\ Eligible(r, s) /\ <<r, s>> \notin busy}

Busy == SUBSET ((LimitedReaders \cap DOMAIN ea) \X (1 .. 4))

\* The readers asked in the stages S become REQUEST_SENT and get the ECM
AskAll(S, busy) ==
    ea' = [r \in DOMAIN ea |->
             IF \E s \in S : r \in Asked(s, busy)
               THEN [ea[r] EXCEPT !.status = @ \cup {"SENT"}, !.asked = TRUE] ELSE ea[r]]

\* The stages are passed until a connected reader is asked.  Which readers
\* are connected, and which are at their limit when, is not fixed.
Request(stop, e) ==
    IF e.stage >= 4 \/ (stop # 0 /\ e.stage >= stop)
      THEN er' = e /\ UNCHANGED ea
      ELSE \E connected \in SUBSET DOMAIN ea, busy \in Busy,
              last \in StagesAfter(e.stage) :
             LET sent(s) == Asked(s, busy) \cap connected # {}
                 passed == {s \in StagesAfter(e.stage) : s <= last}
             IN /\ \A s \in passed \ {last} : ~sent(s) /\ (stop # 0 => s < stop)
                /\ last = 4 \/ sent(last) \/ (stop # 0 /\ last >= stop)
                /\ AskAll(passed, busy)
                /\ er' = [e EXCEPT !.stage = last]

----------------------------------------------------------------------------
(* A new request: get_cw *)

InitialStatus(r, prefer) ==
    {"ACTIVE"} \cup (IF r \in CacheexReaders THEN {"CACHEEX"}
                     ELSE IF r \in LocalReaders THEN {"LOCAL"} ELSE {})
               \cup (IF r \in FallbackReaders /\ (r \in LocalReaders => prefer = 0)
                       THEN {"FALLBACK"} ELSE {})

InitialAnswers(matching, prefer) ==
    [r \in matching |-> [status |-> InitialStatus(r, prefer),
                         rc |-> "UNHANDLED", cw |-> NoCw, asked |-> FALSE]]

Init ==
    \E matching \in SUBSET Readers, prefer \in 0 .. 2,
       wait \in Waits, double \in DoubleChecks, hit, delay \in BOOLEAN,
       cached \in SUBSET (CWs \X Readers) :
      /\ prefer # 0 => matching \cap LocalReaders # {}
      /\ wait => prefer < 2
      /\ ~wait => ~hit /\ ~delay
      /\ Cardinality(cached) <= MaxCached
      /\ er = [rc |-> "UNHANDLED", stage |-> 0, state |-> "new",
               preferlocalcards |-> prefer, wait |-> wait, wait_expired |-> ~wait,
               hitcache |-> hit, mode1_delay |-> delay, double_check |-> double,
               timeout_check |-> FALSE,
               selected |-> NoReader, cw |-> NoCw,
               checked |-> 0, origin |-> NoReader, cw_checked |-> NoCw]
      /\ ea = InitialAnswers(matching, prefer)
      /\ jobs = <<>> /\ age = 0 /\ replies = <<>> /\ cache = cached
      /\ clearing = [r \in {} |-> <<>>]

\* check_cache: with preferlocalcards = 2 only CWs of local readers count until
\* stage 3
Usable(c) == er.preferlocalcards = 2 /\ er.stage < 3 => c[2] \in LocalReaders

\* ecm->selected_reader is NULL for the CW of a peer (mutant: it is not)
MutCacheReader(c) == c[2]
CacheReader(c) == IF c[2] = Peer THEN NoReader ELSE c[2]

\* write_ecm_answer_fromcache
FromCache(e, c) ==
    LET found == [e EXCEPT !.rc = IF c[2] = Peer THEN "CACHEEX" ELSE "CACHE1",
                           !.cw = c[1], !.selected = CacheReader(c)]
    IN  IF e.rc \in HaveCw THEN er' = e /\ UNCHANGED replies
        ELSE IF e.rc = "UNHANDLED" THEN SendDcw(found)
        ELSE er' = found /\ UNCHANGED replies

\* get_cw, CW in the cache: the request is answered and released
GetCwCached ==
    /\ er.state = "new"
    /\ \E c \in cache : Usable(c) /\ FromCache([er EXCEPT !.state = "freed"], c)
    /\ UNCHANGED <<ea, jobs, cache, age, clearing>>

\* get_cw, nobody to ask and nothing to wait for
GetCwNoReader ==
    /\ er.state = "new"
    /\ DOMAIN ea = {} /\ ~er.wait
    /\ SendDcw([er EXCEPT !.rc = "NOTFOUND", !.state = "freed"])
    /\ UNCHANGED <<ea, jobs, cache, age, clearing>>

\* the readers er->cacheex_reader_count counts
CacheexMatching == DOMAIN ea \cap CacheexReaders

\* get_cw otherwise: into ecmcwcache; with a wait time only the cacheex readers
\* are asked, at once or after their delay
GetCwRequest ==
    /\ er.state = "new"
    /\ DOMAIN ea # {} \/ er.wait
    /\ LET e == [er EXCEPT !.state = "ecmcwcache"]
       IN  IF ~er.wait THEN Request(0, e)
           ELSE IF ~er.mode1_delay /\ CacheexMatching # {} THEN Request(1, e)
           ELSE er' = e /\ UNCHANGED ea
    /\ UNCHANGED <<jobs, cache, age, clearing, replies>>

----------------------------------------------------------------------------
(* The answers of the readers: write_ecm_answer *)

\* A reader that has the ECM may answer it, also when "wrong checksum" of
\* another one wiped out its REQUEST_SENT.
Outstanding(r) ==
    /\ r \in DOMAIN ea \ DOMAIN clearing
    /\ ea[r].asked /\ Lacks(r, "ANSWERED")
    /\ age <= AnswerLimit

\* The answer is kept, chk_dcw is queued; a CW goes into the cache.  A CW that
\* is null, fails its checksum or breaks the CW cycle is a NOT FOUND.
Answer(r, rc, cw) ==
    /\ Outstanding(r)
    /\ ea' = [ea EXCEPT ![r] = [status |-> @.status \cup {"ANSWERED"},
                               rc |-> rc, cw |-> cw, asked |-> FALSE]]
    /\ jobs' = Append(jobs, <<"answer", r>>)
    /\ cache' = IF rc = "FOUND" THEN cache \cup {<<cw, r>>} ELSE cache
    /\ UNCHANGED <<er, age, clearing, replies>>

AnswerFound(r)    == \E cw \in CWs : Answer(r, "FOUND", cw)
AnswerNotFound(r) == Answer(r, "NOTFOUND", NoCw)

\* Wrong checksum: er->stage = 5 and all readers inactive, under the lock of r
\* alone.  What the other threads write between the first and the last access
\* may be lost, or may undo the deactivation.
BadEcmBegin(r) ==
    /\ Outstanding(r) /\ r \in BadEcmReaders
    /\ clearing' = [x \in DOMAIN clearing \cup {r} |->
                       IF x # r THEN clearing[x]
                       ELSE [stage |-> er.stage,
                             status |-> [y \in DOMAIN ea |-> ea[y].status]]]
    /\ UNCHANGED <<er, ea, jobs, cache, age, replies>>

Inactive(status) == status \ {"ACTIVE", "FALLBACK"}

Raced(r) == {x \in DOMAIN ea \ {r} : ea[x].status # clearing[r].status[x]}

BadEcmEnd(r) ==
    /\ r \in DOMAIN clearing
    /\ \E undone \in SUBSET Raced(r) : \E lost \in SUBSET (Raced(r) \ undone) :
         ea' = [x \in DOMAIN ea |->
                  IF x = r
                    THEN [ea[x] EXCEPT !.rc = "INVALID", !.asked = FALSE,
                                       !.status = Inactive(@) \cup {"ANSWERED"}]
                  ELSE IF x \in undone THEN ea[x]
                  ELSE IF x \in lost
                    THEN [ea[x] EXCEPT !.status = Inactive(clearing[r].status[x])]
                  ELSE [ea[x] EXCEPT !.status = Inactive(@)]]
    /\ \E stage \in {5} \cup ({er.stage} \ {clearing[r].stage}) :
         er' = [er EXCEPT !.stage = stage]
    /\ clearing' = [x \in DOMAIN clearing \ {r} |-> clearing[x]]
    /\ jobs' = Append(jobs, <<"answer", r>>)
    /\ UNCHANGED <<cache, age, replies>>

\* a reader that gave the CW to another client, or a cacheex peer
CachePush ==
    /\ Cardinality(cache) < MaxCached
    /\ \E c \in (CWs \X (Readers \cup {Peer})) \ cache : cache' = cache \cup {c}
    /\ UNCHANGED <<er, ea, jobs, age, clearing, replies>>

----------------------------------------------------------------------------
(* The threads that watch the request: cw_process, chkcache_process *)

Queued(job) == Cardinality({i \in DOMAIN jobs : jobs[i] = job})
AddJob(job) ==
    /\ Queued(job) < MaxQueued
    /\ jobs' = Append(jobs, job)
    /\ UNCHANGED <<er, ea, cache, age, clearing, replies>>

\* mutant: a request that asks the fallbacks is not watched any more
MutWatched == er.state = "ecmcwcache" /\ ~er.timeout_check /\ er.stage < 4
Watched == er.state = "ecmcwcache" /\ ~er.timeout_check
Waiting == er.wait /\ ~er.wait_expired

ChkCache ==
    /\ Watched /\ er.rc = "UNHANDLED" /\ age <= AnswerLimit
    /\ \E c \in cache : Usable(c) /\ AddJob(<<"cache", c>>)

CacheexTimer ==
    /\ Watched /\ er.rc = "UNHANDLED" /\ Waiting
    /\ age >= WaitTime
    /\ AddJob(Timer("cacheex_timeout"))

Mode1Timer ==
    /\ Watched /\ er.rc = "UNHANDLED" /\ Waiting
    /\ age < WaitTime /\ age >= Mode1Delay
    /\ er.mode1_delay /\ er.stage = 0 /\ CacheexMatching # {}
    /\ AddJob(Timer("mode1_delay"))

FallbackTimer ==
    /\ Watched /\ er.rc = "UNHANDLED" /\ er.stage < 4
    /\ age >= FallbackTimeout
    /\ AddJob(Timer("fallback_timeout"))

ClientTimer ==
    /\ Watched /\ age >= ClientTimeout
    /\ AddJob(Timer("ecm_timeout"))

Tick ==
    /\ age <= AnswerLimit
    /\ age' = age + 1
    /\ UNCHANGED <<er, ea, jobs, cache, clearing, replies>>

----------------------------------------------------------------------------
(* The jobs of the client *)

Take(action) == /\ jobs # <<>> /\ jobs[1][1] = action
                /\ UNCHANGED <<cache, age, clearing>>

\* all of ecmanswer_lock are free
Unlocked == DOMAIN clearing = {}

\* The tests of chk_dcw: readers whose answer is awaited, or that gave a CW
\* which is still to be handled
HasCw(r) == ea[r].rc \in HaveCw
SentOnly(r) == Is(r, {"SENT", "ACTIVE"}) /\ Lacks(r, "ANSWERED")

CacheexLeft == {r \in DOMAIN ea :
                  (Lacks(r, "FALLBACK") /\ Is(r, {"CACHEEX"}) /\ SentOnly(r)) \/ HasCw(r)}
LocalLeft == {r \in DOMAIN ea :
                  (Lacks(r, "FALLBACK") /\ Is(r, {"LOCAL"}) /\ SentOnly(r)) \/ HasCw(r)}
\* mutant: who was asked and did not answer is forgotten
MutNotFallbackLeft == {r \in DOMAIN ea : HasCw(r)}
NotFallbackLeft == {r \in DOMAIN ea : (Lacks(r, "FALLBACK") /\ SentOnly(r)) \/ HasCw(r)}

\* mutants: a CW that is not handled yet does not count; an answer is not seen
MutReaderLeft == {r \in DOMAIN ea : Is(r, {"ACTIVE"}) /\ Lacks(r, "ANSWERED")}
MutReaderLeftAll == {r \in DOMAIN ea : Is(r, {"ACTIVE"}) \/ HasCw(r)}
ReaderLeft == {r \in DOMAIN ea : (Is(r, {"ACTIVE"}) /\ Lacks(r, "ANSWERED")) \/ HasCw(r)}

HasCacheex == \E r \in DOMAIN ea : Is(r, {"CACHEEX", "ACTIVE"}) /\ Lacks(r, "FALLBACK")
HasLocal == \E r \in DOMAIN ea : Is(r, {"LOCAL", "ACTIVE"}) /\ Lacks(r, "FALLBACK")
HasNotFallback == \E r \in DOMAIN ea : Is(r, {"ACTIVE"}) /\ Lacks(r, "FALLBACK")

\* "ecm request already answered!" (mutant: not tested)
MutDone == FALSE
Done == er.rc \in Answered

\* a cacheex reader: its CW comes from the cache, only the stage may advance
ChkDcwCacheex(r) ==
    IF ~Waiting \/ ~er.hitcache
      THEN IF er.stage = 1 /\ HasCacheex /\ CacheexLeft = {}
             THEN Request(0, er)
             ELSE UNCHANGED <<er, ea>>
      ELSE UNCHANGED <<er, ea>>

NextStageDue ==
    \/ er.stage = 2 /\ HasLocal /\ LocalLeft = {}
    \/ er.stage = 3 /\ HasNotFallback /\ NotFallbackLeft = {}

\* E_NOTFOUND, E_INVALID: the next stage, or the answer when nobody is left.
ChkDcwNotFound(r) ==
    LET e == [er EXCEPT !.selected = r]
    IN  IF ReaderLeft = {} /\ ~WaitUntilCtimeout
          THEN /\ SendDcw([e EXCEPT !.rc = "NOTFOUND",
                                    !.stage = IF NextStageDue THEN 4 ELSE @])
               /\ UNCHANGED ea
          ELSE /\ IF NextStageDue THEN Request(0, e) ELSE er' = e /\ UNCHANGED ea
               /\ UNCHANGED replies

ChkDcw ==
    /\ Take("answer")
    /\ jobs' = Tail(jobs)
    /\ LET r == jobs[1][2]
       IN  IF Done THEN UNCHANGED <<er, ea, replies>>
           ELSE IF r \in CacheexReaders
             THEN Unlocked /\ ChkDcwCacheex(r) /\ UNCHANGED replies
           ELSE CASE ea[r].rc = "FOUND" ->
                       /\ SendDcw([er EXCEPT !.rc = "FOUND", !.cw = ea[r].cw,
                                             !.selected = r])
                       /\ UNCHANGED ea
                  [] ea[r].rc \in {"NOTFOUND", "INVALID"} ->
                       Unlocked /\ ChkDcwNotFound(r)
                  [] OTHER ->   \* E_TIMEOUT: ecm_timeout sends
                       er' = [er EXCEPT !.selected = r] /\ UNCHANGED <<ea, replies>>

\* ACTION_ECM_ANSWER_CACHE
CacheAnswer ==
    /\ Take("cache")
    /\ jobs' = Tail(jobs)
    /\ FromCache(er, jobs[1][2])
    /\ UNCHANGED ea

\* cacheex_mode1_delay (mutant: not only the cacheex readers are asked)
MutMode1DelayOver ==
    /\ Take("mode1_delay")
    /\ jobs' = Tail(jobs)
    /\ IF ~er.wait_expired /\ er.stage = 0 /\ er.rc = "UNHANDLED"
         THEN Request(0, er) ELSE UNCHANGED <<er, ea>>
    /\ UNCHANGED replies
Mode1DelayOver ==
    /\ Take("mode1_delay")
    /\ jobs' = Tail(jobs)
    /\ IF ~er.wait_expired /\ er.stage = 0 /\ er.rc = "UNHANDLED"
         THEN Request(1, er) ELSE UNCHANGED <<er, ea>>
    /\ UNCHANGED replies

\* cacheex_timeout
CacheexTimeout ==
    /\ Take("cacheex_timeout")
    /\ LET e == [er EXCEPT !.wait_expired = TRUE]
       IN  \/ /\ ~er.wait_expired /\ er.rc = "UNHANDLED"
              /\ \E c \in cache : /\ Usable(c)
                                  /\ jobs' = Append(Tail(jobs), <<"cache", c>>)
              /\ er' = e /\ UNCHANGED <<ea, replies>>
           \/ /\ jobs' = Tail(jobs)
              /\ IF er.wait_expired \/ er.rc # "UNHANDLED"
                   THEN er' = e /\ UNCHANGED <<ea, replies>>
                 ELSE IF DOMAIN ea \subseteq CacheexReaders
                   THEN /\ IF WaitUntilCtimeout
                             THEN er' = e /\ UNCHANGED replies
                             ELSE SendDcw([e EXCEPT !.rc = "NOTFOUND",
                                                    !.selected = NoReader])
                        /\ UNCHANGED ea
                 ELSE /\ IF er.stage < 2 THEN Request(0, e)
                                         ELSE er' = e /\ UNCHANGED ea
                      /\ UNCHANGED replies

\* fallback_timeout: all stages up to the fallbacks
FallbackTimeoutOver ==
    /\ Take("fallback_timeout")
    /\ jobs' = Tail(jobs)
    /\ IF er.rc = "UNHANDLED" /\ er.stage < 4
         THEN /\ \E busy \in Busy : AskAll(StagesAfter(er.stage), busy)
              /\ er' = [er EXCEPT !.stage = 4]
         ELSE UNCHANGED <<er, ea>>
    /\ UNCHANGED replies

\* ecm_timeout: the readers that did not answer get E_TIMEOUT, and the client.
\* write_ecm_answer waits for a reader that holds its lock and then finds its
\* answer.
TimedOutReaders ==
    {r \in DOMAIN ea \ DOMAIN clearing :
       Is(r, {"SENT"}) /\ Lacks(r, "ANSWERED") /\ age <= AnswerLimit}

EcmTimeout ==
    /\ Take("ecm_timeout") /\ Unlocked
    /\ IF ~er.timeout_check /\ er.rc = "UNHANDLED"
         THEN /\ ea' = [r \in DOMAIN ea |->
                          IF r \in TimedOutReaders
                            THEN [ea[r] EXCEPT !.status = @ \cup {"ANSWERED"},
                                               !.rc = "TIMEOUT"]
                            ELSE ea[r]]
              /\ jobs' = Tail(jobs) \o
                   [i \in 1 .. Cardinality(TimedOutReaders) |->
                      <<"answer", SetToSeq(TimedOutReaders)[i]>>]
              /\ SendDcw([er EXCEPT !.timeout_check = TRUE, !.rc = "TIMEOUT"])
         ELSE /\ er' = [er EXCEPT !.timeout_check = TRUE]
              /\ jobs' = Tail(jobs)
              /\ UNCHANGED <<ea, replies>>

----------------------------------------------------------------------------
GetCw == GetCwCached \/ GetCwNoReader \/ GetCwRequest
Work == ChkDcw \/ CacheAnswer \/ Mode1DelayOver \/ CacheexTimeout
        \/ FallbackTimeoutOver \/ EcmTimeout
Watch == CacheexTimer \/ Mode1Timer \/ FallbackTimer \/ ClientTimer

Next ==
    \/ GetCw \/ Work \/ Watch \/ ChkCache \/ CachePush \/ Tick
    \/ \E r \in Readers : \/ AnswerFound(r) \/ AnswerNotFound(r)
                          \/ BadEcmBegin(r) \/ BadEcmEnd(r)

Spec == Init /\ [][Next]_vars

\* The client's thread and cw_process are scheduled, time passes, and a reader
\* does not stop inside write_ecm_answer.  Readers need not answer.
\* The request is taken to stay in ecmcwcache until then, where cw_process finds
\* it; EcmPending shows the race (Cut) in which it does not.
FairSpec ==
    /\ Spec
    /\ WF_vars(GetCw) /\ WF_vars(Work) /\ WF_vars(ClientTimer) /\ WF_vars(Tick)
    /\ WF_vars(\E r \in Readers : BadEcmEnd(r))

----------------------------------------------------------------------------
Request_ == [rc : {"UNHANDLED"} \cup Answered, stage : 0 .. 5,
             state : {"new", "ecmcwcache", "freed"}, preferlocalcards : 0 .. 2,
             wait : BOOLEAN, wait_expired : BOOLEAN, hitcache : BOOLEAN,
             mode1_delay : BOOLEAN, timeout_check : BOOLEAN, double_check : BOOLEAN,
             selected : Readers \cup {NoReader}, cw : CWs \cup {NoCw},
             checked : 0 .. 2, origin : Readers \cup {NoReader},
             cw_checked : CWs \cup {NoCw}]
EcmAnswer == [status : SUBSET Flags, rc : {"UNHANDLED"} \cup Answered,
              cw : CWs \cup {NoCw}, asked : BOOLEAN]

\* Every variable has its type.
TypeOK ==
    /\ er \in Request_
    /\ DOMAIN ea \subseteq Readers /\ ea \in [DOMAIN ea -> EcmAnswer]
    /\ jobs \in Seq(Job)
    /\ cache \subseteq CWs \X (Readers \cup {Peer})
    /\ age \in 0 .. AnswerLimit + 1
    /\ DOMAIN clearing \subseteq DOMAIN ea
    /\ replies \in Seq([rc : Answered, cw : CWs \cup {NoCw}])

\* A request is answered at most once, whatever answers, time-outs and cached
\* CWs are queued for it at the same time, and the answer is final: a CW that
\* was sent is not withdrawn.
OneReply ==
    /\ Len(replies) <= 1
    /\ replies # <<>> /\ replies[1].rc \in HaveCw => er.rc \in HaveCw

\* A CW that a reader gave is not lost.  Until the client has its answer, it waits
\* for its chk_dcw or went into the double check.  The client that was told NOT
\* FOUND could not have had it: its reader was made inactive by "wrong checksum"
\* (chk_dcw must not say NOT FOUND while a CW waits behind it in the queue, nor
\* while a reader that may give one is still at work).
CwReachesClient ==
    \A r \in DOMAIN ea \ CacheexReaders :
      ea[r].rc = "FOUND" =>
        IF replies = <<>> THEN <<"answer", r>> \in ToSet(jobs) \/ er.checked > 0
        ELSE replies[1].rc = "NOTFOUND" => Lacks(r, "ACTIVE")

\* While the request waits for the cacheex readers, no other one is asked, unless
\* the CW is not expected from them (no hit) and those that were asked have
\* answered without a CW, or the time for the fallbacks has come.
WaitObserved ==
    [][(\E r \in DOMAIN ea \ CacheexReaders : Lacks(r, "SENT") /\ "SENT" \in ea'[r].status)
       => \/ ~er'.wait \/ er'.wait_expired
          \/ FallbackTimeoutOver
          \/ /\ ~er.hitcache
             /\ \A r \in CacheexMatching :
                  Is(r, {"ACTIVE", "SENT"}) => Is(r, {"ANSWERED"}) /\ ~HasCw(r)]_vars

\* Before the fallback time-out a fallback is asked only when every other
\* reader asked before has answered without a CW.
Regular(r) == r \notin CacheexReaders /\ Is(r, {"ACTIVE", "SENT"}) /\ Lacks(r, "FALLBACK")
FallbackLast ==
    [][(\E r \in DOMAIN ea : /\ Is(r, {"ACTIVE", "FALLBACK"}) /\ Lacks(r, "SENT")
                             /\ "SENT" \in ea'[r].status)
       => \/ FallbackTimeoutOver
          \/ \A r \in DOMAIN ea : Regular(r) => Is(r, {"ANSWERED"}) /\ ~HasCw(r)]_vars

\* chk_dcw: "check if there are other readers to ask, and if not send NOT_FOUND
\* to client".  When some reader answered, nobody can answer any more, nobody has
\* a CW and all jobs are done, then the client has its answer: it is not left to
\* the client time-out.
MayAnswer(r) == Is(r, {"ACTIVE"}) /\ Lacks(r, "ANSWERED") /\ (Is(r, {"SENT"}) \/ er.stage < 4)
AnsweredWhenExhausted ==
    /\ er.state = "ecmcwcache" /\ jobs = <<>> /\ Unlocked
    /\ ~WaitUntilCtimeout
    /\ \A r \in DOMAIN ea : ~MayAnswer(r) /\ ~HasCw(r)
    /\ \E r \in DOMAIN ea \ CacheexReaders : Is(r, {"ANSWERED"})
    => replies # <<>>

\* A request is not released before it is answered.
AnsweredBeforeFreed == er.state = "freed" => replies # <<>>

\* With the double check two different readers gave the CW the client gets.
GaveCw(r, cw) == \/ <<cw, r>> \in cache
                 \/ r \in DOMAIN ea /\ ea[r].rc \in HaveCw /\ ea[r].cw = cw
DeliveredIsVerified ==
    er.double_check /\ replies # <<>> /\ replies[1].rc \in {"FOUND", "CACHE1"} =>
      \E r, s \in Readers : r # s /\ GaveCw(r, replies[1].cw) /\ GaveCw(s, replies[1].cw)

\* Every request is answered, even when no reader ever answers.
EveryRequestAnswered == <>(replies # <<>>)
============================================================================
