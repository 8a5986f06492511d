-------------------------- MODULE EcmRequestProofs --------------------------
(***************************************************************************)
(* OneReply and the types, for every finite set of readers, every          *)
(* configuration and every bound.  The invariant that is inductive adds    *)
(* that a request that was answered has rc < E_99, that every handler      *)
(* which sends looks at, and that nothing is queued for a request before   *)
(* get_cw took it.                                                         *)
(***************************************************************************)
EXTENDS EcmRequest, FiniteSetTheorems, TLAPS

Rcs == {"UNHANDLED"} \cup Answered
Fields == {"rc", "stage", "state", "preferlocalcards", "wait", "wait_expired",
           "hitcache", "double_check", "mode1_delay", "timeout_check", "selected", "cw",
           "checked", "origin", "cw_checked"}

Fresh == /\ er.rc = "UNHANDLED" /\ er.stage = 0 /\ replies = <<>> /\ jobs = <<>>
         /\ \A r \in DOMAIN ea : Lacks(r, "SENT") /\ ~ea[r].asked
         /\ DOMAIN clearing = {}

ReplyInv ==
    \/ replies = <<>> /\ er.rc = "UNHANDLED"
    \/ /\ Len(replies) = 1
       /\ er.rc \in Answered
       /\ replies[1].rc \in HaveCw => er.rc \in HaveCw

IInv == /\ DOMAIN er = Fields
        /\ er.rc \in Rcs
        /\ er.state = "new" => Fresh
        /\ ReplyInv

\* What the sending of an answer may do to a request that has none.
LEMMA SendDcwOnce ==
    ASSUME NEW e, DOMAIN e = Fields, e.rc \in Answered, replies = <<>>, SendDcw(e)
    PROVE  /\ DOMAIN er' = Fields /\ er'.state = e.state
           /\ er'.rc \in Rcs
           /\ ReplyInv'
<1> DEFINE c == IF Checks(e) THEN Compare(e) ELSE e
<1>1. DOMAIN c = Fields /\ c.rc = e.rc /\ c.state = e.state
  BY DEF Compare, Fields
<1>2. CASE Checks(e) /\ c.checked < 2
  <2>1. er' = [c EXCEPT !.rc = "UNHANDLED"] /\ replies' = replies
    BY <1>2 DEF SendDcw
  <2>2. DOMAIN er' = Fields /\ er'.state = e.state /\ er'.rc = "UNHANDLED"
    BY <1>1, <2>1 DEF Fields
  <2> QED BY <2>1, <2>2 DEF ReplyInv, Rcs
<1>3. CASE ~(Checks(e) /\ c.checked < 2)
  <2>1. er' = c /\ replies' = Append(replies, [rc |-> c.rc, cw |-> c.cw])
    BY <1>3 DEF SendDcw
  <2>2. Len(replies') = 1 /\ replies'[1] = [rc |-> c.rc, cw |-> c.cw]
    BY <2>1
  <2> QED BY <1>1, <2>1, <2>2 DEF ReplyInv, Rcs
<1> QED BY <1>2, <1>3

\* Asking readers does not touch the result of the request.
LEMMA RequestKeepsRc ==
    ASSUME NEW e, NEW stop, DOMAIN e = Fields, Request(stop, e)
    PROVE  DOMAIN er' = Fields /\ er'.rc = e.rc /\ er'.state = e.state
<1>1. er' = e \/ \E last : er' = [e EXCEPT !.stage = last]
  BY DEF Request
<1> QED BY <1>1 DEF Fields

\* The answer from the cache: sent to a request without an answer, otherwise
\* the result can only become that of a CW.
LEMMA FromCacheOnce ==
    ASSUME NEW e, NEW c, DOMAIN e = Fields, e.rc \in Rcs, e.rc = er.rc,
           ReplyInv, FromCache(e, c)
    PROVE  /\ DOMAIN er' = Fields /\ er'.state = e.state
           /\ er'.rc \in Rcs
           /\ ReplyInv'
<1> DEFINE found == [e EXCEPT !.rc = IF c[2] = Peer THEN "CACHEEX" ELSE "CACHE1",
                              !.cw = c[1], !.selected = CacheReader(c)]
<1>1. DOMAIN found = Fields /\ found.rc \in HaveCw /\ found.state = e.state
  BY DEF Fields, HaveCw
<1>2. CASE e.rc \in HaveCw
  <2>1. er' = e /\ replies' = replies
    BY <1>2 DEF FromCache
  <2> QED BY <2>1 DEF ReplyInv
<1>3. CASE e.rc = "UNHANDLED"
  <2>1. SendDcw(found)
    BY <1>3 DEF FromCache, HaveCw
  <2>2. replies = <<>>
    BY <1>3 DEF ReplyInv, Answered, HaveCw
  <2> HIDE DEF found
  <2> QED BY <1>1, <2>1, <2>2, SendDcwOnce DEF Answered
<1>4. CASE e.rc \notin HaveCw /\ e.rc # "UNHANDLED"
  <2>1. er' = found /\ replies' = replies
    BY <1>4 DEF FromCache
  <2> HIDE DEF found
  <2>2. Len(replies) = 1
    BY <1>4 DEF ReplyInv
  <2> QED BY <1>1, <2>1, <2>2 DEF ReplyInv, Rcs, Answered
<1> QED BY <1>2, <1>3, <1>4

----------------------------------------------------------------------------
LEMMA InitEstablishes == Init => IInv
<1> SUFFICES ASSUME Init PROVE IInv
  OBVIOUS
<1>1. /\ DOMAIN er = Fields /\ er.rc = "UNHANDLED" /\ er.stage = 0
      /\ jobs = <<>> /\ replies = <<>>
  BY DEF Init, Fields
<1>2. PICK matching, prefer : ea = InitialAnswers(matching, prefer)
  BY DEF Init
<1>3. \A r \in DOMAIN ea : Lacks(r, "SENT") /\ ~ea[r].asked
  BY <1>2 DEF InitialAnswers, Lacks, InitialStatus
<1>4. DOMAIN clearing = {}
  BY DEF Init
<1> QED BY <1>1, <1>3, <1>4 DEF IInv, Rcs, ReplyInv, Fresh

\* A step that keeps rc and the replies, on a request that get_cw has taken.
LEMMA KeepsResult ==
    ASSUME IInv, DOMAIN er' = Fields, er'.rc = er.rc, er'.state # "new",
           replies' = replies
    PROVE  IInv'
BY DEF IInv, ReplyInv

\* Only a request that get_cw has taken has jobs, or readers that answer.
LEMMA NotNew ==
    ASSUME IInv
    PROVE  /\ jobs # <<>> => er.state # "new"
           /\ \A r : Outstanding(r) => er.state # "new"
           /\ \A r : r \in DOMAIN clearing => er.state # "new"
BY DEF IInv, Fresh, Outstanding

LEMMA GetCwPreserves == IInv /\ GetCw => IInv'
<1> SUFFICES ASSUME IInv, GetCw PROVE IInv'
  OBVIOUS
<1>1. er.state = "new" /\ Fresh /\ DOMAIN er = Fields
  BY DEF GetCw, GetCwCached, GetCwNoReader, GetCwRequest, IInv
<1>2. CASE GetCwCached
  <2> DEFINE e == [er EXCEPT !.state = "freed"]
  <2>1. PICK c \in cache : FromCache(e, c)
    BY <1>2 DEF GetCwCached
  <2>2. DOMAIN e = Fields /\ e.rc = er.rc /\ e.state = "freed" /\ e.rc \in Rcs /\ ReplyInv
    BY <1>1 DEF Fields, IInv
  <2> HIDE DEF e
  <2>3. DOMAIN er' = Fields /\ er'.state = "freed" /\ er'.rc \in Rcs /\ ReplyInv'
    BY <2>1, <2>2, FromCacheOnce
  <2> QED BY <2>3 DEF IInv
<1>3. CASE GetCwNoReader
  <2> DEFINE e == [er EXCEPT !.rc = "NOTFOUND", !.state = "freed"]
  <2>1. SendDcw(e) /\ replies = <<>>
    BY <1>1, <1>3 DEF GetCwNoReader, Fresh
  <2>2. DOMAIN e = Fields /\ e.rc \in Answered /\ e.state = "freed"
    BY <1>1 DEF Fields, Answered
  <2> HIDE DEF e
  <2>3. DOMAIN er' = Fields /\ er'.state = "freed" /\ er'.rc \in Rcs /\ ReplyInv'
    BY <2>1, <2>2, SendDcwOnce
  <2> QED BY <2>3 DEF IInv
<1>4. CASE GetCwRequest
  <2> DEFINE e == [er EXCEPT !.state = "ecmcwcache"]
  <2>1. DOMAIN e = Fields /\ e.rc = er.rc /\ e.state = "ecmcwcache"
    BY <1>1 DEF Fields
  <2>2. er' = e \/ \E stop : Request(stop, e)
    BY <1>4 DEF GetCwRequest
  <2>3. replies' = replies
    BY <1>4 DEF GetCwRequest
  <2> HIDE DEF e
  <2>4. DOMAIN er' = Fields /\ er'.rc = er.rc /\ er'.state = "ecmcwcache"
    BY <2>1, <2>2, RequestKeepsRc
  <2> QED BY <2>3, <2>4, KeepsResult
<1> QED BY <1>2, <1>3, <1>4 DEF GetCw

----------------------------------------------------------------------------
(* The jobs: a sender has seen rc >= E_UNHANDLED before *)

LEMMA UnansweredHasNoReply == IInv /\ er.rc = "UNHANDLED" => replies = <<>>
BY DEF IInv, ReplyInv, Answered, HaveCw

\* Sending on a request without an answer.
LEMMA SendPreserves ==
    ASSUME IInv, er.rc = "UNHANDLED", er.state # "new",
           NEW e, DOMAIN e = Fields, e.rc \in Answered, e.state = er.state, SendDcw(e)
    PROVE  IInv'
BY SendDcwOnce, UnansweredHasNoReply DEF IInv

LEMMA RequestPreserves ==
    ASSUME IInv, er.state # "new", replies' = replies,
           NEW e, NEW stop, DOMAIN e = Fields, e.rc = er.rc, e.state = er.state,
           Request(stop, e)
    PROVE  IInv'
BY RequestKeepsRc, KeepsResult

LEMMA ChkDcwPreserves == IInv /\ ChkDcw => IInv'
<1> SUFFICES ASSUME IInv, ChkDcw PROVE IInv'
  OBVIOUS
<1>1. er.state # "new" /\ DOMAIN er = Fields
  BY NotNew DEF ChkDcw, Take, IInv
<1> DEFINE r == jobs[1][2]
<1>2. CASE Done
  <2>1. er' = er /\ replies' = replies
    BY <1>2 DEF ChkDcw
  <2> QED BY <1>1, <2>1, KeepsResult
<1>3. CASE ~Done
  <2>1. er.rc = "UNHANDLED"
    BY <1>3 DEF IInv, Done, Rcs
  <2>2. CASE r \in CacheexReaders
    <3>1. (er' = er \/ Request(0, er)) /\ replies' = replies
      BY <1>3, <2>2 DEF ChkDcw, ChkDcwCacheex
    <3> QED BY <1>1, <3>1, KeepsResult, RequestPreserves
  <2>3. CASE r \notin CacheexReaders /\ ea[r].rc = "FOUND"
    <3> DEFINE e == [er EXCEPT !.rc = "FOUND", !.cw = ea[r].cw, !.selected = r]
    <3>1. SendDcw(e)
      BY <1>3, <2>3 DEF ChkDcw
    <3>2. DOMAIN e = Fields /\ e.rc \in Answered /\ e.state = er.state
      BY <1>1 DEF Fields, Answered, HaveCw
    <3> HIDE DEF e
    <3> QED BY <1>1, <2>1, <3>1, <3>2, SendPreserves
  <2>4. CASE r \notin CacheexReaders /\ ea[r].rc \in {"NOTFOUND", "INVALID"}
    <3>1. ChkDcwNotFound(r)
      BY <1>3, <2>4 DEF ChkDcw
    <3> DEFINE e == [er EXCEPT !.selected = r]
               s == [e EXCEPT !.rc = "NOTFOUND",
                              !.stage = IF NextStageDue THEN 4 ELSE @]
    <3>2. /\ DOMAIN e = Fields /\ e.rc = er.rc /\ e.state = er.state
          /\ DOMAIN s = Fields /\ s.rc \in Answered /\ s.state = er.state
      BY <1>1 DEF Fields, Answered
    <3>3. \/ SendDcw(s)
          \/ (er' = e \/ Request(0, e)) /\ replies' = replies
      BY <3>1 DEF ChkDcwNotFound
    <3> HIDE DEF e, s
    <3> QED BY <1>1, <2>1, <3>2, <3>3, SendPreserves, RequestPreserves, KeepsResult
  <2>5. CASE r \notin CacheexReaders /\ ea[r].rc \notin {"FOUND", "NOTFOUND", "INVALID"}
    <3>1. er' = [er EXCEPT !.selected = r] /\ replies' = replies
      BY <1>3, <2>5 DEF ChkDcw
    <3> QED BY <1>1, <3>1, KeepsResult DEF Fields
  <2> QED BY <2>2, <2>3, <2>4, <2>5
<1> QED BY <1>2, <1>3

LEMMA TimersPreserve ==
    IInv /\ (Mode1DelayOver \/ CacheexTimeout \/ FallbackTimeoutOver \/ EcmTimeout) => IInv'
<1> SUFFICES ASSUME IInv,
                    Mode1DelayOver \/ CacheexTimeout \/ FallbackTimeoutOver \/ EcmTimeout
             PROVE  IInv'
  OBVIOUS
<1>1. er.state # "new" /\ DOMAIN er = Fields
  BY NotNew DEF Mode1DelayOver, CacheexTimeout, FallbackTimeoutOver, EcmTimeout, Take, IInv
<1>2. CASE Mode1DelayOver
  <2>1. (er' = er \/ Request(1, er)) /\ replies' = replies
    BY <1>2 DEF Mode1DelayOver
  <2> QED BY <1>1, <2>1, KeepsResult, RequestPreserves
<1>3. CASE CacheexTimeout
  <2> DEFINE e == [er EXCEPT !.wait_expired = TRUE]
             s == [e EXCEPT !.rc = "NOTFOUND", !.selected = NoReader]
  <2>1. /\ DOMAIN e = Fields /\ e.rc = er.rc /\ e.state = er.state
        /\ DOMAIN s = Fields /\ s.rc \in Answered /\ s.state = er.state
    BY <1>1 DEF Fields, Answered
  <2>2. \/ (er' = e \/ Request(0, e)) /\ replies' = replies
        \/ er.rc = "UNHANDLED" /\ SendDcw(s)
    BY <1>3 DEF CacheexTimeout
  <2> HIDE DEF e, s
  <2> QED BY <1>1, <2>1, <2>2, KeepsResult, RequestPreserves, SendPreserves
<1>4. CASE FallbackTimeoutOver
  <2>1. (er' = er \/ er' = [er EXCEPT !.stage = 4]) /\ replies' = replies
    BY <1>4 DEF FallbackTimeoutOver
  <2> QED BY <1>1, <2>1, KeepsResult DEF Fields
<1>5. CASE EcmTimeout
  <2> DEFINE e == [er EXCEPT !.timeout_check = TRUE]
             s == [er EXCEPT !.timeout_check = TRUE, !.rc = "TIMEOUT"]
  <2>1. /\ DOMAIN e = Fields /\ e.rc = er.rc /\ e.state = er.state
        /\ DOMAIN s = Fields /\ s.rc \in Answered /\ s.state = er.state
    BY <1>1 DEF Fields, Answered
  <2>2. \/ er' = e /\ replies' = replies
        \/ er.rc = "UNHANDLED" /\ SendDcw(s)
    BY <1>5 DEF EcmTimeout
  <2> HIDE DEF e, s
  <2> QED BY <1>1, <2>1, <2>2, KeepsResult, SendPreserves
<1> QED BY <1>2, <1>3, <1>4, <1>5

LEMMA CacheAnswerPreserves == IInv /\ CacheAnswer => IInv'
<1> SUFFICES ASSUME IInv, CacheAnswer PROVE IInv'
  OBVIOUS
<1>1. er.state # "new" /\ DOMAIN er = Fields /\ er.rc \in Rcs /\ ReplyInv
  BY NotNew DEF CacheAnswer, Take, IInv
<1>2. FromCache(er, jobs[1][2])
  BY DEF CacheAnswer
<1> QED BY <1>1, <1>2, FromCacheOnce DEF IInv

\* The readers, the watching threads and the clock leave the result alone.
LEMMA OthersPreserve ==
    ASSUME IInv,
           \/ Watch \/ ChkCache \/ CachePush \/ Tick
           \/ \E r \in Readers : \/ AnswerFound(r) \/ AnswerNotFound(r)
                                 \/ BadEcmBegin(r) \/ BadEcmEnd(r)
    PROVE  IInv'
<1>1. CASE Watch \/ ChkCache
  <2>1. er.state # "new" /\ er' = er /\ replies' = replies
    BY <1>1 DEF Watch, CacheexTimer, Mode1Timer, FallbackTimer, ClientTimer,
                ChkCache, Watched, AddJob
  <2> QED BY <2>1, KeepsResult DEF IInv
<1>2. CASE CachePush \/ Tick
  <2>1. UNCHANGED <<er, ea, jobs, clearing, replies>>
    BY <1>2 DEF CachePush, Tick
  <2> QED BY <2>1 DEF IInv, Fresh, ReplyInv, Lacks
<1>3. CASE \E r \in Readers : AnswerFound(r) \/ AnswerNotFound(r) \/ BadEcmBegin(r)
  <2>1. er.state # "new" /\ er' = er /\ replies' = replies
    BY <1>3, NotNew DEF AnswerFound, AnswerNotFound, Answer, BadEcmBegin
  <2> QED BY <2>1, KeepsResult DEF IInv
<1>4. ASSUME NEW r \in Readers, BadEcmEnd(r) PROVE IInv'
  <2>1. er.state # "new" /\ replies' = replies /\ DOMAIN er = Fields
    BY <1>4, NotNew DEF BadEcmEnd, IInv
  <2>2. PICK stage : er' = [er EXCEPT !.stage = stage]
    BY <1>4 DEF BadEcmEnd
  <2>3. DOMAIN er' = Fields /\ er'.rc = er.rc /\ er'.state = er.state
    BY <2>1, <2>2 DEF Fields
  <2> QED BY <2>1, <2>3, KeepsResult
<1> QED BY <1>1, <1>2, <1>3, <1>4

LEMMA StepPreserves == IInv /\ [Next]_vars => IInv'
<1> SUFFICES ASSUME IInv, [Next]_vars PROVE IInv'
  OBVIOUS
<1>1. CASE GetCw
  BY <1>1, GetCwPreserves
<1>2. CASE Work
  BY <1>2, ChkDcwPreserves, TimersPreserve, CacheAnswerPreserves DEF Work
<1>3. CASE \/ Watch \/ ChkCache \/ CachePush \/ Tick
           \/ \E r \in Readers : \/ AnswerFound(r) \/ AnswerNotFound(r)
                                 \/ BadEcmBegin(r) \/ BadEcmEnd(r)
  BY <1>3, OthersPreserve
<1>4. CASE UNCHANGED vars
  BY <1>4 DEF vars, IInv, Fresh, ReplyInv, Lacks
<1> QED BY <1>1, <1>2, <1>3, <1>4 DEF Next

\* A request is answered at most once, and a CW that was sent is not withdrawn
\* (get_cw, chk_dcw, cacheex_timeout, ecm_timeout, write_ecm_answer_fromcache).
THEOREM AnsweredAtMostOnce == Spec => []OneReply
<1>1. IInv => OneReply
  <2> SUFFICES ASSUME IInv PROVE OneReply
    OBVIOUS
  <2>1. CASE replies = <<>>
    BY <2>1 DEF OneReply
  <2>2. CASE replies # <<>>
    BY <2>2 DEF IInv, ReplyInv, OneReply
  <2> QED BY <2>1, <2>2
<1> QED BY <1>1, InitEstablishes, StepPreserves, PTL DEF Spec

----------------------------------------------------------------------------
(* The types *)

Reply == [rc : Answered, cw : CWs \cup {NoCw}]
Cached == CWs \X (Readers \cup {Peer})

\* A second equal CW ends the double check, so that there is no third one.
RequestType == er \in Request_ /\ (er.checked = 2 => er.rc \in HaveCw)
AnswerType == DOMAIN ea \subseteq Readers /\ ea \in [DOMAIN ea -> EcmAnswer]
\* An answer that is queued is one of a matching reader.
JobType == /\ jobs \in Seq(Job)
           /\ \A i \in DOMAIN jobs : jobs[i][1] = "answer" => jobs[i][2] \in DOMAIN ea
CacheType == cache \subseteq Cached /\ age \in 0 .. AnswerLimit + 1
ClearingType == /\ DOMAIN clearing \subseteq DOMAIN ea
                /\ \A r \in DOMAIN clearing : clearing[r].status \in [DOMAIN ea -> SUBSET Flags]
ReplyType == replies \in Seq(Reply)

TypeInv == RequestType /\ AnswerType /\ JobType /\ CacheType /\ ClearingType /\ ReplyType

\* What is sent keeps the types, when the request was not answered before.
LEMMA SendDcwType ==
    ASSUME NEW e \in Request_, e.checked < 2, e.rc \in Answered, ReplyType, SendDcw(e)
    PROVE  RequestType' /\ ReplyType'
<1> DEFINE c == IF Checks(e) THEN Compare(e) ELSE e
<1>1. /\ c \in Request_ /\ c.rc = e.rc
      /\ c.checked = 2 => c.rc \in HaveCw
  <2>1. CASE ~Checks(e)
    BY <2>1 DEF Request_
  <2>2. CASE Checks(e)
    <3>1. e.rc \in HaveCw
      BY <2>2 DEF Checks, HaveCw
    <3>2. Compare(e) \in Request_ /\ Compare(e).rc = e.rc
      <4>1. CASE e.checked = 0
        <5>1. e.selected \in Readers \cup {NoReader} /\ e.cw \in CWs \cup {NoCw}
          BY DEF Request_
        <5>2. [e EXCEPT !.checked = 1] \in Request_ /\ [e EXCEPT !.checked = 1].rc = e.rc
          BY DEF Request_
        <5>3. \A f \in Request_, r \in Readers \cup {NoReader} :
                [f EXCEPT !.origin = r] \in Request_ /\ [f EXCEPT !.origin = r].rc = f.rc
          BY DEF Request_
        <5>4. \A f \in Request_, cw \in CWs \cup {NoCw} :
                [f EXCEPT !.cw_checked = cw] \in Request_ /\ [f EXCEPT !.cw_checked = cw].rc = f.rc
          BY DEF Request_
        <5> DEFINE a == [e EXCEPT !.checked = 1]
                   b == [a EXCEPT !.origin = e.selected]
                   d == [b EXCEPT !.cw_checked = e.cw]
        <5>5. Compare(e) = d
          BY <4>1 DEF Compare
        <5>6. a \in Request_ /\ a.rc = e.rc
          BY <5>2
        <5> HIDE DEF a
        <5>7. b \in Request_ /\ b.rc = e.rc
          BY <5>1, <5>3, <5>6
        <5> HIDE DEF b
        <5>8. d \in Request_ /\ d.rc = e.rc
          BY <5>1, <5>4, <5>7
        <5>9. QED BY <5>5, <5>8
      <4>2. CASE e.checked = 1
        BY <4>2 DEF Compare, Request_
      <4>3. QED BY <4>1, <4>2 DEF Request_
    <3>3. QED BY <2>2, <3>1, <3>2
  <2>3. QED BY <2>1, <2>2
<1> HIDE DEF c
<1>2. CASE Checks(e) /\ c.checked < 2
  <2>1. er' = [c EXCEPT !.rc = "UNHANDLED"] /\ replies' = replies
    BY <1>2 DEF SendDcw, c
  <2>2. er' \in Request_ /\ er'.checked = c.checked
    BY <1>1, <2>1 DEF Request_
  <2>3. QED BY <1>2, <2>1, <2>2 DEF RequestType, ReplyType
<1>3. CASE ~(Checks(e) /\ c.checked < 2)
  <2>1. er' = c /\ replies' = Append(replies, [rc |-> c.rc, cw |-> c.cw])
    BY <1>3 DEF SendDcw, c
  <2>2. [rc |-> c.rc, cw |-> c.cw] \in Reply
    BY <1>1 DEF Reply, Request_
  <2>3. QED BY <1>1, <2>1, <2>2 DEF RequestType, ReplyType
<1>4. QED BY <1>2, <1>3

LEMMA AskAllTypes ==
    ASSUME NEW S, NEW busy, AskAll(S, busy), AnswerType
    PROVE  AnswerType' /\ DOMAIN ea' = DOMAIN ea
<1>1. \A a \in EcmAnswer : [a EXCEPT !.status = @ \cup {"SENT"}, !.asked = TRUE] \in EcmAnswer
  BY DEF EcmAnswer, Flags
<1>2. DOMAIN ea' = DOMAIN ea /\ \A r \in DOMAIN ea : ea'[r] \in EcmAnswer
  BY <1>1 DEF AskAll, AnswerType
<1>3. ea' = [r \in DOMAIN ea |-> ea'[r]]
  BY DEF AskAll
<1>4. QED BY <1>2, <1>3 DEF AnswerType

\* Asking readers keeps the types.
LEMMA RequestTypes ==
    ASSUME NEW e \in Request_, NEW stop, Request(stop, e), AnswerType
    PROVE  /\ er' \in Request_ /\ er'.checked = e.checked /\ er'.rc = e.rc
           /\ AnswerType' /\ DOMAIN ea' = DOMAIN ea
<1>1. \/ er' = e /\ ea' = ea
      \/ \E last \in 1 .. 4 : er' = [e EXCEPT !.stage = last] /\ \E S, busy : AskAll(S, busy)
  <2>1. \/ er' = e /\ ea' = ea
        \/ \E last \in StagesAfter(e.stage) :
              er' = [e EXCEPT !.stage = last] /\ \E S, busy : AskAll(S, busy)
    <3>1. SUFFICES ASSUME ~(e.stage >= 4 \/ (stop # 0 /\ e.stage >= stop))
          PROVE  \E last \in StagesAfter(e.stage) :
                    er' = [e EXCEPT !.stage = last] /\ \E S, busy : AskAll(S, busy)
      BY DEF Request
    <3>2. PICK busy \in Busy, last \in StagesAfter(e.stage) :
             /\ AskAll({s \in StagesAfter(e.stage) : s <= last}, busy)
             /\ er' = [e EXCEPT !.stage = last]
      BY <3>1 DEF Request
    <3>3. QED BY <3>2, Zenon
  <2>2. StagesAfter(e.stage) \subseteq 1 .. 4
    BY DEF StagesAfter, Request_
  <2>3. QED BY <2>1, <2>2
<1>2. CASE er' = e /\ ea' = ea
  BY <1>2 DEF AnswerType
<1>3. ASSUME NEW S, NEW busy, NEW last \in 1 .. 4, er' = [e EXCEPT !.stage = last], AskAll(S, busy)
      PROVE  /\ er' \in Request_ /\ er'.checked = e.checked /\ er'.rc = e.rc
             /\ AnswerType' /\ DOMAIN ea' = DOMAIN ea
  <2>1. er' \in Request_ /\ er'.checked = e.checked /\ er'.rc = e.rc
    BY <1>3 DEF Request_
  <2>2. QED BY <1>3, <2>1, AskAllTypes
<1>4. QED BY <1>1, <1>2, <1>3

LEMMA FromCacheTypes ==
    ASSUME RequestType, ReplyType,
           NEW e \in Request_, e.rc = er.rc, e.checked = er.checked,
           NEW c \in Cached, FromCache(e, c)
    PROVE  RequestType' /\ ReplyType'
<1> DEFINE found == [e EXCEPT !.rc = IF c[2] = Peer THEN "CACHEEX" ELSE "CACHE1",
                              !.cw = c[1], !.selected = CacheReader(c)]
<1>1. found \in Request_ /\ found.rc \in HaveCw /\ found.checked = e.checked
  <2>1. c[1] \in CWs \cup {NoCw} /\ CacheReader(c) \in Readers \cup {NoReader}
    BY DEF Cached, CacheReader
  <2> DEFINE rc == IF c[2] = Peer THEN "CACHEEX" ELSE "CACHE1"
             a == [e EXCEPT !.rc = rc]
             b == [a EXCEPT !.cw = c[1]]
             d == [b EXCEPT !.selected = CacheReader(c)]
  <2>2. a \in Request_ /\ a.rc \in HaveCw /\ a.checked = e.checked
    BY DEF Request_, HaveCw, Answered
  <2>3. found = d
    OBVIOUS
  <2> HIDE DEF a
  <2>4. b \in Request_ /\ b.rc \in HaveCw /\ b.checked = e.checked
    BY <2>1, <2>2 DEF Request_
  <2> HIDE DEF b
  <2>5. d \in Request_ /\ d.rc \in HaveCw /\ d.checked = e.checked
    BY <2>1, <2>4 DEF Request_
  <2>6. QED BY <2>3, <2>5
<1> HIDE DEF found
<1>2. CASE e.rc \in HaveCw
  <2>1. er' = e /\ replies' = replies
    BY <1>2 DEF FromCache
  <2>2. QED BY <1>2, <2>1 DEF RequestType, ReplyType
<1>3. CASE e.rc = "UNHANDLED"
  <2>1. SendDcw(found)
    BY <1>3 DEF FromCache, HaveCw, found
  <2>2. found.checked < 2
    BY <1>1, <1>3 DEF RequestType, Request_, HaveCw
  <2>3. QED BY <1>1, <2>1, <2>2, SendDcwType DEF Answered
<1>4. CASE e.rc \notin HaveCw /\ e.rc # "UNHANDLED"
  <2>1. er' = found /\ replies' = replies
    BY <1>4 DEF FromCache, found
  <2>2. QED BY <1>1, <2>1 DEF RequestType, ReplyType
<1>5. QED BY <1>2, <1>3, <1>4

\* What the client's thread leaves alone.
LEMMA FrameTypes ==
    ASSUME TypeInv, RequestType', AnswerType', DOMAIN ea' = DOMAIN ea, JobType', ReplyType',
           UNCHANGED <<cache, age, clearing>>
    PROVE  TypeInv'
BY DEF TypeInv, CacheType, ClearingType

LEMMA JobsKeepType ==
    ASSUME JobType, DOMAIN ea' = DOMAIN ea, jobs' = jobs \/ (jobs # <<>> /\ jobs' = Tail(jobs))
    PROVE  JobType'
<1>1. CASE jobs' = jobs
  BY <1>1 DEF JobType
<1>2. CASE jobs # <<>> /\ jobs' = Tail(jobs)
  <2>1. /\ Tail(jobs) \in Seq(Job) /\ DOMAIN Tail(jobs) = 1 .. Len(jobs) - 1
        /\ \A i \in DOMAIN Tail(jobs) : Tail(jobs)[i] = jobs[i + 1] /\ i + 1 \in DOMAIN jobs
    BY <1>2 DEF JobType
  <2>2. QED BY <1>2, <2>1 DEF JobType
<1>3. QED BY <1>1, <1>2

\* One more job, with one whose reader is a matching one.
LEMMA JobAddedType ==
    ASSUME JobType, DOMAIN ea' = DOMAIN ea, NEW q \in {jobs, Tail(jobs)}, jobs # <<>> \/ q = jobs,
           NEW job \in Job, job[1] = "answer" => job[2] \in DOMAIN ea, jobs' = Append(q, job)
    PROVE  JobType'
<1>1. q \in Seq(Job) /\ \A i \in DOMAIN q : q[i][1] = "answer" => q[i][2] \in DOMAIN ea
  <2>1. CASE q = jobs
    BY <2>1 DEF JobType
  <2>2. CASE q # jobs
    <3>1. /\ Tail(jobs) \in Seq(Job) /\ DOMAIN Tail(jobs) = 1 .. Len(jobs) - 1
          /\ \A i \in DOMAIN Tail(jobs) : Tail(jobs)[i] = jobs[i + 1] /\ i + 1 \in DOMAIN jobs
      BY <2>2 DEF JobType
    <3>2. QED BY <2>2, <3>1 DEF JobType
  <2>3. QED BY <2>1, <2>2
<1>2. /\ jobs' \in Seq(Job) /\ DOMAIN jobs' = 1 .. Len(q) + 1
      /\ jobs'[Len(q) + 1] = job
      /\ \A i \in 1 .. Len(q) : jobs'[i] = q[i] /\ i \in DOMAIN q
  BY <1>1
<1>3. \A i \in DOMAIN jobs' : jobs'[i][1] = "answer" => jobs'[i][2] \in DOMAIN ea
  BY <1>1, <1>2
<1>4. QED BY <1>2, <1>3 DEF JobType

\* A step of the client's thread that asks readers or just moves on.
LEMMA AskTypes ==
    ASSUME TypeInv, NEW e \in Request_, e.rc = er.rc, e.checked = er.checked,
           (er' = e /\ ea' = ea) \/ \E stop : Request(stop, e)
    PROVE  RequestType' /\ AnswerType' /\ DOMAIN ea' = DOMAIN ea
<1>1. CASE er' = e /\ ea' = ea
  BY <1>1 DEF TypeInv, RequestType, AnswerType
<1>2. ASSUME NEW stop, Request(stop, e)
      PROVE  RequestType' /\ AnswerType' /\ DOMAIN ea' = DOMAIN ea
  BY <1>2, RequestTypes DEF TypeInv, RequestType
<1>3. QED BY <1>1, <1>2

LEMMA SendTypes ==
    ASSUME TypeInv, er.rc = "UNHANDLED", NEW e \in Request_, e.rc \in Answered,
           e.checked = er.checked, SendDcw(e)
    PROVE  RequestType' /\ ReplyType'
<1>1. e.checked < 2
  BY DEF TypeInv, RequestType, Request_, HaveCw
<1>2. QED BY <1>1, SendDcwType DEF TypeInv

LEMMA GetCwTypes == TypeInv /\ IInv /\ GetCw => TypeInv'
<1> SUFFICES ASSUME TypeInv, IInv, GetCw PROVE TypeInv'
  OBVIOUS
<1>1. /\ er \in Request_ /\ er.rc = "UNHANDLED" /\ er.checked < 2
      /\ UNCHANGED <<jobs, cache, age, clearing>>
  BY DEF GetCw, GetCwCached, GetCwNoReader, GetCwRequest, IInv, Fresh, TypeInv, RequestType, HaveCw,
         Request_
<1>2. CASE GetCwCached
  <2> DEFINE e == [er EXCEPT !.state = "freed"]
  <2>1. PICK c \in cache : FromCache(e, c)
    BY <1>2 DEF GetCwCached
  <2>2. e \in Request_ /\ e.rc = er.rc /\ e.checked = er.checked
    BY <1>1 DEF Request_
  <2>3. c \in Cached /\ ea' = ea
    BY <1>2, <2>1 DEF TypeInv, CacheType, GetCwCached
  <2> HIDE DEF e
  <2>4. RequestType' /\ ReplyType'
    BY <2>1, <2>2, <2>3, FromCacheTypes DEF TypeInv
  <2>5. QED BY <1>1, <2>3, <2>4, FrameTypes, JobsKeepType DEF TypeInv, AnswerType
<1>3. CASE GetCwNoReader
  <2> DEFINE a == [er EXCEPT !.rc = "NOTFOUND"]
             e == [a EXCEPT !.state = "freed"]
  <2>1. SendDcw(e) /\ ea' = ea
    BY <1>3 DEF GetCwNoReader
  <2>2. a \in Request_ /\ a.rc = "NOTFOUND" /\ a.checked = er.checked
    BY <1>1 DEF Request_, Answered
  <2> HIDE DEF a
  <2>3. e \in Request_ /\ e.rc \in Answered /\ e.checked = er.checked
    BY <2>2 DEF Request_, Answered
  <2> HIDE DEF e
  <2>4. RequestType' /\ ReplyType'
    BY <1>1, <2>1, <2>3, SendTypes
  <2>5. QED BY <1>1, <2>1, <2>4, FrameTypes, JobsKeepType DEF TypeInv, AnswerType
<1>4. CASE GetCwRequest
  <2> DEFINE e == [er EXCEPT !.state = "ecmcwcache"]
  <2>1. e \in Request_ /\ e.rc = er.rc /\ e.checked = er.checked
    BY <1>1 DEF Request_
  <2>2. replies' = replies /\ ((er' = e /\ ea' = ea) \/ \E stop : Request(stop, e))
    BY <1>4 DEF GetCwRequest
  <2> HIDE DEF e
  <2>3. RequestType' /\ AnswerType' /\ DOMAIN ea' = DOMAIN ea
    BY <2>1, <2>2, AskTypes
  <2>4. QED BY <1>1, <2>2, <2>3, FrameTypes, JobsKeepType DEF TypeInv, ReplyType
<1>5. QED BY <1>2, <1>3, <1>4 DEF GetCw

LEMMA ChkDcwTypes == TypeInv /\ IInv /\ ChkDcw => TypeInv'
<1> SUFFICES ASSUME TypeInv, IInv, ChkDcw PROVE TypeInv'
  OBVIOUS
<1> DEFINE r == jobs[1][2]
<1>1. er \in Request_ /\ er.rc \in Rcs /\ UNCHANGED <<cache, age, clearing>>
  BY DEF TypeInv, RequestType, ChkDcw, Take, IInv
<1>2. /\ jobs # <<>> /\ jobs' = Tail(jobs)
      /\ r \in DOMAIN ea /\ DOMAIN ea \subseteq Readers /\ ea[r] \in EcmAnswer
  <2>1. jobs # <<>> /\ jobs[1][1] = "answer" /\ jobs' = Tail(jobs)
    BY DEF ChkDcw, Take
  <2>2. 1 \in DOMAIN jobs
    BY <2>1 DEF TypeInv, JobType
  <2>3. QED BY <2>1, <2>2 DEF TypeInv, JobType, AnswerType
<1> HIDE DEF r
<1>3. SUFFICES \/ RequestType' /\ AnswerType' /\ DOMAIN ea' = DOMAIN ea /\ replies' = replies
               \/ RequestType' /\ ReplyType' /\ ea' = ea
  BY <1>1, <1>2, FrameTypes, JobsKeepType DEF TypeInv, ReplyType, AnswerType
<1>4. CASE er' = er /\ ea' = ea /\ replies' = replies
  BY <1>4 DEF TypeInv, RequestType, AnswerType
<1>5. CASE ~Done /\ r \in CacheexReaders
  <2>1. replies' = replies /\ ((er' = er /\ ea' = ea) \/ Request(0, er))
    BY <1>5 DEF ChkDcw, ChkDcwCacheex, r
  <2>2. QED BY <1>1, <2>1, AskTypes
<1>6. CASE ~Done /\ r \notin CacheexReaders
  <2>1. er.rc = "UNHANDLED"
    BY <1>1, <1>6 DEF Done, Rcs
  <2> DEFINE s == [er EXCEPT !.selected = r]
  <2>2. s \in Request_ /\ s.rc = er.rc /\ s.checked = er.checked
    BY <1>1, <1>2 DEF Request_
  <2>3. CASE ea[r].rc = "FOUND"
    <3> DEFINE a == [er EXCEPT !.rc = "FOUND"]
               b == [a EXCEPT !.cw = ea[r].cw]
               e == [b EXCEPT !.selected = r]
    <3>1. SendDcw(e) /\ ea' = ea
      BY <1>6, <2>3 DEF ChkDcw, r
    <3>2. a \in Request_ /\ a.rc = "FOUND" /\ a.checked = er.checked
      BY <1>1 DEF Request_, Answered, HaveCw
    <3> HIDE DEF a
    <3>3. b \in Request_ /\ b.rc = "FOUND" /\ b.checked = er.checked
      BY <1>2, <3>2 DEF Request_, EcmAnswer
    <3> HIDE DEF b
    <3>4. e \in Request_ /\ e.rc \in Answered /\ e.checked = er.checked
      BY <1>2, <3>3 DEF Request_, Answered, HaveCw
    <3> HIDE DEF e
    <3>5. QED BY <2>1, <3>1, <3>4, SendTypes
  <2>4. CASE ea[r].rc \in {"NOTFOUND", "INVALID"}
    <3> DEFINE stage == IF NextStageDue THEN 4 ELSE s.stage
               a == [s EXCEPT !.rc = "NOTFOUND"]
               e == [a EXCEPT !.stage = stage]
    <3>1. ChkDcwNotFound(r)
      BY <1>6, <2>4 DEF ChkDcw, r
    <3>2. \/ SendDcw(e) /\ ea' = ea
          \/ ((er' = s /\ ea' = ea) \/ Request(0, s)) /\ replies' = replies
      BY <3>1 DEF ChkDcwNotFound
    <3>3. stage \in 0 .. 5
      BY <2>2 DEF Request_
    <3> HIDE DEF s, stage
    <3>4. a \in Request_ /\ a.rc = "NOTFOUND" /\ a.checked = er.checked
      BY <2>2 DEF Request_, Answered
    <3> HIDE DEF a
    <3>5. e \in Request_ /\ e.rc \in Answered /\ e.checked = er.checked
      BY <3>3, <3>4 DEF Request_, Answered
    <3> HIDE DEF e
    <3>6. QED BY <2>1, <2>2, <3>2, <3>5, AskTypes, SendTypes
  <2>5. CASE ea[r].rc \notin {"FOUND", "NOTFOUND", "INVALID"}
    <3>1. er' = s /\ ea' = ea /\ replies' = replies
      BY <1>6, <2>5 DEF ChkDcw, r
    <3> HIDE DEF s
    <3>2. QED BY <2>2, <3>1, AskTypes
  <2>6. QED BY <2>3, <2>4, <2>5
<1>7. CASE Done
  BY <1>4, <1>7 DEF ChkDcw
<1>8. QED BY <1>5, <1>6, <1>7

LEMMA CacheAnswerTypes == TypeInv /\ CacheAnswer => TypeInv'
<1> SUFFICES ASSUME TypeInv, CacheAnswer PROVE TypeInv'
  OBVIOUS
<1>1. /\ er \in Request_ /\ UNCHANGED <<cache, age, clearing>> /\ ea' = ea
      /\ jobs # <<>> /\ jobs' = Tail(jobs) /\ FromCache(er, jobs[1][2])
      /\ jobs[1][1] = "cache" /\ jobs[1] \in Job
  BY DEF TypeInv, RequestType, CacheAnswer, Take, JobType
<1>2. jobs[1][2] \in Cached
  BY <1>1 DEF Job, Cached
<1>3. RequestType' /\ ReplyType'
  BY <1>1, <1>2, FromCacheTypes DEF TypeInv
<1>4. QED BY <1>1, <1>3, FrameTypes, JobsKeepType DEF TypeInv, AnswerType

LEMMA StageTimersTypes ==
    TypeInv /\ (Mode1DelayOver \/ CacheexTimeout \/ FallbackTimeoutOver) => TypeInv'
<1> SUFFICES ASSUME TypeInv, Mode1DelayOver \/ CacheexTimeout \/ FallbackTimeoutOver
             PROVE  TypeInv'
  OBVIOUS
<1>1. er \in Request_ /\ UNCHANGED <<cache, age, clearing>> /\ jobs # <<>>
  BY DEF TypeInv, RequestType, Mode1DelayOver, CacheexTimeout, FallbackTimeoutOver, Take
<1>2. CASE Mode1DelayOver
  <2>1. /\ replies' = replies /\ jobs' = Tail(jobs)
        /\ (er' = er /\ ea' = ea) \/ Request(1, er)
    BY <1>2 DEF Mode1DelayOver
  <2>2. RequestType' /\ AnswerType' /\ DOMAIN ea' = DOMAIN ea
    BY <1>1, <2>1, AskTypes
  <2>3. QED BY <1>1, <2>1, <2>2, FrameTypes, JobsKeepType DEF TypeInv, ReplyType
<1>3. CASE FallbackTimeoutOver
  <2> DEFINE e == [er EXCEPT !.stage = 4]
  <2>1. /\ replies' = replies /\ jobs' = Tail(jobs)
        /\ \/ er' = er /\ ea' = ea
           \/ er' = e /\ \E busy : AskAll(StagesAfter(er.stage), busy)
    BY <1>3 DEF FallbackTimeoutOver
  <2>2. e \in Request_ /\ e.rc = er.rc /\ e.checked = er.checked
    BY <1>1 DEF Request_
  <2> HIDE DEF e
  <2>3. RequestType' /\ AnswerType' /\ DOMAIN ea' = DOMAIN ea
    BY <1>1, <2>1, <2>2, AskAllTypes DEF TypeInv, RequestType, AnswerType
  <2>4. QED BY <1>1, <2>1, <2>3, FrameTypes, JobsKeepType DEF TypeInv, ReplyType
<1>4. CASE CacheexTimeout
  <2> DEFINE e == [er EXCEPT !.wait_expired = TRUE]
             a == [e EXCEPT !.rc = "NOTFOUND"]
             s == [a EXCEPT !.selected = NoReader]
  <2>1. \/ /\ er' = e /\ ea' = ea /\ replies' = replies
           /\ \E c \in cache : jobs' = Append(Tail(jobs), <<"cache", c>>)
        \/ /\ jobs' = Tail(jobs)
           /\ \/ ((er' = e /\ ea' = ea) \/ Request(0, e)) /\ replies' = replies
              \/ er.rc = "UNHANDLED" /\ SendDcw(s) /\ ea' = ea
    BY <1>4 DEF CacheexTimeout
  <2>2. e \in Request_ /\ e.rc = er.rc /\ e.checked = er.checked
    BY <1>1 DEF Request_
  <2> HIDE DEF e
  <2>3. a \in Request_ /\ a.rc = "NOTFOUND" /\ a.checked = er.checked
    BY <2>2 DEF Request_, Answered
  <2> HIDE DEF a
  <2>4. s \in Request_ /\ s.rc \in Answered /\ s.checked = er.checked
    BY <2>3 DEF Request_, Answered
  <2> HIDE DEF s
  <2>5. \/ RequestType' /\ AnswerType' /\ DOMAIN ea' = DOMAIN ea /\ replies' = replies
        \/ RequestType' /\ ReplyType' /\ ea' = ea
    BY <2>1, <2>2, <2>4, AskTypes, SendTypes
  <2>6. RequestType' /\ AnswerType' /\ DOMAIN ea' = DOMAIN ea /\ ReplyType'
    BY <2>5 DEF TypeInv, AnswerType, ReplyType
  <2>7. ASSUME NEW c \in cache, jobs' = Append(Tail(jobs), <<"cache", c>>) PROVE JobType'
    <3>1. <<"cache", c>> \in Job
      BY DEF TypeInv, CacheType, Cached, Job
    <3>2. <<"cache", c>>[1] # "answer"
      OBVIOUS
    <3> DEFINE job == <<"cache", c>>
    <3> HIDE DEF job
    <3>3. job \in Job /\ job[1] # "answer" /\ jobs' = Append(Tail(jobs), job)
      BY <2>7, <3>1, <3>2 DEF job
    <3>4. QED BY <1>1, <2>6, <3>3, JobAddedType DEF TypeInv
  <2>8. JobType'
    BY <1>1, <2>1, <2>6, <2>7, JobsKeepType DEF TypeInv
  <2>9. QED BY <1>1, <2>6, <2>8, FrameTypes
<1>5. QED BY <1>2, <1>3, <1>4

\* SetToSeq lists each reader of a finite set once.
LEMMA ReadersListed ==
    ASSUME NEW S \in SUBSET Readers
    PROVE  /\ Cardinality(S) \in Nat
           /\ \A i \in 1 .. Cardinality(S) : SetToSeq(S)[i] \in S
<1>1. IsFiniteSet(S)
  BY SortsAssumption, FS_Subset
<1>2. Cardinality(S) \in Nat /\ ExistsBijection(1 .. Cardinality(S), S)
  BY <1>1, FS_CardinalityType
<1>3. \E f \in [1 .. Cardinality(S) -> S] : IsInjective(f)
  BY <1>2 DEF ExistsBijection, Bijection, Injection, IsInjective
<1>4. SetToSeq(S) \in [1 .. Cardinality(S) -> S]
  BY <1>3 DEF SetToSeq
<1>5. QED BY <1>2, <1>4

LEMMA EcmTimeoutTypes == TypeInv /\ EcmTimeout => TypeInv'
<1> SUFFICES ASSUME TypeInv, EcmTimeout PROVE TypeInv'
  OBVIOUS
<1> DEFINE e == [er EXCEPT !.timeout_check = TRUE]
           s == [e EXCEPT !.rc = "TIMEOUT"]
           T == TimedOutReaders
           new == [i \in 1 .. Cardinality(T) |-> <<"answer", SetToSeq(T)[i]>>]
<1>1. er \in Request_ /\ UNCHANGED <<cache, age, clearing>> /\ jobs # <<>>
  BY DEF TypeInv, RequestType, EcmTimeout, Take
<1>2. \/ er' = e /\ jobs' = Tail(jobs) /\ ea' = ea /\ replies' = replies
      \/ /\ er.rc = "UNHANDLED" /\ SendDcw(s) /\ jobs' = Tail(jobs) \o new
         /\ ea' = [r \in DOMAIN ea |->
                     IF r \in T THEN [ea[r] EXCEPT !.status = @ \cup {"ANSWERED"},
                                                   !.rc = "TIMEOUT"]
                     ELSE ea[r]]
  BY DEF EcmTimeout
<1>3. e \in Request_ /\ e.rc = er.rc /\ e.checked = er.checked
  BY <1>1 DEF Request_
<1>4. T \subseteq DOMAIN ea /\ DOMAIN ea \subseteq Readers
  BY DEF TimedOutReaders, TypeInv, AnswerType
<1> HIDE DEF e, T
<1>5. s \in Request_ /\ s.rc \in Answered /\ s.checked = er.checked
  BY <1>3 DEF Request_, Answered
<1> HIDE DEF s
<1>6. CASE er' = e /\ jobs' = Tail(jobs) /\ ea' = ea /\ replies' = replies
  <2>1. RequestType' /\ AnswerType' /\ DOMAIN ea' = DOMAIN ea
    BY <1>3, <1>6, AskTypes
  <2>2. QED BY <1>1, <1>6, <2>1, FrameTypes, JobsKeepType DEF TypeInv, ReplyType
<1>7. CASE ~(er' = e /\ jobs' = Tail(jobs) /\ ea' = ea /\ replies' = replies)
  <2>1. RequestType' /\ ReplyType'
    BY <1>2, <1>5, <1>7, SendTypes
  <2>2. DOMAIN ea' = DOMAIN ea /\ AnswerType'
    <3>1. \A a \in EcmAnswer :
             [a EXCEPT !.status = @ \cup {"ANSWERED"}, !.rc = "TIMEOUT"] \in EcmAnswer
      BY DEF EcmAnswer, Flags, Answered
    <3>2. DOMAIN ea' = DOMAIN ea /\ \A r \in DOMAIN ea : ea'[r] \in EcmAnswer
      BY <1>2, <1>7, <3>1 DEF TypeInv, AnswerType
    <3>3. ea' = [r \in DOMAIN ea |-> ea'[r]]
      BY <1>2, <1>7
    <3>4. QED BY <1>4, <3>2, <3>3 DEF AnswerType
  <2>3. JobType'
    <3>1. JobType /\ DOMAIN ea' = DOMAIN ea /\ jobs' = Tail(jobs) \o new
      BY <1>2, <1>7, <2>2 DEF TypeInv
    <3>2. /\ Tail(jobs) \in Seq(Job)
          /\ \A i \in DOMAIN Tail(jobs) : Tail(jobs)[i][1] = "answer" => Tail(jobs)[i][2] \in DOMAIN ea
      <4>1. /\ Tail(jobs) \in Seq(Job) /\ DOMAIN Tail(jobs) = 1 .. Len(jobs) - 1
            /\ \A i \in DOMAIN Tail(jobs) : Tail(jobs)[i] = jobs[i + 1] /\ i + 1 \in DOMAIN jobs
        BY <1>1 DEF TypeInv, JobType
      <4>2. QED BY <4>1, <3>1 DEF JobType
    <3>3. /\ Cardinality(T) \in Nat
          /\ \A i \in 1 .. Cardinality(T) : SetToSeq(T)[i] \in DOMAIN ea
      BY <1>4, ReadersListed
    <3>4. \A r \in DOMAIN ea : <<"answer", r>> \in Job
      BY <1>4 DEF Job
    <3>5. new \in Seq(Job) /\ \A i \in DOMAIN new : new[i][2] \in DOMAIN ea
      BY <3>3, <3>4
    <3> DEFINE q == Tail(jobs)
    <3> HIDE DEF new, q
    <3>6. /\ q \o new \in Seq(Job)
          /\ \A i \in DOMAIN (q \o new) :
                \/ \E k \in DOMAIN q : (q \o new)[i] = q[k]
                \/ \E k \in DOMAIN new : (q \o new)[i] = new[k]
      BY <3>2, <3>5 DEF q
    <3>7. QED BY <3>1, <3>2, <3>5, <3>6 DEF JobType, q
  <2>4. QED BY <1>1, <2>1, <2>2, <2>3, FrameTypes
<1>8. QED BY <1>6, <1>7

LEMMA AnswerTypes ==
    ASSUME TypeInv, NEW r \in Readers, NEW rc \in Answered, NEW cw \in CWs \cup {NoCw},
           rc = "FOUND" => cw \in CWs, Answer(r, rc, cw)
    PROVE  TypeInv'
<1>1. r \in DOMAIN ea /\ DOMAIN ea \subseteq Readers /\ ea[r] \in EcmAnswer
  BY DEF Answer, Outstanding, TypeInv, AnswerType
<1>2. UNCHANGED <<er, age, clearing, replies>>
  BY DEF Answer
<1>3. DOMAIN ea' = DOMAIN ea /\ AnswerType'
  <2>1. [status |-> ea[r].status \cup {"ANSWERED"}, rc |-> rc, cw |-> cw,
        asked |-> FALSE] \in EcmAnswer
    BY <1>1 DEF EcmAnswer, Flags
  <2>2. QED BY <1>1, <2>1 DEF Answer, TypeInv, AnswerType
<1>4. JobType'
  <2> DEFINE job == <<"answer", r>>
  <2>1. job \in Job /\ job[2] = r
    BY DEF Job
  <2>2. jobs' = Append(jobs, job)
    BY DEF Answer
  <2> HIDE DEF job
  <2>3. QED BY <1>1, <1>3, <2>1, <2>2, JobAddedType DEF TypeInv
<1>5. cache' \subseteq Cached
  BY DEF Answer, TypeInv, CacheType, Cached
<1>6. QED
  BY <1>2, <1>3, <1>4, <1>5
     DEF TypeInv, RequestType, CacheType, ClearingType, ReplyType

LEMMA BadEcmBeginTypes ==
    ASSUME TypeInv, NEW r \in Readers, BadEcmBegin(r)
    PROVE  TypeInv'
<1>1. /\ r \in DOMAIN ea /\ UNCHANGED <<er, ea, jobs, cache, age, replies>>
      /\ DOMAIN clearing' = DOMAIN clearing \cup {r}
      /\ clearing'[r].status = [y \in DOMAIN ea |-> ea[y].status]
      /\ \A x \in DOMAIN clearing : clearing'[x].status = clearing[x].status \/ x = r
  BY DEF BadEcmBegin, Outstanding
<1>2. [y \in DOMAIN ea |-> ea[y].status] \in [DOMAIN ea -> SUBSET Flags]
  BY DEF TypeInv, AnswerType, EcmAnswer
<1>3. \A x \in DOMAIN clearing' : clearing'[x].status \in [DOMAIN ea -> SUBSET Flags]
  BY <1>1, <1>2 DEF TypeInv, ClearingType
<1>4. ClearingType'
  BY <1>1, <1>3 DEF TypeInv, ClearingType
<1>5. QED
  BY <1>1, <1>4 DEF TypeInv, RequestType, AnswerType, JobType, CacheType, ReplyType

LEMMA BadEcmEndTypes ==
    ASSUME TypeInv, NEW r \in Readers, BadEcmEnd(r)
    PROVE  TypeInv'
<1>1. /\ r \in DOMAIN ea /\ DOMAIN ea \subseteq Readers /\ r \in DOMAIN clearing
      /\ UNCHANGED <<cache, age, replies>>
  BY DEF BadEcmEnd, TypeInv, ClearingType, AnswerType
<1>2. RequestType'
  <2>1. PICK stage \in {5} \cup ({er.stage} \ {clearing[r].stage}) : er' = [er EXCEPT !.stage = stage]
    BY DEF BadEcmEnd
  <2>2. stage \in 0 .. 5
    BY DEF TypeInv, RequestType, Request_
  <2>3. QED BY <2>1, <2>2 DEF TypeInv, RequestType, Request_
<1>3. DOMAIN ea' = DOMAIN ea /\ AnswerType'
  <2>0. PICK undone \in SUBSET Raced(r) : \E lost \in SUBSET (Raced(r) \ undone) :
          ea' = [x \in DOMAIN ea |->
                  IF x = r
                    THEN [ea[x] EXCEPT !.rc = "INVALID", !.asked = FALSE,
                                       !.status = Inactive(@) \cup {"ANSWERED"}]
                  ELSE IF x \in undone THEN ea[x]
                  ELSE IF x \in lost
                    THEN [ea[x] EXCEPT !.status = Inactive(clearing[r].status[x])]
                  ELSE [ea[x] EXCEPT !.status = Inactive(@)]]
    BY DEF BadEcmEnd
  <2>1. PICK lost \in SUBSET (Raced(r) \ undone) :
          ea' = [x \in DOMAIN ea |->
                  IF x = r
                    THEN [ea[x] EXCEPT !.rc = "INVALID", !.asked = FALSE,
                                       !.status = Inactive(@) \cup {"ANSWERED"}]
                  ELSE IF x \in undone THEN ea[x]
                  ELSE IF x \in lost
                    THEN [ea[x] EXCEPT !.status = Inactive(clearing[r].status[x])]
                  ELSE [ea[x] EXCEPT !.status = Inactive(@)]]
    BY <2>0
  <2>2. \A S \in SUBSET Flags : /\ Inactive(S) \in SUBSET Flags
                                /\ Inactive(S) \cup {"ANSWERED"} \in SUBSET Flags
    BY DEF Inactive, Flags
  <2>3. \A a \in EcmAnswer : a.status \in SUBSET Flags
    BY DEF EcmAnswer
  <2>4. \A a \in EcmAnswer, S \in SUBSET Flags :
           /\ [a EXCEPT !.status = S] \in EcmAnswer
           /\ [a EXCEPT !.rc = "INVALID", !.asked = FALSE, !.status = S] \in EcmAnswer
    BY DEF EcmAnswer, Answered
  <2>5. \A x \in DOMAIN ea : /\ ea[x] \in EcmAnswer
                             /\ clearing[r].status[x] \in SUBSET Flags
    BY <1>1 DEF TypeInv, AnswerType, ClearingType
  <2>6. ASSUME NEW x \in DOMAIN ea PROVE ea'[x] \in EcmAnswer
    <3> DEFINE S == Inactive(ea[x].status) \cup {"ANSWERED"}
               T == Inactive(clearing[r].status[x])
               U == Inactive(ea[x].status)
    <3>0. S \in SUBSET Flags /\ T \in SUBSET Flags /\ U \in SUBSET Flags /\ ea[x] \in EcmAnswer
      BY <2>2, <2>3, <2>5
    <3>1. CASE x = r
      <4>1. ea'[x] = [ea[x] EXCEPT !.rc = "INVALID", !.asked = FALSE, !.status = S]
        BY <2>1, <3>0, <3>1 DEF EcmAnswer
      <4> HIDE DEF S
      <4>2. QED BY <2>4, <3>0, <4>1
    <3>2. CASE x # r
      <4>1. \/ ea'[x] = ea[x]
            \/ ea'[x] = [ea[x] EXCEPT !.status = T]
            \/ ea'[x] = [ea[x] EXCEPT !.status = U]
        BY <2>1, <3>2
      <4> HIDE DEF T, U
      <4>2. QED BY <2>4, <3>0, <4>1
    <3>3. QED BY <3>1, <3>2
  <2>7. DOMAIN ea' = DOMAIN ea /\ ea' = [x \in DOMAIN ea |-> ea'[x]]
    BY <2>1
  <2>8. QED BY <1>1, <2>6, <2>7 DEF AnswerType
<1>4. JobType'
  <2> DEFINE job == <<"answer", r>>
  <2>1. job \in Job /\ job[2] = r
    BY DEF Job
  <2>2. jobs' = Append(jobs, job)
    BY DEF BadEcmEnd
  <2> HIDE DEF job
  <2>3. QED BY <1>1, <1>3, <2>1, <2>2, JobAddedType DEF TypeInv
<1>5. ClearingType'
  <2>1. clearing' = [x \in DOMAIN clearing \ {r} |-> clearing[x]]
    BY DEF BadEcmEnd
  <2>2. QED BY <1>3, <2>1 DEF TypeInv, ClearingType
<1>6. QED BY <1>1, <1>2, <1>3, <1>4, <1>5 DEF TypeInv, CacheType, ReplyType

\* The threads that watch, the cache and the clock.
LEMMA OtherTypes ==
    ASSUME TypeInv, Watch \/ ChkCache \/ CachePush \/ Tick
    PROVE  TypeInv'
<1>1. UNCHANGED <<er, ea, clearing, replies>>
  BY DEF Watch, CacheexTimer, Mode1Timer, FallbackTimer, ClientTimer, ChkCache, CachePush, Tick,
         AddJob
<1>2. CacheType'
  <2>1. CASE Tick
    BY <2>1, TimesAssumption DEF Tick, TypeInv, CacheType
  <2>2. CASE CachePush
    BY <2>2 DEF CachePush, TypeInv, CacheType, Cached
  <2>3. CASE Watch \/ ChkCache
    BY <2>3 DEF Watch, CacheexTimer, Mode1Timer, FallbackTimer, ClientTimer, ChkCache, AddJob,
                TypeInv, CacheType
  <2>4. QED BY <2>1, <2>2, <2>3
<1>3. JobType'
  <2>1. CASE CachePush \/ Tick
    BY <1>1, <2>1, JobsKeepType DEF CachePush, Tick, TypeInv
  <2>2. ASSUME NEW job \in Job, job[1] # "answer", AddJob(job) PROVE JobType'
    BY <1>1, <2>2, JobAddedType DEF AddJob, TypeInv
  <2>3. CASE ChkCache
    <3>1. PICK c \in cache : AddJob(<<"cache", c>>)
      BY <2>3 DEF ChkCache
    <3>2. <<"cache", c>> \in Job /\ <<"cache", c>>[1] # "answer"
      BY DEF TypeInv, CacheType, Cached, Job
    <3>3. QED BY <2>2, <3>1, <3>2
  <2>4. CASE Watch
    <3>1. PICK action \in {"mode1_delay", "cacheex_timeout", "fallback_timeout", "ecm_timeout"} :
             AddJob(Timer(action))
      BY <2>4, Zenon DEF Watch, CacheexTimer, Mode1Timer, FallbackTimer, ClientTimer
    <3>2. Timer(action) \in Job /\ Timer(action)[1] # "answer"
      BY DEF Timer, Job
    <3>3. QED BY <2>2, <3>1, <3>2
  <2>5. QED BY <2>1, <2>3, <2>4
<1>4. QED BY <1>1, <1>2, <1>3 DEF TypeInv, RequestType, AnswerType, ClearingType, ReplyType

LEMMA InitTypes == Init => TypeInv
<1> SUFFICES ASSUME Init PROVE TypeInv
  OBVIOUS
<1>1. RequestType
  BY ConfigAssumption DEF Init, RequestType, Request_, HaveCw
<1>2. AnswerType
  <2>1. PICK matching \in SUBSET Readers, prefer \in 0 .. 2 : ea = InitialAnswers(matching, prefer)
    BY DEF Init
  <2>2. \A r \in matching : InitialStatus(r, prefer) \in SUBSET Flags
    BY DEF InitialStatus, Flags
  <2>3. QED BY <2>1, <2>2 DEF InitialAnswers, AnswerType, EcmAnswer
<1>3. JobType /\ ReplyType /\ CacheType /\ ClearingType
  BY TimesAssumption DEF Init, JobType, ReplyType, CacheType, Cached, ClearingType
<1>4. QED BY <1>1, <1>2, <1>3 DEF TypeInv

LEMMA StepTypes ==
    ASSUME TypeInv, IInv, [Next]_vars
    PROVE  TypeInv'
<1>1. ASSUME NEW r \in Readers, AnswerFound(r) \/ AnswerNotFound(r) PROVE TypeInv'
  BY <1>1, AnswerTypes DEF AnswerFound, AnswerNotFound, Answered, HaveCw
<1>2. CASE UNCHANGED vars
  BY <1>2 DEF vars, TypeInv, RequestType, AnswerType, JobType, CacheType, ClearingType, ReplyType
<1>3. QED
  BY <1>1, <1>2, GetCwTypes, ChkDcwTypes, CacheAnswerTypes, StageTimersTypes, EcmTimeoutTypes,
     BadEcmBeginTypes, BadEcmEndTypes, OtherTypes DEF Next, Work

LEMMA TypeAlways == Spec => []TypeInv
<1>1. TypeInv /\ IInv /\ [Next]_vars => TypeInv'
  BY StepTypes
<1>2. QED BY <1>1, InitTypes, InitEstablishes, StepPreserves, PTL DEF Spec

\* Every variable of a request keeps its type, for every set of readers and CWs
\* and all times.
THEOREM TypeCorrect == Spec => []TypeOK
<1>1. TypeInv => TypeOK
  BY DEF TypeInv, RequestType, AnswerType, JobType, CacheType, Cached, ClearingType, ReplyType, Reply,
         TypeOK
<1>2. QED BY <1>1, TypeAlways, PTL
=============================================================================
