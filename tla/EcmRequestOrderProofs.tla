-------------------------- MODULE EcmRequestOrderProofs --------------------------
(***************************************************************************)
(* What is asked and sent in which order: fallbacks last, no CW lost on    *)
(* its way to the client, a checked CW given by two readers, an answer     *)
(* once no reader is left.  All of it for every finite set of readers,     *)
(* also when answers "wrong checksum" write to the readers' status without *)
(* their locks.                                                            *)
(***************************************************************************)
EXTENDS EcmRequestProofs

----------------------------------------------------------------------------
(* The fallbacks *)

\* Who was asked belongs to the stages that were passed; status is what ea or
\* a reader in the middle of "wrong checksum" holds for r.
StatusFits(stage, r, status) ==
    /\ "CACHEEX" \in status => r \in CacheexReaders
    /\ "SENT" \in status /\ r \notin CacheexReaders =>
         stage >= 2 /\ (stage = 2 => "LOCAL" \in status)

\* What such a reader will write back asks no active reader.
StageInv ==
    \A r \in DOMAIN ea :
      /\ StatusFits(er.stage, r, ea[r].status)
      /\ \A q \in DOMAIN clearing :
           /\ StatusFits(er.stage, r, clearing[q].status[r])
           /\ "ACTIVE" \in ea[r].status /\ "SENT" \in clearing[q].status[r]
                => "SENT" \in ea[r].status

\* The steps that ask nobody
AsksNobody ==
    /\ DOMAIN ea' = DOMAIN ea
    /\ \A r \in DOMAIN ea : ea'[r].status \in {ea[r].status, ea[r].status \cup {"ANSWERED"}}
    /\ er'.stage \in er.stage .. 5

\* The steps that ask the readers of the next stages
AsksNext ==
    \E e \in Request_ : /\ e.stage = er.stage /\ (er.stage < 2 \/ NextStageDue)
                        /\ \E stop : Request(stop, e)

LEMMA SendKeepsStage ==
    ASSUME NEW e, DOMAIN e = Fields, SendDcw(e)
    PROVE  er'.stage = e.stage
<1> DEFINE c == IF Checks(e) THEN Compare(e) ELSE e
<1>1. DOMAIN c = Fields /\ c.stage = e.stage
  BY DEF Compare, Fields
<1> HIDE DEF c
<1>2. er' = [c EXCEPT !.rc = "UNHANDLED"] \/ er' = c
  BY DEF SendDcw, c
<1>3. QED BY <1>1, <1>2 DEF Fields

LEMMA StageType ==
    ASSUME TypeInv, IInv
    PROVE  /\ er \in Request_ /\ DOMAIN er = Fields /\ er.stage \in 0 .. 5
           /\ ea' = ea /\ er'.stage \in er.stage .. 5 => AsksNobody
BY DEF TypeInv, RequestType, Request_, IInv, AsksNobody

LEMMA ChkDcwStages ==
    ASSUME TypeInv, IInv, ChkDcw
    PROVE  AsksNobody \/ AsksNext
<1> DEFINE r == jobs[1][2]
<1>1. /\ er \in Request_ /\ DOMAIN er = Fields /\ er.stage \in 0 .. 5
      /\ ea' = ea /\ er'.stage \in er.stage .. 5 => AsksNobody
  BY StageType
<1>2. CASE er' = er /\ ea' = ea
  BY <1>1, <1>2
<1>3. CASE ~Done /\ r \in CacheexReaders
  <2>1. (er' = er /\ ea' = ea) \/ (er.stage = 1 /\ Request(0, er))
    BY <1>3 DEF ChkDcw, ChkDcwCacheex
  <2>2. QED BY <1>1, <1>2, <2>1 DEF AsksNext
<1>4. CASE ~Done /\ r \notin CacheexReaders /\ ea[r].rc = "FOUND"
  <2> DEFINE e == [er EXCEPT !.rc = "FOUND", !.cw = ea[r].cw, !.selected = r]
  <2>1. SendDcw(e) /\ ea' = ea
    BY <1>4 DEF ChkDcw
  <2>2. DOMAIN e = Fields /\ e.stage = er.stage
    BY <1>1 DEF Fields
  <2> HIDE DEF e
  <2>3. er'.stage = er.stage
    BY <2>1, <2>2, SendKeepsStage
  <2>4. QED BY <1>1, <2>1, <2>3
<1>5. CASE ~Done /\ r \notin CacheexReaders /\ ea[r].rc \in {"NOTFOUND", "INVALID"}
  <2> DEFINE s == [er EXCEPT !.selected = r]
             stage == IF NextStageDue THEN 4 ELSE s.stage
             e == [s EXCEPT !.rc = "NOTFOUND", !.stage = stage]
  <2>1. ChkDcwNotFound(r)
    BY <1>5 DEF ChkDcw
  <2>2. \/ SendDcw(e) /\ ea' = ea
        \/ er' = s /\ ea' = ea
        \/ NextStageDue /\ Request(0, s)
    BY <2>1 DEF ChkDcwNotFound
  <2>3. r \in Readers
    <3>1. jobs # <<>> /\ jobs[1][1] = "answer"
      BY DEF ChkDcw, Take
    <3>2. 1 \in DOMAIN jobs
      BY <3>1 DEF TypeInv, JobType
    <3>3. QED BY <3>1, <3>2 DEF TypeInv, JobType, AnswerType
  <2> HIDE DEF r
  <2>4. s \in Request_ /\ DOMAIN s = Fields /\ s.stage = er.stage
    BY <1>1, <2>3 DEF Request_, Fields
  <2>5. stage \in er.stage .. 5
    BY <1>1, <2>4 DEF NextStageDue
  <2> HIDE DEF s, stage
  <2>6. DOMAIN e = Fields /\ e.stage = stage
    BY <2>4 DEF Fields
  <2> HIDE DEF e
  <2>7. CASE SendDcw(e) /\ ea' = ea
    BY <1>1, <2>5, <2>6, <2>7, SendKeepsStage
  <2>8. CASE er' = s /\ ea' = ea
    BY <1>1, <2>4, <2>8
  <2>9. CASE NextStageDue /\ Request(0, s)
    BY <2>4, <2>9 DEF AsksNext
  <2>10. QED BY <2>2, <2>7, <2>8, <2>9
<1>6. CASE ~Done /\ r \notin CacheexReaders /\ ea[r].rc \notin {"FOUND", "NOTFOUND", "INVALID"}
  <2>1. er' = [er EXCEPT !.selected = r] /\ ea' = ea
    BY <1>6 DEF ChkDcw
  <2>2. er'.stage = er.stage
    BY <1>1, <2>1 DEF Fields
  <2>3. QED BY <1>1, <2>1, <2>2
<1>7. CASE Done
  BY <1>2, <1>7 DEF ChkDcw
<1>8. QED BY <1>3, <1>4, <1>5, <1>6, <1>7

LEMMA FromCacheKeepsStage ==
    ASSUME NEW e, NEW c, DOMAIN e = Fields, FromCache(e, c)
    PROVE  er'.stage = e.stage
<1> DEFINE found == [e EXCEPT !.rc = IF c[2] = Peer THEN "CACHEEX" ELSE "CACHE1",
                              !.cw = c[1], !.selected = CacheReader(c)]
<1>1. DOMAIN found = Fields /\ found.stage = e.stage
  BY DEF Fields
<1>2. er' = e \/ er' = found \/ SendDcw(found)
  BY DEF FromCache
<1> HIDE DEF found
<1>3. QED BY <1>1, <1>2, SendKeepsStage

\* The next readers are asked before the first stage of proxies or when the ones
\* of a stage are done, or all by the fallback time-out.
LEMMA StageSteps ==
    ASSUME TypeInv, IInv, [Next]_vars
    PROVE  \/ AsksNobody /\ (clearing' = clearing \/ \E r \in Readers : BadEcmBegin(r))
           \/ AsksNext /\ clearing' = clearing
           \/ FallbackTimeoutOver
           \/ \E r \in Readers : BadEcmEnd(r)
<1>1. /\ er \in Request_ /\ DOMAIN er = Fields /\ er.stage \in 0 .. 5
      /\ ea' = ea /\ er'.stage \in er.stage .. 5 => AsksNobody
  BY StageType
<1>2. CASE GetCw
  <2>1. er.state = "new" /\ clearing' = clearing
    BY <1>2 DEF GetCw, GetCwCached, GetCwNoReader, GetCwRequest
  <2>2. CASE GetCwCached
    <3> DEFINE e == [er EXCEPT !.state = "freed"]
    <3>1. (\E c : FromCache(e, c)) /\ ea' = ea
      BY <2>2 DEF GetCwCached
    <3>2. DOMAIN e = Fields /\ e.stage = er.stage
      BY <1>1 DEF Fields
    <3> HIDE DEF e
    <3>3. QED BY <1>1, <2>1, <3>1, <3>2, FromCacheKeepsStage
  <2>3. CASE GetCwNoReader
    <3> DEFINE e == [er EXCEPT !.rc = "NOTFOUND", !.state = "freed"]
    <3>1. SendDcw(e) /\ ea' = ea
      BY <2>3 DEF GetCwNoReader
    <3>2. DOMAIN e = Fields /\ e.stage = er.stage
      BY <1>1 DEF Fields
    <3> HIDE DEF e
    <3>3. QED BY <1>1, <2>1, <3>1, <3>2, SendKeepsStage
  <2>4. CASE GetCwRequest
    <3> DEFINE e == [er EXCEPT !.state = "ecmcwcache"]
    <3>1. (er' = e /\ ea' = ea) \/ \E stop : Request(stop, e)
      BY <2>4 DEF GetCwRequest
    <3>2. e \in Request_ /\ e.stage = er.stage
      BY <1>1 DEF Request_
    <3>3. er.stage = 0
      BY <2>1 DEF IInv, Fresh
    <3> HIDE DEF e
    <3>4. QED BY <1>1, <2>1, <3>1, <3>2, <3>3 DEF AsksNext
  <2>5. QED BY <1>2, <2>2, <2>3, <2>4 DEF GetCw
<1>3. CASE Work
  <2>1. clearing' = clearing
    BY <1>3 DEF Work, ChkDcw, CacheAnswer, Mode1DelayOver, CacheexTimeout, FallbackTimeoutOver,
                EcmTimeout, Take
  <2>2. CASE CacheAnswer
    <3>1. FromCache(er, jobs[1][2]) /\ ea' = ea
      BY <2>2 DEF CacheAnswer
    <3>2. QED BY <1>1, <2>1, <3>1, FromCacheKeepsStage
  <2>3. CASE Mode1DelayOver
    <3>1. (er' = er /\ ea' = ea) \/ (er.stage = 0 /\ Request(1, er))
      BY <2>3 DEF Mode1DelayOver
    <3>2. QED BY <1>1, <2>1, <3>1 DEF AsksNext
  <2>4. CASE CacheexTimeout
    <3> DEFINE e == [er EXCEPT !.wait_expired = TRUE]
               s == [e EXCEPT !.rc = "NOTFOUND", !.selected = NoReader]
    <3>1. \/ er' = e /\ ea' = ea
          \/ er.stage < 2 /\ Request(0, e)
          \/ SendDcw(s) /\ ea' = ea
      BY <2>4 DEF CacheexTimeout
    <3>2. e \in Request_ /\ DOMAIN e = Fields /\ e.stage = er.stage
      BY <1>1 DEF Request_, Fields
    <3> HIDE DEF e
    <3>3. DOMAIN s = Fields /\ s.stage = er.stage
      BY <3>2 DEF Fields
    <3> HIDE DEF s
    <3>4. QED BY <1>1, <2>1, <3>1, <3>2, <3>3, SendKeepsStage DEF AsksNext
  <2>5. CASE EcmTimeout
    <3> DEFINE e == [er EXCEPT !.timeout_check = TRUE]
               s == [er EXCEPT !.timeout_check = TRUE, !.rc = "TIMEOUT"]
    <3>1. er' = e \/ SendDcw(s)
      BY <2>5 DEF EcmTimeout
    <3>2. DOMAIN e = Fields /\ e.stage = er.stage /\ DOMAIN s = Fields /\ s.stage = er.stage
      BY <1>1 DEF Fields
    <3> HIDE DEF e, s
    <3>3. er'.stage = er.stage
      BY <3>1, <3>2, SendKeepsStage
    <3>4. /\ DOMAIN ea' = DOMAIN ea
          /\ \A r \in DOMAIN ea :
               ea'[r].status \in {ea[r].status, ea[r].status \cup {"ANSWERED"}}
      <4>1. \A a \in EcmAnswer :
              [a EXCEPT !.status = @ \cup {"ANSWERED"}, !.rc = "TIMEOUT"].status
                = a.status \cup {"ANSWERED"}
        BY DEF EcmAnswer
      <4>2. \A r \in DOMAIN ea : ea[r] \in EcmAnswer
        BY DEF TypeInv, AnswerType
      <4>3. QED BY <2>5, <4>1, <4>2 DEF EcmTimeout
    <3>5. QED BY <1>1, <2>1, <3>3, <3>4 DEF AsksNobody
  <2>6. QED BY <1>3, <2>1, <2>2, <2>3, <2>4, <2>5, ChkDcwStages DEF Work
<1>4. ASSUME NEW r \in Readers, AnswerFound(r) \/ AnswerNotFound(r)
      PROVE  AsksNobody /\ clearing' = clearing
  <2>1. PICK rc, cw : Answer(r, rc, cw)
    BY <1>4 DEF AnswerFound, AnswerNotFound
  <2>2. QED BY <1>1, <2>1 DEF Answer, AsksNobody, TypeInv, AnswerType
<1>5. ASSUME NEW r \in Readers, BadEcmBegin(r) PROVE AsksNobody
  BY <1>1, <1>5 DEF BadEcmBegin
<1>6. CASE \/ Watch \/ ChkCache \/ CachePush \/ Tick
           \/ UNCHANGED vars
  <2>1. UNCHANGED <<er, ea, clearing>>
    BY <1>6 DEF Watch, CacheexTimer, Mode1Timer, FallbackTimer, ClientTimer, ChkCache, CachePush,
                Tick, AddJob, vars
  <2>2. QED BY <1>1, <2>1
<1>7. QED BY <1>2, <1>3, <1>4, <1>5, <1>6 DEF Next

\* The stage only rises, and what fitted still fits.
LEMMA FitsLater ==
    ASSUME NEW r, NEW status, NEW stage \in 0 .. 5, NEW later \in stage .. 5,
           StatusFits(stage, r, status)
    PROVE  /\ StatusFits(later, r, status)
           /\ StatusFits(later, r, status \cup {"ANSWERED"})
BY DEF StatusFits

LEMMA AsksNobodyFits ==
    ASSUME TypeInv, IInv, StageInv, AsksNobody,
           clearing' = clearing \/ \E r \in Readers : BadEcmBegin(r)
    PROVE  StageInv'
<1>1. er.stage \in 0 .. 5 /\ er'.stage \in er.stage .. 5 /\ DOMAIN ea' = DOMAIN ea
  BY StageType DEF AsksNobody
<1>2. ASSUME NEW r \in DOMAIN ea
      PROVE  /\ ea'[r].status \in {ea[r].status, ea[r].status \cup {"ANSWERED"}}
             /\ StatusFits(er'.stage, r, ea[r].status)
             /\ StatusFits(er'.stage, r, ea'[r].status)
             /\ \A q \in DOMAIN clearing : StatusFits(er'.stage, r, clearing[q].status[r])
  <2>1. ea'[r].status \in {ea[r].status, ea[r].status \cup {"ANSWERED"}}
    BY DEF AsksNobody
  <2>2. /\ StatusFits(er.stage, r, ea[r].status)
        /\ \A q \in DOMAIN clearing : StatusFits(er.stage, r, clearing[q].status[r])
    BY DEF StageInv
  <2>3. /\ StatusFits(er'.stage, r, ea[r].status)
        /\ StatusFits(er'.stage, r, ea[r].status \cup {"ANSWERED"})
    BY <1>1, <2>2, FitsLater
  <2>4. \A q \in DOMAIN clearing : StatusFits(er'.stage, r, clearing[q].status[r])
    BY <1>1, <2>2, FitsLater
  <2>5. QED BY <2>1, <2>3, <2>4
<1>3. CASE clearing' = clearing
  <2>1. ASSUME NEW r \in DOMAIN ea, NEW q \in DOMAIN clearing,
               "ACTIVE" \in ea'[r].status, "SENT" \in clearing[q].status[r]
        PROVE  "SENT" \in ea'[r].status
    <3>1. "ACTIVE" \in ea[r].status
      BY <1>2, <2>1
    <3>2. "SENT" \in ea[r].status
      BY <2>1, <3>1 DEF StageInv
    <3>3. QED BY <1>2, <3>2
  <2>2. QED BY <1>1, <1>2, <1>3, <2>1 DEF StageInv
<1>4. ASSUME NEW x \in Readers, BadEcmBegin(x) PROVE StageInv'
  <2>1. /\ DOMAIN clearing' = DOMAIN clearing \cup {x}
        /\ clearing'[x].status = [y \in DOMAIN ea |-> ea[y].status]
        /\ \A q \in DOMAIN clearing : clearing'[q].status = clearing[q].status \/ q = x
        /\ ea' = ea
    BY <1>4 DEF BadEcmBegin
  <2>2. ASSUME NEW r \in DOMAIN ea, NEW q \in DOMAIN clearing'
        PROVE  \/ clearing'[q].status[r] = ea[r].status
               \/ q \in DOMAIN clearing /\ clearing'[q].status[r] = clearing[q].status[r]
    <3>1. CASE q = x
      BY <2>1, <3>1
    <3>2. CASE q # x
      BY <2>1, <2>2, <3>2
    <3>3. QED BY <3>1, <3>2
  <2>3. \A r \in DOMAIN ea : \A q \in DOMAIN clearing' :
           /\ StatusFits(er'.stage, r, clearing'[q].status[r])
           /\ "ACTIVE" \in ea[r].status /\ "SENT" \in clearing'[q].status[r]
                => "SENT" \in ea[r].status
    BY <1>2, <2>2 DEF StageInv
  <2>4. QED BY <1>2, <2>1, <2>3 DEF StageInv
<1>5. QED BY <1>3, <1>4

\* A reader that is asked belongs to a stage up to the new one.
LEMMA AskedFits ==
    ASSUME NEW s \in 1 .. 4, NEW last \in s .. 5, NEW busy,
           NEW r \in Asked(s, busy), "CACHEEX" \in ea[r].status => r \in CacheexReaders
    PROVE  StatusFits(last, r, ea[r].status \cup {"SENT"})
<1>1. Eligible(r, s)
  BY DEF Asked
<1>2. CASE s = 1
  BY <1>1, <1>2 DEF Eligible, Is, StatusFits
<1>3. CASE s = 2
  BY <1>1, <1>3 DEF Eligible, Is, StatusFits
<1>4. CASE s \in 3 .. 4
  BY <1>4 DEF StatusFits
<1>5. QED BY <1>2, <1>3, <1>4

\* Asking the stages up to the new one.
LEMMA AskAllFits ==
    ASSUME TypeInv, IInv, StageInv, NEW S \in SUBSET (1 .. 4), NEW busy, AskAll(S, busy),
           er'.stage \in er.stage .. 5, \A s \in S : s <= er'.stage, clearing' = clearing
    PROVE  StageInv'
<1>1. er.stage \in 0 .. 5 /\ DOMAIN ea' = DOMAIN ea
  BY StageType DEF AskAll
<1>2. ASSUME NEW r \in DOMAIN ea
      PROVE  /\ StatusFits(er'.stage, r, ea'[r].status)
             /\ \A q \in DOMAIN clearing : StatusFits(er'.stage, r, clearing[q].status[r])
             /\ \/ ea'[r].status = ea[r].status
                \/ ea'[r].status = ea[r].status \cup {"SENT"}
  <2>1. /\ StatusFits(er.stage, r, ea[r].status)
        /\ \A q \in DOMAIN clearing : StatusFits(er.stage, r, clearing[q].status[r])
    BY DEF StageInv
  <2>2. \A q \in DOMAIN clearing : StatusFits(er'.stage, r, clearing[q].status[r])
    BY <1>1, <2>1, FitsLater
  <2>3. CASE \E s \in S : r \in Asked(s, busy)
    <3>1. PICK s \in S : r \in Asked(s, busy)
      BY <2>3
    <3>2. s \in 1 .. 4 /\ er'.stage \in s .. 5
      BY <1>1
    <3>3. StatusFits(er'.stage, r, ea[r].status \cup {"SENT"})
      BY <2>1, <3>1, <3>2, AskedFits DEF StatusFits
    <3>4. ea[r] \in EcmAnswer
      BY DEF TypeInv, AnswerType
    <3>5. ea'[r].status = ea[r].status \cup {"SENT"}
      BY <2>3, <3>4 DEF AskAll, EcmAnswer
    <3>6. QED BY <2>2, <3>3, <3>5
  <2>4. CASE ~\E s \in S : r \in Asked(s, busy)
    <3>1. ea'[r] = ea[r]
      BY <2>4 DEF AskAll
    <3>2. QED BY <1>1, <2>1, <2>2, <3>1, FitsLater
  <2>5. QED BY <2>3, <2>4
<1>3. ASSUME NEW r \in DOMAIN ea, NEW q \in DOMAIN clearing,
             "ACTIVE" \in ea'[r].status, "SENT" \in clearing[q].status[r]
      PROVE  "SENT" \in ea'[r].status
  <2>1. "ACTIVE" \in ea[r].status
    BY <1>2, <1>3
  <2>2. "SENT" \in ea[r].status
    BY <1>3, <2>1 DEF StageInv
  <2>3. QED BY <1>2, <2>2
<1>4. QED BY <1>1, <1>2, <1>3 DEF StageInv

LEMMA AsksNextFits ==
    ASSUME TypeInv, IInv, StageInv, AsksNext, clearing' = clearing
    PROVE  StageInv'
<1>1. PICK e \in Request_ : e.stage = er.stage /\ \E stop : Request(stop, e)
  BY DEF AsksNext
<1>2. er.stage \in 0 .. 5 /\ (ea' = ea /\ er'.stage \in er.stage .. 5 => AsksNobody)
  BY StageType
<1>3. CASE er' = e /\ ea' = ea
  BY <1>1, <1>2, <1>3, AsksNobodyFits
<1>4. CASE ~(er' = e /\ ea' = ea)
  <2>1. PICK busy \in Busy, last \in StagesAfter(e.stage) :
           /\ AskAll({s \in StagesAfter(e.stage) : s <= last}, busy)
           /\ er' = [e EXCEPT !.stage = last]
    BY <1>1, <1>4 DEF Request
  <2>2. last \in 1 .. 4 /\ last >= er.stage /\ StagesAfter(e.stage) \subseteq 1 .. 4
    BY <1>1, <1>2 DEF StagesAfter
  <2>3. er'.stage = last
    BY <2>1 DEF Request_
  <2> DEFINE S == {s \in StagesAfter(e.stage) : s <= last}
  <2>4. S \in SUBSET (1 .. 4) /\ \A s \in S : s <= er'.stage
    BY <2>2, <2>3
  <2>5. er'.stage \in er.stage .. 5
    BY <1>2, <2>2, <2>3
  <2>6. AskAll(S, busy)
    BY <2>1
  <2> HIDE DEF S
  <2>7. QED BY <2>4, <2>5, <2>6, AskAllFits
<1>5. QED BY <1>3, <1>4

LEMMA FallbackTimeoutFits ==
    ASSUME TypeInv, IInv, StageInv, FallbackTimeoutOver
    PROVE  StageInv'
<1>1. /\ er.stage \in 0 .. 5 /\ DOMAIN er = Fields
      /\ ea' = ea /\ er'.stage \in er.stage .. 5 => AsksNobody
  BY StageType
<1>2. clearing' = clearing
  BY DEF FallbackTimeoutOver, Take
<1>3. CASE er' = er /\ ea' = ea
  BY <1>1, <1>2, <1>3, AsksNobodyFits
<1>4. CASE ~(er' = er /\ ea' = ea)
  <2>1. /\ er.stage < 4 /\ er' = [er EXCEPT !.stage = 4]
        /\ \E busy : AskAll(StagesAfter(er.stage), busy)
    BY <1>4 DEF FallbackTimeoutOver
  <2>2. er'.stage = 4
    BY <1>1, <2>1 DEF Fields
  <2>3. StagesAfter(er.stage) \in SUBSET (1 .. 4) /\ \A s \in StagesAfter(er.stage) : s <= 4
    BY <1>1 DEF StagesAfter
  <2>4. QED BY <1>1, <1>2, <2>1, <2>2, <2>3, AskAllFits
<1>5. QED BY <1>3, <1>4

\* What the end of "wrong checksum" leaves of a status.
LEMMA BadEcmStatus ==
    ASSUME TypeInv, IInv, NEW q \in Readers, BadEcmEnd(q), NEW r \in DOMAIN ea
    PROVE  /\ DOMAIN ea' = DOMAIN ea /\ q \in DOMAIN clearing
           /\ ea'[r].status \in {ea[r].status, Inactive(ea[r].status),
                                 Inactive(ea[r].status) \cup {"ANSWERED"},
                                 Inactive(clearing[q].status[r])}
<1>1. ea[r] \in EcmAnswer
  BY DEF TypeInv, AnswerType
<1>2. PICK undone \in SUBSET Raced(q) : \E lost \in SUBSET (Raced(q) \ undone) :
        ea' = [x \in DOMAIN ea |->
                IF x = q
                  THEN [ea[x] EXCEPT !.rc = "INVALID", !.asked = FALSE,
                                     !.status = Inactive(@) \cup {"ANSWERED"}]
                ELSE IF x \in undone THEN ea[x]
                ELSE IF x \in lost
                  THEN [ea[x] EXCEPT !.status = Inactive(clearing[q].status[x])]
                ELSE [ea[x] EXCEPT !.status = Inactive(@)]]
  BY DEF BadEcmEnd
<1>3. DOMAIN ea' = DOMAIN ea /\ q \in DOMAIN clearing
  BY <1>2 DEF BadEcmEnd
<1>4. \/ ea'[r] = [ea[r] EXCEPT !.rc = "INVALID", !.asked = FALSE,
                                !.status = Inactive(ea[r].status) \cup {"ANSWERED"}]
      \/ ea'[r] = ea[r]
      \/ ea'[r] = [ea[r] EXCEPT !.status = Inactive(clearing[q].status[r])]
      \/ ea'[r] = [ea[r] EXCEPT !.status = Inactive(ea[r].status)]
  BY <1>1, <1>2 DEF EcmAnswer
<1>5. QED BY <1>1, <1>3, <1>4 DEF EcmAnswer

LEMMA BadEcmFits ==
    ASSUME TypeInv, IInv, StageInv, NEW q \in Readers, BadEcmEnd(q)
    PROVE  StageInv'
<1>1. er.stage \in 0 .. 5 /\ DOMAIN er = Fields
  BY StageType
<1>2. er'.stage \in er.stage .. 5
  <2>1. PICK stage : stage \in {5, er.stage} /\ er' = [er EXCEPT !.stage = stage]
    BY DEF BadEcmEnd
  <2>2. QED BY <1>1, <2>1 DEF Fields
<1>3. /\ q \in DOMAIN clearing
      /\ DOMAIN clearing' \subseteq DOMAIN clearing
      /\ \A x \in DOMAIN clearing' : clearing'[x] = clearing[x]
  BY DEF BadEcmEnd
<1>4. ASSUME NEW r \in DOMAIN ea
      PROVE  /\ StatusFits(er'.stage, r, ea'[r].status)
             /\ \A x \in DOMAIN clearing : StatusFits(er'.stage, r, clearing[x].status[r])
             /\ "ACTIVE" \in ea'[r].status => ea'[r].status = ea[r].status
  <2>1. ea'[r].status \in {ea[r].status, Inactive(ea[r].status),
                           Inactive(ea[r].status) \cup {"ANSWERED"},
                           Inactive(clearing[q].status[r])}
    BY BadEcmStatus
  <2>2. /\ StatusFits(er.stage, r, ea[r].status)
        /\ \A x \in DOMAIN clearing : StatusFits(er.stage, r, clearing[x].status[r])
    BY DEF StageInv
  <2>3. /\ StatusFits(er'.stage, r, ea[r].status)
        /\ \A x \in DOMAIN clearing : StatusFits(er'.stage, r, clearing[x].status[r])
    BY <1>1, <1>2, <2>2, FitsLater
  <2>4. \A status : StatusFits(er'.stage, r, status) =>
           /\ StatusFits(er'.stage, r, Inactive(status))
           /\ StatusFits(er'.stage, r, Inactive(status) \cup {"ANSWERED"})
    BY DEF StatusFits, Inactive
  <2>5. StatusFits(er'.stage, r, ea'[r].status)
    BY <1>3, <2>1, <2>3, <2>4
  <2>6. "ACTIVE" \in ea'[r].status => ea'[r].status = ea[r].status
    BY <2>1 DEF Inactive
  <2>7. QED BY <2>3, <2>5, <2>6
<1>5. DOMAIN ea' = DOMAIN ea
  BY DEF BadEcmEnd
<1>6. ASSUME NEW r \in DOMAIN ea, NEW x \in DOMAIN clearing',
             "ACTIVE" \in ea'[r].status, "SENT" \in clearing'[x].status[r]
      PROVE  "SENT" \in ea'[r].status
  <2>1. ea'[r].status = ea[r].status /\ clearing'[x] = clearing[x] /\ x \in DOMAIN clearing
    BY <1>3, <1>4, <1>6
  <2>2. QED BY <1>6, <2>1 DEF StageInv
<1>7. QED BY <1>3, <1>4, <1>5, <1>6 DEF StageInv

LEMMA StageInvInductive ==
    /\ Init => StageInv
    /\ TypeInv /\ IInv /\ StageInv /\ [Next]_vars => StageInv'
<1>1. ASSUME Init PROVE StageInv
  <2>1. PICK matching \in SUBSET Readers, prefer \in 0 .. 2 : ea = InitialAnswers(matching, prefer)
    BY <1>1 DEF Init
  <2>2. \A r : StatusFits(er.stage, r, InitialStatus(r, prefer))
    BY DEF StatusFits, InitialStatus
  <2>3. DOMAIN clearing = {}
    BY <1>1 DEF Init
  <2>4. QED BY <2>1, <2>2, <2>3 DEF StageInv, InitialAnswers
<1>2. TypeInv /\ IInv /\ StageInv /\ [Next]_vars => StageInv'
  BY StageSteps, AsksNobodyFits, AsksNextFits, FallbackTimeoutFits, BadEcmFits
<1>3. QED BY <1>1, <1>2

\* For every set of readers, a fallback is asked before the fallback time-out only
\* when every other reader that was asked has answered without a CW, also when
\* answers "wrong checksum" race with the requests.
THEOREM FallbacksComeLast == Spec => FallbackLast
<1> DEFINE AsksFallback == \E r \in DOMAIN ea : /\ Is(r, {"ACTIVE", "FALLBACK"}) /\ Lacks(r, "SENT")
                                                /\ "SENT" \in ea'[r].status
           OthersDone == \A r \in DOMAIN ea : Regular(r) => Is(r, {"ANSWERED"}) /\ ~HasCw(r)
<1>1. ASSUME TypeInv, IInv, StageInv, [Next]_vars, AsksFallback, ~FallbackTimeoutOver
      PROVE  OthersDone
  <2>1. PICK r \in DOMAIN ea : /\ {"ACTIVE", "FALLBACK"} \subseteq ea[r].status
                               /\ "SENT" \notin ea[r].status /\ "SENT" \in ea'[r].status
    BY <1>1 DEF Is, Lacks
  <2>2. ~AsksNobody
    BY <2>1 DEF AsksNobody
  <2>3. ASSUME NEW q \in Readers PROVE ~BadEcmEnd(q)
    <3>1. SUFFICES ASSUME BadEcmEnd(q) PROVE FALSE
      OBVIOUS
    <3>2. q \in DOMAIN clearing /\ "SENT" \in clearing[q].status[r]
      BY <1>1, <2>1, <3>1, BadEcmStatus DEF Inactive
    <3>3. QED BY <1>1, <2>1, <3>2 DEF StageInv
  <2>4. er.stage < 2 \/ NextStageDue
    BY <1>1, <2>2, <2>3, StageSteps DEF AsksNext
  <2>5. SUFFICES ASSUME NEW x \in DOMAIN ea, Regular(x) PROVE Is(x, {"ANSWERED"}) /\ ~HasCw(x)
    OBVIOUS
  <2>6. /\ x \notin CacheexReaders /\ "ACTIVE" \in ea[x].status /\ "SENT" \in ea[x].status
        /\ "FALLBACK" \notin ea[x].status
    BY <2>5 DEF Regular, Is, Lacks
  <2>7. er.stage >= 2 /\ (er.stage = 2 => "LOCAL" \in ea[x].status) /\ er.stage \in 0 .. 5
    BY <1>1, <2>6, StageType DEF StageInv, StatusFits
  <2>8. CASE er.stage = 2 /\ LocalLeft = {}
    BY <2>6, <2>7, <2>8 DEF LocalLeft, SentOnly, Is, Lacks
  <2>9. CASE er.stage = 3 /\ NotFallbackLeft = {}
    BY <2>6, <2>9 DEF NotFallbackLeft, SentOnly, Is, Lacks
  <2>10. QED BY <2>4, <2>7, <2>8, <2>9 DEF NextStageDue
<1>2. TypeInv /\ IInv /\ StageInv /\ [Next]_vars =>
        [AsksFallback => FallbackTimeoutOver \/ OthersDone]_vars
  BY <1>1
<1>3. QED
  BY <1>2, TypeAlways, StageInvInductive, InitEstablishes, StepPreserves, PTL DEF Spec, FallbackLast

----------------------------------------------------------------------------
(* What is sent was given by a reader *)

\* A CW of a reader is in the cache, and so is one whose job is queued.
GivenInv ==
    /\ \A r \in DOMAIN ea : HasCw(r) => <<ea[r].cw, r>> \in cache
    /\ \A i \in DOMAIN jobs : jobs[i][1] = "cache" => jobs[i][2] \in cache

\* A step of the client's thread takes the first job off the queue, every other one
\* leaves the queue as it is; what is added is an answer, a timer, or a CW that is in
\* the cache.
JobsStep ==
    \E q, new \in Seq(Job) :
      /\ jobs' = q \o new
      /\ q = jobs \/ (Work /\ jobs # <<>> /\ q = Tail(jobs))
      /\ \A i \in DOMAIN new : new[i][1] # "cache" \/ new[i][2] \in cache

LEMMA NextJobs ==
    ASSUME TypeInv, [Next]_vars
    PROVE  JobsStep
<1> DEFINE Left(q) == q = jobs \/ (Work /\ jobs # <<>> /\ q = Tail(jobs))
           Given(new) == \A i \in DOMAIN new : new[i][1] # "cache" \/ new[i][2] \in cache
<1>1. jobs \in Seq(Job) /\ (jobs # <<>> => Tail(jobs) \in Seq(Job))
  BY DEF TypeInv, JobType
<1>2. ASSUME NEW q \in Seq(Job), NEW new \in Seq(Job), Left(q), Given(new), jobs' = q \o new
      PROVE  JobsStep
  BY <1>2 DEF JobsStep
<1>3. ASSUME NEW q \in Seq(Job), Left(q), jobs' = q PROVE JobsStep
  <2>1. <<>> \in Seq(Job) /\ Given(<<>>) /\ q \o <<>> = q
    OBVIOUS
  <2>2. QED BY <1>2, <1>3, <2>1
<1>4. ASSUME NEW q \in Seq(Job), Left(q), NEW job \in Job, job[1] # "cache" \/ job[2] \in cache,
             jobs' = Append(q, job)
      PROVE  JobsStep
  <2> DEFINE new == <<job>>
  <2>1. new \in Seq(Job) /\ Append(q, job) = q \o new /\ DOMAIN new = {1} /\ new[1] = job
    BY <1>4
  <2>2. Given(new)
    BY <1>4, <2>1
  <2> HIDE DEF new, Given, Left
  <2>3. QED BY <1>2, <1>4, <2>1, <2>2
<1>5. \A c \in cache : <<"cache", c>> \in Job /\ <<"cache", c>>[2] \in cache
  BY DEF TypeInv, CacheType, Cached, Job
<1>6. \A r \in Readers : <<"answer", r>> \in Job /\ <<"answer", r>>[1] # "cache"
  BY DEF Job
<1>7. \A action \in {"mode1_delay", "cacheex_timeout", "fallback_timeout", "ecm_timeout"} :
         Timer(action) \in Job /\ Timer(action)[1] # "cache"
  BY DEF Timer, Job
<1> HIDE DEF Given
<1>8. CASE GetCw \/ CachePush \/ Tick \/ UNCHANGED vars
  BY <1>1, <1>3, <1>8 DEF GetCw, GetCwCached, GetCwNoReader, GetCwRequest, CachePush, Tick, vars
<1>9. CASE Watch
  <2>1. \E action \in {"mode1_delay", "cacheex_timeout", "fallback_timeout", "ecm_timeout"} :
          AddJob(Timer(action))
    BY <1>9, Zenon DEF Watch, CacheexTimer, Mode1Timer, FallbackTimer, ClientTimer
  <2>2. QED BY <1>1, <1>4, <1>7, <2>1 DEF AddJob
<1>10. CASE ChkCache
  BY <1>1, <1>4, <1>5, <1>10 DEF ChkCache, AddJob
<1>11. ASSUME NEW r \in Readers,
              AnswerFound(r) \/ AnswerNotFound(r) \/ BadEcmBegin(r) \/ BadEcmEnd(r)
       PROVE  JobsStep
  <2>1. jobs' = jobs \/ jobs' = Append(jobs, <<"answer", r>>)
    BY <1>11 DEF AnswerFound, AnswerNotFound, Answer, BadEcmBegin, BadEcmEnd
  <2>2. QED BY <1>1, <1>3, <1>4, <1>6, <2>1
<1>12. CASE EcmTimeout
  <2> DEFINE T == TimedOutReaders
             new == [i \in 1 .. Cardinality(T) |-> <<"answer", SetToSeq(T)[i]>>]
  <2>1. Work /\ jobs # <<>> /\ (jobs' = Tail(jobs) \/ jobs' = Tail(jobs) \o new)
    BY <1>12 DEF EcmTimeout, Take, Work
  <2>2. T \in SUBSET Readers
    BY DEF TimedOutReaders, TypeInv, AnswerType
  <2> HIDE DEF T
  <2>3. Cardinality(T) \in Nat /\ \A i \in 1 .. Cardinality(T) : SetToSeq(T)[i] \in Readers
    BY <2>2, ReadersListed
  <2>4. new \in Seq(Job) /\ Given(new)
    BY <1>6, <2>3 DEF Given
  <2> HIDE DEF new
  <2>5. QED BY <1>1, <1>2, <1>3, <2>1, <2>4
<1>13. CASE Work /\ ~EcmTimeout
  <2>1. jobs # <<>> /\ \/ jobs' = Tail(jobs)
                       \/ \E c \in cache : jobs' = Append(Tail(jobs), <<"cache", c>>)
    BY <1>13 DEF Work, ChkDcw, CacheAnswer, Mode1DelayOver, CacheexTimeout, FallbackTimeoutOver, Take
  <2>2. QED BY <1>1, <1>3, <1>4, <1>5, <1>13, <2>1
<1>14. QED BY <1>8, <1>9, <1>10, <1>11, <1>12, <1>13 DEF Next

\* A job whose CW is given.
LEMMA JobsGiven ==
    ASSUME TypeInv, GivenInv, cache \subseteq cache', JobsStep
    PROVE  \A i \in DOMAIN jobs' : jobs'[i][1] = "cache" => jobs'[i][2] \in cache'
<1>1. jobs \in Seq(Job)
  BY DEF TypeInv, JobType
<1>2. PICK q \in Seq(Job), new \in Seq(Job) :
        /\ jobs' = q \o new
        /\ q = jobs \/ (jobs # <<>> /\ q = Tail(jobs))
        /\ \A i \in DOMAIN new : new[i][1] # "cache" \/ new[i][2] \in cache
  BY DEF JobsStep
<1>3. \A i \in DOMAIN q : \E k \in DOMAIN jobs : q[i] = jobs[k]
  <2>1. CASE q = jobs
    BY <2>1
  <2>2. CASE jobs # <<>> /\ q = Tail(jobs)
    BY <1>1, <2>2
  <2>3. QED BY <1>2, <2>1, <2>2
<1>4. \A i \in DOMAIN (q \o new) : \/ \E k \in DOMAIN q : (q \o new)[i] = q[k]
                                   \/ \E k \in DOMAIN new : (q \o new)[i] = new[k]
  OBVIOUS
<1>5. QED BY <1>2, <1>3, <1>4 DEF GivenInv

\* A job stays in the queue until the client's thread takes it.
LEMMA JobsStay ==
    ASSUME TypeInv, JobsStep, NEW k \in DOMAIN jobs
    PROVE  (\E i \in DOMAIN jobs' : jobs'[i] = jobs[k]) \/ (Work /\ k = 1)
<1>1. jobs \in Seq(Job)
  BY DEF TypeInv, JobType
<1>2. PICK q \in Seq(Job), new \in Seq(Job) :
        jobs' = q \o new /\ (q = jobs \/ (Work /\ jobs # <<>> /\ q = Tail(jobs)))
  BY DEF JobsStep
<1>3. \A i \in DOMAIN q : i \in DOMAIN (q \o new) /\ (q \o new)[i] = q[i]
  OBVIOUS
<1>4. CASE q = jobs
  BY <1>2, <1>3, <1>4
<1>5. CASE Work /\ jobs # <<>> /\ q = Tail(jobs)
  <2>1. k = 1 \/ (k - 1 \in DOMAIN q /\ q[k - 1] = jobs[k])
    BY <1>1, <1>5
  <2>2. QED BY <1>2, <1>3, <1>5, <2>1
<1>6. QED BY <1>2, <1>4, <1>5

\* The readers that match a request do not change.
LEMMA ReadersStay ==
    ASSUME [Next]_vars
    PROVE  DOMAIN ea' = DOMAIN ea
<1>1. ASSUME NEW e, NEW stop, Request(stop, e) PROVE DOMAIN ea' = DOMAIN ea
  <2>1. ea' = ea \/ \E S, busy : AskAll(S, busy)
    BY <1>1, Zenon DEF Request
  <2>2. QED BY <2>1 DEF AskAll
<1>2. CASE GetCw \/ Work
  <2>1. ea' = ea \/ (\E e, stop : Request(stop, e)) \/ (\E S, busy : AskAll(S, busy)) \/ EcmTimeout
    BY <1>2 DEF GetCw, GetCwCached, GetCwNoReader, GetCwRequest, Work, ChkDcw, ChkDcwCacheex,
       ChkDcwNotFound, CacheAnswer, Mode1DelayOver, CacheexTimeout, FallbackTimeoutOver
  <2>2. QED BY <1>1, <2>1 DEF AskAll, EcmTimeout
<1>3. CASE \E q \in Readers : AnswerFound(q) \/ AnswerNotFound(q) \/ BadEcmEnd(q)
  BY <1>3 DEF AnswerFound, AnswerNotFound, Answer, BadEcmEnd
<1>4. UNCHANGED ea \/ GetCw \/ Work
      \/ \E q \in Readers : AnswerFound(q) \/ AnswerNotFound(q) \/ BadEcmEnd(q)
  BY DEF Next, Watch, CacheexTimer, Mode1Timer, FallbackTimer, ClientTimer, ChkCache,
     AddJob, CachePush, Tick, BadEcmBegin, vars
<1>5. QED BY <1>2, <1>3, <1>4

\* What a step may do to a matching reader: it is asked, it times out, it answers, or
\* "wrong checksum" makes it inactive.
IsAsked(r) == ea'[r] = [ea[r] EXCEPT !.status = @ \cup {"SENT"}, !.asked = TRUE]

TimesOut(r) ==
    /\ Lacks(r, "ANSWERED")
    /\ ea'[r] = [ea[r] EXCEPT !.status = @ \cup {"ANSWERED"}, !.rc = "TIMEOUT"]

Answers(r) ==
    /\ Lacks(r, "ANSWERED") /\ jobs' = Append(jobs, <<"answer", r>>)
    /\ \E rc \in {"FOUND", "NOTFOUND"}, cw \in CWs \cup {NoCw} :
         /\ rc = "FOUND" => <<cw, r>> \in cache'
         /\ ea'[r] = [status |-> ea[r].status \cup {"ANSWERED"},
                      rc |-> rc, cw |-> cw, asked |-> FALSE]

IsDisabled(r) ==
    "ACTIVE" \notin ea'[r].status /\ ea'[r].cw = ea[r].cw /\ ea'[r].rc \in {ea[r].rc, "INVALID"}

LEMMA AnswerSteps ==
    ASSUME TypeInv, [Next]_vars, NEW r \in DOMAIN ea
    PROVE  ea'[r] = ea[r] \/ IsAsked(r) \/ TimesOut(r) \/ Answers(r) \/ IsDisabled(r)
<1>1. ea[r] \in EcmAnswer
  BY DEF TypeInv, AnswerType
<1>2. ASSUME NEW S, NEW busy, AskAll(S, busy)
      PROVE  ea'[r] = ea[r] \/ IsAsked(r)
  BY <1>2 DEF AskAll, IsAsked
<1>3. ASSUME NEW e, NEW stop, Request(stop, e)
      PROVE  ea'[r] = ea[r] \/ IsAsked(r)
  <2>1. ea' = ea \/ \E S, busy : AskAll(S, busy)
    BY <1>3, Zenon DEF Request
  <2>2. QED BY <1>2, <2>1
<1>4. CASE EcmTimeout
  BY <1>4 DEF EcmTimeout, TimedOutReaders, Lacks, TimesOut
<1>5. CASE GetCw \/ (Work /\ ~EcmTimeout)
  <2>1. ea' = ea \/ (\E e, stop : Request(stop, e)) \/ (\E S, busy : AskAll(S, busy))
    BY <1>5 DEF GetCw, GetCwCached, GetCwNoReader, GetCwRequest, Work, ChkDcw, ChkDcwCacheex,
       ChkDcwNotFound, CacheAnswer, Mode1DelayOver, CacheexTimeout, FallbackTimeoutOver
  <2>2. QED BY <1>2, <1>3, <2>1
<1>6. ASSUME NEW q \in Readers, BadEcmEnd(q)
      PROVE  ea'[r] = ea[r] \/ IsDisabled(r)
  <2>1. \/ ea'[r] = [ea[r] EXCEPT !.rc = "INVALID", !.asked = FALSE,
                                   !.status = Inactive(ea[r].status) \cup {"ANSWERED"}]
        \/ ea'[r] = ea[r]
        \/ ea'[r] = [ea[r] EXCEPT !.status = Inactive(clearing[q].status[r])]
        \/ ea'[r] = [ea[r] EXCEPT !.status = Inactive(ea[r].status)]
    <3>1. PICK undone \in SUBSET Raced(q) : \E lost \in SUBSET (Raced(q) \ undone) :
            ea' = [x \in DOMAIN ea |->
                    IF x = q
                      THEN [ea[x] EXCEPT !.rc = "INVALID", !.asked = FALSE,
                                         !.status = Inactive(@) \cup {"ANSWERED"}]
                    ELSE IF x \in undone THEN ea[x]
                    ELSE IF x \in lost
                      THEN [ea[x] EXCEPT !.status = Inactive(clearing[q].status[x])]
                    ELSE [ea[x] EXCEPT !.status = Inactive(@)]]
      BY <1>6 DEF BadEcmEnd
    <3>2. QED BY <1>1, <3>1 DEF EcmAnswer
  <2>2. \A S : "ACTIVE" \notin Inactive(S) /\ "ACTIVE" \notin Inactive(S) \cup {"ANSWERED"}
    BY DEF Inactive
  <2>3. CASE ea'[r] = [ea[r] EXCEPT !.rc = "INVALID", !.asked = FALSE,
                                    !.status = Inactive(ea[r].status) \cup {"ANSWERED"}]
    BY <1>1, <2>2, <2>3 DEF EcmAnswer, IsDisabled
  <2>4. CASE ea'[r] = [ea[r] EXCEPT !.status = Inactive(clearing[q].status[r])]
    BY <1>1, <2>2, <2>4 DEF EcmAnswer, IsDisabled
  <2>5. CASE ea'[r] = [ea[r] EXCEPT !.status = Inactive(ea[r].status)]
    BY <1>1, <2>2, <2>5 DEF EcmAnswer, IsDisabled
  <2>6. QED BY <2>1, <2>3, <2>4, <2>5
<1>7. ASSUME NEW q \in Readers, AnswerFound(q) \/ AnswerNotFound(q)
      PROVE  ea'[r] = ea[r] \/ Answers(r)
  <2>1. PICK rc \in {"FOUND", "NOTFOUND"}, cw \in CWs \cup {NoCw} : Answer(q, rc, cw)
    BY <1>7 DEF AnswerFound, AnswerNotFound
  <2>2. CASE r = q
    BY <2>1, <2>2 DEF Answer, Outstanding, Answers
  <2>3. CASE r # q
    BY <2>1, <2>3 DEF Answer
  <2>4. QED BY <2>2, <2>3
<1>8. CASE UNCHANGED ea
  BY <1>8
<1>9. UNCHANGED ea \/ GetCw \/ Work
      \/ \E q \in Readers : AnswerFound(q) \/ AnswerNotFound(q) \/ BadEcmEnd(q)
  BY DEF Next, Watch, CacheexTimer, Mode1Timer, FallbackTimer, ClientTimer, ChkCache,
     AddJob, CachePush, Tick, BadEcmBegin, vars
<1>10. QED BY <1>4, <1>5, <1>6, <1>7, <1>8, <1>9

\* A reader that is active and has the ECM is marked as asked.
SentInv == \A r \in DOMAIN ea : ea[r].asked /\ Is(r, {"ACTIVE"}) => Is(r, {"SENT"})

LEMMA SentAlways == Spec => []SentInv
<1>1. Init => SentInv
  BY DEF Init, InitialAnswers, SentInv
<1>2. ASSUME TypeInv, SentInv, [Next]_vars PROVE SentInv'
  <2>1. ASSUME NEW r \in DOMAIN ea, ea'[r].asked, "ACTIVE" \in ea'[r].status
        PROVE  "SENT" \in ea'[r].status
    <3>1. ea[r] \in EcmAnswer
      BY <1>2 DEF TypeInv, AnswerType
    <3>2. ea[r].asked /\ "ACTIVE" \in ea[r].status => "SENT" \in ea[r].status
      BY <1>2 DEF SentInv, Is
    <3>4. CASE ea'[r] = ea[r] \/ IsDisabled(r)
      BY <2>1, <3>2, <3>4 DEF IsDisabled
    <3>5. CASE IsAsked(r)
      BY <3>1, <3>5 DEF IsAsked, EcmAnswer
    <3>6. CASE TimesOut(r)
      BY <2>1, <3>1, <3>2, <3>6 DEF TimesOut, EcmAnswer
    <3>7. CASE Answers(r)
      BY <2>1, <3>7 DEF Answers
    <3>8. QED BY <1>2, <3>4, <3>5, <3>6, <3>7, AnswerSteps
  <2>2. QED BY <1>2, <2>1, ReadersStay DEF SentInv, Is
<1>3. QED BY <1>1, <1>2, TypeAlways, PTL DEF Spec

\* Answers, once given, are in the cache.
LEMMA GivenAlways == Spec => [](IInv /\ TypeInv /\ GivenInv)
<1>1. Init => GivenInv
  <2> SUFFICES ASSUME Init PROVE GivenInv
    OBVIOUS
  <2>1. PICK matching \in SUBSET Readers, prefer \in 0 .. 2 : ea = InitialAnswers(matching, prefer)
    BY DEF Init
  <2>2. \A r \in DOMAIN ea : ~HasCw(r)
    BY <2>1 DEF InitialAnswers, HasCw, HaveCw
  <2>3. jobs = <<>>
    BY DEF Init
  <2>4. QED BY <2>2, <2>3 DEF GivenInv
<1>2. ASSUME IInv, TypeInv, GivenInv, [Next]_vars PROVE GivenInv'
  <2>1. cache \subseteq cache'
    BY <1>2 DEF Next, GetCw, GetCwCached, GetCwNoReader, GetCwRequest, Work, ChkDcw, CacheAnswer,
       Mode1DelayOver, CacheexTimeout, FallbackTimeoutOver, EcmTimeout, Take, Watch, CacheexTimer,
       Mode1Timer, FallbackTimer, ClientTimer, ChkCache, AddJob, CachePush, Tick, AnswerFound,
       AnswerNotFound, Answer, BadEcmBegin, BadEcmEnd, vars
  <2>2. SUFFICES ASSUME NEW r \in DOMAIN ea', ea'[r].rc \in HaveCw
                 PROVE  <<ea'[r].cw, r>> \in cache'
    BY <1>2, <2>1, NextJobs, JobsGiven DEF GivenInv, HasCw
  <2>3. \A x \in DOMAIN ea : /\ ea[x] \in EcmAnswer
                             /\ ea[x].rc \in HaveCw => <<ea[x].cw, x>> \in cache
    BY <1>2 DEF TypeInv, AnswerType, GivenInv, HasCw
  <2>4. SUFFICES ASSUME ~(r \in DOMAIN ea /\ ea'[r].rc = ea[r].rc /\ ea'[r].cw = ea[r].cw)
                 PROVE  <<ea'[r].cw, r>> \in cache'
    BY <2>1, <2>2, <2>3
  <2>5. r \in DOMAIN ea
    BY <1>2, <2>2, ReadersStay
  <2>6. \E rc \in {"FOUND", "NOTFOUND"}, cw \in CWs \cup {NoCw} :
           /\ rc = "FOUND" => <<cw, r>> \in cache'
           /\ ea'[r] = [status |-> ea[r].status \cup {"ANSWERED"},
                        rc |-> rc, cw |-> cw, asked |-> FALSE]
    <3>1. CASE ea'[r] = ea[r] \/ IsDisabled(r)
      BY <2>2, <2>4, <2>5, <3>1 DEF IsDisabled, HaveCw
    <3>2. CASE IsAsked(r)
      BY <2>3, <2>4, <2>5, <3>2 DEF IsAsked, EcmAnswer
    <3>3. CASE TimesOut(r)
      BY <2>2, <2>3, <2>5, <3>3 DEF TimesOut, EcmAnswer, HaveCw
    <3>4. CASE Answers(r)
      BY <3>4 DEF Answers
    <3>5. QED BY <1>2, <2>5, <3>1, <3>2, <3>3, <3>4, AnswerSteps
  <2>7. QED BY <2>2, <2>6 DEF HaveCw
<1>3. QED BY <1>1, <1>2, TypeAlways, InitEstablishes, StepPreserves, PTL DEF Spec

----------------------------------------------------------------------------
(* What the client's thread sends *)

\* What the double check keeps of the CWs before.
SameCheck(e) == /\ DOMAIN e = Fields /\ e.double_check = er.double_check
                /\ e.checked = er.checked /\ e.origin = er.origin
                /\ e.cw_checked = er.cw_checked

\* The CW to be sent was given by the reader it is counted for.
Backed(e) == e.rc \in {"FOUND", "CACHE1"} =>
               e.selected \in Readers /\ <<e.cw, e.selected>> \in cache

\* What a step of the client's thread makes of the request.
Passes(e) == \/ replies' = replies /\ (er' = e \/ \E stop : Request(stop, e))
             \/ er.rc = "UNHANDLED" /\ Backed(e) /\ SendDcw(e)

\* A CW from the cache is one a reader gave, or one of a peer, that has no reader.
LEMMA FromCachePasses ==
    ASSUME TypeInv, NEW e, SameCheck(e), e.rc = er.rc, NEW c \in cache, FromCache(e, c)
    PROVE  \E f : SameCheck(f) /\ Passes(f)
<1> DEFINE found == [e EXCEPT !.rc = IF c[2] = Peer THEN "CACHEEX" ELSE "CACHE1",
                              !.cw = c[1], !.selected = CacheReader(c)]
<1>1. SameCheck(found)
  BY DEF SameCheck, Fields
<1>2. Backed(found)
  <2>1. found.rc = (IF c[2] = Peer THEN "CACHEEX" ELSE "CACHE1") /\ found.cw = c[1]
        /\ found.selected = CacheReader(c)
    BY DEF SameCheck, Fields
  <2>2. c = <<c[1], c[2]>> /\ c[2] \in Readers \cup {Peer}
    BY DEF TypeInv, CacheType, Cached
  <2> HIDE DEF found
  <2>3. QED BY <2>1, <2>2 DEF Backed, CacheReader
<1>3. \/ er' = e /\ replies' = replies
      \/ e.rc = "UNHANDLED" /\ SendDcw(found)
      \/ er' = found /\ replies' = replies
  BY DEF FromCache
<1> HIDE DEF found
<1>4. QED BY <1>1, <1>2, <1>3 DEF Passes

\* Whatever its job, the client's thread does one of these.
LEMMA WorkPasses ==
    ASSUME IInv, TypeInv, GivenInv, Work
    PROVE  \E e : SameCheck(e) /\ Passes(e)
<1>1. SameCheck(er) /\ er.rc \in Rcs
  BY DEF IInv, SameCheck
<1>2. ASSUME NEW r, ChkDcw, r = jobs[1][2] PROVE \E e : SameCheck(e) /\ Passes(e)
  <2>1. CASE Done \/ r \in CacheexReaders
    <3>1. Passes(er)
      BY <1>2, <2>1 DEF ChkDcw, ChkDcwCacheex, Passes
    <3>2. QED BY <1>1, <3>1
  <2>2. CASE ~Done /\ r \notin CacheexReaders /\ ea[r].rc = "FOUND"
    <3> DEFINE e == [er EXCEPT !.rc = "FOUND", !.cw = ea[r].cw, !.selected = r]
    <3>1. SameCheck(e)
      BY <1>1 DEF SameCheck, Fields
    <3>2. SendDcw(e) /\ er.rc = "UNHANDLED"
      BY <1>1, <1>2, <2>2 DEF ChkDcw, Done, Rcs
    <3>3. r \in Readers /\ <<ea[r].cw, r>> \in cache
      <4>1. jobs # <<>> /\ jobs[1][1] = "answer"
        BY <1>2 DEF ChkDcw, Take
      <4>2. 1 \in DOMAIN jobs
        BY <4>1 DEF TypeInv, JobType
      <4>3. r \in DOMAIN ea /\ DOMAIN ea \subseteq Readers
        BY <1>2, <4>1, <4>2 DEF TypeInv, JobType, AnswerType
      <4>4. QED BY <2>2, <4>3 DEF GivenInv, HasCw, HaveCw
    <3>4. Backed(e)
      BY <1>1, <3>3 DEF Backed, SameCheck, Fields
    <3> HIDE DEF e
    <3>5. QED BY <3>1, <3>2, <3>4 DEF Passes
  <2>3. CASE ~Done /\ r \notin CacheexReaders /\ ea[r].rc \in {"NOTFOUND", "INVALID"}
    <3> DEFINE e == [er EXCEPT !.selected = r]
               s == [e EXCEPT !.rc = "NOTFOUND",
                              !.stage = IF NextStageDue THEN 4 ELSE @]
    <3>1. ChkDcwNotFound(r)
      BY <1>2, <2>3 DEF ChkDcw
    <3>2. SameCheck(e) /\ SameCheck(s)
      BY <1>1 DEF SameCheck, Fields
    <3>3. SendDcw(s) \/ ((er' = e \/ Request(0, e)) /\ replies' = replies)
      BY <3>1 DEF ChkDcwNotFound
    <3>4. er.rc = "UNHANDLED" /\ Backed(s)
      BY <1>1, <2>3 DEF Done, Rcs, Backed, SameCheck, Fields
    <3> HIDE DEF e, s
    <3>5. QED BY <3>2, <3>3, <3>4 DEF Passes
  <2>4. CASE ~Done /\ r \notin CacheexReaders /\ ea[r].rc \notin {"FOUND", "NOTFOUND", "INVALID"}
    <3> DEFINE e == [er EXCEPT !.selected = r]
    <3>1. SameCheck(e)
      BY <1>1 DEF SameCheck, Fields
    <3>2. er' = e /\ replies' = replies
      BY <1>2, <2>4 DEF ChkDcw
    <3> HIDE DEF e
    <3>3. QED BY <3>1, <3>2 DEF Passes
  <2>5. QED BY <2>1, <2>2, <2>3, <2>4
<1>3. CASE CacheAnswer
  <2>1. jobs # <<>> /\ jobs[1][1] = "cache" /\ FromCache(er, jobs[1][2])
    BY <1>3 DEF CacheAnswer, Take
  <2>2. 1 \in DOMAIN jobs
    BY <2>1 DEF TypeInv, JobType
  <2>3. jobs[1][2] \in cache
    BY <2>1, <2>2 DEF GivenInv
  <2>4. QED BY <1>1, <2>1, <2>3, FromCachePasses
<1>4. CASE Mode1DelayOver
  BY <1>1, <1>4 DEF Mode1DelayOver, Passes
<1>5. CASE CacheexTimeout
  <2> DEFINE e == [er EXCEPT !.wait_expired = TRUE]
             s == [e EXCEPT !.rc = "NOTFOUND", !.selected = NoReader]
  <2>1. SameCheck(e) /\ SameCheck(s)
    BY <1>1 DEF SameCheck, Fields
  <2>2. \/ (er' = e \/ Request(0, e)) /\ replies' = replies
        \/ er.rc = "UNHANDLED" /\ SendDcw(s)
    BY <1>5 DEF CacheexTimeout
  <2>3. Backed(s)
    BY <1>1 DEF Backed, SameCheck, Fields
  <2> HIDE DEF e, s
  <2>4. QED BY <2>1, <2>2, <2>3 DEF Passes
<1>6. CASE FallbackTimeoutOver
  <2> DEFINE e == [er EXCEPT !.stage = 4]
  <2>1. SameCheck(e)
    BY <1>1 DEF SameCheck, Fields
  <2>2. (er' = e \/ er' = er) /\ replies' = replies
    BY <1>6 DEF FallbackTimeoutOver
  <2> HIDE DEF e
  <2>3. QED BY <1>1, <2>1, <2>2 DEF Passes
<1>7. CASE EcmTimeout
  <2> DEFINE e == [er EXCEPT !.timeout_check = TRUE]
             s == [er EXCEPT !.timeout_check = TRUE, !.rc = "TIMEOUT"]
  <2>1. SameCheck(e) /\ SameCheck(s)
    BY <1>1 DEF SameCheck, Fields
  <2>2. (er' = e /\ replies' = replies) \/ (er.rc = "UNHANDLED" /\ SendDcw(s))
    BY <1>7 DEF EcmTimeout
  <2>3. Backed(s)
    BY <1>1 DEF Backed, SameCheck, Fields
  <2> HIDE DEF e, s
  <2>4. QED BY <2>1, <2>2, <2>3 DEF Passes
<1>8. QED BY <1>2, <1>3, <1>4, <1>5, <1>6, <1>7 DEF Work

----------------------------------------------------------------------------
(* No CW is lost *)

\* A CW that was found is handled in turn, or it went into the double check.
Found(r) == r \notin CacheexReaders /\ ea[r].rc = "FOUND"
Queues(r) == \E i \in DOMAIN jobs : jobs[i] = <<"answer", r>>
HandledInv == replies = <<>> => \A r \in DOMAIN ea : Found(r) => Queues(r) \/ er.checked > 0

\* Nobody who may still answer is left when NOT FOUND is sent, and it stays so.
NoneFound == \A r \in DOMAIN ea \ CacheexReaders :
               Is(r, {"ACTIVE"}) => Is(r, {"ANSWERED"}) /\ ea[r].rc # "FOUND"
NotFoundInv == replies # <<>> /\ replies[1].rc = "NOTFOUND" => NoneFound
LostInv == HandledInv /\ NotFoundInv

\* What is sent is the result of the request, unless the double check keeps it.
LEMMA SendsOrChecks ==
    ASSUME NEW e, DOMAIN e = Fields, e.checked \in 0 .. 2, replies = <<>>, SendDcw(e)
    PROVE  /\ er'.checked >= e.checked
           /\ replies' = <<>> => er'.checked > 0
           /\ replies' # <<>> => replies'[1].rc = e.rc
<1> DEFINE c == IF Checks(e) THEN Compare(e) ELSE e
<1>1. DOMAIN c = Fields /\ c.rc = e.rc /\ c.checked >= e.checked /\ c.checked \in Nat
      /\ (Checks(e) => c.checked > 0)
  BY DEF Compare, Fields
<1>2. CASE Checks(e) /\ c.checked < 2
  <2>1. er' = [c EXCEPT !.rc = "UNHANDLED"] /\ replies' = replies
    BY <1>2 DEF SendDcw
  <2> HIDE DEF c
  <2>2. er'.checked = c.checked
    BY <1>1, <2>1 DEF Fields
  <2>3. QED BY <1>1, <1>2, <2>1, <2>2
<1>3. CASE ~(Checks(e) /\ c.checked < 2)
  <2>1. er' = c /\ replies' = Append(replies, [rc |-> c.rc, cw |-> c.cw])
    BY <1>3 DEF SendDcw
  <2> HIDE DEF c
  <2>2. replies' # <<>> /\ replies'[1].rc = c.rc
    BY <2>1
  <2>3. QED BY <1>1, <2>1, <2>2
<1>4. QED BY <1>2, <1>3

\* Replies are only added.
LEMMA RepliesGrow ==
    ASSUME [Next]_vars
    PROVE  replies' = replies \/ \E x : replies' = Append(replies, x)
<1>1. ASSUME NEW e, SendDcw(e) PROVE replies' = replies \/ \E x : replies' = Append(replies, x)
  BY <1>1 DEF SendDcw
<1>2. QED
  BY <1>1 DEF Next, GetCw, GetCwCached, GetCwNoReader, GetCwRequest, Work, ChkDcw, ChkDcwNotFound,
     CacheAnswer, FromCache, Mode1DelayOver, CacheexTimeout, FallbackTimeoutOver, EcmTimeout,
     Watch, CacheexTimer, Mode1Timer, FallbackTimer, ClientTimer, ChkCache, AddJob, CachePush,
     Tick, AnswerFound, AnswerNotFound, Answer, BadEcmBegin, BadEcmEnd, vars

\* get_cw as well passes a request on, or answers it.
LEMMA GetCwPasses ==
    ASSUME TypeInv, IInv, GetCw
    PROVE  cache' = cache /\ \E e : SameCheck(e) /\ Passes(e)
<1>1. DOMAIN er = Fields /\ er.rc = "UNHANDLED" /\ cache' = cache
  BY DEF GetCw, GetCwCached, GetCwNoReader, GetCwRequest, IInv, Fresh
<1>2. CASE GetCwCached
  <2> DEFINE e == [er EXCEPT !.state = "freed"]
  <2>1. PICK c \in cache : FromCache(e, c)
    BY <1>2 DEF GetCwCached
  <2>2. SameCheck(e) /\ e.rc = er.rc
    BY <1>1 DEF SameCheck, Fields
  <2> HIDE DEF e
  <2>3. QED BY <1>1, <2>1, <2>2, FromCachePasses
<1>3. CASE GetCwNoReader
  <2> DEFINE e == [er EXCEPT !.rc = "NOTFOUND", !.state = "freed"]
  <2>1. SendDcw(e)
    BY <1>3 DEF GetCwNoReader
  <2>2. SameCheck(e) /\ Backed(e)
    BY <1>1 DEF SameCheck, Backed, Fields
  <2> HIDE DEF e
  <2>3. QED BY <1>1, <2>1, <2>2 DEF Passes
<1>4. CASE GetCwRequest
  <2> DEFINE e == [er EXCEPT !.state = "ecmcwcache"]
  <2>1. replies' = replies /\ (er' = e \/ \E stop : Request(stop, e))
    BY <1>4 DEF GetCwRequest
  <2>2. SameCheck(e)
    BY <1>1 DEF SameCheck, Fields
  <2> HIDE DEF e
  <2>3. QED BY <1>1, <2>1, <2>2 DEF Passes
<1>5. QED BY <1>2, <1>3, <1>4 DEF GetCw

\* The double check does not forget a CW, and a request has at most one answer.
LEMMA ChecksGrow ==
    ASSUME TypeInv, IInv, GivenInv, [Next]_vars
    PROVE  /\ replies # <<>> => replies' = replies
           /\ replies = <<>> => er'.checked >= er.checked
<1>1. DOMAIN er = Fields /\ er.checked \in 0 .. 2
  BY DEF TypeInv, RequestType, Request_, IInv
<1>2. CASE GetCw \/ Work
  <2>1. PICK e : SameCheck(e) /\ Passes(e)
    BY <1>2, GetCwPasses, WorkPasses
  <2>2. CASE replies' = replies /\ er' = e
    BY <1>1, <2>1, <2>2 DEF SameCheck
  <2>3. ASSUME NEW stop, replies' = replies, Request(stop, e)
        PROVE  er'.checked >= er.checked /\ replies' = replies
    <3>1. er' = e \/ \E last : er' = [e EXCEPT !.stage = last]
      BY <2>3 DEF Request
    <3>2. QED BY <1>1, <2>1, <2>3, <3>1 DEF SameCheck, Fields
  <2>4. CASE er.rc = "UNHANDLED" /\ SendDcw(e)
    BY <1>1, <2>1, <2>4, SendsOrChecks, UnansweredHasNoReply DEF SameCheck
  <2>5. QED BY <2>1, <2>2, <2>3, <2>4 DEF Passes
<1>3. CASE ~GetCw /\ ~Work
  <2>1. replies' = replies /\ (er' = er \/ \E stage : er' = [er EXCEPT !.stage = stage])
    BY <1>3 DEF Next, Watch, CacheexTimer, Mode1Timer, FallbackTimer, ClientTimer, ChkCache,
       AddJob, CachePush, Tick, AnswerFound, AnswerNotFound, Answer, BadEcmBegin, BadEcmEnd, vars
  <2>2. QED BY <1>1, <2>1 DEF Fields
<1>4. QED BY <1>2, <1>3

\* NOT FOUND is sent when nobody is left: by get_cw without a reader, by cacheex_timeout
\* with cacheex readers alone, by the last chk_dcw.
LEMMA NotFoundSent ==
    ASSUME TypeInv, IInv, [Next]_vars, replies = <<>>, replies' # <<>>, replies'[1].rc = "NOTFOUND"
    PROVE  ea' = ea /\ NoneFound
<1>1. DOMAIN er = Fields /\ er.checked \in 0 .. 2
  BY DEF TypeInv, RequestType, Request_, IInv
<1>2. ASSUME NEW e, NEW c, DOMAIN e = Fields, e.checked = er.checked, FromCache(e, c) PROVE FALSE
  <2> DEFINE found == [e EXCEPT !.rc = IF c[2] = Peer THEN "CACHEEX" ELSE "CACHE1",
                                !.cw = c[1], !.selected = CacheReader(c)]
  <2>1. SendDcw(found)
    BY <1>2 DEF FromCache
  <2>2. DOMAIN found = Fields /\ found.checked = er.checked /\ found.rc # "NOTFOUND"
    BY <1>2 DEF Fields
  <2> HIDE DEF found
  <2>3. QED BY <1>1, <2>1, <2>2, SendsOrChecks
<1>3. CASE GetCw
  <2>1. CASE GetCwCached
    <3> DEFINE e == [er EXCEPT !.state = "freed"]
    <3>1. DOMAIN e = Fields /\ e.checked = er.checked /\ \E c : FromCache(e, c)
      BY <1>1, <2>1 DEF GetCwCached, Fields
    <3> HIDE DEF e
    <3>2. QED BY <1>2, <3>1
  <2>2. CASE GetCwNoReader
    BY <2>2 DEF GetCwNoReader, NoneFound
  <2>3. CASE GetCwRequest
    BY <2>3 DEF GetCwRequest
  <2>4. QED BY <1>3, <2>1, <2>2, <2>3 DEF GetCw
<1>4. CASE ChkDcw
  <2> DEFINE r == jobs[1][2]
             e == [er EXCEPT !.rc = "FOUND", !.cw = ea[r].cw, !.selected = r]
  <2>1. ~Done /\ r \notin CacheexReaders
    BY <1>4 DEF ChkDcw
  <2>2. ea[r].rc # "FOUND"
    <3>1. DOMAIN e = Fields /\ e.checked = er.checked /\ e.rc = "FOUND"
      BY <1>1 DEF Fields
    <3>2. ea[r].rc = "FOUND" => SendDcw(e)
      BY <1>4, <2>1 DEF ChkDcw
    <3> HIDE DEF e
    <3>3. QED BY <1>1, <3>1, <3>2, SendsOrChecks
  <2>3. ChkDcwNotFound(r) /\ ea[r].rc \in {"NOTFOUND", "INVALID"}
    BY <1>4, <2>1, <2>2 DEF ChkDcw
  <2>4. ea' = ea /\ ReaderLeft = {}
    BY <2>3 DEF ChkDcwNotFound
  <2>5. QED BY <2>4 DEF ReaderLeft, HasCw, HaveCw, Is, Lacks, NoneFound
<1>5. CASE CacheAnswer
  BY <1>1, <1>2, <1>5 DEF CacheAnswer
<1>6. CASE CacheexTimeout
  <2>1. ea' = ea /\ DOMAIN ea \subseteq CacheexReaders
    BY <1>6 DEF CacheexTimeout
  <2>2. QED BY <2>1 DEF NoneFound
<1>7. CASE EcmTimeout
  <2> DEFINE e == [er EXCEPT !.timeout_check = TRUE, !.rc = "TIMEOUT"]
  <2>1. SendDcw(e)
    BY <1>7 DEF EcmTimeout
  <2>2. DOMAIN e = Fields /\ e.checked = er.checked /\ e.rc = "TIMEOUT"
    BY <1>1 DEF Fields
  <2> HIDE DEF e
  <2>3. QED BY <1>1, <2>1, <2>2, SendsOrChecks
<1>8. replies' = replies \/ GetCw \/ ChkDcw \/ CacheAnswer \/ CacheexTimeout \/ EcmTimeout
  BY DEF Next, Work, Mode1DelayOver, FallbackTimeoutOver, Watch, CacheexTimer, Mode1Timer,
     FallbackTimer, ClientTimer, ChkCache, AddJob, CachePush, Tick, AnswerFound, AnswerNotFound,
     Answer, BadEcmBegin, BadEcmEnd, vars
<1>9. QED BY <1>3, <1>4, <1>5, <1>6, <1>7, <1>8

\* The job of an answer with a CW is taken by chk_dcw, which sends it or hands it to the
\* double check.
LEMMA AnswerTaken ==
    ASSUME TypeInv, IInv, Work, NEW r, Found(r), jobs # <<>>, jobs[1] = <<"answer", r>>,
           replies = <<>>, replies' = <<>>
    PROVE  er'.checked > 0
<1>1. DOMAIN er = Fields /\ er.checked \in 0 .. 2
  BY DEF TypeInv, RequestType, Request_, IInv
<1>2. jobs[1][1] = "answer" /\ jobs[1][2] = r
  OBVIOUS
<1>3. ChkDcw
  BY <1>2 DEF Work, CacheAnswer, Mode1DelayOver, CacheexTimeout, FallbackTimeoutOver, EcmTimeout, Take
<1>4. ~Done
  BY DEF IInv, ReplyInv, Done, Answered, HaveCw
<1> DEFINE e == [er EXCEPT !.rc = "FOUND", !.cw = ea[r].cw, !.selected = r]
<1>5. SendDcw(e)
  BY <1>2, <1>3, <1>4 DEF ChkDcw, Found
<1>6. DOMAIN e = Fields /\ e.checked = er.checked
  BY <1>1 DEF Fields
<1> HIDE DEF e
<1>7. QED BY <1>1, <1>5, <1>6, SendsOrChecks

LEMMA LostStep ==
    ASSUME TypeInv, IInv, GivenInv, LostInv, [Next]_vars
    PROVE  LostInv'
<1>1. DOMAIN ea' = DOMAIN ea /\ JobsStep
  BY ReadersStay, NextJobs
<1>2. \A r \in DOMAIN ea : ea[r] \in EcmAnswer
  BY DEF TypeInv, AnswerType
<1>3. CASE replies # <<>>
  <2>1. replies' = replies
    BY <1>3, ChecksGrow
  <2>2. ASSUME NEW r \in DOMAIN ea, "ACTIVE" \in ea'[r].status,
               "ACTIVE" \in ea[r].status => "ANSWERED" \in ea[r].status /\ ea[r].rc # "FOUND"
        PROVE  "ANSWERED" \in ea'[r].status /\ ea'[r].rc # "FOUND"
    <3>1. ea[r] \in EcmAnswer
      BY <1>2, <2>2
    <3>2. CASE ea'[r] = ea[r] \/ IsDisabled(r)
      BY <2>2, <3>2 DEF IsDisabled
    <3>3. CASE IsAsked(r)
      BY <2>2, <3>1, <3>3 DEF IsAsked, EcmAnswer
    <3>4. CASE TimesOut(r)
      BY <2>2, <3>1, <3>4 DEF TimesOut, EcmAnswer, Lacks
    <3>5. CASE Answers(r)
      BY <2>2, <3>1, <3>5 DEF Answers, Lacks
    <3>6. QED BY <2>2, <3>2, <3>3, <3>4, <3>5, AnswerSteps
  <2>3. NoneFound => NoneFound'
    BY <1>1, <2>2 DEF NoneFound, Is
  <2>4. QED BY <1>3, <2>1, <2>3 DEF LostInv, HandledInv, NotFoundInv
<1>4. CASE replies = <<>> /\ replies' # <<>>
  <2>1. replies'[1].rc = "NOTFOUND" => NoneFound'
    BY <1>4, NotFoundSent DEF NoneFound, Is
  <2>2. QED BY <1>4, <2>1 DEF LostInv, HandledInv, NotFoundInv
<1>5. CASE replies = <<>> /\ replies' = <<>>
  <2>1. er'.checked >= er.checked /\ er.checked \in Nat /\ er'.checked \in Nat
    <3>1. TypeInv'
      BY StepTypes
    <3>2. QED BY <1>5, <3>1, ChecksGrow DEF TypeInv, RequestType, Request_
  <2>2. ASSUME NEW r \in DOMAIN ea, Found(r)' PROVE Queues(r)' \/ er'.checked > 0
    <3>1. \/ ea[r].rc = "FOUND"
          \/ jobs' = Append(jobs, <<"answer", r>>)
      <4>1. ea[r] \in EcmAnswer
        BY <1>2, <2>2
      <4>2. CASE ea'[r] = ea[r] \/ IsDisabled(r)
        BY <2>2, <4>2 DEF IsDisabled, Found
      <4>3. CASE IsAsked(r)
        BY <2>2, <4>1, <4>3 DEF IsAsked, EcmAnswer, Found
      <4>4. CASE TimesOut(r)
        BY <2>2, <4>1, <4>4 DEF TimesOut, EcmAnswer, Found
      <4>5. CASE Answers(r)
        BY <4>5 DEF Answers
      <4>6. QED BY <2>2, <4>2, <4>3, <4>4, <4>5, AnswerSteps
    <3>2. CASE jobs' = Append(jobs, <<"answer", r>>)
      <4>1. jobs \in Seq(Job) /\ <<"answer", r>> \in Job
        BY DEF TypeInv, JobType, AnswerType, Job
      <4>2. Len(jobs) + 1 \in DOMAIN jobs' /\ jobs'[Len(jobs) + 1] = <<"answer", r>>
        BY <3>2, <4>1
      <4>3. QED BY <4>2 DEF Queues
    <3>3. CASE ea[r].rc = "FOUND"
      <4>1. Queues(r) \/ er.checked > 0
        BY <1>5, <2>2, <3>3 DEF LostInv, HandledInv, Found
      <4>2. ASSUME NEW k \in DOMAIN jobs, jobs[k] = <<"answer", r>>
            PROVE  Queues(r)' \/ er'.checked > 0
        <5>1. Queues(r)' \/ (Work /\ k = 1)
          BY <1>1, <4>2, JobsStay DEF Queues
        <5>2. CASE Work /\ k = 1
          BY <1>5, <2>2, <3>3, <4>2, <5>2, AnswerTaken DEF Found
        <5>3. QED BY <5>1, <5>2
      <4>3. QED BY <2>1, <4>1, <4>2 DEF Queues
    <3>4. QED BY <3>1, <3>2, <3>3
  <2>3. QED BY <1>1, <1>5, <2>2 DEF LostInv, HandledInv, NotFoundInv
<1>6. QED BY <1>3, <1>4, <1>5

\* No CW a reader gives is lost between its answer and the client, whatever stages,
\* time-outs, CWs from the cache and "wrong checksum" do in between: until the client
\* has its answer the CW waits for chk_dcw or was double checked, and NOT FOUND goes
\* out only when no active reader has or will have one (write_ecm_answer, chk_dcw,
\* cacheex_timeout, get_cw).
THEOREM NoCwLostInTheQueue == Spec => []CwReachesClient
<1>1. Init => LostInv
  <2> SUFFICES ASSUME Init PROVE LostInv
    OBVIOUS
  <2>1. PICK matching \in SUBSET Readers, prefer \in 0 .. 2 : ea = InitialAnswers(matching, prefer)
    BY DEF Init
  <2>2. \A r \in DOMAIN ea : ~Found(r)
    BY <2>1 DEF InitialAnswers, Found
  <2>3. replies = <<>>
    BY DEF Init
  <2>4. QED BY <2>2, <2>3 DEF LostInv, HandledInv, NotFoundInv
<1>2. TypeInv /\ IInv /\ GivenInv /\ LostInv /\ [Next]_vars => LostInv'
  BY LostStep
<1>3. LostInv => CwReachesClient
  BY DEF LostInv, HandledInv, NotFoundInv, NoneFound, Found, Queues, CwReachesClient, ToSet, Is, Lacks
<1>4. QED BY <1>1, <1>2, <1>3, GivenAlways, PTL DEF Spec

----------------------------------------------------------------------------
(* The double check *)

\* The first CW that was held back is one a reader gave; the one the client got
\* was given by two.
CheckedInv == er.checked # 0 => er.origin \in Readers /\ <<er.cw_checked, er.origin>> \in cache
DeliveredInv ==
    er.double_check /\ replies # <<>> /\ replies[1].rc \in {"FOUND", "CACHE1"} =>
      \E r, s \in Readers : /\ r # s
                            /\ <<replies[1].cw, r>> \in cache /\ <<replies[1].cw, s>> \in cache
CheckInv == CheckedInv /\ DeliveredInv

\* A CW is sent when it is the second one and another reader gave it.
LEMMA SendChecked ==
    ASSUME TypeInv, IInv, CheckInv, er.rc = "UNHANDLED", cache' = cache,
           NEW e, SameCheck(e), Backed(e), SendDcw(e)
    PROVE  CheckInv'
<1>1. replies = <<>> /\ e.checked \in 0 .. 1 /\ DOMAIN e = Fields
  BY UnansweredHasNoReply DEF TypeInv, RequestType, Request_, HaveCw, SameCheck
<1>2. CASE ~Checks(e)
  <2>1. er' = e /\ replies' = Append(replies, [rc |-> e.rc, cw |-> e.cw])
    BY <1>2 DEF SendDcw
  <2>2. replies'[1] = [rc |-> e.rc, cw |-> e.cw]
    BY <1>1, <2>1
  <2>3. e.double_check => e.rc \notin {"FOUND", "CACHE1"}
    BY <1>2, SortsAssumption DEF Checks, Backed
  <2>4. DeliveredInv'
    BY <2>1, <2>2, <2>3 DEF DeliveredInv
  <2>5. CheckedInv'
    BY <2>1 DEF CheckInv, CheckedInv, SameCheck
  <2>6. QED BY <2>4, <2>5 DEF CheckInv
<1>3. CASE Checks(e)
  <2> DEFINE c == Compare(e)
  <2>1. e.selected \in Readers /\ <<e.cw, e.selected>> \in cache
    BY <1>3 DEF Checks, Backed
  <2>2. CASE e.checked = 0
    <3>1. c = [e EXCEPT !.checked = 1, !.origin = e.selected, !.cw_checked = e.cw]
      BY <2>2 DEF Compare
    <3>2. DOMAIN c = Fields /\ c.checked = 1 /\ c.origin = e.selected /\ c.cw_checked = e.cw
      BY <1>1, <3>1 DEF Fields
    <3>3. er' = [c EXCEPT !.rc = "UNHANDLED"] /\ replies' = replies
      BY <1>3, <3>2 DEF SendDcw
    <3> HIDE DEF c
    <3>4. er'.checked = 1 /\ er'.origin = e.selected /\ er'.cw_checked = e.cw
      BY <3>2, <3>3 DEF Fields
    <3>5. QED BY <1>1, <2>1, <3>3, <3>4 DEF CheckInv, CheckedInv, DeliveredInv
  <2>3. CASE e.checked = 1 /\ e.origin # e.selected /\ e.cw_checked = e.cw
    <3>1. c = [e EXCEPT !.checked = 2]
      BY <2>3 DEF Compare
    <3>2. /\ DOMAIN c = Fields /\ c.checked = 2 /\ c.origin = e.origin /\ c.cw_checked = e.cw
          /\ c.cw = e.cw
      BY <1>1, <2>3, <3>1 DEF Fields
    <3>3. er' = c /\ replies' = Append(replies, [rc |-> c.rc, cw |-> c.cw])
      BY <1>3, <3>2 DEF SendDcw
    <3> HIDE DEF c
    <3>4. replies'[1].cw = e.cw
      BY <1>1, <3>2, <3>3
    <3>5. e.origin \in Readers /\ <<e.cw, e.origin>> \in cache
      BY <2>3 DEF CheckInv, CheckedInv, SameCheck
    <3>6. CheckedInv'
      BY <3>2, <3>3, <3>5 DEF CheckedInv
    <3>7. DeliveredInv'
      BY <2>1, <2>3, <3>4, <3>5 DEF DeliveredInv
    <3>8. QED BY <3>6, <3>7 DEF CheckInv
  <2>4. CASE e.checked = 1 /\ ~(e.origin # e.selected /\ e.cw_checked = e.cw)
    <3>1. c = e
      BY <2>4 DEF Compare
    <3>2. er' = [e EXCEPT !.rc = "UNHANDLED"] /\ replies' = replies
      BY <1>3, <2>4, <3>1 DEF SendDcw
    <3>3. er'.checked = er.checked /\ er'.origin = er.origin /\ er'.cw_checked = er.cw_checked
      BY <1>1, <3>2 DEF SameCheck, Fields
    <3>4. QED BY <1>1, <3>2, <3>3 DEF CheckInv, CheckedInv, DeliveredInv
  <2>5. QED BY <1>1, <2>2, <2>3, <2>4
<1>4. QED BY <1>2, <1>3

\* A step that sends nothing, the cache may grow.
LEMMA QuietChecked ==
    ASSUME CheckInv, SameCheck(er'), replies' = replies, cache \subseteq cache'
    PROVE  CheckInv'
BY DEF CheckInv, CheckedInv, DeliveredInv, SameCheck

LEMMA PassesChecked ==
    ASSUME TypeInv, IInv, CheckInv, cache' = cache, NEW e, SameCheck(e), Passes(e)
    PROVE  CheckInv'
<1>1. CASE er' = e /\ replies' = replies
  BY <1>1, QuietChecked
<1>2. ASSUME NEW stop, Request(stop, e), replies' = replies PROVE CheckInv'
  <2>1. er' = e \/ \E last : er' = [e EXCEPT !.stage = last]
    BY <1>2 DEF Request
  <2>2. SameCheck(er')
    BY <2>1 DEF SameCheck, Fields
  <2>3. QED BY <1>2, <2>2, QuietChecked
<1>3. QED BY <1>1, <1>2, SendChecked DEF Passes

\* For every set of readers: with the double check the client gets a CW that two
\* different readers gave (send_dcw, also for a CW get_cw or chkcache_process took
\* from the cache).
THEOREM DeliveredTwice == Spec => []DeliveredIsVerified
<1>1. Init => CheckInv
  <2> SUFFICES ASSUME Init PROVE CheckInv
    OBVIOUS
  <2>1. er.checked = 0 /\ replies = <<>>
    BY DEF Init
  <2>2. QED BY <2>1 DEF CheckInv, CheckedInv, DeliveredInv
<1>2. ASSUME IInv, TypeInv, GivenInv, CheckInv, [Next]_vars PROVE CheckInv'
  <2>1. CASE Work
    <3>1. cache' = cache
      BY <2>1 DEF Work, ChkDcw, CacheAnswer, Mode1DelayOver, CacheexTimeout, FallbackTimeoutOver,
                  EcmTimeout, Take
    <3>2. PICK e : SameCheck(e) /\ Passes(e)
      BY <1>2, <2>1, WorkPasses
    <3>3. QED BY <1>2, <3>1, <3>2, PassesChecked
  <2>2. CASE ~GetCw /\ ~Work
    <3>1. /\ er' = er \/ \E stage : er' = [er EXCEPT !.stage = stage]
          /\ replies' = replies /\ cache \subseteq cache'
      BY <1>2, <2>2 DEF Next, Watch, CacheexTimer, Mode1Timer, FallbackTimer, ClientTimer, ChkCache,
         AddJob, CachePush, Tick, AnswerFound, AnswerNotFound, Answer, BadEcmBegin, BadEcmEnd, vars
    <3>2. SameCheck(er')
      BY <1>2, <3>1 DEF SameCheck, IInv, Fields
    <3>3. QED BY <1>2, <3>1, <3>2, QuietChecked
  <2>3. CASE GetCw
    BY <1>2, <2>3, GetCwPasses, PassesChecked
  <2>4. QED BY <2>1, <2>2, <2>3
<1>3. CheckInv => DeliveredIsVerified
  BY DEF CheckInv, DeliveredInv, DeliveredIsVerified, GaveCw
<1>4. QED BY <1>1, <1>2, <1>3, GivenAlways, PTL DEF Spec

----------------------------------------------------------------------------
(* Nobody is left, and the client knows *)

\* A request that no cacheex reader and no reader with a limit matches: one with a
\* limit may be skipped for good (V_SkippedReaderAwaited), a cacheex reader is not
\* among those chk_dcw waits for.
Ordinary == DOMAIN ea \cap (CacheexReaders \cup LimitedReaders) = {}

\* Whoever the stages up to now were for was asked, except for what a reader in
\* the middle of "wrong checksum" will deactivate.
AskedInv ==
    /\ \A r \in DOMAIN ea : Is(r, {"ACTIVE"}) =>
         /\ er.stage >= 3 /\ Lacks(r, "FALLBACK") => Is(r, {"SENT"})
         /\ er.stage >= 4 => Is(r, {"SENT"})
    /\ \A q \in DOMAIN clearing : \A r \in DOMAIN ea :
         ea[r].status # clearing[q].status[r] => Is(r, {"SENT"}) \/ Lacks(r, "ACTIVE")

\* An answer that is queued is a CW or none.
Results == {"FOUND", "NOTFOUND", "INVALID"}
ResultInv == \A i \in DOMAIN jobs : jobs[i][1] = "answer" => ea[jobs[i][2]].rc \in Results

\* After the first answer something will still come.
Expected ==
    \/ DOMAIN clearing # {}
    \/ \E i \in DOMAIN jobs : jobs[i][1] = "answer"
    \/ \E r \in DOMAIN ea : HasCw(r) \/ MayAnswer(r)
SomeAnswered == \E r \in DOMAIN ea : Is(r, {"ANSWERED"})
ExpectedInv == er.state = "ecmcwcache" /\ ~WaitUntilCtimeout /\ SomeAnswered => Expected
UnaskedInv == er.state = "new" => ~SomeAnswered

OpenInv == AskedInv /\ ResultInv /\ ExpectedInv /\ UnaskedInv
ExhaustInv == Ordinary /\ replies = <<>> => OpenInv

\* The steps that ask the readers of the next stages: the stage after, if a
\* reader is asked.
AsksUpTo(last) ==
    /\ last \in StagesAfter(er.stage) /\ er'.stage = last
    /\ AskAll({s \in StagesAfter(er.stage) : s <= last}, {})
Asks == (er'.stage = er.stage /\ ea' = ea) \/ \E last \in 0 .. 4 : AsksUpTo(last)

\* request_cw_from_readers asks this way when no reader is at its limit.
LEMMA RequestAsks ==
    ASSUME TypeInv, Ordinary, NEW e, NEW stop, DOMAIN e = Fields, e.stage = er.stage, Request(stop, e)
    PROVE  Asks
<1>1. CASE er' = e /\ UNCHANGED ea
  BY <1>1 DEF Asks
<1>2. CASE ~(er' = e /\ UNCHANGED ea)
  <2>1. PICK busy \in Busy, last \in StagesAfter(e.stage) :
          /\ AskAll({s \in StagesAfter(e.stage) : s <= last}, busy)
          /\ er' = [e EXCEPT !.stage = last]
    BY <1>2 DEF Request
  <2>2. busy = {}
    BY DEF Ordinary, Busy
  <2>3. er'.stage = last /\ last \in 0 .. 4
    <3>1. last \in 0 .. 4
      <4>1. e.stage \in 0 .. 5
        BY DEF TypeInv, RequestType, Request_
      <4>2. QED BY <4>1 DEF StagesAfter
    <3>2. QED BY <2>1, <3>1 DEF Fields
  <2>4. QED BY <2>1, <2>2, <2>3 DEF Asks, AsksUpTo
<1>3. QED BY <1>1, <1>2

\* What asking does to the answers.
LEMMA AskAllKeeps ==
    ASSUME TypeInv, NEW S, NEW busy, AskAll(S, busy)
    PROVE  /\ DOMAIN ea' = DOMAIN ea
           /\ \A r \in DOMAIN ea : /\ ea'[r].rc = ea[r].rc
                                   /\ ea'[r].status \in {ea[r].status, ea[r].status \cup {"SENT"}}
                                   /\ (\E s \in S : r \in Asked(s, busy)) => "SENT" \in ea'[r].status
<1>1. ea' = [r \in DOMAIN ea |->
               IF \E s \in S : r \in Asked(s, busy)
                 THEN [ea[r] EXCEPT !.status = @ \cup {"SENT"}, !.asked = TRUE] ELSE ea[r]]
  BY DEF AskAll
<1>2. \A r \in DOMAIN ea : ea[r] \in EcmAnswer
  BY DEF TypeInv, AnswerType
<1>3. ASSUME NEW r \in DOMAIN ea
      PROVE  /\ ea'[r].rc = ea[r].rc
             /\ ea'[r].status \in {ea[r].status, ea[r].status \cup {"SENT"}}
             /\ (\E s \in S : r \in Asked(s, busy)) => "SENT" \in ea'[r].status
  <2>1. CASE \E s \in S : r \in Asked(s, busy)
    <3>1. ea'[r] = [ea[r] EXCEPT !.status = @ \cup {"SENT"}, !.asked = TRUE]
      BY <1>1, <2>1
    <3>2. QED BY <1>2, <3>1 DEF EcmAnswer
  <2>2. CASE ~(\E s \in S : r \in Asked(s, busy))
    <3>1. ea'[r] = ea[r]
      BY <1>1, <2>2
    <3>2. QED BY <2>2, <3>1
  <2>3. QED BY <2>1, <2>2
<1>4. QED BY <1>1, <1>3

\* Who a stage is for is asked, when nobody is at a limit.
LEMMA AskedAfter ==
    ASSUME TypeInv, IInv, AskedInv, clearing' = clearing, NEW last \in 0 .. 4, AsksUpTo(last)
    PROVE  AskedInv'
<1> DEFINE P == {s \in StagesAfter(er.stage) : s <= last}
<1>1. er.stage \in 0 .. 5
  BY DEF TypeInv, RequestType, Request_
<1>2. AskAll(P, {}) /\ er'.stage = last /\ last > er.stage
  BY <1>1 DEF AsksUpTo, StagesAfter
<1>3. /\ er.stage < 3 /\ last >= 3 => 3 \in P
      /\ er.stage < 4 /\ last >= 4 => 4 \in P
  BY <1>1 DEF StagesAfter
<1> HIDE DEF P
<1>4. /\ DOMAIN ea' = DOMAIN ea
      /\ \A r \in DOMAIN ea : /\ ea'[r].status \in {ea[r].status, ea[r].status \cup {"SENT"}}
                              /\ (\E s \in P : r \in Asked(s, {})) => "SENT" \in ea'[r].status
  BY <1>2, AskAllKeeps
<1>5. ASSUME NEW r \in DOMAIN ea, "ACTIVE" \in ea'[r].status, "SENT" \notin ea'[r].status
      PROVE  ~(last >= 3 /\ "FALLBACK" \notin ea'[r].status) /\ ~(last >= 4)
  <2>1. /\ ea'[r].status = ea[r].status /\ "SENT" \notin ea[r].status /\ "ACTIVE" \in ea[r].status
        /\ \A s \in P : r \notin Asked(s, {})
    BY <1>4, <1>5
  <2>2. \A s \in P : ~Eligible(r, s)
    BY <2>1 DEF Asked, Lacks
  <2>3. ~(er.stage >= 3 /\ "FALLBACK" \notin ea[r].status) /\ ~(er.stage >= 4)
    BY <2>1 DEF AskedInv, Is, Lacks
  <2>4. Eligible(r, 3) \/ "FALLBACK" \in ea[r].status
    BY <2>1 DEF Eligible, Is, Lacks
  <2>5. Eligible(r, 4) \/ "FALLBACK" \notin ea[r].status
    BY <2>1 DEF Eligible, Is
  <2>6. ASSUME last >= 3, "FALLBACK" \notin ea[r].status PROVE FALSE
    BY <1>1, <1>3, <2>2, <2>3, <2>4, <2>6
  <2>7. ASSUME last >= 4 PROVE FALSE
    BY <1>1, <1>3, <2>2, <2>3, <2>5, <2>6, <2>7
  <2>8. QED BY <2>1, <2>6, <2>7
<1>6. ASSUME NEW q \in DOMAIN clearing, NEW r \in DOMAIN ea,
             ea'[r].status # clearing[q].status[r], "SENT" \notin ea'[r].status
      PROVE  "ACTIVE" \notin ea'[r].status
  <2>1. ea'[r].status = ea[r].status
    BY <1>4, <1>6
  <2>2. QED BY <1>6, <2>1 DEF AskedInv, Is, Lacks
<1>7. QED BY <1>2, <1>4, <1>5, <1>6 DEF AskedInv, Is, Lacks

\* The time-out for the fallbacks asks everyone left.
LEMMA FallbackTimeoutAsks ==
    ASSUME TypeInv, IInv, Ordinary, FallbackTimeoutOver
    PROVE  Asks
<1>1. er.stage \in 0 .. 5 /\ DOMAIN er = Fields
  BY DEF TypeInv, RequestType, Request_, IInv
<1>2. CASE er.rc = "UNHANDLED" /\ er.stage < 4
  <2>1. PICK busy \in Busy : AskAll(StagesAfter(er.stage), busy)
    BY <1>2 DEF FallbackTimeoutOver
  <2>2. busy = {}
    BY DEF Ordinary, Busy
  <2>3. er'.stage = 4
    BY <1>1, <1>2 DEF FallbackTimeoutOver, Fields
  <2>4. {s \in StagesAfter(er.stage) : s <= 4} = StagesAfter(er.stage) /\ 4 \in StagesAfter(er.stage)
    BY <1>1, <1>2 DEF StagesAfter
  <2>5. QED BY <2>1, <2>2, <2>3, <2>4 DEF Asks, AsksUpTo
<1>3. CASE ~(er.rc = "UNHANDLED" /\ er.stage < 4)
  BY <1>3 DEF FallbackTimeoutOver, Asks
<1>4. QED BY <1>2, <1>3

\* While the client has no answer its thread only asks or leaves the readers as they
\* are, and takes an answer off the queue in chk_dcw only.
Kept == \A k \in DOMAIN jobs : jobs[k][1] = "answer" => \E i \in DOMAIN jobs' : jobs'[i] = jobs[k]
NoNew == \A i \in DOMAIN jobs' : jobs'[i][1] = "answer" => \E k \in DOMAIN jobs : jobs'[i] = jobs[k]

\* Taking a job off the queue loses no answer but its own and adds none.
LEMMA JobTaken ==
    ASSUME TypeInv, jobs # <<>>, jobs' = Tail(jobs)
    PROVE  NoNew /\ (jobs[1][1] # "answer" => Kept)
<1>1. /\ DOMAIN Tail(jobs) = 1 .. Len(jobs) - 1 /\ Len(jobs) \in Nat /\ DOMAIN jobs = 1 .. Len(jobs)
      /\ \A i \in DOMAIN Tail(jobs) : Tail(jobs)[i] = jobs[i + 1] /\ i + 1 \in DOMAIN jobs
  BY DEF TypeInv, JobType
<1>2. \A k \in DOMAIN jobs : k = 1 \/ (k - 1 \in DOMAIN Tail(jobs) /\ Tail(jobs)[k - 1] = jobs[k])
  BY <1>1
<1>3. QED BY <1>1, <1>2 DEF Kept, NoNew

\* An added job leaves the others where they are.
LEMMA JobAdded ==
    ASSUME NEW q \in Seq(Job), NEW job \in Job, jobs' = Append(q, job)
    PROVE  /\ \A k \in DOMAIN q : k \in DOMAIN jobs' /\ jobs'[k] = q[k]
           /\ \A i \in DOMAIN jobs' : (i \in DOMAIN q /\ jobs'[i] = q[i]) \/ jobs'[i] = job
           /\ \E i \in DOMAIN jobs' : jobs'[i] = job
<1>1. /\ Len(q) \in Nat /\ DOMAIN q = 1 .. Len(q) /\ DOMAIN Append(q, job) = 1 .. Len(q) + 1
      /\ \A k \in 1 .. Len(q) : Append(q, job)[k] = q[k]
      /\ Append(q, job)[Len(q) + 1] = job
  OBVIOUS
<1>2. QED BY <1>1

\* A job of the timers or the cache is queued.
LEMMA OtherJobAdded ==
    ASSUME TypeInv, NEW job \in Job, job[1] # "answer",
           \/ jobs' = Append(jobs, job)
           \/ jobs # <<>> /\ jobs[1][1] # "answer" /\ jobs' = Append(Tail(jobs), job)
    PROVE  NoNew /\ Kept
<1>1. jobs \in Seq(Job) /\ (jobs # <<>> => Tail(jobs) \in Seq(Job))
  BY DEF TypeInv, JobType
<1>2. CASE jobs' = Append(jobs, job)
  BY <1>1, <1>2, JobAdded DEF NoNew, Kept
<1>3. CASE jobs # <<>> /\ jobs[1][1] # "answer" /\ jobs' = Append(Tail(jobs), job)
  <2> DEFINE q == Tail(jobs)
  <2>1. /\ DOMAIN Tail(jobs) = 1 .. Len(jobs) - 1 /\ Len(jobs) \in Nat /\ DOMAIN jobs = 1 .. Len(jobs)
        /\ \A i \in DOMAIN Tail(jobs) : Tail(jobs)[i] = jobs[i + 1] /\ i + 1 \in DOMAIN jobs
    BY <1>1, <1>3
  <2>2. \A k \in DOMAIN jobs : k = 1 \/ (k - 1 \in DOMAIN q /\ q[k - 1] = jobs[k])
    BY <2>1
  <2>3. \A i \in DOMAIN q : \E k \in DOMAIN jobs : q[i] = jobs[k]
    BY <2>1
  <2>4. q \in Seq(Job) /\ jobs' = Append(q, job)
    BY <1>1, <1>3
  <2> HIDE DEF q
  <2>5. /\ \A k \in DOMAIN q : k \in DOMAIN jobs' /\ jobs'[k] = q[k]
        /\ \A i \in DOMAIN jobs' : (i \in DOMAIN q /\ jobs'[i] = q[i]) \/ jobs'[i] = job
    BY <2>4, JobAdded
  <2>6. QED BY <1>3, <2>2, <2>3, <2>5 DEF NoNew, Kept
<1>4. QED BY <1>2, <1>3

\* Sending NOT FOUND or TIMEOUT is not subject to the double check.
LEMMA SendsAtOnce ==
    ASSUME IInv, NEW e, DOMAIN e = Fields, e.rc \in {"NOTFOUND", "TIMEOUT"}, SendDcw(e)
    PROVE  replies' # <<>>
<1>1. replies' = Append(replies, [rc |-> e.rc, cw |-> e.cw])
  BY DEF SendDcw, Checks
<1>2. replies = <<>> \/ Len(replies) = 1
  BY DEF IInv, ReplyInv
<1>3. CASE replies = <<>>
  BY <1>1, <1>3
<1>4. CASE Len(replies) = 1
  <2>1. \E x : replies' = Append(replies, x)
    BY <1>1
  <2>2. QED BY <1>4, <2>1
<1>5. QED BY <1>2, <1>3, <1>4

\* A CW from the cache changes neither the stage nor the readers.
LEMMA CacheQuiet ==
    ASSUME NEW e, NEW c, DOMAIN e = Fields, FromCache(e, c)
    PROVE  er'.stage = e.stage /\ er'.state = e.state
<1> DEFINE found == [e EXCEPT !.rc = IF c[2] = Peer THEN "CACHEEX" ELSE "CACHE1",
                              !.cw = c[1], !.selected = CacheReader(c)]
           checked == IF Checks(found) THEN Compare(found) ELSE found
<1>1. DOMAIN found = Fields /\ found.stage = e.stage /\ found.state = e.state
  BY DEF Fields
<1> HIDE DEF found
<1>2. DOMAIN checked = Fields /\ checked.stage = e.stage /\ checked.state = e.state
  BY <1>1 DEF Compare, Fields
<1>3. \/ er' = e \/ er' = found \/ er' = checked
      \/ er' = [checked EXCEPT !.rc = "UNHANDLED"]
  BY DEF FromCache, SendDcw, found
<1> HIDE DEF checked
<1>4. QED BY <1>1, <1>2, <1>3 DEF Fields

\* What a step of the client's thread that leaves the client without an answer does,
\* other than chk_dcw.
LEMMA QuietWork ==
    ASSUME TypeInv, IInv, Ordinary, replies' = <<>>, Work, ~ChkDcw
    PROVE  Asks /\ NoNew /\ Kept /\ clearing' = clearing /\ er'.state = er.state
<1>1. DOMAIN er = Fields /\ clearing' = clearing
  BY DEF IInv, Work, ChkDcw, CacheAnswer, Mode1DelayOver, CacheexTimeout, FallbackTimeoutOver,
     EcmTimeout, Take
<1>2. jobs # <<>> /\ jobs[1][1] # "answer"
  BY DEF Work, CacheAnswer, Mode1DelayOver, CacheexTimeout, FallbackTimeoutOver, EcmTimeout, Take
<1>3. CASE CacheAnswer
  <2>1. jobs' = Tail(jobs) /\ ea' = ea /\ \E c : FromCache(er, c)
    BY <1>3 DEF CacheAnswer
  <2>2. er'.stage = er.stage /\ er'.state = er.state
    BY <1>1, <2>1, CacheQuiet
  <2>3. QED BY <1>1, <1>2, <2>1, <2>2, JobTaken DEF Asks
<1>4. CASE Mode1DelayOver
  <2>1. jobs' = Tail(jobs) /\ (Request(1, er) \/ (er' = er /\ ea' = ea))
    BY <1>4 DEF Mode1DelayOver
  <2>2. Asks
    BY <1>1, <2>1, RequestAsks DEF Asks
  <2>3. er'.state = er.state
    BY <1>1, <2>1, RequestKeepsRc
  <2>4. QED BY <1>1, <1>2, <2>1, <2>2, <2>3, JobTaken
<1>5. CASE CacheexTimeout
  <2> DEFINE e == [er EXCEPT !.wait_expired = TRUE]
             s == [e EXCEPT !.rc = "NOTFOUND", !.selected = NoReader]
  <2>1. /\ DOMAIN e = Fields /\ e.stage = er.stage /\ e.state = er.state
        /\ DOMAIN s = Fields /\ s.rc = "NOTFOUND"
    BY <1>1 DEF Fields
  <2>2. /\ SendDcw(s) \/ Request(0, e) \/ (er' = e /\ ea' = ea)
        /\ \/ jobs' = Tail(jobs)
           \/ \E c \in cache : jobs' = Append(Tail(jobs), <<"cache", c>>)
    BY <1>5 DEF CacheexTimeout
  <2> HIDE DEF e, s
  <2>3. ~SendDcw(s)
    BY <2>1, SendsAtOnce
  <2>4. Asks /\ er'.state = er.state
    BY <1>1, <2>1, <2>2, <2>3, RequestAsks, RequestKeepsRc DEF Asks
  <2>5. \A c \in cache : <<"cache", c>> \in Job /\ <<"cache", c>>[1] # "answer"
    BY DEF TypeInv, CacheType, Cached, Job
  <2>6. NoNew /\ Kept
    BY <1>2, <2>2, <2>5, JobTaken, OtherJobAdded
  <2>7. QED BY <1>1, <2>4, <2>6
<1>6. CASE FallbackTimeoutOver
  <2>1. jobs' = Tail(jobs) /\ Asks
    BY <1>6, FallbackTimeoutAsks DEF FallbackTimeoutOver
  <2>2. er'.state = er.state
    BY <1>1, <1>6 DEF FallbackTimeoutOver, Fields
  <2>3. QED BY <1>1, <1>2, <2>1, <2>2, JobTaken
<1>7. CASE EcmTimeout
  <2> DEFINE e == [er EXCEPT !.timeout_check = TRUE]
             s == [er EXCEPT !.timeout_check = TRUE, !.rc = "TIMEOUT"]
  <2>1. /\ DOMAIN e = Fields /\ e.stage = er.stage /\ e.state = er.state
        /\ DOMAIN s = Fields /\ s.rc = "TIMEOUT"
    BY <1>1 DEF Fields
  <2>2. SendDcw(s) \/ (er' = e /\ ea' = ea /\ jobs' = Tail(jobs))
    BY <1>7 DEF EcmTimeout
  <2> HIDE DEF e, s
  <2>3. ~SendDcw(s)
    BY <2>1, SendsAtOnce
  <2>4. QED BY <1>1, <1>2, <2>1, <2>2, <2>3, JobTaken DEF Asks
<1>8. QED BY <1>3, <1>4, <1>5, <1>6, <1>7 DEF Work

\* The same of get_cw, for a request it takes.
LEMMA QuietGetCw ==
    ASSUME TypeInv, IInv, Ordinary, replies' = <<>>, GetCw
    PROVE  Asks /\ NoNew /\ Kept /\ clearing' = clearing
           /\ er.state = "new" /\ er'.state # "new"
<1>1. /\ DOMAIN er = Fields /\ clearing' = clearing /\ jobs' = jobs /\ er.state = "new"
  BY DEF IInv, GetCw, GetCwCached, GetCwNoReader, GetCwRequest
<1>2. NoNew /\ Kept
  BY <1>1 DEF NoNew, Kept
<1>3. CASE GetCwCached
  <2> DEFINE e == [er EXCEPT !.state = "freed"]
  <2>1. ea' = ea /\ \E c : FromCache(e, c)
    BY <1>3 DEF GetCwCached
  <2>2. DOMAIN e = Fields /\ e.stage = er.stage /\ e.state = "freed"
    BY <1>1 DEF Fields
  <2> HIDE DEF e
  <2>3. er'.stage = er.stage /\ er'.state = "freed"
    BY <2>1, <2>2, CacheQuiet
  <2>4. QED BY <1>1, <1>2, <2>1, <2>3 DEF Asks
<1>4. CASE GetCwNoReader
  <2> DEFINE e == [er EXCEPT !.rc = "NOTFOUND", !.state = "freed"]
  <2>1. SendDcw(e)
    BY <1>4 DEF GetCwNoReader
  <2>2. DOMAIN e = Fields /\ e.rc = "NOTFOUND"
    BY <1>1 DEF Fields
  <2> HIDE DEF e
  <2>3. QED BY <2>1, <2>2, SendsAtOnce
<1>5. CASE GetCwRequest
  <2> DEFINE e == [er EXCEPT !.state = "ecmcwcache"]
  <2>1. Request(0, e) \/ Request(1, e) \/ (er' = e /\ ea' = ea)
    BY <1>5 DEF GetCwRequest
  <2>2. DOMAIN e = Fields /\ e.stage = er.stage /\ e.state = "ecmcwcache"
    BY <1>1 DEF Fields
  <2> HIDE DEF e
  <2>3. Asks /\ er'.state = "ecmcwcache"
    BY <2>1, <2>2, RequestAsks, RequestKeepsRc DEF Asks
  <2>4. QED BY <1>1, <1>2, <2>3
<1>6. QED BY <1>3, <1>4, <1>5 DEF GetCw

\* All steps but chk_dcw, the answers and "wrong checksum" are of this kind.
LEMMA QuietSteps ==
    ASSUME TypeInv, IInv, Ordinary, replies' = <<>>, [Next]_vars
    PROVE  \/ Asks /\ NoNew /\ Kept /\ clearing' = clearing
              /\ (er'.state = er.state \/ (er.state = "new" /\ er'.state # "new"))
              /\ (er'.state = "new" => ea' = ea)
           \/ ChkDcw
           \/ \E r \in Readers : AnswerFound(r) \/ AnswerNotFound(r) \/ BadEcmBegin(r) \/ BadEcmEnd(r)
<1>1. CASE GetCw
  BY <1>1, QuietGetCw
<1>2. CASE Work /\ ~ChkDcw
  <2>1. er.state # "new"
    BY <1>2 DEF Work, CacheAnswer, Mode1DelayOver, CacheexTimeout, FallbackTimeoutOver, EcmTimeout,
       Take, IInv, Fresh
  <2>2. QED BY <1>2, <2>1, QuietWork
<1>3. CASE Watch \/ ChkCache
  <2>1. er' = er /\ ea' = ea /\ clearing' = clearing
    BY <1>3 DEF Watch, CacheexTimer, Mode1Timer, FallbackTimer, ClientTimer, ChkCache, AddJob
  <2>2. \E job \in Job : job[1] # "answer" /\ jobs' = Append(jobs, job)
    <3>1. \/ \E c \in cache : AddJob(<<"cache", c>>)
          \/ \E action \in {"mode1_delay", "cacheex_timeout", "fallback_timeout", "ecm_timeout"} :
               AddJob(Timer(action))
      BY <1>3, Zenon DEF Watch, CacheexTimer, Mode1Timer, FallbackTimer, ClientTimer, ChkCache
    <3>2. \A c \in cache : <<"cache", c>> \in Job /\ <<"cache", c>>[1] # "answer"
      BY DEF TypeInv, CacheType, Cached, Job
    <3>3. \A action \in {"mode1_delay", "cacheex_timeout", "fallback_timeout", "ecm_timeout"} :
            Timer(action) \in Job /\ Timer(action)[1] # "answer"
      BY DEF Timer, Job
    <3>4. QED BY <3>1, <3>2, <3>3 DEF AddJob
  <2>3. NoNew /\ Kept
    BY <2>2, OtherJobAdded
  <2>4. QED BY <2>1, <2>3 DEF Asks
<1>4. CASE CachePush \/ Tick \/ UNCHANGED vars
  <2>1. er' = er /\ ea' = ea /\ clearing' = clearing /\ jobs' = jobs
    BY <1>4 DEF CachePush, Tick, vars
  <2>2. QED BY <2>1 DEF Asks, NoNew, Kept
<1>5. QED BY <1>1, <1>2, <1>3, <1>4 DEF Next

\* Asking keeps that everyone the stages were for was asked.
LEMMA AsksAsked ==
    ASSUME TypeInv, IInv, AskedInv, clearing' = clearing, Asks
    PROVE  /\ AskedInv' /\ DOMAIN ea' = DOMAIN ea
           /\ \A r \in DOMAIN ea : /\ ea'[r].rc = ea[r].rc
                                   /\ ea'[r].status \in {ea[r].status, ea[r].status \cup {"SENT"}}
<1>1. CASE er'.stage = er.stage /\ ea' = ea
  BY <1>1 DEF AskedInv, Is, Lacks
<1>2. ASSUME NEW last \in 0 .. 4, AsksUpTo(last)
      PROVE  /\ AskedInv' /\ DOMAIN ea' = DOMAIN ea
             /\ \A r \in DOMAIN ea : /\ ea'[r].rc = ea[r].rc
                                     /\ ea'[r].status \in {ea[r].status, ea[r].status \cup {"SENT"}}
  <2>1. \E S : AskAll(S, {})
    BY <1>2 DEF AsksUpTo
  <2>2. QED BY <1>2, <2>1, AskedAfter, AskAllKeeps
<1>3. QED BY <1>1, <1>2 DEF Asks

\* Who may answer still may when more readers were asked.
LEMMA MayStill ==
    ASSUME TypeInv, AskedInv', DOMAIN ea' = DOMAIN ea, NEW x \in DOMAIN ea,
           ea'[x].status \in {ea[x].status, ea[x].status \cup {"SENT"}},
           Is(x, {"ACTIVE"}), Lacks(x, "ANSWERED"), er'.stage \in 0 .. 5
    PROVE  MayAnswer(x)'
<1>1. "ACTIVE" \in ea'[x].status /\ "ANSWERED" \notin ea'[x].status
  BY DEF Is, Lacks
<1>2. "SENT" \in ea'[x].status \/ er'.stage < 4
  <2>1. er'.stage >= 4 => "SENT" \in ea'[x].status
    BY <1>1 DEF AskedInv, Is, Lacks
  <2>2. QED BY <2>1
<1>3. QED BY <1>1, <1>2 DEF MayAnswer, Is, Lacks

\* Asking stays within the stages.
LEMMA StageAfter ==
    ASSUME TypeInv, Asks
    PROVE  er'.stage \in 0 .. 5
BY DEF Asks, AsksUpTo, TypeInv, RequestType, Request_

\* A step that only asks takes nothing away from what will still come.
LEMMA QuietOpen ==
    ASSUME TypeInv, IInv, OpenInv, Asks, NoNew, Kept, clearing' = clearing,
           er'.state = er.state \/ (er.state = "new" /\ er'.state # "new"),
           er'.state = "new" => ea' = ea
    PROVE  OpenInv'
<1>1. /\ AskedInv' /\ DOMAIN ea' = DOMAIN ea
      /\ \A r \in DOMAIN ea : /\ ea'[r].rc = ea[r].rc
                              /\ ea'[r].status \in {ea[r].status, ea[r].status \cup {"SENT"}}
  BY AsksAsked DEF OpenInv
<1>2. ResultInv'
  <2>1. \A k \in DOMAIN jobs : jobs[k][1] = "answer" =>
           jobs[k][2] \in DOMAIN ea /\ ea[jobs[k][2]].rc \in Results
    BY DEF TypeInv, JobType, OpenInv, ResultInv
  <2>2. \A k \in DOMAIN jobs : jobs[k][1] = "answer" => ea'[jobs[k][2]].rc \in Results
    BY <1>1, <2>1
  <2>3. QED BY <2>2 DEF ResultInv, NoNew
<1>3. SomeAnswered' => SomeAnswered
  BY <1>1 DEF SomeAnswered, Is
<1>4. UnaskedInv'
  BY <1>3 DEF UnaskedInv, OpenInv
<1>5. Expected => Expected'
  <2>1. ASSUME NEW x \in DOMAIN ea, HasCw(x) PROVE HasCw(x)' /\ x \in DOMAIN ea'
    BY <1>1, <2>1 DEF HasCw
  <2>2. ASSUME NEW x \in DOMAIN ea, MayAnswer(x) PROVE MayAnswer(x)' /\ x \in DOMAIN ea'
    BY <1>1, <2>2, MayStill, StageAfter DEF MayAnswer
  <2>3. ASSUME NEW k \in DOMAIN jobs, jobs[k][1] = "answer"
        PROVE  \E i \in DOMAIN jobs' : jobs'[i][1] = "answer"
    BY <2>3 DEF Kept
  <2>4. QED BY <2>1, <2>2, <2>3 DEF Expected
<1>6. ExpectedInv'
  BY <1>3, <1>5 DEF ExpectedInv, UnaskedInv, OpenInv
<1>7. QED BY <1>1, <1>2, <1>4, <1>6 DEF OpenInv

\* chk_dcw leaves the client without an answer only when somebody is left.
LEMMA ChkDcwOpen ==
    ASSUME TypeInv, IInv, OpenInv, Ordinary, replies = <<>>, replies' = <<>>, ChkDcw
    PROVE  OpenInv'
<1> DEFINE r == jobs[1][2]
<1>1. /\ jobs # <<>> /\ jobs[1][1] = "answer" /\ jobs' = Tail(jobs) /\ clearing' = clearing
      /\ DOMAIN er = Fields /\ er.rc = "UNHANDLED" /\ er.state # "new"
  BY DEF ChkDcw, Take, IInv, ReplyInv, Fresh, Answered, HaveCw
<1>2. 1 \in DOMAIN jobs
  BY <1>1 DEF TypeInv, JobType
<1>3. r \in DOMAIN ea /\ r \notin CacheexReaders /\ ea[r].rc \in Results /\ ~Done
  BY <1>1, <1>2 DEF TypeInv, JobType, Ordinary, OpenInv, ResultInv, Done, Answered, HaveCw
<1> HIDE DEF r
<1>4. /\ ea[r].rc = "FOUND" =>
           SendDcw([er EXCEPT !.rc = "FOUND", !.cw = ea[r].cw, !.selected = r]) /\ ea' = ea
      /\ ea[r].rc # "FOUND" => Unlocked /\ ChkDcwNotFound(r)
  BY <1>3 DEF ChkDcw, Results, r
<1>5. NoNew
  BY <1>1, JobTaken
<1>6. ASSUME Asks, er'.state = er.state,
             (\E x \in DOMAIN ea : HasCw(x) \/ (Is(x, {"ACTIVE"}) /\ Lacks(x, "ANSWERED")))
               \/ WaitUntilCtimeout
      PROVE  OpenInv'
  <2>1. /\ AskedInv' /\ DOMAIN ea' = DOMAIN ea
        /\ \A x \in DOMAIN ea : /\ ea'[x].rc = ea[x].rc
                                /\ ea'[x].status \in {ea[x].status, ea[x].status \cup {"SENT"}}
    BY <1>1, <1>6, AsksAsked DEF OpenInv
  <2>2. ResultInv'
    <3>1. \A k \in DOMAIN jobs : jobs[k][1] = "answer" =>
             jobs[k][2] \in DOMAIN ea /\ ea[jobs[k][2]].rc \in Results
      BY DEF TypeInv, JobType, OpenInv, ResultInv
    <3>2. \A k \in DOMAIN jobs : jobs[k][1] = "answer" => ea'[jobs[k][2]].rc \in Results
      BY <2>1, <3>1
    <3>3. QED BY <1>5, <3>2 DEF ResultInv, NoNew
  <2>3. UnaskedInv'
    BY <1>1, <1>6 DEF UnaskedInv
  <2>4. ExpectedInv'
    <3>1. SUFFICES ASSUME ~WaitUntilCtimeout PROVE Expected'
      BY DEF ExpectedInv
    <3>2. PICK x \in DOMAIN ea : HasCw(x) \/ (Is(x, {"ACTIVE"}) /\ Lacks(x, "ANSWERED"))
      BY <1>6, <3>1
    <3>3. CASE HasCw(x)
      BY <2>1, <3>3 DEF HasCw, Expected
    <3>4. CASE Is(x, {"ACTIVE"}) /\ Lacks(x, "ANSWERED")
      <4>1. MayAnswer(x)'
        BY <1>6, <2>1, <3>4, MayStill, StageAfter
      <4>2. QED BY <2>1, <4>1 DEF Expected
    <3>5. QED BY <3>2, <3>3, <3>4
  <2>5. QED BY <2>1, <2>2, <2>3, <2>4 DEF OpenInv
<1>7. CASE ea[r].rc = "FOUND"
  <2> DEFINE e == [er EXCEPT !.rc = "FOUND", !.cw = ea[r].cw, !.selected = r]
  <2>1. SendDcw(e) /\ ea' = ea
    BY <1>4, <1>7
  <2>2. DOMAIN e = Fields /\ e.state = er.state /\ e.stage = er.stage /\ e.rc = "FOUND"
    BY <1>1 DEF Fields
  <2> HIDE DEF e
  <2>3. er'.stage = er.stage
    BY <2>1, <2>2, SendKeepsStage
  <2>4. er'.state = er.state
    BY <2>1, <2>2, SendDcwOnce DEF Answered, HaveCw
  <2>5. HasCw(r)
    BY <1>7 DEF HasCw, HaveCw
  <2>6. QED BY <1>3, <1>6, <2>1, <2>3, <2>4, <2>5 DEF Asks
<1>8. CASE ea[r].rc # "FOUND"
  <2> DEFINE e == [er EXCEPT !.selected = r]
             s == [e EXCEPT !.rc = "NOTFOUND", !.stage = IF NextStageDue THEN 4 ELSE @]
  <2>1. /\ ReaderLeft = {} /\ ~WaitUntilCtimeout => SendDcw(s)
        /\ ~(ReaderLeft = {} /\ ~WaitUntilCtimeout) => Request(0, e) \/ (er' = e /\ ea' = ea)
    BY <1>4, <1>8 DEF ChkDcwNotFound
  <2>2. /\ DOMAIN e = Fields /\ e.stage = er.stage /\ e.state = er.state
        /\ DOMAIN s = Fields /\ s.rc = "NOTFOUND"
    BY <1>1 DEF Fields
  <2> HIDE DEF e, s
  <2>3. ~(ReaderLeft = {} /\ ~WaitUntilCtimeout)
    BY <2>1, <2>2, SendsAtOnce
  <2>4. Asks /\ er'.state = er.state
    BY <2>1, <2>2, <2>3, RequestAsks, RequestKeepsRc DEF Asks
  <2>5. QED BY <1>6, <2>3, <2>4 DEF ReaderLeft
<1>9. QED BY <1>7, <1>8

\* An answer is queued.
LEMMA AnswerOpen ==
    ASSUME TypeInv, IInv, SentInv, OpenInv, NEW q \in Readers,
           NEW rc \in {"FOUND", "NOTFOUND"}, NEW cw, Answer(q, rc, cw)
    PROVE  OpenInv'
<1>1. /\ q \in DOMAIN ea /\ ea[q].asked /\ er' = er /\ clearing' = clearing
      /\ "ACTIVE" \in ea[q].status => "SENT" \in ea[q].status
      /\ ea' = [ea EXCEPT ![q] = [status |-> ea[q].status \cup {"ANSWERED"},
                                  rc |-> rc, cw |-> cw, asked |-> FALSE]]
      /\ jobs' = Append(jobs, <<"answer", q>>)
  BY DEF Answer, Outstanding, SentInv, Is
<1>2. /\ DOMAIN ea' = DOMAIN ea
      /\ ea'[q].rc = rc /\ ea'[q].status = ea[q].status \cup {"ANSWERED"}
      /\ \A x \in DOMAIN ea : x # q => ea'[x] = ea[x]
  BY <1>1
<1>3. /\ \A i \in DOMAIN jobs' : (i \in DOMAIN jobs /\ jobs'[i] = jobs[i]) \/ jobs'[i] = <<"answer", q>>
      /\ \E i \in DOMAIN jobs' : jobs'[i] = <<"answer", q>>
  <2>1. jobs \in Seq(Job) /\ <<"answer", q>> \in Job
    BY DEF TypeInv, JobType, Job
  <2>2. QED BY <1>1, <2>1, JobAdded
<1>4. AskedInv'
  <2>1. \A x \in DOMAIN ea : ("SENT" \in ea'[x].status <=> "SENT" \in ea[x].status)
                             /\ ("ACTIVE" \in ea'[x].status <=> "ACTIVE" \in ea[x].status)
                             /\ ("FALLBACK" \in ea'[x].status <=> "FALLBACK" \in ea[x].status)
    BY <1>2
  <2>2. \A p \in DOMAIN clearing : \A x \in DOMAIN ea :
          ea'[x].status # clearing[p].status[x] => "SENT" \in ea'[x].status \/ "ACTIVE" \notin ea'[x].status
    BY <1>1, <1>2, <2>1 DEF OpenInv, AskedInv, Is, Lacks
  <2>3. QED BY <1>1, <1>2, <2>1, <2>2 DEF OpenInv, AskedInv, Is, Lacks
<1>5. ResultInv'
  <2>1. ASSUME NEW i \in DOMAIN jobs', jobs'[i][1] = "answer"
        PROVE  ea'[jobs'[i][2]].rc \in Results
    <3>1. CASE jobs'[i] = <<"answer", q>>
      BY <1>2, <3>1 DEF Results
    <3>2. CASE i \in DOMAIN jobs /\ jobs'[i] = jobs[i]
      <4>1. jobs[i][2] \in DOMAIN ea /\ ea[jobs[i][2]].rc \in Results
        BY <2>1, <3>2 DEF TypeInv, JobType, OpenInv, ResultInv
      <4>2. QED BY <1>2, <3>2, <4>1 DEF Results
    <3>3. QED BY <1>3, <3>1, <3>2
  <2>2. QED BY <2>1 DEF ResultInv
<1>6. ExpectedInv'
  BY <1>3 DEF ExpectedInv, Expected
<1>7. UnaskedInv'
  <2>1. er.state # "new"
    BY <1>1 DEF IInv, Fresh, Lacks
  <2>2. QED BY <1>1, <2>1 DEF UnaskedInv
<1>8. QED BY <1>4, <1>5, <1>6, <1>7 DEF OpenInv

\* A reader starts to deactivate the others.
LEMMA BadEcmBeginOpen ==
    ASSUME TypeInv, IInv, OpenInv, NEW q \in Readers, BadEcmBegin(q)
    PROVE  OpenInv'
<1>1. /\ ea' = ea /\ er' = er /\ jobs' = jobs /\ q \in DOMAIN ea
      /\ clearing' = [x \in DOMAIN clearing \cup {q} |->
                        IF x # q THEN clearing[x]
                        ELSE [stage |-> er.stage, status |-> [y \in DOMAIN ea |-> ea[y].status]]]
  BY DEF BadEcmBegin, Outstanding
<1>2. DOMAIN clearing' = DOMAIN clearing \cup {q}
      /\ \A x \in DOMAIN clearing' : \/ x \in DOMAIN clearing /\ clearing'[x] = clearing[x]
                                     \/ \A y \in DOMAIN ea : clearing'[x].status[y] = ea[y].status
  BY <1>1
<1>3. AskedInv'
  BY <1>1, <1>2 DEF OpenInv, AskedInv, Is, Lacks
<1>4. ResultInv' /\ UnaskedInv'
  BY <1>1 DEF OpenInv, ResultInv, UnaskedInv, SomeAnswered, Is
<1>5. Expected'
  BY <1>2 DEF Expected
<1>6. QED BY <1>3, <1>4, <1>5 DEF OpenInv, ExpectedInv

\* The end of it leaves nobody active who was not asked, and an answer queued.
LEMMA BadEcmEndOpen ==
    ASSUME TypeInv, IInv, OpenInv, NEW q \in Readers, BadEcmEnd(q)
    PROVE  OpenInv'
<1>1. /\ q \in DOMAIN clearing /\ q \in DOMAIN ea
      /\ clearing' = [x \in DOMAIN clearing \ {q} |-> clearing[x]]
      /\ jobs' = Append(jobs, <<"answer", q>>)
      /\ DOMAIN er = Fields /\ er.state # "new"
  BY DEF BadEcmEnd, TypeInv, ClearingType, IInv, Fresh
<1>2. er'.state = er.state
  BY <1>1 DEF BadEcmEnd, Fields
<1>3. PICK undone \in SUBSET Raced(q) : \E lost \in SUBSET (Raced(q) \ undone) :
        ea' = [x \in DOMAIN ea |->
                IF x = q
                  THEN [ea[x] EXCEPT !.rc = "INVALID", !.asked = FALSE,
                                     !.status = Inactive(@) \cup {"ANSWERED"}]
                ELSE IF x \in undone THEN ea[x]
                ELSE IF x \in lost
                  THEN [ea[x] EXCEPT !.status = Inactive(clearing[q].status[x])]
                ELSE [ea[x] EXCEPT !.status = Inactive(@)]]
  BY DEF BadEcmEnd
<1>4. DOMAIN ea' = DOMAIN ea /\ \A x \in DOMAIN ea : ea[x] \in EcmAnswer
  BY <1>3 DEF TypeInv, AnswerType
<1>5. ASSUME NEW x \in DOMAIN ea
      PROVE  /\ "ACTIVE" \notin ea'[x].status \/ "SENT" \in ea'[x].status
             /\ IF x = q THEN ea'[x].rc = "INVALID" ELSE ea'[x].rc = ea[x].rc
  <2>1. \/ x = q /\ ea'[x] = [ea[x] EXCEPT !.rc = "INVALID", !.asked = FALSE,
                                            !.status = Inactive(@) \cup {"ANSWERED"}]
        \/ x # q /\ x \in undone /\ ea'[x] = ea[x]
        \/ x # q /\ ea'[x] = [ea[x] EXCEPT !.status = Inactive(clearing[q].status[x])]
        \/ x # q /\ ea'[x] = [ea[x] EXCEPT !.status = Inactive(@)]
    BY <1>3
  <2>2. x \in undone => "ACTIVE" \notin ea[x].status \/ "SENT" \in ea[x].status
    BY <1>1 DEF Raced, OpenInv, AskedInv, Is, Lacks
  <2>3. ea[x] \in [status : SUBSET Flags, rc : {"UNHANDLED"} \cup Answered, cw : CWs \cup {NoCw},
                   asked : BOOLEAN]
    BY <1>4 DEF EcmAnswer
  <2>4. CASE x = q /\ ea'[x] = [ea[x] EXCEPT !.rc = "INVALID", !.asked = FALSE,
                                             !.status = Inactive(@) \cup {"ANSWERED"}]
    BY <2>3, <2>4 DEF Inactive
  <2>5. CASE x # q /\ x \in undone /\ ea'[x] = ea[x]
    BY <2>2, <2>5
  <2>6. CASE x # q /\ ea'[x] = [ea[x] EXCEPT !.status = Inactive(clearing[q].status[x])]
    BY <2>3, <2>6 DEF Inactive
  <2>7. CASE x # q /\ ea'[x] = [ea[x] EXCEPT !.status = Inactive(@)]
    BY <2>3, <2>7 DEF Inactive
  <2>8. QED BY <2>1, <2>4, <2>5, <2>6, <2>7
<1>6. AskedInv'
  BY <1>1, <1>4, <1>5 DEF AskedInv, Is, Lacks
<1>7. /\ \A i \in DOMAIN jobs' : (i \in DOMAIN jobs /\ jobs'[i] = jobs[i]) \/ jobs'[i] = <<"answer", q>>
      /\ \E i \in DOMAIN jobs' : jobs'[i] = <<"answer", q>>
  <2>1. jobs \in Seq(Job) /\ <<"answer", q>> \in Job
    BY DEF TypeInv, JobType, Job
  <2>2. QED BY <1>1, <2>1, JobAdded
<1>8. ResultInv'
  <2>1. ASSUME NEW i \in DOMAIN jobs', jobs'[i][1] = "answer"
        PROVE  ea'[jobs'[i][2]].rc \in Results
    <3>1. CASE jobs'[i] = <<"answer", q>>
      BY <1>1, <1>5, <3>1 DEF Results
    <3>2. CASE i \in DOMAIN jobs /\ jobs'[i] = jobs[i]
      <4>1. jobs[i][2] \in DOMAIN ea /\ ea[jobs[i][2]].rc \in Results
        BY <2>1, <3>2 DEF TypeInv, JobType, OpenInv, ResultInv
      <4>2. QED BY <1>5, <3>2, <4>1 DEF Results
    <3>3. QED BY <1>7, <3>1, <3>2
  <2>2. QED BY <2>1 DEF ResultInv
<1>9. ExpectedInv'
  BY <1>7 DEF ExpectedInv, Expected
<1>10. UnaskedInv'
  BY <1>1, <1>2 DEF UnaskedInv
<1>11. QED BY <1>6, <1>8, <1>9, <1>10 DEF OpenInv

\* The steps together; the readers that match do not change.
LEMMA ExhaustStep ==
    TypeInv /\ IInv /\ GivenInv /\ SentInv /\ ExhaustInv /\ [Next]_vars => ExhaustInv'
<1> SUFFICES ASSUME TypeInv, IInv, GivenInv, SentInv, ExhaustInv, [Next]_vars, Ordinary',
                    replies' = <<>>
             PROVE  OpenInv'
  BY DEF ExhaustInv
<1>1. DOMAIN ea' = DOMAIN ea
  BY ReadersStay
<1>2. Ordinary
  BY <1>1 DEF Ordinary
<1>3. replies = <<>>
  BY ChecksGrow
<1>4. OpenInv
  BY <1>2, <1>3 DEF ExhaustInv
<1>5. ASSUME NEW r \in Readers, AnswerFound(r) \/ AnswerNotFound(r)
      PROVE  OpenInv'
  <2>1. \E rc \in {"FOUND", "NOTFOUND"} : \E cw : Answer(r, rc, cw)
    BY <1>5 DEF AnswerFound, AnswerNotFound
  <2>2. QED BY <1>4, <2>1, AnswerOpen
<1>6. QED
  BY <1>2, <1>3, <1>4, <1>5, QuietSteps, QuietOpen, ChkDcwOpen, BadEcmBeginOpen, BadEcmEndOpen

\* A request that neither cacheex readers nor readers with a limit match, in any
\* configuration without wait_until_ctimeout, is answered as soon as some reader
\* answered and no other can: the last chk_dcw finds that nobody is left.
THEOREM ExhaustedIsAnswered == Spec => [](Ordinary => AnsweredWhenExhausted)
<1>1. Init => ExhaustInv
  <2> SUFFICES ASSUME Init PROVE OpenInv
    BY DEF ExhaustInv
  <2>1. PICK matching \in SUBSET Readers, prefer \in 0 .. 2 : ea = InitialAnswers(matching, prefer)
    BY DEF Init
  <2>2. jobs = <<>> /\ DOMAIN clearing = {} /\ er.stage = 0 /\ er.state = "new"
    BY DEF Init
  <2>3. \A r \in DOMAIN ea : "ANSWERED" \notin ea[r].status
    BY <2>1 DEF InitialAnswers, InitialStatus
  <2>4. QED BY <2>2, <2>3 DEF OpenInv, AskedInv, ResultInv, ExpectedInv, UnaskedInv, SomeAnswered, Is
<1>2. TypeInv /\ IInv /\ GivenInv /\ SentInv /\ ExhaustInv /\ [Next]_vars => ExhaustInv'
  BY ExhaustStep
<1>3. TypeInv /\ ExhaustInv => (Ordinary => AnsweredWhenExhausted)
  <2> SUFFICES ASSUME TypeInv, ExhaustInv, Ordinary, replies = <<>>, er.state = "ecmcwcache",
                      jobs = <<>>, Unlocked, ~WaitUntilCtimeout, SomeAnswered,
                      \A r \in DOMAIN ea : ~MayAnswer(r) /\ ~HasCw(r)
               PROVE  FALSE
    BY DEF AnsweredWhenExhausted, SomeAnswered
  <2>1. Expected
    BY DEF ExhaustInv, OpenInv, ExpectedInv
  <2>2. QED BY <2>1 DEF Expected, Unlocked
<1>4. QED BY <1>1, <1>2, <1>3, GivenAlways, SentAlways, PTL DEF Spec
=============================================================================
