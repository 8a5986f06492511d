---------------------------- MODULE CwCacheProofs ----------------------------
(***************************************************************************)
(* A push job never leads to freed memory, for every client time-out and   *)
(* any number of ECMs, CWs and peers: three time-outs that nothing but     *)
(* their order ties together are enough.  A job that work_thread will run  *)
(* is at most ctimeout + 1 old; its entry was updated when the job was     *)
(* made, and is kept for max_cache_time; its request is on the list of     *)
(* pushed ones behind requests that are at most one second older than it.  *)
(*                                                                         *)
(* The merge sort of tommyDS returns a list with the same nodes, for lists *)
(* of every length and whatever sign its caller sees, so no CW and no vote *)
(* is lost; the list is in order if the comparison keeps its sign.  The    *)
(* list of ECMs is ordered by the first CW of each, which makes the early  *)
(* end of the walk of cleanup_cache exact.                                 *)
(***************************************************************************)
EXTENDS CwCache, SequenceTheorems, FiniteSetTheorems, TLAPS

IncomingInv ==
    \A er \in incoming :
        /\ er.id \in 1 .. adds /\ er.hash \in Hashes
        /\ er.tps \in Nat /\ er.tps <= now /\ now - er.tps <= MaxLag

\* A request that is on the way has an identity of its own
FreshInv ==
    /\ \A er \in incoming : er.id \notin freedEcm /\ er.id \notin freedEr
    /\ \A er \in incoming : \A h \in Hashes : info[h].id # er.id
    /\ \A er \in incoming : \A i \in DOMAIN pushed : pushed[i].id # er.id
    /\ \A er \in incoming : \A other \in incoming : er.id = other.id => er = other

\* What was freed or pushed was received, and an entry in use is not freed
LiveInv ==
    /\ \A id \in freedEcm \cup freedEr : id \in 0 .. adds
    /\ \A i \in DOMAIN pushed : pushed[i].id \in 0 .. adds
    /\ \A h \in Hashes : Known(h) => info[h].id \notin freedEcm
    /\ \A g \in Hashes : \A h \in Hashes : Known(g) /\ info[g].id = info[h].id => g = h

EntryLives(job) == \E h \in Hashes : info[h].id = job.ecm /\ info[h].upd >= job.time
RequestLives(job) ==
    /\ job.er \notin freedEr
    /\ \A k \in DOMAIN pushed : pushed[k].id = job.er =>
         \A l \in 1 .. k : job.time <= pushed[l].tps + 1

GoodJob(job) ==
    /\ job.ecm >= 1 /\ job.time <= now
    /\ TooOld(job) \/ (EntryLives(job) /\ RequestLives(job))

UpdInv == \A h \in Hashes : info[h].upd \in Nat /\ info[h].upd <= now
JobsInv == \A p \in Peers : \A i \in DOMAIN jobs[p] : GoodJob(jobs[p][i])

IInv == TypeOK /\ IncomingInv /\ FreshInv /\ LiveInv /\ UpdInv /\ JobsInv

----------------------------------------------------------------------------
\* The settings with which the time-outs fit: a [cache] section, for which
\* cache_fixups_fn raises max_cache_time, or a short client time-out.
TimesFit == CacheSection \/ Ctimeout + 1 <= Default

\* Then an entry outlives the jobs that point to it.
LEMMA KeptLongEnough ==
    ASSUME TimesFit
    PROVE  max_cache_time \in Nat /\ max_cache_time >= Ctimeout + 1
BY TimeAssumption DEF TimesFit, max_cache_time, Fixup

\* What add_cache does to the entries: one is new or updated now.
LEMMA AddCacheEntry ==
    ASSUME TypeOK, IncomingInv, UpdInv, NEW er \in incoming, NEW to, AddCache(er, to)
    PROVE  /\ DOMAIN info' = Hashes
           /\ info'[er.hash].id = (IF Known(er.hash) THEN info[er.hash].id ELSE er.id)
           /\ info'[er.hash].upd = now
           /\ \A h \in Hashes \ {er.hash} : info'[h] = info[h]
           /\ Entry(er).id = info'[er.hash].id /\ Entry(er).id \in 1 .. adds
<1> DEFINE new == [id |-> Entry(er).id, first |-> Entry(er).first, upd |-> now, cws |-> NewCws(er)]
<1>1. info' = [info EXCEPT ![er.hash] = new] /\ er.hash \in Hashes
  BY DEF AddCache, IncomingInv
<1>2. new.id = Entry(er).id /\ new.upd = now
  OBVIOUS
<1>3. Entry(er).id = IF Known(er.hash) THEN info[er.hash].id ELSE er.id
  BY DEF Entry, NoInfo
<1>4. Entry(er).id \in 1 .. adds
  BY <1>1, <1>3 DEF TypeOK, IncomingInv, Known
<1> HIDE DEF new
<1>5. info'[er.hash] = new /\ DOMAIN info' = Hashes /\ \A h \in Hashes \ {er.hash} : info'[h] = info[h]
  BY <1>1 DEF TypeOK
<1>6. QED BY <1>2, <1>3, <1>4, <1>5

\* What it does to the jobs: those of some peers get one more, which points to
\* that entry and to the request.
LEMMA AddCacheJobs ==
    ASSUME TypeOK, IncomingInv, UpdInv, NEW er \in incoming, NEW to, AddCache(er, to)
    PROVE  /\ jobs' \in [Peers -> Seq(Job)]
           /\ \A p \in Peers : \A i \in DOMAIN jobs'[p] :
                \/ i \in DOMAIN jobs[p] /\ jobs'[p][i] = jobs[p][i]
                \/ jobs'[p][i] = [ecm |-> info'[er.hash].id, er |-> er.id, time |-> now]
<1> DEFINE new == [ecm |-> Entry(er).id, er |-> er.id, time |-> now]
<1>1. new \in Job /\ new = [ecm |-> info'[er.hash].id, er |-> er.id, time |-> now]
  BY AddCacheEntry DEF Job, TypeOK, IncomingInv
<1>2. jobs' = [p \in Peers |-> IF p \in to /\ ~Full(er) THEN Append(jobs[p], new) ELSE jobs[p]]
  BY DEF AddCache
<1> HIDE DEF new
<1>3. ASSUME NEW p \in Peers
      PROVE  /\ jobs[p] \in Seq(Job) /\ Append(jobs[p], new) \in Seq(Job)
             /\ \A i \in DOMAIN Append(jobs[p], new) :
                  \/ i \in DOMAIN jobs[p] /\ Append(jobs[p], new)[i] = jobs[p][i]
                  \/ Append(jobs[p], new)[i] = new
  BY <1>1 DEF TypeOK
<1>4. \A p \in Peers : jobs'[p] = jobs[p] \/ jobs'[p] = Append(jobs[p], new)
  BY <1>2
<1>5. QED BY <1>1, <1>2, <1>3, <1>4

\* The list of pushed requests gets one more at its head.
LEMMA AddCachePushed ==
    ASSUME TypeOK, IncomingInv, NEW er \in incoming, NEW to, AddCache(er, to)
    PROVE  /\ pushed' \in Seq([id : Nat, tps : Nat])
           /\ Len(pushed') = Len(pushed) + 1
           /\ pushed'[1].id = er.id /\ pushed'[1].tps = er.tps
           /\ \A i \in 2 .. Len(pushed') : i - 1 \in DOMAIN pushed /\ pushed'[i] = pushed[i - 1]
<1> DEFINE new == [id |-> er.id, tps |-> er.tps]
<1>1. new \in [id : Nat, tps : Nat] /\ new.id = er.id /\ new.tps = er.tps
  BY DEF IncomingInv, TypeOK
<1>2. pushed' = <<new>> \o pushed /\ pushed \in Seq([id : Nat, tps : Nat])
  BY DEF AddCache, TypeOK
<1> HIDE DEF new
<1>3. QED BY <1>1, <1>2

----------------------------------------------------------------------------
(* One lemma for each action *)

LEMMA InitHolds ==
    Init => IInv
BY DEF Init, IInv, TypeOK, IncomingInv, FreshInv, LiveInv, UpdInv, JobsInv, Known, NoInfo, Job

LEMMA TickStep ==
    ASSUME IInv, Tick
    PROVE  IInv'
<1>1. now \in Nat /\ now' = now + 1 /\ UNCHANGED <<adds, incoming, info, jobs, pushed, freedEcm, freedEr>>
  BY DEF Tick, IInv, TypeOK
<1>2. TypeOK' /\ FreshInv' /\ LiveInv' /\ UpdInv'
  BY <1>1 DEF IInv, TypeOK, FreshInv, LiveInv, UpdInv, Known
<1>3. IncomingInv'
  BY <1>1, TimeAssumption DEF Tick, IInv, IncomingInv
<1>4. ASSUME NEW job \in Job, GoodJob(job)
      PROVE  GoodJob(job)'
  BY <1>1, <1>4, TimeAssumption DEF GoodJob, TooOld, EntryLives, RequestLives, Job
<1>5. JobsInv'
  BY <1>1, <1>4 DEF IInv, TypeOK, JobsInv
<1>6. QED BY <1>2, <1>3, <1>5 DEF IInv

LEMMA ReceiveStep ==
    ASSUME IInv, NEW h \in Hashes, NEW cw, NEW lg, Receive(h, cw, lg)
    PROVE  IInv'
<1> DEFINE new == [id |-> adds + 1, hash |-> h, cw |-> cw, lg |-> lg, tps |-> now]
<1>1. /\ incoming' = incoming \cup {new} /\ adds' = adds + 1 /\ adds \in Nat /\ now \in Nat
      /\ UNCHANGED <<now, info, jobs, pushed, freedEcm, freedEr>>
  BY DEF Receive, IInv, TypeOK
<1>2. new.id = adds + 1 /\ new.hash = h /\ new.tps = now
  OBVIOUS
<1> HIDE DEF new
<1>3. TypeOK' /\ UpdInv'
  BY <1>1 DEF IInv, TypeOK, UpdInv
<1>4. IncomingInv'
  BY <1>1, <1>2, TimeAssumption DEF IInv, IncomingInv
<1>5. LiveInv'
  <2>1. \A id \in freedEcm \cup freedEr : id \in 0 .. adds'
    BY <1>1 DEF IInv, LiveInv
  <2>2. \A i \in DOMAIN pushed : pushed[i].id \in 0 .. adds'
    BY <1>1 DEF IInv, TypeOK, LiveInv
  <2>3. QED BY <2>1, <2>2, <1>1 DEF IInv, LiveInv, Known
<1>6. FreshInv'
  <2>1. new.id \notin freedEcm /\ new.id \notin freedEr
    BY <1>1, <1>2 DEF IInv, LiveInv
  <2>2. \A g \in Hashes : info[g].id # new.id
    BY <1>1, <1>2 DEF IInv, TypeOK
  <2>3. \A i \in DOMAIN pushed : pushed[i].id # new.id
    BY <1>1, <1>2 DEF IInv, TypeOK, LiveInv
  <2>4. \A er \in incoming : er.id # new.id
    BY <1>1, <1>2 DEF IInv, IncomingInv
  <2>5. QED BY <1>1, <2>1, <2>2, <2>3, <2>4 DEF IInv, FreshInv
<1>7. JobsInv'
  BY <1>1 DEF IInv, JobsInv, GoodJob, TooOld, EntryLives, RequestLives
<1>8. QED BY <1>3, <1>4, <1>5, <1>6, <1>7 DEF IInv

\* The first elements of a sequence.
LEMMA PrefixProperties ==
    ASSUME NEW S, NEW s \in Seq(S), NEW m \in Nat, m <= Len(s)
    PROVE  /\ SubSeq(s, 1, m) \in Seq(S) /\ Len(SubSeq(s, 1, m)) = m
           /\ \A i \in 1 .. m : SubSeq(s, 1, m)[i] = s[i]
OBVIOUS

LEMMA PushedType ==
    ASSUME IInv
    PROVE  /\ pushed \in Seq([id : Nat, tps : Nat]) /\ DOMAIN pushed = 1 .. Len(pushed) /\ Len(pushed) \in Nat
           /\ \A i \in DOMAIN pushed : pushed[i].id \in Nat /\ pushed[i].tps \in Nat
<1>1. pushed \in Seq([id : Nat, tps : Nat])
  BY DEF IInv, TypeOK
<1>2. DOMAIN pushed = 1 .. Len(pushed) /\ Len(pushed) \in Nat
  BY <1>1
<1>3. \A i \in 1 .. Len(pushed) : pushed[i] \in [id : Nat, tps : Nat]
  BY <1>1, ElementOfSeq
<1>4. QED BY <1>1, <1>2, <1>3

LEMMA AddCacheStep ==
    ASSUME IInv, NEW er \in incoming, NEW to, AddCache(er, to)
    PROVE  IInv'
<1>1. /\ incoming' = incoming \ {er} /\ er.hash \in Hashes /\ er.id \in 1 .. adds
      /\ UNCHANGED <<now, adds, freedEcm, freedEr>>
      /\ now \in Nat /\ adds \in Nat
  BY DEF AddCache, IInv, TypeOK, IncomingInv
<1>2. /\ DOMAIN info' = Hashes
      /\ info'[er.hash].id = (IF Known(er.hash) THEN info[er.hash].id ELSE er.id)
      /\ info'[er.hash].upd = now
      /\ \A h \in Hashes \ {er.hash} : info'[h] = info[h]
      /\ info'[er.hash].id \in 1 .. adds
  BY AddCacheEntry DEF IInv
<1>3. /\ jobs' \in [Peers -> Seq(Job)]
      /\ \A p \in Peers : \A i \in DOMAIN jobs'[p] :
           \/ i \in DOMAIN jobs[p] /\ jobs'[p][i] = jobs[p][i]
           \/ jobs'[p][i] = [ecm |-> info'[er.hash].id, er |-> er.id, time |-> now]
  BY AddCacheJobs DEF IInv
<1>4. /\ pushed' \in Seq([id : Nat, tps : Nat])
      /\ Len(pushed') = Len(pushed) + 1
      /\ pushed'[1].id = er.id /\ pushed'[1].tps = er.tps
      /\ \A i \in 2 .. Len(pushed') : i - 1 \in DOMAIN pushed /\ pushed'[i] = pushed[i - 1]
  BY AddCachePushed DEF IInv
<1>5. /\ er.id \notin freedEcm /\ er.id \notin freedEr
      /\ \A h \in Hashes : info[h].id # er.id
      /\ \A other \in incoming \ {er} : other.id # er.id
      /\ er.tps \in Nat /\ now <= er.tps + 1
  BY <1>1, TimeAssumption DEF IInv, FreshInv, IncomingInv
<1>6. TypeOK' /\ UpdInv'
  <2>1. ASSUME NEW h \in Hashes
        PROVE  info'[h].id \in 0 .. adds' /\ info'[h].upd \in Nat /\ info'[h].upd <= now'
    <3>1. CASE h = er.hash
      BY <3>1, <1>1, <1>2
    <3>2. CASE h # er.hash
      BY <3>2, <1>1, <1>2 DEF IInv, TypeOK, UpdInv
    <3>3. QED BY <3>1, <3>2
  <2>2. QED BY <2>1, <1>1, <1>2, <1>3, <1>4 DEF TypeOK, UpdInv
<1>7. IncomingInv'
  BY <1>1 DEF IInv, IncomingInv
<1>8. FreshInv'
  <2>1. ASSUME NEW other \in incoming'
        PROVE  /\ other.id \notin freedEcm' /\ other.id \notin freedEr'
               /\ \A h \in Hashes : info'[h].id # other.id
               /\ \A i \in DOMAIN pushed' : pushed'[i].id # other.id
    <3>1. other \in incoming /\ other.id # er.id
      BY <1>1, <1>5
    <3>2. \A h \in Hashes : info'[h].id # other.id
      BY <1>2, <3>1 DEF IInv, FreshInv
    <3>3. \A i \in DOMAIN pushed' : pushed'[i].id # other.id
      <4>1. \A i \in DOMAIN pushed' : i = 1 \/ i \in 2 .. Len(pushed')
        BY <1>4
      <4>2. QED BY <1>4, <3>1, <4>1 DEF IInv, FreshInv
    <3>4. QED BY <1>1, <3>1, <3>2, <3>3 DEF IInv, FreshInv
  <2>2. QED BY <1>1, <2>1 DEF IInv, FreshInv
<1>9. LiveInv'
  <2>1. \A i \in DOMAIN pushed' : pushed'[i].id \in 0 .. adds'
    <3>1. \A i \in DOMAIN pushed' : i = 1 \/ i \in 2 .. Len(pushed')
      BY <1>4
    <3>2. pushed'[1].id \in 0 .. adds'
      BY <1>1, <1>4
    <3>3. \A i \in 2 .. Len(pushed') : pushed'[i].id \in 0 .. adds'
      BY <1>1, <1>4 DEF IInv, LiveInv
    <3>4. QED BY <3>1, <3>2, <3>3
  <2>2. ASSUME NEW h \in Hashes, Known(h)'
        PROVE  info'[h].id \notin freedEcm'
    BY <1>1, <1>2, <1>5, <2>2 DEF IInv, LiveInv, Known
  <2>3. ASSUME NEW g \in Hashes, NEW h \in Hashes, Known(g)', info'[g].id = info'[h].id
        PROVE  g = h
    BY <1>1, <1>2, <1>5, <2>3 DEF IInv, LiveInv, Known
  <2>4. QED BY <1>1, <2>1, <2>2, <2>3 DEF IInv, LiveInv
<1>10. JobsInv'
  <2>1. ASSUME NEW job \in Job, GoodJob(job)
        PROVE  GoodJob(job)'
    <3>1. CASE TooOld(job)
      BY <2>1, <3>1, <1>1 DEF GoodJob, TooOld
    <3>2. CASE EntryLives(job) /\ RequestLives(job)
      <4>1. EntryLives(job)'
        BY <2>1, <3>2, <1>1, <1>2 DEF GoodJob, EntryLives, Known, Job
      <4>2. ASSUME NEW k \in DOMAIN pushed', pushed'[k].id = job.er, NEW l \in 1 .. k
            PROVE  job.time <= pushed'[l].tps + 1
        <5>1. CASE l = 1
          BY <5>1, <1>4, <1>5, <2>1, <1>1 DEF GoodJob, Job
        <5>2. CASE l # 1
          <6>1. k \in 2 .. Len(pushed') /\ l \in 2 .. Len(pushed')
            BY <1>4, <4>2, <5>2
          <6>2. /\ k - 1 \in DOMAIN pushed /\ pushed[k - 1].id = job.er
                /\ l - 1 \in 1 .. k - 1 /\ pushed'[l] = pushed[l - 1]
            <7>1. k - 1 \in DOMAIN pushed /\ pushed'[k] = pushed[k - 1] /\ pushed'[l] = pushed[l - 1]
              BY <1>4, <6>1
            <7>2. k \in Int /\ l \in Int /\ 2 <= l /\ l <= k
              BY <4>2, <6>1
            <7>3. QED BY <7>1, <7>2, <4>2
          <6>3. QED BY <3>2, <6>2 DEF RequestLives
        <5>3. QED BY <5>1, <5>2
      <4>3. QED BY <2>1, <3>2, <4>1, <4>2, <1>1 DEF GoodJob, RequestLives
    <3>3. QED BY <2>1, <3>1, <3>2 DEF GoodJob
  <2>2. ASSUME NEW job, job = [ecm |-> info'[er.hash].id, er |-> er.id, time |-> now]
        PROVE  GoodJob(job)'
    <3>1. job.ecm = info'[er.hash].id /\ job.er = er.id /\ job.time = now
      BY <2>2
    <3>2. EntryLives(job)'
      BY <3>1, <1>1, <1>2 DEF EntryLives
    <3>3. ASSUME NEW k \in DOMAIN pushed', pushed'[k].id = job.er, NEW l \in 1 .. k
          PROVE  job.time <= pushed'[l].tps + 1
      <4>1. k = 1
        <5>1. k = 1 \/ k \in 2 .. Len(pushed')
          BY <1>4
        <5>2. QED BY <5>1, <3>1, <3>3, <1>4 DEF IInv, FreshInv
      <4>2. QED BY <4>1, <3>1, <1>4, <1>5
    <3>4. QED BY <3>1, <3>2, <3>3, <1>1, <1>2, <1>5 DEF GoodJob, RequestLives
  <2>3. \A p \in Peers : \A i \in DOMAIN jobs[p] : jobs[p][i] \in Job
    BY DEF IInv, TypeOK
  <2>4. QED BY <1>3, <2>1, <2>2, <2>3 DEF IInv, JobsInv
<1>11. QED BY <1>6, <1>7, <1>8, <1>9, <1>10 DEF IInv

LEMMA CleanupStep ==
    ASSUME IInv, TimesFit, CleanupCache
    PROVE  IInv'
<1>1. /\ DOMAIN info = Hashes /\ DOMAIN info' = Hashes
      /\ \A h \in Hashes : info'[h] = IF h \in Removed THEN NoInfo ELSE info[h]
      /\ freedEcm' = freedEcm \cup {info[h].id : h \in Removed}
      /\ UNCHANGED <<now, adds, incoming, jobs, pushed, freedEr>>
      /\ now \in Nat /\ adds \in Nat
  BY DEF CleanupCache, IInv, TypeOK
<1>2. NoInfo.id = 0 /\ NoInfo.upd = 0
  BY DEF NoInfo
<1>3. \A h \in Removed : now - info[h].upd > max_cache_time
  BY DEF Removed, Stale
<1>4. TypeOK' /\ UpdInv' /\ IncomingInv'
  <2>1. ASSUME NEW h \in Hashes
        PROVE  info'[h].id \in 0 .. adds' /\ info'[h].upd \in Nat /\ info'[h].upd <= now'
    <3>1. CASE h \in Removed
      BY <3>1, <1>1, <1>2
    <3>2. CASE h \notin Removed
      BY <3>2, <1>1 DEF IInv, TypeOK, UpdInv
    <3>3. QED BY <3>1, <3>2
  <2>2. QED BY <2>1, <1>1 DEF IInv, TypeOK, UpdInv, IncomingInv
<1>6. \A id \in freedEcm' : id \in freedEcm \/ \E h \in Removed : id = info[h].id
  BY <1>1
<1>7. Removed \subseteq Hashes
  BY DEF Removed, Walked
<1>8. FreshInv'
  BY <1>1, <1>2, <1>6, <1>7 DEF IInv, TypeOK, FreshInv, IncomingInv
<1>9. LiveInv'
  <2>1. \A id \in freedEcm' \cup freedEr' : id \in 0 .. adds'
    BY <1>1, <1>6, <1>7 DEF IInv, LiveInv, TypeOK
  <2>2. \A h \in Hashes : Known(h)' => info'[h].id \notin freedEcm'
    BY <1>1, <1>2, <1>6, <1>7 DEF IInv, LiveInv, Known
  <2>3. \A g \in Hashes : \A h \in Hashes : Known(g)' /\ info'[g].id = info'[h].id => g = h
    BY <1>1, <1>2 DEF IInv, LiveInv, Known
  <2>4. QED BY <1>1, <2>1, <2>2, <2>3 DEF IInv, LiveInv
<1>10. JobsInv'
  <2>1. ASSUME NEW job \in Job, GoodJob(job)
        PROVE  GoodJob(job)'
    <3>1. CASE TooOld(job)
      BY <2>1, <3>1, <1>1 DEF GoodJob, TooOld
    <3>2. CASE ~TooOld(job)
      <4>1. PICK h \in Hashes : info[h].id = job.ecm /\ info[h].upd >= job.time
        BY <2>1, <3>2 DEF GoodJob, EntryLives
      <4>2. h \notin Removed
        BY <1>1, <1>3, <3>2, <4>1, KeptLongEnough, TimeAssumption DEF TooOld, IInv, UpdInv, Job
      <4>3. QED BY <1>1, <2>1, <3>2, <4>1, <4>2 DEF GoodJob, EntryLives, RequestLives
    <3>3. QED BY <3>1, <3>2
  <2>2. QED BY <1>1, <2>1 DEF IInv, TypeOK, JobsInv
<1>11. QED BY <1>1, <1>4, <1>8, <1>9, <1>10 DEF IInv

\* A job whose request is behind an old one in the list is too old itself.
LEMMA FreePushedStep ==
    ASSUME IInv, FreePushed
    PROVE  IInv'
<1>1. /\ pushed \in Seq([id : Nat, tps : Nat]) /\ DOMAIN pushed = 1 .. Len(pushed) /\ Len(pushed) \in Nat
      /\ \A i \in DOMAIN pushed : pushed[i].id \in Nat /\ pushed[i].tps \in Nat
      /\ now \in Nat
  BY PushedType DEF IInv, TypeOK
<1>2. PICK n \in DOMAIN pushed : Old(pushed[n]) /\ pushed' = SubSeq(pushed, 1, n - 1)
        /\ freedEr' = freedEr \cup {pushed[i].id : i \in n .. Len(pushed)}
        /\ UNCHANGED <<now, adds, incoming, info, jobs, freedEcm>>
  BY DEF FreePushed
<1>3. /\ pushed' = SubSeq(pushed, 1, n - 1) /\ freedEr' = freedEr \cup {pushed[i].id : i \in n .. Len(pushed)}
      /\ UNCHANGED <<now, adds, incoming, info, jobs, freedEcm>>
  BY <1>2
<1>4. n \in 1 .. Len(pushed) /\ now - pushed[n].tps > Ctimeout + 3 /\ pushed[n].tps \in Nat
  BY <1>1, <1>2 DEF Old
<1>5. /\ pushed' \in Seq([id : Nat, tps : Nat]) /\ DOMAIN pushed' = 1 .. n - 1
      /\ \A i \in 1 .. n - 1 : i \in DOMAIN pushed /\ pushed'[i] = pushed[i]
  <2>1. n \in Int /\ 1 <= n /\ n <= Len(pushed)
    BY <1>1, <1>4
  <2>2. /\ SubSeq(pushed, 1, n - 1) \in Seq([id : Nat, tps : Nat])
        /\ Len(SubSeq(pushed, 1, n - 1)) = n - 1
        /\ \A i \in 1 .. n - 1 : SubSeq(pushed, 1, n - 1)[i] = pushed[i]
    <3>1. n - 1 \in Nat /\ n - 1 <= Len(pushed)
      BY <1>1, <2>1
    <3>2. QED BY <1>1, <3>1, PrefixProperties, Zenon
  <2>3. QED BY <1>1, <1>3, <2>1, <2>2
<1>6. \A id \in freedEr' : id \in freedEr \/ \E i \in n .. Len(pushed) : i \in DOMAIN pushed /\ id = pushed[i].id
  BY <1>1, <1>3, <1>4
<1>7. TypeOK' /\ UpdInv' /\ IncomingInv'
  BY <1>3, <1>5 DEF IInv, TypeOK, UpdInv, IncomingInv
<1>8. FreshInv'
  BY <1>3, <1>5, <1>6 DEF IInv, FreshInv
<1>9. LiveInv'
  BY <1>3, <1>5, <1>6 DEF IInv, LiveInv, Known
<1>10. JobsInv'
  <2>1. ASSUME NEW job \in Job, GoodJob(job)
        PROVE  GoodJob(job)'
    <3>1. CASE TooOld(job)
      BY <2>1, <3>1, <1>3 DEF GoodJob, TooOld
    <3>2. CASE ~TooOld(job)
      <4>1. EntryLives(job)' /\ RequestLives(job)
        BY <1>3, <2>1, <3>2 DEF GoodJob, EntryLives
      <4>2. ASSUME NEW i \in n .. Len(pushed), job.er = pushed[i].id
            PROVE  FALSE
        <5>1. job.time <= pushed[n].tps + 1
          BY <1>1, <1>4, <4>1, <4>2 DEF RequestLives
        <5>2. job.time \in Nat /\ Ctimeout \in Nat /\ now - job.time <= Ctimeout + 1
          <6>1. now \in Nat /\ job.time \in Nat /\ Ctimeout \in Nat
            BY <1>1, TimeAssumption DEF Job
          <6>2. QED BY <6>1, <3>2 DEF TooOld
        <5>3. \A t \in Nat : ~(now - t > Ctimeout + 3 /\ job.time <= t + 1)
          BY <1>1, <5>2
        <5>4. QED BY <1>4, <5>1, <5>3, Zenon
      <4>3. RequestLives(job)'
        <5>1. job.er \notin freedEr'
          BY <1>6, <4>1, <4>2 DEF RequestLives
        <5>2. \A k \in 1 .. n - 1 : \A l \in 1 .. k : l \in 1 .. n - 1
          BY <1>1, <1>4
        <5>3. QED BY <1>5, <4>1, <5>1, <5>2 DEF RequestLives
      <4>4. QED BY <1>3, <2>1, <4>1, <4>3 DEF GoodJob
    <3>3. QED BY <3>1, <3>2
  <2>2. QED BY <1>3, <2>1 DEF IInv, TypeOK, JobsInv
<1>11. QED BY <1>3, <1>7, <1>8, <1>9, <1>10 DEF IInv

\* work_thread takes the first job of a peer off its list.
LEMMA TakeStep ==
    ASSUME IInv, NEW p \in Peers, DropPush(p) \/ PushOut(p)
    PROVE  IInv'
<1>1. /\ jobs[p] # <<>> /\ jobs' = [jobs EXCEPT ![p] = Tail(@)]
      /\ UNCHANGED <<now, adds, incoming, info, pushed, freedEcm, freedEr>>
      /\ jobs \in [Peers -> Seq(Job)]
  BY DEF DropPush, PushOut, IInv, TypeOK
<1>2. /\ Tail(jobs[p]) \in Seq(Job)
      /\ \A i \in DOMAIN Tail(jobs[p]) : i + 1 \in DOMAIN jobs[p] /\ Tail(jobs[p])[i] = jobs[p][i + 1]
  <2>1. jobs[p] \in Seq(Job) /\ jobs[p] # <<>>
    BY <1>1
  <2>2. QED BY <2>1
<1>3. TypeOK' /\ UpdInv' /\ IncomingInv' /\ FreshInv' /\ LiveInv'
  BY <1>1, <1>2 DEF IInv, TypeOK, UpdInv, IncomingInv, FreshInv, LiveInv, Known
<1>4. \A job : GoodJob(job)' <=> GoodJob(job)
  BY <1>1 DEF GoodJob, TooOld, EntryLives, RequestLives
<1>5. JobsInv'
  BY <1>1, <1>2, <1>4 DEF IInv, JobsInv
<1>6. QED BY <1>1, <1>3, <1>5 DEF IInv

----------------------------------------------------------------------------
\* NoFreedPush for every client time-out, clock and number of ECMs, as long as
\* ncam.conf has a [cache] section or the client time-out is below the default
\* of max_cache_time: a push never reads a CW or a request that was freed.
THEOREM PushAfterFree == TimesFit => (Spec => []NoFreedPush)
<1> SUFFICES ASSUME TimesFit PROVE Spec => []NoFreedPush
  OBVIOUS
<1>1. Init => IInv
  BY InitHolds
<1>2. IInv /\ [Next]_vars => IInv'
  <2> SUFFICES ASSUME IInv, [Next]_vars PROVE IInv'
    OBVIOUS
  <2>1. CASE Tick
    BY <2>1, TickStep
  <2>2. CASE \E h \in Hashes, cw \in CWs, lg \in BOOLEAN : Receive(h, cw, lg)
    BY <2>2, ReceiveStep
  <2>3. CASE \E er \in incoming : \E to \in SUBSET Peers : AddCache(er, to)
    BY <2>3, AddCacheStep
  <2>4. CASE CleanupCache
    BY <2>4, CleanupStep
  <2>5. CASE FreePushed
    BY <2>5, FreePushedStep
  <2>6. CASE \E p \in Peers : DropPush(p) \/ PushOut(p)
    BY <2>6, TakeStep
  <2>7. CASE UNCHANGED vars
    BY <2>7 DEF vars, IInv, TypeOK, IncomingInv, FreshInv, LiveInv, UpdInv, JobsInv, Known, GoodJob, TooOld, EntryLives, RequestLives
  <2>8. QED BY <2>1, <2>2, <2>3, <2>4, <2>5, <2>6, <2>7 DEF Next
<1>3. IInv => NoFreedPush
  <2> SUFFICES ASSUME IInv, NEW p \in Peers, NEW i \in DOMAIN jobs[p], ~TooOld(jobs[p][i])
               PROVE  jobs[p][i].ecm \notin freedEcm /\ jobs[p][i].er \notin freedEr
    BY DEF NoFreedPush
  <2> DEFINE job == jobs[p][i]
  <2>1. job.ecm >= 1 /\ EntryLives(job) /\ RequestLives(job)
    BY DEF IInv, JobsInv, GoodJob
  <2>2. PICK h \in Hashes : info[h].id = job.ecm
    BY <2>1 DEF EntryLives
  <2>3. info[h].id # 0
    BY <2>1, <2>2
  <2>4. QED BY <2>1, <2>2, <2>3 DEF RequestLives, IInv, LiveInv, Known
<1>4. QED BY <1>1, <1>2, <1>3, PTL DEF Spec

----------------------------------------------------------------------------
(* Induction and recursion *)

\* A set of natural numbers has a least one.
LEMMA LeastNat ==
    ASSUME NEW T, T \subseteq Nat, T # {}
    PROVE  \E n \in T : \A m \in T : n <= m
<1> DEFINE U == {1 .. k : k \in T}
<1>1. IsWellFoundedOn(StrictSubsetOrdering(Nat), FiniteSubsetsOf(Nat))
  BY FS_StrictSubsetOrderingWellFounded
<1>2. U \subseteq FiniteSubsetsOf(Nat) /\ U # {}
  <2>1. \A k \in T : IsFiniteSet(1 .. k) /\ 1 .. k \subseteq Nat
    BY FS_Interval
  <2>2. QED BY <2>1 DEF FiniteSubsetsOf
<1>3. PICK x \in U : \A y \in U : <<y, x>> \notin StrictSubsetOrdering(Nat)
  BY <1>1, <1>2, WFMin
<1>4. PICK n \in T : x = 1 .. n
  OBVIOUS
<1>5. \A A, B \in SUBSET Nat : <<A, B>> \in StrictSubsetOrdering(Nat) <=> A \subseteq B /\ A # B
  BY DEF StrictSubsetOrdering
<1>6. ASSUME NEW m \in T
      PROVE  n <= m
  <2>1. 1 .. m \in U /\ 1 .. m \in SUBSET Nat /\ 1 .. n \in SUBSET Nat
    OBVIOUS
  <2>2. <<1 .. m, 1 .. n>> \notin StrictSubsetOrdering(Nat)
    BY <1>3, <1>4, <2>1
  <2>3. ~(1 .. m \subseteq 1 .. n /\ 1 .. m # 1 .. n)
    BY <1>5, <2>1, <2>2
  <2>4. m < n => n \in 1 .. n /\ n \notin 1 .. m
    OBVIOUS
  <2>5. m < n => 1 .. m \subseteq 1 .. n
    OBVIOUS
  <2>6. QED BY <2>3, <2>4, <2>5
<1>7. QED BY <1>6

\* Induction: a claim that fails somewhere fails where all smaller cases hold.
LEMMA SmallestFailure ==
    ASSUME NEW D, NEW size \in [D -> Nat], NEW Bad, Bad \subseteq D, Bad # {}
    PROVE  \E x \in Bad : \A y \in Bad : size[x] <= size[y]
<1> DEFINE T == {size[x] : x \in Bad}
<1>1. T \subseteq Nat /\ T # {}
  OBVIOUS
<1>2. PICK n \in T : \A m \in T : n <= m
  BY <1>1, LeastNat
<1>3. QED BY <1>2

\* Recursion: a function is defined by what it is for an argument, given what it
\* is for smaller ones.
Recursion(D, V, N, size, step) ==
    /\ V # {} /\ N \in Nat /\ size \in [D -> 0 .. N] /\ step \in [D \X [D -> V] -> V]
    /\ \A x \in D : \A f, g \in [D -> V] :
         (\A y \in D : size[y] < size[x] => f[y] = g[y]) => step[<<x, f>>] = step[<<x, g>>]
Solution(D, V, step, f) == f \in [D -> V] /\ \A x \in D : f[x] = step[<<x, f>>]

LEMMA RecursiveFunction ==
    ASSUME NEW D, NEW V, NEW N, NEW size, NEW step, Recursion(D, V, N, size, step)
    PROVE  \E f : Solution(D, V, step, f)
<1> SUFFICES ASSUME V # {}, N \in Nat, size \in [D -> 0 .. N],
                    step \in [D \X [D -> V] -> V],
                    \A x \in D : \A f, g \in [D -> V] :
                        (\A y \in D : size[y] < size[x] => f[y] = g[y])
                        => step[<<x, f>>] = step[<<x, g>>]
             PROVE  \E f \in [D -> V] : \A x \in D : f[x] = step[<<x, f>>]
  BY DEF Recursion, Solution
<1> DEFINE Good(n, f) == f \in [D -> V] /\ \A x \in D : size[x] < n => f[x] = step[<<x, f>>]
           T == {n \in Nat : ~ \E f : Good(n, f)}
<1>1. SUFFICES T = {}
  <2>1. N + 1 \in Nat
    OBVIOUS
  <2>2. PICK f : Good(N + 1, f)
    <3> HIDE DEF Good
    <3>1. QED BY <1>1, <2>1
  <2>3. \A x \in D : size[x] < N + 1
    OBVIOUS
  <2>4. QED BY <2>2, <2>3
<1>2. SUFFICES ASSUME T # {} PROVE FALSE
  OBVIOUS
<1>3. T \subseteq Nat
  OBVIOUS
<1>4. PICK n \in T : \A m \in T : n <= m
  BY <1>2, <1>3, LeastNat
<1>5. n # 0
  <2>1. PICK v \in V : TRUE
    OBVIOUS
  <2>2. Good(0, [x \in D |-> v])
    OBVIOUS
  <2>3. QED BY <2>2
<1>6. n - 1 \in Nat /\ n - 1 \notin T
  <2>1. n \in Nat /\ n - 1 \in Nat /\ n - 1 < n
    BY <1>4, <1>5
  <2> HIDE DEF T
  <2>2. QED BY <1>4, <2>1
<1>7. PICK f : Good(n - 1, f)
  BY <1>6
<1> DEFINE g == [x \in D |-> step[<<x, f>>]]
<1>8. f \in [D -> V] /\ g \in [D -> V]
  BY <1>7
<1>9. ASSUME NEW x \in D, size[x] < n
      PROVE  g[x] = step[<<x, g>>]
  <2>1. \A y \in D : size[y] < size[x] => f[y] = g[y]
    <3>1. \A y \in D : size[y] < size[x] => size[y] < n - 1
      BY <1>9
    <3>2. QED BY <1>7, <3>1
  <2>2. step[<<x, f>>] = step[<<x, g>>]
    BY <1>8, <2>1
  <2>3. QED BY <2>2
<1>10. Good(n, g)
  BY <1>8, <1>9
<1>11. QED BY <1>10

----------------------------------------------------------------------------
(* The sort *)

Node == [cw : CWs, count : Nat]
\* DESC order by count
Descending(s) == \A i, j \in DOMAIN s : i <= j => s[j].count <= s[i].count
\* in that order, if the comparison keeps its sign
Ordered(s) == ~Unsigned => Descending(s)

\* What a part of a list holds
Part(s, i) == {s[k] : k \in i .. Len(s)}

\* What count_sort tells, if the caller sees its sign.
LEMMA Compare ==
    ASSUME ~Unsigned, NEW a \in Node, NEW b \in Node
    PROVE  /\ count_sort(a, b) <= 0 <=> b.count <= a.count
           /\ count_sort(a, b) < 0 <=> b.count < a.count
           /\ count_sort(a, b) > 0 <=> a.count < b.count
BY DEF count_sort, Node

\* All of a list.
LEMMA PartIsAll ==
    ASSUME NEW S, NEW s \in Seq(S)
    PROVE  Part(s, 1) = ToSet(s)
BY DEF Part, ToSet

\* The rest of a chain.
LEMMA TailPart ==
    ASSUME NEW S, NEW s \in Seq(S), NEW i \in 1 .. Len(s) + 1
    PROVE  LET r == SubSeq(s, i, Len(s))
           IN /\ r \in Seq(S) /\ Len(r) = Len(s) + 1 - i
              /\ \A k \in 1 .. Len(r) : r[k] = s[k + i - 1]
              /\ ToSet(r) = Part(s, i)
<1> DEFINE r == SubSeq(s, i, Len(s))
<1>1. /\ r \in Seq(S) /\ Len(r) = Len(s) + 1 - i /\ DOMAIN r = 1 .. Len(s) + 1 - i
      /\ \A k \in 1 .. Len(s) + 1 - i : r[k] = s[k + i - 1]
  OBVIOUS
<1> HIDE DEF r
<1>2. ToSet(r) = Part(s, i)
  <2>1. \A k \in 1 .. Len(s) + 1 - i : k + i - 1 \in i .. Len(s)
    OBVIOUS
  <2>2. \A k \in i .. Len(s) : k - i + 1 \in 1 .. Len(s) + 1 - i /\ k = (k - i + 1) + i - 1
    OBVIOUS
  <2>3. \A k \in i .. Len(s) : s[k] = r[k - i + 1]
    BY <1>1, <2>2
  <2>4. ToSet(r) \subseteq Part(s, i)
    <3>1. ASSUME NEW k \in DOMAIN r
          PROVE  r[k] \in Part(s, i)
      <4>1. r[k] = s[k + i - 1] /\ k + i - 1 \in i .. Len(s)
        BY <1>1, <2>1
      <4>2. QED BY <4>1 DEF Part
    <3>2. QED BY <3>1 DEF ToSet
  <2>5. Part(s, i) \subseteq ToSet(r)
    <3>1. ASSUME NEW k \in i .. Len(s)
          PROVE  s[k] \in ToSet(r)
      <4>1. s[k] = r[k - i + 1] /\ k - i + 1 \in DOMAIN r
        BY <1>1, <2>2, <2>3
      <4>2. QED BY <4>1 DEF ToSet
    <3>2. QED BY <3>1 DEF Part
  <2>6. QED BY <2>4, <2>5
<1>3. QED BY <1>1, <1>2 DEF r

\* One node in front of a sorted list that holds nothing greater.
LEMMA InFront ==
    ASSUME NEW x \in Node, NEW r \in Seq(Node), Ordered(r), ~Unsigned => \A y \in ToSet(r) : y.count <= x.count
    PROVE  LET s == <<x>> \o r
           IN /\ s \in Seq(Node) /\ Len(s) = Len(r) + 1
              /\ Ordered(s) /\ ToSet(s) = {x} \cup ToSet(r)
<1> DEFINE s == <<x>> \o r
<1>1. /\ s \in Seq(Node) /\ Len(s) = Len(r) + 1 /\ DOMAIN s = 1 .. Len(r) + 1 /\ Len(r) \in Nat
      /\ DOMAIN r = 1 .. Len(r) /\ s[1] = x /\ \A i \in 1 .. Len(r) : s[i + 1] = r[i]
  OBVIOUS
<1> HIDE DEF s
<1>2. \A i \in DOMAIN s : i = 1 \/ (i - 1 \in DOMAIN r /\ s[i] = r[i - 1])
  <2>1. \A i \in DOMAIN s : i = 1 \/ (i - 1 \in 1 .. Len(r) /\ i = (i - 1) + 1)
    BY <1>1
  <2>2. QED BY <1>1, <2>1
<1>3. \A i \in DOMAIN r : i + 1 \in DOMAIN s /\ s[i + 1] = r[i]
  BY <1>1
<1>4. 1 \in DOMAIN s /\ \A i \in DOMAIN s : i \in Nat /\ 1 <= i
  BY <1>1
<1>5. ToSet(s) = {x} \cup ToSet(r)
  BY <1>1, <1>2, <1>3, <1>4 DEF ToSet
<1>6. ASSUME ~Unsigned, NEW i \in DOMAIN s, NEW j \in DOMAIN s, i <= j
      PROVE  s[j].count <= s[i].count
  <2>1. CASE i = 1
    <3>1. s[i] = x /\ (s[j] = x \/ s[j] \in ToSet(r))
      BY <1>1, <1>2, <2>1 DEF ToSet
    <3>2. x.count <= x.count
      BY DEF Node
    <3>3. QED BY <1>6, <3>1, <3>2
  <2>2. CASE i # 1
    <3>1. j # 1 /\ i - 1 <= j - 1
      BY <1>4, <1>6, <2>2
    <3>2. i - 1 \in DOMAIN r /\ j - 1 \in DOMAIN r /\ s[i] = r[i - 1] /\ s[j] = r[j - 1]
      BY <1>2, <2>2, <3>1
    <3>3. QED BY <1>6, <3>1, <3>2 DEF Ordered, Descending
  <2>3. QED BY <2>1, <2>2
<1>7. QED BY <1>1, <1>5, <1>6 DEF s, Ordered, Descending

\* Two sorted chains, the second with nothing greater than the first.
LEMMA Concat ==
    ASSUME NEW s \in Seq(Node), NEW t \in Seq(Node), Ordered(s), Ordered(t),
           ~Unsigned => \A i \in DOMAIN s : \A j \in DOMAIN t : t[j].count <= s[i].count
    PROVE  /\ s \o t \in Seq(Node) /\ Len(s \o t) = Len(s) + Len(t)
           /\ Ordered(s \o t) /\ ToSet(s \o t) = ToSet(s) \cup ToSet(t)
<1> DEFINE u == s \o t
<1>1. /\ u \in Seq(Node) /\ Len(u) = Len(s) + Len(t) /\ DOMAIN u = 1 .. Len(s) + Len(t)
      /\ Len(s) \in Nat /\ Len(t) \in Nat /\ DOMAIN s = 1 .. Len(s) /\ DOMAIN t = 1 .. Len(t)
      /\ \A i \in 1 .. Len(s) : u[i] = s[i]
      /\ \A i \in 1 .. Len(s) + Len(t) : i > Len(s) => u[i] = t[i - Len(s)]
      /\ \A i \in 1 .. Len(t) : u[i + Len(s)] = t[i]
  OBVIOUS
<1> HIDE DEF u
<1>2. ASSUME NEW i \in DOMAIN u
      PROVE  \/ i \in DOMAIN s /\ u[i] = s[i]
             \/ i > Len(s) /\ i - Len(s) \in DOMAIN t /\ u[i] = t[i - Len(s)]
  BY <1>1
<1>3. /\ \A i \in DOMAIN s : i \in DOMAIN u /\ u[i] = s[i]
      /\ \A i \in DOMAIN t : i + Len(s) \in DOMAIN u /\ u[i + Len(s)] = t[i]
  BY <1>1
<1>4. ToSet(u) = ToSet(s) \cup ToSet(t)
  BY <1>2, <1>3 DEF ToSet
<1>5. ASSUME ~Unsigned, NEW i \in DOMAIN u, NEW j \in DOMAIN u, i <= j
      PROVE  u[j].count <= u[i].count
  <2>1. CASE i \in DOMAIN s /\ u[i] = s[i]
    <3>1. CASE j \in DOMAIN s /\ u[j] = s[j]
      BY <1>5, <2>1, <3>1 DEF Ordered, Descending
    <3>2. CASE j - Len(s) \in DOMAIN t /\ u[j] = t[j - Len(s)]
      BY <1>5, <2>1, <3>2
    <3>3. QED BY <1>2, <3>1, <3>2
  <2>2. CASE i > Len(s) /\ i - Len(s) \in DOMAIN t /\ u[i] = t[i - Len(s)]
    <3>1. j > Len(s) /\ i - Len(s) <= j - Len(s)
      BY <1>1, <1>5, <2>2
    <3>2. j - Len(s) \in DOMAIN t /\ u[j] = t[j - Len(s)]
      BY <1>1, <1>2, <3>1
    <3>3. QED BY <1>5, <2>2, <3>1, <3>2 DEF Ordered, Descending
  <2>3. QED BY <1>2, <2>1, <2>2
<1>6. QED BY <1>1, <1>4, <1>5 DEF u, Ordered, Descending

\* tommy_chain_merge defines a function: each step is left with one node less.
LEMMA MergeDefined ==
    ASSUME NEW s \in Seq(Node), NEW t \in Seq(Node)
    PROVE  \E f : /\ MergeLoop(s, t) = f[<<1, 1>>]
                  /\ \A i \in 1 .. Len(s) + 1 : \A j \in 1 .. Len(t) + 1 :
                       f[<<i, j>>] =
                         IF i > Len(s) THEN SubSeq(t, j, Len(t))
                         ELSE IF j > Len(t) THEN SubSeq(s, i, Len(s))
                         ELSE IF count_sort(s[i], t[j]) > 0
                         THEN <<t[j]>> \o f[<<i, j + 1>>]
                         ELSE <<s[i]>> \o f[<<i + 1, j>>]
<1> DEFINE D == (1 .. Len(s) + 1) \X (1 .. Len(t) + 1)
           V == Seq(Node)
           body(p, g) ==
               IF p[1] > Len(s) THEN SubSeq(t, p[2], Len(t))
               ELSE IF p[2] > Len(t) THEN SubSeq(s, p[1], Len(s))
               ELSE IF count_sort(s[p[1]], t[p[2]]) > 0
               THEN <<t[p[2]]>> \o g[<<p[1], p[2] + 1>>]
               ELSE <<s[p[1]]>> \o g[<<p[1] + 1, p[2]>>]
           F == CHOOSE g : g = [p \in D |-> body(p, g)]
           size == [p \in D |-> Len(s) + 1 - p[1] + (Len(t) + 1 - p[2])]
           step == [q \in D \X [D -> V] |-> body(q[1], q[2])]
<1>1. /\ Len(s) \in Nat /\ Len(t) \in Nat
      /\ \A i \in 1 .. Len(s) : s[i] \in Node
      /\ \A i \in 1 .. Len(t) : t[i] \in Node
  OBVIOUS
<1>2. MergeLoop(s, t) = F[<<1, 1>>]
  BY DEF MergeLoop
<1>3. ASSUME NEW p \in D
      PROVE  /\ p[1] \in 1 .. Len(s) + 1 /\ p[2] \in 1 .. Len(t) + 1
             /\ p[1] <= Len(s) => p[1] \in 1 .. Len(s) /\ <<p[1] + 1, p[2]>> \in D
             /\ p[2] <= Len(t) => p[2] \in 1 .. Len(t) /\ <<p[1], p[2] + 1>> \in D
  BY <1>1
<1>4. /\ size \in [D -> 0 .. Len(s) + Len(t)]
      /\ \A p \in D : p[1] <= Len(s) => size[<<p[1] + 1, p[2]>>] < size[p]
      /\ \A p \in D : p[2] <= Len(t) => size[<<p[1], p[2] + 1>>] < size[p]
  <2>1. \A p \in D : size[p] = Len(s) + 1 - p[1] + (Len(t) + 1 - p[2])
    OBVIOUS
  <2>2. \A i \in 1 .. Len(s) + 1 : \A j \in 1 .. Len(t) + 1 :
           <<i, j>> \in D /\ size[<<i, j>>] = Len(s) + 1 - i + (Len(t) + 1 - j)
    OBVIOUS
  <2>3. size \in [D -> 0 .. Len(s) + Len(t)]
    BY <1>1, <1>3
  <2>4. ASSUME NEW p \in D, p[1] <= Len(s)
        PROVE  size[<<p[1] + 1, p[2]>>] < size[p]
    <3>1. p[1] + 1 \in 1 .. Len(s) + 1 /\ p[2] \in 1 .. Len(t) + 1 /\ p[1] \in 1 .. Len(s)
      BY <1>1, <1>3, <2>4
    <3>2. size[<<p[1] + 1, p[2]>>] = Len(s) + 1 - (p[1] + 1) + (Len(t) + 1 - p[2])
      BY <2>2, <3>1
    <3>3. size[p] = Len(s) + 1 - p[1] + (Len(t) + 1 - p[2])
      BY <2>1
    <3> HIDE DEF size, D
    <3>4. QED BY <1>1, <3>1, <3>2, <3>3
  <2>5. ASSUME NEW p \in D, p[2] <= Len(t)
        PROVE  size[<<p[1], p[2] + 1>>] < size[p]
    <3>1. p[1] \in 1 .. Len(s) + 1 /\ p[2] + 1 \in 1 .. Len(t) + 1 /\ p[2] \in 1 .. Len(t)
      BY <1>1, <1>3, <2>5
    <3>2. size[<<p[1], p[2] + 1>>] = Len(s) + 1 - p[1] + (Len(t) + 1 - (p[2] + 1))
      BY <2>2, <3>1
    <3>3. size[p] = Len(s) + 1 - p[1] + (Len(t) + 1 - p[2])
      BY <2>1
    <3> HIDE DEF size, D
    <3>4. QED BY <1>1, <3>1, <3>2, <3>3
  <2>6. QED BY <2>3, <2>4, <2>5
<1> HIDE DEF D, size
<1>5. ASSUME NEW p \in D, NEW g \in [D -> V]
      PROVE  body(p, g) \in V
  <2>1. \A x \in Node : \A r \in Seq(Node) : <<x>> \o r \in Seq(Node)
    OBVIOUS
  <2>2. CASE p[1] > Len(s) \/ p[2] > Len(t)
    <3>1. SubSeq(t, p[2], Len(t)) \in V /\ SubSeq(s, p[1], Len(s)) \in V
      BY <1>3, TailPart
    <3>2. QED BY <2>2, <3>1
  <2>3. CASE ~(p[1] > Len(s)) /\ ~(p[2] > Len(t))
    <3>1. p[1] \in 1 .. Len(s) /\ p[2] \in 1 .. Len(t)
          /\ g[<<p[1] + 1, p[2]>>] \in V /\ g[<<p[1], p[2] + 1>>] \in V
      BY <1>1, <1>3, <2>3
    <3>2. QED BY <1>1, <2>1, <2>3, <3>1
  <2>4. QED BY <2>2, <2>3
<1>6. step \in [D \X [D -> V] -> V]
      /\ \A p \in D : \A g \in [D -> V] : step[<<p, g>>] = body(p, g)
  <2> HIDE DEF body, V
  <2>1. QED BY <1>5
<1> HIDE DEF V
<1>7. ASSUME NEW p \in D, NEW f \in [D -> V], NEW g \in [D -> V],
             \A q \in D : size[q] < size[p] => f[q] = g[q]
      PROVE  step[<<p, f>>] = step[<<p, g>>]
  <2>1. CASE p[1] > Len(s) \/ p[2] > Len(t)
    <3>1. body(p, f) = body(p, g)
      BY <2>1
    <3> HIDE DEF body, step
    <3>2. QED BY <1>6, <3>1
  <2>2. CASE ~(p[1] > Len(s)) /\ ~(p[2] > Len(t))
    <3>1. /\ f[<<p[1] + 1, p[2]>>] = g[<<p[1] + 1, p[2]>>]
          /\ f[<<p[1], p[2] + 1>>] = g[<<p[1], p[2] + 1>>]
      <4> HIDE DEF body, step, F
      <4>1. p[1] \in 1 .. Len(s) + 1 /\ p[2] \in 1 .. Len(t) + 1
        BY <1>3
      <4>2. p[1] <= Len(s) /\ p[2] <= Len(t)
        BY <1>1, <2>2, <4>1
      <4>3. <<p[1] + 1, p[2]>> \in D /\ <<p[1], p[2] + 1>> \in D
        BY <1>3, <4>2
      <4>4. size[<<p[1] + 1, p[2]>>] < size[p] /\ size[<<p[1], p[2] + 1>>] < size[p]
        BY <1>4, <4>2
      <4>5. QED BY <1>7, <4>3, <4>4
    <3>2. body(p, f) = body(p, g)
      BY <3>1
    <3> HIDE DEF body, step
    <3>3. QED BY <1>6, <3>2
  <2>3. QED BY <2>1, <2>2
<1>8. PICK f : Solution(D, V, step, f)
  <2> DEFINE N == Len(s) + Len(t)
  <2>1. V # {} /\ N \in Nat
    BY <1>1 DEF V
  <2> HIDE DEF body, step, F
  <2>2. Recursion(D, V, N, size, step)
    BY <1>4, <1>6, <1>7, <2>1 DEF Recursion
  <2> HIDE DEF N
  <2>3. QED BY <2>2, RecursiveFunction
<1>9. f = [p \in D |-> body(p, f)]
  <2> HIDE DEF body, step, V
  <2>1. QED BY <1>6, <1>8 DEF Solution
<1>10. F = [p \in D |-> body(p, F)]
  <2> HIDE DEF body
  <2>1. QED BY <1>9
<1> HIDE DEF F
<1>11. ASSUME NEW i \in 1 .. Len(s) + 1, NEW j \in 1 .. Len(t) + 1
       PROVE  F[<<i, j>>] = body(<<i, j>>, F)
  <2>1. <<i, j>> \in D
    BY DEF D
  <2> HIDE DEF body
  <2>2. QED BY <1>10, <2>1
<1>12. QED BY <1>2, <1>11

\* What is left of two sorted chains, merged.
MergedTo(r, s, i, t, j) ==
    /\ r \in Seq(Node) /\ Len(r) = Len(s) + 1 - i + (Len(t) + 1 - j)
    /\ Ordered(r) /\ ToSet(r) = Part(s, i) \cup Part(t, j)

\* The part of a sorted list from a node on: that node and nothing greater.
LEMMA PartNext ==
    ASSUME NEW s \in Seq(Node), Ordered(s), NEW i \in 1 .. Len(s)
    PROVE  /\ s[i] \in Node /\ Part(s, i) = {s[i]} \cup Part(s, i + 1)
           /\ \A x \in Part(s, i) : x \in Node /\ (~Unsigned => x.count <= s[i].count)
<1>1. i \in i .. Len(s) /\ i .. Len(s) = {i} \cup (i + 1) .. Len(s) /\ i .. Len(s) \subseteq DOMAIN s
  OBVIOUS
<1>2. \A k \in i .. Len(s) : i <= k /\ k \in DOMAIN s
  OBVIOUS
<1>3. \A k \in DOMAIN s : s[k] \in Node
  OBVIOUS
<1>4. \A x \in Part(s, i) : x \in Node /\ (~Unsigned => x.count <= s[i].count)
  BY <1>1, <1>2, <1>3 DEF Part, Ordered, Descending
<1>5. Part(s, i) = {s[i]} \cup Part(s, i + 1)
  BY <1>1 DEF Part
<1>6. QED BY <1>1, <1>3, <1>4, <1>5

\* The rest of a sorted list is sorted.
LEMMA OrderedTail ==
    ASSUME NEW s \in Seq(Node), Ordered(s), NEW i \in 1 .. Len(s) + 1
    PROVE  Ordered(SubSeq(s, i, Len(s)))
<1> DEFINE r == SubSeq(s, i, Len(s))
<1>1. /\ r \in Seq(Node) /\ Len(r) = Len(s) + 1 - i /\ \A k \in 1 .. Len(r) : r[k] = s[k + i - 1]
  BY TailPart
<1> HIDE DEF r
<1>2. ASSUME ~Unsigned, NEW k \in DOMAIN r, NEW l \in DOMAIN r, k <= l
      PROVE  r[l].count <= r[k].count
  <2>1. k \in 1 .. Len(r) /\ l \in 1 .. Len(r)
    BY <1>1
  <2>2. k + i - 1 \in DOMAIN s /\ l + i - 1 \in DOMAIN s /\ k + i - 1 <= l + i - 1
    BY <1>1, <1>2, <2>1
  <2>3. QED BY <1>1, <1>2, <2>1, <2>2 DEF Ordered, Descending
<1>3. QED BY <1>2 DEF Ordered, Descending, r

\* After the last node there is nothing.
LEMMA NothingLeft ==
    ASSUME NEW s \in Seq(Node)
    PROVE  Part(s, Len(s) + 1) = {}
BY DEF Part

\* tommy_chain_merge returns a sorted list of the nodes of both, from whichever two
\* nodes on it is looked at.
LEMMA MergeCorrect ==
    ASSUME NEW s \in Seq(Node), NEW t \in Seq(Node), Ordered(s), Ordered(t)
    PROVE  MergedTo(MergeLoop(s, t), s, 1, t, 1)
<1> DEFINE D == (1 .. Len(s) + 1) \X (1 .. Len(t) + 1)
           size == [p \in D |-> Len(s) + 1 - p[1] + (Len(t) + 1 - p[2])]
<1>1. PICK f : /\ MergeLoop(s, t) = f[<<1, 1>>]
               /\ \A i \in 1 .. Len(s) + 1 : \A j \in 1 .. Len(t) + 1 :
                       f[<<i, j>>] =
                         IF i > Len(s) THEN SubSeq(t, j, Len(t))
                         ELSE IF j > Len(t) THEN SubSeq(s, i, Len(s))
                         ELSE IF count_sort(s[i], t[j]) > 0
                         THEN <<t[j]>> \o f[<<i, j + 1>>]
                         ELSE <<s[i]>> \o f[<<i + 1, j>>]
  BY MergeDefined
<1> DEFINE Bad == {p \in D : ~MergedTo(f[p], s, p[1], t, p[2])}
<1>2. Len(s) \in Nat /\ Len(t) \in Nat
  OBVIOUS
<1>3. SUFFICES Bad = {}
  <2>1. <<1, 1>> \in D
    BY <1>2
  <2>2. QED BY <1>1, <1>3, <2>1
<1>4. SUFFICES ASSUME Bad # {} PROVE FALSE
  OBVIOUS
<1>5. Bad \subseteq D /\ size \in [D -> Nat]
  BY <1>2
<1>6. PICK p \in Bad : \A q \in Bad : size[p] <= size[q]
  <2> HIDE DEF Bad, D, size
  <2>1. QED BY <1>4, <1>5, SmallestFailure
<1>7. PICK i \in 1 .. Len(s) + 1, j \in 1 .. Len(t) + 1 : p = <<i, j>>
  OBVIOUS
<1>8. ~MergedTo(f[<<i, j>>], s, i, t, j)
  BY <1>7
<1>9. ASSUME NEW k \in 1 .. Len(s) + 1, NEW l \in 1 .. Len(t) + 1, k + l > i + j
      PROVE  MergedTo(f[<<k, l>>], s, k, t, l)
  <2>1. size[<<k, l>>] < size[p]
    <3>1. /\ <<k, l>> \in D /\ size[<<k, l>>] = Len(s) + 1 - k + (Len(t) + 1 - l)
          /\ <<i, j>> \in D /\ size[<<i, j>>] = Len(s) + 1 - i + (Len(t) + 1 - j)
      OBVIOUS
    <3> HIDE DEF D, size, Bad
    <3>2. QED BY <1>2, <1>7, <1>9, <3>1
  <2>2. <<k, l>> \in D /\ <<k, l>> \notin Bad
    <3>1. size[<<k, l>>] \in Int /\ size[p] \in Int /\ <<k, l>> \in D
      BY <1>2, <1>7
    <3> HIDE DEF Bad, size, D
    <3>2. QED BY <1>6, <2>1, <3>1
  <2>3. QED BY <2>2
<1> HIDE DEF Bad, D, size
<1>a. /\ i > Len(s) => f[<<i, j>>] = SubSeq(t, j, Len(t))
      /\ ~(i > Len(s)) /\ j > Len(t) => f[<<i, j>>] = SubSeq(s, i, Len(s))
      /\ ~(i > Len(s)) /\ ~(j > Len(t)) =>
           f[<<i, j>>] = IF count_sort(s[i], t[j]) > 0 THEN <<t[j]>> \o f[<<i, j + 1>>]
                         ELSE <<s[i]>> \o f[<<i + 1, j>>]
  BY <1>1
<1>b. /\ i \in Int /\ j \in Int /\ Len(s) \in Int /\ Len(t) \in Int
      /\ i > Len(s) => i = Len(s) + 1
      /\ j > Len(t) => j = Len(t) + 1
      /\ ~(i > Len(s)) <=> i <= Len(s)
      /\ ~(j > Len(t)) <=> j <= Len(t)
  BY <1>2
<1>10. CASE i > Len(s)
  <2>1. i = Len(s) + 1 /\ f[<<i, j>>] = SubSeq(t, j, Len(t))
    BY <1>a, <1>b, <1>10
  <2>2. /\ f[<<i, j>>] \in Seq(Node) /\ Len(f[<<i, j>>]) = Len(t) + 1 - j
        /\ Ordered(f[<<i, j>>]) /\ ToSet(f[<<i, j>>]) = Part(t, j)
    BY <2>1, TailPart, OrderedTail
  <2>3. Part(s, i) = {} /\ Len(s) + 1 - i = 0
    BY <1>2, <2>1, NothingLeft
  <2> HIDE DEF Bad, D, size
  <2>4. Len(f[<<i, j>>]) = Len(s) + 1 - i + (Len(t) + 1 - j)
    <3>1. \A x, y \in Int : y = 0 => x + y = x /\ y + x = x
      OBVIOUS
    <3>2. Len(s) + 1 - i \in Int /\ Len(t) + 1 - j \in Int
      BY <1>b
    <3>3. QED BY <2>2, <2>3, <3>1, <3>2
  <2>5. QED BY <1>8, <2>2, <2>3, <2>4 DEF MergedTo
<1>11. CASE i <= Len(s) /\ j > Len(t)
  <2>1. j = Len(t) + 1 /\ f[<<i, j>>] = SubSeq(s, i, Len(s))
    BY <1>a, <1>b, <1>11
  <2>2. /\ f[<<i, j>>] \in Seq(Node) /\ Len(f[<<i, j>>]) = Len(s) + 1 - i
        /\ Ordered(f[<<i, j>>]) /\ ToSet(f[<<i, j>>]) = Part(s, i)
    BY <2>1, TailPart, OrderedTail
  <2>3. Part(t, j) = {} /\ Len(t) + 1 - j = 0
    BY <1>2, <2>1, NothingLeft
  <2> HIDE DEF Bad, D, size
  <2>4. Len(f[<<i, j>>]) = Len(s) + 1 - i + (Len(t) + 1 - j)
    <3>1. \A x, y \in Int : y = 0 => x + y = x /\ y + x = x
      OBVIOUS
    <3>2. Len(s) + 1 - i \in Int /\ Len(t) + 1 - j \in Int
      BY <1>b
    <3>3. QED BY <2>2, <2>3, <3>1, <3>2
  <2>5. QED BY <1>8, <2>2, <2>3, <2>4 DEF MergedTo
<1>12. CASE i <= Len(s) /\ j <= Len(t)
  <2> DEFINE a == s[i]
             b == t[j]
  <2>1. i \in 1 .. Len(s) /\ j \in 1 .. Len(t) /\ i + 1 \in 1 .. Len(s) + 1 /\ j + 1 \in 1 .. Len(t) + 1
    BY <1>2, <1>12
  <2>2. /\ a \in Node /\ Part(s, i) = {a} \cup Part(s, i + 1)
        /\ \A x \in Part(s, i) : x \in Node /\ (~Unsigned => x.count <= a.count)
        /\ b \in Node /\ Part(t, j) = {b} \cup Part(t, j + 1)
        /\ \A x \in Part(t, j) : x \in Node /\ (~Unsigned => x.count <= b.count)
    <3>1. /\ a \in Node /\ Part(s, i) = {a} \cup Part(s, i + 1)
          /\ \A x \in Part(s, i) : x \in Node /\ (~Unsigned => x.count <= a.count)
      BY <2>1, PartNext
    <3>2. /\ b \in Node /\ Part(t, j) = {b} \cup Part(t, j + 1)
          /\ \A x \in Part(t, j) : x \in Node /\ (~Unsigned => x.count <= b.count)
      BY <2>1, PartNext
    <3>3. QED BY <3>1, <3>2
  <2>3. f[<<i, j>>] = IF count_sort(a, b) > 0 THEN <<b>> \o f[<<i, j + 1>>]
                      ELSE <<a>> \o f[<<i + 1, j>>]
    BY <1>a, <1>b, <1>12
  <2>4. MergedTo(f[<<i, j + 1>>], s, i, t, j + 1) /\ MergedTo(f[<<i + 1, j>>], s, i + 1, t, j)
    BY <1>2, <1>9, <2>1
  <2> HIDE DEF a, b
  <2>5. CASE count_sort(a, b) > 0
    <3>1. ~Unsigned => a.count <= b.count
      BY <2>2, <2>5, Compare DEF Node
    <3>2. ~Unsigned => \A x \in Part(s, i) \cup Part(t, j + 1) : x.count <= b.count
      BY <2>2, <3>1 DEF Node
    <3>3. LET r == f[<<i, j + 1>>]
          IN r \in Seq(Node) /\ Ordered(r) /\ (~Unsigned => \A x \in ToSet(r) : x.count <= b.count)
             /\ Len(r) = Len(s) + 1 - i + (Len(t) + 1 - (j + 1)) /\ ToSet(r) = Part(s, i) \cup Part(t, j + 1)
      BY <2>4, <3>2 DEF MergedTo
    <3>4. f[<<i, j>>] = <<b>> \o f[<<i, j + 1>>]
      BY <2>3, <2>5
    <3>5. /\ f[<<i, j>>] \in Seq(Node) /\ Len(f[<<i, j>>]) = Len(f[<<i, j + 1>>]) + 1
          /\ Ordered(f[<<i, j>>]) /\ ToSet(f[<<i, j>>]) = {b} \cup ToSet(f[<<i, j + 1>>])
      BY <2>2, <3>3, <3>4, InFront
    <3>6. Len(f[<<i, j>>]) = Len(s) + 1 - i + (Len(t) + 1 - j)
      BY <1>2, <3>3, <3>5
    <3>7. QED BY <1>8, <2>2, <3>3, <3>5, <3>6 DEF MergedTo
  <2>6. CASE ~(count_sort(a, b) > 0)
    <3>1. ~Unsigned => b.count <= a.count
      BY <2>2, <2>6, Compare DEF Node
    <3>2. ~Unsigned => \A x \in Part(s, i + 1) \cup Part(t, j) : x.count <= a.count
      BY <2>2, <3>1 DEF Node
    <3>3. LET r == f[<<i + 1, j>>]
          IN r \in Seq(Node) /\ Ordered(r) /\ (~Unsigned => \A x \in ToSet(r) : x.count <= a.count)
             /\ Len(r) = Len(s) + 1 - (i + 1) + (Len(t) + 1 - j) /\ ToSet(r) = Part(s, i + 1) \cup Part(t, j)
      BY <2>4, <3>2 DEF MergedTo
    <3>4. f[<<i, j>>] = <<a>> \o f[<<i + 1, j>>]
      BY <2>3, <2>6
    <3>5. /\ f[<<i, j>>] \in Seq(Node) /\ Len(f[<<i, j>>]) = Len(f[<<i + 1, j>>]) + 1
          /\ Ordered(f[<<i, j>>]) /\ ToSet(f[<<i, j>>]) = {a} \cup ToSet(f[<<i + 1, j>>])
      BY <2>2, <3>3, <3>4, InFront
    <3>6. Len(f[<<i, j>>]) = Len(s) + 1 - i + (Len(t) + 1 - j)
      BY <1>2, <3>3, <3>5
    <3>7. QED BY <1>8, <2>2, <3>3, <3>5, <3>6 DEF MergedTo
  <2>7. QED BY <2>5, <2>6
<1>13. QED BY <1>2, <1>10, <1>11, <1>12

\* Chains that are in order
InOrder == {r \in Seq(Node) : r # <<>> /\ Ordered(r)}

\* tommy_chain_merge_degenerated of two sorted chains
LEMMA MergeInOrder ==
    ASSUME NEW s \in InOrder, NEW t \in InOrder
    PROVE  /\ Merge(s, t) \in InOrder /\ Len(Merge(s, t)) = Len(s) + Len(t)
           /\ ToSet(Merge(s, t)) = ToSet(s) \cup ToSet(t)
<1>1. s \in Seq(Node) /\ t \in Seq(Node) /\ Ordered(s) /\ Ordered(t)
  BY DEF InOrder
<1>2. /\ Len(s) \in Nat /\ Len(t) \in Nat /\ Len(s) >= 1 /\ Len(t) >= 1
      /\ DOMAIN s = 1 .. Len(s) /\ DOMAIN t = 1 .. Len(t)
      /\ \A i \in DOMAIN s : s[i] \in Node
      /\ \A i \in DOMAIN t : t[i] \in Node
  BY <1>1 DEF InOrder
<1>3. Last(s) = s[Len(s)] /\ Last(t) = t[Len(t)] /\ Head(s) = s[1] /\ Head(t) = t[1]
  BY <1>1 DEF Last, InOrder
<1>4. /\ s[Len(s)] \in Node /\ t[Len(t)] \in Node /\ s[1] \in Node /\ t[1] \in Node
      /\ ~Unsigned => \A i \in DOMAIN s : s[i].count <= s[1].count /\ s[Len(s)].count <= s[i].count
      /\ ~Unsigned => \A i \in DOMAIN t : t[i].count <= t[1].count /\ t[Len(t)].count <= t[i].count
  BY <1>1, <1>2 DEF Ordered, Descending
<1>5. SUFFICES /\ Merge(s, t) \in Seq(Node) /\ Ordered(Merge(s, t))
               /\ Len(Merge(s, t)) = Len(s) + Len(t)
               /\ ToSet(Merge(s, t)) = ToSet(s) \cup ToSet(t)
  <2>1. Len(Merge(s, t)) # 0
    BY <1>2, <1>5
  <2>2. QED BY <1>5, <2>1 DEF InOrder
<1>6. CASE count_sort(Last(s), Head(t)) <= 0
  <2>1. Merge(s, t) = s \o t
    BY <1>6 DEF Merge
  <2>2. ~Unsigned => t[1].count <= s[Len(s)].count
    BY <1>3, <1>4, <1>6, Compare
  <2>3. ~Unsigned => \A i \in DOMAIN s : \A j \in DOMAIN t : t[j].count <= s[i].count
    BY <1>2, <1>4, <2>2 DEF Node
  <2>4. QED BY <1>1, <2>1, <2>3, Concat
<1>7. CASE ~(count_sort(Last(s), Head(t)) <= 0) /\ count_sort(Last(t), Head(s)) < 0
  <2>1. Merge(s, t) = t \o s
    BY <1>7 DEF Merge
  <2>2. ~Unsigned => s[1].count <= t[Len(t)].count
    BY <1>3, <1>4, <1>7, Compare DEF Node
  <2>3. ~Unsigned => \A i \in DOMAIN t : \A j \in DOMAIN s : s[j].count <= t[i].count
    BY <1>2, <1>4, <2>2 DEF Node
  <2>4. /\ t \o s \in Seq(Node) /\ Len(t \o s) = Len(t) + Len(s)
        /\ Ordered(t \o s) /\ ToSet(t \o s) = ToSet(t) \cup ToSet(s)
    BY <1>1, <2>3, Concat
  <2>5. QED BY <1>2, <2>1, <2>4
<1>8. CASE ~(count_sort(Last(s), Head(t)) <= 0) /\ ~(count_sort(Last(t), Head(s)) < 0)
  <2>1. Merge(s, t) = MergeLoop(s, t)
    BY <1>8 DEF Merge
  <2>2. MergedTo(MergeLoop(s, t), s, 1, t, 1)
    BY <1>1, MergeCorrect
  <2>3. Part(s, 1) = ToSet(s) /\ Part(t, 1) = ToSet(t)
    BY <1>1, PartIsAll
  <2>4. Len(s) + 1 - 1 + (Len(t) + 1 - 1) = Len(s) + Len(t)
    BY <1>2
  <2>5. QED BY <2>1, <2>2, <2>3, <2>4 DEF MergedTo
<1>9. QED BY <1>6, <1>7, <1>8

\* Both parts of a list of two nodes or more have nodes.
LEMMA HalfFits ==
    ASSUME NEW n \in Nat, n >= 2
    PROVE  Half(n) \in 1 .. n - 1
<1> DEFINE B == BucketSizes(n)
           T == {n - b : b \in B}
<1>1. 1 \in B /\ B \subseteq 1 .. n - 1
  BY DEF BucketSizes
<1> HIDE DEF B
<1>2. T \subseteq Nat /\ T # {}
  BY <1>1
<1>3. PICK m \in T : \A k \in T : m <= k
  BY <1>2, LeastNat
<1>4. PICK b \in B : m = n - b
  OBVIOUS
<1>5. \A c \in B : c <= b
  <2>1. \A c \in B : n - b <= n - c
    BY <1>3, <1>4
  <2>2. QED BY <1>1, <2>1
<1>6. Half(n) \in B
  BY <1>5 DEF Half, B
<1>7. QED BY <1>1, <1>6

\* tommy_chain_mergesort defines a function: lists in order are merged from
\* shorter ones in order.
LEMMA SortedDefined ==
    ASSUME NEW s \in Seq(Node), s # <<>>
    PROVE  \E f : /\ Sorted(s) = f[<<1, Len(s)>>]
                  /\ \A a \in 1 .. Len(s) : \A n \in 1 .. Len(s) + 1 - a :
                       f[<<a, n>>] =
                         IF n = 1 THEN <<s[a]>>
                         ELSE Merge(f[<<a, Half(n)>>], f[<<a + Half(n), n - Half(n)>>])
<1> DEFINE D == {q \in (1 .. Len(s)) \X (1 .. Len(s)) : q[1] + q[2] <= Len(s) + 1}
           V == InOrder
           body(p, g) ==
               IF p[2] = 1 THEN <<s[p[1]]>>
               ELSE Merge(g[<<p[1], Half(p[2])>>], g[<<p[1] + Half(p[2]), p[2] - Half(p[2])>>])
           F == CHOOSE g : g = [p \in D |-> body(p, g)]
           size == [p \in D |-> p[2]]
           step == [q \in D \X [D -> V] |-> body(q[1], q[2])]
           N == Len(s)
<1>1. Len(s) \in Nat /\ Len(s) >= 1 /\ \A i \in 1 .. Len(s) : s[i] \in Node
  OBVIOUS
<1>2. Sorted(s) = F[<<1, Len(s)>>]
  BY DEF Sorted
<1>3. ASSUME NEW a \in 1 .. Len(s), NEW n \in 1 .. Len(s) + 1 - a
      PROVE  <<a, n>> \in D /\ size[<<a, n>>] = n
  BY <1>1
<1>4. ASSUME NEW p \in D
      PROVE  /\ p[1] \in 1 .. Len(s) /\ p[2] \in 1 .. Len(s) + 1 - p[1]
             /\ p = <<p[1], p[2]>> /\ size[p] = p[2]
  BY <1>1
<1>5. size \in [D -> 0 .. N]
  BY <1>1
<1> HIDE DEF D, size
<1>6. ASSUME NEW p \in D, p[2] # 1
      PROVE  LET q == <<p[1], Half(p[2])>>
                 r == <<p[1] + Half(p[2]), p[2] - Half(p[2])>>
             IN q \in D /\ r \in D /\ size[q] < size[p] /\ size[r] < size[p]
  <2> DEFINE a == p[1]
             n == p[2]
             h == Half(n)
  <2> HIDE DEF body, F, step, V
  <2>1. a \in 1 .. Len(s) /\ n \in 1 .. Len(s) + 1 - a /\ n # 1 /\ size[p] = n
    BY <1>4, <1>6
  <2>2. h \in 1 .. n - 1
    <3>1. n \in Nat /\ n >= 2
      BY <1>1, <2>1
    <3>2. QED BY <3>1, HalfFits
  <2> HIDE DEF a, n, h
  <2>3. h \in 1 .. Len(s) + 1 - a /\ a + h \in 1 .. Len(s) /\ n - h \in 1 .. Len(s) + 1 - (a + h)
    BY <1>1, <2>1, <2>2
  <2>4. /\ <<a, h>> \in D /\ size[<<a, h>>] = h
        /\ <<a + h, n - h>> \in D /\ size[<<a + h, n - h>>] = n - h
    BY <1>3, <2>1, <2>3
  <2>5. h < n /\ n - h < n
    BY <1>1, <2>1, <2>2
  <2>6. QED BY <2>1, <2>4, <2>5 DEF a, n, h
<1>7. \A x \in Node : <<x>> \in V
  <2>1. \A x \in Node : <<x>> \in Seq(Node) /\ <<x>> # <<>> /\ DOMAIN <<x>> = {1}
    OBVIOUS
  <2>2. \A x \in Node : x.count <= x.count
    BY DEF Node
  <2>3. QED BY <2>1, <2>2 DEF InOrder, Ordered, Descending
<1>8. ASSUME NEW p \in D, NEW g \in [D -> V]
      PROVE  body(p, g) \in V
  <2>1. CASE p[2] = 1
    <3>1. body(p, g) = <<s[p[1]]>>
      BY <2>1
    <3> HIDE DEF body, F, step, V
    <3>2. QED BY <1>1, <1>4, <1>7, <3>1
  <2>2. CASE p[2] # 1
    <3> DEFINE q == <<p[1], Half(p[2])>>
               r == <<p[1] + Half(p[2]), p[2] - Half(p[2])>>
    <3>1. g[q] \in V /\ g[r] \in V
      BY <1>6, <2>2
    <3>2. body(p, g) = Merge(g[q], g[r])
      BY <2>2
    <3> HIDE DEF q, r, body, F, step
    <3>3. QED BY <3>1, <3>2, MergeInOrder
  <2>3. QED BY <2>1, <2>2
<1> HIDE DEF V
<1>9. step \in [D \X [D -> V] -> V]
      /\ \A p \in D : \A g \in [D -> V] : step[<<p, g>>] = body(p, g)
  <2> HIDE DEF body
  <2>1. QED BY <1>8
<1>10. ASSUME NEW p \in D, NEW f \in [D -> V], NEW g \in [D -> V],
              \A q \in D : size[q] < size[p] => f[q] = g[q]
       PROVE  step[<<p, f>>] = step[<<p, g>>]
  <2>1. body(p, f) = body(p, g)
    <3>1. CASE p[2] = 1
      BY <3>1
    <3>2. CASE p[2] # 1
      <4> DEFINE q == <<p[1], Half(p[2])>>
                 r == <<p[1] + Half(p[2]), p[2] - Half(p[2])>>
      <4>1. f[q] = g[q] /\ f[r] = g[r]
        BY <1>6, <1>10, <3>2
      <4>2. body(p, f) = Merge(f[q], f[r]) /\ body(p, g) = Merge(g[q], g[r])
        BY <3>2
      <4> HIDE DEF q, r, body
      <4>3. QED BY <4>1, <4>2
    <3>3. QED BY <3>1, <3>2
  <2> HIDE DEF body, step
  <2>2. QED BY <1>9, <2>1
<1>11. PICK f : Solution(D, V, step, f)
  <2>1. <<s[1]>> \in V /\ 1 \in 1 .. Len(s) /\ N \in Nat
    BY <1>1, <1>7
  <2> HIDE DEF body, step, F, N
  <2>2. V # {}
    BY <2>1
  <2>3. Recursion(D, V, N, size, step)
    BY <1>5, <1>9, <1>10, <2>1, <2>2 DEF Recursion
  <2>4. QED BY <2>3, RecursiveFunction
<1>12. f \in [D -> V] /\ f = [p \in D |-> body(p, f)]
  <2> HIDE DEF body, step
  <2>1. QED BY <1>9, <1>11 DEF Solution
<1>13. F = [p \in D |-> body(p, F)]
  <2> HIDE DEF body
  <2>1. QED BY <1>12
<1>14. \A p \in D : F[p] = body(p, F)
  <2> HIDE DEF body, F
  <2>1. QED BY <1>13
<1> HIDE DEF F
<1>15. ASSUME NEW a \in 1 .. Len(s), NEW n \in 1 .. Len(s) + 1 - a
       PROVE  F[<<a, n>>] =
                IF n = 1 THEN <<s[a]>>
                ELSE Merge(F[<<a, Half(n)>>], F[<<a + Half(n), n - Half(n)>>])
  <2>1. <<a, n>> \in D
    BY <1>3
  <2>2. F[<<a, n>>] = body(<<a, n>>, F)
    <3> HIDE DEF body
    <3>1. QED BY <1>14, <2>1
  <2>3. QED BY <2>2
<1>16. QED BY <1>2, <1>15

\* A part of a list, and the parts of it that are merged.
Nodes(s, a, n) == {s[k] : k \in a .. a + n - 1}

\* A part of a list, cut in two.
LEMMA NodesSplit ==
    ASSUME NEW S, NEW s \in Seq(S), NEW a \in Nat, NEW n \in Nat, NEW h \in 1 .. n - 1
    PROVE  Nodes(s, a, n) = Nodes(s, a, h) \cup Nodes(s, a + h, n - h)
<1>1. a .. a + n - 1 = (a .. a + h - 1) \cup (a + h .. a + h + (n - h) - 1)
  OBVIOUS
<1>2. QED BY <1>1 DEF Nodes

\* tommy_chain_mergesort returns a list of the same length with the same nodes,
\* for lists of every length and whatever the caller of count_sort sees; the list
\* is in descending order of the counts if that is the sign count_sort meant.
THEOREM SortCorrect ==
    ASSUME NEW s \in Seq(Node), s # <<>>
    PROVE  /\ Sorted(s) \in Seq(Node) /\ Len(Sorted(s)) = Len(s)
           /\ ToSet(Sorted(s)) = ToSet(s)
           /\ ~Unsigned => Descending(Sorted(s))
<1>0. SUFFICES Sorted(s) \in InOrder /\ Len(Sorted(s)) = Len(s) /\ ToSet(Sorted(s)) = ToSet(s)
  BY DEF InOrder, Ordered
<1> DEFINE D == {q \in (1 .. Len(s)) \X (1 .. Len(s)) : q[1] + q[2] <= Len(s) + 1}
           size == [p \in D |-> p[2]]
<1>1. PICK f : /\ Sorted(s) = f[<<1, Len(s)>>]
               /\ \A a \in 1 .. Len(s) : \A n \in 1 .. Len(s) + 1 - a :
                    f[<<a, n>>] =
                      IF n = 1 THEN <<s[a]>>
                      ELSE Merge(f[<<a, Half(n)>>], f[<<a + Half(n), n - Half(n)>>])
  BY SortedDefined
<1>2. Len(s) \in Nat /\ Len(s) >= 1 /\ \A i \in 1 .. Len(s) : s[i] \in Node
  OBVIOUS
<1> DEFINE Good(a, n) == /\ f[<<a, n>>] \in InOrder /\ Len(f[<<a, n>>]) = n
                         /\ ToSet(f[<<a, n>>]) = Nodes(s, a, n)
           Bad == {p \in D : ~Good(p[1], p[2])}
<1>3. SUFFICES Bad = {}
  <2>1. <<1, Len(s)>> \in D
    BY <1>2
  <2>2. Good(1, Len(s))
    BY <1>3, <2>1
  <2>3. Nodes(s, 1, Len(s)) = ToSet(s)
    <3>1. 1 .. 1 + Len(s) - 1 = DOMAIN s
      BY <1>2
    <3>2. QED BY <3>1 DEF Nodes, ToSet
  <2>4. QED BY <1>1, <2>2, <2>3
<1>4. SUFFICES ASSUME Bad # {} PROVE FALSE
  OBVIOUS
<1>5. Bad \subseteq D /\ size \in [D -> Nat]
  BY <1>2
<1>6. ASSUME NEW a \in 1 .. Len(s), NEW n \in 1 .. Len(s) + 1 - a
      PROVE  <<a, n>> \in D /\ size[<<a, n>>] = n
  BY <1>2
<1>7. PICK p \in Bad : \A q \in Bad : size[p] <= size[q]
  <2> HIDE DEF Bad, D, size
  <2>1. QED BY <1>4, <1>5, SmallestFailure
<1>8. PICK a \in 1 .. Len(s) : \E n \in 1 .. Len(s) + 1 - a : p = <<a, n>>
  <2>1. p[1] \in 1 .. Len(s) /\ p[2] \in 1 .. Len(s) + 1 - p[1] /\ p = <<p[1], p[2]>>
    BY <1>2
  <2> HIDE DEF Bad, D, size
  <2>2. QED BY <2>1
<1> PICK n \in 1 .. Len(s) + 1 - a : p = <<a, n>>
  BY <1>8
<1>9. ~Good(a, n)
  OBVIOUS
<1>10. ASSUME NEW b \in 1 .. Len(s), NEW m \in 1 .. Len(s) + 1 - b, m < n
       PROVE  Good(b, m)
  <2>1. <<b, m>> \in D /\ size[<<b, m>>] = m /\ size[p] = n
    BY <1>6
  <2>2. <<b, m>> \notin Bad
    <3>1. ~(n <= m)
      BY <1>2, <1>10
    <3> HIDE DEF Bad, D, size
    <3>2. QED BY <1>7, <2>1, <3>1
  <2>3. QED BY <2>1, <2>2
<1>11. CASE n = 1
  <2> HIDE DEF Bad, D, size
  <2>1. f[<<a, n>>] = <<s[a]>> /\ s[a] \in Node
    BY <1>1, <1>2, <1>11
  <2>2. \A x \in Node : /\ <<x>> \in Seq(Node) /\ <<x>> # <<>> /\ DOMAIN <<x>> = {1}
                         /\ Len(<<x>>) = 1 /\ <<x>>[1] = x
    OBVIOUS
  <2>3. \A x \in Node : x.count <= x.count
    BY DEF Node
  <2>4. \A x \in Node : <<x>> \in InOrder /\ ToSet(<<x>>) = {x}
    BY <2>2, <2>3 DEF InOrder, Ordered, Descending, ToSet
  <2>5. a .. a + n - 1 = {a}
    BY <1>2, <1>11
  <2>6. Nodes(s, a, n) = {s[a]}
    BY <2>5 DEF Nodes
  <2>7. QED BY <1>9, <1>11, <2>1, <2>2, <2>4, <2>6
<1>12. CASE n # 1
  <2> DEFINE h == Half(n)
  <2>1. h \in 1 .. n - 1
    <3>1. n \in Nat /\ n >= 2
      BY <1>2, <1>12
    <3>2. QED BY <3>1, HalfFits
  <2>2. f[<<a, n>>] = Merge(f[<<a, h>>], f[<<a + h, n - h>>])
    BY <1>1, <1>12
  <2> HIDE DEF h
  <2>3. /\ h \in 1 .. Len(s) + 1 - a /\ a + h \in 1 .. Len(s) /\ n - h \in 1 .. Len(s) + 1 - (a + h)
        /\ h < n /\ n - h < n /\ h + (n - h) = n /\ a \in Nat /\ n \in Nat
    BY <1>2, <2>1
  <2>4. Good(a, h) /\ Good(a + h, n - h)
    <3> HIDE DEF Good, Bad, D, size
    <3>1. QED BY <1>10, <2>3
  <2>5. Nodes(s, a, n) = Nodes(s, a, h) \cup Nodes(s, a + h, n - h)
    BY <2>1, <2>3, NodesSplit
  <2>6. /\ f[<<a, n>>] \in InOrder /\ Len(f[<<a, n>>]) = h + (n - h)
        /\ ToSet(f[<<a, n>>]) = Nodes(s, a, h) \cup Nodes(s, a + h, n - h)
    BY <2>2, <2>4, MergeInOrder
  <2>7. QED BY <1>9, <2>3, <2>5, <2>6
<1>13. QED BY <1>11, <1>12

----------------------------------------------------------------------------
(* The CWs of an ECM *)

\* No CW is twice in a list.
Distinct(s) == \A i, j \in DOMAIN s : s[i].cw = s[j].cw => i = j
Grown(s, t) ==
    \A c \in ToSet(s) : \E d \in ToSet(t) : d.cw = c.cw /\ d.count >= c.count

CwsInv ==
    /\ DOMAIN info = Hashes /\ adds \in Nat
    /\ \A er \in incoming : /\ er.hash \in Hashes /\ er.cw \in CWs /\ er.lg \in BOOLEAN
                            /\ er.id # 0
    /\ \A h \in Hashes : /\ info[h].cws \in Seq(Node) /\ Distinct(info[h].cws)
                         /\ info[h].id = 0 => info[h].cws = <<>>

\* A list of the same length with the same nodes has each of them once.
LEMMA SortedDistinct ==
    ASSUME NEW s \in Seq(Node), s # <<>>, Distinct(s)
    PROVE  Distinct(Sorted(s))
<1> DEFINE r == Sorted(s)
           N == 1 .. Len(s)
           T == ToSet(s)
<1>1. r \in Seq(Node) /\ Len(r) = Len(s) /\ ToSet(r) = T
  BY SortCorrect
<1> HIDE DEF r
<1>2. Len(s) \in Nat /\ DOMAIN s = N /\ DOMAIN r = N
  BY <1>1
<1>3. s \in Surjection(N, T) /\ r \in Surjection(N, T)
  <2>1. s \in [N -> T] /\ \A x \in T : \E i \in N : s[i] = x
    BY <1>2 DEF ToSet
  <2>2. r \in [N -> T] /\ \A x \in T : \E i \in N : r[i] = x
    <3>1. r = [i \in N |-> r[i]]
      BY <1>1, <1>2
    <3>2. \A i \in N : r[i] \in T
      BY <1>1, <1>2 DEF ToSet
    <3>3. \A x \in ToSet(r) : \E i \in N : r[i] = x
      BY <1>2 DEF ToSet
    <3> HIDE DEF T, N
    <3>4. QED BY <1>1, <3>1, <3>2, <3>3
  <2> HIDE DEF T, N
  <2>3. QED BY <2>1, <2>2 DEF Surjection
<1>4. s \in Injection(N, T)
  <2>1. s \in [N -> T]
    BY <1>3 DEF Surjection
  <2>2. \A i, j \in N : s[i] = s[j] => i = j
    BY <1>2 DEF Distinct
  <2> HIDE DEF T, N
  <2>3. QED BY <2>1, <2>2 DEF Injection, IsInjective
<1>5. IsFiniteSet(N)
  BY <1>2, FS_Interval
<1>6. Cardinality(T) = Cardinality(N)
  <2> HIDE DEF T, N
  <2>1. QED BY <1>3, <1>4, <1>5, FS_Surjection
<1>7. r \in Injection(N, T)
  <2> HIDE DEF T, N
  <2>1. QED BY <1>3, <1>5, <1>6, FS_Surjection
<1>8. \A i, j \in N : r[i] = r[j] => i = j
  <2> HIDE DEF T, N
  <2>1. QED BY <1>7 DEF Injection, IsInjective
<1>9. ASSUME NEW i \in DOMAIN r, NEW j \in DOMAIN r, r[i].cw = r[j].cw
      PROVE  i = j
  <2>1. PICK k \in N, l \in N : r[i] = s[k] /\ r[j] = s[l]
    <3>1. r[i] \in ToSet(r) /\ r[j] \in ToSet(r)
      BY DEF ToSet
    <3>2. r[i] \in ToSet(s) /\ r[j] \in ToSet(s)
      BY <1>1, <3>1
    <3>3. \A x \in ToSet(s) : \E k \in N : x = s[k]
      BY <1>2 DEF ToSet
    <3> HIDE DEF N
    <3>4. QED BY <3>2, <3>3
  <2>2. k = l
    BY <1>2, <1>9, <2>1 DEF Distinct
  <2>3. QED BY <1>2, <1>8, <2>1, <2>2
<1>10. QED BY <1>9 DEF Distinct, r

\* One more CW: none is lost, none is there twice, no count gets smaller.
LEMMA NewCwsKept ==
    ASSUME CwsInv, NEW er \in incoming
    PROVE  /\ NewCws(er) \in Seq(Node) /\ Distinct(NewCws(er))
           /\ Grown(info[er.hash].cws, NewCws(er))
<1> DEFINE old == info[er.hash].cws
           cws == WithCw(er)
           i == CHOOSE k \in DOMAIN cws : cws[k].cw = er.cw
           counted == [cws EXCEPT ![i] = Counted(@, er.lg)]
           new == [cw |-> er.cw, count |-> 0]
<1>1. old \in Seq(Node) /\ Distinct(old) /\ er.cw \in CWs /\ er.lg \in BOOLEAN
  BY DEF CwsInv
<1>2. NewCws(er) = IF Full(er) THEN old
                   ELSE IF counted[i].count > 1 THEN Sorted(counted) ELSE counted
  BY DEF NewCws
<1>3. new \in Node /\ new.cw = er.cw
  BY <1>1 DEF Node
<1>4. cws = IF Listed(er) THEN old ELSE Append(old, new)
  BY DEF WithCw
<1>5. Listed(er) <=> \E k \in DOMAIN old : old[k].cw = er.cw
  BY DEF Listed
<1> HIDE DEF old, new, cws
<1>6. /\ cws \in Seq(Node) /\ Distinct(cws) /\ \E k \in DOMAIN cws : cws[k].cw = er.cw
      /\ \A k \in DOMAIN old : k \in DOMAIN cws /\ cws[k] = old[k]
  <2>1. CASE Listed(er)
    BY <1>1, <1>4, <1>5, <2>1
  <2>2. CASE ~Listed(er)
    <3>1. cws = Append(old, new)
      BY <1>4, <2>2
    <3>2. /\ cws \in Seq(Node) /\ Len(old) + 1 \in DOMAIN cws /\ cws[Len(old) + 1] = new
          /\ \A k \in DOMAIN cws : (k \in DOMAIN old /\ cws[k] = old[k]) \/ k = Len(old) + 1
          /\ \A k \in DOMAIN old : k \in DOMAIN cws /\ cws[k] = old[k]
      BY <1>1, <1>3, <3>1
    <3>3. \A k \in DOMAIN old : old[k].cw # er.cw
      BY <1>5, <2>2
    <3>4. ASSUME NEW k \in DOMAIN cws, NEW l \in DOMAIN cws, cws[k].cw = cws[l].cw
          PROVE  k = l
      <4>1. CASE k \in DOMAIN old /\ l \in DOMAIN old
        BY <1>1, <3>2, <3>4, <4>1 DEF Distinct
      <4>2. CASE k = Len(old) + 1 /\ l \in DOMAIN old
        BY <1>3, <3>2, <3>3, <3>4, <4>2
      <4>3. CASE k \in DOMAIN old /\ l = Len(old) + 1
        BY <1>3, <3>2, <3>3, <3>4, <4>3
      <4>4. QED BY <3>2, <4>1, <4>2, <4>3
    <3>5. QED BY <1>3, <3>2, <3>4 DEF Distinct
  <2>3. QED BY <2>1, <2>2
<1>7. i \in DOMAIN cws /\ cws[i].cw = er.cw
  BY <1>6
<1> HIDE DEF i
<1>8. \A k \in DOMAIN cws : cws[k] \in Node
  BY <1>6
<1>9. /\ DOMAIN counted = DOMAIN cws /\ counted \in Seq(Node) /\ counted # <<>>
      /\ \A k \in DOMAIN cws : counted[k].cw = cws[k].cw /\ counted[k].count >= cws[k].count
  <2>1. ASSUME NEW c \in Node
        PROVE  /\ Counted(c, er.lg) \in Node /\ Counted(c, er.lg).cw = c.cw
               /\ Counted(c, er.lg).count >= c.count /\ c.count >= c.count
    BY DEF Counted, Node, LgCount
  <2>2. counted[i] = Counted(cws[i], er.lg)
    BY <1>7
  <2>3. DOMAIN counted = DOMAIN cws /\ \A k \in DOMAIN cws : k # i => counted[k] = cws[k]
    BY <1>6
  <2>4. \A k \in DOMAIN cws : counted[k] \in Node
    <3> HIDE DEF counted
    <3>1. QED BY <1>7, <1>8, <2>1, <2>2, <2>3
  <2>5. counted \in Seq(Node)
    <3> HIDE DEF counted
    <3>1. /\ DOMAIN counted = 1 .. Len(cws) /\ Len(cws) \in Nat
          /\ \A k \in 1 .. Len(cws) : counted[k] \in Node
      BY <1>6, <2>3, <2>4
    <3>2. counted = [k \in 1 .. Len(cws) |-> counted[k]]
      BY <3>1 DEF counted
    <3>3. QED BY <3>1, <3>2
  <2>6. counted # <<>>
    BY <1>7, <2>3
  <2> HIDE DEF counted
  <2>7. \A k \in DOMAIN cws : counted[k].cw = cws[k].cw /\ counted[k].count >= cws[k].count
    BY <1>7, <1>8, <2>1, <2>2, <2>3
  <2>8. QED BY <2>3, <2>5, <2>6, <2>7
<1> HIDE DEF counted
<1>10. Distinct(counted)
  BY <1>6, <1>9 DEF Distinct
<1>11. Grown(old, counted)
  <2>1. ASSUME NEW k \in DOMAIN old
        PROVE  \E d \in ToSet(counted) : d.cw = old[k].cw /\ d.count >= old[k].count
    <3>1. k \in DOMAIN counted /\ counted[k].cw = old[k].cw /\ counted[k].count >= old[k].count
      BY <1>6, <1>9
    <3>2. QED BY <3>1 DEF ToSet
  <2>2. QED BY <2>1 DEF Grown, ToSet
<1>12. CASE Full(er)
  <2>1. \A c \in ToSet(old) : c \in Node
    BY <1>1 DEF ToSet
  <2>2. \A c \in Node : c.count >= c.count
    BY DEF Node
  <2>3. Grown(old, old)
    BY <2>1, <2>2 DEF Grown
  <2>4. QED BY <1>1, <1>2, <1>12, <2>3 DEF old
<1>13. CASE ~Full(er) /\ counted[i].count > 1
  <2>1. Sorted(counted) \in Seq(Node) /\ ToSet(Sorted(counted)) = ToSet(counted)
    BY <1>9, SortCorrect
  <2>2. Distinct(Sorted(counted))
    BY <1>9, <1>10, SortedDistinct
  <2>3. NewCws(er) = Sorted(counted)
    BY <1>2, <1>13
  <2>4. QED BY <1>11, <2>1, <2>2, <2>3 DEF Grown, old
<1>14. CASE ~Full(er) /\ ~(counted[i].count > 1)
  BY <1>2, <1>9, <1>10, <1>11, <1>14 DEF old
<1>15. QED BY <1>12, <1>13, <1>14

\* At the start there are no lists.
LEMMA CwsInit == Init => CwsInv
<1>1. <<>> \in Seq(Node) /\ Distinct(<<>>)
  BY DEF Distinct
<1>2. NoInfo.cws = <<>>
  BY DEF NoInfo
<1>3. SUFFICES ASSUME Init PROVE CwsInv
  OBVIOUS
<1>4. /\ DOMAIN info = Hashes /\ adds = 0 /\ incoming = {}
      /\ \A h \in Hashes : info[h].cws = <<>>
  BY <1>2, <1>3 DEF Init
<1>5. QED BY <1>1, <1>4 DEF CwsInv

\* An ECM that stays in the cache keeps its CWs, its list has each of them once.
KeptStep ==
    \A h \in Hashes : /\ Distinct(info'[h].cws)
                      /\ info'[h].id = info[h].id => Grown(info[h].cws, info'[h].cws)

LEMMA CwsStep == CwsInv /\ [Next]_vars => CwsInv' /\ KeptStep
<1> SUFFICES ASSUME CwsInv, [Next]_vars PROVE CwsInv' /\ KeptStep
  OBVIOUS
<1>0. ASSUME NEW s \in Seq(Node) PROVE Grown(s, s)
  <2>1. \A c \in ToSet(s) : c \in Node
    BY DEF ToSet
  <2>2. \A c \in Node : c.count >= c.count
    BY DEF Node
  <2>3. QED BY <2>1, <2>2 DEF Grown
<1>1. ASSUME UNCHANGED <<info, adds>>, incoming' \subseteq incoming
      PROVE  CwsInv' /\ KeptStep
  <2>1. CwsInv'
    BY <1>1 DEF CwsInv, Distinct
  <2>2. KeptStep
    BY <1>0, <1>1 DEF CwsInv, KeptStep
  <2>3. QED BY <2>1, <2>2
<1>2. CASE UNCHANGED vars
  BY <1>1, <1>2 DEF vars
<1>3. CASE Tick
  BY <1>1, <1>3 DEF Tick
<1>4. ASSUME NEW h \in Hashes, NEW cw \in CWs, NEW lg \in BOOLEAN, Receive(h, cw, lg)
      PROVE  CwsInv' /\ KeptStep
  <2>1. /\ UNCHANGED info /\ adds' = adds + 1
        /\ \A er \in incoming' : \/ er \in incoming
                                 \/ er.hash = h /\ er.cw = cw /\ er.lg = lg /\ er.id = adds'
    BY <1>4 DEF Receive
  <2>2. adds' \in Nat /\ adds' # 0
    BY <2>1 DEF CwsInv
  <2>3. CwsInv'
    BY <2>1, <2>2 DEF CwsInv, Distinct
  <2>4. KeptStep
    BY <1>0, <2>1 DEF CwsInv, KeptStep
  <2>5. QED BY <2>3, <2>4
<1>5. ASSUME NEW er \in incoming, NEW to \in SUBSET Peers, AddCache(er, to)
      PROVE  CwsInv' /\ KeptStep
  <2>1. /\ NewCws(er) \in Seq(Node) /\ Distinct(NewCws(er))
        /\ Grown(info[er.hash].cws, NewCws(er))
    BY NewCwsKept
  <2>2. er.hash \in Hashes /\ er.id # 0 /\ adds' = adds /\ incoming' \subseteq incoming
    BY <1>5 DEF AddCache, CwsInv
  <2>3. /\ DOMAIN info' = Hashes /\ info'[er.hash].cws = NewCws(er)
        /\ info'[er.hash].id = Entry(er).id
        /\ \A h \in Hashes \ {er.hash} : info'[h] = info[h]
    BY <1>5, <2>2 DEF AddCache, CwsInv
  <2>4. Entry(er).id # 0
    BY <2>2 DEF Entry, Known, NoInfo
  <2>5. CwsInv'
    <3>1. ASSUME NEW h \in Hashes
          PROVE  /\ info'[h].cws \in Seq(Node) /\ Distinct(info'[h].cws)
                 /\ info'[h].id = 0 => info'[h].cws = <<>>
      <4>1. CASE h = er.hash
        BY <2>1, <2>3, <2>4, <4>1
      <4>2. CASE h # er.hash
        BY <2>3, <4>2 DEF CwsInv
      <4>3. QED BY <4>1, <4>2
    <3>2. QED BY <2>2, <2>3, <3>1 DEF CwsInv, Distinct
  <2>6. KeptStep
    <3>1. ASSUME NEW h \in Hashes
          PROVE  Distinct(info'[h].cws) /\ Grown(info[h].cws, info'[h].cws)
      <4>1. CASE h = er.hash
        BY <2>1, <2>3, <4>1
      <4>2. CASE h # er.hash
        BY <1>0, <2>3, <4>2 DEF CwsInv
      <4>3. QED BY <4>1, <4>2
    <3>2. QED BY <3>1 DEF KeptStep
  <2>7. QED BY <2>5, <2>6
<1>6. CASE CleanupCache
  <2>0. NoInfo.cws = <<>> /\ NoInfo.id = 0
    BY DEF NoInfo
  <2>1. <<>> \in Seq(Node) /\ Distinct(<<>>) /\ Grown(<<>>, <<>>)
    BY DEF Distinct, Grown, ToSet
  <2>2. /\ incoming' = incoming /\ adds' = adds
        /\ info' = [h \in Hashes |-> IF h \in Removed THEN NoInfo ELSE info[h]]
    BY <1>6 DEF CleanupCache
  <2>3. /\ DOMAIN info' = Hashes
        /\ \A h \in Hashes : info'[h] = info[h] \/ info'[h] = NoInfo
    BY <2>2
  <2>4. CwsInv'
    <3>1. ASSUME NEW h \in Hashes
          PROVE  /\ info'[h].cws \in Seq(Node) /\ Distinct(info'[h].cws)
                 /\ info'[h].id = 0 => info'[h].cws = <<>>
      BY <2>1, <2>3, <2>0 DEF CwsInv
    <3>2. QED BY <2>2, <2>3, <3>1 DEF CwsInv, Distinct
  <2>5. ASSUME NEW h \in Hashes
        PROVE  /\ Distinct(info'[h].cws)
               /\ info'[h].id = info[h].id => Grown(info[h].cws, info'[h].cws)
    <3>1. CASE info'[h] = info[h]
      BY <1>0, <3>1 DEF CwsInv
    <3>2. CASE info'[h] = NoInfo
      BY <2>0, <2>1, <3>2 DEF CwsInv
    <3>3. QED BY <2>3, <3>1, <3>2
  <2>6. QED BY <2>4, <2>5 DEF KeptStep
<1>7. CASE FreePushed
  BY <1>1, <1>7 DEF FreePushed
<1>8. ASSUME NEW p \in Peers, DropPush(p) \/ PushOut(p)
      PROVE  CwsInv' /\ KeptStep
  BY <1>1, <1>8 DEF DropPush, PushOut
<1>9. QED BY <1>2, <1>3, <1>4, <1>5, <1>6, <1>7, <1>8 DEF Next

\* No vote and no CW is lost while an ECM is in the cache, for any number of ECMs
\* and CWs, and whatever the caller of count_sort sees: also where it is told of
\* two CWs that each is the smaller one (add_cache, sort_list).
THEOREM NoCwLost == Spec => CwsKept
<1>1. CwsInv /\ [Next]_vars =>
        [\A h \in Hashes :
         /\ \A i, j \in DOMAIN info'[h].cws : info'[h].cws[i].cw = info'[h].cws[j].cw => i = j
         /\ info'[h].id = info[h].id =>
              \A c \in ToSet(info[h].cws) :
                 \E d \in ToSet(info'[h].cws) : d.cw = c.cw /\ d.count >= c.count]_vars
  BY CwsStep DEF KeptStep, Distinct, Grown
<1>2. Init => CwsInv
  BY CwsInit
<1>3. CwsInv /\ [Next]_vars => CwsInv'
  BY CwsStep
<1>4. QED BY <1>1, <1>2, <1>3, PTL DEF Spec, CwsKept

----------------------------------------------------------------------------
(* The walk of cleanup_cache *)

\* What is taken off a list leaves the rest in its order.
Before(x, y, s, R, n) ==
    \E k, l \in 1 .. n : k <= l /\ x = s[k] /\ y = s[l] /\ x \notin R /\ y \notin R
Rest(r, s, R, n, S) ==
    /\ r \in Seq(S)
    /\ \A i, j \in DOMAIN r : i <= j => Before(r[i], r[j], s, R, n)

\* Taking ECMs off the list defines a function of the length looked at.
LEMMA WithoutDefined ==
    ASSUME NEW S, NEW s \in Seq(S), NEW R
    PROVE  \E f : /\ Without(s, R) = f[Len(s)]
                  /\ \A n \in 0 .. Len(s) :
                       f[n] = IF n = 0 THEN <<>>
                              ELSE IF s[n] \in R THEN f[n - 1] ELSE Append(f[n - 1], s[n])
<1> DEFINE D == 0 .. Len(s)
           V == Seq(S)
           body(n, g) == IF n = 0 THEN <<>>
                         ELSE IF s[n] \in R THEN g[n - 1] ELSE Append(g[n - 1], s[n])
           F == CHOOSE g : g = [n \in D |-> body(n, g)]
           size == [n \in D |-> n]
           step == [q \in D \X [D -> V] |-> body(q[1], q[2])]
           N == Len(s)
<1>1. Len(s) \in Nat /\ \A i \in 1 .. Len(s) : s[i] \in S
  OBVIOUS
<1>2. Without(s, R) = F[Len(s)]
  BY DEF Without
<1>3. ASSUME NEW n \in D, n # 0
      PROVE  n \in 1 .. Len(s) /\ n - 1 \in D /\ size[n - 1] < size[n]
  BY <1>1, <1>3
<1>4. /\ size \in [D -> 0 .. N] /\ N \in D
      /\ \A n \in D : n \in Nat
  BY <1>1
<1> HIDE DEF D, size
<1>5. \A r \in Seq(S) : \A x \in S : Append(r, x) \in Seq(S)
  OBVIOUS
<1>6. ASSUME NEW n \in D, NEW g \in [D -> V]
      PROVE  body(n, g) \in V
  <2>1. CASE n = 0
    BY <2>1
  <2>2. CASE n # 0
    <3>1. g[n - 1] \in V /\ s[n] \in S
      BY <1>1, <1>3, <2>2
    <3>2. body(n, g) = g[n - 1] \/ body(n, g) = Append(g[n - 1], s[n])
      BY <2>2
    <3> HIDE DEF body, F, step
    <3>3. QED BY <1>5, <3>1, <3>2
  <2>3. QED BY <2>1, <2>2
<1>7. <<>> \in V
  OBVIOUS
<1> HIDE DEF V
<1>8. step \in [D \X [D -> V] -> V]
      /\ \A n \in D : \A g \in [D -> V] : step[<<n, g>>] = body(n, g)
  <2> HIDE DEF body
  <2>1. QED BY <1>6
<1>9. ASSUME NEW n \in D, NEW f \in [D -> V], NEW g \in [D -> V],
             \A m \in D : size[m] < size[n] => f[m] = g[m]
      PROVE  step[<<n, f>>] = step[<<n, g>>]
  <2>1. body(n, f) = body(n, g)
    <3>1. n # 0 => f[n - 1] = g[n - 1]
      BY <1>3, <1>9
    <3>2. QED BY <3>1
  <2> HIDE DEF body, step
  <2>2. QED BY <1>8, <2>1
<1>10. PICK f : Solution(D, V, step, f)
  <2> HIDE DEF body, step, F
  <2>1. N \in Nat
    BY <1>1
  <2> HIDE DEF N
  <2>2. Recursion(D, V, N, size, step)
    BY <1>4, <1>7, <1>8, <1>9, <2>1 DEF Recursion
  <2>3. QED BY <2>2, RecursiveFunction
<1>11. f = [n \in D |-> body(n, f)]
  <2> HIDE DEF body, step
  <2>1. QED BY <1>8, <1>10 DEF Solution
<1>12. F = [n \in D |-> body(n, F)]
  <2> HIDE DEF body
  <2>1. QED BY <1>11
<1> HIDE DEF F
<1>13. \A n \in D : F[n] = body(n, F)
  <2> HIDE DEF body
  <2>1. QED BY <1>12
<1>14. QED BY <1>2, <1>13 DEF D

\* What is left is in the order it had, and nothing that was to be taken off.
LEMMA WithoutCorrect ==
    ASSUME NEW S, NEW s \in Seq(S), NEW R
    PROVE  Rest(Without(s, R), s, R, Len(s), S)
<1>1. PICK f : /\ Without(s, R) = f[Len(s)]
               /\ \A n \in 0 .. Len(s) :
                    f[n] = IF n = 0 THEN <<>>
                           ELSE IF s[n] \in R THEN f[n - 1] ELSE Append(f[n - 1], s[n])
  BY WithoutDefined
<1> DEFINE Bad == {n \in 0 .. Len(s) : ~Rest(f[n], s, R, n, S)}
<1>2. Len(s) \in Nat /\ \A i \in 1 .. Len(s) : s[i] \in S
  OBVIOUS
<1>3. SUFFICES ASSUME Bad # {} PROVE FALSE
  BY <1>1, <1>2
<1>4. PICK n \in Bad : \A m \in Bad : n <= m
  <2>1. Bad \subseteq Nat
    OBVIOUS
  <2> HIDE DEF Bad
  <2>2. QED BY <1>3, <2>1, LeastNat
<1>5. n \in 0 .. Len(s) /\ ~Rest(f[n], s, R, n, S)
  OBVIOUS
<1>6. n # 0
  <2>1. f[0] = <<>>
    BY <1>1, <1>2
  <2>2. Rest(<<>>, s, R, 0, S)
    BY DEF Rest
  <2>3. QED BY <1>5, <2>1, <2>2
<1> DEFINE r == f[n - 1]
<1>7. Rest(r, s, R, n - 1, S)
  <2>1. n - 1 \in 0 .. Len(s) /\ ~(n <= n - 1)
    BY <1>2, <1>5, <1>6
  <2>2. n - 1 \notin Bad
    <3> HIDE DEF Bad
    <3>1. QED BY <1>4, <2>1
  <2>3. QED BY <2>1, <2>2
<1>8. f[n] = IF s[n] \in R THEN r ELSE Append(r, s[n])
  BY <1>1, <1>5, <1>6
<1> HIDE DEF r, Bad
<1>9. 1 .. n - 1 \subseteq 1 .. n /\ n \in 1 .. n /\ s[n] \in S /\ \A k \in 1 .. n : k <= n
  BY <1>2, <1>5, <1>6
<1>a. ASSUME NEW x, NEW y, Before(x, y, s, R, n - 1)
      PROVE  Before(x, y, s, R, n)
  BY <1>9, <1>a DEF Before
<1>10. CASE s[n] \in R
  <2>1. Rest(r, s, R, n, S)
    BY <1>7, <1>a DEF Rest
  <2>2. QED BY <1>5, <1>8, <1>10, <2>1
<1>11. CASE s[n] \notin R
  <2> DEFINE t == Append(r, s[n])
  <2>1. r \in Seq(S)
    BY <1>7 DEF Rest
  <2>2. /\ t \in Seq(S) /\ \A i \in DOMAIN t : (i \in DOMAIN r /\ t[i] = r[i]) \/ (i = Len(r) + 1 /\ t[i] = s[n])
        /\ \A i \in DOMAIN r : i <= Len(r) /\ i \in Nat
        /\ Len(r) \in Nat
    BY <1>9, <2>1
  <2> HIDE DEF t
  <2>3. ASSUME NEW i \in DOMAIN t, NEW j \in DOMAIN t, i <= j
        PROVE  Before(t[i], t[j], s, R, n)
    <3>1. CASE i \in DOMAIN r /\ t[i] = r[i] /\ j \in DOMAIN r /\ t[j] = r[j]
      BY <1>7, <1>a, <2>3, <3>1 DEF Rest
    <3>2. CASE i \in DOMAIN r /\ t[i] = r[i] /\ t[j] = s[n]
      <4>1. i <= i
        BY <2>2, <3>2
      <4>2. Before(r[i], r[i], s, R, n - 1)
        BY <1>7, <3>2, <4>1 DEF Rest
      <4>3. PICK k \in 1 .. n - 1 : r[i] = s[k] /\ r[i] \notin R
        BY <4>2 DEF Before
      <4>4. k \in 1 .. n /\ k <= n /\ n \in 1 .. n
        BY <1>9
      <4>5. QED BY <1>11, <3>2, <4>3, <4>4 DEF Before
    <3>3. CASE i = Len(r) + 1 /\ t[i] = s[n]
      <4>1. t[j] = s[n]
        BY <2>2, <2>3, <3>3
      <4>2. n <= n /\ n \in 1 .. n
        BY <1>9
      <4>3. QED BY <1>11, <3>3, <4>1, <4>2 DEF Before
    <3>4. QED BY <2>2, <3>1, <3>2, <3>3
  <2>4. Rest(t, s, R, n, S)
    BY <2>2, <2>3 DEF Rest
  <2>5. QED BY <1>5, <1>8, <1>11, <2>4 DEF t
<1>12. QED BY <1>10, <1>11

\* The ECMs are listed by the time of their first CW, which no later one comes before
OrderInv ==
    /\ now \in Nat /\ adds \in Nat /\ DOMAIN info = Hashes
    /\ \A er \in incoming : er.hash \in Hashes /\ er.id # 0
    /\ \A h \in Hashes : info[h].first \in Nat /\ info[h].upd \in Nat
                         /\ info[h].first <= info[h].upd /\ info[h].upd <= now
    /\ order \in Seq(Hashes) /\ \A i \in DOMAIN order : Known(order[i])
    /\ \A i, j \in DOMAIN order : i <= j => info[order[i]].first <= info[order[j]].first

\* All ECMs before a stale one had their first CW no later, and so are walked over.
LEMMA WalkFindsAll == OrderInv => CleanupExact
<1> SUFFICES ASSUME OrderInv PROVE CleanupExact
  OBVIOUS
<1>1. max_cache_time \in Int
  BY TimeAssumption DEF max_cache_time, Fixup
<1>2. /\ order \in Seq(Hashes) /\ DOMAIN order = 1 .. Len(order) /\ Len(order) \in Nat
      /\ \A j \in DOMAIN order : \A i \in 1 .. j : i \in DOMAIN order /\ i <= j /\ order[i] \in Hashes
      /\ \A j \in DOMAIN order : order[j] \in Hashes
  BY DEF OrderInv
<1>3. ASSUME NEW j \in DOMAIN order, Stale(order[j])
      PROVE  order[j] \in Walked
  <2>1. ASSUME NEW i \in 1 .. j
        PROVE  ~Young(order[i])
    <3> DEFINE a == info[order[i]].first
               b == info[order[j]].first
               c == info[order[j]].upd
    <3>1. a \in Nat /\ b \in Nat /\ c \in Nat /\ now \in Nat /\ a <= b /\ b <= c
      BY <1>2 DEF OrderInv
    <3>2. now - c > max_cache_time
      BY <1>3 DEF Stale
    <3> HIDE DEF a, b, c
    <3>3. ~(now - a <= max_cache_time)
      BY <1>1, <3>1, <3>2
    <3>4. QED BY <3>3 DEF Young, a
  <2>2. QED BY <1>2, <2>1 DEF Walked
<1>4. QED BY <1>2, <1>3 DEF CleanupExact, Removed, Walked, Stale, ToSet

\* At the start no ECM is known.
LEMMA OrderInit == Init => OrderInv
BY DEF Init, OrderInv, NoInfo

\* A new ECM goes to the end, and its first CW came last; others keep their place.
LEMMA OrderStep == OrderInv /\ [Next]_vars => OrderInv'
<1> SUFFICES ASSUME OrderInv, [Next]_vars PROVE OrderInv'
  OBVIOUS
<1>1. ASSUME UNCHANGED <<info, order, adds>>, now' \in Nat, now <= now', incoming' \subseteq incoming
      PROVE  OrderInv'
  BY <1>1 DEF OrderInv, Known
<1>2. CASE UNCHANGED vars
  BY <1>2 DEF vars, OrderInv, Known
<1>3. CASE Tick
  BY <1>1, <1>3 DEF Tick, OrderInv
<1>4. ASSUME NEW h \in Hashes, NEW cw \in CWs, NEW lg \in BOOLEAN, Receive(h, cw, lg)
      PROVE  OrderInv'
  <2>1. /\ UNCHANGED <<info, order, now>> /\ adds' = adds + 1
        /\ incoming' = incoming \cup {[id |-> adds', hash |-> h, cw |-> cw, lg |-> lg, tps |-> now]}
    BY <1>4 DEF Receive
  <2>2. adds' \in Nat /\ adds' # 0
    BY <2>1 DEF OrderInv
  <2>3. \A er \in incoming' : er \in incoming \/ (er.id = adds' /\ er.hash = h)
    BY <2>1
  <2>4. \A er \in incoming' : er.hash \in Hashes /\ er.id # 0
    BY <2>2, <2>3 DEF OrderInv
  <2>5. QED BY <2>1, <2>2, <2>4 DEF OrderInv, Known
<1>5. ASSUME NEW er \in incoming, NEW to \in SUBSET Peers, AddCache(er, to)
      PROVE  OrderInv'
  <2> DEFINE c == er.hash
             new == [id |-> Entry(er).id, first |-> Entry(er).first, upd |-> now, cws |-> NewCws(er)]
  <2>1. /\ incoming' \subseteq incoming /\ UNCHANGED <<now, adds>> /\ c \in Hashes /\ er.id # 0
        /\ order' = IF Known(c) THEN order ELSE Append(order, c)
        /\ info' = [info EXCEPT ![c] = new]
    BY <1>5 DEF AddCache, OrderInv
  <2>2. /\ new.upd = now /\ new.first = Entry(er).first /\ new.id = Entry(er).id
        /\ Entry(er).id = IF Known(c) THEN info[c].id ELSE er.id
        /\ Entry(er).first = IF Known(c) THEN info[c].first ELSE now
    BY DEF Entry, NoInfo
  <2> HIDE DEF new
  <2>3. DOMAIN info' = Hashes /\ info'[c] = new /\ \A h \in Hashes : h # c => info'[h] = info[h]
    BY <2>1 DEF OrderInv
  <2> HIDE DEF c
  <2>4. \A h \in Hashes : info'[h].first \in Nat /\ info'[h].upd \in Nat
                          /\ info'[h].first <= info'[h].upd /\ info'[h].upd <= now
    <3>1. \A h \in Hashes : info[h].first <= now
      BY DEF OrderInv
    <3>2. now <= now /\ now \in Nat
      BY DEF OrderInv
    <3>3. new.first \in Nat /\ new.upd \in Nat /\ new.first <= new.upd /\ new.upd <= now
      BY <2>1, <2>2, <3>1, <3>2 DEF OrderInv
    <3>4. QED BY <2>1, <2>3, <3>3 DEF OrderInv
  <2>5. info'[c].id # 0
    BY <2>1, <2>2, <2>3 DEF Known
  <2>6. CASE Known(c)
    <3>1. order' = order /\ \A h \in Hashes : info'[h].first = info[h].first
                              /\ (info[h].id # 0 => info'[h].id # 0)
      BY <2>1, <2>2, <2>3, <2>5, <2>6
    <3>2. \A i \in DOMAIN order : order[i] \in Hashes /\ info[order[i]].id # 0
      BY DEF OrderInv, Known
    <3>3. \A i \in DOMAIN order : info'[order[i]].id # 0 /\ info'[order[i]].first = info[order[i]].first
      BY <3>1, <3>2
    <3>4. \A i, j \in DOMAIN order : i <= j => info'[order[i]].first <= info'[order[j]].first
      BY <3>3 DEF OrderInv
    <3>5. QED BY <2>1, <2>3, <2>4, <3>1, <3>3, <3>4 DEF OrderInv, Known
  <2>7. CASE ~Known(c)
    <3>1. order' = Append(order, c) /\ info'[c].first = now /\ order \in Seq(Hashes)
      BY <2>1, <2>2, <2>3, <2>7 DEF OrderInv
    <3>2. \A i \in DOMAIN order : order[i] \in Hashes /\ info[order[i]].id # 0 /\ order[i] # c
      BY <2>7 DEF OrderInv, Known
    <3>3. \A i \in DOMAIN order : info'[order[i]] = info[order[i]] /\ info[order[i]].first <= now
      <4>1. \A h \in Hashes : info[h].first <= now
        BY DEF OrderInv
      <4>2. QED BY <2>3, <3>2, <4>1
    <3>4. /\ order' \in Seq(Hashes) /\ Len(order) \in Nat
          /\ \A i \in DOMAIN order : i \in Nat /\ i <= Len(order)
          /\ \A i \in DOMAIN order' : \/ i \in DOMAIN order /\ order'[i] = order[i]
                                      \/ i = Len(order) + 1 /\ order'[i] = c
      BY <2>1, <3>1
    <3>5. \A i \in DOMAIN order' : info'[order'[i]].id # 0 /\ info'[order'[i]].first <= now
      <4>1. now <= now
        BY DEF OrderInv
      <4>2. QED BY <2>5, <3>1, <3>2, <3>3, <3>4, <4>1
    <3>6. ASSUME NEW i \in DOMAIN order', NEW j \in DOMAIN order', i <= j
          PROVE  info'[order'[i]].first <= info'[order'[j]].first
      <4>1. CASE j = Len(order) + 1 /\ order'[j] = c
        BY <3>1, <3>5, <4>1
      <4>2. CASE j \in DOMAIN order /\ order'[j] = order[j]
        <5>1. i \in DOMAIN order /\ order'[i] = order[i]
          BY <3>4, <3>6, <4>2
        <5>2. info[order[i]].first <= info[order[j]].first
          BY <3>6, <4>2, <5>1 DEF OrderInv
        <5>3. QED BY <3>3, <4>2, <5>1, <5>2
      <4>3. QED BY <3>4, <4>1, <4>2
    <3>7. QED BY <2>1, <2>3, <2>4, <3>4, <3>5, <3>6 DEF OrderInv, Known
  <2>8. QED BY <2>6, <2>7
<1>6. CASE CleanupCache
  <2>1. /\ UNCHANGED <<now, adds, incoming>> /\ order' = Without(order, Removed)
        /\ info' = [h \in Hashes |-> IF h \in Removed THEN NoInfo ELSE info[h]]
    BY <1>6 DEF CleanupCache
  <2>2. Rest(order', order, Removed, Len(order), Hashes)
    BY <2>1, WithoutCorrect DEF OrderInv
  <2>3. \A i \in 1 .. Len(order) : i \in DOMAIN order /\ order[i] \in Hashes
    BY DEF OrderInv
  <2>4. DOMAIN info' = Hashes /\ \A h \in Hashes : info'[h] = NoInfo \/ info'[h] = info[h]
    BY <2>1
  <2>5. ASSUME NEW x, NEW y, Before(x, y, order, Removed, Len(order))
        PROVE  info'[x].id # 0 /\ info'[x].first <= info'[y].first
    <3>1. PICK k, l \in 1 .. Len(order) :
            k <= l /\ x = order[k] /\ y = order[l] /\ x \notin Removed /\ y \notin Removed
      BY <2>5 DEF Before
    <3>2. info'[x] = info[x] /\ info'[y] = info[y]
      BY <2>1, <2>3, <3>1
    <3>3. Known(x) /\ info[x].first <= info[y].first
      BY <2>3, <3>1 DEF OrderInv
    <3>4. QED BY <3>2, <3>3 DEF Known
  <2>6. \A i \in DOMAIN order' : i <= i
    BY <2>2 DEF Rest
  <2>7. /\ order' \in Seq(Hashes) /\ \A i \in DOMAIN order' : info'[order'[i]].id # 0
        /\ \A i, j \in DOMAIN order' : i <= j => info'[order'[i]].first <= info'[order'[j]].first
    BY <2>2, <2>5, <2>6 DEF Rest
  <2>8. \A h \in Hashes : info'[h].first \in Nat /\ info'[h].upd \in Nat
                          /\ info'[h].first <= info'[h].upd /\ info'[h].upd <= now
    <3>1. NoInfo.first = 0 /\ NoInfo.upd = 0 /\ 0 <= now
      BY DEF NoInfo, OrderInv
    <3>2. QED BY <2>4, <3>1 DEF OrderInv
  <2>9. QED BY <2>1, <2>4, <2>7, <2>8 DEF OrderInv, Known
<1>7. CASE FreePushed
  BY <1>1, <1>7 DEF FreePushed, OrderInv
<1>8. ASSUME NEW p \in Peers, DropPush(p) \/ PushOut(p)
      PROVE  OrderInv'
  BY <1>1, <1>8 DEF DropPush, PushOut, OrderInv
<1>9. QED BY <1>2, <1>3, <1>4, <1>5, <1>6, <1>7, <1>8 DEF Next

\* The walk of cleanup_cache ends early and still finds every ECM that got no CW
\* for max_cache_time, and only those, for any number of ECMs and any time-out.
THEOREM CleanupFindsAll == Spec => []CleanupExact
<1>1. Init => OrderInv
  BY OrderInit
<1>2. OrderInv /\ [Next]_vars => OrderInv'
  BY OrderStep
<1>3. OrderInv => CleanupExact
  BY WalkFindsAll
<1>4. QED BY <1>1, <1>2, <1>3, PTL DEF Spec
============================================================================
