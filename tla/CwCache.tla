------------------------------ MODULE CwCache ------------------------------
(***************************************************************************)
(* The cache of CWs (ncam-cache.c): add_cache counts how often each CW of  *)
(* an ECM arrived and sorts them by that count, check_cache gives out the  *)
(* first one, cleanup_cache frees the ECMs for which nothing arrived for   *)
(* max_cache_time.  A new CW is pushed to other servers: a job in the list *)
(* of each of them points to the CW and to the request it came with, which *)
(* cw_process frees from a list of its own.  Nothing counts these          *)
(* references: three time-outs must keep the job from using freed memory.  *)
(*                                                                         *)
(* Time is in seconds.  A thread takes no time between the unlock in       *)
(* add_cache and the push.  Not modelled: which clients a CW is pushed to  *)
(* (any set), the conditions under which check_cache keeps back the first  *)
(* CW, the check for late duplicates (cw_cache), free_cache at the end of  *)
(* the program, statistics, and the change of lock in cw_process, in which *)
(* a request may be lost from the list of pushed ones and is never freed.  *)
(***************************************************************************)
EXTENDS Integers, SequencesExt

CONSTANTS
    Hashes,      \* csp_hash: one for each ECM
    CWs,         \* different CWs that arrive for an ECM
    Peers,       \* the servers CWs are pushed to
    MaxCws,      \* different CWs stored for an ECM (10)
    Ctimeout,    \* cfg.ctimeout
    Default,     \* DEFAULT_MAX_CACHE_TIME
    CacheSection,\* ncam.conf has a [cache] section
    Unsigned,    \* the sort sees -1, returned as uint8_t, as 255 (armeabi-v7a)
    MaxLag,      \* bound: seconds from the receipt of a CW to add_cache
    MaxAdds,     \* bound: CWs that arrive
    MaxTime      \* bound: the clock

ASSUME TimeAssumption ==
    /\ {Ctimeout, Default, MaxLag, MaxTime, MaxAdds, MaxCws} \subseteq Nat /\ MaxLag <= 1
    /\ CacheSection \in BOOLEAN

VARIABLES
    now,
    adds,     \* CWs that arrived
    incoming, \* requests with a CW on the way to add_cache
    order,    \* ll_cache: the ECMs in the order they were created
    info,     \* each ECM: its entry, first_recv_time, upd_time and ll_cw
    jobs,     \* each peer: its push jobs
    pushed,   \* ecm_pushed_deleted: requests whose CW is in the cache
    freedEcm, freedEr  \* entries, with their CWs, and requests that were freed

vars == <<now, adds, incoming, order, info, jobs, pushed, freedEcm, freedEr>>

LgCount == 251658240   \* 0x0F000000

\* cache_fixups_fn, which runs only for a section that is in the file
\* (mutant: without the three seconds)
MutFixup(ctimeout) == ctimeout
Fixup(ctimeout) == ctimeout + 3
max_cache_time ==
    IF CacheSection /\ Default < Fixup(Ctimeout) THEN Fixup(Ctimeout) ELSE Default

NoInfo == [id |-> 0, first |-> 0, upd |-> 0, cws |-> <<>>]

\* The ECM is in ht_cache
Known(h) == info[h].id # 0

----------------------------------------------------------------------------
(* The sort: tommy_list_sort with count_sort *)

\* count_sort: a uint8_t, called as a function that returns int
count_sort(a, b) ==
    IF a.count = b.count THEN 0 ELSE IF a.count > b.count /\ ~Unsigned THEN -1 ELSE 1

\* mutant: the rest of the first chain is not linked
MutMergeLoop(s, t) ==
    LET merge[p \in (1 .. Len(s) + 1) \X (1 .. Len(t) + 1)] ==
            IF p[1] > Len(s) THEN SubSeq(t, p[2], Len(t))
            ELSE IF p[2] > Len(t) THEN <<>>
            ELSE IF count_sort(s[p[1]], t[p[2]]) > 0
            THEN <<t[p[2]]>> \o merge[<<p[1], p[2] + 1>>]
            ELSE <<s[p[1]]>> \o merge[<<p[1] + 1, p[2]>>]
    IN merge[<<1, 1>>]

\* tommy_chain_merge, from nodes p[1] and p[2] on: the second chain's node goes
\* in front of the first's while it is the smaller one
MergeLoop(s, t) ==
    LET merge[p \in (1 .. Len(s) + 1) \X (1 .. Len(t) + 1)] ==
            IF p[1] > Len(s) THEN SubSeq(t, p[2], Len(t))
            ELSE IF p[2] > Len(t) THEN SubSeq(s, p[1], Len(s))
            ELSE IF count_sort(s[p[1]], t[p[2]]) > 0
            THEN <<t[p[2]]>> \o merge[<<p[1], p[2] + 1>>]
            ELSE <<s[p[1]]>> \o merge[<<p[1] + 1, p[2]>>]
    IN merge[<<1, 1>>]

\* tommy_chain_merge_degenerated
Merge(s, t) ==
    IF count_sort(Last(s), Head(t)) <= 0 THEN s \o t
    ELSE IF count_sort(Last(t), Head(s)) < 0 THEN t \o s
    ELSE MergeLoop(s, t)

\* Bucket i holds 2^i nodes: the largest one filled with less than n nodes
BucketSizes(n) == {b \in 1 .. n - 1 : \A d \in 2 .. b : b % d = 0 => d % 2 = 0}
Half(n) == CHOOSE b \in BucketSizes(n) : \A c \in BucketSizes(n) : c <= b

\* tommy_chain_mergesort: what becomes of p[2] nodes from p[1] on
Sorted(s) ==
    LET sorted[p \in {q \in (1 .. Len(s)) \X (1 .. Len(s)) : q[1] + q[2] <= Len(s) + 1}] ==
            IF p[2] = 1 THEN <<s[p[1]]>>
            ELSE Merge(sorted[<<p[1], Half(p[2])>>],
                       sorted[<<p[1] + Half(p[2]), p[2] - Half(p[2])>>])
    IN sorted[<<1, Len(s)>>]

----------------------------------------------------------------------------
Init ==
    /\ now = 0 /\ adds = 0 /\ incoming = {} /\ order = <<>>
    /\ info = [h \in Hashes |-> NoInfo]
    /\ jobs = [p \in Peers |-> <<>>] /\ pushed = <<>>
    /\ freedEcm = {} /\ freedEr = {}

Tick ==
    /\ now < MaxTime
    /\ \A er \in incoming : now - er.tps < MaxLag
    /\ now' = now + 1
    /\ UNCHANGED <<adds, incoming, order, info, jobs, pushed, freedEcm, freedEr>>

\* A CW arrives from a reader or another server, locally generated or not
Receive(h, cw, lg) ==
    /\ adds < MaxAdds
    /\ adds' = adds + 1
    /\ incoming' = incoming \cup {[id |-> adds', hash |-> h, cw |-> cw, lg |-> lg, tps |-> now]}
    /\ UNCHANGED <<now, order, info, jobs, pushed, freedEcm, freedEr>>

\* The CW of the request in the list, a new one at the end if it was not there
Listed(er) == \E i \in DOMAIN info[er.hash].cws : info[er.hash].cws[i].cw = er.cw
WithCw(er) ==
    IF Listed(er) THEN info[er.hash].cws
    ELSE Append(info[er.hash].cws, [cw |-> er.cw, count |-> 0])

\* The count with the flag in it, which puts the CW in front of all others
Counted(c, lg) ==
    [c EXCEPT !.count = @ + 1 + (IF lg /\ c.count < LgCount THEN LgCount ELSE 0)]

\* The entry the CW goes to, and whether it takes no more CWs
Entry(er) ==
    IF Known(er.hash) THEN info[er.hash] ELSE [NoInfo EXCEPT !.id = er.id, !.first = now]
Full(er) == ~Listed(er) /\ Len(info[er.hash].cws) >= MaxCws

NewCws(er) ==
    LET cws == WithCw(er)
        i == CHOOSE k \in DOMAIN cws : cws[k].cw = er.cw
        counted == [cws EXCEPT ![i] = Counted(@, er.lg)]
    IN IF Full(er) THEN info[er.hash].cws
       ELSE IF counted[i].count > 1 THEN Sorted(counted) ELSE counted

\* add_cache, with the push to the peers that are to have it, and the request
\* put on the list of those whose CW is in the cache
AddCache(er, to) ==
    /\ er \in incoming
    /\ incoming' = incoming \ {er}
    /\ order' = IF Known(er.hash) THEN order ELSE Append(order, er.hash)
    /\ info' = [info EXCEPT ![er.hash] =
         [id |-> Entry(er).id, first |-> Entry(er).first, upd |-> now, cws |-> NewCws(er)]]
    /\ jobs' = [p \in Peers |->
         IF p \in to /\ ~Full(er)
         THEN Append(jobs[p], [ecm |-> Entry(er).id, er |-> er.id, time |-> now]) ELSE jobs[p]]
    /\ pushed' = <<[id |-> er.id, tps |-> er.tps]>> \o pushed
    /\ UNCHANGED <<now, adds, freedEcm, freedEr>>

----------------------------------------------------------------------------
(* cw_process *)

\* cleanup_cache walks the list up to the first ECM that is young enough
\* (mutant: it stops at one that was updated)
MutYoung(h) == now - info[h].upd <= max_cache_time
Young(h) == now - info[h].first <= max_cache_time
Walked ==
    {h \in Hashes :
       \E j \in DOMAIN order : order[j] = h /\ \A i \in 1 .. j : ~Young(order[i])}

Stale(h) == now - info[h].upd > max_cache_time
Removed == {h \in Walked : Stale(h)}

\* The list after those in R were taken off it
Without(s, R) ==
    LET kept[n \in 0 .. Len(s)] ==
            IF n = 0 THEN <<>>
            ELSE IF s[n] \in R THEN kept[n - 1] ELSE Append(kept[n - 1], s[n])
    IN kept[Len(s)]

CleanupCache ==
    /\ Removed # {}
    /\ order' = Without(order, Removed)
    /\ info' = [h \in Hashes |-> IF h \in Removed THEN NoInfo ELSE info[h]]
    /\ freedEcm' = freedEcm \cup {info[h].id : h \in Removed}
    /\ UNCHANGED <<now, adds, incoming, jobs, pushed, freedEr>>

\* The list of pushed requests is cut at the first one that is old enough
Old(er) == now - er.tps > Ctimeout + 3
FreePushed ==
    \E n \in DOMAIN pushed :
        /\ Old(pushed[n]) /\ \A k \in 1 .. n - 1 : ~Old(pushed[k])
        /\ pushed' = SubSeq(pushed, 1, n - 1)
        /\ freedEr' = freedEr \cup {pushed[i].id : i \in n .. Len(pushed)}
        /\ UNCHANGED <<now, adds, incoming, order, info, jobs, freedEcm>>

----------------------------------------------------------------------------
(* work_thread of a peer: ACTION_CACHE_PUSH_OUT *)

TooOld(job) == now - job.time > Ctimeout + 1

DropPush(p) ==
    /\ jobs[p] # <<>> /\ TooOld(Head(jobs[p]))
    /\ jobs' = [jobs EXCEPT ![p] = Tail(@)]
    /\ UNCHANGED <<now, adds, incoming, order, info, pushed, freedEcm, freedEr>>

\* cacheex_push_out, and check_is_pushed for the CW
PushOut(p) ==
    /\ jobs[p] # <<>> /\ ~TooOld(Head(jobs[p]))
    /\ jobs' = [jobs EXCEPT ![p] = Tail(@)]
    /\ UNCHANGED <<now, adds, incoming, order, info, pushed, freedEcm, freedEr>>

----------------------------------------------------------------------------
Next ==
    \/ Tick
    \/ \E h \in Hashes, cw \in CWs, lg \in BOOLEAN : Receive(h, cw, lg)
    \/ \E er \in incoming : \E to \in SUBSET Peers : AddCache(er, to)
    \/ CleanupCache \/ FreePushed
    \/ \E p \in Peers : DropPush(p) \/ PushOut(p)

Spec == Init /\ [][Next]_vars

----------------------------------------------------------------------------
(* Properties *)

Job == [ecm : Nat, er : Nat, time : Nat]

\* Jobs and pushed requests name what they point to, and entries have numbers
\* of requests that were received.
TypeOK ==
    /\ now \in Nat /\ adds \in Nat
    /\ DOMAIN info = Hashes
    /\ \A h \in Hashes : info[h].id \in 0 .. adds
    /\ jobs \in [Peers -> Seq(Job)]
    /\ pushed \in Seq([id : Nat, tps : Nat])

\* "sort cw_list by counter (DESC order)": the first CW of an ECM, the one
\* check_cache gives out, is one of those that arrived most often.  It does not
\* hold where the caller of count_sort does not see its sign.
MostVotes ==
    \A h \in Hashes : \A i \in DOMAIN info[h].cws : info[h].cws[i].count <= info[h].cws[1].count

\* Whatever the caller of count_sort sees, also when it makes either of two CWs
\* the smaller one, adding and sorting lose no CW and no vote of an ECM that
\* stays in the cache, and no CW is there twice.
CwsKept ==
    [][\A h \in Hashes :
         /\ \A i, j \in DOMAIN info'[h].cws : info'[h].cws[i].cw = info'[h].cws[j].cw => i = j
         /\ info'[h].id = info[h].id =>
              \A c \in ToSet(info[h].cws) :
                 \E d \in ToSet(info'[h].cws) : d.cw = c.cw /\ d.count >= c.count]_vars

\* A push job that work_thread will run points to memory that is still there:
\* its CW was not freed by cleanup_cache, nor its request by cw_process.
NoFreedPush ==
    \A p \in Peers : \A i \in DOMAIN jobs[p] :
        ~TooOld(jobs[p][i]) => jobs[p][i].ecm \notin freedEcm /\ jobs[p][i].er \notin freedEr

\* The walk of cleanup_cache ends at the first ECM it need not look at, and
\* still reaches all ECMs that got no CW for max_cache_time, and only them.
CleanupExact == Removed = {h \in ToSet(order) : now - info[h].upd > max_cache_time}
============================================================================
