--------------------------- MODULE EcmPendingProofs ---------------------------
(***************************************************************************)
(* Requests that hang on one another, for any number of requests, of       *)
(* threads of the reader, and any client time-out: none is forgotten when  *)
(* the one it hangs on is answered; none is freed that a thread will yet   *)
(* look at; of equal ECMs one at a time is sent.  And where the reader has *)
(* a socket they never wait in a circle, and none is lost that was marked  *)
(* as pending.                                                             *)
(*                                                                         *)
(* A circle would have to be closed by a request that hangs on one which   *)
(* hangs on another: a host hangs on nobody when the search finds it, and  *)
(* with a socket only one thread at a time makes requests hang, and is     *)
(* busy with the one it found until it is attached.                        *)
(*                                                                         *)
(* Nothing counts the pointers to a request, so the second claim is a sum  *)
(* of time limits.  AgeInv has one clause for each place that holds a      *)
(* request and says how old it can be there; the oldest, a request that    *)
(* hung on its host for long before the answer is handed on to it, is at   *)
(* most 3 * ctimeout + 4 seconds old, and what is freed is older than      *)
(* 3 * ctimeout + 8.                                                       *)
(***************************************************************************)
EXTENDS EcmPending, TLAPS

\* What a thread of the reader found is another request
FoundInv ==
    \A t \in ReaderThreads :
        \/ found[t] = <<>>
        \/ \E r \in inserted : \E h \in Requests :
             found[t] = <<r, h>> /\ r # h /\ todo[t] = <<>>

\* With a socket one thread at a time has found one, and that hangs on nobody
AloneInv ==
    socket => \A t \in ReaderThreads : found[t] # <<>> =>
        /\ ~ea[found[t][2]].is_pending
        /\ \A u \in ReaderThreads \ {t} : found[u] = <<>>

\* prv is still in the list
CuttingInv ==
    \/ cutting = <<>>
    \/ \E r \in Requests : cutting = <<r, NoRequest>>
    \/ \E r \in Requests : \E i \in DOMAIN order : cutting = <<r, order[i]>>

HangInv ==
    /\ \A h \in Requests : \A r \in ToSet(ea[h].pending) : ea[r].is_pending /\ r \in inserted
    /\ \A r \in Requests : ea[r].is_pending => r \in inserted

IInv == /\ TypeOK /\ FoundInv /\ AloneInv /\ CuttingInv /\ HangInv
        /\ NoWaitCircle /\ NoPendingForgotten

ToDo(r) == \E t \in Threads : \E i \in DOMAIN todo[t] : todo[t][i].er = r
Attached(r) == \E h \in Requests : r \in ToSet(ea[h].pending)

----------------------------------------------------------------------------
\* The pending requests of an answer become entries to hand on.
LEMMA HandOn ==
    ASSUME NEW pending \in Seq(Requests), NEW rc \in Codes, NEW rest \in Seq(Handed)
    PROVE  LET s == [i \in DOMAIN pending |-> [er |-> pending[i], rc |-> rc]] \o rest
           IN /\ s \in Seq(Handed)
              /\ \A r \in ToSet(pending) : \E i \in DOMAIN s : s[i].er = r
              /\ \A j \in DOMAIN rest : \E i \in DOMAIN s : s[i] = rest[j]
<1> DEFINE new == [i \in DOMAIN pending |-> [er |-> pending[i], rc |-> rc]]
           s == new \o rest
<1>1. DOMAIN pending = 1 .. Len(pending) /\ Len(pending) \in Nat
  OBVIOUS
<1>2. \A i \in 1 .. Len(pending) : [er |-> pending[i], rc |-> rc] \in Handed
  BY DEF Handed
<1>3. new \in Seq(Handed) /\ Len(new) = Len(pending) /\ \A i \in 1 .. Len(pending) : new[i].er = pending[i]
  BY <1>1, <1>2
<1> HIDE DEF new
<1>4. s \in Seq(Handed) /\ Len(s) = Len(pending) + Len(rest) /\ DOMAIN s = 1 .. Len(s)
      /\ DOMAIN rest = 1 .. Len(rest) /\ Len(rest) \in Nat
  BY <1>3
<1>5. \A i \in 1 .. Len(pending) : i \in DOMAIN s /\ s[i] = new[i]
  BY <1>1, <1>3, <1>4
<1>6. \A j \in 1 .. Len(rest) : Len(pending) + j \in DOMAIN s /\ s[Len(pending) + j] = rest[j]
  BY <1>1, <1>3, <1>4
<1>7. \A r \in ToSet(pending) : \E i \in 1 .. Len(pending) : r = pending[i]
  BY <1>1 DEF ToSet
<1>8. \A r \in ToSet(pending) : \E i \in DOMAIN s : s[i].er = r
  BY <1>3, <1>5, <1>7
<1>9. \A j \in DOMAIN rest : \E i \in DOMAIN s : s[i] = rest[j]
  BY <1>4, <1>6
<1>10. QED BY <1>4, <1>8, <1>9 DEF new

\* write_ecm_answer: nothing but rc changes in the answers; what the thread has
\* yet to hand on is kept, but for the request it writes, and an answer that is
\* written brings those that hang on it.
LEMMA WriteAnswer ==
    ASSUME TypeOK, NEW t \in Threads, NEW r \in Requests, NEW rc \in Codes,
           NEW rest \in Seq(Handed), Write(t, r, rc, rest),
           \A i \in DOMAIN todo[t] : todo[t][i].er = r \/ \E j \in DOMAIN rest : rest[j] = todo[t][i]
    PROVE  /\ ea' \in [Requests -> AnswerRecord] /\ todo' \in [Threads -> Seq(Handed)]
           /\ \A x \in Requests : /\ ea'[x].pending = ea[x].pending
                                  /\ ea'[x].is_pending = ea[x].is_pending
                                  /\ Answered(x) => Answered(x)'
                                  /\ ToDo(x) => ToDo(x)' \/ x = r
                                  /\ Answered(x)' => \/ Answered(x)
                                                     \/ \A y \in ToSet(ea[x].pending) : ToDo(y)'
           /\ Answered(r)' \/ ~InTime(r)
           /\ \A x \in Threads \ {t} : todo'[x] = todo[x]
<1> DEFINE s == [i \in DOMAIN ea[r].pending |-> [er |-> ea[r].pending[i], rc |-> rc]] \o rest
<1>1. /\ ea \in [Requests -> AnswerRecord] /\ todo \in [Threads -> Seq(Handed)]
      /\ ea[r].pending \in Seq(Requests)
  BY DEF TypeOK, AnswerRecord
<1>2. /\ s \in Seq(Handed)
      /\ \A x \in ToSet(ea[r].pending) : \E i \in DOMAIN s : s[i].er = x
      /\ \A j \in DOMAIN rest : \E i \in DOMAIN s : s[i] = rest[j]
  BY <1>1, HandOn
<1>3. \/ ea' = ea /\ todo' = [todo EXCEPT ![t] = rest] /\ (~InTime(r) \/ Answered(r))
      \/ ea' = [ea EXCEPT ![r].rc = rc] /\ todo' = [todo EXCEPT ![t] = s]
  BY DEF Write
<1> HIDE DEF s
<1>4. CASE ea' = ea /\ todo' = [todo EXCEPT ![t] = rest] /\ (~InTime(r) \/ Answered(r))
  <2>1. todo'[t] = rest /\ \A x \in Threads \ {t} : todo'[x] = todo[x]
    BY <1>1, <1>4
  <2>2. \A x \in Requests : ToDo(x) => ToDo(x)' \/ x = r
    BY <2>1 DEF ToDo
  <2>3. QED BY <1>1, <1>4, <2>1, <2>2 DEF Answered
<1>5. CASE ea' = [ea EXCEPT ![r].rc = rc] /\ todo' = [todo EXCEPT ![t] = s]
  <2>1. todo'[t] = s /\ \A x \in Threads \ {t} : todo'[x] = todo[x]
    BY <1>1, <1>5
  <2>2. \A x \in Requests : ToDo(x) => ToDo(x)' \/ x = r
    <3>1. \A i \in DOMAIN todo[t] : todo[t][i].er = r \/ \E j \in DOMAIN s : s[j] = todo[t][i]
      BY <1>2
    <3>2. QED BY <2>1, <3>1 DEF ToDo
  <2>3. \A x \in ToSet(ea[r].pending) : ToDo(x)'
    BY <1>2, <2>1 DEF ToDo
  <2>4. /\ ea' \in [Requests -> AnswerRecord]
        /\ \A x \in Requests : ea'[x].pending = ea[x].pending /\ ea'[x].is_pending = ea[x].is_pending
        /\ \A x \in Requests \ {r} : ea'[x] = ea[x]
        /\ ea'[r].rc = rc
    BY <1>1, <1>5 DEF AnswerRecord, Codes
  <2>5. rc # "UNHANDLED"
    BY DEF Codes
  <2>6. Answered(r)' /\ \A x \in Requests \ {r} : Answered(x)' = Answered(x)
    BY <2>4, <2>5 DEF Answered
  <2>7. todo' \in [Threads -> Seq(Handed)]
    BY <1>1, <1>2, <1>5
  <2>8. QED BY <2>1, <2>2, <2>3, <2>4, <2>6, <2>7
<1>6. QED BY <1>3, <1>4, <1>5

----------------------------------------------------------------------------
\* A step that leaves pending, is_pending and rc of all answers alone.
LEMMA SameAnswers ==
    ASSUME HangInv, NoWaitCircle, NoPendingForgotten, UNCHANGED <<socket, todo>>,
           \A x \in Requests : /\ ea'[x].pending = ea[x].pending
                               /\ ea'[x].is_pending = ea[x].is_pending
                               /\ ea'[x].rc = ea[x].rc,
           \A x \in inserted : x \in inserted' /\ (InTime(x)' => InTime(x)),
           \A x \in Requests : Joining(x) => Joining(x)',
           \A h \in Requests : ToSet(ea[h].pending) \subseteq Requests
    PROVE  HangInv' /\ NoWaitCircle' /\ NoPendingForgotten'
<1>1. /\ \A h \in Requests : ToSet(ea'[h].pending) = ToSet(ea[h].pending)
      /\ \A x \in Requests : (Answered(x)' <=> Answered(x)) /\ (ToDo(x)' <=> ToDo(x))
  BY DEF Answered, ToDo
<1>2. HangInv'
  BY <1>1 DEF HangInv
<1>3. NoWaitCircle'
  BY <1>1 DEF NoWaitCircle, NoCircleAnywhere
<1>4. NoPendingForgotten'
  <2>1. ASSUME NEW h \in Requests, NEW x \in ToSet(ea'[h].pending), Answered(h)'
        PROVE  Served(x)'
    <3>1. Served(x) /\ x \in Requests /\ x \in inserted
      BY <1>1, <2>1 DEF NoPendingForgotten, HangInv
    <3>2. QED BY <1>1, <3>1 DEF Served, ToDo
  <2>2. ASSUME socket, NEW x \in Requests, ea'[x].is_pending
        PROVE  Served(x)' \/ Joining(x)' \/ Attached(x)'
    <3>1. x \in inserted /\ (Served(x) \/ Joining(x) \/ Attached(x))
      BY <2>2 DEF NoPendingForgotten, HangInv, Attached
    <3>2. Served(x) => Served(x)'
      BY <1>1, <3>1 DEF Served, ToDo
    <3>3. Attached(x) => Attached(x)'
      BY <1>1 DEF Attached
    <3>4. QED BY <3>1, <3>2, <3>3
  <2>3. QED BY <2>1, <2>2 DEF NoPendingForgotten, Attached
<1>5. QED BY <1>2, <1>3, <1>4

\* What hangs on a request is a request.
LEMMA PendingType ==
    ASSUME TypeOK, NEW h \in Requests
    PROVE  /\ ea[h] \in AnswerRecord /\ ea[h].pending \in Seq(Requests)
           /\ ToSet(ea[h].pending) \subseteq Requests
<1>1. ea[h] \in AnswerRecord
  BY DEF TypeOK
<1>2. ea[h].pending \in Seq(Requests)
  BY <1>1 DEF AnswerRecord
<1>3. \A i \in DOMAIN ea[h].pending : ea[h].pending[i] \in Requests
  BY <1>2
<1>4. QED BY <1>1, <1>2, <1>3 DEF ToSet

LEMMA InitHolds ==
    Init => IInv
<1> SUFFICES ASSUME Init PROVE IInv
  OBVIOUS
<1>1. \A h \in Requests : ea[h] = NoAnswer /\ ToSet(ea[h].pending) = {}
  BY DEF Init, NoAnswer, ToSet
<1>2. NoAnswer \in AnswerRecord
  BY DEF NoAnswer, AnswerRecord
<1>3. TypeOK
  BY <1>2, SocketAssumption DEF Init, TypeOK, Job
<1>4. NoWaitCircle /\ NoPendingForgotten /\ HangInv
  <2>1. ASSUME NEW S \in (SUBSET Requests) \ {{}}
        PROVE  \E r \in S : \A h \in S : r \notin ToSet(ea[h].pending)
    <3>1. PICK r \in S : TRUE
      OBVIOUS
    <3>2. \A h \in S : h \in Requests
      OBVIOUS
    <3>3. QED BY <1>1, <3>1, <3>2
  <2>2. ~NoAnswer.is_pending
    BY DEF NoAnswer
  <2>3. QED BY <1>1, <2>1, <2>2 DEF NoWaitCircle, NoCircleAnywhere, NoPendingForgotten, HangInv
<1>5. QED BY <1>3, <1>4 DEF Init, IInv, FoundInv, AloneInv, CuttingInv

LEMMA TickStep ==
    ASSUME IInv, Tick
    PROVE  IInv'
<1>1. now \in Nat /\ now' = now + 1 /\ Ctimeout \in Nat
      /\ UNCHANGED <<socket, tps, inserted, order, ea, queue, tasks, found, todo, cutting>>
  BY TimeAssumption DEF Tick, IInv, TypeOK
<1>2. \A x \in inserted : InTime(x)' => InTime(x)
  BY <1>1 DEF InTime, Age, IInv, TypeOK
<1>3. HangInv' /\ NoWaitCircle' /\ NoPendingForgotten'
  BY <1>1, <1>2, SameAnswers, PendingType DEF IInv, Joining
<1>4. TypeOK' /\ FoundInv' /\ AloneInv' /\ CuttingInv'
  BY <1>1 DEF IInv, TypeOK, FoundInv, AloneInv, CuttingInv
<1>5. QED BY <1>3, <1>4 DEF IInv

LEMMA ReceiveStep ==
    ASSUME IInv, NEW r \in Requests, Receive(r)
    PROVE  IInv'
<1>1. r \notin DOMAIN tps /\ tps' = [x \in DOMAIN tps \cup {r} |-> IF x = r THEN now ELSE tps[x]]
      /\ UNCHANGED <<socket, now, inserted, order, ea, queue, tasks, found, todo, cutting>>
  BY DEF Receive
<1>2. DOMAIN tps' = DOMAIN tps \cup {r} /\ tps'[r] = now /\ \A x \in DOMAIN tps : tps'[x] = tps[x]
  BY <1>1
<1>3. \A x \in inserted : InTime(x)' => InTime(x)
  BY <1>1, <1>2 DEF InTime, Age, IInv, TypeOK
<1>4. HangInv' /\ NoWaitCircle' /\ NoPendingForgotten'
  BY <1>1, <1>3, SameAnswers, PendingType DEF IInv, Joining
<1>5. TypeOK' /\ FoundInv' /\ AloneInv' /\ CuttingInv'
  BY <1>1, <1>2 DEF IInv, TypeOK, FoundInv, AloneInv, CuttingInv
<1>6. QED BY <1>4, <1>5 DEF IInv

LEMMA InsertStep ==
    ASSUME IInv, NEW r \in Requests, Insert(r)
    PROVE  IInv'
<1>1. /\ r \in DOMAIN tps /\ inserted' = inserted \cup {r} /\ order' = <<r>> \o order
      /\ order \in Seq(Requests)
      /\ UNCHANGED <<socket, now, tps, ea, queue, tasks, found, todo, cutting>>
  BY DEF Insert, IInv, TypeOK
<1>2. /\ order' \in Seq(Requests)
      /\ \A i \in DOMAIN order : i + 1 \in DOMAIN order' /\ order'[i + 1] = order[i]
  BY <1>1
<1>3. HangInv' /\ NoWaitCircle' /\ NoPendingForgotten'
  BY <1>1, SameAnswers, PendingType DEF IInv, InTime, Age, Joining
<1>4. TypeOK' /\ FoundInv' /\ AloneInv'
  BY <1>1, <1>2 DEF IInv, TypeOK, FoundInv, AloneInv
<1>5. CuttingInv'
  <2>1. CASE \E x \in Requests : \E i \in DOMAIN order : cutting = <<x, order[i]>>
    <3>1. PICK x \in Requests, i \in DOMAIN order : cutting = <<x, order[i]>>
      BY <2>1
    <3>2. i + 1 \in DOMAIN order' /\ cutting' = <<x, order'[i + 1]>>
      BY <1>1, <1>2, <3>1
    <3>3. QED BY <3>2 DEF CuttingInv
  <2>2. QED BY <1>1, <2>1 DEF IInv, CuttingInv
<1>6. QED BY <1>3, <1>4, <1>5 DEF IInv

LEMMA AskStep ==
    ASSUME IInv, NEW r \in Requests, Ask(r)
    PROVE  IInv'
<1> DEFINE job == [er |-> r, time |-> now]
<1>1. /\ r \in inserted /\ ea' = [ea EXCEPT ![r].sent = TRUE] /\ queue' = Append(queue, job)
      /\ UNCHANGED <<socket, now, tps, inserted, order, tasks, found, todo, cutting>>
  BY DEF Ask
<1>2. job \in Job /\ job.er = r
  BY DEF Job, IInv, TypeOK
<1> HIDE DEF job
<1>3. queue' \in Seq(Job) /\ \A i \in DOMAIN queue' : queue'[i].er \in inserted
  <2>1. queue \in Seq(Job) /\ \A i \in DOMAIN queue : queue[i].er \in inserted
    BY DEF IInv, TypeOK
  <2>2. QED BY <1>1, <1>2, <2>1
<1>4. /\ ea' \in [Requests -> AnswerRecord]
      /\ \A x \in Requests : ea'[x].pending = ea[x].pending /\ ea'[x].is_pending = ea[x].is_pending
                             /\ ea'[x].rc = ea[x].rc
  BY <1>1 DEF IInv, TypeOK, AnswerRecord
<1>5. HangInv' /\ NoWaitCircle' /\ NoPendingForgotten'
  BY <1>1, <1>4, SameAnswers, PendingType DEF IInv, InTime, Age, Joining
<1>6. TypeOK' /\ CuttingInv'
  BY <1>1, <1>3, <1>4 DEF IInv, TypeOK, CuttingInv
<1>7. FoundInv' /\ AloneInv'
  <2>1. \A t \in ReaderThreads : found[t] # <<>> => found[t][2] \in Requests
    BY DEF IInv, FoundInv
  <2>2. QED BY <1>1, <1>4, <2>1 DEF IInv, FoundInv, AloneInv
<1>8. QED BY <1>5, <1>6, <1>7 DEF IInv

----------------------------------------------------------------------------
(* The steps that write an answer *)

LEMMA WriteKeeps ==
    ASSUME IInv, NEW t \in Threads, NEW r \in Requests, NEW rc \in Codes,
           NEW rest \in Seq(Handed), Write(t, r, rc, rest),
           \A i \in DOMAIN todo[t] : todo[t][i].er = r \/ \E j \in DOMAIN rest : rest[j] = todo[t][i],
           \A x \in Requests : Joining(x) => Joining(x)' \/ x = r,
           UNCHANGED <<socket, now, tps, inserted>>
    PROVE  /\ ea' \in [Requests -> AnswerRecord] /\ todo' \in [Threads -> Seq(Handed)]
           /\ \A x \in Requests : ea'[x].is_pending = ea[x].is_pending
           /\ \A x \in Threads \ {t} : todo'[x] = todo[x]
           /\ HangInv' /\ NoWaitCircle' /\ NoPendingForgotten'
<1>1. TypeOK /\ HangInv
  BY DEF IInv
<1>2. /\ ea' \in [Requests -> AnswerRecord] /\ todo' \in [Threads -> Seq(Handed)]
      /\ \A x \in Requests : /\ ea'[x].pending = ea[x].pending
                             /\ ea'[x].is_pending = ea[x].is_pending
                             /\ Answered(x) => Answered(x)'
                             /\ ToDo(x) => ToDo(x)' \/ x = r
                             /\ Answered(x)' => \/ Answered(x)
                                                \/ \A y \in ToSet(ea[x].pending) : ToDo(y)'
      /\ Answered(r)' \/ ~InTime(r)
      /\ \A x \in Threads \ {t} : todo'[x] = todo[x]
  BY <1>1, WriteAnswer
<1>3. \A h \in Requests : ToSet(ea'[h].pending) = ToSet(ea[h].pending) /\ ToSet(ea[h].pending) \subseteq Requests
  BY <1>1, <1>2, PendingType
<1>4. HangInv'
  BY <1>2, <1>3 DEF IInv, HangInv
<1>5. NoWaitCircle'
  BY <1>3 DEF IInv, NoWaitCircle, NoCircleAnywhere
<1>6. NoPendingForgotten'
  <2>1. \A x \in Requests : Served(x) \/ x = r => Served(x)'
    BY <1>2 DEF Served, ToDo, InTime, Age
  <2>2. ASSUME NEW h \in Requests, NEW x \in ToSet(ea[h].pending), Answered(h)'
        PROVE  Served(x)'
    <3>1. CASE Answered(h)
      BY <1>3, <2>1, <3>1 DEF IInv, NoPendingForgotten
    <3>2. CASE ~Answered(h)
      BY <1>2, <2>2, <3>2 DEF Served, ToDo
    <3>3. QED BY <3>1, <3>2
  <2>3. ASSUME socket, NEW x \in Requests, ea'[x].is_pending
        PROVE  Served(x)' \/ Joining(x)' \/ Attached(x)'
    <3>1. Served(x) \/ Joining(x) \/ Attached(x)
      BY <1>2, <2>3 DEF IInv, NoPendingForgotten, Attached
    <3>2. Attached(x) => Attached(x)'
      BY <1>3 DEF Attached
    <3>3. QED BY <2>1, <3>1, <3>2
  <2>4. QED BY <1>3, <2>2, <2>3 DEF NoPendingForgotten, Attached
<1>7. QED BY <1>2, <1>4, <1>5, <1>6

LEMMA WriteStep ==
    ASSUME IInv, NEW t \in Threads, NEW r \in Requests, NEW rc \in Codes,
           NEW rest \in Seq(Handed), Write(t, r, rc, rest),
           \A i \in DOMAIN todo[t] : todo[t][i].er = r \/ \E j \in DOMAIN rest : rest[j] = todo[t][i],
           t \in ReaderThreads => found[t] = <<>>,
           tasks' \subseteq tasks,
           UNCHANGED <<socket, now, tps, inserted, order, queue, found, cutting>>
    PROVE  IInv'
<1>1. /\ ea' \in [Requests -> AnswerRecord] /\ todo' \in [Threads -> Seq(Handed)]
      /\ \A x \in Requests : ea'[x].is_pending = ea[x].is_pending
      /\ \A x \in Threads \ {t} : todo'[x] = todo[x]
      /\ HangInv' /\ NoWaitCircle' /\ NoPendingForgotten'
  BY WriteKeeps DEF Joining
<1>2. TypeOK' /\ CuttingInv'
  BY <1>1 DEF IInv, TypeOK, CuttingInv
<1>3. FoundInv' /\ AloneInv'
  <2>1. \A u \in ReaderThreads : found[u] # <<>> => found[u][2] \in Requests
    BY DEF IInv, FoundInv
  <2>2. QED BY <1>1, <2>1 DEF IInv, FoundInv, AloneInv, Threads
<1>4. QED BY <1>1, <1>2, <1>3 DEF IInv

\* The rest of what a thread has to hand on.
LEMMA RestOf ==
    ASSUME NEW s \in Seq(Handed), s # <<>>
    PROVE  /\ Head(s).er \in Requests /\ Head(s).rc \in Codes /\ Tail(s) \in Seq(Handed)
           /\ \A i \in DOMAIN s : s[i].er = Head(s).er \/ \E j \in DOMAIN Tail(s) : Tail(s)[j] = s[i]
<1>1. Head(s) = s[1] /\ s[1] \in Handed /\ Tail(s) \in Seq(Handed) /\ Len(Tail(s)) = Len(s) - 1
      /\ DOMAIN s = 1 .. Len(s) /\ DOMAIN Tail(s) = 1 .. Len(s) - 1 /\ Len(s) \in Nat
  OBVIOUS
<1>2. \A i \in 2 .. Len(s) : i - 1 \in DOMAIN Tail(s) /\ Tail(s)[i - 1] = s[i]
  BY <1>1
<1>3. \A i \in DOMAIN s : i = 1 \/ i \in 2 .. Len(s)
  BY <1>1
<1>4. QED BY <1>1, <1>2, <1>3 DEF Handed

LEMMA DistributeStep ==
    ASSUME IInv, NEW t \in Threads, Distribute(t)
    PROVE  IInv'
<1> DEFINE r == Head(todo[t]).er
           rc == Shared(Head(todo[t]).rc)
<1>1. todo[t] \in Seq(Handed) /\ todo[t] # <<>>
  BY DEF Distribute, IInv, TypeOK
<1>2. /\ r \in Requests /\ rc \in Codes /\ Tail(todo[t]) \in Seq(Handed)
      /\ \A i \in DOMAIN todo[t] : todo[t][i].er = r \/ \E j \in DOMAIN Tail(todo[t]) : Tail(todo[t])[j] = todo[t][i]
  BY <1>1, RestOf DEF Shared, Codes
<1>3. t \in ReaderThreads => found[t] = <<>>
  BY <1>1 DEF IInv, FoundInv
<1>4. Write(t, r, rc, Tail(todo[t])) /\ UNCHANGED <<socket, now, tps, inserted, order, queue, tasks, found, cutting>>
  BY DEF Distribute
<1> HIDE DEF r, rc
<1>5. QED BY <1>2, <1>3, <1>4, WriteStep

\* The reader's thread, and that of a client, have nothing to hand on when they
\* write an answer of their own.
LEMMA AnswerStep ==
    ASSUME IInv, NEW t \in ReaderThreads, NEW r \in Requests,
           NEW rc \in {"FOUND", "NOTFOUND"}, Answer(t, r, rc)
    PROVE  IInv'
<1>1. /\ todo[t] = <<>> /\ found[t] = <<>> /\ tasks' = tasks \ {r} /\ Write(t, r, rc, <<>>)
      /\ UNCHANGED <<socket, now, tps, inserted, order, queue, found, cutting>>
  BY DEF Answer, Takes, Idle
<1>2. t \in Threads /\ rc \in Codes /\ <<>> \in Seq(Handed)
  BY DEF Threads, Codes
<1>3. QED BY <1>1, <1>2, WriteStep

LEMMA EcmTimeoutStep ==
    ASSUME IInv, NEW r \in Requests, EcmTimeout(r)
    PROVE  IInv'
<1>1. /\ todo[r] = <<>> /\ Write(r, r, "TIMEOUT", <<>>)
      /\ UNCHANGED <<socket, now, tps, inserted, order, queue, tasks, found, cutting>>
  BY DEF EcmTimeout, Idle
<1>2. r \in Threads /\ r \notin ReaderThreads /\ "TIMEOUT" \in Codes /\ <<>> \in Seq(Handed)
  BY NamesAssumption DEF Threads, Codes
<1>3. QED BY <1>1, <1>2, WriteStep

----------------------------------------------------------------------------
(* The reader *)

LEMMA QueueTail ==
    ASSUME TypeOK, queue # <<>>
    PROVE  /\ Head(queue).er \in inserted /\ Tail(queue) \in Seq(Job)
           /\ \A i \in DOMAIN Tail(queue) : Tail(queue)[i].er \in inserted
<1>1. queue \in Seq(Job) /\ \A i \in DOMAIN queue : queue[i].er \in inserted
  BY DEF TypeOK
<1>2. /\ 1 \in DOMAIN queue /\ Head(queue) = queue[1] /\ Tail(queue) \in Seq(Job)
      /\ \A i \in DOMAIN Tail(queue) : i + 1 \in DOMAIN queue /\ Tail(queue)[i] = queue[i + 1]
  BY <1>1
<1>3. QED BY <1>1, <1>2

LEMMA DropRequestStep ==
    ASSUME IInv, DropRequest
    PROVE  IInv'
<1>1. queue # <<>> /\ queue' = Tail(queue)
      /\ UNCHANGED <<socket, now, tps, inserted, order, ea, tasks, found, todo, cutting>>
  BY DEF DropRequest
<1>2. HangInv' /\ NoWaitCircle' /\ NoPendingForgotten'
  BY <1>1, SameAnswers, PendingType DEF IInv, InTime, Age, Joining
<1>3. TypeOK' /\ FoundInv' /\ AloneInv' /\ CuttingInv'
  BY <1>1, QueueTail DEF IInv, TypeOK, FoundInv, AloneInv, CuttingInv
<1>4. QED BY <1>2, <1>3 DEF IInv

LEMMA GetEcmStep ==
    ASSUME IInv, NEW t \in ReaderThreads, GetEcm(t)
    PROVE  IInv'
<1> DEFINE r == Head(queue).er
<1>1. /\ queue # <<>> /\ queue' = Tail(queue) /\ todo[t] = <<>> /\ found[t] = <<>>
      /\ socket => \A u \in ReaderThreads : found[u] = <<>>
      /\ UNCHANGED <<socket, now, tps, inserted, order, ea, todo, cutting>>
  BY DEF GetEcm, Takes, Idle
<1>2. \/ \E i \in HostsFor(r) : found' = [found EXCEPT ![t] = <<r, order[i]>>] /\ tasks' = tasks
      \/ tasks' \in {tasks, tasks \cup {r}} /\ found' = found
  BY DEF GetEcm
<1>3. /\ r \in inserted /\ r \in Requests /\ Tail(queue) \in Seq(Job)
      /\ \A i \in DOMAIN Tail(queue) : Tail(queue)[i].er \in inserted
  BY <1>1, QueueTail DEF IInv, TypeOK
<1> HIDE DEF r
<1>4. CASE \E i \in HostsFor(r) : found' = [found EXCEPT ![t] = <<r, order[i]>>] /\ tasks' = tasks
  <2>1. PICK i \in HostsFor(r) : found' = [found EXCEPT ![t] = <<r, order[i]>>]
    BY <1>4
  <2>2. i \in DOMAIN order /\ order[i] # r /\ ~ea[order[i]].is_pending
    BY <2>1 DEF HostsFor, Seen, Host
  <2>3. order[i] \in Requests /\ found \in [ReaderThreads -> Seq(Requests)]
    BY <2>2 DEF IInv, TypeOK
  <2>4. /\ found' \in [ReaderThreads -> Seq(Requests)] /\ found'[t] = <<r, order[i]>>
        /\ \A u \in ReaderThreads \ {t} : found'[u] = found[u]
    BY <1>3, <2>1, <2>3
  <2>5. found'[t][2] = order[i]
    BY <2>4
  <2>6. FoundInv' /\ AloneInv'
    BY <1>1, <1>3, <2>2, <2>3, <2>4, <2>5 DEF IInv, FoundInv, AloneInv
  <2>7. \A x \in Requests : Joining(x) => Joining(x)'
    BY <1>1, <2>4 DEF Joining
  <2>8. HangInv' /\ NoWaitCircle' /\ NoPendingForgotten'
    BY <1>1, <2>7, SameAnswers, PendingType DEF IInv, InTime, Age
  <2>9. TypeOK' /\ CuttingInv'
    BY <1>1, <1>3, <1>4, <2>4 DEF IInv, TypeOK, CuttingInv
  <2>10. QED BY <2>6, <2>8, <2>9 DEF IInv
<1>5. CASE tasks' \in {tasks, tasks \cup {r}} /\ found' = found
  <2>1. HangInv' /\ NoWaitCircle' /\ NoPendingForgotten'
    BY <1>1, <1>5, SameAnswers, PendingType DEF IInv, InTime, Age, Joining
  <2>2. TypeOK' /\ FoundInv' /\ AloneInv' /\ CuttingInv'
    BY <1>1, <1>3, <1>5 DEF IInv, TypeOK, FoundInv, AloneInv, CuttingInv
  <2>3. QED BY <2>1, <2>2 DEF IInv
<1>6. QED BY <1>2, <1>4, <1>5

\* Marked as pending, a request is no host any more; with a socket no other
\* thread has found it.
LEMMA MarkStep ==
    ASSUME IInv, NEW t \in ReaderThreads, Mark(t)
    PROVE  IInv'
<1>1. PICK r \in inserted, h \in Requests : found[t] = <<r, h>> /\ r # h
  BY DEF Mark, IInv, FoundInv
<1>2. found[t] # <<>> /\ found[t][1] = r /\ found[t][2] = h
  BY <1>1
<1>3. /\ ea' = [ea EXCEPT ![r].is_pending = TRUE]
      /\ UNCHANGED <<socket, now, tps, inserted, order, queue, tasks, found, todo, cutting>>
  BY <1>2 DEF Mark
<1>4. r \in Requests /\ ea \in [Requests -> AnswerRecord]
  BY DEF IInv, TypeOK
<1>5. /\ ea' \in [Requests -> AnswerRecord]
      /\ \A x \in Requests : /\ ea'[x].pending = ea[x].pending /\ ea'[x].rc = ea[x].rc
                             /\ ea[x].is_pending => ea'[x].is_pending
                             /\ x # r => ea'[x] = ea[x]
  BY <1>3, <1>4 DEF AnswerRecord
<1>6. \A x \in Requests : ToSet(ea'[x].pending) = ToSet(ea[x].pending) /\ ToSet(ea[x].pending) \subseteq Requests
  BY <1>5, PendingType DEF IInv
<1>7. HangInv'
  BY <1>1, <1>3, <1>5, <1>6 DEF IInv, HangInv
<1>8. NoWaitCircle'
  BY <1>3, <1>6 DEF IInv, NoWaitCircle, NoCircleAnywhere
<1>9. NoPendingForgotten'
  <2>1. \A x \in Requests : Served(x)' <=> Served(x)
    BY <1>3, <1>5 DEF Served, Answered, InTime, Age
  <2>2. Joining(r)'
    BY <1>2, <1>3 DEF Joining
  <2>3. \A x \in Requests : Joining(x)' <=> Joining(x)
    BY <1>3 DEF Joining
  <2>4. \A x \in Requests : Answered(x)' <=> Answered(x)
    BY <1>5 DEF Answered
  <2>5. QED BY <1>3, <1>5, <1>6, <2>1, <2>2, <2>3, <2>4 DEF IInv, NoPendingForgotten
<1>10. AloneInv'
  <2>1. ASSUME socket, NEW u \in ReaderThreads, found[u] # <<>>
        PROVE  found[u][2] = h /\ ~ea[h].is_pending /\ \A v \in ReaderThreads \ {u} : found[v] = <<>>
    BY <1>2, <2>1 DEF IInv, AloneInv
  <2>2. QED BY <1>1, <1>3, <1>5, <2>1 DEF AloneInv
<1>11. TypeOK' /\ FoundInv' /\ CuttingInv'
  BY <1>3, <1>5 DEF IInv, TypeOK, FoundInv, CuttingInv
<1>12. QED BY <1>7, <1>8, <1>9, <1>10, <1>11 DEF IInv

\* The pending list of the host gets one more.
LEMMA OneMorePending ==
    ASSUME IInv, NEW r \in Requests, NEW h \in Requests
    PROVE  ToSet(<<r>> \o ea[h].pending) = ToSet(ea[h].pending) \cup {r}
<1> DEFINE p == ea[h].pending
           s == <<r>> \o p
<1>1. p \in Seq(Requests)
  BY PendingType DEF IInv
<1>2. /\ DOMAIN s = 1 .. Len(p) + 1 /\ DOMAIN p = 1 .. Len(p) /\ Len(p) \in Nat
      /\ s[1] = r /\ \A i \in 1 .. Len(p) : s[i + 1] = p[i]
  BY <1>1
<1> HIDE DEF s, p
<1>3. \A i \in DOMAIN s : i = 1 \/ (i - 1 \in 1 .. Len(p) /\ s[i] = p[i - 1])
  <2>1. \A i \in DOMAIN s : i = 1 \/ (i - 1 \in 1 .. Len(p) /\ i = (i - 1) + 1)
    BY <1>2
  <2>2. QED BY <1>2, <2>1
<1>4. \A i \in DOMAIN p : i + 1 \in DOMAIN s /\ s[i + 1] = p[i]
  BY <1>2
<1>5. 1 \in DOMAIN s
  BY <1>2
<1>6. ToSet(s) = ToSet(p) \cup {r}
  BY <1>2, <1>3, <1>4, <1>5 DEF ToSet
<1>7. QED BY <1>6 DEF s, p

\* The host has no answer: the request hangs on it.  No circle is closed,
\* because the host of a reader with a socket hangs on nobody.
LEMMA JoinHost ==
    ASSUME IInv, NEW r \in inserted, NEW h \in Requests, ea[r].is_pending, ~Answered(h),
           socket => ~ea[h].is_pending,
           \A x \in Requests : Joining(x) => Joining(x)' \/ x = r \/ ~socket,
           ea' = [ea EXCEPT ![h].pending = <<r>> \o @],
           UNCHANGED <<socket, now, tps, inserted, todo>>
    PROVE  /\ ea' \in [Requests -> AnswerRecord]
           /\ \A x \in Requests : ea'[x].is_pending = ea[x].is_pending
           /\ HangInv' /\ NoWaitCircle' /\ NoPendingForgotten'
<1>1. r \in Requests /\ ea \in [Requests -> AnswerRecord] /\ ea[h].pending \in Seq(Requests)
  BY PendingType DEF IInv, TypeOK
<1>2. <<r>> \o ea[h].pending \in Seq(Requests)
  BY <1>1
<1>3. ToSet(<<r>> \o ea[h].pending) = ToSet(ea[h].pending) \cup {r}
  BY <1>1, OneMorePending
<1>4. /\ ea' \in [Requests -> AnswerRecord]
      /\ \A x \in Requests : ea'[x].rc = ea[x].rc /\ ea'[x].is_pending = ea[x].is_pending
      /\ \A x \in Requests \ {h} : ea'[x].pending = ea[x].pending
      /\ ea'[h].pending = <<r>> \o ea[h].pending
  BY <1>1, <1>2 DEF AnswerRecord
<1>5. /\ \A x \in Requests \ {h} : ToSet(ea'[x].pending) = ToSet(ea[x].pending)
      /\ ToSet(ea'[h].pending) = ToSet(ea[h].pending) \cup {r}
      /\ \A x \in Requests : ToSet(ea[x].pending) \subseteq Requests
  BY <1>3, <1>4, PendingType DEF IInv
<1>6. HangInv'
  BY <1>1, <1>4, <1>5 DEF IInv, HangInv
<1>7. NoWaitCircle'
  <2>1. ASSUME socket, NEW S \in (SUBSET Requests) \ {{}}
        PROVE  \E y \in S : \A x \in S : y \notin ToSet(ea'[x].pending)
    <3>1. CASE h \in S /\ r \in S
      <4>1. \A x \in Requests : h \notin ToSet(ea[x].pending)
        BY <2>1 DEF IInv, HangInv
      <4>2. h # r
        BY <2>1
      <4>3. \A x \in S : h \notin ToSet(ea'[x].pending)
        BY <1>5, <4>1, <4>2
      <4>4. QED BY <3>1, <4>3
    <3>2. CASE ~(h \in S /\ r \in S)
      <4>1. PICK y \in S : \A x \in S : y \notin ToSet(ea[x].pending)
        BY <2>1 DEF IInv, NoWaitCircle, NoCircleAnywhere
      <4>2. \A x \in S : y \notin ToSet(ea'[x].pending)
        BY <1>5, <3>2, <4>1
      <4>3. QED BY <4>2
    <3>3. QED BY <3>1, <3>2
  <2>2. QED BY <2>1 DEF NoWaitCircle, NoCircleAnywhere
<1>8. NoPendingForgotten'
  <2>1. \A x \in Requests : (Answered(x)' <=> Answered(x)) /\ (Served(x)' <=> Served(x))
    BY <1>4 DEF Served, Answered, InTime, Age
  <2>2. ASSUME NEW x \in Requests, NEW y \in ToSet(ea'[x].pending), Answered(x)'
        PROVE  Served(y)'
    <3>1. x # h /\ Answered(x) /\ y \in ToSet(ea[x].pending) /\ y \in Requests
      BY <1>5, <2>1, <2>2
    <3>2. QED BY <2>1, <3>1 DEF IInv, NoPendingForgotten
  <2>3. ASSUME socket, NEW x \in Requests, ea'[x].is_pending
        PROVE  Served(x)' \/ Joining(x)' \/ Attached(x)'
    <3>1. Attached(r)' /\ (Attached(x) => Attached(x)')
      BY <1>5 DEF Attached
    <3>2. Served(x) \/ Joining(x) \/ Attached(x)
      BY <1>4, <2>3 DEF IInv, NoPendingForgotten, Attached
    <3>3. QED BY <2>1, <2>3, <3>1, <3>2
  <2>4. QED BY <2>2, <2>3 DEF NoPendingForgotten, Attached
<1>9. QED BY <1>4, <1>6, <1>7, <1>8

\* The host has an answer: the request gets the same one.  Or else it hangs on it.
LEMMA JoinStep ==
    ASSUME IInv, NEW t \in ReaderThreads, Join(t)
    PROVE  IInv'
<1>1. PICK r \in inserted, h \in Requests : found[t] = <<r, h>> /\ r # h /\ todo[t] = <<>>
  BY DEF Join, Marked, IInv, FoundInv
<1>2. found[t][1] = r /\ found[t][2] = h /\ found[t] # <<>>
  BY <1>1
<1>3. /\ ea[r].is_pending /\ found' = [found EXCEPT ![t] = <<>>]
      /\ UNCHANGED <<socket, now, tps, inserted, order, queue, tasks, cutting>>
      /\ \/ Write(t, r, Shared(ea[h].rc), <<>>)
         \/ ~Answered(h) /\ ea' = [ea EXCEPT ![h].pending = <<r>> \o @] /\ UNCHANGED todo
  BY <1>2 DEF Join, Marked, Late
<1>4. /\ found \in [ReaderThreads -> Seq(Requests)] /\ todo \in [Threads -> Seq(Handed)]
      /\ t \in Threads /\ r \in Requests
  BY DEF IInv, TypeOK, Threads
<1>5. /\ found' \in [ReaderThreads -> Seq(Requests)] /\ found'[t] = <<>>
      /\ \A u \in ReaderThreads \ {t} : found'[u] = found[u]
  <2>1. <<>> \in Seq(Requests)
    OBVIOUS
  <2>2. QED BY <1>3, <1>4, <2>1
<1>6. \A x \in Requests : Joining(x) => Joining(x)' \/ x = r
  BY <1>2, <1>5 DEF Joining
<1>7. /\ ea' \in [Requests -> AnswerRecord] /\ todo' \in [Threads -> Seq(Handed)]
      /\ \A x \in Requests : ea'[x].is_pending = ea[x].is_pending
      /\ \A x \in Threads \ {t} : todo'[x] = todo[x]
      /\ HangInv' /\ NoWaitCircle' /\ NoPendingForgotten'
  <2>1. CASE Write(t, r, Shared(ea[h].rc), <<>>)
    <3>1. Shared(ea[h].rc) \in Codes /\ <<>> \in Seq(Handed)
      BY DEF Shared, Codes
    <3>2. QED BY <1>1, <1>3, <1>4, <1>6, <2>1, <3>1, WriteKeeps
  <2>2. CASE ~Answered(h) /\ ea' = [ea EXCEPT ![h].pending = <<r>> \o @] /\ UNCHANGED todo
    <3>1. socket => ~ea[h].is_pending
      BY <1>2 DEF IInv, AloneInv
    <3>2. QED BY <1>3, <1>4, <1>6, <2>2, <3>1, JoinHost
  <2>3. QED BY <1>3, <2>1, <2>2
<1>8. FoundInv' /\ AloneInv'
  <2>1. \A u \in ReaderThreads : found[u] # <<>> => found[u][2] \in Requests
    BY DEF IInv, FoundInv
  <2>2. FoundInv'
    <3>1. \A u \in ReaderThreads \ {t} : todo'[u] = todo[u] /\ found'[u] = found[u]
      BY <1>5, <1>7 DEF Threads
    <3>2. inserted' = inserted
      BY <1>3
    <3>3. QED BY <1>5, <3>1, <3>2 DEF IInv, FoundInv
  <2>3. AloneInv'
    BY <1>3, <1>5, <1>7, <2>1 DEF IInv, AloneInv
  <2>4. QED BY <2>2, <2>3
<1>9. TypeOK' /\ CuttingInv'
  BY <1>3, <1>5, <1>7 DEF IInv, TypeOK, CuttingInv
<1>10. QED BY <1>7, <1>8, <1>9 DEF IInv

\* Two threads at once: without a socket.
LEMMA JoinRaceStep ==
    ASSUME IInv, NEW t \in ReaderThreads, NEW u \in ReaderThreads, JoinRace(t, u)
    PROVE  IInv'
<1>1. PICK r \in inserted, h \in Requests : found[t] = <<r, h>>
  BY DEF JoinRace, Marked, IInv, FoundInv
<1>2. found[t][1] = r /\ found[t][2] = h /\ found[t] # <<>> /\ found[u] # <<>> /\ t # u
  BY <1>1 DEF JoinRace, Marked
<1>3. /\ ea[r].is_pending /\ ~Answered(h) /\ ea' = [ea EXCEPT ![h].pending = <<r>> \o @]
      /\ found' = [found EXCEPT ![t] = <<>>, ![u] = <<>>]
      /\ UNCHANGED <<socket, now, tps, inserted, order, queue, tasks, todo, cutting>>
  BY <1>2 DEF JoinRace, Marked, Late
<1>4. ~socket
  BY <1>2 DEF IInv, AloneInv
<1>5. found \in [ReaderThreads -> Seq(Requests)] /\ <<>> \in Seq(Requests)
  BY DEF IInv, TypeOK
<1>6. /\ found' \in [ReaderThreads -> Seq(Requests)] /\ found'[t] = <<>> /\ found'[u] = <<>>
      /\ \A v \in ReaderThreads \ {t, u} : found'[v] = found[v]
  BY <1>3, <1>5
<1>7. ea' \in [Requests -> AnswerRecord] /\ HangInv' /\ NoWaitCircle' /\ NoPendingForgotten'
  BY <1>3, <1>4, JoinHost
<1>8. TypeOK' /\ FoundInv' /\ AloneInv' /\ CuttingInv'
  BY <1>3, <1>4, <1>6, <1>7 DEF IInv, TypeOK, FoundInv, AloneInv, CuttingInv
<1>9. QED BY <1>7, <1>8 DEF IInv

----------------------------------------------------------------------------
(* The clean-up *)

LEMMA FindOldStep ==
    ASSUME IInv, FindOld
    PROVE  IInv'
<1>1. /\ UNCHANGED <<socket, now, tps, inserted, order, ea, queue, tasks, found, todo>>
      /\ order \in Seq(Requests)
  BY DEF FindOld, IInv, TypeOK
<1>2. PICK i \in DOMAIN order : cutting' = <<order[i], IF i = 1 THEN NoRequest ELSE order[i - 1]>>
  BY DEF FindOld
<1>3. order[i] \in Requests /\ (i = 1 \/ i - 1 \in DOMAIN order)
  BY <1>1
<1>4. CuttingInv'
  BY <1>1, <1>2, <1>3 DEF CuttingInv
<1>5. HangInv' /\ NoWaitCircle' /\ NoPendingForgotten'
  BY <1>1, SameAnswers, PendingType DEF IInv, InTime, Age, Joining
<1>6. TypeOK' /\ FoundInv' /\ AloneInv'
  BY <1>1 DEF IInv, TypeOK, FoundInv, AloneInv
<1>7. QED BY <1>4, <1>5, <1>6 DEF IInv

LEMMA CutStep ==
    ASSUME IInv, Cut
    PROVE  IInv'
<1>1. /\ cutting # <<>> /\ cutting' = <<>>
      /\ order' = IF cutting[2] = NoRequest THEN <<>> ELSE UpTo(cutting[2])
      /\ UNCHANGED <<socket, now, tps, inserted, ea, queue, tasks, found, todo>>
      /\ order \in Seq(Requests)
  BY DEF Cut, IInv, TypeOK
<1>2. order' \in Seq(Requests)
  <2>1. CASE cutting[2] = NoRequest
    BY <1>1, <2>1
  <2>2. CASE cutting[2] # NoRequest
    <3>1. PICK x \in Requests, i \in DOMAIN order : cutting = <<x, order[i]>>
      BY <1>1, <2>2 DEF IInv, CuttingInv
    <3>2. order' = UpTo(order[i])
      BY <1>1, <2>2, <3>1
    <3> DEFINE n == CHOOSE k \in DOMAIN order : order[k] = order[i]
    <3>3. n \in DOMAIN order
      OBVIOUS
    <3>4. order' = SubSeq(order, 1, n)
      BY <3>2 DEF UpTo
    <3> HIDE DEF n
    <3>5. QED BY <1>1, <3>3, <3>4
  <2>3. QED BY <2>1, <2>2
<1>3. HangInv' /\ NoWaitCircle' /\ NoPendingForgotten'
  BY <1>1, SameAnswers, PendingType DEF IInv, InTime, Age, Joining
<1>4. TypeOK' /\ FoundInv' /\ AloneInv' /\ CuttingInv'
  BY <1>1, <1>2 DEF IInv, TypeOK, FoundInv, AloneInv, CuttingInv
<1>5. QED BY <1>3, <1>4 DEF IInv

\* A step that leaves everything alone the invariant is about.
LEMMA OtherStep ==
    ASSUME IInv, UNCHANGED <<socket, now, tps, inserted, order, ea, queue, tasks, found, todo, cutting>>
    PROVE  IInv'
<1>1. HangInv' /\ NoWaitCircle' /\ NoPendingForgotten'
  BY SameAnswers, PendingType DEF IInv, InTime, Age, Joining
<1>2. QED BY <1>1 DEF IInv, TypeOK, FoundInv, AloneInv, CuttingInv

----------------------------------------------------------------------------
LEMMA Invariance ==
    Spec => []IInv
<1>1. Init => IInv
  BY InitHolds
<1>2. IInv /\ [Next]_vars => IInv'
  <2> SUFFICES ASSUME IInv, [Next]_vars PROVE IInv'
    OBVIOUS
  <2>1. CASE Tick
    BY <2>1, TickStep
  <2>2. ASSUME NEW r \in Requests, Receive(r) \/ Insert(r) \/ Ask(r) \/ EcmTimeout(r)
        PROVE  IInv'
    BY <2>2, ReceiveStep, InsertStep, AskStep, EcmTimeoutStep
  <2>3. ASSUME NEW r \in Requests, Free(r)
        PROVE  IInv'
    BY <2>3, OtherStep DEF Free
  <2>4. ASSUME NEW t \in ReaderThreads, NEW r \in Requests,
               NEW rc \in {"FOUND", "NOTFOUND"}, Answer(t, r, rc)
        PROVE  IInv'
    BY <2>4, AnswerStep
  <2>5. ASSUME NEW t \in Threads, Distribute(t)
        PROVE  IInv'
    BY <2>5, DistributeStep
  <2>6. ASSUME NEW t \in ReaderThreads,
               GetEcm(t) \/ Mark(t) \/ Join(t) \/ \E u \in ReaderThreads : JoinRace(t, u)
        PROVE  IInv'
    BY <2>6, GetEcmStep, MarkStep, JoinStep, JoinRaceStep
  <2>7. CASE DropRequest \/ FindOld \/ Cut
    BY <2>7, DropRequestStep, FindOldStep, CutStep
  <2>8. CASE UNCHANGED vars
    BY <2>8, OtherStep DEF vars
  <2>9. QED BY <2>1, <2>2, <2>3, <2>4, <2>5, <2>6, <2>7, <2>8 DEF Next
<1>3. QED BY <1>1, <1>2, PTL DEF Spec

\* TypeOK: only requests of the list are queued, in their own types.
THEOREM TypeCorrect == Spec => []TypeOK
<1>1. IInv => TypeOK
  BY DEF IInv
<1>2. QED BY <1>1, Invariance, PTL

\* NoWaitCircle for every number of requests: those that hang on one another
\* through reader_get_ecm of a reader with a socket never wait for each other.
THEOREM CirclesExcluded == Spec => []NoWaitCircle
<1>1. IInv => NoWaitCircle
  BY DEF IInv
<1>2. QED BY <1>1, Invariance, PTL

\* NoPendingForgotten for every number of requests and threads: whoever hangs on
\* a request that is answered has an answer, gets one from distribute_ea, or is
\* too late; with a socket whoever is marked as pending does hang on one.
THEOREM PendingIsServed == Spec => []NoPendingForgotten
<1>1. IInv => NoPendingForgotten
  BY DEF IInv
<1>2. QED BY <1>1, Invariance, PTL

----------------------------------------------------------------------------
(* How old a request can be that a thread still holds: NoUseAfterFree *)

\* How far the clock may be ahead of a thread that is in the middle of something
Lag == IF late THEN 1 ELSE 0

\* The list is in the order of arrival, but for one second: a thread may
\* receive a request and insert it after a later one.
ListInv ==
    /\ \A i \in DOMAIN order : order[i] \in inserted
    /\ \A i, j \in DOMAIN order : order[i] = order[j] => i = j
    /\ \A i, j \in DOMAIN order : i <= j => tps[order[j]] <= tps[order[i]] + 1

ArrivalInv ==
    /\ \A r \in DOMAIN tps : tps[r] <= now
    /\ \A r \in DOMAIN tps \ inserted : now <= tps[r] + Lag

\* The old request is right behind prv, whatever was inserted since
PrvInv ==
    cutting # <<>> =>
       /\ cutting[1] \in inserted /\ Old(cutting[1])
       /\ \/ cutting[2] = NoRequest
          \/ \E i \in DOMAIN order :
               i + 1 \in DOMAIN order /\ cutting[2] = order[i] /\ cutting[1] = order[i + 1]

GarbageInv ==
    /\ DOMAIN garbage \subseteq inserted /\ freed \subseteq DOMAIN garbage
    /\ \A g \in DOMAIN garbage : /\ g \notin ToSet(order)
                                 /\ garbage[g] \in Nat /\ garbage[g] > tps[g] + Ctimeout + 2
    /\ \A g \in freed : Expired(g)

\* How old a request can be that a thread still holds
QueueInv == \A i \in DOMAIN queue : queue[i].time <= tps[queue[i].er] + Ctimeout
SearchInv ==
    \A t \in ReaderThreads : found[t] # <<>> =>
        /\ found[t][2] \in DOMAIN tps
        /\ now <= tps[found[t][1]] + 2 * Ctimeout + 1 + Lag
        /\ now <= tps[found[t][2]] + Ctimeout + Lag
HangAgeInv ==
    \A h \in Requests : \A r \in ToSet(ea[h].pending) :
        h \in DOMAIN tps /\ tps[h] <= tps[r] + 2 * Ctimeout + 2
HandedInv ==
    \A t \in Threads : \A i \in DOMAIN todo[t] :
        /\ todo[t][i].er \in inserted
        /\ now <= tps[todo[t][i].er] + 3 * Ctimeout + 3 + Lag

AgeInv == /\ ListInv /\ ArrivalInv /\ PrvInv /\ GarbageInv
          /\ QueueInv /\ SearchInv /\ HangAgeInv /\ HandedInv

\* A request is in the queue, found or sent once
SentInv ==
    /\ \A r \in Requests : ea[r].is_pending => ea[r].sent
    /\ \A i \in DOMAIN queue : /\ ea[queue[i].er].sent /\ ~ea[queue[i].er].is_pending
                               /\ queue[i].er \notin tasks
                               /\ \A t \in ReaderThreads :
                                    found[t] # <<>> => found[t][1] # queue[i].er
    /\ \A i, j \in DOMAIN queue : queue[i].er = queue[j].er => i = j
    /\ \A t \in ReaderThreads :
         found[t] # <<>> => found[t][1] \notin tasks /\ ea[found[t][1]].sent
    /\ \A r \in tasks : r \in inserted /\ ea[r].sent /\ ~ea[r].is_pending

----------------------------------------------------------------------------
\* The two requests of a search.
LEMMA FoundTypes ==
    ASSUME IInv, NEW t \in ReaderThreads, found[t] # <<>>
    PROVE  /\ found[t][1] \in inserted /\ found[t][2] \in Requests
           /\ found[t][1] \in DOMAIN tps /\ found[t][1] \in Requests
           /\ ToSet(found[t]) = {found[t][1], found[t][2]} /\ todo[t] = <<>>
<1>1. PICK r \in inserted, h \in Requests : found[t] = <<r, h>> /\ todo[t] = <<>>
  BY DEF IInv, FoundInv
<1>2. r \in DOMAIN tps /\ r \in Requests
  BY DEF IInv, TypeOK
<1>3. QED BY <1>1, <1>2 DEF ToSet

LEMMA ClockTypes ==
    IInv => /\ now \in Nat /\ Ctimeout \in Nat /\ Lag \in {0, 1}
            /\ inserted \subseteq DOMAIN tps /\ DOMAIN tps \subseteq Requests
            /\ \A r \in DOMAIN tps : tps[r] \in Nat
BY TimeAssumption DEF IInv, TypeOK, Lag

LEMMA ListTypes ==
    IInv => /\ order \in Seq(Requests) /\ Len(order) \in Nat /\ DOMAIN order = 1 .. Len(order)
            /\ \A i \in DOMAIN order : order[i] \in Requests
BY DEF IInv, TypeOK

LEMMA QueueTypes ==
    IInv => /\ queue \in Seq(Job) /\ Len(queue) \in Nat /\ DOMAIN queue = 1 .. Len(queue)
            /\ \A i \in DOMAIN queue : queue[i].er \in inserted /\ queue[i].time \in Nat
<1> SUFFICES ASSUME IInv
             PROVE  /\ queue \in Seq(Job) /\ Len(queue) \in Nat /\ DOMAIN queue = 1 .. Len(queue)
                    /\ \A i \in DOMAIN queue : queue[i].er \in inserted /\ queue[i].time \in Nat
  OBVIOUS
<1>1. queue \in Seq(Job) /\ \A i \in DOMAIN queue : queue[i].er \in inserted /\ queue[i] \in Job
  BY DEF IInv, TypeOK
<1>2. QED BY <1>1 DEF Job

\* A request that is freed is older than anything a thread will yet look at.
LEMMA FreedIsOld ==
    ASSUME IInv, AgeInv, NEW g \in freed
    PROVE  /\ g \in DOMAIN tps /\ g \in DOMAIN garbage /\ now > tps[g] + 3 * Ctimeout + 8
           /\ garbage[g] \in Nat /\ now > garbage[g] + 2 * Ctimeout + 6
<1>1. g \in DOMAIN garbage /\ g \in DOMAIN tps /\ garbage[g] \in Nat
      /\ garbage[g] > tps[g] + Ctimeout + 2 /\ Expired(g)
  BY ClockTypes DEF AgeInv, GarbageInv
<1>2. QED BY <1>1, ClockTypes DEF Expired

LEMMA AgesSuffice ==
    ASSUME IInv, AgeInv
    PROVE  NoUseAfterFree
<1> USE ClockTypes
<1>1. SUFFICES ASSUME NEW g \in freed, g \in Used PROVE FALSE
  BY DEF NoUseAfterFree
<1>2. /\ g \in DOMAIN tps /\ g \in DOMAIN garbage /\ now > tps[g] + 3 * Ctimeout + 8
      /\ garbage[g] \in Nat /\ now > garbage[g] + 2 * Ctimeout + 6 /\ tps[g] \in Nat
  BY FreedIsOld
<1>3. ASSUME NEW i \in DOMAIN queue, ~Dropped(queue[i].time), queue[i].er = g
      PROVE  FALSE
  <2>1. queue[i].time <= tps[g] + Ctimeout /\ queue[i].time \in Nat
    BY <1>3, QueueTypes DEF AgeInv, QueueInv
  <2>2. QED BY <1>2, <1>3, <2>1 DEF Dropped
<1>4. CASE InTime(g) \/ Age(g) <= 2 * Ctimeout + 2 \/ ~Dropped(garbage[g])
  BY <1>2, <1>4 DEF InTime, Age, Dropped
<1>5. ASSUME NEW t \in ReaderThreads, g \in ToSet(found[t])
      PROVE  FALSE
  <2>1. found[t] # <<>>
    BY <1>5 DEF ToSet
  <2>2. /\ g = found[t][1] \/ g = found[t][2]
        /\ found[t][1] \in DOMAIN tps
    BY <1>5, <2>1, FoundTypes
  <2>3. /\ now <= tps[found[t][1]] + 2 * Ctimeout + 1 + Lag
        /\ now <= tps[found[t][2]] + Ctimeout + Lag
    BY <2>1 DEF AgeInv, SearchInv
  <2>4. QED BY <1>2, <2>2, <2>3
<1>6. ASSUME NEW t \in Threads, NEW i \in DOMAIN todo[t], todo[t][i].er = g
      PROVE  FALSE
  <2>1. now <= tps[g] + 3 * Ctimeout + 3 + Lag
    BY <1>6 DEF AgeInv, HandedInv
  <2>2. QED BY <1>2, <2>1
<1>7. \/ g \in {queue[i].er : i \in {k \in DOMAIN queue : ~Dropped(queue[k].time)}}
      \/ InTime(g) \/ Age(g) <= 2 * Ctimeout + 2 \/ ~Dropped(garbage[g])
      \/ g \in UNION {ToSet(found[t]) : t \in ReaderThreads}
      \/ g \in UNION {{todo[t][i].er : i \in DOMAIN todo[t]} : t \in Threads}
  BY <1>1 DEF Used
<1>8. CASE g \in {queue[i].er : i \in {k \in DOMAIN queue : ~Dropped(queue[k].time)}}
  BY <1>3, <1>8
<1>9. CASE g \in UNION {{todo[t][i].er : i \in DOMAIN todo[t]} : t \in Threads}
  BY <1>6, <1>9
<1>10. CASE g \in UNION {ToSet(found[t]) : t \in ReaderThreads}
  BY <1>5, <1>10
<1>11. QED BY <1>4, <1>7, <1>8, <1>9, <1>10

LEMMA AgeInit ==
    Init => AgeInv
<1> SUFFICES ASSUME Init PROVE AgeInv
  OBVIOUS
<1>1. \A h \in Requests : ToSet(ea[h].pending) = {}
  BY DEF Init, NoAnswer, ToSet
<1>2. \A t \in Threads : DOMAIN todo[t] = {}
  BY DEF Init
<1>3. DOMAIN tps = {} /\ DOMAIN order = {} /\ DOMAIN garbage = {} /\ DOMAIN queue = {}
      /\ cutting = <<>> /\ freed = {} /\ \A t \in ReaderThreads : found[t] = <<>>
  BY DEF Init
<1>4. inserted = {}
  BY DEF Init
<1>5. ListInv /\ ArrivalInv /\ PrvInv /\ GarbageInv /\ QueueInv
  BY <1>3, <1>4 DEF ListInv, ArrivalInv, PrvInv, GarbageInv, QueueInv
<1>6. SearchInv /\ HangAgeInv /\ HandedInv
  BY <1>1, <1>2, <1>3 DEF SearchInv, HangAgeInv, HandedInv
<1>7. QED BY <1>5, <1>6 DEF AgeInv

\* A step of the reader, or of a thread that answers, which touches neither the
\* clock nor the list.
LEMMA KeepList ==
    ASSUME ListInv, ArrivalInv, PrvInv, GarbageInv,
           UNCHANGED <<now, tps, inserted, order, cutting, garbage, freed, late>>
    PROVE  ListInv' /\ ArrivalInv' /\ PrvInv' /\ GarbageInv'
BY DEF ListInv, ArrivalInv, PrvInv, GarbageInv, Lag, Old, Age, Expired

\* Threads that found nothing new leave SearchInv as it is.
LEMMA KeepSearch ==
    ASSUME SearchInv, UNCHANGED <<now, tps, late>>,
           \A u \in ReaderThreads : found'[u] \in {found[u], <<>>}
    PROVE  SearchInv'
<1> SUFFICES ASSUME NEW t \in ReaderThreads, found'[t] # <<>>
    PROVE  /\ found'[t][2] \in DOMAIN tps
           /\ now <= tps[found'[t][1]] + 2 * Ctimeout + 1 + Lag
           /\ now <= tps[found'[t][2]] + Ctimeout + Lag
  BY DEF SearchInv, Lag
<1>1. found'[t] = found[t]
  OBVIOUS
<1>2. QED BY <1>1 DEF SearchInv

LEMMA AgeTick ==
    ASSUME IInv, AgeInv, Tick
    PROVE  AgeInv'
<1>1. /\ now' = now + 1 /\ late' = Busy /\ ~(Busy /\ late)
      /\ UNCHANGED <<tps, inserted, order, ea, queue, tasks, found, todo, cutting, garbage, freed>>
  BY DEF Tick
<1>2. Lag' = 1 \/ (Lag' = 0 /\ ~Busy)
  BY <1>1 DEF Lag
<1>3. Busy => Lag' = Lag + 1
  BY <1>1 DEF Lag
<1>4. ListInv'
  BY <1>1 DEF AgeInv, ListInv
<1>5. ArrivalInv'
  <2>1. \A r \in DOMAIN tps : tps[r] <= now + 1
    BY ClockTypes DEF AgeInv, ArrivalInv
  <2>2. ASSUME NEW r \in DOMAIN tps \ inserted
        PROVE  now + 1 <= tps[r] + Lag'
    <3>1. Busy /\ now <= tps[r] + Lag
      BY <2>2 DEF Busy, AgeInv, ArrivalInv
    <3>2. QED BY <3>1, <1>3, ClockTypes
  <2>3. QED BY <1>1, <2>1, <2>2 DEF ArrivalInv
<1>6. PrvInv'
  <2>1. ASSUME cutting # <<>>
        PROVE  Old(cutting[1])'
    <3>1. Old(cutting[1]) /\ cutting[1] \in inserted
      BY <2>1 DEF AgeInv, PrvInv
    <3>2. QED BY <1>1, <3>1, ClockTypes DEF Old, Age
  <2>2. QED BY <1>1, <2>1 DEF AgeInv, PrvInv
<1>7. GarbageInv'
  <2>1. ASSUME NEW g \in freed
        PROVE  Expired(g)'
    BY <1>1, ClockTypes DEF AgeInv, GarbageInv, Expired
  <2>2. QED BY <1>1, <2>1 DEF AgeInv, GarbageInv
<1>8. QueueInv' /\ HangAgeInv'
  BY <1>1 DEF AgeInv, QueueInv, HangAgeInv
<1>9. SearchInv'
  <2>1. ASSUME NEW t \in ReaderThreads, found[t] # <<>>
        PROVE  /\ found[t][2] \in DOMAIN tps
               /\ now + 1 <= tps[found[t][1]] + 2 * Ctimeout + 1 + Lag'
               /\ now + 1 <= tps[found[t][2]] + Ctimeout + Lag'
    <3>1. Busy
      BY <2>1 DEF Busy, Idle, Threads
    <3>2. found[t][1] \in DOMAIN tps /\ found[t][2] \in DOMAIN tps
      BY <2>1, FoundTypes DEF AgeInv, SearchInv
    <3>3. QED BY <1>3, <2>1, <3>1, <3>2, ClockTypes DEF AgeInv, SearchInv
  <2>2. QED BY <1>1, <2>1 DEF SearchInv
<1>10. HandedInv'
  <2>1. ASSUME NEW t \in Threads, NEW i \in DOMAIN todo[t]
        PROVE  /\ todo[t][i].er \in inserted
               /\ now + 1 <= tps[todo[t][i].er] + 3 * Ctimeout + 3 + Lag'
    <3>1. Busy
      BY <2>1 DEF Busy, Idle
    <3>2. QED BY <1>3, <3>1, ClockTypes DEF AgeInv, HandedInv
  <2>2. QED BY <1>1, <2>1 DEF HandedInv
<1>11. QED BY <1>4, <1>5, <1>6, <1>7, <1>8, <1>9, <1>10 DEF AgeInv

LEMMA AgeReceive ==
    ASSUME IInv, AgeInv, NEW r \in Requests, Receive(r)
    PROVE  AgeInv'
<1>1. r \notin DOMAIN tps /\ tps' = [x \in DOMAIN tps \cup {r} |-> IF x = r THEN now ELSE tps[x]]
      /\ UNCHANGED <<now, inserted, order, ea, queue, tasks, found, todo, cutting, garbage, freed, late>>
  BY DEF Receive
<1>2. DOMAIN tps' = DOMAIN tps \cup {r} /\ tps'[r] = now /\ \A x \in DOMAIN tps : tps'[x] = tps[x]
  BY <1>1
<1>3. Lag' = Lag
  BY <1>1 DEF Lag
<1>4. ListInv'
  BY <1>1, <1>2, ClockTypes DEF AgeInv, ListInv
<1>5. ArrivalInv'
  BY <1>1, <1>2, <1>3, ClockTypes DEF AgeInv, ArrivalInv
<1>6. PrvInv'
  <2>1. ASSUME cutting # <<>>
        PROVE  cutting[1] \in DOMAIN tps
    BY <2>1, ClockTypes DEF AgeInv, PrvInv
  <2>2. QED BY <1>1, <1>2, <2>1 DEF AgeInv, PrvInv, Old, Age
<1>7. GarbageInv'
  BY <1>1, <1>2, ClockTypes DEF AgeInv, GarbageInv, Expired
<1>8. QueueInv'
  BY <1>1, <1>2, ClockTypes, QueueTypes DEF AgeInv, QueueInv
<1>9. SearchInv'
  <2>1. \A t \in ReaderThreads : found[t] # <<>> => found[t][1] \in DOMAIN tps
    BY FoundTypes
  <2>2. QED BY <1>1, <1>2, <1>3, <2>1, ClockTypes DEF AgeInv, SearchInv
<1>10. HangAgeInv'
  BY <1>1, <1>2, ClockTypes DEF AgeInv, HangAgeInv, IInv, HangInv
<1>11. HandedInv'
  BY <1>1, <1>2, <1>3, ClockTypes DEF AgeInv, HandedInv
<1>12. QED BY <1>4, <1>5, <1>6, <1>7, <1>8, <1>9, <1>10, <1>11 DEF AgeInv

\* A request goes to the head of the list, and came at most a second before
\* the one it goes before.
LEMMA AgeInsert ==
    ASSUME IInv, AgeInv, NEW r \in Requests, Insert(r)
    PROVE  AgeInv'
<1>1. /\ r \in DOMAIN tps \ inserted /\ inserted' = inserted \cup {r} /\ order' = <<r>> \o order
      /\ UNCHANGED <<now, tps, ea, queue, tasks, found, todo, cutting, garbage, freed, late>>
  BY DEF Insert
<1>2. /\ DOMAIN order' = 1 .. Len(order) + 1 /\ order'[1] = r
      /\ \A i \in DOMAIN order : i + 1 \in DOMAIN order' /\ order'[i + 1] = order[i]
      /\ \A i \in DOMAIN order' : i = 1 \/ (i - 1 \in DOMAIN order /\ order'[i] = order[i - 1])
  BY <1>1, ListTypes
<1>3. Lag' = Lag
  BY <1>1 DEF Lag
<1>4. ListInv'
  <2>1. \A i \in DOMAIN order' : order'[i] \in inserted'
    BY <1>1, <1>2 DEF AgeInv, ListInv
  <2>2. \A i, j \in DOMAIN order' : order'[i] = order'[j] => i = j
    BY <1>1, <1>2, ListTypes DEF AgeInv, ListInv
  <2>3. ASSUME NEW i \in DOMAIN order', NEW j \in DOMAIN order', i <= j
        PROVE  tps[order'[j]] <= tps[order'[i]] + 1
    <3>1. CASE i = 1
      <4>1. order'[j] \in DOMAIN tps /\ tps[order'[j]] <= now /\ now <= tps[r] + Lag
        BY <1>1, <2>1, ClockTypes DEF AgeInv, ArrivalInv
      <4>2. QED BY <1>1, <1>2, <3>1, <4>1, ClockTypes
    <3>2. CASE i # 1
      <4>1. i - 1 \in DOMAIN order /\ j - 1 \in DOMAIN order /\ i - 1 <= j - 1
            /\ order'[i] = order[i - 1] /\ order'[j] = order[j - 1]
        BY <1>2, <2>3, <3>2, ListTypes
      <4>2. QED BY <4>1 DEF AgeInv, ListInv
    <3>3. QED BY <3>1, <3>2
  <2>4. QED BY <1>1, <2>1, <2>2, <2>3 DEF ListInv
<1>5. ArrivalInv'
  BY <1>1, <1>3 DEF AgeInv, ArrivalInv
<1>6. PrvInv'
  <2>1. CASE \E i \in DOMAIN order :
               i + 1 \in DOMAIN order /\ cutting[2] = order[i] /\ cutting[1] = order[i + 1]
    <3>1. PICK i \in DOMAIN order :
               i + 1 \in DOMAIN order /\ cutting[2] = order[i] /\ cutting[1] = order[i + 1]
      BY <2>1
    <3>2. /\ i + 1 \in DOMAIN order' /\ (i + 1) + 1 \in DOMAIN order'
          /\ cutting[2] = order'[i + 1] /\ cutting[1] = order'[(i + 1) + 1]
      BY <1>2, <3>1
    <3>3. QED BY <1>1, <3>2 DEF AgeInv, PrvInv, Old, Age
  <2>2. CASE cutting = <<>> \/ cutting[2] = NoRequest
    BY <1>1, <2>2 DEF AgeInv, PrvInv, Old, Age
  <2>3. QED BY <2>1, <2>2 DEF AgeInv, PrvInv
<1>7. GarbageInv'
  <2>1. \A g \in DOMAIN garbage : g \notin ToSet(order')
    BY <1>1, <1>2 DEF AgeInv, GarbageInv, ToSet
  <2>2. QED BY <1>1, <2>1 DEF AgeInv, GarbageInv, Expired
<1>8. QueueInv' /\ SearchInv' /\ HangAgeInv' /\ HandedInv'
  BY <1>1, <1>3 DEF AgeInv, QueueInv, SearchInv, HangAgeInv, HandedInv
<1>9. QED BY <1>4, <1>5, <1>6, <1>7, <1>8 DEF AgeInv

\* The reader is asked within the client time-out.
LEMMA AgeAsk ==
    ASSUME IInv, AgeInv, NEW r \in Requests, Ask(r)
    PROVE  AgeInv'
<1>1. /\ r \in inserted /\ Age(r) <= Ctimeout /\ ea' = [ea EXCEPT ![r].sent = TRUE]
      /\ queue' = Append(queue, [er |-> r, time |-> now])
      /\ UNCHANGED <<now, tps, inserted, order, tasks, found, todo, cutting, garbage, freed, late>>
  BY DEF Ask
<1>2. ListInv' /\ ArrivalInv' /\ PrvInv' /\ GarbageInv'
  BY <1>1, KeepList DEF AgeInv
<1>3. QueueInv'
  <2>1. /\ DOMAIN queue' = 1 .. Len(queue) + 1 /\ queue'[Len(queue) + 1] = [er |-> r, time |-> now]
        /\ \A i \in 1 .. Len(queue) : queue'[i] = queue[i]
    BY <1>1, QueueTypes
  <2>2. now <= tps[r] + Ctimeout
    BY <1>1, ClockTypes DEF Age
  <2>3. \A i \in DOMAIN queue' : i = Len(queue) + 1 \/ i \in DOMAIN queue
    BY <2>1, QueueTypes
  <2>4. QED BY <1>1, <2>1, <2>2, <2>3, QueueTypes DEF AgeInv, QueueInv
<1>4. HangAgeInv'
  <2>1. \A h \in Requests : ea'[h].pending = ea[h].pending
    BY <1>1 DEF IInv, TypeOK, AnswerRecord
  <2>2. QED BY <1>1, <2>1 DEF AgeInv, HangAgeInv
<1>5. SearchInv' /\ HandedInv'
  BY <1>1 DEF AgeInv, SearchInv, HandedInv, Lag
<1>6. QED BY <1>2, <1>3, <1>4, <1>5 DEF AgeInv

----------------------------------------------------------------------------
\* What is handed on comes from the pending requests, or was there before.
LEMMA HandedFrom ==
    ASSUME NEW pending \in Seq(Requests), NEW rc \in Codes, NEW rest \in Seq(Handed)
    PROVE  LET s == [i \in DOMAIN pending |-> [er |-> pending[i], rc |-> rc]] \o rest
           IN \A i \in DOMAIN s : \/ s[i].er \in ToSet(pending)
                                  \/ \E j \in DOMAIN rest : s[i] = rest[j]
<1> DEFINE new == [i \in DOMAIN pending |-> [er |-> pending[i], rc |-> rc]]
           s == new \o rest
           T == {[er |-> pending[i], rc |-> rc] : i \in DOMAIN pending}
<1>1. DOMAIN pending = 1 .. Len(pending) /\ Len(pending) \in Nat
      /\ DOMAIN rest = 1 .. Len(rest) /\ Len(rest) \in Nat
  OBVIOUS
<1>2. new \in Seq(T) /\ Len(new) = Len(pending) /\ \A i \in 1 .. Len(pending) : new[i].er = pending[i]
  BY <1>1
<1> HIDE DEF new, T
<1>3. /\ DOMAIN s = 1 .. Len(pending) + Len(rest)
      /\ \A i \in 1 .. Len(pending) : s[i] = new[i]
      /\ \A i \in 1 .. Len(pending) + Len(rest) : i > Len(pending) => s[i] = rest[i - Len(pending)]
  BY <1>1, <1>2
<1> HIDE DEF s
<1>4. ASSUME NEW i \in DOMAIN s
      PROVE  s[i].er \in ToSet(pending) \/ \E j \in DOMAIN rest : s[i] = rest[j]
  <2>1. i \in 1 .. Len(pending) \/ i > Len(pending)
    BY <1>1, <1>3
  <2>2. CASE i \in 1 .. Len(pending)
    BY <1>1, <1>2, <1>3, <2>2 DEF ToSet
  <2>3. CASE i > Len(pending)
    <3>1. i - Len(pending) \in DOMAIN rest
      BY <1>1, <1>3, <2>3
    <3>2. QED BY <1>3, <2>3, <3>1
  <2>4. QED BY <2>1, <2>2, <2>3
<1>5. QED BY <1>4 DEF s, new

\* What hangs on whom, when one answer is written or one request joins.
LEMMA PendingKept ==
    ASSUME ea \in [Requests -> AnswerRecord], NEW r \in Requests, NEW rc,
           ea' = [ea EXCEPT ![r].rc = rc], NEW x \in Requests
    PROVE  ea'[x].pending = ea[x].pending
<1>1. CASE x = r
  BY <1>1 DEF AnswerRecord
<1>2. CASE x # r
  BY <1>2
<1>3. QED BY <1>1, <1>2

LEMMA PendingPut ==
    ASSUME ea \in [Requests -> AnswerRecord], NEW r, NEW h \in Requests,
           ea' = [ea EXCEPT ![h].pending = <<r>> \o @], NEW x \in Requests
    PROVE  \/ ea'[x].pending = ea[x].pending
           \/ x = h /\ ea'[x].pending = <<r>> \o ea[h].pending
<1>1. CASE x = h
  BY <1>1 DEF AnswerRecord
<1>2. CASE x # h
  BY <1>2
<1>3. QED BY <1>1, <1>2

\* What hangs on a request that is answered in time is not much older.
LEMMA PendingAge ==
    ASSUME IInv, AgeInv, NEW r \in DOMAIN tps, InTime(r), NEW x \in ToSet(ea[r].pending)
    PROVE  x \in inserted /\ now <= tps[x] + 3 * Ctimeout + 3 + Lag
<1>1. r \in Requests /\ now <= tps[r] + Ctimeout + 1
  BY ClockTypes DEF InTime, Age
<1>2. x \in inserted /\ tps[r] <= tps[x] + 2 * Ctimeout + 2
  BY <1>1 DEF AgeInv, HangAgeInv, IInv, HangInv
<1>3. QED BY <1>1, <1>2, ClockTypes

LEMMA AgeWrite ==
    ASSUME IInv, AgeInv, NEW t \in Threads, NEW r \in DOMAIN tps, NEW rc \in Codes,
           NEW rest \in Seq(Handed), Write(t, r, rc, rest),
           \A j \in DOMAIN rest : \E i \in DOMAIN todo[t] : rest[j] = todo[t][i],
           \A u \in ReaderThreads : found'[u] \in {found[u], <<>>},
           UNCHANGED <<now, tps, inserted, order, queue, cutting, garbage, freed, late>>
    PROVE  AgeInv'
<1> DEFINE s == [i \in DOMAIN ea[r].pending |-> [er |-> ea[r].pending[i], rc |-> rc]] \o rest
<1>1. /\ r \in Requests /\ ea \in [Requests -> AnswerRecord] /\ todo \in [Threads -> Seq(Handed)]
      /\ ea[r].pending \in Seq(Requests)
  BY ClockTypes, PendingType DEF IInv, TypeOK
<1>2. \A i \in DOMAIN s : \/ s[i].er \in ToSet(ea[r].pending)
                          \/ \E j \in DOMAIN rest : s[i] = rest[j]
  BY <1>1, HandedFrom
<1>3. \/ ea' = ea /\ todo' = [todo EXCEPT ![t] = rest]
      \/ InTime(r) /\ ea' = [ea EXCEPT ![r].rc = rc] /\ todo' = [todo EXCEPT ![t] = s]
  BY DEF Write
<1> HIDE DEF s
<1>4. Lag' = Lag
  BY DEF Lag
<1>5. \A x \in Requests : ea'[x].pending = ea[x].pending
  BY <1>1, <1>3, PendingKept
<1>6. ListInv' /\ ArrivalInv' /\ PrvInv' /\ GarbageInv'
  BY KeepList DEF AgeInv
<1>7. QueueInv' /\ SearchInv'
  BY KeepSearch DEF AgeInv, QueueInv
<1>8. HangAgeInv'
  BY <1>5 DEF AgeInv, HangAgeInv
<1>9. ASSUME NEW x \in Threads, NEW i \in DOMAIN todo'[x]
      PROVE  /\ todo'[x][i].er \in inserted
             /\ now <= tps[todo'[x][i].er] + 3 * Ctimeout + 3 + Lag
  <2>1. \A j \in DOMAIN todo[x] : /\ todo[x][j].er \in inserted
                                  /\ now <= tps[todo[x][j].er] + 3 * Ctimeout + 3 + Lag
    BY DEF AgeInv, HandedInv
  <2>2. CASE x # t
    BY <1>1, <1>3, <1>9, <2>1, <2>2
  <2>3. CASE x = t
    <3>1. \A j \in DOMAIN rest : /\ rest[j].er \in inserted
                                 /\ now <= tps[rest[j].er] + 3 * Ctimeout + 3 + Lag
      BY <2>1, <2>3
    <3>2. CASE todo' = [todo EXCEPT ![t] = rest]
      BY <1>1, <1>9, <2>3, <3>1, <3>2
    <3>3. CASE InTime(r) /\ todo' = [todo EXCEPT ![t] = s]
      <4>1. todo'[x] = s
        BY <1>1, <2>3, <3>3
      <4>2. CASE s[i].er \in ToSet(ea[r].pending)
        BY <3>3, <4>1, <4>2, PendingAge
      <4>3. CASE \E j \in DOMAIN rest : s[i] = rest[j]
        BY <3>1, <4>1, <4>3
      <4>4. QED BY <1>2, <1>9, <4>1, <4>2, <4>3
    <3>4. QED BY <1>3, <3>2, <3>3
  <2>4. QED BY <2>2, <2>3
<1>10. HandedInv'
  BY <1>4, <1>9 DEF HandedInv
<1>11. QED BY <1>6, <1>7, <1>8, <1>10 DEF AgeInv

LEMMA AgeDistribute ==
    ASSUME IInv, AgeInv, NEW t \in Threads, Distribute(t)
    PROVE  AgeInv'
<1> DEFINE r == Head(todo[t]).er
           rc == Shared(Head(todo[t]).rc)
<1>1. todo[t] \in Seq(Handed) /\ todo[t] # <<>>
  BY DEF Distribute, IInv, TypeOK
<1>2. /\ Tail(todo[t]) \in Seq(Handed) /\ rc \in Codes
      /\ 1 \in DOMAIN todo[t] /\ Head(todo[t]) = todo[t][1]
      /\ \A j \in DOMAIN Tail(todo[t]) : j + 1 \in DOMAIN todo[t] /\ Tail(todo[t])[j] = todo[t][j + 1]
  BY <1>1 DEF Shared, Codes
<1>3. r \in DOMAIN tps
  BY <1>2, ClockTypes DEF AgeInv, HandedInv
<1>4. Write(t, r, rc, Tail(todo[t]))
      /\ UNCHANGED <<now, tps, inserted, order, queue, found, cutting, garbage, freed, late>>
  BY DEF Distribute
<1> HIDE DEF r, rc
<1>5. QED BY <1>2, <1>3, <1>4, AgeWrite

LEMMA AgeAnswer ==
    ASSUME IInv, AgeInv, NEW t \in ReaderThreads, NEW r \in Requests,
           NEW rc \in {"FOUND", "NOTFOUND"}, Answer(t, r, rc), tasks \subseteq inserted
    PROVE  AgeInv'
<1>1. /\ r \in tasks /\ Write(t, r, rc, <<>>)
      /\ UNCHANGED <<now, tps, inserted, order, queue, found, cutting, garbage, freed, late>>
  BY DEF Answer
<1>2. t \in Threads /\ rc \in Codes /\ <<>> \in Seq(Handed) /\ r \in DOMAIN tps
  BY <1>1, ClockTypes DEF Threads, Codes
<1>3. \A j \in DOMAIN <<>> : \E i \in DOMAIN todo[t] : <<>>[j] = todo[t][i]
  OBVIOUS
<1>4. QED BY <1>1, <1>2, <1>3, AgeWrite

LEMMA AgeEcmTimeout ==
    ASSUME IInv, AgeInv, NEW r \in Requests, EcmTimeout(r)
    PROVE  AgeInv'
<1>1. /\ r \in ToSet(order) \cup DOMAIN garbage /\ Write(r, r, "TIMEOUT", <<>>)
      /\ UNCHANGED <<now, tps, inserted, order, queue, found, cutting, garbage, freed, late>>
  BY DEF EcmTimeout
<1>2. ToSet(order) \subseteq inserted
  BY DEF AgeInv, ListInv, ToSet
<1>3. r \in Threads /\ "TIMEOUT" \in Codes /\ <<>> \in Seq(Handed) /\ r \in DOMAIN tps
  BY <1>1, <1>2, ClockTypes DEF Threads, Codes, AgeInv, GarbageInv
<1>4. \A j \in DOMAIN <<>> : \E i \in DOMAIN todo[r] : <<>>[j] = todo[r][i]
  OBVIOUS
<1>5. QED BY <1>1, <1>3, <1>4, AgeWrite

----------------------------------------------------------------------------
(* The reader *)

\* What is left of the queue, and the request that is taken from it.
LEMMA QueueRest ==
    IInv /\ queue # <<>> =>
        /\ Head(queue) = queue[1] /\ 1 \in DOMAIN queue
        /\ DOMAIN Tail(queue) = 1 .. Len(queue) - 1
        /\ \A i \in DOMAIN Tail(queue) : i + 1 \in DOMAIN queue /\ Tail(queue)[i] = queue[i + 1]
<1>1. IInv => queue \in Seq(Job) /\ Len(queue) \in Nat /\ DOMAIN queue = 1 .. Len(queue)
  BY QueueTypes
<1>2. QED BY <1>1

LEMMA AgeDropRequest ==
    ASSUME IInv, AgeInv, DropRequest
    PROVE  AgeInv'
<1>1. queue # <<>> /\ queue' = Tail(queue)
      /\ UNCHANGED <<now, tps, inserted, order, ea, tasks, found, todo, cutting, garbage, freed, late>>
  BY DEF DropRequest
<1>2. ListInv' /\ ArrivalInv' /\ PrvInv' /\ GarbageInv'
  BY <1>1, KeepList DEF AgeInv
<1>3. QueueInv'
  BY <1>1, QueueRest DEF AgeInv, QueueInv
<1>4. SearchInv' /\ HangAgeInv' /\ HandedInv'
  BY <1>1 DEF AgeInv, SearchInv, HangAgeInv, HandedInv, Lag
<1>5. QED BY <1>2, <1>3, <1>4 DEF AgeInv

\* A job that is not dropped is at most ctimeout + 1 seconds old, and so is a
\* host the search finds.
LEMMA AgeGetEcm ==
    ASSUME IInv, AgeInv, NEW t \in ReaderThreads, GetEcm(t)
    PROVE  AgeInv'
<1> DEFINE r == Head(queue).er
<1>1. /\ queue # <<>> /\ queue' = Tail(queue) /\ ~Dropped(Head(queue).time)
      /\ UNCHANGED <<now, tps, inserted, order, ea, todo, cutting, garbage, freed, late>>
  BY DEF GetEcm
<1>2. \/ \E i \in HostsFor(r) : found' = [found EXCEPT ![t] = <<r, order[i]>>]
      \/ found' = found
  BY DEF GetEcm
<1>3. r \in inserted /\ now <= tps[r] + 2 * Ctimeout + 1
  <2>1. /\ queue[1].er = r /\ r \in inserted /\ queue[1].time \in Nat
        /\ queue[1].time <= tps[r] + Ctimeout
    BY <1>1, QueueRest, QueueTypes DEF AgeInv, QueueInv
  <2>2. now - queue[1].time <= Ctimeout + 1
    BY <1>1, <2>1, QueueRest, ClockTypes DEF Dropped
  <2>3. QED BY <2>1, <2>2, ClockTypes
<1> HIDE DEF r
<1>4. ListInv' /\ ArrivalInv' /\ PrvInv' /\ GarbageInv'
  BY <1>1, KeepList DEF AgeInv
<1>5. QueueInv'
  BY <1>1, QueueRest DEF AgeInv, QueueInv
<1>6. HangAgeInv' /\ HandedInv'
  BY <1>1 DEF AgeInv, HangAgeInv, HandedInv, Lag
<1>7. SearchInv'
  <2>1. CASE \E i \in HostsFor(r) : found' = [found EXCEPT ![t] = <<r, order[i]>>]
    <3>1. PICK i \in HostsFor(r) : found' = [found EXCEPT ![t] = <<r, order[i]>>]
      BY <2>1
    <3>2. i \in DOMAIN order /\ order[i] \in DOMAIN tps /\ Age(order[i]) < Ctimeout + 1
      <4>1. i \in DOMAIN order /\ i \in 1 .. i /\ \A k \in 1 .. i : Age(order[k]) < Ctimeout + 1
        BY <3>1, ListTypes DEF HostsFor, Seen
      <4>2. QED BY <4>1, ClockTypes DEF AgeInv, ListInv
    <3>3. now <= tps[order[i]] + Ctimeout
      BY <3>2, ClockTypes DEF Age
    <3>4. found'[t] = <<r, order[i]>> /\ \A u \in ReaderThreads \ {t} : found'[u] = found[u]
      BY <3>1 DEF IInv, TypeOK
    <3>5. found'[t][1] = r /\ found'[t][2] = order[i] /\ Lag' = Lag
      BY <1>1, <3>4 DEF Lag
    <3>6. /\ now <= tps[r] + 2 * Ctimeout + 1 + Lag
          /\ now <= tps[order[i]] + Ctimeout + Lag
      BY <1>3, <3>2, <3>3, ClockTypes
    <3>7. QED BY <1>1, <3>2, <3>4, <3>5, <3>6 DEF AgeInv, SearchInv
  <2>2. CASE found' = found
    BY <1>1, <2>2 DEF AgeInv, SearchInv, Lag
  <2>3. QED BY <1>2, <2>1, <2>2
<1>8. QED BY <1>4, <1>5, <1>6, <1>7 DEF AgeInv

LEMMA AgeMark ==
    ASSUME IInv, AgeInv, NEW t \in ReaderThreads, Mark(t)
    PROVE  AgeInv'
<1>1. /\ ea' = [ea EXCEPT ![found[t][1]].is_pending = TRUE]
      /\ UNCHANGED <<now, tps, inserted, order, queue, tasks, found, todo, cutting, garbage, freed, late>>
  BY DEF Mark
<1>2. \A x \in Requests : ea'[x].pending = ea[x].pending
  BY <1>1 DEF IInv, TypeOK, AnswerRecord
<1>3. ListInv' /\ ArrivalInv' /\ PrvInv' /\ GarbageInv'
  BY <1>1, KeepList DEF AgeInv
<1>4. QueueInv' /\ SearchInv' /\ HandedInv'
  BY <1>1 DEF AgeInv, QueueInv, SearchInv, HandedInv, Lag
<1>5. HangAgeInv'
  BY <1>1, <1>2 DEF AgeInv, HangAgeInv
<1>6. QED BY <1>3, <1>4, <1>5 DEF AgeInv

\* The request that a thread found a host for is not too old to hang on it.
LEMMA FoundAge ==
    ASSUME IInv, AgeInv, NEW t \in ReaderThreads, found[t] # <<>>
    PROVE  /\ found[t][1] \in DOMAIN tps /\ found[t][2] \in DOMAIN tps
           /\ now <= tps[found[t][1]] + 2 * Ctimeout + 1 + Lag
BY FoundTypes DEF AgeInv, SearchInv

\* A request hangs on a host that came at most 2 * ctimeout + 2 later.
LEMMA AgeHang ==
    ASSUME IInv, AgeInv, NEW r \in DOMAIN tps, NEW h \in DOMAIN tps,
           now <= tps[r] + 2 * Ctimeout + 1 + Lag,
           ea' = [ea EXCEPT ![h].pending = <<r>> \o @],
           \A u \in ReaderThreads : found'[u] \in {found[u], <<>>},
           UNCHANGED <<now, tps, inserted, order, queue, todo, cutting, garbage, freed, late>>
    PROVE  AgeInv'
<1>1. r \in Requests /\ h \in Requests
  BY ClockTypes
<1>3. ListInv' /\ ArrivalInv' /\ PrvInv' /\ GarbageInv'
  BY KeepList DEF AgeInv
<1>4. QueueInv' /\ SearchInv' /\ HandedInv'
  BY KeepSearch DEF AgeInv, QueueInv, HandedInv, Lag
<1>5. ASSUME NEW x \in Requests
      PROVE  \/ ea'[x].pending = ea[x].pending
             \/ x = h /\ ToSet(ea'[x].pending) = ToSet(ea[x].pending) \cup {r}
  <2>0. ea \in [Requests -> AnswerRecord]
    BY DEF IInv, TypeOK
  <2>1. ea'[x].pending = ea[x].pending \/ (x = h /\ ea'[x].pending = <<r>> \o ea[h].pending)
    BY <1>1, <2>0, PendingPut
  <2>2. QED BY <1>1, <2>1, OneMorePending
<1>6. tps[h] <= tps[r] + 2 * Ctimeout + 2
  BY <1>1, ClockTypes DEF AgeInv, ArrivalInv
<1>7. HangAgeInv'
  BY <1>1, <1>5, <1>6 DEF AgeInv, HangAgeInv
<1>8. QED BY <1>3, <1>4, <1>7 DEF AgeInv

LEMMA AgeJoin ==
    ASSUME IInv, AgeInv, NEW t \in ReaderThreads, Join(t)
    PROVE  AgeInv'
<1>1. /\ found[t] # <<>>
      /\ UNCHANGED <<now, tps, inserted, order, queue, cutting, garbage, freed, late>>
      /\ found' = [found EXCEPT ![t] = <<>>]
  BY DEF Join, Marked
<1>2. \A u \in ReaderThreads : found'[u] \in {found[u], <<>>}
  BY <1>1 DEF IInv, TypeOK
<1>3. CASE Write(t, found[t][1], Shared(ea[found[t][2]].rc), <<>>)
  <2>1. /\ Shared(ea[found[t][2]].rc) \in Codes /\ <<>> \in Seq(Handed) /\ t \in Threads
        /\ found[t][1] \in DOMAIN tps
    BY <1>1, FoundTypes DEF Shared, Codes, Threads
  <2>2. \A j \in DOMAIN <<>> : \E i \in DOMAIN todo[t] : <<>>[j] = todo[t][i]
    OBVIOUS
  <2>3. QED BY <1>1, <1>2, <1>3, <2>1, <2>2, AgeWrite
<1>4. CASE ea' = [ea EXCEPT ![found[t][2]].pending = <<found[t][1]>> \o @] /\ UNCHANGED todo
  BY <1>1, <1>2, <1>4, FoundAge, AgeHang
<1>5. QED BY <1>3, <1>4 DEF Join

LEMMA AgeJoinRace ==
    ASSUME IInv, AgeInv, NEW t \in ReaderThreads, NEW u \in ReaderThreads, JoinRace(t, u)
    PROVE  AgeInv'
<1>1. /\ found[t] # <<>> /\ ea' = [ea EXCEPT ![found[t][2]].pending = <<found[t][1]>> \o @]
      /\ UNCHANGED <<now, tps, inserted, order, queue, todo, cutting, garbage, freed, late>>
      /\ found' = [found EXCEPT ![t] = <<>>, ![u] = <<>>]
  BY DEF JoinRace, Marked
<1>2. \A v \in ReaderThreads : found'[v] \in {found[v], <<>>}
  BY <1>1 DEF IInv, TypeOK
<1>3. QED BY <1>1, <1>2, FoundAge, AgeHang

----------------------------------------------------------------------------
(* The clean-up and the collector *)

LEMMA AgeFindOld ==
    ASSUME IInv, AgeInv, FindOld
    PROVE  AgeInv'
<1>1. UNCHANGED <<now, tps, inserted, order, ea, queue, tasks, found, todo, garbage, freed, late>>
  BY DEF FindOld
<1>2. PICK i \in DOMAIN order :
        Old(order[i]) /\ cutting' = <<order[i], IF i = 1 THEN NoRequest ELSE order[i - 1]>>
  BY DEF FindOld
<1>3. PrvInv'
  <2>1. cutting'[1] = order[i] /\ cutting'[2] = IF i = 1 THEN NoRequest ELSE order[i - 1]
    BY <1>2
  <2>2. order[i] \in inserted /\ Old(order[i])'
    BY <1>1, <1>2 DEF AgeInv, ListInv, Old, Age
  <2>3. CASE i = 1
    BY <1>1, <2>1, <2>2, <2>3 DEF PrvInv
  <2>4. CASE i # 1
    <3>1. i - 1 \in DOMAIN order /\ (i - 1) + 1 \in DOMAIN order /\ (i - 1) + 1 = i
      BY <2>4, ListTypes
    <3>2. QED BY <1>1, <2>1, <2>2, <2>4, <3>1 DEF PrvInv
  <2>5. QED BY <2>3, <2>4
<1>4. ListInv' /\ ArrivalInv' /\ GarbageInv'
  BY <1>1 DEF AgeInv, ListInv, ArrivalInv, GarbageInv, Expired, Lag
<1>5. QueueInv' /\ SearchInv' /\ HangAgeInv' /\ HandedInv'
  BY <1>1 DEF AgeInv, QueueInv, SearchInv, HangAgeInv, HandedInv, Lag
<1>6. QED BY <1>3, <1>4, <1>5 DEF AgeInv

\* The list is cut before the old request: what goes to the collector came at
\* most a second after it, and is not in the rest of the list.
LEMMA CutList ==
    ASSUME IInv, AgeInv, Cut
    PROVE  \E n \in 0 .. Len(order) :
             /\ order' = SubSeq(order, 1, n)
             /\ \A g \in From(cutting[1]) : \E k \in DOMAIN order :
                  k > n /\ g = order[k] /\ now > tps[g] + Ctimeout + 2
<1>1. /\ cutting # <<>> /\ cutting[1] \in inserted /\ Old(cutting[1])
      /\ order' = IF cutting[2] = NoRequest THEN <<>> ELSE UpTo(cutting[2])
  BY DEF Cut, AgeInv, PrvInv
<1>2. ASSUME NEW g \in From(cutting[1])
      PROVE  \E k, j \in DOMAIN order : /\ j <= k /\ order[j] = cutting[1] /\ g = order[k]
                                        /\ now > tps[g] + Ctimeout + 2
  <2>1. PICK k \in DOMAIN order : \E j \in 1 .. k : order[j] = cutting[1] /\ g = order[k]
    BY DEF From
  <2>2. PICK j \in 1 .. k : order[j] = cutting[1]
    BY <2>1
  <2>3. j \in DOMAIN order /\ j <= k
    BY <2>2, ListTypes
  <2>4. tps[g] <= tps[cutting[1]] + 1
    BY <2>1, <2>2, <2>3 DEF AgeInv, ListInv
  <2>5. now - tps[cutting[1]] > Ctimeout + 3
    BY <1>1 DEF Old, Age
  <2>6. g \in DOMAIN tps /\ cutting[1] \in DOMAIN tps
    BY <1>1, <2>1, ClockTypes DEF AgeInv, ListInv
  <2>7. now > tps[g] + Ctimeout + 2
    BY <2>4, <2>5, <2>6, ClockTypes
  <2>8. QED BY <2>1, <2>2, <2>3, <2>7
<1>3. CASE cutting[2] = NoRequest
  <2>1. order' = SubSeq(order, 1, 0) /\ 0 \in 0 .. Len(order)
    BY <1>1, <1>3, ListTypes
  <2>2. \A k \in DOMAIN order : k > 0
    BY ListTypes
  <2>3. QED BY <1>2, <2>1, <2>2
<1>4. CASE cutting[2] # NoRequest
  <2>1. PICK i \in DOMAIN order :
               i + 1 \in DOMAIN order /\ cutting[2] = order[i] /\ cutting[1] = order[i + 1]
    BY <1>1, <1>4 DEF AgeInv, PrvInv
  <2>2. UpTo(cutting[2]) = SubSeq(order, 1, i)
    <3> DEFINE n == CHOOSE k \in DOMAIN order : order[k] = cutting[2]
    <3>1. n \in DOMAIN order /\ order[n] = cutting[2]
      BY <2>1
    <3>2. UpTo(cutting[2]) = SubSeq(order, 1, n)
      BY DEF UpTo
    <3> HIDE DEF n
    <3>3. n = i
      BY <2>1, <3>1 DEF AgeInv, ListInv
    <3>4. QED BY <3>2, <3>3
  <2>3. order' = SubSeq(order, 1, i) /\ i \in 0 .. Len(order)
    BY <1>1, <1>4, <2>1, <2>2, ListTypes
  <2>4. \A j \in DOMAIN order : order[j] = cutting[1] => j = i + 1
    BY <2>1 DEF AgeInv, ListInv
  <2>5. \A g \in From(cutting[1]) : \E k \in DOMAIN order :
            k > i /\ g = order[k] /\ now > tps[g] + Ctimeout + 2
    <3>1. \A k, j \in DOMAIN order : j <= k /\ j = i + 1 => k > i
      BY <2>1, ListTypes
    <3>2. QED BY <1>2, <2>4, <3>1
  <2>6. QED BY <2>3, <2>5
<1>5. QED BY <1>3, <1>4

LEMMA AgeCut ==
    ASSUME IInv, AgeInv, Cut
    PROVE  AgeInv'
<1>1. /\ cutting' = <<>> /\ garbage' = [r \in From(cutting[1]) \cup DOMAIN garbage |->
                      IF r \in From(cutting[1]) THEN now ELSE garbage[r]]
      /\ UNCHANGED <<now, tps, inserted, ea, queue, tasks, found, todo, freed, late>>
  BY DEF Cut
<1>2. PICK n \in 0 .. Len(order) :
             /\ order' = SubSeq(order, 1, n)
             /\ \A g \in From(cutting[1]) : \E k \in DOMAIN order :
                  k > n /\ g = order[k] /\ now > tps[g] + Ctimeout + 2
  BY CutList
<1>3. /\ DOMAIN order' = 1 .. n /\ 1 .. n \subseteq DOMAIN order
      /\ \A i \in 1 .. n : order'[i] = order[i]
  BY <1>2, ListTypes
<1>4. ListInv'
  BY <1>1, <1>3 DEF AgeInv, ListInv
<1>5. ArrivalInv' /\ PrvInv'
  BY <1>1 DEF AgeInv, ArrivalInv, PrvInv, Lag
<1>6. GarbageInv'
  <2> DEFINE new == From(cutting[1])
  <2>1. /\ DOMAIN garbage' = new \cup DOMAIN garbage
        /\ \A g \in new : garbage'[g] = now
        /\ \A g \in DOMAIN garbage \ new : garbage'[g] = garbage[g]
    BY <1>1
  <2>2. \A g \in new : /\ g \in inserted /\ g \notin DOMAIN garbage
                       /\ g \notin ToSet(order') /\ now > tps[g] + Ctimeout + 2
    <3>1. \A g \in new : g \in inserted /\ g \notin DOMAIN garbage /\ now > tps[g] + Ctimeout + 2
      BY <1>2 DEF AgeInv, ListInv, GarbageInv, ToSet
    <3>2. \A k \in DOMAIN order : k > n => \A i \in 1 .. n : order[k] # order'[i]
      BY <1>3, ListTypes DEF AgeInv, ListInv
    <3>3. QED BY <1>2, <1>3, <3>1, <3>2 DEF ToSet
  <2>3. \A g \in DOMAIN garbage : g \notin ToSet(order') /\ g \notin new /\ garbage'[g] = garbage[g]
    BY <1>3, <2>1, <2>2 DEF AgeInv, GarbageInv, ToSet
  <2> HIDE DEF new
  <2>4. \A g \in freed : Expired(g)'
    BY <1>1, <2>3 DEF AgeInv, GarbageInv, Expired
  <2>5. \A g \in DOMAIN garbage' : /\ g \notin ToSet(order') /\ garbage'[g] \in Nat
                                   /\ garbage'[g] > tps[g] + Ctimeout + 2
    BY <2>1, <2>2, <2>3, ClockTypes DEF AgeInv, GarbageInv
  <2>6. QED BY <1>1, <2>1, <2>2, <2>4, <2>5 DEF AgeInv, GarbageInv
<1>7. QueueInv' /\ SearchInv' /\ HangAgeInv' /\ HandedInv'
  BY <1>1 DEF AgeInv, QueueInv, SearchInv, HangAgeInv, HandedInv, Lag
<1>8. QED BY <1>4, <1>5, <1>6, <1>7 DEF AgeInv

LEMMA AgeFree ==
    ASSUME IInv, AgeInv, NEW r \in Requests, Free(r)
    PROVE  AgeInv'
<1>1. /\ r \in DOMAIN garbage /\ Expired(r) /\ freed' = freed \cup {r}
      /\ UNCHANGED <<now, tps, inserted, order, ea, queue, tasks, found, todo, cutting, garbage, late>>
  BY DEF Free
<1>2. ListInv' /\ ArrivalInv' /\ PrvInv' /\ GarbageInv'
  BY <1>1 DEF AgeInv, ListInv, ArrivalInv, PrvInv, GarbageInv, Old, Age, Expired, Lag
<1>3. QueueInv' /\ SearchInv' /\ HangAgeInv' /\ HandedInv'
  BY <1>1 DEF AgeInv, QueueInv, SearchInv, HangAgeInv, HandedInv, Lag
<1>4. QED BY <1>2, <1>3 DEF AgeInv

----------------------------------------------------------------------------
(* A request is sent once, and of equal ECMs one at a time *)

OnceInv == SentInv /\ OneOnItsWay

LEMMA OnceInit ==
    Init => OnceInv
<1> SUFFICES ASSUME Init PROVE OnceInv
  OBVIOUS
<1>1. \A r \in Requests : ea[r] = NoAnswer /\ ~NoAnswer.is_pending
  BY DEF Init, NoAnswer
<1>2. /\ DOMAIN order = {} /\ DOMAIN queue = {} /\ tasks = {}
      /\ \A t \in ReaderThreads : found[t] = <<>>
  BY DEF Init
<1>3. QED BY <1>1, <1>2 DEF OnceInv, SentInv, OneOnItsWay, Seen

\* A step that leaves queue and search alone, and takes back nothing that was
\* sent or answered.
LEMMA KeepOnce ==
    ASSUME IInv, OnceInv, UNCHANGED <<inserted, queue, found>>, tasks' \subseteq tasks,
           \A x \in Requests : /\ ea'[x].sent = ea[x].sent /\ ea'[x].is_pending = ea[x].is_pending
                               /\ Answered(x) => Answered(x)',
           Seen' \subseteq Seen, \A i \in Seen' : order'[i] = order[i]
    PROVE  OnceInv'
<1>1. SentInv'
  <2>1. \A i \in DOMAIN queue : queue[i].er \in Requests
    BY QueueTypes, ClockTypes
  <2>2. \A r \in tasks : r \in Requests
    BY DEF IInv, TypeOK
  <2>3. \A t \in ReaderThreads : found[t] # <<>> => found[t][1] \in Requests
    BY FoundTypes
  <2>4. QED BY <2>1, <2>2, <2>3 DEF OnceInv, SentInv
<1>2. OneOnItsWay'
  <2>1. \A r \in tasks' : ~Answered(r)' => r \in tasks /\ ~Answered(r)
    BY DEF IInv, TypeOK
  <2>2. QED BY <2>1 DEF OnceInv, OneOnItsWay
<1>3. QED BY <1>1, <1>2 DEF OnceInv

\* The search only loses what was in reach.
LEMMA SeenLess ==
    ASSUME IInv, AgeInv, UNCHANGED inserted, now' \in Nat, now <= now',
           \A r \in DOMAIN tps : tps'[r] = tps[r],
           DOMAIN order' \subseteq DOMAIN order, \A i \in DOMAIN order' : order'[i] = order[i],
           \A i \in DOMAIN order' : 1 .. i \subseteq DOMAIN order'
    PROVE  Seen' \subseteq Seen /\ \A i \in Seen' : order'[i] = order[i]
<1>1. ASSUME NEW i \in Seen'
      PROVE  i \in Seen /\ order'[i] = order[i]
  <2>1. i \in DOMAIN order' /\ \A k \in 1 .. i : now' - tps'[order'[k]] < Ctimeout + 1
    BY <1>1 DEF Seen, Age
  <2>2. ASSUME NEW k \in 1 .. i
        PROVE  Age(order[k]) < Ctimeout + 1
    <3>1. k \in DOMAIN order' /\ order'[k] = order[k] /\ order[k] \in DOMAIN tps
      BY <2>1, ClockTypes DEF AgeInv, ListInv
    <3>2. now' - tps[order[k]] < Ctimeout + 1
      BY <2>1, <3>1 DEF Age
    <3>3. QED BY <3>1, <3>2, ClockTypes DEF Age
  <2>3. QED BY <2>1, <2>2 DEF Seen
<1>2. QED BY <1>1

LEMMA OnceWrite ==
    ASSUME IInv, OnceInv, NEW t \in Threads, NEW r \in Requests, NEW rc \in Codes,
           NEW rest, Write(t, r, rc, rest),
           UNCHANGED <<now, tps, inserted, order, queue, found>>, tasks' \subseteq tasks
    PROVE  OnceInv'
<1>1. ea \in [Requests -> AnswerRecord] /\ rc # "UNHANDLED"
  BY DEF IInv, TypeOK, Codes
<1>2. ea' = ea \/ ea' = [ea EXCEPT ![r].rc = rc]
  BY DEF Write
<1>3. \A x \in Requests : /\ ea'[x].sent = ea[x].sent /\ ea'[x].is_pending = ea[x].is_pending
                          /\ Answered(x) => Answered(x)'
  BY <1>1, <1>2 DEF AnswerRecord, Answered
<1>4. Seen' = Seen
  BY DEF Seen, Age
<1>5. QED BY <1>3, <1>4, KeepOnce

LEMMA OnceTick ==
    ASSUME IInv, AgeInv, OnceInv, Tick
    PROVE  OnceInv'
<1>1. now' = now + 1 /\ UNCHANGED <<tps, inserted, order, ea, queue, tasks, found>>
  BY DEF Tick
<1>2. Seen' \subseteq Seen /\ \A i \in Seen' : order'[i] = order[i]
  <2>1. \A i \in DOMAIN order : 1 .. i \subseteq DOMAIN order
    BY ListTypes
  <2>2. now' \in Nat /\ now <= now'
    BY <1>1, ClockTypes
  <2>3. QED BY <1>1, <2>1, <2>2, SeenLess
<1>3. QED BY <1>1, <1>2, KeepOnce DEF Answered

LEMMA OnceReceive ==
    ASSUME IInv, AgeInv, OnceInv, NEW r \in Requests, Receive(r)
    PROVE  OnceInv'
<1>1. r \notin DOMAIN tps /\ tps' = [x \in DOMAIN tps \cup {r} |-> IF x = r THEN now ELSE tps[x]]
      /\ UNCHANGED <<now, inserted, order, ea, queue, tasks, found>>
  BY DEF Receive
<1>2. Seen' \subseteq Seen /\ \A i \in Seen' : order'[i] = order[i]
  <2>1. \A i \in DOMAIN order : 1 .. i \subseteq DOMAIN order
    BY ListTypes
  <2>2. now' \in Nat /\ now <= now' /\ \A x \in DOMAIN tps : tps'[x] = tps[x]
    BY <1>1, ClockTypes
  <2>3. QED BY <1>1, <2>1, <2>2, SeenLess
<1>3. QED BY <1>1, <1>2, KeepOnce DEF Answered

\* The new request was not sent yet.
LEMMA OnceInsert ==
    ASSUME IInv, OnceInv, NEW r \in Requests, Insert(r)
    PROVE  OnceInv'
<1>1. /\ r \notin inserted /\ inserted' = inserted \cup {r} /\ order' = <<r>> \o order
      /\ UNCHANGED <<now, tps, ea, queue, tasks, found>>
  BY DEF Insert
<1>2. /\ DOMAIN order' = 1 .. Len(order) + 1 /\ order'[1] = r
      /\ \A i \in DOMAIN order : order'[i + 1] = order[i]
      /\ \A i \in DOMAIN order' : i = 1 \/ (i - 1 \in DOMAIN order /\ order'[i] = order[i - 1])
  BY <1>1, ListTypes
<1>3. SentInv'
  BY <1>1 DEF OnceInv, SentInv
<1>4. ASSUME NEW i \in Seen', i # 1
      PROVE  i - 1 \in Seen /\ order'[i] = order[i - 1]
  <2>1. i \in DOMAIN order' /\ \A k \in 1 .. i : now - tps[order'[k]] < Ctimeout + 1
    BY <1>1 DEF Seen, Age
  <2>2. i - 1 \in DOMAIN order /\ order'[i] = order[i - 1]
    BY <1>2, <1>4, <2>1
  <2>3. \A k \in 1 .. i - 1 : k \in DOMAIN order /\ k + 1 \in 1 .. i
    BY <2>1, <2>2, ListTypes, <1>2
  <2>4. \A k \in 1 .. i - 1 : now - tps[order[k]] < Ctimeout + 1
    BY <1>2, <2>1, <2>3
  <2>5. QED BY <2>2, <2>4 DEF Seen, Age
<1>5. OneOnItsWay'
  <2>1. ASSUME NEW i \in Seen', NEW j \in Seen', order'[i] \in tasks, order'[j] \in tasks,
               ~Answered(order'[i]), ~Answered(order'[j])
        PROVE  i = j
    <3>1. i # 1 /\ j # 1
      BY <1>1, <1>2, <2>1 DEF OnceInv, SentInv
    <3>2. i - 1 \in Seen /\ order'[i] = order[i - 1] /\ j - 1 \in Seen /\ order'[j] = order[j - 1]
      BY <1>4, <3>1
    <3>3. i - 1 = j - 1
      BY <2>1, <3>2 DEF OnceInv, OneOnItsWay
    <3>4. i \in Nat /\ j \in Nat
      BY <1>2, ListTypes DEF Seen
    <3>5. QED BY <3>3, <3>4
  <2>2. QED BY <1>1, <2>1 DEF OneOnItsWay, Answered
<1>6. QED BY <1>3, <1>5 DEF OnceInv

\* A request is asked for once.
LEMMA OnceAsk ==
    ASSUME IInv, OnceInv, NEW r \in Requests, Ask(r)
    PROVE  OnceInv'
<1> DEFINE n == Len(queue) + 1
<1>1. /\ r \in inserted /\ ~ea[r].sent /\ ea' = [ea EXCEPT ![r].sent = TRUE]
      /\ queue' = Append(queue, [er |-> r, time |-> now])
      /\ UNCHANGED <<now, tps, inserted, order, tasks, found>>
  BY DEF Ask
<1>2. /\ DOMAIN queue' = 1 .. n /\ queue'[n].er = r /\ n \notin DOMAIN queue
      /\ \A i \in DOMAIN queue : queue'[i] = queue[i]
      /\ \A i \in DOMAIN queue' : i = n \/ i \in DOMAIN queue
  BY <1>1, QueueTypes
<1> HIDE DEF n
<1>3. /\ ea'[r].sent /\ ea'[r].is_pending = ea[r].is_pending /\ ea'[r].rc = ea[r].rc
      /\ \A x \in Requests \ {r} : ea'[x] = ea[x]
  BY <1>1 DEF IInv, TypeOK, AnswerRecord
<1>4. /\ ~ea[r].is_pending /\ r \notin tasks
      /\ \A t \in ReaderThreads : found[t] # <<>> => found[t][1] # r
      /\ \A i \in DOMAIN queue : queue[i].er # r /\ queue[i].er \in Requests
  BY <1>1, QueueTypes, ClockTypes DEF OnceInv, SentInv
<1>5. SentInv'
  <2>1. \A x \in Requests : ea'[x].is_pending => ea'[x].sent
    BY <1>3 DEF OnceInv, SentInv
  <2>2. ASSUME NEW i \in DOMAIN queue'
        PROVE  /\ ea'[queue'[i].er].sent /\ ~ea'[queue'[i].er].is_pending
               /\ queue'[i].er \notin tasks
               /\ \A t \in ReaderThreads : found[t] # <<>> => found[t][1] # queue'[i].er
    BY <1>2, <1>3, <1>4 DEF OnceInv, SentInv
  <2>3. \A i, j \in DOMAIN queue' : queue'[i].er = queue'[j].er => i = j
    BY <1>2, <1>4 DEF OnceInv, SentInv
  <2>4. ASSUME NEW t \in ReaderThreads, found[t] # <<>>
        PROVE  found[t][1] \notin tasks /\ ea'[found[t][1]].sent
    <3>1. found[t][1] \in Requests
      BY <2>4, FoundTypes
    <3>2. QED BY <1>3, <2>4, <3>1 DEF OnceInv, SentInv
  <2>5. \A x \in tasks : x \in inserted /\ ea'[x].sent /\ ~ea'[x].is_pending
    <3>1. tasks \subseteq Requests
      BY DEF IInv, TypeOK
    <3>2. QED BY <1>3, <1>4, <3>1 DEF OnceInv, SentInv
  <2>6. QED BY <1>1, <2>1, <2>2, <2>3, <2>4, <2>5 DEF SentInv
<1>6. OneOnItsWay'
  <2>1. \A x \in Requests : Answered(x)' = Answered(x)
    BY <1>3 DEF Answered
  <2>2. Seen' = Seen
    BY <1>1 DEF Seen, Age
  <2>3. QED BY <1>1, <2>1, <2>2 DEF OnceInv, OneOnItsWay, IInv, TypeOK
<1>7. QED BY <1>5, <1>6 DEF OnceInv

LEMMA OnceDistribute ==
    ASSUME IInv, OnceInv, NEW t \in Threads, Distribute(t)
    PROVE  OnceInv'
<1> DEFINE r == Head(todo[t]).er
           rc == Shared(Head(todo[t]).rc)
<1>1. todo[t] \in Seq(Handed) /\ todo[t] # <<>>
  BY DEF Distribute, IInv, TypeOK
<1>2. r \in Requests /\ rc \in Codes
  BY <1>1, RestOf DEF Shared, Codes
<1>3. Write(t, r, rc, Tail(todo[t])) /\ UNCHANGED <<now, tps, inserted, order, queue, tasks, found>>
  BY DEF Distribute
<1> HIDE DEF r, rc
<1>4. QED BY <1>2, <1>3, OnceWrite

LEMMA OnceAnswer ==
    ASSUME IInv, OnceInv, NEW t \in ReaderThreads, NEW r \in Requests,
           NEW rc \in {"FOUND", "NOTFOUND"}, Answer(t, r, rc)
    PROVE  OnceInv'
<1>1. /\ Write(t, r, rc, <<>>) /\ tasks' \subseteq tasks
      /\ UNCHANGED <<now, tps, inserted, order, queue, found>>
  BY DEF Answer
<1>2. t \in Threads /\ rc \in Codes
  BY DEF Threads, Codes
<1>3. QED BY <1>1, <1>2, OnceWrite

LEMMA OnceEcmTimeout ==
    ASSUME IInv, OnceInv, NEW r \in Requests, EcmTimeout(r)
    PROVE  OnceInv'
<1>1. /\ Write(r, r, "TIMEOUT", <<>>) /\ tasks' \subseteq tasks
      /\ UNCHANGED <<now, tps, inserted, order, queue, found>>
  BY DEF EcmTimeout
<1>2. r \in Threads /\ "TIMEOUT" \in Codes
  BY DEF Threads, Codes
<1>3. QED BY <1>1, <1>2, OnceWrite

LEMMA OnceDropRequest ==
    ASSUME IInv, OnceInv, DropRequest
    PROVE  OnceInv'
<1>1. queue # <<>> /\ queue' = Tail(queue)
      /\ UNCHANGED <<now, tps, inserted, order, ea, tasks, found>>
  BY DEF DropRequest
<1>2. SentInv'
  BY <1>1, QueueRest, QueueTypes DEF OnceInv, SentInv
<1>3. OneOnItsWay'
  BY <1>1 DEF OnceInv, OneOnItsWay, Seen, Age, Answered
<1>4. QED BY <1>2, <1>3 DEF OnceInv

\* The ECM goes to the card or the server when no host is in reach: none of the
\* others is then on its way.
LEMMA OnceGetEcm ==
    ASSUME IInv, AgeInv, OnceInv, NEW t \in ReaderThreads, GetEcm(t)
    PROVE  OnceInv'
<1> DEFINE r == Head(queue).er
<1>1. /\ queue # <<>> /\ queue' = Tail(queue)
      /\ UNCHANGED <<now, tps, inserted, order, ea>>
  BY DEF GetEcm
<1>2. \/ /\ tasks' = tasks
         /\ found' = found \/ \E i \in HostsFor(r) : found' = [found EXCEPT ![t] = <<r, order[i]>>]
      \/ tasks' = tasks \cup {r} /\ HostsFor(r) = {} /\ found' = found
  BY DEF GetEcm
<1>3. /\ r \in inserted /\ ea[r].sent /\ ~ea[r].is_pending /\ r \notin tasks
      /\ \A i \in DOMAIN queue : i # 1 => queue[i].er # r
      /\ \A u \in ReaderThreads : found[u] # <<>> => found[u][1] # r
  <2>1. r = queue[1].er /\ 1 \in DOMAIN queue
    BY <1>1, QueueRest
  <2>2. QED BY <2>1, QueueTypes DEF OnceInv, SentInv
<1>4. /\ \A i \in DOMAIN queue' : i + 1 \in DOMAIN queue /\ i + 1 # 1 /\ queue'[i] = queue[i + 1]
      /\ \A i \in DOMAIN queue' : i \in Nat
  BY <1>1, QueueRest, QueueTypes
<1> HIDE DEF r
<1>5. ASSUME NEW u \in ReaderThreads, found'[u] # <<>>
      PROVE  (found'[u][1] = r /\ tasks' = tasks) \/ found'[u] = found[u]
  <2>1. CASE \E i \in HostsFor(r) : found' = [found EXCEPT ![t] = <<r, order[i]>>] /\ tasks' = tasks
    <3>1. PICK i \in HostsFor(r) : found' = [found EXCEPT ![t] = <<r, order[i]>>] /\ tasks' = tasks
      BY <2>1
    <3>2. found'[u] = found[u] \/ found'[u] = <<r, order[i]>>
      BY <3>1 DEF IInv, TypeOK
    <3>3. QED BY <3>1, <3>2
  <2>2. QED BY <1>2, <2>1
<1>6. SentInv'
  <2>1. tasks' \subseteq tasks \cup {r}
    BY <1>2
  <2>2. \A i \in DOMAIN queue' : queue'[i].er # r
    BY <1>3, <1>4
  <2>3. \A i \in DOMAIN queue' : /\ ea[queue'[i].er].sent /\ ~ea[queue'[i].er].is_pending
                                 /\ queue'[i].er \notin tasks
    BY <1>4 DEF OnceInv, SentInv
  <2>4. \A i, j \in DOMAIN queue' : queue'[i].er = queue'[j].er => i = j
    <3>1. \A i, j \in DOMAIN queue' : queue'[i].er = queue'[j].er => i + 1 = j + 1
      BY <1>4 DEF OnceInv, SentInv
    <3>2. QED BY <1>4, <3>1
  <2>5. ASSUME NEW u \in ReaderThreads, found'[u] # <<>>
        PROVE  /\ found'[u][1] \notin tasks' /\ ea[found'[u][1]].sent
               /\ \A i \in DOMAIN queue' : found'[u][1] # queue'[i].er
    <3>1. CASE found'[u][1] = r /\ tasks' = tasks
      BY <1>3, <2>2, <3>1
    <3>2. CASE found'[u] = found[u]
      BY <1>3, <1>4, <2>1, <2>5, <3>2 DEF OnceInv, SentInv
    <3>3. QED BY <1>5, <2>5, <3>1, <3>2
  <2>6. \A x \in tasks' : x \in inserted /\ ea[x].sent /\ ~ea[x].is_pending
    BY <1>3, <2>1 DEF OnceInv, SentInv
  <2>7. \A i \in DOMAIN queue' : queue'[i].er \notin tasks'
    BY <2>1, <2>2, <2>3
  <2>8. \A x \in Requests : ea[x].is_pending => ea[x].sent
    BY DEF OnceInv, SentInv
  <2>9. QED BY <1>1, <2>3, <2>4, <2>5, <2>6, <2>7, <2>8 DEF SentInv
<1>7. OneOnItsWay'
  <2>1. Seen' = Seen /\ \A x : Answered(x)' = Answered(x)
    BY <1>1 DEF Seen, Age, Answered
  <2>2. CASE tasks' = tasks
    BY <1>1, <2>1, <2>2 DEF OnceInv, OneOnItsWay
  <2>3. CASE tasks' = tasks \cup {r} /\ HostsFor(r) = {}
    <3>1. ASSUME NEW i \in Seen, order[i] \in tasks, ~Answered(order[i])
          PROVE  FALSE
      <4>1. order[i] # r /\ Host(order[i])
        BY <1>3, <3>1 DEF OnceInv, SentInv, Host, Answered
      <4>2. QED BY <2>3, <3>1, <4>1 DEF HostsFor
    <3>2. \A i, j \in Seen : order[i] = r /\ order[j] = r => i = j
      BY DEF Seen, AgeInv, ListInv
    <3>3. QED BY <1>1, <2>1, <2>3, <3>1, <3>2 DEF OneOnItsWay
  <2>4. QED BY <1>2, <2>2, <2>3
<1>8. QED BY <1>6, <1>7 DEF OnceInv

LEMMA OnceMark ==
    ASSUME IInv, OnceInv, NEW t \in ReaderThreads, Mark(t)
    PROVE  OnceInv'
<1> DEFINE r == found[t][1]
<1>1. /\ found[t] # <<>> /\ ea' = [ea EXCEPT ![r].is_pending = TRUE]
      /\ UNCHANGED <<now, tps, inserted, order, queue, tasks, found>>
  BY DEF Mark
<1>2. r \in Requests /\ ea[r].sent /\ r \notin tasks /\ \A i \in DOMAIN queue : queue[i].er # r
  BY <1>1, FoundTypes DEF OnceInv, SentInv
<1> HIDE DEF r
<1>3. \A x \in Requests : /\ ea'[x].sent = ea[x].sent /\ ea'[x].rc = ea[x].rc
                          /\ x # r => ea'[x].is_pending = ea[x].is_pending
  BY <1>1, <1>2 DEF IInv, TypeOK, AnswerRecord
<1>4. /\ tasks \subseteq Requests /\ \A i \in DOMAIN queue : queue[i].er \in Requests
      /\ \A u \in ReaderThreads : found[u] # <<>> => found[u][1] \in Requests
  BY QueueTypes, ClockTypes, FoundTypes DEF IInv, TypeOK
<1>5. SentInv'
  BY <1>1, <1>2, <1>3, <1>4 DEF OnceInv, SentInv
<1>6. OneOnItsWay'
  <2>1. \A x \in Requests : Answered(x)' = Answered(x)
    BY <1>3 DEF Answered
  <2>2. Seen' = Seen
    BY <1>1 DEF Seen, Age
  <2>3. QED BY <1>1, <1>4, <2>1, <2>2 DEF OnceInv, OneOnItsWay
<1>7. QED BY <1>5, <1>6 DEF OnceInv

\* A search that ended takes nothing back that was sent or answered.
LEMMA OnceJoined ==
    ASSUME IInv, OnceInv, UNCHANGED <<now, tps, inserted, order, queue, tasks>>,
           \A u \in ReaderThreads : found'[u] \in {found[u], <<>>},
           \A x \in Requests : /\ ea'[x].sent = ea[x].sent /\ ea'[x].is_pending = ea[x].is_pending
                               /\ Answered(x) => Answered(x)'
    PROVE  OnceInv'
<1>1. /\ tasks \subseteq Requests /\ \A i \in DOMAIN queue : queue[i].er \in Requests
      /\ \A u \in ReaderThreads : found[u] # <<>> => found[u][1] \in Requests
  BY QueueTypes, ClockTypes, FoundTypes DEF IInv, TypeOK
<1>2. SentInv'
  <2>1. \A u \in ReaderThreads : found'[u] # <<>> => found'[u] = found[u]
    OBVIOUS
  <2>2. QED BY <1>1, <2>1 DEF OnceInv, SentInv
<1>3. OneOnItsWay'
  <2>1. Seen' = Seen
    BY DEF Seen, Age
  <2>2. QED BY <1>1, <2>1 DEF OnceInv, OneOnItsWay
<1>4. QED BY <1>2, <1>3 DEF OnceInv

LEMMA OnceJoin ==
    ASSUME IInv, OnceInv, NEW t \in ReaderThreads,
           Join(t) \/ \E u \in ReaderThreads : JoinRace(t, u)
    PROVE  OnceInv'
<1> DEFINE r == found[t][1]
           h == found[t][2]
           rc == Shared(ea[h].rc)
<1>1. /\ found[t] # <<>> /\ UNCHANGED <<now, tps, inserted, order, queue, tasks>>
      /\ \E u \in ReaderThreads : \/ found' = [found EXCEPT ![t] = <<>>]
                                  \/ found' = [found EXCEPT ![t] = <<>>, ![u] = <<>>]
  BY DEF Join, JoinRace, Marked
<1>2. \A v \in ReaderThreads : found'[v] \in {found[v], <<>>}
  BY <1>1 DEF IInv, TypeOK
<1>3. \/ ea' = ea \/ ea' = [ea EXCEPT ![r].rc = rc]
      \/ ea' = [ea EXCEPT ![h].pending = <<r>> \o @]
  BY DEF Join, JoinRace, Write
<1>4. ea \in [Requests -> AnswerRecord] /\ rc # "UNHANDLED"
  BY DEF IInv, TypeOK, Shared
<1> HIDE DEF r, h, rc
<1>5. ASSUME NEW x \in Requests
      PROVE  /\ ea'[x].sent = ea[x].sent /\ ea'[x].is_pending = ea[x].is_pending
             /\ Answered(x) => Answered(x)'
  <2>1. CASE ea' = ea
    BY <2>1 DEF Answered
  <2>2. CASE ea' = [ea EXCEPT ![r].rc = rc]
    BY <1>4, <2>2 DEF AnswerRecord, Answered
  <2>3. CASE ea' = [ea EXCEPT ![h].pending = <<r>> \o @]
    BY <1>4, <2>3 DEF AnswerRecord, Answered
  <2>4. QED BY <1>3, <2>1, <2>2, <2>3
<1>6. QED BY <1>1, <1>2, <1>5, OnceJoined

LEMMA OnceCut ==
    ASSUME IInv, AgeInv, OnceInv, Cut
    PROVE  OnceInv'
<1>1. UNCHANGED <<now, tps, inserted, ea, queue, tasks, found>>
  BY DEF Cut
<1>2. PICK n \in 0 .. Len(order) : order' = SubSeq(order, 1, n)
  BY CutList
<1>3. /\ DOMAIN order' = 1 .. n /\ 1 .. n \subseteq DOMAIN order
      /\ \A i \in 1 .. n : order'[i] = order[i] /\ 1 .. i \subseteq 1 .. n
  BY <1>2, ListTypes
<1>4. Seen' \subseteq Seen /\ \A i \in Seen' : order'[i] = order[i]
  BY <1>1, <1>3, SeenLess, ClockTypes
<1>5. QED BY <1>1, <1>4, KeepOnce DEF Answered

LEMMA OnceOther ==
    ASSUME IInv, OnceInv, UNCHANGED <<now, tps, inserted, order, ea, queue, tasks, found>>
    PROVE  OnceInv'
BY DEF OnceInv, SentInv, OneOnItsWay, Seen, Age, Answered

----------------------------------------------------------------------------
LEMMA AgeInvariance ==
    Spec => [](IInv /\ AgeInv /\ OnceInv)
<1>1. Init => IInv /\ AgeInv /\ OnceInv
  BY InitHolds, AgeInit, OnceInit
<1>2. IInv /\ AgeInv /\ OnceInv /\ [Next]_vars => AgeInv' /\ OnceInv'
  <2> SUFFICES ASSUME IInv, AgeInv, OnceInv, [Next]_vars PROVE AgeInv' /\ OnceInv'
    OBVIOUS
  <2>1. CASE Tick
    BY <2>1, AgeTick, OnceTick
  <2>2. ASSUME NEW r \in Requests, Receive(r)
        PROVE  AgeInv' /\ OnceInv'
    BY <2>2, AgeReceive, OnceReceive
  <2>3. ASSUME NEW r \in Requests, Insert(r)
        PROVE  AgeInv' /\ OnceInv'
    BY <2>3, AgeInsert, OnceInsert
  <2>4. ASSUME NEW r \in Requests, Ask(r)
        PROVE  AgeInv' /\ OnceInv'
    BY <2>4, AgeAsk, OnceAsk
  <2>5. ASSUME NEW r \in Requests, EcmTimeout(r)
        PROVE  AgeInv' /\ OnceInv'
    BY <2>5, AgeEcmTimeout, OnceEcmTimeout
  <2>6. ASSUME NEW r \in Requests, Free(r)
        PROVE  AgeInv' /\ OnceInv'
    BY <2>6, AgeFree, OnceOther DEF Free
  <2>7. ASSUME NEW t \in ReaderThreads, NEW r \in Requests,
               NEW rc \in {"FOUND", "NOTFOUND"}, Answer(t, r, rc)
        PROVE  AgeInv' /\ OnceInv'
    <3>1. tasks \subseteq inserted
      BY DEF OnceInv, SentInv
    <3>2. QED BY <2>7, <3>1, AgeAnswer, OnceAnswer
  <2>8. ASSUME NEW t \in Threads, Distribute(t)
        PROVE  AgeInv' /\ OnceInv'
    BY <2>8, AgeDistribute, OnceDistribute
  <2>9. CASE DropRequest
    BY <2>9, AgeDropRequest, OnceDropRequest
  <2>10. ASSUME NEW t \in ReaderThreads, GetEcm(t) \/ Mark(t)
         PROVE  AgeInv' /\ OnceInv'
    BY <2>10, AgeGetEcm, OnceGetEcm, AgeMark, OnceMark
  <2>11. ASSUME NEW t \in ReaderThreads, Join(t) \/ \E u \in ReaderThreads : JoinRace(t, u)
         PROVE  AgeInv' /\ OnceInv'
    BY <2>11, AgeJoin, AgeJoinRace, OnceJoin
  <2>12. CASE FindOld
    BY <2>12, AgeFindOld, OnceOther DEF FindOld
  <2>13. CASE Cut
    BY <2>13, AgeCut, OnceCut
  <2>14. CASE UNCHANGED vars
    <3>1. AgeInv'
      BY <2>14 DEF vars, AgeInv, ListInv, ArrivalInv, PrvInv, GarbageInv, QueueInv, SearchInv,
                   HangAgeInv, HandedInv, Old, Age, Expired, Lag
    <3>2. QED BY <2>14, <3>1, OnceOther DEF vars
  <2>15. QED BY <2>1, <2>2, <2>3, <2>4, <2>5, <2>6, <2>7, <2>8, <2>9, <2>10, <2>11, <2>12, <2>13,
                <2>14 DEF Next
<1>3. QED BY <1>1, <1>2, Invariance, PTL DEF Spec

\* NoUseAfterFree for every number of requests and every client time-out: with
\* threads that take at most two seconds from one step to the next, what the
\* collector frees is older than all that a queue, the reader's table, a search,
\* a pending list or a job still points to.
THEOREM NothingFreedInUse == Spec => []NoUseAfterFree
<1>1. IInv /\ AgeInv => NoUseAfterFree
  BY AgesSuffice
<1>2. QED BY <1>1, AgeInvariance, PTL

\* OneOnItsWay for every number of requests: of equal ECMs that the search
\* reaches, one at most is with the card or the server and unanswered.
THEOREM OneAtATime == Spec => []OneOnItsWay
<1>1. OnceInv => OneOnItsWay
  BY DEF OnceInv
<1>2. QED BY <1>1, AgeInvariance, PTL
===============================================================================
