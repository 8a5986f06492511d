------------------------------- MODULE CsLock -------------------------------
(***************************************************************************)
(* The CS_MUTEX_LOCK of ncam-lock.c: two counters, writelock and readlock, *)
(* that count the threads that hold OR wait for the lock, and a condition  *)
(* variable for each.  A waiter waits once and does not look at the        *)
(* counters again when it is woken.  Every operation runs under the        *)
(* pthread mutex of the lock, so it is one step; a signalled thread takes  *)
(* the mutex again, and enters, in a later step of its own.                *)
(*                                                                         *)
(* A waiter whose holder does not unlock in time enforces its entry; the   *)
(* history variable enforced tells whether that has happened.  Any thread  *)
(* reads and writes.  Not modelled: cs_lock_destroy, spurious wake-ups.    *)
(***************************************************************************)
EXTENDS Integers, FiniteSets

CONSTANT Threads   \* the threads that use the lock

ASSUME ThreadsAssumption == IsFiniteSet(Threads)

VARIABLES
    writelock,   \* l->writelock
    readlock,    \* l->readlock
    pc,          \* where each thread is
    enforced     \* history: some entry was enforced after the time-out

vars == <<writelock, readlock, pc, enforced>>

At(S) == {t \in Threads : pc[t] \in S}
WriterStates == {"waitW", "wokenW", "inW"}
ReaderStates == {"waitR", "wokenR", "inR"}
\* who is inside or has been let in
Granted == {"wokenW", "inW", "wokenR", "inR"}

Goto(t, state) == pc' = [pc EXCEPT ![t] = state]

----------------------------------------------------------------------------
Init ==
    /\ writelock = 0 /\ readlock = 0
    /\ pc = [t \in Threads |-> "out"]
    /\ enforced = FALSE

\* The tests of cs_rwlock_int, after the own counter went up
\* (mutant: the second writer passes)
MutWriteBusy == writelock > 1 \/ readlock > 0
WriteBusy == writelock > 0 \/ readlock > 0
ReadBusy == writelock > 0

\* cs_rwlock_int(WRITELOCK)
WriteLock(t) ==
    /\ pc[t] = "out"
    /\ writelock' = writelock + 1
    /\ Goto(t, IF WriteBusy THEN "waitW" ELSE "inW")
    /\ UNCHANGED <<readlock, enforced>>

\* cs_rwlock_int(READLOCK)
ReadLock(t) ==
    /\ pc[t] = "out"
    /\ readlock' = readlock + 1
    /\ Goto(t, IF ReadBusy THEN "waitR" ELSE "inR")
    /\ UNCHANGED <<writelock, enforced>>

\* cs_try_rwlock_int; when the lock is busy it only reports so
TryWriteLock(t) ==
    /\ pc[t] = "out"
    /\ ~WriteBusy
    /\ writelock' = writelock + 1
    /\ Goto(t, "inW")
    /\ UNCHANGED <<readlock, enforced>>

TryReadLock(t) ==
    /\ pc[t] = "out"
    /\ ~ReadBusy
    /\ readlock' = readlock + 1
    /\ Goto(t, "inR")
    /\ UNCHANGED <<writelock, enforced>>

\* A signalled thread returns from pthread_cond_timedwait and enters
Enter(t) ==
    /\ \/ pc[t] = "wokenW" /\ Goto(t, "inW")
       \/ pc[t] = "wokenR" /\ Goto(t, "inR")
    /\ UNCHANGED <<writelock, readlock, enforced>>

\* The signals of cs_rwunlock_int, sent with the new counters w and r: one
\* waiting writer, else, after a write lock only, all waiting readers.
SignalWriter(state) ==
    IF \E u \in Threads : state[u] = "waitW"
      THEN \E u \in Threads : /\ state[u] = "waitW"
                              /\ pc' = [state EXCEPT ![u] = "wokenW"]
      ELSE pc' = state

BroadcastReaders(state) ==
    pc' = [u \in Threads |-> IF state[u] = "waitR" THEN "wokenR" ELSE state[u]]

\* mutant: no signal of a READLOCK holder
MutSignalByWriterOnly(w, r, type, state) ==
    IF type = "inR" THEN pc' = state
    ELSE IF w > 0 THEN SignalWriter(state) ELSE BroadcastReaders(state)

\* mutant: waiting readers have priority
MutReadersFirst(w, r, type, state) ==
    IF r > 0 /\ type # "inR" THEN BroadcastReaders(state)
    ELSE IF w > 0 THEN SignalWriter(state)
    ELSE pc' = state

Signal(w, r, type, state) ==
    IF w > 0 THEN SignalWriter(state)
    ELSE IF r > 0 /\ type # "inR" THEN BroadcastReaders(state)
    ELSE pc' = state

\* a counter never goes below zero (mutants: the last one out resets it; it is
\* not clamped)
MutDecrement(n) == 0
MutDecrementOnly(n) == n - 1
Decrement(n) == IF n > 0 THEN n - 1 ELSE 0

Unlock(t) ==
    /\ pc[t] \in {"inW", "inR"}
    /\ IF pc[t] = "inW"
         THEN writelock' = Decrement(writelock) /\ readlock' = readlock
         ELSE readlock' = Decrement(readlock) /\ writelock' = writelock
    /\ Signal(writelock', readlock', pc[t], [pc EXCEPT ![t] = "out"])
    /\ UNCHANGED enforced

\* mutant: readers wait without a time limit
MutTimedOut(t) ==
    /\ pc[t] = "waitW"
    /\ writelock' = 1 /\ readlock' = 0
    /\ Goto(t, "inW")
    /\ enforced' = TRUE

\* pthread_cond_timedwait timed out: "assume locking thread to be stuck or
\* finished, so enforce lock"
TimedOut(t) ==
    /\ \/ /\ pc[t] = "waitW"
          /\ writelock' = 1 /\ readlock' = 0
          /\ Goto(t, "inW")
       \/ /\ pc[t] = "waitR"
          /\ writelock' = 0 /\ readlock' = 1
          /\ Goto(t, "inR")
    /\ enforced' = TRUE

Next == \E t \in Threads : \/ WriteLock(t) \/ ReadLock(t)
                           \/ TryWriteLock(t) \/ TryReadLock(t)
                           \/ Enter(t) \/ Unlock(t) \/ TimedOut(t)

Spec == Init /\ [][Next]_vars

\* pthread_cond_timedwait returns: a waiter is signalled or its time runs out
FairSpec == Spec /\ \A t \in Threads : WF_vars(TimedOut(t)) /\ WF_vars(Enter(t))

----------------------------------------------------------------------------
\* Every variable has its type; the counters stay non-negative even when an
\* enforced entry has reset them under the threads that still hold the lock.
TypeOK ==
    /\ writelock \in Nat /\ readlock \in Nat
    /\ pc \in [Threads -> {"out"} \cup WriterStates \cup ReaderStates]
    /\ enforced \in BOOLEAN

\* Until an entry is enforced the counters count exactly the threads that hold
\* or wait for the lock, so no unlock ever meets the clamp at zero.
ExactCounters ==
    ~enforced => /\ writelock = Cardinality(At(WriterStates))
                 /\ readlock = Cardinality(At(ReaderStates))

\* No wake-up is lost: while a thread waits, another one is inside or was
\* signalled and will unlock, and signal, later on.
NoLostWakeup ==
    ~enforced => (At({"waitW", "waitR"}) # {} => At(Granted) # {})

\* A writer is alone inside.
MutualExclusion ==
    ~enforced => \A t, u \in Threads :
                     pc[t] = "inW" /\ pc[u] \in {"inW", "inR"} => t = u

\* The lock comes to be shared by a writer and others, with any number of
\* readers and writers, in one way only: a reader unlocks while another reader
\* stays, and the writer it signals is let in beside that one.
Shared == \E t \in At({"wokenW", "inW"}) : At(Granted) # {t}
ReaderLeavesReader ==
    \E t \in At({"inR"}) : pc'[t] = "out" /\ At({"wokenR", "inR"}) # {t}
SharedByReadersOnly ==
    [][Shared' /\ ~enforced' => Shared \/ ReaderLeavesReader]_vars

\* Two counters and two condition variables do the work of a lock that knows
\* who holds it and who waits, hands it to waiting writers first, and lets all
\* waiting readers in when the last writer leaves.
Place(state) ==
    IF state \in {"wokenW", "inW"} THEN "write"
    ELSE IF state \in {"wokenR", "inR"} THEN "read"
    ELSE state
place == [t \in Threads |-> Place(pc[t])]
Abstract == INSTANCE RwLock
ImplementsRwLock == Abstract!Spec

\* Nobody waits for ever, not even for a holder that never unlocks.
WaitersEnter == \A t \in Threads : pc[t] \in {"waitW", "waitR"} ~> pc[t] \in {"inW", "inR"}
============================================================================
