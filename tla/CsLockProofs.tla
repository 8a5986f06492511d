---------------------------- MODULE CsLockProofs ----------------------------
(***************************************************************************)
(* Theorems about the lock of ncam-lock.c, for every finite set of threads,*)
(* all of which may read and write, and with its time-out: until an entry  *)
(* is enforced nothing but the unlock of a reader beside another reader    *)
(* lets a writer share the lock.                                           *)
(***************************************************************************)
EXTENDS CsLock, FiniteSetTheorems, TLAPS

States == {"out"} \cup WriterStates \cup ReaderStates

Counting == /\ writelock = Cardinality(At(WriterStates))
            /\ readlock = Cardinality(At(ReaderStates))

\* A reader waits only while some writer holds or waits for the lock.
ReaderWaitsForWriter == At({"waitR"}) # {} => At(WriterStates) # {}

SomebodyLeaves == At({"waitW", "waitR"}) # {} => At(Granted) # {}

Sound == Counting /\ ReaderWaitsForWriter /\ SomebodyLeaves

IInv == TypeOK /\ (~enforced => Sound)

----------------------------------------------------------------------------
\* A set of threads in given states is finite, and empty iff it counts zero.
LEMMA AtFacts ==
    ASSUME NEW S
    PROVE  /\ IsFiniteSet(At(S))
           /\ Cardinality(At(S)) \in Nat
           /\ Cardinality(At(S)) = 0 <=> At(S) = {}
<1>1. At(S) \subseteq Threads
  BY DEF At
<1>2. IsFiniteSet(At(S))
  BY <1>1, FS_Subset, ThreadsAssumption
<1> QED
  BY <1>2, FS_CardinalityType, FS_EmptySet

\* The counters are zero exactly when nobody is counted.
LEMMA CounterFacts ==
    ASSUME Counting
    PROVE  /\ writelock \in Nat /\ readlock \in Nat
           /\ writelock = 0 <=> At(WriterStates) = {}
           /\ readlock = 0 <=> At(ReaderStates) = {}
  BY AtFacts DEF Counting

\* The four outcomes of an unlock: a writer is signalled, there is none to
\* signal, the readers are signalled, nobody needs a signal.
Unlocked(t) == [pc EXCEPT ![t] = "out"]
WriterSignalled(t) ==
    /\ writelock' > 0
    /\ \E u \in Threads : /\ Unlocked(t)[u] = "waitW"
                          /\ pc' = [Unlocked(t) EXCEPT ![u] = "wokenW"]
NoWriterWaits(t) ==
    /\ writelock' > 0
    /\ \A u \in Threads : Unlocked(t)[u] # "waitW"
    /\ pc' = Unlocked(t)
ReadersSignalled(t) ==
    /\ writelock' = 0 /\ readlock' > 0 /\ pc[t] = "inW"
    /\ pc' = [u \in Threads |-> IF Unlocked(t)[u] = "waitR" THEN "wokenR"
                                                            ELSE Unlocked(t)[u]]
NobodySignalled(t) ==
    /\ writelock' = 0
    /\ readlock' = 0 \/ pc[t] = "inR"
    /\ pc' = Unlocked(t)

\* An unlock takes its thread out of both counters and has one of the outcomes.
LEMMA UnlockFacts ==
    ASSUME TypeOK, Counting, NEW t \in Threads, Unlock(t)
    PROVE  /\ At(WriterStates)' = At(WriterStates) \ {t}
           /\ At(ReaderStates)' = At(ReaderStates) \ {t}
           /\ writelock' = Cardinality(At(WriterStates)')
           /\ readlock' = Cardinality(At(ReaderStates)')
           /\ writelock' \in Nat /\ readlock' \in Nat
           /\ pc' \in [Threads -> States]
           /\ \/ WriterSignalled(t) \/ NoWriterWaits(t)
              \/ ReadersSignalled(t) \/ NobodySignalled(t)
<1>1. writelock \in Nat /\ readlock \in Nat /\ pc \in [Threads -> States]
  BY DEF TypeOK, States
<1>2. writelock' \in Nat /\ readlock' \in Nat
  BY <1>1 DEF Unlock, Decrement
<1>3. WriterSignalled(t) \/ NoWriterWaits(t) \/ ReadersSignalled(t) \/ NobodySignalled(t)
  <2>1. CASE writelock' > 0
    BY <2>1, <1>1 DEF Unlock, Signal, SignalWriter, WriterSignalled, NoWriterWaits, Unlocked
  <2>2. CASE ~(writelock' > 0)
    <3>1. writelock' = 0
      BY <2>2, <1>2
    <3>2. CASE readlock' > 0 /\ pc[t] # "inR"
      BY <3>1, <3>2 DEF Unlock, Signal, BroadcastReaders, ReadersSignalled, Unlocked
    <3>3. CASE ~(readlock' > 0 /\ pc[t] # "inR")
      <4>1. pc' = Unlocked(t)
        BY <3>1, <3>3, <2>2 DEF Unlock, Signal, Unlocked
      <4>2. readlock' = 0 \/ pc[t] = "inR"
        BY <3>3, <1>2
      <4> QED
        BY <3>1, <4>1, <4>2 DEF NobodySignalled
    <3> QED BY <3>2, <3>3
  <2> QED BY <2>1, <2>2
<1>4. /\ pc' \in [Threads -> States]
      /\ At(WriterStates)' = At(WriterStates) \ {t}
      /\ At(ReaderStates)' = At(ReaderStates) \ {t}
  BY <1>1, <1>3 DEF WriterSignalled, NoWriterWaits, ReadersSignalled, NobodySignalled,
     Unlocked, At, States, WriterStates, ReaderStates
<1>5. pc[t] \in {"inW", "inR"}
  BY DEF Unlock
<1>6. CASE pc[t] = "inW"
  <2>1. t \in At(WriterStates) /\ t \notin At(ReaderStates)
    BY <1>6 DEF At, WriterStates, ReaderStates
  <2>2. Cardinality(At(WriterStates) \ {t}) = Cardinality(At(WriterStates)) - 1
    BY <2>1, AtFacts, FS_RemoveElement
  <2>3. At(ReaderStates) \ {t} = At(ReaderStates)
    BY <2>1
  <2>4. writelock > 0
    BY <2>1, CounterFacts
  <2>5. writelock' = writelock - 1 /\ readlock' = readlock
    BY <1>6, <2>4 DEF Unlock, Decrement
  <2> QED
    BY <1>2, <1>3, <1>4, <2>2, <2>3, <2>5 DEF Counting
<1>7. CASE pc[t] = "inR"
  <2>1. t \notin At(WriterStates) /\ t \in At(ReaderStates)
    BY <1>7 DEF At, WriterStates, ReaderStates
  <2>2. Cardinality(At(ReaderStates) \ {t}) = Cardinality(At(ReaderStates)) - 1
    BY <2>1, AtFacts, FS_RemoveElement
  <2>3. At(WriterStates) \ {t} = At(WriterStates)
    BY <2>1
  <2>4. readlock > 0
    BY <2>1, CounterFacts
  <2>5. readlock' = readlock - 1 /\ writelock' = writelock
    BY <1>7, <2>4 DEF Unlock, Decrement
  <2> QED
    BY <1>2, <1>3, <1>4, <2>2, <2>3, <2>5 DEF Counting
<1> QED
  BY <1>5, <1>6, <1>7

\* A thread that locks joins one counter, with the state the guard gives it.
LEMMA LockFacts ==
    ASSUME TypeOK, Counting, NEW t \in Threads, pc[t] = "out",
           NEW s \in WriterStates \cup ReaderStates, Goto(t, s),
           s \in WriterStates => writelock' = writelock + 1 /\ readlock' = readlock,
           s \in ReaderStates => writelock' = writelock /\ readlock' = readlock + 1
    PROVE  Counting'
<1>1. writelock \in Nat /\ readlock \in Nat /\ pc \in [Threads -> States]
  BY DEF TypeOK, States
<1>2. t \notin At(WriterStates) /\ t \notin At(ReaderStates)
  BY DEF At, WriterStates, ReaderStates
<1>3. CASE s \in WriterStates
  <2>1. /\ At(WriterStates)' = At(WriterStates) \cup {t}
        /\ At(ReaderStates)' = At(ReaderStates)
    BY <1>1, <1>2, <1>3 DEF Goto, At, WriterStates, ReaderStates
  <2>2. Cardinality(At(WriterStates) \cup {t}) = Cardinality(At(WriterStates)) + 1
    BY <1>2, AtFacts, FS_AddElement
  <2>3. writelock' = writelock + 1 /\ readlock' = readlock
    BY <1>3
  <2> QED
    BY <2>1, <2>2, <2>3 DEF Counting
<1>4. CASE s \in ReaderStates
  <2>1. /\ At(WriterStates)' = At(WriterStates)
        /\ At(ReaderStates)' = At(ReaderStates) \cup {t}
    BY <1>1, <1>2, <1>4 DEF Goto, At, WriterStates, ReaderStates
  <2>2. Cardinality(At(ReaderStates) \cup {t}) = Cardinality(At(ReaderStates)) + 1
    BY <1>2, AtFacts, FS_AddElement
  <2>3. writelock' = writelock /\ readlock' = readlock + 1
    BY <1>4
  <2> QED
    BY <2>1, <2>2, <2>3 DEF Counting
<1> QED
  BY <1>3, <1>4

----------------------------------------------------------------------------
\* The variables keep their types, also when an enforced entry resets the
\* counters under the threads that hold the lock, whose unlocks then meet the
\* clamp at zero.
LEMMA TypeStep == TypeOK /\ [Next]_vars => TypeOK'
<1> SUFFICES ASSUME TypeOK, [Next]_vars PROVE TypeOK'
  OBVIOUS
<1> USE DEF TypeOK, WriterStates, ReaderStates
<1>1. ASSUME NEW t \in Threads, WriteLock(t) \/ ReadLock(t) PROVE TypeOK'
  BY <1>1 DEF WriteLock, ReadLock, Goto
<1>2. ASSUME NEW t \in Threads, TryWriteLock(t) \/ TryReadLock(t) PROVE TypeOK'
  BY <1>2 DEF TryWriteLock, TryReadLock, Goto
<1>3. ASSUME NEW t \in Threads, Enter(t) \/ TimedOut(t) PROVE TypeOK'
  <2>1. \E s \in {"inW", "inR"} : pc' = [pc EXCEPT ![t] = s]
    BY <1>3 DEF Enter, TimedOut, Goto
  <2>2. writelock' \in Nat /\ readlock' \in Nat
    <3>1. 0 \in Nat /\ 1 \in Nat
      OBVIOUS
    <3> QED
      BY <1>3, <3>1 DEF Enter, TimedOut
  <2>3. enforced' \in BOOLEAN
    BY <1>3 DEF Enter, TimedOut
  <2> QED
    BY <2>1, <2>2, <2>3
<1>4. ASSUME NEW t \in Threads, Unlock(t) PROVE TypeOK'
  <2>1. writelock' \in Nat /\ readlock' \in Nat /\ enforced' \in BOOLEAN
    BY <1>4 DEF Unlock, Decrement
  <2>2. DEFINE state == [pc EXCEPT ![t] = "out"]
  <2>3. state \in [Threads -> {"out"} \cup WriterStates \cup ReaderStates]
    OBVIOUS
  <2>4. Signal(writelock', readlock', pc[t], state)
    BY <1>4 DEF Unlock
  <2>5. SignalWriter(state) \/ BroadcastReaders(state) \/ pc' = state
    BY <2>4 DEF Signal
  <2>6. pc' \in [Threads -> {"out"} \cup WriterStates \cup ReaderStates]
    <3> HIDE DEF state
    <3> QED
      BY <2>3, <2>5 DEF SignalWriter, BroadcastReaders
  <2> QED
    BY <2>1, <2>6
<1>5. CASE UNCHANGED vars
  BY <1>5 DEF vars
<1> QED
  BY <1>1, <1>2, <1>3, <1>4, <1>5 DEF Next

LEMMA InitInv == Init => IInv
<1> SUFFICES ASSUME Init PROVE IInv
  OBVIOUS
<1>1. At(WriterStates) = {} /\ At(ReaderStates) = {} /\ At({"waitR"}) = {}
      /\ At({"waitW", "waitR"}) = {}
  BY DEF Init, At, WriterStates, ReaderStates
<1> QED
  BY <1>1, FS_EmptySet DEF Init, IInv, TypeOK, Sound, Counting,
     ReaderWaitsForWriter, SomebodyLeaves

\* The inductive step: one step of the proof for each way a thread moves.
LEMMA SoundStep ==
    ASSUME TypeOK, Sound, [Next]_vars, ~enforced'
    PROVE  Sound'
<1>0. writelock \in Nat /\ readlock \in Nat /\ pc \in [Threads -> States]
  BY DEF TypeOK, States
<1>1. ASSUME NEW t \in Threads, WriteLock(t) \/ TryWriteLock(t) PROVE Sound'
  <2>1. PICK s \in {"waitW", "inW"} :
           Goto(t, s) /\ (s = "waitW" <=> WriteBusy)
    BY <1>1 DEF WriteLock, TryWriteLock
  <2>2. pc[t] = "out" /\ writelock' = writelock + 1 /\ readlock' = readlock
    BY <1>1 DEF WriteLock, TryWriteLock
  <2>3. Counting'
    BY <2>1, <2>2, LockFacts DEF Sound, WriterStates, ReaderStates
  <2>4. pc' = [pc EXCEPT ![t] = s]
    BY <2>1 DEF Goto
  <2>5. ReaderWaitsForWriter'
    BY <1>0, <2>1, <2>4
       DEF Sound, ReaderWaitsForWriter, At, WriterStates
  <2>6. CASE WriteBusy
    <3>1. At(WriterStates) # {} \/ At(ReaderStates) # {}
      BY <2>6, CounterFacts DEF Sound, WriteBusy
    <3>2. At(Granted) # {}
      BY <3>1 DEF Sound, SomebodyLeaves, Granted, At, WriterStates, ReaderStates
    <3> QED
      BY <1>0, <2>1, <2>2, <2>3, <2>4, <2>5, <3>2 DEF Sound, SomebodyLeaves, Granted, At
  <2>7. CASE ~WriteBusy
    BY <1>0, <2>1, <2>3, <2>4, <2>5, <2>7 DEF Sound, SomebodyLeaves, Granted, At
  <2> QED BY <2>6, <2>7
<1>2. ASSUME NEW t \in Threads, ReadLock(t) \/ TryReadLock(t) PROVE Sound'
  <2>1. PICK s \in {"waitR", "inR"} :
           Goto(t, s) /\ (s = "waitR" <=> ReadBusy)
    BY <1>2 DEF ReadLock, TryReadLock
  <2>2. /\ pc[t] = "out" /\ writelock' = writelock /\ readlock' = readlock + 1
    BY <1>2 DEF ReadLock, TryReadLock
  <2>3. Counting'
    BY <2>1, <2>2, LockFacts DEF Sound, WriterStates, ReaderStates
  <2>4. pc' = [pc EXCEPT ![t] = s]
    BY <2>1 DEF Goto
  <2>5. CASE ReadBusy
    <3>1. At(WriterStates) # {}
      BY <2>5, CounterFacts DEF Sound, ReadBusy
    <3>2. At(Granted) # {}
      BY <3>1 DEF Sound, SomebodyLeaves, Granted, At, WriterStates
    <3>3. ReaderWaitsForWriter'
      BY <1>0, <2>2, <2>4, <3>1 DEF ReaderWaitsForWriter, At, WriterStates
    <3> QED
      BY <1>0, <2>1, <2>2, <2>3, <2>4, <3>2, <3>3 DEF Sound, SomebodyLeaves, Granted, At
  <2>6. CASE ~ReadBusy
    <3>1. s = "inR"
      BY <2>1, <2>6
    <3> QED
      BY <1>0, <2>2, <2>3, <2>4, <3>1
         DEF Sound, SomebodyLeaves, Granted, ReaderWaitsForWriter, At, WriterStates
  <2> QED BY <2>5, <2>6
<1>3. ASSUME NEW t \in Threads, Enter(t) PROVE Sound'
  <2>1. PICK s \in {"inW", "inR"} :
           /\ pc' = [pc EXCEPT ![t] = s]
           /\ pc[t] = IF s = "inW" THEN "wokenW" ELSE "wokenR"
    BY <1>3 DEF Enter, Goto
  <2>2. /\ At(WriterStates)' = At(WriterStates)
        /\ At(ReaderStates)' = At(ReaderStates)
        /\ At({"waitR"})' = At({"waitR"})
        /\ At({"waitW", "waitR"})' = At({"waitW", "waitR"})
        /\ t \in At(Granted)'
    BY <1>0, <2>1 DEF At, WriterStates, ReaderStates, Granted
  <2>3. UNCHANGED <<writelock, readlock>>
    BY <1>3 DEF Enter
  <2> QED
    BY <2>2, <2>3 DEF Sound, Counting, ReaderWaitsForWriter, SomebodyLeaves
<1>4. ASSUME NEW t \in Threads, Unlock(t) PROVE Sound'
  <2>1. /\ At(WriterStates)' = At(WriterStates) \ {t}
        /\ At(ReaderStates)' = At(ReaderStates) \ {t}
        /\ writelock' \in Nat /\ readlock' \in Nat
        /\ pc' \in [Threads -> States]
        /\ Counting'
        /\ \/ WriterSignalled(t) \/ NoWriterWaits(t)
           \/ ReadersSignalled(t) \/ NobodySignalled(t)
    BY <1>4, UnlockFacts DEF Sound, Counting
  <2>2. (writelock' = 0 <=> At(WriterStates)' = {})
        /\ (readlock' = 0 <=> At(ReaderStates)' = {})
    <3>1. IsFiniteSet(At(WriterStates) \ {t}) /\ IsFiniteSet(At(ReaderStates) \ {t})
      BY AtFacts, FS_RemoveElement
    <3> QED
      BY <2>1, <3>1, FS_EmptySet DEF Counting
  <2>3. CASE WriterSignalled(t)
    <3>1. At(WriterStates)' # {}
      BY <2>2, <2>3 DEF WriterSignalled
    <3>2. At({"wokenW"})' # {}
      BY <1>0, <2>3 DEF WriterSignalled, Unlocked, At
    <3> QED
      BY <2>1, <3>1, <3>2 DEF Sound, ReaderWaitsForWriter, SomebodyLeaves, Granted, At
  <2>4. CASE NoWriterWaits(t)
    <3>1. At(WriterStates)' # {}
      BY <2>2, <2>4 DEF NoWriterWaits
    <3>2. At({"waitW"})' = {}
      BY <1>0, <2>4 DEF NoWriterWaits, At
    <3> QED
      BY <2>1, <3>1, <3>2
         DEF Sound, ReaderWaitsForWriter, SomebodyLeaves, Granted, At, WriterStates
  <2>5. CASE ReadersSignalled(t)
    <3>1. At({"waitR"})' = {}
      BY <1>0, <2>5 DEF ReadersSignalled, Unlocked, At
    <3>2. At({"waitW", "waitR"})' = {}
      BY <2>2, <2>5, <3>1 DEF ReadersSignalled, At, WriterStates
    <3> QED
      BY <2>1, <3>1, <3>2 DEF Sound, ReaderWaitsForWriter, SomebodyLeaves, Granted
  <2>6. CASE NobodySignalled(t)
    <3>1. At({"waitR"})' = {}
      <4>1. CASE readlock' = 0
        BY <2>2, <4>1 DEF At, ReaderStates
      <4>2. CASE pc[t] = "inR"
        <5>1. t \notin At(WriterStates)
          BY <4>2 DEF At, WriterStates
        <5>2. At(WriterStates) = {}
          BY <2>1, <2>2, <2>6, <5>1 DEF NobodySignalled
        <5>3. At({"waitR"}) = {}
          BY <5>2 DEF Sound, ReaderWaitsForWriter
        <5> QED
          BY <1>0, <2>6, <5>3 DEF NobodySignalled, Unlocked, At
      <4> QED BY <2>6, <4>1, <4>2 DEF NobodySignalled
    <3>2. At({"waitW", "waitR"})' = {}
      BY <2>2, <2>6, <3>1 DEF NobodySignalled, At, WriterStates
    <3> QED
      BY <2>1, <3>1, <3>2 DEF Sound, ReaderWaitsForWriter, SomebodyLeaves, Granted
  <2> QED
    BY <2>1, <2>3, <2>4, <2>5, <2>6
<1>5. CASE UNCHANGED vars
  BY <1>5 DEF vars, Sound, Counting, ReaderWaitsForWriter, SomebodyLeaves, At
<1>6. \A t \in Threads : ~TimedOut(t)
  BY DEF TimedOut
<1> QED
  BY <1>1, <1>2, <1>3, <1>4, <1>5, <1>6 DEF Next


LEMMA StepInv == IInv /\ [Next]_vars => IInv'
<1> SUFFICES ASSUME IInv, [Next]_vars PROVE IInv'
  OBVIOUS
<1>1. TypeOK'
  BY TypeStep DEF IInv
<1>2. ~enforced' => ~enforced
  <2> SUFFICES ASSUME enforced PROVE enforced'
    OBVIOUS
  <2> QED
    BY DEF Next, vars, WriteLock, ReadLock, TryWriteLock, TryReadLock, Enter, Unlock,
       TimedOut
<1>3. ~enforced' => Sound'
  BY <1>2, SoundStep DEF IInv
<1> QED
  BY <1>1, <1>3 DEF IInv

LEMMA SpecInv == Spec => []IInv
<1> QED
  BY InitInv, StepInv, PTL DEF Spec

----------------------------------------------------------------------------
\* The variables keep their types; in particular no counter goes below zero,
\* whatever enforced entries do to them.
THEOREM TypeCorrect == Spec => []TypeOK
<1>1. IInv => TypeOK
  BY DEF IInv
<1> QED
  BY <1>1, SpecInv, PTL

\* Until an entry is enforced the counters are exact: no unlock is clamped.
THEOREM CountersExact == Spec => []ExactCounters
<1>1. IInv => ExactCounters
  BY DEF IInv, Sound, Counting, ExactCounters
<1> QED
  BY <1>1, SpecInv, PTL

\* No wake-up is lost, whatever the number of readers and writers.
THEOREM WakeupNotLost == Spec => []NoLostWakeup
<1>1. IInv => NoLostWakeup
  BY DEF IInv, Sound, SomebodyLeaves, NoLostWakeup
<1> QED
  BY <1>1, SpecInv, PTL

----------------------------------------------------------------------------
\* Nobody shares the lock with a writer that is inside or was let in.
LEMMA SharedFacts ==
    ~Shared <=> \A t, u \in Threads :
                    pc[t] \in {"wokenW", "inW"} /\ pc[u] \in Granted => t = u
  BY DEF Shared, At, Granted

\* Only a reader that leaves another one brings about a shared lock.
LEMMA SharedStep ==
    ASSUME TypeOK, Sound, [Next]_vars, ~enforced', ~Shared, ~ReaderLeavesReader
    PROVE  ~Shared'
<1>0. pc \in [Threads -> States]
  BY DEF TypeOK, States
<1>1. \A t, u \in Threads :
         pc[t] \in {"wokenW", "inW"} /\ pc[u] \in Granted => t = u
  BY SharedFacts
<1> SUFFICES ASSUME NEW v \in Threads, NEW w \in Threads,
                    pc'[v] \in {"wokenW", "inW"}, pc'[w] \in Granted
             PROVE  v = w
  BY DEF Shared, At, Granted
<1>2. ASSUME NEW t \in Threads, WriteLock(t) \/ TryWriteLock(t) PROVE v = w
  <2>1. PICK s \in {"waitW", "inW"} :
           pc' = [pc EXCEPT ![t] = s] /\ (s = "waitW" <=> WriteBusy)
    BY <1>2 DEF WriteLock, TryWriteLock, Goto
  <2>2. CASE WriteBusy
    BY <1>0, <1>1, <2>1, <2>2 DEF Granted
  <2>3. CASE ~WriteBusy
    <3>1. At(WriterStates) = {} /\ At(ReaderStates) = {}
      BY <2>3, CounterFacts DEF Sound, WriteBusy
    <3> QED
      BY <1>0, <2>1, <3>1 DEF At, WriterStates, ReaderStates, Granted
  <2> QED BY <2>2, <2>3
<1>3. ASSUME NEW t \in Threads, ReadLock(t) \/ TryReadLock(t) PROVE v = w
  <2>1. PICK s \in {"waitR", "inR"} :
           pc' = [pc EXCEPT ![t] = s] /\ (s = "waitR" <=> ReadBusy)
    BY <1>3 DEF ReadLock, TryReadLock, Goto
  <2>2. CASE ReadBusy
    BY <1>0, <1>1, <2>1, <2>2 DEF Granted
  <2>3. CASE ~ReadBusy
    <3>1. At(WriterStates) = {}
      BY <2>3, CounterFacts DEF Sound, ReadBusy
    <3> QED
      BY <1>0, <2>1, <3>1 DEF At, WriterStates
  <2> QED BY <2>2, <2>3
<1>4. ASSUME NEW t \in Threads, Enter(t) PROVE v = w
  BY <1>0, <1>1, <1>4 DEF Enter, Goto, Granted
<1>5. ASSUME NEW t \in Threads, Unlock(t) PROVE v = w
  <2>1. \/ WriterSignalled(t) \/ NoWriterWaits(t)
        \/ ReadersSignalled(t) \/ NobodySignalled(t)
    BY <1>5, UnlockFacts DEF Sound
  <2>2. pc'[t] = "out"
    BY <1>0, <2>1 DEF WriterSignalled, NoWriterWaits, ReadersSignalled,
       NobodySignalled, Unlocked
  <2>3. \A u \in Threads : pc[u] \in Granted => u = t
    <3> SUFFICES ASSUME NEW u \in Threads, pc[u] \in Granted, u # t PROVE FALSE
      OBVIOUS
    <3>1. CASE pc[t] = "inW" \/ pc[u] \in {"wokenW", "inW"}
      BY <1>1, <1>5, <3>1 DEF Unlock, Granted
    <3>2. CASE pc[t] = "inR" /\ pc[u] \in {"wokenR", "inR"}
      <4>1. t \in At({"inR"}) /\ u \in At({"wokenR", "inR"})
        BY <3>2 DEF At
      <4> QED
        BY <2>2, <4>1 DEF ReaderLeavesReader
    <3> QED
      BY <1>5, <3>1, <3>2 DEF Unlock, Granted
  <2>4. CASE WriterSignalled(t)
    BY <1>0, <2>3, <2>4 DEF WriterSignalled, Unlocked, Granted
  <2>5. CASE ReadersSignalled(t)
    BY <1>0, <2>3, <2>5 DEF ReadersSignalled, Unlocked, Granted
  <2>6. CASE pc' = Unlocked(t)
    BY <1>0, <2>3, <2>6 DEF Unlocked, Granted
  <2> QED
    BY <2>1, <2>4, <2>5, <2>6 DEF NoWriterWaits, NobodySignalled
<1>6. CASE UNCHANGED vars
  BY <1>1, <1>6 DEF vars
<1>7. \A t \in Threads : ~TimedOut(t)
  BY DEF TimedOut
<1> QED
  BY <1>2, <1>3, <1>4, <1>5, <1>6, <1>7 DEF Next

\* With any number of readers and writers, before the first time-out, a writer
\* comes to share the lock only by the unlock of one of several readers
\* (cs_rwunlock_int signals it while they are still inside).
THEOREM OnlyReadersShare == Spec => SharedByReadersOnly
<1>1. IInv /\ [Next]_vars => IInv'
  BY StepInv
<1>2. IInv /\ [Next]_vars =>
         [Shared' /\ ~enforced' => Shared \/ ReaderLeavesReader]_vars
  <2> SUFFICES ASSUME IInv, [Next]_vars, Shared', ~enforced'
               PROVE  Shared \/ ReaderLeavesReader
    OBVIOUS
  <2>1. ~enforced
    BY DEF Next, vars, WriteLock, ReadLock, TryWriteLock, TryReadLock, Enter, Unlock,
       TimedOut
  <2> QED
    BY <2>1, SharedStep DEF IInv
<1> QED
  BY <1>1, <1>2, InitInv, PTL DEF Spec, SharedByReadersOnly

----------------------------------------------------------------------------
\* Nobody is in the states S of the abstract lock iff no thread is in a state
\* that maps to one of them.
LEMMA PlaceFacts ==
    ASSUME TypeOK
    PROVE  /\ Abstract!With({"waitW"}) = At({"waitW"})
           /\ Abstract!With({"write"}) = At({"wokenW", "inW"})
           /\ Abstract!With({"write", "waitW"}) = At(WriterStates)
           /\ Abstract!With({"write", "read", "waitW", "waitR"})
                = At(WriterStates) \cup At(ReaderStates)
  BY DEF TypeOK, Abstract!With, place, Place, At, WriterStates, ReaderStates

\* The lock does what the abstract one does, with any number of readers and
\* writers: the counters and signals stand for who holds and who waits, waiting
\* writers come first, and the last writer lets all waiting readers in.
THEOREM CountersImplementRwLock == Spec => ImplementsRwLock
<1>1. Init => Abstract!Init
  BY DEF Init, Abstract!Init, place, Place
<1>2. IInv /\ [Next]_vars => [Abstract!Next]_Abstract!vars
  <2> SUFFICES ASSUME IInv, [Next]_vars, ~enforced'
               PROVE  [Abstract!Next]_Abstract!vars
    BY DEF Abstract!Next, Abstract!Enforce
  <2>1. /\ pc \in [Threads -> States] /\ Sound /\ TypeOK
        /\ ~enforced /\ UNCHANGED enforced
    BY DEF IInv, TypeOK, States, Next, vars, WriteLock, ReadLock, TryWriteLock,
       TryReadLock, Enter, Unlock, TimedOut
  <2>2. ASSUME NEW t \in Threads, WriteLock(t) \/ TryWriteLock(t)
        PROVE  Abstract!LockWrite(t)
    <3>1. /\ pc[t] = "out"
          /\ pc' = [pc EXCEPT ![t] = IF WriteBusy THEN "waitW" ELSE "inW"]
      BY <2>2 DEF WriteLock, TryWriteLock, Goto
    <3>2. WriteBusy <=> Abstract!With({"write", "read", "waitW", "waitR"}) # {}
      BY <2>1, CounterFacts, PlaceFacts DEF Sound, WriteBusy
    <3> QED
      BY <2>1, <3>1, <3>2 DEF Abstract!LockWrite, place, Place
  <2>3. ASSUME NEW t \in Threads, ReadLock(t) \/ TryReadLock(t)
        PROVE  Abstract!LockRead(t)
    <3>1. /\ pc[t] = "out"
          /\ pc' = [pc EXCEPT ![t] = IF ReadBusy THEN "waitR" ELSE "inR"]
      BY <2>3 DEF ReadLock, TryReadLock, Goto
    <3>2. ReadBusy <=> Abstract!With({"write", "waitW"}) # {}
      BY <2>1, CounterFacts, PlaceFacts DEF Sound, ReadBusy
    <3> QED
      BY <2>1, <3>1, <3>2 DEF Abstract!LockRead, place, Place
  <2>4. ASSUME NEW t \in Threads, Enter(t) PROVE UNCHANGED Abstract!vars
    BY <2>1, <2>4 DEF Enter, Goto, Abstract!vars, place, Place
  <2>5. ASSUME NEW t \in Threads, Unlock(t)
        PROVE  \/ Abstract!AdmitReaders(t) \/ Abstract!Leave(t)
               \/ \E u \in Threads : Abstract!HandToWriter(t, u)
    <3>1. /\ At(WriterStates)' = At(WriterStates) \ {t}
          /\ At(ReaderStates)' = At(ReaderStates) \ {t}
          /\ pc' \in [Threads -> States]
          /\ \/ WriterSignalled(t) \/ NoWriterWaits(t)
             \/ ReadersSignalled(t) \/ NobodySignalled(t)
          /\ Counting'
      BY <2>1, <2>5, UnlockFacts DEF Sound, Counting
    <3>2. /\ writelock' = 0 <=> At(WriterStates)' = {}
          /\ readlock' = 0 <=> At(ReaderStates)' = {}
      <4>1. IsFiniteSet(At(WriterStates) \ {t}) /\ IsFiniteSet(At(ReaderStates) \ {t})
        BY AtFacts, FS_RemoveElement
      <4> QED
        BY <3>1, <4>1, FS_EmptySet DEF Counting
    <3>3. pc[t] \in {"inW", "inR"}
      BY <2>5 DEF Unlock
    <3>4. CASE WriterSignalled(t)
      BY <2>1, <3>3, <3>4 DEF WriterSignalled, Unlocked, Abstract!HandToWriter, place, Place
    <3>5. CASE NoWriterWaits(t)
      <4>1. At({"waitW"}) = {}
        BY <2>1, <3>3, <3>5 DEF NoWriterWaits, Unlocked, At
      <4>2. At(WriterStates) \ {t} # {}
        BY <3>1, <3>2, <3>5 DEF NoWriterWaits
      <4>3. At({"wokenW", "inW"}) # {t}
        BY <4>1, <4>2 DEF At, WriterStates
      <4> QED
        BY <2>1, <3>3, <3>5, <4>1, <4>3, PlaceFacts
           DEF NoWriterWaits, Unlocked, Abstract!Leave, place, Place
    <3>6. CASE ReadersSignalled(t)
      <4>1. At(WriterStates) = {t} /\ pc[t] = "inW"
        BY <3>1, <3>2, <3>6 DEF ReadersSignalled, At, WriterStates
      <4> QED
        BY <2>1, <3>6, <4>1, PlaceFacts
           DEF ReadersSignalled, Unlocked, Abstract!AdmitReaders, place, Place
    <3>7. CASE NobodySignalled(t)
      <4>1. At(WriterStates) \ {t} = {}
        BY <3>1, <3>2, <3>7 DEF NobodySignalled
      <4>2. CASE pc[t] = "inR"
        <5>1. t \notin At(WriterStates)
          BY <4>2 DEF At, WriterStates
        <5>2. At({"waitW"}) = {} /\ At({"wokenW", "inW"}) = {}
          BY <4>1, <5>1 DEF At, WriterStates
        <5> QED
          BY <2>1, <3>7, <4>2, <5>2, PlaceFacts
             DEF NobodySignalled, Unlocked, Abstract!Leave, place, Place
      <4>3. CASE pc[t] = "inW"
        <5>1. At(WriterStates) = {t} /\ t \notin At(ReaderStates)
          BY <4>1, <4>3 DEF At, WriterStates, ReaderStates
        <5>2. At(ReaderStates) = {}
          BY <3>1, <3>2, <3>7, <4>3, <5>1 DEF NobodySignalled
        <5>3. \A u \in Threads : pc[u] # "waitR"
          BY <5>2 DEF At, ReaderStates
        <5> QED
          BY <2>1, <3>7, <4>3, <5>1, <5>3, PlaceFacts
             DEF NobodySignalled, Unlocked, Abstract!AdmitReaders, place, Place
      <4> QED
        BY <3>3, <4>2, <4>3
    <3> QED
      BY <3>1, <3>4, <3>5, <3>6, <3>7
  <2>6. UNCHANGED vars => UNCHANGED Abstract!vars
    BY DEF vars, Abstract!vars, place
  <2>7. \A t \in Threads : ~TimedOut(t)
    BY DEF TimedOut
  <2> QED
    BY <2>2, <2>3, <2>4, <2>5, <2>6, <2>7 DEF Next, Abstract!Next
<1> QED
  BY <1>1, <1>2, SpecInv, PTL DEF Spec, ImplementsRwLock, Abstract!Spec
============================================================================
