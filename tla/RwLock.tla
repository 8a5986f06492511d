------------------------------- MODULE RwLock -------------------------------
(***************************************************************************)
(* The lock of ncam-lock.c without counters, signals and wake-ups: it knows*)
(* who holds it and who waits for it, and a thread that is let in holds it *)
(* at once.  Waiting writers have priority, also over readers that are     *)
(* still inside.  It promises nothing once an entry was enforced.          *)
(***************************************************************************)
CONSTANT Threads
VARIABLES place, enforced
vars == <<place, enforced>>

With(S) == {t \in Threads : place[t] \in S}

Init == place = [t \in Threads |-> "out"] /\ enforced = FALSE

LockWrite(t) ==
    /\ place[t] = "out"
    /\ place' = [place EXCEPT ![t] =
           IF With({"write", "read", "waitW", "waitR"}) = {} THEN "write" ELSE "waitW"]
    /\ UNCHANGED enforced

LockRead(t) ==
    /\ place[t] = "out"
    /\ place' = [place EXCEPT ![t] =
           IF With({"write", "waitW"}) = {} THEN "read" ELSE "waitR"]
    /\ UNCHANGED enforced

\* A waiting writer gets the place of any thread that leaves
HandToWriter(t, u) ==
    /\ place[t] \in {"write", "read"} /\ place[u] = "waitW"
    /\ place' = [place EXCEPT ![t] = "out", ![u] = "write"]
    /\ UNCHANGED enforced

\* The last writer leaves and no other waits: all readers get in
AdmitReaders(t) ==
    /\ With({"write", "waitW"}) = {t} /\ place[t] = "write"
    /\ place' = [u \in Threads |-> IF u = t THEN "out"
                                   ELSE IF place[u] = "waitR" THEN "read"
                                   ELSE place[u]]
    /\ UNCHANGED enforced

\* No writer waits, and t reads or another writer stays
Leave(t) ==
    /\ place[t] \in {"write", "read"}
    /\ With({"waitW"}) = {} /\ With({"write"}) # {t}
    /\ place' = [place EXCEPT ![t] = "out"]
    /\ UNCHANGED enforced

Enforce == enforced'

Next ==
    \/ \E t \in Threads :
           \/ LockWrite(t) \/ LockRead(t) \/ AdmitReaders(t) \/ Leave(t)
           \/ \E u \in Threads : HandToWriter(t, u)
    \/ Enforce

Spec == Init /\ [][Next]_vars
============================================================================
