------------------------------ MODULE MCCsLock ------------------------------
(* Threads to model-check CsLock with: all of them read and write. *)
EXTENDS CsLock
CONSTANTS t1, t2, t3, t4, t5
FiveThreads == {t1, t2, t3, t4, t5}
============================================================================
