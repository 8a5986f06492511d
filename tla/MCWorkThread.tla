---------------------------- MODULE MCWorkThread ----------------------------
(* Jobs and threads to model-check WorkThread with. *)
EXTENDS WorkThread
CONSTANTS j1, j2, j3, w1, w2, w3
MCJobs == {j1, j2, KillJob}
OnlyJobs == {j1, j2, j3, KillJob}
MCWorkers == {w1, w2, w3}
AnyClient == BOOLEAN
NoSocket == {FALSE}
============================================================================
