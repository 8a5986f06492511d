----------------------------- MODULE MCCwCache -----------------------------
(* Symmetry of the ECMs and of the CWs of CwCache for TLC. *)
EXTENDS CwCache

Symmetry == Permutations(Hashes) \cup Permutations(CWs)
============================================================================
