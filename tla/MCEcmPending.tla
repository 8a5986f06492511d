---------------------------- MODULE MCEcmPending ----------------------------
(* Symmetry of the requests of EcmPending for TLC. *)
EXTENDS EcmPending

Symmetry == Permutations(Requests)
============================================================================
