-------------------------- MODULE MCParallelSlots --------------------------
(* Model values and symmetry for the model checking of ParallelSlots. *)
EXTENDS ParallelSlots, TLC

CONSTANTS c1, c2, s1, s2, s3, s4

MCClients  == {c1, c2}
MCServices == {s1, s2, s3, s4}

\* One client zaps through all services; the other one stays with one of them
\* and also sends ECMs without a service id.
MCRequests == ({c1} \X MCServices) \cup ({c2} \X {s4, NoService})

Symmetry == Permutations({s1, s2, s3})
============================================================================
