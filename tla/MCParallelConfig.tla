-------------------------- MODULE MCParallelConfig --------------------------
(* Settings to model-check ParallelConfig with: none, the documented         *)
(* examples, one with two decimals and one that rounds to no slot.           *)
EXTENDS ParallelConfig
MCFactors == {0, 20, 100, 125, 150, 200, 250}
============================================================================
