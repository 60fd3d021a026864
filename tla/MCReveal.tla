-------------------------------- MODULE MCReveal --------------------------------
(***************************************************************************)
(* A key with every protection, and one with none.                         *)
(***************************************************************************)
EXTENDS RevealGate

TwoKeys ==
  [full |-> [once |-> "Decoy", gap_min_s |-> 2, gated |-> TRUE, decoy |-> TRUE,
             chain |-> TRUE, min_elapsed_s |-> 1],
   bare |-> [once |-> "Unlimited", gap_min_s |-> 0, gated |-> FALSE, decoy |-> FALSE,
             chain |-> FALSE, min_elapsed_s |-> 0]]
===============================================================================
