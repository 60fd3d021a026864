------------------------------ MODULE MCGenerator ------------------------------
(***************************************************************************)
(* A dial for GeneratorTask: a gated key with a twin, and a bare key.      *)
(***************************************************************************)
EXTENDS GeneratorTask

AnyKey == [once |-> "Unlimited", gap_min_s |-> 0, gated |-> FALSE, decoy |-> FALSE,
           chain |-> FALSE, min_elapsed_s |-> 0]
DialKeys == [gated |-> [AnyKey EXCEPT !.gated = TRUE, !.decoy = TRUE], bare |-> AnyKey]
Ring == <<"gated", "bare">>
===============================================================================
