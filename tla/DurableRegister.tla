---------------------------- MODULE DurableRegister ----------------------------
(***************************************************************************)
(* What a store that survives power loss promises: a value that changes    *)
(* only when a save completes, all at once, and that a device which powers *)
(* up again always finds.                                                  *)
(***************************************************************************)
CONSTANTS
  Value,    \* what may be stored
  Initial,  \* what a blank device holds
  Off       \* the running copy of a device without power

VARIABLES
  durable,  \* what a power loss leaves
  live,     \* the running copy, or Off
  saving    \* a save of the running copy is under way

rvars == <<durable, live, saving>>

Init ==
  /\ durable = Initial
  /\ live = Initial
  /\ saving = FALSE

\* The running copy changes first and is then saved.
Save ==
  /\ live # Off /\ ~saving
  /\ live' \in Value
  /\ saving' = TRUE
  /\ UNCHANGED durable

Saved ==
  /\ saving
  /\ durable' = live
  /\ saving' = FALSE
  /\ UNCHANGED live

SaveFails ==
  /\ saving
  /\ saving' = FALSE
  /\ UNCHANGED <<durable, live>>

PowerLoss ==
  /\ live # Off
  /\ live' = Off
  /\ saving' = FALSE
  /\ UNCHANGED durable

Restart ==
  /\ live = Off
  /\ live' = durable
  /\ UNCHANGED <<durable, saving>>

Next == Save \/ Saved \/ SaveFails \/ PowerLoss \/ Restart

Spec == Init /\ [][Next]_rvars
===============================================================================
