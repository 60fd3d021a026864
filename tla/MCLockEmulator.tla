---------------------------- MODULE MCLockEmulator ----------------------------
(***************************************************************************)
(* Slot tables for the emulator's caller.                                  *)
(***************************************************************************)
EXTENDS LockEmulator

CONSTANTS kA, kB, kDecoy, kVeto

AnySlot(policy) ==
  [policy |-> policy, gates |-> {}, action |-> "Unlock",
   reset_on_invalid |-> TRUE, negative |-> [kind |-> "Reset", secs |-> 0],
   veto_delay |-> 0, veto_key |-> NoKey, budget |-> 0]

AnyPolicy(kind, key) ==
  [kind |-> kind, need |-> 1, keys |-> <<key>>, window |-> 0,
   gap_min |-> 0, gap_max |-> 0, delay_min |-> 0, delay_max |-> 0,
   pace_jitter |-> 0, beat |-> 0, alternating |-> FALSE]

DecoyOfA == [k \in Keys |-> IF k = kA THEN kDecoy ELSE NoKey]
NoDecoys == [k \in Keys |-> NoKey]

DeadMan(key) == [AnyPolicy("DeadMan", key) EXCEPT !.beat = 3]

\* One dead-man slot that opens at once.
DeadManTable == <<AnySlot(DeadMan(kA))>>

\* A dead-man slot, and a courier slot that announces itself.
MixedTable ==
  <<AnySlot(DeadMan(kA)),
    [AnySlot(AnyPolicy("AlwaysValid", kB)) EXCEPT
       !.veto_delay = 3, !.veto_key = kVeto, !.budget = 1]>>

\* Two dead-man slots behind veto windows.
TwinVetoTable ==
  <<[AnySlot(DeadMan(kA)) EXCEPT !.veto_delay = 5],
    [AnySlot(DeadMan(kB)) EXCEPT !.veto_delay = 5]>>
===============================================================================
