-------------------------------- MODULE MCLock --------------------------------
(***************************************************************************)
(* Small slot tables for LockEngine and the modules built on it.  Times    *)
(* are scaled: PERIOD_S is 2, so that a code can be half a period old.     *)
(***************************************************************************)
EXTENDS LockHistory

CONSTANTS
  kA, kB, kC,            \* the keys of the scan scenario
  kRhythm,               \* the key of the rhythm scenario
  kFenced, kDecoy, kCourier, kVeto   \* the keys of the veto scenario

\* Every field a policy may lack.
AnyPolicy(kind, keys) ==
  [kind |-> kind, need |-> 1, keys |-> keys, window |-> 0,
   gap_min |-> 0, gap_max |-> 0, delay_min |-> 0, delay_max |-> 0,
   pace_jitter |-> 0, beat |-> 0, alternating |-> FALSE]

AnySlot(policy) ==
  [policy |-> policy, gates |-> {}, action |-> "Unlock",
   reset_on_invalid |-> FALSE, negative |-> [kind |-> "Silent", secs |-> 0],
   veto_delay |-> 0, veto_key |-> NoKey, budget |-> 0]

DecoyOfFenced == [k \in Keys |-> IF k = kFenced THEN kDecoy ELSE NoKey]

\* Three codes, minted two to six seconds apart with every step's window drawn
\* afresh, typed while two to four seconds old, within seven seconds.
Rhythm ==
  [AnyPolicy("Sequence", <<kRhythm>>) EXCEPT
     !.need = 3, !.window = 7, !.gap_min = 2, !.gap_max = 6,
     !.pace_jitter = 3, !.delay_min = 2, !.delay_max = 4]
RhythmSlots == <<[AnySlot(Rhythm) EXCEPT !.reset_on_invalid = TRUE]>>

\* Out by zone A, through zone B, and back through A; and, on the same keys,
\* all three holders, each code minted right after another, not the same holder
\* twice in a row.  A code of A or B that the path is waiting for never reaches
\* the quorum; the window lets a holder repeat a code between two others.
Walk ==
  [AnyPolicy("Path", <<kA, kB, kA>>) EXCEPT
     !.need = 3, !.gap_max = 4, !.delay_max = 4]
AllThree ==
  [AnyPolicy("Quorum", <<kA, kB, kC>>) EXCEPT
     !.need = 3, !.window = 2, !.gap_min = 2, !.gap_max = 2, !.alternating = TRUE]
ScanSlots ==
  <<AnySlot(Walk), [AnySlot(AllThree) EXCEPT !.reset_on_invalid = TRUE]>>

\* A gated two-code rhythm that a poison code locks out, and below it a courier
\* key on the same table, good for one opening that is announced two seconds
\* ahead and that the holder of kVeto may stop.
GatedRhythm ==
  [AnyPolicy("Sequence", <<kFenced>>) EXCEPT
     !.need = 2, !.window = 2, !.gap_min = 2, !.gap_max = 4, !.delay_max = 2]
VetoSlots ==
  <<[AnySlot(GatedRhythm) EXCEPT
       !.gates = GateKinds, !.negative = [kind |-> "Lockout", secs |-> 2]],
    [AnySlot(AnyPolicy("AlwaysValid", <<kCourier>>)) EXCEPT
       !.budget = 1, !.veto_delay = 2, !.veto_key = kVeto, !.reset_on_invalid = TRUE]>>

\* One table of all of them.  No two groups of slots share a key, so what one
\* group does with its codes the others do not see.
RoundsTable == RhythmSlots \o ScanSlots \o VetoSlots

-------------------------------------------------------------------------------
\* Each behaviour plays one scenario: the keys whose codes are typed (and
\* noise), how far the clock runs, and whether it is set and gates shut.
VARIABLE scenario

Scenarios ==
  {[keys |-> {kRhythm}, limit |-> 18, disturbed |-> FALSE],
   [keys |-> {kA, kB, kC}, limit |-> 10, disturbed |-> FALSE],
   [keys |-> {kFenced, kDecoy, kCourier, kVeto}, limit |-> 11, disturbed |-> TRUE]}

\* A code older than every delay window at StartTime is noise, like NoCode.
Typed ==
  {code \in Codes : \/ code = NoCode
                    \/ code.key \in scenario.keys /\ code.counter >= StartTime \div PERIOD_S - 2}

Shut == IF scenario.disturbed THEN SUBSET GateKinds ELSE {{}}

MCInit == HInit /\ scenario \in Scenarios

MCNext ==
  /\ \/ HTick
     \/ \E code \in Typed, shut \in Shut : HEnter(code, shut)
     \/ HOther /\ now' <= scenario.limit /\ (now' < now => scenario.disturbed)
  /\ UNCHANGED scenario

MCSpec == MCInit /\ [][MCNext]_<<hvars, scenario>>
===============================================================================
