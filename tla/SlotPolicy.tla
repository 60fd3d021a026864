------------------------------ MODULE SlotPolicy ------------------------------
(***************************************************************************)
(* The per-slot policy state machines of ephemerkey-core/src/policy.rs, as *)
(* operators: what one slot does with a code it has matched (OnCode) and   *)
(* what time alone does to it (Expired).                                   *)
(*                                                                         *)
(* Abstractions.                                                           *)
(*  - All five policies share one record; a field a policy lacks is       *)
(*    ignored.  `need` is n / legs / m, `keys` lists the slot's candidate  *)
(*    keys (its one key, leg_keys, or the quorum keys), and for a Path     *)
(*    `gap_max` is leg_deadline_s.                                         *)
(*  - The xorshift generator behind randomized pacing is a nondeterministic*)
(*    draw over every value it can return.                                 *)
(*  - A kidx counts from 1, not 0.                                         *)
(*  - Differences of two u32 times wrap modulo Word, as they do in the     *)
(*    release profile when the clock has been stepped back.                *)
(***************************************************************************)
EXTENDS Integers, FiniteSets, Sequences

CONSTANTS
  PERIOD_S,  \* length of one TOTP period (30 s in the code)
  Word,      \* modulus of the u32 second counter
  Keys,      \* key table: real keys and decoy twins
  NoKey      \* Option::None where a key index may be absent

ASSUME PeriodAssumption == PERIOD_S \in Nat \ {0}
ASSUME WordAssumption == Word \in Nat \ {0}
ASSUME KeyAssumption == NoKey \notin Keys

PolicyKinds == {"AlwaysValid", "Sequence", "Path", "DeadMan", "Quorum"}

Policy ==
  [kind : PolicyKinds, need : Nat \ {0}, keys : Seq(Keys), window : Nat,
   gap_min : Nat, gap_max : Nat, delay_min : Nat, delay_max : Nat,
   pace_jitter : Nat, beat : Nat, alternating : BOOLEAN]

\* Policy::delay_window: how old a code may be when it is typed in.
DelayWindow(p) ==
  CASE p.kind = "Sequence" -> [min |-> p.delay_min, max |-> p.delay_max]
    [] p.kind = "Path"     -> [min |-> 0, max |-> p.delay_max]
    [] OTHER               -> [min |-> 0, max |-> 2 * PERIOD_S]

SlotState ==
  [count : Nat, last_counter : Nat, window_start : Nat, last_code : Nat,
   sustained : BOOLEAN, seen : SUBSET Nat, last_kidx : Nat,
   pace_lo : Nat, pace_hi : Nat]

\* SlotState::default(), which SlotState::reset() restores.
Fresh ==
  [count |-> 0, last_counter |-> 0, window_start |-> 0, last_code |-> 0,
   sustained |-> FALSE, seen |-> {}, last_kidx |-> 0,
   pace_lo |-> 0, pace_hi |-> 0]

-------------------------------------------------------------------------------

\* u32 subtraction of two times.
Since(t, now) == (now - t) % Word

\* Seconds between the minting of the last accepted code and of this one.
GenGap(st, counter) == (counter - st.last_counter) * PERIOD_S

Between(x, lo, hi) == lo <= x /\ x <= hi

\* (mutant: the tightening is not clamped)
PaceWindows_Unclamped(p) ==
  [lo : p.gap_min .. (p.gap_min + p.pace_jitter),
   hi : (p.gap_max - p.pace_jitter) .. p.gap_max]

\* SlotState::pace_draw: each bound tightens by at most half the span.
PaceWindows(p) ==
  LET span == IF p.gap_max >= p.gap_min THEN p.gap_max - p.gap_min ELSE 0
      j    == IF p.pace_jitter <= span \div 2 THEN p.pace_jitter ELSE span \div 2
  IN  [lo : p.gap_min .. (p.gap_min + j), hi : (p.gap_max - j) .. p.gap_max]

Result(st, verdict) == [st |-> st, verdict |-> verdict]

\* (mutant: one code short)
Satisfied_Early(p, st) == st.count + 1 >= p.need

\* A round that is complete fires and starts over; one that is not goes on.
Satisfied(p, st) == st.count >= p.need

Counted(st, counter, now) ==
  [st EXCEPT !.count = @ + 1, !.last_counter = counter, !.last_code = now]

OnSequence(p, st, counter, now) ==
  LET violated ==
        /\ st.count > 0
        /\ \/ ~Between(GenGap(st, counter), st.pace_lo, st.pace_hi)
           \/ Since(st.window_start, now) > p.window
      start == IF st.count = 0 THEN now ELSE st.window_start
      next  == Counted([st EXCEPT !.window_start = start], counter, now)
  IN  IF violated THEN {Result(Fresh, "Reset")}
      ELSE IF Satisfied(p, next) THEN {Result(Fresh, "Fire")}
      ELSE {Result([next EXCEPT !.pace_lo = w.lo, !.pace_hi = w.hi], "Progress")
              : w \in PaceWindows(p)}

OnPath(p, st, counter, now) ==
  LET dawdled == st.count > 0 /\ GenGap(st, counter) > p.gap_max
      next    == Counted(st, counter, now)
  IN  IF dawdled THEN {Result(Fresh, "Reset")}
      ELSE IF Satisfied(p, next) THEN {Result(Fresh, "Fire")}
      ELSE {Result(next, "Progress")}

OnDeadMan(st, counter, now) ==
  LET alive == [st EXCEPT !.last_counter = counter, !.last_code = now]
  IN  IF st.sustained
        THEN {Result(alive, "Beat")}
        ELSE {Result([alive EXCEPT !.sustained = TRUE, !.count = 1], "Fire")}

\* (mutant: a member may contribute again)
Repeats_Never(st, kidx) == FALSE

\* This generator already contributed to the round.
Repeats(st, kidx) == st.count > 0 /\ kidx \in st.seen

OnQuorum(p, st, kidx, counter, now) ==
  LET violated ==
        /\ st.count > 0
        /\ \/ Since(st.window_start, now) > p.window
           \/ ~Between(GenGap(st, counter), p.gap_min, p.gap_max)
           \/ p.alternating /\ kidx = st.last_kidx
      start == IF st.count = 0 THEN now ELSE st.window_start
      next  == Counted([st EXCEPT !.window_start = start, !.last_kidx = kidx,
                                  !.seen = @ \cup {kidx}], counter, now)
  IN  IF violated THEN {Result(Fresh, "Reset")}
      ELSE IF Repeats(st, kidx) THEN {Result([st EXCEPT !.last_counter = counter], "Ignored")}
      ELSE IF Satisfied(p, next) THEN {Result(Fresh, "Fire")}
      ELSE {Result(next, "Progress")}

\* SlotState::on_code: the results a matched code may have, more than one only
\* under randomized pacing.
OnCode(p, st, kidx, counter, now) ==
  IF st.count > 0 /\ counter <= st.last_counter
    THEN {Result(st, "Ignored")}
    ELSE CASE p.kind = "AlwaysValid" -> {Result(st, "Fire")}
           [] p.kind = "Sequence"    -> OnSequence(p, st, counter, now)
           [] p.kind = "Path"        -> OnPath(p, st, counter, now)
           [] p.kind = "DeadMan"     -> OnDeadMan(st, counter, now)
           [] p.kind = "Quorum"      -> OnQuorum(p, st, kidx, counter, now)

\* SlotState::tick: the round is stale and is dropped.  A Path never expires by
\* arrival time.
Expired(p, st, now) ==
  \/ /\ p.kind = "Sequence"
     /\ st.count > 0
     /\ Since(st.last_code, now) > p.gap_max + (p.delay_max - p.delay_min)
  \/ /\ p.kind = "Quorum"
     /\ st.count > 0
     /\ Since(st.window_start, now) > p.window
  \/ /\ p.kind = "DeadMan"
     /\ st.sustained
     /\ Since(st.last_code, now) > p.beat

\* (mutant: a Path keeps offering its first leg)
Candidates_FirstLeg(p, st) == IF p.kind = "Quorum" THEN DOMAIN p.keys ELSE {1}

\* LockEngine::candidates: the keys a code may match for this slot right now.
Candidates(p, st) ==
  CASE p.kind = "Path"   -> {IF st.count < p.need THEN st.count + 1 ELSE p.need}
    [] p.kind = "Quorum" -> DOMAIN p.keys
    [] OTHER             -> {1}
===============================================================================
