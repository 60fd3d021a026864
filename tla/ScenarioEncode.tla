----------------------------- MODULE ScenarioEncode -----------------------------
(***************************************************************************)
(* The writer of configurations: how ephemerkey-emu/src/main.rs encodes a  *)
(* scenario as the integer-keyed CBOR map that ConfigDecode reads.         *)
(*                                                                         *)
(* A scenario names the same things as the tables of ConfigDecode, in the  *)
(* owner's terms: its slots and keys are the records the engines are to    *)
(* run on; a calendar has days and two times of day; actions, modes and    *)
(* kinds are words.  The numbers of a scenario fit their fields, as its    *)
(* Rust types have it; only the seconds of a lockout and the times of day  *)
(* are read from text.                                                     *)
(***************************************************************************)
EXTENDS ConfigDecode, FiniteSetsExt

\* The pair of an optional part, or none.
Maybe(present, pair) == IF present THEN <<pair>> ELSE <<>>

\* action_u: any other word is an unlock.
action_u(action) == CASE action = "Lock" -> 1 [] action = "DuressUnlock" -> 2 [] OTHER -> 0

mode_u(mode) == CASE mode = "Sequence" -> 0 [] mode = "Time" -> 1 [] mode = "Both" -> 2

\* One bit per day, 0 for Sunday; what is no day of the week is left out.
days_mask(days) == SumSet({2 ^ d : d \in {x \in days : x < 7}})

hhmm_min(time) == time.hour * 60 + time.minute

Uints(numbers) == Array([i \in DOMAIN numbers |-> Uint(numbers[i])])

-------------------------------------------------------------------------------
enc_display(d) ==
  Map(<< <<1, Uint(IF d.mode = "Scatter" THEN 1 ELSE 0)>>,
         <<2, Uint(d.dwell_ms)>>,
         <<3, Uint(d.reveal_s)>>,
         <<4, Uint(CASE d.once = "Refuse" -> 1 [] d.once = "Decoy" -> 2 [] OTHER -> 0)>>,
         <<5, Uint(d.gap_min_s)>> >>)

enc_chain(c) ==
  Map(<< <<1, Bytes(c.secret)>>, <<2, Uint(c.digits)>>, <<3, Uint(mode_u(c.mode))>>,
         <<4, Uint(action_u(c.action))>>, <<5, Uint(c.min_elapsed_s)>>,
         <<6, Uint(c.max_age_s)>> >>)

enc_key(k) ==
  Map(<< <<1, Bytes(k.secret)>>, <<2, Uint(k.digits)>> >>
      \o Maybe(k.decoy # NoIndex, <<3, Uint(k.decoy)>>)
      \o [i \in DOMAIN k.display |-> <<4, enc_display(k.display[i])>>]
      \o [i \in DOMAIN k.chain |-> <<5, enc_chain(k.chain[i])>>]
      \o Maybe(k.gated, <<7, Bool(TRUE)>>))

enc_policy(p) ==
  Map(CASE p.kind = "AlwaysValid" -> << <<1, Uint(0)>> >>
        [] p.kind = "Sequence" ->
             << <<1, Uint(1)>>, <<2, Uint(p.n)>>, <<3, Uint(p.window_s)>>,
                <<4, Uint(p.gap_min_s)>>, <<5, Uint(p.gap_max_s)>>,
                <<6, Uint(p.delay_min_s)>>, <<7, Uint(p.delay_max_s)>>,
                <<8, Uint(p.pace_jitter_s)>> >>
        [] p.kind = "Path" ->
             << <<1, Uint(2)>>, <<2, Uints(p.leg_keys)>>, <<3, Uint(p.leg_deadline_s)>>,
                <<4, Uint(p.delay_max_s)>> >>
        [] p.kind = "DeadMan" -> << <<1, Uint(3)>>, <<2, Uint(p.beat_s)>> >>
        [] p.kind = "Quorum" ->
             << <<1, Uint(4)>>, <<2, Uint(p.m)>>, <<3, Uints(p.keys)>>,
                <<4, Uint(p.window_s)>>, <<5, Bool(p.alternating)>>,
                <<6, Uint(p.gap_min_s)>>, <<7, Uint(p.gap_max_s)>> >>)

enc_gates(g) ==
  Map(Maybe(g.own_fence # NoIndex, <<1, Uint(g.own_fence)>>)
      \o << <<2, Uint(g.stillness_s)>> >>
      \o Maybe(g.calendar # NoIndex, <<3, Uint(g.calendar)>>))

enc_negative(n) ==
  CASE n.kind = "Silent" -> Uints(<<1>>)
    [] n.kind = "Lockout" -> Uints(<<2, n.secs>>)
    [] OTHER -> Uints(<<0>>)

enc_slot(s) ==
  Map(<< <<1, Uint(s.key)>>, <<2, Uint(action_u(s.action))>>, <<3, enc_policy(s.policy)>>,
         <<4, Bool(s.show_progress)>>, <<5, Bool(s.reset_on_invalid)>>,
         <<6, enc_negative(s.negative)>>, <<7, enc_gates(s.gates)>>,
         <<8, Uint(s.veto_delay_s)>> >>
      \o Maybe(s.veto_key # NoIndex, <<9, Uint(s.veto_key)>>)
      \o << <<10, Uint(s.budget)>> >>)

enc_calendar(c) ==
  Map(<< <<1, Uint(days_mask(c.days))>>, <<2, Uint(hhmm_min(c.start))>>,
         <<3, Uint(hhmm_min(c.end))>> >>)

enc_confirm(c) ==
  Map(<< <<1, Bytes(c.secret)>>, <<2, Uint(c.digits)>>, <<3, Uint(mode_u(c.mode))>> >>)

\* A list of the document, absent when it has no elements.
Listed(key, Enc1(_), list) ==
  Maybe(list # <<>>, <<key, Array([i \in DOMAIN list |-> Enc1(list[i])])>>)

\* The unlock window goes with a gated key.
HasCascade(scn) == \E i \in DOMAIN scn.keys : scn.keys[i].gated

scenario_to_cbor(scn) ==
  Map(<< <<1, Uint(1)>> >>
      \o Maybe(HasCascade(scn), <<9, Uint(scn.unlock_window_s)>>)
      \o Listed(4, enc_key, scn.keys)
      \o Listed(5, enc_slot, scn.slots)
      \o Listed(6, enc_calendar, scn.calendars)
      \o [i \in DOMAIN scn.confirm |-> <<7, enc_confirm(scn.confirm[i])>>]
      \o Listed(8, Text, scn.crit))
===============================================================================
