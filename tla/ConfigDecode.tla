------------------------------ MODULE ConfigDecode ------------------------------
(***************************************************************************)
(* The configuration decoder and builder of ephemerkey-config/src/lib.rs:  *)
(* from the integer-keyed CBOR map an owner seals to the tables that the   *)
(* engines run on.                                                         *)
(*                                                                         *)
(* A document is a tree of items; a map is the sequence of its pairs, so a *)
(* key may come twice, and the last one counts.  A decoder of a stream     *)
(* that stops at its first error reads what this one reads off the tree.   *)
(*                                                                         *)
(* Abstractions.                                                           *)
(*  - A secret is its name and its length.                                 *)
(*  - An absent index (Option<u8>) is -1; an absent part is an empty       *)
(*    sequence.  A 32-bit or 64-bit number is not cut to its width.        *)
(*  - A zone is its radius; its coordinates are only clamped.              *)
(***************************************************************************)
EXTENDS Integers, Sequences, SequencesExt

CONSTANTS
  MAX_SECRET, MAX_KEYS, MAX_SLOTS, MAX_PATH_LEGS, MAX_QUORUM,
  MAX_CALENDARS, MAX_ZONES, MAX_RADIUS_M

ASSUME TableAssumption ==
  {MAX_SECRET, MAX_KEYS, MAX_SLOTS, MAX_PATH_LEGS, MAX_QUORUM, MAX_CALENDARS,
   MAX_ZONES, MAX_RADIUS_M} \subseteq Nat

\* Items.
Uint(n) == [type |-> "uint", value |-> n]
Bool(b) == [type |-> "bool", value |-> b]
Text(name) == [type |-> "tstr", value |-> name]
Bytes(secret) == [type |-> "bstr", value |-> secret]
Array(items) == [type |-> "array", value |-> items]
Map(pairs) == [type |-> "map", value |-> pairs]

\* Result<_, Error>
Ok(value) == [error |-> "none", value |-> value]
Fail(error) == [error |-> error]
Good(result) == result.error = "none"
Then(result, Op(_)) == IF Good(result) THEN Op(result.value) ELSE result

Typed(item, type) == IF item.type = type THEN Ok(item.value) ELSE Fail("Malformed")

NoIndex == -1
NoSecret == [name |-> "none", len |-> -1]

-------------------------------------------------------------------------------
(***************************************************************************)
(* Single fields.                                                          *)
(***************************************************************************)

\* Numbers outside these are refused.
Named ==
  [role   |-> [v \in 1 .. 2 |-> <<"Generator", "LockController">>[v]],
   action |-> [v \in 0 .. 2 |-> <<"Unlock", "Lock", "DuressUnlock">>[v + 1]],
   mode   |-> [v \in 0 .. 2 |-> <<"Sequence", "Time", "Both">>[v + 1]],
   digits |-> [v \in 4 .. 10 |-> v]]

\* Numbers outside these mean the default.
Lenient ==
  [display |-> [default |-> "Plain", names |-> <<"Scatter">>],
   once    |-> [default |-> "Unlimited", names |-> <<"Refuse", "Decoy">>]]

\* What `as u8` and `as u16` keep.
Width == [u8 |-> 256, u16 |-> 65536]

\* Arrays of indices, and how many they may hold.
Indices == [legs |-> MAX_PATH_LEGS, quorum |-> MAX_QUORUM]

read_secret(item) ==
  Then(Typed(item, "bstr"),
       LAMBDA s : IF s.len > MAX_SECRET THEN Fail("TooLong") ELSE Ok(s))

read_idx_array(max, item) ==
  Then(Typed(item, "array"),
       LAMBDA a :
         FoldLeft(LAMBDA r, x :
                    Then(r, LAMBDA out :
                      Then(Typed(x, "uint"), LAMBDA v :
                        IF Len(out) = max THEN Fail("TooLong")
                        ELSE Ok(Append(out, v % Width.u8)))),
                  Ok(<<>>), a))

FromName(kind, item) ==
  Then(Typed(item, "uint"),
       LAMBDA v : IF v \in DOMAIN Named[kind] THEN Ok(Named[kind][v]) ELSE Fail("BadField"))

Leaf(kind, item) ==
  CASE kind \in DOMAIN Width -> Then(Typed(item, "uint"), LAMBDA v : Ok(v % Width[kind]))
    [] kind = "u32" -> Typed(item, "uint")
    [] kind = "bool" -> Typed(item, "bool")
    [] kind = "secret" -> read_secret(item)
    [] kind \in DOMAIN Indices -> read_idx_array(Indices[kind], item)
    [] kind \in DOMAIN Named -> FromName(kind, item)
    [] kind \in DOMAIN Lenient ->
         Then(Typed(item, "uint"),
              LAMBDA v : Ok(IF v \in DOMAIN Lenient[kind].names THEN Lenient[kind].names[v]
                            ELSE Lenient[kind].default))

-------------------------------------------------------------------------------
(***************************************************************************)
(* Maps: the field of key k is fields[k]; what is not there is skipped.    *)
(***************************************************************************)
F(name, kind) == [name |-> name, kind |-> kind]
Reserved == F("none", "none")

Fields(Read(_, _), fields, start, pairs) ==
  FoldLeft(LAMBDA r, p :
             Then(r, LAMBDA rec :
               IF p[1] \notin DOMAIN fields \/ fields[p[1]] = Reserved THEN Ok(rec)
               ELSE Then(Read(fields[p[1]].kind, p[2]),
                         LAMBDA v : Ok([rec EXCEPT ![fields[p[1]].name] = v]))),
           Ok(start), pairs)

ReadMap(Read(_, _), fields, start, item) ==
  Then(Typed(item, "map"), LAMBDA pairs : Fields(Read, fields, start, pairs))

\* A field without which the map is refused.
Needs(result, field, none) ==
  Then(result, LAMBDA rec : IF rec[field] = none THEN Fail("BadField") ELSE Ok(rec))

\* Option<_>
Some(result) == Then(result, LAMBDA v : Ok(<<v>>))

PlainDisplay ==
  [mode |-> "Plain", dwell_ms |-> 800, reveal_s |-> 5, once |-> "Unlimited", gap_min_s |-> 0]

parse_display(item) ==
  ReadMap(Leaf,
          <<F("mode", "display"), F("dwell_ms", "u16"), F("reveal_s", "u16"),
            F("once", "once"), F("gap_min_s", "u16")>>,
          PlainDisplay, item)

parse_chain(item) ==
  Needs(ReadMap(Leaf,
                <<F("secret", "secret"), F("digits", "digits"), F("mode", "mode"),
                  F("action", "action"), F("min_elapsed_s", "u32"), F("max_age_s", "u32")>>,
                [secret |-> NoSecret, digits |-> 6, mode |-> "Sequence", action |-> "Lock",
                 min_elapsed_s |-> 0, max_age_s |-> 3600], item),
        "secret", NoSecret)

parse_key(item) ==
  Needs(ReadMap(LAMBDA kind, x :
                  CASE kind = "shown" -> Some(parse_display(x))
                    [] kind = "chained" -> Some(parse_chain(x))
                    [] OTHER -> Leaf(kind, x),
                <<F("secret", "secret"), F("digits", "digits"), F("decoy", "u8"),
                  F("display", "shown"), F("chain", "chained"), Reserved, F("gated", "bool")>>,
                [secret |-> NoSecret, digits |-> 6, decoy |-> NoIndex,
                 display |-> <<>>, chain |-> <<>>, gated |-> FALSE], item),
        "secret", NoSecret)

parse_confirm(item) ==
  Needs(ReadMap(Leaf,
                <<F("secret", "secret"), F("digits", "digits"), F("mode", "mode")>>,
                [secret |-> NoSecret, digits |-> 6, mode |-> "Sequence"], item),
        "secret", NoSecret)

parse_calendar(item) ==
  ReadMap(Leaf,
          <<F("days_mask", "u8"), F("start_min", "u16"), F("end_min", "u16")>>,
          [days_mask |-> 0, start_min |-> 0, end_min |-> 0], item)

-------------------------------------------------------------------------------
(***************************************************************************)
(* Slots.                                                                  *)
(***************************************************************************)
parse_gates(item) ==
  ReadMap(Leaf,
          <<F("own_fence", "u8"), F("stillness_s", "u16"), F("calendar", "u8")>>,
          [own_fence |-> NoIndex, stillness_s |-> 0, calendar |-> NoIndex], item)

Negative(kind, secs) == [kind |-> kind, secs |-> secs]

parse_negative(item) ==
  Then(Typed(item, "array"), LAMBDA a :
    IF Len(a) = 0 THEN Fail("BadField")
    ELSE Then(Typed(a[1], "uint"), LAMBDA v :
      CASE v = 0 -> Ok(Negative("Reset", 0))
        [] v = 1 -> Ok(Negative("Silent", 0))
        [] v = 2 /\ Len(a) > 1 ->
             Then(Typed(a[2], "uint"), LAMBDA s : Ok(Negative("Lockout", s % Width.u16)))
        [] OTHER -> Fail("BadField")))

parse_sequence(pairs) ==
  Fields(Leaf,
         <<Reserved, F("n", "u8"), F("window_s", "u16"), F("gap_min_s", "u16"),
           F("gap_max_s", "u16"), F("delay_min_s", "u16"), F("delay_max_s", "u16"),
           F("pace_jitter_s", "u16")>>,
         [kind |-> "Sequence", n |-> 1, window_s |-> 0, gap_min_s |-> 0, gap_max_s |-> 0,
          delay_min_s |-> 0, delay_max_s |-> 60, pace_jitter_s |-> 0], pairs)

parse_path(pairs) ==
  Fields(Leaf,
         <<Reserved, F("leg_keys", "legs"), F("leg_deadline_s", "u16"), F("delay_max_s", "u16")>>,
         [kind |-> "Path", leg_keys |-> <<>>, leg_deadline_s |-> 0, delay_max_s |-> 60], pairs)

parse_deadman(pairs) ==
  Fields(Leaf, <<Reserved, F("beat_s", "u16")>>, [kind |-> "DeadMan", beat_s |-> 0], pairs)

parse_quorum(pairs) ==
  Fields(Leaf,
         <<Reserved, F("m", "u8"), F("keys", "quorum"), F("window_s", "u16"),
           F("alternating", "bool"), F("gap_min_s", "u16"), F("gap_max_s", "u16")>>,
         [kind |-> "Quorum", m |-> 0, keys |-> <<>>, window_s |-> 0, alternating |-> FALSE,
          gap_min_s |-> 0, gap_max_s |-> Width.u16 - 1], pairs)

\* The type comes first.
parse_policy(item) ==
  Then(Typed(item, "map"), LAMBDA pairs :
    IF Len(pairs) = 0 \/ pairs[1][1] # 1 THEN Fail("BadField")
    ELSE Then(Typed(pairs[1][2], "uint"), LAMBDA type :
      CASE type = 0 -> Ok([kind |-> "AlwaysValid"])
        [] type = 1 -> parse_sequence(Tail(pairs))
        [] type = 2 -> parse_path(Tail(pairs))
        [] type = 3 -> parse_deadman(Tail(pairs))
        [] type = 4 -> parse_quorum(Tail(pairs))
        [] OTHER -> Fail("BadField")))

NoPolicy == [kind |-> "none"]

parse_slot(item) ==
  Needs(ReadMap(LAMBDA kind, x :
                  CASE kind = "policy" -> parse_policy(x)
                    [] kind = "negative" -> parse_negative(x)
                    [] kind = "gates" -> parse_gates(x)
                    [] OTHER -> Leaf(kind, x),
                <<F("key", "u8"), F("action", "action"), F("policy", "policy"),
                  F("show_progress", "bool"), F("reset_on_invalid", "bool"),
                  F("negative", "negative"), F("gates", "gates"), F("veto_delay_s", "u16"),
                  F("veto_key", "u8"), F("budget", "u16")>>,
                [key |-> 0, action |-> "Unlock", policy |-> NoPolicy, show_progress |-> FALSE,
                 reset_on_invalid |-> TRUE, negative |-> Negative("Reset", 0),
                 gates |-> [own_fence |-> NoIndex, stillness_s |-> 0, calendar |-> NoIndex],
                 veto_delay_s |-> 0, veto_key |-> NoIndex, budget |-> 0], item),
        "policy", NoPolicy)

-------------------------------------------------------------------------------
(***************************************************************************)
(* The document.                                                           *)
(***************************************************************************)

\* A table of a fixed size.  Given twice, the second list covers the first only as
\* far as it reaches.
ParseTable(Parse1(_), max, old, item) ==
  Then(Typed(item, "array"), LAMBDA a :
    Then(FoldLeft(LAMBDA r, x :
                    Then(r, LAMBDA new :
                      Then(Parse1(x), LAMBDA v :
                        IF Len(new) = max THEN Fail("TooLong") ELSE Ok(Append(new, v)))),
                  Ok(<<>>), a),
         LAMBDA new : Ok(new \o SubSeq(old, Len(new) + 1, Len(old)))))

parse_zone(item) ==
  Then(Typed(item, "array"), LAMBDA a :
    IF Len(a) < 3 THEN Fail("Malformed")
    ELSE Then(Typed(a[3], "uint"),
              LAMBDA r : Ok(IF r > MAX_RADIUS_M THEN MAX_RADIUS_M ELSE r)))

\* Zones beyond the last place are read and dropped.
parse_zones(item) ==
  Then(Typed(item, "array"), LAMBDA a :
    FoldLeft(LAMBDA r, x :
               Then(r, LAMBDA zones :
                 Then(parse_zone(x), LAMBDA z :
                   Ok(IF Len(zones) < MAX_ZONES THEN Append(zones, z) ELSE zones))),
             Ok(<<>>), a))

\* (mutant: a feature that is not known is no reason to refuse)
check_crit_Never(known, item) == Ok(TRUE)

check_crit(known, item) ==
  Then(Typed(item, "array"), LAMBDA a :
    FoldLeft(LAMBDA r, x :
               Then(r, LAMBDA ok :
                 Then(Typed(x, "tstr"), LAMBDA name :
                   IF name \in known THEN Ok(TRUE) ELSE Fail("Unsupported"))),
             Ok(TRUE), a))

\* DeviceModel::empty()
EmptyModel ==
  [role |-> "Generator", staleness_s |-> 90, unlock_window_s |-> 30, zones |-> <<>>,
   keys |-> <<>>, slots |-> <<>>, calendars |-> <<>>, confirm |-> <<>>]

Entry(m, key, item, known) ==
  LET Set(field, result) == Then(result, LAMBDA v : Ok([m EXCEPT ![field] = v]))
  IN  CASE key = 1 -> Set("role", Leaf("role", item))
        [] key = 2 -> Set("staleness_s", Leaf("u32", item))
        [] key = 3 -> Set("zones", parse_zones(item))
        [] key = 4 -> Set("keys", ParseTable(parse_key, MAX_KEYS, m.keys, item))
        [] key = 5 -> Set("slots", ParseTable(parse_slot, MAX_SLOTS, m.slots, item))
        [] key = 6 -> Set("calendars",
                          ParseTable(parse_calendar, MAX_CALENDARS, m.calendars, item))
        [] key = 7 -> Set("confirm", Some(parse_confirm(item)))
        [] key = 8 -> Then(check_crit(known, item), LAMBDA ok : Ok(m))
        [] key = 9 -> Set("unlock_window_s", Leaf("u32", item))
        [] OTHER -> Ok(m)

\* parse()
Parse(item, known) ==
  Needs(Then(Typed(item, "map"), LAMBDA pairs :
          FoldLeft(LAMBDA r, p : Then(r, LAMBDA m : Entry(m, p[1], p[2], known)),
                   Ok([EmptyModel EXCEPT !.role = "none"]), pairs)),
        "role", "none")

-------------------------------------------------------------------------------
(***************************************************************************)
(* The engines' tables.                                                    *)
(***************************************************************************)
KeyDef(k) == [secret |-> k.secret, digits |-> k.digits, decoy |-> k.decoy]

build_lock(m) ==
  [keys |-> [i \in DOMAIN m.keys |-> KeyDef(m.keys[i])],
   slots |-> m.slots,
   receipts |-> m.confirm]

\* (mutant: the twin is looked up one place further on)
Twin_OffByOne(m, k) ==
  IF k.decoy + 2 \in DOMAIN m.keys THEN <<KeyDef(m.keys[k.decoy + 2])>> ELSE <<>>

\* The decoy twin's own definition, if its index names a key.
Twin(m, k) ==
  IF k.decoy + 1 \in DOMAIN m.keys THEN <<KeyDef(m.keys[k.decoy + 1])>> ELSE <<>>

\* Only keys with a display or a chain are revealed.
build_generator(m) ==
  [i \in DOMAIN m.keys |->
     LET k == m.keys[i]
     IN  IF k.display = <<>> /\ k.chain = <<>> THEN <<>>
         ELSE <<[key |-> KeyDef(k), decoy |-> Twin(m, k),
                 display |-> IF k.display = <<>> THEN PlainDisplay ELSE k.display[1],
                 chain |-> k.chain, gated |-> k.gated]>>]

\* CalWindow.open_at: 1970-01-01 was a Thursday, day 4 of the week.
OpenAt(w, time) ==
  LET weekday == (((time \div 86400) % 7) + 4) % 7
      minute == (time % 86400) \div 60
  IN  /\ (w.days_mask \div 2 ^ weekday) % 2 = 1
      /\ w.start_min <= minute /\ minute < w.end_min

\* Calendars.open
CalendarOpen(m, window, time) ==
  window + 1 \in DOMAIN m.calendars /\ OpenAt(m.calendars[window + 1], time)
===============================================================================
