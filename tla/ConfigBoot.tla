------------------------------- MODULE ConfigBoot -------------------------------
(***************************************************************************)
(* From an owner's scenario to the tables a device runs on: the host seals *)
(* the document (ScenarioEncode), the device stores it (Provision), and    *)
(* its next boot loads and decodes it (ConfigDecode, ephemerkey-rs/src/    *)
(* config.rs).  A device serves its host and loads its configuration once, *)
(* as it gets power; the emulator keeps a state file instead and decodes   *)
(* before it commits.                                                      *)
(*                                                                         *)
(* A configuration is a document: a scenario, and what another writer of   *)
(* the format makes of it.                                                 *)
(***************************************************************************)
EXTENDS Provision, ScenarioEncode

CONSTANTS
  Document,    \* Document[c]: the scenario and the edits of configuration c
  Features,    \* FIRMWARE_FEATURES, or known_features()
  Holdings     \* the sets of blobs that the hosts may hold

ASSUME DocumentAssumption ==
  /\ Config = DOMAIN Document
  /\ \A blobs \in Holdings : blobs \subseteq Blobs

VARIABLES
  held,      \* the blobs the hosts hold
  running    \* the model the device booted with

bvars == <<pvars, held, running>>

\* What the console does with a document the emulator would write.
Edited(edit, cbor) ==
  LET pairs == cbor.value
  IN  CASE edit = "none" -> cbor
        [] edit = "lock" -> Map(Tail(pairs) \o << <<1, Uint(2)>> >>)
        [] edit = "later" -> Map(<< <<42, Array(<<Uint(7)>>)>> >> \o pairs \o << <<2, Uint(60)>> >>)
        [] edit = "zoned" ->
             Map(pairs \o << <<3, Array(<<Uints(<<5, 6, MAX_RADIUS_M + 1>>)>>)>> >>)
        [] edit = "no_role" -> Map(Tail(pairs))
        [] edit = "no_type" -> Map(pairs \o << <<5, Array(<<Map(<< <<3, Map(<< <<2, Uint(1)>> >>)>> >>)>>)>> >>)
        [] edit = "no_list" -> Map(pairs \o << <<6, Uint(1)>> >>)

Cbor(c) == Edited(Document[c].edit, scenario_to_cbor(Document[c].scenario))

Decoded(c) == Parse(Cbor(c), Features)

\* A store that decodes before it commits refuses these.
Undecodable == {c \in DOMAIN Document : ~Good(Decoded(c))}
Nothing == {}

\* load(): nothing stored, or nothing that can be run, means shut.
load(c) ==
  IF c = NoConfig THEN EmptyModel
  ELSE LET m == Decoded(c) IN IF Good(m) THEN m.value ELSE EmptyModel

BInit ==
  /\ PInit
  /\ held \in Holdings
  /\ running = EmptyModel

\* A boot mounts the journal and loads what it finds there.
Boot ==
  /\ PowerUp
  /\ running' = load(Mounted.config)
  /\ UNCHANGED held

BNext ==
  \/ (Serve(held) \/ PowerCut) /\ UNCHANGED <<held, running>>
  \/ Boot

BSpec == BInit /\ [][BNext]_bvars

-------------------------------------------------------------------------------
(***************************************************************************)
(* Properties.                                                             *)
(***************************************************************************)

\* The moments at which windows are compared: a week of them.
Week == {86400 * d + 60 * m : d \in 0 .. 6, m \in {0, 59, 60, 539, 540, 719, 720, 1439}}

Minutes(time) == 60 * time.hour + time.minute

Definition(k) == [secret |-> k.secret, digits |-> k.digits, decoy |-> k.decoy]

\* What the owner asked for, in the scenario's own terms.  Day 0 of the epoch was a
\* Thursday.
OpensAt(cal, time) ==
  /\ (4 + (time \div 86400)) % 7 \in cal.days
  /\ (time % 86400) \div 60 \in Minutes(cal.start) .. Minutes(cal.end) - 1

ShownKey(scn, k) ==
  [key |-> Definition(k),
   decoy |-> IF k.decoy \in 0 .. Len(scn.keys) - 1
               THEN <<Definition(scn.keys[k.decoy + 1])>> ELSE <<>>,
   display |-> IF k.display # <<>> THEN k.display[1] ELSE PlainDisplay,
   chain |-> k.chain, gated |-> k.gated]

\* No device may run it: it asks for what this one lacks, does not fit, or is not
\* well formed.
Dishonoured(c) ==
  LET scn == Document[c].scenario
      secrets == {scn.keys[i].secret : i \in DOMAIN scn.keys}
                 \cup {scn.confirm[i].secret : i \in DOMAIN scn.confirm}
  IN  \/ Document[c].edit \in {"no_role", "no_type", "no_list"}
      \/ \E i \in DOMAIN scn.crit : scn.crit[i] \notin Features
      \/ \E s \in secrets : s.len > MAX_SECRET
      \/ \E i \in DOMAIN scn.keys : scn.keys[i].digits \notin 4 .. 10
      \/ Len(scn.keys) > MAX_KEYS \/ Len(scn.slots) > MAX_SLOTS
      \/ Len(scn.calendars) > MAX_CALENDARS
      \/ \E i \in DOMAIN scn.slots :
           LET p == scn.slots[i].policy
           IN  \/ p.kind = "Path" /\ Len(p.leg_keys) > MAX_PATH_LEGS
               \/ p.kind = "Quorum" /\ Len(p.keys) > MAX_QUORUM

RunsAs(m, c) ==
  LET scn == Document[c].scenario
  IN  /\ m.role = IF Document[c].edit = "lock" THEN "LockController" ELSE "Generator"
      /\ build_lock(m) = [keys |-> [i \in DOMAIN scn.keys |-> Definition(scn.keys[i])],
                          slots |-> scn.slots, receipts |-> scn.confirm]
      /\ build_generator(m) =
           [i \in DOMAIN scn.keys |->
              IF scn.keys[i].display = <<>> /\ scn.keys[i].chain = <<>> THEN <<>>
              ELSE <<ShownKey(scn, scn.keys[i])>>]
      /\ \A i \in 0 .. MAX_CALENDARS, time \in Week :
           CalendarOpen(m, i, time) <=>
             i + 1 \in DOMAIN scn.calendars /\ OpensAt(scn.calendars[i + 1], time)
      /\ \A i \in DOMAIN m.zones : m.zones[i] <= MAX_RADIUS_M
      /\ m.staleness_s = IF Document[c].edit = "later" THEN 60 ELSE 90
      /\ m.unlock_window_s =
           IF \E i \in DOMAIN scn.keys : scn.keys[i].gated THEN scn.unlock_window_s ELSE 30

\* A device runs exactly what its owner wrote, slot by slot and key by key, or it
\* is shut: no protection is dropped, defaulted or moved to another field on the
\* way through the encoder, the flash and the decoder ("on-device behavior and the
\* simulator can never diverge", ephemerkey-config/src/lib.rs:1-4, 119-122).
RunsAsWritten ==
  [][~On /\ On' =>
       LET c == mirror'.config
       IN  IF c = NoConfig \/ Dishonoured(c) THEN running' = EmptyModel
           ELSE RunsAs(running', c)]_bvars

\* A configuration the device acknowledged is one its next boot can run, as long as
\* it is the one in store ("Inspect a fully verified config BEFORE it is committed",
\* validate_config, ephemerkey-provision/src/lib.rs:39-46).
AckedRuns ==
  acked # NoBlob /\ Mounted.seq = acked.seq => Good(Decoded(Mounted.config))
===============================================================================
