------------------------------ MODULE ConfigStore ------------------------------
(***************************************************************************)
(* The flash journal of ephemerkey-store/src/lib.rs: a RAM mirror of the   *)
(* configuration record, saved alternately into two flash slots under a    *)
(* growing generation number.  Power may be lost, and the flash may refuse *)
(* an erase or a write, between any two steps.                             *)
(*                                                                         *)
(* Abstractions.                                                           *)
(*  - A slot holds a record that passes its checks, or nothing: a page that*)
(*    is erased, torn, or fails its CRC parses to None.                    *)
(*  - Reading a slot succeeds (the adapter refuses only addresses out of   *)
(*    the bank).                                                           *)
(*  - A write that the flash refuses leaves no complete record.            *)
(*  - The generation does not wrap: flash wears out long before 2^32 saves.*)
(*  - Credentials too long for their fields are refused without a change.  *)
(*  - The identity page is the subject of the first boot only and is left  *)
(*    out; it shares no page with the slots.                               *)
(***************************************************************************)
EXTENDS Integers

CONSTANTS
  Owner,      \* owner public keys
  NoOwner,    \* owner: None
  Config,     \* configurations
  NoConfig,   \* the empty configuration
  Oversize,   \* the configurations longer than CONFIG_CAP
  Wifi,       \* credentials
  NoWifi,     \* no SSID
  Blank,      \* a slot without a valid record
  MaxSave     \* bound: saves started

ASSUME StoreAssumption ==
  /\ NoOwner \notin Owner /\ NoConfig \notin Config /\ NoWifi \notin Wifi
  /\ Oversize \subseteq Config
  /\ MaxSave \in Nat

Slot == {"a", "b"}
NoSlot == "none"

\* What the mirror holds and a record preserves.
Contents ==
  [owner : Owner \cup {NoOwner}, seq : Nat, config : Config \cup {NoConfig},
   wifi : Wifi \cup {NoWifi}]
Empty == [owner |-> NoOwner, seq |-> 0, config |-> NoConfig, wifi |-> NoWifi]

Record == [generation : Nat, contents : Contents]

ASSUME BlankAssumption == Blank \notin Record /\ Blank \notin Contents

VARIABLES
  flash,       \* flash[s]: the record of slot s, or Blank
  mirror,      \* the journal's RAM copy, or Blank without power
  generation,  \* of the live record
  cur_slot,    \* the live slot, or NoSlot
  stage        \* how far persist() has come

jvars == <<flash, mirror, generation, cur_slot, stage>>

JInit ==
  /\ flash = [s \in Slot |-> Blank]
  /\ mirror = Empty
  /\ generation = 0
  /\ cur_slot = NoSlot
  /\ stage = "idle"

On == mirror # Blank
Idle == On /\ stage = "idle"

-------------------------------------------------------------------------------
\* The mirror takes its new value, and persist() begins.
Begin(contents) ==
  /\ Idle /\ generation < MaxSave
  /\ mirror' = contents
  /\ stage' = "erase"
  /\ UNCHANGED <<flash, generation, cur_slot>>

\* A configuration too long for a slot is refused before anything changes.
CommitTooBig(config) ==
  /\ Idle /\ config \in Oversize
  /\ UNCHANGED jvars

CommitConfig(owner, seq, config) ==
  /\ config \notin Oversize
  /\ Begin([mirror EXCEPT !.owner = owner, !.seq = seq, !.config = config])

WifiSet(wifi) == Begin([mirror EXCEPT !.wifi = wifi])

WifiClear == Begin([mirror EXCEPT !.wifi = NoWifi])

\* (mutant: always the first slot)
Target_NotStale == "a"

\* The slot persist() writes: the one that is not live.
Target == IF cur_slot = "a" THEN "b" ELSE "a"

Erase ==
  /\ On /\ stage = "erase"
  /\ flash' = [flash EXCEPT ![Target] = Blank]
  /\ stage' = "write"
  /\ UNCHANGED <<mirror, generation, cur_slot>>

\* (mutant: the generation stays)
NextGeneration_Same == generation

NextGeneration == generation + 1

Write ==
  /\ On /\ stage = "write"
  /\ flash' = [flash EXCEPT ![Target] =
                 [generation |-> NextGeneration, contents |-> mirror]]
  /\ cur_slot' = Target
  /\ generation' = NextGeneration
  /\ stage' = "idle"
  /\ UNCHANGED mirror

\* The flash refuses: the slot is as it was or torn, and persist() returns the
\* error without looking back.
FlashFails ==
  /\ On /\ stage \in {"erase", "write"}
  /\ \E page \in {flash[Target], Blank} : flash' = [flash EXCEPT ![Target] = page]
  /\ stage' = "idle"
  /\ UNCHANGED <<mirror, generation, cur_slot>>

\* Power is lost.  What it leaves of an erase or a write that was under way is
\* what that step left when it ended, or the erased page it found.
PowerLoss ==
  /\ On
  /\ mirror' = Blank
  /\ generation' = 0
  /\ cur_slot' = NoSlot
  /\ stage' = "idle"
  /\ UNCHANGED flash

\* load_config: slot a, then slot b if it is newer.
Newest ==
  IF flash["a"] = Blank THEN (IF flash["b"] = Blank THEN NoSlot ELSE "b")
  ELSE IF flash["b"] # Blank /\ flash["b"].generation > flash["a"].generation
    THEN "b" ELSE "a"

Mounted == IF Newest = NoSlot THEN Empty ELSE flash[Newest].contents

Mount ==
  /\ ~On
  /\ mirror' = Mounted
  /\ cur_slot' = Newest
  /\ generation' = IF Newest = NoSlot THEN 0 ELSE flash[Newest].generation
  /\ UNCHANGED <<flash, stage>>

JNext ==
  \/ \E owner \in Owner, seq \in Nat, config \in Config : CommitConfig(owner, seq, config)
  \/ \E config \in Config : CommitTooBig(config)
  \/ \E wifi \in Wifi : WifiSet(wifi)
  \/ WifiClear
  \/ Erase
  \/ Write
  \/ FlashFails
  \/ PowerLoss
  \/ Mount

JSpec == JInit /\ [][JNext]_jvars

-------------------------------------------------------------------------------
\* Every variable has the type of its field in Journal.
JTypeOK ==
  /\ flash \in [Slot -> Record \cup {Blank}]
  /\ mirror \in Contents \cup {Blank}
  /\ generation \in Nat
  /\ cur_slot \in Slot \cup {NoSlot}
  /\ stage \in {"idle", "erase", "write"}

Register ==
  INSTANCE DurableRegister WITH
    Value   <- Contents,
    Initial <- Empty,
    Off     <- Blank,
    durable <- Mounted,
    live    <- mirror,
    saving  <- stage # "idle"

\* A record is replaced only as a whole, only by a save that completed, and
\* whatever power loss or flash fault comes in between, the next mount finds
\* the record of the last one ("the live slot is untouched until this returns
\* Ok", persist, ephemerkey-store/src/lib.rs:263-309).
SavesAreAtomic == Register!Spec
===============================================================================
